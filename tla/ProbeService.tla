----------------------------- MODULE ProbeService -----------------------------
(***************************************************************************)
(* The Probe Service (probe/service.py) over the proxy of its backend.     *)
(* Each request has a handler, which answers the client and gives up at    *)
(* the deadline, and a task, which waits for the backend lock and then     *)
(* calls the proxy from a thread.  A handler that gives up a request with  *)
(* an irreversible effect first has the child ended.  The service stops at *)
(* its owner's wish or when its lease is gone; before the lease is         *)
(* released, the handlers, the tasks and the child come to an end.         *)
(***************************************************************************)
EXTENDS ProbeWorker

CONSTANTS
    Request,        \* requests of the clients
    Level           \* what a request is: some of "read", "control", "program", "attach"

ASSUME LevelsKnown == Level \subseteq {"read", "control", "program", "attach"}
ASSUME NoneNoRequest == None \notin Request

\* The threads that use the proxy: of the tasks, of the handlers, of stop().
Worker(r) == <<"task", r>>
Helper(r) == <<"handler", r>>
Stopper == <<"stop", None>>

ASSUME ThreadsOfTheService ==
    Thread = {Worker(r) : r \in Request} \cup {Helper(r) : r \in Request} \cup {Stopper}

VARIABLES
    lease,          \* the service's lease: held, lost to it, or released
    stopping,       \* requests are no longer accepted
    draining,       \* modifications: accepted, refused, or refused and all over
    drainees,       \* the modifications the drain waits for
    backendLock,    \* the request whose task holds the backend lock
    level,          \* what each request is
    handler,        \* where the handler of each request is
    task,           \* where the task of each request is
    result,         \* how the task of each request ended
    checked,        \* the number of the call that checked the target's state
    outcome,        \* what the client of each request was told
    stop,           \* where the stopping of the service is
    stopOk          \* no step of stopping failed

requestVars == <<level, handler, task, result, checked, outcome>>
lifeVars == <<lease, stopping, stop, stopOk>>
drainVars == <<draining, drainees>>
serviceVars == <<requestVars, lifeVars, drainVars, backendLock>>
vars == <<workerVars, serviceVars>>

-----------------------------------------------------------------------------
HandlerSteps ==
    {"new", "reading", "waiting", "aborting", "joining", "recovering",
     "resuming", "verifying", "closing", "answered"}
TaskSteps == {"none", "queued", "checking", "between", "running", "done"}
Outcomes == {"none", "ok", "failed", "timeout", "refused"}
StopSteps == {"no", "runner", "tasks", "closing", "releasing", "done"}

Init ==
    /\ WorkerInit
    /\ lease = "held"
    /\ stopping = FALSE
    /\ draining = "no"
    /\ drainees = {}
    /\ backendLock = None
    /\ level \in [Request -> Level]
    /\ handler = [r \in Request |-> "new"]
    /\ task = [r \in Request |-> "none"]
    /\ result = [r \in Request |-> "none"]
    /\ checked = [r \in Request |-> 0]
    /\ outcome = [r \in Request |-> "none"]
    /\ stop = "no"
    /\ stopOk = TRUE

Irreversible(r) == level[r] \in {"control", "program"}

Answer(r, told) ==
    /\ handler' = [handler EXCEPT ![r] = "answered"]
    /\ outcome' = [outcome EXCEPT ![r] = told]

-----------------------------------------------------------------------------
(* Requests.                                                               *)

\* The access check passes, and the body of the request is awaited.
Accept(r) ==
    /\ handler[r] = "new"
    /\ ~stopping
    /\ handler' = [handler EXCEPT ![r] = "reading"]
    /\ UNCHANGED <<workerVars, level, task, result, checked, outcome,
                   lifeVars, drainVars, backendLock>>

\* The body did not come in time, or was no request; or the runner closes.
Refuse(r) ==
    /\ handler[r] = "reading"
    /\ Answer(r, "refused")
    /\ UNCHANGED <<workerVars, level, task, result, checked, lifeVars,
                   drainVars, backendLock>>

\* The request is known: its task is made, unless modifications are drained.
Submit(r) ==
    /\ handler[r] = "reading"
    /\ \/ /\ level[r] = "program" /\ draining # "no"
          /\ Answer(r, "refused")
          /\ UNCHANGED task
       \/ /\ level[r] # "program" \/ draining = "no"
          /\ handler' = [handler EXCEPT ![r] = "waiting"]
          /\ task' = [task EXCEPT ![r] = "queued"]
          /\ UNCHANGED outcome
    /\ UNCHANGED <<workerVars, level, result, checked, lifeVars, drainVars,
                   backendLock>>

\* Mutant: the task does not take the backend lock.
TakeBackend_Unlocked(r) ==
    /\ task[r] = "queued"
    /\ task' = [task EXCEPT ![r] =
                   IF level[r] = "control" THEN "checking" ELSE "running"]
    /\ StartCall(Worker(r), IF level[r] \in {"program", "attach"} THEN "act" ELSE "read")
    /\ UNCHANGED <<level, handler, result, checked, outcome, lifeVars, drainVars,
                   backendLock>>

\* The task gets the backend lock and enters the proxy; control first has its
\* authorization consumed, which may fail, and reads identity and state.
TakeBackend(r) ==
    /\ task[r] = "queued"
    /\ backendLock = None
    /\ backendLock' = r
    /\ task' = [task EXCEPT ![r] =
                   IF level[r] = "control" THEN "checking" ELSE "running"]
    /\ StartCall(Worker(r), IF level[r] \in {"program", "attach"} THEN "act" ELSE "read")
    /\ UNCHANGED <<level, handler, result, checked, outcome, lifeVars, drainVars>>

FailTask(r) ==
    /\ task' = [task EXCEPT ![r] = "done"]
    /\ result' = [result EXCEPT ![r] = "failed"]
    /\ backendLock' = None

DenyControl(r) ==
    /\ task[r] = "queued" /\ level[r] = "control"
    /\ backendLock = None
    /\ FailTask(r)
    /\ UNCHANGED <<workerVars, level, handler, checked, outcome, lifeVars, drainVars>>

\* The state is what was authorized, or it is not.
CheckState(r) ==
    /\ task[r] = "checking"
    /\ \/ /\ calls[Worker(r)].result = "ok"
          /\ checked' = [checked EXCEPT ![r] = calls[Worker(r)].id]
          /\ task' = [task EXCEPT ![r] = "between"]
          /\ UNCHANGED <<result, backendLock>>
       \/ /\ FailTask(r)
          /\ UNCHANGED checked
    /\ Forget(Worker(r))
    /\ UNCHANGED <<level, handler, outcome, lifeVars, drainVars>>

Control(r) ==
    /\ task[r] = "between"
    /\ task' = [task EXCEPT ![r] = "running"]
    /\ StartCall(Worker(r), "act")
    /\ UNCHANGED <<level, handler, result, checked, outcome, lifeVars,
                   drainVars, backendLock>>

\* The proxy returned: the task ends and leaves the backend lock.
EndTask(r) ==
    /\ task[r] = "running"
    /\ task' = [task EXCEPT ![r] = "done"]
    /\ result' = [result EXCEPT ![r] =
                     IF calls[Worker(r)].result = "ok" THEN "ok" ELSE "failed"]
    /\ backendLock' = None
    /\ Forget(Worker(r))
    /\ UNCHANGED <<level, handler, checked, outcome, lifeVars, drainVars>>

\* The handler passes on what its task brought.
Reply(r) ==
    /\ handler[r] = "waiting"
    /\ task[r] = "done"
    /\ Answer(r, result[r])
    /\ UNCHANGED <<workerVars, level, task, result, checked, lifeVars,
                   drainVars, backendLock>>

-----------------------------------------------------------------------------
(* Deadlines and cancelled handlers.                                       *)

\* Mutant: what is irreversible is given up like a read.
GiveUpRunning_NoAbort(r) ==
    /\ handler[r] = "waiting"
    /\ task[r] \in {"checking", "between", "running"}
    /\ Answer(r, "timeout")
    /\ UNCHANGED <<workerVars, level, task, result, checked, lifeVars,
                   drainVars, backendLock>>

\* The task has not entered the backend: it never will.
GiveUpQueued(r) ==
    /\ handler[r] = "waiting"
    /\ task[r] = "queued"
    /\ task' = [task EXCEPT ![r] = "done"]
    /\ result' = [result EXCEPT ![r] = "failed"]
    /\ Answer(r, "timeout")
    /\ UNCHANGED <<workerVars, level, checked, lifeVars, drainVars, backendLock>>

\* The task is in the backend.  A read is left to itself; an attach has a
\* second more; anything else is aborted.
GiveUpRunning(r) ==
    /\ handler[r] = "waiting"
    /\ task[r] \in {"checking", "between", "running"}
    /\ \/ /\ level[r] = "read"
          /\ Answer(r, "timeout")
          /\ UNCHANGED workerVars
       \/ /\ level[r] = "attach"
          /\ handler' = [handler EXCEPT ![r] = "recovering"]
          /\ UNCHANGED <<workerVars, outcome>>
       \/ /\ Irreversible(r)
          /\ handler' = [handler EXCEPT ![r] = "aborting"]
          /\ StartCall(Helper(r), "abort")
          /\ UNCHANGED outcome
    /\ UNCHANGED <<level, task, result, checked, lifeVars, drainVars, backendLock>>

\* Mutant: a child that could not be ended is waited for.
AbortOver_WhenGone(r) ==
    /\ handler[r] = "aborting"
    /\ calls[Helper(r)].result = "ok"
    /\ handler' = [handler EXCEPT ![r] = "joining"]
    /\ Forget(Helper(r))
    /\ UNCHANGED <<level, task, result, checked, outcome, lifeVars, drainVars,
                   backendLock>>

\* The abort is over; one that failed is the answer.
AbortOver(r) ==
    /\ handler[r] = "aborting"
    /\ \/ /\ calls[Helper(r)].result = "ok" /\ Irreversible(r)
          /\ handler' = [handler EXCEPT ![r] = "joining"]
          /\ UNCHANGED outcome
       \/ /\ calls[Helper(r)].result # "ok" \/ level[r] = "attach"
          /\ Answer(r, "failed")
    /\ Forget(Helper(r))
    /\ UNCHANGED <<level, task, result, checked, lifeVars, drainVars, backendLock>>

\* The task ended too; or it is itself ending the child, which may take longer
\* than the second it is given.
Join(r) ==
    /\ handler[r] = "joining"
    /\ task[r] = "done" \/ Killing(Worker(r))
    /\ Answer(r, "timeout")
    /\ UNCHANGED <<workerVars, level, task, result, checked, lifeVars,
                   drainVars, backendLock>>

\* An attach that succeeds late is undone: a service that may modify resumes
\* the target and looks at its state; the child is closed.  None of this waits
\* for the backend lock.
Recover(r) ==
    /\ handler[r] = "recovering"
    /\ \/ /\ task[r] = "done" /\ result[r] = "ok"
          /\ handler' = [handler EXCEPT ![r] = "resuming"]
          /\ StartCall(Helper(r), "act")
          /\ UNCHANGED outcome
       \/ /\ task[r] = "done" /\ result[r] = "ok"
          /\ handler' = [handler EXCEPT ![r] = "closing"]
          /\ UNCHANGED <<workerVars, outcome>>
       \/ /\ task[r] = "done" /\ result[r] # "ok"
          /\ Answer(r, "timeout")
          /\ UNCHANGED workerVars
       \/ /\ task[r] # "done"
          /\ handler' = [handler EXCEPT ![r] = "aborting"]
          /\ StartCall(Helper(r), "abort")
          /\ UNCHANGED outcome
    /\ UNCHANGED <<level, task, result, checked, lifeVars, drainVars, backendLock>>

Resumed(r) ==
    /\ handler[r] = "resuming"
    /\ handler' = [handler EXCEPT ![r] =
                      IF calls[Helper(r)].result = "ok" THEN "verifying" ELSE "closing"]
    /\ Forget(Helper(r))
    /\ UNCHANGED <<level, task, result, checked, outcome, lifeVars, drainVars,
                   backendLock>>

Verify(r) ==
    /\ handler[r] = "verifying"
    /\ \/ /\ StartCall(Helper(r), "read")
          /\ UNCHANGED handler
       \/ /\ Forget(Helper(r))
          /\ handler' = [handler EXCEPT ![r] = "closing"]
    /\ UNCHANGED <<level, task, result, checked, outcome, lifeVars, drainVars,
                   backendLock>>

\* What could not be undone is told as a failure.
CloseLate(r) ==
    /\ handler[r] = "closing"
    /\ \/ /\ StartCall(Helper(r), "close")
          /\ UNCHANGED <<handler, outcome>>
       \/ /\ Forget(Helper(r))
          /\ \/ calls[Helper(r)].result = "ok" /\ Answer(r, "timeout")
             \/ Answer(r, "failed")
    /\ UNCHANGED <<level, task, result, checked, lifeVars, drainVars, backendLock>>

-----------------------------------------------------------------------------
(* Draining modifications: who drains waits for those that have a task.    *)

StartDrain ==
    /\ draining = "no"
    /\ draining' = "asked"
    /\ drainees' = {r \in Request : level[r] = "program" /\ task[r] \notin {"none", "done"}}
    /\ UNCHANGED <<workerVars, requestVars, lifeVars, backendLock>>

Drained ==
    /\ draining = "asked"
    /\ \A r \in drainees : task[r] = "done"
    /\ draining' = "quiet"
    /\ UNCHANGED <<workerVars, requestVars, lifeVars, drainees, backendLock>>

-----------------------------------------------------------------------------
(* The lease and stopping.                                                 *)

\* Somebody reclaimed the lease.
LoseLease ==
    /\ lease = "held"
    /\ lease' = "lost"
    /\ UNCHANGED <<workerVars, requestVars, stopping, stop, stopOk, drainVars,
                   backendLock>>

\* The owner stops the service, or the heartbeat finds the lease lost.
Stop ==
    /\ stop = "no"
    /\ stop' = "runner"
    /\ stopping' = TRUE
    /\ UNCHANGED <<workerVars, requestVars, lease, stopOk, drainVars, backendLock>>

\* The runner waits for the handlers, which it cancels after a while.
RunnerCleaned ==
    /\ stop = "runner"
    /\ \A r \in Request : handler[r] \in {"new", "answered"}
    /\ stop' = "tasks"
    /\ UNCHANGED <<workerVars, requestVars, lease, stopping, stopOk, drainVars,
                   backendLock>>

\* Mutant: the tasks of the backend are not waited for.
CloseBackend_NoGather ==
    /\ stop = "tasks"
    /\ stop' = "closing"
    /\ StartCall(Stopper, "close")
    /\ UNCHANGED <<requestVars, lease, stopping, stopOk, drainVars, backendLock>>

CloseBackend ==
    /\ stop = "tasks"
    /\ \A r \in Request : task[r] \in {"none", "done"}
    /\ stop' = "closing"
    /\ StartCall(Stopper, "close")
    /\ UNCHANGED <<requestVars, lease, stopping, stopOk, drainVars, backendLock>>

BackendClosed ==
    /\ stop = "closing"
    /\ stop' = "releasing"
    /\ stopOk' = (calls[Stopper].result = "ok")
    /\ Forget(Stopper)
    /\ UNCHANGED <<requestVars, lease, stopping, drainVars, backendLock>>

\* The lease is released whether or not the child was closed.
Release ==
    /\ stop = "releasing"
    /\ stop' = "done"
    /\ lease' = IF lease = "held" THEN "released" ELSE lease
    /\ stopOk' = (stopOk /\ lease = "held")
    /\ UNCHANGED <<workerVars, requestVars, stopping, drainVars, backendLock>>

-----------------------------------------------------------------------------
Handle(r) ==
    \/ Refuse(r)
    \/ Submit(r)
    \/ Reply(r)
    \/ GiveUpQueued(r)
    \/ GiveUpRunning(r)
    \/ AbortOver(r)
    \/ Join(r)
    \/ Recover(r)
    \/ Resumed(r)
    \/ Verify(r)
    \/ CloseLate(r)

RunTask(r) ==
    \/ TakeBackend(r)
    \/ DenyControl(r)
    \/ CheckState(r)
    \/ Control(r)
    \/ EndTask(r)

Stopping == RunnerCleaned \/ CloseBackend \/ BackendClosed \/ Release

Proxy(t) == ProxyStep(t) /\ UNCHANGED serviceVars

Next ==
    \/ \E r \in Request : Accept(r) \/ Handle(r) \/ RunTask(r)
    \/ StartDrain \/ Drained
    \/ LoseLease \/ Stop \/ Stopping
    \/ \E t \in Thread : Proxy(t)
    \/ ChildStep /\ UNCHANGED serviceVars

Spec == Init /\ [][Next]_vars

-----------------------------------------------------------------------------
TypeOK ==
    /\ WorkerTypeOK
    /\ lease \in {"held", "lost", "released"}
    /\ stopping \in BOOLEAN
    /\ draining \in {"no", "asked", "quiet"}
    /\ drainees \subseteq Request
    /\ backendLock \in Request \cup {None}
    /\ level \in [Request -> Level]
    /\ handler \in [Request -> HandlerSteps]
    /\ task \in [Request -> TaskSteps]
    /\ result \in [Request -> {"none", "ok", "failed"}]
    /\ checked \in [Request -> Nat]
    /\ outcome \in [Request -> Outcomes]
    /\ stop \in StopSteps
    /\ stopOk \in BOOLEAN

\* The request the child works for.
Owner == {r \in Request : child.id \in {calls[Worker(r)].id, calls[Helper(r)].id}}

SomebodyKills == \E t \in Thread : Killing(t)

\* Whoever was told the end of a request that changes the hardware can rely on
\* it: the hardware does not act for a request that is answered, except while
\* the child is being ended or when it could not be ended.
NoActAfterAnswer ==
    [][acted' # acted =>
          \/ \E r \in Owner : handler[r] # "answered"
          \/ SomebodyKills
          \/ survived]_vars

\* A service that gave its lease back has no thread in the proxy and no child,
\* unless the child could not be ended: the next owner has the probe alone.
ReleasedIsQuiet ==
    lease = "released" =>
        /\ \A t \in Thread : At(t) = "idle"
        /\ \A r \in Request : task[r] \in {"none", "done"}
        /\ ChildGone \/ survived

\* After modifications were drained, no modification has a task, not even one
\* that was accepted before and submitted late.
DrainedIsQuiet ==
    draining = "quiet" =>
        \A r \in Request : level[r] = "program" => task[r] \in {"none", "done"}

\* Whoever was promised that the hardware is left alone finds it so: by the
\* answer to a request, by a drain, by the release of the lease.
HardwareQuiet == []ReleasedIsQuiet /\ []DrainedIsQuiet /\ NoActAfterAnswer

\* Between the check of the target and the action it authorizes, nothing else
\* is done to the target.  The recovery of a late attach is not bound by it: it
\* does not take the backend lock.
ControlActsOnWhatItChecked ==
    \A r \in Request :
        level[r] = "control" /\ task[r] = "running" /\ checked[r] # 0 =>
            acted \cap (checked[r] + 1 .. calls[Worker(r)].id - 1) = {}

\* A stop that reported success left no child behind.
SuccessProvesExit == stop = "done" /\ stopOk => ChildGone

=============================================================================
