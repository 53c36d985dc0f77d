------------------------------- MODULE OneShot -------------------------------
(***************************************************************************)
(* A hardware workflow that has a Probe Service to itself                  *)
(* (hardware_workflows.py): it starts the service, makes its requests one  *)
(* after the other, stops the service and tells its caller the result.     *)
(* "read" observes, "flash" programs, and "fault" halts a running target,  *)
(* looks at it, and sees to it that it runs again.  The core of the target *)
(* runs or stands still, and may come to a halt without being asked to.    *)
(***************************************************************************)
EXTENDS ProbeService

CONSTANTS
    Workflow,       \* what the caller may ask for: some of "read", "flash", "fault"
    Bind,           \* attaches and reads the firmware back
    Change,         \* programs, or halts
    Inspect,        \* reads the target
    Look,           \* reads the state of a target that was to be halted
    Resume,         \* lets it run
    After           \* reads whether it does

ASSUME WorkflowsKnown == Workflow \subseteq {"read", "flash", "fault"}
ASSUME RequestsOfAWorkflow == Request = {Bind, Change, Inspect, Look, Resume, After}
ASSUME RequestsDiffer ==
    /\ Bind \notin {Change, Inspect, Look, Resume, After}
    /\ Change \notin {Inspect, Look, Resume, After}
    /\ Inspect \notin {Look, Resume, After}
    /\ Look \notin {Resume, After} /\ Resume # After

VARIABLES
    workflow,       \* what the caller asked for
    step,           \* the request or decision the workflow is at
    verdict,        \* what it will tell: the worst of what it met
    told,           \* what the caller was told
    target,         \* the core: running, halted on request, stopped by itself
    order,          \* what the proxy's last request does to the core
    seen,           \* the state of the core that the last read of a request brought
    authorized      \* the state for which the next control request was authorized

clientVars == <<workflow, step, verdict, told>>
coreVars == <<target, order, seen, authorized>>
oneShotVars == <<vars, clientVars, coreVars>>

-----------------------------------------------------------------------------
WorkflowSteps == {"bind", "prepare", "change", "inspect", "look", "authorize",
           "resume", "after", "end", "told"}
Cores == {"running", "halted", "stopped"}
Reports == {"none", "running", "halted"}
Orders == {"none", "running", "halted"}

\* A core that stands still is reported as halted, whoever halted it.
Report(core) == IF core = "running" THEN "running" ELSE "halted"

LevelOf(r) ==
    CASE r = Bind -> "attach"
      [] r = Change -> IF workflow = "flash" THEN "program" ELSE "control"
      [] r = Resume -> "control"
      [] OTHER -> "read"

OneShotInit ==
    /\ Init
    /\ workflow \in Workflow
    /\ level = [r \in Request |-> LevelOf(r)]
    /\ step = "bind"
    /\ verdict = "ok"
    /\ told = "none"
    /\ target = "running"
    /\ order = "none"
    /\ seen = [r \in Request |-> "none"]
    /\ authorized = "none"

\* The request that the workflow awaits.
Current ==
    CASE step = "bind" -> {Bind}
      [] step = "change" -> {Change}
      [] step = "inspect" -> {Inspect}
      [] step = "look" -> {Look}
      [] step = "resume" -> {Resume}
      [] step = "after" -> {After}
      [] OTHER -> {}

\* It was answered, or met a service that accepts nothing any more.
Over(r) == handler[r] = "answered" \/ (handler[r] = "new" /\ stopping)
Good(r) == outcome[r] = "ok"

\* The service would answer a read at once.
Usable == ~stopping /\ ~closed /\ backendLock = None /\ child.at = "ready"

-----------------------------------------------------------------------------
(* The service, with what its requests do to the core and see of it.       *)

\* What the call of thread t does: a service that may modify halts the target
\* to attach to it, and the recovery of a late attach lets it run.
Effect(t) ==
    IF calls[t].kind # "act" THEN "none"
    ELSE CASE t = Worker(Bind) -> IF workflow = "flash" THEN "halted" ELSE "none"
           [] t = Worker(Change) -> "halted"
           [] t = Worker(Resume) \/ t = Helper(Bind) -> "running"
           [] OTHER -> "none"

Ask(r) ==
    /\ r \in Current
    /\ Accept(r)
    /\ UNCHANGED <<clientVars, coreVars>>

\* Only a service that may modify resumes after a late attach.
Serve(r) ==
    /\ Handle(r)
    /\ handler'[r] = "resuming" => workflow = "flash"
    /\ UNCHANGED <<clientVars, coreVars>>

\* Control goes on only when the core is as it was authorized.
Execute(r) ==
    /\ RunTask(r)
    /\ task[r] = "checking" /\ task'[r] = "between" => seen[r] = authorized
    /\ UNCHANGED <<clientVars, coreVars>>

Call(t) ==
    /\ Proxy(t)
    /\ order' = IF sequence' # sequence THEN Effect(t) ELSE order
    /\ UNCHANGED <<clientVars, target, seen, authorized>>

ChildServes ==
    /\ ChildStep /\ UNCHANGED serviceVars
    /\ target' = IF acted' # acted /\ order # "none" THEN order
                 ELSE target
    /\ seen' = [r \in Request |->
                  IF /\ workflow = "fault" /\ r # Inspect
                     /\ child.kind = "read" /\ answers' # answers
                     /\ child.at = "working" /\ calls[Worker(r)].id = child.id
                  THEN Report(target) ELSE seen[r]]
    /\ UNCHANGED <<clientVars, order, authorized>>

\* A fault, a breakpoint in the program or somebody else stops the core: a step
\* only where its state is read next, since nothing else depends on it.
TargetStops ==
    /\ target = "running"
    /\ workflow = "fault"
    /\ \/ child.at = "working" /\ child.kind = "read" /\ step # "inspect"
       \/ step \in {"prepare", "authorize"}
       \/ step = "bind" /\ handler[Bind] = "answered"
    /\ target' = "stopped"
    /\ UNCHANGED <<vars, clientVars, order, seen, authorized>>

\* The owner stops the service at the end.
StopService ==
    /\ step = "end"
    /\ Stop
    /\ UNCHANGED <<clientVars, coreVars>>

\* The heartbeat finds the lease lost and stops the service; a loss that it does
\* not find before the end is one for the release.
LeaseLost ==
    /\ lease = "held"
    /\ lease' = "lost"
    /\ \/ step # "end" /\ stop = "no" /\ stop' = "runner" /\ stopping' = TRUE
       \/ stop = "releasing" /\ UNCHANGED <<stop, stopping>>
    /\ UNCHANGED <<workerVars, requestVars, stopOk, drainVars, backendLock,
                   clientVars, coreVars>>

ServiceStops == Stopping /\ UNCHANGED <<clientVars, coreVars>>

-----------------------------------------------------------------------------
(* The workflow.                                                           *)

\* A failure gives way to a cancellation, and both to a clean-up that failed:
\* the target may not run again.
Cancelled == verdict = "cancelled"
Worse(met) == IF verdict = "cleanup" \/ met = "ok" \/ (Cancelled /\ met = "failed")
              THEN verdict ELSE met

\* What is over and decides nothing more is forgotten.
Forgotten == {r \in Current : handler[r] = "answered" /\ task[r] \in {"none", "done"}}
Clear(f, value) == [r \in Request |-> IF r \in Forgotten THEN value ELSE f[r]]

Go(to, met) ==
    /\ step' = to
    /\ verdict' = Worse(met)
    /\ result' = Clear(result, "none")
    /\ outcome' = Clear(outcome, "none")
    /\ checked' = Clear(checked, 0)
    /\ seen' = Clear(seen, "none")
    /\ UNCHANGED <<workflow, told, level, handler, task, workerVars,
                   lifeVars, drainVars, backendLock, target, order>>

\* An authorization names the state of the core that was read for it.
Authorize == authorized' = Report(target)
Unauthorized == authorized' = IF Current \subseteq Forgotten THEN "none" ELSE authorized

End(met) == Go("end", met) /\ Unauthorized

\* The target is attached to and holds the expected firmware; to be halted, it
\* has to run.
Bound ==
    /\ step = "bind" /\ Over(Bind)
    /\ \/ End("failed")
       \/ /\ Good(Bind)
          /\ \/ workflow = "read" /\ Go("inspect", "ok")
             \/ workflow = "flash" /\ Go("change", "ok")
             \/ /\ workflow = "fault" /\ ~Cancelled
                /\ Usable /\ target = "running"
                /\ Go("prepare", "ok")
          /\ Unauthorized

PrepareHalt ==
    /\ step = "prepare"
    /\ \/ End("failed")
       \/ /\ Usable /\ ~Cancelled
          /\ Authorize
          /\ Go("change", "ok")

\* Mutant: a halt that failed halted nothing.
Changed_NoRecovery ==
    /\ step = "change" /\ Over(Change)
    /\ \/ /\ Good(Change) /\ ~Cancelled
          /\ Go("inspect", "ok") /\ Unauthorized
       \/ End("failed")

\* After a halt, whatever became of it, the target is looked at.
Changed ==
    /\ step = "change" /\ Over(Change)
    /\ \/ /\ Good(Change) /\ ~Cancelled
          /\ Go("inspect", "ok") /\ Unauthorized
       \/ workflow = "flash" /\ End("failed")
       \/ workflow = "fault" /\ Go("look", "failed") /\ Unauthorized

Inspected ==
    /\ step = "inspect" /\ Over(Inspect)
    /\ \E met \in {"failed"} \cup {"ok" : x \in {r \in {Inspect} : Good(r)}} :
          \/ workflow = "fault" /\ Go("look", met) /\ Unauthorized
          \/ workflow # "fault" /\ End(met)

\* Whatever happened, the state of the target is read again.
Looked ==
    /\ step = "look" /\ Over(Look)
    /\ \/ End("cleanup")
       \/ Good(Look) /\ seen[Look] = "running" /\ End("ok")
       \/ /\ Good(Look) /\ seen[Look] = "halted"
          /\ Go("authorize", "ok") /\ Unauthorized

PrepareResume ==
    /\ step = "authorize"
    /\ \/ End("cleanup")
       \/ /\ Usable
          /\ Authorize
          /\ Go("resume", "ok")

Restarted ==
    /\ step = "resume" /\ Over(Resume)
    /\ \/ ~Good(Resume) /\ End("cleanup")
       \/ Good(Resume) /\ Go("after", "ok") /\ Unauthorized

\* The resume was answered, but did it happen?
Seen ==
    /\ step = "after" /\ Over(After)
    /\ \/ End("cleanup")
       \/ Good(After) /\ seen[After] = "running" /\ End("ok")

\* The time for the recovery is over: the request is left to itself.
TooLate ==
    /\ step \in {"look", "authorize", "resume", "after"}
    /\ End("cleanup")

\* Cancellation ends what a workflow awaits.  One that halts a target notes it
\* and goes on until the target runs again: a step only where that is asked.
Cancel ==
    /\ step # "told" /\ verdict \in {"ok", "failed"}
    /\ workflow = "fault" =>
          \/ step = "prepare"
          \/ step = "change" /\ Over(Change)
          \/ step = "end" /\ stop = "done"
    /\ verdict' = "cancelled"
    /\ step' = IF workflow = "fault" THEN step ELSE "end"
    /\ UNCHANGED <<vars, workflow, told, coreVars>>

\* The service is stopped; what could not be cleaned up comes before a
\* cancellation, and that before the result.
Tell ==
    /\ step = "end" /\ stop = "done"
    /\ step' = "told"
    /\ told' = IF stopOk THEN verdict ELSE "cleanup"
    /\ UNCHANGED <<vars, workflow, verdict, coreVars>>

Work ==
    \/ Bound \/ PrepareHalt \/ Changed \/ Inspected \/ Looked \/ PrepareResume
    \/ Restarted \/ Seen \/ Tell

-----------------------------------------------------------------------------
OneShotNext ==
    \/ \E r \in Request : Ask(r) \/ Serve(r) \/ Execute(r)
    \/ \E t \in Thread : Call(t)
    \/ ChildServes
    \/ TargetStops
    \/ StopService \/ LeaseLost \/ ServiceStops
    \/ Work \/ TooLate \/ Cancel

OneShotSpec == OneShotInit /\ [][OneShotNext]_oneShotVars

\* What the program does by itself: the event loop and the threads run, the
\* deadlines pass, and waits on the child are bounded.  The child, the target,
\* the lease and the caller promise nothing.
Progress ==
    \/ \E r \in Request : Ask(r) \/ Serve(r) \/ Execute(r)
    \/ \E t \in Thread : Call(t)
    \/ StopService \/ ServiceStops \/ Work

FairOneShot == OneShotSpec /\ WF_oneShotVars(Progress)

-----------------------------------------------------------------------------
OneShotTypeOK ==
    /\ TypeOK
    /\ workflow \in Workflow
    /\ step \in WorkflowSteps
    /\ verdict \in {"ok", "failed", "cancelled", "cleanup"}
    /\ told \in {"none", "ok", "failed", "cancelled", "cleanup"}
    /\ target \in Cores
    /\ order \in Orders
    /\ child.at \in {"working", "acted"} => child.id = sequence
    /\ seen \in [Request -> Reports]
    /\ authorized \in Reports

\* A caller who is not told that the clean-up failed does not find its target
\* halted by the analysis: whether it succeeded, failed or was cancelled, with
\* whatever answers lost or late, the target was let run again.
RunsAgainOrTold ==
    workflow = "fault" /\ told \in {"ok", "failed", "cancelled"} => target # "halted"

\* The workflow comes to an end: its caller is told a result, every request it
\* made is answered, and the service is stopped, whatever the child does.
WorkflowEnds ==
    <>(told # "none" /\ \A r \in Request : handler[r] \in {"new", "answered"})
=============================================================================
