----------------------------- MODULE ProbeWorker -----------------------------
(***************************************************************************)
(* The proxy of the probe backend and the one child process it owns        *)
(* (probe/worker.py).  Threads of the parent call the proxy; a lock makes  *)
(* them take turns; the child answers the requests of a pipe one by one.   *)
(* A call that times out or fails is aborted: the child is terminated, and *)
(* the proxy is closed for good.  Another thread may abort at any moment.  *)
(***************************************************************************)
EXTENDS Integers, Sequences, FiniteSets

CONSTANTS
    Thread,         \* threads of the parent that use the proxy
    None,           \* no thread
    MaxCalls        \* bound: requests the proxy numbers

ASSUME NoneNoThread == None \notin Thread
ASSUME CallsBound == MaxCalls \in Nat

VARIABLES
    child,          \* the child: what it does, for which request
    requests,       \* the pipe towards the child
    answers,        \* the pipe back
    acted,          \* requests for which the child touched the hardware
    sequence,       \* the number of the last request
    holder,         \* the thread that holds the call lock
    closed,         \* the proxy gave up its child
    connected,      \* the parent's end of the pipe is open
    survived,       \* the child was still alive after terminate and kill
    calls           \* what each thread does with the proxy

childVars == <<child, requests, answers, acted>>
proxyVars == <<sequence, holder, closed, connected, survived>>
workerVars == <<childVars, proxyVars, calls>>

-----------------------------------------------------------------------------
(* act: a method that changes the hardware's state; read: one that does     *)
(* not; metadata: a read that carries a deadline, also while it waits for   *)
(* the lock; close; abort: the owner's abort_owned_execution, which does    *)
(* not wait for the lock.                                                   *)
Kinds == {"act", "read", "metadata", "close", "abort"}
Steps == {"idle", "queued", "sending", "waiting", "aborting", "killing", "over"}
Results == {"none", "ok", "failed", "timeout", "unavailable", "unkilled"}

Ids == Nat
Calls == [at : Steps, kind : Kinds, id : Ids, result : Results]
NoCall == [at |-> "idle", kind |-> "act", id |-> 0, result |-> "none"]

\* acted: the hardware did what the request says, the answer is still to be
\* sent; leaving: the child's last answer is out, it detaches and exits.
ChildSteps == {"ready", "working", "acted", "leaving", "gone"}
Children == [at : ChildSteps, id : Ids, kind : Kinds]
Child(step) == [at |-> step, id |-> 0, kind |-> "act"]

Requests == [id : Ids, kind : Kinds]
Answers == [id : Ids, ok : BOOLEAN]

At(t) == calls[t].at
Active(t) == At(t) \in {"sending", "waiting"}
Killing(t) == At(t) = "killing"
ChildGone == child.at = "gone"

\* The requests that have a number, or wait for one.
Numbered == sequence + Cardinality({t \in Thread : At(t) = "queued"})

WorkerInit ==
    /\ child = Child("ready")
    /\ requests = <<>>
    /\ answers = <<>>
    /\ acted = {}
    /\ sequence = 0
    /\ holder = None
    /\ closed = FALSE
    /\ connected = TRUE
    /\ survived = FALSE
    /\ calls = [t \in Thread |-> NoCall]

\* Thread t leaves the call, and the lock with it if it has it.
Return(t, result) ==
    /\ calls' = [calls EXCEPT ![t].at = "over", ![t].result = result]
    /\ holder' = IF holder = t THEN None ELSE holder

-----------------------------------------------------------------------------
(* Calling.                                                                *)

\* A thread enters the proxy; close returns at once from a closed proxy.
StartCall(t, kind) ==
    /\ At(t) = "idle"
    /\ kind # "abort" => Numbered < MaxCalls
    /\ calls' = [calls EXCEPT ![t] =
           [NoCall EXCEPT !.kind = kind,
                          !.at = CASE kind = "abort" -> "aborting"
                                   [] kind = "close" /\ closed -> "over"
                                   [] OTHER -> "queued",
                          !.result = IF kind = "abort" \/ (kind = "close" /\ closed)
                                     THEN "ok" ELSE "none"]]
    /\ UNCHANGED <<childVars, proxyVars>>

\* Only a call with a deadline tires of waiting for the lock.
GiveUp(t) ==
    /\ At(t) = "queued"
    /\ calls[t].kind = "metadata"
    /\ Return(t, "timeout")
    /\ UNCHANGED <<childVars, sequence, closed, connected, survived>>

\* Without the lock, close goes on to abort; the other calls are over.
AfterCall(t) == IF calls[t].kind = "close" THEN "aborting" ELSE "over"

\* The lock is free, but the proxy has lost or given up its child.
EnterUnavailable(t) ==
    /\ At(t) = "queued"
    /\ holder = None
    /\ closed \/ ChildGone
    /\ calls' = [calls EXCEPT ![t].at = AfterCall(t),
                              ![t].result = "unavailable"]
    /\ UNCHANGED <<childVars, proxyVars>>

Enter(t) ==
    /\ At(t) = "queued"
    /\ holder = None
    /\ ~closed /\ ~ChildGone
    /\ sequence' = sequence + 1
    /\ holder' = t
    /\ calls' = [calls EXCEPT ![t].at = "sending", ![t].id = sequence + 1]
    /\ UNCHANGED <<childVars, closed, connected, survived>>

\* A request beyond the limit, and a broken or closed pipe, end the call without
\* an abort, except that close goes on to abort; the lock is released before.
Send(t) ==
    /\ At(t) = "sending"
    /\ \/ /\ connected /\ ~ChildGone
          /\ requests' = Append(requests, [id |-> calls[t].id, kind |-> calls[t].kind])
          /\ calls' = [calls EXCEPT ![t].at = "waiting"]
          /\ UNCHANGED holder
       \/ /\ calls' = [calls EXCEPT ![t].at = AfterCall(t), ![t].result = "failed"]
          /\ holder' = None
          /\ UNCHANGED requests
    /\ UNCHANGED <<child, answers, acted, sequence, closed, connected, survived>>

\* The call failed: it aborts its child before it leaves the lock.
Fail(t, result) ==
    calls' = [calls EXCEPT ![t].at = "aborting", ![t].result = result]

\* Mutant: whatever arrives is the answer.
Receive_Unchecked(t) ==
    /\ At(t) = "waiting"
    /\ connected
    /\ answers # <<>>
    /\ answers' = Tail(answers)
    /\ Return(t, "ok")
    /\ UNCHANGED <<child, requests, acted, sequence, closed, connected, survived>>

\* The first answer in the pipe is read.  One to another request, or one that
\* reports an error, aborts the child; close aborts it in any case.
Receive(t) ==
    /\ At(t) = "waiting"
    /\ connected
    /\ answers # <<>>
    /\ answers' = Tail(answers)
    /\ \/ /\ Head(answers).ok /\ Head(answers).id = calls[t].id
          /\ calls' = [calls EXCEPT ![t].at = AfterCall(t), ![t].result = "ok"]
          /\ holder' = None
       \/ /\ ~Head(answers).ok \/ Head(answers).id # calls[t].id
          /\ Fail(t, "failed")
          /\ UNCHANGED holder
    /\ UNCHANGED <<child, requests, acted, sequence, closed, connected, survived>>

\* The child died, or another thread closed the pipe under this one.  Where
\* asking a broken pipe for data already raises, nothing is aborted.
Disconnected(t) ==
    /\ At(t) = "waiting"
    /\ \/ /\ ~connected \/ (ChildGone /\ answers = <<>>)
          /\ Fail(t, "failed")
          /\ UNCHANGED holder
       \/ /\ ChildGone /\ answers = <<>>
          /\ calls[t].kind # "close"
          /\ Return(t, "failed")
    /\ UNCHANGED <<childVars, sequence, closed, connected, survived>>

TimeOut(t) ==
    /\ At(t) = "waiting"
    /\ Fail(t, "timeout")
    /\ UNCHANGED <<childVars, proxyVars>>

-----------------------------------------------------------------------------
(* Aborting: the first to come terminates the child, the others return.    *)

Abort(t) ==
    /\ At(t) = "aborting"
    /\ \/ /\ closed
          /\ Return(t, calls[t].result)
       \/ /\ ~closed
          /\ calls' = [calls EXCEPT ![t].at = "killing"]
          /\ UNCHANGED holder
    /\ closed' = TRUE
    /\ UNCHANGED <<childVars, sequence, connected, survived>>

Reap(t) ==
    /\ Killing(t)
    /\ ChildGone
    /\ connected' = FALSE
    /\ Return(t, calls[t].result)
    /\ UNCHANGED <<childVars, sequence, closed, survived>>

\* Neither terminate nor kill ended the child within its second.
Outlived(t) ==
    /\ Killing(t)
    /\ ~ChildGone
    /\ connected' = FALSE
    /\ survived' = TRUE
    /\ Return(t, "unkilled")
    /\ UNCHANGED <<childVars, sequence, closed>>

\* The thread takes its result and may call again.
Forget(t) ==
    /\ At(t) = "over"
    /\ calls' = [calls EXCEPT ![t] = NoCall]
    /\ UNCHANGED <<childVars, proxyVars>>

-----------------------------------------------------------------------------
(* The child.                                                              *)

TakeRequest ==
    /\ child.at = "ready"
    /\ requests # <<>>
    /\ child' = [at |-> "working", id |-> Head(requests).id, kind |-> Head(requests).kind]
    /\ requests' = Tail(requests)
    /\ UNCHANGED <<answers, acted, proxyVars, calls>>

\* The hardware does what the request says.
Act ==
    /\ child.at = "working"
    /\ child.kind = "act"
    /\ acted' = acted \cup {child.id}
    /\ child' = [child EXCEPT !.at = "acted"]
    /\ UNCHANGED <<requests, answers, proxyVars, calls>>

\* Only an open pipe takes an answer; after close the child leaves.
AnswerOk ==
    /\ \/ child.at = "acted"
       \/ child.at = "working" /\ child.kind # "act"
    /\ answers' = IF connected THEN Append(answers, [id |-> child.id, ok |-> TRUE])
                  ELSE answers
    /\ child' = Child(IF connected /\ child.kind # "close" THEN "ready" ELSE "leaving")
    /\ UNCHANGED <<requests, acted, proxyVars, calls>>

\* A backend that raises ends the child; an answer beyond the limit does not.
\* Neither answer names its request.
AnswerError ==
    /\ child.at \in {"working", "acted"}
    /\ answers' = IF connected THEN Append(answers, [id |-> 0, ok |-> FALSE])
                  ELSE answers
    /\ child' \in {Child("leaving")}
                    \cup {Child("ready") : x \in IF connected THEN {1} ELSE {}}
    /\ UNCHANGED <<requests, acted, proxyVars, calls>>

\* It exits, crashes, is killed, or reads the end of a pipe the parent closed.
ChildEnds ==
    /\ ~ChildGone
    /\ child' = Child("gone")
    /\ UNCHANGED <<requests, answers, acted, proxyVars, calls>>

-----------------------------------------------------------------------------
ProxyStep(t) ==
    \/ GiveUp(t)
    \/ EnterUnavailable(t)
    \/ Enter(t)
    \/ Send(t)
    \/ Receive(t)
    \/ Disconnected(t)
    \/ TimeOut(t)
    \/ Abort(t)
    \/ Reap(t)
    \/ Outlived(t)

ChildStep == TakeRequest \/ Act \/ AnswerOk \/ AnswerError \/ ChildEnds

WorkerNext ==
    \/ \E t \in Thread :
          \/ \E kind \in Kinds : StartCall(t, kind)
          \/ ProxyStep(t)
          \/ Forget(t)
    \/ ChildStep

WorkerSpec == WorkerInit /\ [][WorkerNext]_workerVars

-----------------------------------------------------------------------------
WorkerTypeOK ==
    /\ child \in Children
    /\ requests \in Seq(Requests)
    /\ answers \in Seq(Answers)
    /\ acted \subseteq Ids
    /\ sequence \in Ids
    /\ holder \in Thread \cup {None}
    /\ closed \in BOOLEAN
    /\ connected \in BOOLEAN
    /\ survived \in BOOLEAN
    /\ calls \in [Thread -> Calls]

\* The child works only for the call that holds the lock: an answer that can
\* still be read, and the request being worked on, belong to the call that
\* waits for it (call(), worker.py: one request in the pipe at a time, and no
\* call leaves the lock without its answer unless it closed the proxy).
OneRequestAtATime ==
    closed \/ ChildGone \/
    /\ Len(requests) + Len(answers) <= 1
    /\ \A i \in 1 .. Len(answers) :
          /\ holder # None
          /\ At(holder) \in {"waiting", "aborting"}
          /\ answers[i].id \in {0, calls[holder].id}
    /\ child.at \in {"working", "acted"} =>
          /\ holder # None
          /\ At(holder) \in {"waiting", "aborting"}
          /\ child.id = calls[holder].id

\* Whoever is told that the child was ended is told the truth, and a proxy
\* that is closed and that nobody is closing has no child, unless the child
\* outlived both signals (abort_owned_execution).
AbortEndsChild ==
    closed /\ (\A t \in Thread : ~Killing(t)) => ChildGone \/ survived

\* The hardware is not touched for a call that is over: it acts for a call
\* that waits, or while somebody is ending the child, or in a child that
\* could not be ended.
NoLateAct ==
    [][acted' # acted =>
          \/ \E t \in Thread : At(t) \in {"waiting", "aborting"} /\ calls[t].id = child.id
          \/ \E t \in Thread : Killing(t)
          \/ survived]_workerVars

\* A call that reports success did what it was asked: its own request
\* was carried out, whatever other threads aborted meanwhile.
OkMeansDone ==
    \A t \in Thread :
        At(t) = "over" /\ calls[t].kind = "act" /\ calls[t].result = "ok"
            => calls[t].id \in acted
=============================================================================
