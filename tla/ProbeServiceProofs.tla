--------------------------- MODULE ProbeServiceProofs ---------------------------
(***************************************************************************)
(* Proofs about ProbeWorker, for every set of threads, ProbeService, for   *)
(* every set of requests and of levels, and OneShot, for every workflow.   *)
(*                                                                         *)
(* The argument for the proxy: the threads that use the pipe hold the      *)
(* lock, so that what is in the pipe and in the child belongs to the       *)
(* holder; the holder only leaves without an answer when the proxy is      *)
(* closed or the child is gone; and who closed the proxy waits for the     *)
(* child.                                                                  *)
(*                                                                         *)
(* For the service: every step of it is a step of the proxy or leaves the  *)
(* proxy alone, so that what is shown of the proxy holds in it.  What the  *)
(* service adds is the tie between the place of a request's handler and    *)
(* task and the calls of their threads, and what an answer, a drain and a  *)
(* stop have waited for.                                                   *)
(*                                                                         *)
(* For a workflow: the core does what the last request asks of it, so who  *)
(* knows that the request that halts is over, or that its proxy is closed, *)
(* knows that nothing will halt the core again; and an analysis ends       *)
(* without a clean-up that failed only after a read that came later saw    *)
(* the core run, or before it ever asked for a halt.                       *)
(***************************************************************************)
EXTENDS OneShot, TLAPS

-----------------------------------------------------------------------------
Busy == child.at \in {"working", "acted"}

\* Who uses the pipe holds the lock, and who holds the lock is in a call.
HolderInv ==
    /\ \A t \in Thread : Active(t) => holder = t
    /\ holder # None => At(holder) \in {"sending", "waiting", "aborting", "killing"}
    /\ \A t \in Thread : At(t) = "queued" => calls[t].result = "none"

\* Only a closed proxy loses its pipe or outlives its child.
ClosingInv ==
    /\ \A t \in Thread : Killing(t) => closed
    /\ survived \/ ~connected => closed
    /\ AbortEndsChild

\* While the proxy is open, one request is on its way, and it is the holder's.
PipeInv ==
    closed \/ ChildGone \/
    /\ Len(requests) + Len(answers) <= 1
    /\ Busy => requests = <<>> /\ answers = <<>>
    /\ Busy \/ requests # <<>> \/ answers # <<>> =>
          holder # None /\ At(holder) \in {"waiting", "aborting"}
    /\ \A i \in 1 .. Len(requests) : requests[i].id = calls[holder].id
    /\ \A i \in 1 .. Len(answers) : answers[i].id \in {0, calls[holder].id}
    /\ Busy => child.id = calls[holder].id

\* Numbers are given once, and the kind goes with the number.
GivenOnce ==
    /\ \A t \in Thread : calls[t].id <= sequence /\ (Active(t) => calls[t].id # 0)
    /\ \A t, u \in Thread : t # u /\ calls[t].id # 0 => calls[t].id # calls[u].id

OfKind(id, kind) ==
    /\ id # 0 /\ id <= sequence
    /\ \A t \in Thread : calls[t].id = id => calls[t].kind = kind

NumberInv ==
    /\ GivenOnce
    /\ Busy => OfKind(child.id, child.kind)
    /\ \A i \in 1 .. Len(requests) : OfKind(requests[i].id, requests[i].kind)

\* What is reported as done is done.
DoneFor(id) ==
    /\ id # 0 /\ id <= sequence
    /\ \A t \in Thread : calls[t].id = id /\ calls[t].kind = "act" => id \in acted

ResultsDone ==
    \A t \in Thread :
        calls[t].kind = "act" /\ calls[t].result = "ok" => calls[t].id \in acted

DoneInv ==
    /\ child.at = "acted" => child.id \in acted
    /\ \A i \in 1 .. Len(answers) : answers[i].ok => DoneFor(answers[i].id)
    /\ ResultsDone

WorkerInv ==
    /\ WorkerTypeOK
    /\ HolderInv
    /\ ClosingInv
    /\ PipeInv
    /\ NumberInv
    /\ DoneInv

-----------------------------------------------------------------------------
\* A step of thread t that writes its record keeps the records in their type.
LEMMA CallTyped ==
  ASSUME WorkerTypeOK, NEW t \in Thread, NEW at \in Steps, NEW res \in Results
  PROVE  /\ [calls EXCEPT ![t].at = at] \in [Thread -> Calls]
         /\ [calls EXCEPT ![t].at = at, ![t].result = res] \in [Thread -> Calls]
<1>1. calls \in [Thread -> Calls] /\ calls[t] \in Calls
  BY DEF WorkerTypeOK
<1>2. [calls[t] EXCEPT !.at = at] \in Calls
  BY <1>1 DEF Calls
<1>3. [calls[t] EXCEPT !.at = at, !.result = res] \in Calls
  BY <1>1 DEF Calls
<1> QED
  BY <1>1, <1>2, <1>3

LEMMA ReturnTyped ==
  ASSUME WorkerTypeOK, NEW t \in Thread, NEW res \in Results, Return(t, res)
  PROVE  calls' \in [Thread -> Calls] /\ holder' \in Thread \cup {None}
<1>1. calls' \in [Thread -> Calls]
  BY CallTyped DEF Return, Steps
<1>2. holder' \in Thread \cup {None}
  BY DEF Return, WorkerTypeOK
<1> QED
  BY <1>1, <1>2

\* The record of a child that starts, leaves or is gone.
LEMMA ChildTyped ==
  ASSUME NEW at \in ChildSteps
  PROVE  Child(at) \in Children
  BY DEF Child, Children, Ids, Kinds

\* Every step keeps the variables in their types.
LEMMA WorkerTyped ==
  ASSUME WorkerTypeOK, WorkerNext
  PROVE  WorkerTypeOK'
<1> USE DEF Results, Steps
<1>0. /\ child \in Children /\ requests \in Seq(Requests) /\ answers \in Seq(Answers)
      /\ acted \subseteq Ids /\ sequence \in Ids /\ holder \in Thread \cup {None}
      /\ closed \in BOOLEAN /\ connected \in BOOLEAN /\ survived \in BOOLEAN
      /\ calls \in [Thread -> Calls]
  BY DEF WorkerTypeOK
<1>01. \A t \in Thread : calls[t].id \in Ids /\ calls[t].kind \in Kinds
          /\ calls[t].result \in Results
  BY <1>0 DEF Calls
<1>1. ASSUME NEW t \in Thread, NEW kind \in Kinds, StartCall(t, kind)
      PROVE  WorkerTypeOK'
  <2>1. ASSUME NEW at \in Steps, NEW res \in Results
        PROVE  [NoCall EXCEPT !.kind = kind, !.at = at, !.result = res] \in Calls
    BY DEF NoCall, Calls, Ids
  <2> DEFINE at == CASE kind = "abort" -> "aborting"
                     [] kind = "close" /\ closed -> "over"
                     [] OTHER -> "queued"
             res == IF kind = "abort" \/ (kind = "close" /\ closed) THEN "ok" ELSE "none"
  <2>2. at \in Steps /\ res \in Results
    OBVIOUS
  <2>3. calls' = [calls EXCEPT ![t] =
           [NoCall EXCEPT !.kind = kind, !.at = at, !.result = res]]
    BY <1>1 DEF StartCall
  <2> HIDE DEF at, res
  <2>4. calls' \in [Thread -> Calls]
    BY <1>0, <2>1, <2>2, <2>3
  <2> QED
    BY <1>1, <2>4, <1>0 DEF StartCall, WorkerTypeOK, childVars, proxyVars
<1>2. ASSUME NEW t \in Thread, GiveUp(t) PROVE WorkerTypeOK'
  BY <1>2, <1>0, ReturnTyped DEF GiveUp, WorkerTypeOK, childVars
<1>3. ASSUME NEW t \in Thread, EnterUnavailable(t) PROVE WorkerTypeOK'
  BY <1>3, <1>0, CallTyped DEF EnterUnavailable, AfterCall, WorkerTypeOK, childVars, proxyVars
<1>4. ASSUME NEW t \in Thread, Enter(t) PROVE WorkerTypeOK'
  <2>1. sequence + 1 \in Ids
    BY <1>0 DEF Ids
  <2>2. [calls[t] EXCEPT !.at = "sending", !.id = sequence + 1] \in Calls
    BY <1>0, <2>1 DEF Calls
  <2>3. calls' \in [Thread -> Calls]
    BY <1>0, <1>4, <2>2 DEF Enter
  <2> QED
    BY <1>4, <1>0, <2>1, <2>3 DEF Enter, WorkerTypeOK, childVars
<1>5. ASSUME NEW t \in Thread, Send(t) PROVE WorkerTypeOK'
  <2>1. [id |-> calls[t].id, kind |-> calls[t].kind] \in Requests
    BY <1>01 DEF Requests
  <2>2. Append(requests, [id |-> calls[t].id, kind |-> calls[t].kind]) \in Seq(Requests)
    BY <1>0, <2>1
  <2>3. AfterCall(t) \in Steps
    BY DEF AfterCall
  <2>4. CASE requests' = requests /\ holder' = None
             /\ calls' = [calls EXCEPT ![t].at = AfterCall(t), ![t].result = "failed"]
    BY <1>5, <1>0, <2>3, <2>4, CallTyped DEF Send, WorkerTypeOK
  <2>5. CASE /\ requests' = Append(requests, [id |-> calls[t].id, kind |-> calls[t].kind])
             /\ calls' = [calls EXCEPT ![t].at = "waiting"]
             /\ holder' = holder
    BY <1>5, <1>0, <2>2, <2>5, CallTyped DEF Send, WorkerTypeOK
  <2> QED
    BY <1>5, <2>4, <2>5 DEF Send
<1>6. ASSUME NEW t \in Thread, Receive(t) PROVE WorkerTypeOK'
  <2>1. answers' \in Seq(Answers)
    BY <1>6, <1>0 DEF Receive, AfterCall
  <2>2. calls' \in [Thread -> Calls] /\ holder' \in Thread \cup {None}
    <3>1. AfterCall(t) \in Steps
      BY DEF AfterCall
    <3>2. CASE /\ calls' = [calls EXCEPT ![t].at = AfterCall(t), ![t].result = "ok"]
               /\ holder' = None
      BY <3>1, <3>2, CallTyped
    <3>3. CASE Fail(t, "failed") /\ holder' = holder
      BY <1>0, <3>3, CallTyped DEF Fail
    <3> QED
      BY <1>6, <3>2, <3>3 DEF Receive
  <2> QED
    BY <1>6, <1>0, <2>1, <2>2 DEF Receive, AfterCall, WorkerTypeOK
<1>7. ASSUME NEW t \in Thread, Disconnected(t) PROVE WorkerTypeOK'
  <2>1. calls' \in [Thread -> Calls] /\ holder' \in Thread \cup {None}
    <3>1. CASE Fail(t, "failed") /\ holder' = holder
      BY <1>0, <3>1, CallTyped DEF Fail
    <3>2. CASE Return(t, "failed")
      BY <3>2, ReturnTyped
    <3> QED
      BY <1>7, <3>1, <3>2 DEF Disconnected
  <2> QED
    BY <1>7, <1>0, <2>1 DEF Disconnected, WorkerTypeOK, childVars
<1>8. ASSUME NEW t \in Thread, TimeOut(t) PROVE WorkerTypeOK'
  BY <1>8, <1>0, CallTyped DEF TimeOut, Fail, WorkerTypeOK, childVars, proxyVars
<1>9. ASSUME NEW t \in Thread, Abort(t) PROVE WorkerTypeOK'
  <2>1. calls' \in [Thread -> Calls] /\ holder' \in Thread \cup {None}
    <3>1. CASE Return(t, calls[t].result)
      BY <1>01, <3>1, ReturnTyped
    <3>2. CASE calls' = [calls EXCEPT ![t].at = "killing"] /\ holder' = holder
      BY <1>0, <3>2, CallTyped
    <3> QED
      BY <1>9, <3>1, <3>2 DEF Abort
  <2>2. closed' \in BOOLEAN /\ connected' \in BOOLEAN /\ survived' \in BOOLEAN
    BY <1>9, <1>0 DEF Abort
  <2> QED
    BY <1>9, <1>0, <2>1, <2>2 DEF Abort, WorkerTypeOK, childVars
<1>10. ASSUME NEW t \in Thread, Reap(t) PROVE WorkerTypeOK'
  <2>1. calls' \in [Thread -> Calls] /\ holder' \in Thread \cup {None}
    BY <1>10, <1>01, <1>0, ReturnTyped DEF Reap
  <2>2. closed' \in BOOLEAN /\ connected' \in BOOLEAN /\ survived' \in BOOLEAN
    BY <1>10, <1>0 DEF Reap
  <2> QED
    BY <1>10, <1>0, <2>1, <2>2 DEF Reap, WorkerTypeOK, childVars
<1>11. ASSUME NEW t \in Thread, Outlived(t) PROVE WorkerTypeOK'
  <2>1. calls' \in [Thread -> Calls] /\ holder' \in Thread \cup {None}
    BY <1>11, <1>0, ReturnTyped DEF Outlived
  <2>2. closed' \in BOOLEAN /\ connected' \in BOOLEAN /\ survived' \in BOOLEAN
    BY <1>11, <1>0 DEF Outlived
  <2> QED
    BY <1>11, <1>0, <2>1, <2>2 DEF Outlived, WorkerTypeOK, childVars
<1>12. ASSUME NEW t \in Thread, Forget(t) PROVE WorkerTypeOK'
  <2>1. NoCall \in Calls
    BY DEF NoCall, Calls, Ids, Kinds
  <2> QED
    BY <1>12, <1>0, <2>1 DEF Forget, WorkerTypeOK, childVars, proxyVars
<1>13. CASE TakeRequest
  <2>1. Head(requests) \in Requests /\ Tail(requests) \in Seq(Requests)
    BY <1>13, <1>0 DEF TakeRequest
  <2>2. child' \in Children
    BY <1>13, <2>1 DEF TakeRequest, Children, Requests, ChildSteps
  <2> QED
    BY <1>13, <1>0, <2>1, <2>2 DEF TakeRequest, WorkerTypeOK, proxyVars
<1>14. CASE Act
  <2>1. child' \in Children /\ child.id \in Ids
    BY <1>14, <1>0 DEF Act, Children, ChildSteps
  <2> QED
    BY <1>14, <1>0, <2>1 DEF Act, WorkerTypeOK, proxyVars
<1>15. CASE AnswerOk
  <2>1. [id |-> child.id, ok |-> TRUE] \in Answers
    BY <1>0 DEF Children, Answers
  <2>2. answers' \in Seq(Answers)
    BY <1>15, <1>0, <2>1 DEF AnswerOk
  <2>3. child' \in Children
    BY <1>15, ChildTyped DEF AnswerOk, ChildSteps
  <2> QED
    BY <1>15, <1>0, <2>2, <2>3 DEF AnswerOk, WorkerTypeOK, proxyVars
<1>16. CASE AnswerError
  <2>1. [id |-> 0, ok |-> FALSE] \in Answers
    BY DEF Answers, Ids
  <2>2. answers' \in Seq(Answers)
    BY <1>16, <1>0, <2>1 DEF AnswerError
  <2>3. child' \in Children
    BY <1>16, ChildTyped DEF AnswerError, ChildSteps
  <2> QED
    BY <1>16, <1>0, <2>2, <2>3 DEF AnswerError, WorkerTypeOK, proxyVars
<1>17. CASE ChildEnds
  BY <1>17, <1>0, ChildTyped DEF ChildEnds, ChildSteps, WorkerTypeOK, proxyVars
<1> QED
  BY <1>1, <1>2, <1>3, <1>4, <1>5, <1>6, <1>7, <1>8, <1>9, <1>10, <1>11, <1>12,
     <1>13, <1>14, <1>15, <1>16, <1>17 DEF WorkerNext, ProxyStep, ChildStep

\* Thread t gets a new step and result, and nothing else of the records changes.
Wrote(t, at, res) ==
    /\ calls'[t].at = at /\ calls'[t].result = res
    /\ calls'[t].id = calls[t].id /\ calls'[t].kind = calls[t].kind
    /\ \A u \in Thread : u # t => calls'[u] = calls[u]

LEMMA Writing ==
  ASSUME WorkerTypeOK, NEW t \in Thread, NEW at, NEW res
  PROVE  /\ calls' = [calls EXCEPT ![t].at = at] => Wrote(t, at, calls[t].result)
         /\ calls' = [calls EXCEPT ![t].at = at, ![t].result = res]
                => Wrote(t, at, res)
<1>1. calls \in [Thread -> Calls]
  BY DEF WorkerTypeOK
<1>2. ASSUME calls' = [calls EXCEPT ![t].at = at]
      PROVE  Wrote(t, at, calls[t].result)
  BY <1>1, <1>2 DEF Wrote, Calls
<1>3. ASSUME calls' = [calls EXCEPT ![t].at = at, ![t].result = res]
      PROVE  Wrote(t, at, res)
  BY <1>1, <1>3 DEF Wrote, Calls
<1> QED
  BY <1>2, <1>3

\* What a thread that sends, receives, loses its child or aborts writes.
LEMMA Writes ==
  ASSUME WorkerTypeOK, NEW t \in Thread
  PROVE  /\ Send(t) => \/ Wrote(t, "waiting", calls[t].result)
                       \/ Wrote(t, AfterCall(t), "failed")
         /\ Receive(t) => \/ /\ Wrote(t, AfterCall(t), "ok")
                             /\ Head(answers).ok /\ Head(answers).id = calls[t].id
                          \/ Wrote(t, "aborting", "failed")
         /\ Disconnected(t) => \/ Wrote(t, "aborting", "failed")
                               \/ Wrote(t, "over", "failed")
         /\ Abort(t) => \/ Wrote(t, "over", calls[t].result)
                        \/ Wrote(t, "killing", calls[t].result)
<1> USE Writing
<1>1. ASSUME Send(t)
      PROVE  Wrote(t, "waiting", calls[t].result) \/ Wrote(t, AfterCall(t), "failed")
  BY <1>1, Zenon DEF Send
<1>2. ASSUME Receive(t)
      PROVE  \/ /\ Wrote(t, AfterCall(t), "ok")
                /\ Head(answers).ok /\ Head(answers).id = calls[t].id
             \/ Wrote(t, "aborting", "failed")
  BY <1>2, Zenon DEF Receive, Fail
<1>3. ASSUME Disconnected(t)
      PROVE  Wrote(t, "aborting", "failed") \/ Wrote(t, "over", "failed")
  BY <1>3, Zenon DEF Disconnected, Fail, Return
<1>4. ASSUME Abort(t)
      PROVE  Wrote(t, "over", calls[t].result) \/ Wrote(t, "killing", calls[t].result)
  BY <1>4, Zenon DEF Abort, Return
<1> QED
  BY <1>1, <1>2, <1>3, <1>4

\* No number changes hands, and nobody starts to use the pipe.
NumbersKept ==
    \A u \in Thread :
        /\ calls'[u].id = calls[u].id
        /\ calls'[u].kind = calls[u].kind
        /\ Active(u)' => Active(u)

LEMMA SameNumbers ==
  ASSUME WorkerTypeOK, NEW t \in Thread,
         Send(t) \/ Receive(t) \/ Disconnected(t) \/ Abort(t)
  PROVE  NumbersKept
<1> USE DEF Wrote, NumbersKept, Active, At
<1>1. CASE Send(t)
  <2>1. Active(t)
    BY <1>1 DEF Send
  <2> QED
    BY <1>1, <2>1, Writes
<1>2. CASE Receive(t)
  <2>1. Active(t)
    BY <1>2 DEF Receive
  <2> QED
    BY <1>2, <2>1, Writes
<1>3. CASE Disconnected(t)
  BY <1>3, Writes
<1>4. CASE Abort(t)
  BY <1>4, Writes
<1> QED
  BY <1>1, <1>2, <1>3, <1>4

\* The lock stays with who uses the pipe.
LEMMA HolderKept ==
  ASSUME WorkerInv, WorkerNext
  PROVE  HolderInv'
<1> USE DEF WorkerInv, WorkerTypeOK, proxyVars, childVars, HolderInv, Active, At, NoCall, Calls
<1>1. ASSUME NEW t \in Thread, NEW kind \in Kinds, StartCall(t, kind)
      PROVE  HolderInv'
  BY <1>1 DEF StartCall
<1>2. ASSUME NEW t \in Thread, GiveUp(t) PROVE HolderInv'
  BY <1>2 DEF GiveUp, Return
<1>3. ASSUME NEW t \in Thread, EnterUnavailable(t) PROVE HolderInv'
  BY <1>3 DEF EnterUnavailable, AfterCall
<1>4. ASSUME NEW t \in Thread, Enter(t) PROVE HolderInv'
  BY <1>4, NoneNoThread DEF Enter
<1>5. ASSUME NEW t \in Thread, Send(t) PROVE HolderInv'
  <2>1. holder = t /\ calls[t].at = "sending"
    BY <1>5 DEF Send
  <2>2. CASE calls' = [calls EXCEPT ![t].at = "waiting"] /\ holder' = holder
    BY <2>1, <2>2
  <2>3. CASE /\ calls' = [calls EXCEPT ![t].at = AfterCall(t), ![t].result = "failed"]
             /\ holder' = None
    BY <2>1, <2>3 DEF AfterCall
  <2> QED
    BY <1>5, <2>2, <2>3 DEF Send
<1>6. ASSUME NEW t \in Thread, Receive(t) PROVE HolderInv'
  <2>1. holder = t
    BY <1>6 DEF Receive
  <2>2. CASE /\ calls' = [calls EXCEPT ![t].at = AfterCall(t), ![t].result = "ok"]
             /\ holder' = None
    BY <2>1, <2>2 DEF AfterCall
  <2>3. CASE Fail(t, "failed") /\ holder' = holder
    BY <2>1, <2>3 DEF Fail
  <2> QED
    BY <1>6, <2>2, <2>3 DEF Receive
<1>7. ASSUME NEW t \in Thread, Disconnected(t) PROVE HolderInv'
  BY <1>7 DEF Disconnected, Return, Fail
<1>8. ASSUME NEW t \in Thread, TimeOut(t) PROVE HolderInv'
  BY <1>8 DEF TimeOut, Fail
<1>9. ASSUME NEW t \in Thread, Abort(t) PROVE HolderInv'
  BY <1>9 DEF Abort, Return
<1>10. ASSUME NEW t \in Thread, Reap(t) PROVE HolderInv'
  BY <1>10 DEF Reap, Return
<1>11. ASSUME NEW t \in Thread, Outlived(t) PROVE HolderInv'
  BY <1>11 DEF Outlived, Return
<1>12. ASSUME NEW t \in Thread, Forget(t) PROVE HolderInv'
  BY <1>12 DEF Forget
<1>13. CASE TakeRequest
  BY <1>13 DEF TakeRequest
<1>14. CASE Act
  BY <1>14 DEF Act
<1>15. CASE AnswerOk
  BY <1>15 DEF AnswerOk
<1>16. CASE AnswerError
  BY <1>16 DEF AnswerError
<1>17. CASE ChildEnds
  BY <1>17 DEF ChildEnds
<1> QED
  BY <1>1, <1>2, <1>3, <1>4, <1>5, <1>6, <1>7, <1>8, <1>9, <1>10, <1>11, <1>12,
     <1>13, <1>14, <1>15, <1>16, <1>17 DEF WorkerNext, ProxyStep, ChildStep

\* Who closed the proxy waits for the child.
LEMMA ClosingKept ==
  ASSUME WorkerInv, WorkerNext
  PROVE  ClosingInv'
<1> USE DEF WorkerInv, WorkerTypeOK, proxyVars, childVars, ClosingInv,
    AbortEndsChild, Killing, At, ChildGone, NoCall, Calls, Children, Child
<1>1. ASSUME NEW t \in Thread, NEW kind \in Kinds, StartCall(t, kind)
      PROVE  ClosingInv'
  BY <1>1 DEF StartCall
<1>2. ASSUME NEW t \in Thread, GiveUp(t) PROVE ClosingInv'
  BY <1>2 DEF GiveUp, Return
<1>3. ASSUME NEW t \in Thread, EnterUnavailable(t) PROVE ClosingInv'
  BY <1>3 DEF EnterUnavailable, AfterCall
<1>4. ASSUME NEW t \in Thread, Enter(t) PROVE ClosingInv'
  BY <1>4 DEF Enter
<1>5. ASSUME NEW t \in Thread, Send(t) PROVE ClosingInv'
  <2>1. calls \in [Thread -> Calls]
    OBVIOUS
  <2>2. /\ calls[t].at = "sending"
        /\ \/ calls' = [calls EXCEPT ![t].at = "waiting"]
           \/ calls' = [calls EXCEPT ![t].at = AfterCall(t), ![t].result = "failed"]
    BY <1>5 DEF Send
  <2>3. AfterCall(t) \in {"aborting", "over"}
    BY DEF AfterCall
  <2>4. calls'[t].at # "killing" /\ \A u \in Thread \ {t} : calls'[u] = calls[u]
    BY <2>1, <2>2, <2>3
  <2>5. \A u \in Thread : calls'[u].at = "killing" <=> calls[u].at = "killing"
    BY <2>2, <2>4
  <2> QED
    BY <1>5, <2>5 DEF Send
<1>6. ASSUME NEW t \in Thread, Receive(t) PROVE ClosingInv'
  <2>1. calls \in [Thread -> Calls]
    OBVIOUS
  <2>2. /\ calls[t].at = "waiting"
        /\ \/ calls' = [calls EXCEPT ![t].at = AfterCall(t), ![t].result = "ok"]
           \/ calls' = [calls EXCEPT ![t].at = "aborting", ![t].result = "failed"]
    BY <1>6 DEF Receive, Fail
  <2>3. AfterCall(t) \in {"aborting", "over"}
    BY DEF AfterCall
  <2>4. calls'[t].at # "killing" /\ \A u \in Thread \ {t} : calls'[u] = calls[u]
    BY <2>1, <2>2, <2>3
  <2>5. \A u \in Thread : calls'[u].at = "killing" <=> calls[u].at = "killing"
    BY <2>2, <2>4
  <2> QED
    BY <1>6, <2>5 DEF Receive
<1>7. ASSUME NEW t \in Thread, Disconnected(t) PROVE ClosingInv'
  BY <1>7 DEF Disconnected, Return, Fail
<1>8. ASSUME NEW t \in Thread, TimeOut(t) PROVE ClosingInv'
  BY <1>8 DEF TimeOut, Fail
<1>9. ASSUME NEW t \in Thread, Abort(t) PROVE ClosingInv'
  BY <1>9 DEF Abort, Return
<1>10. ASSUME NEW t \in Thread, Reap(t) PROVE ClosingInv'
  BY <1>10 DEF Reap, Return
<1>11. ASSUME NEW t \in Thread, Outlived(t) PROVE ClosingInv'
  BY <1>11 DEF Outlived, Return
<1>12. ASSUME NEW t \in Thread, Forget(t) PROVE ClosingInv'
  BY <1>12 DEF Forget
<1>13. CASE TakeRequest
  BY <1>13 DEF TakeRequest
<1>14. CASE Act
  BY <1>14 DEF Act
<1>15. CASE AnswerOk
  BY <1>15 DEF AnswerOk
<1>16. CASE AnswerError
  BY <1>16 DEF AnswerError
<1>17. CASE ChildEnds
  BY <1>17 DEF ChildEnds
<1> QED
  BY <1>1, <1>2, <1>3, <1>4, <1>5, <1>6, <1>7, <1>8, <1>9, <1>10, <1>11, <1>12,
     <1>13, <1>14, <1>15, <1>16, <1>17 DEF WorkerNext, ProxyStep, ChildStep

\* What is under way belongs to the holder.
LEMMA PipeKept ==
  ASSUME WorkerInv, WorkerNext
  PROVE  PipeInv'
<1> USE DEF WorkerInv, WorkerTypeOK, proxyVars, childVars, HolderInv, PipeInv,
    ClosingInv, Busy, Active, Killing, At, ChildGone, NoCall, Calls, Children, Child,
    Ids, Requests, Answers
<1>1. ASSUME NEW t \in Thread, NEW kind \in Kinds, StartCall(t, kind)
      PROVE  PipeInv'
  BY <1>1 DEF StartCall
<1>2. ASSUME NEW t \in Thread, GiveUp(t) PROVE PipeInv'
  BY <1>2 DEF GiveUp, Return
<1>3. ASSUME NEW t \in Thread, EnterUnavailable(t) PROVE PipeInv'
  BY <1>3 DEF EnterUnavailable, AfterCall
<1>4. ASSUME NEW t \in Thread, Enter(t) PROVE PipeInv'
  BY <1>4 DEF Enter
<1>5. ASSUME NEW t \in Thread, Send(t) PROVE PipeInv'
  <2>1. CASE calls' = [calls EXCEPT ![t].at = AfterCall(t), ![t].result = "failed"]
             /\ (~connected \/ ChildGone) /\ requests' = requests
    BY <1>5, <2>1 DEF Send
  <2>2. CASE /\ requests' = Append(requests, [id |-> calls[t].id, kind |-> calls[t].kind])
             /\ calls' = [calls EXCEPT ![t].at = "waiting"]
             /\ holder' = holder
    <3>1. CASE closed \/ ChildGone
      BY <1>5, <3>1 DEF Send
    <3>2. CASE ~closed /\ ~ChildGone
      <4>1. holder = t /\ requests = <<>> /\ answers = <<>> /\ ~Busy
        BY <1>5, <3>2 DEF Send
      <4>2. requests' = <<[id |-> calls[t].id, kind |-> calls[t].kind]>> /\ answers' = <<>>
        BY <1>5, <2>2, <4>1 DEF Send
      <4>3. /\ calls'[t].id = calls[t].id /\ calls'[t].at = "waiting"
            /\ holder' = t /\ child' = child
        BY <1>5, <2>2, <4>1 DEF Send
      <4> QED
        BY <4>1, <4>2, <4>3, NoneNoThread
    <3> QED
      BY <3>1, <3>2
  <2> QED
    BY <1>5, <2>1, <2>2 DEF Send
<1>6. ASSUME NEW t \in Thread, Receive(t) PROVE PipeInv'
  BY <1>6 DEF Receive, AfterCall, Return, Fail
<1>7. ASSUME NEW t \in Thread, Disconnected(t) PROVE PipeInv'
  BY <1>7 DEF Disconnected, Return, Fail
<1>8. ASSUME NEW t \in Thread, TimeOut(t) PROVE PipeInv'
  BY <1>8 DEF TimeOut, Fail
<1>9. ASSUME NEW t \in Thread, Abort(t) PROVE PipeInv'
  BY <1>9 DEF Abort, Return
<1>10. ASSUME NEW t \in Thread, Reap(t) PROVE PipeInv'
  BY <1>10 DEF Reap, Return
<1>11. ASSUME NEW t \in Thread, Outlived(t) PROVE PipeInv'
  BY <1>11 DEF Outlived, Return
<1>12. ASSUME NEW t \in Thread, Forget(t) PROVE PipeInv'
  BY <1>12 DEF Forget
<1>13. CASE TakeRequest
  BY <1>13 DEF TakeRequest
<1>14. CASE Act
  BY <1>14 DEF Act
<1>15. CASE AnswerOk
  BY <1>15 DEF AnswerOk
<1>16. CASE AnswerError
  BY <1>16 DEF AnswerError
<1>17. CASE ChildEnds
  BY <1>17 DEF ChildEnds
<1> QED
  BY <1>1, <1>2, <1>3, <1>4, <1>5, <1>6, <1>7, <1>8, <1>9, <1>10, <1>11, <1>12,
     <1>13, <1>14, <1>15, <1>16, <1>17 DEF WorkerNext, ProxyStep, ChildStep

\* Where the numbers are kept, they go on meaning the same.
LEMMA SameKinds ==
  ASSUME NumbersKept, GivenOnce, sequence' = sequence
  PROVE  /\ GivenOnce'
         /\ \A id, kind : OfKind(id, kind) => OfKind(id, kind)'
         /\ acted' = acted => \A id : DoneFor(id) => DoneFor(id)'
<1>1. (\A u \in Thread : calls[u].id <= sequence /\ (Active(u) => calls[u].id # 0))'
  <2>1. \A u \in Thread : calls[u].id <= sequence /\ (Active(u) => calls[u].id # 0)
    BY DEF GivenOnce
  <2> QED
    BY <2>1 DEF NumbersKept
<1>2. (\A v, u \in Thread : v # u /\ calls[v].id # 0 => calls[v].id # calls[u].id)'
  BY DEF NumbersKept, GivenOnce
<1>3. \A id, kind : OfKind(id, kind) => OfKind(id, kind)'
  BY DEF NumbersKept, OfKind
<1>4. acted' = acted => \A id : DoneFor(id) => DoneFor(id)'
  BY DEF NumbersKept, DoneFor
<1> QED
  BY <1>1, <1>2, <1>3, <1>4 DEF GivenOnce

\* Numbers stay unique and keep their kind.
LEMMA NumberKept ==
  ASSUME WorkerInv, WorkerNext
  PROVE  NumberInv'
<1> USE DEF NumberInv
<1>0. WorkerTypeOK /\ NumberInv
  BY DEF WorkerInv
<1>t. /\ calls \in [Thread -> Calls] /\ sequence \in Nat
      /\ requests \in Seq(Requests) /\ child \in Children
      /\ \A t \in Thread : calls[t].id \in Nat
  BY <1>0 DEF WorkerTypeOK, Ids, Calls
<1>1. ASSUME NEW t \in Thread, NEW kind \in Kinds, StartCall(t, kind)
      PROVE  NumberInv'
  BY <1>0, <1>t, <1>1 DEF StartCall, GivenOnce, OfKind, Busy, Active, At, NoCall,
     childVars, proxyVars
<1>2. ASSUME NEW t \in Thread, GiveUp(t) PROVE NumberInv'
  <2>1. NumbersKept
    BY <1>t, <1>2 DEF GiveUp, Return, NumbersKept, Active, At
  <2> QED
    BY <1>0, <1>2, <2>1, SameKinds DEF GiveUp, Busy, childVars
<1>3. ASSUME NEW t \in Thread, EnterUnavailable(t) PROVE NumberInv'
  <2>1. NumbersKept
    BY <1>t, <1>3 DEF EnterUnavailable, AfterCall, NumbersKept, Active, At
  <2> QED
    BY <1>0, <1>3, <2>1, SameKinds DEF EnterUnavailable, Busy, childVars, proxyVars
<1>4. ASSUME NEW t \in Thread, Enter(t) PROVE NumberInv'
  <2>1. /\ calls'[t].id = sequence + 1 /\ calls'[t].kind = calls[t].kind
        /\ \A u \in Thread : u # t => calls'[u] = calls[u]
        /\ sequence' = sequence + 1 /\ child' = child /\ requests' = requests
    BY <1>t, <1>4 DEF Enter, childVars
  <2>2. GivenOnce'
    BY <1>0, <1>t, <2>1 DEF GivenOnce, Active, At
  <2>3. \A id \in Nat : \A kind : OfKind(id, kind) => OfKind(id, kind)'
    BY <1>0, <1>t, <2>1 DEF OfKind, GivenOnce
  <2>4. child.id \in Nat /\ \A i \in 1 .. Len(requests) : requests[i].id \in Nat
    <3>1. \A i \in 1 .. Len(requests) : requests[i] \in Requests
      BY <1>t
    <3> QED
      BY <1>t, <3>1 DEF Children, Requests, Ids
  <2> QED
    BY <1>0, <2>1, <2>2, <2>3, <2>4 DEF Busy
<1>5. ASSUME NEW t \in Thread, Send(t) PROVE NumberInv'
  <2>1. NumbersKept /\ sequence' = sequence /\ child' = child
    BY <1>0, <1>5, SameNumbers DEF Send
  <2>2. OfKind(calls[t].id, calls[t].kind)
    BY <1>0, <1>t, <1>5 DEF Send, GivenOnce, OfKind, Active, At
  <2>3. \A i \in 1 .. Len(requests') :
           \/ i \in 1 .. Len(requests) /\ requests'[i] = requests[i]
           \/ requests'[i] = [id |-> calls[t].id, kind |-> calls[t].kind]
    BY <1>t, <1>5 DEF Send
  <2>4. \A i \in 1 .. Len(requests') : OfKind(requests'[i].id, requests'[i].kind)
    BY <1>0, <2>2, <2>3
  <2> QED
    BY <1>0, <2>1, <2>4, SameKinds DEF Busy
<1>6. ASSUME NEW t \in Thread, Receive(t) PROVE NumberInv'
  BY <1>0, <1>6, SameNumbers, SameKinds DEF Receive, Busy
<1>7. ASSUME NEW t \in Thread, Disconnected(t) PROVE NumberInv'
  BY <1>0, <1>7, SameNumbers, SameKinds DEF Disconnected, Busy, childVars
<1>8. ASSUME NEW t \in Thread, TimeOut(t) PROVE NumberInv'
  <2>1. NumbersKept
    BY <1>t, <1>8 DEF TimeOut, Fail, NumbersKept, Active, At
  <2> QED
    BY <1>0, <1>8, <2>1, SameKinds DEF TimeOut, Busy, childVars, proxyVars
<1>9. ASSUME NEW t \in Thread, Abort(t) PROVE NumberInv'
  BY <1>0, <1>9, SameNumbers, SameKinds DEF Abort, Busy, childVars
<1>10. ASSUME NEW t \in Thread, Reap(t) PROVE NumberInv'
  <2>1. NumbersKept
    BY <1>t, <1>10 DEF Reap, Return, NumbersKept, Active, At
  <2> QED
    BY <1>0, <1>10, <2>1, SameKinds DEF Reap, Busy, childVars
<1>11. ASSUME NEW t \in Thread, Outlived(t) PROVE NumberInv'
  <2>1. NumbersKept
    BY <1>t, <1>11 DEF Outlived, Return, NumbersKept, Active, At
  <2> QED
    BY <1>0, <1>11, <2>1, SameKinds DEF Outlived, Busy, childVars
<1>12. ASSUME NEW t \in Thread, Forget(t) PROVE NumberInv'
  BY <1>0, <1>t, <1>12 DEF Forget, GivenOnce, OfKind, Busy, Active, At, NoCall,
     childVars, proxyVars
<1>c. ASSUME calls' = calls, sequence' = sequence
      PROVE  /\ GivenOnce'
             /\ \A id, kind : OfKind(id, kind) => OfKind(id, kind)'
  BY <1>0, <1>c DEF GivenOnce, OfKind, Active, At
<1>13. CASE TakeRequest
  <2>1. /\ 1 \in 1 .. Len(requests)
        /\ child'.id = requests[1].id /\ child'.kind = requests[1].kind
    BY <1>t, <1>13 DEF TakeRequest
  <2>2. \A i \in 1 .. Len(requests') :
           i + 1 \in 1 .. Len(requests) /\ requests'[i] = requests[i + 1]
    BY <1>t, <1>13 DEF TakeRequest
  <2> QED
    BY <1>0, <1>13, <1>c, <2>1, <2>2 DEF TakeRequest, proxyVars
<1>14. CASE Act
  <2>1. child'.id = child.id /\ child'.kind = child.kind /\ Busy
    BY <1>t, <1>14 DEF Act, Busy, Children
  <2> QED
    BY <1>0, <1>14, <1>c, <2>1 DEF Act, proxyVars
<1>15. CASE AnswerOk
  <2>1. ~Busy'
    BY <1>15 DEF AnswerOk, Child, Busy
  <2> QED
    BY <1>0, <1>15, <1>c, <2>1 DEF AnswerOk, proxyVars
<1>16. CASE AnswerError
  <2>1. ~Busy'
    BY <1>16 DEF AnswerError, Child, Busy
  <2> QED
    BY <1>0, <1>16, <1>c, <2>1 DEF AnswerError, proxyVars
<1>17. CASE ChildEnds
  <2>1. ~Busy'
    BY <1>17 DEF ChildEnds, Child, Busy
  <2> QED
    BY <1>0, <1>17, <1>c, <2>1 DEF ChildEnds, proxyVars
<1> QED
  BY <1>1, <1>2, <1>3, <1>4, <1>5, <1>6, <1>7, <1>8, <1>9, <1>10, <1>11, <1>12,
     <1>13, <1>14, <1>15, <1>16, <1>17 DEF WorkerNext, ProxyStep, ChildStep

\* Reports of success stay true.
LEMMA DoneKept ==
  ASSUME WorkerInv, WorkerNext
  PROVE  DoneInv'
<1> USE DEF DoneInv
<1>0. WorkerTypeOK /\ HolderInv /\ NumberInv /\ GivenOnce /\ DoneInv
  BY DEF WorkerInv, NumberInv
<1>t. /\ calls \in [Thread -> Calls] /\ sequence \in Nat
      /\ answers \in Seq(Answers) /\ child \in Children
      /\ \A t \in Thread : calls[t].id \in Nat
  BY <1>0 DEF WorkerTypeOK, Ids, Calls
<1>n. ASSUME NumbersKept, childVars' = childVars, sequence' = sequence, ResultsDone'
      PROVE  DoneInv'
  BY <1>0, <1>n, SameKinds DEF childVars
<1>1. ASSUME NEW t \in Thread, NEW kind \in Kinds, StartCall(t, kind)
      PROVE  DoneInv'
  <2>1. /\ calls'[t].id = 0 /\ calls'[t].kind = kind
        /\ kind = "act" => calls'[t].result = "none"
        /\ \A u \in Thread : u # t => calls'[u] = calls[u]
        /\ childVars' = childVars /\ sequence' = sequence
    BY <1>t, <1>1 DEF StartCall, NoCall, proxyVars
  <2>2. \A id : DoneFor(id) => DoneFor(id)'
    BY <2>1 DEF DoneFor, childVars
  <2>3. ResultsDone'
    BY <1>0, <2>1 DEF ResultsDone, childVars
  <2> QED
    BY <1>0, <2>1, <2>2, <2>3 DEF childVars
<1>2. ASSUME NEW t \in Thread, GiveUp(t) PROVE DoneInv'
  <2>1. NumbersKept
    BY <1>t, <1>2 DEF GiveUp, Return, NumbersKept, Active, At
  <2>2. ResultsDone'
    BY <1>0, <1>t, <1>2 DEF GiveUp, Return, ResultsDone, childVars
  <2> QED
    BY <1>2, <1>n, <2>1, <2>2 DEF GiveUp
<1>3. ASSUME NEW t \in Thread, EnterUnavailable(t) PROVE DoneInv'
  <2>1. NumbersKept
    BY <1>t, <1>3 DEF EnterUnavailable, AfterCall, NumbersKept, Active, At
  <2>2. ResultsDone'
    BY <1>0, <1>t, <1>3 DEF EnterUnavailable, ResultsDone, childVars
  <2> QED
    BY <1>3, <1>n, <2>1, <2>2 DEF EnterUnavailable, proxyVars
<1>4. ASSUME NEW t \in Thread, Enter(t) PROVE DoneInv'
  <2>1. /\ calls'[t].id = sequence + 1 /\ calls'[t].result = calls[t].result
        /\ \A u \in Thread : u # t => calls'[u] = calls[u]
        /\ sequence' = sequence + 1 /\ childVars' = childVars
    BY <1>t, <1>4 DEF Enter
  <2>2. calls[t].result = "none"
    BY <1>0, <1>4 DEF Enter, HolderInv
  <2>3. \A id \in Nat : DoneFor(id) => DoneFor(id)'
    BY <1>0, <1>t, <2>1 DEF DoneFor, childVars
  <2>4. \A i \in 1 .. Len(answers) : answers[i].id \in Nat
    <3>1. \A i \in 1 .. Len(answers) : answers[i] \in Answers
      BY <1>t
    <3> QED
      BY <3>1 DEF Answers, Ids
  <2>5. ResultsDone'
    BY <1>0, <2>1, <2>2 DEF ResultsDone, childVars
  <2> QED
    BY <1>0, <2>1, <2>3, <2>4, <2>5 DEF childVars
<1>5. ASSUME NEW t \in Thread, Send(t) PROVE DoneInv'
  <2>1. NumbersKept /\ sequence' = sequence /\ child' = child
        /\ acted' = acted /\ answers' = answers
    BY <1>0, <1>5, SameNumbers DEF Send
  <2>2. /\ calls'[t].result \in {"failed", calls[t].result}
        /\ \A u \in Thread : u # t => calls'[u] = calls[u]
    BY <1>0, <1>5, Writes DEF Wrote
  <2>3. ResultsDone'
    BY <1>0, <2>1, <2>2 DEF ResultsDone, NumbersKept
  <2> QED
    BY <1>0, <2>1, <2>3, SameKinds
<1>6. ASSUME NEW t \in Thread, Receive(t) PROVE DoneInv'
  <2>1. NumbersKept /\ sequence' = sequence /\ child' = child /\ acted' = acted
    BY <1>0, <1>6, SameNumbers DEF Receive
  <2>2. 1 \in 1 .. Len(answers) /\ answers[1] = Head(answers)
    BY <1>t, <1>6 DEF Receive
  <2>3. \A i \in 1 .. Len(answers') :
           i + 1 \in 1 .. Len(answers) /\ answers'[i] = answers[i + 1]
    BY <1>t, <1>6 DEF Receive
  <2>4. /\ \A u \in Thread : u # t => calls'[u] = calls[u]
        /\ \/ calls'[t].result = "failed"
           \/ Head(answers).ok /\ Head(answers).id = calls[t].id
    BY <1>0, <1>6, Writes DEF Wrote
  <2>5. calls[t].kind = "act" /\ calls'[t].result = "ok" => calls[t].id \in acted
    BY <1>0, <2>2, <2>4 DEF DoneFor
  <2>6. ResultsDone'
    BY <1>0, <2>1, <2>4, <2>5 DEF ResultsDone, NumbersKept
  <2>7. \A i \in 1 .. Len(answers') : answers'[i].ok => DoneFor(answers'[i].id)
    BY <1>0, <2>3
  <2> QED
    BY <1>0, <2>1, <2>6, <2>7, SameKinds
<1>7. ASSUME NEW t \in Thread, Disconnected(t) PROVE DoneInv'
  <2>1. NumbersKept
    BY <1>0, <1>7, SameNumbers
  <2>2. calls'[t].result = "failed" /\ \A u \in Thread : u # t => calls'[u] = calls[u]
    BY <1>0, <1>7, Writes DEF Wrote
  <2>3. ResultsDone'
    BY <1>0, <1>7, <2>1, <2>2 DEF Disconnected, ResultsDone, NumbersKept, childVars
  <2> QED
    BY <1>7, <1>n, <2>1, <2>3 DEF Disconnected
<1>8. ASSUME NEW t \in Thread, TimeOut(t) PROVE DoneInv'
  <2>1. NumbersKept
    BY <1>t, <1>8 DEF TimeOut, Fail, NumbersKept, Active, At
  <2>2. ResultsDone'
    BY <1>0, <1>t, <1>8 DEF TimeOut, Fail, ResultsDone, childVars
  <2> QED
    BY <1>8, <1>n, <2>1, <2>2 DEF TimeOut, proxyVars
<1>9. ASSUME NEW t \in Thread, Abort(t) PROVE DoneInv'
  <2>1. NumbersKept
    BY <1>0, <1>9, SameNumbers
  <2>2. /\ calls'[t].result = calls[t].result
        /\ \A u \in Thread : u # t => calls'[u] = calls[u]
    <3>1. CASE calls' = [calls EXCEPT ![t].at = "over", ![t].result = calls[t].result]
      BY <1>t, <3>1
    <3>2. CASE calls' = [calls EXCEPT ![t].at = "killing"]
      BY <1>t, <3>2
    <3> QED
      BY <1>9, <3>1, <3>2 DEF Abort, Return
  <2>3. ResultsDone'
    BY <1>0, <1>9, <2>1, <2>2 DEF Abort, ResultsDone, NumbersKept, childVars
  <2> QED
    BY <1>9, <1>n, <2>1, <2>3 DEF Abort
<1>10. ASSUME NEW t \in Thread, Reap(t) PROVE DoneInv'
  <2>1. NumbersKept
    BY <1>t, <1>10 DEF Reap, Return, NumbersKept, Active, At
  <2>2. /\ calls'[t].result = calls[t].result
        /\ \A u \in Thread : u # t => calls'[u] = calls[u]
    BY <1>t, <1>10 DEF Reap, Return
  <2>3. ResultsDone'
    BY <1>0, <1>10, <2>1, <2>2 DEF Reap, ResultsDone, NumbersKept, childVars
  <2> QED
    BY <1>10, <1>n, <2>1, <2>3 DEF Reap
<1>11. ASSUME NEW t \in Thread, Outlived(t) PROVE DoneInv'
  <2>1. NumbersKept
    BY <1>t, <1>11 DEF Outlived, Return, NumbersKept, Active, At
  <2>2. ResultsDone'
    BY <1>0, <1>t, <1>11 DEF Outlived, Return, ResultsDone, childVars
  <2> QED
    BY <1>11, <1>n, <2>1, <2>2 DEF Outlived
<1>12. ASSUME NEW t \in Thread, Forget(t) PROVE DoneInv'
  <2>1. /\ calls'[t] = NoCall
        /\ \A u \in Thread : u # t => calls'[u] = calls[u]
        /\ childVars' = childVars /\ sequence' = sequence
    BY <1>t, <1>12 DEF Forget, proxyVars
  <2>2. \A id : DoneFor(id) => DoneFor(id)'
    BY <2>1 DEF DoneFor, childVars, NoCall
  <2>3. ResultsDone'
    BY <1>0, <2>1 DEF ResultsDone, childVars, NoCall
  <2> QED
    BY <1>0, <2>1, <2>2, <2>3 DEF childVars
<1>c. ASSUME calls' = calls, sequence' = sequence, acted \subseteq acted'
      PROVE  ResultsDone' /\ \A id : DoneFor(id) => DoneFor(id)'
  BY <1>0, <1>c DEF ResultsDone, DoneFor
<1>13. CASE TakeRequest
  <2>1. child'.at # "acted"
    BY <1>13 DEF TakeRequest
  <2> QED
    BY <1>0, <1>13, <1>c, <2>1 DEF TakeRequest, proxyVars
<1>14. CASE Act
  <2>1. child'.id \in acted'
    BY <1>t, <1>14 DEF Act, Children
  <2> QED
    BY <1>0, <1>14, <1>c, <2>1 DEF Act, proxyVars
<1>15. CASE AnswerOk
  <2>1. child'.at # "acted"
    BY <1>15 DEF AnswerOk, Child
  <2>2. DoneFor(child.id)
    BY <1>0, <1>15 DEF AnswerOk, NumberInv, OfKind, Busy, DoneFor
  <2>3. \A i \in 1 .. Len(answers') :
           \/ i \in 1 .. Len(answers) /\ answers'[i] = answers[i]
           \/ answers'[i] = [id |-> child.id, ok |-> TRUE]
    BY <1>t, <1>15 DEF AnswerOk
  <2>4. \A i \in 1 .. Len(answers') : answers'[i].ok => DoneFor(answers'[i].id)
    BY <1>0, <2>2, <2>3
  <2> QED
    BY <1>15, <1>c, <2>1, <2>4 DEF AnswerOk, proxyVars
<1>16. CASE AnswerError
  <2>1. child'.at # "acted"
    BY <1>16 DEF AnswerError, Child
  <2>2. \A i \in 1 .. Len(answers') :
           \/ i \in 1 .. Len(answers) /\ answers'[i] = answers[i]
           \/ answers'[i] = [id |-> 0, ok |-> FALSE]
    BY <1>t, <1>16 DEF AnswerError
  <2>3. \A i \in 1 .. Len(answers') : answers'[i].ok => DoneFor(answers'[i].id)
    BY <1>0, <2>2
  <2> QED
    BY <1>16, <1>c, <2>1, <2>3 DEF AnswerError, proxyVars
<1>17. CASE ChildEnds
  <2>1. child'.at # "acted"
    BY <1>17 DEF ChildEnds, Child
  <2> QED
    BY <1>0, <1>17, <1>c, <2>1 DEF ChildEnds, proxyVars
<1> QED
  BY <1>1, <1>2, <1>3, <1>4, <1>5, <1>6, <1>7, <1>8, <1>9, <1>10, <1>11, <1>12,
     <1>13, <1>14, <1>15, <1>16, <1>17 DEF WorkerNext, ProxyStep, ChildStep

-----------------------------------------------------------------------------
(* The theorems.                                                           *)

LEMMA WorkerInvInit ==
  ASSUME WorkerInit
  PROVE  WorkerInv
<1> USE DEF WorkerInit, NoCall, Child
<1>1. WorkerTypeOK
  <2>1. NoCall \in Calls /\ Child("ready") \in Children
    BY DEF Calls, Children, ChildSteps, Steps, Kinds, Results, Ids
  <2>2. /\ child \in Children /\ calls \in [Thread -> Calls]
        /\ requests = <<>> /\ answers = <<>> /\ acted = {} /\ sequence = 0
        /\ holder = None /\ closed = FALSE /\ connected = TRUE /\ survived = FALSE
    BY <2>1
  <2> HIDE DEF WorkerInit, NoCall, Child
  <2>3. requests \in Seq(Requests) /\ answers \in Seq(Answers)
    BY <2>2
  <2>4. acted \subseteq Ids /\ sequence \in Ids /\ holder \in Thread \cup {None}
    BY <2>2 DEF Ids
  <2> QED
    BY <2>2, <2>3, <2>4 DEF WorkerTypeOK
<1>2. HolderInv
  BY DEF HolderInv, Active, At
<1>3. ClosingInv
  BY DEF ClosingInv, AbortEndsChild, Killing, At
<1>4. PipeInv
  BY DEF PipeInv, Busy
<1>5. NumberInv
  BY DEF NumberInv, GivenOnce, Busy, Active, At
<1>6. DoneInv
  BY DEF DoneInv, ResultsDone
<1> QED
  BY <1>1, <1>2, <1>3, <1>4, <1>5, <1>6 DEF WorkerInv

LEMMA WorkerInvStutter ==
  ASSUME WorkerInv, UNCHANGED workerVars
  PROVE  WorkerInv'
<1> USE DEF workerVars, childVars, proxyVars
<1>1. WorkerTypeOK' /\ HolderInv' /\ ClosingInv'
  BY DEF WorkerInv, WorkerTypeOK, HolderInv, ClosingInv, AbortEndsChild, Active,
         Killing, At, ChildGone
<1>2. PipeInv' /\ NumberInv' /\ DoneInv'
  BY DEF WorkerInv, PipeInv, NumberInv, DoneInv, GivenOnce, OfKind, DoneFor,
         ResultsDone, Busy, Active, At, ChildGone
<1> QED
  BY <1>1, <1>2 DEF WorkerInv

\* Every step of the proxy keeps the invariant.
LEMMA WorkerInvKept ==
  ASSUME WorkerInv, [WorkerNext]_workerVars
  PROVE  WorkerInv'
<1>1. ASSUME WorkerNext PROVE WorkerInv'
  <2>1. WorkerTypeOK
    BY DEF WorkerInv
  <2> QED
    BY <1>1, <2>1, WorkerTyped, HolderKept, ClosingKept, PipeKept, NumberKept,
       DoneKept DEF WorkerInv
<1> QED
  BY <1>1, WorkerInvStutter

LEMMA WorkerInvariant == WorkerSpec => []WorkerInv
<1>1. WorkerInit => WorkerInv
  BY WorkerInvInit
<1>2. WorkerInv /\ [WorkerNext]_workerVars => WorkerInv'
  BY WorkerInvKept
<1> QED
  BY <1>1, <1>2, PTL DEF WorkerSpec

\* The variables keep their types, for every set of threads and every bound.
THEOREM WorkerTypeCorrect == WorkerSpec => []WorkerTypeOK
<1>1. WorkerInv => WorkerTypeOK
  BY DEF WorkerInv
<1> QED
  BY <1>1, WorkerInvariant, PTL

\* The child of an open proxy works for the holder of the lock alone: one
\* request at a time is in the pipe or in the child.
THEOREM OneRequest == WorkerSpec => []OneRequestAtATime
<1>1. WorkerInv => OneRequestAtATime
  <2> SUFFICES ASSUME WorkerInv, ~closed, ~ChildGone PROVE OneRequestAtATime
    BY DEF OneRequestAtATime
  <2>1. PipeInv /\ answers \in Seq(Answers)
    BY DEF WorkerInv, WorkerTypeOK
  <2>2. Len(answers) >= 1 => answers # <<>>
    BY <2>1
  <2> QED
    BY <2>1, <2>2 DEF PipeInv, OneRequestAtATime, Busy
<1> QED
  BY <1>1, WorkerInvariant, PTL

\* A closed proxy that nobody is closing has no child left, unless the child
\* outlived terminate and kill.
THEOREM AbortsEndTheChild == WorkerSpec => []AbortEndsChild
<1>1. WorkerInv => AbortEndsChild
  BY DEF WorkerInv, ClosingInv
<1> QED
  BY <1>1, WorkerInvariant, PTL

\* A call that reports success was carried out.
THEOREM SuccessIsReal == WorkerSpec => []OkMeansDone
<1>1. WorkerInv => OkMeansDone
  BY DEF WorkerInv, DoneInv, ResultsDone, OkMeansDone
<1> QED
  BY <1>1, WorkerInvariant, PTL

\* No hardware action happens for a call that is over, but while the child is
\* being ended or after it could not be.
THEOREM NoActionComesLate == WorkerSpec => NoLateAct
<1> DEFINE Excused ==
      \/ \E t \in Thread : At(t) \in {"waiting", "aborting"} /\ calls[t].id = child.id
      \/ \E t \in Thread : Killing(t)
      \/ survived
<1>1. ASSUME WorkerInv, [WorkerNext]_workerVars, acted' # acted
      PROVE  Excused
  <2>1. ~(UNCHANGED workerVars)
    BY <1>1 DEF workerVars, childVars
  <2>2. WorkerNext
    BY <1>1, <2>1
  <2>3. Act
    <3> USE <1>1, <2>2 DEF childVars, proxyVars
    <3>1. ASSUME NEW t \in Thread, ProxyStep(t) PROVE acted' = acted
      BY <3>1 DEF ProxyStep, GiveUp, EnterUnavailable, Enter, Send, Receive,
         Disconnected, TimeOut, Abort, Reap, Outlived
    <3>2. ASSUME NEW t \in Thread, NEW kind \in Kinds, StartCall(t, kind)
          PROVE  acted' = acted
      BY <3>2 DEF StartCall
    <3>3. ASSUME NEW t \in Thread, Forget(t) PROVE acted' = acted
      BY <3>3 DEF Forget
    <3>4. ASSUME TakeRequest \/ AnswerOk \/ AnswerError \/ ChildEnds
          PROVE  acted' = acted
      BY <3>4 DEF TakeRequest, AnswerOk, AnswerError, ChildEnds
    <3> QED
      BY <3>1, <3>2, <3>3, <3>4 DEF WorkerNext, ChildStep
  <2>4. ~ChildGone /\ Busy
    BY <2>3 DEF Act, ChildGone, Busy
  <2>5. CASE closed
    BY <1>1, <2>4, <2>5 DEF WorkerInv, ClosingInv, AbortEndsChild
  <2>6. CASE ~closed
    <3>1. /\ holder # None /\ At(holder) \in {"waiting", "aborting"}
          /\ child.id = calls[holder].id
      BY <1>1, <2>4, <2>6 DEF WorkerInv, PipeInv
    <3>2. holder \in Thread
      BY <1>1, <3>1 DEF WorkerInv, WorkerTypeOK
    <3> QED
      BY <3>1, <3>2
  <2> QED
    BY <2>5, <2>6
<1>2. WorkerInv /\ [WorkerNext]_workerVars => [acted' # acted => Excused]_workerVars
  BY <1>1
<1> QED
  BY <1>2, WorkerInvariant, PTL DEF WorkerSpec, NoLateAct
-----------------------------------------------------------------------------
(* The service.                                                            *)
\* Who waits for the lock has no number yet; an abort does not wait for it; and
\* closing closes.
CallInv ==
    \A t \in Thread :
        /\ At(t) = "queued" => calls[t].id = 0
        /\ calls[t].kind = "abort" => At(t) \in {"aborting", "killing", "over"}
        /\ calls[t].kind \in {"abort", "close"} /\ At(t) = "over" => closed

\* A task is in the proxy when it says so, with the backend lock, and asks for
\* what its request is.
InBackend(r) == task[r] \in {"checking", "between", "running"}

TaskInv ==
    \A r \in Request :
        /\ task[r] \in {"checking", "running"} <=> At(Worker(r)) # "idle"
        /\ task[r] \in {"checking", "between"} => level[r] = "control"
        /\ task[r] = "checking" => calls[Worker(r)].kind = "read"
        /\ task[r] = "running" =>
              calls[Worker(r)].kind = IF level[r] = "read" THEN "read" ELSE "act"
        /\ InBackend(r) => backendLock = r
        /\ handler[r] \in {"new", "reading"} => task[r] = "none"
        /\ task[r] = "none" => handler[r] \in {"new", "reading", "answered"}

\* A handler is in the proxy when it says so, to abort or to undo an attach.
HandlerInv ==
    \A r \in Request :
        /\ At(Helper(r)) # "idle" =>
              handler[r] \in {"aborting", "resuming", "verifying", "closing"}
        /\ handler[r] = "aborting" =>
              At(Helper(r)) # "idle" /\ calls[Helper(r)].kind = "abort"
        /\ handler[r] \in {"recovering", "resuming", "verifying", "closing"} =>
              level[r] = "attach"
        /\ handler[r] = "closing" /\ At(Helper(r)) # "idle" =>
              calls[Helper(r)].kind = "close"

\* Stopping waits for the handlers, then for the tasks, then closes the proxy.
StopInv ==
    /\ stop # "no" => stopping
    /\ stop = "closing" <=> At(Stopper) # "idle"
    /\ stop = "closing" => calls[Stopper].kind = "close"
    /\ stop \in {"tasks", "closing", "releasing", "done"} =>
          \A r \in Request : handler[r] \in {"new", "answered"}
    /\ stop \in {"closing", "releasing", "done"} =>
          \A r \in Request : task[r] \in {"none", "done"}
    /\ stop \in {"releasing", "done"} => closed
    /\ lease = "released" => stop = "done"

\* A drain waits for every modification that has a task.
DrainInv ==
    /\ draining # "no" =>
          \A r \in Request :
              level[r] = "program" /\ task[r] \notin {"none", "done"} => r \in drainees
    /\ draining = "quiet" => \A r \in drainees : task[r] = "done"

\* What is not a read is answered when its task is over or the proxy is closed.
AnswerInv ==
    \A r \in Request :
        handler[r] = "answered" /\ level[r] # "read" =>
            closed \/ task[r] \in {"none", "done"}

\* The types of what the service adds to the proxy.
ServiceTypes ==
    /\ lease \in {"held", "lost", "released"}
    /\ stopping \in BOOLEAN
    /\ draining \in {"no", "asked", "quiet"}
    /\ drainees \subseteq Request
    /\ backendLock \in Request \cup {None}
    /\ level \in [Request -> Level]
    /\ handler \in [Request -> HandlerSteps]
    /\ task \in [Request -> TaskSteps]
    /\ result \in [Request -> {"none", "ok", "failed"}]
    /\ checked \in [Request -> Nat]
    /\ outcome \in [Request -> Outcomes]
    /\ stop \in StopSteps
    /\ stopOk \in BOOLEAN

ServiceInv ==
    /\ CallInv
    /\ TaskInv
    /\ HandlerInv
    /\ StopInv
    /\ DrainInv
    /\ AnswerInv

\* No attach stands beside a control request.  The recovery of an attach that
\* came too late does not take the backend lock (service.py,
\* _recover_late_attach), so it can come between the check of a control request
\* and its action.
ControlAlone ==
    \A r, s \in Request : level[r] = "control" => level[s] # "attach"

\* While control has the backend lock, no late attach is being undone.
NothingUndone ==
    \A r, s \in Request :
        level[r] = "control" /\ InBackend(r) =>
            handler[s] \notin {"resuming", "verifying", "closing"}

\* While control has the backend lock, the proxy numbers only its requests.
SerialInv ==
    \A r \in Request :
        /\ task[r] = "checking" => calls[Worker(r)].id \in {0, sequence}
        /\ task[r] = "between" => checked[r] \in {0, sequence}
        /\ level[r] = "control" /\ task[r] = "running" /\ checked[r] # 0 =>
              \/ calls[Worker(r)].id = 0 /\ sequence = checked[r]
              \/ calls[Worker(r)].id = checked[r] + 1

-----------------------------------------------------------------------------
(* Threads and their calls.                                                *)

\* Each request has two threads of its own, and stop() has one.
LEMMA Threads ==
  /\ Stopper \in Thread
  /\ \A r \in Request : Worker(r) \in Thread /\ Helper(r) \in Thread
  /\ \A r, s \in Request : Worker(r) # Helper(s)
  /\ \A r \in Request : Worker(r) # Stopper /\ Helper(r) # Stopper
  /\ \A r, s \in Request : r # s => Worker(r) # Worker(s) /\ Helper(r) # Helper(s)
  /\ \A t \in Thread : t = Stopper \/ \E r \in Request : t \in {Worker(r), Helper(r)}
BY ThreadsOfTheService DEF Worker, Helper, Stopper

\* Thread t enters the proxy.
Begun(t, kind) ==
    /\ At(t) = "idle"
    /\ calls'[t].kind = kind /\ calls'[t].id = 0
    /\ calls'[t].at \in {"queued", "aborting", "over"}
    /\ calls'[t].at = "aborting" <=> kind = "abort"
    /\ calls'[t].at = "over" => kind = "close" /\ closed
    /\ \A u \in Thread : u # t => calls'[u] = calls[u]
    /\ closed' = closed /\ sequence' = sequence

LEMMA Beginning ==
  ASSUME WorkerTypeOK, NEW t \in Thread, NEW kind \in Kinds, StartCall(t, kind)
  PROVE  Begun(t, kind)
<1>1. calls \in [Thread -> Calls]
  BY DEF WorkerTypeOK
<1> QED
  BY <1>1 DEF StartCall, Begun, NoCall, proxyVars, At, Kinds

\* Thread t leaves it.
Left(t) ==
    /\ At(t) = "over"
    /\ calls'[t].at = "idle" /\ calls'[t].kind = "act" /\ calls'[t].id = 0
    /\ \A u \in Thread : u # t => calls'[u] = calls[u]
    /\ closed' = closed /\ sequence' = sequence

LEMMA Leaving ==
  ASSUME WorkerTypeOK, NEW t \in Thread, Forget(t)
  PROVE  Left(t)
BY DEF WorkerTypeOK, Forget, Left, NoCall, proxyVars, At

\* Thread t goes on in it; only from the queue does it get a number.
Moved(t) ==
    /\ At(t) # "idle" /\ calls'[t].at # "idle"
    /\ calls'[t].kind = calls[t].kind
    /\ \/ calls'[t].id = calls[t].id /\ sequence' = sequence
       \/ At(t) = "queued" /\ calls'[t].id = sequence + 1 /\ sequence' = sequence + 1
    /\ closed => closed'
    /\ \A u \in Thread : u # t => calls'[u] = calls[u]

LEMMA Moving ==
  ASSUME WorkerTypeOK, NEW t \in Thread, ProxyStep(t)
  PROVE  Moved(t)
<1>1. calls \in [Thread -> Calls]
  BY DEF WorkerTypeOK
<1> USE <1>1 DEF Moved, At, Calls, proxyVars, Return, Fail, AfterCall
<1>2. CASE GiveUp(t)
  BY <1>2 DEF GiveUp
<1>3. CASE EnterUnavailable(t)
  BY <1>3 DEF EnterUnavailable
<1>4. CASE Enter(t)
  BY <1>4 DEF Enter
<1>5. CASE Send(t)
  BY <1>5 DEF Send
<1>6. CASE Receive(t)
  BY <1>6 DEF Receive
<1>7. CASE Disconnected(t)
  BY <1>7 DEF Disconnected
<1>8. CASE TimeOut(t)
  BY <1>8 DEF TimeOut
<1>9. CASE Abort(t)
  BY <1>9 DEF Abort
<1>10. CASE Reap(t)
  BY <1>10 DEF Reap, Killing
<1>11. CASE Outlived(t)
  BY <1>11 DEF Outlived, Killing
<1> QED
  BY <1>2, <1>3, <1>4, <1>5, <1>6, <1>7, <1>8, <1>9, <1>10, <1>11 DEF ProxyStep

ProxyStays == UNCHANGED workerVars

\* What a call keeps of its place, whatever enters, leaves or goes on in the
\* proxy.
LEMMA CallKept ==
  ASSUME WorkerTypeOK, ClosingInv, CallInv,
         \/ \E t \in Thread : \/ \E kind \in Kinds : StartCall(t, kind)
                              \/ Forget(t)
                              \/ ProxyStep(t)
         \/ ChildStep
         \/ ProxyStays
  PROVE  CallInv'
<1>0. calls \in [Thread -> Calls] /\ closed \in BOOLEAN
  BY DEF WorkerTypeOK
<1>1. ASSUME NEW t \in Thread, NEW kind \in Kinds, StartCall(t, kind)
      PROVE  CallInv'
  BY <1>1, Beginning DEF Begun, CallInv, At
<1>2. ASSUME NEW t \in Thread, Forget(t)
      PROVE  CallInv'
  BY <1>2, Leaving DEF Left, CallInv, At
<1>3. ASSUME NEW t \in Thread, ProxyStep(t)
      PROVE  CallInv'
  <2>1. Moved(t)
    BY <1>3, Moving
  <2>2. /\ calls'[t].at = "queued" => calls'[t].id = 0
        /\ calls'[t].kind = "abort" => calls'[t].at \in {"aborting", "killing", "over"}
        /\ calls'[t].kind \in {"abort", "close"} /\ calls'[t].at = "over" => closed'
    <3> USE <1>0 DEF CallInv, At, Calls, proxyVars, Return, Fail, AfterCall
    <3>1. CASE GiveUp(t)
      BY <3>1 DEF GiveUp
    <3>2. CASE EnterUnavailable(t)
      BY <3>2 DEF EnterUnavailable
    <3>3. CASE Enter(t)
      BY <3>3 DEF Enter
    <3>4. CASE Send(t)
      BY <3>4 DEF Send
    <3>5. CASE Receive(t)
      BY <3>5 DEF Receive
    <3>6. CASE Disconnected(t)
      BY <3>6 DEF Disconnected
    <3>7. CASE TimeOut(t)
      BY <3>7 DEF TimeOut
    <3>8. CASE Abort(t)
      BY <3>8 DEF Abort
    <3>9. CASE Reap(t) \/ Outlived(t)
      BY <3>9 DEF Reap, Outlived, Killing, ClosingInv
    <3> QED
      BY <1>3, <3>1, <3>2, <3>3, <3>4, <3>5, <3>6, <3>7, <3>8, <3>9 DEF ProxyStep
  <2> QED
    BY <2>1, <2>2 DEF Moved, CallInv, At
<1>4. ASSUME ChildStep \/ ProxyStays
      PROVE  CallInv'
  <2>1. calls' = calls /\ closed' = closed
    BY <1>4 DEF ChildStep, TakeRequest, Act, AnswerOk, AnswerError, ChildEnds,
       ProxyStays, workerVars, proxyVars
  <2> QED
    BY <2>1 DEF CallInv, At
<1> QED
  BY <1>1, <1>2, <1>3, <1>4

\* The child's steps leave the calls and the pipe's users alone.
LEMMA ChildAlone ==
  ASSUME ChildStep
  PROVE  calls' = calls /\ UNCHANGED proxyVars
BY DEF ChildStep, TakeRequest, Act, AnswerOk, AnswerError, ChildEnds

\* What a request does to the proxy: one of its threads enters it or leaves it.
LEMMA RequestCalls ==
  ASSUME NEW r \in Request, Accept(r) \/ Handle(r) \/ RunTask(r)
  PROVE  \/ UNCHANGED workerVars
         \/ \E t \in Thread : Forget(t) \/ \E kind \in Kinds : StartCall(t, kind)
<1> USE Threads DEF Kinds, workerVars
<1>1. CASE Accept(r) \/ Refuse(r) \/ Submit(r) \/ Reply(r) \/ GiveUpQueued(r)
           \/ Join(r) \/ DenyControl(r)
  BY <1>1 DEF Accept, Refuse, Submit, Reply, GiveUpQueued, Join, DenyControl
<1>2. CASE GiveUpRunning(r)
  BY <1>2 DEF GiveUpRunning
<1>3. CASE AbortOver(r) \/ Resumed(r)
  BY <1>3 DEF AbortOver, Resumed
<1>4. CASE Recover(r)
  BY <1>4 DEF Recover
<1>5. CASE Verify(r) \/ CloseLate(r)
  BY <1>5 DEF Verify, CloseLate
<1>6. CASE TakeBackend(r)
  BY <1>6 DEF TakeBackend
<1>7. CASE CheckState(r) \/ EndTask(r)
  BY <1>7 DEF CheckState, EndTask
<1>8. CASE Control(r)
  BY <1>8 DEF Control
<1> QED
  BY <1>1, <1>2, <1>3, <1>4, <1>5, <1>6, <1>7, <1>8 DEF Handle, RunTask

\* And what stopping does to it.
LEMMA StoppingCalls ==
  ASSUME Stopping
  PROVE  \/ UNCHANGED workerVars
         \/ \E t \in Thread : Forget(t) \/ \E kind \in Kinds : StartCall(t, kind)
<1>1. UNCHANGED workerVars \/ Forget(Stopper) \/ StartCall(Stopper, "close")
  BY DEF Stopping, RunnerCleaned, CloseBackend, BackendClosed, Release
<1>2. "close" \in Kinds
  BY DEF Kinds
<1> QED
  BY <1>1, <1>2, Threads

\* Every step of the service is a step of the proxy or leaves the proxy alone.
LEMMA ServiceIsProxy ==
  ASSUME Next
  PROVE  [WorkerNext]_workerVars
<1>1. ASSUME NEW r \in Request, Accept(r) \/ Handle(r) \/ RunTask(r)
      PROVE  [WorkerNext]_workerVars
  BY <1>1, RequestCalls DEF WorkerNext
<1>2. CASE StartDrain \/ Drained \/ LoseLease \/ Stop
  BY <1>2 DEF StartDrain, Drained, LoseLease, Stop
<1>3. CASE Stopping
  BY <1>3, StoppingCalls DEF WorkerNext
<1>4. ASSUME NEW t \in Thread, Proxy(t)
      PROVE  [WorkerNext]_workerVars
  BY <1>4 DEF Proxy, WorkerNext
<1>5. CASE ChildStep
  BY <1>5 DEF WorkerNext
<1> QED
  BY <1>1, <1>2, <1>3, <1>4, <1>5 DEF Next

\* Only the child's own action changes what was acted.
LEMMA ActOnly ==
  ASSUME [Next]_vars, acted' # acted
  PROVE  Act
<1>1. [WorkerNext]_workerVars
  BY ServiceIsProxy DEF vars
<1>2. WorkerNext
  BY <1>1 DEF workerVars, childVars
<1> USE DEF childVars, proxyVars
<1>3. ASSUME NEW t \in Thread, ProxyStep(t) PROVE acted' = acted
  BY <1>3 DEF ProxyStep, GiveUp, EnterUnavailable, Enter, Send, Receive,
     Disconnected, TimeOut, Abort, Reap, Outlived
<1>4. ASSUME NEW t \in Thread, NEW kind \in Kinds, StartCall(t, kind)
      PROVE  acted' = acted
  BY <1>4 DEF StartCall
<1>5. ASSUME NEW t \in Thread, Forget(t)
      PROVE  acted' = acted
  BY <1>5 DEF Forget
<1>6. ASSUME TakeRequest \/ AnswerOk \/ AnswerError \/ ChildEnds
      PROVE  acted' = acted
  BY <1>6 DEF TakeRequest, AnswerOk, AnswerError, ChildEnds
<1> QED
  BY <1>2, <1>3, <1>4, <1>5, <1>6 DEF WorkerNext, ChildStep
-----------------------------------------------------------------------------
(* The invariant, one part after the other.                                *)

\* The kinds of calls the service makes.
LEMMA KindsOfCalls ==
  {"act", "read", "close", "abort"} \subseteq Kinds
BY DEF Kinds

\* The service's own variables keep their types.
LEMMA ServiceTyped ==
  ASSUME ServiceTypes, WorkerTypeOK, Next
  PROVE  ServiceTypes'
<1> USE DEF ServiceTypes, HandlerSteps, TaskSteps, Outcomes, StopSteps, Answer,
    FailTask, lifeVars, drainVars, requestVars, serviceVars
<1>1. ASSUME NEW r \in Request, Accept(r) PROVE ServiceTypes'
  BY <1>1 DEF Accept
<1>2. ASSUME NEW r \in Request, Refuse(r) PROVE ServiceTypes'
  BY <1>2 DEF Refuse
<1>3. ASSUME NEW r \in Request, Submit(r) PROVE ServiceTypes'
  BY <1>3 DEF Submit
<1>4. ASSUME NEW r \in Request, Reply(r) PROVE ServiceTypes'
  BY <1>4 DEF Reply
<1>5. ASSUME NEW r \in Request, GiveUpQueued(r) PROVE ServiceTypes'
  BY <1>5 DEF GiveUpQueued
<1>6. ASSUME NEW r \in Request, GiveUpRunning(r) PROVE ServiceTypes'
  BY <1>6 DEF GiveUpRunning
<1>7. ASSUME NEW r \in Request, AbortOver(r) PROVE ServiceTypes'
  BY <1>7 DEF AbortOver
<1>8. ASSUME NEW r \in Request, Join(r) PROVE ServiceTypes'
  BY <1>8 DEF Join
<1>9. ASSUME NEW r \in Request, Recover(r) PROVE ServiceTypes'
  BY <1>9 DEF Recover
<1>10. ASSUME NEW r \in Request, Resumed(r) PROVE ServiceTypes'
  BY <1>10 DEF Resumed
<1>11. ASSUME NEW r \in Request, Verify(r) PROVE ServiceTypes'
  BY <1>11 DEF Verify
<1>12. ASSUME NEW r \in Request, CloseLate(r) PROVE ServiceTypes'
  BY <1>12 DEF CloseLate
<1>13. ASSUME NEW r \in Request, TakeBackend(r) PROVE ServiceTypes'
  BY <1>13 DEF TakeBackend
<1>14. ASSUME NEW r \in Request, DenyControl(r) PROVE ServiceTypes'
  BY <1>14 DEF DenyControl
<1>15. ASSUME NEW r \in Request, CheckState(r) PROVE ServiceTypes'
  <2>1. calls[Worker(r)].id \in Nat
    BY Threads DEF WorkerTypeOK, Calls, Ids
  <2> QED
    BY <1>15, <2>1 DEF CheckState
<1>16. ASSUME NEW r \in Request, Control(r) PROVE ServiceTypes'
  BY <1>16 DEF Control
<1>17. ASSUME NEW r \in Request, EndTask(r) PROVE ServiceTypes'
  BY <1>17 DEF EndTask
<1>18. CASE StartDrain
  BY <1>18 DEF StartDrain
<1>19. CASE Drained
  BY <1>19 DEF Drained
<1>20. CASE LoseLease
  BY <1>20 DEF LoseLease
<1>21. CASE Stop
  BY <1>21 DEF Stop
<1>22. CASE RunnerCleaned
  BY <1>22 DEF RunnerCleaned
<1>23. CASE CloseBackend
  BY <1>23 DEF CloseBackend
<1>24. CASE BackendClosed
  BY <1>24 DEF BackendClosed
<1>25. CASE Release
  BY <1>25 DEF Release
<1>26. CASE UNCHANGED serviceVars
  BY <1>26
<1> QED
  BY <1>1, <1>2, <1>3, <1>4, <1>5, <1>6, <1>7, <1>8, <1>9, <1>10, <1>11, <1>12,
     <1>13, <1>14, <1>15, <1>16, <1>17, <1>18, <1>19, <1>20, <1>21, <1>22, <1>23,
     <1>24, <1>25, <1>26 DEF Next, Handle, RunTask, Stopping, Proxy

\* A drain.
LEMMA DrainKept ==
  ASSUME TypeOK, WorkerInv, ServiceInv, Next
  PROVE  DrainInv'
<1> USE DEF DrainInv, ServiceInv, TypeOK, Answer, FailTask, lifeVars, drainVars,
    requestVars, serviceVars
<1>1. ASSUME NEW r \in Request, Accept(r) PROVE DrainInv'
  BY <1>1 DEF Accept
<1>2. ASSUME NEW r \in Request, Refuse(r) PROVE DrainInv'
  BY <1>2 DEF Refuse
<1>3. ASSUME NEW r \in Request, Submit(r) PROVE DrainInv'
  BY <1>3 DEF Submit, TaskInv
<1>4. ASSUME NEW r \in Request, Reply(r) PROVE DrainInv'
  BY <1>4 DEF Reply
<1>5. ASSUME NEW r \in Request, GiveUpQueued(r) PROVE DrainInv'
  BY <1>5 DEF GiveUpQueued
<1>6. ASSUME NEW r \in Request, GiveUpRunning(r) PROVE DrainInv'
  BY <1>6 DEF GiveUpRunning
<1>7. ASSUME NEW r \in Request, AbortOver(r) PROVE DrainInv'
  BY <1>7 DEF AbortOver
<1>8. ASSUME NEW r \in Request, Join(r) PROVE DrainInv'
  BY <1>8 DEF Join
<1>9. ASSUME NEW r \in Request, Recover(r) PROVE DrainInv'
  BY <1>9 DEF Recover
<1>10. ASSUME NEW r \in Request, Resumed(r) PROVE DrainInv'
  BY <1>10 DEF Resumed
<1>11. ASSUME NEW r \in Request, Verify(r) PROVE DrainInv'
  BY <1>11 DEF Verify
<1>12. ASSUME NEW r \in Request, CloseLate(r) PROVE DrainInv'
  BY <1>12 DEF CloseLate
<1>13. ASSUME NEW r \in Request, TakeBackend(r) PROVE DrainInv'
  BY <1>13 DEF TakeBackend
<1>14. ASSUME NEW r \in Request, DenyControl(r) PROVE DrainInv'
  BY <1>14 DEF DenyControl
<1>15. ASSUME NEW r \in Request, CheckState(r) PROVE DrainInv'
  BY <1>15 DEF CheckState
<1>16. ASSUME NEW r \in Request, Control(r) PROVE DrainInv'
  BY <1>16 DEF Control
<1>17. ASSUME NEW r \in Request, EndTask(r) PROVE DrainInv'
  BY <1>17 DEF EndTask
<1>18. CASE StartDrain
  BY <1>18 DEF StartDrain
<1>19. CASE Drained
  BY <1>19 DEF Drained
<1>20. CASE LoseLease
  BY <1>20 DEF LoseLease
<1>21. CASE Stop
  BY <1>21 DEF Stop
<1>22. CASE RunnerCleaned
  BY <1>22 DEF RunnerCleaned
<1>23. CASE CloseBackend
  BY <1>23 DEF CloseBackend
<1>24. CASE BackendClosed
  BY <1>24 DEF BackendClosed
<1>25. CASE Release
  BY <1>25 DEF Release
<1>26. CASE UNCHANGED serviceVars
  BY <1>26
<1> QED
  BY <1>1, <1>2, <1>3, <1>4, <1>5, <1>6, <1>7, <1>8, <1>9, <1>10, <1>11, <1>12,
     <1>13, <1>14, <1>15, <1>16, <1>17, <1>18, <1>19, <1>20, <1>21, <1>22, <1>23,
     <1>24, <1>25, <1>26 DEF Next, Handle, RunTask, Stopping, Proxy

\* A task.
LEMMA TaskKept ==
  ASSUME TypeOK, WorkerInv, ServiceInv, Next
  PROVE  TaskInv'
<1> USE Threads, KindsOfCalls DEF WorkerInv, ServiceInv, TypeOK, At, workerVars,
    proxyVars, TaskInv, InBackend, Answer, FailTask, lifeVars, drainVars, requestVars,
    serviceVars
<1>1. ASSUME NEW r \in Request, Accept(r) PROVE TaskInv'
  BY <1>1 DEF Accept
<1>2. ASSUME NEW r \in Request, Refuse(r) PROVE TaskInv'
  BY <1>2 DEF Refuse
<1>3. ASSUME NEW r \in Request, Submit(r) PROVE TaskInv'
  BY <1>3 DEF Submit
<1>4. ASSUME NEW r \in Request, Reply(r) PROVE TaskInv'
  BY <1>4 DEF Reply
<1>5. ASSUME NEW r \in Request, GiveUpQueued(r) PROVE TaskInv'
  BY <1>5 DEF GiveUpQueued
<1>6. ASSUME NEW r \in Request, GiveUpRunning(r) PROVE TaskInv'
  BY <1>6, Beginning DEF GiveUpRunning, Begun
<1>7. ASSUME NEW r \in Request, AbortOver(r) PROVE TaskInv'
  BY <1>7, Leaving DEF AbortOver, Left
<1>8. ASSUME NEW r \in Request, Join(r) PROVE TaskInv'
  BY <1>8 DEF Join
<1>9. ASSUME NEW r \in Request, Recover(r) PROVE TaskInv'
  BY <1>9, Beginning DEF Recover, Begun
<1>10. ASSUME NEW r \in Request, Resumed(r) PROVE TaskInv'
  BY <1>10, Leaving DEF Resumed, Left
<1>11. ASSUME NEW r \in Request, Verify(r) PROVE TaskInv'
  BY <1>11, Beginning, Leaving DEF Verify, Begun, Left
<1>12. ASSUME NEW r \in Request, CloseLate(r) PROVE TaskInv'
  BY <1>12, Beginning, Leaving DEF CloseLate, Begun, Left
<1>13. ASSUME NEW r \in Request, TakeBackend(r) PROVE TaskInv'
  <2>1. CASE level[r] \in {"program", "attach"}
    BY <1>13, <2>1, Beginning, NoneNoRequest DEF TakeBackend, Begun
  <2>2. CASE level[r] = "read"
    BY <1>13, <2>2, Beginning, NoneNoRequest DEF TakeBackend, Begun
  <2>3. CASE level[r] = "control"
    BY <1>13, <2>3, Beginning, NoneNoRequest DEF TakeBackend, Begun
  <2> QED
    BY <2>1, <2>2, <2>3, LevelsKnown
<1>14. ASSUME NEW r \in Request, DenyControl(r) PROVE TaskInv'
  BY <1>14 DEF DenyControl
<1>15. ASSUME NEW r \in Request, CheckState(r) PROVE TaskInv'
  BY <1>15, Leaving DEF CheckState, Left
<1>16. ASSUME NEW r \in Request, Control(r) PROVE TaskInv'
  BY <1>16, Beginning DEF Control, Begun
<1>17. ASSUME NEW r \in Request, EndTask(r) PROVE TaskInv'
  BY <1>17, Leaving DEF EndTask, Left
<1>18. CASE StartDrain
  BY <1>18 DEF StartDrain
<1>19. CASE Drained
  BY <1>19 DEF Drained
<1>20. CASE LoseLease
  BY <1>20 DEF LoseLease
<1>21. CASE Stop
  BY <1>21 DEF Stop
<1>22. CASE RunnerCleaned
  BY <1>22 DEF RunnerCleaned
<1>23. CASE CloseBackend
  BY <1>23, Beginning DEF CloseBackend, Begun
<1>24. CASE BackendClosed
  BY <1>24, Leaving DEF BackendClosed, Left
<1>25. CASE Release
  BY <1>25 DEF Release
<1>26. ASSUME NEW t \in Thread, Proxy(t) PROVE TaskInv'
  BY <1>26, Moving DEF Proxy, Moved
<1>27. CASE ChildStep /\ UNCHANGED serviceVars
  BY <1>27, ChildAlone
<1> QED
  BY <1>1, <1>2, <1>3, <1>4, <1>5, <1>6, <1>7, <1>8, <1>9, <1>10, <1>11, <1>12,
     <1>13, <1>14, <1>15, <1>16, <1>17, <1>18, <1>19, <1>20, <1>21, <1>22, <1>23,
     <1>24, <1>25, <1>26, <1>27 DEF Next, Handle, RunTask, Stopping

\* A handler.
LEMMA HandlerKept ==
  ASSUME TypeOK, WorkerInv, ServiceInv, Next
  PROVE  HandlerInv'
<1> USE Threads, KindsOfCalls DEF WorkerInv, ServiceInv, TypeOK, At, workerVars,
    proxyVars, HandlerInv, Answer, FailTask, lifeVars, drainVars, requestVars,
    serviceVars
<1>1. ASSUME NEW r \in Request, Accept(r) PROVE HandlerInv'
  BY <1>1 DEF Accept
<1>2. ASSUME NEW r \in Request, Refuse(r) PROVE HandlerInv'
  BY <1>2 DEF Refuse
<1>3. ASSUME NEW r \in Request, Submit(r) PROVE HandlerInv'
  BY <1>3 DEF Submit
<1>4. ASSUME NEW r \in Request, Reply(r) PROVE HandlerInv'
  BY <1>4 DEF Reply
<1>5. ASSUME NEW r \in Request, GiveUpQueued(r) PROVE HandlerInv'
  BY <1>5 DEF GiveUpQueued
<1>6. ASSUME NEW r \in Request, GiveUpRunning(r) PROVE HandlerInv'
  BY <1>6, Beginning DEF GiveUpRunning, Begun
<1>7. ASSUME NEW r \in Request, AbortOver(r) PROVE HandlerInv'
  BY <1>7, Leaving DEF AbortOver, Left
<1>8. ASSUME NEW r \in Request, Join(r) PROVE HandlerInv'
  BY <1>8 DEF Join
<1>9. ASSUME NEW r \in Request, Recover(r) PROVE HandlerInv'
  BY <1>9, Beginning DEF Recover, Begun
<1>10. ASSUME NEW r \in Request, Resumed(r) PROVE HandlerInv'
  BY <1>10, Leaving DEF Resumed, Left
<1>11. ASSUME NEW r \in Request, Verify(r) PROVE HandlerInv'
  BY <1>11, Beginning, Leaving DEF Verify, Begun, Left
<1>12. ASSUME NEW r \in Request, CloseLate(r) PROVE HandlerInv'
  BY <1>12, Beginning, Leaving DEF CloseLate, Begun, Left
<1>13. ASSUME NEW r \in Request, TakeBackend(r) PROVE HandlerInv'
  BY <1>13, Beginning DEF TakeBackend, Begun
<1>14. ASSUME NEW r \in Request, DenyControl(r) PROVE HandlerInv'
  BY <1>14 DEF DenyControl
<1>15. ASSUME NEW r \in Request, CheckState(r) PROVE HandlerInv'
  BY <1>15, Leaving DEF CheckState, Left
<1>16. ASSUME NEW r \in Request, Control(r) PROVE HandlerInv'
  BY <1>16, Beginning DEF Control, Begun
<1>17. ASSUME NEW r \in Request, EndTask(r) PROVE HandlerInv'
  BY <1>17, Leaving DEF EndTask, Left
<1>18. CASE StartDrain
  BY <1>18 DEF StartDrain
<1>19. CASE Drained
  BY <1>19 DEF Drained
<1>20. CASE LoseLease
  BY <1>20 DEF LoseLease
<1>21. CASE Stop
  BY <1>21 DEF Stop
<1>22. CASE RunnerCleaned
  BY <1>22 DEF RunnerCleaned
<1>23. CASE CloseBackend
  BY <1>23, Beginning DEF CloseBackend, Begun
<1>24. CASE BackendClosed
  BY <1>24, Leaving DEF BackendClosed, Left
<1>25. CASE Release
  BY <1>25 DEF Release
<1>26. ASSUME NEW t \in Thread, Proxy(t) PROVE HandlerInv'
  BY <1>26, Moving DEF Proxy, Moved
<1>27. CASE ChildStep /\ UNCHANGED serviceVars
  BY <1>27, ChildAlone
<1> QED
  BY <1>1, <1>2, <1>3, <1>4, <1>5, <1>6, <1>7, <1>8, <1>9, <1>10, <1>11, <1>12,
     <1>13, <1>14, <1>15, <1>16, <1>17, <1>18, <1>19, <1>20, <1>21, <1>22, <1>23,
     <1>24, <1>25, <1>26, <1>27 DEF Next, Handle, RunTask, Stopping

\* A stop.
LEMMA StopKept ==
  ASSUME TypeOK, WorkerInv, ServiceInv, Next
  PROVE  StopInv'
<1> USE Threads, KindsOfCalls DEF WorkerInv, ServiceInv, TypeOK, At, workerVars,
    proxyVars, StopInv, Answer, FailTask, lifeVars, drainVars, requestVars, serviceVars
<1>1. ASSUME NEW r \in Request, Accept(r) PROVE StopInv'
  BY <1>1 DEF Accept
<1>2. ASSUME NEW r \in Request, Refuse(r) PROVE StopInv'
  BY <1>2 DEF Refuse
<1>3. ASSUME NEW r \in Request, Submit(r) PROVE StopInv'
  BY <1>3 DEF Submit
<1>4. ASSUME NEW r \in Request, Reply(r) PROVE StopInv'
  BY <1>4 DEF Reply
<1>5. ASSUME NEW r \in Request, GiveUpQueued(r) PROVE StopInv'
  BY <1>5 DEF GiveUpQueued
<1>6. ASSUME NEW r \in Request, GiveUpRunning(r) PROVE StopInv'
  BY <1>6, Beginning DEF GiveUpRunning, Begun
<1>7. ASSUME NEW r \in Request, AbortOver(r) PROVE StopInv'
  BY <1>7, Leaving DEF AbortOver, Left
<1>8. ASSUME NEW r \in Request, Join(r) PROVE StopInv'
  BY <1>8 DEF Join
<1>9. ASSUME NEW r \in Request, Recover(r) PROVE StopInv'
  BY <1>9, Beginning DEF Recover, Begun
<1>10. ASSUME NEW r \in Request, Resumed(r) PROVE StopInv'
  BY <1>10, Leaving DEF Resumed, Left
<1>11. ASSUME NEW r \in Request, Verify(r) PROVE StopInv'
  BY <1>11, Beginning, Leaving DEF Verify, Begun, Left
<1>12. ASSUME NEW r \in Request, CloseLate(r) PROVE StopInv'
  BY <1>12, Beginning, Leaving DEF CloseLate, Begun, Left
<1>13. ASSUME NEW r \in Request, TakeBackend(r) PROVE StopInv'
  BY <1>13, Beginning DEF TakeBackend, Begun
<1>14. ASSUME NEW r \in Request, DenyControl(r) PROVE StopInv'
  BY <1>14 DEF DenyControl
<1>15. ASSUME NEW r \in Request, CheckState(r) PROVE StopInv'
  BY <1>15, Leaving DEF CheckState, Left
<1>16. ASSUME NEW r \in Request, Control(r) PROVE StopInv'
  BY <1>16, Beginning DEF Control, Begun
<1>17. ASSUME NEW r \in Request, EndTask(r) PROVE StopInv'
  BY <1>17, Leaving DEF EndTask, Left
<1>18. CASE StartDrain
  BY <1>18 DEF StartDrain
<1>19. CASE Drained
  BY <1>19 DEF Drained
<1>20. CASE LoseLease
  BY <1>20 DEF LoseLease
<1>21. CASE Stop
  BY <1>21 DEF Stop
<1>22. CASE RunnerCleaned
  BY <1>22 DEF RunnerCleaned
<1>23. CASE CloseBackend
  BY <1>23, Beginning DEF CloseBackend, Begun
<1>24. CASE BackendClosed
  BY <1>24, Leaving DEF BackendClosed, Left, CallInv
<1>25. CASE Release
  BY <1>25 DEF Release
<1>26. ASSUME NEW t \in Thread, Proxy(t) PROVE StopInv'
  BY <1>26, Moving DEF Proxy, Moved
<1>27. CASE ChildStep /\ UNCHANGED serviceVars
  BY <1>27, ChildAlone
<1> QED
  BY <1>1, <1>2, <1>3, <1>4, <1>5, <1>6, <1>7, <1>8, <1>9, <1>10, <1>11, <1>12,
     <1>13, <1>14, <1>15, <1>16, <1>17, <1>18, <1>19, <1>20, <1>21, <1>22, <1>23,
     <1>24, <1>25, <1>26, <1>27 DEF Next, Handle, RunTask, Stopping

\* An answer.
LEMMA AnswerKept ==
  ASSUME TypeOK, WorkerInv, ServiceInv, Next
  PROVE  AnswerInv'
<1> USE Threads, KindsOfCalls DEF WorkerInv, ServiceInv, TypeOK, At, workerVars,
    proxyVars, AnswerInv, TaskInv, HandlerInv, CallInv, ClosingInv, Killing, InBackend,
    Answer, FailTask, lifeVars, drainVars, requestVars, serviceVars
<1>1. ASSUME NEW r \in Request, Accept(r) PROVE AnswerInv'
  BY <1>1 DEF Accept
<1>2. ASSUME NEW r \in Request, Refuse(r) PROVE AnswerInv'
  BY <1>2 DEF Refuse
<1>3. ASSUME NEW r \in Request, Submit(r) PROVE AnswerInv'
  BY <1>3 DEF Submit
<1>4. ASSUME NEW r \in Request, Reply(r) PROVE AnswerInv'
  BY <1>4 DEF Reply
<1>5. ASSUME NEW r \in Request, GiveUpQueued(r) PROVE AnswerInv'
  BY <1>5 DEF GiveUpQueued
<1>6. ASSUME NEW r \in Request, GiveUpRunning(r) PROVE AnswerInv'
  BY <1>6, Beginning DEF GiveUpRunning, Begun
<1>7. ASSUME NEW r \in Request, AbortOver(r) PROVE AnswerInv'
  BY <1>7, Leaving DEF AbortOver, Left
<1>8. ASSUME NEW r \in Request, Join(r) PROVE AnswerInv'
  BY <1>8 DEF Join
<1>9. ASSUME NEW r \in Request, Recover(r) PROVE AnswerInv'
  BY <1>9, Beginning DEF Recover, Begun
<1>10. ASSUME NEW r \in Request, Resumed(r) PROVE AnswerInv'
  BY <1>10, Leaving DEF Resumed, Left
<1>11. ASSUME NEW r \in Request, Verify(r) PROVE AnswerInv'
  BY <1>11, Beginning, Leaving DEF Verify, Begun, Left
<1>12. ASSUME NEW r \in Request, CloseLate(r) PROVE AnswerInv'
  BY <1>12, Beginning, Leaving DEF CloseLate, Begun, Left
<1>13. ASSUME NEW r \in Request, TakeBackend(r) PROVE AnswerInv'
  BY <1>13, Beginning DEF TakeBackend, Begun
<1>14. ASSUME NEW r \in Request, DenyControl(r) PROVE AnswerInv'
  BY <1>14 DEF DenyControl
<1>15. ASSUME NEW r \in Request, CheckState(r) PROVE AnswerInv'
  BY <1>15, Leaving DEF CheckState, Left
<1>16. ASSUME NEW r \in Request, Control(r) PROVE AnswerInv'
  BY <1>16, Beginning DEF Control, Begun
<1>17. ASSUME NEW r \in Request, EndTask(r) PROVE AnswerInv'
  BY <1>17, Leaving DEF EndTask, Left
<1>18. CASE StartDrain
  BY <1>18 DEF StartDrain
<1>19. CASE Drained
  BY <1>19 DEF Drained
<1>20. CASE LoseLease
  BY <1>20 DEF LoseLease
<1>21. CASE Stop
  BY <1>21 DEF Stop
<1>22. CASE RunnerCleaned
  BY <1>22 DEF RunnerCleaned
<1>23. CASE CloseBackend
  BY <1>23, Beginning DEF CloseBackend, Begun
<1>24. CASE BackendClosed
  BY <1>24, Leaving DEF BackendClosed, Left
<1>25. CASE Release
  BY <1>25 DEF Release
<1>26. ASSUME NEW t \in Thread, Proxy(t) PROVE AnswerInv'
  BY <1>26, Moving DEF Proxy, Moved
<1>27. CASE ChildStep /\ UNCHANGED serviceVars
  BY <1>27, ChildAlone
<1> QED
  BY <1>1, <1>2, <1>3, <1>4, <1>5, <1>6, <1>7, <1>8, <1>9, <1>10, <1>11, <1>12,
     <1>13, <1>14, <1>15, <1>16, <1>17, <1>18, <1>19, <1>20, <1>21, <1>22, <1>23,
     <1>24, <1>25, <1>26, <1>27 DEF Next, Handle, RunTask, Stopping

\* While control has the backend lock, nobody else waits for the proxy.
LEMMA NobodyElseWaits ==
  ASSUME TypeOK, WorkerInv, ServiceInv, NothingUndone,
         NEW r \in Request, level[r] = "control", InBackend(r),
         NEW t \in Thread, At(t) = "queued"
  PROVE  t = Worker(r)
<1> USE Threads DEF ServiceInv, At
<1>1. t # Stopper
  BY DEF StopInv, InBackend
<1>2. ASSUME NEW s \in Request PROVE t # Helper(s)
  <2>1. handler[s] \notin {"resuming", "verifying", "closing"}
    BY DEF NothingUndone
  <2>2. At(Helper(s)) # "idle" => calls[Helper(s)].kind = "abort"
    BY <2>1 DEF HandlerInv
  <2> QED
    BY <2>2 DEF CallInv
<1>3. ASSUME NEW s \in Request, t = Worker(s) PROVE s = r
  BY <1>3 DEF TaskInv, InBackend
<1> QED
  BY <1>1, <1>2, <1>3

\* Control.
LEMMA SerialKept ==
  ASSUME TypeOK, WorkerInv, ServiceInv, NothingUndone, SerialInv, Next
  PROVE  SerialInv'
<1> USE Threads, KindsOfCalls DEF WorkerInv, ServiceInv, TypeOK, At, workerVars,
    proxyVars, SerialInv, TaskInv, InBackend, Answer, FailTask, lifeVars, drainVars,
    requestVars, serviceVars
<1>1. ASSUME NEW r \in Request, Accept(r) PROVE SerialInv'
  BY <1>1 DEF Accept
<1>2. ASSUME NEW r \in Request, Refuse(r) PROVE SerialInv'
  BY <1>2 DEF Refuse
<1>3. ASSUME NEW r \in Request, Submit(r) PROVE SerialInv'
  BY <1>3 DEF Submit
<1>4. ASSUME NEW r \in Request, Reply(r) PROVE SerialInv'
  BY <1>4 DEF Reply
<1>5. ASSUME NEW r \in Request, GiveUpQueued(r) PROVE SerialInv'
  BY <1>5 DEF GiveUpQueued
<1>6. ASSUME NEW r \in Request, GiveUpRunning(r) PROVE SerialInv'
  BY <1>6, Beginning DEF GiveUpRunning, Begun
<1>7. ASSUME NEW r \in Request, AbortOver(r) PROVE SerialInv'
  BY <1>7, Leaving DEF AbortOver, Left
<1>8. ASSUME NEW r \in Request, Join(r) PROVE SerialInv'
  BY <1>8 DEF Join
<1>9. ASSUME NEW r \in Request, Recover(r) PROVE SerialInv'
  BY <1>9, Beginning DEF Recover, Begun
<1>10. ASSUME NEW r \in Request, Resumed(r) PROVE SerialInv'
  BY <1>10, Leaving DEF Resumed, Left
<1>11. ASSUME NEW r \in Request, Verify(r) PROVE SerialInv'
  BY <1>11, Beginning, Leaving DEF Verify, Begun, Left
<1>12. ASSUME NEW r \in Request, CloseLate(r) PROVE SerialInv'
  BY <1>12, Beginning, Leaving DEF CloseLate, Begun, Left
<1>13. ASSUME NEW r \in Request, TakeBackend(r) PROVE SerialInv'
  <2>1. CASE level[r] \in {"program", "attach"}
    BY <1>13, <2>1, Beginning, NoneNoRequest DEF TakeBackend, Begun
  <2>2. CASE level[r] = "read"
    BY <1>13, <2>2, Beginning, NoneNoRequest DEF TakeBackend, Begun
  <2>3. CASE level[r] = "control"
    BY <1>13, <2>3, Beginning, NoneNoRequest DEF TakeBackend, Begun
  <2> QED
    BY <2>1, <2>2, <2>3, LevelsKnown
<1>14. ASSUME NEW r \in Request, DenyControl(r) PROVE SerialInv'
  BY <1>14 DEF DenyControl
<1>15. ASSUME NEW r \in Request, CheckState(r) PROVE SerialInv'
  BY <1>15, Leaving DEF CheckState, Left
<1>16. ASSUME NEW r \in Request, Control(r) PROVE SerialInv'
  BY <1>16, Beginning DEF Control, Begun
<1>17. ASSUME NEW r \in Request, EndTask(r) PROVE SerialInv'
  BY <1>17, Leaving DEF EndTask, Left
<1>18. CASE StartDrain
  BY <1>18 DEF StartDrain
<1>19. CASE Drained
  BY <1>19 DEF Drained
<1>20. CASE LoseLease
  BY <1>20 DEF LoseLease
<1>21. CASE Stop
  BY <1>21 DEF Stop
<1>22. CASE RunnerCleaned
  BY <1>22 DEF RunnerCleaned
<1>23. CASE CloseBackend
  BY <1>23, Beginning DEF CloseBackend, Begun
<1>24. CASE BackendClosed
  BY <1>24, Leaving DEF BackendClosed, Left
<1>25. CASE Release
  BY <1>25 DEF Release
<1>26. ASSUME NEW t \in Thread, Proxy(t) PROVE SerialInv'
  <2>1. Moved(t) /\ UNCHANGED serviceVars
    BY <1>26, Moving DEF Proxy
  <2>2. ASSUME NEW r \in Request, level[r] = "control", InBackend(r)
        PROVE  \/ /\ calls'[Worker(r)].id = calls[Worker(r)].id
                  /\ sequence' = sequence
               \/ /\ task[r] \in {"checking", "running"}
                  /\ calls[Worker(r)].at = "queued"
                  /\ sequence' = sequence + 1 /\ calls'[Worker(r)].id = sequence'
    BY <2>1, <2>2, NobodyElseWaits DEF Moved
  <2>3. ASSUME NEW r \in Request, At(Worker(r)) = "queued"
        PROVE  calls[Worker(r)].id = 0
    BY <2>3, Threads DEF ServiceInv, CallInv
  <2> QED
    BY <2>1, <2>2, <2>3
<1>27. CASE ChildStep /\ UNCHANGED serviceVars
  BY <1>27, ChildAlone
<1> QED
  BY <1>1, <1>2, <1>3, <1>4, <1>5, <1>6, <1>7, <1>8, <1>9, <1>10, <1>11, <1>12,
     <1>13, <1>14, <1>15, <1>16, <1>17, <1>18, <1>19, <1>20, <1>21, <1>22, <1>23,
     <1>24, <1>25, <1>26, <1>27 DEF Next, Handle, RunTask, Stopping

\* What a request is never changes.
LEMMA LevelKept ==
  ASSUME Next
  PROVE  level' = level
<1> USE DEF Answer, FailTask, lifeVars, drainVars, requestVars, serviceVars
<1>1. ASSUME NEW r \in Request, Accept(r) PROVE level' = level
  BY <1>1 DEF Accept
<1>2. ASSUME NEW r \in Request, Refuse(r) PROVE level' = level
  BY <1>2 DEF Refuse
<1>3. ASSUME NEW r \in Request, Submit(r) PROVE level' = level
  BY <1>3 DEF Submit
<1>4. ASSUME NEW r \in Request, Reply(r) PROVE level' = level
  BY <1>4 DEF Reply
<1>5. ASSUME NEW r \in Request, GiveUpQueued(r) PROVE level' = level
  BY <1>5 DEF GiveUpQueued
<1>6. ASSUME NEW r \in Request, GiveUpRunning(r) PROVE level' = level
  BY <1>6 DEF GiveUpRunning
<1>7. ASSUME NEW r \in Request, AbortOver(r) PROVE level' = level
  BY <1>7 DEF AbortOver
<1>8. ASSUME NEW r \in Request, Join(r) PROVE level' = level
  BY <1>8 DEF Join
<1>9. ASSUME NEW r \in Request, Recover(r) PROVE level' = level
  BY <1>9 DEF Recover
<1>10. ASSUME NEW r \in Request, Resumed(r) PROVE level' = level
  BY <1>10 DEF Resumed
<1>11. ASSUME NEW r \in Request, Verify(r) PROVE level' = level
  BY <1>11 DEF Verify
<1>12. ASSUME NEW r \in Request, CloseLate(r) PROVE level' = level
  BY <1>12 DEF CloseLate
<1>13. ASSUME NEW r \in Request, TakeBackend(r) PROVE level' = level
  BY <1>13 DEF TakeBackend
<1>14. ASSUME NEW r \in Request, DenyControl(r) PROVE level' = level
  BY <1>14 DEF DenyControl
<1>15. ASSUME NEW r \in Request, CheckState(r) PROVE level' = level
  BY <1>15 DEF CheckState
<1>16. ASSUME NEW r \in Request, Control(r) PROVE level' = level
  BY <1>16 DEF Control
<1>17. ASSUME NEW r \in Request, EndTask(r) PROVE level' = level
  BY <1>17 DEF EndTask
<1>18. CASE StartDrain
  BY <1>18 DEF StartDrain
<1>19. CASE Drained
  BY <1>19 DEF Drained
<1>20. CASE LoseLease
  BY <1>20 DEF LoseLease
<1>21. CASE Stop
  BY <1>21 DEF Stop
<1>22. CASE RunnerCleaned
  BY <1>22 DEF RunnerCleaned
<1>23. CASE CloseBackend
  BY <1>23 DEF CloseBackend
<1>24. CASE BackendClosed
  BY <1>24 DEF BackendClosed
<1>25. CASE Release
  BY <1>25 DEF Release
<1>26. CASE UNCHANGED serviceVars
  BY <1>26
<1> QED
  BY <1>1, <1>2, <1>3, <1>4, <1>5, <1>6, <1>7, <1>8, <1>9, <1>10, <1>11, <1>12,
     <1>13, <1>14, <1>15, <1>16, <1>17, <1>18, <1>19, <1>20, <1>21, <1>22, <1>23,
     <1>24, <1>25, <1>26 DEF Next, Handle, RunTask, Stopping, Proxy

-----------------------------------------------------------------------------
(* The theorems.                                                           *)

LEMMA ServiceInit ==
  ASSUME Init
  PROVE  ServiceTypes /\ ServiceInv /\ SerialInv
<1> USE Threads DEF Init
<1>1. ServiceTypes
  BY DEF ServiceTypes, HandlerSteps, TaskSteps, Outcomes, StopSteps
<1>2. \A t \in Thread : calls[t] = NoCall
  BY DEF WorkerInit
<1>3. CallInv /\ TaskInv /\ HandlerInv
  BY <1>2 DEF CallInv, TaskInv, InBackend, HandlerInv, At, NoCall
<1>4. StopInv /\ DrainInv /\ AnswerInv
  BY <1>2 DEF StopInv, DrainInv, AnswerInv, At, NoCall
<1> QED
  BY <1>1, <1>3, <1>4 DEF ServiceInv, SerialInv

LEMMA ServiceStutter ==
  ASSUME UNCHANGED vars, ServiceTypes /\ ServiceInv
  PROVE  ServiceTypes' /\ ServiceInv'
<1> USE DEF vars, workerVars, proxyVars, serviceVars, requestVars, lifeVars, drainVars
<1>1. ServiceTypes'
  BY DEF ServiceTypes
<1>2. CallInv' /\ TaskInv' /\ HandlerInv'
  BY DEF ServiceInv, CallInv, TaskInv, InBackend, HandlerInv, At
<1>3. StopInv' /\ DrainInv' /\ AnswerInv'
  BY DEF ServiceInv, StopInv, DrainInv, AnswerInv, At
<1> QED
  BY <1>1, <1>2, <1>3 DEF ServiceInv

\* The service uses the proxy as the proxy allows to be used.
LEMMA ServiceUsesProxy == Spec => []WorkerInv
<1>1. Init => WorkerInit
  BY DEF Init
<1>2. [Next]_vars => [WorkerNext]_workerVars
  BY ServiceIsProxy DEF vars
<1> QED
  BY <1>1, <1>2, WorkerInvariant, PTL DEF Spec, WorkerSpec

LEMMA TypesMeet == WorkerTypeOK /\ ServiceTypes <=> TypeOK
BY DEF ServiceTypes, TypeOK

\* Every step of the service keeps what is known of it and of its proxy.
LEMMA ServiceKept ==
  ASSUME WorkerInv, TypeOK, ServiceInv, [Next]_vars
  PROVE  WorkerInv' /\ TypeOK' /\ ServiceInv'
<1>1. WorkerTypeOK /\ ClosingInv /\ ServiceTypes /\ CallInv
  BY TypesMeet DEF WorkerInv, ServiceInv
<1>2. WorkerInv'
  BY ServiceIsProxy, WorkerInvKept DEF vars
<1>3. ASSUME Next PROVE ServiceTypes' /\ ServiceInv'
  <2>1. ServiceTypes'
    BY <1>1, <1>3, ServiceTyped
  <2>2. CallInv'
    BY <1>1, <1>3, ServiceIsProxy, CallKept DEF WorkerNext, ProxyStays
  <2> QED
    BY <1>1, <1>3, <2>1, <2>2, TaskKept, HandlerKept, StopKept, DrainKept, AnswerKept
       DEF ServiceInv
<1>4. ServiceTypes' /\ ServiceInv'
  BY <1>1, <1>3, ServiceStutter
<1>5. TypeOK'
  BY <1>2, <1>4 DEF WorkerInv, WorkerTypeOK, ServiceTypes, TypeOK
<1> QED
  BY <1>2, <1>4, <1>5

LEMMA ServiceInvariant == Spec => [](TypeOK /\ ServiceInv)
<1>1. Init => WorkerInv /\ TypeOK /\ ServiceInv
  BY ServiceInit, WorkerInvInit, TypesMeet DEF Init, WorkerInv
<1>2. (WorkerInv /\ TypeOK /\ ServiceInv) /\ [Next]_vars
         => (WorkerInv /\ TypeOK /\ ServiceInv)'
  BY ServiceKept
<1> QED
  BY <1>1, <1>2, PTL DEF Spec

\* Requests, tasks, calls and the life of the service keep their types.
THEOREM ServiceTypeCorrect == Spec => []TypeOK
BY ServiceInvariant, PTL

LEMMA QuietWhenReleased ==
  ASSUME WorkerInv, TypeOK, ServiceInv
  PROVE  ReleasedIsQuiet
<1> SUFFICES ASSUME lease = "released"
             PROVE  /\ \A t \in Thread : At(t) = "idle"
                    /\ \A r \in Request : task[r] \in {"none", "done"}
                    /\ ChildGone \/ survived
  BY DEF ReleasedIsQuiet
<1>1. stop = "done" /\ closed /\ At(Stopper) = "idle"
  BY DEF ServiceInv, StopInv
<1>2. ASSUME NEW r \in Request
      PROVE  task[r] \in {"none", "done"} /\ handler[r] \in {"new", "answered"}
  BY <1>1 DEF ServiceInv, StopInv
<1>3. ASSUME NEW r \in Request
      PROVE  At(Worker(r)) = "idle" /\ At(Helper(r)) = "idle"
  BY <1>2 DEF ServiceInv, TaskInv, HandlerInv
<1>4. \A t \in Thread : At(t) = "idle"
  BY <1>1, <1>3, Threads
<1>5. ChildGone \/ survived
  BY <1>1, <1>4 DEF WorkerInv, ClosingInv, AbortEndsChild, Killing
<1> QED
  BY <1>2, <1>4, <1>5

\* A service that released its lease has nobody in the proxy, no task and no
\* child, but for a child that could not be ended.
THEOREM ReleaseIsQuiet == Spec => []ReleasedIsQuiet
<1>1. WorkerInv /\ TypeOK /\ ServiceInv => ReleasedIsQuiet
  BY QuietWhenReleased
<1> QED
  BY <1>1, ServiceUsesProxy, ServiceInvariant, PTL

\* After a drain no modification has a task.
THEOREM DrainIsQuiet == Spec => []DrainedIsQuiet
<1>1. ServiceInv => DrainedIsQuiet
  BY DEF ServiceInv, DrainInv, DrainedIsQuiet
<1> QED
  BY <1>1, ServiceInvariant, PTL

\* When the child acts, it does so for a request without an answer, or somebody
\* is ending the child, or could not.
ActExcused ==
    \/ \E r \in Owner : handler[r] # "answered"
    \/ SomebodyKills
    \/ survived

LEMMA ActsForTheUnanswered ==
  ASSUME WorkerInv, TypeOK, ServiceInv, Act
  PROVE  ActExcused
<1>1. ~ChildGone /\ Busy /\ child.kind = "act"
  BY DEF Act, ChildGone, Busy
<1>2. CASE closed
  BY <1>1, <1>2 DEF WorkerInv, ClosingInv, AbortEndsChild, SomebodyKills, ActExcused
<1>3. CASE ~closed
  <2>1. /\ holder # None /\ At(holder) \in {"waiting", "aborting"}
        /\ child.id = calls[holder].id
    BY <1>1, <1>3 DEF WorkerInv, PipeInv
  <2>2. holder \in Thread
    BY <2>1 DEF WorkerInv, WorkerTypeOK
  <2>3. calls[holder].kind = "act" /\ At(holder) # "idle"
    BY <1>1, <2>1, <2>2 DEF WorkerInv, NumberInv, OfKind
  <2>4. holder # Stopper
    BY <2>3 DEF ServiceInv, StopInv
  <2>5. ASSUME NEW r \in Request, holder = Worker(r)
        PROVE  r \in Owner /\ handler[r] # "answered"
    <3>1. task[r] = "running" /\ level[r] # "read"
      BY <2>3, <2>5 DEF ServiceInv, TaskInv
    <3>2. handler[r] # "answered"
      BY <1>3, <3>1 DEF ServiceInv, AnswerInv
    <3> QED
      BY <2>1, <2>5, <3>2 DEF Owner
  <2>6. ASSUME NEW r \in Request, holder = Helper(r)
        PROVE  r \in Owner /\ handler[r] # "answered"
    BY <2>1, <2>3, <2>6 DEF ServiceInv, HandlerInv, Owner
  <2> QED
    BY <2>2, <2>4, <2>5, <2>6, Threads DEF ActExcused
<1> QED
  BY <1>2, <1>3

\* The hardware acts for nobody who has an answer already, but while the child
\* is being ended or after it could not be.
THEOREM AnswersAreFinal == Spec => NoActAfterAnswer
<1>1. WorkerInv /\ (TypeOK /\ ServiceInv) /\ [Next]_vars => [acted' # acted => ActExcused]_vars
  BY ActOnly, ActsForTheUnanswered
<1> QED
  BY <1>1, ServiceUsesProxy, ServiceInvariant, PTL DEF Spec, NoActAfterAnswer, ActExcused

\* By the answer, by a drain and by the release: the hardware is quiet.
THEOREM HardwareIsQuiet == Spec => HardwareQuiet
BY ReleaseIsQuiet, DrainIsQuiet, AnswersAreFinal, PTL DEF HardwareQuiet

\* What the serial invariant says of the hardware.
LEMMA SerialActs ==
  ASSUME TypeOK, SerialInv
  PROVE  ControlActsOnWhatItChecked
<1> SUFFICES ASSUME NEW r \in Request,
                    level[r] = "control", task[r] = "running", checked[r] # 0
             PROVE  acted \cap (checked[r] + 1 .. calls[Worker(r)].id - 1) = {}
  BY DEF ControlActsOnWhatItChecked
<1>1. checked[r] \in Nat /\ calls[Worker(r)].id \in Nat
  BY Threads DEF TypeOK, WorkerTypeOK, Calls, Ids
<1>2. calls[Worker(r)].id = 0 \/ calls[Worker(r)].id = checked[r] + 1
  BY DEF SerialInv
<1> QED
  BY <1>1, <1>2

\* Nothing is done to the target between the check of a control request and its
\* action, for any requests among which no attach stands beside a control.
THEOREM ControlIsSerial == Spec /\ ControlAlone => []ControlActsOnWhatItChecked
<1>1. Init => SerialInv
  BY ServiceInit
<1>2. WorkerInv /\ (TypeOK /\ ServiceInv) /\ (ControlAlone /\ SerialInv) /\ [Next]_vars
         => (ControlAlone /\ SerialInv)'
  <2>1. ASSUME WorkerInv, TypeOK, ServiceInv, ControlAlone, SerialInv, Next
        PROVE  ControlAlone' /\ SerialInv'
    <3>1. level' = level
      BY <2>1, LevelKept
    <3>2. NothingUndone
      BY <2>1 DEF ControlAlone, NothingUndone, ServiceInv, HandlerInv
    <3> QED
      BY <2>1, <3>1, <3>2, SerialKept DEF ControlAlone
  <2>2. ASSUME ControlAlone, SerialInv, UNCHANGED vars
        PROVE  ControlAlone' /\ SerialInv'
    BY <2>2 DEF ControlAlone, SerialInv, vars, workerVars, proxyVars, serviceVars,
       requestVars
  <2> QED
    BY <2>1, <2>2
<1>3. TypeOK /\ SerialInv => ControlActsOnWhatItChecked
  BY SerialActs
<1> QED
  BY <1>1, <1>2, <1>3, ServiceUsesProxy, ServiceInvariant, PTL DEF Spec

-----------------------------------------------------------------------------
(* The workflow.                                                           *)

\* A thread outside the proxy has no number.
FreshInv == \A t \in Thread : At(t) = "idle" => calls[t].id = 0

\* Who uses the pipe has the last number, and so has what is in the pipe or in
\* the child: what the child does next it does for the last request.
LastInv ==
    /\ \A t \in Thread : Active(t) => calls[t].id = sequence
    /\ ~ChildGone =>
          /\ Busy => child.id = sequence
          /\ \A i \in 1 .. Len(requests) : requests[i].id = sequence

\* The order to the core is that of the last request.
OrderInv ==
    \A t \in Thread : calls[t].id = sequence /\ sequence # 0 => order = Effect(t)

\* Nobody halted the core, and nothing on its way would.
Calm == target # "halted" /\ order # "halted"

\* The request that halts is over, or its proxy is closed.
HaltOver == closed \/ task[Change] \in {"none", "done"}

Early == {"bind", "prepare", "change"}
SeesRunning(r) == seen[r] = "running"

\* The way of an analysis that halts the core: until it asks for that, and once
\* it saw the core run after that, nothing halts the core; and so when it ends
\* without a clean-up that failed.
FaultInv ==
    /\ step \in {"bind", "prepare"} => handler[Change] = "new"
    /\ step \in Early => handler[Look] = "new" /\ handler[After] = "new"
    /\ step \notin Early => handler[Change] \in {"new", "answered"} /\ HaltOver
    /\ handler[Change] = "new" => Calm
    /\ \A r \in {Look, After} : SeesRunning(r) => handler[r] # "new" /\ Calm
    /\ step \in {"end", "told"} /\ verdict # "cleanup" => Calm
    /\ told # "none" => step = "told" /\ told \in {verdict, "cleanup"}

\* Nothing is asked of a bound target before the binding is over; a workflow
\* that is cancelled while it binds asks for nothing more.
BindInv ==
    /\ step = "bind" => handler[Change] = "new" /\ handler[Resume] = "new"
    /\ step \notin {"bind", "end", "told"} => handler[Bind] \in {"new", "answered"}
    /\ handler[Bind] \notin {"new", "answered"} =>
          handler[Change] = "new" /\ handler[Resume] = "new"

ClientTypes ==
    /\ workflow \in Workflow
    /\ step \in WorkflowSteps
    /\ verdict \in {"ok", "failed", "cancelled", "cleanup"}
    /\ told \in {"none", "ok", "failed", "cancelled", "cleanup"}
    /\ target \in Cores
    /\ order \in Orders
    /\ seen \in [Request -> Reports]
    /\ authorized \in Reports
    /\ level = [r \in Request |-> LevelOf(r)]

WorkflowInv ==
    /\ WorkerInv /\ TypeOK /\ ServiceInv
    /\ ClientTypes /\ FreshInv /\ LastInv /\ OrderInv
    /\ BindInv /\ SerialInv
    /\ workflow = "fault" => FaultInv

-----------------------------------------------------------------------------
(* The steps of the workflow, by what they do to the service.              *)

\* A decision leaves the service alone, but for results nobody needs any more.
Decision == \E to, met : Go(to, met)

LEMMA DecisionsGo ==
  ASSUME Bound \/ PrepareHalt \/ Changed \/ Inspected \/ Looked \/ PrepareResume
         \/ Restarted \/ Seen \/ TooLate
  PROVE  Decision
<1> USE DEF Decision, End
<1>1. CASE Bound
  BY <1>1 DEF Bound
<1>2. CASE PrepareHalt
  BY <1>2 DEF PrepareHalt
<1>3. CASE Changed
  BY <1>3 DEF Changed
<1>4. CASE Inspected
  BY <1>4 DEF Inspected
<1>5. CASE Looked
  BY <1>5 DEF Looked
<1>6. CASE PrepareResume
  BY <1>6 DEF PrepareResume
<1>7. CASE Restarted
  BY <1>7 DEF Restarted
<1>8. CASE Seen
  BY <1>8 DEF Seen
<1>9. CASE TooLate
  BY <1>9 DEF TooLate
<1> QED
  BY <1>1, <1>2, <1>3, <1>4, <1>5, <1>6, <1>7, <1>8, <1>9

\* Every step is one of the service, loses its lease, or is a decision.
LEMMA WorkflowServes ==
  ASSUME OneShotNext
  PROVE  [Next]_vars \/ LeaseLost \/ Decision
<1>1. ASSUME NEW r \in Request, Ask(r) \/ Serve(r) \/ Execute(r) PROVE Next
  BY <1>1 DEF Ask, Serve, Execute, Next
<1>2. ASSUME NEW t \in Thread, Call(t) PROVE Next
  BY <1>2 DEF Call, Next
<1>3. ASSUME ChildServes \/ StopService \/ ServiceStops PROVE Next
  BY <1>3 DEF ChildServes, StopService, ServiceStops, Next
<1>4. ASSUME TargetStops \/ Tell \/ Cancel PROVE UNCHANGED vars
  BY <1>4 DEF TargetStops, Tell, Cancel
<1> QED
  BY <1>1, <1>2, <1>3, <1>4, DecisionsGo DEF OneShotNext, Work

\* What is asked for, and what each request is, never changes.
LEMMA WorkflowFixed ==
  ASSUME OneShotNext
  PROVE  workflow' = workflow /\ level' = level
<1>1. level' = level
  BY WorkflowServes, LevelKept
     DEF LeaseLost, Decision, Go, vars, serviceVars, requestVars
<1>2. ASSUME NEW r \in Request, Ask(r) \/ Serve(r) \/ Execute(r)
      PROVE  workflow' = workflow
  BY <1>2 DEF Ask, Serve, Execute, clientVars
<1>3. ASSUME NEW t \in Thread, Call(t) PROVE workflow' = workflow
  BY <1>3 DEF Call, clientVars
<1>4. ASSUME \/ ChildServes \/ TargetStops \/ StopService \/ LeaseLost \/ ServiceStops
             \/ Tell \/ Cancel \/ Decision
      PROVE  workflow' = workflow
  BY <1>4 DEF ChildServes, TargetStops, StopService, LeaseLost, ServiceStops, Tell,
     Cancel, Decision, Go, clientVars
<1> QED
  BY <1>1, <1>2, <1>3, <1>4, DecisionsGo DEF OneShotNext, Work

\* What is known of the service holds in a workflow.
LEMMA WorkflowKeepsService ==
  ASSUME WorkerInv, TypeOK, ServiceInv, [OneShotNext]_oneShotVars
  PROVE  WorkerInv' /\ TypeOK' /\ ServiceInv'
<1>1. CASE [Next]_vars
  BY <1>1, ServiceKept
<1>2. CASE UNCHANGED oneShotVars
  BY <1>2, ServiceKept DEF oneShotVars
<1>3. CASE LeaseLost
  <2> USE <1>3 DEF LeaseLost, workerVars, proxyVars, childVars, requestVars, drainVars
  <2>1. WorkerInv'
    BY WorkerInvStutter
  <2>2. TypeOK'
    <3>1. ServiceTypes'
      BY DEF TypeOK, ServiceTypes, StopSteps
    <3> QED
      BY <2>1, <3>1, TypesMeet DEF WorkerInv, ServiceTypes, WorkerTypeOK, TypeOK
  <2>3. CallInv' /\ TaskInv' /\ HandlerInv'
    BY DEF ServiceInv, CallInv, TaskInv, InBackend, HandlerInv, At
  <2>4. StopInv'
    BY DEF ServiceInv, StopInv, At, TypeOK
  <2>5. DrainInv' /\ AnswerInv'
    BY DEF ServiceInv, DrainInv, AnswerInv
  <2> QED
    BY <2>1, <2>2, <2>3, <2>4, <2>5 DEF ServiceInv
<1>4. CASE Decision
  <2>1. /\ UNCHANGED <<level, handler, task, workerVars, lifeVars, drainVars, backendLock>>
        /\ result' = Clear(result, "none") /\ outcome' = Clear(outcome, "none")
        /\ checked' = Clear(checked, 0)
    BY <1>4 DEF Decision, Go
  <2> USE <2>1 DEF workerVars, proxyVars, childVars, lifeVars, drainVars
  <2>2. WorkerInv'
    BY WorkerInvStutter
  <2>3. TypeOK'
    <3>1. ServiceTypes'
      BY DEF TypeOK, ServiceTypes, Clear, Outcomes
    <3> QED
      BY <2>2, <3>1 DEF WorkerInv, ServiceTypes, WorkerTypeOK, TypeOK
  <2>4. CallInv' /\ TaskInv' /\ HandlerInv'
    BY DEF ServiceInv, CallInv, TaskInv, InBackend, HandlerInv, At
  <2>5. StopInv' /\ DrainInv' /\ AnswerInv'
    BY DEF ServiceInv, StopInv, DrainInv, AnswerInv, At
  <2> QED
    BY <2>2, <2>3, <2>4, <2>5 DEF ServiceInv
<1> QED
  BY <1>1, <1>2, <1>3, <1>4, WorkflowServes

\* What a step does to the proxy and to the order of the core.
LEMMA WorkflowCalls ==
  ASSUME OneShotNext
  PROVE  \/ \E t \in Thread : Call(t)
         \/ /\ \E t \in Thread : Forget(t) \/ \E kind \in Kinds : StartCall(t, kind)
            /\ order' = order
         \/ ChildServes
         \/ UNCHANGED workerVars /\ order' = order
<1>1. ASSUME NEW r \in Request, Ask(r) \/ Serve(r) \/ Execute(r)
      PROVE  /\ \/ UNCHANGED workerVars
                \/ \E t \in Thread : Forget(t) \/ \E kind \in Kinds : StartCall(t, kind)
             /\ order' = order
  BY <1>1, RequestCalls DEF Ask, Serve, Execute, coreVars
<1>2. ASSUME ServiceStops
      PROVE  /\ \/ UNCHANGED workerVars
                \/ \E t \in Thread : Forget(t) \/ \E kind \in Kinds : StartCall(t, kind)
             /\ order' = order
  BY <1>2, StoppingCalls DEF ServiceStops, coreVars
<1>3. ASSUME TargetStops \/ StopService \/ LeaseLost \/ Tell \/ Cancel \/ Decision
      PROVE  UNCHANGED workerVars /\ order' = order
  BY <1>3 DEF TargetStops, StopService, Stop, LeaseLost, Tell, Cancel, Decision, Go,
     coreVars, vars
<1> QED
  BY <1>1, <1>2, <1>3, DecisionsGo DEF OneShotNext, Work

-----------------------------------------------------------------------------
(* The last request, and the order that it brought.                        *)

LEMMA FreshKept ==
  ASSUME WorkerInv, FreshInv, OneShotNext
  PROVE  FreshInv'
<1> USE DEF FreshInv, At
<1>0. WorkerTypeOK
  BY DEF WorkerInv
<1>1. ASSUME NEW t \in Thread, Call(t) PROVE FreshInv'
  BY <1>0, <1>1, Moving DEF Call, Proxy, Moved
<1>2. ASSUME NEW t \in Thread, NEW kind \in Kinds, StartCall(t, kind) PROVE FreshInv'
  BY <1>0, <1>2, Beginning DEF Begun
<1>3. ASSUME NEW t \in Thread, Forget(t) PROVE FreshInv'
  BY <1>0, <1>3, Leaving DEF Left
<1>4. ASSUME ChildServes PROVE FreshInv'
  BY <1>4, ChildAlone DEF ChildServes
<1>5. ASSUME UNCHANGED workerVars PROVE FreshInv'
  BY <1>5 DEF workerVars
<1> QED
  BY <1>1, <1>2, <1>3, <1>4, <1>5, WorkflowCalls

\* A thread that enters gets the last number while nothing is in the pipe.
LEMMA EntersLast ==
  ASSUME WorkerInv, LastInv, NEW t \in Thread, Enter(t)
  PROVE  LastInv'
<1> USE DEF At
<1>1. /\ calls \in [Thread -> Calls] /\ requests \in Seq(Requests)
      /\ UNCHANGED <<child, requests>> /\ holder = None /\ ~closed /\ ~ChildGone
      /\ sequence' = sequence + 1
      /\ calls'[t].id = sequence' /\ \A u \in Thread : u # t => calls'[u] = calls[u]
  BY DEF WorkerInv, WorkerTypeOK, Enter, childVars, Calls
<1>2. \A u \in Thread : u # t => ~Active(u)'
  BY <1>1, NoneNoThread DEF WorkerInv, HolderInv, Active
<1>3. ~Busy /\ requests = <<>>
  BY <1>1 DEF WorkerInv, PipeInv
<1>4. \A u \in Thread : Active(u)' => calls'[u].id = sequence'
  BY <1>1, <1>2
<1>5. ~Busy' /\ \A i \in 1 .. Len(requests') : requests'[i].id = sequence'
  BY <1>1, <1>3 DEF Busy
<1> QED
  BY <1>4, <1>5 DEF LastInv

\* A thread that goes on otherwise keeps the numbers, and sends the last.
LEMMA GoesOnLast ==
  ASSUME WorkerInv, LastInv, NEW t \in Thread, ProxyStep(t), ~Enter(t)
  PROVE  LastInv'
<1> USE DEF At
<1>0. WorkerTypeOK
  BY DEF WorkerInv
<1>1. /\ calls \in [Thread -> Calls] /\ requests \in Seq(Requests) /\ sequence \in Nat
      /\ child \in Children
  BY <1>0 DEF WorkerTypeOK, Ids
<1>2. /\ UNCHANGED <<child, sequence>>
      /\ \/ requests' = requests
         \/ Active(t) /\ \E kind : requests' = Append(requests, [id |-> calls[t].id, kind |-> kind])
  BY DEF ProxyStep, GiveUp, EnterUnavailable, Send, Receive, Disconnected, TimeOut, Abort,
     Reap, Outlived, childVars, proxyVars, Active
<1>3. \A u \in Thread : Active(u)' => Active(u) /\ calls'[u].id = calls[u].id
  <2> USE <1>0, <1>1 DEF Active, Return, Fail, AfterCall, Calls
  <2>1. CASE GiveUp(t) \/ EnterUnavailable(t) \/ TimeOut(t)
    BY <2>1 DEF GiveUp, EnterUnavailable, TimeOut
  <2>2. CASE Send(t) \/ Receive(t) \/ Disconnected(t) \/ Abort(t)
    BY <2>2, SameNumbers DEF NumbersKept
  <2>3. CASE Reap(t) \/ Outlived(t)
    BY <2>3 DEF Reap, Outlived, Killing
  <2> QED
    BY <2>1, <2>2, <2>3 DEF ProxyStep
<1>4. \A u \in Thread : Active(u)' => calls'[u].id = sequence'
  BY <1>2, <1>3 DEF LastInv
<1>5. ASSUME ~ChildGone'
      PROVE  /\ Busy' => child'.id = sequence'
             /\ \A i \in 1 .. Len(requests') : requests'[i].id = sequence'
  <2>1. /\ Busy => child.id = sequence
        /\ \A i \in 1 .. Len(requests) : requests[i].id = sequence
    BY <1>2, <1>5 DEF LastInv, ChildGone
  <2>2. CASE requests' = requests
    BY <1>2, <2>1, <2>2 DEF Busy
  <2>3. CASE Active(t) /\ \E kind : requests' = Append(requests, [id |-> calls[t].id, kind |-> kind])
    <3>1. PICK kind : requests' = Append(requests, [id |-> calls[t].id, kind |-> kind])
      BY <2>3
    <3>2. calls[t].id = sequence
      BY <2>3 DEF LastInv
    <3>3. \A i \in 1 .. Len(requests') : requests'[i].id = sequence
      <4> SUFFICES ASSUME NEW i \in 1 .. Len(requests') PROVE requests'[i].id = sequence
        OBVIOUS
      <4>1. Len(requests') = Len(requests) + 1
        BY <1>1, <3>1
      <4>2. CASE i \in 1 .. Len(requests)
        BY <1>1, <2>1, <3>1, <4>2
      <4>3. CASE i = Len(requests) + 1
        BY <1>1, <3>1, <3>2, <4>3
      <4> QED
        BY <1>1, <4>1, <4>2, <4>3
    <3> QED
      BY <1>2, <2>1, <3>3 DEF Busy
  <2> QED
    BY <1>2, <2>2, <2>3
<1> QED
  BY <1>4, <1>5 DEF LastInv

LEMMA LastKept ==
  ASSUME WorkerInv, LastInv, OneShotNext
  PROVE  LastInv'
<1> USE DEF At
<1>0. WorkerTypeOK
  BY DEF WorkerInv
<1>1. ASSUME NEW t \in Thread, Call(t) PROVE LastInv'
  BY <1>1, EntersLast, GoesOnLast DEF Call, Proxy
<1>2. ASSUME NEW t \in Thread, \/ Forget(t) \/ \E kind \in Kinds : StartCall(t, kind)
      PROVE  LastInv'
  <2>1. /\ UNCHANGED <<child, requests, sequence>> /\ ~Active(t)'
        /\ \A u \in Thread : u # t => calls'[u] = calls[u]
    <3>1. CASE Forget(t)
      <4>1. Left(t) /\ UNCHANGED <<child, requests, sequence>>
        BY <1>0, <3>1, Leaving DEF Forget, childVars, proxyVars
      <4> QED
        BY <4>1 DEF Left, Active
    <3>2. ASSUME NEW kind \in Kinds, StartCall(t, kind)
          PROVE  /\ UNCHANGED <<child, requests, sequence>> /\ ~Active(t)'
                 /\ \A u \in Thread : u # t => calls'[u] = calls[u]
      <4>1. Begun(t, kind)
        BY <1>0, <3>2, Beginning
      <4>2. UNCHANGED <<child, requests, sequence>>
        BY <3>2 DEF StartCall, childVars, proxyVars
      <4> QED
        BY <4>1, <4>2 DEF Begun, Active
    <3> QED
      BY <1>2, <3>1, <3>2
  <2>2. \A u \in Thread : Active(u)' => calls'[u].id = sequence'
    BY <2>1 DEF LastInv, Active
  <2> QED
    BY <2>1, <2>2 DEF LastInv, ChildGone, Busy
<1>3. ASSUME ChildServes PROVE LastInv'
  <2>1. calls' = calls /\ sequence' = sequence /\ requests \in Seq(Requests)
    BY <1>0, <1>3, ChildAlone DEF ChildServes, proxyVars, WorkerTypeOK
  <2>2. \A u \in Thread : Active(u)' => calls'[u].id = sequence'
    BY <2>1 DEF LastInv, Active
  <2>3. CASE TakeRequest
    <3>1. /\ ~ChildGone /\ requests # <<>> /\ child'.id = Head(requests).id
          /\ requests' = Tail(requests)
      BY <2>3 DEF TakeRequest, ChildGone
    <3>2. \A i \in 1 .. Len(requests) : requests[i].id = sequence
      BY <3>1 DEF LastInv
    <3>3. Len(requests) >= 1 /\ Head(requests) = requests[1]
      BY <2>1, <3>1
    <3>4. child'.id = sequence
      BY <3>1, <3>2, <3>3
    <3>5. \A i \in 1 .. Len(requests') : requests'[i] = requests[i + 1] /\ i + 1 \in 1 .. Len(requests)
      BY <2>1, <3>1, <3>3
    <3> QED
      BY <2>1, <2>2, <3>2, <3>4, <3>5 DEF LastInv
  <2>4. CASE Act
    BY <1>0, <2>1, <2>2, <2>4
       DEF Act, LastInv, Busy, ChildGone, WorkerTypeOK, Children
  <2>5. CASE AnswerOk \/ AnswerError \/ ChildEnds
    <3>1. ~Busy' /\ requests' = requests /\ ~ChildGone
      BY <2>5 DEF AnswerOk, AnswerError, ChildEnds, Child, Busy, ChildGone
    <3> QED
      BY <2>1, <2>2, <3>1 DEF LastInv
  <2> QED
    BY <1>3, <2>3, <2>4, <2>5 DEF ChildServes, ChildStep
<1>4. ASSUME UNCHANGED workerVars PROVE LastInv'
  BY <1>4 DEF LastInv, Active, Busy, ChildGone, workerVars, childVars, proxyVars
<1> QED
  BY <1>1, <1>2, <1>3, <1>4, WorkflowCalls

\* What a thread's call does to the core depends on its kind alone.
LEMMA SameEffect ==
  ASSUME OneShotNext, NEW t \in Thread, calls'[t].kind = calls[t].kind
  PROVE  Effect(t)' = Effect(t)
BY WorkflowFixed DEF Effect

LEMMA OrderKept ==
  ASSUME WorkerInv, OrderInv, OneShotNext
  PROVE  OrderInv'
<1>0. WorkerTypeOK /\ sequence \in Nat /\ calls \in [Thread -> Calls]
      /\ \A t \in Thread : calls[t].id \in Nat /\ calls[t].id <= sequence
  BY DEF WorkerInv, WorkerTypeOK, NumberInv, GivenOnce, Ids, Calls
<1>1. ASSUME NEW t \in Thread, Call(t) PROVE OrderInv'
  <2>1. Moved(t) /\ order' = (IF sequence' # sequence THEN Effect(t) ELSE order)
    BY <1>0, <1>1, Moving DEF Call, Proxy
  <2>2. \A u \in Thread : Effect(u)' = Effect(u)
    BY <2>1, SameEffect DEF Moved
  <2>3. CASE calls'[t].id = calls[t].id /\ sequence' = sequence
    BY <2>1, <2>2, <2>3 DEF Moved, OrderInv
  <2>4. CASE calls'[t].id = sequence + 1 /\ sequence' = sequence + 1
    <3>1. order' = Effect(t)
      BY <1>0, <2>1, <2>4
    <3>2. ASSUME NEW u \in Thread, calls'[u].id = sequence' PROVE u = t
      BY <1>0, <2>1, <2>4, <3>2 DEF Moved
    <3> QED
      BY <2>2, <3>1, <3>2 DEF OrderInv
  <2> QED
    BY <2>1, <2>3, <2>4 DEF Moved
<1>2. ASSUME NEW t \in Thread, Forget(t) \/ \E kind \in Kinds : StartCall(t, kind),
             order' = order
      PROVE  OrderInv'
  <2>1. /\ calls'[t].id = 0 /\ sequence' = sequence
        /\ \A u \in Thread : u # t => calls'[u] = calls[u]
    BY <1>0, <1>2, Beginning, Leaving DEF Begun, Left
  <2> QED
    BY <1>2, <2>1, SameEffect DEF OrderInv
<1>3. ASSUME UNCHANGED <<calls, sequence, order>> PROVE OrderInv'
  BY <1>3, SameEffect DEF OrderInv
<1> QED
  BY <1>1, <1>2, <1>3, WorkflowCalls, ChildAlone
     DEF ChildServes, workerVars, proxyVars

\* The variables of the workflow keep their types.
LEMMA ClientTyped ==
  ASSUME ClientTypes, OneShotNext
  PROVE  ClientTypes'
<1> USE DEF ClientTypes
<1>1. workflow' \in Workflow /\ level' = [r \in Request |-> LevelOf(r)]'
  BY WorkflowFixed DEF LevelOf
<1>2. ASSUME NEW r \in Request, Ask(r) \/ Serve(r) \/ Execute(r) PROVE ClientTypes'
  BY <1>1, <1>2 DEF Ask, Serve, Execute, clientVars, coreVars
<1>3. ASSUME NEW t \in Thread, Call(t) PROVE ClientTypes'
  <2>1. Effect(t) \in Orders
    BY DEF Effect, Orders
  <2> QED
    BY <1>1, <1>3, <2>1 DEF Call, clientVars
<1>4. ASSUME ChildServes PROVE ClientTypes'
  <2>1. order # "none" => order \in Cores
    BY DEF Orders, Cores
  <2>2. Report(target) \in Reports
    BY DEF Report, Reports
  <2> QED
    BY <1>1, <1>4, <2>1, <2>2 DEF ChildServes, clientVars
<1>5. ASSUME StopService \/ LeaseLost \/ ServiceStops PROVE ClientTypes'
  BY <1>1, <1>5 DEF StopService, LeaseLost, ServiceStops, clientVars, coreVars
<1>6. ASSUME TargetStops PROVE ClientTypes'
  BY <1>1, <1>6 DEF TargetStops, clientVars, Cores
<1>7. ASSUME Tell PROVE ClientTypes'
  BY <1>1, <1>7 DEF Tell, coreVars, WorkflowSteps
<1>8. ASSUME Cancel PROVE ClientTypes'
  BY <1>1, <1>8 DEF Cancel, coreVars, WorkflowSteps
<1>9. ASSUME NEW to \in WorkflowSteps, NEW met \in {"ok", "failed", "cleanup"}, Go(to, met),
             authorized' \in Reports
      PROVE  ClientTypes'
  <2>1. Worse(met) \in {"ok", "failed", "cancelled", "cleanup"}
    BY DEF Worse
  <2>2. Clear(seen, "none") \in [Request -> Reports]
    BY DEF Clear, Reports
  <2> QED
    BY <1>1, <1>9, <2>1, <2>2 DEF Go
<1>10. ASSUME \/ Bound \/ PrepareHalt \/ Changed \/ Inspected \/ Looked
              \/ PrepareResume \/ Restarted \/ Seen \/ TooLate
       PROVE  ClientTypes'
  <2>1. authorized' \in Reports
    BY <1>10 DEF Bound, PrepareHalt, Changed, Inspected, Looked, PrepareResume, Restarted,
       Seen, TooLate, End, Unauthorized, Authorize, Report, Reports
  <2>2. \E to \in WorkflowSteps, met \in {"ok", "failed", "cleanup"} : Go(to, met)
    <3> USE DEF End, WorkflowSteps
    <3>1. CASE Bound \/ PrepareHalt
      BY <3>1 DEF Bound, PrepareHalt
    <3>2. CASE Changed
      BY <3>2 DEF Changed
    <3>3. CASE Inspected
      BY <3>3 DEF Inspected
    <3>4. CASE Looked \/ PrepareResume
      BY <3>4 DEF Looked, PrepareResume
    <3>5. CASE Restarted \/ Seen \/ TooLate
      BY <3>5 DEF Restarted, Seen, TooLate
    <3> QED
      BY <1>10, <3>1, <3>2, <3>3, <3>4, <3>5
  <2> QED
    BY <1>9, <2>1, <2>2
<1> QED
  BY <1>2, <1>3, <1>4, <1>5, <1>6, <1>7, <1>8, <1>10 DEF OneShotNext, Work

-----------------------------------------------------------------------------
(* The analysis that halts the core.                                       *)

\* A handler that was answered, or not asked yet, does nothing; and none is new
\* again.
LEMMA HandlersMove ==
  ASSUME TypeOK, NEW r \in Request, Handle(r)
  PROVE  /\ handler[r] \notin {"new", "answered"} /\ handler'[r] # "new"
         /\ \A q \in Request : q # r => handler'[q] = handler[q]
<1> USE DEF TypeOK, Answer
<1>1. CASE Refuse(r) \/ Submit(r) \/ Reply(r)
  BY <1>1 DEF Refuse, Submit, Reply
<1>2. CASE GiveUpQueued(r) \/ GiveUpRunning(r)
  BY <1>2 DEF GiveUpQueued, GiveUpRunning
<1>3. CASE AbortOver(r) \/ Join(r) \/ Recover(r)
  BY <1>3 DEF AbortOver, Join, Recover
<1>4. CASE Resumed(r) \/ Verify(r) \/ CloseLate(r)
  BY <1>4 DEF Resumed, Verify, CloseLate
<1> QED
  BY <1>1, <1>2, <1>3, <1>4 DEF Handle

\* Only a handler that reads its request makes its task, and a task that is
\* over stays so.
LEMMA TasksMove ==
  ASSUME TypeOK, NEW r \in Request, NEW q \in Request, Handle(r) \/ RunTask(r),
         task[q] \in {"none", "done"}, handler[q] # "reading"
  PROVE  task'[q] \in {"none", "done"}
<1> USE DEF TypeOK, FailTask
<1>1. CASE Refuse(r) \/ Submit(r) \/ Reply(r) \/ GiveUpQueued(r) \/ GiveUpRunning(r)
  BY <1>1 DEF Refuse, Submit, Reply, GiveUpQueued, GiveUpRunning
<1>2. CASE AbortOver(r) \/ Join(r) \/ Recover(r) \/ Resumed(r) \/ Verify(r) \/ CloseLate(r)
  BY <1>2 DEF AbortOver, Join, Recover, Resumed, Verify, CloseLate
<1>3. CASE TakeBackend(r) \/ DenyControl(r) \/ CheckState(r) \/ Control(r) \/ EndTask(r)
  BY <1>3 DEF TakeBackend, DenyControl, CheckState, Control, EndTask
<1> QED
  BY <1>1, <1>2, <1>3 DEF Handle, RunTask

\* A task that runs leaves the handlers alone.
LEMMA TasksLeaveHandlers ==
  ASSUME NEW r \in Request, RunTask(r)
  PROVE  handler' = handler
BY DEF RunTask, TakeBackend, DenyControl, CheckState, Control, EndTask

\* What a request of the workflow is.
LEMMA LevelsOfFault ==
  ASSUME ClientTypes, workflow = "fault"
  PROVE  level[Change] = "control" /\ Change \in Request
BY RequestsOfAWorkflow, RequestsDiffer DEF ClientTypes, LevelOf

\* No step makes a halt of what was calm, when the request that halts was not
\* asked or is over.
LEMMA CalmKept ==
  ASSUME WorkerInv, TypeOK, ServiceInv, workflow = "fault", Calm,
         handler[Change] = "new" \/ HaltOver, OneShotNext
  PROVE  Calm'
<1> USE DEF Calm
<1>0. Change \in Request /\ Worker(Change) \in Thread
  BY RequestsOfAWorkflow, Threads
<1>1. ASSUME NEW t \in Thread, Call(t) PROVE Calm'
  <2>1. /\ ProxyStep(t) /\ target' = target
        /\ order' = (IF sequence' # sequence THEN Effect(t) ELSE order)
    BY <1>1 DEF Call, Proxy
  <2>2. CASE sequence' # sequence
    <3>1. At(t) = "queued" /\ ~closed
      BY <2>1, <2>2 DEF ProxyStep, GiveUp, EnterUnavailable, Enter, Send, Receive,
         Disconnected, TimeOut, Abort, Reap, Outlived, proxyVars
    <3>2. t # Worker(Change)
      <4> SUFFICES ASSUME t = Worker(Change) PROVE FALSE
        OBVIOUS
      <4>1. task[Change] \in {"checking", "running"}
        BY <1>0, <3>1 DEF ServiceInv, TaskInv
      <4>2. handler[Change] # "new"
        BY <1>0, <4>1 DEF ServiceInv, TaskInv
      <4> QED
        BY <3>1, <4>1, <4>2 DEF HaltOver
    <3>3. Effect(t) # "halted"
      BY <3>2 DEF Effect
    <3> QED
      BY <2>1, <2>2, <3>3
  <2> QED
    BY <2>1, <2>2
<1>2. ASSUME ChildServes PROVE Calm'
  BY <1>2 DEF ChildServes
<1>3. ASSUME NEW r \in Request, Ask(r) \/ Serve(r) \/ Execute(r) PROVE Calm'
  BY <1>3 DEF Ask, Serve, Execute, coreVars
<1>4. ASSUME \/ TargetStops \/ StopService \/ LeaseLost \/ ServiceStops \/ Tell \/ Cancel
             \/ Decision
      PROVE  Calm'
  BY <1>4 DEF TargetStops, StopService, LeaseLost, ServiceStops, Tell, Cancel, Decision,
     Go, coreVars
<1> QED
  BY <1>1, <1>2, <1>3, <1>4, DecisionsGo DEF OneShotNext, Work

\* Who is told that the core runs: it does, and the last request was the one
\* that asked.
LEMMA SeenIsCalm ==
  ASSUME WorkflowInv, ChildServes, NEW r \in Request,
         seen'[r] = "running", seen[r] # "running"
  PROVE  /\ target = "running" /\ target' = target /\ order = "none" /\ order' = order
         /\ handler[r] \notin {"new", "reading"}
<1>0. Worker(r) \in Thread /\ WorkerInv /\ TypeOK /\ ServiceInv
  BY Threads DEF WorkflowInv
<1>1. /\ child.kind = "read" /\ answers' # answers /\ child.at = "working"
      /\ calls[Worker(r)].id = child.id /\ Report(target) = "running" /\ order' = order
      /\ ChildStep
      /\ target' = IF acted' # acted /\ order # "none" THEN order ELSE target
  BY DEF ChildServes
<1>2. target = "running" /\ target' = target
  <2>1. acted' = acted
    BY <1>1 DEF ChildStep, TakeRequest, Act, AnswerOk, AnswerError, ChildEnds
  <2> QED
    BY <1>1, <2>1 DEF Report
<1>3. child.id # 0 /\ child.id = sequence /\ calls[Worker(r)].kind = "read"
  <2>1. Busy /\ ~ChildGone
    BY <1>1 DEF Busy, ChildGone
  <2> QED
    BY <1>0, <1>1, <2>1 DEF WorkflowInv, LastInv, WorkerInv, NumberInv, OfKind
<1>4. order = "none"
  BY <1>0, <1>1, <1>3 DEF WorkflowInv, OrderInv, Effect
<1>5. task[r] \in {"checking", "running"}
  BY <1>0, <1>1, <1>3 DEF WorkflowInv, FreshInv, ServiceInv, TaskInv
<1>6. handler[r] \notin {"new", "reading"}
  BY <1>5 , <1>0 DEF ServiceInv, TaskInv
<1> QED
  BY <1>1, <1>2, <1>4, <1>6

LEMMA ClosedStays ==
  ASSUME WorkerInv, OneShotNext, closed
  PROVE  closed'
<1>0. WorkerTypeOK
  BY DEF WorkerInv
<1>1. ASSUME NEW t \in Thread, Call(t) PROVE closed'
  BY <1>0, <1>1, Moving DEF Call, Proxy, Moved
<1>2. ASSUME NEW t \in Thread, NEW kind \in Kinds, StartCall(t, kind) PROVE closed'
  BY <1>2 DEF StartCall, proxyVars
<1>3. ASSUME NEW t \in Thread, Forget(t) PROVE closed'
  BY <1>3 DEF Forget, proxyVars
<1>4. ASSUME ChildServes \/ UNCHANGED workerVars PROVE closed'
  BY <1>4, ChildAlone DEF ChildServes, workerVars, proxyVars
<1> QED
  BY <1>1, <1>2, <1>3, <1>4, WorkflowCalls

\* What serves the workflow goes on while the workflow stays where it is.
Serves ==
    \/ \E r \in Request : Ask(r) \/ Serve(r) \/ Execute(r)
    \/ \E t \in Thread : Call(t)
    \/ ChildServes \/ TargetStops \/ StopService \/ LeaseLost \/ ServiceStops

LEMMA ServesQuietly ==
  ASSUME TypeOK, Serves
  PROVE  /\ UNCHANGED clientVars
         /\ \A q \in Request : \/ handler'[q] = handler[q]
                               \/ q \in Current
                               \/ handler[q] \notin {"new", "answered"} /\ handler'[q] # "new"
         /\ \A q \in Request : task[q] \in {"none", "done"} /\ handler[q] # "reading"
                                   => task'[q] \in {"none", "done"}
         /\ ~ChildServes => seen' = seen
<1> USE DEF coreVars
<1>1. ASSUME NEW r \in Request, Ask(r)
      PROVE  /\ UNCHANGED clientVars /\ seen' = seen /\ task' = task /\ r \in Current
             /\ \A q \in Request : q # r => handler'[q] = handler[q]
  BY <1>1 DEF Ask, Accept, TypeOK
<1>2. ASSUME NEW r \in Request, Serve(r)
      PROVE  UNCHANGED clientVars /\ seen' = seen /\ Handle(r)
  BY <1>2 DEF Serve
<1>3. ASSUME NEW r \in Request, Execute(r)
      PROVE  UNCHANGED clientVars /\ seen' = seen /\ RunTask(r) /\ handler' = handler
  BY <1>3, TasksLeaveHandlers DEF Execute
<1>4. ASSUME NEW t \in Thread, Call(t)
      PROVE  UNCHANGED clientVars /\ seen' = seen /\ UNCHANGED <<handler, task>>
  BY <1>4 DEF Call, Proxy, serviceVars, requestVars
<1>5. ASSUME TargetStops \/ StopService \/ LeaseLost
      PROVE  UNCHANGED clientVars /\ seen' = seen /\ UNCHANGED <<handler, task>>
  BY <1>5 DEF TargetStops, StopService, Stop, LeaseLost, vars, serviceVars, requestVars
<1>6. ASSUME ServiceStops
      PROVE  UNCHANGED clientVars /\ seen' = seen /\ UNCHANGED <<handler, task>>
  BY <1>6 DEF ServiceStops, Stopping, RunnerCleaned, CloseBackend, BackendClosed, Release,
     requestVars
<1>7. ASSUME ChildServes
      PROVE  UNCHANGED clientVars /\ UNCHANGED <<handler, task>>
  BY <1>7 DEF ChildServes, serviceVars, requestVars
<1>8. CASE \E r \in Request : Serve(r)
  BY <1>2, <1>8, HandlersMove, TasksMove
<1>9. CASE \E r \in Request : Execute(r)
  BY <1>3, <1>9, TasksMove
<1>10. CASE \E r \in Request : Ask(r)
  BY <1>1, <1>10
<1>11. CASE \E t \in Thread : Call(t)
  BY <1>4, <1>11
<1> QED
  BY <1>5, <1>6, <1>7, <1>8, <1>9, <1>10, <1>11 DEF Serves

LEMMA NoneIsNewAgain ==
  ASSUME TypeOK, Serves
  PROVE  \A q \in Request : handler'[q] = "new" => handler[q] = "new"
<1> SUFFICES ASSUME NEW q \in Request, handler'[q] = "new", handler[q] # "new"
             PROVE  FALSE
  OBVIOUS
<1>1. PICK r \in Request : Ask(r) \/ Serve(r) \/ Execute(r)
  BY DEF Serves, Call, Proxy, ChildServes, TargetStops, StopService, Stop, LeaseLost,
     ServiceStops, Stopping, RunnerCleaned, CloseBackend, BackendClosed, Release, vars,
     serviceVars, requestVars
<1>2. CASE Ask(r)
  BY <1>2 DEF Ask, Accept, TypeOK
<1>3. CASE Serve(r)
  BY <1>3, HandlersMove DEF Serve
<1>4. CASE Execute(r)
  BY <1>4, TasksLeaveHandlers DEF Execute
<1> QED
  BY <1>1, <1>2, <1>3, <1>4

\* Who serves the workflow keeps its invariant.
LEMMA FaultServed ==
  ASSUME WorkflowInv, workflow = "fault", OneShotNext, Serves
  PROVE  FaultInv'
<1>1. /\ WorkerInv /\ TypeOK /\ ServiceInv /\ ClientTypes /\ FaultInv
      /\ {Bind, Change, Look, After} \subseteq Request
  BY RequestsOfAWorkflow DEF WorkflowInv
<1>2. /\ UNCHANGED <<step, verdict, told>>
      /\ \A q \in Request : \/ handler'[q] = handler[q]
                            \/ q \in Current
                            \/ handler[q] \notin {"new", "answered"} /\ handler'[q] # "new"
      /\ \A q \in Request : task[q] \in {"none", "done"} /\ handler[q] # "reading"
                                => task'[q] \in {"none", "done"}
      /\ ~ChildServes => seen' = seen
  BY <1>1, ServesQuietly DEF clientVars
<1>3. /\ step \in {"bind", "prepare"} => Change \notin Current
      /\ step \in Early => Look \notin Current /\ After \notin Current
      /\ step \notin Early => Change \notin Current
  BY <1>1, RequestsDiffer DEF Current, Early, ClientTypes, WorkflowSteps
<1>4. \A q \in Request : handler'[q] = "new" => handler[q] = "new"
  BY <1>1, NoneIsNewAgain
<1>5. /\ step' \in {"bind", "prepare"} => handler'[Change] = "new"
      /\ step' \in Early => handler'[Look] = "new" /\ handler'[After] = "new"
  BY <1>1, <1>2, <1>3 DEF FaultInv
<1>6. step' \notin Early => handler'[Change] \in {"new", "answered"} /\ HaltOver'
  <2> SUFFICES ASSUME step \notin Early
               PROVE  handler'[Change] \in {"new", "answered"} /\ HaltOver'
    BY <1>2
  <2>1. handler[Change] \in {"new", "answered"} /\ HaltOver
    BY <1>1 DEF FaultInv
  <2>2. handler'[Change] = handler[Change]
    BY <1>1, <1>2, <1>3, <2>1
  <2>3. HaltOver'
    BY <1>1, <1>2, <2>1, ClosedStays DEF HaltOver
  <2> QED
    BY <2>1, <2>2, <2>3
<1>7. handler'[Change] = "new" => Calm'
  <2> SUFFICES ASSUME handler'[Change] = "new" PROVE Calm'
    OBVIOUS
  <2>1. handler[Change] = "new"
    BY <1>1, <1>4
  <2> QED
    BY <1>1, <2>1, CalmKept DEF FaultInv
<1>8. \A r \in {Look, After} : SeesRunning(r)' => handler'[r] # "new" /\ Calm'
  <2> SUFFICES ASSUME NEW r \in {Look, After}, SeesRunning(r)'
               PROVE  handler'[r] # "new" /\ Calm'
    OBVIOUS
  <2>1. CASE SeesRunning(r)
    <3>1. handler[r] # "new" /\ Calm
      BY <1>1, <2>1 DEF FaultInv
    <3>2. HaltOver
      BY <1>1, <3>1 DEF FaultInv
    <3> QED
      BY <1>1, <1>4, <3>1, <3>2, CalmKept
  <2>2. CASE ~SeesRunning(r)
    <3>1. ChildServes /\ r \in Request /\ seen'[r] = "running" /\ seen[r] # "running"
      BY <1>1, <1>2, <2>2 DEF SeesRunning
    <3>2. /\ target = "running" /\ target' = target /\ order = "none" /\ order' = order
          /\ handler[r] # "new"
      BY <3>1, SeenIsCalm
    <3> QED
      BY <1>1, <1>4, <3>2 DEF Calm
  <2> QED
    BY <2>1, <2>2
<1>9. step' \in {"end", "told"} /\ verdict' # "cleanup" => Calm'
  <2> SUFFICES ASSUME step \in {"end", "told"}, verdict # "cleanup" PROVE Calm'
    BY <1>2
  <2>1. Calm /\ HaltOver
    BY <1>1 DEF FaultInv, Early
  <2> QED
    BY <1>1, <2>1, CalmKept
<1>10. told' # "none" => step' = "told" /\ told' \in {verdict', "cleanup"}
  BY <1>1, <1>2 DEF FaultInv
<1> QED
  BY <1>5, <1>6, <1>7, <1>8, <1>9, <1>10 DEF FaultInv, Early

\* And so does the workflow, wherever it goes.
LEMMA FaultDecides ==
  ASSUME WorkflowInv, workflow = "fault",
         \/ Bound \/ PrepareHalt \/ Changed \/ Inspected \/ Looked \/ PrepareResume
         \/ Restarted \/ Seen \/ TooLate
  PROVE  FaultInv'
<1>1. /\ WorkerInv /\ TypeOK /\ ServiceInv /\ ClientTypes /\ FaultInv
      /\ {Change, Look, After} \subseteq Request /\ level[Change] = "control"
  BY RequestsOfAWorkflow, LevelsOfFault DEF WorkflowInv
<1>2. /\ UNCHANGED <<told, handler, task, closed, target, order>>
      /\ seen' = Clear(seen, "none")
  BY DecisionsGo DEF Decision, Go, workerVars, proxyVars
<1>3. Calm' = Calm /\ HaltOver' = HaltOver
  BY <1>2 DEF Calm, HaltOver
<1>4. told = "none"
  BY <1>1 DEF FaultInv, Bound, PrepareHalt, Changed, Inspected, Looked, PrepareResume,
     Restarted, Seen, TooLate
<1>5. handler'[Change] = "new" => Calm'
  BY <1>1, <1>2, <1>3 DEF FaultInv
<1>6. \A r \in {Look, After} : SeesRunning(r)' => handler'[r] # "new" /\ Calm'
  <2> SUFFICES ASSUME NEW r \in {Look, After}, SeesRunning(r)'
               PROVE  handler'[r] # "new" /\ Calm'
    OBVIOUS
  <2>1. SeesRunning(r)
    BY <1>1, <1>2 DEF SeesRunning, Clear
  <2> QED
    BY <1>1, <1>2, <1>3, <2>1 DEF FaultInv
\* Where it goes, from where, and how it ends.
<1>7. /\ step \in {"bind", "prepare"} \/ step' \notin {"bind", "prepare"}
      /\ step' \in Early => step \in Early
      /\ step' \notin Early => \/ step \notin Early \/ handler[Change] = "new"
                               \/ Over(Change)
      /\ step' \in {"end", "told"} => \/ verdict' = "cleanup"
                                      \/ handler[Change] = "new"
                                      \/ SeesRunning(Look) \/ SeesRunning(After)
  <2> USE <1>1 DEF Early, End, Go, Worse, SeesRunning, FaultInv
  <2>1. CASE Bound
    BY <2>1 DEF Bound
  <2>2. CASE PrepareHalt
    BY <2>2 DEF PrepareHalt
  <2>3. CASE Changed
    BY <2>3 DEF Changed
  <2>4. CASE Inspected
    BY <2>4 DEF Inspected
  <2>5. CASE Looked
    BY <2>5 DEF Looked
  <2>6. CASE PrepareResume
    BY <2>6 DEF PrepareResume
  <2>7. CASE Restarted
    BY <2>7 DEF Restarted
  <2>8. CASE Seen
    BY <2>8 DEF Seen
  <2>9. CASE TooLate
    BY <2>9 DEF TooLate
  <2> QED
    BY <2>1, <2>2, <2>3, <2>4, <2>5, <2>6, <2>7, <2>8, <2>9
<1>8. /\ step' \in {"bind", "prepare"} => handler'[Change] = "new"
      /\ step' \in Early => handler'[Look] = "new" /\ handler'[After] = "new"
  BY <1>1, <1>2, <1>7 DEF FaultInv
<1>9. step' \notin Early => handler'[Change] \in {"new", "answered"} /\ HaltOver'
  <2> SUFFICES ASSUME step' \notin Early
               PROVE  handler[Change] \in {"new", "answered"} /\ HaltOver
    BY <1>2, <1>3
  <2>1. CASE step \notin Early
    BY <1>1, <2>1 DEF FaultInv
  <2>2. CASE handler[Change] = "new" \/ Over(Change)
    <3>1. handler[Change] \in {"new", "answered"}
      BY <2>2 DEF Over
    <3>2. handler[Change] = "new" => HaltOver
      BY <1>1 DEF ServiceInv, TaskInv, HaltOver
    <3>3. handler[Change] = "answered" => HaltOver
      BY <1>1 DEF ServiceInv, AnswerInv, HaltOver
    <3> QED
      BY <3>1, <3>2, <3>3
  <2> QED
    BY <1>7, <2>1, <2>2
<1>10. step' \in {"end", "told"} /\ verdict' # "cleanup" => Calm'
  BY <1>1, <1>3, <1>7 DEF FaultInv
<1> QED
  BY <1>2, <1>4, <1>5, <1>6, <1>8, <1>9, <1>10 DEF FaultInv, Early

\* Telling and being cancelled take the verdict as it is.
LEMMA FaultTells ==
  ASSUME WorkflowInv, workflow = "fault", Tell \/ Cancel
  PROVE  FaultInv'
<1>1. /\ UNCHANGED <<closed, handler, task, target, order, seen>>
      /\ Calm' = Calm /\ HaltOver' = HaltOver
  BY DEF Tell, Cancel, vars, workerVars, proxyVars, serviceVars, requestVars, coreVars,
     Calm, HaltOver
<1>2. ClientTypes /\ FaultInv
  BY DEF WorkflowInv
<1>3. CASE Tell
  BY <1>1, <1>2, <1>3 DEF Tell, FaultInv, Early, SeesRunning
<1>4. CASE Cancel
  BY <1>1, <1>2, <1>4 DEF Cancel, FaultInv, Early, SeesRunning
<1> QED
  BY <1>3, <1>4

-----------------------------------------------------------------------------
(* One request after the other.                                            *)

\* Binding comes first, and is over before the target is changed.
LEMMA BindKept ==
  ASSUME WorkflowInv, OneShotNext
  PROVE  BindInv'
<1>1. /\ TypeOK /\ ClientTypes /\ BindInv /\ {Bind, Change, Resume} \subseteq Request
  BY RequestsOfAWorkflow DEF WorkflowInv
<1>2. CASE Serves
  <2>1. /\ step' = step
        /\ \A q \in Request : \/ handler'[q] = handler[q]
                              \/ q \in Current
                              \/ handler[q] \notin {"new", "answered"} /\ handler'[q] # "new"
    BY <1>1, <1>2, ServesQuietly DEF clientVars
  <2>2. /\ step # "bind" => Bind \notin Current
        /\ step \in {"bind", "end", "told"} => Change \notin Current /\ Resume \notin Current
    BY <1>1, RequestsDiffer DEF Current, ClientTypes, WorkflowSteps
  <2>3. step' = "bind" => handler'[Change] = "new" /\ handler'[Resume] = "new"
    BY <1>1, <2>1, <2>2 DEF BindInv
  <2>4. step' \notin {"bind", "end", "told"} => handler'[Bind] \in {"new", "answered"}
    BY <1>1, <2>1, <2>2 DEF BindInv
  <2>5. ASSUME handler'[Bind] \notin {"new", "answered"}
        PROVE  handler'[Change] = "new" /\ handler'[Resume] = "new"
    <3>1. step \in {"bind", "end", "told"}
      BY <2>1, <2>4, <2>5
    <3>2. handler[Change] = "new" /\ handler[Resume] = "new"
      <4>1. CASE step = "bind"
        BY <1>1, <4>1 DEF BindInv
      <4>2. CASE step # "bind"
        <5>1. handler[Bind] \notin {"new", "answered"}
          BY <1>1, <2>1, <2>2, <2>5, <4>2
        <5> QED
          BY <1>1, <5>1 DEF BindInv
      <4> QED
        BY <4>1, <4>2
    <3> QED
      BY <1>1, <2>1, <2>2, <3>1, <3>2
  <2> QED
    BY <2>3, <2>4, <2>5 DEF BindInv
<1>3. CASE Tell \/ Cancel
  <2>1. handler' = handler /\ step' \in {"end", "told", step}
    BY <1>3 DEF Tell, Cancel, vars, serviceVars, requestVars
  <2> QED
    BY <1>1, <2>1 DEF BindInv
<1>4. CASE \/ Bound \/ PrepareHalt \/ Changed \/ Inspected \/ Looked \/ PrepareResume
           \/ Restarted \/ Seen \/ TooLate
  <2>1. handler' = handler /\ step' # "bind"
        /\ (step = "bind" => handler[Bind] \in {"new", "answered"})
        /\ (step' \notin {"bind", "end", "told"} => step \notin {"end", "told"})
    <3> USE DEF Go, End
    <3>1. CASE Bound
      BY <3>1 DEF Bound, Over
    <3>2. CASE PrepareHalt \/ Changed
      BY <3>2 DEF PrepareHalt, Changed
    <3>3. CASE Inspected \/ Looked
      BY <3>3 DEF Inspected, Looked
    <3>4. CASE PrepareResume \/ Restarted
      BY <3>4 DEF PrepareResume, Restarted
    <3>5. CASE Seen \/ TooLate
      BY <3>5 DEF Seen, TooLate
    <3> QED
      BY <1>4, <3>1, <3>2, <3>3, <3>4, <3>5
  <2> QED
    BY <1>1, <2>1 DEF BindInv
<1> QED
  BY <1>2, <1>3, <1>4 DEF OneShotNext, Work, Serves

\* A workflow attaches and controls, but not at once: while control has the
\* backend lock, no late attach is being undone.
LEMMA WorkflowUndoesNothing ==
  ASSUME WorkflowInv
  PROVE  NothingUndone
<1> SUFFICES ASSUME NEW r \in Request, NEW q \in Request, level[r] = "control",
                    InBackend(r), handler[q] \in {"resuming", "verifying", "closing"}
             PROVE  FALSE
  BY DEF NothingUndone
<1>1. TypeOK /\ ServiceInv /\ ClientTypes /\ BindInv
  BY DEF WorkflowInv
<1>2. q = Bind
  <2>1. level[q] = "attach" /\ level[q] = LevelOf(q)
    BY <1>1 DEF ServiceInv, HandlerInv, ClientTypes
  <2> QED
    BY <2>1 DEF LevelOf
<1>3. r \in {Change, Resume}
  <2>1. LevelOf(r) = "control"
    BY <1>1 DEF ClientTypes
  <2> QED
    BY <2>1 DEF LevelOf
<1>4. handler[r] # "new"
  BY <1>1 DEF ServiceInv, TaskInv, InBackend
<1> QED
  BY <1>1, <1>2, <1>3, <1>4 DEF BindInv

LEMMA WorkflowSerial ==
  ASSUME WorkflowInv, OneShotNext
  PROVE  SerialInv'
<1>1. WorkerInv /\ TypeOK /\ ServiceInv /\ SerialInv /\ NothingUndone
  BY WorkflowUndoesNothing DEF WorkflowInv
<1>2. CASE Next
  BY <1>1, <1>2, SerialKept
<1>3. CASE UNCHANGED vars \/ LeaseLost
  BY <1>1, <1>3 DEF SerialInv, LeaseLost, vars, workerVars, proxyVars, serviceVars,
     requestVars
<1>4. CASE Decision
  <2>1. /\ UNCHANGED <<task, level, calls, sequence>>
        /\ \A r \in Request : task[r] \notin {"none", "done"} => checked'[r] = checked[r]
    BY <1>4 DEF Decision, Go, Clear, Forgotten, workerVars, proxyVars
  <2> QED
    BY <1>1, <2>1 DEF SerialInv
<1> QED
  BY <1>2, <1>3, <1>4, WorkflowServes

-----------------------------------------------------------------------------
(* The theorems of the workflow.                                           *)

LEMMA WorkflowInvariant == OneShotSpec => []WorkflowInv
<1>1. OneShotInit => WorkflowInv
  <2> SUFFICES ASSUME OneShotInit PROVE WorkflowInv
    OBVIOUS
  <2>1. WorkerInv /\ TypeOK /\ ServiceInv /\ SerialInv
    BY ServiceInit, WorkerInvInit, TypesMeet DEF OneShotInit, Init, WorkerInv
  <2>2. ClientTypes
    BY DEF ClientTypes, OneShotInit, WorkflowSteps, Cores, Orders, Reports
  <2>3. /\ \A t \in Thread : calls[t] = NoCall
        /\ sequence = 0 /\ child = Child("ready") /\ requests = <<>>
    BY DEF OneShotInit, Init, WorkerInit
  <2>4. FreshInv /\ LastInv /\ OrderInv
    BY <2>3 DEF FreshInv, LastInv, OrderInv, Active, At, NoCall, Child, Busy
  <2>5. FaultInv /\ BindInv
    BY RequestsOfAWorkflow
       DEF OneShotInit, Init, FaultInv, BindInv, Early, Calm, SeesRunning
  <2> QED
    BY <2>1, <2>2, <2>4, <2>5 DEF WorkflowInv
<1>2. WorkflowInv /\ [OneShotNext]_oneShotVars => WorkflowInv'
  <2>1. ASSUME WorkflowInv, OneShotNext PROVE WorkflowInv'
    <3>1. WorkerInv' /\ TypeOK' /\ ServiceInv'
      BY <2>1, WorkflowKeepsService DEF WorkflowInv
    <3>2. ClientTypes' /\ FreshInv' /\ LastInv' /\ OrderInv' /\ BindInv' /\ SerialInv'
      BY <2>1, ClientTyped, FreshKept, LastKept, OrderKept, BindKept, WorkflowSerial
         DEF WorkflowInv
    <3>3. workflow' = "fault" => FaultInv'
      BY <2>1, WorkflowFixed, FaultServed, FaultDecides, FaultTells
         DEF OneShotNext, Work, Serves
    <3> QED
      BY <3>1, <3>2, <3>3 DEF WorkflowInv
  <2>2. ASSUME WorkflowInv, UNCHANGED oneShotVars PROVE WorkflowInv'
    <3> USE <2>2 DEF oneShotVars, clientVars, coreVars, vars, workerVars, childVars,
        proxyVars, serviceVars, requestVars
    <3>1. WorkerInv' /\ TypeOK' /\ ServiceInv'
      BY WorkflowKeepsService DEF WorkflowInv
    <3>2. ClientTypes'
      BY DEF WorkflowInv, ClientTypes, LevelOf
    <3>3. FreshInv' /\ LastInv' /\ OrderInv'
      BY DEF WorkflowInv, FreshInv, LastInv, OrderInv, Effect, Active, At, Busy, ChildGone
    <3>4. workflow' = "fault" => FaultInv'
      BY DEF WorkflowInv, FaultInv, Calm, HaltOver, SeesRunning
    <3>5. BindInv' /\ SerialInv'
      BY DEF WorkflowInv, BindInv, SerialInv
    <3> QED
      BY <3>1, <3>2, <3>3, <3>4, <3>5 DEF WorkflowInv
  <2> QED
    BY <2>1, <2>2
<1> QED
  BY <1>1, <1>2, PTL DEF OneShotSpec

\* The variables of a workflow and of the service it has to itself keep their
\* types, and the child works for the last request alone.
THEOREM WorkflowTypesCorrect == OneShotSpec => []OneShotTypeOK
<1>1. WorkflowInv => OneShotTypeOK
  BY DEF WorkflowInv, ClientTypes, LastInv, OneShotTypeOK, Busy, ChildGone
<1> QED
  BY <1>1, WorkflowInvariant, PTL

\* An analysis that halted the core lets it run again, or its caller is told
\* that the clean-up failed: with answers lost or late, a child that dies, a
\* cancellation, a lost lease, and whatever the core does by itself.
THEOREM RunsAgain == OneShotSpec => []RunsAgainOrTold
<1>1. WorkflowInv => RunsAgainOrTold
  <2> SUFFICES ASSUME WorkflowInv, workflow = "fault", told \in {"ok", "failed", "cancelled"}
               PROVE  target # "halted"
    BY DEF RunsAgainOrTold
  <2> QED
    BY DEF WorkflowInv, FaultInv, Calm
<1> QED
  BY <1>1, WorkflowInvariant, PTL

\* In a workflow nothing is done to the target between the check of a control
\* request and its action: it attaches and controls, but one after the other.
THEOREM WorkflowControlsSerially == OneShotSpec => []ControlActsOnWhatItChecked
<1>1. WorkflowInv => ControlActsOnWhatItChecked
  BY SerialActs DEF WorkflowInv
<1> QED
  BY <1>1, WorkflowInvariant, PTL

\* In a workflow the hardware is quiet for who was promised that: it acts for
\* nobody who has an answer, and a service that gave its lease back left nobody
\* in the proxy and no child, but for a child that could not be ended.
THEOREM WorkflowIsQuiet == OneShotSpec => HardwareQuiet
<1>1. WorkflowInv => ReleasedIsQuiet /\ DrainedIsQuiet
  BY QuietWhenReleased DEF WorkflowInv, ServiceInv, DrainInv, DrainedIsQuiet
<1>2. ASSUME WorkflowInv, [OneShotNext]_oneShotVars, acted' # acted PROVE ActExcused
  <2>1. [Next]_vars
    <3>1. ~(UNCHANGED oneShotVars) /\ ~LeaseLost /\ ~Decision
      BY <1>2 DEF oneShotVars, vars, LeaseLost, Decision, Go, workerVars, childVars
    <3> QED
      BY <1>2, <3>1, WorkflowServes
  <2> QED
    BY <1>2, <2>1, ActOnly, ActsForTheUnanswered DEF WorkflowInv
<1>3. WorkflowInv /\ [OneShotNext]_oneShotVars => [acted' # acted => ActExcused]_vars
  BY <1>2
<1> QED
  BY <1>1, <1>3, WorkflowInvariant, PTL
     DEF OneShotSpec, HardwareQuiet, NoActAfterAnswer, ActExcused
=============================================================================
