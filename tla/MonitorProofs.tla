---------------------------- MODULE MonitorProofs ----------------------------
(***************************************************************************)
(* Proofs about the monitor.                                               *)
(*                                                                         *)
(* MonitorRuntime: whatever requests, runs, failures and stops come in     *)
(* whatever order, every observation is accounted for, and a page of the   *)
(* source catalog is of the probe that was bound all the time.             *)
(*                                                                         *)
(* MonitorLive: a client that comes back is served what the ring and the   *)
(* anchors owe it, because both count the public events in the same way;   *)
(* and what a relay loses is what its items tell.                          *)
(*                                                                         *)
(* MonitorSampler: the control invariant that ties the client's action,    *)
(* the state it is told, the producer and the epochs together, the shape   *)
(* of a run, and the sums that account for what its queues lose.           *)
(***************************************************************************)
EXTENDS MonitorRuntime, MonitorSampler, FiniteSetTheorems, WellFoundedInduction, TLAPS

-----------------------------------------------------------------------------
(* The runtime.                                                            *)

\* What the request under way holds at each of its steps.
OpInv ==
    /\ op.step = "none" <=> op = NoOp
    /\ op.step \in {"detach", "open"} => op.b = 0
    /\ op.step = "detach" => op.kind \in {"release", "reconnect"}
    /\ op.step \in {"open", "close", "closeProbe", "abandon"} => bound = 0
    /\ op.step \in {"close", "closeProbe", "abandon"} => op.b # 0 /\ obs[op.b] = "open"
    /\ op.step \in {"closeProbe", "abandon"} => sampling[op.b] # "running"
    /\ op.step = "sample" => op.b # 0 /\ op.b = bound
    /\ op.step \in {"detach", "open", "close", "closeProbe", "abandon"} => forwarder = 0

\* The observation that is bound is open; those not opened yet are unused.
BoundInv ==
    /\ bound # 0 => obs[bound] = "open"
    /\ \A b \in Bindings : b > opened => obs[b] = "none" /\ sampling[b] = "idle"

\* Once the stop has waited, no request is under way; then one thing after
\* the other is closed.
StopInv ==
    /\ phase \notin {"running", "waiting"} => op = NoOp /\ forwarder = 0
    /\ phase = "observation" /\ bound # 0 => sampling[bound] # "running"
    /\ phase \in {"sampler", "observation", "closed"} => asked = NoQuestion

\* A question is unmoved as long as its epoch and its binding are the current
\* ones: a binding that was dropped cannot be bound again in its epoch.
AskedInv ==
    asked.open =>
        /\ asked.epoch <= bindingEpoch
        /\ asked.epoch = bindingEpoch =>
              IF asked.moved THEN bound = 0 /\ asked.b # 0 ELSE asked.b = bound

RuntimeInv == RunTypes /\ ObservationsAccounted /\ OpInv /\ BoundInv /\ StopInv /\ AskedInv

-----------------------------------------------------------------------------
LEMMA InitEstablishes == RInit => RuntimeInv
<1> SUFFICES ASSUME RInit PROVE RuntimeInv
  OBVIOUS
<1>1. RunTypes
  <2>1. op \in Ops
    BY MaxBindingIsNat DEF RInit, NoOp, Ops, OpKinds, OpSteps
  <2>2. asked \in Questions
    BY MaxBindingIsNat DEF RInit, NoQuestion, Questions
  <2>3. phase \in Phases /\ bound \in 0..MaxBinding /\ bindingEpoch \in Nat
    BY MaxBindingIsNat DEF RInit, Phases
  <2>5. request \in BOOLEAN
    BY DEF RInit
  <2>4. /\ forwarder \in 0..MaxBinding /\ opened \in 0..MaxBinding
        /\ obs \in [Bindings -> ObsStates]
        /\ sampling \in [Bindings -> {"idle", "running", "stopped"}]
    BY MaxBindingIsNat DEF RInit, ObsStates
  <2> QED
    BY <2>1, <2>2, <2>3, <2>4, <2>5 DEF RunTypes
<1>2. ObservationsAccounted
  BY DEF RInit, ObservationsAccounted, Bindings
<1>3. OpInv
  BY DEF RInit, OpInv, NoOp
<1>4. BoundInv /\ StopInv
  BY DEF RInit, BoundInv, StopInv
<1>5. AskedInv
  BY DEF RInit, AskedInv, NoQuestion
<1> QED
  BY <1>1, <1>2, <1>3, <1>4, <1>5 DEF RuntimeInv

-----------------------------------------------------------------------------
(* The steps of a run, each for all parts of the invariant.                *)

\* Clients, samples and heartbeats change nothing the invariant is about.
LEMMA LiveKeeps == RuntimeInv /\ UNCHANGED runVars => RuntimeInv'
  BY DEF RuntimeInv, RunTypes, ObservationsAccounted, OpInv, BoundInv, StopInv, AskedInv,
         runVars

\* What a request is after it went on to a step.
LEMMA GotoIs ==
  ASSUME NEW kind \in OpKinds, NEW step \in OpSteps \ {"none"}, NEW b \in 0..MaxBinding,
         Goto(kind, step, b)
  PROVE  /\ op' \in Ops /\ op' # NoOp
         /\ op'.kind = kind /\ op'.step = step /\ op'.b = b
<1>1. op' = [kind |-> kind, step |-> step, b |-> b, ok |-> TRUE]
  BY DEF Goto
<1> QED
  BY <1>1 DEF Ops, NoOp

LEMMA NoOpIs == NoOp \in Ops /\ NoOp.step = "none" /\ NoOp.b = 0 /\ NoOp.kind = "none"
  BY MaxBindingIsNat DEF NoOp, Ops, OpKinds, OpSteps

LEMMA NoQuestionIs == NoQuestion \in Questions /\ ~NoQuestion.open
  BY MaxBindingIsNat DEF NoQuestion, Questions

\* A question that sees the probe move is otherwise the same one.
LEMMA MovedIs ==
  ASSUME asked \in Questions, Moved
  PROVE  /\ asked' \in Questions
         /\ asked'.b = asked.b /\ asked'.epoch = asked.epoch /\ asked'.open = asked.open
         /\ asked.open => asked'.moved
         /\ ~asked.open => asked' = asked
  BY DEF Moved, Questions

LEMMA ConnectKeeps ==
  ASSUME RuntimeInv, BeginConnect \/ OpenFails \/ Abandon
  PROVE  RuntimeInv'
<1>1. CASE BeginConnect
  <2>1. op' \in Ops /\ op' # NoOp /\ op'.step = "open" /\ op'.b = 0
    BY <1>1, MaxBindingIsNat, GotoIs DEF BeginConnect, OpKinds, OpSteps
  <2>3. RunTypes'
    BY <1>1, <2>1 DEF RuntimeInv, RunTypes, BeginConnect
  <2> QED
    BY <1>1, <2>1, <2>3, NoOpIs
       DEF RuntimeInv, BeginConnect, Free, ObservationsAccounted, OpInv, BoundInv, StopInv, AskedInv,
           RunTypes
<1>2. CASE OpenFails
  <2>1. RunTypes'
    BY <1>2, NoOpIs DEF RuntimeInv, RunTypes, OpenFails, Done
  <2> QED
    BY <1>2, <2>1, NoOpIs
       DEF RuntimeInv, OpenFails, At, Done, ObservationsAccounted, OpInv, BoundInv, StopInv,
           AskedInv
<1>3. CASE Abandon
  <2>1. op.b \in Bindings
    BY <1>3 DEF RuntimeInv, RunTypes, Ops, OpInv, Abandon, At, Bindings
  <2>2. obs' \in [Bindings -> ObsStates] /\ obs'[op.b] = "closed"
        /\ \A b \in Bindings \ {op.b} : obs'[b] = obs[b]
    BY <1>3, <2>1 DEF RuntimeInv, RunTypes, Abandon, ObsStates
  <2>3. RunTypes'
    BY <1>3, <2>2, NoOpIs DEF RuntimeInv, RunTypes, Abandon, Done
  <2> QED
    BY <1>3, <2>1, <2>2, <2>3, NoOpIs
       DEF RuntimeInv, Abandon, At, Done, ObservationsAccounted, OpInv, BoundInv, StopInv, AskedInv
<1> QED
  BY <1>1, <1>2, <1>3

LEMMA OpenKeeps ==
  ASSUME RuntimeInv, OpenSucceeds
  PROVE  RuntimeInv'
<1> DEFINE b == opened + 1
<1>1. /\ b \in Bindings /\ opened' = b /\ b # 0 /\ bound = 0 /\ op.b = 0 /\ forwarder = 0
      /\ obs[b] = "none" /\ sampling[b] = "idle" /\ op.kind \in OpKinds /\ opened \in Nat
      /\ phase \in {"running", "waiting"}
  BY MaxBindingIsNat, NoOpIs
     DEF RuntimeInv, RunTypes, Ops, OpInv, BoundInv, StopInv, OpenSucceeds, At, Bindings, Phases
<1>2. /\ obs' \in [Bindings -> ObsStates] /\ obs'[b] = "open" /\ sampling' = sampling
      /\ \A c \in Bindings \ {b} : obs'[c] = obs[c]
  BY <1>1 DEF RuntimeInv, RunTypes, OpenSucceeds, ObsStates
<1>3. phase' = phase /\ forwarder' = forwarder
  BY DEF OpenSucceeds
<1>4. \A c \in Bindings : c > b => obs'[c] = "none" /\ sampling'[c] = "idle"
  BY <1>1, <1>2 DEF RuntimeInv, BoundInv, Bindings
<1>5. CASE BindProbe(b)
  <2>1. /\ bound' = b /\ bindingEpoch' = bindingEpoch + 1 /\ op' = NoOp /\ Moved
        /\ request' \in {request, request \/ op.kind = "connect"}
    BY <1>5 DEF BindProbe, Done
  <2>2. request' \in BOOLEAN
    BY <2>1 DEF RuntimeInv, RunTypes
  <2>3. /\ asked' \in Questions /\ asked'.epoch = asked.epoch /\ asked'.open = asked.open
        /\ ~asked.open => asked' = asked
    BY <2>1, MovedIs DEF RuntimeInv, RunTypes
  <2>4. RunTypes'
    BY <1>1, <1>2, <1>3, <2>1, <2>2, <2>3, NoOpIs DEF RuntimeInv, RunTypes, Bindings
  <2>5. ObservationsAccounted'
    BY <1>1, <1>2, <1>3, <2>1, NoOpIs DEF RuntimeInv, ObservationsAccounted
  <2>6. OpInv' /\ BoundInv' /\ StopInv'
    BY <1>1, <1>2, <1>3, <1>4, <2>1, NoOpIs DEF RuntimeInv, OpInv, BoundInv, StopInv
  <2>7. AskedInv'
    BY <2>1, <2>3 DEF RuntimeInv, AskedInv, RunTypes, Questions
  <2> QED
    BY <2>4, <2>5, <2>6, <2>7 DEF RuntimeInv
<1>6. CASE SamplerRefused(b)
  <2>1. /\ op' \in Ops /\ op' # NoOp /\ op'.step = "abandon" /\ op'.b = b
        /\ UNCHANGED <<bound, bindingEpoch, request, asked>>
    BY <1>1, <1>6, GotoIs DEF SamplerRefused, OpSteps, Bindings
  <2>2. RunTypes'
    BY <1>1, <1>2, <1>3, <2>1 DEF RuntimeInv, RunTypes, Bindings
  <2>3. ObservationsAccounted'
    BY <1>1, <1>2, <1>3, <2>1 DEF RuntimeInv, ObservationsAccounted
  <2>4. OpInv' /\ BoundInv' /\ StopInv' /\ AskedInv'
    BY <1>1, <1>2, <1>3, <1>4, <2>1 DEF RuntimeInv, OpInv, BoundInv, StopInv, AskedInv
  <2> QED
    BY <2>2, <2>3, <2>4 DEF RuntimeInv
<1> QED
  BY <1>5, <1>6 DEF OpenSucceeds

\* Dropping the references, whether the state event could be made or not.
LEMMA DetachKeeps ==
  ASSUME RuntimeInv, NEW kind \in {"release", "reconnect"}, op.step \in {"none", "detach"},
         Detached(kind), forwarder' = 0, phase \in {"running", "waiting"},
         UNCHANGED <<phase, bindingEpoch, opened, sampling>>, request' \in BOOLEAN
  PROVE  RuntimeInv'
<1>1. /\ bound' = 0 /\ op.b = 0 /\ bound \in 0..MaxBinding /\ kind \in OpKinds
      /\ 0 \in 0..MaxBinding
  BY MaxBindingIsNat, NoOpIs DEF Detached, RuntimeInv, RunTypes, OpInv, OpKinds
<1>2. CASE bound = 0
  <2>1. Released(kind) /\ UNCHANGED <<obs, asked>>
    BY <1>2 DEF Detached
  <2>2. op' \in Ops /\ op'.b = 0 /\ op'.step \in {"none", "open"}
        /\ (op'.step = "none" <=> op' = NoOp)
    BY <1>1, <2>1, GotoIs, NoOpIs DEF Released, Done, OpSteps
  <2>3. RunTypes'
    BY <1>1, <2>1, <2>2 DEF RuntimeInv, RunTypes
  <2> QED
    BY <1>1, <1>2, <2>1, <2>2, <2>3
       DEF RuntimeInv, ObservationsAccounted, OpInv, BoundInv, StopInv, AskedInv
<1>3. CASE bound # 0
  <2>1. Moved /\ bound \in Bindings
    BY <1>1, <1>3 DEF Detached, Bindings
  <2>2. /\ asked' \in Questions /\ asked'.b = asked.b
        /\ asked'.epoch = asked.epoch /\ asked'.open = asked.open
        /\ asked.open => asked'.moved
        /\ ~asked.open => asked' = asked
    BY <2>1, MovedIs DEF RuntimeInv, RunTypes
  <2>3. AskedInv'
    BY <1>1, <1>3, <2>2 DEF RuntimeInv, AskedInv, RunTypes
  <2>4. CASE Goto(kind, "close", bound) /\ UNCHANGED obs
    <3>1. op' \in Ops /\ op'.b = bound /\ op'.step = "close" /\ op' # NoOp
      BY <1>1, <2>4, GotoIs DEF OpSteps
    <3>2. RunTypes'
      BY <1>1, <2>2, <2>4, <3>1 DEF RuntimeInv, RunTypes
    <3> QED
      BY <1>1, <1>3, <2>2, <2>3, <2>4, <3>1, <3>2
         DEF RuntimeInv, ObservationsAccounted, OpInv, BoundInv, StopInv
  <2>5. CASE Done /\ obs' = [obs EXCEPT ![bound] = "forgotten"]
    <3>1. /\ obs' \in [Bindings -> ObsStates] /\ obs'[bound] = "forgotten"
          /\ \A c \in Bindings \ {bound} : obs'[c] = obs[c]
      BY <2>1, <2>5 DEF RuntimeInv, RunTypes, ObsStates
    <3>2. RunTypes'
      BY <1>1, <2>2, <2>5, <3>1, NoOpIs DEF RuntimeInv, RunTypes, Done
    <3>3. BoundInv'
      BY <1>1, <1>3, <3>1 DEF RuntimeInv, BoundInv
    <3> QED
      BY <1>1, <1>3, <2>1, <2>2, <2>3, <2>5, <3>1, <3>2, <3>3, NoOpIs
         DEF RuntimeInv, ObservationsAccounted, OpInv, StopInv, Done
  <2> QED
    BY <1>3, <2>4, <2>5 DEF Detached
<1> QED
  BY <1>2, <1>3

LEMMA ReleaseKeeps ==
  ASSUME RuntimeInv,
         (\E kind \in {"release", "reconnect"} : BeginRelease(kind)) \/ Detach
  PROVE  RuntimeInv'
<1>1. ASSUME NEW kind \in {"release", "reconnect"}, BeginRelease(kind)
      PROVE  RuntimeInv'
  <2>1. /\ phase = "running" /\ op = NoOp /\ op.step = "none" /\ op.b = 0 /\ forwarder' = 0
        /\ UNCHANGED <<phase, bindingEpoch, request, opened, sampling>>
    BY <1>1, NoOpIs DEF BeginRelease, Free
  <2>2. CASE forwarder = 0
    <3>1. Detached(kind) /\ request' \in BOOLEAN
      BY <1>1, <2>1, <2>2 DEF BeginRelease, RuntimeInv, RunTypes
    <3> QED
      BY <2>1, <3>1, DetachKeeps
  <2>3. CASE forwarder # 0
    <3>1. Goto(kind, "detach", 0) /\ UNCHANGED <<bound, obs, asked>>
      BY <1>1, <2>3 DEF BeginRelease
    <3>2. op' \in Ops /\ op'.b = 0 /\ op'.step = "detach" /\ op' # NoOp /\ op'.kind = kind
      BY <3>1, MaxBindingIsNat, GotoIs DEF OpKinds, OpSteps
    <3>3. RunTypes'
      BY <2>1, <3>1, <3>2, MaxBindingIsNat DEF RuntimeInv, RunTypes
    <3> QED
      BY <2>1, <3>1, <3>2, <3>3
         DEF RuntimeInv, ObservationsAccounted, OpInv, BoundInv, StopInv, AskedInv
  <2> QED
    BY <2>2, <2>3
<1>2. CASE Detach
  <2>1. /\ op.step = "detach" /\ Detached(op.kind) /\ forwarder = 0 /\ op # NoOp
        /\ op.kind \in {"release", "reconnect"}
        /\ UNCHANGED <<phase, bindingEpoch, request, forwarder, opened, sampling>>
    BY <1>2, NoOpIs DEF Detach, At, RuntimeInv, OpInv
  <2>2. phase \in {"running", "waiting"} /\ request' \in BOOLEAN
    BY <2>1 DEF RuntimeInv, StopInv, RunTypes
  <2> QED
    BY <2>1, <2>2, DetachKeeps
<1> QED
  BY <1>1, <1>2

LEMMA ClosingKeeps ==
  ASSUME RuntimeInv, CloseSampler \/ CloseObservation
  PROVE  RuntimeInv'
<1>0. op.step \in {"close", "closeProbe"}
  BY DEF CloseSampler, CloseObservation, At
<1>1. /\ op \in Ops /\ op.b \in Bindings /\ op.b # 0 /\ obs[op.b] = "open" /\ op # NoOp
      /\ bound = 0 /\ forwarder = 0 /\ phase \in {"running", "waiting"}
      /\ 0 \in 0..MaxBinding
  <2>1. op \in Ops /\ 0 \in 0..MaxBinding
    BY MaxBindingIsNat DEF RuntimeInv, RunTypes
  <2>2. op.b # 0 /\ obs[op.b] = "open" /\ op # NoOp /\ bound = 0 /\ forwarder = 0
    BY <1>0, NoOpIs DEF RuntimeInv, OpInv
  <2>3. op.b \in Bindings
    BY <2>1, <2>2 DEF Ops, Bindings
  <2>4. phase \in {"running", "waiting"}
    BY <2>2 DEF RuntimeInv, StopInv
  <2> QED
    BY <2>1, <2>2, <2>3, <2>4
<1>2. CASE CloseSampler
  <2>1. PICK ok \in BOOLEAN : op' = [op EXCEPT !.step = "closeProbe", !.ok = ok]
    BY <1>2 DEF CloseSampler
  <2>2. op' \in Ops /\ op'.step = "closeProbe" /\ op'.b = op.b /\ op' # NoOp
    BY <1>1, <2>1, NoOpIs DEF Ops, OpSteps
  <2>3. /\ sampling' \in [Bindings -> {"idle", "running", "stopped"}]
        /\ sampling'[op.b] = "stopped"
        /\ \A c \in Bindings \ {op.b} : sampling'[c] = sampling[c]
    BY <1>1, <1>2 DEF CloseSampler, StopSampler, RuntimeInv, RunTypes
  <2>4. RunTypes'
    BY <1>2, <2>2, <2>3 DEF CloseSampler, RuntimeInv, RunTypes
  <2>5. BoundInv'
    BY <1>1, <1>2, <2>3 DEF CloseSampler, RuntimeInv, BoundInv
  <2> QED
    BY <1>1, <1>2, <2>2, <2>3, <2>4, <2>5
       DEF CloseSampler, RuntimeInv, ObservationsAccounted, OpInv, StopInv, AskedInv
<1>3. CASE CloseObservation
  <2>1. sampling[op.b] # "running"
    BY <1>3 DEF CloseObservation, At, RuntimeInv, OpInv
  <2>2. op' \in Ops /\ op'.b = 0 /\ op'.step \in {"none", "open"}
        /\ (op'.step = "none" <=> op' = NoOp)
    <3>1. op.kind \in OpKinds
      BY <1>1 DEF Ops
    <3>2. Done \/ Goto(op.kind, "open", 0)
      BY <1>3 DEF CloseObservation, Released
    <3> QED
      BY <1>1, <3>1, <3>2, GotoIs, NoOpIs DEF Done, OpSteps
  <2>3. /\ obs' \in [Bindings -> ObsStates] /\ obs'[op.b] = "closed"
        /\ \A c \in Bindings \ {op.b} : obs'[c] = obs[c]
    BY <1>1, <1>3 DEF CloseObservation, RuntimeInv, RunTypes, ObsStates
  <2>4. RunTypes'
    BY <1>3, <2>2, <2>3 DEF CloseObservation, RuntimeInv, RunTypes
  <2>5. BoundInv'
    BY <1>1, <1>3, <2>3 DEF CloseObservation, RuntimeInv, BoundInv
  <2> QED
    BY <1>1, <1>3, <2>1, <2>2, <2>3, <2>4, <2>5
       DEF CloseObservation, RuntimeInv, ObservationsAccounted, OpInv, StopInv, AskedInv
<1> QED
  BY <1>2, <1>3

LEMMA SamplingKeeps ==
  ASSUME RuntimeInv,
         BeginSampling \/ SamplingAnswered \/ (\E b \in Bindings : RunEnds(b))
  PROVE  RuntimeInv'
<1>1. CASE BeginSampling
  <2>1. /\ phase = "running" /\ op = NoOp /\ bound \in 0..MaxBinding /\ bound # 0
        /\ forwarder' \in {forwarder, bound}
        /\ UNCHANGED <<phase, bound, bindingEpoch, request, opened, obs, sampling, asked>>
    BY <1>1 DEF BeginSampling, Free, RuntimeInv, RunTypes
  <2>2. op' \in Ops /\ op' # NoOp /\ op'.step = "sample" /\ op'.b = bound
    BY <1>1, <2>1, GotoIs DEF BeginSampling, OpKinds, OpSteps
  <2>3. RunTypes'
    BY <2>1, <2>2 DEF RuntimeInv, RunTypes
  <2>4. ObservationsAccounted'
    BY <2>1, <2>2, NoOpIs DEF RuntimeInv, ObservationsAccounted, Bindings
  <2>5. OpInv'
    BY <2>1, <2>2 DEF RuntimeInv, OpInv
  <2> QED
    BY <2>1, <2>2, <2>3, <2>4, <2>5 DEF RuntimeInv, BoundInv, StopInv, AskedInv
<1>2. CASE SamplingAnswered
  <2>1. /\ op.b = bound /\ bound \in Bindings /\ bound # 0 /\ obs[bound] = "open"
        /\ phase \in {"running", "waiting"} /\ op' = NoOp /\ op # NoOp
        /\ UNCHANGED <<phase, bound, bindingEpoch, request, forwarder, opened, obs, asked>>
    BY <1>2, NoOpIs
       DEF SamplingAnswered, At, Done, RuntimeInv, RunTypes, OpInv, BoundInv, StopInv, Bindings
  <2>2. /\ sampling' \in [Bindings -> {"idle", "running", "stopped"}]
        /\ \A c \in Bindings \ {bound} : sampling'[c] = sampling[c]
    BY <1>2, <2>1 DEF SamplingAnswered, RuntimeInv, RunTypes
  <2>3. RunTypes'
    BY <2>1, <2>2, NoOpIs DEF RuntimeInv, RunTypes
  <2>4. BoundInv'
    BY <2>1, <2>2 DEF RuntimeInv, BoundInv
  <2> QED
    BY <2>1, <2>2, <2>3, <2>4, NoOpIs
       DEF RuntimeInv, ObservationsAccounted, OpInv, StopInv, AskedInv
<1>3. ASSUME NEW b \in Bindings, RunEnds(b)
      PROVE  RuntimeInv'
  <2>1. /\ sampling[b] = "running"
        /\ sampling' \in [Bindings -> {"idle", "running", "stopped"}]
        /\ sampling'[b] = "stopped"
        /\ \A c \in Bindings \ {b} : sampling'[c] = sampling[c]
        /\ UNCHANGED <<phase, op, bound, bindingEpoch, request, forwarder, opened, obs, asked>>
    BY <1>3 DEF RunEnds, RuntimeInv, RunTypes
  <2>2. RunTypes'
    BY <2>1 DEF RuntimeInv, RunTypes
  <2>3. BoundInv'
    BY <2>1 DEF RuntimeInv, BoundInv
  <2>4. OpInv'
    BY <2>1 DEF RuntimeInv, OpInv, RunTypes, Ops, Bindings
  <2>5. StopInv'
    BY <2>1 DEF RuntimeInv, StopInv, RunTypes, Bindings
  <2> QED
    BY <2>1, <2>2, <2>3, <2>4, <2>5 DEF RuntimeInv, ObservationsAccounted, AskedInv
<1> QED
  BY <1>1, <1>2, <1>3

LEMMA AskedKeeps ==
  ASSUME RuntimeInv, AskSource \/ AnswerSource \/ RefuseSource
  PROVE  RuntimeInv'
<1>1. CASE AskSource
  <2>1. asked' \in Questions /\ asked'.epoch = bindingEpoch /\ asked'.b = bound /\ ~asked'.moved
    BY <1>1 DEF AskSource, RuntimeInv, RunTypes, Questions
  <2>2. phase = "running" /\ bindingEpoch \in Nat
        /\ UNCHANGED <<phase, op, bound, bindingEpoch, request, forwarder, opened, obs, sampling>>
    BY <1>1 DEF AskSource, RuntimeInv, RunTypes
  <2>3. RunTypes'
    BY <2>1, <2>2 DEF RuntimeInv, RunTypes
  <2>4. AskedInv'
    BY <2>1, <2>2 DEF AskedInv
  <2> QED
    BY <2>2, <2>3, <2>4 DEF RuntimeInv, ObservationsAccounted, OpInv, BoundInv, StopInv
<1>2. CASE AnswerSource \/ RefuseSource
  <2>1. asked' = NoQuestion
        /\ UNCHANGED <<phase, op, bound, bindingEpoch, request, forwarder, opened, obs, sampling>>
    BY <1>2 DEF AnswerSource, RefuseSource, Closed
  <2>2. RunTypes'
    BY <2>1, NoQuestionIs DEF RuntimeInv, RunTypes
  <2> QED
    BY <2>1, <2>2, NoQuestionIs
       DEF RuntimeInv, ObservationsAccounted, OpInv, BoundInv, StopInv, AskedInv
<1> QED
  BY <1>1, <1>2

LEMMA RuntimeStopKeeps ==
  ASSUME RuntimeInv, BeginStop \/ StopStep
  PROVE  RuntimeInv'
<1>1. CASE BeginStop \/ CancelTasks \/ StopStreams
  <2>1. /\ phase \in {"running", "waiting", "cancelling"}
        /\ phase' \in {"waiting", "cancelling", "service"}
        /\ phase' \notin {"running", "waiting"} => op = NoOp /\ forwarder' = 0
        /\ forwarder' \in {forwarder, 0}
        /\ UNCHANGED <<op, bound, bindingEpoch, request, opened, obs, sampling, asked>>
    BY <1>1 DEF BeginStop, CancelTasks, StopStreams, RuntimeInv, StopInv
  <2>2. RunTypes'
    BY <2>1, MaxBindingIsNat DEF RuntimeInv, RunTypes, Phases
  <2> QED
    BY <2>1, <2>2 DEF RuntimeInv, ObservationsAccounted, OpInv, BoundInv, StopInv, AskedInv
<1>2. CASE StopService
  <2>1. /\ phase = "service" /\ phase' = "sampler" /\ asked' = NoQuestion
        /\ UNCHANGED <<op, bound, bindingEpoch, request, forwarder, opened, obs, sampling>>
    BY <1>2 DEF StopService
  <2>2. RunTypes'
    BY <2>1, NoQuestionIs DEF RuntimeInv, RunTypes, Phases
  <2> QED
    BY <2>1, <2>2, NoQuestionIs
       DEF RuntimeInv, ObservationsAccounted, OpInv, BoundInv, StopInv, AskedInv
<1>3. CASE StopLastSampler
  <2>1. /\ phase = "sampler" /\ phase' = "observation" /\ op = NoOp
        /\ UNCHANGED <<op, bound, bindingEpoch, request, forwarder, opened, obs, asked>>
    BY <1>3 DEF StopLastSampler, RuntimeInv, StopInv
  <2>2. CASE bound = 0
    <3>1. UNCHANGED sampling
      BY <1>3, <2>2 DEF StopLastSampler
    <3>2. RunTypes'
      BY <2>1, <3>1 DEF RuntimeInv, RunTypes, Phases
    <3> QED
      BY <2>1, <2>2, <3>1, <3>2
         DEF RuntimeInv, ObservationsAccounted, OpInv, BoundInv, StopInv, AskedInv
  <2>3. CASE bound # 0
    <3>1. bound \in Bindings
      BY <2>3 DEF RuntimeInv, RunTypes, Bindings
    <3>2. /\ sampling' \in [Bindings -> {"idle", "running", "stopped"}]
          /\ sampling'[bound] = "stopped"
          /\ \A c \in Bindings \ {bound} : sampling'[c] = sampling[c]
      BY <1>3, <2>3, <3>1 DEF StopLastSampler, StopSampler, RuntimeInv, RunTypes
    <3>3. RunTypes'
      BY <2>1, <3>2 DEF RuntimeInv, RunTypes, Phases
    <3>4. BoundInv'
      <4>1. obs[bound] = "open" /\ ~(bound > opened)
        BY <2>3, <3>1 DEF RuntimeInv, BoundInv
      <4>2. \A c \in Bindings : c > opened => obs[c] = "none" /\ sampling'[c] = "idle"
        BY <3>2, <4>1 DEF RuntimeInv, BoundInv
      <4> QED
        BY <2>1, <4>1, <4>2 DEF BoundInv
    <3> QED
      BY <2>1, <3>1, <3>2, <3>3, <3>4, NoOpIs
         DEF RuntimeInv, ObservationsAccounted, OpInv, StopInv, AskedInv
  <2> QED
    BY <2>2, <2>3
<1>4. CASE StopObservation
  <2>1. /\ phase = "observation" /\ phase' = "closed" /\ op = NoOp /\ forwarder = 0
        /\ bound' = 0 /\ 0 \in 0..MaxBinding /\ asked = NoQuestion
        /\ UNCHANGED <<op, bindingEpoch, request, forwarder, opened, sampling, asked>>
    BY <1>4, MaxBindingIsNat DEF StopObservation, RuntimeInv, StopInv
  <2>2. CASE bound = 0
    <3>1. UNCHANGED obs
      BY <1>4, <2>2 DEF StopObservation
    <3>2. RunTypes'
      BY <2>1, <3>1 DEF RuntimeInv, RunTypes, Phases
    <3> QED
      BY <2>1, <2>2, <3>1, <3>2, NoOpIs, NoQuestionIs
         DEF RuntimeInv, ObservationsAccounted, OpInv, BoundInv, StopInv, AskedInv
  <2>3. CASE bound # 0
    <3>1. bound \in Bindings /\ obs[bound] = "open" /\ sampling[bound] # "running"
      BY <2>1, <2>3 DEF RuntimeInv, RunTypes, BoundInv, StopInv, Bindings
    <3>2. /\ obs' \in [Bindings -> ObsStates] /\ obs'[bound] = "closed"
          /\ \A c \in Bindings \ {bound} : obs'[c] = obs[c]
      BY <1>4, <2>3, <3>1 DEF StopObservation, RuntimeInv, RunTypes, ObsStates
    <3>3. RunTypes'
      BY <2>1, <3>2 DEF RuntimeInv, RunTypes, Phases
    <3>4. BoundInv'
      <4>1. ~(bound > opened)
        BY <3>1 DEF RuntimeInv, BoundInv
      <4>2. \A c \in Bindings : c > opened => obs'[c] = "none" /\ sampling[c] = "idle"
        BY <3>2, <4>1 DEF RuntimeInv, BoundInv
      <4> QED
        BY <2>1, <4>2 DEF BoundInv
    <3> QED
      BY <2>1, <3>1, <3>2, <3>3, <3>4, NoOpIs, NoQuestionIs
         DEF RuntimeInv, ObservationsAccounted, OpInv, StopInv, AskedInv
  <2> QED
    BY <2>2, <2>3
<1> QED
  BY <1>1, <1>2, <1>3, <1>4 DEF StopStep

LEMMA StepKeeps == RuntimeInv /\ [RNext]_rvars => RuntimeInv'
<1> SUFFICES ASSUME RuntimeInv, [RNext]_rvars PROVE RuntimeInv'
  OBVIOUS
<1>1. CASE UNCHANGED runVars
  BY <1>1, LiveKeeps
<1>2. CASE UNCHANGED rvars
  BY <1>1, <1>2 DEF rvars
<1>3. CASE RNext
  <2>1. CASE ForwardSample \/ Heartbeat
    BY <1>1, <2>1 DEF ForwardSample, Heartbeat
  <2> QED
    BY <1>1, <1>3, <2>1, ConnectKeeps, OpenKeeps, ReleaseKeeps, ClosingKeeps, SamplingKeeps,
       AskedKeeps, RuntimeStopKeeps
       DEF RNext, RequestStep
<1> QED
  BY <1>2, <1>3

-----------------------------------------------------------------------------
\* The invariant holds in every state of every run.
THEOREM RuntimeInvariance == RSpec => []RuntimeInv
  BY InitEstablishes, StepKeeps, PTL DEF RSpec

\* Every variable of the runtime keeps its type.
THEOREM RunTypesCorrect == RSpec => []RunTypes
<1>1. RuntimeInv => RunTypes
  BY DEF RuntimeInv
<1> QED
  BY <1>1, RuntimeInvariance, PTL

\* No observation is lost sight of, but by a release that could not say so,
\* and none is left behind by a stop.
THEOREM ObservationsAreAccounted == RSpec => []ObservationsAccounted
<1>1. RuntimeInv => ObservationsAccounted
  BY DEF RuntimeInv
<1> QED
  BY <1>1, RuntimeInvariance, PTL

\* The comparison of the probe and its epoch is enough: whatever was released
\* and connected meanwhile, an answer is for a probe that stayed bound.
THEOREM SourceAnswersAreCurrent == RSpec => SourceAnswersCurrent
<1>1. RuntimeInv /\ [RNext]_rvars => [AnswerSource => ~asked.moved]_rvars
  BY DEF RuntimeInv, AskedInv, AnswerSource, SameContext
<1> QED
  BY <1>1, RuntimeInvariance, PTL DEF RSpec, SourceAnswersCurrent

-----------------------------------------------------------------------------
(* The sampler: its control invariant.                                     *)

\* The types of what the invariant speaks about.
ControlTypes ==
    /\ state \in States
    /\ epoch \in Nat /\ plan \in Nat /\ gate \in BOOLEAN
    /\ action \in Actions
    /\ producer \in Producers
    /\ fresh \in BOOLEAN

\* An action under way holds the state it found.
ActionFits ==
    /\ action.kind = "start" => state = "IDLE"
    /\ action.kind = "resume" => state = "PAUSED"
    /\ action.kind = "close" => state \notin {"IDLE", "CLOSED"}
    /\ action.kind = "stop" => state = "STOPPING"
    /\ state = "STOPPING" => action.kind = "stop"
    /\ action.at = "prepare" => epoch > 0

\* The producer lives only inside a run, and is cancelled exactly by its end.
ProducerFits ==
    /\ state \in {"IDLE", "CLOSED"} => ~Alive
    /\ Ending /\ Alive => producer.cancelled
    /\ producer.cancelled => Ending

InCycle == producer.at \in {"group", "read"}

\* A cycle belongs to an epoch of the past or to this one, and then nothing
\* interrupted it; what is prepared belongs to an epoch later than any cycle.
EpochsFit ==
    /\ InCycle => producer.epoch <= epoch
    /\ InCycle /\ producer.epoch = epoch => fresh /\ state = "RUNNING"
    /\ InCycle /\ action.at = "prepare" => producer.epoch < epoch
    /\ producer.at = "read" => producer.plan <= producer.epoch

\* The plan of a running sampler is the one of its epoch.
PlanFits ==
    /\ plan <= epoch
    /\ state = "RUNNING" /\ ~Ending => plan = epoch /\ epoch > 0

ControlInv ==
    /\ ControlTypes
    /\ ActionFits
    /\ ProducerFits
    /\ EpochsFit
    /\ PlanFits
    /\ ProducerServesRun

USE DEF States, Actions, NoAction, Ending, Producers, Producer, Alive, InCycle

LEMMA AliveIsBoolean == Alive \in BOOLEAN
  OBVIOUS

LEMMA ControlInit == Init => ControlInv
  <1> SUFFICES ASSUME Init PROVE ControlInv
    OBVIOUS
  <1>1. ControlTypes
    BY DEF Init, ControlTypes
  <1>2. ActionFits
    BY DEF Init, ActionFits
  <1>3. ProducerFits
    BY DEF Init, ProducerFits
  <1>4. EpochsFit
    BY DEF Init, EpochsFit
  <1>5. PlanFits
    BY DEF Init, PlanFits
  <1>6. ProducerServesRun
    BY DEF Init, ProducerServesRun
  <1> QED
    BY <1>1, <1>2, <1>3, <1>4, <1>5, <1>6 DEF ControlInv

\* Writers and subscribers touch nothing the invariant speaks about.
LEMMA OutputsKeep ==
  ASSUME ControlInv, UNCHANGED <<control, producer, fresh>> PROVE ControlInv'
  <1> USE DEF ControlInv, ControlTypes, control
  <1>1. ControlTypes'
    OBVIOUS
  <1>2. ActionFits'
    BY DEF ActionFits
  <1>3. ProducerFits'
    BY DEF ProducerFits
  <1>4. EpochsFit'
    BY DEF EpochsFit
  <1>5. PlanFits'
    BY DEF PlanFits
  <1>6. ProducerServesRun'
    BY DEF ProducerServesRun
  <1> QED
    BY <1>1, <1>2, <1>3, <1>4, <1>5, <1>6

\* The producer goes back to the gate.
LEMMA Waits ==
  ASSUME ControlInv, Alive, ~producer.cancelled, UNCHANGED <<control, fresh>>,
         producer' = Producer("waiting")
  PROVE  ControlInv'
  <1> USE DEF ControlInv, ControlTypes, control
  <1>1. ControlTypes'
    OBVIOUS
  <1>2. ActionFits'
    BY DEF ActionFits
  <1>3. ProducerFits'
    BY DEF ProducerFits
  <1>4. EpochsFit'
    BY DEF EpochsFit
  <1>5. PlanFits'
    BY DEF PlanFits
  <1>6. ProducerServesRun'
    BY DEF ProducerServesRun
  <1> QED
    BY <1>1, <1>2, <1>3, <1>4, <1>5, <1>6

\* The producer.
LEMMA StartCycleKeeps ==
  ASSUME ControlInv, StartCycle PROVE ControlInv'
  <1> USE DEF ControlInv, ControlTypes, StartCycle, control
  <1>1. ControlTypes'
    OBVIOUS
  <1>2. ActionFits'
    BY DEF ActionFits
  <1>3. ProducerFits'
    BY DEF ProducerFits
  <1>4. EpochsFit'
    BY DEF EpochsFit, ActionFits
  <1>5. PlanFits'
    BY DEF PlanFits
  <1>6. ProducerServesRun'
    BY DEF ProducerServesRun
  <1> QED
    BY <1>1, <1>2, <1>3, <1>4, <1>5, <1>6

LEMMA GroupHoldsKeeps ==
  ASSUME ControlInv, GroupHolds PROVE ControlInv'
  <1> USE DEF ControlInv, ControlTypes, GroupHolds, Stale, control
  <1>1. CASE Again
    BY <1>1, Waits DEF Again
  <1>2. CASE ~Stale /\ producer' = [producer EXCEPT !.at = "read", !.plan = plan]
    <2>1. producer' = [at |-> "read", epoch |-> producer.epoch, plan |-> plan,
                       cancelled |-> producer.cancelled]
      BY <1>2
    <2>2. ControlTypes'
      BY <2>1
    <2>3. ActionFits'
      BY DEF ActionFits
    <2>4. ProducerFits'
      BY <2>1 DEF ProducerFits
    <2>5. EpochsFit'
      BY <1>2, <2>1 DEF EpochsFit, PlanFits
    <2>6. PlanFits'
      BY DEF PlanFits
    <2>7. ProducerServesRun'
      BY <2>1 DEF ProducerServesRun
    <2> QED
      BY <2>2, <2>3, <2>4, <2>5, <2>6, <2>7
  <1> QED
    BY <1>1, <1>2

LEMMA GroupChangedKeeps ==
  ASSUME ControlInv, GroupChanged PROVE ControlInv'
  <1> USE DEF ControlInv, ControlTypes, GroupChanged, Stale, Again, Dies, Block
  <1>1. ControlTypes'
    <2>1. action' \in Actions
      OBVIOUS
    <2>2. producer' \in Producers
      <3>1. Again \/ Dies
        OBVIOUS
      <3>2. Producer("waiting") \in Producers /\ Producer("done") \in Producers
        OBVIOUS
      <3> QED
        BY <3>1, <3>2
    <2>3. state' \in States /\ gate' \in BOOLEAN /\ fresh' \in BOOLEAN
      OBVIOUS
    <2>4. epoch' \in Nat /\ plan' \in Nat
      OBVIOUS
    <2> QED
      BY <2>1, <2>2, <2>3, <2>4
  <1>2. ActionFits'
    BY DEF ActionFits, ProducerFits
  <1>3. ProducerFits'
    BY DEF ProducerFits, ActionFits
  <1>4. EpochsFit'
    BY DEF EpochsFit
  <1>5. PlanFits'
    BY DEF PlanFits, EpochsFit, ProducerFits
  <1>6. ProducerServesRun'
    <2>1. CASE ~Stale
      BY <2>1 DEF ProducerServesRun
    <2>2. CASE Stale /\ Again
      BY <2>2 DEF ProducerServesRun
    <2>3. CASE Stale /\ Dies
      <3>1. UNCHANGED <<state, gate, action>>
        BY <2>3
      <3>2. ~ Again
        BY <2>3
      <3>3. ~ (producer.epoch # epoch /\ state \in {"PAUSED", "RUNNING"})
        BY <2>3, <3>2
      <3>4. state \notin {"PAUSED", "RUNNING"}
        BY <2>3, <3>3 DEF EpochsFit
      <3> QED
        BY <3>1, <3>4 DEF ProducerServesRun
    <2> QED
      BY <2>1, <2>2, <2>3
  <1> QED
    BY <1>1, <1>2, <1>3, <1>4, <1>5, <1>6

LEMMA ReadFailsKeeps ==
  ASSUME ControlInv, ReadFails PROVE ControlInv'
  <1> USE DEF ControlInv, ControlTypes, ReadFails, Stale, Again, Dies, Block, PlanAfterFailure
  <1>1. ControlTypes'
    <2>1. action' \in Actions
      OBVIOUS
    <2>2. producer' \in Producers
      <3>1. Again \/ Dies
        OBVIOUS
      <3>2. Producer("waiting") \in Producers /\ Producer("done") \in Producers
        OBVIOUS
      <3> QED
        BY <3>1, <3>2
    <2>3. state' \in States /\ gate' \in BOOLEAN /\ fresh' \in BOOLEAN
      OBVIOUS
    <2>4. epoch' \in Nat /\ plan' \in Nat
      OBVIOUS
    <2> QED
      BY <2>1, <2>2, <2>3, <2>4
  <1>2. ActionFits'
    BY DEF ActionFits, ProducerFits
  <1>3. ProducerFits'
    BY DEF ProducerFits, ActionFits
  <1>4. EpochsFit'
    BY DEF EpochsFit
  <1>5. PlanFits'
    BY DEF PlanFits, EpochsFit, ProducerFits
  <1>6. ProducerServesRun'
    BY DEF ProducerServesRun, ProducerFits, ActionFits
  <1> QED
    BY <1>1, <1>2, <1>3, <1>4, <1>5, <1>6

LEMMA ReadIsLateKeeps ==
  ASSUME ControlInv, ReadIsLate PROVE ControlInv'
  <1> USE DEF ControlInv, ControlTypes, ReadIsLate, Stale, Again, control
  <1>1. ControlTypes'
    OBVIOUS
  <1>2. ActionFits'
    BY DEF ActionFits, ProducerFits
  <1>3. ProducerFits'
    BY DEF ProducerFits, ActionFits
  <1>4. EpochsFit'
    BY DEF EpochsFit
  <1>5. PlanFits'
    BY DEF PlanFits, EpochsFit, ProducerFits
  <1>6. ProducerServesRun'
    BY DEF ProducerServesRun, ProducerFits, ActionFits
  <1> QED
    BY <1>1, <1>2, <1>3, <1>4, <1>5, <1>6

LEMMA CancelledKeeps ==
  ASSUME ControlInv, Cancelled PROVE ControlInv'
  <1> USE DEF ControlInv, ControlTypes, Cancelled, Dies, PlanAfterFailure
  <1>1. ControlTypes'
    OBVIOUS
  <1>2. ActionFits'
    BY DEF ActionFits, ProducerFits
  <1>3. ProducerFits'
    BY DEF ProducerFits, ActionFits
  <1>4. EpochsFit'
    BY DEF EpochsFit
  <1>5. PlanFits'
    BY DEF PlanFits, EpochsFit, ProducerFits
  <1>6. ProducerServesRun'
    BY DEF ProducerServesRun, ProducerFits, ActionFits
  <1> QED
    BY <1>1, <1>2, <1>3, <1>4, <1>5, <1>6

LEMMA PublishKeeps ==
  ASSUME NEW fits \in BOOLEAN, ControlInv, Publish(fits) PROVE ControlInv'
  <1> USE DEF ControlInv, ControlTypes, Publish, Stale, Again, control
  <1>1. ControlTypes'
    OBVIOUS
  <1>2. ActionFits'
    BY DEF ActionFits
  <1>3. ProducerFits'
    BY DEF ProducerFits
  <1>4. EpochsFit'
    BY DEF EpochsFit
  <1>5. PlanFits'
    BY DEF PlanFits
  <1>6. ProducerServesRun'
    BY DEF ProducerServesRun
  <1> QED
    BY <1>1, <1>2, <1>3, <1>4, <1>5, <1>6

\* The clients' actions.
LEMMA StartKeeps ==
  ASSUME ControlInv, Start PROVE ControlInv'
  <1> USE DEF ControlInv, ControlTypes, Start
  <1>1. ControlTypes'
    OBVIOUS
  <1>2. ActionFits'
    BY DEF ActionFits, ProducerFits
  <1>3. ProducerFits'
    BY DEF ProducerFits, ActionFits, ProducerServesRun
  <1>4. EpochsFit'
    BY DEF EpochsFit, ProducerFits, ActionFits
  <1>5. PlanFits'
    BY DEF PlanFits, EpochsFit, ActionFits
  <1>6. ProducerServesRun'
    BY DEF ProducerServesRun, ProducerFits, ActionFits
  <1> QED
    BY <1>1, <1>2, <1>3, <1>4, <1>5, <1>6

LEMMA ResumeKeeps ==
  ASSUME ControlInv, Resume PROVE ControlInv'
  <1> USE DEF ControlInv, ControlTypes, Resume
  <1>1. ControlTypes'
    OBVIOUS
  <1>2. ActionFits'
    BY DEF ActionFits, ProducerFits
  <1>3. ProducerFits'
    BY DEF ProducerFits, ActionFits, ProducerServesRun
  <1>4. EpochsFit'
    BY DEF EpochsFit, ProducerFits, ActionFits
  <1>5. PlanFits'
    BY DEF PlanFits, EpochsFit, ActionFits
  <1>6. ProducerServesRun'
    BY DEF ProducerServesRun, ProducerFits, ActionFits
  <1> QED
    BY <1>1, <1>2, <1>3, <1>4, <1>5, <1>6

LEMMA AdmittedKeeps ==
  ASSUME ControlInv, Admitted PROVE ControlInv'
  <1> USE DEF ControlInv, ControlTypes, Admitted
  <1>1. ControlTypes'
    OBVIOUS
  <1>2. ActionFits'
    BY DEF ActionFits, ProducerFits
  <1>3. ProducerFits'
    BY DEF ProducerFits, ActionFits, ProducerServesRun
  <1>4. EpochsFit'
    BY DEF EpochsFit, ProducerFits, ActionFits
  <1>5. PlanFits'
    BY DEF PlanFits, EpochsFit, ActionFits
  <1>6. ProducerServesRun'
    BY DEF ProducerServesRun, ProducerFits, ActionFits
  <1> QED
    BY <1>1, <1>2, <1>3, <1>4, <1>5, <1>6

LEMMA DeniedKeeps ==
  ASSUME ControlInv, Denied PROVE ControlInv'
  <1> USE DEF ControlInv, ControlTypes, Denied, Block
  <1>1. ControlTypes'
    <2>1. action' \in Actions
      OBVIOUS
    <2>2. producer' \in Producers
      OBVIOUS
    <2>3. state' \in States /\ gate' \in BOOLEAN /\ fresh' \in BOOLEAN
      OBVIOUS
    <2>4. epoch' \in Nat /\ plan' \in Nat
      OBVIOUS
    <2> QED
      BY <2>1, <2>2, <2>3, <2>4
  <1>2. ActionFits'
    BY DEF ActionFits, ProducerFits
  <1>3. ProducerFits'
    BY DEF ProducerFits, ActionFits, ProducerServesRun
  <1>4. EpochsFit'
    BY DEF EpochsFit, ProducerFits, ActionFits
  <1>5. PlanFits'
    BY DEF PlanFits, EpochsFit, ActionFits
  <1>6. ProducerServesRun'
    BY DEF ProducerServesRun, ProducerFits, ActionFits
  <1> QED
    BY <1>1, <1>2, <1>3, <1>4, <1>5, <1>6

LEMMA GivenUpKeeps ==
  ASSUME ControlInv, GivenUp PROVE ControlInv'
  <1> USE DEF ControlInv, ControlTypes, GivenUp
  <1>1. ControlTypes'
    OBVIOUS
  <1>2. ActionFits'
    BY DEF ActionFits, ProducerFits
  <1>3. ProducerFits'
    BY DEF ProducerFits, ActionFits, ProducerServesRun
  <1>4. EpochsFit'
    BY DEF EpochsFit, ProducerFits, ActionFits
  <1>5. PlanFits'
    BY DEF PlanFits, EpochsFit, ActionFits
  <1>6. ProducerServesRun'
    BY DEF ProducerServesRun, ProducerFits, ActionFits
  <1> QED
    BY <1>1, <1>2, <1>3, <1>4, <1>5, <1>6

LEMMA StartedKeeps ==
  ASSUME ControlInv, Started PROVE ControlInv'
  <1> USE DEF ControlInv, ControlTypes, Started
  <1>1. ControlTypes'
    OBVIOUS
  <1>2. ActionFits'
    BY DEF ActionFits, ProducerFits
  <1>3. ProducerFits'
    BY DEF ProducerFits, ActionFits, ProducerServesRun
  <1>4. EpochsFit'
    BY DEF EpochsFit, ProducerFits, ActionFits
  <1>5. PlanFits'
    BY DEF PlanFits, EpochsFit, ActionFits
  <1>6. ProducerServesRun'
    BY DEF ProducerServesRun, ProducerFits, ActionFits
  <1> QED
    BY <1>1, <1>2, <1>3, <1>4, <1>5, <1>6

LEMMA ResumedKeeps ==
  ASSUME ControlInv, Resumed PROVE ControlInv'
  <1> USE DEF ControlInv, ControlTypes, Resumed
  <1>1. ControlTypes'
    OBVIOUS
  <1>2. ActionFits'
    BY DEF ActionFits, ProducerFits
  <1>3. ProducerFits'
    BY DEF ProducerFits, ActionFits, ProducerServesRun
  <1>4. EpochsFit'
    BY DEF EpochsFit, ProducerFits, ActionFits
  <1>5. PlanFits'
    BY DEF PlanFits, EpochsFit, ActionFits
  <1>6. ProducerServesRun'
    BY DEF ProducerServesRun, ProducerFits, ActionFits
  <1> QED
    BY <1>1, <1>2, <1>3, <1>4, <1>5, <1>6

LEMMA PauseKeeps ==
  ASSUME ControlInv, Pause PROVE ControlInv'
  <1> USE DEF ControlInv, ControlTypes, Pause
  <1>1. ControlTypes'
    <2>1. action' \in Actions
      OBVIOUS
    <2>2. producer' \in Producers
      OBVIOUS
    <2>3. state' \in States /\ gate' \in BOOLEAN /\ fresh' \in BOOLEAN
      OBVIOUS
    <2>4. epoch' \in Nat /\ plan' \in Nat
      OBVIOUS
    <2> QED
      BY <2>1, <2>2, <2>3, <2>4
  <1>2. ActionFits'
    BY DEF ActionFits, ProducerFits
  <1>3. ProducerFits'
    BY DEF ProducerFits, ActionFits, ProducerServesRun
  <1>4. EpochsFit'
    BY DEF EpochsFit, ProducerFits, ActionFits
  <1>5. PlanFits'
    BY DEF PlanFits, EpochsFit, ActionFits
  <1>6. ProducerServesRun'
    BY DEF ProducerServesRun, ProducerFits, ActionFits
  <1> QED
    BY <1>1, <1>2, <1>3, <1>4, <1>5, <1>6

LEMMA StopKeeps ==
  ASSUME ControlInv, Stop PROVE ControlInv'
  <1> USE DEF ControlInv, ControlTypes, Stop, EndRun
  <1>1. ControlTypes'
    <2>1. action' \in Actions
      OBVIOUS
    <2>2. producer' \in Producers
      <3>1. CASE UNCHANGED producer
        BY <3>1
      <3>2. CASE EndRun("stop")
        <4>1. producer' = [at |-> producer.at, epoch |-> producer.epoch,
                           plan |-> producer.plan, cancelled |-> Alive]
          BY <3>2
        <4>2. Alive \in BOOLEAN
          BY AliveIsBoolean
        <4> QED
          BY <4>1, <4>2
      <3> QED
        BY <3>1, <3>2
    <2>3. state' \in States /\ gate' \in BOOLEAN /\ fresh' \in BOOLEAN
      OBVIOUS
    <2>4. epoch' \in Nat /\ plan' \in Nat
      OBVIOUS
    <2> QED
      BY <2>1, <2>2, <2>3, <2>4
  <1>2. ActionFits'
    BY DEF ActionFits, ProducerFits
  <1>3. ProducerFits'
    <2>1. CASE state = "IDLE"
      BY <2>1 DEF ProducerFits, ActionFits
    <2>2. CASE state # "IDLE"
      <3>1. state' = "STOPPING" /\ action'.kind = "stop"
        BY <2>2
      <3>2. producer'.cancelled = Alive /\ producer'.at = producer.at
        BY <2>2
      <3> QED
        BY <2>2, <3>1, <3>2 DEF ProducerFits, ActionFits
    <2> QED
      BY <2>1, <2>2
  <1>4. EpochsFit'
    BY DEF EpochsFit, ProducerFits, ActionFits
  <1>5. PlanFits'
    BY DEF PlanFits, EpochsFit, ActionFits
  <1>6. ProducerServesRun'
    BY DEF ProducerServesRun, ProducerFits, ActionFits
  <1> QED
    BY <1>1, <1>2, <1>3, <1>4, <1>5, <1>6

LEMMA CloseKeeps ==
  ASSUME ControlInv, Close PROVE ControlInv'
  <1> USE DEF ControlInv, ControlTypes, Close, EndRun
  <1>1. ControlTypes'
    <2>1. action' \in Actions
      OBVIOUS
    <2>2. producer' \in Producers
      <3>1. CASE UNCHANGED producer
        BY <3>1
      <3>2. CASE EndRun("close")
        <4>1. producer' = [at |-> producer.at, epoch |-> producer.epoch,
                           plan |-> producer.plan, cancelled |-> Alive]
          BY <3>2
        <4>2. Alive \in BOOLEAN
          BY AliveIsBoolean
        <4> QED
          BY <4>1, <4>2
      <3> QED
        BY <3>1, <3>2
    <2>3. state' \in States /\ gate' \in BOOLEAN /\ fresh' \in BOOLEAN
      OBVIOUS
    <2>4. epoch' \in Nat /\ plan' \in Nat
      OBVIOUS
    <2> QED
      BY <2>1, <2>2, <2>3, <2>4
  <1>2. ActionFits'
    BY DEF ActionFits, ProducerFits
  <1>3. ProducerFits'
    <2>1. CASE state = "IDLE"
      BY <2>1 DEF ProducerFits, ActionFits
    <2>2. CASE state # "IDLE"
      <3>1. state' = state /\ action'.kind = "close"
        BY <2>2
      <3>2. producer'.cancelled = Alive /\ producer'.at = producer.at
        BY <2>2
      <3> QED
        BY <2>2, <3>1, <3>2 DEF ProducerFits, ActionFits
    <2> QED
      BY <2>1, <2>2
  <1>4. EpochsFit'
    BY DEF EpochsFit, ProducerFits, ActionFits
  <1>5. PlanFits'
    BY DEF PlanFits, EpochsFit, ActionFits
  <1>6. ProducerServesRun'
    BY DEF ProducerServesRun, ProducerFits, ActionFits
  <1> QED
    BY <1>1, <1>2, <1>3, <1>4, <1>5, <1>6

LEMMA ProducerEndedKeeps ==
  ASSUME ControlInv, ProducerEnded PROVE ControlInv'
  <1> USE DEF ControlInv, ControlTypes, ProducerEnded
  <1>1. ControlTypes'
    OBVIOUS
  <1>2. ActionFits'
    BY DEF ActionFits, ProducerFits
  <1>3. ProducerFits'
    BY DEF ProducerFits, ActionFits, ProducerServesRun
  <1>4. EpochsFit'
    BY DEF EpochsFit, ProducerFits, ActionFits
  <1>5. PlanFits'
    BY DEF PlanFits, EpochsFit, ActionFits
  <1>6. ProducerServesRun'
    BY DEF ProducerServesRun, ProducerFits, ActionFits
  <1> QED
    BY <1>1, <1>2, <1>3, <1>4, <1>5, <1>6

LEMMA MarkEndKeeps ==
  ASSUME ControlInv, MarkEnd PROVE ControlInv'
  <1> USE DEF ControlInv, ControlTypes, MarkEnd
  <1>1. ControlTypes'
    OBVIOUS
  <1>2. ActionFits'
    BY DEF ActionFits, ProducerFits
  <1>3. ProducerFits'
    BY DEF ProducerFits, ActionFits, ProducerServesRun
  <1>4. EpochsFit'
    BY DEF EpochsFit, ProducerFits, ActionFits
  <1>5. PlanFits'
    BY DEF PlanFits, EpochsFit, ActionFits
  <1>6. ProducerServesRun'
    BY DEF ProducerServesRun, ProducerFits, ActionFits
  <1> QED
    BY <1>1, <1>2, <1>3, <1>4, <1>5, <1>6

LEMMA RunEndedKeeps ==
  ASSUME ControlInv, RunEnded PROVE ControlInv'
  <1> USE DEF ControlInv, ControlTypes, RunEnded, Reset
  <1>1. ControlTypes'
    OBVIOUS
  <1>2. ActionFits'
    BY DEF ActionFits, ProducerFits
  <1>3. ProducerFits'
    BY DEF ProducerFits, ActionFits, ProducerServesRun
  <1>4. EpochsFit'
    BY DEF EpochsFit, ProducerFits, ActionFits
  <1>5. PlanFits'
    BY DEF PlanFits, EpochsFit, ActionFits
  <1>6. ProducerServesRun'
    BY DEF ProducerServesRun, ProducerFits, ActionFits
  <1> QED
    BY <1>1, <1>2, <1>3, <1>4, <1>5, <1>6

-----------------------------------------------------------------------------

LEMMA ControlNext == ControlInv /\ [Next]_vars => ControlInv'
  <1> SUFFICES ASSUME ControlInv, [Next]_vars PROVE ControlInv'
    OBVIOUS
  <1>1. CASE Cycle
    BY <1>1, StartCycleKeeps, GroupHoldsKeeps, GroupChangedKeeps, ReadFailsKeeps,
       ReadIsLateKeeps, CancelledKeeps, PublishKeeps DEF Cycle
  <1>2. CASE Writing
    BY <1>2, OutputsKeep DEF Writing, WriterTakes, WriterSaves, WriterFails
  <1>3. CASE Acting
    BY <1>3, AdmittedKeeps, DeniedKeeps, GivenUpKeeps, StartedKeeps, ResumedKeeps DEF Acting
  <1>4. CASE RunEnding
    BY <1>4, ProducerEndedKeeps, MarkEndKeeps, RunEndedKeeps DEF RunEnding
  <1>5. CASE Asking
    BY <1>5, StartKeeps, ResumeKeeps, PauseKeeps, StopKeeps, CloseKeeps DEF Asking
  <1>6. CASE Streaming
    BY <1>6, OutputsKeep DEF Streaming, Subscribe, Receive, Unsubscribe
  <1>7. CASE UNCHANGED vars
    BY <1>7, OutputsKeep DEF vars
  <1> QED
    BY <1>1, <1>2, <1>3, <1>4, <1>5, <1>6, <1>7 DEF Next

\* The control invariant holds of every behaviour, for any number of runs and pauses.
THEOREM ControlInvariant == Spec => []ControlInv
  BY ControlInit, ControlNext, PTL DEF Spec

\* A run told to be running or paused has a living producer, and a running one
\* the read plan of its epoch (_current_group, _produce, read, _block): for any
\* capacities, subscribers and any number of pauses.
THEOREM RunAlwaysServed == Spec => []RunServed
  <1>1. ControlInv => ProducerServesRun
    BY DEF ControlInv
  <1>2. ControlInv => PlanReady
    BY DEF ControlInv, ControlTypes, PlanFits, PlanReady
  <1>3. ControlInv => RunServed
    BY <1>1, <1>2 DEF RunServed
  <1> QED
    BY <1>3, ControlInvariant, PTL

-----------------------------------------------------------------------------
(* The types of the queues, the counters and the ledger. *)

QueueTypes == queue \in Seq(Batches) /\ Len(queue) <= HistoryQueueBatches
InboxTypes ==
    /\ inbox \in [Subscriber -> Inboxes]
    /\ \A s \in Subscriber : Len(inbox[s].items) <= SubscriberQueueBatches
CounterTypes ==
    /\ writer \in Writers /\ pending \in Drops
    /\ historyDrops \in Nat /\ ledger \in Ledgers
OutputTypes == QueueTypes /\ InboxTypes /\ CounterTypes

LEMMA MarksAreBatches == HistoryEnd \in Batches /\ NoBatch \in Batches
  BY DEF HistoryEnd, NoBatch, Batches

LEMMA OutputInit == Init => OutputTypes
  <1> SUFFICES ASSUME Init PROVE OutputTypes
    OBVIOUS
  <1>1. QueueTypes
    BY CapacityAssumption DEF Init, QueueTypes
  <1>2. InboxTypes
    BY CapacityAssumption DEF Init, InboxTypes, Inboxes, NoInbox
  <1>3. CounterTypes
    BY MarksAreBatches DEF Init, CounterTypes, Writers, Writer, Drops, NoDrops, Ledgers
  <1> QED
    BY <1>1, <1>2, <1>3 DEF OutputTypes

LEMMA QueueShrinks ==
  ASSUME NEW S, NEW items \in Seq(S), items # <<>>, NEW n \in Nat, Len(items) <= n
  PROVE  Head(items) \in S /\ Tail(items) \in Seq(S) /\ Len(Tail(items)) <= n
  OBVIOUS

\* Putting one delivery into a queue, after an eviction if it is full.
LEMMA DeliveryFits ==
  ASSUME NEW items \in Seq(Int), Len(items) <= SubscriberQueueBatches, NEW x \in Int
  PROVE  LET kept == IF Len(items) = SubscriberQueueBatches THEN Tail(items) ELSE items
         IN /\ Append(kept, x) \in Seq(Int)
            /\ Len(Append(kept, x)) <= SubscriberQueueBatches
  BY CapacityAssumption

LEMMA EndStreamsTypes == InboxTypes /\ EndStreams => InboxTypes'
  <1> SUFFICES ASSUME InboxTypes, EndStreams, NEW s \in Subscriber
               PROVE  /\ inbox' = [t \in Subscriber |-> inbox'[t]]
                      /\ inbox'[s] \in Inboxes
                      /\ Len(inbox'[s].items) <= SubscriberQueueBatches
    BY DEF InboxTypes, EndStreams
  <1>1. inbox[s] \in Inboxes /\ Len(inbox[s].items) <= SubscriberQueueBatches
    BY DEF InboxTypes
  <1>2. inbox[s].items \in Seq(Int)
    BY <1>1 DEF Inboxes
  <1> DEFINE kept == IF Full(s) THEN Tail(inbox[s].items) ELSE inbox[s].items
  <1>3. Append(kept, StreamEnd) \in Seq(Int) /\ Len(Append(kept, StreamEnd)) <= SubscriberQueueBatches
    BY <1>1, <1>2, DeliveryFits DEF Full, StreamEnd
  <1>4. inbox'[s] = IF inbox[s].on THEN [inbox[s] EXCEPT !.items = Append(kept, StreamEnd)]
                    ELSE inbox[s]
    BY DEF EndStreams
  <1>5. inbox' = [t \in Subscriber |-> inbox'[t]]
    BY DEF EndStreams
  <1> HIDE DEF kept
  <1> QED
    BY <1>1, <1>3, <1>4, <1>5 DEF Inboxes

LEMMA BroadcastTypes == InboxTypes /\ Broadcast => InboxTypes'
  <1> SUFFICES ASSUME InboxTypes, Broadcast, NEW s \in Subscriber
               PROVE  /\ inbox' = [t \in Subscriber |-> inbox'[t]]
                      /\ inbox'[s] \in Inboxes
                      /\ Len(inbox'[s].items) <= SubscriberQueueBatches
    BY DEF InboxTypes, Broadcast
  <1>1. inbox[s] \in Inboxes /\ Len(inbox[s].items) <= SubscriberQueueBatches
    BY DEF InboxTypes
  <1>2. inbox[s].items \in Seq(Int) /\ inbox[s].owed \in Int
    BY <1>1 DEF Inboxes
  <1> DEFINE kept == IF Full(s) THEN Tail(inbox[s].items) ELSE inbox[s].items
  <1>3. ReportedBy(s) \in Int
    BY <1>1, <1>2, CapacityAssumption DEF ReportedBy, Full
  <1>4. /\ Append(kept, ReportedBy(s)) \in Seq(Int)
        /\ Len(Append(kept, ReportedBy(s))) <= SubscriberQueueBatches
    BY <1>1, <1>2, <1>3, DeliveryFits DEF Full
  <1>5. inbox'[s] = IF ~inbox[s].on THEN inbox[s]
                    ELSE [inbox[s] EXCEPT !.items = Append(kept, ReportedBy(s)),
                                          !.owed = inbox[s].owed + 1]
    BY DEF Broadcast
  <1>6. inbox' = [t \in Subscriber |-> inbox'[t]]
    BY DEF Broadcast
  <1> HIDE DEF kept
  <1>7. CASE ~inbox[s].on
    BY <1>1, <1>5, <1>6, <1>7
  <1>8. CASE inbox[s].on
    <2>1. inbox'[s] = [on |-> inbox[s].on, items |-> Append(kept, ReportedBy(s)),
                       owed |-> inbox[s].owed + 1]
      BY <1>1, <1>5, <1>8 DEF Inboxes
    <2> QED
      BY <1>1, <1>2, <1>4, <1>6, <2>1 DEF Inboxes
  <1> QED
    BY <1>7, <1>8

LEMMA EvictingCounted == Cardinality(Evicting) \in Nat
  <1>1. IsFiniteSet(Evicting)
    BY SubscriberAssumption, FS_Subset DEF Evicting
  <1> QED
    BY <1>1, FS_CardinalityType

LEMMA PublishTypes ==
  ASSUME OutputTypes, NEW fits \in BOOLEAN, Publish(fits) PROVE OutputTypes'
  <1> USE DEF OutputTypes
  <1> DEFINE batch == [mark |-> FALSE, subscriber |-> pending.subscriber,
                       history |-> pending.history]
  <1>1. batch \in Batches
    BY DEF CounterTypes, Drops, Batches
  <1>2. QueueTypes'
    <2>1. CASE Rejected(fits)
      BY <2>1 DEF Publish, QueueTypes
    <2>2. CASE ~Rejected(fits)
      <3>1. queue' = Append(queue, batch) /\ Len(queue) # HistoryQueueBatches
        BY <2>2 DEF Publish, Rejected
      <3> HIDE DEF batch
      <3> QED
        BY <1>1, <3>1, CapacityAssumption DEF QueueTypes
    <2> QED
      BY <2>1, <2>2
  <1>3. InboxTypes'
    BY BroadcastTypes DEF Publish
  <1>4. CounterTypes'
    <2>1. writer' = writer
      BY DEF Publish
    <2>2. historyDrops' \in Nat
      BY DEF Publish, CounterTypes
    <2>3. pending' \in Drops
      BY EvictingCounted DEF Publish, CounterTypes, Drops, NoDrops, DropOf
    <2>4. ledger' \in Ledgers
      <3>1. PICK n \in Nat : ledger' = [ledger EXCEPT !.published = @ + 1,
                 !.evicted = @ + Cardinality(Evicting), !.lost = @ + n]
        BY DEF Publish
      <3>2. ledger' = [published |-> ledger.published + 1, saved |-> ledger.saved,
                       evicted |-> ledger.evicted + Cardinality(Evicting),
                       evidenced |-> ledger.evidenced, lost |-> ledger.lost + n,
                       shown |-> ledger.shown]
        BY <3>1 DEF CounterTypes, Ledgers
      <3> QED
        BY <3>2, EvictingCounted DEF CounterTypes, Ledgers
    <2> QED
      BY <2>1, <2>2, <2>3, <2>4 DEF CounterTypes
  <1> QED
    BY <1>2, <1>3, <1>4

LEMMA WritingTypes == OutputTypes /\ Writing => OutputTypes'
  <1> SUFFICES ASSUME OutputTypes, Writing PROVE OutputTypes'
    OBVIOUS
  <1> USE DEF OutputTypes
  <1>1. CASE WriterTakes
    <2>1. Head(queue) \in Batches /\ QueueTypes'
      BY <1>1, QueueShrinks, CapacityAssumption DEF WriterTakes, QueueTypes
    <2>2. writer' \in Writers
      BY <1>1, <2>1, MarksAreBatches DEF WriterTakes, Writers, Writer
    <2> QED
      BY <1>1, <2>1, <2>2 DEF WriterTakes, CounterTypes, InboxTypes
  <1>2. CASE WriterSaves
    <2>1. writer.batch.subscriber \in Nat /\ writer.batch.history \in Nat
      BY DEF CounterTypes, Writers, Batches
    <2>2. writer' \in Writers
      BY <1>2, MarksAreBatches DEF WriterSaves, Writers, Writer
    <2>3. ledger' \in Ledgers
      <3>1. ledger' = [published |-> ledger.published, saved |-> ledger.saved + 1,
                       evicted |-> ledger.evicted, lost |-> ledger.lost,
                       evidenced |-> ledger.evidenced + writer.batch.subscriber,
                       shown |-> ledger.shown + writer.batch.history]
        BY <1>2 DEF WriterSaves, CounterTypes, Ledgers
      <3> QED
        BY <2>1, <3>1 DEF CounterTypes, Ledgers
    <2> QED
      BY <1>2, <2>2, <2>3 DEF WriterSaves, CounterTypes, InboxTypes, QueueTypes
  <1>3. CASE WriterFails
    <2>1. writer.batch.subscriber \in Nat
      BY DEF CounterTypes, Writers, Batches
    <2>2. writer' \in Writers
      BY <1>3, MarksAreBatches DEF WriterFails, Writers, Writer
    <2>3. ledger' \in Ledgers
      BY <1>3 DEF WriterFails, CounterTypes, Ledgers
    <2>4. pending' \in Drops /\ historyDrops' \in Nat
      BY <1>3, <2>1 DEF WriterFails, CounterTypes, Drops, Sum, DropOf
    <2> QED
      BY <1>3, <2>2, <2>3, <2>4 DEF WriterFails, CounterTypes, InboxTypes, QueueTypes
  <1> QED
    BY <1>1, <1>2, <1>3 DEF Writing

LEMMA StartedTypes == OutputTypes /\ Started => OutputTypes'
  <1> SUFFICES ASSUME OutputTypes, Started PROVE OutputTypes'
    OBVIOUS
  <1>1. writer' \in Writers /\ pending' \in Drops
    BY MarksAreBatches DEF Started, Writers, Writer, Drops, NoDrops
  <1>2. ledger' \in Ledgers
    BY DEF Started, OutputTypes, CounterTypes, Ledgers
  <1> QED
    BY <1>1, <1>2, CapacityAssumption
    DEF Started, OutputTypes, CounterTypes, InboxTypes, QueueTypes

LEMMA RunEndingTypes == OutputTypes /\ RunEnding => OutputTypes'
  <1> SUFFICES ASSUME OutputTypes, RunEnding PROVE OutputTypes'
    OBVIOUS
  <1>1. CASE ProducerEnded
    BY <1>1 DEF ProducerEnded, outputs, OutputTypes, CounterTypes, InboxTypes, QueueTypes
  <1>2. CASE MarkEnd
    <2>1. QueueTypes'
      BY <1>2, MarksAreBatches, CapacityAssumption DEF MarkEnd, OutputTypes, QueueTypes
    <2> QED
      BY <1>2, <2>1 DEF MarkEnd, OutputTypes, CounterTypes, InboxTypes
  <1>3. CASE RunEnded
    <2>1. writer' \in Writers
      BY <1>3, MarksAreBatches DEF RunEnded, Reset, Writers, Writer
    <2>2. InboxTypes'
      <3>1. CASE EndStreams
        BY <3>1, EndStreamsTypes DEF OutputTypes
      <3>2. CASE UNCHANGED inbox
        BY <3>2 DEF OutputTypes, InboxTypes
      <3> QED
        BY <1>3, <3>1, <3>2 DEF RunEnded, Reset
    <2> QED
      BY <1>3, <2>1, <2>2, CapacityAssumption
      DEF RunEnded, Reset, OutputTypes, CounterTypes, QueueTypes
  <1> QED
    BY <1>1, <1>2, <1>3 DEF RunEnding

LEMMA CloseTypes == OutputTypes /\ Close => OutputTypes'
  <1> SUFFICES ASSUME OutputTypes, Close PROVE OutputTypes'
    OBVIOUS
  <1>1. CASE UNCHANGED outputs
    BY <1>1 DEF outputs, OutputTypes, CounterTypes, InboxTypes, QueueTypes
  <1>2. CASE EndStreams /\ UNCHANGED <<queue, writer, pending, historyDrops, ledger>>
    BY <1>2, EndStreamsTypes DEF OutputTypes, CounterTypes, QueueTypes
  <1> QED
    BY <1>1, <1>2 DEF Close

LEMMA StreamingTypes == OutputTypes /\ Streaming => OutputTypes'
  <1> SUFFICES ASSUME OutputTypes, NEW s \in Subscriber,
                      Subscribe(s) \/ Receive(s) \/ Unsubscribe(s)
               PROVE  OutputTypes'
    BY DEF Streaming
  <1> DEFINE box == inbox'[s]
  <1>0. inbox[s] \in Inboxes /\ Len(inbox[s].items) <= SubscriberQueueBatches
    BY DEF OutputTypes, InboxTypes
  <1>1. /\ inbox' = [inbox EXCEPT ![s] = box]
        /\ UNCHANGED <<queue, writer, pending, historyDrops, ledger>>
    BY DEF Subscribe, Receive, Unsubscribe, OutputTypes, InboxTypes
  <1>2. box \in Inboxes /\ Len(box.items) <= SubscriberQueueBatches
    <2>1. CASE Subscribe(s)
      <3>1. box = [on |-> TRUE, owed |-> 0,
                   items |-> IF state = "CLOSED" THEN <<StreamEnd>> ELSE <<>>]
        BY <2>1 DEF Subscribe, OutputTypes, InboxTypes, NoInbox
      <3> QED
        BY <3>1, CapacityAssumption DEF Inboxes, StreamEnd
    <2>2. CASE Unsubscribe(s)
      BY <2>2, CapacityAssumption DEF Unsubscribe, OutputTypes, InboxTypes, Inboxes, NoInbox
    <2>3. CASE Receive(s)
      <3>1. CASE Head(inbox[s].items) = StreamEnd
        <4>1. inbox' = [inbox EXCEPT ![s] = NoInbox]
          BY <2>3, <3>1 DEF Receive, StreamEnd
        <4>2. box = NoInbox
          BY <4>1 DEF OutputTypes, InboxTypes
        <4> HIDE DEF box
        <4> QED
          BY <4>2, CapacityAssumption DEF Inboxes, NoInbox
      <3>2. CASE Head(inbox[s].items) # StreamEnd
        <4>1. inbox[s].items # <<>> /\ inbox[s].items \in Seq(Int) /\ inbox[s].owed \in Int
          BY <1>0, <2>3 DEF Receive, Inboxes
        <4>2. /\ Tail(inbox[s].items) \in Seq(Int) /\ Head(inbox[s].items) \in Int
              /\ Len(Tail(inbox[s].items)) <= SubscriberQueueBatches
          BY <1>0, <4>1, QueueShrinks, CapacityAssumption
        <4>3. inbox' = [inbox EXCEPT ![s] = Taken(s)]
          BY <2>3, <3>2 DEF Receive
        <4>4. box = [on |-> inbox[s].on, items |-> Tail(inbox[s].items),
                     owed |-> inbox[s].owed - 1 - Head(inbox[s].items)]
          <5>1. box = Taken(s)
            BY <4>3 DEF OutputTypes, InboxTypes
          <5> QED
            BY <1>0, <5>1 DEF Taken, Inboxes
        <4> HIDE DEF box
        <4> QED
          BY <1>0, <4>1, <4>2, <4>4 DEF Inboxes
      <3> QED
        BY <3>1, <3>2
    <2> QED
      BY <2>1, <2>2, <2>3
  <1> HIDE DEF box
  <1>3. InboxTypes'
    BY <1>1, <1>2 DEF OutputTypes, InboxTypes
  <1> QED
    BY <1>1, <1>3 DEF OutputTypes, CounterTypes, QueueTypes

LEMMA OutputNext == OutputTypes /\ [Next]_vars => OutputTypes'
  <1> SUFFICES ASSUME OutputTypes, [Next]_vars PROVE OutputTypes'
    OBVIOUS
  <1>1. CASE UNCHANGED outputs
    BY <1>1 DEF outputs, OutputTypes, CounterTypes, InboxTypes, QueueTypes
  <1>2. CASE Cycle
    BY <1>1, <1>2, PublishTypes
    DEF Cycle, StartCycle, GroupHolds, GroupChanged, ReadFails, ReadIsLate, Cancelled
  <1>3. CASE Acting
    BY <1>1, <1>3, StartedTypes DEF Acting, Admitted, Denied, GivenUp, Resumed
  <1>4. CASE Asking
    BY <1>1, <1>4, CloseTypes DEF Asking, Start, Resume, Pause, Stop
  <1>5. CASE UNCHANGED vars
    BY <1>1, <1>5 DEF vars, outputs
  <1> QED
    BY <1>2, <1>3, <1>4, <1>5, WritingTypes, RunEndingTypes, StreamingTypes DEF Next

\* Every variable keeps its type and every queue its capacity.
THEOREM TypeCorrect == Spec => []TypeOK
  <1>1. Spec => []OutputTypes
    BY OutputInit, OutputNext, PTL DEF Spec
  <1>2. ControlInv /\ OutputTypes => TypeOK
    BY DEF ControlInv, ControlTypes, PlanFits, OutputTypes, QueueTypes, InboxTypes,
           CounterTypes, TypeOK
  <1> QED
    BY <1>1, <1>2, ControlInvariant, PTL

\* No batch is published by a cycle that a pause, resume, block, stop or close
\* interrupted at any of its awaits (_produce).
THEOREM PublishedFresh == Spec => OnlyFreshPublished
  <1>1. ASSUME ControlInv, TypeOK, [Next]_vars, ledger'.published # ledger.published
        PROVE  fresh
    <2>1. CASE \E fits \in BOOLEAN : Publish(fits)
      BY <1>1, <2>1 DEF Publish, Stale, ControlInv, EpochsFit
    <2>2. CASE UNCHANGED ledger
      BY <1>1, <2>2
    <2>3. CASE WriterSaves \/ WriterFails \/ Started
      BY <1>1, <2>3 DEF WriterSaves, WriterFails, Started, TypeOK, Ledgers
    <2> QED
      BY <1>1, <2>1, <2>2, <2>3
      DEF Next, vars, outputs, Cycle, Writing, Acting, RunEnding, Asking, Streaming,
          StartCycle, GroupHolds, GroupChanged, ReadFails, ReadIsLate, Cancelled,
          WriterTakes, Admitted, Denied, GivenUp, Resumed, ProducerEnded, MarkEnd,
          RunEnded, Reset, Start, Resume, Pause, Stop, Close, Subscribe, Receive, Unsubscribe
  <1>2. ControlInv /\ TypeOK /\ [Next]_vars => [ledger'.published # ledger.published => fresh]_vars
    BY <1>1
  <1> QED
    BY <1>2, ControlInvariant, TypeCorrect, PTL DEF Spec, OnlyFreshPublished
-----------------------------------------------------------------------------
(* Sums over queues.  SumFunction folds over a set in an order it chooses;  *)
(* the sum of a sequence is the last of its partial sums, whatever order.   *)

LEMMA LeastNumber ==
  ASSUME NEW T, T \subseteq Nat, T # {} PROVE \E n \in T : \A m \in T : n <= m
  <1>1. PICK n \in T : \A m \in T : <<m, n>> \notin OpToRel(<, Nat)
    BY NatLessThanWellFounded, WFMin
  <1>2. ASSUME NEW m \in T PROVE n <= m
    <2>1. <<m, n>> \in Nat \X Nat
      OBVIOUS
    <2>2. ~(m < n)
      BY <1>1, <2>1 DEF OpToRel
    <2> QED
      BY <2>1, <2>2
  <1> QED
    BY <1>2

PartialSums(f, n) ==
    {p \in [0 .. n -> Int] : p[0] = 0 /\ \A i \in 1 .. n : p[i] = p[i - 1] + f[i]}
Total(f, n) == (CHOOSE p : p \in PartialSums(f, n))[n]
Masked(f, n, s) == [i \in 1 .. n |-> IF i \in s THEN f[i] ELSE 0]

LEMMA NothingAdded ==
  ASSUME NEW n \in Nat, NEW d \in [0 .. n -> Int], d[0] = 0,
         \A i \in 1 .. n : d[i] = d[i - 1]
  PROVE  d[n] = 0
  <1> DEFINE T == {i \in 0 .. n : d[i] # 0}
  <1> SUFFICES ASSUME T # {} PROVE FALSE
    OBVIOUS
  <1>1. PICK k \in T : \A m \in T : k <= m
    <2>1. T \subseteq Nat
      OBVIOUS
    <2> HIDE DEF T
    <2> QED
      BY <2>1, LeastNumber
  <1>2. k \in 1 .. n /\ k - 1 \in 0 .. n
    OBVIOUS
  <1>3. k - 1 \notin T
    BY <1>1, <1>2
  <1> QED
    BY <1>2, <1>3

LEMMA SumsExist ==
  ASSUME NEW n \in Nat, NEW f \in [1 .. n -> Int]
  PROVE  \E p : p \in PartialSums(f, n)
  <1> DEFINE T == {k \in 0 .. n : \A p : p \notin PartialSums(f, k)}
  <1> SUFFICES ASSUME T # {} PROVE FALSE
    OBVIOUS
  <1>1. PICK k \in T : \A m \in T : k <= m
    <2>1. T \subseteq Nat
      OBVIOUS
    <2> HIDE DEF T
    <2> QED
      BY <2>1, LeastNumber
  <1>2. k # 0
    <2>1. [i \in 0 .. 0 |-> 0] \in PartialSums(f, 0)
      BY DEF PartialSums
    <2> QED
      BY <2>1
  <1>3. k \in 1 .. n /\ k - 1 \in 0 .. n /\ k - 1 \notin T
    BY <1>1, <1>2
  <1>4. PICK p : p \in PartialSums(f, k - 1)
    BY <1>3
  <1> DEFINE q == [i \in 0 .. k |-> IF i = k THEN p[k - 1] + f[k] ELSE p[i]]
  <1>5. q \in PartialSums(f, k)
    <2>1. p \in [0 .. k - 1 -> Int] /\ p[0] = 0
          /\ \A i \in 1 .. k - 1 : p[i] = p[i - 1] + f[i]
      BY <1>4 DEF PartialSums
    <2>2. q \in [0 .. k -> Int] /\ q[0] = 0
      BY <1>3, <2>1
    <2>3. ASSUME NEW i \in 1 .. k PROVE q[i] = q[i - 1] + f[i]
      BY <1>3, <2>1
    <2> QED
      BY <2>2, <2>3 DEF PartialSums
  <1> QED
    BY <1>1, <1>5

LEMMA TotalIs ==
  ASSUME NEW n \in Nat, NEW f \in [1 .. n -> Int], NEW p \in PartialSums(f, n)
  PROVE  Total(f, n) = p[n] /\ p[n] \in Int
  <1> DEFINE q == CHOOSE r : r \in PartialSums(f, n)
  <1>1. q \in PartialSums(f, n)
    OBVIOUS
  <1>2. Total(f, n) = q[n]
    BY DEF Total
  <1> HIDE DEF q
  <1> DEFINE d == [i \in 0 .. n |-> p[i] - q[i]]
  <1>3. /\ p \in [0 .. n -> Int] /\ q \in [0 .. n -> Int] /\ p[0] = 0 /\ q[0] = 0
        /\ \A i \in 1 .. n : p[i] = p[i - 1] + f[i] /\ q[i] = q[i - 1] + f[i]
    BY <1>1 DEF PartialSums
  <1>4. d \in [0 .. n -> Int] /\ d[0] = 0
    BY <1>3
  <1>5. ASSUME NEW i \in 1 .. n PROVE d[i] = d[i - 1]
    <2>1. i \in 0 .. n /\ i - 1 \in 0 .. n
      OBVIOUS
    <2> QED
      BY <1>3, <2>1
  <1>6. d[n] = 0 /\ d[n] = p[n] - q[n]
    <2>1. d[n] = p[n] - q[n]
      OBVIOUS
    <2> HIDE DEF d
    <2> QED
      BY <1>4, <1>5, <2>1, NothingAdded
  <1> QED
    BY <1>2, <1>3, <1>6

\* Leaving out one index takes its value from the sum.
LEMMA SumWithout ==
  ASSUME NEW n \in Nat, NEW f \in [1 .. n -> Int], NEW s \in SUBSET (1 .. n), NEW x \in s
  PROVE  Total(Masked(f, n, s), n) = f[x] + Total(Masked(f, n, s \ {x}), n)
  <1> DEFINE g == Masked(f, n, s)
             h == Masked(f, n, s \ {x})
  <1>1. g \in [1 .. n -> Int] /\ h \in [1 .. n -> Int]
    BY DEF Masked
  <1>2. \A i \in 1 .. n : g[i] = h[i] + (IF i = x THEN f[x] ELSE 0)
    BY DEF Masked
  <1> HIDE DEF g, h
  <1>3. PICK p : p \in PartialSums(g, n)
    BY <1>1, SumsExist
  <1>4. PICK q : q \in PartialSums(h, n)
    BY <1>1, SumsExist
  <1>5. /\ p \in [0 .. n -> Int] /\ q \in [0 .. n -> Int] /\ p[0] = 0 /\ q[0] = 0
        /\ \A i \in 1 .. n : p[i] = p[i - 1] + g[i] /\ q[i] = q[i - 1] + h[i]
    BY <1>3, <1>4 DEF PartialSums
  <1>6. x \in 1 .. n /\ f[x] \in Int
    OBVIOUS
  <1> DEFINE d == [i \in 0 .. n |-> p[i] - q[i] - (IF i < x THEN 0 ELSE f[x])]
  <1>7. d \in [0 .. n -> Int] /\ d[0] = 0
    <2>1. ASSUME NEW i \in 0 .. n PROVE d[i] \in Int
      <3>1. d[i] = p[i] - q[i] - (IF i < x THEN 0 ELSE f[x])
        OBVIOUS
      <3>2. p[i] \in Int /\ q[i] \in Int
        BY <1>5
      <3> HIDE DEF d
      <3> QED
        BY <1>6, <3>1, <3>2
    <2>2. d[0] = 0
      BY <1>5, <1>6
    <2> QED
      BY <2>1, <2>2
  <1>8. ASSUME NEW i \in 1 .. n PROVE d[i] = d[i - 1]
    <2>1. i \in 0 .. n /\ i - 1 \in 0 .. n
      OBVIOUS
    <2>2. d[i] = p[i] - q[i] - (IF i < x THEN 0 ELSE f[x])
      BY <2>1
    <2>3. d[i - 1] = p[i - 1] - q[i - 1] - (IF i - 1 < x THEN 0 ELSE f[x])
      BY <2>1
    <2>4. p[i] = p[i - 1] + h[i] + (IF i = x THEN f[x] ELSE 0) /\ q[i] = q[i - 1] + h[i]
      <3>1. p[i] = p[i - 1] + g[i] /\ q[i] = q[i - 1] + h[i]
        BY <1>5
      <3>2. g[i] = h[i] + (IF i = x THEN f[x] ELSE 0)
        BY <1>2
      <3>3. p[i - 1] \in Int /\ h[i] \in Int
        BY <1>1, <1>5, <2>1
      <3> QED
        BY <1>6, <3>1, <3>2, <3>3
    <2>5. p[i - 1] \in Int /\ q[i - 1] \in Int /\ h[i] \in Int
      BY <1>1, <1>5, <2>1
    <2> HIDE DEF d
    <2>6. CASE i < x
      BY <1>6, <2>2, <2>3, <2>4, <2>5, <2>6
    <2>7. CASE i = x
      BY <1>6, <2>2, <2>3, <2>4, <2>5, <2>7
    <2>8. CASE i > x
      <3>1. x \in Int /\ i \in Int /\ ~(i < x) /\ ~(i - 1 < x) /\ i # x
        BY <1>6, <2>8
      <3>2. /\ d[i] = p[i] - q[i] - f[x] /\ d[i - 1] = p[i - 1] - q[i - 1] - f[x]
            /\ p[i] = p[i - 1] + h[i] + 0
        BY <2>2, <2>3, <2>4, <3>1
      <3> QED
        BY <1>6, <2>4, <2>5, <3>2
    <2> QED
      BY <1>6, <2>6, <2>7, <2>8
  <1>9. d[n] = p[n] - q[n] - f[x]
    BY <1>6
  <1>10. d[n] = 0
    <2> HIDE DEF d
    <2> QED
      BY <1>7, <1>8, NothingAdded
  <1>11. p[n] \in Int /\ q[n] \in Int
    BY <1>5
  <1>12. Total(g, n) = p[n] /\ Total(h, n) = q[n]
    BY <1>1, <1>3, <1>4, TotalIs
  <1> QED
    BY <1>6, <1>9, <1>10, <1>11, <1>12 DEF g, h

\* What SumFunction computes for a sequence, whatever order it takes.
LEMMA SumIsTotal ==
  ASSUME NEW n \in Nat, NEW f \in [1 .. n -> Int]
  PROVE  SumFunction(f) = Total(f, n)
  <1> DEFINE S == 1 .. n
             Rest(s) == s \ {CHOOSE x \in s : TRUE}
             Step(g) == [s \in SUBSET S |->
                           IF s = {} THEN 0 ELSE f[CHOOSE x \in s : TRUE] + g[Rest(s)]]
             iter == CHOOSE g : g = Step(g)
             h == [s \in SUBSET S |-> Total(Masked(f, n, s), n)]
  <1>1. SumFunction(f) = iter[S]
    BY DEF SumFunction, SumFunctionOnSet, FoldFunctionOnSet, MapThenFoldSet
  <1>2. ASSUME NEW s \in SUBSET S, s # {}
        PROVE  /\ (CHOOSE x \in s : TRUE) \in s
               /\ Rest(s) \in SUBSET S
               /\ h[s] = f[CHOOSE x \in s : TRUE] + h[Rest(s)]
    <2>1. (CHOOSE x \in s : TRUE) \in s
      BY <1>2
    <2>2. Rest(s) \in SUBSET S
      OBVIOUS
    <2>3. Total(Masked(f, n, s), n)
            = f[CHOOSE x \in s : TRUE] + Total(Masked(f, n, Rest(s)), n)
      BY <2>1, SumWithout
    <2>4. h[s] = Total(Masked(f, n, s), n) /\ h[Rest(s)] = Total(Masked(f, n, Rest(s)), n)
      BY <2>2
    <2> QED
      BY <2>1, <2>2, <2>3, <2>4
  <1>3. h[{}] = 0
    <2>1. [i \in 0 .. n |-> 0] \in PartialSums(Masked(f, n, {}), n)
      BY DEF PartialSums, Masked
    <2>2. Masked(f, n, {}) \in [1 .. n -> Int]
      BY DEF Masked
    <2>3. Total(Masked(f, n, {}), n) = 0
      BY <2>1, <2>2, TotalIs
    <2> QED
      BY <2>3
  <1>4. h = Step(h)
    BY <1>2, <1>3
  <1>5. iter = Step(iter)
    BY <1>4
  <1>6. ASSUME NEW s \in SUBSET S PROVE iter[s] = IF s = {} THEN 0 ELSE f[CHOOSE x \in s : TRUE] + iter[Rest(s)]
    BY <1>5
  <1>7. IsFiniteSet(S)
    BY FS_Interval
  <1> HIDE DEF h, iter
  <1> DEFINE T == {Cardinality(s) : s \in {t \in SUBSET S : iter[t] # h[t]}}
  <1>8. T = {}
    <2> SUFFICES ASSUME T # {} PROVE FALSE
      OBVIOUS
    <2>1. T \subseteq Nat
      BY <1>7, FS_Subset, FS_CardinalityType
    <2>2. PICK k \in T : \A m \in T : k <= m
      <3> HIDE DEF T
      <3> QED
        BY <2>1, LeastNumber
    <2>3. PICK s \in SUBSET S : iter[s] # h[s] /\ k = Cardinality(s)
      BY <2>2
    <2>4. s # {}
      BY <1>3, <1>6, <2>3
    <2>5. IsFiniteSet(s) /\ Cardinality(s) \in Nat
      BY <1>7, FS_Subset, FS_CardinalityType
    <2>6. Cardinality(Rest(s)) = Cardinality(s) - 1
      BY <1>2, <2>4, <2>5, FS_RemoveElement
    <2>7. iter[Rest(s)] = h[Rest(s)]
      <3>1. Cardinality(Rest(s)) \notin T
        <4> HIDE DEF T
        <4> QED
          BY <2>2, <2>3, <2>5, <2>6
      <3>2. Rest(s) \in SUBSET S
        OBVIOUS
      <3> QED
        BY <3>1, <3>2
    <2> QED
      BY <1>2, <1>6, <2>3, <2>4, <2>7
  <1>9. iter[S] = h[S]
    BY <1>8
  <1>10. Masked(f, n, S) = f
    BY DEF Masked
  <1> QED
    BY <1>1, <1>9, <1>10 DEF h

\* A queue of numbers: its sum grows and shrinks with it.
LEMMA SumIs ==
  ASSUME NEW items \in Seq(Int), NEW p \in PartialSums(items, Len(items))
  PROVE  SumFunction(items) = p[Len(items)]
  <1>1. items \in [1 .. Len(items) -> Int] /\ Len(items) \in Nat
    OBVIOUS
  <1> QED
    BY <1>1, SumIsTotal, TotalIs

LEMMA SumOfNone == SumFunction(<<>>) = 0
  <1> DEFINE p == [i \in 0 .. 0 |-> 0]
  <1>1. p \in PartialSums(<<>>, 0)
    BY DEF PartialSums
  <1>2. <<>> \in Seq(Int) /\ Len(<<>>) = 0 /\ p[0] = 0
    OBVIOUS
  <1> HIDE DEF p
  <1> QED
    BY <1>1, <1>2, SumIs

LEMMA SumsOf ==
  ASSUME NEW items \in Seq(Int)
  PROVE  /\ \E p : p \in PartialSums(items, Len(items))
         /\ SumFunction(items) \in Int
  <1>1. items \in [1 .. Len(items) -> Int] /\ Len(items) \in Nat
    OBVIOUS
  <1> QED
    BY <1>1, SumIsTotal, TotalIs, SumsExist

LEMMA SumOfMore ==
  ASSUME NEW items \in Seq(Int), NEW x \in Int
  PROVE  SumFunction(Append(items, x)) = SumFunction(items) + x
  <1> DEFINE n == Len(items)
             more == Append(items, x)
  <1>1. PICK p : p \in PartialSums(items, n)
    BY SumsOf
  <1>2. /\ p \in [0 .. n -> Int] /\ p[0] = 0
        /\ \A i \in 1 .. n : p[i] = p[i - 1] + items[i]
    BY <1>1 DEF PartialSums
  <1> DEFINE q == [i \in 0 .. n + 1 |-> IF i = n + 1 THEN p[n] + x ELSE p[i]]
  <1>3. /\ n \in Nat /\ more \in Seq(Int) /\ Len(more) = n + 1 /\ more[n + 1] = x
        /\ \A i \in 1 .. n : more[i] = items[i]
    OBVIOUS
  <1> HIDE DEF n, more
  <1>4. q \in PartialSums(more, n + 1)
    <2>1. p[n] \in Int
      BY <1>2, <1>3
    <2>2. ASSUME NEW i \in 0 .. n + 1 PROVE q[i] \in Int
      BY <1>2, <1>3, <2>1
    <2>3. q[0] = 0
      BY <1>2, <1>3
    <2>4. ASSUME NEW i \in 1 .. n + 1 PROVE q[i] = q[i - 1] + more[i]
      <3>1. CASE i = n + 1
        BY <1>3, <3>1
      <3>2. CASE i # n + 1
        <4>1. i \in 1 .. n /\ i - 1 \in 0 .. n
          BY <1>3, <3>2
        <4> QED
          BY <1>2, <1>3, <4>1
      <3> QED
        BY <3>1, <3>2
    <2> QED
      BY <2>2, <2>3, <2>4 DEF PartialSums
  <1>5. q[n + 1] = p[n] + x
    BY <1>3
  <1> HIDE DEF q
  <1> QED
    BY <1>1, <1>3, <1>4, <1>5, SumIs DEF n, more

LEMMA SumOfLess ==
  ASSUME NEW items \in Seq(Int), items # <<>>
  PROVE  SumFunction(items) = Head(items) + SumFunction(Tail(items))
  <1> DEFINE n == Len(items) - 1
             less == Tail(items)
             x == Head(items)
  <1>1. /\ n \in Nat /\ less \in Seq(Int) /\ Len(less) = n /\ Len(items) = n + 1
        /\ x \in Int /\ items[1] = x /\ \A i \in 1 .. n : less[i] = items[i + 1]
    OBVIOUS
  <1>2. PICK p : p \in PartialSums(less, n)
    BY <1>1, SumsOf
  <1> HIDE DEF n, less, x
  <1>3. /\ p \in [0 .. n -> Int] /\ p[0] = 0
        /\ \A i \in 1 .. n : p[i] = p[i - 1] + less[i]
    BY <1>2 DEF PartialSums
  <1> DEFINE q == [i \in 0 .. n + 1 |-> IF i = 0 THEN 0 ELSE x + p[i - 1]]
  <1>4. q \in PartialSums(items, n + 1)
    <2>1. ASSUME NEW i \in 0 .. n + 1 PROVE q[i] \in Int
      <3>1. CASE i = 0
        BY <3>1
      <3>2. CASE i # 0
        <4>1. i - 1 \in 0 .. n
          BY <1>1, <3>2
        <4> QED
          BY <1>1, <1>3, <3>2, <4>1
      <3> QED
        BY <3>1, <3>2
    <2>2. q[0] = 0
      BY <1>1
    <2>3. ASSUME NEW i \in 1 .. n + 1 PROVE q[i] = q[i - 1] + items[i]
      <3>1. CASE i = 1
        BY <1>1, <1>3, <3>1
      <3>2. CASE i # 1
        <4>1. i - 1 \in 1 .. n /\ i - 1 \in 0 .. n /\ i - 2 \in 0 .. n
          BY <1>1, <3>2
        <4>2. p[i - 1] = p[i - 2] + items[i]
          <5>1. p[i - 1] = p[(i - 1) - 1] + less[i - 1]
            BY <1>3, <4>1
          <5>2. less[i - 1] = items[(i - 1) + 1]
            BY <1>1, <4>1
          <5>3. (i - 1) - 1 = i - 2 /\ (i - 1) + 1 = i
            OBVIOUS
          <5> QED
            BY <5>1, <5>2, <5>3
        <4>3. q[i] = x + p[i - 1] /\ q[i - 1] = x + p[i - 2]
          BY <1>1, <3>2, <4>1
        <4>4. p[i - 2] \in Int /\ items[i] \in Int
          BY <1>1, <1>3, <4>1
        <4> HIDE DEF q
        <4> QED
          BY <1>1, <4>2, <4>3, <4>4
      <3> QED
        BY <3>1, <3>2
    <2> QED
      BY <2>1, <2>2, <2>3 DEF PartialSums
  <1>5. q[n + 1] = x + p[n]
    BY <1>1
  <1> HIDE DEF q
  <1> QED
    BY <1>1, <1>2, <1>4, <1>5, SumIs DEF n, less, x

LEMMA SumOfNaturals ==
  ASSUME NEW items \in Seq(Nat) PROVE SumFunction(items) \in Nat
  <1> DEFINE n == Len(items)
  <1>1. items \in Seq(Int) /\ n \in Nat /\ \A i \in 1 .. n : items[i] \in Nat
    OBVIOUS
  <1>2. PICK p : p \in PartialSums(items, n)
    BY <1>1, SumsOf
  <1>3. /\ p \in [0 .. n -> Int] /\ p[0] = 0
        /\ \A i \in 1 .. n : p[i] = p[i - 1] + items[i]
    BY <1>2 DEF PartialSums
  <1>4. SumFunction(items) = p[n]
    BY <1>1, <1>2, SumIs
  <1> HIDE DEF n
  <1> DEFINE T == {i \in 0 .. n : p[i] < 0}
  <1>5. T = {}
    <2> SUFFICES ASSUME T # {} PROVE FALSE
      OBVIOUS
    <2>1. PICK k \in T : \A m \in T : k <= m
      <3>1. T \subseteq Nat
        BY <1>1
      <3> HIDE DEF T
      <3> QED
        BY <3>1, LeastNumber
    <2>2. k \in 1 .. n /\ k - 1 \in 0 .. n
      BY <1>1, <1>3
    <2>3. k - 1 \notin T
      BY <2>1, <2>2
    <2>4. p[k - 1] \in Int /\ p[k - 1] >= 0 /\ items[k] \in Nat
      BY <1>1, <1>3, <2>2, <2>3
    <2>5. p[k] = p[k - 1] + items[k] /\ p[k] < 0
      BY <1>3, <2>1, <2>2
    <2> HIDE DEF T
    <2> QED
      BY <2>4, <2>5
  <1>6. n \in 0 .. n /\ p[n] \in Int
    BY <1>1, <1>3
  <1> QED
    BY <1>4, <1>5, <1>6


\* A run that is over leaves nothing queued and no writer behind.
NothingLeft == state \in {"IDLE", "CLOSED"} => queue = <<>> /\ writer.at = "none"

\* The producer is gone before the mark is put.
ProducerGone == Ending /\ action.at \in {"mark", "writer"} => ~Alive

\* The mark is the last of the queue, and the writer is done once it took it.
MarkPut == Ending /\ action.at = "writer"
MarkIsLast ==
    /\ \A i \in 1 .. Len(queue) : queue[i].mark => MarkPut /\ i = Len(queue) /\ queue[i] = HistoryEnd
    /\ MarkPut /\ writer.at # "done" => queue # <<>> /\ queue[Len(queue)].mark
    /\ writer.at = "done" => MarkPut /\ queue = <<>>

\* The writer holds a batch only while it appends it.
WriterHolds == writer.at # "appending" => writer.batch = NoBatch

RunShape == NothingLeft /\ ProducerGone /\ MarkIsLast /\ WriterHolds

\* Nothing is saved, lost or forgotten at the end of a run: its shape.
LEMMA ShapeInit == Init => RunShape
  BY DEF Init, RunShape, NothingLeft, ProducerGone, MarkIsLast, MarkPut, WriterHolds, Writer

\* Steps that leave the queue and the writer alone.
LEMMA QuietShape ==
  ASSUME RunShape, UNCHANGED <<queue, writer>>, MarkPut' <=> MarkPut, ProducerGone',
         state' \in {"IDLE", "CLOSED"} => state \in {"IDLE", "CLOSED"}
  PROVE  RunShape'
  <1>1. NothingLeft'
    BY DEF RunShape, NothingLeft
  <1>2. MarkIsLast'
    BY DEF RunShape, MarkIsLast
  <1>3. WriterHolds'
    BY DEF RunShape, WriterHolds
  <1> QED
    BY <1>1, <1>2, <1>3 DEF RunShape

LEMMA CycleShape ==
  ASSUME ControlInv, RunShape, Cycle, UNCHANGED queue PROVE RunShape'
  <1>1. /\ UNCHANGED <<writer, action>>
        /\ Alive' => Alive
        /\ state' \in {"IDLE", "CLOSED"} => state \in {"IDLE", "CLOSED"}
    BY DEF Cycle, StartCycle, GroupHolds, GroupChanged, ReadFails, ReadIsLate, Cancelled,
           Publish, Block, Again, Dies, control, outputs
  <1>2. ProducerGone'
    BY <1>1 DEF RunShape, ProducerGone
  <1>3. MarkPut' <=> MarkPut
    BY <1>1 DEF MarkPut
  <1> QED
    BY <1>1, <1>2, <1>3, QuietShape

\* A run that publishes is not ending: no mark is queued, and none is put.
LEMMA PublishShape ==
  ASSUME ControlInv, RunShape, OutputTypes, NEW fits \in BOOLEAN, Publish(fits)
  PROVE  RunShape'
  <1>1. CASE UNCHANGED queue
    BY <1>1, CycleShape DEF Cycle
  <1>2. CASE queue' # queue
    <2> DEFINE batch == [mark |-> FALSE, subscriber |-> pending.subscriber,
                         history |-> pending.history]
    <2>1. queue' = Append(queue, batch) /\ UNCHANGED <<writer, state, action>>
      BY <1>2 DEF Publish, control
    <2>2. state = "RUNNING" /\ Alive /\ ~producer.cancelled
      BY DEF Publish, Stale
    <2>3. ~Ending
      BY <2>2 DEF ControlInv, ProducerFits
    <2>4. ~MarkPut /\ ~MarkPut' /\ ProducerGone'
      BY <2>1, <2>3 DEF MarkPut, ProducerGone
    <2>5. NothingLeft' /\ WriterHolds'
      BY <2>1, <2>2 DEF NothingLeft, WriterHolds, RunShape
    <2>6. \A i \in 1 .. Len(queue) : ~queue[i].mark
      BY <2>4 DEF RunShape, MarkIsLast
    <2>7. writer.at # "done"
      BY <2>4 DEF RunShape, MarkIsLast
    <2>8. ~batch.mark
      OBVIOUS
    <2> HIDE DEF batch
    <2>9. \A i \in 1 .. Len(queue') : ~queue'[i].mark
      BY <2>1, <2>6, <2>8 DEF OutputTypes, QueueTypes
    <2>10. MarkIsLast'
      BY <2>1, <2>4, <2>7, <2>9 DEF MarkIsLast
    <2> QED
      BY <2>4, <2>5, <2>10 DEF RunShape
  <1> QED
    BY <1>1, <1>2

LEMMA WritingShape ==
  ASSUME ControlInv, RunShape, OutputTypes, Writing PROVE RunShape'
  <1>1. UNCHANGED <<state, action, producer>>
    BY DEF Writing, WriterTakes, WriterSaves, WriterFails, control
  <1>2. ProducerGone' /\ (MarkPut' <=> MarkPut)
    BY <1>1 DEF RunShape, ProducerGone, MarkPut
  <1>3. WriterHolds'
    BY DEF Writing, WriterTakes, WriterSaves, WriterFails, WriterHolds, Writer
  <1>4. CASE WriterTakes
    <2>1. queue \in Seq(Batches) /\ queue # <<>> /\ queue' = Tail(queue) /\ writer.at = "idle"
      BY <1>4 DEF WriterTakes, OutputTypes, QueueTypes
    <2>2. state \notin {"IDLE", "CLOSED"}
      BY <2>1 DEF RunShape, NothingLeft
    <2>3. /\ Len(queue') = Len(queue) - 1 /\ Len(queue) > 0
          /\ \A i \in 1 .. Len(queue') : queue'[i] = queue[i + 1]
          /\ Head(queue) = queue[1] /\ (queue' = <<>> <=> Len(queue) = 1)
      <3>1. /\ queue' \in Seq(Batches) /\ Len(queue') = Len(queue) - 1 /\ Len(queue) > 0
            /\ \A i \in 1 .. Len(queue') : queue'[i] = queue[i + 1]
            /\ Head(queue) = queue[1]
        BY <2>1
      <3>2. queue' = <<>> <=> Len(queue') = 0
        BY <3>1
      <3> QED
        BY <2>1, <3>1, <3>2
    <2>4. writer'.at = IF queue[1].mark THEN "done" ELSE "appending"
      BY <1>4, <2>3 DEF WriterTakes, Writer
    <2>5. MarkIsLast'
      <3>1. ASSUME NEW i \in 1 .. Len(queue'), queue'[i].mark
            PROVE  MarkPut' /\ i = Len(queue') /\ queue'[i] = HistoryEnd
        <4>1. i + 1 \in 1 .. Len(queue) /\ queue[i + 1].mark
          BY <2>3, <3>1
        <4>2. MarkPut /\ i + 1 = Len(queue) /\ queue[i + 1] = HistoryEnd
          BY <4>1 DEF RunShape, MarkIsLast
        <4> QED
          BY <1>2, <2>3, <4>2
      <3>2. ASSUME MarkPut', writer'.at # "done" PROVE queue' # <<>> /\ queue'[Len(queue')].mark
        <4>1. queue[Len(queue)].mark /\ ~queue[1].mark
          BY <1>2, <2>1, <2>4, <3>2 DEF RunShape, MarkIsLast
        <4>2. Len(queue) # 1
          BY <4>1
        <4>3. Len(queue') \in 1 .. Len(queue') /\ Len(queue') + 1 = Len(queue)
          BY <2>3, <4>2
        <4> QED
          BY <2>3, <4>1, <4>2, <4>3
      <3>3. ASSUME writer'.at = "done" PROVE MarkPut' /\ queue' = <<>>
        <4>1. queue[1].mark /\ 1 \in 1 .. Len(queue)
          BY <2>3, <2>4, <3>3
        <4>2. MarkPut /\ Len(queue) = 1
          BY <4>1 DEF RunShape, MarkIsLast
        <4> QED
          BY <1>2, <2>3, <4>2
      <3> QED
        BY <3>1, <3>2, <3>3 DEF MarkIsLast
    <2>6. NothingLeft'
      BY <1>1, <2>2 DEF NothingLeft
    <2> QED
      BY <1>2, <1>3, <2>5, <2>6 DEF RunShape
  <1>5. CASE WriterSaves \/ WriterFails
    <2>1. writer.at = "appending" /\ writer'.at = "idle" /\ queue' = queue
      BY <1>5 DEF WriterSaves, WriterFails, Writer
    <2>2. NothingLeft' /\ MarkIsLast'
      BY <1>1, <1>2, <2>1 DEF RunShape, NothingLeft, MarkIsLast
    <2> QED
      BY <1>2, <1>3, <2>2 DEF RunShape
  <1> QED
    BY <1>4, <1>5 DEF Writing

LEMMA ActingShape == ASSUME ControlInv, RunShape, Acting PROVE RunShape'
  <1>1. ~MarkPut /\ ~MarkPut' /\ ProducerGone'
    BY DEF ControlInv, ControlTypes, Acting, Admitted, Denied, GivenUp, Started, Resumed,
           MarkPut, ProducerGone
  <1>2. CASE Started
    <2>1. queue' = <<>> /\ writer' = Writer("idle") /\ state' = "RUNNING"
      BY <1>2 DEF Started
    <2> QED
      BY <1>1, <2>1 DEF RunShape, NothingLeft, MarkIsLast, WriterHolds, Writer
  <1>3. CASE UNCHANGED <<queue, writer>>
    <2>1. state' \in {"IDLE", "CLOSED"} => state \in {"IDLE", "CLOSED"}
      BY DEF Acting, Admitted, Denied, GivenUp, Started, Resumed, Block
    <2> QED
      BY <1>1, <1>3, <2>1, QuietShape
  <1> QED
    BY <1>2, <1>3 DEF Acting, Admitted, Denied, GivenUp, Resumed, outputs

LEMMA AskingShape == ASSUME ControlInv, RunShape, Asking PROVE RunShape'
  <1>1. /\ UNCHANGED <<queue, writer>>
        /\ state' \in {"IDLE", "CLOSED"} => state \in {"IDLE", "CLOSED"}
    BY DEF Asking, Start, Resume, Pause, Stop, Close, EndRun, outputs
  <1>2. ~MarkPut /\ ~MarkPut' /\ ProducerGone'
    BY DEF Asking, Start, Resume, Pause, Stop, Close, EndRun, MarkPut, ProducerGone
  <1> QED
    BY <1>1, <1>2, QuietShape

LEMMA RunEndingShape ==
  ASSUME ControlInv, RunShape, OutputTypes, RunEnding PROVE RunShape'
  <1>1. CASE ProducerEnded
    <2>1. ~MarkPut /\ ~MarkPut' /\ ProducerGone' /\ UNCHANGED <<queue, writer, state>>
      BY <1>1 DEF ControlInv, ControlTypes, ProducerEnded, MarkPut, ProducerGone, outputs
    <2> QED
      BY <2>1, QuietShape
  <1>2. CASE MarkEnd
    <2>1. ~MarkPut /\ MarkPut' /\ ProducerGone' /\ UNCHANGED <<writer, state>>
      BY <1>2 DEF ControlInv, ControlTypes, MarkEnd, RunShape, MarkPut, ProducerGone
    <2>2. queue \in Seq(Batches) /\ queue' = Append(queue, HistoryEnd) /\ HistoryEnd.mark
      BY <1>2 DEF MarkEnd, OutputTypes, QueueTypes, HistoryEnd
    <2>3. state \notin {"IDLE", "CLOSED"}
      BY <1>2 DEF MarkEnd, ControlInv, ActionFits
    <2>4. writer.at # "done" /\ \A i \in 1 .. Len(queue) : ~queue[i].mark
      BY <2>1 DEF RunShape, MarkIsLast
    <2>5. /\ Len(queue') = Len(queue) + 1 /\ queue'[Len(queue) + 1] = HistoryEnd
          /\ \A i \in 1 .. Len(queue) : queue'[i] = queue[i]
          /\ queue' # <<>> /\ Len(queue) \in Nat
      BY <2>2
    <2>6. MarkIsLast'
      BY <2>1, <2>2, <2>4, <2>5 DEF MarkIsLast
    <2> QED
      BY <2>1, <2>3, <2>6 DEF RunShape, NothingLeft, WriterHolds
  <1>3. CASE RunEnded
    <2>1. /\ queue' = <<>> /\ writer' = Writer("none") /\ producer' = Producer("none")
          /\ action' = NoAction
      BY <1>3 DEF RunEnded, Reset
    <2> QED
      BY <2>1 DEF RunShape, NothingLeft, ProducerGone, MarkIsLast, MarkPut, WriterHolds, Writer
  <1> QED
    BY <1>1, <1>2, <1>3 DEF RunEnding

LEMMA ShapeNext == ControlInv /\ OutputTypes /\ RunShape /\ [Next]_vars => RunShape'
  <1> SUFFICES ASSUME ControlInv, OutputTypes, RunShape, [Next]_vars PROVE RunShape'
    OBVIOUS
  <1>1. CASE Cycle
    <2>1. CASE \E fits \in BOOLEAN : Publish(fits)
      BY <2>1, PublishShape
    <2>2. CASE UNCHANGED outputs
      BY <1>1, <2>2, CycleShape DEF outputs
    <2> QED
      BY <1>1, <2>1, <2>2
      DEF Cycle, StartCycle, GroupHolds, GroupChanged, ReadFails, ReadIsLate, Cancelled
  <1>2. CASE Streaming \/ UNCHANGED vars
    <2>1. UNCHANGED <<queue, writer, state, action, producer>>
      BY <1>2 DEF Streaming, Subscribe, Receive, Unsubscribe, vars, outputs, control
    <2>2. (MarkPut' <=> MarkPut) /\ ProducerGone'
      BY <2>1 DEF MarkPut, ProducerGone, RunShape
    <2> QED
      BY <2>1, <2>2, QuietShape
  <1> QED
    BY <1>1, <1>2, WritingShape, ActingShape, AskingShape, RunEndingShape DEF Next

-----------------------------------------------------------------------------
(* What is counted over the queue to the history. *)

\* The numbers that a sum over a queue of S adds up.
Values(items, g) == [i \in DOMAIN items |-> g[items[i]]]

LEMMA SeqEqual ==
  ASSUME NEW S, NEW p \in Seq(S), NEW q \in Seq(S), Len(p) = Len(q),
         \A i \in 1 .. Len(p) : p[i] = q[i]
  PROVE  p = q
  OBVIOUS

LEMMA ValuesFollow ==
  ASSUME NEW S, NEW g \in [S -> Int], NEW items \in Seq(S)
  PROVE  /\ Values(items, g) \in Seq(Int)
         /\ \A x \in S : Values(Append(items, x), g) = Append(Values(items, g), g[x])
         /\ items # <<>> => /\ Values(items, g) # <<>>
                            /\ Head(Values(items, g)) = g[Head(items)]
                            /\ Tail(Values(items, g)) = Values(Tail(items), g)
  <1>1. /\ DOMAIN items = 1 .. Len(items) /\ Len(items) \in Nat
        /\ \A i \in 1 .. Len(items) : items[i] \in S
    OBVIOUS
  <1>2. Values(items, g) \in Seq(Int) /\ Len(Values(items, g)) = Len(items)
    BY <1>1 DEF Values
  <1>3. ASSUME NEW x \in S
        PROVE  Values(Append(items, x), g) = Append(Values(items, g), g[x])
    <2> DEFINE new == Values(Append(items, x), g)
               old == Append(Values(items, g), g[x])
    <2>1. Append(items, x) \in Seq(S) /\ Len(Append(items, x)) = Len(items) + 1
      OBVIOUS
    <2>2. new \in Seq(Int) /\ Len(new) = Len(items) + 1
      BY <2>1 DEF Values
    <2>3. g[x] \in Int /\ old \in Seq(Int) /\ Len(old) = Len(items) + 1
      BY <1>2
    <2>4. ASSUME NEW i \in 1 .. Len(items) + 1 PROVE new[i] = old[i]
      <3>1. CASE i \in 1 .. Len(items)
        BY <1>1, <1>2, <2>1, <3>1 DEF Values
      <3>2. CASE i = Len(items) + 1
        BY <1>1, <1>2, <2>1, <3>2 DEF Values
      <3>3. i \in 1 .. Len(items) \/ i = Len(items) + 1
        BY <1>1
      <3> HIDE DEF new, old
      <3> QED
        BY <3>1, <3>2, <3>3
    <2> HIDE DEF new, old
    <2>5. Len(new) = Len(old) /\ \A i \in 1 .. Len(new) : new[i] = old[i]
      BY <2>2, <2>3, <2>4
    <2>6. new = old
      <3>1. new \in Seq(Int) /\ old \in Seq(Int)
        BY <2>2, <2>3
      <3> QED
        BY <2>5, <3>1, SeqEqual
    <2> QED
      BY <2>6 DEF new, old
  <1>4. ASSUME items # <<>>
        PROVE  /\ Values(items, g) # <<>>
               /\ Head(Values(items, g)) = g[Head(items)]
               /\ Tail(Values(items, g)) = Values(Tail(items), g)
    <2> DEFINE new == Tail(Values(items, g))
               old == Values(Tail(items), g)
    <2>1. /\ Tail(items) \in Seq(S) /\ Len(Tail(items)) = Len(items) - 1 /\ Len(items) > 0
          /\ \A i \in 1 .. Len(items) - 1 : Tail(items)[i] = items[i + 1]
      BY <1>4
    <2>2. old \in Seq(Int) /\ Len(old) = Len(items) - 1
          /\ \A i \in 1 .. Len(items) - 1 : old[i] = g[items[i + 1]]
      BY <2>1 DEF Values
    <2>3. Values(items, g) # <<>>
      BY <1>2, <2>1
    <2>4. /\ new \in Seq(Int) /\ Len(new) = Len(items) - 1
          /\ \A i \in 1 .. Len(items) - 1 : new[i] = Values(items, g)[i + 1]
      BY <1>2, <2>3
    <2>5. \A i \in 1 .. Len(items) - 1 : Values(items, g)[i + 1] = g[items[i + 1]]
      BY <1>1 DEF Values
    <2>6. Head(Values(items, g)) = g[Head(items)]
      BY <1>1, <1>2, <2>1 DEF Values
    <2> HIDE DEF new, old
    <2>7. Len(new) = Len(old) /\ \A i \in 1 .. Len(new) : new[i] = old[i]
      BY <2>2, <2>4, <2>5
    <2>8. new = old
      <3>1. new \in Seq(Int) /\ old \in Seq(Int)
        BY <2>2, <2>4
      <3> QED
        BY <2>7, <3>1, SeqEqual
    <2> QED
      BY <2>3, <2>6, <2>8 DEF new, old
  <1> QED
    BY <1>2, <1>3, <1>4

LEMMA QueueSums ==
  ASSUME NEW S, NEW g \in [S -> Int], NEW items \in Seq(S)
  PROVE  /\ SumFunction(Values(<<>>, g)) = 0
         /\ SumFunction(Values(items, g)) \in Int
         /\ \A x \in S : SumFunction(Values(Append(items, x), g))
                           = SumFunction(Values(items, g)) + g[x]
         /\ items # <<>> => SumFunction(Values(items, g))
                              = g[Head(items)] + SumFunction(Values(Tail(items), g))
  <1>1. Values(<<>>, g) = <<>>
    BY DEF Values
  <1>2. Values(items, g) \in Seq(Int)
    BY ValuesFollow
  <1>3. ASSUME NEW x \in S
        PROVE  SumFunction(Values(Append(items, x), g)) = SumFunction(Values(items, g)) + g[x]
    <2>1. Values(Append(items, x), g) = Append(Values(items, g), g[x])
      BY ValuesFollow
    <2> QED
      BY <1>2, <2>1, SumOfMore
  <1>4. ASSUME items # <<>>
        PROVE  SumFunction(Values(items, g)) = g[Head(items)] + SumFunction(Values(Tail(items), g))
    BY <1>2, <1>4, ValuesFollow, SumOfLess
  <1> QED
    BY <1>1, <1>2, <1>3, <1>4, SumOfNone, SumsOf

LEMMA ReportedSums ==
  ASSUME NEW items \in Seq(Batches)
  PROVE  /\ Reported(<<>>) = 0 /\ Reported(items) \in Int
         /\ \A x \in Batches : Reported(Append(items, x)) = Reported(items) + x.subscriber
         /\ items # <<>> => Reported(items) = Head(items).subscriber + Reported(Tail(items))
  <1> DEFINE g == [b \in Batches |-> b.subscriber]
  <1>1. g \in [Batches -> Int]
    BY DEF Batches
  <1>2. ASSUME NEW q \in Seq(Batches) PROVE Reported(q) = SumFunction(Values(q, g))
    <2>1. \A i \in DOMAIN q : g[q[i]] = q[i].subscriber
      OBVIOUS
    <2>2. Values(q, g) = [i \in DOMAIN q |-> q[i].subscriber]
      BY <2>1 DEF Values
    <2> QED
      BY <2>2 DEF Reported
  <1>3. \A x \in Batches : g[x] = x.subscriber /\ Append(items, x) \in Seq(Batches)
    OBVIOUS
  <1>4. items # <<>> => Head(items) \in Batches /\ Tail(items) \in Seq(Batches)
    OBVIOUS
  <1>5. <<>> \in Seq(Batches)
    OBVIOUS
  <1> HIDE DEF g
  <1>7. /\ SumFunction(Values(<<>>, g)) = 0
        /\ SumFunction(Values(items, g)) \in Int
        /\ \A x \in Batches : SumFunction(Values(Append(items, x), g))
                                = SumFunction(Values(items, g)) + g[x]
        /\ items # <<>> => SumFunction(Values(items, g))
                             = g[Head(items)] + SumFunction(Values(Tail(items), g))
    BY <1>1, QueueSums
  <1> QED
    BY <1>2, <1>3, <1>4, <1>5, <1>7

LEMMA CountedSums ==
  ASSUME NEW items \in Seq(Batches)
  PROVE  /\ Counted(<<>>) = 0 /\ Counted(items) \in Int
         /\ \A x \in Batches : Counted(Append(items, x)) = Counted(items) + (IF x.mark THEN 0 ELSE 1)
         /\ items # <<>> => Counted(items) = (IF Head(items).mark THEN 0 ELSE 1) + Counted(Tail(items))
  <1> DEFINE g == [b \in Batches |-> IF b.mark THEN 0 ELSE 1]
  <1>1. g \in [Batches -> Int]
    BY DEF Batches
  <1>2. ASSUME NEW q \in Seq(Batches) PROVE Counted(q) = SumFunction(Values(q, g))
    <2>1. \A i \in DOMAIN q : g[q[i]] = (IF q[i].mark THEN 0 ELSE 1)
      OBVIOUS
    <2>2. Values(q, g) = [i \in DOMAIN q |-> IF q[i].mark THEN 0 ELSE 1]
      BY <2>1 DEF Values
    <2> QED
      BY <2>2 DEF Counted
  <1>3. \A x \in Batches : g[x] = (IF x.mark THEN 0 ELSE 1) /\ Append(items, x) \in Seq(Batches)
    OBVIOUS
  <1>4. items # <<>> => Head(items) \in Batches /\ Tail(items) \in Seq(Batches)
    OBVIOUS
  <1>5. <<>> \in Seq(Batches)
    OBVIOUS
  <1> HIDE DEF g
  <1>7. /\ SumFunction(Values(<<>>, g)) = 0
        /\ SumFunction(Values(items, g)) \in Int
        /\ \A x \in Batches : SumFunction(Values(Append(items, x), g))
                                = SumFunction(Values(items, g)) + g[x]
        /\ items # <<>> => SumFunction(Values(items, g))
                             = g[Head(items)] + SumFunction(Values(Tail(items), g))
    BY <1>1, QueueSums
  <1> QED
    BY <1>2, <1>3, <1>4, <1>5, <1>7

LEMMA ShownSums ==
  ASSUME NEW items \in Seq(Batches)
  PROVE  /\ Shown(<<>>) = 0 /\ Shown(items) \in Nat
         /\ \A x \in Batches : Shown(Append(items, x)) = Shown(items) + x.history
         /\ items # <<>> => Shown(items) = Head(items).history + Shown(Tail(items))
  <1> DEFINE g == [b \in Batches |-> b.history]
  <1>1. g \in [Batches -> Int]
    BY DEF Batches
  <1>2. ASSUME NEW q \in Seq(Batches) PROVE Shown(q) = SumFunction(Values(q, g))
    <2>1. \A i \in DOMAIN q : g[q[i]] = q[i].history
      OBVIOUS
    <2>2. Values(q, g) = [i \in DOMAIN q |-> q[i].history]
      BY <2>1 DEF Values
    <2> QED
      BY <2>2 DEF Shown
  <1>3. \A x \in Batches : g[x] = x.history /\ Append(items, x) \in Seq(Batches)
    OBVIOUS
  <1>4. items # <<>> => Head(items) \in Batches /\ Tail(items) \in Seq(Batches)
    OBVIOUS
  <1>5. <<>> \in Seq(Batches)
    OBVIOUS
  <1>6. Shown(items) \in Nat
    <2>1. Values(items, g) \in Seq(Nat)
      <3>1. \A b \in Batches : g[b] \in Nat
        BY DEF Batches
      <3>2. DOMAIN items = 1 .. Len(items) /\ Len(items) \in Nat
        OBVIOUS
      <3> HIDE DEF g
      <3> QED
        BY <3>1, <3>2 DEF Values
    <2> HIDE DEF g
    <2> QED
      BY <1>2, <2>1, SumOfNaturals
  <1> HIDE DEF g
  <1>7. /\ SumFunction(Values(<<>>, g)) = 0
        /\ \A x \in Batches : SumFunction(Values(Append(items, x), g))
                                = SumFunction(Values(items, g)) + g[x]
        /\ items # <<>> => SumFunction(Values(items, g))
                             = g[Head(items)] + SumFunction(Values(Tail(items), g))
    BY <1>1, QueueSums
  <1> QED
    BY <1>2, <1>3, <1>4, <1>5, <1>6, <1>7

-----------------------------------------------------------------------------
(* No loss is forgotten. *)

Losses == BatchesAccounted /\ EvictionsEvidenced /\ LossEvident

LEMMA LossesInit == Init => Losses
  <1> SUFFICES ASSUME Init PROVE Losses
    OBVIOUS
  <1>1. <<>> \in Seq(Batches)
    OBVIOUS
  <1>2. Counted(queue) = 0 /\ Reported(queue) = 0 /\ Shown(queue) = 0
    BY <1>1, CountedSums, ReportedSums, ShownSums DEF Init
  <1> QED
    BY <1>2 DEF Init, Losses, BatchesAccounted, EvictionsEvidenced, LossEvident, Underway,
                Writer, NoBatch, NoDrops

\* The numbers of a well-typed state.
LEMMA NumbersOf ==
  ASSUME OutputTypes
  PROVE  /\ queue \in Seq(Batches)
         /\ writer.batch \in Batches /\ pending \in Drops /\ ledger \in Ledgers
         /\ historyDrops \in Nat
         /\ writer.batch.subscriber \in Nat /\ writer.batch.history \in Nat
         /\ pending.subscriber \in Nat /\ pending.history \in Nat
         /\ ledger.published \in Nat /\ ledger.saved \in Nat /\ ledger.evicted \in Nat
         /\ ledger.evidenced \in Nat /\ ledger.lost \in Nat /\ ledger.shown \in Nat
         /\ Counted(queue) \in Int /\ Reported(queue) \in Int /\ Shown(queue) \in Nat
  <1>1. queue \in Seq(Batches)
    BY DEF OutputTypes, QueueTypes
  <1>2. Counted(queue) \in Int /\ Reported(queue) \in Int /\ Shown(queue) \in Nat
    BY <1>1, CountedSums, ReportedSums, ShownSums
  <1> QED
    BY <1>1, <1>2 DEF OutputTypes, CounterTypes, Writers, Batches, Drops, Ledgers

LEMMA BatchesNow ==
  ASSUME OutputTypes, Losses
  PROVE  /\ ledger.published = ledger.saved + historyDrops + Counted(queue)
                               + (IF writer.at = "appending" THEN 1 ELSE 0)
         /\ ledger.saved \in Nat /\ historyDrops \in Nat /\ Counted(queue) \in Int
  <1>1. ledger.saved \in Nat /\ historyDrops \in Nat /\ Counted(queue) \in Int
    BY NumbersOf
  <1>2. ledger.published = ledger.saved + Underway + historyDrops
    BY DEF Losses, BatchesAccounted
  <1> QED
    BY <1>1, <1>2 DEF Underway

LEMMA EvictionsNow ==
  ASSUME OutputTypes, Losses
  PROVE  /\ ledger.evicted = ledger.evidenced + pending.subscriber
                             + Reported(queue) + writer.batch.subscriber
         /\ ledger.evidenced \in Nat /\ pending.subscriber \in Nat
         /\ Reported(queue) \in Int /\ writer.batch.subscriber \in Nat
  BY NumbersOf DEF Losses, EvictionsEvidenced

LEMMA LossesNow ==
  ASSUME OutputTypes, Losses
  PROVE  /\ ledger.lost > 0 =>
              ledger.shown + pending.history + Shown(queue) + writer.batch.history > 0
         /\ ledger.lost \in Nat /\ ledger.shown \in Nat /\ pending.history \in Nat
         /\ Shown(queue) \in Nat /\ writer.batch.history \in Nat
  BY NumbersOf DEF Losses, LossEvident

LEMMA PublishLosses ==
  ASSUME OutputTypes, Losses, NEW fits \in BOOLEAN, Publish(fits) PROVE Losses'
  <1> DEFINE batch == [mark |-> FALSE, subscriber |-> pending.subscriber,
                       history |-> pending.history]
             gone == Cardinality(Evicting)
  <1>1. batch \in Batches /\ ~batch.mark /\ batch.subscriber = pending.subscriber
        /\ batch.history = pending.history
    BY NumbersOf DEF Batches
  <1>2. gone \in Nat
    BY EvictingCounted
  <1>3. UNCHANGED writer
    BY DEF Publish
  <1>4. CASE Rejected(fits)
    <2>1. /\ queue' = queue /\ historyDrops' = historyDrops + 1
          /\ pending' = [subscriber |-> pending.subscriber + gone, history |-> 1]
          /\ ledger' = [ledger EXCEPT !.published = @ + 1, !.evicted = @ + gone, !.lost = @ + 1]
      BY <1>4 DEF Publish, DropOf
    <2>2. /\ pending'.subscriber = pending.subscriber + gone /\ pending'.history = 1
          /\ ledger'.published = ledger.published + 1 /\ ledger'.saved = ledger.saved
          /\ ledger'.evicted = ledger.evicted + gone
          /\ ledger'.evidenced = ledger.evidenced /\ ledger'.shown = ledger.shown
      BY <2>1, NumbersOf DEF Ledgers
    <2> HIDE DEF batch, gone
    <2>3. BatchesAccounted'
      BY <1>3, <2>1, <2>2, BatchesNow DEF BatchesAccounted, Underway
    <2>4. EvictionsEvidenced'
      BY <1>2, <1>3, <2>1, <2>2, EvictionsNow DEF EvictionsEvidenced
    <2>5. LossEvident'
      BY <1>3, <2>1, <2>2, LossesNow DEF LossEvident
    <2> QED
      BY <2>3, <2>4, <2>5 DEF Losses
  <1>5. CASE ~Rejected(fits)
    <2>1. /\ queue' = Append(queue, batch) /\ historyDrops' = historyDrops + 0
          /\ pending' = [subscriber |-> 0 + gone, history |-> 0]
          /\ ledger' = [ledger EXCEPT !.published = @ + 1, !.evicted = @ + gone, !.lost = @ + 0]
      BY <1>5 DEF Publish, NoDrops
    <2>2. /\ pending'.subscriber = gone /\ pending'.history = 0 /\ historyDrops' = historyDrops
          /\ ledger'.published = ledger.published + 1 /\ ledger'.saved = ledger.saved
          /\ ledger'.evicted = ledger.evicted + gone /\ ledger'.lost = ledger.lost
          /\ ledger'.evidenced = ledger.evidenced /\ ledger'.shown = ledger.shown
      BY <1>2, <2>1, NumbersOf DEF Ledgers
    <2> HIDE DEF batch, gone
    <2>3. /\ Counted(queue') = Counted(queue) + 1
          /\ Reported(queue') = Reported(queue) + pending.subscriber
          /\ Shown(queue') = Shown(queue) + pending.history
      BY <1>1, <2>1, NumbersOf, CountedSums, ReportedSums, ShownSums
    <2>4. BatchesAccounted'
      BY <1>3, <2>2, <2>3, BatchesNow DEF BatchesAccounted, Underway
    <2>5. EvictionsEvidenced'
      BY <1>2, <1>3, <2>2, <2>3, EvictionsNow DEF EvictionsEvidenced
    <2>6. LossEvident'
      BY <1>3, <2>2, <2>3, LossesNow DEF LossEvident
    <2> QED
      BY <2>4, <2>5, <2>6 DEF Losses
  <1> QED
    BY <1>4, <1>5

LEMMA WritingLosses ==
  ASSUME OutputTypes, RunShape, Losses, Writing PROVE Losses'
  <1>1. CASE WriterTakes
    <2>1. /\ queue # <<>> /\ queue' = Tail(queue) /\ writer.at = "idle"
          /\ UNCHANGED <<pending, historyDrops, ledger>>
      BY <1>1 DEF WriterTakes
    <2>2. writer.batch.subscriber = 0 /\ writer.batch.history = 0
      BY <2>1 DEF RunShape, WriterHolds, NoBatch
    <2>3. Head(queue) \in Batches /\ Tail(queue) \in Seq(Batches)
      BY <2>1, NumbersOf
    <2>4. /\ Counted(queue) = (IF Head(queue).mark THEN 0 ELSE 1) + Counted(queue')
          /\ Reported(queue) = Head(queue).subscriber + Reported(queue')
          /\ Shown(queue) = Head(queue).history + Shown(queue')
          /\ Counted(queue') \in Int /\ Reported(queue') \in Int /\ Shown(queue') \in Nat
      BY <2>1, <2>3, NumbersOf, CountedSums, ReportedSums, ShownSums
    <2>5. CASE ~Head(queue).mark
      <3>1. /\ writer'.at = "appending" /\ writer'.batch = Head(queue)
            /\ Head(queue).subscriber \in Nat /\ Head(queue).history \in Nat
        BY <1>1, <2>3, <2>5 DEF WriterTakes, Batches
      <3>2. BatchesAccounted'
        BY <2>1, <2>2, <2>4, <2>5, <3>1, BatchesNow DEF BatchesAccounted, Underway
      <3>3. EvictionsEvidenced'
        BY <2>1, <2>2, <2>4, <2>5, <3>1, EvictionsNow DEF EvictionsEvidenced
      <3>4. LossEvident'
        BY <2>1, <2>2, <2>4, <2>5, <3>1, LossesNow DEF LossEvident
      <3> QED
        BY <3>2, <3>3, <3>4 DEF Losses
    <2>6. CASE Head(queue).mark
      <3>1. writer'.at = "done" /\ writer'.batch = NoBatch
        BY <1>1, <2>6 DEF WriterTakes, Writer
      <3>2. Head(queue).subscriber = 0 /\ Head(queue).history = 0
        <4>1. Head(queue) = queue[1] /\ 1 \in 1 .. Len(queue)
          BY <2>1, NumbersOf
        <4> QED
          BY <2>6, <4>1 DEF RunShape, MarkIsLast, HistoryEnd
      <3>3. BatchesAccounted'
        BY <2>1, <2>2, <2>4, <2>6, <3>1, <3>2, BatchesNow DEF BatchesAccounted, Underway, NoBatch
      <3>4. EvictionsEvidenced'
        BY <2>1, <2>2, <2>4, <2>6, <3>1, <3>2, EvictionsNow DEF EvictionsEvidenced, NoBatch
      <3>5. LossEvident'
        BY <2>1, <2>2, <2>4, <2>6, <3>1, <3>2, LossesNow DEF LossEvident, NoBatch
      <3> QED
        BY <3>3, <3>4, <3>5 DEF Losses
    <2> QED
      BY <2>5, <2>6
  <1>2. CASE WriterSaves
    <2>1. /\ writer.at = "appending" /\ writer'.at = "idle" /\ writer'.batch = NoBatch
          /\ UNCHANGED <<pending, historyDrops, queue>>
          /\ ledger' = [ledger EXCEPT !.saved = @ + 1,
                                      !.evidenced = @ + writer.batch.subscriber,
                                      !.shown = @ + writer.batch.history]
      BY <1>2 DEF WriterSaves, Writer
    <2>2. /\ ledger'.published = ledger.published /\ ledger'.saved = ledger.saved + 1
          /\ ledger'.evicted = ledger.evicted /\ ledger'.lost = ledger.lost
          /\ ledger'.evidenced = ledger.evidenced + writer.batch.subscriber
          /\ ledger'.shown = ledger.shown + writer.batch.history
      BY <2>1, NumbersOf DEF Ledgers
    <2>3. BatchesAccounted'
      BY <2>1, <2>2, BatchesNow DEF BatchesAccounted, Underway, NoBatch
    <2>4. EvictionsEvidenced'
      BY <2>1, <2>2, EvictionsNow DEF EvictionsEvidenced, NoBatch
    <2>5. LossEvident'
      BY <2>1, <2>2, LossesNow DEF LossEvident, NoBatch
    <2> QED
      BY <2>3, <2>4, <2>5 DEF Losses
  <1>3. CASE WriterFails
    <2>1. /\ writer.at = "appending" /\ writer'.at = "idle" /\ writer'.batch = NoBatch
          /\ queue' = queue /\ historyDrops' = historyDrops + 1
          /\ pending'.subscriber = pending.subscriber + writer.batch.subscriber
          /\ pending'.history = pending.history + 1
          /\ ledger' = [ledger EXCEPT !.lost = @ + 1]
      BY <1>3 DEF WriterFails, Writer, Sum, DropOf
    <2>2. /\ ledger'.published = ledger.published /\ ledger'.saved = ledger.saved
          /\ ledger'.evicted = ledger.evicted
          /\ ledger'.evidenced = ledger.evidenced /\ ledger'.shown = ledger.shown
      BY <2>1, NumbersOf DEF Ledgers
    <2>3. BatchesAccounted'
      BY <2>1, <2>2, BatchesNow DEF BatchesAccounted, Underway, NoBatch
    <2>4. EvictionsEvidenced'
      BY <2>1, <2>2, EvictionsNow DEF EvictionsEvidenced, NoBatch
    <2>5. LossEvident'
      BY <2>1, <2>2, LossesNow DEF LossEvident, NoBatch
    <2> QED
      BY <2>3, <2>4, <2>5 DEF Losses
  <1> QED
    BY <1>1, <1>2, <1>3 DEF Writing

LEMMA StartedLosses ==
  ASSUME OutputTypes, ControlInv, RunShape, Losses, Started PROVE Losses'
  <1>1. queue = <<>> /\ writer.at = "none" /\ writer.batch = NoBatch
    BY DEF Started, ControlInv, ActionFits, RunShape, NothingLeft, WriterHolds
  <1>2. /\ queue' = <<>> /\ writer'.at = "idle" /\ writer'.batch = NoBatch
        /\ pending' = NoDrops /\ UNCHANGED historyDrops
        /\ ledger' = [ledger EXCEPT !.evicted = 0, !.evidenced = 0, !.lost = 0, !.shown = 0]
    BY DEF Started, Writer
  <1>3. /\ ledger'.published = ledger.published /\ ledger'.saved = ledger.saved
        /\ ledger'.evicted = 0 /\ ledger'.evidenced = 0 /\ ledger'.lost = 0
    BY <1>2, NumbersOf DEF Ledgers
  <1>4. <<>> \in Seq(Batches)
    OBVIOUS
  <1>5. Counted(<<>>) = 0 /\ Reported(<<>>) = 0
    BY <1>4, CountedSums, ReportedSums
  <1>6. BatchesAccounted'
    <2>1. ledger.published = ledger.saved + historyDrops + 0 + 0
      BY <1>1, <1>5, BatchesNow
    <2>2. Underway' = 0
      BY <1>2, <1>5 DEF Underway
    <2> QED
      BY <1>2, <1>3, <2>1, <2>2, NumbersOf DEF BatchesAccounted
  <1>7. EvictionsEvidenced'
    BY <1>2, <1>3, <1>5 DEF EvictionsEvidenced, NoDrops, NoBatch
  <1>8. LossEvident'
    BY <1>3 DEF LossEvident
  <1> QED
    BY <1>6, <1>7, <1>8 DEF Losses

LEMMA RunEndingLosses ==
  ASSUME OutputTypes, RunShape, Losses, RunEnding PROVE Losses'
  <1> USE DEF Losses, BatchesAccounted, EvictionsEvidenced, LossEvident, Underway
  <1>1. CASE ProducerEnded
    BY <1>1 DEF ProducerEnded, outputs
  <1>2. CASE MarkEnd
    <2>1. queue' = Append(queue, HistoryEnd) /\ UNCHANGED <<writer, pending, historyDrops, ledger>>
      BY <1>2 DEF MarkEnd
    <2>2. /\ Counted(queue') = Counted(queue) + 0 /\ Reported(queue') = Reported(queue) + 0
          /\ Shown(queue') = Shown(queue) + 0
      BY <2>1, MarksAreBatches, NumbersOf, CountedSums, ReportedSums, ShownSums DEF HistoryEnd
    <2>3. BatchesAccounted'
      BY <2>1, <2>2, BatchesNow DEF BatchesAccounted, Underway
    <2>4. EvictionsEvidenced'
      BY <2>1, <2>2, EvictionsNow DEF EvictionsEvidenced
    <2>5. LossEvident'
      BY <2>1, <2>2, LossesNow DEF LossEvident
    <2> QED
      BY <2>3, <2>4, <2>5
  <1>3. CASE RunEnded
    <2>1. queue = <<>> /\ writer.at = "done" /\ writer.batch = NoBatch
      BY <1>3 DEF RunEnded, RunShape, MarkIsLast, WriterHolds
    <2>2. /\ queue' = <<>> /\ writer'.at = "none" /\ writer'.batch = NoBatch
          /\ UNCHANGED <<pending, historyDrops, ledger>>
      BY <1>3 DEF RunEnded, Reset, Writer
    <2> QED
      BY <2>1, <2>2
  <1> QED
    BY <1>1, <1>2, <1>3 DEF RunEnding

LEMMA LossesNext ==
  ControlInv /\ OutputTypes /\ RunShape /\ Losses /\ [Next]_vars => Losses'
  <1> SUFFICES ASSUME ControlInv, OutputTypes, RunShape, Losses, [Next]_vars PROVE Losses'
    OBVIOUS
  <1>1. CASE UNCHANGED <<queue, writer, pending, historyDrops, ledger>>
    BY <1>1 DEF Losses, BatchesAccounted, EvictionsEvidenced, LossEvident, Underway
  <1>2. CASE Cycle
    BY <1>1, <1>2, PublishLosses
    DEF Cycle, StartCycle, GroupHolds, GroupChanged, ReadFails, ReadIsLate, Cancelled, outputs
  <1>3. CASE Acting
    BY <1>1, <1>3, StartedLosses DEF Acting, Admitted, Denied, GivenUp, Resumed, outputs
  <1>4. CASE Asking
    BY <1>1, <1>4 DEF Asking, Start, Resume, Pause, Stop, Close, outputs
  <1>5. CASE Streaming \/ UNCHANGED vars
    BY <1>1, <1>5 DEF Streaming, Subscribe, Receive, Unsubscribe, vars, outputs
  <1> QED
    BY <1>2, <1>3, <1>4, <1>5, WritingLosses, RunEndingLosses DEF Next

-----------------------------------------------------------------------------
(* What a subscriber was sent. *)

\* Nothing but close closes the sampler, and nothing opens it again.
LEMMA ClosedStays ==
  ASSUME ControlInv, [Next]_vars, state = "CLOSED"
  PROVE  state' = "CLOSED" /\ \A fits \in BOOLEAN : ~Publish(fits)
  <1>1. action.kind \notin {"start", "resume", "stop", "close"}
    BY DEF ControlInv, ActionFits
  <1>2. action = NoAction
    BY <1>1 DEF ControlInv, ControlTypes
  <1> QED
    BY <1>1, <1>2
    DEF Next, vars, control, Cycle, Writing, Acting, RunEnding, Asking, Streaming, StartCycle,
        GroupHolds, GroupChanged, ReadFails, ReadIsLate, Cancelled, Publish, Block, Stale,
        WriterTakes, WriterSaves, WriterFails, Start, Resume, Admitted, Denied, GivenUp,
        Started, Resumed, Pause, Stop, Close, EndRun, ProducerEnded, MarkEnd, RunEnded, Reset,
        Subscribe, Receive, Unsubscribe

LEMMA ClosesOnlySo ==
  ASSUME ControlInv, [Next]_vars, state # "CLOSED", state' = "CLOSED"
  PROVE  EndStreams
  BY DEF ControlInv, ControlTypes, Next, vars, control, Cycle, Writing, Acting, RunEnding,
         Asking, Streaming, StartCycle,
         GroupHolds, GroupChanged, ReadFails, ReadIsLate, Cancelled, Publish, Block, Stale,
         WriterTakes, WriterSaves, WriterFails, Start, Resume, Admitted, Denied, GivenUp,
         Started, Resumed, Pause, Stop, Close, EndRun, ProducerEnded, MarkEnd, RunEnded, Reset,
         Subscribe, Receive, Unsubscribe

GapTold(box) == box.on => box.owed = Len(box.items) + SumFunction(box.items)
Ended(box) == box.on => box.items # <<>> /\ Last(box.items) = StreamEnd

Streams ==
    \A s \in Subscriber : IF state = "CLOSED" THEN Ended(inbox[s]) ELSE GapTold(inbox[s])

LEMMA BoxOf ==
  ASSUME OutputTypes, NEW s \in Subscriber
  PROVE  /\ inbox[s] \in Inboxes /\ inbox[s].items \in Seq(Int) /\ inbox[s].owed \in Int
         /\ Len(inbox[s].items) \in Nat
         /\ Len(inbox[s].items) <= SubscriberQueueBatches
         /\ DOMAIN inbox = Subscriber
  BY DEF OutputTypes, InboxTypes, Inboxes

\* How a queue of numbers and its sum change.
LEMMA Puts ==
  ASSUME NEW items \in Seq(Int), NEW x \in Int
  PROVE  /\ Append(items, x) \in Seq(Int)
         /\ Append(items, x) # <<>> /\ Last(Append(items, x)) = x
         /\ Len(Append(items, x)) + SumFunction(Append(items, x))
              = Len(items) + SumFunction(items) + 1 + x
  <1>1. Append(items, x) \in Seq(Int) /\ Len(Append(items, x)) = Len(items) + 1
        /\ Append(items, x)[Len(items) + 1] = x /\ Len(items) \in Nat
    OBVIOUS
  <1>2. SumFunction(Append(items, x)) = SumFunction(items) + x /\ SumFunction(items) \in Int
    BY SumOfMore, SumsOf
  <1>3. Append(items, x) # <<>> /\ Last(Append(items, x)) = x
    BY <1>1 DEF Last
  <1> QED
    BY <1>1, <1>2, <1>3

LEMMA Takes ==
  ASSUME NEW items \in Seq(Int), items # <<>>
  PROVE  /\ Tail(items) \in Seq(Int) /\ Head(items) \in Int
         /\ Len(Tail(items)) + SumFunction(Tail(items))
              = Len(items) + SumFunction(items) - 1 - Head(items)
         /\ Last(items) # Head(items) => Tail(items) # <<>> /\ Last(Tail(items)) = Last(items)
  <1>1. /\ Tail(items) \in Seq(Int) /\ Head(items) \in Int /\ Head(items) = items[1]
        /\ Len(Tail(items)) = Len(items) - 1 /\ Len(items) \in Nat \ {0}
        /\ \A i \in 1 .. Len(items) - 1 : Tail(items)[i] = items[i + 1]
    OBVIOUS
  <1>2. SumFunction(items) = Head(items) + SumFunction(Tail(items))
    BY SumOfLess
  <1>3. SumFunction(Tail(items)) \in Int
    BY <1>1, SumsOf
  <1>4. ASSUME Last(items) # Head(items)
        PROVE  Tail(items) # <<>> /\ Last(Tail(items)) = Last(items)
    <2>1. Len(items) # 1
      BY <1>1, <1>4 DEF Last
    <2>2. Len(items) - 1 \in 1 .. Len(items) - 1 /\ (Len(items) - 1) + 1 = Len(items)
      BY <1>1, <2>1
    <2>3. Tail(items)[Len(items) - 1] = items[Len(items)]
      BY <1>1, <2>2
    <2>4. Tail(items) # <<>>
      <3>1. Len(Tail(items)) # 0 /\ Len(<<>>) = 0
        BY <1>1, <2>1
      <3> QED
        BY <3>1
    <2> QED
      BY <1>1, <2>3, <2>4 DEF Last
  <1> QED
    BY <1>1, <1>2, <1>3, <1>4

LEMMA StreamsInit == Init => Streams
  BY DEF Init, Streams, GapTold, NoInbox

LEMMA EndStreamsEnd ==
  ASSUME OutputTypes, EndStreams, NEW s \in Subscriber PROVE Ended(inbox'[s])
  <1> DEFINE kept == IF Full(s) THEN Tail(inbox[s].items) ELSE inbox[s].items
  <1>1. CASE ~inbox[s].on
    BY <1>1 DEF EndStreams, Ended
  <1>2. CASE inbox[s].on
    <2>1. inbox'[s] = [inbox[s] EXCEPT !.items = Append(kept, StreamEnd)]
      BY <1>2 DEF EndStreams
    <2>2. kept \in Seq(Int) /\ StreamEnd \in Int
      BY BoxOf, CapacityAssumption DEF Full, StreamEnd
    <2> HIDE DEF kept
    <2>3. inbox'[s].items = Append(kept, StreamEnd)
      BY <2>1, BoxOf DEF Inboxes
    <2> QED
      BY <2>2, <2>3, Puts DEF Ended
  <1> QED
    BY <1>1, <1>2

LEMMA BroadcastGaps ==
  ASSUME OutputTypes, Broadcast, NEW s \in Subscriber, GapTold(inbox[s]) PROVE GapTold(inbox'[s])
  <1> DEFINE items == inbox[s].items
             kept == IF Full(s) THEN Tail(items) ELSE items
  <1>1. CASE ~inbox[s].on
    BY <1>1 DEF Broadcast, GapTold
  <1>2. CASE inbox[s].on
    <2>1. inbox'[s] = [inbox[s] EXCEPT !.items = Append(kept, ReportedBy(s)),
                                       !.owed = inbox[s].owed + 1]
      BY <1>2 DEF Broadcast
    <2>2. /\ items \in Seq(Int) /\ Len(items) \in Nat /\ inbox[s].owed \in Int
          /\ SumFunction(items) \in Int
      BY BoxOf, SumsOf
    <2>3. inbox[s].owed = Len(items) + SumFunction(items)
      BY <1>2 DEF GapTold
    <2>4. /\ kept \in Seq(Int) /\ ReportedBy(s) \in Int
          /\ Len(kept) + SumFunction(kept) + 1 + ReportedBy(s) = Len(items) + SumFunction(items) + 1
      <3>1. CASE Full(s)
        <4>1. items # <<>>
          BY <3>1, CapacityAssumption DEF Full
        <4>2. kept = Tail(items) /\ ReportedBy(s) = 1 + Head(items)
          BY <3>1 DEF ReportedBy
        <4>3. /\ Tail(items) \in Seq(Int) /\ Head(items) \in Int
              /\ Len(Tail(items)) + SumFunction(Tail(items))
                   = Len(items) + SumFunction(items) - 1 - Head(items)
          BY <2>2, <4>1, Takes
        <4>4. Len(Tail(items)) \in Int /\ SumFunction(Tail(items)) \in Int
          <5> DEFINE rest == Tail(items)
          <5>1. rest \in Seq(Int)
            BY <4>3
          <5> HIDE DEF rest
          <5>2. Len(rest) \in Int /\ SumFunction(rest) \in Int
            BY <5>1, SumsOf
          <5> QED
            BY <5>2 DEF rest
        <4> HIDE DEF items, kept
        <4> QED
          BY <2>2, <4>2, <4>3, <4>4
      <3>2. CASE ~Full(s)
        <4>1. kept = items /\ ReportedBy(s) = 0
          BY <3>2 DEF ReportedBy
        <4> HIDE DEF items, kept
        <4> QED
          BY <2>2, <4>1
      <3> QED
        BY <3>1, <3>2
    <2> HIDE DEF kept
    <2>5. inbox'[s].items = Append(kept, ReportedBy(s)) /\ inbox'[s].owed = inbox[s].owed + 1
      BY <2>1, BoxOf DEF Inboxes
    <2>6. Len(Append(kept, ReportedBy(s))) + SumFunction(Append(kept, ReportedBy(s)))
            = Len(kept) + SumFunction(kept) + 1 + ReportedBy(s)
      BY <2>4, Puts
    <2> HIDE DEF items
    <2>7. inbox'[s].owed = Len(inbox'[s].items) + SumFunction(inbox'[s].items)
      BY <2>3, <2>4, <2>5, <2>6
    <2> QED
      BY <2>7 DEF GapTold
  <1> QED
    BY <1>1, <1>2

LEMMA StreamingStreams == ASSUME OutputTypes, Streams, Streaming PROVE Streams'
  <1>1. PICK t \in Subscriber : Subscribe(t) \/ Receive(t) \/ Unsubscribe(t)
    BY DEF Streaming
  <1>2. UNCHANGED state
    BY <1>1 DEF Subscribe, Receive, Unsubscribe, control
  <1> SUFFICES ASSUME NEW s \in Subscriber
               PROVE  IF state = "CLOSED" THEN Ended(inbox'[s]) ELSE GapTold(inbox'[s])
    BY <1>2 DEF Streams
  <1>3. IF state = "CLOSED" THEN Ended(inbox[s]) ELSE GapTold(inbox[s])
    BY DEF Streams
  <1>4. CASE s # t
    <2>1. inbox'[s] = inbox[s]
      BY <1>1, <1>4, BoxOf DEF Subscribe, Receive, Unsubscribe
    <2> QED
      BY <1>3, <2>1
  <1>5. CASE s = t
    <2>1. CASE Subscribe(s)
      <3>1. inbox'[s] = [NoInbox EXCEPT !.on = TRUE,
                           !.items = IF state = "CLOSED" THEN <<StreamEnd>> ELSE <<>>]
        BY <2>1, BoxOf DEF Subscribe
      <3>2. inbox'[s].owed = 0
            /\ inbox'[s].items = IF state = "CLOSED" THEN <<StreamEnd>> ELSE <<>>
        BY <3>1 DEF NoInbox
      <3> QED
        BY <3>2, SumOfNone DEF Ended, GapTold, Last
    <2>2. CASE Unsubscribe(s)
      BY <2>2, BoxOf DEF Unsubscribe, Ended, GapTold, NoInbox
    <2>3. CASE Receive(s)
      <3> DEFINE items == inbox[s].items
      <3>1. CASE Head(items) = StreamEnd
        <4>1. inbox'[s] = NoInbox
          BY <2>3, <3>1, BoxOf DEF Receive
        <4> QED
          BY <4>1 DEF Ended, GapTold, NoInbox
      <3>2. CASE Head(items) # StreamEnd
        <4>1. inbox'[s] = Taken(s) /\ inbox[s].on /\ items # <<>>
          BY <2>3, <3>2, BoxOf DEF Receive
        <4>2. /\ inbox'[s].items = Tail(items) /\ inbox'[s].on
              /\ inbox'[s].owed = inbox[s].owed - 1 - Head(items)
          BY <4>1, BoxOf DEF Taken, Inboxes
        <4>3. /\ items \in Seq(Int) /\ Len(items) \in Nat /\ SumFunction(items) \in Int
          BY BoxOf, SumsOf
        <4>4. /\ Tail(items) \in Seq(Int) /\ Head(items) \in Int
              /\ Len(Tail(items)) + SumFunction(Tail(items))
                   = Len(items) + SumFunction(items) - 1 - Head(items)
              /\ Last(items) # Head(items) =>
                    Tail(items) # <<>> /\ Last(Tail(items)) = Last(items)
          BY <4>1, <4>3, Takes
        <4> HIDE DEF items
        <4>5. ASSUME state = "CLOSED" PROVE Ended(inbox'[s])
          <5>1. Last(items) = StreamEnd
            BY <1>3, <4>1, <4>5 DEF Ended, items
          <5> QED
            BY <3>2, <4>2, <4>4, <5>1 DEF Ended
        <4>6. ASSUME state # "CLOSED" PROVE GapTold(inbox'[s])
          <5>1. inbox[s].owed = Len(items) + SumFunction(items)
            BY <1>3, <4>1, <4>6 DEF GapTold, items
          <5>2. inbox'[s].owed = Len(inbox'[s].items) + SumFunction(inbox'[s].items)
            BY <4>2, <4>3, <4>4, <5>1
          <5> QED
            BY <5>2 DEF GapTold
        <4> QED
          BY <4>5, <4>6
      <3> QED
        BY <3>1, <3>2
    <2> QED
      BY <1>1, <1>5, <2>1, <2>2, <2>3
  <1> QED
    BY <1>4, <1>5

LEMMA StreamsNext == ControlInv /\ OutputTypes /\ Streams /\ [Next]_vars => Streams'
  <1> SUFFICES ASSUME ControlInv, OutputTypes, Streams, [Next]_vars PROVE Streams'
    OBVIOUS
  <1>1. CASE UNCHANGED inbox
    <2>1. CASE state = "CLOSED"
      BY <1>1, <2>1, ClosedStays DEF Streams
    <2>2. CASE state # "CLOSED" /\ state' # "CLOSED"
      BY <1>1, <2>2 DEF Streams
    <2>3. CASE state # "CLOSED" /\ state' = "CLOSED"
      BY <2>3, ClosesOnlySo, EndStreamsEnd DEF Streams
    <2> QED
      BY <2>1, <2>2, <2>3
  <1>2. CASE \E fits \in BOOLEAN : Publish(fits)
    <2>1. Broadcast /\ state # "CLOSED" /\ state' # "CLOSED"
      BY <1>2 DEF Publish, Stale, control
    <2> QED
      BY <2>1, BroadcastGaps DEF Streams
  <1>3. CASE Close \/ RunEnded
    <2>1. CASE EndStreams /\ state' = "CLOSED"
      BY <2>1, EndStreamsEnd DEF Streams
    <2> QED
      BY <1>1, <1>3, <2>1 DEF Close, RunEnded, Reset, outputs
  <1> QED
    BY <1>1, <1>2, <1>3, StreamingStreams
    DEF Next, vars, outputs, Cycle, Writing, Acting, RunEnding, Asking,
        StartCycle, GroupHolds, GroupChanged, ReadFails, ReadIsLate, Cancelled,
        WriterTakes, WriterSaves, WriterFails, Start, Resume, Admitted, Denied, GivenUp,
        Started, Resumed, Pause, Stop, ProducerEnded, MarkEnd

\* The queues, the counters, the streams and the shape of a run, together.
LEMMA OutputInvariant == Spec => [](OutputTypes /\ RunShape /\ Losses /\ Streams)
  <1>1. Init => OutputTypes /\ RunShape /\ Losses /\ Streams
    BY OutputInit, ShapeInit, LossesInit, StreamsInit
  <1>2. /\ ControlInv
        /\ OutputTypes /\ RunShape /\ Losses /\ Streams /\ [Next]_vars
        => (OutputTypes /\ RunShape /\ Losses /\ Streams)'
    BY OutputNext, ShapeNext, LossesNext, StreamsNext
  <1> QED
    BY <1>1, <1>2, ControlInvariant, PTL DEF Spec

\* No loss is forgotten, however full the queues are, whatever the writer fails
\* to save and whoever subscribes: a subscriber learns how many batches it
\* missed, every batch is saved, on its way or counted as dropped, every
\* eviction is reported by a batch that lasts, and a history with gaps says so
\* (_publish, _record_history_drop, _write_history).
THEOREM LossesRemembered == Spec => []LossesAccounted
  <1>1. Streams => GapsReported
    BY DEF Streams, GapsReported, GapTold
  <1>2. Streams /\ Losses => LossesAccounted
    BY <1>1 DEF Losses, LossesAccounted
  <1> QED
    BY <1>2, OutputInvariant, PTL

\* Whoever still reads the stream of a closed sampler finds its end, however
\* full its queue was when it was closed (close, subscribe).
THEOREM StreamsEnd == Spec => []ClosedStreamsEnd
  <1>1. Streams => ClosedStreamsEnd
    BY DEF Streams, ClosedStreamsEnd, Ended
  <1> QED
    BY <1>1, OutputInvariant, PTL
-----------------------------------------------------------------------------
(* The live events: what a client that comes back is served.               *)

EventKinds == {"hello", "state", "public"}
Anchors == [id : Nat, public : Nat, pending : Seq(Nat)]

\* The public events among the first n of a log.
PublicsIn(l, n) == {i \in 1 .. Len(l) : i <= n /\ l[i] = "public"}
NumberIn(l, n) == Cardinality(PublicsIn(l, n))

\* The ring holds the last public events of the log: its k-th element is so
\* many public events behind the last one, and none is missing.
RingInv(l, r) ==
    /\ r \in Seq(Nat) /\ Len(r) <= Ring
    /\ \A k \in 1 .. Len(r) :
          /\ r[k] \in 1 .. Len(l) /\ l[r[k]] = "public"
          /\ NumberIn(l, r[k]) = NumberIn(l, Len(l)) - Len(r) + k
    /\ Ascending(r)
    /\ \A i \in 1 .. Len(l) : l[i] = "public" =>
          (\E k \in 1 .. Len(r) : r[k] = i) \/ (Len(r) = Ring /\ i < r[1])

\* An anchor knows how many public events its own event came after, and what
\* its stream was to be sent next.
AnchorInv(l, a) ==
    /\ a \in Anchors
    /\ a.id \in 1 .. Len(l) /\ a.public = NumberIn(l, a.id)
    /\ \/ a.pending = <<>> /\ l[a.id] = "state"
       \/ /\ a.pending = <<a.id + 1>> /\ l[a.id] = "hello"
          /\ a.id + 1 <= Len(l) /\ l[a.id + 1] = "state"
AnchorsInv(l, kept) == kept \in Seq(Anchors) /\ \A k \in 1 .. Len(kept) : AnchorInv(l, kept[k])

\* A log that got longer, by events of one stream only.
Privately(l, m) ==
    /\ Len(l) <= Len(m) /\ \A i \in 1 .. Len(l) : m[i] = l[i]
    /\ \A i \in 1 .. Len(m) : i > Len(l) => m[i] # "public"

ReplayInv == log \in Seq(EventKinds) /\ RingInv(log, ring) /\ AnchorsInv(log, anchors)

LEMMA Counting ==
  ASSUME NEW l \in Seq(EventKinds), NEW n \in Nat
  PROVE  /\ IsFiniteSet(PublicsIn(l, n)) /\ NumberIn(l, n) \in Nat
         /\ \A m \in Nat : m <= n => NumberIn(l, m) <= NumberIn(l, n)
         /\ \A m \in Nat : m < n /\ n <= Len(l) /\ l[n] = "public"
                              => NumberIn(l, m) < NumberIn(l, n)
  <1>1. ASSUME NEW m \in Nat PROVE IsFiniteSet(PublicsIn(l, m)) /\ NumberIn(l, m) \in Nat
    <2>1. IsFiniteSet(1 .. Len(l)) /\ PublicsIn(l, m) \subseteq 1 .. Len(l)
      BY FS_Interval DEF PublicsIn
    <2> QED
      BY <2>1, FS_Subset, FS_CardinalityType DEF NumberIn
  <1>2. ASSUME NEW m \in Nat, m <= n PROVE NumberIn(l, m) <= NumberIn(l, n)
    <2>1. PublicsIn(l, m) \subseteq PublicsIn(l, n)
      BY <1>2 DEF PublicsIn
    <2> QED
      BY <1>1, <2>1, FS_Subset DEF NumberIn
  <1>3. ASSUME NEW m \in Nat, m < n, n <= Len(l), l[n] = "public"
        PROVE  NumberIn(l, m) < NumberIn(l, n)
    <2>1. PublicsIn(l, m) \subseteq PublicsIn(l, n) /\ n \in PublicsIn(l, n) /\ n \notin PublicsIn(l, m)
      BY <1>3 DEF PublicsIn
    <2>2. PublicsIn(l, m) # PublicsIn(l, n)
      BY <2>1
    <2> QED
      <3>1. IsFiniteSet(PublicsIn(l, n)) /\ NumberIn(l, m) \in Nat /\ NumberIn(l, n) \in Nat
        BY <1>1
      <3>2. NumberIn(l, m) <= NumberIn(l, n) /\ NumberIn(l, m) # NumberIn(l, n)
        BY <2>1, <2>2, <3>1, FS_Subset DEF NumberIn
      <3> QED
        BY <3>1, <3>2
  <1> QED
    BY <1>1, <1>2, <1>3

\* A private event does not change the numbers of the others.
LEMMA SameNumbers ==
  ASSUME NEW l \in Seq(EventKinds), NEW m \in Seq(EventKinds), Privately(l, m)
  PROVE  /\ \A n \in Nat : n <= Len(l) => NumberIn(m, n) = NumberIn(l, n)
         /\ \A n \in Nat : n >= Len(l) => NumberIn(m, n) = NumberIn(l, Len(l))
  <1>0. Len(l) \in Nat /\ Len(m) \in Nat
    OBVIOUS
  <1>1. ASSUME NEW n \in Nat, n <= Len(l) PROVE PublicsIn(m, n) = PublicsIn(l, n)
    BY <1>0, <1>1 DEF Privately, PublicsIn
  <1>2. ASSUME NEW n \in Nat, n >= Len(l) PROVE PublicsIn(m, n) = PublicsIn(l, Len(l))
    BY <1>0, <1>2 DEF Privately, PublicsIn
  <1> QED
    BY <1>1, <1>2 DEF NumberIn

LEMMA PrivateRing ==
  ASSUME NEW l \in Seq(EventKinds), NEW m \in Seq(EventKinds), Privately(l, m),
         NEW r, RingInv(l, r)
  PROVE  RingInv(m, r)
  <1>0. Len(l) \in Nat /\ Len(m) \in Nat /\ Len(l) <= Len(m) /\ r \in Seq(Nat)
    BY DEF RingInv, Privately
  <1>1. ASSUME NEW k \in 1 .. Len(r)
        PROVE  /\ r[k] \in 1 .. Len(m) /\ m[r[k]] = "public"
               /\ NumberIn(m, r[k]) = NumberIn(m, Len(m)) - Len(r) + k
    <2>1. /\ r[k] \in 1 .. Len(l) /\ l[r[k]] = "public"
          /\ NumberIn(l, r[k]) = NumberIn(l, Len(l)) - Len(r) + k
      BY DEF RingInv
    <2>2. NumberIn(m, r[k]) = NumberIn(l, r[k]) /\ NumberIn(m, Len(m)) = NumberIn(l, Len(l))
      BY <1>0, <2>1, SameNumbers
    <2> QED
      BY <1>0, <2>1, <2>2 DEF Privately
  <1>2. ASSUME NEW i \in 1 .. Len(m), m[i] = "public"
        PROVE  (\E k \in 1 .. Len(r) : r[k] = i) \/ (Len(r) = Ring /\ i < r[1])
    <2>1. i \in 1 .. Len(l) /\ l[i] = "public"
      BY <1>0, <1>2 DEF Privately
    <2> QED
      BY <2>1 DEF RingInv
  <1> QED
    BY <1>1, <1>2 DEF RingInv

LEMMA PrivateAnchor ==
  ASSUME NEW l \in Seq(EventKinds), NEW m \in Seq(EventKinds),
         \/ Privately(l, m)
         \/ m = Append(l, "public"),
         NEW a, AnchorInv(l, a)
  PROVE  AnchorInv(m, a)
  <1>0. /\ Len(l) \in Nat /\ Len(m) \in Nat /\ Len(l) <= Len(m) /\ a.id \in 1 .. Len(l)
        /\ \A i \in 1 .. Len(l) : m[i] = l[i]
    BY DEF AnchorInv, Privately
  <1>1. PublicsIn(m, a.id) = PublicsIn(l, a.id)
    BY <1>0 DEF PublicsIn
  <1>2. a.id \in 1 .. Len(m) /\ m[a.id] = l[a.id]
        /\ (a.id + 1 <= Len(l) => a.id + 1 <= Len(m) /\ m[a.id + 1] = l[a.id + 1])
    BY <1>0
  <1> QED
    BY <1>1, <1>2 DEF AnchorInv, NumberIn

LEMMA PublishRing ==
  ASSUME NEW l \in Seq(EventKinds), NEW r, RingInv(l, r)
  PROVE  RingInv(Append(l, "public"), Push(r, Len(l) + 1, Ring))
  <1> DEFINE m == Append(l, "public")
             n == Len(l)
             new == Push(r, n + 1, Ring)
  <1>0. /\ n \in Nat /\ Len(m) = n + 1 /\ m[n + 1] = "public" /\ m \in Seq(EventKinds)
        /\ \A i \in 1 .. n : m[i] = l[i]
    BY DEF EventKinds
  <1>1. r \in Seq(Nat) /\ Len(r) \in Nat /\ Len(r) <= Ring /\ Ring \in Nat /\ Ring > 0
    BY LengthsPositive DEF RingInv
  <1>2. ASSUME NEW i \in 0 .. n PROVE NumberIn(m, i) = NumberIn(l, i) /\ NumberIn(l, i) \in Nat
    <2>1. PublicsIn(m, i) = PublicsIn(l, i)
      BY <1>0 DEF PublicsIn
    <2> QED
      BY <2>1, Counting DEF NumberIn
  <1>3. NumberIn(m, n + 1) = NumberIn(l, n) + 1 /\ NumberIn(l, n) \in Nat
    <2>1. PublicsIn(m, n + 1) = PublicsIn(l, n) \cup {n + 1} /\ n + 1 \notin PublicsIn(l, n)
      BY <1>0 DEF PublicsIn
    <2>2. IsFiniteSet(PublicsIn(l, n)) /\ NumberIn(l, n) \in Nat
      BY <1>0, Counting
    <2> QED
      BY <2>1, <2>2, FS_AddElement DEF NumberIn
  <1>4. \A k \in 1 .. Len(r) : /\ r[k] \in 1 .. n /\ l[r[k]] = "public"
                               /\ NumberIn(l, r[k]) = NumberIn(l, n) - Len(r) + k
    BY DEF RingInv
  <1>5. \A i, j \in 1 .. Len(r) : i < j => r[i] < r[j]
    BY DEF RingInv, Ascending
  <1>6. \A i \in 1 .. n : l[i] = "public" =>
           (\E k \in 1 .. Len(r) : r[k] = i) \/ (Len(r) = Ring /\ i < r[1])
    BY DEF RingInv
  <1> DEFINE lost == IF Len(r) < Ring THEN 0 ELSE 1
  <1>7. /\ new \in Seq(Nat) /\ Len(new) = Len(r) - lost + 1 /\ new[Len(r) - lost + 1] = n + 1
        /\ \A k \in 1 .. Len(r) - lost : new[k] = r[k + lost]
    <2>1. CASE Len(r) < Ring
      BY <1>0, <1>1, <2>1 DEF Push
    <2>2. CASE ~(Len(r) < Ring)
      <3>1. /\ Tail(r) \in Seq(Nat) /\ Len(Tail(r)) = Len(r) - 1
            /\ \A k \in 1 .. Len(r) - 1 : Tail(r)[k] = r[k + 1]
        BY <1>1, <2>2
      <3>2. new = Append(Tail(r), n + 1)
        BY <2>2 DEF Push
      <3>3. Len(r) \in Nat /\ Len(r) = Ring /\ Len(r) > 0 /\ lost = 1
        BY <1>1, <2>2
      <3> HIDE DEF new, lost
      <3>4. /\ new \in Seq(Nat) /\ Len(new) = Len(Tail(r)) + 1 /\ new[Len(Tail(r)) + 1] = n + 1
            /\ \A k \in 1 .. Len(Tail(r)) : new[k] = Tail(r)[k]
        BY <1>0, <3>1, <3>2
      <3> QED
        BY <3>1, <3>3, <3>4
    <2> QED
      BY <2>1, <2>2
  <1>8. lost \in {0, 1} /\ (lost = 1 => Len(r) = Ring) /\ (lost = 0 => Len(r) < Ring)
    BY <1>1
  <1> HIDE DEF m, n, new, lost
  <1>9. Len(new) \in Nat /\ Len(new) <= Ring /\ Len(new) > 0
    BY <1>1, <1>7, <1>8
  <1>10. ASSUME NEW k \in 1 .. Len(new)
         PROVE  /\ new[k] \in 1 .. n + 1 /\ m[new[k]] = "public"
                /\ NumberIn(m, new[k]) = NumberIn(m, n + 1) - Len(new) + k
    <2>1. CASE k = Len(new)
      <3>1. new[k] = n + 1 /\ Len(new) - k = 0
        BY <1>1, <1>7, <1>8, <2>1
      <3>2. NumberIn(m, n + 1) \in Nat
        BY <1>3
      <3> QED
        BY <1>0, <1>9, <2>1, <3>1, <3>2
    <2>2. CASE k # Len(new)
      <3>1. k \in 1 .. Len(r) - lost /\ k + lost \in 1 .. Len(r)
        <4>1. lost \in Int /\ lost >= 0 /\ Len(r) \in Int /\ Len(new) = Len(r) - lost + 1
          BY <1>1, <1>7, <1>8
        <4>2. k \in Int /\ k >= 1 /\ k <= Len(new) /\ k # Len(new)
          BY <1>9, <2>2
        <4> QED
          BY <4>1, <4>2
      <3>2. /\ new[k] = r[k + lost] /\ r[k + lost] \in 1 .. n /\ l[r[k + lost]] = "public"
            /\ NumberIn(l, r[k + lost]) = NumberIn(l, n) - Len(r) + (k + lost)
        BY <1>4, <1>7, <3>1
      <3>3. NumberIn(m, new[k]) = NumberIn(l, n) - Len(r) + (k + lost)
        BY <1>0, <1>2, <3>2
      <3> QED
        <4>1. new[k] \in 1 .. n + 1 /\ m[new[k]] = "public"
          BY <1>0, <3>2
        <4>2. NumberIn(l, n) \in Nat /\ NumberIn(m, n + 1) = NumberIn(l, n) + 1
          BY <1>3
        <4>3. Len(new) = Len(r) - lost + 1 /\ lost \in {0, 1} /\ k \in Int
          BY <1>7, <1>8
        <4> QED
          BY <1>1, <3>3, <4>1, <4>2, <4>3
    <2> QED
      BY <2>1, <2>2
  <1>11. ASSUME NEW i \in 1 .. Len(new), NEW j \in 1 .. Len(new), i < j
         PROVE  new[i] < new[j]
    <2>1. i \in 1 .. Len(r) - lost /\ i + lost \in 1 .. Len(r) /\ new[i] = r[i + lost]
      <3>1. lost \in Int /\ Len(r) \in Int /\ lost >= 0
        BY <1>1, <1>8
      <3>2. Len(new) = Len(r) - lost + 1
        BY <1>7
      <3>3. i \in Int /\ j \in Int /\ 1 <= i /\ i < j /\ j <= Len(new)
        BY <1>9, <1>11
      <3>4. i \in 1 .. Len(r) - lost /\ i + lost \in 1 .. Len(r)
        BY <3>1, <3>2, <3>3
      <3> QED
        BY <1>7, <3>4
    <2>2. r[i + lost] \in 1 .. n
      BY <1>4, <2>1
    <2>3. CASE j = Len(new)
      BY <1>0, <1>7, <2>1, <2>2, <2>3
    <2>4. CASE j # Len(new)
      <3>1. j \in 1 .. Len(r) - lost /\ j + lost \in 1 .. Len(r) /\ new[j] = r[j + lost]
        <4>1. lost \in Int /\ Len(r) \in Int /\ lost >= 0
          BY <1>1, <1>8
        <4>2. j \in Int /\ 1 <= j /\ j <= Len(r) - lost
          <5>1. Len(new) = Len(r) - lost + 1
            BY <1>7
          <5>2. j \in Int /\ 1 <= j /\ j <= Len(new) /\ j # Len(new)
            BY <1>9, <2>4
          <5> QED
            BY <4>1, <5>1, <5>2
        <4>3. j \in 1 .. Len(r) - lost /\ j + lost \in 1 .. Len(r)
          BY <4>1, <4>2
        <4> QED
          BY <1>7, <4>3
      <3>2. i + lost < j + lost
        BY <1>8, <1>11
      <3> QED
        BY <1>5, <2>1, <3>1, <3>2
    <2> QED
      BY <2>3, <2>4
  <1>12. ASSUME NEW i \in 1 .. n + 1, m[i] = "public"
         PROVE  (\E k \in 1 .. Len(new) : new[k] = i) \/ (Len(new) = Ring /\ i < new[1])
    <2>1. CASE i = n + 1
      <3>1. Len(new) \in 1 .. Len(new) /\ new[Len(new)] = n + 1
        BY <1>7, <1>9
      <3> QED
        BY <2>1, <3>1
    <2>2. CASE i # n + 1
      <3>0. i \in 1 .. n /\ l[i] = "public"
        BY <1>0, <1>12, <2>2
      <3>1. ASSUME NEW k \in 1 .. Len(r), r[k] = i, k > lost
            PROVE  \E j \in 1 .. Len(new) : new[j] = i
        <4>1. k - lost \in 1 .. Len(r) - lost /\ k - lost \in 1 .. Len(new) /\ (k - lost) + lost = k
          BY <1>1, <1>7, <1>8, <3>1
        <4>2. new[k - lost] = r[(k - lost) + lost]
          BY <1>7, <4>1
        <4> QED
          BY <3>1, <4>1, <4>2
      <3>2. ASSUME lost = 1, i <= r[1] PROVE Len(new) = Ring /\ i < new[1]
        <4>1. Len(r) = Ring /\ Len(new) = Ring
          BY <1>1, <1>7, <1>8, <3>2
        <4>2. CASE Ring = 1
          <5>1. Len(r) - lost + 1 = 1
            BY <3>2, <4>1, <4>2
          <5> QED
            BY <1>0, <1>7, <3>0, <4>1, <5>1
        <4>3. CASE Ring # 1
          <5>1. 1 \in 1 .. Len(r) - lost /\ 1 \in 1 .. Len(r) /\ 2 \in 1 .. Len(r) /\ 1 + lost = 2
            BY <1>1, <3>2, <4>1, <4>3
          <5>2. new[1] = r[2] /\ r[1] < r[2] /\ r[1] \in 1 .. n /\ r[2] \in 1 .. n
            <6>1. new[1] = r[1 + lost]
              BY <1>7, <5>1
            <6> QED
              BY <1>4, <1>5, <5>1, <6>1
          <5> QED
            BY <3>2, <4>1, <5>2
        <4> QED
          BY <4>2, <4>3
      <3>3. CASE \E k \in 1 .. Len(r) : r[k] = i
        <4>1. PICK k \in 1 .. Len(r) : r[k] = i
          BY <3>3
        <4>2. CASE k > lost
          BY <3>1, <4>1, <4>2
        <4>3. CASE ~(k > lost)
          BY <1>8, <3>2, <4>1, <4>3
        <4> QED
          BY <4>2, <4>3
      <3>4. CASE Len(r) = Ring /\ i < r[1]
        <4>1. lost = 1
          BY <1>8, <3>4, <1>1
        <4> QED
          BY <1>1, <1>4, <3>2, <3>4, <4>1
      <3> QED
        BY <1>6, <3>0, <3>3, <3>4
    <2> QED
      BY <2>1, <2>2
  <1>13. Ascending(new)
    BY <1>11 DEF Ascending
  <1>14. RingInv(m, new)
    BY <1>0, <1>7, <1>9, <1>10, <1>12, <1>13 DEF RingInv
  <1> QED
    BY <1>14 DEF m, n, new


\* What the code keeps of the ring is what stands behind the event.
LEMMA RingAfterIs ==
  ASSUME ReplayInv, NEW p \in 1 .. Len(ring)
  PROVE  RingAfter(ring[p]) = SubSeq(ring, p + 1, Len(ring))
  <1> DEFINE n == Len(ring)
             id == ring[p]
             Step(g) == [k \in 0 .. n |->
                           IF k = 0 THEN <<>>
                           ELSE IF ring[k] > id THEN Append(g[k - 1], ring[k]) ELSE g[k - 1]]
             kept == CHOOSE g : g = Step(g)
             h == [k \in 0 .. n |-> IF k <= p THEN <<>> ELSE SubSeq(ring, p + 1, k)]
  <1>1. RingAfter(id) = kept[n]
    BY DEF RingAfter
  <1>2. /\ ring \in Seq(Nat) /\ n \in Nat /\ p \in 1 .. n
        /\ \A i, j \in 1 .. n : i < j => ring[i] < ring[j]
    BY DEF ReplayInv, RingInv, Ascending
  <1>3. \A k \in 1 .. n : ring[k] \in Nat /\ (ring[k] > id <=> k > p)
    BY <1>2
  <1>4. h = Step(h)
    <2>1. ASSUME NEW k \in 0 .. n
          PROVE  h[k] = IF k = 0 THEN <<>>
                        ELSE IF ring[k] > id THEN Append(h[k - 1], ring[k]) ELSE h[k - 1]
      <3>1. CASE k <= p
        BY <1>2, <1>3, <3>1
      <3>2. CASE k = p + 1
        <4>1. k \in 1 .. n /\ k - 1 = p /\ ring[k] > id /\ h[k - 1] = <<>>
          BY <1>2, <1>3, <3>2
        <4>2. SubSeq(ring, p + 1, k) = Append(<<>>, ring[k])
          <5> DEFINE a == SubSeq(ring, p + 1, k)
                     b == Append(<<>>, ring[k])
          <5>1. a \in Seq(Nat) /\ Len(a) = 1 /\ a[1] = ring[k]
            BY <1>2, <3>2, <4>1
          <5>2. b \in Seq(Nat) /\ Len(b) = 1 /\ b[1] = ring[k]
            BY <1>3, <4>1
          <5> HIDE DEF a, b
          <5>3. a = b
            BY <5>1, <5>2, SeqEqual
          <5> QED
            BY <5>3 DEF a, b
        <4>3. h[k] = SubSeq(ring, p + 1, k)
          BY <1>2, <3>2, <4>1
        <4> HIDE DEF h
        <4> QED
          BY <4>1, <4>2, <4>3
      <3>3. CASE k > p + 1
        <4>1. /\ k \in 1 .. n /\ k - 1 \in 0 .. n /\ k - 1 > p /\ ring[k] > id
              /\ h[k - 1] = SubSeq(ring, p + 1, k - 1) /\ h[k] = SubSeq(ring, p + 1, k)
          BY <1>2, <1>3, <3>3
        <4>2. SubSeq(ring, p + 1, k) = Append(SubSeq(ring, p + 1, k - 1), ring[k])
          <5> DEFINE a == SubSeq(ring, p + 1, k)
                     b == Append(SubSeq(ring, p + 1, k - 1), ring[k])
          <5>1. /\ a \in Seq(Nat) /\ b \in Seq(Nat) /\ Len(a) = k - p /\ Len(b) = k - p
                /\ \A i \in 1 .. k - p : a[i] = ring[p + i]
            BY <1>2, <3>3
          <5>2. ASSUME NEW i \in 1 .. k - p PROVE b[i] = ring[p + i]
            BY <1>2, <3>3
          <5> HIDE DEF a, b
          <5>3. a = b
            BY <5>1, <5>2, SeqEqual
          <5> QED
            BY <5>3 DEF a, b
        <4> HIDE DEF h
        <4> QED
          BY <4>1, <4>2
      <3> QED
        BY <1>2, <3>1, <3>2, <3>3
    <2> DEFINE other == Step(h)
    <2>2. \A k \in 0 .. n : other[k] = h[k]
      <3> HIDE DEF h
      <3> QED
        BY <2>1
    <2>3. h = [k \in 0 .. n |-> h[k]] /\ other = [k \in 0 .. n |-> other[k]]
      OBVIOUS
    <2> HIDE DEF h, other
    <2>4. h = other
      BY <2>2, <2>3
    <2> QED
      BY <2>4 DEF other
  <1>5. kept = Step(kept)
    BY <1>4
  <1>6. ASSUME NEW k \in 0 .. n
        PROVE  /\ kept[k] = IF k = 0 THEN <<>>
                            ELSE IF ring[k] > id THEN Append(kept[k - 1], ring[k]) ELSE kept[k - 1]
               /\ h[k] = IF k = 0 THEN <<>>
                         ELSE IF ring[k] > id THEN Append(h[k - 1], ring[k]) ELSE h[k - 1]
    BY <1>4, <1>5
  <1> HIDE DEF h, kept
  <1> DEFINE T == {k \in 0 .. n : kept[k] # h[k]}
  <1>7. T = {}
    <2> SUFFICES ASSUME T # {} PROVE FALSE
      OBVIOUS
    <2>1. PICK k \in T : \A m \in T : k <= m
      <3>1. T \subseteq Nat
        BY <1>2
      <3> HIDE DEF T
      <3> QED
        BY <3>1, LeastNumber
    <2>2. k # 0
      BY <1>6, <2>1
    <2>3. k - 1 \in 0 .. n /\ k - 1 \notin T
      BY <1>2, <2>1, <2>2
    <2>4. kept[k - 1] = h[k - 1] /\ kept[k] # h[k] /\ k \in 0 .. n
      BY <2>1, <2>3
    <2> HIDE DEF T
    <2> QED
      BY <1>6, <2>2, <2>4
  <1>8. kept[n] = h[n]
    BY <1>2, <1>7
  <1>9. h[n] = SubSeq(ring, p + 1, n)
    BY <1>2 DEF h
  <1> QED
    BY <1>1, <1>8, <1>9

\* What was missed of the public events.
LEMMA RingServes ==
  ASSUME ReplayInv, NEW id \in 1 .. Len(log), NEW s \in 1 .. Len(ring) + 1,
         \A k \in 1 .. Len(ring) : k >= s <=> ring[k] > id,
         \A i \in MissedAfter(id) : \E k \in 1 .. Len(ring) : ring[k] = i
  PROVE  LET events == SubSeq(ring, s, Len(ring))
         IN  /\ events \in Seq(Nat) /\ Ascending(events)
             /\ Range(events) = MissedAfter(id)
  <1> DEFINE events == SubSeq(ring, s, Len(ring))
             n == Len(ring)
  <1>1. /\ ring \in Seq(Nat) /\ n \in Nat /\ s \in 1 .. n + 1
        /\ \A i, j \in 1 .. n : i < j => ring[i] < ring[j]
        /\ \A k \in 1 .. n : ring[k] \in 1 .. Len(log) /\ log[ring[k]] = "public"
    BY DEF ReplayInv, RingInv, Ascending
  <1>2. /\ events \in Seq(Nat) /\ Len(events) = n - s + 1
        /\ \A i \in 1 .. n - s + 1 : events[i] = ring[s + i - 1]
    BY <1>1
  <1> HIDE DEF events, n
  <1>3. ASSUME NEW i \in 1 .. Len(events), NEW j \in 1 .. Len(events), i < j
        PROVE  events[i] < events[j]
    <2>1. /\ s + i - 1 \in 1 .. n /\ s + j - 1 \in 1 .. n /\ s + i - 1 < s + j - 1
          /\ events[i] = ring[s + i - 1] /\ events[j] = ring[s + j - 1]
      BY <1>1, <1>2, <1>3
    <2> QED
      BY <1>1, <2>1
  <1>4. ASSUME NEW i \in 1 .. Len(events) PROVE events[i] \in MissedAfter(id)
    <2>1. s + i - 1 \in 1 .. n /\ s + i - 1 >= s /\ events[i] = ring[s + i - 1]
      BY <1>1, <1>2
    <2>2. ring[s + i - 1] > id
      BY <2>1 DEF n
    <2> QED
      BY <1>1, <2>1, <2>2 DEF MissedAfter
  <1>5. ASSUME NEW x \in MissedAfter(id) PROVE \E i \in 1 .. Len(events) : events[i] = x
    <2>1. PICK k \in 1 .. n : ring[k] = x
      BY DEF n
    <2>2. x > id
      BY DEF MissedAfter
    <2>3. k >= s
      BY <2>1, <2>2 DEF n
    <2>4. k - s + 1 \in 1 .. n - s + 1 /\ s + (k - s + 1) - 1 = k
      BY <1>1, <2>3
    <2>5. events[k - s + 1] = ring[s + (k - s + 1) - 1]
      BY <1>2, <2>4
    <2> QED
      BY <1>2, <2>1, <2>4, <2>5
  <1>6. DOMAIN events = 1 .. Len(events)
    BY <1>2
  <1>7. Range(events) = MissedAfter(id)
    <2>1. \A x : x \in Range(events) <=> \E i \in 1 .. Len(events) : events[i] = x
      BY <1>6 DEF Range
    <2> QED
      BY <1>4, <1>5, <2>1
  <1>8. Ascending(events)
    BY <1>3 DEF Ascending
  <1> QED
    BY <1>2, <1>7, <1>8 DEF events, n


\* A public event that the ring has lost is older than all that it holds.
LEMMA LostIsOlder ==
  ASSUME ReplayInv, NEW i \in 1 .. Len(log), log[i] = "public",
         \A k \in 1 .. Len(ring) : ring[k] # i
  PROVE  /\ 1 \in 1 .. Len(ring) /\ i < ring[1]
         /\ NumberIn(log, i) < NumberIn(log, Len(log)) - Len(ring) + 1
  <1>1. Len(ring) = Ring /\ i < ring[1] /\ ring \in Seq(Nat) /\ Ring \in Nat /\ Ring > 0
    BY LengthsPositive DEF ReplayInv, RingInv
  <1>2. 1 \in 1 .. Len(ring)
    BY <1>1
  <1>3. /\ ring[1] \in 1 .. Len(log) /\ log[ring[1]] = "public"
        /\ NumberIn(log, ring[1]) = NumberIn(log, Len(log)) - Len(ring) + 1
    BY <1>2 DEF ReplayInv, RingInv
  <1>4. log \in Seq(EventKinds) /\ ring[1] \in Nat /\ i \in Nat /\ ring[1] <= Len(log)
    BY <1>3 DEF ReplayInv
  <1>5. NumberIn(log, i) < NumberIn(log, ring[1])
    BY <1>1, <1>3, <1>4, Counting
  <1> QED
    BY <1>1, <1>2, <1>3, <1>5

LEMMA NumberOfAll ==
  ASSUME ReplayInv
  PROVE  PublicSeq = NumberIn(log, Len(log)) /\ PublicSeq \in Nat
  <1>1. log \in Seq(EventKinds) /\ Len(log) \in Nat
    BY DEF ReplayInv
  <1>2. PublicsIn(log, Len(log)) = {i \in 1 .. Len(log) : log[i] = "public"}
    BY <1>1 DEF PublicsIn
  <1> QED
    BY <1>1, <1>2, Counting DEF PublicSeq, NumberIn

\* A client that saw an event of the ring is served the rest of the ring.
LEMMA RingReplay ==
  ASSUME ReplayInv, NEW id \in 1 .. Len(log), InRing(id)
  PROVE  /\ Ascending(RingAfter(id))
         /\ Range(RingAfter(id)) = OwedAtBegin(id) \cup MissedAfter(id)
  <1>1. PICK p \in 1 .. Len(ring) : ring[p] = id
    BY DEF InRing
  <1>2. /\ ring \in Seq(Nat) /\ log[id] = "public" /\ Len(ring) \in Nat
        /\ \A i, j \in 1 .. Len(ring) : i < j => ring[i] < ring[j]
    BY <1>1 DEF ReplayInv, RingInv, Ascending
  <1>3. \A k \in 1 .. Len(ring) : ring[k] \in Nat
    BY <1>2
  <1>4. ASSUME NEW k \in 1 .. Len(ring) PROVE k >= p + 1 <=> ring[k] > id
    BY <1>1, <1>2, <1>3
  <1>5. ASSUME NEW i \in MissedAfter(id) PROVE \E k \in 1 .. Len(ring) : ring[k] = i
    <2>1. i \in 1 .. Len(log) /\ i > id /\ log[i] = "public"
      BY DEF MissedAfter
    <2> SUFFICES ASSUME \A k \in 1 .. Len(ring) : ring[k] # i PROVE FALSE
      OBVIOUS
    <2>2. 1 \in 1 .. Len(ring) /\ i < ring[1]
      BY <2>1, LostIsOlder
    <2>3. ring[1] <= ring[p]
      BY <1>1, <1>2, <1>3, <2>2
    <2>4. ring[1] \in Nat /\ id \in Nat
      BY <1>3, <2>2
    <2> QED
      BY <1>1, <2>1, <2>2, <2>3, <2>4
  <1>6. RingAfter(id) = SubSeq(ring, p + 1, Len(ring))
    BY <1>1, RingAfterIs
  <1>7. p + 1 \in 1 .. Len(ring) + 1
    BY <1>2
  <1>8. /\ Ascending(SubSeq(ring, p + 1, Len(ring)))
        /\ Range(SubSeq(ring, p + 1, Len(ring))) = MissedAfter(id)
    BY <1>4, <1>5, <1>7, RingServes
  <1>9. OwedAtBegin(id) = {}
    BY <1>2 DEF OwedAtBegin
  <1> QED
    BY <1>6, <1>8, <1>9

LEMMA ShiftedStart ==
  ASSUME NEW x \in Int, NEW y \in Int, NEW z \in Int
  PROVE  x - (y - z + 1) + 2 = x - y + z + 1
  OBVIOUS

\* A client that saw a private event is served what was pending then and the
\* part of the ring that came after it.
LEMMA AnchorReplay ==
  ASSUME ReplayInv, NEW id \in 1 .. Len(log), NEW a, AnchorInv(log, a), a.id = id,
         a.public >= Oldest - 1
  PROVE  LET events == a.pending \o SubSeq(ring, a.public - Oldest + 2, Len(ring))
         IN  /\ Ascending(events)
             /\ Range(events) = OwedAtBegin(id) \cup MissedAfter(id)
  <1> DEFINE s == a.public - Oldest + 2
             rest == SubSeq(ring, s, Len(ring))
             events == a.pending \o rest
  <1>1. /\ log \in Seq(EventKinds) /\ ring \in Seq(Nat) /\ Len(ring) \in Nat /\ Len(log) \in Nat
        /\ a.public \in Nat /\ a.public = NumberIn(log, id) /\ id \in Nat
    BY DEF ReplayInv, RingInv, AnchorInv, Anchors
  <1>2. Oldest = PublicSeq - Len(ring) + 1 /\ PublicSeq = NumberIn(log, Len(log)) /\ PublicSeq \in Nat
    BY NumberOfAll DEF Oldest
  <1>0. s = a.public - PublicSeq + Len(ring) + 1
    <2>1. a.public \in Int /\ Len(ring) \in Int /\ PublicSeq \in Int
      BY <1>1, <1>2
    <2>2. s = a.public - Oldest + 2
      OBVIOUS
    <2>3. a.public - (PublicSeq - Len(ring) + 1) + 2 = a.public - PublicSeq + Len(ring) + 1
      BY <2>1, ShiftedStart
    <2> QED
      BY <1>2, <2>2, <2>3, Zenon
  <1>3. a.public <= PublicSeq
    <2>1. id <= Len(log)
      BY <1>1
    <2> QED
      BY <1>1, <1>2, <2>1, Counting
  <1>4. s \in 1 .. Len(ring) + 1
    <2>1. a.public \in Int /\ Len(ring) \in Int /\ PublicSeq \in Int
      BY <1>1, <1>2
    <2>2. a.public >= PublicSeq - Len(ring) /\ a.public <= PublicSeq
      BY <1>2, <1>3, <2>1
    <2>3. s = a.public - PublicSeq + Len(ring) + 1
      BY <1>0
    <2> HIDE DEF s
    <2> QED
      BY <2>1, <2>2, <2>3
  <1>5. ASSUME NEW k \in 1 .. Len(ring)
        PROVE  /\ ring[k] \in 1 .. Len(log) /\ log[ring[k]] = "public"
               /\ NumberIn(log, ring[k]) = PublicSeq - Len(ring) + k
               /\ NumberIn(log, ring[k]) \in Nat
    <2>1. /\ ring[k] \in 1 .. Len(log) /\ log[ring[k]] = "public"
          /\ NumberIn(log, ring[k]) = NumberIn(log, Len(log)) - Len(ring) + k
      BY DEF ReplayInv, RingInv
    <2>2. NumberIn(log, ring[k]) \in Nat
      <3>1. ring[k] \in Nat /\ log \in Seq(EventKinds)
        BY <1>1, <2>1
      <3> QED
        BY <3>1, Counting
    <2> QED
      BY <1>2, <2>1, <2>2
  <1>6. ASSUME NEW k \in 1 .. Len(ring) PROVE k >= s <=> ring[k] > id
    <2>1. ring[k] \in Nat /\ ring[k] <= Len(log) /\ log[ring[k]] = "public"
      BY <1>1, <1>5
    <2>2. log \in Seq(EventKinds) /\ id \in Nat
      BY <1>1
    <2>3. ring[k] <= id => NumberIn(log, ring[k]) <= NumberIn(log, id)
      BY <2>1, <2>2, Counting
    <2>4. ASSUME ring[k] > id PROVE NumberIn(log, id) < NumberIn(log, ring[k])
      <3>1. id < ring[k]
        BY <2>1, <2>2, <2>4
      <3> QED
        BY <2>1, <2>2, <3>1, Counting
    <2>5. NumberIn(log, ring[k]) = PublicSeq - Len(ring) + k /\ NumberIn(log, ring[k]) \in Nat
      BY <1>5
    <2>0. s = a.public - PublicSeq + Len(ring) + 1
      BY <1>0
    <2> HIDE DEF s
    <2>6. k >= s <=> NumberIn(log, ring[k]) > a.public
      <3>1. k \in Nat /\ s \in Int
        BY <1>4
      <3>2. a.public \in Nat /\ PublicSeq \in Nat /\ Len(ring) \in Nat
        BY <1>1, <1>2
      <3> QED
        BY <2>0, <2>5, <3>1, <3>2
    <2>7. a.public = NumberIn(log, id) /\ a.public \in Nat
      BY <1>1
    <2> QED
      BY <2>1, <2>2, <2>3, <2>4, <2>5, <2>6, <2>7
  <1>7. ASSUME NEW i \in MissedAfter(id) PROVE \E k \in 1 .. Len(ring) : ring[k] = i
    <2>1. i \in 1 .. Len(log) /\ i > id /\ log[i] = "public" /\ i \in Nat /\ i <= Len(log)
      BY <1>1 DEF MissedAfter
    <2> SUFFICES ASSUME \A k \in 1 .. Len(ring) : ring[k] # i PROVE FALSE
      OBVIOUS
    <2>2. NumberIn(log, i) < NumberIn(log, Len(log)) - Len(ring) + 1
      BY <2>1, LostIsOlder
    <2>3. NumberIn(log, id) < NumberIn(log, i) /\ NumberIn(log, i) \in Nat
      BY <1>1, <2>1, Counting
    <2>4. a.public < NumberIn(log, i) /\ NumberIn(log, i) < PublicSeq - Len(ring) + 1
      BY <1>1, <1>2, <2>2, <2>3
    <2>5. a.public >= PublicSeq - Len(ring)
      BY <1>1, <1>2
    <2> QED
      BY <1>1, <1>2, <2>3, <2>4, <2>5
  <1> HIDE DEF s
  <1>8. rest \in Seq(Nat) /\ Ascending(rest) /\ Range(rest) = MissedAfter(id)
    BY <1>4, <1>6, <1>7, RingServes
  <1> HIDE DEF rest
  <1>9. CASE a.pending = <<>> /\ log[id] = "state"
    <2>1. events = rest
      BY <1>8, <1>9
    <2>2. OwedAtBegin(id) = {}
      BY <1>9 DEF OwedAtBegin
    <2> QED
      BY <1>8, <2>1, <2>2 DEF rest, s
  <1>10. CASE /\ a.pending = <<id + 1>> /\ log[id] = "hello"
              /\ id + 1 <= Len(log) /\ log[id + 1] = "state"
    <2>1. OwedAtBegin(id) = {id + 1}
      BY <1>1, <1>10 DEF OwedAtBegin
    <2>2. /\ events \in Seq(Nat) /\ Len(events) = Len(rest) + 1 /\ events[1] = id + 1
          /\ \A i \in 2 .. Len(rest) + 1 : events[i] = rest[i - 1]
      <3>1. <<id + 1>> \in Seq(Nat) /\ Len(<<id + 1>>) = 1 /\ <<id + 1>>[1] = id + 1
        BY <1>1
      <3> QED
        BY <1>1, <1>8, <1>10, <3>1
    <2> HIDE DEF events
    <2>3. DOMAIN rest = 1 .. Len(rest) /\ DOMAIN events = 1 .. Len(events) /\ Len(rest) \in Nat
      BY <1>8, <2>2
    <2>4. ASSUME NEW i \in 1 .. Len(rest) PROVE rest[i] \in Nat /\ rest[i] > id + 1
      <3>1. rest[i] \in MissedAfter(id)
        BY <1>8, <2>3 DEF Range
      <3>2. rest[i] \in 1 .. Len(log) /\ rest[i] > id /\ log[rest[i]] = "public"
        BY <3>1 DEF MissedAfter
      <3>3. rest[i] # id + 1
        BY <1>10, <3>2
      <3> QED
        BY <1>1, <3>2, <3>3
    <2>5. ASSUME NEW i \in 1 .. Len(events), NEW j \in 1 .. Len(events), i < j
          PROVE  events[i] < events[j]
      <3>1. j \in 2 .. Len(rest) + 1 /\ j - 1 \in 1 .. Len(rest) /\ events[j] = rest[j - 1]
        BY <2>2, <2>3, <2>5
      <3>2. CASE i = 1
        BY <2>2, <2>4, <3>1, <3>2, <1>1
      <3>3. CASE i # 1
        <4>1. i \in 2 .. Len(rest) + 1 /\ i - 1 \in 1 .. Len(rest) /\ events[i] = rest[i - 1]
              /\ i - 1 < j - 1
          BY <2>2, <2>3, <2>5, <3>3
        <4> QED
          BY <1>8, <3>1, <4>1 DEF Ascending
      <3> QED
        BY <3>2, <3>3
    <2>6. ASSUME NEW x PROVE x \in Range(events) <=> x = id + 1 \/ x \in Range(rest)
      <3>1. x \in Range(events) <=> \E i \in 1 .. Len(events) : events[i] = x
        BY <2>3 DEF Range
      <3>2. x \in Range(rest) <=> \E i \in 1 .. Len(rest) : rest[i] = x
        BY <2>3 DEF Range
      <3>3. ASSUME NEW i \in 1 .. Len(events), events[i] = x
            PROVE  x = id + 1 \/ \E k \in 1 .. Len(rest) : rest[k] = x
        <4>1. CASE i = 1
          BY <2>2, <3>3, <4>1
        <4>2. CASE i # 1
          <5>1. i \in 2 .. Len(rest) + 1 /\ i - 1 \in 1 .. Len(rest)
            BY <2>2, <2>3, <4>2
          <5> QED
            BY <2>2, <3>3, <5>1
        <4> QED
          BY <4>1, <4>2
      <3>4. 1 \in 1 .. Len(events)
        BY <2>2, <2>3
      <3>5. ASSUME NEW i \in 1 .. Len(rest), rest[i] = x
            PROVE  \E k \in 1 .. Len(events) : events[k] = x
        <4>1. i + 1 \in 2 .. Len(rest) + 1 /\ i + 1 \in 1 .. Len(events) /\ (i + 1) - 1 = i
          BY <2>2, <2>3
        <4>2. events[i + 1] = rest[(i + 1) - 1]
          BY <2>2, <4>1
        <4> QED
          BY <3>5, <4>1, <4>2
      <3> QED
        BY <2>2, <3>1, <3>2, <3>3, <3>4, <3>5
    <2>7. Ascending(events)
      BY <2>5 DEF Ascending
    <2>8. Range(events) = OwedAtBegin(id) \cup MissedAfter(id)
      BY <1>8, <2>1, <2>6
    <2> QED
      BY <2>7, <2>8 DEF events, rest, s
  <1>11. \/ a.pending = <<>> /\ log[id] = "state"
         \/ /\ a.pending = <<id + 1>> /\ log[id] = "hello"
            /\ id + 1 <= Len(log) /\ log[id + 1] = "state"
    BY DEF AnchorInv
  <1> QED
    BY <1>9, <1>10, <1>11

LEMMA ReplayInvServes == ReplayInv => ReplayComplete
  <1> SUFFICES ASSUME ReplayInv, NEW id \in 1 .. Len(log), ~Replay(id).gap
               PROVE  /\ Ascending(Replay(id).events)
                      /\ Range(Replay(id).events) = OwedAtBegin(id) \cup MissedAfter(id)
    BY DEF ReplayComplete
  <1>1. CASE InRing(id)
    <2>1. Replay(id).events = RingAfter(id)
      BY <1>1 DEF Replay, NoGap
    <2> QED
      BY <1>1, <2>1, RingReplay
  <1>2. CASE ~InRing(id)
    <2>1. \E i \in AnchorsOf(id) : anchors[i].public >= Oldest - 1
      BY <1>2 DEF Replay, ReplayGap
    <2> DEFINE i == CHOOSE i \in AnchorsOf(id) : TRUE
    <2>2. i \in AnchorsOf(id)
      BY <2>1
    <2>3. Replay(id).events =
             anchors[i].pending \o SubSeq(ring, anchors[i].public - Oldest + 2, Len(ring))
      BY <1>2, <2>1 DEF Replay, NoGap
    <2> HIDE DEF i
    <2>4. \A k \in AnchorsOf(id) : AnchorInv(log, anchors[k]) /\ anchors[k].id = id
      BY DEF AnchorsOf, ReplayInv, AnchorsInv
    <2>5. anchors[i].public >= Oldest - 1
      BY <2>1, <2>2, <2>4 DEF AnchorInv
    <2> QED
      BY <2>2, <2>3, <2>4, <2>5, AnchorReplay
  <1> QED
    BY <1>1, <1>2


\* What a step does to the events and to the streams.
LiveMove ==
    \/ UNCHANGED liveVars
    \/ PublishEvent
    \/ \E c \in Client : LiveStep(c)
    \/ EndLive
    \/ CloseConnections
    \/ anchors' = <<>> /\ UNCHANGED <<log, ring, conn>>

LEMMA StepsMove == [RNext]_rvars => LiveMove
  <1> SUFFICES ASSUME [RNext]_rvars PROVE LiveMove
    OBVIOUS
  <1>1. CASE UNCHANGED rvars
    BY <1>1 DEF LiveMove, rvars
  <1>2. CASE BeginConnect \/ OpenFails \/ Abandon \/ CloseObservation \/ BeginSampling
    BY <1>2 DEF LiveMove, BeginConnect, OpenFails, Abandon, CloseObservation, BeginSampling
  <1>3. CASE OpenSucceeds
    BY <1>3 DEF LiveMove, OpenSucceeds, BindProbe, SamplerRefused, StatePublished, StateUnreadable
  <1>4. CASE (\E kind \in {"release", "reconnect"} : BeginRelease(kind)) \/ Detach
    BY <1>4 DEF LiveMove, BeginRelease, Detach, Detached, StatePublished, StateUnreadable
  <1>5. CASE CloseSampler \/ SamplingAnswered \/ \E b \in Bindings : RunEnds(b)
    BY <1>5 DEF LiveMove, CloseSampler, SamplingAnswered, RunEnds, StopSampler, StatePublished,
                StateUnreadable
  <1>6. CASE ForwardSample \/ Heartbeat
    BY <1>6 DEF LiveMove, ForwardSample, Heartbeat
  <1>7. CASE AskSource \/ AnswerSource \/ RefuseSource \/ BeginStop \/ CancelTasks
    BY <1>7 DEF LiveMove, AskSource, AnswerSource, RefuseSource, Closed, BeginStop, CancelTasks
  <1>8. CASE StopStreams \/ StopService \/ StopLastSampler \/ StopObservation
    BY <1>8 DEF LiveMove, StopStreams, StopService, StopLastSampler, StopObservation, StopSampler,
                StatePublished, StateUnreadable
  <1>9. CASE \E c \in Client : LiveStep(c)
    BY <1>9 DEF LiveMove
  <1> QED
    BY <1>1, <1>2, <1>3, <1>4, <1>5, <1>6, <1>7, <1>8, <1>9 DEF RNext, RequestStep, StopStep

LEMMA PushKeeps ==
  ASSUME NEW S, NEW s \in Seq(S), NEW x \in S, NEW n \in Nat \ {0}
  PROVE  Push(s, x, n) \in Seq(S)
  <1>1. CASE Len(s) < n
    BY <1>1 DEF Push
  <1>2. CASE ~(Len(s) < n)
    <2>1. Push(s, x, n) = Append(Tail(s), x) /\ s # <<>>
      BY <1>2 DEF Push
    <2> QED
      BY <2>1
  <1> QED
    BY <1>1, <1>2

LEMMA SeqInto ==
  ASSUME NEW S, NEW T, NEW s \in Seq(S), \A k \in 1 .. Len(s) : s[k] \in T
  PROVE  s \in Seq(T)
  <1>1. s \in [1 .. Len(s) -> T] /\ Len(s) \in Nat
    OBVIOUS
  <1> QED
    BY <1>1

LEMMA ElementIn ==
  ASSUME NEW S, NEW s \in Seq(S), NEW k \in 1 .. Len(s) PROVE s[k] \in S
  OBVIOUS

LEMMA AnchorsGrow ==
  ASSUME NEW l, NEW kept, AnchorsInv(l, kept), NEW a, AnchorInv(l, a)
  PROVE  AnchorsInv(l, Push(kept, a, AnchorRing))
  <1> DEFINE Good == {x \in Anchors : AnchorInv(l, x)}
             new == Push(kept, a, AnchorRing)
  <1>1. kept \in Seq(Anchors) /\ \A k \in 1 .. Len(kept) : kept[k] \in Good
    <2>1. kept \in Seq(Anchors)
      BY DEF AnchorsInv
    <2>2. ASSUME NEW k \in 1 .. Len(kept) PROVE kept[k] \in Anchors /\ AnchorInv(l, kept[k])
      <3>1. kept[k] \in Anchors
        BY <2>1, ElementIn
      <3>2. AnchorInv(l, kept[k])
        BY Zenon DEF AnchorsInv
      <3> QED
        BY <3>1, <3>2
    <2> QED
      BY <2>1, <2>2
  <1>2. a \in Good /\ AnchorRing \in Nat \ {0}
    BY LengthsPositive DEF AnchorInv
  <1> HIDE DEF Good
  <1>3. kept \in Seq(Good)
    BY <1>1, SeqInto
  <1>4. new \in Seq(Good)
    BY <1>2, <1>3, PushKeeps
  <1> HIDE DEF new
  <1>5. \A k \in 1 .. Len(new) : new[k] \in Good
    BY <1>4
  <1>6. \A k \in 1 .. Len(new) : new[k] \in Anchors /\ AnchorInv(l, new[k])
    BY <1>5 DEF Good
  <1>7. new \in Seq(Anchors)
    BY <1>4, <1>6
  <1> QED
    BY <1>6, <1>7 DEF AnchorsInv, new

LEMMA ReplayNow ==
  ASSUME ReplayInv, NEW l \in Seq(EventKinds), NEW r, NEW kept,
         log' = l, ring' = r, anchors' = kept, RingInv(l, r), AnchorsInv(l, kept)
  PROVE  ReplayInv'
  <1>1. log' \in Seq(EventKinds)
    OBVIOUS
  <1>2. RingInv(log, ring)'
    BY DEF RingInv, NumberIn, PublicsIn, Ascending
  <1>3. AnchorsInv(log, anchors)'
    BY DEF AnchorsInv, AnchorInv, NumberIn, PublicsIn
  <1> QED
    BY <1>1, <1>2, <1>3 DEF ReplayInv

LEMMA AnchorsStay ==
  ASSUME NEW l \in Seq(EventKinds), NEW m \in Seq(EventKinds),
         Privately(l, m) \/ m = Append(l, "public"), NEW kept, AnchorsInv(l, kept)
  PROVE  AnchorsInv(m, kept)
  BY PrivateAnchor DEF AnchorsInv

LEMMA BootstrapReplay ==
  ASSUME ReplayInv, NEW c \in Client, Bootstrap(c)
  PROVE  ReplayInv'
  <1> DEFINE n == Len(log)
             m == log \o <<"hello", "state">>
             first == [id |-> n + 1, public |-> PublicSeq, pending |-> <<n + 2>>]
             second == [id |-> n + 2, public |-> PublicSeq, pending |-> <<>>]
  <1>1. /\ log \in Seq(EventKinds) /\ n \in Nat /\ RingInv(log, ring) /\ AnchorsInv(log, anchors)
        /\ PublicSeq = NumberIn(log, n) /\ PublicSeq \in Nat
    BY NumberOfAll DEF ReplayInv
  <1>2. /\ m \in Seq(EventKinds) /\ Len(m) = n + 2 /\ m[n + 1] = "hello" /\ m[n + 2] = "state"
        /\ \A i \in 1 .. n : m[i] = log[i]
    <2>1. <<"hello", "state">> \in Seq(EventKinds) /\ Len(<<"hello", "state">>) = 2
      BY DEF EventKinds
    <2> QED
      BY <1>1, <2>1
  <1>3. /\ log' = m /\ ring' = ring
        /\ anchors' = Push(Push(anchors, first, AnchorRing), second, AnchorRing)
    <2>1. NextId = n + 1 /\ NextId + 1 = n + 2
      BY <1>1 DEF NextId
    <2> QED
      BY <2>1 DEF Bootstrap
  <1> HIDE DEF m, n
  <1>4. Privately(log, m)
    BY <1>1, <1>2 DEF Privately, n
  <1>5. NumberIn(m, n + 1) = PublicSeq /\ NumberIn(m, n + 2) = PublicSeq
    <2>1. n + 1 \in Nat /\ n + 1 >= Len(log) /\ n + 2 \in Nat /\ n + 2 >= Len(log)
      BY <1>1 DEF n
    <2> QED
      BY <1>1, <1>2, <1>4, <2>1, SameNumbers DEF n
  <1>6. AnchorInv(m, first) /\ AnchorInv(m, second)
    <2>1. first \in Anchors /\ second \in Anchors
      BY <1>1 DEF Anchors
    <2>2. /\ first.id = n + 1 /\ first.public = PublicSeq /\ first.pending = <<n + 2>>
          /\ second.id = n + 2 /\ second.public = PublicSeq /\ second.pending = <<>>
      OBVIOUS
    <2>3. n + 1 \in 1 .. Len(m) /\ n + 2 \in 1 .. Len(m) /\ (n + 1) + 1 = n + 2
      BY <1>1, <1>2
    <2> HIDE DEF first, second
    <2> QED
      BY <1>2, <1>5, <2>1, <2>2, <2>3 DEF AnchorInv
  <1> HIDE DEF first, second
  <1>7. AnchorsInv(m, anchors')
    <2>1. AnchorsInv(m, anchors)
      BY <1>1, <1>2, <1>4, AnchorsStay
    <2> QED
      BY <1>3, <1>6, <2>1, AnchorsGrow
  <1>8. RingInv(m, ring)
    BY <1>1, <1>2, <1>4, PrivateRing
  <1> QED
    BY <1>2, <1>3, <1>7, <1>8, ReplayNow

LEMMA BootstrapFailsReplay ==
  ASSUME ReplayInv, NEW c \in Client, BootstrapFails(c)
  PROVE  ReplayInv'
  <1>1. log \in Seq(EventKinds) /\ RingInv(log, ring) /\ AnchorsInv(log, anchors)
    BY DEF ReplayInv
  <1>2. log' = Append(log, "hello") /\ ring' = ring /\ anchors' = anchors
    BY DEF BootstrapFails
  <1>3. Append(log, "hello") \in Seq(EventKinds)
    BY <1>1 DEF EventKinds
  <1>4. Privately(log, Append(log, "hello"))
    BY <1>1 DEF Privately
  <1> QED
    BY <1>1, <1>2, <1>3, <1>4, PrivateRing, AnchorsStay, ReplayNow

LEMMA ReplayMoves ==
  ASSUME ReplayInv, LiveMove
  PROVE  ReplayInv'
  <1>1. log \in Seq(EventKinds) /\ RingInv(log, ring) /\ AnchorsInv(log, anchors)
    BY DEF ReplayInv
  <1>2. CASE UNCHANGED <<log, ring, anchors>>
    BY <1>1, <1>2, ReplayNow
  <1>3. CASE PublishEvent
    <2>1. Append(log, "public") \in Seq(EventKinds)
      BY <1>1 DEF EventKinds
    <2>2. AnchorsInv(Append(log, "public"), anchors)
      BY <1>1, <2>1, AnchorsStay
    <2>3. RingInv(Append(log, "public"), Push(ring, Len(log) + 1, Ring))
      BY <1>1, PublishRing
    <2> QED
      BY <1>3, <2>1, <2>2, <2>3, ReplayNow DEF PublishEvent, NextId
  <1>4. CASE anchors' = <<>> /\ UNCHANGED <<log, ring, conn>>
    <2>1. AnchorsInv(log, <<>>)
      BY DEF AnchorsInv
    <2> QED
      BY <1>1, <1>4, <2>1, ReplayNow
  <1>5. CASE \E c \in Client : Bootstrap(c)
    BY <1>5, BootstrapReplay
  <1>6. CASE \E c \in Client : BootstrapFails(c)
    BY <1>6, BootstrapFailsReplay
  <1>7. CASE \E c \in Client : LiveStep(c)
    <2>1. PICK c \in Client : LiveStep(c)
      BY <1>7
    <2> QED
      BY <2>1, <1>2, <1>5, <1>6 DEF LiveStep, Join, Resubscribe, Yield, Send, Leave
  <1> QED
    BY <1>2, <1>3, <1>4, <1>7 DEF LiveMove, liveVars, EndLive, CloseConnections

LEMMA ReplayInit == RInit => ReplayInv
  <1> SUFFICES ASSUME RInit PROVE ReplayInv
    OBVIOUS
  <1>1. log = <<>> /\ ring = <<>> /\ anchors = <<>>
    BY DEF RInit, LInit
  <1> QED
    BY <1>1, LengthsPositive DEF ReplayInv, RingInv, AnchorsInv, Ascending

\* Whatever event a client saw last, it is served exactly what it has missed,
\* or told that there is a gap.
THEOREM ReplayIsComplete == RSpec => []ReplayComplete
  <1>1. ReplayInv /\ [RNext]_rvars => ReplayInv'
    BY StepsMove, ReplayMoves
  <1> QED
    BY <1>1, ReplayInit, ReplayInvServes, PTL DEF RSpec


-----------------------------------------------------------------------------
(* The live events: what a relay loses.                                    *)

Items == [event : Nat, dropped : Int]
StreamStates == {"off", "on", "over"}
Conns == [stream : StreamStates, queue : Seq(Nat), relay : Seq(Items), lost : Int]

\* The losses of a connection are those its items carry.
Tells(k) == k \in Conns /\ Len(k.relay) <= RelayQueue /\ k.lost = Told(k.relay)

TellingInv ==
    /\ conn \in [Client -> Conns]
    /\ \A c \in Client : Tells(conn[c])

LEMMA ToldSums ==
  ASSUME NEW items \in Seq(Items)
  PROVE  /\ Told(<<>>) = 0 /\ Told(items) \in Int
         /\ \A x \in Items : Told(Append(items, x)) = Told(items) + x.dropped
         /\ items # <<>> => Told(items) = Head(items).dropped + Told(Tail(items))
  <1> DEFINE g == [x \in Items |-> x.dropped]
  <1>1. g \in [Items -> Int]
    BY DEF Items
  <1>2. ASSUME NEW q \in Seq(Items) PROVE Told(q) = SumFunction(Values(q, g))
    <2>1. \A i \in DOMAIN q : g[q[i]] = q[i].dropped
      OBVIOUS
    <2>2. Values(q, g) = [i \in DOMAIN q |-> q[i].dropped]
      BY <2>1 DEF Values
    <2> QED
      BY <2>2 DEF Told
  <1>3. \A x \in Items : g[x] = x.dropped /\ Append(items, x) \in Seq(Items)
    OBVIOUS
  <1>4. items # <<>> => Head(items) \in Items /\ Tail(items) \in Seq(Items)
    OBVIOUS
  <1>5. <<>> \in Seq(Items)
    OBVIOUS
  <1> HIDE DEF g
  <1>6. /\ SumFunction(Values(<<>>, g)) = 0
        /\ SumFunction(Values(items, g)) \in Int
        /\ \A x \in Items : SumFunction(Values(Append(items, x), g))
                              = SumFunction(Values(items, g)) + g[x]
        /\ items # <<>> => SumFunction(Values(items, g))
                             = g[Head(items)] + SumFunction(Values(Tail(items), g))
    BY <1>1, QueueSums
  <1> QED
    BY <1>2, <1>3, <1>4, <1>5, <1>6

LEMMA RelayTells ==
  ASSUME NEW k, Tells(k), NEW event \in Nat
  PROVE  Tells(Relay(k, event)) /\ Relay(k, event).stream = k.stream
  <1> DEFINE item == [event |-> event,
                      dropped |-> IF Overflows(k) THEN Head(k.relay).dropped + 1 ELSE 0]
             relay == Push(k.relay, item, RelayQueue)
             lost == IF Overflows(k) THEN k.lost + 1 ELSE k.lost
  <1>1. /\ k \in Conns /\ k.relay \in Seq(Items) /\ Len(k.relay) \in Nat
        /\ Len(k.relay) <= RelayQueue /\ RelayQueue \in Nat /\ RelayQueue > 0
        /\ k.lost = Told(k.relay) /\ k.lost \in Int
    BY LengthsPositive DEF Tells, Conns
  <1>2. Relay(k, event) = [k EXCEPT !.relay = relay, !.lost = lost]
    BY DEF Relay
  <1>3. /\ relay \in Seq(Items) /\ Len(relay) <= RelayQueue /\ lost = Told(relay) /\ lost \in Int
    <2>1. CASE Overflows(k)
      <3>1. /\ k.relay # <<>> /\ ~(Len(k.relay) < RelayQueue) /\ Head(k.relay) \in Items
            /\ Tail(k.relay) \in Seq(Items) /\ Len(Tail(k.relay)) = Len(k.relay) - 1
        BY <1>1, <2>1 DEF Overflows
      <3>2. Head(k.relay).dropped \in Int
        BY <3>1 DEF Items
      <3>3. item \in Items /\ item.dropped = Head(k.relay).dropped + 1
        BY <2>1, <3>2 DEF Items
      <3>4. relay = Append(Tail(k.relay), item)
        BY <3>1 DEF Push
      <3> HIDE DEF item, relay
      <3>5. Told(relay) = Told(Tail(k.relay)) + item.dropped
        BY <3>1, <3>3, <3>4, ToldSums
      <3>6. Told(k.relay) = Head(k.relay).dropped + Told(Tail(k.relay))
        BY <1>1, <3>1, ToldSums
      <3>7. Told(Tail(k.relay)) \in Int
        BY <3>1, ToldSums
      <3>8. relay \in Seq(Items) /\ Len(relay) = Len(k.relay)
        BY <1>1, <3>1, <3>3, <3>4
      <3> QED
        BY <1>1, <2>1, <3>2, <3>3, <3>5, <3>6, <3>7, <3>8
    <2>2. CASE ~Overflows(k)
      <3>1. Len(k.relay) < RelayQueue
        BY <1>1, <2>2 DEF Overflows
      <3>2. item \in Items /\ item.dropped = 0
        BY <2>2 DEF Items
      <3>3. relay = Append(k.relay, item)
        BY <3>1 DEF Push
      <3> HIDE DEF item, relay
      <3>4. Told(relay) = Told(k.relay) + item.dropped
        BY <1>1, <3>2, <3>3, ToldSums
      <3>5. relay \in Seq(Items) /\ Len(relay) = Len(k.relay) + 1
        BY <1>1, <3>2, <3>3
      <3> QED
        BY <1>1, <2>2, <3>1, <3>2, <3>4, <3>5
    <2> QED
      BY <2>1, <2>2
  <1> HIDE DEF item, relay, lost
  <1>4. /\ Relay(k, event) \in Conns /\ Relay(k, event).relay = relay
        /\ Relay(k, event).lost = lost /\ Relay(k, event).stream = k.stream
    BY <1>1, <1>2, <1>3 DEF Conns
  <1> QED
    BY <1>3, <1>4 DEF Tells

LEMMA NothingTold == Tells(NoConn) /\ \A s \in StreamStates : Tells([NoConn EXCEPT !.stream = s])
  <1>0. <<>> \in Seq(Items) /\ <<>> \in Seq(Nat) /\ Len(<<>>) = 0
    OBVIOUS
  <1>1. <<>> \in Seq(Items) /\ Told(<<>>) = 0 /\ Len(<<>>) = 0 /\ <<>> \in Seq(Nat)
    BY <1>0, ToldSums
  <1>2. ASSUME NEW s \in StreamStates
        PROVE  /\ [NoConn EXCEPT !.stream = s] \in Conns
               /\ [NoConn EXCEPT !.stream = s].relay = <<>> /\ [NoConn EXCEPT !.stream = s].lost = 0
    <2>1. [NoConn EXCEPT !.stream = s]
             = [stream |-> s, queue |-> <<>>, relay |-> <<>>, lost |-> 0]
      BY DEF NoConn
    <2>2. [stream |-> s, queue |-> <<>>, relay |-> <<>>, lost |-> 0] \in Conns
      BY <1>0 DEF Conns
    <2> QED
      BY <2>1, <2>2
  <1>3. NoConn \in Conns /\ NoConn.relay = <<>> /\ NoConn.lost = 0
    BY <1>1 DEF NoConn, Conns, StreamStates
  <1> QED
    BY <1>1, <1>2, <1>3, LengthsPositive DEF Tells

\* The steps of Begin, one for each event.
Beginnings(events, n) ==
    {g \in [0 .. n -> {k \in Conns : Tells(k)}] :
        /\ g[0] = [NoConn EXCEPT !.stream = "on"]
        /\ \A i \in 1 .. n : g[i] = Relay(g[i - 1], events[i])}

LEMMA BeginningsExist ==
  ASSUME NEW events \in Seq(Nat), NEW n \in 0 .. Len(events)
  PROVE  \E g : g \in Beginnings(events, n)
  <1> DEFINE N == Len(events)
             T == {m \in 0 .. N : \A g : g \notin Beginnings(events, m)}
             Good == {k \in Conns : Tells(k)}
             base == [NoConn EXCEPT !.stream = "on"]
  <1>0. N \in Nat /\ \A i \in 1 .. N : events[i] \in Nat
    OBVIOUS
  <1>00. base \in Good
    BY NothingTold DEF Tells, StreamStates
  <1> SUFFICES ASSUME T # {} PROVE FALSE
    OBVIOUS
  <1>1. PICK k \in T : \A m \in T : k <= m
    <2>1. T \subseteq Nat
      OBVIOUS
    <2> HIDE DEF T
    <2> QED
      BY <2>1, LeastNumber
  <1>2. k # 0
    <2>1. [i \in 0 .. 0 |-> base] \in Beginnings(events, 0)
      BY <1>00 DEF Beginnings
    <2> QED
      BY <2>1
  <1>3. k \in 1 .. N /\ k - 1 \in 0 .. N /\ k - 1 \notin T
    <2>1. k \in 0 .. N
      BY <1>1
    <2>2. k \in 1 .. N /\ k - 1 \in 0 .. N /\ ~(k <= k - 1)
      BY <1>0, <1>2, <2>1
    <2> HIDE DEF T, N
    <2> QED
      BY <1>1, <2>2
  <1>4. PICK g : g \in Beginnings(events, k - 1)
    BY <1>3
  <1>5. /\ g \in [0 .. k - 1 -> Good] /\ g[0] = base
        /\ \A i \in 1 .. k - 1 : g[i] = Relay(g[i - 1], events[i])
    BY <1>4 DEF Beginnings
  <1> DEFINE new == Relay(g[k - 1], events[k])
             h == [i \in 0 .. k |-> IF i = k THEN new ELSE g[i]]
  <1>6. new \in Good
    <2>1. g[k - 1] \in Good
      BY <1>3, <1>5
    <2>2. Tells(g[k - 1]) /\ events[k] \in Nat
      BY <1>0, <1>3, <2>1
    <2>3. Tells(new)
      BY <2>2, RelayTells
    <2> QED
      BY <2>3 DEF Tells
  <1>7. h \in Beginnings(events, k)
    <2> HIDE DEF Good, base
    <2>1. h \in [0 .. k -> Good] /\ h[0] = base
      <3> HIDE DEF new
      <3> QED
        BY <1>3, <1>5, <1>6
    <2>2. ASSUME NEW i \in 1 .. k PROVE h[i] = Relay(h[i - 1], events[i])
      <3>1. i \in 0 .. k /\ i - 1 \in 0 .. k /\ i - 1 # k
        BY <1>3
      <3>2. h[i - 1] = g[i - 1]
        BY <3>1
      <3>3. CASE i = k
        BY <3>1, <3>2, <3>3
      <3>4. CASE i # k
        <4>1. i \in 1 .. k - 1
          BY <1>3, <3>4
        <4>2. h[i] = g[i]
          BY <3>1, <3>4
        <4> QED
          BY <1>5, <3>2, <4>1, <4>2
      <3> QED
        BY <3>3, <3>4
    <2> HIDE DEF h
    <2> QED
      BY <2>1, <2>2 DEF Beginnings, Good, base
  <1> QED
    BY <1>1, <1>7

LEMMA BeginTells ==
  ASSUME NEW events \in Seq(Nat)
  PROVE  Tells(Begin(events))
  <1> DEFINE n == Len(events)
             base == [NoConn EXCEPT !.stream = "on"]
             Step(g) == [k \in 0 .. n |-> IF k = 0 THEN base ELSE Relay(g[k - 1], events[k])]
             begun == CHOOSE g : g = Step(g)
  <1>1. Begin(events) = begun[n]
    BY DEF Begin
  <1>2. n \in Nat /\ \A i \in 1 .. n : events[i] \in Nat
    OBVIOUS
  <1>3. PICK h : h \in Beginnings(events, n)
    BY <1>2, BeginningsExist
  <1>4. h = Step(h)
    <2>1. \A k \in 0 .. n : h[k] = IF k = 0 THEN base ELSE Relay(h[k - 1], events[k])
      BY <1>3 DEF Beginnings
    <2>2. h = [k \in 0 .. n |-> h[k]]
      BY <1>3 DEF Beginnings
    <2> QED
      BY <2>1, <2>2
  <1>5. begun = Step(begun)
    BY <1>4
  <1>6. \A k \in 0 .. n : begun[k] = IF k = 0 THEN base ELSE Relay(begun[k - 1], events[k])
    BY <1>5
  <1> HIDE DEF begun
  <1> DEFINE T == {k \in 0 .. n : ~Tells(begun[k])}
  <1>7. T = {}
    <2> SUFFICES ASSUME T # {} PROVE FALSE
      OBVIOUS
    <2>1. PICK k \in T : \A m \in T : k <= m
      <3>1. T \subseteq Nat
        BY <1>2
      <3> HIDE DEF T
      <3> QED
        BY <3>1, LeastNumber
    <2>2. k # 0
      BY <1>2, <1>6, <2>1, NothingTold DEF StreamStates
    <2>3. k \in 1 .. n /\ k - 1 \in 0 .. n /\ k - 1 \notin T
      BY <1>2, <2>1, <2>2
    <2>4. Tells(begun[k - 1]) /\ ~Tells(begun[k]) /\ events[k] \in Nat
      BY <1>2, <2>1, <2>3
    <2>5. begun[k] = Relay(begun[k - 1], events[k])
      BY <1>6, <2>2, <2>3
    <2> HIDE DEF T
    <2> QED
      BY <2>4, <2>5, RelayTells
  <1>8. n \in 0 .. n
    BY <1>2
  <1> QED
    BY <1>1, <1>7, <1>8


LEMMA TellingNow ==
  ASSUME TellingInv, NEW c \in Client, NEW k, conn' = [conn EXCEPT ![c] = k], Tells(k)
  PROVE  TellingInv'
  <1>1. conn \in [Client -> Conns] /\ \A d \in Client : Tells(conn[d])
    BY DEF TellingInv
  <1>2. k \in Conns
    BY DEF Tells
  <1>3. conn' \in [Client -> Conns]
    BY <1>1, <1>2
  <1>4. ASSUME NEW d \in Client PROVE conn'[d] \in {k, conn[d]}
    BY <1>1
  <1>5. \A d \in Client : \A x : x = conn'[d] => Tells(x)
    BY <1>1, <1>4
  <1> QED
    BY <1>3, <1>5 DEF TellingInv, Tells

\* An element more on the live queue, or one less.
LEMMA QueueTells ==
  ASSUME NEW k, Tells(k), NEW q \in Seq(Nat)
  PROVE  /\ Tells([k EXCEPT !.queue = q])
         /\ \A s \in StreamStates : Tells([[k EXCEPT !.queue = q] EXCEPT !.stream = s])
  <1> DEFINE one == [k EXCEPT !.queue = q]
  <1>1. k \in Conns /\ Len(k.relay) <= RelayQueue /\ k.lost = Told(k.relay)
    BY DEF Tells
  <1>2. one \in Conns /\ one.relay = k.relay /\ one.lost = k.lost
    BY <1>1 DEF Conns
  <1>3. ASSUME NEW s \in StreamStates
        PROVE  /\ [one EXCEPT !.stream = s] \in Conns
               /\ [one EXCEPT !.stream = s].relay = k.relay /\ [one EXCEPT !.stream = s].lost = k.lost
    <2> HIDE DEF one
    <2> QED
      BY <1>2 DEF Conns
  <1> QED
    BY <1>1, <1>2, <1>3 DEF Tells

\* An event for every stream.
LEMMA AllTells ==
  ASSUME TellingInv, NEW x \in Nat,
         conn' = [c \in Client |->
                    IF c \in On THEN [conn[c] EXCEPT !.queue = Push(@, x, LiveQueue)]
                    ELSE conn[c]]
  PROVE  TellingInv'
  <1>1. conn \in [Client -> Conns] /\ \A c \in Client : Tells(conn[c])
    BY DEF TellingInv
  <1>2. ASSUME NEW c \in Client PROVE conn'[c] \in Conns /\ \A y : y = conn'[c] => Tells(y)
    <2> DEFINE q == Push(conn[c].queue, x, LiveQueue)
    <2>1. conn'[c] = IF c \in On THEN [conn[c] EXCEPT !.queue = q] ELSE conn[c]
      OBVIOUS
    <2>2. conn[c].queue \in Seq(Nat) /\ LiveQueue \in Nat \ {0}
      BY <1>1, LengthsPositive DEF Conns
    <2>3. q \in Seq(Nat)
      BY <2>2, PushKeeps
    <2> HIDE DEF q
    <2>4. Tells([conn[c] EXCEPT !.queue = q]) /\ Tells(conn[c])
      BY <1>1, <2>3, QueueTells
    <2> QED
      BY <2>1, <2>4 DEF Tells
  <1>3. conn' \in [Client -> Conns]
    <2>1. conn' = [c \in Client |-> conn'[c]]
      OBVIOUS
    <2> QED
      BY <1>2, <2>1
  <1> QED
    BY <1>2, <1>3 DEF TellingInv, Tells

LEMMA ReplayedAreNumbers ==
  ASSUME ReplayInv, NEW id \in 1 .. Len(log)
  PROVE  Replay(id).events \in Seq(Nat)
  <1>1. ring \in Seq(Nat) /\ Len(ring) \in Nat
    BY DEF ReplayInv, RingInv
  <1>2. CASE InRing(id)
    <2>1. PICK p \in 1 .. Len(ring) : ring[p] = id
      BY <1>2 DEF InRing
    <2>2. Replay(id).events = SubSeq(ring, p + 1, Len(ring))
      BY <1>2, <2>1, RingAfterIs DEF Replay, NoGap
    <2>3. SubSeq(ring, p + 1, Len(ring)) \in Seq(Nat)
      BY <1>1, <2>1
    <2> QED
      BY <2>2, <2>3
  <1>3. CASE ~InRing(id) /\ \E i \in AnchorsOf(id) : anchors[i].public >= Oldest - 1
    <2> DEFINE i == CHOOSE i \in AnchorsOf(id) : TRUE
    <2>1. i \in AnchorsOf(id)
      BY <1>3
    <2>2. Replay(id).events =
             anchors[i].pending \o SubSeq(ring, anchors[i].public - Oldest + 2, Len(ring))
      BY <1>3 DEF Replay, NoGap
    <2> HIDE DEF i
    <2>3. \A k \in AnchorsOf(id) : AnchorInv(log, anchors[k]) /\ anchors[k].id = id
      BY DEF AnchorsOf, ReplayInv, AnchorsInv
    <2>4. anchors[i].pending \in Seq(Nat) /\ anchors[i].public \in Nat
          /\ anchors[i].public = NumberIn(log, id)
      BY <2>1, <2>3 DEF AnchorInv, Anchors
    <2>5. anchors[i].public >= Oldest - 1
      BY <1>3, <2>3, <2>4 DEF AnchorInv
    <2>6. Oldest \in Int
      BY <1>1, NumberOfAll DEF Oldest
    <2>7. SubSeq(ring, anchors[i].public - Oldest + 2, Len(ring)) \in Seq(Nat)
      BY <1>1, <2>4, <2>5, <2>6
    <2> QED
      BY <2>2, <2>4, <2>7
  <1>4. CASE ~InRing(id) /\ ~\E i \in AnchorsOf(id) : anchors[i].public >= Oldest - 1
    BY <1>4 DEF Replay, ReplayGap
  <1> QED
    BY <1>2, <1>3, <1>4

LEMMA BootstrapTells ==
  ASSUME ReplayInv, TellingInv, NEW c \in Client, Bootstrap(c) \/ BootstrapFails(c)
  PROVE  TellingInv'
  <1>1. CASE Bootstrap(c)
    <2>1. NextId \in Nat /\ NextId + 1 \in Nat
      BY DEF NextId, ReplayInv
    <2>2. <<NextId, NextId + 1>> \in Seq(Nat)
      BY <2>1
    <2>3. conn' = [conn EXCEPT ![c] = Begin(<<NextId, NextId + 1>>)]
      BY <1>1 DEF Bootstrap
    <2> QED
      BY <2>2, <2>3, BeginTells, TellingNow
  <1>2. CASE BootstrapFails(c)
    <2>1. conn' = [conn EXCEPT ![c] = [NoConn EXCEPT !.stream = "over"]]
      BY <1>2 DEF BootstrapFails
    <2>2. Tells([NoConn EXCEPT !.stream = "over"])
      BY NothingTold DEF StreamStates
    <2> QED
      BY <2>1, <2>2, TellingNow
  <1> QED
    BY <1>1, <1>2

LEMMA YieldTells ==
  ASSUME TellingInv, NEW c \in Client, Yield(c)
  PROVE  TellingInv'
  <1> DEFINE k == [conn[c] EXCEPT !.queue = Tail(@)]
             event == Head(conn[c].queue)
  <1>1. conn[c] \in Conns /\ Tells(conn[c]) /\ conn[c].queue # <<>>
    BY DEF TellingInv, Yield
  <1>2. Tail(conn[c].queue) \in Seq(Nat) /\ event \in Nat
    BY <1>1 DEF Conns
  <1>3. Tells(k) /\ Tells([k EXCEPT !.stream = "over"])
    BY <1>1, <1>2, QueueTells DEF StreamStates
  <1>4. \/ conn' = [conn EXCEPT ![c] = [k EXCEPT !.stream = "over"]]
        \/ conn' = [conn EXCEPT ![c] = Relay(k, event)]
    BY DEF Yield
  <1> HIDE DEF k, event
  <1>5. Tells(Relay(k, event))
    BY <1>2, <1>3, RelayTells
  <1> QED
    BY <1>3, <1>4, <1>5, TellingNow

LEMMA SendTells ==
  ASSUME TellingInv, NEW c \in Client, Send(c)
  PROVE  TellingInv'
  <1> DEFINE k == conn[c]
             new == [k EXCEPT !.relay = Tail(@), !.lost = @ - Head(k.relay).dropped]
  <1>1. /\ conn \in [Client -> Conns] /\ Tells(k) /\ k \in Conns /\ k.relay # <<>>
        /\ Len(k.relay) <= RelayQueue /\ k.lost = Told(k.relay)
    BY DEF TellingInv, Tells, Send
  <1>2. conn' = [conn EXCEPT ![c] = new]
    BY <1>1 DEF Send
  <1> HIDE DEF k
  <1>3. /\ k.relay \in Seq(Items) /\ Tail(k.relay) \in Seq(Items) /\ Head(k.relay).dropped \in Int
        /\ Len(Tail(k.relay)) = Len(k.relay) - 1 /\ Len(k.relay) \in Nat /\ k.lost \in Int
    <2>1. k.relay \in Seq(Items) /\ k.lost \in Int
      BY <1>1 DEF Conns
    <2>2. Head(k.relay) \in Items
      BY <1>1, <2>1
    <2>3. Head(k.relay).dropped \in Int
      BY <2>2 DEF Items
    <2> QED
      BY <1>1, <2>1, <2>3
  <1>4. Told(k.relay) = Head(k.relay).dropped + Told(Tail(k.relay)) /\ Told(Tail(k.relay)) \in Int
    BY <1>1, <1>3, ToldSums
  <1>5. /\ new \in Conns /\ new.relay = Tail(k.relay)
        /\ new.lost = k.lost - Head(k.relay).dropped
    <2> DEFINE rest == Tail(k.relay)
               lost == k.lost - Head(k.relay).dropped
    <2>1. rest \in Seq(Items) /\ lost \in Int /\ new = [k EXCEPT !.relay = rest, !.lost = lost]
      BY <1>3
    <2> HIDE DEF rest, lost, new
    <2>2. new \in Conns /\ new.relay = rest /\ new.lost = lost
      BY <1>1, <2>1 DEF Conns
    <2> QED
      BY <2>2 DEF rest, lost
  <1> HIDE DEF new
  <1>6. RelayQueue \in Nat
    BY LengthsPositive
  <1>7. Tells(new)
    BY <1>1, <1>3, <1>4, <1>5, <1>6 DEF Tells
  <1> QED
    BY <1>2, <1>7, TellingNow

LEMMA TellingMoves ==
  ASSUME ReplayInv, TellingInv, LiveMove
  PROVE  TellingInv'
  <1>1. CASE conn' = conn
    BY <1>1 DEF TellingInv, Tells
  <1>2. CASE PublishEvent
    <2>1. NextId \in Nat
      BY DEF NextId, ReplayInv
    <2> QED
      BY <1>2, <2>1, AllTells DEF PublishEvent
  <1>3. CASE EndLive
    BY <1>3, AllTells DEF EndLive, End
  <1>4. CASE CloseConnections
    <2>1. conn' = [c \in Client |-> NoConn]
      BY <1>4 DEF CloseConnections
    <2>2. NoConn \in Conns /\ Tells(NoConn)
      BY NothingTold DEF Tells
    <2> QED
      BY <2>1, <2>2 DEF TellingInv, Tells
  <1>5. CASE \E c \in Client : LiveStep(c)
    <2>1. PICK c \in Client : LiveStep(c)
      BY <1>5
    <2>2. CASE Join(c)
      BY <2>2, BootstrapTells DEF Join
    <2>3. CASE \E id \in 1 .. Len(log) : Resubscribe(c, id)
      <3>1. PICK id \in 1 .. Len(log) : Resubscribe(c, id)
        BY <2>3
      <3>2. Replay(id).events \in Seq(Nat)
        BY ReplayedAreNumbers
      <3>3. Tells(Begin(Replay(id).events))
        BY <3>2, BeginTells
      <3>4. \/ conn' = [conn EXCEPT ![c] = Begin(Replay(id).events)]
            \/ Bootstrap(c) \/ BootstrapFails(c)
        BY <3>1 DEF Resubscribe
      <3> QED
        BY <3>3, <3>4, BootstrapTells, TellingNow
    <2>4. CASE Leave(c)
      BY <2>4, NothingTold, TellingNow DEF Leave
    <2> QED
      BY <2>1, <2>2, <2>3, <2>4, YieldTells, SendTells DEF LiveStep
  <1> QED
    BY <1>1, <1>2, <1>3, <1>4, <1>5 DEF LiveMove, liveVars

LEMMA TellingInit == RInit => TellingInv
  <1> SUFFICES ASSUME RInit PROVE TellingInv
    OBVIOUS
  <1>1. conn = [c \in Client |-> NoConn]
    BY DEF RInit, LInit
  <1>2. NoConn \in Conns /\ Tells(NoConn)
    BY NothingTold DEF Tells
  <1> QED
    BY <1>1, <1>2 DEF TellingInv, Tells

\* What a relay has lost is what the items it still has will tell.
THEOREM LossesAreTold == RSpec => []LossTold
  <1>1. ReplayInv /\ TellingInv /\ [RNext]_rvars => (ReplayInv /\ TellingInv)'
    BY StepsMove, ReplayMoves, TellingMoves
  <1>2. TellingInv => LossTold
    BY DEF TellingInv, Tells, LossTold
  <1> QED
    BY <1>1, <1>2, ReplayInit, TellingInit, PTL DEF RSpec
=============================================================================
