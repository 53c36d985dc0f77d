---------------------------- MODULE MonitorRuntime ----------------------------
(***************************************************************************)
(* The running monitor of one workspace (runtime.py): the probe that is    *)
(* connected, sampled, released and connected again by requests that come  *)
(* in at any time; the stop; and, from MonitorLive, what clients are told. *)
(*                                                                         *)
(* Requests are handlers on one event loop: between two awaits nothing     *)
(* else runs.  A request that changes the probe or the sampler is refused  *)
(* while another is under way, and every request once a stop has begun.  A *)
(* refusal changes nothing and is a stuttering step.                       *)
(*                                                                         *)
(* An observation and its sampler are made and dropped together and share  *)
(* a number here; the sampler itself is MonitorSampler.                    *)
(***************************************************************************)
EXTENDS MonitorLive

CONSTANT MaxBinding     \* bound: observations opened
ASSUME MaxBindingIsNat == MaxBinding \in Nat

VARIABLES
    phase,      \* how far the stop is
    op,         \* the request that holds _probe_lifecycle_lock
    bound,      \* _observation and _sampler, 0 for None
    bindingEpoch, \* _binding_epoch
    request,    \* _probe_request is known
    forwarder,  \* the sampler _sample_task reads, 0 for None
    opened,     \* observations opened so far
    obs,        \* what became of each of them
    sampling,   \* and of its sampler
    asked       \* a request for the source catalog that is being answered

runVars == <<phase, op, bound, bindingEpoch, request, forwarder, opened, obs, sampling, asked>>
rvars == <<runVars, liveVars>>

-----------------------------------------------------------------------------
Phases ==
    {"running", "waiting", "cancelling", "service", "sampler", "observation", "closed"}
OpKinds == {"none", "connect", "reconnect", "release", "sample"}
OpSteps == {"none", "detach", "close", "closeProbe", "open", "abandon", "sample"}
Bindings == 1..MaxBinding

\* ok: what was closed so far was closed without an error
Ops == [kind : OpKinds, step : OpSteps, b : 0..MaxBinding, ok : BOOLEAN]
NoOp == [kind |-> "none", step |-> "none", b |-> 0, ok |-> TRUE]

\* "closed" also with an error; "forgotten" is open, with nothing left that
\* refers to it.
ObsStates == {"none", "open", "closed", "forgotten"}

Questions == [b : 0..MaxBinding, epoch : Nat, moved : BOOLEAN, open : BOOLEAN]
NoQuestion == [b |-> 0, epoch |-> 0, moved |-> FALSE, open |-> FALSE]

Free == phase = "running" /\ op = NoOp
At(step) == op.step = step
Goto(kind, step, b) == op' = [kind |-> kind, step |-> step, b |-> b, ok |-> TRUE]
Done == op' = NoOp

\* The question sees that the probe was changed under it.
Moved == asked' = IF asked.open THEN [asked EXCEPT !.moved = TRUE] ELSE asked

RInit ==
    /\ LInit
    /\ phase = "running"
    /\ op = NoOp
    /\ bound = 0
    /\ bindingEpoch = 0
    /\ request = FALSE
    /\ forwarder = 0
    /\ opened = 0
    /\ obs = [b \in Bindings |-> "none"]
    /\ sampling = [b \in Bindings |-> "idle"]
    /\ asked = NoQuestion

-----------------------------------------------------------------------------
(* Connecting.                                                             *)

BeginConnect ==
    /\ Free
    /\ bound = 0
    /\ Goto("connect", "open", 0)
    /\ UNCHANGED <<phase, bound, bindingEpoch, request, forwarder, opened, obs, sampling, asked,
                   liveVars>>

\* The probe is not listed, the firmware is not known, or the observation
\* is refused.
OpenFails ==
    /\ At("open")
    /\ Done
    /\ UNCHANGED <<phase, bound, bindingEpoch, request, forwarder, opened, obs, sampling, asked,
                   liveVars>>

\* The observation is bound to the runtime before the state event is made;
\* where the status cannot be read the request fails and the probe stays.
BindProbe(b) ==
    /\ bound' = b
    /\ bindingEpoch' = bindingEpoch + 1
    /\ Moved
    /\ Done
    /\ \/ StatePublished /\ request' = (request \/ op.kind = "connect")
       \/ StateUnreadable /\ UNCHANGED request

SamplerRefused(b) ==
    /\ Goto(op.kind, "abandon", b)
    /\ UNCHANGED <<bound, bindingEpoch, request, asked, liveVars>>

OpenSucceeds ==
    /\ At("open")
    /\ opened < MaxBinding
    /\ LET b == opened + 1
       IN  /\ opened' = b
           /\ obs' = [obs EXCEPT ![b] = "open"]
           /\ BindProbe(b) \/ SamplerRefused(b)
    /\ UNCHANGED <<phase, forwarder, sampling>>

Abandon ==
    /\ At("abandon")
    /\ obs' = [obs EXCEPT ![op.b] = "closed"]
    /\ Done
    /\ UNCHANGED <<phase, bound, bindingEpoch, request, forwarder, opened, sampling, asked, liveVars>>

-----------------------------------------------------------------------------
(* Releasing, which is also the first half of a reconnect.                 *)

\* What the request does once nothing is connected.
Released(kind) == IF kind = "reconnect" THEN Goto(kind, "open", 0) ELSE Done

\* The runtime drops its references, then makes the state event, then closes
\* what it dropped.  Where the status cannot be read the exception leaves
\* the request before it closes anything.
Detached(kind) ==
    /\ bound' = 0
    /\ IF bound = 0 THEN Released(kind) /\ UNCHANGED <<obs, asked, liveVars>>
       ELSE /\ Moved
            /\ \/ StatePublished /\ Goto(kind, "close", bound) /\ UNCHANGED obs
               \/ /\ StateUnreadable
                  /\ Done
                  /\ obs' = [obs EXCEPT ![bound] = "forgotten"]

\* A forwarder is cancelled, and waited for; without one nothing is awaited.
BeginRelease(kind) ==
    /\ Free
    /\ kind = "reconnect" => request
    /\ forwarder' = 0
    /\ IF forwarder = 0 THEN Detached(kind)
       ELSE Goto(kind, "detach", 0) /\ UNCHANGED <<bound, obs, asked, liveVars>>
    /\ UNCHANGED <<phase, bindingEpoch, request, opened, sampling>>

Detach ==
    /\ At("detach")
    /\ Detached(op.kind)
    /\ UNCHANGED <<phase, bindingEpoch, request, forwarder, opened, sampling>>

\* A sampler that is closed has stopped first and said so.  One that never
\* ran is not told apart: nothing is forwarded from it any more.
StopSampler(b) ==
    /\ sampling' = [sampling EXCEPT ![b] = "stopped"]
    /\ StatePublished \/ StateUnreadable

CloseSampler ==
    /\ At("close")
    /\ StopSampler(op.b)
    /\ \E ok \in BOOLEAN : op' = [op EXCEPT !.step = "closeProbe", !.ok = ok]
    /\ UNCHANGED <<phase, bound, bindingEpoch, request, forwarder, opened, obs, asked>>

\* The observation is closed whether or not the sampler was; a reconnect
\* goes on only after a release without an error.
CloseObservation ==
    /\ At("closeProbe")
    /\ obs' = [obs EXCEPT ![op.b] = "closed"]
    /\ Done \/ (op.ok /\ Released(op.kind))
    /\ UNCHANGED <<phase, bound, bindingEpoch, request, forwarder, opened, sampling, asked, liveVars>>

-----------------------------------------------------------------------------
(* Sampling.                                                               *)

\* start makes the forwarder before it asks the sampler; pause, resume and
\* stop only ask it.
BeginSampling ==
    /\ Free
    /\ bound # 0
    /\ forwarder' \in {forwarder, bound}
    /\ Goto("sample", "sample", bound)
    /\ UNCHANGED <<phase, bound, bindingEpoch, request, opened, obs, sampling, asked, liveVars>>

SamplingAnswered ==
    /\ At("sample")
    /\ Done
    /\ \/ /\ \E to \in {"running", "stopped"} : sampling' = [sampling EXCEPT ![op.b] = to]
          /\ StatePublished \/ StateUnreadable
       \/ UNCHANGED <<sampling, liveVars>>
    /\ UNCHANGED <<phase, bound, bindingEpoch, request, forwarder, opened, obs, asked>>

\* A run that fails ends by itself, also that of a forgotten sampler.
RunEnds(b) ==
    /\ sampling[b] = "running"
    /\ sampling' = [sampling EXCEPT ![b] = "stopped"]
    /\ phase # "closed"
    /\ StatePublished \/ StateUnreadable
    /\ UNCHANGED <<phase, op, bound, bindingEpoch, request, forwarder, opened, obs, asked>>

\* A batch the forwarder takes; the last ones of a run may come after it.
ForwardSample ==
    /\ forwarder # 0
    /\ sampling[forwarder] # "idle"
    /\ PublishEvent
    /\ UNCHANGED runVars

\* The heartbeat is cancelled once the stop has waited for the requests.
Heartbeat ==
    /\ phase \in {"running", "waiting"}
    /\ PublishEvent
    /\ UNCHANGED runVars

-----------------------------------------------------------------------------
(* The source catalog is answered for the probe that was bound when the    *)
(* question came, or not at all.                                           *)

AskSource ==
    /\ phase = "running"
    /\ ~asked.open
    /\ asked' = [b |-> bound, epoch |-> bindingEpoch, moved |-> FALSE, open |-> TRUE]
    /\ UNCHANGED <<phase, op, bound, bindingEpoch, request, forwarder, opened, obs, sampling, liveVars>>

\* Mutant: the binding epoch is not compared.
SameContext_NoEpoch == asked.b = bound

SameContext == asked.b = bound /\ asked.epoch = bindingEpoch

Closed == asked' = NoQuestion /\ UNCHANGED <<phase, op, bound, bindingEpoch, request, forwarder,
                                             opened, obs, sampling, liveVars>>

AnswerSource == asked.open /\ SameContext /\ Closed

\* The context has changed, or the index fails.
RefuseSource == asked.open /\ Closed

-----------------------------------------------------------------------------
(* The stop.                                                               *)

BeginStop ==
    /\ phase = "running"
    /\ phase' = "waiting"
    /\ UNCHANGED <<op, bound, bindingEpoch, request, forwarder, opened, obs, sampling, asked, liveVars>>

\* Mutant: the stop does not wait for the request that is under way.
CancelTasks_NoWait ==
    /\ phase = "waiting"
    /\ phase' = "cancelling"
    /\ forwarder' = 0
    /\ UNCHANGED <<op, bound, bindingEpoch, request, opened, obs, sampling, asked, liveVars>>

\* The lock was free; no request can take it again.
CancelTasks ==
    /\ phase = "waiting"
    /\ op = NoOp
    /\ phase' = "cancelling"
    /\ forwarder' = 0
    /\ UNCHANGED <<op, bound, bindingEpoch, request, opened, obs, sampling, asked, liveVars>>

StopStreams ==
    /\ phase = "cancelling"
    /\ phase' = "service"
    /\ EndLive
    /\ UNCHANGED <<op, bound, bindingEpoch, request, forwarder, opened, obs, sampling, asked>>

StopService ==
    /\ phase = "service"
    /\ phase' = "sampler"
    /\ CloseConnections
    /\ asked' = NoQuestion
    /\ UNCHANGED <<op, bound, bindingEpoch, request, forwarder, opened, obs, sampling>>

StopLastSampler ==
    /\ phase = "sampler"
    /\ phase' = "observation"
    /\ IF bound = 0 THEN UNCHANGED <<sampling, liveVars>> ELSE StopSampler(bound)
    /\ UNCHANGED <<op, bound, bindingEpoch, request, forwarder, opened, obs, asked>>

\* The observation, the stores, the record and the workspace lock.
StopObservation ==
    /\ phase = "observation"
    /\ phase' = "closed"
    /\ bound' = 0
    /\ IF bound = 0 THEN UNCHANGED obs
       ELSE obs' = [obs EXCEPT ![bound] = "closed"]
    /\ anchors' = <<>>
    /\ UNCHANGED <<op, bindingEpoch, request, forwarder, opened, sampling, asked, log, ring, conn>>

-----------------------------------------------------------------------------
ConnectionsServed == phase \in {"running", "waiting", "cancelling", "service"}

RequestStep ==
    \/ OpenFails \/ OpenSucceeds \/ Abandon \/ Detach \/ CloseSampler \/ CloseObservation
    \/ SamplingAnswered
StopStep == CancelTasks \/ StopStreams \/ StopService \/ StopLastSampler \/ StopObservation

RNext ==
    \/ BeginConnect \/ (\E kind \in {"release", "reconnect"} : BeginRelease(kind))
    \/ BeginSampling \/ RequestStep
    \/ (\E b \in Bindings : RunEnds(b)) \/ ForwardSample \/ Heartbeat
    \/ AskSource \/ AnswerSource \/ RefuseSource
    \/ BeginStop \/ StopStep
    \/ /\ ConnectionsServed
       /\ \E c \in Client : LiveStep(c)
       /\ UNCHANGED runVars

RSpec == RInit /\ [][RNext]_rvars

\* What a request awaits comes or fails, and the tasks of the stop run.
FairRSpec == RSpec /\ WF_rvars(RequestStep) /\ WF_rvars(StopStep)

-----------------------------------------------------------------------------
(* Properties.                                                             *)

RunTypes ==
    /\ phase \in Phases
    /\ op \in Ops
    /\ bound \in 0..MaxBinding
    /\ bindingEpoch \in Nat
    /\ request \in BOOLEAN
    /\ forwarder \in 0..MaxBinding
    /\ opened \in 0..MaxBinding
    /\ obs \in [Bindings -> ObsStates]
    /\ sampling \in [Bindings -> {"idle", "running", "stopped"}]
    /\ asked \in Questions

\* Every observation that was opened, and with it the lease on the probe, is
\* one the runtime or the request under way will close, or was dropped by a
\* release whose state event could not be made; no sampler runs on an
\* observation that is closed; what is forwarded is what the bound probe
\* sampled; and a monitor that has closed holds nothing it still knows of.
ObservationsAccounted ==
    /\ \A b \in Bindings :
          /\ obs[b] = "open" => b \in {bound, op.b}
          /\ sampling[b] = "running" => obs[b] \in {"open", "forgotten"}
    /\ forwarder \in {0, bound}
    /\ phase = "closed" => bound = 0 /\ op = NoOp

\* A page of the source catalog is given out only if the probe it was made
\* for stayed bound while it was made, over every release, reconnect and
\* failed connect in between.
SourceAnswersCurrent == [][AnswerSource => ~asked.moved]_rvars

\* A stop ends, whatever requests, runs and clients are under way, and then
\* no client is left connected.
RuntimeStops ==
    phase = "waiting" ~> phase = "closed" /\ \A c \in Client : conn[c] = NoConn
=============================================================================
