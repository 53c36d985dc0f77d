---------------------------- MODULE DebugHandoff ----------------------------
(***************************************************************************)
(* Handing a probe to an external debugger and taking it back              *)
(* (probe/handoff.py), as the two public workflows of hardware_workflows.py*)
(* run it: handoff_begin_workflow starts a Probe Service, and so acquires  *)
(* the lease without a ticket, before begin_debug_handoff runs, and stops  *)
(* the service whatever happens; handoff_end_workflow starts one only with *)
(* the ticket.                                                             *)
(*                                                                         *)
(* Three kinds of durable state are kept in step: the lease record of the  *)
(* probe (ProbeLease), one state file per session, and the evidence of the *)
(* build and of the last flash.  Every workflow runs in a process that may *)
(* die or fail between any two writes.                                     *)
(*                                                                         *)
(* Flashing and plain observation are modelled as far as they own the      *)
(* lease and publish flash evidence.                                       *)
(***************************************************************************)
EXTENDS ProbeLease

CONSTANTS
    Observe, Modify,    \* the two operation levels the workflows use
    Build               \* identities of managed builds

ASSUME LevelsKnown == Observe \in Level /\ Modify \in Level /\ Observe # Modify
ASSUME NoneIsNoBuild == None \notin Build

VARIABLES
    fw,         \* the build the project currently holds
    chip,       \* the build whose image the target holds
    flashed,    \* flash-result.json: the session and build it attests
    handoff,    \* the state file of each session
    sguard,     \* the process that holds each session's handoff guard
    job,        \* the workflow each process runs
    issued,     \* the tickets begin has drawn
    restored    \* the tickets whose end has returned a HandoffRestore

hvars == <<fw, chip, flashed, handoff, sguard, job, issued, restored>>
allvars == <<vars, hvars>>

-----------------------------------------------------------------------------
HandoffStates ==
    {"none", "paused-for-debug", "externally-owned", "reacquiring",
     "observing-pending-release", "observing"}

Handoffs ==
    [st : HandoffStates, ticket : Ticket \cup {None}, lease : Nat,
     build : Build \cup {None}]
NoHandoff == [st |-> "none", ticket |-> None, lease |-> 0, build |-> None]

Evidence == [session : Session \cup {None}, build : Build \cup {None}]
NoEvidence == [session |-> None, build |-> None]

BeginSteps == {"admit", "prepare", "reserve", "stop", "prove"}
EndSteps ==
    {"settle", "claim", "restore", "close", "resettle", "pend", "acknowledge",
     "observe", "unclaim"}
JobSteps == BeginSteps \cup EndSteps \cup {"idle", "program", "publish", "cleanup"}

Jobs == [step : JobSteps, session : Session \cup {None},
         build : Build \cup {None}, ticket : Ticket \cup {None}]
NoJob == [step |-> "idle", session |-> None, build |-> None, ticket |-> None]

Idle(p) == job[p].step = "idle"
At(p, step) == job[p].step = step
Sess(p) == job[p].session
Mine(p) == handoff[Sess(p)]     \* the state file of p's session

Goto(p, step) == job' = [job EXCEPT ![p].step = step]
EnterGuard(p, s) == sguard[s] = None /\ sguard' = [sguard EXCEPT ![s] = p]
Unguard(p) == sguard' = [s \in Session |-> IF sguard[s] = p THEN None ELSE sguard[s]]

\* The workflow is over; it returns its result or its error.
Finish(p) == job' = [job EXCEPT ![p] = NoJob] /\ Unguard(p)

\* The workflow has failed or is done while its service runs: the state
\* guard is left and the service is stopped.
Cleanup(p) == Goto(p, "cleanup") /\ Unguard(p)

WriteState(s, new) == handoff' = [handoff EXCEPT ![s] = new]

\* The current build is the one the job began with, and the last flash put
\* that build on the target for this session.
EvidenceFor(s, b) == fw = b /\ flashed = [session |-> s, build |-> b]

\* Mutant: the readback is not compared.
ReadsBack_Any(b) == TRUE

\* The target is attached and its flash read back against the image of b.
ReadsBack(b) == chip = b

-----------------------------------------------------------------------------
HInit ==
    /\ Init
    /\ fw \in Build
    /\ chip \in Build     \* another tool may have programmed it since
    /\ flashed \in {[session |-> s, build |-> fw] : s \in Session}
    /\ handoff = [s \in Session |-> NoHandoff]
    /\ sguard = [s \in Session |-> None]
    /\ job = [p \in Process |-> NoJob]
    /\ issued = {}
    /\ restored = {}

\* A one-shot workflow starts its service: the lease is acquired without a
\* ticket, or the workflow fails with PROBE_BUSY and changes nothing.
StartService(p, s, lv, step) ==
    /\ Idle(p)
    /\ Acquire(p, s, lv, None)
    /\ job' = [job EXCEPT ![p] = [NoJob EXCEPT !.step = step, !.session = s]]
    /\ UNCHANGED <<fw, chip, flashed, handoff, sguard, issued, restored>>

\* The service is stopped: the lease is released, or the release fails and
\* the service drops it.
StopService(p) ==
    /\ At(p, "cleanup")
    /\ Release(p) \/ ReleaseFails(p)
    /\ Finish(p)
    /\ UNCHANGED <<fw, chip, flashed, handoff, issued, restored>>

-----------------------------------------------------------------------------
(* Flashing: the evidence is withdrawn before the target is programmed and *)
(* published once the build is still the current one.                      *)

\* Programming that fails leaves some other image behind.
Program(p) ==
    /\ At(p, "program")
    /\ flashed' = NoEvidence
    /\ \/ /\ chip' = fw
          /\ job' = [job EXCEPT ![p].step = "publish", ![p].build = fw]
          /\ UNCHANGED sguard
       \/ chip' \in Build /\ Cleanup(p)
    /\ UNCHANGED <<vars, fw, handoff, issued, restored>>

Publish(p) ==
    /\ At(p, "publish")
    /\ fw = job[p].build
    /\ flashed' = [session |-> Sess(p), build |-> fw]
    /\ Goto(p, "cleanup")
    /\ UNCHANGED <<vars, fw, chip, handoff, sguard, issued, restored>>

-----------------------------------------------------------------------------
(* begin_debug_handoff, entered with the service running.                  *)

\* Under the session's guard: the evidence is current and no other handoff
\* of this session is in the way.
Admit(p) ==
    /\ At(p, "admit")
    /\ EnterGuard(p, Sess(p))
    /\ EvidenceFor(Sess(p), fw)
    /\ \/ Mine(p).st \in {"none", "observing"}
       \/ /\ Mine(p).st \in {"paused-for-debug", "observing-pending-release"}
          /\ Mine(p).build = fw
    /\ job' = [job EXCEPT ![p].step = "prepare", ![p].build = fw]
    /\ UNCHANGED <<vars, fw, chip, flashed, handoff, issued, restored>>

\* Modifications are drained, the target is read back, the evidence is
\* checked again; then the state file is written, with a fresh ticket or
\* with the one of the handoff that did not complete.
Prepare(p) ==
    /\ At(p, "prepare")
    /\ EvidenceFor(Sess(p), job[p].build)
    /\ ReadsBack(job[p].build)
    /\ \/ /\ Mine(p).st \in {"none", "observing"}
          /\ \E t \in Ticket \ issued :
                /\ WriteState(Sess(p), [st |-> "paused-for-debug", ticket |-> t,
                                        lease |-> lease[p].id,
                                        build |-> job[p].build])
                /\ issued' = issued \cup {t}
       \/ /\ Mine(p).st \notin {"none", "observing"}
          /\ WriteState(Sess(p), [Mine(p) EXCEPT !.lease = lease[p].id])
          /\ UNCHANGED issued
    /\ Goto(p, "reserve")
    /\ UNCHANGED <<vars, fw, chip, flashed, sguard, restored>>

\* The reservation is committed; the caller may be cancelled right after.
ReserveProbe(p) ==
    /\ At(p, "reserve")
    /\ Reserve(p, Mine(p).ticket)
    /\ \/ Goto(p, "stop") /\ UNCHANGED sguard
       \/ Cleanup(p)
    /\ UNCHANGED <<fw, chip, flashed, handoff, issued, restored>>

StopForDebug(p) ==
    /\ At(p, "stop")
    /\ \/ Release(p) /\ Goto(p, "prove") /\ UNCHANGED sguard
       \/ ReleaseFails(p) /\ Finish(p)
    /\ UNCHANGED <<fw, chip, flashed, handoff, issued, restored>>

\* What _prove_external_reservation reads back from the registry.
ReservationProven(s) ==
    /\ record.state = "externally-owned"
    /\ record.lease = handoff[s].lease
    /\ record.ticket = handoff[s].ticket

\* The ticket is returned only after this step.
ProveReservation(p) ==
    /\ At(p, "prove")
    /\ ReservationProven(Sess(p))
    /\ WriteState(Sess(p), [Mine(p) EXCEPT !.st = "externally-owned"])
    /\ Finish(p)
    /\ UNCHANGED <<vars, fw, chip, flashed, issued, restored>>

-----------------------------------------------------------------------------
(* end_debug_handoff.                                                      *)

\* Mutant: the end begins without recording that it does.
Reacquiring_NotRecorded(s) == handoff[s]

Reacquiring(s) == [handoff[s] EXCEPT !.st = "reacquiring"]

\* Under the session's guard, with the ticket the state file names.
StartEnd(p, s, t) ==
    /\ alive[p]
    /\ Idle(p)
    /\ EnterGuard(p, s)
    /\ handoff[s].ticket = t
    /\ \/ /\ handoff[s].st = "observing-pending-release"
          /\ job' = [job EXCEPT ![p] = [step |-> "acknowledge", session |-> s,
                                        build |-> None, ticket |-> t]]
          /\ UNCHANGED handoff
       \/ /\ handoff[s].st \in {"externally-owned", "reacquiring"}
          /\ job' = [job EXCEPT ![p] = [step |-> "settle", session |-> s,
                                        build |-> None, ticket |-> t]]
          /\ WriteState(s, Reacquiring(s))
    /\ UNCHANGED <<vars, fw, chip, flashed, issued, restored>>

\* With the evidence still current, an earlier end that got as far as
\* consuming the ticket is completed; otherwise the probe is claimed.
CanFinalize(s, t) ==
    /\ record.state \in {"handoff-consumed", "handoff-finalized"}
    /\ MatchesHandoff(record, s, t)

\* Mutant: an earlier end that consumed the ticket is not completed.
Settle_NeverCompletes(p) ==
    /\ At(p, "settle")
    /\ EvidenceFor(Sess(p), Mine(p).build)
    /\ guard = None
    /\ Goto(p, "claim")
    /\ UNCHANGED <<vars, fw, chip, flashed, handoff, sguard, issued, restored>>

Settle(p) ==
    /\ At(p, "settle")
    /\ EvidenceFor(Sess(p), Mine(p).build)
    /\ guard = None
    /\ \/ /\ Finalize(p, Sess(p), job[p].ticket)
          /\ Goto(p, "pend")
       \/ /\ ~CanFinalize(Sess(p), job[p].ticket)
          /\ Goto(p, "claim")
          /\ UNCHANGED vars
    /\ UNCHANGED <<fw, chip, flashed, handoff, sguard, issued, restored>>

ClaimProbe(p) ==
    /\ At(p, "claim")
    /\ Acquire(p, Sess(p), Observe, job[p].ticket)
    /\ Goto(p, "restore")
    /\ UNCHANGED <<fw, chip, flashed, handoff, sguard, issued, restored>>

\* The target is read back against the evidence, then the ticket is consumed.
RestoreTarget(p) ==
    /\ At(p, "restore")
    /\ EvidenceFor(Sess(p), Mine(p).build)
    /\ ReadsBack(Mine(p).build)
    /\ Consume(p, job[p].ticket)
    /\ Goto(p, "close")
    /\ UNCHANGED <<fw, chip, flashed, handoff, sguard, issued, restored>>

\* Any failure after the claim gives the reservation back.
GiveBack(p) ==
    /\ At(p, "restore")
    /\ Goto(p, "unclaim")
    /\ UNCHANGED <<vars, fw, chip, flashed, handoff, sguard, issued, restored>>

StopAfterClaim(p) ==
    /\ \/ At(p, "close") /\ Release(p) /\ Goto(p, "resettle") /\ UNCHANGED sguard
       \/ At(p, "unclaim") /\ Release(p) /\ Finish(p)
       \/ At(p, "close") /\ ReleaseFails(p) /\ Finish(p)
       \/ At(p, "unclaim") /\ ReleaseFails(p) /\ Finish(p)
    /\ UNCHANGED <<fw, chip, flashed, handoff, issued, restored>>

Resettle(p) ==
    /\ At(p, "resettle")
    /\ Finalize(p, Sess(p), job[p].ticket)
    /\ Goto(p, "pend")
    /\ UNCHANGED <<fw, chip, flashed, handoff, sguard, issued, restored>>

PendRelease(p) ==
    /\ At(p, "pend")
    /\ WriteState(Sess(p), [Mine(p) EXCEPT !.st = "observing-pending-release"])
    /\ Goto(p, "acknowledge")
    /\ UNCHANGED <<vars, fw, chip, flashed, sguard, issued, restored>>

FreeProbe(p) ==
    /\ At(p, "acknowledge")
    /\ Acknowledge(p, Sess(p), job[p].ticket)
    /\ Goto(p, "observe")
    /\ UNCHANGED <<fw, chip, flashed, handoff, sguard, issued, restored>>

\* Mutant: the last write of the state file is forgotten.
ResumeObserving_NotWritten(p) ==
    /\ At(p, "observe")
    /\ restored' = restored \cup {job[p].ticket}
    /\ Finish(p)
    /\ UNCHANGED <<vars, fw, chip, flashed, handoff, issued>>

ResumeObserving(p) ==
    /\ At(p, "observe")
    /\ WriteState(Sess(p), [Mine(p) EXCEPT !.st = "observing", !.ticket = None])
    /\ restored' = restored \cup {job[p].ticket}
    /\ Finish(p)
    /\ UNCHANGED <<vars, fw, chip, flashed, issued>>

-----------------------------------------------------------------------------
(* What can go wrong, and what the world does.                             *)

\* A check fails, a write fails, a backend call fails or the caller is
\* cancelled: a workflow whose service runs stops it, any other returns.
Fail(p) ==
    /\ \/ /\ job[p].step \in {"admit", "prepare", "reserve", "program", "publish"}
          /\ Cleanup(p)
       \/ /\ job[p].step \in {"prove", "settle", "claim", "resettle", "pend",
                              "acknowledge", "observe"}
          /\ Finish(p)
    /\ UNCHANGED <<vars, fw, chip, flashed, handoff, issued, restored>>

\* The backend call that identifies the target for the debugger outlives its
\* deadline and its abort: the service refuses to stop and keeps the lease.
StopUnresolved(p) ==
    /\ At(p, "prepare")
    /\ Finish(p)
    /\ UNCHANGED <<vars, fw, chip, flashed, handoff, issued, restored>>

Die(p) ==
    /\ Crash(p)
    /\ Finish(p)
    /\ UNCHANGED <<fw, chip, flashed, handoff, issued, restored>>

Reboot(p) == Restart(p) /\ UNCHANGED hvars

Rebuild ==
    /\ fw' \in Build \ {fw}
    /\ UNCHANGED <<vars, chip, flashed, handoff, sguard, job, issued, restored>>

\* The debugger that was given the probe loads an image of its own choice.
DebuggerLoads ==
    /\ \E s \in Session : handoff[s].st = "externally-owned"
    /\ chip' \in Build \ {chip}
    /\ UNCHANGED <<vars, fw, flashed, handoff, sguard, job, issued, restored>>

BeginStep(p) ==
    \/ \E s \in Session : StartService(p, s, Observe, "admit")
    \/ Admit(p) \/ Prepare(p) \/ ReserveProbe(p) \/ StopForDebug(p)
    \/ ProveReservation(p)

EndStep(p) ==
    \/ \E s \in Session, t \in Ticket : StartEnd(p, s, t)
    \/ Settle(p) \/ ClaimProbe(p) \/ RestoreTarget(p)
    \/ StopAfterClaim(p) \/ Resettle(p) \/ PendRelease(p) \/ FreeProbe(p)
    \/ ResumeObserving(p)

FlashStep(p) ==
    \/ \E s \in Session : StartService(p, s, Modify, "program")
    \/ Program(p) \/ Publish(p)

UseStep(p) == \E s \in Session, lv \in Level : StartService(p, s, lv, "cleanup")

HStep(p) ==
    \/ BeginStep(p) \/ EndStep(p) \/ FlashStep(p) \/ UseStep(p)
    \/ StopService(p) \/ GiveBack(p) \/ Fail(p) \/ StopUnresolved(p) \/ Die(p) \/ Reboot(p)

HNext == (\E p \in Process : HStep(p)) \/ Rebuild \/ DebuggerLoads

HSpec == HInit /\ [][HNext]_allvars

-----------------------------------------------------------------------------
(* Properties.                                                             *)

HandoffTypes ==
    /\ fw \in Build
    /\ chip \in Build
    /\ flashed \in Evidence
    /\ handoff \in [Session -> Handoffs]
    /\ sguard \in [Session -> Process \cup {None}]
    /\ job \in [Process -> Jobs]
    /\ issued \subseteq Ticket
    /\ restored \subseteq issued

\* Every variable of the lease and of the handoff has its type.
HTypeOK == TypeOK /\ HandoffTypes

\* The steps a workflow takes under its session's guard.
GuardedSteps == (BeginSteps \ {"admit"}) \cup EndSteps

\* A ticket belongs to the one session whose state file names it, from the
\* moment it is drawn until its end has returned.
TicketInv ==
    /\ \A s \in Session :
          /\ handoff[s].ticket = None <=> handoff[s].st \in {"none", "observing"}
          /\ handoff[s].ticket # None => handoff[s].ticket \in issued \ restored
    /\ \A s, r \in Session :
          s # r /\ handoff[s].ticket # None => handoff[s].ticket # handoff[r].ticket

\* Between the steps of a workflow nobody else changes its session's state.
JobInv(p) ==
    /\ At(p, "idle") \/ Sess(p) \in Session
    /\ job[p].step \in GuardedSteps => sguard[Sess(p)] = p
    /\ job[p].step \in {"reserve", "stop", "prove"} => Mine(p).ticket # None
    /\ job[p].step \in EndSteps =>
          job[p].ticket # None /\ Mine(p).ticket = job[p].ticket

HandoffInv == TicketInv /\ \A p \in Process : JobInv(p)

\* While a session's state says that the debugger owns the probe, the
\* registry says the same of the same ticket and lease and no process of the
\* toolkit holds the probe: docs/architecture.md, "Toolkit must not access
\* the probe during that interval".
HandoffBacked ==
    \A s \in Session : handoff[s].st = "externally-owned" =>
        /\ guard = None
        /\ record.session = s
        /\ ReservationProven(s)

\* The ticket the probe is reserved for is always one a session still has in
\* its state file, so nobody needs a ticket that was lost in a crash between
\* the two files.
ReservationHasTicket ==
    record.ticket # None => handoff[record.session].ticket = record.ticket

\* From the moment the ticket is given out until the end has recorded that
\* it is spent, the flash evidence the restore is checked against stays on
\* disk.
EvidenceStays ==
    \A s \in Session :
        handoff[s].st \in {"externally-owned", "reacquiring"} =>
            flashed = [session |-> s, build |-> handoff[s].build]

\* The three files of a handoff agree: the session's state with the record,
\* the record with the session's ticket, and both with the flash evidence.
FilesAgree == HandoffBacked /\ ReservationHasTicket /\ EvidenceStays

\* The debugger only ever gets a target that holds the image of the build
\* its session names, flashed and read back by the toolkit; and a ticket is
\* consumed only while the target holds the image it was given out for,
\* whatever the debugger loaded in between.
ProvenImage ==
    [][/\ \A s \in Session :
             handoff[s].st # "externally-owned" /\ handoff'[s].st = "externally-owned" =>
                 /\ chip = handoff'[s].build
                 /\ flashed = [session |-> s, build |-> handoff'[s].build]
       /\ record'.state = "handoff-consumed" /\ record.state # "handoff-consumed" =>
             chip = handoff[record.session].build]_allvars

\* The caller of end gets its watch selection back at most once for a
\* ticket, over every retry, crash and concurrent end.
RestoredAtMostOnce ==
    [][\A p \in Process : ResumeObserving(p) => job[p].ticket \notin restored]_allvars

\* The probe is freed only once the session has recorded that the ticket is
\* spent, so a crash in between can be completed by retrying end.
FreedAfterRecorded ==
    [][record.ticket # None /\ record'.ticket = None =>
          /\ handoff[record.session].st = "observing-pending-release"
          /\ handoff[record.session].ticket = record.ticket]_record

\* Every step of the workflows is a step of the lease (probe/lease.py) or
\* leaves it alone.
ImplementsLease == Spec

-----------------------------------------------------------------------------
(* Progress.                                                               *)

\* What a running end does next when nothing fails.
EndProgress(p) ==
    \/ Settle(p) \/ ClaimProbe(p) \/ RestoreTarget(p) \/ Resettle(p)
    \/ PendRelease(p) \/ FreeProbe(p) \/ ResumeObserving(p)

Work(p) ==
    \/ Admit(p) \/ Prepare(p) \/ ReserveProbe(p) \/ StopForDebug(p)
    \/ ProveReservation(p) \/ EndProgress(p) \/ GiveBack(p)
    \/ StopAfterClaim(p) \/ Program(p) \/ Publish(p) \/ StopService(p)
    \/ Fail(p)

\* A running process goes on or fails; a process that died is started again;
\* the user retries end; a call that is tried again and again succeeds at
\* some point.
HFairness ==
    /\ \A p \in Process : WF_allvars(Work(p)) /\ WF_allvars(Reboot(p))
    /\ \A s \in Session, t \in Ticket :
          SF_allvars(\E p \in Process : StartEnd(p, s, t))
    /\ SF_allvars(\E p \in Process : Settle(p))
    /\ SF_allvars(\E p \in Process : ClaimProbe(p))
    /\ SF_allvars(\E p \in Process : Resettle(p))
    /\ SF_allvars(\E p \in Process : PendRelease(p))
    /\ SF_allvars(\E p \in Process : FreeProbe(p))

FairHSpec == HSpec /\ HFairness

\* The record names a process that runs and holds nothing: a failed release
\* left it, and the probe is busy until that process exits.
StaleLiveOwner == record.state = "active" /\ guard = None /\ OwnerLive(record)

\* The bounds of the instance leave no lease or no process to go on with.
Exhausted ==
    \/ nextLease > MaxLease
    \/ \A p \in Process : ~alive[p] /\ epoch[p] = MaxEpoch

\* What the end was begun with is no longer so: the user has built or flashed
\* something else, or the debugger has loaded another image.
EvidenceGone(s) ==
    ~EvidenceFor(s, handoff[s].build) \/ chip # handoff[s].build

\* An end that was started frees the probe, whoever crashes or fails at
\* whatever point, and whenever the evidence goes, once it is back; unless a
\* failed release left the probe to a process that does not exit.
EndFreesProbe ==
    \A s \in Session, t \in Ticket :
        /\ handoff[s].st \in {"reacquiring", "observing-pending-release"}
        /\ handoff[s].ticket = t
        ~> record.tomb.ticket = t \/ StaleLiveOwner \/ Exhausted \/ EvidenceGone(s)
=============================================================================
