----------------------------- MODULE ProbeLease -----------------------------
(***************************************************************************)
(* The lease on one debug probe, shared by every process of the toolkit    *)
(* that uses the same data root (probe/lease.py).                          *)
(*                                                                         *)
(* Two files stand for a probe: the guard, whose OS lock its owner holds   *)
(* for as long as the lease lives, and the JSON record, which says who     *)
(* owns the probe and whether it is reserved for an external debugger.     *)
(* The record outlives its writer; the OS lock does not.                   *)
(*                                                                         *)
(* Every writer of the record holds the guard, and each write replaces the *)
(* file atomically, so one critical section is one step: dying inside it   *)
(* before the replacement is dying before the step, dying after it is      *)
(* dying after the step.  A call that is refused changes nothing and is a  *)
(* stuttering step.                                                        *)
(***************************************************************************)
EXTENDS Naturals

CONSTANTS
    Process,    \* the toolkit's processes: CLI calls, MCP servers, monitors
    Session,    \* (workspace, session) pairs
    Level,      \* operation levels
    Ticket,     \* handoff tickets
    None,       \* the absent value of each of these sets
    MaxLease,   \* bound: leases granted in a run
    MaxEpoch    \* bound: restarts of one process

ASSUME NoneIsNoValue ==
    /\ None \notin Process
    /\ None \notin Session
    /\ None \notin Level
    /\ None \notin Ticket

ASSUME BoundsAreNat == MaxLease \in Nat /\ MaxEpoch \in Nat

VARIABLES
    record,     \* the registry record on disk
    guard,      \* the process that holds the guard's OS lock, or None
    lease,      \* the ProbeLease object of each process
    alive,      \* which processes run
    epoch,      \* the start identity of each process's current run
    nextLease   \* the number of the next lease id

vars == <<record, guard, lease, alive, epoch, nextLease>>

-----------------------------------------------------------------------------
(* Records and lease objects.                                              *)

RecordStates ==
    {"none", "active", "externally-owned", "handoff-consumed",
     "handoff-finalized", "released"}

\* Who consumed the last handoff; acknowledging it again is a success.
Tombstones == [ticket : Ticket \cup {None}, session : Session \cup {None}]
NoTombstone == [ticket |-> None, session |-> None]

Records ==
    [state : RecordStates,
     lease : Nat,                       \* leaseId
     proc : Process \cup {None},        \* pid, with epoch: the start identity
     epoch : Nat,
     session : Session \cup {None},
     level : Level \cup {None},
     ticket : Ticket \cup {None},       \* ticketSha256
     reservation : Nat,                 \* reservationLeaseId
     tomb : Tombstones]

NoRecord ==
    [state |-> "none", lease |-> 0, proc |-> None, epoch |-> 0,
     session |-> None, level |-> None, ticket |-> None, reservation |-> 0,
     tomb |-> NoTombstone]

\* A released record keeps nothing but the lease id and the tombstone.
ReleasedRecord(id, tomb) ==
    [NoRecord EXCEPT !.state = "released", !.lease = id, !.tomb = tomb]

Leases == [id : Nat, external : Records, consumed : BOOLEAN]
NoLease == [id |-> 0, external |-> NoRecord, consumed |-> FALSE]

Held(p) == lease[p].id # 0
Claims(p) == lease[p].external.state # "none"

\* The record still names this lease and this run of this process.
Current(p) ==
    /\ record.lease = lease[p].id
    /\ record.proc = p
    /\ record.epoch = epoch[p]

\* The process the record names still runs.  The health endpoint it names
\* answers for that lease only while that process runs, so it adds no owner.
OwnerLive(rec) ==
    \E p \in Process : alive[p] /\ rec.proc = p /\ rec.epoch = epoch[p]

\* The ticket and session that reserved the probe, at the reserved level.
MatchesHandoff(rec, s, t) == t # None /\ rec.ticket = t /\ rec.session = s

MatchesReservation(rec, s, lv, t) == MatchesHandoff(rec, s, t) /\ rec.level = lv

\* Mutant: the claim of a claimant that died cannot be taken over.
Admits_NoReclaim(rec, s, lv, t) ==
    \/ rec.state \in {"none", "released"} /\ t = None
    \/ rec.state = "externally-owned" /\ MatchesReservation(rec, s, lv, t)
    \/ rec.state = "active" /\ ~OwnerLive(rec) /\ rec.ticket = None /\ t = None

\* What acquire lets past its refusals.
Admits(rec, s, lv, t) ==
    \/ rec.state \in {"none", "released"} /\ t = None
    \/ rec.state = "externally-owned" /\ MatchesReservation(rec, s, lv, t)
    \/ /\ rec.state = "active"
       /\ ~OwnerLive(rec)
       /\ \/ rec.ticket = None /\ t = None
          \/ rec.ticket # None /\ MatchesReservation(rec, s, lv, t)

\* Mutant: the claim of a claimant that died is not one of its reservation.
ReservationOf_FirstClaim(rec) ==
    IF rec.state = "externally-owned" THEN rec ELSE NoRecord

\* The reservation a new claim must be able to put back.
ReservationOf(rec) ==
    CASE rec.state = "externally-owned" -> rec
      [] rec.state = "active" /\ rec.ticket # None ->
            [rec EXCEPT !.state = "externally-owned",
                        !.lease = rec.reservation,
                        !.reservation = 0]
      [] OTHER -> NoRecord

-----------------------------------------------------------------------------
Init ==
    /\ record = NoRecord
    /\ guard = None
    /\ lease = [p \in Process |-> NoLease]
    /\ alive = [p \in Process |-> TRUE]
    /\ epoch = [p \in Process |-> 0]
    /\ nextLease = 1

\* Mutant: the registry is read and written without the guard's lock.
Acquire_Unlocked(p, s, lv, t) ==
    /\ alive[p]
    /\ ~Held(p)
    /\ Admits(record, s, lv, t)
    /\ nextLease <= MaxLease
    /\ guard' = p
    /\ record' =
         [state |-> "active", lease |-> nextLease, proc |-> p,
          epoch |-> epoch[p], session |-> s, level |-> lv, ticket |-> t,
          reservation |-> ReservationOf(record).lease, tomb |-> record.tomb]
    /\ lease' = [lease EXCEPT ![p] = [id |-> nextLease,
                                      external |-> ReservationOf(record),
                                      consumed |-> FALSE]]
    /\ nextLease' = nextLease + 1
    /\ UNCHANGED <<alive, epoch>>

\* A lease is granted; t is the ticket presented, or None.
Acquire(p, s, lv, t) ==
    /\ alive[p]
    /\ guard = None
    /\ Admits(record, s, lv, t)
    /\ nextLease <= MaxLease
    /\ guard' = p
    /\ record' =
         [state |-> "active", lease |-> nextLease, proc |-> p,
          epoch |-> epoch[p], session |-> s, level |-> lv, ticket |-> t,
          reservation |-> ReservationOf(record).lease, tomb |-> record.tomb]
    /\ lease' = [lease EXCEPT ![p] = [id |-> nextLease,
                                      external |-> ReservationOf(record),
                                      consumed |-> FALSE]]
    /\ nextLease' = nextLease + 1
    /\ UNCHANGED <<alive, epoch>>

\* The owner reserves the probe for the debugger that will hold ticket t.
Reserve(p, t) ==
    /\ Held(p)
    /\ Current(p)
    /\ ~Claims(p)
    /\ LET external == [record EXCEPT !.state = "externally-owned",
                                      !.ticket = t]
       IN  /\ record' = external
           /\ lease' = [lease EXCEPT ![p].external = external]
    /\ UNCHANGED <<guard, alive, epoch, nextLease>>

\* The claimant marks the ticket consumed, in memory only.
Consume(p, t) ==
    /\ Held(p)
    /\ Claims(p)
    /\ Current(p)
    /\ record.ticket = t
    /\ lease' = [lease EXCEPT ![p].consumed = TRUE]
    /\ UNCHANGED <<record, guard, alive, epoch, nextLease>>

\* Mutant: a claimant that fails is taken for one that consumed the ticket.
Settled_AlwaysConsumed(p) ==
    IF ~Claims(p) THEN ReleasedRecord(lease[p].id, record.tomb)
    ELSE [lease[p].external EXCEPT !.state = "handoff-consumed",
                                   !.lease = lease[p].id]

\* The record a release leaves behind.
Settled(p) ==
    IF ~Claims(p) THEN ReleasedRecord(lease[p].id, record.tomb)
    ELSE IF lease[p].consumed
         THEN [lease[p].external EXCEPT !.state = "handoff-consumed",
                                        !.lease = lease[p].id]
         ELSE lease[p].external

Release(p) ==
    /\ Held(p)
    /\ Current(p)
    /\ record' = Settled(p)
    /\ lease' = [lease EXCEPT ![p] = NoLease]
    /\ guard' = None
    /\ UNCHANGED <<alive, epoch, nextLease>>

\* The release cannot write the record.  The service that owns the lease
\* reports the failure and drops the object, which closes the guard: the
\* record keeps naming a process that still runs.
ReleaseFails(p) ==
    /\ Held(p)
    /\ lease' = [lease EXCEPT ![p] = NoLease]
    /\ guard' = None
    /\ UNCHANGED <<record, alive, epoch, nextLease>>

\* The session that consumed ticket t records that it will restore itself.
Finalize(p, s, t) ==
    /\ alive[p]
    /\ guard = None
    /\ record.state \in {"handoff-consumed", "handoff-finalized"}
    /\ MatchesHandoff(record, s, t)
    /\ record' = [record EXCEPT !.state = "handoff-finalized"]
    /\ UNCHANGED <<guard, lease, alive, epoch, nextLease>>

\* The session frees the probe.  Once it is free, acknowledging the ticket
\* the tombstone names succeeds again and changes nothing.
Acknowledge(p, s, t) ==
    /\ alive[p]
    /\ guard = None
    /\ \/ /\ record.state = "handoff-finalized"
          /\ MatchesHandoff(record, s, t)
          /\ record' = ReleasedRecord(record.lease,
                                      [ticket |-> t, session |-> s])
       \/ /\ record.state = "released"
          /\ record.tomb = [ticket |-> t, session |-> s]
          /\ UNCHANGED record
    /\ UNCHANGED <<guard, lease, alive, epoch, nextLease>>

\* A process dies: the OS frees its lock, its objects are gone.
Crash(p) ==
    /\ alive[p]
    /\ alive' = [alive EXCEPT ![p] = FALSE]
    /\ lease' = [lease EXCEPT ![p] = NoLease]
    /\ guard' = IF guard = p THEN None ELSE guard
    /\ UNCHANGED <<record, epoch, nextLease>>

\* It runs again, under the same pid and another start identity.
Restart(p) ==
    /\ ~alive[p]
    /\ epoch[p] < MaxEpoch
    /\ alive' = [alive EXCEPT ![p] = TRUE]
    /\ epoch' = [epoch EXCEPT ![p] = @ + 1]
    /\ UNCHANGED <<record, guard, lease, nextLease>>

Step(p) ==
    \/ \E s \in Session, lv \in Level, t \in Ticket \cup {None} :
          Acquire(p, s, lv, t)
    \/ \E t \in Ticket : Reserve(p, t) \/ Consume(p, t)
    \/ Release(p)
    \/ ReleaseFails(p)
    \/ \E s \in Session, t \in Ticket : Finalize(p, s, t) \/ Acknowledge(p, s, t)
    \/ Crash(p)
    \/ Restart(p)

Next == \E p \in Process : Step(p)

Spec == Init /\ [][Next]_vars

-----------------------------------------------------------------------------
(* Properties.                                                             *)

\* Every variable has its type.
TypeOK ==
    /\ record \in Records
    /\ guard \in Process \cup {None}
    /\ lease \in [Process -> Leases]
    /\ alive \in [Process -> BOOLEAN]
    /\ epoch \in [Process -> Nat]
    /\ nextLease \in Nat

\* A lease object always finds the record it left on disk, so no owner ever
\* loses its lease to another process (PROBE_LEASE_LOST), whoever crashed,
\* reclaimed or settled in between; and only one process has one.
LeaseCurrent ==
    \A p \in Process : Held(p) =>
        /\ Current(p)
        /\ \A q \in Process : Held(q) => q = p

\* A reservation is never lost, handed to another session or to another
\* level by a crash, a reclaim or a failed release: it ends only when the
\* session that consumed it acknowledges that, which leaves its tombstone.
ReservationKept ==
    [][record.ticket # None =>
          IF record'.ticket = record.ticket
          THEN record'.session = record.session /\ record'.level = record.level
          ELSE /\ record.state = "handoff-finalized"
               /\ record' = ReleasedRecord(record.lease,
                                [ticket |-> record.ticket,
                                 session |-> record.session])]_record

\* The tombstone of a consumed ticket survives every later owner, until
\* another consumed ticket replaces it.
TombstoneKept ==
    [][record.tomb # NoTombstone /\ record'.tomb # record.tomb =>
          /\ record.state = "handoff-finalized"
          /\ record'.tomb.ticket = record.ticket]_record

\* What a handoff has written into the record is there for as long as its
\* session may still need it to resume or to prove what it did.
RecordKept == ReservationKept /\ TombstoneKept

\* What the record says of a reservation in each of its states.
RecordInv ==
    /\ record.state \in {"none", "released"} => record.ticket = None
    /\ record.state \in {"externally-owned", "handoff-consumed",
                         "handoff-finalized"} => record.ticket # None
    /\ record.ticket # None => record.session # None /\ record.level # None

\* The lease of p knows the reservation that the record it wrote stands for.
OwnerInv(p) ==
    /\ alive[p]
    /\ Current(p)
    /\ record.state \in {"active", "externally-owned"}
    /\ record.session # None
    /\ record.level # None
    /\ Claims(p) <=> record.ticket # None
    /\ Claims(p) =>
          /\ lease[p].external.state = "externally-owned"
          /\ lease[p].external.ticket = record.ticket
          /\ lease[p].external.session = record.session
          /\ lease[p].external.level = record.level
          /\ lease[p].external.tomb = record.tomb

\* What the other properties rest on: the lock and the lease go together,
\* and the reservation in the owner's memory, which its release will write
\* back, is the one on disk, after any sequence of reclaims and crashes.
LeaseInv ==
    /\ nextLease # 0
    /\ RecordInv
    /\ \A p \in Process : Held(p) <=> guard = p
    /\ \A p \in Process : Held(p) => OwnerInv(p)

\* Nothing but a recorded owner that still runs can keep everyone out: any
\* other probe nobody holds is open to all, to the session and level its
\* reservation names, or to the settlement of its consumed ticket.
NeverStuck ==
    guard = None /\ ~OwnerLive(record) =>
        \/ \A s \in Session, lv \in Level : Admits(record, s, lv, None)
        \/ \E s \in Session, lv \in Level, t \in Ticket : Admits(record, s, lv, t)
        \/ /\ record.state \in {"handoff-consumed", "handoff-finalized"}
           /\ \E s \in Session, t \in Ticket : MatchesHandoff(record, s, t)

-----------------------------------------------------------------------------
(* The lease implements the abstract ownership of the probe.               *)

Settling == record.state \in {"handoff-consumed", "handoff-finalized"}
Redeemed == \E p \in Process : Held(p) /\ lease[p].consumed

Ownership == INSTANCE ProbeOwnership WITH
    Client <- Process, Claim <- Ticket, Nothing <- None,
    holder <- guard, claim <- record.ticket,
    redeemed <- Redeemed, settling <- Settling

\* Every behaviour of the lease is a behaviour of ProbeOwnership: the
\* reservation behaves as a claim that crashes, reclaims, failed releases
\* and retried settlements never lose and never settle twice.
ImplementsOwnership == Ownership!Spec
=============================================================================
