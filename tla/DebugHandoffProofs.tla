--------------------------- MODULE DebugHandoffProofs ---------------------------
(***************************************************************************)
(* Proofs about ProbeLease, for any number of processes, sessions, levels, *)
(* tickets, leases and restarts, and about DebugHandoff, for any number of *)
(* builds too: the workflows drive the lease only through its operations,  *)
(* so what is proved of the lease holds for them; a ticket stays with its  *)
(* session and is restored from at most once.                              *)
(***************************************************************************)
EXTENDS DebugHandoff, TLAPS

-----------------------------------------------------------------------------
(* The lease.                                                              *)

\* The initial state is typed and satisfies the inductive invariant.
LEMMA InitInv == Init => TypeOK /\ LeaseInv
  BY NoneIsNoValue, BoundsAreNat
  DEF Init, TypeOK, LeaseInv, RecordInv, Records, RecordStates, Tombstones,
      NoTombstone, NoRecord, Leases, NoLease, Held

\* What a released record keeps.
LEMMA ReleasedFields ==
  ASSUME NEW id \in Nat, NEW tomb \in Tombstones
  PROVE  LET rec == ReleasedRecord(id, tomb) IN
         /\ rec \in Records
         /\ rec.state = "released" /\ rec.lease = id /\ rec.tomb = tomb
         /\ rec.ticket = None /\ rec.session = None
  BY DEF ReleasedRecord, NoRecord, NoTombstone, Records, RecordStates, Tombstones

\* What acquire lets past: the ticket presented is the one the record is
\* reserved for, with its session and level, and the reservation put aside
\* for the claim is that of the record.
LEMMA AdmitsReservation ==
  ASSUME TypeOK, RecordInv,
         NEW s \in Session, NEW lv \in Level, NEW t \in Ticket \cup {None},
         Admits(record, s, lv, t)
  PROVE  LET ext == ReservationOf(record) IN
         /\ ext \in Records
         /\ record.state \notin {"handoff-consumed", "handoff-finalized"}
         /\ record.ticket = t
         /\ t # None => record.session = s /\ record.level = lv
         /\ ext.state # "none" <=> t # None
         /\ ext.state # "none" =>
               /\ ext.state = "externally-owned"
               /\ ext.ticket = t
               /\ ext.session = s
               /\ ext.level = lv
               /\ ext.tomb = record.tomb
<1> DEFINE ext == ReservationOf(record)
<1>1. record \in Records
  BY DEF TypeOK
<1>2. NoRecord \in Records /\ NoRecord.state = "none"
  BY DEF NoRecord, Records, RecordStates, Tombstones, NoTombstone
<1>3. CASE record.state \in {"none", "released"} /\ t = None
  <2>1. ext = NoRecord
    BY <1>3 DEF ReservationOf
  <2> QED
    BY <1>2, <1>3, <2>1 DEF RecordInv
<1>4. CASE /\ record.state = "externally-owned"
           /\ MatchesReservation(record, s, lv, t)
  <2>1. ext = record
    BY <1>4 DEF ReservationOf
  <2> QED
    BY <1>1, <1>4, <2>1 DEF MatchesReservation, MatchesHandoff
<1>5. CASE record.state = "active" /\ record.ticket = None /\ t = None
  <2>1. ext = NoRecord
    BY <1>5 DEF ReservationOf
  <2> QED
    BY <1>2, <1>5, <2>1
<1>6. CASE /\ record.state = "active"
           /\ record.ticket # None
           /\ MatchesReservation(record, s, lv, t)
  <2>1. ext = [record EXCEPT !.state = "externally-owned",
                             !.lease = record.reservation,
                             !.reservation = 0]
    BY <1>6 DEF ReservationOf
  <2> DEFINE put == [record EXCEPT !.state = "externally-owned",
                                   !.lease = record.reservation,
                                   !.reservation = 0]
  <2>2. put \in Records
    BY <1>1 DEF Records, RecordStates
  <2>3. /\ ext.state = "externally-owned"
        /\ ext.ticket = record.ticket
        /\ ext.session = record.session
        /\ ext.level = record.level
        /\ ext.tomb = record.tomb
    BY <1>1, <2>1 DEF Records
  <2> QED
    BY <1>6, <2>1, <2>2, <2>3 DEF MatchesReservation, MatchesHandoff
<1> QED
  BY <1>3, <1>4, <1>5, <1>6 DEF Admits

-----------------------------------------------------------------------------
(* Every step preserves the invariant: one lemma for each action that      *)
(* writes the record.                                                      *)

LEMMA AcquireInv ==
  ASSUME TypeOK, LeaseInv, NEW p \in Process, NEW s \in Session,
         NEW lv \in Level, NEW t \in Ticket \cup {None}, Acquire(p, s, lv, t)
  PROVE  TypeOK' /\ LeaseInv'
<1> DEFINE ext == ReservationOf(record)
<1>1. /\ ext \in Records
      /\ record.state \notin {"handoff-consumed", "handoff-finalized"}
      /\ record.ticket = t
      /\ t # None => record.session = s /\ record.level = lv
      /\ ext.state # "none" <=> t # None
      /\ ext.state # "none" =>
            /\ ext.state = "externally-owned"
            /\ ext.ticket = t
            /\ ext.session = s
            /\ ext.level = lv
            /\ ext.tomb = record.tomb
  BY AdmitsReservation DEF Acquire, LeaseInv
<1>2. nextLease \in Nat /\ nextLease # 0 /\ epoch[p] \in Nat
  BY DEF TypeOK, LeaseInv
<1>3. ext.lease \in Nat /\ record.tomb \in Tombstones
  BY <1>1 DEF Records, TypeOK
<1>4. record' \in Records
  BY <1>2, <1>3 DEF Acquire, Records, RecordStates
<1>5. lease' \in [Process -> Leases]
  BY <1>1, <1>2 DEF Acquire, TypeOK, Leases
<1>6. TypeOK'
  BY <1>2, <1>4, <1>5 DEF Acquire, TypeOK
<1>7. /\ record'.state = "active" /\ record'.lease = nextLease
      /\ record'.proc = p /\ record'.epoch = epoch[p]
      /\ record'.session = s /\ record'.level = lv
      /\ record'.ticket = t /\ record'.tomb = record.tomb
  BY DEF Acquire
<1>8. /\ lease'[p].id = nextLease /\ lease'[p].external = ext
      /\ \A q \in Process \ {p} : lease'[q] = lease[q]
  BY DEF Acquire, TypeOK
<1>9. \A q \in Process : lease[q].id = 0
  BY NoneIsNoValue DEF Acquire, LeaseInv, Held
<1>10. RecordInv'
  BY <1>7, NoneIsNoValue DEF RecordInv
<1>11. \A q \in Process : (Held(q) <=> guard = q)'
  BY <1>2, <1>8, <1>9 DEF Acquire, Held
<1>12. OwnerInv(p)'
  BY <1>1, <1>7, <1>8, NoneIsNoValue DEF Acquire, OwnerInv, Current, Claims
<1>13. \A q \in Process : Held(q)' => q = p
  BY <1>8, <1>9 DEF Held
<1>14. (nextLease # 0)'
  BY <1>2 DEF Acquire
<1> QED
  BY <1>6, <1>10, <1>11, <1>12, <1>13, <1>14 DEF LeaseInv

LEMMA ReserveInv ==
  ASSUME TypeOK, LeaseInv, NEW p \in Process, NEW t \in Ticket, Reserve(p, t)
  PROVE  TypeOK' /\ LeaseInv'
<1> DEFINE external == [record EXCEPT !.state = "externally-owned", !.ticket = t]
<1>1. record \in Records /\ lease[p] \in Leases
  BY DEF TypeOK
<1>2. external \in Records
  BY <1>1 DEF Records, RecordStates
<1>3. record' = external /\ lease' = [lease EXCEPT ![p].external = external]
  BY DEF Reserve
<1>4. TypeOK'
  BY <1>1, <1>2, <1>3 DEF Reserve, TypeOK, Leases
<1>5. /\ external.state = "externally-owned" /\ external.ticket = t
      /\ external.lease = record.lease /\ external.proc = record.proc
      /\ external.epoch = record.epoch /\ external.session = record.session
      /\ external.level = record.level /\ external.tomb = record.tomb
  BY <1>1 DEF Records
<1>6. /\ lease'[p].id = lease[p].id /\ lease'[p].external = external
      /\ \A q \in Process \ {p} : lease'[q] = lease[q]
  BY <1>1, <1>3 DEF TypeOK, Leases
<1>7. OwnerInv(p)
  BY DEF Reserve, LeaseInv
<1>8. RecordInv'
  BY <1>3, <1>5, <1>7, NoneIsNoValue DEF RecordInv, OwnerInv
<1>9. \A q \in Process : Held(q)' <=> Held(q)
  BY <1>6 DEF Held
<1>10. OwnerInv(p)'
  <2>1. alive[p]' /\ epoch' = epoch
    BY <1>7 DEF Reserve, OwnerInv
  <2>2. Current(p)'
    BY <1>3, <1>5, <1>6, <1>7, <2>1 DEF OwnerInv, Current
  <2>3. Claims(p)' /\ record'.ticket # None
    BY <1>3, <1>5, <1>6, NoneIsNoValue DEF Claims
  <2>4. record'.session # None /\ record'.level # None
    BY <1>3, <1>5, <1>7 DEF OwnerInv
  <2> QED
    BY <1>3, <1>5, <1>6, <2>1, <2>2, <2>3, <2>4 DEF OwnerInv
<1>11. \A q \in Process : Held(q) => q = p
  BY NoneIsNoValue DEF Reserve, LeaseInv
<1>12. UNCHANGED <<guard, nextLease>>
  BY DEF Reserve
<1> QED
  BY <1>4, <1>8, <1>9, <1>10, <1>11, <1>12 DEF LeaseInv

LEMMA ConsumeInv ==
  ASSUME TypeOK, LeaseInv, NEW p \in Process, NEW t \in Ticket, Consume(p, t)
  PROVE  TypeOK' /\ LeaseInv'
<1>1. lease' = [lease EXCEPT ![p].consumed = TRUE]
  BY DEF Consume
<1>2. TypeOK'
  BY <1>1 DEF Consume, TypeOK, Leases
<1>3. \A q \in Process : /\ lease'[q].id = lease[q].id
                         /\ lease'[q].external = lease[q].external
  BY <1>1 DEF TypeOK, Leases
<1>4. UNCHANGED <<record, guard, alive, epoch, nextLease>>
  BY DEF Consume
<1>5. \A q \in Process : (Held(q)' <=> Held(q)) /\ (OwnerInv(q) => OwnerInv(q)')
  BY <1>3, <1>4 DEF Held, OwnerInv, Current, Claims
<1>6. RecordInv'
  BY <1>4 DEF LeaseInv, RecordInv
<1> QED
  BY <1>2, <1>4, <1>5, <1>6 DEF LeaseInv

\* Letting go of the lease, in whatever way: what is left to show is that
\* the record keeps its type and RecordInv.
LEMMA LetGoInv ==
  ASSUME TypeOK, LeaseInv, NEW p \in Process, guard = p,
         record' \in Records, RecordInv',
         lease' = [lease EXCEPT ![p] = NoLease], guard' = None,
         alive' \in [Process -> BOOLEAN], UNCHANGED <<epoch, nextLease>>
  PROVE  TypeOK' /\ LeaseInv'
<1>1. NoLease \in Leases /\ NoLease.id = 0
  BY DEF NoLease, NoRecord, NoTombstone, Leases, Records, RecordStates, Tombstones
<1>2. TypeOK'
  BY <1>1 DEF TypeOK
<1>3. \A q \in Process : ~Held(q)'
  BY <1>1 DEF LeaseInv, Held, TypeOK
<1> QED
  BY <1>2, <1>3, NoneIsNoValue DEF LeaseInv

\* What a release writes.
LEMMA SettledRecord ==
  ASSUME TypeOK, LeaseInv, NEW p \in Process, Held(p)
  PROVE  /\ Settled(p) \in Records
         /\ Settled(p).ticket = record.ticket
         /\ Settled(p).tomb = record.tomb
         /\ record.ticket # None =>
               /\ Settled(p).session = record.session
               /\ Settled(p).level = record.level
               /\ Settled(p).state = IF lease[p].consumed
                                     THEN "handoff-consumed"
                                     ELSE "externally-owned"
         /\ record.ticket = None => Settled(p).state = "released"
<1>1. /\ lease[p].id \in Nat /\ lease[p].external \in Records
      /\ record \in Records
  BY DEF TypeOK, Leases
<1>2. OwnerInv(p)
  BY DEF LeaseInv
<1>3. CASE ~Claims(p)
  <2>1. Settled(p) = ReleasedRecord(lease[p].id, record.tomb)
    BY <1>3 DEF Settled
  <2>2. record.ticket = None
    BY <1>2, <1>3 DEF OwnerInv
  <2>3. record.tomb \in Tombstones
    BY <1>1 DEF Records
  <2> QED
    BY <1>1, <2>1, <2>2, <2>3, ReleasedFields
<1>4. CASE Claims(p) /\ lease[p].consumed
  <2> DEFINE ext == lease[p].external
  <2>1. Settled(p) = [ext EXCEPT !.state = "handoff-consumed",
                                 !.lease = lease[p].id]
    BY <1>4 DEF Settled
  <2>2. Settled(p) \in Records
    BY <1>1, <2>1 DEF Records, RecordStates
  <2>3. /\ Settled(p).state = "handoff-consumed"
        /\ Settled(p).ticket = ext.ticket /\ Settled(p).tomb = ext.tomb
        /\ Settled(p).session = ext.session /\ Settled(p).level = ext.level
    BY <1>1, <2>1 DEF Records
  <2> QED
    BY <1>2, <1>4, <2>2, <2>3 DEF OwnerInv
<1>5. CASE Claims(p) /\ ~lease[p].consumed
  <2>1. Settled(p) = lease[p].external
    BY <1>5 DEF Settled
  <2> QED
    BY <1>1, <1>2, <1>5, <2>1 DEF OwnerInv
<1> QED
  BY <1>3, <1>4, <1>5

LEMMA ReleaseInv ==
  ASSUME TypeOK, LeaseInv, NEW p \in Process, Release(p)
  PROVE  TypeOK' /\ LeaseInv'
<1>1. Held(p) /\ guard = p /\ record' = Settled(p)
  BY DEF Release, LeaseInv
<1>2. OwnerInv(p)
  BY <1>1 DEF LeaseInv
<1>3. RecordInv'
  <2>1. CASE record.ticket = None
    BY <1>1, <2>1, SettledRecord DEF RecordInv
  <2>2. CASE record.ticket # None
    BY <1>1, <1>2, <2>2, SettledRecord DEF RecordInv, OwnerInv
  <2> QED
    BY <2>1, <2>2
<1>4. alive' \in [Process -> BOOLEAN] /\ UNCHANGED <<epoch, nextLease>>
  BY DEF Release, TypeOK
<1> QED
  BY <1>1, <1>3, <1>4, SettledRecord, LetGoInv DEF Release

LEMMA ReleaseFailsInv ==
  ASSUME TypeOK, LeaseInv, NEW p \in Process, ReleaseFails(p)
  PROVE  TypeOK' /\ LeaseInv'
<1>1. guard = p
  BY DEF ReleaseFails, LeaseInv
<1>2. record' \in Records /\ RecordInv'
  BY DEF ReleaseFails, TypeOK, LeaseInv, RecordInv
<1>3. alive' \in [Process -> BOOLEAN] /\ UNCHANGED <<epoch, nextLease>>
  BY DEF ReleaseFails, TypeOK
<1> QED
  BY <1>1, <1>2, <1>3, LetGoInv DEF ReleaseFails

\* Settling a consumed handoff: nobody holds the probe.
LEMMA UnheldInv ==
  ASSUME TypeOK, LeaseInv, guard = None, record' \in Records, RecordInv',
         UNCHANGED <<guard, lease, alive, epoch, nextLease>>
  PROVE  TypeOK' /\ LeaseInv'
<1>1. \A q \in Process : ~Held(q) /\ ~Held(q)'
  BY NoneIsNoValue DEF LeaseInv, Held
<1> QED
  BY <1>1 DEF TypeOK, LeaseInv

LEMMA FinalizeInv ==
  ASSUME TypeOK, LeaseInv, NEW p \in Process, NEW s \in Session,
         NEW t \in Ticket, Finalize(p, s, t)
  PROVE  TypeOK' /\ LeaseInv'
<1>1. record \in Records
  BY DEF TypeOK
<1>2. record' = [record EXCEPT !.state = "handoff-finalized"]
  BY DEF Finalize
<1>3. record' \in Records /\ record'.state = "handoff-finalized"
  BY <1>1, <1>2 DEF Records, RecordStates
<1>4. /\ record'.ticket = record.ticket /\ record'.session = record.session
      /\ record'.level = record.level
  BY <1>1, <1>2 DEF Records
<1>5. RecordInv'
  BY <1>3, <1>4 DEF LeaseInv, RecordInv, Finalize
<1> QED
  BY <1>3, <1>5, UnheldInv DEF Finalize

LEMMA AcknowledgeInv ==
  ASSUME TypeOK, LeaseInv, NEW p \in Process, NEW s \in Session,
         NEW t \in Ticket, Acknowledge(p, s, t)
  PROVE  TypeOK' /\ LeaseInv'
<1>1. record \in Records
  BY DEF TypeOK
<1>2. CASE record' = record
  <2>1. record' \in Records /\ RecordInv'
    BY <1>1, <1>2 DEF LeaseInv, RecordInv
  <2> QED
    BY <2>1, UnheldInv DEF Acknowledge
<1>3. CASE record' = ReleasedRecord(record.lease, [ticket |-> t, session |-> s])
  <2>0. record.lease \in Nat /\ [ticket |-> t, session |-> s] \in Tombstones
    BY <1>1 DEF Records, Tombstones
  <2>1. record' \in Records /\ record'.state = "released" /\ record'.ticket = None
    BY <1>1, <1>3, <2>0, ReleasedFields
  <2>2. RecordInv'
    BY <2>1 DEF RecordInv
  <2> QED
    BY <2>1, <2>2, UnheldInv DEF Acknowledge
<1> QED
  BY <1>2, <1>3 DEF Acknowledge

LEMMA CrashInv ==
  ASSUME TypeOK, LeaseInv, NEW p \in Process, Crash(p)
  PROVE  TypeOK' /\ LeaseInv'
<1>1. record' \in Records /\ RecordInv' /\ alive' \in [Process -> BOOLEAN]
  BY DEF Crash, TypeOK, LeaseInv, RecordInv
<1>2. CASE guard = p
  BY <1>1, <1>2, LetGoInv DEF Crash
<1>3. CASE guard # p
  <2>1. NoLease \in Leases /\ NoLease.id = 0
    BY DEF NoLease, NoRecord, NoTombstone, Leases, Records, RecordStates, Tombstones
  <2>2. TypeOK'
    BY <1>1, <1>3, <2>1 DEF Crash, TypeOK
  <2>3. \A q \in Process \ {p} : lease'[q] = lease[q] /\ alive'[q] = alive[q]
    BY DEF Crash, TypeOK
  <2>4. ~Held(p) /\ ~Held(p)'
    BY <1>3, <2>1 DEF Crash, LeaseInv, Held, TypeOK
  <2>5. UNCHANGED <<record, guard, epoch, nextLease>>
    BY <1>3 DEF Crash
  <2>6. \A q \in Process : (Held(q)' <=> Held(q)) /\ (Held(q) /\ OwnerInv(q) => OwnerInv(q)')
    BY <2>3, <2>4, <2>5 DEF Held, OwnerInv, Current, Claims
  <2> QED
    BY <1>1, <2>2, <2>5, <2>6 DEF LeaseInv
<1> QED
  BY <1>2, <1>3

LEMMA RestartInv ==
  ASSUME TypeOK, LeaseInv, NEW p \in Process, Restart(p)
  PROVE  TypeOK' /\ LeaseInv'
<1>1. TypeOK'
  BY DEF Restart, TypeOK
<1>2. ~Held(p)
  BY DEF Restart, LeaseInv, OwnerInv
<1>3. \A q \in Process \ {p} : alive'[q] = alive[q] /\ epoch'[q] = epoch[q]
  BY DEF Restart, TypeOK
<1>4. UNCHANGED <<record, guard, lease, nextLease>>
  BY DEF Restart
<1>5. \A q \in Process : (Held(q)' <=> Held(q)) /\ (Held(q) /\ OwnerInv(q) => OwnerInv(q)')
  BY <1>2, <1>3, <1>4 DEF Held, OwnerInv, Current, Claims
<1>6. RecordInv'
  BY <1>4 DEF LeaseInv, RecordInv
<1> QED
  BY <1>1, <1>4, <1>5, <1>6 DEF LeaseInv

LEMMA StepInv ==
  ASSUME TypeOK, LeaseInv, [Next]_vars
  PROVE  TypeOK' /\ LeaseInv'
<1>1. CASE UNCHANGED vars
  BY <1>1 DEF vars, TypeOK, LeaseInv, RecordInv, Held, OwnerInv, Current, Claims
<1>2. CASE Next
  <2> PICK p \in Process : Step(p)
    BY <1>2 DEF Next
  <2> QED
    BY AcquireInv, ReserveInv, ConsumeInv, ReleaseInv, ReleaseFailsInv,
       FinalizeInv, AcknowledgeInv, CrashInv, RestartInv
    DEF Step
<1> QED
  BY <1>1, <1>2

-----------------------------------------------------------------------------
\* Every variable keeps its type, and a lease object and the lock and record
\* on disk always agree, in every behaviour of the registry.
THEOREM Invariance == Spec => [](TypeOK /\ LeaseInv)
  BY InitInv, StepInv, PTL DEF Spec

\* Every variable keeps its type (the registry of probe/lease.py).
THEOREM TypeCorrect == Spec => []TypeOK
  BY Invariance, PTL

\* Nobody loses a lease to another process, and only one process holds one.
THEOREM LeaseIsCurrent == Spec => []LeaseCurrent
<1>1. LeaseInv => LeaseCurrent
  BY NoneIsNoValue DEF LeaseInv, OwnerInv, LeaseCurrent
<1> QED
  BY <1>1, Invariance, PTL

\* Whatever crashed, a probe that nobody runs for can be acquired by all, by
\* the session it is reserved for, or be settled.
THEOREM NeverStuckAlways == Spec => []NeverStuck
<1>1. TypeOK /\ LeaseInv => NeverStuck
  <2> SUFFICES ASSUME TypeOK, LeaseInv, guard = None, ~OwnerLive(record)
               PROVE  NeverStuck
    BY DEF NeverStuck
  <2>1. /\ record.state \in RecordStates
        /\ record.ticket \in Ticket \cup {None}
        /\ record.session \in Session \cup {None}
        /\ record.level \in Level \cup {None}
    BY DEF TypeOK, Records
  <2>2. CASE record.ticket = None
    <3>1. record.state \in {"none", "released", "active"}
      BY <2>1, <2>2 DEF RecordStates, LeaseInv, RecordInv
    <3> QED
      BY <2>2, <3>1 DEF NeverStuck, Admits
  <2>3. CASE record.ticket # None
    <3>1. /\ record.ticket \in Ticket
          /\ record.session \in Session
          /\ record.level \in Level
      BY <2>1, <2>3 DEF LeaseInv, RecordInv
    <3>2. MatchesReservation(record, record.session, record.level, record.ticket)
      BY <2>3 DEF MatchesReservation, MatchesHandoff
    <3>3. record.state \in {"active", "externally-owned", "handoff-consumed",
                            "handoff-finalized"}
      BY <2>1, <2>3 DEF RecordStates, LeaseInv, RecordInv
    <3>4. CASE record.state \in {"active", "externally-owned"}
      <4>1. Admits(record, record.session, record.level, record.ticket)
        BY <2>3, <3>2, <3>4 DEF Admits
      <4> QED
        BY <3>1, <4>1 DEF NeverStuck
    <3>5. CASE record.state \in {"handoff-consumed", "handoff-finalized"}
      BY <3>1, <3>2, <3>5 DEF NeverStuck, MatchesReservation
    <3> QED
      BY <3>3, <3>4, <3>5
  <2> QED
    BY <2>2, <2>3
<1> QED
  BY <1>1, Invariance, PTL

-----------------------------------------------------------------------------
(* What a step may do to the reservation and to the tombstone.             *)

LEMMA StepKeeps ==
  ASSUME TypeOK, LeaseInv, Next
  PROVE  \/ /\ record'.ticket = record.ticket
            /\ record.ticket # None =>
                  /\ record'.session = record.session
                  /\ record'.level = record.level
            /\ record'.tomb = record.tomb
         \/ /\ record.ticket = None
            /\ record'.tomb = record.tomb
         \/ /\ record.state = "handoff-finalized"
            /\ record' = ReleasedRecord(record.lease,
                            [ticket |-> record.ticket,
                             session |-> record.session])
<1> PICK p \in Process : Step(p)
  BY DEF Next
<1>1. record \in Records
  BY DEF TypeOK
<1>2. ASSUME NEW s \in Session, NEW lv \in Level,
             NEW t \in Ticket \cup {None}, Acquire(p, s, lv, t)
      PROVE  /\ record'.ticket = record.ticket
             /\ record.ticket # None =>
                   /\ record'.session = record.session
                   /\ record'.level = record.level
             /\ record'.tomb = record.tomb
  BY <1>2, AdmitsReservation DEF Acquire, LeaseInv
<1>3. ASSUME NEW t \in Ticket, Reserve(p, t)
      PROVE  record.ticket = None /\ record'.tomb = record.tomb
  <2>1. record.ticket = None
    BY <1>3 DEF Reserve, LeaseInv, OwnerInv
  <2>2. record' = [record EXCEPT !.state = "externally-owned", !.ticket = t]
    BY <1>3 DEF Reserve
  <2> QED
    BY <1>1, <2>1, <2>2 DEF Records
<1>4. CASE Release(p)
  BY <1>4, SettledRecord DEF Release
<1>5. ASSUME NEW s \in Session, NEW t \in Ticket, Finalize(p, s, t)
      PROVE  /\ record'.ticket = record.ticket
             /\ record'.session = record.session
             /\ record'.level = record.level
             /\ record'.tomb = record.tomb
  <2>1. record' = [record EXCEPT !.state = "handoff-finalized"]
    BY <1>5 DEF Finalize
  <2> QED
    BY <1>1, <2>1 DEF Records
<1>6. ASSUME NEW s \in Session, NEW t \in Ticket, Acknowledge(p, s, t)
      PROVE  \/ record' = record
             \/ /\ record.state = "handoff-finalized"
                /\ record' = ReleasedRecord(record.lease,
                                [ticket |-> record.ticket,
                                 session |-> record.session])
  BY <1>6 DEF Acknowledge, MatchesHandoff
<1>7. CASE \/ ReleaseFails(p) \/ Crash(p) \/ Restart(p)
           \/ \E t \in Ticket : Consume(p, t)
  <2>1. record' = record
    BY <1>7 DEF ReleaseFails, Crash, Restart, Consume
  <2> QED
    BY <2>1
<1> QED
  BY <1>2, <1>3, <1>4, <1>5, <1>6, <1>7 DEF Step

\* A reservation ends only when the session that consumed it says so.
THEOREM ReservationIsKept == Spec => ReservationKept
<1>1. TypeOK /\ LeaseInv /\ [Next]_vars =>
        [record.ticket # None =>
          IF record'.ticket = record.ticket
          THEN record'.session = record.session /\ record'.level = record.level
          ELSE /\ record.state = "handoff-finalized"
               /\ record' = ReleasedRecord(record.lease,
                                [ticket |-> record.ticket,
                                 session |-> record.session])]_record
  <2> SUFFICES ASSUME TypeOK, LeaseInv, Next, record.ticket # None
               PROVE  IF record'.ticket = record.ticket
                      THEN /\ record'.session = record.session
                           /\ record'.level = record.level
                      ELSE /\ record.state = "handoff-finalized"
                           /\ record' = ReleasedRecord(record.lease,
                                            [ticket |-> record.ticket,
                                             session |-> record.session])
    BY DEF vars
  <2>1. record.lease \in Nat
        /\ [ticket |-> record.ticket, session |-> record.session] \in Tombstones
    BY DEF TypeOK, Records, Tombstones
  <2> QED
    BY <2>1, StepKeeps, ReleasedFields
<1> QED
  BY <1>1, Invariance, PTL DEF Spec, ReservationKept

\* The tombstone of a consumed ticket is only replaced by the next one.
THEOREM TombstoneIsKept == Spec => TombstoneKept
<1>1. TypeOK /\ LeaseInv /\ [Next]_vars =>
        [record.tomb # NoTombstone /\ record'.tomb # record.tomb =>
          /\ record.state = "handoff-finalized"
          /\ record'.tomb.ticket = record.ticket]_record
  <2> SUFFICES ASSUME TypeOK, LeaseInv, Next, record'.tomb # record.tomb
               PROVE  /\ record.state = "handoff-finalized"
                      /\ record'.tomb.ticket = record.ticket
    BY DEF vars
  <2>1. record.lease \in Nat
        /\ [ticket |-> record.ticket, session |-> record.session] \in Tombstones
    BY DEF TypeOK, Records, Tombstones
  <2>2. record.state = "handoff-finalized"
        /\ record' = ReleasedRecord(record.lease, [ticket |-> record.ticket,
                                                   session |-> record.session])
    BY StepKeeps
  <2> QED
    BY <2>1, <2>2, ReleasedFields
<1> QED
  BY <1>1, Invariance, PTL DEF Spec, TombstoneKept

\* Both: what a handoff has written into the record is kept.
THEOREM RecordIsKept == Spec => RecordKept
  BY ReservationIsKept, TombstoneIsKept DEF RecordKept

-----------------------------------------------------------------------------
(* The refinement: each step maps to a step of ProbeOwnership or to none.  *)

LEMMA OwnershipInit == Init => Ownership!Init
  BY DEF Init, Ownership!Init, NoRecord, NoLease, Redeemed, Settling, Held

\* With the lock free there is no claim in anybody's memory.
LEMMA FreeMeansUnredeemed ==
  ASSUME LeaseInv, guard = None
  PROVE  ~Redeemed
  BY NoneIsNoValue DEF LeaseInv, Redeemed, Held

\* Letting go of the lease, by a release, a failed release or a crash.
LEMMA LetGoIsLeave ==
  ASSUME TypeOK, LeaseInv, NEW p \in Process, guard = p,
         guard' = None, lease' = [lease EXCEPT ![p] = NoLease],
         record'.ticket = record.ticket, Settling' => Redeemed
  PROVE  Ownership!Leave(p)
<1>1. ~Redeemed'
  BY DEF LeaseInv, TypeOK, Redeemed, Held, NoLease
<1>2. Redeemed' = FALSE /\ Settling' \in BOOLEAN
  BY <1>1 DEF Settling, Redeemed
<1> QED
  BY <1>2 DEF Ownership!Leave

LEMMA OwnershipStep ==
  ASSUME TypeOK, LeaseInv, TypeOK', LeaseInv', [Next]_vars
  PROVE  [Ownership!Next]_Ownership!vars
<1>1. CASE UNCHANGED vars
  BY <1>1 DEF vars, Ownership!vars, Redeemed, Settling, Held
<1>2. CASE Next
  <2> PICK p \in Process : Step(p)
    BY <1>2 DEF Next
  <2>0. /\ guard = None => ~Redeemed
        /\ guard = p => OwnerInv(p) /\ ~Settling
    BY FreeMeansUnredeemed DEF LeaseInv, OwnerInv, Settling
  <2>1. ASSUME NEW s \in Session, NEW lv \in Level,
               NEW t \in Ticket \cup {None}, Acquire(p, s, lv, t)
        PROVE  Ownership!Take(p)
    <3>1. ~Settling /\ record.ticket = t
      BY <2>1, AdmitsReservation DEF Acquire, LeaseInv, Settling
    <3>2. record'.ticket = t /\ record'.state = "active"
      BY <2>1 DEF Acquire
    <3>3. ~Redeemed'
      BY <2>1, NoneIsNoValue DEF Acquire, LeaseInv, TypeOK, Redeemed, Held
    <3>4. guard = None /\ guard' = p
      BY <2>1 DEF Acquire
    <3>5. Redeemed' = Redeemed
      BY <2>0, <3>3, <3>4 DEF Redeemed
    <3>6. Settling' = Settling
      BY <3>1, <3>2 DEF Settling
    <3> QED
      BY <3>5, <3>6, <3>1, <3>2, <3>3, <3>4 DEF Ownership!Take, Settling
  <2>2. ASSUME NEW t \in Ticket, Reserve(p, t)
        PROVE  Ownership!PlaceClaim(p, t)
    <3>1. guard = p /\ record.ticket = None
      BY <2>2 DEF Reserve, LeaseInv, OwnerInv
    <3>2. record'.ticket = t /\ record'.state = "externally-owned"
      BY <2>2 DEF Reserve, TypeOK, Records
    <3>3. Redeemed' = Redeemed
      BY <2>2 DEF Reserve, TypeOK, Leases, Redeemed, Held
    <3>4. UNCHANGED guard
      BY <2>2 DEF Reserve
    <3> QED
      BY <2>0, <3>1, <3>2, <3>3, <3>4 DEF Ownership!PlaceClaim, Settling
  <2>3. ASSUME NEW t \in Ticket, Consume(p, t)
        PROVE  Ownership!Redeem(p)
    <3>1. guard = p /\ record.ticket # None
      BY <2>3, NoneIsNoValue DEF Consume, LeaseInv
    <3>2. Redeemed'
      BY <2>3 DEF Consume, TypeOK, Leases, Redeemed, Held
    <3>3. UNCHANGED <<guard, record>>
      BY <2>3 DEF Consume
    <3> QED
      BY <3>1, <3>2, <3>3 DEF Ownership!Redeem, Settling
  <2>4. ASSUME Release(p)
        PROVE  Ownership!Leave(p)
    <3>1. Held(p) /\ guard = p /\ record' = Settled(p)
      BY <2>4 DEF Release, LeaseInv
    <3>2. record'.ticket = record.ticket
      BY <3>1, SettledRecord
    <3>3. Settling' => Redeemed
      BY <3>1, SettledRecord DEF Settling, Redeemed
    <3> QED
      BY <2>4, <3>1, <3>2, <3>3, LetGoIsLeave DEF Release
  <2>5. ASSUME guard = p, guard' = None, record' = record,
               lease' = [lease EXCEPT ![p] = NoLease]
        PROVE  Ownership!Leave(p)
    BY <2>0, <2>5, LetGoIsLeave DEF Settling
  <2>6. CASE ReleaseFails(p)
    BY <2>5, <2>6 DEF ReleaseFails, LeaseInv, Ownership!Next
  <2>7. CASE Crash(p)
    <3>1. CASE guard = p
      BY <2>5, <2>7, <3>1 DEF Crash, Ownership!Next
    <3>2. CASE guard # p
      <4>1. UNCHANGED <<record, guard>>
        BY <2>7, <3>2 DEF Crash
      <4>2. Redeemed' = Redeemed
        BY <2>7, <3>2 DEF Crash, LeaseInv, TypeOK, Redeemed, Held, NoLease
      <4> QED
        BY <4>1, <4>2 DEF Ownership!vars, Settling
    <3> QED
      BY <3>1, <3>2 DEF Ownership!Next
  <2>8. ASSUME NEW s \in Session, NEW t \in Ticket, Finalize(p, s, t)
        PROVE  UNCHANGED Ownership!vars
    <3>1. UNCHANGED <<guard, lease>> /\ Settling
      BY <2>8 DEF Finalize, Settling
    <3>2. record'.ticket = record.ticket /\ Settling'
      BY <2>8 DEF Finalize, TypeOK, Records, Settling
    <3> QED
      BY <3>1, <3>2 DEF Ownership!vars, Redeemed, Held, Settling
  <2>9. ASSUME NEW s \in Session, NEW t \in Ticket, Acknowledge(p, s, t)
        PROVE  Ownership!Settle \/ UNCHANGED Ownership!vars
    <3>1. UNCHANGED <<guard, lease>> /\ guard = None
      BY <2>9 DEF Acknowledge
    <3>2. Redeemed' = Redeemed
      BY <3>1 DEF Redeemed, Held
    <3>3. CASE record' = record
      BY <3>1, <3>2, <3>3 DEF Ownership!vars, Settling
    <3>4. CASE /\ record.state = "handoff-finalized"
               /\ record' = ReleasedRecord(record.lease,
                                           [ticket |-> t, session |-> s])
      <4>1. record.lease \in Nat /\ [ticket |-> t, session |-> s] \in Tombstones
        BY DEF TypeOK, Records, Tombstones
      <4>2. record'.ticket = None /\ record'.state = "released"
        BY <3>4, <4>1, ReleasedFields
      <4> QED
        BY <3>1, <3>2, <3>4, <4>2 DEF Ownership!Settle, Settling
    <3> QED
      BY <2>9, <3>3, <3>4 DEF Acknowledge
  <2>10. CASE Restart(p)
    BY <2>10 DEF Restart, Ownership!vars, Redeemed, Held, Settling
  <2> QED
    BY <2>1, <2>2, <2>3, <2>4, <2>6, <2>7, <2>8, <2>9, <2>10
    DEF Step, Ownership!Next
<1> QED
  BY <1>1, <1>2

\* The lease implements the abstract ownership of the probe.
THEOREM OwnershipImplemented == Spec => ImplementsOwnership
<1>1. Spec => Ownership!Init
  BY OwnershipInit, PTL DEF Spec
<1>2. Spec => [][Ownership!Next]_Ownership!vars
  BY Invariance, OwnershipStep, PTL DEF Spec
<1> QED
  BY <1>1, <1>2, PTL DEF ImplementsOwnership, Ownership!Spec

-----------------------------------------------------------------------------
(* The workflows.                                                          *)

IInv == TypeOK /\ LeaseInv /\ HandoffTypes /\ HandoffInv

\* The initial states satisfy the inductive invariant.
LEMMA HInitInv == HInit => IInv
<1> SUFFICES ASSUME HInit PROVE IInv
  OBVIOUS
<1>1. TypeOK /\ LeaseInv
  BY InitInv DEF HInit
<1>2. NoHandoff \in Handoffs /\ NoHandoff.st = "none" /\ NoHandoff.ticket = None
  BY DEF NoHandoff, Handoffs, HandoffStates
<1>3. NoJob \in Jobs /\ NoJob.step = "idle"
  BY DEF NoJob, Jobs, JobSteps
<1>4. HandoffTypes
  BY <1>2, <1>3 DEF HInit, HandoffTypes, Evidence
<1>5. TicketInv
  BY <1>2 DEF HInit, TicketInv
<1>6. \A p \in Process : JobInv(p)
  BY <1>3 DEF HInit, JobInv, At, GuardedSteps, BeginSteps, EndSteps
<1> QED
  BY <1>1, <1>4, <1>5, <1>6 DEF IInv, HandoffInv

-----------------------------------------------------------------------------
(* What a step of p leaves to the others.                                  *)

\* A step of p that touches no session guarded by another process keeps
\* every other job's invariant.
LEMMA OtherJobs ==
  ASSUME HandoffInv, NEW p \in Process,
         \A q \in Process \ {p} : job'[q] = job[q],
         \A r \in Session : sguard[r] \notin {p, None} =>
                               sguard'[r] = sguard[r] /\ handoff'[r] = handoff[r]
  PROVE  \A q \in Process \ {p} : JobInv(q)'
<1> SUFFICES ASSUME NEW q \in Process \ {p} PROVE JobInv(q)'
  OBVIOUS
<1>1. JobInv(q)
  BY DEF HandoffInv
<1>2. CASE job[q].step \in GuardedSteps
  <2>1. Sess(q) \in Session /\ sguard[Sess(q)] = q
    BY <1>1, <1>2 DEF JobInv, At, GuardedSteps, BeginSteps, EndSteps
  <2>2. sguard'[Sess(q)] = q /\ handoff'[Sess(q)] = handoff[Sess(q)]
    BY <2>1, NoneIsNoValue
  <2> QED
    BY <1>1, <2>1, <2>2 DEF JobInv, At, Sess, Mine
<1>3. CASE job[q].step \notin GuardedSteps
  BY <1>1, <1>3 DEF JobInv, At, Sess, GuardedSteps, BeginSteps, EndSteps
<1> QED
  BY <1>2, <1>3

\* Leaving the guard keeps the guards of the others.
LEMMA UnguardOthers ==
  ASSUME HandoffTypes, NEW p \in Process, Unguard(p)
  PROVE  /\ sguard' \in [Session -> Process \cup {None}]
         /\ \A r \in Session : sguard[r] \notin {p, None} => sguard'[r] = sguard[r]
  BY DEF HandoffTypes, Unguard

\* The workflow of p ends, or turns to stopping its service.
LEMMA LeaveJob ==
  ASSUME HandoffTypes, HandoffInv, NEW p \in Process,
         Finish(p) \/ (Cleanup(p) /\ ~Idle(p)),
         UNCHANGED <<fw, chip, flashed, handoff, issued, restored>>
  PROVE  HandoffTypes' /\ HandoffInv'
<1>1. Unguard(p)
  BY DEF Finish, Cleanup
<1>2. /\ job' \in [Process -> Jobs]
      /\ \A q \in Process \ {p} : job'[q] = job[q]
      /\ job'[p].step \in {"idle", "cleanup"}
      /\ job'[p].step = "cleanup" => job'[p].session \in Session
  <2>1. CASE Finish(p)
    <3>1. NoJob \in Jobs /\ NoJob.step = "idle"
      BY DEF NoJob, Jobs, JobSteps
    <3> QED
      BY <2>1, <3>1 DEF Finish, HandoffTypes
  <2>2. CASE Cleanup(p) /\ ~Idle(p)
    <3>1. job[p] \in Jobs /\ job[p].session \in Session
      BY <2>2 DEF HandoffTypes, HandoffInv, JobInv, Idle, At, Sess
    <3>2. job' = [job EXCEPT ![p] = [job[p] EXCEPT !.step = "cleanup"]]
      BY <2>2 DEF Cleanup, Goto
    <3>3. [job[p] EXCEPT !.step = "cleanup"] \in Jobs
      BY <3>1 DEF Jobs, JobSteps
    <3> QED
      BY <3>1, <3>2, <3>3 DEF HandoffTypes, Jobs
  <2> QED
    BY <2>1, <2>2
<1>3. HandoffTypes'
  BY <1>1, <1>2, UnguardOthers DEF HandoffTypes
<1>4. TicketInv'
  BY DEF HandoffInv, TicketInv
<1>5. JobInv(p)'
  BY <1>2 DEF JobInv, At, Sess, GuardedSteps, BeginSteps, EndSteps
<1>6. \A q \in Process \ {p} : JobInv(q)'
  BY <1>1, <1>2, UnguardOthers, OtherJobs
<1> QED
  BY <1>3, <1>4, <1>5, <1>6 DEF HandoffInv

\* The workflow of p goes on within the same phase, with or without a change
\* to the target or to the flash evidence.
LEMMA AdvanceJob ==
  ASSUME HandoffTypes, HandoffInv, NEW p \in Process,
         NEW step \in JobSteps, Goto(p, step), ~Idle(p),
         step \in GuardedSteps => job[p].step \in GuardedSteps,
         step \in EndSteps => job[p].step \in EndSteps,
         step \in {"reserve", "stop", "prove"} =>
            job[p].step \in {"reserve", "stop", "prove"},
         fw' \in Build, chip' \in Build, flashed' \in Evidence,
         UNCHANGED <<handoff, sguard, issued, restored>>
  PROVE  HandoffTypes' /\ HandoffInv'
<1>1. job[p] \in Jobs /\ JobInv(p)
  BY DEF HandoffTypes, HandoffInv
<1>2. job' = [job EXCEPT ![p] = [job[p] EXCEPT !.step = step]]
  BY DEF Goto
<1>3. [job[p] EXCEPT !.step = step] \in Jobs
  BY <1>1 DEF Jobs
<1>4. /\ job' \in [Process -> Jobs]
      /\ \A q \in Process \ {p} : job'[q] = job[q]
      /\ job'[p].step = step
      /\ job'[p].session = job[p].session
      /\ job'[p].ticket = job[p].ticket
  BY <1>1, <1>2, <1>3 DEF HandoffTypes, Jobs
<1>5. HandoffTypes'
  BY <1>4 DEF HandoffTypes
<1>6. TicketInv'
  BY DEF HandoffInv, TicketInv
<1>7. JobInv(p)'
  BY <1>1, <1>4 DEF JobInv, At, Sess, Mine, Idle
<1>8. \A q \in Process \ {p} : JobInv(q)'
  BY <1>4, OtherJobs
<1> QED
  BY <1>5, <1>6, <1>7, <1>8 DEF HandoffInv

-----------------------------------------------------------------------------
(* The steps that write the state file, the guard or a whole job.          *)

LEMMA StartServiceInv ==
  ASSUME HandoffTypes, HandoffInv, NEW p \in Process, NEW s \in Session,
         NEW lv \in Level, NEW step \in {"admit", "program", "cleanup"},
         StartService(p, s, lv, step)
  PROVE  HandoffTypes' /\ HandoffInv'
<1> DEFINE j == [NoJob EXCEPT !.step = step, !.session = s]
<1>1. j \in Jobs /\ j.step = step /\ j.session = s
  BY DEF NoJob, Jobs, JobSteps, BeginSteps
<1>2. job' = [job EXCEPT ![p] = j] /\ UNCHANGED <<fw, chip, flashed, handoff, sguard, issued, restored>>
  BY DEF StartService
<1>3. /\ job' \in [Process -> Jobs] /\ job'[p] = j
      /\ \A q \in Process \ {p} : job'[q] = job[q]
  BY <1>1, <1>2 DEF HandoffTypes
<1>4. HandoffTypes'
  BY <1>2, <1>3 DEF HandoffTypes
<1>5. TicketInv'
  BY <1>2 DEF HandoffInv, TicketInv
<1>6. JobInv(p)'
  BY <1>1, <1>3 DEF JobInv, At, Sess, GuardedSteps, BeginSteps, EndSteps
<1>7. \A q \in Process \ {p} : JobInv(q)'
  BY <1>2, <1>3, OtherJobs
<1> QED
  BY <1>4, <1>5, <1>6, <1>7 DEF HandoffInv

LEMMA ProgramInv ==
  ASSUME HandoffTypes, HandoffInv, NEW p \in Process, Program(p)
  PROVE  HandoffTypes' /\ HandoffInv'
<1>1. /\ job[p] \in Jobs /\ fw \in Build /\ JobInv(p) /\ job[p].step = "program"
      /\ job[p].session \in Session
  BY DEF HandoffTypes, HandoffInv, Program, At, JobInv, Sess
<1>2. /\ chip' \in Build /\ flashed' \in Evidence
      /\ Unguard(p) \/ UNCHANGED sguard
      /\ UNCHANGED <<fw, handoff, issued, restored>>
  BY <1>1 DEF Program, Evidence, NoEvidence, Cleanup
<1>3. PICK j \in Jobs : /\ job' = [job EXCEPT ![p] = j]
                        /\ j.step \in {"publish", "cleanup"}
                        /\ j.session = job[p].session
  <2> DEFINE publish == [job[p] EXCEPT !.step = "publish", !.build = fw]
             cleanup == [job[p] EXCEPT !.step = "cleanup"]
  <2>1. /\ publish \in Jobs /\ publish.step = "publish"
        /\ publish.session = job[p].session
    BY <1>1 DEF Jobs, JobSteps
  <2>2. /\ cleanup \in Jobs /\ cleanup.step = "cleanup"
        /\ cleanup.session = job[p].session
    BY <1>1 DEF Jobs, JobSteps
  <2>3. job' = [job EXCEPT ![p] = publish] \/ job' = [job EXCEPT ![p] = cleanup]
    BY DEF Program, Cleanup, Goto
  <2> QED
    BY <2>1, <2>2, <2>3
<1>4. /\ job' \in [Process -> Jobs] /\ job'[p] = j
      /\ \A q \in Process \ {p} : job'[q] = job[q]
  BY <1>3 DEF HandoffTypes
<1>5. /\ sguard' \in [Session -> Process \cup {None}]
      /\ \A r \in Session : sguard[r] \notin {p, None} => sguard'[r] = sguard[r]
  <2>1. CASE Unguard(p)
    BY <2>1, UnguardOthers
  <2>2. CASE UNCHANGED sguard
    BY <2>2 DEF HandoffTypes
  <2> QED
    BY <1>2, <2>1, <2>2
<1>6. HandoffTypes'
  BY <1>2, <1>4, <1>5 DEF HandoffTypes
<1>7. TicketInv'
  BY <1>2 DEF HandoffInv, TicketInv
<1>8. JobInv(p)'
  BY <1>1, <1>3, <1>4 DEF JobInv, At, Sess, GuardedSteps, BeginSteps, EndSteps
<1>9. \A q \in Process \ {p} : JobInv(q)'
  BY <1>2, <1>4, <1>5, OtherJobs
<1> QED
  BY <1>6, <1>7, <1>8, <1>9 DEF HandoffInv

LEMMA AdmitInv ==
  ASSUME HandoffTypes, HandoffInv, NEW p \in Process, Admit(p)
  PROVE  HandoffTypes' /\ HandoffInv'
<1> DEFINE j == [job[p] EXCEPT !.step = "prepare", !.build = fw]
<1>1. job[p] \in Jobs /\ fw \in Build /\ JobInv(p) /\ job[p].step = "admit"
  BY DEF HandoffTypes, HandoffInv, Admit, At
<1>2. Sess(p) \in Session /\ sguard[Sess(p)] = None
  BY <1>1 DEF Admit, EnterGuard, JobInv, At
<1>3. j \in Jobs /\ j.step = "prepare" /\ j.session = job[p].session
  BY <1>1 DEF Jobs, JobSteps, BeginSteps
<1>4. /\ job' = [job EXCEPT ![p] = j]
      /\ sguard' = [sguard EXCEPT ![Sess(p)] = p]
      /\ UNCHANGED <<fw, chip, flashed, handoff, issued, restored>>
  BY DEF Admit, EnterGuard
<1>5. /\ job' \in [Process -> Jobs] /\ job'[p] = j
      /\ \A q \in Process \ {p} : job'[q] = job[q]
  BY <1>3, <1>4 DEF HandoffTypes
<1>6. /\ sguard' \in [Session -> Process \cup {None}]
      /\ sguard'[Sess(p)] = p
      /\ \A r \in Session : sguard[r] \notin {p, None} => sguard'[r] = sguard[r]
  BY <1>2, <1>4 DEF HandoffTypes
<1>7. HandoffTypes'
  BY <1>4, <1>5, <1>6 DEF HandoffTypes
<1>8. TicketInv'
  BY <1>4 DEF HandoffInv, TicketInv
<1>9. JobInv(p)'
  BY <1>2, <1>3, <1>5, <1>6 DEF JobInv, At, Sess, GuardedSteps, BeginSteps, EndSteps
<1>10. \A q \in Process \ {p} : JobInv(q)'
  BY <1>4, <1>5, <1>6, OtherJobs
<1> QED
  BY <1>7, <1>8, <1>9, <1>10 DEF HandoffInv

\* A step of p under its session's guard that writes the session's state.
LEMMA WriteOthers ==
  ASSUME HandoffTypes, HandoffInv, NEW p \in Process, NEW new \in Handoffs,
         NEW s \in Session, sguard[s] \in {p, None}, WriteState(s, new)
  PROVE  /\ handoff' \in [Session -> Handoffs]
         /\ handoff'[s] = new
         /\ \A r \in Session \ {s} : handoff'[r] = handoff[r]
         /\ \A r \in Session : sguard[r] \notin {p, None} => handoff'[r] = handoff[r]
  BY DEF HandoffTypes, WriteState

LEMMA PrepareInv ==
  ASSUME TypeOK, HandoffTypes, HandoffInv, NEW p \in Process, Prepare(p)
  PROVE  HandoffTypes' /\ HandoffInv'
<1>1. job[p] \in Jobs /\ JobInv(p) /\ job[p].step = "prepare" /\ TicketInv
  BY DEF HandoffTypes, HandoffInv, Prepare, At
<1>2. Sess(p) \in Session /\ sguard[Sess(p)] = p
  BY <1>1 DEF JobInv, At, GuardedSteps, BeginSteps
<1>3. Mine(p) \in Handoffs /\ lease[p].id \in Nat
  BY <1>2 DEF Mine, HandoffTypes, TypeOK, Leases
<1>4. PICK new \in Handoffs :
        /\ WriteState(Sess(p), new)
        /\ new.ticket # None /\ new.st \notin {"none", "observing"}
        /\ \/ /\ new.ticket \in Ticket \ issued
              /\ issued' = issued \cup {new.ticket}
           \/ /\ new.ticket = Mine(p).ticket
              /\ issued' = issued
  <2>1. CASE Mine(p).st \in {"none", "observing"}
    <3>1. PICK t \in Ticket \ issued :
            /\ WriteState(Sess(p), [st |-> "paused-for-debug", ticket |-> t,
                                    lease |-> lease[p].id,
                                    build |-> job[p].build])
            /\ issued' = issued \cup {t}
      BY <2>1 DEF Prepare
    <3>2. [st |-> "paused-for-debug", ticket |-> t, lease |-> lease[p].id,
           build |-> job[p].build] \in Handoffs
      BY <1>1, <1>3 DEF Handoffs, HandoffStates, Jobs
    <3> QED
      BY <3>1, <3>2, NoneIsNoValue
  <2>2. CASE Mine(p).st \notin {"none", "observing"}
    <3> DEFINE n == [Mine(p) EXCEPT !.lease = lease[p].id]
    <3>1. n \in Handoffs /\ n.st = Mine(p).st /\ n.ticket = Mine(p).ticket
      BY <1>3 DEF Handoffs
    <3>2. WriteState(Sess(p), n) /\ issued' = issued
      BY <2>2 DEF Prepare
    <3>3. Mine(p).ticket # None
      BY <1>1, <1>2, <2>2 DEF TicketInv, Mine
    <3> QED
      BY <2>2, <3>1, <3>2, <3>3
  <2> QED
    BY <2>1, <2>2
<1>5. /\ handoff' \in [Session -> Handoffs]
      /\ handoff'[Sess(p)] = new
      /\ \A r \in Session \ {Sess(p)} : handoff'[r] = handoff[r]
      /\ \A r \in Session : sguard[r] \notin {p, None} => handoff'[r] = handoff[r]
  BY <1>2, <1>4, WriteOthers
<1>6. Goto(p, "reserve") /\ UNCHANGED <<fw, chip, flashed, sguard, restored>>
  BY DEF Prepare
<1>7. [job[p] EXCEPT !.step = "reserve"] \in Jobs
  BY <1>1 DEF Jobs, JobSteps, BeginSteps
<1>8. /\ job' \in [Process -> Jobs]
      /\ job'[p].step = "reserve" /\ job'[p].session = job[p].session
      /\ \A q \in Process \ {p} : job'[q] = job[q]
  BY <1>1, <1>6, <1>7 DEF Goto, HandoffTypes, Jobs
<1>9. HandoffTypes'
  BY <1>4, <1>5, <1>6, <1>8 DEF HandoffTypes
<1>10. TicketInv'
  <2>1. \A r \in Session : handoff[r].ticket # None => handoff[r].ticket \in issued \ restored
    BY <1>1 DEF TicketInv
  <2>2. restored \subseteq issued /\ restored' = restored
    BY <1>6 DEF HandoffTypes
  <2>3. CASE new.ticket \in Ticket \ issued /\ issued' = issued \cup {new.ticket}
    BY <1>1, <1>2, <1>4, <1>5, <2>1, <2>2, <2>3 DEF TicketInv
  <2>4. CASE new.ticket = handoff[Sess(p)].ticket /\ issued' = issued
    BY <1>1, <1>2, <1>4, <1>5, <2>1, <2>2, <2>4 DEF TicketInv
  <2> QED
    BY <1>4, <2>3, <2>4 DEF Mine
<1>11. JobInv(p)'
  BY <1>2, <1>4, <1>5, <1>6, <1>8
  DEF JobInv, At, Sess, Mine, GuardedSteps, BeginSteps, EndSteps
<1>12. \A q \in Process \ {p} : JobInv(q)'
  BY <1>5, <1>6, <1>8, OtherJobs
<1> QED
  BY <1>9, <1>10, <1>11, <1>12 DEF HandoffInv

\* A session goes on with its ticket.
LEMMA SameTicket ==
  ASSUME TicketInv, NEW s \in Session, NEW new, handoff'[s] = new,
         \A r \in Session \ {s} : handoff'[r] = handoff[r],
         new.ticket = handoff[s].ticket, new.ticket # None,
         new.st \notin {"none", "observing"}, UNCHANGED <<issued, restored>>
  PROVE  TicketInv'
  BY DEF TicketInv

\* A session is done with its ticket.
LEMMA DropTicket ==
  ASSUME TicketInv, NEW s \in Session, NEW new, handoff'[s] = new,
         \A r \in Session \ {s} : handoff'[r] = handoff[r],
         new.ticket = None, new.st = "observing", issued' = issued,
         handoff[s].ticket # None,
         restored' = restored \cup {handoff[s].ticket}
  PROVE  TicketInv'
  BY DEF TicketInv

LEMMA ProveReservationInv ==
  ASSUME HandoffTypes, HandoffInv, NEW p \in Process, ProveReservation(p)
  PROVE  HandoffTypes' /\ HandoffInv'
<1> DEFINE new == [Mine(p) EXCEPT !.st = "externally-owned"]
<1>1. JobInv(p) /\ job[p].step = "prove" /\ TicketInv
  BY DEF HandoffInv, ProveReservation, At
<1>2. /\ Sess(p) \in Session /\ sguard[Sess(p)] = p
      /\ Mine(p) = handoff[Sess(p)] /\ Mine(p).ticket # None
  BY <1>1 DEF JobInv, At, Mine, GuardedSteps, BeginSteps
<1>3. Mine(p) \in Handoffs
  BY <1>2 DEF HandoffTypes
<1>4. new \in Handoffs /\ new.st = "externally-owned" /\ new.ticket = Mine(p).ticket
  BY <1>3 DEF Handoffs, HandoffStates
<1>5. /\ handoff' \in [Session -> Handoffs]
      /\ handoff'[Sess(p)] = new
      /\ \A r \in Session \ {Sess(p)} : handoff'[r] = handoff[r]
      /\ \A r \in Session : sguard[r] \notin {p, None} => handoff'[r] = handoff[r]
  BY <1>2, <1>4, WriteOthers DEF ProveReservation
<1>6. /\ job' = [job EXCEPT ![p] = NoJob] /\ Unguard(p)
      /\ UNCHANGED <<fw, chip, flashed, issued, restored>>
  BY DEF ProveReservation, Finish
<1>7. NoJob \in Jobs /\ NoJob.step = "idle"
  BY DEF NoJob, Jobs, JobSteps
<1>8. /\ job' \in [Process -> Jobs] /\ job'[p] = NoJob
      /\ \A q \in Process \ {p} : job'[q] = job[q]
  BY <1>6, <1>7 DEF HandoffTypes
<1>9. HandoffTypes'
  BY <1>5, <1>6, <1>8, UnguardOthers DEF HandoffTypes
<1>10. TicketInv'
  <2> HIDE DEF new
  <2> QED
    BY <1>1, <1>2, <1>4, <1>5, <1>6, SameTicket
<1>11. JobInv(p)'
  BY <1>7, <1>8 DEF JobInv, At, GuardedSteps, BeginSteps, EndSteps
<1>12. \A q \in Process \ {p} : JobInv(q)'
  BY <1>5, <1>6, <1>8, UnguardOthers, OtherJobs
<1> QED
  BY <1>9, <1>10, <1>11, <1>12 DEF HandoffInv

LEMMA StartEndInv ==
  ASSUME HandoffTypes, HandoffInv, NEW p \in Process, NEW s \in Session,
         NEW t \in Ticket, StartEnd(p, s, t)
  PROVE  HandoffTypes' /\ HandoffInv'
<1>1. handoff[s] \in Handoffs /\ handoff[s].ticket = t /\ sguard[s] = None /\ TicketInv
  BY DEF StartEnd, EnterGuard, HandoffTypes, HandoffInv
<1>2. PICK j \in Jobs, new \in Handoffs :
        /\ job' = [job EXCEPT ![p] = j]
        /\ j.step \in {"acknowledge", "settle"} /\ j.session = s /\ j.ticket = t
        /\ handoff' = [handoff EXCEPT ![s] = new]
        /\ new.ticket = t
        /\ new.st \in {"observing-pending-release", "reacquiring"}
  <2>1. CASE /\ handoff[s].st = "observing-pending-release"
             /\ job' = [job EXCEPT ![p] = [step |-> "acknowledge", session |-> s,
                                           build |-> None, ticket |-> t]]
             /\ UNCHANGED handoff
    <3>1. [step |-> "acknowledge", session |-> s, build |-> None, ticket |-> t] \in Jobs
      BY DEF Jobs, JobSteps, EndSteps
    <3>2. handoff' = [handoff EXCEPT ![s] = handoff[s]]
      BY <2>1 DEF HandoffTypes
    <3> QED
      BY <1>1, <2>1, <3>1, <3>2
  <2>2. CASE /\ job' = [job EXCEPT ![p] = [step |-> "settle", session |-> s,
                                           build |-> None, ticket |-> t]]
             /\ WriteState(s, Reacquiring(s))
    <3>1. [step |-> "settle", session |-> s, build |-> None, ticket |-> t] \in Jobs
      BY DEF Jobs, JobSteps, EndSteps
    <3> DEFINE n == [handoff[s] EXCEPT !.st = "reacquiring"]
    <3>2. n \in Handoffs /\ n.st = "reacquiring" /\ n.ticket = t
      BY <1>1 DEF Handoffs, HandoffStates
    <3> QED
      BY <2>2, <3>1, <3>2 DEF WriteState, Reacquiring
  <2> QED
    BY <2>1, <2>2 DEF StartEnd
<1>3. /\ sguard' = [sguard EXCEPT ![s] = p]
      /\ UNCHANGED <<fw, chip, flashed, issued, restored>>
  BY DEF StartEnd, EnterGuard
<1>4. /\ job' \in [Process -> Jobs] /\ job'[p] = j
      /\ \A q \in Process \ {p} : job'[q] = job[q]
  BY <1>2 DEF HandoffTypes
<1>5. /\ handoff' \in [Session -> Handoffs] /\ handoff'[s] = new
      /\ \A r \in Session \ {s} : handoff'[r] = handoff[r]
  BY <1>2 DEF HandoffTypes
<1>6. /\ sguard' \in [Session -> Process \cup {None}] /\ sguard'[s] = p
      /\ \A r \in Session \ {s} : sguard'[r] = sguard[r]
  BY <1>3 DEF HandoffTypes
<1>7. HandoffTypes'
  BY <1>3, <1>4, <1>5, <1>6 DEF HandoffTypes
<1>8. TicketInv'
  BY <1>1, <1>2, <1>3, <1>5, NoneIsNoValue DEF TicketInv
<1>9. JobInv(p)'
  BY <1>2, <1>4, <1>5, <1>6, NoneIsNoValue
  DEF JobInv, At, Sess, Mine, GuardedSteps, BeginSteps, EndSteps
<1>10. \A q \in Process \ {p} : JobInv(q)'
  BY <1>1, <1>4, <1>5, <1>6, OtherJobs
<1> QED
  BY <1>7, <1>8, <1>9, <1>10 DEF HandoffInv

LEMMA PendReleaseInv ==
  ASSUME HandoffTypes, HandoffInv, NEW p \in Process, PendRelease(p)
  PROVE  HandoffTypes' /\ HandoffInv'
<1> DEFINE new == [Mine(p) EXCEPT !.st = "observing-pending-release"]
<1>1. JobInv(p) /\ job[p].step = "pend" /\ TicketInv /\ job[p] \in Jobs
  BY DEF HandoffInv, PendRelease, At, HandoffTypes
<1>2. /\ Sess(p) \in Session /\ sguard[Sess(p)] = p
      /\ Mine(p) = handoff[Sess(p)] /\ Mine(p).ticket # None
      /\ Mine(p).ticket = job[p].ticket
  BY <1>1 DEF JobInv, At, Mine, GuardedSteps, EndSteps
<1>3. Mine(p) \in Handoffs
  BY <1>2 DEF HandoffTypes
<1>4. /\ new \in Handoffs /\ new.st = "observing-pending-release"
      /\ new.ticket = Mine(p).ticket
  BY <1>3 DEF Handoffs, HandoffStates
<1>5. /\ handoff' \in [Session -> Handoffs]
      /\ handoff'[Sess(p)] = new
      /\ \A r \in Session \ {Sess(p)} : handoff'[r] = handoff[r]
      /\ \A r \in Session : sguard[r] \notin {p, None} => handoff'[r] = handoff[r]
  BY <1>2, <1>4, WriteOthers DEF PendRelease
<1>6. /\ job' = [job EXCEPT ![p] = [job[p] EXCEPT !.step = "acknowledge"]]
      /\ UNCHANGED <<fw, chip, flashed, sguard, issued, restored>>
  BY DEF PendRelease, Goto
<1>7. [job[p] EXCEPT !.step = "acknowledge"] \in Jobs
  BY <1>1 DEF Jobs, JobSteps, EndSteps
<1>8. /\ job' \in [Process -> Jobs]
      /\ job'[p].step = "acknowledge" /\ job'[p].session = job[p].session
      /\ job'[p].ticket = job[p].ticket
      /\ \A q \in Process \ {p} : job'[q] = job[q]
  BY <1>1, <1>6, <1>7 DEF HandoffTypes, Jobs
<1>9. HandoffTypes'
  BY <1>5, <1>6, <1>8 DEF HandoffTypes
<1>10. TicketInv'
  <2> HIDE DEF new
  <2> QED
    BY <1>1, <1>2, <1>4, <1>5, <1>6, SameTicket
<1>11. JobInv(p)'
  BY <1>2, <1>4, <1>5, <1>6, <1>8
  DEF JobInv, At, Sess, Mine, GuardedSteps, BeginSteps, EndSteps
<1>12. \A q \in Process \ {p} : JobInv(q)'
  BY <1>5, <1>6, <1>8, OtherJobs
<1> QED
  BY <1>9, <1>10, <1>11, <1>12 DEF HandoffInv

LEMMA ResumeObservingInv ==
  ASSUME HandoffTypes, HandoffInv, NEW p \in Process, ResumeObserving(p)
  PROVE  HandoffTypes' /\ HandoffInv' /\ job[p].ticket \notin restored
<1> DEFINE new == [Mine(p) EXCEPT !.st = "observing", !.ticket = None]
<1>1. JobInv(p) /\ job[p].step = "observe" /\ TicketInv
  BY DEF HandoffInv, ResumeObserving, At
<1>2. /\ Sess(p) \in Session /\ sguard[Sess(p)] = p
      /\ Mine(p) = handoff[Sess(p)] /\ Mine(p).ticket # None
      /\ Mine(p).ticket = job[p].ticket
  BY <1>1 DEF JobInv, At, Mine, GuardedSteps, EndSteps
<1>3. Mine(p) \in Handoffs /\ job[p].ticket \in issued \ restored
  BY <1>1, <1>2 DEF HandoffTypes, TicketInv
<1>4. new \in Handoffs /\ new.st = "observing" /\ new.ticket = None
  BY <1>3 DEF Handoffs, HandoffStates
<1>5. /\ handoff' \in [Session -> Handoffs]
      /\ handoff'[Sess(p)] = new
      /\ \A r \in Session \ {Sess(p)} : handoff'[r] = handoff[r]
      /\ \A r \in Session : sguard[r] \notin {p, None} => handoff'[r] = handoff[r]
  BY <1>2, <1>4, WriteOthers DEF ResumeObserving
<1>6. /\ job' = [job EXCEPT ![p] = NoJob] /\ Unguard(p)
      /\ restored' = restored \cup {job[p].ticket}
      /\ UNCHANGED <<fw, chip, flashed, issued>>
  BY DEF ResumeObserving, Finish
<1>7. NoJob \in Jobs /\ NoJob.step = "idle"
  BY DEF NoJob, Jobs, JobSteps
<1>8. /\ job' \in [Process -> Jobs] /\ job'[p] = NoJob
      /\ \A q \in Process \ {p} : job'[q] = job[q]
  BY <1>6, <1>7 DEF HandoffTypes
<1>9. HandoffTypes'
  BY <1>3, <1>5, <1>6, <1>8, UnguardOthers DEF HandoffTypes
<1>10. TicketInv'
  <2> HIDE DEF new
  <2> QED
    BY <1>1, <1>2, <1>4, <1>5, <1>6, DropTicket
<1>11. JobInv(p)'
  BY <1>7, <1>8 DEF JobInv, At, GuardedSteps, BeginSteps, EndSteps
<1>12. \A q \in Process \ {p} : JobInv(q)'
  BY <1>5, <1>6, <1>8, UnguardOthers, OtherJobs
<1> QED
  BY <1>3, <1>9, <1>10, <1>11, <1>12 DEF HandoffInv

-----------------------------------------------------------------------------
(* Every step is a step of the lease and keeps the invariant.              *)

LEMMA BeginInv ==
  ASSUME IInv, NEW p \in Process, BeginStep(p)
  PROVE  [Step(p)]_vars /\ HandoffTypes' /\ HandoffInv'
<1> USE DEF IInv
<1>1. ASSUME NEW s \in Session, StartService(p, s, Observe, "admit")
      PROVE  Step(p) /\ HandoffTypes' /\ HandoffInv'
  BY <1>1, LevelsKnown, StartServiceInv DEF StartService, Step
<1>2. CASE Admit(p)
  BY <1>2, AdmitInv DEF Admit
<1>3. CASE Prepare(p)
  BY <1>3, PrepareInv DEF Prepare
<1>4. CASE ReserveProbe(p)
  <2>1. /\ ~Idle(p) /\ job[p].step = "reserve" /\ JobInv(p)
        /\ UNCHANGED <<fw, chip, flashed, handoff, issued, restored>>
    BY <1>4 DEF ReserveProbe, At, Idle, HandoffInv
  <2>2. Mine(p).ticket \in Ticket
    BY <2>1 DEF JobInv, At, Mine, HandoffTypes, Handoffs
  <2>3. Step(p)
    BY <1>4, <2>2 DEF ReserveProbe, Step
  <2>4. CASE Goto(p, "stop") /\ UNCHANGED sguard
    BY <2>1, <2>3, <2>4, AdvanceJob DEF HandoffTypes, JobSteps, GuardedSteps, BeginSteps, EndSteps
  <2>5. CASE Cleanup(p)
    BY <2>1, <2>3, <2>5, LeaveJob
  <2> QED
    BY <1>4, <2>3, <2>4, <2>5 DEF ReserveProbe
<1>5. CASE StopForDebug(p)
  <2>1. /\ ~Idle(p) /\ job[p].step = "stop"
        /\ UNCHANGED <<fw, chip, flashed, handoff, issued, restored>>
    BY <1>5 DEF StopForDebug, At, Idle
  <2>2. Step(p)
    BY <1>5 DEF StopForDebug, Step
  <2>3. CASE Goto(p, "prove") /\ UNCHANGED sguard
    BY <2>1, <2>2, <2>3, AdvanceJob DEF HandoffTypes, JobSteps, GuardedSteps, BeginSteps, EndSteps
  <2>4. CASE Finish(p)
    BY <2>1, <2>2, <2>4, LeaveJob
  <2> QED
    BY <1>5, <2>2, <2>3, <2>4 DEF StopForDebug
<1>6. CASE ProveReservation(p)
  BY <1>6, ProveReservationInv DEF ProveReservation
<1> QED
  BY <1>1, <1>2, <1>3, <1>4, <1>5, <1>6 DEF BeginStep

LEMMA EndInv ==
  ASSUME IInv, NEW p \in Process, EndStep(p)
  PROVE  [Step(p)]_vars /\ HandoffTypes' /\ HandoffInv'
<1> USE DEF IInv
<1>1. JobInv(p) /\ job[p] \in Jobs
  BY DEF HandoffInv, HandoffTypes
<1>2. job[p].step \in EndSteps => Sess(p) \in Session /\ job[p].ticket \in Ticket
  BY <1>1 DEF JobInv, At, EndSteps, Jobs
<1>3. ASSUME NEW step \in EndSteps, Goto(p, step), job[p].step \in EndSteps,
             UNCHANGED <<fw, chip, flashed, handoff, sguard, issued, restored>>
      PROVE  HandoffTypes' /\ HandoffInv'
  BY <1>3, AdvanceJob
  DEF HandoffTypes, Idle, At, JobSteps, GuardedSteps, BeginSteps, EndSteps
<1>4. ASSUME NEW s \in Session, NEW t \in Ticket, StartEnd(p, s, t)
      PROVE  [Step(p)]_vars /\ HandoffTypes' /\ HandoffInv'
  BY <1>4, StartEndInv DEF StartEnd
<1>5. CASE Settle(p)
  <2>1. [Step(p)]_vars
    BY <1>2, <1>5 DEF Settle, At, EndSteps, Step
  <2> QED
    BY <1>3, <1>5, <2>1 DEF Settle, At, EndSteps
<1>6. CASE ClaimProbe(p)
  <2>1. Step(p)
    BY <1>2, <1>6, LevelsKnown DEF ClaimProbe, At, EndSteps, Step
  <2> QED
    BY <1>3, <1>6, <2>1 DEF ClaimProbe, At, EndSteps
<1>7. CASE RestoreTarget(p)
  <2>1. Step(p)
    BY <1>2, <1>7 DEF RestoreTarget, At, EndSteps, Step
  <2> QED
    BY <1>3, <1>7, <2>1 DEF RestoreTarget, At, EndSteps
<1>8. CASE StopAfterClaim(p)
  <2>1. Step(p)
    BY <1>8 DEF StopAfterClaim, Step
  <2>2. CASE Goto(p, "resettle") /\ UNCHANGED sguard
    BY <1>3, <1>8, <2>1, <2>2 DEF StopAfterClaim, At, EndSteps
  <2>3. CASE Finish(p)
    BY <1>8, <2>1, <2>3, LeaveJob DEF StopAfterClaim
  <2> QED
    BY <1>8, <2>1, <2>2, <2>3 DEF StopAfterClaim
<1>9. CASE Resettle(p)
  <2>1. Step(p)
    BY <1>2, <1>9 DEF Resettle, At, EndSteps, Step
  <2> QED
    BY <1>3, <1>9, <2>1 DEF Resettle, At, EndSteps
<1>10. CASE PendRelease(p)
  BY <1>10, PendReleaseInv DEF PendRelease
<1>11. CASE FreeProbe(p)
  <2>1. Step(p)
    BY <1>2, <1>11 DEF FreeProbe, At, EndSteps, Step
  <2> QED
    BY <1>3, <1>11, <2>1 DEF FreeProbe, At, EndSteps
<1>12. CASE ResumeObserving(p)
  BY <1>12, ResumeObservingInv DEF ResumeObserving
<1> QED
  BY <1>4, <1>5, <1>6, <1>7, <1>8, <1>9, <1>10, <1>11, <1>12 DEF EndStep

LEMMA OtherInv ==
  ASSUME IInv, NEW p \in Process,
         \/ FlashStep(p) \/ UseStep(p) \/ StopService(p) \/ GiveBack(p)
         \/ Fail(p) \/ StopUnresolved(p) \/ Die(p) \/ Reboot(p)
  PROVE  [Step(p)]_vars /\ HandoffTypes' /\ HandoffInv'
<1> USE DEF IInv
<1>1. ASSUME NEW s \in Session, NEW lv \in Level, NEW step \in {"program", "cleanup"},
             StartService(p, s, lv, step)
      PROVE  Step(p) /\ HandoffTypes' /\ HandoffInv'
  BY <1>1, StartServiceInv DEF StartService, Step
<1>2. CASE Program(p)
  BY <1>2, ProgramInv DEF Program
<1>3. CASE Publish(p)
  <2>1. ~Idle(p) /\ Sess(p) \in Session /\ fw \in Build
    BY <1>3 DEF Publish, HandoffInv, HandoffTypes, JobInv, At, Idle
  <2>2. flashed' \in Evidence
    BY <1>3, <2>1 DEF Publish, Evidence
  <2>3. HandoffTypes' /\ HandoffInv'
    BY <1>3, <2>1, <2>2, AdvanceJob
    DEF Publish, HandoffTypes, JobSteps, GuardedSteps, BeginSteps, EndSteps
  <2> QED
    BY <1>3, <2>3 DEF Publish
<1>4. CASE StopService(p)
  BY <1>4, LeaveJob DEF StopService, Step
<1>5. CASE GiveBack(p)
  <2>1. HandoffTypes' /\ HandoffInv'
    BY <1>5, AdvanceJob
    DEF GiveBack, At, Idle, HandoffTypes, JobSteps, GuardedSteps, BeginSteps, EndSteps
  <2> QED
    BY <1>5, <2>1 DEF GiveBack
<1>6. CASE Fail(p)
  BY <1>6, LeaveJob DEF Fail, Idle, At
<1>7. CASE Die(p)
  BY <1>7, LeaveJob DEF Die, Step
<1>8. CASE Reboot(p)
  <2>1. HandoffTypes' /\ HandoffInv'
    BY <1>8 DEF Reboot, hvars, HandoffTypes, HandoffInv, TicketInv, JobInv,
                At, Sess, Mine
  <2> QED
    BY <1>8, <2>1 DEF Reboot, Step
<1>9. CASE FlashStep(p)
  BY <1>1, <1>2, <1>3, <1>9, LevelsKnown DEF FlashStep
<1>10. CASE UseStep(p)
  BY <1>1, <1>10 DEF UseStep
<1>11. CASE StopUnresolved(p)
  BY <1>11, LeaveJob DEF StopUnresolved
<1> QED
  BY <1>4, <1>5, <1>6, <1>7, <1>8, <1>9, <1>10, <1>11

LEMMA HStepInv ==
  ASSUME IInv, [HNext]_allvars
  PROVE  [Next]_vars /\ IInv'
<1> SUFFICES [Next]_vars /\ HandoffTypes' /\ HandoffInv'
  BY StepInv DEF IInv
<1>1. CASE UNCHANGED allvars
  BY <1>1 DEF IInv, allvars, hvars, HandoffTypes, HandoffInv, TicketInv, JobInv,
              At, Sess, Mine
<1>2. CASE Rebuild
  BY <1>2 DEF Rebuild, IInv, HandoffTypes, HandoffInv, TicketInv, JobInv,
              At, Sess, Mine
<1>3. CASE DebuggerLoads
  BY <1>3 DEF DebuggerLoads, IInv, HandoffTypes, HandoffInv, TicketInv, JobInv,
              At, Sess, Mine
<1>4. CASE \E p \in Process : HStep(p)
  BY <1>4, BeginInv, EndInv, OtherInv DEF HStep, Next
<1> QED
  BY <1>1, <1>2, <1>3, <1>4 DEF HNext

-----------------------------------------------------------------------------
\* The inductive invariant holds in every behaviour of the workflows.
THEOREM HInvariance == HSpec => []IInv
  BY HInitInv, HStepInv, PTL DEF HSpec

\* Every variable keeps its type, through every failure and crash.
THEOREM HTypeCorrect == HSpec => []HTypeOK
<1>1. IInv => HTypeOK
  BY DEF IInv, HTypeOK
<1> QED
  BY <1>1, HInvariance, PTL

\* Tickets are unique to their sessions, and a workflow that works under its
\* session's guard finds the ticket it began with.
THEOREM HandoffInvariance == HSpec => []HandoffInv
<1>1. IInv => HandoffInv
  BY DEF IInv
<1> QED
  BY <1>1, HInvariance, PTL

\* The workflows use the lease only through its operations, so every theorem
\* about the lease holds for them.
THEOREM WorkflowsImplementLease == HSpec => ImplementsLease
<1>1. HSpec => Init
  BY DEF HSpec, HInit
<1>2. HSpec => [][Next]_vars
  BY HInvariance, HStepInv, PTL DEF HSpec
<1> QED
  BY <1>1, <1>2, PTL DEF ImplementsLease, Spec

\* The caller gets its watch selection back at most once for a ticket.
THEOREM RestoredOnce == HSpec => RestoredAtMostOnce
<1>1. IInv => [\A p \in Process : ResumeObserving(p) => job[p].ticket \notin restored]_allvars
  BY ResumeObservingInv DEF IInv
<1> QED
  BY <1>1, HInvariance, PTL DEF RestoredAtMostOnce

-----------------------------------------------------------------------------
(* The three files of a handoff agree.                                     *)
(*                                                                         *)
(* A workflow that owns the lease keeps everybody else from the record and *)
(* from the flash evidence, and one under its session's guard keeps them   *)
(* from the state file.  Between the release of a reserved probe and its   *)
(* proof nobody owns anything; there the argument is that lease ids only   *)
(* grow, so that a record that still names the lease of the state file was *)
(* not acquired in between, and that the ticket in the record keeps out    *)
(* whoever would flash.                                                    *)

LeaseNumbers ==
    /\ \A p \in Process : lease[p].id < nextLease
    /\ \A s \in Session : handoff[s].lease < nextLease

Attested(s) == flashed = [session |-> s, build |-> handoff[s].build]

\* The target holds the image of the build that the state file names.
Imaged(s) == chip = handoff[s].build

Resumable(s) == handoff[s].st \in {"paused-for-debug", "observing-pending-release"}

\* The evidence stays because the record keeps the ticket.
EvidenceHeld ==
    \A s \in Session :
        handoff[s].st \in {"externally-owned", "reacquiring"} =>
            /\ record.ticket = handoff[s].ticket /\ record.session = s
            /\ Attested(s)

\* What a workflow knows between its steps: of the lease it holds, of the
\* record, of the evidence, and of the state file it guards.
WorkInv(p) ==
    /\ job[p].step \in {"admit", "prepare", "reserve", "program", "publish"} =>
          /\ Held(p) /\ ~Claims(p) /\ ~lease[p].consumed
          /\ record.session = Sess(p)
    /\ At(p, "prepare") =>
          \/ Mine(p).st \in {"none", "observing"}
          \/ Resumable(Sess(p)) /\ Mine(p).build = job[p].build
    /\ job[p].step \in {"reserve", "stop", "prove"} => Resumable(Sess(p))
    /\ job[p].step \in {"reserve", "stop"} =>
          Mine(p).lease = lease[p].id /\ Attested(Sess(p)) /\ Imaged(Sess(p))
    /\ At(p, "stop") =>
          /\ Held(p) /\ lease[p].external = record /\ ~lease[p].consumed
          /\ record.session = Sess(p) /\ record.ticket = Mine(p).ticket
    /\ At(p, "prove") =>
          /\ record.lease = Mine(p).lease => guard = None
          /\ record.ticket = Mine(p).ticket => Attested(Sess(p)) /\ Imaged(Sess(p))
    /\ job[p].step \in {"restore", "close"} => Held(p) /\ record.session = Sess(p)
    /\ lease[p].consumed => At(p, "close")
    /\ At(p, "close") => Imaged(Sess(p))
    /\ job[p].step \in EndSteps =>
          Mine(p).st = IF job[p].step \in {"acknowledge", "observe"}
                       THEN "observing-pending-release" ELSE "reacquiring"
    /\ At(p, "observe") => record.ticket # job[p].ticket

FilesInv ==
    /\ LeaseNumbers
    /\ \A p \in Process : WorkInv(p)
    /\ HandoffBacked
    /\ ReservationHasTicket
    /\ EvidenceHeld

\* What a step of p can do to the lease and to the flash evidence, as far as
\* the others see it.
Effect(p) ==
    /\ \A q \in Process \ {p} : lease'[q] = lease[q] /\ (Held(q) => record' = record)
    /\ lease'[p].id < nextLease' /\ nextLease <= nextLease'
    /\ \/ guard' = None
       \/ guard' = guard /\ record'.lease = record.lease
       \/ record'.lease = nextLease
    /\ \/ /\ record'.ticket = record.ticket
          /\ record.ticket # None => record'.session = record.session
       \/ /\ At(p, "acknowledge") /\ record'.ticket = None
          /\ record.ticket = job[p].ticket /\ record.session = Sess(p)
       \/ /\ At(p, "reserve") /\ record.ticket = None
          /\ record'.ticket = Mine(p).ticket /\ record'.session = Sess(p)
    /\ guard = None /\ record.state = "externally-owned" =>
          \/ record' = record /\ guard' = None
          \/ At(p, "claim") /\ record.ticket = job[p].ticket /\ record.session = Sess(p)
    /\ <<flashed, chip>>' # <<flashed, chip>> =>
          Held(p) /\ record.ticket = None /\ record' = record

\* Who holds the lease holds it alone, and the record knows its reservation.
LEMMA HolderKnows ==
  ASSUME TypeOK, LeaseInv, NEW p \in Process, Held(p)
  PROVE  /\ guard = p /\ \A q \in Process : Held(q) => q = p
         /\ record.lease = lease[p].id
         /\ Claims(p) <=> record.ticket # None
         /\ Claims(p) => /\ lease[p].external.ticket = record.ticket
                         /\ lease[p].external.session = record.session
BY NoneIsNoValue DEF LeaseInv, OwnerInv, Current

LEMMA QuietEffect ==
  ASSUME TypeOK, LeaseNumbers, NEW p \in Process,
         UNCHANGED <<record, guard, lease, nextLease>>,
         <<flashed, chip>>' # <<flashed, chip>> => Held(p) /\ record.ticket = None
  PROVE  Effect(p)
BY DEF TypeOK, LeaseNumbers, Effect

LEMMA AcquireEffect ==
  ASSUME TypeOK, LeaseInv, LeaseNumbers, NEW p \in Process, NEW s \in Session, NEW lv \in Level,
         NEW t \in Ticket \cup {None}, Acquire(p, s, lv, t),
         t = None \/ (At(p, "claim") /\ t = job[p].ticket /\ s = Sess(p)),
         UNCHANGED <<flashed, chip>>
  PROVE  /\ Effect(p)
         /\ Held(p)' /\ record'.session = s /\ record'.ticket = t
         /\ Claims(p)' <=> t # None
         /\ ~lease'[p].consumed
<1>1. record.ticket = t /\ (t # None => record.session = s)
      /\ (ReservationOf(record).state # "none" <=> t # None)
  BY AdmitsReservation DEF Acquire, LeaseInv
<1>2. \A q \in Process : ~Held(q)
  BY NoneIsNoValue DEF Acquire, LeaseInv
<1>3. nextLease \in Nat /\ nextLease # 0
  BY DEF TypeOK, LeaseInv
<1>4. /\ lease'[p] = [id |-> nextLease, external |-> ReservationOf(record),
                      consumed |-> FALSE]
      /\ \A q \in Process \ {p} : lease'[q] = lease[q]
      /\ nextLease' = nextLease + 1
      /\ record'.lease = nextLease /\ record'.ticket = t /\ record'.session = s
  BY DEF Acquire, TypeOK
<1>5. record.state = "externally-owned" => t # None
  BY <1>1 DEF LeaseInv, RecordInv
<1> QED
  BY <1>1, <1>2, <1>3, <1>4, <1>5 DEF Effect, Held, Claims

\* The lease is given up: released, dropped, or lost with its process.
LEMMA LetGoEffect ==
  ASSUME TypeOK, LeaseInv, LeaseNumbers, NEW p \in Process,
         Release(p) \/ ReleaseFails(p) \/ Crash(p), UNCHANGED <<flashed, chip>>
  PROVE  Effect(p) /\ (Held(p) => guard' = None) /\ ~lease'[p].consumed
<1>1. /\ lease' = [lease EXCEPT ![p] = NoLease] /\ NoLease.id = 0 /\ ~NoLease.consumed
      /\ nextLease' = nextLease /\ nextLease \in Nat /\ nextLease # 0
  BY DEF Release, ReleaseFails, Crash, NoLease, TypeOK, LeaseInv
<1>2. /\ \A q \in Process \ {p} : lease'[q] = lease[q]
      /\ lease'[p].id < nextLease' /\ ~lease'[p].consumed
  BY <1>1 DEF TypeOK
<1>3. CASE Release(p)
  <2>1. Held(p) /\ guard = p /\ guard' = None
    BY <1>3, HolderKnows DEF Release
  <2>2. /\ record'.ticket = record.ticket
        /\ record.ticket # None => record'.session = record.session
    <3>1. CASE ~Claims(p)
      <4>1. record.ticket = None /\ record' = ReleasedRecord(lease[p].id, record.tomb)
        BY <1>3, <2>1, <3>1, HolderKnows DEF Release, Settled
      <4>2. lease[p].id \in Nat /\ record.tomb \in Tombstones
        BY DEF TypeOK, Leases, Records
      <4> QED
        BY <4>1, <4>2, ReleasedFields
    <3>2. CASE Claims(p)
      <4>1. /\ lease[p].external \in Records
            /\ lease[p].external.ticket = record.ticket
            /\ lease[p].external.session = record.session
        BY <2>1, <3>2, HolderKnows DEF TypeOK, Leases
      <4>2. \/ record' = [lease[p].external EXCEPT !.state = "handoff-consumed",
                                                   !.lease = lease[p].id]
            \/ record' = lease[p].external
        BY <1>3, <3>2 DEF Release, Settled
      <4> QED
        BY <4>1, <4>2 DEF Records
    <3> QED
      BY <3>1, <3>2
  <2>3. \A q \in Process \ {p} : ~Held(q)
    BY <2>1, HolderKnows
  <2>4. guard # None
    BY <2>1, NoneIsNoValue
  <2> QED
    BY <1>1, <1>2, <2>1, <2>2, <2>3, <2>4 DEF Effect
<1>4. CASE ReleaseFails(p)
  <2>1. Held(p) /\ guard = p /\ guard' = None /\ record' = record
    BY <1>4, HolderKnows DEF ReleaseFails
  <2> QED
    BY <1>1, <1>2, <2>1 DEF Effect
<1>5. CASE Crash(p)
  <2>1. /\ record' = record /\ guard' \in {guard, None}
        /\ guard = None => guard' = None
        /\ Held(p) => guard' = None
    BY <1>5, HolderKnows DEF Crash
  <2> QED
    BY <1>1, <1>2, <2>1 DEF Effect
<1> QED
  BY <1>3, <1>4, <1>5

\* The owner of the lease writes the ticket of its session's state file into
\* the record.
LEMMA ReserveEffect ==
  ASSUME TypeOK, LeaseInv, LeaseNumbers, NEW p \in Process, WorkInv(p), At(p, "reserve"),
         NEW t \in Ticket, t = Mine(p).ticket, Reserve(p, t), UNCHANGED <<flashed, chip>>
  PROVE  /\ Effect(p) /\ Held(p)' /\ lease'[p].external = record'
         /\ lease'[p].id = lease[p].id /\ lease'[p].consumed = lease[p].consumed
         /\ record'.ticket = t /\ record'.session = Sess(p)
<1> DEFINE ext == [record EXCEPT !.state = "externally-owned", !.ticket = t]
<1>1. /\ Held(p) /\ ~Claims(p) /\ record.session = Sess(p)
  BY DEF WorkInv, At
<1>2. guard = p /\ record.ticket = None /\ \A q \in Process : Held(q) => q = p
  BY <1>1, HolderKnows
<1>3. /\ ext.ticket = t /\ ext.session = record.session /\ ext.lease = record.lease
  BY DEF TypeOK, Records
<1>4. record' = ext /\ lease' = [lease EXCEPT ![p].external = ext]
      /\ guard' = guard /\ nextLease' = nextLease
  BY DEF Reserve
<1>5. /\ lease'[p].id = lease[p].id /\ lease'[p].external = ext
      /\ lease'[p].consumed = lease[p].consumed
      /\ \A q \in Process \ {p} : lease'[q] = lease[q]
  BY <1>4 DEF TypeOK, Leases
<1>6. nextLease \in Nat /\ guard # None
  BY <1>2, NoneIsNoValue DEF TypeOK
<1> HIDE DEF ext
<1> QED
  BY <1>1, <1>2, <1>3, <1>4, <1>5, <1>6 DEF Effect, LeaseNumbers, Held

LEMMA ConsumeEffect ==
  ASSUME TypeOK, LeaseInv, LeaseNumbers, NEW p \in Process, NEW t, Consume(p, t),
         UNCHANGED <<flashed, chip>>
  PROVE  Effect(p) /\ lease'[p].id = lease[p].id
<1>1. /\ Held(p) /\ lease' = [lease EXCEPT ![p].consumed = TRUE]
      /\ UNCHANGED <<record, guard, nextLease>>
  BY DEF Consume
<1>2. /\ lease'[p].id = lease[p].id
      /\ \A q \in Process \ {p} : lease'[q] = lease[q]
  BY <1>1 DEF TypeOK, Leases
<1> QED
  BY <1>1, <1>2 DEF Effect, LeaseNumbers, TypeOK

LEMMA FinalizeEffect ==
  ASSUME TypeOK, LeaseInv, LeaseNumbers, NEW p \in Process, NEW s, NEW t, Finalize(p, s, t),
         UNCHANGED <<flashed, chip>>
  PROVE  Effect(p)
<1>1. /\ record' = [record EXCEPT !.state = "handoff-finalized"]
      /\ guard = None /\ record.state # "externally-owned"
      /\ UNCHANGED <<guard, lease, nextLease>>
  BY DEF Finalize
<1>2. /\ record'.ticket = record.ticket /\ record'.session = record.session
      /\ record'.lease = record.lease
  BY <1>1 DEF TypeOK, Records
<1>3. \A q \in Process : ~Held(q)
  BY <1>1, NoneIsNoValue DEF LeaseInv
<1> QED
  BY <1>1, <1>2, <1>3 DEF Effect, LeaseNumbers, TypeOK

LEMMA AcknowledgeEffect ==
  ASSUME TypeOK, LeaseInv, LeaseNumbers, NEW p \in Process, At(p, "acknowledge"),
         Sess(p) \in Session, job[p].ticket \in Ticket,
         Acknowledge(p, Sess(p), job[p].ticket), UNCHANGED <<flashed, chip>>
  PROVE  Effect(p) /\ record'.ticket = None
<1> DEFINE tomb == [ticket |-> job[p].ticket, session |-> Sess(p)]
<1>1. /\ guard = None /\ UNCHANGED <<guard, lease, nextLease>>
  BY DEF Acknowledge
<1>2. \A q \in Process : ~Held(q)
  BY <1>1, NoneIsNoValue DEF LeaseInv
<1>3. CASE record.state = "released" /\ UNCHANGED record
  BY <1>1, <1>3 DEF Effect, LeaseNumbers, TypeOK, LeaseInv, RecordInv
<1>4. CASE /\ record.state = "handoff-finalized"
           /\ MatchesHandoff(record, Sess(p), job[p].ticket)
           /\ record' = ReleasedRecord(record.lease, tomb)
  <2>1. record.lease \in Nat /\ tomb \in Tombstones
    BY DEF TypeOK, Records, Tombstones
  <2>2. record'.ticket = None /\ record'.lease = record.lease
    BY <1>4, <2>1, ReleasedFields
  <2> QED
    BY <1>1, <1>2, <1>4, <2>2 DEF Effect, LeaseNumbers, TypeOK, MatchesHandoff
<1> QED
  BY <1>3, <1>4 DEF Acknowledge

-----------------------------------------------------------------------------
(* What such a step keeps of the invariant.                                *)

\* What the others know stays true.
LEMMA OthersKnow ==
  ASSUME IInv, FilesInv, NEW p \in Process, Effect(p),
         \A q \in Process \ {p} : job'[q] = job[q],
         \A r \in Session : sguard[r] \notin {p, None} => handoff'[r] = handoff[r]
  PROVE  \A q \in Process \ {p} : WorkInv(q)'
<1> SUFFICES ASSUME NEW q \in Process \ {p} PROVE WorkInv(q)'
  OBVIOUS
<1> USE DEF IInv, HandoffInv
<1>1. JobInv(q) /\ JobInv(p) /\ WorkInv(q) /\ job'[q] = job[q] /\ lease'[q] = lease[q]
  BY DEF FilesInv, Effect
<1>2. job[q].step \in GuardedSteps =>
        /\ Sess(q) \in Session /\ sguard[Sess(q)] = q
        /\ handoff'[Sess(q)] = handoff[Sess(q)]
  BY <1>1, NoneIsNoValue DEF JobInv, At, GuardedSteps, BeginSteps, EndSteps
<1>3. Held(q) => record' = record /\ UNCHANGED <<flashed, chip>>
  BY HolderKnows DEF Effect
<1>4. CASE job[q].step \in {"admit", "prepare", "reserve", "stop", "restore", "close", "program", "publish"}
  BY <1>1, <1>2, <1>3, <1>4
     DEF WorkInv, At, Sess, Mine, Held, Claims, Resumable, Attested, Imaged,
         GuardedSteps, BeginSteps, EndSteps
<1>5. CASE job[q].step \in {"prove", "observe"}
  <2>1. /\ Sess(q) \in Session /\ sguard[Sess(q)] = q
        /\ handoff'[Sess(q)] = handoff[Sess(q)]
        /\ Mine(q).ticket # None
        /\ At(q, "observe") => job[q].ticket = Mine(q).ticket
    BY <1>1, <1>2, <1>5 DEF GuardedSteps, BeginSteps, EndSteps, JobInv, At
  <2>2. record'.ticket = Mine(q).ticket => record.ticket = Mine(q).ticket
    <3>1. At(p, "reserve") => Mine(p).ticket # Mine(q).ticket
      <4> SUFFICES ASSUME At(p, "reserve") PROVE Mine(p).ticket # Mine(q).ticket
        OBVIOUS
      <4>1. Sess(p) \in Session /\ sguard[Sess(p)] = p
        BY <1>1 DEF JobInv, At, GuardedSteps, BeginSteps
      <4> QED
        BY <2>1, <4>1 DEF TicketInv, Mine
    <3> QED
      BY <2>1, <3>1 DEF Effect
  <2>3. Mine(q).lease < nextLease /\ Mine(q).lease \in Nat /\ nextLease \in Nat
    BY <2>1 DEF FilesInv, LeaseNumbers, Mine, HandoffTypes, Handoffs, TypeOK
  <2>4. record'.lease = Mine(q).lease /\ (record.lease = Mine(q).lease => guard = None)
           => guard' = None
    BY <2>3 DEF Effect
  <2>5. record.ticket = Mine(q).ticket => UNCHANGED <<flashed, chip>>
    BY <2>1 DEF Effect
  <2>6. CASE job[q].step = "prove"
    BY <1>1, <2>1, <2>2, <2>4, <2>5, <2>6
       DEF WorkInv, At, Sess, Mine, Resumable, Attested, Imaged, EndSteps
  <2>7. CASE job[q].step = "observe"
    BY <1>1, <2>1, <2>2, <2>7 DEF WorkInv, At, Sess, Mine, EndSteps
  <2> QED
    BY <1>5, <2>6, <2>7
<1>6. CASE job[q].step \in EndSteps \ {"observe", "restore", "close"}
  BY <1>1, <1>2, <1>6 DEF WorkInv, At, Sess, Mine, GuardedSteps, EndSteps
<1>7. CASE job[q].step \in {"idle", "cleanup"}
  BY <1>1, <1>7 DEF WorkInv, At, EndSteps
<1> QED
  BY <1>1, <1>4, <1>5, <1>6, <1>7
     DEF HandoffTypes, Jobs, JobSteps, BeginSteps, EndSteps

\* Lease ids only grow.
LEMMA NumbersKept ==
  ASSUME IInv, FilesInv, NEW p \in Process, Effect(p),
         nextLease' \in Nat,
         \A s \in Session : \/ handoff'[s].lease = handoff[s].lease
                            \/ handoff'[s].lease = lease[p].id
  PROVE  LeaseNumbers'
<1>1. /\ \A q \in Process : lease[q].id \in Nat /\ lease[q].id < nextLease
      /\ \A s \in Session : handoff[s].lease \in Nat /\ handoff[s].lease < nextLease
      /\ nextLease \in Nat
  BY DEF IInv, TypeOK, Leases, HandoffTypes, Handoffs, FilesInv, LeaseNumbers, Effect
<1> QED
  BY <1>1 DEF LeaseNumbers, Effect

\* The registry goes on saying that the debugger owns the probe.
LEMMA BackedKept ==
  ASSUME IInv, FilesInv, NEW p \in Process, Effect(p),
         \A s \in Session : handoff'[s].st = "externally-owned" => handoff'[s] = handoff[s]
  PROVE  HandoffBacked'
<1> SUFFICES ASSUME NEW s \in Session, handoff'[s].st = "externally-owned"
             PROVE  /\ guard' = None
                    /\ record'.session = s
                    /\ ReservationProven(s)'
  BY DEF HandoffBacked
<1>1. /\ handoff'[s] = handoff[s] /\ handoff[s].st = "externally-owned"
      /\ guard = None /\ record.session = s /\ ReservationProven(s)
  BY DEF FilesInv, HandoffBacked
<1>2. ~(At(p, "claim") /\ Sess(p) = s)
  BY <1>1 DEF FilesInv, WorkInv, At, Mine, EndSteps
<1> QED
  BY <1>1, <1>2 DEF Effect, ReservationProven

\* The ticket of the record stays in the state file.
LEMMA HasTicketKept ==
  ASSUME IInv, FilesInv, NEW p \in Process, Effect(p),
         At(p, "reserve") => handoff' = handoff,
         record.ticket # None =>
            \A s \in Session : \/ handoff'[s].ticket = handoff[s].ticket
                               \/ handoff[s].ticket # record.ticket
  PROVE  ReservationHasTicket'
<1> SUFFICES ASSUME record'.ticket # None
             PROVE  handoff'[record'.session].ticket = record'.ticket
  BY DEF ReservationHasTicket
<1>1. record.ticket # None =>
        record.session \in Session /\ handoff[record.session].ticket = record.ticket
  BY DEF FilesInv, ReservationHasTicket, IInv, LeaseInv, RecordInv, TypeOK, Records
<1> QED
  BY <1>1 DEF Effect, Mine

\* The evidence stays.
LEMMA EvidenceKept ==
  ASSUME IInv, FilesInv, NEW p \in Process, Effect(p),
         \A s \in Session :
            handoff'[s].st \in {"externally-owned", "reacquiring"} =>
               /\ handoff[s].st \in {"externally-owned", "reacquiring"}
               /\ handoff'[s].ticket = handoff[s].ticket
               /\ handoff'[s].build = handoff[s].build
  PROVE  EvidenceHeld'
<1> SUFFICES ASSUME NEW s \in Session,
                    handoff'[s].st \in {"externally-owned", "reacquiring"}
             PROVE  /\ record'.ticket = handoff'[s].ticket /\ record'.session = s
                    /\ Attested(s)'
  BY DEF EvidenceHeld
<1>1. /\ handoff[s].st \in {"externally-owned", "reacquiring"}
      /\ handoff'[s].ticket = handoff[s].ticket /\ handoff'[s].build = handoff[s].build
      /\ record.ticket = handoff[s].ticket /\ record.session = s /\ Attested(s)
  BY DEF FilesInv, EvidenceHeld
<1>2. record.ticket # None
  BY <1>1 DEF IInv, HandoffInv, TicketInv
<1>3. ~(At(p, "acknowledge") /\ Sess(p) = s)
  BY <1>1 DEF FilesInv, WorkInv, At, Mine, EndSteps
<1> QED
  BY <1>1, <1>2, <1>3 DEF Effect, Attested

\* A step that writes no state file.
LEMMA FilesKept ==
  ASSUME IInv, IInv', FilesInv, NEW p \in Process, Effect(p), handoff' = handoff,
         \A q \in Process \ {p} : job'[q] = job[q], WorkInv(p)'
  PROVE  FilesInv'
<1>1. nextLease' \in Nat
  BY DEF IInv, TypeOK
<1>2. LeaseNumbers'
  BY <1>1, NumbersKept
<1>3. \A q \in Process \ {p} : WorkInv(q)'
  BY OthersKnow
<1>4. HandoffBacked' /\ ReservationHasTicket' /\ EvidenceHeld'
  BY BackedKept, HasTicketKept, EvidenceKept
<1> QED
  BY <1>2, <1>3, <1>4 DEF FilesInv

-----------------------------------------------------------------------------
(* The steps, one after the other.                                         *)

LEMMA StartServiceFiles ==
  ASSUME IInv, IInv', FilesInv, NEW p \in Process, NEW s \in Session, NEW lv \in Level,
         NEW step \in {"admit", "program", "cleanup"}, StartService(p, s, lv, step)
  PROVE  FilesInv'
<1> DEFINE j == [NoJob EXCEPT !.step = step, !.session = s]
<1>1. j.step = step /\ j.session = s
  BY DEF NoJob
<1>2. /\ Acquire(p, s, lv, None) /\ job' = [job EXCEPT ![p] = j]
      /\ UNCHANGED <<flashed, chip, handoff>>
  BY DEF StartService
<1>3. /\ Effect(p) /\ Held(p)' /\ record'.session = s /\ ~Claims(p)'
      /\ ~lease'[p].consumed
  BY <1>2, AcquireEffect DEF IInv, FilesInv
<1>4. job'[p] = j /\ \A q \in Process \ {p} : job'[q] = job[q]
  BY <1>2 DEF IInv, HandoffTypes
<1>5. WorkInv(p)'
  BY <1>1, <1>3, <1>4 DEF WorkInv, At, Sess, EndSteps
<1> QED
  BY <1>2, <1>3, <1>4, <1>5, FilesKept

\* The workflow of p ends or turns to stopping its service.
LEMMA LeaveFiles ==
  ASSUME IInv, IInv', FilesInv, NEW p \in Process, Effect(p), handoff' = handoff,
         Finish(p) \/ Cleanup(p), ~lease'[p].consumed
  PROVE  FilesInv'
<1>1. job' = [job EXCEPT ![p] = NoJob] \/ job' = [job EXCEPT ![p].step = "cleanup"]
  BY DEF Finish, Cleanup, Goto
<1>2. /\ job'[p].step \in {"idle", "cleanup"}
      /\ \A q \in Process \ {p} : job'[q] = job[q]
  BY <1>1 DEF IInv, HandoffTypes, NoJob, Jobs
<1>3. WorkInv(p)'
  BY <1>2 DEF WorkInv, At, EndSteps
<1> QED
  BY <1>2, <1>3, FilesKept

\* What a step keeps that changes neither the lease nor the evidence.
LEMMA QuietStep ==
  ASSUME IInv, FilesInv, NEW p \in Process,
         UNCHANGED <<record, guard, lease, nextLease, flashed, chip>>
  PROVE  Effect(p)
BY QuietEffect DEF IInv, FilesInv

\* The workflow of p takes its next step.
LEMMA Going ==
  ASSUME IInv, NEW p \in Process, NEW step, Goto(p, step)
  PROVE  /\ job'[p].step = step /\ job'[p].session = job[p].session
         /\ job'[p].ticket = job[p].ticket /\ job'[p].build = job[p].build
         /\ \A q \in Process \ {p} : job'[q] = job[q]
BY DEF Goto, IInv, HandoffTypes, Jobs

LEMMA FlashFiles ==
  ASSUME IInv, IInv', FilesInv, NEW p \in Process, Program(p) \/ Publish(p)
  PROVE  FilesInv'
<1>1. job[p].step \in {"program", "publish"} /\ UNCHANGED <<vars, handoff>>
  BY DEF Program, Publish, At
<1>2. Held(p) /\ ~Claims(p) /\ ~lease[p].consumed /\ record.session = Sess(p)
  BY <1>1 DEF FilesInv, WorkInv
<1>3. record.ticket = None
  BY <1>2, HolderKnows DEF IInv
<1>4. Effect(p)
  BY <1>1, <1>2, <1>3, QuietEffect DEF vars, IInv, FilesInv
<1>5. CASE Cleanup(p) \/ Goto(p, "cleanup")
  <2>1. /\ job'[p].step = "cleanup"
        /\ \A q \in Process \ {p} : job'[q] = job[q]
    BY <1>5, Going DEF Cleanup
  <2>2. WorkInv(p)'
    BY <1>1, <1>2, <2>1 DEF WorkInv, At, EndSteps, vars
  <2> QED
    BY <1>1, <1>4, <2>1, <2>2, FilesKept
<1>6. CASE job' = [job EXCEPT ![p].step = "publish", ![p].build = fw]
  <2>1. /\ job'[p].step = "publish" /\ job'[p].session = job[p].session
        /\ \A q \in Process \ {p} : job'[q] = job[q]
    BY <1>6 DEF IInv, HandoffTypes, Jobs
  <2>2. WorkInv(p)'
    BY <1>1, <1>2, <2>1 DEF WorkInv, At, EndSteps, vars, Held, Claims, Sess
  <2> QED
    BY <1>1, <1>4, <2>1, <2>2, FilesKept
<1> QED
  BY <1>5, <1>6 DEF Program, Publish

LEMMA AdmitFiles ==
  ASSUME IInv, IInv', FilesInv, NEW p \in Process, Admit(p)
  PROVE  FilesInv'
<1>1. /\ At(p, "admit") /\ UNCHANGED <<vars, flashed, chip, handoff>>
      /\ job' = [job EXCEPT ![p].step = "prepare", ![p].build = fw]
      /\ \/ Mine(p).st \in {"none", "observing"}
         \/ Resumable(Sess(p)) /\ Mine(p).build = fw
  BY DEF Admit, Resumable, Mine
<1>2. /\ job'[p].step = "prepare" /\ job'[p].session = job[p].session
      /\ job'[p].build = fw
      /\ \A q \in Process \ {p} : job'[q] = job[q]
  BY <1>1 DEF IInv, HandoffTypes, Jobs
<1>3. Held(p) /\ ~Claims(p) /\ ~lease[p].consumed /\ record.session = Sess(p)
  BY <1>1 DEF FilesInv, WorkInv, At
<1>4. WorkInv(p)'
  BY <1>1, <1>2, <1>3
     DEF WorkInv, At, EndSteps, vars, Held, Claims, Sess, Mine, Resumable
<1> QED
  BY <1>1, <1>2, <1>4, QuietStep, FilesKept DEF vars

LEMMA PrepareFiles ==
  ASSUME IInv, IInv', FilesInv, NEW p \in Process, Prepare(p)
  PROVE  FilesInv'
<1>1. /\ At(p, "prepare") /\ Goto(p, "reserve") /\ UNCHANGED <<vars, flashed, chip, sguard>>
      /\ flashed = [session |-> Sess(p), build |-> job[p].build]
      /\ chip = job[p].build
  BY DEF Prepare, EvidenceFor, ReadsBack
<1>2. /\ JobInv(p) /\ WorkInv(p) /\ job[p].step = "prepare"
      /\ Sess(p) \in Session /\ sguard[Sess(p)] = p
  BY <1>1 DEF IInv, HandoffInv, FilesInv, JobInv, At, GuardedSteps, BeginSteps
<1>3. Effect(p)
  BY <1>1, QuietStep DEF vars
<1>4. PICK new :
        /\ WriteState(Sess(p), new)
        /\ new.lease = lease[p].id /\ new.build = job[p].build
        /\ new.st \in {"paused-for-debug", "observing-pending-release"}
        /\ Mine(p).ticket = None \/ new.ticket = Mine(p).ticket
  <2>1. CASE Mine(p).st \in {"none", "observing"}
    <3>1. Mine(p).ticket = None
      BY <1>2, <2>1 DEF IInv, HandoffInv, TicketInv, Mine
    <3> QED
      BY <2>1, <3>1 DEF Prepare
  <2>2. CASE Mine(p).st \notin {"none", "observing"}
    <3> DEFINE n == [Mine(p) EXCEPT !.lease = lease[p].id]
    <3>1. /\ n.lease = lease[p].id /\ n.build = Mine(p).build
          /\ n.st = Mine(p).st /\ n.ticket = Mine(p).ticket
      BY <1>2 DEF IInv, HandoffTypes, Handoffs, Mine
    <3>2. WriteState(Sess(p), n)
      BY <2>2 DEF Prepare
    <3>3. Resumable(Sess(p)) /\ Mine(p).build = job[p].build
      BY <1>1, <1>2, <2>2 DEF WorkInv
    <3> HIDE DEF n
    <3> QED
      BY <3>1, <3>2, <3>3 DEF Resumable, Mine
  <2> QED
    BY <2>1, <2>2
<1>5. /\ handoff'[Sess(p)] = new
      /\ \A r \in Session \ {Sess(p)} : handoff'[r] = handoff[r]
  BY <1>2, <1>4 DEF WriteState, IInv, HandoffTypes
<1>6. /\ job'[p].step = "reserve" /\ job'[p].session = job[p].session
      /\ \A q \in Process \ {p} : job'[q] = job[q]
  BY <1>1, Going
<1>7. Held(p) /\ ~Claims(p) /\ ~lease[p].consumed /\ record.session = Sess(p)
  BY <1>2 DEF WorkInv
<1>8. WorkInv(p)'
  BY <1>1, <1>4, <1>5, <1>6, <1>7
     DEF WorkInv, At, EndSteps, vars, Held, Claims, Sess, Mine, Resumable, Attested, Imaged
<1>9. \A q \in Process \ {p} : WorkInv(q)'
  BY <1>2, <1>3, <1>5, <1>6, OthersKnow
<1>10. LeaseNumbers'
  <2>1. nextLease' \in Nat
    BY DEF IInv, TypeOK
  <2> QED
    BY <1>3, <1>4, <1>5, <2>1, NumbersKept
<1>11. HandoffBacked' /\ EvidenceHeld'
  BY <1>3, <1>4, <1>5, BackedKept, EvidenceKept
<1>12. ReservationHasTicket'
  <2>1. \A r \in Session : \/ handoff'[r].ticket = handoff[r].ticket
                           \/ record.ticket # None => handoff[r].ticket # record.ticket
    BY <1>4, <1>5 DEF Mine
  <2> QED
    BY <1>2, <1>3, <2>1, HasTicketKept DEF At
<1> QED
  BY <1>8, <1>9, <1>10, <1>11, <1>12 DEF FilesInv

LEMMA ReserveProbeFiles ==
  ASSUME IInv, IInv', FilesInv, NEW p \in Process, ReserveProbe(p)
  PROVE  FilesInv'
<1>1. /\ At(p, "reserve") /\ Reserve(p, Mine(p).ticket) /\ UNCHANGED <<flashed, chip, handoff>>
  BY DEF ReserveProbe
<1>2. JobInv(p) /\ WorkInv(p) /\ job[p].step = "reserve"
  BY <1>1 DEF IInv, HandoffInv, FilesInv, At
<1>3. Sess(p) \in Session /\ Mine(p).ticket \in Ticket
  BY <1>2 DEF JobInv, At, Mine, IInv, HandoffTypes, Handoffs
<1>4. /\ Effect(p) /\ Held(p)' /\ lease'[p].external = record'
      /\ lease'[p].id = lease[p].id /\ lease'[p].consumed = lease[p].consumed
      /\ record'.ticket = Mine(p).ticket /\ record'.session = Sess(p)
  BY <1>1, <1>2, <1>3, ReserveEffect DEF IInv, FilesInv
<1>5. CASE Goto(p, "stop")
  <2>1. /\ job'[p].step = "stop" /\ job'[p].session = job[p].session
        /\ \A q \in Process \ {p} : job'[q] = job[q]
    BY <1>5, Going
  <2>2. WorkInv(p)'
    BY <1>1, <1>2, <1>4, <2>1
       DEF WorkInv, At, EndSteps, Sess, Mine, Resumable, Attested, Imaged
  <2> QED
    BY <1>1, <1>4, <2>1, <2>2, FilesKept
<1>6. CASE Cleanup(p)
  BY <1>1, <1>2, <1>4, <1>6, LeaveFiles DEF WorkInv
<1> QED
  BY <1>5, <1>6 DEF ReserveProbe

LEMMA StopForDebugFiles ==
  ASSUME IInv, IInv', FilesInv, NEW p \in Process, StopForDebug(p)
  PROVE  FilesInv'
<1>1. /\ job[p].step = "stop" /\ UNCHANGED <<flashed, chip, handoff>>
      /\ Release(p) \/ ReleaseFails(p)
  BY DEF StopForDebug, At
<1>2. JobInv(p) /\ WorkInv(p)
  BY DEF IInv, HandoffInv, FilesInv
<1>3. Effect(p) /\ ~lease'[p].consumed
  BY <1>1, LetGoEffect DEF IInv, FilesInv
<1>4. CASE Release(p) /\ Goto(p, "prove")
  <2>1. /\ job'[p].step = "prove" /\ job'[p].session = job[p].session
        /\ \A q \in Process \ {p} : job'[q] = job[q]
    BY <1>4, Going
  <2>2. guard' = None
    BY <1>4 DEF Release
  <2>3. WorkInv(p)'
    BY <1>1, <1>2, <1>3, <2>1, <2>2
       DEF WorkInv, At, EndSteps, Sess, Mine, Resumable, Attested, Imaged
  <2> QED
    BY <1>1, <1>3, <2>1, <2>3, FilesKept
<1>5. CASE Finish(p)
  BY <1>1, <1>3, <1>5, LeaveFiles
<1> QED
  BY <1>4, <1>5 DEF StopForDebug

LEMMA ProveReservationFiles ==
  ASSUME IInv, IInv', FilesInv, NEW p \in Process, ProveReservation(p)
  PROVE  FilesInv'
<1> DEFINE new == [Mine(p) EXCEPT !.st = "externally-owned"]
<1>1. /\ job[p].step = "prove" /\ UNCHANGED <<vars, flashed, chip>> /\ ReservationProven(Sess(p))
      /\ WriteState(Sess(p), new) /\ Finish(p)
  BY DEF ProveReservation, At
<1>2. /\ JobInv(p) /\ WorkInv(p) /\ Sess(p) \in Session /\ sguard[Sess(p)] = p
  BY <1>1 DEF IInv, HandoffInv, FilesInv, JobInv, At, GuardedSteps, BeginSteps
<1>3. Effect(p)
  BY <1>1, QuietStep DEF vars
<1>4. /\ new.st = "externally-owned" /\ new.ticket = Mine(p).ticket
      /\ new.lease = Mine(p).lease /\ new.build = Mine(p).build
  BY <1>2 DEF IInv, HandoffTypes, Handoffs, Mine
<1>5. /\ handoff'[Sess(p)] = new
      /\ \A r \in Session \ {Sess(p)} : handoff'[r] = handoff[r]
  BY <1>1, <1>2 DEF WriteState, IInv, HandoffTypes
<1> HIDE DEF new
<1>6. /\ job'[p].step = "idle" /\ \A q \in Process \ {p} : job'[q] = job[q]
  BY <1>1 DEF Finish, NoJob, IInv, HandoffTypes
<1>7. WorkInv(p)'
  BY <1>1, <1>2, <1>6 DEF WorkInv, At, EndSteps, vars
<1>8. \A q \in Process \ {p} : WorkInv(q)'
  BY <1>2, <1>3, <1>5, <1>6, OthersKnow
<1>9. LeaseNumbers' /\ ReservationHasTicket'
  <2>1. nextLease' \in Nat
    BY DEF IInv, TypeOK
  <2> QED
    BY <1>1, <1>3, <1>4, <1>5, <2>1, NumbersKept, HasTicketKept DEF At, Mine
<1>10. /\ record.lease = Mine(p).lease /\ record.ticket = Mine(p).ticket
       /\ record.state = "externally-owned" /\ Mine(p).ticket # None
  BY <1>1, <1>2 DEF ReservationProven, Mine, JobInv
<1>11. /\ guard = None /\ Attested(Sess(p))
  BY <1>1, <1>2, <1>10 DEF WorkInv, At
<1>12. record.session = Sess(p)
  <2>1. record.session \in Session /\ handoff[record.session].ticket = record.ticket
    BY <1>10 DEF FilesInv, ReservationHasTicket, IInv, LeaseInv, RecordInv, TypeOK, Records
  <2> QED
    BY <1>2, <1>10, <2>1 DEF IInv, HandoffInv, TicketInv, Mine
<1>13. HandoffBacked'
  BY <1>1, <1>4, <1>5, <1>10, <1>11, <1>12
     DEF HandoffBacked, FilesInv, vars, ReservationProven
<1>14. EvidenceHeld'
  BY <1>1, <1>4, <1>5, <1>10, <1>11, <1>12
     DEF EvidenceHeld, FilesInv, vars, Attested, Mine
<1> QED
  BY <1>7, <1>8, <1>9, <1>13, <1>14 DEF FilesInv

LEMMA StartEndFiles ==
  ASSUME IInv, IInv', FilesInv, NEW p \in Process, NEW s \in Session, NEW t \in Ticket,
         StartEnd(p, s, t)
  PROVE  FilesInv'
<1>1. /\ UNCHANGED <<vars, flashed, chip>> /\ sguard[s] = None
      /\ job[p].step = "idle" /\ WorkInv(p)
  BY DEF StartEnd, EnterGuard, Idle, FilesInv
<1>2. Effect(p)
  BY <1>1, QuietStep DEF vars
<1>3. /\ job'[p].session = s
      /\ \A q \in Process \ {p} : job'[q] = job[q]
      /\ \A r \in Session \ {s} : handoff'[r] = handoff[r]
      /\ handoff'[s].ticket = handoff[s].ticket /\ handoff'[s].lease = handoff[s].lease
      /\ handoff'[s].build = handoff[s].build
      /\ \/ /\ job'[p].step = "acknowledge"
            /\ handoff'[s].st = "observing-pending-release"
         \/ /\ job'[p].step = "settle"
            /\ handoff[s].st \in {"externally-owned", "reacquiring"}
            /\ handoff'[s].st = "reacquiring"
  BY DEF StartEnd, Reacquiring, WriteState, IInv, HandoffTypes, Handoffs
<1>4. WorkInv(p)'
  BY <1>1, <1>3 DEF WorkInv, At, EndSteps, Sess, Mine, vars
<1>5. \A q \in Process \ {p} : WorkInv(q)'
  BY <1>1, <1>2, <1>3, OthersKnow
<1>6. \A r \in Session : r # s => handoff'[r] = handoff[r]
  BY <1>3
<1>7. LeaseNumbers'
  <2>1. nextLease' \in Nat
    BY DEF IInv, TypeOK
  <2> QED
    BY <1>2, <1>3, <1>6, <2>1, NumbersKept
<1>8. HandoffBacked' /\ EvidenceHeld'
  BY <1>2, <1>3, <1>6, BackedKept, EvidenceKept
<1>9. ReservationHasTicket'
  <2>1. \A r \in Session : handoff'[r].ticket = handoff[r].ticket
    BY <1>3, <1>6
  <2>2. record' = record
    BY <1>1 DEF vars
  <2>3. record.ticket # None => record.session \in Session
    BY DEF IInv, LeaseInv, RecordInv, TypeOK, Records
  <2> QED
    BY <2>1, <2>2, <2>3 DEF FilesInv, ReservationHasTicket
<1> QED
  BY <1>4, <1>5, <1>7, <1>8, <1>9 DEF FilesInv

\* An end takes its next step before it has written that the ticket is spent.
LEMMA EndGoesOn ==
  ASSUME IInv, IInv', FilesInv, NEW p \in Process, Effect(p), handoff' = handoff,
         NEW step \in {"claim", "restore", "close", "resettle", "pend", "unclaim"},
         Goto(p, step), job[p].step \in EndSteps \ {"acknowledge", "observe"},
         step \in {"restore", "close"} => Held(p)' /\ record'.session = Sess(p),
         step = "close" => Imaged(Sess(p))',
         lease'[p].consumed => step = "close"
  PROVE  FilesInv'
<1>1. /\ job'[p].step = step /\ job'[p].session = job[p].session
      /\ \A q \in Process \ {p} : job'[q] = job[q]
  BY Going
<1>2. WorkInv(p)'
  BY <1>1 DEF FilesInv, WorkInv, At, EndSteps, Sess, Mine, Imaged
<1> QED
  BY <1>1, <1>2, FilesKept

LEMMA EndStepFiles ==
  ASSUME IInv, IInv', FilesInv, NEW p \in Process,
         \/ Settle(p) \/ ClaimProbe(p) \/ RestoreTarget(p) \/ GiveBack(p)
         \/ StopAfterClaim(p) \/ Resettle(p)
  PROVE  FilesInv'
<1> USE DEF IInv, At
<1>1. /\ job[p].step \in EndSteps \ {"acknowledge", "observe"}
      /\ UNCHANGED <<flashed, chip, handoff>>
  BY DEF Settle, ClaimProbe, RestoreTarget, GiveBack, StopAfterClaim, Resettle, EndSteps
<1>2. Sess(p) \in Session /\ job[p].ticket \in Ticket
  BY <1>1 DEF HandoffInv, JobInv, EndSteps, HandoffTypes, Jobs
<1>3. LeaseNumbers /\ WorkInv(p)
  BY DEF FilesInv
<1>4. CASE Settle(p)
  <2>1. Effect(p)
    BY <1>1, <1>3, <1>4, FinalizeEffect, QuietStep DEF Settle, vars
  <2>2. lease' = lease
    BY <1>4 DEF Settle, Finalize, vars
  <2> QED
    BY <1>1, <1>3, <1>4, <2>1, <2>2, EndGoesOn DEF Settle, WorkInv
<1>5. CASE ClaimProbe(p)
  <2>1. Effect(p) /\ Held(p)' /\ record'.session = Sess(p) /\ ~lease'[p].consumed
    BY <1>1, <1>2, <1>3, <1>5, AcquireEffect, LevelsKnown DEF ClaimProbe
  <2> QED
    BY <1>1, <1>5, <2>1, EndGoesOn DEF ClaimProbe
<1>6. CASE RestoreTarget(p)
  <2>1. Effect(p) /\ lease'[p].id = lease[p].id
    BY <1>1, <1>3, <1>6, ConsumeEffect DEF RestoreTarget
  <2>2. /\ Held(p) /\ record' = record /\ record.session = Sess(p)
        /\ chip = Mine(p).build /\ chip' = chip
    BY <1>3, <1>6 DEF RestoreTarget, Consume, ReadsBack, WorkInv
  <2>3. Goto(p, "close") /\ job'[p].session = job[p].session
    BY <1>6, Going DEF RestoreTarget
  <2>4. Held(p)' /\ record'.session = Sess(p) /\ Imaged(Sess(p))'
    BY <1>1, <2>1, <2>2, <2>3 DEF Held, Imaged, Mine, Sess
  <2> QED
    BY <1>1, <2>1, <2>3, <2>4, EndGoesOn
<1>7. CASE GiveBack(p)
  <2>1. Effect(p)
    BY <1>7, QuietStep DEF GiveBack, vars
  <2> QED
    BY <1>1, <1>3, <1>7, <2>1, EndGoesOn DEF GiveBack, vars, WorkInv
<1>8. CASE StopAfterClaim(p)
  <2>1. Effect(p) /\ ~lease'[p].consumed
    BY <1>1, <1>3, <1>8, LetGoEffect DEF StopAfterClaim
  <2> QED
    BY <1>1, <1>8, <2>1, EndGoesOn, LeaveFiles DEF StopAfterClaim
<1>9. CASE Resettle(p)
  <2>1. Effect(p)
    BY <1>1, <1>3, <1>9, FinalizeEffect DEF Resettle
  <2>2. lease' = lease
    BY <1>9 DEF Resettle, Finalize
  <2> QED
    BY <1>1, <1>3, <1>9, <2>1, <2>2, EndGoesOn DEF Resettle, WorkInv
<1> QED
  BY <1>4, <1>5, <1>6, <1>7, <1>8, <1>9

LEMMA FreeProbeFiles ==
  ASSUME IInv, IInv', FilesInv, NEW p \in Process, FreeProbe(p)
  PROVE  FilesInv'
<1>1. /\ At(p, "acknowledge") /\ UNCHANGED <<flashed, chip, handoff>> /\ Goto(p, "observe")
      /\ Acknowledge(p, Sess(p), job[p].ticket)
  BY DEF FreeProbe
<1>2. Sess(p) \in Session /\ job[p].ticket \in Ticket
  BY <1>1 DEF IInv, HandoffInv, JobInv, At, EndSteps, HandoffTypes, Jobs
<1>3. Effect(p) /\ record'.ticket = None /\ lease' = lease
  BY <1>1, <1>2, AcknowledgeEffect DEF IInv, FilesInv, Acknowledge
<1>4. /\ job'[p].step = "observe" /\ job'[p].session = job[p].session
      /\ job'[p].ticket = job[p].ticket
      /\ \A q \in Process \ {p} : job'[q] = job[q]
  BY <1>1, Going
<1>5. WorkInv(p)'
  BY <1>1, <1>2, <1>3, <1>4, NoneIsNoValue
     DEF FilesInv, WorkInv, At, EndSteps, Sess, Mine
<1> QED
  BY <1>1, <1>3, <1>4, <1>5, FilesKept

\* The end writes the state of its session, under its guard: the ticket is
\* spent, or it is over.
LEMMA EndWritesFiles ==
  ASSUME IInv, IInv', FilesInv, NEW p \in Process, PendRelease(p) \/ ResumeObserving(p)
  PROVE  FilesInv'
<1>1. job[p].step \in {"pend", "observe"} /\ UNCHANGED <<vars, flashed, chip>>
  BY DEF PendRelease, ResumeObserving, At
<1>2. /\ Sess(p) \in Session /\ sguard[Sess(p)] = p /\ WorkInv(p)
      /\ Mine(p).ticket = job[p].ticket
  BY <1>1 DEF IInv, HandoffInv, FilesInv, JobInv, At, GuardedSteps, EndSteps
<1>3. Effect(p)
  BY <1>1, QuietStep DEF vars
<1>4. /\ \A r \in Session \ {Sess(p)} : handoff'[r] = handoff[r]
      /\ handoff'[Sess(p)].lease = Mine(p).lease
      /\ handoff'[Sess(p)].st \in {"observing-pending-release", "observing"}
      /\ job[p].step = "pend" =>
            /\ handoff'[Sess(p)].st = "observing-pending-release"
            /\ handoff'[Sess(p)].ticket = Mine(p).ticket
  <2>1. handoff \in [Session -> Handoffs] /\ Mine(p) \in Handoffs
    BY <1>2 DEF IInv, HandoffTypes, Mine
  <2>2. CASE PendRelease(p)
    <3>1. handoff' = [handoff EXCEPT ![Sess(p)] =
                        [Mine(p) EXCEPT !.st = "observing-pending-release"]]
      BY <2>2 DEF PendRelease, WriteState
    <3> QED
      BY <1>2, <2>1, <3>1 DEF Handoffs
  <2>3. CASE ResumeObserving(p)
    <3>1. /\ job[p].step = "observe"
          /\ handoff' = [handoff EXCEPT ![Sess(p)] =
                           [Mine(p) EXCEPT !.st = "observing", !.ticket = None]]
      BY <2>3 DEF ResumeObserving, WriteState, At
    <3> QED
      BY <1>2, <2>1, <3>1 DEF Handoffs
  <2> QED
    BY <2>2, <2>3
<1>5. /\ \A q \in Process \ {p} : job'[q] = job[q]
      /\ \/ job[p].step = "pend" /\ job'[p].step = "acknowledge"
            /\ job'[p].session = job[p].session
         \/ job'[p].step = "idle"
  <2>1. CASE PendRelease(p)
    BY <1>1, <2>1, Going DEF PendRelease, At
  <2>2. CASE ResumeObserving(p)
    BY <2>2 DEF ResumeObserving, Finish, NoJob, IInv, HandoffTypes
  <2> QED
    BY <2>1, <2>2
<1>6. WorkInv(p)'
  BY <1>1, <1>2, <1>4, <1>5 DEF WorkInv, At, EndSteps, Sess, Mine, vars
<1>7. \A q \in Process \ {p} : WorkInv(q)'
  BY <1>2, <1>3, <1>4, <1>5, OthersKnow
<1>8. \A r \in Session : r # Sess(p) => handoff'[r] = handoff[r]
  BY <1>4
<1>9. LeaseNumbers'
  <2>1. nextLease' \in Nat
    BY DEF IInv, TypeOK
  <2> QED
    BY <1>3, <1>4, <1>8, <2>1, NumbersKept DEF Mine
<1>10. HandoffBacked' /\ EvidenceHeld'
  BY <1>3, <1>4, <1>8, BackedKept, EvidenceKept
<1>11. ReservationHasTicket'
  <2>1. job[p].step = "observe" => Mine(p).ticket # record.ticket
    BY <1>2 DEF WorkInv, At
  <2> QED
    BY <1>1, <1>3, <1>4, <1>8, <2>1, HasTicketKept DEF At, Mine
<1> QED
  BY <1>6, <1>7, <1>9, <1>10, <1>11 DEF FilesInv

\* A workflow stops its service, fails, or its process dies or starts again.
LEMMA OtherFiles ==
  ASSUME IInv, IInv', FilesInv, NEW p \in Process,
         \/ StopService(p) \/ Fail(p) \/ StopUnresolved(p) \/ Die(p) \/ Reboot(p)
  PROVE  FilesInv'
<1>1. CASE StopService(p) \/ Die(p)
  <2>1. Effect(p) /\ ~lease'[p].consumed
    BY <1>1, LetGoEffect DEF StopService, Die, IInv, FilesInv
  <2> QED
    BY <1>1, <2>1, LeaveFiles DEF StopService, Die
<1>2. CASE Fail(p) \/ StopUnresolved(p)
  <2>1. Effect(p)
    BY <1>2, QuietStep DEF Fail, StopUnresolved, vars
  <2>2. ~lease'[p].consumed
    BY <1>2 DEF Fail, StopUnresolved, At, vars, FilesInv, WorkInv
  <2> QED
    BY <1>2, <2>1, <2>2, LeaveFiles DEF Fail, StopUnresolved
<1>3. CASE Reboot(p)
  <2>1. UNCHANGED <<record, guard, lease, nextLease, hvars>>
    BY <1>3 DEF Reboot, Restart
  <2>2. Effect(p)
    BY <2>1, QuietStep DEF hvars
  <2>3. WorkInv(p)'
    BY <2>1 DEF hvars, FilesInv, WorkInv, At, Sess, Mine, Held, Claims, Resumable, Attested, Imaged
  <2> QED
    BY <2>1, <2>2, <2>3, FilesKept DEF hvars
<1> QED
  BY <1>1, <1>2, <1>3

\* The debugger only loads an image while the probe is its own, so that no
\* workflow of the toolkit counts on the image.
LEMMA DebuggerFiles ==
  ASSUME IInv, FilesInv, DebuggerLoads
  PROVE  FilesInv'
<1> USE DEF FilesInv, IInv, HandoffInv
<1>1. UNCHANGED <<vars, flashed, handoff, sguard, job>>
  BY DEF DebuggerLoads
<1>2. PICK s \in Session : handoff[s].st = "externally-owned"
  BY DEF DebuggerLoads
<1>3. guard = None /\ record.session = s /\ record.ticket = handoff[s].ticket
      /\ handoff[s].ticket # None
  BY <1>2 DEF HandoffBacked, ReservationProven, TicketInv
<1>4. ASSUME NEW p \in Process PROVE WorkInv(p)'
  <2>1. ~Held(p)
    BY <1>3, NoneIsNoValue DEF LeaseInv
  <2>2. At(p, "prove") => record.ticket # Mine(p).ticket
    <3> SUFFICES ASSUME At(p, "prove") PROVE record.ticket # Mine(p).ticket
      OBVIOUS
    <3>1. Sess(p) \in Session /\ Mine(p).st # "externally-owned"
      BY DEF JobInv, WorkInv, At, Mine, Resumable
    <3> QED
      BY <1>2, <1>3, <3>1 DEF TicketInv, Mine
  <2>3. WorkInv(p)
    OBVIOUS
  <2> QED
    BY <1>1, <2>1, <2>2, <2>3
       DEF vars, WorkInv, At, Sess, Mine, Held, Claims, Resumable, Attested, Imaged
<1> QED
  BY <1>1, <1>4 DEF vars, LeaseNumbers, HandoffBacked, ReservationProven,
     ReservationHasTicket, EvidenceHeld, Attested

LEMMA FilesStep ==
  ASSUME IInv, IInv', FilesInv, [HNext]_allvars
  PROVE  FilesInv'
<1>1. CASE UNCHANGED <<vars, flashed, chip, handoff, job>>
  BY <1>1 DEF vars, FilesInv, LeaseNumbers, WorkInv, At, Sess, Mine, Held, Claims,
     Resumable, Attested, Imaged, HandoffBacked, ReservationProven, ReservationHasTicket,
     EvidenceHeld
<1>2. ASSUME NEW p \in Process, HStep(p) PROVE FilesInv'
  <2>1. CASE BeginStep(p)
    BY <2>1, LevelsKnown, StartServiceFiles, AdmitFiles, PrepareFiles,
       ReserveProbeFiles, StopForDebugFiles, ProveReservationFiles DEF BeginStep
  <2>2. CASE EndStep(p)
    BY <2>2, StartEndFiles, EndStepFiles, FreeProbeFiles, EndWritesFiles DEF EndStep
  <2>3. CASE FlashStep(p) \/ UseStep(p)
    BY <2>3, LevelsKnown, StartServiceFiles, FlashFiles DEF FlashStep, UseStep
  <2> QED
    BY <1>2, <2>1, <2>2, <2>3, EndStepFiles, OtherFiles DEF HStep
<1> QED
  BY <1>1, <1>2, DebuggerFiles DEF HNext, Rebuild, allvars, hvars

LEMMA FilesInit ==
  ASSUME HInit
  PROVE  FilesInv
<1>1. NoHandoff.st = "none" /\ NoHandoff.lease = 0 /\ NoJob.step = "idle" /\ NoLease.id = 0
      /\ ~NoLease.consumed /\ NoRecord.ticket = None
  BY DEF NoHandoff, NoJob, NoLease, NoRecord
<1>2. \A p \in Process : WorkInv(p)
  BY <1>1 DEF HInit, Init, WorkInv, At, EndSteps
<1>3. LeaseNumbers
  BY <1>1 DEF HInit, Init, LeaseNumbers
<1> QED
  BY <1>1, <1>2, <1>3 DEF FilesInv, HInit, Init, HandoffBacked, ReservationHasTicket,
     EvidenceHeld

\* The session's state, the record and the flash evidence agree: a probe that is
\* given out is reserved for the session that says so and held by nobody, the
\* ticket in the record is in a state file, and the evidence the end will need
\* stays where it is.
THEOREM FilesAlwaysAgree == HSpec => []FilesAgree
<1>1. HInit => FilesInv
  BY FilesInit
<1>2. IInv /\ IInv' /\ FilesInv /\ [HNext]_allvars => FilesInv'
  BY FilesStep
<1>3. FilesInv => FilesAgree
  BY DEF FilesInv, FilesAgree, EvidenceHeld, EvidenceStays, Attested
<1> QED
  BY <1>1, <1>2, <1>3, HInvariance, PTL DEF HSpec

-----------------------------------------------------------------------------
(* The image on the target.                                                *)

\* The state of a session becomes "externally-owned" only when the reservation has
\* been proved.
LEMMA GivenOutByProof ==
  ASSUME IInv, FilesInv, NEW p \in Process, HStep(p), NEW s \in Session,
         handoff[s].st # "externally-owned", handoff'[s].st = "externally-owned"
  PROVE  ProveReservation(p) /\ s = Sess(p)
<1> USE DEF IInv, HandoffTypes, Handoffs, HandoffInv
<1>1. handoff' # handoff
  OBVIOUS
<1>2. JobInv(p) /\ job[p] \in Jobs
  OBVIOUS
<1>3. CASE Prepare(p)
  <2>1. Sess(p) \in Session
    BY <1>2, <1>3 DEF JobInv, Prepare, At
  <2> QED
    BY <1>3, <2>1 DEF Prepare, WriteState, Mine
<1>4. CASE PendRelease(p) \/ ResumeObserving(p)
  <2>1. Sess(p) \in Session
    BY <1>2, <1>4 DEF JobInv, PendRelease, ResumeObserving, At
  <2> QED
    BY <1>4, <2>1 DEF PendRelease, ResumeObserving, WriteState, Mine
<1>5. CASE ProveReservation(p)
  <2>1. Sess(p) \in Session
    BY <1>2, <1>5 DEF JobInv, ProveReservation, At
  <2> QED
    BY <1>5, <2>1 DEF ProveReservation, WriteState, Mine
<1>6. CASE \E r \in Session, t \in Ticket : StartEnd(p, r, t)
  BY <1>6 DEF StartEnd, WriteState, Reacquiring
<1> QED
  BY <1>1, <1>3, <1>4, <1>5, <1>6
     DEF HStep, BeginStep, EndStep, FlashStep, UseStep, StartService, Admit, ReserveProbe,
         StopForDebug, Settle, ClaimProbe, RestoreTarget, StopAfterClaim, Resettle,
         FreeProbe, Program, Publish, StopService, GiveBack, Fail, StopUnresolved, Die,
         Reboot, hvars

\* What is given out has been read back, and its evidence is in place.
LEMMA GivenOutImaged ==
  ASSUME IInv, FilesInv, NEW p \in Process, HStep(p), NEW s \in Session,
         handoff[s].st # "externally-owned", handoff'[s].st = "externally-owned"
  PROVE  /\ chip = handoff'[s].build
         /\ flashed = [session |-> s, build |-> handoff'[s].build]
<1>1. ProveReservation(p) /\ s = Sess(p)
  BY GivenOutByProof
<1>2. Attested(s) /\ Imaged(s)
  BY <1>1 DEF FilesInv, WorkInv, ProveReservation, ReservationProven, Mine
<1>3. handoff'[s].build = handoff[s].build
  BY <1>1 DEF ProveReservation, WriteState, Mine, IInv, HandoffTypes, Handoffs
<1> QED
  BY <1>2, <1>3 DEF Attested, Imaged

\* A ticket is recorded as consumed only when the claim that read the target back
\* is released.
LEMMA ConsumedByRelease ==
  ASSUME IInv, NEW p \in Process, Step(p),
         record'.state = "handoff-consumed", record.state # "handoff-consumed"
  PROVE  Held(p) /\ lease[p].consumed
<1> USE DEF IInv
<1>1. record' # record
  OBVIOUS
<1>2. CASE Release(p)
  <2>1. CASE ~Claims(p)
    <3>1. record' = ReleasedRecord(lease[p].id, record.tomb)
      BY <1>2, <2>1 DEF Release, Settled
    <3>2. lease[p].id \in Nat /\ record.tomb \in Tombstones
      BY DEF TypeOK, Leases, Records
    <3> QED
      BY <3>1, <3>2, ReleasedFields
  <2>2. CASE Claims(p) /\ ~lease[p].consumed
    <3>1. record' = lease[p].external
      BY <1>2, <2>2 DEF Release, Settled
    <3>2. lease[p].external.state = "externally-owned"
      BY <1>2, <2>2, HolderKnows DEF Release, LeaseInv, OwnerInv
    <3> QED
      BY <3>1, <3>2
  <2> QED
    BY <1>2, <2>1, <2>2 DEF Release
<1>3. CASE \E s \in Session, lv \in Level, t \in Ticket \cup {None} : Acquire(p, s, lv, t)
  BY <1>3 DEF Acquire
<1>4. CASE \E t \in Ticket : Reserve(p, t)
  BY <1>4 DEF Reserve, TypeOK, Records
<1>5. CASE \E s \in Session, t \in Ticket : Finalize(p, s, t)
  BY <1>5 DEF Finalize, TypeOK, Records
<1>6. CASE \E s \in Session, t \in Ticket : Acknowledge(p, s, t)
  <2>1. PICK s \in Session, t \in Ticket : Acknowledge(p, s, t)
    BY <1>6
  <2>2. record' = ReleasedRecord(record.lease, [ticket |-> t, session |-> s])
    BY <1>1, <2>1 DEF Acknowledge
  <2>3. record.lease \in Nat /\ [ticket |-> t, session |-> s] \in Tombstones
    BY DEF TypeOK, Records, Tombstones
  <2> QED
    BY <2>2, <2>3, ReleasedFields
<1> QED
  BY <1>1, <1>2, <1>3, <1>4, <1>5, <1>6
     DEF Step, Consume, ReleaseFails, Crash, Restart

\* Who has consumed a ticket has read the target back and still holds the probe.
LEMMA ConsumedImaged ==
  ASSUME IInv, FilesInv, [HNext]_allvars,
         record'.state = "handoff-consumed", record.state # "handoff-consumed"
  PROVE  chip = handoff[record.session].build
<1>1. PICK p \in Process : Step(p)
  BY HStepInv DEF Next, vars
<1>2. Held(p) /\ lease[p].consumed
  BY <1>1, ConsumedByRelease
<1> QED
  BY <1>2 DEF FilesInv, WorkInv, At, Imaged

\* A probe is given out, and its ticket consumed, only while the target holds the
\* image of the build that the session names.
THEOREM ImageIsProven == HSpec => ProvenImage
<1> DEFINE Proven ==
      /\ \A s \in Session :
            handoff[s].st # "externally-owned" /\ handoff'[s].st = "externally-owned" =>
                /\ chip = handoff'[s].build
                /\ flashed = [session |-> s, build |-> handoff'[s].build]
      /\ record'.state = "handoff-consumed" /\ record.state # "handoff-consumed" =>
            chip = handoff[record.session].build
<1>1. HInit => FilesInv
  BY FilesInit
<1>2. IInv /\ IInv' /\ FilesInv /\ [HNext]_allvars => FilesInv'
  BY FilesStep
<1>3. IInv /\ FilesInv /\ [HNext]_allvars => [Proven]_allvars
  <2> SUFFICES ASSUME IInv, FilesInv, [HNext]_allvars, allvars' # allvars PROVE Proven
    OBVIOUS
  <2>1. ASSUME NEW s \in Session, handoff[s].st # "externally-owned",
               handoff'[s].st = "externally-owned"
        PROVE  /\ chip = handoff'[s].build
               /\ flashed = [session |-> s, build |-> handoff'[s].build]
    <3>1. PICK p \in Process : HStep(p)
      BY <2>1 DEF HNext, Rebuild, DebuggerLoads
    <3> QED
      BY <2>1, <3>1, GivenOutImaged
  <2> QED
    BY <2>1, ConsumedImaged
<1> QED
  BY <1>1, <1>2, <1>3, HInvariance, PTL DEF HSpec, ProvenImage

\* Every step that changes the record keeps to what the others count on.
LEMMA RecordEffect ==
  ASSUME IInv, FilesInv, NEW p \in Process, HStep(p), record' # record
  PROVE  Effect(p)
<1> USE DEF IInv
<1>1. LeaseNumbers /\ WorkInv(p) /\ JobInv(p) /\ job[p] \in Jobs
  BY DEF FilesInv, HandoffInv, HandoffTypes
<1>2. CASE \E s \in Session, lv \in Level, step \in {"admit", "program", "cleanup"} :
            StartService(p, s, lv, step)
  BY <1>1, <1>2, AcquireEffect DEF StartService
<1>3. CASE ReserveProbe(p)
  <2>1. At(p, "reserve") /\ Mine(p).ticket \in Ticket
    BY <1>1, <1>3 DEF ReserveProbe, JobInv, At, Mine, HandoffTypes, Handoffs
  <2> QED
    BY <1>1, <1>3, <2>1, ReserveEffect DEF ReserveProbe
<1>4. CASE StopForDebug(p) \/ StopService(p) \/ StopAfterClaim(p) \/ Die(p)
  BY <1>1, <1>4, LetGoEffect DEF StopForDebug, StopService, StopAfterClaim, Die
<1>5. CASE Settle(p) \/ Resettle(p)
  BY <1>1, <1>5, FinalizeEffect DEF Settle, Resettle, vars
<1>6. CASE ClaimProbe(p) \/ FreeProbe(p)
  <2>1. Sess(p) \in Session /\ job[p].ticket \in Ticket
    BY <1>1, <1>6 DEF ClaimProbe, FreeProbe, JobInv, At, EndSteps, Jobs
  <2> QED
    BY <1>1, <1>6, <2>1, AcquireEffect, AcknowledgeEffect, LevelsKnown
       DEF ClaimProbe, FreeProbe, At
<1> QED
  BY <1>2, <1>3, <1>4, <1>5, <1>6, LevelsKnown
     DEF HStep, BeginStep, EndStep, FlashStep, UseStep, Admit, Prepare, ProveReservation,
         StartEnd, RestoreTarget, Consume, PendRelease, ResumeObserving, Program, Publish,
         GiveBack, Fail, StopUnresolved, Reboot, Restart, vars

\* The probe is freed only once the session has recorded that the ticket is spent.
THEOREM FreedWhenRecorded == HSpec => FreedAfterRecorded
<1> DEFINE Freed ==
      record.ticket # None /\ record'.ticket = None =>
          /\ handoff[record.session].st = "observing-pending-release"
          /\ handoff[record.session].ticket = record.ticket
<1>1. HInit => FilesInv
  BY FilesInit
<1>2. IInv /\ IInv' /\ FilesInv /\ [HNext]_allvars => FilesInv'
  BY FilesStep
<1>3. IInv /\ FilesInv /\ [HNext]_allvars => [Freed]_record
  <2> SUFFICES ASSUME IInv, FilesInv, [HNext]_allvars, record' # record,
                      record.ticket # None, record'.ticket = None
               PROVE  /\ handoff[record.session].st = "observing-pending-release"
                      /\ handoff[record.session].ticket = record.ticket
    OBVIOUS
  <2>1. PICK p \in Process : HStep(p)
    BY DEF HNext, Rebuild, DebuggerLoads, allvars, vars
  <2>2. Effect(p) /\ JobInv(p) /\ WorkInv(p)
    BY <2>1, RecordEffect DEF IInv, HandoffInv, FilesInv
  <2>3. At(p, "acknowledge") /\ record.ticket = job[p].ticket /\ record.session = Sess(p)
    BY <2>2 DEF Effect
  <2> QED
    BY <2>2, <2>3 DEF JobInv, WorkInv, At, EndSteps, Mine
<1> QED
  BY <1>1, <1>2, <1>3, HInvariance, PTL DEF HSpec, FreedAfterRecorded
=================================================================================
