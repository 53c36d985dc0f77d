----------------------------- MODULE ProjectUpgrade ----------------------------
(***************************************************************************)
(* project_upgrade.py: the user's manifest is brought to the next schema   *)
(* version by a planned action that is consumed before anything about it   *)
(* is checked, and published by exchanging two files and looking at what   *)
(* was displaced: if it is not what the plan saw, it is put back.          *)
(***************************************************************************)
EXTENDS ProjectTree

VARIABLES
    prepared,  \* prepared[p]: the manifest p's registered plan saw, or None
    consumed,  \* consumed[l]: actions that ledger l has a record of
    ready,     \* the first ledger can be used (else somebody's file is in its way)
    upgrade,   \* upgrade[p]: how far p's apply is, and what it displaced
    verdict    \* verdict[p]: what p's last apply reported

upVars == <<prepared, consumed, ready, upgrade, verdict>>

Ledger == {"first", "second"}
Inactive == [at |-> "idle", displaced |-> None]

UpTypeOK ==
    /\ prepared \in [Process -> Model \cup {None}]
    /\ consumed \in [Ledger -> SUBSET Model]
    /\ ready \in BOOLEAN
    /\ upgrade \in [Process -> [at : {"idle", "consume", "check", "publish", "compare", "restore"},
                                displaced : Model \cup {None}]]
    /\ verdict \in [Process -> {None, "upgraded", "consumed", "refused", "changed", "failed"}]

UpInit ==
    /\ prepared = [p \in Process |-> None]
    /\ consumed = [l \in Ledger |-> {}]
    /\ ready \in BOOLEAN
    /\ upgrade = [p \in Process |-> Inactive]
    /\ verdict = [p \in Process |-> None]

(* The candidate: the same text under the next schema version.             *)
Candidate(m) == [m EXCEPT !.version = 3]

(* Whatever was in the way of the first ledger is removed.                 *)
LedgerReady ==
    /\ ~ready
    /\ ready' = TRUE
    /\ UNCHANGED <<treeVars, prepared, consumed, upgrade, verdict>>

(* An upgrade is planned: read-only.  The action's digest is a function of *)
(* the manifest it saw; the plan is registered in this process only.       *)
PlanUpgrade(p) ==
    /\ upgrade[p].at = "idle" /\ file[UserManifest].version = 2
    /\ prepared' = [prepared EXCEPT ![p] = file[UserManifest]]
    /\ verdict' = [verdict EXCEPT ![p] = None]
    /\ UNCHANGED <<treeVars, consumed, ready, upgrade>>

Conclude(p, outcome) ==
    /\ upgrade' = [upgrade EXCEPT ![p] = Inactive]
    /\ verdict' = [verdict EXCEPT ![p] = outcome]
    /\ prepared' = [prepared EXCEPT ![p] = None]
    /\ Unlock(p)

(* The registered plan is marked used in memory, and the lock is taken.    *)
BeginUpgrade(p) ==
    /\ prepared[p] # None /\ upgrade[p].at = "idle"
    /\ Lock(p)
    /\ upgrade' = [upgrade EXCEPT ![p].at = "consume"]
    /\ UNCHANGED <<file, texts, draft, prepared, consumed, ready, verdict>>

(* _consume: an action either ledger has a record of is refused; else the  *)
(* record is written to the first ledger that takes it.                    *)
Consumed_OneLedger(m) == m \in consumed[IF ready THEN "first" ELSE "second"]
Consumed(m) == \E l \in Ledger : (l = "first" => ready) /\ m \in consumed[l]

Consume(p) ==
    /\ upgrade[p].at = "consume"
    /\ \/ /\ Consumed(prepared[p])
          /\ Conclude(p, "consumed")
          /\ UNCHANGED consumed
       \/ /\ ~Consumed(prepared[p])
          /\ consumed' = [consumed EXCEPT ![IF ready THEN "first" ELSE "second"] =
                                            @ \cup {prepared[p]}]
          /\ upgrade' = [upgrade EXCEPT ![p].at = "check"]
          /\ UNCHANGED <<prepared, verdict, lock, commands>>
    /\ UNCHANGED <<file, texts, draft, ready>>

(* The caller's authorization or plan digest is not the plan's, or the     *)
(* manifest is not what the plan saw.                                      *)
RefuseUpgrade(p) ==
    /\ upgrade[p].at = "check"
    /\ \/ Conclude(p, "refused")
       \/ file[UserManifest] # prepared[p] /\ Conclude(p, "changed")
    /\ UNCHANGED <<file, texts, draft, consumed, ready>>

CheckUpgrade(p) ==
    /\ upgrade[p].at = "check" /\ file[UserManifest] = prepared[p]
    /\ upgrade' = [upgrade EXCEPT ![p].at = "publish"]
    /\ UNCHANGED <<treeVars, prepared, consumed, ready, verdict>>

(* The candidate is written beside the manifest and the two are exchanged  *)
(* in one step; whatever was at the path is now beside it.                 *)
Exchange(p) ==
    /\ upgrade[p].at = "publish"
    /\ file' = [file EXCEPT ![UserManifest] = Candidate(prepared[p])]
    /\ upgrade' = [upgrade EXCEPT ![p] = [at |-> "compare", displaced |-> file[UserManifest]]]
    /\ UNCHANGED <<texts, draft, lock, commands, prepared, consumed, ready, verdict>>

ExchangeFails(p) ==
    /\ upgrade[p].at = "publish"
    /\ Conclude(p, "failed")
    /\ UNCHANGED <<file, texts, draft, consumed, ready>>

(* What was displaced is compared with what the plan saw.                  *)
Compare(p) ==
    /\ upgrade[p].at = "compare"
    /\ IF upgrade[p].displaced = prepared[p]
       THEN Conclude(p, "upgraded")
       ELSE /\ upgrade' = [upgrade EXCEPT ![p].at = "restore"]
            /\ UNCHANGED <<prepared, verdict, lock, commands>>
    /\ UNCHANGED <<file, texts, draft, consumed, ready>>

(* The displaced manifest is exchanged back.  What is at the path by then  *)
(* is deleted; if the exchange fails (and on Windows a plain replacement   *)
(* after it), the displaced manifest is deleted with the temporary files.  *)
PutBack(p) ==
    /\ upgrade[p].at = "restore"
    /\ file' = [file EXCEPT ![UserManifest] = upgrade[p].displaced]
    /\ Conclude(p, "changed")
    /\ UNCHANGED <<texts, draft, consumed, ready>>

PutBackFails(p) ==
    /\ upgrade[p].at = "restore"
    /\ Conclude(p, "failed")
    /\ UNCHANGED <<file, texts, draft, consumed, ready>>

CrashInUpgrade(p) ==
    /\ upgrade[p].at # "idle"
    /\ Conclude(p, None)
    /\ UNCHANGED <<file, texts, draft, consumed, ready>>

UpgradeStep(p) ==
    \/ PlanUpgrade(p) \/ BeginUpgrade(p) \/ Consume(p)
    \/ RefuseUpgrade(p) \/ CheckUpgrade(p)
    \/ Exchange(p) \/ ExchangeFails(p) \/ Compare(p)
    \/ PutBack(p) \/ PutBackFails(p) \/ CrashInUpgrade(p)
================================================================================
