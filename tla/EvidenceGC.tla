----------------------------- MODULE EvidenceGC -----------------------------
(***************************************************************************)
(* Collecting unreachable evidence (evidence/gc.py).  A plan is made under *)
(* the lock and applied later, perhaps by nobody or by two processes: the  *)
(* digest of the plan, which is a function of the snapshot it was made     *)
(* from, is redeemed in a ledger once and for all; then, under the lock,   *)
(* the planned files are deleted one by one, manifests first, each after   *)
(* another look at the whole store.                                        *)
(***************************************************************************)
EXTENDS EvidenceStore, FiniteSets

CONSTANT MaxPlans   \* bound: snapshots of which plans are made

ASSUME PlansBound == MaxPlans \in Nat

VARIABLES
    planned,        \* the snapshots of which a plan was made: its digests
    ledger,         \* the plan digests that were redeemed
    gc              \* what each process is doing with its plan

gcVars == <<storeVars, planned, ledger, gc>>

-----------------------------------------------------------------------------
GcSteps == {"idle", "planned", "redeemed", "deleting"}

\* seen is the version the store has if only this collector changed it.
Collectors ==
    [step : GcSteps, plan : Nat, deadManifests : SUBSET Envelope,
     deadObjects : SUBSET Object, seen : Nat]
NoPlan == [step |-> "idle", plan |-> 0, deadManifests |-> {},
           deadObjects |-> {}, seen |-> 0]

Step(p) == gc[p].step
Applying(p) == Step(p) \in {"redeemed", "deleting"}

ValidManifests == {e \in Envelope : Valid(e)}

\* The envelopes reached from the roots, present or not.
Visited == Ancestry({roots[k] : k \in RootKey} \ {None}, ValidManifests)

\* Mutant: a manifest that cannot be read hides nothing.
Conservative_TrustsRest == litter

\* What is reachable cannot be told: everything is kept.
Conservative ==
    \/ litter
    \/ \E e \in Envelope : manifests[e] # "absent" /\ ~Valid(e)
    \/ ~(Visited \subseteq ValidManifests)

DeadManifests == IF Conservative THEN {} ELSE ValidManifests \ Visited
DeadObjects ==
    IF Conservative THEN {}
    ELSE {o \in Object : objects[o] = "intact"}
            \ UNION {Artifacts[e] : e \in Visited}

GcInit ==
    /\ StoreInit
    /\ planned = {}
    /\ ledger = {}
    /\ gc = [p \in Process |-> NoPlan]

PlanGc(p) ==
    /\ lock = None
    /\ Step(p) \in {"idle", "planned"}
    /\ gc' = [gc EXCEPT ![p] = [step |-> "planned", plan |-> version,
                                deadManifests |-> DeadManifests,
                                deadObjects |-> DeadObjects,
                                seen |-> version]]
    /\ planned' = planned \cup {version}
    /\ Cardinality(planned') <= MaxPlans
    /\ UNCHANGED <<storeVars, ledger>>

\* Mutant: the ledger is written but not asked.
Redeem_Again(p) ==
    /\ Step(p) = "planned"
    /\ ledger' = ledger \cup {gc[p].plan}
    /\ gc' = [gc EXCEPT ![p].step = "redeemed"]
    /\ UNCHANGED <<storeVars, planned>>

\* The ledger's file for this digest is created, or is there already.
Redeem(p) ==
    /\ Step(p) = "planned"
    /\ ledger' = ledger \cup {gc[p].plan}
    /\ gc' = IF gc[p].plan \in ledger
             THEN [gc EXCEPT ![p] = NoPlan]
             ELSE [gc EXCEPT ![p].step = "redeemed"]
    /\ UNCHANGED <<storeVars, planned>>

\* A copy of a plan, not prepared by this process, is recognised if it still
\* fits the store; it spends the digest and deletes nothing.
RejectCopy ==
    /\ lock = None
    /\ version \in planned
    /\ ledger' = ledger \cup {version}
    /\ UNCHANGED <<storeVars, planned, gc>>

\* The token and the plan digest the caller gave are the right ones and the
\* store is still the one that was planned for.
StartDeleting(p) ==
    /\ Step(p) = "redeemed"
    /\ lock = None
    /\ version = gc[p].plan
    /\ lock' = p
    /\ gc' = [gc EXCEPT ![p].step = "deleting"]
    /\ UNCHANGED <<objects, manifests, roots, litter, version, planned, ledger>>

\* The caller's token or digest is wrong, or the store has changed.
Refuse(p) ==
    /\ Step(p) = "redeemed"
    /\ lock = None
    /\ gc' = [gc EXCEPT ![p] = NoPlan]
    /\ UNCHANGED <<storeVars, planned, ledger>>

\* The store is what the plan saw, less what was deleted since.
Undisturbed(p) == version = gc[p].seen

DeleteManifest(p, e) ==
    /\ Step(p) = "deleting"
    /\ Undisturbed(p)
    /\ e \in gc[p].deadManifests
    /\ manifests' = [manifests EXCEPT ![e] = "absent"]
    /\ gc' = [gc EXCEPT ![p].deadManifests = @ \ {e}, ![p].seen = @ + 1]
    /\ Changed
    /\ UNCHANGED <<objects, roots, litter, lock, planned, ledger>>

\* Mutant: objects need not wait for the manifests that name them.
ObjectsNext_Early(p) == TRUE

ObjectsNext(p) == gc[p].deadManifests = {}

DeleteObject(p, o) ==
    /\ Step(p) = "deleting"
    /\ Undisturbed(p)
    /\ ObjectsNext(p)
    /\ o \in gc[p].deadObjects
    /\ objects' = [objects EXCEPT ![o] = "absent"]
    /\ gc' = [gc EXCEPT ![p].deadObjects = @ \ {o}, ![p].seen = @ + 1]
    /\ Changed
    /\ UNCHANGED <<manifests, roots, litter, lock, planned, ledger>>

\* Everything is deleted, a deletion fails or the store was disturbed.
StopDeleting(p) ==
    /\ Step(p) = "deleting"
    /\ lock' = None
    /\ gc' = [gc EXCEPT ![p] = NoPlan]
    /\ UNCHANGED <<objects, manifests, roots, litter, version, planned, ledger>>

\* A process dies, or cannot write the ledger, and its plan with it, which
\* no other process can execute.
CollectorDies(p) ==
    /\ Step(p) # "idle"
    /\ lock' = IF lock = p THEN None ELSE lock
    /\ gc' = [gc EXCEPT ![p] = NoPlan]
    /\ UNCHANGED <<objects, manifests, roots, litter, version, planned, ledger>>

Collect(p) ==
    \/ PlanGc(p) \/ Redeem(p) \/ StartDeleting(p) \/ Refuse(p)
    \/ \E e \in Envelope : DeleteManifest(p, e)
    \/ \E o \in Object : DeleteObject(p, o)
    \/ StopDeleting(p) \/ CollectorDies(p)

GcNext ==
    \/ StoreNext /\ UNCHANGED <<planned, ledger, gc>>
    \/ \E p \in Process : Collect(p)
    \/ RejectCopy

GcSpec == GcInit /\ [][GcNext]_gcVars

-----------------------------------------------------------------------------
(* Properties.                                                             *)

\* Every variable of the store and of its collector has its type.
GcTypeOK ==
    /\ StoreTypes
    /\ planned \subseteq Nat /\ ledger \subseteq Nat
    /\ gc \in [Process -> Collectors]

\* Evidence that is whole behind its root stays whole and stays behind that
\* root, whatever is published, damaged, rooted without the lock or
\* interrupted while a collection is planned, redeemed and applied.
EvidenceKept ==
    [][\A k \in RootKey : roots[k] # None /\ Whole(k) =>
          roots'[k] = roots[k] /\ Whole(k)']_gcVars

\* An envelope in the store never names an object that was collected, even
\* if a collection was cut short: objects go after the manifests.
ManifestsBacked ==
    \A e \in Envelope : manifests[e] # "absent" =>
        \A o \in Artifacts[e] : objects[o] # "absent"

\* The envelope a root names is in the store with its objects.
RootsBacked ==
    \A k \in RootKey : roots[k] # None =>
        /\ manifests[roots[k]] # "absent"
        /\ \A o \in Artifacts[roots[k]] : objects[o] # "absent"

\* Nothing in the store dangles, whoever deletes, dies or publishes.
StoreBacked == ManifestsBacked /\ RootsBacked

\* One plan is executed by one process, once: no two processes get past the
\* ledger with the same plan, and none whose plan was redeemed before.
RedeemedOnce ==
    /\ \A p, q \in Process :
          p # q /\ Applying(p) /\ Applying(q) => gc[p].plan # gc[q].plan
    /\ \A p \in Process : Applying(p) => gc[p].plan \in ledger

\* A plan that fits the store lists exactly the garbage of the store, also
\* between the deletions; the process that deletes holds the lock.
PlanFresh ==
    \A p \in Process : Step(p) # "idle" =>
        /\ gc[p].seen <= version
        /\ IF Step(p) = "deleting" THEN lock = p ELSE gc[p].seen = gc[p].plan
        /\ Undisturbed(p) => /\ gc[p].deadManifests = DeadManifests
                             /\ gc[p].deadObjects = DeadObjects

\* What is deleted is not reachable from any root, even from one that was
\* published without the lock after the plan was made; and as long as
\* something in the store cannot be read, nothing is deleted.
DeletesGarbageOnly ==
    [][/\ \A e \in Envelope : manifests[e] # "absent" /\ manifests'[e] = "absent" =>
              e \in DeadManifests
       /\ \A o \in Object : objects[o] # "absent" /\ objects'[o] = "absent" =>
              o \in DeadObjects]_gcVars
=============================================================================
