-------------------------- MODULE EvidenceGCProofs --------------------------
(***************************************************************************)
(* Proofs about EvidenceGC for every set of processes, objects, envelopes  *)
(* and roots, and every ancestry among the envelopes.                      *)
(*                                                                         *)
(* The argument: the version stands for the snapshot.  While it is the one *)
(* a plan was made of, the plan lists exactly the garbage of the store;    *)
(* deleting an envelope of the garbage neither makes an envelope reachable *)
(* nor hides one, and objects are deleted only when no envelope that names *)
(* them is left.                                                           *)
(***************************************************************************)
EXTENDS EvidenceGC, TLAPS

-----------------------------------------------------------------------------
(* Ancestry.                                                               *)

\* What starts an ancestry is in it, and so are the parents of the readable
\* envelopes in it.
LEMMA AncestryClosed ==
  ASSUME NEW start \in SUBSET Envelope, NEW readable
  PROVE  /\ start \subseteq Ancestry(start, readable)
         /\ Ancestry(start, readable) \subseteq Envelope
         /\ \A f \in Ancestry(start, readable) \cap readable :
               Parents[f] \subseteq Ancestry(start, readable)
<1>1. \A f \in Envelope : Parents[f] \subseteq Envelope
  BY ParentsAreEnvelopes
<1>2. ASSUME NEW f \in Ancestry(start, readable) \cap readable,
             NEW e \in Parents[f]
      PROVE  e \in Ancestry(start, readable)
  <2>1. f \in Envelope /\ e \in Envelope
    BY <1>1, <1>2 DEF Ancestry
  <2>2. ASSUME NEW closed \in SUBSET Envelope,
               start \subseteq closed,
               \A g \in closed \cap readable : Parents[g] \subseteq closed
        PROVE  e \in closed
    BY <1>2, <2>2 DEF Ancestry
  <2> QED
    BY <2>1, <2>2 DEF Ancestry
<1> QED
  BY <1>2 DEF Ancestry

\* It is the least such set.
LEMMA AncestryLeast ==
  ASSUME NEW start, NEW readable, NEW closed \in SUBSET Envelope,
         start \subseteq closed,
         \A f \in closed \cap readable : Parents[f] \subseteq closed
  PROVE  Ancestry(start, readable) \subseteq closed
  BY DEF Ancestry

\* An envelope that is not in an ancestry may become unreadable without
\* changing it.
LEMMA AncestryWithout ==
  ASSUME NEW start \in SUBSET Envelope, NEW readable, NEW less,
         less \subseteq readable,
         readable \cap Ancestry(start, readable) \subseteq less
  PROVE  Ancestry(start, less) = Ancestry(start, readable)
<1> DEFINE A == Ancestry(start, readable)
           B == Ancestry(start, less)
<1>1. B \subseteq A
  <2>1. start \subseteq A /\ A \subseteq Envelope
        /\ \A f \in A \cap readable : Parents[f] \subseteq A
    BY AncestryClosed
  <2>2. \A f \in A \cap less : Parents[f] \subseteq A
    BY <2>1
  <2> HIDE DEF A
  <2> QED
    BY <2>1, <2>2, AncestryLeast
<1>2. A \subseteq B
  <2>1. start \subseteq B /\ B \subseteq Envelope
        /\ \A f \in B \cap less : Parents[f] \subseteq B
    BY AncestryClosed
  <2>2. \A f \in B \cap readable : Parents[f] \subseteq B
    <3>1. \A f \in B \cap readable : f \in less
      BY <1>1
    <3> QED
      BY <2>1, <3>1
  <2> HIDE DEF B
  <2> QED
    BY <2>1, <2>2, AncestryLeast
<1> QED
  BY <1>1, <1>2

-----------------------------------------------------------------------------
(* Type correctness.                                                       *)

LEMMA StoreTyped ==
  ASSUME StoreTypes, StoreNext
  PROVE  StoreTypes'
<1> USE DEF StoreTypes, FileStates, Changed
<1>1. ASSUME NEW o \in Object, Ingest(o) PROVE StoreTypes'
  BY <1>1 DEF Ingest
<1>2. ASSUME NEW e \in Envelope, PutEnvelope(e) PROVE StoreTypes'
  BY <1>2 DEF PutEnvelope
<1>3. ASSUME NEW k \in RootKey, NEW e \in Envelope, PutRoot(k, e)
      PROVE  StoreTypes'
  BY <1>3 DEF PutRoot
<1>4. CASE PublisherDies
  <2>1. litter \in BOOLEAN
    OBVIOUS
  <2>2. litter' \in BOOLEAN
    BY <1>4, <2>1, Zenon DEF PublisherDies
  <2>3. /\ objects' \in [Object -> FileStates]
        /\ manifests' \in [Envelope -> FileStates]
        /\ roots' \in [RootKey -> Envelope \cup {None}]
        /\ version' \in Nat /\ lock' \in Process \cup {None}
    BY <1>4 DEF PublisherDies
  <2> QED
    BY <2>2, <2>3
<1>5. CASE Outsider
  <2>1. objects' \in [Object -> FileStates]
    BY <1>5 DEF Outsider
  <2>2. manifests' \in [Envelope -> FileStates]
    BY <1>5 DEF Outsider
  <2>3. roots' \in [RootKey -> Envelope \cup {None}]
    BY <1>5 DEF Outsider
  <2> QED
    BY <1>5, <2>1, <2>2, <2>3 DEF Outsider
<1> QED
  BY <1>1, <1>2, <1>3, <1>4, <1>5 DEF StoreNext

\* What the collector of a step does to the record of its process.
LEMMA CollectorTyped ==
  ASSUME gc \in [Process -> Collectors], StoreTypes, NEW p \in Process, Collect(p)
  PROVE  gc' \in [Process -> Collectors]
<1>1. NoPlan \in Collectors
  BY DEF NoPlan, Collectors, GcSteps
<1>2. gc[p] \in Collectors
  OBVIOUS
<1>3. CASE PlanGc(p)
  <2>1. DeadManifests \subseteq Envelope /\ DeadObjects \subseteq Object
    BY DEF DeadManifests, DeadObjects, ValidManifests
  <2>2. [step |-> "planned", plan |-> version, deadManifests |-> DeadManifests,
         deadObjects |-> DeadObjects, seen |-> version] \in Collectors
    BY <2>1 DEF Collectors, GcSteps, StoreTypes
  <2> QED
    BY <1>3, <2>2 DEF PlanGc
<1>4. CASE Redeem(p)
  <2>1. [gc[p] EXCEPT !.step = "redeemed"] \in Collectors
    BY <1>2 DEF Collectors, GcSteps
  <2> QED
    BY <1>1, <1>4, <2>1 DEF Redeem
<1>5. CASE StartDeleting(p)
  <2>1. [gc[p] EXCEPT !.step = "deleting"] \in Collectors
    BY <1>2 DEF Collectors, GcSteps
  <2> QED
    BY <1>5, <2>1 DEF StartDeleting
<1>6. CASE Refuse(p) \/ StopDeleting(p) \/ CollectorDies(p)
  BY <1>1, <1>6 DEF Refuse, StopDeleting, CollectorDies
<1>7. ASSUME NEW e \in Envelope, DeleteManifest(p, e)
      PROVE  gc' \in [Process -> Collectors]
  <2>1. [gc[p] EXCEPT !.deadManifests = @ \ {e}] \in Collectors
    BY <1>2 DEF Collectors
  <2>2. gc[p].seen + 1 \in Nat
    BY <1>2 DEF Collectors
  <2>3. [gc[p] EXCEPT !.deadManifests = @ \ {e}, !.seen = @ + 1] \in Collectors
    BY <1>2, <2>1, <2>2 DEF Collectors
  <2> QED
    BY <1>7, <2>3 DEF DeleteManifest
<1>8. ASSUME NEW o \in Object, DeleteObject(p, o)
      PROVE  gc' \in [Process -> Collectors]
  <2>1. [gc[p] EXCEPT !.deadObjects = @ \ {o}] \in Collectors
    BY <1>2 DEF Collectors
  <2>2. gc[p].seen + 1 \in Nat
    BY <1>2 DEF Collectors
  <2>3. [gc[p] EXCEPT !.deadObjects = @ \ {o}, !.seen = @ + 1] \in Collectors
    BY <1>2, <2>1, <2>2 DEF Collectors
  <2> QED
    BY <1>8, <2>3 DEF DeleteObject
<1> QED
  BY <1>3, <1>4, <1>5, <1>6, <1>7, <1>8 DEF Collect

LEMMA GcTyped ==
  ASSUME GcTypeOK, [GcNext]_gcVars
  PROVE  GcTypeOK'
<1>1. CASE StoreNext /\ UNCHANGED <<planned, ledger, gc>>
  BY <1>1, StoreTyped DEF GcTypeOK
<1>2. ASSUME NEW p \in Process, Collect(p)
      PROVE  GcTypeOK'
  <2>1. gc' \in [Process -> Collectors]
    BY <1>2, CollectorTyped DEF GcTypeOK
  <2>2. StoreTypes'
    <3> USE DEF GcTypeOK, StoreTypes, FileStates
    <3>1. CASE PlanGc(p) \/ Redeem(p) \/ Refuse(p)
      BY <3>1 DEF PlanGc, Redeem, Refuse, storeVars
    <3>2. CASE StartDeleting(p) \/ StopDeleting(p) \/ CollectorDies(p)
      BY <3>2 DEF StartDeleting, StopDeleting, CollectorDies
    <3>3. ASSUME NEW e \in Envelope, DeleteManifest(p, e) PROVE StoreTypes'
      BY <3>3 DEF DeleteManifest, Changed
    <3>4. ASSUME NEW o \in Object, DeleteObject(p, o) PROVE StoreTypes'
      BY <3>4 DEF DeleteObject, Changed
    <3> QED
      BY <1>2, <3>1, <3>2, <3>3, <3>4 DEF Collect
  <2>3. planned' \subseteq Nat /\ ledger' \subseteq Nat
    <3> USE DEF GcTypeOK, StoreTypes
    <3>1. CASE PlanGc(p)
      BY <3>1 DEF PlanGc
    <3>2. CASE Redeem(p)
      <4>1. gc[p].plan \in Nat
        BY DEF Collectors
      <4> QED
        BY <3>2, <4>1 DEF Redeem
    <3>3. CASE planned' = planned /\ ledger' = ledger
      BY <3>3
    <3> QED
      BY <1>2, <3>1, <3>2, <3>3 DEF Collect, StartDeleting, Refuse, DeleteManifest,
         DeleteObject, StopDeleting, CollectorDies
  <2> QED
    BY <2>1, <2>2, <2>3 DEF GcTypeOK
<1>3. CASE RejectCopy
  BY <1>3 DEF RejectCopy, storeVars, GcTypeOK, StoreTypes
<1>4. CASE UNCHANGED gcVars
  BY <1>4 DEF gcVars, storeVars, GcTypeOK, StoreTypes
<1> QED
  BY <1>1, <1>2, <1>3, <1>4 DEF GcNext

LEMMA GcInitTyped == GcInit => GcTypeOK
<1>1. NoPlan \in Collectors
  BY DEF NoPlan, Collectors, GcSteps
<1>2. SUFFICES ASSUME GcInit PROVE GcTypeOK
  OBVIOUS
<1>3. litter \in BOOLEAN
  BY <1>2 DEF GcInit, StoreInit
<1>4. objects \in [Object -> FileStates] /\ manifests \in [Envelope -> FileStates]
  BY <1>2 DEF GcInit, StoreInit, FileStates
<1>5. roots \in [RootKey -> Envelope \cup {None}] /\ version \in Nat
      /\ lock \in Process \cup {None}
  BY <1>2 DEF GcInit, StoreInit
<1>6. gc \in [Process -> Collectors] /\ planned \subseteq Nat /\ ledger \subseteq Nat
  BY <1>1, <1>2 DEF GcInit
<1> QED
  BY <1>3, <1>4, <1>5, <1>6 DEF GcTypeOK, StoreTypes

\* Every variable of the store and of its collector keeps its type.
THEOREM GcTypeCorrect == GcSpec => []GcTypeOK
  BY GcInitTyped, GcTyped, PTL DEF GcSpec

-----------------------------------------------------------------------------
(* What garbage is, and what deleting some of it leaves.                   *)

LEMMA VisitedFacts ==
  ASSUME StoreTypes
  PROVE  /\ Visited \subseteq Envelope
         /\ {roots[k] : k \in RootKey} \ {None} \subseteq Visited
         /\ \A f \in Visited \cap ValidManifests : Parents[f] \subseteq Visited
<1>1. {roots[k] : k \in RootKey} \ {None} \in SUBSET Envelope
  BY DEF StoreTypes
<1> QED
  BY <1>1, AncestryClosed DEF Visited

\* Where there is garbage, every envelope in the store can be read and what
\* the roots reach is all there.
LEMMA GarbageFacts ==
  ASSUME DeadManifests # {} \/ DeadObjects # {}
  PROVE  /\ ~Conservative
         /\ \A e \in Envelope : manifests[e] # "absent" => Valid(e)
         /\ Visited \subseteq ValidManifests
         /\ DeadManifests = ValidManifests \ Visited
         /\ \A o \in DeadObjects : \A e \in Visited : o \notin Artifacts[e]
  BY DEF DeadManifests, DeadObjects, Conservative

\* Deleting a garbage envelope takes it from the garbage and nothing else.
LEMMA ManifestGone ==
  ASSUME StoreTypes, NEW e \in DeadManifests,
         manifests' = [manifests EXCEPT ![e] = "absent"],
         UNCHANGED <<objects, roots, litter>>
  PROVE  /\ DeadManifests' = DeadManifests \ {e}
         /\ DeadObjects' = DeadObjects
<1>1. /\ ~Conservative
      /\ \A f \in Envelope : manifests[f] # "absent" => Valid(f)
      /\ Visited \subseteq ValidManifests
      /\ DeadManifests = ValidManifests \ Visited
  BY GarbageFacts
<1>2. e \in Envelope /\ e \notin Visited
  BY <1>1 DEF ValidManifests
<1>3. \A f \in Envelope : Valid(f)' <=> Valid(f) /\ f # e
  BY <1>2 DEF Valid, StoreTypes
<1>4. ValidManifests' = ValidManifests \ {e}
  BY <1>3 DEF ValidManifests
<1>5. Visited' = Visited
  <2> DEFINE start == {roots[k] : k \in RootKey} \ {None}
  <2>1. start \in SUBSET Envelope
    BY DEF StoreTypes
  <2>2. ValidManifests \cap Ancestry(start, ValidManifests)
           \subseteq ValidManifests \ {e}
    BY <1>2 DEF Visited
  <2>3. Ancestry(start, ValidManifests \ {e}) = Ancestry(start, ValidManifests)
    <3> HIDE DEF start
    <3> QED
      BY <2>1, <2>2, AncestryWithout
  <2>4. Visited' = Ancestry(start, ValidManifests')
    BY DEF Visited, Ancestry
  <2> QED
    BY <1>4, <2>3, <2>4 DEF Visited
<1>6. ~Conservative'
  <2>1. \A f \in Envelope : manifests'[f] # "absent" => manifests[f] # "absent" /\ f # e
    BY <1>2 DEF StoreTypes
  <2>2. \A f \in Envelope : manifests'[f] # "absent" => Valid(f)'
    BY <1>1, <1>3, <2>1
  <2>3. Visited' \subseteq ValidManifests'
    BY <1>1, <1>2, <1>4, <1>5
  <2>4. ~litter'
    BY <1>1 DEF Conservative
  <2> QED
    BY <2>2, <2>3, <2>4 DEF Conservative
<1>7. DeadManifests' = DeadManifests \ {e}
  BY <1>1, <1>4, <1>5, <1>6 DEF DeadManifests
<1>8. DeadObjects' = DeadObjects
  BY <1>1, <1>5, <1>6 DEF DeadObjects
<1> QED
  BY <1>7, <1>8

\* Once the garbage envelopes are deleted, no envelope names a garbage
\* object, and deleting one takes it from the garbage and nothing else.
LEMMA ObjectGone ==
  ASSUME StoreTypes, DeadManifests = {}, NEW o \in DeadObjects,
         objects' = [objects EXCEPT ![o] = "absent"],
         UNCHANGED <<manifests, roots, litter>>
  PROVE  /\ DeadManifests' = {}
         /\ DeadObjects' = DeadObjects \ {o}
         /\ \A e \in Envelope : manifests[e] # "absent" => o \notin Artifacts[e]
<1>1. /\ ~Conservative
      /\ \A f \in Envelope : manifests[f] # "absent" => Valid(f)
      /\ Visited \subseteq ValidManifests
      /\ ValidManifests \subseteq Visited
      /\ \A f \in Visited : o \notin Artifacts[f]
  BY GarbageFacts
<1>2. o \in Object
  BY <1>1 DEF DeadObjects
<1>3. \A f \in Envelope : manifests[f] # "absent" => o \notin Artifacts[f]
  BY <1>1 DEF ValidManifests
<1>4. \A f \in Envelope : Valid(f)' <=> Valid(f)
  <2>1. ASSUME NEW f \in Envelope, o \notin Artifacts[f]
        PROVE  \A x \in Artifacts[f] : objects'[x] = objects[x]
    BY <2>1, ArtifactsAreObjects DEF StoreTypes
  <2> QED
    BY <1>3, <2>1 DEF Valid
<1>5. ValidManifests' = ValidManifests
  BY <1>4 DEF ValidManifests
<1>6. Visited' = Visited
  BY <1>5 DEF Visited, Ancestry
<1>7. ~Conservative'
  <2>1. \A f \in Envelope : manifests'[f] # "absent" => Valid(f)'
    BY <1>1, <1>4
  <2>2. ~litter'
    BY <1>1 DEF Conservative
  <2> QED
    BY <1>1, <1>5, <1>6, <2>1, <2>2 DEF Conservative
<1>8. DeadManifests' = {}
  BY <1>1, <1>5, <1>6, <1>7 DEF DeadManifests
<1>9. DeadObjects' = DeadObjects \ {o}
  <2>1. {x \in Object : objects'[x] = "intact"}
           = {x \in Object : objects[x] = "intact"} \ {o}
    BY <1>2 DEF StoreTypes
  <2> QED
    BY <1>1, <1>6, <1>7, <2>1 DEF DeadObjects
<1> QED
  BY <1>3, <1>8, <1>9

-----------------------------------------------------------------------------
(* The inductive invariant: the plans are fresh, the ledger knows what is  *)
(* being applied, and every envelope is backed by its objects.             *)

GcInv == GcTypeOK /\ PlanFresh /\ RedeemedOnce /\ ManifestsBacked /\ RootsBacked

\* Garbage is a matter of the files only.
LEMMA GarbageStays ==
  ASSUME UNCHANGED <<objects, manifests, roots, litter>>
  PROVE  DeadManifests' = DeadManifests /\ DeadObjects' = DeadObjects
<1>1. Conservative' <=> Conservative
  BY DEF Conservative, ValidManifests, Valid, Visited, Ancestry
<1>2. ValidManifests' = ValidManifests /\ Visited' = Visited
  BY DEF ValidManifests, Valid, Visited, Ancestry
<1> QED
  BY <1>1, <1>2 DEF DeadManifests, DeadObjects

\* What a process's plan says of the store does not change with the steps of
\* others that leave its record alone.
LEMMA FreshElsewhere ==
  ASSUME GcTypeOK, PlanFresh, NEW q \in Process, gc'[q] = gc[q],
         \/ version' = version + 1
         \/ UNCHANGED <<objects, manifests, roots, litter, version>>,
         lock = q => lock' = q
  PROVE  Step(q)' # "idle" =>
            /\ gc'[q].seen <= version'
            /\ IF Step(q)' = "deleting" THEN lock' = q ELSE gc'[q].seen = gc'[q].plan
            /\ Undisturbed(q)' => /\ gc'[q].deadManifests = DeadManifests'
                                  /\ gc'[q].deadObjects = DeadObjects'
<1>1. version \in Nat /\ gc[q].seen \in Nat
  BY DEF GcTypeOK, StoreTypes, Collectors
<1>2. CASE version' = version + 1
  BY <1>1, <1>2 DEF PlanFresh, Step, Undisturbed
<1>3. CASE UNCHANGED <<objects, manifests, roots, litter, version>>
  <2>1. DeadManifests' = DeadManifests /\ DeadObjects' = DeadObjects
    BY <1>3, GarbageStays
  <2> QED
    BY <1>1, <1>3, <2>1 DEF PlanFresh, Step, Undisturbed
<1> QED
  BY <1>2, <1>3

\* A collector deletes garbage only.
LEMMA DeletesGarbage ==
  ASSUME PlanFresh, NEW p \in Process
  PROVE  /\ \A e \in Envelope : DeleteManifest(p, e) => e \in DeadManifests
         /\ \A o \in Object : DeleteObject(p, o) =>
               DeadManifests = {} /\ o \in DeadObjects
  BY DEF PlanFresh, DeleteManifest, DeleteObject, ObjectsNext

LEMMA FreshKept ==
  ASSUME GcTypeOK, PlanFresh, [GcNext]_gcVars
  PROVE  PlanFresh'
<1> DEFINE Fresh(q) ==
      Step(q) # "idle" =>
        /\ gc[q].seen <= version
        /\ IF Step(q) = "deleting" THEN lock = q ELSE gc[q].seen = gc[q].plan
        /\ Undisturbed(q) => /\ gc[q].deadManifests = DeadManifests
                             /\ gc[q].deadObjects = DeadObjects
<1>0. SUFFICES ASSUME NEW q \in Process PROVE Fresh(q)'
  BY DEF PlanFresh
<1>1. CASE StoreNext /\ UNCHANGED <<planned, ledger, gc>>
  <2>1. version' = version + 1 /\ lock' = lock
    BY <1>1 DEF StoreNext, Ingest, PutEnvelope, PutRoot, PublisherDies, Outsider,
       Changed
  <2> QED
    BY <1>1, <2>1, FreshElsewhere
<1>2. CASE RejectCopy \/ UNCHANGED gcVars
  <2>1. gc'[q] = gc[q] /\ UNCHANGED storeVars
    BY <1>2 DEF RejectCopy, gcVars
  <2> QED
    BY <2>1, FreshElsewhere DEF storeVars
<1>3. ASSUME NEW p \in Process, Collect(p)
      PROVE  Fresh(q)'
  <2>0. /\ gc \in [Process -> Collectors] /\ version \in Nat
        /\ gc[p].seen \in Nat /\ gc[p].plan \in Nat /\ None \notin Process
    BY NoneIsNothing DEF GcTypeOK, StoreTypes, Collectors
  <2>1. CASE q # p
    <3>1. gc'[q] = gc[q]
      BY <1>3, <2>1, <2>0 DEF Collect, PlanGc, Redeem, StartDeleting, Refuse,
         DeleteManifest, DeleteObject, StopDeleting, CollectorDies
    <3>2. \/ version' = version + 1
          \/ UNCHANGED <<objects, manifests, roots, litter, version>>
      BY <1>3 DEF Collect, PlanGc, Redeem, StartDeleting, Refuse,
         DeleteManifest, DeleteObject, StopDeleting, CollectorDies, Changed, storeVars
    <3>3. lock = q => lock' = q
      <4>1. ASSUME StopDeleting(p) PROVE lock = p
        BY <4>1 DEF StopDeleting, PlanFresh
      <4> QED
        BY <1>3, <2>0, <2>1, <4>1 DEF Collect, PlanGc, Redeem, StartDeleting, Refuse,
           DeleteManifest, DeleteObject, StopDeleting, CollectorDies, storeVars
    <3> QED
      BY <3>1, <3>2, <3>3, FreshElsewhere
  <2>2. CASE q = p
    <3>1. CASE Refuse(p) \/ StopDeleting(p) \/ CollectorDies(p)
      <4>1. gc'[p].step = "idle"
        BY <3>1, <2>0 DEF Refuse, StopDeleting, CollectorDies, NoPlan
      <4> QED
        BY <2>2, <4>1 DEF Step
    <3>2. CASE PlanGc(p)
      <4>1. gc'[p] = [step |-> "planned", plan |-> version,
                      deadManifests |-> DeadManifests, deadObjects |-> DeadObjects,
                      seen |-> version]
        BY <3>2, <2>0 DEF PlanGc
      <4>2. DeadManifests' = DeadManifests /\ DeadObjects' = DeadObjects
        BY <3>2, GarbageStays DEF PlanGc, storeVars
      <4> QED
        BY <2>0, <2>2, <3>2, <4>1, <4>2 DEF PlanGc, storeVars, Step
    <3>3. CASE Redeem(p) \/ StartDeleting(p)
      <4>1. DeadManifests' = DeadManifests /\ DeadObjects' = DeadObjects
            /\ version' = version
        BY <3>3, GarbageStays DEF Redeem, StartDeleting, storeVars
      <4>2. Fresh(p) /\ Step(p) \in {"planned", "redeemed"}
        BY <3>3 DEF PlanFresh, Redeem, StartDeleting
      <4>3. /\ gc'[p].seen = gc[p].seen /\ gc'[p].plan = gc[p].plan
            /\ gc'[p].deadManifests = gc[p].deadManifests
            /\ gc'[p].deadObjects = gc[p].deadObjects
            /\ \/ gc'[p].step = "redeemed"
               \/ gc'[p].step = "deleting" /\ lock' = p
         \/ gc'[p].step = "idle"
        BY <3>3, <2>0 DEF Redeem, StartDeleting, NoPlan, Collectors
      <4> QED
        BY <2>2, <4>1, <4>2, <4>3 DEF Step, Undisturbed
    <3>4. ASSUME NEW e \in Envelope, DeleteManifest(p, e) PROVE Fresh(p)'
      <4>1. e \in DeadManifests /\ gc[p].deadManifests = DeadManifests
            /\ gc[p].deadObjects = DeadObjects /\ version = gc[p].seen /\ lock = p
        BY <3>4, DeletesGarbage DEF PlanFresh, DeleteManifest, Undisturbed
      <4>2. DeadManifests' = DeadManifests \ {e} /\ DeadObjects' = DeadObjects
        BY <3>4, <4>1, ManifestGone DEF DeleteManifest, GcTypeOK
      <4>3. /\ gc'[p].step = "deleting" /\ gc'[p].seen = gc[p].seen + 1
            /\ gc'[p].deadManifests = gc[p].deadManifests \ {e}
            /\ gc'[p].deadObjects = gc[p].deadObjects
        BY <3>4, <2>0 DEF DeleteManifest, Step, Collectors
      <4>4. version' = version + 1 /\ lock' = lock
        BY <3>4 DEF DeleteManifest, Changed
      <4> QED
        BY <2>0, <4>1, <4>2, <4>3, <4>4 DEF Step
    <3>5. ASSUME NEW o \in Object, DeleteObject(p, o) PROVE Fresh(p)'
      <4>1. DeadManifests = {} /\ o \in DeadObjects
            /\ gc[p].deadManifests = DeadManifests
            /\ gc[p].deadObjects = DeadObjects /\ version = gc[p].seen /\ lock = p
        BY <3>5, DeletesGarbage DEF PlanFresh, DeleteObject, Undisturbed
      <4>2. DeadManifests' = {} /\ DeadObjects' = DeadObjects \ {o}
        BY <3>5, <4>1, ObjectGone DEF DeleteObject, GcTypeOK
      <4>3. /\ gc'[p].step = "deleting" /\ gc'[p].seen = gc[p].seen + 1
            /\ gc'[p].deadManifests = gc[p].deadManifests
            /\ gc'[p].deadObjects = gc[p].deadObjects \ {o}
        BY <3>5, <2>0 DEF DeleteObject, Step, Collectors
      <4>4. version' = version + 1 /\ lock' = lock
        BY <3>5 DEF DeleteObject, Changed
      <4> QED
        BY <2>0, <4>1, <4>2, <4>3, <4>4 DEF Step
    <3> QED
      BY <1>3, <2>2, <3>1, <3>2, <3>3, <3>4, <3>5 DEF Collect
  <2> QED
    BY <2>1, <2>2
<1> QED
  BY <1>1, <1>2, <1>3 DEF GcNext

\* What a step of the evidence system does to the files: it deletes one
\* garbage envelope, or one garbage object that no envelope names, or none,
\* and no root changes that names an envelope.
LEMMA FilesStep ==
  ASSUME GcTypeOK, PlanFresh, [GcNext]_gcVars
  PROVE  /\ \A k \in RootKey : roots[k] # None => roots'[k] = roots[k]
         /\ \A e \in Envelope : manifests[e] # "absent" /\ manifests'[e] = "absent" =>
               e \in DeadManifests
         /\ \A o \in Object : objects[o] # "absent" /\ objects'[o] = "absent" =>
               o \in DeadObjects
         /\ \A o \in Object : objects[o] # "absent" /\ objects'[o] = "absent" =>
               /\ DeadManifests = {}
               /\ manifests' = manifests
         /\ \A e \in Envelope : manifests[e] = "absent" /\ manifests'[e] # "absent" =>
               \A o \in Artifacts[e] : objects'[o] # "absent"
         /\ \A k \in RootKey : roots[k] = None /\ roots'[k] # None =>
               manifests'[roots'[k]] # "absent"
<1> USE DEF GcTypeOK, StoreTypes, FileStates
<1>1. CASE UNCHANGED <<objects, manifests, roots>>
  BY <1>1
<1>2. ASSUME NEW o \in Object, Ingest(o)
      PROVE  /\ \A x \in Object : objects[x] # "absent" => objects'[x] # "absent"
             /\ UNCHANGED <<manifests, roots>>
  BY <1>2 DEF Ingest
<1>3. ASSUME NEW e \in Envelope, PutEnvelope(e)
      PROVE  /\ \A f \in Envelope : manifests[f] # "absent" => manifests'[f] # "absent"
             /\ \A f \in Envelope : manifests[f] = "absent" /\ manifests'[f] # "absent" =>
                   \A o \in Artifacts[f] : objects'[o] # "absent"
             /\ UNCHANGED <<objects, roots>>
  <2>1. \A o \in Artifacts[e] : objects'[o] # "absent"
    BY <1>3 DEF PutEnvelope
  <2> QED
    BY <1>3, <2>1 DEF PutEnvelope
<1>4. ASSUME NEW k \in RootKey, NEW e \in Envelope, PutRoot(k, e)
      PROVE  /\ \A j \in RootKey : roots[j] # None => roots'[j] = roots[j]
             /\ \A j \in RootKey : roots[j] = None /\ roots'[j] # None =>
                   manifests'[roots'[j]] # "absent"
             /\ UNCHANGED <<objects, manifests>>
  BY <1>4 DEF PutRoot, Valid
<1>5. ASSUME Outsider
      PROVE  /\ \A k \in RootKey : roots[k] # None => roots'[k] = roots[k]
             /\ \A k \in RootKey : roots[k] = None /\ roots'[k] # None =>
                   manifests'[roots'[k]] # "absent"
             /\ \A e \in Envelope : manifests[e] = "absent" <=> manifests'[e] = "absent"
             /\ \A o \in Object : objects[o] = "absent" <=> objects'[o] = "absent"
  <2>1. ASSUME NEW o \in Object, objects[o] = "intact",
               objects' = [objects EXCEPT ![o] = "damaged"]
        PROVE  \A x \in Object : objects[x] = "absent" <=> objects'[x] = "absent"
    BY <2>1
  <2>2. ASSUME NEW e \in Envelope, manifests[e] = "intact",
               manifests' = [manifests EXCEPT ![e] = "damaged"]
        PROVE  \A x \in Envelope : manifests[x] = "absent" <=> manifests'[x] = "absent"
    BY <2>2
  <2>3. ASSUME NEW k \in RootKey, NEW e \in Envelope, roots[k] = None,
               manifests[e] # "absent", roots' = [roots EXCEPT ![k] = e],
               UNCHANGED manifests
        PROVE  /\ \A j \in RootKey : roots[j] # None => roots'[j] = roots[j]
               /\ \A j \in RootKey : roots[j] = None /\ roots'[j] # None =>
                     manifests'[roots'[j]] # "absent"
    BY <2>3
  <2> QED
    BY <1>5, <2>1, <2>2, <2>3 DEF Outsider
<1>6. ASSUME StoreNext
      PROVE  \/ \E o \in Object : Ingest(o)
             \/ \E e \in Envelope : PutEnvelope(e)
             \/ \E k \in RootKey, e \in Envelope : PutRoot(k, e)
             \/ Outsider
             \/ UNCHANGED <<objects, manifests, roots>>
  BY <1>6 DEF StoreNext, PublisherDies
<1>7. ASSUME NEW p \in Process, NEW e \in Envelope, DeleteManifest(p, e)
      PROVE  /\ e \in DeadManifests
             /\ \A f \in Envelope : f # e => manifests'[f] = manifests[f]
             /\ manifests'[e] = "absent"
             /\ UNCHANGED <<objects, roots>>
  BY <1>7, DeletesGarbage DEF DeleteManifest
<1>8. ASSUME NEW p \in Process, NEW o \in Object, DeleteObject(p, o)
      PROVE  /\ o \in DeadObjects /\ DeadManifests = {}
             /\ \A x \in Object : x # o => objects'[x] = objects[x]
             /\ UNCHANGED <<manifests, roots>>
  BY <1>8, DeletesGarbage DEF DeleteObject
<1>9. ASSUME NEW p \in Process, Collect(p)
      PROVE  \/ \E e \in Envelope : DeleteManifest(p, e)
             \/ \E o \in Object : DeleteObject(p, o)
             \/ UNCHANGED <<objects, manifests, roots>>
  BY <1>9 DEF Collect, PlanGc, Redeem, StartDeleting, Refuse, StopDeleting,
     CollectorDies, storeVars
<1>10. ASSUME RejectCopy \/ UNCHANGED gcVars
       PROVE  UNCHANGED <<objects, manifests, roots>>
  BY <1>10 DEF RejectCopy, gcVars, storeVars
<1>11. \/ \E o \in Object : Ingest(o)
       \/ \E e \in Envelope : PutEnvelope(e)
       \/ \E k \in RootKey, e \in Envelope : PutRoot(k, e)
       \/ Outsider
       \/ \E p \in Process, e \in Envelope : DeleteManifest(p, e)
       \/ \E p \in Process, o \in Object : DeleteObject(p, o)
       \/ UNCHANGED <<objects, manifests, roots>>
  BY <1>6, <1>9, <1>10 DEF GcNext
<1>12. CASE \E o \in Object : Ingest(o)
  BY <1>2, <1>12
<1>13. CASE \E e \in Envelope : PutEnvelope(e)
  BY <1>3, <1>13
<1>14. CASE \E k \in RootKey, e \in Envelope : PutRoot(k, e)
  BY <1>4, <1>14
<1>15. CASE Outsider
  BY <1>5, <1>15
<1>16. CASE \E p \in Process, e \in Envelope : DeleteManifest(p, e)
  BY <1>7, <1>16
<1>17. CASE \E p \in Process, o \in Object : DeleteObject(p, o)
  BY <1>8, <1>17
<1> QED
  BY <1>1, <1>11, <1>12, <1>13, <1>14, <1>15, <1>16, <1>17

\* What is whole behind a root is not garbage.
LEMMA WholeIsKept ==
  ASSUME StoreTypes, NEW k \in RootKey, roots[k] # None,
         DeadManifests # {} \/ DeadObjects # {}
  PROVE  /\ Ancestry({roots[k]}, Envelope) \cap DeadManifests = {}
         /\ \A e \in Ancestry({roots[k]}, Envelope) : Artifacts[e] \cap DeadObjects = {}
<1>1. /\ Visited \subseteq ValidManifests
      /\ DeadManifests = ValidManifests \ Visited
      /\ \A o \in DeadObjects : \A e \in Visited : o \notin Artifacts[e]
  BY GarbageFacts
<1>2. Visited \in SUBSET Envelope /\ {roots[k]} \subseteq Visited
  BY VisitedFacts
<1>3. \A f \in Visited \cap Envelope : Parents[f] \subseteq Visited
  BY <1>1, VisitedFacts
<1>4. Ancestry({roots[k]}, Envelope) \subseteq Visited
  BY <1>2, <1>3, AncestryLeast
<1> QED
  BY <1>1, <1>4

LEMMA BackedKept ==
  ASSUME GcTypeOK, PlanFresh, ManifestsBacked, RootsBacked, [GcNext]_gcVars
  PROVE  ManifestsBacked' /\ RootsBacked'
<1>1. ManifestsBacked'
  <2>1. SUFFICES ASSUME NEW e \in Envelope, manifests'[e] # "absent",
                        NEW o \in Artifacts[e]
                 PROVE  objects'[o] # "absent"
    BY DEF ManifestsBacked
  <2>2. CASE manifests[e] = "absent"
    BY <2>1, <2>2, FilesStep
  <2>3. CASE manifests[e] # "absent"
    <3>1. o \in Object /\ objects[o] # "absent"
      BY <2>3, ArtifactsAreObjects DEF ManifestsBacked
    <3>2. SUFFICES ASSUME objects'[o] = "absent" PROVE FALSE
      OBVIOUS
    <3>3. o \in DeadObjects /\ DeadManifests = {}
      BY <3>1, <3>2, FilesStep
    <3>4. /\ e \in ValidManifests /\ DeadManifests = ValidManifests \ Visited
          /\ \A f \in Visited : o \notin Artifacts[f]
      BY <2>3, <3>3, GarbageFacts DEF ValidManifests
    <3> QED
      BY <3>3, <3>4
  <2> QED
    BY <2>2, <2>3
<1>2. RootsBacked'
  <2>1. SUFFICES ASSUME NEW k \in RootKey, roots'[k] # None
                 PROVE  manifests'[roots'[k]] # "absent"
    <3>1. roots' \in [RootKey -> Envelope \cup {None}]
      BY GcTyped DEF GcTypeOK, StoreTypes
    <3> QED
      BY <1>1, <2>1, <3>1 DEF RootsBacked, ManifestsBacked
  <2>2. CASE roots[k] = None
    BY <2>1, <2>2, FilesStep
  <2>3. CASE roots[k] # None
    <3>1. roots'[k] = roots[k] /\ roots[k] \in Envelope
      BY <2>3, FilesStep DEF GcTypeOK, StoreTypes
    <3>2. manifests[roots[k]] # "absent"
      BY <2>3 DEF RootsBacked
    <3>3. roots[k] \notin DeadManifests
      <4>1. roots[k] \in Visited
        BY <2>3, VisitedFacts DEF GcTypeOK
      <4> QED
        BY <4>1 DEF DeadManifests
    <3> QED
      BY <3>1, <3>2, <3>3, FilesStep
  <2> QED
    BY <2>2, <2>3
<1> QED
  BY <1>1, <1>2

LEMMA RedeemedKept ==
  ASSUME GcTypeOK, RedeemedOnce, [GcNext]_gcVars
  PROVE  RedeemedOnce'
<1>1. CASE gc' = gc /\ ledger \subseteq ledger'
  BY <1>1 DEF RedeemedOnce, Applying, Step
<1>2. ASSUME NEW p \in Process, Redeem(p)
      PROVE  RedeemedOnce'
  <2>1. /\ ledger' = ledger \cup {gc[p].plan}
        /\ \A q \in Process : q # p => gc'[q] = gc[q]
        /\ \/ gc'[p].step = "idle"
           \/ /\ gc[p].plan \notin ledger
              /\ gc'[p].step = "redeemed" /\ gc'[p].plan = gc[p].plan
    BY <1>2 DEF Redeem, GcTypeOK, Collectors, NoPlan
  <2> QED
    BY <2>1 DEF RedeemedOnce, Applying, Step
<1>3. ASSUME NEW p \in Process, Collect(p), ~Redeem(p)
      PROVE  RedeemedOnce'
  <2>1. /\ ledger' = ledger
        /\ \A q \in Process : q # p => gc'[q] = gc[q]
        /\ \/ gc'[p].step \in {"idle", "planned"}
           \/ Applying(p) /\ gc'[p].plan = gc[p].plan
    <3> USE DEF GcTypeOK, Collectors
    <3>1. CASE PlanGc(p)
      BY <3>1 DEF PlanGc
    <3>2. CASE StartDeleting(p)
      BY <3>2 DEF StartDeleting, Applying
    <3>3. CASE Refuse(p) \/ StopDeleting(p) \/ CollectorDies(p)
      BY <3>3 DEF Refuse, StopDeleting, CollectorDies, NoPlan
    <3>4. ASSUME NEW e \in Envelope, DeleteManifest(p, e)
          PROVE  /\ ledger' = ledger /\ Applying(p) /\ gc'[p].plan = gc[p].plan
                 /\ \A q \in Process : q # p => gc'[q] = gc[q]
      BY <3>4 DEF DeleteManifest, Applying
    <3>5. ASSUME NEW o \in Object, DeleteObject(p, o)
          PROVE  /\ ledger' = ledger /\ Applying(p) /\ gc'[p].plan = gc[p].plan
                 /\ \A q \in Process : q # p => gc'[q] = gc[q]
      BY <3>5 DEF DeleteObject, Applying
    <3> QED
      BY <1>3, <3>1, <3>2, <3>3, <3>4, <3>5 DEF Collect
  <2> QED
    BY <2>1 DEF RedeemedOnce, Applying, Step
<1> QED
  BY <1>1, <1>2, <1>3 DEF GcNext, RejectCopy, gcVars

LEMMA GcInvariant == GcSpec => []GcInv
<1>1. GcInit => GcInv
  <2>1. SUFFICES ASSUME GcInit PROVE GcInv
    OBVIOUS
  <2>2. \A p \in Process : Step(p) = "idle"
    BY <2>1 DEF GcInit, Step, NoPlan
  <2>3. PlanFresh /\ RedeemedOnce
    BY <2>2 DEF PlanFresh, RedeemedOnce, Applying
  <2>4. ManifestsBacked /\ RootsBacked
    BY <2>1 DEF GcInit, StoreInit, ManifestsBacked, RootsBacked
  <2> QED
    BY <2>1, <2>3, <2>4, GcInitTyped DEF GcInv
<1>2. GcInv /\ [GcNext]_gcVars => GcInv'
  BY GcTyped, FreshKept, RedeemedKept, BackedKept DEF GcInv
<1> QED
  BY <1>1, <1>2, PTL DEF GcSpec

\* Every plan that fits the store lists exactly its garbage.
THEOREM PlansStayFresh == GcSpec => []PlanFresh
<1>1. GcInv => PlanFresh
  BY DEF GcInv
<1> QED
  BY <1>1, GcInvariant, PTL

\* No plan is executed twice.
THEOREM PlansRedeemedOnce == GcSpec => []RedeemedOnce
<1>1. GcInv => RedeemedOnce
  BY DEF GcInv
<1> QED
  BY <1>1, GcInvariant, PTL

\* No envelope in the store names an object that was collected, and no root
\* an envelope that was.
THEOREM EvidenceBacked == GcSpec => []StoreBacked
<1>1. GcInv => StoreBacked
  BY DEF GcInv, StoreBacked
<1> QED
  BY <1>1, GcInvariant, PTL

\* Only what no root reaches is deleted.
THEOREM OnlyGarbageDeleted == GcSpec => DeletesGarbageOnly
<1> DEFINE Only ==
      /\ \A e \in Envelope : manifests[e] # "absent" /\ manifests'[e] = "absent" =>
            e \in DeadManifests
      /\ \A o \in Object : objects[o] # "absent" /\ objects'[o] = "absent" =>
            o \in DeadObjects
<1>1. GcInv /\ [GcNext]_gcVars => [Only]_gcVars
  BY FilesStep DEF GcInv
<1>2. GcSpec => [][Only]_gcVars
  <2> HIDE DEF Only
  <2> QED
    BY <1>1, GcInvariant, PTL DEF GcSpec
<1> QED
  BY <1>2 DEF DeletesGarbageOnly

\* Evidence that is whole behind its root stays whole behind it.
THEOREM WholeEvidenceKept == GcSpec => EvidenceKept
<1> DEFINE Kept ==
      \A k \in RootKey : roots[k] # None /\ Whole(k) =>
         roots'[k] = roots[k] /\ Whole(k)'
<1>1. GcInv /\ [GcNext]_gcVars => Kept
  <2>1. SUFFICES ASSUME GcInv, [GcNext]_gcVars,
                        NEW k \in RootKey, roots[k] # None, Whole(k)
                 PROVE  roots'[k] = roots[k] /\ Whole(k)'
    OBVIOUS
  <2> USE DEF GcInv
  <2>2. roots'[k] = roots[k]
    BY <2>1, FilesStep
  <2>3. Ancestry({roots[k]}, Envelope)' = Ancestry({roots[k]}, Envelope)
    BY <2>2 DEF Ancestry
  <2>4. SUFFICES ASSUME NEW e \in Ancestry({roots[k]}, Envelope)
                 PROVE  /\ manifests'[e] # "absent"
                        /\ \A o \in Artifacts[e] : objects'[o] # "absent"
    BY <2>2, <2>3 DEF Whole
  <2>5. /\ e \in Envelope /\ manifests[e] # "absent"
        /\ \A o \in Artifacts[e] : o \in Object /\ objects[o] # "absent"
    BY <2>1, <2>4, ArtifactsAreObjects DEF Whole, Ancestry
  <2>6. e \notin DeadManifests /\ \A o \in Artifacts[e] : o \notin DeadObjects
    BY <2>1, <2>4, WholeIsKept DEF GcTypeOK
  <2> QED
    BY <2>1, <2>5, <2>6, FilesStep
<1>2. GcSpec => [][Kept]_gcVars
  <2> HIDE DEF Kept
  <2> QED
    BY <1>1, GcInvariant, PTL DEF GcSpec
<1> QED
  BY <1>2 DEF EvidenceKept
=============================================================================
