---------------------------- MODULE EvidenceStore ----------------------------
(***************************************************************************)
(* The evidence store (evidence/store.py and the roots of evidence/gc.py): *)
(* content-addressed objects, envelopes that name objects and parent       *)
(* envelopes, and roots that name one envelope each.  Publication never    *)
(* replaces a file and runs under the store's mutation lock, which every   *)
(* publisher and the collector (EvidenceGC) take.                          *)
(*                                                                         *)
(* A publication is one step: its file appears by one rename while the     *)
(* lock is held.  A publisher that dies before that leaves its temporary   *)
(* file behind.                                                            *)
(***************************************************************************)
EXTENDS Integers

CONSTANTS
    Process,        \* processes that use the store
    Object,         \* identities of objects: the digests of their bytes
    Envelope,       \* identities of envelopes: the digests of theirs
    RootKey,        \* (root_type, root_id) of the registered roots
    Artifacts,      \* the objects each envelope names
    Parents,        \* the envelopes each envelope names
    None,
    MaxVersion      \* bound: changes of the store

ASSUME NoneIsNothing == None \notin Process \cup Envelope
ASSUME ArtifactsAreObjects == Artifacts \in [Envelope -> SUBSET Object]
ASSUME ParentsAreEnvelopes == Parents \in [Envelope -> SUBSET Envelope]
ASSUME VersionBound == MaxVersion \in Nat

VARIABLES
    objects,        \* the object files
    manifests,      \* the envelope files
    roots,          \* the envelope each root names, or None
    litter,         \* an entry under roots/ that is no root this code knows
    version,        \* which snapshot of the store this is
    lock            \* the process that holds the mutation lock for long

storeVars == <<objects, manifests, roots, litter, version, lock>>

-----------------------------------------------------------------------------
FileStates == {"absent", "intact", "damaged"}

Missing(files) == {f \in DOMAIN files : files[f] = "absent"}

\* A manifest that the full read accepts: its own bytes and those of every
\* object it names are what their digests say.
Valid(e) ==
    manifests[e] = "intact" /\ \A o \in Artifacts[e] : objects[o] = "intact"

StoreInit ==
    /\ objects = [o \in Object |-> "absent"]
    /\ manifests = [e \in Envelope |-> "absent"]
    /\ roots = [k \in RootKey |-> None]
    /\ litter = FALSE
    /\ version = 0
    /\ lock = None

\* Every change gives a snapshot that no earlier state had: a file that is
\* created again is another file.
Changed == version < MaxVersion /\ version' = version + 1

\* Bytes that are there already are verified and used as they are.
Ingest(o) ==
    /\ lock = None
    /\ objects[o] = "absent"
    /\ objects' = [objects EXCEPT ![o] = "intact"]
    /\ Changed
    /\ UNCHANGED <<manifests, roots, litter, lock>>

\* The objects an envelope names must be there; its parents need not be.
PutEnvelope(e) ==
    /\ lock = None
    /\ \A o \in Artifacts[e] : objects[o] = "intact"
    /\ manifests[e] = "absent"
    /\ manifests' = [manifests EXCEPT ![e] = "intact"]
    /\ Changed
    /\ UNCHANGED <<objects, roots, litter, lock>>

\* A root that exists is never given another envelope.
PutRoot(k, e) ==
    /\ lock = None
    /\ Valid(e)
    /\ roots[k] = None
    /\ roots' = [roots EXCEPT ![k] = e]
    /\ Changed
    /\ UNCHANGED <<objects, manifests, litter, lock>>

\* A publisher dies before its rename: its temporary file stays.
PublisherDies ==
    /\ lock = None
    /\ litter' \in {litter, TRUE}
    /\ Changed
    /\ UNCHANGED <<objects, manifests, roots, lock>>

\* Whoever does not take the lock may do anything to files; here: damage one
\* or publish a root for a manifest that is there.
Outsider ==
    /\ \/ /\ \E o \in Object : objects[o] = "intact"
                            /\ objects' = [objects EXCEPT ![o] = "damaged"]
          /\ UNCHANGED <<manifests, roots>>
       \/ /\ \E e \in Envelope : manifests[e] = "intact"
                              /\ manifests' = [manifests EXCEPT ![e] = "damaged"]
          /\ UNCHANGED <<objects, roots>>
       \/ /\ \E k \in RootKey, e \in Envelope :
                /\ roots[k] = None
                /\ manifests[e] # "absent"
                /\ roots' = [roots EXCEPT ![k] = e]
          /\ UNCHANGED <<objects, manifests>>
    /\ Changed
    /\ UNCHANGED <<litter, lock>>

StoreNext ==
    \/ \E o \in Object : Ingest(o)
    \/ \E e \in Envelope : PutEnvelope(e)
    \/ \E k \in RootKey, e \in Envelope : PutRoot(k, e)
    \/ PublisherDies
    \/ Outsider

-----------------------------------------------------------------------------
StoreTypes ==
    /\ objects \in [Object -> FileStates]
    /\ manifests \in [Envelope -> FileStates]
    /\ roots \in [RootKey -> Envelope \cup {None}]
    /\ litter \in BOOLEAN
    /\ version \in Nat
    /\ lock \in Process \cup {None}

\* The envelopes that start and everything they descend from, following the
\* parents of the envelopes in readable only.
Ancestry(start, readable) ==
    {e \in Envelope :
        \A closed \in SUBSET Envelope :
            /\ start \subseteq closed
            /\ \A f \in closed \cap readable : Parents[f] \subseteq closed
            => e \in closed}

\* All of the evidence behind root k is in the store: its envelope, every
\* envelope that one descends from, and their objects.
Whole(k) ==
    \A e \in Ancestry({roots[k]}, Envelope) :
        /\ manifests[e] # "absent"
        /\ \A o \in Artifacts[e] : objects[o] # "absent"
=============================================================================
