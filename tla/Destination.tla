------------------------------ MODULE Destination ------------------------------
(***************************************************************************)
(* The directory a new project is to appear in, and the source it is made  *)
(* from.  Several tools publish there - the delivery of a migrated project *)
(* (migration/delivery.py), project creation (creation_apply.py) - and the *)
(* user uses the same directory and edits the same source with no lock.    *)
(* Publishing is one rename of a finished sibling directory.               *)
(***************************************************************************)
EXTENDS Naturals

CONSTANTS
    Process,   \* processes that run the tools
    None,      \* nobody
    Absent,    \* no directory
    MaxActs,   \* bound: acts of the user
    MaxJobs    \* bound: jobs that begin to write

ASSUME BoundsAssumption == MaxActs \in Nat /\ MaxJobs \in Nat
ASSUME NoneIsNobody == None \notin Process \cup Nat

VARIABLES
    dest,    \* what the destination holds: Absent, or a set of entries
    source,  \* the version of the source
    acts,    \* how often the user has acted
    jobs     \* how many jobs have begun to write; a job is known by its number

destVars == <<dest, source, acts, jobs>>

Source == 0 .. MaxActs
JobId == 0 .. MaxJobs
Plan == [source : Source, state : {"absent", "empty"}]  \* a delivery's plan

Tree(id) == [by |-> id, whole |-> TRUE, cubemx |-> FALSE]  \* the complete output of job id
Native(id) == [Tree(id) EXCEPT !.cubemx = TRUE]            \* ... of CubeMX, with its manifests
Part(id) == [Tree(id) EXCEPT !.whole = FALSE]              \* some of the files of job id
UserFile == Part(0)                                        \* a file of the user's
Torn(e) == [e EXCEPT !.whole = FALSE]                      \* what is left of it, some files gone

Entry == [by : JobId, whole : BOOLEAN, cubemx : BOOLEAN]
Directory == {Absent} \cup SUBSET Entry

ASSUME AbsentIsNoDirectory == \A d \in SUBSET Entry : d # Absent /\ d # None
ASSUME AbsentIsNotNone == Absent # None

Free == dest \in {Absent, {}}
StateOf(d) == IF d = Absent THEN "absent" ELSE "empty"

(* os.replace of a directory onto the destination: an empty directory is   *)
(* replaced on POSIX (and refused on Windows, which is one more failure);  *)
(* anything with an entry makes it fail.                                   *)
RenameOnto(entries) == Free /\ dest' = entries

(* A directory is deleted file by file: if that stops on the way, each     *)
(* entry is still there, or gone, or incomplete.                           *)
Remnants(d) ==
    {r \in SUBSET (d \cup {Torn(e) : e \in d}) :
        ~\E e \in d : e.whole /\ {e, Torn(e)} \subseteq r}

NewJob == jobs < MaxJobs /\ jobs' = jobs + 1

DestTypeOK == dest \in Directory /\ source \in Source /\ acts \in Source /\ jobs \in JobId

(* Nothing is there, or a project that CubeMX generated some time ago.     *)
DestInit == dest \in {Absent, {}, {Native(0)}} /\ source = 0 /\ acts = 0 /\ jobs = 0

UserMakes == dest = Absent /\ dest' = {} /\ UNCHANGED source
UserPuts == dest # Absent /\ dest' = dest \cup {UserFile} /\ UNCHANGED source
UserRemoves == dest # Absent /\ dest' = Absent /\ UNCHANGED source
UserEditsSource == source' = acts + 1 /\ UNCHANGED dest

UserActs ==
    /\ acts < MaxActs /\ acts' = acts + 1
    /\ UserMakes \/ UserPuts \/ UserRemoves \/ UserEditsSource
    /\ UNCHANGED jobs
================================================================================
