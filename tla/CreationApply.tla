----------------------------- MODULE CreationApply -----------------------------
(***************************************************************************)
(* creation_apply.py: one authorization, consumed under its own durable    *)
(* lock (creation_authorization.py), makes one project: generated and      *)
(* built in siblings of the destination that carry the attempt's random    *)
(* name, then activated under a lock of the destination, if that is still  *)
(* as absent or as empty as it was.                                        *)
(***************************************************************************)
EXTENDS Destination

CONSTANTS Authorization   \* what PREPARE has issued

VARIABLES
    record,      \* record[a]: the authorization's file
    recordLock,  \* recordLock[a]: the process inside its _durable_lock
    activating,  \* the process inside the destination's activation lock
    creation     \* creation[p]: how far p's apply is

creationVars == <<record, recordLock, activating, creation>>

(* holds: the capability p has consumed; state: what the destination was;  *)
(* backup: what was moved away from the destination, None if nothing was;  *)
(* activated: the new project is in place.                                 *)
NoCreation == [at |-> "idle", holds |-> None, state |-> "absent", id |-> 0,
               backup |-> None, activated |-> FALSE]
CreationSteps == {"idle", "consume", "inspect", "generate", "activate", "move", "backup", "swap",
                  "purge", "restore", "clean", "lost"}

CreationTypeOK ==
    /\ record \in [Authorization -> {"prepared", "consumed"}]
    /\ recordLock \in [Authorization -> Process \cup {None}]
    /\ activating \in Process \cup {None}
    /\ creation \in [Process ->
          [at : CreationSteps, holds : Authorization \cup {None}, state : {"absent", "empty"},
           id : JobId, backup : Directory \cup {None}, activated : BOOLEAN]]

CreationInit ==
    /\ record = [a \in Authorization |-> "prepared"]
    /\ recordLock = [a \in Authorization |-> None]
    /\ activating = None
    /\ creation = [p \in Process |-> NoCreation]

At(p) == creation[p].at
GoOn(p, step) == creation' = [creation EXCEPT ![p].at = step]

(* CreationAuthorizationStore.consume: read the record; anything but       *)
(* "prepared" and not yet expired is refused.                              *)
RecordFree(a) == recordLock[a] = None

ReadRecord(p, a) ==
    /\ At(p) = "idle" /\ RecordFree(a) /\ record[a] = "prepared"
    /\ recordLock' = [recordLock EXCEPT ![a] = p]
    /\ creation' = [creation EXCEPT ![p].at = "consume", ![p].holds = a]
    /\ UNCHANGED <<destVars, record, activating>>

(* The consumed record replaces it and the capability is returned; or the  *)
(* replacement fails, and nothing is.                                      *)
ConsumeRecord(p) ==
    LET a == creation[p].holds IN
    /\ At(p) = "consume"
    /\ \/ record' = [record EXCEPT ![a] = "consumed"] /\ GoOn(p, "inspect")
       \/ UNCHANGED record /\ creation' = [creation EXCEPT ![p] = NoCreation]
    /\ recordLock' = [recordLock EXCEPT ![a] = None]
    /\ UNCHANGED <<destVars, activating>>

(* The destination must be absent or empty; the plan is made again and     *)
(* must be the authorized one, the environment too.                        *)
InspectDestination(p) ==
    /\ At(p) = "inspect"
    /\ \/ Free /\ creation' = [creation EXCEPT ![p].at = "generate", ![p].state = StateOf(dest)]
       \/ GoOn(p, "clean")
    /\ UNCHANGED <<destVars, record, recordLock, activating>>

(* CubeMX generates in a container of this attempt; the project is checked,*)
(* moved to the activation staging, configured and built twice; the build  *)
(* caches are dropped.  All of it is in directories nobody else looks at.  *)
Generate(p) ==
    /\ At(p) = "generate"
    /\ \/ NewJob /\ creation' = [creation EXCEPT ![p].at = "activate", ![p].id = jobs + 1]
       \/ UNCHANGED jobs /\ GoOn(p, "clean")
    /\ UNCHANGED <<dest, source, acts, record, recordLock, activating>>

(* The activation lock, and the destination once more.                     *)
MayEnter_Unlocked(p) == TRUE

MayEnter(p) == activating = None

EnterActivation(p) ==
    /\ At(p) = "activate" /\ MayEnter(p)
    /\ IF Free /\ StateOf(dest) = creation[p].state
       THEN /\ activating' = p
            /\ GoOn(p, IF dest = Absent THEN "move" ELSE "backup")
       ELSE UNCHANGED activating /\ GoOn(p, "clean")
    /\ UNCHANGED <<destVars, record, recordLock>>

Leave == activating' = None

(* _activate_absent                                                        *)
ActivateAbsent(p) ==
    /\ At(p) = "move"
    /\ \/ RenameOnto({Native(creation[p].id)}) /\ creation' = [creation EXCEPT ![p] = NoCreation]
       \/ UNCHANGED dest /\ GoOn(p, "clean")
    /\ Leave
    /\ UNCHANGED <<source, acts, jobs, record, recordLock>>

(* _activate_empty: the destination is moved to a backup - whatever it     *)
(* holds by now -, and the project into its place; the backup is deleted.  *)
BackUp(p) ==
    /\ At(p) = "backup"
    /\ \/ /\ dest # Absent /\ dest' = Absent
          /\ creation' = [creation EXCEPT ![p].at = "swap", ![p].backup = dest]
          /\ UNCHANGED activating
       \/ UNCHANGED dest /\ GoOn(p, "clean") /\ Leave
    /\ UNCHANGED <<source, acts, jobs, record, recordLock>>

Swap(p) ==
    /\ At(p) = "swap"
    /\ \/ /\ RenameOnto({Native(creation[p].id)})
          /\ creation' = [creation EXCEPT ![p].at = "purge", ![p].activated = TRUE]
       \/ UNCHANGED dest /\ GoOn(p, "restore")
    /\ UNCHANGED <<source, acts, jobs, record, recordLock, activating>>

(* rmtree deletes what has been put there meanwhile too, and may stop      *)
(* before the end.                                                         *)
Purge(p) ==
    /\ At(p) = "purge"
    /\ \/ creation' = [creation EXCEPT ![p] = NoCreation] /\ Leave
       \/ /\ \E rest \in Remnants(creation[p].backup) :
                creation' = [creation EXCEPT ![p].at = "restore", ![p].backup = rest]
          /\ UNCHANGED activating
    /\ UNCHANGED <<destVars, record, recordLock>>

(* restore_exact_empty: the project goes back to its staging, and what the *)
(* backup holds by now to the destination, which only then is looked at:   *)
(* not empty is ROLLBACK_FAILED ("lost"), and so is a move that fails.     *)
MovedBack(p) == IF creation[p].activated /\ dest # Absent THEN Absent ELSE dest

RestoreEmpty_NotLooked(p) ==
    /\ At(p) = "restore"
    /\ \/ /\ MovedBack(p) \in {Absent, {}} /\ dest' = creation[p].backup
          /\ creation' = [creation EXCEPT ![p].at = "clean", ![p].backup = None]
       \/ dest' \in {dest, MovedBack(p)} /\ GoOn(p, "lost")
    /\ Leave
    /\ UNCHANGED <<source, acts, jobs, record, recordLock>>

RestoreEmpty(p) ==
    /\ At(p) = "restore"
    /\ \/ /\ MovedBack(p) \in {Absent, {}} /\ dest' = creation[p].backup
          /\ \E end \in {"clean", "lost"} :
                /\ end = "clean" => dest' = {}
                /\ creation' = [creation EXCEPT ![p].at = end, ![p].backup = None]
       \/ dest' \in {dest, MovedBack(p)} /\ GoOn(p, "lost")
    /\ Leave
    /\ UNCHANGED <<source, acts, jobs, record, recordLock>>

(* _cleanup_apply_roots: the siblings of this attempt are removed, the     *)
(* backup with them if it is still there; then the failure is reported.    *)
CleanUp(p) ==
    /\ At(p) \in {"clean", "lost"}
    /\ creation' = [creation EXCEPT ![p] = NoCreation]
    /\ UNCHANGED <<destVars, record, recordLock, activating>>

(* The locks of a process that dies are released; its siblings stay, and   *)
(* no other attempt has their names.                                       *)
CrashInCreation(p) ==
    /\ At(p) # "idle"
    /\ creation' = [creation EXCEPT ![p] = NoCreation]
    /\ recordLock' = [a \in Authorization |-> IF recordLock[a] = p THEN None ELSE recordLock[a]]
    /\ activating' = IF activating = p THEN None ELSE activating
    /\ UNCHANGED <<destVars, record>>

CreationStep(p) ==
    \/ \E a \in Authorization : ReadRecord(p, a)
    \/ ConsumeRecord(p) \/ InspectDestination(p) \/ Generate(p)
    \/ EnterActivation(p) \/ ActivateAbsent(p)
    \/ BackUp(p) \/ Swap(p) \/ Purge(p) \/ RestoreEmpty(p)
    \/ CleanUp(p) \/ CrashInCreation(p)
================================================================================
