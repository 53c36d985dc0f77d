------------------------------ MODULE Regeneration -----------------------------
(***************************************************************************)
(* regeneration_workflows.py: a project that CubeMX generated is generated *)
(* again from its .ioc file.  A preview is made and authorized; an apply   *)
(* consumes the authorization, makes the preview again, builds it beside   *)
(* the project together with a copy of the user's App and Tests, and then  *)
(* exchanges the two directories under the destination's activation lock,  *)
(* the one that creation takes.                                            *)
(***************************************************************************)
EXTENDS CreationApply

CONSTANTS Permit   \* names of authorization records

VARIABLES
    permit,  \* permit[g]: what the authorized preview saw, and whether it is consumed
    regen,   \* regen[p]: how far p's apply is
    left     \* backups that nobody works on any more: left beside the project

regenVars == <<permit, regen, left>>

(* id: the candidate it made; backup: the project it has moved aside; acts:*)
(* how often the user had acted when it looked at the project last.        *)
NoRegen == [at |-> "idle", holds |-> None, id |-> 0, backup |-> None, acts |-> 0]
RegenSteps == {"idle", "plan", "generate", "enter", "aside", "in", "purge", "putback"}

RegenTypeOK ==
    /\ permit \in [Permit -> [saw : Directory \cup {None}, used : BOOLEAN]]
    /\ regen \in [Process -> [at : RegenSteps, holds : Permit \cup {None}, id : JobId,
                              backup : Directory \cup {None}, acts : Source]]
    /\ left \subseteq Directory

RegenInit ==
    /\ permit = [g \in Permit |-> [saw |-> None, used |-> FALSE]]
    /\ regen = [p \in Process |-> NoRegen]
    /\ left = {}

GoRegen(p, step) == regen' = [regen EXCEPT ![p].at = step]
EndRegen(p) == regen' = [regen EXCEPT ![p] = NoRegen]
Saw(p) == permit[regen[p].holds].saw

--------------------------------------------------------------------------------
(* Only a project that CubeMX made, untouched but for the user's own       *)
(* directories, can be regenerated: an unknown path, a changed generated   *)
(* file and a missing manifest are refused.                                *)
Regenerable(d) ==
    /\ d # Absent
    /\ \E e \in d : e.whole /\ e.cubemx /\ d \ {UserFile} = {e}

(* PREPARE: planned, generated in a container that is removed again, and   *)
(* planned once more with the same outcome; then the record is written.    *)
PreparePermit(p, g) ==
    /\ regen[p].at = "idle" /\ permit[g].saw = None
    /\ Regenerable(dest)
    /\ permit' = [permit EXCEPT ![g].saw = dest]
    /\ UNCHANGED <<destVars, creationVars, regen, left>>

(* APPLY consumes the record first, under the record's lock.               *)
ConsumePermit(p, g) ==
    /\ regen[p].at = "idle"
    /\ permit[g].saw # None /\ ~permit[g].used
    /\ permit' = [permit EXCEPT ![g].used = TRUE]
    /\ regen' = [regen EXCEPT ![p].at = "plan", ![p].holds = g]
    /\ UNCHANGED <<destVars, creationVars, left>>

(* Until it has the activation lock it has touched nothing but siblings of *)
(* this attempt's name: whatever fails, they are removed and that is all.  *)
RegenFails(p) ==
    /\ regen[p].at \in {"plan", "generate", "enter"}
    /\ EndRegen(p)
    /\ UNCHANGED <<destVars, creationVars, permit, left>>

(* The project is planned again and must be what the authorization saw.    *)
Replan(p) ==
    /\ regen[p].at = "plan" /\ dest = Saw(p)
    /\ GoRegen(p, "generate")
    /\ UNCHANGED <<destVars, creationVars, permit, left>>

(* CubeMX generates, App and Tests are copied, and the preview of the      *)
(* outcome must be the authorized one: so the project is still what was    *)
(* seen, and so is the copy.  Then configure and two builds, in staging.   *)
GenerateCandidate(p) ==
    /\ regen[p].at = "generate" /\ dest = Saw(p)
    /\ NewJob
    /\ regen' = [regen EXCEPT ![p].at = "enter", ![p].id = jobs + 1]
    /\ UNCHANGED <<dest, source, acts, creationVars, permit, left>>

Candidate(p) == {Native(regen[p].id)} \cup (Saw(p) \cap {UserFile})

(* Under the lock the project is read once more: the same plan, the same   *)
(* files of the user's, and the candidate has them too.                    *)
StillAsSeen_NotRead(p) == dest # Absent
StillAsSeen(p) == dest = Saw(p)

EnterExchange(p) ==
    /\ regen[p].at = "enter" /\ MayEnter(p)
    /\ StillAsSeen(p)
    /\ activating' = p
    /\ regen' = [regen EXCEPT ![p].at = "aside", ![p].acts = acts]
    /\ UNCHANGED <<destVars, record, recordLock, creation, permit, left>>

(* _activation_replace: whatever is at the project's path becomes the      *)
(* backup, ...                                                             *)
MoveAside(p) ==
    /\ regen[p].at = "aside"
    /\ \/ /\ dest # Absent /\ dest' = Absent
          /\ regen' = [regen EXCEPT ![p].at = "in", ![p].backup = dest]
          /\ UNCHANGED activating
       \/ UNCHANGED dest /\ EndRegen(p) /\ Leave
    /\ UNCHANGED <<source, acts, jobs, record, recordLock, creation, permit, left>>

(* ... the candidate takes the path, ...                                   *)
MoveIn(p) ==
    /\ regen[p].at = "in"
    /\ \/ RenameOnto(Candidate(p)) /\ GoRegen(p, "purge")
       \/ UNCHANGED dest /\ GoRegen(p, "putback")
    /\ UNCHANGED <<source, acts, jobs, creationVars, permit, left>>

(* ... or the backup returns; if it cannot (ROLLBACK_FAILED), it stays.    *)
PutBack(p) ==
    /\ regen[p].at = "putback"
    /\ \/ RenameOnto(regen[p].backup) /\ UNCHANGED left
       \/ UNCHANGED dest /\ left' = left \cup {regen[p].backup}
    /\ EndRegen(p) /\ Leave
    /\ UNCHANGED <<source, acts, jobs, record, recordLock, creation, permit>>

(* The backup is deleted; what does not let itself be deleted is reported  *)
(* (CLEANUP_REQUIRED), the new project stays in place.                     *)
PurgeBackup(p) ==
    /\ regen[p].at = "purge"
    /\ EndRegen(p) /\ Leave
    /\ UNCHANGED <<destVars, record, recordLock, creation, permit, left>>

(* A process that dies leaves its siblings, the backup among them, or what *)
(* it has not yet deleted of it.                                           *)
CrashInRegeneration(p) ==
    /\ regen[p].at # "idle"
    /\ EndRegen(p)
    /\ \/ left' = left \cup ({regen[p].backup} \ {None})
       \/ regen[p].at = "purge" /\ UNCHANGED left
    /\ activating' = IF activating = p THEN None ELSE activating
    /\ UNCHANGED <<destVars, record, recordLock, creation, permit>>

RegenerationStep(p) ==
    \/ \E g \in Permit : PreparePermit(p, g) \/ ConsumePermit(p, g)
    \/ RegenFails(p) \/ Replan(p) \/ GenerateCandidate(p)
    \/ EnterExchange(p) \/ MoveAside(p) \/ MoveIn(p)
    \/ PutBack(p) \/ PurgeBackup(p) \/ CrashInRegeneration(p)
================================================================================
