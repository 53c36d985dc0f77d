----------------------------- MODULE Publications ------------------------------
(***************************************************************************)
(* Everything that makes a directory of files for the user at once: the    *)
(* delivery of a migrated project, project creation, and the converted     *)
(* copies of sources; and the regeneration of a project that is there.     *)
(***************************************************************************)
EXTENDS TreeDelivery, Regeneration, CopyPlan

CONSTANTS
    Deliverer, Creator, Regenerator, Copier  \* processes that are asked to do each

ASSUME ToolsAssumption ==
    /\ Deliverer \subseteq Process /\ Creator \subseteq Process
    /\ Regenerator \subseteq Process /\ Copier \subseteq Process

vars == <<destVars, deliveryVars, creationVars, regenVars, copyVars>>

Init == DestInit /\ DeliveryInit /\ CreationInit /\ RegenInit /\ CopyInit

Idle(p) ==
    /\ delivery[p].at = "idle" /\ creation[p].at = "idle"
    /\ regen[p].at = "idle" /\ copy[p].at = "idle"

(* A process does one job at a time.                                       *)
Deliver(p) ==
    /\ Idle(p) \/ delivery[p].at # "idle"
    /\ DeliveryStep(p) /\ UNCHANGED <<creationVars, regenVars, copyVars>>

Create(p) ==
    /\ Idle(p) \/ creation[p].at # "idle"
    /\ CreationStep(p) /\ UNCHANGED <<deliveryVars, regenVars, copyVars>>

Regenerate(p) ==
    /\ Idle(p) \/ regen[p].at # "idle"
    /\ RegenerationStep(p) /\ UNCHANGED <<deliveryVars, copyVars>>

Copy(p) ==
    /\ Idle(p) \/ copy[p].at # "idle"
    /\ CopyStep(p) /\ UNCHANGED <<deliveryVars, creationVars, regenVars>>

Next ==
    \/ UserActs /\ UNCHANGED <<deliveryVars, creationVars, regenVars, copyVars>>
    \/ StagingReplaced /\ UNCHANGED <<creationVars, regenVars, copyVars>>
    \/ \E p \in Deliverer : Deliver(p)
    \/ \E p \in Creator : Create(p)
    \/ \E p \in Regenerator : Regenerate(p)
    \/ \E p \in Copier : Copy(p)

Spec == Init /\ [][Next]_vars

TypeOK == DestTypeOK /\ DeliveryTypeOK /\ CreationTypeOK /\ RegenTypeOK /\ CopyTypeOK

--------------------------------------------------------------------------------
(* What a delivery does to the destination it does to an absent or empty   *)
(* one (docs/architecture.md: "a nonempty destination is never             *)
(* overwritten"), whatever the user or a creation put there meanwhile.     *)
DeliveryOverwritesNothing ==
    [][(delivery' # delivery /\ dest' # dest) => Free]_vars

(* An incomplete project comes to the destination in one way only: from    *)
(* the backup of a creation, which could not be deleted to its end and is  *)
(* moved back, by an apply that then reports the rollback as failed.  No   *)
(* crash, other failure, leftover directory or second apply of the same    *)
(* plan brings one there.                                                  *)
IsPart(e) == ~e.whole /\ e # UserFile
RollbackFails(p) == creation[p].at = "restore" /\ creation'[p].at = "lost"

PartsAreTold ==
    [][\A e \in (IF dest' = Absent THEN {} ELSE dest') :
          IsPart(e) => (dest # Absent /\ e \in dest) \/ \E p \in Process : RollbackFails(p)]_vars

(* A delivery that is going to report a plain failure has published        *)
(* nothing, also when the failure came late.                               *)
FailurePublishesNothing ==
    \A p \in Process :
        delivery[p].at \in {"cleanup", "remove", "giveback"} =>
            dest = Absent \/ Tree(delivery[p].id) \notin dest

(* A regeneration loses nothing: what the user had written before it       *)
(* looked for the last time, and a project generated by CubeMX, are at the *)
(* path or in a backup beside it after each of its steps, wherever it      *)
(* fails, dies, or finds that a delivery took the path it had vacated.     *)
Places == {dest} \cup left \cup {regen[p].backup : p \in Process}
Work == \E d \in Places \ {None, Absent} : UserFile \in d
Project == \E d \in Places \ {None, Absent} : \E e \in d : e.whole /\ e.cubemx

RegenerationKeeps ==
    [][\A p \in Process : regen'[p] # regen[p] /\ acts = regen[p].acts =>
          (Work => Work') /\ (Project => Project')]_vars

(* What is at a path where a tool publishes is not the tool's to lose.     *)
OthersKept == DeliveryOverwritesNothing /\ RegenerationKeeps

(* An authorization gives one capability, so no two creations ever act for *)
(* the same one, and no two regenerations; and they all exchange the       *)
(* destination one after the other, so none has looked at it and is about  *)
(* to take it while another has moved it aside.                            *)
Activating(p) ==
    \/ creation[p].at \in {"move", "backup", "swap", "purge", "restore"}
    \/ regen[p].at \in {"aside", "in", "purge", "putback"}

CreationsExclude ==
    \A p, q \in Process : p # q =>
        /\ creation[p].holds # None => creation[p].holds # creation[q].holds
        /\ regen[p].holds # None => regen[p].holds # regen[q].holds
        /\ ~(Activating(p) /\ Activating(q))

(* A directory of converted copies that is not complete says so, wherever  *)
(* copying stopped: copies without a manifest have the marker, and a       *)
(* manifest without the marker means that every copy is there.             *)
IncompleteIsMarked ==
    /\ (out.files > 0 /\ ~out.manifest) => out.marker
    /\ (out.manifest /\ ~out.marker) => out.files = Files

(* Nobody takes a part of what was to be published for the whole of it.    *)
WholeOrMarked == PartsAreTold /\ []IncompleteIsMarked
================================================================================
