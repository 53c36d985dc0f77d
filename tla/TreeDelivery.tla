----------------------------- MODULE TreeDelivery ------------------------------
(***************************************************************************)
(* migration/delivery.py: the reviewed plan of a migration is applied by   *)
(* staging the complete project in a sibling of the destination named      *)
(* after the plan, verifying it, and renaming it into place.               *)
(***************************************************************************)
EXTENDS Destination

VARIABLES
    delivery,  \* delivery[p]: the plan p holds and how far its apply is
    staging    \* staging[pl]: the staging directory of plan pl

deliveryVars == <<delivery, staging>>

(* id: the job, and so the directory it made; emptied: the empty           *)
(* destination was removed to make room.                                   *)
NoDelivery == [at |-> "idle", plan |-> None, id |-> 0, emptied |-> FALSE]
Steps == {"idle", "planned", "stage", "staging", "verify", "source", "inspect", "empty",
          "publish", "rename", "confirm", "cleanup", "remove", "giveback"}

DeliveryTypeOK ==
    /\ delivery \in [Process -> [at : Steps, plan : Plan \cup {None}, id : JobId,
                                 emptied : BOOLEAN]]
    /\ DOMAIN staging \subseteq Plan
    /\ \A pl \in DOMAIN staging : staging[pl] \in [id : JobId, items : SUBSET Entry]

DeliveryInit ==
    /\ delivery = [p \in Process |-> NoDelivery]
    /\ staging = [pl \in {} |-> None]

Without(s, pl) == [x \in DOMAIN s \ {pl} |-> s[x]]
With(s, pl, dir) == [x \in DOMAIN s \cup {pl} |-> IF x = pl THEN dir ELSE s[x]]

Go(p, step) == delivery' = [delivery EXCEPT ![p].at = step]
EndDelivery(p) == delivery' = [delivery EXCEPT ![p] = NoDelivery]

(* plan_keil_delivery is read-only: a plan binds the source and whether    *)
(* the destination is absent or empty, and so does its plan_id.            *)
PlanDelivery(p) ==
    /\ delivery[p].at = "idle" /\ Free
    /\ delivery' = [delivery EXCEPT ![p].at = "planned",
                                    ![p].plan = [source |-> source, state |-> StateOf(dest)]]
    /\ UNCHANGED <<destVars, staging>>

(* The plan is computed afresh and must be the same plan.                  *)
SameState(pl) == Free /\ StateOf(dest) = pl.state
Fresh(pl) == SameState(pl) /\ source = pl.source

RefuseDelivery(p) ==
    /\ delivery[p].at = "planned"
    /\ ~Fresh(delivery[p].plan) \/ delivery[p].plan \in DOMAIN staging
    /\ EndDelivery(p)
    /\ UNCHANGED <<destVars, staging>>

(* mkdir of the staging directory claims it; its identity is taken from    *)
(* then on as the proof of ownership.  If it cannot be taken, the apply    *)
(* fails and the directory stays.                                          *)
MayClaim_Reused(pl) == TRUE

MayClaim(pl) == pl \notin DOMAIN staging

BeginDelivery(p) ==
    LET pl == delivery[p].plan IN
    /\ delivery[p].at = "planned" /\ Fresh(pl) /\ MayClaim(pl)
    /\ NewJob
    /\ staging' = IF pl \in DOMAIN staging THEN staging
                  ELSE With(staging, pl, [id |-> jobs + 1, items |-> {}])
    /\ \/ delivery' = [delivery EXCEPT ![p].at = "stage", ![p].id = staging'[pl].id]
       \/ EndDelivery(p)
    /\ UNCHANGED <<dest, source, acts>>

Owned(p) ==
    LET pl == delivery[p].plan IN
    pl \in DOMAIN staging /\ staging[pl].id = delivery[p].id

(* The files are written one by one, by path: whoever's directory it is.   *)
Stage(p) ==
    LET pl == delivery[p].plan  id == delivery[p].id IN
    /\ delivery[p].at \in {"stage", "staging"} /\ pl \in DOMAIN staging
    /\ \/ /\ delivery[p].at = "stage"
          /\ staging' = [staging EXCEPT ![pl].items = @ \cup {Part(id)}]
          /\ Go(p, "staging")
       \/ /\ delivery[p].at = "staging"
          /\ staging' = [staging EXCEPT ![pl].items = (@ \ {Part(id)}) \cup {Tree(id)}]
          /\ Go(p, "verify")
    /\ UNCHANGED destVars

(* Until the rename anything may fail, and the staging is cleaned up.      *)
DeliveryFails(p) ==
    /\ delivery[p].at \in {"stage", "staging", "verify", "source", "inspect", "empty",
                           "publish", "rename"}
    /\ Go(p, "cleanup")
    /\ UNCHANGED <<destVars, staging>>

(* The staged tree must be owned, and exactly the planned one; then the    *)
(* source and the destination must be what they were.                      *)
Verify(p) ==
    LET pl == delivery[p].plan IN
    /\ \/ /\ delivery[p].at = "verify"
          /\ Owned(p) /\ staging[pl].items = {Tree(delivery[p].id)}
          /\ Go(p, "source")
       \/ /\ delivery[p].at = "source" /\ source = pl.source
          /\ Go(p, "inspect")
       \/ /\ delivery[p].at = "inspect" /\ SameState(pl)
          /\ Go(p, IF pl.state = "empty" THEN "empty" ELSE "publish")
    /\ UNCHANGED <<destVars, staging>>

(* rmdir makes room: it refuses a directory that is no longer empty.       *)
EmptyDestination_Rmtree(p) ==
    /\ delivery[p].at = "empty" /\ dest # Absent
    /\ dest' = Absent
    /\ delivery' = [delivery EXCEPT ![p].at = "publish", ![p].emptied = TRUE]
    /\ UNCHANGED <<source, acts, jobs, staging>>

EmptyDestination(p) ==
    /\ delivery[p].at = "empty" /\ dest = {}
    /\ dest' = Absent
    /\ delivery' = [delivery EXCEPT ![p].at = "publish", ![p].emptied = TRUE]
    /\ UNCHANGED <<source, acts, jobs, staging>>

(* The destination must be absent and the staging still owned; then the    *)
(* staging directory, whatever it is by now, is renamed to the destination.*)
CheckAbsent(p) ==
    /\ delivery[p].at = "publish" /\ dest = Absent /\ Owned(p)
    /\ Go(p, "rename")
    /\ UNCHANGED <<destVars, staging>>

Rename(p) ==
    LET pl == delivery[p].plan IN
    /\ delivery[p].at = "rename" /\ pl \in DOMAIN staging
    /\ RenameOnto(staging[pl].items)
    /\ staging' = Without(staging, pl)
    /\ Go(p, "confirm")
    /\ UNCHANGED <<source, acts, jobs>>

(* What is published is scanned: success or DELIVERY_PUBLISH_INVALID; in   *)
(* either case it stays.                                                   *)
Confirm_CleansUp(p) ==
    /\ delivery[p].at = "confirm"
    /\ IF dest = {Tree(delivery[p].id)} THEN EndDelivery(p) ELSE Go(p, "cleanup")
    /\ UNCHANGED <<destVars, staging>>

Confirm(p) ==
    /\ delivery[p].at = "confirm"
    /\ EndDelivery(p)
    /\ UNCHANGED <<destVars, staging>>

(* _cleanup_staging: only a directory that is still owned is removed, as   *)
(* far as it lets itself be; then an empty destination that had been       *)
(* removed is made again, if it can be.                                    *)
Cleanup(p) ==
    LET pl == delivery[p].plan IN
    /\ \/ /\ delivery[p].at = "cleanup"
          /\ Go(p, IF Owned(p) THEN "remove" ELSE "giveback")
          /\ UNCHANGED staging
       \/ /\ delivery[p].at = "remove"
          /\ \/ staging' = Without(staging, pl)
             \/ /\ pl \in DOMAIN staging
                /\ \E rest \in Remnants(staging[pl].items) :
                      staging' = [staging EXCEPT ![pl].items = rest]
          /\ Go(p, "giveback")
    /\ UNCHANGED destVars

GiveBack(p) ==
    /\ delivery[p].at = "giveback"
    /\ \/ delivery[p].emptied /\ dest = Absent /\ dest' = {}
       \/ UNCHANGED dest
    /\ EndDelivery(p)
    /\ UNCHANGED <<source, acts, jobs, staging>>

CrashInDelivery(p) ==
    /\ delivery[p].at \notin {"idle", "planned"}
    /\ EndDelivery(p)
    /\ UNCHANGED <<destVars, staging>>

(* The user, or another tool, puts a directory of its own in the place of  *)
(* a staging directory.                                                    *)
StagingReplaced ==
    /\ acts < MaxActs /\ acts' = acts + 1
    /\ \E pl \in DOMAIN staging :
          staging' = [staging EXCEPT ![pl] = [id |-> 0, items |-> {UserFile}]]
    /\ UNCHANGED <<dest, source, jobs, delivery>>

DeliveryStep(p) ==
    \/ PlanDelivery(p) \/ RefuseDelivery(p) \/ BeginDelivery(p)
    \/ Stage(p) \/ DeliveryFails(p) \/ Verify(p)
    \/ EmptyDestination(p) \/ CheckAbsent(p) \/ Rename(p) \/ Confirm(p)
    \/ Cleanup(p) \/ GiveBack(p) \/ CrashInDelivery(p)
================================================================================
