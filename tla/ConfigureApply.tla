----------------------------- MODULE ConfigureApply ----------------------------
(***************************************************************************)
(* generation/configure.py: a configuration is planned (read-only), and    *)
(* the reviewed plan is applied as one transaction over several files.     *)
(* Every file that is replaced is first copied to a staging directory      *)
(* named after the plan; a failure puts the copies back.  There is no      *)
(* journal: after a crash nothing puts them back, and the directory stays. *)
(***************************************************************************)
EXTENDS ProjectTree, FiniteSets

CONSTANTS
    EditorPath,   \* .vscode files: a user's own are preserved, not refused
    MaxStaging    \* bound: staging directories that exist at once

ASSUME EditorPathAssumption == EditorPath \subseteq GeneratedPath
ASSUME NoneIsNoResult == None \notin {"applied", "refused", "failed", "rollback-failed"}

VARIABLES
    plan,     \* plan[p]: the reviewed plan process p holds, or None
    job,      \* job[p]: how far p's apply is
    staging,  \* staging[pl]: the copies in the staging directory of plan pl
    result    \* result[p]: what p's last apply reported

confVars == <<plan, job, staging, result>>

--------------------------------------------------------------------------------
(* What a plan says.  It is a function of the files it read and of the     *)
(* debug pair it was asked to put into the manifest, and so is plan_id.    *)
Plan == [seen : [Path -> Content], edit : BOOLEAN]

Effective(pl) ==
    IF pl.edit THEN [pl.seen[UserManifest] EXCEPT !.pair = TRUE] ELSE pl.seen[UserManifest]

Owned(f) == IF f[ManagedManifest] = Absent THEN {} ELSE f[ManagedManifest].owned

Status(pl, i) ==
    LET current == pl.seen[i]
    IN  CASE i \notin Owned(pl.seen) /\ current = Absent -> "create"
          [] i \notin Owned(pl.seen) /\ current # Absent ->
               IF i \in EditorPath THEN "preserved-unowned" ELSE "unowned-collision"
          [] i \in Owned(pl.seen) ->
               CASE current = Absent -> "update-managed"
                 [] current = Generated(Effective(pl)) -> "unchanged"
                 [] current = Generated(pl.seen[ManagedManifest].records)
                    /\ current # Generated(Effective(pl)) -> "update-managed"
                 [] OTHER -> "user-drift"

Blocked(pl) ==
    \E i \in GeneratedPath : Status(pl, i) \in {"user-drift", "unowned-collision"}

(* What the transaction writes at path i.                                  *)
After(pl, i) ==
    IF i = UserManifest THEN Effective(pl)
    ELSE IF i = ManagedManifest
         THEN Records(Effective(pl),
                      {j \in GeneratedPath : Status(pl, j) # "preserved-unowned"})
         ELSE Generated(Effective(pl))

(* The paths it writes: files to create or update, the managed manifest    *)
(* unless it says so already, the user's manifest if the pair changes it.  *)
Destinations(pl) ==
    {i \in GeneratedPath : Status(pl, i) \in {"create", "update-managed"}}
    \cup {i \in {ManagedManifest, UserManifest} : After(pl, i) # pl.seen[i]}

--------------------------------------------------------------------------------
Idle == [at |-> "idle", todo |-> {}, replaced |-> {}, success |-> FALSE, stuck |-> {}]
Job == [at : {"idle", "stage", "replace", "rollback"}, todo : SUBSET Path,
        replaced : SUBSET Path, success : BOOLEAN, stuck : SUBSET Path]
    \* todo: paths the phase has not come to; replaced: paths replaced or created and
    \* not restored; success: all were; stuck: paths the rollback could not restore

ConfTypeOK ==
    /\ plan \in [Process -> Plan \cup {None}]
    /\ job \in [Process -> Job]
    /\ DOMAIN staging \subseteq Plan
    /\ \A pl \in DOMAIN staging : staging[pl] \in [Path -> Content \cup {None}]
    /\ result \in [Process -> {None, "applied", "refused", "failed", "rollback-failed"}]

ConfInit ==
    /\ plan = [p \in Process |-> None]
    /\ job = [p \in Process |-> Idle]
    /\ staging = [pl \in {} |-> None]
    /\ result = [p \in Process |-> None]

Without(s, pl) == [x \in DOMAIN s \ {pl} |-> s[x]]
With(s, pl, copies) == [x \in DOMAIN s \cup {pl} |-> IF x = pl THEN copies ELSE s[x]]

--------------------------------------------------------------------------------
(* plan_project_configuration reads everything once; a file that changes   *)
(* while it reads makes it fail, so a plan is of one state of the project. *)
PlanConfiguration(p, edit) ==
    /\ job[p].at = "idle"
    /\ plan' = [plan EXCEPT ![p] = [seen |-> file, edit |-> edit]]
    /\ result' = [result EXCEPT ![p] = None]
    /\ UNCHANGED <<treeVars, job, staging>>

(* The apply ends: the lock is released.                                   *)
End(p, outcome) ==
    /\ job' = [job EXCEPT ![p] = Idle]
    /\ result' = [result EXCEPT ![p] = outcome]
    /\ plan' = [plan EXCEPT ![p] = None]
    /\ Unlock(p)

(* apply_project_configuration up to the staging directory: under the lock *)
(* the project is planned afresh and must give the same plan, without      *)
(* blockers, and no directory of the same plan may exist.                  *)
Admissible_ReusesStaging(pl) ==
    /\ [seen |-> file, edit |-> pl.edit] = pl
    /\ ~Blocked(pl)

Admissible(pl) ==
    /\ [seen |-> file, edit |-> pl.edit] = pl
    /\ pl \notin DOMAIN staging
    /\ ~Blocked(pl)

BeginApply(p) ==
    /\ plan[p] # None /\ job[p].at = "idle" /\ lock = None
    /\ Cardinality(DOMAIN staging) < MaxStaging
    /\ \/ /\ Admissible(plan[p]) /\ Destinations(plan[p]) # {}
          /\ Lock(p)
          /\ job' = [job EXCEPT ![p] = [Idle EXCEPT !.at = "stage",
                                                   !.todo = Destinations(plan[p])]]
          /\ staging' = With(staging, plan[p], [i \in Path |-> None])
          /\ UNCHANGED <<plan, result>>
       \/ /\ Admissible(plan[p]) /\ Destinations(plan[p]) = {}
          /\ result' = [result EXCEPT ![p] = "applied"]
          /\ plan' = [plan EXCEPT ![p] = None]
          /\ UNCHANGED <<lock, commands, job, staging>>
       \/ /\ ~Admissible(plan[p])
          /\ result' = [result EXCEPT ![p] = "refused"]
          /\ plan' = [plan EXCEPT ![p] = None]
          /\ UNCHANGED <<lock, commands, job, staging>>
    /\ UNCHANGED <<file, texts, draft>>

--------------------------------------------------------------------------------
(* The path a phase comes to next (no path if S is empty).                 *)
First(S) == {i \in S : \A j \in S : i <= j}
Last(S) == {i \in S : \A j \in S : j <= i}

(* The stage phase, path by path: what is at a path that exists is copied. *)
(* Before the first replacement a user's own editor files must still exist.*)
EditorsPreserved(pl) ==
    \A i \in EditorPath : Status(pl, i) = "preserved-unowned" => file[i] # Absent

Stage(p) ==
    LET pl == plan[p] IN
    /\ job[p].at = "stage"
    /\ \/ /\ job[p].todo = {} /\ EditorsPreserved(pl)
          /\ job' = [job EXCEPT ![p].at = "replace", ![p].todo = Destinations(pl)]
          /\ UNCHANGED staging
       \/ \E i \in First(job[p].todo) :
             /\ job' = [job EXCEPT ![p].todo = @ \ {i}]
             /\ \/ pl.seen[i] = Absent /\ UNCHANGED staging
                \/ /\ pl.seen[i] # Absent /\ file[i] # Absent
                   /\ staging' = [staging EXCEPT ![pl][i] = file[i]]
    /\ UNCHANGED <<treeVars, plan, result>>

(* A copy fails, or the file to be copied is gone.  Nothing was replaced:  *)
(* the directory is removed, as far as it lets itself be removed.          *)
StageFails(p) ==
    /\ job[p].at = "stage"
    /\ \/ staging' = Without(staging, plan[p])
       \/ UNCHANGED staging
    /\ End(p, "failed")
    /\ UNCHANGED <<file, texts, draft>>

(* The recheck before a path is replaced: the bytes the plan saw, or still *)
(* nothing.                                                                *)
Unchanged_NotRechecked(pl, i) == TRUE
Unchanged(pl, i) == file[i] = pl.seen[i]

(* The replace phase: recheck, a temporary file beside the target, and an  *)
(* atomic replacement.  Changing the mode and syncing the directory come   *)
(* after it; if they fail the path counts as replaced.                     *)
Replace_RecordedAfterSync(p) ==
    /\ job[p].at = "replace"
    /\ \E i \in First(job[p].todo), synced \in BOOLEAN :
          /\ Unchanged(plan[p], i)
          /\ file' = [file EXCEPT ![i] = After(plan[p], i)]
          /\ job' = [job EXCEPT ![p].replaced = IF synced THEN @ \cup {i} ELSE @,
                                ![p].todo = IF synced THEN @ \ {i} ELSE job[p].replaced,
                                ![p].at = IF synced THEN "replace" ELSE "rollback"]
    /\ UNCHANGED <<texts, draft, lock, commands, plan, staging, result>>

Replace(p) ==
    /\ job[p].at = "replace"
    /\ \E i \in First(job[p].todo), synced \in BOOLEAN :
          /\ Unchanged(plan[p], i)
          /\ file' = [file EXCEPT ![i] = After(plan[p], i)]
          /\ job' = [job EXCEPT ![p].replaced = @ \cup {i},
                                ![p].todo = IF synced THEN @ \ {i} ELSE job[p].replaced \cup {i},
                                ![p].at = IF synced THEN "replace" ELSE "rollback"]
    /\ UNCHANGED <<texts, draft, lock, commands, plan, staging, result>>

(* A recheck refuses the path, or writing it fails: what was replaced is   *)
(* rolled back.                                                            *)
ReplaceFails(p) ==
    /\ job[p].at = "replace" /\ job[p].todo # {}
    /\ job' = [job EXCEPT ![p].at = "rollback", ![p].todo = job[p].replaced]
    /\ UNCHANGED <<treeVars, plan, staging, result>>

(* Everything is replaced: the staging directory goes.                     *)
Finish(p) ==
    /\ job[p].at = "replace" /\ job[p].todo = {}
    /\ staging' = Without(staging, plan[p])
    /\ End(p, "applied")
    /\ UNCHANGED <<file, texts, draft>>

(* ... or does not: rmtree stops at something it cannot delete, having     *)
(* deleted some of the copies, and the error rolls the whole apply back.   *)
FinishFails(p) ==
    /\ job[p].at = "replace" /\ job[p].todo = {}
    /\ \E gone \in SUBSET Path :
         staging' = [staging EXCEPT ![plan[p]] = [i \in Path |-> IF i \in gone THEN None ELSE @[i]]]
    /\ job' = [job EXCEPT ![p].at = "rollback", ![p].todo = job[p].replaced, ![p].success = TRUE]
    /\ UNCHANGED <<treeVars, plan, result>>

--------------------------------------------------------------------------------
(* _rollback: the copies are moved back, then what was created is deleted, *)
(* last path first; a path that cannot be restored is skipped.             *)
Restorable(p, i) ==
    IF plan[p].seen[i] = Absent THEN TRUE ELSE staging[plan[p]][i] # None

Restore(p) ==
    LET pl == plan[p]
        copied == {j \in job[p].todo : pl.seen[j] # Absent} IN
    /\ job[p].at = "rollback"
    /\ \E i \in Last(IF copied # {} THEN copied ELSE job[p].todo) :
          \/ /\ Restorable(p, i)
             /\ file' = [file EXCEPT ![i] = IF pl.seen[i] = Absent THEN Absent ELSE staging[pl][i]]
             /\ staging' = [staging EXCEPT ![pl][i] = None]
             /\ job' = [job EXCEPT ![p].todo = @ \ {i}, ![p].replaced = @ \ {i}]
          \/ /\ job' = [job EXCEPT ![p].todo = @ \ {i}, ![p].stuck = @ \cup {i}]
             /\ UNCHANGED <<file, staging>>
    /\ UNCHANGED <<texts, draft, lock, commands, plan, result>>

(* The rollback is over.  If a path could not be restored the staging      *)
(* directory is kept; else it is removed, as far as it lets itself be.     *)
RolledBack_FailureSwallowed(p) ==
    /\ job[p].at = "rollback" /\ job[p].todo = {}
    /\ staging' \in {Without(staging, plan[p]), staging}
    /\ End(p, "failed")
    /\ UNCHANGED <<file, texts, draft>>

RolledBack(p) ==
    /\ job[p].at = "rollback" /\ job[p].todo = {}
    /\ \/ /\ job[p].stuck # {}
          /\ End(p, "rollback-failed")
          /\ UNCHANGED staging
       \/ /\ job[p].stuck = {}
          /\ staging' \in {Without(staging, plan[p]), staging}
          /\ End(p, "failed")
    /\ UNCHANGED <<file, texts, draft>>

(* The process dies.  Whatever it had replaced stays replaced.             *)
CrashInApply(p) ==
    /\ job[p].at # "idle"
    /\ job' = [job EXCEPT ![p] = Idle]
    /\ plan' = [plan EXCEPT ![p] = None]
    /\ result' = [result EXCEPT ![p] = None]
    /\ Unlock(p)
    /\ UNCHANGED <<file, texts, draft, staging>>

ConfigureStep(p) ==
    \/ \E edit \in BOOLEAN : PlanConfiguration(p, edit)
    \/ BeginApply(p)
    \/ Stage(p) \/ StageFails(p)
    \/ Replace(p) \/ ReplaceFails(p)
    \/ Finish(p) \/ FinishFails(p)
    \/ Restore(p) \/ RolledBack(p)
    \/ CrashInApply(p)
================================================================================
