---------------------------- MODULE ProjectCommands ----------------------------
(***************************************************************************)
(* Processes that configure and upgrade one project, and its user.         *)
(***************************************************************************)
EXTENDS ConfigureApply, ProjectUpgrade

CONSTANTS
    Configurer,  \* processes that are asked to configure
    Upgrader     \* processes that are asked to upgrade

ASSUME CommandsAssumption == Configurer \subseteq Process /\ Upgrader \subseteq Process

vars == <<treeVars, confVars, upVars>>

TypeOK == TreeTypeOK /\ ConfTypeOK /\ UpTypeOK

Init == TreeInit /\ ConfInit /\ UpInit

(* A process works on one command at a time.                               *)
Next ==
    \/ UserActs /\ UNCHANGED <<confVars, upVars>>
    \/ LedgerReady /\ UNCHANGED confVars
    \/ \E p \in Configurer : prepared[p] = None /\ ConfigureStep(p) /\ UNCHANGED upVars
    \/ \E p \in Upgrader : plan[p] = None /\ UpgradeStep(p) /\ UNCHANGED confVars

Spec == Init /\ [][Next]_vars

--------------------------------------------------------------------------------
(* The toolkit's record of what it owns tells the truth: while no command  *)
(* is inside and no staging directory is left over from one that died or   *)
(* could not undo its work, every owned file holds what was generated for  *)
(* it, or the user has changed or deleted it.  Then GENERATED_FILE_DRIFT   *)
(* ("generated files were modified outside the toolkit") is always true.   *)
RecordsTrue ==
    (lock = None /\ DOMAIN staging = {}) =>
        \A i \in Owned(file) :
            file[i] \in {Absent, Generated(file[ManagedManifest].records)} \/ IsEdited(file[i])

(* Until everything is replaced, whatever has been replaced can be put     *)
(* back, wherever a failure or a death interrupts the apply: the staging   *)
(* directory has the bytes the plan saw, or a text that the user saved     *)
(* there before the copy was made and had taken back by the recheck (the   *)
(* copy is not compared with the plan, only the file is); never nothing,   *)
(* nothing a tool wrote meanwhile, nothing of another plan's.              *)
MayBeCopied(i, seen, copy) ==
    copy = seen \/ (i # ManagedManifest /\ \E t \in Text : copy = Saved(i, seen, t))

CopiesKept ==
    \A p \in Process : \A i \in job[p].replaced :
        (~job[p].success /\ plan[p].seen[i] # Absent) =>
            MayBeCopied(i, plan[p].seen[i], staging[plan[p]][i])

(* The staging directory of an apply that is over is nobody's to change:   *)
(* no later apply, of the same plan or of another, touches the copies.     *)
CopiesSurvive ==
    [][\A pl \in DOMAIN staging :
          (\A p \in Process : job[p].at = "idle" \/ plan[p] # pl) =>
              pl \in DOMAIN staging' /\ staging'[pl] = staging[pl]]_vars

(* What the user had is never only in a file that an apply may write over. *)
WayBack == []CopiesKept /\ CopiesSurvive

(* An apply that reports a plain failure leaves none of its outputs.       *)
FailureLeavesNothing ==
    [][\A p \in Process :
          (job[p].at # "idle" /\ result'[p] = "failed" /\ job'[p].at = "idle") =>
              \A i \in Destinations(plan[p]) : file'[i] # After(plan[p], i)]_vars

(* The toolkit never replaces what the user wrote at a path it generates,  *)
(* but for a rollback, which puts the copy back over whatever is there.    *)
UserFilesKept ==
    [][\A i \in GeneratedPath :
          (IsEdited(file[i]) /\ file'[i] # file[i]) =>
              \/ UserActs
              \/ \E p \in Process : job[p].at = "rollback" /\ i \in job[p].replaced]_vars

(* An action goes ahead at most once, by whatever process, and whether or  *)
(* not the first ledger could be used when it did: once a ledger has its   *)
(* record no process gets past the consumption again, and nothing is       *)
(* published for an action that has no record.                             *)
Recorded(m) == \E l \in Ledger : m \in consumed[l]

ActionUsedOnce ==
    [][\A p \in Process :
          /\ (upgrade[p].at = "consume" /\ upgrade'[p].at = "check") => ~Recorded(prepared[p])
          /\ upgrade'[p].at = "compare" => Recorded(prepared[p])]_vars
================================================================================
