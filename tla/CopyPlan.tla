------------------------------- MODULE CopyPlan --------------------------------
(***************************************************************************)
(* copy_plan of skills/normalize-source-comments: the converted copies of  *)
(* a previewed plan are written into a new directory.  A marker says that  *)
(* the directory is incomplete; a manifest says that it is complete.       *)
(***************************************************************************)
EXTENDS Destination

CONSTANTS Files   \* the number of files of a plan

ASSUME FilesAssumption == Files \in Nat

VARIABLES
    copy,   \* copy[p]: the plan p holds and how far its copying is
    out     \* the output directory

copyVars == <<copy, out>>

(* of: the source version the copies are made of, None while there is no   *)
(* directory; files: how many copies are there; marker: INCOMPLETE.json;   *)
(* manifest: manifest.json.                                                *)
NoOutput == [of |-> None, files |-> 0, marker |-> FALSE, manifest |-> FALSE]
NoCopy == [at |-> "idle", of |-> None]

CopyTypeOK ==
    /\ copy \in [Process -> [at : {"idle", "previewed", "make", "mark", "write", "recheck",
                                   "publish", "unmark", "fail"},
                             of : Source \cup {None}]]
    /\ out \in [of : Source \cup {None}, files : 0 .. Files, marker : BOOLEAN,
                manifest : BOOLEAN]

CopyInit == copy = [p \in Process |-> NoCopy] /\ out = NoOutput

CopyTo(p, step) == copy' = [copy EXCEPT ![p].at = step]
EndCopy(p) == copy' = [copy EXCEPT ![p] = NoCopy]

Preview(p) ==
    /\ copy[p].at = "idle"
    /\ copy' = [copy EXCEPT ![p].at = "previewed", ![p].of = source]
    /\ UNCHANGED <<destVars, out>>

(* Every file is read and converted afresh and must be what the plan says; *)
(* the output directory must not exist.                                    *)
BeginCopy(p) ==
    /\ copy[p].at = "previewed"
    /\ IF source = copy[p].of /\ out.of = None THEN CopyTo(p, "make") ELSE EndCopy(p)
    /\ UNCHANGED <<destVars, out>>

(* mkdir claims the directory; another's is OUTPUT_EXISTS.                 *)
MakeOutput(p) ==
    /\ copy[p].at = "make"
    /\ \/ /\ out.of = None /\ NewJob
          /\ out' = [NoOutput EXCEPT !.of = copy[p].of]
          /\ CopyTo(p, "mark")
       \/ EndCopy(p) /\ UNCHANGED <<jobs, out>>
    /\ UNCHANGED <<dest, source, acts>>

(* Nothing is written before the marker is; without it the directory is    *)
(* removed again, as far as it lets itself be.                             *)
Mark(p) ==
    /\ copy[p].at = "mark"
    /\ \/ out' = [out EXCEPT !.marker = TRUE] /\ CopyTo(p, "write")
       \/ out' = NoOutput /\ EndCopy(p)
       \/ UNCHANGED out /\ CopyTo(p, "fail")
    /\ UNCHANGED destVars

WriteFile(p) ==
    /\ copy[p].at = "write"
    /\ IF out.files < Files
       THEN out' = [out EXCEPT !.files = @ + 1] /\ UNCHANGED copy
       ELSE CopyTo(p, "recheck") /\ UNCHANGED out
    /\ UNCHANGED destVars

(* Before the manifest is written the sources must still be the plan's.    *)
Recheck(p) ==
    /\ copy[p].at = "recheck"
    /\ CopyTo(p, IF source = copy[p].of THEN "publish" ELSE "fail")
    /\ UNCHANGED <<destVars, out>>

(* The manifest is written under another name, read back, and renamed.     *)
PublishManifest(p) ==
    /\ copy[p].at = "publish"
    /\ out' = [out EXCEPT !.manifest = TRUE]
    /\ CopyTo(p, "unmark")
    /\ UNCHANGED destVars

(* The marker goes last; if it does not go the manifest is removed again.  *)
Unmark(p) ==
    /\ copy[p].at = "unmark"
    /\ \/ out' = [out EXCEPT !.marker = FALSE] /\ EndCopy(p)
       \/ out' = [out EXCEPT !.manifest = FALSE] /\ CopyTo(p, "fail")
       \/ UNCHANGED out /\ CopyTo(p, "fail")
    /\ UNCHANGED destVars

CopyFails(p) ==
    /\ copy[p].at \in {"write", "recheck", "publish"}
    /\ CopyTo(p, "fail")
    /\ UNCHANGED <<destVars, out>>

(* The marker is rewritten with the failure, if it can be; what was        *)
(* written stays.                                                          *)
ReportFailure(p) ==
    /\ copy[p].at = "fail"
    /\ \/ out' = [out EXCEPT !.marker = TRUE]
       \/ UNCHANGED out
    /\ EndCopy(p)
    /\ UNCHANGED destVars

CrashInCopy(p) ==
    /\ copy[p].at \notin {"idle", "previewed"}
    /\ EndCopy(p)
    /\ UNCHANGED <<destVars, out>>

CopyStep(p) ==
    \/ Preview(p) \/ BeginCopy(p) \/ MakeOutput(p) \/ Mark(p)
    \/ WriteFile(p) \/ Recheck(p) \/ PublishManifest(p) \/ Unmark(p)
    \/ CopyFails(p) \/ ReportFailure(p) \/ CrashInCopy(p)
================================================================================
