------------------------------ MODULE ProjectTree ------------------------------
(***************************************************************************)
(* The files of one project and whoever writes them: the commands that     *)
(* publish into it, one at a time under project_mutation_lock              *)
(* (project_upgrade.py), and the user, who takes no lock.                  *)
(*                                                                         *)
(* Paths are numbered in the order portable_sort_key gives them, which is  *)
(* the order a transaction replaces them in.  The managed manifest         *)
(* (.stm32-toolkit/generated-files.json) says which files the toolkit      *)
(* generated; the user's manifest (.stm32-project.json) is the model they  *)
(* are generated from.                                                     *)
(***************************************************************************)
EXTENDS Integers

CONSTANTS
    Process,          \* commands that run on the project
    LastPath,         \* paths are 1 .. LastPath
    ManagedManifest,  \* the path of the managed manifest
    UserManifest,     \* the path of the user's project manifest
    MaxEdits,         \* bound: texts the user writes
    MaxCommands,      \* bound: commands that take the lock
    Absent,           \* no file at a path
    None              \* nobody, nothing

Path == 1 .. LastPath
GeneratedPath == Path \ {ManagedManifest, UserManifest}

ASSUME PathsAssumption ==
    /\ LastPath \in Nat /\ MaxEdits \in Nat /\ MaxCommands \in Nat
    /\ ManagedManifest \in Path /\ UserManifest \in Path
    /\ ManagedManifest # UserManifest
ASSUME NoneIsNobody == None \notin Process

Text == 0 .. MaxEdits
Model == [text : Text, pair : BOOLEAN, version : {2, 3}]  \* what the user's manifest says

Generated(m) == [generated |-> m]   \* a generated file's bytes
Edited(t) == [edited |-> t]         \* a text of the user's at a generated path
Records(m, owned) == [records |-> m, owned |-> owned]
    \* the managed manifest: the paths the toolkit owns, and the digest of
    \* Generated(m) for each of them

Bytes == Model \cup [generated : Model] \cup [edited : Text]
         \cup [records : Model, owned : SUBSET GeneratedPath]
Content == Bytes \cup {Absent}

ASSUME AbsentIsNothing == Absent \notin Bytes
ASSUME NoneIsNothing == None \notin Content

VARIABLES
    file,   \* file[i]: the bytes at path i
    texts,  \* how many times the user has written or deleted something
    draft,  \* draft[i]: the user's last text at path i and what it was saved over
    lock,   \* the process inside project_mutation_lock, or None
    commands \* how many commands have been inside it

treeVars == <<file, texts, draft, lock, commands>>

TreeTypeOK ==
    /\ file \in [Path -> Content] /\ file[UserManifest] \in Model
    /\ texts \in Text
    /\ draft \in [Path -> SUBSET Content]
    /\ lock \in Process \cup {None}
    /\ commands \in 0 .. MaxCommands

(* A project as creation or migration leaves it: a manifest, nothing yet   *)
(* configured.                                                             *)
TreeInit ==
    /\ file = [i \in Path |-> IF i = UserManifest
                              THEN [text |-> 0, pair |-> FALSE, version |-> 2]
                              ELSE Absent]
    /\ texts = 0
    /\ draft = [i \in Path |-> {}]
    /\ lock = None
    /\ commands = 0

(* The user saves a new text in an editor - in the manifest, in a generated*)
(* file, or in a file of their own where the toolkit would generate one -, *)
(* or deletes a file; or takes the last save of a file back, or makes it   *)
(* again (undo and redo), while the file is as the user left it.  No lock  *)
(* is taken, so any of it may happen at any moment.                        *)
Saved(i, c, t) == IF i = UserManifest THEN [c EXCEPT !.text = t] ELSE Edited(t)

UserSaves(i) ==
    /\ file' = [file EXCEPT ![i] = Saved(i, @, texts + 1)]
    /\ draft' = [draft EXCEPT ![i] = {file[i], Saved(i, file[i], texts + 1)}]
    /\ i # ManagedManifest

UserDeletes(i) ==
    /\ i # UserManifest /\ file[i] # Absent
    /\ file' = [file EXCEPT ![i] = Absent]
    /\ UNCHANGED draft

UserUndoes(i) ==
    /\ file[i] \in draft[i]
    /\ \E other \in draft[i] \ {file[i]} : file' = [file EXCEPT ![i] = other]
    /\ UNCHANGED draft

UserActs ==
    /\ \/ /\ texts < MaxEdits /\ texts' = texts + 1
          /\ \E i \in Path : UserSaves(i) \/ UserDeletes(i)
       \/ UNCHANGED texts /\ \E i \in Path : UserUndoes(i)
    /\ UNCHANGED <<lock, commands>>

IsEdited(c) == c \in [edited : Text]

(* project_mutation_lock locks two ledgers beside the project in a fixed   *)
(* order, the first only if it can be used: everybody inside holds the     *)
(* second.  A process that dies lets go of both.                           *)
Lock(p) ==
    /\ lock = None /\ lock' = p
    /\ commands < MaxCommands /\ commands' = commands + 1

Unlock(p) == lock = p /\ lock' = None /\ UNCHANGED commands
================================================================================
