------------------------ MODULE ProjectCommandsProofs -------------------------
(***************************************************************************)
(* Proofs about ProjectCommands: for any processes, any paths and any      *)
(* number of commands, the toolkit's record of what it owns is true, an    *)
(* apply always has a way back, a failed apply leaves nothing, what the    *)
(* user wrote is never replaced, and an upgrade action is used once.       *)
(***************************************************************************)
EXTENDS ProjectCommands, TLAPS

-----------------------------------------------------------------------------
(* The bytes at a path and what a plan says of them.                       *)

\* What each path can hold.
Manifests == [records : Model, owned : SUBSET GeneratedPath]
Outputs == [generated : Model] \cup [edited : Text]

KindsOf(f) ==
    /\ f \in [Path -> Content]
    /\ f[UserManifest] \in Model
    /\ f[ManagedManifest] \in {Absent} \cup Manifests
    /\ \A i \in GeneratedPath : f[i] \in {Absent} \cup Outputs

\* The managed manifest of f tells the truth.
Clean(f) ==
    \A i \in Owned(f) :
        f[i] \in {Absent, Generated(f[ManagedManifest].records)} \/ IsEdited(f[i])

\* A plan of a state the project can be in.
Reviewed(pl) == KindsOf(pl.seen) /\ pl.edit \in BOOLEAN

\* What the user can make of the bytes b at path i: another text of the manifest, nothing
\* of the managed one, nothing or a text of their own of a generated file.
MayBecome(i, b, c) ==
    IF i = UserManifest THEN c.pair = b.pair /\ c.version = b.version
    ELSE c \in {b, Absent} \/ (i \in GeneratedPath /\ IsEdited(c))

\* Where path i holds the text c of the user's, going back and forth between the last save
\* and what was before it makes nothing else of b either.
Back(i, c, b) ==
    (c \in draft[i] /\ IsEdited(c)) => \A x \in draft[i] : MayBecome(i, b, x)

\* The file at i is what the user made of b, and will be whatever they do.
Fits(i, b) == MayBecome(i, b, file[i]) /\ Back(i, file[i], b)

\* As the plan saw it, but for the user's doing; a user's own file is nobody else's.
Untouched(pl, i) == (i \in GeneratedPath /\ IsEdited(pl.seen[i])) \/ Fits(i, pl.seen[i])
Published(pl, i) == i # UserManifest => Fits(i, After(pl, i))

\* The managed manifest tells the truth and will, whatever the user does.
CleanNow == \A i \in Owned(file) : Fits(i, Generated(file[ManagedManifest].records))

\* Texts are numbered: one that is to be written has never been seen.
NoLater(c) == IsEdited(c) => c.edited <= texts

\* What undo and redo go between: manifests that differ in their text only, and at any
\* other path something of which all but one are texts of the user's.
Drafts ==
    /\ draft \in [Path -> SUBSET Content] /\ draft[ManagedManifest] = {}
    /\ \A x, y \in draft[UserManifest] :
          x \in Model /\ x.pair = y.pair /\ x.version = y.version
    /\ \A i \in GeneratedPath :
          /\ draft[i] \subseteq {Absent} \cup Outputs
          /\ \A x, y \in draft[i] : x = y \/ IsEdited(x) \/ IsEdited(y)
          /\ \A x \in draft[i] \cup {file[i]} : NoLater(x)

LEMMA Paths ==
  /\ UserManifest \in Path /\ ManagedManifest \in Path /\ UserManifest # ManagedManifest
  /\ Path = GeneratedPath \cup {UserManifest, ManagedManifest}
  /\ UserManifest \notin GeneratedPath /\ ManagedManifest \notin GeneratedPath
BY PathsAssumption DEF GeneratedPath

\* What the toolkit writes is no text of the user's.
LEMMA Distinct ==
  /\ Absent \notin Model /\ Absent \notin Manifests /\ Absent \notin Outputs
  /\ ~IsEdited(Absent)
  /\ \A m \in Model : Generated(m) \in Outputs /\ ~IsEdited(Generated(m))
  /\ \A m \in Manifests : ~IsEdited(m)
  /\ \A m \in Model : ~IsEdited(m)
  /\ \A m \in Model, n \in Model : Generated(m) = Generated(n) <=> m = n
<1>1. /\ Absent \notin Model /\ Absent \notin Manifests /\ Absent \notin Outputs
      /\ ~IsEdited(Absent)
  BY AbsentIsNothing DEF Bytes, Manifests, Outputs, IsEdited
<1>2. \A m \in Model : Generated(m) \in Outputs
  BY DEF Generated, Outputs
<1>3. ASSUME NEW m \in Model PROVE ~IsEdited(Generated(m))
  <2>1. "generated" \in DOMAIN Generated(m)
    BY DEF Generated
  <2>2. \A c \in [edited : Text] : "generated" \notin DOMAIN c
    OBVIOUS
  <2> QED
    BY <2>1, <2>2 DEF IsEdited
<1>4. ASSUME NEW m \in Manifests PROVE ~IsEdited(m)
  <2>1. "owned" \in DOMAIN m
    BY DEF Manifests
  <2>2. \A c \in [edited : Text] : "owned" \notin DOMAIN c
    OBVIOUS
  <2> QED
    BY <2>1, <2>2 DEF IsEdited
<1>5. \A m \in Model, n \in Model : Generated(m) = Generated(n) <=> m = n
  <2>1. \A m : Generated(m).generated = m
    BY DEF Generated
  <2> QED
    BY <2>1
<1>6. ASSUME NEW m \in Model PROVE ~IsEdited(m)
  <2>1. "pair" \in DOMAIN m
    BY DEF Model
  <2>2. \A c \in [edited : Text] : "pair" \notin DOMAIN c
    OBVIOUS
  <2> QED
    BY <2>1, <2>2 DEF IsEdited
<1> QED
  BY <1>1, <1>2, <1>3, <1>4, <1>5, <1>6

\* What a transaction writes, path by path.
LEMMA AfterKinds ==
  ASSUME NEW pl, Reviewed(pl)
  PROVE  /\ Effective(pl) \in Model
         /\ \/ Effective(pl) = pl.seen[UserManifest]
            \/ Effective(pl).pair /\ ~pl.seen[UserManifest].pair
         /\ After(pl, UserManifest) = Effective(pl)
         /\ After(pl, ManagedManifest) \in Manifests
         /\ After(pl, ManagedManifest).records = Effective(pl)
         /\ After(pl, ManagedManifest).owned =
               {j \in GeneratedPath : Status(pl, j) # "preserved-unowned"}
         /\ \A i \in GeneratedPath : After(pl, i) = Generated(Effective(pl))
<1>1. /\ Effective(pl) \in Model
      /\ \/ Effective(pl) = pl.seen[UserManifest]
         \/ Effective(pl).pair /\ ~pl.seen[UserManifest].pair
  <2>1. pl.seen[UserManifest] \in [text : Text, pair : BOOLEAN, version : {2, 3}]
    BY DEF Reviewed, KindsOf, Model
  <2>2. pl.seen[UserManifest].pair =>
          [pl.seen[UserManifest] EXCEPT !.pair = TRUE] = pl.seen[UserManifest]
    BY <2>1
  <2> QED
    BY <2>1, <2>2 DEF Effective, Model
<1>2. /\ After(pl, UserManifest) = Effective(pl)
      /\ \A i \in GeneratedPath : After(pl, i) = Generated(Effective(pl))
  BY Paths DEF After
<1>3. After(pl, ManagedManifest) = Records(Effective(pl),
                      {j \in GeneratedPath : Status(pl, j) # "preserved-unowned"})
  BY Paths DEF After
<1> QED
  BY <1>1, <1>2, <1>3 DEF Records, Manifests

\* The statuses that let a plan be applied.
LEMMA Statuses ==
  ASSUME NEW pl, Reviewed(pl), NEW i \in GeneratedPath
  PROVE  /\ Status(pl, i) = "create" => pl.seen[i] = Absent
         /\ Status(pl, i) = "unchanged" =>
               i \in Owned(pl.seen) /\ pl.seen[i] = Generated(Effective(pl))
         /\ Status(pl, i) = "update-managed" =>
               \/ pl.seen[i] = Absent
               \/ /\ pl.seen[ManagedManifest] \in Manifests
                  /\ pl.seen[i] = Generated(pl.seen[ManagedManifest].records)
                  /\ pl.seen[i] # Generated(Effective(pl))
         /\ Status(pl, i) = "preserved-unowned" => i \notin Owned(pl.seen)
         /\ Status(pl, i) \in {"create", "unchanged", "update-managed", "preserved-unowned",
                               "unowned-collision", "user-drift"}
<1>1. i \in Owned(pl.seen) => pl.seen[ManagedManifest] \in Manifests
  BY DEF Owned, Reviewed, KindsOf
<1>2. Absent # Generated(Effective(pl))
  BY AfterKinds, Distinct
<1> QED
  BY <1>1, <1>2 DEF Status

\* A path that is written was not the user's, and what is written is new.
LEMMA DestinationSeen ==
  ASSUME NEW pl, Reviewed(pl), NEW i \in Destinations(pl)
  PROVE  /\ i \in Path /\ After(pl, i) # pl.seen[i]
         /\ i # UserManifest => ~IsEdited(pl.seen[i])
<1>1. CASE i \in GeneratedPath
  <2>1. Status(pl, i) \in {"create", "update-managed"}
    BY <1>1, Paths DEF Destinations
  <2>2. After(pl, i) = Generated(Effective(pl)) /\ After(pl, i) # Absent
    BY <1>1, AfterKinds, Distinct
  <2>3. CASE pl.seen[i] = Absent
    BY <1>1, <2>2, <2>3, Paths, Distinct
  <2>4. CASE /\ pl.seen[ManagedManifest] \in Manifests
             /\ pl.seen[i] = Generated(pl.seen[ManagedManifest].records)
             /\ pl.seen[i] # Generated(Effective(pl))
    <3>1. pl.seen[ManagedManifest].records \in Model
      BY <2>4 DEF Manifests
    <3> QED
      BY <1>1, <2>2, <2>4, <3>1, Paths, Distinct
  <2> QED
    BY <1>1, <2>1, <2>3, <2>4, Statuses
<1>2. CASE i = UserManifest
  BY <1>2, Paths DEF Destinations
<1>3. CASE i = ManagedManifest
  <2>1. pl.seen[i] \in {Absent} \cup Manifests
    BY <1>3 DEF Reviewed, KindsOf
  <2> QED
    BY <1>3, <2>1, Paths, Distinct DEF Destinations
<1> QED
  BY <1>1, <1>2, <1>3, Paths DEF Destinations

\* What a transaction has not written is not what it would write.
LEMMA UntouchedNotAfter ==
  ASSUME NEW pl, Reviewed(pl), NEW i \in Destinations(pl), Untouched(pl, i)
  PROVE  file[i] # After(pl, i)
<1>1. i \in Path /\ After(pl, i) # pl.seen[i] /\ (i # UserManifest => ~IsEdited(pl.seen[i]))
  BY DestinationSeen
<1>2. MayBecome(i, pl.seen[i], file[i])
  BY <1>1, Paths DEF Untouched, Fits
<1>3. CASE i = UserManifest
  BY <1>1, <1>2, <1>3, AfterKinds DEF MayBecome
<1>4. CASE i # UserManifest
  <2>1. After(pl, i) \in Manifests \/ \E m \in Model : After(pl, i) = Generated(m)
    BY <1>1, <1>4, AfterKinds, Paths
  <2>2. After(pl, i) # Absent /\ ~IsEdited(After(pl, i))
    BY <2>1, Distinct
  <2> QED
    BY <1>1, <1>2, <1>4, <2>2 DEF MayBecome
<1> QED
  BY <1>3, <1>4

\* Where nothing blocks a plan, what it owns was not the user's.
LEMMA OwnedSeen ==
  ASSUME NEW pl, Reviewed(pl), ~Blocked(pl), NEW i \in GeneratedPath, i \in Owned(pl.seen)
  PROVE  ~IsEdited(pl.seen[i])
<1>1. Status(pl, i) \in {"create", "unchanged", "update-managed"}
  BY Statuses DEF Blocked
<1>2. CASE pl.seen[i] = Absent
  BY <1>2, Distinct
<1>3. CASE pl.seen[i] = Generated(Effective(pl))
  BY <1>3, AfterKinds, Distinct
<1>4. CASE /\ pl.seen[ManagedManifest] \in Manifests
           /\ pl.seen[i] = Generated(pl.seen[ManagedManifest].records)
  <2>1. pl.seen[ManagedManifest].records \in Model
    BY <1>4 DEF Manifests
  <2> QED
    BY <1>4, <2>1, Distinct
<1> QED
  BY <1>1, <1>2, <1>3, <1>4, Statuses

\* What fits no file fits any generated one.
LEMMA FitsAlso ==
  ASSUME NEW i \in GeneratedPath, NEW b, Fits(i, Absent)
  PROVE  Fits(i, b)
BY Paths DEF Fits, MayBecome, Back

\* A file that holds no text of the user's fits what it holds.
LEMMA FitsItself ==
  ASSUME NEW i, ~IsEdited(file[i])
  PROVE  Fits(i, file[i])
BY DEF Fits, MayBecome, Back

-----------------------------------------------------------------------------
(* The inductive invariant.                                                *)
(*                                                                         *)
(* Whoever is inside the lock knows of every path what it holds: what the  *)
(* plan saw, what the apply put there, or what the user has made of either *)
(* since and may make of it by undo; and of each copy that it is what the  *)
(* plan saw or what the user had made of that.                             *)

Active(p) == job[p].at # "idle"

\* Staging directories that no running apply owns.
LeftOver == {pl \in DOMAIN staging : \A p \in Process : Active(p) => plan[p] # pl}

Phase(p) ==
    /\ job[p].at = "stage" =>
          job[p].replaced = {} /\ job[p].stuck = {} /\ ~job[p].success
    /\ job[p].at = "replace" =>
          /\ job[p].todo \cup job[p].replaced = Destinations(plan[p])
          /\ job[p].stuck = {} /\ ~job[p].success
    /\ job[p].at = "rollback" =>
          /\ job[p].todo \cup job[p].stuck = job[p].replaced
          /\ job[p].todo \cap job[p].stuck = {}

\* A copy c of path i, at which the plan saw b.
GoodCopy(i, b, c) ==
    /\ c \notin {Absent, None} /\ (i = UserManifest => c \in Model)
    /\ MayBecome(i, b, c) /\ Back(i, c, b) /\ NoLater(c)

\* The copy of path i that p may need.
Copied(p, i) ==
    (/\ plan[p].seen[i] # Absent
     /\ \/ i \in job[p].replaced \/ job[p].at = "replace"
        \/ job[p].at = "stage" /\ i \notin job[p].todo) =>
        \/ GoodCopy(i, plan[p].seen[i], staging[plan[p]][i])
        \/ job[p].success /\ staging[plan[p]][i] = None

ActiveInv(p) ==
    /\ lock = p /\ plan[p] # None /\ plan[p] \in DOMAIN staging
    /\ ~Blocked(plan[p])
    /\ job[p].todo \subseteq Destinations(plan[p])
    /\ job[p].replaced \subseteq Destinations(plan[p])
    /\ Phase(p)
    /\ \A i \in Destinations(plan[p]) : Copied(p, i)
    /\ \A i \in Path : IF i \in job[p].replaced THEN Published(plan[p], i)
                       ELSE Untouched(plan[p], i)
    /\ LeftOver = {} => Clean(plan[p].seen)

UpgradeInv(p) ==
    /\ upgrade[p].at # "idle" => lock = p /\ prepared[p] # None /\ ~Active(p)
    /\ upgrade[p].at \in {"compare", "restore"} => upgrade[p].displaced # None
    /\ upgrade[p].at \in {"check", "publish", "compare", "restore"} => Recorded(prepared[p])

TreeInv ==
    /\ KindsOf(file) /\ Drafts
    /\ ~ready => consumed["first"] = {}
    /\ LeftOver = {} /\ (\A p \in Process : ~Active(p)) => CleanNow

ProjectInv ==
    /\ TreeInv
    /\ \A p \in Process : /\ plan[p] # None => Reviewed(plan[p])
                          /\ Active(p) => ActiveInv(p)
                          /\ UpgradeInv(p)

IInv == TypeOK /\ ProjectInv

LEMMA InitInv == Init => IInv
<1> SUFFICES ASSUME Init PROVE IInv
  OBVIOUS
<1> USE DEF Init, TreeInit, ConfInit, UpInit
<1>1. [text |-> 0, pair |-> FALSE, version |-> 2] \in Model
  BY PathsAssumption DEF Model, Text
<1>2. KindsOf(file) /\ Drafts /\ Owned(file) = {}
  BY <1>1, Paths, Distinct DEF KindsOf, Content, Bytes, Owned, Drafts, NoLater
<1>3. \A p \in Process : ~Active(p)
  BY DEF Active, Idle
<1>4. TypeOK
  <2>1. TreeTypeOK
    BY <1>2, PathsAssumption DEF TreeTypeOK, KindsOf, Text, Drafts
  <2>2. Idle \in Job
    BY DEF Idle, Job
  <2>3. DOMAIN staging = {}
    OBVIOUS
  <2>4. ConfTypeOK
    BY <2>2, <2>3 DEF ConfTypeOK
  <2>5. UpTypeOK
    BY DEF UpTypeOK, Inactive
  <2> QED
    BY <2>1, <2>4, <2>5 DEF TypeOK
<1>5. TreeInv
  BY <1>2 DEF TreeInv, CleanNow, Ledger
<1>6. \A p \in Process : UpgradeInv(p)
  BY <1>3 DEF UpgradeInv, Inactive
<1> QED
  BY <1>3, <1>4, <1>5, <1>6 DEF IInv, ProjectInv

-----------------------------------------------------------------------------
(* Who is inside is alone.                                                 *)

LEMMA Alone ==
  ASSUME ProjectInv, NEW p \in Process, Active(p) \/ upgrade[p].at # "idle"
  PROVE  /\ lock = p
         /\ \A q \in Process \ {p} : ~Active(q) /\ upgrade[q].at = "idle"
BY DEF ProjectInv, UpgradeInv, ActiveInv

LEMMA NobodyInside ==
  ASSUME ProjectInv, lock = None, NEW p \in Process
  PROVE  ~Active(p) /\ upgrade[p].at = "idle"
BY NoneIsNobody DEF ProjectInv, UpgradeInv, ActiveInv

\* All paths hold what the plan saw, or what the user made of it.
LEMMA UntouchedIsClean ==
  ASSUME KindsOf(file), NEW pl, Reviewed(pl), ~Blocked(pl), Clean(pl.seen),
         \A i \in Path : Untouched(pl, i)
  PROVE  CleanNow
<1> SUFFICES ASSUME NEW i \in Owned(file)
             PROVE  Fits(i, Generated(file[ManagedManifest].records))
  BY DEF CleanNow
<1>1. file[ManagedManifest] \in Manifests /\ i \in GeneratedPath
  BY DEF Owned, KindsOf, Manifests
<1>2. file[ManagedManifest] = pl.seen[ManagedManifest]
  <2>1. Untouched(pl, ManagedManifest)
    BY Paths
  <2> QED
    BY <1>1, <2>1, Paths, Distinct DEF Untouched, Fits, MayBecome
<1>3. i \in Owned(pl.seen)
  BY <1>2 DEF Owned
<1>4. ~IsEdited(pl.seen[i]) /\ Fits(i, pl.seen[i])
  BY <1>1, <1>3, OwnedSeen, Paths DEF Untouched
<1>5. pl.seen[i] \in {Absent, Generated(file[ManagedManifest].records)}
  BY <1>2, <1>3, <1>4 DEF Clean
<1> QED
  BY <1>1, <1>4, <1>5, FitsAlso

LEMMA CleanNowIsClean ==
  ASSUME KindsOf(file), CleanNow
  PROVE  Clean(file)
<1>1. Owned(file) \subseteq GeneratedPath
  BY DEF KindsOf, Owned, Manifests
<1> QED
  BY <1>1, Paths DEF CleanNow, Clean, Fits, MayBecome

\* All destinations hold what the transaction wrote, or what the user made of it.
LEMMA PublishedIsClean ==
  ASSUME KindsOf(file), NEW pl, Reviewed(pl), ~Blocked(pl),
         \A i \in Path : IF i \in Destinations(pl) THEN Published(pl, i)
                         ELSE Untouched(pl, i)
  PROVE  CleanNow
<1> SUFFICES ASSUME NEW i \in Owned(file)
             PROVE  Fits(i, Generated(file[ManagedManifest].records))
  BY DEF CleanNow
<1>1. file[ManagedManifest] \in Manifests /\ i \in GeneratedPath
  BY DEF Owned, KindsOf, Manifests
<1>2. file[ManagedManifest] = After(pl, ManagedManifest)
  <2>1. ManagedManifest \notin Destinations(pl) => pl.seen[ManagedManifest] = After(pl, ManagedManifest)
    BY DEF Destinations
  <2>2. IF ManagedManifest \in Destinations(pl) THEN Published(pl, ManagedManifest)
        ELSE Untouched(pl, ManagedManifest)
    BY Paths
  <2> QED
    BY <1>1, <2>1, <2>2, Paths, Distinct DEF Published, Untouched, Fits, MayBecome
<1>3. /\ file[ManagedManifest].records = Effective(pl)
      /\ Status(pl, i) # "preserved-unowned"
  BY <1>2, AfterKinds, Distinct, Paths DEF Owned
<1>4. After(pl, i) = Generated(Effective(pl)) /\ i \in Path /\ i # UserManifest
  BY <1>1, AfterKinds, Paths
<1>5. CASE i \in Destinations(pl)
  BY <1>3, <1>4, <1>5 DEF Published
<1>6. CASE i \notin Destinations(pl)
  <2>1. Status(pl, i) = "unchanged"
    BY <1>1, <1>3, <1>6, Statuses DEF Destinations, Blocked
  <2>2. pl.seen[i] = Generated(Effective(pl)) /\ ~IsEdited(pl.seen[i])
    BY <1>1, <2>1, Statuses, AfterKinds, Distinct
  <2> QED
    BY <1>3, <1>4, <1>6, <2>2 DEF Untouched
<1> QED
  BY <1>5, <1>6

-----------------------------------------------------------------------------
(* The user.                                                               *)

\* What the user does at one path j.
LEMMA UserActsAt ==
  ASSUME KindsOf(file), Drafts, texts \in Text, UserActs
  PROVE  /\ texts' \in Text /\ texts <= texts'
         /\ \E j \in Path :
               /\ file' \in [Path -> Content] /\ draft' \in [Path -> SUBSET Content]
               /\ \A k \in Path \ {j} : file'[k] = file[k] /\ draft'[k] = draft[k]
               /\ \/ /\ j # ManagedManifest /\ texts' = texts + 1
                     /\ file'[j] = Saved(j, file[j], texts')
                     /\ draft'[j] = {file[j], file'[j]}
                  \/ j # UserManifest /\ file'[j] = Absent /\ draft'[j] = draft[j]
                  \/ file[j] \in draft[j] /\ file'[j] \in draft[j] /\ draft'[j] = draft[j]
<1>1. file \in [Path -> Content] /\ draft \in [Path -> SUBSET Content] /\ texts \in Int
  BY DEF KindsOf, Drafts, Text
<1>2. ASSUME NEW j \in Path, UserUndoes(j), UNCHANGED texts
      PROVE  /\ file' \in [Path -> Content] /\ draft' = draft
             /\ \A k \in Path \ {j} : file'[k] = file[k]
             /\ file[j] \in draft[j] /\ file'[j] \in draft[j]
  BY <1>1, <1>2 DEF UserUndoes
<1>3. ASSUME NEW j \in Path, UserDeletes(j)
      PROVE  /\ file' \in [Path -> Content] /\ draft' = draft
             /\ \A k \in Path \ {j} : file'[k] = file[k]
             /\ file'[j] = Absent /\ j # UserManifest
  BY <1>1, <1>3 DEF UserDeletes, Content
<1>4. ASSUME NEW j \in Path, UserSaves(j), texts + 1 \in Text
      PROVE  /\ file' \in [Path -> Content] /\ draft' \in [Path -> SUBSET Content]
             /\ \A k \in Path \ {j} : file'[k] = file[k] /\ draft'[k] = draft[k]
             /\ file'[j] = Saved(j, file[j], texts + 1) /\ j # ManagedManifest
             /\ draft'[j] = {file[j], file'[j]}
  <2> DEFINE new == Saved(j, file[j], texts + 1)
  <2>1. new \in Content
    BY <1>4 DEF Saved, Edited, KindsOf, Model, Content, Bytes
  <2>2. /\ file' = [file EXCEPT ![j] = new] /\ draft' = [draft EXCEPT ![j] = {file[j], new}]
        /\ j # ManagedManifest
    BY <1>4 DEF UserSaves
  <2> HIDE DEF new
  <2> QED
    BY <1>1, <2>1, <2>2 DEF new
<1>5. CASE UNCHANGED texts /\ \E i \in Path : UserUndoes(i)
  BY <1>1, <1>2, <1>5
<1>6. CASE texts < MaxEdits /\ texts' = texts + 1 /\ \E i \in Path : UserSaves(i) \/ UserDeletes(i)
  <2>1. texts + 1 \in Text /\ texts <= texts'
    BY <1>1, <1>6, PathsAssumption DEF Text
  <2> QED
    BY <1>1, <1>3, <1>4, <1>6, <2>1
<1> QED
  BY <1>5, <1>6 DEF UserActs

\* A new text, and what it makes of what was there.
LEMMA NewText ==
  ASSUME NEW j \in Path, NEW c, NEW t \in Text, j = UserManifest => c \in Model
  PROVE  /\ j = UserManifest => /\ Saved(j, c, t) \in Model
                                /\ Saved(j, c, t).pair = c.pair
                                /\ Saved(j, c, t).version = c.version
         /\ j # UserManifest => /\ Saved(j, c, t) = Edited(t) /\ Saved(j, c, t) \in Outputs
                                /\ IsEdited(Saved(j, c, t)) /\ Saved(j, c, t).edited = t
BY DEF Saved, Model, Edited, Outputs, IsEdited

\* What is the user's goes on fitting, whatever they do, in a file and in a copy.
LEMMA UserMoves ==
  ASSUME KindsOf(file), Drafts, texts \in Text, UserActs
  PROVE  /\ KindsOf(file)' /\ Drafts' /\ texts' \in Text /\ texts <= texts'
         /\ file'[ManagedManifest] \in {Absent, file[ManagedManifest]}
         /\ \A i \in Path : \A b : Fits(i, b) => Fits(i, b)'
         /\ \A i \in Path : \A b, c : (NoLater(c) /\ Back(i, c, b)) => Back(i, c, b)'
<1>1. PICK j \in Path :
        /\ file' \in [Path -> Content] /\ draft' \in [Path -> SUBSET Content]
        /\ \A k \in Path \ {j} : file'[k] = file[k] /\ draft'[k] = draft[k]
        /\ \/ /\ j # ManagedManifest /\ texts' = texts + 1
              /\ file'[j] = Saved(j, file[j], texts')
              /\ draft'[j] = {file[j], file'[j]}
           \/ j # UserManifest /\ file'[j] = Absent /\ draft'[j] = draft[j]
           \/ file[j] \in draft[j] /\ file'[j] \in draft[j] /\ draft'[j] = draft[j]
  BY UserActsAt
<1>2. texts' \in Text /\ texts <= texts' /\ texts \in Int /\ texts' \in Int
  BY UserActsAt DEF Text
<1>3. \A c : NoLater(c) => NoLater(c)'
  BY <1>2 DEF NoLater, IsEdited, Text
<1>4. file[UserManifest] \in Model
  BY DEF KindsOf
<1>5. CASE j = UserManifest
  <2>1. \A i \in Path \ {j} : file'[i] = file[i] /\ draft'[i] = draft[i]
    BY <1>1
  <2>2. /\ file'[j] \in Model /\ file'[j].pair = file[j].pair
        /\ file'[j].version = file[j].version
        /\ \A x, y \in draft'[j] : x \in Model /\ x.pair = y.pair /\ x.version = y.version
    <3>1. CASE file'[j] = Saved(j, file[j], texts') /\ draft'[j] = {file[j], file'[j]}
      BY <1>2, <1>4, <1>5, <3>1, NewText
    <3>2. CASE file[j] \in draft[j] /\ file'[j] \in draft[j] /\ draft'[j] = draft[j]
      BY <1>5, <3>2 DEF Drafts
    <3> QED
      BY <1>1, <1>5, <3>1, <3>2
  <2>3. KindsOf(file)'
    BY <1>1, <1>5, <2>1, <2>2, Paths DEF KindsOf
  <2>4. Drafts'
    BY <1>1, <1>3, <1>5, <2>1, <2>2, Paths DEF Drafts
  <2>5. \A c \in draft[j] \cup draft'[j] : ~IsEdited(c)
    BY <1>5, <2>2, Distinct DEF Drafts
  <2>6. \A b, c : Back(j, c, b)'
    BY <2>5 DEF Back
  <2>7. \A i \in Path : \A b : Fits(i, b) => Fits(i, b)'
    BY <1>5, <2>1, <2>2, <2>6 DEF Fits, MayBecome, Back
  <2>8. \A i \in Path : \A b, c : Back(i, c, b) => Back(i, c, b)'
    BY <2>1, <2>6 DEF Back
  <2> QED
    BY <1>2, <1>5, <2>1, <2>3, <2>4, <2>7, <2>8, Paths
<1>6. CASE j = ManagedManifest
  <2>1. file'[j] = Absent /\ draft'[j] = {} /\ draft[j] = {}
    BY <1>1, <1>6 DEF Drafts
  <2>2. KindsOf(file)'
    BY <1>1, <1>6, <2>1, Paths DEF KindsOf
  <2>3. Drafts'
    BY <1>1, <1>3, <1>6, <2>1, Paths DEF Drafts
  <2>4. \A i \in Path : \A b : Fits(i, b) => Fits(i, b)'
    BY <1>1, <1>6, <2>1, Paths DEF Fits, MayBecome, Back
  <2>5. \A i \in Path : \A b, c : Back(i, c, b) => Back(i, c, b)'
    BY <1>1, <2>1 DEF Back
  <2> QED
    BY <1>2, <1>6, <2>1, <2>2, <2>3, <2>4, <2>5
<1>7. CASE j \in GeneratedPath
  <2>1. j # UserManifest /\ j # ManagedManifest
    BY <1>7, Paths
  <2>2. /\ draft[j] \subseteq {Absent} \cup Outputs /\ file[j] \in {Absent} \cup Outputs
        /\ \A x, y \in draft[j] : x = y \/ IsEdited(x) \/ IsEdited(y)
        /\ \A x \in draft[j] \cup {file[j]} : NoLater(x)
    BY <1>7 DEF Drafts, KindsOf
  <2>3. CASE /\ texts' = texts + 1 /\ file'[j] = Saved(j, file[j], texts')
             /\ draft'[j] = {file[j], file'[j]}
    <3>1. file'[j] \in Outputs /\ IsEdited(file'[j]) /\ file'[j].edited = texts'
      BY <1>2, <2>1, <2>3, NewText
    <3>2. file'[j].edited <= texts' /\ ~(file'[j].edited <= texts)
      BY <1>2, <2>3, <3>1
    <3>3. KindsOf(file)'
      BY <1>1, <1>7, <2>1, <3>1, Paths DEF KindsOf
    <3>4. Drafts'
      <4>1. \A x \in draft'[j] \cup {file'[j]} : NoLater(x)'
        BY <1>3, <2>2, <2>3, <3>2 DEF NoLater
      <4> QED
        BY <1>1, <1>3, <1>7, <2>1, <2>2, <2>3, <3>1, <4>1, Paths DEF Drafts
    <3>5. \A b : MayBecome(j, b, file[j]) =>
                    MayBecome(j, b, file'[j]) /\ \A x \in draft'[j] : MayBecome(j, b, x)
      BY <1>7, <2>1, <2>3, <3>1 DEF MayBecome
    <3>6. \A i \in Path : \A b : Fits(i, b) => Fits(i, b)'
      BY <1>1, <3>5 DEF Fits, MayBecome, Back
    <3>7. \A b, c : NoLater(c) => Back(j, c, b)'
      BY <1>7, <2>1, <2>3, <3>1, <3>2 DEF Back, MayBecome, NoLater
    <3>8. \A i \in Path : \A b, c : (NoLater(c) /\ Back(i, c, b)) => Back(i, c, b)'
      BY <1>1, <3>7 DEF Back
    <3> QED
      BY <1>1, <1>2, <2>1, <3>3, <3>4, <3>6, <3>8, Paths
  <2>4. CASE /\ draft'[j] = draft[j]
             /\ file'[j] = Absent \/ (file[j] \in draft[j] /\ file'[j] \in draft[j])
    <3>1. draft' = draft
      BY <1>1, <2>4 DEF Drafts
    <3>2. /\ file'[j] \in {Absent} \cup Outputs
          /\ IsEdited(file'[j]) => file'[j].edited <= texts'
      <4>1. \A c : NoLater(c) => (IsEdited(c) => c.edited <= texts')
        BY <1>3 DEF NoLater
      <4> QED
        BY <2>2, <2>4, <4>1, Distinct
    <3>3. KindsOf(file)'
      BY <1>1, <1>7, <2>1, <3>2, Paths DEF KindsOf
    <3>4. Drafts'
      <4>1. \A x \in draft'[j] \cup {file'[j]} : NoLater(x)'
        BY <1>3, <2>2, <3>1, <3>2 DEF NoLater
      <4> QED
        BY <1>1, <1>3, <1>7, <2>1, <2>2, <3>1, <3>2, <4>1, Paths DEF Drafts
    <3>5. ASSUME NEW b, Fits(j, b) PROVE Fits(j, b)'
      <4>1. CASE file'[j] = Absent
        BY <2>1, <4>1, Distinct DEF Fits, MayBecome, Back
      <4>2. CASE file[j] \in draft[j] /\ file'[j] \in draft[j]
        <5>1. ASSUME NEW x \in draft[j] PROVE MayBecome(j, b, x)
          <6>1. CASE IsEdited(file[j])
            BY <3>5, <4>2, <5>1, <6>1 DEF Fits, Back
          <6>2. CASE ~IsEdited(file[j])
            BY <1>7, <2>1, <2>2, <3>5, <4>2, <5>1, <6>2 DEF Fits, MayBecome
          <6> QED
            BY <6>1, <6>2
        <5> QED
          BY <3>1, <4>2, <5>1 DEF Fits, MayBecome, Back
      <4> QED
        BY <2>4, <4>1, <4>2
    <3>6. \A i \in Path : \A b : Fits(i, b) => Fits(i, b)'
      BY <1>1, <3>5 DEF Fits, MayBecome, Back
    <3>7. \A i \in Path : \A b, c : Back(i, c, b) => Back(i, c, b)'
      BY <3>1 DEF Back, MayBecome
    <3> QED
      BY <1>1, <1>2, <2>1, <3>3, <3>4, <3>6, <3>7, Paths
  <2> QED
    BY <1>1, <2>3, <2>4
<1> QED
  BY <1>5, <1>6, <1>7, Paths

-----------------------------------------------------------------------------
(* Types.                                                                  *)

LEMMA ReviewedIsPlan ==
  ASSUME NEW pl, Reviewed(pl), NEW i \in Path
  PROVE  After(pl, i) \in Content /\ Destinations(pl) \subseteq Path
BY AfterKinds, Paths DEF Content, Bytes, Manifests, Outputs, Generated, Destinations

LEMMA LockTypes ==
  ASSUME TreeTypeOK, NEW p \in Process, Lock(p) \/ Unlock(p)
  PROVE  lock' \in Process \cup {None} /\ commands' \in 0 .. MaxCommands
BY PathsAssumption DEF TreeTypeOK, Lock, Unlock

\* An apply that ends, and the process is idle.
LEMMA EndTypes ==
  ASSUME TypeOK, NEW p \in Process,
         NEW r \in {None, "applied", "refused", "failed", "rollback-failed"},
         End(p, r), UNCHANGED <<file, texts, draft>>, staging' \in {staging, Without(staging, plan[p])},
         UNCHANGED upVars
  PROVE  TypeOK'
<1>1. Idle \in Job
  BY DEF Idle, Job
<1>2. TreeTypeOK'
  BY LockTypes DEF TypeOK, TreeTypeOK, End
<1>3. /\ plan' \in [Process -> Plan \cup {None}] /\ job' \in [Process -> Job]
      /\ result' \in [Process -> {None, "applied", "refused", "failed", "rollback-failed"}]
  BY <1>1 DEF End, TypeOK, ConfTypeOK
<1>4. /\ DOMAIN staging' \subseteq DOMAIN staging
      /\ \A pl \in DOMAIN staging' : staging'[pl] = staging[pl]
  BY DEF Without
<1> QED
  BY <1>2, <1>3, <1>4 DEF TypeOK, ConfTypeOK, UpTypeOK, upVars

LEMMA BeginApplyTypes ==
  ASSUME IInv, NEW p \in Process, BeginApply(p), UNCHANGED upVars
  PROVE  TypeOK'
<1> USE DEF IInv, TypeOK
<1>1. CASE /\ Lock(p)
           /\ job' = [job EXCEPT ![p] = [Idle EXCEPT !.at = "stage",
                                                     !.todo = Destinations(plan[p])]]
           /\ staging' = With(staging, plan[p], [i \in Path |-> None])
           /\ UNCHANGED <<plan, result>>
  <2>1. plan[p] # None /\ Reviewed(plan[p]) /\ plan[p] \in Plan
    BY DEF BeginApply, ProjectInv, ConfTypeOK
  <2>2. Destinations(plan[p]) \subseteq Path
    BY <2>1, ReviewedIsPlan, Paths
  <2>3. [Idle EXCEPT !.at = "stage", !.todo = Destinations(plan[p])] \in Job
    BY <2>2 DEF Idle, Job
  <2>4. /\ DOMAIN staging' = DOMAIN staging \cup {plan[p]}
        /\ \A pl \in DOMAIN staging' : staging'[pl] \in [Path -> Content \cup {None}]
    BY <1>1 DEF With, ConfTypeOK
  <2>5. TreeTypeOK'
    BY <1>1, LockTypes DEF TreeTypeOK, BeginApply
  <2> QED
    BY <1>1, <2>1, <2>3, <2>4, <2>5 DEF ConfTypeOK, UpTypeOK, upVars
<1>2. CASE /\ result' \in {[result EXCEPT ![p] = "applied"], [result EXCEPT ![p] = "refused"]}
           /\ plan' = [plan EXCEPT ![p] = None]
           /\ UNCHANGED <<lock, commands, job, staging>>
  BY <1>2 DEF BeginApply, TreeTypeOK, ConfTypeOK, UpTypeOK, upVars
<1> QED
  BY <1>1, <1>2 DEF BeginApply

-----------------------------------------------------------------------------
(* Configuring: a step of p leaves the others alone.                       *)

LEMMA OthersKept ==
  ASSUME IInv, NEW p \in Process, lock = None \/ Active(p),
         UNCHANGED <<texts, upVars>>,
         NEW q \in Process \ {p}, job'[q] = job[q], plan'[q] = plan[q]
  PROVE  (plan[q] # None => Reviewed(plan[q]))' /\ ~Active(q)' /\ UpgradeInv(q)'
<1>1. ~Active(q) /\ upgrade[q].at = "idle"
  BY Alone, NobodyInside DEF IInv
<1> QED
  BY <1>1 DEF IInv, ProjectInv, UpgradeInv, Active, Reviewed, upVars

\* What is not written fits as before.
LEMMA Unmoved ==
  ASSUME UNCHANGED <<file, texts, draft>>
  PROVE  /\ KindsOf(file)' = KindsOf(file) /\ Drafts' = Drafts
         /\ CleanNow' = CleanNow
         /\ \A pl, i : /\ Untouched(pl, i)' = Untouched(pl, i)
                      /\ Published(pl, i)' = Published(pl, i)
<1>1. \A i, b : Fits(i, b)' = Fits(i, b)
  BY DEF Fits, Back, MayBecome
<1> QED
  BY <1>1 DEF KindsOf, Drafts, NoLater, CleanNow, Untouched, Published, Owned

\* An apply goes on.
LEMMA Works ==
  ASSUME IInv, NEW p \in Process, Active(p),
         UNCHANGED <<texts, draft, lock, commands, plan, result, upVars>>,
         NEW new \in Job, new.at # "idle", job' = [job EXCEPT ![p] = new],
         KindsOf(file)', Drafts',
         DOMAIN staging' = DOMAIN staging,
         \A pl \in DOMAIN staging : staging'[pl] \in [Path -> Content \cup {None}],
         new.todo \subseteq Destinations(plan[p]), new.replaced \subseteq Destinations(plan[p]),
         Phase(p)', \A i \in Destinations(plan[p]) : Copied(p, i)',
         \A i \in Path : IF i \in new.replaced THEN Published(plan[p], i)'
                         ELSE Untouched(plan[p], i)'
  PROVE  IInv'
<1>1. /\ job'[p] = new /\ \A q \in Process \ {p} : job'[q] = job[q]
  BY DEF IInv, TypeOK, ConfTypeOK
<1>2. TypeOK'
  BY DEF IInv, TypeOK, TreeTypeOK, ConfTypeOK, UpTypeOK, upVars, KindsOf
<1>3. \A q \in Process : Active(q)' = Active(q)
  BY <1>1 DEF Active
<1>4. LeftOver' = LeftOver
  BY <1>3 DEF LeftOver
<1>5. ActiveInv(p) /\ Reviewed(plan[p]) /\ UpgradeInv(p)
  BY DEF IInv, ProjectInv, ActiveInv
<1>6. Reviewed(plan[p])'
  BY <1>5 DEF Reviewed
<1>7. ActiveInv(p)'
  BY <1>1, <1>4, <1>5 DEF ActiveInv
<1>8. UpgradeInv(p)'
  BY <1>3, <1>5 DEF UpgradeInv, upVars, Recorded
<1>9. \A q \in Process \ {p} : /\ (plan[q] # None => Reviewed(plan[q]))'
                               /\ ~Active(q)' /\ UpgradeInv(q)'
  BY <1>1, OthersKept
<1>10. TreeInv'
  BY <1>3 DEF IInv, ProjectInv, TreeInv, upVars
<1> QED
  BY <1>2, <1>6, <1>7, <1>8, <1>9, <1>10 DEF IInv, ProjectInv

\* An apply ends.
LEMMA Ends ==
  ASSUME IInv, NEW p \in Process, Active(p),
         NEW r \in {None, "applied", "refused", "failed", "rollback-failed"},
         End(p, r), UNCHANGED <<file, texts, draft, upVars>>,
         \/ staging' = staging
         \/ staging' = Without(staging, plan[p]) /\ (Clean(plan[p].seen) => CleanNow)
  PROVE  IInv'
<1>1. TypeOK'
  BY EndTypes DEF IInv
<1>2. /\ job'[p] = Idle /\ plan'[p] = None /\ Idle.at = "idle"
      /\ \A q \in Process \ {p} : job'[q] = job[q] /\ plan'[q] = plan[q]
  BY DEF End, IInv, TypeOK, ConfTypeOK, Idle
<1>3. \A q \in Process \ {p} : /\ (plan[q] # None => Reviewed(plan[q]))'
                               /\ ~Active(q)' /\ UpgradeInv(q)'
  BY <1>2, OthersKept
<1>4. ~Active(p)' /\ ActiveInv(p) /\ upgrade[p].at = "idle"
  BY <1>2 DEF IInv, ProjectInv, UpgradeInv, Active
<1>5. UpgradeInv(p)'
  BY <1>4 DEF IInv, ProjectInv, UpgradeInv, upVars
<1>6. LeftOver' = DOMAIN staging'
  BY <1>3, <1>4 DEF LeftOver
<1>7. LeftOver' = {} => CleanNow
  <2>1. CASE staging' = staging
    BY <1>4, <1>6, <2>1 DEF ActiveInv
  <2>2. CASE staging' = Without(staging, plan[p]) /\ (Clean(plan[p].seen) => CleanNow)
    <3>1. LeftOver \subseteq DOMAIN staging \ {plan[p]}
      BY DEF LeftOver
    <3>2. DOMAIN staging' = DOMAIN staging \ {plan[p]}
      BY <2>2 DEF Without
    <3> QED
      BY <1>4, <1>6, <2>2, <3>1, <3>2 DEF ActiveInv
  <2> QED
    BY <2>1, <2>2
<1>8. TreeInv'
  BY <1>7, Unmoved DEF IInv, ProjectInv, TreeInv, upVars
<1> QED
  BY <1>1, <1>2, <1>3, <1>4, <1>5, <1>8 DEF IInv, ProjectInv

LEMMA PlanConfigurationInv ==
  ASSUME IInv, NEW p \in Process, NEW edit \in BOOLEAN, PlanConfiguration(p, edit), UNCHANGED upVars
  PROVE  IInv'
<1> DEFINE pl == [seen |-> file, edit |-> edit]
<1>1. /\ plan' = [plan EXCEPT ![p] = pl] /\ UNCHANGED <<treeVars, job, staging>>
      /\ ~Active(p)
  BY DEF PlanConfiguration, Active
<1>2. pl.seen = file /\ pl.edit = edit /\ file \in [Path -> Content] /\ pl \in Plan
  BY DEF IInv, ProjectInv, TreeInv, KindsOf, Plan
<1>3. Reviewed(pl)
  BY <1>1, <1>2 DEF IInv, ProjectInv, TreeInv, Reviewed
<1> HIDE DEF pl
<1>4. plan'[p] = pl /\ \A q \in Process \ {p} : plan'[q] = plan[q]
  BY <1>1 DEF IInv, TypeOK, ConfTypeOK
<1>5. TypeOK'
  BY <1>1, <1>2 DEF PlanConfiguration, IInv, TypeOK, TreeTypeOK, ConfTypeOK, UpTypeOK, upVars,
     treeVars
<1>6. \A q \in Process : Active(q)' = Active(q)
  BY <1>1 DEF Active
<1>7. LeftOver' = LeftOver
  BY <1>1, <1>4, <1>6 DEF LeftOver
<1>8. \A q \in Process : UpgradeInv(q)'
  BY <1>1, <1>6 DEF IInv, ProjectInv, UpgradeInv, upVars, treeVars, Recorded
<1>9. ASSUME NEW q \in Process, Active(q) PROVE ActiveInv(q)'
  <2>1. plan'[q] = plan[q] /\ ActiveInv(q)
    BY <1>1, <1>4, <1>9 DEF IInv, ProjectInv
  <2> QED
    BY <1>1, <1>7, <2>1, Unmoved
       DEF ActiveInv, treeVars, Phase, Copied, GoodCopy, Back, NoLater
<1>10. TreeInv'
  BY <1>1, <1>6, <1>7, Unmoved DEF IInv, ProjectInv, TreeInv, upVars, treeVars
<1>11. \A q \in Process : (plan[q] # None => Reviewed(plan[q]))'
  BY <1>1, <1>3, <1>4 DEF IInv, ProjectInv, Reviewed
<1> QED
  BY <1>5, <1>6, <1>8, <1>9, <1>10, <1>11 DEF IInv, ProjectInv

LEMMA BeginApplyInv ==
  ASSUME IInv, NEW p \in Process, BeginApply(p), UNCHANGED upVars
  PROVE  IInv'
<1> DEFINE pl == plan[p]
<1>1. /\ pl # None /\ ~Active(p) /\ lock = None /\ UNCHANGED <<file, texts, draft>>
      /\ Reviewed(pl) /\ upgrade[p].at = "idle"
  BY NobodyInside DEF BeginApply, Active, IInv, ProjectInv
<1>2. TypeOK'
  BY BeginApplyTypes
<1>3. \A q \in Process : ~Active(q) /\ upgrade[q].at = "idle"
  BY <1>1, NobodyInside DEF IInv
<1>4. CASE /\ Admissible(plan[p]) /\ Lock(p)
           /\ job' = [job EXCEPT ![p] = [Idle EXCEPT !.at = "stage",
                                                     !.todo = Destinations(plan[p])]]
           /\ staging' = With(staging, plan[p], [i \in Path |-> None])
           /\ UNCHANGED <<plan, result>>
  <2>1. /\ job'[p].at = "stage" /\ job'[p].todo = Destinations(pl) /\ job'[p].replaced = {}
        /\ job'[p].stuck = {} /\ ~job'[p].success
        /\ \A q \in Process \ {p} : job'[q] = job[q]
    BY <1>4 DEF IInv, TypeOK, ConfTypeOK, Idle
  <2>2. pl.seen = file /\ ~Blocked(pl) /\ pl \in DOMAIN staging' /\ DOMAIN staging' = DOMAIN staging \cup {pl}
    BY <1>4 DEF Admissible, With
  <2>3. \A q \in Process \ {p} : /\ (plan[q] # None => Reviewed(plan[q]))'
                                 /\ ~Active(q)' /\ UpgradeInv(q)'
    BY <1>1, <1>4, <2>1, OthersKept
  <2>4. Active(p)' /\ UpgradeInv(p)' /\ Reviewed(plan[p])'
    BY <1>1, <1>4, <2>1 DEF Active, UpgradeInv, IInv, ProjectInv, upVars, Reviewed
  <2>5. LeftOver' = {} => Clean(file)
    <3>1. LeftOver = DOMAIN staging
      BY <1>3 DEF LeftOver
    <3>2. LeftOver' = DOMAIN staging
      BY <1>4, <2>2, <2>3, <2>4 DEF LeftOver, Admissible
    <3> QED
      BY <1>3, <3>1, <3>2, CleanNowIsClean DEF IInv, ProjectInv, TreeInv
  <2>6. ActiveInv(p)'
    <3>1. lock' = p /\ plan'[p] = pl
      BY <1>4 DEF Lock
    <3>3. \A i \in Path : Untouched(pl, i)'
      <4> SUFFICES ASSUME NEW i \in Path PROVE Untouched(pl, i)
        BY <1>1, <1>4 DEF Untouched, Fits, MayBecome, Back
      <4>1. CASE i \in GeneratedPath /\ IsEdited(pl.seen[i])
        BY <4>1 DEF Untouched
      <4>2. CASE ~(i \in GeneratedPath /\ IsEdited(pl.seen[i]))
        <5>1. ~IsEdited(file[i])
          BY <2>2, <4>2, Paths, Distinct DEF IInv, ProjectInv, TreeInv, KindsOf
        <5> QED
          BY <2>2, <5>1, FitsItself DEF Untouched
      <4> QED
        BY <4>1, <4>2
    <3>4. \A i \in Destinations(pl) : Copied(p, i)'
      BY <2>1, <3>1 DEF Copied
    <3> QED
      BY <1>1, <2>1, <2>2, <2>5, <3>1, <3>3, <3>4 DEF ActiveInv, Phase
  <2>7. TreeInv'
    BY <1>1, <2>4, Unmoved DEF IInv, ProjectInv, TreeInv, upVars
  <2> QED
    BY <1>2, <2>3, <2>4, <2>6, <2>7 DEF IInv, ProjectInv
<1>5. CASE plan' = [plan EXCEPT ![p] = None] /\ UNCHANGED <<lock, commands, job, staging>>
  <2>1. plan'[p] = None /\ \A q \in Process \ {p} : plan'[q] = plan[q]
    BY <1>5 DEF IInv, TypeOK, ConfTypeOK
  <2>2. \A q \in Process : ~Active(q)'
    BY <1>3, <1>5 DEF Active
  <2>3. \A q \in Process \ {p} : (plan[q] # None => Reviewed(plan[q]))' /\ UpgradeInv(q)'
    BY <1>1, <1>5, <2>1, OthersKept
  <2>4. UpgradeInv(p)'
    BY <1>1, <1>5 DEF UpgradeInv, IInv, ProjectInv, upVars
  <2>5. LeftOver' = LeftOver
    BY <1>3, <1>5, <2>2 DEF LeftOver
  <2>6. TreeInv'
    BY <1>1, <1>3, <2>5, Unmoved DEF IInv, ProjectInv, TreeInv, upVars
  <2> QED
    BY <1>2, <2>1, <2>2, <2>3, <2>4, <2>6 DEF IInv, ProjectInv
<1> QED
  BY <1>4, <1>5 DEF BeginApply

\* What is there at a path to be written may be copied.
LEMMA SeenIsCopied ==
  ASSUME KindsOf(file), Drafts, NEW pl, Reviewed(pl), NEW i \in Destinations(pl),
         Untouched(pl, i), file[i] # Absent
  PROVE  GoodCopy(i, pl.seen[i], file[i])
<1>1. i \in Path /\ Fits(i, pl.seen[i])
  BY DestinationSeen, Paths DEF Untouched
<1>2. file[i] # None /\ (i = UserManifest => file[i] \in Model)
  BY <1>1, NoneIsNothing DEF KindsOf
<1>3. NoLater(file[i])
  <2>1. CASE i \in GeneratedPath
    BY <2>1 DEF Drafts
  <2>2. CASE i \in {UserManifest, ManagedManifest}
    BY <2>2, Distinct DEF KindsOf, NoLater
  <2> QED
    BY <1>1, <2>1, <2>2, Paths
<1> QED
  BY <1>1, <1>2, <1>3 DEF GoodCopy, Fits

\* What has been written by nobody but the user.
LEMMA StageInv ==
  ASSUME IInv, NEW p \in Process, Stage(p), UNCHANGED upVars
  PROVE  IInv'
<1>1. /\ job[p].at = "stage" /\ Active(p) /\ UNCHANGED <<treeVars, plan, result, upVars>>
      /\ ActiveInv(p) /\ Reviewed(plan[p]) /\ job[p] \in Job
  BY DEF Stage, Active, IInv, ProjectInv, ActiveInv, TypeOK, ConfTypeOK
<1>2. /\ job[p].replaced = {} /\ job[p].stuck = {} /\ ~job[p].success
      /\ \A i \in Path : Untouched(plan[p], i) /\ Untouched(plan[p], i)'
  BY <1>1, Unmoved DEF ActiveInv, Phase, treeVars
<1>3. KindsOf(file)' /\ Drafts'
  BY <1>1, Unmoved DEF IInv, ProjectInv, TreeInv, treeVars
<1>4. Destinations(plan[p]) \subseteq Path
  BY <1>1, ReviewedIsPlan, Paths
<1>5. CASE /\ job[p].todo = {} /\ UNCHANGED staging
           /\ job' = [job EXCEPT ![p].at = "replace", ![p].todo = Destinations(plan[p])]
  <2> DEFINE new == [job[p] EXCEPT !.at = "replace", !.todo = Destinations(plan[p])]
  <2>1. job' = [job EXCEPT ![p] = new]
    BY <1>5 DEF IInv, TypeOK, ConfTypeOK
  <2>2. /\ new \in Job /\ new.at = "replace" /\ new.todo = Destinations(plan[p])
        /\ new.replaced = {} /\ new.stuck = {} /\ ~new.success
    BY <1>1, <1>2, <1>4 DEF Job
  <2> HIDE DEF new
  <2>3. job'[p] = new
    BY <2>1 DEF IInv, TypeOK, ConfTypeOK
  <2>4. Phase(p)'
    BY <1>1, <2>2, <2>3 DEF Phase
  <2>5. \A i \in Destinations(plan[p]) : Copied(p, i)'
    BY <1>1, <1>2, <1>5, <2>2, <2>3 DEF ActiveInv, Copied, GoodCopy, Back, NoLater, treeVars
  <2> QED
    BY <1>1, <1>2, <1>3, <1>5, <2>1, <2>2, <2>4, <2>5, Works DEF treeVars, IInv, TypeOK, ConfTypeOK
<1>6. ASSUME NEW i \in job[p].todo, job' = [job EXCEPT ![p].todo = @ \ {i}],
             \/ plan[p].seen[i] = Absent /\ UNCHANGED staging
             \/ file[i] # Absent /\ staging' = [staging EXCEPT ![plan[p]][i] = file[i]]
      PROVE  IInv'
  <2> DEFINE new == [job[p] EXCEPT !.todo = @ \ {i}]
  <2>1. job' = [job EXCEPT ![p] = new]
    BY <1>6 DEF IInv, TypeOK, ConfTypeOK
  <2>2. /\ new \in Job /\ new.at = "stage" /\ new.todo = job[p].todo \ {i}
        /\ new.replaced = {} /\ new.stuck = {} /\ ~new.success
    BY <1>1, <1>2 DEF Job
  <2> HIDE DEF new
  <2>3. job'[p] = new
    BY <2>1 DEF IInv, TypeOK, ConfTypeOK
  <2>4. Phase(p)'
    BY <2>2, <2>3 DEF Phase
  <2>5. i \in Path /\ i \in Destinations(plan[p]) /\ file[i] \in Content
    BY <1>1, <1>4 DEF ActiveInv, IInv, ProjectInv, TreeInv, KindsOf
  <2>6. /\ plan[p] \in DOMAIN staging /\ staging[plan[p]] \in [Path -> Content \cup {None}]
        /\ DOMAIN staging' = DOMAIN staging
        /\ \A pl \in DOMAIN staging : staging'[pl] \in [Path -> Content \cup {None}]
        /\ \A j \in Path \ {i} : staging'[plan[p]][j] = staging[plan[p]][j]
        /\ plan[p].seen[i] # Absent => staging'[plan[p]][i] = file[i] /\ file[i] # Absent
    BY <1>1, <1>6, <2>5 DEF ActiveInv, IInv, TypeOK, ConfTypeOK
  <2>7. ASSUME NEW j \in Destinations(plan[p]) PROVE Copied(p, j)'
    <3>1. Copied(p, j) /\ j \in Path
      BY <1>1, <1>2, <1>4 DEF ActiveInv
    <3>2. CASE j = i
      <4>1. plan[p].seen[i] # Absent => GoodCopy(i, plan[p].seen[i], file[i])
        BY <1>1, <1>2, <1>6, <2>5, <2>6, SeenIsCopied DEF IInv, ProjectInv, TreeInv
      <4>2. plan[p].seen[i] # Absent => GoodCopy(i, plan[p].seen[i], staging[plan[p]][i])'
        BY <1>1, <2>6, <4>1 DEF GoodCopy, Back, NoLater, treeVars
      <4> QED
        BY <1>1, <3>2, <4>2 DEF Copied
    <3>3. CASE j # i
      BY <1>1, <1>2, <2>2, <2>3, <2>5, <2>6, <3>1, <3>3
         DEF Copied, GoodCopy, Back, NoLater, treeVars
    <3> QED
      BY <3>2, <3>3
  <2>8. new.todo \subseteq Destinations(plan[p])
    BY <1>1, <2>2 DEF ActiveInv
  <2> QED
    BY <1>1, <1>2, <1>3, <2>1, <2>2, <2>4, <2>6, <2>7, <2>8, Works DEF treeVars
<1> QED
  BY <1>5, <1>6 DEF Stage, First

\* What an apply knows while it runs.
LEMMA ActiveKnows ==
  ASSUME IInv, NEW p \in Process, Active(p)
  PROVE  ActiveInv(p) /\ Reviewed(plan[p]) /\ job[p] \in Job
<1>1. ActiveInv(p)
  BY DEF IInv, ProjectInv
<1> QED
  BY <1>1 DEF ActiveInv, IInv, ProjectInv, TypeOK, ConfTypeOK

\* The path that is replaced held what the plan saw; so does its copy.
LEMMA ReplaceInv ==
  ASSUME IInv, NEW p \in Process, Replace(p), UNCHANGED upVars
  PROVE  IInv'
<1>1. PICK i \in job[p].todo, synced \in BOOLEAN :
        /\ file[i] = plan[p].seen[i]
        /\ file' = [file EXCEPT ![i] = After(plan[p], i)]
        /\ job' = [job EXCEPT ![p].replaced = @ \cup {i},
                              ![p].todo = IF synced THEN @ \ {i} ELSE job[p].replaced \cup {i},
                              ![p].at = IF synced THEN "replace" ELSE "rollback"]
  BY DEF Replace, First, Unchanged
<1> DEFINE new == [job[p] EXCEPT !.replaced = @ \cup {i},
                                 !.todo = IF synced THEN @ \ {i} ELSE job[p].replaced \cup {i},
                                 !.at = IF synced THEN "replace" ELSE "rollback"]
<1>2. /\ job[p].at = "replace" /\ Active(p)
      /\ UNCHANGED <<texts, draft, lock, commands, plan, staging, result, upVars>>
      /\ ActiveInv(p) /\ Reviewed(plan[p]) /\ job[p] \in Job
  <2>1. job[p].at = "replace" /\ UNCHANGED <<texts, draft, lock, commands, plan, staging, result>>
    BY DEF Replace
  <2> QED
    BY <2>1, ActiveKnows DEF Active
<1>3. /\ job[p].todo \cup job[p].replaced = Destinations(plan[p]) /\ job[p].stuck = {}
      /\ ~job[p].success /\ i \in Destinations(plan[p])
  BY <1>2 DEF ActiveInv, Phase
<1>4. Destinations(plan[p]) \subseteq Path /\ i \in Path
  BY <1>2, <1>3, ReviewedIsPlan, Paths
<1>5. job' = [job EXCEPT ![p] = new]
  BY <1>1 DEF IInv, TypeOK, ConfTypeOK
<1>6. /\ new \in Job /\ new.replaced = job[p].replaced \cup {i} /\ new.stuck = {} /\ ~new.success
      /\ \/ new.at = "replace" /\ new.todo = job[p].todo \ {i}
         \/ new.at = "rollback" /\ new.todo = new.replaced
  BY <1>2, <1>3, <1>4 DEF Job
<1> HIDE DEF new
<1>7. job'[p] = new
  BY <1>5 DEF IInv, TypeOK, ConfTypeOK
<1>8. Phase(p)'
  BY <1>2, <1>3, <1>6, <1>7 DEF Phase
<1>9. KindsOf(file)' /\ Drafts' /\ ~IsEdited(file'[i])
  <2>1. /\ file'[i] = After(plan[p], i) /\ After(plan[p], i) \in Content
        /\ \A j \in Path \ {i} : file'[j] = file[j] /\ file' \in [Path -> Content]
    BY <1>1, <1>2, <1>4, ReviewedIsPlan DEF IInv, ProjectInv, TreeInv, KindsOf
  <2>2. KindsOf(file) /\ Drafts
    BY DEF IInv, ProjectInv, TreeInv
  <2>3. /\ i = UserManifest => file'[i] \in Model
        /\ i = ManagedManifest => file'[i] \in Manifests
        /\ i \in GeneratedPath => file'[i] \in Outputs
        /\ ~IsEdited(file'[i])
    BY <1>2, <1>4, <2>1, AfterKinds, Distinct, Paths
  <2>4. KindsOf(file)'
    BY <1>2, <1>4, <2>1, <2>2, <2>3, Paths DEF KindsOf
  <2>5. Drafts'
    BY <1>2, <2>1, <2>2, <2>3, Paths DEF Drafts, NoLater
  <2> QED
    BY <2>3, <2>4, <2>5
<1>10. /\ file'[i] = After(plan[p], i)
       /\ \A j \in Path \ {i} : file'[j] = file[j]
  BY <1>1, <1>4 DEF IInv, ProjectInv, TreeInv, KindsOf
<1>11. ASSUME NEW j \in Destinations(plan[p]) PROVE Copied(p, j)'
  <2>1. Copied(p, j) /\ j \in Path
    BY <1>2, <1>4 DEF ActiveInv
  <2> QED
    BY <1>2, <1>3, <1>6, <1>7, <2>1 DEF Copied, GoodCopy, Back, NoLater
<1>12. ASSUME NEW j \in Path
       PROVE  IF j \in new.replaced THEN Published(plan[p], j)' ELSE Untouched(plan[p], j)'
  <2>1. IF j \in job[p].replaced THEN Published(plan[p], j) ELSE Untouched(plan[p], j)
    BY <1>2 DEF ActiveInv
  <2>2. CASE j = i
    <3>1. Fits(i, After(plan[p], i))'
      BY <1>2, <1>9, <1>10 DEF Fits, MayBecome, Back
    <3> QED
      BY <1>2, <1>6, <2>2, <3>1 DEF Published
  <2>3. CASE j # i
    BY <1>2, <1>6, <1>10, <2>1, <2>3 DEF Published, Untouched, Fits, MayBecome, Back
  <2> QED
    BY <2>2, <2>3
<1>13. /\ new.todo \subseteq Destinations(plan[p]) /\ new.replaced \subseteq Destinations(plan[p])
       /\ new.at # "idle"
  BY <1>2, <1>3, <1>6 DEF ActiveInv
<1>14. \A pl \in DOMAIN staging : staging'[pl] \in [Path -> Content \cup {None}]
  BY <1>2 DEF IInv, TypeOK, ConfTypeOK
<1> QED
  BY <1>2, <1>5, <1>6, <1>8, <1>9, <1>11, <1>12, <1>13, <1>14, Works

\* The apply turns back: what was replaced is to be restored.
LEMMA TurnsBackInv ==
  ASSUME IInv, NEW p \in Process, ReplaceFails(p) \/ FinishFails(p), UNCHANGED upVars
  PROVE  IInv'
<1>1. /\ job[p].at = "replace" /\ Active(p) /\ UNCHANGED <<treeVars, plan, result, upVars>>
      /\ ActiveInv(p) /\ Reviewed(plan[p]) /\ job[p] \in Job
  <2>1. job[p].at = "replace" /\ UNCHANGED <<treeVars, plan, result>>
    BY DEF ReplaceFails, FinishFails
  <2> QED
    BY <2>1, ActiveKnows DEF Active
<1>2. /\ job[p].todo \cup job[p].replaced = Destinations(plan[p]) /\ job[p].stuck = {}
      /\ ~job[p].success
  BY <1>1 DEF ActiveInv, Phase
<1>3. PICK success \in BOOLEAN :
        /\ job' = [job EXCEPT ![p].at = "rollback", ![p].todo = job[p].replaced,
                              ![p].success = success]
        /\ ~success => UNCHANGED staging
        /\ \E gone \in SUBSET Path :
             staging' = [staging EXCEPT ![plan[p]] =
                            [i \in Path |-> IF i \in gone THEN None ELSE @[i]]]
             \/ UNCHANGED staging
  <2>1. CASE ReplaceFails(p)
    <3>1. job' = [job EXCEPT ![p].at = "rollback", ![p].todo = job[p].replaced,
                             ![p].success = FALSE]
      BY <1>1, <1>2, <2>1 DEF ReplaceFails, Job, IInv, TypeOK, ConfTypeOK
    <3> QED
      BY <2>1, <3>1 DEF ReplaceFails
  <2>2. CASE FinishFails(p)
    BY <2>2 DEF FinishFails
  <2> QED
    BY <2>1, <2>2
<1> DEFINE new == [job[p] EXCEPT !.at = "rollback", !.todo = job[p].replaced,
                                 !.success = success]
<1>4. job' = [job EXCEPT ![p] = new]
  BY <1>3 DEF IInv, TypeOK, ConfTypeOK
<1>5. /\ new \in Job /\ new.replaced = job[p].replaced /\ new.stuck = {}
      /\ new.at = "rollback" /\ new.todo = job[p].replaced /\ new.success = success
  BY <1>1, <1>2 DEF Job
<1> HIDE DEF new
<1>6. job'[p] = new
  BY <1>4 DEF IInv, TypeOK, ConfTypeOK
<1>7. Phase(p)'
  BY <1>5, <1>6 DEF Phase
<1>8. Destinations(plan[p]) \subseteq Path /\ job[p].replaced \subseteq Destinations(plan[p])
  BY <1>1, ReviewedIsPlan, Paths DEF ActiveInv
<1>9. /\ DOMAIN staging' = DOMAIN staging
      /\ \A pl \in DOMAIN staging : staging'[pl] \in [Path -> Content \cup {None}]
      /\ ~success => staging' = staging
      /\ \A i \in Path : staging'[plan[p]][i] \in {staging[plan[p]][i], None}
  BY <1>1, <1>3 DEF ActiveInv, IInv, TypeOK, ConfTypeOK
<1>10. ASSUME NEW j \in Destinations(plan[p]) PROVE Copied(p, j)'
  <2>1. Copied(p, j) /\ j \in Path
    BY <1>1, <1>8 DEF ActiveInv
  <2> QED
    BY <1>1, <1>2, <1>5, <1>6, <1>9, <2>1 DEF Copied, GoodCopy, Back, NoLater, treeVars
<1>11. ASSUME NEW j \in Path
       PROVE  IF j \in new.replaced THEN Published(plan[p], j)' ELSE Untouched(plan[p], j)'
  <2>1. IF j \in job[p].replaced THEN Published(plan[p], j) ELSE Untouched(plan[p], j)
    BY <1>1 DEF ActiveInv
  <2> QED
    BY <1>1, <1>5, <2>1, Unmoved DEF treeVars
<1>12. KindsOf(file)' /\ Drafts'
  BY <1>1, Unmoved DEF IInv, ProjectInv, TreeInv, treeVars
<1> QED
  BY <1>1, <1>4, <1>5, <1>7, <1>8, <1>9, <1>10, <1>11, <1>12, Works DEF treeVars

\* What is restored is what the plan saw, or what the user had made of it.
LEMMA RestoreInv ==
  ASSUME IInv, NEW p \in Process, Restore(p), UNCHANGED upVars
  PROVE  IInv'
<1>1. /\ job[p].at = "rollback" /\ Active(p)
      /\ UNCHANGED <<texts, draft, lock, commands, plan, result, upVars>>
      /\ ActiveInv(p) /\ Reviewed(plan[p]) /\ job[p] \in Job
      /\ job[p].todo \cup job[p].stuck = job[p].replaced
      /\ job[p].todo \cap job[p].stuck = {}
  BY DEF Restore, Active, IInv, ProjectInv, TypeOK, ConfTypeOK, ActiveInv, Phase
<1>2. PICK i \in job[p].todo :
        \/ /\ Restorable(p, i)
           /\ file' = [file EXCEPT ![i] = IF plan[p].seen[i] = Absent THEN Absent
                                          ELSE staging[plan[p]][i]]
           /\ staging' = [staging EXCEPT ![plan[p]][i] = None]
           /\ job' = [job EXCEPT ![p].todo = @ \ {i}, ![p].replaced = @ \ {i}]
        \/ /\ job' = [job EXCEPT ![p].todo = @ \ {i}, ![p].stuck = @ \cup {i}]
           /\ UNCHANGED <<file, staging>>
  BY DEF Restore, Last
<1>3. /\ Destinations(plan[p]) \subseteq Path /\ i \in Path /\ i \in job[p].replaced
      /\ job[p].replaced \subseteq Destinations(plan[p])
  BY <1>1, ReviewedIsPlan, Paths DEF ActiveInv
<1>4. Copied(p, i)
  BY <1>1, <1>3 DEF ActiveInv
<1>5. CASE /\ Restorable(p, i)
           /\ file' = [file EXCEPT ![i] = IF plan[p].seen[i] = Absent THEN Absent
                                          ELSE staging[plan[p]][i]]
           /\ staging' = [staging EXCEPT ![plan[p]][i] = None]
           /\ job' = [job EXCEPT ![p].todo = @ \ {i}, ![p].replaced = @ \ {i}]
  <2> DEFINE new == [job[p] EXCEPT !.todo = @ \ {i}, !.replaced = @ \ {i}]
  <2>1. job' = [job EXCEPT ![p] = new]
    BY <1>5 DEF IInv, TypeOK, ConfTypeOK
  <2>2. /\ new \in Job /\ new.replaced = job[p].replaced \ {i} /\ new.stuck = job[p].stuck
        /\ new.at = "rollback" /\ new.todo = job[p].todo \ {i} /\ new.success = job[p].success
    BY <1>1 DEF Job
  <2> HIDE DEF new
  <2>3. job'[p] = new
    BY <2>1 DEF IInv, TypeOK, ConfTypeOK
  <2>4. Phase(p)'
    BY <1>1, <2>2, <2>3 DEF Phase
  <2>5. /\ file' = [file EXCEPT ![i] = IF plan[p].seen[i] = Absent THEN Absent
                                       ELSE staging[plan[p]][i]]
        /\ \A j \in Path \ {i} : file'[j] = file[j]
        /\ file'[i] = IF plan[p].seen[i] = Absent THEN Absent ELSE staging[plan[p]][i]
        /\ plan[p].seen[i] # Absent => GoodCopy(i, plan[p].seen[i], file'[i])
    BY <1>3, <1>4, <1>5 DEF Restorable, Copied, IInv, ProjectInv, TreeInv, KindsOf
  <2>6. KindsOf(file)' /\ Drafts' /\ Fits(i, plan[p].seen[i])'
    <3>1. /\ i = UserManifest => file'[i] \in Model
          /\ i = ManagedManifest => file'[i] \in {Absent} \cup Manifests
          /\ i \in GeneratedPath => file'[i] \in {Absent} \cup Outputs
          /\ NoLater(file'[i])
      <4>1. CASE plan[p].seen[i] = Absent
        BY <1>1, <2>5, <4>1, Distinct DEF Reviewed, KindsOf, NoLater
      <4>2. CASE plan[p].seen[i] # Absent
        BY <1>1, <2>5, <4>2, Paths DEF GoodCopy, MayBecome, Reviewed, KindsOf, IsEdited, Outputs
      <4> QED
        BY <4>1, <4>2
    <3>2. file'[i] \in Content
      BY <3>1, <1>3, Paths DEF Content, Bytes, Manifests, Outputs
    <3>3. KindsOf(file)'
      BY <1>3, <2>5, <3>1, <3>2, Paths DEF KindsOf, IInv, ProjectInv, TreeInv
    <3>4. Drafts'
      BY <1>1, <1>3, <2>5, <3>1 DEF Drafts, NoLater, IInv, ProjectInv, TreeInv
    <3>5. Fits(i, plan[p].seen[i])'
      <4>1. CASE plan[p].seen[i] = Absent
        <5>1. i # UserManifest
          BY <1>1, <4>1, Distinct DEF Reviewed, KindsOf
        <5> QED
          BY <1>1, <2>5, <4>1, <5>1, Distinct DEF Fits, MayBecome, Back
      <4>2. CASE plan[p].seen[i] # Absent
        BY <1>1, <2>5, <4>2 DEF Fits, MayBecome, Back, GoodCopy
      <4> QED
        BY <4>1, <4>2
    <3> QED
      BY <3>3, <3>4, <3>5
  <2>7. /\ DOMAIN staging' = DOMAIN staging
        /\ \A pl \in DOMAIN staging : staging'[pl] \in [Path -> Content \cup {None}]
        /\ \A j \in Path \ {i} : staging'[plan[p]][j] = staging[plan[p]][j]
    BY <1>1, <1>3, <1>5 DEF ActiveInv, IInv, TypeOK, ConfTypeOK
  <2>8. ASSUME NEW j \in Destinations(plan[p]) PROVE Copied(p, j)'
    <3>1. Copied(p, j) /\ j \in Path
      BY <1>1, <1>3 DEF ActiveInv
    <3> QED
      BY <1>1, <2>2, <2>3, <2>7, <3>1 DEF Copied, GoodCopy, Back, NoLater
  <2>9. ASSUME NEW j \in Path
        PROVE  IF j \in new.replaced THEN Published(plan[p], j)' ELSE Untouched(plan[p], j)'
    <3>1. IF j \in job[p].replaced THEN Published(plan[p], j) ELSE Untouched(plan[p], j)
      BY <1>1 DEF ActiveInv
    <3> QED
      BY <1>1, <2>2, <2>5, <2>6, <3>1 DEF Published, Untouched, Fits, MayBecome, Back
  <2>10. new.todo \subseteq Destinations(plan[p]) /\ new.replaced \subseteq Destinations(plan[p])
    BY <1>1, <1>3, <2>2
  <2> QED
    BY <1>1, <2>1, <2>2, <2>4, <2>6, <2>7, <2>8, <2>9, <2>10, Works
<1>6. CASE /\ job' = [job EXCEPT ![p].todo = @ \ {i}, ![p].stuck = @ \cup {i}]
           /\ UNCHANGED <<file, staging>>
  <2> DEFINE new == [job[p] EXCEPT !.todo = @ \ {i}, !.stuck = @ \cup {i}]
  <2>1. job' = [job EXCEPT ![p] = new]
    BY <1>6 DEF IInv, TypeOK, ConfTypeOK
  <2>2. /\ new \in Job /\ new.replaced = job[p].replaced /\ new.stuck = job[p].stuck \cup {i}
        /\ new.at = "rollback" /\ new.todo = job[p].todo \ {i} /\ new.success = job[p].success
    BY <1>1, <1>3 DEF Job
  <2> HIDE DEF new
  <2>3. job'[p] = new
    BY <2>1 DEF IInv, TypeOK, ConfTypeOK
  <2>4. Phase(p)'
    BY <1>1, <2>2, <2>3 DEF Phase
  <2>5. KindsOf(file)' /\ Drafts'
    BY <1>1, <1>6, Unmoved DEF IInv, ProjectInv, TreeInv
  <2>6. ASSUME NEW j \in Destinations(plan[p]) PROVE Copied(p, j)'
    BY <1>1, <1>6, <2>2, <2>3 DEF Copied, GoodCopy, Back, NoLater, ActiveInv
  <2>7. ASSUME NEW j \in Path
        PROVE  IF j \in new.replaced THEN Published(plan[p], j)' ELSE Untouched(plan[p], j)'
    BY <1>1, <1>6, <2>2, Unmoved DEF ActiveInv
  <2>8. /\ new.todo \subseteq Destinations(plan[p]) /\ new.replaced \subseteq Destinations(plan[p])
        /\ \A pl \in DOMAIN staging : staging'[pl] \in [Path -> Content \cup {None}]
    BY <1>1, <1>3, <1>6, <2>2 DEF IInv, TypeOK, ConfTypeOK
  <2> QED
    BY <1>1, <1>6, <2>1, <2>2, <2>4, <2>5, <2>6, <2>7, <2>8, Works
<1> QED
  BY <1>2, <1>5, <1>6

\* An apply is over, one way or another.
LEMMA EndInv ==
  ASSUME IInv, NEW p \in Process, UNCHANGED upVars,
         StageFails(p) \/ Finish(p) \/ RolledBack(p) \/ CrashInApply(p)
  PROVE  IInv'
<1>1. Active(p) /\ ActiveInv(p) /\ Reviewed(plan[p]) /\ KindsOf(file)
  BY DEF StageFails, Finish, RolledBack, CrashInApply, Active, IInv, ProjectInv, ActiveInv, TreeInv
<1>2. CASE StageFails(p)
  <2>1. \A i \in Path : Untouched(plan[p], i)
    BY <1>1, <1>2 DEF StageFails, ActiveInv, Phase
  <2> QED
    BY <1>1, <1>2, <2>1, UntouchedIsClean, Ends DEF StageFails, ActiveInv
<1>3. CASE Finish(p)
  <2>1. job[p].replaced = Destinations(plan[p])
    BY <1>1, <1>3 DEF Finish, ActiveInv, Phase
  <2>2. CleanNow
    BY <1>1, <2>1, PublishedIsClean DEF ActiveInv
  <2> QED
    BY <1>1, <1>3, <2>2, Ends DEF Finish
<1>4. CASE RolledBack(p)
  <2>1. job[p].stuck = {} => \A i \in Path : Untouched(plan[p], i)
    BY <1>1, <1>4 DEF RolledBack, ActiveInv, Phase
  <2>2. job[p].stuck = {} => (Clean(plan[p].seen) => CleanNow)
    BY <1>1, <2>1, UntouchedIsClean DEF ActiveInv
  <2> QED
    BY <1>1, <1>4, <2>2, Ends DEF RolledBack
<1>5. CASE CrashInApply(p)
  BY <1>1, <1>5, Ends DEF CrashInApply, End
<1> QED
  BY <1>2, <1>3, <1>4, <1>5

-----------------------------------------------------------------------------
(* Upgrading.                                                              *)

\* An upgrade changes the user's manifest and nothing else of the project.
LEMMA UpgradeKeeps ==
  ASSUME IInv, TypeOK', NEW p \in Process, lock = None \/ upgrade[p].at # "idle",
         UNCHANGED <<texts, draft, ready, confVars>>, consumed' = consumed \/ upgrade[p].at = "consume",
         ~ready => consumed'["first"] = {},
         \A l \in Ledger : consumed[l] \subseteq consumed'[l],
         NEW m \in Model,
         file' = file \/ file' = [file EXCEPT ![UserManifest] = m],
         \A q \in Process \ {p} : prepared'[q] = prepared[q] /\ upgrade'[q] = upgrade[q],
         ~Active(p) => UpgradeInv(p)'
  PROVE  IInv'
<1>1. \A q \in Process : ~Active(q) /\ ~Active(q)'
  BY Alone, NobodyInside DEF IInv, ProjectInv, UpgradeInv, Active, confVars
<1>2. \A q \in Process \ {p} : UpgradeInv(q)'
  BY <1>1, Alone, NobodyInside DEF IInv, ProjectInv, UpgradeInv
<1>3. LeftOver' = LeftOver
  BY <1>1 DEF LeftOver, confVars
<1>4. /\ KindsOf(file)' /\ Drafts'
      /\ \A i \in Path \ {UserManifest} : file'[i] = file[i]
  BY Paths DEF IInv, ProjectInv, TreeInv, KindsOf, Drafts, NoLater, Content, Bytes
<1>5. CleanNow => CleanNow'
  <2>1. Owned(file)' = Owned(file) /\ file'[ManagedManifest] = file[ManagedManifest]
    BY <1>4, Paths DEF Owned
  <2>2. Owned(file) \subseteq GeneratedPath
    BY DEF IInv, ProjectInv, TreeInv, KindsOf, Owned, Manifests
  <2> QED
    BY <1>4, <2>1, <2>2, Paths DEF CleanNow, Fits, MayBecome, Back
<1>6. TreeInv'
  BY <1>1, <1>3, <1>4, <1>5 DEF IInv, ProjectInv, TreeInv
<1>7. \A q \in Process : (plan[q] # None => Reviewed(plan[q]))'
  BY DEF IInv, ProjectInv, Reviewed, confVars
<1> QED
  BY <1>1, <1>2, <1>6, <1>7 DEF IInv, ProjectInv

LEMMA ConcludeInv ==
  ASSUME IInv, NEW p \in Process, upgrade[p].at # "idle",
         NEW o \in {None, "upgraded", "consumed", "refused", "changed", "failed"},
         Conclude(p, o), UNCHANGED <<texts, draft, consumed, ready, confVars>>,
         NEW m \in Model,
         file' = file \/ file' = [file EXCEPT ![UserManifest] = m]
  PROVE  IInv'
<1>1. Inactive.at = "idle" /\ Inactive \in [at : {"idle", "consume", "check", "publish",
                             "compare", "restore"}, displaced : Model \cup {None}]
  BY DEF Inactive
<1>2. TypeOK'
  <2>1. TreeTypeOK'
    BY LockTypes, Paths DEF IInv, TypeOK, TreeTypeOK, Conclude, Content, Bytes
  <2> QED
    BY <1>1, <2>1 DEF Conclude, IInv, TypeOK, ConfTypeOK, UpTypeOK, confVars
<1>3. /\ prepared'[p] = None /\ upgrade'[p] = Inactive
      /\ \A q \in Process \ {p} : prepared'[q] = prepared[q] /\ upgrade'[q] = upgrade[q]
  BY DEF Conclude, IInv, TypeOK, UpTypeOK
<1>4. UpgradeInv(p)'
  BY <1>1, <1>3 DEF UpgradeInv
<1> QED
  BY <1>2, <1>3, <1>4, UpgradeKeeps DEF IInv, ProjectInv, TreeInv

LEMMA UpgradeStepInv ==
  ASSUME IInv, NEW p \in Process, UpgradeStep(p), UNCHANGED confVars
  PROVE  IInv'
<1> USE DEF IInv
<1>1. UpgradeInv(p) /\ KindsOf(file)
      /\ (~ready => consumed["first"] = {})
      /\ prepared[p] \in Model \cup {None}
  BY DEF ProjectInv, TreeInv, TypeOK, UpTypeOK
<1>2. /\ file[UserManifest] \in Model
      /\ prepared[p] # None => Candidate(prepared[p]) \in Model
  BY <1>1 DEF KindsOf, Candidate, Model
<1>3. CASE PlanUpgrade(p) \/ BeginUpgrade(p)
  <2>1. TypeOK'
    <3>1. TreeTypeOK'
      BY <1>3, LockTypes DEF PlanUpgrade, BeginUpgrade, TypeOK, TreeTypeOK, treeVars
    <3>2. UpTypeOK'
      BY <1>2, <1>3 DEF PlanUpgrade, BeginUpgrade, TypeOK, UpTypeOK
    <3> QED
      BY <3>1, <3>2 DEF TypeOK, ConfTypeOK, confVars
  <2>2. CASE PlanUpgrade(p)
    <3>1. /\ prepared'[p] = file[UserManifest] /\ upgrade' = upgrade
          /\ \A q \in Process \ {p} : prepared'[q] = prepared[q]
          /\ upgrade[p].at = "idle" /\ UNCHANGED <<treeVars, consumed, ready>>
      BY <2>2 DEF PlanUpgrade, TypeOK, UpTypeOK
    <3>2. UpgradeInv(p)'
      BY <1>1, <3>1 DEF UpgradeInv, treeVars
    <3>3. \A q \in Process \ {p} : UpgradeInv(q)'
      BY <3>1 DEF ProjectInv, UpgradeInv, treeVars, Recorded, Active, confVars
    <3>4. LeftOver' = LeftOver
      BY DEF LeftOver, Active, confVars
    <3>5. TreeInv'
      BY <3>1, <3>4, Unmoved DEF ProjectInv, TreeInv, treeVars, Active, confVars
    <3>6. \A q \in Process : /\ (plan[q] # None => Reviewed(plan[q]))'
                             /\ Active(q)' => Active(q) /\ ActiveInv(q)'
      BY <3>1, <3>4, Unmoved DEF ProjectInv, Reviewed, ActiveInv, Active, Phase, Copied,
                                 GoodCopy, Back, NoLater, treeVars, confVars
    <3> QED
      BY <2>1, <3>2, <3>3, <3>5, <3>6 DEF ProjectInv
  <2>3. CASE BeginUpgrade(p)
    <3>1. /\ upgrade'[p].at = "consume" /\ UNCHANGED <<file, texts, draft, prepared, consumed, ready>>
          /\ \A q \in Process \ {p} : upgrade'[q] = upgrade[q]
          /\ prepared[p] # None /\ lock = None /\ lock' = p
      BY <2>3 DEF BeginUpgrade, TypeOK, UpTypeOK, Lock
    <3>2. ~Active(p) => UpgradeInv(p)'
      BY <1>1, <3>1 DEF UpgradeInv, Active, confVars
    <3> QED
      BY <1>1, <1>2, <2>1, <3>1, <3>2, UpgradeKeeps
  <2> QED
    BY <1>3, <2>2, <2>3
<1>4. CASE upgrade[p].at # "idle" /\ \E o \in {None, "upgraded", "consumed", "refused",
                                             "changed", "failed"} : Conclude(p, o)
  <2>1. UNCHANGED <<texts, draft, consumed, ready>>
    BY <1>4, <1>1, Paths, NoneIsNobody
       DEF UpgradeStep, PlanUpgrade, BeginUpgrade, Lock, Conclude, Unlock, Consume, RefuseUpgrade,
           CheckUpgrade, Exchange, ExchangeFails, Compare, PutBack, PutBackFails, CrashInUpgrade,
           treeVars, UpgradeInv, TypeOK, UpTypeOK, Inactive
  <2>2. \E m \in Model : file' \in {file, [file EXCEPT ![UserManifest] = m]}
    <3>1. CASE PutBack(p)
      <4>1. upgrade[p].displaced \in Model
        BY <1>1, <3>1 DEF PutBack, UpgradeInv, TypeOK, UpTypeOK
      <4> QED
        BY <3>1, <4>1 DEF PutBack
    <3>2. CASE ~PutBack(p)
      <4>1. file' = file \/ file' = [file EXCEPT ![UserManifest] = Candidate(prepared[p])]
        BY <3>2
           DEF UpgradeStep, PlanUpgrade, BeginUpgrade, Consume, RefuseUpgrade,
           CheckUpgrade, Exchange, ExchangeFails, Compare, PutBackFails, CrashInUpgrade, treeVars
      <4> QED
        BY <1>1, <1>2, <1>4, <4>1 DEF UpgradeInv
    <3> QED
      BY <3>1, <3>2
  <2> QED
    BY <1>4, <2>1, <2>2, ConcludeInv
<1>5. CASE Consume(p) /\ upgrade' = [upgrade EXCEPT ![p].at = "check"]
  <2> DEFINE l == IF ready THEN "first" ELSE "second"
  <2>1. /\ consumed' = [consumed EXCEPT ![l] = @ \cup {prepared[p]}]
        /\ UNCHANGED <<file, texts, draft, lock, commands, prepared, ready, verdict>>
        /\ upgrade[p].at = "consume" /\ l \in Ledger
    BY <1>5, NoneIsNobody, <1>1 DEF Consume, Conclude, Unlock, UpgradeInv, Ledger, Inactive, TypeOK, UpTypeOK
  <2>2. /\ prepared[p] # None /\ lock = p /\ prepared[p] \in Model
    BY <1>1, <2>1 DEF UpgradeInv
  <2>3. /\ prepared[p] \in consumed'[l]
        /\ \A k \in Ledger : consumed[k] \subseteq consumed'[k]
        /\ ~ready => consumed'["first"] = {}
        /\ consumed' \in [Ledger -> SUBSET Model]
    BY <1>1, <2>1, <2>2 DEF TypeOK, UpTypeOK, Ledger
  <2>4. TypeOK'
    BY <1>5, <2>1, <2>3 DEF TypeOK, TreeTypeOK, ConfTypeOK, UpTypeOK, confVars
  <2>5. /\ upgrade'[p].at = "check"
        /\ \A q \in Process \ {p} : upgrade'[q] = upgrade[q]
    BY <1>5 DEF TypeOK, UpTypeOK
  <2>6. ~Active(p) => UpgradeInv(p)'
    BY <1>1, <2>1, <2>2, <2>3, <2>5 DEF UpgradeInv, Recorded, Active, confVars
  <2> QED
    BY <1>1, <1>2, <2>1, <2>3, <2>4, <2>5, <2>6, UpgradeKeeps
<1>6. CASE \/ CheckUpgrade(p) \/ Exchange(p)
           \/ /\ Compare(p) /\ upgrade' = [upgrade EXCEPT ![p].at = "restore"]
              /\ UNCHANGED <<prepared, verdict, lock, commands>>
  <2>1. /\ UNCHANGED <<texts, draft, lock, commands, prepared, consumed, ready, verdict>>
        /\ upgrade[p].at \in {"check", "publish", "compare"}
    BY <1>6 DEF CheckUpgrade, Compare, Exchange, treeVars
  <2>2. prepared[p] # None /\ lock = p
    BY <1>1, <1>2, <2>1 DEF UpgradeInv
  <2>3. file' = file \/ file' = [file EXCEPT ![UserManifest] = Candidate(prepared[p])]
    BY <1>6 DEF CheckUpgrade, Compare, Exchange, treeVars
  <2>4. /\ upgrade' \in [Process -> [at : {"idle", "consume", "check", "publish", "compare", "restore"},
                                displaced : Model \cup {None}]]
        /\ \A q \in Process \ {p} : upgrade'[q] = upgrade[q]
        /\ \/ upgrade'[p].at = "publish"
           \/ upgrade'[p].at = "compare" /\ upgrade'[p].displaced = file[UserManifest]
           \/ upgrade'[p].at = "restore" /\ upgrade'[p].displaced = upgrade[p].displaced
              /\ upgrade[p].at = "compare"
    <3>1. CASE CheckUpgrade(p)
      BY <3>1 DEF CheckUpgrade, TypeOK, UpTypeOK
    <3>2. CASE Exchange(p)
      BY <1>2, <3>2 DEF Exchange, TypeOK, UpTypeOK
    <3>3. CASE Compare(p) /\ upgrade' = [upgrade EXCEPT ![p].at = "restore"]
      BY <3>3 DEF Compare, TypeOK, UpTypeOK
    <3> QED
      BY <1>6, <3>1, <3>2, <3>3
  <2>5. TypeOK'
    <3>1. file' \in [Path -> Content] /\ file'[UserManifest] \in Model
      BY <1>1, <1>2, <2>2, <2>3, Paths DEF KindsOf, Content, Bytes
    <3> QED
      BY <2>1, <2>4, <3>1 DEF TypeOK, TreeTypeOK, ConfTypeOK, UpTypeOK, confVars
  <2>6. ~Active(p) => UpgradeInv(p)'
    BY <1>1, <1>2, <2>1, <2>4, NoneIsNothing DEF UpgradeInv, Recorded, Active, confVars, Content, Bytes
  <2> QED
    BY <1>1, <1>2, <2>1, <2>2, <2>3, <2>4, <2>5, <2>6, UpgradeKeeps
<1>7. CASE Consume(p)
  BY <1>4, <1>5, <1>7 DEF Consume
<1>8. CASE Compare(p)
  BY <1>4, <1>6, <1>8 DEF Compare
<1>9. CASE RefuseUpgrade(p) \/ ExchangeFails(p) \/ PutBack(p) \/ PutBackFails(p) \/ CrashInUpgrade(p)
  BY <1>4, <1>9 DEF RefuseUpgrade, ExchangeFails, PutBack, PutBackFails, CrashInUpgrade
<1>10. CASE CheckUpgrade(p) \/ Exchange(p)
  BY <1>6, <1>10
<1> QED
  BY <1>3, <1>7, <1>8, <1>9, <1>10 DEF UpgradeStep

-----------------------------------------------------------------------------
LEMMA UserInv ==
  ASSUME IInv, UserActs, UNCHANGED <<confVars, upVars>>
  PROVE  IInv'
<1>1. KindsOf(file) /\ Drafts /\ texts \in Text
  BY DEF IInv, ProjectInv, TreeInv, TypeOK, TreeTypeOK
<1>2. /\ KindsOf(file)' /\ Drafts' /\ texts' \in Text /\ texts <= texts'
      /\ file'[ManagedManifest] \in {Absent, file[ManagedManifest]}
      /\ \A i \in Path : \A b : Fits(i, b) => Fits(i, b)'
      /\ \A i \in Path : \A b, c : (NoLater(c) /\ Back(i, c, b)) => Back(i, c, b)'
  BY <1>1, UserMoves
<1>3. UNCHANGED <<lock, commands, plan, job, staging, result, prepared, consumed, ready, upgrade, verdict>>
  BY DEF UserActs, confVars, upVars
<1>4. TypeOK'
  BY <1>2, <1>3 DEF IInv, TypeOK, TreeTypeOK, ConfTypeOK, UpTypeOK, KindsOf, Drafts
<1>5. LeftOver' = LeftOver /\ \A p \in Process : Active(p)' = Active(p)
  BY <1>3 DEF LeftOver, Active
<1>6. CleanNow => CleanNow'
  <2> SUFFICES ASSUME CleanNow, NEW i \in Owned(file')
               PROVE  Fits(i, Generated(file[ManagedManifest].records))'
    BY DEF CleanNow
  <2>1. file'[ManagedManifest] = file[ManagedManifest] /\ i \in Owned(file)
    BY <1>2 DEF Owned
  <2>2. i \in Path
    BY <1>1, <2>1, Paths DEF KindsOf, Owned, Manifests
  <2> DEFINE g == Generated(file[ManagedManifest].records)
  <2>3. Fits(i, g)
    BY <2>1 DEF CleanNow
  <2>4. MayBecome(i, g, file'[i]) /\ (file'[i] \in draft'[i] /\ IsEdited(file'[i]) =>
                                       \A x \in draft'[i] : MayBecome(i, g, x))
    <3>1. \A b : Fits(i, b) => /\ MayBecome(i, b, file'[i])
                               /\ file'[i] \in draft'[i] /\ IsEdited(file'[i]) =>
                                     \A x \in draft'[i] : MayBecome(i, b, x)
      BY <1>2, <2>2 DEF Fits, MayBecome, Back
    <3> HIDE DEF g
    <3> QED
      BY <2>3, <3>1
  <2>5. g' = g
    BY <2>1
  <2> QED
    BY <2>1, <2>4, <2>5 DEF Fits, MayBecome, Back
<1>7. TreeInv'
  BY <1>2, <1>3, <1>5, <1>6 DEF IInv, ProjectInv, TreeInv
<1>8. ASSUME NEW p \in Process PROVE UpgradeInv(p)'
  BY <1>3, <1>5 DEF IInv, ProjectInv, UpgradeInv, Recorded
<1>9. ASSUME NEW p \in Process, plan[p] # None PROVE Reviewed(plan[p])'
  BY <1>3, <1>9 DEF IInv, ProjectInv, Reviewed
<1>10. ASSUME NEW p \in Process, Active(p) PROVE ActiveInv(p)'
  <2>1. ActiveInv(p) /\ Reviewed(plan[p])
    BY <1>10, ActiveKnows
  <2>2. \A i \in Path : /\ Untouched(plan[p], i) => Untouched(plan[p], i)'
                        /\ Published(plan[p], i) => Published(plan[p], i)'
    <3> SUFFICES ASSUME NEW i \in Path
                 PROVE  /\ Untouched(plan[p], i) => Untouched(plan[p], i)'
                        /\ Published(plan[p], i) => Published(plan[p], i)'
      OBVIOUS
    <3> DEFINE seen == plan[p].seen[i]
               after == After(plan[p], i)
    <3>1. \A b : Fits(i, b) => /\ MayBecome(i, b, file'[i])
                               /\ file'[i] \in draft'[i] /\ IsEdited(file'[i]) =>
                                     \A x \in draft'[i] : MayBecome(i, b, x)
      BY <1>2 DEF Fits, MayBecome, Back
    <3> HIDE DEF seen, after
    <3>2. /\ Fits(i, seen) => /\ MayBecome(i, seen, file'[i])
                              /\ file'[i] \in draft'[i] /\ IsEdited(file'[i]) =>
                                    \A x \in draft'[i] : MayBecome(i, seen, x)
          /\ Fits(i, after) => /\ MayBecome(i, after, file'[i])
                               /\ file'[i] \in draft'[i] /\ IsEdited(file'[i]) =>
                                     \A x \in draft'[i] : MayBecome(i, after, x)
      BY <3>1
    <3>3. (Fits(i, seen) => Fits(i, plan[p].seen[i])') /\ (Fits(i, after) => Fits(i, After(plan[p], i))')
      BY <1>3, <3>2 DEF Fits, MayBecome, Back, seen, after
    <3> QED
      BY <1>3, <3>3 DEF Untouched, Published, seen, after
  <2>3. Destinations(plan[p]) \subseteq Path
    BY <2>1, ReviewedIsPlan, Paths
  <2>4. \A i \in Destinations(plan[p]) : Copied(p, i)'
    <3> SUFFICES ASSUME NEW i \in Destinations(plan[p]) PROVE Copied(p, i)'
      OBVIOUS
    <3>1. Copied(p, i) /\ i \in Path
      BY <2>1, <2>3 DEF ActiveInv
    <3> DEFINE seen == plan[p].seen[i]
               c == staging[plan[p]][i]
    <3>2. \A b, x : NoLater(x) /\ Back(i, x, b) =>
             /\ IsEdited(x) => x.edited <= texts'
             /\ x \in draft'[i] /\ IsEdited(x) => \A y \in draft'[i] : MayBecome(i, b, y)
      <4>1. \A x : NoLater(x) => (IsEdited(x) => x.edited <= texts')
        BY <1>1, <1>2 DEF NoLater, IsEdited, Text
      <4>2. \A b, x : NoLater(x) /\ Back(i, x, b) =>
              (x \in draft'[i] /\ IsEdited(x) => \A y \in draft'[i] : MayBecome(i, b, y))
        BY <1>2, <3>1 DEF Back, MayBecome
      <4> QED
        BY <4>1, <4>2
    <3> HIDE DEF seen, c
    <3>3. GoodCopy(i, seen, c) =>
             /\ IsEdited(c) => c.edited <= texts'
             /\ c \in draft'[i] /\ IsEdited(c) => \A y \in draft'[i] : MayBecome(i, seen, y)
      BY <3>2 DEF GoodCopy
    <3>4. GoodCopy(i, seen, c) => GoodCopy(i, plan[p].seen[i], staging[plan[p]][i])'
      BY <1>3, <3>3 DEF GoodCopy, NoLater, Back, MayBecome, seen, c
    <3> QED
      BY <1>3, <3>1, <3>4 DEF Copied, seen, c
  <2> QED
    BY <1>3, <1>5, <2>1, <2>2, <2>4 DEF ActiveInv, Phase
<1> QED
  BY <1>3, <1>4, <1>5, <1>7, <1>8, <1>9, <1>10 DEF IInv, ProjectInv

LEMMA LedgerInv ==
  ASSUME IInv, LedgerReady, UNCHANGED confVars
  PROVE  IInv'
<1>1. UNCHANGED <<treeVars, prepared, consumed, upgrade, verdict>> /\ ready' = TRUE
  BY DEF LedgerReady
<1>2. TypeOK'
  BY <1>1 DEF IInv, TypeOK, TreeTypeOK, ConfTypeOK, UpTypeOK, treeVars, confVars
<1>3. LeftOver' = LeftOver /\ \A p \in Process : Active(p)' = Active(p)
  BY DEF LeftOver, Active, confVars
<1>4. TreeInv'
  BY <1>1, <1>3, Unmoved DEF IInv, ProjectInv, TreeInv, treeVars
<1>5. ASSUME NEW p \in Process
      PROVE  (plan[p] # None => Reviewed(plan[p]))' /\ (Active(p) => ActiveInv(p)') /\ UpgradeInv(p)'
  BY <1>1, <1>3, Unmoved DEF IInv, ProjectInv, Reviewed, ActiveInv, Phase, Copied, GoodCopy,
     Back, NoLater, UpgradeInv, Recorded, treeVars, confVars
<1> QED
  BY <1>2, <1>3, <1>4, <1>5 DEF IInv, ProjectInv

LEMMA ConfigureStepInv ==
  ASSUME IInv, NEW p \in Process, ConfigureStep(p), UNCHANGED upVars
  PROVE  IInv'
BY PlanConfigurationInv, BeginApplyInv, StageInv, ReplaceInv, TurnsBackInv, RestoreInv, EndInv
   DEF ConfigureStep

LEMMA StepInv == IInv /\ [Next]_vars => IInv'
<1> SUFFICES ASSUME IInv, [Next]_vars PROVE IInv'
  OBVIOUS
<1>1. CASE UNCHANGED vars
  <2>1. UNCHANGED <<treeVars, confVars, upVars>>
    BY <1>1 DEF vars
  <2>2. LeftOver' = LeftOver /\ \A p \in Process : Active(p)' = Active(p)
    BY <2>1 DEF LeftOver, Active, confVars
  <2>3. TypeOK' /\ TreeInv'
    BY <2>1, <2>2, Unmoved DEF IInv, TypeOK, TreeTypeOK, ConfTypeOK, UpTypeOK, treeVars, confVars,
       upVars, ProjectInv, TreeInv
  <2>4. ASSUME NEW p \in Process
        PROVE  (plan[p] # None => Reviewed(plan[p]))' /\ (Active(p) => ActiveInv(p)') /\ UpgradeInv(p)'
    BY <2>1, <2>2, Unmoved DEF IInv, ProjectInv, Reviewed, ActiveInv, Phase, Copied, GoodCopy,
       Back, NoLater, UpgradeInv, Recorded, treeVars, confVars, upVars
  <2> QED
    BY <2>2, <2>3, <2>4 DEF IInv, ProjectInv
<1>2. CASE Next
  BY <1>2, UserInv, LedgerInv, ConfigureStepInv, UpgradeStepInv, CommandsAssumption DEF Next
<1> QED
  BY <1>1, <1>2

-----------------------------------------------------------------------------
\* The inductive invariant holds in every behaviour.
THEOREM Invariance == Spec => []IInv
  BY InitInv, StepInv, PTL DEF Spec

\* Every variable of the project, of configuring and of upgrading keeps its type.
THEOREM TypeCorrect == Spec => []TypeOK
<1>1. IInv => TypeOK
  BY DEF IInv
<1> QED
  BY <1>1, Invariance, PTL

\* While nobody is inside and nothing is left over, every file the toolkit owns
\* holds what was generated for it, or the user has changed it.
THEOREM RecordsAreTrue == Spec => []RecordsTrue
<1>1. IInv => RecordsTrue
  <2> SUFFICES ASSUME IInv, lock = None, DOMAIN staging = {} PROVE Clean(file)
    BY DEF RecordsTrue, Clean
  <2>1. LeftOver = {} /\ \A p \in Process : ~Active(p)
    BY NobodyInside DEF IInv, LeftOver
  <2> QED
    BY <2>1, CleanNowIsClean DEF IInv, ProjectInv, TreeInv
<1> QED
  BY <1>1, Invariance, PTL

\* No step of an apply touches another plan's staging directory.
LEMMA StagingKept ==
  ASSUME IInv, [Next]_vars, NEW pl \in DOMAIN staging,
         \A p \in Process : job[p].at = "idle" \/ plan[p] # pl
  PROVE  pl \in DOMAIN staging' /\ staging'[pl] = staging[pl]
<1>1. CASE UNCHANGED staging
  BY <1>1
<1>2. ASSUME NEW p \in Process, BeginApply(p) PROVE pl \in DOMAIN staging' /\ staging'[pl] = staging[pl]
  BY <1>2 DEF BeginApply, Admissible, With
<1>3. ASSUME NEW p \in Process, Active(p),
             \/ staging' = Without(staging, plan[p])
             \/ \E c : staging' = [staging EXCEPT ![plan[p]] = c]
      PROVE  pl \in DOMAIN staging' /\ staging'[pl] = staging[pl]
  BY <1>3 DEF Without, Active
<1>4. ASSUME NEW p \in Process, ConfigureStep(p)
      PROVE  pl \in DOMAIN staging' /\ staging'[pl] = staging[pl]
  BY <1>1, <1>2, <1>3, <1>4
     DEF ConfigureStep, PlanConfiguration, Stage, StageFails, Replace, ReplaceFails, Finish,
         FinishFails, Restore, RolledBack, CrashInApply, Active
<1> QED
  BY <1>1, <1>4, CommandsAssumption DEF Next, vars, confVars, LedgerReady

\* A process that is not applying has replaced nothing.
IdleInv == \A p \in Process : ~Active(p) => job[p].replaced = {}

\* What a step of p makes of its job.
LEMMA JobSteps ==
  ASSUME IInv, NEW p \in Process, ConfigureStep(p), job' # job
  PROVE  /\ \A q \in Process \ {p} : job'[q] = job[q]
         /\ job'[p].at = "idle" => job'[p].replaced = {}
         /\ job'[p].at = "idle" /\ result'[p] = "failed" =>
               StageFails(p) \/ (RolledBack(p) /\ job[p].stuck = {})
<1>1. job \in [Process -> Job] /\ job[p] \in Job
  BY DEF IInv, TypeOK, ConfTypeOK
<1>3. CASE BeginApply(p)
  BY <1>1, <1>3 DEF BeginApply, Idle
<1>4. CASE Stage(p)
  <2>1. \A q \in Process \ {p} : job'[q] = job[q]
    BY <1>1, <1>4 DEF Stage
  <2>2. job[p].at = "stage"
    BY <1>4 DEF Stage
  <2>3. PICK d : \/ job' = [job EXCEPT ![p].at = "replace", ![p].todo = d]
                 \/ job' = [job EXCEPT ![p].todo = d]
    BY <1>4 DEF Stage
  <2>4. job'[p].at # "idle"
    BY <1>1, <2>2, <2>3 DEF Job
  <2> QED
    BY <2>1, <2>4
<1>5. CASE Replace(p)
  BY <1>1, <1>5 DEF Replace
<1>6. CASE ReplaceFails(p)
  BY <1>1, <1>6 DEF ReplaceFails
<1>7. CASE FinishFails(p)
  BY <1>1, <1>7 DEF FinishFails
<1>8. CASE Restore(p)
  <2>1. job[p].at = "rollback"
    BY <1>8 DEF Restore
  <2>2. PICK i : \/ job' = [job EXCEPT ![p].todo = @ \ {i}, ![p].replaced = @ \ {i}]
                 \/ job' = [job EXCEPT ![p].todo = @ \ {i}, ![p].stuck = @ \cup {i}]
    BY <1>8 DEF Restore
  <2> QED
    BY <1>1, <2>1, <2>2 DEF Job
<1>9. CASE StageFails(p) \/ Finish(p) \/ RolledBack(p) \/ CrashInApply(p)
  <2>1. job' = [job EXCEPT ![p] = Idle] /\ Idle.replaced = {}
    BY <1>9 DEF StageFails, Finish, RolledBack, CrashInApply, End, Idle
  <2>2. result'[p] = "failed" => StageFails(p) \/ (RolledBack(p) /\ job[p].stuck = {})
    BY <1>9, NoneIsNoResult
       DEF StageFails, Finish, RolledBack, CrashInApply, End, IInv, TypeOK, ConfTypeOK
  <2> QED
    BY <1>1, <2>1, <2>2
<1>10. ~ \E edit \in BOOLEAN : PlanConfiguration(p, edit)
  BY DEF PlanConfiguration
<1> QED
  BY <1>3, <1>4, <1>5, <1>6, <1>7, <1>8, <1>9, <1>10 DEF ConfigureStep

LEMMA IdleStep ==
  ASSUME IInv, IdleInv, [Next]_vars
  PROVE  IdleInv'
<1>1. CASE job' = job
  BY <1>1 DEF IdleInv, Active
<1>2. CASE job' # job
  <2>1. PICK p \in Process : ConfigureStep(p)
    BY <1>2, CommandsAssumption DEF Next, vars, confVars, LedgerReady
  <2> QED
    BY <1>2, <2>1, JobSteps DEF IdleInv, Active
<1> QED
  BY <1>1, <1>2

\* A copy that may be needed is one the property allows.
LEMMA GoodMayBeCopied ==
  ASSUME NEW i \in Path, NEW b, NEW c, GoodCopy(i, b, c), i = UserManifest => b \in Model
  PROVE  MayBeCopied(i, b, c)
<1>1. CASE i = UserManifest
  <2>1. /\ b \in [text : Text, pair : BOOLEAN, version : {2, 3}]
        /\ c \in [text : Text, pair : BOOLEAN, version : {2, 3}]
        /\ c.pair = b.pair /\ c.version = b.version
    BY <1>1, Paths DEF GoodCopy, MayBecome, Model
  <2>2. c = [b EXCEPT !.text = c.text] /\ c.text \in Text
    BY <2>1
  <2> QED
    BY <1>1, <2>2, Paths DEF MayBeCopied, Saved
<1>2. CASE i # UserManifest /\ c # b
  <2>1. i \in GeneratedPath /\ c \in [edited : Text]
    BY <1>2 DEF GoodCopy, MayBecome, IsEdited
  <2>2. c = Edited(c.edited) /\ c.edited \in Text
    BY <2>1 DEF Edited
  <2> QED
    BY <1>2, <2>1, <2>2, Paths DEF MayBeCopied, Saved
<1> QED
  BY <1>1, <1>2 DEF MayBeCopied

\* Whatever an apply has replaced can be put back until everything is replaced - as the
\* plan saw it, or as the user had saved it and taken it back -, and the copies of an apply
\* that is over are never touched.
THEOREM WayBackAlways == Spec => WayBack
<1>1. IInv /\ IdleInv => CopiesKept
  <2> SUFFICES ASSUME IInv, IdleInv, NEW p \in Process, NEW i \in job[p].replaced,
                      ~job[p].success, plan[p].seen[i] # Absent
               PROVE  MayBeCopied(i, plan[p].seen[i], staging[plan[p]][i])
    BY DEF CopiesKept
  <2>1. CASE Active(p)
    <3>1. Copied(p, i) /\ i \in Path /\ Reviewed(plan[p])
      BY <2>1, ActiveKnows, ReviewedIsPlan, Paths DEF ActiveInv
    <3>2. GoodCopy(i, plan[p].seen[i], staging[plan[p]][i])
      BY <3>1 DEF Copied
    <3> QED
      BY <3>1, <3>2, GoodMayBeCopied DEF Reviewed, KindsOf
  <2>2. CASE ~Active(p)
    BY <2>2 DEF IdleInv
  <2> QED
    BY <2>1, <2>2
<1>2. IInv /\ [Next]_vars =>
        [\A pl \in DOMAIN staging :
           (\A p \in Process : job[p].at = "idle" \/ plan[p] # pl) =>
               pl \in DOMAIN staging' /\ staging'[pl] = staging[pl]]_vars
  BY StagingKept
<1>3. Init => IdleInv
  BY DEF Init, ConfInit, IdleInv, Idle
<1>4. IInv /\ IdleInv /\ [Next]_vars => IdleInv'
  BY IdleStep
<1> QED
  BY <1>1, <1>2, <1>3, <1>4, Invariance, PTL DEF Spec, WayBack, CopiesSurvive

\* An apply that reports a plain failure has left none of its outputs.
THEOREM FailuresLeaveNothing == Spec => FailureLeavesNothing
<1> DEFINE Nothing == \A p \in Process :
          (job[p].at # "idle" /\ result'[p] = "failed" /\ job'[p].at = "idle") =>
              \A i \in Destinations(plan[p]) : file'[i] # After(plan[p], i)
<1>1. IInv /\ [Next]_vars => [Nothing]_vars
  <2> SUFFICES ASSUME IInv, [Next]_vars, NEW p \in Process, job[p].at # "idle",
                      result'[p] = "failed", job'[p].at = "idle",
                      NEW i \in Destinations(plan[p])
               PROVE  file'[i] # After(plan[p], i)
    BY DEF vars
  <2>1. Active(p) /\ ActiveInv(p) /\ Reviewed(plan[p])
    BY ActiveKnows DEF Active
  <2>2. StageFails(p) \/ (RolledBack(p) /\ job[p].stuck = {})
    <3>1. PICK q \in Process : ConfigureStep(q) /\ job' # job
      BY CommandsAssumption DEF Next, vars, confVars, LedgerReady
    <3> QED
      BY <3>1, JobSteps
  <2>3. file' = file
    BY <2>2 DEF StageFails, RolledBack
  <2>4. job[p].replaced = {}
    BY <2>1, <2>2 DEF StageFails, RolledBack, ActiveInv, Phase
  <2>5. Untouched(plan[p], i)
    BY <2>1, <2>4, ReviewedIsPlan, Paths DEF ActiveInv
  <2> QED
    BY <2>1, <2>3, <2>5, UntouchedNotAfter
<1> QED
  BY <1>1, Invariance, PTL DEF Spec, FailureLeavesNothing

\* What the user wrote is replaced by the user or by a rollback of what they wrote
\* over, never by a transaction.
THEOREM UserFilesAreKept == Spec => UserFilesKept
<1> DEFINE Kept == \A i \in GeneratedPath :
          (IsEdited(file[i]) /\ file'[i] # file[i]) =>
              \/ UserActs
              \/ \E p \in Process : job[p].at = "rollback" /\ i \in job[p].replaced
<1>1. IInv /\ [Next]_vars => [Kept]_vars
  <2> SUFFICES ASSUME IInv, [Next]_vars, NEW i \in GeneratedPath, IsEdited(file[i]),
                      file'[i] # file[i], ~UserActs
               PROVE  \E p \in Process : job[p].at = "rollback" /\ i \in job[p].replaced
    BY DEF vars
  <2>1. file' # file /\ i \in Path /\ i # UserManifest /\ file \in [Path -> Content]
    BY Paths DEF IInv, ProjectInv, TreeInv, KindsOf
  <2>3. ASSUME NEW p \in Process, UpgradeStep(p) PROVE FALSE
    BY <2>1, <2>3 DEF UpgradeStep, PlanUpgrade, BeginUpgrade, Consume, RefuseUpgrade, CheckUpgrade,
       Exchange, ExchangeFails, Compare, PutBack, PutBackFails, CrashInUpgrade, treeVars
  <2>4. PICK p \in Process : ConfigureStep(p)
    BY <2>1, <2>3, CommandsAssumption DEF Next, vars, treeVars, LedgerReady
  <2>5. CASE Replace(p)
    <3>1. Active(p) /\ job[p].at = "replace"
      BY <2>5 DEF Replace, Active
    <3>2. PICK j \in job[p].todo : /\ file[j] = plan[p].seen[j]
                                  /\ file' = [file EXCEPT ![j] = After(plan[p], j)]
      BY <2>5 DEF Replace, First, Unchanged
    <3>3. j = i
      BY <2>1, <3>2
    <3>4. ~IsEdited(plan[p].seen[j])
      BY <2>1, <3>1, <3>2, <3>3, ActiveKnows, DestinationSeen DEF ActiveInv
    <3> QED
      BY <3>2, <3>3, <3>4
  <2>6. CASE Restore(p)
    <3>1. Active(p) /\ job[p].at = "rollback"
      BY <2>6 DEF Restore, Active
    <3>2. PICK j \in job[p].todo : \E c : file' = [file EXCEPT ![j] = c]
      BY <2>1, <2>6 DEF Restore, Last
    <3>3. j = i
      BY <2>1, <3>2
    <3> QED
      BY <3>1, <3>2, <3>3, ActiveKnows DEF ActiveInv, Phase
  <2> QED
    BY <2>1, <2>4, <2>5, <2>6
       DEF ConfigureStep, PlanConfiguration, BeginApply, Stage, StageFails, ReplaceFails, Finish,
           FinishFails, RolledBack, CrashInApply, treeVars
<1> QED
  BY <1>1, Invariance, PTL DEF Spec, UserFilesKept

\* An upgrade action goes ahead at most once, and only with its record in a ledger.
THEOREM ActionIsUsedOnce == Spec => ActionUsedOnce
<1> DEFINE Once == \A p \in Process :
          /\ (upgrade[p].at = "consume" /\ upgrade'[p].at = "check") => ~Recorded(prepared[p])
          /\ upgrade'[p].at = "compare" => Recorded(prepared[p])
<1>1. IInv /\ [Next]_vars => [Once]_vars
  <2> SUFFICES ASSUME IInv, [Next]_vars, NEW p \in Process
               PROVE  /\ (upgrade[p].at = "consume" /\ upgrade'[p].at = "check") =>
                            ~Recorded(prepared[p])
                      /\ upgrade'[p].at = "compare" => Recorded(prepared[p])
    BY DEF vars
  <2>1. UpgradeInv(p) /\ (~ready => consumed["first"] = {})
    BY DEF IInv, ProjectInv, TreeInv
  <2>2. CASE upgrade'[p] = upgrade[p]
    BY <2>1, <2>2 DEF UpgradeInv
  <2>3. ASSUME UpgradeStep(p)
        PROVE  /\ upgrade[p].at = "consume" /\ upgrade'[p].at = "check" =>
                     ~Consumed(prepared[p])
               /\ upgrade'[p].at = "compare" => upgrade[p].at \in {"publish", "compare"}
    BY <2>3 DEF UpgradeStep, PlanUpgrade, BeginUpgrade, Consume, RefuseUpgrade, CheckUpgrade,
       Exchange, ExchangeFails, Compare, PutBack, PutBackFails, CrashInUpgrade, Conclude,
       Inactive, IInv, TypeOK, UpTypeOK
  <2>4. ASSUME NEW q \in Process \ {p}, UpgradeStep(q) PROVE upgrade'[p] = upgrade[p]
    BY <2>4 DEF UpgradeStep, PlanUpgrade, BeginUpgrade, Consume, RefuseUpgrade, CheckUpgrade,
       Exchange, ExchangeFails, Compare, PutBack, PutBackFails, CrashInUpgrade, Conclude,
       IInv, TypeOK, UpTypeOK
  <2>5. ~Consumed(prepared[p]) => ~Recorded(prepared[p])
    BY <2>1 DEF Consumed, Recorded
  <2>6. upgrade'[p] # upgrade[p] => UpgradeStep(p)
    BY <2>4, CommandsAssumption DEF Next, vars, upVars, LedgerReady
  <2> QED
    BY <2>1, <2>2, <2>3, <2>5, <2>6 DEF UpgradeInv
<1> QED
  BY <1>1, Invariance, PTL DEF Spec, ActionUsedOnce
================================================================================
