-------------------------- MODULE PublicationsProofs ---------------------------
(***************************************************************************)
(* Proofs about Publications, for any processes, authorizations, permits   *)
(* and numbers of files, jobs and acts of the user.                        *)
(*                                                                         *)
(* The argument: each tool has something that only one process can have,   *)
(* the activation lock, a capability or permit, a staging directory or the *)
(* output directory, and knows what is in it from how far it is. So what   *)
(* is put at the destination, or comes back to it from a backup, is not    *)
(* the output of a delivery that may still fail, and it is complete unless *)
(* it is what a deletion has left of a creation's backup.                  *)
(***************************************************************************)
EXTENDS Publications, TLAPS
--------------------------------------------------------------------------------
(* One process inside the activation lock, and no process creates and      *)
(* regenerates at the same time.                                           *)
OneJob == \A p \in Process : creation[p].at = "idle" \/ regen[p].at = "idle"
Locked == \A p \in Process : Activating(p) => activating = p
LockInv == OneJob /\ Locked

(* A capability comes from a record that its holder is consuming, or that  *)
(* is consumed.                                                            *)
CapInv ==
    \A p \in Process : creation[p].holds # None =>
        /\ \/ record[creation[p].holds] = "consumed"
           \/ /\ creation[p].at = "consume"
              /\ recordLock[creation[p].holds] = p
        /\ \A q \in Process \ {p} : creation[p].holds # creation[q].holds

(* A regeneration under way has used up a permit that saw a project.       *)
PermitInv ==
    /\ \A g \in Permit : permit[g].saw # None => Regenerable(permit[g].saw)
    /\ \A p \in Process : regen[p].at # "idle" =>
          /\ regen[p].holds \in Permit
          /\ permit[regen[p].holds].used /\ Saw(p) # None
          /\ \A q \in Process \ {p} :
                regen[q].at # "idle" => regen[q].holds # regen[p].holds
    /\ \A p \in Process : regen[p].at = "idle" => regen[p].holds = None

(* One copier has the output directory until it ends, and what is in it    *)
(* follows from how far it is.                                             *)
Copying == {"mark", "write", "recheck", "publish", "unmark", "fail"}

Written(p) ==
    /\ copy[p].at = "mark" => out.files = 0 /\ ~out.marker /\ ~out.manifest
    /\ copy[p].at \in {"write", "recheck", "publish"} => out.marker /\ ~out.manifest
    /\ copy[p].at \in {"recheck", "publish", "unmark"} => out.files = Files
    /\ copy[p].at = "unmark" => out.marker /\ out.manifest

CopyInv ==
    /\ \A p \in Process : copy[p].at # "idle" => copy[p].of # None
    /\ \A p \in Process : copy[p].at \in Copying =>
          /\ out.of # None /\ Written(p)
          /\ \A q \in Process \ {p} : copy[q].at \notin Copying
    /\ IncompleteIsMarked

(* A staging directory is one delivery's from its mkdir to its rename or   *)
(* removal.  Once verified it holds the complete output, or what somebody  *)
(* else has put in its place.                                              *)
Claimed == {"stage", "staging", "verify", "source", "inspect", "empty", "publish", "rename",
            "cleanup", "remove"}
Verified == {"source", "inspect", "empty", "publish", "rename"}
Open == Claimed \cup {"giveback"}

Numbered(p) ==
    delivery[p].at \in Open \cup {"confirm"} =>
        /\ delivery[p].id <= jobs
        /\ \A q \in Process \ {p} :
              delivery[q].at \in Open \cup {"confirm"} => delivery[q].id # delivery[p].id

Claim(p) ==
    delivery[p].at \in Claimed =>
        /\ delivery[p].plan \in DOMAIN staging
        /\ \A q \in Process \ {p} :
              delivery[q].at \in Claimed => delivery[q].plan # delivery[p].plan

Staged(p) ==
    delivery[p].at \in Verified =>
        staging[delivery[p].plan].items \in {{Tree(delivery[p].id)}, {UserFile}}

StagingInv ==
    \A p \in Process :
        /\ delivery[p].at # "idle" => delivery[p].plan \in Plan
        /\ Numbered(p) /\ Claim(p) /\ Staged(p)

(* What may be at the destination or come back to it: no output of a       *)
(* delivery that has not renamed it there.                                 *)
Settled ==
    {i \in JobId : i <= jobs /\ \A p \in Process : delivery[p].at \in Open => delivery[p].id # i}

Fit(d, ids) ==
    d \notin {None, Absent} => \A i \in JobId : Tree(i) \in d => i \in ids

ContentInv ==
    /\ Fit(dest, Settled)
    /\ \A p \in Process : Fit(creation[p].backup, Settled) /\ Fit(regen[p].backup, Settled)

(* A process has a backup of the destination exactly while it has moved    *)
(* the destination aside.                                                  *)
BackupInv ==
    \A p \in Process :
        /\ creation[p].at \in {"swap", "purge", "restore"} =>
              creation[p].backup \notin {None, Absent}
        /\ regen[p].at \in {"in", "purge", "putback"} => regen[p].backup \notin {None, Absent}
        /\ regen[p].at \in {"idle", "plan", "generate", "enter", "aside"} =>
              regen[p].backup = None

(* While the user does nothing the exchange finds what it has looked at.   *)
ExchangeInv ==
    \A p \in Process :
        /\ regen[p].acts <= acts
        /\ regen[p].acts = acts =>
              /\ regen[p].at = "aside" => dest = Saw(p)
              /\ regen[p].at \in {"in", "purge"} => regen[p].backup = Saw(p)
              /\ regen[p].at = "purge" => dest = Candidate(p)

Inv ==
    /\ TypeOK /\ LockInv /\ CapInv /\ PermitInv /\ CopyInv
    /\ StagingInv /\ ContentInv /\ BackupInv /\ ExchangeInv

(* A regeneration moves aside, and may put back, a directory without an    *)
(* incomplete project: it has looked at it under the activation lock, and  *)
(* no creation can bring one there before the lock is free again.          *)
NoParts(d) == d \notin {None, Absent} => \A e \in d : ~IsPart(e)

PartsInv ==
    \A p \in Process :
        /\ regen[p].at = "aside" => NoParts(dest)
        /\ NoParts(regen[p].backup)
--------------------------------------------------------------------------------
(* Entries and directories.                                                *)
LEMMA Entries ==
    /\ \A i, j \in Nat : Tree(i) = Tree(j) => i = j
    /\ \A i, j \in Nat : Tree(i) # Native(j) /\ Tree(i) # Part(j)
    /\ \A i \in Nat : Tree(i).whole /\ Native(i).whole /\ Native(i).cubemx
    /\ \A i \in Nat : Native(i) # UserFile
<1> USE DEF Tree, Native, Part, UserFile
<1>1. \A i, j \in Nat : Tree(i) = Tree(j) => i = j
  <2> SUFFICES ASSUME NEW i \in Nat, NEW j \in Nat, Tree(i) = Tree(j) PROVE i = j
    OBVIOUS
  <2>1. Tree(i).by = i /\ Tree(j).by = j
    OBVIOUS
  <2> QED BY <2>1
<1>2. ASSUME NEW i \in Nat, NEW j \in Nat PROVE Tree(i) # Native(j) /\ Tree(i) # Part(j)
  <2>1. Tree(i).cubemx = FALSE /\ Native(j).cubemx = TRUE
    OBVIOUS
  <2>2. Tree(i).whole = TRUE /\ Part(j).whole = FALSE
    OBVIOUS
  <2> QED BY <2>1, <2>2
<1>3. ASSUME NEW i \in Nat
      PROVE  Tree(i).whole /\ Native(i).whole /\ Native(i).cubemx /\ ~UserFile.whole
  OBVIOUS
<1> QED BY <1>1, <1>2, <1>3

LEMMA EntryTypes ==
    /\ JobId \subseteq Nat /\ 0 \in JobId
    /\ \A i \in JobId : Tree(i) \in Entry /\ Native(i) \in Entry /\ Part(i) \in Entry
    /\ UserFile \in Entry
<1>1. JobId \subseteq Nat /\ 0 \in JobId
  BY BoundsAssumption DEF JobId
<1>2. ASSUME NEW i \in JobId PROVE Tree(i) \in Entry /\ Native(i) \in Entry /\ Part(i) \in Entry
  BY DEF Tree, Native, Part, Entry
<1> QED BY <1>1, <1>2 DEF UserFile

LEMMA Directories ==
    /\ \A d \in SUBSET Entry : d \notin {None, Absent} /\ d \in Directory
    /\ \A d \in Directory : d # None /\ (d = Absent \/ d \in SUBSET Entry)
    /\ None \notin Process /\ None \notin Nat /\ Absent \in Directory /\ {} \in Directory
BY AbsentIsNoDirectory, AbsentIsNotNone, NoneIsNobody DEF Directory

(* What is fit to be at the destination stays fit, as long as a delivery   *)
(* that begins takes a new number.                                         *)
LEMMA SettledGrows ==
    ASSUME jobs \in Nat, jobs' \in Nat, jobs <= jobs',
           \A p \in Process : delivery'[p].at \in Open =>
               \/ delivery[p].at \in Open /\ delivery'[p].id = delivery[p].id
               \/ ~(delivery'[p].id <= jobs)
    PROVE  Settled \subseteq Settled'
<1> SUFFICES ASSUME NEW i \in Settled PROVE i \in Settled'
  OBVIOUS
<1>1. i \in JobId /\ i \in Nat /\ i <= jobs
  BY EntryTypes DEF Settled
<1>2. ASSUME NEW p \in Process, delivery'[p].at \in Open PROVE delivery'[p].id # i
  BY <1>1, <1>2 DEF Settled
<1>3. i <= jobs'
  BY <1>1
<1> QED BY <1>1, <1>2, <1>3 DEF Settled

LEMMA FitStays ==
    ASSUME NEW d, NEW old, NEW new, old \subseteq new, Fit(d, old)
    PROVE  Fit(d, new)
BY DEF Fit

LEMMA FitPlaces ==
    ASSUME NEW ids
    PROVE  /\ Fit(Absent, ids) /\ Fit(None, ids) /\ Fit({}, ids) /\ Fit({UserFile}, ids)
           /\ \A i \in Nat : Fit({Native(i)}, ids) /\ Fit({Native(i), UserFile}, ids)
BY Entries, EntryTypes DEF Fit, UserFile

(* What a deletion leaves of a directory.                                  *)
LEMMA RemnantsFit ==
    ASSUME NEW d \in SUBSET Entry, NEW r \in Remnants(d)
    PROVE  r \in SUBSET Entry /\ \A i \in JobId : Tree(i) \in r => Tree(i) \in d
<1>1. r \subseteq d \cup {Torn(e) : e \in d}
  BY DEF Remnants
<1>2. ASSUME NEW e \in d PROVE Torn(e) \in Entry /\ Torn(e).whole = FALSE
  BY DEF Torn, Entry
<1>3. \A i \in JobId : Tree(i).whole
  BY Entries, EntryTypes
<1> QED BY <1>1, <1>2, <1>3

(* A job that begins publishes nothing yet.                                *)
LEMMA NewNumberFits ==
    ASSUME jobs \in Nat, jobs' = jobs + 1, ContentInv, UNCHANGED <<dest, creation, regen>>,
           NEW p \in Process, delivery'[p].at \in Open => delivery'[p].id = jobs + 1,
           \A q \in Process \ {p} : delivery'[q] = delivery[q]
    PROVE  ContentInv'
<1>1. Settled \subseteq Settled'
  BY SettledGrows
<1> QED BY <1>1, FitStays DEF ContentInv
--------------------------------------------------------------------------------
(* The output directory of the converted copies.                           *)
CopyAll == CopyTypeOK /\ CopyInv

(* Every step of a copier other than its first gives it a new step, or     *)
(* ends it; nothing of another copier changes.                             *)
LEMMA CopyMoves ==
    ASSUME CopyTypeOK, NEW p \in Process,
           NEW step \in {"previewed", "make", "mark", "write", "recheck", "publish",
                         "unmark", "fail"},
           CopyTo(p, step)
    PROVE  /\ copy' \in [Process -> [at : {"idle", "previewed", "make", "mark", "write",
                                            "recheck", "publish", "unmark", "fail"},
                                      of : Source \cup {None}]]
           /\ copy'[p].at = step /\ copy'[p].of = copy[p].of
           /\ \A q \in Process \ {p} : copy'[q] = copy[q]
BY DEF CopyTypeOK, CopyTo

LEMMA CopyBegins ==
    ASSUME TypeOK, CopyInv, NEW p \in Process,
           Preview(p) \/ BeginCopy(p) \/ MakeOutput(p)
    PROVE  CopyAll'
<1> USE NoneIsNobody, BoundsAssumption, FilesAssumption
<1> USE DEF TypeOK, CopyTypeOK, DestTypeOK, CopyAll, CopyInv, Copying, Written,
            IncompleteIsMarked, Source
<1>1. CASE Preview(p)
  <2>1. CopyTypeOK'
    <3>1. copy' = [copy EXCEPT ![p].at = "previewed", ![p].of = source]
          /\ source \in Source /\ out' = out
      BY <1>1 DEF Preview
    <3>2. [copy[p] EXCEPT !.at = "previewed", !.of = source]
            \in [at : {"idle", "previewed", "make", "mark", "write", "recheck", "publish",
                      "unmark", "fail"}, of : Source \cup {None}]
      BY <3>1
    <3>3. copy' \in [Process -> [at : {"idle", "previewed", "make", "mark", "write", "recheck",
                                     "publish", "unmark", "fail"}, of : Source \cup {None}]]
      BY <3>1, <3>2
    <3> QED BY <3>1, <3>3
  <2>2. /\ copy'[p].at = "previewed" /\ copy'[p].of \in Source /\ UNCHANGED <<out, source>>
        /\ \A q \in Process \ {p} : copy'[q] = copy[q]
    BY <1>1 DEF Preview, destVars
  <2>3. None \notin Source
    OBVIOUS
  <2>4. CopyInv'
    BY <1>1, <2>2, <2>3 DEF Preview
  <2> QED BY <2>1, <2>4
<1>2. CASE BeginCopy(p)
  BY <1>2 DEF BeginCopy, CopyTo, EndCopy, NoCopy, destVars
<1>3. CASE MakeOutput(p)
  <2>1. CASE out' = [NoOutput EXCEPT !.of = copy[p].of] /\ CopyTo(p, "mark")
    <3>1. CopyTypeOK'
      <4>1. copy' = [copy EXCEPT ![p].at = "mark"] /\ source' = source
        BY <1>3, <2>1 DEF MakeOutput, CopyTo
      <4>2. out' = [of |-> copy[p].of, files |-> 0, marker |-> FALSE, manifest |-> FALSE]
        BY <2>1 DEF NoOutput
      <4>3. 0 \in 0 .. Files /\ copy[p].of \in Source \cup {None}
        OBVIOUS
      <4> QED BY <4>1, <4>2, <4>3
    <3>2. CopyInv'
      BY <1>3, <2>1 DEF MakeOutput, CopyTo, EndCopy, NoCopy, NoOutput, NewJob
    <3> QED BY <3>1, <3>2
  <2>2. CASE EndCopy(p) /\ UNCHANGED out
    <3>1. CopyTypeOK'
      BY <1>3, <2>2 DEF MakeOutput, CopyTo, EndCopy, NoCopy, NoOutput, NewJob
    <3>2. CopyInv'
      BY <1>3, <2>2 DEF MakeOutput, CopyTo, EndCopy, NoCopy, NoOutput, NewJob
    <3> QED BY <3>1, <3>2
  <2> QED BY <1>3, <2>1, <2>2 DEF MakeOutput
<1> QED BY <1>1, <1>2, <1>3

LEMMA CopyWrites ==
    ASSUME TypeOK, CopyInv, NEW p \in Process,
           Mark(p) \/ WriteFile(p) \/ Recheck(p) \/ PublishManifest(p)
    PROVE  CopyAll'
<1> USE NoneIsNobody, BoundsAssumption, FilesAssumption
<1> USE DEF TypeOK, CopyTypeOK, DestTypeOK, CopyAll, CopyInv, Copying, Written,
            IncompleteIsMarked, Source
<1>1. CASE Mark(p)
  <2>1. CASE out' = [out EXCEPT !.marker = TRUE] /\ CopyTo(p, "write")
    <3>1. CopyTypeOK'
      BY <1>1, <2>1, CopyMoves DEF Mark, destVars
    <3>2. CopyInv'
      BY <1>1, <2>1 DEF Mark, CopyTo, EndCopy, NoCopy, NoOutput, destVars
    <3> QED BY <3>1, <3>2
  <2>2. CASE out' = NoOutput /\ EndCopy(p)
    <3>1. CopyTypeOK'
      BY <1>1, <2>2 DEF Mark, CopyTo, EndCopy, NoCopy, NoOutput, destVars
    <3>2. CopyInv'
      BY <1>1, <2>2 DEF Mark, CopyTo, EndCopy, NoCopy, NoOutput, destVars
    <3> QED BY <3>1, <3>2
  <2>3. CASE UNCHANGED out /\ CopyTo(p, "fail")
    <3>1. CopyTypeOK'
      BY <1>1, <2>3 DEF Mark, CopyTo, EndCopy, NoCopy, NoOutput, destVars
    <3>2. CopyInv'
      BY <1>1, <2>3 DEF Mark, CopyTo, EndCopy, NoCopy, NoOutput, destVars
    <3> QED BY <3>1, <3>2
  <2> QED BY <1>1, <2>1, <2>2, <2>3 DEF Mark
<1>2. CASE WriteFile(p)
  <2>1. CASE out' = [out EXCEPT !.files = @ + 1] /\ UNCHANGED copy /\ out.files < Files
    <3>1. /\ out' \in [of : Source \cup {None}, files : 0 .. Files, marker : BOOLEAN,
                       manifest : BOOLEAN]
          /\ out'.of = out.of /\ out'.marker = out.marker /\ out'.manifest = out.manifest
          /\ out'.files = out.files + 1
      BY <2>1
    <3>2. CopyTypeOK'
      BY <2>1, <3>1
    <3> QED BY <1>2, <2>1, <3>1, <3>2 DEF WriteFile
  <2>2. CASE CopyTo(p, "recheck") /\ UNCHANGED out /\ out.files = Files
    <3>1. CopyTypeOK'
      BY <2>2, CopyMoves
    <3>2. CopyInv'
      BY <1>2, <2>2, CopyMoves DEF WriteFile
    <3> QED BY <3>1, <3>2
  <2>3. out.files < Files \/ out.files = Files
    OBVIOUS
  <2> QED BY <1>2, <2>1, <2>2, <2>3 DEF WriteFile
<1>3. CASE Recheck(p)
  BY <1>3 DEF Recheck, CopyTo, destVars
<1>4. CASE PublishManifest(p)
  <2>1. /\ out' \in [of : Source \cup {None}, files : 0 .. Files, marker : BOOLEAN,
                     manifest : BOOLEAN]
        /\ out'.of = out.of /\ out'.marker = out.marker /\ out'.manifest
        /\ out'.files = out.files
    BY <1>4 DEF PublishManifest
  <2>2. CopyTypeOK'
    BY <1>4, <2>1, CopyMoves DEF PublishManifest
  <2>3. CopyInv'
    BY <1>4, <2>1, CopyMoves DEF PublishManifest
  <2> QED BY <2>2, <2>3
<1> QED BY <1>1, <1>2, <1>3, <1>4

LEMMA CopyEnds ==
    ASSUME TypeOK, CopyInv, NEW p \in Process,
           Unmark(p) \/ CopyFails(p) \/ ReportFailure(p) \/ CrashInCopy(p)
    PROVE  CopyAll'
<1> USE NoneIsNobody, BoundsAssumption, FilesAssumption
<1> USE DEF TypeOK, CopyTypeOK, DestTypeOK, CopyAll, CopyInv, Copying, Written,
            IncompleteIsMarked, Source
<1>1. CASE Unmark(p)
  <2>1. CASE out' = [out EXCEPT !.marker = FALSE] /\ EndCopy(p)
    <3>1. CopyTypeOK'
      BY <1>1, <2>1 DEF Unmark, CopyTo, EndCopy, NoCopy, destVars
    <3>2. CopyInv'
      BY <1>1, <2>1 DEF Unmark, CopyTo, EndCopy, NoCopy, destVars
    <3> QED BY <3>1, <3>2
  <2>2. CASE out' = [out EXCEPT !.manifest = FALSE] /\ CopyTo(p, "fail")
    <3>1. CopyTypeOK'
      BY <1>1, <2>2, CopyMoves DEF Unmark, destVars
    <3>2. CopyInv'
      BY <1>1, <2>2, CopyMoves DEF Unmark
    <3> QED BY <3>1, <3>2
  <2>3. CASE UNCHANGED out /\ CopyTo(p, "fail")
    <3>1. CopyTypeOK'
      BY <1>1, <2>3 DEF Unmark, CopyTo, EndCopy, NoCopy, destVars
    <3>2. CopyInv'
      BY <1>1, <2>3 DEF Unmark, CopyTo, EndCopy, NoCopy, destVars
    <3> QED BY <3>1, <3>2
  <2> QED BY <1>1, <2>1, <2>2, <2>3 DEF Unmark
<1>2. CASE CopyFails(p)
  BY <1>2 DEF CopyFails, CopyTo, destVars
<1>3. CASE ReportFailure(p)
  <2>1. CASE out' = [out EXCEPT !.marker = TRUE]
    <3>1. CopyTypeOK'
      BY <1>3, <2>1 DEF ReportFailure, EndCopy, NoCopy, destVars
    <3>2. CopyInv'
      BY <1>3, <2>1 DEF ReportFailure, EndCopy, NoCopy, destVars
    <3> QED BY <3>1, <3>2
  <2>2. CASE UNCHANGED out
    <3>1. CopyTypeOK'
      BY <1>3, <2>2 DEF ReportFailure, EndCopy, NoCopy, destVars
    <3>2. CopyInv'
      BY <1>3, <2>2 DEF ReportFailure, EndCopy, NoCopy, destVars
    <3> QED BY <3>1, <3>2
  <2> QED BY <1>3, <2>1, <2>2 DEF ReportFailure
<1>4. CASE CrashInCopy(p)
  BY <1>4 DEF CrashInCopy, EndCopy, NoCopy, destVars
<1> QED BY <1>1, <1>2, <1>3, <1>4
--------------------------------------------------------------------------------
(* The delivery of a migrated project.                                     *)
Delivery == [at : Steps, plan : Plan \cup {None}, id : JobId, emptied : BOOLEAN]
DelAll == DestTypeOK /\ DeliveryTypeOK /\ StagingInv /\ ContentInv

LEMMA DelRecords ==
    ASSUME NEW r \in Delivery, NEW step \in Steps, NEW pl \in Plan, NEW i \in JobId
    PROVE  /\ [r EXCEPT !.at = step] \in Delivery
           /\ [r EXCEPT !.at = step, !.plan = pl] \in Delivery
           /\ [r EXCEPT !.at = step, !.id = i] \in Delivery
           /\ [r EXCEPT !.at = step, !.emptied = TRUE] \in Delivery
BY DEF Delivery

LEMMA NoDelRecord == NoDelivery \in Delivery /\ NoDelivery.at = "idle"
BY EntryTypes DEF NoDelivery, Delivery, Steps

LEMMA DelTyped ==
    ASSUME TypeOK
    PROVE  /\ delivery \in [Process -> Delivery]
           /\ \A p \in Process : delivery[p].at \in Steps /\ delivery[p].id \in JobId
           /\ DOMAIN staging \subseteq Plan
           /\ \A pl \in DOMAIN staging : staging[pl] \in [id : JobId, items : SUBSET Entry]
           /\ dest \in Directory /\ source \in Source /\ acts \in Source /\ jobs \in JobId
           /\ jobs \in Nat /\ acts \in Nat /\ Source \subseteq Nat
           /\ \A p \in Process : delivery[p].id \in Nat
<1>1. /\ delivery \in [Process -> Delivery]
      /\ DOMAIN staging \subseteq Plan
      /\ \A pl \in DOMAIN staging : staging[pl] \in [id : JobId, items : SUBSET Entry]
      /\ dest \in Directory /\ source \in Source /\ acts \in Source /\ jobs \in JobId
  BY DEF TypeOK, DeliveryTypeOK, Delivery, DestTypeOK
<1>2. \A p \in Process : delivery[p].at \in Steps /\ delivery[p].id \in JobId
  BY <1>1 DEF Delivery
<1>3. Source \subseteq Nat
  BY BoundsAssumption DEF Source
<1> QED BY <1>1, <1>2, <1>3, EntryTypes

(* Going from one step to another.                                         *)
LEMMA DelGoes ==
    ASSUME TypeOK, NEW p \in Process, NEW step \in Steps, Go(p, step)
    PROVE  /\ delivery' \in [Process -> Delivery]
           /\ delivery'[p] = [delivery[p] EXCEPT !.at = step]
           /\ delivery'[p].at = step /\ delivery'[p].plan = delivery[p].plan
           /\ delivery'[p].id = delivery[p].id
           /\ \A q \in Process \ {p} : delivery'[q] = delivery[q]
<1>1. delivery' = [delivery EXCEPT ![p] = [delivery[p] EXCEPT !.at = step]]
  BY DelTyped DEF Go
<1>2. [delivery[p] EXCEPT !.at = step] \in Delivery
  <2>1. delivery[p] \in Delivery
    BY DelTyped
  <2> QED BY <2>1 DEF Delivery
<1>3. delivery' \in [Process -> Delivery]
  BY <1>1, <1>2, DelTyped
<1>4. delivery[p] \in Delivery
  BY DelTyped
<1> QED BY <1>1, <1>3, <1>4, DelTyped DEF Delivery

LEMMA DelEnds ==
    ASSUME TypeOK, NEW p \in Process, EndDelivery(p)
    PROVE  /\ delivery' \in [Process -> Delivery]
           /\ delivery'[p].at = "idle"
           /\ \A q \in Process \ {p} : delivery'[q] = delivery[q]
BY DelTyped, NoDelRecord DEF EndDelivery

(* A step that changes neither the destination nor what the others have    *)
(* moved aside, and begins no delivery.                                    *)
LEMMA ContentStays ==
    ASSUME TypeOK, ContentInv, jobs' = jobs, dest' \in {dest, Absent, {}},
           UNCHANGED <<creation, regen>>,
           \A p \in Process : delivery'[p].at \in Open =>
               delivery[p].at \in Open /\ delivery'[p].id = delivery[p].id
    PROVE  ContentInv'
<1>1. jobs \in Nat
  BY EntryTypes DEF TypeOK, DestTypeOK
<1>2. Settled \subseteq Settled'
  BY <1>1, SettledGrows
<1>3. Fit(dest', Settled')
  BY <1>2, FitPlaces, FitStays DEF ContentInv
<1>4. \A p \in Process : Fit(creation[p].backup, Settled') /\ Fit(regen[p].backup, Settled')
  BY <1>2, FitStays DEF ContentInv
<1> QED BY <1>3, <1>4 DEF ContentInv

(* A delivery that goes on with the staging directory it has, or does not  *)
(* need it any more, keeps what is known of the others.                    *)
LEMMA StagingStays ==
    ASSUME TypeOK, StagingInv, NEW p \in Process, NEW step \in Steps,
           Go(p, step), UNCHANGED <<staging, jobs>>,
           delivery[p].at # "idle",
           step \in Open \cup {"confirm"} => delivery[p].at \in Open \cup {"confirm"},
           step \in Claimed => delivery[p].at \in Claimed,
           step \in Verified => Staged(p) /\ delivery[p].at \in Verified
    PROVE  StagingInv'
<1>1. \A q \in Process \ {p} : delivery'[q] = delivery[q]
  BY DelGoes
<1>2. /\ delivery'[p].at = step /\ delivery'[p].plan = delivery[p].plan
      /\ delivery'[p].id = delivery[p].id
  BY DelGoes
<1> SUFFICES ASSUME NEW q \in Process
    PROVE  /\ delivery'[q].at # "idle" => delivery'[q].plan \in Plan
           /\ Numbered(q)' /\ Claim(q)' /\ Staged(q)'
  BY DEF StagingInv
<1>3. delivery'[q].at # "idle" => delivery'[q].plan \in Plan
  BY <1>1, <1>2 DEF StagingInv
<1>4. Numbered(q)'
  BY <1>1, <1>2 DEF StagingInv, Numbered
<1>5. Claim(q)'
  BY <1>1, <1>2 DEF StagingInv, Claim
<1>6. Staged(q)'
  BY <1>1, <1>2 DEF StagingInv, Staged
<1> QED BY <1>3, <1>4, <1>5, <1>6

LEMMA StagingLeft ==
    ASSUME TypeOK, StagingInv, NEW p \in Process, EndDelivery(p), UNCHANGED <<staging, jobs>>
    PROVE  StagingInv'
<1>1. \A q \in Process \ {p} : delivery'[q] = delivery[q]
  BY DelEnds
<1>2. delivery'[p].at = "idle"
  BY DelEnds
<1> QED BY <1>1, <1>2 DEF StagingInv, Numbered, Claim, Staged, Open, Claimed, Verified

(* Steps that only move on, or end: RefuseDelivery, DeliveryFails, Verify, *)
(* CheckAbsent, Confirm, CrashInDelivery, and Cleanup before it removes.   *)
LEMMA DelMovesOn ==
    ASSUME TypeOK, StagingInv, ContentInv, NEW p \in Process, NEW step \in Steps,
           Go(p, step), UNCHANGED <<destVars, staging, creation, regen>>,
           delivery[p].at # "idle",
           step \in Open => delivery[p].at \in Open,
           step = "confirm" => delivery[p].at \in Open,
           step \in Claimed => delivery[p].at \in Claimed,
           step \in Verified => Staged(p) /\ delivery[p].at \in Verified
    PROVE  DelAll'
<1>1. StagingInv'
  BY StagingStays DEF destVars
<1>2. ContentInv'
  <2>1. \A q \in Process : delivery'[q].at \in Open =>
            delivery[q].at \in Open /\ delivery'[q].id = delivery[q].id
    <3>1. /\ delivery'[p].at = step /\ delivery'[p].id = delivery[p].id
          /\ \A q \in Process \ {p} : delivery'[q] = delivery[q]
      BY DelGoes
    <3> QED BY <3>1
  <2>2. jobs' = jobs /\ dest' = dest
    BY DEF destVars
  <2> QED BY <2>1, <2>2, ContentStays
<1>3. DestTypeOK' /\ DeliveryTypeOK'
  BY DelGoes, DelTyped DEF TypeOK, DestTypeOK, DeliveryTypeOK, Delivery, destVars
<1> QED BY <1>1, <1>2, <1>3 DEF DelAll

LEMMA DelStops ==
    ASSUME TypeOK, StagingInv, ContentInv, NEW p \in Process, EndDelivery(p),
           UNCHANGED <<destVars, staging, creation, regen>>
    PROVE  DelAll'
<1>1. StagingInv'
  BY StagingLeft DEF destVars
<1>2. ContentInv'
  BY ContentStays, DelEnds DEF destVars, Open, Claimed
<1>3. DestTypeOK' /\ DeliveryTypeOK'
  BY DelEnds, DelTyped DEF TypeOK, DestTypeOK, DeliveryTypeOK, Delivery, destVars
<1> QED BY <1>1, <1>2, <1>3 DEF DelAll

LEMMA PlanDeliveryKeeps ==
    ASSUME TypeOK, StagingInv, ContentInv, NEW p \in Process, UNCHANGED <<creation, regen>>,
           PlanDelivery(p)
    PROVE  DelAll'
<1> DEFINE pl == [source |-> source, state |-> StateOf(dest)]
           new == [delivery[p] EXCEPT !.at = "planned", !.plan = pl]
<1>1. delivery' = [delivery EXCEPT ![p] = new]
  BY DelTyped DEF PlanDelivery
<1>2. pl \in Plan
  BY DelTyped DEF Plan, StateOf
<1>3. delivery[p] \in Delivery
  BY DelTyped
<1> HIDE DEF pl
<1>4. new \in Delivery /\ new.at = "planned" /\ new.plan = pl
  BY <1>2, <1>3 DEF Delivery, Steps
<1> HIDE DEF new
<1>5. /\ delivery' \in [Process -> Delivery] /\ delivery'[p] = new
      /\ \A q \in Process \ {p} : delivery'[q] = delivery[q]
  BY <1>1, <1>4, DelTyped
<1>6. DestTypeOK' /\ DeliveryTypeOK'
  BY <1>5, DelTyped
  DEF TypeOK, DestTypeOK, DeliveryTypeOK, Delivery, destVars, PlanDelivery
<1>7. StagingInv'
  <2>1. UNCHANGED <<staging, jobs>>
    BY DEF PlanDelivery, destVars
  <2> SUFFICES ASSUME NEW q \in Process
      PROVE  /\ delivery'[q].at # "idle" => delivery'[q].plan \in Plan
             /\ Numbered(q)' /\ Claim(q)' /\ Staged(q)'
    BY DEF StagingInv
  <2>2. delivery'[q].at # "idle" => delivery'[q].plan \in Plan
    BY <1>2, <1>4, <1>5 DEF StagingInv
  <2>3. Numbered(q)' /\ Claim(q)'
    BY <1>4, <1>5, <2>1 DEF StagingInv, Numbered, Claim, Open, Claimed
  <2>4. Staged(q)'
    BY <1>4, <1>5, <2>1 DEF StagingInv, Staged, Verified
  <2> QED BY <2>2, <2>3, <2>4
<1>8. ContentInv'
  BY <1>4, <1>5, ContentStays DEF PlanDelivery, destVars, Open, Claimed
<1> QED BY <1>6, <1>7, <1>8 DEF DelAll

LEMMA BeginDeliveryKeeps ==
    ASSUME TypeOK, StagingInv, ContentInv, NEW p \in Process, UNCHANGED <<creation, regen>>,
           BeginDelivery(p)
    PROVE  DelAll'
<1> DEFINE pl == delivery[p].plan
           new == [delivery[p] EXCEPT !.at = "stage", !.id = jobs + 1]
           dir == [id |-> jobs + 1, items |-> {}]
<1>1. delivery[p] \in Delivery /\ delivery[p].at = "planned" /\ pl \in Plan
  BY DelTyped DEF BeginDelivery, StagingInv
<1>2. /\ pl \notin DOMAIN staging /\ staging' = With(staging, pl, dir)
      /\ jobs' = jobs + 1 /\ jobs' \in JobId /\ UNCHANGED <<dest, source, acts>>
  BY DelTyped, BoundsAssumption DEF BeginDelivery, MayClaim, NewJob, JobId
<1>3. dir \in [id : JobId, items : SUBSET Entry]
  BY <1>2
<1>4. /\ DOMAIN staging' = DOMAIN staging \cup {pl} /\ staging'[pl] = dir
      /\ \A x \in DOMAIN staging : staging'[x] = staging[x]
  BY <1>2 DEF With
<1>5. DestTypeOK'
  BY <1>2, DelTyped DEF DestTypeOK
<1>6. \/ delivery' = [delivery EXCEPT ![p] = new]
      \/ EndDelivery(p)
  <2>1. staging'[pl].id = jobs + 1
    BY <1>4
  <2> QED BY <2>1, DelTyped DEF BeginDelivery
<1> HIDE DEF dir, pl
<1>7. /\ new \in Delivery /\ new.at = "stage" /\ new.id = jobs + 1
      /\ new.plan = pl
  BY <1>1, <1>2 DEF Delivery, Steps, pl
<1> HIDE DEF new
<1>8. CASE delivery' = [delivery EXCEPT ![p] = new]
  <2>1. /\ delivery' \in [Process -> Delivery] /\ delivery'[p] = new
        /\ \A q \in Process \ {p} : delivery'[q] = delivery[q]
    BY <1>7, <1>8, DelTyped
  <2>2. DeliveryTypeOK'
    BY <1>1, <1>3, <1>4, <2>1, DelTyped DEF DeliveryTypeOK, Delivery
  <2>3. StagingInv'
    <3> SUFFICES ASSUME NEW q \in Process
        PROVE  /\ delivery'[q].at # "idle" => delivery'[q].plan \in Plan
               /\ Numbered(q)' /\ Claim(q)' /\ Staged(q)'
      BY DEF StagingInv
    <3>1. delivery'[q].at # "idle" => delivery'[q].plan \in Plan
      BY <1>1, <1>7, <2>1 DEF StagingInv
    <3>2. Numbered(q)'
      <4>1. \A r \in Process \ {p} :
                /\ delivery'[r] = delivery[r] /\ delivery[r].id \in Nat
                /\ delivery'[r].at \in Open \cup {"confirm"} => delivery'[r].id <= jobs
        BY <2>1, DelTyped DEF StagingInv, Numbered
      <4>2. delivery'[p].id = jobs + 1 /\ jobs' = jobs + 1 /\ jobs \in Nat
        BY <1>2, <1>7, <2>1, DelTyped
      <4> QED BY <4>1, <4>2 DEF StagingInv, Numbered
    <3>3. Claim(q)'
      BY <1>2, <1>4, <1>7, <2>1 DEF StagingInv, Claim
    <3>4. Staged(q)'
      BY <1>2, <1>4, <1>7, <2>1 DEF StagingInv, Staged, Claim, Claimed, Verified
    <3> QED BY <3>1, <3>2, <3>3, <3>4
  <2>4. ContentInv'
    BY <1>2, <1>7, <2>1, DelTyped, NewNumberFits
  <2> QED BY <1>5, <2>2, <2>3, <2>4 DEF DelAll
<1>9. CASE EndDelivery(p)
  <2>1. /\ delivery' \in [Process -> Delivery] /\ delivery'[p].at = "idle"
        /\ \A q \in Process \ {p} : delivery'[q] = delivery[q]
    BY <1>9, DelEnds
  <2>2. DeliveryTypeOK'
    BY <1>1, <1>3, <1>4, <2>1, DelTyped DEF DeliveryTypeOK, Delivery
  <2>3. StagingInv'
    <3>1. jobs \in Nat /\ jobs' = jobs + 1 /\ \A q \in Process : delivery[q].id \in Nat
      BY <1>2, DelTyped
    <3> SUFFICES ASSUME NEW q \in Process
        PROVE  /\ delivery'[q].at # "idle" => delivery'[q].plan \in Plan
               /\ Numbered(q)' /\ Claim(q)' /\ Staged(q)'
      BY DEF StagingInv
    <3>2. delivery'[q].at # "idle" => delivery'[q].plan \in Plan
      BY <2>1 DEF StagingInv
    <3>3. Numbered(q)'
      BY <2>1, <3>1 DEF StagingInv, Numbered, Open, Claimed
    <3>4. Claim(q)'
      BY <1>4, <2>1 DEF StagingInv, Claim, Claimed
    <3>5. Staged(q)'
      BY <1>4, <2>1 DEF StagingInv, Staged, Claim, Claimed, Verified
    <3> QED BY <3>2, <3>3, <3>4, <3>5
  <2>4. ContentInv'
    BY <1>2, <2>1, DelTyped, NewNumberFits DEF Open, Claimed
  <2> QED BY <1>5, <2>2, <2>3, <2>4 DEF DelAll
<1> QED BY <1>6, <1>8, <1>9

LEMMA DelMovesOnActions ==
    ASSUME TypeOK, StagingInv, ContentInv, NEW p \in Process, UNCHANGED <<creation, regen>>,
           \/ RefuseDelivery(p) \/ DeliveryFails(p) \/ Verify(p) \/ CheckAbsent(p)
           \/ Confirm(p) \/ CrashInDelivery(p)
    PROVE  DelAll'
<1>1. CASE RefuseDelivery(p)
  BY <1>1, DelStops DEF RefuseDelivery
<1>2. CASE DeliveryFails(p)
  BY <1>2, DelMovesOn DEF DeliveryFails, Open, Claimed, Verified, Steps
<1>3. CASE Verify(p)
  <2>1. CASE delivery[p].at = "verify"
    <3>1. Owned(p) /\ staging[delivery[p].plan].items = {Tree(delivery[p].id)}
      BY <1>3, <2>1 DEF Verify
    <3>2. Go(p, "source") /\ UNCHANGED <<destVars, staging>>
      BY <1>3, <2>1 DEF Verify
    <3>3. /\ delivery'[p].at = "source" /\ delivery'[p].plan = delivery[p].plan
          /\ delivery'[p].id = delivery[p].id
          /\ \A q \in Process \ {p} : delivery'[q] = delivery[q]
      BY <3>2, DelGoes DEF Steps
    <3>4. StagingInv'
      <4> SUFFICES ASSUME NEW q \in Process
          PROVE  /\ delivery'[q].at # "idle" => delivery'[q].plan \in Plan
                 /\ Numbered(q)' /\ Claim(q)' /\ Staged(q)'
        BY DEF StagingInv
      <4>1. delivery'[q].at # "idle" => delivery'[q].plan \in Plan
        BY <2>1, <3>3 DEF StagingInv
      <4>2. Numbered(q)'
        BY <2>1, <3>2, <3>3 DEF StagingInv, Numbered, Open, Claimed, destVars
      <4>3. Claim(q)'
        BY <2>1, <3>2, <3>3 DEF StagingInv, Claim, Claimed
      <4>4. Staged(q)'
        BY <2>1, <3>1, <3>2, <3>3 DEF StagingInv, Staged
      <4> QED BY <4>1, <4>2, <4>3, <4>4
    <3>5. ContentInv'
      BY <2>1, <3>2, <3>3, ContentStays DEF Open, Claimed, destVars
    <3>6. DestTypeOK' /\ DeliveryTypeOK'
      BY <3>2, DelGoes, DelTyped
      DEF TypeOK, DestTypeOK, DeliveryTypeOK, Delivery, destVars, Steps
    <3> QED BY <3>4, <3>5, <3>6 DEF DelAll
  <2>2. CASE delivery[p].at = "source"
    BY <1>3, <2>2, DelMovesOn DEF Verify, StagingInv, Open, Claimed, Verified, Steps
  <2>3. CASE delivery[p].at = "inspect"
    <3> DEFINE step == IF delivery[p].plan.state = "empty" THEN "empty" ELSE "publish"
    <3>1. Go(p, step) /\ UNCHANGED <<destVars, staging>> /\ step \in {"empty", "publish"}
      BY <1>3, <2>3 DEF Verify
    <3> HIDE DEF step
    <3> QED BY <2>3, <3>1, DelMovesOn DEF StagingInv, Open, Claimed, Verified, Steps
  <2> QED BY <1>3, <2>1, <2>2, <2>3 DEF Verify
<1>4. CASE CheckAbsent(p)
  BY <1>4, DelMovesOn DEF CheckAbsent, StagingInv, Open, Claimed, Verified, Steps
<1>5. CASE Confirm(p)
  BY <1>5, DelStops DEF Confirm
<1>6. CASE CrashInDelivery(p)
  BY <1>6, DelStops DEF CrashInDelivery
<1> QED BY <1>1, <1>2, <1>3, <1>4, <1>5, <1>6

(* A file more, or the last one, in the staging directory of p's plan.     *)
LEMMA StageKeeps ==
    ASSUME TypeOK, StagingInv, ContentInv, NEW p \in Process, UNCHANGED <<creation, regen>>,
           Stage(p)
    PROVE  DelAll'
<1> DEFINE pl == delivery[p].plan
<1>1. PICK step \in {"staging", "verify"} : Go(p, step)
  BY DEF Stage
<1>2. PICK items \in SUBSET Entry : staging' = [staging EXCEPT ![pl].items = items]
  <2>1. /\ pl \in DOMAIN staging /\ staging[pl].items \in SUBSET Entry
        /\ Tree(delivery[p].id) \in Entry /\ Part(delivery[p].id) \in Entry
    BY DelTyped, EntryTypes DEF Stage
  <2>2. \/ staging' = [staging EXCEPT ![pl].items =
                          staging[pl].items \cup {Part(delivery[p].id)}]
        \/ staging' = [staging EXCEPT ![pl].items =
                          (staging[pl].items \ {Part(delivery[p].id)})
                              \cup {Tree(delivery[p].id)}]
    BY DEF Stage
  <2> QED BY <2>1, <2>2
<1>3. /\ delivery[p].at \in {"stage", "staging"} /\ pl \in DOMAIN staging
      /\ UNCHANGED destVars
  BY DEF Stage
<1>4. /\ delivery' \in [Process -> Delivery]
      /\ delivery'[p].at = step /\ delivery'[p].plan = pl
      /\ delivery'[p].id = delivery[p].id
      /\ \A q \in Process \ {p} : delivery'[q] = delivery[q]
  BY <1>1, DelGoes DEF Steps
<1>5. /\ DOMAIN staging' = DOMAIN staging
      /\ \A x \in DOMAIN staging \ {pl} : staging'[x] = staging[x]
      /\ staging'[pl] = [staging[pl] EXCEPT !.items = items]
  BY <1>2, <1>3
<1>6. staging'[pl] \in [id : JobId, items : SUBSET Entry]
  <2>1. staging[pl] \in [id : JobId, items : SUBSET Entry]
    BY <1>3, DelTyped
  <2> QED BY <1>5, <2>1
<1> HIDE DEF pl
<1>7. DestTypeOK' /\ DeliveryTypeOK'
  BY <1>3, <1>4, <1>5, <1>6, DelTyped DEF DestTypeOK, DeliveryTypeOK, Delivery, destVars
<1>8. StagingInv'
  <2> SUFFICES ASSUME NEW q \in Process
      PROVE  /\ delivery'[q].at # "idle" => delivery'[q].plan \in Plan
             /\ Numbered(q)' /\ Claim(q)' /\ Staged(q)'
    BY DEF StagingInv
  <2>1. delivery'[q].at # "idle" => delivery'[q].plan \in Plan
    BY <1>3, <1>4 DEF StagingInv, pl
  <2>2. Numbered(q)'
    BY <1>3, <1>4 DEF StagingInv, Numbered, Open, Claimed, destVars
  <2>3. Claim(q)'
    BY <1>3, <1>4, <1>5 DEF StagingInv, Claim, Claimed, pl
  <2>4. Staged(q)'
    <3>1. CASE q = p
      BY <1>4, <3>1 DEF Staged, Verified
    <3>2. CASE q # p /\ delivery[q].at \in Verified
      <4>1. delivery[q].plan # pl /\ delivery[q].plan \in DOMAIN staging
        BY <1>3, <3>2 DEF StagingInv, Claim, Claimed, Verified, pl
      <4> QED BY <1>4, <1>5, <3>2, <4>1 DEF StagingInv, Staged
    <3>3. CASE q # p /\ delivery[q].at \notin Verified
      BY <1>4, <3>3 DEF Staged
    <3> QED BY <3>1, <3>2, <3>3
  <2> QED BY <2>1, <2>2, <2>3, <2>4
<1>9. ContentInv'
  BY <1>3, <1>4, ContentStays DEF Open, Claimed, destVars
<1> QED BY <1>7, <1>8, <1>9 DEF DelAll

(* Somebody puts another directory in the place of a staging directory.    *)
LEMMA StagingReplacedKeeps ==
    ASSUME TypeOK, StagingInv, ContentInv, UNCHANGED <<creation, regen>>, StagingReplaced
    PROVE  DelAll'
<1>1. PICK pl \in DOMAIN staging :
          staging' = [staging EXCEPT ![pl] = [id |-> 0, items |-> {UserFile}]]
  BY DEF StagingReplaced
<1>2. /\ DOMAIN staging' = DOMAIN staging
      /\ staging'[pl] = [id |-> 0, items |-> {UserFile}]
      /\ \A x \in DOMAIN staging \ {pl} : staging'[x] = staging[x]
  BY <1>1
<1>3. [id |-> 0, items |-> {UserFile}] \in [id : JobId, items : SUBSET Entry]
  BY EntryTypes
<1>4. UNCHANGED <<dest, source, jobs, delivery>> /\ acts' = acts + 1 /\ acts < MaxActs
  BY DEF StagingReplaced
<1>5. DestTypeOK'
  BY <1>4, DelTyped, BoundsAssumption DEF DestTypeOK, Source
<1>6. DeliveryTypeOK'
  BY <1>2, <1>3, <1>4, DelTyped DEF DeliveryTypeOK, Delivery
<1>7. StagingInv'
  <2>1. staging'[pl].items = {UserFile}
    BY <1>2
  <2> QED BY <1>2, <1>4, <2>1 DEF StagingInv, Numbered, Claim, Staged, Claimed, Verified
<1>8. ContentInv'
  BY <1>4, ContentStays
<1> QED BY <1>5, <1>6, <1>7, <1>8 DEF DelAll

(* The empty destination is removed to make room.                          *)
LEMMA EmptyDestinationKeeps ==
    ASSUME TypeOK, StagingInv, ContentInv, NEW p \in Process, UNCHANGED <<creation, regen>>,
           EmptyDestination(p)
    PROVE  DelAll'
<1> DEFINE new == [delivery[p] EXCEPT !.at = "publish", !.emptied = TRUE]
<1>1. delivery[p] \in Delivery /\ delivery[p].at = "empty"
  BY DelTyped DEF EmptyDestination
<1>2. delivery' = [delivery EXCEPT ![p] = new]
  BY DelTyped DEF EmptyDestination
<1>3. /\ new \in Delivery /\ new.at = "publish" /\ new.id = delivery[p].id
      /\ new.plan = delivery[p].plan
  BY <1>1 DEF Delivery, Steps
<1> HIDE DEF new
<1>4. /\ delivery' \in [Process -> Delivery] /\ delivery'[p] = new
      /\ \A q \in Process \ {p} : delivery'[q] = delivery[q]
  BY <1>2, <1>3, DelTyped
<1>5. UNCHANGED <<source, acts, jobs, staging>> /\ dest' = Absent
  BY DEF EmptyDestination
<1>6. DestTypeOK' /\ DeliveryTypeOK'
  BY <1>4, <1>5, DelTyped, Directories DEF DestTypeOK, DeliveryTypeOK, Delivery
<1>7. StagingInv'
  <2> SUFFICES ASSUME NEW q \in Process
      PROVE  /\ delivery'[q].at # "idle" => delivery'[q].plan \in Plan
             /\ Numbered(q)' /\ Claim(q)' /\ Staged(q)'
    BY DEF StagingInv
  <2>1. delivery'[q].at # "idle" => delivery'[q].plan \in Plan
    BY <1>1, <1>3, <1>4 DEF StagingInv
  <2>2. Numbered(q)'
    BY <1>1, <1>3, <1>4, <1>5 DEF StagingInv, Numbered, Open, Claimed
  <2>3. Claim(q)'
    BY <1>1, <1>3, <1>4, <1>5 DEF StagingInv, Claim, Claimed
  <2>4. Staged(q)'
    BY <1>1, <1>3, <1>4, <1>5 DEF StagingInv, Staged, Verified
  <2> QED BY <2>1, <2>2, <2>3, <2>4
<1>8. ContentInv'
  BY <1>1, <1>3, <1>4, <1>5, ContentStays DEF Open, Claimed
<1> QED BY <1>6, <1>7, <1>8 DEF DelAll

(* The staging directory is taken from the plan's name: renamed to the     *)
(* destination, or removed.                                                *)
LEMMA StagingGoes ==
    ASSUME TypeOK, StagingInv, NEW p \in Process, NEW step \in {"confirm", "giveback"},
           delivery[p].at \in Claimed, Go(p, step), jobs' = jobs,
           staging' = Without(staging, delivery[p].plan)
    PROVE  StagingInv' /\ DeliveryTypeOK'
<1> DEFINE pl == delivery[p].plan
<1>1. /\ delivery' \in [Process -> Delivery]
      /\ delivery'[p].at = step /\ delivery'[p].plan = pl
      /\ delivery'[p].id = delivery[p].id
      /\ \A q \in Process \ {p} : delivery'[q] = delivery[q]
  BY DelGoes DEF Steps
<1>2. /\ DOMAIN staging' = DOMAIN staging \ {pl}
      /\ \A x \in DOMAIN staging \ {pl} : staging'[x] = staging[x]
  BY DEF Without
<1> HIDE DEF pl
<1>3. DeliveryTypeOK'
  BY <1>1, <1>2, DelTyped DEF DeliveryTypeOK, Delivery
<1>4. ASSUME NEW q \in Process
      PROVE  /\ delivery'[q].at # "idle" => delivery'[q].plan \in Plan
             /\ Numbered(q)' /\ Claim(q)' /\ Staged(q)'
  <2>1. delivery'[q].at # "idle" => delivery'[q].plan \in Plan
    BY <1>1 DEF StagingInv, Claimed, pl
  <2>2. Numbered(q)'
    BY <1>1 DEF StagingInv, Numbered, Open, Claimed
  <2>3. Claim(q)'
    BY <1>1, <1>2 DEF StagingInv, Claim, Claimed, pl
  <2>4. Staged(q)'
    <3>1. CASE delivery'[q].at \in Verified
      <4>1. q # p /\ delivery[q].at \in Verified
        BY <1>1, <3>1 DEF Verified
      <4>2. delivery[q].plan # pl /\ delivery[q].plan \in DOMAIN staging
        BY <4>1 DEF StagingInv, Claim, Claimed, Verified, pl
      <4> QED BY <1>1, <1>2, <4>1, <4>2 DEF StagingInv, Staged
    <3> QED BY <3>1 DEF Staged
  <2> QED BY <2>1, <2>2, <2>3, <2>4
<1>5. StagingInv'
  BY <1>4 DEF StagingInv
<1> QED BY <1>3, <1>5

LEMMA RenameKeeps ==
    ASSUME TypeOK, StagingInv, ContentInv, NEW p \in Process, UNCHANGED <<creation, regen>>,
           Rename(p)
    PROVE  DelAll'
<1> DEFINE id == delivery[p].id
           items == staging[delivery[p].plan].items
<1>1. /\ delivery[p].at = "rename" /\ delivery[p].plan \in DOMAIN staging
      /\ dest' = items /\ Go(p, "confirm") /\ UNCHANGED <<source, acts, jobs>>
      /\ staging' = Without(staging, delivery[p].plan)
  BY DEF Rename, RenameOnto
<1>2. StagingInv' /\ DeliveryTypeOK'
  BY <1>1, StagingGoes DEF Claimed
<1>3. items \in SUBSET Entry
  BY <1>1, DelTyped
<1>4. DestTypeOK'
  BY <1>1, <1>3, DelTyped, Directories DEF DestTypeOK
<1>5. /\ delivery'[p].at = "confirm" /\ delivery'[p].id = id
      /\ \A q \in Process \ {p} : delivery'[q] = delivery[q]
  BY <1>1, DelGoes DEF Steps
<1>6. Settled \subseteq Settled'
  BY <1>1, <1>5, DelTyped, SettledGrows DEF Open, Claimed
<1>7. id \in Settled'
  <2>1. id \in JobId /\ id <= jobs
    BY <1>1, DelTyped DEF StagingInv, Numbered, Open, Claimed
  <2>2. \A q \in Process : delivery'[q].at \in Open => delivery'[q].id # id
    BY <1>1, <1>5 DEF StagingInv, Numbered, Open, Claimed
  <2> QED BY <1>1, <2>1, <2>2 DEF Settled
<1>8. items = {Tree(id)} \/ items = {UserFile}
  BY <1>1 DEF StagingInv, Staged, Verified
<1>9. Fit(items, Settled')
  <2>1. CASE items = {UserFile}
    BY <2>1, FitPlaces
  <2>2. CASE items = {Tree(id)}
    <3>1. id \in Nat /\ Tree(id).whole
      BY DelTyped, Entries
    <3>2. \A i \in JobId : Tree(i) = Tree(id) => i = id
      BY <3>1, Entries, EntryTypes
    <3> HIDE DEF items
    <3> QED BY <1>7, <2>2, <3>1, <3>2 DEF Fit
  <2> QED BY <1>8, <2>1, <2>2
<1>10. ContentInv'
  BY <1>1, <1>6, <1>9, FitStays DEF ContentInv
<1> QED BY <1>2, <1>4, <1>10 DEF DelAll

LEMMA DeliveryUndoneKeeps ==
    ASSUME TypeOK, StagingInv, ContentInv, NEW p \in Process, UNCHANGED <<creation, regen>>,
           Cleanup(p) \/ GiveBack(p)
    PROVE  DelAll'
<1>1. CASE Cleanup(p) /\ delivery[p].at = "cleanup"
  <2> DEFINE step == IF Owned(p) THEN "remove" ELSE "giveback"
  <2>1. Go(p, step) /\ UNCHANGED <<destVars, staging>> /\ step \in {"remove", "giveback"}
    BY <1>1 DEF Cleanup
  <2> HIDE DEF step
  <2> QED BY <1>1, <2>1, DelMovesOn DEF Open, Claimed, Verified, Steps
<1>2. CASE Cleanup(p) /\ delivery[p].at = "remove"
  <2>1. Go(p, "giveback") /\ UNCHANGED destVars
    BY <1>2 DEF Cleanup
  <2>2. ASSUME delivery[p].plan \in DOMAIN staging,
               NEW rest \in Remnants(staging[delivery[p].plan].items),
               staging' = [staging EXCEPT ![delivery[p].plan].items = rest]
        PROVE  DelAll'
    <3>1. /\ staging[delivery[p].plan] \in [id : JobId, items : SUBSET Entry]
          /\ rest \in SUBSET Entry
      BY <2>2, DelTyped, RemnantsFit
    <3>2. /\ DOMAIN staging' = DOMAIN staging
          /\ \A x \in DOMAIN staging \ {delivery[p].plan} : staging'[x] = staging[x]
          /\ staging'[delivery[p].plan] \in [id : JobId, items : SUBSET Entry]
      BY <2>2, <3>1
    <3>3. /\ delivery' \in [Process -> Delivery]
          /\ delivery'[p].at = "giveback" /\ delivery'[p].plan = delivery[p].plan
          /\ delivery'[p].id = delivery[p].id
          /\ \A q \in Process \ {p} : delivery'[q] = delivery[q]
      BY <2>1, DelGoes DEF Steps
    <3>4. DestTypeOK' /\ DeliveryTypeOK'
      BY <2>1, <3>2, <3>3, DelTyped DEF DestTypeOK, DeliveryTypeOK, Delivery, destVars
    <3>5. ContentInv'
      BY <1>2, <2>1, <3>3, ContentStays DEF Open, Claimed, destVars
    <3>6. StagingInv'
      <4> SUFFICES ASSUME NEW q \in Process
          PROVE  /\ delivery'[q].at # "idle" => delivery'[q].plan \in Plan
                 /\ Numbered(q)' /\ Claim(q)' /\ Staged(q)'
        BY DEF StagingInv
      <4>1. delivery'[q].at # "idle" => delivery'[q].plan \in Plan
        BY <1>2, <3>3 DEF StagingInv
      <4>2. Numbered(q)'
        BY <1>2, <2>1, <3>3 DEF StagingInv, Numbered, Open, Claimed, destVars
      <4>3. Claim(q)'
        BY <1>2, <3>2, <3>3 DEF StagingInv, Claim, Claimed
      <4>4. Staged(q)'
        <5>1. CASE q # p /\ delivery[q].at \in Verified
          <6>1. delivery[q].plan # delivery[p].plan /\ delivery[q].plan \in DOMAIN staging
            BY <1>2, <5>1 DEF StagingInv, Claim, Claimed, Verified
          <6> QED BY <3>2, <3>3, <5>1, <6>1 DEF StagingInv, Staged
        <5>2. CASE q = p \/ delivery[q].at \notin Verified
          BY <3>3, <5>2 DEF Staged, Verified
        <5> QED BY <5>1, <5>2
      <4> QED BY <4>1, <4>2, <4>3, <4>4
    <3> QED BY <3>4, <3>5, <3>6 DEF DelAll
  <2>3. CASE staging' = Without(staging, delivery[p].plan)
    <3>1. StagingInv' /\ DeliveryTypeOK'
      BY <1>2, <2>1, <2>3, StagingGoes DEF Claimed, destVars
    <3>2. ContentInv'
      BY <1>2, <2>1, DelGoes, ContentStays DEF Open, Claimed, destVars, Steps
    <3> QED BY <2>1, <3>1, <3>2, DelTyped DEF DelAll, DestTypeOK, destVars
  <2> QED BY <1>2, <2>2, <2>3 DEF Cleanup
<1>3. CASE GiveBack(p)
  <2>1. /\ EndDelivery(p) /\ dest' \in {dest, {}}
        /\ UNCHANGED <<source, acts, jobs, staging>>
    BY <1>3 DEF GiveBack
  <2>2. StagingInv'
    BY <2>1, StagingLeft
  <2>3. ContentInv'
    BY <2>1, DelEnds, ContentStays DEF Open, Claimed
  <2>4. DestTypeOK' /\ DeliveryTypeOK'
    BY <2>1, DelEnds, DelTyped, Directories DEF DestTypeOK, DeliveryTypeOK, Delivery
  <2> QED BY <2>2, <2>3, <2>4 DEF DelAll
<1> QED BY <1>1, <1>2, <1>3 DEF Cleanup

LEMMA DeliveryKeeps ==
    ASSUME TypeOK, StagingInv, ContentInv, NEW p \in Process, UNCHANGED <<creation, regen>>,
           DeliveryStep(p)
    PROVE  DelAll'
BY PlanDeliveryKeeps, BeginDeliveryKeeps, DelMovesOnActions, StageKeeps,
   EmptyDestinationKeeps, RenameKeeps, DeliveryUndoneKeeps DEF DeliveryStep
--------------------------------------------------------------------------------
(* Project creation.                                                       *)
Creation == [at : CreationSteps, holds : Authorization \cup {None}, state : {"absent", "empty"},
             id : JobId, backup : Directory \cup {None}, activated : BOOLEAN]
Inside == {"move", "backup", "swap", "purge", "restore"}
Moved == {"swap", "purge", "restore"}

LEMMA CreTyped ==
    ASSUME TypeOK
    PROVE  /\ creation \in [Process -> Creation]
           /\ record \in [Authorization -> {"prepared", "consumed"}]
           /\ recordLock \in [Authorization -> Process \cup {None}]
           /\ activating \in Process \cup {None}
           /\ \A p \in Process : /\ creation[p] \in Creation
                                 /\ creation[p].id \in JobId
                                 /\ creation[p].backup \in Directory \cup {None}
<1>1. creation \in [Process -> Creation]
  BY DEF TypeOK, CreationTypeOK, Creation
<1>2. \A p \in Process : creation[p] \in Creation
  BY <1>1
<1> QED BY <1>1, <1>2 DEF TypeOK, CreationTypeOK, Creation

LEMMA NoCreRecord ==
    NoCreation \in Creation /\ NoCreation.at = "idle" /\ NoCreation.holds = None
    /\ NoCreation.backup = None
BY EntryTypes DEF NoCreation, Creation, CreationSteps

(* What a step of an apply does to what others can see.                    *)
Does(p, new) ==
    /\ creation' = [creation EXCEPT ![p] = new] /\ new \in Creation
    /\ dest' \in {dest, Absent, {Native(creation[p].id)}, creation[p].backup}
    /\ dest' \in Directory
    /\ dest' # dest => creation[p].at \in Inside
    /\ \/ new.backup \in {None, dest, creation[p].backup}
       \/ creation[p].backup \in SUBSET Entry /\ new.backup \in Remnants(creation[p].backup)
    /\ new.at \in Moved => new.backup \notin {None, Absent}
    /\ UNCHANGED <<source, acts>>
    /\ jobs' \in JobId /\ jobs' \in {jobs, jobs + 1}

Passes(p, new) ==
    /\ new.at \in Inside => activating' = p
    /\ \/ activating' = activating
       \/ activating = None /\ activating' = p
       \/ activating = p /\ activating' = None

Result(p) == \E new : Does(p, new) /\ Passes(p, new)

(* A step that goes on in creation[p] alone.                               *)
LEMMA CreGoes ==
    ASSUME TypeOK, NEW p \in Process, NEW step \in CreationSteps, GoOn(p, step)
    PROVE  LET new == [creation[p] EXCEPT !.at = step] IN
           /\ creation' = [creation EXCEPT ![p] = new]
           /\ new \in Creation /\ new.at = step /\ new.holds = creation[p].holds
           /\ new.backup = creation[p].backup
<1>1. creation[p] \in Creation
  BY CreTyped
<1> QED BY <1>1, CreTyped DEF GoOn, Creation

LEMMA CreMoves ==
    ASSUME TypeOK, BackupInv, NEW p \in Process, NEW step \in CreationSteps, GoOn(p, step),
           step \in Moved => creation[p].at \in Moved,
           UNCHANGED destVars
    PROVE  \E new : Does(p, new) /\ new.at = step
<1> DEFINE new == [creation[p] EXCEPT !.at = step]
<1>1. /\ creation' = [creation EXCEPT ![p] = new]
      /\ new \in Creation /\ new.at = step /\ new.backup = creation[p].backup
  BY CreGoes
<1> HIDE DEF new
<1>2. dest' \in Directory /\ jobs' \in JobId
  BY DelTyped DEF destVars
<1>3. Does(p, new)
  BY <1>1, <1>2 DEF Does, destVars, BackupInv, Moved
<1> QED BY <1>1, <1>3

LEMMA CreStops ==
    ASSUME TypeOK, NEW p \in Process, creation' = [creation EXCEPT ![p] = NoCreation],
           UNCHANGED destVars
    PROVE  \E new : Does(p, new) /\ new.at = "idle"
<1>1. dest' \in Directory /\ jobs' \in JobId
  BY DelTyped DEF destVars
<1>2. Does(p, NoCreation)
  BY <1>1, NoCreRecord DEF Does, destVars, Moved
<1> QED BY <1>2, NoCreRecord

LEMMA CreBegins ==
    ASSUME TypeOK, LockInv, BackupInv, NEW p \in Process,
           \/ \E a \in Authorization : ReadRecord(p, a)
           \/ ConsumeRecord(p) \/ InspectDestination(p) \/ Generate(p)
    PROVE  Result(p)
<1>1. ASSUME NEW a \in Authorization, ReadRecord(p, a) PROVE Result(p)
  <2> DEFINE new == [creation[p] EXCEPT !.at = "consume", !.holds = a]
  <2>1. creation[p] \in Creation
    BY CreTyped
  <2>2. creation' = [creation EXCEPT ![p] = new]
    BY <1>1, CreTyped DEF ReadRecord
  <2>3. new \in Creation /\ new.at = "consume" /\ new.backup = creation[p].backup
    BY <2>1 DEF Creation, CreationSteps
  <2> HIDE DEF new
  <2>4. UNCHANGED <<destVars, activating>>
    BY <1>1 DEF ReadRecord
  <2>5. Does(p, new) /\ Passes(p, new)
    BY <2>2, <2>3, <2>4, DelTyped DEF Does, Passes, destVars, Moved, Inside
  <2> QED BY <2>5 DEF Result
<1>2. CASE ConsumeRecord(p)
  <2>1. UNCHANGED <<destVars, activating>>
    BY <1>2 DEF ConsumeRecord
  <2>2. CASE GoOn(p, "inspect")
    BY <2>1, <2>2, CreMoves DEF Result, Passes, Moved, Inside, CreationSteps
  <2>3. CASE creation' = [creation EXCEPT ![p] = NoCreation]
    BY <2>1, <2>3, CreStops DEF Result, Passes, Inside
  <2> QED BY <1>2, <2>2, <2>3 DEF ConsumeRecord
<1>3. CASE InspectDestination(p)
  <2>1. UNCHANGED <<destVars, activating>>
    BY <1>3 DEF InspectDestination
  <2>2. CASE GoOn(p, "clean")
    BY <2>1, <2>2, CreMoves DEF Result, Passes, Moved, Inside, CreationSteps
  <2>3. CASE creation' = [creation EXCEPT ![p].at = "generate", ![p].state = StateOf(dest)]
    <3> DEFINE new == [creation[p] EXCEPT !.at = "generate", !.state = StateOf(dest)]
    <3>1. creation[p] \in Creation
      BY CreTyped
    <3>2. creation' = [creation EXCEPT ![p] = new]
      BY <2>3, CreTyped
    <3>3. new \in Creation /\ new.at = "generate" /\ new.backup = creation[p].backup
      BY <3>1 DEF Creation, CreationSteps, StateOf
    <3> HIDE DEF new
    <3>4. Does(p, new) /\ Passes(p, new)
      BY <2>1, <3>2, <3>3, DelTyped DEF Does, Passes, destVars, Moved, Inside
    <3> QED BY <3>4 DEF Result
  <2> QED BY <1>3, <2>2, <2>3 DEF InspectDestination
<1>4. CASE Generate(p)
  <2>1. UNCHANGED <<dest, source, acts, activating>>
    BY <1>4 DEF Generate
  <2>2. CASE UNCHANGED jobs /\ GoOn(p, "clean")
    BY <2>1, <2>2, CreMoves DEF Result, Passes, Moved, Inside, CreationSteps, destVars
  <2>3. CASE NewJob /\ creation' = [creation EXCEPT ![p].at = "activate", ![p].id = jobs + 1]
    <3> DEFINE new == [creation[p] EXCEPT !.at = "activate", !.id = jobs + 1]
    <3>1. creation[p] \in Creation
      BY CreTyped
    <3>2. jobs + 1 \in JobId /\ jobs' = jobs + 1
      BY <2>3, DelTyped, BoundsAssumption DEF NewJob, JobId
    <3>3. creation' = [creation EXCEPT ![p] = new]
      BY <2>3, CreTyped
    <3>4. new \in Creation /\ new.at = "activate" /\ new.backup = creation[p].backup
      BY <3>1, <3>2 DEF Creation, CreationSteps
    <3> HIDE DEF new
    <3>5. Does(p, new) /\ Passes(p, new)
      BY <2>1, <3>2, <3>3, <3>4, DelTyped DEF Does, Passes, Moved, Inside
    <3> QED BY <3>5 DEF Result
  <2> QED BY <1>4, <2>2, <2>3 DEF Generate
<1> QED BY <1>1, <1>2, <1>3, <1>4

LEMMA CreActivates ==
    ASSUME TypeOK, LockInv, BackupInv, NEW p \in Process,
           EnterActivation(p) \/ ActivateAbsent(p) \/ BackUp(p) \/ Swap(p)
    PROVE  Result(p)
<1>1. CASE EnterActivation(p)
  <2>1. UNCHANGED destVars
    BY <1>1 DEF EnterActivation
  <2>2. CASE UNCHANGED activating /\ GoOn(p, "clean")
    BY <2>1, <2>2, CreMoves DEF Result, Passes, Moved, Inside, CreationSteps
  <2>3. CASE activating' = p /\ GoOn(p, IF dest = Absent THEN "move" ELSE "backup")
    <3>1. activating = None
      BY <1>1 DEF EnterActivation, MayEnter
    <3>2. GoOn(p, "move") \/ GoOn(p, "backup")
      BY <2>3
    <3>3. ASSUME NEW step \in {"move", "backup"}, GoOn(p, step) PROVE Result(p)
      BY <2>1, <2>3, <3>1, <3>3, CreMoves DEF Result, Passes, Moved, Inside, CreationSteps
    <3> QED BY <3>2, <3>3
  <2> QED BY <1>1, <2>2, <2>3 DEF EnterActivation
<1>2. CASE ActivateAbsent(p)
  <2>1. /\ activating = p /\ activating' = None /\ UNCHANGED <<source, acts, jobs>>
        /\ creation[p].at = "move"
    BY <1>2 DEF At, ActivateAbsent, Leave, LockInv, Locked, Activating
  <2>2. CASE UNCHANGED dest /\ GoOn(p, "clean")
    BY <2>1, <2>2, CreMoves DEF Result, Passes, Moved, Inside, CreationSteps, destVars
  <2>3. CASE /\ RenameOnto({Native(creation[p].id)})
             /\ creation' = [creation EXCEPT ![p] = NoCreation]
    <3>1. dest' = {Native(creation[p].id)} /\ dest' \in Directory
      <4>1. {Native(creation[p].id)} \in SUBSET Entry
        BY CreTyped, EntryTypes
      <4> QED BY <2>3, <4>1, Directories DEF RenameOnto
    <3>2. Does(p, NoCreation) /\ Passes(p, NoCreation)
      BY <2>1, <2>3, <3>1, DelTyped, NoCreRecord DEF Does, Passes, Moved, Inside
    <3> QED BY <3>2 DEF Result
  <2> QED BY <1>2, <2>2, <2>3 DEF ActivateAbsent
<1>3. CASE BackUp(p)
  <2>1. activating = p /\ UNCHANGED <<source, acts, jobs>> /\ creation[p].at = "backup"
    BY <1>3 DEF At, BackUp, LockInv, Locked, Activating
  <2>2. CASE UNCHANGED dest /\ GoOn(p, "clean") /\ Leave
    BY <2>1, <2>2, CreMoves DEF Result, Passes, Moved, Inside, CreationSteps, destVars, Leave
  <2>3. CASE /\ dest # Absent /\ dest' = Absent
             /\ creation' = [creation EXCEPT ![p].at = "swap", ![p].backup = dest]
             /\ UNCHANGED activating
    <3> DEFINE new == [creation[p] EXCEPT !.at = "swap", !.backup = dest]
    <3>1. creation[p] \in Creation /\ dest \in Directory /\ dest # None
      BY CreTyped, DelTyped, Directories
    <3>2. creation' = [creation EXCEPT ![p] = new]
      BY <2>3, CreTyped
    <3>3. new \in Creation /\ new.at = "swap" /\ new.backup = dest
      BY <3>1 DEF Creation, CreationSteps
    <3> HIDE DEF new
    <3>4. Does(p, new) /\ Passes(p, new)
      BY <2>1, <2>3, <3>1, <3>2, <3>3, DelTyped, Directories DEF Does, Passes, Moved, Inside
    <3> QED BY <3>4 DEF Result
  <2> QED BY <1>3, <2>2, <2>3 DEF BackUp
<1>4. CASE Swap(p)
  <2>1. /\ activating = p /\ UNCHANGED <<source, acts, jobs, activating>>
        /\ creation[p].at = "swap"
    BY <1>4 DEF At, Swap, LockInv, Locked, Activating
  <2>2. CASE UNCHANGED dest /\ GoOn(p, "restore")
    BY <2>1, <2>2, CreMoves DEF Result, Passes, Moved, Inside, CreationSteps, destVars
  <2>3. CASE /\ RenameOnto({Native(creation[p].id)})
             /\ creation' = [creation EXCEPT ![p].at = "purge", ![p].activated = TRUE]
    <3> DEFINE new == [creation[p] EXCEPT !.at = "purge", !.activated = TRUE]
    <3>1. dest' = {Native(creation[p].id)} /\ dest' \in Directory
      <4>1. {Native(creation[p].id)} \in SUBSET Entry
        BY CreTyped, EntryTypes
      <4> QED BY <2>3, <4>1, Directories DEF RenameOnto
    <3>2. creation[p] \in Creation /\ creation[p].backup \notin {None, Absent}
      BY <2>1, CreTyped DEF BackupInv
    <3>3. creation' = [creation EXCEPT ![p] = new]
      BY <2>3, CreTyped
    <3>4. new \in Creation /\ new.at = "purge" /\ new.backup = creation[p].backup
      BY <3>2 DEF Creation, CreationSteps
    <3> HIDE DEF new
    <3>5. Does(p, new) /\ Passes(p, new)
      BY <2>1, <3>1, <3>2, <3>3, <3>4, DelTyped DEF Does, Passes, Moved, Inside
    <3> QED BY <3>5 DEF Result
  <2> QED BY <1>4, <2>2, <2>3 DEF Swap
<1> QED BY <1>1, <1>2, <1>3, <1>4

LEMMA CreLeaves ==
    ASSUME TypeOK, LockInv, BackupInv, NEW p \in Process,
           Purge(p) \/ RestoreEmpty(p) \/ CleanUp(p) \/ CrashInCreation(p)
    PROVE  Result(p)
<1>1. CASE Purge(p)
  <2>1. activating = p /\ creation[p].at = "purge" /\ UNCHANGED destVars
    BY <1>1 DEF At, Purge, LockInv, Locked, Activating
  <2>2. CASE creation' = [creation EXCEPT ![p] = NoCreation] /\ Leave
    BY <2>1, <2>2, CreStops DEF Result, Passes, Inside, Leave
  <2>3. ASSUME NEW rest \in Remnants(creation[p].backup), UNCHANGED activating,
               creation' = [creation EXCEPT ![p].at = "restore", ![p].backup = rest]
        PROVE  Result(p)
    <3> DEFINE new == [creation[p] EXCEPT !.at = "restore", !.backup = rest]
    <3>1. creation[p] \in Creation /\ creation[p].backup \in SUBSET Entry
      BY <2>1, CreTyped, Directories DEF BackupInv
    <3>2. rest \in Directory /\ rest \notin {None, Absent}
      BY <3>1, RemnantsFit, Directories
    <3>3. creation' = [creation EXCEPT ![p] = new]
      BY <2>3, CreTyped
    <3>4. new \in Creation /\ new.at = "restore" /\ new.backup = rest
      BY <3>1, <3>2 DEF Creation, CreationSteps
    <3> HIDE DEF new
    <3>5. Does(p, new)
      BY <2>1, <3>1, <3>2, <3>3, <3>4, DelTyped DEF Does, destVars, Moved
    <3>6. Passes(p, new)
      BY <2>1, <2>3, <3>4 DEF Passes, Inside
    <3> QED BY <3>5, <3>6 DEF Result
  <2> QED BY <1>1, <2>2, <2>3 DEF Purge
<1>2. CASE RestoreEmpty(p)
  <2>1. /\ activating = p /\ creation[p].at = "restore" /\ UNCHANGED <<source, acts, jobs>>
        /\ activating' = None
    BY <1>2 DEF At, RestoreEmpty, Leave, LockInv, Locked, Activating
  <2>2. creation[p] \in Creation /\ creation[p].backup \in Directory
    BY <2>1, CreTyped DEF BackupInv
  <2>3. CASE dest' \in {dest, Absent} /\ GoOn(p, "lost")
    <3> DEFINE new == [creation[p] EXCEPT !.at = "lost"]
    <3>1. /\ creation' = [creation EXCEPT ![p] = new]
          /\ new \in Creation /\ new.at = "lost" /\ new.backup = creation[p].backup
      BY <2>3, CreGoes DEF CreationSteps
    <3> HIDE DEF new
    <3>2. Does(p, new) /\ Passes(p, new)
      BY <2>1, <2>3, <3>1, DelTyped, Directories DEF Does, Passes, Moved, Inside
    <3> QED BY <3>2 DEF Result
  <2>4. ASSUME NEW end \in {"clean", "lost"}, dest' = creation[p].backup,
               creation' = [creation EXCEPT ![p].at = end, ![p].backup = None]
        PROVE  Result(p)
    <3> DEFINE new == [creation[p] EXCEPT !.at = end, !.backup = None]
    <3>1. creation' = [creation EXCEPT ![p] = new]
      BY <2>4, CreTyped
    <3>2. new \in Creation /\ new.at = end /\ new.backup = None
      BY <2>2 DEF Creation, CreationSteps
    <3> HIDE DEF new
    <3>3. Does(p, new) /\ Passes(p, new)
      BY <2>1, <2>2, <2>4, <3>1, <3>2, DelTyped DEF Does, Passes, Moved, Inside
    <3> QED BY <3>3 DEF Result
  <2> QED BY <1>2, <2>3, <2>4 DEF RestoreEmpty, MovedBack
<1>3. CASE CleanUp(p)
  BY <1>3, CreStops DEF CleanUp, Result, Passes, Inside
<1>4. CASE CrashInCreation(p)
  <2>1. creation' = [creation EXCEPT ![p] = NoCreation] /\ UNCHANGED destVars
    BY <1>4 DEF CrashInCreation
  <2>2. activating' = IF activating = p THEN None ELSE activating
    BY <1>4 DEF CrashInCreation
  <2> QED BY <2>1, <2>2, CreStops DEF Result, Passes, Inside
<1> QED BY <1>1, <1>2, <1>3, <1>4

(* What holds after such a step.                                           *)
LEMMA CreationKeeps ==
    ASSUME TypeOK, LockInv, ContentInv, BackupInv, ExchangeInv, NEW p \in Process,
           CreationStep(p), creation[p].at # "idle" \/ regen[p].at = "idle",
           UNCHANGED <<delivery, staging, permit, regen>>
    PROVE  /\ creation' \in [Process -> Creation] /\ DestTypeOK'
           /\ activating' \in Process \cup {None}
           /\ LockInv' /\ ContentInv' /\ BackupInv' /\ ExchangeInv'
<1>1. Result(p)
  BY CreBegins, CreActivates, CreLeaves DEF CreationStep
<1>2. PICK new : Does(p, new) /\ Passes(p, new)
  BY <1>1 DEF Result
<1>3. /\ creation' \in [Process -> Creation] /\ creation'[p] = new
      /\ \A q \in Process \ {p} : creation'[q] = creation[q]
  BY <1>2, CreTyped DEF Does
<1>4. DestTypeOK' /\ activating' \in Process \cup {None}
  BY <1>2, DelTyped, CreTyped DEF DestTypeOK, Does, Passes
<1>5. regen[p].at = "idle"
  BY DEF LockInv, OneJob
<1>6. LockInv'
  <2>1. OneJob'
    BY <1>3, <1>5 DEF LockInv, OneJob
  <2>2. ASSUME NEW q \in Process, Activating(q)' PROVE activating' = q
    <3>1. CASE q = p
      <4>1. new.at \in Inside
        BY <1>3, <1>5, <2>2, <3>1 DEF Activating, Inside
      <4> QED BY <1>2, <3>1, <4>1 DEF Passes
    <3>2. CASE q # p
      <4>1. Activating(q)
        BY <1>3, <2>2, <3>2 DEF Activating
      <4>2. activating = q /\ q # None
        BY <4>1, Directories DEF LockInv, Locked
      <4> QED BY <1>2, <3>2, <4>2 DEF Passes
    <3> QED BY <3>1, <3>2
  <2> QED BY <2>1, <2>2 DEF LockInv, Locked
<1>7. ContentInv'
  <2>1. Settled \subseteq Settled'
    BY <1>2, DelTyped, SettledGrows, EntryTypes DEF Does
  <2>2. creation[p].id \in Nat
    BY CreTyped, EntryTypes
  <2>3. Fit(dest', Settled')
    <3>1. Fit(dest, Settled') /\ Fit(creation[p].backup, Settled')
      BY <2>1, FitStays DEF ContentInv
    <3>2. Fit(Absent, Settled') /\ Fit({Native(creation[p].id)}, Settled')
      BY <2>2, FitPlaces
    <3> QED BY <1>2, <3>1, <3>2 DEF Does
  <2>4. Fit(new.backup, Settled')
    <3>1. /\ Fit(dest, Settled') /\ Fit(creation[p].backup, Settled')
          /\ Fit(None, Settled')
      BY <2>1, FitStays, FitPlaces DEF ContentInv
    <3>2. ASSUME creation[p].backup \in SUBSET Entry, new.backup \in Remnants(creation[p].backup)
          PROVE  Fit(new.backup, Settled')
      <4>1. \A i \in JobId : Tree(i) \in new.backup => Tree(i) \in creation[p].backup
        BY <3>2, RemnantsFit
      <4>2. creation[p].backup \notin {None, Absent}
        BY <3>2, Directories
      <4> QED BY <3>1, <4>1, <4>2 DEF Fit
    <3> QED BY <1>2, <3>1, <3>2 DEF Does
  <2>5. \A q \in Process : Fit(creation[q].backup, Settled') /\ Fit(regen[q].backup, Settled')
    BY <2>1, FitStays DEF ContentInv
  <2> QED BY <1>3, <2>3, <2>4, <2>5 DEF ContentInv
<1>8. BackupInv'
  BY <1>2, <1>3 DEF BackupInv, Does, Moved
<1>9. ExchangeInv'
  <2>1. acts' = acts
    BY <1>2 DEF Does
  <2>2. CASE dest' = dest
    BY <2>1, <2>2 DEF ExchangeInv, Saw, Candidate
  <2>3. CASE dest' # dest
    <3>1. Activating(p)
      BY <1>2, <2>3 DEF Does, Activating, Inside
    <3>2. \A q \in Process : regen[q].at \notin {"aside", "in", "purge", "putback"}
      BY <1>5, <3>1 DEF LockInv, Locked, Activating
    <3> QED BY <2>1, <3>2 DEF ExchangeInv
  <2> QED BY <2>2, <2>3
<1> QED BY <1>3, <1>4, <1>6, <1>7, <1>8, <1>9

(* The authorizations' records and who holds their capabilities.           *)
LEMMA CapabilitiesKept ==
    ASSUME TypeOK, CapInv, NEW p \in Process, CreationStep(p)
    PROVE  /\ CapInv'
           /\ record' \in [Authorization -> {"prepared", "consumed"}]
           /\ recordLock' \in [Authorization -> Process \cup {None}]
<1>1. CASE \E a \in Authorization : ReadRecord(p, a)
  <2>1. PICK a \in Authorization : ReadRecord(p, a)
    BY <1>1
  <2>2. /\ record[a] = "prepared" /\ recordLock[a] = None
        /\ recordLock' = [recordLock EXCEPT ![a] = p] /\ UNCHANGED record
    BY <2>1 DEF ReadRecord, RecordFree
  <2>3. /\ creation'[p].at = "consume" /\ creation'[p].holds = a
        /\ \A q \in Process \ {p} : creation'[q] = creation[q]
    <3> DEFINE new == [creation[p] EXCEPT !.at = "consume", !.holds = a]
    <3>1. creation[p] \in Creation
      BY CreTyped
    <3>2. creation' = [creation EXCEPT ![p] = new]
      BY <2>1, CreTyped DEF ReadRecord
    <3>3. new.at = "consume" /\ new.holds = a
      BY <3>1 DEF Creation
    <3> HIDE DEF new
    <3> QED BY <3>2, <3>3, CreTyped
  <2>4. \A q \in Process \ {p} : creation[q].holds # None => creation[q].holds # a
    BY <2>2, Directories DEF CapInv
  <2>5. recordLock' \in [Authorization -> Process \cup {None}] /\ recordLock'[a] = p
    BY <2>2, CreTyped
  <2>6. CapInv'
    <3> SUFFICES ASSUME NEW q \in Process, creation'[q].holds # None
        PROVE  /\ \/ record'[creation'[q].holds] = "consumed"
                  \/ creation'[q].at = "consume" /\ recordLock'[creation'[q].holds] = q
               /\ \A r \in Process \ {q} : creation'[q].holds # creation'[r].holds
      BY DEF CapInv
    <3>1. CASE q = p
      BY <2>3, <2>4, <2>5, <3>1
    <3>2. CASE q # p
      <4>1. creation'[q] = creation[q] /\ creation[q].holds # None /\ creation[q].holds # a
        BY <2>3, <2>4, <3>2
      <4>2. creation[q].holds \in Authorization
        BY <4>1, CreTyped DEF Creation
      <4>3. recordLock'[creation[q].holds] = recordLock[creation[q].holds]
        BY <2>2, <4>1, <4>2, CreTyped
      <4> QED BY <2>2, <2>3, <4>1, <4>3 DEF CapInv
    <3> QED BY <3>1, <3>2
  <2> QED BY <2>2, <2>5, <2>6, CreTyped
<1>2. CASE ConsumeRecord(p)
  <2> DEFINE a == creation[p].holds
  <2>1. recordLock' = [recordLock EXCEPT ![a] = None]
    BY <1>2 DEF ConsumeRecord
  <2>2. \/ record' = [record EXCEPT ![a] = "consumed"] /\ GoOn(p, "inspect")
        \/ UNCHANGED record /\ creation' = [creation EXCEPT ![p] = NoCreation]
    BY <1>2 DEF ConsumeRecord
  <2>3. /\ \/ creation'[p].holds = None
           \/ creation'[p].holds = a /\ record' = [record EXCEPT ![a] = "consumed"]
        /\ \A q \in Process \ {p} : creation'[q] = creation[q]
    <3>1. CASE record' = [record EXCEPT ![a] = "consumed"] /\ GoOn(p, "inspect")
      <4> DEFINE new == [creation[p] EXCEPT !.at = "inspect"]
      <4>1. creation' = [creation EXCEPT ![p] = new] /\ new.holds = a
        BY <3>1, CreGoes DEF CreationSteps
      <4> HIDE DEF new
      <4> QED BY <3>1, <4>1, CreTyped
    <3>2. CASE UNCHANGED record /\ creation' = [creation EXCEPT ![p] = NoCreation]
      BY <3>2, CreTyped, NoCreRecord
    <3> QED BY <2>2, <3>1, <3>2
  <2>4. /\ record' \in [Authorization -> {"prepared", "consumed"}]
        /\ recordLock' \in [Authorization -> Process \cup {None}]
    BY <2>1, <2>2, CreTyped
  <2>5. CapInv'
    <3> SUFFICES ASSUME NEW q \in Process, creation'[q].holds # None
        PROVE  /\ \/ record'[creation'[q].holds] = "consumed"
                  \/ creation'[q].at = "consume" /\ recordLock'[creation'[q].holds] = q
               /\ \A r \in Process \ {q} : creation'[q].holds # creation'[r].holds
      BY DEF CapInv
    <3>1. CASE q = p
      <4>1. a # None /\ creation'[q].holds = a /\ record' = [record EXCEPT ![a] = "consumed"]
        BY <2>3, <3>1
      <4>2. a \in Authorization
        BY <4>1, CreTyped DEF Creation
      <4>3. record'[a] = "consumed"
        BY <4>1, <4>2, CreTyped
      <4> QED BY <2>3, <3>1, <4>1, <4>3 DEF CapInv
    <3>2. CASE q # p
      <4>1. creation'[q] = creation[q] /\ creation[q].holds # None
        BY <2>3, <3>2
      <4>2. creation[q].holds \in Authorization /\ creation[q].holds # a
        BY <3>2, <4>1, CreTyped DEF Creation, CapInv
      <4>3. /\ recordLock'[creation[q].holds] = recordLock[creation[q].holds]
            /\ record'[creation[q].holds] = record[creation[q].holds]
        BY <2>1, <2>2, <4>2, CreTyped
      <4> QED BY <2>3, <4>1, <4>2, <4>3 DEF CapInv
    <3> QED BY <3>1, <3>2
  <2> QED BY <2>4, <2>5
<1>3. CASE CrashInCreation(p)
  <2>1. /\ creation' = [creation EXCEPT ![p] = NoCreation] /\ UNCHANGED record
        /\ recordLock' = [a \in Authorization |-> IF recordLock[a] = p THEN None
                                                  ELSE recordLock[a]]
    BY <1>3 DEF CrashInCreation
  <2>2. /\ creation'[p].holds = None
        /\ \A q \in Process \ {p} : creation'[q] = creation[q]
    BY <2>1, CreTyped, NoCreRecord
  <2>3. ASSUME NEW q \in Process \ {p}, creation[q].holds # None
        PROVE  recordLock[creation[q].holds] = q => recordLock'[creation[q].holds] = q
    <3>1. creation[q].holds \in Authorization
      BY <2>3, CreTyped DEF Creation
    <3> QED BY <2>1, <3>1
  <2>4. CapInv'
    BY <2>1, <2>2, <2>3 DEF CapInv
  <2> QED BY <2>1, <2>4, CreTyped
<1>4. ASSUME \/ InspectDestination(p) \/ Generate(p) \/ EnterActivation(p) \/ ActivateAbsent(p)
             \/ BackUp(p) \/ Swap(p) \/ Purge(p) \/ RestoreEmpty(p) \/ CleanUp(p)
      PROVE  /\ CapInv'
             /\ record' \in [Authorization -> {"prepared", "consumed"}]
             /\ recordLock' \in [Authorization -> Process \cup {None}]
  <2> USE DEF At, GoOn
  <2>1. UNCHANGED <<record, recordLock>> /\ creation[p].at # "consume"
    BY <1>4 DEF InspectDestination, Generate, EnterActivation, ActivateAbsent, BackUp, Swap,
                Purge, RestoreEmpty, CleanUp
  <2>2. /\ creation'[p].holds \in {None, creation[p].holds}
        /\ \A q \in Process \ {p} : creation'[q] = creation[q]
    <3>1. /\ NoCreation.holds = None
          /\ creation[p] \in Creation /\ DOMAIN creation = Process
      BY CreTyped, NoCreRecord
    <3>2. DOMAIN creation[p] = {"at", "holds", "state", "id", "backup", "activated"}
      BY <3>1 DEF Creation
    <3>3. CASE InspectDestination(p)
      BY <3>1, <3>2, <3>3 DEF InspectDestination
    <3>4. CASE Generate(p)
      BY <3>1, <3>2, <3>4 DEF Generate
    <3>5. CASE EnterActivation(p)
      BY <3>1, <3>2, <3>5 DEF EnterActivation
    <3>6. CASE ActivateAbsent(p)
      BY <3>1, <3>2, <3>6 DEF ActivateAbsent
    <3>7. CASE BackUp(p)
      BY <3>1, <3>2, <3>7 DEF BackUp
    <3>8. CASE Swap(p) \/ Purge(p)
      BY <3>1, <3>2, <3>8 DEF Swap, Purge
    <3>9. CASE RestoreEmpty(p)
      BY <3>1, <3>2, <3>9 DEF RestoreEmpty
    <3>10. CASE CleanUp(p)
      BY <3>1, <3>2, <3>10 DEF CleanUp
    <3> QED BY <1>4, <3>3, <3>4, <3>5, <3>6, <3>7, <3>8, <3>9, <3>10
  <2>3. CapInv'
    BY <2>1, <2>2 DEF CapInv
  <2> QED BY <2>1, <2>3, CreTyped
<1> QED BY <1>1, <1>2, <1>3, <1>4 DEF CreationStep
--------------------------------------------------------------------------------
(* Regeneration.                                                           *)
Regeneration == [at : RegenSteps, holds : Permit \cup {None}, id : JobId,
                 backup : Directory \cup {None}, acts : Source]
Aside == {"in", "purge", "putback"}
Before == {"idle", "plan", "generate", "enter", "aside"}

LEMMA RegTyped ==
    ASSUME TypeOK
    PROVE  /\ regen \in [Process -> Regeneration]
           /\ permit \in [Permit -> [saw : Directory \cup {None}, used : BOOLEAN]]
           /\ left \subseteq Directory
           /\ \A p \in Process : /\ regen[p] \in Regeneration
                                 /\ regen[p].id \in JobId /\ regen[p].acts \in Nat
                                 /\ regen[p].backup \in Directory \cup {None}
<1>1. regen \in [Process -> Regeneration]
  BY DEF TypeOK, RegenTypeOK, Regeneration
<1>2. \A p \in Process : regen[p] \in Regeneration
  BY <1>1
<1> QED BY <1>1, <1>2, DelTyped DEF TypeOK, RegenTypeOK, Regeneration

LEMMA NoRegRecord ==
    /\ NoRegen \in Regeneration /\ NoRegen.at = "idle" /\ NoRegen.holds = None
    /\ NoRegen.backup = None /\ NoRegen.acts = 0
BY EntryTypes, BoundsAssumption DEF NoRegen, Regeneration, RegenSteps, Source

LEMMA Candidates ==
    ASSUME TypeOK, NEW p \in Process
    PROVE  /\ Candidate(p) \in SUBSET Entry /\ Native(regen[p].id) \in Candidate(p)
           /\ Candidate(p) \in {{Native(regen[p].id)}, {Native(regen[p].id), UserFile}}
<1>1. Native(regen[p].id) \in Entry /\ UserFile \in Entry
  BY RegTyped, EntryTypes
<1>2. Saw(p) \cap {UserFile} \in {{}, {UserFile}}
  OBVIOUS
<1> QED BY <1>1, <1>2 DEF Candidate

(* What a step of an apply does.                                           *)
Exchanged(p, new) ==
    /\ new.acts <= acts
    /\ new.acts = acts =>
          /\ new.at = "aside" => dest' = permit'[new.holds].saw
          /\ new.at \in {"in", "purge"} => new.backup = permit'[new.holds].saw
          /\ new.at = "purge" =>
                dest' = {Native(new.id)} \cup (permit'[new.holds].saw \cap {UserFile})

Redoes(p, new) ==
    /\ regen' = [regen EXCEPT ![p] = new] /\ new \in Regeneration
    /\ dest' \in {dest, Absent, Candidate(p), regen[p].backup}
    /\ dest' \in Directory
    /\ dest' # dest => regen[p].at \in {"aside", "in", "putback"}
    /\ new.backup \in {None, dest, regen[p].backup}
    /\ new.at \in Aside => new.backup \notin {None, Absent}
    /\ new.at \in Before => new.backup = None
    /\ UNCHANGED <<source, acts>>
    /\ jobs' \in JobId /\ jobs' \in {jobs, jobs + 1}
    /\ left' \subseteq Directory
    /\ Exchanged(p, new)

Exchanges(p, new) ==
    /\ new.at \in {"aside"} \cup Aside => activating' = p
    /\ \/ activating' = activating
       \/ activating = None /\ activating' = p
       \/ activating = p /\ activating' = None

Uses(p, new) ==
    /\ permit' = permit
    /\ \/ new.at = "idle" /\ new.holds = None
       \/ regen[p].at # "idle" /\ new.at # "idle" /\ new.holds = regen[p].holds

Redone(p) == \E new : Redoes(p, new) /\ Exchanges(p, new) /\ Uses(p, new)

LEMMA RegGoes ==
    ASSUME TypeOK, NEW p \in Process, NEW step \in RegenSteps, GoRegen(p, step)
    PROVE  \E new \in Regeneration :
               /\ regen' = [regen EXCEPT ![p] = new]
               /\ new.at = step /\ new.holds = regen[p].holds /\ new.id = regen[p].id
               /\ new.backup = regen[p].backup /\ new.acts = regen[p].acts
<1> DEFINE new == [regen[p] EXCEPT !.at = step]
<1>1. regen[p] \in Regeneration
  BY RegTyped
<1>2. regen' = [regen EXCEPT ![p] = new]
  BY RegTyped DEF GoRegen
<1>3. /\ new \in Regeneration
      /\ new.at = step /\ new.holds = regen[p].holds /\ new.id = regen[p].id
      /\ new.backup = regen[p].backup /\ new.acts = regen[p].acts
  BY <1>1 DEF Regeneration
<1> QED BY <1>2, <1>3

(* An apply that is over.                                                  *)
LEMMA RegEnds ==
    ASSUME TypeOK, NEW p \in Process, EndRegen(p), UNCHANGED <<source, acts, jobs, permit>>,
           dest' \in {dest, regen[p].backup}, dest' \in Directory,
           dest' # dest => regen[p].at \in {"aside", "in", "putback"},
           left' \subseteq Directory,
           \/ activating' = activating
           \/ activating = p /\ activating' = None
    PROVE  Redone(p)
<1>1. /\ regen' = [regen EXCEPT ![p] = NoRegen] /\ jobs \in JobId /\ acts \in Nat
  BY DelTyped DEF EndRegen
<1>2. Exchanged(p, NoRegen)
  BY <1>1, NoRegRecord DEF Exchanged
<1>3. Redoes(p, NoRegen)
  BY <1>1, <1>2, NoRegRecord DEF Redoes, Aside, Before
<1>4. Exchanges(p, NoRegen) /\ Uses(p, NoRegen)
  BY NoRegRecord DEF Exchanges, Uses, Aside
<1> QED BY <1>3, <1>4 DEF Redone

LEMMA RegPrepares ==
    ASSUME TypeOK, LockInv, BackupInv, ExchangeInv, NEW p \in Process,
           RegenFails(p) \/ Replan(p) \/ GenerateCandidate(p) \/ EnterExchange(p)
    PROVE  Redone(p)
<1>1. CASE RegenFails(p)
  BY <1>1, RegEnds, DelTyped, RegTyped
  DEF RegenFails, destVars, creationVars
<1>2. CASE Replan(p)
  <2>1. /\ GoRegen(p, "generate") /\ UNCHANGED <<destVars, creationVars, permit, left>>
        /\ regen[p].at = "plan"
    BY <1>2 DEF Replan
  <2>2. PICK new \in Regeneration :
               /\ regen' = [regen EXCEPT ![p] = new]
               /\ new.at = "generate" /\ new.holds = regen[p].holds /\ new.id = regen[p].id
               /\ new.backup = regen[p].backup /\ new.acts = regen[p].acts
    BY <2>1, RegGoes DEF RegenSteps
  <2>3. Exchanged(p, new)
    BY <2>1, <2>2 DEF Exchanged, ExchangeInv
  <2>4. Redoes(p, new)
    BY <2>1, <2>2, <2>3, DelTyped, RegTyped
    DEF Redoes, destVars, BackupInv, Aside, Before
  <2>5. Exchanges(p, new) /\ Uses(p, new)
    BY <2>1, <2>2 DEF Exchanges, Uses, creationVars, Aside
  <2> QED BY <2>4, <2>5 DEF Redone
<1>3. CASE GenerateCandidate(p)
  <2> DEFINE new == [regen[p] EXCEPT !.at = "enter", !.id = jobs + 1]
  <2>1. /\ UNCHANGED <<dest, source, acts, creationVars, permit, left>>
        /\ regen[p].at = "generate" /\ jobs' = jobs + 1 /\ jobs < MaxJobs
    BY <1>3 DEF GenerateCandidate, NewJob
  <2>2. jobs + 1 \in JobId /\ regen[p] \in Regeneration
    BY <2>1, DelTyped, RegTyped, BoundsAssumption DEF JobId
  <2>3. regen' = [regen EXCEPT ![p] = new]
    BY <1>3, RegTyped DEF GenerateCandidate
  <2>4. /\ new \in Regeneration /\ new.at = "enter" /\ new.holds = regen[p].holds
        /\ new.backup = regen[p].backup /\ new.acts = regen[p].acts
    BY <2>2 DEF Regeneration, RegenSteps
  <2> HIDE DEF new
  <2>5. Exchanged(p, new)
    BY <2>1, <2>4 DEF Exchanged, ExchangeInv
  <2>6. Redoes(p, new)
    BY <2>1, <2>2, <2>3, <2>4, <2>5, DelTyped, RegTyped
    DEF Redoes, BackupInv, Aside, Before
  <2>7. Exchanges(p, new) /\ Uses(p, new)
    BY <2>1, <2>4 DEF Exchanges, Uses, creationVars, Aside
  <2> QED BY <2>6, <2>7 DEF Redone
<1>4. CASE EnterExchange(p)
  <2> DEFINE new == [regen[p] EXCEPT !.at = "aside", !.acts = acts]
  <2>1. /\ UNCHANGED <<destVars, permit, left>> /\ activating = None /\ activating' = p
        /\ regen[p].at = "enter" /\ dest = Saw(p)
    BY <1>4 DEF EnterExchange, MayEnter, StillAsSeen
  <2>2. regen[p] \in Regeneration /\ acts \in Source /\ acts \in Nat
    BY RegTyped, DelTyped
  <2>3. regen' = [regen EXCEPT ![p] = new]
    BY <1>4, RegTyped DEF EnterExchange
  <2>4. /\ new \in Regeneration /\ new.at = "aside" /\ new.holds = regen[p].holds
        /\ new.backup = regen[p].backup /\ new.acts = acts
    BY <2>2 DEF Regeneration, RegenSteps
  <2> HIDE DEF new
  <2>5. Exchanged(p, new)
    BY <2>1, <2>2, <2>4 DEF Exchanged, Saw, destVars
  <2>6. Redoes(p, new)
    BY <2>1, <2>2, <2>3, <2>4, <2>5, DelTyped, RegTyped
    DEF Redoes, BackupInv, Aside, Before, destVars
  <2>7. Exchanges(p, new) /\ Uses(p, new)
    BY <2>1, <2>4 DEF Exchanges, Uses, Aside
  <2> QED BY <2>6, <2>7 DEF Redone
<1> QED BY <1>1, <1>2, <1>3, <1>4

LEMMA RegMoves ==
    ASSUME TypeOK, LockInv, BackupInv, ExchangeInv, NEW p \in Process,
           MoveAside(p) \/ MoveIn(p)
    PROVE  Redone(p)
<1>1. CASE MoveAside(p)
  <2>1. /\ UNCHANGED <<source, acts, jobs, permit, left>> /\ regen[p].at = "aside"
        /\ activating = p
    BY <1>1 DEF MoveAside, LockInv, Locked, Activating
  <2>2. CASE UNCHANGED dest /\ EndRegen(p) /\ Leave
    BY <2>1, <2>2, RegEnds, DelTyped, RegTyped DEF Leave
  <2>3. CASE /\ dest # Absent /\ dest' = Absent
             /\ regen' = [regen EXCEPT ![p].at = "in", ![p].backup = dest]
             /\ UNCHANGED activating
    <3> DEFINE new == [regen[p] EXCEPT !.at = "in", !.backup = dest]
    <3>1. regen[p] \in Regeneration /\ dest \in Directory /\ dest # None
      BY RegTyped, DelTyped, Directories
    <3>2. regen' = [regen EXCEPT ![p] = new]
      BY <2>3, RegTyped
    <3>3. /\ new \in Regeneration /\ new.at = "in" /\ new.holds = regen[p].holds
          /\ new.backup = dest /\ new.acts = regen[p].acts
      BY <3>1 DEF Regeneration, RegenSteps
    <3> HIDE DEF new
    <3>4. Exchanged(p, new)
      BY <2>1, <3>3 DEF Exchanged, ExchangeInv, Saw
    <3>5. Redoes(p, new)
      BY <2>1, <2>3, <3>1, <3>2, <3>3, <3>4, DelTyped, RegTyped, Directories
      DEF Redoes, Aside, Before
    <3>6. Exchanges(p, new) /\ Uses(p, new)
      BY <2>1, <2>3, <3>3 DEF Exchanges, Uses, Aside
    <3> QED BY <3>5, <3>6 DEF Redone
  <2> QED BY <1>1, <2>2, <2>3 DEF MoveAside
<1>2. CASE MoveIn(p)
  <2>1. /\ UNCHANGED <<source, acts, jobs, permit, left, activating>> /\ regen[p].at = "in"
        /\ activating = p
    BY <1>2 DEF MoveIn, LockInv, Locked, Activating, creationVars
  <2>2. CASE UNCHANGED dest /\ GoRegen(p, "putback")
    <3>1. PICK new \in Regeneration :
               /\ regen' = [regen EXCEPT ![p] = new]
               /\ new.at = "putback" /\ new.holds = regen[p].holds
               /\ new.backup = regen[p].backup /\ new.acts = regen[p].acts
      BY <2>2, RegGoes DEF RegenSteps
    <3>2. Exchanged(p, new)
      BY <2>1, <3>1 DEF Exchanged, ExchangeInv
    <3>3. Redoes(p, new)
      BY <2>1, <2>2, <3>1, <3>2, DelTyped, RegTyped DEF Redoes, BackupInv, Aside, Before
    <3>4. Exchanges(p, new) /\ Uses(p, new)
      BY <2>1, <3>1 DEF Exchanges, Uses, Aside
    <3> QED BY <3>3, <3>4 DEF Redone
  <2>3. CASE RenameOnto(Candidate(p)) /\ GoRegen(p, "purge")
    <3>1. PICK new \in Regeneration :
               /\ regen' = [regen EXCEPT ![p] = new]
               /\ new.at = "purge" /\ new.holds = regen[p].holds /\ new.id = regen[p].id
               /\ new.backup = regen[p].backup /\ new.acts = regen[p].acts
      BY <2>3, RegGoes DEF RegenSteps
    <3>2. dest' = Candidate(p) /\ dest' \in Directory
      BY <2>3, Candidates, Directories DEF RenameOnto
    <3>3. Exchanged(p, new)
      BY <2>1, <3>1, <3>2 DEF Exchanged, ExchangeInv, Saw, Candidate
    <3>4. Redoes(p, new)
      BY <2>1, <3>1, <3>2, <3>3, DelTyped, RegTyped DEF Redoes, BackupInv, Aside, Before
    <3>5. Exchanges(p, new) /\ Uses(p, new)
      BY <2>1, <3>1 DEF Exchanges, Uses, Aside
    <3> QED BY <3>4, <3>5 DEF Redone
  <2> QED BY <1>2, <2>2, <2>3 DEF MoveIn
<1> QED BY <1>1, <1>2

LEMMA RegFinishes ==
    ASSUME TypeOK, LockInv, BackupInv, ExchangeInv, NEW p \in Process,
           PutBack(p) \/ PurgeBackup(p) \/ CrashInRegeneration(p)
    PROVE  Redone(p)
<1>1. CASE PutBack(p)
  <2>1. /\ UNCHANGED <<source, acts, jobs, permit>> /\ regen[p].at = "putback"
        /\ activating = p /\ activating' = None /\ EndRegen(p)
    BY <1>1 DEF PutBack, LockInv, Locked, Activating, Leave
  <2>2. regen[p].backup \in Directory
    BY <2>1, RegTyped DEF BackupInv
  <2>3. dest' \in {dest, regen[p].backup} /\ left' \subseteq left \cup {regen[p].backup}
    BY <1>1 DEF PutBack, RenameOnto
  <2> QED BY <2>1, <2>2, <2>3, RegEnds, DelTyped, RegTyped
<1>2. CASE PurgeBackup(p)
  <2>1. /\ UNCHANGED <<dest, source, acts, jobs, permit, left>> /\ regen[p].at = "purge"
        /\ activating = p /\ activating' = None /\ EndRegen(p)
    BY <1>2 DEF PurgeBackup, LockInv, Locked, Activating, Leave, destVars
  <2> QED BY <2>1, RegEnds, DelTyped, RegTyped
<1>3. CASE CrashInRegeneration(p)
  <2>1. /\ UNCHANGED <<dest, source, acts, jobs, permit>> /\ EndRegen(p)
    BY <1>3 DEF CrashInRegeneration, destVars
  <2>2. activating' = IF activating = p THEN None ELSE activating
    BY <1>3 DEF CrashInRegeneration
  <2>3. left' \subseteq Directory
    BY <1>3, RegTyped DEF CrashInRegeneration
  <2> QED BY <2>1, <2>2, <2>3, RegEnds, DelTyped
<1> QED BY <1>1, <1>2, <1>3

(* What holds after a step that leaves the destination and the exchange    *)
(* alone: a permit is issued or used.                                      *)
PermitsTyped == permit \in [Permit -> [saw : Directory \cup {None}, used : BOOLEAN]]

RegAll ==
    /\ DestTypeOK /\ RegenTypeOK /\ LockInv /\ PermitInv
    /\ ContentInv /\ BackupInv /\ ExchangeInv

LEMMA PreparePermitKeeps ==
    ASSUME Inv, NEW p \in Process, NEW g \in Permit, PreparePermit(p, g),
           UNCHANGED <<delivery, staging>>
    PROVE  RegAll' /\ activating' = activating
<1> DEFINE new == [permit[g] EXCEPT !.saw = dest]
<1>1. /\ UNCHANGED <<destVars, creationVars, regen, left>> /\ Regenerable(dest)
      /\ permit[g].saw = None
  BY DEF PreparePermit
<1>2. permit[g] \in [saw : Directory \cup {None}, used : BOOLEAN] /\ dest \in Directory
  BY RegTyped, DelTyped DEF Inv
<1>3. permit' = [permit EXCEPT ![g] = new]
  BY RegTyped DEF PreparePermit, Inv
<1>4. new \in [saw : Directory \cup {None}, used : BOOLEAN] /\ new.saw = dest
  BY <1>2
<1> HIDE DEF new
<1>5. /\ PermitsTyped' /\ permit'[g] = new
      /\ \A h \in Permit \ {g} : permit'[h] = permit[h]
  BY <1>3, <1>4, RegTyped DEF Inv, PermitsTyped
<1>6. \A q \in Process : regen[q].at # "idle" =>
          regen[q].holds \in Permit /\ permit'[regen[q].holds] = permit[regen[q].holds]
  BY <1>1, <1>5 DEF Inv, PermitInv, Saw
<1>7. PermitInv'
  BY <1>1, <1>4, <1>5, <1>6 DEF Inv, PermitInv, Saw
<1>8. ExchangeInv'
  BY <1>1, <1>6 DEF Inv, ExchangeInv, Saw, Candidate, destVars
<1>9. DestTypeOK' /\ RegenTypeOK' /\ LockInv' /\ BackupInv' /\ activating' = activating
  BY <1>1, <1>5 DEF Inv, TypeOK, DestTypeOK, RegenTypeOK, PermitsTyped, LockInv, OneJob,
                    Locked, Activating, BackupInv, destVars, creationVars
<1>10. ContentInv'
  BY <1>1 DEF Inv, ContentInv, Settled, destVars, creationVars
<1> QED BY <1>7, <1>8, <1>9, <1>10 DEF RegAll

LEMMA ConsumePermitKeeps ==
    ASSUME Inv, NEW p \in Process, NEW g \in Permit, ConsumePermit(p, g),
           creation[p].at = "idle", UNCHANGED <<delivery, staging>>
    PROVE  RegAll' /\ activating' = activating
<1> DEFINE new == [permit[g] EXCEPT !.used = TRUE]
           job == [regen[p] EXCEPT !.at = "plan", !.holds = g]
<1>1. /\ UNCHANGED <<destVars, creationVars, left>> /\ regen[p].at = "idle"
      /\ permit[g].saw # None /\ ~permit[g].used
  BY DEF ConsumePermit
<1>2. permit[g] \in [saw : Directory \cup {None}, used : BOOLEAN] /\ regen[p] \in Regeneration
  BY RegTyped DEF Inv
<1>3. permit' = [permit EXCEPT ![g] = new] /\ regen' = [regen EXCEPT ![p] = job]
  BY RegTyped DEF ConsumePermit, Inv
<1>4. /\ new \in [saw : Directory \cup {None}, used : BOOLEAN]
      /\ new.saw = permit[g].saw /\ new.used = TRUE
  BY <1>2
<1>5. /\ job \in Regeneration /\ job.at = "plan" /\ job.holds = g
      /\ job.backup = regen[p].backup /\ job.acts = regen[p].acts
  BY <1>2 DEF Regeneration, RegenSteps
<1> HIDE DEF new, job
<1>6. /\ PermitsTyped' /\ permit'[g] = new
      /\ \A h \in Permit \ {g} : permit'[h] = permit[h]
  BY <1>3, <1>4, RegTyped DEF Inv, PermitsTyped
<1>7. /\ regen' \in [Process -> Regeneration] /\ regen'[p] = job
      /\ \A q \in Process \ {p} : regen'[q] = regen[q]
  BY <1>3, <1>5, RegTyped DEF Inv
<1>8. \A q \in Process : regen[q].at # "idle" =>
          /\ regen[q].holds \in Permit /\ regen[q].holds # g
          /\ permit'[regen[q].holds] = permit[regen[q].holds]
  BY <1>1, <1>6 DEF Inv, PermitInv, Saw
<1>9. PermitInv'
  <2>1. \A h \in Permit : permit'[h].saw # None => Regenerable(permit'[h].saw)
    BY <1>4, <1>6 DEF Inv, PermitInv
  <2>2. ASSUME NEW q \in Process, regen'[q].at # "idle"
        PROVE  /\ regen'[q].holds \in Permit
               /\ permit'[regen'[q].holds].used /\ Saw(q)' # None
               /\ \A r \in Process \ {q} :
                     regen'[r].at # "idle" => regen'[r].holds # regen'[q].holds
    <3>1. CASE q = p
      BY <1>1, <1>4, <1>5, <1>6, <1>7, <1>8, <3>1 DEF Saw
    <3>2. CASE q # p
      <4>1. regen'[q] = regen[q] /\ permit'[regen[q].holds] = permit[regen[q].holds]
        BY <1>7, <1>8, <2>2, <3>2
      <4> QED BY <1>5, <1>7, <1>8, <2>2, <3>2, <4>1 DEF Inv, PermitInv, Saw
    <3> QED BY <3>1, <3>2
  <2>3. \A q \in Process : regen'[q].at = "idle" => regen'[q].holds = None
    BY <1>5, <1>7 DEF Inv, PermitInv
  <2> QED BY <2>1, <2>2, <2>3 DEF PermitInv
<1>10. ExchangeInv'
  <2>1. UNCHANGED <<dest, acts>>
    BY <1>1 DEF destVars
  <2> SUFFICES ASSUME NEW q \in Process
      PROVE  /\ regen'[q].acts <= acts
             /\ regen'[q].acts = acts =>
                   /\ regen'[q].at = "aside" => dest = Saw(q)'
                   /\ regen'[q].at \in {"in", "purge"} => regen'[q].backup = Saw(q)'
                   /\ regen'[q].at = "purge" => dest = Candidate(q)'
    BY <2>1 DEF ExchangeInv
  <2>2. CASE q = p
    BY <1>5, <1>7, <2>2 DEF Inv, ExchangeInv
  <2>3. CASE q # p
    <3>1. regen'[q] = regen[q]
      BY <1>7, <2>3
    <3>2. regen[q].at # "idle" => Saw(q)' = Saw(q) /\ Candidate(q)' = Candidate(q)
      BY <1>8, <3>1 DEF Saw, Candidate
    <3> QED BY <3>1, <3>2 DEF Inv, ExchangeInv
  <2> QED BY <2>2, <2>3
<1>11. DestTypeOK' /\ RegenTypeOK' /\ activating' = activating
  BY <1>1, <1>6, <1>7 DEF Inv, TypeOK, DestTypeOK, RegenTypeOK, PermitsTyped, Regeneration,
                          destVars, creationVars
<1>12. LockInv' /\ BackupInv'
  <2>1. UNCHANGED <<creation, activating>>
    BY <1>1 DEF creationVars
  <2> QED BY <1>1, <1>5, <1>7, <2>1 DEF Inv, LockInv, OneJob, Locked, Activating, BackupInv
<1>13. ContentInv'
  <2>1. UNCHANGED <<dest, jobs, creation>>
    BY <1>1 DEF destVars, creationVars
  <2>2. Settled' = Settled
    BY <2>1 DEF Settled
  <2> QED BY <1>5, <1>7, <2>1, <2>2 DEF Inv, ContentInv
<1> QED BY <1>9, <1>10, <1>11, <1>12, <1>13 DEF RegAll

(* Every other step.                                                       *)
LEMMA RedoneKeeps ==
    ASSUME Inv, NEW p \in Process, Redone(p), regen[p].at # "idle",
           UNCHANGED <<delivery, staging, creation>>
    PROVE  RegAll' /\ activating' \in Process \cup {None}
<1>1. PICK new : Redoes(p, new) /\ Exchanges(p, new) /\ Uses(p, new)
  BY DEF Redone
<1>2. /\ regen' \in [Process -> Regeneration] /\ regen'[p] = new
      /\ \A q \in Process \ {p} : regen'[q] = regen[q]
  BY <1>1, RegTyped DEF Inv, Redoes
<1>3. DestTypeOK' /\ RegenTypeOK' /\ activating' \in Process \cup {None}
  BY <1>1, <1>2, DelTyped, RegTyped, CreTyped
  DEF Inv, DestTypeOK, RegenTypeOK, Regeneration, Redoes, Uses, Exchanges
<1>4. creation[p].at = "idle"
  BY DEF Inv, LockInv, OneJob
<1>5. LockInv'
  <2>1. OneJob'
    BY <1>2, <1>4 DEF Inv, LockInv, OneJob
  <2>2. ASSUME NEW q \in Process, Activating(q)' PROVE activating' = q
    <3>1. CASE q = p
      <4>1. new.at \in {"aside"} \cup Aside
        BY <1>2, <1>4, <2>2, <3>1 DEF Activating, Aside
      <4> QED BY <1>1, <3>1, <4>1 DEF Exchanges
    <3>2. CASE q # p
      <4>1. Activating(q)
        BY <1>2, <2>2, <3>2 DEF Activating
      <4>2. activating = q /\ q # None
        BY <4>1, Directories DEF Inv, LockInv, Locked
      <4> QED BY <1>1, <3>2, <4>2 DEF Exchanges
    <3> QED BY <3>1, <3>2
  <2> QED BY <2>1, <2>2 DEF LockInv, Locked
<1>6. PermitInv'
  BY <1>1, <1>2 DEF Inv, PermitInv, Saw, Uses
<1>7. ContentInv'
  <2>1. Settled \subseteq Settled'
    BY <1>1, DelTyped, SettledGrows, EntryTypes DEF Inv, Redoes
  <2>2. regen[p].id \in Nat
    BY RegTyped, EntryTypes DEF Inv
  <2>3. Fit(Candidate(p), Settled')
    BY <2>2, Candidates, FitPlaces DEF Inv
  <2>4. Fit(dest, Settled') /\ Fit(regen[p].backup, Settled') /\ Fit(Absent, Settled')
    BY <2>1, FitStays, FitPlaces DEF Inv, ContentInv
  <2>5. Fit(dest', Settled')
    BY <1>1, <2>3, <2>4 DEF Redoes
  <2>6. Fit(new.backup, Settled')
    BY <1>1, <2>4, FitPlaces DEF Redoes
  <2>7. \A q \in Process : Fit(creation[q].backup, Settled') /\ Fit(regen[q].backup, Settled')
    BY <2>1, FitStays DEF Inv, ContentInv
  <2> QED BY <1>2, <2>5, <2>6, <2>7 DEF ContentInv
<1>8. BackupInv'
  BY <1>1, <1>2 DEF Inv, BackupInv, Redoes, Aside, Before
<1>9. ExchangeInv'
  <2>1. acts' = acts /\ permit' = permit
    BY <1>1 DEF Redoes, Uses
  <2> SUFFICES ASSUME NEW q \in Process
      PROVE  /\ regen'[q].acts <= acts
             /\ regen'[q].acts = acts =>
                   /\ regen'[q].at = "aside" => dest' = Saw(q)'
                   /\ regen'[q].at \in {"in", "purge"} => regen'[q].backup = Saw(q)'
                   /\ regen'[q].at = "purge" => dest' = Candidate(q)'
    BY <2>1 DEF ExchangeInv
  <2>2. CASE q = p
    BY <1>1, <1>2, <2>2 DEF Redoes, Exchanged, Saw, Candidate
  <2>3. CASE q # p
    <3>1. regen'[q] = regen[q] /\ Saw(q)' = Saw(q) /\ Candidate(q)' = Candidate(q)
      BY <1>2, <2>1, <2>3 DEF Saw, Candidate
    <3>2. CASE dest' = dest
      BY <3>1, <3>2 DEF Inv, ExchangeInv
    <3>3. CASE dest' # dest
      <4>1. Activating(p)
        BY <1>1, <3>3 DEF Redoes, Activating
      <4>2. regen[q].at \notin {"aside", "in", "purge"} \/ Activating(q)
        BY DEF Activating
      <4>3. regen[q].at \notin {"aside", "in", "purge"}
        BY <2>3, <4>1, <4>2 DEF Inv, LockInv, Locked
      <4>4. regen[q].acts <= acts
        BY DEF Inv, ExchangeInv
      <4> QED BY <3>1, <4>3, <4>4
    <3> QED BY <3>2, <3>3
  <2> QED BY <2>2, <2>3
<1> QED BY <1>3, <1>5, <1>6, <1>7, <1>8, <1>9 DEF RegAll

LEMMA RegenerationKeepsAll ==
    ASSUME Inv, NEW p \in Process, RegenerationStep(p),
           creation[p].at = "idle" \/ regen[p].at # "idle",
           UNCHANGED <<delivery, staging>>
    PROVE  /\ RegAll' /\ activating' \in Process \cup {None}
           /\ UNCHANGED <<creation, record, recordLock>>
<1>1. activating \in Process \cup {None} /\ creation[p].at = "idle"
  BY CreTyped DEF Inv, LockInv, OneJob
<1>2. UNCHANGED <<creation, record, recordLock>>
  BY DEF RegenerationStep, PreparePermit, ConsumePermit, RegenFails, Replan, GenerateCandidate,
         EnterExchange, MoveAside, MoveIn, PutBack, PurgeBackup, CrashInRegeneration,
         creationVars
<1>3. CASE \E g \in Permit : PreparePermit(p, g) \/ ConsumePermit(p, g)
  BY <1>1, <1>2, <1>3, PreparePermitKeeps, ConsumePermitKeeps
<1>4. ASSUME \/ RegenFails(p) \/ Replan(p) \/ GenerateCandidate(p)
             \/ EnterExchange(p) \/ MoveAside(p) \/ MoveIn(p)
             \/ PutBack(p) \/ PurgeBackup(p) \/ CrashInRegeneration(p)
      PROVE  RegAll' /\ activating' \in Process \cup {None}
  <2>1. Redone(p)
    BY <1>4, RegPrepares, RegMoves, RegFinishes DEF Inv
  <2>2. regen[p].at # "idle"
    BY <1>4 DEF RegenFails, Replan, GenerateCandidate, EnterExchange, MoveAside, MoveIn,
                PutBack, PurgeBackup, CrashInRegeneration
  <2> QED BY <1>2, <2>1, <2>2, RedoneKeeps
<1> QED BY <1>2, <1>3, <1>4 DEF RegenerationStep
--------------------------------------------------------------------------------
(* What a tool does not touch stays as it is.                              *)
LEMMA CreationFrame ==
    ASSUME Inv, UNCHANGED <<creationVars, regen>>
    PROVE  CreationTypeOK' /\ CapInv' /\ LockInv' /\ BackupInv'
BY DEF Inv, TypeOK, CreationTypeOK, CapInv, LockInv, OneJob, Locked, Activating, BackupInv,
       creationVars

LEMMA RegenFrame ==
    ASSUME Inv, UNCHANGED regenVars
    PROVE  RegenTypeOK' /\ PermitInv'
BY DEF Inv, TypeOK, RegenTypeOK, PermitInv, Saw, regenVars

LEMMA CopyFrame ==
    ASSUME Inv, UNCHANGED copyVars
    PROVE  CopyTypeOK' /\ CopyInv'
BY DEF Inv, TypeOK, CopyTypeOK, CopyInv, Written, IncompleteIsMarked, copyVars

LEMMA DeliveryFrame ==
    ASSUME Inv, UNCHANGED deliveryVars, jobs' \in {jobs, jobs + 1}
    PROVE  DeliveryTypeOK' /\ StagingInv'
<1>1. jobs \in Nat /\ \A p \in Process : delivery[p].id \in Nat
  BY DelTyped DEF Inv
<1>2. DeliveryTypeOK'
  BY DEF Inv, TypeOK, DeliveryTypeOK, deliveryVars
<1>3. StagingInv'
  <2>1. UNCHANGED <<delivery, staging>>
    BY DEF deliveryVars
  <2> SUFFICES ASSUME NEW p \in Process
      PROVE  /\ delivery[p].at # "idle" => delivery[p].plan \in Plan
             /\ Numbered(p)' /\ Claim(p)' /\ Staged(p)'
    BY <2>1 DEF StagingInv
  <2>2. StagingInv
    BY DEF Inv
  <2>3. Numbered(p)'
    BY <1>1, <2>1, <2>2 DEF StagingInv, Numbered
  <2>4. Claim(p)' /\ Staged(p)'
    BY <2>1, <2>2 DEF StagingInv, Claim, Staged
  <2> QED BY <2>2, <2>3, <2>4 DEF StagingInv
<1> QED BY <1>2, <1>3

(* A delivery changes only a destination that is absent or empty, so not   *)
(* one that is being exchanged.                                            *)
LEMMA DeliveryNeedsRoom ==
    ASSUME NEW p \in Process, DeliveryStep(p)
    PROVE  /\ dest' # dest => Free
           /\ UNCHANGED <<source, acts>> /\ jobs' \in {jobs, jobs + 1}
<1> USE DEF Free, destVars
<1>1. CASE \/ PlanDelivery(p) \/ RefuseDelivery(p) \/ BeginDelivery(p) \/ Stage(p)
           \/ DeliveryFails(p) \/ Verify(p) \/ CheckAbsent(p) \/ Confirm(p) \/ Cleanup(p)
           \/ CrashInDelivery(p)
  BY <1>1 DEF PlanDelivery, RefuseDelivery, BeginDelivery, NewJob, Stage, DeliveryFails, Verify,
              CheckAbsent, Confirm, Cleanup, CrashInDelivery
<1>2. CASE EmptyDestination(p) \/ Rename(p) \/ GiveBack(p)
  BY <1>2 DEF EmptyDestination, Rename, RenameOnto, GiveBack
<1> QED BY <1>1, <1>2 DEF DeliveryStep

LEMMA ExchangedIsTaken ==
    ASSUME Inv, NEW p \in Process, regen[p].acts = acts, regen[p].at \in {"aside", "purge"}
    PROVE  ~Free
<1>1. CASE regen[p].at = "aside"
  <2>1. dest = Saw(p) /\ Regenerable(dest)
    BY <1>1 DEF Inv, ExchangeInv, PermitInv, Saw
  <2> QED BY <2>1 DEF Regenerable, Free
<1>2. CASE regen[p].at = "purge"
  <2>1. dest = Candidate(p)
    BY <1>2 DEF Inv, ExchangeInv
  <2>2. Native(regen[p].id) \in dest /\ dest \in SUBSET Entry
    BY <2>1, Candidates DEF Inv
  <2> QED BY <2>2, Directories DEF Free
<1> QED BY <1>1, <1>2

LEMMA DeliverKeeps ==
    ASSUME Inv, NEW p \in Process, DeliveryStep(p),
           UNCHANGED <<creationVars, regenVars, copyVars>>
    PROVE  Inv'
<1>1. DelAll'
  BY DeliveryKeeps DEF Inv, creationVars, regenVars
<1>2. CreationTypeOK' /\ CapInv' /\ LockInv' /\ BackupInv'
  BY CreationFrame DEF regenVars
<1>3. RegenTypeOK' /\ PermitInv' /\ CopyTypeOK' /\ CopyInv'
  BY RegenFrame, CopyFrame
<1>4. ExchangeInv'
  <2>1. UNCHANGED <<acts, permit, regen>> /\ (dest' # dest => Free)
    BY DeliveryNeedsRoom DEF regenVars
  <2>2. \A q \in Process : Saw(q)' = Saw(q) /\ Candidate(q)' = Candidate(q)
    BY <2>1 DEF Saw, Candidate
  <2>3. \A q \in Process :
            regen[q].acts = acts /\ regen[q].at \in {"aside", "purge"} => dest' = dest
    BY <2>1, ExchangedIsTaken
  <2> QED BY <2>1, <2>2, <2>3 DEF Inv, ExchangeInv
<1> QED BY <1>1, <1>2, <1>3, <1>4 DEF Inv, TypeOK, DelAll

LEMMA StagingReplacedKeepsAll ==
    ASSUME Inv, StagingReplaced, UNCHANGED <<creationVars, regenVars, copyVars>>
    PROVE  Inv'
<1>1. DelAll'
  BY StagingReplacedKeeps DEF Inv, creationVars, regenVars
<1>2. CreationTypeOK' /\ CapInv' /\ LockInv' /\ BackupInv'
  BY CreationFrame DEF regenVars
<1>3. RegenTypeOK' /\ PermitInv' /\ CopyTypeOK' /\ CopyInv'
  BY RegenFrame, CopyFrame
<1>4. ExchangeInv'
  <2>1. UNCHANGED regen /\ acts' = acts + 1 /\ acts \in Nat
    BY DelTyped DEF Inv, StagingReplaced, regenVars
  <2>2. \A q \in Process : regen[q].acts \in Nat /\ regen[q].acts <= acts
    BY RegTyped DEF Inv, ExchangeInv
  <2> QED BY <2>1, <2>2 DEF ExchangeInv
<1> QED BY <1>1, <1>2, <1>3, <1>4 DEF Inv, TypeOK, DelAll

LEMMA UserKeeps ==
    ASSUME Inv, UserActs, UNCHANGED <<deliveryVars, creationVars, regenVars, copyVars>>
    PROVE  Inv'
<1>1. /\ acts' = acts + 1 /\ acts < MaxActs /\ acts \in Nat /\ jobs' = jobs /\ jobs \in Nat
      /\ dest \in Directory /\ source \in Source
      /\ source' \in {source, acts + 1}
      /\ \/ dest' \in {dest, {}, Absent}
         \/ dest # Absent /\ dest' = dest \cup {UserFile}
  BY DelTyped
  DEF Inv, UserActs, UserMakes, UserPuts, UserRemoves, UserEditsSource
<1>2. DestTypeOK'
  <2>1. acts + 1 \in Source
    BY <1>1, BoundsAssumption DEF Source
  <2>2. dest' \in Directory
    BY <1>1, Directories, EntryTypes
  <2> QED BY <1>1, <2>1, <2>2, DelTyped DEF DestTypeOK, Inv
<1>3. DeliveryTypeOK' /\ StagingInv'
  BY <1>1, DeliveryFrame
<1>4. CreationTypeOK' /\ CapInv' /\ LockInv' /\ BackupInv'
  BY CreationFrame DEF regenVars
<1>5. RegenTypeOK' /\ PermitInv' /\ CopyTypeOK' /\ CopyInv'
  BY RegenFrame, CopyFrame
<1>6. ExchangeInv'
  <2>1. \A q \in Process : regen[q].acts \in Nat /\ regen[q].acts <= acts
    BY RegTyped DEF Inv, ExchangeInv
  <2> QED BY <1>1, <2>1 DEF ExchangeInv, regenVars
<1>7. ContentInv'
  <2>1. Settled' = Settled /\ UNCHANGED <<creation, regen>>
    BY <1>1 DEF Settled, deliveryVars, creationVars, regenVars
  <2>2. Fit(dest, Settled)
    BY DEF Inv, ContentInv
  <2>3. Fit(dest', Settled)
    <3>1. CASE dest' \in {dest, {}, Absent}
      BY <2>2, <3>1, FitPlaces
    <3>2. CASE dest # Absent /\ dest' = dest \cup {UserFile}
      <4>1. \A i \in JobId : Tree(i) # UserFile
        BY Entries, EntryTypes DEF UserFile
      <4> QED BY <1>1, <2>2, <3>2, <4>1, Directories DEF Fit
    <3> QED BY <1>1, <3>1, <3>2
  <2> QED BY <2>1, <2>3 DEF Inv, ContentInv
<1> QED BY <1>2, <1>3, <1>4, <1>5, <1>6, <1>7 DEF Inv, TypeOK

LEMMA CreateKeeps ==
    ASSUME Inv, NEW p \in Process, Create(p)
    PROVE  Inv'
<1>1. /\ CreationStep(p) /\ UNCHANGED <<deliveryVars, regenVars, copyVars>>
      /\ creation[p].at # "idle" \/ regen[p].at = "idle"
  BY DEF Create, Idle
<1>2. /\ creation' \in [Process -> Creation] /\ DestTypeOK'
      /\ activating' \in Process \cup {None}
      /\ LockInv' /\ ContentInv' /\ BackupInv' /\ ExchangeInv'
  BY <1>1, CreationKeeps DEF Inv, deliveryVars, regenVars
<1>3. /\ CapInv'
      /\ record' \in [Authorization -> {"prepared", "consumed"}]
      /\ recordLock' \in [Authorization -> Process \cup {None}]
  BY <1>1, CapabilitiesKept DEF Inv
<1>4. CreationTypeOK'
  BY <1>2, <1>3 DEF CreationTypeOK, Creation
<1>5. jobs' \in {jobs, jobs + 1}
  BY <1>1, CreBegins, CreActivates, CreLeaves DEF Inv, CreationStep, Result, Does
<1>6. DeliveryTypeOK' /\ StagingInv'
  BY <1>1, <1>5, DeliveryFrame
<1>7. RegenTypeOK' /\ PermitInv' /\ CopyTypeOK' /\ CopyInv'
  BY <1>1, RegenFrame, CopyFrame
<1> QED BY <1>2, <1>3, <1>4, <1>6, <1>7 DEF Inv, TypeOK

LEMMA RegenerateKeeps ==
    ASSUME Inv, NEW p \in Process, Regenerate(p)
    PROVE  Inv'
<1>1. /\ RegenerationStep(p) /\ UNCHANGED <<deliveryVars, copyVars>>
      /\ creation[p].at = "idle" \/ regen[p].at # "idle"
  BY DEF Regenerate, Idle
<1>2. /\ RegAll' /\ activating' \in Process \cup {None}
      /\ UNCHANGED <<creation, record, recordLock>>
  BY <1>1, RegenerationKeepsAll DEF deliveryVars
<1>3. CreationTypeOK' /\ CapInv'
  BY <1>2 DEF Inv, TypeOK, CreationTypeOK, CapInv
<1>4. jobs' \in {jobs, jobs + 1}
  BY <1>1 DEF RegenerationStep, PreparePermit, ConsumePermit, RegenFails, Replan,
              GenerateCandidate, EnterExchange, MoveAside, MoveIn, PutBack, PurgeBackup,
              CrashInRegeneration, destVars, NewJob
<1>5. DeliveryTypeOK' /\ StagingInv'
  BY <1>1, <1>4, DeliveryFrame
<1>6. CopyTypeOK' /\ CopyInv'
  BY <1>1, CopyFrame
<1> QED BY <1>2, <1>3, <1>5, <1>6 DEF Inv, TypeOK, RegAll

LEMMA CopyingKeeps ==
    ASSUME Inv, NEW p \in Process, Copy(p)
    PROVE  Inv'
<1>1. CopyStep(p) /\ UNCHANGED <<deliveryVars, creationVars, regenVars>>
  BY DEF Copy
<1>2. CopyAll'
  BY <1>1, CopyBegins, CopyWrites, CopyEnds DEF Inv, CopyStep
<1>3. /\ UNCHANGED <<dest, source, acts>>
      /\ jobs' \in {jobs, jobs + 1} /\ (jobs' # jobs => jobs < MaxJobs)
  BY <1>1 DEF CopyStep, Preview, BeginCopy, MakeOutput, Mark, WriteFile, Recheck,
              PublishManifest, Unmark, CopyFails, ReportFailure, CrashInCopy, destVars, NewJob
<1>4. DestTypeOK'
  BY <1>3, DelTyped, BoundsAssumption DEF Inv, DestTypeOK, JobId
<1>5. DeliveryTypeOK' /\ StagingInv'
  BY <1>1, <1>3, DeliveryFrame
<1>6. CreationTypeOK' /\ CapInv' /\ LockInv' /\ BackupInv'
  BY <1>1, CreationFrame DEF regenVars
<1>7. RegenTypeOK' /\ PermitInv'
  BY <1>1, RegenFrame
<1>8. ExchangeInv'
  BY <1>1, <1>3 DEF Inv, ExchangeInv, Saw, Candidate, regenVars
<1>9. ContentInv'
  <2>1. Settled \subseteq Settled'
    BY <1>1, <1>3, DelTyped, SettledGrows DEF Inv, deliveryVars
  <2>2. UNCHANGED <<dest, creation, regen>>
    BY <1>1, <1>3 DEF creationVars, regenVars
  <2> QED BY <2>1, <2>2, FitStays DEF Inv, ContentInv
<1> QED BY <1>2, <1>4, <1>5, <1>6, <1>7, <1>8, <1>9 DEF Inv, TypeOK, CopyAll

LEMMA StutterKeeps ==
    ASSUME Inv, UNCHANGED vars
    PROVE  Inv'
<1>1. /\ UNCHANGED <<deliveryVars, creationVars, regenVars, copyVars>>
      /\ UNCHANGED <<dest, source, acts, jobs>>
  BY DEF vars, destVars
<1>2. DeliveryTypeOK' /\ StagingInv'
  BY <1>1, DeliveryFrame
<1>3. CreationTypeOK' /\ CapInv' /\ LockInv' /\ BackupInv'
  BY <1>1, CreationFrame DEF regenVars
<1>4. RegenTypeOK' /\ PermitInv' /\ CopyTypeOK' /\ CopyInv'
  BY <1>1, RegenFrame, CopyFrame
<1>5. ExchangeInv' /\ DestTypeOK'
  BY <1>1 DEF Inv, TypeOK, DestTypeOK, ExchangeInv, Saw, Candidate, regenVars
<1>6. ContentInv'
  <2>1. Settled' = Settled /\ UNCHANGED <<dest, creation, regen>>
    BY <1>1 DEF Settled, deliveryVars, creationVars, regenVars
  <2> QED BY <2>1 DEF Inv, ContentInv
<1> QED BY <1>2, <1>3, <1>4, <1>5, <1>6 DEF Inv, TypeOK

LEMMA InitIsInv == Init => Inv
<1> SUFFICES ASSUME Init PROVE Inv
  OBVIOUS
<1> USE DEF Init
<1>1. /\ dest \in {Absent, {}, {Native(0)}} /\ source = 0 /\ acts = 0 /\ jobs = 0
      /\ delivery = [p \in Process |-> NoDelivery] /\ DOMAIN staging = {}
      /\ creation = [p \in Process |-> NoCreation] /\ activating = None
      /\ regen = [p \in Process |-> NoRegen] /\ left = {}
      /\ copy = [p \in Process |-> NoCopy] /\ out = NoOutput
  BY DEF DestInit, DeliveryInit, CreationInit, RegenInit, CopyInit
<1>2. DestTypeOK
  BY <1>1, Directories, EntryTypes, BoundsAssumption DEF DestTypeOK, Source
<1>3. DeliveryTypeOK
  BY <1>1, NoDelRecord DEF DeliveryTypeOK, Delivery
<1>4. CreationTypeOK
  BY <1>1, NoCreRecord DEF CreationInit, CreationTypeOK, Creation
<1>5. RegenTypeOK
  BY <1>1, NoRegRecord DEF RegenInit, RegenTypeOK, Regeneration
<1>6. CopyTypeOK
  BY <1>1, FilesAssumption DEF CopyTypeOK, NoCopy, NoOutput
<1>7. LockInv /\ CapInv
  BY <1>1, NoCreRecord, NoRegRecord DEF LockInv, OneJob, Locked, Activating, CapInv
<1>8. PermitInv /\ BackupInv
  BY <1>1, NoCreRecord, NoRegRecord DEF RegenInit, PermitInv, BackupInv
<1>9. CopyInv
  BY <1>1 DEF CopyInv, Copying, Written, IncompleteIsMarked, NoCopy, NoOutput
<1>10. StagingInv
  BY <1>1, NoDelRecord DEF StagingInv, Numbered, Claim, Staged, Open, Claimed, Verified
<1>11. ContentInv
  <2>1. Fit(dest, Settled)
    BY <1>1, FitPlaces
  <2> QED BY <1>1, <2>1, NoCreRecord, NoRegRecord, FitPlaces DEF ContentInv
<1>12. ExchangeInv
  <2>1. \A p \in Process : regen[p].acts = 0 /\ regen[p].at = "idle"
    BY <1>1, NoRegRecord
  <2>2. \A p \in Process : regen[p].acts <= acts
    <3>1. acts = 0 /\ 0 <= 0
      BY <1>1
    <3> QED BY <2>1, <3>1
  <2> QED BY <2>1, <2>2 DEF ExchangeInv
<1> QED BY <1>2, <1>3, <1>4, <1>5, <1>6, <1>7, <1>8, <1>9, <1>10, <1>11, <1>12 DEF Inv, TypeOK

LEMMA NextKeeps == Inv /\ [Next]_vars => Inv'
<1> SUFFICES ASSUME Inv, [Next]_vars PROVE Inv'
  OBVIOUS
<1>1. CASE UserActs /\ UNCHANGED <<deliveryVars, creationVars, regenVars, copyVars>>
  BY <1>1, UserKeeps
<1>2. CASE StagingReplaced /\ UNCHANGED <<creationVars, regenVars, copyVars>>
  BY <1>2, StagingReplacedKeepsAll
<1>3. ASSUME NEW p \in Deliverer, Deliver(p) PROVE Inv'
  BY <1>3, ToolsAssumption, DeliverKeeps DEF Deliver
<1>4. ASSUME NEW p \in Creator, Create(p) PROVE Inv'
  BY <1>4, ToolsAssumption, CreateKeeps
<1>5. ASSUME NEW p \in Regenerator, Regenerate(p) PROVE Inv'
  BY <1>5, ToolsAssumption, RegenerateKeeps
<1>6. ASSUME NEW p \in Copier, Copy(p) PROVE Inv'
  BY <1>6, ToolsAssumption, CopyingKeeps
<1>7. CASE UNCHANGED vars
  BY <1>7, StutterKeeps
<1> QED BY <1>1, <1>2, <1>3, <1>4, <1>5, <1>6, <1>7 DEF Next

(* The invariant holds of every state, for any processes, authorizations,  *)
(* permits and numbers of files, jobs and acts of the user.                *)
THEOREM Invariance == Spec => []Inv
BY InitIsInv, NextKeeps, PTL DEF Spec

(* Every variable of the destination, of the four tools and of their locks *)
(* and records keeps its type.                                             *)
THEOREM TypeCorrect == Spec => []TypeOK
<1>1. Inv => TypeOK
  BY DEF Inv
<1> QED BY <1>1, Invariance, PTL

(* creation_authorization.py, regeneration_workflows.py and the activation *)
(* lock: no capability is held twice, and nobody looks at the destination  *)
(* to take it while another has moved it aside.                            *)
THEOREM CreationsNeverMeet == Spec => []CreationsExclude
<1>1. Inv => CreationsExclude
  <2> SUFFICES ASSUME Inv, NEW p \in Process, NEW q \in Process, p # q
      PROVE  /\ creation[p].holds # None => creation[p].holds # creation[q].holds
             /\ regen[p].holds # None => regen[p].holds # regen[q].holds
             /\ ~(Activating(p) /\ Activating(q))
    BY DEF CreationsExclude
  <2>1. creation[p].holds # None => creation[p].holds # creation[q].holds
    BY DEF Inv, CapInv
  <2>2. regen[p].holds # None => regen[p].holds # regen[q].holds
    BY DEF Inv, PermitInv
  <2>3. ~(Activating(p) /\ Activating(q))
    BY DEF Inv, LockInv, Locked
  <2> QED BY <2>1, <2>2, <2>3
<1> QED BY <1>1, Invariance, PTL

(* migration/delivery.py: while a delivery cleans up to report a failure   *)
(* the destination does not hold its output.                               *)
THEOREM FailuresPublishNothing == Spec => []FailurePublishesNothing
<1>1. Inv => FailurePublishesNothing
  <2> SUFFICES ASSUME Inv, NEW p \in Process,
                      delivery[p].at \in {"cleanup", "remove", "giveback"}, dest # Absent
      PROVE  Tree(delivery[p].id) \notin dest
    BY DEF FailurePublishesNothing
  <2>1. Fit(dest, Settled) /\ dest # None /\ delivery[p].id \in JobId
    BY DelTyped, Directories DEF Inv, ContentInv
  <2>2. delivery[p].id \notin Settled
    BY DEF Settled, Open, Claimed
  <2> QED BY <2>1, <2>2 DEF Fit
<1> QED BY <1>1, Invariance, PTL

--------------------------------------------------------------------------------
(* Incomplete projects: what the steps of each tool may bring.             *)
LEMMA WhoRegenerates ==
    ASSUME Inv, [Next]_vars, NEW p \in Process, regen'[p] # regen[p]
    PROVE  RegenerationStep(p) /\ creation[p].at = "idle"
<1>1. PICK q \in Regenerator : Regenerate(q)
  BY DEF Next, UserActs, StagingReplaced, Deliver, Create, Copy, regenVars, vars
<1>2. q = p
  <2>1. q \in Process /\ RegenerationStep(q) /\ regen \in [Process -> Regeneration]
    BY <1>1, ToolsAssumption, RegTyped DEF Inv, Regenerate
  <2>2. q # p => regen'[p] = regen[p]
    BY <2>1 DEF RegenerationStep, PreparePermit, ConsumePermit, RegenFails, Replan,
                GenerateCandidate, EnterExchange, MoveAside, MoveIn, PutBack, PurgeBackup,
                CrashInRegeneration, GoRegen, EndRegen
  <2> QED BY <2>2
<1> QED BY <1>1, <1>2 DEF Regenerate, Idle, Inv, LockInv, OneJob

LEMMA WholeThings ==
    /\ NoParts(Absent) /\ NoParts(None) /\ NoParts({}) /\ NoParts({UserFile})
    /\ \A i \in Nat : /\ NoParts({Tree(i)}) /\ NoParts({Native(i)})
                      /\ NoParts({Native(i), UserFile})
    /\ \A d \in SUBSET Entry : Regenerable(d) => NoParts(d)
<1>1. /\ NoParts(Absent) /\ NoParts(None) /\ NoParts({}) /\ NoParts({UserFile})
      /\ \A i \in Nat : /\ NoParts({Tree(i)}) /\ NoParts({Native(i)})
                        /\ NoParts({Native(i), UserFile})
  BY Entries DEF NoParts, IsPart
<1>2. ASSUME NEW d \in SUBSET Entry, Regenerable(d) PROVE NoParts(d)
  <2>1. PICK e \in d : e.whole /\ d \ {UserFile} = {e}
    BY <1>2 DEF Regenerable
  <2>2. \A x \in d : x = e \/ x = UserFile
    BY <2>1
  <2> QED BY <2>1, <2>2 DEF NoParts, IsPart
<1> QED BY <1>1, <1>2

LEMMA DeliveryBringsWhole ==
    ASSUME Inv, NEW p \in Process, DeliveryStep(p)
    PROVE  dest' = dest \/ NoParts(dest')
<1>1. CASE \/ PlanDelivery(p) \/ RefuseDelivery(p) \/ BeginDelivery(p) \/ Stage(p)
           \/ DeliveryFails(p) \/ Verify(p) \/ CheckAbsent(p) \/ Confirm(p) \/ Cleanup(p)
           \/ CrashInDelivery(p)
  BY <1>1 DEF PlanDelivery, RefuseDelivery, BeginDelivery, Stage, DeliveryFails, Verify,
              CheckAbsent, Confirm, Cleanup, CrashInDelivery, destVars
<1>2. CASE EmptyDestination(p) \/ GiveBack(p)
  BY <1>2, WholeThings DEF EmptyDestination, GiveBack
<1>3. CASE Rename(p)
  <2>1. delivery[p].at = "rename" /\ dest' = staging[delivery[p].plan].items
    BY <1>3 DEF Rename, RenameOnto
  <2>2. dest' \in {{Tree(delivery[p].id)}, {UserFile}} /\ delivery[p].id \in Nat
    BY <2>1, DelTyped DEF Inv, StagingInv, Staged, Verified
  <2> QED BY <2>2, WholeThings
<1> QED BY <1>1, <1>2, <1>3 DEF DeliveryStep

LEMMA CreationBringsWhole ==
    ASSUME Inv, NEW p \in Process, CreationStep(p)
    PROVE  dest' = dest \/ NoParts(dest') \/ RollbackFails(p)
<1>1. creation \in [Process -> Creation] /\ creation[p].id \in Nat
  BY CreTyped, EntryTypes DEF Inv
<1>2. CASE \/ \E a \in Authorization : ReadRecord(p, a)
           \/ ConsumeRecord(p) \/ InspectDestination(p) \/ Generate(p)
           \/ EnterActivation(p) \/ Purge(p) \/ CleanUp(p) \/ CrashInCreation(p)
  BY <1>2 DEF ReadRecord, ConsumeRecord, InspectDestination, Generate, EnterActivation, Purge,
              CleanUp, CrashInCreation, destVars
<1>3. CASE ActivateAbsent(p) \/ BackUp(p) \/ Swap(p)
  <2>1. dest' \in {dest, Absent, {Native(creation[p].id)}}
    BY <1>3 DEF ActivateAbsent, BackUp, Swap, RenameOnto
  <2> QED BY <1>1, <2>1, WholeThings
<1>4. CASE RestoreEmpty(p)
  <2>1. creation[p].at = "restore"
    BY <1>4 DEF RestoreEmpty, At
  <2>2. CASE GoOn(p, "lost")
    <3>1. creation'[p].at = "lost"
      BY <1>1, <2>2 DEF GoOn, Creation
    <3> QED BY <2>1, <3>1 DEF RollbackFails
  <2>3. ASSUME NEW end \in {"clean", "lost"}, end = "clean" => dest' = {},
               creation' = [creation EXCEPT ![p].at = end, ![p].backup = None]
        PROVE  dest' = dest \/ NoParts(dest') \/ RollbackFails(p)
    <3>1. creation'[p].at = end
      BY <1>1, <2>3 DEF Creation
    <3> QED BY <2>1, <2>3, <3>1, WholeThings DEF RollbackFails
  <2> QED BY <1>4, <2>2, <2>3 DEF RestoreEmpty
<1> QED BY <1>2, <1>3, <1>4 DEF CreationStep

LEMMA RegenerationBringsWhole ==
    ASSUME Inv, PartsInv, NEW p \in Process, RegenerationStep(p)
    PROVE  dest' = dest \/ NoParts(dest')
<1>1. CASE \/ \E g \in Permit : PreparePermit(p, g) \/ ConsumePermit(p, g)
           \/ RegenFails(p) \/ Replan(p) \/ GenerateCandidate(p) \/ EnterExchange(p)
           \/ PurgeBackup(p) \/ CrashInRegeneration(p)
  BY <1>1 DEF PreparePermit, ConsumePermit, RegenFails, Replan, GenerateCandidate,
              EnterExchange, PurgeBackup, CrashInRegeneration, destVars
<1>2. CASE MoveAside(p) \/ PutBack(p)
  <2>1. dest' \in {dest, Absent, regen[p].backup}
    BY <1>2 DEF MoveAside, PutBack, RenameOnto
  <2> QED BY <2>1, WholeThings DEF PartsInv
<1>3. CASE MoveIn(p)
  <2>1. dest' = dest \/ dest' = Candidate(p)
    BY <1>3 DEF MoveIn, RenameOnto
  <2>2. /\ Candidate(p) \in {{Native(regen[p].id)}, {Native(regen[p].id), UserFile}}
        /\ regen[p].id \in Nat
    BY Candidates, RegTyped, EntryTypes DEF Inv
  <2>3. NoParts(Candidate(p))
    BY <2>2, WholeThings
  <2> QED BY <2>1, <2>3
<1> QED BY <1>1, <1>2, <1>3 DEF RegenerationStep

(* So a part that comes to the destination comes by a failing rollback.    *)
LEMMA NewPartsAreTold ==
    ASSUME Inv, PartsInv, [Next]_vars, dest' # Absent, NEW e \in dest', IsPart(e)
    PROVE  (dest # Absent /\ e \in dest) \/ \E p \in Process : RollbackFails(p)
<1>1. dest # None /\ dest' # None
  <2>1. Inv'
    BY NextKeeps
  <2>2. dest' \in Directory
    BY <2>1 DEF Inv, TypeOK, DestTypeOK
  <2> QED BY <2>2, DelTyped, Directories DEF Inv
<1>2. ASSUME dest' = dest \/ NoParts(dest')
      PROVE  dest # Absent /\ e \in dest
  BY <1>1, <1>2 DEF NoParts
<1>3. CASE UserActs
  <2>1. \/ dest' \in {dest, {}, Absent}
        \/ dest # Absent /\ dest' = dest \cup {UserFile}
    BY <1>3 DEF UserActs, UserMakes, UserPuts, UserRemoves, UserEditsSource
  <2> QED BY <2>1 DEF IsPart
<1>4. CASE StagingReplaced
  BY <1>2, <1>4 DEF StagingReplaced
<1>5. CASE \E p \in Deliverer : Deliver(p)
  BY <1>2, <1>5, ToolsAssumption, DeliveryBringsWhole DEF Deliver
<1>6. CASE \E p \in Creator : Create(p)
  BY <1>2, <1>6, ToolsAssumption, CreationBringsWhole DEF Create
<1>7. CASE \E p \in Regenerator : Regenerate(p)
  BY <1>2, <1>7, ToolsAssumption, RegenerationBringsWhole DEF Regenerate
<1>8. CASE \E p \in Copier : Copy(p)
  BY <1>2, <1>8 DEF Copy, CopyStep, Preview, BeginCopy, MakeOutput, Mark, WriteFile, Recheck,
                    PublishManifest, Unmark, CopyFails, ReportFailure, CrashInCopy, destVars
<1>9. CASE UNCHANGED vars
  BY <1>2, <1>9 DEF vars, destVars
<1> QED BY <1>3, <1>4, <1>5, <1>6, <1>7, <1>8, <1>9 DEF Next

LEMMA PartsKept ==
    ASSUME Inv, PartsInv, [Next]_vars
    PROVE  PartsInv'
<1> SUFFICES ASSUME NEW q \in Process
    PROVE  /\ regen'[q].at = "aside" => NoParts(dest')
           /\ NoParts(regen'[q].backup)
  BY DEF PartsInv
<1>1. regen \in [Process -> Regeneration] /\ regen[q] \in Regeneration
  BY RegTyped DEF Inv
<1>2. dest \in Directory /\ dest # None
  BY DelTyped, Directories DEF Inv
<1>3. ASSUME regen[q].at = "aside" PROVE NoParts(dest')
  <2>1. activating = q /\ creation[q].at = "idle"
    BY <1>3 DEF Inv, LockInv, OneJob, Locked, Activating
  <2>2. \A p \in Process : ~RollbackFails(p)
    BY <2>1 DEF RollbackFails, Inv, LockInv, Locked, Activating
  <2>3. ASSUME dest' # Absent, NEW e \in dest', IsPart(e) PROVE FALSE
    <3>1. dest # Absent /\ e \in dest
      BY <2>2, <2>3, NewPartsAreTold
    <3> QED BY <1>2, <1>3, <2>3, <3>1 DEF PartsInv, NoParts
  <2> QED BY <2>3 DEF NoParts
<1>4. CASE regen'[q] = regen[q]
  BY <1>3, <1>4 DEF PartsInv
<1>5. CASE regen'[q] # regen[q]
  <2>1. RegenerationStep(q)
    BY <1>5, WhoRegenerates
  <2>2. CASE EnterExchange(q)
    <3>1. dest' = dest /\ dest = Saw(q) /\ Regenerable(dest)
      <4>1. dest' = dest /\ dest = Saw(q) /\ regen[q].at = "enter"
        BY <2>2 DEF EnterExchange, StillAsSeen, destVars
      <4> QED BY <4>1 DEF Inv, PermitInv, Saw
    <3>2. NoParts(dest)
      BY <1>2, <3>1, WholeThings, Directories DEF Regenerable
    <3>3. regen'[q].backup = regen[q].backup
      BY <1>1, <2>2 DEF EnterExchange, Regeneration
    <3> QED BY <3>1, <3>2, <3>3 DEF PartsInv
  <2>3. CASE MoveAside(q)
    <3>1. regen[q].at = "aside" /\ NoParts(dest)
      BY <2>3 DEF MoveAside, PartsInv
    <3>2. /\ regen'[q].at \in {"in", "idle"} /\ regen'[q].backup \in {dest, None}
      BY <1>1, <2>3, NoRegRecord DEF MoveAside, EndRegen, Regeneration
    <3> QED BY <3>1, <3>2, WholeThings
  <2>4. ASSUME \/ \E g \in Permit : PreparePermit(q, g) \/ ConsumePermit(q, g)
               \/ RegenFails(q) \/ Replan(q) \/ GenerateCandidate(q) \/ MoveIn(q)
               \/ PutBack(q) \/ PurgeBackup(q) \/ CrashInRegeneration(q)
        PROVE  regen'[q].at # "aside" /\ regen'[q].backup \in {None, regen[q].backup}
    <3>1. CASE \E g \in Permit : PreparePermit(q, g) \/ ConsumePermit(q, g)
      BY <1>1, <1>5, <3>1 DEF PreparePermit, ConsumePermit, Regeneration
    <3>2. CASE Replan(q) \/ GenerateCandidate(q) \/ MoveIn(q)
      BY <1>1, <3>2 DEF Replan, GenerateCandidate, MoveIn, GoRegen, Regeneration
    <3>3. CASE RegenFails(q) \/ PutBack(q) \/ PurgeBackup(q) \/ CrashInRegeneration(q)
      BY <1>1, <3>3, NoRegRecord
      DEF RegenFails, PutBack, PurgeBackup, CrashInRegeneration, EndRegen
    <3> QED BY <2>4, <3>1, <3>2, <3>3
  <2>5. CASE regen'[q].at # "aside" /\ regen'[q].backup \in {None, regen[q].backup}
    BY <2>5, WholeThings DEF PartsInv
  <2> QED BY <2>1, <2>2, <2>3, <2>4, <2>5 DEF RegenerationStep
<1> QED BY <1>4, <1>5

(* migration/delivery.py, creation_apply.py, regeneration_workflows.py and *)
(* copy_plan: an incomplete project comes to the destination only by a     *)
(* rollback that is reported as failed, and a directory of copies that is  *)
(* not complete has its marker.                                            *)
THEOREM NoPartForTheWhole == Spec => WholeOrMarked
<1>1. Init => PartsInv
  <2>1. ASSUME Init, NEW p \in Process PROVE regen[p].at = "idle" /\ regen[p].backup = None
    BY <2>1, NoRegRecord DEF Init, RegenInit
  <2> QED BY <2>1, WholeThings DEF PartsInv
<1>2. Inv /\ PartsInv /\ [Next]_vars => PartsInv'
  BY PartsKept
<1>3. Inv /\ PartsInv /\ [Next]_vars =>
          [\A e \in (IF dest' = Absent THEN {} ELSE dest') :
              IsPart(e) => (dest # Absent /\ e \in dest)
                              \/ \E p \in Process : RollbackFails(p)]_vars
  BY NewPartsAreTold
<1>4. Inv => IncompleteIsMarked
  BY DEF Inv, CopyInv
<1>5. Spec => PartsAreTold
  BY <1>1, <1>2, <1>3, Invariance, PTL DEF Spec, PartsAreTold
<1>6. Spec => []IncompleteIsMarked
  BY <1>4, Invariance, PTL
<1> QED BY <1>5, <1>6 DEF WholeOrMarked

--------------------------------------------------------------------------------
(* What the tools may do to what others have at the destination.           *)
LEMMA DeliveryOverwritesNothingStep ==
    ASSUME Inv, [Next]_vars, delivery' # delivery, dest' # dest
    PROVE  Free
<1>1. PICK p \in Deliverer : Deliver(p)
  BY DEF Next, UserActs, StagingReplaced, Create, Regenerate, Copy, deliveryVars, vars
<1> QED BY <1>1, ToolsAssumption, DeliveryNeedsRoom DEF Deliver

(* A step of a regeneration that leaves what is there where somebody still *)
(* finds it.                                                               *)
LEMMA PlacesKept ==
    ASSUME \A d \in Places \ {None, Absent, {}} : d \in Places'
    PROVE  (Work => Work') /\ (Project => Project')
BY DEF Work, Project

LEMMA RegenerationKeepsStep ==
    ASSUME Inv, [Next]_vars, NEW p \in Process, regen'[p] # regen[p], acts = regen[p].acts
    PROVE  (Work => Work') /\ (Project => Project')
<1>1. RegenerationStep(p) /\ creation[p].at = "idle"
  BY WhoRegenerates
<1>2. /\ regen \in [Process -> Regeneration] /\ regen[p] \in Regeneration
      /\ dest \in Directory
  BY RegTyped, DelTyped DEF Inv
<1>3. \A q \in Process \ {p} : regen'[q] = regen[q]
  BY <1>1, <1>2
  DEF RegenerationStep, PreparePermit, ConsumePermit, RegenFails, Replan, GenerateCandidate,
      EnterExchange, MoveAside, MoveIn, PutBack, PurgeBackup, CrashInRegeneration, GoRegen,
      EndRegen
<1>4. left \subseteq left'
  BY <1>1
  DEF RegenerationStep, PreparePermit, ConsumePermit, RegenFails, Replan, GenerateCandidate,
      EnterExchange, MoveAside, MoveIn, PutBack, PurgeBackup, CrashInRegeneration
<1>5. ASSUME dest \in Places' \cup {None, Absent, {}},
             regen[p].backup \in Places' \cup {None, Absent, {}}
      PROVE  (Work => Work') /\ (Project => Project')
  <2>1. \A d \in Places \ {None, Absent, {}} : d \in Places'
    BY <1>3, <1>4, <1>5 DEF Places
  <2> QED BY <2>1, PlacesKept
<1>6. ASSUME dest' = dest, regen'[p].backup = regen[p].backup \/ regen[p].backup = None
      PROVE  (Work => Work') /\ (Project => Project')
  <2>1. dest \in Places' /\ regen[p].backup \in Places' \cup {None}
    BY <1>6 DEF Places
  <2> QED BY <1>5, <2>1
<1>7. CASE \E g \in Permit : PreparePermit(p, g) \/ ConsumePermit(p, g)
  <2>1. dest' = dest /\ regen[p].backup = None
    BY <1>7 DEF Inv, BackupInv, PreparePermit, ConsumePermit, destVars
  <2> QED BY <1>6, <2>1
<1>8. CASE RegenFails(p) \/ Replan(p) \/ GenerateCandidate(p) \/ EnterExchange(p)
  <2>1. dest' = dest /\ regen[p].backup = None
    BY <1>8
    DEF Inv, BackupInv, RegenFails, Replan, GenerateCandidate, EnterExchange, destVars
  <2> QED BY <1>6, <2>1
<1>9. CASE MoveAside(p)
  <2>1. regen[p].backup = None
    BY <1>9 DEF Inv, BackupInv, MoveAside
  <2>2. CASE dest' = dest
    BY <1>6, <2>1, <2>2
  <2>3. CASE regen' = [regen EXCEPT ![p].at = "in", ![p].backup = dest]
    <3>1. regen'[p].backup = dest
      BY <1>2, <2>3 DEF Regeneration
    <3>2. dest \in Places'
      BY <3>1 DEF Places
    <3> QED BY <1>5, <2>1, <3>2
  <2> QED BY <1>9, <2>2, <2>3 DEF MoveAside
<1>10. CASE MoveIn(p)
  <2>1. regen'[p].backup = regen[p].backup
    BY <1>2, <1>10 DEF MoveIn, GoRegen, Regeneration
  <2>2. dest' = dest \/ dest \in {Absent, {}}
    BY <1>10 DEF MoveIn, RenameOnto, Free
  <2>3. dest \in Places' \cup {None, Absent, {}} /\ regen[p].backup \in Places'
    BY <2>1, <2>2 DEF Places
  <2> QED BY <1>5, <2>3
<1>11. CASE PutBack(p)
  <2>1. dest' = dest \/ dest \in {Absent, {}}
    BY <1>11 DEF PutBack, RenameOnto, Free
  <2>2. dest' = regen[p].backup \/ regen[p].backup \in left'
    BY <1>11 DEF PutBack, RenameOnto
  <2>3. /\ dest \in Places' \cup {None, Absent, {}}
        /\ regen[p].backup \in Places'
    BY <2>1, <2>2 DEF Places
  <2> QED BY <1>5, <2>3
<1>12. ASSUME regen[p].at = "purge", dest' = dest
       PROVE  (Work => Work') /\ (Project => Project')
  <2>1. dest = Candidate(p) /\ regen[p].backup = Saw(p)
    BY <1>12 DEF Inv, ExchangeInv
  <2>2. /\ dest \in SUBSET Entry /\ Native(regen[p].id) \in dest
        /\ Native(regen[p].id).whole /\ Native(regen[p].id).cubemx
    BY <2>1, Candidates, RegTyped, EntryTypes, Entries DEF Inv
  <2>3. dest \in Places' \ {None, Absent}
    BY <1>12, <2>2, Directories DEF Places
  <2>4. Project'
    BY <2>2, <2>3 DEF Project
  <2>5. ASSUME Work PROVE Work'
    <3>1. PICK d \in Places \ {None, Absent} : UserFile \in d
      BY <2>5 DEF Work
    <3>2. CASE d = regen[p].backup
      <4>1. UserFile \in dest
        BY <2>1, <3>1, <3>2 DEF Candidate
      <4> QED BY <2>3, <4>1 DEF Work
    <3>3. CASE d # regen[p].backup
      <4>1. d \in Places'
        BY <1>3, <1>4, <2>3, <3>1, <3>3 DEF Places
      <4> QED BY <3>1, <4>1 DEF Work
    <3> QED BY <3>2, <3>3
  <2> QED BY <2>4, <2>5
<1>13. CASE PurgeBackup(p)
  BY <1>12, <1>13 DEF PurgeBackup, destVars
<1>14. CASE CrashInRegeneration(p)
  <2>1. dest' = dest
    BY <1>14 DEF CrashInRegeneration, destVars
  <2>2. CASE regen[p].at = "purge"
    BY <1>12, <2>1, <2>2
  <2>3. CASE regen[p].at # "purge"
    <3>1. regen[p].backup \in left' \cup {None}
      BY <1>14, <2>3 DEF CrashInRegeneration
    <3>2. dest \in Places' /\ regen[p].backup \in Places' \cup {None}
      BY <2>1, <3>1 DEF Places
    <3> QED BY <1>5, <3>2
  <2> QED BY <2>2, <2>3
<1> QED BY <1>1, <1>7, <1>8, <1>9, <1>10, <1>11, <1>13, <1>14 DEF RegenerationStep

(* migration/delivery.py and regeneration_workflows.py: a delivery changes *)
(* only an absent or empty destination, and a regeneration leaves the      *)
(* user's files and the project where somebody finds them.                 *)
THEOREM OthersAreKept == Spec => OthersKept
<1>1. Inv /\ [Next]_vars => [(delivery' # delivery /\ dest' # dest) => Free]_vars
  BY DeliveryOverwritesNothingStep
<1>2. Inv /\ [Next]_vars =>
          [\A p \in Process : regen'[p] # regen[p] /\ acts = regen[p].acts =>
              (Work => Work') /\ (Project => Project')]_vars
  BY RegenerationKeepsStep
<1>3. Spec => DeliveryOverwritesNothing
  BY <1>1, Invariance, PTL DEF Spec, DeliveryOverwritesNothing
<1>4. Spec => RegenerationKeeps
  BY <1>2, Invariance, PTL DEF Spec, RegenerationKeeps
<1> QED BY <1>3, <1>4 DEF OthersKept
================================================================================
