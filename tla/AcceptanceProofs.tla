--------------------------- MODULE AcceptanceProofs ---------------------------
(***************************************************************************)
(* What holds of an acceptance attempt and of its finalization, for every  *)
(* number of callers, of changes and of sessions: every chain of roots can *)
(* be loaded again, what completes is a fix, whoever was told of a stage   *)
(* asked for what is recorded, and a physical authorization is given to    *)
(* the diagnosis that was checked.                                         *)
(*                                                                         *)
(* Roots, proofs and diagnoses only grow (Grows).  A caller therefore      *)
(* loses what it found only where it holds a lock for it: the lock of the  *)
(* evidence store for what comes next, the lock of the diagnostic store    *)
(* for a diagnosis that has not moved on (Respects).                       *)
(***************************************************************************)
EXTENDS AcceptanceFinalization, TLAPS

(* The steps of a stage, before its output is there and after, and those   *)
(* of a finalization.                                                      *)
Before == {"build", "inputs", "check"}
After == {"publish", "confirm", "root"}
Closing == {"bind", "prove", "bound", "held", "stamped", "answer"}
Steps == {"idle"} \cup Before \cup After \cup Closing

Calls == [at : Steps, rev : Revision, arg : Change \cup {None} \cup Proof,
          s : Sessions \cup {None}, build : Change \cup {None},
          inputs : Change \cup {None}, new : Snapshot \cup (0 .. MaxClock) \cup {None}]

Tellings == [rev : 0 .. 9, arg : Change \cup {None} \cup Proof, s : Sessions \cup {None}]

Finals == [proof : Proof, stamp : 0 .. MaxClock]

(* Every variable has a value of its kind.                                 *)
Kinds ==
    /\ log \in [Sessions -> Seq(Event)]
    /\ adapter \in {"replay", "physical"} /\ clock \in 0 .. MaxClock
    /\ source \in Change /\ firmware \in Change \cup {None} /\ runs \subseteq Run
    /\ roots \in [Revision -> Snapshot \cup {None}]
    /\ evidence \in Client \cup {None} /\ diagnosis \in Client \cup {None}
    /\ call \in [Client -> Calls]
    /\ told \in [Client -> Tellings \cup {None}]
    /\ proofs \in SUBSET Proof
    /\ final \in [{0, 1} -> Finals \cup {None}]

--------------------------------------------------------------------------------
(* What the outputs of an attempt stand for, as far as there are any.      *)
Built(out) == Len(out) >= 2 => out[2] \in [build : Change, inputs : Change]

Failed(out) ==
    Len(out) >= 3 => /\ out[3] \in [run : Change] /\ out[3].run = out[2].build
                     /\ [build |-> out[3].run, passed |-> FALSE] \in runs

Undeclared(out) ==
    Len(out) >= 4 => /\ out[4] \in [session : Sessions, revision : Nat,
                                    intent : Change \cup {None}]
                     /\ SessionOf(out, out[4].session)
                     /\ out[4].revision <= Len(log[out[4].session])
                     /\ \A i \in 1 .. out[4].revision :
                            log[out[4].session][i].type # "declared"

Authorized(out) ==
    Len(out) >= 5 => out[5].revision = out[4].revision

Declares(out) ==
    Len(out) >= 6 => /\ out[6] \in [build : Change, inputs : Change]
                     /\ out[6].build # out[2].build
                     /\ \E i \in 1 .. Len(log[out[4].session]) :
                            /\ i > out[4].revision
                            /\ log[out[4].session][i].type = "declared"
                            /\ log[out[4].session][i].arg = out[6].build
                     /\ adapter = "physical" => out[6].build = out[4].intent

Fixes(out, run) ==
    /\ run = out[6].build /\ [build |-> run, passed |-> TRUE] \in runs
    /\ In(log[out[4].session], "RESOLVED") /\ Newest(log[out[4].session]).arg = run

Completed(out) == Len(out) >= 7 => out[7] \in [run : Change] /\ Fixes(out, out[7].run)

Supports(out) ==
    /\ Built(out) /\ Failed(out) /\ Undeclared(out)
    /\ Authorized(out) /\ Declares(out) /\ Completed(out)

(* The roots are a chain without a hole, each with the outputs up to it.   *)
ChainInv ==
    /\ ChainLoads
    /\ \A r \in Revision, x \in Snapshot : roots[r] = x =>
           Len(x.out) = r /\ x.stamp <= clock /\ Supports(x.out)

(* The stage that comes next is that of revision rev.                      *)
IsNext(rev) == \A r \in Revision : roots[r] # None <=> r < rev

OutputFits(k) ==
    /\ k.rev \in {3, 7} => k.new.out[k.rev].run = k.arg
    /\ k.rev = 4 => k.new.out[4].session = k.s /\ k.new.out[4].intent = k.arg

(* A call for a stage stands on the root before it.                        *)
StandsOn(k) ==
    /\ k.new \in Snapshot /\ k.new.stamp <= clock
    /\ k.rev # 0 => /\ roots[k.rev - 1] # None
                    /\ k.new.stamp \in roots[k.rev - 1].stamp .. roots[k.rev - 1].stamp + Timeout
    /\ k.at \in Before => k.new.out = IF k.rev = 0 THEN <<>> ELSE roots[k.rev - 1].out
    /\ k.at \in Before /\ k.rev \in {3, 7} => k.arg \in Change
    /\ k.at \in Before /\ k.rev = 4 => k.s \in Sessions /\ k.arg \in Change \cup {None}
    /\ k.at \in {"build", "inputs"} => k.rev \in {2, 6}
    /\ k.at = "inputs" => k.build \in Change
    /\ k.at = "check" /\ k.rev \in {2, 6} => k.build \in Change /\ k.inputs \in Change
    /\ k.at \in After =>
          /\ Len(k.new.out) = k.rev /\ Supports(k.new.out) /\ OutputFits(k)
          /\ k.rev # 0 => k.new.out = Append(roots[k.rev - 1].out, k.new.out[k.rev])

(* A physical authorization keeps the diagnosis as it was when it was      *)
(* checked.                                                                *)
Frozen(k, c) ==
    LocksDiagnosis(k) =>
        /\ diagnosis = c
        /\ k.at \in After => Len(log[k.new.out[4].session]) = k.new.out[4].revision

StageInv(k, c) ==
    /\ k.at \in Before \cup After => StandsOn(k) /\ Frozen(k, c)
    /\ k.at \in {"confirm", "root"} => evidence = c /\ IsNext(k.rev)

(* What a proof stands for.                                                *)
Proven(p) ==
    /\ roots[6] # None
    /\ Fixes(roots[6].out, p.run) /\ Len(log[roots[6].out[4].session]) = p.revision

ClosingInv(k, c) ==
    /\ k.at \in Closing => adapter = "physical" /\ k.arg \in Proof
    /\ k.at \in {"bind", "prove"} => Proven(k.arg) /\ diagnosis = c /\ k.rev = 0
    /\ k.at \in {"prove", "stamped"} => evidence = c
    /\ k.at \in {"bound", "held", "stamped"} =>
          /\ k.rev \in {0, 1} /\ k.arg \in proofs
          /\ k.rev = 1 => Matches(k.arg, 0)
    /\ k.at \in {"held", "stamped"} => diagnosis = c
    /\ k.at = "stamped" => /\ final[k.rev] = None /\ k.new \in 0 .. clock
                           /\ k.rev = 1 => k.new \in final[0].stamp .. final[0].stamp + Window
    /\ k.at = "answer" => k.rev \in {0, 1} /\ Matches(k.arg, k.rev)

CallInv ==
    \A c \in Client, k \in Calls : call[c] = k => StageInv(k, c) /\ ClosingInv(k, c)

FinalInv ==
    /\ final[0] # None => final[0].proof \in proofs /\ final[0].stamp <= clock
    /\ final[1] # None => /\ final[0] # None /\ final[1].proof = final[0].proof
                          /\ final[1].stamp \in final[0].stamp .. final[0].stamp + Window

(* Whoever proves an attempt, or has, finds it at its end: it cannot go on. *)
Proving == proofs # {} \/ \E c \in Client : call[c].at = "prove"

EndInv ==
    /\ Proving => adapter = "physical" /\ Ended /\ \A c \in Client : call[c].at # "root"
    /\ \A p \in proofs : Proven(p)

Recorded(t) ==
    /\ t.rev \in Revision =>
          /\ roots[t.rev] # None
          /\ t.rev \in {3, 7} => roots[t.rev].out[t.rev].run = t.arg
          /\ t.rev = 4 => roots[4].out[4].session = t.s /\ roots[4].out[4].intent = t.arg
    /\ t.rev \in {8, 9} => Matches(t.arg, t.rev - 8)

TellInv == \A c \in Client, t \in Tellings : told[c] = t /\ t # None => Recorded(t)

IInv == Kinds /\ ChainInv /\ CallInv /\ FinalInv /\ EndInv /\ TellInv

--------------------------------------------------------------------------------
(* What a step leaves to everybody, and what it leaves to caller c.        *)
GrowsLog ==
    \A s \in Sessions :
        /\ Len(log[s]) <= Len(log'[s])
        /\ \A i \in 1 .. Len(log[s]) : log'[s][i] = log[s][i]
        /\ In(log[s], "RESOLVED") => log'[s] = log[s]

Grows ==
    /\ adapter' = adapter /\ clock <= clock' /\ runs \subseteq runs'
    /\ GrowsLog
    /\ \A r \in Revision : roots[r] # None => roots'[r] = roots[r]
    /\ proofs \subseteq proofs'
    /\ \A rev \in {0, 1} : final[rev] # None => final'[rev] = final[rev]

Respects(c) ==
    /\ evidence = c => evidence' = c /\ roots' = roots /\ final' = final
    /\ diagnosis = c => diagnosis' = c /\ log' = log

--------------------------------------------------------------------------------
(* The newest revision, and what the ones before it are.                   *)
LEMMA LatestIs ==
    ASSUME Kinds, ChainLoads, Published # {}
    PROVE  /\ Latest \in Revision /\ roots[Latest] # None
           /\ \A r \in Revision : roots[r] # None <=> r <= Latest
<1>0. \A r \in 1 .. 7 : roots[r] # None => roots[r - 1] # None
  BY DEF ChainLoads, Published, Revision
<1>1. /\ roots[7] # None => roots[6] # None
      /\ roots[6] # None => roots[5] # None
      /\ roots[5] # None => roots[4] # None
      /\ roots[4] # None => roots[3] # None
      /\ roots[3] # None => roots[2] # None
      /\ roots[2] # None => roots[1] # None
      /\ roots[1] # None => roots[0] # None
  BY <1>0
<1>2. \A r \in Revision : r \in {0, 1, 2, 3, 4, 5, 6, 7}
  BY DEF Revision
<1>3. \E m \in Published : \A x \in Published : x <= m
  BY <1>1, <1>2 DEF Published, Revision
<1>4. Latest \in Published /\ \A x \in Published : x <= Latest
  BY <1>3 DEF Latest
<1>5. \A m, r \in Revision : roots[m] # None /\ r <= m => roots[r] # None
  BY <1>1, <1>2
<1> QED BY <1>4, <1>5 DEF Published

LEMMA EndIs ==
    ASSUME Kinds, ChainLoads, Published = 0 .. 6
    PROVE  Latest = 6 /\ roots[6] # None /\ roots[7] = None
<1>1. Published # {} /\ 6 \in Published /\ 7 \notin Published /\ 7 \in Revision /\ 6 \in Revision
  BY DEF Revision
<1>2. Latest \in Published /\ 6 <= Latest
  BY <1>1, LatestIs DEF Published
<1>3. Latest = 6
  BY <1>2
<1> QED BY <1>1, <1>3 DEF Published

--------------------------------------------------------------------------------
(* What was true of a diagnosis and of the runs stays true.                *)
LEMMA FixesGrow ==
    ASSUME Kinds, Grows, NEW out, NEW run, out[4].session \in Sessions, Fixes(out, run)
    PROVE  Fixes(out, run)' /\ log'[out[4].session] = log[out[4].session]
BY DEF Grows, GrowsLog, Fixes

LEMMA SessionGrows ==
    ASSUME Kinds, Grows, NEW out, NEW s \in Sessions, SessionOf(out, s)
    PROVE  SessionOf(out, s)'
<1>1. log[s] \in Seq(Event) /\ Len(log[s]) \in Nat /\ Len(log[s]) # 0
  BY DEF Kinds, SessionOf
<1>2. Len(log'[s]) # 0 /\ log'[s][1] = log[s][1]
  BY <1>1, 1 \in 1 .. Len(log[s]) DEF Grows, GrowsLog
<1>3. log'[s] # <<>>
  BY <1>2
<1> QED BY <1>2, <1>3 DEF SessionOf

LEMMA SupportsGrow ==
    ASSUME Kinds, Kinds', Grows, NEW out \in Seq(Output), Supports(out)
    PROVE  Supports(out)'
<1>0. Len(out) \in Nat
  OBVIOUS
<1>1. Built(out)'
  BY DEF Supports, Built
<1>2. Failed(out)'
  BY DEF Supports, Failed, Grows
<1>3. ASSUME Len(out) >= 4
      PROVE  /\ out[4].session \in Sessions /\ out[4].revision \in Nat
             /\ out[4].revision <= Len(log[out[4].session])
             /\ Len(log[out[4].session]) \in Nat /\ Len(log'[out[4].session]) \in Nat
             /\ Len(log[out[4].session]) <= Len(log'[out[4].session])
             /\ \A i \in 1 .. Len(log[out[4].session]) :
                    log'[out[4].session][i] = log[out[4].session][i]
  <2>1. out[4].session \in Sessions /\ out[4].revision \in Nat
        /\ out[4].revision <= Len(log[out[4].session])
    BY <1>3 DEF Supports, Undeclared
  <2>2. log[out[4].session] \in Seq(Event) /\ log'[out[4].session] \in Seq(Event)
    BY <2>1 DEF Kinds
  <2> QED BY <2>1, <2>2 DEF Grows, GrowsLog
<1>4. Undeclared(out)'
  <2> SUFFICES ASSUME Len(out) >= 4
               PROVE  /\ out[4] \in [session : Sessions, revision : Nat,
                                     intent : Change \cup {None}]
                      /\ SessionOf(out, out[4].session)'
                      /\ out[4].revision <= Len(log'[out[4].session])
                      /\ \A i \in 1 .. out[4].revision :
                             log'[out[4].session][i].type # "declared"
    BY DEF Undeclared
  <2>1. out[4] \in [session : Sessions, revision : Nat, intent : Change \cup {None}]
        /\ SessionOf(out, out[4].session)
        /\ \A i \in 1 .. out[4].revision : log[out[4].session][i].type # "declared"
    BY DEF Supports, Undeclared
  <2>2. SessionOf(out, out[4].session)'
    BY <2>1, <1>3, SessionGrows
  <2>3. out[4].revision <= Len(log'[out[4].session])
    BY <1>3
  <2>4. ASSUME NEW i \in 1 .. out[4].revision
        PROVE  log'[out[4].session][i].type # "declared"
    <3>1. i \in 1 .. Len(log[out[4].session])
      BY <1>3
    <3> QED BY <2>1, <3>1, <1>3
  <2> QED BY <2>1, <2>2, <2>3, <2>4
<1>5. Authorized(out)'
  BY DEF Supports, Authorized
<1>6. Declares(out)'
  <2> SUFFICES ASSUME Len(out) >= 6
               PROVE  /\ out[6] \in [build : Change, inputs : Change]
                      /\ out[6].build # out[2].build
                      /\ \E i \in 1 .. Len(log'[out[4].session]) :
                             /\ i > out[4].revision
                             /\ log'[out[4].session][i].type = "declared"
                             /\ log'[out[4].session][i].arg = out[6].build
                      /\ adapter' = "physical" => out[6].build = out[4].intent
    BY DEF Declares
  <2>1. /\ out[6] \in [build : Change, inputs : Change]
        /\ out[6].build # out[2].build
        /\ adapter = "physical" => out[6].build = out[4].intent
    BY DEF Supports, Declares
  <2>2. PICK i \in 1 .. Len(log[out[4].session]) :
             /\ i > out[4].revision
             /\ log[out[4].session][i].type = "declared"
             /\ log[out[4].session][i].arg = out[6].build
    BY DEF Supports, Declares
  <2>3. i \in 1 .. Len(log'[out[4].session]) /\ log'[out[4].session][i] = log[out[4].session][i]
    BY <1>3, <1>0
  <2> QED BY <2>1, <2>2, <2>3 DEF Grows
<1>7. Completed(out)'
  BY <1>0, <1>3, FixesGrow DEF Supports, Completed
<1> QED BY <1>1, <1>2, <1>4, <1>5, <1>6, <1>7 DEF Supports

(* A root that is published, as the invariant has it.                      *)
LEMMA RootIs ==
    ASSUME Kinds, ChainInv, NEW r \in Revision, roots[r] # None
    PROVE  /\ roots[r] \in Snapshot /\ roots[r].stamp \in Nat /\ roots[r].out \in Seq(Output)
           /\ Len(roots[r].out) = r /\ roots[r].stamp <= clock /\ Supports(roots[r].out)
<1>2. roots[r] \in Snapshot
  BY DEF Kinds
<1>3. roots[r].stamp \in Nat /\ roots[r].out \in Seq(Output)
  BY <1>2, AttemptAssumption DEF Snapshot
<1> QED BY <1>2, <1>3 DEF ChainInv

LEMMA SixthIs ==
    ASSUME Kinds, ChainInv, roots[6] # None
    PROVE  roots[6].out[4].session \in Sessions
<1>1. Len(roots[6].out) = 6 /\ Supports(roots[6].out)
  BY RootIs DEF Revision
<1>2. Undeclared(roots[6].out) /\ Len(roots[6].out) >= 4
  BY <1>1 DEF Supports
<1>3. roots[6].out[4] \in [session : Sessions, revision : Nat, intent : Change \cup {None}]
  BY <1>2 DEF Undeclared
<1> QED BY <1>3

LEMMA ProvenGrows ==
    ASSUME Kinds, ChainInv, Grows, NEW p, Proven(p)
    PROVE  Proven(p)'
<1>1. roots[6] # None /\ roots'[6] = roots[6]
  BY DEF Proven, Grows, Revision
<1>2. roots[6].out[4].session \in Sessions
  BY <1>1, SixthIs
<1>3. Fixes(roots[6].out, p.run)
  BY DEF Proven
<1>4. Fixes(roots[6].out, p.run)' /\ log'[roots[6].out[4].session] = log[roots[6].out[4].session]
  BY <1>1, <1>2, <1>3 DEF Grows, GrowsLog, Fixes
<1> QED BY <1>1, <1>4 DEF Proven

--------------------------------------------------------------------------------
(* What a caller found is still so after a step of another one.            *)
LEMMA StandsStill ==
    ASSUME Kinds, Kinds', Grows, NEW k \in Calls, k.at \in Before \cup After, StandsOn(k)
    PROVE  StandsOn(k)'
<1>1. clock \in Nat /\ clock' \in Nat /\ clock <= clock'
  BY AttemptAssumption DEF Kinds, Grows
<1>2. k.new \in Snapshot /\ k.new.stamp <= clock
  BY DEF StandsOn
<1>3. k.new.stamp \in Nat /\ k.new.out \in Seq(Output)
  BY <1>2, AttemptAssumption DEF Snapshot
<1>4. k.new.stamp <= clock'
  BY <1>1, <1>2, <1>3
<1>5. k.rev # 0 => roots[k.rev - 1] # None /\ roots'[k.rev - 1] = roots[k.rev - 1]
  <2> SUFFICES ASSUME k.rev # 0
               PROVE  roots[k.rev - 1] # None /\ roots'[k.rev - 1] = roots[k.rev - 1]
    OBVIOUS
  <2>1. k.rev - 1 \in Revision
    BY DEF Calls, Revision
  <2>2. roots[k.rev - 1] # None
    BY DEF StandsOn
  <2> QED BY <2>1, <2>2 DEF Grows
<1>6. k.at \in After => Supports(k.new.out)'
  BY <1>3, SupportsGrow DEF StandsOn
<1> QED BY <1>2, <1>4, <1>5, <1>6 DEF StandsOn, OutputFits

LEMMA FrozenStays ==
    ASSUME Kinds, Grows, NEW k \in Calls, NEW c \in Client, Respects(c), Frozen(k, c)
    PROVE  Frozen(k, c)'
<1>1. adapter' = adapter
  BY DEF Grows
<1> SUFFICES ASSUME LocksDiagnosis(k)
             PROVE  /\ diagnosis' = c
                    /\ k.at \in After =>
                           Len(log'[k.new.out[4].session]) = k.new.out[4].revision
  BY <1>1 DEF Frozen, LocksDiagnosis
<1>2. diagnosis' = c /\ log' = log
  BY DEF Frozen, Respects
<1> QED BY <1>2 DEF Frozen

LEMMA StageStays ==
    ASSUME Kinds, Kinds', Grows, NEW c \in Client, Respects(c), NEW k \in Calls,
           StageInv(k, c)
    PROVE  StageInv(k, c)'
<1>1. k.at \in Before \cup After => StandsOn(k)' /\ Frozen(k, c)'
  BY StandsStill, FrozenStays DEF StageInv
<1>2. k.at \in {"confirm", "root"} => evidence' = c /\ IsNext(k.rev)'
  BY DEF StageInv, Respects, IsNext
<1> QED BY <1>1, <1>2 DEF StageInv

LEMMA MatchesStays ==
    ASSUME Grows, NEW p, NEW rev \in {0, 1}, Matches(p, rev)
    PROVE  Matches(p, rev)' /\ final'[rev] = final[rev]
BY DEF Grows, Matches

LEMMA ClosingStays ==
    ASSUME Kinds, Kinds', ChainInv, Grows, NEW c \in Client, Respects(c), NEW k \in Calls,
           ClosingInv(k, c)
    PROVE  ClosingInv(k, c)'
<1>1. k.at \in Closing => adapter' = "physical" /\ k.arg \in Proof
  BY DEF ClosingInv, Grows
<1>2. k.at \in {"bind", "prove"} => Proven(k.arg)' /\ diagnosis' = c /\ k.rev = 0
  BY ProvenGrows DEF ClosingInv, Respects
<1>3. k.at \in {"prove", "stamped"} => evidence' = c
  BY DEF ClosingInv, Respects
<1>4. k.at \in {"bound", "held", "stamped"} =>
          /\ k.rev \in {0, 1} /\ k.arg \in proofs'
          /\ k.rev = 1 => Matches(k.arg, 0)'
  BY MatchesStays DEF ClosingInv, Grows
<1>5. k.at \in {"held", "stamped"} => diagnosis' = c
  BY DEF ClosingInv, Respects
<1>6. k.at = "stamped" =>
          /\ final'[k.rev] = None /\ k.new \in 0 .. clock'
          /\ k.rev = 1 => k.new \in final'[0].stamp .. final'[0].stamp + Window
  <2> SUFFICES ASSUME k.at = "stamped"
               PROVE  /\ final'[k.rev] = None /\ k.new \in 0 .. clock'
                      /\ k.rev = 1 => k.new \in final'[0].stamp .. final'[0].stamp + Window
    OBVIOUS
  <2>1. final' = final
    BY DEF ClosingInv, Respects
  <2>2. k.new \in 0 .. clock /\ clock \in Nat /\ clock' \in Nat /\ clock <= clock'
    BY AttemptAssumption DEF ClosingInv, Kinds, Grows
  <2>3. k.new \in 0 .. clock'
    BY <2>2
  <2> QED BY <2>1, <2>3 DEF ClosingInv
<1>7. k.at = "answer" => k.rev \in {0, 1} /\ Matches(k.arg, k.rev)'
  BY MatchesStays DEF ClosingInv
<1> QED BY <1>1, <1>2, <1>3, <1>4, <1>5, <1>6, <1>7 DEF ClosingInv

(* One caller moves: the others find what they found.                      *)
LEMMA OneMoves ==
    ASSUME Kinds, Kinds', ChainInv, CallInv, Grows, NEW c \in Client,
           \A o \in Client \ {c} : call'[o] = call[o] /\ Respects(o),
           \A k \in Calls : call'[c] = k => StageInv(k, c)' /\ ClosingInv(k, c)'
    PROVE  CallInv'
<1> SUFFICES ASSUME NEW o \in Client, NEW k \in Calls, call'[o] = k
             PROVE  StageInv(k, o)' /\ ClosingInv(k, o)'
  BY DEF CallInv
<1>1. CASE o = c
  BY <1>1
<1>2. CASE o # c
  <2>1. call[o] = k /\ Respects(o)
    BY <1>2
  <2>2. StageInv(k, o) /\ ClosingInv(k, o)
    BY <2>1 DEF CallInv
  <2> QED BY <2>1, <2>2, StageStays, ClosingStays
<1> QED BY <1>1, <1>2

LEMMA NoneMoves ==
    ASSUME Kinds, Kinds', ChainInv, CallInv, Grows, call' = call, \A o \in Client : Respects(o)
    PROVE  CallInv'
<1> SUFFICES ASSUME NEW o \in Client, NEW k \in Calls, call'[o] = k
             PROVE  StageInv(k, o)' /\ ClosingInv(k, o)'
  BY DEF CallInv
<1>1. StageInv(k, o) /\ ClosingInv(k, o)
  BY DEF CallInv
<1> QED BY <1>1, StageStays, ClosingStays

LEMMA ChainStays ==
    ASSUME Kinds, Kinds', ChainInv, Grows, roots' = roots
    PROVE  ChainInv'
<1>1. ChainLoads'
  BY DEF ChainInv, ChainLoads, Published
<1>2. ASSUME NEW r \in Revision, NEW x \in Snapshot, roots'[r] = x
      PROVE  Len(x.out) = r /\ x.stamp <= clock' /\ Supports(x.out)'
  <2>1. Len(x.out) = r /\ x.stamp <= clock /\ Supports(x.out)
    BY <1>2 DEF ChainInv
  <2>2. x.out \in Seq(Output) /\ x.stamp \in Nat /\ clock \in Nat /\ clock' \in Nat
    BY AttemptAssumption DEF Snapshot, Kinds
  <2>3. x.stamp <= clock'
    BY <2>1, <2>2 DEF Grows
  <2> QED BY <2>1, <2>2, <2>3, SupportsGrow
<1> QED BY <1>1, <1>2 DEF ChainInv

LEMMA FinalStays ==
    ASSUME Kinds, Kinds', FinalInv, Grows, final' = final
    PROVE  FinalInv'
<1>1. final[0] # None => final[0] \in Finals
  BY DEF Kinds
<1>2. final[0] # None => final[0].stamp \in Nat
  BY <1>1, AttemptAssumption DEF Finals
<1>3. clock \in Nat /\ clock' \in Nat /\ clock <= clock'
  BY AttemptAssumption DEF Kinds, Grows
<1>4. final[0] # None => final[0].proof \in proofs' /\ final[0].stamp <= clock'
  BY <1>2, <1>3 DEF FinalInv, Grows
<1> QED BY <1>4 DEF FinalInv

LEMMA EndedStays ==
    ASSUME Kinds, Kinds', ChainInv, Grows, roots' = roots, Ended
    PROVE  Ended'
<1>1. roots[6] \in Snapshot
  BY EndIs DEF Kinds, Ended, ChainInv, Revision
<1>2. roots[6].stamp \in Nat /\ clock \in Nat /\ clock' \in Nat /\ clock <= clock'
  BY <1>1, AttemptAssumption DEF Snapshot, Kinds, Grows
<1>3. Timeout \in Nat
  BY AttemptAssumption
<1>4. Published' = Published
  BY DEF Published
<1> QED BY <1>2, <1>3, <1>4 DEF Ended

LEMMA EndStays ==
    ASSUME Kinds, Kinds', ChainInv, EndInv, Grows, roots' = roots, proofs' = proofs,
           \A o \in Client : call'[o].at = "prove" => call[o].at = "prove",
           \A o \in Client : Proving /\ call'[o].at = "root" => call[o].at = "root"
    PROVE  EndInv'
<1>1. Proving' => Proving
  BY DEF Proving
<1>2. Proving => adapter' = "physical" /\ Ended' /\ \A o \in Client : call'[o].at # "root"
  BY EndedStays DEF EndInv, Grows
<1>3. \A p \in proofs' : Proven(p)'
  BY ProvenGrows DEF EndInv
<1> QED BY <1>1, <1>2, <1>3 DEF EndInv

LEMMA RecordedStays ==
    ASSUME Grows, NEW t \in Tellings, Recorded(t)
    PROVE  Recorded(t)'
<1>1. t.rev \in Revision => roots[t.rev] # None /\ roots'[t.rev] = roots[t.rev]
  BY DEF Recorded, Grows
<1>2. t.rev = 4 => 4 \in Revision
  BY DEF Revision
<1>3. t.rev \in {8, 9} => Matches(t.arg, t.rev - 8)'
  <2> SUFFICES ASSUME t.rev \in {8, 9}
               PROVE  Matches(t.arg, t.rev - 8)'
    OBVIOUS
  <2>1. t.rev - 8 \in {0, 1} /\ Matches(t.arg, t.rev - 8)
    BY DEF Recorded
  <2> QED BY <2>1 DEF Matches, Grows
<1> QED BY <1>1, <1>2, <1>3 DEF Recorded

(* No one is told anything, except caller c.                               *)
LEMMA TellStays ==
    ASSUME TellInv, Grows, NEW c \in Client,
           \A o \in Client \ {c} : told'[o] = told[o],
           \A t \in Tellings : told'[c] = t /\ t # None => Recorded(t)'
    PROVE  TellInv'
<1> SUFFICES ASSUME NEW o \in Client, NEW t \in Tellings, told'[o] = t, t # None
             PROVE  Recorded(t)'
  BY DEF TellInv
<1>1. CASE o = c
  BY <1>1
<1>2. CASE o # c
  BY <1>2, RecordedStays DEF TellInv
<1> QED BY <1>1, <1>2

--------------------------------------------------------------------------------
(* What the steps around the attempt leave.                                *)
LEMMA AroundKeeps ==
    ASSUME IInv, Kinds', Grows, UNCHANGED <<attempt, finalization>>,
           diagnosis # None => log' = log
    PROVE  IInv'
<1>1. Kinds /\ ChainInv /\ CallInv /\ FinalInv /\ EndInv /\ TellInv
  BY DEF IInv
<1>2. /\ roots' = roots /\ evidence' = evidence /\ diagnosis' = diagnosis
      /\ call' = call /\ told' = told /\ proofs' = proofs /\ final' = final
  BY DEF attempt, finalization
<1>3. \A o \in Client : Respects(o)
  BY <1>2, AttemptAssumption DEF Respects
<1>4. CallInv'
  BY <1>1, <1>2, <1>3, NoneMoves
<1>5. TellInv'
  BY <1>1, <1>2, RecordedStays DEF TellInv
<1>6. ChainInv' /\ FinalInv'
  BY <1>1, <1>2, ChainStays, FinalStays
<1>7. EndInv'
  BY <1>1, <1>2, EndStays
<1> QED BY <1>4, <1>5, <1>6, <1>7 DEF IInv

(* A step that leaves the diagnoses, the runs, the roots and the           *)
(* finalization as they are takes nothing from anybody.                    *)
LEMMA QuietGrows ==
    ASSUME Kinds, UNCHANGED <<log, adapter, clock, runs, roots, finalization>>
    PROVE  Grows
<1>1. \A s \in Sessions : Len(log[s]) \in Nat /\ log[s] \in Seq(Event)
  BY DEF Kinds
<1>2. GrowsLog
  BY <1>1 DEF GrowsLog
<1> QED BY <1>2, AttemptAssumption DEF Grows, Kinds, finalization

LEMMA TickKeeps ==
    ASSUME IInv, Tick, UNCHANGED finalization
    PROVE  IInv'
<1>1. Kinds
  BY DEF IInv
<1>2. Kinds'
  BY <1>1, AttemptAssumption DEF Kinds, Tick, project, attempt, finalization
<1>3. GrowsLog
  BY <1>1 DEF GrowsLog, Kinds, Tick
<1>4. Grows
  BY <1>1, <1>3, AttemptAssumption DEF Grows, Kinds, Tick, project, attempt, finalization
<1> QED BY <1>2, <1>4, AroundKeeps DEF Tick

LEMMA ProjectKeeps ==
    ASSUME IInv, Edit \/ Compile, UNCHANGED finalization
    PROVE  IInv'
<1>1. Kinds
  BY DEF IInv
<1>2. Kinds'
  BY <1>1 DEF Kinds, Edit, Compile, attempt, finalization
<1>3. Grows
  BY <1>1, QuietGrows DEF Edit, Compile, attempt
<1> QED BY <1>2, <1>3, AroundKeeps DEF Edit, Compile

LEMMA TestKeeps ==
    ASSUME IInv, TestTarget, UNCHANGED finalization
    PROVE  IInv'
<1>1. Kinds
  BY DEF IInv
<1>2. PICK passed \in BOOLEAN : runs' = runs \cup {[build |-> firmware, passed |-> passed]}
  BY DEF TestTarget
<1>3. [build |-> firmware, passed |-> passed] \in Run
  BY <1>1 DEF Kinds, TestTarget, Run
<1>4. runs' \subseteq Run /\ runs \subseteq runs'
  BY <1>1, <1>2, <1>3 DEF Kinds
<1>5. Kinds'
  BY <1>1, <1>4 DEF Kinds, TestTarget, attempt, finalization
<1>6. GrowsLog
  BY <1>1 DEF GrowsLog, Kinds, TestTarget
<1>7. Grows
  BY <1>1, <1>4, <1>6, AttemptAssumption DEF Grows, Kinds, TestTarget, attempt, finalization
<1> QED BY <1>5, <1>7, AroundKeeps DEF TestTarget

(* A diagnosis grows at its end, and one that is resolved stays as it is.  *)
LEMMA AddGrows ==
    ASSUME Kinds, NEW s \in Sessions, NEW e \in Event, Add(s, e)
    PROVE  log' \in [Sessions -> Seq(Event)] /\ GrowsLog
<1>1. log[s] \in Seq(Event) /\ log' = [log EXCEPT ![s] = Append(log[s], e)]
  BY DEF Kinds, Add
<1>2. log' \in [Sessions -> Seq(Event)]
  BY <1>1 DEF Kinds
<1>3. ~In(log[s], "RESOLVED")
  BY DEF Add, Accepts, In, OfActivePlan
<1>4. Len(log'[s]) = Len(log[s]) + 1 /\ \A i \in 1 .. Len(log[s]) : log'[s][i] = log[s][i]
  BY <1>1 DEF Kinds
<1>5. \A x \in Sessions \ {s} : log'[x] = log[x]
  BY <1>1 DEF Kinds
<1>6. \A x \in Sessions : Len(log[x]) \in Nat
  BY DEF Kinds
<1> QED BY <1>2, <1>3, <1>4, <1>5, <1>6 DEF GrowsLog

LEMMA DiagnoseKeeps ==
    ASSUME IInv, Diagnose, UNCHANGED finalization
    PROVE  IInv'
<1>1. Kinds
  BY DEF IInv
<1>2. PICK s \in Sessions, e \in Event : Add(s, e)
  BY DEF Diagnose
<1>3. log' \in [Sessions -> Seq(Event)] /\ GrowsLog
  BY <1>1, <1>2, AddGrows
<1>4. Kinds'
  BY <1>1, <1>3 DEF Kinds, Diagnose, project, attempt, finalization
<1>5. Grows
  BY <1>1, <1>3, AttemptAssumption DEF Grows, Kinds, Diagnose, project, attempt, finalization
<1> QED BY <1>4, <1>5, AroundKeeps DEF Diagnose

--------------------------------------------------------------------------------
(* A step of caller c that leaves all that is published, and after which   *)
(* it is at k: what the lemmas on the single steps use.                    *)
Moves(c, k) ==
    /\ UNCHANGED <<log, adapter, clock, project, roots, finalization>>
    /\ call' = [call EXCEPT ![c] = k]
    /\ evidence' \in Client \cup {None} /\ diagnosis' \in Client \cup {None}
    /\ \A o \in Client \ {c} : (evidence = o => evidence' = o) /\ (diagnosis = o => diagnosis' = o)
    /\ told' \in [Client -> Tellings \cup {None}]
    /\ \A o \in Client \ {c} : told'[o] = told[o]
    /\ \A t \in Tellings : told'[c] = t /\ t # None => Recorded(t)

LEMMA MoveGrows ==
    ASSUME Kinds, NEW c \in Client, NEW k \in Calls, Moves(c, k)
    PROVE  Kinds' /\ Grows /\ \A o \in Client \ {c} : call'[o] = call[o] /\ Respects(o)
<1>1. Kinds'
  BY DEF Kinds, Moves, project, finalization
<1>2. Grows
  BY QuietGrows DEF Moves, project
<1>3. \A o \in Client \ {c} : call'[o] = call[o] /\ Respects(o)
  BY DEF Kinds, Moves, Respects, finalization
<1> QED BY <1>1, <1>2, <1>3

LEMMA MoveLeaves ==
    ASSUME IInv, NEW c \in Client, NEW k \in Calls, Moves(c, k),
           StageInv(k, c)', ClosingInv(k, c)', EndInv'
    PROVE  IInv'
<1>1. Kinds /\ ChainInv /\ CallInv /\ FinalInv /\ TellInv
  BY DEF IInv
<1>2. Kinds' /\ Grows /\ \A o \in Client \ {c} : call'[o] = call[o] /\ Respects(o)
  BY <1>1, MoveGrows
<1>3. call'[c] = k /\ roots' = roots /\ proofs' = proofs /\ final' = final
  BY <1>1 DEF Moves, Kinds, finalization
<1>4. CallInv'
  BY <1>1, <1>2, <1>3, OneMoves
<1>5. TellInv'
  <2>1. \A t \in Tellings : told'[c] = t /\ t # None => Recorded(t)'
    BY <1>2, RecordedStays DEF Moves
  <2>2. \A o \in Client \ {c} : told'[o] = told[o]
    BY DEF Moves
  <2> QED BY <1>1, <1>2, <2>1, <2>2, TellStays
<1>6. ChainInv' /\ FinalInv'
  BY <1>1, <1>2, <1>3, ChainStays, FinalStays
<1> QED BY <1>2, <1>4, <1>5, <1>6 DEF IInv

LEMMA MoveKeeps ==
    ASSUME IInv, NEW c \in Client, NEW k \in Calls, Moves(c, k),
           StageInv(k, c)', ClosingInv(k, c)',
           k.at # "prove", k.at = "root" => ~Proving
    PROVE  IInv'
<1>1. Kinds /\ ChainInv /\ EndInv
  BY DEF IInv
<1>2. Kinds' /\ Grows /\ \A o \in Client \ {c} : call'[o] = call[o]
  BY <1>1, MoveGrows
<1>3. call'[c] = k /\ roots' = roots /\ proofs' = proofs
  BY <1>1 DEF Moves, Kinds, finalization
<1>4. \A o \in Client : call'[o].at = "prove" => call[o].at = "prove"
  BY <1>2, <1>3
<1>5. \A o \in Client : Proving /\ call'[o].at = "root" => call[o].at = "root"
  BY <1>2, <1>3
<1>6. EndInv'
  BY <1>1, <1>2, <1>3, <1>4, <1>5, EndStays
<1> QED BY <1>6, MoveLeaves

--------------------------------------------------------------------------------
(* The steps of a stage, up to its check.                                  *)
LEMMA IdleIs ==
    ASSUME NEW c
    PROVE  /\ Idle \in Calls /\ Idle.at = "idle"
           /\ StageInv(Idle, c)' /\ ClosingInv(Idle, c)'
<1>1. Idle \in Calls /\ Idle.at = "idle"
  BY DEF Idle, Calls, Steps, Revision
<1>2. Idle.at \notin Before \cup After \cup Closing
  BY <1>1 DEF Before, After, Closing
<1>3. StageInv(Idle, c)'
  BY <1>1, <1>2 DEF StageInv, Before, After
<1> QED BY <1>1, <1>2, <1>3 DEF ClosingInv, Closing

LEMMA CallIs ==
    ASSUME IInv, NEW c \in Client
    PROVE  \E k \in Calls : call[c] = k /\ StageInv(k, c) /\ ClosingInv(k, c)
BY DEF IInv, Kinds, CallInv

LEMMA GiveUpKeeps ==
    ASSUME IInv, NEW c \in Client, GiveUp(c), UNCHANGED finalization
    PROVE  IInv'
<1>1. Kinds /\ TellInv
  BY DEF IInv
<1>2. evidence' \in Client \cup {None} /\ diagnosis' \in Client \cup {None}
  BY <1>1 DEF Kinds, GiveUp, Released
<1>3. \A o \in Client \ {c} : (evidence = o => evidence' = o) /\ (diagnosis = o => diagnosis' = o)
  BY DEF GiveUp, Released
<1>4. Moves(c, Idle)
  BY <1>1, <1>2, <1>3 DEF GiveUp, Moves, Kinds, TellInv
<1> QED BY <1>4, IdleIs, MoveKeeps

(* Whoever is told that a stage is complete is done, and has no lock.      *)
LEMMA SucceedIs ==
    ASSUME Kinds, NEW c \in Client, NEW r \in Calls, Succeed(c, r)
    PROVE  /\ evidence' \in Client \cup {None} /\ diagnosis' \in Client \cup {None}
           /\ \A o \in Client \ {c} : /\ (evidence = o => evidence' = o)
                                      /\ (diagnosis = o => diagnosis' = o)
           /\ told' \in [Client -> Tellings \cup {None}]
           /\ told'[c] = [rev |-> r.rev, arg |-> r.arg, s |-> r.s]
           /\ \A o \in Client \ {c} : told'[o] = told[o]
           /\ call' = [call EXCEPT ![c] = Idle]
<1>1. [rev |-> r.rev, arg |-> r.arg, s |-> r.s] \in Tellings
  BY DEF Calls, Tellings, Revision
<1>2. evidence' \in Client \cup {None} /\ diagnosis' \in Client \cup {None}
  BY DEF Kinds, Succeed, Released
<1>3. \A o \in Client \ {c} : (evidence = o => evidence' = o) /\ (diagnosis = o => diagnosis' = o)
  BY DEF Succeed, Released
<1> QED BY <1>1, <1>2, <1>3 DEF Kinds, Succeed

LEMMA SucceedKeeps ==
    ASSUME IInv, NEW c \in Client, NEW r \in Calls, Succeed(c, r),
           UNCHANGED <<log, adapter, clock, project, roots, finalization>>,
           r.rev \in Revision, roots[r.rev] # None,
           r.rev \in {3, 7} => roots[r.rev].out[r.rev].run = r.arg,
           r.rev = 4 => roots[4].out[4].session = r.s /\ roots[4].out[4].intent = r.arg
    PROVE  IInv'
<1>1. Kinds
  BY DEF IInv
<1>2. r.rev \notin {8, 9}
  BY DEF Revision
<1>3. \A t \in Tellings : t = [rev |-> r.rev, arg |-> r.arg, s |-> r.s] => Recorded(t)
  BY <1>2 DEF Recorded
<1>4. Moves(c, Idle)
  BY <1>1, <1>3, SucceedIs DEF Moves
<1> QED BY <1>4, IdleIs, MoveKeeps

(* What a caller asks for.                                                 *)
LEMMA AskedIs ==
    ASSUME IInv, NEW r \in Asked
    PROVE  /\ r \in Calls /\ r.at = "idle" /\ r.new = None
           /\ r.rev \in Revision
           /\ r.rev \in {3, 7} => r.arg \in Change
           /\ r.rev = 4 => r.s \in Sessions /\ r.arg \in Change \cup {None}
           /\ r.rev # 0 => Published # {}
<1>1. PICK rev \in IF Published = {} THEN {0} ELSE {Latest, Latest + 1} \cap Revision :
         \E arg \in Arguments(rev), s \in IF rev = 4 THEN Sessions ELSE {None} :
            r = Asking(rev, arg, s)
  BY DEF Asked
<1>2. PICK arg \in Arguments(rev), s \in IF rev = 4 THEN Sessions ELSE {None} :
         r = Asking(rev, arg, s)
  BY <1>1
<1>3. rev \in Revision /\ (rev # 0 => Published # {})
  BY <1>1 DEF Revision
<1>4. /\ arg \in Change \cup {None} /\ (rev \in {3, 7} => arg \in Change)
      /\ s \in Sessions \cup {None} /\ (rev = 4 => s \in Sessions)
  BY <1>2 DEF Arguments
<1>5. /\ r.at = "idle" /\ r.rev = rev /\ r.arg = arg /\ r.s = s /\ r.new = None
      /\ r \in Calls
  BY <1>2, <1>3, <1>4 DEF Asking, Idle, Calls, Steps
<1> QED BY <1>3, <1>4, <1>5

LEMMA RetriedKeeps ==
    ASSUME IInv, NEW c \in Client, Retried(c), UNCHANGED finalization
    PROVE  IInv'
<1>1. PICK r \in Asked : RetryMatches(r) /\ Succeed(c, r)
  BY DEF Retried
<1>2. r \in Calls /\ r.rev \in Revision
  BY <1>1, AskedIs
<1>3. roots[Latest] # None
  BY LatestIs DEF IInv, ChainInv, Retried
<1>4. /\ roots[r.rev] # None
      /\ r.rev \in {3, 7} => roots[r.rev].out[r.rev].run = r.arg
      /\ r.rev = 4 => roots[4].out[4].session = r.s /\ roots[4].out[4].intent = r.arg
  BY <1>1, <1>3 DEF RetryMatches
<1> QED BY <1>1, <1>2, <1>4, SucceedKeeps DEF Retried

(* The locks of a step that takes the lock of the diagnosis at most.       *)
LEMMA StartKeeps ==
    ASSUME IInv, NEW c \in Client, Start(c), UNCHANGED finalization
    PROVE  IInv'
<1>1. Kinds /\ ChainInv /\ TellInv
  BY DEF IInv
<1>2. PICK r \in Asked :
         /\ IF r.rev = 0 THEN Published = {} ELSE Latest = r.rev - 1 /\ InTime(clock)
         /\ IF LocksDiagnosis(r) THEN diagnosis = None /\ diagnosis' = c
                                 ELSE UNCHANGED diagnosis
         /\ call' = [call EXCEPT ![c] =
              [r EXCEPT !.at = IF r.rev \in {2, 6} THEN "build" ELSE "check",
                        !.new = [stamp |-> clock,
                                 out |-> IF r.rev = 0 THEN <<>> ELSE roots[Latest].out]]]
  BY DEF Start
<1>3. /\ r \in Calls /\ r.rev \in Revision
      /\ r.rev \in {3, 7} => r.arg \in Change
      /\ r.rev = 4 => r.s \in Sessions /\ r.arg \in Change \cup {None}
      /\ r.rev # 0 => Published # {}
  BY AskedIs
<1>4. clock \in 0 .. MaxClock /\ clock \in Nat /\ Timeout \in Nat
  BY <1>1, AttemptAssumption DEF Kinds
<1>5. r.rev # 0 => /\ Latest = r.rev - 1 /\ r.rev - 1 \in Revision
                   /\ roots[r.rev - 1] # None /\ roots[r.rev - 1].out \in Seq(Output)
                   /\ clock \in roots[r.rev - 1].stamp .. roots[r.rev - 1].stamp + Timeout
  <2> SUFFICES ASSUME r.rev # 0
               PROVE  /\ Latest = r.rev - 1 /\ r.rev - 1 \in Revision
                      /\ roots[r.rev - 1] # None /\ roots[r.rev - 1].out \in Seq(Output)
                      /\ clock \in roots[r.rev - 1].stamp .. roots[r.rev - 1].stamp + Timeout
    OBVIOUS
  <2>1. Latest = r.rev - 1 /\ InTime(clock) /\ Latest \in Revision /\ roots[Latest] # None
    BY <1>1, <1>2, <1>3, LatestIs DEF ChainInv
  <2>2. /\ roots[Latest].stamp \in Nat /\ roots[Latest].out \in Seq(Output)
        /\ roots[Latest].stamp <= clock
    BY <1>1, <2>1, RootIs
  <2>3. clock <= roots[Latest].stamp + Timeout
    BY <2>1 DEF InTime
  <2>4. clock \in roots[Latest].stamp .. roots[Latest].stamp + Timeout
    BY <1>4, <2>2, <2>3
  <2> QED BY <2>1, <2>2, <2>4
<1>6. PICK new \in Snapshot :
         /\ new.stamp = clock
         /\ new.out = IF r.rev = 0 THEN <<>> ELSE roots[r.rev - 1].out
         /\ new = [stamp |-> clock, out |-> IF r.rev = 0 THEN <<>> ELSE roots[Latest].out]
  <2>1. [stamp |-> clock, out |-> IF r.rev = 0 THEN <<>> ELSE roots[Latest].out] \in Snapshot
    BY <1>4, <1>5 DEF Snapshot
  <2> QED BY <2>1, <1>5
<1>7. PICK at \in Before : at = IF r.rev \in {2, 6} THEN "build" ELSE "check"
  BY DEF Before
<1>8. PICK k \in Calls : k = [r EXCEPT !.at = at, !.new = new]
  <2>1. at \in Steps
    BY DEF Steps
  <2> QED BY <1>3, <2>1 DEF Calls
<1>9. /\ k.at = at /\ k.new = new /\ k.rev = r.rev /\ k.arg = r.arg /\ k.s = r.s
      /\ k.at \in Before /\ k.at \in {"build", "check"}
  BY <1>3, <1>7, <1>8 DEF Calls
<1>10. Moves(c, k)
  <2>1. diagnosis' \in Client \cup {None}
    BY <1>1, <1>2 DEF Kinds
  <2>2. \A o \in Client \ {c} : diagnosis = o => diagnosis' = o
    BY <1>2, AttemptAssumption
  <2>3. call' = [call EXCEPT ![c] = k]
    BY <1>2, <1>6, <1>7, <1>8
  <2>4. /\ told' \in [Client -> Tellings \cup {None}] /\ told'[c] = None
        /\ \A o \in Client \ {c} : told'[o] = told[o]
    BY <1>1 DEF Start, Kinds
  <2> QED BY <1>1, <2>1, <2>2, <2>3, <2>4 DEF Start, Moves, Kinds
<1>11. Kinds' /\ Grows
  BY <1>1, <1>10, MoveGrows
<1>12. StandsOn(k)
  <2>1. k.at \notin After
    BY <1>9 DEF After, Before
  <2>2. /\ k.at \in {"build", "inputs"} => k.rev \in {2, 6}
        /\ k.at # "inputs" /\ (k.at = "check" => k.rev \notin {2, 6})
    BY <1>7, <1>9
  <2>3. k.new \in Snapshot /\ k.new.stamp <= clock
    BY <1>4, <1>6, <1>9
  <2> QED BY <1>3, <1>5, <1>6, <1>9, <2>1, <2>2, <2>3 DEF StandsOn
<1>13. StandsOn(k)'
  BY <1>1, <1>9, <1>11, <1>12, StandsStill
<1>14. Frozen(k, c)'
  <2>1. k.at \notin After
    BY <1>9 DEF After, Before
  <2>2. adapter' = adapter
    BY DEF Start
  <2> QED BY <1>2, <1>9, <2>1, <2>2 DEF Frozen, LocksDiagnosis
<1>15. StageInv(k, c)' /\ ClosingInv(k, c)'
  BY <1>9, <1>13, <1>14 DEF StageInv, ClosingInv, Closing
<1> QED BY <1>9, <1>10, <1>15, MoveKeeps

(* A step of a stage that only moves its caller on.                        *)
LEMMA ReadingMoves ==
    ASSUME IInv, NEW c \in Client, NEW k \in Calls,
           call' = [call EXCEPT ![c] = k],
           UNCHANGED <<log, adapter, clock, project, roots, evidence, diagnosis, told,
                       finalization>>
    PROVE  Moves(c, k)
BY DEF IInv, Kinds, TellInv, Moves

LEMMA ReadFirmwareKeeps ==
    ASSUME IInv, NEW c \in Client, ReadFirmware(c), UNCHANGED finalization
    PROVE  IInv'
<1>1. Kinds
  BY DEF IInv
<1>2. PICK j \in Calls : call[c] = j /\ StageInv(j, c)
  BY CallIs
<1>3. j.at = "build" /\ firmware \in Change
  BY <1>1, <1>2 DEF ReadFirmware, Kinds
<1>4. PICK k \in Calls : k = [j EXCEPT !.at = "inputs", !.build = firmware]
  BY <1>3 DEF Calls, Steps, Before
<1>5. /\ k.at = "inputs" /\ k.build = firmware /\ k.rev = j.rev /\ k.arg = j.arg /\ k.s = j.s
      /\ k.new = j.new
  BY <1>4 DEF Calls
<1>6. call' = [call EXCEPT ![c] = k]
  BY <1>1, <1>2, <1>4 DEF ReadFirmware, Kinds, Calls
<1>7. Moves(c, k)
  BY <1>6, ReadingMoves DEF ReadFirmware
<1>8. Kinds' /\ Grows
  BY <1>1, <1>7, MoveGrows
<1>9. StandsOn(j) /\ Frozen(j, c)
  BY <1>2, <1>3 DEF StageInv, Before
<1>10. StandsOn(k)
  BY <1>3, <1>5, <1>9 DEF StandsOn, Before, After
<1>11. StandsOn(k)' /\ k.at \in Before /\ k.at \notin After
  BY <1>1, <1>5, <1>8, <1>10, StandsStill DEF Before, After
<1>12. Frozen(k, c)'
  BY <1>3, <1>5, <1>9, <1>11 DEF Frozen, LocksDiagnosis, ReadFirmware
<1>13. StageInv(k, c)' /\ ClosingInv(k, c)'
  BY <1>5, <1>11, <1>12 DEF StageInv, ClosingInv, Closing
<1> QED BY <1>5, <1>7, <1>13, MoveKeeps

LEMMA ReadInputsKeeps ==
    ASSUME IInv, NEW c \in Client, ReadInputs(c), UNCHANGED finalization
    PROVE  IInv'
<1>1. Kinds
  BY DEF IInv
<1>2. PICK j \in Calls : call[c] = j /\ StageInv(j, c)
  BY CallIs
<1>3. j.at = "inputs" /\ source \in Change
  BY <1>1, <1>2 DEF ReadInputs, Kinds
<1>4. PICK k \in Calls : k = [j EXCEPT !.at = "check", !.inputs = source]
  BY <1>3 DEF Calls, Steps, Before
<1>5. /\ k.at = "check" /\ k.inputs = source /\ k.build = j.build /\ k.rev = j.rev
      /\ k.arg = j.arg /\ k.s = j.s /\ k.new = j.new
  BY <1>4 DEF Calls
<1>6. call' = [call EXCEPT ![c] = k]
  BY <1>1, <1>2, <1>4 DEF ReadInputs, Kinds, Calls
<1>7. Moves(c, k)
  BY <1>6, ReadingMoves DEF ReadInputs
<1>8. Kinds' /\ Grows
  BY <1>1, <1>7, MoveGrows
<1>9. StandsOn(j) /\ Frozen(j, c)
  BY <1>2, <1>3 DEF StageInv, Before
<1>10. StandsOn(k)
  BY <1>3, <1>5, <1>9 DEF StandsOn, Before, After
<1>11. StandsOn(k)' /\ k.at \in Before /\ k.at \notin After
  BY <1>1, <1>5, <1>8, <1>10, StandsStill DEF Before, After
<1>12. Frozen(k, c)'
  BY <1>3, <1>5, <1>9, <1>11 DEF Frozen, LocksDiagnosis, ReadInputs
<1>13. StageInv(k, c)' /\ ClosingInv(k, c)'
  BY <1>5, <1>11, <1>12 DEF StageInv, ClosingInv, Closing
<1> QED BY <1>5, <1>7, <1>13, MoveKeeps

--------------------------------------------------------------------------------
(* A stage adds its output to what the outputs before it stand for.        *)
LEMMA OutputIs ==
    ASSUME Kinds, NEW out \in Seq(Output), Supports(out), NEW r \in Calls, r.rev # 0,
           Len(out) = r.rev - 1,
           r.rev \in {2, 6} => r.build \in Change /\ r.inputs \in Change,
           r.rev \in {3, 7} => r.arg \in Change,
           r.rev = 4 => r.s \in Sessions /\ r.arg \in Change \cup {None},
           NEW stamp \in 0 .. MaxClock
    PROVE  OutputOf(out, r, stamp) \in Output
<1> DEFINE o == OutputOf(out, r, stamp)
<1>0. r.rev \in 0 .. 7
  BY DEF Calls, Revision
<1>1. CASE r.rev \in {2, 6}
  <2>1. o = [build |-> r.build, inputs |-> r.inputs]
    BY <1>1 DEF OutputOf
  <2>2. o \in [build : Change, inputs : Change]
    BY <1>1, <2>1
  <2> QED BY <2>2 DEF Output
<1>2. CASE r.rev \in {3, 7}
  <2>1. o = [run |-> r.arg]
    BY <1>2 DEF OutputOf
  <2>2. o \in [run : Change]
    BY <1>2, <2>1
  <2> QED BY <2>2 DEF Output
<1>3. CASE r.rev = 4
  <2>1. o = [session |-> r.s, revision |-> Len(log[r.s]), intent |-> r.arg]
    BY <1>3 DEF OutputOf
  <2>2. Len(log[r.s]) \in Nat
    BY <1>3 DEF Kinds
  <2>3. o \in [session : Sessions, revision : Nat, intent : Change \cup {None}]
    BY <1>3, <2>1, <2>2
  <2> QED BY <2>3 DEF Output
<1>4. CASE r.rev = 5
  <2>1. o = [revision |-> out[4].revision, at |-> stamp]
    BY <1>4 DEF OutputOf
  <2>2. out[4].revision \in Nat
    BY <1>4 DEF Supports, Undeclared
  <2>3. o \in [revision : Nat, at : 0 .. MaxClock]
    BY <2>1, <2>2
  <2> QED BY <2>3 DEF Output
<1>5. CASE r.rev = 1
  BY <1>5 DEF OutputOf, Output
<1> QED BY <1>0, <1>1, <1>2, <1>3, <1>4, <1>5

LEMMA CheckSupports ==
    ASSUME Kinds, NEW out \in Seq(Output), Supports(out), NEW r \in Calls, r.rev # 0,
           Len(out) = r.rev - 1,
           r.rev \in {2, 6} => r.build \in Change /\ r.inputs \in Change,
           r.rev \in {3, 7} => r.arg \in Change,
           r.rev = 4 => r.s \in Sessions /\ r.arg \in Change \cup {None},
           Valid(out, r), NEW stamp, NEW new \in Seq(Output),
           Len(new) = r.rev, \A i \in 1 .. r.rev - 1 : new[i] = out[i],
           new[r.rev] = OutputOf(out, r, stamp)
    PROVE  Supports(new)
<1> DEFINE rev == r.rev
<1>0. rev \in 1 .. 7 /\ Len(new) = rev /\ Len(out) = rev - 1
  BY DEF Calls, Revision
<1>1. /\ rev >= 3 => new[2] = out[2]
      /\ rev >= 4 => new[3] = out[3]
      /\ rev >= 5 => new[4] = out[4]
      /\ rev >= 6 => new[5] = out[5]
      /\ rev >= 7 => new[6] = out[6]
  <2> HIDE DEF rev
  <2>1. rev \in Nat /\ \A i \in 1 .. rev - 1 : new[i] = out[i]
    BY <1>0 DEF rev
  <2>2. ASSUME rev >= 3 PROVE new[2] = out[2]
    BY <2>1, <2>2
  <2>3. ASSUME rev >= 4 PROVE new[3] = out[3]
    BY <2>1, <2>3
  <2>4. ASSUME rev >= 5 PROVE new[4] = out[4]
    BY <2>1, <2>4
  <2>5. ASSUME rev >= 6 PROVE new[5] = out[5]
    BY <2>1, <2>5
  <2>6. ASSUME rev >= 7 PROVE new[6] = out[6]
    BY <2>1, <2>6
  <2> QED BY <2>2, <2>3, <2>4, <2>5, <2>6
<1>2. /\ rev \in {2, 6} => new[rev] = [build |-> r.build, inputs |-> r.inputs]
      /\ rev \in {3, 7} => new[rev] = [run |-> r.arg]
      /\ rev = 4 => new[4] = [session |-> r.s, revision |-> Len(log[r.s]), intent |-> r.arg]
      /\ rev = 5 => new[5] = [revision |-> out[4].revision, at |-> stamp]
  BY DEF OutputOf
<1>3. Built(new)
  <2>1. CASE rev = 2
    BY <2>1, <1>2 DEF Built
  <2>2. CASE rev >= 3
    BY <2>2, <1>0, <1>1 DEF Supports, Built
  <2> QED BY <2>1, <2>2, <1>0 DEF Built
<1>4. Failed(new)
  <2>1. CASE rev = 3
    <3>1. [build |-> r.arg, passed |-> FALSE] \in runs /\ r.arg = out[2].build
      BY <2>1 DEF Valid
    <3>2. new[3] = [run |-> r.arg] /\ new[2] = out[2]
      BY <2>1, <1>0, <1>1, <1>2
    <3>3. new[3].run = r.arg /\ new[3] \in [run : Change]
      BY <2>1, <3>2
    <3> QED BY <3>1, <3>2, <3>3 DEF Failed
  <2>2. CASE rev >= 4
    <3>1. /\ out[3] \in [run : Change] /\ out[3].run = out[2].build
          /\ [build |-> out[3].run, passed |-> FALSE] \in runs
      BY <2>2, <1>0 DEF Supports, Failed
    <3>2. new[3] = out[3] /\ new[2] = out[2]
      BY <2>2, <1>0, <1>1
    <3> QED BY <3>1, <3>2 DEF Failed
  <2> QED BY <2>1, <2>2, <1>0 DEF Failed
<1>5. Undeclared(new)
  <2>1. CASE rev = 4
    <3>1. SessionOf(out, r.s) /\ Undecided(r.s)
      BY <2>1 DEF Valid, Diagnosed
    <3>2. new[4] = [session |-> r.s, revision |-> Len(log[r.s]), intent |-> r.arg]
          /\ new[3] = out[3] /\ new[2] = out[2]
      BY <2>1, <1>0, <1>1, <1>2
    <3>3. log[r.s] \in Seq(Event) /\ Len(log[r.s]) \in Nat
      BY <2>1 DEF Kinds
    <3>4. /\ new[4] \in [session : Sessions, revision : Nat, intent : Change \cup {None}]
          /\ new[4].session = r.s /\ new[4].revision = Len(log[r.s])
      BY <2>1, <3>2, <3>3
    <3>5. SessionOf(new, r.s)
      BY <3>1, <3>2 DEF SessionOf
    <3>6. \A i \in 1 .. Len(log[r.s]) : log[r.s][i].type # "declared"
      <4>1. DOMAIN log[r.s] = 1 .. Len(log[r.s])
        BY <3>3
      <4>2. Declared(r.s) = {}
        BY <3>1 DEF Undecided
      <4> QED BY <4>1, <4>2 DEF Declared
    <3> QED BY <3>3, <3>4, <3>5, <3>6 DEF Undeclared
  <2>2. CASE rev >= 5
    <3>1. new[4] = out[4] /\ new[3] = out[3] /\ new[2] = out[2]
      BY <2>2, <1>0, <1>1
    <3>2. /\ out[4] \in [session : Sessions, revision : Nat, intent : Change \cup {None}]
          /\ SessionOf(out, out[4].session)
          /\ out[4].revision <= Len(log[out[4].session])
          /\ \A i \in 1 .. out[4].revision : log[out[4].session][i].type # "declared"
      BY <2>2, <1>0 DEF Supports, Undeclared
    <3>3. SessionOf(new, new[4].session)
      BY <3>1, <3>2 DEF SessionOf
    <3> QED BY <3>1, <3>2, <3>3 DEF Undeclared
  <2>3. CASE rev < 4
    BY <2>3, <1>0 DEF Undeclared
  <2> QED BY <2>1, <2>2, <2>3, <1>0
<1>6. Authorized(new)
  <2>1. CASE rev = 5
    BY <2>1, <1>0, <1>1, <1>2 DEF Authorized
  <2>2. CASE rev >= 6
    BY <2>2, <1>0, <1>1 DEF Supports, Authorized
  <2> QED BY <2>1, <2>2, <1>0 DEF Authorized
<1>7. Declares(new)
  <2>1. CASE rev = 6
    <3> DEFINE s == out[4].session
    <3>1. /\ r.build # out[2].build /\ Declared(s) = {r.build}
          /\ adapter = "physical" => r.build = out[4].intent
      BY <2>1 DEF Valid, Changed
    <3>2. /\ s \in Sessions /\ out[4].revision \in Nat
          /\ out[4].revision <= Len(log[s])
          /\ \A i \in 1 .. out[4].revision : log[s][i].type # "declared"
      BY <2>1 DEF Supports, Undeclared
    <3>3. log[s] \in Seq(Event) /\ Len(log[s]) \in Nat /\ DOMAIN log[s] = 1 .. Len(log[s])
      BY <3>2 DEF Kinds
    <3> HIDE DEF s
    <3>4. r.build \in Declared(s)
      BY <3>1
    <3>5. PICK i \in DOMAIN log[s] : log[s][i].type = "declared" /\ log[s][i].arg = r.build
      BY <3>4 DEF Declared
    <3>6. i > out[4].revision
      <4>1. i \in Nat /\ i >= 1
        BY <3>3, <3>5
      <4>2. ~(i <= out[4].revision)
        BY <3>2, <3>5, <4>1
      <4> QED BY <3>2, <4>1, <4>2
    <3>7. /\ new[6] = [build |-> r.build, inputs |-> r.inputs]
          /\ new[2] = out[2] /\ new[4] = out[4]
      BY <2>1, <1>0, <1>1, <1>2
    <3>8. new[6] \in [build : Change, inputs : Change] /\ new[6].build = r.build
      BY <2>1, <3>7
    <3>9. \E j \in 1 .. Len(log[s]) : /\ j > out[4].revision /\ log[s][j].type = "declared"
                                      /\ log[s][j].arg = r.build
      BY <3>3, <3>5, <3>6
    <3> QED BY <3>1, <3>7, <3>8, <3>9 DEF Declares, s
  <2>2. CASE rev = 7
    <3>1. /\ out[6] \in [build : Change, inputs : Change]
          /\ out[6].build # out[2].build
          /\ \E i \in 1 .. Len(log[out[4].session]) :
                 /\ i > out[4].revision
                 /\ log[out[4].session][i].type = "declared"
                 /\ log[out[4].session][i].arg = out[6].build
          /\ adapter = "physical" => out[6].build = out[4].intent
      BY <2>2, <1>0 DEF Supports, Declares
    <3>2. new[6] = out[6] /\ new[4] = out[4] /\ new[2] = out[2]
      BY <2>2, <1>0, <1>1
    <3> QED BY <3>1, <3>2 DEF Declares
  <2>3. CASE rev < 6
    BY <2>3, <1>0 DEF Declares
  <2> QED BY <2>1, <2>2, <2>3, <1>0
<1>8. Completed(new)
  <2>1. CASE rev = 7
    <3>1. /\ [build |-> r.arg, passed |-> TRUE] \in runs /\ r.arg = out[6].build
          /\ In(log[out[4].session], "RESOLVED") /\ Newest(log[out[4].session]).arg = r.arg
      BY <2>1 DEF Valid, Verified
    <3>2. new[7] = [run |-> r.arg] /\ new[6] = out[6] /\ new[4] = out[4]
      BY <2>1, <1>0, <1>1, <1>2
    <3>3. new[7] \in [run : Change] /\ new[7].run = r.arg
      BY <2>1, <3>2
    <3> QED BY <3>1, <3>2, <3>3 DEF Completed, Fixes
  <2> QED BY <2>1, <1>0 DEF Completed
<1> QED BY <1>3, <1>4, <1>5, <1>6, <1>7, <1>8 DEF Supports

LEMMA NothingSupports ==
    ASSUME Kinds
    PROVE  Supports(<<>>)
BY Len(<<>>) = 0 DEF Supports, Built, Failed, Undeclared, Authorized, Declares, Completed

LEMMA CheckKeeps ==
    ASSUME IInv, NEW c \in Client, Check(c), UNCHANGED finalization
    PROVE  IInv'
<1>1. Kinds /\ ChainInv
  BY DEF IInv
<1>2. PICK j \in Calls : call[c] = j /\ StageInv(j, c)
  BY CallIs
<1>3. j.at = "check" /\ Valid(j.new.out, j)
  BY <1>2 DEF Check
<1>4. StandsOn(j) /\ Frozen(j, c)
  BY <1>2, <1>3 DEF StageInv, Before
<1>5. /\ j.new \in Snapshot /\ j.new.stamp \in 0 .. MaxClock /\ j.new.out \in Seq(Output)
      /\ j.new.stamp <= clock
  BY <1>4 DEF StandsOn, Snapshot
<1>6. j.rev \in 0 .. 7
  BY DEF Calls, Revision
<1>7. j.rev # 0 =>
          /\ roots[j.rev - 1] # None /\ j.new.out = roots[j.rev - 1].out
          /\ Len(j.new.out) = j.rev - 1 /\ Supports(j.new.out)
          /\ j.rev \in {2, 6} => j.build \in Change /\ j.inputs \in Change
          /\ j.rev \in {3, 7} => j.arg \in Change
          /\ j.rev = 4 => j.s \in Sessions /\ j.arg \in Change \cup {None}
  <2> SUFFICES ASSUME j.rev # 0
               PROVE  /\ roots[j.rev - 1] # None /\ j.new.out = roots[j.rev - 1].out
                      /\ Len(j.new.out) = j.rev - 1 /\ Supports(j.new.out)
                      /\ j.rev \in {2, 6} => j.build \in Change /\ j.inputs \in Change
                      /\ j.rev \in {3, 7} => j.arg \in Change
                      /\ j.rev = 4 => j.s \in Sessions /\ j.arg \in Change \cup {None}
    OBVIOUS
  <2>1. roots[j.rev - 1] # None /\ j.new.out = roots[j.rev - 1].out
    BY <1>3, <1>4 DEF StandsOn, Before
  <2>4. j.rev - 1 \in Revision
    BY <1>6 DEF Revision
  <2>2. PICK x \in Snapshot : roots[j.rev - 1] = x
    BY <1>1, <2>1, <2>4 DEF Kinds
  <2>3. Len(x.out) = j.rev - 1 /\ Supports(x.out)
    BY <1>1, <2>2, <2>4 DEF ChainInv
  <2> QED BY <1>3, <1>4, <2>1, <2>2, <2>3 DEF StandsOn, Before
<1> DEFINE o == OutputOf(j.new.out, j, j.new.stamp)
<1>8. PICK out \in Seq(Output) : out = IF j.rev = 0 THEN j.new.out ELSE Append(j.new.out, o)
  <2>1. CASE j.rev = 0
    BY <2>1, <1>5
  <2>2. CASE j.rev # 0
    <3>1. o \in Output
      BY <1>1, <1>5, <1>7, <2>2, OutputIs
    <3> HIDE DEF o
    <3>2. Append(j.new.out, o) \in Seq(Output)
      BY <1>5, <3>1
    <3> QED BY <2>2, <3>2
  <2> QED BY <2>1, <2>2
<1>9. PICK new \in Snapshot : new = [stamp |-> j.new.stamp, out |-> out]
  BY <1>5 DEF Snapshot
<1>10. /\ Len(out) = j.rev /\ Supports(out)
       /\ j.rev # 0 => out = Append(roots[j.rev - 1].out, out[j.rev])
       /\ \A i \in 1 .. j.rev - 1 : out[i] = j.new.out[i]
       /\ j.rev # 0 => out[j.rev] = o
  <2>1. CASE j.rev = 0
    <3>1. out = <<>>
      BY <2>1, <1>3, <1>4, <1>8 DEF StandsOn, Before
    <3> QED BY <2>1, <3>1, <1>1, NothingSupports
  <2>2. CASE j.rev # 0
    <3>1. o \in Output
      BY <1>1, <1>5, <1>7, <2>2, OutputIs
    <3>2. out = Append(j.new.out, o)
      BY <1>8, <2>2
    <3> HIDE DEF o
    <3>3. Len(out) = j.rev /\ out[j.rev] = o /\ \A i \in 1 .. j.rev - 1 : out[i] = j.new.out[i]
      <4>1. j.rev \in Nat /\ j.new.out \in Seq(Output) /\ Len(j.new.out) = j.rev - 1
        BY <1>5, <1>6, <1>7, <2>2
      <4> QED BY <3>1, <3>2, <4>1
    <3>4. Supports(out)
      BY <1>1, <1>3, <1>5, <1>7, <2>2, <3>3, CheckSupports DEF o
    <3> QED BY <1>7, <2>2, <3>2, <3>3, <3>4
  <2> QED BY <2>1, <2>2
<1>11. PICK k \in Calls : k = [j EXCEPT !.at = "publish", !.new = new]
  BY DEF Calls, Steps, After
<1>12. /\ k.at = "publish" /\ k.new = new /\ k.rev = j.rev /\ k.arg = j.arg /\ k.s = j.s
       /\ new.out = out /\ new.stamp = j.new.stamp
  BY <1>9, <1>11 DEF Calls
<1>13. call' = [call EXCEPT ![c] = k]
  <2>1. [j EXCEPT !.at = "publish",
                  !.new.out = IF j.rev = 0 THEN @ ELSE Append(@, o)] = k
    <3>1. [j.new EXCEPT !.out = out] = new
      BY <1>5, <1>9 DEF Snapshot
    <3> QED BY <1>8, <1>11, <3>1
  <2> QED BY <1>1, <1>2, <2>1 DEF Check, Kinds
<1>14. Moves(c, k)
  BY <1>13, ReadingMoves DEF Check
<1>15. Kinds' /\ Grows
  BY <1>1, <1>14, MoveGrows
<1>16. k.at \notin Before /\ k.at \in After
  BY <1>12 DEF Before, After
<1>17. OutputFits(k)
  <2>1. CASE k.rev \in {3, 7}
    BY <2>1, <1>10, <1>12 DEF OutputFits, OutputOf
  <2>2. CASE k.rev = 4
    BY <2>2, <1>10, <1>12 DEF OutputFits, OutputOf
  <2> QED BY <2>1, <2>2 DEF OutputFits
<1>18. StandsOn(k)
  BY <1>4, <1>5, <1>10, <1>12, <1>16, <1>17 DEF StandsOn
<1>19. StandsOn(k)'
  BY <1>1, <1>15, <1>16, <1>18, StandsStill
<1>20. Frozen(k, c)'
  <2> SUFFICES ASSUME LocksDiagnosis(k)
               PROVE  diagnosis' = c /\ Len(log'[k.new.out[4].session]) = k.new.out[4].revision
    BY DEF Frozen, LocksDiagnosis, Check
  <2>1. j.rev = 5 /\ LocksDiagnosis(j)
    BY <1>12 DEF LocksDiagnosis
  <2>2. Len(log[j.new.out[4].session]) = j.new.out[4].revision
    BY <1>3, <2>1 DEF Valid, Unchanged
  <2>3. out[4] = j.new.out[4]
    BY <1>10, <2>1
  <2> QED BY <1>4, <1>12, <2>1, <2>2, <2>3 DEF Frozen, Check
<1>21. StageInv(k, c)' /\ ClosingInv(k, c)'
  BY <1>12, <1>19, <1>20 DEF StageInv, ClosingInv, Closing
<1> QED BY <1>12, <1>14, <1>21, MoveKeeps

--------------------------------------------------------------------------------
(* The steps that publish a root.                                          *)
LEMMA LockKeeps ==
    ASSUME IInv, NEW c \in Client, Lock(c), UNCHANGED finalization
    PROVE  IInv'
<1>1. Kinds /\ ChainInv /\ EndInv /\ TellInv
  BY DEF IInv
<1>2. PICK j \in Calls : call[c] = j /\ StageInv(j, c)
  BY CallIs
<1>3. j.at = "publish" /\ j.at \in After
  BY <1>2 DEF Lock, After
<1>4. StandsOn(j) /\ Frozen(j, c)
  BY <1>2, <1>3 DEF StageInv
<1>5. Len(j.new.out) = j.rev /\ OutputFits(j) /\ j.rev \in Revision
  BY <1>3, <1>4 DEF StandsOn, Calls
<1>6. CASE AlreadyThere(c) /\ Succeed(c, call[c])
  <2>1. Published # {} /\ Equivalent(roots[Latest], j.new)
    BY <1>2, <1>6 DEF AlreadyThere
  <2>2. Latest \in Revision /\ roots[Latest] # None
    BY <1>1, <2>1, LatestIs DEF ChainInv
  <2>3. Len(roots[Latest].out) = Latest
    BY <1>1, <2>2, RootIs
  <2>4. Latest = j.rev /\ (roots[j.rev].out = j.new.out \/ j.rev = 5)
    BY <1>5, <2>1, <2>3 DEF Equivalent
  <2>5. /\ j.rev \in {3, 7} => roots[j.rev].out[j.rev].run = j.arg
        /\ j.rev = 4 => roots[4].out[4].session = j.s /\ roots[4].out[4].intent = j.arg
    BY <1>5, <2>4 DEF OutputFits
  <2>6. /\ Succeed(c, j)
        /\ UNCHANGED <<log, adapter, clock, project, roots, finalization>>
    BY <1>2, <1>6 DEF Lock
  <2> QED BY <1>5, <2>2, <2>4, <2>5, <2>6, SucceedKeeps
<1>7. CASE /\ IF call[c].rev = 0 THEN Published = {}
                                 ELSE Published # {} /\ Latest = call[c].rev - 1
           /\ evidence' = c
           /\ call' = [call EXCEPT ![c].at = IF adapter = "physical" THEN "confirm" ELSE "root"]
           /\ UNCHANGED <<diagnosis, told>>
  <2>1. PICK at \in {"confirm", "root"} : at = IF adapter = "physical" THEN "confirm" ELSE "root"
    OBVIOUS
  <2>0. at \in Steps
    BY <2>1 DEF Steps, After
  <2>2. PICK k \in Calls : k = [j EXCEPT !.at = at]
    BY <2>0 DEF Calls
  <2>3. /\ k.at = at /\ k.new = j.new /\ k.rev = j.rev /\ k.arg = j.arg /\ k.s = j.s
        /\ k.at \in After /\ k.at \notin Before
    BY <2>1, <2>2 DEF Calls, After, Before
  <2>4. call' = [call EXCEPT ![c] = k]
    BY <1>1, <1>2, <1>7, <2>1, <2>2 DEF Kinds
  <2>5. Moves(c, k)
    BY <1>1, <1>7, <2>4, AttemptAssumption DEF Lock, Moves, Kinds, TellInv
  <2>6. Kinds' /\ Grows
    BY <1>1, <2>5, MoveGrows
  <2>7. StandsOn(k)
    BY <1>3, <1>4, <2>3 DEF StandsOn, OutputFits, After, Before
  <2>8. StandsOn(k)'
    BY <1>1, <2>3, <2>6, <2>7, StandsStill
  <2>9. Frozen(k, c)'
    BY <1>3, <1>4, <1>7, <2>3 DEF Frozen, LocksDiagnosis, Lock
  <2>10. IsNext(k.rev)'
    <3>1. IsNext(k.rev)
      <4>1. CASE j.rev = 0
        BY <1>2, <1>7, <2>3, <4>1 DEF IsNext, Published, Revision
      <4>2. CASE j.rev # 0
        <5>1. Published # {} /\ Latest = j.rev - 1
          BY <1>2, <1>7, <4>2
        <5>2. \A r \in Revision : roots[r] # None <=> r <= j.rev - 1
          BY <1>1, <5>1, LatestIs DEF ChainInv
        <5>3. \A r \in Revision : r <= j.rev - 1 <=> r < j.rev
          BY <1>5, <4>2 DEF Revision
        <5> QED BY <2>3, <5>2, <5>3 DEF IsNext
      <4> QED BY <4>1, <4>2
    <3> QED BY <3>1 DEF IsNext, Lock
  <2>11. StageInv(k, c)' /\ ClosingInv(k, c)'
    BY <1>7, <2>1, <2>3, <2>8, <2>9, <2>10 DEF StageInv, ClosingInv, Closing
  <2>12. k.at = "root" => ~Proving
    BY <1>1, <2>1, <2>3 DEF EndInv
  <2>13. k.at # "prove"
    BY <2>1, <2>3
  <2> QED BY <2>5, <2>11, <2>12, <2>13, MoveKeeps
<1> QED BY <1>6, <1>7 DEF Lock

(* Whoever proves an attempt has seen its time pass: it does not go on.    *)
LEMMA ConfirmKeeps ==
    ASSUME IInv, NEW c \in Client, Confirm(c), UNCHANGED finalization
    PROVE  IInv'
<1>1. Kinds /\ ChainInv /\ EndInv
  BY DEF IInv
<1>2. PICK j \in Calls : call[c] = j /\ StageInv(j, c)
  BY CallIs
<1>3. j.at = "confirm" /\ j.at \in After /\ (j.rev # 0 => InTime(clock)) /\ j.rev \in Revision
  BY <1>2 DEF Confirm, After, Calls
<1>4. StandsOn(j) /\ Frozen(j, c) /\ evidence = c /\ IsNext(j.rev)
  BY <1>2, <1>3 DEF StageInv
<1>5. PICK k \in Calls : k = [j EXCEPT !.at = "root"]
  BY DEF Calls, Steps, After
<1>6. /\ k.at = "root" /\ k.new = j.new /\ k.rev = j.rev /\ k.arg = j.arg /\ k.s = j.s
      /\ k.at \in After /\ k.at \notin Before
  BY <1>5 DEF Calls, After, Before
<1>7. call' = [call EXCEPT ![c] = k]
  BY <1>1, <1>2, <1>5 DEF Kinds, Confirm
<1>8. Moves(c, k)
  BY <1>7, ReadingMoves DEF Confirm
<1>9. Kinds' /\ Grows
  BY <1>1, <1>8, MoveGrows
<1>10. StandsOn(k)
  BY <1>3, <1>4, <1>6 DEF StandsOn, OutputFits, After, Before
<1>11. StandsOn(k)'
  BY <1>1, <1>6, <1>9, <1>10, StandsStill
<1>12. Frozen(k, c)' /\ evidence' = c /\ IsNext(k.rev)'
  BY <1>3, <1>4, <1>6 DEF Frozen, LocksDiagnosis, Confirm, IsNext
<1>13. StageInv(k, c)' /\ ClosingInv(k, c)'
  BY <1>6, <1>11, <1>12 DEF StageInv, ClosingInv, Closing
<1>14. ~Proving
  <2> SUFFICES ASSUME Ended
               PROVE  FALSE
    BY <1>1 DEF EndInv
  <2>1. Published = 0 .. 6 /\ Latest = 6 /\ roots[6] # None /\ roots[7] = None
    BY <1>1, EndIs DEF Ended, ChainInv
  <2>2. 6 < j.rev
    BY <1>4, <2>1 DEF IsNext, Revision
  <2>3. clock <= roots[6].stamp + Timeout
    BY <1>3, <2>1, <2>2 DEF InTime
  <2>4. roots[6].stamp \in Nat
    BY <1>1, <2>1, RootIs DEF Revision
  <2>5. clock > roots[6].stamp + Timeout
    BY DEF Ended
  <2> QED BY <1>1, <2>3, <2>4, <2>5, AttemptAssumption DEF Kinds
<1> QED BY <1>6, <1>8, <1>13, <1>14, MoveKeeps

(* The root that is published is the next one, and its caller is told.     *)
LEMMA PublishIs ==
    ASSUME IInv, NEW c \in Client, Publish(c), UNCHANGED finalization
    PROVE  \E j \in Calls :
              /\ call[c] = j /\ j.at = "root" /\ j.at \in After /\ StageInv(j, c) /\ StandsOn(j)
              /\ j.rev \in Revision /\ j.new \in Snapshot /\ j.new # None
              /\ roots' = [roots EXCEPT ![j.rev] = j.new] /\ roots[j.rev] = None
              /\ IsNext(j.rev) /\ evidence = c /\ Succeed(c, j) /\ ~Proving
<1>1. Kinds /\ EndInv
  BY DEF IInv
<1>2. PICK j \in Calls : call[c] = j /\ StageInv(j, c)
  BY CallIs
<1>3. j.at = "root" /\ j.at \in After
  BY <1>2 DEF Publish, After
<1>4. StandsOn(j) /\ evidence = c /\ IsNext(j.rev)
  BY <1>2, <1>3 DEF StageInv
<1>5. j.rev \in Revision /\ j.new \in Snapshot /\ j.new # None
  BY <1>4, NoneIsNoSnapshot DEF StandsOn, Calls
<1>6. roots[j.rev] = None
  BY <1>4, <1>5 DEF IsNext, Revision
<1>7. ~Proving
  BY <1>1, <1>2, <1>3 DEF EndInv
<1> QED BY <1>2, <1>3, <1>4, <1>5, <1>6, <1>7 DEF Publish

LEMMA PublishGrows ==
    ASSUME IInv, NEW c \in Client, Publish(c), UNCHANGED finalization
    PROVE  Kinds' /\ Grows /\ \A o \in Client \ {c} : call'[o] = call[o] /\ Respects(o)
<1>1. Kinds
  BY DEF IInv
<1>2. PICK j \in Calls :
         /\ j.rev \in Revision /\ j.new \in Snapshot
         /\ roots' = [roots EXCEPT ![j.rev] = j.new] /\ roots[j.rev] = None
         /\ evidence = c /\ Succeed(c, j)
  BY PublishIs
<1>3. /\ UNCHANGED <<log, adapter, clock, source, firmware, runs>>
      /\ proofs' = proofs /\ final' = final
  BY DEF Publish, project, finalization
<1>4. roots' \in [Revision -> Snapshot \cup {None}]
  BY <1>1, <1>2 DEF Kinds
<1>5. Kinds'
  <2>1. call' \in [Client -> Calls]
    BY <1>1, <1>2, SucceedIs, IdleIs DEF Kinds
  <2> QED BY <1>1, <1>2, <1>3, <1>4, <2>1, SucceedIs DEF Kinds
<1>6. GrowsLog
  BY <1>1, <1>3 DEF GrowsLog, Kinds
<1>7. \A r \in Revision : roots[r] # None => roots'[r] = roots[r]
  BY <1>1, <1>2 DEF Kinds
<1>8. Grows
  BY <1>1, <1>3, <1>6, <1>7, AttemptAssumption DEF Grows, Kinds
<1>9. \A o \in Client \ {c} : call'[o] = call[o]
  BY <1>1, <1>2, SucceedIs DEF Kinds
<1>10. \A o \in Client \ {c} : Respects(o)
  BY <1>1, <1>2, <1>3, SucceedIs DEF Respects
<1> QED BY <1>5, <1>8, <1>9, <1>10

LEMMA PublishKeeps ==
    ASSUME IInv, NEW c \in Client, Publish(c), UNCHANGED finalization
    PROVE  IInv'
<1>1. Kinds /\ ChainInv /\ CallInv /\ FinalInv /\ EndInv /\ TellInv
  BY DEF IInv
<1>2. Kinds' /\ Grows /\ \A o \in Client \ {c} : call'[o] = call[o] /\ Respects(o)
  BY PublishGrows
<1>3. PICK j \in Calls :
         /\ call[c] = j /\ j.at = "root" /\ j.at \in After /\ StageInv(j, c) /\ StandsOn(j)
         /\ j.rev \in Revision /\ j.new \in Snapshot /\ j.new # None
         /\ roots' = [roots EXCEPT ![j.rev] = j.new] /\ roots[j.rev] = None
         /\ IsNext(j.rev) /\ Succeed(c, j) /\ ~Proving
  BY PublishIs
<1>4. /\ UNCHANGED <<log, adapter, clock>> /\ proofs' = proofs /\ final' = final
      /\ call'[c] = Idle /\ told'[c] = [rev |-> j.rev, arg |-> j.arg, s |-> j.s]
      /\ \A o \in Client \ {c} : told'[o] = told[o]
  <2>1. call' = [call EXCEPT ![c] = Idle]
    BY <1>1, <1>3, SucceedIs
  <2>2. call'[c] = Idle
    BY <1>1, <2>1 DEF Kinds
  <2> QED BY <1>1, <1>3, <2>2, SucceedIs DEF Publish, finalization
<1>5. roots'[j.rev] = j.new /\ \A r \in Revision \ {j.rev} : roots'[r] = roots[r]
  BY <1>1, <1>3 DEF Kinds
<1>6. /\ Len(j.new.out) = j.rev /\ Supports(j.new.out) /\ OutputFits(j)
      /\ j.new.stamp <= clock /\ j.new.out \in Seq(Output)
      /\ j.rev # 0 => /\ roots[j.rev - 1] # None
                      /\ j.new.stamp \in roots[j.rev - 1].stamp .. roots[j.rev - 1].stamp + Timeout
                      /\ j.new.out = Append(roots[j.rev - 1].out, j.new.out[j.rev])
  BY <1>3 DEF StandsOn, Snapshot
<1>7. CallInv'
  BY <1>1, <1>2, <1>4, IdleIs, OneMoves
<1>8. ChainInv'
  <2>1. ASSUME NEW r \in Revision, NEW x \in Snapshot, roots'[r] = x
        PROVE  Len(x.out) = r /\ x.stamp <= clock' /\ Supports(x.out)'
    <3>0. x.out \in Seq(Output)
      BY DEF Snapshot
    <3>1. Len(x.out) = r /\ x.stamp <= clock /\ Supports(x.out)
      <4>1. CASE r = j.rev
        BY <1>5, <1>6, <2>1, <4>1
      <4>2. CASE r # j.rev
        BY <1>1, <1>5, <2>1, <4>2 DEF ChainInv
      <4> QED BY <4>1, <4>2
    <3> QED BY <1>1, <1>2, <1>4, <3>0, <3>1, SupportsGrow
  <2>2. ASSUME NEW r \in Revision, roots'[r] # None, r # 0
        PROVE  /\ roots'[r - 1] # None
               /\ roots'[r].out = Append(roots'[r - 1].out, roots'[r].out[r])
               /\ roots'[r].stamp \in roots'[r - 1].stamp .. roots'[r - 1].stamp + Timeout
    <3>1. r - 1 \in Revision /\ r - 1 < r /\ j.rev \in Nat /\ r \in Nat
      <4>1. j.rev \in Revision /\ r \in Revision /\ r # 0
        BY <1>3, <2>2
      <4> QED BY <4>1 DEF Revision
    <3>2. CASE r = j.rev
      <4>1. roots'[r - 1] = roots[r - 1] /\ roots'[r] = j.new
        BY <1>5, <3>1, <3>2
      <4> QED BY <1>6, <2>2, <3>2, <4>1
    <3>3. CASE r # j.rev
      <4>1. roots[r] # None /\ roots'[r] = roots[r]
        BY <1>5, <2>2, <3>3
      <4>2. r < j.rev /\ r - 1 # j.rev
        BY <1>3, <3>1, <4>1 DEF IsNext
      <4>3. roots'[r - 1] = roots[r - 1]
        BY <1>5, <3>1, <4>2
      <4>4. r \in Published \ {0}
        BY <2>2, <4>1 DEF Published
      <4>5. /\ roots[r - 1] # None
            /\ roots[r].out = Append(roots[r - 1].out, roots[r].out[r])
            /\ roots[r].stamp \in roots[r - 1].stamp .. roots[r - 1].stamp + Timeout
        BY <1>1, <4>4 DEF ChainInv, ChainLoads
      <4> QED BY <4>1, <4>3, <4>5
    <3> QED BY <3>2, <3>3
  <2>3. ChainLoads'
    BY <2>2 DEF ChainLoads, Published
  <2> QED BY <2>1, <2>3 DEF ChainInv
<1>9. FinalInv'
  BY <1>1, <1>2, <1>4, FinalStays
<1>10. EndInv'
  <2>1. ~Proving'
    BY <1>2, <1>3, <1>4, IdleIs DEF Proving
  <2>2. proofs' = {}
    BY <1>3, <1>4 DEF Proving
  <2> QED BY <2>1, <2>2 DEF EndInv
<1>11. TellInv'
  <2>1. ASSUME NEW t \in Tellings, told'[c] = t
        PROVE  Recorded(t)'
    <3>1. t = [rev |-> j.rev, arg |-> j.arg, s |-> j.s]
      BY <1>4, <2>1
    <3>2. t.rev = j.rev /\ t.arg = j.arg /\ t.s = j.s /\ t.rev \notin {8, 9}
      BY <1>3, <3>1 DEF Revision
    <3> QED BY <1>3, <1>5, <1>6, <3>2 DEF Recorded, OutputFits
  <2> QED BY <1>1, <1>2, <1>4, <2>1, TellStays
<1> QED BY <1>2, <1>7, <1>8, <1>9, <1>10, <1>11 DEF IInv

--------------------------------------------------------------------------------
(* The steps of a finalization.                                            *)
LEMMA GraphIs ==
    ASSUME Kinds, ChainInv, NEW p \in Proof, Graph(p)
    PROVE  Proven(p) /\ Ended
<1>1. Ended /\ Resolved(p) /\ Supported(p)
  BY DEF Graph
<1>2. roots[6] # None
  BY <1>1, EndIs DEF Ended, ChainInv
<1>3. [arg |-> p.run].arg = p.run
  OBVIOUS
<1>4. Fixes(roots[6].out, p.run)
  BY <1>1, <1>3 DEF Supported, Verified, Fixes
<1>5. Len(log[roots[6].out[4].session]) = p.revision
  BY <1>1 DEF Resolved
<1> QED BY <1>1, <1>2, <1>4, <1>5 DEF Proven

LEMMA NewerIs ==
    ASSUME FinalInv, NEW p, NEW rev \in {0, 1}, Matches(p, rev)
    PROVE  Newer \in {0, 1} /\ Matches(p, Newer)
BY DEF FinalInv, Matches, Newer

(* A caller that is at none of the steps of a stage.                       *)
LEMMA ClosingStage ==
    ASSUME NEW c, NEW k, k.at \in Closing
    PROVE  StageInv(k, c)' /\ k.at # "root"
BY DEF StageInv, Closing, Before, After

(* A caller that begins a finalization, or completes one, goes to a step    *)
(* of it.                                                                  *)
LEMMA GoingMoves ==
    ASSUME IInv, NEW c \in Client, Bind(c) \/ Complete(c),
           NEW at \in Closing, NEW p \in Proof, NEW rev \in {0, 1}, Going(c, at, p, rev),
           diagnosis' \in {diagnosis, c}
    PROVE  \E k \in Calls : Moves(c, k) /\ k.at = at /\ k.rev = rev /\ k.arg = p
<1>1. Kinds
  BY DEF IInv
<1>2. at \in Steps /\ rev \in Revision
  BY DEF Steps, Revision
<1>3. PICK i \in Calls : i = Idle
  BY IdleIs
<1>4. PICK k \in Calls : k = [i EXCEPT !.at = at, !.rev = rev, !.arg = p]
  BY <1>2 DEF Calls
<1>5. call' = [call EXCEPT ![c] = k]
  BY <1>3, <1>4 DEF Going
<1>6. diagnosis = None /\ told' = [told EXCEPT ![c] = None]
      /\ UNCHANGED <<log, adapter, clock, project, roots, evidence, finalization>>
  BY DEF Bind, Complete
<1>7. /\ told' \in [Client -> Tellings \cup {None}] /\ told'[c] = None
      /\ \A o \in Client \ {c} : told'[o] = told[o]
  BY <1>1, <1>6 DEF Kinds
<1>8. diagnosis' \in Client \cup {None}
  BY <1>6
<1>9. \A o \in Client \ {c} : diagnosis = o => diagnosis' = o
  BY <1>6, AttemptAssumption
<1>10. Moves(c, k)
  BY <1>1, <1>5, <1>6, <1>7, <1>8, <1>9 DEF Moves, Kinds
<1>11. k.at = at /\ k.rev = rev /\ k.arg = p
  BY <1>4 DEF Calls
<1> QED BY <1>10, <1>11

LEMMA BindKeeps ==
    ASSUME IInv, NEW c \in Client, Bind(c)
    PROVE  IInv'
<1>0. {"answer", "bound", "bind", "held"} \subseteq Closing
  BY DEF Closing
<1>1. Kinds /\ ChainInv /\ FinalInv
  BY DEF IInv
<1>2. PICK p \in Proof :
         /\ Graph(p)
         /\ \/ Matches(p, 0) /\ Going(c, "answer", p, Newer) /\ UNCHANGED diagnosis
            \/ /\ final[0] = None /\ p \in proofs
               /\ Going(c, "bound", p, 0) /\ UNCHANGED diagnosis
            \/ /\ final[0] = None /\ p \notin proofs /\ StillBuilt
               /\ Going(c, "bind", p, 0) /\ diagnosis' = c
  BY DEF Bind
<1>3. Proven(p)
  BY <1>1, <1>2, GraphIs
<1>4. adapter = "physical" /\ UNCHANGED <<log, adapter, clock, project, roots, finalization>>
  BY DEF Bind
<1>5. Grows
  BY <1>1, <1>4, QuietGrows DEF project
<1>6. CASE Matches(p, 0) /\ Going(c, "answer", p, Newer) /\ UNCHANGED diagnosis
  <2>1. Newer \in {0, 1} /\ Matches(p, Newer)
    BY <1>1, <1>6, NewerIs
  <2>2. PICK k \in Calls : Moves(c, k) /\ k.at = "answer" /\ k.rev = Newer /\ k.arg = p
    BY <2>1, <1>0, <1>6, GoingMoves
  <2>4. k.at \in Closing
    BY <2>2 DEF Closing
  <2>5. ClosingInv(k, c)'
    BY <1>4, <1>5, <2>1, <2>2, MatchesStays DEF ClosingInv, Closing
  <2> QED BY <2>2, <2>4, <2>5, ClosingStage, MoveKeeps
<1>7. CASE /\ final[0] = None /\ p \in proofs
           /\ Going(c, "bound", p, 0) /\ UNCHANGED diagnosis
  <2>1. PICK k \in Calls : Moves(c, k) /\ k.at = "bound" /\ k.rev = 0 /\ k.arg = p
    BY <1>0, 0 \in {0, 1}, <1>7, GoingMoves
  <2>3. k.at \in Closing
    BY <2>1 DEF Closing
  <2>4. ClosingInv(k, c)'
    BY <1>4, <1>7, <2>1 DEF ClosingInv, Closing, finalization
  <2> QED BY <2>1, <2>3, <2>4, ClosingStage, MoveKeeps
<1>8. CASE /\ final[0] = None /\ p \notin proofs /\ StillBuilt
           /\ Going(c, "bind", p, 0) /\ diagnosis' = c
  <2>1. PICK k \in Calls : Moves(c, k) /\ k.at = "bind" /\ k.rev = 0 /\ k.arg = p
    BY <1>0, 0 \in {0, 1}, <1>8, GoingMoves
  <2>3. k.at \in Closing
    BY <2>1 DEF Closing
  <2>4. Proven(p)'
    BY <1>1, <1>3, <1>5, ProvenGrows
  <2>5. ClosingInv(k, c)'
    BY <1>4, <1>8, <2>1, <2>4 DEF ClosingInv, Closing
  <2> QED BY <2>1, <2>3, <2>5, ClosingStage, MoveKeeps
<1> QED BY <1>2, <1>6, <1>7, <1>8

LEMMA CompleteKeeps ==
    ASSUME IInv, NEW c \in Client, Complete(c)
    PROVE  IInv'
<1>0. {"answer", "bound", "bind", "held"} \subseteq Closing
  BY DEF Closing
<1>1. Kinds /\ ChainInv /\ FinalInv
  BY DEF IInv
<1>2. PICK p \in proofs :
         /\ Matches(p, 0)
         /\ \/ final[1] # None /\ Going(c, "answer", p, 1) /\ UNCHANGED diagnosis
            \/ /\ final[1] = None /\ StillBuilt /\ OpenAt(clock)
               /\ Going(c, "held", p, 1) /\ diagnosis' = c
  BY DEF Complete
<1>3. p \in Proof
  BY <1>1 DEF Kinds
<1>4. adapter = "physical" /\ UNCHANGED <<log, adapter, clock, project, roots, finalization>>
  BY DEF Complete
<1>5. Grows
  BY <1>1, <1>4, QuietGrows DEF project
<1>6. Matches(p, 0)'
  BY <1>2, <1>5, MatchesStays
<1>7. CASE final[1] # None /\ Going(c, "answer", p, 1) /\ UNCHANGED diagnosis
  <2>1. PICK k \in Calls : Moves(c, k) /\ k.at = "answer" /\ k.rev = 1 /\ k.arg = p
    BY <1>3, <1>0, 1 \in {0, 1}, <1>7, GoingMoves
  <2>3. Matches(p, 1)
    BY <1>1, <1>2, <1>7 DEF FinalInv, Matches
  <2>4. k.at \in Closing
    BY <2>1 DEF Closing
  <2>5. ClosingInv(k, c)'
    BY <1>3, <1>4, <1>5, <2>1, <2>3, MatchesStays DEF ClosingInv, Closing
  <2> QED BY <2>1, <2>4, <2>5, ClosingStage, MoveKeeps
<1>8. CASE /\ final[1] = None /\ StillBuilt /\ OpenAt(clock)
           /\ Going(c, "held", p, 1) /\ diagnosis' = c
  <2>1. PICK k \in Calls : Moves(c, k) /\ k.at = "held" /\ k.rev = 1 /\ k.arg = p
    BY <1>3, <1>0, 1 \in {0, 1}, <1>8, GoingMoves
  <2>3. k.at \in Closing
    BY <2>1 DEF Closing
  <2>4. ClosingInv(k, c)'
    BY <1>3, <1>4, <1>6, <1>8, <2>1 DEF ClosingInv, Closing, finalization
  <2> QED BY <2>1, <2>3, <2>4, ClosingStage, MoveKeeps
<1> QED BY <1>2, <1>7, <1>8

LEMMA ReopenKeeps ==
    ASSUME IInv, NEW c \in Client, Reopen(c)
    PROVE  IInv'
<1>1. Kinds /\ TellInv
  BY DEF IInv
<1>2. PICK j \in Calls : call[c] = j /\ ClosingInv(j, c)
  BY CallIs
<1>3. j.at = "bound"
  BY <1>2 DEF Reopen
<1>4. PICK k \in Calls : k = [j EXCEPT !.at = "held"]
  BY DEF Calls, Steps, Closing
<1>5. k.at = "held" /\ k.rev = j.rev /\ k.arg = j.arg /\ k.at \in Closing
  BY <1>4 DEF Calls, Closing
<1>6. call' = [call EXCEPT ![c] = k]
  BY <1>1, <1>2, <1>4 DEF Kinds, Reopen
<1>7. Moves(c, k)
  BY <1>1, <1>6, AttemptAssumption DEF Reopen, Moves, Kinds, TellInv
<1>8. /\ adapter = "physical" /\ j.arg \in Proof /\ j.rev \in {0, 1} /\ j.arg \in proofs
      /\ j.rev = 1 => Matches(j.arg, 0)
  BY <1>2, <1>3 DEF ClosingInv, Closing
<1>9. adapter' = adapter /\ proofs' = proofs /\ final' = final /\ diagnosis' = c
  BY DEF Reopen, finalization
<1>10. ClosingInv(k, c)'
  BY <1>5, <1>8, <1>9 DEF ClosingInv, Matches
<1> QED BY <1>5, <1>7, <1>10, ClosingStage, MoveKeeps

LEMMA LockFinalKeeps ==
    ASSUME IInv, NEW c \in Client, LockFinal(c)
    PROVE  IInv'
<1>1. Kinds /\ TellInv /\ FinalInv
  BY DEF IInv
<1>2. PICK j \in Calls : call[c] = j /\ ClosingInv(j, c)
  BY CallIs
<1>3. j.at = "held"
  BY <1>2 DEF LockFinal
<1>4. /\ adapter = "physical" /\ j.arg \in Proof /\ j.rev \in {0, 1} /\ j.arg \in proofs
      /\ j.rev = 1 => Matches(j.arg, 0)
      /\ diagnosis = c
  BY <1>2, <1>3 DEF ClosingInv, Closing
<1>5. /\ adapter' = adapter /\ proofs' = proofs /\ final' = final /\ evidence = None
      /\ clock' = clock
  BY DEF LockFinal, finalization
<1>6. CASE /\ final[j.rev] # None /\ Matches(j.arg, j.rev)
           /\ call' = [call EXCEPT ![c].at = "answer", ![c].rev = Newer]
           /\ diagnosis' = None /\ UNCHANGED evidence
  <2>1. Newer \in {0, 1} /\ Matches(j.arg, Newer)
    BY <1>1, <1>4, <1>6, NewerIs
  <2>0. Newer \in Revision /\ "answer" \in Steps
    BY <2>1 DEF Steps, Closing, Revision
  <2>2. PICK k \in Calls : k = [j EXCEPT !.at = "answer", !.rev = Newer]
    BY <2>0 DEF Calls
  <2>3. k.at = "answer" /\ k.rev = Newer /\ k.arg = j.arg /\ k.at \in Closing
    BY <2>2 DEF Calls, Closing
  <2>4. call' = [call EXCEPT ![c] = k]
    BY <1>1, <1>2, <1>6, <2>2 DEF Kinds
  <2>5. Moves(c, k)
    BY <1>1, <1>4, <1>6, <2>4 DEF LockFinal, Moves, Kinds, TellInv
  <2>6. ClosingInv(k, c)'
    BY <1>4, <1>5, <2>1, <2>3 DEF ClosingInv, Matches
  <2> QED BY <2>3, <2>5, <2>6, ClosingStage, MoveKeeps
<1>7. CASE /\ final[j.rev] = None /\ Ended /\ StillBuilt /\ (j.rev = 1 => OpenAt(clock))
           /\ call' = [call EXCEPT ![c].at = "stamped", ![c].new = clock]
           /\ evidence' = c /\ UNCHANGED diagnosis
  <2>1. clock \in 0 .. MaxClock /\ clock \in Nat
    BY <1>1, AttemptAssumption DEF Kinds
  <2>2. PICK k \in Calls : k = [j EXCEPT !.at = "stamped", !.new = clock]
    BY <2>1 DEF Calls, Steps, Closing
  <2>3. k.at = "stamped" /\ k.rev = j.rev /\ k.arg = j.arg /\ k.new = clock /\ k.at \in Closing
    BY <2>2 DEF Calls, Closing
  <2>4. call' = [call EXCEPT ![c] = k]
    BY <1>1, <1>2, <1>7, <2>2 DEF Kinds
  <2>5. Moves(c, k)
    <3>1. \A o \in Client \ {c} : /\ (evidence = o => evidence' = o)
                                  /\ (diagnosis = o => diagnosis' = o)
      BY <1>5, <1>7, AttemptAssumption
    <3>2. evidence' \in Client \cup {None} /\ diagnosis' \in Client \cup {None}
      BY <1>1, <1>7 DEF Kinds
    <3> QED BY <1>1, <2>4, <3>1, <3>2 DEF LockFinal, Moves, Kinds, TellInv
  <2>6. j.rev = 1 => clock \in final[0].stamp .. final[0].stamp + Window
    <3> SUFFICES ASSUME j.rev = 1
                 PROVE  clock \in final[0].stamp .. final[0].stamp + Window
      OBVIOUS
    <3>1. final[0] # None
      BY <1>4 DEF Matches
    <3>2. final[0] \in Finals
      BY <1>1, <3>1 DEF Kinds
    <3>3. final[0].stamp \in Nat /\ final[0].stamp <= clock
      BY <1>1, <3>1, <3>2, AttemptAssumption DEF Finals, FinalInv
    <3>4. clock <= final[0].stamp + Window
      BY <1>7 DEF OpenAt
    <3> QED BY <2>1, <3>3, <3>4, WindowAssumption
  <2>7. k.new \in 0 .. clock'
    BY <1>5, <2>1, <2>3
  <2>8. ClosingInv(k, c)'
    BY <1>4, <1>5, <1>7, <2>3, <2>6, <2>7 DEF ClosingInv, Matches
  <2> QED BY <2>3, <2>5, <2>8, ClosingStage, MoveKeeps
<1> QED BY <1>2, <1>6, <1>7 DEF LockFinal

LEMMA AnswerKeeps ==
    ASSUME IInv, NEW c \in Client, Answer(c)
    PROVE  IInv'
<1>1. Kinds /\ TellInv
  BY DEF IInv
<1>2. PICK j \in Calls : call[c] = j /\ ClosingInv(j, c)
  BY CallIs
<1>3. j.at = "answer"
  BY <1>2 DEF Answer
<1>4. j.arg \in Proof /\ j.rev \in {0, 1} /\ Matches(j.arg, j.rev)
  BY <1>2, <1>3 DEF ClosingInv, Closing
<1>5. told' = [told EXCEPT ![c] = [rev |-> 8 + j.rev, arg |-> j.arg, s |-> None]]
  BY <1>2 DEF Answer
<1>6. [rev |-> 8 + j.rev, arg |-> j.arg, s |-> None] \in Tellings
  BY <1>4 DEF Tellings
<1>7. ASSUME NEW t \in Tellings, t = [rev |-> 8 + j.rev, arg |-> j.arg, s |-> None]
      PROVE  Recorded(t)
  <2>1. t.rev = 8 + j.rev /\ t.arg = j.arg
    BY <1>7
  <2>2. t.rev \notin Revision /\ t.rev # 4 /\ t.rev - 8 = j.rev
    BY <1>4, <2>1 DEF Revision
  <2> QED BY <1>4, <2>1, <2>2 DEF Recorded
<1>8. /\ told' \in [Client -> Tellings \cup {None}]
      /\ told'[c] = [rev |-> 8 + j.rev, arg |-> j.arg, s |-> None]
      /\ \A o \in Client \ {c} : told'[o] = told[o]
  BY <1>1, <1>5, <1>6 DEF Kinds
<1>9. Moves(c, Idle)
  BY <1>1, <1>7, <1>8 DEF Answer, Moves, Kinds
<1> QED BY <1>9, IdleIs, MoveKeeps

LEMMA LockProofKeeps ==
    ASSUME IInv, NEW c \in Client, LockProof(c)
    PROVE  IInv'
<1>1. Kinds /\ ChainInv /\ CallInv /\ EndInv /\ TellInv
  BY DEF IInv
<1>2. PICK j \in Calls : call[c] = j /\ ClosingInv(j, c)
  BY CallIs
<1>3. j.at = "bind"
  BY <1>2 DEF LockProof
<1>4. PICK k \in Calls : k = [j EXCEPT !.at = "prove"]
  BY DEF Calls, Steps, Closing
<1>5. k.at = "prove" /\ k.rev = j.rev /\ k.arg = j.arg /\ k.at \in Closing
  BY <1>4 DEF Calls, Closing
<1>6. call' = [call EXCEPT ![c] = k]
  BY <1>1, <1>2, <1>4 DEF Kinds, LockProof
<1>7. Moves(c, k)
  BY <1>1, <1>6, AttemptAssumption DEF LockProof, Moves, Kinds, TellInv
<1>8. Kinds' /\ Grows /\ \A o \in Client \ {c} : call'[o] = call[o]
  BY <1>1, <1>7, MoveGrows
<1>9. adapter = "physical" /\ j.arg \in Proof /\ Proven(j.arg) /\ diagnosis = c /\ j.rev = 0
  BY <1>2, <1>3 DEF ClosingInv, Closing
<1>10. /\ adapter' = adapter /\ proofs' = proofs /\ roots' = roots
       /\ diagnosis' = diagnosis /\ evidence = None /\ evidence' = c /\ call'[c] = k
  BY <1>1, <1>6 DEF LockProof, finalization, Kinds
<1>11. ClosingInv(k, c)'
  <2>1. Proven(j.arg)'
    BY <1>1, <1>8, <1>9, ProvenGrows
  <2> QED BY <1>5, <1>9, <1>10, <2>1 DEF ClosingInv
<1>12. EndInv'
  <2>1. Ended'
    BY <1>1, <1>8, <1>10, EndedStays DEF LockProof
  <2>2. ASSUME NEW o \in Client, call'[o].at = "root"
        PROVE  FALSE
    <3>1. o # c /\ call[o].at = "root"
      BY <1>5, <1>8, <1>10, <2>2
    <3>2. PICK x \in Calls : call[o] = x /\ StageInv(x, o)
      BY CallIs
    <3>3. evidence = o
      BY <3>1, <3>2 DEF StageInv
    <3> QED BY <1>10, <3>3, AttemptAssumption
  <2>3. \A p \in proofs' : Proven(p)'
    BY <1>1, <1>8, <1>10, ProvenGrows DEF EndInv
  <2> QED BY <1>9, <1>10, <2>1, <2>2, <2>3 DEF EndInv
<1> QED BY <1>5, <1>7, <1>11, <1>12, ClosingStage, MoveLeaves

LEMMA PublishProofKeeps ==
    ASSUME IInv, NEW c \in Client, PublishProof(c)
    PROVE  IInv'
<1>1. Kinds /\ ChainInv /\ CallInv /\ FinalInv /\ EndInv /\ TellInv
  BY DEF IInv
<1>2. PICK j \in Calls : call[c] = j /\ ClosingInv(j, c)
  BY CallIs
<1>3. j.at = "prove"
  BY <1>2 DEF PublishProof
<1>4. /\ adapter = "physical" /\ j.arg \in Proof /\ Proven(j.arg) /\ diagnosis = c
      /\ j.rev = 0 /\ evidence = c
  BY <1>2, <1>3 DEF ClosingInv, Closing
<1>5. PICK k \in Calls : k = [j EXCEPT !.at = "bound"]
  BY DEF Calls, Steps, Closing
<1>6. k.at = "bound" /\ k.rev = j.rev /\ k.arg = j.arg /\ k.at \in Closing
  BY <1>5 DEF Calls, Closing
<1>7. call' = [call EXCEPT ![c] = k]
  BY <1>1, <1>2, <1>5 DEF Kinds, PublishProof
<1>8. /\ UNCHANGED <<log, adapter, clock, source, firmware, runs, roots, told, final>>
      /\ proofs' = proofs \cup {j.arg} /\ evidence' = None /\ diagnosis' = None
  BY <1>2 DEF PublishProof, project
<1>9. Kinds'
  BY <1>1, <1>4, <1>7, <1>8 DEF Kinds
<1>10. Grows
  <2>1. GrowsLog
    BY <1>1, <1>8 DEF GrowsLog, Kinds
  <2> QED BY <1>1, <1>8, <2>1, AttemptAssumption DEF Grows, Kinds
<1>11. call'[c] = k /\ \A o \in Client \ {c} : call'[o] = call[o] /\ Respects(o)
  BY <1>1, <1>4, <1>7, <1>8 DEF Kinds, Respects
<1>12. StageInv(k, c)' /\ ClosingInv(k, c)'
  BY <1>4, <1>6, <1>8, ClosingStage DEF ClosingInv
<1>13. CallInv'
  BY <1>1, <1>9, <1>10, <1>11, <1>12, OneMoves
<1>14. ChainInv' /\ FinalInv'
  BY <1>1, <1>8, <1>9, <1>10, ChainStays, FinalStays
<1>15. TellInv'
  BY <1>1, <1>8, <1>10, RecordedStays DEF TellInv
<1>16. EndInv'
  <2>1. Proving
    BY <1>2, <1>3 DEF Proving
  <2>2. Ended'
    BY <1>1, <1>8, <1>9, <1>10, <2>1, EndedStays DEF EndInv
  <2>3. \A o \in Client : call'[o].at # "root"
    BY <1>1, <1>6, <1>11, <2>1 DEF EndInv
  <2>4. \A p \in proofs' : Proven(p)'
    BY <1>1, <1>4, <1>8, <1>10, ProvenGrows DEF EndInv
  <2> QED BY <1>4, <1>8, <2>2, <2>3, <2>4 DEF EndInv
<1> QED BY <1>9, <1>13, <1>14, <1>15, <1>16 DEF IInv

LEMMA PublishFinalKeeps ==
    ASSUME IInv, NEW c \in Client, PublishFinal(c)
    PROVE  IInv'
<1>1. Kinds /\ ChainInv /\ CallInv /\ FinalInv /\ EndInv /\ TellInv
  BY DEF IInv
<1>2. PICK j \in Calls : call[c] = j /\ ClosingInv(j, c)
  BY CallIs
<1>3. j.at = "stamped"
  BY <1>2 DEF PublishFinal
<1>4. /\ adapter = "physical" /\ j.arg \in Proof /\ j.rev \in {0, 1} /\ j.arg \in proofs
      /\ j.rev = 1 => Matches(j.arg, 0)
      /\ evidence = c /\ diagnosis = c
      /\ final[j.rev] = None /\ j.new \in 0 .. clock
      /\ j.rev = 1 => j.new \in final[0].stamp .. final[0].stamp + Window
  BY <1>2, <1>3 DEF ClosingInv, Closing
<1>5. j.new \in 0 .. MaxClock /\ j.new <= clock
  BY <1>1, <1>4, AttemptAssumption DEF Kinds
<1>6. PICK x \in Finals : x = [proof |-> j.arg, stamp |-> j.new]
  BY <1>4, <1>5 DEF Finals
<1>7. x.proof = j.arg /\ x.stamp = j.new /\ x # None
  BY <1>6, NoneIsNoProof DEF Finals
<1>8. PICK k \in Calls : k = [j EXCEPT !.at = "answer", !.new = None]
  BY DEF Calls, Steps, Closing
<1>9. k.at = "answer" /\ k.rev = j.rev /\ k.arg = j.arg /\ k.at \in Closing
  BY <1>8 DEF Calls, Closing
<1>10. call' = [call EXCEPT ![c] = k]
  BY <1>1, <1>2, <1>8 DEF Kinds, PublishFinal
<1>11. /\ UNCHANGED <<log, adapter, clock, source, firmware, runs, roots, told, proofs>>
       /\ final' = [final EXCEPT ![j.rev] = x] /\ evidence' = None /\ diagnosis' = None
  BY <1>2, <1>6 DEF PublishFinal, project
<1>12. Kinds'
  BY <1>1, <1>10, <1>11 DEF Kinds
<1>13. final'[j.rev] = x /\ \A rev \in {0, 1} \ {j.rev} : final'[rev] = final[rev]
  BY <1>1, <1>4, <1>11 DEF Kinds
<1>14. Grows
  <2>1. GrowsLog
    BY <1>1, <1>11 DEF GrowsLog, Kinds
  <2>2. \A rev \in {0, 1} : final[rev] # None => final'[rev] = final[rev]
    BY <1>4, <1>13
  <2> QED BY <1>1, <1>11, <2>1, <2>2, AttemptAssumption DEF Grows, Kinds
<1>15. call'[c] = k /\ \A o \in Client \ {c} : call'[o] = call[o] /\ Respects(o)
  BY <1>1, <1>4, <1>10, <1>11 DEF Kinds, Respects
<1>16. StageInv(k, c)' /\ ClosingInv(k, c)'
  <2>1. Matches(k.arg, k.rev)'
    BY <1>7, <1>9, <1>13 DEF Matches
  <2>2. ClosingInv(k, c)'
    BY <1>4, <1>9, <1>11, <2>1 DEF ClosingInv
  <2> QED BY <1>9, <2>2, ClosingStage
<1>17. CallInv'
  BY <1>1, <1>12, <1>14, <1>15, <1>16, OneMoves
<1>18. ChainInv'
  BY <1>1, <1>11, <1>12, <1>14, ChainStays
<1>19. FinalInv'
  <2>1. CASE j.rev = 0
    <3>1. final'[0] = x /\ final'[1] = final[1] /\ final[1] = None
      BY <1>1, <1>4, <1>13, <2>1 DEF FinalInv
    <3> QED BY <1>4, <1>5, <1>7, <1>11, <3>1 DEF FinalInv
  <2>2. CASE j.rev = 1
    <3>1. final'[1] = x /\ final'[0] = final[0]
      BY <1>13, <2>2
    <3>2. final[0] # None /\ final[0].proof = j.arg
      BY <1>4, <2>2 DEF Matches
    <3> QED BY <1>1, <1>4, <1>7, <1>11, <2>2, <3>1, <3>2 DEF FinalInv
  <2> QED BY <1>4, <2>1, <2>2
<1>20. TellInv'
  BY <1>1, <1>11, <1>14, RecordedStays DEF TellInv
<1>21. EndInv'
  <2>1. \A o \in Client : call'[o].at = "prove" => call[o].at = "prove"
    BY <1>9, <1>15
  <2>2. \A o \in Client : Proving /\ call'[o].at = "root" => call[o].at = "root"
    BY <1>9, <1>15
  <2> QED BY <1>1, <1>11, <1>12, <1>14, <2>1, <2>2, EndStays
<1> QED BY <1>12, <1>17, <1>18, <1>19, <1>20, <1>21 DEF IInv

--------------------------------------------------------------------------------
(* The invariant holds of every behaviour.                                 *)
LEMMA InvariantInit == FInit => IInv
<1> SUFFICES ASSUME FInit
             PROVE  IInv
  OBVIOUS
<1> USE DEF FInit, Init
<1>1. Kinds
  <2>1. log \in [Sessions -> Seq(Event)]
    OBVIOUS
  <2>2. call \in [Client -> Calls]
    BY IdleIs
  <2>3. clock \in 0 .. MaxClock
    BY AttemptAssumption
  <2> QED BY <2>1, <2>2, <2>3 DEF Kinds
<1>2. \A r \in Revision : roots[r] = None
  OBVIOUS
<1>3. ChainInv
  BY <1>2, NoneIsNoSnapshot DEF ChainInv, ChainLoads, Published
<1>4. CallInv
  <2> SUFFICES ASSUME NEW c \in Client, NEW k \in Calls, call[c] = k
               PROVE  StageInv(k, c) /\ ClosingInv(k, c)
    BY DEF CallInv
  <2>1. k.at = "idle"
    BY IdleIs
  <2> QED BY <2>1 DEF StageInv, ClosingInv, Before, After, Closing
<1>5. FinalInv
  BY DEF FinalInv
<1>6. EndInv
  <2>1. ~Proving
    BY IdleIs DEF Proving
  <2> QED BY <2>1 DEF EndInv
<1>7. TellInv
  BY DEF TellInv
<1> QED BY <1>1, <1>3, <1>4, <1>5, <1>6, <1>7 DEF IInv

LEMMA StutterKeeps ==
    ASSUME IInv, UNCHANGED <<vars, finalization>>
    PROVE  IInv'
<1>1. Kinds
  BY DEF IInv
<1>2. /\ UNCHANGED <<log, adapter, clock, source, firmware, runs, attempt, finalization>>
      /\ UNCHANGED <<roots, evidence, diagnosis, call, told, proofs, final>>
  BY DEF vars, project, attempt, finalization
<1>3. Kinds'
  BY <1>1, <1>2 DEF Kinds
<1>4. Grows
  BY <1>1, <1>2, QuietGrows
<1> QED BY <1>2, <1>3, <1>4, AroundKeeps

LEMMA InvariantNext == IInv /\ [FNext]_<<vars, finalization>> => IInv'
<1> SUFFICES ASSUME IInv, [FNext]_<<vars, finalization>>
             PROVE  IInv'
  OBVIOUS
<1>1. CASE Tick /\ UNCHANGED finalization
  BY <1>1, TickKeeps
<1>2. CASE (Edit \/ Compile) /\ UNCHANGED finalization
  BY <1>2, ProjectKeeps
<1>3. CASE TestTarget /\ UNCHANGED finalization
  BY <1>3, TestKeeps
<1>4. CASE Diagnose /\ UNCHANGED finalization
  BY <1>4, DiagnoseKeeps
<1>5. ASSUME NEW c \in Client, Step(c), UNCHANGED finalization
      PROVE  IInv'
  BY <1>5, GiveUpKeeps, RetriedKeeps, StartKeeps, ReadFirmwareKeeps, ReadInputsKeeps,
     CheckKeeps, LockKeeps, ConfirmKeeps, PublishKeeps DEF Step
<1>6. ASSUME NEW c \in Client, Finalize(c)
      PROVE  IInv'
  BY <1>6, BindKeeps, LockProofKeeps, PublishProofKeeps, ReopenKeeps, CompleteKeeps,
     LockFinalKeeps, PublishFinalKeeps, AnswerKeeps DEF Finalize
<1>7. CASE UNCHANGED <<vars, finalization>>
  BY <1>7, StutterKeeps
<1> QED BY <1>1, <1>2, <1>3, <1>4, <1>5, <1>6, <1>7 DEF FNext, Next

LEMMA Invariant == FSpec => []IInv
BY InvariantInit, InvariantNext, PTL DEF FSpec

--------------------------------------------------------------------------------
(* Every variable has a value of its kind (TypeOK of AcceptanceAttempt).   *)
THEOREM TypeCorrect == FSpec => []TypeOK
<1>1. IInv => TypeOK
  BY DEF IInv, Kinds, TypeOK, LogTypeOK
<1> QED BY <1>1, Invariant, PTL

(* What _validate_chain_semantics and the loading of a finalization ask of *)
(* the published roots holds after every step, so that no interleaving of  *)
(* callers, crash or late answer leaves an attempt that cannot be used.    *)
THEOREM ChainsLoad == FSpec => []EveryChainLoads
<1>1. IInv => EveryChainLoads
  BY DEF IInv, ChainInv, FinalInv, EveryChainLoads
<1> QED BY <1>1, Invariant, PTL

(* An attempt or a proof stands for a fix: a failing and then a passing    *)
(* test run, with the one change that the diagnosis declared after it was  *)
(* authorized and was resolved by; and an attempt that is finalized does   *)
(* not complete by itself.                                                 *)
THEOREM FixIsReal == FSpec => []FixedOnce
<1>1. IInv => FixedOnce
  <2> SUFFICES ASSUME IInv
               PROVE  FixedOnce
    OBVIOUS
  <2>1. Kinds /\ ChainInv /\ EndInv
    BY DEF IInv
  <2>2. CompletedMeansFixed
    <3> SUFFICES ASSUME roots[7] # None
                 PROVE  CompletedMeansFixed
      BY DEF CompletedMeansFixed
    <3> DEFINE out == roots[7].out
    <3>1. Len(out) = 7 /\ Supports(out)
      BY <2>1, RootIs DEF Revision
    <3> HIDE DEF out
    <3>2. /\ out[3].run = out[2].build /\ [build |-> out[3].run, passed |-> FALSE] \in runs
          /\ out[4].session \in Sessions /\ out[5].revision = out[4].revision
          /\ out[6].build # out[2].build
          /\ adapter = "physical" => out[6].build = out[4].intent
          /\ Fixes(out, out[7].run)
      BY <3>1 DEF Supports, Failed, Undeclared, Authorized, Declares, Completed
    <3>3. PICK i \in 1 .. Len(log[out[4].session]) :
               /\ i > out[4].revision
               /\ log[out[4].session][i].type = "declared"
               /\ log[out[4].session][i].arg = out[6].build
      BY <3>1 DEF Supports, Declares
    <3>4. i \in DOMAIN log[out[4].session]
      BY <2>1, <3>2 DEF Kinds
    <3> QED BY <3>2, <3>3, <3>4 DEF CompletedMeansFixed, Fixes, out
  <2>3. proofs # {} => roots[7] = None /\ roots[6] # None
    BY <2>1, EndIs DEF EndInv, Proving, Ended, ChainInv
  <2>4. ASSUME NEW p \in proofs
        PROVE  LET out == roots[6].out
                   l == log[out[4].session] IN
               /\ {[build |-> out[2].build, passed |-> FALSE],
                   [build |-> p.run, passed |-> TRUE]} \subseteq runs
               /\ p.run = out[4].intent /\ p.run # out[2].build
               /\ In(l, "RESOLVED") /\ Newest(l).arg = p.run /\ Len(l) = p.revision
    <3> DEFINE out == roots[6].out
    <3>1. Proven(p) /\ adapter = "physical"
      BY <2>1 DEF EndInv, Proving
    <3>2. Len(out) = 6 /\ Supports(out)
      BY <2>1, <3>1, RootIs DEF Revision, Proven
    <3>3. Fixes(out, p.run) /\ Len(log[out[4].session]) = p.revision
      BY <3>1 DEF Proven
    <3> HIDE DEF out
    <3>4. /\ out[3].run = out[2].build /\ [build |-> out[3].run, passed |-> FALSE] \in runs
          /\ out[6].build # out[2].build /\ out[6].build = out[4].intent
      BY <3>1, <3>2 DEF Supports, Failed, Declares
    <3> QED BY <3>3, <3>4 DEF Fixes, out
  <2> QED BY <2>2, <2>3, <2>4 DEF FixedOnce
<1> QED BY <1>1, Invariant, PTL

(* Whoever was told that a stage or a finalization is complete, also after *)
(* a retry or next to another caller, asked for what is recorded.          *)
THEOREM AnswersStand == FSpec => []EveryAnswerIsRecorded
<1>1. IInv => EveryAnswerIsRecorded
  <2> SUFFICES ASSUME IInv
               PROVE  EveryAnswerIsRecorded
    OBVIOUS
  <2>1. \A c \in Client : told[c] # None => told[c] \in Tellings /\ Recorded(told[c])
    BY DEF IInv, Kinds, TellInv
  <2>2. AnswersAreRecorded
    BY <2>1 DEF AnswersAreRecorded, Recorded
  <2>3. \A c \in Client : told[c] # None /\ told[c].rev \in {8, 9} =>
                             Matches(told[c].arg, told[c].rev - 8)
    BY <2>1 DEF Recorded
  <2> QED BY <2>2, <2>3 DEF EveryAnswerIsRecorded
<1> QED BY <1>1, Invariant, PTL

(* A physical authorization appears over the diagnosis that was checked:   *)
(* its caller holds the lock of the diagnostic store from before the check *)
(* until its root is published.                                            *)
THEOREM AuthorizationIsCurrent == FSpec => AuthorizedAsDiagnosed
<1> DEFINE A == (adapter = "physical" /\ roots[5] = None /\ roots'[5] # None) =>
                    \E s \in Sessions : /\ s = roots[4].out[4].session
                                        /\ Len(log'[s]) = roots[4].out[4].revision
<1>1. IInv /\ [FNext]_<<vars, finalization>> => A
  <2> SUFFICES ASSUME IInv, [FNext]_<<vars, finalization>>,
                      adapter = "physical", roots[5] = None, roots'[5] # None
               PROVE  \E s \in Sessions : /\ s = roots[4].out[4].session
                                          /\ Len(log'[s]) = roots[4].out[4].revision
    OBVIOUS
  <2>1. Kinds /\ ChainInv
    BY DEF IInv
  <2>2. PICK c \in Client : Publish(c) /\ UNCHANGED finalization
    <3>1. roots' # roots
      OBVIOUS
    <3>2. ~(Tick \/ Edit \/ Compile \/ TestTarget \/ Diagnose)
      BY <3>1 DEF Tick, Edit, Compile, TestTarget, Diagnose, attempt
    <3>3. ASSUME NEW c \in Client, Finalize(c)
          PROVE  FALSE
      BY <3>1, <3>3 DEF Finalize, Bind, LockProof, PublishProof, Reopen, Complete, LockFinal,
         PublishFinal, Answer
    <3>4. ASSUME NEW c \in Client, Step(c)
          PROVE  Publish(c)
      BY <3>1, <3>4 DEF Step, GiveUp, Retried, Start, ReadFirmware, ReadInputs, Check, Lock,
         Confirm
    <3>5. ~UNCHANGED <<vars, finalization>>
      BY <3>1 DEF vars, attempt
    <3> QED BY <3>2, <3>3, <3>4, <3>5 DEF FNext, Next
  <2>3. PICK j \in Calls :
           /\ j.at \in After /\ StageInv(j, c) /\ StandsOn(j)
           /\ j.rev \in Revision /\ j.new \in Snapshot
           /\ roots' = [roots EXCEPT ![j.rev] = j.new]
    BY <2>2, PublishIs
  <2>4. j.rev = 5
    BY <2>1, <2>3 DEF Kinds, Revision
  <2>5. Frozen(j, c) /\ LocksDiagnosis(j)
    BY <2>3, <2>4 DEF StageInv, LocksDiagnosis
  <2>6. Len(log[j.new.out[4].session]) = j.new.out[4].revision
    BY <2>3, <2>5 DEF Frozen
  <2>7. /\ roots[4] # None /\ Len(j.new.out) = 5 /\ Supports(j.new.out)
        /\ j.new.out = Append(roots[4].out, j.new.out[5])
    BY <2>3, <2>4 DEF StandsOn
  <2>8. roots[4].out \in Seq(Output) /\ Len(roots[4].out) = 4
    BY <2>1, <2>7, RootIs DEF Revision
  <2>9. j.new.out[4] = roots[4].out[4]
    BY <2>7, <2>8
  <2>10. j.new.out[4].session \in Sessions
    <3>1. Undeclared(j.new.out) /\ Len(j.new.out) >= 4
      BY <2>7 DEF Supports
    <3>2. j.new.out[4] \in [session : Sessions, revision : Nat, intent : Change \cup {None}]
      BY <3>1 DEF Undeclared
    <3> QED BY <3>2
  <2>11. log' = log
    BY <2>2 DEF Publish
  <2> QED BY <2>6, <2>9, <2>10, <2>11
<1>2. IInv /\ [FNext]_<<vars, finalization>> => [A]_vars
  BY <1>1
<1> QED BY <1>2, Invariant, PTL DEF FSpec, AuthorizedAsDiagnosed
================================================================================
