--------------------------- MODULE AcceptanceAttempt ---------------------------
(***************************************************************************)
(* One acceptance attempt (acceptance/recovery_workflows.py): seven stages *)
(* that end with a fix verified on the target, each published as a root of *)
(* the evidence store with a revision.  Its callers run at once, lose      *)
(* their answers and ask again, while the project is edited and built, the *)
(* target is tested, and the diagnosis, a log, goes on.                    *)
(***************************************************************************)
EXTENDS DiagnosticLog, FiniteSets

CONSTANTS
    Client,
    Types,     \* the types of event that a diagnosis uses
    MaxClock,  \* bound: how long the model runs
    MaxRuns,   \* bound: the target tests that differ in their build or outcome
    Timeout    \* stage_timeout_seconds, one for all stages

ASSUME AttemptAssumption ==
    /\ MaxClock \in Nat /\ MaxRuns \in Nat /\ Timeout \in Nat /\ Types \subseteq EventType
    /\ None \notin Change \cup Client

VARIABLES
    adapter,   \* the scenario is replayed or physical
    clock,     \* the time of the server
    source,    \* what the sources of the project are; a build has their name
    firmware,  \* what the firmware was last built from
    runs,      \* the target test runs that are published
    roots,     \* the snapshots that are published, by revision
    evidence,  \* who has the lock of the evidence store
    diagnosis, \* which caller has the lock of the diagnostic store
    call,      \* what each caller is doing
    told       \* the stage that each caller was last told is complete

project == <<source, firmware, runs>>
attempt == <<roots, evidence, diagnosis, call, told>>
vars == <<log, adapter, clock, project, attempt>>

Run == [build : Change, passed : BOOLEAN]

Revision == 0 .. 7

(* What each stage adds to the snapshot before it is its output; the       *)
(* snapshot of a revision has the outputs of the stages up to it.          *)
Output == {None} \cup [build : Change, inputs : Change] \cup [run : Change]
          \cup [session : Sessions, revision : Nat, intent : Change \cup {None}]
          \cup [revision : Nat, at : 0 .. MaxClock]

Snapshot == [stamp : 0 .. MaxClock, out : Seq(Output)]

ASSUME NoneIsNoSnapshot == None \notin Snapshot

Idle == [at |-> "idle", rev |-> 0, arg |-> None, s |-> None, build |-> None,
         inputs |-> None, new |-> None]

Init ==
    /\ log = [s \in Sessions |-> <<>>] /\ adapter \in {"replay", "physical"}
    /\ clock = 0 /\ source \in Change /\ firmware = None /\ runs = {}
    /\ roots = [r \in Revision |-> None] /\ evidence = None /\ diagnosis = None
    /\ call = [c \in Client |-> Idle] /\ told = [c \in Client |-> None]

TypeOK ==
    /\ LogTypeOK /\ adapter \in {"replay", "physical"} /\ clock \in 0 .. MaxClock
    /\ source \in Change /\ firmware \in Change \cup {None} /\ runs \subseteq Run
    /\ \A r \in Revision : roots[r] # None => roots[r] \in Snapshot
    /\ evidence \in Client \cup {None} /\ diagnosis \in Client \cup {None}

--------------------------------------------------------------------------------
(* What goes on around the attempt.                                        *)
(* Times are only compared, and the first root is held to no deadline: to  *)
(* publish it late is to publish it and then to wait.  Until it is there,  *)
(* the clock can stand.                                                    *)
Tick ==
    /\ roots[0] # None /\ clock < MaxClock /\ clock' = clock + 1
    /\ UNCHANGED <<log, adapter, project, attempt>>

Edit ==
    /\ \E x \in Change \ {source} : source' = x
    /\ UNCHANGED <<log, adapter, clock, firmware, runs, attempt>>

Compile ==
    /\ firmware # source /\ firmware' = source
    /\ UNCHANGED <<log, adapter, clock, source, runs, attempt>>

TestTarget ==
    /\ firmware # None
    /\ \E passed \in BOOLEAN : runs' = runs \cup {[build |-> firmware, passed |-> passed]}
    /\ runs' # runs /\ Cardinality(runs') <= MaxRuns
    /\ UNCHANGED <<log, adapter, clock, source, firmware, attempt>>

(* What the workflows of a diagnosis ask of test runs: it starts with one  *)
(* that failed, and plans to compare it with one after the change.         *)
Founded(s, e) ==
    CASE e.type = "created"   -> [build |-> e.arg, passed |-> FALSE] \in runs
      [] e.type = "declared"  -> e.arg # log[s][1].arg
      [] e.type = "planned"   -> [build |-> e.arg, passed |-> e.ok] \in runs
      [] e.type = "completed" -> e.ok => \E i \in DOMAIN log[s] :
             log[s][i].type = "planned" /\ log[s][i].arg = e.arg /\ log[s][i].ok
      [] OTHER -> TRUE

Diagnose ==
    /\ diagnosis = None
    /\ \E s \in Sessions, type \in Types, arg \in Change \cup {None}, ok \in BOOLEAN :
         /\ (arg = None) = (type \in {"begun", "noted"})
         /\ ok => type \in {"planned", "completed"}
         /\ LET e == [op |-> Len(log[s]) + 1, type |-> type, arg |-> arg, ok |-> ok] IN
            Accepts(log[s], e) /\ Founded(s, e) /\ e \in Event /\ Add(s, e)
    /\ UNCHANGED <<adapter, clock, project, attempt>>

--------------------------------------------------------------------------------
Published == {r \in Revision : roots[r] # None}

Latest == CHOOSE r \in Published : \A x \in Published : x <= r

InTime_Always(t) == TRUE

(* _check_deadline: the deadline is that of the newest snapshot.           *)
InTime(t) == t <= roots[Latest].stamp + Timeout

(* A caller asks for the stage of a revision.  It names the run of a test, *)
(* the session of a diagnosis and, in a physical attempt, the change it    *)
(* intends.  It asks for the next stage, or again for the newest: what is  *)
(* asked for any other is refused.                                         *)
Arguments(rev) ==
    IF rev \in {3, 7} \/ (rev = 4 /\ adapter = "physical") THEN Change ELSE {None}

Asking(rev, arg, s) == [Idle EXCEPT !.rev = rev, !.arg = arg, !.s = s]

Asked ==
    UNION {{Asking(rev, arg, s) :
               arg \in Arguments(rev), s \in IF rev = 4 THEN Sessions ELSE {None}} :
           rev \in IF Published = {} THEN {0} ELSE {Latest, Latest + 1} \cap Revision}

Released(lock, c) == IF lock = c THEN None ELSE lock

(* A refusal, a failure, or a stop of the process: locks are given back.   *)
GiveUp(c) ==
    /\ call[c].at # "idle"
    /\ call' = [call EXCEPT ![c] = Idle]
    /\ evidence' = Released(evidence, c) /\ diagnosis' = Released(diagnosis, c)
    /\ UNCHANGED <<log, adapter, clock, project, roots, told>>

Succeed(c, r) ==
    /\ told' = [told EXCEPT ![c] = [rev |-> r.rev, arg |-> r.arg, s |-> r.s]]
    /\ call' = [call EXCEPT ![c] = Idle]
    /\ evidence' = Released(evidence, c) /\ diagnosis' = Released(diagnosis, c)

RetryMatches_ByStage(r) == Latest = r.rev

(* _checkpoint_retry_matches: the stage that is asked for is the newest    *)
(* there is, with the same arguments.                                      *)
RetryMatches(r) ==
    Latest = r.rev /\ CASE r.rev \in {3, 7} -> roots[r.rev].out[r.rev].run = r.arg
                        [] r.rev = 4 -> /\ roots[4].out[4].intent = r.arg
                                        /\ roots[4].out[4].session = r.s
                        [] OTHER -> TRUE

LocksDiagnosis_Never(r) == FALSE

(* A physical authorization holds the lock of the diagnostic store from    *)
(* before it looks at anything until its root is published.                *)
LocksDiagnosis(r) == adapter = "physical" /\ r.rev = 5

Retried(c) ==
    /\ call[c].at = "idle" /\ Published # {}
    /\ \E r \in Asked :
         /\ RetryMatches(r)
         /\ LocksDiagnosis(r) => diagnosis = None
         /\ Succeed(c, r)
    /\ UNCHANGED <<log, adapter, clock, project, roots>>

Readable(c) == diagnosis \in {None, c}

(* The newest revision is the one before, and its deadline has not passed. *)
Start(c) ==
    /\ call[c].at = "idle"
    /\ \E r \in Asked :
         /\ IF r.rev = 0 THEN Published = {} ELSE Latest = r.rev - 1 /\ InTime(clock)
         /\ IF LocksDiagnosis(r) THEN diagnosis = None /\ diagnosis' = c
                                 ELSE UNCHANGED diagnosis
         /\ call' = [call EXCEPT ![c] =
              [r EXCEPT !.at = IF r.rev \in {2, 6} THEN "build" ELSE "check",
                        !.new = [stamp |-> clock,
                                 out |-> IF r.rev = 0 THEN <<>> ELSE roots[Latest].out]]]
    /\ told' = [told EXCEPT ![c] = None]
    /\ UNCHANGED <<log, adapter, clock, project, roots, evidence>>

(* _build_data, _physical_build_data: the firmware, which has to be of the *)
(* sources, and then the sources again.                                    *)
ReadFirmware(c) ==
    /\ call[c].at = "build" /\ firmware = source
    /\ call' = [call EXCEPT ![c].at = "inputs", ![c].build = firmware]
    /\ UNCHANGED <<log, adapter, clock, project, roots, evidence, diagnosis, told>>

ReadInputs(c) ==
    /\ call[c].at = "inputs" /\ (adapter = "physical" => source = call[c].build)
    /\ call' = [call EXCEPT ![c].at = "check", ![c].inputs = source]
    /\ UNCHANGED <<log, adapter, clock, project, roots, evidence, diagnosis, told>>

--------------------------------------------------------------------------------
(* _validate_diagnostic_session: the session is about the failed run and   *)
(* the build before the change.                                            *)
SessionOf(out, s) ==
    /\ log[s] # <<>>
    /\ log[s][1].arg = out[3].run /\ out[2] = [build |-> out[3].run, inputs |-> out[3].run]

Declared(s) == {log[s][i].arg : i \in {i \in DOMAIN log[s] : log[s][i].type = "declared"}}

Undecided(s) == In(log[s], "INVESTIGATING") /\ Declared(s) = {}

BuiltBefore(out) == firmware = source /\ source = out[2].build

Diagnosed(out, r) ==
    /\ SessionOf(out, r.s) /\ Undecided(r.s)
    /\ adapter = "physical" => BuiltBefore(out) /\ r.arg # out[2].build

(* The diagnosis is still the one that the attempt recorded.               *)
Unchanged(out) ==
    /\ SessionOf(out, out[4].session) /\ Undecided(out[4].session)
    /\ Len(log[out[4].session]) = out[4].revision
    /\ adapter = "physical" => BuiltBefore(out)

(* The build is the one change that the diagnosis declared since, which is *)
(* the one a physical attempt intends.                                     *)
Changed(out, r) ==
    /\ r.build # out[2].build
    /\ SessionOf(out, out[4].session) /\ ~In(log[out[4].session], "OPEN")
    /\ Len(log[out[4].session]) > out[5].revision
    /\ Declared(out[4].session) = {r.build} /\ r.inputs = r.build
    /\ adapter = "physical" => r.build = out[4].intent

Verified_ByRun(out, r) == [build |-> r.arg, passed |-> TRUE] \in runs /\ r.arg = out[6].build

(* The run passed, on the build after the change, and the verification of  *)
(* the session is about it.  A replayed attempt reads the record of an     *)
(* acceptance, which is made from the same session.                        *)
Verified(out, r) ==
    /\ [build |-> r.arg, passed |-> TRUE] \in runs /\ r.arg = out[6].build
    /\ In(log[out[4].session], "RESOLVED") /\ Newest(log[out[4].session]).arg = r.arg
    /\ adapter = "physical" => Declared(out[4].session) = {r.arg}

(* What the stage asks for, and its output.                                *)
Valid(out, r) ==
    CASE r.rev = 3 -> /\ [build |-> r.arg, passed |-> FALSE] \in runs /\ r.arg = out[2].build
                      /\ adapter = "physical" => r.arg = out[2].inputs
      [] r.rev = 4 -> Diagnosed(out, r)
      [] r.rev = 5 -> Unchanged(out)
      [] r.rev = 6 -> Changed(out, r)
      [] r.rev = 7 -> Verified(out, r)
      [] OTHER -> TRUE

OutputOf(out, r, stamp) ==
    CASE r.rev \in {2, 6} -> [build |-> r.build, inputs |-> r.inputs]
      [] r.rev \in {3, 7} -> [run |-> r.arg]
      [] r.rev = 4 -> [session |-> r.s, revision |-> Len(log[r.s]), intent |-> r.arg]
      [] r.rev = 5 -> [revision |-> out[4].revision, at |-> stamp]
      [] OTHER -> None

(* _build_transition, _physical_build_transition.                          *)
Check(c) ==
    /\ call[c].at = "check"
    /\ call[c].rev \in {4, 5, 6, 7} => Readable(c)
    /\ LET r == call[c]
           out == r.new.out IN
       /\ Valid(out, r)
       /\ call' = [call EXCEPT ![c].at = "publish",
            ![c].new.out = IF r.rev = 0 THEN @ ELSE Append(@, OutputOf(out, r, r.new.stamp))]
    /\ UNCHANGED <<log, adapter, clock, project, roots, evidence, diagnosis, told>>

--------------------------------------------------------------------------------
(* _equivalent_transition: two snapshots that differ in their times alone; *)
(* a physical authorization is the same when its action is.                *)
Equivalent(x, y) ==
    \/ x.out = y.out
    \/ adapter = "physical" /\ Len(x.out) = 5 /\ Len(y.out) = 5

(* Under the lock of the evidence store the chain is read again.           *)
AlreadyThere(c) == Published # {} /\ Equivalent(roots[Latest], call[c].new)

Lock(c) ==
    /\ call[c].at = "publish" /\ evidence = None
    /\ \/ AlreadyThere(c) /\ Succeed(c, call[c])
       \/ /\ IF call[c].rev = 0 THEN Published = {}
                                ELSE Published # {} /\ Latest = call[c].rev - 1
          /\ evidence' = c
          /\ call' = [call EXCEPT ![c].at = IF adapter = "physical" THEN "confirm" ELSE "root"]
          /\ UNCHANGED <<diagnosis, told>>
    /\ UNCHANGED <<log, adapter, clock, project, roots>>

(* A physical attempt looks at the sources once more when the envelope is  *)
(* written, and then at the deadline.                                      *)
Confirm(c) ==
    /\ call[c].at = "confirm"
    /\ LET out == call[c].new.out IN
       /\ call[c].rev = 5 => BuiltBefore(out)
       /\ call[c].rev = 6 => firmware = source /\ source = out[6].build
    /\ call[c].rev # 0 => InTime(clock)
    /\ call' = [call EXCEPT ![c].at = "root"]
    /\ UNCHANGED <<log, adapter, clock, project, roots, evidence, diagnosis, told>>

Publish(c) ==
    /\ call[c].at = "root"
    /\ roots' = [roots EXCEPT ![call[c].rev] = call[c].new]
    /\ Succeed(c, call[c]) /\ UNCHANGED <<log, adapter, clock, project>>

Step(c) ==
    \/ GiveUp(c) \/ Retried(c) \/ Start(c) \/ ReadFirmware(c) \/ ReadInputs(c)
    \/ Check(c) \/ Lock(c) \/ Confirm(c) \/ Publish(c)

Next == Tick \/ Edit \/ Compile \/ TestTarget \/ Diagnose \/ \E c \in Client : Step(c)

Spec == Init /\ [][Next]_vars

--------------------------------------------------------------------------------
(* _validate_chain_semantics: what every later call asks of the roots.  An *)
(* attempt whose roots break it can never be used again.                   *)
ChainLoads ==
    \A r \in Published \ {0} :
        /\ roots[r - 1] # None
        /\ roots[r].out = Append(roots[r - 1].out, roots[r].out[r])
        /\ roots[r].stamp \in roots[r - 1].stamp .. roots[r - 1].stamp + Timeout

(* When the authorization of a physical attempt appears, the diagnosis is  *)
(* the one it authorizes: no event came between the check and the root.    *)
AuthorizedAsDiagnosed ==
    [][(adapter = "physical" /\ roots[5] = None /\ roots'[5] # None) =>
        \E s \in Sessions : /\ s = roots[4].out[4].session
                            /\ Len(log'[s]) = roots[4].out[4].revision]_vars

(* What a complete attempt stands for: the build before the change failed, *)
(* the diagnosis was authorized, declared the change afterwards, and was   *)
(* resolved by it, and the build with it passed.                           *)
CompletedMeansFixed ==
    roots[7] # None =>
        LET out == roots[7].out
            l == log[out[4].session] IN
        /\ {[build |-> out[2].build, passed |-> FALSE], [build |-> out[7].run, passed |-> TRUE]}
               \subseteq runs
        /\ out[6].build = out[7].run /\ out[6].build # out[2].build
        /\ \E i \in DOMAIN l : i > out[5].revision /\ l[i].type = "declared" /\ l[i].arg = out[7].run
        /\ In(l, "RESOLVED") /\ Newest(l).arg = out[7].run
        /\ adapter = "physical" => out[4].intent = out[7].run

(* A caller that was told its stage is complete asked for what the root of *)
(* that stage records.                                                     *)
AnswersAreRecorded ==
    \A t \in {told[c] : c \in Client} \ {None} : t.rev \in Revision =>
        /\ roots[t.rev] # None
        /\ t.rev \in {3, 7} => roots[t.rev].out[t.rev].run = t.arg
        /\ t.rev = 4 => /\ roots[4].out[4].session = t.s
                        /\ roots[4].out[4].intent = t.arg
================================================================================
