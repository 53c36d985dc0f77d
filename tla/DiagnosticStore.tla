----------------------------- MODULE DiagnosticStore -----------------------------
(***************************************************************************)
(* The diagnostic store and the workflows that write to it                 *)
(* (diagnostics/store.py, diagnostic_workflows.py).  Every event is a file *)
(* of its session, written in place under the lock of the store, and has a *)
(* checkpoint: a root in the evidence store that chains to the root of the *)
(* event before.  A process reads the session, decides, and appends under  *)
(* a second hold of the lock; it can stop anywhere.                        *)
(***************************************************************************)
EXTENDS DiagnosticEvents

CONSTANTS Process, Sessions,
          Types,      \* the types of event that are asked for
    Asked,      \* the ids of the operations that are asked for
    Past,       \* the logs a session can have when the model starts
    MaxBehind   \* how many revisions a caller's view can be old

ASSUME StoreAssumption ==
    /\ Types \subseteq EventType /\ Asked \subseteq Operation
    /\ MaxBehind \in Nat /\ None \notin Process

ASSUME PastAssumption ==
    /\ \A l \in Past : l \in Seq(Event) /\ Replayable(l) /\ Once(l) /\ Len(l) <= Limit
    /\ \A l, m \in Past : (l # <<>> /\ m # <<>> /\ l[1].op = m[1].op) => l = m

VARIABLES
    files,   \* the events of each session that are on disk, whole
    torn,    \* the sessions whose last event file is not written to its end
    made,    \* the sessions whose directory exists
    roots,   \* the events of each session that have a checkpoint
    holder,  \* who has the lock of the store
    call,    \* what each process is doing
    told     \* what the last answer to each process said has happened

vars == <<files, torn, made, roots, holder, call, told>>

(* A request: the event asked for, and the revision its caller last saw.   *)
Request == [s : Sessions, e : Event, expected : Nat]

Idle == [at |-> "idle", r |-> None, seen |-> 0]

Phase == {"load", "resolve", "append", "prepare", "write", "fill", "root"}

Answer == [s : Sessions, op : Operation, intent : EventType \X (Change \cup {None}) \X BOOLEAN]

TypeOK ==
    /\ files \in [Sessions -> Seq(Event)]
    /\ torn \subseteq Sessions /\ made \subseteq Sessions
    /\ roots \in [Sessions -> SUBSET Nat]
    /\ holder \in Process \cup {None}
    /\ call \in [Process -> {Idle} \cup [at : Phase, r : Request, seen : Nat]]
    /\ told \in [Process -> Answer \cup {None}]

Init ==
    /\ files \in [Sessions -> Past]
    /\ \A s, x \in Sessions : (s # x /\ files[s] = files[x]) => files[s] = <<>>
    /\ made = {s \in Sessions : files[s] # <<>>} /\ torn = {}
    /\ roots = [s \in Sessions |-> DOMAIN files[s]]
    /\ holder = None
    /\ call = [p \in Process |-> Idle]
    /\ told = [p \in Process |-> None]

--------------------------------------------------------------------------------
(* The workflows that look for an accepted answer before anything else     *)
(* decides, in the order they do it in.                                    *)
Resolving == {"declared", "planned", "verifying", "marked"}

FirstPhase(type) ==
    IF type = "created" THEN "append" ELSE IF type = "completed" THEN "resolve" ELSE "load"

(* The states a workflow asks for itself, before it builds an event.       *)
Ready(l, e) ==
    CASE e.type \in {"created", "begun"} -> TRUE
      [] e.type = "noted"     -> In(l, "INVESTIGATING")
      [] e.type = "declared"  -> \/ In(l, "INVESTIGATING")
                                 \/ In(l, "FIX_PROPOSED") /\ Has(l, "declared", e.arg)
      [] e.type = "planned"   -> In(l, "FIX_PROPOSED") /\ Has(l, "declared", e.arg)
      [] e.type = "verifying" -> /\ In(l, "FIX_PROPOSED") \/ In(l, "VERIFYING")
                                 /\ Has(l, "planned", e.arg)
      [] e.type \in OfActivePlan -> In(l, "VERIFYING")

Arguments(type) == IF type \in {"created", "begun"} \cup OfActivePlan THEN {None} ELSE Change

Findings(type) == IF type \in {"planned", "completed"} THEN BOOLEAN ELSE {FALSE}

(* A caller asks, for the first time or again.  A new session has a new id *)
(* each time.                                                              *)
Ask(p) ==
    /\ call[p] = Idle
    /\ \E s \in Sessions, op \in Asked, type \in Types :
       \E arg \in Arguments(type), ok \in Findings(type), expected \in 0 .. Len(files[s]) :
         LET e == [op |-> op, type |-> type, arg |-> arg, ok |-> ok] IN
         /\ (s \in made) = (type # "created")
         /\ expected + MaxBehind >= Len(files[s])
         /\ call' = [call EXCEPT ![p] =
                [at |-> FirstPhase(type), r |-> [s |-> s, e |-> e, expected |-> expected],
                 seen |-> 0]]
    /\ told' = [told EXCEPT ![p] = None]
    /\ UNCHANGED <<files, torn, made, roots, holder>>

Goto(p, at) == call' = [call EXCEPT ![p].at = at]

Refused(p) == call' = [call EXCEPT ![p] = Idle] /\ UNCHANGED told

Answered(p, s, e) ==
    /\ call' = [call EXCEPT ![p] = Idle]
    /\ told' = [told EXCEPT ![p] = [s |-> s, op |-> e.op, intent |-> Intent(e)]]

(* _store_lock.  No session may be without events once the lock is taken:  *)
(* one whose creator stopped early makes every use of the store fail.      *)
SoundLayout == \A s \in made : files[s] # <<>> \/ s \in torn

Enter(p) ==
    /\ call[p].at \in {"load", "resolve", "append"} /\ holder = None
    /\ IF SoundLayout THEN holder' = p /\ UNCHANGED <<call, told>>
                      ELSE Refused(p) /\ UNCHANGED holder
    /\ UNCHANGED <<files, torn, made, roots>>

(* On Windows the lock is waited for only so long.                         *)
Busy(p) ==
    /\ call[p].at \in {"load", "resolve", "append"} /\ holder \notin {None, p}
    /\ Refused(p) /\ UNCHANGED <<files, torn, made, roots, holder>>

--------------------------------------------------------------------------------
(* Reading chains under the lock.  A read publishes the checkpoint of      *)
(* every event that lacks one; the look for an accepted completion alone   *)
(* leaves evidence aside.                                                  *)
Scope(p) ==
    LET c == call[p] IN
    IF c.r.e.type = "created" THEN made
    ELSE IF c.r.e.type = "completed" /\ c.at = "resolve" THEN {} ELSE {c.r.s}

Missing(s) == {i \in DOMAIN files[s] : i \notin roots[s]}

Holding(p, at) == holder = p /\ call[p].at = at

Reading(p) == holder = p /\ call[p].at \in {"load", "resolve", "append"}

Repair(p) ==
    /\ Reading(p)
    /\ \E s \in Scope(p) : \E i \in Missing(s) :
         /\ \A j \in Missing(s) : i <= j
         /\ roots' = [roots EXCEPT ![s] = @ \cup {i}]
    /\ UNCHANGED <<files, torn, made, holder, call, told>>

Sound_NotRepaired(p) == Scope(p) \cap torn = {}

(* Every chain that is read is whole and has its checkpoints.              *)
Sound(p) == Scope(p) \cap torn = {} /\ \A s \in Scope(p) : Missing(s) = {}

Corrupt(p) ==
    /\ Reading(p) /\ \A s \in Scope(p) : Missing(s) = {}
    /\ Scope(p) \cap torn # {}
    /\ holder' = None /\ Refused(p)
    /\ UNCHANGED <<files, torn, made, roots>>

(* What the session says the event is about, when the caller does not.     *)
Subject(l, e) ==
    IF e.type \in OfActivePlan /\ In(l, "VERIFYING") THEN Newest(l).arg ELSE e.arg

(* _load_bound_session, and what the workflow asks of the session.         *)
Load(p) ==
    /\ Holding(p, "load") /\ Sound(p)
    /\ LET r == call[p].r
           l == files[r.s] IN
       \/ /\ r.e.type \in Resolving \/ Ready(l, r.e)
          /\ call' = [call EXCEPT ![p] =
               [at   |-> IF r.e.type \in Resolving THEN "resolve" ELSE "append",
                r    |-> [r EXCEPT !.e = [r.e EXCEPT !.arg = Subject(l, r.e)]],
                seen |-> Len(l)]]
          /\ UNCHANGED told
       \/ ~(r.e.type \in Resolving \/ Ready(l, r.e)) /\ Refused(p)
    /\ holder' = None /\ UNCHANGED <<files, torn, made, roots>>

Places_ThisSession(r) ==
    {<<r.s, i>> : i \in {i \in DOMAIN files[r.s] : files[r.s][i].op = r.e.op}}

(* _find_operation_locked: where an operation was accepted.  A creation is *)
(* looked for in every session.                                            *)
Places(r) ==
    IF r.e.type = "created"
      THEN {<<s, 1>> : s \in {x \in made : files[x] # <<>> /\ files[x][1].op = r.e.op}}
      ELSE {<<r.s, i>> : i \in {i \in DOMAIN files[r.s] : files[r.s][i].op = r.e.op}}

Again_AnyIntent(p, place) == Answered(p, place[1], call[p].r.e)

(* The answer to an operation that was accepted before: that event for the *)
(* same intent, a conflict for another.  A completion is asked for without *)
(* its outcome, which the accepted event gives.                            *)
Again(p, place) ==
    LET e == files[place[1]][place[2]]
        c == call[p] IN
    IF c.at = "resolve" /\ c.r.e.type = "completed" /\ e.type = "completed"
      THEN Answered(p, place[1], e)
    ELSE IF Intent(e) = Intent(c.r.e) THEN Answered(p, place[1], c.r.e)
    ELSE Refused(p)

(* _resolve_operation_retry, resolve_accepted_operation.                   *)
Resolve(p) ==
    /\ Holding(p, "resolve") /\ Sound(p)
    /\ LET r == call[p].r IN
       \/ r.s \in torn /\ Refused(p)
       \/ r.s \notin torn /\ \E x \in Places(r) : Again(p, x)
       \/ /\ r.s \notin torn /\ Places(r) = {}
          /\ IF r.e.type = "completed" THEN Goto(p, "load") /\ UNCHANGED told
             ELSE IF r.expected = call[p].seen /\ Ready(SubSeq(files[r.s], 1, call[p].seen), r.e)
               THEN Goto(p, "append") /\ UNCHANGED told
               ELSE Refused(p)
    /\ holder' = None /\ UNCHANGED <<files, torn, made, roots>>

--------------------------------------------------------------------------------
(* The append is for the revision its caller expects, which must still be  *)
(* the newest and the one the event was built on.                          *)
Current(p) ==
    LET r == call[p].r IN
    r.e.type = "created" \/ (r.expected = Len(files[r.s]) /\ call[p].seen = r.expected)

Admissible(p) ==
    LET r == call[p].r IN
    /\ Current(p) /\ Accepts(files[r.s], r.e) /\ Len(files[r.s]) < Limit
    /\ r.e.type = "created" => r.s \notin made

Admit(p) ==
    /\ Holding(p, "append") /\ Sound(p)
    /\ LET r == call[p].r IN
       \/ Places(r) = {} /\ Admissible(p)
          /\ Goto(p, IF r.e.type = "created" THEN "prepare" ELSE "write")
          /\ UNCHANGED <<told, holder>>
       \/ Places(r) = {} /\ ~Admissible(p) /\ Refused(p) /\ holder' = None
       \/ (\E x \in Places(r) : Again(p, x)) /\ holder' = None
    /\ UNCHANGED <<files, torn, made, roots>>

(* _prepare_session_directories.                                           *)
Prepare(p) ==
    /\ Holding(p, "prepare")
    /\ made' = made \cup {call[p].r.s} /\ Goto(p, "write")
    /\ UNCHANGED <<files, torn, roots, holder, told>>

(* _write_event_new: the file has its name before it has its bytes.        *)
Write(p) ==
    /\ Holding(p, "write")
    /\ torn' = torn \cup {call[p].r.s} /\ Goto(p, "fill")
    /\ UNCHANGED <<files, made, roots, holder, told>>

Fill(p) ==
    /\ Holding(p, "fill")
    /\ torn' = torn \ {call[p].r.s}
    /\ files' = [files EXCEPT ![call[p].r.s] = Append(@, call[p].r.e)]
    /\ Goto(p, "root")
    /\ UNCHANGED <<made, roots, holder, told>>

(* _ensure_checkpoint_locked: needs the checkpoint of the event before.    *)
Checkpoint(p) ==
    /\ Holding(p, "root")
    /\ LET r == call[p].r
           n == Len(files[r.s]) IN
       IF n = 1 \/ n - 1 \in roots[r.s]
         THEN roots' = [roots EXCEPT ![r.s] = @ \cup {n}] /\ Answered(p, r.s, r.e)
         ELSE UNCHANGED roots /\ Refused(p)
    /\ holder' = None /\ UNCHANGED <<files, torn, made>>

(* The process stops; the system gives its lock back.                      *)
Stop(p) ==
    /\ call[p] # Idle
    /\ Refused(p) /\ holder' = IF holder = p THEN None ELSE holder
    /\ UNCHANGED <<files, torn, made, roots>>

Step(p) ==
    \/ Ask(p) \/ Enter(p) \/ Busy(p) \/ Repair(p) \/ Corrupt(p) \/ Load(p) \/ Resolve(p)
    \/ Admit(p) \/ Prepare(p) \/ Write(p) \/ Fill(p) \/ Checkpoint(p) \/ Stop(p)

Next == \E p \in Process : Step(p)

Spec == Init /\ [][Next]_vars

--------------------------------------------------------------------------------
(* Whatever processes do at once, retry, and leave unfinished, each        *)
(* session is a log to which accepted events are added once, at the end.   *)
Log == INSTANCE DiagnosticLog WITH log <- files

ImplementsLog == Log!LogSpec

(* What a caller was told has happened is in the session, as that caller   *)
(* asked for it, and has its checkpoint, so that it survives any stop; the *)
(* retry of a completion is answered without a look at its checkpoint.     *)
ToldIsRecorded ==
    \A t \in {told[p] : p \in Process} \ {None} : \E i \in DOMAIN files[t.s] :
        /\ files[t.s][i].op = t.op /\ Intent(files[t.s][i]) = t.intent
        /\ files[t.s][i].type # "completed" => i \in roots[t.s]

(* Checkpoints follow the events: at most the newest event of a session    *)
(* has none, so the chain in the evidence store has no holes.              *)
CheckpointsFollow ==
    \A s \in Sessions :
        roots[s] \in {1 .. Len(files[s]), 1 .. Len(files[s]) - 1}
================================================================================
