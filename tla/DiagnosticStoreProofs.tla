------------------------- MODULE DiagnosticStoreProofs -------------------------
(***************************************************************************)
(* Proofs about DiagnosticStore for every set of processes, sessions,      *)
(* operations and changes, and every limit.                                *)
(*                                                                         *)
(* The argument: the append holds the lock of the store from the moment it *)
(* is admitted to its answer, so what made it admissible is still true     *)
(* when its file is complete: the event is accepted by the session, its    *)
(* operation is new, and no event before it lacks its checkpoint.          *)
(***************************************************************************)
EXTENDS DiagnosticStore, TLAPS

Appending == {"prepare", "write", "fill"}

(* What an append that is admitted relies on until its file is complete.   *)
Admitted(p) ==
    call[p].at \in Appending =>
        /\ holder = p
        /\ Log!Fresh(call[p].r.s, call[p].r.e)
        /\ Accepts(files[call[p].r.s], call[p].r.e)
        /\ Len(files[call[p].r.s]) < Limit
        /\ roots[call[p].r.s] = 1 .. Len(files[call[p].r.s])
        /\ call[p].at # "prepare" => call[p].r.s \in made

(* And what it has written when only its checkpoint is left to do.         *)
Written(p) ==
    call[p].at = "root" =>
        LET l == files[call[p].r.s] IN
        /\ holder = p
        /\ l # <<>> /\ l[Len(l)] = call[p].r.e

Recorded(t) ==
    \E i \in DOMAIN files[t.s] :
        /\ files[t.s][i].op = t.op /\ Intent(files[t.s][i]) = t.intent
        /\ files[t.s][i].type # "completed" => i \in roots[t.s]

StoreInv ==
    /\ TypeOK /\ CheckpointsFollow
    /\ \A s \in Sessions : files[s] # <<>> => s \in made
    /\ \A p \in Process : Admitted(p) /\ Written(p)
    /\ \A p \in Process : told[p] # None => Recorded(told[p])

--------------------------------------------------------------------------------
\* No process is taken for nobody.
LEMMA NoneIsNoProcess == \A q \in Process : q # None
  BY StoreAssumption

\* A process at work has a request, which is typed.
LEMMA CallTyped ==
  ASSUME TypeOK, NEW p \in Process, call[p].at # "idle"
  PROVE  /\ call[p] = [at |-> call[p].at, r |-> call[p].r, seen |-> call[p].seen]
         /\ call[p].at \in Phase /\ call[p].r \in Request /\ call[p].seen \in Nat
         /\ call[p].r.s \in Sessions /\ call[p].r.e \in Event
  BY DEF TypeOK, Idle, Request

\* Giving up, and going on to another phase, keep the types.
LEMMA MovesTyped ==
  ASSUME TypeOK, NEW p \in Process
  PROVE  /\ Refused(p) => call' \in [Process -> {Idle} \cup [at : Phase, r : Request, seen : Nat]]
                          /\ told' \in [Process -> Answer \cup {None}]
         /\ \A at \in Phase : (call[p].at # "idle" /\ Goto(p, at)) =>
                call' \in [Process -> {Idle} \cup [at : Phase, r : Request, seen : Nat]]
<1>1. Refused(p) => call' \in [Process -> {Idle} \cup [at : Phase, r : Request, seen : Nat]]
                    /\ told' \in [Process -> Answer \cup {None}]
  BY DEF Refused, TypeOK
<1>2. ASSUME NEW at \in Phase, call[p].at # "idle", Goto(p, at)
      PROVE  call' \in [Process -> {Idle} \cup [at : Phase, r : Request, seen : Nat]]
  <2>1. call[p] \in [at : Phase, r : Request, seen : Nat]
    BY <1>2 DEF TypeOK, Idle
  <2>2. [call[p] EXCEPT !.at = at] \in [at : Phase, r : Request, seen : Nat]
    BY <2>1
  <2> QED
    BY <1>2, <2>2 DEF Goto, TypeOK
<1> QED
  BY <1>1, <1>2

\* So does an answer.
LEMMA AnswersTyped ==
  ASSUME TypeOK, NEW p \in Process, NEW s \in Sessions, NEW e \in Event, Answered(p, s, e)
  PROVE  /\ call' \in [Process -> {Idle} \cup [at : Phase, r : Request, seen : Nat]]
         /\ told' \in [Process -> Answer \cup {None}]
<1>1. [s |-> s, op |-> e.op, intent |-> Intent(e)] \in Answer
  BY DEF Answer, Intent, Event
<1> QED
  BY <1>1 DEF Answered, TypeOK

--------------------------------------------------------------------------------
\* A step that leaves the files and the checkpoints alone, and the lock to
\* another process that has it.
LEMMA QuietStep ==
  ASSUME StoreInv, TypeOK', NEW p \in Process,
         UNCHANGED <<files, roots>>, made \subseteq made',
         \A q \in Process \ {p} : call'[q] = call[q] /\ told'[q] = told[q],
         holder' = holder \/ holder = None \/ holder = p,
         Admitted(p)', Written(p)', told'[p] # None => Recorded(told'[p])
  PROVE  StoreInv'
<1>1. CheckpointsFollow'
  BY DEF StoreInv, CheckpointsFollow
<1>2. \A s \in Sessions : files'[s] # <<>> => s \in made'
  BY DEF StoreInv
<1>3. ASSUME NEW q \in Process PROVE Admitted(q)' /\ Written(q)'
  <2>1. CASE q = p
    BY <2>1
  <2>2. CASE q # p
    <3>1. call'[q] = call[q] /\ Admitted(q) /\ Written(q)
      BY <2>2 DEF StoreInv
    <3>2. holder = q => holder' = q
      BY <2>2, NoneIsNoProcess
    <3>3. Admitted(q)'
      BY <3>1, <3>2 DEF Admitted, Log!Fresh, Log!Creates
    <3>4. Written(q)'
      BY <3>1, <3>2 DEF Written
    <3> QED
      BY <3>3, <3>4
  <2> QED
    BY <2>1, <2>2
<1>4. ASSUME NEW q \in Process, told'[q] # None PROVE Recorded(told[q])' 
  <2>1. told'[q] = told[q] \/ q = p
    OBVIOUS
  <2>2. \A t : Recorded(t) => Recorded(t)'
    BY DEF Recorded
  <2> QED
    BY <1>4, <2>1, <2>2 DEF StoreInv, Recorded
<1> QED
  BY <1>1, <1>2, <1>3, <1>4 DEF StoreInv

\* A refusal is such a step.
LEMMA RefusalKeeps ==
  ASSUME StoreInv, NEW p \in Process, Refused(p),
         UNCHANGED <<files, torn, made, roots>>,
         holder' = holder \/ (holder = p /\ holder' = None)
  PROVE  StoreInv'
<1>1. TypeOK /\ TypeOK'
  BY MovesTyped DEF StoreInv, TypeOK
<1>2. call'[p] = Idle /\ told' = told /\ \A q \in Process \ {p} : call'[q] = call[q]
  BY <1>1 DEF Refused, TypeOK
<1>3. Admitted(p)' /\ Written(p)'
  BY <1>2 DEF Admitted, Written, Appending, Idle
<1>4. told'[p] # None => Recorded(told'[p])
  BY <1>2 DEF StoreInv
<1> QED
  BY <1>1, <1>2, <1>3, <1>4, QuietStep

\* So is an answer that is true.
LEMMA AnswerKeeps ==
  ASSUME StoreInv, NEW p \in Process, NEW s \in Sessions, NEW e \in Event, Answered(p, s, e),
         UNCHANGED <<files, torn, made, roots>>, holder = p, holder' = None,
         Recorded([s |-> s, op |-> e.op, intent |-> Intent(e)])
  PROVE  StoreInv'
<1>1. TypeOK /\ TypeOK'
  BY AnswersTyped DEF StoreInv, TypeOK
<1>2. call'[p] = Idle /\ \A q \in Process \ {p} : call'[q] = call[q] /\ told'[q] = told[q]
  BY <1>1 DEF Answered, TypeOK
<1>3. Admitted(p)' /\ Written(p)'
  BY <1>2 DEF Admitted, Written, Appending, Idle
<1>4. told'[p] = [s |-> s, op |-> e.op, intent |-> Intent(e)]
  BY <1>1 DEF Answered, TypeOK
<1> QED
  BY <1>1, <1>2, <1>3, <1>4, QuietStep

\* And a move to a phase in which nothing is admitted yet.
LEMMA MoveKeeps ==
  ASSUME StoreInv, NEW p \in Process, NEW at \in {"load", "resolve", "append"},
         call[p].at # "idle", Goto(p, at), UNCHANGED <<files, torn, made, roots, told>>,
         holder = p, holder' = None
  PROVE  StoreInv'
<1>1. TypeOK /\ TypeOK'
  <2>1. at \in Phase
    BY DEF Phase
  <2> QED
    BY <2>1, MovesTyped DEF StoreInv, TypeOK
<1>2. call'[p].at = at /\ \A q \in Process \ {p} : call'[q] = call[q] /\ told'[q] = told[q]
  BY <1>1, CallTyped DEF Goto, TypeOK
<1>3. Admitted(p)' /\ Written(p)'
  BY <1>2 DEF Admitted, Written, Appending
<1>4. told'[p] # None => Recorded(told'[p])
  BY DEF StoreInv
<1> QED
  BY <1>1, <1>2, <1>3, <1>4, QuietStep

--------------------------------------------------------------------------------
\* A new request touches no session, and is typed.
LEMMA AskKeeps ==
  ASSUME StoreInv, NEW p \in Process, Ask(p) PROVE StoreInv'
<1>1. PICK s \in Sessions, op \in Asked, type \in Types :
        \E arg \in Arguments(type), ok \in Findings(type), expected \in 0 .. Len(files[s]) :
          /\ (s \in made) = (type # "created")
          /\ expected + MaxBehind >= Len(files[s])
          /\ call' = [call EXCEPT ![p] =
             [at |-> FirstPhase(type),
              r |-> [s |-> s, e |-> [op |-> op, type |-> type, arg |-> arg, ok |-> ok],
                     expected |-> expected],
              seen |-> 0]]
  BY Zenon DEF Ask
<1>2. PICK arg \in Arguments(type), ok \in Findings(type), expected \in 0 .. Len(files[s]) :
          call' = [call EXCEPT ![p] =
             [at |-> FirstPhase(type),
              r |-> [s |-> s, e |-> [op |-> op, type |-> type, arg |-> arg, ok |-> ok],
                     expected |-> expected],
              seen |-> 0]]
  BY <1>1
<1> DEFINE new == [at |-> FirstPhase(type),
                   r |-> [s |-> s, e |-> [op |-> op, type |-> type, arg |-> arg, ok |-> ok],
                          expected |-> expected],
                   seen |-> 0]
<1>3. new.at \in {"load", "resolve", "append"} /\ new \in [at : Phase, r : Request, seen : Nat]
  <2>1. op \in Operation /\ type \in EventType /\ arg \in Change \cup {None} /\ ok \in BOOLEAN
    BY StoreAssumption DEF Arguments, Findings
  <2>2. FirstPhase(type) \in {"load", "resolve", "append"}
    BY DEF FirstPhase
  <2>3. expected \in Nat
    BY DEF StoreInv, TypeOK
  <2> QED
    BY <2>1, <2>2, <2>3 DEF Event, Request, Phase
<1>4. TypeOK /\ TypeOK' /\ call'[p] = new /\ told'[p] = None
      /\ \A q \in Process \ {p} : call'[q] = call[q] /\ told'[q] = told[q]
  <2> HIDE DEF new
  <2>1. call' = [call EXCEPT ![p] = new]
    BY <1>2 DEF new
  <2> QED
    BY <1>3, <2>1 DEF Ask, StoreInv, TypeOK
<1>5. Admitted(p)' /\ Written(p)'
  BY <1>3, <1>4 DEF Admitted, Written, Appending
<1> QED
  BY <1>4, <1>5, QuietStep DEF Ask

\* Taking the lock makes its holder, and only it, one that may read and write.
LEMMA EnterKeeps ==
  ASSUME StoreInv, NEW p \in Process, Enter(p) PROVE StoreInv'
<1>1. CASE SoundLayout
  <2>1. holder' = p /\ holder = None /\ UNCHANGED <<files, torn, made, roots, call, told>>
    BY <1>1 DEF Enter
  <2>2. call[p].at \in {"load", "resolve", "append"}
    BY DEF Enter
  <2>3. Admitted(p)' /\ Written(p)'
    BY <2>1, <2>2 DEF Admitted, Written, Appending
  <2> QED
    BY <2>1, <2>3, QuietStep DEF StoreInv, TypeOK
<1>2. CASE ~SoundLayout
  BY <1>2, RefusalKeeps DEF Enter
<1> QED
  BY <1>1, <1>2

\* Giving up the wait for the lock changes the caller alone.
LEMMA BusyKeeps ==
  ASSUME StoreInv, NEW p \in Process, Busy(p) PROVE StoreInv'
  BY RefusalKeeps DEF Busy

\* A chain that is not whole is refused and left as it is.
LEMMA CorruptKeeps ==
  ASSUME StoreInv, NEW p \in Process, Corrupt(p) PROVE StoreInv'
  BY RefusalKeeps DEF Corrupt, Reading

\* A process that stops leaves at most a torn file or a missing checkpoint.
LEMMA StopKeeps ==
  ASSUME StoreInv, NEW p \in Process, Stop(p) PROVE StoreInv'
  BY RefusalKeeps DEF Stop

--------------------------------------------------------------------------------
\* Where an operation is found, there is an event of it; and the chains that a
\* look for it reads have their checkpoints, but for one.
LEMMA FoundEvent ==
  ASSUME StoreInv, NEW p \in Process, call[p].at \in {"resolve", "append"},
         NEW x \in Places(call[p].r)
  PROVE  /\ x[1] \in Sessions /\ x[2] \in DOMAIN files[x[1]]
         /\ files[x[1]][x[2]] \in Event
         /\ files[x[1]][x[2]].op = call[p].r.e.op
         /\ x[1] \in Scope(p) \/ (call[p].at = "resolve" /\ call[p].r.e.type = "completed")
<1> DEFINE r == call[p].r
<1>1. r \in Request /\ r.s \in Sessions /\ r.e \in Event
  BY CallTyped DEF StoreInv
<1>2. files \in [Sessions -> Seq(Event)] /\ made \subseteq Sessions
  BY DEF StoreInv, TypeOK
<1>3. CASE r.e.type = "created"
  <2>1. PICK s \in made : files[s] # <<>> /\ files[s][1].op = r.e.op /\ x = <<s, 1>>
    BY <1>3 DEF Places
  <2>2. 1 \in DOMAIN files[s] /\ files[s][1] \in Event
    BY <1>2, <2>1
  <2>3. x[1] = s /\ x[2] = 1 /\ s \in Scope(p)
    BY <1>3, <2>1 DEF Scope
  <2> QED
    BY <1>2, <2>1, <2>2, <2>3
<1>4. CASE r.e.type # "created"
  <2>1. PICK i \in DOMAIN files[r.s] : files[r.s][i].op = r.e.op /\ x = <<r.s, i>>
    BY <1>4 DEF Places
  <2>2. files[r.s][i] \in Event
    BY <1>1, <1>2, <2>1
  <2>3. x[1] = r.s /\ x[2] = i
    BY <2>1
  <2>4. r.s \in Scope(p) \/ (call[p].at = "resolve" /\ r.e.type = "completed")
    BY <1>4 DEF Scope
  <2> QED
    BY <1>1, <2>1, <2>2, <2>3, <2>4
<1> QED
  BY <1>3, <1>4

\* The answer to an operation that was accepted before is true.
LEMMA AgainKeeps ==
  ASSUME StoreInv, NEW p \in Process, call[p].at \in {"resolve", "append"}, Sound(p),
         NEW x \in Places(call[p].r), Again(p, x), holder = p, holder' = None,
         UNCHANGED <<files, torn, made, roots>>
  PROVE  StoreInv'
<1> DEFINE r == call[p].r
           s == x[1]
           e == files[s][x[2]]
           completion == call[p].at = "resolve" /\ r.e.type = "completed"
<1>1. /\ s \in Sessions /\ x[2] \in DOMAIN files[s] /\ e \in Event /\ e.op = r.e.op
      /\ s \in Scope(p) \/ completion
  BY FoundEvent
<1>2. r.e \in Event
  BY CallTyped DEF StoreInv
<1>3. s \in Scope(p) => x[2] \in roots[s]
  BY <1>1 DEF Sound, Missing
<1>4. CASE completion /\ e.type = "completed"
  <2>1. Answered(p, s, e)
    BY <1>4 DEF Again
  <2>2. Recorded([s |-> s, op |-> e.op, intent |-> Intent(e)])
    BY <1>1, <1>4 DEF Recorded
  <2> QED
    BY <1>1, <2>1, <2>2, AnswerKeeps
<1>5. CASE ~(completion /\ e.type = "completed") /\ Intent(e) = Intent(r.e)
  <2>1. Answered(p, s, r.e)
    BY <1>5 DEF Again
  <2>2. e.type = r.e.type
    BY <1>5 DEF Intent
  <2>3. s \in Scope(p)
    BY <1>1, <1>5, <2>2
  <2>4. Recorded([s |-> s, op |-> r.e.op, intent |-> Intent(r.e)])
    BY <1>1, <1>3, <1>5, <2>3 DEF Recorded
  <2> QED
    BY <1>1, <1>2, <2>1, <2>4, AnswerKeeps
<1>6. CASE ~(completion /\ e.type = "completed") /\ Intent(e) # Intent(r.e)
  <2>1. Refused(p)
    BY <1>6 DEF Again
  <2> QED
    BY <2>1, RefusalKeeps
<1> QED
  BY <1>4, <1>5, <1>6

\* The load leaves the session as it is and remembers its length.
LEMMA LoadKeeps ==
  ASSUME StoreInv, NEW p \in Process, Load(p) PROVE StoreInv'
<1> DEFINE r == call[p].r
           l == files[r.s]
           new == [at   |-> IF r.e.type \in Resolving THEN "resolve" ELSE "append",
                   r    |-> [r EXCEPT !.e = [r.e EXCEPT !.arg = Subject(l, r.e)]],
                   seen |-> Len(l)]
<1>1. /\ holder = p /\ holder' = None /\ call[p].at = "load"
      /\ UNCHANGED <<files, torn, made, roots>>
  BY DEF Load, Holding
<1>2. CASE Refused(p)
  BY <1>1, <1>2, RefusalKeeps
<1>3. CASE call' = [call EXCEPT ![p] = new] /\ UNCHANGED told
  <2>1. r \in Request /\ r.s \in Sessions /\ r.e \in Event /\ l \in Seq(Event)
    BY <1>1, CallTyped DEF StoreInv, TypeOK
  <2>2. Subject(l, r.e) \in Change \cup {None}
    <3>1. In(l, "VERIFYING") => Newest(l) \in Event
      BY <2>1 DEF In, Newest
    <3> QED
      BY <2>1, <3>1 DEF Subject, Event
  <2>3. [r EXCEPT !.e = [r.e EXCEPT !.arg = Subject(l, r.e)]] \in Request
    BY <2>1, <2>2 DEF Request, Event
  <2>4. new \in [at : Phase, r : Request, seen : Nat] /\ new.at \in {"resolve", "append"}
    BY <2>1, <2>3 DEF Phase
  <2> HIDE DEF new
  <2>5. TypeOK /\ TypeOK' /\ call'[p] = new
        /\ \A q \in Process \ {p} : call'[q] = call[q] /\ told'[q] = told[q]
    BY <1>1, <1>3, <2>4 DEF StoreInv, TypeOK
  <2>6. Admitted(p)' /\ Written(p)'
    BY <2>4, <2>5 DEF Admitted, Written, Appending
  <2>7. told'[p] # None => Recorded(told'[p])
    BY <1>3 DEF StoreInv
  <2> QED
    BY <1>1, <1>3, <2>5, <2>6, <2>7, QuietStep
<1> QED
  BY <1>2, <1>3 DEF Load

\* An accepted operation is answered as it was accepted; what it says is on disk.
LEMMA ResolveKeeps ==
  ASSUME StoreInv, NEW p \in Process, Resolve(p) PROVE StoreInv'
<1> DEFINE r == call[p].r
<1>1. /\ holder = p /\ holder' = None /\ call[p].at = "resolve" /\ Sound(p)
      /\ UNCHANGED <<files, torn, made, roots>>
  BY DEF Resolve, Holding
<1>2. CASE Refused(p)
  BY <1>1, <1>2, RefusalKeeps
<1>3. CASE \E x \in Places(r) : Again(p, x)
  BY <1>1, <1>3, AgainKeeps
<1>4. CASE Goto(p, "load") /\ UNCHANGED told
  BY <1>1, <1>4, MoveKeeps
<1>5. CASE Goto(p, "append") /\ UNCHANGED told
  BY <1>1, <1>5, MoveKeeps
<1> QED
  BY <1>2, <1>3, <1>4, <1>5 DEF Resolve

--------------------------------------------------------------------------------
\* An append that is admitted finds its operation nowhere, and every event
\* before its own has its checkpoint.
LEMMA AdmitKeeps ==
  ASSUME StoreInv, NEW p \in Process, Admit(p) PROVE StoreInv'
<1> DEFINE r == call[p].r
           l == files[r.s]
           next == IF r.e.type = "created" THEN "prepare" ELSE "write"
<1>1. /\ holder = p /\ call[p].at = "append" /\ Sound(p)
      /\ UNCHANGED <<files, torn, made, roots>>
  BY DEF Admit, Holding
<1>2. CASE Refused(p) /\ holder' = None
  BY <1>1, <1>2, RefusalKeeps
<1>3. CASE (\E x \in Places(r) : Again(p, x)) /\ holder' = None
  BY <1>1, <1>3, AgainKeeps
<1>4. CASE Places(r) = {} /\ Admissible(p) /\ Goto(p, next) /\ UNCHANGED <<told, holder>>
  <2>1. /\ r \in Request /\ r.s \in Sessions /\ r.e \in Event /\ l \in Seq(Event)
        /\ files \in [Sessions -> Seq(Event)] /\ TypeOK
    BY <1>1, CallTyped DEF StoreInv, TypeOK
  <2>2. r.e.type = "created" => r.s \notin made /\ l = <<>>
    BY <1>4, <2>1 DEF Admissible, StoreInv
  <2>3. Log!Fresh(r.s, r.e)
    <3>1. \A i \in DOMAIN l : l[i].op # r.e.op
      <4>1. CASE r.e.type = "created"
        BY <2>2, <4>1
      <4>2. CASE r.e.type # "created"
        BY <1>4, <4>2 DEF Places
      <4> QED
        BY <4>1, <4>2
    <3>2. ASSUME r.e.type = "created", NEW x \in Sessions PROVE ~Log!Creates(x, r.e.op)
      <4>1. files[x] # <<>> => x \in made
        BY DEF StoreInv
      <4> QED
        BY <1>4, <3>2, <4>1 DEF Places, Log!Creates
    <3> QED
      BY <3>1, <3>2 DEF Log!Fresh
  <2>4. roots[r.s] = 1 .. Len(l)
    <3>1. roots[r.s] \in {1 .. Len(l), 1 .. Len(l) - 1} /\ Len(l) \in Nat
      BY <2>1 DEF StoreInv, CheckpointsFollow
    <3>2. CASE l = <<>>
      BY <3>1, <3>2
    <3>3. CASE l # <<>>
      <4>1. r.s \in Scope(p)
        BY <1>1, <2>2, <3>3 DEF Scope
      <4>2. Missing(r.s) = {}
        BY <1>1, <4>1 DEF Sound
      <4>3. Len(l) \in DOMAIN l
        BY <2>1, <3>3
      <4>4. Len(l) \in roots[r.s]
        BY <4>2, <4>3 DEF Missing
      <4> QED
        BY <3>1, <4>4
    <3> QED
      BY <3>2, <3>3
  <2>5. r.e.type # "created" => r.s \in made
    BY <1>4, <2>1 DEF Admissible, Accepts, In, StoreInv
  <2>6. TypeOK' /\ call'[p].at = next /\ call'[p].r = r
        /\ \A q \in Process \ {p} : call'[q] = call[q] /\ told'[q] = told[q]
    <3>1. next \in Phase
      BY DEF Phase
    <3>2. call' \in [Process -> {Idle} \cup [at : Phase, r : Request, seen : Nat]]
      BY <1>1, <1>4, <2>1, <3>1, MovesTyped
    <3>3. call'[p].at = next /\ call'[p].r = r
      BY <1>1, <1>4, <2>1, CallTyped DEF Goto, TypeOK
    <3> QED
      BY <1>1, <1>4, <2>1, <3>2, <3>3 DEF TypeOK, Goto
  <2>7. Accepts(l, r.e) /\ Len(l) < Limit
    BY <1>4 DEF Admissible
  <2>8. Admitted(p)'
    <3>1. call'[p].at # "prepare" => r.s \in made'
      BY <1>1, <2>5, <2>6
    <3>2. Log!Fresh(r.s, r.e)'
      BY <1>1, <2>3, <2>6 DEF Log!Fresh, Log!Creates
    <3> QED
      BY <1>1, <1>4, <2>4, <2>6, <2>7, <3>1, <3>2 DEF Admitted
  <2>9. Written(p)'
    BY <2>6 DEF Written
  <2>10. told'[p] # None => Recorded(told'[p])
    BY <1>4 DEF StoreInv
  <2> QED
    BY <1>1, <1>4, <2>1, <2>6, <2>8, <2>9, <2>10, QuietStep
<1> QED
  BY <1>2, <1>3, <1>4 DEF Admit

\* The two steps of an append before its file is complete.
LEMMA PrepareKeeps ==
  ASSUME StoreInv, NEW p \in Process, Prepare(p) PROVE StoreInv'
<1> DEFINE r == call[p].r
<1>1. /\ holder = p /\ call[p].at = "prepare" /\ UNCHANGED <<files, torn, roots, holder, told>>
      /\ made' = made \cup {r.s} /\ Goto(p, "write")
  BY DEF Prepare, Holding
<1>2. TypeOK /\ r.s \in Sessions
  BY <1>1, CallTyped DEF StoreInv
<1>3. /\ call' \in [Process -> {Idle} \cup [at : Phase, r : Request, seen : Nat]]
      /\ call'[p].at = "write" /\ call'[p].r = r
      /\ \A q \in Process \ {p} : call'[q] = call[q]
  <2>1. "write" \in Phase
    BY DEF Phase
  <2>2. call' \in [Process -> {Idle} \cup [at : Phase, r : Request, seen : Nat]]
    BY <1>1, <1>2, <2>1, MovesTyped
  <2> QED
    BY <1>1, <1>2, <2>2, CallTyped DEF Goto, TypeOK
<1>4. TypeOK'
  BY <1>1, <1>2, <1>3 DEF TypeOK
<1>5. Admitted(p)'
  <2>1. Admitted(p)
    BY DEF StoreInv
  <2> QED
    BY <1>1, <1>3, <2>1 DEF Admitted, Appending, Log!Fresh, Log!Creates
<1>6. Written(p)'
  BY <1>3 DEF Written
<1>7. told'[p] # None => Recorded(told'[p])
  BY <1>1 DEF StoreInv
<1> QED
  BY <1>1, <1>2, <1>3, <1>4, <1>5, <1>6, <1>7, QuietStep

\* The torn file is that of the session the holder writes to.
LEMMA WriteKeeps ==
  ASSUME StoreInv, NEW p \in Process, Write(p) PROVE StoreInv'
<1> DEFINE r == call[p].r
<1>1. /\ holder = p /\ call[p].at = "write" /\ UNCHANGED <<files, made, roots, holder, told>>
      /\ torn' = torn \cup {r.s} /\ Goto(p, "fill")
  BY DEF Write, Holding
<1>2. TypeOK /\ r.s \in Sessions
  BY <1>1, CallTyped DEF StoreInv
<1>3. /\ call' \in [Process -> {Idle} \cup [at : Phase, r : Request, seen : Nat]]
      /\ call'[p].at = "fill" /\ call'[p].r = r
      /\ \A q \in Process \ {p} : call'[q] = call[q]
  <2>1. "fill" \in Phase
    BY DEF Phase
  <2>2. call' \in [Process -> {Idle} \cup [at : Phase, r : Request, seen : Nat]]
    BY <1>1, <1>2, <2>1, MovesTyped
  <2> QED
    BY <1>1, <1>2, <2>2, CallTyped DEF Goto, TypeOK
<1>4. TypeOK'
  BY <1>1, <1>2, <1>3 DEF TypeOK
<1>5. Admitted(p)'
  <2>1. Admitted(p)
    BY DEF StoreInv
  <2> QED
    BY <1>1, <1>3, <2>1 DEF Admitted, Appending, Log!Fresh, Log!Creates
<1>6. Written(p)'
  BY <1>3 DEF Written
<1>7. told'[p] # None => Recorded(told'[p])
  BY <1>1 DEF StoreInv
<1> QED
  BY <1>1, <1>2, <1>3, <1>4, <1>5, <1>6, <1>7, QuietStep

\* What an addition at the end leaves where it was.
LEMMA Appended ==
  ASSUME NEW l \in Seq(Event), NEW e \in Event
  PROVE  /\ Append(l, e) \in Seq(Event) /\ Append(l, e) # <<>>
         /\ Len(Append(l, e)) = Len(l) + 1 /\ Append(l, e)[Len(l) + 1] = e
         /\ \A i \in DOMAIN l : i \in DOMAIN Append(l, e) /\ Append(l, e)[i] = l[i]
  OBVIOUS

\* The log that is promised is of the same events, under the same conditions.
LEMMA SameEvents ==
  /\ Log!Event = Event
  /\ \A l, e : Log!Accepts(l, e) <=> Accepts(l, e)
<1>1. \A l, st : Log!In(l, st) <=> In(l, st)
  BY DEF Log!In, In, Log!StateAfter, StateAfter, Log!Newest, Newest
<1>2. \A l, type, arg : Log!Has(l, type, arg) <=> Has(l, type, arg)
  BY DEF Log!Has, Has
<1> QED
  BY <1>1, <1>2 DEF Log!Event, Event, Log!EventType, EventType, Log!Accepts, Accepts,
     Log!OfActivePlan, OfActivePlan, Log!Newest, Newest

\* The file that is completed is an addition to the log of its session.
LEMMA FillAdds ==
  ASSUME StoreInv, NEW p \in Process, Fill(p)
  PROVE  /\ call[p].r.s \in Sessions /\ call[p].r.e \in Event
         /\ Log!Add(call[p].r.s, call[p].r.e)
<1>1. call[p].at = "fill" /\ Admitted(p)
  BY DEF Fill, Holding, StoreInv
<1>2. call[p].r.s \in Sessions /\ call[p].r.e \in Event
  BY <1>1, CallTyped DEF StoreInv
<1> QED
  BY <1>1, <1>2, SameEvents DEF Log!Add, Admitted, Appending, Fill

\* The event that is filled in is one the log accepts, and the only one without a checkpoint.
LEMMA FillKeeps ==
  ASSUME StoreInv, NEW p \in Process, Fill(p) PROVE StoreInv'
<1> DEFINE r == call[p].r
           l == files[r.s]
<1>1. /\ holder = p /\ call[p].at = "fill" /\ UNCHANGED <<made, roots, holder, told>>
      /\ files' = [files EXCEPT ![r.s] = Append(@, r.e)]
      /\ torn' = torn \ {r.s} /\ Goto(p, "root")
  BY DEF Fill, Holding
<1>2. /\ TypeOK /\ r.s \in Sessions /\ r.e \in Event /\ l \in Seq(Event)
      /\ files \in [Sessions -> Seq(Event)]
  BY <1>1, CallTyped DEF StoreInv, TypeOK
<1>3. /\ call' \in [Process -> {Idle} \cup [at : Phase, r : Request, seen : Nat]]
      /\ call'[p].at = "root" /\ call'[p].r = r
      /\ \A q \in Process \ {p} : call'[q] = call[q]
  <2>1. "root" \in Phase
    BY DEF Phase
  <2>2. call' \in [Process -> {Idle} \cup [at : Phase, r : Request, seen : Nat]]
    BY <1>1, <1>2, <2>1, MovesTyped
  <2> QED
    BY <1>1, <1>2, <2>2, CallTyped DEF Goto, TypeOK
<1>4. /\ files' \in [Sessions -> Seq(Event)]
      /\ files'[r.s] = Append(l, r.e) /\ Len(files'[r.s]) = Len(l) + 1
      /\ files'[r.s] # <<>> /\ files'[r.s][Len(l) + 1] = r.e
      /\ \A s \in Sessions \ {r.s} : files'[s] = files[s]
      /\ \A i \in DOMAIN l : i \in DOMAIN files'[r.s] /\ files'[r.s][i] = l[i]
  <2>1. files'[r.s] = Append(l, r.e) /\ files' \in [Sessions -> Seq(Event)]
    BY <1>1, <1>2
  <2>2. \A s \in Sessions \ {r.s} : files'[s] = files[s]
    BY <1>1, <1>2
  <2>3. /\ Len(Append(l, r.e)) = Len(l) + 1 /\ Append(l, r.e) # <<>>
        /\ Append(l, r.e)[Len(l) + 1] = r.e
        /\ \A i \in DOMAIN l : i \in DOMAIN Append(l, r.e) /\ Append(l, r.e)[i] = l[i]
    BY <1>2, Appended
  <2> QED
    BY <2>1, <2>2, <2>3
<1>5. TypeOK'
  BY <1>1, <1>2, <1>3, <1>4 DEF TypeOK
<1>6. Admitted(p)
  BY DEF StoreInv
<1>7. CheckpointsFollow'
  <2>1. roots'[r.s] = 1 .. Len(files'[r.s]) - 1
    <3>1. roots[r.s] = 1 .. Len(l)
      BY <1>1, <1>6 DEF Admitted, Appending
    <3>2. Len(files'[r.s]) - 1 = Len(l)
      <4>1. Len(l) \in Nat
        BY <1>2
      <4>2. Len(files'[r.s]) = Len(l) + 1
        BY <1>4
      <4>3. \A m, k : (m \in Nat /\ k = m + 1) => k - 1 = m
        OBVIOUS
      <4> QED
        BY <4>1, <4>2, <4>3
    <3> QED
      BY <1>1, <3>1, <3>2
  <2>2. \A s \in Sessions \ {r.s} : roots'[s] \in {1 .. Len(files'[s]), 1 .. Len(files'[s]) - 1}
    BY <1>1, <1>4 DEF StoreInv, CheckpointsFollow
  <2> QED
    BY <2>1, <2>2 DEF CheckpointsFollow
<1>8. \A s \in Sessions : files'[s] # <<>> => s \in made'
  BY <1>1, <1>4, <1>6 DEF StoreInv, Admitted, Appending
<1>9. ASSUME NEW q \in Process PROVE Admitted(q)' /\ Written(q)'
  <2>1. CASE q = p
    BY <1>1, <1>3, <1>4, <2>1 DEF Admitted, Written, Appending
  <2>2. CASE q # p
    <3>1. call[q].at \notin Appending /\ call[q].at # "root"
      BY <1>1, <2>2 DEF StoreInv, Admitted, Written
    <3>2. call'[q].at \notin Appending /\ call'[q].at # "root"
      BY <1>3, <2>2, <3>1
    <3> QED
      BY <3>2 DEF Admitted, Written, Appending
  <2> QED
    BY <2>1, <2>2
<1>10. ASSUME NEW q \in Process, told'[q] # None PROVE Recorded(told[q])'
  <2>1. Recorded(told[q]) /\ told'[q] = told[q] /\ told[q].s \in Sessions
    BY <1>1, <1>2, <1>10 DEF StoreInv, TypeOK, Answer
  <2>2. PICK i \in DOMAIN files[told[q].s] :
          /\ files[told[q].s][i].op = told[q].op
          /\ Intent(files[told[q].s][i]) = told[q].intent
          /\ files[told[q].s][i].type # "completed" => i \in roots[told[q].s]
    BY <2>1 DEF Recorded
  <2>3. i \in DOMAIN files'[told[q].s] /\ files'[told[q].s][i] = files[told[q].s][i]
    BY <1>4, <2>1, <2>2
  <2> QED
    BY <1>1, <2>1, <2>2, <2>3 DEF Recorded, Intent
<1> QED
  BY <1>5, <1>7, <1>8, <1>9, <1>10 DEF StoreInv

--------------------------------------------------------------------------------
\* More checkpoints, and files that stay, keep what was told recorded.
LEMMA RootsGrow ==
  ASSUME TypeOK, UNCHANGED files, \A s \in Sessions : roots[s] \subseteq roots'[s],
         NEW t \in Answer, Recorded(t)
  PROVE  Recorded(t)'
<1>1. t.s \in Sessions
  BY DEF Answer
<1> QED
  BY <1>1 DEF Recorded, Intent

\* The checkpoint is that of the newest event, and the answer is recorded.
LEMMA CheckpointKeeps ==
  ASSUME StoreInv, NEW p \in Process, Checkpoint(p) PROVE StoreInv'
<1> DEFINE r == call[p].r
           l == files[r.s]
           n == Len(l)
<1>1. /\ holder = p /\ call[p].at = "root" /\ UNCHANGED <<files, torn, made>>
      /\ holder' = None
  BY DEF Checkpoint, Holding
<1>2. /\ TypeOK /\ r.s \in Sessions /\ r.e \in Event /\ l \in Seq(Event)
      /\ roots \in [Sessions -> SUBSET Nat] /\ l # <<>> /\ l[n] = r.e
      /\ n \in Nat \ {0} /\ n \in DOMAIN l
  <2>1. /\ TypeOK /\ r.s \in Sessions /\ r.e \in Event /\ l \in Seq(Event)
        /\ roots \in [Sessions -> SUBSET Nat]
    BY <1>1, CallTyped DEF StoreInv, TypeOK
  <2>2. l # <<>> /\ l[n] = r.e
    BY <1>1 DEF StoreInv, Written
  <2> QED
    BY <2>1, <2>2
<1>3. CASE UNCHANGED roots /\ Refused(p)
  BY <1>1, <1>3, RefusalKeeps
<1>4. CASE roots' = [roots EXCEPT ![r.s] = @ \cup {n}] /\ Answered(p, r.s, r.e)
  <2>1. roots'[r.s] = roots[r.s] \cup {n} /\ \A s \in Sessions \ {r.s} : roots'[s] = roots[s]
    BY <1>2, <1>4
  <2>2. roots' \in [Sessions -> SUBSET Nat]
    BY <1>2, <1>4
  <2>3. TypeOK'
    BY <1>1, <1>2, <1>4, <2>2, AnswersTyped DEF TypeOK
  <2>4. CheckpointsFollow'
    <3>1. roots[r.s] \in {1 .. n, 1 .. n - 1}
      BY <1>2 DEF StoreInv, CheckpointsFollow
    <3>2. roots'[r.s] = 1 .. n
      <4>1. n \in Nat /\ n >= 1 /\ roots'[r.s] = roots[r.s] \cup {n}
        BY <1>2, <2>1
      <4> HIDE DEF n, r
      <4>2. (1 .. n) \cup {n} = 1 .. n /\ (1 .. n - 1) \cup {n} = 1 .. n
        BY <4>1
      <4> QED
        BY <3>1, <4>1, <4>2
    <3>3. ASSUME NEW s \in Sessions \ {r.s}
          PROVE  roots'[s] \in {1 .. Len(files'[s]), 1 .. Len(files'[s]) - 1}
      <4>1. roots'[s] = roots[s] /\ files'[s] = files[s]
        BY <1>1, <2>1
      <4>2. roots[s] \in {1 .. Len(files[s]), 1 .. Len(files[s]) - 1}
        BY DEF StoreInv, CheckpointsFollow
      <4> QED
        BY <4>1, <4>2
    <3>4. files'[r.s] = l
      BY <1>1
    <3> QED
      BY <3>2, <3>3, <3>4 DEF CheckpointsFollow
  <2>5. call'[p] = Idle /\ \A q \in Process \ {p} : call'[q] = call[q] /\ told'[q] = told[q]
    BY <1>2, <1>4 DEF Answered, TypeOK
  <2>6. ASSUME NEW q \in Process PROVE Admitted(q)' /\ Written(q)'
    <3>1. call'[q].at \notin Appending /\ call'[q].at # "root"
      <4>1. CASE q = p
        BY <2>5, <4>1 DEF Idle, Appending
      <4>2. CASE q # p
        <5>1. call[q].at \notin Appending /\ call[q].at # "root"
          BY <1>1, <4>2 DEF StoreInv, Admitted, Written
        <5> QED
          BY <2>5, <4>2, <5>1
      <4> QED
        BY <4>1, <4>2
    <3> QED
      BY <3>1 DEF Admitted, Written, Appending
  <2>7. ASSUME NEW q \in Process, told'[q] # None PROVE Recorded(told[q])'
    <3>1. CASE q = p
      <4>1. told'[p] = [s |-> r.s, op |-> r.e.op, intent |-> Intent(r.e)]
        BY <1>2, <1>4 DEF Answered, TypeOK
      <4>2. n \in DOMAIN files'[r.s] /\ files'[r.s][n] = r.e /\ n \in roots'[r.s]
        BY <1>1, <1>2, <2>1
      <4>3. PICK t \in Answer : t = told'[p]
        BY <2>3 , <2>7, <3>1 DEF TypeOK
      <4>4. \E i \in DOMAIN files'[t.s] :
               /\ files'[t.s][i].op = t.op /\ Intent(files'[t.s][i]) = t.intent
               /\ files'[t.s][i].type # "completed" => i \in roots'[t.s]
        <5>1. t.s = r.s /\ t.op = r.e.op /\ t.intent = Intent(r.e)
          BY <4>1, <4>3
        <5>2. Intent(files'[t.s][n]) = t.intent /\ files'[t.s][n].op = t.op
          BY <4>2, <5>1 DEF Intent
        <5> QED
          BY <4>2, <5>1, <5>2
      <4> QED
        BY <3>1, <4>3, <4>4 DEF Recorded, Intent
    <3>2. CASE q # p
      <4>1. told'[q] = told[q] /\ told[q] \in Answer /\ Recorded(told[q])
        BY <1>2, <2>5, <2>7, <3>2 DEF StoreInv, TypeOK
      <4>2. \A s \in Sessions : roots[s] \subseteq roots'[s]
        BY <2>1
      <4>3. Recorded(told[q])'
        BY <1>1, <1>2, <4>1, <4>2, RootsGrow DEF Recorded, Intent
      <4> QED
        BY <4>1, <4>3
    <3> QED
      BY <3>1, <3>2
  <2> QED
    BY <1>1, <2>3, <2>4, <2>6, <2>7 DEF StoreInv
<1> QED
  BY <1>3, <1>4 DEF Checkpoint

\* A repair writes the one checkpoint that is missing.
LEMMA RepairKeeps ==
  ASSUME StoreInv, NEW p \in Process, Repair(p) PROVE StoreInv'
<1>1. /\ holder = p /\ call[p].at \in {"load", "resolve", "append"}
      /\ UNCHANGED <<files, torn, made, holder, call, told>>
  BY DEF Repair, Reading
<1>2. PICK s \in Scope(p) : \E i \in Missing(s) : roots' = [roots EXCEPT ![s] = @ \cup {i}]
  BY DEF Repair
<1>3. PICK i \in Missing(s) : roots' = [roots EXCEPT ![s] = @ \cup {i}]
  BY <1>2
<1>4. /\ TypeOK /\ roots \in [Sessions -> SUBSET Nat] /\ files \in [Sessions -> Seq(Event)]
      /\ s \in Sessions
  <2>1. TypeOK /\ made \subseteq Sessions /\ call[p].r.s \in Sessions
    BY <1>1, CallTyped DEF StoreInv, TypeOK
  <2> QED
    BY <1>2, <2>1 DEF Scope, TypeOK
<1>5. /\ i \in DOMAIN files[s] /\ i \notin roots[s] /\ i \in Nat
      /\ DOMAIN files[s] = 1 .. Len(files[s]) /\ Len(files[s]) \in Nat
  BY <1>4 DEF Missing
<1>6. /\ roots'[s] = roots[s] \cup {i} /\ \A x \in Sessions \ {s} : roots'[x] = roots[x]
      /\ roots' \in [Sessions -> SUBSET Nat]
  BY <1>3, <1>4, <1>5
<1>7. TypeOK'
  BY <1>1, <1>4, <1>6 DEF TypeOK
<1>8. CheckpointsFollow'
  <2>1. roots[s] \in {1 .. Len(files[s]), 1 .. Len(files[s]) - 1}
    BY <1>4 DEF StoreInv, CheckpointsFollow
  <2>2. roots[s] = 1 .. Len(files[s]) - 1 /\ i = Len(files[s])
    BY <1>5, <2>1
  <2>3. roots'[s] = 1 .. Len(files[s])
    BY <1>5, <1>6, <2>2
  <2>4. \A x \in Sessions \ {s} : roots'[x] \in {1 .. Len(files'[x]), 1 .. Len(files'[x]) - 1}
    BY <1>1, <1>6 DEF StoreInv, CheckpointsFollow
  <2> QED
    BY <1>1, <2>3, <2>4 DEF CheckpointsFollow
<1>9. ASSUME NEW q \in Process PROVE Admitted(q)' /\ Written(q)'
  <2>1. call[q].at \notin Appending
    BY <1>1 DEF StoreInv, Admitted, Appending
  <2>2. Written(q)
    BY DEF StoreInv
  <2> QED
    BY <1>1, <2>1, <2>2 DEF Admitted, Written
<1>10. ASSUME NEW q \in Process, told'[q] # None PROVE Recorded(told[q])'
  <2>1. told'[q] = told[q] /\ told[q] \in Answer /\ Recorded(told[q])
    BY <1>1, <1>4, <1>10 DEF StoreInv, TypeOK
  <2>2. \A x \in Sessions : roots[x] \subseteq roots'[x]
    BY <1>6
  <2>3. Recorded(told[q])'
    BY <1>1, <1>4, <2>1, <2>2, RootsGrow DEF Recorded, Intent
  <2> QED
    BY <2>1, <2>3
<1> QED
  BY <1>1, <1>7, <1>8, <1>9, <1>10 DEF StoreInv

--------------------------------------------------------------------------------
\* The model starts with logs that the promise allows, and all of their
\* checkpoints.
LEMMA InitHolds ==
  ASSUME Init PROVE StoreInv /\ Log!LogInit
<1>1. \A s \in Sessions : /\ files[s] \in Seq(Event) /\ Replayable(files[s]) /\ Once(files[s])
                          /\ Len(files[s]) <= Limit
  BY PastAssumption DEF Init
<1>2. files \in [Sessions -> Seq(Event)]
  BY <1>1 DEF Init
<1>3. TypeOK
  <2>1. roots \in [Sessions -> SUBSET Nat]
    <3>1. \A s \in Sessions : DOMAIN files[s] \subseteq Nat
      BY <1>1
    <3> QED
      BY <3>1 DEF Init
  <2>2. call \in [Process -> {Idle} \cup [at : Phase, r : Request, seen : Nat]]
    BY DEF Init
  <2> QED
    BY <1>2, <2>1, <2>2 DEF Init, TypeOK
<1>4. CheckpointsFollow
  BY <1>1 DEF Init, CheckpointsFollow
<1>5. \A p \in Process : Admitted(p) /\ Written(p)
  BY DEF Init, Idle, Admitted, Written, Appending
<1>6. StoreInv
  BY <1>3, <1>4, <1>5 DEF StoreInv, Init
<1>7. Log!LogTypeOK
  BY <1>2, SameEvents DEF Log!LogTypeOK
<1>8. Log!LogInv
  <2>1. \A s \in Sessions : Log!Replayable(files[s]) /\ Log!Once(files[s])
    BY <1>1, SameEvents DEF Log!Replayable, Replayable, Log!Once, Once
  <2>2. Log!CreatesOne
    <3>1. ASSUME NEW x \in Sessions, NEW y \in Sessions, files[x] # <<>>, files[y] # <<>>,
                 files[x][1].op = files[y][1].op
          PROVE  x = y
      <4>1. files[x] \in Past /\ files[y] \in Past
        BY DEF Init
      <4>2. files[x] = files[y]
        BY <3>1, <4>1, PastAssumption
      <4> QED
        BY <3>1, <4>2 DEF Init
    <3> QED
      BY <3>1 DEF Log!CreatesOne
  <2> QED
    BY <1>1, <2>1, <2>2 DEF Log!LogInv
<1> QED
  BY <1>6, <1>7, <1>8 DEF Log!LogInit

\* One step: what it keeps, and what it is to the log.
LEMMA StepKeeps ==
  ASSUME StoreInv, [Next]_vars PROVE StoreInv' /\ [Log!LogNext]_files
<1>1. CASE UNCHANGED vars
  BY <1>1 DEF vars, StoreInv, TypeOK, CheckpointsFollow, Admitted, Written, Recorded, Appending,
     Log!Fresh, Log!Creates
<1>2. ASSUME NEW p \in Process, Step(p) PROVE StoreInv' /\ [Log!LogNext]_files
  <2>1. CASE Fill(p)
    <3>1. Log!Add(call[p].r.s, call[p].r.e) /\ call[p].r.s \in Sessions /\ call[p].r.e \in Event
      BY <2>1, FillAdds
    <3>2. [Log!LogNext]_files
      BY <3>1, SameEvents DEF Log!LogNext
    <3> QED
      BY <2>1, <3>2, FillKeeps
  <2>2. CASE ~Fill(p)
    <3>1. StoreInv'
      BY <1>2, <2>2, AskKeeps, EnterKeeps, BusyKeeps, RepairKeeps, CorruptKeeps, LoadKeeps,
         ResolveKeeps, AdmitKeeps, PrepareKeeps, WriteKeeps, CheckpointKeeps, StopKeeps DEF Step
    <3>2. UNCHANGED files
      BY <1>2, <2>2 DEF Step, Ask, Enter, Busy, Repair, Corrupt, Load, Resolve, Admit, Prepare,
         Write, Checkpoint, Stop
    <3> QED
      BY <3>1, <3>2
  <2> QED
    BY <2>1, <2>2
<1> QED
  BY <1>1, <1>2 DEF Next

\* An append that is admitted keeps, up to its last step, what it was admitted
\* for.
THEOREM StoreInvariant == Spec => []StoreInv
<1>1. Init => StoreInv
  BY InitHolds
<1>2. StoreInv /\ [Next]_vars => StoreInv'
  BY StepKeeps
<1> QED
  BY <1>1, <1>2, PTL DEF Spec

\* However many processes write, retry, stop and repair, the files are logs to
\* which each accepted operation is added once, at the end.
THEOREM StoreImplementsLog == Spec => ImplementsLog
<1>1. Init => StoreInv /\ Log!LogInit
  BY InitHolds
<1>2. StoreInv /\ [Next]_vars => StoreInv' /\ [Log!LogNext]_files
  BY StepKeeps
<1> QED
  BY <1>1, <1>2, PTL DEF Spec, ImplementsLog, Log!LogSpec

\* The checkpoints of a session have no hole: at most its newest event has none.
THEOREM StoreCheckpointsFollow == Spec => []CheckpointsFollow
<1>1. StoreInv => CheckpointsFollow
  BY DEF StoreInv
<1> QED
  BY <1>1, StoreInvariant, PTL

\* What a caller was told has happened is in the session, and has its
\* checkpoint.
THEOREM StoreToldIsRecorded == Spec => []ToldIsRecorded
<1>1. StoreInv => ToldIsRecorded
  BY DEF StoreInv, ToldIsRecorded, Recorded
<1> QED
  BY <1>1, StoreInvariant, PTL

-----------------------------------------------------------------------------
(* What is promised, and why a log that keeps the promise can be read.     *)

\* The events before a place do not change when one is added at the end.
LEMMA PrefixOfAppend ==
  ASSUME NEW S, NEW l \in Seq(S), NEW e \in S, NEW n \in 0 .. Len(l)
  PROVE  /\ SubSeq(Append(l, e), 1, n) = SubSeq(l, 1, n)
         /\ n = Len(l) => SubSeq(Append(l, e), 1, n) = l
<1>1. Len(Append(l, e)) = Len(l) + 1 /\ Append(l, e) \in Seq(S)
  OBVIOUS
<1>2. \A i \in 1 .. Len(l) : Append(l, e)[i] = l[i]
  OBVIOUS
<1>3. SubSeq(Append(l, e), 1, n) = [i \in 1 .. n |-> Append(l, e)[i]]
  BY <1>1
<1>4. SubSeq(l, 1, n) = [i \in 1 .. n |-> l[i]]
  OBVIOUS
<1>5. l = [i \in 1 .. Len(l) |-> l[i]]
  OBVIOUS
<1> QED
  BY <1>2, <1>3, <1>4, <1>5

\* A log stays readable when a fresh, accepted event is added to it.
LEMMA AddKeepsReadable ==
  ASSUME NEW l \in Seq(Log!Event), Log!Replayable(l), Log!Once(l), NEW e \in Log!Event,
         Log!Accepts(l, e), \A i \in DOMAIN l : l[i].op # e.op
  PROVE  Log!Replayable(Append(l, e)) /\ Log!Once(Append(l, e))
<1> DEFINE m == Append(l, e)
<1>1. /\ m \in Seq(Log!Event) /\ Len(m) = Len(l) + 1 /\ DOMAIN m = 1 .. Len(l) + 1
      /\ DOMAIN l = 1 .. Len(l) /\ Len(l) \in Nat
      /\ m[Len(l) + 1] = e /\ \A i \in 1 .. Len(l) : m[i] = l[i]
  OBVIOUS
<1>2. ASSUME NEW i \in DOMAIN m PROVE Log!Accepts(SubSeq(m, 1, i - 1), m[i])
  <2>1. i - 1 \in 0 .. Len(l)
    BY <1>1
  <2>2. CASE i = Len(l) + 1
    <3>1. SubSeq(m, 1, i - 1) = l
      BY <2>1, <2>2, PrefixOfAppend
    <3> QED
      BY <3>1, <2>2, <1>1
  <2>3. CASE i \in 1 .. Len(l)
    <3>1. SubSeq(m, 1, i - 1) = SubSeq(l, 1, i - 1)
      BY <2>1, PrefixOfAppend
    <3> QED
      BY <3>1, <2>3, <1>1 DEF Log!Replayable
  <2> QED
    BY <1>1, <2>2, <2>3
<1>3. ASSUME NEW i \in DOMAIN m, NEW j \in DOMAIN m, m[i].op = m[j].op PROVE i = j
  <2> HIDE DEF m
  <2> QED
    BY <1>1, <1>3 DEF Log!Once
<1> QED
  BY <1>2, <1>3 DEF Log!Replayable, Log!Once

\* An addition keeps every session readable, without an operation that is in
\* it twice, and no two sessions are created by one operation.
LEMMA AddKeepsInv ==
  ASSUME Log!LogTypeOK, Log!LogInv, NEW s \in Sessions, NEW e \in Log!Event, Log!Add(s, e)
  PROVE  Log!LogTypeOK' /\ Log!LogInv'
<1> USE DEF Log!LogTypeOK
<1>1. /\ files' = [files EXCEPT ![s] = Append(@, e)] /\ files[s] \in Seq(Log!Event)
      /\ Append(files[s], e) \in Seq(Log!Event) /\ Len(Append(files[s], e)) = Len(files[s]) + 1
  BY DEF Log!Add
<1>2. Log!LogTypeOK'
  BY <1>1
<1>3. Log!Replayable(Append(files[s], e)) /\ Log!Once(Append(files[s], e))
  BY <1>1, AddKeepsReadable DEF Log!Add, Log!Fresh, Log!LogInv
<1>4. \A x \in Sessions : Log!Replayable(files'[x]) /\ Log!Once(files'[x])
                           /\ Len(files'[x]) <= Limit
  <2>1. Len(Append(files[s], e)) <= Limit
    BY <1>1, LimitAssumption DEF Log!Add
  <2> QED
    BY <1>1, <1>3, <2>1 DEF Log!LogInv
<1>5. ASSUME NEW x \in Sessions, NEW y \in Sessions, files'[x] # <<>>, files'[y] # <<>>,
             files'[x][1].op = files'[y][1].op
      PROVE  x = y
  <2>1. \A z \in Sessions : z # s => files'[z] = files[z]
    BY <1>1
  <2>2. CASE files[s] = <<>>
    <3>1. files'[s][1] = e /\ e.type = "created"
      <4>1. e.type = "created"
        BY <2>2 DEF Log!Add, Log!Accepts, Log!In
      <4> QED
        BY <1>1, <2>2, <4>1
    <3>2. \A z \in Sessions : files[z] # <<>> => files[z][1].op # e.op
      BY <3>1 DEF Log!Add, Log!Fresh, Log!Creates
    <3>3. \A z \in Sessions \ {s} : files'[z] # <<>> => files'[z][1].op # files'[s][1].op
      BY <2>1, <3>1, <3>2
    <3> QED
      BY <1>5, <2>1, <3>3 DEF Log!LogInv, Log!CreatesOne
  <2>3. CASE files[s] # <<>>
    <3>1. files'[s][1] = files[s][1]
      BY <1>1, <2>3
    <3>2. \A z \in Sessions : files[z] # <<>> <=> files'[z] # <<>>
      BY <1>1, <2>1, <2>3
    <3>3. \A z \in Sessions : files'[z][1] = files[z][1]
      BY <2>1, <3>1
    <3> QED
      BY <1>5, <3>2, <3>3 DEF Log!LogInv, Log!CreatesOne
  <2> QED
    BY <2>2, <2>3
<1> QED
  BY <1>2, <1>4, <1>5 DEF Log!LogInv, Log!CreatesOne

\* However a log of this kind grows, every session in it can be read from its
\* first event on, and holds each operation once.
THEOREM LogIsReadable == Log!LogSpec => [](Log!LogTypeOK /\ Log!LogInv)
<1>1. Log!LogInit => Log!LogTypeOK /\ Log!LogInv
  BY DEF Log!LogInit
<1>2. Log!LogTypeOK /\ Log!LogInv /\ [Log!LogNext]_files
         => (Log!LogTypeOK /\ Log!LogInv)'
  <2>1. ASSUME Log!LogTypeOK, Log!LogInv, Log!LogNext
        PROVE  (Log!LogTypeOK /\ Log!LogInv)'
    BY <2>1, AddKeepsInv DEF Log!LogNext
  <2>2. ASSUME Log!LogTypeOK, Log!LogInv, UNCHANGED files
        PROVE  (Log!LogTypeOK /\ Log!LogInv)'
    BY <2>2 DEF Log!LogTypeOK, Log!LogInv, Log!CreatesOne
  <2> QED
    BY <2>1, <2>2
<1> QED
  BY <1>1, <1>2, PTL DEF Log!LogSpec

\* Every session stays readable: its events reduce from the first one on, and
\* it holds each operation once.
THEOREM StoreIsReadable == Spec => []Log!LogInv
BY LogIsReadable, StoreImplementsLog, PTL DEF ImplementsLog
================================================================================
