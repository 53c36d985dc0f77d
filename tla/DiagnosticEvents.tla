---------------------------- MODULE DiagnosticEvents ----------------------------
(***************************************************************************)
(* The events of a diagnostic session and the reducer that gives them      *)
(* meaning (diagnostics/events.py).  A session is the sequence of its      *)
(* events: every field the code materialises is a function of them.        *)
(***************************************************************************)
EXTENDS Naturals, Sequences

CONSTANTS
    Operation,  \* ids the callers give to their operations
    Change,     \* source changes that can be declared
    Limit,      \* MAX_EVENTS: the events one session can have
    None

ASSUME LimitAssumption == Limit \in Nat \ {0}

(* One event.  "noted" stands for the events that keep a session under     *)
(* investigation: hypotheses, their assessments, observation plans and     *)
(* results.  A plan has the id its declaration announced, so declarations, *)
(* plans and verifications are named by the change they are about.  "ok"   *)
(* is what a plan says of the test run after the change, and what a        *)
(* completed verification found.                                           *)
EventType == {"created", "begun", "noted", "declared", "planned", "verifying",
              "marked", "completed"}

Event == [op : Operation, type : EventType, arg : Change \cup {None}, ok : BOOLEAN]

(* The events that are about the plan a session verifies, whoever asks.    *)
OfActivePlan == {"marked", "completed"}

(* _intent: what makes two requests for an operation the same request.     *)
Intent(e) == <<e.type, IF e.type \in OfActivePlan THEN None ELSE e.arg, e.ok>>

Has(l, type, arg) == \E i \in DOMAIN l : l[i].type = type /\ l[i].arg = arg

Newest(l) == l[Len(l)]

(* The state after an event depends on that event alone.                   *)
StateAfter(e) ==
    CASE e.type = "created"                 -> "OPEN"
      [] e.type \in {"begun", "noted"}      -> "INVESTIGATING"
      [] e.type \in {"declared", "planned"} -> "FIX_PROPOSED"
      [] e.type \in {"verifying", "marked"} -> "VERIFYING"
      [] e.type = "completed"               -> IF e.ok THEN "RESOLVED" ELSE "INVESTIGATING"

In(l, state) == l # <<>> /\ StateAfter(Newest(l)) = state

(* reduce_event takes the event after these: _require_state, and what the  *)
(* reducer of its type asks for.  While a session verifies, its newest     *)
(* event names the active plan.                                            *)
Accepts(l, e) ==
    \/ e.type = "created" /\ l = <<>>
    \/ e.type = "begun" /\ In(l, "OPEN")
    \/ e.type = "noted" /\ In(l, "INVESTIGATING")
    \/ e.type = "declared" /\ In(l, "INVESTIGATING") /\ ~Has(l, "declared", e.arg)
    \/ /\ e.type = "planned" /\ In(l, "FIX_PROPOSED")
       /\ Has(l, "declared", e.arg) /\ ~Has(l, "planned", e.arg)
    \/ e.type = "verifying" /\ In(l, "FIX_PROPOSED") /\ Has(l, "planned", e.arg)
    \/ e.type \in OfActivePlan /\ In(l, "VERIFYING") /\ e.arg = Newest(l).arg

(* What a reader requires of a session: reducing its events from the first *)
(* one on succeeds, and no operation is there twice.                       *)
Replayable(l) == \A i \in DOMAIN l : Accepts(SubSeq(l, 1, i - 1), l[i])

Once(l) == \A i, j \in DOMAIN l : l[i].op = l[j].op => i = j
================================================================================
