------------------------------ MODULE DiagnosticLog ------------------------------
(***************************************************************************)
(* What the diagnostic store promises: every session is a log to which     *)
(* events are added at the end, one at a time, each at most once.          *)
(***************************************************************************)
EXTENDS DiagnosticEvents

CONSTANT Sessions  \* ids of diagnostic sessions

VARIABLE log

LogTypeOK == log \in [Sessions -> Seq(Event)]

(* An operation that creates a session creates one in the workspace.       *)
CreatesOne ==
    \A x, y \in Sessions :
        (log[x] # <<>> /\ log[y] # <<>> /\ log[x][1].op = log[y][1].op) => x = y

LogInv ==
    /\ \A s \in Sessions : Replayable(log[s]) /\ Once(log[s]) /\ Len(log[s]) <= Limit
    /\ CreatesOne

(* A workspace can have sessions to begin with.                            *)
LogInit == LogTypeOK /\ LogInv

Creates(s, op) == log[s] # <<>> /\ log[s][1].op = op

(* An operation is accepted once in its session, and an operation that     *)
(* creates a session once in the workspace.                                *)
Fresh(s, e) ==
    /\ \A i \in DOMAIN log[s] : log[s][i].op # e.op
    /\ e.type = "created" => \A x \in Sessions : ~Creates(x, e.op)

Add(s, e) ==
    /\ Fresh(s, e) /\ Accepts(log[s], e) /\ Len(log[s]) < Limit
    /\ log' = [log EXCEPT ![s] = Append(@, e)]

LogNext == log' # log /\ \E s \in Sessions, e \in Event : Add(s, e)

LogSpec == LogInit /\ [][LogNext]_log
================================================================================
