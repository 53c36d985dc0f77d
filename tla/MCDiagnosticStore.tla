--------------------------- MODULE MCDiagnosticStore ---------------------------
(* Two processes and two sessions.  Each session is new, or one that already   *)
(* verifies a change.                                                          *)
EXTENDS DiagnosticStore, TLC

CONSTANTS p1, p2, s1, s2, o1, o2, h1, h2, h3, h4, h5, c1

Happened(op, type, arg, ok) == [op |-> op, type |-> type, arg |-> arg, ok |-> ok]

Verifying ==
    <<Happened(h1, "created", None, FALSE), Happened(h2, "begun", None, FALSE),
      Happened(h3, "declared", c1, FALSE), Happened(h4, "planned", c1, TRUE),
      Happened(h5, "verifying", c1, FALSE)>>

MCPast == {<<>>, Verifying}

Symmetry == Permutations(Process) \cup Permutations(Sessions) \cup Permutations(Asked)
================================================================================
