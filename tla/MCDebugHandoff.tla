--------------------------- MODULE MCDebugHandoff ---------------------------
(* Instance of DebugHandoff: three processes that can each restart once, two*)
(* sessions, two builds and two tickets.  Leases bound the number of       *)
(* attempts: one to hand over, one to take back, and two that are wasted.  *)
EXTENDS DebugHandoff, TLC

Symmetry == Permutations(Process) \cup Permutations(Session) \cup Permutations(Ticket)
            \cup Permutations(Build)
=============================================================================
