------------------------------ MODULE MCAcceptance ------------------------------
(* Two callers, two versions of the sources, one diagnostic session.            *)
EXTENDS AcceptanceFinalization, TLC

CONSTANTS c1, c2, v1, v2, s1

Symmetry == Permutations(Client) \cup Permutations(Change)
================================================================================
