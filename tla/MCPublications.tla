---------------------------- MODULE MCPublications -----------------------------
(* Two processes that deliver, create, regenerate and copy; authorizations.    *)
(* Copying shares nothing with the other tools but the source, which only the  *)
(* user changes, so its steps commute with theirs: it is not interleaved with  *)
(* them, but with other copying and with the user.                             *)
EXTENDS Publications, TLC

CONSTANTS p1, p2, a1, a2, g1

Apart ==
    \A p, q \in Process :
        copy[p].at # "idle" =>
            delivery[q].at = "idle" /\ creation[q].at = "idle" /\ regen[q].at = "idle"

MCSpec == Init /\ [][Next /\ Apart']_vars

Symmetry == Permutations(Process) \cup Permutations(Authorization)
================================================================================
