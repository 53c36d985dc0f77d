---------------------------- MODULE MCProbeService ----------------------------
(***************************************************************************)
(* Two requests; the bound on calls is never reached.  The recovery of a   *)
(* late attach does not wait for the backend lock, so that an attach and a *)
(* control request are not taken together (see the README).                *)
(***************************************************************************)
EXTENDS ProbeService, TLC

MCThread == {Worker(r) : r \in Request} \cup {Helper(r) : r \in Request} \cup {Stopper}

MCInit ==
    /\ Init
    /\ \A r, s \in Request :
          level[r] = "attach" /\ r # s => level[s] \in {"read", "program"}

MCSpec == MCInit /\ [][Next]_vars

Symmetry == Permutations(Request)
=============================================================================
