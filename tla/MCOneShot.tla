------------------------------ MODULE MCOneShot ------------------------------
(***************************************************************************)
(* One workflow of each kind; the bound on calls is never reached.         *)
(***************************************************************************)
EXTENDS OneShot, TLC

MCThread == {Worker(r) : r \in Request} \cup {Helper(r) : r \in Request} \cup {Stopper}
=============================================================================
