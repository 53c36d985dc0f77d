-------------------------- MODULE MCMonitorSampler --------------------------
(***************************************************************************)
(* The instance of MonitorSampler that TLC checks: see the README.         *)
(***************************************************************************)
EXTENDS MonitorSampler, TLC

Symmetry == Permutations(Subscriber)
=============================================================================
