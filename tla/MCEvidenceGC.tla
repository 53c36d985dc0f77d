---- MODULE MCEvidenceGC ----
(* Two envelopes in a line of descent and one beside them; all three name  *)
(* one object, the third another one as well.                              *)
EXTENDS EvidenceGC, TLC

CONSTANTS p1, p2, o1, o2, e1, e2, e3, k1

MCArtifacts == (e1 :> {o1}) @@ (e2 :> {o1}) @@ (e3 :> {o1, o2})
MCParents == (e1 :> {}) @@ (e2 :> {e1}) @@ (e3 :> {})

Symmetric == Permutations({p1, p2})
=============================
