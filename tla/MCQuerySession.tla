--------------------------- MODULE MCQuerySession ---------------------------
(***************************************************************************)
(* Instances of QuerySession for TLC.                                      *)
(***************************************************************************)
EXTENDS QuerySession, TLC

CONSTANTS s1, s2, k1, k2, p, q

Symmetry == {f @@ g : f \in Permutations({s1, s2}), g \in Permutations({p, q})}

=============================================================================
