-------------------------- MODULE MCSecondaryIndex --------------------------
(***************************************************************************)
(* Instances of SecondaryIndex for TLC.                                    *)
(***************************************************************************)
EXTENDS SecondaryIndexReader

CONSTANTS w1, w2

Symmetry == Permutations({w1, w2})

=============================================================================
