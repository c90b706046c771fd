-------------------------- MODULE MCMetadataCache --------------------------
(***************************************************************************)
(* Instances of MetadataCache for TLC.                                     *)
(***************************************************************************)
EXTENDS MetadataCache, TLC

CONSTANTS n1, n2, db, search, r1, r2, r3

OneServer == (r1 :> n1) @@ (r2 :> n1)
ThreeOnTwo == (r1 :> n1) @@ (r2 :> n1) @@ (r3 :> n2)
TwoServers == (r1 :> n1) @@ (r2 :> n2)

\* r1 and r2 are on one server in every instance that uses this.
Symmetry == Permutations({r1, r2})

=============================================================================
