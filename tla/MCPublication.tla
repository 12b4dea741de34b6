---------------------------- MODULE MCPublication ----------------------------
(***************************************************************************)
(* Small instances of Publication.                                         *)
(***************************************************************************)
EXTENDS Publication, TLC

CONSTANTS energy, demand, v1, v2, rita, sam

ReviewerSymmetry == Permutations({rita, sam})
Symmetry == Permutations({rita, sam}) \cup Permutations({v1, v2})

FlawedValue == {<<energy, v2>>}
TwoScopes == {{energy}, {energy, demand}}
OneScope == {{energy}}
=============================================================================
