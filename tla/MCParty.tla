------------------------------ MODULE MCParty ------------------------------
(***************************************************************************)
(* Instances of Party for TLC.                                             *)
(***************************************************************************)
EXTENDS Party

Symmetry == Permutations(Players) \cup Permutations(Parties)

============================================================================
