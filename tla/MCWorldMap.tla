----------------------------- MODULE MCWorldMap -----------------------------
(***************************************************************************)
(* Instances of WorldMap for TLC.                                          *)
(***************************************************************************)
EXTENDS WorldMap, TLC

\* Each is in sight of its neighbours; with Width = 2 the last one is outside.
MCPoints ==
    {[x |-> 0, y |-> 0], [x |-> 1, y |-> 1], [x |-> 2, y |-> 1], [x |-> 3, y |-> 2]}

MCDeltas == {-1, 0, 1}

Symmetry == Permutations(Players)

=============================================================================
