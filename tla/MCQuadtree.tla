----------------------------- MODULE MCQuadtree -----------------------------
(***************************************************************************)
(* Instances of Quadtree for TLC.                                          *)
(***************************************************************************)
EXTENDS Quadtree, TLC

\* For squares that are 8 and 5 wide: neighbours, the middle, where four
\* children meet, a point on their borders, corners, and a point outside.
MCPoints ==
    {[x |-> 0, y |-> 0], [x |-> 1, y |-> 0], [x |-> 1, y |-> 1], [x |-> 2, y |-> 4],
     [x |-> 4, y |-> 4], [x |-> 5, y |-> 5], [x |-> 8, y |-> 0], [x |-> 8, y |-> 9]}

Symmetry == Permutations(Entities)

=============================================================================
