------------------------------ MODULE MCSpawns ------------------------------
(***************************************************************************)
(* Instances of Spawns for TLC.                                            *)
(***************************************************************************)
EXTENDS Spawns

CONSTANTS wolf, ghost, weak, strong, gold, gem

OneSpawn == [m \in Spawned |-> CHOOSE s \in Spawns : TRUE]

\* Entries as in Group.txt, cumulative chances of MaxRoll = 4: one list that the
\* server refuses (4 after 4), one with an entry that is ignored.
Lists == {[g \in {weak, strong} |-> IF g = weak THEN <<<<0, gem>>, <<2, gold>>>>
                                     ELSE <<<<1, gem>>, <<4, gold>>>>],
          [g \in {weak, strong} |-> <<<<4, gem>>, <<4, gold>>>>]}

ItemLists == {<<<<2, weak>>, <<4, strong>>>>}

=============================================================================
