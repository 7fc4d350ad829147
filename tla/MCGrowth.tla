------------------------------ MODULE MCGrowth ------------------------------
(* Two levels to gain, one stat, two skills of which one needs the other. *)
EXTENDS Growth

CONSTANTS p1, p2, mastery, slash, behead

MCRequired == [s \in Skills |-> IF s = slash THEN [skill |-> mastery, grade |-> 2]
                                             ELSE [skill |-> NoSkill, grade |-> 0]]
MCLevelLimit == [s \in Skills |-> IF s = slash THEN 3 ELSE 1]
MCNeedExp == [l \in 0 .. 2 |-> IF l = 2 THEN 1 ELSE 0]
MCNeedPU == [i \in 0 .. 3 |-> IF i = 0 THEN 1 ELSE 2]
MCLevelPU == [l \in 1 .. 4 |-> IF l = 2 THEN 1 ELSE 2]
MCLeftover == {[NoPlayer EXCEPT !.level = 3, !.su = 1]}
=============================================================================
