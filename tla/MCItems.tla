------------------------------ MODULE MCItems ------------------------------
(***************************************************************************)
(* Instances of Items for TLC.                                             *)
(***************************************************************************)
EXTENDS Items, TLC

SlotOfIndex ==
    [i \in Indexes |-> IF i \in TwoHanded THEN WeaponSlot
                       ELSE IF i \in Shields THEN ShieldSlot ELSE NoSlot]

\* Near the end of uint16_t, so that two worn items leave it.
BonusOfIndex == [i \in Indexes |-> IF SlotOfIndex[i] = NoSlot THEN 0 ELSE 40000]

\* A player who wears a two-handed sword, and one who has nothing.
SwordRow ==
    1 :> [pid |-> CHOOSE p \in Pids : TRUE, index |-> CHOOSE i \in TwoHanded : TRUE,
          num |-> 1, worn |-> TRUE]

============================================================================
