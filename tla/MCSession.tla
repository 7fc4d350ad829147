----------------------------- MODULE MCSession -----------------------------
(***************************************************************************)
(* Instances of Session for TLC.                                           *)
(***************************************************************************)
EXTENDS Session, TLC

\* Sessions are created alike, so are accounts: any permutation of them is a
\* symmetry of the specification (used by the runs without liveness only).
Symmetry == Permutations(Users) \cup Permutations(Accounts)

\* Fresh memory: the uninitialised AID is no account.
FreshAid == {NoAid}

\* Reused memory: the uninitialised AID may be the AID of an earlier player.
AnyAid == Accounts \cup {NoAid}

============================================================================
