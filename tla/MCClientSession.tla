--------------------------- MODULE MCClientSession ----------------------------
(* Instances of ClientSession small enough for TLC. *)
EXTENDS ClientSession, TLC

CONSTANTS t1, t2, a1, a2, k1, k2

Renaming == Permutations(Tab) \cup Permutations(Account) \cup Permutations(Token)
=============================================================================
