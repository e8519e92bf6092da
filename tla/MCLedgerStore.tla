---------------------------- MODULE MCLedgerStore -----------------------------
(* Instances of LedgerStore small enough for TLC. *)
EXTENDS LedgerStore, TLC

CONSTANTS e1, e2, e3

EntrySymmetry == Permutations(EntryId)
=============================================================================
