------------------------------ MODULE HashChain ------------------------------
(***************************************************************************)
(* What the audit log promises: entries that only ever accumulate, each    *)
(* one linked to the entry before it, with a single end ("head") that every*)
(* new entry extends.  Nothing here says how writers agree on that end.    *)
(***************************************************************************)
EXTENDS Naturals

CONSTANT Genesis   \* the hash the first entry links to

VARIABLES
  entries,  \* the entries so far: records with seq, prev_hash, entry_hash
  head      \* the hash the next entry must link to

Init == entries = {} /\ head = Genesis

(* One entry is appended: it links to the head, becomes the head, and its  *)
(* seq is beyond every seq in the chain.                                   *)
Extend ==
  \E e \in entries' \ entries :
    /\ entries' = entries \cup {e}
    /\ e.prev_hash = head
    /\ head' = e.entry_hash
    /\ \A p \in entries : p.seq < e.seq

Spec == Init /\ [][Extend]_<<entries, head>>
=============================================================================
