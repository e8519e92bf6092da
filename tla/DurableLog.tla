------------------------------ MODULE DurableLog ------------------------------
(***************************************************************************)
(* What a ledger kept in memory and saved to a file is worth to its        *)
(* clients: the log grows at its end only and is saved as a whole, a crash *)
(* goes back to what was saved, and a restart that cannot read the file    *)
(* begins an empty log, which the next save puts in place of the old.      *)
(***************************************************************************)
EXTENDS Naturals, Sequences

VARIABLES
  log,    \* the entries so far
  saved   \* those a crash does not lose

Init == log = <<>> /\ saved = <<>>

(* An entry joins the end, and may or may not be saved with the others. *)
AppendOne ==
  /\ Len(log') = Len(log) + 1
  /\ SubSeq(log', 1, Len(log)) = log
  /\ saved' \in {saved, log'}

Save == log' = log /\ saved' = log
Lose == log' = saved /\ saved' = saved
Forget == log' = <<>> /\ saved' = saved

Spec == Init /\ [][AppendOne \/ Save \/ Lose \/ Forget]_<<log, saved>>
=============================================================================
