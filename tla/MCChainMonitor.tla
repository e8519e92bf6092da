--------------------------- MODULE MCChainMonitor ---------------------------
(* Two handler calls in flight over a ledger of at most one entry.           *)
EXTENDS ChainMonitor

MCJob == 1..2
=============================================================================
