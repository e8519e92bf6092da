--------------------------- MODULE MCClientPages ---------------------------
(* Two cases, or two officers, and two handler calls in flight.              *)
EXTENDS ClientPages

MCJob == 1..2
=============================================================================
