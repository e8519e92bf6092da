----------------------------- MODULE MCAuditTrail -----------------------------
(* Instances of AuditTrail small enough for TLC. *)
EXTENDS AuditTrail, TLC

CONSTANTS r1, r2, r3, sup, inv

MCRole == (sup :> "supervisor") @@ (inv :> "investigator")
SoleRole == (sup :> "supervisor")
AllKinds == Mutations
LiveKinds == {"CREATE_CASE", "EVIDENCE"}
RequestSymmetry == Permutations(Request)

(* What the rest of a behaviour, and every property of it, can depend on,  *)
(* as the VIEW that tells TLC's states apart.  Nothing reads the request,  *)
(* the last hash or the row of a call that has ended without committing,   *)
(* nor whether such a call was answered with an error or dropped.          *)
Ended(r) == pc[r] \in {"error", "dropped"}
Relevant ==
  [pc |-> [r \in Request |-> IF Ended(r) THEN "error" ELSE pc[r]],
   op |-> [r \in Request |-> IF Ended(r) THEN NoOp ELSE op[r]],
   prev |-> [r \in Request |-> IF pc[r] = "read" THEN prev[r] ELSE Genesis],
   row |-> [r \in Request |-> IF Ended(r) /\ row[r] \notin auditLog THEN NoRow ELSE row[r]],
   rest |-> <<lastSeq, db, files, service>>]
=============================================================================
