----------------------------- MODULE MCAuditViews -----------------------------
(* Instances of AuditViews small enough for TLC. *)
EXTENDS AuditViews, MCAuditTrail

CONSTANT g1

MCKinds == Mutations \ {"CREATE_CASE"}
MCViews == Views
LaterSymmetry == Permutations(Request \ {Opening})

(* The VIEW of MCAuditTrail, and of the queries: one that ended in an error *)
(* shows nothing, and only the audit trail looks at `before`.               *)
RelevantViews ==
  <<Relevant, rpc,
    [r \in Reader |-> IF rpc[r] = "error" THEN NoQuery ELSE query[r]],
    [r \in Reader |-> IF rpc[r] \in {"error", "missing"} THEN Nothing ELSE shown[r]],
    [r \in Reader |-> IF rpc[r] = "error" THEN {} ELSE todo[r]],
    [r \in Reader |-> IF query[r].kind = "trail" /\ rpc[r] /= "error" THEN before[r] ELSE {}]>>
=============================================================================
