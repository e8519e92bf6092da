------------------------------ MODULE MCSessions ------------------------------
(* Instances of Sessions small enough for TLC. *)
EXTENDS Sessions, TLC

CONSTANTS q1, q2, q3, q4, q5

CallSymmetry == Permutations(Request)

(* States that differ only in what no action, property or mutant looks at   *)
(* again are one state to TLC.  Of a call that has ended there remain: of a *)
(* register whether an admin made it and which role; of a refresh that got  *)
(* its pair the token it used; of a PATCH the user and, if it broke off,    *)
(* the status it meant to write; of the calls it met those of a kind some   *)
(* property pairs with it.                                                  *)
Ended(r) == pc[r] \in {"ok", "error"}

KnownPc(r) == IF Ended(r) /\ op[r].kind \in {"register", "login", "me"} THEN "ended" ELSE pc[r]

KnownOp(r) ==
  LET o == op[r]
  IN IF ~Ended(r) THEN <<o>>
     ELSE CASE o.kind = "register" -> <<o.kind, IsAdmin(o.as), o.role>>
            [] o.kind = "refresh" /\ pc[r] = "ok" -> <<o.kind, o.on>>
            [] o.kind = "patch" -> <<o.kind, o.on>>
            [] OTHER -> <<o.kind>>

KnownSeen(r) ==
  IF ~Ended(r) THEN <<seen[r]>>
  ELSE IF op[r].kind = "patch" /\ pc[r] = "error" /\ seen[r] /= NoUser
       THEN <<seen[r].id, Merged(r).status>> ELSE <<>>

KnownMet(r) ==
  {s \in met[r] : IF Ended(r) THEN \/ op[s].kind = op[r].kind /\ op[r].kind \in {"register", "refresh"}
                                   \/ op[s].kind = "patch" /\ r \in {t.id : t \in tokens}
                  ELSE op[s].kind \in {"register", "refresh", "patch"}}

Relevant == <<[r \in Request |-> <<KnownPc(r), KnownOp(r), KnownSeen(r), KnownMet(r)>>],
              users, tokens, jwts>>
=============================================================================
