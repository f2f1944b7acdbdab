----------------------------- MODULE MCGateway -----------------------------
(* An instance of Gateway for TLC: one account on record, one that can still *)
(* register.                                                                 *)
EXTENDS Gateway, TLC

CONSTANTS u1, u2, e1, e2, p1

MCSeed ==
  [i \in {u1, u2} |->
     IF i = u1 THEN [email |-> e1, pw |-> [hashed |-> TRUE, of |-> p1],
                     role |-> "admin", active |-> TRUE]
     ELSE NoRow]
MCServices == {"notification", "inventory", "aiMl"}
MCDtos == {[field |-> "email", value |-> e2], [field |-> "pw", value |-> p1]}
MCRoutes == {"profile", "broadcast", "role create"}
=============================================================================
