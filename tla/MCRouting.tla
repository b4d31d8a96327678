------------------------------- MODULE MCRouting -------------------------------
(***************************************************************************)
(* Small instances of Routing.                                             *)
(***************************************************************************)
EXTENDS Routing

TwoGateways == <<2, 1>>

\* Out of service, and the weight that takes 2 and 1 away.
OddWeights == {0, -3}
\* Two requests of admins, a gateway that goes down and may come back, and
\* one failed statement.
TwoRequests == [k \in RoutingKinds |-> IF k \in {"admin", "link"} THEN 2 ELSE 1]
================================================================================
