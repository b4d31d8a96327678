------------------------------- MODULE MCWebhook -------------------------------
(***************************************************************************)
(* Small instances of Webhook.                                             *)
(***************************************************************************)
EXTENDS Webhook

CONSTANTS d1, w1, w2

OneDelivery == {d1}
OneWorker == {w1}
TwoWorkers == {w1, w2}

\* The first intervals of the schedule.
TwoRetries == <<30, 60>>

\* Each fault once, and two admins who may retry the delivery at the same time.
TwoAdmins == [k \in TroubleKinds |-> IF k = "admin" THEN 2 ELSE 1]
NoTrouble == [k \in TroubleKinds |-> 0]
================================================================================
