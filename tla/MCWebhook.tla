------------------------------ MODULE MCWebhook ------------------------------
(***************************************************************************)
(* Instances of Webhook: a delivery, its redelivery with the same or with  *)
(* another body, and a second delivery.                                    *)
(***************************************************************************)
EXTENDS Webhook, TLC

CONSTANTS m1, b1, b2, r1, r2, r3

MCRequest(m, k, b) == [at |-> "idle", daemon |-> m, key |-> k, body |-> b]

MCTraffic == {(r1 :> MCRequest(m1, 1, b1)) @@ (r2 :> MCRequest(m1, 1, b)) @@
              (r3 :> MCRequest(m1, 2, b1)) : b \in Bodies}
=============================================================================
