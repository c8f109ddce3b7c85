-------------------------- MODULE MCWebhookDelivery --------------------------
(* The instances of WebhookDelivery that TLC checks. *)
EXTENDS WebhookDelivery
=============================================================================
