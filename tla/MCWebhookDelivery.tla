------------------------- MODULE MCWebhookDelivery -------------------------
(* Values of the constants of WebhookDelivery. *)
EXTENDS WebhookDelivery

CONSTANTS h1, q1

OneHook     == {h1}
OneRequest  == {q1}
=============================================================================
