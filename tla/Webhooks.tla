------------------------------ MODULE Webhooks ------------------------------
(***************************************************************************)
(* What the handlers of WhatsApp webhooks share: the endpoint the provider *)
(* posts to, "comms" (communications/whatsapp_webhooks.py, in the request) *)
(* or "meta" (integrations/meta_whatsapp.py, in a Celery task), and the    *)
(* keys of the events "meta" has applied (MetaWhatsAppEvent).              *)
(***************************************************************************)
EXTENDS Naturals, Sequences, FiniteSets

VARIABLES
    endpoint,     \* where the provider posts; it never changes
    claimed       \* dedupe keys: an event is applied by the one who claims it

Endpoints == {"comms", "meta"}

WebhooksInit == endpoint \in Endpoints /\ claimed = {}
=============================================================================
