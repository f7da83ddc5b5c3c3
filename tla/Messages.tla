------------------------------ MODULE Messages ------------------------------
(***************************************************************************)
(* A tenant's WhatsApp messages: those sent one by one with their receipts *)
(* (Outbox), and those received (Inbox).  Both use one webhook endpoint    *)
(* and the table of claimed event keys.                                    *)
(***************************************************************************)
EXTENDS Outbox, Inbox

vars == <<endpoint, claimed, send, wire, row, post, odd,
          policy, lead, thread, stored, handler, posts, met>>

Init == WebhooksInit /\ OutboxInit /\ InboxInit

Next ==
    /\ \/ OutboxNext /\ UNCHANGED inVars
       \/ InboxNext /\ UNCHANGED outVars
    /\ UNCHANGED endpoint

Spec == Init /\ [][Next]_vars
-----------------------------------------------------------------------------

\* Type invariant: every variable keeps the type its declaration names.
TypeOK ==
    /\ endpoint \in Endpoints
    /\ claimed \subseteq Receipts \cup {<<m>> : m \in Message}
    /\ send \in [Send -> SendRec]
    /\ wire \in [Copy -> Status] /\ row \in [Copy -> Status]
    /\ post \subseteq Receipts /\ odd \subseteq Copy
    /\ policy \in Policies
    /\ \A l \in DOMAIN lead : lead[l] \in LeadStatus
    /\ \A t \in DOMAIN thread : thread[t] \in Thread
    /\ \A m \in Message : \A i \in DOMAIN stored[m] : stored[m][i] \in Stored
    /\ handler \in [Handler -> HandlerRec]
    /\ posts \in [Message -> 0..MaxPosts]
    /\ \A pair \in met : pair \subseteq Message

\* When the provider has no receipt left to deliver, the message's row says
\* how far the provider got, in whatever order and however often its receipts
\* came (whatsapp_webhooks.py:23, "a late delivered never overwrites read").
\* A receipt that came before its row or was lost is missing for good, and the
\* endpoint of integrations/meta_whatsapp.py does step backwards.
ReceiptsAgree ==
    \A c \in Copy :
        row[c] = "none" \/ row[c] = wire[c] \/ c \in odd \/ \E r \in post : r[1] = c

\* A message is recorded once (integrations/models.py:142-148), unless two
\* deliveries of it met at the endpoint without a claim.
RecordedOnce ==
    \A m \in Message : Len(stored[m]) <= 1 \/ (endpoint = "comms" /\ {m} \in met)

\* A number has one lead (meta_whatsapp.py:519-520) and one open thread, a
\* message is in a thread of its lead, and each ad that led to a message has a
\* thread of its own (communications/models.py:238-240); unless two messages met.
\* The open thread of a lead that is gone goes on for the one that takes its
\* place: the lead is looked up among those not deleted, the thread by the number.
Apart == \A pair \in met : Cardinality(pair) = 1
ThreadsApart ==
    /\ Cardinality(OpenThreads(thread)) <= 1
    /\ Apart =>
         /\ Cardinality(Found) <= 1
         /\ \A m \in Message : \A i \in DOMAIN stored[m] :
               LET at == stored[m][i] IN
               at.thread # None =>
                  /\ thread[at.thread].lead \in {at.lead} \cup (DOMAIN lead \ Found)
                  /\ Clicked[m] = NoAd \/ thread[at.thread].ad = Clicked[m]

InboundKept == RecordedOnce /\ ThreadsApart
=============================================================================
