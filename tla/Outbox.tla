------------------------------- MODULE Outbox -------------------------------
(***************************************************************************)
(* WhatsApp messages sent to one lead at a time (send_single_whatsapp) and *)
(* the provider's receipts about them.  A copy is a message the provider   *)
(* has accepted; its id is all that ties its receipts to a row.            *)
(***************************************************************************)
EXTENDS Webhooks

CONSTANTS
    Send,         \* requests to send one message
    Copy,         \* provider message ids; bound: copies the provider accepts
    NoCopy,       \* no id is known
    MaxRetries    \* max_retries of the task (3)

ASSUME OutboxAssumption == NoCopy \notin Copy /\ MaxRetries \in Nat

VARIABLES
    send,         \* the task of each request
    wire,         \* how far the provider has got with each copy
    row,          \* status of the WhatsAppMessage with the copy's id
    post,         \* receipts the provider still has to deliver
    odd           \* observer: copies with a receipt that came before the row,
                  \* after a higher one ("meta" only), or was lost

outVars == <<send, wire, row, post, odd>>

Status == {"none", "sent", "delivered", "read", "failed"}
Rank == [sent |-> 1, delivered |-> 2, read |-> 3, failed |-> 4]
Receipts == Copy \X (Status \ {"none"})

SendRec == [pc : {"none", "queued", "record", "log", "done", "refused", "failed", "lost"},
            tries : 0..MaxRetries, copy : Copy \cup {NoCopy}]
NoSend == [pc |-> "none", tries |-> 0, copy |-> NoCopy]

OutboxInit ==
    /\ send = [s \in Send |-> NoSend]
    /\ wire = [c \in Copy |-> "none"] /\ row = [c \in Copy |-> "none"]
    /\ post = {} /\ odd = {}

Set(s, h) == send' = [send EXCEPT ![s] = h]
Go(s, pc) == Set(s, [send[s] EXCEPT !.pc = pc])

\* Every exception is retried, wherever it was raised, until the retries are
\* used up: the whole task again, the call of the provider included.
AgainAlways(s) == Set(s, [pc |-> "queued", tries |-> send[s].tries + 1, copy |-> NoCopy])
Again(s) ==
    Set(s, IF send[s].tries < MaxRetries
           THEN [pc |-> "queued", tries |-> send[s].tries + 1, copy |-> NoCopy]
           ELSE [send[s] EXCEPT !.pc = "failed"])

Accepts(c) ==
    /\ wire[c] = "none"
    /\ wire' = [wire EXCEPT ![c] = "sent"]
    /\ post' = post \cup {<<c, "sent">>}

-----------------------------------------------------------------------------
(* The task.                                                               *)

Queue(s) ==
    /\ send[s].pc = "none"
    /\ Go(s, "queued")
    /\ UNCHANGED <<wire, row, post, odd>>

\* WhatsApp was disconnected meanwhile: a failed row without an id says so.
NotConnected(s) ==
    /\ send[s].pc = "queued"
    /\ Go(s, "refused")
    /\ UNCHANGED <<wire, row, post, odd>>

Hand(s, c) ==
    /\ send[s].pc = "queued"
    /\ Accepts(c)
    /\ Set(s, [send[s] EXCEPT !.pc = "record", !.copy = c])
    /\ UNCHANGED <<row, odd>>

\* The provider took the message and the answer did not come.
HandUnanswered(s, c) ==
    /\ send[s].pc = "queued"
    /\ Accepts(c)
    /\ Again(s)
    /\ UNCHANGED <<row, odd>>

Record(s) ==
    /\ send[s].pc = "record"
    /\ row' = [row EXCEPT ![send[s].copy] = "sent"]
    /\ Go(s, "log")
    /\ UNCHANGED <<wire, post, odd>>

\* The template's use, the activity and the lead's last contact.
Log(s) ==
    /\ send[s].pc = "log"
    /\ Go(s, "done")
    /\ UNCHANGED <<wire, row, post, odd>>

Fails(s) ==
    /\ send[s].pc \in {"queued", "record", "log"}
    /\ Again(s)
    /\ UNCHANGED <<wire, row, post, odd>>

\* The worker dies; its message was acknowledged when it started.
Dies(s) ==
    /\ send[s].pc \in {"queued", "record", "log"}
    /\ Go(s, "lost")
    /\ UNCHANGED <<wire, row, post, odd>>

-----------------------------------------------------------------------------
(* The provider and its receipts, which it repeats until they are answered *)
(* and which come in any order.                                            *)

Progress(c) ==
    /\ \E st \in {"delivered", "read", "failed"} :
          /\ wire[c] = "sent" \/ (wire[c] = "delivered" /\ st = "read")
          /\ wire' = [wire EXCEPT ![c] = st]
          /\ post' = post \cup {<<c, st>>}
    /\ UNCHANGED <<send, row, odd>>

Answered(r) == post' = post \ {r}
Delivered(r) == Answered(r) \/ post' = post

\* record_receipt: one UPDATE of the rows that are behind; a failure always.
BehindAny(st) == DOMAIN Rank
Behind(st) == IF st = "failed" THEN DOMAIN Rank ELSE {b \in DOMAIN Rank : Rank[b] < Rank[st]}
CommsReceipt(c, st) ==
    /\ endpoint = "comms" /\ <<c, st>> \in post
    /\ Delivered(<<c, st>>)
    /\ row' = [row EXCEPT ![c] = IF @ \in Behind(st) THEN st ELSE @]
    /\ odd' = IF row[c] = "none" THEN odd \cup {c} ELSE odd
    /\ UNCHANGED <<send, wire, claimed>>

\* process_status: whatever the row says, once for each id and status; the key
\* is claimed also when no row has the id.
Fresh(c, st) == <<c, st>> \notin claimed
MetaReceipt(c, st) ==
    /\ endpoint = "meta" /\ <<c, st>> \in post
    /\ Delivered(<<c, st>>)
    /\ IF Fresh(c, st)
       THEN /\ claimed' = claimed \cup {<<c, st>>}
            /\ row' = [row EXCEPT ![c] = IF @ = "none" THEN @ ELSE st]
            /\ odd' = IF row[c] = "none" \/ (\E k \in claimed : k[1] = c /\ Rank[k[2]] > Rank[st])
                      THEN odd \cup {c} ELSE odd
       ELSE UNCHANGED <<claimed, row, odd>>
    /\ UNCHANGED <<send, wire>>

\* An error while it is applied: answered all the same.
ReceiptLost(c, st) ==
    /\ <<c, st>> \in post /\ <<c, st>> \notin claimed
    /\ Answered(<<c, st>>)
    /\ odd' = odd \cup {c}
    /\ UNCHANGED <<send, wire, row, claimed>>

OutboxNext ==
    \/ \E s \in Send :
          /\ \/ Queue(s) \/ NotConnected(s) \/ Record(s) \/ Log(s) \/ Fails(s) \/ Dies(s)
             \/ \E c \in Copy : Hand(s, c) \/ HandUnanswered(s, c)
          /\ UNCHANGED claimed
    \/ \E c \in Copy : Progress(c) /\ UNCHANGED claimed
    \/ \E c \in Copy, st \in Status \ {"none"} :
          CommsReceipt(c, st) \/ MetaReceipt(c, st) \/ ReceiptLost(c, st)
=============================================================================
