---------------------------- MODULE ErpDocuments ----------------------------
(***************************************************************************)
(* Quotations, sales orders, customer invoices, payments and stock of one  *)
(* tenant in one financial year, under concurrent web requests:            *)
(*                                                                         *)
(*   src/apps/erp/services/documents.py   conversions, invoice lifecycle   *)
(*   src/apps/erp/services/numbering.py   the locked GST number sequence   *)
(*   src/apps/erp/views.py                line, header, status endpoints   *)
(*                                                                         *)
(* A request that takes its row lock before it checks is one step (issuing *)
(* is three, because it waits for a second lock).  Every other request     *)
(* loads its document, checks the copy, and writes in a later step.  A     *)
(* refused request leaves no trace and is not a step.                      *)
(*                                                                         *)
(* The value of a document is its number of lines: each line is one unit   *)
(* of a stock-tracked good at a price of one.  A new draft carries number  *)
(* 0 for its DRAFT-... placeholder.                                        *)
(***************************************************************************)
EXTENDS Integers, FiniteSets, Functions

CONSTANTS
    Request,          \* web requests that may be in progress together
    Quote, Order, Invoice, Payment,   \* rows that may ever be created
    NoQuote, NoOrder, NoInvoice, NoDoc,
    Kind,             \* the load-then-write requests a run explores
    MaxLines,         \* bound: lines of one document
    MaxNumber         \* bound: invoice numbers handed out

Kinds == {"quoteLine", "quotePatch", "quoteStatus", "quoteDelete", "convert",
          "raise", "line", "patch", "delete", "reverse"}

ASSUME ErpAssumption ==
    /\ Kind \subseteq Kinds
    /\ NoQuote \notin Quote /\ NoOrder \notin Order /\ NoInvoice \notin Invoice
    /\ IsFiniteSet(Payment) /\ IsFiniteSet(Invoice)
    /\ MaxLines \in Nat /\ MaxNumber \in Nat

VARIABLES
    quote,     \* Quotation: status and number of lines
    order,     \* SalesOrder: status, lines, quotation
    invoice,   \* CustomerInvoice, with the number of its items
    payment,   \* Payment: its invoice (NoInvoice: never created), amount, still there
    stock,     \* Product.stock_quantity, relative to its value at the start
    seq,       \* DocumentSequence.last_number of the invoices
    req,       \* requests in progress
    \* Observed by the properties only:
    raced      \* kinds of requests that wrote although their check, repeated
               \* at that moment, would have refused them

vars == <<quote, order, invoice, payment, stock, seq, req, raced>>

QuoteStatus == {"none", "draft", "sent", "accepted", "rejected", "converted", "gone"}
OrderStatus == {"none", "open", "invoiced", "cancelled"}
InvoiceStatus == {"none", "draft", "issued", "partially_paid", "paid", "cancelled", "gone"}
Final == {"issued", "partially_paid", "paid"}     \* issued and not cancelled

BlankInvoice == [st |-> "none", lines |-> 0, total |-> 0, paid |-> 0,
                 number |-> 0, order |-> NoOrder]
Idle == [op |-> "idle", doc |-> NoDoc, n |-> 0, to |-> "none"]
Issuing == {"issueLocked", "issueNumbered"}

QuoteRec == [st : QuoteStatus, lines : Nat]
OrderRec == [st : OrderStatus, lines : Nat, quote : Quote \cup {NoQuote}]
InvoiceRec == [st : InvoiceStatus, lines : Nat, total : Nat, paid : Nat,
               number : Nat, order : Order \cup {NoOrder}]
PaymentRec == [inv : Invoice \cup {NoInvoice}, amount : Nat, live : BOOLEAN]
RequestRec == [op : Kinds \cup Issuing \cup {"idle"},
               doc : Quote \cup Order \cup Invoice \cup Payment \cup {NoDoc},
               n : Nat, to : QuoteStatus]

TypeOK ==
    /\ quote \in [Quote -> QuoteRec]
    /\ order \in [Order -> OrderRec]
    /\ invoice \in [Invoice -> InvoiceRec]
    /\ payment \in [Payment -> PaymentRec]
    /\ stock \in Int
    /\ seq \in Nat
    /\ req \in [Request -> RequestRec]
    /\ raced \subseteq Kinds

Init ==
    /\ quote = [q \in Quote |-> [st |-> "none", lines |-> 0]]
    /\ order = [o \in Order |-> [st |-> "none", lines |-> 0, quote |-> NoQuote]]
    /\ invoice = [i \in Invoice |-> BlankInvoice]
    /\ payment = [p \in Payment |-> [inv |-> NoInvoice, amount |-> 0, live |-> FALSE]]
    /\ stock = 0 /\ seq = 0
    /\ req = [r \in Request |-> Idle]
    /\ raced = {}

\* Request r has loaded doc, passed its checks, and will write.
Load(r, kind, doc, n, to) ==
    /\ req[r] = Idle
    /\ kind \in Kind
    /\ req' = [req EXCEPT ![r] = [op |-> kind, doc |-> doc, n |-> n, to |-> to]]
    /\ UNCHANGED <<quote, order, invoice, payment, stock, seq, raced>>

End(r) == req' = [req EXCEPT ![r] = Idle]
\* The write of request r, noted when the check no longer allows it.
Write(r, allowed) ==
    /\ End(r)
    /\ raced' = IF allowed THEN raced ELSE raced \cup {req[r].op}
\* The database refuses the write: the row, or the one it refers to, is gone.
Refused(r) ==
    /\ End(r)
    /\ UNCHANGED <<quote, order, invoice, payment, stock, seq, raced>>

Exists(st) == st \notin {"none", "gone"}
\* Invoices that are not CANCELLED, per order: order.invoices.exclude(...).
ActiveInvoices(o, inv) ==
    {i \in Invoice : inv[i].order = o /\ Exists(inv[i].st) /\ inv[i].st # "cancelled"}
\* No issue_invoice transaction holds the row lock.
RowFree(i) == \A r \in Request : ~(req[r].op \in Issuing /\ req[r].doc = i)

-----------------------------------------------------------------------------
(* Quotations.                                                             *)

CreateQuotation(q) ==
    /\ quote[q].st = "none"
    /\ quote' = [quote EXCEPT ![q].st = "draft"]
    /\ UNCHANGED <<order, invoice, payment, stock, seq, req, raced>>

Transitions(st) ==
    CASE st = "draft" -> {"sent", "accepted", "rejected"}
      [] st = "sent" -> {"accepted", "rejected", "draft"}
      [] OTHER -> {}
StatusAllowed(q, to) ==
    /\ to \in Transitions(quote[q].st)
    /\ to \in {"sent", "accepted"} => quote[q].lines > 0
Convertible(q) == quote[q].st \in {"draft", "sent", "accepted"} /\ quote[q].lines > 0

\* The queryset loads the quotation, or the quotation and its lines.
QuoteLoad(r, q) ==
    \/ \E kind \in {"quoteLine", "quotePatch", "quoteDelete"} :
          quote[q].st = "draft" /\ Load(r, kind, q, 0, "none")
    \/ \E to \in {"sent", "accepted", "rejected", "draft"} :
          StatusAllowed(q, to) /\ Load(r, "quoteStatus", q, 0, to)
    \/ Convertible(q) /\ Load(r, "convert", q, quote[q].lines, "none")

QuoteGone(r) ==
    /\ req[r].op \in {"quoteLine", "quoteStatus", "quoteDelete", "convert"}
    /\ ~Exists(quote[req[r].doc].st)
    /\ Refused(r)

\* A line added or removed.
QuoteLineWrite(r) == LET q == req[r].doc IN
    /\ req[r].op = "quoteLine" /\ Exists(quote[q].st)
    /\ \E n \in {quote[q].lines - 1, quote[q].lines + 1} \cap (0..MaxLines) :
          quote' = [quote EXCEPT ![q].lines = n]
    /\ Write(r, quote[q].st = "draft")
    /\ UNCHANGED <<order, invoice, payment, stock, seq>>

\* PATCH saves every column of the copy it loaded: a draft.  A row deleted
\* since is inserted again, without its lines.
QuotePatchWrite(r) == LET q == req[r].doc IN
    /\ req[r].op = "quotePatch"
    /\ quote' = [quote EXCEPT ![q].st = "draft"]
    /\ Write(r, quote[q].st = "draft")
    /\ UNCHANGED <<order, invoice, payment, stock, seq>>

QuoteStatusWrite(r) == LET q == req[r].doc IN
    /\ req[r].op = "quoteStatus" /\ Exists(quote[q].st)
    /\ quote' = [quote EXCEPT ![q].st = req[r].to]
    /\ Write(r, StatusAllowed(q, req[r].to))
    /\ UNCHANGED <<order, invoice, payment, stock, seq>>

\* Orders raised from the quotation lose the reference (SET_NULL).
QuoteDeleteWrite(r) == LET q == req[r].doc IN
    /\ req[r].op = "quoteDelete" /\ Exists(quote[q].st)
    /\ quote' = [quote EXCEPT ![q] = [st |-> "gone", lines |-> 0]]
    /\ order' = [o \in Order |-> IF order[o].quote = q
                                 THEN [order[o] EXCEPT !.quote = NoQuote] ELSE order[o]]
    /\ Write(r, quote[q].st = "draft")
    /\ UNCHANGED <<invoice, payment, stock, seq>>

\* The status a conversion leaves on the quotation.
ConvertedStatus(q) == "converted"

\* quotation_to_order: the order copies the lines prefetched with the quotation.
ConvertWrite(r) == LET q == req[r].doc IN
    /\ req[r].op = "convert" /\ Exists(quote[q].st)
    /\ \E o \in Order :
          /\ order[o].st = "none"
          /\ order' = [order EXCEPT ![o] = [st |-> "open", lines |-> req[r].n, quote |-> q]]
    /\ quote' = [quote EXCEPT ![q].st = ConvertedStatus(q)]
    /\ Write(r, Convertible(q) /\ quote[q].lines = req[r].n)
    /\ UNCHANGED <<invoice, payment, stock, seq>>

-----------------------------------------------------------------------------
(* Sales orders.                                                           *)

Invoiceable(o) ==
    /\ order[o].st \in {"open", "invoiced"}
    /\ ActiveInvoices(o, invoice) = {}
    /\ order[o].lines > 0

RaiseLoad(r, o) == Invoiceable(o) /\ Load(r, "raise", o, 0, "none")

\* order_to_invoice saves the order's status from the copy it checked.
RaiseWrite(r) == LET o == req[r].doc IN
    /\ req[r].op = "raise"
    /\ \E i \in Invoice :
          /\ invoice[i].st = "none"
          /\ invoice' = [invoice EXCEPT ![i] =
                [BlankInvoice EXCEPT !.st = "draft", !.lines = order[o].lines,
                                     !.total = order[o].lines, !.order = o]]
    /\ order' = [order EXCEPT ![o].st = "invoiced"]
    /\ Write(r, Invoiceable(o))
    /\ UNCHANGED <<quote, payment, stock, seq>>

\* cancel_order, under the order's row lock.
CancelOrder(o) ==
    /\ order[o].st \in {"open", "invoiced"}
    /\ ActiveInvoices(o, invoice) = {}
    /\ order' = [order EXCEPT ![o].st = "cancelled"]
    /\ UNCHANGED <<quote, invoice, payment, stock, seq, req, raced>>

\* The order of an invoice that has just stopped being active, in `inv`.
ReopenOrderNever(o, inv) == order
ReopenOrder(o, inv) ==
    IF o # NoOrder /\ order[o].st = "invoiced" /\ ActiveInvoices(o, inv) = {}
    THEN [order EXCEPT ![o].st = "open"] ELSE order

-----------------------------------------------------------------------------
(* Draft invoices.                                                         *)

\* create_invoice: a draft with no order behind it.
CreateInvoice(i) ==
    /\ invoice[i].st = "none"
    /\ invoice' = [invoice EXCEPT ![i].st = "draft"]
    /\ UNCHANGED <<quote, order, payment, stock, seq, req, raced>>

InvoiceLoad(r, i) ==
    /\ invoice[i].st = "draft"
    /\ \E kind \in {"line", "patch", "delete"} : Load(r, kind, i, invoice[i].total, "none")

InvoiceGone(r) ==
    /\ req[r].op \in {"line", "delete"}
    /\ ~Exists(invoice[req[r].doc].st)
    /\ Refused(r)

\* InvoiceItemView: a line added or removed, then recalculate.
LineWrite(r) == LET i == req[r].doc IN
    /\ req[r].op = "line" /\ Exists(invoice[i].st) /\ RowFree(i)
    /\ \E n \in {invoice[i].lines - 1, invoice[i].lines + 1} \cap (0..MaxLines) :
          invoice' = [invoice EXCEPT ![i].lines = n, ![i].total = n]
    /\ Write(r, invoice[i].st = "draft")
    /\ UNCHANGED <<quote, order, payment, stock, seq>>

\* InvoiceDetailView.update: serializer.save() writes every column of the
\* loaded draft, and inserts the row again if it was deleted since.
PatchWrite(r) == LET i == req[r].doc IN
    /\ req[r].op = "patch" /\ RowFree(i)
    /\ invoice' = [invoice EXCEPT ![i].st = "draft", ![i].total = req[r].n,
                                  ![i].paid = 0, ![i].number = 0]
    /\ Write(r, invoice[i].st = "draft")
    /\ UNCHANGED <<quote, order, payment, stock, seq>>

\* delete_draft_invoice: its lines and payments go with it.
DeleteWrite(r) == LET i == req[r].doc IN
    /\ req[r].op = "delete" /\ Exists(invoice[i].st) /\ RowFree(i)
    /\ invoice' = [invoice EXCEPT ![i] = [BlankInvoice EXCEPT !.st = "gone",
                                                              !.order = invoice[i].order]]
    /\ order' = ReopenOrder(invoice[i].order, invoice')
    /\ payment' = [p \in Payment |-> IF payment[p].inv = i
                                     THEN [payment[p] EXCEPT !.live = FALSE] ELSE payment[p]]
    /\ Write(r, invoice[i].st = "draft")
    /\ UNCHANGED <<quote, stock, seq>>

-----------------------------------------------------------------------------
(* issue_invoice: one transaction that locks the invoice, then the number  *)
(* sequence, and commits the invoice, the sequence and the stock together. *)

\* What issue_invoice requires of the row it locked.
Issuable(i) == invoice[i].st = "draft" /\ invoice[i].lines > 0

IssueLock(r, i) ==
    /\ req[r] = Idle
    /\ Issuable(i)
    /\ RowFree(i)
    /\ req' = [req EXCEPT ![r] = [op |-> "issueLocked", doc |-> i, n |-> 0, to |-> "none"]]
    /\ UNCHANGED <<quote, order, invoice, payment, stock, seq, raced>>

\* The sequence row is not locked by another transaction.
SequenceFreeAlways == TRUE
SequenceFree == \A r \in Request : req[r].op # "issueNumbered"

\* next_number, inside the same transaction.
IssueNumber(r) ==
    /\ req[r].op = "issueLocked"
    /\ SequenceFree
    /\ seq < MaxNumber
    /\ req' = [req EXCEPT ![r].op = "issueNumbered", ![r].n = seq + 1]
    /\ UNCHANGED <<quote, order, invoice, payment, stock, seq, raced>>

NumberTaken(n) == \E i \in Invoice : invoice[i].number = n

\* recalculate, the number and the status, _move_stock(-1), commit.
IssueCommit(r) == LET i == req[r].doc IN
    /\ req[r].op = "issueNumbered"
    /\ ~NumberTaken(req[r].n)      \* number is UNIQUE
    /\ invoice' = [invoice EXCEPT ![i].st = "issued", ![i].number = req[r].n,
                                  ![i].total = invoice[i].lines]
    /\ stock' = stock - invoice[i].lines
    /\ seq' = req[r].n
    /\ End(r)
    /\ UNCHANGED <<quote, order, payment, raced>>

\* No GSTIN, a zero total, a database error or a crash: all of it rolls back.
IssueAbortKeepsNumber(r) ==
    /\ req[r].op \in Issuing
    /\ seq' = IF req[r].n > 0 THEN req[r].n ELSE seq
    /\ End(r)
    /\ UNCHANGED <<quote, order, invoice, payment, stock, raced>>
IssueAbort(r) ==
    /\ req[r].op \in Issuing
    /\ Refused(r)

-----------------------------------------------------------------------------
(* Issued invoices.                                                        *)

Cancellable(i) == invoice[i].st \in Final /\ invoice[i].paid = 0

\* The stock a cancellation returns: only if issued_at is set.
ReturnedStock(i) == IF invoice[i].number > 0 THEN invoice[i].lines ELSE 0

\* cancel_invoice, under the invoice's row lock.
CancelInvoice(i) ==
    /\ Cancellable(i)
    /\ RowFree(i)
    /\ invoice' = [invoice EXCEPT ![i].st = "cancelled"]
    /\ stock' = stock + ReturnedStock(i)
    /\ order' = ReopenOrder(invoice[i].order, invoice')
    /\ UNCHANGED <<quote, payment, seq, req, raced>>

DueUnclamped(total, paid) == total - paid
Due(total, paid) == IF paid < total THEN total - paid ELSE 0     \* max(0, total - paid)
\* The status an invoice has with `paid` of `total` received.
PaidStatus(total, paid) ==
    CASE paid <= 0 -> "issued"
      [] paid > 0 /\ Due(total, paid) > 0 -> "partially_paid"
      [] OTHER -> "paid"

\* The statuses record_payment accepts on the locked row.
TakesPaymentAlways(i) == Exists(invoice[i].st)
TakesPayment(i) == invoice[i].st \in Final

\* record_payment, under the invoice's row lock.
RecordPayment(p, i) ==
    /\ payment[p].inv = NoInvoice
    /\ TakesPayment(i)
    /\ RowFree(i)
    /\ \E amount \in 1..Due(invoice[i].total, invoice[i].paid) :
          /\ payment' = [payment EXCEPT ![p] =
                [inv |-> i, amount |-> amount, live |-> TRUE]]
          /\ invoice' = [invoice EXCEPT
                ![i].paid = invoice[i].paid + amount,
                ![i].st = PaidStatus(invoice[i].total, invoice[i].paid + amount)]
    /\ UNCHANGED <<quote, order, stock, seq, req, raced>>

ReverseLoad(r, p) == payment[p].live /\ Load(r, "reverse", p, 0, "none")

\* The statuses reverse_payment accepts on the locked row; it does not check
\* that the payment it loaded is still there.
ReversibleAlways(i) == Exists(invoice[i].st)
Reversible(i) == Exists(invoice[i].st) /\ invoice[i].st # "cancelled"

ReverseRefused(r) ==
    /\ req[r].op = "reverse"
    /\ ~Reversible(payment[req[r].doc].inv)
    /\ Refused(r)

\* reverse_payment: the balance goes back by the amount of the loaded copy.
ReverseWrite(r) ==
    LET p == req[r].doc
        i == payment[p].inv
        paid == Due(invoice[i].paid, payment[p].amount)     \* max(0, paid - amount)
    IN  /\ req[r].op = "reverse" /\ Reversible(i) /\ RowFree(i)
        /\ payment' = [payment EXCEPT ![p].live = FALSE]
        /\ invoice' = [invoice EXCEPT ![i].paid = paid,
                                      ![i].st = PaidStatus(invoice[i].total, paid)]
        /\ Write(r, payment[p].live)
        /\ UNCHANGED <<quote, order, stock, seq>>

-----------------------------------------------------------------------------
Next ==
    \/ \E q \in Quote : CreateQuotation(q)
    \/ \E o \in Order : CancelOrder(o)
    \/ \E i \in Invoice : CreateInvoice(i) \/ CancelInvoice(i)
    \/ \E p \in Payment, i \in Invoice : RecordPayment(p, i)
    \/ \E r \in Request :
          \/ \E q \in Quote : QuoteLoad(r, q)
          \/ \E o \in Order : RaiseLoad(r, o)
          \/ \E i \in Invoice : InvoiceLoad(r, i) \/ IssueLock(r, i)
          \/ \E p \in Payment : ReverseLoad(r, p)
          \/ QuoteLineWrite(r) \/ QuotePatchWrite(r) \/ QuoteStatusWrite(r)
          \/ QuoteDeleteWrite(r) \/ ConvertWrite(r) \/ QuoteGone(r)
          \/ RaiseWrite(r)
          \/ LineWrite(r) \/ PatchWrite(r) \/ DeleteWrite(r) \/ InvoiceGone(r)
          \/ IssueNumber(r) \/ IssueCommit(r) \/ IssueAbort(r)
          \/ ReverseWrite(r) \/ ReverseRefused(r)

Spec == Init /\ [][Next]_vars

-----------------------------------------------------------------------------
(* Properties.  "Unless K raced" means: as long as no request of a kind in *)
(* K wrote although its check would by then have refused it.               *)

Raced(kinds) == raced \cap kinds # {}
Numbers == {invoice[i].number : i \in Invoice} \ {0}

\* GST numbers run without gaps (draft_number, next_number): the numbers on
\* the invoices are exactly 1..last_number, whatever issue transactions run,
\* wait or roll back -- unless a draft deletion or a header edit raced an issue.
GaplessNumbers == Raced({"patch", "delete"}) \/ Numbers = 1..seq

\* An issue in progress holds a number nobody else has or will get: the
\* sequence lock makes the UNIQUE constraint on the number unreachable, even
\* when drafts are deleted or overwritten meanwhile.
NoNumberClash ==
    \A r \in Request : req[r].op = "issueNumbered" =>
        /\ ~NumberTaken(req[r].n)
        /\ \A s \in Request \ {r} : req[s].n = req[r].n => req[s].op # "issueNumbered"

Receipt(p, i) == IF payment[p].live /\ payment[p].inv = i THEN payment[p].amount ELSE 0
Received(i) == SumFunction([p \in Payment |-> Receipt(p, i)])

\* The balance agrees with the receipts (record_payment, reverse_payment,
\* cancel_invoice): amount_paid is the sum of the payments on file and never
\* exceeds the total of the lines, the status says how much of it is paid, and
\* a draft, cancelled or deleted invoice has none -- unless a line or header
\* edit raced an issue, or two requests reversed the same payment.
LedgerAgrees ==
    Raced({"line", "patch", "reverse"}) \/
    \A i \in Invoice :
        LET inv == invoice[i] IN
        /\ inv.paid = Received(i)
        /\ inv.st \in Final => inv.total = inv.lines /\ inv.paid <= inv.total
        /\ inv.st \in Final => inv.st = PaidStatus(inv.total, inv.paid)
        /\ inv.st \notin Final => inv.paid = 0

TakenOut(i) == IF invoice[i].st \in Final THEN invoice[i].lines ELSE 0

\* Stock is what the issued, uncancelled invoices took out (_move_stock),
\* unless a line edit, header edit or deletion raced an issue.
StockBalances ==
    Raced({"line", "patch", "delete"}) \/
    stock = - SumFunction([i \in Invoice |-> TakenOut(i)])

\* The books: receipts and stock agree with the invoices (both of the above).
BooksAgree == LedgerAgrees /\ StockBalances

\* An order is INVOICED exactly when it has an active invoice, and it has at
\* most one (order_to_invoice, cancel_invoice, delete_draft_invoice,
\* cancel_order) -- unless two invoices were raised at once, an invoice was
\* raised while the order was cancelled, or a header edit raced.
OrderFollowsInvoices ==
    Raced({"raise", "patch"}) \/
    \A o \in Order :
        /\ order[o].st = "invoiced" <=> ActiveInvoices(o, invoice) # {}
        /\ Cardinality(ActiveInvoices(o, invoice)) <= 1

\* A converted quotation has one order, which carries the lines it shows
\* (quotation_to_order) -- unless a conversion, a status change, a line or a
\* header edit of the quotation raced.  A racing deletion is harmless.
OneOrderPerQuotation ==
    Raced({"convert", "quoteLine", "quotePatch", "quoteStatus"}) \/
    \A q \in Quote :
        LET orders == {o \in Order : order[o].quote = q} IN
        /\ quote[q].st = "converted" <=> orders # {}
        /\ Cardinality(orders) <= 1
        /\ \A o \in orders : order[o].lines = quote[q].lines

\* Each document agrees with the one it was made from (both of the above).
ChainAgrees == OrderFollowsInvoices /\ OneOrderPerQuotation

\* "After this the invoice is a legal document: no edits, no renumbering, no
\* deletion -- only cancellation" (issue_invoice): an issued invoice keeps its
\* number, lines and total and is never a draft again, and a cancelled one
\* never changes -- unless an edit or a deletion of the draft raced the issue.
IssuedIsLegal ==
    [][\/ Raced({"line", "patch", "delete"})'
       \/ \A i \in Invoice : invoice[i].st \in Final \cup {"cancelled"} =>
            /\ invoice'[i].st \in Final \cup {"cancelled"}
            /\ invoice'[i].number = invoice[i].number
            /\ invoice'[i].lines = invoice[i].lines
            /\ invoice'[i].total = invoice[i].total
            /\ invoice[i].st = "cancelled" => invoice'[i] = invoice[i]]_vars

\* No renumbering, whatever races: a number once issued stays on its invoice.
NumberIsKept ==
    [][\A i \in Invoice : invoice[i].number > 0 => invoice'[i].number = invoice[i].number]_vars
=============================================================================
