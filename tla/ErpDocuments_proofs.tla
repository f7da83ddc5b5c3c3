------------------------- MODULE ErpDocuments_proofs -------------------------
(***************************************************************************)
(* Safety of ErpDocuments for any number of quotations, orders, invoices,  *)
(* payments and concurrent requests.                                       *)
(***************************************************************************)
EXTENDS ErpDocuments, Gst, Sums, FiniteSetTheorems, TLAPS

USE ErpAssumption

-----------------------------------------------------------------------------
(* Type correctness: TypeOK is inductive together with the kind of row a   *)
(* request in progress has loaded.                                         *)

QuoteKinds == {"quoteLine", "quotePatch", "quoteStatus", "quoteDelete", "convert"}
InvoiceKinds == {"line", "patch", "delete"} \cup Issuing

RequestsOK ==
    \A r \in Request :
        /\ req[r].op \in QuoteKinds => req[r].doc \in Quote
        /\ req[r].op = "raise" => req[r].doc \in Order
        /\ req[r].op \in InvoiceKinds => req[r].doc \in Invoice
        /\ req[r].op = "reverse" => /\ req[r].doc \in Payment
                                    /\ payment[req[r].doc].inv \in Invoice

PaymentsOK == \A p \in Payment : payment[p].live => payment[p].inv \in Invoice

TypeInv == TypeOK /\ RequestsOK /\ PaymentsOK

\* Amounts: the balance left and the status it gives are well typed.
LEMMA DueType == \A total, paid \in Nat : Due(total, paid) \in Nat /\ Due(total, paid) <= total
BY DEF Due

LEMMA PaidStatusType == \A total, paid : PaidStatus(total, paid) \in Final
BY DEF PaidStatus, Final

\* Reopening an order keeps the type of the orders.
LEMMA Reopened ==
    ASSUME order \in [Order -> OrderRec], NEW o, NEW inv
    PROVE  ReopenOrder(o, inv) \in [Order -> OrderRec]
BY DEF ReopenOrder, OrderRec, OrderStatus

\* A request that wrote is over.
LEMMA Written ==
    ASSUME req \in [Request -> RequestRec], raced \subseteq Kinds, NEW r \in Request,
           req[r].op \in Kinds, NEW b, Write(r, b)
    PROVE  /\ req' = [req EXCEPT ![r] = Idle]
           /\ req' \in [Request -> RequestRec]
           /\ raced' \subseteq Kinds
BY DEF Write, End, Idle, RequestRec, QuoteStatus

\* Every step keeps the types.
LEMMA TypeStep ==
    ASSUME TypeInv, Next
    PROVE  TypeInv'
<1> USE DEF TypeInv, TypeOK, RequestsOK, PaymentsOK, QuoteKinds, InvoiceKinds, Issuing, Kinds,
            Idle, BlankInvoice, QuoteStatus, OrderStatus, InvoiceStatus, Final, End, Write, Refused
<1>1. ASSUME NEW q \in Quote, CreateQuotation(q) PROVE TypeInv'
  BY <1>1 DEF CreateQuotation, QuoteRec
<1>2. ASSUME NEW o \in Order, CancelOrder(o) PROVE TypeInv'
  BY <1>2 DEF CancelOrder, OrderRec
<1>3. ASSUME NEW i \in Invoice, CreateInvoice(i) PROVE TypeInv'
  <2>1. invoice' \in [Invoice -> InvoiceRec]
    BY <1>3 DEF CreateInvoice, InvoiceRec
  <2>2. QED
    BY <1>3, <2>1 DEF CreateInvoice
<1>4. ASSUME NEW i \in Invoice, CancelInvoice(i) PROVE TypeInv'
  <2>1. invoice' \in [Invoice -> InvoiceRec]
    BY <1>4 DEF CancelInvoice, InvoiceRec
  <2>2. order' \in [Order -> OrderRec]
    BY <1>4, Reopened DEF CancelInvoice
  <2>3. ReturnedStock(i) \in Int
    BY DEF ReturnedStock, InvoiceRec
  <2>4. stock' \in Int
    BY <1>4, <2>3 DEF CancelInvoice
  <2>5. UNCHANGED <<quote, payment, seq, req, raced>>
    BY <1>4 DEF CancelInvoice
  <2>6. QED
    BY <2>1, <2>2, <2>4, <2>5
<1>5. ASSUME NEW p \in Payment, NEW i \in Invoice, RecordPayment(p, i) PROVE TypeInv'
  <2>1. PICK amount \in 1..Due(invoice[i].total, invoice[i].paid) :
            /\ payment' = [payment EXCEPT ![p] = [inv |-> i, amount |-> amount, live |-> TRUE]]
            /\ invoice' = [invoice EXCEPT
                  ![i].paid = invoice[i].paid + amount,
                  ![i].st = PaidStatus(invoice[i].total, invoice[i].paid + amount)]
    BY <1>5 DEF RecordPayment
  <2>2. amount \in Nat
    BY DueType DEF InvoiceRec
  <2>3. invoice' \in [Invoice -> InvoiceRec]
    <3> DEFINE paid == invoice[i].paid + amount
               st == PaidStatus(invoice[i].total, paid)
    <3>1. st \in InvoiceStatus
      BY PaidStatusType
    <3>2. paid \in Nat /\ invoice[i] \in InvoiceRec
      BY <2>2 DEF InvoiceRec
    <3>3. invoice' = [invoice EXCEPT ![i] =
                        [invoice[i] EXCEPT !.paid = paid, !.st = st]]
      BY <2>1
    <3> HIDE DEF st, paid
    <3>4. [invoice[i] EXCEPT !.paid = paid, !.st = st] \in InvoiceRec
      BY <3>1, <3>2 DEF InvoiceRec
    <3>5. QED
      BY <3>3, <3>4
  <2>4. payment' \in [Payment -> PaymentRec]
    BY <2>1, <2>2 DEF PaymentRec
  <2>5. RequestsOK' /\ PaymentsOK'
    <3>1. \A s \in Payment : payment[s].inv \in Invoice => payment'[s].inv \in Invoice
      BY <2>1 DEF PaymentRec
    <3>2. PaymentsOK'
      BY <2>1 DEF PaymentRec
    <3>3. req' = req
      BY <1>5 DEF RecordPayment
    <3>4. QED
      BY <3>1, <3>2, <3>3
  <2>6. QED
    BY <1>5, <2>3, <2>4, <2>5 DEF RecordPayment
<1>6. ASSUME NEW r \in Request, NEW q \in Quote, QuoteLoad(r, q) PROVE TypeInv'
  <2>1. quote[q].lines \in Nat
    BY DEF QuoteRec
  <2>2. PICK kind \in QuoteKinds, n \in Nat, to \in QuoteStatus : Load(r, kind, q, n, to)
    BY <1>6, <2>1 DEF QuoteLoad
  <2>3. [op |-> kind, doc |-> q, n |-> n, to |-> to] \in RequestRec
    BY <2>2 DEF RequestRec
  <2>4. QED
    BY <2>2, <2>3 DEF Load
<1>7. ASSUME NEW r \in Request, NEW o \in Order, RaiseLoad(r, o) PROVE TypeInv'
  BY <1>7 DEF RaiseLoad, Load, RequestRec
<1>8. ASSUME NEW r \in Request, NEW i \in Invoice, InvoiceLoad(r, i) PROVE TypeInv'
  BY <1>8 DEF InvoiceLoad, Load, RequestRec, InvoiceRec
<1>9. ASSUME NEW r \in Request, NEW i \in Invoice, IssueLock(r, i) PROVE TypeInv'
  BY <1>9 DEF IssueLock, RequestRec
<1>10. ASSUME NEW r \in Request, NEW p \in Payment, ReverseLoad(r, p) PROVE TypeInv'
  BY <1>10 DEF ReverseLoad, Load, RequestRec
<1>11. ASSUME NEW r \in Request, QuoteLineWrite(r) PROVE TypeInv'
  BY <1>11 DEF QuoteLineWrite, QuoteRec, RequestRec
<1>12. ASSUME NEW r \in Request, QuotePatchWrite(r) PROVE TypeInv'
  BY <1>12 DEF QuotePatchWrite, QuoteRec, RequestRec
<1>13. ASSUME NEW r \in Request, QuoteStatusWrite(r) PROVE TypeInv'
  <2>1. req[r].doc \in Quote /\ req[r].to \in QuoteStatus
    BY <1>13 DEF QuoteStatusWrite, RequestRec
  <2>2. quote' \in [Quote -> QuoteRec]
    BY <1>13, <2>1 DEF QuoteStatusWrite, QuoteRec
  <2>3. QED
    BY <1>13, <2>2, Written DEF QuoteStatusWrite
<1>14. ASSUME NEW r \in Request, QuoteDeleteWrite(r) PROVE TypeInv'
  BY <1>14 DEF QuoteDeleteWrite, QuoteRec, RequestRec, OrderRec
<1>15. ASSUME NEW r \in Request, ConvertWrite(r) PROVE TypeInv'
  <2>1. req[r].doc \in Quote /\ req[r].n \in Nat
    BY <1>15 DEF ConvertWrite, RequestRec
  <2>2. quote' \in [Quote -> QuoteRec]
    BY <1>15, <2>1 DEF ConvertWrite, ConvertedStatus, QuoteRec
  <2>3. order' \in [Order -> OrderRec]
    BY <1>15, <2>1 DEF ConvertWrite, OrderRec
  <2>4. QED
    BY <1>15, <2>2, <2>3, Written DEF ConvertWrite
<1>16. ASSUME NEW r \in Request, QuoteGone(r) PROVE TypeInv'
  BY <1>16 DEF QuoteGone, QuoteRec, RequestRec
<1>17. ASSUME NEW r \in Request, RaiseWrite(r) PROVE TypeInv'
  <2>1. req[r].doc \in Order /\ order[req[r].doc].lines \in Nat
    BY <1>17 DEF RaiseWrite, OrderRec
  <2>2. order' \in [Order -> OrderRec]
    BY <1>17, <2>1 DEF RaiseWrite, OrderRec
  <2>3. [BlankInvoice EXCEPT !.st = "draft", !.lines = order[req[r].doc].lines,
            !.total = order[req[r].doc].lines, !.order = req[r].doc] \in InvoiceRec
    BY <2>1 DEF InvoiceRec
  <2>4. invoice' \in [Invoice -> InvoiceRec]
    BY <1>17, <2>3 DEF RaiseWrite
  <2>5. QED
    BY <1>17, <2>2, <2>4, Written DEF RaiseWrite
<1>18. ASSUME NEW r \in Request, LineWrite(r) PROVE TypeInv'
  <2>1. req[r].doc \in Invoice
    BY <1>18 DEF LineWrite
  <2>2. invoice' \in [Invoice -> InvoiceRec]
    BY <1>18, <2>1 DEF LineWrite, InvoiceRec
  <2>3. QED
    BY <1>18, <2>2, Written DEF LineWrite
<1>19. ASSUME NEW r \in Request, PatchWrite(r) PROVE TypeInv'
  <2>1. req[r].doc \in Invoice /\ req[r].n \in Nat
    BY <1>19 DEF PatchWrite, RequestRec
  <2>2. invoice' \in [Invoice -> InvoiceRec]
    BY <1>19, <2>1 DEF PatchWrite, InvoiceRec
  <2>3. QED
    BY <1>19, <2>2, Written DEF PatchWrite
<1>20. ASSUME NEW r \in Request, DeleteWrite(r) PROVE TypeInv'
  <2>1. req[r].doc \in Invoice
    BY <1>20 DEF DeleteWrite
  <2>2. [BlankInvoice EXCEPT !.st = "gone", !.order = invoice[req[r].doc].order] \in InvoiceRec
    BY <2>1 DEF InvoiceRec
  <2>3. invoice' \in [Invoice -> InvoiceRec]
    BY <1>20, <2>1, <2>2 DEF DeleteWrite
  <2>4. order' \in [Order -> OrderRec]
    BY <1>20, Reopened DEF DeleteWrite
  <2>5. payment' \in [Payment -> PaymentRec]
    <3>1. \A p \in Payment : [payment[p] EXCEPT !.live = FALSE] \in PaymentRec
      BY DEF PaymentRec
    <3>2. QED
      BY <1>20, <3>1 DEF DeleteWrite
  <2>6. \A p \in Payment : /\ payment'[p].inv = payment[p].inv
                           /\ payment'[p].live => payment[p].live
    BY <1>20 DEF DeleteWrite, PaymentRec
  <2>7. /\ \A s \in Request : req'[s] = IF s = r THEN Idle ELSE req[s]
        /\ req' \in [Request -> RequestRec]
        /\ raced' \subseteq Kinds
    BY <1>20, Written DEF DeleteWrite, RequestRec
  <2>8. RequestsOK' /\ PaymentsOK'
    BY <2>6, <2>7
  <2>9. QED
    BY <1>20, <2>3, <2>4, <2>5, <2>7, <2>8 DEF DeleteWrite
<1>21. ASSUME NEW r \in Request, InvoiceGone(r) PROVE TypeInv'
  BY <1>21 DEF InvoiceGone, RequestRec
<1>22. ASSUME NEW r \in Request, IssueNumber(r) PROVE TypeInv'
  <2>1. req' \in [Request -> RequestRec]
    <3>1. [req[r] EXCEPT !.op = "issueNumbered", !.n = seq + 1] \in RequestRec
      <4>1. req[r] \in RequestRec /\ seq + 1 \in Nat
        OBVIOUS
      <4>2. QED
        BY <4>1, Zenon DEF RequestRec
    <3>2. req' = [req EXCEPT ![r] = [req[r] EXCEPT !.op = "issueNumbered", !.n = seq + 1]]
      BY <1>22 DEF IssueNumber
    <3>3. QED
      BY <3>1, <3>2
  <2>2. RequestsOK'
    BY <1>22 DEF IssueNumber, RequestRec
  <2>3. QED
    BY <1>22, <2>1, <2>2 DEF IssueNumber
<1>23. ASSUME NEW r \in Request, IssueCommit(r) PROVE TypeInv'
  <2>1. req[r].doc \in Invoice /\ req[r].n \in Nat /\ invoice[req[r].doc].lines \in Nat
    BY <1>23 DEF IssueCommit, RequestRec, InvoiceRec
  <2>2. invoice' \in [Invoice -> InvoiceRec]
    BY <1>23, <2>1 DEF IssueCommit, InvoiceRec
  <2>3. stock' \in Int /\ seq' \in Nat
    BY <1>23, <2>1 DEF IssueCommit
  <2>4. UNCHANGED <<quote, order, payment, raced>> /\ req' = [req EXCEPT ![r] = Idle]
    BY <1>23 DEF IssueCommit
  <2>5. req' \in [Request -> RequestRec]
    BY <2>4 DEF RequestRec
  <2>6. RequestsOK' /\ PaymentsOK'
    BY <2>4
  <2>7. QED
    BY <2>2, <2>3, <2>4, <2>5, <2>6
<1>24. ASSUME NEW r \in Request, IssueAbort(r) PROVE TypeInv'
  BY <1>24 DEF IssueAbort, RequestRec
<1>25. ASSUME NEW r \in Request, ReverseWrite(r) PROVE TypeInv'
  <2> DEFINE p == req[r].doc
              i == payment[p].inv
              paid == Due(invoice[i].paid, payment[p].amount)
  <2>1. p \in Payment /\ i \in Invoice
    BY <1>25 DEF ReverseWrite
  <2>2. paid \in Nat /\ PaidStatus(invoice[i].total, paid) \in InvoiceStatus
    BY <2>1, DueType, PaidStatusType DEF InvoiceRec, PaymentRec
  <2>3. invoice' = [invoice EXCEPT ![i].paid = paid,
                                   ![i].st = PaidStatus(invoice[i].total, paid)]
    BY <1>25 DEF ReverseWrite
  <2>4. invoice' \in [Invoice -> InvoiceRec]
    <3> DEFINE st == PaidStatus(invoice[i].total, paid)
    <3>1. invoice' = [invoice EXCEPT ![i] = [invoice[i] EXCEPT !.paid = paid, !.st = st]]
      BY <2>3
    <3>2. invoice[i] \in InvoiceRec
      BY <2>1
    <3> HIDE DEF st, paid, i
    <3>3. [invoice[i] EXCEPT !.paid = paid, !.st = st] \in InvoiceRec
      BY <2>2, <3>2 DEF InvoiceRec, st
    <3>4. QED
      BY <3>1, <3>3
  <2>5. payment' = [payment EXCEPT ![p].live = FALSE]
    BY <1>25 DEF ReverseWrite
  <2>6. payment' \in [Payment -> PaymentRec]
    <3>1. [payment[p] EXCEPT !.live = FALSE] \in PaymentRec
      BY <2>1 DEF PaymentRec
    <3>2. QED
      BY <2>5, <3>1
  <2>7. \A s \in Payment : /\ payment'[s].inv = payment[s].inv
                           /\ payment'[s].live => payment[s].live
    BY <2>5 DEF PaymentRec
  <2>8. /\ \A s \in Request : req'[s] = IF s = r THEN Idle ELSE req[s]
        /\ req' \in [Request -> RequestRec]
        /\ raced' \subseteq Kinds
    BY <1>25, Written DEF ReverseWrite, RequestRec
  <2>9. RequestsOK' /\ PaymentsOK'
    BY <2>7, <2>8
  <2>10. QED
    BY <1>25, <2>4, <2>6, <2>8, <2>9 DEF ReverseWrite
<1>26. ASSUME NEW r \in Request, ReverseRefused(r) PROVE TypeInv'
  BY <1>26 DEF ReverseRefused, RequestRec
<1>27. QED
  BY <1>1, <1>2, <1>3, <1>4, <1>5, <1>6, <1>7, <1>8, <1>9, <1>10, <1>11, <1>12, <1>13, <1>14, <1>15, <1>16, <1>17, <1>18, <1>19, <1>20, <1>21, <1>22, <1>23, <1>24, <1>25, <1>26 DEF Next

\* The initial state is well typed.
LEMMA TypeInit == Init => TypeInv
BY DEF Init, TypeInv, TypeOK, RequestsOK, PaymentsOK, QuoteKinds, InvoiceKinds, Issuing, Kinds,
       Idle, BlankInvoice, QuoteStatus, OrderStatus, InvoiceStatus, QuoteRec, OrderRec,
       InvoiceRec, PaymentRec, RequestRec

\* Every document, payment, counter and request in progress keeps the shape the
\* models declare; amounts and numbers never become negative.
THEOREM TypeCorrect == Spec => []TypeOK
<1>1. Init => TypeInv
  BY TypeInit
<1>2. TypeInv /\ [Next]_vars => TypeInv'
  <2>1. CASE Next
    BY <2>1, TypeStep
  <2>2. CASE UNCHANGED vars
    BY <2>2 DEF vars, TypeInv, TypeOK, RequestsOK, PaymentsOK
  <2>3. QED
    BY <2>1, <2>2
<1>3. TypeInv => TypeOK
  BY DEF TypeInv
<1>4. QED
  BY <1>1, <1>2, <1>3, PTL DEF Spec

-----------------------------------------------------------------------------
(* The GST number sequence.  The invariant behind GaplessNumbers and       *)
(* NoNumberClash: at most one issue holds the sequence and it holds the    *)
(* next number; an issue in progress has its draft to itself; a row that   *)
(* is not an issued or cancelled invoice has no number.                    *)

Unnumbered == {"none", "draft", "gone"}

IssueInv ==
    /\ \A r \in Request : req[r].op = "issueNumbered" => req[r].n = seq + 1
    /\ \A r, s \in Request :
          req[r].op = "issueNumbered" /\ req[s].op = "issueNumbered" => r = s
    /\ \A r \in Request : req[r].op \in Issuing => invoice[req[r].doc].st = "draft"
    /\ \A r, s \in Request :
          req[r].op \in Issuing /\ req[s].op \in Issuing /\ req[r].doc = req[s].doc => r = s

NumberInv ==
    /\ \A i \in Invoice : invoice[i].number <= seq
    /\ \A i \in Invoice : invoice[i].st \in Unnumbered => invoice[i].number = 0
    /\ GaplessNumbers

DocumentInv == TypeInv /\ IssueInv /\ NumberInv

\* A step that neither hands out a number nor starts an issue keeps the
\* invariant, if it leaves the drafts being issued alone and takes a number
\* away only in a race.
LEMMA NumbersKept ==
    ASSUME DocumentInv, TypeInv', seq' = seq, raced \subseteq raced',
           \A s \in Request : req'[s].op \in Issuing => req'[s] = req[s],
           \A s \in Request : req[s].op \in Issuing => invoice'[req[s].doc].st = "draft",
           \A i \in Invoice : \/ invoice'[i].number = invoice[i].number
                              \/ /\ invoice'[i].number = 0
                                 /\ raced' \cap {"patch", "delete"} # {},
           \A i \in Invoice : invoice'[i].st \in Unnumbered => invoice'[i].number = 0
    PROVE  DocumentInv'
<1>1. IssueInv'
  BY DEF DocumentInv, IssueInv, Issuing
<1>2. \A i \in Invoice : invoice'[i].number <= seq'
  BY DEF DocumentInv, NumberInv, TypeInv, TypeOK, InvoiceRec
<1>3. GaplessNumbers'
  <2>1. CASE raced' \cap {"patch", "delete"} # {}
    BY <2>1 DEF GaplessNumbers, Raced
  <2>2. CASE raced' \cap {"patch", "delete"} = {}
    <3>1. \A i \in Invoice : invoice'[i].number = invoice[i].number
      BY <2>2
    <3>2. Numbers' = Numbers
      BY <3>1 DEF Numbers
    <3>3. raced \cap {"patch", "delete"} = {}
      BY <2>2
    <3>4. QED
      BY <3>2, <3>3 DEF DocumentInv, NumberInv, GaplessNumbers, Raced
  <2>3. QED
    BY <2>1, <2>2
<1>4. QED
  BY <1>1, <1>2, <1>3 DEF DocumentInv, NumberInv

\* Steps that change no invoice, no number and no issue in progress.
LEMMA NumbersUntouched ==
    ASSUME DocumentInv, TypeInv', seq' = seq, invoice' = invoice, raced \subseteq raced',
           \A s \in Request : req'[s].op \in Issuing => req'[s] = req[s]
    PROVE  DocumentInv'
<1>1. /\ \A s \in Request : req[s].op \in Issuing => invoice'[req[s].doc].st = "draft"
      /\ \A i \in Invoice : invoice'[i].st \in Unnumbered => invoice'[i].number = 0
  BY DEF DocumentInv, IssueInv, NumberInv
<1>2. QED
  BY <1>1, NumbersKept

\* A request that writes or ends leaves the issues in progress alone.
LEMMA OthersKept ==
    ASSUME TypeInv, NEW r \in Request, End(r)
    PROVE  \A s \in Request : req'[s].op \in Issuing => req'[s] = req[s]
BY DEF TypeInv, TypeOK, End, Idle, Issuing

LEMMA LoadKept ==
    ASSUME TypeInv, NEW r \in Request, NEW kind \in Kinds, NEW doc, NEW n, NEW to,
           Load(r, kind, doc, n, to)
    PROVE  /\ \A s \in Request : req'[s].op \in Issuing => req'[s] = req[s]
           /\ seq' = seq /\ invoice' = invoice /\ raced' = raced
BY DEF TypeInv, TypeOK, Load, Kinds, Issuing

\* One more number extends the interval.
LEMMA NextInterval == \A n \in Nat : 1..(n + 1) = (1..n) \cup {n + 1}
OBVIOUS

\* Every step keeps the invariant.
LEMMA DocumentStep ==
    ASSUME DocumentInv, Next
    PROVE  DocumentInv'
<1>0. TypeInv'
  BY TypeStep DEF DocumentInv
<1> USE <1>0 DEF DocumentInv, TypeInv, TypeOK, RequestsOK, PaymentsOK
<1>1. ASSUME NEW q \in Quote, CreateQuotation(q) PROVE DocumentInv'
  BY <1>1, NumbersUntouched DEF CreateQuotation
<1>2. ASSUME NEW o \in Order, CancelOrder(o) PROVE DocumentInv'
  BY <1>2, NumbersUntouched DEF CancelOrder
<1>3. ASSUME NEW i \in Invoice, CreateInvoice(i) PROVE DocumentInv'
  <2>1. /\ \A s \in Request : req[s].op \in Issuing => req[s].doc # i
        /\ invoice[i].number = 0
    BY <1>3 DEF CreateInvoice, IssueInv, NumberInv, Unnumbered
  <2>2. \A j \in Invoice : /\ invoice'[j].number = invoice[j].number
                           /\ j # i => invoice'[j] = invoice[j]
    BY <1>3 DEF CreateInvoice, InvoiceRec
  <2>3. QED
    BY <1>3, <2>1, <2>2, NumbersKept DEF CreateInvoice, IssueInv, NumberInv, InvoiceKinds
<1>4. ASSUME NEW i \in Invoice, CancelInvoice(i) PROVE DocumentInv'
  <2>1. \A s \in Request : req[s].op \in Issuing => req[s].doc # i
    BY <1>4 DEF CancelInvoice, RowFree
  <2>2. \A j \in Invoice : /\ invoice'[j].number = invoice[j].number
                           /\ j # i => invoice'[j] = invoice[j]
    BY <1>4 DEF CancelInvoice, InvoiceRec
  <2>3. invoice'[i].st \notin Unnumbered
    BY <1>4 DEF CancelInvoice, InvoiceRec, Unnumbered
  <2>4. QED
    BY <1>4, <2>1, <2>2, <2>3, NumbersKept DEF CancelInvoice, IssueInv, NumberInv, InvoiceKinds
<1>5. ASSUME NEW p \in Payment, NEW i \in Invoice, RecordPayment(p, i) PROVE DocumentInv'
  <2>1. \A s \in Request : req[s].op \in Issuing => req[s].doc # i
    BY <1>5 DEF RecordPayment, RowFree
  <2>2. \A j \in Invoice : /\ invoice'[j].number = invoice[j].number
                           /\ j # i => invoice'[j] = invoice[j]
    BY <1>5 DEF RecordPayment, InvoiceRec
  <2>3. invoice'[i].st \notin Unnumbered
    BY <1>5, PaidStatusType DEF RecordPayment, InvoiceRec, Unnumbered, Final
  <2>4. QED
    BY <1>5, <2>1, <2>2, <2>3, NumbersKept DEF RecordPayment, IssueInv, NumberInv, InvoiceKinds
<1>6. ASSUME NEW r \in Request, NEW q \in Quote, QuoteLoad(r, q) PROVE DocumentInv'
  BY <1>6, LoadKept, NumbersUntouched DEF QuoteLoad, Kinds
<1>7. ASSUME NEW r \in Request, NEW o \in Order, RaiseLoad(r, o) PROVE DocumentInv'
  BY <1>7, LoadKept, NumbersUntouched DEF RaiseLoad, Kinds
<1>8. ASSUME NEW r \in Request, NEW i \in Invoice, InvoiceLoad(r, i) PROVE DocumentInv'
  BY <1>8, LoadKept, NumbersUntouched DEF InvoiceLoad, Kinds
<1>9. ASSUME NEW r \in Request, NEW i \in Invoice, IssueLock(r, i) PROVE DocumentInv'
  <2>1. /\ \A s \in Request \ {r} : req'[s] = req[s]
        /\ req'[r].op = "issueLocked" /\ req'[r].doc = i
        /\ invoice' = invoice /\ seq' = seq /\ raced' = raced
        /\ invoice[i].st = "draft"
    BY <1>9 DEF IssueLock, Issuable
  <2>2. \A s \in Request : req[s].op \in Issuing => req[s].doc # i
    BY <1>9 DEF IssueLock, RowFree
  <2>3. IssueInv'
    BY <2>1, <2>2 DEF IssueInv
  <2>4. NumberInv'
    BY <2>1 DEF NumberInv, GaplessNumbers, Numbers, Raced
  <2>5. QED
    BY <2>3, <2>4
<1>10. ASSUME NEW r \in Request, NEW p \in Payment, ReverseLoad(r, p) PROVE DocumentInv'
  BY <1>10, LoadKept, NumbersUntouched DEF ReverseLoad, Kinds
<1>11. ASSUME NEW r \in Request, QuoteLineWrite(r) PROVE DocumentInv'
  BY <1>11, OthersKept, NumbersUntouched DEF QuoteLineWrite, Write
<1>12. ASSUME NEW r \in Request, QuotePatchWrite(r) PROVE DocumentInv'
  BY <1>12, OthersKept, NumbersUntouched DEF QuotePatchWrite, Write
<1>13. ASSUME NEW r \in Request, QuoteStatusWrite(r) PROVE DocumentInv'
  BY <1>13, OthersKept, NumbersUntouched DEF QuoteStatusWrite, Write
<1>14. ASSUME NEW r \in Request, QuoteDeleteWrite(r) PROVE DocumentInv'
  BY <1>14, OthersKept, NumbersUntouched DEF QuoteDeleteWrite, Write
<1>15. ASSUME NEW r \in Request, ConvertWrite(r) PROVE DocumentInv'
  BY <1>15, OthersKept, NumbersUntouched DEF ConvertWrite, Write
<1>16. ASSUME NEW r \in Request, QuoteGone(r) PROVE DocumentInv'
  BY <1>16, OthersKept, NumbersUntouched DEF QuoteGone, Refused
<1>17. ASSUME NEW r \in Request, RaiseWrite(r) PROVE DocumentInv'
  <2>1. PICK i \in Invoice : /\ invoice[i].st = "none"
                             /\ invoice'[i].st = "draft" /\ invoice'[i].number = 0
                             /\ \A j \in Invoice \ {i} : invoice'[j] = invoice[j]
    BY <1>17 DEF RaiseWrite, BlankInvoice
  <2>2. /\ \A s \in Request : req[s].op \in Issuing => req[s].doc # i
        /\ invoice[i].number = 0
    BY <2>1 DEF IssueInv, NumberInv, Unnumbered
  <2>3. seq' = seq /\ raced \subseteq raced' /\ End(r)
    BY <1>17 DEF RaiseWrite, Write
  <2>4. QED
    BY <2>1, <2>2, <2>3, OthersKept, NumbersKept DEF IssueInv, NumberInv, InvoiceKinds
<1>18. ASSUME NEW r \in Request, LineWrite(r) PROVE DocumentInv'
  <2> DEFINE i == req[r].doc
  <2>1. /\ i \in Invoice
        /\ \A s \in Request : req[s].op \in Issuing => req[s].doc # i
    BY <1>18 DEF LineWrite, RowFree, InvoiceKinds
  <2>2. \A j \in Invoice : /\ invoice'[j].number = invoice[j].number
                           /\ invoice'[j].st = invoice[j].st
    BY <1>18, <2>1 DEF LineWrite, InvoiceRec
  <2>3. seq' = seq /\ raced \subseteq raced' /\ End(r)
    BY <1>18 DEF LineWrite, Write
  <2>4. QED
    BY <2>2, <2>3, OthersKept, NumbersKept DEF IssueInv, NumberInv, InvoiceKinds
<1>19. ASSUME NEW r \in Request, PatchWrite(r) PROVE DocumentInv'
  <2> DEFINE i == req[r].doc
  <2>1. /\ i \in Invoice
        /\ \A s \in Request : req[s].op \in Issuing => req[s].doc # i
    BY <1>19 DEF PatchWrite, RowFree, InvoiceKinds
  <2>2. /\ invoice'[i].number = 0
        /\ \A j \in Invoice \ {i} : invoice'[j] = invoice[j]
    BY <1>19, <2>1 DEF PatchWrite, InvoiceRec, BlankInvoice
  <2>3. seq' = seq /\ raced \subseteq raced' /\ End(r)
    BY <1>19 DEF PatchWrite, Write
  <2>4. invoice[i].number = 0 \/ raced' \cap {"patch", "delete"} # {}
    BY <1>19, <2>1 DEF PatchWrite, Write, NumberInv, Unnumbered
  <2>5. QED
    BY <2>1, <2>2, <2>3, <2>4, OthersKept, NumbersKept DEF IssueInv, NumberInv, InvoiceKinds
<1>20. ASSUME NEW r \in Request, DeleteWrite(r) PROVE DocumentInv'
  <2> DEFINE i == req[r].doc
  <2>1. /\ i \in Invoice
        /\ \A s \in Request : req[s].op \in Issuing => req[s].doc # i
    BY <1>20 DEF DeleteWrite, RowFree, InvoiceKinds
  <2>2. /\ invoice'[i].number = 0
        /\ \A j \in Invoice \ {i} : invoice'[j] = invoice[j]
    BY <1>20, <2>1 DEF DeleteWrite, InvoiceRec, BlankInvoice
  <2>3. seq' = seq /\ raced \subseteq raced' /\ End(r)
    BY <1>20 DEF DeleteWrite, Write
  <2>4. invoice[i].number = 0 \/ raced' \cap {"patch", "delete"} # {}
    BY <1>20, <2>1 DEF DeleteWrite, Write, NumberInv, Unnumbered
  <2>5. QED
    BY <2>1, <2>2, <2>3, <2>4, OthersKept, NumbersKept DEF IssueInv, NumberInv, InvoiceKinds
<1>21. ASSUME NEW r \in Request, InvoiceGone(r) PROVE DocumentInv'
  BY <1>21, OthersKept, NumbersUntouched DEF InvoiceGone, Refused
<1>22. ASSUME NEW r \in Request, IssueNumber(r) PROVE DocumentInv'
  <2>1. /\ \A s \in Request \ {r} : req'[s] = req[s]
        /\ req'[r].op = "issueNumbered" /\ req'[r].doc = req[r].doc /\ req'[r].n = seq + 1
        /\ invoice' = invoice /\ seq' = seq /\ raced' = raced
        /\ req[r].op = "issueLocked"
    BY <1>22 DEF IssueNumber, RequestRec
  <2>2. \A s \in Request : req[s].op # "issueNumbered"
    BY <1>22 DEF IssueNumber, SequenceFree
  <2>3. IssueInv'
    BY <2>1, <2>2 DEF IssueInv, Issuing
  <2>4. NumberInv'
    BY <2>1 DEF NumberInv, GaplessNumbers, Numbers, Raced
  <2>5. QED
    BY <2>3, <2>4
<1>23. ASSUME NEW r \in Request, IssueCommit(r) PROVE DocumentInv'
  <2> DEFINE i == req[r].doc
  <2>1. /\ i \in Invoice /\ req[r].op \in Issuing /\ req[r].n = seq + 1
        /\ invoice[i].st = "draft" /\ invoice[i].number = 0
    BY <1>23 DEF IssueCommit, IssueInv, NumberInv, Unnumbered, InvoiceKinds, Issuing
  <2>2. /\ \A s \in Request \ {r} : req'[s] = req[s]
        /\ req'[r] = Idle
        /\ seq' = seq + 1 /\ raced' = raced
    BY <1>23, <2>1 DEF IssueCommit, End
  <2>3. \A s \in Request \ {r} : req[s].op # "issueNumbered"
    BY <1>23 DEF IssueCommit, IssueInv
  <2>4. \A s \in Request \ {r} : req[s].op \in Issuing => req[s].doc # i
    BY <1>23, <2>1 DEF IssueInv
  <2>5. /\ invoice'[i].st = "issued" /\ invoice'[i].number = seq + 1
        /\ \A j \in Invoice \ {i} : invoice'[j] = invoice[j]
    BY <1>23, <2>1 DEF IssueCommit, InvoiceRec
  <2>6. IssueInv'
    <3>1. \A s \in Request : req'[s].op \in Issuing => s # r /\ req[s].op \in Issuing
      BY <2>2 DEF Idle, Issuing
    <3>2. \A s \in Request : req'[s].op # "issueNumbered"
      BY <2>2, <2>3 DEF Idle
    <3>3. \A s \in Request : req'[s].op \in Issuing => invoice'[req'[s].doc].st = "draft"
      BY <2>2, <2>4, <2>5, <3>1 DEF IssueInv, InvoiceKinds
    <3>4. QED
      BY <2>2, <3>1, <3>2, <3>3 DEF IssueInv
  <2>7. \A j \in Invoice : invoice'[j].number <= seq'
    BY <2>2, <2>5 DEF NumberInv, InvoiceRec
  <2>8. \A j \in Invoice : invoice'[j].st \in Unnumbered => invoice'[j].number = 0
    BY <2>5 DEF NumberInv, Unnumbered
  <2>9. GaplessNumbers'
    <3>1. CASE Raced({"patch", "delete"})
      BY <2>2, <3>1 DEF GaplessNumbers, Raced
    <3>2. CASE ~Raced({"patch", "delete"})
      <4>1. Numbers = 1..seq
        BY <3>2 DEF NumberInv, GaplessNumbers
      <4>2. Numbers' = Numbers \cup {seq + 1}
        BY <2>1, <2>5 DEF Numbers
      <4>3. 1..(seq + 1) = (1..seq) \cup {seq + 1}
        BY NextInterval
      <4>4. QED
        BY <2>2, <4>1, <4>2, <4>3 DEF GaplessNumbers
    <3>3. QED
      BY <3>1, <3>2
  <2>10. QED
    BY <2>6, <2>7, <2>8, <2>9 DEF NumberInv
<1>24. ASSUME NEW r \in Request, IssueAbort(r) PROVE DocumentInv'
  BY <1>24, OthersKept, NumbersUntouched DEF IssueAbort, Refused
<1>25. ASSUME NEW r \in Request, ReverseWrite(r) PROVE DocumentInv'
  <2> DEFINE i == payment[req[r].doc].inv
  <2>1. /\ i \in Invoice
        /\ \A s \in Request : req[s].op \in Issuing => req[s].doc # i
    BY <1>25 DEF ReverseWrite, RowFree
  <2> DEFINE paid == Due(invoice[i].paid, payment[req[r].doc].amount)
             st == PaidStatus(invoice[i].total, paid)
  <2>a. invoice' = [invoice EXCEPT ![i] = [invoice[i] EXCEPT !.paid = paid, !.st = st]]
    BY <1>25 DEF ReverseWrite
  <2>b. st \in Final
    BY PaidStatusType
  <2> HIDE DEF st, paid
  <2>2. \A j \in Invoice : /\ invoice'[j].number = invoice[j].number
                           /\ j # i => invoice'[j] = invoice[j]
    BY <2>a, <2>1 DEF InvoiceRec
  <2>3. invoice'[i].st \notin Unnumbered
    BY <2>a, <2>b, <2>1 DEF InvoiceRec, Unnumbered, Final
  <2>4. seq' = seq /\ raced \subseteq raced' /\ End(r)
    BY <1>25 DEF ReverseWrite, Write
  <2>5. QED
    BY <2>1, <2>2, <2>3, <2>4, OthersKept, NumbersKept DEF IssueInv, NumberInv, InvoiceKinds
<1>26. ASSUME NEW r \in Request, ReverseRefused(r) PROVE DocumentInv'
  BY <1>26, OthersKept, NumbersUntouched DEF ReverseRefused, Refused
<1>27. QED
  BY <1>1, <1>2, <1>3, <1>4, <1>5, <1>6, <1>7, <1>8, <1>9, <1>10, <1>11, <1>12, <1>13, <1>14, <1>15, <1>16, <1>17, <1>18, <1>19, <1>20, <1>21, <1>22, <1>23, <1>24, <1>25, <1>26 DEF Next

\* The invariant holds throughout.
LEMMA DocumentsInvariant == Spec => []DocumentInv
<1>1. Init => DocumentInv
  <2> SUFFICES ASSUME Init PROVE DocumentInv
    OBVIOUS
  <2>1. TypeInv
    BY TypeInit
  <2>2. IssueInv
    BY DEF Init, IssueInv, Idle, Issuing
  <2>3. \A i \in Invoice : invoice[i].number = 0
    BY DEF Init, BlankInvoice
  <2>4. Numbers = {} /\ 1..seq = {}
    BY <2>3 DEF Numbers, Init
  <2>5. QED
    BY <2>1, <2>2, <2>3, <2>4 DEF Init, DocumentInv, NumberInv, GaplessNumbers
<1>2. DocumentInv /\ [Next]_vars => DocumentInv'
  <2>1. CASE Next
    BY <2>1, DocumentStep
  <2>2. CASE UNCHANGED vars
    BY <2>2 DEF vars, DocumentInv, TypeInv, TypeOK, RequestsOK, PaymentsOK, IssueInv,
                NumberInv, GaplessNumbers, Numbers, Raced
  <2>3. QED
    BY <2>1, <2>2
<1>3. QED
  BY <1>1, <1>2, PTL DEF Spec

\* However many requests issue, abort, cancel or wait at once, the numbers on
\* the invoices are 1..last_number, unless a deletion or a header edit of a
\* draft raced its issue.
THEOREM NumbersRunWithoutGaps == Spec => []GaplessNumbers
<1>1. DocumentInv => GaplessNumbers
  BY DEF DocumentInv, NumberInv
<1>2. QED
  BY <1>1, DocumentsInvariant, PTL

\* The sequence lock alone keeps two issues from one number: the UNIQUE
\* constraint never refuses a commit, even after a race took a number away.
THEOREM NumbersNeverClash == Spec => []NoNumberClash
<1>1. ASSUME DocumentInv PROVE NoNumberClash
  <2>1. \A r \in Request : req[r].op = "issueNumbered" => ~NumberTaken(req[r].n)
    BY <1>1 DEF DocumentInv, IssueInv, NumberInv, TypeInv, TypeOK, InvoiceRec, NumberTaken
  <2>2. QED
    BY <1>1, <2>1 DEF NoNumberClash, DocumentInv, IssueInv
<1>2. QED
  BY <1>1, DocumentsInvariant, PTL

-----------------------------------------------------------------------------
(* An issued invoice is a legal document.                                  *)

Issued == Final \cup {"cancelled"}

\* What no step may do to an issued invoice.
LegalStep ==
    \/ Raced({"line", "patch", "delete"})'
    \/ \A i \in Invoice : invoice[i].st \in Final \cup {"cancelled"} =>
          /\ invoice'[i].st \in Final \cup {"cancelled"}
          /\ invoice'[i].number = invoice[i].number
          /\ invoice'[i].lines = invoice[i].lines
          /\ invoice'[i].total = invoice[i].total
          /\ invoice[i].st = "cancelled" => invoice'[i] = invoice[i]

\* Steps that change only an invoice not yet issued, or race.
LEMMA NotYetIssued ==
    ASSUME NEW i, invoice[i].st \in Unnumbered \/ Raced({"line", "patch", "delete"})',
           \A j \in Invoice \ {i} : invoice'[j] = invoice[j]
    PROVE  LegalStep
BY DEF LegalStep, Unnumbered, Final

\* Steps on a final invoice that change only its balance and its status.
LEMMA StillIssued ==
    ASSUME NEW i \in Invoice, invoice \in [Invoice -> InvoiceRec], invoice[i].st # "cancelled",
           NEW st \in Issued, NEW paid,
           invoice' = [invoice EXCEPT ![i] = [invoice[i] EXCEPT !.paid = paid, !.st = st]]
    PROVE  LegalStep
BY DEF LegalStep, Issued, InvoiceRec

LEMMA InvoicesUntouched == invoice' = invoice => LegalStep
BY DEF LegalStep

\* No step changes an issued invoice in a way it may not.
LEMMA IssuedStep ==
    ASSUME DocumentInv, Next
    PROVE  LegalStep
<1> USE DEF DocumentInv, TypeInv, TypeOK, RequestsOK, PaymentsOK
<1>1. ASSUME NEW q \in Quote, CreateQuotation(q) PROVE LegalStep
  BY <1>1, InvoicesUntouched DEF CreateQuotation
<1>2. ASSUME NEW o \in Order, CancelOrder(o) PROVE LegalStep
  BY <1>2, InvoicesUntouched DEF CancelOrder
<1>3. ASSUME NEW i \in Invoice, CreateInvoice(i) PROVE LegalStep
  BY <1>3, NotYetIssued DEF CreateInvoice, Unnumbered
<1>4. ASSUME NEW i \in Invoice, CancelInvoice(i) PROVE LegalStep
  <2>1. invoice' = [invoice EXCEPT ![i] = [invoice[i] EXCEPT !.paid = invoice[i].paid,
                                                             !.st = "cancelled"]]
    BY <1>4 DEF CancelInvoice, InvoiceRec
  <2>2. QED
    BY <1>4, <2>1, StillIssued DEF CancelInvoice, Cancellable, Final, Issued
<1>5. ASSUME NEW p \in Payment, NEW i \in Invoice, RecordPayment(p, i) PROVE LegalStep
  <2>a. PICK amount \in 1..Due(invoice[i].total, invoice[i].paid) :
            invoice' = [invoice EXCEPT
                  ![i].paid = invoice[i].paid + amount,
                  ![i].st = PaidStatus(invoice[i].total, invoice[i].paid + amount)]
    BY <1>5 DEF RecordPayment
  <2>1. invoice' = [invoice EXCEPT ![i] = [invoice[i] EXCEPT
                  !.paid = invoice[i].paid + amount,
                  !.st = PaidStatus(invoice[i].total, invoice[i].paid + amount)]]
    BY <2>a
  <2>2. invoice[i].st # "cancelled"
    BY <1>5 DEF RecordPayment, TakesPayment, Final
  <2>3. PaidStatus(invoice[i].total, invoice[i].paid + amount) \in Issued
    BY PaidStatusType DEF Issued
  <2>4. QED
    BY <2>1, <2>2, <2>3, StillIssued
<1>6. ASSUME NEW r \in Request, NEW q \in Quote, QuoteLoad(r, q) PROVE LegalStep
  BY <1>6, InvoicesUntouched DEF QuoteLoad, Load
<1>7. ASSUME NEW r \in Request, NEW o \in Order, RaiseLoad(r, o) PROVE LegalStep
  BY <1>7, InvoicesUntouched DEF RaiseLoad, Load
<1>8. ASSUME NEW r \in Request, NEW i \in Invoice, InvoiceLoad(r, i) PROVE LegalStep
  BY <1>8, InvoicesUntouched DEF InvoiceLoad, Load
<1>9. ASSUME NEW r \in Request, NEW i \in Invoice, IssueLock(r, i) PROVE LegalStep
  BY <1>9, InvoicesUntouched DEF IssueLock
<1>10. ASSUME NEW r \in Request, NEW p \in Payment, ReverseLoad(r, p) PROVE LegalStep
  BY <1>10, InvoicesUntouched DEF ReverseLoad, Load
<1>11. ASSUME NEW r \in Request, QuoteLineWrite(r) PROVE LegalStep
  BY <1>11, InvoicesUntouched DEF QuoteLineWrite
<1>12. ASSUME NEW r \in Request, QuotePatchWrite(r) PROVE LegalStep
  BY <1>12, InvoicesUntouched DEF QuotePatchWrite
<1>13. ASSUME NEW r \in Request, QuoteStatusWrite(r) PROVE LegalStep
  BY <1>13, InvoicesUntouched DEF QuoteStatusWrite
<1>14. ASSUME NEW r \in Request, QuoteDeleteWrite(r) PROVE LegalStep
  BY <1>14, InvoicesUntouched DEF QuoteDeleteWrite
<1>15. ASSUME NEW r \in Request, ConvertWrite(r) PROVE LegalStep
  BY <1>15, InvoicesUntouched DEF ConvertWrite
<1>16. ASSUME NEW r \in Request, QuoteGone(r) PROVE LegalStep
  BY <1>16, InvoicesUntouched DEF QuoteGone, Refused
<1>17. ASSUME NEW r \in Request, RaiseWrite(r) PROVE LegalStep
  <2>1. PICK i \in Invoice : /\ invoice[i].st = "none"
                             /\ \A j \in Invoice \ {i} : invoice'[j] = invoice[j]
    BY <1>17 DEF RaiseWrite
  <2>2. QED
    BY <2>1, NotYetIssued DEF Unnumbered
<1>18. ASSUME NEW r \in Request, LineWrite(r) PROVE LegalStep
  <2>1. invoice[req[r].doc].st \in Unnumbered \/ Raced({"line", "patch", "delete"})'
    BY <1>18 DEF LineWrite, Write, Raced, Unnumbered
  <2>2. \A j \in Invoice \ {req[r].doc} : invoice'[j] = invoice[j]
    BY <1>18 DEF LineWrite
  <2>3. QED
    BY <2>1, <2>2, NotYetIssued
<1>19. ASSUME NEW r \in Request, PatchWrite(r) PROVE LegalStep
  <2>1. invoice[req[r].doc].st \in Unnumbered \/ Raced({"line", "patch", "delete"})'
    BY <1>19 DEF PatchWrite, Write, Raced, Unnumbered
  <2>2. \A j \in Invoice \ {req[r].doc} : invoice'[j] = invoice[j]
    BY <1>19 DEF PatchWrite
  <2>3. QED
    BY <2>1, <2>2, NotYetIssued
<1>20. ASSUME NEW r \in Request, DeleteWrite(r) PROVE LegalStep
  <2>1. invoice[req[r].doc].st \in Unnumbered \/ Raced({"line", "patch", "delete"})'
    BY <1>20 DEF DeleteWrite, Write, Raced, Unnumbered
  <2>2. \A j \in Invoice \ {req[r].doc} : invoice'[j] = invoice[j]
    BY <1>20 DEF DeleteWrite
  <2>3. QED
    BY <2>1, <2>2, NotYetIssued
<1>21. ASSUME NEW r \in Request, InvoiceGone(r) PROVE LegalStep
  BY <1>21, InvoicesUntouched DEF InvoiceGone, Refused
<1>22. ASSUME NEW r \in Request, IssueNumber(r) PROVE LegalStep
  BY <1>22, InvoicesUntouched DEF IssueNumber
<1>23. ASSUME NEW r \in Request, IssueCommit(r) PROVE LegalStep
  <2>1. invoice[req[r].doc].st \in Unnumbered
    BY <1>23 DEF IssueCommit, IssueInv, Issuing, Unnumbered
  <2>2. \A j \in Invoice \ {req[r].doc} : invoice'[j] = invoice[j]
    BY <1>23 DEF IssueCommit
  <2>3. QED
    BY <2>1, <2>2, NotYetIssued
<1>24. ASSUME NEW r \in Request, IssueAbort(r) PROVE LegalStep
  BY <1>24, InvoicesUntouched DEF IssueAbort, Refused
<1>25. ASSUME NEW r \in Request, ReverseWrite(r) PROVE LegalStep
  <2> DEFINE i == payment[req[r].doc].inv
              paid == Due(invoice[i].paid, payment[req[r].doc].amount)
              st == PaidStatus(invoice[i].total, paid)
  <2>1. invoice' = [invoice EXCEPT ![i] = [invoice[i] EXCEPT !.paid = paid, !.st = st]]
    BY <1>25 DEF ReverseWrite
  <2>2. i \in Invoice /\ invoice[i].st # "cancelled"
    BY <1>25 DEF ReverseWrite, Reversible
  <2>3. st \in Issued
    BY PaidStatusType DEF Issued
  <2> HIDE DEF st, paid, i
  <2>4. QED
    BY <2>1, <2>2, <2>3, StillIssued
<1>26. ASSUME NEW r \in Request, ReverseRefused(r) PROVE LegalStep
  BY <1>26, InvoicesUntouched DEF ReverseRefused, Refused
<1>27. QED
  BY <1>1, <1>2, <1>3, <1>4, <1>5, <1>6, <1>7, <1>8, <1>9, <1>10, <1>11, <1>12, <1>13, <1>14, <1>15, <1>16, <1>17, <1>18, <1>19, <1>20, <1>21, <1>22, <1>23, <1>24, <1>25, <1>26 DEF Next

\* From its issue an invoice keeps its number, lines and total, and a cancelled
\* one never changes, unless an edit or a deletion of the draft raced the issue.
THEOREM IssuedInvoicesAreLegal == Spec => IssuedIsLegal
<1>1. DocumentInv /\ [Next]_vars => [LegalStep]_vars
  BY IssuedStep
<1>2. QED
  BY <1>1, DocumentsInvariant, PTL DEF Spec, IssuedIsLegal, LegalStep

-----------------------------------------------------------------------------
(* Quotation, order and invoice.                                            *)

Active(inv) == Exists(inv.st) /\ inv.st # "cancelled"
OrdersOf(q) == {o \in Order : order[o].quote = q}
AtMostOne(S) == \A x, y \in S : x = y

LEMMA AtMostOneCount == ASSUME NEW S, AtMostOne(S) PROVE Cardinality(S) <= 1
<1>1. CASE S = {}
  BY <1>1, FS_EmptySet
<1>2. CASE S # {}
  <2>1. PICK x : S = {x}
    BY <1>2 DEF AtMostOne
  <2>2. QED
    BY <2>1, FS_Singleton
<1>3. QED
  BY <1>1, <1>2

Blank ==
    /\ \A i \in Invoice : invoice[i].st = "none" => invoice[i].order = NoOrder
    /\ \A o \in Order : order[o].st = "none" => order[o].quote = NoQuote
OrderFine(o) ==
    /\ order[o].st = "invoiced" <=> \E i \in Invoice : invoice[i].order = o /\ Active(invoice[i])
    /\ \A i, j \in Invoice : invoice[i].order = o /\ Active(invoice[i]) /\ invoice[j].order = o /\ Active(invoice[j]) => i = j
QuoteFine(q) ==
    /\ quote[q].st = "converted" <=> \E o \in Order : order[o].quote = q
    /\ \A o, p \in Order : order[o].quote = q /\ order[p].quote = q => o = p
    /\ \A o \in Order : order[o].quote = q => order[o].lines = quote[q].lines
OrderRaced == Raced({"raise", "patch"})
QuoteRaced == Raced({"convert", "quoteLine", "quotePatch", "quoteStatus"})
ChainInv ==
    /\ Blank
    /\ OrderRaced \/ \A o \in Order : OrderFine(o)
    /\ QuoteRaced \/ \A q \in Quote : QuoteFine(q)

LEMMA ChainMeans == ASSUME ChainInv PROVE ChainAgrees
<1>1. OrderFollowsInvoices
  <2> SUFFICES ASSUME ~OrderRaced, NEW o \in Order
               PROVE  /\ order[o].st = "invoiced" <=> ActiveInvoices(o, invoice) # {}
                      /\ Cardinality(ActiveInvoices(o, invoice)) <= 1
    BY DEF OrderFollowsInvoices, OrderRaced
  <2>1. OrderFine(o)
    BY DEF ChainInv
  <2>2. AtMostOne(ActiveInvoices(o, invoice))
    BY <2>1 DEF OrderFine, Active, AtMostOne, ActiveInvoices
  <2>3. QED
    BY <2>1, <2>2, AtMostOneCount DEF OrderFine, Active, ActiveInvoices
<1>2. OneOrderPerQuotation
  <2> SUFFICES ASSUME ~QuoteRaced, NEW q \in Quote
               PROVE  /\ quote[q].st = "converted" <=> OrdersOf(q) # {}
                      /\ Cardinality(OrdersOf(q)) <= 1
                      /\ \A o \in OrdersOf(q) : order[o].lines = quote[q].lines
    BY DEF OneOrderPerQuotation, QuoteRaced, OrdersOf
  <2>1. QuoteFine(q)
    BY DEF ChainInv
  <2>2. AtMostOne(OrdersOf(q))
    BY <2>1 DEF QuoteFine, AtMostOne, OrdersOf
  <2>3. QED
    BY <2>1, <2>2, AtMostOneCount DEF QuoteFine, OrdersOf
<1>3. QED
  BY <1>1, <1>2 DEF ChainAgrees

\* A step that leaves each invoice with its order, and active or not.
SameInvoices ==
    \A i \in Invoice : /\ invoice'[i].order = invoice[i].order
                       /\ invoice'[i].st = invoice[i].st \/ (Active(invoice[i]) /\ Active(invoice'[i]))
SameOrders ==
    \A o \in Order : order'[o].st = order[o].st /\ order'[o].quote = order[o].quote /\ order'[o].lines = order[o].lines
SameQuotes == quote' = quote

LEMMA OrdersStay ==
    ASSUME ChainInv, raced \subseteq raced', SameInvoices, \A o \in Order : order'[o].st = order[o].st
    PROVE  OrderRaced' \/ \A o \in Order : OrderFine(o)'
<1>1. OrderRaced => OrderRaced'
  BY DEF OrderRaced, Raced
<1> SUFFICES ASSUME NEW o \in Order, OrderFine(o) PROVE OrderFine(o)'
  BY <1>1 DEF ChainInv
<1>2. \A i \in Invoice : Active(invoice'[i]) <=> Active(invoice[i])
  BY DEF SameInvoices, Active
<1>3. QED
  BY <1>2 DEF OrderFine, SameInvoices

LEMMA QuotesStay ==
    ASSUME ChainInv, raced \subseteq raced', SameQuotes,
           \A o \in Order : order'[o].quote = order[o].quote /\ order'[o].lines = order[o].lines
    PROVE  QuoteRaced' \/ \A q \in Quote : QuoteFine(q)'
BY DEF ChainInv, QuoteRaced, Raced, SameQuotes, QuoteFine

LEMMA BlankStays ==
    ASSUME ChainInv, SameInvoices,
           \A o \in Order : order'[o].st = "none" => order[o].st = "none" /\ order'[o].quote = order[o].quote
    PROVE  Blank'
BY DEF ChainInv, Blank, SameInvoices, Active, Exists

\* An edit of a quotation that has no order, or that raced.
LEMMA QuoteEdited ==
    ASSUME ChainInv, raced \subseteq raced', UNCHANGED <<order, invoice>>, NEW q \in Quote,
           \A p \in Quote \ {q} : quote'[p] = quote[p],
           QuoteRaced' \/ (quote[q].st # "converted" /\ quote'[q].st # "converted")
    PROVE  ChainInv'
<1>1. Blank'
  BY DEF ChainInv, Blank
<1>2. OrderRaced' \/ \A o \in Order : OrderFine(o)'
  BY OrdersStay DEF SameInvoices
<1>3. QuoteRaced' \/ \A p \in Quote : QuoteFine(p)'
  <2> SUFFICES ASSUME ~QuoteRaced', NEW p \in Quote PROVE QuoteFine(p)'
    OBVIOUS
  <2>1. QuoteFine(p)
    BY DEF ChainInv, QuoteRaced, Raced
  <2>2. QED
    BY <2>1 DEF QuoteFine
<1>4. QED
  BY <1>1, <1>2, <1>3 DEF ChainInv

\* The order of an invoice that stops being active is reopened.
LEMMA InvoiceEnds ==
    ASSUME TypeInv, ChainInv, raced \subseteq raced', NEW i \in Invoice, UNCHANGED quote,
           \A j \in Invoice \ {i} : invoice'[j] = invoice[j],
           invoice'[i].order = invoice[i].order, invoice'[i].st \in {"gone", "cancelled"},
           order' = ReopenOrder(invoice[i].order, invoice')
    PROVE  ChainInv'
<1>1. PICK x : x = invoice[i].order
  OBVIOUS
<1>2. \A o \in Order : /\ order'[o].quote = order[o].quote /\ order'[o].lines = order[o].lines
                       /\ order'[o].st = IF o = x /\ order[o].st = "invoiced" /\ ActiveInvoices(o, invoice') = {}
                                         THEN "open" ELSE order[o].st
  BY <1>1 DEF ReopenOrder, TypeInv, TypeOK, OrderRec
<1>3. Blank'
  BY <1>2 DEF ChainInv, Blank
<1>4. ~Active(invoice'[i])
  BY DEF Active, Exists
<1>5. OrderRaced' \/ \A o \in Order : OrderFine(o)'
  <2> SUFFICES ASSUME ~OrderRaced', NEW o \in Order PROVE OrderFine(o)'
    OBVIOUS
  <2>1. OrderFine(o)
    BY DEF ChainInv, OrderRaced, Raced
  <2>2. \A j \in Invoice : invoice'[j].order = o /\ Active(invoice'[j])
                              <=> j # i /\ invoice[j].order = o /\ Active(invoice[j])
    BY <1>4
  <2>3. CASE o # x
    <3>1. order'[o].st = order[o].st
      BY <1>2, <2>3
    <3>2. QED
      BY <1>1, <2>1, <2>2, <2>3, <3>1 DEF OrderFine
  <2>4. CASE o = x /\ Active(invoice[i])
    <3>1. \A j \in Invoice : ~(invoice'[j].order = o /\ Active(invoice'[j]))
      BY <1>1, <2>1, <2>2, <2>4 DEF OrderFine
    <3>2. ActiveInvoices(o, invoice') = {}
      BY <3>1 DEF ActiveInvoices, Active
    <3>3. order'[o].st # "invoiced"
      BY <1>2, <2>4, <3>2
    <3>4. QED
      BY <3>1, <3>3 DEF OrderFine
  <2>5. CASE o = x /\ ~Active(invoice[i])
    <3>1. \A j \in Invoice : invoice'[j].order = o /\ Active(invoice'[j]) <=> invoice[j].order = o /\ Active(invoice[j])
      BY <2>2, <2>5
    <3>2. order[o].st = "invoiced" => ActiveInvoices(o, invoice') # {}
      BY <2>1, <3>1 DEF OrderFine, ActiveInvoices, Active
    <3>3. order'[o].st = order[o].st
      BY <1>2, <3>2
    <3>4. QED
      BY <2>1, <3>1, <3>3 DEF OrderFine
  <2>6. QED
    BY <2>3, <2>4, <2>5
<1>6. QuoteRaced' \/ \A q \in Quote : QuoteFine(q)'
  BY <1>2, QuotesStay DEF SameQuotes
<1>7. QED
  BY <1>3, <1>5, <1>6 DEF ChainInv

\* A step that leaves the documents' links alone.
LEMMA Unlinked ==
    ASSUME ChainInv, raced \subseteq raced', UNCHANGED <<quote, order>>, SameInvoices
    PROVE  ChainInv'
BY OrdersStay, QuotesStay, BlankStays DEF SameQuotes, ChainInv

\* Every step keeps the chain.
LEMMA ChainStep ==
    ASSUME DocumentInv, ChainInv, Next
    PROVE  ChainInv'
<1>0. /\ quote \in [Quote -> QuoteRec] /\ order \in [Order -> OrderRec] /\ invoice \in [Invoice -> InvoiceRec]
      /\ \A r \in Request : /\ req[r].op \in QuoteKinds => req[r].doc \in Quote
                            /\ req[r].op = "raise" => req[r].doc \in Order
                            /\ req[r].op \in InvoiceKinds => req[r].doc \in Invoice
      /\ TypeInv
  BY DEF DocumentInv, TypeInv, TypeOK, RequestsOK
<1>a. ASSUME UNCHANGED <<quote, order, invoice, raced>> PROVE ChainInv'
  BY <1>a, Unlinked DEF SameInvoices
<1>1. ASSUME NEW q \in Quote, CreateQuotation(q) PROVE ChainInv'
  <2>1. \A p \in Quote \ {q} : quote'[p] = quote[p]
    BY <1>0, <1>1 DEF CreateQuotation
  <2>2. quote[q].st # "converted" /\ quote'[q].st # "converted"
    BY <1>0, <1>1 DEF CreateQuotation, QuoteRec
  <2>3. QED
    BY <1>1, <2>1, <2>2, QuoteEdited DEF CreateQuotation
<1>2. ASSUME NEW o \in Order, CancelOrder(o) PROVE ChainInv'
  <2>1. \A p \in Order : /\ order'[p].quote = order[p].quote /\ order'[p].lines = order[p].lines
                         /\ order'[p].st = IF p = o THEN "cancelled" ELSE order[p].st
    BY <1>0, <1>2 DEF CancelOrder, OrderRec
  <2>2. UNCHANGED <<quote, invoice, raced>> /\ ActiveInvoices(o, invoice) = {}
    BY <1>2 DEF CancelOrder
  <2>3. \A p \in Order : OrderFine(p) => OrderFine(p)'
    BY <2>1, <2>2 DEF OrderFine, ActiveInvoices, Active
  <2>4. QuoteRaced' \/ \A q \in Quote : QuoteFine(q)'
    BY <2>1, <2>2, QuotesStay DEF SameQuotes
  <2>5. Blank'
    BY <2>1, <2>2 DEF ChainInv, Blank
  <2>6. QED
    BY <2>2, <2>3, <2>4, <2>5 DEF ChainInv, OrderRaced, Raced
<1>3. ASSUME NEW i \in Invoice, CreateInvoice(i) PROVE ChainInv'
  <2>1. /\ \A j \in Invoice \ {i} : invoice'[j] = invoice[j]
        /\ invoice'[i].order = invoice[i].order /\ invoice'[i].st = "draft" /\ invoice[i].order = NoOrder
    BY <1>0, <1>3 DEF CreateInvoice, InvoiceRec, ChainInv, Blank
  <2>2. UNCHANGED <<quote, order, raced>>
    BY <1>3 DEF CreateInvoice
  <2>3. \A o \in Order : OrderFine(o) => OrderFine(o)'
    BY <2>1, <2>2 DEF OrderFine
  <2>4. QED
    BY <2>1, <2>2, <2>3 DEF ChainInv, Blank, OrderRaced, QuoteRaced, Raced, QuoteFine
<1>4. ASSUME NEW i \in Invoice, CancelInvoice(i) PROVE ChainInv'
  <2>1. /\ \A j \in Invoice \ {i} : invoice'[j] = invoice[j]
        /\ invoice'[i].order = invoice[i].order /\ invoice'[i].st = "cancelled"
    BY <1>0, <1>4 DEF CancelInvoice, InvoiceRec
  <2>2. QED
    BY <1>0, <1>4, <2>1, InvoiceEnds DEF CancelInvoice
<1>5. ASSUME NEW p \in Payment, NEW i \in Invoice, RecordPayment(p, i) PROVE ChainInv'
  <2>1. PICK amount \in 1..Due(invoice[i].total, invoice[i].paid) :
            invoice' = [invoice EXCEPT
                  ![i].paid = invoice[i].paid + amount,
                  ![i].st = PaidStatus(invoice[i].total, invoice[i].paid + amount)]
    BY <1>5 DEF RecordPayment
  <2>2. PICK paid, st : paid = invoice[i].paid + amount /\ st = PaidStatus(invoice[i].total, invoice[i].paid + amount)
    OBVIOUS
  <2>3. st \in Final
    BY <2>2, PaidStatusType
  <2>4. invoice' = [invoice EXCEPT ![i] = [invoice[i] EXCEPT !.paid = paid, !.st = st]]
    BY <2>1, <2>2
  <2>5. SameInvoices
    BY <1>0, <1>5, <2>3, <2>4 DEF RecordPayment, TakesPayment, SameInvoices, InvoiceRec, Active, Exists, Final
  <2>6. QED
    BY <1>5, <2>5, Unlinked DEF RecordPayment
<1>6. ASSUME NEW r \in Request,
             \/ \E q \in Quote : QuoteLoad(r, q)
             \/ \E o \in Order : RaiseLoad(r, o)
             \/ \E i \in Invoice : InvoiceLoad(r, i) \/ IssueLock(r, i)
             \/ \E p \in Payment : ReverseLoad(r, p)
             \/ QuoteGone(r) \/ InvoiceGone(r) \/ IssueNumber(r) \/ IssueAbort(r) \/ ReverseRefused(r)
      PROVE  ChainInv'
  BY <1>6, <1>a DEF QuoteLoad, RaiseLoad, InvoiceLoad, IssueLock, ReverseLoad, Load, QuoteGone, InvoiceGone, IssueNumber,
                    IssueAbort, ReverseRefused, Refused
<1>7. ASSUME NEW r \in Request, QuoteLineWrite(r) PROVE ChainInv'
  <2>1. PICK q \in Quote : q = req[r].doc
    BY <1>0, <1>7 DEF QuoteLineWrite, QuoteKinds
  <2>2. /\ \A p \in Quote \ {q} : quote'[p] = quote[p]
        /\ quote'[q].st = quote[q].st /\ UNCHANGED <<order, invoice>>
    BY <1>0, <1>7, <2>1 DEF QuoteLineWrite, QuoteRec
  <2>3. raced \subseteq raced' /\ (QuoteRaced' \/ quote[q].st = "draft")
    BY <1>7, <2>1 DEF QuoteLineWrite, Write, QuoteRaced, Raced
  <2>4. QED
    BY <2>2, <2>3, QuoteEdited
<1>8. ASSUME NEW r \in Request, QuotePatchWrite(r) PROVE ChainInv'
  <2>1. PICK q \in Quote : q = req[r].doc
    BY <1>0, <1>8 DEF QuotePatchWrite, QuoteKinds
  <2>2. /\ \A p \in Quote \ {q} : quote'[p] = quote[p]
        /\ quote'[q].st = "draft" /\ UNCHANGED <<order, invoice>>
    BY <1>0, <1>8, <2>1 DEF QuotePatchWrite, QuoteRec
  <2>3. raced \subseteq raced' /\ (QuoteRaced' \/ quote[q].st = "draft")
    BY <1>8, <2>1 DEF QuotePatchWrite, Write, QuoteRaced, Raced
  <2>4. QED
    BY <2>2, <2>3, QuoteEdited
<1>9. ASSUME NEW r \in Request, QuoteStatusWrite(r) PROVE ChainInv'
  <2>1. PICK q \in Quote : q = req[r].doc
    BY <1>0, <1>9 DEF QuoteStatusWrite, QuoteKinds
  <2>2. /\ \A p \in Quote \ {q} : quote'[p] = quote[p]
        /\ quote'[q].st = req[r].to /\ UNCHANGED <<order, invoice>>
    BY <1>0, <1>9, <2>1 DEF QuoteStatusWrite, QuoteRec
  <2>3. raced \subseteq raced' /\ (QuoteRaced' \/ StatusAllowed(q, req[r].to))
    BY <1>9, <2>1 DEF QuoteStatusWrite, Write, QuoteRaced, Raced
  <2>4. StatusAllowed(q, req[r].to) => quote[q].st # "converted" /\ req[r].to # "converted"
    BY DEF StatusAllowed, Transitions
  <2>5. QED
    BY <2>2, <2>3, <2>4, QuoteEdited
<1>10. ASSUME NEW r \in Request, QuoteDeleteWrite(r) PROVE ChainInv'
  <2>1. PICK q \in Quote : q = req[r].doc
    BY <1>0, <1>10 DEF QuoteDeleteWrite, QuoteKinds
  <2>2. /\ \A p \in Quote \ {q} : quote'[p] = quote[p]
        /\ quote'[q].st = "gone" /\ UNCHANGED invoice /\ raced \subseteq raced'
    BY <1>0, <1>10, <2>1 DEF QuoteDeleteWrite, Write
  <2>3. \A o \in Order : /\ order'[o].st = order[o].st /\ order'[o].lines = order[o].lines
                         /\ order'[o].quote = IF order[o].quote = q THEN NoQuote ELSE order[o].quote
    BY <1>0, <1>10, <2>1 DEF QuoteDeleteWrite, OrderRec
  <2>4. Blank'
    BY <2>2, <2>3 DEF ChainInv, Blank
  <2>5. OrderRaced' \/ \A o \in Order : OrderFine(o)'
    BY <2>2, <2>3, OrdersStay DEF SameInvoices
  <2>6. QuoteRaced' \/ \A p \in Quote : QuoteFine(p)'
    <3> SUFFICES ASSUME ~QuoteRaced', NEW p \in Quote PROVE QuoteFine(p)'
      OBVIOUS
    <3>1. QuoteFine(p)
      BY <2>2 DEF ChainInv, QuoteRaced, Raced
    <3>2. NoQuote \notin Quote
      OBVIOUS
    <3>3. \A o \in Order : order'[o].quote = p <=> p # q /\ order[o].quote = p
      BY <2>3, <3>2
    <3>4. QED
      BY <2>2, <2>3, <3>1, <3>3 DEF QuoteFine
  <2>7. QED
    BY <2>4, <2>5, <2>6 DEF ChainInv
<1>11. ASSUME NEW r \in Request, ConvertWrite(r) PROVE ChainInv'
  <2>1. PICK q \in Quote : q = req[r].doc
    BY <1>0, <1>11 DEF ConvertWrite, QuoteKinds
  <2>2. PICK o \in Order : /\ order[o].st = "none"
                           /\ order' = [order EXCEPT ![o] = [st |-> "open", lines |-> req[r].n, quote |-> q]]
    BY <1>11, <2>1 DEF ConvertWrite
  <2>3. /\ \A p \in Quote \ {q} : quote'[p] = quote[p]
        /\ quote'[q].st = "converted" /\ quote'[q].lines = quote[q].lines /\ UNCHANGED invoice
    BY <1>0, <1>11, <2>1 DEF ConvertWrite, ConvertedStatus, QuoteRec
  <2>4. /\ raced \subseteq raced'
        /\ QuoteRaced' \/ (quote[q].st # "converted" /\ quote[q].lines = req[r].n)
    BY <1>11, <2>1 DEF ConvertWrite, Write, QuoteRaced, Raced, Convertible
  <2>5. /\ \A p \in Order \ {o} : order'[p] = order[p]
        /\ order'[o].st = "open" /\ order'[o].lines = req[r].n /\ order'[o].quote = q /\ order[o].quote = NoQuote
    BY <1>0, <2>2 DEF ChainInv, Blank
  <2>6. Blank'
    BY <2>3, <2>5 DEF ChainInv, Blank
  <2>7. OrderRaced' \/ \A p \in Order : OrderFine(p)'
    <3> SUFFICES ASSUME ~OrderRaced', NEW p \in Order PROVE OrderFine(p)'
      OBVIOUS
    <3>1. OrderFine(p)
      BY <2>4 DEF ChainInv, OrderRaced, Raced
    <3>2. order'[p].st = "invoiced" <=> order[p].st = "invoiced"
      BY <2>2, <2>5
    <3>3. QED
      BY <2>3, <3>1, <3>2 DEF OrderFine
  <2>8. QuoteRaced' \/ \A p \in Quote : QuoteFine(p)'
    <3> SUFFICES ASSUME ~QuoteRaced', NEW p \in Quote PROVE QuoteFine(p)'
      OBVIOUS
    <3>1. QuoteFine(p)
      BY <2>4 DEF ChainInv, QuoteRaced, Raced
    <3>2. CASE p = q
      <4>1. \A x \in Order : order'[x].quote = q <=> x = o
        BY <2>4, <2>5, <3>1, <3>2 DEF QuoteFine
      <4>2. QED
        BY <2>3, <2>4, <2>5, <3>2, <4>1 DEF QuoteFine
    <3>3. CASE p # q
      <4>1. \A x \in Order : /\ order'[x].quote = p <=> order[x].quote = p
                             /\ order'[x].quote = p => order'[x].lines = order[x].lines
        BY <2>5, <3>3
      <4>2. QED
        BY <2>3, <3>1, <3>3, <4>1 DEF QuoteFine
    <3>4. QED
      BY <3>2, <3>3
  <2>9. QED
    BY <2>6, <2>7, <2>8 DEF ChainInv
<1>12. ASSUME NEW r \in Request, RaiseWrite(r) PROVE ChainInv'
  <2>1. PICK o \in Order : o = req[r].doc
    BY <1>0, <1>12 DEF RaiseWrite
  <2>2. PICK i \in Invoice :
          /\ invoice[i].st = "none"
          /\ invoice' = [invoice EXCEPT ![i] =
                [BlankInvoice EXCEPT !.st = "draft", !.lines = order[o].lines,
                                     !.total = order[o].lines, !.order = o]]
    BY <1>12, <2>1 DEF RaiseWrite
  <2>3. /\ \A j \in Invoice \ {i} : invoice'[j] = invoice[j]
        /\ invoice'[i].st = "draft" /\ invoice'[i].order = o /\ invoice[i].order = NoOrder
    BY <1>0, <2>2 DEF BlankInvoice, ChainInv, Blank
  <2>4. \A p \in Order : /\ order'[p].quote = order[p].quote /\ order'[p].lines = order[p].lines
                         /\ order'[p].st = IF p = o THEN "invoiced" ELSE order[p].st
    BY <1>0, <1>12, <2>1 DEF RaiseWrite, OrderRec
  <2>5. UNCHANGED quote /\ raced \subseteq raced' /\ (OrderRaced' \/ ActiveInvoices(o, invoice) = {})
    BY <1>12, <2>1 DEF RaiseWrite, Write, OrderRaced, Raced, Invoiceable
  <2>6. Blank'
    BY <2>3, <2>4 DEF ChainInv, Blank
  <2>7. OrderRaced' \/ \A p \in Order : OrderFine(p)'
    <3> SUFFICES ASSUME ~OrderRaced', NEW p \in Order PROVE OrderFine(p)'
      OBVIOUS
    <3>1. OrderFine(p)
      BY <2>5 DEF ChainInv, OrderRaced, Raced
    <3>2. CASE p = o
      <4>1. \A j \in Invoice : invoice'[j].order = o /\ Active(invoice'[j]) <=> j = i
        BY <2>3, <2>5 DEF ActiveInvoices, Active, Exists
      <4>2. QED
        BY <2>4, <3>2, <4>1 DEF OrderFine
    <3>3. CASE p # o
      <4>1. \A j \in Invoice : invoice'[j].order = p /\ Active(invoice'[j]) <=> invoice[j].order = p /\ Active(invoice[j])
        BY <2>3, <3>3
      <4>2. QED
        BY <2>4, <3>1, <3>3, <4>1 DEF OrderFine
    <3>4. QED
      BY <3>2, <3>3
  <2>8. QED
    BY <2>4, <2>5, <2>6, <2>7, QuotesStay DEF ChainInv, SameQuotes
<1>13. ASSUME NEW r \in Request, LineWrite(r) PROVE ChainInv'
  <2>1. PICK i \in Invoice : i = req[r].doc
    BY <1>0, <1>13 DEF LineWrite, InvoiceKinds
  <2>2. SameInvoices
    BY <1>0, <1>13, <2>1 DEF LineWrite, SameInvoices, InvoiceRec
  <2>3. QED
    BY <1>13, <2>2, Unlinked DEF LineWrite, Write
<1>14. ASSUME NEW r \in Request, PatchWrite(r) PROVE ChainInv'
  <2>1. PICK i \in Invoice : i = req[r].doc
    BY <1>0, <1>14 DEF PatchWrite, InvoiceKinds
  <2>2. /\ \A j \in Invoice \ {i} : invoice'[j] = invoice[j]
        /\ invoice'[i].st = "draft" /\ invoice'[i].order = invoice[i].order
    BY <1>0, <1>14, <2>1 DEF PatchWrite, InvoiceRec
  <2>3. UNCHANGED <<quote, order>> /\ raced \subseteq raced' /\ (OrderRaced' \/ invoice[i].st = "draft")
    BY <1>14, <2>1 DEF PatchWrite, Write, OrderRaced, Raced
  <2>4. CASE invoice[i].st = "draft"
    <3>1. SameInvoices
      BY <2>2, <2>4 DEF SameInvoices
    <3>2. QED
      BY <2>3, <3>1, Unlinked
  <2>5. CASE OrderRaced'
    BY <2>2, <2>3, <2>5, QuotesStay DEF SameQuotes, ChainInv, Blank
  <2>6. QED
    BY <2>3, <2>4, <2>5
<1>15. ASSUME NEW r \in Request, DeleteWrite(r) PROVE ChainInv'
  <2>1. PICK i \in Invoice : i = req[r].doc
    BY <1>0, <1>15 DEF DeleteWrite, InvoiceKinds
  <2>2. /\ \A j \in Invoice \ {i} : invoice'[j] = invoice[j]
        /\ invoice'[i].st = "gone" /\ invoice'[i].order = invoice[i].order
    BY <1>0, <1>15, <2>1 DEF DeleteWrite, BlankInvoice
  <2>3. UNCHANGED quote /\ raced \subseteq raced' /\ order' = ReopenOrder(invoice[i].order, invoice')
    BY <1>15, <2>1 DEF DeleteWrite, Write
  <2>4. QED
    BY <1>0, <2>2, <2>3, InvoiceEnds
<1>16. ASSUME NEW r \in Request, IssueCommit(r) PROVE ChainInv'
  <2>1. PICK i \in Invoice : i = req[r].doc
    BY <1>0, <1>16 DEF IssueCommit, InvoiceKinds, Issuing
  <2>2. invoice[i].st = "draft"
    BY <1>16, <2>1 DEF IssueCommit, DocumentInv, IssueInv, Issuing
  <2>3. SameInvoices
    BY <1>0, <1>16, <2>1, <2>2 DEF IssueCommit, SameInvoices, InvoiceRec, Active, Exists
  <2>4. QED
    BY <1>16, <2>3, Unlinked DEF IssueCommit
<1>17. ASSUME NEW r \in Request, ReverseWrite(r) PROVE ChainInv'
  <2>1. PICK i : i = payment[req[r].doc].inv
    OBVIOUS
  <2>2. PICK paid, st : paid = Due(invoice[i].paid, payment[req[r].doc].amount) /\ st = PaidStatus(invoice[i].total, paid)
    OBVIOUS
  <2>3. st \in Final
    BY <2>2, PaidStatusType
  <2>4. invoice' = [invoice EXCEPT ![i] = [invoice[i] EXCEPT !.paid = paid, !.st = st]]
    BY <1>17, <2>1, <2>2 DEF ReverseWrite
  <2>5. Active(invoice[i])
    BY <1>17, <2>1 DEF ReverseWrite, Reversible, Active
  <2>6. \A j \in Invoice : j # i => invoice'[j] = invoice[j]
    BY <1>0, <2>4
  <2>7. i \in Invoice => invoice'[i].order = invoice[i].order /\ Active(invoice'[i])
    BY <1>0, <2>3, <2>4 DEF InvoiceRec, Active, Exists, Final
  <2>8. SameInvoices
    BY <2>5, <2>6, <2>7 DEF SameInvoices
  <2>9. QED
    BY <1>17, <2>8, Unlinked DEF ReverseWrite, Write
<1>18. QED
  BY <1>1, <1>2, <1>3, <1>4, <1>5, <1>6, <1>7, <1>8, <1>9, <1>10, <1>11, <1>12, <1>13, <1>14, <1>15, <1>16, <1>17 DEF Next

\* Each order follows its invoices and each quotation its order, for any number
\* of each, unless two conversions or raises or an edit of a copy raced.
THEOREM ChainHolds == Spec => []ChainAgrees
<1>1. Init => ChainInv
  <2> SUFFICES ASSUME Init PROVE ChainInv
    OBVIOUS
  <2>1. Blank /\ \A o \in Order : OrderFine(o)
    BY DEF Init, Blank, OrderFine, BlankInvoice, Active
  <2>2. \A q \in Quote : QuoteFine(q)
    BY DEF Init, QuoteFine
  <2>3. QED
    BY <2>1, <2>2 DEF ChainInv
<1>2. DocumentInv /\ ChainInv /\ [Next]_vars => ChainInv'
  <2>1. CASE Next
    BY <2>1, ChainStep
  <2>2. CASE UNCHANGED vars
    BY <2>2, Unlinked DEF vars, SameInvoices
  <2>3. QED
    BY <2>1, <2>2
<1>3. QED
  BY <1>1, <1>2, ChainMeans, DocumentsInvariant, PTL DEF Spec

-----------------------------------------------------------------------------
(* The books.  A payment on file has an amount, so one whose receipts are   *)
(* nothing has none on file; and no invoice that ever received a payment is *)
(* a draft again, unless an edit of a copy made it one.                     *)

\* What a row says of its balance.
StatusFine(inv) ==
    /\ inv.st \in Final => inv.total = inv.lines /\ inv.paid <= inv.total
    /\ inv.st \in Final => inv.st = PaidStatus(inv.total, inv.paid)
    /\ inv.st \notin Final => inv.paid = 0

\* What a payment adds to the receipts of its invoice.
OnFile(p) == IF p.live THEN p.amount ELSE 0

LedgerRaced == Raced({"line", "patch", "reverse"})
LedgerInv ==
    \/ LedgerRaced
    \/ /\ \A i \in Invoice : invoice[i].paid = Received(i) /\ StatusFine(invoice[i])
       /\ \A p \in Payment : payment[p].live => payment[p].amount > 0

StockRaced == Raced({"line", "patch", "delete"})
StockInv ==
    \/ StockRaced
    \/ /\ stock = - SumFunction([i \in Invoice |-> TakenOut(i)])
       /\ \A p \in Payment : payment[p].inv \in Invoice =>
                                invoice[payment[p].inv].st \notin {"none", "draft"}
       /\ \A i \in Invoice : invoice[i].st \in Final => invoice[i].number > 0

LEMMA BooksMean == ASSUME LedgerInv, StockInv PROVE BooksAgree
BY DEF LedgerInv, LedgerRaced, StatusFine, StockInv, StockRaced, BooksAgree, LedgerAgrees, StockBalances

\* One payment changes: so do its receipts, and no others.
LEMMA ReceiptsMove ==
    ASSUME TypeOK, TypeOK', NEW i \in Invoice, NEW p \in Payment,
           \A q \in Payment \ {p} : payment'[q] = payment[q]
    PROVE  /\ Received(i) \in Nat /\ Receipt(p, i) \in Nat /\ Receipt(p, i) <= Received(i)
           /\ Received(i)' = Received(i) + Receipt(p, i)' - Receipt(p, i)
<1> DEFINE f == [q \in Payment |-> Receipt(q, i)]
           g == [q \in Payment |-> Receipt(q, i)']
<1>1. /\ \A q \in Payment : f[q] \in Nat /\ g[q] \in Nat
      /\ \A q \in Payment \ {p} : g[q] = f[q]
      /\ f[p] = Receipt(p, i) /\ g[p] = Receipt(p, i)'
      /\ DOMAIN f = Payment /\ DOMAIN g = Payment
  BY DEF TypeOK, PaymentRec, Receipt
<1>2. Received(i) = SumFunction(f) /\ Received(i)' = SumFunction(g)
  BY DEF Received
<1> HIDE DEF f, g
<1>3. SumFunctionOnSet(f, Payment) \in Nat /\ f[p] <= SumFunctionOnSet(f, Payment)
  BY <1>1, SumNat
<1>4. SumFunctionOnSet(g, Payment) = SumFunctionOnSet(f, Payment) + g[p] - f[p]
  BY <1>1, SumChange
<1>5. QED
  BY <1>1, <1>2, <1>3, <1>4 DEF SumFunction

\* No payment on file: nothing received.
LEMMA NoReceipts ==
    TypeOK => \A j \in Invoice :
        (\A p \in Payment : payment[p].live => payment[p].inv # j) => Received(j) = 0
<1> SUFFICES ASSUME TypeOK, NEW i \in Invoice, \A p \in Payment : payment[p].live => payment[p].inv # i
             PROVE  Received(i) = 0
  OBVIOUS
<1> DEFINE f == [p \in Payment |-> Receipt(p, i)]
<1>1. DOMAIN f = Payment /\ \A p \in Payment : f[p] = 0
  BY DEF Receipt
<1>2. Received(i) = SumFunction(f)
  BY DEF Received
<1> HIDE DEF f
<1>3. QED
  BY <1>1, <1>2, SumZero DEF SumFunction

\* One invoice changes: the stock it has taken out, and no other's.
LEMMA StockMoves ==
    ASSUME TypeOK, TypeOK', NEW i \in Invoice, \A j \in Invoice \ {i} : invoice'[j] = invoice[j]
    PROVE  /\ SumFunction([j \in Invoice |-> TakenOut(j)]) \in Nat
           /\ TakenOut(i) \in Nat /\ TakenOut(i)' \in Nat
           /\ SumFunction([j \in Invoice |-> TakenOut(j)])'
                 = SumFunction([j \in Invoice |-> TakenOut(j)]) + TakenOut(i)' - TakenOut(i)
<1> DEFINE f == [j \in Invoice |-> TakenOut(j)]
           g == [j \in Invoice |-> TakenOut(j)']
<1>1. /\ \A j \in Invoice : f[j] \in Nat /\ g[j] \in Nat
      /\ \A j \in Invoice \ {i} : g[j] = f[j]
      /\ f[i] = TakenOut(i) /\ g[i] = TakenOut(i)'
      /\ DOMAIN f = Invoice /\ DOMAIN g = Invoice
  BY DEF TypeOK, InvoiceRec, TakenOut
<1>2. SumFunction([j \in Invoice |-> TakenOut(j)])' = SumFunction(g)
  OBVIOUS
<1>3. SumFunction([j \in Invoice |-> TakenOut(j)]) = SumFunction(f)
  OBVIOUS
<1> HIDE DEF f, g
<1>4. SumFunctionOnSet(f, Invoice) \in Nat
  BY <1>1, SumNat
<1>5. SumFunctionOnSet(g, Invoice) = SumFunctionOnSet(f, Invoice) + g[i] - f[i]
  BY <1>1, SumChange
<1>6. QED
  BY <1>1, <1>2, <1>3, <1>4, <1>5 DEF SumFunction

\* Steps that leave the payments alone, and what each invoice has received.
LEMMA LedgerKept ==
    ASSUME LedgerInv, raced \subseteq raced', payment' = payment,
           ~LedgerRaced /\ ~LedgerRaced' => \A i \in Invoice :
               \/ invoice'[i] = invoice[i]
               \/ invoice'[i].paid = invoice[i].paid /\ StatusFine(invoice'[i])
    PROVE  LedgerInv'
<1>1. LedgerRaced => LedgerRaced'
  BY DEF LedgerRaced, Raced
<1>2. \A i \in Invoice : Received(i)' = Received(i)
  BY DEF Received, Receipt
<1>3. QED
  BY <1>1, <1>2 DEF LedgerInv

\* Steps that change one invoice and take out of stock, or return, what it says.
LEMMA StockKept ==
    ASSUME TypeOK, TypeOK', StockInv, raced \subseteq raced', NEW i \in Invoice,
           ~StockRaced /\ ~StockRaced' =>
               /\ \A j \in Invoice \ {i} : invoice'[j] = invoice[j]
               /\ \A p \in Payment : payment'[p].inv = payment[p].inv \/ payment'[p].inv = i
               /\ (\E p \in Payment : payment'[p].inv = i) => invoice'[i].st \notin {"none", "draft"}
               /\ invoice'[i].st \in Final => invoice'[i].number > 0
               /\ stock' = stock + TakenOut(i) - TakenOut(i)'
    PROVE  StockInv'
<1>1. CASE StockRaced \/ StockRaced'
  BY <1>1 DEF StockInv, StockRaced, Raced
<1>2. CASE ~StockRaced /\ ~StockRaced'
  <2>1. /\ stock = - SumFunction([j \in Invoice |-> TakenOut(j)])
        /\ stock' = stock + TakenOut(i) - TakenOut(i)'
    BY <1>2 DEF StockInv
  <2>2. /\ SumFunction([j \in Invoice |-> TakenOut(j)]) \in Nat
        /\ TakenOut(i) \in Nat /\ TakenOut(i)' \in Nat
        /\ SumFunction([j \in Invoice |-> TakenOut(j)])'
              = SumFunction([j \in Invoice |-> TakenOut(j)]) + TakenOut(i)' - TakenOut(i)
    BY <1>2, StockMoves
  <2> DEFINE s == SumFunction([j \in Invoice |-> TakenOut(j)])
             t == SumFunction([j \in Invoice |-> TakenOut(j)])'
             a == TakenOut(i)
             b == TakenOut(i)'
  <2>3. /\ s \in Nat /\ a \in Nat /\ b \in Nat /\ t = s + b - a /\ stock = -s /\ stock' = stock + a - b
    BY <2>1, <2>2
  <2>4. stock' = -t
    <3> HIDE DEF s, t, a, b
    <3>1. QED
      BY <2>3
  <2>5. \A p \in Payment : payment'[p].inv \in Invoice =>
                              invoice'[payment'[p].inv].st \notin {"none", "draft"}
    BY <1>2 DEF StockInv
  <2>6. \A j \in Invoice : invoice'[j].st \in Final => invoice'[j].number > 0
    BY <1>2 DEF StockInv
  <2>7. QED
    BY <2>4, <2>5, <2>6 DEF StockInv
<1>3. QED
  BY <1>1, <1>2

BooksInv == LedgerInv /\ StockInv

\* Steps that touch no payment, no invoice and no stock.
LEMMA BooksUntouched ==
    ASSUME BooksInv, raced \subseteq raced', UNCHANGED <<invoice, payment, stock>>
    PROVE  BooksInv'
<1>1. LedgerInv'
  BY LedgerKept DEF BooksInv
<1>2. StockInv'
  BY DEF BooksInv, StockInv, StockRaced, Raced, TakenOut
<1>3. QED
  BY <1>1, <1>2 DEF BooksInv

\* A payment is recorded or reversed, and the balance moves with it.
BalanceMoves(i, p, paid) ==
    /\ \A j \in Invoice \ {i} : invoice'[j] = invoice[j]
    /\ \A q \in Payment \ {p} : payment'[q] = payment[q]
    /\ invoice'[i] = [invoice[i] EXCEPT !.paid = paid, !.st = PaidStatus(invoice[i].total, paid)]
    /\ payment[p].live => payment[p].inv = i
    /\ payment'[p].inv = i
    /\ payment'[p].live => payment'[p].amount > 0
    /\ ~LedgerRaced /\ ~LedgerRaced' =>
           /\ invoice[i].st \in Final /\ paid <= invoice[i].total
           /\ paid = invoice[i].paid + OnFile(payment'[p]) - OnFile(payment[p])
    /\ ~StockRaced => invoice[i].st \in Final
    /\ stock' = stock /\ raced \subseteq raced'

\* A race is noted for good.
LEMMA RacesStay == ASSUME NEW r \in Request, NEW allowed, Write(r, allowed) PROVE raced \subseteq raced'
BY DEF Write

\* Every step keeps the books.
LEMMA BooksStep ==
    ASSUME DocumentInv, DocumentInv', BooksInv, Next
    PROVE  BooksInv'
<1>0. TypeOK /\ TypeOK' /\ LedgerInv /\ StockInv
  BY DEF DocumentInv, TypeInv, BooksInv
<1>t. /\ invoice \in [Invoice -> InvoiceRec] /\ invoice' \in [Invoice -> InvoiceRec]
      /\ payment \in [Payment -> PaymentRec] /\ payment' \in [Payment -> PaymentRec]
      /\ stock \in Int
      /\ \A i \in Invoice : /\ invoice[i].lines \in Nat /\ invoice[i].total \in Nat
                            /\ invoice[i].paid \in Nat /\ invoice[i].number \in Nat
      /\ \A p \in Payment : payment[p].amount \in Nat
  BY <1>0 DEF TypeOK, InvoiceRec, PaymentRec
<1>k. /\ \A r \in Request : req[r].op \in InvoiceKinds => req[r].doc \in Invoice
      /\ \A r \in Request : req[r].op \in Issuing => invoice[req[r].doc].st = "draft"
      /\ \A r \in Request : req[r].op = "reverse" => /\ req[r].doc \in Payment
                                                     /\ payment[req[r].doc].inv \in Invoice
      /\ \A p \in Payment : payment[p].live => payment[p].inv \in Invoice
  BY DEF DocumentInv, TypeInv, RequestsOK, PaymentsOK, IssueInv
\* Quotations, orders, and every request that only loads or ends.
<1>1. ASSUME UNCHANGED <<invoice, payment, stock>>, raced \subseteq raced' PROVE BooksInv'
  BY <1>1, BooksUntouched
<1>2. ASSUME NEW r \in Request, NEW kind, NEW doc, NEW n, NEW to, Load(r, kind, doc, n, to)
      PROVE  BooksInv'
  BY <1>1, <1>2 DEF Load
<1>3. CASE \/ \E q \in Quote : CreateQuotation(q)
           \/ \E o \in Order : CancelOrder(o)
           \/ \E r \in Request, i \in Invoice : IssueLock(r, i)
           \/ \E r \in Request : QuoteGone(r) \/ InvoiceGone(r) \/ IssueNumber(r)
                                 \/ IssueAbort(r) \/ ReverseRefused(r)
  BY <1>1, <1>3 DEF CreateQuotation, CancelOrder, IssueLock, QuoteGone, InvoiceGone, IssueNumber,
                    IssueAbort, ReverseRefused, Refused
<1>4. CASE \E r \in Request : QuoteLineWrite(r) \/ QuotePatchWrite(r) \/ QuoteStatusWrite(r)
                              \/ QuoteDeleteWrite(r) \/ ConvertWrite(r)
  BY <1>1, <1>4, RacesStay DEF QuoteLineWrite, QuotePatchWrite, QuoteStatusWrite, QuoteDeleteWrite, ConvertWrite
<1>5. CASE \/ \E r \in Request, q \in Quote : QuoteLoad(r, q)
           \/ \E r \in Request, o \in Order : RaiseLoad(r, o)
           \/ \E r \in Request, i \in Invoice : InvoiceLoad(r, i)
           \/ \E r \in Request, p \in Payment : ReverseLoad(r, p)
  BY <1>2, <1>5 DEF QuoteLoad, RaiseLoad, InvoiceLoad, ReverseLoad
\* An invoice that is no draft and has taken nothing out of stock stays so.
<1>6. ASSUME NEW i \in Invoice, \A j \in Invoice \ {i} : invoice'[j] = invoice[j],
             invoice[i].st \in {"none", "draft"}, invoice'[i].st \in {"none", "draft"},
             invoice'[i].paid = 0, payment' = payment, stock' = stock, raced \subseteq raced'
      PROVE  BooksInv'
  <2>1. TakenOut(i) = 0 /\ TakenOut(i)' = 0
    BY <1>6 DEF TakenOut, Final
  <2>2. StockInv'
    <3>1. ~StockRaced => ~\E p \in Payment : payment'[p].inv = i
      BY <1>0, <1>6 DEF StockInv
    <3>2. stock' = stock + TakenOut(i) - TakenOut(i)' /\ invoice'[i].st \notin Final
      BY <1>t, <1>6, <2>1 DEF Final
    <3>3. QED
      BY <1>0, <1>6, <3>1, <3>2, StockKept
  <2>3. LedgerInv'
    <3>1. ~LedgerRaced => invoice'[i].paid = invoice[i].paid
      BY <1>0, <1>6 DEF LedgerInv, StatusFine, Final
    <3>2. StatusFine(invoice'[i])
      BY <1>6 DEF StatusFine, Final
    <3>3. QED
      BY <1>0, <1>6, <3>1, <3>2, LedgerKept
  <2>4. QED
    BY <2>2, <2>3 DEF BooksInv
<1>7. ASSUME NEW i \in Invoice, CreateInvoice(i) PROVE BooksInv'
  <2>1. /\ invoice[i].st = "none" /\ invoice'[i].st = "draft" /\ invoice'[i].paid = invoice[i].paid
        /\ \A j \in Invoice \ {i} : invoice'[j] = invoice[j]
        /\ payment' = payment /\ stock' = stock /\ raced' = raced
    BY <1>t, <1>7 DEF CreateInvoice, InvoiceRec
  <2>2. StockInv'
    <3>1. TakenOut(i) = 0 /\ TakenOut(i)' = 0
      BY <2>1 DEF TakenOut, Final
    <3>2. ~StockRaced => ~\E p \in Payment : payment'[p].inv = i
      BY <1>0, <2>1 DEF StockInv
    <3>3. stock' = stock + TakenOut(i) - TakenOut(i)' /\ invoice'[i].st \notin Final
      BY <1>t, <2>1, <3>1 DEF Final
    <3>4. QED
      BY <1>0, <2>1, <3>2, <3>3, StockKept
  <2>3. LedgerInv'
    <3>1. ~LedgerRaced => StatusFine(invoice'[i])
      BY <1>0, <2>1 DEF LedgerInv, StatusFine, Final
    <3>2. QED
      BY <1>0, <2>1, <3>1, LedgerKept
  <2>4. QED
    BY <2>2, <2>3 DEF BooksInv
<1>8. ASSUME NEW r \in Request, RaiseWrite(r) PROVE BooksInv'
  <2>1. PICK i \in Invoice :
            /\ invoice[i].st = "none"
            /\ invoice' = [invoice EXCEPT ![i] =
                  [BlankInvoice EXCEPT !.st = "draft", !.lines = order[req[r].doc].lines,
                                       !.total = order[req[r].doc].lines, !.order = req[r].doc]]
    BY <1>8 DEF RaiseWrite
  <2>2. /\ invoice'[i].st = "draft" /\ invoice'[i].paid = 0
        /\ \A j \in Invoice \ {i} : invoice'[j] = invoice[j]
    BY <1>t, <2>1 DEF BlankInvoice
  <2>3. payment' = payment /\ stock' = stock /\ raced \subseteq raced'
    BY <1>8, RacesStay DEF RaiseWrite
  <2>4. QED
    BY <1>6, <2>1, <2>2, <2>3
<1>9. ASSUME NEW r \in Request, LineWrite(r) PROVE BooksInv'
  <2>1. PICK i \in Invoice : i = req[r].doc /\ req[r].op = "line"
    BY <1>9, <1>k DEF LineWrite, InvoiceKinds
  <2>2. /\ invoice'[i].st = invoice[i].st /\ invoice'[i].paid = invoice[i].paid
        /\ \A j \in Invoice \ {i} : invoice'[j] = invoice[j]
        /\ payment' = payment /\ stock' = stock
    BY <1>9, <1>t, <2>1 DEF LineWrite, InvoiceRec
  <2>3. raced' = IF invoice[i].st = "draft" THEN raced ELSE raced \cup {"line"}
    BY <1>9, <2>1 DEF LineWrite, Write
  <2>4. CASE invoice[i].st # "draft"
    BY <2>3, <2>4 DEF BooksInv, LedgerInv, LedgerRaced, StockInv, StockRaced, Raced
  <2>5. CASE invoice[i].st = "draft"
    <3>1. StockInv'
      <4>1. TakenOut(i) = 0 /\ TakenOut(i)' = 0
        BY <2>2, <2>5 DEF TakenOut, Final
      <4>2. ~StockRaced => ~\E p \in Payment : payment'[p].inv = i
        BY <1>0, <2>1, <2>2, <2>5 DEF StockInv
      <4>3. stock' = stock + TakenOut(i) - TakenOut(i)' /\ invoice'[i].st \notin Final
        BY <1>t, <2>2, <2>5, <4>1 DEF Final
      <4>4. QED
        BY <1>0, <2>1, <2>2, <2>3, <2>5, <4>2, <4>3, StockKept
    <3>2. LedgerInv'
      <4>1. ~LedgerRaced => StatusFine(invoice'[i])
        BY <1>0, <2>1, <2>2, <2>5 DEF LedgerInv, StatusFine, Final
      <4>2. QED
        BY <1>0, <2>1, <2>2, <2>3, <2>5, <4>1, LedgerKept
    <3>3. QED
      BY <3>1, <3>2 DEF BooksInv
  <2>6. QED
    BY <2>4, <2>5
<1>10. ASSUME NEW r \in Request, PatchWrite(r) PROVE BooksInv'
  <2>1. PICK i \in Invoice : i = req[r].doc /\ req[r].op = "patch"
    BY <1>10, <1>k DEF PatchWrite, InvoiceKinds
  <2>2. /\ invoice'[i].st = "draft" /\ invoice'[i].paid = 0
        /\ \A j \in Invoice \ {i} : invoice'[j] = invoice[j]
        /\ payment' = payment /\ stock' = stock
    BY <1>10, <1>t, <2>1 DEF PatchWrite, InvoiceRec
  <2>3. raced' = IF invoice[i].st = "draft" THEN raced ELSE raced \cup {"patch"}
    BY <1>10, <2>1 DEF PatchWrite, Write
  <2>4. CASE invoice[i].st # "draft"
    BY <2>3, <2>4 DEF BooksInv, LedgerInv, LedgerRaced, StockInv, StockRaced, Raced
  <2>5. CASE invoice[i].st = "draft"
    BY <1>6, <2>1, <2>2, <2>3, <2>5
  <2>6. QED
    BY <2>4, <2>5
<1>11. ASSUME NEW r \in Request, DeleteWrite(r) PROVE BooksInv'
  <2>1. PICK i \in Invoice : i = req[r].doc /\ req[r].op = "delete"
    BY <1>11, <1>k DEF DeleteWrite, InvoiceKinds
  <2>2. /\ invoice'[i].st = "gone" /\ invoice'[i].paid = 0
        /\ \A j \in Invoice \ {i} : invoice'[j] = invoice[j]
        /\ stock' = stock
        /\ \A p \in Payment : payment'[p] = IF payment[p].inv = i THEN [payment[p] EXCEPT !.live = FALSE]
                                            ELSE payment[p]
    BY <1>11, <1>t, <2>1 DEF DeleteWrite, BlankInvoice
  <2>3. raced' = IF invoice[i].st = "draft" THEN raced ELSE raced \cup {"delete"}
    BY <1>11, <2>1 DEF DeleteWrite, Write
  <2>4. \A p \in Payment : /\ payment'[p].inv = payment[p].inv
                           /\ payment[p].inv # i => payment'[p] = payment[p]
                           /\ payment[p].inv = i => ~payment'[p].live
    BY <1>t, <2>2 DEF PaymentRec
  <2>5. StockInv'
    <3>1. CASE invoice[i].st # "draft"
      BY <2>3, <3>1 DEF StockInv, StockRaced, Raced
    <3>2. CASE invoice[i].st = "draft"
      <4>1. TakenOut(i) = 0 /\ TakenOut(i)' = 0 /\ invoice'[i].st \notin Final \cup {"none", "draft"}
        BY <2>2, <3>2 DEF TakenOut, Final
      <4>2. stock' = stock + TakenOut(i) - TakenOut(i)'
        BY <1>t, <2>2, <4>1
      <4>3. QED
        BY <1>0, <2>1, <2>2, <2>3, <2>4, <3>2, <4>1, <4>2, StockKept
    <3>3. QED
      BY <3>1, <3>2
  <2>6. LedgerInv'
    <3>1. CASE LedgerRaced
      BY <2>3, <3>1 DEF LedgerInv, LedgerRaced, Raced
    <3>2. CASE ~LedgerRaced
      <4>1. \A j \in Invoice \ {i} : Received(j)' = Received(j)
        <5>1. \A j \in Invoice \ {i}, p \in Payment : Receipt(p, j)' = Receipt(p, j)
          BY <2>4 DEF Receipt
        <5>2. QED
          BY <5>1 DEF Received
      <4>2. Received(i)' = 0
        <5>1. \A p \in Payment : payment'[p].live => payment'[p].inv # i
          BY <2>4
        <5>2. (TypeOK => \A j \in Invoice :
                  (\A p \in Payment : payment[p].live => payment[p].inv # j) => Received(j) = 0)'
          BY NoReceipts, PTL
        <5>3. QED
          BY <1>0, <2>1, <5>1, <5>2
      <4>3. StatusFine(invoice'[i])
        BY <2>2 DEF StatusFine, Final
      <4>4. \A p \in Payment : payment'[p].live => payment'[p] = payment[p]
        BY <2>4
      <4>5. \A j \in Invoice : invoice'[j].paid = Received(j)' /\ StatusFine(invoice'[j])
        BY <1>0, <2>2, <3>2, <4>1, <4>2, <4>3 DEF LedgerInv
      <4>6. QED
        BY <1>0, <3>2, <4>4, <4>5 DEF LedgerInv
    <3>3. QED
      BY <3>1, <3>2
  <2>7. QED
    BY <2>5, <2>6 DEF BooksInv
<1>12. ASSUME NEW r \in Request, IssueCommit(r) PROVE BooksInv'
  <2>1. PICK i \in Invoice : i = req[r].doc /\ invoice[i].st = "draft" /\ req[r].n = seq + 1 /\ seq \in Nat
    BY <1>0, <1>12, <1>k DEF IssueCommit, InvoiceKinds, Issuing, DocumentInv, IssueInv, TypeOK
  <2>2. /\ invoice'[i] = [invoice[i] EXCEPT !.st = "issued", !.number = seq + 1, !.total = invoice[i].lines]
        /\ \A j \in Invoice \ {i} : invoice'[j] = invoice[j]
        /\ payment' = payment /\ stock' = stock - invoice[i].lines /\ raced' = raced
    BY <1>12, <1>t, <2>1 DEF IssueCommit
  <2>3. /\ invoice'[i].st = "issued" /\ invoice'[i].number > 0 /\ invoice'[i].lines = invoice[i].lines
        /\ invoice'[i].total = invoice[i].lines /\ invoice'[i].paid = invoice[i].paid
    BY <1>t, <2>1, <2>2 DEF InvoiceRec
  <2>4. StockInv'
    <3>1. TakenOut(i) = 0 /\ TakenOut(i)' = invoice[i].lines
      BY <2>1, <2>3 DEF TakenOut, Final
    <3>2. stock' = stock + TakenOut(i) - TakenOut(i)'
      BY <1>t, <2>1, <2>2, <3>1
    <3>3. ~StockRaced => ~\E p \in Payment : payment'[p].inv = i
      BY <1>0, <2>1, <2>2 DEF StockInv
    <3>4. QED
      BY <1>0, <2>1, <2>2, <2>3, <3>2, <3>3, StockKept
  <2>5. LedgerInv'
    <3>1. ~LedgerRaced => invoice[i].paid = 0
      BY <1>0, <2>1 DEF LedgerInv, StatusFine, Final
    <3>2. ~LedgerRaced => StatusFine(invoice'[i])
      BY <1>t, <2>1, <2>3, <3>1 DEF StatusFine, PaidStatus, Final
    <3>3. QED
      BY <1>0, <2>1, <2>2, <2>3, <3>2, LedgerKept
  <2>6. QED
    BY <2>4, <2>5 DEF BooksInv
<1>13. ASSUME NEW i \in Invoice, CancelInvoice(i) PROVE BooksInv'
  <2>1. /\ invoice[i].st \in Final /\ invoice[i].paid = 0
        /\ invoice'[i].st = "cancelled" /\ invoice'[i].paid = 0
        /\ \A j \in Invoice \ {i} : invoice'[j] = invoice[j]
        /\ payment' = payment /\ raced' = raced
        /\ stock' = stock + (IF invoice[i].number > 0 THEN invoice[i].lines ELSE 0)
    BY <1>13, <1>t DEF CancelInvoice, Cancellable, ReturnedStock, InvoiceRec
  <2>2. StockInv'
    <3>1. TakenOut(i) = invoice[i].lines /\ TakenOut(i)' = 0 /\ invoice'[i].st \notin Final \cup {"none", "draft"}
      BY <2>1 DEF TakenOut, Final
    <3>2. ~StockRaced => stock' = stock + TakenOut(i) - TakenOut(i)'
      <4>1. ~StockRaced => invoice[i].number > 0
        BY <1>0, <2>1 DEF StockInv
      <4>2. QED
        BY <1>t, <2>1, <3>1, <4>1
    <3>3. QED
      BY <1>0, <2>1, <3>1, <3>2, StockKept
  <2>3. LedgerInv'
    <3>1. StatusFine(invoice'[i])
      BY <2>1 DEF StatusFine, Final
    <3>2. QED
      BY <1>0, <2>1, <3>1, LedgerKept
  <2>4. QED
    BY <2>2, <2>3 DEF BooksInv
\* A payment is recorded or reversed: the balance moves with it.
<1>14. ASSUME NEW i \in Invoice, NEW p \in Payment, NEW paid \in Nat, BalanceMoves(i, p, paid)
       PROVE  BooksInv'
  <2> USE <1>14 DEF BalanceMoves
  <2>1. /\ invoice'[i].st = PaidStatus(invoice[i].total, paid) /\ invoice'[i].paid = paid
        /\ invoice'[i].lines = invoice[i].lines /\ invoice'[i].total = invoice[i].total
        /\ invoice'[i].number = invoice[i].number /\ invoice'[i].st \in Final
    BY <1>t, PaidStatusType DEF InvoiceRec
  <2>2. StockInv'
    <3>1. ~StockRaced => TakenOut(i)' = TakenOut(i) /\ invoice[i].number > 0
      BY <1>0, <2>1 DEF TakenOut, StockInv
    <3>2. TakenOut(i) \in Nat
      BY <1>t DEF TakenOut
    <3>3. ~StockRaced => stock' = stock + TakenOut(i) - TakenOut(i)'
      BY <1>t, <3>1, <3>2
    <3>4. invoice'[i].st \notin {"none", "draft"}
      BY <2>1 DEF Final
    <3>5. QED
      BY <1>0, <2>1, <3>1, <3>3, <3>4, StockKept
  <2>3. LedgerInv'
    <3>1. CASE LedgerRaced \/ LedgerRaced'
      BY <3>1 DEF LedgerInv, LedgerRaced, Raced
    <3>2. CASE ~LedgerRaced /\ ~LedgerRaced'
      <4>1. \A j \in Invoice : Received(j) \in Nat /\ Received(j)' = Received(j) + Receipt(p, j)' - Receipt(p, j)
        BY <1>0, ReceiptsMove
      <4>2. \A j \in Invoice \ {i} : Receipt(p, j) = 0 /\ Receipt(p, j)' = 0
        BY DEF Receipt
      <4>3. \A j \in Invoice \ {i} : Received(j)' = Received(j)
        BY <4>1, <4>2
      <4>r. Receipt(p, i) = OnFile(payment[p]) /\ Receipt(p, i)' = OnFile(payment'[p])
        BY DEF Receipt, OnFile
      <4>4. Received(i)' = paid
        BY <1>0, <3>2, <4>1, <4>r DEF LedgerInv
      <4>5. StatusFine(invoice'[i])
        BY <1>0, <2>1, <3>2 DEF LedgerInv, StatusFine
      <4>6. \A j \in Invoice : invoice'[j].paid = Received(j)' /\ StatusFine(invoice'[j])
        BY <1>0, <2>1, <3>2, <4>3, <4>4, <4>5 DEF LedgerInv
      <4>7. \A q \in Payment : payment'[q].live => payment'[q].amount > 0
        BY <1>0, <3>2 DEF LedgerInv
      <4>8. QED
        BY <4>6, <4>7 DEF LedgerInv
    <3>3. QED
      BY <3>1, <3>2
  <2>4. QED
    BY <2>2, <2>3 DEF BooksInv
<1>15. ASSUME NEW p \in Payment, NEW i \in Invoice, RecordPayment(p, i) PROVE BooksInv'
  <2>1. PICK amount \in 1..Due(invoice[i].total, invoice[i].paid) :
            /\ payment' = [payment EXCEPT ![p] = [inv |-> i, amount |-> amount, live |-> TRUE]]
            /\ invoice' = [invoice EXCEPT
                  ![i].paid = invoice[i].paid + amount,
                  ![i].st = PaidStatus(invoice[i].total, invoice[i].paid + amount)]
    BY <1>15 DEF RecordPayment
  <2>2. amount \in Nat /\ amount > 0 /\ invoice[i].paid + amount <= invoice[i].total
    BY <1>t, <2>1, DueType DEF Due
  <2>p. PICK paid \in Nat : paid = invoice[i].paid + amount
    BY <1>t, <2>2
  <2>3. /\ payment[p].inv = NoInvoice /\ invoice[i].st \in Final
        /\ stock' = stock /\ raced' = raced
    BY <1>15 DEF RecordPayment, TakesPayment
  <2>4. /\ invoice'[i] = [invoice[i] EXCEPT !.paid = paid, !.st = PaidStatus(invoice[i].total, paid)]
        /\ \A j \in Invoice \ {i} : invoice'[j] = invoice[j]
        /\ \A q \in Payment \ {p} : payment'[q] = payment[q]
        /\ payment'[p] = [inv |-> i, amount |-> amount, live |-> TRUE]
    BY <1>t, <2>1, <2>p
  <2>5. OnFile(payment[p]) = 0 /\ OnFile(payment'[p]) = amount /\ ~payment[p].live
    BY <1>k, <2>3, <2>4 DEF OnFile
  <2>6. paid = invoice[i].paid + OnFile(payment'[p]) - OnFile(payment[p])
    BY <1>t, <2>2, <2>5, <2>p
  <2>7. payment'[p].inv = i /\ payment'[p].amount = amount
    BY <2>4
  <2>b. BalanceMoves(i, p, paid)
    BY <2>2, <2>3, <2>4, <2>5, <2>6, <2>7, <2>p DEF BalanceMoves
  <2>8. QED
    BY <1>14, <2>b
<1>16. ASSUME NEW r \in Request, ReverseWrite(r) PROVE BooksInv'
  <2>p. PICK p \in Payment, i \in Invoice :
            p = req[r].doc /\ i = payment[p].inv /\ req[r].op = "reverse"
    BY <1>16, <1>k DEF ReverseWrite
  <2>q. PICK paid \in Nat : paid = Due(invoice[i].paid, payment[p].amount)
    BY <1>t, DueType
  <2>1. /\ Reversible(i)
        /\ payment' = [payment EXCEPT ![p].live = FALSE]
        /\ invoice' = [invoice EXCEPT ![i].paid = paid, ![i].st = PaidStatus(invoice[i].total, paid)]
        /\ stock' = stock /\ raced' = IF payment[p].live THEN raced ELSE raced \cup {"reverse"}
    BY <1>16, <2>p, <2>q DEF ReverseWrite, Write
  <2>2. /\ \A q \in Payment \ {p} : payment'[q] = payment[q]
        /\ ~payment'[p].live /\ payment'[p].inv = i
    BY <1>t, <2>1, <2>p DEF PaymentRec
  <2>3. /\ invoice'[i] = [invoice[i] EXCEPT !.paid = paid, !.st = PaidStatus(invoice[i].total, paid)]
        /\ \A j \in Invoice \ {i} : invoice'[j] = invoice[j]
    BY <1>t, <2>1
  <2>4. ~LedgerRaced /\ ~LedgerRaced' =>
            /\ invoice[i].st \in Final /\ paid <= invoice[i].total
            /\ paid = invoice[i].paid + OnFile(payment'[p]) - OnFile(payment[p])
    <3> SUFFICES ASSUME ~LedgerRaced, ~LedgerRaced'
                 PROVE  /\ invoice[i].st \in Final /\ paid <= invoice[i].total
                        /\ paid = invoice[i].paid + OnFile(payment'[p]) - OnFile(payment[p])
      OBVIOUS
    <3>1. payment[p].live /\ payment[p].amount > 0
      BY <1>0, <2>1 DEF LedgerInv, LedgerRaced, Raced
    <3>2. /\ Receipt(p, i) = payment[p].amount
          /\ OnFile(payment[p]) = payment[p].amount /\ OnFile(payment'[p]) = 0
      BY <2>2, <2>p, <3>1 DEF Receipt, OnFile
    <3>3. Receipt(p, i) <= Received(i) /\ Received(i) = invoice[i].paid /\ StatusFine(invoice[i])
      BY <1>0, <2>1, <2>2, ReceiptsMove DEF LedgerInv
    <3>4. invoice[i].paid > 0
      BY <1>t, <2>1, <3>1, <3>2, <3>3
    <3>5. invoice[i].st \in Final /\ invoice[i].paid <= invoice[i].total
      BY <1>t, <2>1, <3>3, <3>4 DEF StatusFine
    <3>6. paid = invoice[i].paid - payment[p].amount
      BY <1>t, <2>q, <3>2, <3>3 DEF Due
    <3>7. QED
      BY <1>t, <2>1, <3>1, <3>2, <3>3, <3>5, <3>6
  <2>5. ~StockRaced => invoice[i].st \in Final
    <3>1. ~StockRaced => invoice[i].st \notin {"none", "draft"}
      BY <1>0, <2>p DEF StockInv
    <3>2. QED
      BY <1>t, <2>1, <3>1 DEF Reversible, Exists, Final, InvoiceRec, InvoiceStatus
  <2>b. BalanceMoves(i, p, paid)
    BY <2>1, <2>2, <2>3, <2>4, <2>5, <2>p DEF BalanceMoves
  <2>6. QED
    BY <1>14, <2>b
<1>17. QED
  BY <1>3, <1>4, <1>5, <1>7, <1>8, <1>9, <1>10, <1>11, <1>12, <1>13, <1>15, <1>16 DEF Next

\* The books agree for any number of invoices, payments and requests: what an
\* invoice says was paid is the sum of its payments on file, and the stock is
\* what the issued invoices took out, unless an edit of a copy raced.
THEOREM BooksHold == Spec => []BooksAgree
<1>1. Init => BooksInv
  <2> SUFFICES ASSUME Init PROVE BooksInv
    OBVIOUS
  <2>1. TypeOK
    BY TypeInit DEF TypeInv
  <2>2. /\ \A p \in Payment : ~payment[p].live /\ payment[p].inv = NoInvoice
        /\ \A i \in Invoice : invoice[i].st = "none" /\ invoice[i].paid = 0
        /\ stock = 0
    BY DEF Init, BlankInvoice
  <2>3. LedgerInv
    <3>1. \A i \in Invoice : Received(i) = 0
      BY <2>1, <2>2, NoReceipts
    <3>2. QED
      BY <2>2, <3>1 DEF LedgerInv, StatusFine, Final
  <2>4. StockInv
    <3> DEFINE f == [i \in Invoice |-> TakenOut(i)]
    <3>1. DOMAIN f = Invoice /\ \A i \in Invoice : f[i] = 0
      BY <2>2 DEF TakenOut, Final
    <3> HIDE DEF f
    <3>2. SumFunction(f) = 0
      BY <3>1, SumZero DEF SumFunction
    <3>3. SumFunction([i \in Invoice |-> TakenOut(i)]) = 0
      BY <3>2 DEF f
    <3>4. \A n, m \in Int : n + m = 0 => m = -n
      OBVIOUS
    <3>5. stock = - SumFunction([i \in Invoice |-> TakenOut(i)])
      <4> DEFINE s == SumFunction([i \in Invoice |-> TakenOut(i)])
      <4>1. s \in Int /\ stock \in Int /\ s + stock = 0
        BY <2>2, <3>3
      <4> HIDE DEF s
      <4>2. stock = -s
        BY <3>4, <4>1, Zenon
      <4>3. QED
        BY <4>2 DEF s
    <3>6. QED
      BY <2>2, <3>5 DEF StockInv, Final
  <2>5. QED
    BY <2>3, <2>4 DEF BooksInv
<1>2. DocumentInv /\ DocumentInv' /\ BooksInv /\ [Next]_vars => BooksInv'
  <2>1. CASE Next
    BY <2>1, BooksStep
  <2>2. CASE UNCHANGED vars
    BY <2>2, BooksUntouched DEF vars
  <2>3. QED
    BY <2>1, <2>2
<1>3. BooksInv => BooksAgree
  BY BooksMean DEF BooksInv
<1>4. QED
  BY <1>1, <1>2, <1>3, DocumentsInvariant, PTL DEF Spec

-----------------------------------------------------------------------------
(* Rounding half up of n / d, for the two divisors the tax uses.           *)

\* The whole tax against the centre's half, for any product n of a taxable
\* value and a rate: twice the half is at most one paisa off the whole.
LEMMA HalvesOfTheTax ==
    ASSUME NEW n \in Nat
    PROVE  /\ HalfUp(n, 20000) \in Nat
           /\ HalfUp(n, 20000) <= HalfUp(n, 10000)
           /\ 2 * HalfUp(n, 20000) - HalfUp(n, 10000) \in {-1, 0, 1}
BY SMT DEF HalfUp

\* "cgst+sgst always equals the full tax even when rate/2 doesn't divide
\* cleanly" (split_gst): the two parts of an intra-state line add up to the tax
\* of the same line sold inter-state, neither is negative, and they differ by
\* at most one paisa.
THEOREM SplitIsFair ==
    ASSUME NEW taxable \in Nat, NEW rate \in Nat
    PROVE  /\ Cgst(taxable, rate) + Sgst(taxable, rate) = Igst(taxable, rate)
           /\ Cgst(taxable, rate) >= 0 /\ Sgst(taxable, rate) >= 0
           /\ Cgst(taxable, rate) - Sgst(taxable, rate) \in {-1, 0, 1}
<1> DEFINE n == taxable * rate
<1>1. n \in Nat
  OBVIOUS
<1> HIDE DEF n
<1>2. HalfUp(n, 10000) \in Int
  BY <1>1 DEF HalfUp
<1>3. QED
  BY <1>1, <1>2, HalvesOfTheTax DEF Cgst, Sgst, Igst, n

\* "an invoice must foot exactly" (gst.py): the total is whole rupees, and the
\* round-off that makes it so is between -49 and 50 paise.
THEOREM InvoiceFoots ==
    ASSUME NEW exact \in Nat
    PROVE  /\ Rounded(exact) % 100 = 0
           /\ exact + RoundOff(exact) = Rounded(exact)
           /\ RoundOff(exact) \in -49..50
BY SMT DEF Rounded, RoundOff, HalfUp
=============================================================================
