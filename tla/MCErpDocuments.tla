--------------------------- MODULE MCErpDocuments ---------------------------
(* ErpDocuments for TLC: every set of rows and the requests are symmetric.  *)
(* The GST arithmetic is evaluated here against its definition.             *)
EXTENDS ErpDocuments, Gst, TLC

Symmetry == Permutations(Request) \cup Permutations(Order)
            \cup Permutations(Invoice) \cup Permutations(Payment)

\* Bound: an execution stops after its first kind of racing write.
FewRaces == Cardinality(raced) <= 1

\* HalfUp is the nearest whole number, the higher of two equally near.
ASSUME RoundsHalfUp ==
    \A n \in 0..300, d \in 1..20 :
        \E k \in {HalfUp(n, d)} : 2 * d * k - d <= 2 * n /\ 2 * n < 2 * d * k + d

\* A line of the catalogue's slabs: the tax of the halves is the tax of the
\* whole, and a discount never raises the value.
ASSUME SlabsSplit ==
    \A taxable \in 0..200, rate \in {0, 500, 1200, 1800, 2800} :
        /\ Cgst(taxable, rate) + Sgst(taxable, rate) = Igst(taxable, rate)
        /\ Igst(taxable, rate) <= taxable
ASSUME DiscountLowers ==
    \A quantity \in {0, 50, 100, 333}, price \in {0, 1, 99, 101}, discount \in {0, 1250, 9999, 10000} :
        TaxableValue(quantity, price, discount) <= TaxableValue(quantity, price, 0)
=============================================================================
