--------------------------------- MODULE Gst ---------------------------------
(***************************************************************************)
(* The GST arithmetic of src/apps/erp/gst.py in whole paise: taxable       *)
(* values are paise, rates and discounts hundredths of a percent,          *)
(* quantities hundredths of a unit.  Decimal arithmetic before quantize is *)
(* exact, so each operator rounds once, where the code calls quantize.     *)
(***************************************************************************)
EXTENDS Integers

\* n / d rounded half up (ROUND_HALF_UP), n not negative.
HalfUp(n, d) == (2 * n + d) \div (2 * d)

\* line_taxable_value: the value of a line after its discount.
TaxableValue(quantity, price, discount) ==
    HalfUp(quantity * price * (10000 - discount), 1000000)

\* split_gst of an inter-state line.
Igst(taxable, rate) == HalfUp(taxable * rate, 10000)
\* split_gst of an intra-state line: half the rate to the centre, the rest of
\* the whole tax to the state.
Cgst(taxable, rate) == HalfUp(taxable * rate, 20000)
Sgst(taxable, rate) == HalfUp(taxable * rate, 10000) - Cgst(taxable, rate)

\* round_off: the total in whole rupees and the difference.
Rounded(exact) == 100 * HalfUp(exact, 100)
RoundOff(exact) == Rounded(exact) - exact
=============================================================================
