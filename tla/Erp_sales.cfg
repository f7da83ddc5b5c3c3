SPECIFICATION Spec
CONSTANTS
    Request = {r1, r2}
    Quote = {q1}
    Order = {o1, o2}
    Invoice = {i1, i2}
    Payment = {}
    NoQuote = NoQuote
    NoOrder = NoOrder
    NoInvoice = NoInvoice
    NoDoc = NoDoc
    Kind = {"quoteLine", "quotePatch", "quoteStatus", "quoteDelete", "convert",
            "raise", "patch", "delete"}
    MaxLines = 2
    MaxNumber = 1
CONSTRAINT FewRaces
SYMMETRY Symmetry
INVARIANTS ChainAgrees
CHECK_DEADLOCK FALSE
