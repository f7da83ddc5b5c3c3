SPECIFICATION Spec
CONSTANTS
    Request = {r1, r2}
    Quote = {}
    Order = {}
    Invoice = {i1}
    Payment = {}
    NoQuote = NoQuote
    NoOrder = NoOrder
    NoInvoice = NoInvoice
    NoDoc = NoDoc
    Kind = {"line", "patch"}
    MaxLines = 2
    MaxNumber = 2
PROPERTY NumberIsKept
CHECK_DEADLOCK FALSE
