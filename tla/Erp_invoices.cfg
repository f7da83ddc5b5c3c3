SPECIFICATION Spec
CONSTANTS
    Request = {r1, r2}
    Quote = {}
    Order = {}
    Invoice = {i1, i2}
    Payment = {p1, p2}
    NoQuote = NoQuote
    NoOrder = NoOrder
    NoInvoice = NoInvoice
    NoDoc = NoDoc
    Kind = {"line", "patch", "delete", "reverse"}
    MaxLines = 2
    MaxNumber = 2
CONSTRAINT FewRaces
SYMMETRY Symmetry
INVARIANTS TypeOK GaplessNumbers NoNumberClash BooksAgree
PROPERTIES IssuedIsLegal
CHECK_DEADLOCK FALSE
