\* Two students, one product: repeat checkouts of one deal and a race for the last unit.
CONSTANTS
    Students = {s1, s2}
    Products = {p1}
    Handlers = {h1, h2}
    Txs = {t1, t2}
    Quotes <- TwoQuotes
    MaxStock = 1
    EligibilityTerm = 1
    MaxNow = 2
    MaxEdits = 1
    MaxCrashes = 1
SPECIFICATION Spec
SYMMETRY Symmetry
CONSTRAINT OneTrouble
INVARIANTS OneLiveCharge StockConserved SavingsMatch MoneyAccounted
PROPERTIES CompletionEligible ImplementsLedger
CHECK_DEADLOCK FALSE
