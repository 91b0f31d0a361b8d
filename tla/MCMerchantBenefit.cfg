\* Two checkouts, two codes, two payments, one unit; one catalogue edit or one new check.
CONSTANTS
    Checkouts = {k1, k2}
    Codes = {c1, c2}
    Legacy = {}
    Keys = {i1, i2}
    Refs = {r1, r2}
    Quotes <- Prices
    SessionTTL = 2
    CodeTTL = 1
    Retention = 1
    Skew = 0
    MaxStock = 1
    MaxEvidence = 2
    MaxEdits = 1
SPECIFICATION Spec
CONSTRAINT OneChange
SYMMETRY Symmetry
INVARIANTS StockConserved SavingsMatch OneRedemption OneReceipt PaymentSettlesOnce QuoteHonoured
PROPERTIES SettledUnderClaim
CHECK_DEADLOCK FALSE
