\* The host of the cleanup job is two ticks ahead of the database, less than a code lives.
CONSTANTS
    Checkouts = {k1}
    Codes = {c1}
    Legacy = {}
    Keys = {i1}
    Refs = {r1}
    Quotes <- OnePrice
    SessionTTL = 1
    CodeTTL = 3
    Retention = 5
    Skew = 2
    MaxStock = 1
    MaxEvidence = 1
    MaxEdits = 0
SPECIFICATION Spec
INVARIANTS ReservationUsedOnce
CHECK_DEADLOCK FALSE
