CONSTANTS
    Tabs = {t1, t2}
    Schools = {s1, s2}
    Fields = {programme, entryYear}
    Values = {v}
    MaxGen = 2
    Budgets <- MadeAgain
SPECIFICATION Spec
SYMMETRY Symmetry
INVARIANTS ObsoleteNeverPersists
CHECK_DEADLOCK FALSE
