CONSTANTS
    Tabs = {t1, t2}
    Schools = {s1, s2}
    Fields = {programme, entryYear}
    Values = {v}
    MaxGen = 2
    Budgets <- Troubles
SPECIFICATION Spec
SYMMETRY Symmetry
INVARIANTS AnswersFitSchool
PROPERTIES ShownIsSaved NoBlindSave ReadersClearOnce
CHECK_DEADLOCK FALSE
