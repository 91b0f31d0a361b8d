CONSTANTS
    Users = {u1, u2}
    Handlers = {h1}
    MaxGen = 2
    Budgets <- LossAndFailure
SPECIFICATION Spec
INVARIANTS RebuiltIsWhole
CHECK_DEADLOCK FALSE
