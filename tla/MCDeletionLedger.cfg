CONSTANTS
    Users = {u1, u2}
    Handlers = {h1}
    MaxGen = 2
    Budgets <- Troubles
SPECIFICATION FairSpec
INVARIANTS ErasedStaysErased PublishedIsKept
PROPERTIES OnlyErasedVanish EveryErasurePublished
CHECK_DEADLOCK FALSE
