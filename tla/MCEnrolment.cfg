\* A student, another who claims the same number, and logins by a provider.
CONSTANTS
    Students = {s1, s2}
    Schools = {u1, u2}
    Numbers = {n1}
    ProcessingGrants = {g1, g2}
    Checks = {c1, c2}
    Consents = {k1, k2}
    Attempts = {a1, a2}
    Objects = {o1, o2}
    Budgets <- Troubles
    r1 = r1
    ms = ms
    google = google
SPECIFICATION AllSpec
CONSTRAINT GrantOrRecovery
SYMMETRY Symmetry
INVARIANTS EffectiveIsEntitled OneStudentPerIdentifier ReportsAgree UnlinkIsFinal SessionProven LoginRemains
PROPERTIES DenialStands
CHECK_DEADLOCK FALSE
