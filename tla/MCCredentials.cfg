\* Two requests in flight: passwords, closure and recovery race; codes are enrolled under grants.
SPECIFICATION Spec
CONSTANTS
  Requests = {r1, r2}
  Identities = {ms}
  Microsoft = {ms}
  NoIdentity = none
  MaxGeneration = 2
  MaxSessions = 2
  MaxMails = 2
  MaxCodes = 2
  MaxGrants = 2
  MaxRecoveries = 2
  MaxLogins = 0
  MaxTime = 2
SYMMETRY Symmetric
CONSTRAINT Bounded
CHECK_DEADLOCK FALSE
INVARIANTS SessionProven ClosedSignedOut OneRecoveryPerCode
PROPERTIES NoBlindOverwrite ReenrolledByPassword
