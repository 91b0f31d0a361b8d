--------------------------- MODULE MCEnrolmentProofs ---------------------------
(* Theorems about the logins of MCEnrolment: those of Credentials hold of its *)
(* instance, whether it is busy or at rest.                                   *)
EXTENDS MCEnrolment, TLAPS

\* The theorems about the instance Login, and its operators under a second name.
P == INSTANCE CredentialsProofs WITH
    Requests <- {r1}, Identities <- {ms, google}, Microsoft <- {ms}, NoIdentity <- None,
    MaxGeneration <- 1, MaxSessions <- 2, MaxMails <- 0, MaxCodes <- 1, MaxGrants <- 1,
    MaxRecoveries <- 1, MaxLogins <- 1, MaxTime <- 2

LEMMA Constants == P!CredentialsAssumption
BY LoginAssumption DEF P!CredentialsAssumption

\* Both names stand for the same steps,
LEMMA SameNext == Login!Next <=> P!Next
BY DEF Login!Codes, P!Codes, Login!Grants, P!Grants, Login!Recoveries, P!Recoveries,
       Login!Logins, P!Logins, Login!NoSession, P!NoSession, Login!NoPassword,
       P!NoPassword, Login!NoProof, P!NoProof, Login!SignedOut, P!SignedOut,
       Login!Logout, P!Logout, Login!AcceptedLegacy, P!AcceptedLegacy, Login!SignedIn,
       P!SignedIn, Login!Close, P!Close, Login!Restore, P!Restore, Login!IsNext,
       P!IsNext, Login!LoginStart, P!LoginStart, Login!LoginCallback, P!LoginCallback,
       Login!Issue, P!Issue, Login!Restarted, P!Restarted, Login!Fenced, P!Fenced,
       Login!Overtaken, P!Overtaken, Login!LoginFinish, P!LoginFinish, Login!Active,
       P!Active, Login!ActiveGeneration, P!ActiveGeneration, Login!Grant, P!Grant,
       Login!ReauthFinish, P!ReauthFinish, Login!Cancel, P!Cancel, Login!RecoveryStart,
       P!RecoveryStart, Login!Pinned, P!Pinned, Login!RecoveryVerify, P!RecoveryVerify,
       Login!Tick, P!Tick, Login!Aims, P!Aims, Login!Idle, P!Idle, Login!LoginRead,
       P!LoginRead, Login!LoginIssue, P!LoginIssue, Login!ForgotRead, P!ForgotRead,
       Login!ForgotWrite, P!ForgotWrite, Login!ResetRead, P!ResetRead, Login!Dropped,
       P!Dropped, Login!NewPassword, P!NewPassword, Login!ResetWrite, P!ResetWrite,
       Login!UpdateRead, P!UpdateRead, Login!UpdateWrite, P!UpdateWrite,
       Login!GrantRead, P!GrantRead, Login!GrantIssue, P!GrantIssue, Login!RecoverRead,
       P!RecoverRead, Login!Spent, P!Spent, Login!Recover, P!Recover,
       Login!RecoverWrite, P!RecoverWrite, Login!RequestStep, P!RequestStep,
       Login!Consumable, P!Consumable, Login!Consume, P!Consume, Login!Link, P!Link,
       Login!Removable, P!Removable, Login!Unlink, P!Unlink, Login!NoCode, P!NoCode,
       Login!EnrolsBy, P!EnrolsBy, Login!Generate, P!Generate, Login!Bound, P!Bound,
       Login!Activate, P!Activate, Login!Remove, P!Remove, Login!GrantStep, P!GrantStep,
       Login!Next, P!Next

\* and for the same initial states.
LEMMA SameInit == Login!Init <=> P!Init
BY DEF Login!Init, P!Init, Login!NoPassword, P!NoPassword, Login!NoSession, P!NoSession,
       Login!Legacy, P!Legacy, Login!NoProof, P!NoProof, Login!NoCode, P!NoCode,
       Login!Codes, P!Codes, Login!Grants, P!Grants, Login!NoGrant, P!NoGrant,
       Login!Recoveries, P!Recoveries, Login!NoRecovery, P!NoRecovery,
       Login!Logins, P!Logins, Login!NoLogin, P!NoLogin, Login!Idle, P!Idle

LEMMA OneRow == ASSUME NEW S, NEW x \in S PROVE <<x>> \in [1..1 -> S]
OBVIOUS

\* The account at rest is closed, signed out and has its password.
LEMMA IdleAccount == LoginIdle => P!TypeOK /\ P!Account
<1> SUFFICES ASSUME LoginIdle PROVE P!TypeOK /\ P!Account
  OBVIOUS
<1>1. user \in P!UserType
  BY DEF LoginIdle, P!UserType
<1>2. session = [sid |-> 0, refresh |-> 0, identity |-> None, issued |-> 0,
                 proof |-> [hash |-> 0, identity |-> None, began |-> 0]]
  BY DEF LoginIdle, Login!SignedOut, Login!NoSession, Login!NoProof, Login!NoPassword
<1>3. session \in P!SessionType
  BY <1>2 DEF P!SessionType, P!Proofs, P!Proof
<1>4. codes \in [P!Codes -> P!CodeType] /\ grants \in [P!Grants -> P!GrantType]
  <2>1. codes = <<Login!NoCode>> /\ grants = <<Login!NoGrant>>
    BY DEF LoginIdle
  <2>2. Login!NoCode \in P!CodeType
    BY DEF Login!NoCode, P!CodeType, P!Proofs
  <2>3. Login!NoGrant \in P!GrantType
    BY DEF Login!NoGrant, P!GrantType, P!Proofs, P!Purposes
  <2> QED BY <2>1, <2>2, <2>3, OneRow DEF P!Codes, P!Grants
<1>5. recoveries \in [P!Recoveries -> P!RecoveryType] /\ logins \in [P!Logins -> P!LoginType]
  <2>1. recoveries = <<Login!NoRecovery>> /\ logins = <<Login!NoLogin>>
    BY DEF LoginIdle
  <2>2. Login!NoRecovery \in P!RecoveryType
    BY DEF Login!NoRecovery, P!RecoveryType
  <2>3. Login!NoLogin \in P!LoginType
    BY DEF Login!NoLogin, P!LoginType
  <2> QED BY <2>1, <2>2, <2>3, OneRow DEF P!Recoveries, P!Logins
<1>6. requests \in [{r1} -> P!RequestType] /\ \A r \in {r1} : requests[r].kind = "idle"
  BY DEF LoginIdle, Login!Idle, P!RequestType, P!Purposes, P!Proofs
<1>7. now \in Nat \ {0} /\ history \in P!HistoryType /\ linked \subseteq {ms, google}
  BY DEF LoginIdle, P!HistoryType
<1>8. P!TypeOK
  <2>1. session.refresh \in {P!NoSession, IF session.sid = P!NoSession THEN P!Legacy ELSE session.sid}
    BY <1>2 DEF P!NoSession
  <2>2. \A r \in {r1} : /\ requests[r].kind = "grant" => requests[r].row \in 0..1
                        /\ requests[r].kind = "recover" => requests[r].row \in P!Recoveries
    BY <1>6
  <2> QED BY <1>1, <1>3, <1>4, <1>5, <1>6, <1>7, <2>1, <2>2 DEF P!TypeOK
<1>9. P!Account
  <2>1. history.eras = 0 /\ user.hash = 1
    BY DEF LoginIdle
  <2> QED BY <1>2, <2>1 DEF P!Account, P!Retired, P!ClosedOut, P!NamesIdentity, P!SessionProven,
                           P!LoginRemains, P!NoSession, P!NoPassword
<1> QED BY <1>8, <1>9

\* Whoever is busy, the account is one that Credentials can reach or rest at.
THEOREM LoginsHold == AllSpec => [](P!TypeOK /\ P!Account)
<1>1. AllInit => P!TypeOK /\ P!Account
  BY Constants, SameInit, IdleAccount, P!InitTyped, P!InitAccount DEF AllInit
<1>2. P!TypeOK /\ P!Account /\ [AllNext]_allVars => (P!TypeOK /\ P!Account)'
  <2>1. [AllNext]_allVars => [P!Next]_P!vars
    BY SameNext DEF AllNext, allVars, loginVars, P!vars
  <2> QED BY <2>1, Constants, P!NextTyped, P!NextAccount
<1> QED BY <1>1, <1>2, PTL DEF AllSpec

\* The session that works was opened with the password now stored, or through an
\* identity still linked by an attempt begun after the last recovery or closure.
THEOREM SessionProvenHolds == AllSpec => []SessionProven
<1>1. P!Account => SessionProven
  BY DEF P!Account, P!SessionProven, SessionProven, Login!SessionProven, P!NoSession, Login!NoSession
<1> QED BY <1>1, LoginsHold, PTL

\* However identities are unlinked or revoked, the owner keeps a way to log in.
THEOREM LoginRemainsHolds == AllSpec => []LoginRemains
<1>1. P!Account => LoginRemains
  BY DEF P!Account, P!LoginRemains, LoginRemains, Login!LoginRemains, P!NoPassword, Login!NoPassword
<1> QED BY <1>1, LoginsHold, PTL
===============================================================================
