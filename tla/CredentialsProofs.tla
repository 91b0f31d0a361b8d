--------------------------- MODULE CredentialsProofs ---------------------------
(* Theorems about Credentials, for every value of its constants. *)
EXTENDS Credentials, TLAPS

-----------------------------------------------------------------------------
(***************************************************************************)
(* Types.                                                                  *)
(***************************************************************************)
LEMMA ActiveTyped == ASSUME TypeOK PROVE ActiveGeneration \in 0..MaxCodes /\ Active \subseteq Codes
<1>1. Active \subseteq Codes
  BY DEF Active
<1>2. CASE Active = {}
  BY <1>1, <1>2, CredentialsAssumption DEF ActiveGeneration
<1>3. CASE Active # {}
  <2>1. ActiveGeneration \in Active
    BY <1>3 DEF ActiveGeneration
  <2> QED BY <2>1, <1>1, CredentialsAssumption DEF Codes
<1> QED BY <1>2, <1>3, <1>1

\* The rows requests name.
NamesRow(q) == /\ q.kind = "grant" => q.row \in 0..MaxCodes
               /\ q.kind = "recover" => q.row \in Recoveries

\* What a refresh credential may be beside the session it belongs to.
Belongs(s) == s.refresh \in {NoSession, IF s.sid = NoSession THEN Legacy ELSE s.sid}

LEMMA SignedOutTyped ==
    ASSUME TypeOK
    PROVE  /\ SignedOut \in SessionType /\ Belongs(SignedOut)
           /\ Dropped \in SessionType /\ Belongs(Dropped)
           /\ [SignedOut EXCEPT !.issued = session.issued] \in SessionType
           /\ Belongs([SignedOut EXCEPT !.issued = session.issued])
BY DEF TypeOK, SignedOut, Dropped, SessionType, Belongs, NoSession, Proofs, NoProof, Proof, NoPassword

LEMMA IssueTyped ==
    ASSUME TypeOK, NEW i \in Proofs, NEW p \in Proof, Issue(i, p)
    PROVE  session' \in SessionType /\ Belongs(session') /\ history' \in HistoryType
<1>1. history.sessions \in Nat /\ now \in Nat
  BY DEF TypeOK, HistoryType
<1>2. history' = [history EXCEPT !.sessions = @ + 1]
  BY DEF Issue
<1>3. history' \in HistoryType /\ history'.sessions = history.sessions + 1
  BY <1>1, <1>2 DEF TypeOK, HistoryType
<1>4. session' = [sid |-> history'.sessions, refresh |-> history'.sessions,
                  identity |-> i, issued |-> now, proof |-> p]
  BY DEF Issue
<1> QED BY <1>1, <1>3, <1>4 DEF SessionType, Belongs

LEMMA ProofTyped ==
    /\ \A h \in Nat : [NoProof EXCEPT !.hash = h] \in Proof
    /\ \A i \in Identities, t \in Nat : [NoProof EXCEPT !.identity = i, !.began = t] \in Proof
    /\ NoIdentity \in Proofs /\ Identities \subseteq Proofs
BY DEF NoProof, Proof, Proofs, NoPassword

LEMMA IdleTyped == Idle \in RequestType
BY DEF Idle, RequestType, Purposes, Proofs

LEMMA NewPasswordTyped ==
    ASSUME TypeOK, NEW n \in Nat, NewPassword(n)
    PROVE  /\ history' \in HistoryType /\ history'.hashes \in Nat \ {0}
           /\ user.generation + 1 \in 0..MaxGeneration
<1>1. /\ history.hashes \in Nat /\ history.eras \in Nat /\ user.generation \in 0..MaxGeneration
      /\ history \in HistoryType
  BY DEF TypeOK, HistoryType, UserType
<1>2. /\ history' = [history EXCEPT !.hashes = @ + 1, !.eras = @ + n]
      /\ user.generation < MaxGeneration
  BY DEF NewPassword
<1>3. history' \in HistoryType /\ history'.hashes = history.hashes + 1
  <2>1. history.hashes + 1 \in Nat /\ history.eras + n \in Nat
    BY <1>1
  <2>2. ASSUME NEW x \in Nat, NEW y \in Nat
        PROVE  [history EXCEPT !.hashes = x, !.eras = y] \in HistoryType
    BY <1>1 DEF HistoryType
  <2>3. history' \in HistoryType
    BY <2>1, <2>2, <1>2
  <2>4. history'.hashes = history.hashes + 1
    BY <1>1, <1>2 DEF HistoryType
  <2> QED BY <2>3, <2>4
<1>4. user.generation + 1 \in 0..MaxGeneration
  BY <1>1, <1>2, CredentialsAssumption
<1> QED BY <1>1, <1>3, <1>4

LEMMA AimTyped ==
    ASSUME NEW aim \in Aims
    PROVE  aim.purpose \in Purposes /\ aim.target \in Proofs /\ aim.row \in 0..MaxCodes
BY CredentialsAssumption DEF Aims, Purposes, Proofs, Codes

LEMMA RequestReadTyped ==
    ASSUME TypeOK, NEW r \in Requests,
           \/ LoginRead(r) \/ ForgotRead(r) \/ ResetRead(r) \/ UpdateRead(r)
           \/ \E aim \in Aims : GrantRead(r, aim.purpose, aim.target, aim.row)
           \/ \E a \in Recoveries : RecoverRead(r, a)
    PROVE  TypeOK'
<1> DEFINE others == <<user, session, linked, codes, grants, recoveries, logins, now, history>>
<1> DEFINE Reads(f) == requests' = [requests EXCEPT ![r] = f] /\ f \in RequestType /\ NamesRow(f)
<1>0. ASSUME NEW f, Reads(f), UNCHANGED others PROVE TypeOK'
  <2>1. requests' \in [Requests -> RequestType]
    BY <1>0 DEF TypeOK
  <2>2. ASSUME NEW q \in Requests PROVE NamesRow(requests'[q])
    BY <1>0 DEF TypeOK, NamesRow
  <2> QED BY <1>0, <2>1, <2>2 DEF TypeOK, NamesRow
<1>1. /\ user.hash \in Nat /\ user.generation \in Nat /\ user.otp \in Nat
      /\ session.sid \in Nat /\ history.eras \in Nat
  BY CredentialsAssumption DEF TypeOK, UserType, SessionType, HistoryType
<1>3. CASE LoginRead(r)
  <2> DEFINE f == [Idle EXCEPT !.kind = "login", !.hash = user.hash]
  <2>1. f \in RequestType /\ NamesRow(f)
    BY <1>1 DEF Idle, RequestType, Purposes, Proofs, NamesRow
  <2>2. requests' = [requests EXCEPT ![r] = f] /\ UNCHANGED others
    BY <1>3 DEF LoginRead
  <2> QED BY <1>0, <2>1, <2>2
<1>4. CASE ForgotRead(r)
  <2> DEFINE f == [Idle EXCEPT !.kind = "forgot"]
  <2>1. f \in RequestType /\ NamesRow(f)
    BY <1>1 DEF Idle, RequestType, Purposes, Proofs, NamesRow
  <2>2. requests' = [requests EXCEPT ![r] = f] /\ UNCHANGED others
    BY <1>4 DEF ForgotRead
  <2> QED BY <1>0, <2>1, <2>2
<1>5. CASE ResetRead(r)
  <2> DEFINE f == [Idle EXCEPT !.kind = "reset", !.otp = user.otp, !.generation = user.generation,
                           !.hash = user.hash, !.era = history.eras]
  <2>1. f \in RequestType /\ NamesRow(f)
    BY <1>1 DEF Idle, RequestType, Purposes, Proofs, NamesRow
  <2>2. requests' = [requests EXCEPT ![r] = f] /\ UNCHANGED others
    BY <1>5 DEF ResetRead
  <2> QED BY <1>0, <2>1, <2>2
<1>6. CASE UpdateRead(r)
  <2> DEFINE f == [Idle EXCEPT !.kind = "update", !.hash = user.hash, !.generation = user.generation,
                           !.era = history.eras]
  <2>1. f \in RequestType /\ NamesRow(f)
    BY <1>1 DEF Idle, RequestType, Purposes, Proofs, NamesRow
  <2>2. requests' = [requests EXCEPT ![r] = f] /\ UNCHANGED others
    BY <1>6 DEF UpdateRead
  <2> QED BY <1>0, <2>1, <2>2
<1>7. CASE \E aim \in Aims : GrantRead(r, aim.purpose, aim.target, aim.row)
  <2>1. PICK aim \in Aims : GrantRead(r, aim.purpose, aim.target, aim.row)
    BY <1>7
  <2> DEFINE f == [Idle EXCEPT !.kind = "grant", !.hash = user.hash, !.sid = session.sid,
                               !.purpose = aim.purpose, !.target = aim.target, !.row = aim.row]
  <2>2. f \in RequestType /\ NamesRow(f)
    <3>1. aim.purpose \in Purposes /\ aim.target \in Proofs /\ aim.row \in 0..MaxCodes
      BY AimTyped
    <3>2. ASSUME NEW p \in Purposes, NEW x \in Proofs, NEW n \in 0..MaxCodes
          PROVE  LET q == [Idle EXCEPT !.kind = "grant", !.hash = user.hash, !.sid = session.sid,
                                       !.purpose = p, !.target = x, !.row = n]
                 IN  q \in RequestType /\ NamesRow(q)
      <4>1. n \in Nat
        BY CredentialsAssumption
      <4> QED BY <1>1, <4>1 DEF Idle, RequestType, NamesRow
    <3> QED BY <3>1, <3>2
  <2>3. requests' = [requests EXCEPT ![r] = f] /\ UNCHANGED others
    BY <2>1 DEF GrantRead
  <2> QED BY <1>0, <2>2, <2>3
<1>8. CASE \E a \in Recoveries : RecoverRead(r, a)
  <2>1. PICK a \in Recoveries : RecoverRead(r, a)
    BY <1>8
  <2> DEFINE f == [Idle EXCEPT !.kind = "recover", !.row = a]
  <2>2. f \in RequestType /\ NamesRow(f)
    <3>1. a \in Nat
      BY CredentialsAssumption DEF Recoveries
    <3> QED BY <3>1 DEF Idle, RequestType, Purposes, Proofs, NamesRow
  <2>3. requests' = [requests EXCEPT ![r] = f] /\ UNCHANGED others
    BY <2>1 DEF RecoverRead
  <2> QED BY <1>0, <2>2, <2>3
<1> QED BY <1>3, <1>4, <1>5, <1>6, <1>7, <1>8

LEMMA RequestEnds ==
    ASSUME TypeOK, NEW r \in Requests, requests' = [requests EXCEPT ![r] = Idle]
    PROVE  requests' \in [Requests -> RequestType] /\ \A q \in Requests : NamesRow(requests'[q])
<1>1. requests' \in [Requests -> RequestType]
  BY IdleTyped DEF TypeOK
<1>2. ASSUME NEW q \in Requests PROVE NamesRow(requests'[q])
  BY DEF TypeOK, NamesRow, Idle
<1> QED BY <1>1, <1>2

LEMMA LoginIssueTyped == ASSUME TypeOK, NEW r \in Requests, LoginIssue(r) PROVE TypeOK'
<1>1. requests' \in [Requests -> RequestType] /\ \A q \in Requests : NamesRow(requests'[q])
  BY RequestEnds DEF LoginIssue
<1>2. UNCHANGED <<user, linked, codes, grants, recoveries, logins, now>>
  BY DEF LoginIssue
<1>3. requests[r].hash \in Nat
  BY DEF TypeOK, RequestType
<1>4. CASE Issue(NoIdentity, [NoProof EXCEPT !.hash = requests[r].hash])
  <2>1. session' \in SessionType /\ Belongs(session') /\ history' \in HistoryType
    BY <1>3, <1>4, ProofTyped, IssueTyped
  <2> QED BY <1>1, <1>2, <2>1 DEF TypeOK, Belongs, NamesRow
<1>5. CASE UNCHANGED <<session, history>>
  BY <1>1, <1>2, <1>5 DEF TypeOK, NamesRow
<1> QED BY <1>4, <1>5 DEF LoginIssue

\* What a write of a password does to the account, common to its three writers.
LEMMA NewUserTyped ==
    ASSUME TypeOK, NEW n \in Nat, NewPassword(n)
    PROVE  /\ [user EXCEPT !.hash = history'.hashes, !.generation = @ + 1] \in UserType
           /\ [user EXCEPT !.hash = history'.hashes, !.otp = 0, !.generation = @ + 1] \in UserType
           /\ [user EXCEPT !.hash = history'.hashes, !.otp = 0, !.generation = @ + 1,
                           !.fence = now, !.reenroll = TRUE, !.bound = TRUE] \in UserType
<1>1. user \in UserType /\ now \in Nat
  BY DEF TypeOK
<1>2. history'.hashes \in Nat /\ user.generation + 1 \in 0..MaxGeneration
  BY NewPasswordTyped
<1>3. ASSUME NEW h \in Nat, NEW g \in 0..MaxGeneration
      PROVE  /\ [user EXCEPT !.hash = h, !.generation = g] \in UserType
             /\ [user EXCEPT !.hash = h, !.otp = 0, !.generation = g] \in UserType
             /\ [user EXCEPT !.hash = h, !.otp = 0, !.generation = g,
                             !.fence = now, !.reenroll = TRUE, !.bound = TRUE] \in UserType
  BY <1>1 DEF UserType
<1> QED BY <1>2, <1>3

LEMMA PasswordWriteTyped ==
    ASSUME TypeOK, NEW r \in Requests, ForgotWrite(r) \/ ResetWrite(r) \/ UpdateWrite(r)
    PROVE  TypeOK'
<1>1. requests' \in [Requests -> RequestType] /\ \A q \in Requests : NamesRow(requests'[q])
  BY RequestEnds DEF ForgotWrite, ResetWrite, UpdateWrite
<1>2. UNCHANGED <<linked, codes, grants, recoveries, logins, now>>
  BY DEF ForgotWrite, ResetWrite, UpdateWrite
<1>3. CASE UNCHANGED <<user, session, history>>
  BY <1>1, <1>2, <1>3 DEF TypeOK, NamesRow
<1>4. CASE ForgotWrite(r)
  <2>1. history.mails \in Nat /\ history \in HistoryType /\ user \in UserType
    BY DEF TypeOK, HistoryType
  <2>2. history' = [history EXCEPT !.mails = @ + 1] /\ user' = [user EXCEPT !.otp = history'.mails]
    BY <1>4 DEF ForgotWrite
  <2>3. history' \in HistoryType /\ history'.mails \in Nat
    BY <2>1, <2>2 DEF HistoryType
  <2>4. user' \in UserType
    BY <2>1, <2>2, <2>3 DEF UserType
  <2>5. UNCHANGED session
    BY <1>4 DEF ForgotWrite
  <2> QED BY <1>1, <1>2, <2>3, <2>4, <2>5 DEF TypeOK, NamesRow
<1>5. ASSUME NewPassword(0), session' = Dropped,
             \/ user' = [user EXCEPT !.hash = history'.hashes, !.generation = @ + 1]
             \/ user' = [user EXCEPT !.hash = history'.hashes, !.otp = 0, !.generation = @ + 1]
      PROVE  TypeOK'
  <2>1. user' \in UserType
    BY <1>5, NewUserTyped
  <2>2. history' \in HistoryType
    BY <1>5, NewPasswordTyped
  <2>3. session' \in SessionType /\ Belongs(session')
    BY <1>5, SignedOutTyped
  <2> QED BY <1>1, <1>2, <2>1, <2>2, <2>3 DEF TypeOK, Belongs, NamesRow
<1>6. CASE ResetWrite(r)
  BY <1>3, <1>5, <1>6 DEF ResetWrite
<1>7. CASE UpdateWrite(r)
  BY <1>3, <1>5, <1>7 DEF UpdateWrite
<1> QED BY <1>4, <1>6, <1>7

\* A grant that is issued is well formed.
LEMMA GrantTyped ==
    ASSUME TypeOK, NEW g \in Grants, NEW purpose \in Purposes, NEW target \in Proofs,
           NEW c \in 0..MaxCodes, NEW proof \in Proofs, Grant(g, purpose, target, c, proof)
    PROVE  grants' \in [Grants -> GrantType]
BY ActiveTyped DEF Grant, TypeOK, SessionType, UserType, GrantType

\* An attempt, a code or a grant that changes status stays well formed.
LEMMA StatusTyped ==
    /\ \A x \in CodeType : \A v \in {"active", "revoked"} : [x EXCEPT !.status = v] \in CodeType
    /\ \A x \in CodeType : [x EXCEPT !.status = "consumed", !.uses = @ + 1] \in CodeType
    /\ \A x \in GrantType : \A v \in {"consumed", "revoked"} : [x EXCEPT !.status = v] \in GrantType
    /\ \A x \in RecoveryType : \A v \in {"verified", "consumed", "failed"} :
          [x EXCEPT !.status = v] \in RecoveryType
    /\ \A x \in LoginType : \A v \in {"processing", "ready", "consumed", "failed", "scrubbed"} :
          [x EXCEPT !.status = v] \in LoginType
<1>0. \A x \in CodeType : \A v \in {"active", "revoked"} : [x EXCEPT !.status = v] \in CodeType
  BY DEF CodeType
<1>1. ASSUME NEW x \in CodeType
      PROVE  [x EXCEPT !.status = "consumed", !.uses = @ + 1] \in CodeType
  <2>1. x.uses + 1 \in Nat
    BY DEF CodeType
  <2>2. \A n \in Nat : [x EXCEPT !.status = "consumed", !.uses = n] \in CodeType
    BY DEF CodeType
  <2> QED BY <2>1, <2>2
<1>2. \A x \in GrantType : \A v \in {"consumed", "revoked"} : [x EXCEPT !.status = v] \in GrantType
  BY DEF GrantType
<1>3. \A x \in RecoveryType : \A v \in {"verified", "consumed", "failed"} :
          [x EXCEPT !.status = v] \in RecoveryType
  BY DEF RecoveryType
<1>4. \A x \in LoginType : \A v \in {"processing", "ready", "consumed", "failed", "scrubbed"} :
          [x EXCEPT !.status = v] \in LoginType
  BY DEF LoginType
<1> QED BY <1>0, <1>1, <1>2, <1>3, <1>4

LEMMA ConsumeTyped ==
    ASSUME TypeOK, NEW g \in Grants, Consume(g)
    PROVE  grants' \in [Grants -> GrantType]
<1>1. [grants[g] EXCEPT !.status = "consumed"] \in GrantType
  BY StatusTyped DEF TypeOK
<1>2. grants' = [grants EXCEPT ![g] = [grants[g] EXCEPT !.status = "consumed"]]
  BY DEF Consume, TypeOK
<1> QED BY <1>1, <1>2 DEF TypeOK

LEMMA GrantIssueTyped ==
    ASSUME TypeOK, NEW r \in Requests, GrantIssue(r)
    PROVE  TypeOK'
<1>1. requests' \in [Requests -> RequestType] /\ \A q \in Requests : NamesRow(requests'[q])
  BY RequestEnds DEF GrantIssue
<1>2. UNCHANGED <<user, session, linked, codes, recoveries, logins, now, history>>
  BY DEF GrantIssue
<1>3. /\ requests[r].row \in 0..MaxCodes /\ requests[r].purpose \in Purposes
      /\ requests[r].target \in Proofs /\ NoIdentity \in Proofs
  BY DEF GrantIssue, TypeOK, RequestType, Proofs
<1>4. grants' \in [Grants -> GrantType]
  <2>1. CASE UNCHANGED grants
    BY <2>1 DEF TypeOK
  <2>2. CASE \E g \in Grants : Grant(g, requests[r].purpose, requests[r].target, requests[r].row, NoIdentity)
    BY <2>2, <1>3, GrantTyped
  <2> QED BY <2>1, <2>2 DEF GrantIssue
<1> QED BY <1>1, <1>2, <1>4 DEF TypeOK, NamesRow

LEMMA ReauthTyped ==
    ASSUME TypeOK, NEW i \in Identities, NEW aim \in Aims,
           ReauthFinish(i, aim.purpose, aim.target, aim.row)
    PROVE  TypeOK'
<1>1. grants' \in [Grants -> GrantType]
  <2>1. aim.purpose \in Purposes /\ aim.target \in Proofs /\ aim.row \in 0..MaxCodes
    BY AimTyped
  <2>2. i \in Proofs
    BY ProofTyped
  <2> QED BY <2>1, <2>2, GrantTyped DEF ReauthFinish
<1> QED BY <1>1 DEF ReauthFinish, TypeOK

LEMMA LoginTyped ==
    ASSUME TypeOK, NEW a \in Logins,
           \/ \E alias \in BOOLEAN : LoginStart(a, alias)
           \/ LoginCallback(a)
           \/ \E i \in Identities : LoginFinish(a, i)
    PROVE  TypeOK'
<1>1. CASE \E alias \in BOOLEAN : LoginStart(a, alias)
  <2>1. logins' \in [Logins -> LoginType]
    <3>1. PICK alias \in BOOLEAN : LoginStart(a, alias)
      BY <1>1
    <3>2. [status |-> "pending", created |-> now, alias |-> alias] \in LoginType
      BY DEF TypeOK, LoginType
    <3> QED BY <3>1, <3>2 DEF LoginStart, TypeOK
  <2> QED BY <1>1, <2>1 DEF LoginStart, TypeOK
<1>2. CASE LoginCallback(a)
  <2>1. PICK v \in {"processing", "ready", "failed"} : logins' = [logins EXCEPT ![a].status = v]
    BY <1>2 DEF LoginCallback
  <2>2. [logins[a] EXCEPT !.status = v] \in LoginType
    BY StatusTyped DEF TypeOK
  <2>3. logins' \in [Logins -> LoginType]
    BY <2>1, <2>2 DEF TypeOK
  <2> QED BY <1>2, <2>3 DEF LoginCallback, TypeOK
<1>3. CASE \E i \in Identities : LoginFinish(a, i)
  <2>1. PICK i \in Identities : LoginFinish(a, i)
    BY <1>3
  <2>2. Restarted(a) \in [Logins -> LoginType]
    <3>1. \A b \in Logins : [logins[b] EXCEPT !.status = "failed"] \in LoginType /\ logins[b] \in LoginType
      BY StatusTyped DEF TypeOK
    <3> QED BY <3>1 DEF Restarted
  <2>3. [logins EXCEPT ![a].status = "consumed"] \in [Logins -> LoginType]
    <3>1. [logins[a] EXCEPT !.status = "consumed"] \in LoginType
      BY StatusTyped DEF TypeOK
    <3> QED BY <3>1 DEF TypeOK
  <2>4. UNCHANGED <<user, linked, codes, grants, recoveries, requests, now>>
    BY <2>1 DEF LoginFinish
  <2>5. CASE logins' = Restarted(a) /\ UNCHANGED <<session, history>>
    BY <2>2, <2>4, <2>5 DEF TypeOK
  <2>6. CASE /\ Issue(i, [NoProof EXCEPT !.identity = i, !.began = logins[a].created])
             /\ logins' = [logins EXCEPT ![a].status = "consumed"]
    <3>1. logins[a].created \in Nat
      BY DEF TypeOK, LoginType
    <3>2. i \in Proofs /\ [NoProof EXCEPT !.identity = i, !.began = logins[a].created] \in Proof
      BY <3>1, ProofTyped
    <3>3. session' \in SessionType /\ Belongs(session') /\ history' \in HistoryType
      BY <3>2, <2>6, IssueTyped
    <3> QED BY <2>3, <2>4, <2>6, <3>3 DEF TypeOK, Belongs
  <2> QED BY <2>1, <2>5, <2>6 DEF LoginFinish
<1> QED BY <1>1, <1>2, <1>3

LEMMA GrantStepTyped ==
    ASSUME TypeOK, NEW g \in Grants, GrantStep(g)
    PROVE  TypeOK'
<1>1. ASSUME NEW i \in Identities, Link(g, i) PROVE TypeOK'
  BY <1>1, ConsumeTyped DEF Link, TypeOK
<1>2. ASSUME NEW i \in Identities, Unlink(g, i) PROVE TypeOK'
  <2>1. grants' \in [Grants -> GrantType]
    BY <1>2, ConsumeTyped DEF Unlink
  <2>2. session' \in SessionType /\ Belongs(session')
    <3>1. CASE session' = [SignedOut EXCEPT !.issued = session.issued]
      BY <3>1, SignedOutTyped
    <3>2. CASE UNCHANGED session
      BY <3>2 DEF TypeOK, Belongs
    <3> QED BY <3>1, <3>2, <1>2 DEF Unlink
  <2> QED BY <1>2, <2>1, <2>2 DEF Unlink, TypeOK, Belongs
<1>3. ASSUME NEW c \in Codes, Generate(g, c) PROVE TypeOK'
  <2>1. grants' \in [Grants -> GrantType]
    BY <1>3, ConsumeTyped DEF Generate
  <2> DEFINE f == [NoCode EXCEPT !.status = "pending", !.sid = session.sid,
                                 !.generation = user.generation, !.proof = grants[g].proof,
                                 !.hash = user.hash]
  <2>2. f \in CodeType
    <3>1. session.sid \in Nat /\ user.generation \in Nat /\ grants[g].proof \in Proofs /\ user.hash \in Nat
      BY CredentialsAssumption DEF TypeOK, SessionType, UserType, GrantType
    <3> QED BY <3>1 DEF NoCode, CodeType, Proofs
  <2>3. codes' \in [Codes -> CodeType]
    <3>1. \A d \in Codes : codes[d] \in CodeType /\ [codes[d] EXCEPT !.status = "revoked"] \in CodeType
      BY StatusTyped DEF TypeOK
    <3>2. codes' = [d \in Codes |-> IF d = c THEN f
                        ELSE IF codes[d].status = "pending" THEN [codes[d] EXCEPT !.status = "revoked"]
                        ELSE codes[d]]
      BY <1>3 DEF Generate
    <3> HIDE DEF f
    <3> QED BY <2>2, <3>1, <3>2
  <2> QED BY <1>3, <2>1, <2>3 DEF Generate, TypeOK
<1>4. ASSUME NEW c \in Codes, Activate(g, c) PROVE TypeOK'
  <2>1. grants' \in [Grants -> GrantType]
    BY <1>4, ConsumeTyped DEF Activate
  <2>2. codes' \in [Codes -> CodeType]
    <3>1. \A d \in Codes : /\ codes[d] \in CodeType
                           /\ [codes[d] EXCEPT !.status = "revoked"] \in CodeType
                           /\ [codes[d] EXCEPT !.status = "active"] \in CodeType
      BY StatusTyped DEF TypeOK
    <3> QED BY <1>4, <3>1 DEF Activate
  <2>3. user' \in UserType
    BY <1>4 DEF Activate, TypeOK, UserType
  <2> QED BY <1>4, <2>1, <2>2, <2>3 DEF Activate, TypeOK
<1>5. ASSUME Remove(g) PROVE TypeOK'
  <2>1. grants' \in [Grants -> GrantType]
    BY <1>5, ConsumeTyped DEF Remove
  <2>2. codes' \in [Codes -> CodeType]
    <3>1. \A d \in Codes : codes[d] \in CodeType /\ [codes[d] EXCEPT !.status = "revoked"] \in CodeType
      BY StatusTyped DEF TypeOK
    <3> QED BY <1>5, <3>1 DEF Remove
  <2> QED BY <1>5, <2>1, <2>2 DEF Remove, TypeOK
<1> QED BY <1>1, <1>2, <1>3, <1>4, <1>5 DEF GrantStep

LEMMA CancelTyped ==
    ASSUME TypeOK, NEW c \in Codes, Cancel(c)
    PROVE  TypeOK'
<1>1. [codes[c] EXCEPT !.status = "revoked"] \in CodeType
  BY StatusTyped DEF TypeOK
<1>2. codes' \in [Codes -> CodeType]
  BY <1>1 DEF Cancel, TypeOK
<1> QED BY <1>2 DEF Cancel, TypeOK

LEMMA RecoveryTyped ==
    ASSUME TypeOK, NEW a \in Recoveries,
           (\E compromise \in BOOLEAN : RecoveryStart(a, compromise)) \/ RecoveryVerify(a)
    PROVE  TypeOK'
<1>0. \A b \in Recoveries : /\ recoveries[b] \in RecoveryType
                            /\ [recoveries[b] EXCEPT !.status = "failed"] \in RecoveryType
                            /\ [recoveries[b] EXCEPT !.status = "verified"] \in RecoveryType
  BY StatusTyped DEF TypeOK
<1>1. ASSUME NEW compromise \in BOOLEAN, RecoveryStart(a, compromise) PROVE TypeOK'
  <2> DEFINE f == [status |-> "pending", generation |-> user.generation,
                   code |-> ActiveGeneration, compromise |-> compromise]
  <2>1. f \in RecoveryType
    <3>1. user.generation \in Nat /\ ActiveGeneration \in 0..MaxCodes
      BY ActiveTyped, CredentialsAssumption DEF TypeOK, UserType
    <3> QED BY <3>1 DEF RecoveryType
  <2>2. recoveries' = [b \in Recoveries |->
           IF b = a THEN f
           ELSE IF recoveries[b].status = "pending" THEN [recoveries[b] EXCEPT !.status = "failed"]
           ELSE recoveries[b]]
    BY <1>1 DEF RecoveryStart
  <2>3. recoveries' \in [Recoveries -> RecoveryType]
    <3> HIDE DEF f
    <3> QED BY <1>0, <2>1, <2>2
  <2> QED BY <1>1, <2>3 DEF RecoveryStart, TypeOK
<1>2. CASE RecoveryVerify(a)
  <2>1. recoveries' \in [Recoveries -> RecoveryType]
    BY <1>0, <1>2 DEF RecoveryVerify, TypeOK
  <2> QED BY <1>2, <2>1 DEF RecoveryVerify, TypeOK
<1> QED BY <1>1, <1>2

LEMMA RecoverWriteTyped ==
    ASSUME TypeOK, NEW r \in Requests, RecoverWrite(r)
    PROVE  TypeOK'
<1>1. requests' \in [Requests -> RequestType] /\ \A q \in Requests : NamesRow(requests'[q])
  BY RequestEnds DEF RecoverWrite
<1>2. CASE UNCHANGED <<user, session, linked, codes, grants, recoveries, logins, history>>
  BY <1>1, <1>2 DEF RecoverWrite, TypeOK, NamesRow
<1>3. CASE Recover(requests[r].row)
  <2>0. requests[r].row \in Recoveries /\ NewPassword(1) /\ UNCHANGED now
    BY <1>3 DEF RecoverWrite, TypeOK, Recover
  <2>1. history' \in HistoryType
    BY <2>0, NewPasswordTyped
  <2>2. user' \in UserType
    BY <1>3, <2>0, NewUserTyped DEF Recover
  <2>3. session' \in SessionType /\ Belongs(session')
    BY <1>3, SignedOutTyped DEF Recover
  <2>4. codes' \in [Codes -> CodeType]
    <3>1. \A c \in Codes : /\ codes[c] \in CodeType
                           /\ [codes[c] EXCEPT !.status = "revoked"] \in CodeType
                           /\ [codes[c] EXCEPT !.status = "consumed", !.uses = @ + 1] \in CodeType
      BY StatusTyped DEF TypeOK
    <3> QED BY <1>3, <3>1 DEF Recover, Spent
  <2>5. grants' \in [Grants -> GrantType]
    <3>1. \A g \in Grants : grants[g] \in GrantType /\ [grants[g] EXCEPT !.status = "revoked"] \in GrantType
      BY StatusTyped DEF TypeOK
    <3> QED BY <1>3, <3>1 DEF Recover
  <2>6. linked' \subseteq Identities
    BY <1>3 DEF Recover, TypeOK
  <2>7. logins' \in [Logins -> LoginType]
    <3>1. \A b \in Logins : logins[b] \in LoginType /\ [logins[b] EXCEPT !.status = "scrubbed"] \in LoginType
      BY StatusTyped DEF TypeOK
    <3> QED BY <1>3, <3>1 DEF Recover
  <2>8. recoveries' \in [Recoveries -> RecoveryType]
    <3>1. \A b \in Recoveries : /\ recoveries[b] \in RecoveryType
                                /\ [recoveries[b] EXCEPT !.status = "failed"] \in RecoveryType
                                /\ [recoveries[b] EXCEPT !.status = "consumed"] \in RecoveryType
      BY StatusTyped DEF TypeOK
    <3> QED BY <1>3, <3>1 DEF Recover
  <2> QED BY <1>1, <2>0, <2>1, <2>2, <2>3, <2>4, <2>5, <2>6, <2>7, <2>8 DEF TypeOK, NamesRow, Belongs
<1> QED BY <1>2, <1>3 DEF RecoverWrite

LEMMA AccountTyped ==
    ASSUME TypeOK, Logout \/ Close \/ Restore \/ Tick
    PROVE  TypeOK'
<1>1. CASE Logout
  BY <1>1, SignedOutTyped DEF Logout, TypeOK, Belongs
<1>2. CASE Close
  <2>1. user' \in UserType
    <3>1. user.generation + 1 \in 0..MaxGeneration /\ now \in Nat
      BY <1>2, CredentialsAssumption DEF Close, TypeOK, UserType
    <3>2. ASSUME NEW n \in 0..MaxGeneration
          PROVE  [user EXCEPT !.closed = TRUE, !.otp = 0, !.fence = now,
                              !.generation = n, !.bound = TRUE] \in UserType
      BY <3>1 DEF TypeOK, UserType
    <3> QED BY <1>2, <3>1, <3>2 DEF Close
  <2>2. history' \in HistoryType
    BY <1>2 DEF Close, TypeOK, HistoryType
  <2> QED BY <1>2, <2>1, <2>2, SignedOutTyped DEF Close, TypeOK, Belongs
<1>3. CASE Restore
  <2>1. user' \in UserType
    BY <1>3 DEF Restore, TypeOK, UserType
  <2> QED BY <1>3, <2>1 DEF Restore, TypeOK
<1>4. CASE Tick
  BY <1>4 DEF Tick, TypeOK
<1> QED BY <1>1, <1>2, <1>3, <1>4

LEMMA InitTyped == Init => TypeOK
<1> SUFFICES ASSUME Init PROVE TypeOK
  OBVIOUS
<1>1. user \in UserType
  BY CredentialsAssumption DEF Init, UserType, NoPassword
<1>2. session \in SessionType /\ Belongs(session)
  BY DEF Init, SessionType, Belongs, Proofs, NoProof, Proof, NoPassword, NoSession
<1>3. codes \in [Codes -> CodeType]
  <2>1. PICK status \in {"none", "active"} :
           codes = [c \in Codes |-> IF c = 1 THEN [NoCode EXCEPT !.status = status] ELSE NoCode]
    BY DEF Init
  <2>2. NoCode \in CodeType /\ [NoCode EXCEPT !.status = status] \in CodeType
    BY DEF NoCode, CodeType, Proofs
  <2> QED BY <2>1, <2>2
<1>4. grants \in [Grants -> GrantType]
  <2>1. 0 \in 0..MaxCodes
    BY CredentialsAssumption
  <2>2. NoGrant \in GrantType
    BY <2>1 DEF NoGrant, GrantType, Proofs, Purposes
  <2> QED BY <2>2 DEF Init
<1>5. recoveries \in [Recoveries -> RecoveryType]
  <2>1. 0 \in 0..MaxCodes
    BY CredentialsAssumption
  <2>2. NoRecovery \in RecoveryType
    BY <2>1 DEF NoRecovery, RecoveryType
  <2> QED BY <2>2 DEF Init
<1>6. logins \in [Logins -> LoginType]
  <2>1. NoLogin \in LoginType
    BY DEF NoLogin, LoginType
  <2> QED BY <2>1 DEF Init
<1>7. requests \in [Requests -> RequestType] /\ \A r \in Requests : NamesRow(requests[r])
  BY IdleTyped DEF Init, Idle, NamesRow
<1>8. linked \subseteq Identities /\ now \in Nat \ {0} /\ history \in HistoryType
  BY DEF Init, HistoryType
<1> QED BY <1>1, <1>2, <1>3, <1>4, <1>5, <1>6, <1>7, <1>8 DEF TypeOK, Belongs, NamesRow

LEMMA NextTyped == ASSUME TypeOK, [Next]_vars PROVE TypeOK'
<1>1. CASE UNCHANGED vars
  BY <1>1 DEF vars, TypeOK
<1>2. ASSUME NEW r \in Requests, RequestStep(r) PROVE TypeOK'
  BY <1>2, RequestReadTyped, LoginIssueTyped, PasswordWriteTyped, GrantIssueTyped, RecoverWriteTyped
     DEF RequestStep
<1>3. CASE Logout \/ Close \/ Restore \/ Tick
  BY <1>3, AccountTyped
<1>4. ASSUME NEW a \in Logins,
             \/ \E alias \in BOOLEAN : LoginStart(a, alias)
             \/ LoginCallback(a)
             \/ \E i \in Identities : LoginFinish(a, i)
      PROVE  TypeOK'
  BY <1>4, LoginTyped
<1>5. ASSUME NEW i \in Identities, NEW aim \in Aims,
             ReauthFinish(i, aim.purpose, aim.target, aim.row)
      PROVE  TypeOK'
  BY <1>5, ReauthTyped
<1>6. ASSUME NEW g \in Grants, GrantStep(g) PROVE TypeOK'
  BY <1>6, GrantStepTyped
<1>7. ASSUME NEW c \in Codes, Cancel(c) PROVE TypeOK'
  BY <1>7, CancelTyped
<1>8. ASSUME NEW a \in Recoveries,
             (\E compromise \in BOOLEAN : RecoveryStart(a, compromise)) \/ RecoveryVerify(a)
      PROVE  TypeOK'
  BY <1>8, RecoveryTyped
<1> QED BY <1>1, <1>2, <1>3, <1>4, <1>5, <1>6, <1>7, <1>8 DEF Next

\* The account, its codes, grants, attempts and requests in flight stay well formed, and a
\* refresh token never belongs to another session than the active one.
THEOREM Typed == Spec => []TypeOK
<1>1. Init => TypeOK
  BY InitTyped
<1>2. TypeOK /\ [Next]_vars => TypeOK'
  BY NextTyped
<1> QED BY <1>1, <1>2, PTL DEF Spec

-----------------------------------------------------------------------------
(***************************************************************************)
(* Who is signed in.  Everything the account remembers about its sessions, *)
(* identities and password changes in one of twelve ways; the others leave *)
(* it alone.                                                               *)
(***************************************************************************)
account == <<user, session, linked, history>>

SignsIn(i, p) == ~user.closed /\ Issue(i, p) /\ UNCHANGED <<user, linked>>
ByPassword == SignsIn(NoIdentity, [NoProof EXCEPT !.hash = user.hash])
ByIdentity(a, i) == /\ i \in linked /\ ~Fenced(a)
                    /\ SignsIn(i, [NoProof EXCEPT !.identity = i, !.began = logins[a].created])
Changes ==
    /\ ~user.closed /\ NewPassword(0) /\ session' = Dropped /\ UNCHANGED linked
    /\ \/ user' = [user EXCEPT !.hash = history'.hashes, !.otp = 0, !.generation = @ + 1]
       \/ user' = [user EXCEPT !.hash = history'.hashes, !.generation = @ + 1]
Mails == /\ UNCHANGED <<session, linked>>
         /\ history' = [history EXCEPT !.mails = @ + 1]
         /\ user' = [user EXCEPT !.otp = history'.mails]

LEMMA AccountSteps ==
    ASSUME TypeOK, [Next]_vars
    PROVE  \/ UNCHANGED account
           \/ ByPassword
           \/ \E a \in Logins, i \in Identities : ByIdentity(a, i)
           \/ Changes
           \/ Mails
           \/ Logout \/ Close \/ Restore
           \/ \E g \in Grants, i \in Identities : Link(g, i) \/ Unlink(g, i)
           \/ \E g \in Grants, c \in Codes : Activate(g, c)
           \/ \E r \in Requests : Recover(requests[r].row) /\ RecoverWrite(r)
<1>1. CASE UNCHANGED vars
  BY <1>1 DEF vars, account
<1>2. ASSUME NEW r \in Requests, RequestStep(r)
      PROVE  UNCHANGED account \/ ByPassword \/ Changes \/ Mails \/ (Recover(requests[r].row) /\ RecoverWrite(r))
  <2>1. CASE \/ LoginRead(r) \/ ForgotRead(r) \/ ResetRead(r) \/ UpdateRead(r) \/ GrantIssue(r)
             \/ \E aim \in Aims : GrantRead(r, aim.purpose, aim.target, aim.row)
             \/ \E a \in Recoveries : RecoverRead(r, a)
    BY <2>1 DEF account, LoginRead, ForgotRead, ResetRead, UpdateRead, GrantIssue, GrantRead, RecoverRead
  <2>2. CASE LoginIssue(r)
    BY <2>2 DEF LoginIssue, account, ByPassword, SignsIn
  <2>3. CASE ForgotWrite(r)
    BY <2>3 DEF ForgotWrite, Mails
  <2>4. CASE ResetWrite(r)
    BY <2>4 DEF ResetWrite, Changes, account
  <2>5. CASE UpdateWrite(r)
    BY <2>5 DEF UpdateWrite, Changes, account
  <2>6. CASE RecoverWrite(r)
    BY <2>6 DEF RecoverWrite, account
  <2> QED BY <1>2, <2>1, <2>2, <2>3, <2>4, <2>5, <2>6 DEF RequestStep
<1>3. CASE Logout \/ Close \/ Restore
  BY <1>3
<1>4. CASE Tick
  BY <1>4 DEF Tick, account
<1>5. ASSUME NEW a \in Logins,
             (\E alias \in BOOLEAN : LoginStart(a, alias)) \/ LoginCallback(a)
      PROVE  UNCHANGED account
  BY <1>5 DEF LoginStart, LoginCallback, account
<1>6. ASSUME NEW a \in Logins, NEW i \in Identities, LoginFinish(a, i)
      PROVE  UNCHANGED account \/ ByIdentity(a, i)
  BY <1>6 DEF LoginFinish, account, ByIdentity, SignsIn
<1>7. ASSUME NEW i \in Identities, NEW aim \in Aims,
             ReauthFinish(i, aim.purpose, aim.target, aim.row)
      PROVE  UNCHANGED account
  BY <1>7 DEF ReauthFinish, account
<1>8. ASSUME NEW g \in Grants, NEW c \in Codes, Generate(g, c)
      PROVE  UNCHANGED account
  BY <1>8 DEF Generate, account
<1>9. ASSUME NEW g \in Grants, Remove(g) PROVE UNCHANGED account
  BY <1>9 DEF Remove, account
<1>10. ASSUME NEW c \in Codes, Cancel(c) PROVE UNCHANGED account
  BY <1>10 DEF Cancel, account
<1>11. ASSUME NEW a \in Recoveries,
              (\E compromise \in BOOLEAN : RecoveryStart(a, compromise)) \/ RecoveryVerify(a)
       PROVE  UNCHANGED account
  BY <1>11 DEF RecoveryStart, RecoveryVerify, account
<1> QED BY <1>1, <1>2, <1>3, <1>4, <1>5, <1>6, <1>7, <1>8, <1>9, <1>10, <1>11 DEF Next, GrantStep

\* A recovery or a closure bound the account to sessions and took the old token,
Retired == history.eras > 0 => user.bound /\ session.refresh # Legacy

\* a closed account has no session, and the column that names a session's identity names
\* the one it was opened with, so that unlinking knows whom to sign out.
ClosedOut == user.closed => session.sid = NoSession /\ session.refresh = NoSession
NamesIdentity == session.sid # NoSession => session.identity = session.proof.identity

Account == Retired /\ ClosedOut /\ NamesIdentity /\ SessionProven /\ LoginRemains

LEMMA SignedOutAccount ==
    ASSUME TypeOK, \/ session' = SignedOut
                   \/ session' = Dropped
                   \/ session' = [SignedOut EXCEPT !.issued = session.issued]
    PROVE  session'.sid = NoSession /\ session'.refresh = NoSession
BY DEF SignedOut, Dropped

LEMMA SignedOutHolds ==
    ASSUME session'.sid = NoSession, session'.refresh = NoSession
    PROVE  ClosedOut' /\ NamesIdentity' /\ SessionProven' /\ (user'.bound => Retired')
BY DEF ClosedOut, NamesIdentity, SessionProven, Retired, NoSession, Legacy

LEMMA IssuedAccount ==
    ASSUME TypeOK, TypeOK', Account, NEW i \in Proofs, NEW p \in Proof, p.identity = i, SignsIn(i, p),
           \/ i = NoIdentity /\ p.hash = user.hash
           \/ i \in linked /\ p.began > user.fence
    PROVE  Account'
<1>1. history.sessions \in Nat /\ history \in HistoryType
  BY DEF TypeOK, HistoryType
<1>2. history' = [history EXCEPT !.sessions = @ + 1] /\ UNCHANGED <<user, linked>> /\ ~user.closed
  BY DEF SignsIn, Issue
<1>3. history'.sessions = history.sessions + 1 /\ history'.eras = history.eras
  BY <1>1, <1>2 DEF HistoryType
<1>4. session'.refresh = history'.sessions /\ session'.identity = i /\ session'.proof = p
  BY DEF SignsIn, Issue
<1>5. Retired'
  BY <1>1, <1>2, <1>3, <1>4 DEF Account, Retired, Legacy
<1>6. ClosedOut' /\ NamesIdentity' /\ LoginRemains'
  BY <1>2, <1>4 DEF Account, ClosedOut, NamesIdentity, LoginRemains
<1>7. SessionProven'
  BY <1>2, <1>4 DEF SessionProven
<1> QED BY <1>5, <1>6, <1>7 DEF Account

LEMMA ChangesAccount ==
    ASSUME TypeOK, Account, Changes
    PROVE  Account'
<1>1. session'.sid = NoSession /\ session'.refresh = NoSession
  BY SignedOutAccount DEF Changes
<1>2. user'.bound = user.bound /\ user'.hash = history'.hashes
  BY DEF Changes, TypeOK, UserType
<1>3. history'.eras = history.eras
  BY DEF Changes, NewPassword, TypeOK, HistoryType
<1>4. Retired'
  BY <1>1, <1>2, <1>3 DEF Account, Retired, Legacy, NoSession
<1>5. LoginRemains'
  <2>1. history'.hashes # 0
    BY NewPasswordTyped DEF Changes
  <2> QED BY <1>2, <2>1 DEF LoginRemains, NoPassword
<1> QED BY <1>1, <1>4, <1>5, SignedOutHolds DEF Account

LEMMA UnlinkAccount ==
    ASSUME TypeOK, Account, NEW g \in Grants, NEW i \in Identities, Unlink(g, i)
    PROVE  Account'
<1>1. UNCHANGED <<user, history>> /\ linked' = linked \ {i}
  BY DEF Unlink
<1>2. LoginRemains'
  BY <1>1 DEF Account, LoginRemains, Unlink, Removable
<1>3. CASE session' = [SignedOut EXCEPT !.issued = session.issued]
  <2>1. session'.sid = NoSession /\ session'.refresh = NoSession
    BY <1>3, SignedOutAccount
  <2>2. Retired'
    BY <1>1, <2>1 DEF Account, Retired, NoSession, Legacy
  <2> QED BY <1>2, <2>1, <2>2, SignedOutHolds DEF Account
<1>4. CASE session.identity # i /\ UNCHANGED session
  <2>1. Retired' /\ ClosedOut' /\ NamesIdentity'
    BY <1>1, <1>4 DEF Account, Retired, ClosedOut, NamesIdentity
  <2>2. SessionProven'
    BY <1>1, <1>4 DEF Account, NamesIdentity, SessionProven
  <2> QED BY <1>2, <2>1, <2>2 DEF Account
<1> QED BY <1>3, <1>4 DEF Unlink

LEMMA RecoverAccount ==
    ASSUME TypeOK, Account, NEW a, Recover(a)
    PROVE  Account'
<1>1. session'.sid = NoSession /\ session'.refresh = NoSession
  BY SignedOutAccount DEF Recover
<1>2. user'.bound /\ user'.hash = history'.hashes
  BY DEF Recover, TypeOK, UserType
<1>3. LoginRemains'
  <2>1. history'.hashes # 0
    BY NewPasswordTyped DEF Recover
  <2> QED BY <1>2, <2>1 DEF LoginRemains, NoPassword
<1> QED BY <1>1, <1>2, <1>3, SignedOutHolds DEF Account

LEMMA NextAccount == ASSUME TypeOK, TypeOK', Account, [Next]_vars PROVE Account'
<1>1. CASE UNCHANGED account
  BY <1>1 DEF account, Account, Retired, ClosedOut, NamesIdentity, SessionProven, LoginRemains
<1>2. CASE ByPassword
  <2> DEFINE p == [NoProof EXCEPT !.hash = user.hash]
  <2>1. user.hash \in Nat
    BY DEF TypeOK, UserType
  <2>2. p \in Proof /\ NoIdentity \in Proofs
    BY <2>1, ProofTyped
  <2>3. p.identity = NoIdentity /\ p.hash = user.hash
    BY DEF NoProof
  <2>4. SignsIn(NoIdentity, p)
    BY <1>2 DEF ByPassword
  <2> HIDE DEF p
  <2> QED BY <2>2, <2>3, <2>4, IssuedAccount
<1>3. ASSUME NEW a \in Logins, NEW i \in Identities, ByIdentity(a, i) PROVE Account'
  <2> DEFINE p == [NoProof EXCEPT !.identity = i, !.began = logins[a].created]
  <2>1. logins[a].created \in Nat /\ user.fence \in Nat
    BY DEF TypeOK, LoginType, UserType
  <2>2. p \in Proof /\ i \in Proofs
    BY <2>1, ProofTyped
  <2>3. p.identity = i /\ p.began = logins[a].created
    BY DEF NoProof
  <2>4. SignsIn(i, p) /\ i \in linked
    BY <1>3 DEF ByIdentity
  <2>5. logins[a].created > user.fence
    BY <1>3, <2>1 DEF ByIdentity, Fenced
  <2> HIDE DEF p
  <2> QED BY <2>2, <2>3, <2>4, <2>5, IssuedAccount
<1>4. CASE Changes
  BY <1>4, ChangesAccount
<1>5. CASE Mails
  <2>1. /\ user'.closed = user.closed /\ user'.hash = user.hash /\ user'.bound = user.bound
        /\ user'.fence = user.fence
    BY <1>5 DEF Mails, TypeOK, UserType
  <2>2. history'.eras = history.eras
    BY <1>5 DEF Mails, TypeOK, HistoryType
  <2>3. UNCHANGED <<session, linked>>
    BY <1>5 DEF Mails
  <2> QED BY <2>1, <2>2, <2>3 DEF Account, Retired, ClosedOut, NamesIdentity, SessionProven, LoginRemains
<1>6. CASE Logout
  <2>1. session'.sid = NoSession /\ session'.refresh = NoSession
    BY <1>6, SignedOutAccount DEF Logout
  <2>2. UNCHANGED <<user, linked, history>>
    BY <1>6 DEF Logout
  <2>3. Retired' /\ LoginRemains'
    BY <2>1, <2>2 DEF Account, Retired, LoginRemains, NoSession, Legacy
  <2> QED BY <2>1, <2>3, SignedOutHolds DEF Account
<1>7. CASE Close
  <2>1. session'.sid = NoSession /\ session'.refresh = NoSession
    BY <1>7, SignedOutAccount DEF Close
  <2>2. user'.bound /\ user'.hash = user.hash /\ linked' = linked
    BY <1>7 DEF Close, TypeOK, UserType
  <2>3. LoginRemains'
    BY <2>2 DEF Account, LoginRemains
  <2> QED BY <2>1, <2>2, <2>3, SignedOutHolds DEF Account
<1>8. CASE Restore
  <2>1. ~user'.closed /\ user'.hash = user.hash /\ user'.bound = user.bound /\ user'.fence = user.fence
    BY <1>8 DEF Restore, TypeOK, UserType
  <2>2. UNCHANGED <<session, linked, history>>
    BY <1>8 DEF Restore
  <2> QED BY <2>1, <2>2 DEF Account, Retired, ClosedOut, NamesIdentity, SessionProven, LoginRemains
<1>9. ASSUME NEW g \in Grants, NEW i \in Identities, Link(g, i) PROVE Account'
  <2>1. UNCHANGED <<user, session, history>> /\ linked' = linked \cup {i}
    BY <1>9 DEF Link
  <2> QED BY <2>1 DEF Account, Retired, ClosedOut, NamesIdentity, SessionProven, LoginRemains
<1>10. ASSUME NEW g \in Grants, NEW i \in Identities, Unlink(g, i) PROVE Account'
  BY <1>10, UnlinkAccount
<1>11. ASSUME NEW g \in Grants, NEW c \in Codes, Activate(g, c) PROVE Account'
  <2>1. /\ user'.closed = user.closed /\ user'.hash = user.hash /\ user'.bound = user.bound
        /\ user'.fence = user.fence
    BY <1>11 DEF Activate, TypeOK, UserType
  <2>2. UNCHANGED <<session, linked, history>>
    BY <1>11 DEF Activate
  <2> QED BY <2>1, <2>2 DEF Account, Retired, ClosedOut, NamesIdentity, SessionProven, LoginRemains
<1>12. ASSUME NEW r \in Requests, Recover(requests[r].row) PROVE Account'
  BY <1>12, RecoverAccount
<1> QED BY <1>1, <1>2, <1>3, <1>4, <1>5, <1>6, <1>7, <1>8, <1>9, <1>10, <1>11, <1>12, AccountSteps

LEMMA InitAccount == Init => Account
<1> SUFFICES ASSUME Init PROVE Account
  OBVIOUS
<1>1. session.sid = NoSession /\ history.eras = 0 /\ ~user.closed
  BY DEF Init
<1>2. LoginRemains
  BY DEF Init, LoginRemains, NoPassword
<1> QED BY <1>1, <1>2 DEF Account, Retired, ClosedOut, NamesIdentity, SessionProven

\* Account is inductive: what requests in flight have read matters to none of it, because
\* each write compares what it read with what now stands.
THEOREM AccountHolds == Spec => []Account
<1>1. Init => TypeOK /\ Account
  BY InitTyped, InitAccount
<1>2. TypeOK /\ Account /\ [Next]_vars => (TypeOK /\ Account)'
  BY NextTyped, NextAccount
<1> QED BY <1>1, <1>2, PTL DEF Spec

\* A session that works was opened with the password now stored, or through an identity
\* still linked by an attempt begun after the last recovery or closure.
THEOREM SessionProvenHolds == Spec => []SessionProven
<1>1. Account => SessionProven
  BY DEF Account
<1> QED BY <1>1, AccountHolds, PTL

\* A closed account is signed out, and after a closure or a recovery a token from before
\* sessions had ids never works again.
THEOREM ClosedSignedOutHolds == Spec => []ClosedSignedOut
<1>1. Account => ClosedSignedOut
  BY DEF Account, Retired, ClosedOut, ClosedSignedOut, AcceptedLegacy, Refreshes
<1> QED BY <1>1, AccountHolds, PTL

\* However identities are unlinked or revoked, the owner keeps a way in.
THEOREM LoginRemainsHolds == Spec => []LoginRemains
<1>1. Account => LoginRemains
  BY DEF Account
<1> QED BY <1>1, AccountHolds, PTL

-----------------------------------------------------------------------------
(***************************************************************************)
(* What is replaced.  The generation of the credentials counts their       *)
(* changes, so whoever read the current generation read the current        *)
(* password, and no recovery or closure came between.                      *)
(***************************************************************************)
SameCredential ==
    /\ user'.generation = user.generation /\ user'.hash = user.hash
    /\ history'.eras = history.eras /\ (user'.reenroll => user.reenroll)

LEMMA CredentialSteps ==
    ASSUME TypeOK, [Next]_vars
    PROVE  SameCredential \/ user'.generation = user.generation + 1
<1>1. CASE UNCHANGED account
  BY <1>1 DEF account, SameCredential
<1>2. CASE UNCHANGED user /\ history'.eras = history.eras
  BY <1>2 DEF SameCredential
<1>3. ASSUME NEW i, NEW p, SignsIn(i, p) PROVE SameCredential
  <2>1. UNCHANGED user /\ history'.eras = history.eras
    BY <1>3 DEF SignsIn, Issue, TypeOK, HistoryType
  <2> QED BY <2>1 DEF SameCredential
<1>4. CASE Changes
  BY <1>4 DEF Changes, TypeOK, UserType
<1>5. CASE Mails
  BY <1>5 DEF Mails, TypeOK, UserType, HistoryType, SameCredential
<1>6. CASE Logout
  BY <1>6 DEF Logout, SameCredential
<1>7. CASE Close
  BY <1>7 DEF Close, TypeOK, UserType
<1>8. CASE Restore
  BY <1>8 DEF Restore, TypeOK, UserType, SameCredential
<1>9. ASSUME NEW g \in Grants, NEW i \in Identities, Link(g, i) \/ Unlink(g, i) PROVE SameCredential
  BY <1>9 DEF Link, Unlink, SameCredential
<1>10. ASSUME NEW g \in Grants, NEW c \in Codes, Activate(g, c) PROVE SameCredential
  BY <1>10 DEF Activate, TypeOK, UserType, SameCredential
<1>11. ASSUME NEW a, Recover(a) PROVE user'.generation = user.generation + 1
  BY <1>11 DEF Recover, TypeOK, UserType
<1> QED BY <1>1, <1>3, <1>4, <1>5, <1>6, <1>7, <1>8, <1>9, <1>10, <1>11, AccountSteps
           DEF ByPassword, ByIdentity

\* A reset or change in flight that read the current generation read what now stands.
Replaces(q) == q.kind \in {"reset", "update"}
Current(q) == q.hash = user.hash /\ q.era = history.eras
Seen == \A r \in Requests : Replaces(requests[r]) =>
            /\ requests[r].generation <= user.generation
            /\ requests[r].generation = user.generation => Current(requests[r])

LEMMA RequestSteps ==
    ASSUME TypeOK, [Next]_vars, NEW r \in Requests, Replaces(requests'[r])
    PROVE  \/ requests'[r] = requests[r]
           \/ /\ UNCHANGED account
              /\ requests'[r].generation = user.generation /\ Current(requests'[r])
<1>1. CASE UNCHANGED requests
  BY <1>1
<1>2. ASSUME NEW q \in Requests, RequestStep(q)
      PROVE  \/ requests'[r] = requests[r]
             \/ /\ UNCHANGED account
                /\ requests'[r].generation = user.generation /\ Current(requests'[r])
  <2>1. ASSUME NEW f, requests' = [requests EXCEPT ![q] = f] PROVE requests'[r] = requests[r] \/ (r = q /\ requests'[r] = f)
    BY <2>1 DEF TypeOK
  <2>2. CASE requests' = [requests EXCEPT ![q] = Idle]
    BY <2>1, <2>2 DEF Idle, Replaces
  <2>3. ASSUME NEW f, requests' = [requests EXCEPT ![q] = f], ~Replaces(f)
        PROVE  requests'[r] = requests[r]
    BY <2>1, <2>3
  <2>4. ASSUME NEW f, requests' = [requests EXCEPT ![q] = f],
               f.generation = user.generation, f.hash = user.hash, f.era = history.eras,
               UNCHANGED account
        PROVE  \/ requests'[r] = requests[r]
               \/ /\ UNCHANGED account
                  /\ requests'[r].generation = user.generation /\ Current(requests'[r])
    BY <2>1, <2>4 DEF Current
  <2>6. CASE LoginRead(q) \/ ForgotRead(q)
    <3>1. /\ [Idle EXCEPT !.kind = "login", !.hash = user.hash].kind = "login"
          /\ [Idle EXCEPT !.kind = "forgot"].kind = "forgot"
      BY DEF Idle
    <3> QED BY <2>3, <2>6, <3>1 DEF LoginRead, ForgotRead, Replaces
  <2>7. CASE \E aim \in Aims : GrantRead(q, aim.purpose, aim.target, aim.row)
    <3>1. PICK aim \in Aims : GrantRead(q, aim.purpose, aim.target, aim.row)
      BY <2>7
    <3>2. [Idle EXCEPT !.kind = "grant", !.hash = user.hash, !.sid = session.sid,
                       !.purpose = aim.purpose, !.target = aim.target, !.row = aim.row].kind = "grant"
      BY DEF Idle
    <3> QED BY <2>3, <3>1, <3>2 DEF GrantRead, Replaces
  <2>8. CASE \E a \in Recoveries : RecoverRead(q, a)
    <3>1. PICK a \in Recoveries : RecoverRead(q, a)
      BY <2>8
    <3>2. [Idle EXCEPT !.kind = "recover", !.row = a].kind = "recover"
      BY DEF Idle
    <3> QED BY <2>3, <3>1, <3>2 DEF RecoverRead, Replaces
  <2>9. CASE ResetRead(q)
    <3> DEFINE f == [Idle EXCEPT !.kind = "reset", !.otp = user.otp, !.generation = user.generation,
                                 !.hash = user.hash, !.era = history.eras]
    <3>1. f.generation = user.generation /\ f.hash = user.hash /\ f.era = history.eras
      BY DEF Idle
    <3>2. requests' = [requests EXCEPT ![q] = f] /\ UNCHANGED account
      BY <2>9 DEF ResetRead, account
    <3> HIDE DEF f
    <3> QED BY <2>4, <3>1, <3>2
  <2>10. CASE UpdateRead(q)
    <3> DEFINE f == [Idle EXCEPT !.kind = "update", !.hash = user.hash, !.generation = user.generation,
                                 !.era = history.eras]
    <3>1. f.generation = user.generation /\ f.hash = user.hash /\ f.era = history.eras
      BY DEF Idle
    <3>2. requests' = [requests EXCEPT ![q] = f] /\ UNCHANGED account
      BY <2>10 DEF UpdateRead, account
    <3> HIDE DEF f
    <3> QED BY <2>4, <3>1, <3>2
  <2>5. LoginIssue(q) \/ ForgotWrite(q) \/ ResetWrite(q) \/ UpdateWrite(q) \/ GrantIssue(q) \/ RecoverWrite(q)
           => requests' = [requests EXCEPT ![q] = Idle]
    BY DEF LoginIssue, ForgotWrite, ResetWrite, UpdateWrite, GrantIssue, RecoverWrite
  <2> QED BY <1>2, <2>2, <2>5, <2>6, <2>7, <2>8, <2>9, <2>10 DEF RequestStep
<1>3. \/ UNCHANGED requests \/ \E q \in Requests : RequestStep(q)
  BY DEF Next, vars, Logout, Close, Restore, Tick, LoginStart, LoginCallback, LoginFinish,
         ReauthFinish, GrantStep, Link, Unlink, Generate, Activate, Remove, Cancel,
         RecoveryStart, RecoveryVerify
<1> QED BY <1>1, <1>2, <1>3

LEMMA NextSeen == ASSUME TypeOK, TypeOK', Seen, [Next]_vars PROVE Seen'
<1> SUFFICES ASSUME NEW r \in Requests, Replaces(requests'[r])
             PROVE  /\ requests'[r].generation <= user'.generation
                    /\ requests'[r].generation = user'.generation =>
                          requests'[r].hash = user'.hash /\ requests'[r].era = history'.eras
  BY DEF Seen, Replaces, Current
<1>0. user.generation \in Int /\ requests[r].generation \in Int
  BY CredentialsAssumption DEF TypeOK, UserType, RequestType
<1>1. CASE requests'[r] = requests[r]
  <2>1. /\ requests[r].generation <= user.generation
        /\ requests[r].generation = user.generation => Current(requests[r])
    BY <1>1 DEF Seen
  <2>2. CASE SameCredential
    BY <1>1, <2>1, <2>2 DEF SameCredential, Current
  <2>3. CASE user'.generation = user.generation + 1
    BY <1>0, <1>1, <2>1, <2>3
  <2> QED BY <2>2, <2>3, CredentialSteps
<1>2. CASE /\ UNCHANGED account
           /\ requests'[r].generation = user.generation /\ Current(requests'[r])
  BY <1>0, <1>2 DEF account, Current
<1> QED BY <1>1, <1>2, RequestSteps

LEMMA WritesWhatItRead ==
    ASSUME TypeOK, Seen, [Next]_vars, NEW r \in Requests, Replaces(requests[r]),
           requests'[r] = Idle, user'.hash # user.hash
    PROVE  requests[r].hash = user.hash /\ requests[r].era = history.eras
<1>1. requests[r] # Idle /\ requests' # requests
  BY DEF Replaces, Idle
<1>2. ASSUME NEW q \in Requests, RequestStep(q) PROVE q = r
  <2>1. \E f : requests' = [requests EXCEPT ![q] = f]
    BY <1>2 DEF RequestStep, LoginRead, LoginIssue, ForgotRead, ForgotWrite, ResetRead, ResetWrite,
                UpdateRead, UpdateWrite, GrantRead, GrantIssue, RecoverRead, RecoverWrite
  <2> QED BY <1>1, <2>1 DEF TypeOK
<1>3. RequestStep(r)
  BY <1>1, <1>2 DEF Next, vars, Logout, Close, Restore, Tick, LoginStart, LoginCallback, LoginFinish,
         ReauthFinish, GrantStep, Link, Unlink, Generate, Activate, Remove, Cancel,
         RecoveryStart, RecoveryVerify
<1>4. ResetWrite(r) \/ UpdateWrite(r)
  BY <1>1, <1>3 DEF Replaces, RequestStep, LoginRead, LoginIssue, ForgotRead, ForgotWrite, ResetRead,
                    UpdateRead, GrantRead, GrantIssue, RecoverRead, RecoverWrite
<1>5. requests[r].generation = user.generation
  BY <1>4 DEF ResetWrite, UpdateWrite
<1> QED BY <1>5 DEF Seen, Current

\* A reset or a change of password replaces exactly the password it saw when it began, and
\* no recovery or closure came between.
THEOREM NoBlindOverwriteHolds == Spec => NoBlindOverwrite
<1>1. Init => TypeOK /\ Seen
  <2>1. Init => \A r \in Requests : requests[r].kind = "idle"
    <3>1. Idle.kind = "idle"
      BY DEF Idle
    <3>2. Init => requests = [r \in Requests |-> Idle]
      BY DEF Init
    <3> HIDE DEF Idle
    <3> QED BY <3>1, <3>2
  <2> QED BY <2>1, InitTyped DEF Seen, Replaces
<1>2. TypeOK /\ Seen /\ [Next]_vars => (TypeOK /\ Seen)'
  BY NextTyped, NextSeen
<1>3. TypeOK /\ Seen /\ [Next]_vars =>
        [\A r \in Requests :
            (/\ requests[r].kind \in {"reset", "update"} /\ requests'[r] = Idle
             /\ user'.hash # user.hash) =>
                requests[r].hash = user.hash /\ requests[r].era = history.eras]_vars
  BY WritesWhatItRead DEF Replaces
<1> QED BY <1>1, <1>2, <1>3, PTL DEF Spec, NoBlindOverwrite

-----------------------------------------------------------------------------
(***************************************************************************)
(* Recovery codes.                                                         *)
(***************************************************************************)
LEMMA CodeSteps ==
    ASSUME TypeOK, [Next]_vars
    PROVE  \/ UNCHANGED codes
           \/ \E g \in Grants, c \in Codes : Generate(g, c) \/ Activate(g, c)
           \/ \E g \in Grants : Remove(g)
           \/ \E c \in Codes : Cancel(c)
           \/ \E r \in Requests : RecoverWrite(r) /\ codes' = Spent /\ user'.generation = user.generation + 1
<1>1. ASSUME NEW r \in Requests, RequestStep(r)
      PROVE  \/ UNCHANGED codes
             \/ RecoverWrite(r) /\ codes' = Spent /\ user'.generation = user.generation + 1
  <2>1. CASE RecoverWrite(r)
    <3>1. ASSUME NEW a, Recover(a) PROVE codes' = Spent /\ user'.generation = user.generation + 1
      BY <3>1 DEF Recover, TypeOK, UserType
    <3> QED BY <2>1, <3>1 DEF RecoverWrite
  <2>2. CASE ~RecoverWrite(r)
    BY <1>1, <2>2 DEF RequestStep, LoginRead, LoginIssue, ForgotRead, ForgotWrite, ResetRead, ResetWrite,
                      UpdateRead, UpdateWrite, GrantRead, GrantIssue, RecoverRead
  <2> QED BY <2>1, <2>2
<1>2. ASSUME NEW g \in Grants, GrantStep(g)
      PROVE  UNCHANGED codes \/ (\E c \in Codes : Generate(g, c) \/ Activate(g, c)) \/ Remove(g)
  BY <1>2 DEF GrantStep, Link, Unlink
<1> QED BY <1>1, <1>2 DEF Next, vars, Logout, Close, Restore, Tick, LoginStart, LoginCallback,
           LoginFinish, ReauthFinish, RecoveryStart, RecoveryVerify

\* A code that can still be used has recovered nothing.
Unused(x) == x.uses <= 1 /\ (x.status \in {"pending", "active"} => x.uses = 0)

LEMMA NextUnused == ASSUME TypeOK, OneRecoveryPerCode, [Next]_vars PROVE OneRecoveryPerCode'
<1> SUFFICES ASSUME NEW d \in Codes PROVE Unused(codes'[d])
  BY DEF OneRecoveryPerCode, Unused
<1>1. /\ Unused(codes[d]) /\ codes[d] \in CodeType
      /\ \A v \in {"active", "revoked"} : codes[d].status \in {"active", "pending"} =>
            Unused([codes[d] EXCEPT !.status = v])
  BY DEF OneRecoveryPerCode, Unused, TypeOK, CodeType
<1>2. CASE UNCHANGED codes
  BY <1>1, <1>2
<1>3. ASSUME NEW g \in Grants, NEW c \in Codes, Generate(g, c) PROVE Unused(codes'[d])
  <2> DEFINE f == [NoCode EXCEPT !.status = "pending", !.sid = session.sid,
                                 !.generation = user.generation, !.proof = grants[g].proof,
                                 !.hash = user.hash]
  <2>1. Unused(f)
    BY DEF NoCode, Unused
  <2>2. codes'[d] \in {f, codes[d]} \/ (codes[d].status = "pending" /\ codes'[d] = [codes[d] EXCEPT !.status = "revoked"])
    BY <1>3 DEF Generate
  <2> HIDE DEF f
  <2> QED BY <1>1, <2>1, <2>2
<1>4. ASSUME NEW g \in Grants, NEW c \in Codes, Activate(g, c) PROVE Unused(codes'[d])
  <2>1. \/ codes'[d] = codes[d]
        \/ codes[d].status = "pending" /\ codes'[d] = [codes[d] EXCEPT !.status = "active"]
        \/ codes[d].status = "active" /\ codes'[d] = [codes[d] EXCEPT !.status = "revoked"]
    BY <1>4 DEF Activate, Active
  <2> QED BY <1>1, <2>1
<1>5. ASSUME NEW g \in Grants, Remove(g) PROVE Unused(codes'[d])
  BY <1>1, <1>5 DEF Remove
<1>6. ASSUME NEW c \in Codes, Cancel(c) PROVE Unused(codes'[d])
  <2>1. \/ codes'[d] = codes[d]
        \/ codes[d].status = "pending" /\ codes'[d] = [codes[d] EXCEPT !.status = "revoked"]
    BY <1>6 DEF Cancel, TypeOK
  <2> QED BY <1>1, <2>1
<1>7. CASE codes' = Spent
  <2>1. \/ codes'[d] = codes[d]
        \/ codes[d].status = "active" /\ codes'[d] = [codes[d] EXCEPT !.status = "consumed", !.uses = @ + 1]
        \/ codes[d].status = "pending" /\ codes'[d] = [codes[d] EXCEPT !.status = "revoked"]
    BY <1>7 DEF Spent
  <2>2. codes[d].status = "active" => Unused([codes[d] EXCEPT !.status = "consumed", !.uses = @ + 1])
    BY <1>1 DEF Unused, CodeType
  <2> QED BY <1>1, <2>1, <2>2
<1> QED BY <1>2, <1>3, <1>4, <1>5, <1>6, <1>7, CodeSteps

\* However many attempts a recovery code verified, one of them completes.
THEOREM OneRecoveryPerCodeHolds == Spec => []OneRecoveryPerCode
<1>1. Init => TypeOK /\ OneRecoveryPerCode
  <2>1. ASSUME Init, NEW c \in Codes PROVE Unused(codes[c])
    BY <2>1 DEF Init, NoCode, Unused
  <2> QED BY <2>1, InitTyped DEF OneRecoveryPerCode, Unused
<1>2. TypeOK /\ OneRecoveryPerCode /\ [Next]_vars => (TypeOK /\ OneRecoveryPerCode)'
  BY NextTyped, NextUnused
<1> QED BY <1>1, <1>2, PTL DEF Spec

\* While the demand to re-enrol stands, a code pending under the current credentials was
\* generated with the password now stored, and not by an identity.
Enrolled(x) ==
    /\ x.generation <= user.generation
    /\ x.status = "pending" /\ x.generation = user.generation /\ user.reenroll =>
          x.proof = NoIdentity /\ x.hash = user.hash
Enrolment == \A c \in Codes : Enrolled(codes[c])

\* A code that is kept, or whose status changes other than to pending, stays enrolled
\* through every change of the account.
LEMMA KeepsEnrolled ==
    ASSUME TypeOK, [Next]_vars, NEW d \in Codes, Enrolled(codes[d]), NEW y,
           y.generation = codes[d].generation,
           \/ y.status # "pending"
           \/ y.proof = codes[d].proof /\ y.hash = codes[d].hash /\ y.status = codes[d].status
    PROVE  /\ y.generation <= user'.generation
           /\ y.status = "pending" /\ y.generation = user'.generation /\ user'.reenroll =>
                 y.proof = NoIdentity /\ y.hash = user'.hash
<1>1. codes[d].generation \in Int /\ user.generation \in Int
  BY CredentialsAssumption DEF TypeOK, CodeType, UserType
<1>2. CASE SameCredential
  BY <1>1, <1>2 DEF SameCredential, Enrolled
<1>3. CASE user'.generation = user.generation + 1
  BY <1>1, <1>3 DEF Enrolled
<1> QED BY <1>2, <1>3, CredentialSteps

LEMMA NextEnrolment == ASSUME TypeOK, Enrolment, [Next]_vars PROVE Enrolment'
<1> SUFFICES ASSUME NEW d \in Codes
             PROVE  LET y == codes'[d] IN
                    /\ y.generation <= user'.generation
                    /\ y.status = "pending" /\ y.generation = user'.generation /\ user'.reenroll =>
                          y.proof = NoIdentity /\ y.hash = user'.hash
  BY DEF Enrolment, Enrolled
<1>0. Enrolled(codes[d]) /\ codes[d] \in CodeType
  BY DEF Enrolment, TypeOK
<1> DEFINE Kept == /\ codes'[d].generation = codes[d].generation
                   /\ \/ codes'[d].status # "pending"
                      \/ /\ codes'[d].proof = codes[d].proof /\ codes'[d].hash = codes[d].hash
                         /\ codes'[d].status = codes[d].status
<1>1. CASE Kept
  BY <1>0, <1>1, KeepsEnrolled
<1>2. CASE UNCHANGED codes
  BY <1>1, <1>2
<1>3. ASSUME NEW x, x # "pending", codes'[d] = [codes[d] EXCEPT !.status = x] PROVE Kept
  BY <1>0, <1>3 DEF CodeType
<1>4. ASSUME NEW g \in Grants, NEW c \in Codes, Generate(g, c) PROVE Kept \/ d = c
  <2>1. d # c => codes'[d] = codes[d] \/ codes'[d] = [codes[d] EXCEPT !.status = "revoked"]
    BY <1>4 DEF Generate
  <2> QED BY <1>3, <2>1
<1>5. ASSUME NEW g \in Grants, Generate(g, d)
      PROVE  /\ codes'[d].generation = user'.generation
             /\ codes'[d].hash = user'.hash /\ (user'.reenroll => codes'[d].proof = NoIdentity)
  <2> DEFINE f == [NoCode EXCEPT !.status = "pending", !.sid = session.sid,
                                 !.generation = user.generation, !.proof = grants[g].proof,
                                 !.hash = user.hash]
  <2>1. f.generation = user.generation /\ f.hash = user.hash /\ f.proof = grants[g].proof
    BY DEF NoCode
  <2>2. codes'[d] = f /\ UNCHANGED user /\ EnrolsBy(g)
    BY <1>5 DEF Generate
  <2> HIDE DEF f
  <2> QED BY <2>1, <2>2 DEF EnrolsBy
<1>6. ASSUME NEW g \in Grants, NEW c \in Codes, Activate(g, c) PROVE Kept
  <2>1. \/ codes'[d] = codes[d] \/ codes'[d] = [codes[d] EXCEPT !.status = "active"]
        \/ codes'[d] = [codes[d] EXCEPT !.status = "revoked"]
    BY <1>6 DEF Activate
  <2> QED BY <1>3, <2>1
<1>7. ASSUME NEW g \in Grants, Remove(g) PROVE Kept
  <2>1. codes'[d] = codes[d] \/ codes'[d] = [codes[d] EXCEPT !.status = "revoked"]
    BY <1>7 DEF Remove
  <2> QED BY <1>3, <2>1
<1>8. ASSUME NEW c \in Codes, Cancel(c) PROVE Kept
  <2>1. codes'[d] = codes[d] \/ codes'[d] = [codes[d] EXCEPT !.status = "revoked"]
    BY <1>8 DEF Cancel, TypeOK
  <2> QED BY <1>3, <2>1
<1>9. CASE codes' = Spent
  <2>1. \/ codes'[d] = codes[d] \/ codes'[d] = [codes[d] EXCEPT !.status = "consumed", !.uses = @ + 1]
        \/ codes'[d] = [codes[d] EXCEPT !.status = "revoked"]
    BY <1>9 DEF Spent
  <2>2. codes'[d] = [codes[d] EXCEPT !.status = "consumed", !.uses = @ + 1] => Kept
    BY <1>0 DEF CodeType
  <2> QED BY <1>1, <1>3, <2>1, <2>2
<1>10. user'.generation \in Int
  BY NextTyped, CredentialsAssumption DEF TypeOK, UserType
<1> QED BY <1>1, <1>2, <1>4, <1>5, <1>6, <1>7, <1>8, <1>9, <1>10, CodeSteps

LEMMA LiftsByPassword ==
    ASSUME TypeOK, Enrolment, [Next]_vars, user.reenroll, ~user'.reenroll
    PROVE  \E c \in Codes : /\ codes[c].status = "pending" /\ codes'[c].status = "active"
                            /\ codes[c].proof = NoIdentity /\ codes[c].hash = user.hash
<1>1. PICK g \in Grants, c \in Codes : Activate(g, c)
  <2>1. user \in UserType
    BY DEF TypeOK
  <2>2. ~UNCHANGED user
    OBVIOUS
  <2>3. ~Changes /\ ~Mails /\ ~Close /\ ~Restore /\ \A a : ~Recover(a)
    BY <2>1 DEF Changes, Mails, Close, Restore, Recover, UserType
  <2> QED BY <2>2, <2>3, AccountSteps
          DEF account, ByPassword, ByIdentity, SignsIn, Logout, Link, Unlink
<1>2. codes[c].status = "pending" /\ codes[c].generation = user.generation
  BY <1>1 DEF Activate, Bound
<1>3. codes'[c].status = "active"
  BY <1>1 DEF Activate, TypeOK, CodeType
<1> QED BY <1>2, <1>3 DEF Enrolment, Enrolled

\* After a recovery only a code generated with the password it set lifts the demand to
\* re-enrol.
THEOREM ReenrolledByPasswordHolds == Spec => ReenrolledByPassword
<1>1. Init => TypeOK /\ Enrolment
  <2>1. ASSUME Init, NEW c \in Codes PROVE Enrolled(codes[c])
    BY <2>1 DEF Init, NoCode, Enrolled
  <2> QED BY <2>1, InitTyped DEF Enrolment
<1>2. TypeOK /\ Enrolment /\ [Next]_vars => (TypeOK /\ Enrolment)'
  BY NextTyped, NextEnrolment
<1>3. TypeOK /\ Enrolment /\ [Next]_vars =>
        [user.reenroll /\ ~user'.reenroll =>
            \E c \in Codes : /\ codes[c].status = "pending" /\ codes'[c].status = "active"
                             /\ codes[c].proof = NoIdentity /\ codes[c].hash = user.hash]_vars
  BY LiftsByPassword
<1> QED BY <1>1, <1>2, <1>3, PTL DEF Spec, ReenrolledByPassword

=============================================================================
