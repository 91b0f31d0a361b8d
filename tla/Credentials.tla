------------------------------ MODULE Credentials ------------------------------
(***************************************************************************)
(* How one student account is entered: password, server session, provider *)
(* logins, recovery codes and closure.  Every credential change bumps      *)
(* credential_generation; slow requests (bcrypt compares and hashes) read  *)
(* the account, wait, and then write only if what they read still stands.  *)
(* Deadlines on codes, grants, attempts and mails only ever disable steps; *)
(* all properties here are safety properties, so nothing ever expires.     *)
(***************************************************************************)
EXTENDS Integers

CONSTANTS Requests,      \* requests that may be in flight at once
          Identities,    \* provider identities of the account's owner
          Microsoft,     \* those that can prove possession afresh
          NoIdentity,
          MaxGeneration, \* bound on credential changes
          MaxSessions, MaxMails, MaxCodes, MaxGrants, MaxRecoveries, MaxLogins,
          MaxTime        \* bound on the clock

ASSUME CredentialsAssumption ==
    /\ Microsoft \subseteq Identities /\ NoIdentity \notin Identities
    /\ MaxGeneration \in Nat /\ MaxSessions \in Nat /\ MaxMails \in Nat
    /\ MaxCodes \in Nat \ {0} /\ MaxGrants \in Nat /\ MaxRecoveries \in Nat
    /\ MaxLogins \in Nat /\ MaxTime \in Nat

VARIABLES
    user,       \* users: password, generation, reset OTP, closure and policy flags
    session,    \* users: refresh credential, active session and who issued it
    linked,     \* student_auth_identities that are not revoked
    codes,      \* student_auth_recovery_codes by generation
    grants,     \* student_auth_action_grants
    recoveries, \* student_auth_recovery_attempts
    logins,     \* student_auth_attempts: provider logins
    requests,   \* what each request in flight has read
    now,        \* the database clock
    history     \* hashes, sessions and mails so far; recoveries and closures

vars == <<user, session, linked, codes, grants, recoveries, logins, requests, now, history>>

Codes == 1..MaxCodes
Grants == 1..MaxGrants
Recoveries == 1..MaxRecoveries
Logins == 1..MaxLogins
Proofs == Identities \cup {NoIdentity}
Purposes == {"link", "unlink", "generate", "activate", "remove"}
Legacy == -1     \* a refresh token from before sessions had ids
NoSession == 0   \* active_session_id IS NULL; refresh_token_hash IS NULL
NoPassword == 0  \* password_hash IS NULL

\* What the current session was opened with: the password hash that was compared,
\* or the identity and the time its login attempt began.
NoProof == [hash |-> NoPassword, identity |-> NoIdentity, began |-> 0]
\* The hash a code was generated under and the recoveries it completed are history.
NoCode == [status |-> "none", sid |-> 0, generation |-> 0, proof |-> NoIdentity, hash |-> 0, uses |-> 0]
NoGrant == [status |-> "none", sid |-> 0, generation |-> 0, purpose |-> "link",
            target |-> NoIdentity, pending |-> 0, active |-> 0, proof |-> NoIdentity]
NoRecovery == [status |-> "none", generation |-> 0, code |-> 0, compromise |-> FALSE]
\* A scrubbed attempt has lost its browser bindings: no finish can answer for it.
NoLogin == [status |-> "none", created |-> 0, alias |-> FALSE]
Idle == [kind |-> "idle", hash |-> 0, generation |-> 0, otp |-> 0, sid |-> 0, era |-> 0,
         purpose |-> "link", target |-> NoIdentity, row |-> 0]

Proof == [hash : Nat, identity : Proofs, began : Nat]
UserType == [hash : Nat, generation : 0..MaxGeneration, otp : Nat, closed : BOOLEAN,
             setup : BOOLEAN, bound : BOOLEAN, reenroll : BOOLEAN, fence : Nat]
SessionType == [sid : Nat, refresh : Nat \cup {Legacy}, identity : Proofs, issued : Nat, proof : Proof]
CodeType == [status : {"none", "pending", "active", "consumed", "revoked"}, sid : Nat,
             generation : Nat, proof : Proofs, hash : Nat, uses : Nat]
GrantType == [status : {"none", "live", "consumed", "revoked"}, sid : Nat, generation : Nat,
              purpose : Purposes, target : Proofs, pending : 0..MaxCodes, active : 0..MaxCodes,
              proof : Proofs]
RecoveryType == [status : {"none", "pending", "verified", "consumed", "failed"}, generation : Nat,
                 code : 0..MaxCodes, compromise : BOOLEAN]
LoginType == [status : {"none", "pending", "processing", "ready", "consumed", "failed", "scrubbed"},
              created : Nat, alias : BOOLEAN]
RequestType == [kind : {"idle", "login", "forgot", "reset", "update", "grant", "recover"},
                hash : Nat, generation : Nat, otp : Nat, sid : Nat, era : Nat,
                purpose : Purposes, target : Proofs, row : Nat]
HistoryType == [hashes : Nat, sessions : Nat, mails : Nat, eras : Nat]

\* An account made with a password, perhaps before sessions had ids, or one made by
\* a provider login, which only a recovery code may ever give a password.
Init ==
    /\ \E setup \in BOOLEAN :
         /\ user = [hash |-> IF setup THEN NoPassword ELSE 1, generation |-> 0, otp |-> 0,
                    closed |-> FALSE, setup |-> setup, bound |-> FALSE, reenroll |-> FALSE, fence |-> 0]
         /\ \E token \in {NoSession, Legacy} :
              /\ setup => token = NoSession
              /\ session = [sid |-> NoSession, refresh |-> token, identity |-> NoIdentity,
                            issued |-> 0, proof |-> NoProof]
         /\ linked \in SUBSET Identities
         /\ setup => linked # {}
    /\ \E status \in {"none", "active"} :
         codes = [c \in Codes |-> IF c = 1 THEN [NoCode EXCEPT !.status = status] ELSE NoCode]
    /\ grants = [g \in Grants |-> NoGrant]
    /\ recoveries = [a \in Recoveries |-> NoRecovery]
    /\ logins = [a \in Logins |-> NoLogin]
    /\ requests = [r \in Requests |-> Idle]
    /\ now = 1
    /\ history = [hashes |-> 1, sessions |-> 0, mails |-> 0, eras |-> 0]

\* Besides the types: what the row of a request names, and that a refresh token belongs
\* to the session that is active.
TypeOK ==
    /\ user \in UserType /\ session \in SessionType /\ linked \subseteq Identities
    /\ codes \in [Codes -> CodeType] /\ grants \in [Grants -> GrantType]
    /\ recoveries \in [Recoveries -> RecoveryType] /\ logins \in [Logins -> LoginType]
    /\ requests \in [Requests -> RequestType] /\ now \in Nat \ {0} /\ history \in HistoryType
    /\ \A r \in Requests : /\ requests[r].kind = "grant" => requests[r].row \in 0..MaxCodes
                           /\ requests[r].kind = "recover" => requests[r].row \in Recoveries
    /\ session.refresh \in {NoSession, IF session.sid = NoSession THEN Legacy ELSE session.sid}

-----------------------------------------------------------------------------
\* Sessions.

\* The middleware lets in an access token with a session id while that session is active,
\* and a token without one unless the account is bound to sessions.
AcceptedLegacy == ~user.closed /\ ~user.setup /\ ~user.reenroll /\ ~user.bound

\* refreshSession mints an access token for this refresh token.
Refreshes(token) ==
    /\ ~user.closed /\ token = session.refresh
    /\ IF token = Legacy THEN session.sid = NoSession ELSE token = session.sid

\* Someone may act for the account now: with a live session, or with a token from
\* before sessions had ids.
SignedIn == ~user.closed /\ (session.sid # NoSession \/ AcceptedLegacy)

\* issueSessionInTransaction, with the identity an SSO caller stamps afterwards.
Issue(identity, proof) ==
    /\ history.sessions < MaxSessions
    /\ history' = [history EXCEPT !.sessions = @ + 1]
    /\ session' = [sid |-> history'.sessions, refresh |-> history'.sessions,
                   identity |-> identity, issued |-> now, proof |-> proof]

SignedOut == [sid |-> NoSession, refresh |-> NoSession, identity |-> NoIdentity,
              issued |-> 0, proof |-> NoProof]

\* A changed password drops the session but leaves the column naming its identity.
Dropped == [SignedOut EXCEPT !.identity = session.identity]

LoginRead(r) ==
    /\ requests[r] = Idle /\ ~user.closed /\ user.hash # NoPassword /\ history.sessions < MaxSessions
    /\ requests' = [requests EXCEPT ![r] = [Idle EXCEPT !.kind = "login", !.hash = user.hash]]
    /\ UNCHANGED <<user, session, linked, codes, grants, recoveries, logins, now, history>>

\* Mutated: a session is issued whatever became of the password that was compared.
LoginUnderAnyHash(r) ==
    /\ requests[r].kind = "login"
    /\ requests' = [requests EXCEPT ![r] = Idle]
    /\ \/ ~user.closed /\ Issue(NoIdentity, [NoProof EXCEPT !.hash = requests[r].hash])
       \/ user.closed /\ UNCHANGED <<session, history>>
    /\ UNCHANGED <<user, linked, codes, grants, recoveries, logins, now>>

\* Mutated: the issuing statement does not look at deleted_at again.
LoginToClosed(r) ==
    /\ requests[r].kind = "login"
    /\ requests' = [requests EXCEPT ![r] = Idle]
    /\ \/ user.hash = requests[r].hash /\ Issue(NoIdentity, [NoProof EXCEPT !.hash = requests[r].hash])
       \/ user.hash # requests[r].hash /\ UNCHANGED <<session, history>>
    /\ UNCHANGED <<user, linked, codes, grants, recoveries, logins, now>>

LoginIssue(r) ==
    /\ requests[r].kind = "login"
    /\ requests' = [requests EXCEPT ![r] = Idle]
    /\ LET fits == ~user.closed /\ user.hash = requests[r].hash IN
       \/ fits /\ Issue(NoIdentity, [NoProof EXCEPT !.hash = requests[r].hash])
       \/ ~fits /\ UNCHANGED <<session, history>>
    /\ UNCHANGED <<user, linked, codes, grants, recoveries, logins, now>>

\* A refresh token revokes the session it refreshes and no other.
Logout ==
    /\ session.refresh # NoSession
    /\ session' = SignedOut
    /\ UNCHANGED <<user, linked, codes, grants, recoveries, logins, requests, now, history>>

-----------------------------------------------------------------------------
\* Passwords.

\* SET password_hash = $new, credential_generation = credential_generation + 1.
NewPassword(eras) ==
    /\ user.generation < MaxGeneration
    /\ history' = [history EXCEPT !.hashes = @ + 1, !.eras = @ + eras]

ForgotRead(r) ==
    /\ requests[r] = Idle /\ ~user.closed /\ ~user.setup /\ history.mails < MaxMails
    /\ requests' = [requests EXCEPT ![r] = [Idle EXCEPT !.kind = "forgot"]]
    /\ UNCHANGED <<user, session, linked, codes, grants, recoveries, logins, now, history>>

\* The write names only the row: it lands whatever happened since the read.
ForgotWrite(r) ==
    /\ requests[r].kind = "forgot" /\ history.mails < MaxMails
    /\ requests' = [requests EXCEPT ![r] = Idle]
    /\ history' = [history EXCEPT !.mails = @ + 1]
    /\ user' = [user EXCEPT !.otp = history'.mails]
    /\ UNCHANGED <<session, linked, codes, grants, recoveries, logins, now>>

ResetRead(r) ==
    /\ requests[r] = Idle /\ ~user.closed /\ ~user.setup /\ user.otp # 0
    /\ requests' = [requests EXCEPT ![r] =
         [Idle EXCEPT !.kind = "reset", !.otp = user.otp, !.generation = user.generation,
                      !.hash = user.hash, !.era = history.eras]]
    /\ UNCHANGED <<user, session, linked, codes, grants, recoveries, logins, now, history>>

ResetWrite(r) ==
    /\ requests[r].kind = "reset"
    /\ requests' = [requests EXCEPT ![r] = Idle]
    /\ LET fits == ~user.closed /\ user.otp = requests[r].otp
                   /\ user.generation = requests[r].generation IN
       \/ /\ fits /\ NewPassword(0)
          /\ user' = [user EXCEPT !.hash = history'.hashes, !.otp = 0, !.generation = @ + 1]
          /\ session' = Dropped
       \/ ~fits /\ UNCHANGED <<user, session, history>>
    /\ UNCHANGED <<linked, codes, grants, recoveries, logins, now>>

UpdateRead(r) ==
    /\ requests[r] = Idle /\ SignedIn /\ user.hash # NoPassword
    /\ requests' = [requests EXCEPT ![r] =
         [Idle EXCEPT !.kind = "update", !.hash = user.hash, !.generation = user.generation,
                      !.era = history.eras]]
    /\ UNCHANGED <<user, session, linked, codes, grants, recoveries, logins, now, history>>

\* Mutated: the new hash is written to whatever row has this id.
UpdateBlindly(r) ==
    /\ requests[r].kind = "update" /\ ~user.closed /\ NewPassword(0)
    /\ requests' = [requests EXCEPT ![r] = Idle]
    /\ user' = [user EXCEPT !.hash = history'.hashes, !.generation = @ + 1]
    /\ session' = Dropped
    /\ UNCHANGED <<linked, codes, grants, recoveries, logins, now>>

UpdateWrite(r) ==
    /\ requests[r].kind = "update"
    /\ requests' = [requests EXCEPT ![r] = Idle]
    /\ LET fits == ~user.closed /\ user.hash = requests[r].hash
                   /\ user.generation = requests[r].generation IN
       \/ /\ fits /\ NewPassword(0)
          /\ user' = [user EXCEPT !.hash = history'.hashes, !.generation = @ + 1]
          /\ session' = Dropped
       \/ ~fits /\ UNCHANGED <<user, session, history>>
    /\ UNCHANGED <<linked, codes, grants, recoveries, logins, now>>

-----------------------------------------------------------------------------
\* Closure.

\* closeOwnAccount checks the session and the password (or the phrase) under the row lock.
Close ==
    /\ SignedIn /\ user.generation < MaxGeneration
    /\ user' = [user EXCEPT !.closed = TRUE, !.otp = 0, !.fence = now,
                            !.generation = @ + 1, !.bound = TRUE]
    /\ session' = SignedOut
    /\ history' = [history EXCEPT !.eras = @ + 1]
    /\ UNCHANGED <<linked, codes, grants, recoveries, logins, requests, now>>

\* Support reopens an account by clearing deleted_at alone.
Restore ==
    /\ user.closed
    /\ user' = [user EXCEPT !.closed = FALSE]
    /\ UNCHANGED <<session, linked, codes, grants, recoveries, logins, requests, now, history>>

-----------------------------------------------------------------------------
\* Provider logins.

IsNext(rows, i) == rows[i].status = "none" /\ \A j \in DOMAIN rows : j < i => rows[j].status # "none"

LoginStart(a, alias) ==
    /\ IsNext(logins, a)
    /\ logins' = [logins EXCEPT ![a] = [status |-> "pending", created |-> now, alias |-> alias]]
    /\ UNCHANGED <<user, session, linked, codes, grants, recoveries, requests, now, history>>

\* The callback claims the attempt, redeems its code at the provider and stores what it saw.
LoginCallback(a) ==
    /\ \/ logins[a].status = "pending" /\ logins' = [logins EXCEPT ![a].status = "processing"]
       \/ /\ logins[a].status = "processing"
          /\ \E status \in {"ready", "failed"} : logins' = [logins EXCEPT ![a].status = status]
    /\ UNCHANGED <<user, session, linked, codes, grants, recoveries, requests, now, history>>

\* Attempts of this mailbox that no callback has completed are abandoned by a restart.
Restarted(a) ==
    [b \in Logins |->
        IF \/ b = a /\ logins[b].status = "ready"
           \/ b # a /\ logins[b].status \in {"pending", "processing"} /\ logins[b].alias = logins[a].alias
        THEN [logins[b] EXCEPT !.status = "failed"] ELSE logins[b]]

\* Mutated: an attempt as old as the fence passes it.
FencedLoosely(a) == logins[a].created < user.fence

\* The attempt began before the account was last recovered or closed.
Fenced(a) == logins[a].created <= user.fence
\* Another tab signed in after the attempt began.
Overtaken(a) == session.sid # NoSession /\ session.issued > logins[a].created

LoginFinish(a, i) ==
    /\ \/ /\ logins[a].status = "ready" /\ i \in linked /\ ~user.closed
          /\ \/ /\ ~Fenced(a) /\ ~Overtaken(a)
                /\ Issue(i, [NoProof EXCEPT !.identity = i, !.began = logins[a].created])
                /\ logins' = [logins EXCEPT ![a].status = "consumed"]
             \/ /\ Fenced(a) \/ Overtaken(a)
                /\ logins' = Restarted(a)
                /\ UNCHANGED <<session, history>>
       \/ /\ logins[a].status \in {"consumed", "failed"}
          /\ logins' = Restarted(a)
          /\ UNCHANGED <<session, history>>
    /\ UNCHANGED <<user, linked, codes, grants, recoveries, requests, now>>

-----------------------------------------------------------------------------
\* One-use grants for sensitive actions, by password or by a fresh provider proof.

Active == {c \in Codes : codes[c].status = "active"}
ActiveGeneration == IF Active = {} THEN 0 ELSE CHOOSE c \in Active : TRUE

Grant(g, purpose, target, c, proof) ==
    /\ IsNext(grants, g)
    /\ c # 0 => codes[c].status # "none"
    /\ grants' = [grants EXCEPT ![g] =
         [status |-> "live", sid |-> session.sid, generation |-> user.generation,
          purpose |-> purpose, target |-> target, pending |-> c,
          active |-> ActiveGeneration, proof |-> proof]]

\* reauth: the password is compared outside the transaction that issues the grant.
GrantRead(r, purpose, target, c) ==
    /\ requests[r] = Idle /\ session.sid # NoSession /\ ~user.closed /\ user.hash # NoPassword
    /\ \E g \in Grants : IsNext(grants, g)
    /\ requests' = [requests EXCEPT ![r] =
         [Idle EXCEPT !.kind = "grant", !.hash = user.hash, !.sid = session.sid,
                      !.purpose = purpose, !.target = target, !.row = c]]
    /\ UNCHANGED <<user, session, linked, codes, grants, recoveries, logins, now, history>>

GrantIssue(r) ==
    /\ requests[r].kind = "grant"
    /\ requests' = [requests EXCEPT ![r] = Idle]
    /\ LET fits == /\ ~user.closed /\ user.hash = requests[r].hash /\ session.sid = requests[r].sid
                   /\ requests[r].target \in linked \cup {NoIdentity} IN
       \/ fits /\ \E g \in Grants : Grant(g, requests[r].purpose, requests[r].target, requests[r].row, NoIdentity)
       \/ ~fits /\ UNCHANGED grants
    /\ UNCHANGED <<user, session, linked, codes, recoveries, logins, now, history>>

\* A Microsoft ceremony begun in this session and generation has proved identity i.
ReauthFinish(i, purpose, target, c) ==
    /\ session.sid # NoSession /\ ~user.closed /\ i \in linked \cap Microsoft
    /\ \E g \in Grants : Grant(g, purpose, target, c, i)
    /\ UNCHANGED <<user, session, linked, codes, recoveries, logins, requests, now, history>>

\* consumeActionGrant, after the caller has locked the account and checked the proof.
Consumable(g, purpose) ==
    /\ grants[g].status = "live" /\ grants[g].purpose = purpose
    /\ ~user.closed /\ session.sid # NoSession /\ grants[g].sid = session.sid
    /\ grants[g].generation = user.generation
    /\ grants[g].proof \in linked \cup {NoIdentity}
Consume(g) == grants' = [grants EXCEPT ![g].status = "consumed"]

Link(g, i) ==
    /\ Consumable(g, "link") /\ i \notin linked
    /\ Consume(g)
    /\ linked' = linked \cup {i}
    /\ UNCHANGED <<user, session, codes, recoveries, logins, requests, now, history>>

\* Mutated: the identity to be removed is counted among those that remain.
RemovableCounted(i) == user.hash = NoPassword => linked # {}

\* Another way in must remain, and a passwordless owner must keep a way to prove possession.
Removable(i) ==
    user.hash = NoPassword =>
        /\ linked \ {i} # {}
        /\ i \in Microsoft => (linked \ {i}) \cap Microsoft # {}

Unlink(g, i) ==
    /\ Consumable(g, "unlink") /\ grants[g].target = i /\ i \in linked /\ Removable(i)
    /\ Consume(g)
    /\ linked' = linked \ {i}
    /\ \/ session.identity = i /\ session' = [SignedOut EXCEPT !.issued = session.issued]
       \/ session.identity # i /\ UNCHANGED session
    /\ UNCHANGED <<user, codes, recoveries, logins, requests, now, history>>

-----------------------------------------------------------------------------
\* Recovery codes.  The owner presents the active code wherever the code asks for it.

\* Mutated: a linked identity may start enrolment after a recovery.
EnrolsByAnyProof(g) == TRUE

EnrolsBy(g) == user.reenroll => grants[g].proof = NoIdentity

\* generate supersedes a pending candidate and binds the new one to session and generation.
Generate(g, c) ==
    /\ Consumable(g, "generate") /\ grants[g].active = ActiveGeneration /\ EnrolsBy(g)
    /\ IsNext(codes, c)
    /\ Consume(g)
    /\ codes' = [d \in Codes |->
         IF d = c THEN [NoCode EXCEPT !.status = "pending", !.sid = session.sid,
                                      !.generation = user.generation, !.proof = grants[g].proof,
                                      !.hash = user.hash]
         ELSE IF codes[d].status = "pending" THEN [codes[d] EXCEPT !.status = "revoked"] ELSE codes[d]]
    /\ UNCHANGED <<user, session, linked, recoveries, logins, requests, now, history>>

Bound(c) == codes[c].sid = session.sid /\ codes[c].generation = user.generation

Activate(g, c) ==
    /\ Consumable(g, "activate") /\ grants[g].pending = c /\ grants[g].active = ActiveGeneration
    /\ codes[c].status = "pending" /\ Bound(c) /\ codes[c].proof \in linked \cup {NoIdentity}
    /\ Consume(g)
    /\ codes' = [d \in Codes |->
         IF d = c THEN [codes[d] EXCEPT !.status = "active"]
         ELSE IF d \in Active THEN [codes[d] EXCEPT !.status = "revoked"] ELSE codes[d]]
    /\ user' = [user EXCEPT !.reenroll = FALSE]
    /\ UNCHANGED <<session, linked, recoveries, logins, requests, now, history>>

\* Both the active code and a pending one go.
Remove(g) ==
    /\ Consumable(g, "remove") /\ Active # {} /\ grants[g].active = ActiveGeneration
    /\ Consume(g)
    /\ codes' = [d \in Codes |-> IF codes[d].status \in {"active", "pending"}
                                 THEN [codes[d] EXCEPT !.status = "revoked"] ELSE codes[d]]
    /\ UNCHANGED <<user, session, linked, recoveries, logins, requests, now, history>>

Cancel(c) ==
    /\ ~user.closed /\ session.sid # NoSession /\ codes[c].status = "pending"
    /\ codes' = [codes EXCEPT ![c].status = "revoked"]
    /\ UNCHANGED <<user, session, linked, grants, recoveries, logins, requests, now, history>>

-----------------------------------------------------------------------------
\* Recovery with a code and a mailed OTP.

\* start: the bound caller supersedes its pending attempt; anybody else gets a decoy,
\* which leaves the account alone.
RecoveryStart(a, compromise) ==
    /\ ~user.closed /\ Active # {} /\ IsNext(recoveries, a)
    /\ recoveries' = [b \in Recoveries |->
         IF b = a THEN [status |-> "pending", generation |-> user.generation,
                        code |-> ActiveGeneration, compromise |-> compromise]
         ELSE IF recoveries[b].status = "pending" THEN [recoveries[b] EXCEPT !.status = "failed"]
         ELSE recoveries[b]]
    /\ UNCHANGED <<user, session, linked, codes, grants, logins, requests, now, history>>

\* The attempt still speaks for the account it began on.
Pinned(a) ==
    /\ ~user.closed /\ recoveries[a].generation = user.generation
    /\ Active # {} /\ recoveries[a].code = ActiveGeneration

RecoveryVerify(a) ==
    /\ recoveries[a].status = "pending"
    /\ \/ Pinned(a) /\ recoveries' = [recoveries EXCEPT ![a].status = "verified"]
       \/ ~Pinned(a) /\ recoveries' = [recoveries EXCEPT ![a].status = "failed"]
    /\ UNCHANGED <<user, session, linked, codes, grants, logins, requests, now, history>>

\* complete previews the attempt, hashes the password, then rechecks everything under locks.
RecoverRead(r, a) ==
    /\ requests[r] = Idle /\ recoveries[a].status = "verified"
    /\ requests' = [requests EXCEPT ![r] = [Idle EXCEPT !.kind = "recover", !.row = a]]
    /\ UNCHANGED <<user, session, linked, codes, grants, recoveries, logins, now, history>>

\* Mutated: the code that authorized the recovery stays active.
Unspent ==
    [c \in Codes |-> IF codes[c].status = "active" THEN [codes[c] EXCEPT !.uses = @ + 1]
                     ELSE IF codes[c].status = "pending" THEN [codes[c] EXCEPT !.status = "revoked"]
                     ELSE codes[c]]
Spent ==
    [c \in Codes |-> IF codes[c].status = "active"
                     THEN [codes[c] EXCEPT !.status = "consumed", !.uses = @ + 1]
                     ELSE IF codes[c].status = "pending" THEN [codes[c] EXCEPT !.status = "revoked"]
                     ELSE codes[c]]

Recover(a) ==
    /\ NewPassword(1)
    /\ codes' = Spent
    /\ user' = [user EXCEPT !.hash = history'.hashes, !.otp = 0, !.generation = @ + 1,
                            !.fence = now, !.reenroll = TRUE, !.bound = TRUE]
    /\ session' = SignedOut
    /\ grants' = [g \in Grants |-> IF grants[g].status = "live"
                                   THEN [grants[g] EXCEPT !.status = "revoked"] ELSE grants[g]]
    /\ linked' = IF recoveries[a].compromise THEN {} ELSE linked
    /\ logins' = [b \in Logins |->
         IF ~logins[b].alias /\ logins[b].status \in {"pending", "processing", "ready"}
         THEN [logins[b] EXCEPT !.status = "scrubbed"] ELSE logins[b]]
    /\ recoveries' = [b \in Recoveries |->
         IF b = a THEN [recoveries[b] EXCEPT !.status = "consumed"]
         ELSE IF recoveries[b].status \in {"pending", "verified"}
         THEN [recoveries[b] EXCEPT !.status = "failed"] ELSE recoveries[b]]

RecoverWrite(r) ==
    /\ requests[r].kind = "recover"
    /\ requests' = [requests EXCEPT ![r] = Idle]
    /\ LET a == requests[r].row
           fits == Pinned(a) /\ recoveries[a].status = "verified" IN
       \/ fits /\ Recover(a)
       \/ ~fits /\ UNCHANGED <<user, session, linked, codes, grants, recoveries, logins, history>>
    /\ UNCHANGED now

-----------------------------------------------------------------------------
Tick == /\ now < MaxTime /\ now' = now + 1
        /\ UNCHANGED <<user, session, linked, codes, grants, recoveries, logins, requests, history>>

\* What a grant is for: an identity to remove, a pending code to activate, or neither.
Aims == {[purpose |-> p, target |-> NoIdentity, row |-> 0] : p \in {"link", "generate", "remove"}}
        \cup {[purpose |-> "unlink", target |-> i, row |-> 0] : i \in Identities}
        \cup {[purpose |-> "activate", target |-> NoIdentity, row |-> c] : c \in Codes}

RequestStep(r) ==
    \/ LoginRead(r) \/ LoginIssue(r) \/ ForgotRead(r) \/ ForgotWrite(r)
    \/ ResetRead(r) \/ ResetWrite(r) \/ UpdateRead(r) \/ UpdateWrite(r)
    \/ \E aim \in Aims : GrantRead(r, aim.purpose, aim.target, aim.row)
    \/ GrantIssue(r)
    \/ \E a \in Recoveries : RecoverRead(r, a)
    \/ RecoverWrite(r)

GrantStep(g) ==
    \/ \E i \in Identities : Link(g, i) \/ Unlink(g, i)
    \/ \E c \in Codes : Generate(g, c) \/ Activate(g, c)
    \/ Remove(g)

Next ==
    \/ \E r \in Requests : RequestStep(r)
    \/ Logout \/ Close \/ Restore \/ Tick
    \/ \E a \in Logins : \/ \E alias \in BOOLEAN : LoginStart(a, alias)
                         \/ LoginCallback(a)
                         \/ \E i \in Identities : LoginFinish(a, i)
    \/ \E i \in Identities, aim \in Aims : ReauthFinish(i, aim.purpose, aim.target, aim.row)
    \/ \E g \in Grants : GrantStep(g)
    \/ \E c \in Codes : Cancel(c)
    \/ \E a \in Recoveries : \/ \E compromise \in BOOLEAN : RecoveryStart(a, compromise)
                             \/ RecoveryVerify(a)

Spec == Init /\ [][Next]_vars

-----------------------------------------------------------------------------
\* The session that works was opened with the password now stored, or through an identity
\* still linked by an attempt begun after the last recovery or closure: a slow compare, a
\* late callback or a removed identity never leaves a session behind.
SessionProven ==
    session.sid # NoSession =>
        \/ session.proof.identity = NoIdentity /\ session.proof.hash = user.hash
        \/ session.proof.identity \in linked /\ session.proof.began > user.fence

\* A closed account has no session and no refresh token, whatever was in flight when it
\* closed; after a closure or a recovery no token without a session id works again, not
\* even on a restored account.
ClosedSignedOut ==
    /\ user.closed => session.sid = NoSession /\ session.refresh = NoSession
    /\ history.eras > 0 => ~AcceptedLegacy /\ ~Refreshes(Legacy)

\* A reset or a change of password replaces exactly the password it saw when it began,
\* and no recovery or closure came between.
NoBlindOverwrite ==
    [][\A r \in Requests :
        (/\ requests[r].kind \in {"reset", "update"} /\ requests'[r] = Idle
         /\ user'.hash # user.hash) =>
            requests[r].hash = user.hash /\ requests[r].era = history.eras]_vars

\* A recovery code recovers the account once: however many attempts it verified, one
\* completes, and a code still active has recovered nothing.
OneRecoveryPerCode ==
    \A c \in Codes : codes[c].uses <= 1 /\ (codes[c].status \in {"pending", "active"} => codes[c].uses = 0)

\* After a recovery only a code enrolled with the password the recovery set lifts the
\* demand to re-enrol; one pending from before, or proved by an identity, never does.
ReenrolledByPassword ==
    [][user.reenroll /\ ~user'.reenroll =>
        \E c \in Codes : /\ codes[c].status = "pending" /\ codes'[c].status = "active"
                         /\ codes[c].proof = NoIdentity /\ codes[c].hash = user.hash]_vars

\* However identities are removed or revoked, the owner keeps a way in.
LoginRemains == user.hash # NoPassword \/ linked # {}
=============================================================================
