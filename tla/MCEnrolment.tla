------------------------------ MODULE MCEnrolment ------------------------------
(***************************************************************************)
(* How a provider vouches for a student, on small instances for TLC: that  *)
(* the student is enrolled, or that it is the student who logs in; one of  *)
(* the two busy per behaviour.                                             *)
(***************************************************************************)
EXTENDS Enrolment, TLC

CONSTANTS r1, ms, google

\* "none" is no provider identity.
ASSUME LoginAssumption == None \notin {ms, google}

VARIABLES
    busy, \* what takes steps
    user, session, linked, codes, grants, recoveries, logins, requests, now, history

\* One request beside one provider login, one code and one recovery.
Login == INSTANCE Credentials WITH
    Requests <- {r1}, Identities <- {ms, google}, Microsoft <- {ms}, NoIdentity <- None,
    MaxGeneration <- 1, MaxSessions <- 2, MaxMails <- 0, MaxCodes <- 1, MaxGrants <- 1,
    MaxRecoveries <- 1, MaxLogins <- 1, MaxTime <- 2

loginVars == <<user, session, linked, codes, grants, recoveries, logins, requests, now, history>>
allVars == <<busy, vars, loginVars>>

Symmetry == Permutations(Students) \cup Permutations(Schools) \cup Permutations(ProcessingGrants)

\* Kinds of trouble, each explored on its own.
Budget(checks, consents) == [[k \in Kinds |-> 0] EXCEPT !.checks = checks, !.consents = consents]
Troubles == {Budget(3, 0), [Budget(3, 0) EXCEPT !.moves = 2],
             [Budget(2, 0) EXCEPT !.policies = 1, !.withdrawals = 1],
             Budget(1, 1), [Budget(0, 1) EXCEPT !.moves = 1], [Budget(0, 1) EXCEPT !.policies = 1],
             [Budget(0, 2) EXCEPT !.withdrawals = 1]}

\* The idle one rests: nobody is enrolled, and the account is closed.
LoginIdle ==
    /\ user = [hash |-> 1, generation |-> 0, otp |-> 0, closed |-> TRUE, setup |-> FALSE,
               bound |-> FALSE, reenroll |-> FALSE, fence |-> 0]
    /\ session = Login!SignedOut /\ linked = {}
    /\ codes = <<Login!NoCode>> /\ grants = <<Login!NoGrant>>
    /\ recoveries = <<Login!NoRecovery>> /\ logins = <<Login!NoLogin>>
    /\ requests = [r \in {r1} |-> Login!Idle]
    /\ now = 1 /\ history = [hashes |-> 1, sessions |-> 0, mails |-> 0, eras |-> 0]

AllInit == \/ busy = "enrolment" /\ Init /\ LoginIdle
           \/ /\ busy = "login" /\ Login!Init
              /\ Init /\ budget = Budget(3, 0) /\ \A s \in Students : profile[s].school = None

AllNext == /\ UNCHANGED busy
           /\ \/ busy = "enrolment" /\ Next /\ UNCHANGED loginVars
              \/ busy = "login" /\ Login!Next /\ UNCHANGED vars

AllSpec == AllInit /\ [][AllNext]_allVars

\* Grants to change identities and recoveries are explored apart.
GrantOrRecovery ==
    grants[1].status = "none" \/ (recoveries[1].status = "none" /\ codes[1].status = "none")

\* The session that works was opened with a proof that still stands.
SessionProven == Login!SessionProven

\* The owner keeps a way to log in.
LoginRemains == Login!LoginRemains
=============================================================================
