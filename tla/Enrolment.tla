------------------------------- MODULE Enrolment -------------------------------
(***************************************************************************)
(* How a student comes to be enrolled: the institution confirms a          *)
(* registration number, or Microsoft attests membership.  Both ask a       *)
(* provider outside any transaction, while the student changes school or   *)
(* name, consent is withdrawn, the institution changes its policy, another *)
(* check is begun or the Microsoft account is unlinked.                    *)
(*                                                                         *)
(* An action is one transaction: each of them locks the student's user,    *)
(* profile and institution rows before it reads anything it depends on.    *)
(***************************************************************************)
EXTENDS Naturals

CONSTANTS Students, Schools, Numbers,
          ProcessingGrants, \* consents to verification processing
          Checks,    \* requests that wait for an institution's answer
          Consents, Attempts, Objects, \* of Microsoft; Objects are accounts there
          Budgets    \* bounds on whatever may happen without end, see Kinds

None == "none"

\* What Budgets bounds: checks begun, consents to Microsoft, changes of school
\* or profile, of the institution's or the provider's policy, withdrawals.
Kinds == {"checks", "consents", "moves", "policies", "withdrawals"}

ASSUME EnrolmentAssumption ==
    /\ None \notin Students \cup Schools \cup Numbers \cup Attempts \cup Objects
    /\ Budgets \subseteq [Kinds -> Nat]

VARIABLES
    profile,  \* school and identity version of a student
    policy,   \* verification policy version of an institution
    provider, \* version of its Microsoft policy
    grant,    \* verification_consents of kind processing
    state,    \* student_eligibility_state
    check,    \* snapshots of the checks that are out
    reserved, \* verified_registration_identities that are not revoked
    evidence, \* enrolment evidence, neither revoked nor expired
    consent,  \* microsoft_verification_consents
    attempt,  \* microsoft_verification_attempts
    identity, \* microsoft_identities
    past,     \* history: attempts that existed when their account was unlinked
    budget

studentVars == <<profile, grant, state>>
policyVars == <<policy, provider>>
microsoftVars == <<consent, attempt, identity, past>>
vars == <<studentVars, policyVars, check, reserved, evidence, microsoftVars, budget>>

School == Schools \cup {None}
ContextType == [school : Schools, version : Nat, policy : Nat]

\* The part of StudentContext that evidence is bound to.
Context(s) == [school |-> profile[s].school, version |-> profile[s].version,
               policy |-> policy[profile[s].school]]
NoContext == [school |-> None, version |-> 0, policy |-> 0]

\* Rows, and what stands for a row that does not exist.
GrantType == [student : Students, school : Schools, standing : BOOLEAN]
NoGrant == [student |-> None, school |-> None, standing |-> FALSE]

StateType == [asked : Nat, applied : Nat, denied : BOOLEAN]
NoState == [asked |-> 0, applied |-> 0, denied |-> FALSE]

CheckType == [student : Students, context : ContextType, grant : ProcessingGrants,
              number : Numbers, generation : Nat, denied : BOOLEAN]
NoCheck == [student |-> None, context |-> NoContext, grant |-> None, number |-> None,
            generation |-> 0, denied |-> FALSE]

ConsentType == [student : Students, school : Schools, grant : ProcessingGrants,
                provider : Nat, standing : BOOLEAN]
NoConsent == [student |-> None, school |-> None, grant |-> None, provider |-> 0, standing |-> FALSE]

Over == {"completed", "failed"}
AttemptType == [status : {"pending", "processing", "ready"} \cup Over,
                student : Students, context : ContextType, grant : ProcessingGrants,
                consent : Consents, provider : Nat, object : Objects \cup {None},
                member : BOOLEAN, receipt : {None, "eligible", "unconfirmed", "denied"}]
NoAttempt == [status |-> "none", student |-> None, context |-> NoContext, grant |-> None,
              consent |-> None, provider |-> 0, object |-> None, member |-> FALSE, receipt |-> None]

IdentityType == [student : Students, school : Schools, linked : BOOLEAN, by : Attempts]
NoIdentity == [student |-> None, school |-> None, linked |-> FALSE, by |-> None]

\* Evidence by registration has no attempt, and by Microsoft no number.
\* asked is history: the context in which the provider was asked.
EvidenceType == [student : Students, context : ContextType, asked : ContextType,
                 grant : ProcessingGrants, number : Numbers \cup {None},
                 attempt : Attempts \cup {None}, proof : BOOLEAN]

TypeOK ==
    /\ profile \in [Students -> [school : School, version : Nat]]
    /\ policy \in [Schools -> Nat] /\ provider \in [Schools -> Nat]
    /\ grant \in [ProcessingGrants -> GrantType \cup {NoGrant}]
    /\ state \in [Students -> [Schools -> StateType]]
    /\ check \in [Checks -> CheckType \cup {NoCheck}]
    /\ reserved \subseteq [school : Schools, number : Numbers, student : Students]
    /\ evidence \subseteq EvidenceType
    /\ consent \in [Consents -> ConsentType \cup {NoConsent}]
    /\ attempt \in [Attempts -> AttemptType \cup {NoAttempt}]
    /\ identity \in [Objects -> IdentityType \cup {NoIdentity}]
    /\ past \subseteq Attempts
    /\ budget \in [Kinds -> Nat]

Init ==
    /\ profile \in [Students -> [school : School, version : {1}]]
    /\ policy = [u \in Schools |-> 1] /\ provider = [u \in Schools |-> 1]
    /\ grant = [g \in ProcessingGrants |-> NoGrant]
    /\ state = [s \in Students |-> [u \in Schools |-> NoState]]
    /\ check = [c \in Checks |-> NoCheck]
    /\ reserved = {} /\ evidence = {}
    /\ consent = [k \in Consents |-> NoConsent]
    /\ attempt = [a \in Attempts |-> NoAttempt]
    /\ identity = [o \in Objects |-> NoIdentity]
    /\ past = {}
    /\ budget \in Budgets

Spend(kind) == budget[kind] > 0 /\ budget' = [budget EXCEPT ![kind] = @ - 1]

-----------------------------------------------------------------------------
\* The grant stands for the student's current school.
Standing(g, s) == grant[g] = [student |-> s, school |-> profile[s].school, standing |-> TRUE]

\* Mutated: only the institution is compared.
CurrentSchool(x) == profile[x.student].school = x.context.school

\* Nothing a snapshot was taken of has changed since.
Current(x) == CurrentSchool(x) /\ Context(x.student) = x.context

\* Mutated: any check that is newer than the last answer applied may answer.
PendingAny(x) == state[x.student][x.context.school].applied < x.generation

\* The check is the student's latest at the school, and not yet answered.
Pending(x) ==
    /\ state[x.student][x.context.school].asked = x.generation
    /\ state[x.student][x.context.school].applied < x.generation

\* Mutated: no reservation is looked for.
ReservableAlways(x) == x.number \in Numbers

\* No other student holds the number.
Reservable(x) == \A r \in reserved :
    r.school = x.context.school /\ r.number = x.number => r.student = x.student

GrantProcessing(g, s) ==
    /\ grant[g] = NoGrant /\ profile[s].school # None
    /\ grant' = [grant EXCEPT ![g] = [student |-> s, school |-> profile[s].school, standing |-> TRUE]]
    /\ UNCHANGED <<profile, state, policyVars, check, reserved, evidence, microsoftVars, budget>>

\* The check remembers, as history, whether a denial stood when it was begun.
BeginEnrollmentCheck(c, s, g, n) ==
    LET u == profile[s].school IN
    /\ check[c] = NoCheck /\ u # None /\ Standing(g, s)
    /\ Spend("checks")
    /\ state' = [state EXCEPT ![s][u].asked = @ + 1]
    /\ check' = [check EXCEPT ![c] =
                   [student |-> s, context |-> Context(s), grant |-> g, number |-> n,
                    generation |-> state'[s][u].asked, denied |-> state[s][u].denied]]
    /\ UNCHANGED <<profile, grant, policyVars, reserved, evidence, microsoftVars>>

\* The institution has answered, or the lookup came to nothing.
ApplyEnrollmentDecision(c, outcome) ==
    LET x == check[c]
        u == x.context.school
    IN
    /\ x # NoCheck
    /\ Current(x) /\ Pending(x) /\ Standing(x.grant, x.student)
    /\ outcome = "verified" => Reservable(x)
    /\ state' = [state EXCEPT ![x.student][u] =
                    [asked |-> @.asked, applied |-> x.generation,
                     denied |-> outcome = "denied" \/ (outcome = "unknown" /\ @.denied)]]
    /\ reserved' = IF outcome = "verified" /\ \A r \in reserved : r.school # u \/ r.number # x.number
                   THEN reserved \cup {[school |-> u, number |-> x.number, student |-> x.student]}
                   ELSE reserved
    /\ evidence' = IF outcome = "verified"
                   THEN evidence \cup {[student |-> x.student, context |-> Context(x.student),
                                        asked |-> x.context, grant |-> x.grant, number |-> x.number,
                                        attempt |-> None, proof |-> TRUE]}
                   ELSE evidence
    /\ check' = [check EXCEPT ![c] = NoCheck]
    /\ UNCHANGED <<profile, grant, policyVars, microsoftVars, budget>>

\* The answer is refused, or the process dies while it waits.
EndCheck(c) ==
    /\ check[c] # NoCheck
    /\ check' = [check EXCEPT ![c] = NoCheck]
    /\ UNCHANGED <<studentVars, policyVars, reserved, evidence, microsoftVars, budget>>

-----------------------------------------------------------------------------
\* The student's profile and the policies.
Bump(s, u) ==
    /\ Spend("moves")
    /\ profile' = [profile EXCEPT ![s] = [school |-> u, version |-> @.version + 1]]
    /\ reserved' = {r \in reserved : r.student # s}
    /\ UNCHANGED <<grant, state, policyVars, check, evidence, microsoftVars>>

SelectStudentInstitution(s, u) == u # profile[s].school /\ Bump(s, u)

EditProfile(s) == Bump(s, profile[s].school)

UpdateInstitutionPolicy(u) ==
    /\ Spend("policies")
    /\ policy' = [policy EXCEPT ![u] = @ + 1]
    /\ UNCHANGED <<studentVars, provider, check, reserved, evidence, microsoftVars>>

EvidenceExpires ==
    /\ \E e \in evidence : evidence' = evidence \ {e}
    /\ UNCHANGED <<studentVars, policyVars, check, reserved, microsoftVars, budget>>

-----------------------------------------------------------------------------
\* Microsoft.
Live == {a \in Attempts : attempt[a].status \in {"pending", "processing", "ready"}}

Failed(A) == [a \in Attempts |-> IF a \in A \cap Live
                                 THEN [attempt[a] EXCEPT !.status = "failed"] ELSE attempt[a]]

\* A change of the provider's policy fails the attempts that are under way.
UpdateProviderPolicy(u) ==
    /\ Spend("policies")
    /\ provider' = [provider EXCEPT ![u] = @ + 1]
    /\ attempt' = Failed({a \in Live : attempt[a].context.school = u})
    /\ UNCHANGED <<studentVars, policy, check, reserved, evidence, consent, identity, past>>

AcceptMicrosoftConsent(k, s, g) ==
    LET u == profile[s].school IN
    /\ consent[k] = NoConsent /\ u # None /\ Standing(g, s)
    /\ Spend("consents")
    /\ consent' = [consent EXCEPT ![k] = [student |-> s, school |-> u, grant |-> g,
                                          provider |-> provider[u], standing |-> TRUE]]
    /\ UNCHANGED <<studentVars, policyVars, check, reserved, evidence, attempt, identity, past>>

\* assertMicrosoftAuthority: everything an attempt was started under stands.
Authority(x) ==
    /\ Current(x) /\ Standing(x.grant, x.student)
    /\ x.provider = provider[x.context.school]
    /\ consent[x.consent] = [student |-> x.student, school |-> x.context.school,
                             grant |-> x.grant, provider |-> x.provider, standing |-> TRUE]

Start(a, s, k) ==
    LET u == profile[s].school
        new == [status |-> "pending", student |-> s, context |-> Context(s),
                grant |-> consent[k].grant, consent |-> k, provider |-> provider[u],
                object |-> None, member |-> FALSE, receipt |-> None]
    IN
    /\ attempt[a] = NoAttempt /\ u # None /\ consent[k].standing
    /\ Authority(new)
    /\ attempt' = [attempt EXCEPT ![a] = new]
    /\ UNCHANGED <<studentVars, policyVars, check, reserved, evidence, consent, identity, past, budget>>

\* A transaction of the callback takes the attempt on, if its authority stands.
Step(a, new) ==
    /\ attempt' = IF Authority(attempt[a]) THEN [attempt EXCEPT ![a] = new] ELSE Failed({a})
    /\ UNCHANGED <<studentVars, policyVars, check, reserved, evidence, consent, identity, past, budget>>

Claim(a) ==
    /\ a \in Live /\ attempt[a].status = "pending"
    /\ Step(a, [attempt[a] EXCEPT !.status = "processing"])

\* The provider has redeemed the code: the account is known,
Redeem(a, o) ==
    /\ a \in Live /\ attempt[a].status = "processing" /\ attempt[a].object = None
    /\ Step(a, [attempt[a] EXCEPT !.object = o])

\* and Graph has said whether it is a student's.
Observe(a, member) ==
    /\ a \in Live /\ attempt[a].status = "processing" /\ attempt[a].object # None
    /\ Step(a, [attempt[a] EXCEPT !.status = "ready", !.member = member])

\* The provider refuses, the process dies and the attempt expires, or the
\* retention job ends it.
Fail(a) ==
    /\ a \in Live
    /\ attempt' = Failed({a})
    /\ UNCHANGED <<studentVars, policyVars, check, reserved, evidence, consent, identity, past, budget>>

LinkedTo(o, x) == /\ identity[o].student = x.student /\ identity[o].school = x.context.school
                  /\ identity[o].linked

\* linkMicrosoftIdentity refuses to transfer or restore an account, and a second one.
Linkable(o, x) == \/ LinkedTo(o, x)
                  \/ identity[o] = NoIdentity /\ \A other \in Objects : ~LinkedTo(other, x)

\* The receipt of an attempt that is finished.
Enrolls(x) == CASE state[x.student][x.context.school].denied -> "denied"
                [] x.member -> "eligible"
                [] OTHER -> "unconfirmed"

Finish(a) ==
    LET x == attempt[a]
        enrollment == Enrolls(x)
    IN
    /\ a \in Live /\ x.status = "ready"
    /\ Authority(x) /\ Linkable(x.object, x)
    /\ identity' = IF identity[x.object] # NoIdentity THEN identity
                   ELSE [identity EXCEPT ![x.object] = [student |-> x.student, by |-> a,
                                                        school |-> x.context.school, linked |-> TRUE]]
    /\ evidence' = IF enrollment # "eligible" THEN evidence
                   ELSE evidence \cup {[student |-> x.student, context |-> Context(x.student),
                                        asked |-> x.context, grant |-> x.grant, number |-> None,
                                        attempt |-> a, proof |-> TRUE]}
    /\ attempt' = [attempt EXCEPT ![a].status = "completed", ![a].receipt = enrollment]
    /\ UNCHANGED <<studentVars, policyVars, check, reserved, consent, past, budget>>

\* A completed attempt expires: its receipt is gone.
Forget(a) ==
    /\ attempt[a].receipt # None
    /\ attempt' = [attempt EXCEPT ![a].receipt = None]
    /\ UNCHANGED <<studentVars, policyVars, check, reserved, evidence, consent, identity, past, budget>>

\* Attempts of the account's owner at its school.
AttemptsOf(o) == {a \in Attempts : /\ attempt[a].student = identity[o].student
                                   /\ attempt[a].context.school = identity[o].school}

\* Mutated: attempts that wait for their answer are forgotten.
FailedByUnlinkReady(o) == Failed({a \in AttemptsOf(o) : attempt[a].status = "ready"})

FailedByUnlink(o) == Failed(AttemptsOf(o))

UnlinkMicrosoftIdentity(o) ==
    /\ identity[o].linked
    /\ attempt' = FailedByUnlink(o)
    /\ evidence' = {e \in evidence : e.attempt = None \/ attempt[e.attempt].object # o}
    /\ identity' = [identity EXCEPT ![o].linked = FALSE]
    /\ past' = past \cup AttemptsOf(o)
    /\ UNCHANGED <<studentVars, policyVars, check, reserved, consent, budget>>

WithdrawMicrosoftConsent(k) ==
    /\ consent[k].standing
    /\ Spend("withdrawals")
    /\ consent' = [consent EXCEPT ![k].standing = FALSE]
    /\ attempt' = Failed({a \in Live : attempt[a].consent = k})
    /\ evidence' = {IF e.attempt # None /\ attempt[e.attempt].consent = k
                    THEN [e EXCEPT !.proof = FALSE] ELSE e : e \in evidence}
    /\ UNCHANGED <<studentVars, policyVars, check, reserved, identity, past>>

\* Withdrawing the consent to processing ends what was obtained under it.
WithdrawConsent(g) ==
    /\ grant[g].standing
    /\ Spend("withdrawals")
    /\ grant' = [grant EXCEPT ![g].standing = FALSE]
    /\ attempt' = Failed({a \in Live : attempt[a].grant = g})
    /\ evidence' = {e \in evidence : e.grant # g}
    /\ UNCHANGED <<profile, state, policyVars, check, reserved, consent, identity, past>>

Next ==
    \/ \E c \in Checks : \/ EndCheck(c)
                         \/ \E outcome \in {"verified", "denied", "unknown"} : ApplyEnrollmentDecision(c, outcome)
                         \/ \E s \in Students, g \in ProcessingGrants, n \in Numbers : BeginEnrollmentCheck(c, s, g, n)
    \/ \E s \in Students : \/ EditProfile(s)
                           \/ \E u \in Schools : SelectStudentInstitution(s, u)
                           \/ \E g \in ProcessingGrants : GrantProcessing(g, s)
                           \/ \E k \in Consents : \/ \E g \in ProcessingGrants : AcceptMicrosoftConsent(k, s, g)
                                                  \/ \E a \in Attempts : Start(a, s, k)
    \/ \E u \in Schools : UpdateInstitutionPolicy(u) \/ UpdateProviderPolicy(u)
    \/ \E a \in Attempts : \/ Claim(a) \/ Fail(a) \/ Finish(a) \/ Forget(a)
                           \/ \E o \in Objects : Redeem(a, o)
                           \/ \E member \in BOOLEAN : Observe(a, member)
    \/ \E o \in Objects : UnlinkMicrosoftIdentity(o)
    \/ \E k \in Consents : WithdrawMicrosoftConsent(k)
    \/ \E g \in ProcessingGrants : WithdrawConsent(g)
    \/ EvidenceExpires

Spec == Init /\ [][Next]_vars

-----------------------------------------------------------------------------
\* currentMicrosoftProof
MicrosoftProof(e) ==
    LET x == attempt[e.attempt] IN
    /\ e.proof /\ x.provider = provider[e.context.school]
    /\ consent[x.consent].standing /\ LinkedTo(x.object, x)

\* getEffectiveEligibility: the evidence that makes a student eligible now.
Effective(s) ==
    {e \in evidence :
        /\ e.student = s /\ profile[s].school # None
        /\ ~state[s][profile[s].school].denied
        /\ e.context = Context(s) /\ Standing(e.grant, s)
        /\ e.attempt # None => MicrosoftProof(e)}

\* Evidence makes a student eligible only at the school, under the identity
\* and under the policy its provider was asked about, however late the answer
\* came; and a registration number only while it is reserved to the student.
EffectiveIsEntitled ==
    \A s \in Students : \A e \in Effective(s) :
        /\ e.asked = Context(s)
        /\ e.number # None =>
              [school |-> profile[s].school, number |-> e.number, student |-> s] \in reserved

\* Two students are never eligible at one school by the same number, although
\* they check it at the same time, move away and come back.
OneStudentPerIdentifier ==
    \A s, t \in Students : \A e \in Effective(s), f \in Effective(t) :
        s # t /\ e.context.school = f.context.school /\ e.number # None => e.number # f.number

\* Only a check that was begun after a denial can lift it: answers to checks
\* that were out at the time come too late, and Microsoft never does.
DenialStands ==
    [][\A s \in Students, u \in Schools : state[s][u].denied /\ ~state'[s][u].denied =>
          \E c \in Checks : check'[c] = NoCheck /\ check[c].student = s /\ check[c].denied]_vars

\* Mutated: the receipt is repeated as it was stored.
RetryReportsReceipt(a) == attempt[a].receipt

\* What a repeated finish of a completed attempt reports.
RetryReports(a) ==
    LET x == attempt[a] IN
    CASE x.receipt = None -> None
      [] ~(Authority(x) /\ LinkedTo(x.object, x)) -> None
      [] state[x.student][x.context.school].denied -> "denied"
      [] x.receipt = "eligible" /\ ~\E e \in evidence : e.attempt = a /\ e.proof -> None
      [] OTHER -> x.receipt

\* A finish that is repeated because its answer was lost says "eligible" only
\* of a student every reader finds eligible at that moment.
ReportsAgree ==
    \A a \in Attempts : RetryReports(a) = "eligible" =>
        \E e \in Effective(attempt[a].student) : e.attempt = a

\* Unlinking is final for whatever was under way: an attempt begun before it
\* neither links an account nor proves anything afterwards.
UnlinkIsFinal ==
    /\ \A o \in Objects : identity[o].linked => identity[o].by \notin past
    /\ \A e \in evidence : e.attempt \notin past
=============================================================================
