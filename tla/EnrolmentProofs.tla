---------------------------- MODULE EnrolmentProofs ----------------------------
(* Theorems about Enrolment, for every value of its constants. *)
EXTENDS Enrolment, TLAPS

-----------------------------------------------------------------------------
(***************************************************************************)
(* Types.                                                                  *)
(***************************************************************************)
LEMMA RowsExist ==
    /\ NoGrant \notin GrantType /\ NoCheck \notin CheckType /\ NoConsent \notin ConsentType
    /\ NoAttempt \notin AttemptType /\ NoIdentity \notin IdentityType
BY EnrolmentAssumption
   DEF GrantType, NoGrant, CheckType, NoCheck, ConsentType, NoConsent,
       AttemptType, NoAttempt, IdentityType, NoIdentity

\* Rows that are under way are rows.
LEMMA RowsTyped ==
    ASSUME TypeOK
    PROVE  /\ \A g \in ProcessingGrants : grant[g].standing => grant[g] \in GrantType
           /\ \A c \in Checks : check[c] # NoCheck => check[c] \in CheckType
           /\ \A k \in Consents : consent[k].standing => consent[k] \in ConsentType
           /\ \A a \in Attempts : attempt[a].status # "none" => attempt[a] \in AttemptType
           /\ \A a \in Attempts : attempt[a].receipt # None => attempt[a] \in AttemptType
           /\ \A o \in Objects : identity[o].linked => identity[o] \in IdentityType
           /\ Live \subseteq Attempts /\ \A a \in Live : attempt[a] \in AttemptType
BY DEF TypeOK, NoGrant, NoCheck, NoConsent, NoAttempt, NoIdentity, Live

LEMMA ContextTyped ==
    ASSUME TypeOK, NEW s \in Students, profile[s].school # None
    PROVE  Context(s) \in ContextType /\ Context(s).school = profile[s].school
BY DEF TypeOK, Context, ContextType, School

LEMMA SpendTyped == ASSUME TypeOK, NEW k \in Kinds, Spend(k) PROVE budget' \in [Kinds -> Nat]
BY DEF TypeOK, Spend

LEMMA FailedTyped == ASSUME TypeOK, NEW A PROVE Failed(A) \in [Attempts -> AttemptType \cup {NoAttempt}]
<1>1. ASSUME NEW a \in Attempts PROVE Failed(A)[a] \in AttemptType \cup {NoAttempt}
  <2>1. CASE a \in A \cap Live
    <3>1. attempt[a] \in AttemptType
      BY <2>1, RowsTyped
    <3>2. Failed(A)[a] = [attempt[a] EXCEPT !.status = "failed"]
      BY <2>1 DEF Failed
    <3> QED BY <3>1, <3>2 DEF AttemptType, Over
  <2>2. CASE a \notin A \cap Live
    BY <2>2 DEF Failed, TypeOK
  <2> QED BY <2>1, <2>2
<1> QED BY <1>1 DEF Failed

LEMMA AuthorityTyped ==
    ASSUME TypeOK, NEW x, x.student \in Students, x.context.school \in Schools, Current(x)
    PROVE  profile[x.student].school \in Schools /\ x.context = Context(x.student) /\ x.context \in ContextType
BY ContextTyped, EnrolmentAssumption DEF Current, CurrentSchool, TypeOK

LEMMA ChecksTyped ==
    ASSUME TypeOK, NEW c \in Checks,
           \/ EndCheck(c)
           \/ \E outcome \in {"verified", "denied", "unknown"} : ApplyEnrollmentDecision(c, outcome)
           \/ \E s \in Students, g \in ProcessingGrants, n \in Numbers : BeginEnrollmentCheck(c, s, g, n)
    PROVE  TypeOK'
<1>1. CASE EndCheck(c)
  BY <1>1 DEF EndCheck, TypeOK, studentVars, policyVars, microsoftVars
<1>2. ASSUME NEW outcome \in {"verified", "denied", "unknown"}, ApplyEnrollmentDecision(c, outcome)
      PROVE  TypeOK'
  <2> DEFINE x == check[c]
             u == x.context.school
  <2>1. x \in CheckType
    BY <1>2, RowsTyped DEF ApplyEnrollmentDecision
  <2>2. /\ x.student \in Students /\ x.number \in Numbers /\ x.grant \in ProcessingGrants
        /\ x.generation \in Nat /\ u \in Schools /\ x.context \in ContextType
    BY <2>1 DEF CheckType, ContextType
  <2>3. Context(x.student) \in ContextType
    BY <2>2, <1>2, AuthorityTyped DEF ApplyEnrollmentDecision
  <2>4. state' \in [Students -> [Schools -> StateType]]
    <3>1. state[x.student][u] \in StateType
      BY <2>2 DEF TypeOK
    <3>2. \A d \in BOOLEAN : [asked |-> state[x.student][u].asked, applied |-> x.generation, denied |-> d] \in StateType
      BY <3>1, <2>2 DEF StateType
    <3>3. \E d \in BOOLEAN : state' = [state EXCEPT ![x.student][u] =
             [asked |-> state[x.student][u].asked, applied |-> x.generation, denied |-> d]]
      BY <1>2, <2>2, <3>1 DEF ApplyEnrollmentDecision, TypeOK, StateType
    <3> QED BY <3>2, <3>3, <2>2 DEF TypeOK
  <2>5. reserved' \subseteq [school : Schools, number : Numbers, student : Students]
    <3> DEFINE new == [school |-> u, number |-> x.number, student |-> x.student]
    <3>1. reserved' \subseteq reserved \cup {new}
      BY <1>2 DEF ApplyEnrollmentDecision
    <3> QED BY <3>1, <2>2 DEF TypeOK
  <2>6. evidence' \subseteq EvidenceType
    <3> DEFINE new == [student |-> x.student, context |-> Context(x.student), asked |-> x.context,
                       grant |-> x.grant, number |-> x.number, attempt |-> None, proof |-> TRUE]
    <3>1. evidence' \subseteq evidence \cup {new}
      BY <1>2 DEF ApplyEnrollmentDecision
    <3>2. new \in EvidenceType
      BY <2>2, <2>3 DEF EvidenceType
    <3> QED BY <3>1, <3>2 DEF TypeOK
  <2>7. check' \in [Checks -> CheckType \cup {NoCheck}]
    BY <1>2 DEF ApplyEnrollmentDecision, TypeOK
  <2> QED BY <1>2, <2>4, <2>5, <2>6, <2>7 DEF ApplyEnrollmentDecision, TypeOK, policyVars, microsoftVars
<1>3. ASSUME NEW s \in Students, NEW g \in ProcessingGrants, NEW n \in Numbers, BeginEnrollmentCheck(c, s, g, n)
      PROVE  TypeOK'
  <2> DEFINE u == profile[s].school
  <2>1. u \in Schools /\ Context(s) \in ContextType
    BY <1>3, ContextTyped DEF BeginEnrollmentCheck, TypeOK, School
  <2>2. state' \in [Students -> [Schools -> StateType]]
    <3>1. state[s][u] \in StateType
      BY <2>1 DEF TypeOK
    <3>2. [state[s][u] EXCEPT !.asked = @ + 1] \in StateType
      BY <3>1 DEF StateType
    <3>3. state' = [state EXCEPT ![s][u] = [state[s][u] EXCEPT !.asked = @ + 1]]
      BY <1>3, <2>1 DEF BeginEnrollmentCheck, TypeOK
    <3> QED BY <3>2, <3>3, <2>1 DEF TypeOK
  <2>3. check' \in [Checks -> CheckType \cup {NoCheck}]
    <3>1. state'[s][u].asked \in Nat /\ state[s][u].denied \in BOOLEAN
      BY <2>1, <2>2 DEF TypeOK, StateType
    <3> QED BY <1>3, <2>1, <3>1 DEF BeginEnrollmentCheck, TypeOK, CheckType
  <2>4. budget' \in [Kinds -> Nat]
    BY <1>3, SpendTyped DEF BeginEnrollmentCheck, Kinds
  <2> QED BY <1>3, <2>2, <2>3, <2>4 DEF BeginEnrollmentCheck, TypeOK, policyVars, microsoftVars
<1> QED BY <1>1, <1>2, <1>3

LEMMA ProfilesTyped ==
    ASSUME TypeOK,
           \/ \E s \in Students : \/ EditProfile(s)
                                  \/ \E u \in Schools : SelectStudentInstitution(s, u)
                                  \/ \E g \in ProcessingGrants : GrantProcessing(g, s)
           \/ \E u \in Schools : UpdateInstitutionPolicy(u) \/ UpdateProviderPolicy(u)
           \/ \E k \in Consents : WithdrawMicrosoftConsent(k)
           \/ \E g \in ProcessingGrants : WithdrawConsent(g)
           \/ EvidenceExpires
    PROVE  TypeOK'
<1>1. ASSUME NEW s \in Students, NEW u \in School, Bump(s, u) PROVE TypeOK'
  <2>1. budget' \in [Kinds -> Nat]
    BY <1>1, SpendTyped DEF Bump, Kinds
  <2>2. profile' \in [Students -> [school : School, version : Nat]]
    BY <1>1 DEF Bump, TypeOK
  <2> QED BY <1>1, <2>1, <2>2 DEF Bump, TypeOK, policyVars, microsoftVars
<1>2. ASSUME NEW s \in Students, EditProfile(s) \/ \E u \in Schools : SelectStudentInstitution(s, u)
      PROVE  TypeOK'
  BY <1>1, <1>2 DEF EditProfile, SelectStudentInstitution, TypeOK, School
<1>3. ASSUME NEW s \in Students, NEW g \in ProcessingGrants, GrantProcessing(g, s) PROVE TypeOK'
  <2>1. grant' \in [ProcessingGrants -> GrantType \cup {NoGrant}]
    BY <1>3 DEF GrantProcessing, TypeOK, School, GrantType
  <2> QED BY <1>3, <2>1 DEF GrantProcessing, TypeOK, policyVars, microsoftVars
<1>4. ASSUME NEW u \in Schools, UpdateInstitutionPolicy(u) \/ UpdateProviderPolicy(u) PROVE TypeOK'
  <2>1. budget' \in [Kinds -> Nat]
    BY <1>4, SpendTyped DEF UpdateInstitutionPolicy, UpdateProviderPolicy, Kinds
  <2>2. policy' \in [Schools -> Nat] /\ provider' \in [Schools -> Nat]
    BY <1>4 DEF UpdateInstitutionPolicy, UpdateProviderPolicy, TypeOK
  <2>3. attempt' \in [Attempts -> AttemptType \cup {NoAttempt}]
    BY <1>4, FailedTyped DEF UpdateInstitutionPolicy, UpdateProviderPolicy, TypeOK, microsoftVars
  <2> QED BY <1>4, <2>1, <2>2, <2>3
          DEF UpdateInstitutionPolicy, UpdateProviderPolicy, TypeOK, studentVars, microsoftVars
<1>5. ASSUME NEW k \in Consents, WithdrawMicrosoftConsent(k) PROVE TypeOK'
  <2>1. budget' \in [Kinds -> Nat]
    BY <1>5, SpendTyped DEF WithdrawMicrosoftConsent, Kinds
  <2>2. consent' \in [Consents -> ConsentType \cup {NoConsent}]
    <3>1. consent[k] \in ConsentType
      BY <1>5, RowsTyped DEF WithdrawMicrosoftConsent
    <3> QED BY <1>5, <3>1 DEF WithdrawMicrosoftConsent, TypeOK, ConsentType
  <2>3. attempt' \in [Attempts -> AttemptType \cup {NoAttempt}]
    BY <1>5, FailedTyped DEF WithdrawMicrosoftConsent
  <2>4. evidence' \subseteq EvidenceType
    <3>1. \A e \in evidence : e \in EvidenceType /\ [e EXCEPT !.proof = FALSE] \in EvidenceType
      BY DEF TypeOK, EvidenceType
    <3>2. \A f \in evidence' : \E e \in evidence : f = e \/ f = [e EXCEPT !.proof = FALSE]
      BY <1>5 DEF WithdrawMicrosoftConsent
    <3> QED BY <3>1, <3>2
  <2> QED BY <1>5, <2>1, <2>2, <2>3, <2>4 DEF WithdrawMicrosoftConsent, TypeOK, studentVars, policyVars
<1>6. ASSUME NEW g \in ProcessingGrants, WithdrawConsent(g) PROVE TypeOK'
  <2>1. budget' \in [Kinds -> Nat]
    BY <1>6, SpendTyped DEF WithdrawConsent, Kinds
  <2>2. grant' \in [ProcessingGrants -> GrantType \cup {NoGrant}]
    <3>1. grant[g] \in GrantType
      BY <1>6, RowsTyped DEF WithdrawConsent
    <3> QED BY <1>6, <3>1 DEF WithdrawConsent, TypeOK, GrantType
  <2>3. attempt' \in [Attempts -> AttemptType \cup {NoAttempt}]
    BY <1>6, FailedTyped DEF WithdrawConsent
  <2> QED BY <1>6, <2>1, <2>2, <2>3 DEF WithdrawConsent, TypeOK, policyVars
<1>7. CASE EvidenceExpires
  BY <1>7 DEF EvidenceExpires, TypeOK, studentVars, policyVars, microsoftVars
<1> QED BY <1>2, <1>3, <1>4, <1>5, <1>6, <1>7

\* A row of an attempt changes and nothing else.
LEMMA AttemptTyped ==
    ASSUME TypeOK, NEW a \in Attempts, NEW new \in AttemptType, attempt' = [attempt EXCEPT ![a] = new],
           UNCHANGED <<studentVars, policyVars, check, reserved, evidence, consent, identity, past, budget>>
    PROVE  TypeOK'
BY DEF TypeOK, studentVars, policyVars

LEMMA StepTyped ==
    ASSUME TypeOK, NEW a \in Attempts, NEW new \in AttemptType, Step(a, new)
    PROVE  TypeOK'
<1>1. attempt' \in [Attempts -> AttemptType \cup {NoAttempt}]
  BY FailedTyped DEF Step, TypeOK
<1> QED BY <1>1 DEF Step, TypeOK, studentVars, policyVars

LEMMA AttemptsTyped ==
    ASSUME TypeOK, NEW a \in Attempts,
           \/ Claim(a) \/ Fail(a) \/ Finish(a) \/ Forget(a)
           \/ \E o \in Objects : Redeem(a, o)
           \/ \E member \in BOOLEAN : Observe(a, member)
    PROVE  TypeOK'
<1>0. ASSUME a \in Live PROVE attempt[a] \in AttemptType
  BY <1>0, RowsTyped
<1>1. CASE Claim(a)
  <2>1. [attempt[a] EXCEPT !.status = "processing"] \in AttemptType
    BY <1>0, <1>1 DEF Claim, AttemptType
  <2> QED BY <2>1, <1>1, StepTyped DEF Claim
<1>2. ASSUME NEW o \in Objects, Redeem(a, o) PROVE TypeOK'
  <2>1. [attempt[a] EXCEPT !.object = o] \in AttemptType
    BY <1>0, <1>2 DEF Redeem, AttemptType
  <2> QED BY <2>1, <1>2, StepTyped DEF Redeem
<1>3. ASSUME NEW member \in BOOLEAN, Observe(a, member) PROVE TypeOK'
  <2>1. [attempt[a] EXCEPT !.status = "ready", !.member = member] \in AttemptType
    BY <1>0, <1>3 DEF Observe, AttemptType
  <2> QED BY <2>1, <1>3, StepTyped DEF Observe
<1>4. CASE Fail(a)
  <2>1. attempt' \in [Attempts -> AttemptType \cup {NoAttempt}]
    BY <1>4, FailedTyped DEF Fail
  <2> QED BY <1>4, <2>1 DEF Fail, TypeOK, studentVars, policyVars
<1>5. CASE Forget(a)
  <2>1. attempt[a] \in AttemptType
    BY <1>5, RowsTyped DEF Forget
  <2>2. [attempt[a] EXCEPT !.receipt = None] \in AttemptType
    BY <2>1 DEF AttemptType
  <2>3. attempt' = [attempt EXCEPT ![a] = [attempt[a] EXCEPT !.receipt = None]]
    BY <1>5 DEF Forget, TypeOK
  <2> QED BY <2>2, <2>3, <1>5, AttemptTyped DEF Forget
<1>6. CASE Finish(a)
  <2> DEFINE x == attempt[a]
  <2>1. x \in AttemptType
    BY <1>0, <1>6 DEF Finish
  <2>2. /\ x.student \in Students /\ x.context \in ContextType /\ x.context.school \in Schools
        /\ x.grant \in ProcessingGrants
    BY <2>1 DEF AttemptType, ContextType
  <2>3. Context(x.student) \in ContextType
    BY <2>2, <1>6, AuthorityTyped DEF Finish, Authority
  <2>4. evidence' \subseteq EvidenceType
    <3> DEFINE new == [student |-> x.student, context |-> Context(x.student), asked |-> x.context,
                       grant |-> x.grant, number |-> None, attempt |-> a, proof |-> TRUE]
    <3>1. evidence' \subseteq evidence \cup {new}
      BY <1>6 DEF Finish
    <3>2. new \in EvidenceType
      BY <2>2, <2>3 DEF EvidenceType
    <3> QED BY <3>1, <3>2 DEF TypeOK
  <2>5. Enrolls(x) \in {"denied", "eligible", "unconfirmed"}
    BY DEF Enrolls
  <2>6. attempt' \in [Attempts -> AttemptType \cup {NoAttempt}]
    <3>1. [x EXCEPT !.status = "completed", !.receipt = Enrolls(x)] \in AttemptType
      BY <2>1, <2>5 DEF AttemptType, Over
    <3>2. attempt' = [attempt EXCEPT ![a] = [x EXCEPT !.status = "completed", !.receipt = Enrolls(x)]]
      BY <1>6 DEF Finish, TypeOK
    <3> QED BY <3>1, <3>2 DEF TypeOK
  <2>7. identity' \in [Objects -> IdentityType \cup {NoIdentity}]
    BY <1>6, <2>2 DEF Finish, TypeOK, IdentityType
  <2> QED BY <1>6, <2>4, <2>6, <2>7 DEF Finish, TypeOK, studentVars, policyVars
<1> QED BY <1>1, <1>2, <1>3, <1>4, <1>5, <1>6

LEMMA MicrosoftTyped ==
    ASSUME TypeOK,
           \/ \E s \in Students, k \in Consents : \/ \E g \in ProcessingGrants : AcceptMicrosoftConsent(k, s, g)
                                                  \/ \E a \in Attempts : Start(a, s, k)
           \/ \E o \in Objects : UnlinkMicrosoftIdentity(o)
    PROVE  TypeOK'
<1>1. ASSUME NEW s \in Students, NEW k \in Consents, NEW g \in ProcessingGrants, AcceptMicrosoftConsent(k, s, g)
      PROVE  TypeOK'
  <2>1. budget' \in [Kinds -> Nat]
    BY <1>1, SpendTyped DEF AcceptMicrosoftConsent, Kinds
  <2>2. consent' \in [Consents -> ConsentType \cup {NoConsent}]
    BY <1>1 DEF AcceptMicrosoftConsent, TypeOK, School, ConsentType
  <2> QED BY <1>1, <2>1, <2>2 DEF AcceptMicrosoftConsent, TypeOK, studentVars, policyVars
<1>2. ASSUME NEW s \in Students, NEW k \in Consents, NEW a \in Attempts, Start(a, s, k) PROVE TypeOK'
  <2> DEFINE u == profile[s].school
             new == [status |-> "pending", student |-> s, context |-> Context(s),
                     grant |-> consent[k].grant, consent |-> k, provider |-> provider[u],
                     object |-> None, member |-> FALSE, receipt |-> None]
  <2>1. Context(s) \in ContextType /\ u \in Schools
    BY <1>2, ContextTyped DEF Start, TypeOK, School
  <2>2. consent[k] \in ConsentType
    BY <1>2, RowsTyped DEF Start
  <2>3. new \in AttemptType
    BY <2>1, <2>2 DEF AttemptType, ConsentType, TypeOK
  <2> QED BY <1>2, <2>3, AttemptTyped DEF Start
<1>3. ASSUME NEW o \in Objects, UnlinkMicrosoftIdentity(o) PROVE TypeOK'
  <2>1. attempt' \in [Attempts -> AttemptType \cup {NoAttempt}]
    BY <1>3, FailedTyped DEF UnlinkMicrosoftIdentity, FailedByUnlink
  <2>2. identity' \in [Objects -> IdentityType \cup {NoIdentity}]
    <3>1. identity[o] \in IdentityType
      BY <1>3, RowsTyped DEF UnlinkMicrosoftIdentity
    <3> QED BY <1>3, <3>1 DEF UnlinkMicrosoftIdentity, TypeOK, IdentityType
  <2>3. past' \subseteq Attempts
    BY <1>3 DEF UnlinkMicrosoftIdentity, AttemptsOf, TypeOK
  <2>4. evidence' \subseteq EvidenceType
    BY <1>3 DEF UnlinkMicrosoftIdentity, TypeOK
  <2> QED BY <1>3, <2>1, <2>2, <2>3, <2>4 DEF UnlinkMicrosoftIdentity, TypeOK, studentVars, policyVars
<1> QED BY <1>1, <1>2, <1>3

LEMMA TypesStep == ASSUME TypeOK, [Next]_vars PROVE TypeOK'
<1>1. CASE UNCHANGED vars
  BY <1>1 DEF TypeOK, vars, studentVars, policyVars, microsoftVars
<1>2. CASE Next
  BY <1>2, ChecksTyped, ProfilesTyped, AttemptsTyped, MicrosoftTyped DEF Next
<1> QED BY <1>1, <1>2

LEMMA TypesInit == ASSUME Init PROVE TypeOK
<1>1. /\ policy \in [Schools -> Nat] /\ provider \in [Schools -> Nat]
      /\ state \in [Students -> [Schools -> StateType]]
      /\ budget \in [Kinds -> Nat]
  <2>1. NoState \in StateType
    BY DEF NoState, StateType
  <2> QED BY <2>1, EnrolmentAssumption DEF Init
<1> QED BY <1>1 DEF Init, TypeOK

\* Profiles, policies, consents, checks, evidence, attempts and identities stay well formed.
THEOREM Typed == Spec => []TypeOK
<1>1. Init => TypeOK
  BY TypesInit
<1>2. TypeOK /\ [Next]_vars => TypeOK'
  BY TypesStep
<1> QED BY <1>1, <1>2, PTL DEF Spec

-----------------------------------------------------------------------------
(***************************************************************************)
(* Denials.  A check that can still be applied was begun when the denial   *)
(* it would lift stood already.                                            *)
(***************************************************************************)
StateOf(x) == state[x.student][x.context.school]

ChecksCounted ==
    /\ \A s \in Students, u \in Schools : state[s][u].applied <= state[s][u].asked
    /\ \A c \in Checks : check[c] # NoCheck =>
          /\ check[c].generation <= StateOf(check[c]).asked
          /\ Pending(check[c]) => check[c].denied = StateOf(check[c]).denied

\* What a step does to checks.
CheckStep ==
    \/ UNCHANGED <<state, check>>
    \/ \E c \in Checks :
          \/ EndCheck(c)
          \/ \E outcome \in {"verified", "denied", "unknown"} : ApplyEnrollmentDecision(c, outcome)
          \/ \E s \in Students, g \in ProcessingGrants, n \in Numbers : BeginEnrollmentCheck(c, s, g, n)

LEMMA CheckSteps == ASSUME [Next]_vars PROVE CheckStep
<1>1. CASE UNCHANGED vars
  BY <1>1 DEF vars, studentVars, CheckStep
<1>2. ASSUME NEW s \in Students, EditProfile(s) \/ \E u \in Schools : SelectStudentInstitution(s, u)
      PROVE  CheckStep
  BY <1>2 DEF EditProfile, SelectStudentInstitution, Bump, CheckStep
<1>3. ASSUME NEW s \in Students, NEW k \in Consents,
             \/ \E g \in ProcessingGrants : GrantProcessing(g, s) \/ AcceptMicrosoftConsent(k, s, g)
             \/ \E a \in Attempts : Start(a, s, k)
      PROVE  CheckStep
  BY <1>3 DEF GrantProcessing, AcceptMicrosoftConsent, Start, studentVars, CheckStep
<1>4. ASSUME NEW s \in Students, NEW g \in ProcessingGrants, GrantProcessing(g, s) PROVE CheckStep
  BY <1>4 DEF GrantProcessing, CheckStep
<1>5. ASSUME NEW u \in Schools, UpdateInstitutionPolicy(u) \/ UpdateProviderPolicy(u) PROVE CheckStep
  BY <1>5 DEF UpdateInstitutionPolicy, UpdateProviderPolicy, studentVars, CheckStep
<1>6. ASSUME NEW a \in Attempts,
             \/ Claim(a) \/ Fail(a) \/ Finish(a) \/ Forget(a)
             \/ \E o \in Objects : Redeem(a, o)
             \/ \E member \in BOOLEAN : Observe(a, member)
      PROVE  CheckStep
  BY <1>6 DEF Claim, Fail, Finish, Forget, Redeem, Observe, Step, studentVars, CheckStep
<1>7. ASSUME NEW o \in Objects, UnlinkMicrosoftIdentity(o) PROVE CheckStep
  BY <1>7 DEF UnlinkMicrosoftIdentity, studentVars, CheckStep
<1>8. ASSUME NEW k \in Consents, WithdrawMicrosoftConsent(k) PROVE CheckStep
  BY <1>8 DEF WithdrawMicrosoftConsent, studentVars, CheckStep
<1>9. ASSUME NEW g \in ProcessingGrants, WithdrawConsent(g) PROVE CheckStep
  BY <1>9 DEF WithdrawConsent, CheckStep
<1>10. CASE EvidenceExpires
  BY <1>10 DEF EvidenceExpires, studentVars, CheckStep
<1> QED BY <1>1, <1>2, <1>3, <1>4, <1>5, <1>6, <1>7, <1>8, <1>9, <1>10 DEF Next, CheckStep

LEMMA AppliedState ==
    ASSUME TypeOK, NEW c \in Checks, NEW outcome \in {"verified", "denied", "unknown"},
           ApplyEnrollmentDecision(c, outcome), NEW s \in Students, NEW u \in Schools
    PROVE  /\ check[c] \in CheckType
           /\ state'[s][u].asked = state[s][u].asked
           /\ IF s = check[c].student /\ u = check[c].context.school
              THEN state'[s][u].applied = check[c].generation
              ELSE state'[s][u] = state[s][u]
<1>1. check[c] \in CheckType
  BY RowsTyped DEF ApplyEnrollmentDecision
<1>2. check[c].student \in Students /\ check[c].context.school \in Schools
  BY <1>1 DEF CheckType, ContextType
<1> QED BY <1>1, <1>2 DEF ApplyEnrollmentDecision, TypeOK

LEMMA BegunState ==
    ASSUME TypeOK, NEW c \in Checks, NEW s \in Students, NEW g \in ProcessingGrants, NEW n \in Numbers,
           BeginEnrollmentCheck(c, s, g, n), NEW t \in Students, NEW u \in Schools
    PROVE  /\ profile[s].school \in Schools
           /\ state'[t][u].applied = state[t][u].applied
           /\ state'[t][u].denied = state[t][u].denied
           /\ state'[t][u].asked = IF t = s /\ u = profile[s].school
                                   THEN state[t][u].asked + 1 ELSE state[t][u].asked
           /\ check' = [check EXCEPT ![c] = [student |-> s, context |-> Context(s), grant |-> g, number |-> n,
                            generation |-> state[s][profile[s].school].asked + 1,
                            denied |-> state[s][profile[s].school].denied]]
<1>1. profile[s].school \in Schools
  BY DEF BeginEnrollmentCheck, TypeOK, School
<1>2. state[s][profile[s].school] \in StateType /\ state[t][u] \in StateType
  BY <1>1 DEF TypeOK
<1>3. state' = [state EXCEPT ![s][profile[s].school] = [state[s][profile[s].school] EXCEPT !.asked = @ + 1]]
  BY <1>1 DEF BeginEnrollmentCheck, TypeOK
<1>4. state'[s][profile[s].school].asked = state[s][profile[s].school].asked + 1
  BY <1>1, <1>2, <1>3 DEF TypeOK, StateType
<1>5. /\ state'[t][u].applied = state[t][u].applied
      /\ state'[t][u].denied = state[t][u].denied
      /\ state'[t][u].asked = IF t = s /\ u = profile[s].school
                               THEN state[t][u].asked + 1 ELSE state[t][u].asked
  BY <1>1, <1>2, <1>3 DEF TypeOK, StateType
<1>6. check' = [check EXCEPT ![c] = [student |-> s, context |-> Context(s), grant |-> g, number |-> n,
                   generation |-> state'[s][profile[s].school].asked,
                   denied |-> state[s][profile[s].school].denied]]
  BY DEF BeginEnrollmentCheck
<1> QED BY <1>1, <1>4, <1>5, <1>6

LEMMA ChecksCountedStep == ASSUME TypeOK, ChecksCounted, [Next]_vars PROVE ChecksCounted'
<1>0. ASSUME NEW c \in Checks, check[c] # NoCheck
      PROVE  /\ check[c].student \in Students /\ check[c].context.school \in Schools
             /\ check[c].generation \in Nat /\ StateOf(check[c]) \in StateType
  BY <1>0, RowsTyped DEF CheckType, ContextType, StateOf, TypeOK
<1>1. CASE UNCHANGED <<state, check>>
  BY <1>1 DEF ChecksCounted, StateOf, Pending
<1>2. ASSUME NEW c \in Checks, EndCheck(c) PROVE ChecksCounted'
  <2>1. \A d \in Checks : check'[d] = NoCheck \/ check'[d] = check[d]
    BY <1>2 DEF EndCheck, TypeOK
  <2>2. state' = state
    BY <1>2 DEF EndCheck, studentVars
  <2> QED BY <2>1, <2>2 DEF ChecksCounted, StateOf, Pending
<1>3. ASSUME NEW c \in Checks, NEW outcome \in {"verified", "denied", "unknown"},
             ApplyEnrollmentDecision(c, outcome)
      PROVE  ChecksCounted'
  <2> DEFINE x == check[c]
  <2>1. x # NoCheck /\ x.generation = StateOf(x).asked
    BY <1>3 DEF ApplyEnrollmentDecision, Pending, StateOf
  <2>2. ASSUME NEW s \in Students, NEW u \in Schools PROVE state'[s][u].applied <= state'[s][u].asked
    <3>1. CASE s = x.student /\ u = x.context.school
      <4>1. state'[s][u].applied = x.generation /\ state'[s][u].asked = x.generation
        BY <3>1, <2>1, <1>3, AppliedState DEF StateOf
      <4>2. x.generation \in Nat
        BY <2>1, <1>0
      <4> QED BY <4>1, <4>2
    <3>2. CASE ~(s = x.student /\ u = x.context.school)
      BY <3>2, <1>3, AppliedState DEF ChecksCounted
    <3> QED BY <3>1, <3>2
  <2>3. ASSUME NEW d \in Checks, check'[d] # NoCheck
        PROVE  /\ check'[d].generation <= StateOf(check[d])'.asked
               /\ Pending(check[d])' => check'[d].denied = StateOf(check[d])'.denied
    <3>1. check'[d] = check[d]
      BY <1>3, <2>3 DEF ApplyEnrollmentDecision, TypeOK
    <3> DEFINE y == check[d]
    <3>2. /\ y.student \in Students /\ y.context.school \in Schools /\ y.generation \in Nat
          /\ y # NoCheck /\ StateOf(y) \in StateType
      BY <3>1, <2>3, <1>0
    <3>3. /\ y.generation <= StateOf(y).asked
          /\ Pending(y) => y.denied = StateOf(y).denied
      BY <3>2 DEF ChecksCounted
    <3>4. CASE y.student = x.student /\ y.context.school = x.context.school
      <4>1. /\ state'[y.student][y.context.school].applied = x.generation
            /\ state'[y.student][y.context.school].asked = x.generation
        BY <3>2, <3>4, <2>1, <1>3, AppliedState DEF StateOf
      <4>2. x.generation \in Nat
        BY <2>1, <1>0
      <4>3. y.generation <= x.generation
        BY <3>3, <3>4, <2>1 DEF StateOf
      <4>4. ~Pending(y)'
        BY <3>1, <3>2, <4>1, <4>2, <4>3 DEF Pending
      <4>5. StateOf(y)'.asked = x.generation
        BY <3>1, <4>1 DEF StateOf
      <4> QED BY <3>1, <4>3, <4>4, <4>5 DEF StateOf, Pending
    <3>5. CASE ~(y.student = x.student /\ y.context.school = x.context.school)
      <4>1. state'[y.student][y.context.school] = state[y.student][y.context.school]
        BY <3>2, <3>5, <1>3, AppliedState
      <4> QED BY <3>1, <3>3, <4>1 DEF StateOf, Pending
    <3> QED BY <3>4, <3>5
  <2> QED BY <2>2, <2>3 DEF ChecksCounted
<1>4. ASSUME NEW c \in Checks, NEW s \in Students, NEW g \in ProcessingGrants, NEW n \in Numbers,
             BeginEnrollmentCheck(c, s, g, n)
      PROVE  ChecksCounted'
  <2> DEFINE u == profile[s].school
  <2>1. u \in Schools
    BY <1>4 DEF BeginEnrollmentCheck, TypeOK, School
  <2>2. ASSUME NEW t \in Students, NEW v \in Schools PROVE state'[t][v].applied <= state'[t][v].asked
    <3>1. state[t][v] \in StateType /\ state[t][v].applied <= state[t][v].asked
      BY DEF TypeOK, ChecksCounted
    <3>2. /\ state'[t][v].applied = state[t][v].applied
          /\ state'[t][v].asked = state[t][v].asked + 1 \/ state'[t][v].asked = state[t][v].asked
      BY <1>4, BegunState
    <3> QED BY <3>1, <3>2 DEF StateType
  <2>3. ASSUME NEW d \in Checks, check'[d] # NoCheck
        PROVE  /\ check'[d].generation <= StateOf(check[d])'.asked
               /\ Pending(check[d])' => check'[d].denied = StateOf(check[d])'.denied
    <3>1. CASE d = c
      <4>1. /\ check'[c].student = s /\ check'[c].context.school = u
            /\ check'[c].generation = state[s][u].asked + 1 /\ check'[c].denied = state[s][u].denied
        BY <1>4, <2>1, BegunState DEF TypeOK, Context
      <4>2. state'[s][u].asked = state[s][u].asked + 1 /\ state'[s][u].denied = state[s][u].denied
        BY <1>4, <2>1, BegunState
      <4>3. state[s][u].asked \in Nat
        BY <2>1 DEF TypeOK, StateType
      <4> QED BY <3>1, <4>1, <4>2, <4>3 DEF StateOf
    <3>2. CASE d # c
      <4> DEFINE y == check[d]
      <4>1. check'[d] = y
        BY <3>2, <1>4, <2>1, BegunState DEF TypeOK
      <4>2. /\ y # NoCheck /\ y.student \in Students /\ y.context.school \in Schools
            /\ y.generation \in Nat /\ StateOf(y) \in StateType
        BY <2>3, <4>1, <1>0
      <4>3. y.generation <= StateOf(y).asked /\ (Pending(y) => y.denied = StateOf(y).denied)
        BY <4>2 DEF ChecksCounted
      <4> DEFINE old == state[y.student][y.context.school]
                 new == state'[y.student][y.context.school]
      <4>4. new.applied = old.applied /\ new.denied = old.denied
        BY <4>2, <1>4, BegunState
      <4>5. new.asked = old.asked \/ new.asked = old.asked + 1
        BY <4>2, <1>4, BegunState
      <4>6. old.asked \in Nat /\ old.applied \in Nat
        BY <4>2 DEF StateOf, StateType
      <4>7. y.generation <= old.asked
        BY <4>3 DEF StateOf
      <4>8. y.generation <= new.asked
        BY <4>2, <4>5, <4>6, <4>7
      <4>9. ASSUME new.asked = y.generation, new.applied < y.generation
            PROVE  y.denied = new.denied
        <5>1. old.asked = y.generation
          BY <4>2, <4>5, <4>6, <4>7, <4>9
        <5>2. Pending(y)
          BY <5>1, <4>4, <4>9 DEF Pending
        <5> QED BY <5>2, <4>3, <4>4 DEF StateOf
      <4> QED BY <4>1, <4>8, <4>9 DEF StateOf, Pending
    <3> QED BY <3>1, <3>2
  <2> QED BY <2>2, <2>3 DEF ChecksCounted
<1> QED BY <1>1, <1>2, <1>3, <1>4, CheckSteps DEF CheckStep

LEMMA ChecksCountedInit == ASSUME Init PROVE ChecksCounted
BY DEF Init, ChecksCounted, NoState

\* A denial is lifted by a check that was begun when it stood.
LEMMA DenialStep ==
    ASSUME TypeOK, ChecksCounted, [Next]_vars, NEW s \in Students, NEW u \in Schools,
           state[s][u].denied, ~state'[s][u].denied
    PROVE  \E c \in Checks : check'[c] = NoCheck /\ check[c].student = s /\ check[c].denied
<1>1. ASSUME NEW c \in Checks, NEW outcome \in {"verified", "denied", "unknown"},
             ApplyEnrollmentDecision(c, outcome)
      PROVE  check'[c] = NoCheck /\ check[c].student = s /\ check[c].denied
  <2>1. s = check[c].student /\ u = check[c].context.school
    BY <1>1, AppliedState
  <2>2. check[c] # NoCheck /\ Pending(check[c])
    BY <1>1 DEF ApplyEnrollmentDecision
  <2>3. check[c].denied = StateOf(check[c]).denied
    BY <2>2 DEF ChecksCounted
  <2>4. check'[c] = NoCheck
    BY <1>1 DEF ApplyEnrollmentDecision, TypeOK
  <2> QED BY <2>1, <2>3, <2>4 DEF StateOf
<1>2. ASSUME NEW c \in Checks, EndCheck(c) PROVE FALSE
  BY <1>2 DEF EndCheck, studentVars
<1>3. ASSUME NEW c \in Checks, NEW t \in Students, NEW g \in ProcessingGrants, NEW n \in Numbers,
             BeginEnrollmentCheck(c, t, g, n)
      PROVE  FALSE
  BY <1>3, BegunState
<1>4. ~UNCHANGED <<state, check>>
  OBVIOUS
<1> QED BY <1>1, <1>2, <1>3, <1>4, CheckSteps DEF CheckStep

\* DenialStands: an answer asked for before a denial never lifts it.
THEOREM DenialStandsHolds == Spec => DenialStands
<1>1. Init => TypeOK /\ ChecksCounted
  BY TypesInit, ChecksCountedInit
<1>2. (TypeOK /\ ChecksCounted) /\ [Next]_vars => (TypeOK /\ ChecksCounted)'
  BY TypesStep, ChecksCountedStep
<1>3. (TypeOK /\ ChecksCounted) /\ [Next]_vars =>
         [\A s \in Students, u \in Schools : state[s][u].denied /\ ~state'[s][u].denied =>
             \E c \in Checks : check'[c] = NoCheck /\ check[c].student = s /\ check[c].denied]_vars
  BY DenialStep
<1> QED BY <1>1, <1>2, <1>3, PTL DEF Spec, DenialStands
-----------------------------------------------------------------------------
(***************************************************************************)
(* Attempts at Microsoft.                                                  *)
(***************************************************************************)
ObjectKnown == \A a \in Attempts : attempt[a].status = "ready" => attempt[a].object \in Objects

\* What an attempt that is over was about never changes.
Kept(a) == /\ attempt'[a].status = attempt[a].status
           /\ attempt'[a].student = attempt[a].student
           /\ attempt'[a].context = attempt[a].context
           /\ attempt'[a].grant = attempt[a].grant
           /\ attempt'[a].object = attempt[a].object

AttemptsKept == \A a \in Attempts : attempt[a].status \in Over => Kept(a)

LEMMA FailedKeeps ==
    ASSUME TypeOK, ObjectKnown, NEW A, attempt' = Failed(A)
    PROVE  AttemptsKept /\ ObjectKnown'
<1>1. ASSUME NEW a \in Attempts, attempt[a].status \in Over PROVE Kept(a)
  <2>1. a \notin Live
    BY <1>1 DEF Live, Over
  <2> QED BY <2>1, <1>1 DEF Failed, Kept
<1>2. ASSUME NEW a \in Attempts, attempt'[a].status = "ready" PROVE attempt'[a].object \in Objects
  <2>1. CASE a \in A \cap Live
    <3>1. attempt[a] \in AttemptType
      BY <2>1, RowsTyped
    <3>2. attempt'[a].status = "failed"
      BY <2>1, <3>1 DEF Failed, AttemptType
    <3> QED BY <3>2, <1>2
  <2>2. CASE a \notin A \cap Live
    BY <2>2, <1>2 DEF Failed, ObjectKnown
  <2> QED BY <2>1, <2>2
<1> QED BY <1>1, <1>2 DEF AttemptsKept, ObjectKnown

LEMMA RowKeeps ==
    ASSUME TypeOK, ObjectKnown, NEW a \in Attempts, NEW new,
           attempt' = [attempt EXCEPT ![a] = new],
           attempt[a].status \notin Over, new.status = "ready" => new.object \in Objects
    PROVE  AttemptsKept /\ ObjectKnown'
BY DEF TypeOK, ObjectKnown, AttemptsKept, Kept

LEMMA StepKeeps ==
    ASSUME TypeOK, ObjectKnown, NEW a \in Live, NEW new, Step(a, new),
           new.status = "ready" => new.object \in Objects
    PROVE  AttemptsKept /\ ObjectKnown'
<1>1. a \in Attempts /\ attempt[a].status \notin Over
  BY DEF Live, Over
<1> QED BY <1>1, FailedKeeps, RowKeeps DEF Step

LEMMA AttemptSteps ==
    ASSUME TypeOK, ObjectKnown, NEW a \in Attempts,
           \/ Claim(a) \/ Fail(a) \/ Finish(a) \/ Forget(a)
           \/ \E o \in Objects : Redeem(a, o)
           \/ \E member \in BOOLEAN : Observe(a, member)
    PROVE  AttemptsKept /\ ObjectKnown'
<1>0. ASSUME a \in Live PROVE attempt[a] \in AttemptType /\ attempt[a].status \notin Over
  BY <1>0, RowsTyped DEF Live, Over
<1>1. CASE Claim(a)
  <2>1. [attempt[a] EXCEPT !.status = "processing"].status = "processing"
    BY <1>0, <1>1 DEF Claim, AttemptType
  <2> QED BY <2>1, <1>1, StepKeeps DEF Claim
<1>2. ASSUME NEW o \in Objects, Redeem(a, o) PROVE AttemptsKept /\ ObjectKnown'
  <2>1. [attempt[a] EXCEPT !.object = o].object = o
    BY <1>0, <1>2 DEF Redeem, AttemptType
  <2> QED BY <2>1, <1>2, StepKeeps DEF Redeem
<1>3. ASSUME NEW member \in BOOLEAN, Observe(a, member) PROVE AttemptsKept /\ ObjectKnown'
  <2>1. [attempt[a] EXCEPT !.status = "ready", !.member = member].object \in Objects
    BY <1>0, <1>3 DEF Observe, AttemptType
  <2> QED BY <2>1, <1>3, StepKeeps DEF Observe
<1>4. CASE Fail(a)
  BY <1>4, FailedKeeps DEF Fail
<1>5. CASE Forget(a)
  <2>1. attempt[a] \in AttemptType
    BY <1>5, RowsTyped DEF Forget
  <2>2. \A b \in Attempts : Kept(b)
    BY <1>5, <2>1 DEF Forget, TypeOK, AttemptType, Kept
  <2> QED BY <2>2 DEF AttemptsKept, ObjectKnown, Kept
<1>6. CASE Finish(a)
  <2> DEFINE new == [attempt[a] EXCEPT !.status = "completed", !.receipt = Enrolls(attempt[a])]
  <2>1. attempt' = [attempt EXCEPT ![a] = new]
    BY <1>6 DEF Finish, TypeOK
  <2>2. new.status = "completed" /\ attempt[a].status \notin Over
    BY <1>0, <1>6 DEF Finish, AttemptType
  <2> QED BY <2>1, <2>2, RowKeeps
<1> QED BY <1>1, <1>2, <1>3, <1>4, <1>5, <1>6

LEMMA KeptStep == ASSUME TypeOK, ObjectKnown, [Next]_vars PROVE AttemptsKept /\ ObjectKnown'
<1>0. ASSUME attempt' = attempt PROVE AttemptsKept /\ ObjectKnown'
  BY <1>0 DEF AttemptsKept, Kept, ObjectKnown
<1>1. CASE UNCHANGED vars
  BY <1>0, <1>1 DEF vars, microsoftVars
<1>2. ASSUME NEW c \in Checks,
             \/ EndCheck(c)
             \/ \E outcome \in {"verified", "denied", "unknown"} : ApplyEnrollmentDecision(c, outcome)
             \/ \E s \in Students, g \in ProcessingGrants, n \in Numbers : BeginEnrollmentCheck(c, s, g, n)
      PROVE  AttemptsKept /\ ObjectKnown'
  BY <1>0, <1>2 DEF EndCheck, ApplyEnrollmentDecision, BeginEnrollmentCheck, microsoftVars
<1>3. ASSUME NEW s \in Students,
             \/ EditProfile(s) \/ \E u \in Schools : SelectStudentInstitution(s, u)
             \/ \E g \in ProcessingGrants : \/ GrantProcessing(g, s)
                                            \/ \E k \in Consents : AcceptMicrosoftConsent(k, s, g)
      PROVE  AttemptsKept /\ ObjectKnown'
  BY <1>0, <1>3
     DEF EditProfile, SelectStudentInstitution, Bump, GrantProcessing, AcceptMicrosoftConsent, microsoftVars
<1>4. ASSUME NEW s \in Students, NEW k \in Consents, NEW a \in Attempts, Start(a, s, k)
      PROVE  AttemptsKept /\ ObjectKnown'
  <2> DEFINE new == [status |-> "pending", student |-> s, context |-> Context(s),
                     grant |-> consent[k].grant, consent |-> k, provider |-> provider[profile[s].school],
                     object |-> None, member |-> FALSE, receipt |-> None]
  <2>1. attempt' = [attempt EXCEPT ![a] = new]
    BY <1>4 DEF Start
  <2>2. attempt[a].status \notin Over
    BY <1>4 DEF Start, NoAttempt, Over
  <2>3. new.status = "pending"
    OBVIOUS
  <2> HIDE DEF new
  <2> QED BY <2>1, <2>2, <2>3, RowKeeps
<1>5. ASSUME NEW u \in Schools, UpdateInstitutionPolicy(u) \/ UpdateProviderPolicy(u)
      PROVE  AttemptsKept /\ ObjectKnown'
  BY <1>0, <1>5, FailedKeeps DEF UpdateInstitutionPolicy, UpdateProviderPolicy, microsoftVars
<1>6. ASSUME NEW o \in Objects, UnlinkMicrosoftIdentity(o) PROVE AttemptsKept /\ ObjectKnown'
  BY <1>6, FailedKeeps DEF UnlinkMicrosoftIdentity, FailedByUnlink
<1>7. ASSUME NEW k \in Consents, WithdrawMicrosoftConsent(k) PROVE AttemptsKept /\ ObjectKnown'
  BY <1>7, FailedKeeps DEF WithdrawMicrosoftConsent
<1>8. ASSUME NEW g \in ProcessingGrants, WithdrawConsent(g) PROVE AttemptsKept /\ ObjectKnown'
  BY <1>8, FailedKeeps DEF WithdrawConsent
<1>9. CASE EvidenceExpires
  BY <1>0, <1>9 DEF EvidenceExpires, microsoftVars
<1> QED BY <1>1, <1>2, <1>3, <1>4, <1>5, <1>6, <1>7, <1>8, <1>9, AttemptSteps DEF Next

-----------------------------------------------------------------------------
(***************************************************************************)
(* Evidence and accounts.                                                  *)
(***************************************************************************)
\* Evidence is kept as it was, but its proof may be revoked.
Inherited(f) == \E e \in evidence : f = e \/ f = [e EXCEPT !.proof = FALSE]

\* What a step does to evidence, and to the accounts that are linked.
EvidenceStep ==
    \/ \E a \in Attempts : Finish(a)
    \/ \E o \in Objects : UnlinkMicrosoftIdentity(o)
    \/ /\ UNCHANGED <<identity, past>>
       /\ \/ \A f \in evidence' : Inherited(f)
          \/ \E c \in Checks, outcome \in {"verified", "denied", "unknown"} :
                ApplyEnrollmentDecision(c, outcome)

LEMMA EvidenceSteps == ASSUME [Next]_vars PROVE EvidenceStep
<1>0. ASSUME UNCHANGED <<evidence, identity, past>> PROVE EvidenceStep
  BY <1>0 DEF EvidenceStep, Inherited
<1>1. CASE UNCHANGED vars
  BY <1>0, <1>1 DEF vars, microsoftVars
<1>2. ASSUME NEW c \in Checks,
             EndCheck(c) \/ \E s \in Students, g \in ProcessingGrants, n \in Numbers : BeginEnrollmentCheck(c, s, g, n)
      PROVE  EvidenceStep
  BY <1>0, <1>2 DEF EndCheck, BeginEnrollmentCheck, microsoftVars
<1>3. ASSUME NEW c \in Checks, NEW outcome \in {"verified", "denied", "unknown"},
             ApplyEnrollmentDecision(c, outcome)
      PROVE  EvidenceStep
  BY <1>3 DEF ApplyEnrollmentDecision, microsoftVars, EvidenceStep
<1>4. ASSUME NEW s \in Students,
             \/ EditProfile(s) \/ \E u \in Schools : SelectStudentInstitution(s, u)
             \/ \E g \in ProcessingGrants : GrantProcessing(g, s)
             \/ \E k \in Consents : \/ \E g \in ProcessingGrants : AcceptMicrosoftConsent(k, s, g)
                                    \/ \E a \in Attempts : Start(a, s, k)
      PROVE  EvidenceStep
  BY <1>0, <1>4
     DEF EditProfile, SelectStudentInstitution, Bump, GrantProcessing, AcceptMicrosoftConsent, Start, microsoftVars
<1>5. ASSUME NEW u \in Schools, UpdateInstitutionPolicy(u) \/ UpdateProviderPolicy(u) PROVE EvidenceStep
  BY <1>0, <1>5 DEF UpdateInstitutionPolicy, UpdateProviderPolicy, microsoftVars
<1>6. ASSUME NEW a \in Attempts,
             \/ Claim(a) \/ Fail(a) \/ Finish(a) \/ Forget(a)
             \/ \E o \in Objects : Redeem(a, o)
             \/ \E member \in BOOLEAN : Observe(a, member)
      PROVE  EvidenceStep
  <2>1. CASE Finish(a)
    BY <2>1 DEF EvidenceStep
  <2>2. CASE ~Finish(a)
    BY <2>2, <1>0, <1>6 DEF Claim, Fail, Forget, Redeem, Observe, Step
  <2> QED BY <2>1, <2>2
<1>7. ASSUME NEW o \in Objects, UnlinkMicrosoftIdentity(o) PROVE EvidenceStep
  BY <1>7 DEF EvidenceStep
<1>8. ASSUME NEW k \in Consents, WithdrawMicrosoftConsent(k) PROVE EvidenceStep
  BY <1>8 DEF WithdrawMicrosoftConsent, EvidenceStep, Inherited
<1>9. ASSUME NEW g \in ProcessingGrants, WithdrawConsent(g) PROVE EvidenceStep
  BY <1>9 DEF WithdrawConsent, EvidenceStep, Inherited
<1>10. CASE EvidenceExpires
  BY <1>10 DEF EvidenceExpires, microsoftVars, EvidenceStep, Inherited
<1> QED BY <1>1, <1>2, <1>3, <1>4, <1>5, <1>6, <1>7, <1>8, <1>9, <1>10 DEF Next

\* What evidence inherits.
LEMMA InheritedFields ==
    ASSUME TypeOK, NEW f, Inherited(f)
    PROVE  \E e \in evidence :
             /\ f.student = e.student /\ f.context = e.context /\ f.asked = e.asked
             /\ f.grant = e.grant /\ f.number = e.number /\ f.attempt = e.attempt
BY DEF Inherited, TypeOK, EvidenceType

\* Evidence by Microsoft is what its attempt was about, and its account is linked.
OfAttempt ==
    \A e \in evidence : e.attempt # None =>
        LET x == attempt[e.attempt] IN
        /\ x.status = "completed" /\ x.object \in Objects /\ LinkedTo(x.object, x)
        /\ x.student = e.student /\ x.context = e.context /\ x.grant = e.grant

LinkedOnce ==
    \A o, p \in Objects :
        /\ identity[o].linked /\ identity[p].linked
        /\ identity[o].student = identity[p].student /\ identity[o].school = identity[p].school
        => o = p

\* A linked account is its owner's, whose attempt linked it.
ByOwner ==
    \A o \in Objects : identity[o].linked =>
        LET x == attempt[identity[o].by] IN
        x.status = "completed" /\ x.student = identity[o].student /\ x.context.school = identity[o].school

PastIsOver == \A a \in past : attempt[a].status \in Over

AccountsHold ==
    ObjectKnown /\ OfAttempt /\ LinkedOnce /\ ByOwner /\ PastIsOver /\ UnlinkIsFinal

LEMMA AccountsInit == ASSUME Init PROVE AccountsHold
BY DEF Init, AccountsHold, ObjectKnown, OfAttempt, LinkedOnce, ByOwner, PastIsOver, UnlinkIsFinal,
       NoAttempt, NoIdentity

LEMMA PastStays == ASSUME TypeOK, PastIsOver, AttemptsKept PROVE \A a \in past : attempt'[a].status \in Over
BY DEF TypeOK, PastIsOver, AttemptsKept, Kept

LEMMA AccountsFinish ==
    ASSUME TypeOK, TypeOK', AccountsHold, AttemptsKept, NEW a \in Attempts, Finish(a)
    PROVE  OfAttempt' /\ LinkedOnce' /\ ByOwner' /\ PastIsOver' /\ UnlinkIsFinal'
<1> DEFINE x == attempt[a]
           o == x.object
<1>1. x \in AttemptType /\ x.status = "ready" /\ o \in Objects /\ a \notin past
  BY RowsTyped DEF Finish, AccountsHold, ObjectKnown, PastIsOver, Over
<1>2. x.student \in Students /\ x.context.school \in Schools /\ x.context = Context(x.student)
  BY <1>1, AuthorityTyped DEF Finish, Authority, AttemptType, ContextType
<1>3. /\ attempt'[a].status = "completed" /\ attempt'[a].student = x.student
      /\ attempt'[a].context = x.context /\ attempt'[a].grant = x.grant /\ attempt'[a].object = o
  BY <1>1 DEF Finish, TypeOK, AttemptType
<1>4. past' = past
  BY DEF Finish
<1>5. \A p \in Objects : p # o => identity'[p] = identity[p]
  BY DEF Finish
<1>6. \/ identity' = identity /\ LinkedTo(o, x)
      \/ /\ identity[o] = NoIdentity /\ \A other \in Objects : ~LinkedTo(other, x)
         /\ identity'[o] = [student |-> x.student, by |-> a, school |-> x.context.school, linked |-> TRUE]
  <2>1. LinkedTo(o, x) => identity[o] # NoIdentity
    BY DEF LinkedTo, NoIdentity
  <2> QED BY <1>1, <2>1 DEF Finish, Linkable, TypeOK
<1>7. identity'[o].linked /\ identity'[o].student = x.student /\ identity'[o].school = x.context.school
  BY <1>6 DEF LinkedTo
<1>8. \A p \in Objects : identity[p].linked => identity'[p] = identity[p]
  BY <1>5, <1>6 DEF NoIdentity
<1>9. OfAttempt'
  <2> SUFFICES ASSUME NEW f \in evidence', f.attempt # None
               PROVE  /\ attempt'[f.attempt].status = "completed" /\ attempt'[f.attempt].object \in Objects
                      /\ LinkedTo(attempt[f.attempt].object, attempt[f.attempt])'
                      /\ attempt'[f.attempt].student = f.student /\ attempt'[f.attempt].context = f.context
                      /\ attempt'[f.attempt].grant = f.grant
    BY DEF OfAttempt
  <2>1. CASE f \in evidence
    <3> DEFINE y == attempt[f.attempt]
    <3>1. f.attempt \in Attempts
      BY <2>1 DEF TypeOK, EvidenceType
    <3>2. /\ y.status = "completed" /\ y.object \in Objects /\ LinkedTo(y.object, y)
          /\ y.student = f.student /\ y.context = f.context /\ y.grant = f.grant
      BY <2>1 DEF AccountsHold, OfAttempt
    <3>3. Kept(f.attempt)
      BY <3>1, <3>2 DEF AttemptsKept, Over
    <3>4. identity'[y.object] = identity[y.object]
      BY <3>2, <1>8 DEF LinkedTo
    <3> QED BY <3>2, <3>3, <3>4 DEF Kept, LinkedTo
  <2>2. CASE f \notin evidence
    <3>1. /\ f.student = x.student /\ f.context = Context(x.student) /\ f.grant = x.grant /\ f.attempt = a
      BY <2>2 DEF Finish
    <3> QED BY <3>1, <1>1, <1>2, <1>3, <1>7 DEF LinkedTo
  <2> QED BY <2>1, <2>2
<1>10. LinkedOnce'
  <2> SUFFICES ASSUME NEW p \in Objects, NEW q \in Objects, identity'[p].linked, identity'[q].linked,
                      identity'[p].student = identity'[q].student, identity'[p].school = identity'[q].school
               PROVE  p = q
    BY DEF LinkedOnce
  <2>1. CASE identity' = identity
    BY <2>1 DEF AccountsHold, LinkedOnce
  <2>2. CASE identity' # identity
    <3>1. \A r \in Objects : ~(identity[r].linked /\ identity[r].student = x.student
                               /\ identity[r].school = x.context.school)
      BY <2>2, <1>6 DEF LinkedTo
    <3>2. ASSUME p # o, q # o PROVE p = q
      BY <3>2, <1>5 DEF AccountsHold, LinkedOnce
    <3>3. ASSUME p = o, q # o PROVE FALSE
      BY <3>1, <3>3, <1>5, <1>7
    <3>4. ASSUME p # o, q = o PROVE FALSE
      BY <3>1, <3>4, <1>5, <1>7
    <3> QED BY <3>2, <3>3, <3>4
  <2> QED BY <2>1, <2>2
<1>11. ASSUME NEW p \in Objects, identity'[p].linked
       PROVE  \/ p = o /\ identity'[p].by = a
              \/ identity[p].linked /\ identity'[p] = identity[p]
  BY <1>11, <1>5, <1>6 DEF LinkedTo
<1>12. ByOwner'
  <2> SUFFICES ASSUME NEW p \in Objects, identity'[p].linked
               PROVE  /\ attempt'[identity'[p].by].status = "completed"
                      /\ attempt'[identity'[p].by].student = identity'[p].student
                      /\ attempt'[identity'[p].by].context.school = identity'[p].school
    BY DEF ByOwner
  <2>1. CASE p = o /\ identity'[p].by = a
    BY <2>1, <1>3, <1>7
  <2>2. CASE identity[p].linked /\ identity'[p] = identity[p]
    <3>1. identity[p].by \in Attempts
      BY <2>2, RowsTyped DEF IdentityType
    <3>2. /\ attempt[identity[p].by].status = "completed"
          /\ attempt[identity[p].by].student = identity[p].student
          /\ attempt[identity[p].by].context.school = identity[p].school
      BY <2>2 DEF AccountsHold, ByOwner
    <3>3. Kept(identity[p].by)
      BY <3>1, <3>2 DEF AttemptsKept, Over
    <3> QED BY <2>2, <3>2, <3>3 DEF Kept
  <2> QED BY <2>1, <2>2, <1>11
<1>13. PastIsOver'
  BY <1>4, PastStays DEF AccountsHold, PastIsOver
<1>14. UnlinkIsFinal'
  <2>1. \A p \in Objects : identity'[p].linked => identity'[p].by \notin past'
    BY <1>1, <1>4, <1>11 DEF AccountsHold, UnlinkIsFinal
  <2>2. \A f \in evidence' : f.attempt \notin past'
    BY <1>1, <1>4 DEF Finish, AccountsHold, UnlinkIsFinal
  <2> QED BY <2>1, <2>2 DEF UnlinkIsFinal
<1> QED BY <1>9, <1>10, <1>12, <1>13, <1>14

LEMMA AccountsUnlink ==
    ASSUME TypeOK, AccountsHold, AttemptsKept, NEW o \in Objects, UnlinkMicrosoftIdentity(o)
    PROVE  OfAttempt' /\ LinkedOnce' /\ ByOwner' /\ PastIsOver' /\ UnlinkIsFinal'
<1>0. identity[o].linked /\ identity[o] \in IdentityType
  BY RowsTyped DEF UnlinkMicrosoftIdentity
<1>1. \A p \in Objects : p # o => identity'[p] = identity[p]
  BY DEF UnlinkMicrosoftIdentity, TypeOK
<1>2. ~identity'[o].linked
  BY <1>0 DEF UnlinkMicrosoftIdentity, TypeOK, IdentityType
<1>3. evidence' \subseteq evidence /\ \A e \in evidence' : e.attempt = None \/ attempt[e.attempt].object # o
  BY DEF UnlinkMicrosoftIdentity
<1>4. past' = past \cup AttemptsOf(o)
  BY DEF UnlinkMicrosoftIdentity
<1>5. OfAttempt'
  <2> SUFFICES ASSUME NEW f \in evidence', f.attempt # None
               PROVE  /\ attempt'[f.attempt].status = "completed" /\ attempt'[f.attempt].object \in Objects
                      /\ LinkedTo(attempt[f.attempt].object, attempt[f.attempt])'
                      /\ attempt'[f.attempt].student = f.student /\ attempt'[f.attempt].context = f.context
                      /\ attempt'[f.attempt].grant = f.grant
    BY DEF OfAttempt
  <2> DEFINE y == attempt[f.attempt]
  <2>1. f.attempt \in Attempts /\ f \in evidence
    BY <1>3 DEF TypeOK, EvidenceType
  <2>2. /\ y.status = "completed" /\ y.object \in Objects /\ LinkedTo(y.object, y) /\ y.object # o
        /\ y.student = f.student /\ y.context = f.context /\ y.grant = f.grant
    BY <2>1, <1>3 DEF AccountsHold, OfAttempt
  <2>3. Kept(f.attempt)
    BY <2>1, <2>2 DEF AttemptsKept, Over
  <2> QED BY <2>2, <2>3, <1>1 DEF Kept, LinkedTo
<1>6. LinkedOnce'
  BY <1>1, <1>2 DEF AccountsHold, LinkedOnce
<1>7. ASSUME NEW p \in Objects, identity'[p].linked
      PROVE  /\ p # o /\ identity[p].linked /\ identity'[p] = identity[p] /\ identity[p].by \in Attempts
             /\ attempt[identity[p].by].status = "completed"
             /\ attempt[identity[p].by].student = identity[p].student
             /\ attempt[identity[p].by].context.school = identity[p].school
  <2>1. p # o /\ identity'[p] = identity[p] /\ identity[p].linked
    BY <1>1, <1>2, <1>7
  <2>2. identity[p].by \in Attempts
    BY <2>1, RowsTyped DEF IdentityType
  <2> QED BY <2>1, <2>2 DEF AccountsHold, ByOwner
<1>8. ByOwner'
  <2>1. ASSUME NEW p \in Objects, identity'[p].linked PROVE Kept(identity[p].by)
    BY <2>1, <1>7 DEF AttemptsKept, Over
  <2> QED BY <2>1, <1>7 DEF ByOwner, Kept
<1>9. PastIsOver'
  <2>1. ASSUME NEW a \in AttemptsOf(o) PROVE attempt'[a].status \in Over
    <3>1. a \in Attempts /\ attempt[a].student = identity[o].student
      BY DEF AttemptsOf
    <3>2. attempt[a] # NoAttempt
      BY <3>1, <1>0, EnrolmentAssumption DEF NoAttempt, IdentityType
    <3>3. attempt[a] \in AttemptType
      BY <3>1, <3>2 DEF TypeOK
    <3>4. CASE a \in Live
      <4>1. attempt'[a] = [attempt[a] EXCEPT !.status = "failed"]
        BY <3>4 DEF UnlinkMicrosoftIdentity, FailedByUnlink, Failed, Live
      <4> QED BY <4>1, <3>3 DEF AttemptType, Over
    <3>5. CASE a \notin Live
      <4>1. attempt[a].status \in Over
        BY <3>1, <3>3, <3>5 DEF Live, AttemptType, Over
      <4> QED BY <4>1, <3>1 DEF AttemptsKept, Kept
    <3> QED BY <3>4, <3>5
  <2> QED BY <2>1, <1>4, PastStays DEF AccountsHold, PastIsOver
<1>10. UnlinkIsFinal'
  <2>1. ASSUME NEW p \in Objects, identity'[p].linked PROVE identity'[p].by \notin past'
    <3>1. identity[p].by \notin past
      BY <2>1, <1>7 DEF AccountsHold, UnlinkIsFinal
    <3>2. identity[p].by \notin AttemptsOf(o)
      BY <2>1, <1>0, <1>7 DEF AttemptsOf, AccountsHold, LinkedOnce
    <3> QED BY <2>1, <3>1, <3>2, <1>4, <1>7
  <2>2. ASSUME NEW f \in evidence' PROVE f.attempt \notin past'
    <3>1. f.attempt \notin past /\ f \in evidence
      BY <2>2, <1>3 DEF AccountsHold, UnlinkIsFinal
    <3>2. ASSUME f.attempt \in AttemptsOf(o) PROVE FALSE
      <4> DEFINE y == attempt[f.attempt]
      <4>1. f.attempt # None
        BY <3>2, EnrolmentAssumption DEF AttemptsOf
      <4>2. y.object \in Objects /\ LinkedTo(y.object, y) /\ y.object # o
        BY <3>1, <4>1, <1>3 DEF AccountsHold, OfAttempt
      <4>3. y.student = identity[o].student /\ y.context.school = identity[o].school
        BY <3>2 DEF AttemptsOf
      <4> QED BY <4>2, <4>3, <1>0 DEF LinkedTo, AccountsHold, LinkedOnce
    <3> QED BY <3>1, <3>2, <1>4
  <2> QED BY <2>1, <2>2 DEF UnlinkIsFinal
<1> QED BY <1>5, <1>6, <1>8, <1>9, <1>10

LEMMA AccountsStep == ASSUME TypeOK, AccountsHold, [Next]_vars PROVE AccountsHold'
<1>1. AttemptsKept /\ ObjectKnown' /\ TypeOK'
  BY KeptStep, TypesStep DEF AccountsHold
<1>2. ASSUME UNCHANGED <<identity, past>>,
             \A f \in evidence' : f.attempt = None \/ Inherited(f)
      PROVE  OfAttempt' /\ LinkedOnce' /\ ByOwner' /\ PastIsOver' /\ UnlinkIsFinal'
  <2>1. ASSUME NEW f \in evidence', f.attempt # None
        PROVE  \E e \in evidence : /\ f.student = e.student /\ f.context = e.context
                                   /\ f.grant = e.grant /\ f.attempt = e.attempt
    BY <1>2, <2>1, InheritedFields
  <2>2. OfAttempt'
    <3> SUFFICES ASSUME NEW f \in evidence', f.attempt # None
                 PROVE  /\ attempt'[f.attempt].status = "completed" /\ attempt'[f.attempt].object \in Objects
                        /\ LinkedTo(attempt[f.attempt].object, attempt[f.attempt])'
                        /\ attempt'[f.attempt].student = f.student /\ attempt'[f.attempt].context = f.context
                        /\ attempt'[f.attempt].grant = f.grant
      BY DEF OfAttempt
    <3> DEFINE y == attempt[f.attempt]
    <3>1. /\ y.status = "completed" /\ y.object \in Objects /\ LinkedTo(y.object, y)
          /\ y.student = f.student /\ y.context = f.context /\ y.grant = f.grant
          /\ f.attempt \in Attempts
      BY <2>1 DEF AccountsHold, OfAttempt, TypeOK, EvidenceType
    <3>2. Kept(f.attempt)
      BY <3>1, <1>1 DEF AttemptsKept, Over
    <3> QED BY <3>1, <3>2, <1>2 DEF Kept, LinkedTo
  <2>3. LinkedOnce'
    BY <1>2 DEF AccountsHold, LinkedOnce
  <2>4. ByOwner'
    <3>1. ASSUME NEW o \in Objects, identity[o].linked
          PROVE  /\ Kept(identity[o].by) /\ attempt[identity[o].by].status = "completed"
                 /\ attempt[identity[o].by].student = identity[o].student
                 /\ attempt[identity[o].by].context.school = identity[o].school
      <4>1. identity[o].by \in Attempts
        BY <3>1, RowsTyped DEF IdentityType
      <4> QED BY <4>1, <3>1, <1>1 DEF AccountsHold, ByOwner, AttemptsKept, Over
    <3> QED BY <3>1, <1>2 DEF ByOwner, Kept
  <2>5. PastIsOver'
    BY <1>1, <1>2, PastStays DEF AccountsHold, PastIsOver
  <2>6. UnlinkIsFinal'
    <3>1. None \notin past
      BY EnrolmentAssumption DEF TypeOK
    <3>2. \A f \in evidence' : f.attempt \notin past
      BY <2>1, <3>1 DEF AccountsHold, UnlinkIsFinal
    <3> QED BY <3>2, <1>2 DEF AccountsHold, UnlinkIsFinal
  <2> QED BY <2>2, <2>3, <2>4, <2>5, <2>6
<1>3. ASSUME NEW c \in Checks, NEW outcome \in {"verified", "denied", "unknown"},
             ApplyEnrollmentDecision(c, outcome)
      PROVE  \A f \in evidence' : f.attempt = None \/ Inherited(f)
  BY <1>3 DEF ApplyEnrollmentDecision, Inherited
<1> QED BY <1>1, <1>2, <1>3, AccountsFinish, AccountsUnlink, EvidenceSteps DEF EvidenceStep, AccountsHold

\* The inductive invariant on linked accounts and what was attested by them.
THEOREM Accounts == Spec => [](TypeOK /\ AccountsHold)
<1>1. Init => TypeOK /\ AccountsHold
  BY TypesInit, AccountsInit
<1>2. (TypeOK /\ AccountsHold) /\ [Next]_vars => (TypeOK /\ AccountsHold)'
  BY TypesStep, AccountsStep
<1> QED BY <1>1, <1>2, PTL DEF Spec

\* UnlinkIsFinal: what was under way when an account was unlinked links and proves nothing.
THEOREM UnlinkIsFinalHolds == Spec => []UnlinkIsFinal
<1>1. AccountsHold => UnlinkIsFinal
  BY DEF AccountsHold
<1> QED BY <1>1, Accounts, PTL

\* ReportsAgree: a repeated finish never reports more than every reader finds.
THEOREM ReportsAgreeHolds == Spec => []ReportsAgree
<1>1. ASSUME TypeOK, AccountsHold, NEW a \in Attempts, RetryReports(a) = "eligible"
      PROVE  \E e \in Effective(attempt[a].student) : e.attempt = a
  <2> DEFINE x == attempt[a]
             s == x.student
  <2>1. /\ x.receipt # None /\ Authority(x) /\ LinkedTo(x.object, x)
        /\ ~state[s][x.context.school].denied
        /\ \E e \in evidence : e.attempt = a /\ e.proof
    BY <1>1 DEF RetryReports, None
  <2>2. x \in AttemptType
    BY <1>1, <2>1, RowsTyped
  <2>3. s \in Students /\ x.context.school \in Schools
    BY <2>2 DEF AttemptType, ContextType
  <2>4. profile[s].school \in Schools /\ x.context = Context(s) /\ Context(s).school = profile[s].school
    BY <1>1, <2>1, <2>3, AuthorityTyped DEF Authority, Context
  <2>5. PICK e \in evidence : e.attempt = a /\ e.proof
    BY <2>1
  <2>6. a # None
    BY EnrolmentAssumption
  <2>7. e.student = s /\ e.context = x.context /\ e.grant = x.grant
    BY <1>1, <2>5, <2>6 DEF AccountsHold, OfAttempt
  <2>8. MicrosoftProof(e)
    BY <2>1, <2>5, <2>7 DEF MicrosoftProof, Authority
  <2>9. Standing(e.grant, s)
    BY <2>1, <2>7 DEF Authority
  <2>10. profile[s].school # None /\ ~state[s][profile[s].school].denied
    BY <2>1, <2>4, EnrolmentAssumption
  <2>11. e \in Effective(s)
    BY <2>4, <2>5, <2>7, <2>8, <2>9, <2>10 DEF Effective
  <2> QED BY <2>5, <2>11
<1>2. TypeOK /\ AccountsHold => ReportsAgree
  BY <1>1 DEF ReportsAgree
<1> QED BY <1>2, Accounts, PTL
-----------------------------------------------------------------------------
(***************************************************************************)
(* Registration numbers.                                                   *)
(***************************************************************************)
\* What a step does to the profile, to the reservations and to evidence.
NumbersStep ==
    \/ \E s \in Students, u \in School : Bump(s, u)
    \/ \E a \in Attempts : Finish(a)
    \/ \E c \in Checks, outcome \in {"verified", "denied", "unknown"} : ApplyEnrollmentDecision(c, outcome)
    \/ UNCHANGED <<profile, reserved>> /\ \A f \in evidence' : Inherited(f)

LEMMA NumbersSteps == ASSUME TypeOK, [Next]_vars PROVE NumbersStep
<1>0. ASSUME UNCHANGED <<profile, reserved, evidence>> PROVE NumbersStep
  BY <1>0 DEF NumbersStep, Inherited
<1>1. CASE UNCHANGED vars
  BY <1>0, <1>1 DEF vars, studentVars
<1>2. ASSUME NEW c \in Checks,
             EndCheck(c) \/ \E s \in Students, g \in ProcessingGrants, n \in Numbers : BeginEnrollmentCheck(c, s, g, n)
      PROVE  NumbersStep
  BY <1>0, <1>2 DEF EndCheck, BeginEnrollmentCheck, studentVars
<1>3. ASSUME NEW c \in Checks, NEW outcome \in {"verified", "denied", "unknown"},
             ApplyEnrollmentDecision(c, outcome)
      PROVE  NumbersStep
  BY <1>3 DEF NumbersStep
<1>4. ASSUME NEW s \in Students, EditProfile(s) \/ \E u \in Schools : SelectStudentInstitution(s, u)
      PROVE  NumbersStep
  BY <1>4 DEF EditProfile, SelectStudentInstitution, NumbersStep, School, TypeOK
<1>5. ASSUME NEW s \in Students,
             \/ \E g \in ProcessingGrants : GrantProcessing(g, s)
             \/ \E k \in Consents : \/ \E g \in ProcessingGrants : AcceptMicrosoftConsent(k, s, g)
                                    \/ \E a \in Attempts : Start(a, s, k)
      PROVE  NumbersStep
  BY <1>0, <1>5 DEF GrantProcessing, AcceptMicrosoftConsent, Start, studentVars
<1>6. ASSUME NEW u \in Schools, UpdateInstitutionPolicy(u) \/ UpdateProviderPolicy(u) PROVE NumbersStep
  BY <1>0, <1>6 DEF UpdateInstitutionPolicy, UpdateProviderPolicy, studentVars
<1>7. ASSUME NEW a \in Attempts,
             \/ Claim(a) \/ Fail(a) \/ Finish(a) \/ Forget(a)
             \/ \E o \in Objects : Redeem(a, o)
             \/ \E member \in BOOLEAN : Observe(a, member)
      PROVE  NumbersStep
  <2>1. CASE Finish(a)
    BY <2>1 DEF NumbersStep
  <2>2. CASE ~Finish(a)
    BY <2>2, <1>0, <1>7 DEF Claim, Fail, Forget, Redeem, Observe, Step, studentVars
  <2> QED BY <2>1, <2>2
<1>8. ASSUME NEW o \in Objects, UnlinkMicrosoftIdentity(o) PROVE NumbersStep
  BY <1>8 DEF UnlinkMicrosoftIdentity, NumbersStep, Inherited, studentVars
<1>9. ASSUME NEW k \in Consents, WithdrawMicrosoftConsent(k) PROVE NumbersStep
  BY <1>9 DEF WithdrawMicrosoftConsent, NumbersStep, Inherited, studentVars
<1>10. ASSUME NEW g \in ProcessingGrants, WithdrawConsent(g) PROVE NumbersStep
  BY <1>10 DEF WithdrawConsent, NumbersStep, Inherited
<1>11. CASE EvidenceExpires
  BY <1>11 DEF EvidenceExpires, NumbersStep, Inherited, studentVars
<1> QED BY <1>1, <1>2, <1>3, <1>4, <1>5, <1>6, <1>7, <1>8, <1>9, <1>10, <1>11 DEF Next

\* Evidence never comes from a later version of the profile, and as long as the
\* profile has not changed since, its number is reserved to the student.
Sound(e) ==
    /\ e.asked = e.context /\ e.context.version <= profile[e.student].version
    /\ e.number # None /\ e.context.school = profile[e.student].school
         /\ e.context.version = profile[e.student].version
       => [school |-> e.context.school, number |-> e.number, student |-> e.student] \in reserved

ReservedOnce ==
    \A q, r \in reserved : q.school = r.school /\ q.number = r.number => q.student = r.student

NumbersHold == (\A e \in evidence : Sound(e)) /\ ReservedOnce

LEMMA NumbersInit == ASSUME Init PROVE NumbersHold
BY DEF Init, NumbersHold, ReservedOnce

LEMMA NumbersBump ==
    ASSUME TypeOK, NumbersHold, NEW s \in Students, NEW u \in School, Bump(s, u)
    PROVE  NumbersHold'
<1>1. evidence' = evidence /\ reserved' = {r \in reserved : r.student # s}
  BY DEF Bump
<1>2. profile[s].version \in Nat
  BY DEF TypeOK
<1>3. profile'[s].version = profile[s].version + 1 /\ \A t \in Students : t # s => profile'[t] = profile[t]
  BY DEF Bump, TypeOK
<1>4. ASSUME NEW e \in evidence PROVE Sound(e)'
  <2>1. Sound(e) /\ e.student \in Students /\ e.context.version \in Nat
    BY DEF NumbersHold, TypeOK, EvidenceType, ContextType
  <2>2. CASE e.student = s
    BY <2>1, <2>2, <1>2, <1>3 DEF Sound
  <2>3. CASE e.student # s
    BY <2>1, <2>3, <1>1, <1>3 DEF Sound
  <2> QED BY <2>2, <2>3
<1>5. ReservedOnce'
  BY <1>1 DEF NumbersHold, ReservedOnce
<1> QED BY <1>1, <1>4, <1>5 DEF NumbersHold

LEMMA NumbersFinish ==
    ASSUME TypeOK, NumbersHold, NEW a \in Attempts, Finish(a)
    PROVE  NumbersHold'
<1> DEFINE x == attempt[a]
<1>1. x.student \in Students /\ x.context.school \in Schools
  BY RowsTyped DEF Finish, AttemptType, ContextType
<1>2. x.context = Context(x.student) /\ x.context.version = profile[x.student].version /\ x.context.version \in Nat
  BY <1>1, AuthorityTyped DEF Finish, Authority, Context, ContextType
<1>3. UNCHANGED <<profile, reserved>>
  BY DEF Finish, studentVars
<1>4. ASSUME NEW e \in evidence' PROVE Sound(e)'
  <2>1. CASE e \in evidence
    BY <2>1, <1>3 DEF NumbersHold, Sound
  <2>2. CASE e \notin evidence
    <3>1. e.student = x.student /\ e.context = Context(x.student) /\ e.asked = x.context /\ e.number = None
      BY <2>2 DEF Finish
    <3> QED BY <3>1, <1>2, <1>3 DEF Sound
  <2> QED BY <2>1, <2>2
<1> QED BY <1>3, <1>4 DEF NumbersHold, ReservedOnce

LEMMA NumbersApply ==
    ASSUME TypeOK, NumbersHold, NEW c \in Checks, NEW outcome \in {"verified", "denied", "unknown"},
           ApplyEnrollmentDecision(c, outcome)
    PROVE  NumbersHold'
<1> DEFINE x == check[c]
           new == [school |-> x.context.school, number |-> x.number, student |-> x.student]
<1>1. x \in CheckType /\ x.student \in Students /\ x.context.school \in Schools
  BY RowsTyped DEF ApplyEnrollmentDecision, CheckType, ContextType
<1>2. x.context = Context(x.student) /\ x.context.version = profile[x.student].version /\ x.context.version \in Nat
  <2>1. Current(x)
    BY DEF ApplyEnrollmentDecision
  <2>2. x.context = Context(x.student) /\ x.context \in ContextType
    BY <1>1, <2>1, AuthorityTyped
  <2> QED BY <2>2 DEF Context, ContextType
<1>3. profile' = profile
  BY DEF ApplyEnrollmentDecision
<1>4. CASE outcome # "verified"
  <2>1. evidence' = evidence /\ reserved' = reserved
    BY <1>4 DEF ApplyEnrollmentDecision
  <2> QED BY <2>1, <1>3 DEF NumbersHold, Sound, ReservedOnce
<1>5. CASE outcome = "verified"
  <2>1. Reservable(x)
    BY <1>5 DEF ApplyEnrollmentDecision
  <2>2. \/ /\ reserved' = reserved \cup {new}
           /\ \A r \in reserved : r.school # x.context.school \/ r.number # x.number
        \/ reserved' = reserved /\ \E r \in reserved : r.school = x.context.school /\ r.number = x.number
    BY <1>5 DEF ApplyEnrollmentDecision
  <2>3. new \in reserved'
    <3>1. ASSUME NEW r \in reserved, r.school = x.context.school, r.number = x.number PROVE r = new
      <4>1. r.student = x.student
        BY <2>1, <3>1 DEF Reservable
      <4> QED BY <4>1, <3>1 DEF TypeOK
    <3> QED BY <2>2, <3>1
  <2>4. reserved \subseteq reserved'
    BY <2>2
  <2>5. ASSUME NEW e \in evidence' PROVE Sound(e)'
    <3>1. CASE e \in evidence
      BY <3>1, <2>4, <1>3 DEF NumbersHold, Sound
    <3>2. CASE e \notin evidence
      <4>1. /\ e.student = x.student /\ e.context = Context(x.student)
            /\ e.asked = x.context /\ e.number = x.number
        BY <3>2, <1>5 DEF ApplyEnrollmentDecision
      <4> QED BY <4>1, <1>2, <1>3, <2>3 DEF Sound
    <3> QED BY <3>1, <3>2
  <2>6. ReservedOnce'
    BY <2>2 DEF NumbersHold, ReservedOnce
  <2> QED BY <2>5, <2>6 DEF NumbersHold
<1> QED BY <1>4, <1>5

LEMMA NumbersInherited ==
    ASSUME TypeOK, NumbersHold, UNCHANGED <<profile, reserved>>, \A f \in evidence' : Inherited(f)
    PROVE  NumbersHold'
<1>1. ASSUME NEW f \in evidence' PROVE Sound(f)'
  <2>1. PICK e \in evidence : /\ f.student = e.student /\ f.context = e.context
                              /\ f.asked = e.asked /\ f.number = e.number
    BY InheritedFields
  <2>2. Sound(e)
    BY DEF NumbersHold
  <2> QED BY <2>1, <2>2 DEF Sound
<1> QED BY <1>1 DEF NumbersHold, ReservedOnce

LEMMA NumbersHoldStep == ASSUME TypeOK, NumbersHold, [Next]_vars PROVE NumbersHold'
BY NumbersSteps, NumbersBump, NumbersFinish, NumbersApply, NumbersInherited DEF NumbersStep

\* The inductive invariant on registration numbers and the evidence that holds them.
THEOREM RegistrationNumbers == Spec => [](TypeOK /\ NumbersHold)
<1>1. Init => TypeOK /\ NumbersHold
  BY TypesInit, NumbersInit
<1>2. (TypeOK /\ NumbersHold) /\ [Next]_vars => (TypeOK /\ NumbersHold)'
  BY TypesStep, NumbersHoldStep
<1> QED BY <1>1, <1>2, PTL DEF Spec

LEMMA EffectiveIsReserved ==
    ASSUME TypeOK, NumbersHold, NEW s \in Students, NEW e \in Effective(s)
    PROVE  /\ e.asked = Context(s)
           /\ e.number # None =>
                [school |-> profile[s].school, number |-> e.number, student |-> s] \in reserved
<1>1. e \in evidence /\ e.student = s /\ e.context = Context(s)
  BY DEF Effective
<1>2. e.context.school = profile[s].school /\ e.context.version = profile[s].version
  BY <1>1 DEF Context
<1>3. Sound(e)
  BY <1>1 DEF NumbersHold
<1> QED BY <1>1, <1>2, <1>3 DEF Sound

\* EffectiveIsEntitled: a student is eligible only by what a provider was asked
\* under the present school, identity and policy, and by a number that is theirs.
THEOREM EffectiveIsEntitledHolds == Spec => []EffectiveIsEntitled
<1>1. TypeOK /\ NumbersHold => EffectiveIsEntitled
  BY EffectiveIsReserved DEF EffectiveIsEntitled
<1> QED BY <1>1, RegistrationNumbers, PTL

\* OneStudentPerIdentifier: no two students are eligible by one number of a school.
THEOREM OneStudentPerIdentifierHolds == Spec => []OneStudentPerIdentifier
<1>1. ASSUME TypeOK, NumbersHold, NEW s \in Students, NEW t \in Students,
             NEW e \in Effective(s), NEW f \in Effective(t), s # t,
             e.context.school = f.context.school, e.number # None, e.number = f.number
      PROVE  FALSE
  <2>1. e.context.school = profile[s].school /\ f.context.school = profile[t].school
    BY DEF Effective, Context
  <2>2. /\ [school |-> profile[s].school, number |-> e.number, student |-> s] \in reserved
        /\ [school |-> profile[t].school, number |-> f.number, student |-> t] \in reserved
    BY <1>1, EffectiveIsReserved
  <2> QED BY <1>1, <2>1, <2>2 DEF NumbersHold, ReservedOnce
<1>2. TypeOK /\ NumbersHold => OneStudentPerIdentifier
  BY <1>1 DEF OneStudentPerIdentifier
<1> QED BY <1>2, RegistrationNumbers, PTL
=============================================================================
