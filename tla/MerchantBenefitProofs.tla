------------------------ MODULE MerchantBenefitProofs ------------------------
(***************************************************************************)
(* Machine-checked proofs about MerchantBenefit, for any checkouts, codes, *)
(* keys, payments, prices, terms and bounds.                               *)
(***************************************************************************)
EXTENDS MerchantBenefit, FiniteSetTheorems, TLAPS

LEMMA TickFacts ==
    /\ Floor \in Int /\ Ticks \in SUBSET Int
    /\ SessionTTL \in Ticks /\ 0 \in Ticks /\ Lives \in SUBSET Ticks
    /\ \A l \in Ticks : Down(l) \in Ticks
  BY BenefitAssumption DEF Floor, Ticks, Lives, Down

LEMMA QuoteFacts ==
    /\ NoQuote \in [list : Nat, student : Nat]
    /\ Quotes \in SUBSET [list : Nat, student : Nat]
  BY BenefitAssumption DEF NoQuote

\* A row stays well formed whichever of its fields a statement replaces.
LEMMA SessionTyped ==
    ASSUME NEW s \in SessionType, NEW status \in {"redeemed", "tombstone"}, NEW left \in Ticks
    PROVE  /\ [s EXCEPT !.status = status] \in SessionType
           /\ [s EXCEPT !.left = left] \in SessionType
  BY DEF SessionType

LEMMA CodeTyped ==
    ASSUME NEW d \in CodeType, NEW left \in Ticks
    PROVE  /\ [d EXCEPT !.status = "used"] \in CodeType
           /\ [d EXCEPT !.checkout = "none"] \in CodeType
           /\ [d EXCEPT !.left = left] \in CodeType
  BY DEF CodeType

LEMMA AuthTyped ==
    ASSUME NEW a \in AuthType
    PROVE  /\ \A r \in Refs : [a EXCEPT !.ref = r] \in AuthType
           /\ [a EXCEPT !.restored = TRUE] \in AuthType
           /\ [a EXCEPT !.status = "deleted"] \in AuthType
           /\ \A left \in Ticks : [a EXCEPT !.left = left] \in AuthType
  BY DEF AuthType

LEMMA NoRowsTyped ==
    /\ NoSession \in SessionType /\ NoCode \in CodeType
    /\ NoAuth \in AuthType /\ NoOrder \in OrderType /\ NoReceipt \in ReceiptType
  BY TickFacts DEF NoSession, NoCode, NoAuth, NoOrder, NoReceipt, SessionType, CodeType, AuthType,
     OrderType, ReceiptType

LEMMA LegacyTyped ==
    ASSUME NEW q \in Quotes
    PROVE  /\ [NoCode EXCEPT !.status = "used", !.evidence = 1, !.quote = q, !.seen = q] \in CodeType
           /\ [NoAuth EXCEPT !.status = "live", !.left = CodeTTL, !.evidence = 1, !.quote = q] \in AuthType
  <1>1. CodeTTL \in Ticks BY BenefitAssumption DEF Ticks, Floor
  <1> QED BY <1>1, TickFacts DEF NoCode, NoAuth, CodeType, AuthType

LEMMA FiniteCodes ==
    ASSUME NEW due \in SUBSET Codes
    PROVE  IsFiniteSet(due) /\ Cardinality(due) \in Nat
  BY BenefitAssumption, FS_Subset, FS_CardinalityType

LEMMA FiniteRefs ==
    ASSUME NEW due \in SUBSET Refs
    PROVE  IsFiniteSet(due) /\ Cardinality(due) \in Nat
  BY BenefitAssumption, FS_Subset, FS_CardinalityType

-----------------------------------------------------------------------------
LEMMA InitTyped == Init => TypeOK
  <1> SUFFICES ASSUME Init PROVE TypeOK
    OBVIOUS
  <1>1. /\ session \in [Checkouts -> SessionType] /\ order \in [Refs -> OrderType]
        /\ receipt \in [Keys -> ReceiptType]
    BY NoRowsTyped DEF Init
  <1>2. code \in [Codes -> CodeType] /\ auth \in [Codes -> AuthType]
    BY NoRowsTyped, LegacyTyped DEF Init
  <1> QED
    BY <1>1, <1>2, BenefitAssumption DEF Init, TypeOK

LEMMA ClaimsTyped ==
    ASSUME TypeOK,
           \/ \E k \in Checkouts : CreateClaimSession(k)
           \/ \E c \in Codes, k \in Checkouts : ClaimProduct(c, k)
           \/ \E c \in Codes : IssueAssertion(c)
    PROVE  TypeOK'
  <1>1. CASE \E k \in Checkouts : CreateClaimSession(k)
    <2>1. PICK k \in Checkouts : CreateClaimSession(k)
      BY <1>1
    <2>2. [status |-> "open", left |-> SessionTTL, quote |-> listing.quote] \in SessionType
      BY TickFacts DEF TypeOK, SessionType
    <2> QED
      BY <2>1, <2>2 DEF CreateClaimSession, TypeOK
  <1>2. CASE \E c \in Codes, k \in Checkouts : ClaimProduct(c, k)
    <2>1. PICK c \in Codes, k \in Checkouts : ClaimProduct(c, k)
      BY <1>2
    <2>2. PICK left \in Lives : code' = [code EXCEPT ![c] =
             [status |-> "issued", checkout |-> k, left |-> left, evidence |-> evidence.id,
              quote |-> NoQuote, asked |-> k, seen |-> session[k].quote]]
      BY <2>1 DEF ClaimProduct
    <2>3. session[k].quote \in Quotes \cup {NoQuote}
      BY DEF TypeOK, SessionType
    <2>4. [status |-> "issued", checkout |-> k, left |-> left, evidence |-> evidence.id,
           quote |-> NoQuote, asked |-> k, seen |-> session[k].quote] \in CodeType
      BY <2>3, TickFacts DEF TypeOK, CodeType
    <2> QED
      BY <2>1, <2>2, <2>4 DEF ClaimProduct, TypeOK
  <1>3. CASE \E c \in Codes : IssueAssertion(c)
    <2>1. PICK c \in Codes : IssueAssertion(c)
      BY <1>3
    <2>2. PICK q \in {NoQuote} \cup (IF listing.live THEN {listing.quote} ELSE {}), left \in Lives :
             code' = [code EXCEPT ![c] =
               [status |-> "issued", checkout |-> "none", left |-> left,
                evidence |-> evidence.id, quote |-> q, asked |-> "none", seen |-> q]]
      BY <2>1 DEF IssueAssertion
    <2>3. q \in Quotes \cup {NoQuote}
      BY DEF TypeOK
    <2>4. [status |-> "issued", checkout |-> "none", left |-> left,
           evidence |-> evidence.id, quote |-> q, asked |-> "none", seen |-> q] \in CodeType
      BY <2>3, TickFacts DEF TypeOK, CodeType
    <2> QED
      BY <2>1, <2>2, <2>4 DEF IssueAssertion, TypeOK
  <1> QED BY <1>1, <1>2, <1>3

LEMMA QuoteOfTyped ==
    ASSUME TypeOK, NEW c \in Codes
    PROVE  QuoteOf(c) \in Quotes \cup {NoQuote}
  <1>1. code[c].checkout \in Checkouts \cup {"none"} /\ code[c].quote \in Quotes \cup {NoQuote}
    BY DEF TypeOK, CodeType
  <1>2. \A k \in Checkouts : session[k].quote \in Quotes \cup {NoQuote}
    BY DEF TypeOK, SessionType
  <1> QED BY <1>1, <1>2 DEF QuoteOf

LEMMA ExchangeTyped ==
    ASSUME TypeOK, NEW c \in Codes, NEW k \in Keys, Exchange(c, k)
    PROVE  TypeOK'
  <1>1. code' \in [Codes -> CodeType]
    <2>1. code[c] \in CodeType /\ code' = [code EXCEPT ![c] = [code[c] EXCEPT !.status = "used"]]
      BY DEF Exchange, Spend, TypeOK
    <2> QED BY <2>1, CodeTyped, TickFacts DEF TypeOK
  <1>2. session' \in [Checkouts -> SessionType]
    BY SessionTyped, TickFacts DEF Exchange, Spend, TypeOK
  <1>3. listing' \in [live : BOOLEAN, stock : Nat, quote : Quotes, edits : 0..MaxEdits]
    BY DEF Exchange, TypeOK
  <1>4. auth' \in [Codes -> AuthType]
    <2>1. CASE ForProduct(c)
      <3>1. PICK left \in Lives : auth' = [auth EXCEPT ![c] =
               [status |-> "live", left |-> left, evidence |-> evidence.id, quote |-> QuoteOf(c),
                reserved |-> TRUE, restored |-> FALSE, ref |-> "none"]]
        BY <2>1 DEF Exchange
      <3>2. [status |-> "live", left |-> left, evidence |-> evidence.id, quote |-> QuoteOf(c),
             reserved |-> TRUE, restored |-> FALSE, ref |-> "none"] \in AuthType
        BY QuoteOfTyped, TickFacts DEF AuthType, TypeOK
      <3> QED BY <3>1, <3>2 DEF TypeOK
    <2>2. CASE ~ForProduct(c)
      BY <2>2 DEF Exchange, TypeOK
    <2> QED BY <2>1, <2>2
  <1>5. receipt' \in [Keys -> ReceiptType]
    BY DEF Exchange, TypeOK, ReceiptType
  <1> QED BY <1>1, <1>2, <1>3, <1>4, <1>5 DEF Exchange, TypeOK

\* A retry that is answered.
Retried == \E c \in Codes, k \in Keys : Retry(c, k)

LEMMA RetryTyped == ASSUME TypeOK, Retried PROVE TypeOK'
  <1>1. PICK c \in Codes, k \in Keys :
           receipt' = [receipt EXCEPT ![k] = [receipt[k] EXCEPT !.told = receipt[k].told \cup {c}]]
    BY DEF Retried, Retry
  <1>2. [receipt[k] EXCEPT !.told = receipt[k].told \cup {c}] \in ReceiptType
    BY DEF TypeOK, ReceiptType
  <1>3. receipt' \in [Keys -> ReceiptType]
    BY <1>1, <1>2 DEF TypeOK
  <1> QED BY <1>3 DEF Retried, Retry, TypeOK

LEMMA ReportTyped ==
    ASSUME TypeOK, NEW c \in Codes, NEW r \in Refs, Report(c, r)
    PROVE  TypeOK'
  <1>1. auth[c] \in AuthType /\ auth[c].quote \in Quotes \cup {NoQuote}
    BY DEF TypeOK, AuthType
  <1>2. auth[c].quote.list \in Nat /\ auth[c].quote.student \in Nat
    BY <1>1, QuoteFacts
  <1>3. auth' \in [Codes -> AuthType]
    <2>1. auth' = [auth EXCEPT ![c] = [auth[c] EXCEPT !.ref = r]]
      BY DEF Report, Settle, TypeOK
    <2> QED BY <1>1, <2>1, AuthTyped, TickFacts DEF TypeOK
  <1>4. order' \in [Refs -> OrderType]
    <2>1. [status |-> "completed", code |-> c, quote |-> auth[c].quote] \in OrderType
      BY <1>1 DEF OrderType
    <2> QED BY <2>1 DEF Report, Settle, TypeOK
  <1>5. savings' \in [total : Int, purchases : Int]
    BY <1>2 DEF Report, Settle, TypeOK
  <1>6. listing' \in [live : BOOLEAN, stock : Nat, quote : Quotes, edits : 0..MaxEdits]
    BY DEF Report, Settle, TakeUnit, TypeOK
  <1> QED BY <1>3, <1>4, <1>5, <1>6 DEF Report, Settle, TypeOK

LEMMA RefundTyped ==
    ASSUME TypeOK, NEW r \in Refs, Refund(r)
    PROVE  TypeOK'
  <1>1. order[r] \in OrderType /\ order[r].quote \in Quotes \cup {NoQuote}
    BY DEF TypeOK, OrderType
  <1>2. order[r].quote.list \in Nat /\ order[r].quote.student \in Nat
    BY <1>1, QuoteFacts
  <1>3. order' \in [Refs -> OrderType]
    <2>1. [order[r] EXCEPT !.status = "refunded"] \in OrderType
      BY <1>1 DEF OrderType
    <2> QED BY <2>1 DEF Refund, TypeOK
  <1>4. savings' \in [total : Int, purchases : Int]
    BY <1>2 DEF Refund, TypeOK
  <1>5. listing' \in [live : BOOLEAN, stock : Nat, quote : Quotes, edits : 0..MaxEdits]
    BY DEF Refund, TypeOK
  <1> QED BY <1>3, <1>4, <1>5 DEF Refund, TypeOK

LEMMA JobTyped ==
    ASSUME TypeOK,
           RestoreExpired \/ DeleteExpired \/ TombstoneSessions \/ DetachCodes \/ DeleteSessions
    PROVE  TypeOK'
  <1>1. CASE RestoreExpired
    <2>1. auth' \in [Codes -> AuthType]
      BY <1>1, AuthTyped, TickFacts DEF RestoreExpired, TypeOK
    <2>2. Cardinality({c \in Codes : Abandoned(c)}) \in Nat
      BY FiniteCodes
    <2> QED BY <1>1, <2>1, <2>2 DEF RestoreExpired, TypeOK
  <1>2. CASE DeleteExpired
    <2> DEFINE due == {c \in Codes : auth[c].status = "live" /\ auth[c].ref = "none"
                                     /\ Outdated(auth[c].left)}
    <2>1. auth' \in [Codes -> AuthType]
      BY <1>2, AuthTyped, TickFacts DEF DeleteExpired, TypeOK
    <2>2. Units(due) \in Nat
      BY FiniteCodes DEF Units
    <2> QED BY <1>2, <2>1, <2>2 DEF DeleteExpired, TypeOK
  <1>3. CASE TombstoneSessions
    <2>1. session' \in [Checkouts -> SessionType]
      BY <1>3, SessionTyped, TickFacts DEF TombstoneSessions, TypeOK
    <2> QED BY <1>3, <2>1 DEF TombstoneSessions, TypeOK
  <1>4. CASE DetachCodes
    <2>1. code' \in [Codes -> CodeType]
      BY <1>4, CodeTyped, TickFacts DEF DetachCodes, TypeOK
    <2> QED BY <1>4, <2>1 DEF DetachCodes, TypeOK
  <1>5. CASE DeleteSessions
    <2>1. session' \in [Checkouts -> SessionType]
      BY <1>5, NoRowsTyped DEF DeleteSessions, TypeOK
    <2> QED BY <1>5, <2>1 DEF DeleteSessions, TypeOK
  <1> QED BY <1>1, <1>2, <1>3, <1>4, <1>5

LEMMA TickTyped == ASSUME TypeOK, Tick PROVE TypeOK'
  <1>1. session' \in [Checkouts -> SessionType]
    <2>1. \A k \in Checkouts : session[k] \in SessionType /\ Down(session[k].left) \in Ticks
      BY TickFacts DEF TypeOK, SessionType
    <2> QED BY <2>1, SessionTyped DEF Tick
  <1>2. code' \in [Codes -> CodeType]
    <2>1. \A c \in Codes : code[c] \in CodeType /\ Down(code[c].left) \in Ticks
      BY TickFacts DEF TypeOK, CodeType
    <2> QED BY <2>1, CodeTyped DEF Tick
  <1>3. auth' \in [Codes -> AuthType]
    <2>1. \A c \in Codes : auth[c] \in AuthType /\ Down(auth[c].left) \in Ticks
      BY TickFacts DEF TypeOK, AuthType
    <2>2. \A c \in Codes : [auth[c] EXCEPT !.left = Down(auth[c].left)] \in AuthType
      BY <2>1 DEF AuthType
    <2> QED BY <2>1, <2>2 DEF Tick
  <1> QED BY <1>1, <1>2, <1>3 DEF Tick, TypeOK

LEMMA NextTyped == ASSUME TypeOK, [Next]_vars PROVE TypeOK'
  <1>1. CASE EditProduct
    BY <1>1, BenefitAssumption DEF EditProduct, TypeOK
  <1>2. CASE LoseEvidence \/ RenewEvidence
    <2>1. CASE LoseEvidence
      <3>1. [evidence EXCEPT !.effective = FALSE] \in [id : Nat, effective : BOOLEAN]
        BY DEF TypeOK
      <3> QED BY <2>1, <3>1 DEF LoseEvidence, TypeOK
    <2>2. CASE RenewEvidence
      <3>1. [id |-> evidence.id + 1, effective |-> TRUE] \in [id : Nat, effective : BOOLEAN]
        BY DEF TypeOK
      <3> QED BY <2>2, <3>1 DEF RenewEvidence, TypeOK
    <2> QED BY <1>2, <2>1, <2>2
  <1>3. CASE UNCHANGED vars
    BY <1>3 DEF vars, TypeOK
  <1> QED
    BY <1>1, <1>2, <1>3, ClaimsTyped, ExchangeTyped, RetryTyped, ReportTyped, RefundTyped,
       JobTyped, TickTyped DEF Next, Retried

\* Every row stays well formed; in particular no statement of any transaction
\* drives the stock below zero.
THEOREM Typed == Spec => []TypeOK
  BY InitTyped, NextTyped, PTL DEF Spec
-----------------------------------------------------------------------------
(***************************************************************************)
(* Codes and sessions.  A code that is attached to a session has the quote *)
(* of that session, which exists, and does not outlive it by more than its *)
(* own term: so when the job detaches the codes of a session nobody        *)
(* redeemed, they have long expired, and cannot be exchanged without the   *)
(* session that would be used up with them.                                *)
(***************************************************************************)
Attached(c) ==
    code[c].checkout # "none" =>
        /\ code[c].checkout = code[c].asked
        /\ session[code[c].checkout].status # "none"
        /\ session[code[c].checkout].quote = code[c].seen
        /\ code[c].status = "issued" =>
              code[c].left <= session[code[c].checkout].left + CodeTTL - 1

Loose(c) ==
    /\ code[c].asked = "none" => code[c].quote = code[c].seen
    /\ code[c].asked # "none" => code[c].quote = NoQuote
    /\ code[c].status = "issued" /\ code[c].checkout = "none" /\ code[c].asked # "none" =>
          code[c].left <= 0

Redeemed(c) ==
    code[c].status = "used" /\ code[c].asked # "none" =>
        session[code[c].asked].status \in {"redeemed", "tombstone"}

Claimed == \A c \in Codes : Attached(c) /\ Loose(c) /\ Redeemed(c)

LEMMA InitClaimed == Init => Claimed /\ OneRedemption
  <1> SUFFICES ASSUME Init PROVE Claimed /\ OneRedemption
    OBVIOUS
  <1>1. \A c \in Codes : code[c].checkout = "none" /\ code[c].asked = "none"
                        /\ code[c].quote = code[c].seen
    BY DEF Init, NoCode
  <1> QED BY <1>1 DEF Claimed, Attached, Loose, Redeemed, OneRedemption

\* What an exchange finds: a code with its session, or one that never had any.
LEMMA Exchangeable ==
    ASSUME TypeOK, Claimed, NEW c \in Codes, NEW k \in Keys, Exchange(c, k)
    PROVE  /\ code[c].checkout = code[c].asked
           /\ code[c].checkout # "none" => session[code[c].checkout].status = "open"
           /\ ForProduct(c) => QuoteOf(c) = code[c].seen
  <1>1. code[c].left \in Int /\ code[c].left > 0 /\ code[c].status = "issued"
    BY TickFacts DEF TypeOK, CodeType, Exchange
  <1>2. Attached(c) /\ Loose(c)
    BY DEF Claimed
  <1> QED BY <1>1, <1>2 DEF Attached, Loose, Exchange, ForProduct, QuoteOf

LEMMA ExchangeClaimed ==
    ASSUME TypeOK, Claimed, OneRedemption, NEW c \in Codes, NEW k \in Keys, Exchange(c, k)
    PROVE  Claimed' /\ OneRedemption'
  <1>1. code' = [code EXCEPT ![c] = [code[c] EXCEPT !.status = "used"]] /\ code[c].status = "issued"
    BY DEF Exchange, Spend, TypeOK
  <1>2. session' = [l \in Checkouts |-> IF l = code[c].checkout
                                       THEN [session[l] EXCEPT !.status = "redeemed"]
                                       ELSE session[l]]
    BY DEF Exchange, Spend
  <1>3. \A d \in Codes : /\ code'[d].checkout = code[d].checkout /\ code'[d].asked = code[d].asked
                         /\ code'[d].quote = code[d].quote /\ code'[d].seen = code[d].seen
                         /\ code'[d].left = code[d].left
                         /\ code'[d].status = (IF d = c THEN "used" ELSE code[d].status)
    BY <1>1 DEF TypeOK, CodeType
  <1>4. \A l \in Checkouts : /\ session'[l].quote = session[l].quote
                             /\ session'[l].left = session[l].left
                             /\ session'[l].status = (IF l = code[c].checkout THEN "redeemed"
                                                    ELSE session[l].status)
    BY <1>2 DEF TypeOK, SessionType
  <1>5. \A d \in Codes : code[d].checkout \in Checkouts \cup {"none"}
                        /\ code[d].asked \in Checkouts \cup {"none"}
    BY DEF TypeOK, CodeType
  <1>6. Claimed'
    <2> SUFFICES ASSUME NEW d \in Codes PROVE (Attached(d) /\ Loose(d) /\ Redeemed(d))'
      BY DEF Claimed
    <2>1. Attached(d) /\ Loose(d) /\ Redeemed(d)
      BY DEF Claimed
    <2>2. Attached(d)'
      BY <2>1, <1>3, <1>4, <1>5 DEF Attached
    <2>3. Loose(d)'
      BY <2>1, <1>3 DEF Loose
    <2>4. Redeemed(d)'
      BY <2>1, <1>3, <1>4, <1>5, Exchangeable DEF Redeemed
    <2> QED BY <2>2, <2>3, <2>4
  <1>7. \A d \in Codes : code[d].status = "used" /\ code[d].asked # "none" =>
                          code[d].asked # code[c].asked
    BY <1>5, Exchangeable DEF Claimed, Redeemed
  <1>8. OneRedemption'
    BY <1>3, <1>7 DEF OneRedemption
  <1> QED BY <1>6, <1>8

LEMMA CreateClaimed ==
    ASSUME TypeOK, Claimed, OneRedemption, NEW k \in Checkouts, CreateClaimSession(k)
    PROVE  Claimed' /\ OneRedemption'
  <1>1. UNCHANGED code /\ session[k].status = "none" /\ \A l \in Checkouts \ {k} : session'[l] = session[l]
    BY DEF CreateClaimSession, TypeOK
  <1>2. \A c \in Codes : code[c].checkout \in Checkouts \cup {"none"}
                        /\ code[c].asked \in Checkouts \cup {"none"}
    BY DEF TypeOK, CodeType
  <1>3. \A c \in Codes : Attached(c)' /\ Loose(c)' /\ Redeemed(c)'
    BY <1>1, <1>2 DEF Claimed, Attached, Loose, Redeemed
  <1> QED BY <1>1, <1>3 DEF Claimed, OneRedemption

LEMMA ClaimClaimed ==
    ASSUME TypeOK, Claimed, OneRedemption, NEW c \in Codes, NEW k \in Checkouts, ClaimProduct(c, k)
    PROVE  Claimed' /\ OneRedemption'
  <1>1. PICK left \in Lives : code' = [code EXCEPT ![c] =
           [status |-> "issued", checkout |-> k, left |-> left, evidence |-> evidence.id,
            quote |-> NoQuote, asked |-> k, seen |-> session[k].quote]]
    BY DEF ClaimProduct
  <1>0. session[k].left \in Int
    BY TickFacts DEF TypeOK, SessionType
  <1>2. /\ UNCHANGED session /\ session[k].status = "open"
        /\ session[k].left \in Int /\ session[k].left > 0 /\ left \in Int /\ left <= CodeTTL
    BY <1>0, BenefitAssumption DEF ClaimProduct, Lives
  <1>3. \A d \in Codes \ {c} : code'[d] = code[d]
    BY <1>1 DEF TypeOK
  <1>4. /\ code'[c].status = "issued" /\ code'[c].checkout = k /\ code'[c].asked = k
        /\ code'[c].left = left /\ code'[c].quote = NoQuote /\ code'[c].seen = session[k].quote
    BY <1>1 DEF TypeOK
  <1>5. k # "none"
    BY BenefitAssumption
  <1>6. Attached(c)' /\ Loose(c)' /\ Redeemed(c)'
    BY <1>2, <1>4, <1>5, BenefitAssumption DEF Attached, Loose, Redeemed
  <1>7. \A d \in Codes \ {c} : Attached(d)' /\ Loose(d)' /\ Redeemed(d)'
    BY <1>2, <1>3 DEF Claimed, Attached, Loose, Redeemed
  <1> QED BY <1>3, <1>4, <1>6, <1>7 DEF Claimed, OneRedemption

LEMMA IssueClaimed ==
    ASSUME TypeOK, Claimed, OneRedemption, NEW c \in Codes, IssueAssertion(c)
    PROVE  Claimed' /\ OneRedemption'
  <1>1. PICK q \in {NoQuote} \cup (IF listing.live THEN {listing.quote} ELSE {}), left \in Lives :
           code' = [code EXCEPT ![c] =
             [status |-> "issued", checkout |-> "none", left |-> left,
              evidence |-> evidence.id, quote |-> q, asked |-> "none", seen |-> q]]
    BY DEF IssueAssertion
  <1>2. \A d \in Codes \ {c} : code'[d] = code[d]
    BY <1>1 DEF TypeOK
  <1>3. /\ code'[c].status = "issued" /\ code'[c].checkout = "none" /\ code'[c].asked = "none"
        /\ code'[c].quote = code'[c].seen
    BY <1>1 DEF TypeOK
  <1>4. UNCHANGED session
    BY DEF IssueAssertion
  <1>5. Attached(c)' /\ Loose(c)' /\ Redeemed(c)'
    BY <1>3 DEF Attached, Loose, Redeemed
  <1>6. \A d \in Codes \ {c} : Attached(d)' /\ Loose(d)' /\ Redeemed(d)'
    BY <1>2, <1>4 DEF Claimed, Attached, Loose, Redeemed
  <1> QED BY <1>2, <1>3, <1>5, <1>6 DEF Claimed, OneRedemption

LEMMA SessionJobClaimed ==
    ASSUME TypeOK, Claimed, OneRedemption, TombstoneSessions \/ DetachCodes \/ DeleteSessions
    PROVE  Claimed' /\ OneRedemption'
  <1>1. \A c \in Codes : code[c].checkout \in Checkouts \cup {"none"}
                        /\ code[c].asked \in Checkouts \cup {"none"}
                        /\ code[c].left \in Int
    BY TickFacts DEF TypeOK, CodeType
  <1>2. CASE TombstoneSessions
    <2>1. \A k \in Checkouts :
             /\ session'[k].quote = session[k].quote /\ session'[k].left = session[k].left
             /\ \/ session'[k].status = session[k].status
                \/ session[k].status = "redeemed" /\ session'[k].status = "tombstone"
      BY <1>2 DEF TombstoneSessions, TypeOK, SessionType
    <2>2. UNCHANGED code
      BY <1>2 DEF TombstoneSessions
    <2>3. \A c \in Codes : Attached(c)' /\ Loose(c)' /\ Redeemed(c)'
      BY <1>1, <2>1, <2>2 DEF Claimed, Attached, Loose, Redeemed
    <2> QED BY <2>2, <2>3 DEF Claimed, OneRedemption
  <1>3. CASE DetachCodes
    <2>1. \A c \in Codes :
             /\ code'[c].status = code[c].status /\ code'[c].asked = code[c].asked
             /\ code'[c].quote = code[c].quote /\ code'[c].seen = code[c].seen
             /\ code'[c].left = code[c].left
             /\ code'[c].checkout = (IF code[c].checkout \in Retired THEN "none"
                                     ELSE code[c].checkout)
      BY <1>3 DEF DetachCodes, TypeOK, CodeType
    <2>2. UNCHANGED session
      BY <1>3 DEF DetachCodes
    <2>3. \A k \in Retired : k \in Checkouts /\ session[k].left \in Int
                            /\ session[k].left < Skew - Retention
      BY TickFacts DEF Retired, Outdated, TypeOK, SessionType
    <2>4. \A c \in Codes : code[c].checkout \in Retired /\ code[c].status = "issued" =>
                            code[c].left <= 0
      BY <1>1, <2>3, BenefitAssumption DEF Claimed, Attached
    <2>5. \A c \in Codes : Loose(c)'
      BY <2>1, <2>4 DEF Claimed, Loose
    <2>6. \A c \in Codes : Attached(c)' /\ Redeemed(c)'
      BY <2>1, <2>2 DEF Claimed, Attached, Redeemed
    <2> QED BY <2>1, <2>5, <2>6 DEF Claimed, OneRedemption
  <1>4. CASE DeleteSessions
    <2>1. UNCHANGED code /\ \A c \in Codes : code[c].checkout \notin Retired
      BY <1>4 DEF DeleteSessions
    <2>2. \A k \in Checkouts : k \notin Retired => session'[k] = session[k]
      BY <1>4 DEF DeleteSessions
    <2>3. \A k \in Retired : session[k].status = "open"
      BY DEF Retired
    <2>4. \A c \in Codes : Attached(c)' /\ Loose(c)' /\ Redeemed(c)'
      BY <1>1, <2>1, <2>2, <2>3 DEF Claimed, Attached, Loose, Redeemed
    <2> QED BY <2>1, <2>4 DEF Claimed, OneRedemption
  <1> QED BY <1>2, <1>3, <1>4

LEMMA TickClaimed ==
    ASSUME TypeOK, Claimed, OneRedemption, Tick
    PROVE  Claimed' /\ OneRedemption'
  <1>1. \A c \in Codes :
           /\ code'[c].status = code[c].status /\ code'[c].asked = code[c].asked
           /\ code'[c].quote = code[c].quote /\ code'[c].seen = code[c].seen
           /\ code'[c].checkout = code[c].checkout
           /\ code'[c].left = (IF code[c].status = "issued" THEN Down(code[c].left) ELSE code[c].left)
    BY DEF Tick, TypeOK, CodeType
  <1>2. \A k \in Checkouts :
           /\ session'[k].quote = session[k].quote /\ session'[k].status = session[k].status
           /\ session[k].status # "none" => session'[k].left = Down(session[k].left)
    BY DEF Tick, TypeOK, SessionType
  <1>3. \A c \in Codes : code[c].checkout \in Checkouts \cup {"none"}
                        /\ code[c].asked \in Checkouts \cup {"none"}
                        /\ code[c].left \in Ticks
    BY DEF TypeOK, CodeType
  <1>4. \A k \in Checkouts : session[k].left \in Ticks
    BY DEF TypeOK, SessionType
  <1>5. \A x, y \in Ticks : x <= y + CodeTTL - 1 => Down(x) <= Down(y) + CodeTTL - 1
    BY BenefitAssumption DEF Ticks, Floor, Down
  <1>6. \A x \in Ticks : x <= 0 => Down(x) <= 0
    BY TickFacts DEF Down
  <1>7. \A c \in Codes : Attached(c)'
    BY <1>1, <1>2, <1>3, <1>4, <1>5 DEF Claimed, Attached
  <1>8. \A c \in Codes : Loose(c)'
    BY <1>1, <1>3, <1>6 DEF Claimed, Loose
  <1>9. \A c \in Codes : Redeemed(c)'
    BY <1>1, <1>2, <1>3 DEF Claimed, Redeemed
  <1> QED BY <1>1, <1>7, <1>8, <1>9 DEF Claimed, OneRedemption

LEMMA NextClaimed ==
    ASSUME TypeOK, Claimed, OneRedemption, [Next]_vars
    PROVE  Claimed' /\ OneRedemption'
  <1>1. ASSUME UNCHANGED <<code, session>> PROVE Claimed' /\ OneRedemption'
    BY <1>1 DEF Claimed, Attached, Loose, Redeemed, OneRedemption
  <1>2. CASE \E c \in Codes, r \in Refs : Report(c, r)
    BY <1>1, <1>2 DEF Report, Settle
  <1>3. CASE \E r \in Refs : Refund(r)
    BY <1>1, <1>3 DEF Refund
  <1>4. CASE RestoreExpired \/ DeleteExpired
    BY <1>1, <1>4 DEF RestoreExpired, DeleteExpired
  <1>5. CASE EditProduct \/ LoseEvidence \/ RenewEvidence \/ Retried
    BY <1>1, <1>5 DEF EditProduct, LoseEvidence, RenewEvidence, Retried, Retry
  <1>6. CASE UNCHANGED vars
    BY <1>1, <1>6 DEF vars
  <1> QED
    BY <1>2, <1>3, <1>4, <1>5, <1>6, CreateClaimed, ClaimClaimed, IssueClaimed, ExchangeClaimed,
       SessionJobClaimed, TickClaimed DEF Next, Retried

\* One redemption per checkout id: two codes claimed for one checkout are never
\* both exchanged, not even after the job has tombstoned, detached or deleted
\* the sessions and a checkout id is used again.
THEOREM OneRedemptionHolds == Spec => []OneRedemption
  <1>1. Init => TypeOK /\ Claimed /\ OneRedemption
    BY InitTyped, InitClaimed
  <1>2. TypeOK /\ Claimed /\ OneRedemption /\ [Next]_vars => (TypeOK /\ Claimed /\ OneRedemption)'
    BY NextTyped, NextClaimed
  <1> QED BY <1>1, <1>2, PTL DEF Spec
-----------------------------------------------------------------------------
(***************************************************************************)
(* Authorizations and orders.  An authorization exists only for a code     *)
(* that was exchanged, and carries its prices and its evidence; an order   *)
(* carries those of the authorization it settled.                          *)
(***************************************************************************)
Carried(c) ==
    IF auth[c].status = "none" THEN auth[c].ref = "none"
    ELSE /\ code[c].status = "used"
         /\ auth[c].quote = code[c].seen /\ auth[c].evidence = code[c].evidence

Ordered(r) ==
    order[r].status # "none" =>
        order[r].code \in Codes /\ order[r].quote = code[order[r].code].seen

Authorized == (\A c \in Codes : Carried(c)) /\ (\A r \in Refs : Ordered(r))

LEMMA InitAuthorized == Init => Authorized /\ PaymentSettlesOnce
  <1> SUFFICES ASSUME Init PROVE Authorized /\ PaymentSettlesOnce
    OBVIOUS
  <1>1. \A r \in Refs : order[r].status = "none" /\ r # "none"
    BY BenefitAssumption DEF Init, NoOrder
  <1>2. \A c \in Codes : auth[c].ref = "none" /\ Carried(c)
    BY DEF Init, NoAuth, NoCode, Carried
  <1> QED BY <1>1, <1>2 DEF Authorized, Ordered, PaymentSettlesOnce

\* Codes may change in any other way while those that were used stay as they are.
LEMMA KeepsUsed ==
    ASSUME Authorized, PaymentSettlesOnce, UNCHANGED <<auth, order>>,
           \A c \in Codes : code[c].status = "used" =>
               /\ code'[c].status = "used" /\ code'[c].seen = code[c].seen
               /\ code'[c].evidence = code[c].evidence
    PROVE  Authorized' /\ PaymentSettlesOnce'
  <1>1. \A c \in Codes : Carried(c)'
    BY DEF Authorized, Carried
  <1>2. \A r \in Refs : order[r].status # "none" =>
           order[r].code \in Codes /\ code[order[r].code].status = "used"
    BY BenefitAssumption DEF Authorized, Ordered, PaymentSettlesOnce, Carried
  <1>3. \A r \in Refs : Ordered(r)'
    BY <1>2 DEF Authorized, Ordered
  <1> QED BY <1>1, <1>3 DEF Authorized, PaymentSettlesOnce

LEMMA CodesAuthorized ==
    ASSUME TypeOK, Authorized, PaymentSettlesOnce,
           \/ \E c \in Codes, k \in Checkouts : ClaimProduct(c, k)
           \/ \E c \in Codes : IssueAssertion(c)
           \/ DetachCodes
    PROVE  Authorized' /\ PaymentSettlesOnce'
  <1>1. CASE \E c \in Codes, k \in Checkouts : ClaimProduct(c, k)
    <2>1. PICK c \in Codes, k \in Checkouts : ClaimProduct(c, k)
      BY <1>1
    <2>2. code[c].status = "none" /\ UNCHANGED <<auth, order>>
          /\ \A d \in Codes \ {c} : code'[d] = code[d]
      BY <2>1 DEF ClaimProduct, TypeOK
    <2> QED BY <2>2, KeepsUsed
  <1>2. CASE \E c \in Codes : IssueAssertion(c)
    <2>1. PICK c \in Codes : IssueAssertion(c)
      BY <1>2
    <2>2. code[c].status = "none" /\ UNCHANGED <<auth, order>>
          /\ \A d \in Codes \ {c} : code'[d] = code[d]
      BY <2>1 DEF IssueAssertion, TypeOK
    <2> QED BY <2>2, KeepsUsed
  <1>3. CASE DetachCodes
    <2>1. \A c \in Codes : /\ code'[c].status = code[c].status /\ code'[c].seen = code[c].seen
                           /\ code'[c].evidence = code[c].evidence
      BY <1>3 DEF DetachCodes, TypeOK, CodeType
    <2>2. UNCHANGED <<auth, order>>
      BY <1>3 DEF DetachCodes
    <2> QED BY <2>1, <2>2, KeepsUsed
  <1> QED BY <1>1, <1>2, <1>3

LEMMA ExchangeAuthorized ==
    ASSUME TypeOK, Claimed, Authorized, PaymentSettlesOnce,
           NEW c \in Codes, NEW k \in Keys, Exchange(c, k)
    PROVE  Authorized' /\ PaymentSettlesOnce'
  <1>1. \A d \in Codes : /\ code'[d].seen = code[d].seen /\ code'[d].evidence = code[d].evidence
                         /\ code'[d].status = (IF d = c THEN "used" ELSE code[d].status)
    BY DEF Exchange, Spend, TypeOK, CodeType
  <1>2. code[c].status = "issued" /\ evidence.id = code[c].evidence /\ UNCHANGED order
    BY DEF Exchange, SameEvidence
  <1>3. auth[c].status = "none" /\ auth[c].ref = "none"
    BY <1>2 DEF Authorized, Carried
  <1>4. CASE ~ForProduct(c)
    <2>1. UNCHANGED auth
      BY <1>4 DEF Exchange
    <2> QED BY <1>1, <1>2, <2>1, KeepsUsed
  <1>5. CASE ForProduct(c)
    <2>1. PICK left \in Lives : auth' = [auth EXCEPT ![c] =
             [status |-> "live", left |-> left, evidence |-> evidence.id, quote |-> QuoteOf(c),
              reserved |-> TRUE, restored |-> FALSE, ref |-> "none"]]
      BY <1>5 DEF Exchange
    <2>2. /\ auth'[c].status = "live" /\ auth'[c].ref = "none" /\ auth'[c].quote = QuoteOf(c)
          /\ auth'[c].evidence = evidence.id /\ \A d \in Codes \ {c} : auth'[d] = auth[d]
      BY <2>1 DEF TypeOK
    <2>3. QuoteOf(c) = code[c].seen
      BY <1>5, Exchangeable
    <2>4. \A d \in Codes : Carried(d)'
      BY <1>1, <1>2, <2>2, <2>3 DEF Authorized, Carried
    <2>5. \A r \in Refs : Ordered(r)'
      BY <1>1, <1>2 DEF Authorized, Ordered
    <2>6. PaymentSettlesOnce'
      BY <1>2, <1>3, <2>2 DEF PaymentSettlesOnce
    <2> QED BY <2>4, <2>5, <2>6 DEF Authorized
  <1> QED BY <1>4, <1>5

LEMMA ReportAuthorized ==
    ASSUME TypeOK, Authorized, PaymentSettlesOnce, NEW c \in Codes, NEW r \in Refs, Report(c, r)
    PROVE  Authorized' /\ PaymentSettlesOnce'
  <1>1. /\ UNCHANGED code /\ auth[c].status = "live" /\ auth[c].ref = "none"
        /\ order[r].status = "none" /\ r # "none"
    BY BenefitAssumption DEF Report, Settle
  <1>2. /\ order'[r].status = "completed" /\ order'[r].code = c /\ order'[r].quote = auth[c].quote
        /\ \A s \in Refs \ {r} : order'[s] = order[s]
    BY DEF Report, Settle, TypeOK
  <1>3. /\ auth'[c].ref = r /\ auth'[c].status = "live" /\ auth'[c].quote = auth[c].quote
        /\ auth'[c].evidence = auth[c].evidence
        /\ \A d \in Codes \ {c} : auth'[d] = auth[d]
    BY DEF Report, Settle, TypeOK, AuthType
  <1>4. \A d \in Codes : Carried(d)'
    BY <1>1, <1>3 DEF Authorized, Carried
  <1>5. \A s \in Refs : Ordered(s)'
    BY <1>1, <1>2 DEF Authorized, Ordered, Carried
  <1>6. PaymentSettlesOnce'
    BY <1>1, <1>2, <1>3, BenefitAssumption DEF PaymentSettlesOnce
  <1> QED BY <1>4, <1>5, <1>6 DEF Authorized

LEMMA RefundAuthorized ==
    ASSUME TypeOK, Authorized, PaymentSettlesOnce, NEW r \in Refs, Refund(r)
    PROVE  Authorized' /\ PaymentSettlesOnce'
  <1>1. UNCHANGED <<code, auth>> /\ order[r].status = "completed"
    BY DEF Refund
  <1>2. /\ order'[r].status = "refunded" /\ order'[r].code = order[r].code
        /\ order'[r].quote = order[r].quote /\ \A s \in Refs \ {r} : order'[s] = order[s]
    BY DEF Refund, TypeOK, OrderType
  <1>3. \A d \in Codes : Carried(d)'
    BY <1>1 DEF Authorized, Carried
  <1>4. \A s \in Refs : Ordered(s)'
    BY <1>1, <1>2 DEF Authorized, Ordered
  <1>5. PaymentSettlesOnce'
    BY <1>1, <1>2 DEF PaymentSettlesOnce
  <1> QED BY <1>3, <1>4, <1>5 DEF Authorized

\* The job and the clock leave what an authorization carries alone.
LEMMA JobAuthorized ==
    ASSUME TypeOK, Authorized, PaymentSettlesOnce, RestoreExpired \/ DeleteExpired \/ Tick
    PROVE  Authorized' /\ PaymentSettlesOnce'
  <1>1. UNCHANGED order
    BY DEF RestoreExpired, DeleteExpired, Tick
  <1>2. \A c \in Codes : /\ code'[c].status = code[c].status /\ code'[c].seen = code[c].seen
                         /\ code'[c].evidence = code[c].evidence
    BY DEF RestoreExpired, DeleteExpired, Tick, TypeOK, CodeType
  <1>3. \A c \in Codes : /\ auth'[c].ref = auth[c].ref /\ auth'[c].quote = auth[c].quote
                         /\ auth'[c].evidence = auth[c].evidence
                         /\ auth'[c].status = "none" <=> auth[c].status = "none"
    <2>1. CASE RestoreExpired
      BY <2>1 DEF RestoreExpired, TypeOK, AuthType
    <2>2. CASE DeleteExpired
      BY <2>2 DEF DeleteExpired, TypeOK, AuthType
    <2>3. CASE Tick
      BY <2>3 DEF Tick, TypeOK, AuthType
    <2> QED BY <2>1, <2>2, <2>3
  <1>4. \A d \in Codes : Carried(d)'
    BY <1>2, <1>3 DEF Authorized, Carried
  <1>5. \A s \in Refs : Ordered(s)'
    BY <1>1, <1>2 DEF Authorized, Ordered
  <1>6. PaymentSettlesOnce'
    BY <1>1, <1>3 DEF PaymentSettlesOnce
  <1> QED BY <1>4, <1>5, <1>6 DEF Authorized

LEMMA NextAuthorized ==
    ASSUME TypeOK, Claimed, Authorized, PaymentSettlesOnce, [Next]_vars
    PROVE  Authorized' /\ PaymentSettlesOnce'
  <1>1. ASSUME UNCHANGED <<code, auth, order>> PROVE Authorized' /\ PaymentSettlesOnce'
    BY <1>1 DEF Authorized, Carried, Ordered, PaymentSettlesOnce
  <1>2. CASE \E k \in Checkouts : CreateClaimSession(k)
    BY <1>1, <1>2 DEF CreateClaimSession
  <1>3. CASE TombstoneSessions \/ DeleteSessions
    BY <1>1, <1>3 DEF TombstoneSessions, DeleteSessions
  <1>4. CASE EditProduct \/ LoseEvidence \/ RenewEvidence \/ Retried
    BY <1>1, <1>4 DEF EditProduct, LoseEvidence, RenewEvidence, Retried, Retry
  <1>5. CASE UNCHANGED vars
    BY <1>1, <1>5 DEF vars
  <1> QED
    BY <1>2, <1>3, <1>4, <1>5, CodesAuthorized, ExchangeAuthorized, ReportAuthorized,
       RefundAuthorized, JobAuthorized DEF Next, Retried

\* The inductive invariant of this module.
IInv == TypeOK /\ Claimed /\ OneRedemption /\ Authorized /\ PaymentSettlesOnce

LEMMA Inductive == Spec => []IInv
  <1>1. Init => IInv
    BY InitTyped, InitClaimed, InitAuthorized DEF IInv
  <1>2. IInv /\ [Next]_vars => IInv'
    BY NextTyped, NextClaimed, NextAuthorized DEF IInv
  <1> QED BY <1>1, <1>2, PTL DEF Spec

\* Orders and settled authorizations correspond one to one, whatever reports are
\* repeated or raced and whatever the job deletes.
THEOREM PaymentSettlesOnceHolds == Spec => []PaymentSettlesOnce
  BY Inductive, PTL DEF IInv

\* Every order stands at the prices the student reviewed: those of the session
\* that was claimed, or of the code.
THEOREM QuoteHonouredHolds == Spec => []QuoteHonoured
  <1>1. IInv => QuoteHonoured
    BY DEF IInv, Authorized, Ordered, QuoteHonoured
  <1> QED BY <1>1, Inductive, PTL

\* No step but a report makes an order, and it finds the evidence of the claim.
THEOREM SettledUnderClaimHolds == Spec => SettledUnderClaim
  <1> DEFINE Settled == \A r \in Refs : order[r].status = "none" /\ order'[r].status # "none" =>
                evidence.effective /\ evidence.id = code[order'[r].code].evidence
  <1>1. ASSUME IInv, [Next]_vars PROVE [Settled]_vars
    <2>1. ASSUME UNCHANGED order PROVE Settled
      BY <2>1
    <2>2. ASSUME NEW c \in Codes, NEW r \in Refs, Report(c, r) PROVE Settled
      <3>1. /\ order'[r].code = c /\ \A s \in Refs \ {r} : order'[s] = order[s]
        BY <2>2, <1>1 DEF Report, Settle, IInv, TypeOK
      <3>2. evidence.effective /\ evidence.id = code[c].evidence
        BY <2>2, <1>1 DEF Report, SameEvidence, IInv, Authorized, Carried
      <3> QED BY <3>1, <3>2
    <2>3. ASSUME NEW r \in Refs, Refund(r) PROVE Settled
      BY <2>3, <1>1 DEF Refund, IInv, TypeOK
    <2>4. CASE (\E k \in Checkouts : CreateClaimSession(k))
               \/ (\E c \in Codes, k \in Checkouts : ClaimProduct(c, k))
               \/ (\E c \in Codes : IssueAssertion(c))
               \/ (\E c \in Codes, k \in Keys : Exchange(c, k))
      BY <2>1, <2>4 DEF CreateClaimSession, ClaimProduct, IssueAssertion, Exchange
    <2>5. CASE RestoreExpired \/ DeleteExpired \/ TombstoneSessions \/ DetachCodes \/ DeleteSessions
      BY <2>1, <2>5 DEF RestoreExpired, DeleteExpired, TombstoneSessions, DetachCodes, DeleteSessions
    <2>6. CASE EditProduct \/ LoseEvidence \/ RenewEvidence \/ Tick \/ Retried
      BY <2>1, <2>6 DEF EditProduct, LoseEvidence, RenewEvidence, Tick, Retried, Retry
    <2> QED BY <1>1, <2>2, <2>3, <2>4, <2>5, <2>6 DEF Next, Retried
  <1> QED BY <1>1, Inductive, PTL DEF Spec, SettledUnderClaim

-----------------------------------------------------------------------------
\* A receipt was told to requests for its own code, and to those alone.
ToldOwn == \A k \in Keys, c \in Codes : c \in receipt[k].told <=> receipt[k].code = c

\* So a retry tells nothing new.
LEMMA RetryIdle ==
    ASSUME TypeOK, ToldOwn, Retried
    PROVE  UNCHANGED <<code, receipt>>
  <1>1. PICK c \in Codes, k \in Keys : Retry(c, k)
    BY DEF Retried
  <1>2. receipt[k].told \cup {c} = receipt[k].told
    BY <1>1 DEF Retry, Known, ToldOwn
  <1>3. [receipt[k] EXCEPT !.told = receipt[k].told \cup {c}] = receipt[k]
    BY <1>2 DEF TypeOK, ReceiptType
  <1>4. receipt' = [receipt EXCEPT ![k] = receipt[k]]
    BY <1>1, <1>3 DEF Retry
  <1> QED BY <1>1, <1>4 DEF Retry, TypeOK

LEMMA ExchangeReceipt ==
    ASSUME TypeOK, ToldOwn, OneReceipt, NEW c \in Codes, NEW k \in Keys, Exchange(c, k)
    PROVE  ToldOwn' /\ OneReceipt'
  <1> DEFINE Answering(d) == {l \in Keys : d \in receipt[l].told}
  <1>1. /\ receipt[k].code = "none" /\ code[c].status = "issued" /\ "none" \notin Codes
        /\ \A d \in Codes : d \notin receipt[k].told
    BY BenefitAssumption DEF Exchange, ToldOwn
  <1>2. /\ receipt'[k].code = c /\ receipt'[k].told = {c}
        /\ \A l \in Keys \ {k} : receipt'[l] = receipt[l]
    BY DEF Exchange, TypeOK
  <1>3. \A d \in Codes : code'[d].status = (IF d = c THEN "used" ELSE code[d].status)
    BY DEF Exchange, Spend, TypeOK, CodeType
  <1>4. ToldOwn'
    BY <1>2 DEF ToldOwn
  <1>5. \A d \in Codes \ {c} : Answering(d)' = Answering(d)
    BY <1>1, <1>2
  <1>6. ASSUME c \notin Legacy PROVE Answering(c)' = {k}
    <2>1. Answering(c) = {}
      BY <1>1, <1>6 DEF OneReceipt
    <2> QED BY <1>2, <2>1
  <1> SUFFICES ASSUME NEW d \in Codes \ Legacy
               PROVE  IF code'[d].status = "used"
                      THEN \E m \in Keys : Answering(d)' = {m} /\ receipt'[m].code = d
                      ELSE Answering(d)' = {}
    BY <1>4 DEF OneReceipt
  <1>7. IF code[d].status = "used" THEN \E m \in Keys : Answering(d) = {m} /\ receipt[m].code = d
                                   ELSE Answering(d) = {}
    BY DEF OneReceipt
  <1> HIDE DEF Answering
  <1>8. CASE d = c
    BY <1>2, <1>3, <1>6, <1>8
  <1>9. CASE d # c /\ code[d].status = "used"
    <2>1. PICK m \in Keys : Answering(d) = {m} /\ receipt[m].code = d
      BY <1>7, <1>9
    <2>2. receipt'[m].code = d
      BY <1>1, <1>2, <2>1
    <2> QED BY <1>3, <1>5, <1>9, <2>1, <2>2
  <1>10. CASE d # c /\ code[d].status # "used"
    BY <1>3, <1>5, <1>7, <1>10
  <1> QED BY <1>8, <1>9, <1>10

\* Other steps leave the receipts, and which codes are used.
LEMMA ReceiptsKept ==
    ASSUME ToldOwn, OneReceipt, UNCHANGED receipt,
           \A c \in Codes : code'[c].status = "used" <=> code[c].status = "used"
    PROVE  ToldOwn' /\ OneReceipt'
  <1>1. ToldOwn'
    BY DEF ToldOwn
  <1>2. \A c \in Codes : {k \in Keys : c \in receipt'[k].told} = {k \in Keys : c \in receipt[k].told}
    OBVIOUS
  <1>3. OneReceipt'
    BY <1>2 DEF OneReceipt
  <1> QED BY <1>1, <1>3

LEMMA NextReceipt ==
    ASSUME TypeOK, ToldOwn, OneReceipt, [Next]_vars
    PROVE  ToldOwn' /\ OneReceipt'
  <1>1. ASSUME UNCHANGED <<code, receipt>> PROVE ToldOwn' /\ OneReceipt'
    BY <1>1, ReceiptsKept
  <1>2. ASSUME NEW c \in Codes, NEW k \in Checkouts, ClaimProduct(c, k)
        PROVE  ToldOwn' /\ OneReceipt'
    <2>1. PICK left \in Lives : code' = [code EXCEPT ![c] =
             [status |-> "issued", checkout |-> k, left |-> left, evidence |-> evidence.id,
              quote |-> NoQuote, asked |-> k, seen |-> session[k].quote]]
      BY <1>2 DEF ClaimProduct
    <2>2. /\ code'[c].status = "issued" /\ code[c].status = "none" /\ UNCHANGED receipt
          /\ \A d \in Codes \ {c} : code'[d] = code[d]
      BY <1>2, <2>1 DEF ClaimProduct, TypeOK
    <2>3. \A d \in Codes : code'[d].status = "used" <=> code[d].status = "used"
      BY <2>2
    <2> QED BY <2>2, <2>3, ReceiptsKept
  <1>3. ASSUME NEW c \in Codes, IssueAssertion(c) PROVE ToldOwn' /\ OneReceipt'
    <2>1. PICK q \in {NoQuote} \cup (IF listing.live THEN {listing.quote} ELSE {}), left \in Lives :
             code' = [code EXCEPT ![c] =
               [status |-> "issued", checkout |-> "none", left |-> left,
                evidence |-> evidence.id, quote |-> q, asked |-> "none", seen |-> q]]
      BY <1>3 DEF IssueAssertion
    <2>2. /\ code'[c].status = "issued" /\ code[c].status = "none" /\ UNCHANGED receipt
          /\ \A d \in Codes \ {c} : code'[d] = code[d]
      BY <1>3, <2>1 DEF IssueAssertion, TypeOK
    <2>3. \A d \in Codes : code'[d].status = "used" <=> code[d].status = "used"
      BY <2>2
    <2> QED BY <2>2, <2>3, ReceiptsKept
  <1>4. CASE DetachCodes \/ Tick
    <2>1. UNCHANGED receipt
      BY <1>4 DEF DetachCodes, Tick
    <2>2. \A d \in Codes : code'[d].status = code[d].status
      BY <1>4 DEF DetachCodes, Tick, TypeOK, CodeType
    <2>3. \A d \in Codes : code'[d].status = "used" <=> code[d].status = "used"
      BY <2>2
    <2> QED BY <2>1, <2>3, ReceiptsKept
  <1>5. CASE \/ \E k \in Checkouts : CreateClaimSession(k)
             \/ \E c \in Codes, r \in Refs : Report(c, r)
             \/ \E r \in Refs : Refund(r)
    BY <1>1, <1>5 DEF CreateClaimSession, Report, Settle, Refund
  <1>6. CASE RestoreExpired \/ DeleteExpired \/ TombstoneSessions \/ DeleteSessions
    BY <1>1, <1>6 DEF RestoreExpired, DeleteExpired, TombstoneSessions, DeleteSessions
  <1>7. CASE EditProduct \/ LoseEvidence \/ RenewEvidence \/ UNCHANGED vars
    BY <1>1, <1>7 DEF EditProduct, LoseEvidence, RenewEvidence, vars
  <1>8. CASE Retried
    BY <1>1, <1>8, RetryIdle
  <1> QED BY <1>2, <1>3, <1>4, <1>5, <1>6, <1>7, <1>8, ExchangeReceipt DEF Next, Retried

\* Whatever keys a code is tried under, and however often, the requests that are
\* answered all get the one receipt of its exchange, and no other code gets it.
THEOREM OneReceiptHolds == Spec => []OneReceipt
  <1>1. Init => ToldOwn /\ OneReceipt
    BY BenefitAssumption DEF Init, NoCode, NoReceipt, ToldOwn, OneReceipt
  <1>2. TypeOK /\ ToldOwn /\ OneReceipt /\ [Next]_vars => (ToldOwn /\ OneReceipt)'
    BY NextReceipt
  <1> QED BY <1>1, <1>2, Typed, PTL DEF Spec

-----------------------------------------------------------------------------
(***************************************************************************)
(* Units.  While the job's clock does not run ahead of the database's, a   *)
(* unit that was given back belongs to an authorization that has expired,  *)
(* and that no report will settle.                                         *)
(***************************************************************************)
Unspent == \A c \in Codes : auth[c].restored => auth[c].ref = "none" /\ auth[c].left <= 0

LEMMA NextUnspent ==
    ASSUME Skew = 0, TypeOK, Unspent, [Next]_vars
    PROVE  Unspent'
  <1>1. ASSUME UNCHANGED auth PROVE Unspent'
    BY <1>1 DEF Unspent
  <1>2. ASSUME NEW c \in Codes, NEW k \in Keys, Exchange(c, k) PROVE Unspent'
    <2>1. CASE ForProduct(c)
      <3>1. PICK left \in Lives : auth' = [auth EXCEPT ![c] =
               [status |-> "live", left |-> left, evidence |-> evidence.id, quote |-> QuoteOf(c),
                reserved |-> TRUE, restored |-> FALSE, ref |-> "none"]]
        BY <1>2, <2>1 DEF Exchange
      <3>2. ~auth'[c].restored /\ \A d \in Codes \ {c} : auth'[d] = auth[d]
        BY <3>1 DEF TypeOK
      <3> QED BY <3>2 DEF Unspent
    <2>2. CASE ~ForProduct(c)
      BY <1>1, <1>2, <2>2 DEF Exchange
    <2> QED BY <2>1, <2>2
  <1>3. ASSUME NEW c \in Codes, NEW r \in Refs, Report(c, r) PROVE Unspent'
    <2>1. auth[c].left \in Int /\ auth[c].left > 0
      BY <1>3, TickFacts DEF Report, TypeOK, AuthType
    <2>2. auth'[c].restored = auth[c].restored /\ \A d \in Codes \ {c} : auth'[d] = auth[d]
      BY <1>3 DEF Report, Settle, TypeOK, AuthType
    <2>3. ~auth[c].restored
      BY <2>1 DEF Unspent
    <2> QED BY <2>2, <2>3 DEF Unspent
  <1>4. CASE RestoreExpired
    <2>1. \A c \in Codes : /\ auth[c].left \in Int /\ auth'[c].left = auth[c].left
                           /\ auth'[c].ref = auth[c].ref
                           /\ Abandoned(c) \/ auth'[c] = auth[c]
      BY <1>4, TickFacts DEF RestoreExpired, TypeOK, AuthType
    <2> QED BY <2>1 DEF Unspent, Abandoned, Held
  <1>5. CASE DeleteExpired
    <2>1. \A c \in Codes : auth'[c].left = auth[c].left /\ auth'[c].ref = auth[c].ref
                          /\ auth'[c].restored = auth[c].restored
      BY <1>5 DEF DeleteExpired, TypeOK, AuthType
    <2> QED BY <2>1 DEF Unspent
  <1>6. CASE Tick
    <2>1. \A c \in Codes : /\ auth[c].left \in Int /\ auth'[c].ref = auth[c].ref
                           /\ auth'[c].restored = auth[c].restored
                           /\ auth'[c].left \in {auth[c].left, Down(auth[c].left)}
      BY <1>6, TickFacts DEF Tick, TypeOK, AuthType
    <2> QED BY <2>1 DEF Unspent, Down
  <1>7. CASE \/ \E k \in Checkouts : CreateClaimSession(k)
             \/ \E c \in Codes, k \in Checkouts : ClaimProduct(c, k)
             \/ \E c \in Codes : IssueAssertion(c)
             \/ \E r \in Refs : Refund(r)
    BY <1>1, <1>7 DEF CreateClaimSession, ClaimProduct, IssueAssertion, Refund
  <1>8. CASE TombstoneSessions \/ DetachCodes \/ DeleteSessions \/ EditProduct \/ LoseEvidence
             \/ RenewEvidence \/ Retried \/ UNCHANGED vars
    BY <1>1, <1>8 DEF TombstoneSessions, DetachCodes, DeleteSessions, EditProduct, LoseEvidence,
       RenewEvidence, Retried, Retry, vars
  <1> QED BY <1>2, <1>3, <1>4, <1>5, <1>6, <1>7, <1>8 DEF Next, Retried

\* When the clocks agree, a held unit is consumed by a report or given back by
\* the job, never both.
THEOREM ReservationUsedOnceHolds == ASSUME Skew = 0 PROVE Spec => []ReservationUsedOnce
  <1>1. Init => Unspent
    BY DEF Init, NoAuth, Unspent
  <1>2. Skew = 0 /\ IInv /\ Unspent /\ [Next]_vars => Unspent'
    BY NextUnspent DEF IInv
  <1>3. Unspent => ReservationUsedOnce
    BY DEF Unspent, ReservationUsedOnce
  <1> QED BY <1>1, <1>2, <1>3, Inductive, PTL DEF Spec

HeldSet == {c \in Codes : Held(c)}

\* Whatever leaves the held units, the orders, the stock and the supply alone.
LEMMA StockKept ==
    ASSUME StockConserved, listing'.stock = listing.stock, UNCHANGED supply,
           \A c \in Codes : Held(c)' <=> Held(c),
           \A r \in Refs : order'[r].status = "completed" <=> order[r].status = "completed"
    PROVE  StockConserved'
  <1>1. {c \in Codes : Held(c)}' = {c \in Codes : Held(c)} /\ Sold' = Sold
    BY DEF Sold
  <1> QED BY <1>1 DEF StockConserved

LEMMA ExchangeStock ==
    ASSUME IInv, StockConserved, NEW c \in Codes, NEW k \in Keys, Exchange(c, k)
    PROVE  StockConserved'
  <1>1. UNCHANGED <<order, supply>>
    BY DEF Exchange
  <1>2. CASE ~ForProduct(c)
    <2>1. UNCHANGED <<listing, auth>>
      BY <1>2 DEF Exchange
    <2> QED BY <1>1, <2>1, StockKept DEF Held
  <1>3. CASE ForProduct(c)
    <2>1. PICK left \in Lives : auth' = [auth EXCEPT ![c] =
             [status |-> "live", left |-> left, evidence |-> evidence.id, quote |-> QuoteOf(c),
              reserved |-> TRUE, restored |-> FALSE, ref |-> "none"]]
      BY <1>3 DEF Exchange
    <2>2. /\ auth'[c].status = "live" /\ auth'[c].ref = "none"
          /\ auth'[c].reserved /\ ~auth'[c].restored
          /\ \A d \in Codes \ {c} : auth'[d] = auth[d]
      BY <2>1 DEF IInv, TypeOK
    <2>3. auth[c].status = "none"
      BY DEF Exchange, IInv, Authorized, Carried
    <2>4. HeldSet' = HeldSet \cup {c} /\ c \notin HeldSet
      BY <2>2, <2>3 DEF HeldSet, Held
    <2>5. Cardinality(HeldSet') = Cardinality(HeldSet) + 1 /\ Cardinality(HeldSet) \in Nat
      BY <2>4, FS_AddElement, FiniteCodes DEF HeldSet
    <2>6. listing'.stock = listing.stock - 1 /\ listing.stock \in Nat
      BY <1>3 DEF Exchange, IInv, TypeOK
    <2>7. Sold' = Sold /\ Cardinality(Sold) \in Nat
      BY <1>1, FiniteRefs DEF Sold
    <2> QED BY <1>1, <2>5, <2>6, <2>7 DEF StockConserved, HeldSet
  <1> QED BY <1>2, <1>3

LEMMA ReportStock ==
    ASSUME IInv, Unspent, StockConserved, NEW c \in Codes, NEW r \in Refs, Report(c, r)
    PROVE  StockConserved'
  <1>1. /\ auth[c].status = "live" /\ auth[c].ref = "none" /\ ~auth[c].restored
        /\ order[r].status = "none" /\ r # "none" /\ UNCHANGED supply
    <2>1. auth[c].left \in Int /\ auth[c].left > 0
      BY TickFacts DEF Report, IInv, TypeOK, AuthType
    <2> QED BY <2>1, BenefitAssumption DEF Report, Settle, Unspent
  <1>2. auth'[c].ref = r /\ \A d \in Codes \ {c} : auth'[d] = auth[d]
    BY DEF Report, Settle, IInv, TypeOK, AuthType
  <1>3. order'[r].status = "completed" /\ \A s \in Refs \ {r} : order'[s] = order[s]
    BY DEF Report, Settle, IInv, TypeOK
  <1>4. Sold' = Sold \cup {r} /\ r \notin Sold
    BY <1>1, <1>3 DEF Sold
  <1>5. Cardinality(Sold') = Cardinality(Sold) + 1 /\ Cardinality(Sold) \in Nat
    BY <1>4, FS_AddElement, FiniteRefs DEF Sold
  <1>6. HeldSet' = HeldSet \ {c}
    BY <1>1, <1>2 DEF HeldSet, Held
  <1>7. Cardinality(HeldSet') = (IF c \in HeldSet THEN Cardinality(HeldSet) - 1 ELSE Cardinality(HeldSet))
        /\ Cardinality(HeldSet) \in Nat
    BY <1>6, FS_RemoveElement, FiniteCodes DEF HeldSet
  <1>8. c \in HeldSet <=> auth[c].reserved
    BY <1>1 DEF HeldSet, Held
  <1>9. listing'.stock = (IF auth[c].reserved THEN listing.stock ELSE listing.stock - 1)
        /\ listing.stock \in Nat
    BY DEF Report, Settle, TakeUnit, IInv, TypeOK
  <1> QED BY <1>1, <1>5, <1>7, <1>8, <1>9 DEF StockConserved, HeldSet

LEMMA RefundStock ==
    ASSUME IInv, StockConserved, NEW r \in Refs, Refund(r)
    PROVE  StockConserved'
  <1>1. order[r].status = "completed" /\ UNCHANGED <<auth, supply>>
    BY DEF Refund
  <1>2. order'[r].status = "refunded" /\ \A s \in Refs \ {r} : order'[s] = order[s]
    BY DEF Refund, IInv, TypeOK, OrderType
  <1>3. Sold' = Sold \ {r} /\ r \in Sold
    BY <1>1, <1>2 DEF Sold
  <1>4. Cardinality(Sold') = Cardinality(Sold) - 1 /\ Cardinality(Sold) \in Nat
    BY <1>3, FS_RemoveElement, FiniteRefs DEF Sold
  <1>5. HeldSet' = HeldSet /\ Cardinality(HeldSet') = Cardinality(HeldSet)
        /\ Cardinality(HeldSet) \in Nat
    <2>1. HeldSet' = HeldSet BY <1>1 DEF HeldSet, Held
    <2>2. Cardinality(HeldSet) \in Nat BY FiniteCodes DEF HeldSet
    <2> QED BY <2>1, <2>2
  <1>6. listing'.stock = listing.stock + 1 /\ listing.stock \in Nat
    BY DEF Refund, IInv, TypeOK
  <1> QED BY <1>1, <1>4, <1>5, <1>6 DEF StockConserved, HeldSet

\* A statement of the job that takes a set of held units off the books gives
\* back as many.
LEMMA Released ==
    ASSUME StockConserved, listing.stock \in Nat, NEW due \in SUBSET HeldSet,
           HeldSet' = HeldSet \ due, listing'.stock = listing.stock + Cardinality(due),
           UNCHANGED <<order, supply>>
    PROVE  StockConserved'
  <1>1. IsFiniteSet(HeldSet) /\ Cardinality(HeldSet) \in Nat /\ Cardinality(due) \in Nat
    BY FiniteCodes DEF HeldSet
  <1>2. HeldSet \cap due = due
    OBVIOUS
  <1>3. Cardinality(HeldSet') = Cardinality(HeldSet) - Cardinality(due)
    <2>1. Cardinality(HeldSet \ due) = Cardinality(HeldSet) - Cardinality(HeldSet \cap due)
      BY ONLY <1>1, FS_Difference
    <2> QED BY <1>2, <2>1
  <1>4. Sold' = Sold /\ Cardinality(Sold) \in Nat
    BY FiniteRefs DEF Sold
  <1> QED BY <1>1, <1>3, <1>4 DEF StockConserved, HeldSet

LEMMA JobStock ==
    ASSUME IInv, StockConserved, RestoreExpired \/ DeleteExpired
    PROVE  StockConserved'
  <1>0. listing.stock \in Nat /\ listing \in [live : BOOLEAN, stock : Nat, quote : Quotes, edits : 0..MaxEdits]
    BY DEF IInv, TypeOK
  <1>1. CASE RestoreExpired
    <2> DEFINE due == {c \in Codes : Abandoned(c)}
    <2>1. due \in SUBSET HeldSet
      BY DEF Abandoned, HeldSet
    <2>2. \A c \in Codes : IF c \in due THEN auth'[c].restored
                          ELSE auth'[c] = auth[c]
      BY <1>1 DEF RestoreExpired, IInv, TypeOK, AuthType
    <2>3. HeldSet' = HeldSet \ due
      BY <2>2 DEF HeldSet, Held
    <2>4. listing'.stock = listing.stock + Cardinality(due) /\ UNCHANGED <<order, supply>>
      BY <1>1, <1>0 DEF RestoreExpired
    <2> HIDE DEF due
    <2> QED BY <1>0, <2>1, <2>3, <2>4, Released
  <1>2. CASE DeleteExpired
    <2> DEFINE gone == {c \in Codes : auth[c].status = "live" /\ auth[c].ref = "none"
                                      /\ Outdated(auth[c].left)}
               due == {c \in gone : Held(c)}
    <2>1. due \in SUBSET HeldSet
      BY DEF HeldSet
    <2>2. \A c \in Codes : IF c \in gone THEN auth'[c].status = "deleted"
                          ELSE auth'[c] = auth[c]
      BY <1>2 DEF DeleteExpired, IInv, TypeOK, AuthType
    <2>3. HeldSet' = HeldSet \ due
      BY <2>2 DEF HeldSet, Held
    <2>4. listing'.stock = listing.stock + Cardinality(due) /\ UNCHANGED <<order, supply>>
      BY <1>2, <1>0 DEF DeleteExpired, Units
    <2> HIDE DEF due
    <2> QED BY <1>0, <2>1, <2>3, <2>4, Released
  <1> QED BY <1>1, <1>2

LEMMA NextStock ==
    ASSUME IInv, Unspent, StockConserved, [Next]_vars
    PROVE  StockConserved'
  <1>1. ASSUME UNCHANGED <<listing, auth, order, supply>> PROVE StockConserved'
    BY <1>1, StockKept DEF Held
  <1>2. CASE EditProduct
    <2>1. listing.stock \in Nat /\ listing'.stock \in Nat /\ supply \in Int
          /\ supply' = supply + listing'.stock - listing.stock /\ UNCHANGED <<auth, order>>
      BY <1>2, BenefitAssumption DEF EditProduct, IInv, TypeOK
    <2>2. HeldSet' = HeldSet /\ Sold' = Sold
      BY <2>1 DEF HeldSet, Held, Sold
    <2>3. Cardinality(HeldSet) \in Nat /\ Cardinality(Sold) \in Nat
      BY FiniteCodes, FiniteRefs DEF HeldSet, Sold
    <2>4. Cardinality(HeldSet') = Cardinality(HeldSet) /\ Cardinality(Sold') = Cardinality(Sold)
      BY <2>2
    <2>5. listing.stock + Cardinality(HeldSet) + Cardinality(Sold) = supply
      BY DEF StockConserved, HeldSet
    <2>6. listing'.stock + Cardinality(HeldSet') + Cardinality(Sold') = supply'
      BY <2>1, <2>3, <2>4, <2>5
    <2> QED BY <2>6 DEF StockConserved, HeldSet
  <1>3. CASE Tick
    <2>1. UNCHANGED <<listing, order, supply>>
      BY <1>3 DEF Tick
    <2>2. \A c \in Codes : Held(c)' <=> Held(c)
      BY <1>3 DEF Tick, Held, IInv, TypeOK, AuthType
    <2> QED BY <2>1, <2>2, StockKept
  <1>4. CASE \/ \E k \in Checkouts : CreateClaimSession(k)
             \/ \E c \in Codes, k \in Checkouts : ClaimProduct(c, k)
             \/ \E c \in Codes : IssueAssertion(c)
    BY <1>1, <1>4 DEF CreateClaimSession, ClaimProduct, IssueAssertion
  <1>5. CASE TombstoneSessions \/ DetachCodes \/ DeleteSessions \/ LoseEvidence
             \/ RenewEvidence \/ Retried \/ UNCHANGED vars
    BY <1>1, <1>5 DEF TombstoneSessions, DetachCodes, DeleteSessions, LoseEvidence,
       RenewEvidence, Retried, Retry, vars
  <1> QED
    BY <1>2, <1>3, <1>4, <1>5, ExchangeStock, ReportStock, RefundStock, JobStock
       DEF Next, Retried

\* When the clocks agree, no unit is lost or sold twice: stock, held units and
\* standing orders add up to what the merchant put on offer.
THEOREM StockConservedHolds == ASSUME Skew = 0 PROVE Spec => []StockConserved
  <1>1. Init => Unspent /\ StockConserved
    <2> SUFFICES ASSUME Init PROVE Unspent /\ StockConserved
      OBVIOUS
    <2>1. {c \in Codes : Held(c)} = {} /\ Sold = {}
      BY DEF Init, NoAuth, NoOrder, Held, Sold
    <2>2. listing.stock = supply /\ listing.stock \in Nat
      BY BenefitAssumption DEF Init
    <2>3. Unspent
      BY DEF Init, NoAuth, Unspent
    <2> QED BY <2>1, <2>2, <2>3, FS_EmptySet DEF StockConserved
  <1>2. Skew = 0 /\ IInv /\ Unspent /\ StockConserved /\ [Next]_vars => (Unspent /\ StockConserved)'
    BY NextUnspent, NextStock DEF IInv
  <1> QED BY <1>1, <1>2, Inductive, PTL DEF Spec
-----------------------------------------------------------------------------
(***************************************************************************)
(* Savings.  Whoever has been authorized or has paid did so at a pair of   *)
(* prices of the catalogue, so a report adds the units of one order to     *)
(* those the student saved, and the refund of that order takes them away.  *)
(***************************************************************************)
Priced ==
    /\ \A k \in Checkouts : session[k].status # "none" => session[k].quote \in Quotes
    /\ \A c \in Codes : auth[c].status # "none" => auth[c].quote \in Quotes
    /\ \A r \in Refs : order[r].status # "none" => order[r].quote \in Quotes

LEMMA InitPriced == Init => Priced
  <1> SUFFICES ASSUME Init PROVE Priced
    OBVIOUS
  <1>1. PICK q \in Quotes : auth = [c \in Codes |-> IF c \in Legacy
             THEN [NoAuth EXCEPT !.status = "live", !.left = CodeTTL, !.evidence = 1, !.quote = q]
             ELSE NoAuth]
    BY DEF Init
  <1>2. [NoAuth EXCEPT !.status = "live", !.left = CodeTTL, !.evidence = 1, !.quote = q].quote = q
    BY DEF NoAuth
  <1>3. \A c \in Codes : auth[c].status # "none" => auth[c].quote \in Quotes
    BY <1>1, <1>2 DEF NoAuth
  <1> QED
    BY <1>3 DEF Init, Priced, NoSession, NoOrder

LEMMA ExchangePriced ==
    ASSUME IInv, Priced, NEW c \in Codes, NEW k \in Keys, Exchange(c, k)
    PROVE  Priced'
  <1>1. QuoteOf(c) \in Quotes \/ ~ForProduct(c)
    <2>1. CASE code[c].checkout # "none"
      <3>1. code[c].checkout \in Checkouts
        BY <2>1 DEF IInv, TypeOK, CodeType
      <3>2. session[code[c].checkout].status # "none"
        BY <2>1 DEF IInv, Claimed, Attached
      <3> QED
        BY <2>1, <3>1, <3>2 DEF Priced, QuoteOf
    <2>2. CASE code[c].checkout = "none"
      BY <2>2 DEF QuoteOf, ForProduct, IInv, TypeOK, CodeType
    <2> QED
      BY <2>1, <2>2
  <1>2. \A d \in Codes : auth'[d].status # "none" => auth'[d].quote \in Quotes
    <2>1. CASE ~ForProduct(c)
      BY <2>1 DEF Exchange, Priced
    <2>2. CASE ForProduct(c)
      <3>1. PICK left \in Lives : auth' = [auth EXCEPT ![c] =
               [status |-> "live", left |-> left, evidence |-> evidence.id, quote |-> QuoteOf(c),
                reserved |-> TRUE, restored |-> FALSE, ref |-> "none"]]
        BY <2>2 DEF Exchange
      <3>2. auth'[c].quote = QuoteOf(c) /\ \A d \in Codes \ {c} : auth'[d] = auth[d]
        BY <3>1 DEF IInv, TypeOK
      <3> QED
        BY <1>1, <2>2, <3>2 DEF Priced
    <2> QED
      BY <2>1, <2>2
  <1>3. \A h \in Checkouts : session'[h].quote = session[h].quote
                             /\ (session'[h].status # "none" => session[h].status # "none")
    <2>1. /\ \A h \in Checkouts : session[h] \in SessionType
          /\ session' = [h \in Checkouts |-> IF h = code[c].checkout
                            THEN [session[h] EXCEPT !.status = "redeemed"] ELSE session[h]]
      BY DEF Exchange, Spend, IInv, TypeOK
    <2>2. \A h \in Checkouts : h = code[c].checkout => session[h].status # "none"
      BY BenefitAssumption DEF IInv, Claimed, Attached
    <2> QED
      BY <2>1, <2>2 DEF SessionType
  <1>4. UNCHANGED order
    BY DEF Exchange
  <1> QED
    BY <1>2, <1>3, <1>4 DEF Priced

LEMMA NextPriced ==
    ASSUME IInv, Priced, [Next]_vars PROVE Priced'
  <1>1. ASSUME NEW k \in Checkouts, CreateClaimSession(k) PROVE Priced'
    <2>1. /\ session' = [session EXCEPT ![k] = [status |-> "open", left |-> SessionTTL,
                                                quote |-> listing.quote]]
          /\ listing.quote \in Quotes /\ UNCHANGED <<auth, order>>
      BY <1>1 DEF CreateClaimSession, IInv, TypeOK
    <2>2. session'[k].quote = listing.quote /\ \A h \in Checkouts \ {k} : session'[h] = session[h]
      BY <2>1 DEF IInv, TypeOK
    <2> QED
      BY <2>1, <2>2 DEF Priced
  <1>2. ASSUME UNCHANGED <<session, auth, order>> PROVE Priced'
    BY <1>2 DEF Priced
  <1>3. CASE \/ \E c \in Codes, k \in Checkouts : ClaimProduct(c, k)
             \/ \E c \in Codes : IssueAssertion(c)
             \/ DetachCodes \/ EditProduct \/ LoseEvidence \/ RenewEvidence \/ Retried
             \/ UNCHANGED vars
    BY <1>2, <1>3 DEF ClaimProduct, IssueAssertion, DetachCodes, EditProduct, LoseEvidence,
       RenewEvidence, Retried, Retry, vars
  <1>4. ASSUME NEW c \in Codes, NEW r \in Refs, Report(c, r) PROVE Priced'
    <2>1. /\ order'[r].quote = auth[c].quote /\ \A s \in Refs \ {r} : order'[s] = order[s]
          /\ auth[c].status = "live" /\ UNCHANGED session
      BY <1>4 DEF Report, Settle, IInv, TypeOK
    <2>2. \A d \in Codes : auth'[d].quote = auth[d].quote /\ auth'[d].status = auth[d].status
      BY <1>4 DEF Report, Settle, IInv, TypeOK, AuthType
    <2> QED
      BY <2>1, <2>2 DEF Priced
  <1>5. ASSUME NEW r \in Refs, Refund(r) PROVE Priced'
    <2>1. /\ order[r].status = "completed" /\ order'[r].quote = order[r].quote
          /\ \A s \in Refs \ {r} : order'[s] = order[s]
          /\ UNCHANGED <<session, auth>>
      BY <1>5 DEF Refund, IInv, TypeOK, OrderType
    <2> QED
      BY <2>1 DEF Priced
  <1>6. CASE RestoreExpired \/ DeleteExpired
    <2>1. \A c \in Codes : /\ auth'[c].quote = auth[c].quote
                           /\ auth[c].status = "none" => auth'[c].status = "none"
      BY <1>6 DEF RestoreExpired, DeleteExpired, IInv, TypeOK, AuthType
    <2>2. UNCHANGED <<session, order>>
      BY <1>6 DEF RestoreExpired, DeleteExpired
    <2> QED
      BY <2>1, <2>2 DEF Priced
  <1>7. CASE TombstoneSessions \/ DeleteSessions
    <2>1. \A k \in Checkouts : session'[k].status # "none" =>
             session[k].status # "none" /\ session'[k].quote = session[k].quote
      BY <1>7 DEF TombstoneSessions, DeleteSessions, NoSession, IInv, TypeOK, SessionType
    <2>2. UNCHANGED <<auth, order>>
      BY <1>7 DEF TombstoneSessions, DeleteSessions
    <2> QED
      BY <2>1, <2>2 DEF Priced
  <1>8. CASE Tick
    <2>1. /\ \A k \in Checkouts : session'[k].status = session[k].status
                                  /\ session'[k].quote = session[k].quote
          /\ \A c \in Codes : auth'[c].status = auth[c].status /\ auth'[c].quote = auth[c].quote
          /\ UNCHANGED order
      BY <1>8 DEF Tick, IInv, TypeOK, SessionType, AuthType
    <2> QED
      BY <2>1 DEF Priced
  <1> QED
    BY <1>1, <1>3, <1>4, <1>5, <1>6, <1>7, <1>8, ExchangePriced DEF Next, Retried

\* One order's share of the units saved.
LEMMA UnitsOf ==
    ASSUME NEW r, NEW q \in Quotes
    PROVE  /\ IsFiniteSet({r} \X ((q.student + 1)..q.list))
           /\ Cardinality({r} \X ((q.student + 1)..q.list)) = q.list - q.student
           /\ q.list \in Nat /\ q.student \in Nat
  <1>1. PICK a \in Nat, b \in Nat : a = q.student /\ b = q.list /\ a <= b
    BY BenefitAssumption
  <1>2. IsFiniteSet((a + 1)..b) /\ Cardinality((a + 1)..b) = b - a
    <2>1. /\ IsFiniteSet((a + 1)..b)
          /\ Cardinality((a + 1)..b) = IF a + 1 > b THEN 0 ELSE b - (a + 1) + 1
      BY FS_Interval
    <2> QED
      BY <1>1, <2>1
  <1>3. IsFiniteSet({r}) /\ Cardinality({r}) = 1
    BY FS_Singleton
  <1>4. /\ IsFiniteSet({r} \X ((a + 1)..b))
        /\ Cardinality({r} \X ((a + 1)..b)) = Cardinality({r}) * Cardinality((a + 1)..b)
    BY <1>2, <1>3, FS_Product
  <1>5. 1 * (b - a) = b - a
    OBVIOUS
  <1> QED
    BY <1>1, <1>2, <1>3, <1>4, <1>5

Saved == SavingsMatch /\ IsFiniteSet(SavedUnits)

\* Whatever leaves the savings and the orders alone.
LEMMA SavingsKept ==
    ASSUME Saved, UNCHANGED <<savings, order>>
    PROVE  Saved'
  <1>1. Sold' = Sold
    BY DEF Sold
  <1>2. SavedUnits' = SavedUnits
    BY <1>1 DEF SavedUnits
  <1> QED BY <1>1, <1>2 DEF Saved, SavingsMatch

LEMMA ReportSavings ==
    ASSUME IInv, Priced, Saved, NEW c \in Codes, NEW r \in Refs, Report(c, r)
    PROVE  Saved'
  <1>1. PICK q \in Quotes : q = auth[c].quote
    BY DEF Report, Priced
  <1>2. /\ order[r].status = "none"
        /\ order'[r].status = "completed" /\ order'[r].quote = q
        /\ \A s \in Refs \ {r} : order'[s] = order[s]
        /\ savings'.total = savings.total + q.list - q.student
        /\ savings'.purchases = savings.purchases + 1
    BY <1>1 DEF Report, Settle, IInv, TypeOK
  <1>3. Sold' = Sold \cup {r} /\ r \notin Sold
    BY <1>2 DEF Sold
  <1> DEFINE Share == {r} \X ((q.student + 1)..q.list)
  <1>4. SavedUnits' = SavedUnits \cup Share
    <2>1. \A s \in Sold : s \in Refs \ {r}
      BY <1>3 DEF Sold
    <2> QED BY <1>2, <1>3, <2>1 DEF SavedUnits
  <1>5. SavedUnits \cap Share = {}
    BY <1>3 DEF SavedUnits
  <1>6. /\ IsFiniteSet(Share) /\ Cardinality(Share) = q.list - q.student
        /\ q.list \in Nat /\ q.student \in Nat
    BY UnitsOf
  <1> HIDE DEF Share
  <1>7. /\ IsFiniteSet(SavedUnits \cup Share)
        /\ Cardinality(SavedUnits \cup Share) =
              Cardinality(SavedUnits) + Cardinality(Share) - Cardinality(SavedUnits \cap Share)
    BY <1>6, FS_Union DEF Saved
  <1>8. Cardinality(SavedUnits \cap Share) = 0 /\ Cardinality(SavedUnits) \in Nat
    BY <1>5, FS_EmptySet, FS_CardinalityType DEF Saved
  <1>9. Cardinality(Sold') = Cardinality(Sold) + 1 /\ Cardinality(Sold) \in Nat
    BY <1>3, FS_AddElement, FiniteRefs DEF Sold
  <1> QED BY <1>2, <1>4, <1>6, <1>7, <1>8, <1>9 DEF Saved, SavingsMatch

LEMMA RefundSavings ==
    ASSUME IInv, Priced, Saved, NEW r \in Refs, Refund(r)
    PROVE  Saved'
  <1>1. PICK q \in Quotes : q = order[r].quote
    BY DEF Refund, Priced
  <1>2. q.list \in Nat /\ q.student \in Nat
    BY UnitsOf
  <1>3. /\ order[r].status = "completed" /\ order'[r].status = "refunded"
        /\ \A s \in Refs \ {r} : order'[s] = order[s]
        /\ savings'.total = savings.total - (q.list - q.student)
        /\ savings'.purchases = savings.purchases - 1
    BY <1>1 DEF Refund, IInv, TypeOK, OrderType
  <1>4. Sold' = Sold \ {r} /\ r \in Sold
    BY <1>3 DEF Sold
  <1> DEFINE Share == {r} \X ((q.student + 1)..q.list)
  <1>5. SavedUnits' = SavedUnits \ Share
    <2>1. \A s \in Sold' : s \in Refs \ {r} /\ order'[s] = order[s]
      BY <1>3, <1>4 DEF Sold
    <2>2. SavedUnits' = UNION {{s} \X ((order[s].quote.student + 1)..order[s].quote.list) : s \in Sold \ {r}}
      BY <1>4, <2>1 DEF SavedUnits
    <2> QED BY <1>1, <2>2 DEF SavedUnits
  <1>6. SavedUnits \cap Share = Share
    BY <1>1, <1>4 DEF SavedUnits
  <1>7. Cardinality(Share) = q.list - q.student
    BY UnitsOf
  <1> HIDE DEF Share
  <1>8. /\ IsFiniteSet(SavedUnits \ Share)
        /\ Cardinality(SavedUnits \ Share) = Cardinality(SavedUnits) - Cardinality(SavedUnits \cap Share)
    BY FS_Difference DEF Saved
  <1>9. Cardinality(Sold') = Cardinality(Sold) - 1 /\ Cardinality(Sold) \in Nat
    BY <1>4, FS_RemoveElement, FiniteRefs DEF Sold
  <1>10. Cardinality(SavedUnits) \in Nat
    BY FS_CardinalityType DEF Saved
  <1> QED BY <1>2, <1>3, <1>5, <1>6, <1>7, <1>8, <1>9, <1>10 DEF Saved, SavingsMatch

LEMMA NextSavings ==
    ASSUME IInv, Priced, Saved, [Next]_vars
    PROVE  Saved'
  <1>1. CASE \/ \E k \in Checkouts : CreateClaimSession(k)
             \/ \E c \in Codes, k \in Checkouts : ClaimProduct(c, k)
             \/ \E c \in Codes : IssueAssertion(c)
             \/ \E c \in Codes, k \in Keys : Exchange(c, k)
    BY <1>1, SavingsKept DEF CreateClaimSession, ClaimProduct, IssueAssertion, Exchange
  <1>2. CASE RestoreExpired \/ DeleteExpired \/ TombstoneSessions \/ DetachCodes \/ DeleteSessions
    BY <1>2, SavingsKept DEF RestoreExpired, DeleteExpired, TombstoneSessions, DetachCodes,
       DeleteSessions
  <1>3. CASE EditProduct \/ LoseEvidence \/ RenewEvidence \/ Retried \/ Tick \/ UNCHANGED vars
    BY <1>3, SavingsKept DEF EditProduct, LoseEvidence, RenewEvidence, Retried, Retry, Tick, vars
  <1> QED
    BY <1>1, <1>2, <1>3, ReportSavings, RefundSavings DEF Next, Retried

\* The student's savings are those of the orders that stand, at the prices of
\* their quotes, whatever the catalogue asks when they are reported or refunded.
THEOREM SavingsMatchHolds == Spec => []SavingsMatch
  <1>1. Init => Priced /\ Saved
    <2>1. Init => Sold = {} /\ SavedUnits = {}
      BY DEF Init, NoOrder, Sold, SavedUnits
    <2>2. Init => savings.total = 0 /\ savings.purchases = 0
      BY DEF Init
    <2>3. Init => Saved
      BY <2>1, <2>2, FS_EmptySet DEF Saved, SavingsMatch
    <2> QED BY <2>3, InitPriced
  <1>2. IInv /\ Priced /\ Saved /\ [Next]_vars => (Priced /\ Saved)'
    BY NextPriced, NextSavings
  <1>3. Saved => SavingsMatch
    BY DEF Saved
  <1> QED BY <1>1, <1>2, <1>3, Inductive, PTL DEF Spec
=============================================================================
