--------------------------- MODULE MerchantBenefit ---------------------------
(***************************************************************************)
(* The discount a student redeems in a merchant's own checkout.  The       *)
(* merchant opens a claim session for one checkout, which quotes the       *)
(* catalogue price; the student claims it and gets a code; the merchant's  *)
(* server exchanges the code once, under an idempotency key, for an        *)
(* authorization that holds one unit; and reports the payment, which turns *)
(* the held unit into a completed order.  Orders can be refunded, and a    *)
(* recurring job releases what was abandoned.                              *)
(*                                                                         *)
(* One merchant with one product: every transaction below first locks the  *)
(* rows of the merchant's owner and of the vendor, so each is one step.    *)
(***************************************************************************)
EXTENDS Integers, FiniteSets

CONSTANTS Checkouts,    \* checkout ids of the merchant
          Codes,        \* assertions: one-time codes
          Legacy,       \* codes exchanged before stock was reserved at exchange
          Keys,         \* idempotency keys of exchanges
          Refs,         \* payment references of the merchant
          Quotes,       \* price pairs the catalogue may show
          SessionTTL,   \* ticks a claim session can be redeemed (10 minutes)
          CodeTTL,      \* ticks a code, and an authorization, is good for (2 minutes)
          Retention,    \* ticks past its deadline before a row is retired (7 days)
          Skew,         \* ticks the job's host clock is ahead of the database clock
          MaxStock,     \* bound on what the merchant puts on offer
          MaxEvidence,  \* bound on enrollment checks of the student
          MaxEdits      \* bound on catalogue edits

ASSUME BenefitAssumption ==
    /\ IsFiniteSet(Codes) /\ Legacy \subseteq Codes /\ IsFiniteSet(Refs)
    /\ "none" \notin Checkouts \cup Codes \cup Refs
    /\ Quotes # {} /\ \A q \in Quotes : q \in [list : Nat, student : Nat] /\ q.student <= q.list
    /\ SessionTTL \in Nat \ {0} /\ CodeTTL \in Nat \ {0}
    /\ Retention \in Nat \ {0} /\ Skew \in Nat
    /\ CodeTTL + Skew <= Retention
    /\ MaxStock \in Nat /\ MaxEvidence \in Nat /\ MaxEdits \in Nat

VARIABLES
    listing,  \* the product: live, stock, quote; edits counts the merchant's changes
    evidence, \* the student's enrollment evidence: newest id and whether it is effective
    session,  \* merchant_claim_sessions by checkout id
    code,     \* merchant_assertions
    receipt,  \* merchant_assertion_receipts: idempotency key to code, and what it told
    auth,     \* merchant_benefit_authorizations by code
    order,    \* transactions by payment reference
    savings,  \* savings_stats of the student: this merchant's share
    supply    \* history: units the merchant put on offer, less those withdrawn

vars == <<listing, evidence, session, code, receipt, auth, order, savings, supply>>

\* No price pair of a catalogue.
NoQuote == [list |-> 0, student |-> 1]
NoSession == [status |-> "none", left |-> 0, quote |-> NoQuote]
NoCode == [status |-> "none", checkout |-> "none", left |-> 0, evidence |-> 0,
           quote |-> NoQuote, asked |-> "none", seen |-> NoQuote]
NoAuth == [status |-> "none", left |-> 0, evidence |-> 0, quote |-> NoQuote,
           reserved |-> FALSE, restored |-> FALSE, ref |-> "none"]
NoReceipt == [code |-> "none", told |-> {}]
NoOrder == [status |-> "none", code |-> "none", quote |-> NoQuote]

\* Deadlines are ticks left, counted down to the last value that matters.
Floor == -(Retention + 1)
Ticks == Floor..(IF SessionTTL > CodeTTL THEN SessionTTL ELSE CodeTTL)

\* asked and seen are history: the checkout a code was claimed for and the
\* prices the student reviewed, whatever is detached or edited later.
CodeType == [status : {"none", "issued", "used"}, checkout : Checkouts \cup {"none"},
             left : Ticks, evidence : Nat, quote : Quotes \cup {NoQuote},
             asked : Checkouts \cup {"none"}, seen : Quotes \cup {NoQuote}]
SessionType == [status : {"none", "open", "redeemed", "tombstone"}, left : Ticks,
                quote : Quotes \cup {NoQuote}]
AuthType == [status : {"none", "live", "deleted"}, left : Ticks, evidence : Nat,
             quote : Quotes \cup {NoQuote}, reserved : BOOLEAN, restored : BOOLEAN,
             ref : Refs \cup {"none"}]
\* told is history: the codes whose exchange was answered with this receipt.
ReceiptType == [code : Codes \cup {"none"}, told : SUBSET Codes]
OrderType == [status : {"none", "completed", "refunded"}, code : Codes \cup {"none"},
              quote : Quotes \cup {NoQuote}]

TypeOK ==
    /\ listing \in [live : BOOLEAN, stock : Nat, quote : Quotes, edits : 0..MaxEdits]
    /\ evidence \in [id : Nat, effective : BOOLEAN]
    /\ session \in [Checkouts -> SessionType]
    /\ code \in [Codes -> CodeType]
    /\ receipt \in [Keys -> ReceiptType]
    /\ auth \in [Codes -> AuthType]
    /\ order \in [Refs -> OrderType]
    /\ savings \in [total : Int, purchases : Int]
    /\ supply \in Int

Init ==
    /\ \E n \in 0..MaxStock, q \in Quotes :
          /\ listing = [live |-> TRUE, stock |-> n, quote |-> q, edits |-> 0]
          /\ supply = n
          /\ code = [c \in Codes |-> IF c \in Legacy
                         THEN [NoCode EXCEPT !.status = "used", !.evidence = 1,
                                             !.quote = q, !.seen = q]
                         ELSE NoCode]
          /\ auth = [c \in Codes |-> IF c \in Legacy
                         THEN [NoAuth EXCEPT !.status = "live", !.left = CodeTTL,
                                             !.evidence = 1, !.quote = q]
                         ELSE NoAuth]
    /\ evidence = [id |-> 1, effective |-> TRUE]
    /\ session = [k \in Checkouts |-> NoSession]
    /\ receipt = [k \in Keys |-> NoReceipt]
    /\ order = [r \in Refs |-> NoOrder]
    /\ savings = [total |-> 0, purchases |-> 0]

-----------------------------------------------------------------------------
\* POST /claim-sessions.  A retry for an existing checkout is answered from the
\* row, or refused, and writes nothing.
CreateClaimSession(k) ==
    /\ session[k].status = "none"
    /\ listing.live /\ listing.stock > 0
    /\ session' = [session EXCEPT ![k] = [status |-> "open", left |-> SessionTTL,
                                          quote |-> listing.quote]]
    /\ UNCHANGED <<listing, evidence, code, receipt, auth, order, savings, supply>>

\* A code or authorization lives its term, or as long as the evidence it rests on.
Lives == 1..CodeTTL

\* POST /product-claims: any number of codes may be claimed for one session.
ClaimProduct(c, k) ==
    /\ code[c].status = "none"
    /\ session[k].status = "open" /\ session[k].left > 0
    /\ evidence.effective
    /\ listing.live
    /\ \E left \in Lives : code' = [code EXCEPT ![c] =
          [status |-> "issued", checkout |-> k, left |-> left, evidence |-> evidence.id,
           quote |-> NoQuote, asked |-> k, seen |-> session[k].quote]]
    /\ UNCHANGED <<listing, evidence, session, receipt, auth, order, savings, supply>>

\* POST /assertions: a code without a session, for the product or for a
\* verification alone.
IssueAssertion(c) ==
    /\ code[c].status = "none"
    /\ evidence.effective
    /\ \E q \in {NoQuote} \cup (IF listing.live THEN {listing.quote} ELSE {}), left \in Lives :
          code' = [code EXCEPT ![c] =
             [status |-> "issued", checkout |-> "none", left |-> left,
              evidence |-> evidence.id, quote |-> q, asked |-> "none", seen |-> q]]
    /\ UNCHANGED <<listing, evidence, session, receipt, auth, order, savings, supply>>

\* The student's enrollment evidence is still the one the row was written under.
SameEvidence(id) == evidence.effective /\ evidence.id = id

ForProduct(c) == code[c].checkout # "none" \/ code[c].quote # NoQuote

\* Mutated: the authorization samples the catalogue again.
QuoteLive(c) == listing.quote

\* The session's quote wins, then the quote of the code.
QuoteOf(c) == IF code[c].checkout # "none" THEN session[code[c].checkout].quote
                                          ELSE code[c].quote

\* Code and session are used up together.
Spend(c) ==
    /\ code' = [code EXCEPT ![c].status = "used"]
    /\ session' = [k \in Checkouts |-> IF k = code[c].checkout
                                       THEN [session[k] EXCEPT !.status = "redeemed"]
                                       ELSE session[k]]

\* POST /exchange under a new idempotency key.
Exchange(c, k) ==
    /\ receipt[k].code = "none"
    /\ code[c].status = "issued" /\ code[c].left > 0
    /\ code[c].checkout # "none" =>
          session[code[c].checkout].status = "open" /\ session[code[c].checkout].left > 0
    /\ SameEvidence(code[c].evidence)
    /\ Spend(c)
    /\ IF ForProduct(c)
       THEN /\ listing.live /\ listing.stock > 0
            /\ listing' = [listing EXCEPT !.stock = @ - 1]
            /\ \E left \in Lives : auth' = [auth EXCEPT ![c] =
                  [status |-> "live", left |-> left, evidence |-> evidence.id,
                   quote |-> QuoteOf(c), reserved |-> TRUE, restored |-> FALSE, ref |-> "none"]]
       ELSE UNCHANGED <<listing, auth>>
    /\ receipt' = [receipt EXCEPT ![k] = [code |-> c, told |-> {c}]]
    /\ UNCHANGED <<evidence, order, savings, supply>>

\* Mutated: the key alone finds the receipt.
KnownKey(c, k) == receipt[k].code # "none"

\* The receipt committed under the key is one for this code.
Known(c, k) == receipt[k].code = c

\* POST /exchange under a known key, the answer to the first request lost or not:
\* it is answered from the receipt, whatever has expired or was withdrawn since,
\* and refused when the receipt is for another code.
Retry(c, k) ==
    /\ Known(c, k)
    /\ receipt' = [receipt EXCEPT ![k].told = @ \cup {c}]
    /\ UNCHANGED <<listing, evidence, session, code, auth, order, savings, supply>>

\* Mutated: held or not, the report takes a unit.
TakeUnitAgain(c) == listing.stock > 0 /\ listing' = [listing EXCEPT !.stock = @ - 1]

\* The unit of the order: held since the exchange, or taken now when the
\* authorization is from before units were held.
TakeUnit(c) ==
    IF auth[c].reserved THEN UNCHANGED listing
    ELSE listing.stock > 0 /\ listing' = [listing EXCEPT !.stock = @ - 1]

\* The order, its authorization and the student's savings change together.
Settle(c, r) ==
    /\ TakeUnit(c)
    /\ order' = [order EXCEPT ![r] = [status |-> "completed", code |-> c, quote |-> auth[c].quote]]
    /\ auth' = [auth EXCEPT ![c].ref = r]
    /\ savings' = [total |-> savings.total + auth[c].quote.list - auth[c].quote.student,
                   purchases |-> savings.purchases + 1]
    /\ UNCHANGED <<evidence, session, code, receipt, supply>>

\* Mutated: any effective evidence will do.
ReportAnyEvidence(c, r) ==
    /\ auth[c].status = "live" /\ auth[c].ref = "none" /\ order[r].status = "none"
    /\ evidence.effective /\ auth[c].left > 0 /\ listing.live
    /\ Settle(c, r)

\* Mutated: a settled authorization settles again.
ReportTwice(c, r) ==
    /\ auth[c].status = "live" /\ order[r].status = "none"
    /\ SameEvidence(auth[c].evidence) /\ auth[c].left > 0 /\ listing.live
    /\ Settle(c, r)

\* POST /vendors/transactions/report, a payment of the quoted student price.  The
\* provider is asked before any lock is taken, and can only refuse.  A repeated
\* report is answered from the order, a different one is refused, and so is a
\* reference the unique index already knows; nothing is written then.
Report(c, r) ==
    /\ auth[c].status = "live" /\ auth[c].ref = "none"
    /\ order[r].status = "none"
    /\ SameEvidence(auth[c].evidence)
    /\ auth[c].left > 0
    /\ listing.live
    /\ Settle(c, r)

\* Mutated: the credit is reversed at today's prices.
RefundLive(r) ==
    /\ order[r].status = "completed" /\ savings.purchases > 0
    /\ order' = [order EXCEPT ![r].status = "refunded"]
    /\ listing' = [listing EXCEPT !.stock = @ + 1]
    /\ savings' = [total |-> savings.total - (listing.quote.list - listing.quote.student),
                   purchases |-> savings.purchases - 1]
    /\ UNCHANGED <<evidence, session, code, receipt, auth, supply>>

\* PATCH /orders/:id/status: the only change a vendor can make to such an order.
Refund(r) ==
    /\ order[r].status = "completed"
    /\ savings.purchases > 0
    /\ order' = [order EXCEPT ![r].status = "refunded"]
    /\ listing' = [listing EXCEPT !.stock = @ + 1]
    /\ savings' = [total |-> savings.total - (order[r].quote.list - order[r].quote.student),
                   purchases |-> savings.purchases - 1]
    /\ UNCHANGED <<evidence, session, code, receipt, auth, supply>>

-----------------------------------------------------------------------------
\* An authorization still holds a unit of the catalogue.
Held(c) == /\ auth[c].status = "live" /\ auth[c].ref = "none"
           /\ auth[c].reserved /\ ~auth[c].restored

\* Mutated: the job only looks at the rows of its last interval.
AbandonedLastTick(c) == Held(c) /\ auth[c].left = Skew - 1

\* An unused reservation whose deadline has passed on the job's host.
Abandoned(c) == Held(c) /\ auth[c].left < Skew

\* The job's first statement gives back the units of abandoned reservations.
RestoreExpired ==
    LET due == {c \in Codes : Abandoned(c)} IN
    /\ due # {}
    /\ auth' = [c \in Codes |-> IF c \in due THEN [auth[c] EXCEPT !.restored = TRUE] ELSE auth[c]]
    /\ listing' = [listing EXCEPT !.stock = @ + Cardinality(due)]
    /\ UNCHANGED <<evidence, session, code, receipt, order, savings, supply>>

Outdated(left) == left < Skew - Retention

Units(due) == Cardinality({c \in due : Held(c)})

\* Its second: unused rows past retention go, with any unit they still hold.
DeleteExpired ==
    LET due == {c \in Codes : auth[c].status = "live" /\ auth[c].ref = "none" /\ Outdated(auth[c].left)} IN
    /\ due # {}
    /\ auth' = [c \in Codes |-> IF c \in due THEN [auth[c] EXCEPT !.status = "deleted"] ELSE auth[c]]
    /\ listing' = [listing EXCEPT !.stock = @ + Units(due)]
    /\ UNCHANGED <<evidence, session, code, receipt, order, savings, supply>>

\* The others: redeemed sessions become tombstones, those nobody redeemed are
\* detached from their codes and then deleted, so that the checkout is free again.
TombstoneSessions ==
    LET due == {k \in Checkouts : session[k].status = "redeemed" /\ Outdated(session[k].left)} IN
    /\ due # {}
    /\ session' = [k \in Checkouts |-> IF k \in due THEN [session[k] EXCEPT !.status = "tombstone"]
                                                    ELSE session[k]]
    /\ UNCHANGED <<listing, evidence, code, receipt, auth, order, savings, supply>>

\* Mutated: redeemed sessions are deleted as well.
RetiredAll == {k \in Checkouts : session[k].status \in {"open", "redeemed"} /\ Outdated(session[k].left)}

Retired == {k \in Checkouts : session[k].status = "open" /\ Outdated(session[k].left)}

DetachCodes ==
    /\ \E c \in Codes : code[c].checkout \in Retired
    /\ code' = [c \in Codes |-> IF code[c].checkout \in Retired
                                THEN [code[c] EXCEPT !.checkout = "none"] ELSE code[c]]
    /\ UNCHANGED <<listing, evidence, session, receipt, auth, order, savings, supply>>

\* The foreign key of the codes refuses the deletion while one is attached.
DeleteSessions ==
    /\ Retired # {}
    /\ \A c \in Codes : code[c].checkout \notin Retired
    /\ session' = [k \in Checkouts |-> IF k \in Retired THEN NoSession ELSE session[k]]
    /\ UNCHANGED <<listing, evidence, code, receipt, auth, order, savings, supply>>

-----------------------------------------------------------------------------
\* PATCH /products/:id: any of the fields, the stock as an absolute number.
EditProduct ==
    /\ listing.edits < MaxEdits
    /\ \E live \in BOOLEAN, n \in 0..MaxStock \cup {listing.stock}, q \in Quotes :
          /\ listing' = [live |-> live, stock |-> n, quote |-> q, edits |-> listing.edits + 1]
          /\ supply' = supply + n - listing.stock
    /\ UNCHANGED <<evidence, session, code, receipt, auth, order, savings>>

\* Consent withdrawn, evidence revoked or expired.
LoseEvidence ==
    /\ evidence.effective
    /\ evidence' = [evidence EXCEPT !.effective = FALSE]
    /\ UNCHANGED <<listing, session, code, receipt, auth, order, savings, supply>>

\* A later check of the enrollment is a row, and a consent, of its own.
RenewEvidence ==
    /\ evidence.id < MaxEvidence
    /\ evidence' = [id |-> evidence.id + 1, effective |-> TRUE]
    /\ UNCHANGED <<listing, session, code, receipt, auth, order, savings, supply>>

Down(left) == IF left > Floor THEN left - 1 ELSE left

Tick ==
    /\ session' = [k \in Checkouts |-> IF session[k].status = "none" THEN session[k]
                                       ELSE [session[k] EXCEPT !.left = Down(@)]]
    /\ code' = [c \in Codes |-> IF code[c].status # "issued" THEN code[c]
                                ELSE [code[c] EXCEPT !.left = Down(@)]]
    /\ auth' = [c \in Codes |-> IF auth[c].status # "live" THEN auth[c]
                                ELSE [auth[c] EXCEPT !.left = Down(@)]]
    /\ UNCHANGED <<listing, evidence, receipt, order, savings, supply>>

Next ==
    \/ \E k \in Checkouts : CreateClaimSession(k)
    \/ \E c \in Codes, k \in Checkouts : ClaimProduct(c, k)
    \/ \E c \in Codes : IssueAssertion(c)
    \/ \E c \in Codes, k \in Keys : Exchange(c, k) \/ Retry(c, k)
    \/ \E c \in Codes, r \in Refs : Report(c, r)
    \/ \E r \in Refs : Refund(r)
    \/ RestoreExpired \/ DeleteExpired \/ TombstoneSessions \/ DetachCodes \/ DeleteSessions
    \/ EditProduct \/ LoseEvidence \/ RenewEvidence \/ Tick

Spec == Init /\ [][Next]_vars

\* Time passes, and the job runs again and again.
Fairness == WF_vars(Tick) /\ WF_vars(RestoreExpired)

FairSpec == Spec /\ Fairness

-----------------------------------------------------------------------------
Sold == {r \in Refs : order[r].status = "completed"}

\* Every unit the merchant put on offer is on sale, held by one authorization or
\* in one order that was not refunded, through reservation, settlement, release,
\* deletion and refund.
StockConserved ==
    listing.stock + Cardinality({c \in Codes : Held(c)}) + Cardinality(Sold) = supply

\* A held unit is consumed by a report or given back, never both.
ReservationUsedOnce == \A c \in Codes : ~(auth[c].restored /\ auth[c].ref # "none")

\* What the student saved, unit by unit: the n-th unit of the list price of order
\* r was not asked for.
SavedUnits == UNION {{r} \X ((order[r].quote.student + 1)..order[r].quote.list) : r \in Sold}

\* The student's savings are those of the orders that stand, at the prices of
\* their quotes, and a refund always finds the purchase it reverses.
SavingsMatch ==
    /\ savings.total = Cardinality(SavedUnits)
    /\ savings.purchases = Cardinality(Sold)

\* One redemption per checkout id, also after its session was retired.
OneRedemption ==
    \A c, d \in Codes : c # d /\ code[c].status = "used" /\ code[d].status = "used" =>
        code[c].asked = "none" \/ code[c].asked # code[d].asked

\* Every request for a code that gets an answer, the first one and its retries
\* under whatever keys, gets the same receipt, which is for that code; it exists
\* exactly when the code is used.
OneReceipt ==
    \A c \in Codes \ Legacy :
        LET answering == {k \in Keys : c \in receipt[k].told} IN
        IF code[c].status = "used" THEN \E k \in Keys : answering = {k} /\ receipt[k].code = c
                                   ELSE answering = {}

\* Orders and settled authorizations correspond one to one: a payment settles one
\* discount, and a discount is settled by one payment.
PaymentSettlesOnce ==
    \A r \in Refs, c \in Codes :
        (order[r].status # "none" /\ order[r].code = c) <=> auth[c].ref = r

\* The student pays what was reviewed: the quote of the claimed session, or of
\* the code, however the catalogue changed before exchange and report.
QuoteHonoured ==
    \A r \in Refs : order[r].status # "none" => order[r].quote = code[order[r].code].seen

\* A discount settles only while the enrollment stands under which it was claimed.
SettledUnderClaim ==
    [][\A r \in Refs : order[r].status = "none" /\ order'[r].status # "none" =>
          evidence.effective /\ evidence.id = code[order'[r].code].evidence]_vars

\* An abandoned checkout does not hold its unit for good.
HeldIsReleased == \A c \in Codes : Held(c) ~> ~Held(c)
=============================================================================
