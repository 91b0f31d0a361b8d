------------------------------- MODULE Checkout -------------------------------
(***************************************************************************)
(* Marketplace checkout: a student reserves a transaction row, the backend *)
(* opens a charge at Paystack under that row's reference, and a captured   *)
(* charge is settled against stock, savings and current eligibility.       *)
(*                                                                         *)
(* One request handler is one element of Handlers.  A database transaction *)
(* that keeps its row locks to COMMIT is one action; settlement is two,    *)
(* because it reads eligibility, then waits for the transaction, vendor    *)
(* and product rows while time passes and vendors edit listings.           *)
(* Paystack is external: it may accept, reject or lose an initialization,  *)
(* its reply may be lost, and it redelivers captured charges at will.      *)
(***************************************************************************)
EXTENDS Integers, FiniteSets

CONSTANTS Students, Products, Handlers,
          Txs,             \* transaction rows; a row's id stands for its paystack_reference
          Quotes,          \* list and student price pairs a vendor may set
          MaxStock,        \* bound on the stock a vendor enters
          EligibilityTerm, \* how long a grant of eligibility lasts
          MaxNow, MaxEdits, MaxCrashes  \* bounds on clock, vendor edits, handler crashes

ASSUME CheckoutAssumption ==
    /\ IsFiniteSet(Txs)
    /\ Quotes \subseteq [list : Nat, price : Nat \ {0}]
    /\ \A q \in Quotes : q.price <= q.list
    /\ MaxStock \in Nat /\ MaxNow \in Nat /\ MaxEdits \in Nat /\ MaxCrashes \in Nat
    /\ EligibilityTerm \in Nat \ {0}

VARIABLES
    status,   \* transactions.status; "absent" before INSERT
    init,     \* transactions.checkout_initialization_state; "null" for NULL
    url,      \* rows whose checkout_authorization_url is set
    order,    \* student, product, and quote of a row: list_price_snapshot and amount
    consumed, \* rows with inventory_consumed
    credit,   \* transactions.recorded_savings_delta
    reason,   \* payment_reconciliation_queue.reason; "none" without an entry
    outbox,   \* rows with a commerce_notification_outbox entry
    listing,  \* product row joined with its vendor: sellable, stock, both prices
    savings,  \* savings_stats per student
    expires,  \* end of the student's effective eligibility; 0 when there is none
    now,      \* database clock
    handler,  \* request handlers
    charge,   \* Paystack's record of a reference
    paid,     \* amount Paystack captured
    edits, crashes,  \* bounded counters
    supply    \* history: units a vendor has offered, sold ones included

rowVars == <<status, init, url, order, consumed, credit, reason, outbox>>
providerVars == <<charge, paid>>
vars == <<rowVars, listing, savings, expires, now, handler, providerVars,
          edits, crashes, supply>>

NoOrder == [student |-> "none", product |-> "none", quote |-> [list |-> 0, price |-> 0]]
Idle == [pc |-> "idle", tx |-> "none", until |-> 0]

Orders == [student : Students, product : Products, quote : Quotes]
Reasons == {"amount_mismatch", "eligibility_not_current", "stock_unavailable"}

TypeOK ==
    /\ status \in [Txs -> {"absent", "pending", "failed", "requires_refund", "completed"}]
    /\ init \in [Txs -> {"null", "initializing", "initialized", "unknown"}]
    /\ url \subseteq Txs /\ consumed \subseteq Txs /\ outbox \subseteq Txs
    /\ order \in [Txs -> Orders \cup {NoOrder}]
    /\ \A t \in Txs : status[t] # "absent" => order[t] \in Orders
    /\ credit \in [Txs -> Nat]
    /\ reason \in [Txs -> Reasons \cup {"none"}]
    /\ listing \in [Products -> [live : BOOLEAN, stock : Nat, quote : Quotes]]
    /\ savings \in [Students -> [total : Nat, purchases : Nat]]
    /\ expires \in [Students -> Nat]
    /\ now \in Nat
    /\ handler \in [Handlers -> [pc : {"idle", "initializing", "settling"},
                                 tx : Txs \cup {"none"}, until : Nat]]
    /\ \A h \in Handlers : handler[h].pc # "idle" =>
           handler[h].tx \in Txs /\ status[handler[h].tx] # "absent"
    /\ charge \in [Txs -> {"none", "inflight", "open", "rejected", "captured"}]
    /\ \A t \in Txs : status[t] = "absent" <=> charge[t] = "none"
    /\ paid \in [Txs -> Nat]
    /\ edits \in Nat /\ crashes \in Nat
    /\ supply \in [Products -> Nat]

Init ==
    /\ status = [t \in Txs |-> "absent"]
    /\ init = [t \in Txs |-> "null"]
    /\ url = {} /\ consumed = {} /\ outbox = {}
    /\ order = [t \in Txs |-> NoOrder]
    /\ credit = [t \in Txs |-> 0]
    /\ reason = [t \in Txs |-> "none"]
    /\ \E n \in 0..MaxStock, q \in Quotes :
          /\ listing = [p \in Products |-> [live |-> TRUE, stock |-> n, quote |-> q]]
          /\ supply = [p \in Products |-> n]
    /\ savings = [s \in Students |-> [total |-> 0, purchases |-> 0]]
    /\ expires = [s \in Students |-> 0]
    /\ now = 1
    /\ handler = [h \in Handlers |-> Idle]
    /\ charge = [t \in Txs |-> "none"]
    /\ paid = [t \in Txs |-> 0]
    /\ edits = 0 /\ crashes = 0

-----------------------------------------------------------------------------
\* Student authority rows stay locked from the eligibility read to COMMIT.
Locked(s) == \E h \in Handlers : /\ handler[h].pc = "settling"
                                 /\ order[handler[h].tx].student = s

Eligible(s) == expires[s] > now

\* The reservation query of createCheckout: rows that still block a new charge.
Blocking(t) == status[t] = "pending" \/ (status[t] = "failed" /\ init[t] # "null")

\* Mutated: a reservation without an authorization URL is overlooked.
PriorWithUrl(s, p) == {t \in url : /\ Blocking(t)
                                   /\ order[t].student = s /\ order[t].product = p}

Prior(s, p) == {t \in Txs : /\ Blocking(t)
                            /\ order[t].student = s /\ order[t].product = p}

\* POST /checkout.  With a prior reservation the handler answers its URL or a
\* conflict and writes nothing; otherwise it inserts the row, commits and
\* calls Paystack.
CreateCheckout(h, s, p) ==
    /\ handler[h].pc = "idle"
    /\ ~Locked(s)
    /\ Eligible(s)
    /\ listing[p].live /\ listing[p].stock > 0
    /\ Prior(s, p) = {}
    /\ \E t \in Txs :
          /\ status[t] = "absent"
          /\ status' = [status EXCEPT ![t] = "pending"]
          /\ init' = [init EXCEPT ![t] = "initializing"]
          /\ order' = [order EXCEPT ![t] = [student |-> s, product |-> p,
                                            quote |-> listing[p].quote]]
          /\ handler' = [handler EXCEPT ![h] = [pc |-> "initializing", tx |-> t, until |-> 0]]
          /\ charge' = [charge EXCEPT ![t] = "inflight"]
    /\ UNCHANGED <<url, consumed, credit, reason, outbox, listing, savings,
                   expires, now, paid, edits, crashes, supply>>

\* The reply named an authorization URL: an unconditional UPDATE of the row.
RecordInitialized(h) ==
    LET t == handler[h].tx IN
    /\ handler[h].pc = "initializing"
    /\ charge[t] \in {"open", "captured"}
    /\ init' = [init EXCEPT ![t] = "initialized"]
    /\ url' = url \cup {t}
    /\ handler' = [handler EXCEPT ![h] = Idle]
    /\ UNCHANGED <<status, order, consumed, credit, reason, outbox, listing, savings,
                   expires, now, providerVars, edits, crashes, supply>>

\* PaystackInitializationRejectedError: the reservation is given up.
RecordRejected(h) ==
    LET t == handler[h].tx IN
    /\ handler[h].pc = "initializing"
    /\ charge[t] = "rejected"
    /\ IF status[t] = "pending"
       THEN /\ status' = [status EXCEPT ![t] = "failed"]
            /\ init' = [init EXCEPT ![t] = "null"]
       ELSE UNCHANGED <<status, init>>
    /\ handler' = [handler EXCEPT ![h] = Idle]
    /\ UNCHANGED <<url, order, consumed, credit, reason, outbox, listing, savings,
                   expires, now, providerVars, edits, crashes, supply>>

\* Mutated: an unknown outcome is taken for a rejection.
RecordUnknownAsFailed(h) ==
    LET t == handler[h].tx IN
    /\ handler[h].pc = "initializing"
    /\ status' = [status EXCEPT ![t] = IF @ = "pending" THEN "failed" ELSE @]
    /\ init' = [init EXCEPT ![t] = "null"]
    /\ handler' = [handler EXCEPT ![h] = Idle]
    /\ UNCHANGED <<url, order, consumed, credit, reason, outbox, listing, savings,
                   expires, now, providerVars, edits, crashes, supply>>

\* A timeout, a network failure or an ambiguous reply: Paystack may or may not
\* hold the charge, so the reservation keeps blocking.
RecordUnknown(h) ==
    LET t == handler[h].tx IN
    /\ handler[h].pc = "initializing"
    /\ IF status[t] \in {"pending", "failed"}
       THEN init' = [init EXCEPT ![t] = "unknown"]
       ELSE UNCHANGED init
    /\ handler' = [handler EXCEPT ![h] = Idle]
    /\ UNCHANGED <<status, url, order, consumed, credit, reason, outbox, listing, savings,
                   expires, now, providerVars, edits, crashes, supply>>

-----------------------------------------------------------------------------
\* Paystack decides a request that reached it; a lost one stays in flight.
ProviderDecides(t) ==
    /\ charge[t] = "inflight"
    /\ \E c \in {"open", "rejected"} : charge' = [charge EXCEPT ![t] = c]
    /\ UNCHANGED <<rowVars, listing, savings, expires, now, handler, paid,
                   edits, crashes, supply>>

\* The student pays: short, exact, or with gateway fees on top.
Capture(t) ==
    /\ charge[t] = "open"
    /\ charge' = [charge EXCEPT ![t] = "captured"]
    /\ \E x \in {order[t].quote.price + d : d \in -1..1} :
          paid' = [paid EXCEPT ![t] = x]
    /\ UNCHANGED <<rowVars, listing, savings, expires, now, handler,
                   edits, crashes, supply>>

-----------------------------------------------------------------------------
\* A signed charge.success webhook, or a status poll that Paystack confirms:
\* find the row, lock the student's authority rows and read eligibility.
BeginSettle(h, t) ==
    LET s == order[t].student IN
    /\ handler[h].pc = "idle"
    /\ charge[t] = "captured"
    /\ ~Locked(s)
    /\ handler' = [handler EXCEPT ![h] =
          [pc |-> "settling", tx |-> t, until |-> IF Eligible(s) THEN expires[s] ELSE 0]]
    /\ UNCHANGED <<rowVars, listing, savings, expires, now, providerVars,
                   edits, crashes, supply>>

\* Mutated: a payment short by one passes; the deadline is not rechecked.
UnderpaidByTwo(t) == paid[t] < order[t].quote.price - 1
EverEligible(h) == handler[h].until > 0

Unsettled(t) == status[t] \in {"pending", "failed"}
Underpaid(t) == paid[t] < order[t].quote.price
Current(h) == handler[h].until > now
Sellable(p) == listing[p].live /\ listing[p].stock > 0

\* Every settlement ends its handler; it writes nothing but the row's outcome.
Settling(h, t) ==
    /\ handler[h].pc = "settling"
    /\ handler[h].tx = t
    /\ handler' = [handler EXCEPT ![h] = Idle]
    /\ UNCHANGED <<init, url, order, expires, now, providerVars, edits, crashes, supply>>

\* The row was settled before: report it, change nothing.
SettleReplay(h, t) ==
    /\ Settling(h, t)
    /\ ~Unsettled(t)
    /\ UNCHANGED <<status, consumed, credit, reason, outbox, listing, savings>>

\* Mutated: the queue entry is written, the row is left as it was.
QueueOnly(t, why) ==
    /\ reason' = [reason EXCEPT ![t] = why]
    /\ UNCHANGED <<status, consumed, credit, outbox, listing, savings>>

\* Money was captured and the deal cannot be honoured: queue it for an operator.
QueueRefund(t, why) ==
    /\ status' = [status EXCEPT ![t] = "requires_refund"]
    /\ reason' = [reason EXCEPT ![t] = why]
    /\ UNCHANGED <<consumed, credit, outbox, listing, savings>>

SettleUnderpaid(h, t) ==
    /\ Settling(h, t)
    /\ Unsettled(t)
    /\ Underpaid(t)
    /\ QueueRefund(t, "amount_mismatch")

SettleIneligible(h, t) ==
    /\ Settling(h, t)
    /\ Unsettled(t)
    /\ ~Underpaid(t) /\ ~Current(h)
    /\ QueueRefund(t, "eligibility_not_current")

SettleUnavailable(h, t) ==
    /\ Settling(h, t)
    /\ Unsettled(t)
    /\ ~Underpaid(t) /\ Current(h) /\ ~Sellable(order[t].product)
    /\ QueueRefund(t, "stock_unavailable")

Fulfil(t, delta) ==
    /\ status' = [status EXCEPT ![t] = "completed"]
    /\ consumed' = consumed \cup {t}
    /\ credit' = [credit EXCEPT ![t] = delta]
    /\ listing' = [listing EXCEPT ![order[t].product].stock = @ - 1]
    /\ savings' = [savings EXCEPT ![order[t].student] =
                      [total |-> @.total + delta, purchases |-> @.purchases + 1]]
    /\ outbox' = outbox \cup {t}
    /\ UNCHANGED reason

\* Mutated: the saving is computed from today's list price; a replay completes again.
SettleCompleteLivePrice(h, t) ==
    /\ Settling(h, t)
    /\ Unsettled(t)
    /\ ~Underpaid(t) /\ Current(h) /\ Sellable(order[t].product)
    /\ Fulfil(t, listing[order[t].product].quote.list - order[t].quote.price)

SettleCompleteAgain(h, t) ==
    /\ Settling(h, t)
    /\ ~Underpaid(t) /\ Current(h) /\ Sellable(order[t].product)
    /\ Fulfil(t, order[t].quote.list - order[t].quote.price)

\* The sale.  The code also undoes the stock decrement when the row turns out
\* settled after all; its row lock makes that branch unreachable.
SettleComplete(h, t) ==
    /\ Settling(h, t)
    /\ Unsettled(t)
    /\ ~Underpaid(t) /\ Current(h) /\ Sellable(order[t].product)
    /\ Fulfil(t, order[t].quote.list - order[t].quote.price)

Settle(h, t) == \/ SettleReplay(h, t)
                \/ SettleUnderpaid(h, t)
                \/ SettleIneligible(h, t)
                \/ SettleUnavailable(h, t)
                \/ SettleComplete(h, t)

\* A handler dies or its statement fails: its transaction rolls back, its
\* locks are released, an initialization it was waiting for goes unrecorded.
Crash(h) ==
    /\ handler[h].pc # "idle"
    /\ crashes < MaxCrashes
    /\ crashes' = crashes + 1
    /\ handler' = [handler EXCEPT ![h] = Idle]
    /\ UNCHANGED <<rowVars, listing, savings, expires, now, providerVars, edits, supply>>

-----------------------------------------------------------------------------
\* Eligibility changes take the same student locks; expiry needs no writer.
GrantEligibility(s) ==
    /\ ~Locked(s) /\ ~Eligible(s)
    /\ expires' = [expires EXCEPT ![s] = now + EligibilityTerm]
    /\ UNCHANGED <<rowVars, listing, savings, now, handler, providerVars,
                   edits, crashes, supply>>

WithdrawEligibility(s) ==
    /\ ~Locked(s) /\ Eligible(s)
    /\ expires' = [expires EXCEPT ![s] = 0]
    /\ UNCHANGED <<rowVars, listing, savings, now, handler, providerVars,
                   edits, crashes, supply>>

Tick ==
    /\ now < MaxNow
    /\ now' = now + 1
    /\ UNCHANGED <<rowVars, listing, savings, expires, handler, providerVars,
                   edits, crashes, supply>>

Sold(p) == {t \in consumed : order[t].product = p}

\* A vendor edits the listing (stock is overwritten, not adjusted; either price
\* may move, the student price never above the list price), or the vendor or
\* product is suspended, deleted or restored.
EditListing(p) ==
    /\ edits < MaxEdits
    /\ edits' = edits + 1
    /\ \E l \in BOOLEAN, n \in 0..MaxStock, q \in Quotes :
          /\ listing' = [listing EXCEPT ![p] = [live |-> l, stock |-> n, quote |-> q]]
          /\ supply' = [supply EXCEPT ![p] = n + Cardinality(Sold(p))]
    /\ UNCHANGED <<rowVars, savings, expires, now, handler, providerVars, crashes>>

Next ==
    \/ \E h \in Handlers, s \in Students, p \in Products : CreateCheckout(h, s, p)
    \/ \E h \in Handlers : RecordInitialized(h) \/ RecordRejected(h) \/ RecordUnknown(h) \/ Crash(h)
    \/ \E t \in Txs : ProviderDecides(t) \/ Capture(t)
    \/ \E h \in Handlers, t \in Txs : BeginSettle(h, t) \/ Settle(h, t)
    \/ \E s \in Students : GrantEligibility(s) \/ WithdrawEligibility(s)
    \/ \E p \in Products : EditListing(p)
    \/ Tick

Spec == Init /\ [][Next]_vars

\* Handlers run to an end, and Paystack redelivers a captured charge until a
\* delivery is acknowledged.
Fairness ==
    /\ \A h \in Handlers, t \in Txs : WF_vars(Settle(h, t))
    /\ \A h \in Handlers : WF_vars(RecordUnknown(h))
    /\ \A t \in Txs : SF_vars(Unsettled(t) /\ \E h \in Handlers : BeginSettle(h, t))

FairSpec == Spec /\ Fairness

-----------------------------------------------------------------------------
\* A charge the student can still be billed for, or was billed for and not answered.
LiveCharge(t) == \/ charge[t] \in {"inflight", "open"}
                 \/ charge[t] = "captured" /\ Unsettled(t)

\* Two requests, a timeout or a crash never leave one student with two live
\* charges for one product: the reservation outlives every unknown outcome.
OneLiveCharge ==
    \A t1, t2 \in Txs :
        /\ t1 # t2
        /\ order[t1].student = order[t2].student /\ order[t1].product = order[t2].product
        => ~ (LiveCharge(t1) /\ LiveCharge(t2))

\* Why that is so: a row is given up only when Paystack refused it,
RejectedOnly == \A t \in Txs : status[t] = "failed" => charge[t] = "rejected"

\* only the request that reserved a row reports on it, and before it failed,
SoleReporter ==
    \A g \in Handlers : handler[g].pc = "initializing" =>
        /\ status[handler[g].tx] # "failed"
        /\ \A h \in Handlers :
              handler[h].pc = "initializing" /\ handler[h].tx = handler[g].tx => h = g

\* a settlement runs on captured money and holds the eligibility it saw fixed,
HoldsEligibility ==
    \A h \in Handlers : handler[h].pc = "settling" =>
        /\ charge[handler[h].tx] = "captured"
        /\ handler[h].until \in {0, expires[order[handler[h].tx].student]}

\* and so the reservation query finds every row that may still be charged.
OneOpen ==
    \A t1, t2 \in Txs :
        /\ t1 # t2 /\ Blocking(t1) /\ Blocking(t2)
        => <<order[t1].student, order[t1].product>> # <<order[t2].student, order[t2].product>>

Reserved == RejectedOnly /\ SoleReporter /\ HoldsEligibility /\ OneOpen

\* Every unit offered is either still in stock or consumed by exactly one
\* completed transaction, whatever settlements and vendor edits interleave.
StockConserved ==
    /\ \A p \in Products : supply[p] = listing[p].stock + Cardinality(Sold(p))
    /\ consumed = {t \in Txs : status[t] = "completed"}

Bought(s) == {t \in Txs : status[t] = "completed" /\ order[t].student = s}

\* What a student saved, unit by unit: the n-th unit of the list price quoted
\* for t was not asked for.
SavedUnits(s) == UNION {{t} \X ((order[t].quote.price + 1)..order[t].quote.list) : t \in Bought(s)}

\* savings_stats is the exact sum of the credits of the student's completed
\* transactions, each the discount quoted when the charge was opened, whatever
\* the vendor does to the list price or the student price before settlement.
SavingsMatch ==
    \A s \in Students : /\ savings[s].purchases = Cardinality(Bought(s))
                        /\ savings[s].total = Cardinality(SavedUnits(s))

\* Captured money ends in a purchase paid in full or in a queue entry that an
\* operator sees; neither is ever recorded for money Paystack did not capture.
MoneyAccounted ==
    \A t \in Txs :
        /\ status[t] = "completed" => charge[t] = "captured" /\ paid[t] >= order[t].quote.price
        /\ status[t] = "requires_refund" => charge[t] = "captured"
        /\ (reason[t] # "none") <=> (status[t] = "requires_refund")
        /\ (t \in outbox) <=> (status[t] = "completed")

\* A discount is only ever handed to a student who is eligible at that very
\* moment, although eligibility was read before the row locks were granted.
CompletionEligible ==
    [][\A t \in Txs : status[t] # "completed" /\ status'[t] = "completed"
                      => Eligible(order[t].student)]_vars

\* A replayed webhook, a late poll or a late initialization reply never
\* reopens, completes again or re-credits a settled transaction.
SettledIsFinal ==
    [][\A t \in Txs : ~Unsettled(t) /\ status[t] # "absent" =>
          /\ status'[t] = status[t] /\ credit'[t] = credit[t] /\ reason'[t] = reason[t]
          /\ order'[t] = order[t] /\ (t \in consumed <=> t \in consumed')]_vars

\* Every captured charge is eventually settled one way or the other.
CapturedSettles == \A t \in Txs : charge[t] = "captured" ~> ~Unsettled(t)
=============================================================================
