---------------------------- MODULE CheckoutProofs ----------------------------
(***************************************************************************)
(* Machine-checked proofs about Checkout, for any students, products,      *)
(* handlers, rows, prices and bounds.                                      *)
(***************************************************************************)
EXTENDS CheckoutLedger, FiniteSetTheorems, TLAPS

-----------------------------------------------------------------------------
\* The transactions that consumed a unit of a product are finitely many.
LEMMA SoldFinite ==
    ASSUME TypeOK, NEW p \in Products PROVE IsFiniteSet(Sold(p))
  BY CheckoutAssumption, FS_Subset DEF TypeOK, Sold

\* What a sale reads and writes, but for the listing, the savings and the credit.
LEMMA Completed ==
    ASSUME NEW h \in Handlers, NEW t \in Txs, SettleComplete(h, t)
    PROVE  /\ handler[h].pc = "settling" /\ handler[h].tx = t
           /\ handler' = [handler EXCEPT ![h] = Idle]
           /\ Unsettled(t) /\ ~Underpaid(t) /\ Current(h) /\ Sellable(order[t].product)
           /\ status' = [status EXCEPT ![t] = "completed"]
           /\ consumed' = consumed \cup {t} /\ outbox' = outbox \cup {t}
           /\ UNCHANGED <<init, url, order, reason, expires, now, charge, paid, edits, crashes, supply>>
  BY DEF SettleComplete, Settling, Fulfil, providerVars

\* One unit fewer is still a listing.
LEMMA OneFewer ==
    ASSUME NEW l \in [live : BOOLEAN, stock : Nat, quote : Quotes], l.stock - 1 \in Nat
    PROVE  [l EXCEPT !.stock = @ - 1] \in [live : BOOLEAN, stock : Nat, quote : Quotes]
  OBVIOUS

\* The type invariant: every row, listing and handler stays well formed.
THEOREM Typed == Spec => []TypeOK
<1> USE CheckoutAssumption DEF Fulfil
<1>1. Init => TypeOK
  BY DEF Init, TypeOK, NoOrder, Idle
<1>2. TypeOK /\ [Next]_vars => TypeOK'
  <2> SUFFICES ASSUME TypeOK, [Next]_vars PROVE TypeOK'
    OBVIOUS
  <2> USE DEF TypeOK, Orders, NoOrder, Idle, Reasons
  <2>1. ASSUME NEW h \in Handlers, NEW s \in Students, NEW p \in Products,
               CreateCheckout(h, s, p)
        PROVE TypeOK'
    BY <2>1 DEF CreateCheckout
  <2>2. ASSUME NEW h \in Handlers, RecordInitialized(h) PROVE TypeOK'
    BY <2>2 DEF RecordInitialized, providerVars
  <2>3. ASSUME NEW h \in Handlers, RecordRejected(h) PROVE TypeOK'
    <3> DEFINE t == handler[h].tx
    <3>1. t \in Txs /\ status[t] # "absent" /\ handler[h].pc # "idle"
      BY <2>3 DEF RecordRejected
    <3>2. CASE status[t] = "pending"
      <4>1. /\ status' = [status EXCEPT ![t] = "failed"]
            /\ init' = [init EXCEPT ![t] = "null"]
            /\ handler' = [handler EXCEPT ![h] = Idle]
            /\ UNCHANGED <<url, order, consumed, credit, reason, outbox, listing, savings,
                           expires, now, charge, paid, edits, crashes, supply>>
        BY <2>3, <3>2 DEF RecordRejected, providerVars
      <4> HIDE DEF t
      <4> QED
        BY <3>1, <4>1
    <3>3. CASE status[t] # "pending"
      BY <2>3, <3>1, <3>3 DEF RecordRejected, providerVars
    <3> QED
      BY <3>2, <3>3
  <2>4. ASSUME NEW h \in Handlers, RecordUnknown(h) PROVE TypeOK'
    <3> DEFINE t == handler[h].tx
    <3>1. t \in Txs
      BY <2>4 DEF RecordUnknown
    <3>2. init' \in [Txs -> {"null", "initializing", "initialized", "unknown"}]
      BY <2>4, <3>1 DEF RecordUnknown
    <3> QED
      BY <2>4, <3>2 DEF RecordUnknown, providerVars
  <2>5. ASSUME NEW h \in Handlers, Crash(h) PROVE TypeOK'
    BY <2>5 DEF Crash, providerVars, rowVars
  <2>6. ASSUME NEW t \in Txs, ProviderDecides(t) PROVE TypeOK'
    BY <2>6 DEF ProviderDecides, rowVars
  <2>7. ASSUME NEW t \in Txs, Capture(t) PROVE TypeOK'
    <3>1. order[t].quote.price \in Nat \ {0}
      BY <2>7 DEF Capture
    <3> QED
      BY <2>7, <3>1 DEF Capture, rowVars
  <2>8. ASSUME NEW h \in Handlers, NEW t \in Txs, BeginSettle(h, t) PROVE TypeOK'
    BY <2>8 DEF BeginSettle, rowVars, providerVars
  <2>9. ASSUME NEW h \in Handlers, NEW t \in Txs, Settle(h, t) PROVE TypeOK'
    <3> USE DEF Settling, rowVars, providerVars
    <3>1. CASE SettleReplay(h, t)
      BY <3>1 DEF SettleReplay
    <3>2. ASSUME NEW why \in Reasons, Settling(h, t), QueueRefund(t, why) PROVE TypeOK'
      BY <3>2 DEF QueueRefund
    <3>3. CASE SettleComplete(h, t)
      <4>1. order[t] \in Orders
        BY <3>3 DEF SettleComplete, Unsettled
      <4>2. order[t].quote.list - order[t].quote.price \in Nat
        <5>1. PICK q \in Quotes : q = order[t].quote
          BY <4>1
        <5>2. q.list \in Nat /\ q.price \in Nat /\ q.price <= q.list
          BY <5>1
        <5> QED
          BY <5>1, <5>2
      <4>3. listing' \in [Products -> [live : BOOLEAN, stock : Nat, quote : Quotes]]
        <5>1. order[t].product \in Products /\ listing[order[t].product].stock \in Nat \ {0}
          BY <3>3, <4>1 DEF SettleComplete, Sellable
        <5>2. listing[order[t].product].stock - 1 \in Nat
          BY <5>1
        <5>3. PICK p \in Products : p = order[t].product
          BY <5>1
        <5>4. [listing[p] EXCEPT !.stock = @ - 1] \in [live : BOOLEAN, stock : Nat, quote : Quotes]
          <6>1. /\ listing[p] \in [live : BOOLEAN, stock : Nat, quote : Quotes]
                /\ listing[p].stock - 1 \in Nat
            BY <5>2, <5>3
          <6> QED
            BY ONLY <6>1, OneFewer
        <5>5. listing' = [listing EXCEPT ![p] = [listing[p] EXCEPT !.stock = @ - 1]]
          BY <3>3, <5>3 DEF SettleComplete
        <5> QED
          BY <5>4, <5>5
      <4>4. savings' \in [Students -> [total : Nat, purchases : Nat]]
        BY <3>3, <4>1, <4>2 DEF SettleComplete
      <4>5. /\ status' = [status EXCEPT ![t] = "completed"] /\ status[t] # "absent"
            /\ consumed' \subseteq Txs /\ outbox' \subseteq Txs
            /\ credit' \in [Txs -> Nat]
            /\ handler' = [handler EXCEPT ![h] = Idle]
            /\ UNCHANGED <<init, url, order, reason, expires, now, charge, paid,
                           edits, crashes, supply>>
        BY <3>3, <4>2 DEF SettleComplete, Unsettled
      <4> QED
        BY <4>3, <4>4, <4>5
    <3> QED
      BY <2>9, <3>1, <3>2, <3>3
      DEF Settle, SettleUnderpaid, SettleIneligible, SettleUnavailable
  <2>10. ASSUME NEW s \in Students, GrantEligibility(s) \/ WithdrawEligibility(s)
         PROVE TypeOK'
    <3>1. expires' \in [Students -> Nat]
      BY <2>10 DEF GrantEligibility, WithdrawEligibility
    <3> QED
      BY <2>10, <3>1 DEF GrantEligibility, WithdrawEligibility, rowVars, providerVars
  <2>11. ASSUME NEW p \in Products, EditListing(p) PROVE TypeOK'
    <3>1. Cardinality(Sold(p)) \in Nat
      BY SoldFinite, FS_CardinalityType
    <3> QED
      BY <2>11, <3>1 DEF EditListing, rowVars, providerVars
  <2>12. CASE Tick
    BY <2>12 DEF Tick, rowVars, providerVars
  <2>13. CASE UNCHANGED vars
    BY <2>13 DEF vars, rowVars, providerVars
  <2> QED
    BY <2>1, <2>2, <2>3, <2>4, <2>5, <2>6, <2>7, <2>8, <2>9, <2>10, <2>11, <2>12, <2>13
    DEF Next
<1> QED
  BY <1>1, <1>2, PTL DEF Spec

-----------------------------------------------------------------------------
\* The reservation discipline is inductive.
LEMMA StepReserved ==
    ASSUME TypeOK, TypeOK', Reserved, [Next]_vars PROVE Reserved'
<1> USE DEF Fulfil
<1> USE DEF RejectedOnly, SoleReporter, HoldsEligibility, OneOpen, Blocking
<1> USE DEF TypeOK, Idle, Reserved
<1>1. ASSUME NEW h \in Handlers, NEW s \in Students, NEW p \in Products,
             CreateCheckout(h, s, p)
      PROVE Reserved'
  <2>1. PICK t \in Txs :
          /\ status[t] = "absent" /\ charge[t] = "none"
          /\ status' = [status EXCEPT ![t] = "pending"]
          /\ init' = [init EXCEPT ![t] = "initializing"]
          /\ order' = [order EXCEPT ![t] = [student |-> s, product |-> p,
                                            quote |-> listing[p].quote]]
          /\ handler' = [handler EXCEPT ![h] = [pc |-> "initializing", tx |-> t, until |-> 0]]
          /\ charge' = [charge EXCEPT ![t] = "inflight"]
    BY <1>1 DEF CreateCheckout
  <2>2. expires' = expires
    BY <1>1 DEF CreateCheckout
  <2>3. \A u \in Txs : ~(Blocking(u) /\ order[u].student = s /\ order[u].product = p)
    BY <1>1 DEF CreateCheckout, Prior
  <2>4. RejectedOnly'
    BY <2>1
  <2>5. SoleReporter'
    BY <2>1
  <2>6. HoldsEligibility'
    BY <2>1, <2>2
  <2>7. OneOpen'
    BY <2>1, <2>3
  <2> QED
    BY <2>4, <2>5, <2>6, <2>7
<1>2. ASSUME NEW h \in Handlers, RecordInitialized(h) PROVE Reserved'
  BY <1>2 DEF RecordInitialized, providerVars
<1>3. ASSUME NEW h \in Handlers, RecordRejected(h) PROVE Reserved'
  BY <1>3 DEF RecordRejected, providerVars
<1>4. ASSUME NEW h \in Handlers, RecordUnknown(h) PROVE Reserved'
  BY <1>4 DEF RecordUnknown, providerVars
<1>5. ASSUME NEW h \in Handlers, Crash(h) PROVE Reserved'
  BY <1>5 DEF Crash, providerVars, rowVars
<1>6. ASSUME NEW t \in Txs, ProviderDecides(t) PROVE Reserved'
  BY <1>6 DEF ProviderDecides, rowVars
<1>7. ASSUME NEW t \in Txs, Capture(t) PROVE Reserved'
  BY <1>7 DEF Capture, rowVars
<1>8. ASSUME NEW h \in Handlers, NEW t \in Txs, BeginSettle(h, t) PROVE Reserved'
  BY <1>8 DEF BeginSettle, rowVars, providerVars
<1>9. ASSUME NEW h \in Handlers, NEW t \in Txs, Settle(h, t) PROVE Reserved'
  <2> USE DEF Settling, rowVars, providerVars
  <2>1. CASE SettleReplay(h, t)
    BY <2>1 DEF SettleReplay
  <2>2. ASSUME NEW why \in Reasons, Settling(h, t), QueueRefund(t, why) PROVE Reserved'
    BY <2>2 DEF QueueRefund
  <2>3. CASE SettleComplete(h, t)
    <3>0. /\ status' = [status EXCEPT ![t] = "completed"]
          /\ handler' = [handler EXCEPT ![h] = Idle]
          /\ Unsettled(t)
          /\ UNCHANGED <<init, order, expires, charge>>
      BY <2>3, Completed
    <3>1. RejectedOnly'
      BY <3>0
    <3>2. SoleReporter'
      BY <3>0
    <3>3. HoldsEligibility'
      BY <3>0
    <3>4. OneOpen'
      BY <3>0
    <3> QED
      BY <3>1, <3>2, <3>3, <3>4
  <2> QED
    BY <1>9, <2>1, <2>2, <2>3
    DEF Settle, SettleUnderpaid, SettleIneligible, SettleUnavailable, Reasons
<1>10. ASSUME NEW s \in Students, GrantEligibility(s) \/ WithdrawEligibility(s)
       PROVE Reserved'
  <2>1. /\ \A u \in Students : u # s => expires'[u] = expires[u]
        /\ \A h \in Handlers : handler[h].pc = "settling" => order[handler[h].tx].student # s
        /\ UNCHANGED <<status, init, order, handler, charge>>
    BY <1>10 DEF GrantEligibility, WithdrawEligibility, Locked, rowVars, providerVars
  <2>2. \A h \in Handlers : handler[h].pc = "settling" => order[handler[h].tx].student \in Students
    BY DEF Orders
  <2>3. HoldsEligibility'
    BY <2>1, <2>2
  <2> QED
    BY <2>1, <2>3
<1>11. ASSUME NEW p \in Products, EditListing(p) PROVE Reserved'
  BY <1>11 DEF EditListing, rowVars, providerVars
<1>12. CASE Tick
  BY <1>12 DEF Tick, rowVars, providerVars
<1>13. CASE UNCHANGED vars
  BY <1>13 DEF vars, rowVars, providerVars
<1> QED
  BY <1>1, <1>2, <1>3, <1>4, <1>5, <1>6, <1>7, <1>8, <1>9, <1>10, <1>11, <1>12, <1>13
  DEF Next

\* The reservation discipline holds of every behaviour.
THEOREM ReservationHolds == Spec => []Reserved
<1>1. Init => Reserved
  BY DEF Init, Reserved, RejectedOnly, SoleReporter, HoldsEligibility, OneOpen, Blocking, Idle
<1> QED
  BY <1>1, StepReserved, Typed, PTL DEF Spec

-----------------------------------------------------------------------------
\* Settlement records money only when Paystack captured it.
LEMMA StepMoney ==
    ASSUME TypeOK, TypeOK', Reserved, MoneyAccounted, [Next]_vars PROVE MoneyAccounted'
<1> USE DEF Fulfil
<1> USE DEF TypeOK, Reserved, HoldsEligibility, MoneyAccounted, Unsettled, Idle
<1>1. ASSUME NEW h \in Handlers, NEW s \in Students, NEW p \in Products,
             CreateCheckout(h, s, p)
      PROVE MoneyAccounted'
  BY <1>1 DEF CreateCheckout
<1>2. ASSUME NEW h \in Handlers, RecordInitialized(h) PROVE MoneyAccounted'
  BY <1>2 DEF RecordInitialized, rowVars, providerVars
<1>3. ASSUME NEW h \in Handlers, RecordRejected(h) PROVE MoneyAccounted'
  BY <1>3 DEF RecordRejected, rowVars, providerVars
<1>4. ASSUME NEW h \in Handlers, RecordUnknown(h) PROVE MoneyAccounted'
  BY <1>4 DEF RecordUnknown, rowVars, providerVars
<1>5. ASSUME NEW h \in Handlers, Crash(h) PROVE MoneyAccounted'
  BY <1>5 DEF Crash, rowVars, providerVars
<1>6. ASSUME NEW t \in Txs, ProviderDecides(t) PROVE MoneyAccounted'
  BY <1>6 DEF ProviderDecides, rowVars
<1>7. ASSUME NEW t \in Txs, Capture(t) PROVE MoneyAccounted'
  BY <1>7 DEF Capture, rowVars
<1>8. ASSUME NEW h \in Handlers, NEW t \in Txs, BeginSettle(h, t) PROVE MoneyAccounted'
  BY <1>8 DEF BeginSettle, rowVars, providerVars
<1>9. ASSUME NEW h \in Handlers, NEW t \in Txs, Settle(h, t) PROVE MoneyAccounted'
  <2> USE DEF Settling, rowVars, providerVars
  <2>1. CASE SettleReplay(h, t)
    BY <2>1 DEF SettleReplay
  <2>2. ASSUME NEW why \in Reasons, Settling(h, t), Unsettled(t), QueueRefund(t, why)
        PROVE MoneyAccounted'
    BY <2>2 DEF QueueRefund, Reasons
  <2>3. CASE SettleComplete(h, t)
    <3>1. paid[t] \in Nat /\ order[t].quote.price \in Nat
      BY <2>3, Completed, CheckoutAssumption DEF Orders
    <3>0. /\ handler[h].pc = "settling" /\ handler[h].tx = t /\ ~Underpaid(t) /\ Unsettled(t)
          /\ status' = [status EXCEPT ![t] = "completed"] /\ outbox' = outbox \cup {t}
          /\ UNCHANGED <<order, charge, paid, reason>>
      BY <2>3, Completed
    <3>2. paid[t] >= order[t].quote.price /\ charge[t] = "captured"
      BY <3>0, <3>1 DEF Underpaid
    <3> QED
      BY <3>0, <3>2
  <2> QED
    BY <1>9, <2>1, <2>2, <2>3
    DEF Settle, SettleUnderpaid, SettleIneligible, SettleUnavailable, Reasons
<1>10. ASSUME NEW s \in Students, GrantEligibility(s) \/ WithdrawEligibility(s)
       PROVE MoneyAccounted'
  BY <1>10 DEF GrantEligibility, WithdrawEligibility, rowVars, providerVars
<1>11. ASSUME NEW p \in Products, EditListing(p) PROVE MoneyAccounted'
  BY <1>11 DEF EditListing, rowVars, providerVars
<1>12. CASE Tick
  BY <1>12 DEF Tick, rowVars, providerVars
<1>13. CASE UNCHANGED vars
  BY <1>13 DEF vars, rowVars, providerVars
<1> QED
  BY <1>1, <1>2, <1>3, <1>4, <1>5, <1>6, <1>7, <1>8, <1>9, <1>10, <1>11, <1>12, <1>13
  DEF Next

\* Captured money ends in a purchase paid in full or in the refund queue.
THEOREM MoneyHolds == Spec => []MoneyAccounted
<1>1. Init => MoneyAccounted
  BY DEF Init, MoneyAccounted
<1> QED
  BY <1>1, StepMoney, ReservationHolds, Typed, PTL DEF Spec

\* One student never has two live charges for one product.
THEOREM OneLiveChargeHolds == Spec => []OneLiveCharge
<1>1. TypeOK /\ Reserved /\ MoneyAccounted => OneLiveCharge
  <2> SUFFICES ASSUME TypeOK, Reserved, MoneyAccounted PROVE OneLiveCharge
    OBVIOUS
  <2>1. ASSUME NEW t \in Txs, LiveCharge(t) PROVE Blocking(t)
    BY <2>1 DEF TypeOK, Reserved, RejectedOnly, MoneyAccounted, LiveCharge, Blocking, Unsettled
  <2> QED
    BY <2>1 DEF OneLiveCharge, Reserved, OneOpen
<1> QED
  BY <1>1, MoneyHolds, ReservationHolds, Typed, PTL

-----------------------------------------------------------------------------
\* Settled rows are left alone by every step.
LEMMA StepFinal ==
    ASSUME TypeOK, Reserved, [Next]_vars, NEW u \in Txs,
           ~Unsettled(u), status[u] # "absent"
    PROVE  /\ status'[u] = status[u] /\ credit'[u] = credit[u] /\ reason'[u] = reason[u]
           /\ order'[u] = order[u] /\ (u \in consumed <=> u \in consumed')
<1> USE DEF Fulfil
<1> DEFINE Goal == /\ status'[u] = status[u] /\ credit'[u] = credit[u] /\ reason'[u] = reason[u]
                   /\ order'[u] = order[u] /\ (u \in consumed <=> u \in consumed')
<1> SUFFICES Goal
  OBVIOUS
<1> USE DEF TypeOK, Unsettled
<1>1. ASSUME NEW h \in Handlers, NEW s \in Students, NEW p \in Products,
             CreateCheckout(h, s, p)
      PROVE Goal
  BY <1>1 DEF CreateCheckout
<1>2. ASSUME NEW h \in Handlers, RecordInitialized(h) PROVE Goal
  BY <1>2 DEF RecordInitialized, rowVars, providerVars
<1>3. ASSUME NEW h \in Handlers, RecordRejected(h) PROVE Goal
  BY <1>3 DEF RecordRejected, rowVars, providerVars
<1>4. ASSUME NEW h \in Handlers, RecordUnknown(h) PROVE Goal
  BY <1>4 DEF RecordUnknown, rowVars, providerVars
<1>5. ASSUME NEW h \in Handlers, Crash(h) PROVE Goal
  BY <1>5 DEF Crash, rowVars, providerVars
<1>6. ASSUME NEW t \in Txs, ProviderDecides(t) PROVE Goal
  BY <1>6 DEF ProviderDecides, rowVars
<1>7. ASSUME NEW t \in Txs, Capture(t) PROVE Goal
  BY <1>7 DEF Capture, rowVars
<1>8. ASSUME NEW h \in Handlers, NEW t \in Txs, BeginSettle(h, t) PROVE Goal
  BY <1>8 DEF BeginSettle, rowVars, providerVars
<1>9. ASSUME NEW h \in Handlers, NEW t \in Txs, Settle(h, t) PROVE Goal
  <2> USE DEF Settling, rowVars, providerVars
  <2>1. CASE SettleReplay(h, t)
    BY <2>1 DEF SettleReplay
  <2>2. ASSUME NEW why \in Reasons, Settling(h, t), Unsettled(t), QueueRefund(t, why)
        PROVE Goal
    BY <2>2 DEF QueueRefund
  <2>3. CASE SettleComplete(h, t)
    BY <2>3 DEF SettleComplete
  <2> QED
    BY <1>9, <2>1, <2>2, <2>3
    DEF Settle, SettleUnderpaid, SettleIneligible, SettleUnavailable, Reasons
<1>10. ASSUME NEW s \in Students, GrantEligibility(s) \/ WithdrawEligibility(s)
       PROVE Goal
  BY <1>10 DEF GrantEligibility, WithdrawEligibility, rowVars, providerVars
<1>11. ASSUME NEW p \in Products, EditListing(p) PROVE Goal
  BY <1>11 DEF EditListing, rowVars, providerVars
<1>12. CASE Tick
  BY <1>12 DEF Tick, rowVars, providerVars
<1>13. CASE UNCHANGED vars
  BY <1>13 DEF vars, rowVars, providerVars
<1> QED
  BY <1>1, <1>2, <1>3, <1>4, <1>5, <1>6, <1>7, <1>8, <1>9, <1>10, <1>11, <1>12, <1>13
  DEF Next

\* Replays, late polls and late provider replies never touch a settled row.
THEOREM SettledIsFinalHolds == Spec => SettledIsFinal
<1>1. TypeOK /\ Reserved /\ [Next]_vars =>
        [\A t \in Txs : ~Unsettled(t) /\ status[t] # "absent" =>
          /\ status'[t] = status[t] /\ credit'[t] = credit[t] /\ reason'[t] = reason[t]
          /\ order'[t] = order[t] /\ (t \in consumed <=> t \in consumed')]_vars
  BY StepFinal
<1> QED
  BY <1>1, ReservationHolds, Typed, PTL DEF Spec, SettledIsFinal

\* A row becomes completed only while its student is eligible.
LEMMA StepEligible ==
    ASSUME TypeOK, Reserved, [Next]_vars, NEW u \in Txs,
           status[u] # "completed", status'[u] = "completed"
    PROVE  Eligible(order[u].student)
<1> USE DEF Fulfil
<1> DEFINE Goal == Eligible(order[u].student)
<1> SUFFICES Goal
  OBVIOUS
<1> USE DEF TypeOK
<1>1. ASSUME NEW h \in Handlers, NEW s \in Students, NEW p \in Products,
             CreateCheckout(h, s, p)
      PROVE Goal
  BY <1>1 DEF CreateCheckout
<1>2. ASSUME NEW h \in Handlers, RecordInitialized(h) PROVE Goal
  BY <1>2 DEF RecordInitialized, rowVars, providerVars
<1>3. ASSUME NEW h \in Handlers, RecordRejected(h) PROVE Goal
  BY <1>3 DEF RecordRejected, rowVars, providerVars
<1>4. ASSUME NEW h \in Handlers, RecordUnknown(h) PROVE Goal
  BY <1>4 DEF RecordUnknown, rowVars, providerVars
<1>5. ASSUME NEW h \in Handlers, Crash(h) PROVE Goal
  BY <1>5 DEF Crash, rowVars, providerVars
<1>6. ASSUME NEW t \in Txs, ProviderDecides(t) PROVE Goal
  BY <1>6 DEF ProviderDecides, rowVars
<1>7. ASSUME NEW t \in Txs, Capture(t) PROVE Goal
  BY <1>7 DEF Capture, rowVars
<1>8. ASSUME NEW h \in Handlers, NEW t \in Txs, BeginSettle(h, t) PROVE Goal
  BY <1>8 DEF BeginSettle, rowVars, providerVars
<1>9. ASSUME NEW h \in Handlers, NEW t \in Txs, Settle(h, t) PROVE Goal
  <2> USE DEF Settling, rowVars, providerVars
  <2>1. CASE SettleReplay(h, t)
    BY <2>1 DEF SettleReplay
  <2>2. ASSUME NEW why \in Reasons, Settling(h, t), Unsettled(t), QueueRefund(t, why)
        PROVE Goal
    BY <2>2 DEF QueueRefund
  <2>3. CASE SettleComplete(h, t)
    <3>1. u = t /\ handler[h].pc = "settling" /\ handler[h].tx = t /\ handler[h].until > now
      BY <2>3 DEF SettleComplete, Current
    <3>2. handler[h].until \in {0, expires[order[t].student]}
      BY <3>1 DEF Reserved, HoldsEligibility
    <3> QED
      BY <3>1, <3>2 DEF Eligible
  <2> QED
    BY <1>9, <2>1, <2>2, <2>3
    DEF Settle, SettleUnderpaid, SettleIneligible, SettleUnavailable, Reasons
<1>10. ASSUME NEW s \in Students, GrantEligibility(s) \/ WithdrawEligibility(s)
       PROVE Goal
  BY <1>10 DEF GrantEligibility, WithdrawEligibility, rowVars, providerVars
<1>11. ASSUME NEW p \in Products, EditListing(p) PROVE Goal
  BY <1>11 DEF EditListing, rowVars, providerVars
<1>12. CASE Tick
  BY <1>12 DEF Tick, rowVars, providerVars
<1>13. CASE UNCHANGED vars
  BY <1>13 DEF vars, rowVars, providerVars
<1> QED
  BY <1>1, <1>2, <1>3, <1>4, <1>5, <1>6, <1>7, <1>8, <1>9, <1>10, <1>11, <1>12, <1>13
  DEF Next

\* Every completed sale went to a student eligible at that moment.
THEOREM CompletionEligibleHolds == Spec => CompletionEligible
<1>1. TypeOK /\ Reserved /\ [Next]_vars =>
        [\A t \in Txs : status[t] # "completed" /\ status'[t] = "completed"
                      => Eligible(order[t].student)]_vars
  BY StepEligible
<1> QED
  BY <1>1, ReservationHolds, Typed, PTL DEF Spec, CompletionEligible

-----------------------------------------------------------------------------
\* Adding a new member to a finite set adds one to its cardinality.
LEMMA OneMore ==
    ASSUME NEW S, NEW R, NEW x, IsFiniteSet(S), x \notin S, R = S \cup {x}
    PROVE  Cardinality(S) \in Nat /\ Cardinality(R) = Cardinality(S) + 1
  BY FS_CardinalityType, FS_AddElement

\* Steps that touch no stock and no completed row conserve stock.
LEMMA StockUntouched ==
    ASSUME TypeOK, StockConserved,
           UNCHANGED <<consumed, listing, supply>>,
           \A t \in Txs : (status'[t] = "completed") <=> (status[t] = "completed"),
           \A t \in consumed : order'[t] = order[t]
    PROVE  StockConserved'
<1>1. \A p \in Products : Sold(p)' = Sold(p)
  BY DEF Sold
<1> QED
  BY <1>1 DEF StockConserved

\* Every unit offered is in stock or consumed by one completed transaction.
LEMMA StepStock ==
    ASSUME TypeOK, TypeOK', StockConserved, [Next]_vars PROVE StockConserved'
<1> USE DEF Fulfil
<1> USE DEF TypeOK
<1>1. ASSUME NEW h \in Handlers, NEW s \in Students, NEW p \in Products,
             CreateCheckout(h, s, p)
      PROVE StockConserved'
  <2>1. PICK t \in Txs :
          /\ status[t] = "absent"
          /\ status' = [status EXCEPT ![t] = "pending"]
          /\ order' = [order EXCEPT ![t] = [student |-> s, product |-> p,
                                            quote |-> listing[p].quote]]
    BY <1>1 DEF CreateCheckout
  <2>2. t \notin consumed
    BY <2>1 DEF StockConserved
  <2> QED
    BY <1>1, <2>1, <2>2, StockUntouched DEF CreateCheckout
<1>2. ASSUME NEW h \in Handlers, RecordInitialized(h) PROVE StockConserved'
  BY <1>2, StockUntouched DEF RecordInitialized, rowVars, providerVars
<1>3. ASSUME NEW h \in Handlers, RecordRejected(h) PROVE StockConserved'
  BY <1>3, StockUntouched DEF RecordRejected, rowVars, providerVars
<1>4. ASSUME NEW h \in Handlers, RecordUnknown(h) PROVE StockConserved'
  BY <1>4, StockUntouched DEF RecordUnknown, rowVars, providerVars
<1>5. ASSUME NEW h \in Handlers, Crash(h) PROVE StockConserved'
  BY <1>5, StockUntouched DEF Crash, rowVars, providerVars
<1>6. ASSUME NEW t \in Txs, ProviderDecides(t) PROVE StockConserved'
  BY <1>6, StockUntouched DEF ProviderDecides, rowVars
<1>7. ASSUME NEW t \in Txs, Capture(t) PROVE StockConserved'
  BY <1>7, StockUntouched DEF Capture, rowVars
<1>8. ASSUME NEW h \in Handlers, NEW t \in Txs, BeginSettle(h, t) PROVE StockConserved'
  BY <1>8, StockUntouched DEF BeginSettle, rowVars, providerVars
<1>9. ASSUME NEW h \in Handlers, NEW t \in Txs, Settle(h, t) PROVE StockConserved'
  <2> USE DEF Settling, rowVars, providerVars
  <2>1. CASE SettleReplay(h, t)
    BY <2>1, StockUntouched DEF SettleReplay
  <2>2. ASSUME NEW why \in Reasons, Settling(h, t), Unsettled(t), QueueRefund(t, why)
        PROVE StockConserved'
    BY <2>2, StockUntouched DEF QueueRefund, Unsettled
  <2>3. CASE SettleComplete(h, t)
    <3>0. PICK q \in Products : q = order[t].product
      BY <2>3 DEF SettleComplete, Unsettled, Orders
    <3>1. t \notin consumed /\ listing[q].stock \in Nat
      BY <2>3 DEF SettleComplete, Unsettled, StockConserved
    <3>2. /\ listing'[q].stock = listing[q].stock - 1
          /\ \A p \in Products : p # q => listing'[p] = listing[p]
          /\ UNCHANGED <<order, supply>>
          /\ consumed' = consumed \cup {t}
      BY <2>3, <3>0 DEF SettleComplete
    <3>3. Sold(q)' = Sold(q) \cup {t} /\ t \notin Sold(q)
      BY <3>0, <3>1, <3>2 DEF Sold
    <3>4. \A p \in Products : p # q => Sold(p)' = Sold(p)
      BY <3>0, <3>2 DEF Sold
    <3>5. /\ Cardinality(Sold(q)) \in Nat
          /\ Cardinality(Sold(q)') = Cardinality(Sold(q)) + 1
      <4>1. IsFiniteSet(Sold(q))
        BY SoldFinite
      <4> QED
        BY <3>3, <4>1, OneMore
    <3>6. consumed' = {u \in Txs : status'[u] = "completed"}
      <4>1. status' = [status EXCEPT ![t] = "completed"]
        BY <2>3, Completed
      <4> QED
        BY <3>2, <4>1 DEF StockConserved
    <3>7. \A p \in Products : supply'[p] = listing'[p].stock + Cardinality(Sold(p)')
      <4>1. supply[q] = listing[q].stock + Cardinality(Sold(q))
        BY DEF StockConserved
      <4>2. supply'[q] = listing'[q].stock + Cardinality(Sold(q)')
        BY <3>1, <3>2, <3>5, <4>1
      <4>3. ASSUME NEW p \in Products, p # q
            PROVE  supply'[p] = listing'[p].stock + Cardinality(Sold(p)')
        BY <3>2, <3>4, <4>3 DEF StockConserved
      <4> QED
        BY <4>2, <4>3
    <3> QED
      BY <3>6, <3>7 DEF StockConserved
  <2> QED
    BY <1>9, <2>1, <2>2, <2>3
    DEF Settle, SettleUnderpaid, SettleIneligible, SettleUnavailable, Reasons
<1>10. ASSUME NEW s \in Students, GrantEligibility(s) \/ WithdrawEligibility(s)
       PROVE StockConserved'
  BY <1>10, StockUntouched DEF GrantEligibility, WithdrawEligibility, rowVars, providerVars
<1>11. ASSUME NEW p \in Products, EditListing(p) PROVE StockConserved'
  <2>1. PICK l \in BOOLEAN, n \in 0..MaxStock, quote \in Quotes :
          /\ listing' = [listing EXCEPT ![p] = [live |-> l, stock |-> n, quote |-> quote]]
          /\ supply' = [supply EXCEPT ![p] = n + Cardinality(Sold(p))]
    BY <1>11 DEF EditListing
  <2>2. UNCHANGED <<status, consumed, order>>
    BY <1>11 DEF EditListing, rowVars
  <2>3. \A q \in Products : Sold(q)' = Sold(q)
    BY <2>2 DEF Sold
  <2> QED
    BY <2>1, <2>2, <2>3 DEF StockConserved
<1>12. CASE Tick
  BY <1>12, StockUntouched DEF Tick, rowVars, providerVars
<1>13. CASE UNCHANGED vars
  BY <1>13, StockUntouched DEF vars, rowVars, providerVars
<1> QED
  BY <1>1, <1>2, <1>3, <1>4, <1>5, <1>6, <1>7, <1>8, <1>9, <1>10, <1>11, <1>12, <1>13
  DEF Next

\* Stock is conserved in every behaviour.
THEOREM StockHolds == Spec => []StockConserved
<1>1. Init => StockConserved
  <2> SUFFICES ASSUME Init PROVE StockConserved
    OBVIOUS
  <2>1. ASSUME NEW p \in Products PROVE supply[p] = listing[p].stock + Cardinality(Sold(p))
    <3>1. Sold(p) = {}
      BY DEF Init, Sold
    <3>2. Cardinality(Sold(p)) = 0
      BY <3>1, FS_EmptySet
    <3>3. PICK n \in 0..MaxStock : supply[p] = n /\ listing[p].stock = n
      BY DEF Init
    <3> QED
      BY <3>2, <3>3
  <2> QED
    BY <2>1 DEF Init, StockConserved
<1> QED
  BY <1>1, StepStock, Typed, PTL DEF Spec

-----------------------------------------------------------------------------
(* Savings.  The units a student saved are counted: a completed sale adds the *)
(* units of one more row, and nothing else changes them.                      *)

\* One row's share of the units saved.
LEMMA UnitsOf ==
    ASSUME NEW t, NEW a \in Nat, NEW b \in Nat, a <= b
    PROVE  IsFiniteSet({t} \X ((a + 1)..b)) /\ Cardinality({t} \X ((a + 1)..b)) = b - a
<1>1. IsFiniteSet((a + 1)..b) /\ Cardinality((a + 1)..b) = b - a
  <2>1. /\ IsFiniteSet((a + 1)..b)
        /\ Cardinality((a + 1)..b) = IF a + 1 > b THEN 0 ELSE b - (a + 1) + 1
    BY FS_Interval
  <2> QED
    BY <2>1
<1>2. IsFiniteSet({t}) /\ Cardinality({t}) = 1
  BY FS_Singleton
<1>3. /\ IsFiniteSet({t} \X ((a + 1)..b))
      /\ Cardinality({t} \X ((a + 1)..b)) = Cardinality({t}) * Cardinality((a + 1)..b)
  BY <1>1, <1>2, FS_Product
<1>4. 1 * (b - a) = b - a
  OBVIOUS
<1> QED
  BY <1>1, <1>2, <1>3, <1>4

\* Disjoint finite sets are counted apart.
LEMMA Disjoint ==
    ASSUME NEW S, NEW R, IsFiniteSet(S), IsFiniteSet(R), S \cap R = {}
    PROVE  IsFiniteSet(S \cup R) /\ Cardinality(S \cup R) = Cardinality(S) + Cardinality(R)
<1>1. /\ IsFiniteSet(S \cup R)
      /\ Cardinality(S \cup R) = Cardinality(S) + Cardinality(R) - Cardinality(S \cap R)
  BY FS_Union
<1>2. Cardinality(S \cap R) = 0 /\ Cardinality(S) \in Nat /\ Cardinality(R) \in Nat
  BY FS_EmptySet, FS_CardinalityType
<1> QED
  BY <1>1, <1>2

Saved == SavingsMatch /\ \A s \in Students : IsFiniteSet(SavedUnits(s))

\* Steps that complete no row and change no completed one.
LEMMA SavingsUntouched ==
    ASSUME TypeOK, Saved, UNCHANGED savings,
           \A t \in Txs : (status'[t] = "completed") <=> (status[t] = "completed"),
           \A t \in Txs : status[t] = "completed" => order'[t] = order[t]
    PROVE  Saved'
<1>1. \A s \in Students : Bought(s)' = Bought(s)
  BY DEF Bought
<1>2. ASSUME NEW s \in Students PROVE SavedUnits(s)' = SavedUnits(s)
  <2>1. \A t \in Bought(s) : order'[t] = order[t]
    BY DEF Bought
  <2> QED
    BY <1>1, <2>1 DEF SavedUnits
<1> QED
  BY <1>1, <1>2 DEF Saved, SavingsMatch

LEMMA CompletedSavings ==
    ASSUME TypeOK, Saved, NEW h \in Handlers, NEW t \in Txs, SettleComplete(h, t)
    PROVE  Saved'
<1>1. PICK s \in Students : s = order[t].student
  BY DEF SettleComplete, Unsettled, Orders, TypeOK
<1>2. PICK a \in Nat, b \in Nat : a = order[t].quote.price /\ b = order[t].quote.list /\ a <= b
  <2>1. order[t].quote \in Quotes
    BY DEF SettleComplete, Unsettled, Orders, TypeOK
  <2> QED
    BY <2>1, CheckoutAssumption
<1>3. /\ status' = [status EXCEPT ![t] = "completed"] /\ status[t] # "completed"
      /\ UNCHANGED order
  BY Completed DEF Unsettled
<1>4. /\ savings'[s] = [total |-> savings[s].total + (b - a), purchases |-> savings[s].purchases + 1]
      /\ \A r \in Students : r # s => savings'[r] = savings[r]
  BY <1>1, <1>2 DEF SettleComplete, Fulfil, TypeOK
<1>5. ASSUME NEW r \in Students, r # s
      PROVE  Bought(r)' = Bought(r) /\ SavedUnits(r)' = SavedUnits(r)
  <2>1. Bought(r)' = Bought(r)
    BY <1>1, <1>3, <1>5 DEF Bought, TypeOK
  <2> QED
    BY <1>3, <2>1 DEF SavedUnits
<1>6. Bought(s)' = Bought(s) \cup {t} /\ t \notin Bought(s)
  BY <1>1, <1>3 DEF Bought, TypeOK
<1> DEFINE Units == {t} \X ((a + 1)..b)
<1>7. SavedUnits(s)' = SavedUnits(s) \cup Units
  BY <1>2, <1>3, <1>6 DEF SavedUnits
<1>8. SavedUnits(s) \cap Units = {}
  BY <1>6 DEF SavedUnits
<1>9. IsFiniteSet(Units) /\ Cardinality(Units) = b - a
  BY <1>2, UnitsOf
<1> HIDE DEF Units
<1>10. /\ IsFiniteSet(SavedUnits(s)')
       /\ Cardinality(SavedUnits(s)') = Cardinality(SavedUnits(s)) + (b - a)
  BY <1>7, <1>8, <1>9, Disjoint DEF Saved
<1>11. Cardinality(Bought(s)') = Cardinality(Bought(s)) + 1
  <2>1. IsFiniteSet(Bought(s))
    BY CheckoutAssumption, FS_Subset DEF Bought
  <2> QED
    BY <1>6, <2>1, OneMore
<1>12. savings'[s].purchases = Cardinality(Bought(s)') /\ savings'[s].total = Cardinality(SavedUnits(s)')
  BY <1>4, <1>10, <1>11 DEF Saved, SavingsMatch
<1>13. ASSUME NEW r \in Students
       PROVE  /\ savings'[r].purchases = Cardinality(Bought(r)')
              /\ savings'[r].total = Cardinality(SavedUnits(r)')
              /\ IsFiniteSet(SavedUnits(r)')
  BY <1>4, <1>5, <1>10, <1>12 DEF Saved, SavingsMatch
<1> QED
  BY <1>13 DEF Saved, SavingsMatch

LEMMA StepSavings ==
    ASSUME TypeOK, Saved, [Next]_vars PROVE Saved'
<1> USE DEF TypeOK
<1>1. ASSUME NEW h \in Handlers, NEW s \in Students, NEW p \in Products, CreateCheckout(h, s, p)
      PROVE  Saved'
  <2>1. PICK t \in Txs :
          /\ status[t] = "absent"
          /\ status' = [status EXCEPT ![t] = "pending"]
          /\ order' = [order EXCEPT ![t] = [student |-> s, product |-> p,
                                            quote |-> listing[p].quote]]
    BY <1>1 DEF CreateCheckout
  <2>2. UNCHANGED savings
    BY <1>1 DEF CreateCheckout
  <2> QED
    BY <2>1, <2>2, SavingsUntouched
<1>2. ASSUME NEW h \in Handlers, RecordInitialized(h) \/ RecordRejected(h) \/ RecordUnknown(h) \/ Crash(h)
      PROVE  Saved'
  BY <1>2, SavingsUntouched DEF RecordInitialized, RecordRejected, RecordUnknown, Crash, rowVars
<1>3. ASSUME NEW t \in Txs, ProviderDecides(t) \/ Capture(t) PROVE Saved'
  BY <1>3, SavingsUntouched DEF ProviderDecides, Capture, rowVars
<1>4. ASSUME NEW h \in Handlers, NEW t \in Txs, BeginSettle(h, t) PROVE Saved'
  BY <1>4, SavingsUntouched DEF BeginSettle, rowVars
<1>5. ASSUME NEW h \in Handlers, NEW t \in Txs, Settle(h, t) PROVE Saved'
  <2>1. CASE SettleReplay(h, t)
    BY <2>1, SavingsUntouched DEF SettleReplay, Settling
  <2>2. ASSUME NEW why \in Reasons, Settling(h, t), Unsettled(t), QueueRefund(t, why) PROVE Saved'
    BY <2>2, SavingsUntouched DEF QueueRefund, Unsettled, Settling
  <2>3. CASE SettleComplete(h, t)
    BY <2>3, CompletedSavings
  <2> QED
    BY <1>5, <2>1, <2>2, <2>3
    DEF Settle, SettleUnderpaid, SettleIneligible, SettleUnavailable, Reasons
<1>6. ASSUME NEW s \in Students, GrantEligibility(s) \/ WithdrawEligibility(s) PROVE Saved'
  BY <1>6, SavingsUntouched DEF GrantEligibility, WithdrawEligibility, rowVars
<1>7. ASSUME NEW p \in Products, EditListing(p) PROVE Saved'
  BY <1>7, SavingsUntouched DEF EditListing, rowVars
<1>8. CASE Tick \/ UNCHANGED vars
  BY <1>8, SavingsUntouched DEF Tick, vars, rowVars
<1> QED
  BY <1>1, <1>2, <1>3, <1>4, <1>5, <1>6, <1>7, <1>8 DEF Next

\* A student's purchases are counted once each, and the savings are the discounts
\* quoted when the charges were opened, whatever vendors do to the list price and
\* the student price since.
THEOREM SavingsMatchHolds == Spec => []SavingsMatch
<1>1. Init => Saved
  <2> SUFFICES ASSUME Init PROVE Saved
    OBVIOUS
  <2>1. \A s \in Students : Bought(s) = {} /\ SavedUnits(s) = {}
    BY DEF Init, Bought, SavedUnits
  <2>2. \A s \in Students : savings[s].total = 0 /\ savings[s].purchases = 0
    BY DEF Init
  <2>3. \A s \in Students : IsFiniteSet(SavedUnits(s)) /\ Cardinality(SavedUnits(s)) = 0
                            /\ Cardinality(Bought(s)) = 0
    BY <2>1, FS_EmptySet
  <2> QED
    BY <2>2, <2>3 DEF Saved, SavingsMatch
<1>2. Saved => SavingsMatch
  BY DEF Saved
<1> QED
  BY <1>1, <1>2, StepSavings, Typed, PTL DEF Spec

-----------------------------------------------------------------------------
\* A step that leaves every outcome, order, stock level and purchase count as it
\* was is a stuttering step of the ledger.
LEMMA Stutters ==
    ASSUME UNCHANGED <<order, listing, savings>>,
           \A t \in Txs : Outcome(t)' = Outcome(t)
    PROVE  UNCHANGED Ledger!vars
  BY DEF Ledger!vars

\* The outcome of a row that is still to be settled, and of one that is not.
LEMMA OutcomeOf ==
    ASSUME TypeOK, NEW t \in Txs
    PROVE  /\ status[t] = "absent" <=> Outcome(t) = "none"
           /\ Blocking(t) <=> Outcome(t) = "open"
           /\ status[t] = "completed" <=> Outcome(t) = "fulfilled"
           /\ status[t] = "requires_refund" <=> Outcome(t) = "refund_due"
           /\ (status[t] = "failed" /\ init[t] = "null") <=> Outcome(t) = "dropped"
  BY DEF TypeOK, Outcome, Blocking

\* Every step of checkout is a step of the ledger or changes nothing in it.
LEMMA StepLedger ==
    ASSUME TypeOK, TypeOK', Reserved, [Next]_vars
    PROVE  [Ledger!Next]_(Ledger!vars)
<1> USE DEF Fulfil
<1> DEFINE Step == [Ledger!Next]_(Ledger!vars)
<1> SUFFICES Step
  OBVIOUS
<1>0. \A t \in Txs : UNCHANGED <<status[t], init[t]>> => Outcome(t)' = Outcome(t)
  BY DEF Outcome, Blocking
<1>1. ASSUME NEW h \in Handlers, NEW s \in Students, NEW p \in Products,
             CreateCheckout(h, s, p)
      PROVE Step
  <2>1. PICK t \in Txs :
          /\ status[t] = "absent"
          /\ status' = [status EXCEPT ![t] = "pending"]
          /\ init' = [init EXCEPT ![t] = "initializing"]
          /\ order' = [order EXCEPT ![t] = [student |-> s, product |-> p,
                                            quote |-> listing[p].quote]]
    BY <1>1 DEF CreateCheckout
  <2>2. Outcome(t) = "none" /\ Outcome(t)' = "open"
    BY <2>1 DEF Outcome, Blocking, TypeOK
  <2>3. \A u \in Txs : u # t => Outcome(u)' = Outcome(u)
    BY <2>1, <1>0 DEF TypeOK
  <2>4. Ledger!Open(s, p) = {}
    <3>1. \A u \in Txs : Outcome(u) = "open" => Blocking(u)
      BY OutcomeOf
    <3> QED
      BY <1>1, <3>1 DEF CreateCheckout, Prior, Ledger!Open
  <2>5. UNCHANGED <<listing, savings>> /\ listing[p].stock > 0
    BY <1>1 DEF CreateCheckout
  <2>6. Ledger!Place(t, s, p)
    <3>1. [u \in Txs |-> Outcome(u)]' = [[u \in Txs |-> Outcome(u)] EXCEPT ![t] = "open"]
      BY <2>2, <2>3
    <3>2. [u \in Txs |-> <<order[u].student, order[u].product>>]' =
            [[u \in Txs |-> <<order[u].student, order[u].product>>] EXCEPT ![t] = <<s, p>>]
      BY <2>1 DEF TypeOK
    <3> QED
      BY <2>2, <2>4, <2>5, <3>1, <3>2 DEF Ledger!Place
  <2> QED
    BY <2>6 DEF Ledger!Next
<1>2. ASSUME NEW h \in Handlers, RecordInitialized(h) PROVE Step
  BY <1>2, Stutters DEF RecordInitialized, Reserved, SoleReporter, Outcome, Blocking, TypeOK
<1>3. ASSUME NEW h \in Handlers, RecordRejected(h) PROVE Step
  <2>1. PICK t \in Txs : t = handler[h].tx
    BY <1>3 DEF RecordRejected, TypeOK
  <2>2. CASE status[t] = "pending"
    <3>1. /\ status' = [status EXCEPT ![t] = "failed"] /\ init' = [init EXCEPT ![t] = "null"]
          /\ UNCHANGED <<order, listing, savings>>
      BY <1>3, <2>1, <2>2 DEF RecordRejected
    <3>2. Outcome(t) = "open" /\ Outcome(t)' = "dropped"
      BY <2>2, <3>1 DEF Outcome, Blocking, TypeOK
    <3>3. \A u \in Txs : u # t => Outcome(u)' = Outcome(u)
      BY <3>1, <1>0 DEF TypeOK
    <3>4. Ledger!Close(t)
      BY <3>1, <3>2, <3>3 DEF Ledger!Close
    <3> QED
      BY <3>4 DEF Ledger!Next
  <2>3. CASE status[t] # "pending"
    BY <1>3, <2>1, <2>3, <1>0, Stutters DEF RecordRejected
  <2> QED
    BY <2>2, <2>3
<1>4. ASSUME NEW h \in Handlers, RecordUnknown(h) PROVE Step
  BY <1>4, Stutters DEF RecordUnknown, Reserved, SoleReporter, Outcome, Blocking, TypeOK
<1>5. ASSUME NEW h \in Handlers, Crash(h) PROVE Step
  BY <1>5, <1>0, Stutters DEF Crash, rowVars
<1>6. ASSUME NEW t \in Txs, ProviderDecides(t) \/ Capture(t) PROVE Step
  BY <1>6, <1>0, Stutters DEF ProviderDecides, Capture, rowVars
<1>7. ASSUME NEW h \in Handlers, NEW t \in Txs, BeginSettle(h, t) PROVE Step
  BY <1>7, <1>0, Stutters DEF BeginSettle, rowVars
<1>8. ASSUME NEW h \in Handlers, NEW t \in Txs, Settle(h, t) PROVE Step
  <2>1. CASE SettleReplay(h, t)
    BY <2>1, <1>0, Stutters DEF SettleReplay, Settling
  <2>2. ASSUME Settling(h, t), Unsettled(t) PROVE Outcome(t) = "open"
    BY <2>2 DEF Settling, Unsettled, Outcome, Blocking, TypeOK, Reserved,
                RejectedOnly, HoldsEligibility
  <2>3. ASSUME NEW why \in Reasons, Settling(h, t), Unsettled(t), QueueRefund(t, why)
        PROVE Step
    <3>1. /\ status' = [status EXCEPT ![t] = "requires_refund"]
          /\ UNCHANGED <<init, order, listing, savings>>
      BY <2>3 DEF QueueRefund, Settling
    <3>2. Outcome(t)' = "refund_due"
      BY <3>1 DEF Outcome, Blocking, TypeOK
    <3>3. \A u \in Txs : u # t => Outcome(u)' = Outcome(u)
      BY <3>1, <1>0 DEF TypeOK
    <3>4. Ledger!Close(t)
      BY <2>2, <2>3, <3>1, <3>2, <3>3 DEF Ledger!Close
    <3> QED
      BY <3>4 DEF Ledger!Next
  <2>4. CASE SettleComplete(h, t)
    <3>1. PICK s \in Students, p \in Products : order[t].student = s /\ order[t].product = p
      BY <2>4 DEF SettleComplete, Unsettled, TypeOK, Orders
    <3>2. /\ status' = [status EXCEPT ![t] = "completed"]
          /\ listing[p].stock > 0
          /\ \A q \in Products : listing'[q].stock =
                IF q = p THEN listing[q].stock - 1 ELSE listing[q].stock
          /\ \A r \in Students : savings'[r].purchases =
                IF r = s THEN savings[r].purchases + 1 ELSE savings[r].purchases
          /\ UNCHANGED <<init, order>>
      BY <2>4, <3>1 DEF SettleComplete, Settling, Sellable, TypeOK
    <3>3. Outcome(t) = "open" /\ Outcome(t)' = "fulfilled"
      <4>1. Unsettled(t) /\ Settling(h, t)
        BY <2>4, Completed DEF SettleComplete
      <4>2. status'[t] = "completed"
        BY <3>2 DEF TypeOK
      <4>3. Outcome(t)' = "fulfilled"
        BY <4>2 DEF Outcome, Blocking
      <4> QED
        BY <2>2, <4>1, <4>3
    <3>4. \A u \in Txs : u # t => Outcome(u)' = Outcome(u)
      BY <3>2, <1>0 DEF TypeOK
    <3>5. Ledger!Fulfil(t, s, p)
      <4>1. [u \in Txs |-> Outcome(u)]' = [[u \in Txs |-> Outcome(u)] EXCEPT ![t] = "fulfilled"]
        BY <3>3, <3>4
      <4>2. [q \in Products |-> listing'[q].stock] =
              [[q \in Products |-> listing[q].stock] EXCEPT ![p] = @ - 1]
        BY <3>2
      <4>3. [r \in Students |-> savings'[r].purchases] =
              [[r \in Students |-> savings[r].purchases] EXCEPT ![s] = @ + 1]
        BY <3>2
      <4> QED
        BY <3>1, <3>2, <3>3, <4>1, <4>2, <4>3 DEF Ledger!Fulfil
    <3> QED
      BY <3>5 DEF Ledger!Next
  <2> QED
    BY <1>8, <2>1, <2>3, <2>4
    DEF Settle, SettleUnderpaid, SettleIneligible, SettleUnavailable, Reasons
<1>9. ASSUME NEW s \in Students, GrantEligibility(s) \/ WithdrawEligibility(s) PROVE Step
  BY <1>9, <1>0, Stutters DEF GrantEligibility, WithdrawEligibility, rowVars
<1>10. ASSUME NEW p \in Products, EditListing(p) PROVE Step
  <2>1. PICK l \in BOOLEAN, n \in 0..MaxStock, quote \in Quotes :
          listing' = [listing EXCEPT ![p] = [live |-> l, stock |-> n, quote |-> quote]]
    BY <1>10 DEF EditListing
  <2>2. UNCHANGED <<status, init, order, savings>>
    BY <1>10 DEF EditListing, rowVars
  <2>3. listing'[p].stock = n /\ \A q \in Products : q # p => listing'[q] = listing[q]
    BY <2>1 DEF TypeOK
  <2>4. Ledger!Restock(p)
    <3>1. [q \in Products |-> listing'[q].stock] =
            [[q \in Products |-> listing[q].stock] EXCEPT ![p] = listing'[p].stock]
      BY <2>3
    <3>2. n \in Nat /\ [q \in Products |-> listing'[q].stock][p] = n
      BY <2>3
    <3>3. [t \in Txs |-> Outcome(t)]' = [t \in Txs |-> Outcome(t)]
      BY <2>2, <1>0
    <3> QED
      BY <2>2, <2>3, <3>1, <3>2, <3>3 DEF Ledger!Restock
  <2> QED
    BY <2>4 DEF Ledger!Next
<1>11. CASE Tick
  BY <1>11, <1>0, Stutters DEF Tick, rowVars
<1>12. CASE UNCHANGED vars
  BY <1>12, <1>0, Stutters DEF vars, rowVars
<1> QED
  BY <1>1, <1>2, <1>3, <1>4, <1>5, <1>6, <1>7, <1>8, <1>9, <1>10, <1>11, <1>12
  DEF Next

\* Checkout implements the order ledger.
THEOREM Implementation == Spec => ImplementsLedger
<1>1. Init => Ledger!Init
  <2> SUFFICES ASSUME Init PROVE Ledger!Init
    OBVIOUS
  <2>1. \A t \in Txs : Outcome(t) = "none"
    BY DEF Init, Outcome, Blocking
  <2>2. [p \in Products |-> listing[p].stock] \in [Products -> Nat]
    BY CheckoutAssumption DEF Init
  <2>3. [s \in Students |-> savings[s].purchases] = [s \in Students |-> 0]
    BY DEF Init
  <2> QED
    BY <2>1, <2>2, <2>3 DEF Ledger!Init
<1> QED
  BY <1>1, StepLedger, ReservationHolds, Typed, PTL DEF Spec, ImplementsLedger, Ledger!Spec
=============================================================================
