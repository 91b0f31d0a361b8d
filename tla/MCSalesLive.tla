----------------------------- MODULE MCSalesLive -----------------------------
(***************************************************************************)
(* What must eventually happen to a sale, on small instances for TLC: in   *)
(* the marketplace, or at a merchant; one of them busy per behaviour.  The *)
(* idle one stays in a state where its fairness asks for nothing.          *)
(***************************************************************************)
EXTENDS Naturals

CONSTANTS s1, p1, h1, h2, t1, t2, k1, c1, c2, c3, i1, i2, r1, r2

VARIABLES
    busy, \* the system that takes steps
    status, init, url, order, consumed, credit, reason, outbox, listing, savings,
    expires, now, handler, charge, paid, edits, crashes, supply,
    product, evidence, session, code, receipt, auth, sale, saved, offered

\* Two rows of one student, two handlers, one crash.
C == INSTANCE Checkout WITH
    Students <- {s1}, Products <- {p1}, Handlers <- {h1, h2}, Txs <- {t1, t2},
    Quotes <- {[list |-> 3, price |-> 2]}, MaxStock <- 1, EligibilityTerm <- 1,
    MaxNow <- 1, MaxEdits <- 0, MaxCrashes <- 1

\* Three codes compete for one unit; c3 was exchanged before units were held.
B == INSTANCE MerchantBenefit WITH
    Checkouts <- {k1}, Codes <- {c1, c2, c3}, Legacy <- {c3}, Keys <- {i1, i2},
    Refs <- {r1, r2}, Quotes <- {[list |-> 3, student |-> 2]}, SessionTTL <- 2,
    CodeTTL <- 1, Retention <- 1, Skew <- 0, MaxStock <- 1, MaxEvidence <- 1, MaxEdits <- 0,
    listing <- product, order <- sale, savings <- saved, supply <- offered

checkoutVars == <<status, init, url, order, consumed, credit, reason, outbox, listing,
                  savings, expires, now, handler, charge, paid, edits, crashes, supply>>
benefitVars == <<product, evidence, session, code, receipt, auth, sale, saved, offered>>
vars == <<busy, checkoutVars, benefitVars>>

\* No code was ever issued: no authorization is left to expire.
BenefitIdle ==
    /\ product = [live |-> TRUE, stock |-> 0, quote |-> [list |-> 3, student |-> 2], edits |-> 0]
    /\ offered = 0
    /\ code = [c \in {c1, c2, c3} |-> B!NoCode]
    /\ auth = [c \in {c1, c2, c3} |-> B!NoAuth]
    /\ evidence = [id |-> 1, effective |-> TRUE]
    /\ session = [k \in {k1} |-> B!NoSession]
    /\ receipt = [i \in {i1, i2} |-> B!NoReceipt]
    /\ sale = [r \in {r1, r2} |-> B!NoOrder]
    /\ saved = [total |-> 0, purchases |-> 0]

Init ==
    /\ C!Init
    /\ \/ busy = "benefit" /\ supply[p1] = 0 /\ B!Init
       \/ busy = "checkout" /\ BenefitIdle

Next ==
    /\ UNCHANGED busy
    /\ \/ busy = "checkout" /\ C!Next /\ UNCHANGED benefitVars
       \/ busy = "benefit" /\ B!Next /\ UNCHANGED checkoutVars

Spec == Init /\ [][Next]_vars /\ C!Fairness /\ B!Fairness

\* Every captured charge is settled in the end, although settlements compete
\* for the lock of the student.
CapturedSettles == C!CapturedSettles

\* Every held unit is settled or released while the cleanup job keeps running.
HeldIsReleased == B!HeldIsReleased
=============================================================================
