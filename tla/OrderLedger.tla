----------------------------- MODULE OrderLedger -----------------------------
(***************************************************************************)
(* What the marketplace promises about orders, whatever the machinery does:*)
(* a buyer has at most one open order for a deal, an order leaves the open *)
(* state once and for good, and it is fulfilled by exactly one unit that   *)
(* was in stock, counted once among the buyer's purchases.                 *)
(***************************************************************************)
EXTENDS Integers

CONSTANTS Buyers, Deals, Orders

VARIABLES
    outcome,   \* none, open, dropped, fulfilled or refund_due
    parties,   \* buyer and deal of an order, once placed
    stock,     \* units on offer per deal
    purchases  \* fulfilled orders per buyer

vars == <<outcome, parties, stock, purchases>>

Init ==
    /\ outcome = [o \in Orders |-> "none"]
    /\ stock \in [Deals -> Nat]
    /\ purchases = [b \in Buyers |-> 0]

Open(b, d) == {o \in Orders : outcome[o] = "open" /\ parties[o] = <<b, d>>}

Place(o, b, d) ==
    /\ outcome[o] = "none"
    /\ Open(b, d) = {}
    /\ stock[d] > 0
    /\ outcome' = [outcome EXCEPT ![o] = "open"]
    /\ parties' = [parties EXCEPT ![o] = <<b, d>>]
    /\ UNCHANGED <<stock, purchases>>

\* The order ends without a sale: no money moved, or money must go back.
Close(o) ==
    /\ outcome[o] = "open"
    /\ \E why \in {"dropped", "refund_due"} : outcome' = [outcome EXCEPT ![o] = why]
    /\ UNCHANGED <<parties, stock, purchases>>

Fulfil(o, b, d) ==
    /\ outcome[o] = "open"
    /\ parties[o] = <<b, d>>
    /\ stock[d] > 0
    /\ outcome' = [outcome EXCEPT ![o] = "fulfilled"]
    /\ stock' = [stock EXCEPT ![d] = @ - 1]
    /\ purchases' = [purchases EXCEPT ![b] = @ + 1]
    /\ UNCHANGED parties

\* The merchant alone decides what is on offer.
Restock(d) ==
    /\ stock'[d] \in Nat
    /\ stock' = [stock EXCEPT ![d] = stock'[d]]
    /\ UNCHANGED <<outcome, parties, purchases>>

Next ==
    \/ \E o \in Orders, b \in Buyers, d \in Deals : Place(o, b, d) \/ Fulfil(o, b, d)
    \/ \E o \in Orders : Close(o)
    \/ \E d \in Deals : Restock(d)

Spec == Init /\ [][Next]_vars
=============================================================================
