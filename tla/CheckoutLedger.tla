---------------------------- MODULE CheckoutLedger ----------------------------
(* Checkout implements OrderLedger: the refinement mapping. *)
EXTENDS Checkout

Outcome(t) ==
    CASE status[t] = "absent" -> "none"
      [] status[t] = "completed" -> "fulfilled"
      [] status[t] = "requires_refund" -> "refund_due"
      [] Blocking(t) -> "open"
      [] OTHER -> "dropped"

Ledger == INSTANCE OrderLedger WITH
    Buyers <- Students, Deals <- Products, Orders <- Txs,
    outcome <- [t \in Txs |-> Outcome(t)],
    parties <- [t \in Txs |-> <<order[t].student, order[t].product>>],
    stock <- [p \in Products |-> listing[p].stock],
    purchases <- [s \in Students |-> savings[s].purchases]

\* Reservations, provider replies, replays and crashes of checkout are
\* invisible to the ledger: one open order per deal, one outcome per order,
\* one unit and one counted purchase per fulfilment.
ImplementsLedger == Ledger!Spec
=============================================================================
