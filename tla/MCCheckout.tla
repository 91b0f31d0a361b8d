------------------------------ MODULE MCCheckout ------------------------------
(* Small instances of Checkout for TLC. *)
EXTENDS CheckoutLedger, TLC

\* Both prices differ, and so does every discount made of two of them.
TwoQuotes == {[list |-> 4, price |-> 2], [list |-> 6, price |-> 3]}

\* Students, rows and handlers are interchangeable in the safety run.
Symmetry == Permutations(Students) \cup Permutations(Txs) \cup Permutations(Handlers)

\* A request dies and a listing is edited at the first instant, or time passes.
OneTrouble == now = 1 \/ (crashes = 0 /\ edits = 0)
=============================================================================
