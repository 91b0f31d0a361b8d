--------------------------- MODULE MCDeletionLedger ---------------------------
(* Small instances of DeletionLedger for TLC. *)
EXTENDS DeletionLedger, TLC

None == [k \in Kinds |-> 0]
\* Kinds of trouble, each explored on its own.
Troubles == {[None EXCEPT !.crashes = 1, !.failures = 1],
             [None EXCEPT !.crashes = 1, !.restores = 1],
             [None EXCEPT !.closures = 1, !.runs = 1], [None EXCEPT !.runs = 1, !.kills = 1],
             [None EXCEPT !.losses = 1], [None EXCEPT !.cuts = 1]}
\* The file is lost, and the first attempt to write it again fails.
LossAndFailure == {[None EXCEPT !.losses = 1, !.failures = 1]}
=============================================================================
