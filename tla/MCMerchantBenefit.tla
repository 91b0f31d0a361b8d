-------------------------- MODULE MCMerchantBenefit --------------------------
(* Small instances of MerchantBenefit for TLC. *)
EXTENDS MerchantBenefit, TLC

Prices == {[list |-> 3, student |-> 2], [list |-> 3, student |-> 1]}
OnePrice == {[list |-> 3, student |-> 2]}

\* Codes without a past, keys, references and checkouts are interchangeable.
Symmetry == Permutations(Codes \ Legacy) \cup Permutations(Keys) \cup Permutations(Refs)
                \cup Permutations(Checkouts)

\* One behaviour meets one change: the catalogue is edited, or the enrollment is
\* checked again.
OneChange == listing.edits + evidence.id <= 2
=============================================================================
