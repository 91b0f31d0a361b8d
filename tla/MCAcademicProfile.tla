--------------------------- MODULE MCAcademicProfile ---------------------------
(* Small instances of AcademicProfile for TLC. *)
EXTENDS AcademicProfile, TLC

Saves(n) == [[k \in Kinds |-> 0] EXCEPT !.saves = n]
Symmetry == Permutations(Tabs) \cup Permutations(Schools)

\* A profile is erased and made again while another tab still shows the old one.
MadeAgain == {[Saves(3) EXCEPT !.switches = 1, !.erasures = 1]}
\* Kinds of trouble, each explored on its own.
Troubles == MadeAgain \cup {[Saves(2) EXCEPT !.switches = 2, !.losses = 1],
                              [Saves(3) EXCEPT !.losses = 2]}
=============================================================================
