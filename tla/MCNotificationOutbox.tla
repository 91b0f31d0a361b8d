------------------------ MODULE MCNotificationOutbox ------------------------
(* Small instances of NotificationOutbox for TLC. *)
EXTENDS NotificationOutbox, TLC

\* Emissions are interchangeable.
Symmetry == Permutations(Workers)

\* A replay or a fault meets one purchase; overlaps of two meet neither.
OneTrouble == replays + faults > 0 => replays + faults = 1 /\ Cardinality(Enqueued) = 1
=============================================================================
