------------------------- MODULE MCNotificationHints -------------------------
(* Event signatures are interchangeable.                                   *)
EXTENDS NotificationHints, TLC

Symmetry == Permutations(Event)

=============================================================================
