------------------------- MODULE MCSyntheticCompanion -------------------------
(* Items of size one or two against a resident size of three, three        *)
(* conversations for two places, two requests in flight, and a clock that  *)
(* passes the expiry of the conversations and of the session.              *)
EXTENDS SyntheticCompanion, TLC

MCItem == 1..2
MCSizeOf == [i \in MCItem |-> i]
MCExpiresAt == [c \in Conversation |-> 1]

Symmetry == Permutations(Conversation) \union Permutations(Slot)

=============================================================================
