---------------------- MODULE MCCompanionWebController ----------------------
(***************************************************************************)
(* Instance of CompanionWebController: two conversations, so that a reply  *)
(* about one can meet the view of the other, and a client that expects at  *)
(* most two replies, so that the pending limit is met.                     *)
(***************************************************************************)
EXTENDS CompanionWebController, TLC

ConversationSymmetry == Permutations(Conversation)

=============================================================================
