--------------------------- MODULE MCConversation ---------------------------
(* Small instances of Conversation for TLC. *)
EXTENDS Conversation, TLC

Interchangeable == Permutations(Workers) \cup Permutations(Members)
=============================================================================
