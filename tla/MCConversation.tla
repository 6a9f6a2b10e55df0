--------------------------- MODULE MCConversation ---------------------------
(* TLC instances of Conversation. *)
EXTENDS Conversation, TLC

TaskThenReplies == [i \in Inputs |-> IF i = 1 THEN "task" ELSE "reply"]
PodSymmetry == Permutations(Pods)
=============================================================================
