---------------------- MODULE MCConversationState ----------------------
(* ConversationState as it stands: the cfg files name the instances. *)
EXTENDS ConversationState
========================================================================
