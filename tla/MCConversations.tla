-------------------------- MODULE MCConversations ---------------------------
(* One expert with a thread that opens sessions; two calls of on_message. *)
EXTENDS Conversations

MCSessions == 1 .. 2
OneSession == 1 .. 1
MCExpertOf == [w \in Watchers |-> CHOOSE e \in Experts : TRUE]
=============================================================================
