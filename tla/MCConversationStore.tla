------------------------- MODULE MCConversationStore -------------------------
(***************************************************************************)
(* Instances of ConversationStore for TLC: chats "a" to "d" and one        *)
(* normalization "n".  "a" brings images and parallel calls, "b" and "d"   *)
(* ask for a pseudo-model without vision, and "b" belongs to another       *)
(* conversation when there are two.  "a" and "c", of one conversation, both *)
(* cost tokens, so that one may write back a count without the other's;    *)
(* "a" and "b", the first of their conversations, are streamed.             *)
(***************************************************************************)
EXTENDS ConversationStore

TwoConversations == [x \in Actors |-> IF x = "b" THEN "k2" ELSE "k1"]

MCPseudo == [x \in Chats |-> IF x \in {"b", "d"} THEN "code" ELSE "vision"]
MCContent == [x \in Chats |->
    CASE x = "a" -> {"images", "parallel"} [] x = "b" -> {} [] OTHER -> {"tools"}]
MCCost == [x \in Chats |-> CASE x = "a" -> 2 [] x \in {"b", "c"} -> 1 [] OTHER -> 0]

=============================================================================
