----------------------------- MODULE MCConversation -----------------------------
(* Conversation on small instances. *)
EXTENDS Conversation

CONSTANTS owner, guest

\* A guest writes twice on Telegram, the owner writes in the web console.
TwoTexts == <<[user |-> guest, text |-> TRUE], [user |-> guest, text |-> TRUE]>>

SomeGrants ==
  {[ref |-> guest, role |-> "collaborator"], [ref |-> guest, role |-> "blocked"],
   [ref |-> owner, role |-> "blocked"]}

ApprovedByHand == {[policy |-> "open", auto |-> FALSE]}
OpenAndKnown == {[policy |-> "open", auto |-> TRUE], [policy |-> "known", auto |-> FALSE]}
================================================================================
