-------------------------- MODULE MCConversations ---------------------------
(* Small instances of the conversations for TLC.                           *)
EXTENDS Conversations

CONSTANTS r1, r2, r3, c1, c2
=============================================================================
