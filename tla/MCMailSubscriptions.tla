------------------------ MODULE MCMailSubscriptions -------------------------
(* Small instances of the mail subscriptions for TLC.                      *)
EXTENDS MailSubscriptions

CONSTANT p1
=============================================================================
