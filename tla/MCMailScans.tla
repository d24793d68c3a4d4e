---------------------------- MODULE MCMailScans -----------------------------
(* Small instances of the mail scans for TLC.                              *)
EXTENDS MailScans
=============================================================================
