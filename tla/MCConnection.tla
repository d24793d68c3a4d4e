---------------------------- MODULE MCConnection ----------------------------
(* A small instance of the connection for TLC.                             *)
EXTENDS Connection

CONSTANTS b1, b2, r1, r2
=============================================================================
