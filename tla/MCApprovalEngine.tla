-------------------------- MODULE MCApprovalEngine --------------------------
(* Small instances of the approval engine for TLC.                         *)
EXTENDS ApprovalEngine, TLC

CONSTANTS t1, t2, t3, t4, c1, c2, u1

OneConv   == {c1}
TwoConvs  == {c1, c2}
OneOwner  == [c \in Convs |-> u1]
TurnSymmetry == Permutations(Turns)
=============================================================================
