--------------------------- MODULE ApprovedAction ---------------------------
(***************************************************************************)
(* What the approval engine promises about one consequential action, with  *)
(* no turns, no database statements and no failures in sight: an action is *)
(* proposed in a conversation, at most one proposal of a conversation is   *)
(* open at a time, an open proposal is either withdrawn for good or        *)
(* authorised once, and only an authorised action acts, at most once.      *)
(***************************************************************************)
CONSTANTS Actions,  \* the consequential actions that may ever be proposed
          Convs     \* the conversations

VARIABLES phase,    \* phase[a], the life of action a
          home      \* home[a], the conversation a was proposed in

vars == <<phase, home>>

Phases == {"absent", "proposed", "withdrawn", "authorised", "acted"}

Init == /\ phase = [a \in Actions |-> "absent"]
        /\ home \in [Actions -> Convs]

Open(c) == {a \in Actions : phase[a] = "proposed" /\ home[a] = c}

\* A proposal is opened in a conversation that has none open.
Propose(a, c) ==
    /\ phase[a] = "absent"
    /\ Open(c) = {}
    /\ phase' = [phase EXCEPT ![a] = "proposed"]
    /\ home' = [home EXCEPT ![a] = c]

\* Rejection, supersession and expiry; one statement may withdraw several.
Withdraw(S) ==
    /\ S # {}
    /\ \A a \in S : phase[a] = "proposed"
    /\ phase' = [a \in Actions |-> IF a \in S THEN "withdrawn" ELSE phase[a]]
    /\ UNCHANGED home

\* The Director's Yes, taken once.
Authorise(a) ==
    /\ phase[a] = "proposed"
    /\ phase' = [phase EXCEPT ![a] = "authorised"]
    /\ UNCHANGED home

\* The change reaches Microsoft 365.
Act(a) ==
    /\ phase[a] = "authorised"
    /\ phase' = [phase EXCEPT ![a] = "acted"]
    /\ UNCHANGED home

Next == \/ \E a \in Actions, c \in Convs : Propose(a, c)
        \/ \E S \in SUBSET Actions : Withdraw(S)
        \/ \E a \in Actions : Authorise(a) \/ Act(a)

Spec == Init /\ [][Next]_vars
=============================================================================
