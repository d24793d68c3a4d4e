--------------------------- MODULE MCOfficeActions ---------------------------
(* Two tool calls and a meeting of up to two people.  The first call is    *)
(* for any Microsoft 365 tool; the second is another update of the meeting, *)
(* the one tool that reads what another may have written.                    *)
EXTENDS OfficeActions, OfficeTools, TLC

CONSTANTS a1, a2, ann, ben

\* She moves the meeting, adds one person, or swaps one for another.
MCChanges == {NoChange, [add |-> {ann}, remove |-> {}], [add |-> {ann}, remove |-> {ben}]}
MCUpdates == {calendar_update(change) : change \in MCChanges \ {NoChange}}
MCTools   == (a1 :> AllTools(MCChanges)) @@ (a2 :> MCUpdates)
=============================================================================
