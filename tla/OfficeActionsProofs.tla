------------------------- MODULE OfficeActionsProofs -------------------------
(* Proofs about OfficeActions: for any set of tool calls, any people and    *)
(* any table of tools that satisfies ToolsAssumption, nothing is carried    *)
(* out twice or out of order, what the Director is told is true, and the    *)
(* execution implements ApprovedChanges.                                    *)
EXTENDS OfficeActions, TLAPS

\* Nothing was changed for the action, and nothing can be any more.
Untouched(a) == adrift[a] = 0 /\ \A i \in ChangingSteps(a) : acted[a][i] = 0

\* While it is executed, the changing calls before the cursor were carried
\* out once each, and no other one.
CursorTells(a) ==
    /\ adrift[a] = 0
    /\ at[a] <= Len(tool[a].execute) + 1
    /\ \A i \in ChangingSteps(a) : acted[a][i] = IF i < at[a] THEN 1 ELSE 0

\* The call that may still be carried out is the next one in order.
AdriftIsNext(a) ==
    adrift[a] # 0 => /\ adrift[a] \in ChangingSteps(a)
                     /\ acted[a][adrift[a]] = 0
                     /\ \A j \in ChangingSteps(a) : j < adrift[a] => acted[a][j] = 1

InOrder(a) ==
    \A i \in ChangingSteps(a) :
       /\ acted[a][i] <= 1
       /\ acted[a][i] = 1 => /\ phase[a] \in {"execute", "done"}
                             /\ \A j \in ChangingSteps(a) : j < i => acted[a][j] = 1

Truth(a) ==
    /\ report[a] = "success" => \A i \in ChangingSteps(a) : acted[a][i] = 1
    /\ report[a] \in {"unprepared", "declined"} => Untouched(a)
    /\ report[a] = "failed" =>
         \A i \in ChangingSteps(a) : tool[a].execute[i].effect = "send" =>
             acted[a][i] = 0 /\ adrift[a] # i

ActionInv(a) ==
    /\ phase[a] \in {"idle", "preview", "asked"} => Untouched(a)
    /\ phase[a] = "preview" => at[a] <= Len(tool[a].preview) + 1
    /\ phase[a] = "execute" => CursorTells(a)
    /\ phase[a] # "done" => report[a] = "none"
    /\ AdriftIsNext(a) /\ InOrder(a) /\ Truth(a)

IInv == TypeOK /\ \A a \in Actions : ActionInv(a)

-----------------------------------------------------------------------------
(* What is known of the tools.                                              *)

LEMMA CallShape ==
    ASSUME TypeOK, NEW a \in Actions
    PROVE  /\ tool[a] \in Tool
           /\ tool[a].execute \in Seq(Call) /\ Len(tool[a].execute) \in 1 .. MaxSteps
           /\ tool[a].preview \in Seq(Call) /\ Len(tool[a].preview) \in 0 .. MaxSteps
           /\ Calls(a) \in Seq(Call) /\ Len(Calls(a)) \in 0 .. MaxSteps
           /\ tool[a].change.add \subseteq People
<1>1. tool[a] \in Tool /\ tool[a] \in Tools[a]
  BY DEF TypeOK
<1>2. /\ tool[a].execute \in Seq(Call) /\ tool[a].preview \in Seq(Call)
      /\ tool[a].change.add \subseteq People
  BY <1>1 DEF Tool, Change
<1>3. /\ Len(tool[a].execute) \in 1 .. MaxSteps
      /\ Len(tool[a].preview) <= MaxSteps
  BY <1>1, ToolsAssumption
<1>4. Len(tool[a].preview) \in Nat /\ Len(tool[a].execute) \in Nat
  BY <1>2
<1>5. Len(tool[a].preview) \in 0 .. MaxSteps /\ Len(tool[a].execute) \in 0 .. MaxSteps
  <2>1. MaxSteps \in Nat
    BY DEF MaxSteps
  <2>2. \A n \in Nat : n <= MaxSteps => n \in 0 .. MaxSteps
    BY <2>1
  <2> QED BY <1>3, <1>4, <2>2
<1> QED BY <1>1, <1>2, <1>3, <1>5 DEF Calls

\* The call under way is a call; it is one of the changing ones exactly when
\* Changes says so.
LEMMA CurrentShape ==
    ASSUME TypeOK, NEW a \in Actions, Calling(a)
    PROVE  /\ Current(a) \in Call
           /\ at[a] \in 1 .. MaxSteps /\ at[a] \in 1 .. Len(Calls(a))
           /\ Changes(a) => /\ at[a] \in ChangingSteps(a)
                            /\ Current(a) = tool[a].execute[at[a]]
           /\ phase[a] = "execute" /\ at[a] \in ChangingSteps(a) => Changes(a)
<1>1. at[a] \in 1 .. Len(Calls(a)) /\ at[a] \in 1 .. MaxSteps
  <2>1. at[a] \in 1 .. MaxSteps + 1 /\ at[a] <= Len(Calls(a))
    BY DEF TypeOK, Calling
  <2>2. Len(Calls(a)) \in 0 .. MaxSteps
    BY CallShape
  <2>3. MaxSteps \in Nat
    BY DEF MaxSteps
  <2> QED BY <2>1, <2>2, <2>3
<1>2. Current(a) \in Call
  BY <1>1, CallShape DEF Current
<1>3. phase[a] = "execute" => Calls(a) = tool[a].execute
  BY DEF Calls
<1> QED BY <1>1, <1>2, <1>3, CallShape DEF Changes, ChangingSteps, Current

\* A changing call is approved first, made once and never skipped; mail leaves
\* with the last call, whose answer is not read.
LEMMA ChangingCall ==
    ASSUME TypeOK, NEW a \in Actions, NEW i \in ChangingSteps(a)
    PROVE  /\ i \in 1 .. Len(tool[a].execute) /\ i \in Steps
           /\ tool[a].asks
           /\ MaxAttempts(tool[a].execute[i]) = 1
           /\ tool[a].execute[i].need = "always" /\ tool[a].execute[i].pages = 1
           /\ tool[a].execute[i].effect = "send" =>
                i = Len(tool[a].execute) /\ ~tool[a].execute[i].body
<1>1. i \in DOMAIN tool[a].execute /\ tool[a].execute[i].effect # "none"
  BY DEF ChangingSteps
<1>2. i \in 1 .. Len(tool[a].execute) /\ i \in Steps
  BY <1>1, CallShape DEF Steps, MaxSteps
<1>3. tool[a] \in Tools[a]
  BY DEF TypeOK
<1> QED BY <1>1, <1>2, <1>3, ToolsAssumption DEF MaxAttempts

LEMMA AttemptsBound == \A call : MaxAttempts(call) \in {1, 3}
BY DEF MaxAttempts

-----------------------------------------------------------------------------
(* Types.                                                                   *)

CursorOK(a) == /\ at' \in [Actions -> 1 .. MaxSteps + 1]
               /\ page' \in [Actions -> 1 .. 2]
               /\ attempt' \in [Actions -> 1 .. 3]

StageOK(a) == /\ CursorOK(a)
              /\ phase' \in [Actions -> Phases]
              /\ report' \in [Actions -> Reports]

LEMMA RestartType ==
    ASSUME TypeOK, NEW a \in Actions, Restart(a)
    PROVE  CursorOK(a)
BY DEF TypeOK, Restart, CursorOK, MaxSteps

LEMMA EndType ==
    ASSUME TypeOK, NEW a \in Actions, NEW r \in Reports, End(a, r)
    PROVE  StageOK(a)
<1>1. CursorOK(a)
  BY RestartType DEF End, MoveTo
<1> QED BY <1>1 DEF TypeOK, End, MoveTo, StageOK, Phases

LEMMA MoveToType ==
    ASSUME TypeOK, NEW a \in Actions, NEW p \in Phases, MoveTo(a, p), UNCHANGED report
    PROVE  StageOK(a)
<1>1. CursorOK(a)
  BY RestartType DEF MoveTo
<1> QED BY <1>1 DEF TypeOK, MoveTo, StageOK

LEMMA NextCallType ==
    ASSUME TypeOK, NEW a \in Actions, Calling(a), NextCall(a)
    PROVE  CursorOK(a)
<1>1. at[a] + 1 \in 1 .. MaxSteps + 1
  BY CurrentShape DEF MaxSteps
<1> QED BY <1>1 DEF TypeOK, NextCall, CursorOK

LEMMA NextPageType ==
    ASSUME TypeOK, NEW a \in Actions, Calling(a), NextPage(a)
    PROVE  CursorOK(a)
<1>1. Current(a).pages \in {1, 2}
  BY CurrentShape DEF Call
<1>2. page[a] + 1 \in 1 .. 2
  BY <1>1 DEF NextPage, TypeOK
<1> QED BY <1>2 DEF TypeOK, NextPage, CursorOK

LEMMA FailsType ==
    ASSUME TypeOK, NEW a \in Actions, Calling(a), NEW confirmed \in BOOLEAN, Fails(a, confirmed)
    PROVE  StageOK(a)
<1>1. CASE Current(a).need = "spared"
  <2>1. CursorOK(a)
    BY <1>1, NextCallType DEF Fails
  <2> QED BY <2>1, <1>1 DEF Fails, StageOK, TypeOK
<1>2. CASE Current(a).need # "spared"
  <2>1. Outcome(a, confirmed) \in Reports
    BY DEF Outcome, Reports
  <2> QED BY <1>2, <2>1, EndType DEF Fails
<1> QED BY <1>1, <1>2

LEMMA RetryOrFailType ==
    ASSUME TypeOK, NEW a \in Actions, Calling(a), NEW confirmed \in BOOLEAN,
           RetryOrFail(a, confirmed)
    PROVE  StageOK(a)
<1>1. CASE attempt[a] < MaxAttempts(Current(a))
  <2>1. attempt[a] + 1 \in 1 .. 3
    BY <1>1, AttemptsBound DEF TypeOK
  <2> QED BY <1>1, <2>1 DEF RetryOrFail, Again, TypeOK, StageOK, CursorOK
<1>2. CASE ~(attempt[a] < MaxAttempts(Current(a)))
  BY <1>2, FailsType DEF RetryOrFail
<1> QED BY <1>1, <1>2

\* What a call does to Microsoft 365 keeps the counts and the attendees in range.
WorldOK == /\ acted' \in [Actions -> [Steps -> 0 .. MaxActs]]
           /\ attendees' \in SUBSET People

LEMMA CarriedOutType ==
    ASSUME TypeOK, NEW a \in Actions, NEW i \in Steps, CarriedOut(a, i)
    PROVE  WorldOK
<1>1. acted[a] \in [Steps -> 0 .. MaxActs]
  BY DEF TypeOK
<1>2. (IF acted[a][i] < MaxActs THEN acted[a][i] + 1 ELSE acted[a][i]) \in 0 .. MaxActs
  BY <1>1 DEF MaxActs
<1>3. acted' \in [Actions -> [Steps -> 0 .. MaxActs]]
  BY <1>1, <1>2 DEF CarriedOut, TypeOK
<1>4. read[a] \subseteq People /\ attendees \subseteq People
  BY DEF TypeOK
<1>5. attendees' \in SUBSET People
  BY <1>4, CallShape DEF CarriedOut, Merged
<1> QED BY <1>3, <1>5 DEF WorldOK

LEMMA AcceptType ==
    ASSUME TypeOK, NEW a \in Actions, Calling(a), Accept(a) \/ Ignored
    PROVE  WorldOK
<1>1. CASE UNCHANGED <<acted, attendees>>
  BY <1>1 DEF TypeOK, WorldOK
<1>2. CASE CarriedOut(a, at[a])
  BY <1>2, CurrentShape, CarriedOutType DEF Steps
<1> QED BY <1>1, <1>2 DEF Accept, Ignored

LEMMA ToolsStay ==
    ASSUME TypeOK, UNCHANGED tool
    PROVE  /\ tool' \in [Actions -> Tool]
           /\ \A a \in Actions : tool'[a] \in Tools[a]
BY DEF TypeOK

\* Every step of a tool call, of Microsoft 365 and of other people keeps the
\* types.
LEMMA TypeStep == TypeOK /\ [Next]_vars => TypeOK'
<1> SUFFICES ASSUME TypeOK, [Next]_vars PROVE TypeOK'
  OBVIOUS
<1>1. ASSUME NEW a \in Actions, Ask(a) PROVE TypeOK'
  <2>1. StageOK(a)
    BY <1>1, MoveToType DEF Ask, Phases
  <2> QED BY <1>1, <2>1, ToolsStay DEF Ask, TypeOK, StageOK, CursorOK
<1>2. ASSUME NEW a \in Actions, Rejected(a) PROVE TypeOK'
  <2>1. StageOK(a)
    BY <1>2, EndType DEF Rejected, Reports
  <2> QED BY <1>2, <2>1, ToolsStay DEF Rejected, TypeOK, StageOK, CursorOK
<1>3. ASSUME NEW a \in Actions, Prepared(a) PROVE TypeOK'
  <2>1. StageOK(a)
    BY <1>3, MoveToType DEF Prepared, Phases
  <2> QED BY <1>3, <2>1, ToolsStay DEF Prepared, TypeOK, StageOK, CursorOK
<1>4. ASSUME NEW a \in Actions, Approve(a) PROVE TypeOK'
  <2>1. StageOK(a)
    BY <1>4, MoveToType DEF Approve, Phases
  <2> QED BY <1>4, <2>1, ToolsStay DEF Approve, TypeOK, StageOK, CursorOK
<1>5. ASSUME NEW a \in Actions, Decline(a) PROVE TypeOK'
  <2>1. StageOK(a)
    BY <1>5, EndType DEF Decline, Reports
  <2> QED BY <1>5, <2>1, ToolsStay DEF Decline, TypeOK, StageOK, CursorOK
<1>6. ASSUME NEW a \in Actions, Succeed(a) PROVE TypeOK'
  <2>1. StageOK(a)
    BY <1>6, EndType DEF Succeed, Reports
  <2> QED BY <1>6, <2>1, ToolsStay DEF Succeed, TypeOK, StageOK, CursorOK
<1>7. ASSUME NEW a \in Actions, Answer(a) PROVE TypeOK'
  <2>1. CursorOK(a)
    BY <1>7, NextPageType, NextCallType DEF Answer
  <2>2. WorldOK
    BY <1>7, AcceptType DEF Answer
  <2>3. read' \in [Actions -> SUBSET People]
    BY <1>7 DEF Answer, TypeOK
  <2> QED BY <1>7, <2>1, <2>2, <2>3, ToolsStay DEF Answer, TypeOK, WorldOK, CursorOK
<1>8. ASSUME NEW a \in Actions, Skip(a) PROVE TypeOK'
  <2>1. CursorOK(a)
    BY <1>8, NextCallType DEF Skip
  <2> QED BY <1>8, <2>1, ToolsStay DEF Skip, TypeOK, CursorOK
<1>9. ASSUME NEW a \in Actions, Busy(a) PROVE TypeOK'
  <2>1. StageOK(a) /\ WorldOK
    BY <1>9, RetryOrFailType, AcceptType DEF Busy
  <2> QED BY <1>9, <2>1, ToolsStay DEF Busy, TypeOK, StageOK, CursorOK, WorldOK
<1>10. ASSUME NEW a \in Actions, Broken(a) PROVE TypeOK'
  <2>1. StageOK(a) /\ WorldOK
    BY <1>10, RetryOrFailType, AcceptType DEF Broken
  <2> QED BY <1>10, <2>1, ToolsStay DEF Broken, TypeOK, StageOK, CursorOK, WorldOK
<1>11. ASSUME NEW a \in Actions, Refused(a) PROVE TypeOK'
  <2>1. StageOK(a) /\ WorldOK
    BY <1>11, FailsType, AcceptType DEF Refused
  <2> QED BY <1>11, <2>1, ToolsStay DEF Refused, TypeOK, StageOK, CursorOK, WorldOK
<1>12. ASSUME NEW a \in Actions, Lost(a) PROVE TypeOK'
  <2>1. StageOK(a) /\ WorldOK
    BY <1>12, FailsType, AcceptType DEF Lost
  <2>2. adrift' \in [Actions -> 0 .. MaxSteps]
    <3>1. at[a] \in 0 .. MaxSteps /\ 0 \in 0 .. MaxSteps
      BY <1>12, CurrentShape DEF Lost, MaxSteps
    <3> QED BY <1>12, <3>1 DEF Lost, TypeOK
  <2> QED BY <1>12, <2>1, <2>2, ToolsStay DEF Lost, TypeOK, StageOK, CursorOK, WorldOK
<1>13. ASSUME NEW a \in Actions, Cut(a) PROVE TypeOK'
  <2>1. StageOK(a) /\ WorldOK
    BY <1>13, FailsType, AcceptType DEF Cut
  <2> QED BY <1>13, <2>1, ToolsStay DEF Cut, TypeOK, StageOK, CursorOK, WorldOK
<1>14. ASSUME NEW a \in Actions, Throws(a) PROVE TypeOK'
  <2>1. Outcome(a, TRUE) \in Reports
    BY DEF Outcome, Reports
  <2>2. StageOK(a)
    BY <1>14, <2>1, EndType DEF Throws
  <2> QED BY <1>14, <2>2, ToolsStay DEF Throws, TypeOK, StageOK, CursorOK
<1>15. ASSUME NEW a \in Actions, Lands(a) PROVE TypeOK'
  <2>1. adrift[a] \in Steps /\ 0 \in 0 .. MaxSteps
    BY <1>15 DEF Lands, TypeOK, Steps, MaxSteps
  <2>2. WorldOK
    BY <1>15, <2>1, CarriedOutType DEF Lands
  <2> QED BY <1>15, <2>1, <2>2, ToolsStay DEF Lands, TypeOK, WorldOK, cursor
<1>16. ASSUME NEW a \in Actions, Dies(a) PROVE TypeOK'
  <2>1. StageOK(a)
    BY <1>16, EndType DEF Dies, Reports
  <2>2. Calling(a) => at[a] \in 0 .. MaxSteps
    BY CurrentShape DEF MaxSteps
  <2>3. 0 \in 0 .. MaxSteps
    BY DEF MaxSteps
  <2>4. adrift' \in [Actions -> 0 .. MaxSteps]
    BY <1>16, <2>2, <2>3 DEF Dies, TypeOK
  <2> QED BY <1>16, <2>1, <2>4, ToolsStay DEF Dies, TypeOK, StageOK, CursorOK
<1>17. CASE EditedInOutlook
  BY <1>17, ToolsStay DEF EditedInOutlook, TypeOK, cursor
<1>18. CASE UNCHANGED vars
  BY <1>18, ToolsStay DEF vars, cursor, TypeOK
<1> QED BY <1>1, <1>2, <1>3, <1>4, <1>5, <1>6, <1>7, <1>8, <1>9, <1>10, <1>11, <1>12,
           <1>13, <1>14, <1>15, <1>16, <1>17, <1>18 DEF Next, Progress

LEMMA InitType == Init => TypeOK
<1> SUFFICES ASSUME Init PROVE TypeOK
  OBVIOUS
<1>1. /\ tool \in [Actions -> UNION {Tools[a] : a \in Actions}]
      /\ \A a \in Actions : tool[a] \in Tools[a]
  BY DEF Init
<1>2. \A a \in Actions : Tools[a] \subseteq Tool
  BY ToolsAssumption
<1>3. tool \in [Actions -> Tool]
  BY <1>1, <1>2
<1>4. /\ 1 \in 1 .. MaxSteps + 1 /\ 0 \in 0 .. MaxSteps /\ 0 \in 0 .. MaxActs
  BY DEF MaxSteps, MaxActs
<1> QED BY <1>1, <1>3, <1>4 DEF Init, TypeOK, Phases, Reports

\* Every variable holds a value of its kind, the cursor stays within the calls
\* of the tool and no attempt is counted past the third (client.ts).
THEOREM TypeCorrect == Spec => []TypeOK
<1> QED BY InitType, TypeStep, PTL DEF Spec

-----------------------------------------------------------------------------
(* A step of one action leaves the others alone.                            *)

Untold(a) == \A b \in Actions \ {a} :
                phase'[b] = phase[b] /\ at'[b] = at[b] /\ report'[b] = report[b]
Unmoved(a) == \A b \in Actions \ {a} : acted'[b] = acted[b]
Undrifted(a) == \A b \in Actions \ {a} : adrift'[b] = adrift[b]

LEMMA FailsIsOwn ==
    ASSUME TypeOK, NEW a \in Actions, NEW confirmed,
           Fails(a, confirmed) \/ RetryOrFail(a, confirmed)
    PROVE  Untold(a)
BY DEF Fails, RetryOrFail, Again, NextCall, End, MoveTo, Restart, Untold, TypeOK

LEMMA AcceptIsOwn ==
    ASSUME TypeOK, NEW a \in Actions, Accept(a) \/ Ignored
    PROVE  Unmoved(a)
BY DEF Accept, Ignored, CarriedOut, Unmoved, TypeOK

LEMMA OthersKeep ==
    ASSUME NEW b \in Actions, ActionInv(b), UNCHANGED tool,
           phase'[b] = phase[b], at'[b] = at[b], report'[b] = report[b],
           acted'[b] = acted[b], adrift'[b] = adrift[b]
    PROVE  ActionInv(b)'
BY DEF ActionInv, Untouched, CursorTells, AdriftIsNext, InOrder, Truth, ChangingSteps

LEMMA OwnStep ==
    ASSUME NEW a \in Actions, \A b \in Actions : ActionInv(b), UNCHANGED tool,
           Untold(a), Unmoved(a), Undrifted(a), ActionInv(a)'
    PROVE  \A b \in Actions : ActionInv(b)'
<1> TAKE b \in Actions
<1>1. CASE b = a
  BY <1>1
<1>2. CASE b # a
  BY <1>2, OthersKeep DEF Untold, Unmoved, Undrifted
<1> QED BY <1>1, <1>2

-----------------------------------------------------------------------------
(* The ways in which an action may move, for the action itself.             *)

\* It is still before its approval.
LEMMA StillBefore ==
    ASSUME NEW a \in Actions, ActionInv(a), UNCHANGED tool,
           phase[a] \in {"idle", "preview", "asked"},
           phase'[a] \in {"idle", "preview", "asked"},
           phase'[a] = "preview" => at'[a] <= Len(tool[a].preview) + 1,
           report'[a] = report[a], acted'[a] = acted[a], adrift'[a] = adrift[a]
    PROVE  ActionInv(a)'
BY DEF ActionInv, Untouched, CursorTells, AdriftIsNext, InOrder, Truth, ChangingSteps

\* It ends there, with nothing changed and no success reported.
LEMMA EndsBefore ==
    ASSUME TypeOK, NEW a \in Actions, ActionInv(a), UNCHANGED tool,
           phase[a] \in {"idle", "preview", "asked"}, phase'[a] = "done",
           report'[a] # "success", acted'[a] = acted[a], adrift'[a] = 0
    PROVE  ActionInv(a)'
<1>1. \A i \in ChangingSteps(a) : i # 0
  BY ChangingCall
<1> QED BY <1>1 DEF ActionInv, Untouched, CursorTells, AdriftIsNext, InOrder, Truth, ChangingSteps

\* It is executed, and its cursor tells what was carried out.
LEMMA StillExecuting ==
    ASSUME TypeOK, NEW a \in Actions, UNCHANGED tool,
           phase'[a] = "execute", report'[a] = "none", adrift'[a] = 0,
           at'[a] \in Nat, at'[a] <= Len(tool[a].execute) + 1,
           \A i \in ChangingSteps(a) : acted'[a][i] = IF i < at'[a] THEN 1 ELSE 0
    PROVE  ActionInv(a)'
<1>1. ChangingSteps(a)' = ChangingSteps(a)
  BY DEF ChangingSteps
<1>2. \A i \in ChangingSteps(a) : i \in Nat
  BY ChangingCall DEF Steps, MaxSteps
<1>3. InOrder(a)'
  BY <1>1, <1>2 DEF InOrder
<1> QED BY <1>1, <1>3 DEF ActionInv, Untouched, CursorTells, AdriftIsNext, Truth

\* It ends while it is executed, when the changing calls before n were carried
\* out; call n may be adrift.
LEMMA EndsWithin ==
    ASSUME TypeOK, NEW a \in Actions, UNCHANGED tool, phase'[a] = "done",
           NEW n \in Nat,
           \A i \in ChangingSteps(a) : acted'[a][i] = IF i < n THEN 1 ELSE 0,
           adrift'[a] # 0 => adrift'[a] = n /\ n \in ChangingSteps(a),
           report'[a] \notin {"unprepared", "declined"},
           report'[a] = "success" => \A i \in ChangingSteps(a) : i < n,
           report'[a] = "failed" =>
             \A i \in ChangingSteps(a) : tool[a].execute[i].effect = "send" =>
                 ~(i < n) /\ adrift'[a] # i
    PROVE  ActionInv(a)'
<1>1. ChangingSteps(a)' = ChangingSteps(a)
  BY DEF ChangingSteps
<1>2. \A i \in ChangingSteps(a) : i \in Nat
  BY ChangingCall DEF Steps, MaxSteps
<1>3. InOrder(a)'
  BY <1>1, <1>2 DEF InOrder
<1>4. AdriftIsNext(a)'
  BY <1>1, <1>2 DEF AdriftIsNext
<1>5. Truth(a)'
  BY <1>1, <1>2 DEF Truth
<1> QED BY <1>3, <1>4, <1>5 DEF ActionInv

-----------------------------------------------------------------------------
(* What the answers of Microsoft 365 do to the count.                       *)

LEMMA IgnoredKeeps ==
    ASSUME NEW a \in Actions, ActionInv(a), phase[a] = "execute", Ignored
    PROVE  \A i \in ChangingSteps(a) : acted'[a][i] = IF i < at[a] THEN 1 ELSE 0
BY DEF ActionInv, CursorTells, Ignored

LEMMA AcceptCounts ==
    ASSUME TypeOK, NEW a \in Actions, ActionInv(a), phase[a] = "execute",
           Calling(a), Accept(a)
    PROVE  \A i \in ChangingSteps(a) : acted'[a][i] = IF i < at[a] + 1 THEN 1 ELSE 0
<1>1. at[a] \in Nat /\ \A i \in ChangingSteps(a) : i \in Nat
  BY CurrentShape, ChangingCall DEF Steps, MaxSteps
<1>2. \A i \in ChangingSteps(a) : acted[a][i] = IF i < at[a] THEN 1 ELSE 0
  BY DEF ActionInv, CursorTells
<1>3. CASE ~Changes(a)
  <2>1. acted' = acted /\ at[a] \notin ChangingSteps(a)
    BY <1>3, CurrentShape DEF Accept
  <2> QED BY <2>1, <1>1, <1>2
<1>4. CASE Changes(a)
  <2>1. CarriedOut(a, at[a]) /\ at[a] \in ChangingSteps(a) /\ at[a] \in Steps
    BY <1>4, CurrentShape DEF Accept, Steps
  <2>2. acted[a] \in [Steps -> 0 .. MaxActs] /\ acted \in [Actions -> [Steps -> 0 .. MaxActs]]
    BY DEF TypeOK
  <2>3. acted[a][at[a]] = 0 /\ 0 < MaxActs
    BY <2>1, <1>1, <1>2 DEF MaxActs
  <2>4. acted'[a] = [acted[a] EXCEPT ![at[a]] = 1]
    BY <2>1, <2>2, <2>3 DEF CarriedOut
  <2>5. \A i \in ChangingSteps(a) : i \in Steps
    BY ChangingCall
  <2>6. \A i \in ChangingSteps(a) : acted'[a][i] = IF i = at[a] THEN 1 ELSE acted[a][i]
    BY <2>2, <2>4, <2>5
  <2> QED BY <2>6, <1>1, <1>2
<1> QED BY <1>3, <1>4

\* A preview changes nothing, whatever is answered.
LEMMA PreviewChangesNothing ==
    ASSUME NEW a \in Actions, phase[a] = "preview", Accept(a) \/ Ignored
    PROVE  acted'[a] = acted[a]
BY DEF Accept, Ignored, Changes

-----------------------------------------------------------------------------
(* A failure, of any kind.                                                  *)

\* A call failed and its tool goes on without it: it changed nothing.
LEMMA SparedGoesOn ==
    ASSUME TypeOK, NEW a \in Actions, ActionInv(a), Calling(a), UNCHANGED tool,
           Current(a).need # "always", Accept(a) \/ Ignored, adrift'[a] = 0,
           NextCall(a), UNCHANGED <<phase, report>>
    PROVE  ActionInv(a)'
<1>1. at'[a] = at[a] + 1 /\ at[a] \in 1 .. Len(Calls(a)) /\ Len(Calls(a)) \in Nat
  BY CurrentShape, CallShape DEF NextCall, TypeOK, MaxSteps
<1>2. CASE phase[a] = "preview"
  <2>1. at'[a] <= Len(tool[a].preview) + 1
    BY <1>1, <1>2 DEF Calls
  <2>2. acted'[a] = acted[a] /\ adrift[a] = 0
    BY <1>2, PreviewChangesNothing DEF ActionInv, Untouched
  <2> QED BY <1>2, <2>1, <2>2, StillBefore
<1>3. CASE phase[a] = "execute"
  <2>1. ~Changes(a) /\ at[a] \notin ChangingSteps(a)
    BY <1>3, CurrentShape, ChangingCall
  <2>2. acted' = acted
    BY <2>1 DEF Accept, Ignored
  <2>3. \A i \in ChangingSteps(a) : acted'[a][i] = IF i < at[a] + 1 THEN 1 ELSE 0
    <3>1. \A i \in ChangingSteps(a) : i \in Nat /\ i # at[a]
      BY <2>1, ChangingCall DEF Steps, MaxSteps
    <3> QED BY <2>2, <3>1, <1>1, <1>3 DEF ActionInv, CursorTells
  <2>4. at'[a] <= Len(tool[a].execute) + 1 /\ at'[a] \in Nat
    BY <1>1, <1>3 DEF Calls
  <2> QED BY <1>1, <1>3, <2>3, <2>4, StillExecuting DEF ActionInv
<1> QED BY <1>2, <1>3 DEF Calling, Running

\* A call fails: n is the place before which everything was carried out, and a
\* plain failure may be reported only where no mail can have left.
LEMMA FailsKeeps ==
    ASSUME TypeOK, NEW a \in Actions, ActionInv(a), Calling(a), UNCHANGED tool,
           NEW confirmed \in BOOLEAN, Fails(a, confirmed), Accept(a) \/ Ignored,
           adrift'[a] # 0 => Ignored /\ Changes(a) /\ adrift'[a] = at[a] /\ ~confirmed,
           Changes(a) /\ confirmed => Ignored \/ Current(a).body
    PROVE  ActionInv(a)'
<1>1. CASE Current(a).need = "spared"
  <2>1. adrift'[a] = 0
    BY <1>1, CurrentShape, ChangingCall
  <2> QED BY <1>1, <2>1, SparedGoesOn DEF Fails
<1>2. CASE Current(a).need # "spared" /\ phase[a] = "preview"
  <2>1. phase'[a] = "done" /\ report'[a] = "unprepared"
    BY <1>2 DEF Fails, End, MoveTo, Outcome, TypeOK
  <2>2. acted'[a] = acted[a] /\ adrift'[a] = 0
    BY <1>2, PreviewChangesNothing DEF Changes
  <2> QED BY <1>2, <2>1, <2>2, EndsBefore
<1>3. CASE Current(a).need # "spared" /\ phase[a] = "execute"
  <2>1. /\ phase'[a] = "done"
        /\ report'[a] = IF tool[a].asks /\ ~confirmed THEN "uncertain" ELSE "failed"
    BY <1>3 DEF Fails, End, MoveTo, Outcome, TypeOK
  <2>2. at[a] \in Nat /\ at[a] + 1 \in Nat /\ Calls(a) = tool[a].execute
        /\ at[a] <= Len(tool[a].execute) /\ Len(tool[a].execute) \in Nat
    BY <1>3, CurrentShape, CallShape DEF Calls
  <2>3. \A i \in ChangingSteps(a) :
            /\ i \in Nat /\ tool[a].asks
            /\ tool[a].execute[i].effect = "send" => i = Len(tool[a].execute)
    BY ChangingCall DEF Steps, MaxSteps
  <2>4. CASE Ignored
    <3>1. \A i \in ChangingSteps(a) : acted'[a][i] = IF i < at[a] THEN 1 ELSE 0
      BY <1>3, <2>4, IgnoredKeeps
    <3>2. adrift'[a] # 0 => adrift'[a] = at[a] /\ at[a] \in ChangingSteps(a)
      BY CurrentShape
    <3>3. report'[a] = "failed" => \A i \in ChangingSteps(a) :
             tool[a].execute[i].effect = "send" => ~(i < at[a]) /\ adrift'[a] # i
      <4>1. report'[a] = "failed" => \A i \in ChangingSteps(a) : adrift'[a] = 0
        BY <2>1, <2>3
      <4>2. \A i \in ChangingSteps(a) : i # 0
        BY ChangingCall
      <4> QED BY <4>1, <4>2, <2>2, <2>3
    <3> QED BY <2>1, <2>2, <3>1, <3>2, <3>3, EndsWithin
  <2>5. CASE Accept(a) /\ ~Ignored
    <3>1. \A i \in ChangingSteps(a) : acted'[a][i] = IF i < at[a] + 1 THEN 1 ELSE 0
      BY <1>3, <2>5, AcceptCounts
    <3>2. adrift'[a] = 0 /\ Changes(a)
      BY <2>5 DEF Accept, Ignored
    <3>3. report'[a] = "failed" => \A i \in ChangingSteps(a) :
             tool[a].execute[i].effect = "send" => ~(i < at[a] + 1) /\ adrift'[a] # i
      <4> SUFFICES ASSUME report'[a] = "failed", NEW i \in ChangingSteps(a),
                          tool[a].execute[i].effect = "send"
                   PROVE  ~(i < at[a] + 1) /\ adrift'[a] # i
        OBVIOUS
      <4>1. confirmed /\ Current(a).body /\ Current(a) = tool[a].execute[at[a]]
        BY <2>1, <2>3, <2>5, <3>2, CurrentShape
      <4>2. i = Len(tool[a].execute) /\ ~tool[a].execute[i].body /\ i # 0
        BY ChangingCall
      <4>3. i # at[a]
        BY <4>1, <4>2
      <4> QED BY <4>2, <4>3, <2>2, <3>2
    <3> QED BY <2>1, <2>2, <3>1, <3>2, <3>3, EndsWithin
  <2> QED BY <2>4, <2>5
<1> QED BY <1>1, <1>2, <1>3 DEF Calling, Running

\* A request that is sent again changed nothing, so the cursor stands.
LEMMA RetryOrFailKeeps ==
    ASSUME TypeOK, NEW a \in Actions, ActionInv(a), Calling(a), UNCHANGED <<tool, adrift>>,
           NEW confirmed \in BOOLEAN, RetryOrFail(a, confirmed), Accept(a) \/ Ignored,
           Changes(a) /\ confirmed => Ignored
    PROVE  ActionInv(a)'
<1>1. adrift'[a] = 0
  BY DEF Calling, Running, ActionInv, Untouched, CursorTells
<1>2. CASE attempt[a] < MaxAttempts(Current(a))
  <2>1. UNCHANGED <<phase, at, report>>
    BY <1>2 DEF RetryOrFail, Again
  <2>2. ~Changes(a)
    <3>1. attempt[a] \in 1 .. 3
      BY DEF TypeOK
    <3>2. Changes(a) => MaxAttempts(Current(a)) = 1
      BY CurrentShape, ChangingCall
    <3> QED BY <1>2, <3>1, <3>2
  <2>3. acted' = acted
    BY <2>2 DEF Accept, Ignored
  <2> QED BY <2>1, <2>3, OthersKeep
<1>3. CASE ~(attempt[a] < MaxAttempts(Current(a)))
  <2>1. Fails(a, confirmed)
    BY <1>3 DEF RetryOrFail
  <2> QED BY <1>1, <2>1, FailsKeeps
<1> QED BY <1>2, <1>3

\* An answer takes the cursor past the call that was carried out.
LEMMA AnswerKeeps ==
    ASSUME TypeOK, NEW a \in Actions, ActionInv(a), Answer(a)
    PROVE  ActionInv(a)'
<1>1. /\ Calling(a) /\ Accept(a) /\ UNCHANGED <<tool, phase, adrift, report>>
      /\ NextPage(a) \/ NextCall(a)
  BY DEF Answer
<1>2. adrift[a] = 0
  BY <1>1 DEF Calling, Running, ActionInv, Untouched, CursorTells
<1>3. /\ at[a] \in 1 .. Len(Calls(a)) /\ Len(Calls(a)) \in Nat
      /\ NextCall(a) => at'[a] = at[a] + 1
      /\ NextPage(a) => at'[a] = at[a]
  BY <1>1, CurrentShape, CallShape DEF NextCall, NextPage, TypeOK
<1>4. CASE phase[a] = "preview"
  <2>1. at'[a] <= Len(tool[a].preview) + 1
    BY <1>1, <1>3, <1>4 DEF Calls
  <2>2. acted'[a] = acted[a]
    BY <1>1, <1>4, PreviewChangesNothing
  <2> QED BY <1>1, <1>4, <2>1, <2>2, StillBefore
<1>5. CASE phase[a] = "execute"
  <2>1. \A i \in ChangingSteps(a) : acted'[a][i] = IF i < at[a] + 1 THEN 1 ELSE 0
    BY <1>1, <1>5, AcceptCounts
  <2>2. NextPage(a) => at[a] \notin ChangingSteps(a)
    <3> SUFFICES ASSUME NextPage(a), at[a] \in ChangingSteps(a) PROVE FALSE
      OBVIOUS
    <3>1. Current(a).pages = 1
      BY <1>1, <1>5, CurrentShape, ChangingCall
    <3>2. page[a] \in 1 .. 2
      BY DEF TypeOK
    <3> QED BY <3>1, <3>2 DEF NextPage
  <2>3. \A i \in ChangingSteps(a) : i \in Nat
    BY ChangingCall DEF Steps, MaxSteps
  <2>4. \A i \in ChangingSteps(a) : acted'[a][i] = IF i < at'[a] THEN 1 ELSE 0
    BY <1>1, <1>3, <2>1, <2>2, <2>3
  <2>5. at'[a] \in Nat /\ at'[a] <= Len(tool[a].execute) + 1
    BY <1>1, <1>3, <1>5 DEF Calls
  <2>6. report'[a] = "none"
    BY <1>1, <1>5 DEF ActionInv
  <2> QED BY <1>1, <1>2, <1>5, <2>4, <2>5, <2>6, StillExecuting
<1> QED BY <1>1, <1>4, <1>5 DEF Calling, Running

\* The tool's own code throws: no mail has left, since the answer before it is read.
LEMMA ThrowsKeeps ==
    ASSUME TypeOK, NEW a \in Actions, ActionInv(a), Throws(a)
    PROVE  ActionInv(a)'
<1>1. /\ Running(a) /\ End(a, Outcome(a, TRUE)) /\ UNCHANGED <<tool, acted, adrift>>
      /\ at[a] > 1 => Calls(a)[at[a] - 1].body
  BY DEF Throws
<1>2. adrift'[a] = 0
  BY <1>1 DEF Running, ActionInv, Untouched, CursorTells
<1>3. CASE phase[a] = "preview"
  <2>1. phase'[a] = "done" /\ report'[a] = "unprepared"
    BY <1>1, <1>3 DEF End, MoveTo, Outcome, TypeOK
  <2> QED BY <1>1, <1>2, <1>3, <2>1, EndsBefore
<1>4. CASE phase[a] = "execute"
  <2>1. phase'[a] = "done" /\ report'[a] = "failed"
    BY <1>1, <1>4 DEF End, MoveTo, Outcome, TypeOK
  <2>2. /\ at[a] \in Nat /\ at[a] >= 1 /\ at[a] <= Len(tool[a].execute) + 1
        /\ \A i \in ChangingSteps(a) : acted'[a][i] = IF i < at[a] THEN 1 ELSE 0
    BY <1>1, <1>4 DEF ActionInv, CursorTells, TypeOK
  <2>3. ASSUME NEW i \in ChangingSteps(a), tool[a].execute[i].effect = "send"
        PROVE  ~(i < at[a]) /\ adrift'[a] # i
    <3>1. /\ i = Len(tool[a].execute) /\ ~tool[a].execute[i].body
          /\ i \in 1 .. Len(tool[a].execute) /\ i # 0
      BY <2>3, ChangingCall
    <3>2. ASSUME i < at[a] PROVE FALSE
      <4>1. at[a] > 1 /\ at[a] - 1 = i
        BY <2>2, <3>1, <3>2
      <4>2. Calls(a) = tool[a].execute
        BY <1>4 DEF Calls
      <4> QED BY <1>1, <3>1, <4>1, <4>2
    <3> QED BY <1>2, <3>1, <3>2
  <2> QED BY <1>1, <1>2, <2>1, <2>2, <2>3, EndsWithin
<1> QED BY <1>1, <1>3, <1>4 DEF Running

\* A request that was lost is carried out: it was the next one in order, and
\* no mail if a plain failure was reported.
LEMMA LandsKeeps ==
    ASSUME TypeOK, NEW a \in Actions, ActionInv(a), Lands(a)
    PROVE  ActionInv(a)'
<1> DEFINE k == adrift[a]
<1>1. /\ k # 0 /\ adrift'[a] = 0 /\ CarriedOut(a, k)
      /\ UNCHANGED <<tool, phase, at, report>>
  BY DEF Lands, TypeOK, cursor
<1>2. /\ k \in ChangingSteps(a) /\ acted[a][k] = 0 /\ k \in Steps
      /\ \A j \in ChangingSteps(a) : j < k => acted[a][j] = 1
  BY <1>1, ChangingCall DEF ActionInv, AdriftIsNext
<1>3. phase[a] = "done"
  BY <1>1 DEF ActionInv, Untouched, CursorTells, TypeOK, Phases
<1>4. \A i \in ChangingSteps(a) : i \in Steps /\ i \in Nat
  BY ChangingCall DEF Steps, MaxSteps
<1>5. \A i \in ChangingSteps(a) : acted'[a][i] = IF i = k THEN 1 ELSE acted[a][i]
  <2>1. acted[a] \in [Steps -> 0 .. MaxActs] /\ acted \in [Actions -> [Steps -> 0 .. MaxActs]]
    BY DEF TypeOK
  <2>2. acted'[a] = [acted[a] EXCEPT ![k] = 1]
    BY <1>1, <1>2, <2>1 DEF CarriedOut, MaxActs
  <2> QED BY <1>4, <2>1, <2>2
<1> HIDE DEF k
<1>6. ChangingSteps(a)' = ChangingSteps(a)
  BY <1>1 DEF ChangingSteps
<1>7. InOrder(a)'
  <2>1. InOrder(a)
    BY DEF ActionInv
  <2>2. \A i \in ChangingSteps(a) :
          acted'[a][i] <= 1 /\ (acted'[a][i] = 1 => \A j \in ChangingSteps(a) : j < i => acted'[a][j] = 1)
    BY <2>1, <1>2, <1>4, <1>5 DEF InOrder
  <2> QED BY <1>1, <1>3, <1>6, <2>2 DEF InOrder
<1>8. Truth(a)'
  <2>1. Truth(a) /\ adrift[a] = k /\ k # 0
    BY <1>1 DEF ActionInv, k
  <2>2. report[a] \notin {"unprepared", "declined"}
    BY <2>1 DEF Truth, Untouched
  <2>3. report[a] = "success" => \A i \in ChangingSteps(a) : acted'[a][i] = 1
    BY <2>1, <1>5 DEF Truth
  <2>4. report[a] = "failed" => \A i \in ChangingSteps(a) :
           tool[a].execute[i].effect = "send" => acted'[a][i] = 0 /\ 0 # i
    BY <2>1, <1>5, ChangingCall DEF Truth
  <2> QED BY <1>1, <1>6, <2>2, <2>3, <2>4 DEF Truth
<1> QED BY <1>1, <1>3, <1>7, <1>8 DEF ActionInv, AdriftIsNext

-----------------------------------------------------------------------------
(* The invariant, and what follows.                                         *)

LEMMA InitInv == Init => IInv
<1> SUFFICES ASSUME Init PROVE IInv
  OBVIOUS
<1>1. TypeOK
  BY InitType
<1>2. ASSUME NEW a \in Actions PROVE ActionInv(a)
  <2>1. /\ phase[a] = "idle" /\ adrift[a] = 0 /\ report[a] = "none"
        /\ acted[a] = [i \in Steps |-> 0]
    BY DEF Init
  <2>2. \A i \in ChangingSteps(a) : acted[a][i] = 0
    BY <1>1, <2>1, ChangingCall
  <2> QED BY <2>1, <2>2 DEF ActionInv, Untouched, CursorTells, AdriftIsNext, InOrder, Truth
<1> QED BY <1>1, <1>2 DEF IInv

LEMMA Step == IInv /\ [Next]_vars => \A b \in Actions : ActionInv(b)'
<1> SUFFICES ASSUME IInv, [Next]_vars PROVE \A b \in Actions : ActionInv(b)'
  OBVIOUS
<1>0. TypeOK /\ \A b \in Actions : ActionInv(b)
  BY DEF IInv
<1>1. ASSUME NEW a \in Actions, Ask(a) PROVE \A b \in Actions : ActionInv(b)'
  <2>1. /\ Untold(a) /\ Unmoved(a) /\ Undrifted(a) /\ at'[a] = 1
        /\ phase'[a] = IF tool[a].asks THEN "preview" ELSE "execute"
    BY <1>0, <1>1 DEF Ask, MoveTo, Restart, Untold, Unmoved, Undrifted, TypeOK
  <2>2. Untouched(a) /\ report[a] = "none"
    BY <1>0, <1>1 DEF ActionInv, Ask
  <2>3. CASE tool[a].asks
    <3>1. 1 <= Len(tool[a].preview) + 1
      BY <1>0, CallShape
    <3>2. ActionInv(a)'
      BY <1>0, <1>1, <2>1, <2>3, <3>1, StillBefore DEF Ask
    <3> QED BY <1>0, <1>1, <2>1, <3>2, OwnStep DEF Ask
  <2>4. CASE ~tool[a].asks
    <3>1. 1 <= Len(tool[a].execute) + 1
      BY <1>0, CallShape
    <3>2. \A i \in ChangingSteps(a) : FALSE
      BY <1>0, <2>4, ChangingCall
    <3>3. ActionInv(a)'
      BY <1>0, <1>1, <2>1, <2>2, <2>4, <3>1, <3>2, StillExecuting DEF Ask, Untouched
    <3> QED BY <1>0, <1>1, <2>1, <3>3, OwnStep DEF Ask
  <2> QED BY <2>3, <2>4
<1>2. ASSUME NEW a \in Actions, Rejected(a) PROVE \A b \in Actions : ActionInv(b)'
  <2>1. /\ Untold(a) /\ Unmoved(a) /\ Undrifted(a)
        /\ phase'[a] = "done" /\ report'[a] \in {"unprepared", "failed"}
    BY <1>0, <1>2 DEF Rejected, End, MoveTo, Restart, Untold, Unmoved, Undrifted, TypeOK
  <2>2. ActionInv(a)'
    BY <1>0, <1>2, <2>1, EndsBefore DEF Rejected, ActionInv, Untouched
  <2> QED BY <1>0, <1>2, <2>1, <2>2, OwnStep DEF Rejected
<1>3. ASSUME NEW a \in Actions, Prepared(a) PROVE \A b \in Actions : ActionInv(b)'
  <2>1. /\ Untold(a) /\ Unmoved(a) /\ Undrifted(a) /\ phase'[a] = "asked"
    BY <1>0, <1>3 DEF Prepared, MoveTo, Restart, Untold, Unmoved, Undrifted, TypeOK
  <2>2. ActionInv(a)'
    BY <1>0, <1>3, <2>1, StillBefore DEF Prepared
  <2> QED BY <1>0, <1>3, <2>1, <2>2, OwnStep DEF Prepared
<1>4. ASSUME NEW a \in Actions, Approve(a) PROVE \A b \in Actions : ActionInv(b)'
  <2>1. /\ Untold(a) /\ Unmoved(a) /\ Undrifted(a) /\ phase'[a] = "execute" /\ at'[a] = 1
    BY <1>0, <1>4 DEF Approve, MoveTo, Restart, Untold, Unmoved, Undrifted, TypeOK
  <2>2. Untouched(a) /\ report[a] = "none"
    BY <1>0, <1>4 DEF ActionInv, Approve
  <2>3. 1 <= Len(tool[a].execute) + 1
    BY <1>0, CallShape
  <2>4. \A i \in ChangingSteps(a) : i \in Nat /\ i >= 1
    BY <1>0, ChangingCall DEF Steps, MaxSteps
  <2>5. ActionInv(a)'
    BY <1>0, <1>4, <2>1, <2>2, <2>3, <2>4, StillExecuting DEF Approve, Untouched
  <2> QED BY <1>0, <1>4, <2>1, <2>5, OwnStep DEF Approve
<1>5. ASSUME NEW a \in Actions, Decline(a) PROVE \A b \in Actions : ActionInv(b)'
  <2>1. /\ Untold(a) /\ Unmoved(a) /\ Undrifted(a)
        /\ phase'[a] = "done" /\ report'[a] = "declined"
    BY <1>0, <1>5 DEF Decline, End, MoveTo, Restart, Untold, Unmoved, Undrifted, TypeOK
  <2>2. ActionInv(a)'
    BY <1>0, <1>5, <2>1, EndsBefore DEF Decline, ActionInv, Untouched
  <2> QED BY <1>0, <1>5, <2>1, <2>2, OwnStep DEF Decline
<1>6. ASSUME NEW a \in Actions, Succeed(a) PROVE \A b \in Actions : ActionInv(b)'
  <2>1. /\ Untold(a) /\ Unmoved(a) /\ Undrifted(a)
        /\ phase'[a] = "done" /\ report'[a] = "success"
    BY <1>0, <1>6 DEF Succeed, End, MoveTo, Restart, Untold, Unmoved, Undrifted, TypeOK
  <2>2. CursorTells(a) /\ at[a] \in Nat
    BY <1>0, <1>6 DEF Succeed, ActionInv, TypeOK
  <2>3. \A i \in ChangingSteps(a) : i < at[a]
    <3>1. at[a] > Len(tool[a].execute) /\ Len(tool[a].execute) \in Nat
      BY <1>0, <1>6, CallShape DEF Succeed, Calls
    <3> QED BY <1>0, <2>2, <3>1, ChangingCall
  <2>4. ActionInv(a)'
    BY <1>0, <1>6, <2>1, <2>2, <2>3, EndsWithin DEF Succeed, CursorTells
  <2> QED BY <1>0, <1>6, <2>1, <2>4, OwnStep DEF Succeed
<1>7. ASSUME NEW a \in Actions, Answer(a) PROVE \A b \in Actions : ActionInv(b)'
  <2>1. Untold(a) /\ Unmoved(a) /\ Undrifted(a)
    BY <1>0, <1>7, AcceptIsOwn DEF Answer, NextPage, NextCall, Untold, Undrifted, TypeOK
  <2> QED BY <1>0, <1>7, <2>1, AnswerKeeps, OwnStep DEF Answer
<1>8. ASSUME NEW a \in Actions, Skip(a) PROVE \A b \in Actions : ActionInv(b)'
  <2>1. Untold(a) /\ Unmoved(a) /\ Undrifted(a)
    BY <1>0, <1>8 DEF Skip, NextCall, Untold, Unmoved, Undrifted, TypeOK
  <2>2. adrift[a] = 0
    BY <1>0, <1>8 DEF Skip, Calling, Running, ActionInv, Untouched, CursorTells
  <2>3. ActionInv(a)'
    BY <1>0, <1>8, <2>2, SparedGoesOn DEF Skip, Ignored
  <2> QED BY <1>0, <1>8, <2>1, <2>3, OwnStep DEF Skip
<1>9. ASSUME NEW a \in Actions, Busy(a) PROVE \A b \in Actions : ActionInv(b)'
  <2>1. Untold(a) /\ Unmoved(a) /\ Undrifted(a)
    BY <1>0, <1>9, FailsIsOwn, AcceptIsOwn DEF Busy, Undrifted
  <2>2. ActionInv(a)'
    BY <1>0, <1>9, RetryOrFailKeeps DEF Busy
  <2> QED BY <1>0, <1>9, <2>1, <2>2, OwnStep DEF Busy
<1>10. ASSUME NEW a \in Actions, Broken(a) PROVE \A b \in Actions : ActionInv(b)'
  <2>1. Untold(a) /\ Unmoved(a) /\ Undrifted(a)
    BY <1>0, <1>10, FailsIsOwn, AcceptIsOwn DEF Broken, Undrifted
  <2>2. ActionInv(a)'
    BY <1>0, <1>10, RetryOrFailKeeps DEF Broken
  <2> QED BY <1>0, <1>10, <2>1, <2>2, OwnStep DEF Broken
<1>11. ASSUME NEW a \in Actions, Refused(a) PROVE \A b \in Actions : ActionInv(b)'
  <2>1. Untold(a) /\ Unmoved(a) /\ Undrifted(a)
    BY <1>0, <1>11, FailsIsOwn, AcceptIsOwn DEF Refused, Undrifted
  <2>2. adrift'[a] = 0
    BY <1>0, <1>11 DEF Refused, Calling, Running, ActionInv, Untouched, CursorTells
  <2>3. ActionInv(a)'
    BY <1>0, <1>11, <2>2, FailsKeeps DEF Refused
  <2> QED BY <1>0, <1>11, <2>1, <2>3, OwnStep DEF Refused
<1>12. ASSUME NEW a \in Actions, Lost(a) PROVE \A b \in Actions : ActionInv(b)'
  <2>1. Untold(a) /\ Unmoved(a) /\ Undrifted(a)
    BY <1>0, <1>12, FailsIsOwn, AcceptIsOwn DEF Lost, Undrifted, TypeOK
  <2>2. adrift[a] = 0
    BY <1>0, <1>12 DEF Lost, Calling, Running, ActionInv, Untouched, CursorTells
  <2>3. adrift'[a] # 0 => Ignored /\ Changes(a) /\ adrift'[a] = at[a]
    BY <1>0, <1>12, <2>2 DEF Lost, TypeOK
  <2>4. ActionInv(a)'
    BY <1>0, <1>12, <2>3, FailsKeeps DEF Lost
  <2> QED BY <1>0, <1>12, <2>1, <2>4, OwnStep DEF Lost
<1>13. ASSUME NEW a \in Actions, Cut(a) PROVE \A b \in Actions : ActionInv(b)'
  <2>1. Untold(a) /\ Unmoved(a) /\ Undrifted(a)
    BY <1>0, <1>13, FailsIsOwn, AcceptIsOwn DEF Cut, Undrifted
  <2>2. adrift'[a] = 0
    BY <1>0, <1>13 DEF Cut, Calling, Running, ActionInv, Untouched, CursorTells
  <2>3. ActionInv(a)'
    BY <1>0, <1>13, <2>2, FailsKeeps DEF Cut
  <2> QED BY <1>0, <1>13, <2>1, <2>3, OwnStep DEF Cut
<1>14. ASSUME NEW a \in Actions, Throws(a) PROVE \A b \in Actions : ActionInv(b)'
  <2>1. Untold(a) /\ Unmoved(a) /\ Undrifted(a)
    BY <1>0, <1>14 DEF Throws, End, MoveTo, Restart, Untold, Unmoved, Undrifted, TypeOK
  <2> QED BY <1>0, <1>14, <2>1, ThrowsKeeps, OwnStep DEF Throws
<1>15. ASSUME NEW a \in Actions, Lands(a) PROVE \A b \in Actions : ActionInv(b)'
  <2>1. Untold(a) /\ Unmoved(a) /\ Undrifted(a)
    BY <1>0, <1>15 DEF Lands, CarriedOut, Untold, Unmoved, Undrifted, TypeOK, cursor
  <2> QED BY <1>0, <1>15, <2>1, LandsKeeps, OwnStep DEF Lands
<1>16. ASSUME NEW a \in Actions, Dies(a) PROVE \A b \in Actions : ActionInv(b)'
  <2>1. /\ Untold(a) /\ Unmoved(a) /\ Undrifted(a)
        /\ phase'[a] = "done" /\ report'[a] = "none" /\ acted'[a] = acted[a]
    BY <1>0, <1>16 DEF Dies, End, MoveTo, Restart, Untold, Unmoved, Undrifted, TypeOK
  <2>2. CASE phase[a] = "preview"
    <3>1. adrift'[a] = 0
      BY <1>0, <1>16, <2>2 DEF Dies, Changes, TypeOK
    <3>2. ActionInv(a)'
      BY <1>0, <1>16, <2>1, <2>2, <3>1, EndsBefore DEF Dies
    <3> QED BY <1>0, <1>16, <2>1, <3>2, OwnStep DEF Dies
  <2>3. CASE phase[a] = "execute"
    <3>1. adrift'[a] # 0 => adrift'[a] = at[a] /\ at[a] \in ChangingSteps(a)
      BY <1>0, <1>16, CurrentShape DEF Dies, TypeOK
    <3>2. CursorTells(a) /\ at[a] \in Nat
      BY <1>0, <2>3 DEF ActionInv, TypeOK
    <3>3. ActionInv(a)'
      BY <1>0, <1>16, <2>1, <3>1, <3>2, EndsWithin DEF Dies, CursorTells
    <3> QED BY <1>0, <1>16, <2>1, <3>3, OwnStep DEF Dies
  <2> QED BY <1>16, <2>2, <2>3 DEF Dies, Running
<1>17. CASE EditedInOutlook \/ UNCHANGED vars
  <2>1. UNCHANGED <<tool, phase, at, report, acted, adrift>>
    BY <1>17 DEF EditedInOutlook, vars, cursor
  <2> QED BY <1>0, <2>1, OthersKeep
<1> QED BY <1>1, <1>2, <1>3, <1>4, <1>5, <1>6, <1>7, <1>8, <1>9, <1>10, <1>11, <1>12,
           <1>13, <1>14, <1>15, <1>16, <1>17 DEF Next, Progress

\* The invariant from which the two theorems below follow: the cursor of an
\* action tells what was carried out (registry.ts, client.ts).
THEOREM Inductive == Spec => []IInv
<1>1. IInv /\ [Next]_vars => IInv'
  BY TypeStep, Step DEF IInv
<1> QED BY InitInv, <1>1, PTL DEF Spec

\* Whatever is lost, retried or late, the calls of an approved tool are carried
\* out in order and once each: no mail goes out twice (mail.service.ts:508-590).
THEOREM CarriedOutInOrderOnce == Spec => []InOrderOnce
<1>1. IInv => InOrderOnce
  BY DEF IInv, ActionInv, InOrder, InOrderOnce
<1> QED BY <1>1, Inductive, PTL

\* The Director is told "done", "nothing was changed" and "it failed" only
\* when it is so (registry.ts:255-271).
THEOREM ReportsAreTrue == Spec => []ReportIsTrue
<1>1. IInv => ReportIsTrue
  BY DEF IInv, ActionInv, Truth, Untouched, ReportIsTrue
<1> QED BY <1>1, Inductive, PTL

-----------------------------------------------------------------------------
(* The meeting.                                                             *)

\* Only the write of the action itself moves its count, and what it writes is
\* what it read with its own changes.
LEMMA CarriedOutKeeps ==
    ASSUME TypeOK, NEW b \in Actions, NEW i \in Steps, CarriedOut(b, i),
           NEW a \in Actions, acted'[a] # acted[a], NEW p \in attendees \ attendees'
    PROVE  p \in tool[a].change.remove \/ p \notin read[a]
<1>1. a = b
  BY DEF CarriedOut, TypeOK
<1> QED BY <1>1 DEF CarriedOut, Merged

LEMMA WriteStep ==
    ASSUME TypeOK, [Next]_vars, NEW a \in Actions, acted'[a] # acted[a],
           NEW p \in attendees \ attendees'
    PROVE  p \in tool[a].change.remove \/ p \notin read[a]
<1>1. ASSUME NEW b \in Actions, Calling(b), Accept(b) \/ Ignored
      PROVE  p \in tool[a].change.remove \/ p \notin read[a]
  <2>1. at[b] \in Steps /\ CarriedOut(b, at[b])
    BY <1>1, CurrentShape DEF Accept, Ignored, Steps
  <2> QED BY <2>1, CarriedOutKeeps
<1>2. ASSUME NEW b \in Actions, Lands(b)
      PROVE  p \in tool[a].change.remove \/ p \notin read[a]
  <2>1. adrift[b] \in Steps
    BY <1>2 DEF Lands, TypeOK, Steps, MaxSteps
  <2> QED BY <1>2, <2>1, CarriedOutKeeps DEF Lands
<1>3. ASSUME NEW b \in Actions, Progress(b)
      PROVE  p \in tool[a].change.remove \/ p \notin read[a]
  BY <1>1, <1>3 DEF Progress, Prepared, Succeed, Throws, Answer, Skip, Busy, Broken,
                    Refused, Lost, Cut
<1> QED BY <1>2, <1>3 DEF Next, Ask, Rejected, Approve, Decline, Dies, EditedInOutlook,
                          vars, cursor

\* An update of a meeting drops nobody it read and was not asked to drop
\* (office.tools.ts:396-404).
THEOREM UpdatesKeepEveryone == Spec => AddingKeepsEveryone
<1>1. TypeOK /\ [Next]_vars =>
        [\A a \in Actions : acted'[a] # acted[a] =>
           \A p \in attendees \ attendees' :
              p \in tool[a].change.remove \/ p \notin read[a]]_vars
  BY WriteStep
<1> QED BY <1>1, TypeCorrect, PTL DEF Spec, AddingKeepsEveryone

-----------------------------------------------------------------------------
(* The abstract specification is implemented.                               *)

Refined == Promise!Next \/ UNCHANGED Promise!vars

LEMMA PlanInSteps ==
    ASSUME TypeOK, NEW a \in Actions
    PROVE  ChangingSteps(a) \subseteq Steps /\ SendingSteps(a) \subseteq ChangingSteps(a)
BY ChangingCall DEF SendingSteps

LEMMA RefineInit == Init => Promise!Init
<1> SUFFICES ASSUME Init PROVE Promise!Init
  OBVIOUS
<1>1. \A a \in Actions : ChangingSteps(a) \subseteq Steps /\ SendingSteps(a) \subseteq Steps
  BY InitType, PlanInSteps
<1>2. \A a \in Actions : StageOf(a) = "new" /\ ToldOf(a) = "none"
  BY DEF Init, StageOf, ToldOf
<1> QED BY <1>1, <1>2 DEF Init, Promise!Init

\* A step of action a leaves plans alone, and stage and report of all others.
LEMMA OwnMaps ==
    ASSUME NEW a \in Actions, UNCHANGED tool, Untold(a), Undrifted(a)
    PROVE  /\ UNCHANGED [b \in Actions |-> ChangingSteps(b)]
           /\ UNCHANGED [b \in Actions |-> SendingSteps(b)]
           /\ Promise!Becomes(a, StageOf(a)') /\ Promise!IsTold(a, ToldOf(a)')
<1>1. \A b \in Actions : ChangingSteps(b)' = ChangingSteps(b) /\ SendingSteps(b)' = SendingSteps(b)
  BY DEF ChangingSteps, SendingSteps
<1>2. \A b \in Actions \ {a} : StageOf(b)' = StageOf(b) /\ ToldOf(b)' = ToldOf(b)
  BY DEF StageOf, ToldOf, Untold, Undrifted
<1>3. Promise!Becomes(a, StageOf(a)')
  BY <1>2 DEF Promise!Becomes
<1>4. Promise!IsTold(a, ToldOf(a)')
  BY <1>2 DEF Promise!IsTold
<1> QED BY <1>1, <1>3, <1>4

\* A step that shows at most in what was carried out.
LEMMA GoesOnMaps ==
    ASSUME NEW a \in Actions, UNCHANGED tool, Untold(a), Undrifted(a),
           StageOf(a)' = StageOf(a), ToldOf(a)' = ToldOf(a),
           \/ UNCHANGED acted
           \/ phase[a] = "execute" /\ Promise!Happens(a)
    PROVE  Refined
<1>1. /\ UNCHANGED [b \in Actions |-> ChangingSteps(b)]
      /\ UNCHANGED [b \in Actions |-> SendingSteps(b)]
  BY OwnMaps
<1>2. /\ UNCHANGED [b \in Actions |-> StageOf(b)]
      /\ UNCHANGED [b \in Actions |-> ToldOf(b)]
  <2>1. \A b \in Actions : StageOf(b)' = StageOf(b) /\ ToldOf(b)' = ToldOf(b)
    BY DEF StageOf, ToldOf, Untold, Undrifted
  <2> QED BY <2>1
<1>3. CASE UNCHANGED acted
  BY <1>1, <1>2, <1>3 DEF Refined, Promise!vars
<1>4. CASE phase[a] = "execute" /\ Promise!Happens(a)
  <2>1. StageOf(a) = "running"
    BY <1>4 DEF StageOf
  <2>2. Promise!Change(a)
    BY <1>1, <1>2, <1>4, <2>1 DEF Promise!Change
  <2> QED BY <2>2 DEF Refined, Promise!Next
<1> QED BY <1>3, <1>4

\* It ends before its execution.
LEMMA WithdrawMaps ==
    ASSUME NEW a \in Actions, UNCHANGED <<tool, acted>>, Untold(a), Undrifted(a),
           phase[a] \in {"idle", "preview", "asked"}, phase'[a] = "done", adrift'[a] = 0,
           report'[a] \in {"unprepared", "declined", "failed", "none"}
    PROVE  Refined
<1>1. StageOf(a) \in {"new", "asked"} /\ StageOf(a)' = "over"
  BY DEF StageOf
<1>2. ToldOf(a)' \in {"unchanged", "failed", "none"}
  BY DEF ToldOf
<1>3. Promise!Withdraw(a)
  BY <1>1, <1>2, OwnMaps DEF Promise!Withdraw
<1> QED BY <1>3 DEF Refined, Promise!Next

\* It ends in its execution; the invariant says what may be reported of it.
LEMMA EndMaps ==
    ASSUME TypeOK, NEW a \in Actions, ActionInv(a)', UNCHANGED tool, Untold(a), Undrifted(a),
           phase[a] = "execute", phase'[a] = "done",
           UNCHANGED acted \/ Promise!Happens(a),
           report'[a] \in {"success", "failed", "uncertain", "none"},
           adrift'[a] # 0 => report'[a] \in {"uncertain", "none"}
    PROVE  Refined
<1> DEFINE doubt == adrift'[a] # 0
<1>1. StageOf(a) = "running" /\ StageOf(a)' = IF doubt THEN "inDoubt" ELSE "over"
  BY DEF StageOf
<1>2. ToldOf(a)' = report'[a]
  BY DEF ToldOf
<1>3. ChangingSteps(a)' = ChangingSteps(a) /\ ChangingSteps(a) \subseteq Steps
  BY PlanInSteps DEF ChangingSteps
<1>4. doubt => \E i \in Steps : Promise!IsNext(a, i)'
  <2> SUFFICES ASSUME doubt PROVE \E i \in Steps : Promise!IsNext(a, i)'
    OBVIOUS
  <2>1. PICK i \in Steps : i = adrift'[a]
    BY <1>3 DEF ActionInv, AdriftIsNext
  <2>2. Promise!IsNext(a, i)'
    BY <1>3, <2>1 DEF ActionInv, AdriftIsNext, Promise!IsNext
  <2> QED BY <2>2
<1>5. report'[a] = "success" => \A i \in ChangingSteps(a) : acted'[a][i] = 1
  BY <1>3 DEF ActionInv, Truth
<1>6. report'[a] = "failed" => \A i \in SendingSteps(a) : acted'[a][i] = 0
  BY <1>3 DEF ActionInv, Truth, SendingSteps
<1>7. /\ Promise!Becomes(a, IF doubt THEN "inDoubt" ELSE "over")
      /\ Promise!IsTold(a, report'[a])
      /\ UNCHANGED [b \in Actions |-> ChangingSteps(b)]
      /\ UNCHANGED [b \in Actions |-> SendingSteps(b)]
  BY <1>1, <1>2, OwnMaps
<1> HIDE DEF doubt
<1>8. Promise!End(a)
  <2>1. doubt \in BOOLEAN
    BY DEF doubt
  <2>2. doubt => report'[a] \in {"uncertain", "none"}
    BY DEF doubt
  <2> QED BY <1>1, <1>4, <1>5, <1>6, <1>7, <2>1, <2>2 DEF Promise!End
<1> QED BY <1>8 DEF Refined, Promise!Next

\* What Microsoft 365 accepts is the next change, or none.
LEMMA AcceptMaps ==
    ASSUME TypeOK, NEW a \in Actions, ActionInv(a), Calling(a), Accept(a) \/ Ignored
    PROVE  \/ UNCHANGED acted
           \/ phase[a] = "execute" /\ Promise!Happens(a)
<1>1. CASE ~Changes(a) \/ Ignored
  BY <1>1 DEF Accept, Ignored
<1>2. CASE Changes(a) /\ Accept(a)
  <2>1. /\ CarriedOut(a, at[a]) /\ phase[a] = "execute"
        /\ at[a] \in ChangingSteps(a) /\ at[a] \in Steps
    BY <1>2, CurrentShape DEF Accept, Steps, Changes
  <2>2. \A i \in ChangingSteps(a) : i \in Nat /\ acted[a][i] = IF i < at[a] THEN 1 ELSE 0
    BY <2>1, ChangingCall DEF ActionInv, CursorTells, Steps, MaxSteps
  <2>3. acted[a][at[a]] = 0
    BY <2>1, <2>2
  <2>4. acted' = [acted EXCEPT ![a][at[a]] = 1]
    BY <2>1, <2>3 DEF CarriedOut, MaxActs
  <2>5. Promise!IsNext(a, at[a])
    BY <2>1, <2>2, <2>3 DEF Promise!IsNext
  <2> QED BY <2>1, <2>4, <2>5 DEF Promise!Happens
<1> QED BY <1>1, <1>2

\* The tool goes on after a call, whatever came of it.
LEMMA NextCallMaps ==
    ASSUME TypeOK, NEW a \in Actions, ActionInv(a), Calling(a), Accept(a) \/ Ignored,
           Untold(a), Undrifted(a), UNCHANGED <<tool, phase, report>>, adrift'[a] = 0
    PROVE  Refined
<1>1. phase[a] # "done" /\ adrift[a] = 0
  BY DEF Calling, Running, ActionInv, Untouched, CursorTells
<1>2. StageOf(a)' = StageOf(a) /\ ToldOf(a)' = ToldOf(a)
  BY <1>1 DEF StageOf, ToldOf
<1> QED BY <1>2, AcceptMaps, GoesOnMaps

LEMMA FailsMaps ==
    ASSUME TypeOK, NEW a \in Actions, ActionInv(a), ActionInv(a)', Calling(a), UNCHANGED tool,
           NEW confirmed \in BOOLEAN, Fails(a, confirmed), Accept(a) \/ Ignored, Undrifted(a),
           adrift'[a] # 0 => Changes(a) /\ ~confirmed
    PROVE  Refined
<1>0. Untold(a)
  BY FailsIsOwn
<1>1. CASE Current(a).need = "spared"
  <2>1. adrift'[a] = 0
    BY <1>1, CurrentShape, ChangingCall
  <2> QED BY <1>0, <1>1, <2>1, NextCallMaps DEF Fails
<1>2. CASE Current(a).need # "spared" /\ phase[a] = "preview"
  <2>1. phase'[a] = "done" /\ report'[a] = "unprepared"
    BY <1>2 DEF Fails, End, MoveTo, Outcome, TypeOK
  <2>2. UNCHANGED acted /\ adrift'[a] = 0
    BY <1>2 DEF Accept, Ignored, Changes
  <2> QED BY <1>0, <1>2, <2>1, <2>2, WithdrawMaps
<1>3. CASE Current(a).need # "spared" /\ phase[a] = "execute"
  <2>1. /\ phase'[a] = "done"
        /\ report'[a] = IF tool[a].asks /\ ~confirmed THEN "uncertain" ELSE "failed"
    BY <1>3 DEF Fails, End, MoveTo, Outcome, TypeOK
  <2>2. adrift'[a] # 0 => report'[a] = "uncertain"
    BY <2>1, CurrentShape, ChangingCall
  <2> QED BY <1>0, <1>3, <2>1, <2>2, AcceptMaps, EndMaps
<1> QED BY <1>1, <1>2, <1>3 DEF Calling, Running

LEMMA RetryOrFailMaps ==
    ASSUME TypeOK, NEW a \in Actions, ActionInv(a), ActionInv(a)', Calling(a),
           UNCHANGED <<tool, adrift>>, NEW confirmed \in BOOLEAN, RetryOrFail(a, confirmed),
           Accept(a) \/ Ignored
    PROVE  Refined
<1>1. adrift'[a] = 0 /\ Untold(a) /\ Undrifted(a)
  BY FailsIsOwn DEF Undrifted, Calling, Running, ActionInv, Untouched, CursorTells
<1>2. CASE attempt[a] < MaxAttempts(Current(a))
  BY <1>1, <1>2, NextCallMaps DEF RetryOrFail, Again
<1>3. CASE ~(attempt[a] < MaxAttempts(Current(a)))
  BY <1>1, <1>3, FailsMaps DEF RetryOrFail
<1> QED BY <1>2, <1>3

\* A lost request that is carried out after all is the last change.
LEMMA LandsMaps ==
    ASSUME TypeOK, NEW a \in Actions, ActionInv(a), Lands(a), Untold(a), Undrifted(a)
    PROVE  Refined
<1>1. /\ adrift[a] # 0 /\ adrift'[a] = 0 /\ CarriedOut(a, adrift[a])
      /\ UNCHANGED <<tool, phase, report>>
  BY DEF Lands, TypeOK
<1>2. phase[a] = "done"
  BY <1>1 DEF ActionInv, Untouched, CursorTells, TypeOK, Phases
<1>3. StageOf(a) = "inDoubt" /\ StageOf(a)' = "over" /\ ToldOf(a)' = ToldOf(a)
  BY <1>1, <1>2 DEF StageOf, ToldOf
<1>4. Promise!IsNext(a, adrift[a]) /\ adrift[a] \in Steps
  BY <1>1, PlanInSteps DEF ActionInv, AdriftIsNext, Promise!IsNext
<1>5. acted' = [acted EXCEPT ![a][adrift[a]] = 1]
  BY <1>1, <1>4 DEF CarriedOut, MaxActs, Promise!IsNext
<1>6. UNCHANGED [b \in Actions |-> ToldOf(b)]
  <2>1. \A b \in Actions : ToldOf(b)' = ToldOf(b)
    BY <1>3 DEF ToldOf, Untold
  <2> QED BY <2>1
<1>7. Promise!Land(a)
  BY <1>1, <1>3, <1>4, <1>5, <1>6, OwnMaps DEF Promise!Land, Promise!Happens
<1> QED BY <1>7 DEF Refined, Promise!Next

\* It begins to be executed, if it changes something after it was asked for.
LEMMA StartMaps ==
    ASSUME NEW a \in Actions, UNCHANGED <<tool, acted, adrift, report>>, Untold(a),
           phase'[a] = "execute",
           phase[a] = "asked" \/ (phase[a] = "idle" /\ ChangingSteps(a) = {})
    PROVE  Refined
<1>1. /\ StageOf(a)' = "running"
      /\ StageOf(a) = "asked" \/ (StageOf(a) = "new" /\ ChangingSteps(a) = {})
  BY DEF StageOf
<1>2. Undrifted(a) /\ \A b \in Actions : ToldOf(b)' = ToldOf(b)
  BY DEF Undrifted, ToldOf
<1>3. UNCHANGED [b \in Actions |-> ToldOf(b)]
  BY <1>2
<1>4. Promise!Start(a)
  BY <1>1, <1>2, <1>3, OwnMaps DEF Promise!Start
<1> QED BY <1>4 DEF Refined, Promise!Next

LEMMA RefineNext ==
    ASSUME IInv, IInv', [Next]_vars
    PROVE  Refined
<1>0. TypeOK /\ \A a \in Actions : ActionInv(a) /\ ActionInv(a)'
  BY DEF IInv
<1>1. ASSUME NEW a \in Actions, Ask(a) PROVE Refined
  <2>1. /\ Untold(a) /\ Undrifted(a) /\ UNCHANGED <<tool, acted, adrift, report>>
        /\ phase[a] = "idle" /\ phase'[a] = IF tool[a].asks THEN "preview" ELSE "execute"
    BY <1>0, <1>1 DEF Ask, MoveTo, Restart, Untold, Undrifted, TypeOK
  <2>2. CASE tool[a].asks
    <3>1. StageOf(a)' = StageOf(a) /\ ToldOf(a)' = ToldOf(a)
      BY <2>1, <2>2 DEF StageOf, ToldOf
    <3> QED BY <2>1, <3>1, GoesOnMaps
  <2>3. CASE ~tool[a].asks
    <3>1. ChangingSteps(a) = {}
      BY <1>0, <2>3, ChangingCall
    <3> QED BY <2>1, <2>3, <3>1, StartMaps
  <2> QED BY <2>2, <2>3
<1>2. ASSUME NEW a \in Actions, Rejected(a) \/ Decline(a) PROVE Refined
  <2>1. /\ Untold(a) /\ Undrifted(a) /\ UNCHANGED <<tool, acted, adrift>>
        /\ phase[a] \in {"idle", "asked"} /\ phase'[a] = "done"
        /\ report'[a] \in {"unprepared", "declined", "failed"}
    BY <1>0, <1>2 DEF Rejected, Decline, End, MoveTo, Restart, Untold, Undrifted, TypeOK
  <2>2. adrift'[a] = 0
    BY <1>0, <2>1 DEF ActionInv, Untouched
  <2> QED BY <2>1, <2>2, WithdrawMaps
<1>3. ASSUME NEW a \in Actions, Prepared(a) PROVE Refined
  <2>1. /\ Untold(a) /\ Undrifted(a) /\ UNCHANGED <<tool, acted, adrift, report>>
        /\ phase[a] = "preview" /\ phase'[a] = "asked"
    BY <1>0, <1>3 DEF Prepared, MoveTo, Restart, Untold, Undrifted, TypeOK
  <2>2. StageOf(a) = "new" /\ StageOf(a)' = "asked"
    BY <2>1 DEF StageOf
  <2>3. UNCHANGED [b \in Actions |-> ToldOf(b)]
    <3>1. \A b \in Actions : ToldOf(b)' = ToldOf(b)
      BY <2>1 DEF ToldOf
    <3> QED BY <3>1
  <2>4. Promise!Ask(a)
    BY <2>1, <2>2, <2>3, OwnMaps DEF Promise!Ask
  <2> QED BY <2>4 DEF Refined, Promise!Next
<1>4. ASSUME NEW a \in Actions, Approve(a) PROVE Refined
  <2>1. /\ Untold(a) /\ UNCHANGED <<tool, acted, adrift, report>>
        /\ phase[a] = "asked" /\ phase'[a] = "execute"
    BY <1>0, <1>4 DEF Approve, MoveTo, Restart, Untold, TypeOK
  <2> QED BY <2>1, StartMaps
<1>5. ASSUME NEW a \in Actions, Succeed(a) PROVE Refined
  <2>1. /\ Untold(a) /\ Undrifted(a) /\ UNCHANGED <<tool, acted, adrift>>
        /\ phase[a] = "execute" /\ phase'[a] = "done" /\ report'[a] = "success"
    BY <1>0, <1>5 DEF Succeed, End, MoveTo, Restart, Untold, Undrifted, TypeOK
  <2>2. adrift'[a] = 0
    BY <1>0, <2>1 DEF ActionInv, CursorTells
  <2> QED BY <1>0, <2>1, <2>2, EndMaps
<1>6. ASSUME NEW a \in Actions, Answer(a) \/ Skip(a) PROVE Refined
  <2>1. /\ Calling(a) /\ UNCHANGED <<tool, phase, adrift, report>>
        /\ Accept(a) \/ Ignored
    BY <1>6 DEF Answer, Skip, Ignored
  <2>2. Untold(a) /\ Undrifted(a)
    BY <1>0, <1>6 DEF Answer, Skip, NextPage, NextCall, Untold, Undrifted, TypeOK
  <2>3. adrift'[a] = 0
    BY <1>0, <2>1 DEF Calling, Running, ActionInv, Untouched, CursorTells
  <2> QED BY <1>0, <2>1, <2>2, <2>3, NextCallMaps
<1>7. ASSUME NEW a \in Actions, Busy(a) \/ Broken(a) PROVE Refined
  <2>1. /\ Calling(a) /\ UNCHANGED <<tool, adrift>>
        /\ Accept(a) \/ Ignored
        /\ RetryOrFail(a, TRUE) \/ RetryOrFail(a, FALSE)
    BY <1>7 DEF Busy, Broken
  <2> QED BY <1>0, <2>1, RetryOrFailMaps
<1>8. ASSUME NEW a \in Actions, Refused(a) \/ Lost(a) \/ Cut(a) PROVE Refined
  <2>1. adrift[a] = 0
    BY <1>0, <1>8 DEF Refused, Lost, Cut, Calling, Running, ActionInv, Untouched, CursorTells
  <2>2. /\ Calling(a) /\ UNCHANGED tool /\ Undrifted(a)
        /\ Accept(a) \/ Ignored
        /\ \E confirmed \in BOOLEAN : /\ Fails(a, confirmed)
                                      /\ adrift'[a] # 0 => Changes(a) /\ ~confirmed
    BY <1>0, <1>8, <2>1 DEF Refused, Lost, Cut, Undrifted, TypeOK
  <2> QED BY <1>0, <2>2, FailsMaps
<1>9. ASSUME NEW a \in Actions, Throws(a) PROVE Refined
  <2>1. /\ Untold(a) /\ Undrifted(a) /\ UNCHANGED <<tool, acted, adrift>>
        /\ Running(a) /\ phase'[a] = "done" /\ report'[a] = Outcome(a, TRUE)
    BY <1>0, <1>9 DEF Throws, End, MoveTo, Restart, Untold, Undrifted, TypeOK
  <2>2. adrift'[a] = 0
    BY <1>0, <2>1 DEF Running, ActionInv, Untouched, CursorTells
  <2>3. CASE phase[a] = "preview"
    BY <2>1, <2>2, <2>3, WithdrawMaps DEF Outcome
  <2>4. CASE phase[a] = "execute"
    BY <1>0, <2>1, <2>2, <2>4, EndMaps DEF Outcome
  <2> QED BY <2>1, <2>3, <2>4 DEF Running
<1>10. ASSUME NEW a \in Actions, Lands(a) PROVE Refined
  <2>1. Untold(a) /\ Undrifted(a)
    BY <1>0, <1>10 DEF Lands, Untold, Undrifted, TypeOK, cursor
  <2> QED BY <1>0, <1>10, <2>1, LandsMaps
<1>11. ASSUME NEW a \in Actions, Dies(a) PROVE Refined
  <2>1. /\ Untold(a) /\ Undrifted(a) /\ UNCHANGED <<tool, acted>>
        /\ Running(a) /\ phase'[a] = "done" /\ report'[a] = "none"
    BY <1>0, <1>11 DEF Dies, End, MoveTo, Restart, Untold, Undrifted, TypeOK
  <2>2. CASE phase[a] = "preview"
    <3>1. adrift'[a] = 0
      BY <1>0, <1>11, <2>2 DEF Dies, Changes, TypeOK
    <3> QED BY <2>1, <2>2, <3>1, WithdrawMaps
  <2>3. CASE phase[a] = "execute"
    BY <1>0, <2>1, <2>3, EndMaps
  <2> QED BY <2>1, <2>2, <2>3 DEF Running
<1>12. CASE EditedInOutlook \/ UNCHANGED vars
  <2>1. UNCHANGED <<tool, phase, report, acted, adrift>>
    BY <1>12 DEF EditedInOutlook, vars, cursor
  <2>2. \A a \in Actions : /\ ChangingSteps(a)' = ChangingSteps(a)
                           /\ SendingSteps(a)' = SendingSteps(a)
                           /\ StageOf(a)' = StageOf(a) /\ ToldOf(a)' = ToldOf(a)
    BY <2>1 DEF ChangingSteps, SendingSteps, StageOf, ToldOf
  <2> QED BY <2>1, <2>2 DEF Refined, Promise!vars
<1> QED BY <1>1, <1>2, <1>3, <1>4, <1>5, <1>6, <1>7, <1>8, <1>9, <1>10, <1>11, <1>12
        DEF Next, Progress

\* The execution of a tool keeps the abstract promise: its changes happen in
\* order and once, at most one after its end, and none once she was told that
\* it is done, that it failed or that nothing was changed (registry.ts, client.ts).
THEOREM ToolsKeepThePromise == Spec => ImplementsApprovedChanges
<1>1. IInv /\ IInv' /\ [Next]_vars => [Promise!Next]_(Promise!vars)
  BY RefineNext DEF Refined
<1> QED BY <1>1, RefineInit, Inductive, PTL DEF Spec, ImplementsApprovedChanges, Promise!Spec

=============================================================================
