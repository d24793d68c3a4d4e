--------------------------- MODULE OfficeActions ---------------------------
(***************************************************************************)
(* Tool calls against Microsoft 365 (agent/registry.ts over graph/         *)
(* client.ts): each is asked for, previewed and approved when it changes   *)
(* something, and executed as the Graph calls of its tool, one request at  *)
(* a time.  A request may be refused, throttled, answered with a server    *)
(* error, lost, or answered with a body that never arrives; one that was   *)
(* lost may still be carried out later, and the server may die.            *)
(*                                                                         *)
(* The approval itself is the business of ApprovalEngine.  Of the contents *)
(* of Microsoft 365 only the attendees of one meeting are kept: the one    *)
(* thing that is read, merged and written back.                            *)
(***************************************************************************)
EXTENDS GraphCalls

CONSTANTS Actions,  \* the tool calls
          Tools,    \* Tools[a], the tools that action a may be for
          People    \* who may attend the meeting

MaxSteps == 3    \* the most Graph calls a tool makes
MaxActs  == 3    \* the most often the model counts that a call was carried out
Steps    == 1..MaxSteps

Change == [add : SUBSET People, remove : SUBSET People]
Tool   == [asks : BOOLEAN, preview : Seq(Call), execute : Seq(Call), change : Change]

\* What holds of the table of tools: no tool changes anything before it is
\* approved, no changing call is marked safe to retry, skipped or ignored,
\* and mail leaves with the last call, whose answer is not read.
ASSUME ToolsAssumption ==
    /\ Tools \in [Actions -> SUBSET Tool]
    /\ \A a \in Actions : \A t \in Tools[a] :
         /\ Len(t.execute) \in 1..MaxSteps /\ Len(t.preview) <= MaxSteps
         /\ \A i \in DOMAIN t.preview : t.preview[i].effect = "none"
         /\ \A i \in DOMAIN t.execute : t.execute[i].effect # "none" =>
              /\ t.asks
              /\ t.execute[i].retry # "safe" /\ t.execute[i].method # "GET"
              /\ t.execute[i].need = "always" /\ t.execute[i].pages = 1
              /\ t.execute[i].effect = "send" => i = Len(t.execute) /\ ~t.execute[i].body

VARIABLES
  tool,       \* the tool of each action
  phase,      \* how far the action is
  at,         \* the Graph call it is making or about to make,
  page,       \*   the page of it,
  attempt,    \*   and the attempt at that page
  read,       \* the attendees it has read
  acted,      \* acted[a][i]: how often call i of its execution was carried out
  adrift,     \* the call of which the request was lost on its way, or 0
  report,     \* what the Director was told of it
  attendees   \* of the meeting

cursor == <<at, page, attempt>>
vars == <<tool, phase, at, page, attempt, read, acted, adrift, report, attendees>>

Phases  == {"idle", "preview", "asked", "execute", "done"}
Reports == {"none", "unprepared", "declined", "success", "failed", "uncertain"}

TypeOK ==
    /\ tool \in [Actions -> Tool]
    /\ \A a \in Actions : tool[a] \in Tools[a]
    /\ phase \in [Actions -> Phases]
    /\ at \in [Actions -> 1..MaxSteps + 1]
    /\ page \in [Actions -> 1..2]
    /\ attempt \in [Actions -> 1..3]
    /\ read \in [Actions -> SUBSET People]
    /\ acted \in [Actions -> [Steps -> 0..MaxActs]]
    /\ adrift \in [Actions -> 0..MaxSteps]
    /\ report \in [Actions -> Reports]
    /\ attendees \in SUBSET People

Init == /\ tool \in {f \in [Actions -> UNION {Tools[a] : a \in Actions}] :
                      \A a \in Actions : f[a] \in Tools[a]}
        /\ phase = [a \in Actions |-> "idle"]
        /\ at = [a \in Actions |-> 1]
        /\ page = [a \in Actions |-> 1]
        /\ attempt = [a \in Actions |-> 1]
        /\ read = [a \in Actions |-> {}]
        /\ acted = [a \in Actions |-> [i \in Steps |-> 0]]
        /\ adrift = [a \in Actions |-> 0]
        /\ report = [a \in Actions |-> "none"]
        /\ attendees = {}

Calls(a) == IF phase[a] = "preview" THEN tool[a].preview ELSE tool[a].execute
Current(a) == Calls(a)[at[a]]
Running(a) == phase[a] \in {"preview", "execute"}
Calling(a) == Running(a) /\ at[a] <= Len(Calls(a))
Changes(a) == phase[a] = "execute" /\ Current(a).effect # "none"

Restart(a) == /\ at' = [at EXCEPT ![a] = 1]
              /\ page' = [page EXCEPT ![a] = 1]
              /\ attempt' = [attempt EXCEPT ![a] = 1]

\* The next call of the action, or the next page of the one it is making.
NextCall(a) == /\ at' = [at EXCEPT ![a] = @ + 1]
               /\ page' = [page EXCEPT ![a] = 1]
               /\ attempt' = [attempt EXCEPT ![a] = 1]
NextPage(a) == /\ page[a] < Current(a).pages
               /\ page' = [page EXCEPT ![a] = @ + 1]
               /\ attempt' = [attempt EXCEPT ![a] = 1]
               /\ UNCHANGED at

MoveTo(a, p) == phase' = [phase EXCEPT ![a] = p] /\ Restart(a)
End(a, r) == /\ MoveTo(a, "done")
             /\ report' = [report EXCEPT ![a] = r]

-----------------------------------------------------------------------------
(* What the tool call goes through in registry.ts.                         *)

\* A read executes at once; anything else is previewed.
Ask(a) ==
    /\ phase[a] = "idle"
    /\ MoveTo(a, IF tool[a].asks THEN "preview" ELSE "execute")
    /\ UNCHANGED <<tool, read, acted, adrift, report, attendees>>

\* No such tool, or arguments its schema does not accept.
Rejected(a) ==
    /\ phase[a] = "idle"
    /\ End(a, IF tool[a].asks THEN "unprepared" ELSE "failed")
    /\ UNCHANGED <<tool, read, acted, adrift, attendees>>

Prepared(a) ==
    /\ phase[a] = "preview" /\ at[a] > Len(Calls(a))
    /\ MoveTo(a, "asked")
    /\ UNCHANGED <<tool, read, acted, adrift, report, attendees>>

Approve(a) ==
    /\ phase[a] = "asked"
    /\ MoveTo(a, "execute")
    /\ UNCHANGED <<tool, read, acted, adrift, report, attendees>>

\* A No, a change of subject or fifteen minutes of silence.
Decline(a) ==
    /\ phase[a] = "asked"
    /\ End(a, "declined")
    /\ UNCHANGED <<tool, read, acted, adrift, attendees>>

Succeed(a) ==
    /\ phase[a] = "execute" /\ at[a] > Len(Calls(a))
    /\ End(a, "success")
    /\ UNCHANGED <<tool, read, acted, adrift, attendees>>

-----------------------------------------------------------------------------
(* What Microsoft 365 does with a request.                                 *)

\* Mutation: the PATCH sends only the people to add.
MergedOnlyAdded(known, change) == change.add

\* The attendees calendar_update sends: those it read, without the ones to
\* remove, and with the ones to add.
Merged(known, change) == (known \ change.remove) \cup change.add

\* Call i of the execution is carried out.
CarriedOut(a, i) ==
    /\ acted' = [acted EXCEPT ![a][i] = IF @ < MaxActs THEN @ + 1 ELSE @]
    /\ attendees' = IF /\ tool[a].execute[i].effect = "attendees"
                       /\ tool[a].change.add \cup tool[a].change.remove # {}
                    THEN Merged(read[a], tool[a].change) ELSE attendees

Accept(a) == IF Changes(a) THEN CarriedOut(a, at[a]) ELSE UNCHANGED <<acted, attendees>>
Ignored == UNCHANGED <<acted, attendees>>

\* Answered: on with the next page, if the answer links to one, or call.
Answer(a) ==
    /\ Calling(a)
    /\ Accept(a)
    /\ read' = IF phase[a] = "execute" /\ tool[a].change.add \cup tool[a].change.remove # {}
               THEN [read EXCEPT ![a] = attendees] ELSE read
    /\ NextPage(a) \/ NextCall(a)
    /\ UNCHANGED <<tool, phase, adrift, report>>

\* A call made only for some arguments.
Skip(a) ==
    /\ Calling(a) /\ Current(a).need = "sometimes"
    /\ page[a] = 1 /\ attempt[a] = 1
    /\ NextCall(a)
    /\ UNCHANGED <<tool, phase, read, acted, adrift, report, attendees>>

\* Mutation: an outcome that was not confirmed is reported as a failure.
OutcomeAlwaysKnown(a, confirmed) ==
    IF phase[a] = "preview" THEN "unprepared" ELSE "failed"

\* What an error is reported as: one of the preview changes nothing, and one
\* of an approved change is uncertain when its code is graph_unavailable.
Outcome(a, confirmed) ==
    IF phase[a] = "preview" THEN "unprepared"
    ELSE IF tool[a].asks /\ ~confirmed THEN "uncertain" ELSE "failed"

\* The call throws, and the tool with it unless it ignores the failure.
Fails(a, confirmed) ==
    IF Current(a).need = "spared"
    THEN NextCall(a) /\ UNCHANGED <<phase, report>>
    ELSE End(a, Outcome(a, confirmed))

\* Mutation: a retry begins again at the first page.
AgainFromTheFirstPage(a) ==
    /\ page' = [page EXCEPT ![a] = 1]
    /\ attempt' = [attempt EXCEPT ![a] = 1]
    /\ UNCHANGED at

Again(a) == /\ attempt' = [attempt EXCEPT ![a] = @ + 1]
            /\ UNCHANGED <<at, page>>

\* Mutation: one retry too many.
RetryOnceMore(a, confirmed) ==
    IF attempt[a] <= MaxAttempts(Current(a))
    THEN Again(a) /\ UNCHANGED <<phase, report>>
    ELSE Fails(a, confirmed)

RetryOrFail(a, confirmed) ==
    IF attempt[a] < MaxAttempts(Current(a))
    THEN Again(a) /\ UNCHANGED <<phase, report>>
    ELSE Fails(a, confirmed)

\* 429: nothing was done, and Microsoft 365 says so.
Busy(a) ==
    /\ Calling(a)
    /\ Ignored
    /\ RetryOrFail(a, TRUE)
    /\ UNCHANGED <<tool, read, adrift>>

\* 5xx, before or after the request was carried out.
Broken(a) ==
    /\ Calling(a)
    /\ Accept(a) \/ Ignored
    /\ RetryOrFail(a, FALSE)
    /\ UNCHANGED <<tool, read, adrift>>

\* 401, 403 and 404; any other 4xx becomes graph_unavailable.
Refused(a) ==
    /\ Calling(a)
    /\ Ignored
    /\ \E confirmed \in BOOLEAN : Fails(a, confirmed)
    /\ UNCHANGED <<tool, read, adrift>>

\* No answer within 20 seconds: the request was carried out, or may still be.
Lost(a) ==
    /\ Calling(a)
    /\ \/ Accept(a) /\ UNCHANGED adrift
       \/ Ignored /\ adrift' = [adrift EXCEPT ![a] = IF Changes(a) THEN at[a] ELSE 0]
    /\ Fails(a, FALSE)
    /\ UNCHANGED <<tool, read>>

\* The answer says yes and its body cannot be read: res.json() throws an
\* error that has no code.
Cut(a) ==
    /\ Calling(a) /\ Current(a).body
    /\ Accept(a)
    /\ Fails(a, TRUE)
    /\ UNCHANGED <<tool, read, adrift>>

\* The tool's own code throws: before its first call, for a reference it
\* cannot resolve, or over the body of an answer.
Throws(a) ==
    /\ Running(a)
    /\ at[a] > 1 => Calls(a)[at[a] - 1].body
    /\ page[a] = 1 /\ attempt[a] = 1
    /\ End(a, Outcome(a, TRUE))
    /\ UNCHANGED <<tool, read, acted, adrift, attendees>>

-----------------------------------------------------------------------------
(* The rest of the world.                                                  *)

\* A request that was lost on its way is carried out after all.
Lands(a) ==
    /\ adrift[a] # 0
    /\ adrift' = [adrift EXCEPT ![a] = 0]
    /\ CarriedOut(a, adrift[a])
    /\ UNCHANGED <<tool, phase, cursor, read, report>>

\* The server dies in the middle: nobody is told anything.
Dies(a) ==
    /\ Running(a)
    /\ End(a, "none")
    /\ adrift' = [adrift EXCEPT ![a] =
                    IF Calling(a) /\ Changes(a) THEN at[a] ELSE 0]
    /\ UNCHANGED <<tool, read, acted, attendees>>

\* Somebody else edits the meeting in Outlook.
EditedInOutlook ==
    /\ \E p \in People : \/ attendees' = attendees \cup {p}
                         \/ attendees' = attendees \ {p}
    /\ attendees' # attendees
    /\ UNCHANGED <<tool, phase, cursor, read, acted, adrift, report>>

Progress(a) ==
    \/ Prepared(a) \/ Succeed(a) \/ Throws(a)
    \/ Answer(a) \/ Skip(a) \/ Busy(a) \/ Broken(a) \/ Refused(a)
    \/ Lost(a) \/ Cut(a)

Next == \/ \E a \in Actions :
             \/ Ask(a) \/ Rejected(a) \/ Approve(a) \/ Decline(a)
             \/ Progress(a) \/ Lands(a) \/ Dies(a)
        \/ EditedInOutlook

Spec == Init /\ [][Next]_vars

\* Every wait of a tool call is bounded: 20 seconds for an answer, 30 before
\* a retry.
FairSpec == Spec /\ \A a \in Actions : WF_vars(Progress(a))

-----------------------------------------------------------------------------
(* Properties.                                                             *)

ChangingSteps(a) == {i \in DOMAIN tool[a].execute : tool[a].execute[i].effect # "none"}

\* What has been changed in Microsoft 365 on behalf of an action is an initial
\* part of the calls of the tool that was approved, each carried out once:
\* whatever is lost, retried or late, no mail goes out twice and no draft is
\* sent that was not written (mail.service.ts:508-590).
InOrderOnce ==
    \A a \in Actions : \A i \in ChangingSteps(a) :
       /\ acted[a][i] <= 1
       /\ acted[a][i] = 1 => /\ phase[a] \in {"execute", "done"}
                             /\ \A j \in ChangingSteps(a) : j < i => acted[a][j] = 1

\* The Director is told the truth: "done" only when every call of the action
\* was carried out, "nothing was changed" only when none was, and a plain
\* failure only when no mail has left or can still leave.  Of what else a plain
\* failure may hide it says nothing (registry.ts:255-271).
ReportIsTrue ==
    \A a \in Actions :
       /\ report[a] = "success" => \A i \in ChangingSteps(a) : acted[a][i] = 1
       /\ report[a] \in {"unprepared", "declined"} =>
            adrift[a] = 0 /\ \A i \in ChangingSteps(a) : acted[a][i] = 0
       /\ report[a] = "failed" =>
            \A i \in ChangingSteps(a) : tool[a].execute[i].effect = "send" =>
                acted[a][i] = 0 /\ adrift[a] # i

\* An update of a meeting drops nobody it knew of and was not asked to drop:
\* whoever its write removes was on its list to remove, or came after it read
\* (office.tools.ts:396-404).
AddingKeepsEveryone ==
    [][\A a \in Actions : acted'[a] # acted[a] =>
         \A p \in attendees \ attendees' :
            p \in tool[a].change.remove \/ p \notin read[a]]_vars

\* The life of an action, as the abstract specification sees it.
StageOf(a) == CASE phase[a] \in {"idle", "preview"} -> "new"
                [] phase[a] = "asked"   -> "asked"
                [] phase[a] = "execute" -> "running"
                [] OTHER -> IF adrift[a] # 0 THEN "inDoubt" ELSE "over"

ToldOf(a) == IF report[a] \in {"unprepared", "declined"} THEN "unchanged" ELSE report[a]

SendingSteps(a) == {i \in ChangingSteps(a) : tool[a].execute[i].effect = "send"}

Promise == INSTANCE ApprovedChanges
             WITH plan  <- [a \in Actions |-> ChangingSteps(a)],
                  mails <- [a \in Actions |-> SendingSteps(a)],
                  stage <- [a \in Actions |-> StageOf(a)],
                  told  <- [a \in Actions |-> ToldOf(a)]

\* The execution of a tool implements the abstract one: whatever is retried,
\* lost or late, its changes happen in order, at most one of them after its
\* end, and none once she was told anything but that it is uncertain
\* (registry.ts, client.ts).
ImplementsApprovedChanges == Promise!Spec

\* A preview or an execution under way comes to an end, whatever Microsoft 365
\* answers: no page and no retry goes on for ever (client.ts:60-108, 214-230).
ActionEnds ==
    \A a \in Actions : Running(a) ~> phase[a] \in {"asked", "done"}
=============================================================================
