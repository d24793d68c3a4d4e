----------------------------- MODULE AgentTurns -----------------------------
(***************************************************************************)
(* The agent loop (runAgent) of turns that share one conversation, and the *)
(* monthly budget they share with every other caller of the model          *)
(* (ai/cost.ts).                                                           *)
(*                                                                         *)
(* A turn reads the rows of the conversation, stores its question, decides *)
(* what to do about a pending proposal, may answer at once, and else calls *)
(* the model until a reply passes the guards, a proposal is prepared or    *)
(* the iterations run out.  The model may answer anything, but calls only  *)
(* the tools it was given.  How a proposal is claimed and executed is the  *)
(* approval engine's business: here that is one step.                      *)
(***************************************************************************)
EXTENDS AgentRules, FiniteSetsExt, TLC

CONSTANTS Turns,          \* requests of the chat route, each used once
          Briefings,      \* other callers of the model, each used once
          Messages,       \* what she may say
          Replies,        \* what the model may answer
          Earlier,        \* what the conversation may hold already
          None,           \* no limit
          MaxIterations,  \* MAX_ITERATIONS
          HistoryRows,    \* rows getMessages returns
          MonthlyBudget,  \* OPENAI_MONTHLY_BUDGET_USD, 0 for none
          CategoryBudget, \* per category, or None
          MaxCost,        \* bound: what a call costs at most
          MaxConcurrent,  \* bound: turns that run at once
          MaxFaults       \* bound: rows and records lost, sums not read

\* A chat turn and a look at a file are "interactive" (classifyResponseMode and
\* 'direct' give no other role), a report is "briefing".
Categorised == {"interactive", "briefing"}
Callers     == Turns \cup Briefings

ASSUME MessagesAssumption == Messages \subseteq Message /\ Earlier \subseteq Seq(StoredRow)
\* Proposals are told apart from here on.
ASSUME EarlierAssumption == \A rows \in Earlier : \A i \in 1 .. Len(rows) : rows[i].card = 0
ASSUME CallersAssumption == IsFiniteSet(Callers) /\ Turns \cap Briefings = {}
ASSUME RepliesAssumption == Replies \subseteq SUBSET Features
ASSUME BoundsAssumption ==
    /\ MaxIterations \in Nat \ {0} /\ HistoryRows \in Nat /\ MaxCost \in Nat \ {0}
    /\ MonthlyBudget \in Nat /\ MaxConcurrent \in Nat /\ MaxFaults \in Nat
    /\ CategoryBudget \in [Categorised -> Nat \cup {None}]

VARIABLES
    thread,     \* the rows of the conversation
    turn,       \* the turns
    pending,    \* the proposal that is pending, by its number, or 0
    ledger,     \* ai_usage: what was recorded, per category
    call,       \* the call each caller has under way
    proposals,  \* history: every proposal made
    spent,      \* history: what the calls cost, per category
    unseen,     \* history: cost never recorded, or admitted without the sums
    faults      \* history: how often something was lost or not read

vars == <<thread, turn, pending, ledger, call, proposals, spent, unseen, faults>>
money == <<ledger, call, spent, unseen>>

Silent == [names |-> {}, words |-> {}, idiom |-> {}, is |-> {}]

\* pc: unsent, received, stored, loop, output, looking, replying, done.  seen:
\* rows it read; row: its own question; goal: the row of the request it works
\* on; revising: the proposal it replaces; read: what its reads found.
Unsent == [pc |-> "unsent", msg |-> Silent, seen |-> 0, row |-> 0, goal |-> 0,
           revising |-> 0, domains |-> {}, tools |-> {}, iteration |-> 0,
           read |-> "unknown", steps |-> {}, reply |-> {}, card |-> 0]

NoCall == [state |-> "none", cost |-> 0, blind |-> FALSE]

Init ==
    /\ thread \in Earlier /\ pending = 0 /\ proposals = <<>> /\ faults = 0
    /\ turn = [t \in Turns |-> Unsent]
    /\ ledger = [c \in Categorised |-> 0]
    /\ spent = ledger /\ unseen = ledger
    /\ call = [c \in Callers |-> NoCall]

-----------------------------------------------------------------------------
(* The conversation.                                                       *)

Running == {t \in Turns : turn[t].pc \notin {"unsent", "done"}}

\* getMessages returns the oldest rows, and no more than its limit.
RowsRead(stored) == Min({stored, HistoryRows})
History(t) == SubSeq(thread, 1, RowsRead(turn[t].seen))

\* Bound: turns are used one after the other.
Next1(t) == turn[t].pc = "unsent" /\ t = CHOOSE u \in Turns : turn[u].pc = "unsent"

\* getMessages
Receive(t, m) ==
    /\ Next1(t) /\ Cardinality(Running) < MaxConcurrent
    /\ turn' = [turn EXCEPT ![t].pc = "received", ![t].msg = m, ![t].seen = Len(thread)]
    /\ UNCHANGED <<thread, pending, money, proposals, faults>>

\* appendMessage of the question.  Bound: that row is not lost.
Store(t) ==
    /\ turn[t].pc = "received"
    /\ turn' = [turn EXCEPT ![t].pc = "stored", ![t].row = Len(thread) + 1]
    /\ thread' = Append(thread, UserRow(turn[t].msg))
    /\ UNCHANGED <<pending, money, proposals, faults>>

\* runAgent returned: its locals are gone, its result is to be stored.
Returned(self, reply, steps, card) ==
    [Unsent EXCEPT !.pc = "replying", !.reply = reply, !.steps = steps, !.card = card,
                   !.iteration = self.iteration, !.domains = self.domains]

Result(t, reply, steps) ==
    turn' = [turn EXCEPT ![t] = Returned(@, reply, @.steps \cup steps, 0)]

\* A proposal is inserted and its preview is the reply.
Prepare(t, origin) ==
    /\ proposals' = Append(proposals, [by |-> t, known |-> turn[t].seen, origin |-> origin])
    /\ pending' = Len(proposals) + 1
    /\ turn' = [turn EXCEPT ![t] = Returned(@, {"asksYes"}, @.steps \cup {"prepared"},
                                            Len(proposals) + 1)]

\* "Yes" or "No", decided before the model.
Decide(t) ==
    /\ turn[t].pc = "stored"
    /\ turn[t].msg.is \cap {"Yes", "No"} # {}
    /\ pending' = 0
    /\ IF pending = 0 THEN Result(t, {"noMatch"}, {})
       ELSE IF "No" \in turn[t].msg.is THEN Result(t, {"noMatch"}, {"cancelled"})
       ELSE Result(t, {"claims"}, {"ran"}) \/ Result(t, {"noMatch"}, {})
    /\ UNCHANGED <<thread, money, proposals, faults>>

Undecided(t) == turn[t].pc = "stored" /\ turn[t].msg.is \cap {"Yes", "No"} = {}

AnswersDirectly(t) ==
    \/ CapabilityRefused(turn[t].msg)
    \/ StatesRule(turn[t].msg)
    \/ History(t) = <<>> /\ StockQuestion(turn[t].msg)

\* Refused as not possible, a rule to remember, or the fast path.
AnswerDirectly(t) ==
    /\ Undecided(t) /\ AnswersDirectly(t)
    /\ \/ /\ ~CapabilityRefused(turn[t].msg) /\ StatesRule(turn[t].msg)
          /\ Prepare(t, turn[t].row)
       \/ /\ pending' = 0   \* refused, answered, or a rule that was not stored
          /\ Result(t, {"noMatch"}, {})
          /\ UNCHANGED proposals
    /\ UNCHANGED <<thread, money, faults>>

\* The request this turn works on, as a row: its own, an earlier one, or 0.
GoalRow(t) ==
    LET g == UnresolvedActionGoal(History(t), turn[t].msg)
    IN  IF g = Len(History(t)) + 1 THEN turn[t].row ELSE g

\* Whatever was pending is withdrawn; the loop begins.
EnterLoop(t) ==
    /\ Undecided(t) /\ ~AnswersDirectly(t)
    /\ LET m       == turn[t].msg
           revised == IF IsActionRequest(m) \/ "revision" \in m.is THEN pending ELSE 0
           goal    == GoalRow(t)
           intent  == InterpretRequest(IF goal = 0 THEN m ELSE thread[goal].says, History(t))
       IN  turn' = [turn EXCEPT
                      ![t].pc = "loop", ![t].iteration = 1,
                      ![t].goal = goal, ![t].revising = revised,
                      ![t].domains = intent.domains, ![t].tools = PermittedTools(intent)]
    /\ pending' = 0
    /\ UNCHANGED <<thread, money, proposals, faults>>

-----------------------------------------------------------------------------
(* The budget, and the calls.                                              *)

\* Mutation of Exhausted: the last of the budget may be spent twice.
ExhaustedLater(total, budget) == total > budget

Exhausted(total, budget) == total >= budget

\* assertWithinBudget, over the sums it could read.
WithinBudget(total, inCategory, category) ==
    /\ MonthlyBudget = 0 \/ ~Exhausted(total, MonthlyBudget)
    /\ CategoryBudget[category] # None =>
          CategoryBudget[category] # 0 /\ ~Exhausted(inCategory, CategoryBudget[category])

Total(sums) == sums["interactive"] + sums["briefing"]

\* A sum that cannot be read counts as nothing.
Check(c, category, blind) ==
    LET sums == IF blind THEN [k \in Categorised |-> 0] ELSE ledger IN
    WithinBudget(Total(sums), sums[category], category)

Admit(c, category) ==
    /\ call[c].state = "none"
    /\ \E blind \in BOOLEAN :
         /\ Check(c, category, blind)
         /\ blind => faults < MaxFaults
         /\ faults' = IF blind THEN faults + 1 ELSE faults
         /\ call' = [call EXCEPT ![c] = [state |-> "allowed", cost |-> 0, blind |-> blind]]
    /\ UNCHANGED <<ledger, spent, unseen>>

\* The model answers: the call is paid for, and not recorded yet.
Pay(c, category) ==
    /\ call[c].state = "allowed"
    /\ \E cost \in 1 .. MaxCost :
         /\ call' = [call EXCEPT ![c].state = "due", ![c].cost = cost]
         /\ spent' = [spent EXCEPT ![category] = @ + cost]
         /\ unseen' = [unseen EXCEPT ![category] = @ + IF call[c].blind THEN cost ELSE 0]
    /\ UNCHANGED <<ledger, faults>>

\* An attempt is billed and its answer never comes: the provider tries again, or
\* gives up (ModelFails).
LoseAnswer(c, category) ==
    /\ call[c].state = "allowed" /\ faults < MaxFaults /\ faults' = faults + 1
    /\ \E cost \in 1 .. MaxCost :
         /\ spent' = [spent EXCEPT ![category] = @ + cost]
         /\ unseen' = [unseen EXCEPT ![category] = @ + cost]
    /\ UNCHANGED <<ledger, call>>

\* recordUsage; a row that cannot be written is swallowed, and nothing is
\* recorded of an answer that does not state its usage.
Record(c, category) ==
    /\ call[c].state = "due"
    /\ call' = [call EXCEPT ![c] = NoCall]
    /\ \/ /\ ledger' = [ledger EXCEPT ![category] = @ + call[c].cost]
          /\ UNCHANGED <<unseen, faults>>
       \/ /\ faults < MaxFaults /\ faults' = faults + 1
          /\ unseen' = [unseen EXCEPT ![category] = @ + IF call[c].blind THEN 0 ELSE call[c].cost]
          /\ UNCHANGED ledger
    /\ UNCHANGED spent

\* runAgent throws; the route answers with the error and stores no steps.
Throw(t) == turn' = [turn EXCEPT ![t] = Returned(Unsent, {}, {}, 0)]

\* The model is asked what to do next, or to read a file by looking at it.
Calling(t) == turn[t].pc \in {"loop", "looking"}

CheckBudget(t) ==
    /\ Calling(t) /\ Admit(t, "interactive")
    /\ UNCHANGED <<thread, turn, pending, proposals>>

CallModel(t) ==
    /\ Calling(t)
    /\ Pay(t, "interactive") \/ LoseAnswer(t, "interactive")
    /\ UNCHANGED <<thread, turn, pending, proposals>>

\* The calls of one output are run in order: after any of them there may be
\* another one, or the iteration is over.
Continue(t, self) ==
    IF self.iteration < MaxIterations
      THEN \/ turn' = [turn EXCEPT ![t] = [self EXCEPT !.pc = "loop", !.iteration = @ + 1]]
           \/ turn' = [turn EXCEPT ![t] = self]
      ELSE \/ turn' = [turn EXCEPT ![t] = Returned(self, {"noMatch"}, self.steps, 0)]
           \/ turn' = [turn EXCEPT ![t] = self]

\* A file was opened, whatever came of it.
Looked(t) == Continue(t, [turn[t] EXCEPT !.pc = "output", !.steps = @ \cup {"file"}])

\* A call that was not allowed or failed: a look is a tool that failed.
NotCalled(t) == IF turn[t].pc = "looking" THEN Looked(t) ELSE Throw(t)

BudgetExhausted(t) ==
    /\ Calling(t) /\ call[t].state = "none"
    /\ ~Check(t, "interactive", FALSE)
    /\ NotCalled(t)
    /\ UNCHANGED <<thread, pending, money, proposals, faults>>

\* A time limit, or no connection: nothing was recorded.
ModelFails(t) ==
    /\ Calling(t) /\ call[t].state = "allowed"
    /\ NotCalled(t)
    /\ call' = [call EXCEPT ![t] = NoCall]
    /\ UNCHANGED <<thread, pending, ledger, spent, unseen, proposals, faults>>

RecordUsage(t) ==
    /\ Calling(t) /\ Record(t, "interactive")
    /\ IF turn[t].pc = "looking" THEN Looked(t)
       ELSE turn' = [turn EXCEPT ![t].pc = "output"]
    /\ UNCHANGED <<thread, pending, proposals>>

\* generateBriefing: check, call, record.
Brief(b) ==
    /\ b \in Briefings
    /\ \/ Admit(b, "briefing")
       \/ /\ call[b].state = "allowed" /\ call' = [call EXCEPT ![b] = NoCall]
          /\ UNCHANGED <<ledger, spent, unseen, faults>>
       \/ Pay(b, "briefing") \/ LoseAnswer(b, "briefing")
       \/ Record(b, "briefing")
    /\ UNCHANGED <<thread, turn, pending, proposals>>

-----------------------------------------------------------------------------
(* What the model said.                                                    *)

\* Mutation of NextIteration: the iterations are not counted.
NextIterationAlways(t) ==
    turn' = [turn EXCEPT ![t].pc = "loop", ![t].iteration = @ + 1]

NextIteration(t) ==
    IF turn[t].iteration < MaxIterations
      THEN turn' = [turn EXCEPT ![t].pc = "loop", ![t].iteration = @ + 1]
      ELSE Result(t, {"noMatch"}, {})

\* A change is expected of this turn.
Changing(t) == turn[t].goal # 0 \/ turn[t].revising # 0 \/ "revision" \in turn[t].msg.is

\* An answer: sent back with a correction, replaced, or passed on.
Answer(t, reply) ==
    /\ turn[t].pc = "output"
    /\ IF InvalidActionReply(reply, Changing(t), turn[t].read = "empty")
         THEN NextIteration(t)
       ELSE IF FileOffence(reply, turn[t].steps) /\ turn[t].iteration < MaxIterations
         THEN NextIteration(t)
       ELSE Result(t, Checked(reply, turn[t].steps), {})
    /\ UNCHANGED <<thread, pending, money, proposals, faults>>

\* readResultEvidence: one read that finds something settles it.
Evidence(read, found) ==
    IF found THEN "found" ELSE IF read = "unknown" THEN "empty" ELSE read

ReadTool(t) ==
    /\ turn[t].pc = "output" /\ "read" \in turn[t].tools
    /\ \/ \E found \in BOOLEAN :
            Continue(t, [turn[t] EXCEPT !.read = Evidence(@, found)])
       \/ Looked(t)
       \/ /\ "file" \notin turn[t].steps   \* bound: one look
          /\ turn' = [turn EXCEPT ![t].pc = "looking"]
       \/ Throw(t)
    /\ UNCHANGED <<thread, pending, money, proposals, faults>>

\* A write is prepared, which ends the turn; its target may not be found, or
\* the insert may fail.
WriteTool(t) ==
    /\ turn[t].pc = "output" /\ "write" \in turn[t].tools
    /\ \/ Prepare(t, IF turn[t].goal = 0 THEN turn[t].row ELSE turn[t].goal)
       \/ /\ Continue(t, turn[t]) \/ Throw(t)
          /\ UNCHANGED <<pending, proposals>>
    /\ UNCHANGED <<thread, money, faults>>

-----------------------------------------------------------------------------
\* The row of the answer; a failed turn is stored without its steps.  Bound:
\* its text names the areas of the request.
Deliver(t) ==
    /\ turn[t].pc = "replying"
    /\ turn' = [turn EXCEPT ![t] = [Unsent EXCEPT !.pc = "done"]]
    /\ \/ /\ thread' = Append(thread,
                    [by |-> "assistant", says |-> [Silent EXCEPT !.names = turn[t].domains],
                     asks |-> AsksDetail(turn[t].reply),
                     steps |-> turn[t].steps \ {"file"}, card |-> turn[t].card])
          /\ UNCHANGED faults
       \/ /\ faults < MaxFaults /\ faults' = faults + 1
          /\ UNCHANGED thread
    /\ UNCHANGED <<pending, money, proposals>>

Work(t) ==
    \/ Store(t) \/ Decide(t) \/ AnswerDirectly(t) \/ EnterLoop(t)
    \/ CheckBudget(t) \/ BudgetExhausted(t) \/ CallModel(t) \/ ModelFails(t) \/ RecordUsage(t)
    \/ ReadTool(t) \/ WriteTool(t) \/ Deliver(t)
    \/ \E reply \in Replies : Answer(t, reply)

Next == \/ \E t \in Turns : Work(t) \/ \E m \in Messages : Receive(t, m)
        \/ \E b \in Briefings : Brief(b)

Spec == Init /\ [][Next]_vars

-----------------------------------------------------------------------------
(* Properties                                                              *)

TurnOK(self) ==
    /\ self.pc \in {"unsent", "received", "stored", "loop", "output",
                    "looking", "replying", "done"}
    /\ self.msg \in Messages \cup {Silent}
    /\ self.seen \in 0 .. Len(thread) /\ self.row \in 0 .. Len(thread)
    /\ self.goal \in 0 .. self.row
    /\ self.revising \in 0 .. Len(proposals) /\ self.card \in 0 .. Len(proposals)
    /\ self.iteration \in 0 .. MaxIterations
    /\ self.reply \subseteq Features

\* Every variable holds a value of its kind; the request a turn works on is
\* not one of a later row.
TypeOK ==
    /\ \A t \in Turns : TurnOK(turn[t])
    /\ pending \in 0 .. Len(proposals)
    /\ ledger \in [Categorised -> Nat] /\ spent \in [Categorised -> Nat]
    /\ unseen \in [Categorised -> Nat] /\ faults \in 0 .. MaxFaults
    /\ \A c \in Callers : call[c].state \in {"none", "allowed", "due"}

\* The row with the card of proposal q is one that the turn which made proposal
\* p has read.
KnownTo(q, p) == \E i \in 1 .. RowsRead(proposals[p].known) : thread[i].card = q

\* A proposal answers a request for a change that she made in this
\* conversation, and no request is taken up again when a proposal for it is
\* already in the rows the turn read: an old request does not spring back to
\* life (unresolvedActionGoal, permittedToolsForIntent).
ProposalsAnswerRequests ==
    \A p \in 1 .. Len(proposals) :
        LET origin == proposals[p].origin IN
        /\ thread[origin].by = "user"
        /\ thread[origin].says.is \cap {"write", "rule"} # {}
        /\ \A q \in 1 .. p - 1 :
             proposals[q].origin = origin => ~KnownTo(q, p)

\* A reply that invites her Yes has a proposal of its own turn behind it, one
\* that says something was done has an executed one, and a file is refused
\* unopened, or an upload offered, in a last iteration only (the guards, in
\* whatever order corrections, reads and iterations come).
RepliesAreBacked ==
    \A t \in Turns : turn[t].pc = "replying" =>
        LET self == turn[t] IN
        /\ "asksYes" \in self.reply =>
              self.card # 0 /\ proposals[self.card].by = t
        /\ "claims" \in self.reply => "ran" \in self.steps
        /\ "process" \notin self.reply
        /\ FileOffence(self.reply, self.steps) => self.iteration = MaxIterations

\* How many callers of a category may have a call at once.
AtOnce == [k \in Categorised |->
             IF k = "briefing" THEN Cardinality(Briefings)
             ELSE Min({Cardinality(Turns), MaxConcurrent})]

AtMost(total, hidden, budget, callers) == total - hidden <= budget - 1 + MaxCost * callers

\* The budget, and that of a category, is overspent by no more than one call of
\* each caller that it has at once, besides what was never recorded or admitted
\* unread (assertWithinBudget, recordUsage).
OverspendIsBounded ==
    /\ MonthlyBudget # 0 =>
          AtMost(Total(spent), Total(unseen), MonthlyBudget, Total(AtOnce))
    /\ \A k \in Categorised :
         CategoryBudget[k] # None /\ spent[k] > 0 =>
            AtMost(spent[k], unseen[k], CategoryBudget[k], AtOnce[k])
=============================================================================
