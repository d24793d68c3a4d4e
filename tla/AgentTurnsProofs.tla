-------------------------- MODULE AgentTurnsProofs --------------------------
(* Proofs about AgentTurns: for any messages, replies and callers, any      *)
(* budget and any number of iterations, every state is well typed, a reply  *)
(* is backed by what the turn did, a proposal answers a request that was    *)
(* open, and the budget is overspent by no more than the calls that overlap.*)
EXTENDS AgentTurns, SequenceTheorems, FiniteSetTheorems, WellFoundedInduction, TLAPS

Pcs    == {"unsent", "received", "stored", "loop", "output", "looking", "replying", "done"}
Traces == {"prepared", "ran", "cancelled", "file"}

Turn == [pc : Pcs, msg : Messages \cup {Silent}, seen : Nat, row : Nat, goal : Nat,
         revising : Nat, domains : SUBSET Areas, tools : SUBSET {"read", "write"},
         iteration : 0 .. MaxIterations, read : {"unknown", "empty", "found"},
         steps : SUBSET Traces, reply : SUBSET Features, card : Nat]

Proposal == [by : Turns, known : Nat, origin : Nat]
Sums     == [Categorised -> Nat]

\* What the variables hold, in full.
Kinds == /\ turn \in [Turns -> Turn]
         /\ thread \in Seq(StoredRow)
         /\ proposals \in Seq(Proposal)
         /\ pending \in 0 .. Len(proposals)
         /\ faults \in 0 .. MaxFaults

Money == /\ ledger \in Sums /\ spent \in Sums /\ unseen \in Sums
         /\ call \in [Callers -> [state : {"none", "allowed", "due"}, cost : Nat, blind : BOOLEAN]]

\* What turn t may hold over these rows and proposals: what it read was there,
\* its question came later, the request it works on and the proposals it names
\* exist, and the reply it is about to store is backed.
Fits(t, r, rows, made) ==
    /\ r \in Turn
    /\ r.seen <= Len(rows) /\ r.row <= Len(rows)
    /\ r.pc \in {"stored", "loop", "output", "looking"} => r.seen < r.row
    /\ r.goal <= r.row /\ r.revising <= Len(made) /\ r.card <= Len(made)
    /\ r.pc = "replying" =>
         /\ "asksYes" \in r.reply => r.card # 0 /\ made[r.card].by = t
         /\ "claims" \in r.reply => "ran" \in r.steps
         /\ "process" \notin r.reply
         /\ FileOffence(r.reply, r.steps) => r.iteration = MaxIterations

AllFit == \A t \in Turns : Fits(t, turn[t], thread, proposals)

IInv == Kinds /\ Money /\ AllFit

-----------------------------------------------------------------------------
(* The operators of AgentRules return what their callers expect.            *)

\* A set of positions that is not empty has a last one.
LEMMA LatestIsOne ==
    ASSUME NEW n \in Nat, NEW S, S \subseteq 1 .. n, S # {}
    PROVE  (CHOOSE i \in S : \A j \in S : j <= i) \in S
<1> DEFINE T == {n - i : i \in S}
<1>1. T \subseteq Nat /\ T # {}
  <2>1. \A i \in S : n - i \in Nat
    OBVIOUS
  <2>2. PICK i \in S : TRUE
    OBVIOUS
  <2>3. n - i \in T
    OBVIOUS
  <2> QED BY <2>1, <2>3
<1>2. PICK x \in T : \A y \in T : <<y, x>> \notin OpToRel(<, Nat)
  BY <1>1, WFMin, NatLessThanWellFounded
<1>3. PICK i \in S : x = n - i
  OBVIOUS
<1>4. ASSUME NEW j \in S PROVE j <= i
  <2>1. n - j \in T /\ n - j \in Nat /\ n - i \in Nat
    BY <1>1
  <2>2. ~(n - j < n - i)
    BY <2>1, <1>2, <1>3 DEF OpToRel
  <2> QED BY <2>2
<1>5. \E k \in S : \A j \in S : j <= k
  BY <1>4
<1> QED BY <1>5

\* No more rows are read than there are, and all of them up to the limit.
LEMMA RowsReadIs ==
    ASSUME NEW n \in Nat
    PROVE  RowsRead(n) \in Nat /\ RowsRead(n) <= n
<1> DEFINE both == {n, HistoryRows}
<1>1. both \subseteq Nat /\ n \in both
  BY BoundsAssumption
<1>2. \E i \in both : \A j \in both : i <= j
  <2>1. CASE n <= HistoryRows
    BY <1>1, <2>1
  <2>2. CASE ~(n <= HistoryRows)
    BY <2>2, BoundsAssumption
  <2> QED BY <2>1, <2>2
<1> HIDE DEF both
<1>3. Min(both) \in both /\ \A j \in both : Min(both) <= j
  BY <1>2 DEF Min
<1> QED BY <1>1, <1>3 DEF RowsRead, both

\* The rows that a turn read are the first of the conversation.
LEMMA HistoryIs ==
    ASSUME NEW t \in Turns, thread \in Seq(StoredRow), turn[t].seen \in Nat,
           turn[t].seen <= Len(thread)
    PROVE  /\ History(t) \in Seq(StoredRow)
           /\ Len(History(t)) = RowsRead(turn[t].seen)
           /\ Len(History(t)) <= turn[t].seen
           /\ \A j \in 1 .. Len(History(t)) : History(t)[j] = thread[j]
<1> DEFINE n == RowsRead(turn[t].seen)
<1>1. n \in Nat /\ n <= turn[t].seen
  BY RowsReadIs
<1> HIDE DEF n
<1>2. \A i \in 1 .. n : thread[i] \in StoredRow
  BY <1>1
<1>3. /\ SubSeq(thread, 1, n) \in Seq(StoredRow)
      /\ Len(SubSeq(thread, 1, n)) = IF 1 <= n THEN n - 1 + 1 ELSE 0
      /\ \A i \in 1 .. n - 1 + 1 : SubSeq(thread, 1, n)[i] = thread[1 + i - 1]
  BY <1>1, <1>2, SubSeqProperties
<1>4. Len(SubSeq(thread, 1, n)) = n /\ \A i \in 1 .. n : SubSeq(thread, 1, n)[i] = thread[i]
  BY <1>1, <1>3
<1> QED BY <1>1, <1>3, <1>4 DEF History, n

LEMMA DomainsAreAreas ==
    ASSUME NEW m \in Message, NEW h \in Seq(StoredRow)
    PROVE  InterpretRequest(m, h).domains \subseteq Areas
<1>1. \A k \in Message : ExplicitDomains(k) \subseteq Areas
  BY DEF ExplicitDomains, Message
<1>2. ContextualDomains(h) \subseteq Areas
  <2> DEFINE recent == {i \in 1 .. Len(h) :
                          i + 8 > Len(h) /\ ExplicitDomains(h[i].says) # {}}
             latest == CHOOSE i \in recent : \A j \in recent : j <= i
  <2>1. CASE recent = {}
    BY <2>1 DEF ContextualDomains
  <2>2. CASE recent # {}
    <3>1. recent \subseteq 1 .. Len(h) /\ Len(h) \in Nat
      OBVIOUS
    <3>2. latest \in 1 .. Len(h)
      <4> HIDE DEF recent
      <4> QED BY <2>2, <3>1, LatestIsOne
    <3> HIDE DEF latest
    <3>3. h[latest].says \in Message
      <4>1. h[latest] \in StoredRow
        BY <3>2
      <4> QED BY <4>1 DEF StoredRow
    <3>4. ContextualDomains(h) = ExplicitDomains(h[latest].says)
      BY <2>2 DEF ContextualDomains, latest
    <3> QED BY <3>3, <3>4, <1>1
  <2> QED BY <2>1, <2>2
<1> QED BY <1>1, <1>2 DEF InterpretRequest, DomainsOf

\* The goal of a turn is a row up to its own, or none.
LEMMA GoalIsARow ==
    ASSUME NEW h \in Seq(StoredRow), NEW m \in Message
    PROVE  UnresolvedActionGoal(h, m) \in 0 .. Len(h) + 1
<1> DEFINE asked  == {i \in 1 .. Len(h) : /\ i + 12 > Len(h)
                                          /\ h[i].by = "user"
                                          /\ IsActionRequest(h[i].says)}
           latest == CHOOSE i \in asked : \A j \in asked : j <= i
<1>1. asked \subseteq 1 .. Len(h) /\ Len(h) \in Nat
  OBVIOUS
<1>2. asked # {} => latest \in 1 .. Len(h)
  <2> HIDE DEF asked
  <2> QED BY <1>1, LatestIsOne
<1>3. \/ UnresolvedActionGoal(h, m) \in {0, Len(h) + 1}
      \/ asked # {} /\ UnresolvedActionGoal(h, m) = latest
  BY DEF UnresolvedActionGoal
<1> HIDE DEF latest
<1> QED BY <1>1, <1>2, <1>3

-----------------------------------------------------------------------------
(* The turns.  Most steps rewrite the record of one turn.                   *)

\* What fits goes on fitting when rows and a proposal are added.
LEMMA GrowingFits ==
    ASSUME NEW t \in Turns, NEW r,
           NEW rows \in Seq(StoredRow), NEW longer \in Seq(StoredRow), Len(rows) <= Len(longer),
           NEW made \in Seq(Proposal), NEW more \in Seq(Proposal),
           more = made \/ \E p \in Proposal : more = Append(made, p),
           Fits(t, r, rows, made)
    PROVE  Fits(t, r, longer, more)
<1>1. Len(made) <= Len(more) /\ \A i \in 1 .. Len(made) : more[i] = made[i]
  OBVIOUS
<1>2. r.seen \in Nat /\ r.row \in Nat /\ r.goal \in Nat /\ r.revising \in Nat /\ r.card \in Nat
  BY DEF Fits, Turn
<1>3. Len(rows) \in Nat /\ Len(longer) \in Nat /\ Len(made) \in Nat /\ Len(more) \in Nat
  OBVIOUS
<1> QED BY <1>1, <1>2, <1>3 DEF Fits

\* A step that rewrites the record of t alone.
LEMMA OneTurn ==
    ASSUME Kinds, AllFit, NEW t \in Turns, NEW r, turn' = [turn EXCEPT ![t] = r],
           thread' \in Seq(StoredRow), Len(thread) <= Len(thread'),
           proposals' \in Seq(Proposal),
           proposals' = proposals \/ \E p \in Proposal : proposals' = Append(proposals, p),
           Fits(t, r, thread', proposals')
    PROVE  turn' \in [Turns -> Turn] /\ AllFit'
<1>1. turn' \in [Turns -> Turn]
  BY DEF Kinds, Fits
<1>2. ASSUME NEW u \in Turns PROVE Fits(u, turn'[u], thread', proposals')
  <2>1. turn'[u] = IF u = t THEN r ELSE turn[u]
    BY DEF Kinds
  <2>2. Fits(u, turn[u], thread', proposals')
    BY GrowingFits DEF Kinds, AllFit
  <2> QED BY <2>1, <2>2
<1> QED BY <1>1, <1>2 DEF AllFit

\* The same without a new row or proposal.
LEMMA OnlyTurn ==
    ASSUME Kinds, AllFit, NEW t \in Turns, NEW r, turn' = [turn EXCEPT ![t] = r],
           UNCHANGED <<thread, proposals>>, Fits(t, r, thread, proposals)
    PROVE  turn' \in [Turns -> Turn] /\ AllFit'
<1>1. /\ thread' \in Seq(StoredRow) /\ Len(thread) <= Len(thread')
      /\ proposals' \in Seq(Proposal) /\ proposals' = proposals
      /\ Fits(t, r, thread', proposals')
  BY DEF Kinds
<1> QED BY <1>1, OneTurn

\* What runAgent returns.
LEMMA ReturnedFits ==
    ASSUME NEW t \in Turns, NEW self \in Turn, NEW reply \in SUBSET Features,
           NEW steps \in SUBSET Traces, NEW card \in Nat,
           NEW rows \in Seq(StoredRow), NEW made \in Seq(Proposal), card <= Len(made),
           "asksYes" \in reply => card # 0 /\ made[card].by = t,
           "claims" \in reply => "ran" \in steps,
           "process" \notin reply,
           FileOffence(reply, steps) => self.iteration = MaxIterations
    PROVE  Fits(t, Returned(self, reply, steps, card), rows, made)
<1> DEFINE r == Returned(self, reply, steps, card)
<1>1. Unsent \in Turn
  BY BoundsAssumption DEF Unsent, Turn, Pcs
<1>2. self.domains \in SUBSET Areas /\ self.iteration \in 0 .. MaxIterations
  BY DEF Turn
<1>3. Len(made) \in Nat /\ Len(rows) \in Nat
  OBVIOUS
<1>4. r \in Turn
  <2>1. "replying" \in Pcs
    BY DEF Pcs
  <2>2. ASSUME NEW d \in SUBSET Areas, NEW i \in 0 .. MaxIterations, NEW u \in Turn
        PROVE  [u EXCEPT !.pc = "replying", !.reply = reply, !.steps = steps, !.card = card,
                         !.iteration = i, !.domains = d] \in Turn
    BY <2>1 DEF Turn
  <2> QED BY <1>1, <1>2, <2>2 DEF Returned
<1>5. /\ r.pc = "replying" /\ r.seen = 0 /\ r.row = 0 /\ r.goal = 0 /\ r.revising = 0
      /\ r.card = card /\ r.reply = reply /\ r.steps = steps /\ r.iteration = self.iteration
  BY DEF Returned, Unsent
<1>6. Fits(t, r, rows, made)
  <2> HIDE DEF r
  <2> QED BY <1>3, <1>4, <1>5 DEF Fits
<1> QED BY <1>6

\* A reply without any feature the guards look for, with any steps.
LEMMA PlainReply ==
    ASSUME NEW t \in Turns, NEW self \in Turn, NEW steps \in SUBSET Traces,
           NEW reply \in {{}, {"noMatch"}},
           NEW rows \in Seq(StoredRow), NEW made \in Seq(Proposal)
    PROVE  Fits(t, Returned(self, reply, steps, 0), rows, made)
<1>1. reply \in SUBSET Features
  BY DEF Features
<1>2. "asksYes" \notin reply /\ "claims" \notin reply /\ "process" \notin reply
  OBVIOUS
<1>3. ~FileOffence(reply, steps)
  BY DEF FileOffence
<1> QED BY <1>1, <1>2, <1>3, ReturnedFits

InTheLoop == {"loop", "output", "looking"}

\* The same turn, still in the loop.
Keeps(self, r) == /\ self \in Turn /\ self.pc \in InTheLoop
                  /\ self.seen = r.seen /\ self.row = r.row /\ self.goal = r.goal
                  /\ self.revising = r.revising /\ self.card = r.card

LEMMA KeepingFits ==
    ASSUME Kinds, AllFit, NEW t \in Turns, turn[t].pc \in InTheLoop,
           NEW self, Keeps(self, turn[t])
    PROVE  Fits(t, self, thread, proposals)
BY DEF Kinds, AllFit, Fits, Keeps, InTheLoop

\* An iteration that is over, with or without another call of the same output.
LEMMA ContinueKeeps ==
    ASSUME Kinds, AllFit, NEW t \in Turns, turn[t].pc \in InTheLoop,
           NEW self, Keeps(self, turn[t]), Continue(t, self),
           UNCHANGED <<thread, proposals>>
    PROVE  turn' \in [Turns -> Turn] /\ AllFit'
<1>1. CASE turn' = [turn EXCEPT ![t] = self]
  BY <1>1, KeepingFits, OnlyTurn
<1>2. CASE turn' = [turn EXCEPT ![t] = Returned(self, {"noMatch"}, self.steps, 0)]
  <2>1. Fits(t, Returned(self, {"noMatch"}, self.steps, 0), thread, proposals)
    BY PlainReply DEF Keeps, Turn, Kinds
  <2> QED BY <1>2, <2>1, OnlyTurn
<1>3. CASE /\ self.iteration < MaxIterations
           /\ turn' = [turn EXCEPT ![t] = [self EXCEPT !.pc = "loop", !.iteration = @ + 1]]
  <2> DEFINE r == [self EXCEPT !.pc = "loop", !.iteration = @ + 1]
  <2>1. self.iteration + 1 \in 0 .. MaxIterations
    BY <1>3, BoundsAssumption DEF Keeps, Turn
  <2>2. r \in Turn
    BY <2>1 DEF Keeps, Turn, Pcs
  <2>3. Keeps(r, turn[t])
    BY <2>2 DEF Keeps, Turn, InTheLoop
  <2>4. turn' = [turn EXCEPT ![t] = r]
    BY <1>3
  <2> HIDE DEF r
  <2> QED BY <2>3, <2>4, KeepingFits, OnlyTurn
<1> QED BY <1>1, <1>2, <1>3 DEF Continue

\* The next iteration, or the reply after the last.
LEMMA NextIterationKeeps ==
    ASSUME Kinds, AllFit, NEW t \in Turns, turn[t].pc = "output", NextIteration(t),
           UNCHANGED <<thread, proposals>>
    PROVE  turn' \in [Turns -> Turn] /\ AllFit'
<1> DEFINE self == turn[t]
<1>1. self \in Turn /\ turn[t].pc \in InTheLoop
  BY DEF Kinds, InTheLoop
<1>2. CASE self.iteration < MaxIterations
  <2> DEFINE r == [self EXCEPT !.pc = "loop", !.iteration = @ + 1]
  <2>1. self.iteration + 1 \in 0 .. MaxIterations
    BY <1>1, <1>2, BoundsAssumption DEF Turn
  <2>2. r \in Turn
    BY <1>1, <2>1 DEF Turn, Pcs
  <2>3. Keeps(r, turn[t])
    BY <1>1, <2>2 DEF Keeps, Turn, InTheLoop
  <2>4. turn' = [turn EXCEPT ![t] = r]
    BY <1>2 DEF NextIteration
  <2> HIDE DEF r
  <2> QED BY <1>1, <2>3, <2>4, KeepingFits, OnlyTurn
<1>3. CASE ~(self.iteration < MaxIterations)
  <2>1. self.steps \cup {} \in SUBSET Traces
    BY <1>1 DEF Turn
  <2>2. Fits(t, Returned(self, {"noMatch"}, self.steps \cup {}, 0), thread, proposals)
    BY <1>1, <2>1, PlainReply DEF Kinds
  <2>3. turn' = [turn EXCEPT ![t] = Returned(@, {"noMatch"}, @.steps \cup {}, 0)]
    BY <1>3 DEF NextIteration, Result
  <2> QED BY <2>2, <2>3, OnlyTurn
<1> QED BY <1>2, <1>3

\* A file was opened, and the look at it is over.
LEMMA LookedKeeps ==
    ASSUME Kinds, AllFit, NEW t \in Turns, turn[t].pc \in InTheLoop, Looked(t),
           UNCHANGED <<thread, proposals>>
    PROVE  turn' \in [Turns -> Turn] /\ AllFit'
<1> DEFINE r == [turn[t] EXCEPT !.pc = "output", !.steps = @ \cup {"file"}]
<1>1. r \in Turn
  BY DEF Kinds, Turn, Pcs, Traces
<1>2. Keeps(r, turn[t])
  BY <1>1 DEF Keeps, Kinds, Turn, InTheLoop
<1>3. Continue(t, r)
  BY DEF Looked
<1> HIDE DEF r
<1> QED BY <1>2, <1>3, ContinueKeeps

\* runAgent throws.
LEMMA ThrowKeeps ==
    ASSUME Kinds, AllFit, NEW t \in Turns, Throw(t), UNCHANGED <<thread, proposals>>
    PROVE  turn' \in [Turns -> Turn] /\ AllFit'
<1>1. Unsent \in Turn
  BY BoundsAssumption DEF Unsent, Turn, Pcs
<1>2. Fits(t, Returned(Unsent, {}, {}, 0), thread, proposals)
  BY <1>1, PlainReply DEF Kinds, Traces
<1> QED BY <1>2, OnlyTurn DEF Throw

LEMMA NotCalledKeeps ==
    ASSUME Kinds, AllFit, NEW t \in Turns, turn[t].pc \in InTheLoop, NotCalled(t),
           UNCHANGED <<thread, proposals>>
    PROVE  turn' \in [Turns -> Turn] /\ AllFit'
BY LookedKeeps, ThrowKeeps DEF NotCalled

\* A proposal is prepared, for a request that is a row.
LEMMA PrepareKeeps ==
    ASSUME Kinds, AllFit, NEW t \in Turns, NEW origin \in Nat, Prepare(t, origin),
           UNCHANGED thread
    PROVE  /\ turn' \in [Turns -> Turn] /\ AllFit'
           /\ proposals' \in Seq(Proposal) /\ pending' \in 0 .. Len(proposals')
<1> DEFINE p == [by |-> t, known |-> turn[t].seen, origin |-> origin]
           steps == turn[t].steps \cup {"prepared"}
           card == Len(proposals) + 1
           r == Returned(turn[t], {"asksYes"}, steps, card)
<1>1. p \in Proposal
  BY DEF Kinds, Turn, Proposal
<1>2. /\ proposals' = Append(proposals, p) /\ proposals' \in Seq(Proposal)
      /\ Len(proposals') = card /\ card \in Nat /\ card # 0 /\ proposals'[card] = p
  BY <1>1 DEF Prepare, Kinds
<1>3. turn[t] \in Turn /\ steps \in SUBSET Traces
  BY DEF Kinds, Turn, Traces
<1>4. Fits(t, r, thread', proposals')
  <2>1. {"asksYes"} \in SUBSET Features /\ ~FileOffence({"asksYes"}, steps)
    BY DEF Features, FileOffence
  <2>2. proposals'[card].by = t /\ thread' \in Seq(StoredRow) /\ card <= Len(proposals')
    BY <1>2 DEF Kinds
  <2> HIDE DEF card, steps, p
  <2> QED BY <1>2, <1>3, <2>1, <2>2, ReturnedFits
<1>5. turn' = [turn EXCEPT ![t] = r]
  BY DEF Prepare
<1>6. thread' \in Seq(StoredRow) /\ Len(thread) <= Len(thread')
  BY DEF Kinds
<1>7. pending' \in 0 .. Len(proposals')
  BY <1>2 DEF Prepare
<1> HIDE DEF r, p
<1> QED BY <1>1, <1>2, <1>4, <1>5, <1>6, <1>7, OneTurn

-----------------------------------------------------------------------------
(* The steps of a turn.                                                     *)

Rest == Kinds' /\ AllFit'

\* What a step that adds neither row nor proposal leaves to show.
LEMMA SameRows ==
    ASSUME Kinds, UNCHANGED <<thread, proposals>>,
           turn' \in [Turns -> Turn] /\ AllFit',
           pending' \in 0 .. Len(proposals), faults' \in 0 .. MaxFaults
    PROVE  Rest
BY DEF Kinds, Rest

LEMMA ReceiveKeeps ==
    ASSUME IInv, NEW t \in Turns, NEW m \in Messages, Receive(t, m)
    PROVE  Rest
<1> USE DEF IInv
<1> DEFINE r == [turn[t] EXCEPT !.pc = "received", !.msg = m, !.seen = Len(thread)]
<1>1. r \in Turn /\ Len(thread) \in Nat
  <2>1. turn[t] \in Turn /\ Len(thread) \in Nat
    BY DEF Kinds
  <2> QED BY <2>1 DEF Turn, Pcs
<1>2. /\ r.pc = "received" /\ r.seen = Len(thread) /\ r.row = turn[t].row
      /\ r.goal = turn[t].goal /\ r.revising = turn[t].revising /\ r.card = turn[t].card
  BY DEF Kinds, Turn
<1>3. turn' = [turn EXCEPT ![t] = r]
  BY DEF Receive
<1> HIDE DEF r
<1>4. Fits(t, r, thread, proposals)
  BY <1>1, <1>2 DEF AllFit, Fits
<1> QED BY <1>3, <1>4, OnlyTurn, SameRows DEF Receive, Kinds

LEMMA StoreKeeps ==
    ASSUME IInv, NEW t \in Turns, Store(t)
    PROVE  Rest
<1> USE DEF IInv
<1> DEFINE r == [turn[t] EXCEPT !.pc = "stored", !.row = Len(thread) + 1]
<1>1. r \in Turn /\ Len(thread) \in Nat
  <2>1. turn[t] \in Turn /\ Len(thread) \in Nat /\ "stored" \in Pcs
    BY DEF Kinds, Pcs
  <2>2. ASSUME NEW n \in Nat PROVE [turn[t] EXCEPT !.pc = "stored", !.row = n] \in Turn
    BY <2>1 DEF Turn
  <2>3. Len(thread) + 1 \in Nat
    BY <2>1
  <2> QED BY <2>1, <2>2, <2>3
<1>2. /\ r.pc = "stored" /\ r.seen = turn[t].seen /\ r.row = Len(thread) + 1
      /\ r.goal = turn[t].goal /\ r.revising = turn[t].revising /\ r.card = turn[t].card
  BY DEF Kinds, Turn
<1>3. turn' = [turn EXCEPT ![t] = r] /\ proposals' = proposals
  BY DEF Store
<1>4. thread' \in Seq(StoredRow) /\ Len(thread') = Len(thread) + 1
  <2>1. turn[t].msg \in Message
    BY MessagesAssumption DEF Kinds, Turn, Silent, Message
  <2>2. UserRow(turn[t].msg) \in StoredRow
    BY <2>1 DEF UserRow, StoredRow
  <2> QED BY <2>2 DEF Store, Kinds
<1> HIDE DEF r
<1>5. Fits(t, r, thread', proposals')
  <2>1. turn[t].seen <= Len(thread) /\ turn[t].goal <= turn[t].row /\ turn[t].row <= Len(thread)
        /\ turn[t].revising <= Len(proposals) /\ turn[t].card <= Len(proposals)
    BY DEF AllFit, Fits
  <2>2. turn[t].seen \in Nat /\ turn[t].row \in Nat /\ turn[t].goal \in Nat
    BY DEF Kinds, Turn
  <2> QED BY <1>1, <1>2, <1>3, <1>4, <2>1, <2>2 DEF Fits
<1>6. turn' \in [Turns -> Turn] /\ AllFit'
  <2>1. Len(thread) <= Len(thread') /\ proposals' \in Seq(Proposal)
    BY <1>1, <1>3, <1>4 DEF Kinds
  <2> QED BY <1>3, <1>4, <1>5, <2>1, OneTurn
<1> QED BY <1>3, <1>4, <1>6 DEF Store, Kinds, Rest

\* A reply that claims nothing, or what was executed.
LEMMA ResultKeeps ==
    ASSUME Kinds, AllFit, NEW t \in Turns, NEW reply, NEW steps,
           \/ reply = {"noMatch"} /\ steps \in SUBSET Traces
           \/ reply = {"claims"} /\ steps = {"ran"},
           Result(t, reply, steps), UNCHANGED <<thread, proposals>>
    PROVE  turn' \in [Turns -> Turn] /\ AllFit'
<1> DEFINE all == turn[t].steps \cup steps
<1>1. turn[t] \in Turn /\ all \in SUBSET Traces
  BY DEF Kinds, Turn, Traces
<1>2. turn' = [turn EXCEPT ![t] = Returned(turn[t], reply, all, 0)]
  BY DEF Result
<1>3. Fits(t, Returned(turn[t], reply, all, 0), thread, proposals)
  <2>1. CASE reply = {"noMatch"}
    <3> HIDE DEF all
    <3> QED BY <2>1, <1>1, PlainReply DEF Kinds
  <2>2. CASE reply = {"claims"} /\ steps = {"ran"}
    <3>1. reply \in SUBSET Features /\ ~FileOffence(reply, all) /\ "ran" \in all
      BY <2>2 DEF Features, FileOffence
    <3>2. "asksYes" \notin reply /\ "process" \notin reply
      BY <2>2
    <3>3. 0 \in Nat /\ 0 <= Len(proposals)
      BY DEF Kinds
    <3> HIDE DEF all
    <3> QED BY <3>1, <3>2, <3>3, <1>1, ReturnedFits DEF Kinds
  <2> QED BY <2>1, <2>2
<1> HIDE DEF all
<1> QED BY <1>2, <1>3, OnlyTurn

LEMMA DecideKeeps ==
    ASSUME IInv, NEW t \in Turns, Decide(t)
    PROVE  Rest
<1> USE DEF IInv
<1>1. {} \in SUBSET Traces /\ {"cancelled"} \in SUBSET Traces
  BY DEF Traces
<1>2. turn' \in [Turns -> Turn] /\ AllFit'
  BY <1>1, ResultKeeps DEF Decide
<1> QED BY <1>2, SameRows DEF Decide, Kinds

LEMMA AnswerDirectlyKeeps ==
    ASSUME IInv, NEW t \in Turns, AnswerDirectly(t)
    PROVE  Rest
<1> USE DEF IInv
<1>1. CASE Prepare(t, turn[t].row)
  <2>1. turn[t].row \in Nat
    BY DEF Kinds, Turn
  <2> QED BY <1>1, <2>1, PrepareKeeps DEF AnswerDirectly, Kinds, Rest
<1>2. CASE pending' = 0 /\ Result(t, {"noMatch"}, {}) /\ UNCHANGED proposals
  <2>1. turn' \in [Turns -> Turn] /\ AllFit'
    BY <1>2, ResultKeeps DEF AnswerDirectly, Traces
  <2> QED BY <1>2, <2>1, SameRows DEF AnswerDirectly, Kinds
<1> QED BY <1>1, <1>2 DEF AnswerDirectly

LEMMA EnterLoopKeeps ==
    ASSUME IInv, NEW t \in Turns, EnterLoop(t)
    PROVE  Rest
<1> USE DEF IInv
<1> DEFINE m       == turn[t].msg
           revised == IF IsActionRequest(m) \/ "revision" \in m.is THEN pending ELSE 0
           goal    == GoalRow(t)
           intent  == InterpretRequest(IF goal = 0 THEN m ELSE thread[goal].says, History(t))
           r       == [turn[t] EXCEPT !.pc = "loop", !.iteration = 1, !.goal = goal,
                                      !.revising = revised, !.domains = intent.domains,
                                      !.tools = PermittedTools(intent)]
<1>1. /\ turn[t].seen \in Nat /\ turn[t].row \in Nat /\ m \in Message
      /\ turn[t].seen < turn[t].row /\ turn[t].row <= Len(thread) /\ Len(thread) \in Nat
  <2>1. turn[t] \in Turn /\ m \in Message
    BY MessagesAssumption DEF Kinds, Turn, Silent, Message
  <2> QED BY <2>1 DEF EnterLoop, Undecided, Kinds, AllFit, Fits, Turn
<1>2. History(t) \in Seq(StoredRow) /\ Len(History(t)) <= turn[t].seen
  BY <1>1, HistoryIs DEF Kinds
<1>3. goal \in 0 .. turn[t].row
  BY <1>1, <1>2, GoalIsARow DEF GoalRow
<1>4. intent.domains \in SUBSET Areas
  <2>1. goal # 0 => thread[goal].says \in Message
    <3>1. goal # 0 => thread[goal] \in StoredRow
      BY <1>1, <1>3 DEF Kinds
    <3> QED BY <3>1 DEF StoredRow
  <2> HIDE DEF goal
  <2> QED BY <1>1, <1>2, <2>1, DomainsAreAreas
<1>5. PermittedTools(intent) \in SUBSET {"read", "write"}
  BY DEF PermittedTools
<1>6. revised \in 0 .. Len(proposals) /\ 1 \in 0 .. MaxIterations /\ Len(proposals) \in Nat
  BY BoundsAssumption DEF Kinds
<1>7. turn' = [turn EXCEPT ![t] = r]
  BY DEF EnterLoop
<1> HIDE DEF m, revised, goal, intent
<1>8. r \in Turn
  <2>1. turn[t] \in Turn /\ goal \in Nat /\ revised \in Nat /\ "loop" \in Pcs
    BY <1>1, <1>3, <1>6 DEF Kinds, Pcs
  <2> DEFINE doms == intent.domains
             tools == PermittedTools(intent)
  <2>2. doms \in SUBSET Areas /\ tools \in SUBSET {"read", "write"}
    BY <1>4, <1>5
  <2>3. r = [turn[t] EXCEPT !.pc = "loop", !.iteration = 1, !.goal = goal,
                            !.revising = revised, !.domains = doms, !.tools = tools]
    OBVIOUS
  <2> HIDE DEF doms, tools, r
  <2> QED BY <1>6, <2>1, <2>2, <2>3 DEF Turn
<1>9. /\ r.pc = "loop" /\ r.seen = turn[t].seen /\ r.row = turn[t].row
      /\ r.goal = goal /\ r.revising = revised /\ r.card = turn[t].card
  BY DEF Kinds, Turn
<1> HIDE DEF r
<1>10. Fits(t, r, thread, proposals)
  BY <1>1, <1>3, <1>6, <1>8, <1>9 DEF AllFit, Fits
<1>11. UNCHANGED <<thread, proposals, faults>> /\ pending' = 0
  BY DEF EnterLoop
<1>12. turn' \in [Turns -> Turn] /\ AllFit'
  BY <1>7, <1>10, <1>11, OnlyTurn
<1> QED BY <1>6, <1>11, <1>12, SameRows DEF Kinds

LEMMA AnswerKeeps ==
    ASSUME IInv, NEW t \in Turns, NEW reply \in Replies, Answer(t, reply)
    PROVE  Rest
<1> USE DEF IInv
<1> DEFINE self == turn[t]
           said == Checked(reply, self.steps)
           all  == self.steps \cup {}
<1>1. self \in Turn /\ self.pc = "output" /\ all = self.steps /\ all \in SUBSET Traces
  BY DEF Kinds, Turn, Answer
<1>2. UNCHANGED <<thread, pending, proposals, faults>>
  BY DEF Answer
<1>3. turn' \in [Turns -> Turn] /\ AllFit'
  <2>1. CASE NextIteration(t)
    BY <2>1, <1>1, <1>2, NextIterationKeeps
  <2>2. CASE /\ ~InvalidActionReply(reply, Changing(t), self.read = "empty")
             /\ ~(FileOffence(reply, self.steps) /\ self.iteration < MaxIterations)
             /\ Result(t, said, {})
    <3>1. said \in SUBSET Features
      BY RepliesAssumption DEF Checked
    <3>2. "asksYes" \notin said /\ "process" \notin said
      BY <2>2 DEF InvalidActionReply, Checked
    <3>3. "claims" \in said => "ran" \in all
      BY <1>1 DEF Checked
    <3>4. FileOffence(said, all) => self.iteration = MaxIterations
      <4>1. self.iteration \in 0 .. MaxIterations
        BY <1>1 DEF Turn
      <4>2. FileOffence(said, all) => FileOffence(reply, self.steps)
        BY <1>1 DEF FileOffence, Checked
      <4> QED BY <2>2, <4>1, <4>2, BoundsAssumption
    <3>5. turn' = [turn EXCEPT ![t] = Returned(self, said, all, 0)]
      BY <2>2 DEF Result
    <3>6. 0 \in Nat /\ 0 <= Len(proposals)
      BY DEF Kinds
    <3> HIDE DEF said, all, self
    <3>7. Fits(t, Returned(self, said, all, 0), thread, proposals)
      BY <1>1, <3>1, <3>2, <3>3, <3>4, <3>6, ReturnedFits DEF Kinds
    <3> QED BY <1>2, <3>5, <3>7, OnlyTurn
  <2> QED BY <2>1, <2>2 DEF Answer
<1> QED BY <1>2, <1>3, SameRows DEF Kinds

LEMMA ReadToolKeeps ==
    ASSUME IInv, NEW t \in Turns, ReadTool(t)
    PROVE  Rest
<1> USE DEF IInv
<1>1. turn[t] \in Turn /\ turn[t].pc = "output" /\ turn[t].pc \in InTheLoop
  BY DEF Kinds, ReadTool, InTheLoop
<1>2. UNCHANGED <<thread, pending, proposals, faults>>
  BY DEF ReadTool
<1>3. turn' \in [Turns -> Turn] /\ AllFit'
  <2>1. ASSUME NEW found \in BOOLEAN,
               Continue(t, [turn[t] EXCEPT !.read = Evidence(@, found)])
        PROVE  turn' \in [Turns -> Turn] /\ AllFit'
    <3> DEFINE r == [turn[t] EXCEPT !.read = Evidence(@, found)]
    <3>1. Evidence(turn[t].read, found) \in {"unknown", "empty", "found"}
      BY <1>1 DEF Evidence, Turn
    <3>2. r \in Turn
      BY <1>1, <3>1 DEF Turn
    <3>3. Keeps(r, turn[t])
      BY <1>1, <3>2 DEF Keeps, Turn, InTheLoop
    <3> HIDE DEF r
    <3> QED BY <1>1, <1>2, <2>1, <3>3, ContinueKeeps DEF r
  <2>2. CASE Looked(t)
    BY <1>1, <1>2, <2>2, LookedKeeps
  <2>3. CASE turn' = [turn EXCEPT ![t].pc = "looking"]
    <3> DEFINE r == [turn[t] EXCEPT !.pc = "looking"]
    <3>1. r \in Turn
      BY <1>1 DEF Turn, Pcs
    <3>2. Keeps(r, turn[t])
      BY <1>1, <3>1 DEF Keeps, Turn, InTheLoop
    <3>3. turn' = [turn EXCEPT ![t] = r]
      BY <2>3
    <3> HIDE DEF r
    <3> QED BY <1>1, <1>2, <3>2, <3>3, KeepingFits, OnlyTurn
  <2>4. CASE Throw(t)
    BY <1>2, <2>4, ThrowKeeps
  <2> QED BY <2>1, <2>2, <2>3, <2>4 DEF ReadTool
<1> QED BY <1>2, <1>3, SameRows DEF Kinds

LEMMA WriteToolKeeps ==
    ASSUME IInv, NEW t \in Turns, WriteTool(t)
    PROVE  Rest
<1> USE DEF IInv
<1>1. turn[t] \in Turn /\ turn[t].pc \in InTheLoop
  BY DEF Kinds, WriteTool, InTheLoop
<1>2. UNCHANGED <<thread, faults>>
  BY DEF WriteTool
<1>3. CASE Prepare(t, IF turn[t].goal = 0 THEN turn[t].row ELSE turn[t].goal)
  <2>1. (IF turn[t].goal = 0 THEN turn[t].row ELSE turn[t].goal) \in Nat
    BY <1>1 DEF Turn
  <2> QED BY <1>2, <1>3, <2>1, PrepareKeeps DEF Kinds, Rest
<1>4. CASE (Continue(t, turn[t]) \/ Throw(t)) /\ UNCHANGED <<pending, proposals>>
  <2>1. Keeps(turn[t], turn[t])
    BY <1>1 DEF Keeps
  <2>2. turn' \in [Turns -> Turn] /\ AllFit'
    BY <1>1, <1>2, <1>4, <2>1, ContinueKeeps, ThrowKeeps
  <2> QED BY <1>2, <1>4, <2>2, SameRows DEF Kinds
<1> QED BY <1>3, <1>4 DEF WriteTool

LEMMA DeliverKeeps ==
    ASSUME IInv, NEW t \in Turns, Deliver(t)
    PROVE  Rest
<1> USE DEF IInv
<1> DEFINE r   == [Unsent EXCEPT !.pc = "done"]
           row == [by |-> "assistant", says |-> [Silent EXCEPT !.names = turn[t].domains],
                   asks |-> AsksDetail(turn[t].reply),
                   steps |-> turn[t].steps \ {"file"}, card |-> turn[t].card]
<1>1. /\ turn' = [turn EXCEPT ![t] = r]
      /\ thread' = Append(thread, row) \/ thread' = thread
      /\ faults' \in {faults, faults + 1} /\ (faults' # faults => faults < MaxFaults)
      /\ UNCHANGED <<pending, proposals>>
  BY DEF Deliver
<1>2. turn[t] \in Turn /\ Len(thread) \in Nat /\ Len(proposals) \in Nat
  BY DEF Kinds
<1>3. row \in StoredRow
  <2>1. [Silent EXCEPT !.names = turn[t].domains] \in Message
    BY <1>2 DEF Silent, Message, Turn
  <2>2. turn[t].steps \ {"file"} \in SUBSET {"prepared", "ran", "cancelled"}
    BY <1>2 DEF Turn, Traces
  <2>3. AsksDetail(turn[t].reply) \in BOOLEAN
    BY DEF AsksDetail
  <2>4. turn[t].card \in Nat
    BY <1>2 DEF Turn
  <2> QED BY <2>1, <2>2, <2>3, <2>4 DEF StoredRow
<1>4. r \in Turn
  <2>1. Unsent \in Turn
    BY BoundsAssumption DEF Unsent, Turn, Pcs
  <2> QED BY <2>1 DEF Turn, Pcs
<1>5. /\ r.pc = "done" /\ r.seen = 0 /\ r.row = 0 /\ r.goal = 0
      /\ r.revising = 0 /\ r.card = 0
  BY DEF Unsent
<1>6. thread' \in Seq(StoredRow) /\ Len(thread) <= Len(thread') /\ Len(thread') \in Nat
  <2> HIDE DEF row
  <2>1. thread \in Seq(StoredRow)
    BY DEF Kinds
  <2>2. CASE thread' = Append(thread, row)
    <3>1. Append(thread, row) \in Seq(StoredRow) /\ Len(Append(thread, row)) = Len(thread) + 1
      BY <2>1, <1>3
    <3> QED BY <2>2, <3>1, <1>2
  <2>3. CASE thread' = thread
    BY <2>1, <2>3, <1>2
  <2> QED BY <1>1, <2>2, <2>3
<1> HIDE DEF r, row
<1>7. Fits(t, r, thread', proposals')
  BY <1>1, <1>2, <1>4, <1>5, <1>6 DEF Fits
<1>8. turn' \in [Turns -> Turn] /\ AllFit'
  <2>1. proposals' \in Seq(Proposal) /\ proposals' = proposals
    BY <1>1 DEF Kinds
  <2> QED BY <1>1, <1>6, <1>7, <2>1, OneTurn
<1>9. faults' \in 0 .. MaxFaults
  BY <1>1, BoundsAssumption DEF Kinds
<1> QED BY <1>1, <1>6, <1>8, <1>9 DEF Kinds, Rest

-----------------------------------------------------------------------------
(* The money.                                                               *)

LEMMA AdmitKeeps ==
    ASSUME IInv, NEW c \in Callers, NEW k \in Categorised, Admit(c, k)
    PROVE  Money' /\ faults' \in 0 .. MaxFaults
<1> USE DEF IInv
<1>1. PICK blind \in BOOLEAN :
        /\ blind => faults < MaxFaults
        /\ faults' = IF blind THEN faults + 1 ELSE faults
        /\ call' = [call EXCEPT ![c] = [state |-> "allowed", cost |-> 0, blind |-> blind]]
  BY DEF Admit
<1> QED BY <1>1, BoundsAssumption DEF Admit, Money, Kinds

LEMMA PayKeeps ==
    ASSUME IInv, NEW c \in Callers, NEW k \in Categorised, Pay(c, k)
    PROVE  Money'
<1> USE DEF IInv
<1>1. PICK cost \in 1 .. MaxCost :
        /\ call' = [call EXCEPT ![c].state = "due", ![c].cost = cost]
        /\ spent' = [spent EXCEPT ![k] = @ + cost]
        /\ unseen' = [unseen EXCEPT ![k] = @ + IF call[c].blind THEN cost ELSE 0]
  BY DEF Pay
<1>2. cost \in Nat
  BY BoundsAssumption
<1>3. spent' \in Sums /\ unseen' \in Sums
  BY <1>1, <1>2 DEF Money, Sums
<1>4. call' \in [Callers -> [state : {"none", "allowed", "due"}, cost : Nat, blind : BOOLEAN]]
  BY <1>1, <1>2 DEF Money
<1> QED BY <1>3, <1>4 DEF Money, Pay

LEMMA LoseKeeps ==
    ASSUME IInv, NEW c \in Callers, NEW k \in Categorised, LoseAnswer(c, k)
    PROVE  Money' /\ faults' \in 0 .. MaxFaults
<1> USE DEF IInv
<1>1. PICK cost \in 1 .. MaxCost : /\ spent' = [spent EXCEPT ![k] = @ + cost]
                                  /\ unseen' = [unseen EXCEPT ![k] = @ + cost]
  BY DEF LoseAnswer
<1>2. cost \in Nat
  BY BoundsAssumption
<1>3. spent' \in Sums /\ unseen' \in Sums
  BY <1>1, <1>2 DEF Money, Sums
<1>4. faults' \in 0 .. MaxFaults /\ UNCHANGED <<ledger, call>>
  BY BoundsAssumption DEF LoseAnswer, Kinds
<1> QED BY <1>3, <1>4 DEF Money

LEMMA RecordKeeps ==
    ASSUME IInv, NEW c \in Callers, NEW k \in Categorised, Record(c, k)
    PROVE  Money' /\ faults' \in 0 .. MaxFaults
<1> USE DEF IInv
<1>1. call[c].cost \in Nat /\ NoCall \in [state : {"none", "allowed", "due"}, cost : Nat, blind : BOOLEAN]
  BY DEF Money, NoCall
<1>2. call' \in [Callers -> [state : {"none", "allowed", "due"}, cost : Nat, blind : BOOLEAN]]
  BY <1>1 DEF Record, Money
<1>3. CASE ledger' = [ledger EXCEPT ![k] = @ + call[c].cost] /\ UNCHANGED <<unseen, faults>>
  <2>1. ledger' \in Sums
    BY <1>1, <1>3 DEF Money, Sums
  <2> QED BY <1>2, <1>3, <2>1 DEF Record, Money, Kinds
<1>4. CASE /\ faults < MaxFaults /\ faults' = faults + 1
           /\ unseen' = [unseen EXCEPT ![k] = @ + IF call[c].blind THEN 0 ELSE call[c].cost]
           /\ UNCHANGED ledger
  <2>1. unseen' \in Sums
    BY <1>1, <1>4 DEF Money, Sums
  <2>2. faults' \in 0 .. MaxFaults
    BY <1>4, BoundsAssumption DEF Kinds
  <2> QED BY <1>2, <1>4, <2>1, <2>2 DEF Record, Money
<1> QED BY <1>3, <1>4 DEF Record

\* The calls of a turn: what its check, its call and its record do to it.
LEMMA CallKeeps ==
    ASSUME IInv, NEW t \in Turns,
           CheckBudget(t) \/ CallModel(t) \/ RecordUsage(t) \/ BudgetExhausted(t) \/ ModelFails(t)
    PROVE  Rest /\ Money'
<1> USE DEF IInv
<1>1. t \in Callers /\ "interactive" \in Categorised
  BY DEF Callers, Categorised
<1>2. turn[t] \in Turn /\ turn[t].pc \in InTheLoop
  BY DEF Kinds, CheckBudget, CallModel, RecordUsage, BudgetExhausted, ModelFails, Calling,
         InTheLoop
<1>3. CASE CheckBudget(t)
  <2>1. Money' /\ faults' \in 0 .. MaxFaults
    BY <1>1, <1>3, AdmitKeeps DEF CheckBudget
  <2> QED BY <1>3, <2>1 DEF CheckBudget, Kinds, AllFit, Rest
<1>4. CASE CallModel(t)
  <2>1. Money' /\ faults' \in 0 .. MaxFaults
    <3>1. CASE Pay(t, "interactive")
      BY <1>1, <3>1, PayKeeps DEF Pay, Kinds
    <3>2. CASE LoseAnswer(t, "interactive")
      BY <1>1, <3>2, LoseKeeps
    <3> QED BY <1>4, <3>1, <3>2 DEF CallModel
  <2> QED BY <1>4, <2>1 DEF CallModel, Kinds, AllFit, Rest
<1>5. CASE RecordUsage(t)
  <2>1. Money' /\ faults' \in 0 .. MaxFaults
    BY <1>1, <1>5, RecordKeeps DEF RecordUsage
  <2>2. UNCHANGED <<thread, pending, proposals>>
    BY <1>5 DEF RecordUsage
  <2>3. CASE Looked(t)
    BY <1>2, <2>1, <2>2, <2>3, LookedKeeps, SameRows DEF Kinds
  <2>4. CASE turn' = [turn EXCEPT ![t].pc = "output"]
    <3> DEFINE r == [turn[t] EXCEPT !.pc = "output"]
    <3>1. r \in Turn
      BY <1>2 DEF Turn, Pcs
    <3>2. Keeps(r, turn[t])
      BY <1>2, <3>1 DEF Keeps, Turn, InTheLoop
    <3>3. turn' = [turn EXCEPT ![t] = r]
      BY <2>4
    <3> HIDE DEF r
    <3>4. turn' \in [Turns -> Turn] /\ AllFit'
      BY <1>2, <2>2, <3>2, <3>3, KeepingFits, OnlyTurn
    <3> QED BY <2>1, <2>2, <3>4, SameRows DEF Kinds
  <2> QED BY <1>5, <2>1, <2>3, <2>4 DEF RecordUsage
<1>6. CASE BudgetExhausted(t) \/ ModelFails(t)
  <2>1. NotCalled(t) /\ UNCHANGED <<thread, pending, proposals, faults>>
    BY <1>6 DEF BudgetExhausted, ModelFails
  <2>2. Rest
    BY <1>2, <2>1, NotCalledKeeps, SameRows DEF Kinds
  <2>3. Money'
    <3>1. CASE BudgetExhausted(t)
      BY <3>1 DEF BudgetExhausted, Money, money
    <3>2. CASE ModelFails(t)
      <4>1. NoCall \in [state : {"none", "allowed", "due"}, cost : Nat, blind : BOOLEAN]
        BY DEF NoCall
      <4> QED BY <3>2, <4>1 DEF ModelFails, Money
    <3> QED BY <1>6, <3>1, <3>2
  <2> QED BY <2>2, <2>3
<1> QED BY <1>3, <1>4, <1>5, <1>6

LEMMA BriefKeeps ==
    ASSUME IInv, NEW b \in Briefings, Brief(b)
    PROVE  Rest /\ Money'
<1> USE DEF IInv
<1>1. b \in Callers /\ "briefing" \in Categorised
  BY DEF Callers, Categorised
<1>2. Money' /\ faults' \in 0 .. MaxFaults
  <2>1. CASE Admit(b, "briefing")
    BY <1>1, <2>1, AdmitKeeps
  <2>2. CASE call' = [call EXCEPT ![b] = NoCall] /\ UNCHANGED <<ledger, spent, unseen, faults>>
    BY <2>2 DEF Money, NoCall, Kinds
  <2>3. CASE Pay(b, "briefing")
    BY <1>1, <2>3, PayKeeps DEF Pay, Kinds
  <2>4. CASE Record(b, "briefing")
    BY <1>1, <2>4, RecordKeeps
  <2>5. CASE LoseAnswer(b, "briefing")
    BY <1>1, <2>5, LoseKeeps
  <2> QED BY <2>1, <2>2, <2>3, <2>4, <2>5 DEF Brief
<1>3. UNCHANGED <<thread, turn, pending, proposals>>
  BY DEF Brief
<1> QED BY <1>2, <1>3 DEF Kinds, AllFit, Rest

-----------------------------------------------------------------------------
(* The invariant and what follows from it.                                  *)

LEMMA Holds0 == Init => IInv
<1> SUFFICES ASSUME Init PROVE IInv
  OBVIOUS
<1>1. Unsent \in Turn
  BY BoundsAssumption DEF Unsent, Turn, Pcs
<1>2. thread \in Seq(StoredRow) /\ proposals = <<>> /\ proposals \in Seq(Proposal)
  BY MessagesAssumption DEF Init
<1>3. Kinds
  BY <1>1, <1>2, BoundsAssumption DEF Init, Kinds
<1>4. Money
  BY DEF Init, Money, Sums, NoCall
<1>5. /\ Unsent.pc = "unsent" /\ Unsent.seen = 0 /\ Unsent.row = 0 /\ Unsent.goal = 0
      /\ Unsent.revising = 0 /\ Unsent.card = 0
  BY DEF Unsent
<1>6. Len(thread) \in Nat /\ Len(proposals) \in Nat
  BY <1>2
<1>7. \A t \in Turns : turn[t] = Unsent
  BY DEF Init
<1>8. AllFit
  BY <1>1, <1>5, <1>6, <1>7 DEF AllFit, Fits
<1> QED BY <1>3, <1>4, <1>8 DEF IInv

LEMMA StepHolds == IInv /\ [Next]_vars => IInv'
<1> SUFFICES ASSUME IInv, [Next]_vars PROVE IInv'
  OBVIOUS
<1>1. ASSUME NEW t \in Turns,
             \/ \E m \in Messages : Receive(t, m)
             \/ Store(t) \/ Decide(t) \/ AnswerDirectly(t) \/ EnterLoop(t)
             \/ ReadTool(t) \/ WriteTool(t) \/ Deliver(t)
             \/ \E reply \in Replies : Answer(t, reply)
      PROVE  IInv'
  <2>1. Rest
    BY <1>1, ReceiveKeeps, StoreKeeps, DecideKeeps, AnswerDirectlyKeeps, EnterLoopKeeps,
       ReadToolKeeps, WriteToolKeeps, DeliverKeeps, AnswerKeeps
  <2>2. UNCHANGED money
    BY <1>1 DEF Receive, Store, Decide, AnswerDirectly, EnterLoop, ReadTool, WriteTool,
                Deliver, Answer
  <2> QED BY <2>1, <2>2 DEF IInv, Rest, Money, money
<1>2. ASSUME NEW t \in Turns,
             CheckBudget(t) \/ CallModel(t) \/ RecordUsage(t) \/ BudgetExhausted(t) \/ ModelFails(t)
      PROVE  IInv'
  BY <1>2, CallKeeps DEF IInv, Rest
<1>3. ASSUME NEW b \in Briefings, Brief(b) PROVE IInv'
  BY <1>3, BriefKeeps DEF IInv, Rest
<1>4. CASE UNCHANGED vars
  BY <1>4 DEF IInv, Kinds, Money, AllFit, vars
<1> QED BY <1>1, <1>2, <1>3, <1>4 DEF Next, Work

\* Every turn fits: what it read was there, its question came later, what it
\* names exists (the locals of runAgent).
THEOREM Inductive == Spec => []IInv
<1> QED BY Holds0, StepHolds, PTL DEF Spec

LEMMA Typed == IInv => TypeOK
<1> SUFFICES ASSUME IInv PROVE TypeOK
  OBVIOUS
<1> USE DEF IInv
<1>1. ASSUME NEW t \in Turns PROVE TurnOK(turn[t])
  <2>1. turn[t] \in Turn /\ Fits(t, turn[t], thread, proposals)
    BY DEF Kinds, AllFit
  <2>2. Len(thread) \in Nat /\ Len(proposals) \in Nat
    BY DEF Kinds
  <2> QED BY <2>1, <2>2 DEF TurnOK, Fits, Turn, Pcs
<1>2. \A c \in Callers : call[c].state \in {"none", "allowed", "due"}
  BY DEF Money
<1> QED BY <1>1, <1>2 DEF TypeOK, Kinds, Money, Sums

\* Every variable of the turns and of the budget holds a value of its kind.
THEOREM TypeCorrect == Spec => []TypeOK
<1> QED BY Inductive, Typed, PTL

\* A reply invites a Yes, claims or refuses only what the turn has behind it,
\* whatever the model says and however many turns overlap (the guards of
\* runAgent).
THEOREM RepliesHaveBacking == Spec => []RepliesAreBacked
<1>1. IInv => RepliesAreBacked
  BY DEF IInv, AllFit, Fits, RepliesAreBacked
<1> QED BY <1>1, Inductive, PTL

-----------------------------------------------------------------------------
(* Proposals and the requests they answer.                                  *)

\* She asked for a change in this row.
Requested(i, rows) == /\ i \in 1 .. Len(rows) /\ rows[i].by = "user"
                      /\ rows[i].says.is \cap {"write", "rule"} # {}

\* As far as a turn could see when n rows were stored, nothing came of row i.
Unanswered(i, n, rows) == \A j \in i + 1 .. RowsRead(n) : ~PreparedOrRun(rows[j])

\* The row of the request that a proposal of this turn would answer.
OriginOf(r) == IF r.goal = 0 THEN r.row ELSE r.goal

\* Its own question is a row of the conversation; with a write tool in hand it
\* works on a request, and on an earlier one only while that is unanswered; a
\* reply with a card says that it was prepared.
Asked(r, rows) ==
    /\ r.pc \in {"stored"} \cup InTheLoop => rows[r.row] = UserRow(r.msg)
    /\ r.pc \in InTheLoop /\ "write" \in r.tools => Requested(OriginOf(r), rows)
    /\ r.pc \in InTheLoop /\ r.goal \notin {0, r.row} => Unanswered(r.goal, r.seen, rows)
    /\ r.pc = "replying" /\ r.card # 0 => "prepared" \in r.steps

\* The card of a proposal is in a row after the request, and shows as prepared.
CardsFollow(rows, made) ==
    \A i \in 1 .. Len(rows) : rows[i].card # 0 =>
       /\ rows[i].card <= Len(made) /\ made[rows[i].card].origin < i
       /\ "prepared" \in rows[i].steps

\* Proposal p answers a request that no card its turn could read answers.
Answers(p, rows, made) ==
    /\ Requested(made[p].origin, rows) /\ made[p].known <= Len(rows)
    /\ \A q \in 1 .. p - 1 : made[q].origin = made[p].origin =>
         \A i \in 1 .. RowsRead(made[p].known) : rows[i].card # q

ThreadInv ==
    /\ \A t \in Turns : Asked(turn[t], thread)
    /\ CardsFollow(thread, proposals)
    /\ \A p \in 1 .. Len(proposals) : Answers(p, thread, proposals)

\* What is asked for stays asked for when a row is added.
LEMMA AddedRow ==
    ASSUME NEW rows \in Seq(StoredRow), NEW row \in StoredRow
    PROVE  LET longer == Append(rows, row) IN
           /\ longer \in Seq(StoredRow) /\ Len(longer) = Len(rows) + 1
           /\ Len(rows) \in Nat
           /\ \A i \in 1 .. Len(rows) : longer[i] = rows[i]
           /\ longer[Len(rows) + 1] = row
           /\ \A i : Requested(i, rows) => Requested(i, longer)
           /\ \A i, n \in Nat : n <= Len(rows) /\ Unanswered(i, n, rows) => Unanswered(i, n, longer)
<1> DEFINE longer == Append(rows, row)
<1>1. /\ longer \in Seq(StoredRow) /\ Len(longer) = Len(rows) + 1 /\ Len(rows) \in Nat
      /\ \A i \in 1 .. Len(rows) : longer[i] = rows[i]
      /\ longer[Len(rows) + 1] = row
  OBVIOUS
<1> HIDE DEF longer
<1>2. ASSUME NEW i, Requested(i, rows) PROVE Requested(i, longer)
  BY <1>1, <1>2 DEF Requested
<1>3. ASSUME NEW i \in Nat, NEW n \in Nat, n <= Len(rows), Unanswered(i, n, rows)
      PROVE  Unanswered(i, n, longer)
  <2> SUFFICES ASSUME NEW j \in i + 1 .. RowsRead(n) PROVE ~PreparedOrRun(longer[j])
    BY DEF Unanswered
  <2>1. j \in 1 .. Len(rows)
    BY <1>1, <1>3, RowsReadIs
  <2> QED BY <1>1, <1>3, <2>1 DEF Unanswered
<1> QED BY <1>1, <1>2, <1>3 DEF longer

LEMMA AddedRowAsks ==
    ASSUME NEW t \in Turns, NEW r, NEW made \in Seq(Proposal),
           NEW rows \in Seq(StoredRow), NEW row \in StoredRow,
           Fits(t, r, rows, made), Asked(r, rows)
    PROVE  Asked(r, Append(rows, row))
<1> DEFINE longer == Append(rows, row)
<1>1. /\ Len(rows) \in Nat /\ \A i \in 1 .. Len(rows) : longer[i] = rows[i]
      /\ \A i : Requested(i, rows) => Requested(i, longer)
      /\ \A i, n \in Nat : n <= Len(rows) /\ Unanswered(i, n, rows) => Unanswered(i, n, longer)
  BY AddedRow
<1>2. r.seen \in Nat /\ r.row \in Nat /\ r.goal \in Nat /\ r.seen <= Len(rows) /\ r.row <= Len(rows)
  BY DEF Fits, Turn
<1> HIDE DEF longer
<1>3. r.pc \in {"stored"} \cup InTheLoop => longer[r.row] = UserRow(r.msg)
  <2> SUFFICES ASSUME r.pc \in {"stored"} \cup InTheLoop PROVE longer[r.row] = UserRow(r.msg)
    OBVIOUS
  <2>1. r.seen < r.row
    BY DEF Fits, InTheLoop
  <2>2. r.row \in 1 .. Len(rows)
    BY <1>1, <1>2, <2>1
  <2> QED BY <1>1, <2>2 DEF Asked
<1>4. Asked(r, longer)
  BY <1>1, <1>2, <1>3 DEF Asked
<1> QED BY <1>4 DEF longer

\* A row is added: a question, or an answer with its card.
LEMMA RowKeepsThread ==
    ASSUME Kinds, AllFit, ThreadInv, NEW t \in Turns, NEW r, NEW row \in StoredRow,
           turn' = [turn EXCEPT ![t] = r],
           thread' = Append(thread, row), proposals' = proposals,
           Asked(r, thread'),
           row.card # 0 => row.card = turn[t].card /\ "prepared" \in row.steps
    PROVE  ThreadInv'
<1>1. /\ thread \in Seq(StoredRow) /\ proposals \in Seq(Proposal)
      /\ turn \in [Turns -> Turn]
  BY DEF Kinds
<1>2. /\ Len(thread) \in Nat /\ Len(thread') = Len(thread) + 1
      /\ \A i \in 1 .. Len(thread) : thread'[i] = thread[i]
      /\ thread'[Len(thread) + 1] = row
      /\ \A i : Requested(i, thread) => Requested(i, thread')
  BY <1>1, AddedRow
<1>3. ASSUME NEW u \in Turns PROVE Asked(turn'[u], thread')
  <2>1. Fits(u, turn[u], thread, proposals) /\ Asked(turn[u], thread)
    BY DEF AllFit, ThreadInv
  <2>2. Asked(turn[u], Append(thread, row))
    BY <1>1, <2>1, AddedRowAsks
  <2>3. turn'[u] = IF u = t THEN r ELSE turn[u]
    BY <1>1
  <2> QED BY <2>2, <2>3
<1>4. CardsFollow(thread', proposals')
  <2> SUFFICES ASSUME NEW i \in 1 .. Len(thread'), thread'[i].card # 0
               PROVE  /\ thread'[i].card <= Len(proposals)
                      /\ proposals[thread'[i].card].origin < i
                      /\ "prepared" \in thread'[i].steps
    BY DEF CardsFollow
  <2>1. CASE i \in 1 .. Len(thread)
    BY <2>1, <1>2 DEF ThreadInv, CardsFollow
  <2>2. CASE i = Len(thread) + 1
    <3> DEFINE q == row.card
    <3>1. thread'[i] = row /\ q # 0 /\ q = turn[t].card /\ "prepared" \in row.steps
      BY <2>2, <1>2
    <3>2. q \in Nat /\ q <= Len(proposals) /\ Len(proposals) \in Nat
      BY <3>1, <1>1 DEF AllFit, Fits, Turn
    <3>3. q \in 1 .. Len(proposals)
      BY <3>1, <3>2
    <3>4. proposals[q].origin \in 1 .. Len(thread)
      BY <3>3 DEF ThreadInv, Answers, Requested
    <3> QED BY <1>2, <2>2, <3>1, <3>2, <3>4
  <2> QED BY <2>1, <2>2, <1>2
<1>5. ASSUME NEW p \in 1 .. Len(proposals') PROVE Answers(p, thread', proposals')
  <2>1. Answers(p, thread, proposals) /\ proposals[p] \in Proposal
    BY <1>1, <1>5 DEF ThreadInv
  <2>2. /\ Requested(proposals[p].origin, thread') /\ proposals[p].known \in Nat
        /\ proposals[p].known <= Len(thread) /\ proposals[p].known <= Len(thread')
    BY <1>2, <2>1 DEF Answers, Proposal
  <2>3. \A i \in 1 .. RowsRead(proposals[p].known) : thread'[i] = thread[i]
    <3>1. /\ RowsRead(proposals[p].known) \in Nat
          /\ RowsRead(proposals[p].known) <= proposals[p].known
      BY <2>2, RowsReadIs
    <3> QED BY <1>2, <2>2, <3>1
  <2>4. ASSUME NEW q \in 1 .. p - 1, proposals[q].origin = proposals[p].origin,
               NEW i \in 1 .. RowsRead(proposals[p].known)
        PROVE  thread'[i].card # q
    BY <2>1, <2>3, <2>4 DEF Answers
  <2> QED BY <2>2, <2>4 DEF Answers
<1> QED BY <1>3, <1>4, <1>5 DEF ThreadInv

\* No row and no proposal is added.
LEMMA TurnKeepsThread ==
    ASSUME Kinds, ThreadInv, NEW t \in Turns, NEW r, turn' = [turn EXCEPT ![t] = r],
           UNCHANGED <<thread, proposals>>, Asked(r, thread)
    PROVE  ThreadInv'
<1>1. ASSUME NEW u \in Turns PROVE Asked(turn'[u], thread)
  <2>1. turn'[u] = IF u = t THEN r ELSE turn[u]
    BY DEF Kinds
  <2> QED BY <2>1 DEF ThreadInv
<1> QED BY <1>1 DEF ThreadInv

\* A proposal is added, for a request that is unanswered as far as this turn
\* could see.
LEMMA ProposalKeepsThread ==
    ASSUME Kinds, AllFit, ThreadInv, NEW t \in Turns, NEW origin \in Nat,
           Prepare(t, origin), UNCHANGED thread,
           Requested(origin, thread), Unanswered(origin, turn[t].seen, thread)
    PROVE  ThreadInv'
<1> DEFINE n == Len(proposals)
           new == [by |-> t, known |-> turn[t].seen, origin |-> origin]
           r == Returned(turn[t], {"asksYes"}, turn[t].steps \cup {"prepared"}, n + 1)
<1>1. /\ turn \in [Turns -> Turn] /\ thread \in Seq(StoredRow) /\ proposals \in Seq(Proposal)
      /\ n \in Nat /\ turn[t].seen \in Nat /\ turn[t].seen <= Len(thread) /\ Len(thread) \in Nat
  BY DEF Kinds, AllFit, Fits, Turn
<1>2. new \in Proposal
  BY <1>1 DEF Proposal
<1>3. proposals' = Append(proposals, new) /\ turn' = [turn EXCEPT ![t] = r]
  BY DEF Prepare
<1>4. /\ Len(proposals') = n + 1 /\ proposals'[n + 1] = new
      /\ \A p \in 1 .. n : proposals'[p] = proposals[p]
  BY <1>1, <1>2, <1>3
<1>5. Asked(r, thread)
  BY DEF Asked, Returned, Unsent, InTheLoop
<1>6. ASSUME NEW u \in Turns PROVE Asked(turn'[u], thread')
  <2>1. turn'[u] = IF u = t THEN r ELSE turn[u]
    BY <1>1, <1>3
  <2> HIDE DEF r
  <2> QED BY <1>5, <2>1 DEF ThreadInv
<1>7. new.known = turn[t].seen /\ new.origin = origin
  OBVIOUS
<1> HIDE DEF n, new, r
<1>8. \A i \in 1 .. Len(thread) : thread[i].card # 0 => thread[i].card \in 1 .. n
  <2> SUFFICES ASSUME NEW i \in 1 .. Len(thread), thread[i].card # 0
               PROVE  thread[i].card \in 1 .. n
    OBVIOUS
  <2>1. thread[i].card \in Nat
    <3>1. thread[i] \in StoredRow
      BY <1>1
    <3> QED BY <3>1 DEF StoredRow
  <2>2. thread[i].card <= n
    BY DEF ThreadInv, CardsFollow, n
  <2> QED BY <1>1, <2>1, <2>2
<1>9. CardsFollow(thread', proposals')
  <2> SUFFICES ASSUME NEW i \in 1 .. Len(thread), thread[i].card # 0
               PROVE  /\ thread[i].card <= Len(proposals')
                      /\ proposals'[thread[i].card].origin < i
                      /\ "prepared" \in thread[i].steps
    BY DEF CardsFollow
  <2>1. proposals[thread[i].card].origin < i /\ "prepared" \in thread[i].steps
    BY DEF ThreadInv, CardsFollow
  <2> QED BY <1>1, <1>4, <1>8, <2>1
<1>10. ASSUME NEW p \in 1 .. Len(proposals') PROVE Answers(p, thread', proposals')
  <2>1. CASE p \in 1 .. n
    <3>1. Answers(p, thread, proposals) /\ proposals'[p] = proposals[p]
      BY <1>4, <2>1 DEF ThreadInv, n
    <3>2. \A q \in 1 .. p - 1 : proposals'[q] = proposals[q]
      BY <1>1, <1>4, <2>1
    <3> QED BY <3>1, <3>2 DEF Answers
  <2>2. CASE p = n + 1
    <3>1. Requested(origin, thread') /\ turn[t].seen <= Len(thread')
      BY <1>1
    <3>2. ASSUME NEW q \in 1 .. n, proposals[q].origin = origin,
                 NEW i \in 1 .. RowsRead(turn[t].seen), thread[i].card = q
          PROVE  FALSE
      <4>1. RowsRead(turn[t].seen) \in Nat /\ RowsRead(turn[t].seen) <= turn[t].seen
        BY <1>1, RowsReadIs
      <4>2. i \in 1 .. Len(thread) /\ thread[i].card # 0
        BY <1>1, <3>2, <4>1
      <4>3. origin < i /\ "prepared" \in thread[i].steps
        BY <3>2, <4>2 DEF ThreadInv, CardsFollow
      <4>4. i \in origin + 1 .. RowsRead(turn[t].seen)
        BY <1>1, <3>2, <4>1, <4>3
      <4> QED BY <3>2, <4>3, <4>4 DEF Unanswered, PreparedOrRun
    <3>3. p - 1 = n
      BY <1>1, <2>2
    <3>4. \A q \in 1 .. n : proposals'[q] = proposals[q]
      BY <1>4
    <3>5. proposals'[p].origin = origin /\ proposals'[p].known = turn[t].seen
      BY <1>4, <1>7, <2>2
    <3>6. ASSUME NEW q \in 1 .. p - 1, proposals'[q].origin = proposals'[p].origin,
                 NEW i \in 1 .. RowsRead(proposals'[p].known)
          PROVE  thread'[i].card # q
      BY <3>2, <3>3, <3>4, <3>5, <3>6
    <3> QED BY <3>1, <3>5, <3>6 DEF Answers
  <2> QED BY <1>1, <1>4, <2>1, <2>2
<1> QED BY <1>6, <1>9, <1>10 DEF ThreadInv

\* What a turn becomes by a step inside the loop, or one that leaves it
\* without a proposal.
Stays(self, r)  == Keeps(self, r) /\ self.msg = r.msg /\ self.tools = r.tools
Leaves(self)    == self.pc = "replying" /\ self.card = 0
Goes(t) == \E r : /\ turn' = [turn EXCEPT ![t] = r]
                  /\ \/ Stays(r, turn[t]) /\ turn[t].pc \in InTheLoop
                     \/ Leaves(r)

LEMMA ReturnedLeaves ==
    ASSUME NEW self, NEW reply, NEW steps
    PROVE  Leaves(Returned(self, reply, steps, 0))
BY DEF Leaves, Returned, Unsent

LEMMA ContinueGoes ==
    ASSUME Kinds, NEW t \in Turns, turn[t].pc \in InTheLoop,
           NEW self, Stays(self, turn[t]), Continue(t, self)
    PROVE  Goes(t)
<1>1. CASE turn' = [turn EXCEPT ![t] = self]
  BY <1>1 DEF Goes
<1>2. CASE turn' = [turn EXCEPT ![t] = Returned(self, {"noMatch"}, self.steps, 0)]
  BY <1>2, ReturnedLeaves DEF Goes
<1>3. CASE /\ self.iteration < MaxIterations
           /\ turn' = [turn EXCEPT ![t] = [self EXCEPT !.pc = "loop", !.iteration = @ + 1]]
  <2> DEFINE r == [self EXCEPT !.pc = "loop", !.iteration = @ + 1]
  <2>1. self.iteration + 1 \in 0 .. MaxIterations /\ self \in Turn
    BY <1>3, BoundsAssumption DEF Stays, Keeps, Turn
  <2>2. r \in Turn
    BY <2>1 DEF Turn, Pcs
  <2>3. Stays(r, turn[t])
    BY <2>1, <2>2 DEF Stays, Keeps, Turn, InTheLoop
  <2>4. turn' = [turn EXCEPT ![t] = r]
    BY <1>3
  <2> HIDE DEF r
  <2> QED BY <2>3, <2>4 DEF Goes
<1> QED BY <1>1, <1>2, <1>3 DEF Continue

LEMMA NextIterationGoes ==
    ASSUME Kinds, NEW t \in Turns, turn[t].pc = "output", NextIteration(t)
    PROVE  Goes(t)
<1>1. turn[t] \in Turn /\ turn[t].pc \in InTheLoop
  BY DEF Kinds, InTheLoop
<1>2. CASE turn[t].iteration < MaxIterations
  <2> DEFINE r == [turn[t] EXCEPT !.pc = "loop", !.iteration = @ + 1]
  <2>1. turn[t].iteration + 1 \in 0 .. MaxIterations
    BY <1>1, <1>2, BoundsAssumption DEF Turn
  <2>2. r \in Turn
    BY <1>1, <2>1 DEF Turn, Pcs
  <2>3. Stays(r, turn[t])
    BY <1>1, <2>2 DEF Stays, Keeps, Turn, InTheLoop
  <2>4. turn' = [turn EXCEPT ![t] = r]
    BY <1>2 DEF NextIteration
  <2> HIDE DEF r
  <2> QED BY <1>1, <2>3, <2>4 DEF Goes
<1>3. CASE ~(turn[t].iteration < MaxIterations)
  BY <1>3, ReturnedLeaves DEF Goes, NextIteration, Result
<1> QED BY <1>2, <1>3

LEMMA LookedGoes ==
    ASSUME Kinds, NEW t \in Turns, turn[t].pc \in InTheLoop, Looked(t)
    PROVE  Goes(t)
<1> DEFINE r == [turn[t] EXCEPT !.pc = "output", !.steps = @ \cup {"file"}]
<1>1. r \in Turn
  BY DEF Kinds, Turn, Pcs, Traces
<1>2. Stays(r, turn[t])
  BY <1>1 DEF Stays, Keeps, Kinds, Turn, InTheLoop
<1>3. Continue(t, r)
  BY DEF Looked
<1> HIDE DEF r
<1> QED BY <1>2, <1>3, ContinueGoes

LEMMA ThrowGoes ==
    ASSUME NEW t \in Turns, Throw(t)
    PROVE  Goes(t)
BY ReturnedLeaves DEF Goes, Throw

LEMMA NotCalledGoes ==
    ASSUME Kinds, NEW t \in Turns, turn[t].pc \in InTheLoop, NotCalled(t)
    PROVE  Goes(t)
BY LookedGoes, ThrowGoes DEF NotCalled

\* The steps of the loop that add no row and no proposal.
LEMMA LoopGoes ==
    ASSUME Kinds, NEW t \in Turns,
           \/ Decide(t) \/ BudgetExhausted(t) \/ ModelFails(t) \/ RecordUsage(t) \/ ReadTool(t)
           \/ \E reply \in Replies : Answer(t, reply)
           \/ AnswerDirectly(t) /\ proposals' = proposals
           \/ WriteTool(t) /\ proposals' = proposals
    PROVE  Goes(t)
<1>1. turn[t] \in Turn
  BY DEF Kinds
<1>2. ASSUME NEW reply, NEW steps, Result(t, reply, steps) PROVE Goes(t)
  BY <1>2, ReturnedLeaves DEF Goes, Result
<1>3. ASSUME NEW origin, Prepare(t, origin), proposals' = proposals PROVE FALSE
  <2>1. proposals \in Seq(Proposal)
    BY DEF Kinds
  <2>2. Len(proposals') = Len(proposals) + 1
    BY <1>3, <2>1 DEF Prepare
  <2> QED BY <1>3, <2>1, <2>2
<1>4. CASE Decide(t)
  BY <1>2, <1>4 DEF Decide
<1>5. CASE BudgetExhausted(t) \/ ModelFails(t)
  BY <1>5, NotCalledGoes DEF BudgetExhausted, ModelFails, Calling, InTheLoop
<1>6. CASE RecordUsage(t)
  <2>1. CASE Looked(t)
    BY <1>6, <2>1, LookedGoes DEF RecordUsage, Calling, InTheLoop
  <2>2. CASE turn' = [turn EXCEPT ![t].pc = "output"]
    <3> DEFINE r == [turn[t] EXCEPT !.pc = "output"]
    <3>1. r \in Turn
      BY <1>1 DEF Turn, Pcs
    <3>2. Stays(r, turn[t]) /\ turn[t].pc \in InTheLoop
      BY <1>1, <1>6, <3>1 DEF Stays, Keeps, Turn, InTheLoop, RecordUsage, Calling
    <3>3. turn' = [turn EXCEPT ![t] = r]
      BY <2>2
    <3> HIDE DEF r
    <3> QED BY <3>2, <3>3 DEF Goes
  <2> QED BY <1>6, <2>1, <2>2 DEF RecordUsage
<1>7. CASE ReadTool(t)
  <2>1. turn[t].pc = "output" /\ turn[t].pc \in InTheLoop
    BY <1>7 DEF ReadTool, InTheLoop
  <2>2. ASSUME NEW found \in BOOLEAN,
               Continue(t, [turn[t] EXCEPT !.read = Evidence(@, found)])
        PROVE  Goes(t)
    <3> DEFINE r == [turn[t] EXCEPT !.read = Evidence(@, found)]
    <3>1. Evidence(turn[t].read, found) \in {"unknown", "empty", "found"}
      BY <1>1 DEF Evidence, Turn
    <3>2. r \in Turn
      BY <1>1, <3>1 DEF Turn
    <3>3. Stays(r, turn[t])
      BY <1>1, <2>1, <3>2 DEF Stays, Keeps, Turn, InTheLoop
    <3> HIDE DEF r
    <3> QED BY <2>1, <2>2, <3>3, ContinueGoes DEF r
  <2>3. CASE turn' = [turn EXCEPT ![t].pc = "looking"]
    <3> DEFINE r == [turn[t] EXCEPT !.pc = "looking"]
    <3>1. r \in Turn
      BY <1>1 DEF Turn, Pcs
    <3>2. Stays(r, turn[t])
      BY <1>1, <2>1, <3>1 DEF Stays, Keeps, Turn, InTheLoop
    <3>3. turn' = [turn EXCEPT ![t] = r]
      BY <2>3
    <3> HIDE DEF r
    <3> QED BY <2>1, <3>2, <3>3 DEF Goes
  <2> QED BY <1>7, <2>1, <2>2, <2>3, LookedGoes, ThrowGoes DEF ReadTool
<1>8. ASSUME NEW reply \in Replies, Answer(t, reply) PROVE Goes(t)
  BY <1>2, <1>8, NextIterationGoes DEF Answer
<1>9. CASE AnswerDirectly(t) /\ proposals' = proposals
  BY <1>2, <1>3, <1>9 DEF AnswerDirectly
<1>10. CASE WriteTool(t) /\ proposals' = proposals
  <2>1. turn[t].pc \in InTheLoop /\ Stays(turn[t], turn[t])
    BY <1>1, <1>10 DEF WriteTool, InTheLoop, Stays, Keeps
  <2> QED BY <1>3, <1>10, <2>1, ContinueGoes, ThrowGoes DEF WriteTool
<1> QED BY <1>4, <1>5, <1>6, <1>7, <1>8, <1>9, <1>10

LEMMA GoingKeepsThread ==
    ASSUME Kinds, ThreadInv, NEW t \in Turns, Goes(t), UNCHANGED <<thread, proposals>>
    PROVE  ThreadInv'
<1>1. PICK r : /\ turn' = [turn EXCEPT ![t] = r]
               /\ \/ Stays(r, turn[t]) /\ turn[t].pc \in InTheLoop
                  \/ Leaves(r)
  BY DEF Goes
<1>2. CASE Leaves(r)
  <2>1. Asked(r, thread)
    BY <1>2 DEF Leaves, Asked, InTheLoop
  <2> QED BY <1>1, <2>1, TurnKeepsThread
<1>3. CASE Stays(r, turn[t]) /\ turn[t].pc \in InTheLoop
  <2>1. Asked(turn[t], thread)
    BY DEF ThreadInv
  <2>2. OriginOf(r) = OriginOf(turn[t])
    BY <1>3 DEF OriginOf, Stays, Keeps
  <2>3. r.pc \in InTheLoop /\ r.pc # "replying"
    BY <1>3 DEF Stays, Keeps, InTheLoop
  <2>4. Asked(r, thread)
    BY <1>3, <2>1, <2>2, <2>3 DEF Asked, Stays, Keeps
  <2> QED BY <1>1, <2>4, TurnKeepsThread
<1> QED BY <1>1, <1>2, <1>3

\* An earlier request that is taken up is one of hers, and unanswered as far as
\* the rows go that were read.
LEMMA GoalIsOpen ==
    ASSUME NEW h \in Seq(StoredRow), NEW m,
           UnresolvedActionGoal(h, m) \in 1 .. Len(h)
    PROVE  LET g == UnresolvedActionGoal(h, m) IN h[g].by = "user" /\ ~Resolved(h, g)
<1> DEFINE asked  == {i \in 1 .. Len(h) : /\ i + 12 > Len(h)
                                          /\ h[i].by = "user"
                                          /\ IsActionRequest(h[i].says)}
           latest == CHOOSE i \in asked : \A j \in asked : j <= i
           g      == UnresolvedActionGoal(h, m)
<1>1. asked \subseteq 1 .. Len(h) /\ Len(h) \in Nat
  OBVIOUS
<1>2. asked # {} => latest \in asked
  <2> HIDE DEF asked
  <2> QED BY <1>1, LatestIsOne
<1>3. \/ g \in {0, Len(h) + 1}
      \/ asked # {} /\ g = latest /\ ~Resolved(h, latest)
  BY DEF UnresolvedActionGoal
<1>4. asked # {} /\ g = latest /\ ~Resolved(h, latest)
  BY <1>1, <1>3
<1>5. h[latest].by = "user"
  <2> HIDE DEF latest
  <2> QED BY <1>2, <1>4
<1> HIDE DEF latest, asked
<1> QED BY <1>4, <1>5

\* A turn has a write tool in hand only for a request to change something.
LEMMA WriteIsAsked ==
    ASSUME NEW m, NEW h, "write" \in PermittedTools(InterpretRequest(m, h))
    PROVE  "write" \in m.is
BY DEF PermittedTools, InterpretRequest

LEMMA EnterLoopAsks ==
    ASSUME IInv, ThreadInv, NEW t \in Turns, EnterLoop(t)
    PROVE  ThreadInv'
<1> USE DEF IInv
<1> DEFINE m       == turn[t].msg
           revised == IF IsActionRequest(m) \/ "revision" \in m.is THEN pending ELSE 0
           goal    == GoalRow(t)
           says    == IF goal = 0 THEN m ELSE thread[goal].says
           intent  == InterpretRequest(says, History(t))
           r       == [turn[t] EXCEPT !.pc = "loop", !.iteration = 1, !.goal = goal,
                                      !.revising = revised, !.domains = intent.domains,
                                      !.tools = PermittedTools(intent)]
           g       == UnresolvedActionGoal(History(t), m)
<1>1. /\ turn[t].seen \in Nat /\ turn[t].row \in Nat /\ m \in Message
      /\ turn[t].seen < turn[t].row /\ turn[t].row <= Len(thread) /\ Len(thread) \in Nat
      /\ turn[t].pc = "stored"
  <2>1. turn[t] \in Turn /\ m \in Message
    BY MessagesAssumption DEF Kinds, Turn, Silent, Message
  <2> QED BY <2>1 DEF EnterLoop, Undecided, Kinds, AllFit, Fits, Turn
<1>2. /\ History(t) \in Seq(StoredRow) /\ Len(History(t)) <= turn[t].seen
      /\ \A j \in 1 .. Len(History(t)) : History(t)[j] = thread[j]
      /\ Len(History(t)) = RowsRead(turn[t].seen)
  BY <1>1, HistoryIs DEF Kinds
<1>3. g \in 0 .. Len(History(t)) + 1 /\ Len(History(t)) \in Nat
  BY <1>1, <1>2, GoalIsARow
<1>4. \/ goal = 0
      \/ goal = turn[t].row
      \/ /\ goal \in 1 .. Len(History(t)) /\ History(t)[goal].by = "user"
         /\ ~Resolved(History(t), goal)
  BY <1>2, <1>3, GoalIsOpen DEF GoalRow
<1>5. turn' = [turn EXCEPT ![t] = r] /\ UNCHANGED <<thread, proposals>>
  BY DEF EnterLoop
<1>6. /\ r.pc = "loop" /\ r.seen = turn[t].seen /\ r.row = turn[t].row /\ r.msg = m
      /\ r.goal = goal /\ r.tools = PermittedTools(intent)
  BY DEF Kinds, Turn
<1>7. thread[turn[t].row] = UserRow(m)
  BY <1>1 DEF ThreadInv, Asked
<1> HIDE DEF m, revised, goal, g, r
<1>8. "write" \in r.tools => Requested(OriginOf(r), thread)
  <2> SUFFICES ASSUME "write" \in r.tools PROVE Requested(OriginOf(r), thread)
    OBVIOUS
  <2>1. "write" \in says.is
    BY <1>6, WriteIsAsked
  <2>2. CASE goal \in {0, turn[t].row}
    <3>1. OriginOf(r) = turn[t].row
      BY <1>6, <2>2 DEF OriginOf
    <3>2. says = m
      BY <1>7, <2>2 DEF UserRow
    <3>3. turn[t].row \in 1 .. Len(thread)
      BY <1>1
    <3> QED BY <1>7, <2>1, <3>1, <3>2, <3>3 DEF Requested, UserRow
  <2>3. CASE goal \notin {0, turn[t].row}
    <3>1. goal \in 1 .. Len(thread) /\ thread[goal].by = "user"
      BY <1>1, <1>2, <1>3, <1>4, <2>3
    <3>2. OriginOf(r) = goal /\ says = thread[goal].says
      BY <1>6, <2>3 DEF OriginOf
    <3> QED BY <2>1, <3>1, <3>2 DEF Requested
  <2> QED BY <2>2, <2>3
<1>9. r.goal \notin {0, r.row} => Unanswered(r.goal, r.seen, thread)
  <2> SUFFICES ASSUME goal \notin {0, turn[t].row},
                      NEW j \in goal + 1 .. RowsRead(turn[t].seen)
               PROVE  ~PreparedOrRun(thread[j])
    BY <1>6 DEF Unanswered
  <2>1. goal \in 1 .. Len(History(t)) /\ ~Resolved(History(t), goal)
    BY <1>4
  <2>2. j \in 1 .. Len(History(t)) /\ j \in goal + 1 .. Len(History(t))
    BY <1>2, <1>3, <2>1
  <2> QED BY <1>2, <2>1, <2>2 DEF Resolved
<1>10. Asked(r, thread)
  BY <1>6, <1>7, <1>8, <1>9 DEF Asked
<1> QED BY <1>5, <1>10, TurnKeepsThread

LEMMA ReceiveAsks ==
    ASSUME IInv, ThreadInv, NEW t \in Turns, NEW m \in Messages, Receive(t, m)
    PROVE  ThreadInv'
<1> DEFINE r == [turn[t] EXCEPT !.pc = "received", !.msg = m, !.seen = Len(thread)]
<1>1. r.pc = "received"
  BY DEF IInv, Kinds, Turn
<1>2. turn' = [turn EXCEPT ![t] = r] /\ UNCHANGED <<thread, proposals>>
  BY DEF Receive
<1> HIDE DEF r
<1>3. Asked(r, thread)
  BY <1>1 DEF Asked, InTheLoop
<1> QED BY <1>2, <1>3, TurnKeepsThread DEF IInv

LEMMA StoreAsks ==
    ASSUME IInv, ThreadInv, NEW t \in Turns, Store(t)
    PROVE  ThreadInv'
<1> USE DEF IInv
<1> DEFINE r   == [turn[t] EXCEPT !.pc = "stored", !.row = Len(thread) + 1]
           row == UserRow(turn[t].msg)
<1>1. row \in StoredRow /\ row.card = 0
  <2>1. turn[t].msg \in Message
    BY MessagesAssumption DEF Kinds, Turn, Silent, Message
  <2> QED BY <2>1 DEF UserRow, StoredRow
<1>2. r.pc = "stored" /\ r.row = Len(thread) + 1 /\ r.msg = turn[t].msg
  BY DEF Kinds, Turn
<1>3. /\ turn' = [turn EXCEPT ![t] = r] /\ thread' = Append(thread, row)
      /\ UNCHANGED proposals
  BY DEF Store
<1>4. thread'[Len(thread) + 1] = row
  BY <1>1, <1>3, AddedRow DEF Kinds
<1>5. Asked(r, thread')
  <2>1. thread'[r.row] = UserRow(r.msg)
    BY <1>2, <1>4
  <2> HIDE DEF r
  <2> QED BY <1>2, <2>1 DEF Asked, InTheLoop
<1> HIDE DEF r, row
<1> QED BY <1>1, <1>3, <1>5, RowKeepsThread

LEMMA DeliverAsks ==
    ASSUME IInv, ThreadInv, NEW t \in Turns, Deliver(t)
    PROVE  ThreadInv'
<1> USE DEF IInv
<1> DEFINE r   == [Unsent EXCEPT !.pc = "done"]
           row == [by |-> "assistant", says |-> [Silent EXCEPT !.names = turn[t].domains],
                   asks |-> AsksDetail(turn[t].reply),
                   steps |-> turn[t].steps \ {"file"}, card |-> turn[t].card]
<1>1. /\ turn' = [turn EXCEPT ![t] = r] /\ UNCHANGED proposals
      /\ thread' = Append(thread, row) \/ thread' = thread
      /\ turn[t].pc = "replying"
  BY DEF Deliver
<1>2. row \in StoredRow
  <2>1. turn[t] \in Turn
    BY DEF Kinds
  <2>2. [Silent EXCEPT !.names = turn[t].domains] \in Message
    BY <2>1 DEF Silent, Message, Turn
  <2>3. turn[t].steps \ {"file"} \in SUBSET {"prepared", "ran", "cancelled"}
    BY <2>1 DEF Turn, Traces
  <2>4. AsksDetail(turn[t].reply) \in BOOLEAN
    BY DEF AsksDetail
  <2>5. turn[t].card \in Nat
    BY <2>1 DEF Turn
  <2> QED BY <2>2, <2>3, <2>4, <2>5 DEF StoredRow
<1>3. row.card # 0 => row.card = turn[t].card /\ "prepared" \in row.steps
  <2>1. Asked(turn[t], thread)
    BY DEF ThreadInv
  <2> QED BY <1>1, <2>1 DEF Asked
<1>4. ASSUME NEW rows PROVE Asked(r, rows)
  BY DEF Asked, Unsent, InTheLoop
<1> HIDE DEF r, row
<1>5. CASE thread' = Append(thread, row)
  <2>1. proposals' = proposals
    BY <1>1
  <2> QED BY <1>1, <1>2, <1>3, <1>4, <1>5, <2>1, RowKeepsThread
<1>6. CASE thread' = thread
  BY <1>1, <1>4, <1>6, TurnKeepsThread
<1> QED BY <1>1, <1>5, <1>6

\* A rule she stated, or a write of the loop.
LEMMA ProposingAsks ==
    ASSUME IInv, ThreadInv, NEW t \in Turns, AnswerDirectly(t) \/ WriteTool(t)
    PROVE  ThreadInv'
<1> USE DEF IInv
<1>1. UNCHANGED thread
  BY DEF AnswerDirectly, WriteTool
<1>2. turn[t] \in Turn /\ Fits(t, turn[t], thread, proposals) /\ Asked(turn[t], thread)
      /\ Len(thread) \in Nat
  BY DEF Kinds, AllFit, ThreadInv
<1>3. CASE proposals' = proposals
  BY <1>1, <1>3, LoopGoes, GoingKeepsThread
<1>4. turn[t].pc \in {"stored"} \cup InTheLoop => Unanswered(turn[t].row, turn[t].seen, thread)
  <2> SUFFICES ASSUME turn[t].pc \in {"stored"} \cup InTheLoop,
                      NEW j \in turn[t].row + 1 .. RowsRead(turn[t].seen)
               PROVE  FALSE
    BY DEF Unanswered
  <2>1. turn[t].seen < turn[t].row /\ turn[t].seen \in Nat /\ turn[t].row \in Nat
    BY <1>2 DEF Fits, InTheLoop, Turn
  <2> QED BY <2>1, RowsReadIs
<1>5. CASE AnswerDirectly(t) /\ proposals' # proposals
  <2>1. /\ turn[t].pc = "stored" /\ "rule" \in turn[t].msg.is /\ Prepare(t, turn[t].row)
    BY <1>5 DEF AnswerDirectly, Undecided, StatesRule
  <2>2. turn[t].row \in 1 .. Len(thread)
    BY <1>2, <2>1 DEF Fits, Turn
  <2>3. thread[turn[t].row] = UserRow(turn[t].msg)
    BY <1>2, <2>1 DEF Asked
  <2>4. Requested(turn[t].row, thread)
    BY <2>1, <2>2, <2>3 DEF Requested, UserRow
  <2>5. turn[t].row \in Nat
    BY <2>2
  <2> QED BY <1>1, <1>4, <2>1, <2>4, <2>5, ProposalKeepsThread
<1>6. CASE WriteTool(t) /\ proposals' # proposals
  <2> DEFINE origin == OriginOf(turn[t])
  <2>1. turn[t].pc \in InTheLoop /\ "write" \in turn[t].tools /\ Prepare(t, origin)
    BY <1>6 DEF WriteTool, InTheLoop, OriginOf
  <2>2. Requested(origin, thread)
    BY <1>2, <2>1 DEF Asked
  <2>3. Unanswered(origin, turn[t].seen, thread)
    BY <1>2, <1>4, <2>1 DEF Asked, OriginOf
  <2>4. origin \in Nat
    BY <2>2 DEF Requested
  <2> HIDE DEF origin
  <2> QED BY <1>1, <2>1, <2>2, <2>3, <2>4, ProposalKeepsThread
<1> QED BY <1>3, <1>5, <1>6

LEMMA ThreadHolds0 == Init => ThreadInv
<1> SUFFICES ASSUME Init PROVE ThreadInv
  OBVIOUS
<1>1. \A t \in Turns : Asked(turn[t], thread)
  BY DEF Init, Asked, Unsent, InTheLoop
<1>2. \A i \in 1 .. Len(thread) : thread[i].card = 0
  BY EarlierAssumption DEF Init
<1>3. Len(proposals) = 0
  BY DEF Init
<1>4. \A p \in 1 .. Len(proposals) : Answers(p, thread, proposals)
  BY <1>3
<1> QED BY <1>1, <1>2, <1>4 DEF ThreadInv, CardsFollow

LEMMA ThreadStep == IInv /\ ThreadInv /\ [Next]_vars => ThreadInv'
<1> SUFFICES ASSUME IInv, ThreadInv, [Next]_vars PROVE ThreadInv'
  OBVIOUS
<1>1. ASSUME NEW t \in Turns,
             \/ Decide(t) \/ BudgetExhausted(t) \/ ModelFails(t) \/ RecordUsage(t) \/ ReadTool(t)
             \/ \E reply \in Replies : Answer(t, reply)
      PROVE  ThreadInv'
  <2>1. UNCHANGED <<thread, proposals>>
    BY <1>1 DEF Decide, BudgetExhausted, ModelFails, RecordUsage, ReadTool, Answer
  <2>2. Goes(t)
    BY <1>1, LoopGoes DEF IInv
  <2> QED BY <2>1, <2>2, GoingKeepsThread DEF IInv
<1>2. ASSUME NEW t \in Turns, CheckBudget(t) \/ CallModel(t) PROVE ThreadInv'
  BY <1>2 DEF CheckBudget, CallModel, ThreadInv
<1>3. ASSUME NEW b \in Briefings, Brief(b) PROVE ThreadInv'
  BY <1>3 DEF Brief, ThreadInv
<1>4. CASE UNCHANGED vars
  BY <1>4 DEF vars, ThreadInv
<1> QED BY <1>1, <1>2, <1>3, <1>4, ReceiveAsks, StoreAsks, EnterLoopAsks, ProposingAsks, DeliverAsks
        DEF Next, Work

LEMMA ThreadAnswers == ThreadInv => ProposalsAnswerRequests
<1> SUFFICES ASSUME ThreadInv, NEW p \in 1 .. Len(proposals)
             PROVE  LET origin == proposals[p].origin IN
                    /\ thread[origin].by = "user"
                    /\ thread[origin].says.is \cap {"write", "rule"} # {}
                    /\ \A q \in 1 .. p - 1 : proposals[q].origin = origin => ~KnownTo(q, p)
  BY DEF ProposalsAnswerRequests
<1>1. Answers(p, thread, proposals)
  BY DEF ThreadInv
<1> QED BY <1>1 DEF Answers, Requested, KnownTo

\* Every proposal answers a request she made in this conversation, and none is
\* answered again where the rows that its turn read show the proposal, however
\* many turns overlap and however long the conversation is
\* (unresolvedActionGoal, permittedToolsForIntent).
THEOREM RequestsAreAnswered == Spec => []ProposalsAnswerRequests
<1>1. Spec => [](IInv /\ ThreadInv)
  BY ThreadHolds0, ThreadStep, Holds0, StepHolds, PTL DEF Spec
<1> QED BY <1>1, ThreadAnswers, PTL

-----------------------------------------------------------------------------
(* The budget.  What is still owed to the ledger is counted in units, as     *)
(* pairs of a caller and a number up to the cost of its call.               *)

CategoryOf(c) == IF c \in Turns THEN "interactive" ELSE "briefing"

\* A sum over some of the categories.
Over(sums, K) == (IF "interactive" \in K THEN sums["interactive"] ELSE 0)
                 + (IF "briefing" \in K THEN sums["briefing"] ELSE 0)

\* The calls that were admitted on sums that could be read.
Seen(c, state, K) == call[c].state = state /\ ~call[c].blind /\ CategoryOf(c) \in K
Allowed(K) == {c \in Callers : Seen(c, "allowed", K)}
Due(K)     == {c \in Callers : Seen(c, "due", K)}
Debt(K)    == {x \in Due(K) \X (1 .. MaxCost) : x[2] <= call[x[1]].cost}
Units(c, n) == {c} \X (1 .. n)

\* How many callers of these categories may have a call under way.
Most(K) == Over(AtOnce, K)

\* What was spent is in the ledger, is still to be recorded, or was not seen.
Accounted(K) ==
    Over(spent, K) <= Over(unseen, K) + Over(ledger, K) + Cardinality(Debt(K))

\* And it stays in bounds when all the calls that are allowed are made.
Bounded(K, budget) ==
    Over(spent, K) + MaxCost * Cardinality(Allowed(K))
        <= Over(unseen, K) + budget - 1 + MaxCost * Most(K)

\* Only a turn in the loop has a call, what is due costs something, and no more
\* turns run than may.
Calls ==
    /\ \A c \in Callers : call[c].state = "due" => call[c].cost \in 1 .. MaxCost
    /\ \A t \in Turns : call[t].state # "none" => turn[t].pc \in {"loop", "looking"}
    /\ Cardinality(Running) <= MaxConcurrent

Untouchable(k) == /\ spent[k] = 0
                  /\ \A c \in Callers : CategoryOf(c) = k => call[c].state = "none"

AllAccounted == \A K \in SUBSET Categorised : Accounted(K)
AllBounded ==
    /\ MonthlyBudget # 0 => Bounded(Categorised, MonthlyBudget)
    /\ \A k \in Categorised : CategoryBudget[k] # None =>
         IF CategoryBudget[k] = 0 THEN Untouchable(k) ELSE Bounded({k}, CategoryBudget[k])

MoneyInv == Calls /\ AllAccounted /\ AllBounded

LEMMA Distributes ==
    ASSUME NEW m \in Nat, NEW a \in Nat, NEW b \in Nat
    PROVE  /\ m * (a + b) = m * a + m * b
           /\ m * a \in Nat /\ m * b \in Nat
           /\ m * 0 = 0 /\ m * (a + 1) = m * a + m
OBVIOUS

LEMMA Grows ==
    ASSUME NEW m \in Nat, NEW a \in Nat, NEW b \in Nat, a <= b
    PROVE  m * a <= m * b
<1> DEFINE d == b - a
<1>1. d \in Nat /\ b = a + d
  OBVIOUS
<1> HIDE DEF d
<1>2. m * (a + d) = m * a + m * d /\ m * d \in Nat /\ m * a \in Nat
  BY <1>1, Distributes
<1> QED BY <1>1, <1>2

LEMMA FiniteCallers ==
    /\ IsFiniteSet(Callers) /\ Cardinality(Callers) \in Nat
    /\ IsFiniteSet(Turns) /\ IsFiniteSet(Briefings) /\ Cardinality(Briefings) \in Nat
<1>1. IsFiniteSet(Callers) /\ Turns \in SUBSET Callers /\ Briefings \in SUBSET Callers
  BY CallersAssumption DEF Callers
<1>2. IsFiniteSet(Turns) /\ IsFiniteSet(Briefings)
  BY <1>1, FS_Subset
<1> QED BY <1>1, <1>2, FS_CardinalityType

\* The turns that run at once are the smaller of two numbers.
LEMMA MostIs ==
    /\ AtOnce \in Sums
    /\ AtOnce["briefing"] = Cardinality(Briefings)
    /\ \A n \in Nat : n <= Cardinality(Turns) /\ n <= MaxConcurrent => n <= AtOnce["interactive"]
<1> DEFINE a == Cardinality(Turns)
           b == MaxConcurrent
           both == {a, b}
<1>1. a \in Nat /\ b \in Nat
  BY FiniteCallers, FS_CardinalityType, BoundsAssumption
<1>0. AtOnce["briefing"] = Cardinality(Briefings) /\ AtOnce["interactive"] = Min(both)
  BY DEF AtOnce, Categorised
<1> HIDE DEF a, b
<1>2. \E i \in both : \A j \in both : i <= j
  <2>1. CASE a <= b
    BY <1>1, <2>1
  <2>2. CASE ~(a <= b)
    BY <1>1, <2>2
  <2> QED BY <2>1, <2>2
<1> HIDE DEF both
<1>3. Min(both) \in both
  BY <1>2 DEF Min
<1>4. AtOnce["interactive"] = a \/ AtOnce["interactive"] = b
  BY <1>0, <1>3 DEF both
<1>5. AtOnce["interactive"] \in Nat /\ AtOnce["briefing"] \in Nat
  BY <1>0, <1>1, <1>4, FiniteCallers
<1>6. AtOnce = [k \in Categorised |-> AtOnce[k]]
  BY DEF AtOnce
<1>7. AtOnce \in Sums
  BY <1>5, <1>6 DEF Sums, Categorised
<1> QED BY <1>0, <1>1, <1>4, <1>7 DEF a, b

LEMMA MostIsNat ==
    ASSUME NEW K
    PROVE  Most(K) \in Nat
BY MostIs DEF Most, Over, Sums, Categorised

\* The calls under way are finitely many, and so is what they owe.
LEMMA CallsAreFinite ==
    ASSUME NEW K
    PROVE  /\ IsFiniteSet(Allowed(K)) /\ Cardinality(Allowed(K)) \in Nat
           /\ IsFiniteSet(Due(K)) /\ Cardinality(Due(K)) \in Nat
           /\ IsFiniteSet(Debt(K)) /\ Cardinality(Debt(K)) \in Nat
           /\ Cardinality(Debt(K)) <= MaxCost * Cardinality(Due(K))
<1>1. Allowed(K) \in SUBSET Callers /\ Due(K) \in SUBSET Callers
  BY DEF Allowed, Due
<1>2. /\ IsFiniteSet(Allowed(K)) /\ Cardinality(Allowed(K)) \in Nat
      /\ IsFiniteSet(Due(K)) /\ Cardinality(Due(K)) \in Nat
  BY <1>1, FiniteCallers, FS_Subset, FS_CardinalityType
<1> DEFINE units == 1 .. MaxCost
<1>3. IsFiniteSet(units) /\ Cardinality(units) = MaxCost /\ MaxCost \in Nat
  BY BoundsAssumption, FS_Interval
<1> HIDE DEF units
<1>4. /\ IsFiniteSet(Due(K) \X units)
      /\ Cardinality(Due(K) \X units) = Cardinality(Due(K)) * MaxCost
  BY <1>2, <1>3, FS_Product
<1>5. Debt(K) \in SUBSET (Due(K) \X units)
  BY DEF Debt, units
<1>6. /\ IsFiniteSet(Debt(K)) /\ Cardinality(Debt(K)) \in Nat
      /\ Cardinality(Debt(K)) <= Cardinality(Due(K) \X units)
  BY <1>4, <1>5, FS_Subset, FS_CardinalityType
<1>7. Cardinality(Due(K)) * MaxCost = MaxCost * Cardinality(Due(K))
  BY <1>2, <1>3
<1> QED BY <1>2, <1>4, <1>6, <1>7

LEMMA UnitsAre ==
    ASSUME NEW c, NEW n \in Nat
    PROVE  IsFiniteSet(Units(c, n)) /\ Cardinality(Units(c, n)) = n
<1>1. IsFiniteSet({c}) /\ Cardinality({c}) = 1
  BY FS_Singleton
<1>2. IsFiniteSet(1 .. n) /\ Cardinality(1 .. n) = n
  BY FS_Interval
<1>3. IsFiniteSet({c} \X (1 .. n)) /\ Cardinality({c} \X (1 .. n)) = 1 * n
  <2> DEFINE S == {c}
             T == 1 .. n
  <2>1. IsFiniteSet(S) /\ IsFiniteSet(T) /\ Cardinality(S) = 1 /\ Cardinality(T) = n
    BY <1>1, <1>2
  <2> HIDE DEF S, T
  <2>2. IsFiniteSet(S \X T) /\ Cardinality(S \X T) = 1 * n
    BY <2>1, FS_Product
  <2> QED BY <2>2 DEF S, T
<1> QED BY <1>3 DEF Units

-----------------------------------------------------------------------------
(* What one call does to the sets it is counted in.                         *)

CallKind == [state : {"none", "allowed", "due"}, cost : Nat, blind : BOOLEAN]

\* Every other caller is counted as before.
LEMMA OthersSeen ==
    ASSUME Money, NEW c \in Callers, NEW v \in CallKind, call' = [call EXCEPT ![c] = v], NEW K
    PROVE  /\ call'[c] = v
           /\ \A d \in Callers \ {c} : call'[d] = call[d]
           /\ IF v.state = "allowed" /\ ~v.blind /\ CategoryOf(c) \in K
                THEN Allowed(K)' = Allowed(K) \cup {c} ELSE Allowed(K)' = Allowed(K) \ {c}
           /\ IF v.state = "due" /\ ~v.blind /\ CategoryOf(c) \in K
                THEN Due(K)' = Due(K) \cup {c} ELSE Due(K)' = Due(K) \ {c}
<1>1. call'[c] = v /\ \A d \in Callers \ {c} : call'[d] = call[d]
  BY DEF Money
<1>2. ASSUME NEW s
      PROVE  IF v.state = s /\ ~v.blind /\ CategoryOf(c) \in K
               THEN {d \in Callers : Seen(d, s, K)}' = {d \in Callers : Seen(d, s, K)} \cup {c}
               ELSE {d \in Callers : Seen(d, s, K)}' = {d \in Callers : Seen(d, s, K)} \ {c}
  BY <1>1 DEF Seen
<1> QED BY <1>1, <1>2 DEF Allowed, Due

\* A call that owes nothing before and after.
LEMMA DebtStays ==
    ASSUME Money, NEW c \in Callers, NEW v \in CallKind, call' = [call EXCEPT ![c] = v], NEW K,
           call[c].state # "due", v.state # "due" \/ v.blind \/ CategoryOf(c) \notin K
    PROVE  Due(K)' = Due(K) /\ Debt(K)' = Debt(K)
<1>1. c \notin Due(K)
  BY DEF Due, Seen
<1>2. Due(K)' = Due(K) /\ \A d \in Callers \ {c} : call'[d] = call[d]
  <2>1. Due(K)' = Due(K) \ {c} /\ \A d \in Callers \ {c} : call'[d] = call[d]
    BY OthersSeen
  <2> QED BY <1>1, <2>1
<1>3. \A x \in Due(K) \X (1 .. MaxCost) : x[1] \in Callers \ {c}
  BY <1>1 DEF Due
<1> QED BY <1>2, <1>3 DEF Debt

\* A call is admitted.
LEMMA AdmitCounts ==
    ASSUME Money, NEW c \in Callers, NEW blind \in BOOLEAN, call[c].state = "none",
           call' = [call EXCEPT ![c] = [state |-> "allowed", cost |-> 0, blind |-> blind]], NEW K
    PROVE  /\ Due(K)' = Due(K) /\ Debt(K)' = Debt(K)
           /\ c \notin Allowed(K)
           /\ Allowed(K)' = Allowed(K) \cup (IF ~blind /\ CategoryOf(c) \in K THEN {c} ELSE {})
<1> DEFINE v == [state |-> "allowed", cost |-> 0, blind |-> blind]
<1>1. v \in CallKind /\ v.state = "allowed" /\ v.blind = blind
  BY DEF CallKind
<1>2. c \notin Allowed(K)
  BY DEF Allowed, Seen
<1> HIDE DEF v
<1>3. call' = [call EXCEPT ![c] = v]
  BY DEF v
<1>4. IF ~blind /\ CategoryOf(c) \in K THEN Allowed(K)' = Allowed(K) \cup {c}
                                         ELSE Allowed(K)' = Allowed(K) \ {c}
  BY <1>1, <1>3, OthersSeen
<1>5. Due(K)' = Due(K) /\ Debt(K)' = Debt(K)
  BY <1>1, <1>3, DebtStays
<1> QED BY <1>1, <1>2, <1>4, <1>5

\* A call is made: what it costs is owed.
LEMMA PayCounts ==
    ASSUME Money, NEW c \in Callers, NEW cost \in 1 .. MaxCost, call[c].state = "allowed",
           call' = [call EXCEPT ![c].state = "due", ![c].cost = cost], NEW K
    PROVE  /\ Allowed(K)' = Allowed(K) \ {c}
           /\ c \in Allowed(K) <=> ~call[c].blind /\ CategoryOf(c) \in K
           /\ Debt(K)' = Debt(K) \cup (IF c \in Allowed(K) THEN Units(c, cost) ELSE {})
           /\ Debt(K) \cap Units(c, cost) = {}
<1> DEFINE v == [call[c] EXCEPT !.state = "due", !.cost = cost]
<1>1. /\ v \in CallKind /\ v.state = "due" /\ v.cost = cost /\ v.blind = call[c].blind
  <2>1. call[c] \in CallKind /\ cost \in Nat
    BY BoundsAssumption DEF Money, CallKind
  <2> QED BY <2>1 DEF CallKind
<1>2. c \in Allowed(K) <=> ~call[c].blind /\ CategoryOf(c) \in K
  BY DEF Allowed, Seen
<1>3. c \notin Due(K)
  BY DEF Due, Seen
<1>4. call' = [call EXCEPT ![c] = v]
  BY DEF Money
<1> HIDE DEF v
<1>5. /\ call'[c] = v /\ \A d \in Callers \ {c} : call'[d] = call[d]
      /\ Allowed(K)' = Allowed(K) \ {c}
      /\ Due(K)' = Due(K) \cup (IF c \in Allowed(K) THEN {c} ELSE {})
  <2>1. /\ call'[c] = v /\ \A d \in Callers \ {c} : call'[d] = call[d]
        /\ Allowed(K)' = Allowed(K) \ {c}
        /\ IF ~v.blind /\ CategoryOf(c) \in K THEN Due(K)' = Due(K) \cup {c}
                                                ELSE Due(K)' = Due(K) \ {c}
    BY <1>1, <1>4, OthersSeen
  <2> QED BY <1>1, <1>2, <1>3, <2>1
<1>6. Debt(K)' = {x \in Due(K)' \X (1 .. MaxCost) : x[2] <= call'[x[1]].cost}
  BY DEF Debt
<1>7. \A d \in Due(K) : d \in Callers \ {c} /\ call'[d] = call[d]
  BY <1>3, <1>5 DEF Due
<1>8. Debt(K) \cap Units(c, cost) = {}
  BY <1>3 DEF Debt, Units
<1>9. CASE c \notin Allowed(K)
  <2>1. Due(K)' = Due(K)
    BY <1>5, <1>9
  <2>2. Debt(K)' = Debt(K)
    BY <1>6, <1>7, <2>1 DEF Debt
  <2> QED BY <1>2, <1>5, <1>8, <1>9, <2>2
<1>10. CASE c \in Allowed(K)
  <2>1. Due(K)' = Due(K) \cup {c}
    BY <1>5, <1>10
  <2>2. ASSUME NEW d, NEW n PROVE <<d, n>> \in Debt(K)' <=> <<d, n>> \in Debt(K) \cup Units(c, cost)
    <3>1. <<d, n>> \in Debt(K)' <=> /\ d \in Due(K) \cup {c} /\ n \in 1 .. MaxCost
                                    /\ n <= call'[d].cost
      BY <1>6, <2>1
    <3>2. <<d, n>> \in Debt(K) <=> /\ d \in Due(K) /\ n \in 1 .. MaxCost /\ n <= call[d].cost
      BY DEF Debt
    <3>3. <<d, n>> \in Units(c, cost) <=> d = c /\ n \in 1 .. cost
      BY DEF Units
    <3>4. n \in 1 .. cost <=> n \in 1 .. MaxCost /\ n <= cost
      BY BoundsAssumption
    <3> QED BY <1>1, <1>3, <1>5, <1>7, <3>1, <3>2, <3>3, <3>4
  <2>3. \A x \in Debt(K)' : x = <<x[1], x[2]>>
    BY <1>6
  <2>4. \A x \in Debt(K) \cup Units(c, cost) : x = <<x[1], x[2]>>
    BY DEF Debt, Units
  <2>5. Debt(K)' = Debt(K) \cup Units(c, cost)
    BY <2>2, <2>3, <2>4
  <2> QED BY <1>2, <1>5, <1>8, <1>10, <2>5
<1> QED BY <1>9, <1>10

\* A call is recorded, or lost: it owes nothing any more.
LEMMA RecordCounts ==
    ASSUME Money, NEW c \in Callers, call[c].state = "due", call[c].cost \in 1 .. MaxCost,
           call' = [call EXCEPT ![c] = NoCall], NEW K
    PROVE  /\ Allowed(K)' = Allowed(K)
           /\ Debt(K)' = Debt(K) \ (IF ~call[c].blind /\ CategoryOf(c) \in K
                                      THEN Units(c, call[c].cost) ELSE {})
           /\ ~call[c].blind /\ CategoryOf(c) \in K => Units(c, call[c].cost) \subseteq Debt(K)
<1>1. NoCall \in CallKind /\ NoCall.state = "none"
  BY DEF CallKind, NoCall
<1>2. c \notin Allowed(K) /\ (c \in Due(K) <=> ~call[c].blind /\ CategoryOf(c) \in K)
  BY DEF Allowed, Due, Seen
<1>3. /\ \A d \in Callers \ {c} : call'[d] = call[d]
      /\ Allowed(K)' = Allowed(K) /\ Due(K)' = Due(K) \ {c}
  <2>1. /\ \A d \in Callers \ {c} : call'[d] = call[d]
        /\ Allowed(K)' = Allowed(K) \ {c} /\ Due(K)' = Due(K) \ {c}
    BY <1>1, OthersSeen
  <2> QED BY <1>2, <2>1
<1>4. Debt(K)' = {x \in Due(K)' \X (1 .. MaxCost) : x[2] <= call'[x[1]].cost}
  BY DEF Debt
<1>5. \A d \in Due(K) \ {c} : d \in Callers \ {c} /\ call'[d] = call[d]
  BY <1>3 DEF Due
<1>6. CASE c \notin Due(K)
  <2>1. Debt(K)' = Debt(K)
    BY <1>3, <1>4, <1>5, <1>6 DEF Debt
  <2> QED BY <1>2, <1>3, <1>6, <2>1
<1>7. CASE c \in Due(K)
  <2>1. ASSUME NEW d, NEW n
        PROVE  /\ <<d, n>> \in Debt(K)' <=> <<d, n>> \in Debt(K) \ Units(c, call[c].cost)
               /\ <<d, n>> \in Units(c, call[c].cost) => <<d, n>> \in Debt(K)
    <3>1. <<d, n>> \in Debt(K)' <=> /\ d \in Due(K) \ {c} /\ n \in 1 .. MaxCost
                                    /\ n <= call'[d].cost
      BY <1>3, <1>4
    <3>2. <<d, n>> \in Debt(K) <=> /\ d \in Due(K) /\ n \in 1 .. MaxCost /\ n <= call[d].cost
      BY DEF Debt
    <3>3. <<d, n>> \in Units(c, call[c].cost) <=> d = c /\ n \in 1 .. call[c].cost
      BY DEF Units
    <3>4. n \in 1 .. call[c].cost <=> n \in 1 .. MaxCost /\ n <= call[c].cost
      BY BoundsAssumption
    <3> QED BY <1>5, <1>7, <3>1, <3>2, <3>3, <3>4
  <2>2. \A x \in Debt(K)' : x = <<x[1], x[2]>>
    BY <1>4
  <2>3. \A x \in Debt(K) \cup Units(c, call[c].cost) : x = <<x[1], x[2]>>
    BY DEF Debt, Units
  <2>4. Debt(K)' = Debt(K) \ Units(c, call[c].cost) /\ Units(c, call[c].cost) \subseteq Debt(K)
    BY <2>1, <2>2, <2>3
  <2> QED BY <1>2, <1>3, <1>7, <2>4
<1> QED BY <1>6, <1>7

\* A call that was allowed is not made.
LEMMA FailCounts ==
    ASSUME Money, NEW c \in Callers, call[c].state = "allowed",
           call' = [call EXCEPT ![c] = NoCall], NEW K
    PROVE  Allowed(K)' \subseteq Allowed(K) /\ Debt(K)' = Debt(K)
<1>1. NoCall \in CallKind /\ NoCall.state = "none"
  BY DEF CallKind, NoCall
<1>2. Allowed(K)' = Allowed(K) \ {c}
  BY <1>1, OthersSeen
<1> QED BY <1>1, <1>2, DebtStays

-----------------------------------------------------------------------------
(* What the steps do to the account.                                        *)

LEMMA OverIs ==
    ASSUME Money, NEW K \in SUBSET Categorised
    PROVE  /\ Over(ledger, K) \in Nat /\ Over(spent, K) \in Nat /\ Over(unseen, K) \in Nat
           /\ Over(ledger, Categorised) = Total(ledger)
           /\ \A k \in Categorised : Over(ledger, {k}) = ledger[k]
BY DEF Money, Sums, Categorised, Over, Total

\* A sum goes up by what is added in one of its categories.
LEMMA OverAdds ==
    ASSUME NEW sums \in Sums, NEW k \in Categorised, NEW n \in Nat,
           NEW K \in SUBSET Categorised
    PROVE  Over([sums EXCEPT ![k] = @ + n], K) = Over(sums, K) + IF k \in K THEN n ELSE 0
<1> DEFINE more == [sums EXCEPT ![k] = @ + n]
<1>1. \A j \in Categorised : /\ sums[j] \in Nat
                             /\ more[j] = IF j = k THEN sums[j] + n ELSE sums[j]
  BY DEF Sums
<1> HIDE DEF more
<1>2. "interactive" \in Categorised /\ "briefing" \in Categorised
      /\ k \in {"interactive", "briefing"}
  BY DEF Categorised
<1>3. ASSUME k = "interactive"
      PROVE  Over(more, K) = Over(sums, K) + IF k \in K THEN n ELSE 0
  BY <1>1, <1>2, <1>3 DEF Over
<1>4. ASSUME k = "briefing"
      PROVE  Over(more, K) = Over(sums, K) + IF k \in K THEN n ELSE 0
  BY <1>1, <1>2, <1>4 DEF Over
<1>5. Over(more, K) = Over(sums, K) + IF k \in K THEN n ELSE 0
  BY <1>2, <1>3, <1>4
<1> QED BY <1>5 DEF more

\* The callers with a call under way, and one more that may have one, are no
\* more than their categories have at once.
LEMMA OpenAreFew ==
    ASSUME Calls, NEW K, NEW c \in Callers, call[c].state = "none", CategoryOf(c) \in K,
           c \in Turns => c \in Running
    PROVE  Cardinality(Allowed(K) \cup {c}) + Cardinality(Due(K)) <= Most(K)
<1> DEFINE talking   == IF "interactive" \in K THEN Running ELSE {}
           reporting == IF "briefing" \in K THEN Briefings ELSE {}
           few == talking \cup reporting
           may == Allowed(K) \cup {c}
           all == may \cup Due(K)
<1>1. /\ IsFiniteSet(Running) /\ Cardinality(Running) \in Nat
      /\ Cardinality(Running) <= MaxConcurrent /\ Cardinality(Running) <= Cardinality(Turns)
  <2>1. Running \in SUBSET Turns
    BY DEF Running
  <2> QED BY <2>1, FiniteCallers, FS_Subset, FS_CardinalityType DEF Calls
<1>2. IsFiniteSet(few) /\ Cardinality(few) \in Nat /\ Cardinality(few) <= Most(K)
  <2>1. /\ IsFiniteSet(talking) /\ Cardinality(talking) \in Nat
        /\ Cardinality(talking) <= IF "interactive" \in K THEN AtOnce["interactive"] ELSE 0
    BY <1>1, MostIs, FS_EmptySet
  <2>2. /\ IsFiniteSet(reporting) /\ Cardinality(reporting) \in Nat
        /\ Cardinality(reporting) <= IF "briefing" \in K THEN AtOnce["briefing"] ELSE 0
    BY FiniteCallers, MostIs, FS_EmptySet
  <2> HIDE DEF talking, reporting
  <2>3. /\ IsFiniteSet(few)
        /\ Cardinality(few) = Cardinality(talking) + Cardinality(reporting)
                                - Cardinality(talking \cap reporting)
    BY <2>1, <2>2, FS_Union
  <2>4. Cardinality(talking \cap reporting) \in Nat /\ Cardinality(few) \in Nat
    BY <2>1, <2>3, FS_Intersection, FS_CardinalityType
  <2>5. AtOnce["interactive"] \in Nat /\ AtOnce["briefing"] \in Nat
    BY MostIs DEF Sums, Categorised
  <2> HIDE DEF few
  <2> QED BY <2>1, <2>2, <2>3, <2>4, <2>5 DEF Most, Over
<1>3. \A d \in Callers : CategoryOf(d) \in K /\ call[d].state # "none" => d \in few
  BY DEF Calls, Running, Callers, CategoryOf
<1>4. all \in SUBSET few
  <2>1. c \in few
    BY DEF Callers, CategoryOf
  <2> QED BY <1>3, <2>1 DEF Allowed, Due, Seen
<1>5. may \cap Due(K) = {}
  BY DEF Allowed, Due, Seen
<1>6. /\ IsFiniteSet(may) /\ Cardinality(may) \in Nat
      /\ IsFiniteSet(Due(K)) /\ Cardinality(Due(K)) \in Nat
  BY CallsAreFinite, FS_AddElement, FS_CardinalityType
<1> HIDE DEF few, may
<1>7. Cardinality(all) = Cardinality(may) + Cardinality(Due(K))
  <2>1. Cardinality(all) = Cardinality(may) + Cardinality(Due(K)) - Cardinality(may \cap Due(K))
    BY <1>6, FS_Union
  <2>2. Cardinality(may \cap Due(K)) = 0
    BY <1>5, FS_EmptySet
  <2> HIDE DEF all
  <2> QED BY <1>6, <2>1, <2>2
<1> HIDE DEF all
<1>8. Cardinality(all) <= Cardinality(few) /\ Cardinality(all) \in Nat
  BY <1>2, <1>4, <1>6, <1>7, FS_Subset
<1>9. Cardinality(all) <= Most(K)
  BY <1>2, <1>8, MostIsNat
<1> QED BY <1>7, <1>9 DEF may

\* A call is admitted: blindly, or with the ledger below each of its budgets.
LEMMA AdmitKeepsMoney ==
    ASSUME IInv, MoneyInv, NEW c \in Callers, NEW k \in Categorised, k = CategoryOf(c),
           c \in Turns => c \in Running, Admit(c, k)
    PROVE  AllAccounted' /\ AllBounded'
<1> USE DEF IInv
<1>1. PICK blind \in BOOLEAN :
        /\ Check(c, k, blind)
        /\ call' = [call EXCEPT ![c] = [state |-> "allowed", cost |-> 0, blind |-> blind]]
  BY DEF Admit
<1>2. /\ UNCHANGED <<ledger, spent, unseen>> /\ call[c].state = "none"
      /\ Calls /\ AllAccounted /\ AllBounded
  BY DEF Admit, MoneyInv
<1>3. ASSUME NEW K
      PROVE  /\ Debt(K)' = Debt(K) /\ c \notin Allowed(K)
             /\ Allowed(K)' = Allowed(K) \cup (IF ~blind /\ k \in K THEN {c} ELSE {})
  BY <1>1, <1>2, AdmitCounts
<1>4. AllAccounted'
  BY <1>2, <1>3 DEF AllAccounted, Accounted, Over
<1>5. ASSUME NEW K \in SUBSET Categorised, NEW budget \in Nat,
             k \in K /\ ~blind => ~Exhausted(Over(ledger, K), budget),
             Bounded(K, budget)
      PROVE  Bounded(K, budget)'
  <2>1. Over(spent, K)' = Over(spent, K) /\ Over(unseen, K)' = Over(unseen, K)
    BY <1>2 DEF Over
  <2>2. CASE blind \/ k \notin K
    <3>1. Allowed(K)' = Allowed(K)
      BY <1>3, <2>2
    <3> QED BY <1>5, <2>1, <3>1 DEF Bounded
  <2>3. CASE ~blind /\ k \in K
    <3> DEFINE a == Cardinality(Allowed(K)')
               d == Cardinality(Due(K))
    <3>1. Allowed(K)' = Allowed(K) \cup {c}
      BY <1>3, <2>3
    <3>2. a \in Nat /\ d \in Nat /\ a + d \in Nat /\ a + d <= Most(K) /\ Most(K) \in Nat
      <4>1. IsFiniteSet(Allowed(K)) /\ IsFiniteSet(Allowed(K) \cup {c})
        BY CallsAreFinite, FS_AddElement
      <4>2. a \in Nat /\ d \in Nat
        BY <3>1, <4>1, CallsAreFinite, FS_CardinalityType
      <4>3. a + d <= Most(K)
        BY <1>2, <2>3, <3>1, OpenAreFew
      <4> HIDE DEF a, d
      <4> QED BY <4>2, <4>3, MostIsNat
    <3> HIDE DEF a, d
    <3>3. MaxCost * a + MaxCost * d <= MaxCost * Most(K)
      BY <3>2, Distributes, Grows, BoundsAssumption
    <3>4. MaxCost * a \in Nat /\ MaxCost * d \in Nat /\ MaxCost * Most(K) \in Nat
      BY <3>2, Distributes, BoundsAssumption
    <3>5. Over(ledger, K) <= budget - 1 /\ Over(ledger, K) \in Nat /\ Over(spent, K) \in Nat
          /\ Over(unseen, K) \in Nat
      BY <1>5, <2>3, OverIs DEF Exhausted
    <3>6. Over(spent, K) <= Over(unseen, K) + Over(ledger, K) + Cardinality(Debt(K))
      BY <1>2 DEF AllAccounted, Accounted
    <3>7. Cardinality(Debt(K)) \in Nat /\ Cardinality(Debt(K)) <= MaxCost * d
      BY CallsAreFinite DEF d
    <3>8. Over(spent, K) + MaxCost * a <= Over(unseen, K) + budget - 1 + MaxCost * Most(K)
      BY <3>3, <3>4, <3>5, <3>6, <3>7
    <3>9. Most(K)' = Most(K)
      BY DEF Most, Over, AtOnce
    <3> QED BY <2>1, <3>8, <3>9 DEF Bounded, a
  <2> QED BY <2>2, <2>3
<1>6. MonthlyBudget # 0 => Bounded(Categorised, MonthlyBudget)'
  <2> SUFFICES ASSUME MonthlyBudget # 0 PROVE Bounded(Categorised, MonthlyBudget)'
    OBVIOUS
  <2>1. ~blind => ~Exhausted(Over(ledger, Categorised), MonthlyBudget)
    BY <1>1, OverIs DEF Check, WithinBudget
  <2>2. MonthlyBudget \in Nat /\ Bounded(Categorised, MonthlyBudget)
    BY <1>2, BoundsAssumption DEF AllBounded
  <2> QED BY <1>5, <2>1, <2>2
<1>7. ASSUME NEW j \in Categorised, CategoryBudget[j] # None, CategoryBudget[j] = 0
      PROVE  Untouchable(j)'
  <2>1. Untouchable(j)
    BY <1>2, <1>7 DEF AllBounded
  <2>2. j # k
    BY <1>1, <1>7 DEF Check, WithinBudget
  <2>3. \A d \in Callers : call'[d] = IF d = c THEN call'[c] ELSE call[d]
    BY <1>1 DEF Money
  <2>4. \A d \in Callers : CategoryOf(d) = j => d # c
    BY <2>2
  <2>5. \A d \in Callers : CategoryOf(d)' = CategoryOf(d)
    BY DEF CategoryOf
  <2> QED BY <1>2, <2>1, <2>3, <2>4, <2>5 DEF Untouchable
<1>8. ASSUME NEW j \in Categorised, CategoryBudget[j] # None, CategoryBudget[j] # 0
      PROVE  Bounded({j}, CategoryBudget[j])'
  <2>1. CategoryBudget[j] \in Nat /\ Bounded({j}, CategoryBudget[j])
    BY <1>2, <1>8, BoundsAssumption DEF AllBounded
  <2>2. k \in {j} /\ ~blind => ~Exhausted(Over(ledger, {j}), CategoryBudget[j])
    BY <1>1, <1>8, OverIs DEF Check, WithinBudget
  <2> QED BY <1>5, <2>1, <2>2
<1> QED BY <1>4, <1>6, <1>7, <1>8 DEF AllBounded

\* The account of K after a step, from what the step adds to its numbers.
LEMMA Balances ==
    ASSUME Money, NEW K \in SUBSET Categorised,
           NEW ds \in Nat, NEW du \in Nat, NEW dl \in Nat, NEW dd \in Int, NEW da \in Nat,
           Over(spent', K) = Over(spent, K) + ds,
           Over(unseen', K) = Over(unseen, K) + du,
           Over(ledger', K) = Over(ledger, K) + dl,
           Cardinality(Debt(K)') = Cardinality(Debt(K)) + dd,
           Cardinality(Allowed(K)') \in Nat,
           Cardinality(Allowed(K)) = Cardinality(Allowed(K)') + da,
           ds <= du + dl + dd, ds <= du + MaxCost * da
    PROVE  /\ Accounted(K) => Accounted(K)'
           /\ \A budget \in Nat : Bounded(K, budget) => Bounded(K, budget)'
<1>1. /\ Over(ledger, K) \in Nat /\ Over(spent, K) \in Nat /\ Over(unseen, K) \in Nat
      /\ Cardinality(Debt(K)) \in Nat /\ Cardinality(Allowed(K)) \in Nat
  BY OverIs, CallsAreFinite
<1>2. Accounted(K) => Accounted(K)'
  BY <1>1 DEF Accounted, Over
<1> DEFINE a == Cardinality(Allowed(K)')
<1>3. /\ MaxCost * Cardinality(Allowed(K)) = MaxCost * a + MaxCost * da
      /\ MaxCost * a \in Nat /\ MaxCost * da \in Nat /\ MaxCost * Most(K) \in Nat
  BY Distributes, MostIsNat, BoundsAssumption
<1>4. Most(K)' = Most(K)
  BY DEF Most, Over, AtOnce
<1>5. ASSUME NEW budget \in Nat, Bounded(K, budget) PROVE Bounded(K, budget)'
  <2>1. Over(spent, K) + MaxCost * Cardinality(Allowed(K))
          <= Over(unseen, K) + budget - 1 + MaxCost * Most(K)
    BY <1>5 DEF Bounded
  <2> HIDE DEF a
  <2>2. Over(spent', K) + MaxCost * a <= Over(unseen', K) + budget - 1 + MaxCost * Most(K)
    BY <1>1, <1>3, <2>1
  <2> QED BY <1>4, <2>2 DEF Bounded, Over, a
<1> QED BY <1>2, <1>5

\* A step of a caller with a call under way.
LEMMA BalancedKeeps ==
    ASSUME Money, AllAccounted, AllBounded,
           NEW c \in Callers, call[c].state # "none", NEW v, call' = [call EXCEPT ![c] = v],
           \A j \in Categorised : j # CategoryOf(c) => spent'[j] = spent[j],
           \A K \in SUBSET Categorised :
             /\ Accounted(K) => Accounted(K)'
             /\ \A budget \in Nat : Bounded(K, budget) => Bounded(K, budget)'
    PROVE  AllAccounted' /\ AllBounded'
<1>1. AllAccounted'
  BY DEF AllAccounted
<1>2. MonthlyBudget # 0 => Bounded(Categorised, MonthlyBudget)'
  BY BoundsAssumption DEF AllBounded
<1>3. ASSUME NEW j \in Categorised, CategoryBudget[j] # None, CategoryBudget[j] # 0
      PROVE  Bounded({j}, CategoryBudget[j])'
  <2>1. CategoryBudget[j] \in Nat /\ Bounded({j}, CategoryBudget[j])
    BY <1>3, BoundsAssumption DEF AllBounded
  <2> QED BY <2>1
<1>4. ASSUME NEW j \in Categorised, CategoryBudget[j] # None, CategoryBudget[j] = 0
      PROVE  Untouchable(j)'
  <2>1. Untouchable(j)
    BY <1>4 DEF AllBounded
  <2>2. CategoryOf(c) # j
    BY <2>1 DEF Untouchable
  <2>3. \A d \in Callers : CategoryOf(d) = j => call'[d] = call[d]
    BY <2>2 DEF Money
  <2>4. \A d \in Callers : CategoryOf(d)' = CategoryOf(d)
    BY DEF CategoryOf
  <2>5. spent'[j] = spent[j]
    BY <2>2
  <2> QED BY <2>1, <2>3, <2>4, <2>5 DEF Untouchable
<1> QED BY <1>1, <1>2, <1>3, <1>4 DEF AllBounded

LEMMA PayKeepsMoney ==
    ASSUME IInv, MoneyInv, NEW c \in Callers, NEW k \in Categorised, k = CategoryOf(c), Pay(c, k)
    PROVE  AllAccounted' /\ AllBounded'
<1>1. Money /\ Money' /\ AllAccounted /\ AllBounded
  BY PayKeeps DEF IInv, MoneyInv
<1>2. PICK cost \in 1 .. MaxCost :
        /\ call' = [call EXCEPT ![c].state = "due", ![c].cost = cost]
        /\ spent' = [spent EXCEPT ![k] = @ + cost]
        /\ unseen' = [unseen EXCEPT ![k] = @ + IF call[c].blind THEN cost ELSE 0]
  BY DEF Pay
<1>3. call[c].state = "allowed" /\ ledger' = ledger /\ cost \in Nat
  BY BoundsAssumption DEF Pay
<1> DEFINE hidden == IF call[c].blind THEN cost ELSE 0
<1>4. hidden \in Nat /\ unseen' = [unseen EXCEPT ![k] = @ + hidden]
  BY <1>2, <1>3
<1> HIDE DEF hidden
<1>5. ASSUME NEW K \in SUBSET Categorised
      PROVE  /\ Accounted(K) => Accounted(K)'
             /\ \A budget \in Nat : Bounded(K, budget) => Bounded(K, budget)'
  <2> DEFINE open == c \in Allowed(K)
             ds == IF k \in K THEN cost ELSE 0
             du == IF k \in K THEN hidden ELSE 0
             dd == IF open THEN cost ELSE 0
             da == IF open THEN 1 ELSE 0
  <2>1. /\ Allowed(K)' = Allowed(K) \ {c}
        /\ open <=> ~call[c].blind /\ k \in K
        /\ Debt(K)' = Debt(K) \cup (IF open THEN Units(c, cost) ELSE {})
        /\ Debt(K) \cap Units(c, cost) = {}
    BY <1>1, <1>2, <1>3, PayCounts
  <2>2. Over(spent', K) = Over(spent, K) + ds /\ Over(unseen', K) = Over(unseen, K) + du
    <3>1. spent \in Sums /\ spent' \in Sums /\ unseen \in Sums /\ unseen' \in Sums
      BY <1>1 DEF Money
    <3>2. Over([spent EXCEPT ![k] = @ + cost], K) = Over(spent, K) + ds
      BY <1>3, <3>1, OverAdds
    <3>3. hidden \in Nat
      BY <1>4
    <3>4. Over([unseen EXCEPT ![k] = @ + hidden], K) = Over(unseen, K) + du
      BY <3>1, <3>3, OverAdds
    <3> QED BY <1>2, <1>4, <3>2, <3>4
  <2>3. Over(ledger', K) = Over(ledger, K) + 0
    BY <1>1, <1>3, OverIs
  <2>4. /\ Cardinality(Allowed(K)') \in Nat
        /\ Cardinality(Allowed(K)) = Cardinality(Allowed(K)') + da
    BY <2>1, CallsAreFinite, FS_RemoveElement, FS_CardinalityType
  <2>5. Cardinality(Debt(K)') = Cardinality(Debt(K)) + dd
    <3>1. CASE open
      <4>1. /\ IsFiniteSet(Units(c, cost)) /\ Cardinality(Units(c, cost)) = cost
            /\ IsFiniteSet(Debt(K)) /\ Cardinality(Debt(K)) \in Nat
        BY <1>3, UnitsAre, CallsAreFinite
      <4>2. Cardinality(Debt(K) \cup Units(c, cost)) = Cardinality(Debt(K))
              + Cardinality(Units(c, cost)) - Cardinality(Debt(K) \cap Units(c, cost))
        BY <4>1, FS_Union
      <4>3. Cardinality(Debt(K) \cap Units(c, cost)) = 0
        BY <2>1, FS_EmptySet
      <4>4. Debt(K)' = Debt(K) \cup Units(c, cost)
        BY <2>1, <3>1
      <4> QED BY <1>3, <3>1, <4>1, <4>2, <4>3, <4>4
    <3>2. CASE ~open
      <4>1. Debt(K)' = Debt(K) /\ dd = 0
        BY <2>1, <3>2
      <4>2. Cardinality(Debt(K)) \in Nat
        BY CallsAreFinite
      <4> HIDE DEF dd
      <4> QED BY <4>1, <4>2
    <3> QED BY <3>1, <3>2
  <2>6. /\ ds \in Nat /\ du \in Nat /\ dd \in Int /\ da \in Nat
        /\ ds <= du + 0 + dd /\ ds <= du + MaxCost * da
    BY <1>2, <1>3, <1>4, <2>1, BoundsAssumption DEF hidden
  <2> HIDE DEF ds, du, dd, da
  <2> QED BY <1>1, <2>2, <2>3, <2>4, <2>5, <2>6, Balances
<1>6. \A j \in Categorised : j # CategoryOf(c) => spent'[j] = spent[j]
  BY <1>1, <1>2 DEF Money, Sums
<1>7. call' = [call EXCEPT ![c] = [call[c] EXCEPT !.state = "due", !.cost = cost]]
  BY <1>1, <1>2 DEF Money
<1> QED BY <1>1, <1>3, <1>5, <1>6, <1>7, BalancedKeeps

LEMMA RecordKeepsMoney ==
    ASSUME IInv, MoneyInv, NEW c \in Callers, NEW k \in Categorised, k = CategoryOf(c), Record(c, k)
    PROVE  AllAccounted' /\ AllBounded'
<1>1. Money /\ Money' /\ AllAccounted /\ AllBounded
  BY RecordKeeps DEF IInv, MoneyInv
<1> DEFINE cost == call[c].cost
<1>2. /\ call[c].state = "due" /\ cost \in 1 .. MaxCost /\ cost \in Nat
      /\ call' = [call EXCEPT ![c] = NoCall] /\ spent' = spent
  BY BoundsAssumption DEF Record, MoneyInv, Calls
<1>3. PICK dl \in Nat, du \in Nat :
        /\ ledger' = [ledger EXCEPT ![k] = @ + dl] /\ unseen' = [unseen EXCEPT ![k] = @ + du]
        /\ ~call[c].blind => cost <= dl + du
  <2>1. CASE ledger' = [ledger EXCEPT ![k] = @ + cost] /\ UNCHANGED unseen
    <3>1. unseen' = [unseen EXCEPT ![k] = @ + 0]
      BY <1>1, <2>1 DEF Money, Sums
    <3>2. cost \in Nat /\ 0 \in Nat /\ cost <= cost + 0
      BY <1>2
    <3> HIDE DEF cost
    <3> QED BY <2>1, <3>1, <3>2
  <2>2. CASE /\ unseen' = [unseen EXCEPT ![k] = @ + IF call[c].blind THEN 0 ELSE cost]
             /\ UNCHANGED ledger
    <3>1. ledger' = [ledger EXCEPT ![k] = @ + 0]
      BY <1>1, <2>2 DEF Money, Sums
    <3> DEFINE du == IF call[c].blind THEN 0 ELSE cost
    <3>2. du \in Nat /\ 0 \in Nat /\ (~call[c].blind => cost <= 0 + du)
      BY <1>2
    <3>3. unseen' = [unseen EXCEPT ![k] = @ + du]
      BY <2>2
    <3> HIDE DEF cost, du
    <3> QED BY <3>1, <3>2, <3>3
  <2> QED BY <2>1, <2>2 DEF Record
<1> HIDE DEF cost
<1>4. ASSUME NEW K \in SUBSET Categorised
      PROVE  /\ Accounted(K) => Accounted(K)'
             /\ \A budget \in Nat : Bounded(K, budget) => Bounded(K, budget)'
  <2> DEFINE open == ~call[c].blind /\ k \in K
             ml == IF k \in K THEN dl ELSE 0
             mu == IF k \in K THEN du ELSE 0
             dd == IF open THEN 0 - cost ELSE 0
  <2>1. /\ Allowed(K)' = Allowed(K)
        /\ Debt(K)' = Debt(K) \ (IF open THEN Units(c, cost) ELSE {})
        /\ open => Units(c, cost) \subseteq Debt(K)
    BY <1>1, <1>2, RecordCounts DEF cost
  <2>2. Over(ledger', K) = Over(ledger, K) + ml /\ Over(unseen', K) = Over(unseen, K) + mu
    <3>1. ledger \in Sums /\ ledger' \in Sums /\ unseen \in Sums /\ unseen' \in Sums
      BY <1>1 DEF Money
    <3>2. Over([ledger EXCEPT ![k] = @ + dl], K) = Over(ledger, K) + ml
      BY <3>1, OverAdds
    <3>3. Over([unseen EXCEPT ![k] = @ + du], K) = Over(unseen, K) + mu
      BY <3>1, OverAdds
    <3> QED BY <1>3, <3>2, <3>3
  <2>3. Over(spent', K) = Over(spent, K) + 0
    BY <1>1, <1>2, OverIs
  <2>4. /\ Cardinality(Allowed(K)') \in Nat
        /\ Cardinality(Allowed(K)) = Cardinality(Allowed(K)') + 0
    BY <2>1, CallsAreFinite
  <2>5. Cardinality(Debt(K)') = Cardinality(Debt(K)) + dd
    <3>1. CASE open
      <4>1. /\ IsFiniteSet(Units(c, cost)) /\ Cardinality(Units(c, cost)) = cost
            /\ IsFiniteSet(Debt(K)) /\ Cardinality(Debt(K)) \in Nat
        BY <1>2, UnitsAre, CallsAreFinite
      <4>2. Cardinality(Debt(K) \ Units(c, cost)) = Cardinality(Debt(K))
              - Cardinality(Debt(K) \cap Units(c, cost))
        BY <4>1, FS_Difference
      <4>3. Debt(K) \cap Units(c, cost) = Units(c, cost)
        BY <2>1, <3>1
      <4>4. Debt(K)' = Debt(K) \ Units(c, cost)
        BY <2>1, <3>1
      <4>5. Cardinality(Debt(K)') = Cardinality(Debt(K)) - cost
        BY <4>1, <4>2, <4>3, <4>4
      <4>6. dd = 0 - cost /\ cost \in Nat
        BY <1>2, <3>1
      <4> HIDE DEF dd
      <4> QED BY <4>1, <4>5, <4>6
    <3>2. CASE ~open
      <4>1. Debt(K)' = Debt(K) /\ dd = 0
        BY <2>1, <3>2
      <4>2. Cardinality(Debt(K)) \in Nat
        BY CallsAreFinite
      <4> HIDE DEF dd
      <4> QED BY <4>1, <4>2
    <3> QED BY <3>1, <3>2
  <2>6. /\ ml \in Nat /\ mu \in Nat /\ dd \in Int /\ 0 \in Nat
        /\ 0 <= mu + ml + dd /\ 0 <= mu + MaxCost * 0
    BY <1>2, <1>3, BoundsAssumption
  <2> HIDE DEF ml, mu, dd
  <2> QED BY <1>1, <2>2, <2>3, <2>4, <2>5, <2>6, Balances
<1>5. call[c].state # "none" /\ \A j \in Categorised : spent'[j] = spent[j]
  BY <1>2
<1> QED BY <1>1, <1>2, <1>4, <1>5, BalancedKeeps

\* An attempt whose answer is lost is neither recorded nor seen.
LEMMA LoseKeepsMoney ==
    ASSUME IInv, MoneyInv, NEW c \in Callers, NEW k \in Categorised, k = CategoryOf(c),
           LoseAnswer(c, k)
    PROVE  AllAccounted' /\ AllBounded'
<1>1. Money /\ Money' /\ AllAccounted /\ AllBounded
  BY LoseKeeps DEF IInv, MoneyInv
<1>2. PICK cost \in 1 .. MaxCost : /\ spent' = [spent EXCEPT ![k] = @ + cost]
                                  /\ unseen' = [unseen EXCEPT ![k] = @ + cost]
  BY DEF LoseAnswer
<1>3. cost \in Nat /\ call[c].state # "none" /\ UNCHANGED <<ledger, call>>
  BY BoundsAssumption DEF LoseAnswer
<1>4. ASSUME NEW K \in SUBSET Categorised
      PROVE  /\ Accounted(K) => Accounted(K)'
             /\ \A budget \in Nat : Bounded(K, budget) => Bounded(K, budget)'
  <2> DEFINE ds == IF k \in K THEN cost ELSE 0
  <2>1. Allowed(K)' = Allowed(K) /\ Due(K)' = Due(K) /\ Debt(K)' = Debt(K)
    BY <1>3 DEF Allowed, Due, Debt, Seen, CategoryOf
  <2>2. Over(spent', K) = Over(spent, K) + ds /\ Over(unseen', K) = Over(unseen, K) + ds
    <3>1. spent \in Sums /\ unseen \in Sums
      BY <1>1 DEF Money
    <3>2. Over([spent EXCEPT ![k] = @ + cost], K) = Over(spent, K) + ds
      BY <1>3, <3>1, OverAdds
    <3>3. Over([unseen EXCEPT ![k] = @ + cost], K) = Over(unseen, K) + ds
      BY <1>3, <3>1, OverAdds
    <3> QED BY <1>2, <3>2, <3>3
  <2>3. Over(ledger', K) = Over(ledger, K) + 0
    BY <1>1, <1>3, OverIs
  <2>4. /\ Cardinality(Allowed(K)') \in Nat
        /\ Cardinality(Allowed(K)) = Cardinality(Allowed(K)') + 0
        /\ Cardinality(Debt(K)') = Cardinality(Debt(K)) + 0
    BY <2>1, CallsAreFinite
  <2>5. ds \in Nat /\ 0 \in Nat /\ 0 \in Int /\ ds <= ds + 0 + 0 /\ ds <= ds + MaxCost * 0
    BY <1>3, BoundsAssumption
  <2> HIDE DEF ds
  <2> QED BY <1>1, <2>2, <2>3, <2>4, <2>5, Balances
<1>5. \A j \in Categorised : j # CategoryOf(c) => spent'[j] = spent[j]
  BY <1>1, <1>2 DEF Money, Sums
<1>6. call' = [call EXCEPT ![c] = call[c]]
  BY <1>1, <1>3 DEF Money
<1> QED BY <1>1, <1>3, <1>4, <1>5, <1>6, BalancedKeeps

\* A call that fails costs nothing more.
LEMMA FailKeepsMoney ==
    ASSUME IInv, MoneyInv, NEW c \in Callers, call[c].state = "allowed",
           call' = [call EXCEPT ![c] = NoCall], UNCHANGED <<ledger, spent, unseen>>
    PROVE  AllAccounted' /\ AllBounded'
<1>1. Money /\ AllAccounted /\ AllBounded
  BY DEF IInv, MoneyInv
<1>2. ASSUME NEW K \in SUBSET Categorised
      PROVE  /\ Accounted(K) => Accounted(K)'
             /\ \A budget \in Nat : Bounded(K, budget) => Bounded(K, budget)'
  <2>1. Allowed(K)' \in SUBSET Allowed(K) /\ Debt(K)' = Debt(K)
    BY <1>1, FailCounts
  <2> DEFINE da == Cardinality(Allowed(K)) - Cardinality(Allowed(K)')
  <2>2. /\ Cardinality(Allowed(K)') \in Nat /\ Cardinality(Allowed(K)') <= Cardinality(Allowed(K))
        /\ Cardinality(Allowed(K)) \in Nat
    BY <2>1, CallsAreFinite, FS_Subset, FS_CardinalityType
  <2>3. da \in Nat /\ Cardinality(Allowed(K)) = Cardinality(Allowed(K)') + da
    BY <2>2
  <2>4. /\ Over(spent', K) = Over(spent, K) + 0 /\ Over(unseen', K) = Over(unseen, K) + 0
        /\ Over(ledger', K) = Over(ledger, K) + 0
    BY <1>1, OverIs
  <2>5. Cardinality(Debt(K)') = Cardinality(Debt(K)) + 0
    BY <2>1, CallsAreFinite
  <2> HIDE DEF da
  <2>6. 0 \in Nat /\ 0 \in Int /\ 0 <= 0 + 0 + 0 /\ 0 <= 0 + MaxCost * da
    BY <2>3, Distributes, BoundsAssumption
  <2> QED BY <1>1, <2>2, <2>3, <2>4, <2>5, <2>6, Balances
<1>3. \A j \in Categorised : spent'[j] = spent[j]
  OBVIOUS
<1> QED BY <1>1, <1>2, <1>3, BalancedKeeps

-----------------------------------------------------------------------------
(* The invariant of the budget.                                             *)

LEMMA RunningIsBounded ==
    ASSUME Cardinality(Running) <= MaxConcurrent, NEW t \in Turns,
           \A u \in Turns \ {t} : turn'[u] = turn[u],
           t \in Running \/ Cardinality(Running) < MaxConcurrent
    PROVE  Cardinality(Running') <= MaxConcurrent
<1> DEFINE after == Running'
           more  == Running \cup {t}
<1>1. after \in SUBSET more
  BY DEF Running
<1>2. IsFiniteSet(Running) /\ Cardinality(Running) \in Nat
  <2>1. Running \in SUBSET Turns
    BY DEF Running
  <2> QED BY <2>1, FiniteCallers, FS_Subset, FS_CardinalityType
<1>3. /\ IsFiniteSet(more)
      /\ Cardinality(more) = IF t \in Running THEN Cardinality(Running) ELSE Cardinality(Running) + 1
  BY <1>2, FS_AddElement
<1> HIDE DEF after, more
<1>4. Cardinality(after) <= Cardinality(more) /\ Cardinality(after) \in Nat
  BY <1>1, <1>3, FS_Subset, FS_CardinalityType
<1>5. Cardinality(more) <= MaxConcurrent /\ Cardinality(more) \in Nat
  BY <1>2, <1>3, BoundsAssumption
<1>6. Cardinality(after) <= MaxConcurrent
  BY <1>4, <1>5, BoundsAssumption
<1> QED BY <1>6 DEF after

\* A step of a turn, and of its call.
LEMMA CallsKeep ==
    ASSUME Calls, NEW t \in Turns,
           \A u \in Turns \ {t} : turn'[u] = turn[u],
           \A d \in Callers \ {t} : call'[d] = call[d],
           call'[t].state # "none" => turn'[t].pc \in {"loop", "looking"},
           call'[t].state = "due" => call'[t].cost \in 1 .. MaxCost,
           t \in Running \/ Cardinality(Running) < MaxConcurrent
    PROVE  Calls'
<1>1. Cardinality(Running') <= MaxConcurrent
  BY RunningIsBounded DEF Calls
<1>2. \A d \in Callers : call'[d].state = "due" => call'[d].cost \in 1 .. MaxCost
  BY DEF Calls
<1>3. \A u \in Turns : call'[u].state # "none" => turn'[u].pc \in {"loop", "looking"}
  BY DEF Calls, Callers
<1> QED BY <1>1, <1>2, <1>3 DEF Calls

\* What a step on one call leaves: the other callers, and the record of c.
LEMMA OneCall ==
    ASSUME Money, NEW c \in Callers, NEW k \in Categorised,
           \/ Admit(c, k) \/ Pay(c, k) \/ LoseAnswer(c, k) \/ Record(c, k)
           \/ call' = [call EXCEPT ![c] = NoCall]
    PROVE  /\ \A d \in Callers \ {c} : call'[d] = call[d]
           /\ call'[c].state = "due" => call'[c].cost \in 1 .. MaxCost
           /\ Record(c, k) => call'[c].state = "none"
           /\ call' = [call EXCEPT ![c] = NoCall] => call'[c].state = "none"
<1>1. call' = [call EXCEPT ![c] = NoCall] =>
        call'[c].state = "none" /\ \A d \in Callers \ {c} : call'[d] = call[d]
  BY DEF Money, NoCall
<1>2. Record(c, k) => call' = [call EXCEPT ![c] = NoCall]
  BY DEF Record
<1>3. CASE Admit(c, k)
  <2>1. PICK blind \in BOOLEAN :
          call' = [call EXCEPT ![c] = [state |-> "allowed", cost |-> 0, blind |-> blind]]
    BY <1>3 DEF Admit
  <2>2. call'[c].state = "allowed" /\ \A d \in Callers \ {c} : call'[d] = call[d]
    BY <2>1 DEF Money
  <2> QED BY <1>1, <1>2, <2>2
<1>4. CASE Pay(c, k)
  <2>1. PICK cost \in 1 .. MaxCost :
          call' = [call EXCEPT ![c].state = "due", ![c].cost = cost]
    BY <1>4 DEF Pay
  <2>2. call'[c].cost = cost /\ \A d \in Callers \ {c} : call'[d] = call[d]
    BY <2>1 DEF Money
  <2> QED BY <1>1, <1>2, <2>1, <2>2
<1>5. CASE LoseAnswer(c, k)
  <2>1. call' = call /\ call[c].state = "allowed"
    BY <1>5 DEF LoseAnswer
  <2> QED BY <1>1, <1>2, <2>1
<1> QED BY <1>1, <1>2, <1>3, <1>4, <1>5

\* The steps of a turn that is not in a call.
LEMMA QuietKeepsMoney ==
    ASSUME IInv, MoneyInv, NEW t \in Turns,
           \/ \E m \in Messages : Receive(t, m)
           \/ Store(t) \/ Decide(t) \/ AnswerDirectly(t) \/ EnterLoop(t)
           \/ ReadTool(t) \/ WriteTool(t) \/ Deliver(t) \/ BudgetExhausted(t)
           \/ \E reply \in Replies : Answer(t, reply)
    PROVE  MoneyInv'
<1> USE DEF IInv
<1>1. UNCHANGED money
  BY DEF Receive, Store, Decide, AnswerDirectly, EnterLoop, ReadTool, WriteTool, Deliver,
         BudgetExhausted, Answer
<1>2. AllAccounted' /\ AllBounded'
  BY <1>1 DEF MoneyInv, AllAccounted, AllBounded, Accounted, Bounded, Untouchable, Over, Debt,
              Due, Allowed, Seen, CategoryOf, Most, AtOnce, money
<1>3. call[t].state = "none"
  <2>1. CASE BudgetExhausted(t)
    BY <2>1 DEF BudgetExhausted
  <2>2. CASE turn[t].pc \notin {"loop", "looking"}
    BY <2>2 DEF MoneyInv, Calls
  <2> QED BY <2>1, <2>2 DEF Receive, Next1, Store, Decide, AnswerDirectly, EnterLoop, Undecided,
                            ReadTool, WriteTool, Deliver, Answer
<1>4. t \in Running \/ Cardinality(Running) < MaxConcurrent
  BY DEF Receive, Next1, Store, Decide, AnswerDirectly, EnterLoop, Undecided,
         ReadTool, WriteTool, Deliver, BudgetExhausted, Answer, Calling, Running
<1>5. \A u \in Turns \ {t} : turn'[u] = turn[u]
  <2>1. ASSUME NEW r, turn' = [turn EXCEPT ![t] = r] PROVE \A u \in Turns \ {t} : turn'[u] = turn[u]
    BY <2>1 DEF Kinds
  <2>2. CASE Goes(t)
    BY <2>1, <2>2 DEF Goes
  <2>3. ASSUME NEW origin, Prepare(t, origin) PROVE \A u \in Turns \ {t} : turn'[u] = turn[u]
    BY <2>1, <2>3 DEF Prepare
  <2>4. CASE AnswerDirectly(t) \/ WriteTool(t)
    BY <2>2, <2>3, <2>4, LoopGoes DEF AnswerDirectly, WriteTool
  <2>5. CASE \/ Decide(t) \/ ReadTool(t) \/ BudgetExhausted(t)
             \/ \E reply \in Replies : Answer(t, reply)
    BY <2>2, <2>5, LoopGoes
  <2>6. CASE \/ \E m \in Messages : Receive(t, m)
             \/ Store(t) \/ EnterLoop(t) \/ Deliver(t)
    BY <2>6 DEF Receive, Store, EnterLoop, Deliver, Kinds
  <2> QED BY <2>4, <2>5, <2>6
<1>6. Calls'
  <2>1. call' = call /\ Calls
    BY <1>1 DEF money, MoneyInv
  <2> QED BY <1>3, <1>4, <1>5, <2>1, CallsKeep
<1> QED BY <1>2, <1>6 DEF MoneyInv

LEMMA CallKeepsMoney ==
    ASSUME IInv, MoneyInv, NEW t \in Turns,
           CheckBudget(t) \/ CallModel(t) \/ RecordUsage(t) \/ ModelFails(t)
    PROVE  MoneyInv'
<1> USE DEF IInv
<1> DEFINE k == "interactive"
<1>1. t \in Callers /\ k \in Categorised /\ k = CategoryOf(t)
  BY DEF Callers, Categorised, CategoryOf
<1>2. turn[t].pc \in {"loop", "looking"} /\ t \in Running
  BY DEF CheckBudget, CallModel, RecordUsage, ModelFails, Calling, Running
<1> HIDE DEF k
<1>3. \/ Admit(t, k) /\ turn' = turn
      \/ Pay(t, k) /\ turn' = turn
      \/ LoseAnswer(t, k) /\ turn' = turn
      \/ Record(t, k) /\ Goes(t)
      \/ ModelFails(t) /\ Goes(t)
  BY LoopGoes DEF CheckBudget, CallModel, RecordUsage, k
<1>4. AllAccounted' /\ AllBounded'
  <2>1. CASE ModelFails(t)
    BY <1>1, <2>1, FailKeepsMoney DEF ModelFails
  <2> QED BY <1>1, <1>2, <1>3, <2>1, AdmitKeepsMoney, PayKeepsMoney, LoseKeepsMoney,
             RecordKeepsMoney
<1>5. \/ Admit(t, k) \/ Pay(t, k) \/ LoseAnswer(t, k) \/ Record(t, k)
      \/ call' = [call EXCEPT ![t] = NoCall]
  BY <1>3 DEF ModelFails
<1>6. /\ \A d \in Callers \ {t} : call'[d] = call[d]
      /\ call'[t].state = "due" => call'[t].cost \in 1 .. MaxCost
      /\ Record(t, k) \/ ModelFails(t) => call'[t].state = "none"
  BY <1>1, <1>5, OneCall DEF ModelFails
<1>7. /\ \A u \in Turns \ {t} : turn'[u] = turn[u]
      /\ call'[t].state # "none" => turn'[t].pc \in {"loop", "looking"}
  BY <1>2, <1>3, <1>6 DEF Goes, Kinds
<1>8. Calls'
  BY <1>2, <1>6, <1>7, CallsKeep DEF MoneyInv
<1> QED BY <1>4, <1>8 DEF MoneyInv

LEMMA BriefKeepsMoney ==
    ASSUME IInv, MoneyInv, NEW b \in Briefings, Brief(b)
    PROVE  MoneyInv'
<1> USE DEF IInv
<1> DEFINE k == "briefing"
<1>1. b \in Callers /\ b \notin Turns /\ k \in Categorised /\ k = CategoryOf(b)
  BY CallersAssumption DEF Callers, Categorised, CategoryOf
<1> HIDE DEF k
<1>2. \/ Admit(b, k) \/ Pay(b, k) \/ LoseAnswer(b, k) \/ Record(b, k)
      \/ /\ call[b].state = "allowed" /\ call' = [call EXCEPT ![b] = NoCall]
         /\ UNCHANGED <<ledger, spent, unseen>>
  BY DEF Brief, k
<1>3. AllAccounted' /\ AllBounded'
  <2>1. CASE /\ call[b].state = "allowed" /\ call' = [call EXCEPT ![b] = NoCall]
             /\ UNCHANGED <<ledger, spent, unseen>>
    BY <1>1, <2>1, FailKeepsMoney
  <2> QED BY <1>1, <1>2, <2>1, AdmitKeepsMoney, PayKeepsMoney, LoseKeepsMoney,
             RecordKeepsMoney
<1>4. /\ \A d \in Callers \ {b} : call'[d] = call[d]
      /\ call'[b].state = "due" => call'[b].cost \in 1 .. MaxCost
  BY <1>1, <1>2, OneCall
<1>5. turn' = turn
  BY DEF Brief
<1>6. Calls'
  <2>1. Running' = Running
    BY <1>5 DEF Running
  <2> QED BY <1>1, <1>4, <1>5, <2>1 DEF Calls, MoneyInv, Callers
<1> QED BY <1>3, <1>6 DEF MoneyInv

LEMMA MoneyHolds0 == Init => MoneyInv
<1> SUFFICES ASSUME Init PROVE MoneyInv
  OBVIOUS
<1>1. IInv
  BY Holds0
<1>2. \A c \in Callers : call[c].state = "none"
  BY DEF Init, NoCall
<1>3. \A K : Allowed(K) = {} /\ Due(K) = {}
  BY <1>2 DEF Allowed, Due, Seen
<1>4. \A K : Cardinality(Allowed(K)) = 0
  BY <1>3, FS_EmptySet
<1>5. ASSUME NEW K \in SUBSET Categorised
      PROVE  Over(spent, K) = 0 /\ Over(unseen, K) = 0 /\ Over(ledger, K) = 0
  BY DEF Init, Over, Categorised
<1>6. AllAccounted
  <2>1. \A K : Cardinality(Debt(K)) \in Nat
    BY CallsAreFinite
  <2> QED BY <1>5, <2>1 DEF AllAccounted, Accounted
<1>7. ASSUME NEW K \in SUBSET Categorised, NEW budget \in Nat \ {0} PROVE Bounded(K, budget)
  <2>1. MaxCost * Most(K) \in Nat /\ MaxCost * 0 = 0
    BY MostIsNat, Distributes, BoundsAssumption
  <2> QED BY <1>4, <1>5, <1>7, <2>1 DEF Bounded
<1>8. \A k \in Categorised : Untouchable(k)
  BY <1>2 DEF Untouchable, Init
<1>9. AllBounded
  <2>1. MonthlyBudget # 0 => Bounded(Categorised, MonthlyBudget)
    BY <1>7, BoundsAssumption
  <2>2. ASSUME NEW k \in Categorised, CategoryBudget[k] # None, CategoryBudget[k] # 0
        PROVE  Bounded({k}, CategoryBudget[k])
    BY <1>7, <2>2, BoundsAssumption
  <2> QED BY <1>8, <2>1, <2>2 DEF AllBounded
<1>10. Running = {}
  BY DEF Running, Init, Unsent
<1>11. Calls
  BY <1>2, <1>10, FS_EmptySet, BoundsAssumption DEF Calls, Callers
<1> QED BY <1>6, <1>9, <1>11 DEF MoneyInv

LEMMA MoneyStep == IInv /\ MoneyInv /\ [Next]_vars => MoneyInv'
<1> SUFFICES ASSUME IInv, MoneyInv, [Next]_vars PROVE MoneyInv'
  OBVIOUS
<1>1. CASE UNCHANGED vars
  BY <1>1 DEF vars, MoneyInv, Calls, Running, AllAccounted, AllBounded, Accounted, Bounded,
              Untouchable, Over, Debt, Due, Allowed, Seen, CategoryOf, Most, AtOnce
<1> QED BY <1>1, QuietKeepsMoney, CallKeepsMoney, BriefKeepsMoney DEF Next, Work

LEMMA MoneyBounds == IInv /\ MoneyInv => OverspendIsBounded
<1> SUFFICES ASSUME IInv, MoneyInv PROVE OverspendIsBounded
  OBVIOUS
<1>1. Money /\ AllBounded
  BY DEF IInv, MoneyInv
<1>2. ASSUME NEW K \in SUBSET Categorised, NEW budget \in Nat, Bounded(K, budget)
      PROVE  AtMost(Over(spent, K), Over(unseen, K), budget, Most(K))
  <2>1. MaxCost * Cardinality(Allowed(K)) \in Nat /\ MaxCost * Most(K) \in Nat
    BY CallsAreFinite, MostIsNat, Distributes, BoundsAssumption
  <2>2. Over(spent, K) \in Nat /\ Over(unseen, K) \in Nat
    BY <1>1, OverIs
  <2>3. Over(spent, K) - Over(unseen, K) <= budget - 1 + MaxCost * Most(K)
    BY <1>2, <2>1, <2>2 DEF Bounded
  <2> QED BY <2>3 DEF AtMost
<1>3. MonthlyBudget # 0 => AtMost(Total(spent), Total(unseen), MonthlyBudget, Total(AtOnce))
  <2>1. /\ Over(spent, Categorised) = Total(spent) /\ Over(unseen, Categorised) = Total(unseen)
        /\ Most(Categorised) = Total(AtOnce)
    BY DEF Most, Over, Total, Categorised
  <2> QED BY <1>1, <1>2, <2>1, BoundsAssumption DEF AllBounded
<1>4. ASSUME NEW c \in Categorised, CategoryBudget[c] # None, spent[c] > 0
      PROVE  AtMost(spent[c], unseen[c], CategoryBudget[c], AtOnce[c])
  <2>1. CategoryBudget[c] \in Nat /\ CategoryBudget[c] # 0
    <3>1. CategoryBudget[c] \in Nat
      BY <1>4, BoundsAssumption
    <3>2. CategoryBudget[c] = 0 => spent[c] = 0
      BY <1>1, <1>4 DEF AllBounded, Untouchable
    <3> QED BY <1>4, <3>1, <3>2
  <2>2. Over(spent, {c}) = spent[c] /\ Over(unseen, {c}) = unseen[c] /\ Most({c}) = AtOnce[c]
    BY <1>1, MostIs DEF Most, Over, Categorised, Money, Sums
  <2> QED BY <1>1, <1>2, <1>4, <2>1, <2>2 DEF AllBounded
<1> QED BY <1>3, <1>4 DEF OverspendIsBounded

\* The month, and the budget of a category, is overspent by no more than one call
\* of each caller that it has at once, besides what was lost or admitted unread,
\* whatever calls cost, fail or overlap (assertWithinBudget, recordUsage).
THEOREM OverspendHasABound == Spec => []OverspendIsBounded
<1>1. Spec => [](IInv /\ MoneyInv)
  BY MoneyHolds0, MoneyStep, Holds0, StepHolds, PTL DEF Spec
<1> QED BY <1>1, MoneyBounds, PTL
=============================================================================
