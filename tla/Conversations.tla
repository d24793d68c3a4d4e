---------------------------- MODULE Conversations ----------------------------
(***************************************************************************)
(* The conversations of one user: the tables and the chat route            *)
(* (conversations/store.ts, routes/assistant.routes.ts), and one browser   *)
(* tab that shows them (Workspace.tsx, Assistant.tsx).                     *)
(*                                                                         *)
(* The tab is React state.  The shell (Workspace) says which conversation  *)
(* is active; the page (Assistant) remembers which one its turns were      *)
(* loaded from, and an effect reacts whenever one of the two changes.  A   *)
(* request goes on when the reader opens another conversation or leaves    *)
(* the page, and its answer then finds another state of the tab.           *)
(*                                                                         *)
(* What a turn does inside the server is the approval engine's business:   *)
(* here it answers, with or without a new proposal, fails, or dies.  A     *)
(* No, like any message but a Yes, only withdraws what was proposed.       *)
(***************************************************************************)
EXTENDS Naturals, Sequences, FiniteSets, Functions

CONSTANTS Requests,   \* messages sent, each used once
          Threads,    \* conversation ids
          None,       \* no conversation, no request
          HistoryRows,\* the rows GET /api/conversations/:id returns, the oldest (200)
          MaxLosses   \* bound: requests that lose a row, or their process

ASSUME NoneAssumption   == None \notin Threads \cup Requests
ASSUME LossesAssumption == MaxLosses \in Nat
ASSUME HistoryAssumption == HistoryRows \in Nat
ASSUME FiniteAssumption == IsFiniteSet(Requests) /\ IsFiniteSet(Threads)

VARIABLES
    \* ---- the tables ----
    opened,     \* conversations created
    archived,   \* those with an archived_at
    messages,   \* messages[c], the rows of a conversation by created_at
    pending,    \* pending[c], the request whose proposal is pending in c
    \* ---- the requests POST /api/assistant/chat ----
    request,
    \* ---- the tab ----
    activeId,   \* Workspace: the conversation that is open
    page,       \* Assistant: a record, or Closed
    removing,   \* Workspace: the DELETE under way
    \* ---- history, read by the properties only ----
    lost,       \* rows that were never stored
    executed,   \* the proposals executed, each with the Yes that did it
    strayed     \* the reader went elsewhere, or the line broke, before an answer

tables == <<opened, archived, messages, pending>>
history == <<lost, executed, strayed>>
vars == <<tables, request, activeId, page, removing, history>>

-----------------------------------------------------------------------------
(* Rows and turns.                                                         *)

\* A message, stored or shown: whose turn, who speaks, is there a card.
Row(r, by, card) == [of |-> r, by |-> by, card |-> card]

\* A failure is shown where the server keeps, at best, a failed turn.
Question(r) == Row(r, "user", FALSE)
Failure(r)  == Row(r, "assistant", FALSE)

\* The component that is not mounted.
Closed == [mounted |-> FALSE, loaded |-> None, turns |-> <<>>, busy |-> FALSE,
           threadLoading |-> FALSE, threadError |-> FALSE,
           fetching |-> None, fetched |-> <<>>, arrived |-> FALSE]

Opened == [Closed EXCEPT !.mounted = TRUE]

\* pc: unsent, sent, thinking, answered, failed, dead.  conv is the
\* conversation it names, then the one it belongs to; yesTo the request whose
\* card it says Yes to; found, the proposal the turn found pending; card, does
\* its answer bring a card; waiting, does the tab still wait for it; sender, is
\* the page that sent it the one mounted.
Unsent == [pc |-> "unsent", conv |-> None, yesTo |-> None, found |-> None,
           card |-> FALSE, waiting |-> FALSE, sender |-> FALSE]

Waiting == {r \in Requests : request[r].waiting}

Init ==
    /\ opened = {} /\ archived = {}
    /\ messages = [c \in Threads |-> <<>>]
    /\ pending = [c \in Threads |-> None]
    /\ request = [r \in Requests |-> Unsent]
    /\ activeId = None
    /\ page = Closed
    /\ removing = None
    /\ lost = {} /\ executed = {} /\ strayed = FALSE

-----------------------------------------------------------------------------
(* The server.                                                             *)

MayLose == Cardinality({row[1] : row \in lost}) < MaxLosses

\* appendMessage swallows its error: the row may be missing.
AppendMessage(c, row) ==
    \/ /\ messages' = [messages EXCEPT ![c] = Append(@, row)]
       /\ UNCHANGED lost
    \/ /\ MayLose
       /\ lost' = lost \cup {<<row.of, row.by>>}
       /\ UNCHANGED messages

IsYes(r) == request[r].yesTo # None

\* claimApproval: the proposal found is still pending.
Claims(r) == /\ IsYes(r) /\ request[r].found # None
             /\ pending[request[r].conv] = request[r].found

\* A conversation created now.
Fresh == CHOOSE c \in Threads : c \notin opened

\* Mutation of ThreadOf: the conversation named is taken when it is listed.
ThreadOfListed(r) ==
    IF request[r].conv \in opened \ archived THEN request[r].conv ELSE Fresh

\* The conversation named, archived or not, or a new one.
ThreadOf(r) == IF request[r].conv # None THEN request[r].conv ELSE Fresh

\* The route finds or creates the conversation and stores the question; the
\* turn finds the pending proposal, which any message but a Yes supersedes.
Receive(r) ==
    /\ request[r].pc = "sent"
    /\ LET c == ThreadOf(r) IN
         /\ opened' = opened \cup {c}
         /\ request' = [request EXCEPT ![r].pc = "thinking", ![r].conv = c,
                                       ![r].found = pending[c]]
         /\ pending' = IF IsYes(r) THEN pending ELSE [pending EXCEPT ![c] = None]
         /\ AppendMessage(c, Question(r))
    /\ UNCHANGED <<archived, activeId, page, removing, executed, strayed>>

\* runAgent returns: a Yes has claimed and executed what it found, any other
\* message may have prepared a proposal of its own.
Answer(r, card) ==
    /\ request[r].pc = "thinking"
    /\ request' = [request EXCEPT ![r].pc = "answered", ![r].card = card]
    /\ LET c == request[r].conv IN
         /\ IsYes(r) => ~card
         /\ pending' = [pending EXCEPT ![c] = IF card THEN r
                                              ELSE IF Claims(r) THEN None ELSE @]
         /\ executed' = IF Claims(r) THEN executed \cup {<<r, request[r].found>>}
                                     ELSE executed
         /\ AppendMessage(c, Row(r, "assistant", card))
    /\ UNCHANGED <<opened, archived, activeId, page, removing, strayed>>

\* Mutation of Fail: the failed turn is not stored.
FailUnrecorded(r) ==
    /\ request[r].pc = "thinking"
    /\ request' = [request EXCEPT ![r].pc = "failed"]
    /\ UNCHANGED <<tables, activeId, page, removing, history>>

\* runAgent throws: the route stores a failed turn and sends the error.
Fail(r) ==
    /\ request[r].pc = "thinking"
    /\ request' = [request EXCEPT ![r].pc = "failed"]
    /\ LET c == request[r].conv IN
         /\ AppendMessage(c, Failure(r))
    /\ UNCHANGED <<opened, archived, pending, activeId, page, removing, executed, strayed>>

\* The request comes to an end and stores nothing more.  Before the question is
\* stored, a conversation may have been opened for it.
Stops(r, pc) ==
    /\ MayLose
    /\ request' = [request EXCEPT ![r].pc = pc]
    /\ \/ UNCHANGED opened
       \/ request[r].pc = "sent" /\ opened' = opened \cup {ThreadOf(r)}
    /\ lost' = lost \cup {<<r, "assistant">>}
                     \cup (IF request[r].pc = "sent" THEN {<<r, "user">>} ELSE {})
    /\ UNCHANGED <<archived, messages, pending, activeId, page, removing, executed, strayed>>

\* A query fails before the question is stored, or request.graph().
Refuse(r) == request[r].pc = "sent" /\ Stops(r, "failed")

\* The platform kills the invocation.
Die(r) == request[r].pc \in {"sent", "thinking"} /\ Stops(r, "dead")

-----------------------------------------------------------------------------
(* The page reacts.                                                        *)

\* Mutation of Reacted: the load under way goes on.
ReactedKeepsLoad(p, c) ==
    IF c \in {p.loaded, None} THEN [p EXCEPT !.turns = IF c = None THEN <<>> ELSE @, !.loaded = c]
    ELSE [p EXCEPT !.turns = <<>>, !.threadLoading = TRUE, !.threadError = FALSE,
                   !.fetching = c, !.fetched = <<>>, !.arrived = FALSE]

\* Mutation of Reacted: a new conversation keeps the turns shown.
ReactedKeepsTurns(p, c) ==
    IF c = p.loaded THEN [p EXCEPT !.fetching = None]
    ELSE IF c = None THEN [p EXCEPT !.loaded = None, !.fetching = None,
                                    !.threadLoading = FALSE, !.threadError = FALSE]
    ELSE [p EXCEPT !.turns = <<>>, !.threadLoading = TRUE, !.threadError = FALSE,
                   !.fetching = c, !.fetched = <<>>, !.arrived = FALSE]

\* The effect on [activeId, loaded]: what the page becomes when the shell
\* names conversation c.  Leaving the effect cancels the load under way.
Reacted(p, c) ==
    IF c = p.loaded THEN [p EXCEPT !.fetching = None]
    ELSE IF c = None THEN [p EXCEPT !.turns = <<>>, !.loaded = None, !.fetching = None,
                                    !.threadLoading = FALSE, !.threadError = FALSE]
    ELSE [p EXCEPT !.turns = <<>>, !.threadLoading = TRUE, !.threadError = FALSE,
                   !.fetching = c, !.fetched = <<>>, !.arrived = FALSE]

\* The shell opens c; the effect runs only when something changed.
Show(p, c) ==
    /\ activeId' = c
    /\ page' = IF p.mounted /\ <<c, p.loaded>> # <<activeId, page.loaded>>
                 THEN Reacted(p, c) ELSE p

\* Going elsewhere before an answer is here.
Strays == strayed' = (strayed \/ Waiting # {})

\* LoadingScreen and the error screen hide the composer and the cards.
Readable == page.mounted /\ ~page.threadLoading /\ ~page.threadError
            /\ activeId = page.loaded

-----------------------------------------------------------------------------
(* The reader.                                                             *)

\* Bound: every new conversation finds an id.
ThreadLeft ==
    Cardinality({r \in Requests : request[r].pc = "sent" /\ request[r].conv = None})
        < Cardinality(Threads \ opened)

\* Messages are used one after the other.
Unused(r) == request[r].pc = "unsent" /\ r = CHOOSE q \in Requests : request[q].pc = "unsent"

\* send(): the turn is shown and the request goes out.
Send(r, p, c, yesTo) ==
    /\ Unused(r)
    /\ c # None \/ ThreadLeft
    /\ page' = [p EXCEPT !.turns = Append(@, Question(r)), !.busy = TRUE]
    /\ request' = [request EXCEPT ![r] = [pc |-> "sent", conv |-> c, yesTo |-> yesTo,
                                          found |-> None, card |-> FALSE,
                                          waiting |-> TRUE, sender |-> TRUE]]

Ask(r) ==
    /\ Readable /\ ~page.busy
    /\ UNCHANGED <<tables, activeId, removing, history>>
    /\ Send(r, page, activeId, None)

\* The buttons of a card are enabled until she says something else.
Decidable(i) == /\ page.turns[i].card
                /\ \A j \in i + 1 .. Len(page.turns) : page.turns[j].by # "user"

\* "Yes, proceed"
Approve(r) ==
    /\ Readable /\ ~page.busy
    /\ UNCHANGED <<tables, activeId, removing, history>>
    /\ \E i \in 1 .. Len(page.turns) :
         /\ Decidable(i)
         /\ Send(r, page, activeId, page.turns[i].of)

Listed == opened \ archived

\* A conversation of the sidebar, which the assistant's view alone shows.
Open(c) ==
    /\ page.mounted
    /\ c \in Listed \ {activeId}
    /\ Show(page, c)
    /\ Strays
    /\ UNCHANGED <<tables, request, removing, lost, executed>>

\* "New conversation", startNew.
StartNew ==
    /\ activeId # None /\ page.mounted
    /\ Show(page, None)
    /\ Strays
    /\ UNCHANGED <<tables, request, removing, lost, executed>>

\* Another view: Assistant is unmounted and its state is gone.
Leave ==
    /\ page.mounted
    /\ page' = Closed
    /\ request' = [r \in Requests |-> [request[r] EXCEPT !.sender = FALSE]]
    /\ Strays
    /\ UNCHANGED <<tables, activeId, removing, lost, executed>>

\* Back to the view, with whatever conversation is active.
Return ==
    /\ ~page.mounted
    /\ page' = Reacted(Opened, activeId)
    /\ UNCHANGED <<tables, request, activeId, removing, history>>

\* askFromDashboard, and the effect that sends the question at once.
AskFromDashboard(r) ==
    /\ ~page.mounted
    /\ activeId' = None
    /\ UNCHANGED <<tables, removing, lost, executed>>
    /\ Strays
    /\ Send(r, Opened, None, None)

\* The same without a question.
OpenFromDashboard ==
    /\ ~page.mounted /\ activeId # None
    /\ activeId' = None
    /\ page' = Opened
    /\ Strays
    /\ UNCHANGED <<tables, request, removing, lost, executed>>

\* "Try again" on the error screen.
TryAgain ==
    /\ page.mounted /\ page.threadError /\ ~page.threadLoading
    /\ activeId = page.loaded
    /\ page' = Reacted([page EXCEPT !.loaded = None], activeId)
    /\ UNCHANGED <<tables, request, activeId, removing, history>>

\* "Remove": DELETE goes out, with the conversation open at this moment.
RemoveThread(c) ==
    /\ page.mounted
    /\ c \in Listed
    /\ removing = None
    /\ removing' = [conv |-> c, wasActive |-> (c = activeId)]
    /\ UNCHANGED <<tables, request, activeId, page, history>>

\* Its answer is here: the shell starts afresh if that one was open.
Removed ==
    /\ removing # None
    /\ archived' = archived \cup {removing.conv}
    /\ removing' = None
    /\ IF removing.wasActive
         THEN /\ Show(IF page.mounted THEN page ELSE Opened, None)
              /\ Strays
         ELSE UNCHANGED <<activeId, page, strayed>>
    /\ UNCHANGED <<opened, messages, pending, request, lost, executed>>

RemoveFails ==
    /\ removing # None
    /\ removing' = None
    /\ UNCHANGED <<tables, request, activeId, page, history>>

-----------------------------------------------------------------------------
(* The answers.                                                            *)

\* getMessages: order by created_at limit 200.  (The arrays of a process without a
\* database have no limit.)
Oldest(rows) == IF Len(rows) <= HistoryRows THEN rows ELSE SubSeq(rows, 1, HistoryRows)

\* GET /api/conversations/:id reads the rows.
FetchReads ==
    /\ page.fetching # None /\ ~page.arrived
    /\ page' = [page EXCEPT !.fetched = Oldest(messages[page.fetching]), !.arrived = TRUE]
    /\ UNCHANGED <<tables, request, activeId, removing, history>>

FetchArrives ==
    /\ page.fetching # None /\ page.arrived
    /\ page' = [page EXCEPT !.turns = page.fetched, !.loaded = page.fetching,
                            !.threadLoading = FALSE, !.fetching = None,
                            !.fetched = <<>>, !.arrived = FALSE]
    /\ UNCHANGED <<tables, request, activeId, removing, history>>

FetchFails ==
    /\ page.fetching # None /\ ~page.arrived
    /\ page' = [page EXCEPT !.turns = <<>>, !.loaded = page.fetching,
                            !.threadLoading = FALSE, !.threadError = TRUE,
                            !.fetching = None, !.fetched = <<>>, !.arrived = FALSE]
    /\ UNCHANGED <<tables, request, activeId, removing, history>>

\* The page that sent the request is still the one mounted.
Sender(r) == request[r].sender

Heard(r) == request' = [request EXCEPT ![r].waiting = FALSE, ![r].sender = FALSE]

\* Mutation of WithTurn: the page forgets it is no longer busy.
WithTurnBusy(p, row) == [p EXCEPT !.turns = Append(@, row)]

WithTurn(p, row) == [p EXCEPT !.turns = Append(@, row), !.busy = FALSE]

\* The response: send() appends the turn, and the shell opens its thread.
HearAnswer(r) ==
    /\ request[r].waiting /\ request[r].pc = "answered"
    /\ Heard(r)
    /\ LET row == Row(r, "assistant", request[r].card)
           c   == request[r].conv IN
         Show(IF Sender(r) THEN [WithTurn(page, row) EXCEPT !.loaded = c] ELSE page, c)
    /\ UNCHANGED <<tables, removing, history>>

\* An error response: the failure is shown and her words given back.
HearFailure(r) ==
    /\ request[r].waiting /\ request[r].pc \in {"failed", "dead"}
    /\ Heard(r)
    /\ page' = IF Sender(r) THEN WithTurn(page, Failure(r)) ELSE page
    /\ UNCHANGED <<tables, activeId, removing, history>>

\* The line breaks; the server goes on.
LineBreaks(r) ==
    /\ request[r].waiting
    /\ Heard(r)
    /\ page' = IF Sender(r) THEN WithTurn(page, Failure(r)) ELSE page
    /\ strayed' = TRUE
    /\ UNCHANGED <<tables, activeId, removing, lost, executed>>

-----------------------------------------------------------------------------
Serve(r) == \/ Receive(r) \/ Fail(r)
            \/ \E card \in BOOLEAN : Answer(r, card)

Hear(r) == HearAnswer(r) \/ HearFailure(r)

Fetch == FetchReads \/ FetchArrives \/ FetchFails

Next ==
    \/ \E r \in Requests : \/ Serve(r) \/ Refuse(r) \/ Die(r) \/ Hear(r) \/ LineBreaks(r)
                          \/ Ask(r) \/ Approve(r) \/ AskFromDashboard(r)
    \/ \E c \in Threads : Open(c) \/ RemoveThread(c)
    \/ StartNew \/ Leave \/ Return \/ OpenFromDashboard \/ TryAgain \/ Removed \/ RemoveFails
    \/ Fetch

Spec == Init /\ [][Next]_vars

\* The server goes on with what it received, or dies, and a response, or an
\* error, reaches the tab.  Nothing is assumed of the reader.
Fairness == /\ \A r \in Requests : WF_vars(Serve(r)) /\ WF_vars(Hear(r))
            /\ WF_vars(Fetch)

FairSpec == Spec /\ Fairness

-----------------------------------------------------------------------------
(* Properties                                                              *)

Rows == [of : Requests, by : {"user", "assistant"}, card : BOOLEAN]

\* Every variable holds a value of its kind; what is loading was asked for.
TypeOK ==
    /\ opened \subseteq Threads /\ archived \subseteq opened
    /\ messages \in [Threads -> Seq(Rows)]
    /\ pending \in [Threads -> Requests \cup {None}]
    /\ request \in
         [Requests -> [pc : {"unsent", "sent", "thinking", "answered", "failed", "dead"},
                       conv : Threads \cup {None}, yesTo : Requests \cup {None},
                       found : Requests \cup {None}, card : BOOLEAN, waiting : BOOLEAN, sender : BOOLEAN]]
    /\ activeId \in opened \cup {None}
    /\ page \in [mounted : BOOLEAN, loaded : opened \cup {None}, turns : Seq(Rows),
                 busy : BOOLEAN, threadLoading : BOOLEAN, threadError : BOOLEAN,
                 fetching : opened \cup {None}, fetched : Seq(Rows), arrived : BOOLEAN]
    /\ page.fetching # None => page.threadLoading /\ page.fetching = activeId
    /\ removing \in [conv : Threads, wasActive : BOOLEAN] \cup {None}
    /\ lost \subseteq Requests \X {"user", "assistant"}
    /\ executed \subseteq Requests \X Requests
    /\ strayed \in BOOLEAN

\* A row the server never stored.
Missing(row) == <<row.of, row.by>> \in lost

Here(row) == request[row.of].conv = activeId

\* What two lists of rows have in common comes in the same order, and once.
SameOrder(s, t) ==
    \A i, j \in DOMAIN s, k, l \in DOMAIN t :
        s[i] = t[k] /\ s[j] = t[l] => (i < j <=> k < l)

\* The rows left out are a block of them, after the HistoryRows oldest.
GapAfterOldest(rows, shown) ==
    \A j \in DOMAIN rows : rows[j] \notin shown =>
        /\ j > HistoryRows
        /\ \A i \in HistoryRows + 1 .. j : rows[i] \notin shown

\* A reader who waits for her answers sees, in the conversation that is open,
\* rows the server keeps of it, in their order, and questions that failed
\* before there was a conversation.  She sees all the rows as long as they are
\* no more than a load returns.  Of a longer conversation she sees the oldest
\* ones, and those that came after it was loaded: those in between, which were
\* the newest when it was loaded, are not shown (send, the effect that loads a
\* thread, the route's rows, the limit of getMessages).
ShownIsStored ==
    Readable /\ activeId # None /\ Waiting = {} /\ ~strayed =>
        /\ \A row \in Range(page.turns) :
              Here(row) /\ ~Missing(row) => row \in Range(messages[activeId])
        /\ GapAfterOldest(messages[activeId], Range(page.turns))
        /\ SameOrder(messages[activeId], page.turns)
        /\ \A row \in Range(page.turns) :
              Here(row) \/ request[row.of].pc \in {"failed", "dead"}

Stored(r, by) == \E c \in Threads : \E i \in 1 .. Len(messages[c]) :
                    messages[c][i].of = r /\ messages[c][i].by = by

\* No question stays in its thread with nothing after it: an answer or a
\* failed turn follows, unless its row was lost or the process died
\* (assistant.routes.ts, the catch around runAgent).
NothingUnanswered ==
    \A r \in Requests :
        Stored(r, "user") ~> \/ Stored(r, "assistant")
                            \/ <<r, "assistant">> \in lost

\* The effect has cancelled the load under way, because the page now names the
\* conversation it had loaded before, or that of an answer; nothing is left to
\* clear threadLoading, and LoadingScreen stays (Assistant.tsx:109,145,146,266).
Stuck == page.threadLoading /\ page.fetching = None

\* A reader who stays where she is gets the composer, or the error screen with
\* its "Try again", however the request under way and the loads end: send's
\* finally and the finally of the load see to it.  The exception is Stuck, out
\* of which only opening another conversation or view leads.
ComposerComesBack ==
    \A c \in Threads \cup {None} :
        <>[](page.mounted /\ activeId = c)
            => []<>((Readable /\ ~page.busy) \/ page.threadError \/ Stuck)

-----------------------------------------------------------------------------
(* What the documents say and the code does not do.                        *)

\* docs/MICROSOFT_GRAPH.md:48, "Pending actions are user-bound and
\* conversation-bound": a Yes pressed on the card of one conversation executes
\* nothing of another.
YesStaysInItsConversation ==
    \A e \in executed : request[request[e[1]].yesTo].conv = request[e[2]].conv

\* What send's and the load's finally are there for: no load leaves its screen
\* behind.
NeverStuck == ~Stuck
=============================================================================
