------------------------- MODULE ConversationsProofs ------------------------
(***************************************************************************)
(* Theorems about the conversations and the tab that shows them, for any   *)
(* finite number of messages sent and of conversations.                    *)
(*                                                                         *)
(* The proof has three layers.  Typed is the type invariant, with what the *)
(* tab keeps: what loads is what is open, and a new conversation finds an  *)
(* id.  Tables relates the rows of the server to the requests they come    *)
(* from: every row that is due is stored, once, in its own conversation,   *)
(* or known to be lost.  InStep is what a reader who went nowhere can rely *)
(* on: at most one answer is awaited, by the page that asked, and all of   *)
(* the conversation but that answer, and what a load leaves out, is on the  *)
(* page already.                                                           *)
(***************************************************************************)
EXTENDS Conversations, FiniteSetTheorems, TLAPS

-----------------------------------------------------------------------------
(* Types.                                                                  *)

Request == [pc : {"unsent", "sent", "thinking", "answered", "failed", "dead"},
            conv : Threads \cup {None}, yesTo : Requests \cup {None},
            found : Requests \cup {None}, card : BOOLEAN, waiting : BOOLEAN, sender : BOOLEAN]
Page == [mounted : BOOLEAN, loaded : opened \cup {None}, turns : Seq(Rows),
         busy : BOOLEAN, threadLoading : BOOLEAN, threadError : BOOLEAN,
         fetching : opened \cup {None}, fetched : Seq(Rows), arrived : BOOLEAN]

\* A page fits the conversation that is open: it loads that one or nothing, and
\* is at rest only with what it was told to show.
PageFits(p, c) ==
    /\ p.fetching # None => p.mounted /\ p.threadLoading /\ p.fetching = c
    /\ p.mounted /\ ~p.threadLoading => p.loaded = c

\* Questions on their way that will open a conversation.
Opening == {r \in Requests : request[r].pc = "sent" /\ request[r].conv = None}

Tab ==
    /\ PageFits(page, activeId)
    /\ removing # None => removing.conv \in opened
    /\ \A r \in Requests : request[r].conv \in opened \cup {None}
    /\ Cardinality(Opening) <= Cardinality(Threads \ opened)

Typed == TypeOK /\ Tab

LEMMA RowIsRow ==
    ASSUME NEW r \in Requests, NEW by \in {"user", "assistant"}, NEW card \in BOOLEAN
    PROVE  Row(r, by, card) \in Rows
BY DEF Row, Rows

LEMMA AppendRow ==
    ASSUME NEW s \in Seq(Rows), NEW row \in Rows
    PROVE  Append(s, row) \in Seq(Rows)
OBVIOUS

LEMMA OldestType ==
    ASSUME NEW s \in Seq(Rows)
    PROVE  Oldest(s) \in Seq(Rows)
BY HistoryAssumption DEF Oldest

LEMMA NoRows == <<>> \in Seq(Rows)
OBVIOUS

\* A page that has just been mounted, and one that is not.
LEMMA OpenedPage == Closed \in Page /\ Opened \in Page /\ ~Closed.mounted /\ Opened.mounted
                    /\ Opened.loaded = None /\ Opened.fetching = None /\ Closed.fetching = None
                    /\ Opened.turns = <<>> /\ ~Opened.threadLoading /\ ~Opened.threadError
BY NoRows DEF Closed, Opened, Page

\* The effect leaves a page that fits.
LEMMA ReactedFits ==
    ASSUME NEW p \in Page, NEW c \in opened \cup {None}, p.mounted
    PROVE  Reacted(p, c) \in Page /\ PageFits(Reacted(p, c), c)
<1>1. CASE c = p.loaded
  BY <1>1 DEF Reacted, Page, PageFits
<1>2. CASE c # p.loaded /\ c = None
  BY <1>2, NoRows DEF Reacted, Page, PageFits
<1>3. CASE c # p.loaded /\ c # None
  BY <1>3, NoRows DEF Reacted, Page, PageFits
<1> QED BY <1>1, <1>2, <1>3

\* What the shell shows fits.
LEMMA ShowFits ==
    ASSUME TypeOK, NEW p \in Page, NEW c \in opened \cup {None}, Show(p, c),
           p.mounted \/ p.fetching = None,
           c = activeId /\ p.loaded = page.loaded => PageFits(p, c)
    PROVE  activeId' = c /\ page' \in Page /\ PageFits(page', c)
<1>1. CASE p.mounted /\ <<c, p.loaded>> # <<activeId, page.loaded>>
  BY <1>1, ReactedFits DEF Show
<1>2. CASE ~p.mounted
  BY <1>2 DEF Show, PageFits
<1>3. CASE c = activeId /\ p.loaded = page.loaded
  BY <1>3 DEF Show, PageFits
<1> QED BY <1>1, <1>2, <1>3

LEMMA TypedPage == TypeOK => /\ page \in Page
                             /\ request \in [Requests -> Request]
                             /\ activeId \in opened \cup {None}
BY DEF TypeOK, Page, Request

\* A page of conversations that are open stays one when another is opened.
LEMMA PageGrows ==
    ASSUME opened \subseteq opened', NEW p \in Page
    PROVE  p \in Page'
BY DEF Page

LEMMA Finite == /\ IsFiniteSet(Opening) /\ Cardinality(Opening) \in Nat
                /\ IsFiniteSet(Threads \ opened) /\ Cardinality(Threads \ opened) \in Nat
<1>1. Opening \subseteq Requests /\ Threads \ opened \subseteq Threads
  BY DEF Opening
<1> QED BY <1>1, FiniteAssumption, FS_Subset, FS_CardinalityType

\* Nothing new is asked without a conversation.
LEMMA OpeningStays ==
    ASSUME Tab, opened' = opened, Opening' \subseteq Opening
    PROVE  Cardinality(Opening') <= Cardinality((Threads \ opened)')
<1>1. Cardinality(Opening') <= Cardinality(Opening) /\ Cardinality(Opening') \in Nat
  BY Finite, FS_Subset, FS_CardinalityType
<1> QED BY <1>1, Finite DEF Tab

-----------------------------------------------------------------------------
(* Every step keeps the types.                                              *)

LEMMA InitTyped == Init => Typed
<1> SUFFICES ASSUME Init PROVE Typed
  OBVIOUS
<1>1. Closed \in Page /\ PageFits(Closed, None) /\ Unsent \in Request
  BY OpenedPage DEF PageFits, Unsent, Request
<1>2. TypeOK
  <2>1. page \in Page /\ request \in [Requests -> Request]
    BY <1>1 DEF Init
  <2>2. page.fetching = None
    BY OpenedPage DEF Init
  <2>3. /\ opened \subseteq Threads /\ archived \subseteq opened
        /\ messages \in [Threads -> Seq(Rows)] /\ pending \in [Threads -> Requests \cup {None}]
        /\ activeId \in opened \cup {None} /\ removing \in {None}
        /\ lost \subseteq Requests \X {"user", "assistant"}
        /\ executed \subseteq Requests \X Requests /\ strayed \in BOOLEAN
    BY NoRows DEF Init
  <2> QED BY <2>1, <2>2, <2>3 DEF TypeOK, Page, Request
<1>3. Opening = {}
  BY DEF Init, Opening, Unsent
<1>4. Cardinality(Opening) <= Cardinality(Threads \ opened)
  BY <1>3, Finite, FS_EmptySet
<1> QED BY <1>1, <1>2, <1>4 DEF Typed, Tab, Init, Unsent

\* A row is stored or lost.
LEMMA AppendType ==
    ASSUME TypeOK, NEW c \in Threads, NEW r \in Requests, NEW by \in {"user", "assistant"},
           NEW card \in BOOLEAN, AppendMessage(c, Row(r, by, card))
    PROVE  /\ messages' \in [Threads -> Seq(Rows)]
           /\ lost' \subseteq Requests \X {"user", "assistant"}
<1>1. Row(r, by, card) \in Rows /\ Row(r, by, card).of = r /\ Row(r, by, card).by = by
  BY RowIsRow DEF Row
<1>2. CASE messages' = [messages EXCEPT ![c] = Append(@, Row(r, by, card))] /\ UNCHANGED lost
  BY <1>1, <1>2, AppendRow DEF TypeOK
<1>3. CASE lost' = lost \cup {<<r, by>>} /\ UNCHANGED messages
  BY <1>3 DEF TypeOK
<1> QED BY <1>1, <1>2, <1>3 DEF AppendMessage

\* There is an id for a conversation that has to be opened.
LEMMA FreshId ==
    ASSUME Typed, NEW r \in Requests, request[r].pc = "sent"
    PROVE  /\ ThreadOf(r) \in Threads
           /\ request[r].conv # None => ThreadOf(r) = request[r].conv /\ ThreadOf(r) \in opened
           /\ request[r].conv = None => ThreadOf(r) = Fresh /\ ThreadOf(r) \notin opened
<1>1. CASE request[r].conv # None
  BY <1>1 DEF Typed, Tab, TypeOK, ThreadOf
<1>2. CASE request[r].conv = None
  <2>1. r \in Opening
    BY <1>2 DEF Opening
  <2>2. Cardinality(Opening) # 0
    BY <2>1, Finite, FS_EmptySet
  <2>3. Cardinality(Threads \ opened) # 0
    BY <2>2, Finite DEF Typed, Tab
  <2>4. \E c \in Threads : c \notin opened
    BY <2>3, FS_EmptySet
  <2> QED BY <1>2, <2>4 DEF ThreadOf, Fresh
<1> QED BY <1>1, <1>2

\* A finite set without one of its elements.
LEMMA OneLess ==
    ASSUME NEW S, IsFiniteSet(S), NEW x \in S
    PROVE  Cardinality(S \ {x}) = Cardinality(S) - 1
BY FS_RemoveElement

\* A question that has arrived may have opened its conversation, none besides.
LEMMA OpenedForOne ==
    ASSUME Typed, NEW r \in Requests, request[r].pc = "sent", request'[r].pc # "sent",
           \A q \in Requests : q # r => request'[q] = request[q],
           opened' = opened \/ opened' = opened \cup {ThreadOf(r)}
    PROVE  Cardinality(Opening') <= Cardinality((Threads \ opened)')
<1> DEFINE c == ThreadOf(r)
<1>1. /\ c \in Threads /\ (opened' = opened \/ opened' = opened \cup {c})
      /\ request[r].conv # None => c \in opened
      /\ request[r].conv = None => c \notin opened
  BY FreshId
<1> HIDE DEF c
<1>2. Opening' = Opening \ {r}
  BY DEF Opening
<1>3. CASE opened' = opened
  BY <1>2, <1>3, OpeningStays DEF Typed
<1>4. CASE opened' # opened
  <2>1. c \in Threads \ opened /\ (Threads \ opened)' = (Threads \ opened) \ {c} /\ r \in Opening
    BY <1>1, <1>4 DEF Opening
  <2>2. Cardinality(Opening \ {r}) = Cardinality(Opening) - 1
    BY <2>1, Finite, OneLess
  <2>3. Cardinality((Threads \ opened) \ {c}) = Cardinality(Threads \ opened) - 1
    BY <2>1, Finite, OneLess
  <2>4. /\ Cardinality(Opening') = Cardinality(Opening) - 1
        /\ Cardinality((Threads \ opened)') = Cardinality(Threads \ opened) - 1
    BY <1>2, <2>1, <2>2, <2>3
  <2> QED BY <2>4, Finite DEF Typed, Tab
<1> QED BY <1>3, <1>4

\* The steps of the server, which the tab does not see.
LEMMA ReceiveTyped ==
    ASSUME Typed, NEW r \in Requests, Receive(r)
    PROVE  Typed'
<1> DEFINE c == ThreadOf(r)
<1>0. request[r].pc = "sent"
  BY DEF Receive
<1>1. /\ c \in Threads
      /\ request[r].conv # None => c = request[r].conv /\ c \in opened
      /\ request[r].conv = None => c \notin opened
  BY <1>0, FreshId
<1> HIDE DEF c
<1>2. /\ opened' = opened \cup {c}
      /\ request' = [request EXCEPT ![r].pc = "thinking", ![r].conv = c, ![r].found = pending[c]]
      /\ pending' = IF IsYes(r) THEN pending ELSE [pending EXCEPT ![c] = None]
      /\ AppendMessage(c, Question(r))
      /\ UNCHANGED <<archived, activeId, page, removing, executed, strayed>>
  BY DEF Receive, c
<1>3. /\ messages' \in [Threads -> Seq(Rows)]
      /\ lost' \subseteq Requests \X {"user", "assistant"}
  BY <1>1, <1>2, AppendType DEF Typed, Question
<1>4. request' \in [Requests -> Request]
  <2> DEFINE q == [request[r] EXCEPT !.pc = "thinking", !.conv = c, !.found = pending[c]]
  <2>1. request[r] \in Request /\ pending[c] \in Requests \cup {None}
    BY <1>1 DEF Typed, TypeOK, Request
  <2>2. q \in Request
    BY <1>1, <2>1 DEF Request
  <2>3. request' = [request EXCEPT ![r] = q]
    BY <1>2
  <2> QED BY <2>2, <2>3 DEF Typed, TypeOK, Request
<1>5. page' \in Page'
  BY <1>2, TypedPage, PageGrows DEF Typed
<1>6. TypeOK'
  BY <1>1, <1>2, <1>3, <1>4, <1>5 DEF Typed, TypeOK, Page, Request
<1>7. \A q \in Requests : request'[q].conv \in opened' \cup {None}
  BY <1>2 DEF Typed, Tab, TypeOK
<1>8. Cardinality(Opening') <= Cardinality((Threads \ opened)')
  <2>1. request'[r].pc # "sent" /\ \A q \in Requests : q # r => request'[q] = request[q]
    BY <1>2 DEF Typed, TypeOK
  <2> QED BY <1>0, <1>2, <2>1, OpenedForOne DEF c
<1>9. PageFits(page', activeId') /\ (removing' # None => removing'.conv \in opened')
  BY <1>2 DEF Typed, Tab, PageFits
<1> QED BY <1>6, <1>7, <1>8, <1>9 DEF Typed, Tab

\* What happens to the request after that leaves its conversation alone.
LEMMA ServedTyped ==
    ASSUME Typed, NEW r \in Requests,
           NEW pc \in {"answered", "failed", "dead"}, NEW card \in BOOLEAN,
           request[r].pc \in {"sent", "thinking"},
           request' = [request EXCEPT ![r] = [@ EXCEPT !.pc = pc, !.card = card]],
           messages' \in [Threads -> Seq(Rows)],
           lost' \subseteq Requests \X {"user", "assistant"},
           pending' \in [Threads -> Requests \cup {None}],
           executed' \subseteq Requests \X Requests,
           UNCHANGED <<opened, archived, activeId, page, removing, strayed>>
    PROVE  Typed'
<1>1. request' \in [Requests -> Request]
  BY DEF Typed, TypeOK, Request
<1>2. TypeOK'
  BY <1>1 DEF Typed, TypeOK, Page, Request
<1>3. Opening' \subseteq Opening
  BY DEF Opening, Typed, TypeOK
<1>4. Cardinality(Opening') <= Cardinality((Threads \ opened)')
  BY <1>3, OpeningStays DEF Typed
<1>5. \A q \in Requests : request'[q].conv = request[q].conv
  BY DEF Typed, TypeOK
<1> QED BY <1>2, <1>4, <1>5 DEF Typed, Tab, PageFits

LEMMA SameCard ==
    ASSUME Typed, NEW r \in Requests, NEW pc, request' = [request EXCEPT ![r].pc = pc]
    PROVE  /\ request' = [request EXCEPT ![r] = [@ EXCEPT !.pc = pc, !.card = request[r].card]]
           /\ request[r].card \in BOOLEAN
<1>1. request[r] \in Request
  BY DEF Typed, TypeOK, Request
<1>2. [request[r] EXCEPT !.pc = pc] = [request[r] EXCEPT !.pc = pc, !.card = request[r].card]
  BY <1>1 DEF Request
<1> QED BY <1>1, <1>2 DEF Request

\* A request that was received belongs to a conversation.
Belongs == \A r \in Requests :
    request[r].pc \in {"thinking", "answered"} => request[r].conv # None

LEMMA AnswerTyped ==
    ASSUME Typed, Belongs, NEW r \in Requests, NEW card \in BOOLEAN, Answer(r, card)
    PROVE  Typed'
<1>1. request[r].conv \in Threads
  BY DEF Answer, Belongs, Typed, TypeOK, Tab
<1>2. /\ messages' \in [Threads -> Seq(Rows)]
      /\ lost' \subseteq Requests \X {"user", "assistant"}
  BY <1>1, AppendType DEF Answer, Typed
<1>3. /\ pending' \in [Threads -> Requests \cup {None}]
      /\ executed' \subseteq Requests \X Requests
  BY <1>1 DEF Answer, Claims, Typed, TypeOK
<1>4. request' = [request EXCEPT ![r] = [@ EXCEPT !.pc = "answered", !.card = card]]
  BY DEF Answer
<1> QED BY <1>2, <1>3, <1>4, ServedTyped DEF Answer

LEMMA FailTyped ==
    ASSUME Typed, Belongs, NEW r \in Requests, Fail(r)
    PROVE  Typed'
<1>1. request[r].conv \in Threads
  BY DEF Fail, Belongs, Typed, TypeOK, Tab
<1>2. /\ messages' \in [Threads -> Seq(Rows)]
      /\ lost' \subseteq Requests \X {"user", "assistant"}
  BY <1>1, AppendType DEF Fail, Failure, Typed
<1>3. /\ pending' \in [Threads -> Requests \cup {None}]
      /\ executed' \subseteq Requests \X Requests
  BY DEF Fail, Typed, TypeOK
<1> QED BY <1>2, <1>3, SameCard, ServedTyped DEF Fail

LEMMA StopsTyped ==
    ASSUME Typed, NEW r \in Requests, NEW pc \in {"failed", "dead"},
           request[r].pc \in {"sent", "thinking"}, Stops(r, pc)
    PROVE  Typed'
<1>1. /\ messages' \in [Threads -> Seq(Rows)]
      /\ pending' \in [Threads -> Requests \cup {None}]
      /\ executed' \subseteq Requests \X Requests
  BY DEF Stops, Typed, TypeOK
<1>2. lost' \subseteq Requests \X {"user", "assistant"}
  BY DEF Stops, Typed, TypeOK
<1>3. CASE opened' = opened
  BY <1>1, <1>2, <1>3, SameCard, ServedTyped DEF Stops
<1>4. CASE opened' # opened
  <2>1. request[r].pc = "sent" /\ opened' = opened \cup {ThreadOf(r)}
    BY <1>4 DEF Stops
  <2>2. opened' \subseteq Threads /\ opened \subseteq opened'
    BY <2>1, FreshId DEF Typed, TypeOK
  <2>3. /\ request' = [request EXCEPT ![r].pc = pc]
        /\ UNCHANGED <<archived, activeId, page, removing, strayed>>
    BY DEF Stops
  <2>4. /\ request' \in [Requests -> Request] /\ request'[r].pc = pc
        /\ \A q \in Requests : /\ request'[q].conv = request[q].conv
                               /\ q # r => request'[q] = request[q]
    BY <2>3 DEF Typed, TypeOK, Request
  <2>5. page' \in Page'
    BY <2>2, <2>3, TypedPage, PageGrows DEF Typed
  <2>6. TypeOK'
    BY <1>1, <1>2, <2>2, <2>3, <2>4, <2>5 DEF Typed, TypeOK, Page, Request
  <2>7. Cardinality(Opening') <= Cardinality((Threads \ opened)')
    BY <2>1, <2>4, OpenedForOne
  <2> QED BY <2>2, <2>3, <2>4, <2>6, <2>7 DEF Typed, Tab, PageFits
<1> QED BY <1>3, <1>4

\* A step of the tab leaves the tables alone; at most a conversation is removed.
LEMMA TabTyped ==
    ASSUME Typed, UNCHANGED <<opened, messages, pending, lost, executed>>,
           archived' \subseteq opened,
           request' \in [Requests -> Request],
           \A q \in Requests : request'[q].conv \in opened \cup {None},
           Cardinality(Opening') <= Cardinality((Threads \ opened)'),
           activeId' \in opened \cup {None}, page' \in Page, PageFits(page', activeId'),
           removing' \in [conv : opened, wasActive : BOOLEAN] \cup {None},
           strayed' \in BOOLEAN
    PROVE  Typed'
<1>1. TypeOK'
  BY DEF Typed, TypeOK, Page, Request, PageFits
<1>2. removing' # None => removing'.conv \in opened'
  OBVIOUS
<1> QED BY <1>1, <1>2 DEF Typed, Tab, PageFits

LEMMA RequestsStay ==
    ASSUME Typed,
           request' \in [Requests -> Request],
           \A q \in Requests : request'[q].pc = request[q].pc /\ request'[q].conv = request[q].conv,
           opened' = opened
    PROVE  /\ \A q \in Requests : request'[q].conv \in opened \cup {None}
           /\ Cardinality(Opening') <= Cardinality((Threads \ opened)')
<1>1. Opening' \subseteq Opening
  BY DEF Opening
<1> QED BY <1>1, OpeningStays DEF Typed, Tab

\* What Typed says of the single variables.
LEMMA TypedParts ==
    Typed => /\ removing \in [conv : opened, wasActive : BOOLEAN] \cup {None}
             /\ archived \subseteq opened /\ strayed \in BOOLEAN /\ page \in Page
             /\ request \in [Requests -> Request] /\ activeId \in opened \cup {None}
             /\ PageFits(page, activeId)
BY DEF Typed, TypeOK, Tab, Page, Request

\* A question sent is counted until it has its conversation.
LEMMA SendTyped ==
    ASSUME Typed, NEW r \in Requests, NEW p \in Page, NEW c \in opened \cup {None},
           NEW yesTo \in Requests \cup {None}, Send(r, p, c, yesTo),
           PageFits(p, activeId'), activeId' \in opened \cup {None}, strayed' \in BOOLEAN,
           UNCHANGED <<tables, removing, lost, executed>>
    PROVE  Typed'
<1> DEFINE q == [pc |-> "sent", conv |-> c, yesTo |-> yesTo, found |-> None,
                 card |-> FALSE, waiting |-> TRUE, sender |-> TRUE]
<1>1. request' = [request EXCEPT ![r] = q] /\ q \in Request
  BY DEF Send, Request, Typed, TypeOK
<1>2. request' \in [Requests -> Request]
  BY <1>1, TypedParts
<1>3. \A b \in Requests : request'[b].conv \in opened \cup {None}
  BY <1>1, TypedParts DEF Typed, Tab
<1>4. Question(r) \in Rows
  BY RowIsRow DEF Question
<1>5. page' = [p EXCEPT !.turns = Append(@, Question(r)), !.busy = TRUE]
  BY DEF Send
<1>6. Append(p.turns, Question(r)) \in Seq(Rows)
  BY <1>4, AppendRow DEF Page
<1>7. page' \in Page /\ PageFits(page', activeId')
  BY <1>5, <1>6 DEF Page, PageFits
<1>8. Cardinality(Opening') <= Cardinality((Threads \ opened)')
  <2>0. opened' = opened
    BY DEF tables
  <2>1. CASE c # None
    <3>1. Opening' \subseteq Opening
      BY <1>1, <2>1, TypedParts DEF Opening
    <3> QED BY <2>0, <3>1, OpeningStays DEF Typed
  <2>2. CASE c = None
    <3>1. Opening' \subseteq Opening \cup {r}
      BY <1>1, TypedParts DEF Opening
    <3>2. IsFiniteSet(Opening \cup {r}) /\ Cardinality(Opening \cup {r}) <= Cardinality(Opening) + 1
      <4>1. /\ IsFiniteSet(Opening \cup {r})
            /\ Cardinality(Opening \cup {r}) =
                 IF r \in Opening THEN Cardinality(Opening) ELSE Cardinality(Opening) + 1
        BY Finite, FS_AddElement
      <4> QED BY <4>1, Finite
    <3>3. Cardinality(Opening') <= Cardinality(Opening \cup {r})
          /\ Cardinality(Opening') \in Nat /\ Cardinality(Opening \cup {r}) \in Nat
      BY <3>1, <3>2, FS_Subset, FS_CardinalityType
    <3>4. Cardinality(Opening) < Cardinality(Threads \ opened)
      BY <2>2 DEF Send, ThreadLeft, Opening
    <3> QED BY <2>0, <3>2, <3>3, <3>4, Finite
  <2> QED BY <2>1, <2>2
<1> QED BY <1>2, <1>3, <1>7, <1>8, TypedParts, TabTyped DEF tables

\* Turns are rows.
LEMMA ShownRow ==
    ASSUME Typed, NEW i \in 1 .. Len(page.turns)
    PROVE  page.turns[i].of \in Requests
<1>1. page.turns \in Seq(Rows)
  BY DEF Typed, TypeOK
<1>2. page.turns[i] \in Rows
  BY <1>1
<1> QED BY <1>2 DEF Rows

LEMMA AskTyped == ASSUME Typed, NEW r \in Requests, Ask(r) PROVE Typed'
BY SendTyped, TypedParts DEF Ask, history

LEMMA ApproveTyped == ASSUME Typed, NEW r \in Requests, Approve(r) PROVE Typed'
<1>1. PICK i \in 1 .. Len(page.turns) : Send(r, page, activeId, page.turns[i].of)
  BY DEF Approve
<1> QED BY <1>1, ShownRow, SendTyped, TypedParts DEF Approve, history

LEMMA AskFromDashboardTyped == ASSUME Typed, NEW r \in Requests, AskFromDashboard(r) PROVE Typed'
<1>1. Opened \in Page /\ PageFits(Opened, None)
  BY OpenedPage DEF PageFits
<1>2. strayed' \in BOOLEAN
  BY TypedParts DEF AskFromDashboard, Strays
<1> QED BY <1>1, <1>2, SendTyped DEF AskFromDashboard

\* Another conversation is shown.
LEMMA ShowTyped ==
    ASSUME Typed, NEW p \in Page, NEW c \in opened \cup {None}, Show(p, c),
           p.mounted \/ p.fetching = None,
           c = activeId /\ p.loaded = page.loaded => PageFits(p, c),
           UNCHANGED <<opened, messages, pending, lost, executed>>,
           archived' \subseteq opened,
           request' \in [Requests -> Request],
           \A q \in Requests : request'[q].pc = request[q].pc /\ request'[q].conv = request[q].conv,
           removing' \in [conv : opened, wasActive : BOOLEAN] \cup {None},
           strayed' \in BOOLEAN
    PROVE  Typed'
<1>1. activeId' = c /\ page' \in Page /\ PageFits(page', c)
  BY ShowFits DEF Typed
<1> QED BY <1>1, RequestsStay, TabTyped

LEMMA OpenTyped == ASSUME Typed, NEW c \in Threads, Open(c) PROVE Typed'
<1>1. c \in opened /\ c # activeId
  BY DEF Open, Listed
<1> QED BY <1>1, ShowTyped, TypedParts DEF Open, Strays, tables

LEMMA StartNewTyped == ASSUME Typed, StartNew PROVE Typed'
BY ShowTyped, TypedParts DEF StartNew, Strays, tables

LEMMA RemovedTyped == ASSUME Typed, Removed PROVE Typed'
<1> DEFINE p == IF page.mounted THEN page ELSE Opened
<1>1. removing.conv \in opened /\ archived' \subseteq opened /\ removing' = None
  BY TypedParts DEF Removed, Typed, Tab
<1>2. p \in Page /\ p.mounted
  BY TypedParts, OpenedPage
<1>3. None = activeId /\ p.loaded = page.loaded => PageFits(p, None)
  BY TypedParts, OpenedPage DEF PageFits
<1>4. CASE removing.wasActive
  <2>1. Show(p, None) /\ Strays
    BY <1>4 DEF Removed
  <2> QED BY <1>1, <1>2, <1>3, <2>1, ShowTyped, TypedParts DEF Removed, Strays
<1>5. CASE ~removing.wasActive
  BY <1>1, <1>5, RequestsStay, TabTyped, TypedParts DEF Removed
<1> QED BY <1>4, <1>5

\* The page itself moves.
LEMMA PageTyped ==
    ASSUME Typed, page' \in Page, PageFits(page', activeId'), activeId' \in opened \cup {None},
           strayed' \in BOOLEAN, UNCHANGED <<tables, removing, lost, executed>>,
           request' \in [Requests -> Request],
           \A q \in Requests : request'[q].pc = request[q].pc /\ request'[q].conv = request[q].conv
    PROVE  Typed'
BY RequestsStay, TabTyped, TypedParts DEF tables

LEMMA LeaveTyped == ASSUME Typed, Leave PROVE Typed'
<1>1. page' \in Page /\ PageFits(page', activeId')
  BY OpenedPage DEF Leave, PageFits
<1>2. \A q \in Requests : [request[q] EXCEPT !.sender = FALSE] \in Request
  BY TypedParts DEF Request
<1>3. request' \in [Requests -> Request]
  BY <1>2 DEF Leave
<1>4. \A q \in Requests : request'[q].pc = request[q].pc /\ request'[q].conv = request[q].conv
  BY TypedParts DEF Leave, Request
<1> QED BY <1>1, <1>3, <1>4, PageTyped, TypedParts DEF Leave, Strays

LEMMA ReturnTyped == ASSUME Typed, Return PROVE Typed'
<1>1. page' \in Page /\ PageFits(page', activeId')
  BY OpenedPage, ReactedFits, TypedParts DEF Return
<1> QED BY <1>1, PageTyped, TypedParts DEF Return, history

LEMMA OpenFromDashboardTyped == ASSUME Typed, OpenFromDashboard PROVE Typed'
<1>1. page' \in Page /\ PageFits(page', activeId')
  BY OpenedPage DEF OpenFromDashboard, PageFits
<1> QED BY <1>1, PageTyped, TypedParts DEF OpenFromDashboard, Strays

LEMMA TryAgainTyped == ASSUME Typed, TryAgain PROVE Typed'
<1>1. [page EXCEPT !.loaded = None] \in Page /\ [page EXCEPT !.loaded = None].mounted
  BY TypedParts DEF TryAgain, Page
<1>2. page' \in Page /\ PageFits(page', activeId')
  BY <1>1, ReactedFits, TypedParts DEF TryAgain
<1> QED BY <1>2, PageTyped, TypedParts DEF TryAgain, history

LEMMA FetchTyped == ASSUME Typed, FetchReads \/ FetchArrives \/ FetchFails PROVE Typed'
<1>0. page.fetching # None => page.fetching = activeId /\ page.mounted /\ page.threadLoading
  BY TypedParts DEF PageFits
<1>1. CASE FetchReads
  <2>0. messages[page.fetching] \in Seq(Rows)
    BY <1>0, <1>1 DEF FetchReads, Typed, TypeOK
  <2>1. Oldest(messages[page.fetching]) \in Seq(Rows)
    BY <2>0, OldestType
  <2>2. page' \in Page /\ PageFits(page', activeId')
    BY <1>0, <1>1, <2>1, TypedParts DEF FetchReads, Page, PageFits
  <2> QED BY <1>1, <2>2, PageTyped, TypedParts DEF FetchReads, history
<1>2. CASE FetchArrives
  <2>2. page' \in Page /\ PageFits(page', activeId')
    BY <1>0, <1>2, NoRows, TypedParts DEF FetchArrives, Page, PageFits
  <2> QED BY <1>2, <2>2, PageTyped, TypedParts DEF FetchArrives, history
<1>3. CASE FetchFails
  <2>2. page' \in Page /\ PageFits(page', activeId')
    BY <1>0, <1>3, NoRows, TypedParts DEF FetchFails, Page, PageFits
  <2> QED BY <1>3, <2>2, PageTyped, TypedParts DEF FetchFails, history
<1> QED BY <1>1, <1>2, <1>3

\* An answer that is heard changes what is waited for, and nothing else.
LEMMA HeardType ==
    ASSUME Typed, NEW r \in Requests, Heard(r)
    PROVE  /\ request' \in [Requests -> Request]
           /\ \A q \in Requests : request'[q].pc = request[q].pc /\ request'[q].conv = request[q].conv
           /\ \A q \in Requests : request'[q].card = request[q].card
           /\ Waiting' = Waiting \ {r}
<1> DEFINE a == [request[r] EXCEPT !.waiting = FALSE, !.sender = FALSE]
<1>1. request' = [request EXCEPT ![r] = a]
  BY DEF Heard
<1>2. a \in Request /\ a.pc = request[r].pc /\ a.conv = request[r].conv /\ a.card = request[r].card
      /\ a.waiting = FALSE
  BY TypedParts DEF Request
<1>3. request' \in [Requests -> Request]
  BY <1>1, <1>2, TypedParts
<1> QED BY <1>1, <1>2, <1>3, TypedParts DEF Waiting

LEMMA WithTurnType ==
    ASSUME NEW p \in Page, NEW row \in Rows, NEW c, PageFits(p, c)
    PROVE  WithTurn(p, row) \in Page /\ PageFits(WithTurn(p, row), c)
<1>1. Append(p.turns, row) \in Seq(Rows)
  BY AppendRow DEF Page
<1> QED BY <1>1 DEF WithTurn, Page, PageFits

LEMMA HearAnswerTyped ==
    ASSUME Typed, Belongs, NEW r \in Requests, HearAnswer(r)
    PROVE  Typed'
<1> DEFINE row == Row(r, "assistant", request[r].card)
           c == request[r].conv
           p == IF Sender(r) THEN [WithTurn(page, row) EXCEPT !.loaded = c] ELSE page
<1>1. c \in opened
  BY TypedParts DEF HearAnswer, Belongs, Typed, Tab
<1>2. row \in Rows
  BY RowIsRow, TypedParts DEF Request
<1>3. WithTurn(page, row) \in Page /\ PageFits(WithTurn(page, row), activeId)
  BY <1>2, WithTurnType, TypedParts
<1>4. p \in Page /\ (p.mounted \/ p.fetching = None)
  BY <1>1, <1>3, TypedParts DEF Page, PageFits
<1>5. c = activeId /\ p.loaded = page.loaded => PageFits(p, c)
  BY <1>1, <1>3, TypedParts DEF Page, PageFits
<1>6. Show(p, c)
  BY DEF HearAnswer
<1> HIDE DEF p, c, row
<1>7. Heard(r) /\ UNCHANGED <<tables, removing, history>>
  BY DEF HearAnswer
<1> QED BY <1>1, <1>4, <1>5, <1>6, <1>7, HeardType, ShowTyped, TypedParts DEF tables, history

LEMMA HearFailureTyped ==
    ASSUME Typed, NEW r \in Requests, HearFailure(r) \/ LineBreaks(r)
    PROVE  Typed'
<1>1. Failure(r) \in Rows
  BY RowIsRow DEF Failure
<1>2. page' \in Page /\ PageFits(page', activeId)
  BY <1>1, WithTurnType, TypedParts DEF HearFailure, LineBreaks
<1>3. Heard(r) /\ UNCHANGED <<tables, activeId, removing, lost, executed>> /\ strayed' \in BOOLEAN
  BY TypedParts DEF HearFailure, LineBreaks, history
<1> QED BY <1>2, <1>3, HeardType, PageTyped, TypedParts

LEMMA RemoveTyped ==
    ASSUME Typed, RemoveFails \/ \E c \in Threads : RemoveThread(c)
    PROVE  Typed'
<1>1. removing' \in [conv : opened, wasActive : BOOLEAN] \cup {None}
  <2>1. CASE RemoveFails
    BY <2>1 DEF RemoveFails
  <2>2. ASSUME NEW c \in Threads, RemoveThread(c)
        PROVE  removing' \in [conv : opened, wasActive : BOOLEAN]
    <3> DEFINE here == (c = activeId)
    <3>1. here \in BOOLEAN
      OBVIOUS
    <3>2. c \in opened /\ removing' = [conv |-> c, wasActive |-> here]
      BY <2>2 DEF RemoveThread, Listed
    <3> HIDE DEF here
    <3> QED BY <3>1, <3>2
  <2> QED BY <2>1, <2>2
<1>2. UNCHANGED <<tables, request, activeId, page, history>>
  BY DEF RemoveFails, RemoveThread
<1> QED BY <1>1, <1>2, RequestsStay, TabTyped, TypedParts DEF tables, history

\* Every step keeps the types.
LEMMA TypedStep ==
    ASSUME Typed, Belongs, [Next]_vars
    PROVE  Typed'
<1>1. CASE UNCHANGED vars
  BY <1>1, RequestsStay, TabTyped, TypedParts DEF vars, tables, history
<1>2. CASE Next
  BY <1>2, ReceiveTyped, AnswerTyped, FailTyped, StopsTyped, AskTyped, ApproveTyped,
     AskFromDashboardTyped, OpenTyped, StartNewTyped, RemovedTyped, LeaveTyped, ReturnTyped,
     OpenFromDashboardTyped, TryAgainTyped, FetchTyped, HearAnswerTyped, HearFailureTyped,
     RemoveTyped
  DEF Next, Serve, Refuse, Die, Hear, Fetch
<1> QED BY <1>1, <1>2

-----------------------------------------------------------------------------
(* Lists of rows.                                                          *)

\* No row twice.
Once(s) == \A i, j \in DOMAIN s : s[i] = s[j] => i = j

\* A row at the end of a list.
LEMMA Longer ==
    ASSUME NEW s \in Seq(Rows), NEW row \in Rows
    PROVE  LET t == Append(s, row) IN
           /\ Len(s) \in Nat /\ DOMAIN s = 1 .. Len(s) /\ DOMAIN t = 1 .. Len(s) + 1
           /\ Len(t) = Len(s) + 1
           /\ \A i \in 1 .. Len(s) : t[i] = s[i] /\ t[i] \in Rows
           /\ t[Len(s) + 1] = row
           /\ Range(t) = Range(s) \cup {row}
           /\ t \in Seq(Rows)
<1> DEFINE t == Append(s, row)
<1>1. /\ Len(s) \in Nat /\ DOMAIN s = 1 .. Len(s) /\ DOMAIN t = 1 .. Len(s) + 1
      /\ Len(t) = Len(s) + 1 /\ t \in Seq(Rows)
  OBVIOUS
<1>2. \A i \in 1 .. Len(s) : t[i] = s[i] /\ t[i] \in Rows
  OBVIOUS
<1>3. t[Len(s) + 1] = row
  OBVIOUS
<1> HIDE DEF t
<1>4. Range(t) = Range(s) \cup {row}
  BY <1>1, <1>2, <1>3 DEF Range
<1> QED BY <1>1, <1>2, <1>3, <1>4 DEF t

\* A row that is new to a list is there once.
LEMMA OnceLonger ==
    ASSUME NEW s \in Seq(Rows), NEW row \in Rows, Once(s), row \notin Range(s)
    PROVE  Once(Append(s, row))
<1> DEFINE t == Append(s, row)
<1>1. /\ Len(s) \in Nat /\ DOMAIN s = 1 .. Len(s) /\ DOMAIN t = 1 .. Len(s) + 1
      /\ \A i \in 1 .. Len(s) : t[i] = s[i]
      /\ t[Len(s) + 1] = row
  BY Longer
<1> HIDE DEF t
<1>2. \A i \in 1 .. Len(s) : t[i] # row
  BY <1>1 DEF Range
<1>3. ASSUME NEW i \in DOMAIN t, NEW j \in DOMAIN t, t[i] = t[j] PROVE i = j
  <2>1. CASE i \in 1 .. Len(s) /\ j \in 1 .. Len(s)
    BY <1>1, <1>3, <2>1 DEF Once
  <2>2. CASE i = Len(s) + 1 \/ j = Len(s) + 1
    BY <1>1, <1>2, <1>3, <2>2
  <2> QED BY <1>1, <2>1, <2>2
<1>4. Once(t)
  BY <1>3 DEF Once
<1> QED BY <1>4 DEF t

LEMMA SameSelf == ASSUME NEW s, Once(s) PROVE SameOrder(s, s)
BY DEF Once, SameOrder

LEMMA SameBack == ASSUME NEW s, NEW t, SameOrder(s, t) PROVE SameOrder(t, s)
BY DEF SameOrder

\* A row comes to one list: in the other nothing in common follows it.
LEMMA SameLonger ==
    ASSUME NEW s \in Seq(Rows), NEW t \in Seq(Rows), NEW row \in Rows,
           SameOrder(s, t), row \notin Range(s),
           \A l, m \in DOMAIN t : t[l] = row /\ l < m => t[m] \notin Range(s) \cup {row}
    PROVE  SameOrder(Append(s, row), t)
<1> DEFINE a == Append(s, row)
<1>1. /\ Len(s) \in Nat /\ DOMAIN s = 1 .. Len(s) /\ DOMAIN a = 1 .. Len(s) + 1
      /\ \A i \in 1 .. Len(s) : a[i] = s[i]
      /\ a[Len(s) + 1] = row
  BY Longer
<1>2. DOMAIN t \subseteq Nat
  OBVIOUS
<1> HIDE DEF a
<1>3. ASSUME NEW i \in DOMAIN a, NEW j \in DOMAIN a, NEW k \in DOMAIN t, NEW l \in DOMAIN t,
             a[i] = t[k], a[j] = t[l]
      PROVE  i < j <=> k < l
  <2>1. CASE i \in 1 .. Len(s) /\ j \in 1 .. Len(s)
    BY <1>1, <1>3, <2>1 DEF SameOrder
  <2>2. CASE i = Len(s) + 1 /\ j = Len(s) + 1
    <3>1. t[k] = row /\ t[l] = row
      BY <1>1, <1>3, <2>2
    <3>2. ~(k < l)
      BY <3>1
    <3> QED BY <1>1, <2>2, <3>2
  <2>3. CASE i \in 1 .. Len(s) /\ j = Len(s) + 1
    <3>1. t[k] = s[i] /\ t[l] = row /\ s[i] \in Range(s)
      BY <1>1, <1>3, <2>3 DEF Range
    <3>2. k # l /\ ~(l < k)
      BY <3>1
    <3> QED BY <1>1, <1>2, <2>3, <3>2
  <2>4. CASE i = Len(s) + 1 /\ j \in 1 .. Len(s)
    <3>1. t[l] = s[j] /\ t[k] = row /\ s[j] \in Range(s)
      BY <1>1, <1>3, <2>4 DEF Range
    <3>2. ~(k < l)
      BY <3>1
    <3> QED BY <1>1, <1>2, <2>4, <3>2
  <2> QED BY <1>1, <2>1, <2>2, <2>3, <2>4
<1>4. SameOrder(a, t)
  BY <1>3 DEF SameOrder
<1> QED BY <1>4 DEF a

\* What a load returns of a list of rows.
LEMMA OldestRows ==
    ASSUME NEW s \in Seq(Rows)
    PROVE  /\ Oldest(s) \in Seq(Rows) /\ Range(Oldest(s)) \subseteq Range(s)
           /\ DOMAIN Oldest(s) \subseteq DOMAIN s
           /\ \A i \in DOMAIN Oldest(s) : Oldest(s)[i] = s[i]
           /\ \A i \in DOMAIN s : i <= HistoryRows => i \in DOMAIN Oldest(s)
           /\ Oldest(s) = s \/ \A i \in DOMAIN Oldest(s) : i <= HistoryRows
<1>1. CASE Len(s) <= HistoryRows
  BY <1>1 DEF Oldest
<1>2. CASE ~(Len(s) <= HistoryRows)
  <2> DEFINE o == SubSeq(s, 1, HistoryRows)
  <2>1. Len(s) \in Nat /\ HistoryRows \in Nat /\ DOMAIN s = 1 .. Len(s)
    BY HistoryAssumption
  <2>2. o \in Seq(Rows) /\ Len(o) = HistoryRows /\ DOMAIN o = 1 .. HistoryRows
        /\ \A i \in 1 .. HistoryRows : o[i] = s[i]
    BY <1>2, <2>1
  <2>3. Oldest(s) = o
    BY <1>2 DEF Oldest
  <2> HIDE DEF o
  <2>4. DOMAIN o \subseteq DOMAIN s
    BY <1>2, <2>1, <2>2
  <2> QED BY <2>1, <2>2, <2>3, <2>4 DEF Range
<1> QED BY <1>1, <1>2

LEMMA OldestShown ==
    ASSUME NEW s \in Seq(Rows), Once(s)
    PROVE  Once(Oldest(s)) /\ SameOrder(s, Oldest(s)) /\ GapAfterOldest(s, Range(Oldest(s)))
<1> DEFINE o == Oldest(s)
<1>1. /\ DOMAIN o \subseteq DOMAIN s /\ \A i \in DOMAIN o : o[i] = s[i]
      /\ \A i \in DOMAIN s : i <= HistoryRows => i \in DOMAIN o
      /\ o = s \/ \A i \in DOMAIN o : i <= HistoryRows
  BY OldestRows
<1>2. DOMAIN s = 1 .. Len(s) /\ Len(s) \in Nat /\ HistoryRows \in Nat
  BY HistoryAssumption
<1> HIDE DEF o
<1>3. Once(o) /\ SameOrder(s, o)
  BY <1>1 DEF Once, SameOrder
<1>4. \A i \in DOMAIN s : s[i] \in Range(o) <=> i \in DOMAIN o
  BY <1>1 DEF Once, Range
<1>5. GapAfterOldest(s, Range(o))
  BY <1>1, <1>2, <1>4 DEF GapAfterOldest
<1> QED BY <1>3, <1>5 DEF o

\* What matters of the rows shown is which of the list they are.
LEMMA GapSame ==
    ASSUME NEW s \in Seq(Rows), NEW S, NEW T, \A x \in Range(s) : x \in S <=> x \in T,
           GapAfterOldest(s, S)
    PROVE  GapAfterOldest(s, T)
<1>1. DOMAIN s = 1 .. Len(s) /\ Len(s) \in Nat /\ HistoryRows \in Nat
  BY HistoryAssumption
<1>2. \A i \in DOMAIN s : s[i] \in S <=> s[i] \in T
  BY DEF Range
<1> QED BY <1>1, <1>2 DEF GapAfterOldest

LEMMA GapLonger ==
    ASSUME NEW s \in Seq(Rows), NEW row \in Rows, NEW S, NEW T, row \in T,
           \A x \in Range(s) : x \in S <=> x \in T, GapAfterOldest(s, S)
    PROVE  GapAfterOldest(Append(s, row), T)
<1> DEFINE a == Append(s, row)
<1>1. /\ DOMAIN s = 1 .. Len(s) /\ Len(s) \in Nat /\ DOMAIN a = 1 .. Len(s) + 1
      /\ \A i \in 1 .. Len(s) : a[i] = s[i]
      /\ a[Len(s) + 1] = row
  BY Longer
<1> HIDE DEF a
<1>2. GapAfterOldest(s, T)
  BY GapSame
<1>3. HistoryRows \in Nat
  BY HistoryAssumption
<1>4. ASSUME NEW j \in DOMAIN a, a[j] \notin T
      PROVE  j > HistoryRows /\ \A i \in HistoryRows + 1 .. j : a[i] \notin T
  <2>1. j \in DOMAIN s /\ s[j] \notin T
    BY <1>1, <1>4
  <2>2. j > HistoryRows /\ \A i \in HistoryRows + 1 .. j : s[i] \notin T
    BY <1>2, <2>1 DEF GapAfterOldest
  <2> QED BY <1>1, <1>3, <2>1, <2>2
<1>5. GapAfterOldest(a, T)
  BY <1>4 DEF GapAfterOldest
<1> QED BY <1>5 DEF a

\* The rows of a list are rows.
LEMMA RowIn ==
    ASSUME NEW s \in Seq(Rows), NEW row \in Range(s)
    PROVE  row \in Rows /\ row.of \in Requests /\ row.by \in {"user", "assistant"}
<1>1. row \in Rows
  BY DEF Range
<1> QED BY <1>1 DEF Rows

-----------------------------------------------------------------------------
(* The rows of the server and the requests they belong to.                 *)

Over == {"answered", "failed", "dead"}

\* The row of a request, of hers or of the assistant.
RowOf(r, by) == Row(r, by, IF by = "assistant" THEN request[r].card ELSE FALSE)

RequestFits(r) ==
    /\ request[r].pc \in {"thinking", "answered"} => request[r].conv # None
    /\ request[r].pc = "unsent" => ~request[r].waiting
    /\ request[r].card => request[r].pc = "answered"
    /\ request[r].pc \in {"unsent", "sent"} => <<r, "user">> \notin lost
    /\ <<r, "assistant">> \in lost => request[r].pc \in Over

IsStored(r, by) == /\ request[r].conv # None
                   /\ RowOf(r, by) \in Range(messages[request[r].conv])

\* A row that is due is stored, or known to be lost.
NothingGoes(r) ==
    /\ request[r].pc \in {"thinking"} \cup Over => IsStored(r, "user") \/ <<r, "user">> \in lost
    /\ request[r].pc \in Over => IsStored(r, "assistant") \/ <<r, "assistant">> \in lost

\* A row of conversation c is that of a request of c, and not lost.
RowFits(row, c) ==
    /\ row = RowOf(row.of, row.by) /\ request[row.of].conv = c
    /\ request[row.of].pc \notin {"unsent", "sent"}
    /\ row.by = "assistant" => request[row.of].pc \in {"answered", "failed"}
    /\ <<row.of, row.by>> \notin lost

RequestsFit == \A r \in Requests : RequestFits(r) /\ NothingGoes(r)
RowsFit     == \A c \in Threads : /\ Once(messages[c])
                                  /\ \A row \in Range(messages[c]) : RowFits(row, c)
Tables      == RequestsFit /\ RowsFit

LEMMA TablesBelong == Tables => Belongs
BY DEF Tables, RequestsFit, RequestFits, Belongs

LEMMA InitTables == Init => Tables
<1> SUFFICES ASSUME Init PROVE Tables
  OBVIOUS
<1>1. RequestsFit
  BY DEF Init, RequestsFit, RequestFits, NothingGoes, Unsent, Over
<1>2. RowsFit
  BY DEF Init, RowsFit, Once, Range
<1> QED BY <1>1, <1>2 DEF Tables

LEMMA StoredRow ==
    ASSUME Typed, NEW c \in Threads, NEW row \in Range(messages[c])
    PROVE  row \in Rows /\ row.of \in Requests /\ row.by \in {"user", "assistant"}
<1>1. messages[c] \in Seq(Rows)
  BY DEF Typed, TypeOK
<1> QED BY <1>1, RowIn

\* A tab leaves the rows alone.
LEMMA TablesStay ==
    ASSUME Typed, Tables, UNCHANGED <<messages, lost>>,
           request' \in [Requests -> Request],
           \A q \in Requests : /\ request'[q].pc = request[q].pc
                               /\ request'[q].conv = request[q].conv
                               /\ request'[q].card = request[q].card
                               /\ request'[q].waiting => request[q].waiting
    PROVE  Tables'
<1>1. \A q \in Requests : \A by : RowOf(q, by)' = RowOf(q, by)
  BY DEF RowOf
<1>2. ASSUME NEW q \in Requests PROVE RequestFits(q)' /\ NothingGoes(q)'
  <2>1. RequestFits(q) /\ NothingGoes(q)
    BY DEF Tables, RequestsFit
  <2>2. \A by : IsStored(q, by)' <=> IsStored(q, by)
    BY <1>1 DEF IsStored
  <2> QED BY <2>1, <2>2 DEF RequestFits, NothingGoes
<1>3. ASSUME NEW c \in Threads, NEW row \in Range(messages[c]) PROVE RowFits(row, c)'
  <2>1. RowFits(row, c) /\ row.of \in Requests
    BY StoredRow DEF Tables, RowsFit
  <2> QED BY <1>1, <2>1 DEF RowFits
<1> QED BY <1>2, <1>3 DEF Tables, RequestsFit, RowsFit

\* A question is sent.
LEMMA SendTables ==
    ASSUME Typed, Tables, UNCHANGED <<messages, lost>>, NEW r \in Requests,
           NEW q \in Request, request' = [request EXCEPT ![r] = q],
           request[r].pc = "unsent", q.pc = "sent", ~q.card
    PROVE  Tables'
<1>1. \A b \in Requests : b # r => request'[b] = request[b]
  BY TypedParts
<1>2. request'[r] = q
  BY TypedParts
<1>3. \A b \in Requests : \A by : b # r => RowOf(b, by)' = RowOf(b, by)
  BY <1>1 DEF RowOf
<1>4. ASSUME NEW b \in Requests PROVE RequestFits(b)' /\ NothingGoes(b)'
  <2>1. RequestFits(b) /\ NothingGoes(b)
    BY DEF Tables, RequestsFit
  <2>2. CASE b = r
    BY <1>2, <2>1, <2>2 DEF RequestFits, NothingGoes, Over
  <2>3. CASE b # r
    <3>1. \A by : IsStored(b, by)' <=> IsStored(b, by)
      BY <1>1, <1>3, <2>3 DEF IsStored
    <3> QED BY <1>1, <2>1, <2>3, <3>1 DEF RequestFits, NothingGoes
  <2> QED BY <2>2, <2>3
<1>5. ASSUME NEW c \in Threads, NEW row \in Range(messages[c]) PROVE RowFits(row, c)'
  <2>1. RowFits(row, c) /\ row.of \in Requests
    BY StoredRow DEF Tables, RowsFit
  <2>2. row.of # r
    BY <2>1 DEF RowFits
  <2> QED BY <1>1, <1>3, <2>1, <2>2 DEF RowFits
<1> QED BY <1>4, <1>5 DEF Tables, RequestsFit, RowsFit

\* The server has moved on with request r, and with nothing else.
Moved(r, q) ==
    /\ request[r].pc \in {"sent", "thinking"}
    /\ q \in Request /\ q.pc \notin {"unsent", "sent"}
    /\ request' = [request EXCEPT ![r] = q]
    /\ request[r].pc = "thinking" => q.conv = request[r].conv
    /\ lost \subseteq lost'
    /\ \A row \in lost' : row \in lost \/ row[1] = r
    /\ request[r].pc = "thinking" /\ <<r, "user">> \in lost' => <<r, "user">> \in lost
    /\ \A d \in Threads : Range(messages[d]) \subseteq Range(messages'[d])

\* What the request of such a step becomes, and the rows of all requests.
LEMMA MovedType ==
    ASSUME Typed, NEW r \in Requests, NEW q, Moved(r, q)
    PROVE  /\ request'[r] = q
           /\ \A b \in Requests : b # r => /\ request'[b] = request[b]
                                           /\ \A by : RowOf(b, by)' = RowOf(b, by)
           /\ RowOf(r, "user")' = RowOf(r, "user")
           /\ RowOf(r, "user") = Question(r) /\ RowOf(r, "assistant")' = Row(r, "assistant", q.card)
<1>1. request'[r] = q /\ \A b \in Requests : b # r => request'[b] = request[b]
  BY TypedParts DEF Moved
<1>2. \A b \in Requests : b # r => \A by : RowOf(b, by)' = RowOf(b, by)
  BY <1>1 DEF RowOf
<1>3. RowOf(r, "user")' = RowOf(r, "user")
  BY DEF RowOf
<1>4. RowOf(r, "user") = Question(r) /\ RowOf(r, "assistant")' = Row(r, "assistant", q.card)
  BY <1>1 DEF RowOf, Question
<1> QED BY <1>1, <1>2, <1>3, <1>4

\* The other requests and the rows there are go on as before.
LEMMA MovedKeeps ==
    ASSUME Typed, Tables, NEW r \in Requests, NEW q, Moved(r, q)
    PROVE  /\ \A b \in Requests : b # r => RequestFits(b)' /\ NothingGoes(b)'
           /\ \A d \in Threads : \A row \in Range(messages[d]) : RowFits(row, d)'
           /\ request[r].pc = "thinking" => IsStored(r, "user")' \/ <<r, "user">> \in lost'
<1>1. ASSUME NEW b \in Requests, NEW by, RowOf(b, by)' = RowOf(b, by),
             request'[b].conv = request[b].conv, IsStored(b, by)
      PROVE  IsStored(b, by)'
  <2>1. request[b].conv \in Threads
    BY <1>1, TypedParts DEF IsStored, Request
  <2> QED BY <1>1, <2>1 DEF IsStored, Moved
<1>2. ASSUME NEW b \in Requests, b # r PROVE RequestFits(b)' /\ NothingGoes(b)'
  <2>1. RequestFits(b) /\ NothingGoes(b)
    BY DEF Tables, RequestsFit
  <2>2. request'[b] = request[b] /\ \A by : RowOf(b, by)' = RowOf(b, by)
    BY <1>2, MovedType
  <2>3. \A by : IsStored(b, by) => IsStored(b, by)'
    BY <1>1, <2>2
  <2>4. lost \subseteq lost' /\ \A by : <<b, by>> \in lost' => <<b, by>> \in lost
    BY <1>2 DEF Moved
  <2>5. RequestFits(b)'
    BY <2>1, <2>2, <2>4 DEF RequestFits
  <2>6. NothingGoes(b)'
    BY <2>1, <2>2, <2>3, <2>4 DEF NothingGoes
  <2> QED BY <2>5, <2>6
<1>3. ASSUME NEW d \in Threads, NEW row \in Range(messages[d]) PROVE RowFits(row, d)'
  <2>1. RowFits(row, d) /\ row.of \in Requests /\ row.by \in {"user", "assistant"}
    BY StoredRow DEF Tables, RowsFit
  <2>2. CASE row.of # r
    <3>1. request'[row.of] = request[row.of] /\ RowOf(row.of, row.by)' = RowOf(row.of, row.by)
      BY <2>1, <2>2, MovedType
    <3>2. <<row.of, row.by>> \notin lost'
      BY <2>1, <2>2 DEF Moved, RowFits
    <3> QED BY <2>1, <3>1, <3>2 DEF RowFits
  <2>3. CASE row.of = r
    <3>1. request[r].pc = "thinking" /\ row.by = "user" /\ q.conv = d
      BY <2>1, <2>3 DEF RowFits, Moved
    <3>2. <<r, "user">> \notin lost' /\ q.pc \notin {"unsent", "sent"}
      BY <2>1, <2>3, <3>1 DEF RowFits, Moved
    <3>3. request'[r] = q /\ RowOf(r, "user")' = RowOf(r, "user")
      BY MovedType
    <3> QED BY <2>1, <2>3, <3>1, <3>2, <3>3 DEF RowFits
  <2> QED BY <2>2, <2>3
<1>4. request[r].pc = "thinking" => IsStored(r, "user")' \/ <<r, "user">> \in lost'
  <2>1. RequestFits(r) /\ NothingGoes(r)
    BY DEF Tables, RequestsFit
  <2>2. SUFFICES ASSUME request[r].pc = "thinking", <<r, "user">> \notin lost
                 PROVE  IsStored(r, "user")'
    BY DEF Moved
  <2>3. IsStored(r, "user")
    BY <2>1, <2>2 DEF NothingGoes
  <2>4. request'[r].conv = request[r].conv /\ RowOf(r, "user")' = RowOf(r, "user")
    BY <2>2, MovedType DEF Moved
  <2> QED BY <1>1, <2>3, <2>4
<1> QED BY <1>2, <1>3, <1>4

\* A row of request r is stored at the end of its conversation, or lost.
Adds(r, by, card, q) ==
    /\ q \in Request /\ q.conv \in Threads /\ q.pc \in {"thinking", "answered", "failed"}
    /\ request' = [request EXCEPT ![r] = q]
    /\ AppendMessage(q.conv, Row(r, by, card))
    /\ \/ by = "user" /\ request[r].pc = "sent" /\ card = FALSE
       \/ /\ by = "assistant" /\ request[r].pc = "thinking" /\ request[r].conv = q.conv
          /\ q.pc # "thinking" /\ q.card = card

LEMMA AppendKeeps ==
    ASSUME Typed, Tables, NEW r \in Requests, NEW by \in {"user", "assistant"},
           NEW card \in BOOLEAN, NEW q, Adds(r, by, card, q)
    PROVE  /\ Moved(r, q) /\ RowsFit'
           /\ Row(r, by, card) \notin Range(messages[q.conv])
           /\ IsStored(r, by)' \/ <<r, by>> \in lost'
           /\ \A x \in {"user", "assistant"} : x # by => (<<r, x>> \in lost' <=> <<r, x>> \in lost)
<1> DEFINE c == q.conv
<1>0. /\ c \in Threads /\ AppendMessage(c, Row(r, by, card))
      /\ q \in Request /\ request' = [request EXCEPT ![r] = q] /\ q.conv = c
      /\ q.pc \in {"thinking", "answered", "failed"}
      /\ request[r].pc \in {"sent", "thinking"}
      /\ by = "user" => request[r].pc = "sent" /\ card = FALSE
      /\ by = "assistant" => /\ request[r].pc = "thinking" /\ request[r].conv = c
                             /\ q.pc # "thinking" /\ q.card = card
  BY DEF Adds
<1> HIDE DEF c
<1> DEFINE row == Row(r, by, card)
<1>1. row \in Rows /\ row.of = r /\ row.by = by
  BY RowIsRow DEF Row
<1>2. row \notin Range(messages[c])
  <2>1. SUFFICES ASSUME row \in Range(messages[c]) PROVE FALSE
    OBVIOUS
  <2>2. RowFits(row, c)
    BY <1>0, <2>1 DEF Tables, RowsFit
  <2> QED BY <1>0, <1>1, <2>2 DEF RowFits
<1>3. messages[c] \in Seq(Rows) /\ messages \in [Threads -> Seq(Rows)]
  BY <1>0 DEF Typed, TypeOK
<1>4. <<r, by>> \notin lost
  <2>1. RequestFits(r)
    BY DEF Tables, RequestsFit
  <2> QED BY <1>0, <2>1 DEF RequestFits, Over
<1> DEFINE t == Append(messages[c], row)
<1>5. Range(t) = Range(messages[c]) \cup {row} /\ Once(t)
  BY <1>0, <1>1, <1>2, <1>3, Longer, OnceLonger DEF Tables, RowsFit
<1> HIDE DEF t
<1>6. CASE messages' = [messages EXCEPT ![c] = t] /\ lost' = lost
  <2>1. messages'[c] = t /\ \A d \in Threads : d # c => messages'[d] = messages[d]
    BY <1>0, <1>3, <1>6
  <2>2. Moved(r, q)
    BY <1>0, <1>5, <1>6, <2>1 DEF Moved
  <2>3. \A d \in Threads : Once(messages'[d])
    BY <1>5, <2>1 DEF Tables, RowsFit
  <2>4. row = RowOf(r, by)'
    BY <1>0, <2>2, MovedType DEF Question
  <2>5. RowFits(row, c)'
    <3>1. request'[r] = q
      BY <2>2, MovedType
    <3> HIDE DEF row
    <3> QED BY <1>0, <1>1, <1>4, <1>6, <2>4, <3>1 DEF RowFits
  <2>6. ASSUME NEW d \in Threads, NEW x \in Range(messages'[d]) PROVE RowFits(x, d)'
    <3>1. x \in Range(messages[d]) \/ (d = c /\ x = row)
      BY <1>5, <2>1, <2>6
    <3> HIDE DEF row
    <3> QED BY <2>2, <2>5, <3>1, MovedKeeps
  <2>7. IsStored(r, by)'
    <3>1. request'[r].conv = c /\ c # None
      BY <1>0, <2>2, MovedType, NoneAssumption
    <3>2. RowOf(r, by)' \in Range(messages'[c])
      BY <1>5, <2>1, <2>4
    <3> QED BY <3>1, <3>2 DEF IsStored
  <2> QED BY <1>2, <1>6, <2>2, <2>3, <2>6, <2>7 DEF RowsFit, c
<1>7. CASE lost' = lost \cup {<<r, by>>} /\ messages' = messages
  <2>1. Moved(r, q)
    BY <1>0, <1>7 DEF Moved
  <2>2. RowsFit'
    BY <1>7, <2>1, MovedKeeps DEF Tables, RowsFit
  <2> QED BY <1>2, <1>7, <2>1, <2>2 DEF c
<1>8. AppendMessage(c, row) /\ row.of = r /\ row.by = by
  BY <1>0, <1>1
<1> HIDE DEF row
<1> QED BY <1>6, <1>7, <1>8 DEF AppendMessage, t, c

\* The server's steps keep the tables.
LEMMA ReceiveTables == ASSUME Typed, Tables, NEW r \in Requests, Receive(r) PROVE Tables'
<1> DEFINE c == ThreadOf(r)
           q == [request[r] EXCEPT !.pc = "thinking", !.conv = c, !.found = pending[c]]
<1>1. request[r].pc = "sent" /\ AppendMessage(c, Row(r, "user", FALSE))
  BY DEF Receive, Question
<1>2. c \in Threads
  BY <1>1, FreshId
<1>3. pending[c] \in Requests \cup {None}
  BY <1>2 DEF Typed, TypeOK
<1>4. request' = [request EXCEPT ![r].pc = "thinking", ![r].conv = c, ![r].found = pending[c]]
  BY DEF Receive
<1> HIDE DEF c
<1>5. request' = [request EXCEPT ![r] = q]
  BY <1>4, TypedParts
<1>6. q \in Request /\ q.conv = c /\ q.pc = "thinking" /\ q.card = request[r].card
      /\ q.waiting = request[r].waiting
  BY <1>2, <1>3, TypedParts DEF Request
<1> HIDE DEF q
<1>7. /\ Moved(r, q) /\ RowsFit'
      /\ IsStored(r, "user")' \/ <<r, "user">> \in lost'
      /\ <<r, "assistant">> \in lost' <=> <<r, "assistant">> \in lost
  <2>1. Adds(r, "user", FALSE, q)
    BY <1>1, <1>2, <1>5, <1>6 DEF Adds
  <2> QED BY <2>1, AppendKeeps
<1>8. RequestFits(r)' /\ NothingGoes(r)'
  <2>1. RequestFits(r) /\ request'[r] = q /\ c # None
    BY <1>2, <1>7, MovedType, NoneAssumption DEF Tables, RequestsFit
  <2> QED BY <1>1, <1>6, <1>7, <2>1 DEF RequestFits, NothingGoes, Over
<1> QED BY <1>7, <1>8, MovedKeeps DEF Tables, RequestsFit

LEMMA ReplyTables ==
    ASSUME Typed, Tables, NEW r \in Requests, NEW card \in BOOLEAN, NEW pc \in {"answered", "failed"},
           request[r].pc = "thinking", pc # "answered" => card = FALSE,
           request' = [request EXCEPT ![r] = [@ EXCEPT !.pc = pc, !.card = card]],
           AppendMessage(request[r].conv, Row(r, "assistant", card))
    PROVE  Tables'
<1> DEFINE c == request[r].conv
           q == [request[r] EXCEPT !.pc = pc, !.card = card]
<1>1. RequestFits(r) /\ request[r] \in Request
  BY TypedParts DEF Tables, RequestsFit
<1>2. c \in Threads /\ c # None
  BY <1>1 DEF RequestFits, Request
<1>3. q \in Request /\ q.conv = c /\ q.pc = pc
  BY <1>1, <1>2 DEF Request
<1>4. request' = [request EXCEPT ![r] = q]
  BY TypedParts
<1>5. q.card = card
  BY <1>1 DEF Request
<1>a. AppendMessage(c, Row(r, "assistant", card)) /\ request[r].conv = c
  OBVIOUS
<1> HIDE DEF c, q
<1>b. q.pc \in {"thinking", "answered", "failed"} /\ q.pc # "thinking"
  BY <1>3
<1>c. Adds(r, "assistant", card, q)
  BY <1>2, <1>3, <1>4, <1>5, <1>a, <1>b DEF Adds
<1>6. /\ Moved(r, q) /\ RowsFit'
      /\ IsStored(r, "assistant")' \/ <<r, "assistant">> \in lost'
  BY <1>c, AppendKeeps
<1>7. RequestFits(r)' /\ NothingGoes(r)'
  <2>1. request'[r] = q
    BY <1>6, MovedType
  <2>2. IsStored(r, "user")' \/ <<r, "user">> \in lost'
    BY <1>6, MovedKeeps
  <2>3. NothingGoes(r)'
    BY <1>6, <2>2 DEF NothingGoes
  <2>4. <<r, "user">> \notin lost' \/ q.pc \notin {"unsent", "sent"}
    BY <1>3
  <2>5. q.card => q.pc = "answered"
    BY <1>3, <1>5
  <2> QED BY <1>2, <1>3, <2>1, <2>3, <2>5 DEF RequestFits, Over
<1> QED BY <1>6, <1>7, MovedKeeps DEF Tables, RequestsFit

LEMMA AnswerTables ==
    ASSUME Typed, Tables, NEW r \in Requests, NEW card \in BOOLEAN, Answer(r, card) PROVE Tables'
<1>1. request' = [request EXCEPT ![r] = [@ EXCEPT !.pc = "answered", !.card = card]]
  BY TypedParts DEF Answer, Request
<1> QED BY <1>1, ReplyTables DEF Answer

LEMMA FailTables == ASSUME Typed, Tables, NEW r \in Requests, Fail(r) PROVE Tables'
<1>1. request[r].pc = "thinking" /\ request[r].card = FALSE /\ request[r] \in Request
  BY TypedParts DEF Fail, Tables, RequestsFit, RequestFits, Request
<1>2. request' = [request EXCEPT ![r] = [@ EXCEPT !.pc = "failed", !.card = FALSE]]
  BY <1>1, SameCard DEF Fail
<1> QED BY <1>1, <1>2, ReplyTables DEF Fail, Failure

LEMMA StopsTables ==
    ASSUME Typed, Tables, NEW r \in Requests, NEW pc \in {"failed", "dead"},
           request[r].pc \in {"sent", "thinking"}, Stops(r, pc)
    PROVE  Tables'
<1> DEFINE q == [request[r] EXCEPT !.pc = pc]
<1>1. RequestFits(r) /\ NothingGoes(r) /\ request[r] \in Request /\ r \in Requests
  BY TypedParts DEF Tables, RequestsFit
<1>2. q \in Request /\ q.pc \in {"failed", "dead"} /\ q.conv = request[r].conv /\ q.card = request[r].card
  BY <1>1 DEF Request
<1>3. request' = [request EXCEPT ![r] = q] /\ UNCHANGED messages
  BY TypedParts DEF Stops
<1> HIDE DEF q
<1>4. /\ lost \subseteq lost' /\ \A row \in lost' : row \in lost \/ row[1] = r
      /\ <<r, "assistant">> \in lost'
      /\ request[r].pc = "sent" => <<r, "user">> \in lost'
      /\ request[r].pc = "thinking" /\ <<r, "user">> \in lost' => <<r, "user">> \in lost
  BY DEF Stops
<1>5. Moved(r, q)
  BY <1>2, <1>3, <1>4 DEF Moved
<1>6. RequestFits(r)' /\ NothingGoes(r)'
  <2>1. request'[r] = q
    BY <1>5, MovedType
  <2>2. IsStored(r, "user")' \/ <<r, "user">> \in lost'
    BY <1>3, <1>4, <1>5, MovedKeeps
  <2> QED BY <1>1, <1>2, <1>3, <1>4, <2>1, <2>2 DEF RequestFits, NothingGoes, Over
<1>7. RowsFit'
  BY <1>3, <1>5, MovedKeeps DEF Tables, RowsFit
<1> QED BY <1>5, <1>6, <1>7, MovedKeeps DEF Tables, RequestsFit

\* The record of a request that is sent.
LEMMA SendFits ==
    ASSUME Typed, NEW r \in Requests, NEW p, NEW c \in opened \cup {None},
           NEW yesTo \in Requests \cup {None}, Send(r, p, c, yesTo)
    PROVE  \E q \in Request : /\ request' = [request EXCEPT ![r] = q] /\ request[r].pc = "unsent"
                              /\ q.pc = "sent" /\ q.conv = c /\ ~q.card /\ q.waiting /\ q.sender
<1> DEFINE q == [pc |-> "sent", conv |-> c, yesTo |-> yesTo, found |-> None,
                 card |-> FALSE, waiting |-> TRUE, sender |-> TRUE]
<1>1. request' = [request EXCEPT ![r] = q] /\ q \in Request /\ request[r].pc = "unsent"
  BY DEF Send, Unused, Request, Typed, TypeOK
<1> QED BY <1>1

\* The three ways to send.
LEMMA SendSteps ==
    ASSUME Typed, NEW r \in Requests, Ask(r) \/ Approve(r) \/ AskFromDashboard(r)
    PROVE  /\ UNCHANGED <<tables, removing, lost, executed>>
           /\ \E yesTo \in Requests \cup {None} :
                \/ UNCHANGED <<activeId, strayed>> /\ Readable /\ ~page.busy
                   /\ Send(r, page, activeId, yesTo)
                \/ AskFromDashboard(r) /\ activeId' = None /\ Send(r, Opened, None, yesTo)
<1>1. CASE Ask(r)
  BY <1>1 DEF Ask, history
<1>2. CASE Approve(r)
  <2>1. PICK i \in 1 .. Len(page.turns) : Send(r, page, activeId, page.turns[i].of)
    BY <1>2 DEF Approve
  <2> QED BY <1>2, <2>1, ShownRow DEF Approve, history
<1>3. CASE AskFromDashboard(r)
  BY <1>3 DEF AskFromDashboard
<1> QED BY <1>1, <1>2, <1>3

LEMMA SendsTables ==
    ASSUME Typed, Tables, NEW r \in Requests, Ask(r) \/ Approve(r) \/ AskFromDashboard(r)
    PROVE  Tables'
<1>1. UNCHANGED <<messages, lost>>
  BY SendSteps DEF tables
<1>2. ASSUME NEW p, NEW c \in opened \cup {None}, NEW yesTo \in Requests \cup {None},
             Send(r, p, c, yesTo)
      PROVE  Tables'
  BY <1>1, <1>2, SendFits, SendTables
<1> QED BY <1>2, SendSteps, TypedParts

\* Steps of the tab that send nothing.
LEMMA TabTables ==
    ASSUME Typed, Tables,
           \/ \E r \in Requests : Hear(r) \/ LineBreaks(r)
           \/ \E c \in Threads : Open(c) \/ RemoveThread(c)
           \/ StartNew \/ Leave \/ Return \/ OpenFromDashboard \/ TryAgain \/ Removed \/ RemoveFails
           \/ FetchReads \/ FetchArrives \/ FetchFails \/ UNCHANGED vars
    PROVE  Tables'
<1>1. UNCHANGED <<messages, lost>>
  BY DEF Hear, HearAnswer, HearFailure, LineBreaks, Open, RemoveThread, StartNew, Leave, Return,
         OpenFromDashboard, TryAgain, Removed, RemoveFails, FetchReads, FetchArrives, FetchFails,
         vars, tables, history
<1>2. CASE request' = request
  BY <1>1, <1>2, TablesStay, TypedParts
<1>3. CASE Leave
  <2>1. \A q \in Requests : /\ request'[q] \in Request
                            /\ request'[q].pc = request[q].pc /\ request'[q].conv = request[q].conv
                            /\ request'[q].card = request[q].card
                            /\ request'[q].waiting = request[q].waiting
    BY <1>3, TypedParts DEF Leave, Request
  <2>2. request' \in [Requests -> Request]
    BY <1>3, <2>1 DEF Leave
  <2> QED BY <1>1, <2>1, <2>2, TablesStay
<1>4. ASSUME NEW r \in Requests, Heard(r) PROVE Tables'
  <2>1. \A q \in Requests : request'[q].waiting => request[q].waiting
    BY <1>4, HeardType DEF Waiting
  <2> QED BY <1>1, <1>4, <2>1, HeardType, TablesStay
<1>5. request' = request \/ Leave \/ \E r \in Requests : Heard(r)
  BY DEF Hear, HearAnswer, HearFailure, LineBreaks, Open, RemoveThread, StartNew, Return,
         OpenFromDashboard, TryAgain, Removed, RemoveFails, FetchReads, FetchArrives, FetchFails,
         vars
<1> QED BY <1>2, <1>3, <1>4, <1>5

\* Every step keeps the tables.
LEMMA TablesStep ==
    ASSUME Typed, Tables, [Next]_vars
    PROVE  Tables'
<1>1. CASE \E r \in Requests : Serve(r) \/ Refuse(r) \/ Die(r)
  BY <1>1, ReceiveTables, AnswerTables, FailTables, StopsTables DEF Serve, Refuse, Die
<1>2. CASE \E r \in Requests : Ask(r) \/ Approve(r) \/ AskFromDashboard(r)
  BY <1>2, SendsTables
<1> QED BY <1>1, <1>2, TabTables DEF Next, Fetch

\* Every variable of Conversations keeps its type: what is loading is the
\* conversation that is open, and a new conversation finds an id.
THEOREM TypeCorrect == Spec => []TypeOK
<1>1. Init => Typed /\ Tables
  BY InitTyped, InitTables
<1>2. Typed /\ Tables /\ [Next]_vars => (Typed /\ Tables)'
  BY TypedStep, TablesStep, TablesBelong
<1>3. Typed => TypeOK
  BY DEF Typed
<1> QED BY <1>1, <1>2, <1>3, PTL DEF Spec

-----------------------------------------------------------------------------
(* What the tab shows.                                                     *)

\* The conversations an answer can still bring into view.
InUse(c) == c = activeId \/ \E r \in Waiting : request[r].conv = c

\* The rows of r are the last of a list, the assistant's after hers.
LastIn(r, s) == \A i, j \in DOMAIN s : i < j /\ s[i].of = r => s[j].of = r /\ s[j].by = "assistant"

\* The page that asked r shows its question last, and waits for it alone.
Awaited(r) ==
    /\ Waiting = {r} /\ request[r].sender
    /\ Readable /\ page.busy
    /\ page.turns # <<>> /\ page.turns[Len(page.turns)] = Question(r)
    /\ \A row \in Range(page.turns) : row.of = r => row = Question(r)
    /\ activeId # None => request[r].conv = activeId
    /\ request[r].conv # None => LastIn(r, messages[request[r].conv])

\* A turn is the row of a request that is awaited, failed, or answered here.
ShownFits(row) ==
    /\ row = RowOf(row.of, row.by)
    /\ \/ row.of \in Waiting \/ request[row.of].pc \in {"failed", "dead"}
       \/ activeId # None /\ request[row.of].pc = "answered" /\ request[row.of].conv = activeId

\* The rows of a conversation that are on the page, or awaited.
Seen(c) == Range(page.turns) \cup {row \in Range(messages[c]) : row.of \in Waiting}

\* A conversation agrees with the page, but for what is awaited and what the
\* load left out.
Agrees(c) == SameOrder(messages[c], page.turns) /\ GapAfterOldest(messages[c], Seen(c))

TurnsFit ==
    Readable => /\ Once(page.turns)
                /\ \A row \in Range(page.turns) : ShownFits(row)
                /\ \A c \in Threads : InUse(c) => Agrees(c)

InStep ==
    /\ \A r \in Waiting : Awaited(r)
    /\ \A r \in Requests : request[r].pc \in {"sent", "thinking"} => r \in Waiting
    /\ page.fetching # None /\ page.arrived => page.fetched = Oldest(messages[page.fetching])
    /\ TurnsFit

Followed == ~strayed => InStep

LEMMA InitInStep == Init => InStep
<1> SUFFICES ASSUME Init PROVE InStep
  OBVIOUS
<1>1. /\ \A r \in Requests : ~request[r].waiting /\ request[r].pc = "unsent"
      /\ page = Closed
  BY DEF Init, Unsent
<1>2. ~page.mounted /\ page.fetching = None
  BY <1>1, OpenedPage
<1> QED BY <1>1, <1>2 DEF InStep, TurnsFit, Readable, Waiting

\* The turns of the page and the rows of the tables are rows.
LEMMA PageRows ==
    ASSUME Typed
    PROVE  /\ page.turns \in Seq(Rows)
           /\ \A row \in Range(page.turns) : row.of \in Requests /\ row.by \in {"user", "assistant"}
           /\ \A c \in Threads : /\ messages[c] \in Seq(Rows)
                                 /\ \A row \in Range(messages[c]) :
                                      /\ row \in Rows /\ row.of \in Requests
                                      /\ row.by \in {"user", "assistant"}
<1>1. page.turns \in Seq(Rows) /\ messages \in [Threads -> Seq(Rows)]
  BY DEF Typed, TypeOK
<1> QED BY <1>1, RowIn

\* Nothing is awaited behind a screen that hides the composer, and nothing loads
\* while something is awaited.
LEMMA AtRest ==
    ASSUME Typed, InStep
    PROVE  /\ ~Readable => Waiting = {}
           /\ page.busy = FALSE => Waiting = {}
           /\ Waiting # {} => page.fetching = None
           /\ \A r \in Waiting : Waiting = {r}
<1>1. \A r \in Waiting : Awaited(r)
  BY DEF InStep
<1>2. page.fetching # None => ~Readable
  BY TypedParts DEF PageFits, Readable
<1> QED BY <1>1, <1>2 DEF Awaited

\* Requests that are awaited when nothing is: none is under way either.
LEMMA AllDone ==
    ASSUME Typed, InStep, Waiting = {}, NEW r \in Requests
    PROVE  request[r].pc \in {"unsent", "answered", "failed", "dead"}
BY TypedParts DEF InStep, Request

-----------------------------------------------------------------------------
(* The server moves on.                                                    *)

\* The rows of request r, the one awaited, may grow in its conversation.
LEMMA ServedInStep ==
    ASSUME Typed, InStep, NEW r \in Waiting, NEW q, Moved(r, q), q.waiting, q.sender,
           activeId # None => q.conv = activeId,
           UNCHANGED <<activeId, page>>,
           q.conv # None => LastIn(r, messages'[q.conv]),
           \A c \in Threads : c = q.conv => Agrees(c)'
    PROVE  InStep'
<1>1. r \in Requests /\ Awaited(r)
  BY DEF InStep, Waiting
<1>2. /\ request'[r] = q
      /\ \A b \in Requests : b # r => /\ request'[b] = request[b]
                                      /\ \A by : RowOf(b, by)' = RowOf(b, by)
      /\ RowOf(r, "user")' = Question(r)
  BY <1>1, MovedType
<1>3. Waiting' = Waiting
  BY <1>1, <1>2 DEF Waiting, Awaited
<1>4. Readable' = Readable
  BY DEF Readable
<1>5. Awaited(r)'
  BY <1>1, <1>2, <1>3, <1>4 DEF Awaited
<1>6. \A b \in Requests : request'[b].pc \in {"sent", "thinking"} => b \in Waiting'
  BY <1>1, <1>2, <1>3 DEF InStep
<1>7. page.fetching = None
  BY AtRest
<1>8. TurnsFit'
  <2>1. Once(page.turns) /\ \A row \in Range(page.turns) : ShownFits(row)
    BY <1>1 DEF InStep, TurnsFit, Awaited
  <2>2. ASSUME NEW row \in Range(page.turns) PROVE ShownFits(row)'
    <3>1. ShownFits(row) /\ row.of \in Requests
      BY <2>1, PageRows
    <3>2. CASE row.of = r
      <4>1. row = Question(r) /\ row.by = "user"
        BY <1>1, <3>2 DEF Awaited, Question, Row
      <4>2. row = RowOf(r, "user")'
        BY <1>2, <4>1
      <4> QED BY <1>3, <3>2, <4>1, <4>2 DEF ShownFits
    <3>3. CASE row.of # r
      <4>1. request'[row.of] = request[row.of] /\ RowOf(row.of, row.by)' = RowOf(row.of, row.by)
        BY <1>2, <3>1, <3>3
      <4> QED BY <1>3, <3>1, <4>1 DEF ShownFits
    <3> QED BY <3>2, <3>3
  <2>3. ASSUME NEW c \in Threads, InUse(c)' PROVE Agrees(c)'
    <3>1. c = q.conv
      <4>1. CASE c = activeId'
        BY <4>1, NoneAssumption
      <4>2. CASE \E b \in Waiting' : request'[b].conv = c
        BY <1>1, <1>2, <1>3, <4>2 DEF Awaited
      <4> QED BY <2>3, <4>1, <4>2 DEF InUse
    <3> QED BY <3>1
  <2> QED BY <2>1, <2>2, <2>3 DEF TurnsFit
<1> QED BY <1>3, <1>5, <1>6, <1>7, <1>1, <1>8 DEF InStep, Awaited

\* The rows of a conversation that is in use, before the server adds one.
LEMMA BeforeAdding ==
    ASSUME Typed, Tables, InStep, NEW r \in Waiting, NEW c \in Threads,
           request[r].conv = c \/ c \notin opened
    PROVE  Agrees(c)
<1>1. r \in Requests /\ Awaited(r)
  BY DEF InStep, Waiting
<1>2. CASE request[r].conv = c
  BY <1>1, <1>2 DEF InStep, TurnsFit, InUse, Awaited
<1>3. CASE c \notin opened
  <2>1. ASSUME NEW row \in Range(messages[c]) PROVE FALSE
    <3>1. RowFits(row, c) /\ row.of \in Requests
      BY StoredRow DEF Tables, RowsFit
    <3>2. c \in opened \cup {None}
      BY <3>1 DEF RowFits, Typed, Tab
    <3> QED BY <1>3, <3>2, NoneAssumption
  <2>2. \A i \in DOMAIN messages[c] : FALSE
    BY <2>1 DEF Range
  <2> QED BY <2>1, <2>2 DEF Agrees, SameOrder, GapAfterOldest
<1> QED BY <1>2, <1>3

\* A row of r is added, or lost.
LEMMA AddingInStep ==
    ASSUME Typed, Tables, InStep, NEW r \in Requests, NEW by \in {"user", "assistant"},
           NEW card \in BOOLEAN, NEW q, Adds(r, by, card, q), q.waiting = request[r].waiting,
           q.sender = request[r].sender,
           request[r].conv # None => request[r].conv = q.conv,
           request[r].conv = None => q.conv \notin opened,
           UNCHANGED <<activeId, page>>
    PROVE  InStep'
<1> DEFINE c == q.conv
           row == Row(r, by, card)
           s == messages[c]
           t == page.turns
<1>0. /\ c \in Threads /\ AppendMessage(c, row)
      /\ request[r].pc \in {"sent", "thinking"}
      /\ by = "user" => request[r].pc = "sent" /\ row = Question(r)
      /\ request[r].pc = "sent" => by = "user"
  BY DEF Adds, Question
<1>1. r \in Waiting /\ Awaited(r) /\ Moved(r, q) /\ row \notin Range(s)
  BY <1>0, AppendKeeps DEF InStep
<1>2. row \in Rows /\ row.of = r /\ row.by = by
  BY RowIsRow DEF Row
<1>3. s \in Seq(Rows) /\ t \in Seq(Rows) /\ messages \in [Threads -> Seq(Rows)]
  BY <1>0 DEF Typed, TypeOK
<1>4. Agrees(c)
  <2>1. request[r].conv = c \/ c \notin opened
    OBVIOUS
  <2> HIDE DEF c
  <2> QED BY <1>0, <1>1, <2>1, BeforeAdding
<1>5. activeId # None => q.conv = activeId
  BY <1>1, TypedParts DEF Awaited, Typed, Tab
<1>6. LastIn(r, s) /\ (request[r].pc = "sent" => \A i \in DOMAIN s : s[i].of # r)
  <2>1. CASE request[r].pc = "sent"
    <3>1. ASSUME NEW i \in DOMAIN s, s[i].of = r PROVE FALSE
      <4>1. s[i] \in Range(s)
        BY DEF Range
      <4>2. RowFits(s[i], c)
        BY <1>0, <4>1 DEF Tables, RowsFit
      <4> QED BY <2>1, <3>1, <4>2 DEF RowFits
    <3> QED BY <3>1 DEF LastIn
  <2>2. CASE request[r].pc = "thinking"
    <3>1. request[r].conv = c /\ c # None
      BY <1>0, <2>2, NoneAssumption DEF Adds
    <3> QED BY <1>1, <2>2, <3>1 DEF Awaited
  <2> QED BY <1>0, <2>1, <2>2
<1>7. \A l, m \in DOMAIN t : t[l] = row /\ l < m => t[m] \notin Range(s) \cup {row}
  <2>1. SUFFICES ASSUME NEW l \in DOMAIN t, NEW m \in DOMAIN t, t[l] = row, l < m
                 PROVE  FALSE
    OBVIOUS
  <2>2. t # <<>> /\ t[Len(t)] = Question(r) /\ Once(t)
    BY <1>1 DEF Awaited, InStep, TurnsFit
  <2>3. Len(t) \in DOMAIN t /\ DOMAIN t = 1 .. Len(t) /\ Len(t) \in Nat
    BY <1>3, <2>2
  <2>4. row \in Range(t)
    BY <2>1 DEF Range
  <2>5. row = Question(r)
    BY <1>1, <1>2, <2>4 DEF Awaited
  <2>6. l = Len(t)
    BY <2>1, <2>2, <2>3, <2>5 DEF Once
  <2> QED BY <2>1, <2>3, <2>6
<1>8. Waiting' = Waiting
  <2>1. request'[r] = q /\ \A b \in Requests : b # r => request'[b] = request[b]
    BY <1>1, MovedType
  <2> QED BY <2>1 DEF Waiting
<1>9. Agrees(c)' /\ LastIn(r, messages'[c])
  <2> HIDE DEF row, c, s, t
  <2>1. CASE messages' = messages
    BY <1>4, <1>6, <1>8, <2>1 DEF Agrees, Seen, s
  <2>2. CASE messages' = [messages EXCEPT ![c] = Append(@, row)]
    <3> DEFINE a == Append(s, row)
    <3>1. /\ Len(s) \in Nat /\ DOMAIN s = 1 .. Len(s) /\ DOMAIN a = 1 .. Len(s) + 1
          /\ \A i \in 1 .. Len(s) : a[i] = s[i]
          /\ a[Len(s) + 1] = row
          /\ Range(a) = Range(s) \cup {row}
      BY <1>2, <1>3, Longer
    <3>2. SameOrder(s, t)
      BY <1>4 DEF Agrees, s, t
    <3>3. SameOrder(a, t)
      BY <1>1, <1>2, <1>3, <1>7, <3>2, SameLonger
    <3>4. messages'[c] = a
      BY <1>0, <1>3, <2>2 DEF s
    <3> HIDE DEF a
    <3>5. Agrees(c)'
      <4>1. SameOrder(messages'[c], page'.turns)
        BY <3>3, <3>4 DEF t
      <4>2. GapAfterOldest(messages'[c], Seen(c)')
        <5>1. row \in Seen(c)' /\ \A x \in Range(s) : x \in Seen(c) <=> x \in Seen(c)'
          BY <1>1, <1>2, <1>8, <3>1, <3>4 DEF Seen, s
        <5>2. GapAfterOldest(s, Seen(c))
          BY <1>4 DEF Agrees, s
        <5> QED BY <1>2, <1>3, <3>4, <5>1, <5>2, GapLonger DEF a
      <4> QED BY <4>1, <4>2 DEF Agrees
    <3>6. ASSUME NEW i \in DOMAIN a, NEW j \in DOMAIN a, i < j, a[i].of = r
          PROVE  a[j].of = r /\ a[j].by = "assistant"
      <4>1. i \in 1 .. Len(s) /\ s[i].of = r
        BY <3>1, <3>6
      <4>2. by = "assistant"
        BY <1>0, <1>6, <3>1, <4>1
      <4>3. CASE j \in 1 .. Len(s)
        BY <1>6, <3>1, <3>6, <4>1, <4>3 DEF LastIn
      <4>4. CASE j = Len(s) + 1
        BY <1>2, <3>1, <4>2, <4>4
      <4> QED BY <3>1, <4>3, <4>4
    <3> QED BY <3>4, <3>5, <3>6 DEF LastIn
  <2> QED BY <1>0, <2>1, <2>2 DEF AppendMessage
<1>10. q.waiting /\ q.sender
  BY <1>1 DEF Waiting, Awaited
<1> HIDE DEF row, s, t
<1> QED BY <1>1, <1>5, <1>9, <1>10, ServedInStep

\* The server's steps keep the tab in step.
LEMMA ReceiveInStep ==
    ASSUME Typed, Tables, InStep, NEW r \in Requests, Receive(r) PROVE InStep'
<1> DEFINE c == ThreadOf(r)
           q == [request[r] EXCEPT !.pc = "thinking", !.conv = c, !.found = pending[c]]
<1>1. request[r].pc = "sent" /\ AppendMessage(c, Row(r, "user", FALSE))
      /\ UNCHANGED <<activeId, page>>
  BY DEF Receive, Question
<1>2. c \in Threads /\ (request[r].conv # None => request[r].conv = c)
      /\ (request[r].conv = None => c \notin opened)
  BY <1>1, FreshId
<1>3. pending[c] \in Requests \cup {None}
  BY <1>2 DEF Typed, TypeOK
<1>4. request' = [request EXCEPT ![r].pc = "thinking", ![r].conv = c, ![r].found = pending[c]]
  BY DEF Receive
<1> HIDE DEF c
<1>5. request' = [request EXCEPT ![r] = q]
  BY <1>4, TypedParts
<1>6. q \in Request /\ q.conv = c /\ q.pc = "thinking"
      /\ q.waiting = request[r].waiting /\ q.sender = request[r].sender
  BY <1>2, <1>3, TypedParts DEF Request
<1> HIDE DEF q
<1>7. Adds(r, "user", FALSE, q)
  BY <1>1, <1>2, <1>5, <1>6 DEF Adds
<1> QED BY <1>1, <1>2, <1>6, <1>7, AddingInStep

LEMMA ReplyInStep ==
    ASSUME Typed, Tables, InStep, NEW r \in Requests, NEW card \in BOOLEAN,
           NEW pc \in {"answered", "failed"}, request[r].pc = "thinking",
           request' = [request EXCEPT ![r] = [@ EXCEPT !.pc = pc, !.card = card]],
           AppendMessage(request[r].conv, Row(r, "assistant", card)), UNCHANGED <<activeId, page>>
    PROVE  InStep'
<1> DEFINE c == request[r].conv
           q == [request[r] EXCEPT !.pc = pc, !.card = card]
<1>1. RequestFits(r) /\ request[r] \in Request
  BY TypedParts DEF Tables, RequestsFit
<1>2. c \in Threads /\ c # None
  BY <1>1 DEF RequestFits, Request
<1>3. q \in Request /\ q.conv = c /\ q.pc = pc
      /\ q.waiting = request[r].waiting /\ q.sender = request[r].sender
  BY <1>1, <1>2 DEF Request
<1>4. request' = [request EXCEPT ![r] = q]
  BY TypedParts
<1>5. q.card = card
  BY <1>1 DEF Request
<1>6. AppendMessage(c, Row(r, "assistant", card)) /\ request[r].conv = c
  OBVIOUS
<1> HIDE DEF c, q
<1>7. Adds(r, "assistant", card, q)
  BY <1>2, <1>3, <1>4, <1>5, <1>6 DEF Adds
<1> QED BY <1>2, <1>3, <1>6, <1>7, AddingInStep

LEMMA AnswerInStep ==
    ASSUME Typed, Tables, InStep, NEW r \in Requests, NEW card \in BOOLEAN, Answer(r, card)
    PROVE  InStep'
<1>1. request' = [request EXCEPT ![r] = [@ EXCEPT !.pc = "answered", !.card = card]]
  BY TypedParts DEF Answer, Request
<1> QED BY <1>1, ReplyInStep DEF Answer

LEMMA FailInStep ==
    ASSUME Typed, Tables, InStep, NEW r \in Requests, Fail(r) PROVE InStep'
<1>1. request[r].pc = "thinking" /\ request[r].card = FALSE /\ request[r] \in Request
  BY TypedParts DEF Fail, Tables, RequestsFit, RequestFits, Request
<1>2. request' = [request EXCEPT ![r] = [@ EXCEPT !.pc = "failed", !.card = FALSE]]
  BY <1>1, SameCard DEF Fail
<1> QED BY <1>1, <1>2, ReplyInStep DEF Fail, Failure

LEMMA StopsInStep ==
    ASSUME Typed, Tables, InStep, NEW r \in Requests, NEW pc \in {"failed", "dead"},
           request[r].pc \in {"sent", "thinking"}, Stops(r, pc)
    PROVE  InStep'
<1> DEFINE q == [request[r] EXCEPT !.pc = pc]
<1>1. request[r] \in Request
  BY TypedParts
<1>2. q \in Request /\ q.pc \in {"failed", "dead"} /\ q.conv = request[r].conv
      /\ q.waiting = request[r].waiting /\ q.sender = request[r].sender
  BY <1>1 DEF Request
<1>3. request' = [request EXCEPT ![r] = q] /\ UNCHANGED <<messages, activeId, page>>
  BY TypedParts DEF Stops
<1> HIDE DEF q
<1>4. /\ lost \subseteq lost' /\ \A row \in lost' : row \in lost \/ row[1] = r
      /\ request[r].pc = "thinking" /\ <<r, "user">> \in lost' => <<r, "user">> \in lost
  BY DEF Stops
<1>5. Moved(r, q)
  BY <1>1, <1>2, <1>3, <1>4 DEF Moved
<1>6. r \in Waiting /\ Awaited(r)
  BY <1>1 DEF InStep
<1>7. q.waiting /\ q.sender /\ (activeId # None => q.conv = activeId)
      /\ (q.conv # None => LastIn(r, messages'[q.conv]))
  BY <1>2, <1>3, <1>6 DEF Awaited, Waiting
<1>8. Waiting' = Waiting
  BY <1>2, <1>5, <1>6, <1>7, MovedType DEF Waiting
<1>9. ASSUME NEW c \in Threads, c = q.conv PROVE Agrees(c)'
  <2>1. Agrees(c)
    BY <1>2, <1>6, <1>9, BeforeAdding
  <2> QED BY <1>3, <1>8, <2>1 DEF Agrees, Seen
<1> QED BY <1>3, <1>5, <1>6, <1>7, <1>9, ServedInStep

-----------------------------------------------------------------------------
(* The reader sends.                                                       *)

\* A question is shown and awaited on a page that had everything.
LEMMA SendInStep ==
    ASSUME Typed, Tables, InStep, Waiting = {}, NEW r \in Requests, NEW p \in Page,
           NEW c \in opened \cup {None}, NEW yesTo \in Requests \cup {None}, Send(r, p, c, yesTo),
           activeId' = c, UNCHANGED <<messages, lost>>,
           p.mounted, ~p.threadLoading, ~p.threadError, p.loaded = c, p.fetching = None,
           Once(p.turns), \A row \in Range(p.turns) : ShownFits(row) /\ c = activeId,
           c # None => c = activeId,
           c # None => /\ SameOrder(messages[c], p.turns)
                       /\ GapAfterOldest(messages[c], Range(p.turns))
    PROVE  InStep'
<1> DEFINE row == Question(r)
           t == p.turns
           a == Append(t, row)
<1> DEFINE q == [pc |-> "sent", conv |-> c, yesTo |-> yesTo, found |-> None,
                 card |-> FALSE, waiting |-> TRUE, sender |-> TRUE]
<1>1. /\ request' = [request EXCEPT ![r] = q] /\ request[r].pc = "unsent"
      /\ q.pc = "sent" /\ q.conv = c /\ ~q.card /\ q.waiting /\ q.sender
  BY DEF Send, Unused
<1> HIDE DEF q
<1>2. /\ request'[r] = q
      /\ \A b \in Requests : b # r => /\ request'[b] = request[b]
                                      /\ \A by : RowOf(b, by)' = RowOf(b, by)
      /\ RowOf(r, "user")' = row
  BY <1>1, TypedParts DEF RowOf, Question
<1>3. row \in Rows /\ row.of = r /\ row.by = "user"
  BY RowIsRow DEF Question, Row
<1>4. t \in Seq(Rows) /\ \A x \in Range(t) : x.of \in Requests
  BY RowIn DEF Page
<1>5. \A x \in Range(t) : x.of # r
  BY <1>1 DEF ShownFits
<1>6. /\ Len(t) \in Nat /\ DOMAIN t = 1 .. Len(t) /\ DOMAIN a = 1 .. Len(t) + 1
      /\ Len(a) = Len(t) + 1
      /\ a[Len(t) + 1] = row /\ Range(a) = Range(t) \cup {row}
      /\ a \in Seq(Rows) /\ Once(a)
  BY <1>3, <1>4, <1>5, Longer, OnceLonger
<1>7. Waiting' = {r}
  BY <1>1, <1>2 DEF Waiting
<1>8. page' = [p EXCEPT !.turns = a, !.busy = TRUE]
  BY DEF Send
<1>9. /\ page'.turns = a /\ page'.busy = TRUE /\ page'.mounted /\ ~page'.threadLoading
      /\ ~page'.threadError /\ page'.loaded = c /\ page'.fetching = None
  BY <1>8 DEF Page
<1> HIDE DEF a, t, row
<1>10. \A x \in Requests : x # r => request[x].pc \notin {"sent", "thinking"}
  BY AllDone
<1>11. ASSUME NEW d \in Threads, NEW x \in Range(messages[d]) PROVE x.of # r
  <2>1. RowFits(x, d)
    BY DEF Tables, RowsFit
  <2> QED BY <1>1, <2>1 DEF RowFits
<1>12. Awaited(r)'
  <2>1. Readable' /\ page'.busy
    BY <1>9 DEF Readable
  <2>2. a # <<>> /\ a[Len(a)] = row
    BY <1>6
  <2>3. \A x \in Range(a) : x.of = r => x = row
    BY <1>5, <1>6
  <2>4. ASSUME c # None PROVE LastIn(r, messages'[c])
    <3>1. messages'[c] = messages[c] /\ c \in Threads
      BY <2>4 DEF Typed, TypeOK
    <3>2. \A i \in DOMAIN messages[c] : messages[c][i].of # r
      BY <1>11, <3>1 DEF Range
    <3> QED BY <3>1, <3>2 DEF LastIn
  <2>5. Waiting' = {r} /\ request'[r].sender /\ request'[r].conv = c /\ activeId' = c
    BY <1>1, <1>2, <1>7
  <2>6. a = page'.turns
    BY <1>9
  <2> QED BY <2>1, <2>2, <2>3, <2>4, <2>5, <2>6 DEF Awaited, row, Question
<1>13. \A b \in Requests : request'[b].pc \in {"sent", "thinking"} => b \in Waiting'
  BY <1>2, <1>7, <1>10
<1>14. TurnsFit'
  <2>1. ASSUME NEW x \in Range(page'.turns) PROVE ShownFits(x)'
    <3>1. CASE x = row
      <4>1. x = RowOf(r, "user")' /\ x.of = r /\ x.by = "user"
        BY <1>2, <1>3, <3>1
      <4> QED BY <1>7, <4>1 DEF ShownFits
    <3>2. CASE x \in Range(t)
      <4>1. ShownFits(x) /\ x.of # r /\ x.of \in Requests
        BY <1>4, <1>5, <3>2 DEF t
      <4>2. request'[x.of] = request[x.of] /\ RowOf(x.of, x.by)' = RowOf(x.of, x.by)
        BY <1>2, <4>1
      <4>3. x.of \notin Waiting
        OBVIOUS
      <4>4. CASE request[x.of].pc \in {"failed", "dead"}
        BY <4>1, <4>2, <4>4 DEF ShownFits
      <4>5. CASE activeId # None /\ request[x.of].pc = "answered" /\ request[x.of].conv = activeId
        BY <3>2, <4>1, <4>2, <4>5 DEF ShownFits, t
      <4> QED BY <4>1, <4>3, <4>4, <4>5 DEF ShownFits
    <3> QED BY <1>6, <1>9, <3>1, <3>2
  <2>2. ASSUME NEW d \in Threads, InUse(d)' PROVE Agrees(d)'
    <3>1. d = c /\ c # None
      BY <1>1, <1>2, <1>7, <2>2, NoneAssumption DEF InUse
    <3>2. messages[d] \in Seq(Rows) /\ messages'[d] = messages[d]
      BY DEF Typed, TypeOK
    <3>3. SameOrder(t, messages[d]) /\ GapAfterOldest(messages[d], Range(t))
      BY <3>1, SameBack DEF t
    <3>4. \A l, m \in DOMAIN messages[d] : messages[d][l] = row => FALSE
      BY <1>3, <1>11 DEF Range
    <3>5. row \notin Range(t)
      BY <1>3, <1>5
    <3>6. SameOrder(a, messages[d])
      BY <1>3, <1>4, <3>2, <3>3, <3>4, <3>5, SameLonger DEF a
    <3>7. SameOrder(messages'[d], page'.turns)
      BY <1>9, <3>2, <3>6, SameBack
    <3>8. \A x \in Range(messages[d]) : x \in Range(t) <=> x \in Seen(d)'
      BY <1>3, <1>6, <1>7, <1>9, <1>11, <3>2 DEF Seen
    <3>9. GapAfterOldest(messages'[d], Seen(d)')
      BY <3>2, <3>3, <3>8, GapSame
    <3> QED BY <3>7, <3>9 DEF Agrees
  <2> QED BY <1>6, <1>9, <2>1, <2>2 DEF TurnsFit
<1> QED BY <1>7, <1>9, <1>12, <1>13, <1>14 DEF InStep

LEMMA SendsInStep ==
    ASSUME Typed, Tables, InStep, NEW r \in Requests,
           Ask(r) \/ Approve(r) \/ AskFromDashboard(r), ~strayed'
    PROVE  InStep'
<1>1. UNCHANGED <<messages, lost>>
  BY SendSteps DEF tables
<1>2. ASSUME NEW yesTo \in Requests \cup {None}, UNCHANGED activeId, Readable, ~page.busy,
             Send(r, page, activeId, yesTo)
      PROVE  InStep'
  <2>1. Waiting = {}
    BY <1>2 DEF InStep, Awaited, Waiting
  <2>2. /\ Once(page.turns) /\ \A row \in Range(page.turns) : ShownFits(row)
        /\ activeId # None => Agrees(activeId)
    BY <1>2, TypedParts DEF InStep, TurnsFit, InUse, Typed, TypeOK
  <2>3. activeId # None => /\ SameOrder(messages[activeId], page.turns)
                           /\ GapAfterOldest(messages[activeId], Range(page.turns))
    <3>1. Seen(activeId) = Range(page.turns)
      BY <2>1 DEF Seen
    <3> QED BY <2>2, <3>1 DEF Agrees
  <2>4. page.fetching = None /\ page \in Page /\ activeId \in opened \cup {None}
    BY <1>2, TypedParts DEF Readable, PageFits
  <2> QED BY <1>1, <1>2, <2>1, <2>2, <2>3, <2>4, SendInStep DEF Readable
<1>3. ASSUME NEW yesTo \in Requests \cup {None}, AskFromDashboard(r), activeId' = None,
             Send(r, Opened, None, yesTo)
      PROVE  InStep'
  <2>1. Waiting = {}
    BY <1>3 DEF AskFromDashboard, Strays
  <2>2. Once(Opened.turns) /\ Range(Opened.turns) = {}
    BY OpenedPage DEF Once, Range
  <2> QED BY <1>1, <1>3, <2>1, <2>2, OpenedPage, SendInStep
<1> QED BY <1>2, <1>3, SendSteps

-----------------------------------------------------------------------------
(* The tab moves.                                                          *)

\* Nothing is awaited and the page goes elsewhere: it loads, or is empty.
LEMMA ElsewhereInStep ==
    ASSUME Typed, InStep, Waiting = {},
           \A b \in Requests : /\ request'[b].pc = request[b].pc
                               /\ request'[b].waiting = request[b].waiting,
           page'.fetching # None => ~page'.arrived,
           Readable' => page'.turns = <<>> /\ activeId' = None
    PROVE  InStep'
<1>1. Waiting' = {}
  BY DEF Waiting
<1>2. \A b \in Requests : request'[b].pc \notin {"sent", "thinking"}
  BY AllDone
<1>3. TurnsFit'
  <2>1. SUFFICES ASSUME Readable' PROVE TurnsFit'
    BY DEF TurnsFit
  <2>2. Range(page'.turns) = {} /\ Once(page'.turns)
    BY <2>1 DEF Range, Once
  <2>3. \A c \in Threads : ~InUse(c)'
    BY <1>1, <2>1, NoneAssumption DEF InUse
  <2> QED BY <2>2, <2>3 DEF TurnsFit
<1> QED BY <1>1, <1>2, <1>3 DEF InStep

\* Nothing of this matters to the page.
LEMMA SameInStep ==
    ASSUME InStep, UNCHANGED <<messages, request, activeId, page>>
    PROVE  InStep'
<1>1. Waiting' = Waiting /\ Readable' = Readable
  BY DEF Waiting, Readable
<1>2. \A r \in Requests : \A by : RowOf(r, by)' = RowOf(r, by)
  BY DEF RowOf
<1>3. \A r : Awaited(r) => Awaited(r)'
  BY <1>1 DEF Awaited
<1>4. TurnsFit'
  BY <1>1 DEF InStep, TurnsFit, ShownFits, InUse, Agrees, Seen, RowOf
<1> QED BY <1>1, <1>3, <1>4 DEF InStep

\* The shell shows conversation c, which is not the one open.
LEMMA ShowInStep ==
    ASSUME Typed, InStep, Waiting = {}, NEW p \in Page, NEW c \in opened \cup {None}, Show(p, c),
           UNCHANGED request, p.mounted, PageFits(p, activeId), p = page \/ p = Opened,
           UNCHANGED messages
    PROVE  InStep'
<1>1. activeId' = c /\ page' = IF <<c, p.loaded>> # <<activeId, page.loaded>> THEN Reacted(p, c) ELSE p
  BY DEF Show
<1>2. CASE <<c, p.loaded>> = <<activeId, page.loaded>> /\ p = page
  BY <1>1, <1>2, SameInStep
<1>3. CASE <<c, p.loaded>> = <<activeId, page.loaded>> /\ p = Opened
  <2>1. page' = Opened /\ activeId' = c
    BY <1>1, <1>3
  <2>2. Readable' => c = None
    BY <2>1, OpenedPage DEF Readable
  <2> QED BY <2>1, <2>2, OpenedPage, ElsewhereInStep
<1>4. CASE <<c, p.loaded>> # <<activeId, page.loaded>>
  <2>1. page' = Reacted(p, c) /\ activeId' = c
    BY <1>1, <1>4
  <2>2. CASE c = p.loaded
    <3>1. page' = [p EXCEPT !.fetching = None]
      BY <2>1, <2>2 DEF Reacted
    <3>2. page'.fetching = None /\ page'.turns = p.turns /\ page'.threadLoading = p.threadLoading
      BY <3>1 DEF Page
    <3>3. CASE p = page
      <4>1. p.threadLoading
        BY <1>4, <2>2, <3>3, TypedParts DEF PageFits
      <4> QED BY <3>2, <4>1, ElsewhereInStep DEF Readable
    <3>4. CASE p = Opened
      BY <2>1, <2>2, <3>2, <3>4, OpenedPage, ElsewhereInStep
    <3> QED BY <3>3, <3>4
  <2>3. CASE c # p.loaded /\ c = None
    <3>1. page'.fetching = None /\ page'.turns = <<>>
      BY <2>1, <2>3 DEF Reacted, Page
    <3> QED BY <2>1, <2>3, <3>1, ElsewhereInStep
  <2>4. CASE c # p.loaded /\ c # None
    <3>1. page'.threadLoading /\ ~page'.arrived
      BY <2>1, <2>4 DEF Reacted, Page
    <3> QED BY <3>1, ElsewhereInStep DEF Readable
  <2> QED BY <2>2, <2>3, <2>4
<1> QED BY <1>2, <1>3, <1>4

\* With nothing awaited, the reader may go anywhere.
LEMMA NavigationInStep ==
    ASSUME Typed, InStep, ~strayed', strayed \in BOOLEAN,
           \/ \E c \in Threads : Open(c)
           \/ StartNew \/ Leave \/ OpenFromDashboard
    PROVE  InStep'
<1>1. Waiting = {}
  BY DEF Open, StartNew, Leave, OpenFromDashboard, Strays
<1>2. ASSUME NEW c \in Threads, Open(c) PROVE InStep'
  <2>1. c \in opened /\ Show(page, c) /\ page.mounted /\ UNCHANGED <<messages, request>>
    BY <1>2 DEF Open, Listed, tables
  <2> QED BY <1>1, <2>1, ShowInStep, TypedParts
<1>3. CASE StartNew
  <2>1. Show(page, None) /\ page.mounted /\ UNCHANGED <<messages, request>>
    BY <1>3 DEF StartNew, tables
  <2> QED BY <1>1, <2>1, ShowInStep, TypedParts
<1>4. CASE Leave
  <2>1. \A b \in Requests : /\ request'[b].pc = request[b].pc
                            /\ request'[b].waiting = request[b].waiting
    BY <1>4, TypedParts DEF Leave, Request
  <2>2. page'.fetching = None /\ ~page'.mounted
    BY <1>4, OpenedPage DEF Leave
  <2> QED BY <1>1, <2>1, <2>2, ElsewhereInStep DEF Readable
<1>5. CASE OpenFromDashboard
  <2>1. page' = Opened /\ activeId' = None /\ UNCHANGED request
    BY <1>5 DEF OpenFromDashboard
  <2> QED BY <1>1, <2>1, OpenedPage, ElsewhereInStep
<1> QED BY <1>2, <1>3, <1>4, <1>5

LEMMA ReturnInStep == ASSUME Typed, InStep, Return PROVE InStep'
<1>1. ~page.mounted /\ page' = Reacted(Opened, activeId) /\ UNCHANGED <<request, activeId>>
  BY DEF Return
<1>2. Waiting = {}
  BY <1>1, AtRest DEF Readable
<1>3. CASE activeId = None
  <2>1. page' = [Opened EXCEPT !.fetching = None]
    BY <1>1, <1>3, OpenedPage DEF Reacted
  <2>2. page'.fetching = None /\ page'.turns = <<>>
    BY <2>1, OpenedPage DEF Page
  <2> QED BY <1>1, <1>2, <1>3, <2>2, ElsewhereInStep
<1>4. CASE activeId # None
  <2>1. page'.threadLoading /\ ~page'.arrived
    BY <1>1, <1>4, OpenedPage DEF Reacted, Page
  <2> QED BY <1>1, <1>2, <2>1, ElsewhereInStep DEF Readable
<1> QED BY <1>3, <1>4

LEMMA TryAgainInStep == ASSUME Typed, InStep, TryAgain PROVE InStep'
<1> DEFINE p == [page EXCEPT !.loaded = None]
<1>1. page.threadError /\ page' = Reacted(p, activeId) /\ UNCHANGED <<request, activeId>>
  BY DEF TryAgain
<1>2. Waiting = {}
  BY <1>1, AtRest DEF Readable
<1>3. p \in Page /\ p.loaded = None /\ p.threadError = page.threadError
  BY TypedParts DEF Page
<1> HIDE DEF p
<1>4. CASE activeId = None
  <2>1. page' = [p EXCEPT !.fetching = None]
    BY <1>1, <1>3, <1>4 DEF Reacted
  <2>2. page'.fetching = None /\ page'.threadError
    BY <1>1, <1>3, <2>1 DEF Page
  <2> QED BY <1>1, <1>2, <2>2, ElsewhereInStep DEF Readable
<1>5. CASE activeId # None
  <2>1. page'.threadLoading /\ ~page'.arrived
    BY <1>1, <1>3, <1>5 DEF Reacted, Page
  <2> QED BY <1>1, <1>2, <2>1, ElsewhereInStep DEF Readable
<1> QED BY <1>4, <1>5

LEMMA RemovedInStep == ASSUME Typed, InStep, Removed, ~strayed' PROVE InStep'
<1>1. UNCHANGED <<messages, request>>
  BY DEF Removed
<1>2. CASE ~removing.wasActive
  BY <1>1, <1>2, SameInStep DEF Removed
<1>3. CASE removing.wasActive
  <2> DEFINE p == IF page.mounted THEN page ELSE Opened
  <2>1. Show(p, None) /\ Waiting = {}
    BY <1>3 DEF Removed, Strays
  <2>2. CASE page.mounted
    BY <1>1, <2>1, <2>2, ShowInStep, TypedParts
  <2>3. CASE ~page.mounted
    <3>1. page' = Opened \/ page' = [Opened EXCEPT !.fetching = None]
      BY <2>1, <2>3, OpenedPage DEF Show, Reacted
    <3>2. page'.fetching = None /\ page'.turns = <<>> /\ activeId' = None
      BY <2>1, <3>1, OpenedPage DEF Page, Show
    <3> QED BY <1>1, <2>1, <3>2, ElsewhereInStep
  <2> QED BY <2>2, <2>3
<1> QED BY <1>2, <1>3

\* A thread that is loaded is the thread as it still is, but for the newest rows
\* that the load leaves out: nobody writes to it.
LEMMA FetchInStep ==
    ASSUME Typed, Tables, InStep, FetchReads \/ FetchArrives \/ FetchFails PROVE InStep'
<1>1. UNCHANGED <<messages, request, activeId>>
  BY DEF FetchReads, FetchArrives, FetchFails, tables
<1>2. page.fetching # None /\ page.fetching = activeId /\ page.mounted /\ page.threadLoading
  BY TypedParts DEF FetchReads, FetchArrives, FetchFails, PageFits
<1>3. Waiting = {} /\ Waiting' = {}
  BY <1>1, <1>2, AtRest DEF Readable, Waiting
<1>4. \A b \in Requests : request'[b].pc \notin {"sent", "thinking"}
  BY <1>1, <1>3, AllDone
<1>5. CASE FetchReads
  <2>1. page'.fetched = Oldest(messages'[page'.fetching]) /\ page'.threadLoading
    BY <1>1, <1>2, <1>5, TypedParts DEF FetchReads, Page
  <2> QED BY <1>3, <1>4, <2>1 DEF InStep, TurnsFit, Readable
<1>6. CASE FetchFails
  <2>1. page'.fetching = None /\ page'.threadError
    BY <1>6, TypedParts DEF FetchFails, Page
  <2> QED BY <1>1, <1>3, <2>1, ElsewhereInStep DEF Readable
<1>7. CASE FetchArrives
  <2> DEFINE c == activeId
  <2>1. page'.fetching = None /\ page'.turns = page.fetched
    BY <1>7, TypedParts DEF FetchArrives, Page
  <2>2. page.fetched = Oldest(messages[c]) /\ c \in Threads /\ c # None
        /\ messages[c] \in Seq(Rows)
    BY <1>2, <1>7, TypedParts DEF FetchArrives, InStep, Typed, TypeOK
  <2> HIDE DEF c
  <2>3. Once(messages[c])
    BY <2>2 DEF Tables, RowsFit
  <2> DEFINE o == Oldest(messages[c])
  <2>o. /\ page'.turns = o /\ Once(o) /\ SameOrder(messages[c], o)
        /\ GapAfterOldest(messages[c], Range(o)) /\ Range(o) \subseteq Range(messages[c])
    BY <2>1, <2>2, <2>3, OldestShown, OldestRows
  <2> HIDE DEF o
  <2>4. ASSUME NEW row \in Range(o) PROVE ShownFits(row)'
    <3>1. RowFits(row, c) /\ row.of \in Requests
      BY <2>2, <2>o, StoredRow DEF Tables, RowsFit
    <3>2. request[row.of].pc \in {"answered", "failed", "dead"}
      BY <1>3, <3>1, AllDone DEF RowFits
    <3>3. RowOf(row.of, row.by)' = RowOf(row.of, row.by)
      BY <1>1, <3>1 DEF RowOf
    <3> QED BY <1>1, <2>2, <3>1, <3>2, <3>3 DEF ShownFits, RowFits, c
  <2>5. ASSUME NEW d \in Threads, InUse(d)' PROVE Agrees(d)'
    <3>1. d = c
      BY <1>1, <1>3, <2>5 DEF InUse, c
    <3>2. messages'[d] = messages[c] /\ Seen(d)' = Range(o)
      BY <1>1, <1>3, <2>o, <3>1 DEF Seen
    <3> QED BY <2>o, <3>2 DEF Agrees
  <2>6. TurnsFit'
    BY <2>o, <2>4, <2>5 DEF TurnsFit
  <2> QED BY <1>3, <1>4, <2>1, <2>6 DEF InStep
<1> QED BY <1>5, <1>6, <1>7

-----------------------------------------------------------------------------
(* The answer is heard.                                                    *)

\* The row of r is shown at the end of the page, and r is no longer awaited.
LEMMA HearingInStep ==
    ASSUME Typed, Tables, InStep, NEW r \in Waiting, Heard(r), UNCHANGED messages,
           request[r].pc \in Over,
           page'.turns = Append(page.turns, RowOf(r, "assistant")), page'.fetching = None,
           \/ /\ request[r].pc = "answered" /\ activeId' = request[r].conv
              /\ activeId' # None
           \/ /\ request[r].pc \in {"failed", "dead"} /\ activeId' = activeId
    PROVE  InStep'
<1> DEFINE row == RowOf(r, "assistant")
           t == page.turns
           a == Append(t, row)
<1>1. r \in Requests /\ Awaited(r)
  BY DEF InStep, Waiting
<1>2. row \in Rows /\ row.of = r /\ row.by = "assistant"
  BY <1>1, RowIsRow, TypedParts DEF RowOf, Row, Request
<1>3. /\ \A b \in Requests : request'[b].pc = request[b].pc /\ request'[b].conv = request[b].conv
                             /\ \A by : RowOf(b, by)' = RowOf(b, by)
      /\ Waiting' = {}
  BY <1>1, HeardType DEF Awaited, RowOf
<1>4. t \in Seq(Rows) /\ Once(t) /\ \A x \in Range(t) : ShownFits(x) /\ x.of \in Requests
  BY <1>1, PageRows DEF InStep, TurnsFit, Awaited
<1>5. row \notin Range(t)
  BY <1>1, <1>2 DEF Awaited, Question, Row
<1>6. /\ Range(a) = Range(t) \cup {row} /\ Once(a)
  BY <1>2, <1>4, <1>5, Longer, OnceLonger
<1> HIDE DEF row, t, a
<1>7. page'.turns = a
  BY DEF a, t, row
<1>8. \A b \in Requests : request'[b].pc \notin {"sent", "thinking"}
  <2>1. \A b \in Requests : request[b].pc \in {"sent", "thinking"} => b = r
    BY <1>1 DEF InStep, Awaited
  <2> QED BY <1>1, <1>3, <2>1 DEF Over
<1>9. ASSUME NEW x \in Range(a) PROVE ShownFits(x)'
  <2>1. CASE x.of = r
    <3>1. x = RowOf(r, x.by)
      BY <1>4, <1>6, <1>2, <2>1 DEF ShownFits, row
    <3>2. request'[r].pc \in {"failed", "dead"}
            \/ (activeId' # None /\ request'[r].pc = "answered" /\ request'[r].conv = activeId')
      BY <1>1, <1>3
    <3>3. x = RowOf(r, x.by)'
      BY <1>1, <1>3, <3>1
    <3> QED BY <2>1, <3>2, <3>3 DEF ShownFits
  <2>2. CASE x.of # r
    <3>1. x \in Range(t)
      BY <1>2, <1>6, <2>2
    <3>2. ShownFits(x) /\ x.of \in Requests /\ x.of \notin Waiting
      BY <1>1, <1>4, <2>2, <3>1 DEF Awaited
    <3>3. x = RowOf(x.of, x.by)'
      BY <1>3, <3>2 DEF ShownFits
    <3>4. CASE request[x.of].pc \in {"failed", "dead"}
      BY <1>3, <3>2, <3>3, <3>4 DEF ShownFits
    <3>5. CASE activeId # None /\ request[x.of].pc = "answered" /\ request[x.of].conv = activeId
      <4>1. activeId' = activeId
        BY <1>1, <3>5 DEF Awaited
      <4> QED BY <1>3, <3>2, <3>3, <3>5, <4>1 DEF ShownFits
    <3> QED BY <3>2, <3>4, <3>5 DEF ShownFits
  <2> QED BY <2>1, <2>2
<1>10. ASSUME NEW c \in Threads, InUse(c)' PROVE Agrees(c)'
  <2>1. c = activeId' /\ request[r].conv = c
    BY <1>1, <1>3, <1>10, NoneAssumption DEF InUse, Awaited
  <2>2. Agrees(c)
    BY <1>1, <2>1 DEF InStep, TurnsFit, InUse, Awaited
  <2> DEFINE s == messages[c]
  <2>3. s \in Seq(Rows) /\ Once(s) /\ LastIn(r, s) /\ messages'[c] = s
    BY <1>1, <2>1, NoneAssumption DEF Typed, TypeOK, Tables, RowsFit, Awaited
  <2>4. \A x \in Range(s) : x = RowOf(x.of, x.by) /\ x.of \in Requests /\ x.by \in {"user", "assistant"}
    BY StoredRow DEF Tables, RowsFit, RowFits
  <2> HIDE DEF s
  <2>5. SameOrder(t, s) /\ GapAfterOldest(s, Seen(c))
        /\ \A x \in Range(s) : x \in Seen(c) <=> x.of = r \/ x \in Range(t)
    BY <1>1, <2>2, SameBack DEF Agrees, Seen, Awaited, s, t
  <2>6. \A l, m \in DOMAIN s : s[l] = row /\ l < m => s[m] \notin Range(t) \cup {row}
    <3>1. SUFFICES ASSUME NEW l \in DOMAIN s, NEW m \in DOMAIN s, s[l] = row, l < m
                   PROVE  FALSE
      OBVIOUS
    <3>2. s[m].of = r /\ s[m].by = "assistant" /\ s[m] \in Range(s)
      BY <1>2, <2>3, <3>1 DEF LastIn, Range
    <3>3. s[m] = row
      BY <2>4, <3>2 DEF row
    <3>4. l = m
      BY <2>3, <3>1, <3>3 DEF Once
    <3>5. l \in Nat
      BY <2>3
    <3> QED BY <3>1, <3>4, <3>5
  <2>7. SameOrder(a, s)
    BY <1>2, <1>4, <1>5, <2>3, <2>5, <2>6, SameLonger DEF a
  <2>8. \A x \in Range(s) : x \in Seen(c) <=> x \in Range(a)
    <3>1. ASSUME NEW x \in Range(s), x.of = r PROVE x \in Range(a)
      <4>1. CASE x.by = "assistant"
        BY <1>6, <2>4, <3>1, <4>1 DEF row
      <4>2. CASE x.by = "user"
        <5>1. x = Question(r)
          BY <2>4, <3>1, <4>2 DEF RowOf, Question
        <5>2. Question(r) \in Range(t)
          <6>1. t # <<>> /\ t[Len(t)] = Question(r)
            BY <1>1 DEF Awaited, t
          <6>2. Len(t) \in DOMAIN t
            BY <1>4, <6>1
          <6> QED BY <6>1, <6>2 DEF Range
        <5> QED BY <1>6, <5>1, <5>2
      <4> QED BY <2>4, <4>1, <4>2
    <3> QED BY <1>2, <1>6, <2>5, <3>1
  <2>9. Seen(c)' = Range(a)
    BY <1>3, <1>7 DEF Seen
  <2>10. GapAfterOldest(s, Range(a))
    BY <2>3, <2>5, <2>8, GapSame
  <2> QED BY <1>7, <2>3, <2>7, <2>9, <2>10, SameBack DEF Agrees
<1>11. TurnsFit'
  BY <1>6, <1>7, <1>9, <1>10 DEF TurnsFit
<1> QED BY <1>3, <1>8, <1>11 DEF InStep

\* The two ways to hear.
LEMMA HearFailureInStep ==
    ASSUME Typed, Tables, InStep, NEW r \in Requests, HearFailure(r) PROVE InStep'
<1>1. r \in Waiting /\ request[r].pc \in {"failed", "dead"} /\ Heard(r)
      /\ UNCHANGED <<messages, activeId>>
  BY DEF HearFailure, Waiting, tables
<1>2. Awaited(r)
  BY <1>1 DEF InStep
<1>3. RowOf(r, "assistant") = Failure(r)
  <2>1. RequestFits(r) /\ request[r].card \in BOOLEAN
    BY TypedParts DEF Tables, RequestsFit, Request
  <2>2. request[r].card = FALSE
    BY <1>1, <2>1 DEF RequestFits
  <2> QED BY <2>2 DEF RowOf, Failure
<1>4. page' = WithTurn(page, Failure(r))
  BY <1>2 DEF HearFailure, Sender, Awaited
<1>5. page.fetching = None
  BY <1>1, AtRest
<1>6. page'.turns = Append(page.turns, Failure(r)) /\ page'.fetching = None
  BY <1>4, <1>5, TypedParts DEF WithTurn, Page
<1> QED BY <1>1, <1>3, <1>6, HearingInStep DEF Over

LEMMA HearAnswerInStep ==
    ASSUME Typed, Tables, InStep, NEW r \in Requests, HearAnswer(r) PROVE InStep'
<1> DEFINE row == Row(r, "assistant", request[r].card)
           c == request[r].conv
           p == [WithTurn(page, row) EXCEPT !.loaded = c]
<1>1. r \in Waiting /\ request[r].pc = "answered" /\ Heard(r) /\ UNCHANGED messages
  BY DEF HearAnswer, Waiting, tables
<1>2. Awaited(r)
  BY <1>1 DEF InStep
<1>3. Show(p, c)
  BY <1>2 DEF HearAnswer, Sender, Awaited
<1>4. row = RowOf(r, "assistant")
  BY DEF RowOf
<1>5. c # None
  BY <1>1 DEF Tables, RequestsFit, RequestFits
<1>6. page.fetching = None
  BY <1>1, AtRest
<1> HIDE DEF c, row
<1>7. /\ p.turns = Append(page.turns, row) /\ p.fetching = None /\ p.loaded = c
  BY <1>6, TypedParts DEF WithTurn, Page
<1> HIDE DEF p
<1>8. page' = p \/ page' = [p EXCEPT !.fetching = None]
  BY <1>3, <1>7 DEF Show, Reacted
<1>9. page'.turns = Append(page.turns, row) /\ page'.fetching = None /\ activeId' = c
  BY <1>3, <1>7, <1>8 DEF Show, p, WithTurn
<1> QED BY <1>1, <1>4, <1>5, <1>9, HearingInStep DEF c, Over

\* While the reader has not strayed, every step keeps the tab in step.
LEMMA FollowedStep ==
    ASSUME Typed, Tables, Followed, [Next]_vars PROVE Followed'
<1>1. SUFFICES ASSUME ~strayed' PROVE InStep'
  BY DEF Followed
<1>a. UNCHANGED strayed \/ Strays \/ strayed' = TRUE
  <2>1. CASE UNCHANGED vars
    BY <2>1 DEF vars, history
  <2>2. CASE \E r \in Requests : Serve(r) \/ Refuse(r) \/ Die(r)
    BY <2>2 DEF Serve, Receive, Answer, Fail, Refuse, Die, Stops
  <2>3. CASE \E r \in Requests : Hear(r) \/ LineBreaks(r)
    BY <2>3 DEF Hear, HearAnswer, HearFailure, LineBreaks, history
  <2>4. CASE \E r \in Requests : Ask(r) \/ Approve(r) \/ AskFromDashboard(r)
    BY <2>4 DEF Ask, Approve, AskFromDashboard, history
  <2>5. CASE \E c \in Threads : Open(c) \/ RemoveThread(c)
    BY <2>5 DEF Open, RemoveThread, history
  <2>6. CASE Removed
    BY <2>6 DEF Removed
  <2>7. CASE \/ StartNew \/ Leave \/ Return \/ OpenFromDashboard \/ TryAgain \/ RemoveFails
             \/ FetchReads \/ FetchArrives \/ FetchFails
    BY <2>7 DEF StartNew, Leave, Return, OpenFromDashboard, TryAgain, RemoveFails,
                FetchReads, FetchArrives, FetchFails, history
  <2> QED BY <2>1, <2>2, <2>3, <2>4, <2>5, <2>6, <2>7 DEF Next, Fetch
<1>2. strayed \in BOOLEAN /\ ~strayed
  BY <1>1, <1>a, TypedParts DEF Strays
<1>3. InStep
  BY <1>1, <1>2 DEF Followed
<1>4. CASE UNCHANGED vars
  BY <1>3, <1>4, SameInStep DEF vars, tables
<1>5. ASSUME NEW r \in Requests, LineBreaks(r) PROVE FALSE
  BY <1>1, <1>5 DEF LineBreaks
<1>6. CASE RemoveFails \/ \E c \in Threads : RemoveThread(c)
  BY <1>3, <1>6, SameInStep DEF RemoveFails, RemoveThread, tables
<1>7. CASE \E r \in Requests : Serve(r) \/ Refuse(r) \/ Die(r)
  BY <1>3, <1>7, ReceiveInStep, AnswerInStep, FailInStep, StopsInStep DEF Serve, Refuse, Die
<1>8. CASE \E r \in Requests : Ask(r) \/ Approve(r) \/ AskFromDashboard(r)
  BY <1>1, <1>3, <1>8, SendsInStep
<1>9. CASE \E r \in Requests : Hear(r)
  BY <1>3, <1>9, HearFailureInStep, HearAnswerInStep DEF Hear
<1>10. CASE \/ \E c \in Threads : Open(c)
            \/ StartNew \/ Leave \/ OpenFromDashboard
  BY <1>1, <1>2, <1>3, <1>10, NavigationInStep
<1>11. CASE Return \/ TryAgain \/ Removed \/ FetchReads \/ FetchArrives \/ FetchFails
  BY <1>1, <1>3, <1>11, ReturnInStep, TryAgainInStep, RemovedInStep, FetchInStep
<1> QED BY <1>4, <1>5, <1>6, <1>7, <1>8, <1>9, <1>10, <1>11 DEF Next, Fetch

\* With nothing awaited, to be in step is to show what is stored.
LEMMA InStepShows == Typed /\ Tables /\ Followed => ShownIsStored
<1> SUFFICES ASSUME Typed, Tables, Followed, Readable, activeId # None, Waiting = {}, ~strayed
             PROVE  /\ \A row \in Range(page.turns) :
                          Here(row) /\ ~Missing(row) => row \in Range(messages[activeId])
                    /\ GapAfterOldest(messages[activeId], Range(page.turns))
                    /\ SameOrder(messages[activeId], page.turns)
                    /\ \A row \in Range(page.turns) :
                          Here(row) \/ request[row.of].pc \in {"failed", "dead"}
  BY DEF ShownIsStored
<1>1. InStep /\ activeId \in Threads
  BY TypedParts DEF Followed, Typed, TypeOK
<1>2. Agrees(activeId) /\ \A row \in Range(page.turns) : ShownFits(row) /\ row.of \in Requests
  BY <1>1, PageRows DEF InStep, TurnsFit, InUse
<1>3. \A row \in Range(page.turns) : Here(row) \/ request[row.of].pc \in {"failed", "dead"}
  BY <1>2 DEF ShownFits, Here
<1>4. Seen(activeId) = Range(page.turns)
  BY DEF Seen
<1>5. ASSUME NEW row \in Range(page.turns), Here(row), ~Missing(row)
      PROVE  row \in Range(messages[activeId])
  <2>1. NothingGoes(row.of) /\ ShownFits(row) /\ row.of \in Requests /\ row.by \in {"user", "assistant"}
    BY <1>2, PageRows DEF Tables, RequestsFit
  <2>2. request[row.of].pc \in Over
    BY <2>1 DEF ShownFits, Over
  <2>3. IsStored(row.of, row.by)
    <3>1. CASE row.by = "user"
      BY <1>5, <2>1, <2>2, <3>1 DEF NothingGoes, Missing
    <3>2. CASE row.by = "assistant"
      BY <1>5, <2>1, <2>2, <3>2 DEF NothingGoes, Missing
    <3> QED BY <2>1, <3>1, <3>2
  <2> QED BY <1>5, <2>1, <2>3 DEF IsStored, ShownFits, Here
<1> QED BY <1>2, <1>3, <1>4, <1>5 DEF Agrees

\* A reader who waits for her answers sees rows the server keeps of the
\* conversation that is open, once each and in their order: all of them while
\* they are no more than a load returns, and else all but a block after the
\* oldest HistoryRows, which a load has left out.
THEOREM WhatIsShownIsStored == Spec => []ShownIsStored
<1>1. Init => Typed /\ Tables /\ Followed
  BY InitTyped, InitTables, InitInStep DEF Followed
<1>2. Typed /\ Tables /\ Followed /\ [Next]_vars => (Typed /\ Tables /\ Followed)'
  BY TypedStep, TablesStep, TablesBelong, FollowedStep
<1> QED BY <1>1, <1>2, InStepShows, PTL DEF Spec
=============================================================================
