----------------------------- MODULE AgentRules -----------------------------
(***************************************************************************)
(* The deterministic rules around the model: what a message asks for       *)
(* (agent/request-intent.ts), which tools it may use, which earlier        *)
(* request it continues, and which replies may pass (agent/guards.ts).     *)
(*                                                                         *)
(* A message is what the patterns of the code find in it, a reply the set  *)
(* of things the patterns find it does.  Regular expressions are left out. *)
(***************************************************************************)
EXTENDS Naturals, Sequences, FiniteSets

Areas == {"mail", "calendar", "tasks", "contacts", "memory", "mailbox_settings",
          "identity", "teams", "files", "sharepoint"}

\* names: DOMAIN_PATTERNS that match.  words: "mail", an ordinary word for it;
\* "address", email address; "preference"; "event"; "task", a word for one.
\* idiom: the areas a phrase stands for when it names none.  is: the other
\* patterns that match.
Words   == {"mail", "address", "preference", "event", "task"}
Aspects == {"write",       \* asksForWrite
            "durable",     \* isDurableMemoryStatement
            "rule",        \* parseExplicitMemory finds a rule
            "revision",    \* isApprovalRevisionRequest
            "reference",   \* REFERENCE_WORDS
            "summary",     \* SUMMARY_WORDS
            "agenda",      \* upcoming, what is on
            "question",    \* a question mark
            "detail",      \* words that clarify: it, a date, again, check the diary
            "courtesy",    \* thanks, ok, sure
            "stock",       \* a question the fast path answers
            "Yes", "No"}   \* a decision, and nothing else
Message == [names : SUBSET Areas, words : SUBSET Words,
            idiom : SUBSET Areas, is : SUBSET Aspects]

\* What the patterns find in a reply.
Features == {"asksYes",     \* looksLikeApprovalPrompt
             "process",     \* looksLikeInternalProcess
             "noMatch",     \* says that nothing was found, or changed
             "asksDetail",  \* looksLikeMaterialClarification
             "claims",      \* ACTION_CLAIMS
             "refusesFile", \* FILE_REFUSAL
             "handover"}    \* IMPOSSIBLE_HANDOVER

\* A stored row: who, what it says, does it ask for a detail,
\* its steps, and the card it carries.
StoredRow == [by : {"user", "assistant"}, says : Message, asks : BOOLEAN,
              steps : SUBSET {"prepared", "ran", "cancelled"}, card : Nat]

UserRow(m) == [by |-> "user", says |-> m, asks |-> FALSE, steps |-> {}, card |-> 0]

-----------------------------------------------------------------------------
(* interpretRequest                                                        *)

\* The generic word gives way to the more specific area.
GivesWay(m, area) ==
    \/ /\ area = "mail"
       /\ \/ "mailbox_settings" \in m.names
          \/ "contacts" \in m.names /\ "address" \in m.words
          \/ "memory" \in m.names /\ "preference" \in m.words
          \/ "teams" \in m.names /\ "mail" \notin m.words
    \/ /\ area = "tasks"
       /\ "calendar" \in m.names /\ "event" \in m.words /\ "task" \notin m.words

ExplicitDomains(m) ==
    LET named == {area \in m.names : ~GivesWay(m, area)}
    IN  IF named = {} THEN m.idiom ELSE named

\* The areas of the latest of the last eight rows that names any.
ContextualDomains(history) ==
    LET recent  == {i \in 1 .. Len(history) :
                      i + 8 > Len(history) /\ ExplicitDomains(history[i].says) # {}}
        latest  == CHOOSE i \in recent : \A j \in recent : j <= i
    IN  IF recent = {} THEN {} ELSE ExplicitDomains(history[latest].says)

DomainsOf(m, history) ==
    IF ExplicitDomains(m) = {} /\ "reference" \in m.is
      THEN ContextualDomains(history) ELSE ExplicitDomains(m)

IsSummary(m, domains) ==
    \/ domains = {"mail"} /\ "summary" \in m.is
    \/ domains = {"calendar"} /\ m.is \cap {"summary", "agenda"} # {}

InterpretRequest(m, history) ==
    LET domains == DomainsOf(m, history) IN
    [domains   |-> domains,
     summary   |-> IsSummary(m, domains),
     operation |-> IF "write" \in m.is THEN "write"
                   ELSE IF domains # {} \/ m.is \cap {"question", "summary"} # {} THEN "read"
                   ELSE "conversation"]

-----------------------------------------------------------------------------
(* permittedToolsForIntent                                                 *)

ReadOnlyAreas == {"teams", "files", "sharepoint", "identity"}

\* The categories an intent opens; contacts and recipients need the directory.
Categories(intent) ==
    intent.domains \cup
        (IF \/ "contacts" \in intent.domains
            \/ intent.operation = "write" /\ intent.domains \cap {"mail", "calendar"} # {}
           THEN {"directory"} ELSE {})

\* Does it permit reading, and does it permit a tool that changes something.
PermittedTools(intent) ==
    IF intent.operation = "conversation" \/ intent.domains = {} THEN {}
    ELSE IF intent.operation = "read" THEN {"read"}
    ELSE IF Categories(intent) \subseteq ReadOnlyAreas THEN {"read"} ELSE {"read", "write"}

-----------------------------------------------------------------------------
(* guards.ts                                                               *)

\* checkCapability
CapabilityRefused(m) ==
    LET intent == InterpretRequest(m, <<>>) IN
    intent.operation = "write" /\ intent.domains \cap ReadOnlyAreas # {}

IsActionRequest(m) ==
    InterpretRequest(m, <<>>).operation = "write" \/ "durable" \in m.is

\* parseExplicitMemory finds a rule to remember.
StatesRule(m) == "rule" \in m.is

\* tryFastPath knows an answer that needs no model.
StockQuestion(m) == "stock" \in m.is

\* A step with a write tool that succeeded, or that waits for her Yes.
PreparedOrRun(row) == row.steps \cap {"prepared", "ran", "cancelled"} # {}

\* looksLikeMaterialClarification leaves out whatever asks to proceed.
AsksDetail(reply) == "asksDetail" \in reply /\ "asksYes" \notin reply

Clarifies(history, m) ==
    /\ "courtesy" \notin m.is
    /\ \/ "detail" \in m.is
       \/ /\ history # <<>>
          /\ history[Len(history)].by = "assistant"
          /\ history[Len(history)].asks

\* Mutation of Resolved: the row after the request is skipped.
ResolvedLater(history, i) == \E j \in i + 2 .. Len(history) : PreparedOrRun(history[j])

Resolved(history, i) == \E j \in i + 1 .. Len(history) : PreparedOrRun(history[j])

SameArea(m, goal) == ExplicitDomains(m) = {} \/
                     ExplicitDomains(m) \cap ExplicitDomains(goal) # {}

\* unresolvedActionGoal, as the position of the request: 0 for none,
\* Len(history) + 1 for the message itself.
UnresolvedActionGoal(history, m) ==
    LET asked  == {i \in 1 .. Len(history) : /\ i + 12 > Len(history)
                                             /\ history[i].by = "user"
                                             /\ IsActionRequest(history[i].says)}
        latest == CHOOSE i \in asked : \A j \in asked : j <= i
    IN  IF IsActionRequest(m) THEN Len(history) + 1
        ELSE IF \/ InterpretRequest(m, <<>>).summary
                \/ ~Clarifies(history, m) \/ asked = {} THEN 0
        ELSE IF SameArea(m, history[latest].says) /\ ~Resolved(history, latest) THEN latest
        ELSE 0

\* A reply that must not pass: it imitates a card or describes the workflow,
\* or a change was asked for and it neither found nothing nor asks for what is
\* missing.  changing: a goal, or a revision; empty: its reads found nothing.
InvalidActionReplyPrompt(reply, changing, empty) ==
    \/ "process" \in reply
    \/ changing /\ ~(empty /\ "noMatch" \in reply) /\ ~AsksDetail(reply)

InvalidActionReply(reply, changing, empty) ==
    \/ reply \cap {"asksYes", "process"} # {}
    \/ changing /\ ~(empty /\ "noMatch" \in reply) /\ ~AsksDetail(reply)

\* checkFileHonesty
FileOffence(reply, steps) ==
    "handover" \in reply \/ ("refusesFile" \in reply /\ "file" \notin steps)

\* checkClaims: an unbacked claim is replaced.
Checked(reply, steps) == IF "claims" \in reply /\ "ran" \notin steps THEN {} ELSE reply
=============================================================================
