--------------------------- MODULE ApprovalEngine ---------------------------
(***************************************************************************)
(* The approval engine: the table action_approvals (agent/approvals.ts),   *)
(* the chat turns that read and write it (agent/orchestrator.ts), and the  *)
(* execution of the approved tool (agent/registry.ts).                     *)
(*                                                                         *)
(* Turns run concurrently (two tabs, several server instances, a retry).   *)
(* Between two database statements of a turn any other turn may run, so a  *)
(* turn is a little program whose steps are its statements.  Everything    *)
(* between two statements is folded into the step before it.               *)
(*                                                                         *)
(* A turn is one POST /api/assistant/chat.  It may fail (a statement or    *)
(* the model throws: the route stores and sends an error reply) or be      *)
(* killed with the process at any point.                                   *)
(***************************************************************************)
EXTENDS Naturals, FiniteSets

CONSTANTS Turns,          \* chat requests, each used once
          Convs,          \* conversations
          NoConv,         \* the conversation of nothing
          Users,
          Owner,          \* Owner[c], the user a conversation belongs to
          MaxApprovals,   \* bound: rows ever inserted in action_approvals
          MaxIterations   \* MAX_ITERATIONS of the agent loop

ASSUME ApprovalsAssumption  == MaxApprovals \in Nat
ASSUME IterationsAssumption == MaxIterations \in Nat \ {0}
ASSUME NoConvAssumption     == NoConv \notin Convs
ASSUME OwnerAssumption      == Owner \in [Convs -> Users]

Ids == 1 .. MaxApprovals
NoApproval == 0

\* approvals.ts ApprovalStatus, and "absent" for a row not inserted yet.
Status == {"absent", "pending", "executing", "rejected", "executed", "failed",
           "expired"}

\* parseApprovalDecision: a turn says Yes, says No, or says anything else.
Kinds == {"approve", "reject", "other"}

VARIABLES
    \* ---- the table action_approvals; rows are numbered by created_at ----
    status,     \* status[a]
    convOf,     \* convOf[a], conversation_id
    stale,      \* rows whose expires_at has passed
    created,    \* number of rows inserted so far
    \* ---- the turns ----
    pc,         \* where turn t is
    kind,       \* what its message decides
    tconv,      \* its conversation
    target,     \* the approval row it holds in a local variable
    iter,       \* model calls made so far
    reply,      \* what the reply says
    \* ---- history, read by the properties only ----
    sentAt,     \* value of created when the message of t was sent
    authorised, \* approvals some turn has claimed
    effects,    \* effects[a], times the action of a changed Microsoft 365
    acted,      \* turns whose own execution changed Microsoft 365
    shown,      \* approvals whose card was delivered to the Director
    seen,       \* seen[t], the approvals shown when the message of t was sent
    movedOn     \* approvals older than a later, answered message

rows    == <<status, convOf, stale, created>>
history == <<sentAt, seen>>
vars == <<status, convOf, stale, created, pc, kind, tconv, target, iter, reply,
          sentAt, authorised, effects, acted, shown, seen, movedOn>>

Init ==
    /\ status = [a \in Ids |-> "absent"]
    /\ convOf = [a \in Ids |-> NoConv]
    /\ stale = {}
    /\ created = 0
    /\ pc = [t \in Turns |-> "idle"]
    /\ kind = [t \in Turns |-> "other"]
    /\ tconv = [t \in Turns |-> NoConv]
    /\ target = [t \in Turns |-> NoApproval]
    /\ iter = [t \in Turns |-> 0]
    /\ reply = [t \in Turns |-> "none"]
    /\ sentAt = [t \in Turns |-> 0]
    /\ authorised = {}
    /\ effects = [a \in Ids |-> 0]
    /\ acted = {}
    /\ shown = {}
    /\ seen = [t \in Turns |-> {}]
    /\ movedOn = {}

-----------------------------------------------------------------------------
(* Rows as the statements' WHERE clauses see them.                         *)

Pending(a)   == status[a] = "pending"
Claimable(a) == Pending(a) /\ a \notin stale
PendingIn(c) == {a \in Ids : Pending(a) /\ convOf[a] = c}

At(t, l)   == pc[t] = l
Goto(t, l) == pc' = [pc EXCEPT ![t] = l]

\* The turn has its result and goes on to send and store the reply.
Answer(t, r) == /\ Goto(t, "deliver")
                /\ reply' = [reply EXCEPT ![t] = r]

\* One guarded or unguarded "update action_approvals set status".
SetStatus(S, s) == status' = [a \in Ids |-> IF a \in S THEN s ELSE status[a]]

-----------------------------------------------------------------------------
(* The environment.                                                        *)

\* The Director sends a message; the route has resolved its conversation.
Send(t, k, c) ==
    /\ At(t, "idle")
    /\ Goto(t, "sweep")
    /\ kind' = [kind EXCEPT ![t] = k]
    /\ tconv' = [tconv EXCEPT ![t] = c]
    /\ sentAt' = [sentAt EXCEPT ![t] = created]
    /\ seen' = [seen EXCEPT ![t] = shown]
    /\ UNCHANGED <<rows, target, iter, reply, authorised, effects, acted,
                   shown, movedOn>>

\* The fifteen minutes of an approval run out (TTL_MS), decided or not.
TimePasses(a) ==
    /\ a \in (1 .. created) \ stale
    /\ stale' = stale \cup {a}
    /\ UNCHANGED <<status, convOf, created, pc, kind, tconv, target, iter,
                   reply, history, authorised, effects, acted, shown, movedOn>>

-----------------------------------------------------------------------------
(* pendingApproval: two statements, the sweep and the select.              *)

\* Mutation of Swept: "and status = 'pending'" forgotten.
SweptAny(t) == {a \in stale : Owner[convOf[a]] = Owner[tconv[t]]}

Swept(t) == {a \in stale : Pending(a) /\ Owner[convOf[a]] = Owner[tconv[t]]}

Sweep(t) ==
    /\ At(t, "sweep")
    /\ SetStatus(Swept(t), "expired")
    /\ Goto(t, "select")
    /\ UNCHANGED <<convOf, stale, created, kind, tconv, target, iter, reply,
                   history, authorised, effects, acted, shown, movedOn>>

\* Mutation of AfterSelect: a message that is not a decision lets the
\* pending proposal stand.
AfterSelectKeeps(t) ==
    IF kind[t] = "approve" THEN "claim"
    ELSE IF kind[t] = "reject" THEN "finish" ELSE "think"

\* Where a turn goes with the row it selected; "other" supersedes it.
AfterSelect(t) == IF kind[t] = "approve" THEN "claim" ELSE "finish"

\* "order by created_at desc limit 1"
SelectFound(t, a) ==
    /\ At(t, "select")
    /\ a \in PendingIn(tconv[t]) \ stale
    /\ \A b \in PendingIn(tconv[t]) \ stale : b <= a
    /\ target' = [target EXCEPT ![t] = a]
    /\ Goto(t, AfterSelect(t))
    /\ UNCHANGED <<rows, kind, tconv, iter, reply, history, authorised,
                   effects, acted, shown, movedOn>>

SelectNone(t) ==
    /\ At(t, "select")
    /\ PendingIn(tconv[t]) \subseteq stale
    /\ IF kind[t] = "other"
         THEN Goto(t, "think") /\ UNCHANGED reply
         ELSE Answer(t, "nothing pending")
    /\ UNCHANGED <<rows, kind, tconv, target, iter, history, authorised,
                   effects, acted, shown, movedOn>>

-----------------------------------------------------------------------------
(* finishApproval(.., 'rejected'): the update is guarded by the id alone.   *)

Finish(t) ==
    /\ At(t, "finish")
    /\ SetStatus({target[t]}, "rejected")
    /\ IF kind[t] = "reject"
         THEN Answer(t, "cancelled")
         ELSE Goto(t, "think") /\ UNCHANGED reply
    /\ UNCHANGED <<convOf, stale, created, kind, tconv, target, iter, history,
                   authorised, effects, acted, shown, movedOn>>

-----------------------------------------------------------------------------
(* executeApprovedTool                                                     *)

\* Mutations of ClaimMatches: the select's guards trusted, or its expiry.
ClaimMatchesAny(t)   == TRUE
ClaimMatchesStale(t) == Pending(target[t])

ClaimMatches(t) == Claimable(target[t])

\* claimApproval: one guarded update reserves the action.
Claim(t) ==
    /\ At(t, "claim")
    /\ ClaimMatches(t)
    /\ SetStatus({target[t]}, "executing")
    /\ authorised' = authorised \cup {target[t]}
    /\ Goto(t, "execute")
    /\ UNCHANGED <<convOf, stale, created, kind, tconv, target, iter, reply,
                   history, effects, acted, shown, movedOn>>

ClaimLost(t) ==
    /\ At(t, "claim")
    /\ ~ClaimMatches(t)
    /\ Answer(t, "no longer available")
    /\ UNCHANGED <<rows, kind, tconv, target, iter, history, authorised,
                   effects, acted, shown, movedOn>>

\* The stored tool is gone, or its stored arguments no longer validate.
CheckFails(t) ==
    /\ At(t, "execute")
    /\ reply' = [reply EXCEPT ![t] = "not executed"]
    /\ Goto(t, "record")
    /\ UNCHANGED <<rows, kind, tconv, target, iter, history, authorised,
                   effects, acted, shown, movedOn>>

\* tool.execute: one consequential Graph call, never retried by the client.
\* It changes Microsoft 365 or not, and the turn hears one of three answers:
\* success, "graph_unavailable" (no answer, or a 5xx: the outcome is unknown),
\* or any other error.  The last is normally a refusal (401, 403, 404, 429),
\* but a response body lost after the status line throws a plain error too.
Execute(t, changed, answer) ==
    /\ At(t, "execute")
    /\ answer = "executed" => changed
    /\ effects' = [effects EXCEPT ![target[t]] = @ + IF changed THEN 1 ELSE 0]
    /\ acted' = IF changed THEN acted \cup {t} ELSE acted
    /\ reply' = [reply EXCEPT ![t] = answer]
    /\ Goto(t, "record")
    /\ UNCHANGED <<rows, kind, tconv, target, iter, history, authorised,
                   shown, movedOn>>

\* recordApprovalStatus: a failing audit write is logged and swallowed.
Record(t, written) ==
    /\ At(t, "record")
    /\ IF written
         THEN SetStatus({target[t]},
                        IF reply[t] = "executed" THEN "executed" ELSE "failed")
         ELSE UNCHANGED status
    /\ Goto(t, "deliver")
    /\ UNCHANGED <<convOf, stale, created, kind, tconv, target, iter, reply,
                   history, authorised, effects, acted, shown, movedOn>>

-----------------------------------------------------------------------------
(* The rest of runAgent, for a message that is not a decision.             *)

\* A refused capability, a deterministic fast path, or an explicit memory
\* statement: no model call.
Direct(t) ==
    /\ At(t, "think")
    /\ iter[t] = 0
    /\ \/ Answer(t, "answer")
       \/ Goto(t, "expireOld") /\ UNCHANGED reply
    /\ UNCHANGED <<rows, kind, tconv, target, iter, history, authorised,
                   effects, acted, shown, movedOn>>

\* Mutation of MayIterate: the loop bound off by one.
MayIterateOnceMore(t) == iter[t] <= MaxIterations

MayIterate(t) == iter[t] < MaxIterations

\* One iteration of the agent loop: the model answers, reads (or has its
\* answer sent back for correction), or calls a write tool.
ModelCall(t) ==
    /\ At(t, "think")
    /\ MayIterate(t)
    /\ iter' = [iter EXCEPT ![t] = @ + 1]
    /\ \/ Answer(t, "answer")
       \/ UNCHANGED <<pc, reply>>
       \/ Goto(t, "expireOld") /\ UNCHANGED reply
    /\ UNCHANGED <<rows, kind, tconv, target, history, authorised, effects,
                   acted, shown, movedOn>>

\* Mutation of LoopEnded: nothing follows the loop's last iteration.
LoopEndedNever(t) == iter[t] > MaxIterations

LoopEnded(t) == iter[t] >= MaxIterations

RunOut(t) ==
    /\ At(t, "think")
    /\ LoopEnded(t)
    /\ Answer(t, "answer")
    /\ UNCHANGED <<rows, kind, tconv, target, iter, history, authorised,
                   effects, acted, shown, movedOn>>

-----------------------------------------------------------------------------
(* createApproval: two statements, not one transaction.                    *)

\* Mutation of Replaced: "and status = 'pending'" forgotten.
ReplacedAny(t) == {a \in 1 .. created : convOf[a] = tconv[t]}

Replaced(t) == PendingIn(tconv[t])

ExpireOld(t) ==
    /\ At(t, "expireOld")
    /\ SetStatus(Replaced(t), "expired")
    /\ Goto(t, "insert")
    /\ UNCHANGED <<convOf, stale, created, kind, tconv, target, iter, reply,
                   history, authorised, effects, acted, shown, movedOn>>

\* Mutation of IndexAllows: no unique index.
IndexAllowsAny(t) == TRUE

\* The unique index action_approvals_one_pending_per_conversation lets the
\* insert through only when the conversation has no pending row.
IndexAllows(t) == PendingIn(tconv[t]) = {}

Insert(t) ==
    /\ At(t, "insert")
    /\ created < MaxApprovals
    /\ IndexAllows(t)
    /\ created' = created + 1
    /\ SetStatus({created + 1}, "pending")
    /\ convOf' = [convOf EXCEPT ![created + 1] = tconv[t]]
    /\ target' = [target EXCEPT ![t] = created + 1]
    /\ Answer(t, "card")
    /\ UNCHANGED <<stale, kind, tconv, iter, history, authorised, effects,
                   acted, shown, movedOn>>

\* The index refuses the row and nothing catches it before the route.  A
\* model out of rows (the bound MaxApprovals) ends the turn the same way.
InsertRefused(t) ==
    /\ At(t, "insert")
    /\ ~IndexAllows(t) \/ created = MaxApprovals
    /\ Answer(t, "error")
    /\ UNCHANGED <<rows, kind, tconv, target, iter, history, authorised,
                   effects, acted, shown, movedOn>>

-----------------------------------------------------------------------------
(* The route: the reply is stored and sent; failures end the turn.          *)

\* Approvals of t's conversation that existed when its message was sent.
Older(t) == {a \in Ids : a <= sentAt[t] /\ convOf[a] = tconv[t]}

Deliver(t) ==
    /\ At(t, "deliver")
    /\ Goto(t, "done")
    /\ shown' = IF reply[t] = "card" THEN shown \cup {target[t]} ELSE shown
    /\ movedOn' = IF kind[t] # "approve" /\ reply[t] # "error"
                    THEN movedOn \cup Older(t) ELSE movedOn
    /\ UNCHANGED <<rows, kind, tconv, target, iter, reply, history,
                   authorised, effects, acted>>

\* Mutation of MayThrow: a failing audit write throws out of the turn.
MayThrowRecording(t) == pc[t] \notin {"idle", "execute", "deliver", "done", "dead"}

\* Past the claim nothing throws: execute's errors and the audit write's are
\* caught.
MayThrow(t) == pc[t] \in {"sweep", "select", "finish", "claim", "think",
                          "expireOld", "insert"}

\* A statement, the model or a Graph read throws: runAgent rejects and the
\* route replies with the error.
Fail(t) ==
    /\ MayThrow(t)
    /\ Answer(t, "error")
    /\ UNCHANGED <<rows, kind, tconv, target, iter, history, authorised,
                   effects, acted, shown, movedOn>>

\* The process or the serverless invocation is killed.
Kill(t) ==
    /\ pc[t] \notin {"idle", "done", "dead"}
    /\ Goto(t, "dead")
    /\ UNCHANGED <<rows, kind, tconv, target, iter, reply, history,
                   authorised, effects, acted, shown, movedOn>>

-----------------------------------------------------------------------------
Answers == {"executed", "unconfirmed", "failed"}

Step(t) ==
    \/ Sweep(t) \/ SelectNone(t) \/ Finish(t)
    \/ \E a \in Ids : SelectFound(t, a)
    \/ Claim(t) \/ ClaimLost(t) \/ CheckFails(t)
    \/ \E changed \in BOOLEAN, answer \in Answers : Execute(t, changed, answer)
    \/ \E written \in BOOLEAN : Record(t, written)
    \/ Direct(t) \/ ModelCall(t) \/ RunOut(t)
    \/ ExpireOld(t) \/ Insert(t) \/ InsertRefused(t)
    \/ Deliver(t)

Next ==
    \/ \E t \in Turns : Step(t) \/ Fail(t) \/ Kill(t)
                        \/ \E k \in Kinds, c \in Convs : Send(t, k, c)
    \/ \E a \in Ids : TimePasses(a)

Spec == Init /\ [][Next]_vars

\* A request the platform is still running goes on; nothing else is promised.
Fairness == \A t \in Turns : WF_vars(Step(t))

FairSpec == Spec /\ Fairness

-----------------------------------------------------------------------------
(* Properties                                                              *)

PCs == {"idle", "sweep", "select", "claim", "execute", "record", "finish",
        "think", "expireOld", "insert", "deliver", "done", "dead"}

Replies == Answers \cup {"none", "nothing pending", "cancelled",
             "no longer available", "not executed", "answer", "card", "error"}

\* Every variable holds a value of its kind.
TypeOK ==
    /\ status \in [Ids -> Status]
    /\ convOf \in [Ids -> Convs \cup {NoConv}]
    /\ stale \subseteq Ids
    /\ created \in 0 .. MaxApprovals
    /\ pc \in [Turns -> PCs]
    /\ kind \in [Turns -> Kinds]
    /\ tconv \in [Turns -> Convs \cup {NoConv}]
    /\ target \in [Turns -> Ids \cup {NoApproval}]
    /\ iter \in [Turns -> 0 .. MaxIterations]
    /\ reply \in [Turns -> Replies]
    /\ sentAt \in [Turns -> 0 .. MaxApprovals]
    /\ authorised \subseteq Ids
    /\ effects \in [Ids -> Nat]
    /\ acted \subseteq Turns
    /\ shown \subseteq Ids
    /\ seen \in [Turns -> SUBSET Ids]
    /\ movedOn \subseteq Ids

\* An approved action changes Microsoft 365 at most once, however many Yes
\* messages race for it and whatever fails or is killed on the way
\* (claimApproval, executeApprovedTool).
AtMostOnce == \A a \in Ids : effects[a] <= 1

\* A pending proposal is the newest of its conversation, so that a Yes can
\* only mean the last proposal and at most one is pending (createApproval
\* and its unique index).
PendingIsNewest ==
    \A a, b \in Ids : Pending(a) /\ a < b /\ b <= created
                        => convOf[b] # convOf[a]

\* What the audit column says about the effect is true: a row recorded as
\* executed did change Microsoft 365, and a row that expired, is still
\* pending or was never claimed did not (recordApprovalStatus, the sweep and
\* the supersession in createApproval).
AuditTruth ==
    \A a \in Ids : /\ status[a] = "executed" => effects[a] = 1
                   /\ status[a] \in {"absent", "pending", "expired"}
                        => effects[a] = 0

\* The Director is told the truth about her own turn: "executed" only when
\* this turn changed Microsoft 365, and every reply that says nothing was
\* changed or that the confirmation was used only when this turn changed
\* nothing (orchestrator.ts, the catch of the chat route).
HonestReply ==
    \A t \in Turns :
        /\ reply[t] = "executed" => t \in acted
        /\ reply[t] \in {"nothing pending", "cancelled", "no longer available",
                         "not executed", "card", "answer", "error"}
             => t \notin acted

\* Once a message other than Yes has been answered, no proposal that existed
\* when it was sent can be claimed any more, by whatever turn and however
\* late (the supersession in runAgent, finishApproval).
MovedOnNeverAuthorised ==
    [][\A a \in movedOn : a \in authorised' => a \in authorised]_vars

\* The life of approval a, as the abstract specification sees it.
PhaseOf(a) == IF effects[a] > 0 THEN "acted"
              ELSE IF a \in authorised THEN "authorised"
              ELSE IF status[a] = "absent" THEN "absent"
              ELSE IF Claimable(a) THEN "proposed"
              ELSE "withdrawn"

Abstract == INSTANCE ApprovedAction
              WITH Actions <- Ids, Convs <- Convs \cup {NoConv},
                   phase <- [a \in Ids |-> PhaseOf(a)], home <- convOf

\* The engine implements the once-only action: a proposal is withdrawn for
\* good or authorised once, and acts at most once, only when authorised.
ImplementsApprovedAction == Abstract!Spec

\* Every message is answered, unless its process is killed: retries of the
\* model are bounded and no turn waits for another.
TurnTerminates ==
    \A t \in Turns : At(t, "sweep") ~> pc[t] \in {"done", "dead"}

-----------------------------------------------------------------------------
(* The inductive invariant the proofs rest on; the runs check it too.       *)

\* Rows: a row is absent until inserted, an effect follows a claim, a claimed
\* row never looks unclaimed again, and "executed" is written after the effect.
RowInv ==
    \A a \in Ids :
        /\ status[a] = "absent" <=> a > created
        /\ a \in stale => a <= created
        /\ status[a] \in {"absent", "pending", "expired"} => a \notin authorised
        /\ a \notin authorised => effects[a] = 0
        /\ effects[a] <= 1
        /\ status[a] = "executed" => effects[a] = 1

\* A turn that acts on a row, or shows its card, holds one.
Holding(t) == \/ pc[t] \in {"claim", "finish", "execute", "record"}
              \/ reply[t] = "card"

TargetInv == \A t \in Turns : Holding(t) => target[t] \in 1 .. created

\* Where a turn that has not executed anything yet may be.
Before == {"idle", "sweep", "select", "claim", "execute", "finish", "think",
           "expireOld", "insert"}

\* Turns: what the turn's local variables say about the row it holds.
TurnInv ==
    \A t \in Turns :
        /\ pc[t] # "idle" => tconv[t] \in Convs
        /\ pc[t] \in {"execute", "record"} => target[t] \in authorised
        /\ pc[t] = "execute" => effects[target[t]] = 0
        /\ pc[t] = "record" /\ reply[t] = "executed" => effects[target[t]] = 1
        /\ pc[t] \in Before => reply[t] = "none" /\ t \notin acted
        /\ t \in acted => reply[t] \in Answers
        /\ reply[t] = "executed" => t \in acted
        /\ pc[t] \in {"claim", "execute", "record"} => kind[t] = "approve"

\* No two turns are between the claim and the effect of one approval.
ClaimsDistinct ==
    \A t, u \in Turns : pc[t] = "execute" /\ pc[u] = "execute" /\ t # u
                           => target[t] # target[u]

\* A turn that is not a Yes has closed every older proposal once it is past
\* its supersession or rejection, and these proposals stay closed.
Closed(t) == \/ pc[t] \in {"think", "expireOld", "insert"}
             \/ pc[t] = "deliver" /\ reply[t] # "error"

MovedInv ==
    /\ \A a \in movedOn : a <= created /\ ~Claimable(a)
    /\ \A t \in Turns :
         /\ sentAt[t] <= created
         /\ kind[t] # "approve" /\ Closed(t)
              => \A a \in Older(t) : ~Claimable(a)
         /\ kind[t] # "approve" /\ pc[t] = "finish"
              => \A a \in Older(t) \ {target[t]} : ~Claimable(a)

IInv == /\ TypeOK /\ TargetInv /\ RowInv /\ TurnInv /\ ClaimsDistinct
        /\ PendingIsNewest /\ MovedInv

-----------------------------------------------------------------------------
(* What the documents say and the code does not do.                        *)

\* docs/AI_AGENT.md:55, "a rejection cancels it", and the reply "Cancelled.
\* Nothing was changed.": an approval whose card the Director had seen, and
\* whose rejection was acknowledged, never changes Microsoft 365.
RejectionCancels ==
    \A t \in Turns : reply[t] = "cancelled" /\ target[t] \in seen[t]
                        => effects[target[t]] = 0

\* graph/client.ts:80, "A send/create/update with an uncertain outcome must
\* return to the approval engine and be checked manually": a turn that changed
\* Microsoft 365 without hearing so reports the outcome as unconfirmed.
UncertainIsReported ==
    \A t \in acted : reply[t] \in {"executed", "unconfirmed"}
=============================================================================
