# Hermes in TLA+

Hermes is an executive assistant for one Director and her Microsoft 365 account: a Fastify API
(`apps/api`), a React client (`apps/web`), a Postgres database (`supabase/migrations`), the
Microsoft Graph and a hosted language model. These modules model the parts of it whose
correctness depends on the order in which things happen, check them with TLC and prove the
most important results with TLAPS. All paths below are relative to the root of the repository.

## 1. The system

What runs concurrently: HTTP requests (the client polls, several tabs, retried requests), on one
or more server processes or serverless invocations; timers inside a process; a scheduled
maintenance job; Microsoft 365 itself, which changes under the program and delivers change
notifications; and the client, whose requests go on when its reader has moved elsewhere. There is
no shared memory between processes and *no code uses a database transaction across statements*:
the unit of atomicity is one SQL statement. That is the granularity of every module here.

| Component | State | Operations | What makes it correct | Modules |
|---|---|---|---|---|
| Approval engine (`agent/approvals.ts`, `agent/registry.ts`, part of `agent/orchestrator.ts`, `routes/assistant.routes.ts`) | `action_approvals` | propose, supersede, reject, claim, execute, record, expire | an approved action acts at most once; a Yes means the last proposal; what is reported and audited is true | `ApprovalEngine`, `ApprovedAction` |
| Agent loop (`agent/orchestrator.ts`, `agent/guards.ts`, `agent/request-intent.ts`, `agent/fastpath.ts`, `memory/explicit.ts`) | local variables of a turn | classify, revive a request, bounded model and tool iterations, guard the reply | a change is proposed for a request she made and that was not taken up yet; a reply claims nothing that did not happen | `AgentRules`, `AgentTurns` |
| Budget guard (`ai/cost.ts`, `ai/policy.ts`) | `ai_usage` | check, call, record | spend is bounded by the budget plus what is in flight | `AgentTurns` |
| Memory (`memory/store.ts`, `memory/learning.ts`, `routes/memory.routes.ts`) | `memory_entries`, `memory_signals` | remember, observe, propose, approve, dismiss, forget, move | at most one active rule per key, none she did not consent to, none lost but in one gap, a No is final | `MemoryRules` |
| Connection and sessions (`auth/*`, `routes/auth.routes.ts`) | `oauth_connections`, `sessions`, the token cache | sign in, refresh, mark, sign out | a sign-out is not undone; a stale refresh leaves her connected in the end | `Connection` |
| Graph client and office operations (`graph/*`, `agent/tools/*`) | the calls under way | retry, paging, multi-call mutations, merge of attendees | nothing is sent twice or out of order; partial failures are reported truly | `GraphCalls`, `OfficeTools`, `OfficeActions`, `ApprovedChanges` |
| Conversations (`conversations/store.ts`, `routes/assistant.routes.ts`, `apps/web/src/pages/Assistant.tsx`, `Workspace.tsx`) | `conversations`, `conversation_messages`, the state of a tab | ask, answer, switch, leave, remove, approve on a card | what is shown is what is stored; a Yes stays in its conversation | `Conversations` |
| Proactive engine (`proactive/*`, `routes/proactive.routes.ts`, `routes/dashboard.routes.ts`) | `proactive_events`, `proactive_notifications`, `proactive_policies`, `queuedScans` | scan, upsert, notify, resolve, read/dismiss/snooze, switch a policy | no nagging, nothing withheld is lost, nothing obsolete stays | `ProactiveEngine` |
| Real-time mail (`realtime/*`, `routes/graph.routes.ts`) | subscriptions, delta cursor, pending timers | subscribe, renew, accept a notification, coalesce, reconcile | a connected user is served again and again; scans keep their distance; no mail that is told of is lost to bursts, timer or queue | `MailSubscriptions`, `MailScans` |
| Deterministic analysis, content extraction, model provider, infrastructure, rendering | caches at most | - | - | see "Not modelled" |

How they interact. A chat request resolves its conversation, runs the agent loop and stores the
reply. The loop reads Microsoft 365 freely; a *write* tool is never run by the loop but saved as a
proposal, shown to the Director as a card, and run by a later turn that says Yes. Every model call
passes the budget guard. The dashboard, a background scheduler, the proactive routes and change
notifications start proactive scans; the first, second and fourth go through a per-user queue that
drops a scan when one is running. Subscriptions and reconciliation only ever lead to such scans. All
who read the mailbox share one token cache.

The modules meet at these places, each time with the other side reduced to what it promises:
a proposal is a whole row with its race in `ApprovalEngine`, one step of a turn in `AgentTurns`, a
card that is pending or not in `Conversations`, and a phase before and after which Graph calls are
made in `OfficeActions`; a scan is a process in `ProactiveEngine`, a beginning and an end in
`MailScans`, a reader of the mailbox in `Connection`. `OfficeActions` is composed with the table of
tools (`OfficeTools`, which is built from the operations in `GraphCalls`) in its MC module;
`AgentTurns` extends `AgentRules`.

## 2. The modules

| Module | Role |
|---|---|
| `ApprovedAction` | the abstract promise: a proposal is withdrawn for good or authorised once; only an authorised action acts, once; one open proposal per conversation |
| `ApprovalEngine`, `ApprovalEngineProofs` | the detailed specification, its properties, the inductive invariant, the refinement mapping; the theorems |
| `AgentRules` | pure operators: what a message asks for, which request it revives, which tools it may use, which replies may pass |
| `AgentTurns`, `AgentTurnsProofs` | the agent loop of overlapping turns of one conversation, on one budget; the theorems |
| `MemoryRules`, `MemoryRulesProofs` | the memory at the granularity of statements; the theorems |
| `Connection`, `ConnectionProofs` | sign-ins, sign-outs and readers over the connection's row; the theorems |
| `GraphCalls` | each operation of `graph/*.service.ts` as the sequence of requests it makes |
| `OfficeTools` | each Microsoft 365 tool of `agent/tools/*.ts` as the operations of its preview and its execution |
| `ApprovedChanges` | the abstract promise about a tool call: its changes happen in order and once, none before she was asked, at most one after its end |
| `OfficeActions`, `OfficeActionsProofs` | tool calls executed against a Microsoft 365 that throttles, fails, loses and cuts answers, and the refinement mapping; the theorems |
| `Conversations`, `ConversationsProofs` | the chat route's rows and one browser tab; the theorems |
| `ProactiveEngine`, `ProactiveEngineProofs` | the scans, the two tables, the user; the theorems |
| `MailSubscriptions` | the subscriptions of one inbox at Microsoft, the table that mirrors them, sign-ins and the maintenance job |
| `MailScans` | from new mail to a scan: notifications, the timer, the queues, the reconciliation |
| `MailProofs` | the theorems of both |
| `MC*` and `*.cfg` | the instances for TLC |

### ApprovalEngine

A *turn* is one `POST /api/assistant/chat`. Its program counter is the next database statement,
Graph call or model call; everything the code does between two of these is folded into the step
before. Other turns, expiry and the environment move in between.

| pc of a turn | code | actions |
|---|---|---|
| `sweep`, `select` | `pendingApproval`: the expiring update, then the select of the newest pending row | `Sweep`, `SelectFound`, `SelectNone` |
| `finish` | `finishApproval(id, 'rejected')`, for a No and for a message that supersedes | `Finish` |
| `claim` | `claimApproval`: one guarded update | `Claim`, `ClaimLost` |
| `execute` | `executeApprovedTool`: tool and arguments checked, then one Graph mutation | `CheckFails`, `Execute` |
| `record` | `recordApprovalStatus`, whose failure is swallowed | `Record` |
| `think` | guards, fast paths, up to `MAX_ITERATIONS` model calls | `Direct`, `ModelCall`, `RunOut` |
| `expireOld`, `insert` | `createApproval`: expire, then insert under the partial unique index of migration 0007 | `ExpireOld`, `Insert`, `InsertRefused` |
| `deliver` | the route sends and stores the reply | `Deliver` |

`Fail(t)` is an exception wherever one leaves `runAgent`; `Kill(t)` ends the process anywhere, and
what is written stays. `Execute` chooses whether Microsoft 365 changed and which of the three
answers the turn hears, in every combination that can occur: only "executed" without a change
cannot. `stale` is the set of rows whose `expires_at` has passed; time needs no clock because only
that one comparison is ever made. Messages, arguments and previews are abstracted to a kind
(approve, reject, other). History variables (`authorised`, `effects`, `acted`, `shown`, `seen`,
`sentAt`, `movedOn`) record what happened and are never read by a guard.

### AgentRules and AgentTurns

`AgentRules` translates the deterministic rules that stand around the model. A message is the set of
things the regular expressions of the code find in it (areas named, "asks for a change", "is a
revision", "states a rule", ...), a reply likewise. `InterpretRequest`, `PermittedTools`,
`UnresolvedActionGoal` (which earlier request a "yes, Friday" continues), `CapabilityRefused`,
`InvalidActionReply`, `FileOffence` and `Checked` are then functions of those sets and of the rows of
the conversation.

In `AgentTurns` a turn goes through the points at which `runAgent` waits:

| pc of a turn | code | actions |
|---|---|---|
| `unsent`, `received` | the route reads the history, then stores the question | `Receive`, `Store` |
| `stored` | the decision on a pending proposal; refusal, explicit rule, fast path; else the loop | `Decide`, `AnswerDirectly`, `EnterLoop` |
| `loop`, `looking` | `assertWithinBudget`, the model call, `recordUsage`; `looking` is the paid look at a scanned file | `CheckBudget`, `BudgetExhausted`, `CallModel`, `ModelFails`, `RecordUsage` |
| `output` | what the model said: an answer, a read, a write | `Answer`, `ReadTool`, `WriteTool` |
| `replying` | the row of the reply | `Deliver` |

The model may say anything (`Replies`) and call, or not, any tool it was *offered*. That it calls no other is
the one assumption made of it: `executeTool` runs whatever name it is given (section 5, *Agent*).
`Brief` is `generateBriefing`, a caller of another budget category. A chat turn is always charged to
`interactive`: `classifyResponseMode` (`response-policy.ts:59`) never answers `briefing`, the one mode
that `policy.ts:18` charges elsewhere and that only `dashboard/briefing.ts:145` asks for. `faults` counts what
the code swallows: a row of a reply not stored, a usage record not written, a sum that cannot be read (the guard
then lets the call pass), an attempt the provider bills and whose answer never comes (`LoseAnswer`; the client
tries once more, `openai.ts:49`). `spent` and `unseen` are history: what was really paid, and the part of it the
ledger missed or the check did not see. The claim and execution of an approved proposal is one step here
and a race in `ApprovalEngine`.

### MemoryRules

A row of `memory_entries` has a `status`, a `rule` (its text) and a `slot`, its `(key, scope, scope_ref)`. Under
a slot with a key (`Keyed`) the partial unique index admits one active row; a slot without one admits any number.
Duplicates are told by text among the active rows of the same scope (`ScopeOf`), whatever their key.
A *request* is at the statement it makes next:

| pc, via | code | actions |
|---|---|---|
| `look`, `archive`, `insert` (say, observe) | `remember`: duplicate select, archiving update, insert; its `catch` swallows | `Say`, `Look`, `Archive`, `Insert`, `InsertRefused` |
| `promote` (observe) | `observeFromMessage`, `observe`: count the signal, propose at `PROPOSAL_THRESHOLD`, mark it | `ObserveFromMessage`, `Promote` |
| `archive`, `activate` (approve) | `approveMemory`: select, archive the current rule, activate the proposal | `Approve`, `Archive`, `Activate`, `ActivateRefused`, `ActivateNothing` |
| - | one-statement requests | `Dismiss`, `Forget`, `Rescope` |
| - | the arrays of the process, without a database | `SayInMemory` |

`Fail` is a failing statement, with the two ways the code takes it (`remember` returns null and its caller
goes on; the others end), `Kill` the end of the process. `stated`, `agreed`, `held` and `broken` are history: rows
she stated, rows she agreed to, keyed slots that were given a rule she has not herself taken away, and slots
in whose gap a replacement broke off. The gap (`InGap`) is the one between archiving the old rule and
writing the new one. `held` is left only by what she does (`Dismiss`, `Forget`, `Rescope`), never by a
failure; a slot that a failure, a kill or a refused activation leaves empty in the gap is in `broken`
until a rule fills it (`BreaksOff`, `Ends`).

### Connection

The row of `oauth_connections` is `status`, `home` (is there an account id) and `cache`, the grant in the
encrypted token cache: good, or dead once Microsoft has revoked it. `flow[b]` is the sign-in of browser
`b` (`Exchange`, `Persist` of the cache, `Save` of the connection, `Issue` of the session), `leaving[b]` its
sign-out (`Logout`, `LogoutClears`, `LogoutMarks`), `reader[r]` a request or a background scan between
`getAccessToken` and its last Graph call: `Start`, `FindsNoAccount`/`FindsAccount`, `FromCache`,
`Refreshed` then `WriteBack` (the MSAL cache plugin writes the blob it has made of what it *read*),
`RefreshFails` then `Clear`, `Reads`, `MarkNeedsReauth`. Only background readers mark. `calm` becomes true
once and for all when nothing goes wrong any more: it is the premise of the liveness property, not part of
the program. `out` is history.

### GraphCalls, OfficeTools, OfficeActions

`GraphCalls` lists, for each operation of a service, its requests in the order in which they are awaited: the
method and retry option (which decide in `client.ts` whether it is sent again), how many pages `collect`
may follow, whether the body of the answer is read, what it changes, and whether it is made always, for
some arguments only, or with its failure caught. `OfficeTools` lists for each Microsoft 365 tool the
calls of its preview and of its execution; two tools that make the same calls share an entry (`read_text`). The
memory tools make no Graph calls and are requests of `MemoryRules`. `OfficeActions` executes any of them:

| phase | code | actions |
|---|---|---|
| `idle` | `executeTool` / `previewTool`: lookup and schema | `Ask`, `Rejected` |
| `preview`, `asked` | the preview; her answer | `Prepared`, `Approve`, `Decline` |
| `execute` | the calls of the tool; `at`, `page`, `attempt` is the request under way | `Answer`, `Skip`, `Busy`, `Broken`, `Refused`, `Lost`, `Cut`, `Throws`, `Succeed` |

`Busy` is a 429, `Broken` a 5xx before or after the request was carried out, `Lost` an answer that did not
come within the time limit, `Cut` an answer whose body cannot be read. A lost request may be carried out
later (`adrift`, `Lands`); the server may die (`Dies`). Of the contents of Microsoft 365 only the attendees
of one meeting are kept, which is the one thing the program reads, merges and writes back
(`calendar_update`), while Outlook and another update change it. A *preview* is executed by the loop and an
*execution* by a later turn; `ApprovalEngine` says that the execution happens at most once.

`ApprovedChanges` says what one tool call promises without requests, retries and pages: from `new` to `asked` to
`running` nothing else happens to Microsoft 365 than the changes of its plan, in order and once each; a call that ended
`inDoubt` may still see the next one. `StageOf` and `ToldOf` map the phases, what is adrift and the reports.

### Conversations

`messages[c]` are the rows of conversation `c`, `pending[c]` the request whose proposal is pending there.
`request[r]` is one `POST /api/assistant/chat`: `Receive` (find or create the conversation, store the
question, supersede), then `Answer`, `Fail` or `Die`; `Refuse` is an error before the question is stored, which
may leave an empty conversation. The tab is `activeId` (the state of `Workspace`) and `page`
(that of `Assistant`: what is loaded, the turns shown, busy, loading, error, and the GET under way).
`Reacted` is the effect on `[activeId, loaded]` and its cleanup, `Show` a change of the active conversation
together with the effect that follows. The reader may ask, press Yes on a card, open, start, leave, return,
remove and try again at any moment the page lets her; `HearAnswer`, `HearFailure` and `LineBreaks` are the ends of
`send()`, with the closure's view: the page that sent the request may not be the one that is mounted
(`sender`). A load (`FetchReads`, `FetchArrives`, `FetchFails`) brings the *oldest* `HistoryRows` rows (`Oldest`;
`limit 200` in the code), not the newest. Open, RemoveThread and StartNew need the assistant's view, which alone has the sidebar.
History: `lost` (rows `appendMessage` failed to store), `executed`, `strayed` (she went elsewhere before an
answer came, or the line broke).

### ProactiveEngine

One user. `source[e]` is the fingerprint of what Microsoft 365 would show for dedupe key `e` now,
`Gone` when nothing would be detected. The detectors are pure functions of a snapshot, so they
appear as "the snapshot has a fingerprint for `e`". A scan is a process that starts again and
again. Its local state is the snapshot it read (`snap`), the instant its `now` is (`at`), the
policies it read (`on`), what is left of its loop (`todo`), the event it is at (`cur`) with the row
as the select of `upsertEvent` saw it (`prev`), and whether `notify` found a row (`found`).

The order of reads is the code's and differs by origin: the dashboard reads the mail, *then* asks
the queue, then reads the calendar and only then the clock; a background scan is admitted and
takes the clock first; the proactive routes do the same without the queue. A scan then visits its
events in any order: `SelectEvent`, `UpsertEvent`, then `Hush` (quiet hours) or `Count`/`Cap` (the
daily cap), `LookUp` and `Notify`/`Refused`, finally `Resolve`. `ReadCalendar` with `degraded` is a
failed calendar read, scanned as an empty calendar; `ReadPolicies` is a statement of its own after it. `Fail` is a
throw or a dead process. `updatePolicy` selects and then writes all fields: `SwitchPolicy` is the write, of either
value, since the switch a request writes back may be older than the row.

Abstractions: severity and threshold become `Loud`, the versions that meet the threshold at each instant (a
meeting or a deadline grows urgent as it comes near, with the same fingerprint);
`isQuietHours` becomes a set of instants; the local day a function of the instant. Not in the model:
expiry of events by date, the rotation of users in the scheduler (one user), snoozing a notice that
a scan has just looked up (the notice is overwritten by the scan; nothing documented forbids it).

### MailSubscriptions

One user. `granted[s]` is how long Microsoft will still have subscription `s`, `left[s]` what is left
until the row's `expires_at`, `active` the rows whose status is `active`. A *program* is a sign-in
(`subscribeToInbox`, started by the callback and not awaited) or the maintenance job, and has a `pc`:

| pc | code | actions |
|---|---|---|
| `check`, `create`, `revoke`, `insert` | `subscribeToInbox` and `recordSubscription` | `Check`, `Create`, `Revoke`, `Insert` |
| `renew` | the PATCH of `renewSubscription`, after the connection was looked up | `Skip`, `Renew`, `NotRenewed` |
| `mark`, `keep`, `expire` | `markRenewed`, `markSubscriptionStatus` | `MarkRenewed`, `KeepActive`, `Expire` |
| `ensure` | the reconciliation pass subscribes a user without an active row | `Ensure` |

`Fail` ends a call, a statement or a program anywhere; `Forget` is Microsoft dropping a subscription
early, `HealthChanges` the beginning and end of a disturbance, in which answers may be lost
(`Renew(FALSE)`). The partial unique index refuses a second active row; where an exception of it goes
is the code's (`Insert` throws out of `subscribeToInbox`; `MarkRenewed` falls into the `catch` of
`renewSubscription`, whose own statement may be refused in turn). An id is used again once no row that
is active and no program refers to it: what the old subscription does, the program never learns, since
`findSubscription` rejects its notifications. The answers of Microsoft carry `expirationDateTime`, as Graph always
sends it: the fallback to the time that was asked for (`?? expiry()`, `subscriptions.ts:114,133`) is left out, and
`NeverOptimistic` would not hold with it. Time is in units of half a day; a program is over within
one, so it sees at most one tick. Not in the model: `unsubscribe` (nothing calls it), a changed
notification URL, `renewal_failures` (only counted).

### MailScans

One user. Mail is numbered as it arrives; a scan is known by the newest mail it read, the delta cursor
by the newest mail it covers. `hints` are notifications not yet delivered; `armed`, `timer` and
`since` are `pendingScan`, its delay and the time since `lastScanAt`. `scan[Server]` and `scan[Reconciler]`
are `queuedScans` of the two processes: the map is in the memory of a process, so the job's queue is
not the server's. `pass` is the reconciliation of one user: `Delta` (cursor read and pages
followed), `WriteCursor`, `QueueScan`, and `Exit`, where `run-maintain.ts` closes the database. A mailbox
is complete in one call when its changes fit the five pages (`Complete`). `hinted` and `overtaken` are history: the
mail there was when a notification was last accepted, and that the timer's scan was then skipped for one that had
read the mailbox before that mail. The content of scans is
`ProactiveEngine`'s; a request-driven deployment, in which timers need not fire at all, is left out.

All these modules model the program with a database. The in-memory stores that stand in for it in
development are not modelled.

## 3. Runs

| Run | Instance | What it shows |
|---|---|---|
| `approval_safety` | 3 concurrent turns of any kind, 1 conversation, up to 2 proposals, 1 model call; turns symmetric | type invariant, `AtMostOnce`, `PendingIsNewest`, `AuditTruth`, `HonestReply`, `MovedOnNeverAuthorised`, and that the engine implements `ApprovedAction` |
| `approval_liveness` | 2 fair turns, 2 conversations of one user, 2 proposals, 2 model calls | `TurnTerminates` |
| `agent` | 2 turns that may overlap in a conversation that is empty or ends in a question of the assistant, and a briefing; 6 kinds of message, replies with each feature; 2 iterations, a budget of 2 calls, 1 for briefings; one thing lost, unread or billed in vain | `TypeOK`, `ProposalsAnswerRequests`, `RepliesAreBacked`, `OverspendIsBounded` |
| `memory` | 2 requests at once, 3 rows, 3 rules (two compete for a key, one of their texts is also said without a key), 3 slots (a key in two scopes, one without a key), threshold 2; with and without a database; rows and requests symmetric | `TypeOK`, `OneActivePerSlot`, `NothingSilent`, `LostOnlyInTheGap`, `DismissedStaysDismissed` |
| `connection` | 2 browsers, a background reader and a request | `TypeOK`, `SignedOutStaysOut`, `ConnectedInTheEnd` |
| `office` | any Microsoft 365 tool beside an update of the same meeting, 2 people | `TypeOK`, `InOrderOnce`, `ReportIsTrue`, `AddingKeepsEveryone`, `ActionEnds` |
| `conversations` | 2 questions, 2 conversations, a load of 2 rows, one lost row, refused request or dead process | `TypeOK`, `ShownIsStored`, `NothingUnanswered`, `ComposerComesBack` |
| `conversation_switch` | 2 questions and a Yes, 2 conversations, nothing lost | violation: `YesStaysInItsConversation` (finding 1) |
| `proactive_queued` | a background and a dashboard scan, 1 calendar event, 3 versions (one urgent at once, one from the second instant on, one never), 3 instants (the second quiet, the third a new day), cooldown 2, cap 1, 2 failures | `TypeOK`, `DealtWithStaysAway`, `CooldownIsKept`, `WithheldIsDelivered` |
| `proactive_liveness` | a background and an unqueued scan, 1 event of the mail, 2 versions (one below the threshold), 2 instants (the first quiet) | `UnwantedDisappears` |
| `mail_subscriptions` | a sign-in and the job, 3 ids, lifetime 3, renewal window 1, "comfortably alive" 2 | `TypeOK`, `NeverOptimistic`, `ServedAgain` |
| `mail_scans` | 2 mails and 1 before, 2 of them to a delta call, delay 1, interval 3, 1 failure or redelivery | `ScansTypeOK`, `ScansAreSpaced`, `HintedMailIsScanned` |

The inductive invariants of section 4 were model-checked on these instances before they were proved.
`OfficePromise.cfg`, which has no run of its own, checks on the instance of `office` that the tools implement
`ApprovedChanges` (223,184 states); the theorem is in section 4.

### Bounds and why they are enough

*Approval.* Three turns are one that proposes and two that race, or propose, claim and supersede; two
rows are what `PendingIsNewest` and supersession need to go wrong. The proofs lift the safety results to any
number. `MaxApprovals` ends a turn like a refused insert when the rows are used up, so no behaviour is
lost by stopping.

*Agent.* Two turns are one that proposes for a request and one that may take it up again, whether it began
before or after (the proofs lift all four safety results to any number, and to any `HistoryRows`); `MCEarlier`
adds a request that was asked a detail about. The messages differ in what the rules find in them: a plain request, one that is refused, a revision that also clarifies, a stock question, a rule
to remember, a Yes. Two iterations are one that is followed by a correction and the last one (the program
has 6); a budget of two calls lets the three callers meet at its last call. Bounds written into the actions:
a turn's question is not lost, a turn looks at one file, the text of a reply names the areas of its
request. A briefing may call again and again: its budget of one call is what ends it, and the bounds of month and
briefings are both reached. Three rows are read back (`HistoryRows`, 200 in the program), so that a conversation
grows past what a turn sees and a card may lie beyond it.

*Memory.* Two requests interleave every pair of statements; three rows are a rule in force, the one that
replaces it and a proposal; three slots let a rule be moved to where another is, and to where the index does not
look; the proofs lift all four safety results to any number.

*Connection.* Two browsers let a sign-out race another sign-in, two readers a refresh race another;
safety is proved for any number.

*Office.* The first call is for any tool, alone with all its answers; the second is the only one that reads
what another writes. A call that was lost on its way is carried out at most once, and `MaxActs` counts far
enough to see a second time. A list has at most two pages: a retry of the second is what differs from the
first.

*Conversations.* Two questions in two conversations are a reply that comes while another conversation is
open, loading or being removed; safety is proved for any finite number of messages and conversations, any
losses and any `HistoryRows`. A load of two rows (200 in the program) is exceeded by the third row of a
conversation. A third request is needed for a Yes, in `conversation_switch`, where nothing is cut off.

*Proactive.* Two scans suffice to interleave every pair of statements; three instants are a time before, in
and after the quiet hours and make a cooldown of two both run and end; a cap of one is reached by one notice.
The third instant is another day and past the cooldown of the first, so that a notice given at the first excuses no
later one: a resolve, a later version or a severity that rises asks for a second. (A notice of the second or third
instant does excuse for good, since the clock of the instance stops.) Two failures are a degraded calendar and a
scan that dies with what it began; `MaxFailures` bounds failures, not their place. `CooldownIsKept`,
`DealtWithStaysAway` and `WithheldIsDelivered` are checked for scans that share the queue, `UnwantedDisappears`
beside one that does not. Beside an unqueued scan of the proactive routes the instants of two scans are not
ordered, and two scans that both looked the notice up before either wrote it may each notify: the queue is
what the first two rest on.

*Mail.* Three subscription ids are one for the active row and one for each program, so `Create` never waits for
one; the lifetime of three units is the code's 70 hours against a renewal window of 24 and a margin of 36. With
one mail before and two pages' worth to a call, a delta call is complete at first and incomplete later.

Deadlock is checked for mail, where time always goes on. Everywhere else the model may really stop: turns,
requests and tool calls are used once, the clock of the proactive engine stops at `MaxTime`, rows of the memory
run out, and a connection nobody uses rests.

### Fairness

`approval_liveness` assumes `WF(Step(t))` for each turn: a request the platform is still running
goes on. Nothing is assumed of `Fail`, `Kill`, `TimePasses` or the Director. `proactive_queued` and `proactive_liveness`
assume that time goes on and `WF(Step(s))`: the dashboard polls and the scheduler ticks again and
again, and a scan that has started runs. Every scan takes finitely many steps, so one weak fairness
per scan suffices; no strong fairness is assumed, and in particular not that the queue is ever
granted to a given dashboard scan.

`mail_subscriptions` assumes that time goes on, that the job is run again and again and takes its steps
(the hourly schedule of `.github/workflows/maintenance.yml`; a run cut short is `Fail`), and that a
sign-in's call ends, by finishing or failing. Nothing is assumed of sign-ins happening, of Microsoft's
health or of the user's staying connected: those are the premises of `ServedAgain`. The run
of mail scans assumes that time goes on, that a timer which is due fires, that a started scan runs
and that the job is run; dashboards, the scheduler (off by default) and notifications are not fair.

`connection` assumes that she signs in when the client asks her to, that a sign-in and a sign-out once begun
go on, and that background readers run (`WF(SignIn(b))`, `WF(SignOut(b))`, `WF(Reading(r))` for background `r`).
Requests are not fair: nobody need open a page that reads the mailbox. The one repair the model needs
is that of a background reader, for a connection that says "connected" over a cache a reader has cleared
between a sign-in's two statements: only the background marks it.

`office` assumes `WF(Progress(a))`: an answer is awaited for 20 seconds at most and a retry waits 30 at
most. `conversations` assumes `WF(Serve(r))`, `WF(Hear(r))` and `WF(Fetch)`: the server goes on with what it has
received (or the process dies, `Die`), a response or an error reaches the tab, and a load comes or fails. Nothing
is assumed of the reader.

## 4. Proofs

`ApprovalEngineProofs` proves, for every finite or infinite set of turns, conversations and users,
every `MaxApprovals` and every `MaxIterations`:

| Theorem | States |
|---|---|
| `Inductive` | `Spec => []IInv` |
| `TypeCorrect` | `Spec => []TypeOK` |
| `ExecutesAtMostOnce` | `Spec => []AtMostOnce` |
| `OneProposalIsPending` | `Spec => []PendingIsNewest` |
| `AuditIsTrue` | `Spec => []AuditTruth` |
| `RepliesAreHonest` | `Spec => []HonestReply` |
| `SupersededIsFinal` | `Spec => MovedOnNeverAuthorised` |
| `EngineImplementsAction` | `Spec => ImplementsApprovedAction` |

Assumptions: `ApprovalsAssumption`, `IterationsAssumption`, `NoConvAssumption` and
`OwnerAssumption` of `ApprovalEngine`; TLC evaluates them in every approval run.

None of the properties is inductive. `AtMostOnce` breaks from a state where two turns hold the same
claimed row, or one holds a row that has acted already; so `IInv` adds

- `RowInv`: a row never looks unclaimed again once it was claimed; an effect follows a claim;
- `TargetInv`, `TurnInv`: what a turn's locals say of the row it holds - past the claim the row is
  authorised, at `execute` it has no effect yet, before that the turn has said and done nothing;
- `ClaimsDistinct`: no two turns are between claim and effect of one row. This is where the guard of
  the claiming update is used, and the only place;
- `PendingIsNewest`, which uses the unique index at the insert;
- `MovedInv`: a turn that is not a Yes, past its supersession, has closed every proposal older than
  its message. It uses that the select returns the newest pending row and that there is no other.

The preservation proof has one step per action. The refinement is proved in `RefineNext`: claim maps
to `Authorise`, the effect to `Act`, insert to `Propose`, and every statement that closes proposals
(sweep, rejection, supersession, expiry) or the passing of time to `Withdraw` of a set or a stutter.

`MemoryRulesProofs` proves, for any rows, requests, rules, slots and threshold, from `RulesAssumption`,
`SlotsAssumption`, `NoneAssumption` and `BoundsAssumption`:

| Theorem | States |
|---|---|
| `TypeCorrect` | `Spec => []TypeOK` |
| `OneRuleInForce` | `Spec => []OneActivePerSlot` |
| `NothingIsSilent` | `Spec => []NothingSilent` |
| `NoIsFinal` | `Spec => DismissedStaysDismissed` |
| `RulesAreLostOnlyInTheGap` | `Spec => []LostOnlyInTheGap` |

`TypeOK` holds `RequestOK`, which says at which statement a request can be with what; the other proofs
rest on it. `NothingSilent` needs to know that a request on its way to an activation has her agreement
(`SilentInv`); `LostOnlyInTheGap` is inductive beside `TypeOK` because it names the requests in the gap between
archiving and writing, and what broke off there. It does not say that a slot keeps its rule: the code has no
transaction over the two updates, and a failure between them loses the rule in force. It says that
nothing else does - no race of two replacements, no refused insert outside the gap, no move.

`ConnectionProofs` proves, for any browsers and readers, from `ReadersAssumption`:

| Theorem | States |
|---|---|
| `TypeCorrect` | `Spec => []TypeOK` |
| `SignOutHolds` | `Spec => []SignedOutStaysOut` |

The two are inductive together: what keeps a sign-out is that the write of a token cache leaves the
status of an existing row alone, and that a signed-out row exists (the last conjunct of `TypeOK`).

`AgentTurnsProofs` proves, for any messages, replies, budgets, any finite number of callers and any number of
iterations, of rows read and of concurrent turns, from `MessagesAssumption`, `EarlierAssumption`,
`CallersAssumption`, `RepliesAssumption` and `BoundsAssumption` (proposals made before the behaviour begins have no
card in it, and a turn is no briefing: both only say what the constants stand for):

| Theorem | States |
|---|---|
| `Inductive` | `Spec => []IInv` |
| `TypeCorrect` | `Spec => []TypeOK` |
| `RepliesHaveBacking` | `Spec => []RepliesAreBacked` |
| `RequestsAreAnswered` | `Spec => []ProposalsAnswerRequests` |
| `OverspendHasABound` | `Spec => []OverspendIsBounded` |

`IInv` says of each turn what its locals may hold over the rows and proposals there are (`Fits`): what it read was
there, its own question came later (so the request it works on is a row of its past), a proposal on its card is
its own, and a reply about to be stored is backed. One lemma per action of a turn shows that its new
record fits, `OneTurn` that everybody else's goes on fitting while rows and proposals are added. `LatestIsOne` is the
fact about `CHOOSE` behind "the latest row that ...", from the well-foundedness of the naturals.

`ProposalsAnswerRequests` compares two proposals made by turns that need not overlap, and says nothing of how a
turn came to its request; `ThreadInv` adds that. A turn with a write tool in hand works on a request that she
made, and, if on an earlier one, on one that nothing was prepared for in the rows it read (`Asked`, `Unanswered`); a
card is in a row after its request and shows as prepared (`CardsFollow`); so the request of a later proposal cannot
be one whose card the turn has read (`Answers`). The result holds for every `HistoryRows`, and no longer for more:
beyond those rows an answered request can come back (section 5).

`OverspendIsBounded` is a statement about what every caller may still do, which `MoneyInv` counts. What a call owes
the ledger is a set of units, pairs of a caller and a number up to the cost of its call, so that a sum over any
number of callers is a cardinality; `Accounted` says that what was spent is recorded, owed or unseen, `Bounded`
that spend stays within the bound even when every admitted call is made. It is kept because the check of a call
sees a ledger below the budget while all that is owed and all that is admitted belongs to other callers, of
whom there are fewer than `Most`. Both are kept per set of categories: the month is all of them, a category's own
budget is one, and `Most` counts the callers of these categories only (`AtOnce`). An attempt billed without an
answer adds to `spent` and `unseen` alike (`LoseKeepsMoney`).

`MailProofs` proves of the subscriptions, for any sign-ins, ids, lifetimes and windows, from `NamesAssumption` and
`TimesAssumption`, and of the scans, for any bounds, delays and page sizes, from `BoundsAssumption` and
`DelaysAssumption`. It extends both modules, whose names are distinct; nothing in it says that they are composed:

| Theorem | States |
|---|---|
| `SubscriptionsInductive` | `Spec => []IInv` |
| `SubscriptionsTypeCorrect` | `Spec => []TypeOK` |
| `RowsAreNeverOptimistic` | `Spec => []NeverOptimistic` |
| `ScansTypeCorrect` | `ScansSpec => []ScansTypeOK` |
| `SpacingHolds` | `ScansSpec => []Spacing` |
| `ScansKeepTheirDistance` | `ScansSpec => ScansAreSpaced` |

`NeverOptimistic` speaks of active rows only; but any row can be made active again by `KeepActive`, so
`IInv` says it of all, and of the answer a program holds and is about to write. The timer of a scan
was set to what was left of the interval and both change together; the lemma `DelayIsNat` is that
arithmetic, `Spacing` the invariant that carries it to the moment the timer fires.

`OfficeActionsProofs` proves, for any tool calls, any people and every table of tools that satisfies
`ToolsAssumption` (a preview changes nothing; a tool that changes something asks first; no changing call is marked
safe to retry, skipped or ignored; mail leaves with the last call, whose answer is not read). TLC evaluates it for
the table in `OfficeTools`, which is the program's:

| Theorem | States |
|---|---|
| `Inductive` | `Spec => []IInv` |
| `TypeCorrect` | `Spec => []TypeOK` |
| `CarriedOutInOrderOnce` | `Spec => []InOrderOnce` |
| `ReportsAreTrue` | `Spec => []ReportIsTrue` |
| `UpdatesKeepEveryone` | `Spec => AddingKeepsEveryone` |
| `ToolsKeepThePromise` | `Spec => ImplementsApprovedChanges` |

`InOrderOnce` breaks from a state in which the cursor stands before a call that was carried out, or in which a lost
request is still under way for one that was. So `ActionInv` ties the cursor to what happened: while a tool is
executed the changing calls before the cursor were carried out once each and no others (`CursorTells`), a request
that may still land is the next one in order (`AdriftIsNext`), and before the execution nothing was touched. What
is adrift has ended the execution, since a changing call is never sent again without a 429: the retry rule of
`client.ts` is used here. `Truth` is what each report may be given for, and outlives the landing of a lost request
because a plain failure is never reported of a mail that is adrift.

The refinement is proved in `RefineNext` with one lemma for each way in which an action can move. What Microsoft 365
accepts maps to the next change of the plan (`AcceptMaps`), because the cursor tells what was carried out. Most
answers map to a change or a stutter; an error that ends the action maps to `End`, together with the
change it may hide (`EndMaps`), whose guards are what `AdriftIsNext` and `Truth` say after the step; what
lands late maps to `Land`. Three promises are added to those of `InOrderOnce` and `ReportIsTrue`: what
changes something is asked for first, a doubt is resolved by one change at most, and there is none once
she was told that it is done, that it failed or that nothing was changed.

`ProactiveEngineProofs` proves, for any events, policies, clocks, caps, cooldowns and scans, from the five assumptions
of `ProactiveEngine`:

| Theorem | States |
|---|---|
| `TypeCorrect` | `Spec => []TypeOK` |
| `OneScanAtATime` | `AllQueued => (Spec => []QueueInv)` |
| `DealtWith` | `AllQueued => (Spec => DealtWithStaysAway)` |
| `Cooldowns` | `AllQueued => (Spec => CooldownIsKept)` |

`TypeOK` needs that a scan goes only through what it detected (`ScanFits`), for a version to be one. The other three
are under `AllQueued`: no scan is started by the proactive routes, the only ones past the queue. The instance of
`proactive_queued` is of that kind. TLC finds both properties violated once a scan goes past the queue: two scans that
looked a notice up before either wrote it may each notify. `QueueInv` says that a scan under way holds the queue, and that what it
looked up of a notice is still so when it writes (`LookedUp`), whatever the user does in between. The queue is in
the memory of a process, so this is about one server.

`ConversationsProofs` proves, for any finite number of messages and of conversations and any losses, from
`NoneAssumption`, `HistoryAssumption` and `FiniteAssumption` (a new conversation finds an id because those not used
yet are counted):

| Theorem | States |
|---|---|
| `TypeCorrect` | `Spec => []TypeOK` |
| `WhatIsShownIsStored` | `Spec => []ShownIsStored` |

`ShownIsStored` speaks of a tab at rest, and breaks from states in which an answer is under way that does not belong
to what is shown. The proof has three layers.

- `Typed` is `TypeOK` with what the tab keeps (`Tab`): what loads is what is open, and there are at least as many
  unused ids as questions on their way that will open a conversation.
- `Tables` relates the server's rows to the requests: a row that is due is stored or known to be lost
  (`NothingGoes`), and a stored row is that of a request of its own conversation, in it once (`RowFits`, `Once`).
- `InStep` is what holds as long as the reader went nowhere (`Followed`): at most one answer is awaited, by the page
  that asked, whose last turn is the question (`Awaited`); each turn is a row of this conversation or of a message
  that failed (`ShownFits`); and the rows of every conversation that an answer can bring into view are on the page in
  their order, all but the awaited ones and a block after the oldest `HistoryRows` (`Agrees`, `GapAfterOldest`): a load
  leaves out the newest rows, what is answered afterwards is shown behind the gap. The last is said of a conversation that is not open as well: a
  first question opens one on the server before the tab has heard of it.

Two lists stay in the same order when the row that one lacks is appended to the other: `SameLonger` is that lemma about
sequences, and why `ShownIsStored` compares positions and ranges instead of selecting a subsequence, which is defined by
recursion.

Every safety property that a passing run checks has its theorem. What is only model-checked is all liveness
(`TurnTerminates`, `UnwantedDisappears`, `WithheldIsDelivered`, `ServedAgain`, `HintedMailIsScanned`,
`ConnectedInTheEnd`, `ActionEnds`, `NothingUnanswered`, `ComposerComesBack`): fairness and ENABLED are out of the
prover's reach.

## 5. Findings

1. **A Yes that executes another conversation's proposal** (`apps/web/src/pages/Assistant.tsx:201`). When a reply
   arrives after the reader has opened another conversation, `send()` makes its own conversation active and
   marks it loaded, but appends its turn to the turns of the other one, whose card stays enabled. The Yes
   pressed on that card goes to the first conversation and executes what is pending there.
   `docs/MICROSOFT_GRAPH.md:48`: "Pending actions are user-bound and conversation-bound." Run
   `conversation_switch`.

Seven more have a configuration beside the modules and no run of their own; TLC shows each of them in
seconds (`tlc -config <cfg> <module>`):

2. **A rejection that does not reject** (`agent/approvals.ts:175`). `finishApproval` updates by id
   alone. A No that selected the row before a concurrent Yes claimed it overwrites `executing` or
   `executed` with `rejected` and answers "Cancelled. Nothing was changed." of an action that is carried
   out. `docs/AI_AGENT.md:55`: "a rejection cancels it". `ApprovalRejection.cfg`, `RejectionCancels`.
   (`AuditTruth` therefore says nothing of `rejected` and `failed` rows.)
3. **An uncertain outcome reported as a failure** (`graph/client.ts:105`). The body of a successful
   mutation is read outside the `try`; when it is lost the error is not `graph_unavailable` and the
   turn reports a plain failure. The comment at `graph/client.ts:80` promises the opposite.
   `ApprovalUncertain.cfg`, `UncertainIsReported`. (`ReportIsTrue` therefore speaks of a plain failure
   only where mail is sent, whose answer has no body: of what is created or updated a plain failure may be untrue.)
4. **Quiet hours end at the third scan** (`proactive/engine.ts:78`). `ProactiveQuiet.cfg`, `QuietHoursAreQuiet`.
5. **The daily cap is forgotten by a resolve** (`proactive/engine.ts:85`). `ProactiveCap.cfg`, `DailyCapIsKept`.
6. **Missed mail is found and not scanned** (`realtime/maintain.ts:116`). The new delta link is stored
   first, `runScanForUser` only queues the scan, and `run-maintain.ts:45` closes the database when
   `maintainRealtime` returns; the next pass no longer sees the mail. `MailMissed.cfg`, `MissedMailIsScanned`.
7. **A running scan that does not reflect the new mail** (`realtime/notifications.ts:170`). "A scan is already
   running for this user; its result will reflect the new mail anyway": that scan may have read the mailbox before
   the mail came, and the notification is then dropped. `MailOvertaken.cfg`, `RunningScanReflectsIt`.
   (`HintedMailIsScanned` excuses it by `overtaken`.)
8. **A loading screen that stays** (`apps/web/src/pages/Assistant.tsx:109,145,266`). When the answer of one
   conversation arrives while another is loading, or she opens another conversation and goes back before it has
   loaded, the effect cancels the load and returns early: nothing clears `threadLoading`, and the composer is
   gone until she opens another conversation or view. `ConversationStuck.cfg`, `NeverStuck`.
   (`ComposerComesBack` excepts it by `Stuck`.)

Met while modelling, and described here only.

*Real-time mail.* `mail.service.ts:331` expects the caller of `delta` "to come back for the rest", while `maintainRealtime` keeps no
continuation: an inbox of more than five pages is enumerated from the start every hour, and its baseline is
never reached.

*Memory.* An approval answers ok although its second update matched nothing, because the proposal was
dismissed in between. A replacement or an approval that fails, dies or finds its proposal decided between its two
updates leaves the slot without the rule it had (`broken`). `POST /api/memory` answers 200 with no entry when `remember`
swallowed a failure, and an observation whose `remember` failed is marked as raised all the same. Restating
a rule that has expired returns the expired row. Two observations past the threshold at the same time both
propose.

*Connection.* `msal.ts:90` says `needs_reauth` is for a refresh token that is "gone or revoked"; the `catch`
clears the token cache after any failure, so an unreachable Microsoft signs her out. A refresh under way
at sign-out writes the cache back, and the sessions of other browsers survive: `SignedOutStaysOut` speaks of
the status, which both respect.

*Office.* An attendee added in Outlook between the read and the PATCH of `calendar_update` is lost, although
`office.tools.ts:357` says "People to add without removing current attendees."; `AddingKeepsEveryone`
therefore excuses those who came after the read. Approving `mail_send_draft` sends the draft as it is by
then, and a conflict check may be fifteen minutes old. A reply that fails leaves its draft
(`mail.service.ts:557` accepts that). A definite 4xx other than 401, 403 and 404 is reported as uncertain.

*Conversations.* `getMessages` returns the *oldest* 200 rows (`conversations/store.ts:179`): re-opened, a longer
conversation does not show its newest messages. A reply in a conversation left by "New conversation" is shown without its
question. A first question that fails leaves a conversation she did not see open. An archived conversation
still takes messages. `removeConversation` compares with the conversation that was active when she pressed.

*Agent.* The same limit holds for what a turn reads: in a longer conversation the card of a proposal can lie beyond
what a turn reads, and the request that it answered be taken up again: TLC finds two proposals for one request as
soon as `HistoryRows` is reached. `ProposalsAnswerRequests` therefore speaks of the cards a turn has read (`KnownTo`). Revising a proposal with words that ask for no
change ("Try again.") withdraws it and permits no tool that could prepare another. A durable statement
that `parseExplicitMemory` cannot parse is a request for a change without a tool for it. `checkCapability`
looks at the message alone: "try it again" brings a refused request past the rule of
`orchestrator.ts:142`. The offence of `checkFileHonesty` passes in the last iteration. "The model cannot expand
this allowlist" (`request-intent.ts:169`) holds of the tools offered; `executeTool` does not look at it. A
spend that cannot be read lets a call pass.

## 6. Not modelled

- *In-memory stores*, which stand in for the database in development, save the arrays of the memory.
- *Text*: the regular expressions of the rules, prompt, persona, skills, selection of context, reference
  tables, cleaning of replies. The rules over what the expressions find are modelled; what they find is not
  control.
- *Memory*: the ranking of recall and the expiry of entries; of what recall returns, only that it is in force
  (`InForce`).
- *Deterministic analysis*: ranking, deadlines, suspicion and free slots are heuristics over text and times
  without a stated promise to check; the briefing's cache is twenty minutes old at worst, by design. A
  briefing's model call is in `AgentTurns`.
- *Content extraction*: the parsing of file formats; its one paid call is in `AgentTurns`.
- *Model provider*: an HTTP client. Its answers and failures are in `AgentTurns`.
- *Infrastructure*: wiring, configuration, logging, telemetry.
- *Rendering*: the pages of dashboard, memory and inbox send one request per button; the buttons are the user
  actions of `ProactiveEngine`, `MemoryRules` and `Connection`. Of the assistant page, rename, pin, mentions,
  preview mode, the countdown of a card and the staleness of the list are left out.
- *Budget*: the in-memory sums and the turn of the month.
- *Proactive engine*: expiry of events by date, rotation of users in the scheduler.
- *Real-time mail*: `unsubscribe`, a changed notification URL, a delta link Microsoft no longer accepts.
- *Connection*: the checks of cookies, tenants and allowlist, which change nothing when they refuse.

## 7. Plan

All the components the system's correctness rests on have their module. What is left, in order:

1. `AgentTurns`: an abstract specification of a conversation (a request is made, answered once or withdrawn),
   implemented by `AgentTurns` where the rows read cover the conversation.
2. `ProactiveEngine`: expiry of events, a scheduler over several users; the same two properties for scans of
   different events beside an unqueued one.
3. `MailSubscriptions`, `MailScans`: an abstract specification of a served mailbox, several sign-ins, a
   composition of the job's two halves.
