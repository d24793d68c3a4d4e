----------------------------- MODULE MailScans ------------------------------
(***************************************************************************)
(* From new mail to a proactive scan, for one user: the change             *)
(* notifications of Microsoft Graph and the timer that collects them       *)
(* (realtime/notifications.ts, routes/graph.routes.ts), the queue of scans *)
(* of the server process (proactive/engine.ts), and the reconciliation of  *)
(* the maintenance job, a process of its own with a queue of its own       *)
(* (realtime/maintain.ts, realtime/run-maintain.ts).                       *)
(*                                                                         *)
(* Mail is numbered in the order of arrival; a scan is known by the newest *)
(* mail it has read.  The names that MailSubscriptions has too (the next   *)
(* state, the types, the job's process) are told apart, so that one module *)
(* can extend both.                                                        *)
(***************************************************************************)
EXTENDS Naturals

CONSTANTS Server,         \* the process that serves requests and runs timers
          Reconciler,     \* the process of the maintenance job
          MaxMail,        \* bound: mails that arrive
          OldMail,        \* mails in the inbox before
          MaxPages,       \* what the pages of one delta call hold
          Coalesce,       \* COALESCE_MS
          MinInterval,    \* MIN_INTERVAL_MS
          MaxFailures     \* bound: failures and restarts

ASSUME ProcsAssumption  == Server # Reconciler
ASSUME BoundsAssumption == /\ MaxMail \in Nat /\ OldMail \in Nat /\ MaxPages \in Nat
                           /\ MaxFailures \in Nat
ASSUME DelaysAssumption == Coalesce \in Nat /\ MinInterval \in Nat \ {0}

Scanners == {Server, Reconciler}

NoCursor == MaxMail + 1

VARIABLES
    arrived,    \* mails that have arrived
    hints,      \* notifications Microsoft has yet to deliver
    armed,      \* pendingScan has a timer
    timer,      \* what is left of its delay
    since,      \* time since lastScanAt, up to MinInterval
    scan,       \* scan[q], what process q scans: where, and the mail read
    cursor,     \* mail_delta_cursors: the mail up to which the job has read
    pass,       \* the job: where, the new cursor, and whether it found mail
    failures,   \* counts towards MaxFailures
    scanned,    \* history: the newest mail a finished scan has read
    missed,     \* history: the newest mail a pass has found missed
    hinted,     \* history: the mail there was when a notification was accepted
    overtaken   \* history: the timer was skipped for a scan that is older

push == <<hints, armed, timer, since>>
told == <<hinted, overtaken>>
scansVars == <<arrived, hints, armed, timer, since, scan, cursor, pass, failures,
               scanned, missed, hinted, overtaken>>

NoScan == [pc |-> "idle", seen |-> 0]
NoPass == [pc |-> "idle", link |-> NoCursor, found |-> FALSE]

ScansInit ==
    /\ arrived = 0
    /\ hints = 0
    /\ armed = FALSE
    /\ timer = 0
    /\ since = MinInterval
    /\ scan = [q \in Scanners |-> NoScan]
    /\ cursor = NoCursor
    /\ pass = NoPass
    /\ failures = 0
    /\ scanned = 0
    /\ missed = 0
    /\ hinted = 0
    /\ overtaken = FALSE

-----------------------------------------------------------------------------
(* Mail, and the notifications about it.                                   *)

\* A notification is sent or, the subscription having lapsed, is not.
Arrive(pushed) ==
    /\ arrived < MaxMail
    /\ arrived' = arrived + 1
    /\ hints' = IF pushed THEN hints + 1 ELSE hints
    /\ UNCHANGED <<armed, timer, since, scan, cursor, pass, failures, scanned, missed, told>>

Larger(m, n) == IF m > n THEN m ELSE n

\* Mutation of Delay: the last scan is not taken into account.
DelayShort == Coalesce

Delay == IF since >= MinInterval THEN Coalesce ELSE Larger(Coalesce, MinInterval - since)

\* acceptNotifications and scheduleScan.  Microsoft may deliver it again.
Accept(again) ==
    /\ hints > 0
    /\ again => failures < MaxFailures
    /\ failures' = IF again THEN failures + 1 ELSE failures
    /\ hints' = IF again THEN hints ELSE hints - 1
    /\ armed' = TRUE
    /\ timer' = IF armed THEN timer ELSE Delay
    /\ hinted' = arrived
    /\ overtaken' = FALSE
    /\ UNCHANGED <<arrived, since, scan, cursor, pass, scanned, missed>>

\* Answered with 202 but rejected (the row is not active), or given up by
\* Microsoft after answers of 503.
Drop ==
    /\ hints > 0
    /\ hints' = hints - 1
    /\ UNCHANGED <<arrived, armed, timer, since, scan, cursor, pass, failures,
                   scanned, missed, told>>

TimePasses ==
    /\ since' = IF since < MinInterval THEN since + 1 ELSE since
    /\ timer' = IF timer = 0 THEN 0 ELSE timer - 1
    /\ UNCHANGED <<arrived, hints, armed, scan, cursor, pass, failures, scanned, missed, told>>

\* queueProactiveScan: one scan of a process at a time.
Queue(q) == scan' = IF scan[q].pc = "idle"
                      THEN [scan EXCEPT ![q] = [pc |-> "started", seen |-> 0]]
                      ELSE scan

\* Mutation of Expired: the timer is not waited for.
ExpiredAny == TRUE

Expired == timer = 0

\* The timer's callback: a scan is started, or skipped when one is running.
Fire ==
    /\ armed
    /\ Expired
    /\ armed' = FALSE
    /\ since' = 0
    /\ Queue(Server)
    /\ overtaken' = (scan[Server].pc = "read" /\ scan[Server].seen < hinted)
    /\ UNCHANGED <<arrived, hints, timer, cursor, pass, failures, scanned, missed, hinted>>

\* The server restarts: timers, lastScanAt and scans are of the process.
Restart ==
    /\ failures < MaxFailures
    /\ failures' = failures + 1
    /\ armed' = FALSE
    /\ timer' = 0
    /\ since' = MinInterval
    /\ scan' = [scan EXCEPT ![Server] = NoScan]
    /\ UNCHANGED <<arrived, hints, cursor, pass, scanned, missed, told>>

-----------------------------------------------------------------------------
(* Scans.                                                                  *)

\* The dashboard queues a scan of the mail up to m, which it has read before;
\* the background scheduler, off by default, queues one that reads it itself.
Dashboard(m) ==
    /\ scan[Server].pc = "idle"
    /\ scan' = [scan EXCEPT ![Server] = [pc |-> "read", seen |-> m]]
    /\ UNCHANGED <<arrived, push, cursor, pass, failures, scanned, missed, told>>

Background ==
    /\ scan[Server].pc = "idle"
    /\ Queue(Server)
    /\ UNCHANGED <<arrived, push, cursor, pass, failures, scanned, missed, told>>

Read(q) ==
    /\ scan[q].pc = "started"
    /\ scan' = [scan EXCEPT ![q] = [pc |-> "read", seen |-> arrived]]
    /\ UNCHANGED <<arrived, push, cursor, pass, failures, scanned, missed, told>>

\* Mutation of Released: the entry of the queue is not deleted.
ReleasedNever == [pc |-> "ended", seen |-> 0]

Released == NoScan

Finish(q) ==
    /\ scan[q].pc = "read"
    /\ scanned' = Larger(scanned, scan[q].seen)
    /\ scan' = [scan EXCEPT ![q] = Released]
    /\ UNCHANGED <<arrived, push, cursor, pass, failures, missed, told>>

ScanFails(q) ==
    /\ scan[q].pc # "idle"
    /\ failures < MaxFailures
    /\ failures' = failures + 1
    /\ scan' = [scan EXCEPT ![q] = Released]
    /\ UNCHANGED <<arrived, push, cursor, pass, scanned, missed, told>>

-----------------------------------------------------------------------------
(* The reconciliation pass.                                                *)

\* What the delta call enumerates: everything, without a cursor.
Changes == IF cursor = NoCursor THEN OldMail + arrived ELSE arrived - cursor

Complete == Changes <= MaxPages

\* readDeltaLink and delta.  Only the job writes the cursor, so the two are
\* one step.  Messages already read in Outlook do not count.
Delta(unread) ==
    /\ pass.pc = "idle"
    /\ pass' = [pc    |-> "write",
                link  |-> IF Complete THEN arrived ELSE NoCursor,
                found |-> cursor # NoCursor /\ Changes > 0 /\ unread]
    /\ missed' = IF pass'.found THEN Larger(missed, arrived) ELSE missed
    /\ UNCHANGED <<arrived, push, scan, cursor, failures, scanned, told>>

\* writeDeltaLink
WriteCursor ==
    /\ pass.pc = "write"
    /\ cursor' = IF pass.link # NoCursor THEN pass.link ELSE cursor
    /\ pass' = [pass EXCEPT !.pc = IF pass.found THEN "scan" ELSE "end"]
    /\ UNCHANGED <<arrived, push, scan, failures, scanned, missed, told>>

\* runScanForUser queues the scan and returns.
QueueScan ==
    /\ pass.pc = "scan"
    /\ Queue(Reconciler)
    /\ pass' = [pass EXCEPT !.pc = "end"]
    /\ UNCHANGED <<arrived, push, cursor, failures, scanned, missed, told>>

\* maintainRealtime has returned: run-maintain.ts closes the database, and a
\* scan that has not finished fails at its next statement.
Exit ==
    /\ pass.pc = "end"
    /\ pass' = NoPass
    /\ scan' = [scan EXCEPT ![Reconciler] = NoScan]
    /\ UNCHANGED <<arrived, push, cursor, failures, scanned, missed, told>>

\* The job fails or is killed.
ReconcileFails ==
    /\ pass.pc # "idle"
    /\ failures < MaxFailures
    /\ failures' = failures + 1
    /\ pass' = NoPass
    /\ scan' = [scan EXCEPT ![Reconciler] = NoScan]
    /\ UNCHANGED <<arrived, push, cursor, scanned, missed, told>>

-----------------------------------------------------------------------------
ScanStep(q) == Read(q) \/ Finish(q)

Reconcile == WriteCursor \/ QueueScan \/ Exit \/ \E unread \in BOOLEAN : Delta(unread)

ScansNext ==
    \/ \E pushed \in BOOLEAN : Arrive(pushed)
    \/ \E again \in BOOLEAN : Accept(again)
    \/ Drop \/ TimePasses \/ Fire \/ Restart \/ Background
    \/ \E m \in 0 .. arrived : Dashboard(m)
    \/ \E q \in Scanners : ScanStep(q) \/ ScanFails(q)
    \/ Reconcile \/ ReconcileFails

ScansSpec == ScansInit /\ [][ScansNext]_scansVars

\* Time goes on, timers fire, scans run, and the job is run every hour.
ScansFairness == /\ WF_scansVars(TimePasses) /\ WF_scansVars(Fire) /\ WF_scansVars(Reconcile)
                 /\ \A q \in Scanners : WF_scansVars(ScanStep(q))

FairScansSpec == ScansSpec /\ ScansFairness

-----------------------------------------------------------------------------
(* Properties                                                              *)

\* Every variable holds a value of its kind; nothing is read before it arrives.
ScansTypeOK ==
    /\ arrived \in 0 .. MaxMail
    /\ hints \in 0 .. arrived
    /\ armed \in BOOLEAN
    /\ timer \in 0 .. Larger(Coalesce, MinInterval)
    /\ since \in 0 .. MinInterval
    /\ scan \in [Scanners -> [pc : {"idle", "started", "read"}, seen : 0 .. arrived]]
    /\ cursor \in (0 .. arrived) \cup {NoCursor}
    /\ pass \in [pc : {"idle", "write", "scan", "end"},
                 link : (0 .. arrived) \cup {NoCursor}, found : BOOLEAN]
    /\ failures \in 0 .. MaxFailures
    /\ scanned \in 0 .. arrived
    /\ missed \in 0 .. arrived
    /\ hinted \in 0 .. arrived
    /\ overtaken \in BOOLEAN

\* notifications.ts:45, "Floor between scans for one user, so a busy mailbox
\* cannot spin": however notifications come, repeat and cross the timer, the
\* timer of a process never fires twice within the interval (scheduleScan).
ScansAreSpaced ==
    [][armed /\ ~armed' /\ since' = 0 => since >= MinInterval]_scansVars

\* The timer and the last scan together span the interval.
Spacing == armed => since + timer >= MinInterval

\* The mail there is when a notification is accepted is read by a scan that
\* finishes, in spite of bursts, repeats and the queue (scheduleScan,
\* queueProactiveScan).  Two things may come between: a failure or a restart
\* of the server, and a scan that had read the mailbox before and was still
\* writing when the timer fired: then the timer's scan is skipped.
HintedMailIsScanned ==
    \A n \in 0 .. MaxFailures, m \in 1 .. MaxMail :
        armed /\ hinted >= m /\ failures = n
            ~> scanned >= m \/ overtaken \/ failures > n

\* notifications.ts:170, "A scan is already running for this user; its result
\* will reflect the new mail anyway": the same without the second exception.
RunningScanReflectsIt ==
    \A n \in 0 .. MaxFailures, m \in 1 .. MaxMail :
        armed /\ hinted >= m /\ failures = n ~> scanned >= m \/ failures > n

\* maintain.ts:12, "if anything arrived that we never got a notification for, it
\* triggers the same deterministic scan the webhook would have": mail that a
\* pass has found missed is scanned, if nothing fails.
MissedMailIsScanned ==
    \A m \in 1 .. MaxMail :
        missed >= m ~> scanned >= m \/ failures > 0
=============================================================================
