-------------------------- MODULE ProactiveEngine ---------------------------
(***************************************************************************)
(* The proactive engine of one user: scans of her mailbox and calendar     *)
(* (proactive/engine.ts, runner.ts), the tables proactive_events and       *)
(* proactive_notifications they keep (proactive/store.ts), and what she    *)
(* does with the notices (routes/proactive.routes.ts).                     *)
(*                                                                         *)
(* A scan is a program of database statements; between two of them the     *)
(* user, the clock, the mailbox and other scans move.  Scans started by    *)
(* the dashboard, by the scheduler and by a change notification share a    *)
(* queue that admits one at a time; a scan of the proactive routes runs    *)
(* beside it.                                                              *)
(***************************************************************************)
EXTENDS Naturals, FiniteSets

CONSTANTS Events,       \* dedupe keys: what can be detected
          Types,        \* event types: each has its policy
          TypeOf,       \* TypeOf[e], the type of event e
          Calendar,     \* the events detected in the calendar, not the mail
          Versions,     \* source fingerprints
          Loud,         \* Loud[i]: versions whose severity at time i meets the threshold
          Gone,         \* no such source, or no row
          Scans,        \* processes that scan, again and again
          Origin,       \* Origin[s]: "dashboard", "background" or "direct"
          NoScan,
          Delivery,     \* HERMES_PROACTIVE_DELIVERY
          MaxTime,      \* bound: the clock runs from 1 to MaxTime
          QuietTimes,   \* isQuietHours
          DayOf,        \* DayOf[i], localDay
          Cooldown,     \* cooldown_minutes
          DailyCap,     \* daily_cap
          MaxFailures   \* bound: scans that fail and calendar reads that fail

Times == 1 .. MaxTime

ASSUME TypesAssumption    == TypeOf \in [Events -> Types] /\ Calendar \subseteq Events
ASSUME VersionsAssumption ==
    Gone \notin Versions /\ Loud \in [Times -> SUBSET Versions]
ASSUME ScansAssumption    ==
    NoScan \notin Scans /\ Origin \in [Scans -> {"dashboard", "background", "direct"}]
ASSUME TimeAssumption     ==
    /\ MaxTime \in Nat \ {0} /\ QuietTimes \subseteq Times
    /\ DayOf \in [Times -> Nat] /\ Cooldown \in Nat /\ DailyCap \in Nat \ {0}
ASSUME OtherAssumption    == Delivery \in {"observe", "notify"} /\ MaxFailures \in Nat

VARIABLES
    source,     \* source[e], the fingerprint Microsoft 365 would show now
    clock,
    enabled,    \* types whose policy is enabled
    event,      \* event[e], the row of proactive_events
    notice,     \* notice[e], the in_app row of proactive_notifications
    queue,      \* queuedScans: the scan it holds
    scan,       \* scan[s], the local variables of scan s
    failures    \* counts towards MaxFailures

vars == <<source, clock, enabled, event, notice, queue, scan, failures>>
env  == <<source, clock, enabled, failures>>

Sources   == Versions \cup {Gone}
NoEvent   == [status |-> "absent", version |-> Gone]
NoNotice  == [status |-> "absent", version |-> Gone, last |-> 1, until |-> 1]
Nothing   == [e \in Events |-> Gone]
Idle      == [pc |-> "idle", at |-> 1, snap |-> Nothing, on |-> {}, todo |-> {},
              cur |-> Gone, prev |-> NoEvent, found |-> FALSE]

Init ==
    /\ source \in [Events -> Sources]
    /\ clock = 1
    /\ enabled = Types
    /\ event = [e \in Events |-> NoEvent]
    /\ notice = [e \in Events |-> NoNotice]
    /\ queue = NoScan
    /\ scan = [s \in Scans |-> Idle]
    /\ failures = 0

At(s, l) == scan[s].pc = l

-----------------------------------------------------------------------------
(* The world, the policies and the user.                                   *)

SourceChanges(e, v) ==
    /\ v # source[e]
    /\ source' = [source EXCEPT ![e] = v]
    /\ UNCHANGED <<clock, enabled, event, notice, queue, scan, failures>>

Tick ==
    /\ clock < MaxTime
    /\ clock' = clock + 1
    /\ UNCHANGED <<source, enabled, event, notice, queue, scan, failures>>

\* PATCH /api/proactive/policies/:eventType, the update.  It writes the switch
\* she sent or, when she sent another field, the one its select had read, which
\* may be older than the row: either value, at any moment.
SwitchPolicy(y, on) ==
    /\ enabled' = IF on THEN enabled \cup {y} ELSE enabled \ {y}
    /\ UNCHANGED <<source, clock, event, notice, queue, scan, failures>>

\* setNotificationStatus: whatever the status was.
SetNotificationStatus(e, r) ==
    /\ notice[e].status # "absent"
    /\ notice' = [notice EXCEPT ![e].status = r, ![e].until = 1]
    /\ UNCHANGED <<env, event, queue, scan>>

\* The snooze route refuses a time that is not in the future.
Snooze(e, until) ==
    /\ notice[e].status # "absent"
    /\ until > clock
    /\ notice' = [notice EXCEPT ![e].status = "snoozed", ![e].until = until]
    /\ UNCHANGED <<env, event, queue, scan>>

\* notifications: reading the inbox first wakes every notice whose snooze is over.
Woken(e) == notice[e].status = "snoozed" /\ notice[e].until <= clock

ReadInbox ==
    /\ \E e \in Events : Woken(e)
    /\ notice' = [e \in Events |->
                    IF Woken(e) THEN [notice[e] EXCEPT !.status = "unread", !.until = 1]
                                ELSE notice[e]]
    /\ UNCHANGED <<env, event, queue, scan>>

-----------------------------------------------------------------------------
(* Starting a scan: who reads what when.                                   *)

Admits(s) == queue = NoScan

\* buildDashboard.  The dashboard route reads the mail before it queues its
\* scan, the queued scans of the scheduler and of notifications after, and
\* the proactive routes' without the queue.
ReadMail(s) ==
    /\ \/ At(s, "idle") /\ Origin[s] # "background"
       \/ At(s, "mail")
    /\ scan' = [scan EXCEPT
         ![s].snap = [e \in Events |-> IF e \in Calendar THEN Gone ELSE source[e]],
         ![s].at = IF Origin[s] = "direct" THEN clock ELSE @,
         ![s].pc = IF Origin[s] = "dashboard" THEN "queue" ELSE "calendar"]
    /\ UNCHANGED <<env, event, notice, queue>>

\* queueProactiveScan, for a user with no scan queued.  runProactiveRead
\* reads the clock first.
Admit(s) ==
    /\ \/ At(s, "queue")
       \/ At(s, "idle") /\ Origin[s] = "background"
    /\ Admits(s)
    /\ queue' = s
    /\ scan' = [scan EXCEPT
         ![s].at = IF Origin[s] = "background" THEN clock ELSE @,
         ![s].pc = IF Origin[s] = "background" THEN "mail" ELSE "calendar"]
    /\ UNCHANGED <<env, event, notice>>

\* The dashboard's scan finds the queue taken and is dropped.
Dropped(s) ==
    /\ At(s, "queue")
    /\ ~Admits(s)
    /\ scan' = [scan EXCEPT ![s] = Idle]
    /\ UNCHANGED <<env, event, notice, queue>>

\* Mutation of Detected: an absent source yields an event.
DetectedAny(snap) == Events

Detected(snap) == {e \in Events : snap[e] # Gone}

\* The calendar is read; a failure yields an empty one and a "degraded" mark.
ReadCalendar(s, degraded) ==
    /\ At(s, "calendar")
    /\ degraded => failures < MaxFailures
    /\ failures' = IF degraded THEN failures + 1 ELSE failures
    /\ scan' = [scan EXCEPT
         ![s].snap = [e \in Events |-> IF e \notin Calendar THEN scan[s].snap[e]
                                      ELSE IF degraded THEN Gone ELSE source[e]],
         ![s].pc = "policies"]
    /\ UNCHANGED <<source, clock, enabled, event, notice, queue>>

\* scanProactiveSnapshot: the clock, unless it was read before, the policies,
\* and what is detected.
ReadPolicies(s) ==
    /\ At(s, "policies")
    /\ scan' = [scan EXCEPT
         ![s].todo = Detected(scan[s].snap),
         ![s].on = enabled,
         ![s].at = IF Origin[s] = "dashboard" THEN clock ELSE @,
         ![s].pc = "select"]
    /\ UNCHANGED <<env, event, notice, queue>>

-----------------------------------------------------------------------------
(* The loop over the detected events, for the event the scan is at.        *)

Cur(s)     == scan[s].cur
Version(s) == scan[s].snap[Cur(s)]
Prev(s)    == scan[s].prev

IsNew(s)          == Prev(s).status = "absent"
WasObserved(s)    == Prev(s).status = "observed"
VersionChanged(s) == ~IsNew(s) /\ Prev(s).version # Version(s)

Goto(s, l) == scan' = [scan EXCEPT ![s].pc = l]

\* The scan is done with the event and goes on with the next one.
Onward(s) == scan' = [scan EXCEPT ![s].pc = "select", ![s].cur = Gone,
                                  ![s].prev = NoEvent, ![s].found = FALSE]

\* upsertEvent, the select: isNew, versionChanged and previousStatus are of
\* this moment.
SelectEvent(s, e) ==
    /\ At(s, "select")
    /\ e \in scan[s].todo
    /\ scan' = [scan EXCEPT ![s].cur = e, ![s].todo = @ \ {e},
                            ![s].prev = event[e], ![s].pc = "upsert"]
    /\ UNCHANGED <<env, event, notice, queue>>

\* Not 'disabled', 'below_threshold' or 'observe'.
Delivers(s) == /\ TypeOf[Cur(s)] \in scan[s].on
               /\ Version(s) \in Loud[scan[s].at]
               /\ Delivery = "notify"

NeedsGate(s) == IsNew(s) \/ VersionChanged(s) \/ WasObserved(s)

InQuietHours(s) == scan[s].at \in QuietTimes

\* Mutation of AfterUpsert: an event that is neither new nor changed nor was
\* withheld is taken for noticed.
AfterUpsertOnce(s) ==
    IF ~NeedsGate(s) THEN "select" ELSE IF InQuietHours(s) THEN "hush" ELSE "count"

AfterUpsert(s) == IF NeedsGate(s) /\ InQuietHours(s) THEN "hush" ELSE "count"

Write(s, st) ==
    event' = [event EXCEPT ![Cur(s)] = [status |-> st, version |-> Version(s)]]

\* upsertEvent, the write.
UpsertEvent(s) ==
    /\ At(s, "upsert")
    /\ Write(s, IF Delivers(s) THEN "active" ELSE "observed")
    /\ IF Delivers(s) THEN Goto(s, AfterUpsert(s)) ELSE Onward(s)
    /\ UNCHANGED <<env, notice, queue>>

\* The second upsert of an event withheld for quiet hours.
Hush(s) ==
    /\ At(s, "hush")
    /\ Write(s, IF IsNew(s) THEN "observed" ELSE "active")
    /\ Onward(s)
    /\ UNCHANGED <<env, notice, queue>>

\* notificationCount: rows whose last notice was on the local day.
NotificationCount(y, day) ==
    Cardinality({e \in Events : /\ TypeOf[e] = y
                                /\ notice[e].status # "absent"
                                /\ DayOf[notice[e].last] = day})

OverCap(s) ==
    /\ IsNew(s) \/ WasObserved(s)
    /\ NotificationCount(TypeOf[Cur(s)], DayOf[scan[s].at]) >= DailyCap

Count(s) ==
    /\ At(s, "count")
    /\ Goto(s, IF OverCap(s) THEN "cap" ELSE "lookup")
    /\ UNCHANGED <<env, event, notice, queue>>

\* The second upsert of an event withheld for the daily cap.
Cap(s) ==
    /\ At(s, "cap")
    /\ Write(s, "observed")
    /\ Onward(s)
    /\ UNCHANGED <<env, notice, queue>>

\* Mutation of Same: the version of the row forgotten.
SameNever(s, row) == row.version = Gone

Same(s, row) == row.version = Version(s)

\* Mutation of Cooling: off by one.
CoolingLess(s, row) == scan[s].at + 1 < row.last + Cooldown

Asleep(s, row)  == row.status = "snoozed" /\ row.until > scan[s].at
Cooling(s, row) == scan[s].at < row.last + Cooldown

\* notify, the select: an existing row may silence the notice.
LookUp(s) ==
    /\ At(s, "lookup")
    /\ LET row == notice[Cur(s)] IN
         IF row.status # "absent" /\ (Same(s, row) \/ Asleep(s, row) \/ Cooling(s, row))
           THEN Onward(s)
           ELSE scan' = [scan EXCEPT ![s].found = (row.status # "absent"),
                                     ![s].pc = "notify"]
    /\ UNCHANGED <<env, event, notice, queue>>

\* notify, the write: an update of the row found, or else an insert, which
\* the unique index on (event_id, channel) refuses if there is a row by now.
Notify(s) ==
    /\ At(s, "notify")
    /\ scan[s].found \/ notice[Cur(s)].status = "absent"
    /\ notice' = [notice EXCEPT ![Cur(s)] =
                    [status |-> "unread", version |-> Version(s),
                     last |-> scan[s].at, until |-> 1]]
    /\ Onward(s)
    /\ UNCHANGED <<env, event, queue>>

-----------------------------------------------------------------------------
(* The end of a scan.                                                      *)

Released(s) == IF queue = s THEN NoScan ELSE queue

\* Mutation of Missing: only what was shown is resolved.
MissingObserved(s) ==
    {e \in Events : /\ event[e].status = "observed"
                    /\ e \notin Detected(scan[s].snap)}

Missing(s) ==
    {e \in Events : /\ event[e].status \in {"observed", "active"}
                    /\ e \notin Detected(scan[s].snap)}

\* resolveMissing; recordRun follows and the queue is released.
Resolve(s) ==
    /\ At(s, "select")
    /\ scan[s].todo = {}
    /\ event' = [e \in Events |-> IF e \in Missing(s)
                                    THEN [event[e] EXCEPT !.status = "resolved"]
                                    ELSE event[e]]
    /\ scan' = [scan EXCEPT ![s] = Idle]
    /\ queue' = Released(s)
    /\ UNCHANGED <<env, notice>>

\* The refused insert throws out of the scan.
Refused(s) ==
    /\ At(s, "notify")
    /\ ~scan[s].found /\ notice[Cur(s)].status # "absent"
    /\ scan' = [scan EXCEPT ![s] = Idle]
    /\ queue' = Released(s)
    /\ UNCHANGED <<env, event, notice>>

\* A statement, a Graph read or the process fails; what is written stays.
Fail(s) ==
    /\ ~At(s, "idle")
    /\ failures < MaxFailures
    /\ failures' = failures + 1
    /\ scan' = [scan EXCEPT ![s] = Idle]
    /\ queue' = Released(s)
    /\ UNCHANGED <<source, clock, enabled, event, notice>>

-----------------------------------------------------------------------------
Step(s) ==
    \/ ReadMail(s) \/ Admit(s) \/ Dropped(s)
    \/ \E degraded \in BOOLEAN : ReadCalendar(s, degraded)
    \/ ReadPolicies(s)
    \/ \E e \in Events : SelectEvent(s, e)
    \/ UpsertEvent(s) \/ Hush(s) \/ Count(s) \/ Cap(s) \/ LookUp(s)
    \/ Notify(s) \/ Refused(s) \/ Resolve(s)

Next ==
    \/ \E s \in Scans : Step(s) \/ Fail(s)
    \/ \E e \in Events, v \in Sources : SourceChanges(e, v)
    \/ Tick \/ ReadInbox
    \/ \E y \in Types, on \in BOOLEAN : SwitchPolicy(y, on)
    \/ \E e \in Events, r \in {"read", "dismissed"} : SetNotificationStatus(e, r)
    \/ \E e \in Events, until \in Times : Snooze(e, until)

Spec == Init /\ [][Next]_vars

\* Scans are started again and again (the dashboard polls, the scheduler
\* ticks), a started scan runs, and time goes on.
Fairness == WF_vars(Tick) /\ \A s \in Scans : WF_vars(Step(s))

FairSpec == Spec /\ Fairness

-----------------------------------------------------------------------------
(* Properties                                                              *)

EventRows  == [status : {"absent", "observed", "active", "resolved"}, version : Sources]
NoticeRows == [status : {"absent", "unread", "read", "dismissed", "snoozed"},
               version : Sources, last : Times, until : Times]
ScanStates ==
    [pc : {"idle", "queue", "mail", "calendar", "policies", "select", "upsert", "hush", "count",
           "cap", "lookup", "notify"},
     at : Times, snap : [Events -> Sources], on : SUBSET Types,
     todo : SUBSET Events, cur : Events \cup {Gone}, prev : EventRows, found : BOOLEAN]

\* Every variable holds a value of its kind; a row has a real fingerprint.
TypeOK ==
    /\ source \in [Events -> Sources]
    /\ clock \in Times
    /\ enabled \subseteq Types
    /\ event \in [Events -> EventRows]
    /\ notice \in [Events -> NoticeRows]
    /\ \A e \in Events : /\ event[e].status # "absent" => event[e].version # Gone
                         /\ notice[e].status # "absent" => notice[e].version # Gone
    /\ queue \in Scans \cup {NoScan}
    /\ scan \in [Scans -> ScanStates]
    /\ failures \in 0 .. MaxFailures

\* A notice the user has read or dismissed comes back only for another
\* version of its source, never for the one she has dealt with (notify; the
\* scans share the queue).
DealtWithStaysAway ==
    [][\A e \in Events :
          notice[e].status \in {"read", "dismissed"} /\ notice'[e].status = "unread"
            => notice'[e].version # notice[e].version]_vars

\* Two notices of one event are a cooldown apart (notify; the scans share
\* the queue).
CooldownIsKept ==
    [][\A e \in Events :
          notice[e].status # "absent" /\ notice'[e].last # notice[e].last
            => notice'[e].last >= notice[e].last + Cooldown]_vars

\* What the inbox may not show for long: a source that is gone or whose
\* severity is below the threshold, and a source whose policy is off.
Minor(e)       == source[e] \notin Loud[clock]
SwitchedOff(e) == TypeOf[e] \notin enabled

\* A source that stays unwanted, for the one reason or the other, leaves the
\* inbox for good, whatever scans with older snapshots still write
\* (resolveMissing, the upserts).
UnwantedDisappears ==
    \A e \in Events : <>[]Minor(e) \/ <>[]SwitchedOff(e)
                         => <>[](event[e].status # "active")

\* Not yet noticed, for a reason the policy gives: the day's cap, the cooldown.
HeldBack(e) == \/ NotificationCount(TypeOf[e], DayOf[clock]) >= DailyCap
               \/ notice[e].status # "absent" /\ clock < notice[e].last + Cooldown

\* A notice withheld (quiet hours, a snooze, a degraded, failed or overlapping
\* scan, a policy switched off for a while, a severity that rises late) is
\* delivered in the end: a source that stays wanted in one version is noticed
\* in that version, or held back by cap or cooldown (scanProactiveSnapshot's
\* gates, notify).
WithheldIsDelivered ==
    \A e \in Events, v \in Versions :
        <>[](source[e] = v /\ ~Minor(e) /\ ~SwitchedOff(e))
            => []<>(notice[e].version = v \/ HeldBack(e))

-----------------------------------------------------------------------------
(* What the documents say and the code does not do.                        *)

\* docs/PROACTIVE.md:24, "Each user and trigger has a structured policy: ...
\* quiet hours": no notice is delivered in quiet hours.
QuietHoursAreQuiet ==
    \A e \in Events : notice[e].status # "absent" => notice[e].last \notin QuietTimes

\* docs/PROACTIVE.md:24, "... and local-day cap": no more notices of a type
\* on a day than its cap.
DailyCapIsKept ==
    \A y \in Types, d \in {DayOf[i] : i \in Times} : NotificationCount(y, d) <= DailyCap
=============================================================================
