------------------------- MODULE MailSubscriptions --------------------------
(***************************************************************************)
(* The subscriptions of one user's inbox at Microsoft Graph, the table     *)
(* graph_subscriptions that mirrors them (realtime/store.ts), and the two  *)
(* programs that keep them: the sign-in, which subscribes                  *)
(* (realtime/subscriptions.ts), and the hourly maintenance job, which      *)
(* renews and recreates (realtime/maintain.ts).                            *)
(*                                                                         *)
(* Each program is its statements and Graph calls; the other programs, the *)
(* clock and Microsoft move in between.  Time is what is left: every tick  *)
(* takes one unit from every subscription and every expires_at.            *)
(***************************************************************************)
EXTENDS Naturals

CONSTANTS Subs,         \* numbers for the subscriptions that still matter
          NoSub,
          Signers,      \* sign-ins that may be under way at once
          Job,          \* the maintenance job, never two at once
          Lifetime,     \* MAX_LIFETIME_MINUTES
          RenewWithin,  \* the window of subscriptionsDueForRenewal
          KeepBeyond    \* 36 h: what subscribeToInbox leaves be

ASSUME NamesAssumption == Subs \subseteq Nat /\ NoSub \notin Subs /\ Job \notin Signers
ASSUME TimesAssumption == /\ Lifetime \in Nat /\ RenewWithin \in Nat /\ KeepBeyond \in Nat
                          /\ RenewWithin < KeepBeyond /\ KeepBeyond < Lifetime

Procs == Signers \cup {Job}

VARIABLES
    connected,  \* the status of oauth_connections is 'connected'
    healthy,    \* Microsoft 365, the database and the processes work
    granted,    \* granted[s], how long Microsoft will still have s; 0 if not
    active,     \* the rows whose status is 'active'
    left,       \* left[s], what is left until the row's expires_at
    pc,         \* where program p is
    sub,        \* the subscription it holds in a local variable
    answer,     \* what is left until the expirationDateTime it was answered
    ensuring,   \* the job is past its renewals
    aged        \* the programs that were running at the last tick

table == <<active, left>>
vars  == <<connected, healthy, granted, active, left, pc, sub, answer, ensuring, aged>>

Init ==
    /\ connected = FALSE
    /\ healthy = TRUE
    /\ granted = [s \in Subs |-> 0]
    /\ active = {}
    /\ left = [s \in Subs |-> 0]
    /\ pc = [p \in Procs |-> "idle"]
    /\ sub = [p \in Procs |-> NoSub]
    /\ answer = [p \in Procs |-> 0]
    /\ ensuring = FALSE
    /\ aged = {}

At(p, l) == pc[p] = l

Goto(p, l) == pc' = [pc EXCEPT ![p] = l] /\ UNCHANGED <<sub, answer, aged>>

\* On to l; the subscription held is not needed any more.
Leave(p, l) == /\ pc' = [pc EXCEPT ![p] = l]
               /\ sub' = [sub EXCEPT ![p] = NoSub]
               /\ answer' = [answer EXCEPT ![p] = 0]
               /\ aged' = IF l = "idle" THEN aged \ {p} ELSE aged

\* The end of subscribeToInbox, by return or by exception: the sign-in does
\* not wait for it, the job goes on.
Return(p) == Leave(p, IF p = Job /\ ~ensuring THEN "ensure" ELSE "idle")

\* The partial unique index (user_id, resource) where status = 'active'.
IndexAllows(s) == active \subseteq {s}

-----------------------------------------------------------------------------
(* Time, Microsoft and the user.                                           *)

Less(n) == IF n = 0 THEN 0 ELSE n - 1

\* A unit is half a day and a program is over in minutes: none spans two ticks.
Tick ==
    /\ aged = {}
    /\ aged' = {p \in Procs : ~At(p, "idle")}
    /\ granted' = [s \in Subs |-> Less(granted[s])]
    /\ left' = [s \in Subs |-> Less(left[s])]
    /\ answer' = [p \in Procs |-> Less(answer[p])]
    /\ UNCHANGED <<connected, healthy, active, pc, sub, ensuring>>

HealthChanges ==
    /\ healthy' = ~healthy
    /\ UNCHANGED <<connected, granted, table, pc, sub, answer, ensuring, aged>>

\* Microsoft forgets a subscription before its time.
Forget(s) ==
    /\ ~healthy
    /\ granted[s] > 0
    /\ granted' = [granted EXCEPT ![s] = 0]
    /\ UNCHANGED <<connected, healthy, table, pc, sub, answer, ensuring, aged>>

\* Logout, or a refresh that fails: markNeedsReauth.
Disconnect ==
    /\ connected
    /\ connected' = FALSE
    /\ UNCHANGED <<healthy, granted, table, pc, sub, answer, ensuring, aged>>

\* The callback saves the connection and starts subscribeToInbox.
SignIn(p) ==
    /\ p \in Signers
    /\ At(p, "idle")
    /\ connected' = TRUE
    /\ Goto(p, "check")
    /\ UNCHANGED <<healthy, granted, table, ensuring>>

-----------------------------------------------------------------------------
(* subscribeToInbox.                                                       *)

Comfortable(s) == s \in active /\ left[s] > KeepBeyond

Check(p) ==
    /\ At(p, "check")
    /\ IF \E s \in Subs : Comfortable(s) THEN Return(p) ELSE Goto(p, "create")
    /\ UNCHANGED <<connected, healthy, granted, table, ensuring>>

\* The least id that no active row and no running program refers to stands
\* for the new one: what becomes of the old one, Hermes never knows.
Unused   == {s \in Subs \ active : \A p \in Procs : sub[p] # s}
Fresh(s) == s \in Unused /\ \A r \in Unused : s <= r

\* POST /subscriptions.  An answer that is lost is a failure here.  Microsoft's
\* answers, here and in Renew, carry the expirationDateTime they are assumed to;
\* the fallback for one without, expiry(), is left out.
Create(p, s) ==
    /\ At(p, "create")
    /\ Fresh(s)
    /\ granted' = [granted EXCEPT ![s] = Lifetime]
    /\ left' = [left EXCEPT ![s] = 0]
    /\ pc' = [pc EXCEPT ![p] = "revoke"]
    /\ sub' = [sub EXCEPT ![p] = s]
    /\ answer' = [answer EXCEPT ![p] = Lifetime]
    /\ UNCHANGED <<connected, healthy, active, ensuring, aged>>

\* recordSubscription, the update.
Revoke(p) ==
    /\ At(p, "revoke")
    /\ active' = {}
    /\ Goto(p, "insert")
    /\ UNCHANGED <<connected, healthy, granted, left, ensuring>>

\* recordSubscription, the insert.  The index refuses it when another program
\* has inserted since the update; subscribeToInbox throws.
Insert(p) ==
    /\ At(p, "insert")
    /\ IF IndexAllows(sub[p])
         THEN /\ active' = active \cup {sub[p]}
              /\ left' = [left EXCEPT ![sub[p]] = answer[p]]
         ELSE UNCHANGED table
    /\ Return(p)
    /\ UNCHANGED <<connected, healthy, granted, ensuring>>

-----------------------------------------------------------------------------
(* The job: renew, then make sure there is a subscription.                 *)

\* Mutation of Due: the window has no lower end.
DueAlive(s) == s \in active /\ left[s] <= RenewWithin /\ left[s] > 0

Due(s) == s \in active /\ left[s] <= RenewWithin

\* subscriptionsDueForRenewal; the index leaves at most one row to a user.
Start ==
    /\ At(Job, "idle")
    /\ ensuring' = FALSE
    /\ IF \E s \in Subs : Due(s)
         THEN \E s \in Subs : /\ Due(s)
                              /\ sub' = [sub EXCEPT ![Job] = s]
                              /\ pc' = [pc EXCEPT ![Job] = "renew"]
                              /\ UNCHANGED <<answer, aged>>
         ELSE Goto(Job, "ensure")
    /\ UNCHANGED <<connected, healthy, granted, table>>

\* A user who is not connected is skipped.
Skip ==
    /\ At(Job, "renew")
    /\ ~connected
    /\ Return(Job)
    /\ UNCHANGED <<connected, healthy, granted, table, ensuring>>

\* PATCH /subscriptions/{id} succeeds; the answer may be lost.
Renew(heard) ==
    /\ At(Job, "renew")
    /\ connected
    /\ granted[sub[Job]] > 0
    /\ heard \/ ~healthy
    /\ granted' = [granted EXCEPT ![sub[Job]] = Lifetime]
    /\ pc' = [pc EXCEPT ![Job] = IF heard THEN "mark" ELSE "keep"]
    /\ answer' = [answer EXCEPT ![Job] = IF heard THEN Lifetime ELSE 0]
    /\ UNCHANGED <<connected, healthy, table, sub, ensuring, aged>>

\* A 404, or any other failure.
NotRenewed ==
    /\ At(Job, "renew")
    /\ connected
    /\ \/ granted[sub[Job]] = 0 /\ Goto(Job, "expire")
       \/ ~healthy /\ Goto(Job, "keep")
    /\ UNCHANGED <<connected, healthy, granted, table, ensuring>>

\* Mutations of Marked: the full lifetime from now on; one unit too many.
MarkedAsked    == Lifetime
MarkedExtended == answer[Job] + 1

Marked == answer[Job]

\* markRenewed.  Refused by the index, it throws inside renewSubscription,
\* whose catch takes it for a failed renewal.
MarkRenewed ==
    /\ At(Job, "mark")
    /\ IF IndexAllows(sub[Job])
         THEN /\ active' = active \cup {sub[Job]}
              /\ left' = [left EXCEPT ![sub[Job]] = Marked]
              /\ Return(Job)
         ELSE UNCHANGED table /\ Goto(Job, "keep")
    /\ UNCHANGED <<connected, healthy, granted, ensuring>>

\* markSubscriptionStatus(.., 'active'), whatever the status has become.
\* Refused by the index, it throws out of the renewal.
KeepActive ==
    /\ At(Job, "keep")
    /\ IF IndexAllows(sub[Job])
         THEN /\ active' = active \cup {sub[Job]}
              /\ Leave(Job, "check")
         ELSE UNCHANGED active /\ Return(Job)
    /\ UNCHANGED <<connected, healthy, granted, left, ensuring>>

\* markSubscriptionStatus(.., 'expired')
Expire ==
    /\ At(Job, "expire")
    /\ active' = active \ {sub[Job]}
    /\ Leave(Job, "check")
    /\ UNCHANGED <<connected, healthy, granted, left, ensuring>>

Unserved == active = {}

\* The reconciliation pass subscribes a connected user who has no active row.
Ensure ==
    /\ At(Job, "ensure")
    /\ ensuring' = TRUE
    /\ Leave(Job, IF connected /\ Unserved THEN "check" ELSE "idle")
    /\ UNCHANGED <<connected, healthy, granted, table>>

\* A call, a statement or the process fails.  A sign-in may be cut off at any
\* time: the response does not wait for it.
Fail(p) ==
    /\ ~At(p, "idle")
    /\ ~healthy \/ p \in Signers
    /\ Return(p) \/ Leave(p, "idle")
    /\ UNCHANGED <<connected, healthy, granted, table, ensuring>>

-----------------------------------------------------------------------------
Subscribe(p) ==
    \/ Check(p) \/ Revoke(p) \/ Insert(p)
    \/ \E s \in Subs : Create(p, s)

JobStep ==
    \/ Start \/ Skip \/ NotRenewed \/ MarkRenewed \/ KeepActive \/ Expire \/ Ensure
    \/ \E heard \in BOOLEAN : Renew(heard)
    \/ Subscribe(Job)

Next ==
    \/ JobStep
    \/ \E p \in Signers : SignIn(p) \/ Subscribe(p)
    \/ \E p \in Procs : Fail(p)
    \/ Tick \/ HealthChanges \/ Disconnect
    \/ \E s \in Subs : Forget(s)

Spec == Init /\ [][Next]_vars

\* The job is run again and again and finishes; a sign-in finishes or is cut
\* off; time goes on.
Fairness == /\ WF_vars(Tick) /\ WF_vars(JobStep)
            /\ \A p \in Signers : WF_vars(Subscribe(p) \/ Fail(p))

FairSpec == Spec /\ Fairness

-----------------------------------------------------------------------------
(* Properties                                                              *)

PCs == {"idle", "check", "create", "revoke", "insert", "renew", "mark", "keep",
        "expire", "ensure"}

\* Every variable holds a value of its kind; only the job renews.
TypeOK ==
    /\ connected \in BOOLEAN /\ healthy \in BOOLEAN /\ ensuring \in BOOLEAN
    /\ granted \in [Subs -> 0 .. Lifetime]
    /\ active \subseteq Subs
    /\ left \in [Subs -> 0 .. Lifetime]
    /\ pc \in [Procs -> PCs]
    /\ sub \in [Procs -> Subs \cup {NoSub}]
    /\ answer \in [Procs -> 0 .. Lifetime]
    /\ aged \subseteq Procs

\* However sign-ins and the job race and fail, Hermes never believes that a
\* subscription Microsoft has lives longer than it does, so that every active
\* row becomes due for renewal before it is too late (recordSubscription,
\* markRenewed).
NeverOptimistic == \A s \in active : granted[s] > 0 => left[s] <= granted[s]

Holding(p) == pc[p] \in {"revoke", "insert", "renew", "mark", "keep", "expire"}

Told(p) == pc[p] \in {"revoke", "insert", "mark"}

\* The inductive invariant: whatever becomes of a row, and whatever a program
\* is about to write into one, does not go beyond what Microsoft grants.
IInv ==
    /\ TypeOK
    /\ \A s \in Subs : granted[s] > 0 => left[s] <= granted[s]
    /\ \A p \in Procs : Holding(p) => sub[p] \in Subs
    /\ \A p \in Procs : Told(p) /\ granted[sub[p]] > 0 => answer[p] <= granted[sub[p]]

\* Mail is pushed: Microsoft has a subscription whose notifications Hermes
\* accepts.
Served == \E s \in active : granted[s] > 0

\* A connected user is served again and again once nothing fails any more,
\* whatever sign-ins, cut-off sign-ins and failures have left behind
\* (maintainRealtime: renew, recreate, bring in).
ServedAgain == <>[](connected /\ healthy) => []<>Served
=============================================================================
