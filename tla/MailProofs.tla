----------------------------- MODULE MailProofs -----------------------------
(***************************************************************************)
(* Theorems about real-time mail: about the subscriptions, for any number  *)
(* of sign-ins and subscriptions and any lifetimes, and about the scans,   *)
(* for any bounds, delays and page sizes.                                  *)
(***************************************************************************)
EXTENDS MailSubscriptions, MailScans, TLAPS

USE DEF At, table, Less

\* The parts of the invariant, as they are cited below.
Bounded == \A s \in Subs : granted[s] > 0 => left[s] <= granted[s]
Holds   == \A p \in Procs : Holding(p) => sub[p] \in Subs
Knows   == \A p \in Procs : Told(p) /\ granted[sub[p]] > 0 => answer[p] <= granted[sub[p]]

LEMMA InitInv == Init => IInv
<1> SUFFICES ASSUME Init PROVE IInv
  OBVIOUS
<1>1. TypeOK
  <2>1. connected \in BOOLEAN /\ healthy \in BOOLEAN /\ ensuring \in BOOLEAN
    BY DEF Init
  <2> QED
    BY <2>1, TimesAssumption DEF Init, TypeOK, PCs
<1>2. Bounded
  BY DEF Init, Bounded
<1>3. Holds /\ Knows
  BY DEF Init, Holds, Knows, Holding, Told
<1> QED
  BY <1>1, <1>2, <1>3 DEF IInv, Bounded, Holds, Knows

LEMMA Flags ==
    ASSUME TypeOK, [Next]_vars
    PROVE  connected' \in BOOLEAN /\ healthy' \in BOOLEAN /\ ensuring' \in BOOLEAN
<1> USE DEF TypeOK
<1>1. CASE UNCHANGED vars
  BY <1>1 DEF vars
<1>2. CASE Next
  BY <1>2 DEF Next, JobStep, Subscribe, Tick, HealthChanges, Forget, Disconnect, SignIn,
    Check, Create, Revoke, Insert, Start, Skip, Renew, NotRenewed, MarkRenewed, KeepActive,
    Expire, Ensure, Fail
<1> QED
  BY <1>1, <1>2

\* What time and Microsoft do: the row and the answer never outlast the grant.
LEMMA WorldInv ==
    ASSUME IInv, [Next]_vars,
           \/ Tick \/ HealthChanges \/ Disconnect \/ UNCHANGED vars
           \/ \E s \in Subs : Forget(s)
    PROVE  IInv'
<1> USE TimesAssumption DEF IInv
<1>1. TypeOK'
  <2>1. CASE Tick
    BY <2>1, Flags DEF Tick, TypeOK
  <2>2. CASE HealthChanges \/ Disconnect \/ UNCHANGED vars
    BY <2>2, Flags DEF HealthChanges, Disconnect, vars, TypeOK
  <2>3. CASE \E s \in Subs : Forget(s)
    BY <2>3, Flags DEF Forget, TypeOK
  <2> QED
    BY <2>1, <2>2, <2>3
<1>2. Bounded' /\ Holds' /\ Knows'
  <2>1. CASE Tick
    BY <2>1 DEF Tick, TypeOK, Bounded, Holds, Knows, Holding, Told
  <2>2. CASE HealthChanges \/ Disconnect \/ UNCHANGED vars
    BY <2>2 DEF HealthChanges, Disconnect, vars, TypeOK, Bounded, Holds, Knows, Holding, Told
  <2>3. CASE \E s \in Subs : Forget(s)
    BY <2>3 DEF Forget, TypeOK, Bounded, Holds, Knows, Holding, Told
  <2> QED
    BY <2>1, <2>2, <2>3
<1> QED
  BY <1>1, <1>2 DEF Bounded, Holds, Knows

\* A statement of subscribeToInbox.
LEMMA SubscribeInv ==
    ASSUME IInv, [Next]_vars, NEW p \in Procs, SignIn(p) \/ Subscribe(p)
    PROVE  IInv'
<1> USE TimesAssumption DEF IInv
<1> USE DEF Goto, Leave, Return, TypeOK, PCs, Bounded, Holds, Knows, Holding, Told
<1>1. CASE SignIn(p)
  BY <1>1, Flags DEF SignIn
<1>2. CASE Check(p)
  BY <1>2, Flags DEF Check
<1>3. CASE \E s \in Subs : Create(p, s)
  BY <1>3, Flags DEF Create, Fresh, Unused
<1>4. CASE Revoke(p)
  BY <1>4, Flags DEF Revoke
<1>5. CASE Insert(p)
  BY <1>5, Flags DEF Insert
<1> QED
  BY <1>1, <1>2, <1>3, <1>4, <1>5 DEF Subscribe

\* A statement or call of the maintenance job.
LEMMA JobInv ==
    ASSUME IInv, [Next]_vars, JobStep
    PROVE  IInv'
<1> USE TimesAssumption DEF IInv
<1>0. Job \in Procs
  BY DEF Procs
<1>9. CASE Subscribe(Job)
  BY <1>0, <1>9, SubscribeInv
<1> USE <1>0 DEF Goto, Leave, Return, TypeOK, PCs, Bounded, Holds, Knows, Holding, Told
<1>1. CASE Start
  BY <1>1, Flags DEF Start
<1>2. CASE Skip
  BY <1>2, Flags DEF Skip
<1>3. CASE NotRenewed
  BY <1>3, Flags DEF NotRenewed
<1>4. CASE MarkRenewed
  BY <1>4, Flags DEF MarkRenewed, Marked
<1>5. CASE KeepActive
  BY <1>5, Flags DEF KeepActive
<1>6. CASE Expire
  BY <1>6, Flags DEF Expire
<1>7. CASE Ensure
  BY <1>7, Flags DEF Ensure
<1>8. CASE \E heard \in BOOLEAN : Renew(heard)
  BY <1>8, Flags DEF Renew
<1> QED
  BY <1>1, <1>2, <1>3, <1>4, <1>5, <1>6, <1>7, <1>8, <1>9 DEF JobStep

LEMMA FailInv ==
    ASSUME IInv, [Next]_vars, NEW p \in Procs, Fail(p)
    PROVE  IInv'
  BY TimesAssumption, Flags
     DEF Fail, IInv, Leave, Return, TypeOK, PCs, Bounded, Holds, Knows, Holding, Told

\* No row, and nothing about to be written into one, goes beyond what Microsoft
\* grants, whatever races, fails or is forgotten (recordSubscription,
\* markRenewed).
THEOREM SubscriptionsInductive == Spec => []IInv
<1>1. IInv /\ [Next]_vars => IInv'
  <2> SUFFICES ASSUME IInv, [Next]_vars PROVE IInv'
    OBVIOUS
  <2> QED
    BY WorldInv, SubscribeInv, JobInv, FailInv DEF Next, Procs
<1> QED
  BY <1>1, InitInv, PTL DEF Spec

\* Every reachable state of the subscriptions is well typed.
THEOREM SubscriptionsTypeCorrect == Spec => []TypeOK
<1>1. IInv => TypeOK
  BY DEF IInv
<1> QED
  BY <1>1, SubscriptionsInductive, PTL

\* No active row promises more than Microsoft grants, so every one becomes due
\* for renewal in time (subscriptionsDueForRenewal).
THEOREM RowsAreNeverOptimistic == Spec => []NeverOptimistic
<1>1. IInv => NeverOptimistic
  BY DEF IInv, TypeOK, NeverOptimistic
<1> QED
  BY <1>1, SubscriptionsInductive, PTL

-----------------------------------------------------------------------------
(* The scans, which keep their state apart from the subscriptions.         *)

USE DEF Scanners, NoCursor, NoScan, NoPass

\* The delay of the timer is a time.
LEMMA DelayIsNat ==
    ASSUME since \in 0 .. MinInterval
    PROVE  /\ Delay \in 0 .. Larger(Coalesce, MinInterval)
           /\ since + Delay >= MinInterval
  BY BoundsAssumption, DelaysAssumption DEF Delay, Larger

LEMMA LongestDelayIsNat == Larger(Coalesce, MinInterval) \in Nat
  BY BoundsAssumption, DelaysAssumption DEF Larger

\* queueProactiveScan leaves every entry of the queue well formed.
LEMMA QueueIsTyped ==
    ASSUME NEW q \in Scanners, ScansTypeOK, Queue(q)
    PROVE  scan' \in [Scanners -> [pc : {"idle", "started", "read"}, seen : 0 .. arrived]]
<1>1. [pc |-> "started", seen |-> 0] \in [pc : {"idle", "started", "read"}, seen : 0 .. arrived]
  BY BoundsAssumption, DelaysAssumption DEF ScansTypeOK
<1> QED
  BY <1>1 DEF Queue, ScansTypeOK

\* Every reachable state of the scans is well typed; in particular no scan, cursor or pass
\* knows of mail that has not arrived (acceptNotifications, maintainRealtime).
THEOREM ScansTypeCorrect == ScansSpec => []ScansTypeOK
<1>1. ScansInit => ScansTypeOK
  <2> SUFFICES ASSUME ScansInit PROVE ScansTypeOK
    OBVIOUS
  <2>1. scan \in [Scanners -> [pc : {"idle", "started", "read"}, seen : 0 .. arrived]]
    <3>1. NoScan \in [pc : {"idle", "started", "read"}, seen : 0 .. arrived]
      BY DEF ScansInit
    <3> QED
      BY <3>1 DEF ScansInit
  <2>2. pass \in [pc : {"idle", "write", "scan", "end"},
                  link : (0 .. arrived) \cup {NoCursor}, found : BOOLEAN]
    BY DEF ScansInit
  <2>3. timer \in 0 .. Larger(Coalesce, MinInterval)
    BY LongestDelayIsNat DEF ScansInit
  <2>4. armed \in BOOLEAN /\ overtaken \in BOOLEAN
    BY DEF ScansInit
  <2> QED
    BY <2>1, <2>2, <2>3, <2>4, BoundsAssumption, DelaysAssumption DEF ScansInit, ScansTypeOK
<1>2. ScansTypeOK /\ [ScansNext]_scansVars => ScansTypeOK'
  <2> SUFFICES ASSUME ScansTypeOK, [ScansNext]_scansVars PROVE ScansTypeOK'
    OBVIOUS
  <2> USE BoundsAssumption, DelaysAssumption DEF ScansTypeOK, told
  <2>1. ASSUME NEW pushed \in BOOLEAN, Arrive(pushed) PROVE ScansTypeOK'
    BY <2>1 DEF Arrive
  <2>2. ASSUME NEW again \in BOOLEAN, Accept(again) PROVE ScansTypeOK'
    <3>1. armed' \in BOOLEAN /\ overtaken' \in BOOLEAN
      BY <2>2 DEF Accept
    <3> QED
      BY <2>2, <3>1, DelayIsNat DEF Accept
  <2>3. CASE Drop
    BY <2>3 DEF Drop
  <2>4. CASE TimePasses
    BY <2>4, LongestDelayIsNat DEF TimePasses
  <2>5. CASE Fire
    <3>1. Server \in Scanners /\ Queue(Server)
      BY <2>5 DEF Fire
    <3>2. armed' \in BOOLEAN
      BY <2>5 DEF Fire
    <3>3. overtaken' \in BOOLEAN
      BY <2>5 DEF Fire
    <3> QED
      BY <2>5, <3>1, <3>2, <3>3, QueueIsTyped DEF Fire
  <2>6. CASE Restart
    <3>1. armed' \in BOOLEAN
      BY <2>6 DEF Restart
    <3> QED
      BY <2>6, <3>1, LongestDelayIsNat DEF Restart
  <2>7. CASE Background
    BY <2>7 DEF Background, Queue, push
  <2>8. ASSUME NEW m \in 0 .. arrived, Dashboard(m) PROVE ScansTypeOK'
    BY <2>8 DEF Dashboard, push
  <2>9. ASSUME NEW q \in Scanners, Read(q) PROVE ScansTypeOK'
    BY <2>9 DEF Read, push
  <2>10. ASSUME NEW q \in Scanners, Finish(q) PROVE ScansTypeOK'
    BY <2>10 DEF Finish, Released, Larger, push
  <2>11. ASSUME NEW q \in Scanners, ScanFails(q) PROVE ScansTypeOK'
    BY <2>11 DEF ScanFails, Released, push
  <2>12. ASSUME NEW unread \in BOOLEAN, Delta(unread) PROVE ScansTypeOK'
    BY <2>12 DEF Delta, Larger, push
  <2>13. CASE WriteCursor
    BY <2>13 DEF WriteCursor, push
  <2>14. CASE QueueScan
    BY <2>14 DEF QueueScan, Queue, push
  <2>15. CASE Exit
    BY <2>15 DEF Exit, push
  <2>16. CASE ReconcileFails
    BY <2>16 DEF ReconcileFails, push
  <2>17. CASE UNCHANGED scansVars
    BY <2>17 DEF scansVars
  <2> QED
    BY <2>1, <2>2, <2>3, <2>4, <2>5, <2>6, <2>7, <2>8, <2>9, <2>10, <2>11, <2>12,
       <2>13, <2>14, <2>15, <2>16, <2>17 DEF ScansNext, ScanStep, Reconcile
<1> QED
  BY <1>1, <1>2, PTL DEF ScansSpec

\* While the timer is armed, it and the time since the last scan together span
\* the interval (scheduleScan).
THEOREM SpacingHolds == ScansSpec => []Spacing
<1>1. ScansInit => Spacing
  BY DEF ScansInit, Spacing
<1>2. ScansTypeOK /\ Spacing /\ [ScansNext]_scansVars => Spacing'
  <2> SUFFICES ASSUME ScansTypeOK, Spacing, [ScansNext]_scansVars PROVE Spacing'
    OBVIOUS
  <2> USE BoundsAssumption, DelaysAssumption DEF ScansTypeOK, Spacing
  <2>1. ASSUME NEW again \in BOOLEAN, Accept(again) PROVE Spacing'
    BY <2>1, DelayIsNat DEF Accept
  <2>2. CASE TimePasses
    BY <2>2 DEF TimePasses
  <2>3. CASE Fire
    BY <2>3 DEF Fire
  <2>4. CASE Restart
    BY <2>4 DEF Restart
  <2>5. CASE UNCHANGED <<armed, timer, since>>
    BY <2>5
  <2> QED
    BY <2>1, <2>2, <2>3, <2>4, <2>5
    DEF ScansNext, ScanStep, Reconcile, Arrive, Drop,
        Background, Dashboard, Read, Finish, ScanFails,
        Delta, WriteCursor, QueueScan, Exit, ReconcileFails,
        push, scansVars
<1> QED
  BY <1>1, <1>2, ScansTypeCorrect, PTL DEF ScansSpec

\* The timer of a process never fires twice within MIN_INTERVAL_MS, however
\* notifications come, repeat and cross it (scheduleScan).
THEOREM ScansKeepTheirDistance == ScansSpec => ScansAreSpaced
<1>1. ScansTypeOK /\ Spacing /\ [ScansNext]_scansVars
        => [armed /\ ~armed' /\ since' = 0 => since >= MinInterval]_scansVars
  <2> SUFFICES ASSUME ScansTypeOK, Spacing, ScansNext, armed, ~armed', since' = 0
               PROVE  since >= MinInterval
    OBVIOUS
  <2> USE BoundsAssumption, DelaysAssumption DEF ScansTypeOK, Spacing
  <2>1. CASE Fire
    BY <2>1 DEF Fire, Expired
  <2>2. CASE Restart
    BY <2>2 DEF Restart
  <2> QED
    BY <2>1, <2>2
    DEF ScansNext, ScanStep, Reconcile, Arrive, Accept, Drop,
        TimePasses, Background, Dashboard, Read, Finish,
        ScanFails, Delta, WriteCursor, QueueScan, Exit,
        ReconcileFails, push
<1> QED
  BY <1>1, ScansTypeCorrect, SpacingHolds, PTL DEF ScansSpec, ScansAreSpaced
=============================================================================
