------------------------ MODULE ProactiveEngineProofs ------------------------
(* Proofs about ProactiveEngine: for any events, policies, clocks and scans,*)
(* every state is well typed; and for scans that all go through the queue,  *)
(* a notice comes back only for another version and after its cooldown.     *)
EXTENDS ProactiveEngine, TLAPS

\* The statements of the loop over the detected events.
Loop == {"upsert", "hush", "count", "cap", "lookup", "notify"}

\* A scan goes only through what it detected in its snapshot.
ScanFits(s) ==
    /\ scan[s].pc \in Loop \cup {"select"} => scan[s].todo \subseteq Detected(scan[s].snap)
    /\ scan[s].pc \in Loop => Cur(s) \in Detected(scan[s].snap)

LoopInv == TypeOK /\ \A s \in Scans : ScanFits(s)

\* A scan that is under way holds the queue ...
Holds(s) == scan[s].pc \notin {"idle", "queue"} => queue = s

\* ... and what it looked up of the notice is still so when it writes.
LookedUp(s) ==
    scan[s].pc = "notify" =>
       LET row == notice[Cur(s)] IN
         row.status # "absent" => /\ row.version # Version(s)
                                  /\ scan[s].at >= row.last + Cooldown

\* All scans go through the queue: those of the dashboard, of the scheduler
\* and of change notifications do.
AllQueued == \A s \in Scans : Origin[s] # "direct"

QueueInv == LoopInv /\ \A s \in Scans : Holds(s) /\ LookedUp(s)

-----------------------------------------------------------------------------
(* Types.                                                                   *)

LEMMA OneIsATime == 1 \in Times /\ Times \subseteq Nat
BY TimeAssumption DEF Times

LEMMA InitType == Init => LoopInv
<1> SUFFICES ASSUME Init PROVE LoopInv
  OBVIOUS
<1>1. /\ Gone \in Sources /\ NoEvent \in EventRows /\ NoNotice \in NoticeRows
      /\ Nothing \in [Events -> Sources]
  BY OneIsATime DEF Sources, NoEvent, NoNotice, EventRows, NoticeRows, Nothing
<1>2. Idle \in ScanStates
  BY <1>1, OneIsATime DEF Idle, ScanStates
<1>3. TypeOK
  BY <1>1, <1>2, OneIsATime, OtherAssumption DEF Init, TypeOK, NoEvent, NoNotice
<1>4. \A s \in Scans : ScanFits(s)
  BY DEF Init, ScanFits, Idle, Loop
<1> QED BY <1>3, <1>4 DEF LoopInv

\* The scan goes on to another statement.
LEMMA GotoType ==
    ASSUME TypeOK, NEW s \in Scans,
           NEW l \in {"idle", "queue", "mail", "calendar", "policies", "select", "upsert",
                      "hush", "count", "cap", "lookup", "notify"}, Goto(s, l)
    PROVE  scan' \in [Scans -> ScanStates]
BY DEF TypeOK, Goto, ScanStates

LEMMA OnwardType ==
    ASSUME TypeOK, NEW s \in Scans, Onward(s)
    PROVE  scan' \in [Scans -> ScanStates]
<1>1. NoEvent \in EventRows
  BY DEF NoEvent, EventRows, Sources
<1>2. scan[s] \in ScanStates
  BY DEF TypeOK
<1>3. [scan[s] EXCEPT !.pc = "select", !.cur = Gone, !.prev = NoEvent, !.found = FALSE]
        \in ScanStates
  BY <1>1, <1>2 DEF ScanStates
<1> QED BY <1>3 DEF TypeOK, Onward

LEMMA IdleType ==
    ASSUME TypeOK, NEW s \in Scans, scan' = [scan EXCEPT ![s] = Idle]
    PROVE  scan' \in [Scans -> ScanStates]
<1>1. Idle \in ScanStates
  BY OneIsATime DEF Idle, ScanStates, NoEvent, EventRows, Sources, Nothing
<1> QED BY <1>1 DEF TypeOK

\* The event a scan is at has a version, which is what it writes.
LEMMA AtAnEvent ==
    ASSUME LoopInv, NEW s \in Scans, scan[s].pc \in Loop
    PROVE  /\ Cur(s) \in Events /\ Version(s) \in Sources /\ Version(s) # Gone
           /\ scan[s].at \in Times
<1>1. scan[s] \in ScanStates
  BY DEF LoopInv, TypeOK
<1>2. scan[s].snap \in [Events -> Sources] /\ scan[s].at \in Times
  BY <1>1 DEF ScanStates
<1>3. Cur(s) \in Events /\ scan[s].snap[Cur(s)] # Gone
  BY DEF LoopInv, ScanFits, Detected
<1> QED BY <1>2, <1>3 DEF Version

LEMMA WriteType ==
    ASSUME LoopInv, NEW s \in Scans, scan[s].pc \in Loop,
           NEW st \in {"observed", "active"}, Write(s, st)
    PROVE  /\ event' \in [Events -> EventRows]
           /\ \A e \in Events : event'[e].status # "absent" => event'[e].version # Gone
<1>1. [status |-> st, version |-> Version(s)] \in EventRows
  BY AtAnEvent DEF EventRows
<1>2. \A e \in Events : event'[e] = IF e = Cur(s) THEN [status |-> st, version |-> Version(s)]
                                                 ELSE event[e]
  BY DEF Write, LoopInv, TypeOK
<1> QED BY <1>1, <1>2, AtAnEvent DEF LoopInv, TypeOK, Write

\* What a scan that goes on, ends or begins anew may still go through.
LEMMA GotoFits ==
    ASSUME LoopInv, NEW s \in Scans, NEW l, Goto(s, l), scan[s].pc \in Loop
    PROVE  \A t \in Scans : ScanFits(t)'
<1> TAKE t \in Scans
<1>1. ScanFits(t) /\ scan[t] \in ScanStates
  BY DEF LoopInv, TypeOK
<1>2. CASE t # s
  <2>1. scan'[t] = scan[t]
    BY <1>2 DEF Goto, LoopInv, TypeOK
  <2> QED BY <1>1, <2>1 DEF ScanFits, Cur
<1>3. CASE t = s
  <2>1. /\ scan'[s].todo = scan[s].todo /\ scan'[s].snap = scan[s].snap
        /\ scan'[s].cur = scan[s].cur
    BY <1>1, <1>3 DEF Goto, LoopInv, TypeOK, ScanStates
  <2> QED BY <1>1, <1>3, <2>1 DEF ScanFits, Cur
<1> QED BY <1>2, <1>3

LEMMA OnwardFits ==
    ASSUME LoopInv, NEW s \in Scans, Onward(s), scan[s].pc \in Loop
    PROVE  \A t \in Scans : ScanFits(t)'
<1> TAKE t \in Scans
<1>1. ScanFits(t) /\ scan[t] \in ScanStates
  BY DEF LoopInv, TypeOK
<1>2. CASE t # s
  <2>1. scan'[t] = scan[t]
    BY <1>2 DEF Onward, LoopInv, TypeOK
  <2> QED BY <1>1, <2>1 DEF ScanFits, Cur
<1>3. CASE t = s
  <2>1. /\ scan'[s].todo = scan[s].todo /\ scan'[s].snap = scan[s].snap
        /\ scan'[s].pc = "select"
    BY <1>1, <1>3 DEF Onward, LoopInv, TypeOK, ScanStates
  <2> QED BY <1>1, <1>3, <2>1 DEF ScanFits, Cur, Loop
<1> QED BY <1>2, <1>3

LEMMA OutsideFits ==
    ASSUME LoopInv, NEW s \in Scans, NEW r, scan' = [scan EXCEPT ![s] = r],
           r.pc \notin Loop \cup {"select"}
    PROVE  \A t \in Scans : ScanFits(t)'
<1> TAKE t \in Scans
<1>1. CASE t # s
  <2>1. scan'[t] = scan[t] /\ ScanFits(t)
    BY <1>1 DEF LoopInv, TypeOK
  <2> QED BY <2>1 DEF ScanFits, Cur
<1>2. CASE t = s
  <2>1. scan'[s] = r
    BY DEF LoopInv, TypeOK
  <2> QED BY <1>2, <2>1 DEF ScanFits
<1> QED BY <1>1, <1>2

\* Steps of the world and of the user leave the scans alone.
LEMMA ScansStand ==
    ASSUME LoopInv, UNCHANGED scan PROVE \A t \in Scans : ScanFits(t)'
BY DEF LoopInv, ScanFits, Cur

LEMMA LoopStep == LoopInv /\ [Next]_vars => LoopInv'
<1> SUFFICES ASSUME LoopInv, [Next]_vars PROVE LoopInv'
  OBVIOUS
<1>0. TypeOK /\ \A s \in Scans : scan[s] \in ScanStates /\ ScanFits(s)
  BY DEF LoopInv, TypeOK
<1>1. ASSUME NEW s \in Scans, ReadMail(s) PROVE LoopInv'
  <2> DEFINE snap == [e \in Events |-> IF e \in Calendar THEN Gone ELSE source[e]]
             r == [scan[s] EXCEPT !.snap = snap,
                     !.at = IF Origin[s] = "direct" THEN clock ELSE @,
                     !.pc = IF Origin[s] = "dashboard" THEN "queue" ELSE "calendar"]
  <2>1. scan' = [scan EXCEPT ![s] = r]
    BY <1>1 DEF ReadMail
  <2>2. snap \in [Events -> Sources]
    BY <1>0 DEF TypeOK, Sources
  <2>3. r \in ScanStates /\ r.pc \in {"queue", "calendar"}
    <3> HIDE DEF snap
    <3> QED BY <1>0, <2>2 DEF TypeOK, ScanStates
  <2> HIDE DEF r
  <2>4. TypeOK'
    BY <1>0, <1>1, <2>1, <2>3 DEF TypeOK, ReadMail, env
  <2>5. \A t \in Scans : ScanFits(t)'
    BY <2>1, <2>3, OutsideFits DEF Loop
  <2> QED BY <2>4, <2>5 DEF LoopInv
<1>2. ASSUME NEW s \in Scans, Admit(s) PROVE LoopInv'
  <2> DEFINE r == [scan[s] EXCEPT
                     !.at = IF Origin[s] = "background" THEN clock ELSE @,
                     !.pc = IF Origin[s] = "background" THEN "mail" ELSE "calendar"]
  <2>1. scan' = [scan EXCEPT ![s] = r]
    BY <1>2 DEF Admit
  <2>2. r \in ScanStates /\ r.pc \in {"mail", "calendar"}
    BY <1>0 DEF TypeOK, ScanStates
  <2> HIDE DEF r
  <2>3. TypeOK'
    BY <1>0, <1>2, <2>1, <2>2 DEF TypeOK, Admit, env
  <2>4. \A t \in Scans : ScanFits(t)'
    BY <2>1, <2>2, OutsideFits DEF Loop
  <2> QED BY <2>3, <2>4 DEF LoopInv
<1>3. ASSUME NEW s \in Scans, Dropped(s) PROVE LoopInv'
  <2>1. scan' \in [Scans -> ScanStates]
    BY <1>0, <1>3, IdleType DEF Dropped
  <2>2. \A t \in Scans : ScanFits(t)'
    BY <1>3, OutsideFits DEF Dropped, Idle, Loop
  <2> QED BY <1>0, <1>3, <2>1, <2>2 DEF LoopInv, TypeOK, Dropped, env
<1>4. ASSUME NEW s \in Scans, NEW degraded \in BOOLEAN, ReadCalendar(s, degraded)
      PROVE  LoopInv'
  <2> DEFINE snap == [e \in Events |->
                        IF e \notin Calendar THEN scan[s].snap[e]
                        ELSE IF degraded THEN Gone ELSE source[e]]
             r == [scan[s] EXCEPT !.snap = snap, !.pc = "policies"]
  <2>1. scan' = [scan EXCEPT ![s] = r]
    BY <1>4 DEF ReadCalendar
  <2>2. snap \in [Events -> Sources]
    <3>1. scan[s].snap \in [Events -> Sources] /\ source \in [Events -> Sources]
      BY <1>0 DEF TypeOK, ScanStates
    <3> QED BY <3>1 DEF Sources
  <2> HIDE DEF snap
  <2>3. r \in ScanStates /\ r.pc = "policies"
    BY <1>0, <2>2 DEF TypeOK, ScanStates
  <2> HIDE DEF r
  <2>4. /\ failures' = IF degraded THEN failures + 1 ELSE failures
        /\ degraded => failures < MaxFailures
        /\ UNCHANGED <<source, clock, enabled, event, notice, queue>>
    BY <1>4 DEF ReadCalendar
  <2>5. failures' \in 0 .. MaxFailures
    BY <1>0, <2>4, OtherAssumption DEF TypeOK
  <2>6. TypeOK'
    BY <1>0, <2>1, <2>3, <2>4, <2>5 DEF TypeOK
  <2>7. \A t \in Scans : ScanFits(t)'
    BY <2>1, <2>3, OutsideFits DEF Loop
  <2> QED BY <2>6, <2>7 DEF LoopInv
<1>21. ASSUME NEW s \in Scans, ReadPolicies(s) PROVE LoopInv'
  <2> DEFINE found == Detected(scan[s].snap)
             r == [scan[s] EXCEPT !.todo = found, !.on = enabled,
                     !.at = IF Origin[s] = "dashboard" THEN clock ELSE @, !.pc = "select"]
  <2>1. scan' = [scan EXCEPT ![s] = r]
    BY <1>21 DEF ReadPolicies
  <2>2. found \subseteq Events
    BY DEF Detected
  <2> HIDE DEF found
  <2>3. r \in ScanStates /\ r.pc = "select" /\ r.todo = found /\ r.snap = scan[s].snap
    <3>1. enabled \in SUBSET Types /\ clock \in Times /\ scan[s] \in ScanStates
      BY <1>0 DEF TypeOK
    <3>2. r \in ScanStates
      BY <2>2, <3>1 DEF ScanStates
    <3>3. r.pc = "select" /\ r.todo = found /\ r.snap = scan[s].snap
      BY <3>1 DEF ScanStates
    <3> QED BY <3>2, <3>3
  <2> HIDE DEF r
  <2>6. UNCHANGED <<source, clock, enabled, event, notice, queue, failures>>
    BY <1>21 DEF ReadPolicies, env
  <2>4. TypeOK'
    BY <1>0, <2>1, <2>3, <2>6 DEF TypeOK
  <2>5. ASSUME NEW t \in Scans PROVE ScanFits(t)'
    <3>1. CASE t = s
      <4>1. scan'[s] = r
        BY <2>1, <1>0 DEF TypeOK
      <4> QED BY <3>1, <4>1, <2>3 DEF ScanFits, Loop, found
    <3>2. CASE t # s
      <4>1. scan'[t] = scan[t]
        BY <2>1, <3>2, <1>0 DEF TypeOK
      <4> QED BY <1>0, <4>1 DEF ScanFits, Cur
    <3> QED BY <3>1, <3>2
  <2> QED BY <2>4, <2>5 DEF LoopInv
<1>5. ASSUME NEW s \in Scans, NEW e \in Events, SelectEvent(s, e) PROVE LoopInv'
  <2> DEFINE rest == scan[s].todo \ {e}
             row  == event[e]
             r == [scan[s] EXCEPT !.cur = e, !.todo = rest, !.prev = row, !.pc = "upsert"]
  <2>1. scan' = [scan EXCEPT ![s] = r]
    BY <1>5 DEF SelectEvent
  <2>2. /\ r \in ScanStates /\ r.pc = "upsert" /\ r.cur = e
        /\ r.todo \subseteq scan[s].todo /\ r.snap = scan[s].snap
    <3>1. row \in EventRows /\ scan[s] \in ScanStates
      BY <1>0 DEF TypeOK
    <3>2. rest \in SUBSET Events /\ rest \subseteq scan[s].todo
      BY <3>1 DEF ScanStates
    <3> HIDE DEF rest, row
    <3>3. r \in ScanStates
      BY <3>1, <3>2 DEF ScanStates
    <3>4. r.pc = "upsert"
      BY <3>1 DEF ScanStates
    <3>5. r.cur = e
      BY <3>1 DEF ScanStates
    <3>6. r.todo = rest
      BY <3>1 DEF ScanStates
    <3>7. r.snap = scan[s].snap
      BY <3>1 DEF ScanStates
    <3> HIDE DEF r
    <3> QED BY <3>2, <3>3, <3>4, <3>5, <3>6, <3>7
  <2> HIDE DEF r
  <2> HIDE DEF rest, row
  <2>3. TypeOK'
    <3>1. UNCHANGED <<env, event, notice, queue>>
      BY <1>5 DEF SelectEvent
    <3>2. scan' \in [Scans -> ScanStates]
      BY <1>0, <2>1, <2>2 DEF TypeOK
    <3> QED BY <1>0, <3>1, <3>2 DEF TypeOK, env
  <2>4. ASSUME NEW t \in Scans PROVE ScanFits(t)'
    <3>1. CASE t = s
      <4>1. scan'[s] = r
        BY <2>1, <1>0 DEF TypeOK
      <4>2. scan[s].todo \subseteq Detected(scan[s].snap) /\ e \in scan[s].todo
        BY <1>0, <1>5 DEF SelectEvent, At, ScanFits
      <4> QED BY <3>1, <4>1, <4>2, <2>2 DEF ScanFits, Loop, Cur
    <3>2. CASE t # s
      <4>1. scan'[t] = scan[t]
        BY <2>1, <3>2, <1>0 DEF TypeOK
      <4> QED BY <1>0, <4>1 DEF ScanFits, Cur
    <3> QED BY <3>1, <3>2
  <2> QED BY <2>3, <2>4 DEF LoopInv
<1>6. ASSUME NEW s \in Scans, UpsertEvent(s) PROVE LoopInv'
  <2>1. scan[s].pc \in Loop
    BY <1>6 DEF UpsertEvent, At, Loop
  <2>2. \E st \in {"observed", "active"} : Write(s, st)
    BY <1>6 DEF UpsertEvent
  <2>3. Onward(s) \/ \E l \in {"hush", "count"} : Goto(s, l)
    BY <1>6 DEF UpsertEvent, AfterUpsert
  <2>4. scan' \in [Scans -> ScanStates] /\ \A t \in Scans : ScanFits(t)'
    BY <1>0, <2>1, <2>3, OnwardType, GotoType, OnwardFits, GotoFits
  <2>5. /\ event' \in [Events -> EventRows]
        /\ \A e \in Events : event'[e].status # "absent" => event'[e].version # Gone
    BY <2>1, <2>2, WriteType
  <2> QED BY <1>0, <1>6, <2>4, <2>5 DEF LoopInv, TypeOK, UpsertEvent, env
<1>7. ASSUME NEW s \in Scans, Hush(s) \/ Cap(s) PROVE LoopInv'
  <2>1. scan[s].pc \in Loop /\ Onward(s)
    BY <1>7 DEF Hush, Cap, At, Loop
  <2>2. \E st \in {"observed", "active"} : Write(s, st)
    BY <1>7 DEF Hush, Cap
  <2>3. scan' \in [Scans -> ScanStates] /\ \A t \in Scans : ScanFits(t)'
    BY <1>0, <2>1, OnwardType, OnwardFits
  <2>4. /\ event' \in [Events -> EventRows]
        /\ \A e \in Events : event'[e].status # "absent" => event'[e].version # Gone
    BY <2>1, <2>2, WriteType
  <2> QED BY <1>0, <1>7, <2>3, <2>4 DEF LoopInv, TypeOK, Hush, Cap, env
<1>8. ASSUME NEW s \in Scans, Count(s) PROVE LoopInv'
  <2>1. scan[s].pc \in Loop /\ \E l \in {"cap", "lookup"} : Goto(s, l)
    BY <1>8 DEF Count, At, Loop
  <2>2. scan' \in [Scans -> ScanStates] /\ \A t \in Scans : ScanFits(t)'
    BY <1>0, <2>1, GotoType, GotoFits
  <2> QED BY <1>0, <1>8, <2>2 DEF LoopInv, TypeOK, Count, env
<1>9. ASSUME NEW s \in Scans, LookUp(s) PROVE LoopInv'
  <2> DEFINE found == notice[Cur(s)].status # "absent"
             r == [scan[s] EXCEPT !.found = found, !.pc = "notify"]
  <2>1. scan[s].pc \in Loop /\ (Onward(s) \/ scan' = [scan EXCEPT ![s] = r])
    BY <1>9 DEF LookUp, At, Loop
  <2>2. /\ r \in ScanStates /\ r.todo = scan[s].todo /\ r.snap = scan[s].snap
        /\ r.cur = scan[s].cur
    BY <1>0 DEF ScanStates
  <2> HIDE DEF r
  <2>3. CASE Onward(s)
    <3>1. scan' \in [Scans -> ScanStates] /\ \A t \in Scans : ScanFits(t)'
      BY <1>0, <2>1, <2>3, OnwardType, OnwardFits
    <3> QED BY <1>0, <1>9, <3>1 DEF LoopInv, TypeOK, LookUp, env
  <2>4. CASE scan' = [scan EXCEPT ![s] = r]
    <3>1. ASSUME NEW t \in Scans PROVE ScanFits(t)'
      <4>1. CASE t = s
        <5>1. scan'[s] = r
          BY <2>4, <1>0 DEF TypeOK
        <5>2. /\ scan[s].todo \subseteq Detected(scan[s].snap)
              /\ scan[s].cur \in Detected(scan[s].snap)
          BY <1>0, <2>1 DEF ScanFits, Cur
        <5> QED BY <4>1, <5>1, <5>2, <2>2 DEF ScanFits, Cur
      <4>2. CASE t # s
        <5>1. scan'[t] = scan[t]
          BY <2>4, <4>2, <1>0 DEF TypeOK
        <5> QED BY <1>0, <5>1 DEF ScanFits, Cur
      <4> QED BY <4>1, <4>2
    <3> QED BY <1>0, <1>9, <2>2, <2>4, <3>1 DEF LoopInv, TypeOK, LookUp, env
  <2> QED BY <2>1, <2>3, <2>4
<1>10. ASSUME NEW s \in Scans, Notify(s) PROVE LoopInv'
  <2> DEFINE row == [status |-> "unread", version |-> Version(s),
                     last |-> scan[s].at, until |-> 1]
  <2>1. scan[s].pc \in Loop /\ Onward(s) /\ notice' = [notice EXCEPT ![Cur(s)] = row]
    BY <1>10 DEF Notify, At, Loop
  <2>2. scan' \in [Scans -> ScanStates] /\ \A t \in Scans : ScanFits(t)'
    BY <1>0, <2>1, OnwardType, OnwardFits
  <2>3. row \in NoticeRows /\ row.version # Gone
    BY <2>1, AtAnEvent, OneIsATime DEF NoticeRows
  <2> HIDE DEF row
  <2>4. \A e \in Events : notice'[e] = IF e = Cur(s) THEN row ELSE notice[e]
    BY <1>0, <2>1 DEF TypeOK
  <2>5. notice' \in [Events -> NoticeRows]
    BY <1>0, <2>1, <2>3 DEF TypeOK
  <2> QED BY <1>0, <1>10, <2>2, <2>3, <2>4, <2>5 DEF LoopInv, TypeOK, Notify, env
<1>11. ASSUME NEW s \in Scans, Resolve(s) PROVE LoopInv'
  <2>1. scan' \in [Scans -> ScanStates] /\ queue' \in Scans \cup {NoScan}
    BY <1>0, <1>11, IdleType DEF Resolve, Released, TypeOK
  <2>2. \A t \in Scans : ScanFits(t)'
    BY <1>11, OutsideFits DEF Resolve, Idle, Loop
  <2>3. ASSUME NEW e \in Events
        PROVE  event'[e] \in EventRows /\ (event'[e].status # "absent" => event'[e].version # Gone)
    <3>1. /\ event[e] \in EventRows /\ (event[e].status # "absent" => event[e].version # Gone)
          /\ e \in Missing(s) => event[e].status # "absent"
      BY <1>0 DEF TypeOK, Missing
    <3>2. event'[e] = IF e \in Missing(s) THEN [event[e] EXCEPT !.status = "resolved"] ELSE event[e]
      BY <1>11 DEF Resolve
    <3> QED BY <3>1, <3>2 DEF EventRows
  <2>4. event' \in [Events -> EventRows]
    BY <1>11, <2>3 DEF Resolve
  <2> QED BY <1>0, <1>11, <2>1, <2>2, <2>3, <2>4 DEF LoopInv, TypeOK, Resolve, env
<1>12. ASSUME NEW s \in Scans, Refused(s) \/ Fail(s) PROVE LoopInv'
  <2>1. scan' \in [Scans -> ScanStates] /\ queue' \in Scans \cup {NoScan}
    BY <1>0, <1>12, IdleType DEF Refused, Fail, Released, TypeOK
  <2>2. \A t \in Scans : ScanFits(t)'
    BY <1>12, OutsideFits DEF Refused, Fail, Idle, Loop
  <2>3. failures' \in 0 .. MaxFailures
    BY <1>0, <1>12, OtherAssumption DEF Refused, Fail, env, TypeOK
  <2> QED BY <1>0, <1>12, <2>1, <2>2, <2>3 DEF LoopInv, TypeOK, Refused, Fail, env
<1>13. ASSUME NEW e \in Events, NEW v \in Sources, SourceChanges(e, v) PROVE LoopInv'
  <2>1. TypeOK'
    BY <1>0, <1>13 DEF TypeOK, SourceChanges
  <2> QED BY <1>13, <2>1, ScansStand DEF LoopInv, SourceChanges
<1>14. CASE Tick
  <2>1. clock' \in Times
    BY <1>0, <1>14, TimeAssumption DEF Tick, TypeOK, Times
  <2>2. TypeOK'
    BY <1>0, <1>14, <2>1 DEF TypeOK, Tick
  <2> QED BY <1>14, <2>2, ScansStand DEF LoopInv, Tick
<1>15. ASSUME NEW y \in Types, NEW on \in BOOLEAN, SwitchPolicy(y, on) PROVE LoopInv'
  <2>1. TypeOK'
    BY <1>0, <1>15 DEF TypeOK, SwitchPolicy
  <2> QED BY <1>15, <2>1, ScansStand DEF LoopInv, SwitchPolicy
<1>16. CASE ReadInbox
  <2>1. ASSUME NEW e \in Events
        PROVE  /\ notice'[e] \in NoticeRows
               /\ notice'[e].status # "absent" => notice'[e].version # Gone
    <3>1. /\ notice[e] \in NoticeRows /\ (notice[e].status # "absent" => notice[e].version # Gone)
          /\ Woken(e) => notice[e].status # "absent"
      BY <1>0 DEF TypeOK, Woken
    <3>2. notice'[e] = IF Woken(e) THEN [notice[e] EXCEPT !.status = "unread", !.until = 1]
                       ELSE notice[e]
      BY <1>16 DEF ReadInbox
    <3> QED BY <3>1, <3>2, OneIsATime DEF NoticeRows
  <2>2. notice' \in [Events -> NoticeRows]
    BY <1>16, <2>1 DEF ReadInbox
  <2>3. TypeOK'
    BY <1>0, <1>16, <2>1, <2>2 DEF TypeOK, ReadInbox, env
  <2> QED BY <1>16, <2>3, ScansStand DEF LoopInv, ReadInbox
<1>17. ASSUME NEW e \in Events, NEW st \in {"read", "dismissed", "snoozed"}, NEW u \in Times,
              notice[e].status # "absent",
              notice' = [notice EXCEPT ![e].status = st, ![e].until = u],
              UNCHANGED <<env, event, queue, scan>>
       PROVE  LoopInv'
  <2>1. [notice[e] EXCEPT !.status = st, !.until = u] \in NoticeRows
    BY <1>0 DEF TypeOK, NoticeRows
  <2>2. /\ notice' = [notice EXCEPT ![e] = [notice[e] EXCEPT !.status = st, !.until = u]]
        /\ notice[e] \in NoticeRows
    BY <1>0, <1>17 DEF TypeOK
  <2>3. \A d \in Events : notice'[d].status # "absent" => notice'[d].version # Gone
    BY <1>0, <1>17, <2>2 DEF TypeOK, NoticeRows
  <2>4. TypeOK'
    BY <1>0, <1>17, <2>1, <2>2, <2>3 DEF TypeOK, env
  <2> QED BY <1>17, <2>4, ScansStand DEF LoopInv
<1>18. ASSUME NEW e \in Events, NEW r \in {"read", "dismissed"}, SetNotificationStatus(e, r)
       PROVE  LoopInv'
  BY <1>17, <1>18, OneIsATime DEF SetNotificationStatus
<1>19. ASSUME NEW e \in Events, NEW until \in Times, Snooze(e, until) PROVE LoopInv'
  BY <1>17, <1>19 DEF Snooze
<1>20. CASE UNCHANGED vars
  <2>1. TypeOK'
    BY <1>0, <1>20 DEF TypeOK, vars
  <2> QED BY <1>20, <2>1, ScansStand DEF LoopInv, vars
<1> QED BY <1>1, <1>2, <1>3, <1>4, <1>5, <1>6, <1>7, <1>8, <1>9, <1>10, <1>11, <1>12, <1>13,
           <1>14, <1>15, <1>16, <1>18, <1>19, <1>20, <1>21 DEF Next, Step

\* Every row and every local of a scan is of its kind, whatever scans run side
\* by side, fail or are dropped (engine.ts, store.ts).
THEOREM TypeCorrect == Spec => []TypeOK
<1>1. Spec => []LoopInv
  BY InitType, LoopStep, PTL DEF Spec
<1>2. LoopInv => TypeOK
  BY DEF LoopInv
<1> QED BY <1>1, <1>2, PTL

-----------------------------------------------------------------------------
(* Scans that share the queue.                                              *)

LEMMA InitQueued == Init => QueueInv
BY InitType DEF Init, QueueInv, Holds, LookedUp, Idle

\* A step of a scan moves no other scan.
LEMMA MovesAlone ==
    ASSUME TypeOK, NEW s \in Scans, Step(s) \/ Fail(s)
    PROVE  \A t \in Scans \ {s} : scan'[t] = scan[t]
<1> USE DEF TypeOK
<1>1. CASE ReadMail(s)
  BY <1>1 DEF ReadMail
<1>2. CASE Admit(s) \/ Dropped(s) \/ Resolve(s) \/ Refused(s) \/ Fail(s)
  BY <1>2 DEF Admit, Dropped, Resolve, Refused, Fail
<1>3. CASE (\E degraded \in BOOLEAN : ReadCalendar(s, degraded)) \/ ReadPolicies(s)
  BY <1>3 DEF ReadCalendar, ReadPolicies
<1>4. CASE \E e \in Events : SelectEvent(s, e)
  BY <1>4 DEF SelectEvent
<1>5. CASE UpsertEvent(s) \/ Hush(s) \/ Cap(s) \/ Notify(s)
  BY <1>5 DEF UpsertEvent, Hush, Cap, Notify, Goto, Onward
<1>6. CASE Count(s) \/ LookUp(s)
  BY <1>6 DEF Count, LookUp, Goto, Onward
<1> QED BY <1>1, <1>2, <1>3, <1>4, <1>5, <1>6 DEF Step

\* A scan that keeps the queue as it is either waits or is the one that has it.
LEMMA KeepsQueue ==
    ASSUME QueueInv, NEW s \in Scans, UNCHANGED queue,
           \A t \in Scans \ {s} : scan'[t] = scan[t],
           queue = s \/ scan'[s].pc \in {"idle", "queue"}
    PROVE  \A t \in Scans : Holds(t)'
BY DEF QueueInv, Holds

\* A scan that ends gives the queue back, and nobody else's.
LEMMA GivesBack ==
    ASSUME QueueInv, NEW s \in Scans, queue' = Released(s), scan' = [scan EXCEPT ![s] = Idle]
    PROVE  \A t \in Scans : Holds(t)'
<1> TAKE t \in Scans
<1>1. TypeOK /\ Holds(t)
  BY DEF QueueInv, LoopInv
<1>2. CASE t = s
  <2>1. scan'[t].pc = "idle"
    BY <1>1, <1>2 DEF TypeOK, Idle
  <2> QED BY <2>1 DEF Holds
<1>3. CASE t # s
  <2>1. scan'[t] = scan[t]
    BY <1>1, <1>3 DEF TypeOK
  <2> QED BY <1>1, <1>3, <2>1 DEF Holds, Released
<1> QED BY <1>2, <1>3

\* What of a notice a scan relies on between its two statements.
RowsStand == \A e \in Events : /\ notice'[e].version = notice[e].version
                               /\ notice'[e].last = notice[e].last
                               /\ notice'[e].status = "absent" <=> notice[e].status = "absent"

LEMMA StillSo ==
    ASSUME QueueInv, RowsStand, NEW t \in Scans, scan'[t] = scan[t]
    PROVE  LookedUp(t)'
<1>1. LoopInv /\ LookedUp(t)
  BY DEF QueueInv
<1>2. scan[t].pc = "notify" => Cur(t) \in Events
  BY <1>1, AtAnEvent DEF Loop
<1> QED BY <1>1, <1>2 DEF LookedUp, RowsStand, Cur, Version

\* With every scan in the queue, a scan that is past it is the one that has it.
LEMMA InsideHolds ==
    ASSUME QueueInv, NEW s \in Scans, ~At(s, "idle"), ~At(s, "queue")
    PROVE  queue = s
BY DEF QueueInv, Holds, At

LEMMA HoldsStep ==
    ASSUME AllQueued, QueueInv, NEW s \in Scans, Step(s) \/ Fail(s)
    PROVE  \A t \in Scans : Holds(t)'
<1>0. TypeOK /\ scan[s] \in ScanStates
  BY DEF QueueInv, LoopInv, TypeOK
<1>1. \A t \in Scans \ {s} : scan'[t] = scan[t]
  BY <1>0, MovesAlone
<1>2. CASE ReadMail(s)
  <2>1. UNCHANGED queue
    BY <1>2 DEF ReadMail
  <2>2. CASE At(s, "idle")
    <3>1. Origin[s] = "dashboard"
      BY <1>2, <2>2, ScansAssumption DEF ReadMail, AllQueued, At
    <3>2. scan'[s].pc = "queue"
      BY <1>0, <1>2, <3>1 DEF ReadMail, TypeOK, ScanStates
    <3> QED BY <1>1, <2>1, <3>2, KeepsQueue
  <2>3. CASE At(s, "mail")
    <3>1. queue = s
      BY <2>3, InsideHolds DEF At
    <3> QED BY <1>1, <2>1, <3>1, KeepsQueue
  <2> QED BY <1>2, <2>2, <2>3 DEF ReadMail
<1>3. CASE Admit(s)
  BY <1>0, <1>1, <1>3, ScansAssumption DEF Admit, Admits, QueueInv, Holds
<1>4. CASE Dropped(s)
  <2>1. UNCHANGED queue /\ scan'[s].pc = "idle"
    BY <1>0, <1>4 DEF Dropped, TypeOK, Idle
  <2> QED BY <1>1, <2>1, KeepsQueue
<1>5. CASE Resolve(s) \/ Refused(s) \/ Fail(s)
  BY <1>5, GivesBack DEF Resolve, Refused, Fail
<1>6. CASE \/ \E degraded \in BOOLEAN : ReadCalendar(s, degraded)
           \/ ReadPolicies(s)
           \/ \E e \in Events : SelectEvent(s, e)
           \/ UpsertEvent(s) \/ Hush(s) \/ Count(s) \/ Cap(s) \/ LookUp(s) \/ Notify(s)
  <2>1. UNCHANGED queue
    BY <1>6 DEF ReadCalendar, ReadPolicies, SelectEvent, UpsertEvent, Hush, Count, Cap,
                LookUp, Notify
  <2>2. ~At(s, "idle") /\ ~At(s, "queue")
    BY <1>6 DEF ReadCalendar, ReadPolicies, SelectEvent, UpsertEvent, Hush, Count, Cap,
                LookUp, Notify, At
  <2> QED BY <1>1, <2>1, <2>2, InsideHolds, KeepsQueue
<1> QED BY <1>2, <1>3, <1>4, <1>5, <1>6 DEF Step

LEMMA LookedUpStep ==
    ASSUME QueueInv, NEW s \in Scans, Step(s) \/ Fail(s)
    PROVE  \A t \in Scans : LookedUp(t)'
<1>0. TypeOK /\ LoopInv /\ scan[s] \in ScanStates
  BY DEF QueueInv, LoopInv, TypeOK
<1>1. \A t \in Scans \ {s} : scan'[t] = scan[t]
  BY <1>0, MovesAlone
<1>2. CASE Notify(s)
  <2>1. scan'[s].pc = "select"
    BY <1>0, <1>2 DEF Notify, Onward, TypeOK, ScanStates
  <2>2. queue = s
    BY <1>2, InsideHolds DEF Notify, At
  <2>3. \A t \in Scans \ {s} : scan'[t].pc # "notify"
    BY <1>1, <2>2 DEF QueueInv, Holds
  <2> QED BY <2>1, <2>3 DEF LookedUp
<1>3. CASE LookUp(s)
  <2>1. UNCHANGED notice
    BY <1>3 DEF LookUp
  <2>2. LookedUp(s)'
    <3>1. CASE Onward(s)
      <4>1. scan'[s].pc = "select"
        BY <1>0, <3>1 DEF Onward, TypeOK, ScanStates
      <4> QED BY <4>1 DEF LookedUp
    <3>2. CASE ~Onward(s)
      <4> DEFINE row == notice[Cur(s)]
      <4>1. row.status # "absent" => ~Same(s, row) /\ ~Cooling(s, row)
        BY <1>3, <3>2 DEF LookUp
      <4>2. /\ scan'[s].cur = scan[s].cur /\ scan'[s].snap = scan[s].snap
            /\ scan'[s].at = scan[s].at
        BY <1>0, <1>3, <3>2 DEF LookUp, TypeOK, ScanStates
      <4>3. scan[s].at \in Nat /\ row.last \in Nat
        BY <1>0, <1>3, AtAnEvent, OneIsATime DEF LookUp, At, Loop, TypeOK, NoticeRows
      <4>4. row.status # "absent" => row.version # Version(s)
        BY <4>1 DEF Same
      <4>5. row.status # "absent" => scan[s].at >= row.last + Cooldown
        BY <4>1, <4>3, TimeAssumption DEF Cooling
      <4> QED BY <2>1, <4>2, <4>4, <4>5 DEF LookedUp, Cur, Version
    <3> QED BY <3>1, <3>2
  <2>3. RowsStand
    BY <2>1 DEF RowsStand
  <2> QED BY <1>1, <2>2, <2>3, StillSo
<1>4. CASE ~Notify(s) /\ ~LookUp(s)
  <2>1. UNCHANGED notice
    BY <1>4 DEF Step, ReadMail, Admit, Dropped, ReadCalendar, ReadPolicies, SelectEvent, UpsertEvent, Hush,
                Count, Cap, Refused, Resolve, Fail
  <2>2. scan'[s].pc # "notify"
    <3>1. ASSUME NEW r, r.pc # "notify", scan' = [scan EXCEPT ![s] = r]
          PROVE  scan'[s].pc # "notify"
      BY <1>0, <3>1 DEF TypeOK
    <3>2. CASE Dropped(s) \/ Resolve(s) \/ Refused(s) \/ Fail(s)
      BY <3>1, <3>2 DEF Dropped, Resolve, Refused, Fail, Idle
    <3>3. CASE ReadMail(s)
      <4>1. scan'[s].pc = IF Origin[s] = "dashboard" THEN "queue" ELSE "calendar"
        BY <1>0, <3>3 DEF ReadMail, TypeOK, ScanStates
      <4> QED BY <4>1
    <3>4. CASE Admit(s)
      <4>1. scan'[s].pc = IF Origin[s] = "background" THEN "mail" ELSE "calendar"
        BY <1>0, <3>4 DEF Admit, TypeOK, ScanStates
      <4> QED BY <4>1
    <3>5. ASSUME NEW degraded \in BOOLEAN, ReadCalendar(s, degraded)
          PROVE  scan'[s].pc # "notify"
      <4>1. scan'[s].pc = "policies"
        BY <1>0, <3>5 DEF ReadCalendar, TypeOK, ScanStates
      <4> QED BY <4>1
    <3>8. CASE ReadPolicies(s)
      <4>1. scan'[s].pc = "select"
        BY <1>0, <3>8 DEF ReadPolicies, TypeOK, ScanStates
      <4> QED BY <4>1
    <3>6. ASSUME NEW e \in Events, SelectEvent(s, e) PROVE scan'[s].pc # "notify"
      <4>1. scan'[s].pc = "upsert"
        BY <1>0, <3>6 DEF SelectEvent, TypeOK, ScanStates
      <4> QED BY <4>1
    <3>7. CASE UpsertEvent(s) \/ Hush(s) \/ Cap(s) \/ Count(s)
      <4>1. Onward(s) \/ \E l \in {"select", "hush", "count", "cap", "lookup"} : Goto(s, l)
        BY <3>7 DEF UpsertEvent, AfterUpsert, Hush, Cap, Count
      <4>2. Onward(s) => scan'[s].pc = "select"
        BY <1>0 DEF Onward, TypeOK, ScanStates
      <4>3. \A l : Goto(s, l) => scan'[s].pc = l
        BY <1>0 DEF Goto, TypeOK, ScanStates
      <4> QED BY <4>1, <4>2, <4>3
    <3> QED BY <1>4, <3>2, <3>3, <3>4, <3>5, <3>6, <3>7, <3>8 DEF Step
  <2>3. RowsStand
    BY <2>1 DEF RowsStand
  <2> QED BY <1>1, <2>2, <2>3, StillSo DEF LookedUp
<1> QED BY <1>2, <1>3, <1>4

\* What the user, the clock and the mailbox do.
Outside ==
    \/ \E e \in Events, v \in Sources : SourceChanges(e, v)
    \/ Tick \/ ReadInbox
    \/ \E y \in Types, on \in BOOLEAN : SwitchPolicy(y, on)
    \/ \E e \in Events, r \in {"read", "dismissed"} : SetNotificationStatus(e, r)
    \/ \E e \in Events, until \in Times : Snooze(e, until)
    \/ UNCHANGED vars

LEMMA OutsideStands ==
    ASSUME TypeOK, Outside
    PROVE  UNCHANGED <<queue, scan>> /\ RowsStand
<1>1. CASE ReadInbox
  <2>1. \A e \in Events : notice[e] \in NoticeRows
    BY DEF TypeOK
  <2> QED BY <1>1, <2>1 DEF ReadInbox, RowsStand, Woken, NoticeRows
<1>2. ASSUME NEW e \in Events, NEW r \in {"read", "dismissed"}, SetNotificationStatus(e, r)
      PROVE  UNCHANGED <<queue, scan>> /\ RowsStand
  BY <1>2 DEF SetNotificationStatus, RowsStand, TypeOK, NoticeRows
<1>3. ASSUME NEW e \in Events, NEW until \in Times, Snooze(e, until)
      PROVE  UNCHANGED <<queue, scan>> /\ RowsStand
  BY <1>3 DEF Snooze, RowsStand, TypeOK, NoticeRows
<1>4. CASE \/ \E e \in Events, v \in Sources : SourceChanges(e, v)
           \/ Tick \/ \E y \in Types, on \in BOOLEAN : SwitchPolicy(y, on)
           \/ UNCHANGED vars
  BY <1>4 DEF SourceChanges, Tick, SwitchPolicy, RowsStand, vars
<1> QED BY <1>1, <1>2, <1>3, <1>4 DEF Outside

LEMMA Split == [Next]_vars => Outside \/ \E s \in Scans : Step(s) \/ Fail(s)
BY DEF Next, Outside

LEMMA QueueStep == AllQueued /\ QueueInv /\ [Next]_vars => QueueInv'
<1> SUFFICES ASSUME AllQueued, QueueInv, [Next]_vars PROVE QueueInv'
  OBVIOUS
<1>1. LoopInv'
  BY LoopStep DEF QueueInv
<1>2. CASE Outside
  <2>1. UNCHANGED <<queue, scan>> /\ RowsStand
    BY <1>2, OutsideStands DEF QueueInv, LoopInv
  <2> QED BY <1>1, <2>1, StillSo DEF QueueInv, Holds
<1>3. ASSUME NEW s \in Scans, Step(s) \/ Fail(s) PROVE QueueInv'
  BY <1>1, <1>3, HoldsStep, LookedUpStep DEF QueueInv
<1> QED BY <1>2, <1>3, Split

\* Scans that share the queue run one at a time, and what a scan looked up
\* of a notice is still so when it writes it (runner.ts, queuedScans).
THEOREM OneScanAtATime == AllQueued => (Spec => []QueueInv)
<1> SUFFICES ASSUME AllQueued PROVE Spec => []QueueInv
  OBVIOUS
<1>1. QueueInv /\ [Next]_vars => QueueInv'
  BY QueueStep
<1> QED BY <1>1, InitQueued, PTL DEF Spec

\* What a step does to the row of one notice.
LEMMA OneNotice ==
    ASSUME QueueInv, [Next]_vars, NEW e \in Events
    PROVE  \/ /\ notice'[e].version = notice[e].version /\ notice'[e].last = notice[e].last
              /\ notice'[e].status = "unread" => notice[e].status \in {"unread", "snoozed"}
           \/ notice[e].status = "absent"
           \/ /\ notice'[e].version # notice[e].version
              /\ notice'[e].last >= notice[e].last + Cooldown
<1>0. TypeOK /\ LoopInv
  BY DEF QueueInv, LoopInv
<1>1. CASE Outside
  <2>1. RowsStand
    BY <1>0, <1>1, OutsideStands
  <2>2. notice'[e].status = "unread" => notice[e].status \in {"unread", "snoozed"}
    BY <1>0, <1>1 DEF Outside, SourceChanges, Tick, SwitchPolicy, vars, ReadInbox, Woken,
                      SetNotificationStatus, Snooze, TypeOK, NoticeRows
  <2> QED BY <2>1, <2>2 DEF RowsStand
<1>2. ASSUME NEW s \in Scans, Notify(s), notice[e].status # "absent", Cur(s) = e
      PROVE  /\ notice'[e].version # notice[e].version
             /\ notice'[e].last >= notice[e].last + Cooldown
  <2>1. notice'[e].version = Version(s) /\ notice'[e].last = scan[s].at
    BY <1>0, <1>2 DEF Notify, TypeOK
  <2>2. notice[e].version # Version(s) /\ scan[s].at >= notice[e].last + Cooldown
    BY <1>2 DEF QueueInv, LookedUp, Notify, At
  <2> QED BY <2>1, <2>2
<1>3. ASSUME NEW s \in Scans, Step(s) \/ Fail(s), ~(Notify(s) /\ Cur(s) = e)
      PROVE  notice'[e] = notice[e]
  <2>1. CASE Notify(s)
    BY <1>0, <1>3, <2>1 DEF Notify, TypeOK
  <2>2. CASE ~Notify(s)
    BY <1>3, <2>2 DEF Step, ReadMail, Admit, Dropped, ReadCalendar, ReadPolicies, SelectEvent, UpsertEvent,
                      Hush, Count, Cap, LookUp, Refused, Resolve, Fail
  <2> QED BY <2>1, <2>2
<1> QED BY <1>1, <1>2, <1>3, Split

\* A notice the user has dealt with comes back only for another version of
\* its source, whatever else runs between a scan's select and its write.
THEOREM DealtWith == AllQueued => (Spec => DealtWithStaysAway)
<1> SUFFICES ASSUME AllQueued PROVE Spec => DealtWithStaysAway
  OBVIOUS
<1>1. Spec => []QueueInv
  BY OneScanAtATime
<1>2. QueueInv /\ [Next]_vars =>
        [\A e \in Events :
           notice[e].status \in {"read", "dismissed"} /\ notice'[e].status = "unread"
             => notice'[e].version # notice[e].version]_vars
  BY OneNotice
<1> QED BY <1>1, <1>2, PTL DEF Spec, DealtWithStaysAway

\* Two notices of one event are a cooldown apart.
THEOREM Cooldowns == AllQueued => (Spec => CooldownIsKept)
<1> SUFFICES ASSUME AllQueued PROVE Spec => CooldownIsKept
  OBVIOUS
<1>1. Spec => []QueueInv
  BY OneScanAtATime
<1>2. QueueInv /\ [Next]_vars =>
        [\A e \in Events :
           notice[e].status # "absent" /\ notice'[e].last # notice[e].last
             => notice'[e].last >= notice[e].last + Cooldown]_vars
  BY OneNotice
<1> QED BY <1>1, <1>2, PTL DEF Spec, CooldownIsKept

=============================================================================
