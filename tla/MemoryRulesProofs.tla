------------------------- MODULE MemoryRulesProofs -------------------------
(* What holds of the memory for any rules, slots, rows and requests. *)
EXTENDS MemoryRules, TLAPS

(* Where requests may be, as a lemma about one record: a step that rewrites *)
(* the record of q alone leaves the requests well typed.                    *)
LEMMA RequestsOK ==
  ASSUME TypeOK, NEW q \in Requests, NEW r \in Request, req' = [req EXCEPT ![q] = r],
         \/ r = Idle
         \/ r.via = "approve" /\ r.pc \in {"archive", "activate"} /\ r.row \in Rows
         \/ r.via = "say" /\ r.pc \in {"look", "archive", "insert"} /\ r.rule \in Rules
         \/ r.via = "observe" /\ r.pc \in {"look", "insert", "promote"} /\ r.rule \in Patterns
  PROVE  req' \in [Requests -> Request] /\ \A p \in Requests : RequestOK(p)'
BY DEF TypeOK, RequestOK

LEMMA IdleIsRequest == Idle \in Request
BY DEF Idle, Request

LEMMA ReturnedIsRequest ==
  ASSUME TypeOK, NEW q \in Requests, req[q].pc \in {"look", "insert"} \/ req[q].via = "say"
  PROVE  /\ Returned(q) \in Request
         /\ \/ Returned(q) = Idle
            \/ Returned(q).via = "observe" /\ Returned(q).pc = "promote" /\ Returned(q).rule \in Patterns
BY IdleIsRequest DEF TypeOK, Returned, Request, RequestOK, Idle

(* Every statement keeps the types. One step per action; the two lemmas     *)
(* above do the requests, the rest is the tables.                           *)
LEMMA TypeNext == TypeOK /\ [Next]_vars => TypeOK'
<1> SUFFICES ASSUME TypeOK, [Next]_vars PROVE TypeOK'
  OBVIOUS
<1> USE RulesAssumption, BoundsAssumption DEF Status
<1>r. \A q \in Requests : req[q] \in Request /\ RequestOK(q)
  BY DEF TypeOK
<1>1. ASSUME NEW q \in Requests, NEW r \in Rules, Say(q, r) PROVE TypeOK'
  <2>1. /\ Begin("say", r) \in Request
        /\ Begin("say", r).via = "say" /\ Begin("say", r).pc = "look" /\ Begin("say", r).rule = r
    BY DEF Begin, Request
  <2>2. req' \in [Requests -> Request] /\ \A p \in Requests : RequestOK(p)'
    BY <2>1, <1>1, RequestsOK DEF Say
  <2> QED BY <2>2, <1>1 DEF Say, TypeOK
<1>2. ASSUME NEW q \in Requests, NEW r \in Patterns, Observe(q, r) PROVE TypeOK'
  <2>1. /\ Begin("observe", r) \in Request
        /\ Begin("observe", r).via = "observe" /\ Begin("observe", r).pc = "look"
        /\ Begin("observe", r).rule = r
    BY DEF Begin, Request
  <2>2. req' \in [Requests -> Request] /\ \A p \in Requests : RequestOK(p)'
    <3>1. CASE Crossed(r)
      BY <3>1, <2>1, <1>2, RequestsOK DEF Observe
    <3>2. CASE ~Crossed(r)
      BY <3>2, <1>2 DEF Observe, TypeOK, RequestOK
    <3> QED BY <3>1, <3>2
  <2>3. seen' \in [Patterns -> 0 .. MaxSeen]
    BY <1>2 DEF Observe, TypeOK
  <2> QED BY <2>2, <2>3, <1>2 DEF Observe, TypeOK
<1>3. ASSUME NEW q \in Requests, NEW i \in Rows, Insert(q, i) PROVE TypeOK'
  <2>1. req' \in [Requests -> Request] /\ \A p \in Requests : RequestOK(p)'
    BY <1>3, ReturnedIsRequest, RequestsOK DEF Insert
  <2>2. req[q].rule \in Rules /\ req[q].slot \in Slots \cup {None}
    BY <1>r, <1>3 DEF Insert, RequestOK, Request, Idle
  <2>3. status' \in [Rows -> Status]
    BY <1>3 DEF Insert, NewRow, SavedStatus, TypeOK
  <2>4. rule' \in [Rows -> Rules \cup {None}] /\ slot' \in [Rows -> Slots \cup {None}]
    BY <2>2, <1>3 DEF Insert, NewRow, TypeOK
  <2>5. stated' \subseteq Rows /\ held' \subseteq KeyedSlots /\ broken' \subseteq KeyedSlots
    BY <2>2, <1>3 DEF Insert, NewRow, Filled, TypeOK
  <2> QED BY <2>1, <2>3, <2>4, <2>5, <1>3 DEF Insert, TypeOK
<1>4. ASSUME NEW q \in Requests, NEW i \in Rows, Approve(q, i) PROVE TypeOK'
  <2> DEFINE r == [pc |-> IF Keyed(slot[i]) THEN "archive" ELSE "activate",
                   via |-> "approve", rule |-> rule[i], slot |-> slot[i], row |-> i]
  <2>1. r \in Request /\ r.via = "approve" /\ r.pc \in {"archive", "activate"} /\ r.row = i
    BY DEF Request, TypeOK
  <2>2. req' = [req EXCEPT ![q] = r]
    BY <1>4 DEF Approve
  <2> HIDE DEF r
  <2>3. req' \in [Requests -> Request] /\ \A p \in Requests : RequestOK(p)'
    BY <2>1, <2>2, RequestsOK
  <2> QED BY <2>3, <1>4 DEF Approve, TypeOK
<1>5. ASSUME NEW q \in Requests, Look(q) PROVE TypeOK'
  <2> DEFINE r == IF Duplicates(req[q].rule) # {} THEN Returned(q)
                  ELSE [req[q] EXCEPT !.pc = IF Supersedes(q) THEN "archive" ELSE "insert"]
  <2>1. req' = [req EXCEPT ![q] = r]
    BY <1>5 DEF Look, TypeOK
  <2>2. /\ r \in Request
        /\ \/ r = Idle
           \/ r.via = "say" /\ r.pc \in {"archive", "insert"} /\ r.rule \in Rules
           \/ r.via = "observe" /\ r.pc \in {"insert", "promote"} /\ r.rule \in Patterns
    <3>1. CASE Duplicates(req[q].rule) # {}
      BY <3>1, <1>5, ReturnedIsRequest DEF Look
    <3>2. CASE Duplicates(req[q].rule) = {}
      BY <3>2, <1>r, <1>5 DEF Look, Request, RequestOK, Supersedes, Idle
    <3> QED BY <3>1, <3>2
  <2> HIDE DEF r
  <2>3. req' \in [Requests -> Request] /\ \A p \in Requests : RequestOK(p)'
    BY <2>1, <2>2, RequestsOK
  <2> QED BY <2>3, <1>5 DEF Look, TypeOK
<1>6. ASSUME NEW q \in Requests, Archive(q) PROVE TypeOK'
  <2> DEFINE r == [req[q] EXCEPT !.pc = IF req[q].via = "approve" THEN "activate" ELSE "insert"]
  <2>1. req' = [req EXCEPT ![q] = r]
    BY <1>6 DEF Archive, TypeOK
  <2>2. /\ r \in Request
        /\ \/ r.via = "say" /\ r.pc = "insert" /\ r.rule \in Rules
           \/ r.via = "approve" /\ r.pc = "activate" /\ r.row \in Rows
    BY <1>r, <1>6 DEF Archive, Request, RequestOK, Idle
  <2> HIDE DEF r
  <2>3. req' \in [Requests -> Request] /\ \A p \in Requests : RequestOK(p)'
    BY <2>1, <2>2, RequestsOK
  <2>4. status' \in [Rows -> Status]
    BY <1>6 DEF Archive, TypeOK
  <2> QED BY <2>3, <2>4, <1>6 DEF Archive, TypeOK
<1>7. ASSUME NEW q \in Requests, Promote(q) PROVE TypeOK'
  <2>1. req[q].rule \in Patterns
    BY <1>r, <1>7 DEF Promote, RequestOK, Idle
  <2>2. req' \in [Requests -> Request] /\ \A p \in Requests : RequestOK(p)'
    BY <1>7, IdleIsRequest, RequestsOK DEF Promote
  <2> QED BY <2>1, <2>2, <1>7 DEF Promote, TypeOK
<1>8. ASSUME NEW q \in Requests, Activate(q) \/ ActivateRefused(q) \/ ActivateNothing(q) PROVE TypeOK'
  <2>1. req' \in [Requests -> Request] /\ \A p \in Requests : RequestOK(p)'
    BY <1>8, IdleIsRequest, RequestsOK DEF Activate, ActivateRefused, ActivateNothing
  <2>2. req[q].row \in Rows
    BY <1>r, <1>8 DEF Activate, ActivateRefused, ActivateNothing, RequestOK, Idle
  <2>3. held' \subseteq KeyedSlots /\ broken' \subseteq KeyedSlots
    BY <2>2, <1>8 DEF Activate, ActivateRefused, ActivateNothing, BreaksOff, Keyed, TypeOK
  <2>4. status' \in [Rows -> Status]
    BY <1>8 DEF Activate, ActivateRefused, ActivateNothing, TypeOK
  <2> QED BY <2>1, <2>3, <2>4, <1>8 DEF Activate, ActivateRefused, ActivateNothing, TypeOK
<1>9. ASSUME NEW q \in Requests, InsertRefused(q) \/ Fail(q) \/ Kill(q) PROVE TypeOK'
  <2>1. Returned(q) \in Request /\ (req[q].pc \in {"look", "archive", "insert"} =>
          \/ Returned(q) = Idle
          \/ Returned(q).via = "observe" /\ Returned(q).pc = "promote" /\ Returned(q).rule \in Patterns)
    BY <1>r, IdleIsRequest DEF Returned, Request, RequestOK, Idle
  <2>2. req' \in [Requests -> Request] /\ \A p \in Requests : RequestOK(p)'
    <3>1. CASE InsertRefused(q) \/ Kill(q)
      BY <3>1, IdleIsRequest, RequestsOK DEF InsertRefused, Kill
    <3>2. CASE Fail(q)
      <4> DEFINE r == IF req[q].pc \in {"look", "archive", "insert"} THEN Returned(q) ELSE Idle
      <4>1. req' = [req EXCEPT ![q] = r]
        BY <3>2 DEF Fail, TypeOK
      <4>2. /\ r \in Request
            /\ \/ r = Idle
               \/ r.via = "observe" /\ r.pc = "promote" /\ r.rule \in Patterns
        BY <2>1, IdleIsRequest
      <4> HIDE DEF r
      <4> QED BY <4>1, <4>2, RequestsOK
    <3> QED BY <3>1, <3>2, <1>9
  <2>3. held' \subseteq KeyedSlots /\ broken' \subseteq KeyedSlots
    BY <1>9 DEF InsertRefused, Fail, Kill, Ends, BreaksOff, Keyed, TypeOK
  <2> QED BY <2>2, <2>3, <1>9 DEF InsertRefused, Fail, Kill, TypeOK
<1>10. ASSUME NEW i \in Rows, NEW r \in Rules, SayInMemory(r, i) PROVE TypeOK'
  <2>1. status' \in [Rows -> Status]
    BY <1>10 DEF SayInMemory, TypeOK
  <2>2. SlotOf[r] \in Slots
    OBVIOUS
  <2>3. held' \subseteq KeyedSlots /\ broken' \subseteq KeyedSlots
    BY <1>10 DEF SayInMemory, Filled, TypeOK
  <2> QED BY <2>1, <2>2, <2>3, <1>10 DEF SayInMemory, TypeOK, RequestOK
<1>11. ASSUME NEW i \in Rows, NEW s \in Slots, Rescope(i, s) PROVE TypeOK'
  <2>1. held' \subseteq KeyedSlots /\ broken' \subseteq KeyedSlots
    BY <1>11 DEF Rescope, Released, TypeOK
  <2> QED BY <2>1, <1>11 DEF Rescope, TypeOK, RequestOK
<1>12. ASSUME NEW i \in Rows, Dismiss(i) \/ Forget(i) PROVE TypeOK'
  BY <1>12 DEF Dismiss, Forget, Released, TypeOK, RequestOK
<1>13. CASE UNCHANGED vars
  BY <1>13 DEF vars, TypeOK, RequestOK
<1> QED BY <1>1, <1>2, <1>3, <1>4, <1>5, <1>6, <1>7, <1>8, <1>9, <1>10, <1>11, <1>12, <1>13 DEF Next, ObserveFromMessage

LEMMA TypeInit == Init => TypeOK
BY IdleIsRequest, RulesAssumption, BoundsAssumption DEF Init, TypeOK, RequestOK, Status

(* Every reachable state of the memory is well typed. *)
THEOREM TypeCorrect == Spec => []TypeOK
BY TypeInit, TypeNext, PTL DEF Spec

LEMMA SameStore == [Next]_vars => hasDb' = hasDb
BY DEF Next, ObserveFromMessage, vars, Say, Observe, Insert, Approve, Look, Archive, InsertRefused, Promote,
       Activate, ActivateRefused, ActivateNothing, Fail, Kill, SayInMemory, Rescope, Dismiss, Forget

(***************************************************************************)
(* At most one rule in force per slot: whatever makes a row active asks the *)
(* index, and nothing else moves an active row.                             *)
(***************************************************************************)
LEMMA OneNext == TypeOK /\ OneActivePerSlot /\ [Next]_vars => OneActivePerSlot'
<1> SUFFICES ASSUME TypeOK, OneActivePerSlot, [Next]_vars PROVE OneActivePerSlot'
  OBVIOUS
<1> USE DEF OneActivePerSlot
<1>h. hasDb' = hasDb
  BY SameStore
<1>1. ASSUME NEW q \in Requests, NEW i \in Rows, Insert(q, i) PROVE OneActivePerSlot'
  BY <1>1, <1>h DEF Insert, NewRow, SavedStatus, IndexAllows, ActiveIn, TypeOK
<1>2. ASSUME NEW q \in Requests, Archive(q) PROVE OneActivePerSlot'
  BY <1>2, <1>h DEF Archive, TypeOK
<1>3. ASSUME NEW q \in Requests, Activate(q) PROVE OneActivePerSlot'
  BY <1>3, <1>h DEF Activate, IndexAllows, ActiveIn, TypeOK
<1>4. ASSUME NEW i \in Rows, NEW s \in Slots, Rescope(i, s) PROVE OneActivePerSlot'
  BY <1>4, <1>h DEF Rescope, IndexAllows, ActiveIn, TypeOK
<1>5. ASSUME NEW i \in Rows, NEW r \in Rules, SayInMemory(r, i) PROVE OneActivePerSlot'
  BY <1>5, <1>h DEF SayInMemory
<1>6. ASSUME NEW i \in Rows, Dismiss(i) \/ Forget(i) PROVE OneActivePerSlot'
  BY <1>6, <1>h DEF Dismiss, Forget, TypeOK
<1>7. ASSUME NEW q \in Requests,
             \/ \E r \in Rules : Say(q, r)
             \/ \E r \in Patterns : Observe(q, r)
             \/ \E i \in Rows : Approve(q, i)
             \/ Look(q) \/ InsertRefused(q) \/ Promote(q)
             \/ ActivateRefused(q) \/ ActivateNothing(q) \/ Fail(q) \/ Kill(q)
      PROVE  OneActivePerSlot'
  BY <1>7 DEF Say, Observe, Approve, Look, InsertRefused, Promote, ActivateRefused,
              ActivateNothing, Fail, Kill
<1>8. CASE UNCHANGED vars
  BY <1>8 DEF vars
<1> QED BY <1>1, <1>2, <1>3, <1>4, <1>5, <1>6, <1>7, <1>8 DEF Next, ObserveFromMessage

(* However many requests save, approve and move rules at once, at most one  *)
(* is in force under a key and scope.                                       *)
THEOREM OneRuleInForce == Spec => []OneActivePerSlot
<1>1. Init => OneActivePerSlot
  BY DEF Init, OneActivePerSlot
<1> QED BY <1>1, OneNext, TypeCorrect, PTL DEF Spec

(***************************************************************************)
(* Nothing is believed silently. The invariant adds that a request at a     *)
(* statement of approveMemory holds a row she agreed to.                    *)
(***************************************************************************)
SilentInv == NothingSilent /\ \A q \in Requests : req[q].via = "approve" => req[q].row \in agreed

LEMMA SilentNext == TypeOK /\ SilentInv /\ [Next]_vars => SilentInv'
<1> SUFFICES ASSUME TypeOK, SilentInv, [Next]_vars PROVE SilentInv'
  OBVIOUS
<1> USE DEF SilentInv, NothingSilent, InForce, Idle
<1>r. \A q \in Requests : RequestOK(q)
  BY DEF TypeOK
<1>1. ASSUME NEW q \in Requests, NEW i \in Rows, Insert(q, i) PROVE SilentInv'
  BY <1>1 DEF Insert, NewRow, SavedStatus, Returned, TypeOK
<1>2. ASSUME NEW q \in Requests, Archive(q) PROVE SilentInv'
  BY <1>2 DEF Archive, TypeOK
<1>3. ASSUME NEW q \in Requests, Activate(q) PROVE SilentInv'
  BY <1>3, <1>r DEF Activate, RequestOK, TypeOK
<1>4. ASSUME NEW q \in Requests, NEW i \in Rows, Approve(q, i) PROVE SilentInv'
  BY <1>4 DEF Approve, TypeOK
<1>5. ASSUME NEW i \in Rows, NEW r \in Rules, SayInMemory(r, i) PROVE SilentInv'
  BY <1>5 DEF SayInMemory, TypeOK
<1>6. ASSUME NEW i \in Rows, \/ Dismiss(i) \/ Forget(i)
                             \/ \E s \in Slots : Rescope(i, s)
      PROVE  SilentInv'
  BY <1>6 DEF Dismiss, Forget, Rescope, TypeOK
<1>7. ASSUME NEW q \in Requests,
             \/ \E r \in Rules : Say(q, r)
             \/ \E r \in Patterns : Observe(q, r)
             \/ Look(q) \/ InsertRefused(q) \/ Promote(q)
             \/ ActivateRefused(q) \/ ActivateNothing(q) \/ Fail(q) \/ Kill(q)
      PROVE  SilentInv'
  <2>1. status' = status /\ stated' = stated /\ agreed' = agreed
    BY <1>7 DEF Say, Observe, Look, InsertRefused, Promote, ActivateRefused, ActivateNothing, Fail, Kill
  <2>2. Returned(q).via # "approve"
    BY <1>r DEF Returned, TypeOK, Request
  <2>3. \/ req' = req
        \/ \E r : req' = [req EXCEPT ![q] = r] /\ (r.via = "approve" => r.via = req[q].via /\ r.row = req[q].row)
    <3>1. CASE Look(q)
      <4> DEFINE r == IF Duplicates(req[q].rule) # {} THEN Returned(q)
                      ELSE [req[q] EXCEPT !.pc = IF Supersedes(q) THEN "archive" ELSE "insert"]
      <4>1. req' = [req EXCEPT ![q] = r]
        BY <3>1 DEF Look, TypeOK
      <4>2. r.via = "approve" => r.via = req[q].via /\ r.row = req[q].row
        BY <2>2 DEF TypeOK, Request
      <4> HIDE DEF r
      <4> QED BY <4>1, <4>2
    <3>2. CASE Fail(q)
      <4> DEFINE r == IF req[q].pc \in {"look", "archive", "insert"} THEN Returned(q) ELSE Idle
      <4>1. req' = [req EXCEPT ![q] = r]
        BY <3>2 DEF Fail, TypeOK
      <4>2. r.via # "approve"
        BY <2>2
      <4> HIDE DEF r
      <4> QED BY <4>1, <4>2
    <3>3. ASSUME NEW r \in Rules, Say(q, r) PROVE <2>3
      <4>1. Begin("say", r).via # "approve"
        BY DEF Begin
      <4> QED BY <4>1, <3>3 DEF Say
    <3>4. ASSUME NEW r \in Patterns, Observe(q, r) PROVE <2>3
      <4>1. Begin("observe", r).via # "approve"
        BY DEF Begin
      <4> QED BY <4>1, <3>4 DEF Observe
    <3>5. CASE InsertRefused(q) \/ Promote(q) \/ ActivateRefused(q) \/ ActivateNothing(q) \/ Kill(q)
      <4>1. req' = [req EXCEPT ![q] = Idle]
        BY <3>5 DEF InsertRefused, Promote, ActivateRefused, ActivateNothing, Kill
      <4>2. Idle.via # "approve"
        BY DEF Idle
      <4> HIDE DEF Idle
      <4> QED BY <4>1, <4>2
    <3> QED BY <3>1, <3>2, <3>3, <3>4, <3>5, <1>7
  <2> QED BY <2>1, <2>3 DEF TypeOK
<1>8. CASE UNCHANGED vars
  BY <1>8 DEF vars
<1> QED BY <1>1, <1>2, <1>3, <1>4, <1>5, <1>6, <1>7, <1>8 DEF Next, ObserveFromMessage

(* A rule in force was stated by the Director or agreed to by her.          *)
THEOREM NothingIsSilent == Spec => []NothingSilent
<1>1. Init => SilentInv
  BY DEF Init, SilentInv, NothingSilent, InForce, Idle
<1>2. Spec => []SilentInv
  BY <1>1, SilentNext, TypeCorrect, PTL DEF Spec
<1> QED BY <1>2, PTL DEF SilentInv

(* A No is final: no statement turns a dismissed row into anything but a    *)
(* deleted one.                                                             *)
THEOREM NoIsFinal == Spec => DismissedStaysDismissed
<1>1. TypeOK /\ [Next]_vars =>
        [\A i \in Rows : status[i] = "dismissed" => status'[i] \in {"dismissed", "gone"}]_vars
  <2> SUFFICES ASSUME TypeOK, Next, NEW i \in Rows, status[i] = "dismissed"
               PROVE  status'[i] \in {"dismissed", "gone"}
    OBVIOUS
  <2>1. ASSUME NEW q \in Requests, NEW j \in Rows, Insert(q, j) \/ Approve(q, j)
        PROVE  status'[i] \in {"dismissed", "gone"}
    BY <2>1 DEF Insert, NewRow, Approve, TypeOK
  <2>2. ASSUME NEW q \in Requests, Archive(q) \/ Activate(q)
        PROVE  status'[i] \in {"dismissed", "gone"}
    BY <2>2 DEF Archive, ActiveIn, Activate, StillProposed, TypeOK
  <2>3. ASSUME NEW j \in Rows, \/ \E r \in Rules : SayInMemory(r, j)
                               \/ \E s \in Slots : Rescope(j, s)
                               \/ Dismiss(j) \/ Forget(j)
        PROVE  status'[i] \in {"dismissed", "gone"}
    BY <2>3 DEF SayInMemory, ActiveIn, Rescope, Dismiss, Forget, TypeOK
  <2>4. ASSUME NEW q \in Requests,
               \/ \E r \in Rules : Say(q, r)
               \/ \E r \in Patterns : Observe(q, r)
               \/ Look(q) \/ InsertRefused(q) \/ Promote(q)
               \/ ActivateRefused(q) \/ ActivateNothing(q) \/ Fail(q) \/ Kill(q)
        PROVE  status'[i] \in {"dismissed", "gone"}
    BY <2>4 DEF Say, Observe, Look, InsertRefused, Promote, ActivateRefused,
                ActivateNothing, Fail, Kill
  <2> QED BY <2>1, <2>2, <2>3, <2>4 DEF Next, ObserveFromMessage
<1> QED BY <1>1, TypeCorrect, PTL DEF Spec, DismissedStaysDismissed

(***************************************************************************)
(* A slot is emptied by her, or into the gap of a request: which fills it,   *)
(* or breaks off and is remembered in broken. One step per action that      *)
(* moves a row, a request in the gap or one of the histories.               *)
(***************************************************************************)
LEMMA LostNext == TypeOK /\ LostOnlyInTheGap /\ [Next]_vars => LostOnlyInTheGap'
<1> SUFFICES ASSUME TypeOK, LostOnlyInTheGap, [Next]_vars, hasDb,
                    NEW s \in held'
             PROVE  \/ ActiveIn(s)' # {}
                    \/ \E q \in Requests : InGap(q)' /\ req'[q].slot = s
                    \/ s \in broken'
  BY SameStore DEF LostOnlyInTheGap
<1> DEFINE Kept == \/ ActiveIn(s) # {}
                   \/ \E q \in Requests : InGap(q) /\ req[q].slot = s
                   \/ s \in broken
<1>k. s \in held => Kept
  BY DEF LostOnlyInTheGap
<1>r. \A q \in Requests : RequestOK(q) /\ req[q] \in Request
  BY DEF TypeOK
<1>s. s \in KeyedSlots
  BY TypeNext DEF TypeOK
<1> USE DEF InGap, Supersedes, ActiveIn, Keyed
<1>o. ASSUME NEW q \in Requests, NEW r, req' = [req EXCEPT ![q] = r], status' = status, slot' = slot,
             s \in held, broken \subseteq broken',
             InGap(q) /\ req[q].slot = s => ActiveIn(s) # {} \/ s \in broken'
      PROVE  Kept'
  BY <1>o, <1>k DEF TypeOK
<1>1. ASSUME NEW q \in Requests, NEW i \in Rows, Insert(q, i) PROVE Kept'
  <2>1. CASE SavedStatus(req[q].via) = "active"
    <3>1. CASE s = req[q].slot
      BY <3>1, <2>1, <1>1 DEF Insert, NewRow, TypeOK
    <3>2. CASE s # req[q].slot
      <4>1. s \in held /\ (s \in broken => s \in broken')
        BY <3>2, <2>1, <1>1 DEF Insert, NewRow, Filled
      <4> QED BY <4>1, <3>2, <1>1, <1>k DEF Insert, NewRow, TypeOK
    <3> QED BY <3>1, <3>2
  <2>2. CASE SavedStatus(req[q].via) # "active"
    <3>1. s \in held /\ broken' = broken
      BY <2>2, <1>1 DEF Insert, NewRow
    <3>2. ~InGap(q)
      BY <2>2, <1>1 DEF Insert, SavedStatus
    <3> QED BY <3>1, <3>2, <1>1, <1>k DEF Insert, NewRow, TypeOK
  <2> QED BY <2>1, <2>2
<1>2. ASSUME NEW q \in Requests, Archive(q) PROVE Kept'
  <2>1. CASE s = req[q].slot
    <3>1. req[q].via \in {"say", "approve"}
      BY <1>2, <1>r DEF Archive, RequestOK, Idle
    <3>2. req'[q].slot = s /\ req'[q].via = req[q].via
          /\ req'[q].pc = IF req[q].via = "approve" THEN "activate" ELSE "insert"
      BY <2>1, <1>2 DEF Archive, TypeOK, Request
    <3>3. InGap(q)'
      BY <3>1, <3>2, <1>s
    <3> QED BY <3>2, <3>3
  <2>2. CASE s # req[q].slot
    BY <2>2, <1>2, <1>k DEF Archive, TypeOK
  <2> QED BY <2>1, <2>2
<1>3. ASSUME NEW q \in Requests, Activate(q) PROVE Kept'
  <2>1. req[q].row \in Rows
    BY <1>3, <1>r DEF Activate, RequestOK, Idle
  <2>2. CASE s = slot[req[q].row]
    BY <2>1, <2>2, <1>3 DEF Activate, TypeOK
  <2>3. CASE s # slot[req[q].row]
    <3>1. s \in held /\ (s \in BreaksOff(q) => s \in broken')
      BY <2>3, <1>3 DEF Activate
    <3>2. ActiveIn(s) # {} => ActiveIn(s)' # {}
      BY <2>1, <1>3 DEF Activate, TypeOK
    <3>3. CASE req[q].slot = s
      BY <3>1, <3>2, <3>3, <1>s DEF BreaksOff
    <3>4. CASE req[q].slot # s
      BY <3>1, <3>2, <3>4, <1>3, <1>k DEF Activate, BreaksOff, TypeOK
    <3> QED BY <3>3, <3>4
  <2> QED BY <2>2, <2>3
<1>4. ASSUME NEW q \in Requests, ActivateRefused(q) \/ ActivateNothing(q) PROVE Kept'
  <2>1. status' = status /\ slot' = slot /\ req' = [req EXCEPT ![q] = Idle] /\ s \in held
    BY <1>4 DEF ActivateRefused, ActivateNothing
  <2>2. broken' = BreaksOff(q)
    BY <1>4 DEF ActivateRefused, ActivateNothing
  <2> QED BY <2>1, <2>2, <1>o, <1>s DEF BreaksOff
<1>5. ASSUME NEW q \in Requests, Fail(q) \/ Kill(q) PROVE Kept'
  <2>1. status' = status /\ slot' = slot /\ s \in held /\ broken' = Ends(q)
    BY <1>5 DEF Fail, Kill
  <2>2. \E r : req' = [req EXCEPT ![q] = r]
    BY <1>5 DEF Fail, Kill
  <2> QED BY <2>1, <2>2, <1>o, <1>s DEF Ends, BreaksOff
<1>6. ASSUME NEW q \in Requests,
             \/ \E r \in Rules : Say(q, r)
             \/ \E r \in Patterns : Observe(q, r)
             \/ \E i \in Rows : Approve(q, i)
             \/ Look(q) \/ InsertRefused(q) \/ Promote(q)
      PROVE  Kept'
  <2>1. status' = status /\ slot' = slot /\ s \in held /\ broken' = broken
    BY <1>6 DEF Say, Observe, Approve, Look, InsertRefused, Promote
  <2>2. InGap(q) /\ req[q].slot = s => ActiveIn(s) # {}
    <3>0. Idle.pc = "idle"
      BY DEF Idle
    <3>1. InsertRefused(q) \/ req[q].pc \in {"idle", "look", "promote"}
      BY <3>0, <1>6 DEF Say, Observe, Approve, Look, Promote
    <3> QED BY <3>1 DEF InsertRefused
  <2>3. req' = req \/ \E r : req' = [req EXCEPT ![q] = r]
    BY <1>6 DEF Say, Observe, Approve, Look, InsertRefused, Promote
  <2> QED BY <2>1, <2>2, <2>3, <1>o, <1>k
<1>7. ASSUME NEW i \in Rows, Dismiss(i) \/ Forget(i) PROVE Kept'
  <2>1. CASE Dismiss(i)
    BY <2>1, <1>k DEF Dismiss, Released, TypeOK
  <2>2. CASE Forget(i)
    BY <2>2, <1>k DEF Forget, Released, TypeOK
  <2> QED BY <1>7, <2>1, <2>2
<1>8. ASSUME NEW i \in Rows, NEW t \in Slots, Rescope(i, t) PROVE Kept'
  <2>1. CASE status[i] = "active" /\ s = t
    BY <2>1, <1>8 DEF Rescope, TypeOK
  <2>2. CASE status[i] = "active" /\ s # t
    <3>1. s \in held /\ s # slot[i] /\ (s \in broken => s \in broken')
      BY <2>2, <1>8 DEF Rescope, Released
    <3> QED BY <3>1, <1>8, <1>k DEF Rescope, TypeOK
  <2>3. CASE status[i] # "active"
    <3>1. s \in held /\ broken' = broken
      BY <2>3, <1>8 DEF Rescope
    <3> QED BY <3>1, <2>3, <1>8, <1>k DEF Rescope, TypeOK
  <2> QED BY <2>1, <2>2, <2>3
<1>9. ASSUME NEW i \in Rows, NEW r \in Rules, SayInMemory(r, i) PROVE Kept'
  BY <1>9 DEF SayInMemory
<1>10. CASE UNCHANGED vars
  BY <1>10, <1>k DEF vars
<1> QED BY <1>1, <1>2, <1>3, <1>4, <1>5, <1>6, <1>7, <1>8, <1>9, <1>10 DEF Next, ObserveFromMessage

(* A keyed slot given a rule that she has not taken away herself holds one, *)
(* unless a request is between its two updates or broke off there and no    *)
(* rule has come since: nothing else loses a rule.                          *)
THEOREM RulesAreLostOnlyInTheGap == Spec => []LostOnlyInTheGap
<1>1. Init => LostOnlyInTheGap
  BY DEF Init, LostOnlyInTheGap
<1> QED BY <1>1, LostNext, TypeCorrect, PTL DEF Spec
=============================================================================
