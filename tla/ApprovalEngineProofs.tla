------------------------ MODULE ApprovalEngineProofs ------------------------
(***************************************************************************)
(* Theorems about the approval engine, for every set of turns, users and   *)
(* conversations and every number of approvals.                            *)
(***************************************************************************)
EXTENDS ApprovalEngine, TLAPS

\* The small operators a statement is written with.
USE DEF At, Goto, Answer, SetStatus, rows, history, Pending,
        Claimable, PendingIn, Swept, ClaimMatches, MayIterate, LoopEnded,
        Replaced, IndexAllows, MayThrow

-----------------------------------------------------------------------------
(* Type correctness.                                                       *)

LEMMA TypeInit == Init => TypeOK
  BY ApprovalsAssumption, IterationsAssumption
     DEF Init, TypeOK, Status, Kinds, PCs, Replies, Answers, NoApproval

LEMMA TargetInit == Init => TargetInv
  BY DEF Init, TargetInv, Holding

\* A row a turn selects or holds has been inserted.
LEMMA HeldIsId ==
    ASSUME TypeOK, TargetInv, NEW t \in Turns, Holding(t)
    PROVE  target[t] \in Ids /\ target[t] \in 1 .. created
  BY ApprovalsAssumption DEF TargetInv, TypeOK, Ids

LEMMA PendingIsInserted ==
    ASSUME TypeOK, RowInv, NEW a \in Ids, Pending(a)
    PROVE  a \in 1 .. created
<1>1. a \in Nat /\ a >= 1 /\ created \in Nat
  BY ApprovalsAssumption DEF TypeOK, Ids
<1>2. ~(a > created)
  BY DEF RowInv
<1> QED BY <1>1, <1>2

\* Every statement of a turn keeps the table and the turns well typed.
LEMMA TypeStep ==
    ASSUME TypeOK, TargetInv, NEW t \in Turns, Step(t)
    PROVE  TypeOK'
<1> USE DEF TypeOK, Status, Kinds, PCs, Replies, Answers
<1>0. Holding(t) => target[t] \in Ids
  BY HeldIsId
<1>1. CASE Sweep(t) BY <1>1 DEF Sweep
<1>2. CASE \E a \in Ids : SelectFound(t, a)
  <2>1. PICK a \in Ids : SelectFound(t, a)
    BY <1>2
  <2>2. AfterSelect(t) \in PCs
    BY DEF AfterSelect
  <2>3. target' \in [Turns -> Ids \cup {NoApproval}]
    BY <2>1 DEF SelectFound
  <2>4. pc' \in [Turns -> PCs]
    BY <2>1, <2>2 DEF SelectFound
  <2> QED BY <2>1, <2>3, <2>4 DEF SelectFound
<1>3. CASE SelectNone(t)
  <2>1. CASE kind[t] = "other" BY <1>3, <2>1 DEF SelectNone
  <2>2. CASE kind[t] # "other" BY <1>3, <2>2 DEF SelectNone
  <2> QED BY <2>1, <2>2
<1>4. CASE Finish(t)
  <2>1. CASE kind[t] = "reject" BY <1>4, <2>1 DEF Finish
  <2>2. CASE kind[t] # "reject" BY <1>4, <2>2 DEF Finish
  <2> QED BY <2>1, <2>2
<1>5. CASE Claim(t) BY <1>0, <1>5 DEF Claim, Holding
<1>6. CASE ClaimLost(t) BY <1>6 DEF ClaimLost
<1>7. CASE CheckFails(t) BY <1>7 DEF CheckFails
<1>8. CASE \E changed \in BOOLEAN, answer \in Answers :
             Execute(t, changed, answer)
  <2>1. PICK changed \in BOOLEAN, answer \in Answers :
             Execute(t, changed, answer)
    BY <1>8
  <2>2. effects' \in [Ids -> Nat]
    <3>1. target[t] \in Ids /\ effects \in [Ids -> Nat]
      BY <1>0, <2>1 DEF Execute, Holding
    <3>2. effects[target[t]] \in Nat
      BY <3>1
    <3>3. effects[target[t]] + (IF changed THEN 1 ELSE 0) \in Nat
      <4> HIDE DEF TypeOK
      <4> QED BY <3>2
    <3> QED BY <2>1, <3>1, <3>3 DEF Execute
  <2>3. acted' \subseteq Turns
    BY <2>1 DEF Execute
  <2>4. pc' \in [Turns -> PCs] /\ reply' \in [Turns -> Replies]
    BY <2>1 DEF Execute
  <2> QED BY <2>1, <2>2, <2>3, <2>4 DEF Execute
<1>9. CASE \E written \in BOOLEAN : Record(t, written)
  <2>1. PICK written \in BOOLEAN : Record(t, written)
    BY <1>9
  <2>2. status' \in [Ids -> Status]
    <3>1. CASE written
      <4>1. PICK s \in {"executed", "failed"} :
               status' = [a \in Ids |-> IF a \in {target[t]} THEN s ELSE status[a]]
        BY <2>1, <3>1 DEF Record
      <4>2. s \in Status /\ status \in [Ids -> Status]
        OBVIOUS
      <4> HIDE DEF TypeOK, Status
      <4> QED BY <4>1, <4>2
    <3>2. CASE ~written BY <2>1, <3>2 DEF Record
    <3> QED BY <3>1, <3>2
  <2>3. pc' \in [Turns -> PCs]
    BY <2>1 DEF Record
  <2> QED BY <2>1, <2>2, <2>3 DEF Record
<1>10. CASE Direct(t) BY <1>10 DEF Direct
<1>11. CASE ModelCall(t)
  <2>1. iter[t] + 1 \in 0 .. MaxIterations
    <3>1. iter[t] \in 0 .. MaxIterations /\ iter[t] < MaxIterations
      BY <1>11 DEF ModelCall
    <3> HIDE DEF TypeOK
    <3> QED BY <3>1, IterationsAssumption
  <2>2. iter' \in [Turns -> 0 .. MaxIterations]
    BY <1>11, <2>1 DEF ModelCall
  <2>3. pc' \in [Turns -> PCs] /\ reply' \in [Turns -> Replies]
    BY <1>11 DEF ModelCall
  <2> QED BY <1>11, <2>2, <2>3 DEF ModelCall
<1>12. CASE RunOut(t) BY <1>12 DEF RunOut
<1>13. CASE ExpireOld(t) BY <1>13 DEF ExpireOld
<1>14. CASE Insert(t)
  <2>1. created + 1 \in Ids /\ created' \in 0 .. MaxApprovals
    <3>1. /\ created \in 0 .. MaxApprovals
          /\ created < MaxApprovals
          /\ created' = created + 1
      BY <1>14 DEF Insert
    <3> HIDE DEF TypeOK
    <3> QED BY <3>1, ApprovalsAssumption DEF Ids
  <2>2. status' \in [Ids -> Status] /\ convOf' \in [Ids -> Convs \cup {NoConv}]
    BY <1>14, <2>1 DEF Insert
  <2>3. target' \in [Turns -> Ids \cup {NoApproval}]
    BY <1>14, <2>1 DEF Insert
  <2>4. pc' \in [Turns -> PCs] /\ reply' \in [Turns -> Replies]
    BY <1>14 DEF Insert
  <2> QED BY <1>14, <2>1, <2>2, <2>3, <2>4 DEF Insert
<1>15. CASE InsertRefused(t) BY <1>15 DEF InsertRefused
<1>16. CASE Deliver(t)
  <2>1. shown' \subseteq Ids /\ movedOn' \subseteq Ids
    BY <1>0, <1>16 DEF Deliver, Older, Holding
  <2> QED BY <1>16, <2>1 DEF Deliver
<1> QED
  BY <1>1, <1>2, <1>3, <1>4, <1>5, <1>6, <1>7, <1>8, <1>9, <1>10, <1>11,
     <1>12, <1>13, <1>14, <1>15, <1>16 DEF Step

LEMMA TypeNext ==
    ASSUME TypeOK, TargetInv, [Next]_vars
    PROVE  TypeOK'
<1> USE DEF TypeOK
<1>1. ASSUME NEW t \in Turns, Step(t) PROVE TypeOK'
  BY <1>1, TypeStep
<1>2. ASSUME NEW t \in Turns, Fail(t) \/ Kill(t) PROVE TypeOK'
  BY <1>2 DEF Fail, Kill, PCs, Replies, Answers
<1>3. ASSUME NEW t \in Turns, NEW k \in Kinds, NEW c \in Convs, Send(t, k, c)
      PROVE  TypeOK'
  BY <1>3 DEF Send, PCs, Kinds
<1>4. ASSUME NEW a \in Ids, TimePasses(a) PROVE TypeOK'
  BY <1>4 DEF TimePasses
<1>5. CASE UNCHANGED vars
  BY <1>5 DEF vars
<1> QED
  BY <1>1, <1>2, <1>3, <1>4, <1>5 DEF Next

-----------------------------------------------------------------------------
(* A turn that acts on a row holds an inserted one.                        *)

LEMMA TargetNext ==
    ASSUME TypeOK, TargetInv, RowInv, [Next]_vars
    PROVE  TargetInv'
<1>0. /\ pc \in [Turns -> PCs] /\ reply \in [Turns -> Replies]
      /\ target \in [Turns -> Ids \cup {NoApproval}] /\ created \in Nat
  BY ApprovalsAssumption DEF TypeOK
<1> USE <1>0 DEF TargetInv, Holding
<1>1. ASSUME NEW t \in Turns, NEW a \in Ids, SelectFound(t, a) PROVE TargetInv'
  <2>1. a \in 1 .. created
    BY <1>1, PendingIsInserted DEF SelectFound
  <2> QED BY <1>1, <2>1 DEF SelectFound
<1>2. ASSUME NEW t \in Turns, Insert(t) PROVE TargetInv'
  <2>1. created + 1 \in 1 .. created + 1 /\ 1 .. created \subseteq 1 .. created + 1
    OBVIOUS
  <2> QED BY <1>2, <2>1 DEF Insert
<1>3. ASSUME NEW t \in Turns, Step(t),
             ~\E a \in Ids : SelectFound(t, a), ~Insert(t)
      PROVE  TargetInv'
  <2>1. UNCHANGED <<target, created>>
    BY <1>3 DEF Step, Sweep, SelectNone, Finish, Claim, ClaimLost, CheckFails,
         Execute, Record, Direct, ModelCall, RunOut, ExpireOld, InsertRefused,
         Deliver
  <2>2. \A u \in Turns : Holding(u)' => Holding(u)
    BY <1>3 DEF Step, Sweep, SelectNone, Finish, Claim, ClaimLost, CheckFails,
         Execute, Record, Direct, ModelCall, RunOut, ExpireOld, InsertRefused,
         Deliver, Answers
  <2> QED BY <2>1, <2>2
<1>4. ASSUME NEW t \in Turns, Fail(t) \/ Kill(t) PROVE TargetInv'
  BY <1>4 DEF Fail, Kill
<1>5. ASSUME NEW t \in Turns, NEW k \in Kinds, NEW c \in Convs, Send(t, k, c)
      PROVE  TargetInv'
  BY <1>5 DEF Send
<1>6. ASSUME NEW a \in Ids, TimePasses(a) PROVE TargetInv'
  BY <1>6 DEF TimePasses
<1>7. CASE UNCHANGED vars BY <1>7 DEF vars
<1> QED BY <1>1, <1>2, <1>3, <1>4, <1>5, <1>6, <1>7 DEF Next

-----------------------------------------------------------------------------
(* The rows.                                                               *)

LEMMA RowInit == Init => RowInv
  BY ApprovalsAssumption DEF Init, RowInv, Ids

\* The steps that write neither a row nor the history of effects.
LEMMA RowUnchanged ==
    ASSUME RowInv, UNCHANGED <<rows, authorised, effects>>
    PROVE  RowInv'
  BY DEF RowInv

LEMMA RowNext ==
    ASSUME TypeOK, TargetInv, RowInv, TurnInv, [Next]_vars
    PROVE  RowInv'
<1>0. /\ status \in [Ids -> Status] /\ effects \in [Ids -> Nat]
      /\ created \in Nat /\ \A a \in Ids : a \in Nat
  BY ApprovalsAssumption DEF TypeOK, Ids
<1> USE <1>0 DEF RowInv
<1>1. ASSUME NEW t \in Turns, Sweep(t) PROVE RowInv'
  BY <1>1 DEF Sweep
<1>2. ASSUME NEW t \in Turns, Finish(t) PROVE RowInv'
  <2>1. target[t] \in Ids /\ ~(target[t] > created)
    BY <1>2, HeldIsId DEF Finish, Holding
  <2> QED BY <1>2, <2>1 DEF Finish
<1>3. ASSUME NEW t \in Turns, Claim(t) PROVE RowInv'
  <2>1. target[t] \in Ids /\ ~(target[t] > created)
    BY <1>3, HeldIsId DEF Claim, Holding
  <2> QED BY <1>3, <2>1 DEF Claim
<1>4. ASSUME NEW t \in Turns, NEW changed \in BOOLEAN, NEW answer \in Answers,
             Execute(t, changed, answer)
      PROVE  RowInv'
  <2>1. target[t] \in Ids /\ target[t] \in authorised /\ effects[target[t]] = 0
    BY <1>4, HeldIsId DEF Execute, Holding, TurnInv
  <2>2. status[target[t]] # "executed"
    BY <2>1
  <2>3. effects'[target[t]] \in {0, 1}
    BY <1>4, <2>1 DEF Execute
  <2> QED BY <1>4, <2>1, <2>2, <2>3 DEF Execute
<1>5. ASSUME NEW t \in Turns, NEW written \in BOOLEAN, Record(t, written)
      PROVE  RowInv'
  <2>1. target[t] \in Ids /\ ~(target[t] > created)
    BY <1>5, HeldIsId DEF Record, Holding
  <2>2. reply[t] = "executed" => effects[target[t]] = 1
    BY <1>5 DEF Record, TurnInv
  <2> QED BY <1>5, <2>1, <2>2 DEF Record
<1>6. ASSUME NEW t \in Turns, ExpireOld(t) PROVE RowInv'
  BY <1>6 DEF ExpireOld
<1>7. ASSUME NEW t \in Turns, Insert(t) PROVE RowInv'
  <2>1. created + 1 \in Ids /\ status[created + 1] = "absent"
    BY <1>7, ApprovalsAssumption DEF Insert, Ids
  <2>2. created + 1 \notin authorised
    BY <2>1
  <2> QED BY <1>7, <2>1, <2>2 DEF Insert
<1>8. ASSUME NEW t \in Turns,
             \/ \E a \in Ids : SelectFound(t, a)
             \/ SelectNone(t) \/ ClaimLost(t) \/ CheckFails(t) \/ Direct(t)
             \/ ModelCall(t) \/ RunOut(t) \/ InsertRefused(t) \/ Deliver(t)
             \/ Fail(t) \/ Kill(t)
             \/ \E k \in Kinds, c \in Convs : Send(t, k, c)
      PROVE  RowInv'
  BY <1>8, RowUnchanged DEF SelectFound, SelectNone, ClaimLost, CheckFails,
       Direct, ModelCall, RunOut, InsertRefused, Deliver, Fail, Kill, Send
<1>9. ASSUME NEW a \in Ids, TimePasses(a) PROVE RowInv'
  BY <1>9 DEF TimePasses
<1>10. CASE UNCHANGED vars BY <1>10, RowUnchanged DEF vars
<1> QED
  BY <1>1, <1>2, <1>3, <1>4, <1>5, <1>6, <1>7, <1>8, <1>9, <1>10
     DEF Next, Step

-----------------------------------------------------------------------------
(* Claims are exclusive: a claim takes a row nobody has claimed.            *)

LEMMA ClaimsInit == Init => ClaimsDistinct
  BY DEF Init, ClaimsDistinct

LEMMA ClaimsNext ==
    ASSUME TypeOK, TargetInv, RowInv, TurnInv, ClaimsDistinct, [Next]_vars
    PROVE  ClaimsDistinct'
<1>0. pc \in [Turns -> PCs] /\ target \in [Turns -> Ids \cup {NoApproval}]
  BY DEF TypeOK
<1> USE <1>0 DEF ClaimsDistinct
<1>1. ASSUME NEW t \in Turns, Claim(t) PROVE ClaimsDistinct'
  <2>1. target[t] \in Ids
    BY <1>1, HeldIsId DEF Claim, Holding
  <2>2. target[t] \notin authorised
    BY <1>1, <2>1 DEF Claim, RowInv
  <2>3. \A u \in Turns : pc[u] = "execute" => target[u] # target[t]
    BY <2>2 DEF TurnInv
  <2> QED BY <1>1, <2>3 DEF Claim
<1>2. ASSUME NEW t \in Turns, Step(t), ~Claim(t) PROVE ClaimsDistinct'
  <2>1. \A u \in Turns : pc'[u] = "execute" =>
                            pc[u] = "execute" /\ target'[u] = target[u]
    BY <1>2 DEF Step, Sweep, SelectFound, AfterSelect, SelectNone, Finish,
         ClaimLost, CheckFails, Execute, Record, Direct, ModelCall, RunOut,
         ExpireOld, Insert, InsertRefused, Deliver
  <2> QED BY <2>1
<1>3. ASSUME NEW t \in Turns,
             Fail(t) \/ Kill(t) \/ \E k \in Kinds, c \in Convs : Send(t, k, c)
      PROVE  ClaimsDistinct'
  BY <1>3 DEF Fail, Kill, Send
<1>4. ASSUME NEW a \in Ids, TimePasses(a) PROVE ClaimsDistinct'
  BY <1>4 DEF TimePasses
<1>5. CASE UNCHANGED vars BY <1>5 DEF vars
<1> QED BY <1>1, <1>2, <1>3, <1>4, <1>5 DEF Next

-----------------------------------------------------------------------------
(* The turns.                                                              *)

LEMMA TurnInit == Init => TurnInv
  BY DEF Init, TurnInv, Before, Answers

LEMMA TurnNext ==
    ASSUME TypeOK, TargetInv, RowInv, TurnInv, ClaimsDistinct, [Next]_vars
    PROVE  TurnInv'
<1>0. /\ pc \in [Turns -> PCs] /\ reply \in [Turns -> Replies]
      /\ kind \in [Turns -> Kinds] /\ tconv \in [Turns -> Convs \cup {NoConv}]
      /\ target \in [Turns -> Ids \cup {NoApproval}]
      /\ effects \in [Ids -> Nat]
  BY DEF TypeOK
<1> USE <1>0 DEF TurnInv, Before, Answers
<1>1. ASSUME NEW t \in Turns, NEW a \in Ids, SelectFound(t, a) PROVE TurnInv'
  <2>1. CASE kind[t] = "approve"
    BY <1>1, <2>1 DEF SelectFound, AfterSelect
  <2>2. CASE kind[t] # "approve"
    BY <1>1, <2>2 DEF SelectFound, AfterSelect
  <2> QED BY <2>1, <2>2
<1>2. ASSUME NEW t \in Turns, Claim(t) PROVE TurnInv'
  <2>1. target[t] \in Ids
    BY <1>2, HeldIsId DEF Claim, Holding
  <2>2. effects[target[t]] = 0
    BY <1>2, <2>1 DEF Claim, RowInv
  <2> QED BY <1>2, <2>1, <2>2 DEF Claim
<1>3. ASSUME NEW t \in Turns, NEW changed \in BOOLEAN, NEW answer \in Answers,
             Execute(t, changed, answer)
      PROVE  TurnInv'
  <2>1. target[t] \in Ids /\ effects[target[t]] = 0
    BY <1>3, HeldIsId DEF Execute, Holding
  <2>2. \A u \in Turns \ {t} :
           /\ pc[u] = "execute" => target[u] # target[t]
           /\ pc[u] = "record" /\ reply[u] = "executed" => target[u] # target[t]
    BY <1>3, <2>1 DEF Execute, ClaimsDistinct
  <2>3. \A b : b # target[t] => effects'[b] = effects[b]
    BY <1>3, <2>1 DEF Execute
  <2>4. changed => effects'[target[t]] = 1
    BY <1>3, <2>1 DEF Execute
  <2>5. /\ acted' \ {t} = acted \ {t}
        /\ t \in acted' <=> changed
    BY <1>3 DEF Execute
  <2>6. /\ pc'[t] = "record" /\ reply'[t] = answer /\ (answer = "executed" => changed)
        /\ \A u \in Turns \ {t} : pc'[u] = pc[u] /\ reply'[u] = reply[u]
        /\ UNCHANGED <<target, tconv, kind, authorised>>
    BY <1>3 DEF Execute
  <2>7. ASSUME NEW u \in Turns, u # t PROVE TurnInv!(u)'
    BY <2>2, <2>3, <2>5, <2>6, <2>7
  <2>8. TurnInv!(t)'
    BY <1>3, <2>4, <2>5, <2>6 DEF Execute
  <2> QED BY <2>7, <2>8
<1>4. ASSUME NEW t \in Turns,
             \/ Sweep(t) \/ SelectNone(t) \/ Finish(t) \/ ClaimLost(t)
             \/ CheckFails(t) \/ \E written \in BOOLEAN : Record(t, written)
             \/ Direct(t) \/ ModelCall(t) \/ RunOut(t)
             \/ ExpireOld(t) \/ Insert(t) \/ InsertRefused(t) \/ Deliver(t)
      PROVE  TurnInv'
  <2>1. UNCHANGED <<kind, tconv, effects, authorised, acted>>
    BY <1>4 DEF Sweep, SelectNone, Finish, ClaimLost, CheckFails, Record,
         Direct, ModelCall, RunOut, ExpireOld, Insert, InsertRefused, Deliver
  <2>2. \A u \in Turns \ {t} :
           pc'[u] = pc[u] /\ reply'[u] = reply[u] /\ target'[u] = target[u]
    BY <1>4 DEF Sweep, SelectNone, Finish, ClaimLost, CheckFails, Record,
         Direct, ModelCall, RunOut, ExpireOld, Insert, InsertRefused, Deliver
  <2>3. /\ pc[t] # "idle"
        /\ pc'[t] \notin {"claim", "execute"}
        /\ pc'[t] = "record" => /\ pc[t] = "execute" /\ target'[t] = target[t]
                                /\ reply'[t] # "executed"
        /\ pc'[t] \in Before => pc[t] \in Before /\ reply'[t] = reply[t]
        /\ \/ reply'[t] = reply[t]
           \/ pc[t] \in Before /\ reply'[t] \notin Answers
    BY <1>4 DEF Sweep, SelectNone, Finish, ClaimLost, CheckFails, Record,
         Direct, ModelCall, RunOut, ExpireOld, Insert, InsertRefused, Deliver
  <2> QED BY <2>1, <2>2, <2>3
<1>5. ASSUME NEW t \in Turns, Fail(t) \/ Kill(t) PROVE TurnInv'
  BY <1>5 DEF Fail, Kill
<1>6. ASSUME NEW t \in Turns, NEW k \in Kinds, NEW c \in Convs, Send(t, k, c)
      PROVE  TurnInv'
  BY <1>6 DEF Send
<1>7. ASSUME NEW a \in Ids, TimePasses(a) PROVE TurnInv'
  BY <1>7 DEF TimePasses
<1>8. CASE UNCHANGED vars BY <1>8 DEF vars
<1> QED BY <1>1, <1>2, <1>3, <1>4, <1>5, <1>6, <1>7, <1>8 DEF Next, Step

-----------------------------------------------------------------------------
(* Only an insert opens a proposal; every other step closes some or none.   *)

LEMMA OnlyInsertOpens ==
    ASSUME TypeOK, [Next]_vars, ~\E t \in Turns : Insert(t)
    PROVE  /\ UNCHANGED <<convOf, created>>
           /\ stale \subseteq stale'
           /\ \A a \in Ids : Pending(a)' => Pending(a)
<1>0. status \in [Ids -> Status]
  BY DEF TypeOK
<1> USE <1>0
<1>1. ASSUME NEW t \in Turns, Step(t), ~Insert(t)
      PROVE  /\ UNCHANGED <<convOf, created>>
             /\ stale \subseteq stale'
             /\ \A a \in Ids : Pending(a)' => Pending(a)
  BY <1>1 DEF Step, Sweep, SelectFound, SelectNone, Finish, Claim, ClaimLost,
       CheckFails, Execute, Record, Direct, ModelCall, RunOut, ExpireOld,
       InsertRefused, Deliver
<1>2. ASSUME NEW t \in Turns,
             Fail(t) \/ Kill(t) \/ \E k \in Kinds, c \in Convs : Send(t, k, c)
      PROVE  UNCHANGED rows
  BY <1>2 DEF Fail, Kill, Send
<1>3. ASSUME NEW a \in Ids, TimePasses(a)
      PROVE  UNCHANGED <<status, convOf, created>> /\ stale \subseteq stale'
  BY <1>3 DEF TimePasses
<1>4. CASE UNCHANGED vars BY <1>4 DEF vars
<1> QED BY <1>1, <1>2, <1>3, <1>4 DEF Next

LEMMA NewestInit == Init => PendingIsNewest
  BY DEF Init, PendingIsNewest

LEMMA NewestNext ==
    ASSUME TypeOK, PendingIsNewest, [Next]_vars
    PROVE  PendingIsNewest'
<1>1. CASE ~\E t \in Turns : Insert(t)
  BY <1>1, OnlyInsertOpens DEF PendingIsNewest
<1>2. ASSUME NEW t \in Turns, Insert(t) PROVE PendingIsNewest'
  <2>1. /\ status \in [Ids -> Status] /\ convOf \in [Ids -> Convs \cup {NoConv}]
        /\ created \in Nat /\ \A a \in Ids : a \in Nat
    BY ApprovalsAssumption DEF TypeOK, Ids
  <2>2. created' = created + 1
    BY <1>2 DEF Insert
  <2>3. SUFFICES ASSUME NEW a \in Ids, NEW b \in Ids, Pending(a)', a < b,
                        b <= created + 1
                 PROVE  convOf'[b] # convOf'[a]
    BY <2>2 DEF PendingIsNewest
  <2>4. a # created + 1 /\ Pending(a) /\ convOf'[a] = convOf[a]
    BY <1>2, <2>1, <2>3 DEF Insert
  <2>5. CASE b = created + 1
    BY <1>2, <2>1, <2>4, <2>5 DEF Insert
  <2>6. CASE b # created + 1
    BY <1>2, <2>1, <2>3, <2>4, <2>6 DEF Insert, PendingIsNewest
  <2> QED BY <2>5, <2>6
<1> QED BY <1>1, <1>2

-----------------------------------------------------------------------------
(* A proposal a later message has closed stays closed.                     *)

\* A conversation has at most one pending proposal.
LEMMA OnePending ==
    ASSUME TypeOK, RowInv, PendingIsNewest,
           NEW a \in Ids, NEW b \in Ids, Pending(a), Pending(b),
           convOf[a] = convOf[b]
    PROVE  a = b
<1>1. a \in 1 .. created /\ b \in 1 .. created /\ created \in Nat
  BY PendingIsInserted, ApprovalsAssumption DEF TypeOK
<1>2. ~(a < b) /\ ~(b < a)
  BY <1>1 DEF PendingIsNewest
<1> QED BY <1>1, <1>2

LEMMA MovedInit == Init => MovedInv
  BY DEF Init, MovedInv, Closed

LEMMA MovedNext ==
    ASSUME TypeOK, TargetInv, RowInv, TurnInv, PendingIsNewest, MovedInv,
           [Next]_vars
    PROVE  MovedInv'
<1>0. /\ status \in [Ids -> Status] /\ convOf \in [Ids -> Convs \cup {NoConv}]
      /\ created \in Nat /\ \A a \in Ids : a \in Nat
      /\ pc \in [Turns -> PCs] /\ reply \in [Turns -> Replies]
      /\ kind \in [Turns -> Kinds] /\ tconv \in [Turns -> Convs \cup {NoConv}]
      /\ target \in [Turns -> Ids \cup {NoApproval}]
      /\ sentAt \in [Turns -> 0 .. MaxApprovals]
      /\ movedOn \subseteq Ids
  BY ApprovalsAssumption DEF TypeOK, Ids
<1> USE <1>0 DEF MovedInv, Closed, Older
<1>1. ASSUME NEW t \in Turns, Insert(t) PROVE MovedInv'
  <2>1. \A a \in Ids : a <= created =>
           /\ a # created + 1
           /\ Claimable(a)' => Claimable(a)
           /\ convOf'[a] = convOf[a]
    BY <1>1 DEF Insert
  <2>2. \A u \in Turns : sentAt[u] \in Nat
    BY ApprovalsAssumption
  <2>3. /\ created' = created + 1
        /\ UNCHANGED <<movedOn, sentAt, kind, tconv>>
        /\ \A u \in Turns \ {t} :
              pc'[u] = pc[u] /\ reply'[u] = reply[u] /\ target'[u] = target[u]
        /\ pc[t] = "insert" /\ pc'[t] = "deliver"
    BY <1>1 DEF Insert
  <2>4. \A u \in Turns : Older(u)' = Older(u) /\ \A a \in Older(u) : a <= created
    BY <2>1, <2>2, <2>3, <1>1 DEF Insert
  <2> QED BY <2>1, <2>2, <2>3, <2>4
<1>2. ASSUME NEW t \in Turns, Step(t), ~Insert(t) PROVE MovedInv'
  <2>1. /\ UNCHANGED <<convOf, created, sentAt, kind, tconv>>
        /\ \A a \in Ids : Claimable(a)' => Claimable(a)
        /\ \A u \in Turns : Older(u)' = Older(u)
    <3>1. created' = created
      BY <1>2 DEF Step, Sweep, SelectFound, SelectNone, Finish, Claim,
           ClaimLost, CheckFails, Execute, Record, Direct, ModelCall, RunOut,
           ExpireOld, InsertRefused, Deliver
    <3>2. ~\E u \in Turns : Insert(u)
      BY <3>1 DEF Insert
    <3> QED BY <1>2, <3>2, OnlyInsertOpens
         DEF Step, Sweep, SelectFound, SelectNone, Finish, Claim, ClaimLost,
         CheckFails, Execute, Record, Direct, ModelCall, RunOut, ExpireOld,
         InsertRefused, Deliver, Next
  <2>2. \A u \in Turns \ {t} :
           pc'[u] = pc[u] /\ reply'[u] = reply[u] /\ target'[u] = target[u]
    BY <1>2 DEF Step, Sweep, SelectFound, SelectNone, Finish, Claim, ClaimLost,
         CheckFails, Execute, Record, Direct, ModelCall, RunOut, ExpireOld,
         InsertRefused, Deliver
  <2>3. \A a \in movedOn' :
           \/ a \in movedOn
           \/ a \in Older(t) /\ kind[t] # "approve" /\ Closed(t)
    <3> HIDE <1>0 DEF MovedInv, Older
    <3>1. CASE Deliver(t) BY <3>1 DEF Deliver
    <3>2. CASE ~Deliver(t)
      <4>1. UNCHANGED movedOn
        BY <1>2, <3>2 DEF Step, Sweep, SelectFound, SelectNone, Finish, Claim,
             ClaimLost, CheckFails, Execute, Record, Direct, ModelCall, RunOut,
             ExpireOld, InsertRefused
      <4> QED BY <4>1
    <3> QED BY <3>1, <3>2
  <2>4. ASSUME kind[t] # "approve"
        PROVE  /\ Closed(t)' => \A a \in Older(t) : ~Claimable(a)'
               /\ pc'[t] = "finish"
                    => \A a \in Older(t) \ {target'[t]} : ~Claimable(a)'
    <3>1. ASSUME NEW a \in Ids, SelectFound(t, a)
          PROVE  \A b \in Older(t) \ {a} : ~Claimable(b)'
      BY <2>1, <3>1, OnePending DEF SelectFound
    <3>2. CASE \E a \in Ids : SelectFound(t, a)
      BY <2>4, <3>1, <3>2 DEF SelectFound, AfterSelect
    <3>3. CASE SelectNone(t)
      BY <2>1, <3>3 DEF SelectNone
    <3>4. CASE Finish(t)
      BY <2>1, <2>4, <3>4 DEF Finish
    <3>5. CASE Sweep(t) BY <3>5 DEF Sweep
    <3>6. CASE Claim(t) \/ ClaimLost(t) \/ CheckFails(t)
               \/ (\E changed \in BOOLEAN, answer \in Answers :
                     Execute(t, changed, answer))
               \/ \E written \in BOOLEAN : Record(t, written)
      BY <2>4, <3>6 DEF Claim, ClaimLost, CheckFails, Execute, Record, TurnInv
    <3>7. CASE Direct(t) \/ ModelCall(t) \/ RunOut(t) \/ ExpireOld(t)
               \/ InsertRefused(t)
      <4>1. Closed(t) /\ pc'[t] # "finish"
        BY <3>7 DEF Direct, ModelCall, RunOut, ExpireOld, InsertRefused
      <4> QED BY <2>1, <2>4, <4>1
    <3>8. CASE Deliver(t) BY <3>8 DEF Deliver
    <3> QED BY <1>2, <3>2, <3>3, <3>4, <3>5, <3>6, <3>7, <3>8 DEF Step
  <2>5. \A a \in movedOn' : a <= created /\ ~Claimable(a)'
    <3>1. \A a \in Older(t) : a <= created
      BY ApprovalsAssumption
    <3> QED BY <2>1, <2>3, <3>1
  <2>6. \A u \in Turns :
           /\ sentAt'[u] <= created
           /\ u # t => /\ Closed(u)' <=> Closed(u)
                       /\ UNCHANGED <<pc[u], kind[u], target[u]>>
    BY <2>1, <2>2
  <2> QED BY <2>1, <2>4, <2>5, <2>6
<1>3. ASSUME NEW t \in Turns, Fail(t) \/ Kill(t) PROVE MovedInv'
  BY <1>3 DEF Fail, Kill
<1>4. ASSUME NEW t \in Turns, NEW k \in Kinds, NEW c \in Convs, Send(t, k, c)
      PROVE  MovedInv'
  BY <1>4 DEF Send
<1>5. ASSUME NEW a \in Ids, TimePasses(a) PROVE MovedInv'
  BY <1>5 DEF TimePasses
<1>6. CASE UNCHANGED vars BY <1>6 DEF vars
<1> QED BY <1>1, <1>2, <1>3, <1>4, <1>5, <1>6 DEF Next

-----------------------------------------------------------------------------
(* The theorems.                                                           *)

\* IInv is inductive, for any number of turns, conversations and approvals.
THEOREM Inductive == Spec => []IInv
<1>1. Init => IInv
  BY TypeInit, TargetInit, RowInit, TurnInit, ClaimsInit, NewestInit, MovedInit
     DEF IInv
<1>2. IInv /\ [Next]_vars => IInv'
  <2> SUFFICES ASSUME IInv, [Next]_vars PROVE IInv'
    OBVIOUS
  <2> USE DEF IInv
  <2>1. TypeOK' BY TypeNext
  <2>2. TargetInv' BY TargetNext
  <2>3. RowInv' BY RowNext
  <2>4. TurnInv' BY TurnNext
  <2>5. ClaimsDistinct' BY ClaimsNext
  <2>6. PendingIsNewest' BY NewestNext
  <2>7. MovedInv' BY MovedNext
  <2> QED BY <2>1, <2>2, <2>3, <2>4, <2>5, <2>6, <2>7
<1> QED BY <1>1, <1>2, PTL DEF Spec

\* Every variable keeps its type in every behaviour of the engine.
THEOREM TypeCorrect == Spec => []TypeOK
<1>1. IInv => TypeOK BY DEF IInv
<1> QED BY <1>1, Inductive, PTL

\* However many turns race for it, whatever fails and whoever is killed, an
\* approved action changes Microsoft 365 at most once (claimApproval's
\* guarded update, the unretried call of executeApprovedTool).
THEOREM ExecutesAtMostOnce == Spec => []AtMostOnce
<1>1. IInv => AtMostOnce BY DEF IInv, RowInv, AtMostOnce
<1> QED BY <1>1, Inductive, PTL

\* A pending proposal is the newest of its conversation (createApproval and
\* the unique index), so a Yes can only mean the last proposal.
THEOREM OneProposalIsPending == Spec => []PendingIsNewest
<1>1. IInv => PendingIsNewest BY DEF IInv
<1> QED BY <1>1, Inductive, PTL

\* The audit column tells the truth about the effect (recordApprovalStatus).
THEOREM AuditIsTrue == Spec => []AuditTruth
<1>1. IInv => AuditTruth BY DEF IInv, RowInv, AuditTruth
<1> QED BY <1>1, Inductive, PTL

\* A reply that says the action ran, or that nothing was changed, is true of
\* the turn that sends it (runAgent, the chat route's catch).
THEOREM RepliesAreHonest == Spec => []HonestReply
<1>1. IInv => HonestReply
  BY DEF IInv, TurnInv, HonestReply, Answers
<1> QED BY <1>1, Inductive, PTL

\* A proposal that existed when a later, answered message was sent is never
\* claimed afterwards (the supersession in runAgent).
THEOREM SupersededIsFinal == Spec => MovedOnNeverAuthorised
<1> DEFINE A == \A a \in movedOn : a \in authorised' => a \in authorised
<1>1. IInv /\ [Next]_vars => [A]_vars
  <2> SUFFICES ASSUME IInv, Next PROVE A
    BY DEF vars
  <2>1. SUFFICES ASSUME NEW a \in movedOn, a \in authorised', a \notin authorised
                 PROVE  FALSE
    OBVIOUS
  <2>2. \E t \in Turns : Claim(t) /\ a = target[t]
    <3>1. ASSUME NEW t \in Turns, Step(t), ~Claim(t) PROVE UNCHANGED authorised
      BY <3>1 DEF Step, Sweep, SelectFound, SelectNone, Finish, ClaimLost,
           CheckFails, Execute, Record, Direct, ModelCall, RunOut, ExpireOld,
           Insert, InsertRefused, Deliver
    <3>2. ASSUME NEW t \in Turns, Claim(t)
          PROVE  authorised' = authorised \cup {target[t]}
      BY <3>2 DEF Claim
    <3>3. ASSUME NEW t \in Turns,
                 Fail(t) \/ Kill(t) \/ \E k \in Kinds, c \in Convs : Send(t, k, c)
          PROVE  UNCHANGED authorised
      BY <3>3 DEF Fail, Kill, Send
    <3>4. ASSUME NEW b \in Ids, TimePasses(b) PROVE UNCHANGED authorised
      BY <3>4 DEF TimePasses
    <3> QED BY <2>1, <3>1, <3>2, <3>3, <3>4 DEF Next
  <2>3. ~Claimable(a)
    BY <2>1 DEF IInv, MovedInv
  <2> QED BY <2>2, <2>3 DEF Claim
<1> QED BY <1>1, Inductive, PTL DEF Spec, MovedOnNeverAuthorised

-----------------------------------------------------------------------------
(* The engine implements the once-only action.                             *)

LEMMA RefineInit == Init => Abstract!Init
  BY DEF Init, Abstract!Init, PhaseOf

\* Steps that leave the phase of every approval and its conversation alone.
LEMMA RefineStutter ==
    ASSUME \A a \in Ids : PhaseOf(a)' = PhaseOf(a), convOf' = convOf
    PROVE  UNCHANGED Abstract!vars
  BY DEF Abstract!vars

\* A step that closes the open proposals of a set S and touches no other.
LEMMA RefineWithdraw ==
    ASSUME NEW S \in SUBSET Ids, convOf' = convOf,
           \A a \in S : PhaseOf(a) = "proposed" /\ PhaseOf(a)' = "withdrawn",
           \A a \in Ids \ S : PhaseOf(a)' = PhaseOf(a)
    PROVE  Abstract!Next \/ UNCHANGED Abstract!vars
<1>1. CASE S = {}
  BY <1>1, RefineStutter
<1>2. CASE S # {}
  <2>1. Abstract!Withdraw(S)
    BY <1>2 DEF Abstract!Withdraw
  <2> QED BY <2>1 DEF Abstract!Next
<1> QED BY <1>1, <1>2

LEMMA RefineNext ==
    ASSUME IInv, [Next]_vars
    PROVE  Abstract!Next \/ UNCHANGED Abstract!vars
<1>0. /\ status \in [Ids -> Status] /\ convOf \in [Ids -> Convs \cup {NoConv}]
      /\ effects \in [Ids -> Nat] /\ tconv \in [Turns -> Convs \cup {NoConv}]
      /\ created \in Nat /\ \A a \in Ids : a \in Nat
  BY ApprovalsAssumption DEF IInv, TypeOK, Ids
<1>r. RowInv
  BY DEF IInv
<1> USE <1>0
<1>1. ASSUME NEW t \in Turns, Sweep(t)
      PROVE  Abstract!Next \/ UNCHANGED Abstract!vars
  <2>1. \A a \in Ids : PhaseOf(a)' = PhaseOf(a)
    BY <1>1, <1>r DEF Sweep, PhaseOf
  <2> QED BY <1>1, <2>1, RefineStutter DEF Sweep
<1>2. ASSUME NEW t \in Turns, Finish(t)
      PROVE  Abstract!Next \/ UNCHANGED Abstract!vars
  <2>1. PICK b \in Ids : b = target[t] /\ status[b] # "absent"
    BY <1>2, <1>r, HeldIsId DEF Finish, Holding, IInv, RowInv
  <2>2. CASE Claimable(b)
    <3>1. PhaseOf(b) = "proposed" /\ PhaseOf(b)' = "withdrawn"
      BY <1>2, <1>r, <2>1, <2>2 DEF Finish, PhaseOf, RowInv
    <3>2. \A a \in Ids \ {b} : PhaseOf(a)' = PhaseOf(a)
      BY <1>2, <2>1 DEF Finish, PhaseOf
    <3>3. \A a \in {b} : PhaseOf(a) = "proposed" /\ PhaseOf(a)' = "withdrawn"
      BY <3>1
    <3>4. convOf' = convOf /\ {b} \in SUBSET Ids
      BY <1>2, <2>1 DEF Finish
    <3> QED BY <3>2, <3>3, <3>4, RefineWithdraw
  <2>3. CASE ~Claimable(b)
    <3>1. \A a \in Ids : PhaseOf(a)' = PhaseOf(a)
      BY <1>2, <2>1, <2>3 DEF Finish, PhaseOf
    <3> QED BY <1>2, <3>1, RefineStutter DEF Finish
  <2> QED BY <2>2, <2>3
<1>3. ASSUME NEW t \in Turns, Claim(t)
      PROVE  Abstract!Next \/ UNCHANGED Abstract!vars
  <2>1. PICK b \in Ids : b = target[t]
    BY <1>3, HeldIsId DEF Claim, Holding, IInv
  <2>2. PhaseOf(b) = "proposed" /\ PhaseOf(b)' = "authorised"
    BY <1>3, <1>r, <2>1 DEF Claim, PhaseOf, RowInv
  <2>3. \A a \in Ids \ {b} : PhaseOf(a)' = PhaseOf(a)
    BY <1>3, <2>1 DEF Claim, PhaseOf
  <2>4. Abstract!Authorise(b)
    BY <1>3, <2>1, <2>2, <2>3 DEF Claim, Abstract!Authorise
  <2> QED BY <2>1, <2>4 DEF Abstract!Next
<1>4. ASSUME NEW t \in Turns, NEW changed \in BOOLEAN, NEW answer \in Answers,
             Execute(t, changed, answer)
      PROVE  Abstract!Next \/ UNCHANGED Abstract!vars
  <2>1. PICK b \in Ids : b = target[t] /\ b \in authorised /\ effects[b] = 0
    BY <1>4, HeldIsId DEF Execute, Holding, IInv, TurnInv
  <2>2. \A a \in Ids \ {b} : PhaseOf(a)' = PhaseOf(a)
    BY <1>4, <2>1 DEF Execute, PhaseOf
  <2>3. CASE changed
    <3>1. PhaseOf(b) = "authorised" /\ PhaseOf(b)' = "acted"
      BY <1>4, <2>1, <2>3 DEF Execute, PhaseOf
    <3>2. Abstract!Act(b)
      BY <1>4, <2>1, <2>2, <3>1 DEF Execute, Abstract!Act
    <3> QED BY <2>1, <3>2 DEF Abstract!Next
  <2>4. CASE ~changed
    <3>1. PhaseOf(b)' = PhaseOf(b)
      BY <1>4, <2>1, <2>4 DEF Execute, PhaseOf
    <3>2. \A a \in Ids : PhaseOf(a)' = PhaseOf(a)
      BY <2>2, <3>1
    <3> QED BY <1>4, <3>2, RefineStutter DEF Execute
  <2> QED BY <2>3, <2>4
<1>5. ASSUME NEW t \in Turns, NEW written \in BOOLEAN, Record(t, written)
      PROVE  Abstract!Next \/ UNCHANGED Abstract!vars
  <2>1. target[t] \in authorised
    BY <1>5 DEF Record, IInv, TurnInv
  <2>2. \A a \in Ids : PhaseOf(a)' = PhaseOf(a)
    BY <1>5, <2>1 DEF Record, PhaseOf
  <2> QED BY <1>5, <2>2, RefineStutter DEF Record
<1>6. ASSUME NEW t \in Turns, ExpireOld(t)
      PROVE  Abstract!Next \/ UNCHANGED Abstract!vars
  <2> DEFINE S == PendingIn(tconv[t]) \ stale
  <2>1. \A a \in S : PhaseOf(a) = "proposed" /\ PhaseOf(a)' = "withdrawn"
    BY <1>6, <1>r DEF ExpireOld, PhaseOf, RowInv
  <2>2. \A a \in Ids \ S : PhaseOf(a)' = PhaseOf(a)
    BY <1>6, <1>r DEF ExpireOld, PhaseOf, RowInv
  <2>3. convOf' = convOf /\ S \in SUBSET Ids
    BY <1>6 DEF ExpireOld
  <2> HIDE DEF S
  <2> QED BY <2>1, <2>2, <2>3, RefineWithdraw
<1>7. ASSUME NEW t \in Turns, Insert(t)
      PROVE  Abstract!Next \/ UNCHANGED Abstract!vars
  <2>1. PICK n \in Ids : n = created + 1 /\ status[n] = "absent"
    BY <1>7, <1>r, ApprovalsAssumption DEF Insert, Ids, RowInv
  <2>2. n \notin authorised /\ effects[n] = 0 /\ n \notin stale
    BY <2>1, <1>r DEF RowInv
  <2>3. tconv[t] \in Convs
    BY <1>7 DEF Insert, IInv, TurnInv
  <2>4. PhaseOf(n) = "absent" /\ PhaseOf(n)' = "proposed"
    BY <1>7, <2>1, <2>2 DEF Insert, PhaseOf
  <2>5. \A a \in Ids \ {n} : PhaseOf(a)' = PhaseOf(a)
    BY <1>7, <2>1 DEF Insert, PhaseOf
  <2>6. \A a \in Ids : PhaseOf(a) = "proposed" => Pending(a)
    BY DEF PhaseOf
  <2>7. Abstract!Open(tconv[t]) = {}
    BY <1>7, <2>6 DEF Insert, Abstract!Open
  <2>8. convOf' = [convOf EXCEPT ![n] = tconv[t]]
    BY <1>7, <2>1 DEF Insert
  <2>9. Abstract!Propose(n, tconv[t])
    BY <2>4, <2>5, <2>7, <2>8 DEF Abstract!Propose
  <2> QED BY <2>3, <2>9 DEF Abstract!Next
<1>8. ASSUME NEW t \in Turns,
             \/ \E a \in Ids : SelectFound(t, a)
             \/ SelectNone(t) \/ ClaimLost(t) \/ CheckFails(t) \/ Direct(t)
             \/ ModelCall(t) \/ RunOut(t) \/ InsertRefused(t) \/ Deliver(t)
             \/ Fail(t) \/ Kill(t)
             \/ \E k \in Kinds, c \in Convs : Send(t, k, c)
      PROVE  Abstract!Next \/ UNCHANGED Abstract!vars
  <2>1. UNCHANGED <<rows, authorised, effects>>
    BY <1>8 DEF SelectFound, SelectNone, ClaimLost, CheckFails, Direct,
         ModelCall, RunOut, InsertRefused, Deliver, Fail, Kill, Send
  <2> QED BY <2>1, RefineStutter DEF PhaseOf
<1>9. ASSUME NEW a \in Ids, TimePasses(a)
      PROVE  Abstract!Next \/ UNCHANGED Abstract!vars
  <2>1. \A b \in Ids \ {a} : PhaseOf(b)' = PhaseOf(b)
    BY <1>9 DEF TimePasses, PhaseOf
  <2>2. convOf' = convOf /\ {a} \in SUBSET Ids
    BY <1>9 DEF TimePasses
  <2>3. CASE Pending(a)
    <3>1. \A b \in {a} : PhaseOf(b) = "proposed" /\ PhaseOf(b)' = "withdrawn"
      BY <1>9, <1>r, <2>3 DEF TimePasses, PhaseOf, RowInv, Claimable, Pending
    <3> QED BY <3>1, <2>1, <2>2, RefineWithdraw
  <2>4. CASE ~Pending(a)
    <3>1. PhaseOf(a)' = PhaseOf(a)
      BY <1>9, <2>4 DEF TimePasses, PhaseOf, Claimable, Pending
    <3> QED BY <3>1, <2>1, <2>2, RefineStutter
  <2> QED BY <2>3, <2>4
<1>10. CASE UNCHANGED vars
  <2>1. \A a \in Ids : PhaseOf(a)' = PhaseOf(a)
    BY <1>10 DEF vars, PhaseOf
  <2> QED BY <1>10, <2>1, RefineStutter DEF vars
<1> QED
  BY <1>1, <1>2, <1>3, <1>4, <1>5, <1>6, <1>7, <1>8, <1>9, <1>10
     DEF Next, Step

\* Every behaviour of the engine is one of the abstract action: a proposal is
\* withdrawn for good or authorised once, and acts at most once, and only
\* when authorised, with one open proposal per conversation.
THEOREM EngineImplementsAction == Spec => ImplementsApprovedAction
<1>1. IInv /\ [Next]_vars => [Abstract!Next]_(Abstract!vars)
  BY RefineNext
<1> QED BY <1>1, RefineInit, Inductive, PTL
     DEF Spec, ImplementsApprovedAction, Abstract!Spec
=============================================================================
