-------------------------- MODULE ConnectionProofs --------------------------
(* Proofs about Connection: for any number of browsers and readers, every   *)
(* state is well typed and a completed sign-out holds until a sign-in.      *)
EXTENDS Connection, TLAPS

\* The type invariant and the sign-out are inductive together.
LEMMA Types == Init => TypeOK /\ SignedOutStaysOut
<1> SUFFICES ASSUME Init PROVE TypeOK /\ SignedOutStaysOut
  OBVIOUS
<1>1. NoFlow \in Flow /\ Idle \in Reader
  BY DEF NoFlow, Idle, Flow, Reader, Grants
<1>2. flow \in [Browsers -> Flow] /\ reader \in [Readers -> Reader]
  BY <1>1 DEF Init
<1>3. \A b \in Browsers : flow[b].pc # "issue" /\ leaving[b] = "no"
  BY DEF Init, NoFlow
<1>4. QED
  BY <1>2, <1>3 DEF Init, TypeOK, SignedOutStaysOut, Grants

\* Where a reader that gives up goes.
LEMMA GivingUp ==
    ASSUME TypeOK, NEW r \in Readers
    PROVE  GaveUp(r) \in [Readers -> Reader]
BY DEF TypeOK, GaveUp, Told, Idle, Reader, Grants

\* The steps of a sign-in keep the invariant.
LEMMA SignInKeeps ==
    ASSUME TypeOK, SignedOutStaysOut, NEW b \in Browsers, SignIn(b)
    PROVE  (TypeOK /\ SignedOutStaysOut)'
<1>1. CASE Exchange(b)
  BY <1>1 DEF Exchange, ExchangeCode, TypeOK, SignedOutStaysOut, Flow, Grants, row
<1>2. CASE Persist(b)
  BY <1>2 DEF Persist, Stored, TypeOK, SignedOutStaysOut, Flow, Grants
<1>3. CASE Save(b)
  BY <1>3 DEF Save, TypeOK, SignedOutStaysOut, Flow, Grants
<1>4. CASE Issue(b)
  BY <1>4 DEF Issue, TypeOK, SignedOutStaysOut, Flow, Grants, NoFlow, row
<1>5. QED
  BY <1>1, <1>2, <1>3, <1>4 DEF SignIn

\* So do those of a sign-out, its failure and the end of a session.
LEMMA SignOutKeeps ==
    ASSUME TypeOK, SignedOutStaysOut, NEW b \in Browsers,
           SignOut(b) \/ FlowFails(b) \/ Logout(b) \/ LogoutFails(b) \/ SessionEnds(b)
    PROVE  (TypeOK /\ SignedOutStaysOut)'
<1>1. CASE LogoutClears(b)
  BY <1>1 DEF LogoutClears, Cleared, TypeOK, SignedOutStaysOut, Grants
<1>2. CASE LogoutMarks(b)
  BY <1>2 DEF LogoutMarks, Marked, TypeOK, SignedOutStaysOut
<1>3. CASE FlowFails(b)
  BY <1>3 DEF FlowFails, TypeOK, SignedOutStaysOut, Flow, Grants, NoFlow, row
<1>4. CASE Logout(b)
  BY <1>4 DEF Logout, TypeOK, SignedOutStaysOut, row
<1>5. CASE LogoutFails(b)
  BY <1>5 DEF LogoutFails, TypeOK, SignedOutStaysOut, row
<1>6. CASE SessionEnds(b)
  BY <1>6 DEF SessionEnds, TypeOK, SignedOutStaysOut, row
<1>7. QED
  BY <1>1, <1>2, <1>3, <1>4, <1>5, <1>6 DEF SignOut

\* A reader leaves the row alone, writes a cache, clears it or marks it.
LEMMA ReadingKeeps ==
    ASSUME TypeOK, SignedOutStaysOut, NEW r \in Readers, Reading(r) \/ ReaderFails(r)
    PROVE  (TypeOK /\ SignedOutStaysOut)'
<1> USE GivingUp DEF client
<1>1. CASE Start(r)
  <2>1. [pc |-> "token", home |-> home, grant |-> "none"] \in Reader
    BY DEF TypeOK, Reader, Grants
  <2>2. reader' \in [Readers -> Reader]
    BY <1>1, <2>1 DEF Start, Connected, TypeOK
  <2>3. QED
    BY <1>1, <2>2 DEF Start, Connected, TypeOK, SignedOutStaysOut, row
<1>2. CASE FindsNoAccount(r)
  BY <1>2 DEF FindsNoAccount, TypeOK, SignedOutStaysOut, row
<1>3. CASE FindsAccount(r)
  BY <1>3 DEF FindsAccount, TypeOK, SignedOutStaysOut, Reader, Grants, Idle, row
<1>4. CASE FromCache(r)
  BY <1>4 DEF FromCache, TypeOK, SignedOutStaysOut, Reader, row
<1>5. CASE Refreshed(r)
  BY <1>5 DEF Refreshed, TypeOK, SignedOutStaysOut, Reader, row
<1>6. CASE RefreshFails(r)
  BY <1>6 DEF RefreshFails, TypeOK, SignedOutStaysOut, Reader, Idle, Grants, row
<1>7. CASE WriteBack(r)
  BY <1>7 DEF WriteBack, Stored, TypeOK, SignedOutStaysOut, Reader, Grants
<1>8. CASE Clear(r)
  BY <1>8 DEF Clear, Cleared, TypeOK, SignedOutStaysOut, Grants
<1>9. CASE Reads(r)
  <2>1. Idle \in Reader
    BY DEF Idle, Reader, Grants
  <2>2. reader' \in [Readers -> Reader]
    BY <1>9, <2>1 DEF Reads, TypeOK
  <2>3. QED
    BY <1>9, <2>2 DEF Reads, TypeOK, SignedOutStaysOut, row
<1>10. CASE MarkNeedsReauth(r)
  BY <1>10 DEF MarkNeedsReauth, Marked, TypeOK, SignedOutStaysOut, Reader, Grants, Idle
<1>11. CASE ReaderFails(r)
  BY <1>11 DEF ReaderFails, TypeOK, SignedOutStaysOut, Reader, Grants, Idle, row
<1>12. QED
  BY <1>1, <1>2, <1>3, <1>4, <1>5, <1>6, <1>7, <1>8, <1>9, <1>10, <1>11 DEF Reading

\* Microsoft changes grants and nothing else.
LEMMA MicrosoftKeeps ==
    ASSUME TypeOK, SignedOutStaysOut, Revoke \/ CalmsDown
    PROVE  (TypeOK /\ SignedOutStaysOut)'
<1>1. CASE Revoke
  <2>1. \A f \in Flow : [f EXCEPT !.grant = Dead(@)] \in Flow
    BY DEF Flow, Grants, Dead
  <2>2. \A x \in Reader : [x EXCEPT !.grant = Dead(@)] \in Reader
    BY DEF Reader, Grants, Dead
  <2>3. flow' \in [Browsers -> Flow] /\ \A b \in Browsers : flow'[b].pc = flow[b].pc
    BY <1>1, <2>1 DEF Revoke, TypeOK, Flow
  <2>4. reader' \in [Readers -> Reader]
    BY <1>1, <2>2 DEF Revoke, TypeOK
  <2>5. cache' \in Grants
    BY <1>1 DEF Revoke, TypeOK, Grants, Dead
  <2>6. QED
    BY <1>1, <2>3, <2>4, <2>5 DEF Revoke, TypeOK, SignedOutStaysOut
<1>2. CASE CalmsDown
  BY <1>2 DEF CalmsDown, TypeOK, SignedOutStaysOut, row, client
<1>3. QED
  BY <1>1, <1>2

LEMMA Inductive == Spec => [](TypeOK /\ SignedOutStaysOut)
<1>1. TypeOK /\ SignedOutStaysOut /\ [Next]_vars => (TypeOK /\ SignedOutStaysOut)'
  <2> SUFFICES ASSUME TypeOK, SignedOutStaysOut, [Next]_vars
               PROVE  (TypeOK /\ SignedOutStaysOut)'
    OBVIOUS
  <2>1. CASE Next
    BY <2>1, SignInKeeps, SignOutKeeps, ReadingKeeps, MicrosoftKeeps DEF Next
  <2>2. CASE UNCHANGED vars
    BY <2>2 DEF vars, TypeOK, SignedOutStaysOut
  <2>3. QED
    BY <2>1, <2>2
<1>2. QED
  BY Types, <1>1, PTL DEF Spec

\* Every reachable state of the connection is well typed, and whoever holds a
\* session has a row.
THEOREM TypeCorrect == Spec => []TypeOK
BY Inductive, PTL

\* Once a sign-out is through, nobody finds the user connected until she has
\* signed in again, however many readers and sign-ins were under way.
THEOREM SignOutHolds == Spec => []SignedOutStaysOut
BY Inductive, PTL
=============================================================================
