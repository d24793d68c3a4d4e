-------------------------- MODULE ApprovedChanges --------------------------
(***************************************************************************)
(* What is promised of a tool call that may change Microsoft 365, with no  *)
(* requests, no retries and no pages in sight: nothing changes before the  *)
(* Director was asked; then the changes the call stands for happen one     *)
(* after the other, each once, up to some point; when it has ended in      *)
(* doubt the next one may still happen, and nothing else ever.  She is     *)
(* told that all is done, that nothing was changed or that it failed only  *)
(* when no doubt is left.                                                  *)
(***************************************************************************)
EXTENDS Naturals

CONSTANTS Actions,  \* the tool calls
          Steps     \* the numbers of their changes

VARIABLES plan,     \* plan[a], the changes a stands for
          mails,    \*   and those of them that send mail
          acted,    \* acted[a][i], how often change i of a has happened
          stage,    \* how far a is
          told      \* what she was told of it

vars == <<plan, mails, acted, stage, told>>

Init == /\ plan \in [Actions -> SUBSET Steps]
        /\ mails \in [Actions -> SUBSET Steps]
        /\ acted = [a \in Actions |-> [i \in Steps |-> 0]]
        /\ stage = [a \in Actions |-> "new"]
        /\ told = [a \in Actions |-> "none"]

\* The changes of a happen in order, and each happens once.
IsNext(a, i) == /\ i \in plan[a] /\ acted[a][i] = 0
                /\ \A j \in plan[a] : j < i => acted[a][j] = 1

Happens(a) == \E i \in Steps : /\ IsNext(a, i)
                               /\ acted' = [acted EXCEPT ![a][i] = 1]

Becomes(a, s) == stage' = [stage EXCEPT ![a] = s]
IsTold(a, r)  == told' = [told EXCEPT ![a] = r]

Ask(a) ==
    /\ stage[a] = "new"
    /\ Becomes(a, "asked")
    /\ UNCHANGED <<plan, mails, acted, told>>

\* What changes nothing need not be asked for.
Start(a) ==
    /\ stage[a] = "asked" \/ (stage[a] = "new" /\ plan[a] = {})
    /\ Becomes(a, "running")
    /\ UNCHANGED <<plan, mails, acted, told>>

\* It does not come to an execution.
Withdraw(a) ==
    /\ stage[a] \in {"new", "asked"}
    /\ Becomes(a, "over")
    /\ \E r \in {"unchanged", "failed", "none"} : IsTold(a, r)
    /\ UNCHANGED <<plan, mails, acted>>

Change(a) ==
    /\ stage[a] = "running"
    /\ Happens(a)
    /\ UNCHANGED <<plan, mails, stage, told>>

\* The end may come with a last change, or before it is known to happen.
End(a) ==
    /\ stage[a] = "running"
    /\ Happens(a) \/ UNCHANGED acted
    /\ \E doubt \in BOOLEAN, r \in {"success", "failed", "uncertain", "none"} :
         /\ Becomes(a, IF doubt THEN "inDoubt" ELSE "over")
         /\ IsTold(a, r)
         /\ doubt => r \in {"uncertain", "none"} /\ \E i \in Steps : IsNext(a, i)'
         /\ r = "success" => \A i \in plan[a] : acted'[a][i] = 1
         /\ r = "failed" => \A i \in mails[a] : acted'[a][i] = 0
    /\ UNCHANGED <<plan, mails>>

Land(a) ==
    /\ stage[a] = "inDoubt"
    /\ Happens(a)
    /\ Becomes(a, "over")
    /\ UNCHANGED <<plan, mails, told>>

Next == \E a \in Actions : \/ Ask(a) \/ Start(a) \/ Withdraw(a)
                           \/ Change(a) \/ End(a) \/ Land(a)

Spec == Init /\ [][Next]_vars
=============================================================================
