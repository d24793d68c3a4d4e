---------------------------- MODULE MemoryRules ----------------------------
(***************************************************************************)
(* The memory of one Director: memory/store.ts, memory/learning.ts, the     *)
(* routes of routes/memory.routes.ts, the memory tools, and the tables     *)
(* memory_entries and memory_signals.                                       *)
(*                                                                          *)
(* A rule is a text with a slot, its (key, scope, scope_ref); of a slot     *)
(* with a key at most one row may be active.                                *)
(* Requests run side by side and interleave at the statement.               *)
(***************************************************************************)
EXTENDS Naturals, FiniteSets

CONSTANTS Rows,       \* ids of memory_entries
          Requests,   \* requests and turns that run at once
          Rules,      \* what she may state or be observed to want
          Slots,      \* (key, scope, scope_ref)
          KeyOf,      \* the key of a slot, None without one
          ScopeOf,    \* the scope and scope_ref of a slot
          SlotOf,     \* the slot a rule is saved under
          TextOf,     \* its title and content, as duplicates are told
          Patterns,   \* the rules the detectors of learning.ts build
          Threshold,  \* PROPOSAL_THRESHOLD
          MaxSeen,    \* bound: observations of a pattern
          None

ASSUME RulesAssumption == SlotOf \in [Rules -> Slots] /\ Patterns \subseteq Rules
ASSUME SlotsAssumption == /\ DOMAIN KeyOf = Slots /\ DOMAIN ScopeOf = Slots
                          /\ \A s, t \in Slots : KeyOf[s] = KeyOf[t] /\ ScopeOf[s] = ScopeOf[t]
                                                   => s = t
ASSUME NoneAssumption == None \notin Slots \cup Rules \cup Rows
ASSUME BoundsAssumption == Threshold \in Nat /\ MaxSeen \in Nat

VARIABLES
  hasDb,     \* with a database, or with the arrays of the process
  status,    \* of each row; "free" before its insert, "gone" once deleted
  rule,      \* the rule a row holds
  slot,      \* its key, scope and scope_ref
  seen,      \* observed_count of each pattern's signal
  promoted,  \* patterns whose signal has a promoted_at
  req,       \* where each request is
  stated,    \* history: rows inserted because she said it
  agreed,    \* history: rows she asked to approve
  held,      \* history: keyed slots given a rule that she has not taken away
  broken     \* history: slots whose rule was archived for one that never came

vars == <<hasDb, status, rule, slot, seen, promoted, req, stated, agreed, held, broken>>

Idle == [pc |-> "idle", via |-> "none", rule |-> None, slot |-> None, row |-> None]

Status == {"free", "proposed", "active", "dismissed", "archived", "gone"}
Request == [pc : {"idle", "look", "archive", "insert", "activate", "promote"},
            via : {"none", "say", "observe", "approve"},
            rule : Rules \cup {None}, slot : Slots \cup {None}, row : Rows \cup {None}]

Init == /\ hasDb \in BOOLEAN
        /\ status = [i \in Rows |-> "free"]
        /\ rule = [i \in Rows |-> None]
        /\ slot = [i \in Rows |-> None]
        /\ seen = [r \in Patterns |-> 0]
        /\ promoted = {}
        /\ req = [q \in Requests |-> Idle]
        /\ stated = {} /\ agreed = {} /\ held = {} /\ broken = {}

Exists(i) == status[i] \notin {"free", "gone"}

(* What recall may return, to the agent's prompt and to the engines that    *)
(* take a preferenceMap: scope, rank, limit and expiry only take away.      *)
InForce(i) == status[i] = "active"

ActiveIn(s) == {i \in Rows : status[i] = "active" /\ slot[i] = s}

KeyedSlots == {s \in Slots : KeyOf[s] # None}
Keyed(s)   == s \in KeyedSlots

(* For the histories: she dismisses, deletes or moves the active row of a   *)
(* slot, or a row is put there.                                             *)
Released(i) == IF status[i] = "active" THEN held \ {slot[i]} ELSE held

Filled(s) == held' = held \cup ({s} \cap KeyedSlots) /\ broken' = broken \ {s}

\* Mutation of IndexAllows: a migration that dropped the index of keys for good. 
IndexAllowsAny(i, s) == TRUE

(* The partial unique index memory_key_scope_unique. *)
IndexAllows(i, s) == ~Keyed(s) \/ ActiveIn(s) \ {i} = {}

(***************************************************************************)
(* remember                                                                 *)
(***************************************************************************)
(* The duplicate select: an active row of the same text that is in the      *)
(* rule's scope now. (It does not look at expires_at, which only recall     *)
(* reads and is left out here.)                                             *)
Duplicates(r) == {i \in Rows : /\ status[i] = "active"
                               /\ ScopeOf[slot[i]] = ScopeOf[SlotOf[r]]
                               /\ TextOf[rule[i]] = TextOf[r]}

\* Mutation of Supersedes: a proposal, too, archives the rule it would replace. 
SupersedesAny(q) == Keyed(req[q].slot)

(* Only a rule that takes effect replaces the one in its slot. *)
Supersedes(q) == req[q].via = "say" /\ Keyed(req[q].slot)

\* Mutation of SavedStatus: observe leaves the status to its default. 
SavedStatusActive(via) == "active"

SavedStatus(via) == IF via = "say" THEN "active" ELSE "proposed"

(* remember has returned, with a row or with the null of its catch: observe *)
(* goes on to mark its signal, everyone else has answered.                  *)
Returned(q) == IF req[q].via = "observe" THEN [req[q] EXCEPT !.pc = "promote"] ELSE Idle

Begin(via, r) == [pc |-> "look", via |-> via, rule |-> r, slot |-> SlotOf[r], row |-> None]

(* POST /api/memory, or the approved memory_remember card. *)
Say(q, r) ==
  /\ hasDb /\ req[q] = Idle
  /\ req' = [req EXCEPT ![q] = Begin("say", r)]
  /\ UNCHANGED <<hasDb, status, rule, slot, seen, promoted, stated, agreed, held, broken>>

Look(q) ==
  /\ req[q].pc = "look"
  /\ req' = [req EXCEPT ![q] = IF Duplicates(req[q].rule) # {} THEN Returned(q)
                               ELSE [@ EXCEPT !.pc = IF Supersedes(q) THEN "archive" ELSE "insert"]]
  /\ UNCHANGED <<hasDb, status, rule, slot, seen, promoted, stated, agreed, held, broken>>

(* The archiving update, of remember and of approveMemory. *)
Archive(q) ==
  /\ req[q].pc = "archive"
  /\ status' = [i \in Rows |-> IF i \in ActiveIn(req[q].slot) \ {req[q].row}
                               THEN "archived" ELSE status[i]]
  /\ req' = [req EXCEPT ![q].pc = IF req[q].via = "approve" THEN "activate" ELSE "insert"]
  /\ UNCHANGED <<hasDb, rule, slot, seen, promoted, stated, agreed, held, broken>>

NewRow(i, via, r, s) ==
  /\ status[i] = "free"
  /\ status' = [status EXCEPT ![i] = SavedStatus(via)]
  /\ rule' = [rule EXCEPT ![i] = r]
  /\ slot' = [slot EXCEPT ![i] = s]
  /\ stated' = IF via = "say" THEN stated \cup {i} ELSE stated
  /\ IF SavedStatus(via) = "active" THEN Filled(s) ELSE UNCHANGED <<held, broken>>

Insert(q, i) ==
  /\ req[q].pc = "insert"
  /\ SavedStatus(req[q].via) = "active" => IndexAllows(i, req[q].slot)
  /\ NewRow(i, req[q].via, req[q].rule, req[q].slot)
  /\ req' = [req EXCEPT ![q] = Returned(q)]
  /\ UNCHANGED <<hasDb, seen, promoted, agreed>>

InsertRefused(q) ==
  /\ req[q].pc = "insert" /\ req[q].via = "say"
  /\ Keyed(req[q].slot) /\ ActiveIn(req[q].slot) # {}
  /\ req' = [req EXCEPT ![q] = Idle]
  /\ UNCHANGED <<hasDb, status, rule, slot, seen, promoted, stated, agreed, held, broken>>

(* Without a database the same is one synchronous step. *)
SayInMemory(r, i) ==
  /\ ~hasDb /\ Duplicates(r) = {}
  /\ status[i] = "free"
  /\ status' = [j \in Rows |-> IF j = i THEN "active"
                               ELSE IF Keyed(SlotOf[r]) /\ j \in ActiveIn(SlotOf[r])
                                    THEN "archived" ELSE status[j]]
  /\ rule' = [rule EXCEPT ![i] = r]
  /\ slot' = [slot EXCEPT ![i] = SlotOf[r]]
  /\ stated' = stated \cup {i}
  /\ Filled(SlotOf[r])
  /\ UNCHANGED <<hasDb, seen, promoted, req, agreed>>

(***************************************************************************)
(* observe: count the signal, propose at the threshold, mark it.            *)
(***************************************************************************)
Crossed(r) == r \notin promoted /\ seen[r] + 1 >= Threshold

Observe(q, r) ==
  /\ hasDb /\ req[q] = Idle /\ seen[r] < MaxSeen
  /\ seen' = [seen EXCEPT ![r] = @ + 1]
  /\ req' = IF Crossed(r) THEN [req EXCEPT ![q] = Begin("observe", r)] ELSE req
  /\ UNCHANGED <<hasDb, status, rule, slot, promoted, stated, agreed, held, broken>>

(* observeFromMessage: the detectors that match her message are observed    *)
(* one after another; which ones match is left open.                        *)
ObserveFromMessage(q) == \E r \in Patterns : Observe(q, r)

Promote(q) ==
  /\ req[q].pc = "promote"
  /\ promoted' = promoted \cup {req[q].rule}
  /\ req' = [req EXCEPT ![q] = Idle]
  /\ UNCHANGED <<hasDb, status, rule, slot, seen, stated, agreed, held, broken>>

(***************************************************************************)
(* approveMemory                                                            *)
(***************************************************************************)
\* Mutation of StillProposed: the second update of approveMemory forgets a No. 
StillProposedAny(i) == status[i] \in {"proposed", "dismissed"}

StillProposed(i) == status[i] = "proposed"

Approve(q, i) ==
  /\ req[q] = Idle /\ status[i] = "proposed"
  /\ req' = [req EXCEPT ![q] = [pc |-> IF Keyed(slot[i]) THEN "archive" ELSE "activate",
                                via |-> "approve", rule |-> rule[i], slot |-> slot[i], row |-> i]]
  /\ agreed' = agreed \cup {i}
  /\ UNCHANGED <<hasDb, status, rule, slot, seen, promoted, stated, held, broken>>

(* For the history: the request ends in the gap between its two updates,    *)
(* and nobody has put a rule into the slot.                                 *)
BreaksOff(q) ==
  IF Keyed(req[q].slot) /\ ActiveIn(req[q].slot) = {} THEN broken \cup {req[q].slot} ELSE broken

Activate(q) ==
  /\ req[q].pc = "activate" /\ StillProposed(req[q].row)
  /\ IndexAllows(req[q].row, slot[req[q].row])
  /\ status' = [status EXCEPT ![req[q].row] = "active"]
  /\ held' = held \cup ({slot[req[q].row]} \cap KeyedSlots)
  /\ broken' = BreaksOff(q) \ {slot[req[q].row]}
  /\ req' = [req EXCEPT ![q] = Idle]
  /\ UNCHANGED <<hasDb, rule, slot, seen, promoted, stated, agreed>>

(* The update violates the index: the request fails, the row stays proposed. *)
ActivateRefused(q) ==
  /\ req[q].pc = "activate" /\ StillProposed(req[q].row)
  /\ ~IndexAllows(req[q].row, slot[req[q].row])
  /\ broken' = BreaksOff(q)
  /\ req' = [req EXCEPT ![q] = Idle]
  /\ UNCHANGED <<hasDb, status, rule, slot, seen, promoted, stated, agreed, held>>

(* The update matches no row, because the proposal was decided or deleted   *)
(* meanwhile; approveMemory returns true all the same.                      *)
ActivateNothing(q) ==
  /\ req[q].pc = "activate" /\ ~StillProposed(req[q].row)
  /\ broken' = BreaksOff(q)
  /\ req' = [req EXCEPT ![q] = Idle]
  /\ UNCHANGED <<hasDb, status, rule, slot, seen, promoted, stated, agreed, held>>

(***************************************************************************)
(* One-statement requests, each on any row a page may still show. The ids of *)
(* the arrays are no UUIDs: of them only the memory_forget tool takes one.  *)
(***************************************************************************)
Dismiss(i) ==
  /\ hasDb /\ Exists(i)
  /\ status' = [status EXCEPT ![i] = "dismissed"]
  /\ held' = Released(i)
  /\ UNCHANGED <<hasDb, rule, slot, seen, promoted, req, stated, agreed, broken>>

Forget(i) ==
  /\ Exists(i)
  /\ status' = [status EXCEPT ![i] = "gone"]
  /\ rule' = [rule EXCEPT ![i] = None]
  /\ slot' = [slot EXCEPT ![i] = None]
  /\ held' = Released(i)
  /\ UNCHANGED <<hasDb, seen, promoted, req, stated, agreed, broken>>

(* PATCH: another scope, refused by the index when the place is taken.      *)
Rescope(i, s) ==
  /\ hasDb /\ Exists(i) /\ s # slot[i] /\ KeyOf[s] = KeyOf[slot[i]]
  /\ status[i] = "active" => IndexAllows(i, s)
  /\ slot' = [slot EXCEPT ![i] = s]
  /\ IF status[i] = "active"
       THEN /\ held' = Released(i) \cup ({s} \cap KeyedSlots)
            /\ broken' = broken \ {s}
       ELSE UNCHANGED <<held, broken>>
  /\ UNCHANGED <<hasDb, status, rule, seen, promoted, req, stated, agreed>>

(***************************************************************************)
(* A statement fails: remember swallows it, the others end the request.     *)
(***************************************************************************)
InGap(q) == \/ req[q].pc = "insert" /\ Supersedes(q)
            \/ req[q].pc = "activate" /\ Keyed(req[q].slot)

Ends(q) == IF InGap(q) THEN BreaksOff(q) ELSE broken

Fail(q) ==
  /\ req[q] # Idle
  /\ req' = [req EXCEPT ![q] = IF @.pc \in {"look", "archive", "insert"} THEN Returned(q) ELSE Idle]
  /\ broken' = Ends(q)
  /\ UNCHANGED <<hasDb, status, rule, slot, seen, promoted, stated, agreed, held>>

Kill(q) ==
  /\ req[q] # Idle
  /\ req' = [req EXCEPT ![q] = Idle]
  /\ broken' = Ends(q)
  /\ UNCHANGED <<hasDb, status, rule, slot, seen, promoted, stated, agreed, held>>

Next ==
  \/ \E q \in Requests :
       \/ \E r \in Rules : Say(q, r)
       \/ ObserveFromMessage(q)
       \/ \E i \in Rows : Insert(q, i) \/ Approve(q, i)
       \/ Look(q) \/ Archive(q) \/ InsertRefused(q) \/ Promote(q)
       \/ Activate(q) \/ ActivateRefused(q) \/ ActivateNothing(q)
       \/ Fail(q) \/ Kill(q)
  \/ \E i \in Rows :
       \/ \E r \in Rules : SayInMemory(r, i)
       \/ \E s \in Slots : Rescope(i, s)
       \/ Dismiss(i) \/ Forget(i)

Spec == Init /\ [][Next]_vars

(***************************************************************************)
(* Properties                                                               *)
(***************************************************************************)
(* Types; and where a request can be: at a statement of approveMemory with   *)
(* the row it selected, at one of remember with the rule it is to save.     *)
RequestOK(q) ==
  \/ req[q] = Idle
  \/ req[q].via = "approve" /\ req[q].pc \in {"archive", "activate"} /\ req[q].row \in Rows
  \/ req[q].via = "say" /\ req[q].pc \in {"look", "archive", "insert"} /\ req[q].rule \in Rules
  \/ req[q].via = "observe" /\ req[q].pc \in {"look", "insert", "promote"} /\ req[q].rule \in Patterns

TypeOK ==
  /\ hasDb \in BOOLEAN
  /\ status \in [Rows -> Status]
  /\ rule \in [Rows -> Rules \cup {None}]
  /\ slot \in [Rows -> Slots \cup {None}]
  /\ stated \subseteq Rows /\ agreed \subseteq Rows
  /\ held \subseteq KeyedSlots /\ broken \subseteq KeyedSlots
  /\ seen \in [Patterns -> 0 .. MaxSeen]
  /\ promoted \subseteq Patterns
  /\ req \in [Requests -> Request]
  /\ \A q \in Requests : RequestOK(q)

(* At most one rule is in force under a key and scope, however many         *)
(* requests save, approve and move rules at once (migration 0010).          *)
OneActivePerSlot ==
  hasDb => \A i, j \in Rows : /\ status[i] = "active" /\ status[j] = "active"
                              /\ slot[i] = slot[j] /\ Keyed(slot[i])
                              => i = j

(* Nothing becomes a durable belief silently: a rule in force was stated by *)
(* her, or is a proposal she agreed to (memory/store.ts:4).                 *)
NothingSilent == \A i \in Rows : InForce(i) => i \in stated \cup agreed

(* A proposal she said No to never takes effect, not even under an approval *)
(* that was on its way.                                                     *)
DismissedStaysDismissed ==
  [][\A i \in Rows : status[i] = "dismissed" => status'[i] \in {"dismissed", "gone"}]_vars

(* A rule is lost only in the gap. A keyed slot that was given a rule she    *)
(* has not herself dismissed, deleted or moved away holds one, or a request *)
(* between its two updates is about to put one there, or such a request     *)
(* broke off: it failed or was killed, or its proposal was decided, deleted *)
(* or moved meanwhile. What broke off stays so until a rule fills the slot. *)
LostOnlyInTheGap ==
  hasDb => \A s \in held : \/ ActiveIn(s) # {}
                           \/ \E q \in Requests : InGap(q) /\ req[q].slot = s
                           \/ s \in broken

=============================================================================
