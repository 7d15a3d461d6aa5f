------------------------- MODULE RouteEngineProofs -------------------------
(***************************************************************************)
(* Theorems about RouteEngine, for every set of messages, rule table and   *)
(* bound its assumptions allow: its types (TypeInv), its safety properties *)
(* (SafetyInv), and that it implements RoutePromise.                       *)
(***************************************************************************)
EXTENDS RouteInvariant, TLAPS

(***************************************************************************)
(* Types                                                                   *)
(***************************************************************************)

LEMMA FreshType == Fresh \in Routing
  BY DEF Fresh, Routing, NoResult, Result, Kinds

LEMMA RestingType ==
  ASSUME NEW pc \in {"down", "idle", "claim", "plan"}
  PROVE  Resting(pc) \in WorkerState
  BY FreshType DEF Resting, WorkerState, EmptyTable

LEMMA InitType == Init => TypeOK
  <1> SUFFICES ASSUME Init PROVE TypeOK
    OBVIOUS
  <1>1. worker \in WorkerState
    BY RestingType DEF Init
  <1>2. route \in [Msgs -> Routing]
    BY FreshType DEF Init
  <1>3. rules \in [RuleIds -> Docs \cup {NoRule}]
    BY RuleAssumption DEF Init
  <1>4. sent \in [Msgs -> [Keys -> Nat]] /\ doubt \in [Msgs -> [Keys -> Nat]]
    BY DEF Init
  <1> QED
    BY <1>1, <1>2, <1>3, <1>4 DEF Init, TypeOK, Spending

LEMMA EmptyTableType == EmptyTable \in [RuleIds -> Docs \cup {NoRule}]
  BY DEF EmptyTable

\* Noting one result leaves a routing state well formed.
LEMMA NotedType ==
  ASSUME NEW c \in Routing, NEW k \in Keys,
         NEW status \in {"done", "error"}, NEW kind \in Kinds
  PROVE  [c EXCEPT !.results[k] = [status |-> status, type |-> kind]] \in Routing
  <1>1. [status |-> status, type |-> kind] \in Result
    BY DEF Result
  <1> QED
    BY <1>1 DEF Routing

\* An action the worker comes to is one of a rule it has read.
LEMMA KindType ==
  ASSUME TypeOK, NEW k \in Keys, worker.docs[k[1]] # NoRule,
         k[2] \in 1 .. Len(worker.docs[k[1]].actions)
  PROVE  Kind(k) \in Kinds
  <1>1. worker.docs[k[1]] \in Docs
    BY DEF TypeOK, WorkerState, Keys
  <1>2. worker.docs[k[1]].actions \in Seq(Kinds)
    BY <1>1, RuleAssumption DEF Rule
  <1> QED
    BY <1>2 DEF Kind

LEMMA MatchedUsable ==
  ASSUME NEW table PROVE MatchedIn(table) \subseteq Usable(table)
  BY DEF MatchedIn, SelectRules

LEMMA ActionsAreKeys ==
  ASSUME NEW table \in [RuleIds -> Docs \cup {NoRule}], NEW r \in Usable(table)
  PROVE  /\ table[r] # NoRule /\ table[r] \in Docs
         /\ ActionsOf(table, r) \subseteq Keys
  <1>1. r \in RuleIds /\ table[r] # NoRule /\ table[r] \in Docs
    BY DEF Usable
  <1>2. table[r].actions \in Seq(Kinds) /\ Len(table[r].actions) <= MaxActions
    BY <1>1, RuleAssumption DEF Rule
  <1>3. \A i \in 1 .. Len(table[r].actions) : i \in 1 .. MaxActions
    BY <1>2, RuleAssumption
  <1> QED
    BY <1>1, <1>3 DEF ActionsOf, Keys

LEMMA SpentType ==
  ASSUME spent \in Spending, DbFails \/ Moves \/ CanEdit
  PROVE  /\ DbFails \/ Moves => spent' \in Spending
         /\ CanEdit => [spent EXCEPT !.edits = @ + 1] \in Spending
  BY DEF Spending, DbFails, Moves, CanEdit

LEMMA PlanType ==
  ASSUME TypeInv, worker.pc = "plan",
         NEW table \in [RuleIds -> Docs \cup {NoRule}], PlanWith(table)
  PROVE  worker' \in WorkerState /\ TodoListed' /\ InHand'
  <1> DEFINE matched == MatchedIn(table)
             copy == [worker.copy EXCEPT !.fixed = TRUE, !.matched = matched]
  <1>1. matched \subseteq RuleIds /\ matched \subseteq Usable(table)
    BY MatchedUsable DEF Usable
  <1>2. copy \in Routing
    BY <1>1 DEF TypeInv, TypeOK, WorkerState, Routing
  <1>3. Outstanding(table, matched) \subseteq Keys
    BY <1>1, ActionsAreKeys DEF Outstanding
  <1>4. worker' = [worker EXCEPT !.pc = "act", !.copy = copy, !.docs = table,
                                 !.todo = Outstanding(table, matched)]
    BY DEF PlanWith
  <1>5. worker' \in WorkerState
    BY <1>2, <1>3, <1>4 DEF TypeInv, TypeOK, WorkerState
  <1>6. /\ worker'.todo = Outstanding(table, matched) /\ worker'.docs = table
        /\ worker'.msg = worker.msg /\ worker'.unsaved = worker.unsaved
        /\ worker'.pc = "act"
    BY <1>4 DEF TypeInv, TypeOK, WorkerState
  <1>7. \A k \in Outstanding(table, matched) :
           table[k[1]] # NoRule /\ k[2] \in 1 .. Len(table[k[1]].actions)
    BY <1>1 DEF Outstanding, ActionsOf, Usable
  <1> QED
    BY <1>5, <1>6, <1>7 DEF TodoListed, InHand, TypeInv

LEMMA RanType ==
  ASSUME TypeInv, NEW k \in Keys, NEW status \in {"done", "error"},
         Runs(k), Ran(k, status)
  PROVE  worker' \in WorkerState /\ TodoListed' /\ InHand'
  <1> DEFINE copy == [worker.copy EXCEPT
                        !.results[k] = [status |-> status, type |-> Kind(k)]]
             unsaved == IF status = "done" /\ Kind(k) \in Push THEN {k} ELSE {}
  <1>1. Kind(k) \in Kinds
    BY KindType DEF Runs, Current, TypeInv, TodoListed
  <1>2. worker.copy \in Routing
    BY DEF TypeInv, TypeOK, WorkerState
  <1>3. copy \in Routing
    BY <1>1, <1>2, NotedType
  <1>4. worker' = [worker EXCEPT !.pc = "save", !.todo = @ \ {k}, !.copy = copy,
                                 !.failed = @ \/ status = "error", !.unsaved = unsaved]
    BY DEF Ran, TypeInv, TypeOK, WorkerState
  <1>5. unsaved \in SUBSET Keys
    OBVIOUS
  <1>6. worker' \in WorkerState
    BY ZenonT(60), <1>3, <1>4, <1>5 DEF TypeInv, TypeOK, WorkerState
  <1>7. /\ worker'.todo \subseteq worker.todo /\ worker'.docs = worker.docs
        /\ worker'.pc = "save" /\ worker'.msg = worker.msg
    BY <1>4 DEF TypeInv, TypeOK, WorkerState
  <1> QED
    BY <1>6, <1>7 DEF TypeInv, TodoListed, InHand, Runs, Current

LEMMA PeopleType == TypeInv /\ People => TypeInv'
  <1> SUFFICES ASSUME TypeInv, People PROVE TypeOK'
    <2>1. People => UNCHANGED worker
      BY DEF People, Store, NotifyWorker, Trash, Restore, Purge, DeleteRule, PutRule
    <2> QED
      BY <2>1 DEF TypeInv, TodoListed, InHand
  <1> USE DEF TypeOK, TypeInv
  <1>1. ASSUME NEW m \in Msgs, Store(m) PROVE TypeOK'
    BY <1>1 DEF Store
  <1>2. ASSUME NEW m \in Msgs, NotifyWorker(m) PROVE TypeOK'
    BY <1>2 DEF NotifyWorker
  <1>3. ASSUME NEW m \in Msgs, Trash(m) PROVE TypeOK'
    <2>1. flags[m] \cup {"deleted"} \in SUBSET {"deleted", "seen", "tagged"}
      OBVIOUS
    <2>2. spent' \in Spending
      BY <1>3, SpentType DEF Trash
    <2> QED
      BY <1>3, <2>1, <2>2 DEF Trash
  <1>4. ASSUME NEW m \in Msgs, Restore(m) PROVE TypeOK'
    <2>1. flags[m] \ {"deleted"} \in SUBSET {"deleted", "seen", "tagged"}
      OBVIOUS
    <2>2. spent' \in Spending
      BY <1>4, SpentType DEF Restore
    <2> QED
      BY <1>4, <2>1, <2>2 DEF Restore
  <1>5. ASSUME NEW m \in Msgs, Purge(m) PROVE TypeOK'
    BY <1>5, SpentType DEF Purge
  <1>6. ASSUME NEW r \in RuleIds, DeleteRule(r) PROVE TypeOK'
    BY <1>6, SpentType DEF DeleteRule
  <1>7. ASSUME NEW r \in RuleIds, NEW d \in Docs, PutRule(r, d) PROVE TypeOK'
    BY <1>7, SpentType DEF PutRule
  <1> QED
    BY <1>1, <1>2, <1>3, <1>4, <1>5, <1>6, <1>7 DEF People

\* A worker at rest has no list, no message and nothing to forget.
LEMMA RestingInv ==
  ASSUME NEW pc \in {"down", "idle", "claim"}, worker' = Resting(pc)
  PROVE  worker' \in WorkerState /\ TodoListed' /\ InHand'
  BY RestingType, MsgAssumption DEF Resting, TodoListed, InHand

LEMMA SavedType ==
  ASSUME TypeOK, NEW state \in Routing, SaveRouting(state)
  PROVE  route' \in [Msgs -> Routing]
  BY DEF TypeOK, SaveRouting

LEMMA ForgottenType ==
  ASSUME TypeInv, Forgotten
  PROVE  /\ doubt' \in [Msgs -> [Keys -> Nat]]
         /\ \A m \in Msgs, k \in Keys :
              doubt'[m][k] = IF m = Msg /\ k \in worker.unsaved
                             THEN doubt[m][k] + 1 ELSE doubt[m][k]
  <1> USE DEF TypeInv, TypeOK
  <1>1. CASE worker.unsaved = {}
    BY <1>1 DEF Forgotten
  <1>2. CASE worker.unsaved # {}
    <2> DEFINE noted == [k \in Keys |-> IF k \in worker.unsaved
                                        THEN doubt[Msg][k] + 1 ELSE doubt[Msg][k]]
    <2>1. Msg \in Msgs
      BY <1>2 DEF InHand, Msg
    <2>2. noted \in [Keys -> Nat]
      BY <2>1
    <2>3. doubt' = [doubt EXCEPT ![Msg] = noted]
      BY <1>2 DEF Forgotten
    <2> QED
      BY <2>1, <2>2, <2>3
  <1> QED
    BY <1>1, <1>2

\* One more request or doubt, counted for the message in hand.
LEMMA CountedType ==
  ASSUME NEW f \in [Msgs -> [Keys -> Nat]], NEW m \in Msgs, NEW k \in Keys
  PROVE  [f EXCEPT ![m][k] = @ + 1] \in [Msgs -> [Keys -> Nat]]
  <1>1. [f[m] EXCEPT ![k] = @ + 1] \in [Keys -> Nat]
    OBVIOUS
  <1> QED
    BY <1>1

LEMMA ClaimType ==
  ASSUME TypeInv, NEW m \in Msgs, Claim(m)
  PROVE  /\ Claimed(m) \in Routing
         /\ route' \in [Msgs -> Routing]
         /\ worker' \in WorkerState
         /\ worker' = [Resting("plan") EXCEPT !.msg = m, !.copy = Claimed(m),
                                              !.trashed = "deleted" \in flags[m]]
  <1>1. route[m] \in Routing /\ route[m].attempts + 1 \in Nat
    BY DEF TypeInv, TypeOK, Routing
  <1>2. Claimed(m) \in Routing
    BY <1>1 DEF Claimed, Routing
  <1>3. route' \in [Msgs -> Routing]
    BY <1>2 DEF Claim, TypeInv, TypeOK
  <1>4. Resting("plan") \in WorkerState
    BY RestingType
  <1>5. ("deleted" \in flags[m]) \in BOOLEAN
    OBVIOUS
  <1>6. worker' \in WorkerState
    BY <1>2, <1>4, <1>5 DEF Claim, WorkerState
  <1> QED
    BY <1>2, <1>3, <1>6 DEF Claim

LEMMA WorkType == TypeInv /\ Work => TypeInv'
  <1> SUFFICES ASSUME TypeInv, Work PROVE TypeInv'
    OBVIOUS
  <1> USE DEF TypeInv
  <1>1. ASSUME NEW m \in Msgs, Claim(m) PROVE TypeInv'
    <2>1. /\ worker'.todo = {} /\ worker'.unsaved = {}
          /\ worker'.msg = m /\ worker'.pc = "plan"
      BY <1>1, ClaimType DEF Resting
    <2>2. TodoListed' /\ InHand'
      BY <2>1 DEF TodoListed, InHand
    <2> QED
      BY <1>1, ClaimType, <2>2 DEF Claim, TypeOK
  <1>2. CASE NothingDue
    BY <1>2, RestingInv DEF NothingDue, TypeOK
  <1>3. CASE ClaimFails
    <2>1. Resting("idle") \in WorkerState
      BY RestingType
    <2>2. worker' \in WorkerState /\ TodoListed' /\ InHand'
      BY <1>3, <2>1, MsgAssumption DEF ClaimFails, WorkerState, TodoListed, InHand, Resting
    <2> QED
      BY <1>3, <2>2, SpentType DEF ClaimFails, TypeOK
  <1>4. CASE LoadRules
    <2>1. worker' \in WorkerState /\ TodoListed' /\ InHand'
      BY <1>4, PlanType DEF LoadRules, TypeOK
    <2> QED
      BY <1>4, <2>1 DEF LoadRules, TypeOK
  <1>5. CASE LoadRulesFails
    <2>1. PICK read \in SUBSET {r \in RuleIds : rules[r] # NoRule} :
             PlanWith([r \in RuleIds |-> IF r \in read THEN rules[r] ELSE NoRule])
      BY <1>5 DEF LoadRulesFails
    <2>2. [r \in RuleIds |-> IF r \in read THEN rules[r] ELSE NoRule]
             \in [RuleIds -> Docs \cup {NoRule}]
      BY DEF TypeOK
    <2>3. worker' \in WorkerState /\ TodoListed' /\ InHand'
      BY <1>5, <2>1, <2>2, PlanType DEF LoadRulesFails
    <2> QED
      BY <1>5, <2>3, SpentType DEF LoadRulesFails, TypeOK
  <1>6. ASSUME NEW k \in Keys, SkipForImap(k) PROVE TypeInv'
    <2> DEFINE copy == [worker.copy EXCEPT
                          !.results[k] = [status |-> "done", type |-> Kind(k)]]
    <2>1. Kind(k) \in Kinds /\ worker.copy \in Routing
      BY <1>6, KindType DEF SkipForImap, Current, TodoListed, TypeOK, WorkerState
    <2>2. copy \in Routing
      BY <2>1, NotedType
    <2>3. worker' = [worker EXCEPT !.todo = @ \ {k}, !.copy = copy]
      BY <1>6 DEF SkipForImap, TypeOK, WorkerState
    <2>4. /\ worker' \in WorkerState
          /\ worker'.todo \subseteq worker.todo /\ worker'.docs = worker.docs
          /\ worker'.unsaved = worker.unsaved
          /\ worker'.pc = worker.pc /\ worker'.msg = worker.msg
      BY <2>2, <2>3 DEF TypeOK, WorkerState
    <2> QED
      BY <1>6, <2>4 DEF SkipForImap, TypeOK, TodoListed, InHand
  <1>7. ASSUME NEW k \in Keys, PushAccepted(k) PROVE TypeInv'
    <2>1. worker' \in WorkerState /\ TodoListed' /\ InHand'
      BY <1>7, RanType DEF PushAccepted
    <2>2. Msg \in Msgs
      BY <1>7 DEF PushAccepted, Runs, Current, InHand, Msg
    <2>3. sent' \in [Msgs -> [Keys -> Nat]]
      BY <1>7, <2>2, CountedType DEF PushAccepted, Requested, TypeOK
    <2> QED
      BY <1>7, <2>1, <2>3 DEF PushAccepted, TypeOK
  <1>8. ASSUME NEW k \in Keys, PushRefused(k) PROVE TypeInv'
    <2>1. worker' \in WorkerState /\ TodoListed' /\ InHand'
      BY <1>8, RanType DEF PushRefused
    <2> QED
      BY <1>8, <2>1 DEF PushRefused, TypeOK
  <1>9. ASSUME NEW k \in Keys, PushAnswerLost(k) PROVE TypeInv'
    <2>1. worker' \in WorkerState /\ TodoListed' /\ InHand'
      BY <1>9, RanType DEF PushAnswerLost
    <2>2. Msg \in Msgs
      BY <1>9 DEF PushAnswerLost, Runs, Current, InHand, Msg
    <2>3. /\ sent' \in [Msgs -> [Keys -> Nat]]
          /\ doubt' \in [Msgs -> [Keys -> Nat]]
      BY <1>9, <2>2, CountedType DEF PushAnswerLost, Requested, TypeOK
    <2>4. spent' \in Spending
      BY <1>9 DEF PushAnswerLost, TypeOK, Spending
    <2> QED
      BY <1>9, <2>1, <2>3, <2>4 DEF PushAnswerLost, TypeOK
  <1>10. ASSUME NEW k \in Keys, LocalDone(k) PROVE TypeInv'
    <2>1. worker' \in WorkerState /\ TodoListed' /\ InHand'
      BY <1>10, RanType DEF LocalDone
    <2>2. Kind(k) \in {"tag", "mark_read", "trash"}
      BY <1>10 DEF LocalDone, Local, Push, Notify, Kinds
    <2>3. FlagOf(Kind(k)) \in {"deleted", "seen", "tagged"}
      BY <2>2 DEF FlagOf
    <2>4. flags' \in [Msgs -> SUBSET {"deleted", "seen", "tagged"}]
      BY <1>10, <2>3 DEF LocalDone, TypeOK
    <2> QED
      BY <1>10, <2>1, <2>4 DEF LocalDone, TypeOK
  <1>11. ASSUME NEW k \in Keys, LocalFails(k) PROVE TypeInv'
    <2>1. worker' \in WorkerState /\ TodoListed' /\ InHand'
      BY <1>11, RanType DEF LocalFails
    <2> QED
      BY <1>11, <2>1, SpentType DEF LocalFails, TypeOK
  <1>12. CASE SaveResult
    <2>1. [worker.copy EXCEPT !.next = "later"] \in Routing
      BY DEF TypeOK, WorkerState, Routing
    <2>2. route' \in [Msgs -> Routing]
      BY <1>12, <2>1, SavedType DEF SaveResult
    <2>3. /\ worker' \in WorkerState /\ worker'.unsaved = {}
          /\ worker'.todo = worker.todo /\ worker'.docs = worker.docs
          /\ worker'.msg = worker.msg /\ worker'.pc = "act"
      BY <1>12 DEF SaveResult, TypeOK, WorkerState
    <2> QED
      BY <1>12, <2>2, <2>3 DEF SaveResult, TypeOK, TodoListed, InHand
  <1>13. CASE Finish
    <2>1. [worker.copy EXCEPT !.status = Outcome,
             !.next = IF Outcome = "retry" THEN "later" ELSE "none"] \in Routing
      BY DEF TypeOK, WorkerState, Routing, Outcome
    <2>2. route' \in [Msgs -> Routing]
      BY <1>13, <2>1, SavedType DEF Finish
    <2> QED
      BY <1>13, <2>2, RestingInv DEF Finish, TypeOK
  <1>14. CASE SaveFails
    BY <1>14, RestingInv, ForgottenType, SpentType DEF SaveFails, TypeOK
  <1> QED
    BY <1>1, <1>2, <1>3, <1>4, <1>5, <1>6, <1>7, <1>8, <1>9, <1>10, <1>11,
       <1>12, <1>13, <1>14 DEF Work

LEMMA EndsType ==
  ASSUME TypeOK, ProcessEnds
  PROVE  /\ worker' \in WorkerState /\ TodoListed' /\ InHand'
         /\ spent' \in Spending /\ wake' \in BOOLEAN /\ owed' \subseteq Msgs
  <1>1. worker' \in WorkerState /\ TodoListed' /\ InHand'
    BY RestingInv DEF ProcessEnds
  <1>2. spent' \in Spending
    BY DEF ProcessEnds, TypeOK, Spending
  <1>3. wake' \in BOOLEAN /\ owed' \subseteq Msgs
    BY DEF ProcessEnds
  <1> QED
    BY <1>1, <1>2, <1>3

LEMMA TypeStep == TypeInv /\ [Next]_vars => TypeInv'
  <1> SUFFICES ASSUME TypeInv, [Next]_vars PROVE TypeInv'
    OBVIOUS
  <1> USE DEF TypeInv
  <1>1. CASE Woken
    BY <1>1, RestingInv DEF Woken, TypeOK
  <1>2. CASE Poll
    BY <1>2, RestingInv DEF Poll, TypeOK
  <1>3. CASE Cleanup
    <2>1. worker' \in WorkerState /\ TodoListed' /\ InHand' /\ spent' \in Spending
      BY <1>3, RestingInv, SpentType DEF Cleanup, TypeOK
    <2>2. stored' \in [Msgs -> {"unborn", "stored", "gone"}]
      BY <1>3 DEF Cleanup, TypeOK
    <2> QED
      BY <1>3, <2>1, <2>2 DEF Cleanup, TypeOK
  <1>4. CASE Stop
    BY <1>4, EndsType DEF Stop, TypeOK
  <1>5. CASE Crash
    BY <1>5, EndsType, ForgottenType DEF Crash, TypeOK
  <1>6. CASE Start
    BY <1>6, RestingInv DEF Start, TypeOK
  <1>7. ASSUME NEW m \in Msgs, Elapse(m) PROVE TypeInv'
    <2>1. [route[m] EXCEPT !.next = "due"] \in Routing
      BY ZenonT(60), <1>7 DEF TypeOK, Routing
    <2>2. route' = [route EXCEPT ![m] = [route[m] EXCEPT !.next = "due"]]
      BY <1>7 DEF Elapse, TypeOK
    <2>3. route' \in [Msgs -> Routing]
      BY <2>1, <2>2 DEF TypeOK
    <2> QED
      BY <1>7, <2>3 DEF Elapse, TypeOK, TodoListed, InHand
  <1>8. CASE UNCHANGED vars
    <2>1. TypeOK'
      BY <1>8 DEF vars, TypeOK
    <2> QED
      BY <1>8, <2>1 DEF vars, TodoListed, InHand
  <1> QED
    BY <1>1, <1>2, <1>3, <1>4, <1>5, <1>6, <1>7, <1>8, PeopleType, WorkType DEF Next

LEMMA InitTypeInv == Init => TypeInv
  BY InitType, MsgAssumption DEF TypeInv, TodoListed, InHand, Init, Resting

\* The variables keep their types, and what the worker has in memory fits
\* together: its list names actions of the rules it holds.
THEOREM TypeCorrect == SafetySpec => []TypeInv
  BY InitTypeInv, TypeStep, PTL DEF SafetySpec

THEOREM StateTyped == SafetySpec => []TypeOK
  BY TypeCorrect, PTL DEF TypeInv

(***************************************************************************)
(* What each step does to the fields of the worker and of the rows.        *)
(***************************************************************************)
LEMMA RestingFields ==
  ASSUME NEW pc, worker' = Resting(pc)
  PROVE  /\ worker'.pc = pc /\ worker'.msg = NoMsg
         /\ worker'.unsaved = {} /\ worker'.todo = {} /\ ~worker'.failed
  BY DEF Resting

LEMMA ClaimFields ==
  ASSUME TypeInv, NEW m \in Msgs, Claim(m)
  PROVE  /\ worker'.pc = "plan" /\ worker'.msg = m
         /\ worker'.unsaved = {} /\ worker'.todo = {} /\ ~worker'.failed
         /\ worker'.copy.status = "running"
         /\ worker'.copy.attempts = route[m].attempts + 1
         /\ worker'.copy.results = route[m].results
         /\ worker'.copy.fixed = route[m].fixed
         /\ worker'.copy.matched = route[m].matched
         /\ worker'.copy.next = "later"
         /\ route'[m] = worker'.copy
         /\ \A n \in Msgs \ {m} : route'[n] = route[n]
  <1>1. worker' = [Resting("plan") EXCEPT !.msg = m, !.copy = Claimed(m),
                                          !.trashed = "deleted" \in flags[m]]
    BY ClaimType
  <1>2. /\ worker'.pc = "plan" /\ worker'.msg = m /\ worker'.copy = Claimed(m)
        /\ worker'.unsaved = {} /\ worker'.todo = {} /\ ~worker'.failed
    BY <1>1 DEF Resting
  <1>3. route[m] \in Routing
    BY DEF TypeInv, TypeOK
  <1>4. /\ Claimed(m).status = "running" /\ Claimed(m).attempts = route[m].attempts + 1
        /\ Claimed(m).results = route[m].results /\ Claimed(m).fixed = route[m].fixed
        /\ Claimed(m).matched = route[m].matched /\ Claimed(m).next = "later"
    BY <1>3 DEF Claimed, Routing
  <1>5. route' = [route EXCEPT ![m] = Claimed(m)]
    BY DEF Claim
  <1> QED
    BY <1>2, <1>4, <1>5 DEF TypeInv, TypeOK

LEMMA PlanFields ==
  ASSUME TypeInv, NEW table, PlanWith(table)
  PROVE  /\ worker'.pc = "act" /\ worker'.msg = worker.msg
         /\ worker'.docs = table
         /\ worker'.unsaved = worker.unsaved /\ worker'.failed = worker.failed
         /\ worker'.todo = Outstanding(table, MatchedIn(table))
         /\ worker'.copy.results = worker.copy.results
         /\ worker'.copy.status = worker.copy.status
         /\ worker'.copy.attempts = worker.copy.attempts
         /\ worker'.copy.fixed
         /\ worker'.copy.matched = MatchedIn(table)
  BY DEF PlanWith, TypeInv, TypeOK, WorkerState, Routing

\* Skipping an action and running it differ in what they note.
LEMMA SkipFields ==
  ASSUME TypeInv, NEW k \in Keys, SkipForImap(k)
  PROVE  /\ worker'.pc = "act" /\ worker.pc = "act" /\ worker'.msg = worker.msg
         /\ worker'.docs = worker.docs
         /\ worker'.unsaved = worker.unsaved /\ worker'.failed = worker.failed
         /\ k \in worker.todo /\ worker'.todo = worker.todo \ {k}
         /\ worker'.copy.results =
              [worker.copy.results EXCEPT ![k] = [status |-> "done", type |-> Kind(k)]]
         /\ worker'.copy.status = worker.copy.status
         /\ worker'.copy.attempts = worker.copy.attempts
         /\ worker'.copy.fixed = worker.copy.fixed
         /\ worker'.copy.matched = worker.copy.matched
  BY DEF SkipForImap, Current, TypeInv, TypeOK, WorkerState, Routing

LEMMA RanFields ==
  ASSUME TypeInv, NEW k \in Keys, NEW status \in {"done", "error"},
         Runs(k), Ran(k, status)
  PROVE  /\ worker'.pc = "save" /\ worker.pc = "act"
         /\ worker'.msg = worker.msg /\ worker.msg \in Msgs
         /\ worker.unsaved = {}
         /\ worker'.docs = worker.docs
         /\ worker'.unsaved = IF status = "done" /\ Kind(k) \in Push THEN {k} ELSE {}
         /\ worker'.failed <=> worker.failed \/ status = "error"
         /\ k \in worker.todo /\ worker'.todo = worker.todo \ {k}
         /\ worker'.copy.results =
              [worker.copy.results EXCEPT ![k] = [status |-> status, type |-> Kind(k)]]
         /\ worker'.copy.status = worker.copy.status
         /\ worker'.copy.attempts = worker.copy.attempts
         /\ worker'.copy.fixed = worker.copy.fixed
         /\ worker'.copy.matched = worker.copy.matched
  <1>1. worker.pc = "act" /\ k \in worker.todo
    BY DEF Runs, Current
  <1>2. worker.msg \in Msgs /\ worker.unsaved = {}
    BY <1>1 DEF TypeInv, InHand
  <1>3. worker'.failed = (worker.failed \/ status = "error")
    BY DEF Ran, TypeInv, TypeOK, WorkerState
  <1>4. worker'.copy = [worker.copy EXCEPT
                          !.results[k] = [status |-> status, type |-> Kind(k)]]
    BY DEF Ran, TypeInv, TypeOK, WorkerState
  <1>5. worker.copy \in Routing
    BY DEF TypeInv, TypeOK, WorkerState
  <1>6. /\ worker'.copy.results =
              [worker.copy.results EXCEPT ![k] = [status |-> status, type |-> Kind(k)]]
        /\ worker'.copy.status = worker.copy.status
        /\ worker'.copy.attempts = worker.copy.attempts
        /\ worker'.copy.fixed = worker.copy.fixed
        /\ worker'.copy.matched = worker.copy.matched
    BY <1>4, <1>5 DEF Routing
  <1>7. /\ worker'.pc = "save" /\ worker'.msg = worker.msg
        /\ worker'.docs = worker.docs
        /\ worker'.unsaved = IF status = "done" /\ Kind(k) \in Push THEN {k} ELSE {}
        /\ worker'.todo = worker.todo \ {k}
    BY DEF Ran, TypeInv, TypeOK, WorkerState
  <1> QED
    BY <1>1, <1>2, <1>3, <1>6, <1>7

LEMMA SaveFields ==
  ASSUME TypeInv, SaveResult
  PROVE  /\ worker'.pc = "act" /\ worker'.msg = worker.msg /\ worker.msg \in Msgs
         /\ worker'.docs = worker.docs /\ worker'.copy = worker.copy
         /\ worker'.unsaved = {} /\ worker'.failed = worker.failed
         /\ worker'.todo = worker.todo
         /\ \A m \in Msgs : route'[m] =
              IF m = worker.msg /\ stored[m] = "stored"
              THEN [worker.copy EXCEPT !.next = "later"] ELSE route[m]
  <1>1. worker.pc = "save" /\ worker.msg \in Msgs
    BY DEF SaveResult, TypeInv, InHand
  <1>2. \A m \in Msgs : route'[m] =
              IF m = worker.msg /\ stored[m] = "stored"
              THEN [worker.copy EXCEPT !.next = "later"] ELSE route[m]
    BY <1>1 DEF SaveResult, SaveRouting, Msg, TypeInv, TypeOK
  <1> QED
    BY <1>1, <1>2 DEF SaveResult, TypeInv, TypeOK, WorkerState

LEMMA FinishFields ==
  ASSUME TypeInv, Finish
  PROVE  /\ worker.pc = "act" /\ worker.todo = {} /\ worker.msg \in Msgs
         /\ worker.unsaved = {}
         /\ worker'.pc = "claim" /\ worker'.msg = NoMsg /\ worker'.unsaved = {}
         /\ worker'.todo = {} /\ ~worker'.failed
         /\ \A m \in Msgs : route'[m] =
              IF m = worker.msg /\ stored[m] = "stored"
              THEN [worker.copy EXCEPT !.status = Outcome,
                      !.next = IF Outcome = "retry" THEN "later" ELSE "none"]
              ELSE route[m]
  <1>1. worker.pc = "act" /\ worker.todo = {} /\ worker.msg \in Msgs
        /\ worker.unsaved = {}
    BY DEF Finish, TypeInv, InHand
  <1>2. \A m \in Msgs : route'[m] =
              IF m = worker.msg /\ stored[m] = "stored"
              THEN [worker.copy EXCEPT !.status = Outcome,
                      !.next = IF Outcome = "retry" THEN "later" ELSE "none"]
              ELSE route[m]
    BY <1>1 DEF Finish, SaveRouting, Msg, TypeInv, TypeOK
  <1> QED
    BY <1>1, <1>2, RestingFields DEF Finish

(***************************************************************************)
(* The steps, sorted by what they do to the worker and the rows.           *)
(***************************************************************************)
KeepsTag(m) == "tagged" \in flags[m] => "tagged" \in flags'[m]

RowLife ==
  \A m \in Msgs : \/ stored'[m] = stored[m] /\ KeepsTag(m)
                  \/ stored[m] = "unborn" /\ stored'[m] = "stored"
                  \/ stored[m] = "stored" /\ stored'[m] = "gone" /\ KeepsTag(m)

\* An edit or an error of the database never goes uncounted.
TableKept ==
  /\ CutShort' >= CutShort
  /\ spent'.edits = 0 /\ spent'.dbErrors = 0 =>
       spent.edits = 0 /\ spent.dbErrors = 0 /\ rules' = rules

Around == RowLife /\ TableKept

\* People at work: the worker and its counts stand still.
Quiet == UNCHANGED <<worker, route, sent, doubt>> /\ Around

\* The worker gives up what it holds, at a price if it held something.
LetsGo == /\ worker'.msg = NoMsg /\ worker'.unsaved = {}
          /\ worker'.pc \in {"down", "idle", "claim"}
          /\ UNCHANGED <<route, sent>> /\ Forgotten /\ Around
          /\ worker.msg \in Msgs => CutShort' > CutShort

Plans(table) ==
  /\ worker.pc = "plan" /\ PlanWith(table)
  /\ table \in [RuleIds -> Docs \cup {NoRule}]
  /\ UNCHANGED <<route, sent, doubt, stored>> /\ Around
  /\ spent'.dbErrors = 0 => table = rules

RunsOne(k, status) ==
  /\ Runs(k) /\ Ran(k, status)
  /\ UNCHANGED <<route, stored>> /\ Around
  /\ \/ UNCHANGED <<sent, doubt>> /\ (status = "done" => Kind(k) \notin Push)
     \/ Requested(k) /\ UNCHANGED doubt /\ status = "done" /\ Kind(k) \in Push
     \/ Requested(k) /\ doubt' = [doubt EXCEPT ![Msg][k] = @ + 1] /\ status = "error"
  /\ status = "done" /\ Kind(k) = "tag" => "tagged" \in flags'[Msg]

LEMMA CutShortType ==
  TypeInv => CutShort \in Nat /\ spent.edits \in Nat /\ spent.dbErrors \in Nat
  BY DEF TypeInv, TypeOK, Spending, CutShort

LEMMA DbFailsCount ==
  ASSUME TypeInv, DbFails
  PROVE  CutShort' = CutShort + 1 /\ spent'.dbErrors # 0
  <1>1. spent' = [spent EXCEPT !.dbErrors = @ + 1] /\ spent \in Spending
    BY DEF TypeInv, TypeOK, DbFails
  <1>2. spent'.dbErrors = spent.dbErrors + 1 /\ spent'.crashes = spent.crashes
    BY <1>1 DEF Spending
  <1> QED
    BY <1>1, <1>2 DEF Spending, CutShort

LEMMA EndsCount ==
  ASSUME TypeInv, ProcessEnds
  PROVE  /\ CutShort' = CutShort + 1
         /\ spent'.dbErrors = spent.dbErrors /\ spent'.edits = spent.edits
  <1>1. spent' = [spent EXCEPT !.crashes = @ + 1] /\ spent \in Spending
    BY DEF TypeInv, TypeOK, ProcessEnds
  <1> QED
    BY <1>1 DEF Spending, CutShort

LEMMA MovesCount ==
  ASSUME TypeInv, Moves
  PROVE  /\ CutShort' = CutShort
         /\ spent'.dbErrors = spent.dbErrors /\ spent'.edits = spent.edits
  BY DEF TypeInv, TypeOK, Spending, CutShort, Moves

LEMMA PeopleSort == TypeInv /\ People => Quiet
  <1> SUFFICES ASSUME TypeInv, People PROVE Quiet
    OBVIOUS
  <1> USE CutShortType DEF TypeInv, TypeOK
  <1>1. ASSUME NEW m \in Msgs, Store(m) PROVE Quiet
    BY <1>1 DEF Store, Quiet, Around, RowLife, TableKept, KeepsTag, CutShort
  <1>2. ASSUME NEW m \in Msgs, NotifyWorker(m) PROVE Quiet
    BY <1>2 DEF NotifyWorker, Quiet, Around, RowLife, TableKept, KeepsTag, CutShort
  <1>3. ASSUME NEW m \in Msgs, Trash(m) PROVE Quiet
    BY <1>3, MovesCount DEF Trash, Quiet, Around, RowLife, TableKept, KeepsTag
  <1>4. ASSUME NEW m \in Msgs, Restore(m) PROVE Quiet
    BY <1>4, MovesCount DEF Restore, Quiet, Around, RowLife, TableKept, KeepsTag
  <1>5. ASSUME NEW m \in Msgs, Purge(m) PROVE Quiet
    BY <1>5, MovesCount DEF Purge, IsMessage, Quiet, Around, RowLife, TableKept, KeepsTag
  <1>6. ASSUME NEW r \in RuleIds, NEW d \in Docs, PutRule(r, d) PROVE Quiet
    <2>1. /\ UNCHANGED <<stored, flags, route, owed, wake, worker, sent, doubt>>
          /\ spent' = [spent EXCEPT !.edits = @ + 1]
      BY <1>6 DEF PutRule
    <2>2. spent'.edits # 0 /\ CutShort' = CutShort
      BY <2>1 DEF CutShort, Spending
    <2> QED
      BY <2>1, <2>2 DEF Quiet, Around, RowLife, TableKept, KeepsTag
  <1>7. ASSUME NEW r \in RuleIds, DeleteRule(r) PROVE Quiet
    <2>1. /\ UNCHANGED <<stored, flags, route, owed, wake, worker, sent, doubt>>
          /\ spent' = [spent EXCEPT !.edits = @ + 1]
      BY <1>7 DEF DeleteRule
    <2>2. spent'.edits # 0 /\ CutShort' = CutShort
      BY <2>1 DEF CutShort, Spending
    <2> QED
      BY <2>1, <2>2 DEF Quiet, Around, RowLife, TableKept, KeepsTag
  <1> QED
    BY <1>1, <1>2, <1>3, <1>4, <1>5, <1>6, <1>7 DEF People

LEMMA StandingStill ==
  ASSUME TypeInv, UNCHANGED <<stored, flags, rules, spent>>
  PROVE  Around
  BY CutShortType DEF Around, RowLife, TableKept, KeepsTag, CutShort

LEMMA NothingHeld ==
  ASSUME TypeInv, worker.pc \in {"down", "idle", "claim"}
  PROVE  worker.msg \notin Msgs /\ worker.unsaved = {}
  BY DEF TypeInv, InHand

LEMMA LetGoSort ==
  ASSUME TypeInv,
         \/ NothingDue \/ ClaimFails \/ SaveFails
         \/ Woken \/ Poll \/ Cleanup \/ Stop \/ Crash \/ Start
  PROVE  LetsGo
  <1> USE DEF LetsGo
  <1>1. CASE NothingDue \/ Woken \/ Poll \/ Start
    <2>1. Around
      BY <1>1, StandingStill DEF NothingDue, Woken, Poll, Start
    <2> QED
      BY <1>1, <2>1, NothingHeld, RestingFields
         DEF NothingDue, Woken, Poll, Start, Forgotten
  <1>2. CASE ClaimFails
    <2>1. Around
      BY <1>2, DbFailsCount, CutShortType
         DEF ClaimFails, Around, RowLife, TableKept, KeepsTag
    <2>2. worker'.msg = NoMsg /\ worker'.unsaved = {} /\ worker'.pc = "idle"
      BY <1>2 DEF ClaimFails, Resting
    <2> QED
      BY <1>2, <2>1, <2>2, NothingHeld DEF ClaimFails, Forgotten
  <1>3. CASE SaveFails
    <2>1. Around /\ CutShort' > CutShort
      BY <1>3, DbFailsCount, CutShortType
         DEF SaveFails, Around, RowLife, TableKept, KeepsTag
    <2> QED
      BY <1>3, <2>1, RestingFields DEF SaveFails
  <1>4. CASE Cleanup
    <2>1. \A m \in Msgs : stored'[m] = stored[m] \/ (stored[m] = "stored" /\ stored'[m] = "gone")
      BY <1>4 DEF Cleanup
    <2>2. Around
      BY <1>4, <2>1, MovesCount, CutShortType
         DEF Cleanup, Around, RowLife, TableKept, KeepsTag
    <2> QED
      BY <1>4, <2>2, NothingHeld, RestingFields DEF Cleanup, Forgotten
  <1>5. CASE Stop
    <2>1. Around
      BY <1>5, EndsCount, CutShortType DEF Stop, Around, RowLife, TableKept, KeepsTag
    <2> QED
      BY <1>5, <2>1, NothingHeld, RestingFields DEF Stop, ProcessEnds, Forgotten
  <1>6. CASE Crash
    <2>1. Around /\ CutShort' > CutShort
      BY <1>6, EndsCount, CutShortType DEF Crash, Around, RowLife, TableKept, KeepsTag
    <2> QED
      BY <1>6, <2>1, RestingFields DEF Crash, ProcessEnds
  <1> QED
    BY <1>1, <1>2, <1>3, <1>4, <1>5, <1>6

LEMMA PlanSort ==
  ASSUME TypeInv, LoadRules \/ LoadRulesFails
  PROVE  \E table : Plans(table)
  <1>1. CASE LoadRules
    <2>1. Around /\ rules \in [RuleIds -> Docs \cup {NoRule}]
      BY <1>1, StandingStill DEF LoadRules, TypeInv, TypeOK
    <2> QED
      BY <1>1, <2>1 DEF LoadRules, Plans
  <1>2. CASE LoadRulesFails
    <2>1. PICK read \in SUBSET {r \in RuleIds : rules[r] # NoRule} :
             PlanWith([r \in RuleIds |-> IF r \in read THEN rules[r] ELSE NoRule])
      BY <1>2 DEF LoadRulesFails
    <2>2. [r \in RuleIds |-> IF r \in read THEN rules[r] ELSE NoRule]
             \in [RuleIds -> Docs \cup {NoRule}]
      BY DEF TypeInv, TypeOK
    <2>3. Around /\ spent'.dbErrors # 0
      BY <1>2, DbFailsCount, CutShortType
         DEF LoadRulesFails, Around, RowLife, TableKept, KeepsTag
    <2> QED
      BY <1>2, <2>1, <2>2, <2>3 DEF LoadRulesFails, Plans
  <1> QED
    BY <1>1, <1>2

LEMMA RunSort ==
  ASSUME TypeInv, NEW k \in Keys,
         \/ PushAccepted(k) \/ PushRefused(k) \/ PushAnswerLost(k)
         \/ LocalDone(k) \/ LocalFails(k)
  PROVE  \E status \in {"done", "error"} : RunsOne(k, status)
  <1>1. CASE PushAccepted(k)
    <2>1. Around
      BY <1>1, StandingStill DEF PushAccepted
    <2>2. Kind(k) # "tag"
      BY <1>1 DEF PushAccepted, Push, Notify
    <2> QED
      BY <1>1, <2>1, <2>2 DEF PushAccepted, RunsOne
  <1>2. CASE PushRefused(k)
    <2>1. Around
      BY <1>2, StandingStill DEF PushRefused
    <2>2. RunsOne(k, "error")
      BY <1>2, <2>1 DEF PushRefused, RunsOne
    <2> QED
      BY <2>2
  <1>3. CASE PushAnswerLost(k)
    <2>1. /\ spent'.dbErrors = spent.dbErrors /\ spent'.crashes = spent.crashes
          /\ spent'.edits = spent.edits
      BY <1>3 DEF PushAnswerLost, TypeInv, TypeOK, Spending
    <2>2. Around
      BY <1>3, <2>1, CutShortType
         DEF PushAnswerLost, Around, RowLife, TableKept, KeepsTag, CutShort
    <2>3. RunsOne(k, "error")
      BY <1>3, <2>2 DEF PushAnswerLost, RunsOne
    <2> QED
      BY <2>3
  <1>4. CASE LocalDone(k)
    <2>1. Msg \in Msgs /\ Kind(k) \notin Push
      BY <1>4 DEF LocalDone, Runs, Current, TypeInv, InHand, Msg, Local
    <2>2. \A m \in Msgs : flags[m] \subseteq flags'[m]
      BY <1>4, <2>1 DEF LocalDone, TypeInv, TypeOK
    <2>3. Around
      BY <1>4, <2>2, CutShortType
         DEF LocalDone, Around, RowLife, TableKept, KeepsTag, CutShort
    <2>4. Kind(k) = "tag" => "tagged" \in flags'[Msg]
      BY <1>4, <2>1 DEF LocalDone, FlagOf, TypeInv, TypeOK
    <2>5. RunsOne(k, "done")
      BY <1>4, <2>1, <2>3, <2>4 DEF LocalDone, RunsOne
    <2> QED
      BY <2>5
  <1>5. CASE LocalFails(k)
    <2>1. /\ CutShort' >= CutShort
          /\ spent'.dbErrors = 0 => UNCHANGED spent
      BY <1>5, DbFailsCount, CutShortType DEF LocalFails, CutShort
    <2>2. Around
      BY <1>5, <2>1 DEF LocalFails, Around, RowLife, TableKept, KeepsTag
    <2>3. RunsOne(k, "error")
      BY <1>5, <2>2 DEF LocalFails, RunsOne
    <2> QED
      BY <2>3
  <1> QED
    BY <1>1, <1>2, <1>3, <1>4, <1>5

StandsStill == UNCHANGED <<stored, sent, doubt>> /\ Around

\* Every step of the specification is one of nine.
LEMMA StepSort ==
  ASSUME TypeInv, [Next]_vars
  PROVE  \/ Quiet
         \/ LetsGo
         \/ \E m \in Msgs : Elapse(m) /\ StandsStill
         \/ \E m \in Msgs : Claim(m) /\ StandsStill
         \/ \E table : Plans(table)
         \/ \E k \in Keys : SkipForImap(k) /\ UNCHANGED route /\ StandsStill
         \/ \E k \in Keys, status \in {"done", "error"} : RunsOne(k, status)
         \/ SaveResult /\ StandsStill
         \/ Finish /\ StandsStill
  <1> USE DEF StandsStill
  <1>1. CASE UNCHANGED vars
    BY <1>1, StandingStill DEF vars, Quiet
  <1>2. CASE People
    BY <1>2, PeopleSort
  <1>3. ASSUME NEW m \in Msgs, Elapse(m) PROVE Elapse(m) /\ StandsStill
    BY <1>3, StandingStill DEF Elapse
  <1>4. ASSUME NEW m \in Msgs, Claim(m) PROVE Claim(m) /\ StandsStill
    BY <1>4, StandingStill DEF Claim
  <1>5. ASSUME NEW k \in Keys, SkipForImap(k)
        PROVE  SkipForImap(k) /\ UNCHANGED route /\ StandsStill
    BY <1>5, StandingStill DEF SkipForImap
  <1>6. CASE SaveResult
    BY <1>6, StandingStill DEF SaveResult
  <1>7. CASE Finish
    BY <1>7, StandingStill DEF Finish
  <1>8. CASE Work
    BY <1>4, <1>5, <1>6, <1>7, <1>8, PlanSort, RunSort, LetGoSort DEF Work
  <1> QED
    BY <1>1, <1>2, <1>3, <1>8, LetGoSort DEF Next

(***************************************************************************)
(* The copy and the row                                                    *)
(***************************************************************************)
LEMMA DoneKeysOf ==
  ASSUME NEW m \in Msgs
  PROVE  \A k \in Keys : k \in DoneKeys(m) <=> route[m].results[k].status = "done"
  BY DEF DoneKeys

LEMMA DoneKeysKept ==
  ASSUME NEW m \in Msgs, route'[m].results = route[m].results
  PROVE  DoneKeys(m)' = DoneKeys(m)
  BY DEF DoneKeys

LEMMA ElapseFields ==
  ASSUME TypeInv, NEW m \in Msgs, Elapse(m)
  PROVE  /\ worker' = worker /\ route[m].next = "later" /\ route'[m].next = "due"
         /\ \A n \in Msgs : /\ route'[n].status = route[n].status
                            /\ route'[n].attempts = route[n].attempts
                            /\ route'[n].results = route[n].results
                            /\ route'[n].fixed = route[n].fixed
                            /\ route'[n].matched = route[n].matched
                            /\ n # m => route'[n] = route[n]
  BY DEF Elapse, TypeInv, TypeOK, Routing

\* A note in the copy changes one result and leaves the others.
LEMMA NoteFields ==
  ASSUME TypeInv, NEW k \in Keys, NEW status \in {"done", "error"},
         worker'.copy.results =
           [worker.copy.results EXCEPT ![k] = [status |-> status, type |-> Kind(k)]]
  PROVE  /\ worker'.copy.results[k] = [status |-> status, type |-> Kind(k)]
         /\ \A j \in Keys \ {k} : worker'.copy.results[j] = worker.copy.results[j]
         /\ \A j \in Keys : InCopy(j)' <=> IF j = k THEN status = "done" ELSE InCopy(j)
  <1>1. worker.copy.results \in [Keys -> Result]
    BY DEF TypeInv, TypeOK, WorkerState, Routing
  <1> QED
    BY <1>1 DEF InCopy

LEMMA CopyAheadStep ==
  ASSUME TypeInv, TypeInv', CopyAhead, [Next]_vars
  PROVE  CopyAhead'
  <1> DEFINE Ahead(m) == Held(m) =>
        /\ stored[m] # "unborn"
        /\ stored[m] = "stored" => route[m].status = "running"
        /\ worker.copy.status = "running"
        /\ worker.copy.attempts = route[m].attempts
        /\ \A k \in DoneKeys(m) : InCopy(k)
        /\ \A k \in worker.todo : ~InCopy(k)
        /\ worker.pc # "plan" => worker.copy.fixed
        /\ route[m].fixed => /\ worker.copy.fixed
                             /\ worker.copy.matched \subseteq route[m].matched
  <1> SUFFICES ASSUME NEW m \in Msgs, worker'.msg = m PROVE Ahead(m)'
    BY DEF CopyAhead, Held
  <1>0. Held(m) => Ahead(m)
    BY DEF CopyAhead
  <1> USE DEF Held
  <1>1. CASE Quiet
    BY <1>0, <1>1 DEF Quiet, Around, RowLife, DoneKeys, InCopy
  <1>2. CASE LetsGo
    BY <1>2, MsgAssumption DEF LetsGo
  <1>3. ASSUME NEW n \in Msgs, Elapse(n) /\ StandsStill PROVE Ahead(m)'
    <2>1. DoneKeys(m)' = DoneKeys(m)
      BY <1>3, ElapseFields, DoneKeysKept
    <2> QED
      BY <1>0, <1>3, <2>1, ElapseFields DEF StandsStill, InCopy
  <1>4. ASSUME NEW n \in Msgs, Claim(n) /\ StandsStill PROVE Ahead(m)'
    <2>1. m = n
      BY <1>4, ClaimFields
    <2>2. \A k \in DoneKeys(m)' : InCopy(k)'
      BY <1>4, <2>1, ClaimFields DEF DoneKeys, InCopy
    <2>3. stored'[m] = "stored"
      BY <1>4, <2>1 DEF Claim, Claimable, Turn, Queue, Eligible
    <2> QED
      BY <1>4, <2>1, <2>2, <2>3, ClaimFields
  <1>5. ASSUME NEW table, Plans(table) PROVE Ahead(m)'
    <2>1. Held(m)
      BY <1>5, PlanFields DEF Plans
    <2>2. \A k \in worker'.todo : ~InCopy(k)'
      BY <1>5, PlanFields DEF Plans, Outstanding, InCopy
    <2>3. DoneKeys(m)' = DoneKeys(m)
      BY <1>5 DEF Plans, DoneKeys
    <2>4. \A k : InCopy(k)' <=> InCopy(k)
      BY <1>5, PlanFields DEF Plans, InCopy
    <2>5. worker.copy.fixed => MatchedIn(table) \subseteq worker.copy.matched
      BY DEF MatchedIn
    <2> QED
      BY <1>0, <1>5, <2>1, <2>2, <2>3, <2>4, <2>5, PlanFields DEF Plans
  <1>6. ASSUME NEW k \in Keys, SkipForImap(k), UNCHANGED route, StandsStill
        PROVE  Ahead(m)'
    <2>1. Held(m)
      BY <1>6, SkipFields
    <2>2. DoneKeys(m)' = DoneKeys(m)
      BY <1>6 DEF DoneKeys
    <2>3. DoneKeys(m) \subseteq Keys /\ worker.todo \subseteq Keys
      BY DEF DoneKeys, TypeInv, TypeOK, WorkerState
    <2>4. \A j \in Keys : InCopy(j)' <=> IF j = k THEN TRUE ELSE InCopy(j)
      BY <1>6, SkipFields, NoteFields
    <2> QED
      BY <1>0, <1>6, <2>1, <2>2, <2>3, <2>4, SkipFields DEF StandsStill
  <1>7. ASSUME NEW k \in Keys, NEW status \in {"done", "error"}, RunsOne(k, status)
        PROVE  Ahead(m)'
    <2>1. Held(m)
      BY <1>7, RanFields DEF RunsOne
    <2>2. DoneKeys(m)' = DoneKeys(m)
      BY <1>7 DEF DoneKeys, RunsOne
    <2>3. DoneKeys(m) \subseteq Keys /\ worker.todo \subseteq Keys
      BY DEF DoneKeys, TypeInv, TypeOK, WorkerState
    <2>4. \A j \in Keys : InCopy(j)' <=> IF j = k THEN status = "done" ELSE InCopy(j)
      BY ZenonT(60), <1>7, RanFields, NoteFields DEF RunsOne
    <2>5. k \notin DoneKeys(m)
      BY <1>0, <1>7, <2>1, RanFields DEF RunsOne
    <2> QED
      BY <1>0, <1>7, <2>1, <2>2, <2>3, <2>4, <2>5, RanFields DEF RunsOne
  <1>8. CASE SaveResult /\ StandsStill
    <2>1. Held(m) /\ worker.copy \in Routing
      BY <1>8, SaveFields DEF TypeInv, TypeOK, WorkerState
    <2>2. worker'.copy = worker.copy /\ worker'.todo = worker.todo /\ stored' = stored
      BY <1>8, SaveFields DEF StandsStill
    <2>3. CASE stored[m] = "stored"
      <3>1. /\ route'[m].status = worker.copy.status
            /\ route'[m].attempts = worker.copy.attempts
            /\ route'[m].results = worker.copy.results
            /\ route'[m].fixed = worker.copy.fixed
            /\ route'[m].matched = worker.copy.matched
        BY <1>8, <2>1, <2>3, SaveFields DEF Routing
      <3>2. \A k \in DoneKeys(m)' : InCopy(k)'
        BY <2>2, <3>1 DEF DoneKeys, InCopy
      <3> QED
        BY <1>0, <1>8, <2>1, <2>2, <3>1, <3>2 DEF InCopy, SaveResult
    <2>4. CASE stored[m] # "stored"
      <3>1. route'[m] = route[m]
        BY <1>8, <2>4, SaveFields
      <3>2. DoneKeys(m)' = DoneKeys(m)
        BY <3>1, DoneKeysKept
      <3> QED
        BY <1>0, <1>8, <2>1, <2>2, <3>1, <3>2 DEF InCopy, SaveResult
    <2> QED
      BY <2>3, <2>4
  <1>9. CASE Finish /\ StandsStill
    BY <1>9, FinishFields, MsgAssumption
  <1> QED
    BY <1>1, <1>2, <1>3, <1>4, <1>5, <1>6, <1>7, <1>8, <1>9, StepSort

\* What a save or the end of a message leaves in the rows.
LEMMA SavedRows ==
  ASSUME TypeInv, SaveResult \/ Finish
  PROVE  /\ worker.msg \in Msgs
         /\ \A m \in Msgs : m # worker.msg \/ stored[m] # "stored" => route'[m] = route[m]
         /\ stored[worker.msg] = "stored" =>
              /\ route'[worker.msg].results = worker.copy.results
              /\ route'[worker.msg].attempts = worker.copy.attempts
              /\ route'[worker.msg].fixed = worker.copy.fixed
              /\ route'[worker.msg].matched = worker.copy.matched
              /\ SaveResult => /\ route'[worker.msg].status = worker.copy.status
                               /\ route'[worker.msg].next = "later"
              /\ Finish => /\ route'[worker.msg].status = Outcome
                           /\ route'[worker.msg].next =
                                IF Outcome = "retry" THEN "later" ELSE "none"
  <1>1. worker.copy \in Routing
    BY DEF TypeInv, TypeOK, WorkerState
  <1>2. CASE SaveResult
    <2>1. ~Finish
      BY <1>2 DEF SaveResult, Finish
    <2> QED
      BY <1>1, <1>2, <2>1, SaveFields DEF Routing
  <1>3. CASE Finish
    <2>1. ~SaveResult
      BY <1>3 DEF SaveResult, Finish
    <2> QED
      BY ZenonT(60), <1>1, <1>3, <2>1, FinishFields DEF Routing
  <1> QED
    BY <1>2, <1>3

LEMMA BornFreshStep ==
  ASSUME TypeInv, BornFresh, [Next]_vars
  PROVE  BornFresh'
  <1> SUFFICES ASSUME NEW m \in Msgs, stored'[m] = "unborn" PROVE route'[m] = Fresh
    BY DEF BornFresh
  <1>1. stored[m] = "unborn"
    BY StepSort DEF Quiet, LetsGo, StandsStill, Plans, RunsOne, Around, RowLife,
                    TypeInv, TypeOK
  <1>2. route[m] = Fresh
    BY <1>1 DEF BornFresh
  <1>3. ASSUME NEW n \in Msgs, Elapse(n) \/ Claim(n) PROVE route'[m] = route[m]
    BY <1>1, <1>3 DEF Elapse, Claim, Claimable, Turn, Queue, Eligible, TypeInv, TypeOK
  <1>4. CASE SaveResult \/ Finish
    BY <1>1, <1>2, <1>4, SavedRows
  <1> QED
    BY <1>2, <1>3, <1>4, StepSort DEF Quiet, LetsGo, Plans, RunsOne

(***************************************************************************)
(* The requests and the records                                            *)
(***************************************************************************)
LEMMA RequestedCount ==
  ASSUME TypeInv, NEW k \in Keys, Requested(k), worker.msg \in Msgs
  PROVE  /\ sent'[worker.msg][k] = sent[worker.msg][k] + 1
         /\ \A m \in Msgs, j \in Keys :
              m # worker.msg \/ j # k => sent'[m][j] = sent[m][j]
  BY DEF TypeInv, TypeOK, Requested, Msg

LEMMA DoubtCount ==
  ASSUME TypeInv, NEW k \in Keys, worker.msg \in Msgs,
         doubt' = [doubt EXCEPT ![Msg][k] = @ + 1]
  PROVE  /\ doubt'[worker.msg][k] = doubt[worker.msg][k] + 1
         /\ \A m \in Msgs, j \in Keys :
              m # worker.msg \/ j # k => doubt'[m][j] = doubt[m][j]
  BY DEF TypeInv, TypeOK, Msg

LEMMA RequestsCountedStep ==
  ASSUME TypeInv, CopyAhead, RequestsCounted, [Next]_vars
  PROVE  RequestsCounted'
  <1> DEFINE Counted(m, k) ==
        /\ sent[m][k] <= 1 + doubt[m][k]
        /\ stored[m] = "unborn" => k \notin DoneKeys(m) /\ Unanswered(m, k)
        /\ Held(m) /\ ~InCopy(k) => Unanswered(m, k)
        /\ stored[m] = "stored" /\ k \notin DoneKeys(m)
             => Unanswered(m, k) \/ (Held(m) /\ k \in worker.unsaved)
  <1> SUFFICES ASSUME NEW m \in Msgs, NEW k \in Keys PROVE Counted(m, k)'
    BY DEF RequestsCounted
  <1>0. Counted(m, k) /\ sent[m][k] \in Nat /\ doubt[m][k] \in Nat
    BY DEF RequestsCounted, TypeInv, TypeOK
  <1> USE DEF Held, Unanswered
  <1>1. CASE Quiet
    <2>1. DoneKeys(m)' = DoneKeys(m) /\ (InCopy(k)' <=> InCopy(k))
      BY <1>1 DEF Quiet, DoneKeys, InCopy
    <2> QED
      BY <1>0, <1>1, <2>1 DEF Quiet, Around, RowLife
  <1>2. CASE LetsGo
    <2>1. DoneKeys(m)' = DoneKeys(m) /\ ~Held(m)' /\ sent' = sent
      BY <1>2, MsgAssumption DEF LetsGo, DoneKeys
    <2>2. doubt'[m][k] = IF m = worker.msg /\ k \in worker.unsaved
                         THEN doubt[m][k] + 1 ELSE doubt[m][k]
      BY <1>2, ForgottenType DEF LetsGo, Msg
    <2> QED
      BY <1>0, <1>2, <2>1, <2>2 DEF LetsGo, Around, RowLife
  <1>3. ASSUME NEW n \in Msgs, Elapse(n), StandsStill PROVE Counted(m, k)'
    <2>1. DoneKeys(m)' = DoneKeys(m) /\ (InCopy(k)' <=> InCopy(k))
      BY <1>3, ElapseFields, DoneKeysKept DEF InCopy
    <2> QED
      BY <1>0, <1>3, <2>1, ElapseFields DEF StandsStill
  <1>4. ASSUME NEW n \in Msgs, Claim(n), StandsStill PROVE Counted(m, k)'
    <2>1. /\ stored[n] = "stored" /\ worker.pc = "claim"
          /\ ~Held(m)
      BY <1>4, NothingHeld DEF Claim, Claimable, Turn, Queue, Eligible
    <2>2. DoneKeys(m)' = DoneKeys(m)
      BY <1>4, ClaimFields, DoneKeysKept
    <2>3. Held(m)' => m = n /\ (InCopy(k)' <=> k \in DoneKeys(m))
      BY <1>4, ClaimFields DEF InCopy, DoneKeys
    <2> QED
      BY <1>0, <1>4, <2>1, <2>2, <2>3 DEF StandsStill
  <1>5. ASSUME NEW table, Plans(table) PROVE Counted(m, k)'
    <2>1. DoneKeys(m)' = DoneKeys(m) /\ (InCopy(k)' <=> InCopy(k))
      BY <1>5, PlanFields DEF Plans, DoneKeys, InCopy
    <2> QED
      BY <1>0, <1>5, <2>1, PlanFields DEF Plans
  <1>6. ASSUME NEW j \in Keys, SkipForImap(j), UNCHANGED route, StandsStill
        PROVE  Counted(m, k)'
    <2>1. DoneKeys(m)' = DoneKeys(m)
      BY <1>6 DEF DoneKeys
    <2>2. InCopy(k)' <=> IF k = j THEN TRUE ELSE InCopy(k)
      BY <1>6, SkipFields, NoteFields
    <2> QED
      BY <1>0, <1>6, <2>1, <2>2, SkipFields DEF StandsStill
  <1>7. ASSUME NEW j \in Keys, NEW status \in {"done", "error"}, RunsOne(j, status)
        PROVE  Counted(m, k)'
    <2>1. DoneKeys(m)' = DoneKeys(m) /\ stored' = stored
      BY <1>7 DEF DoneKeys, RunsOne
    <2>2. InCopy(k)' <=> IF k = j THEN status = "done" ELSE InCopy(k)
      BY ZenonT(60), <1>7, RanFields, NoteFields DEF RunsOne
    <2>3. worker.msg \in Msgs /\ ~InCopy(j) /\ worker.unsaved = {}
      BY ZenonT(60), <1>7, RanFields DEF RunsOne, CopyAhead
    <2>4. CASE UNCHANGED <<sent, doubt>> /\ (status = "done" => Kind(j) \notin Push)
      BY <1>0, <1>7, <2>1, <2>2, <2>3, <2>4, RanFields DEF RunsOne
    <2>5. CASE Requested(j) /\ UNCHANGED doubt /\ status = "done" /\ Kind(j) \in Push
      <3>1. worker'.msg = worker.msg /\ worker'.unsaved = {j} /\ InCopy(j)'
        <4>1. worker'.msg = worker.msg /\ worker'.unsaved = {j}
          BY <1>7, <2>5, RanFields DEF RunsOne
        <4>2. InCopy(j)'
          BY <1>7, <2>5, RanFields, NoteFields DEF RunsOne
        <4> QED
          BY <4>1, <4>2
      <3>2. CASE m = worker.msg /\ k = j
        <4>1. sent'[m][k] = sent[m][k] + 1 /\ doubt'[m][k] = doubt[m][k]
          BY <2>3, <2>5, <3>2, RequestedCount
        <4>2. sent[m][k] <= doubt[m][k] /\ stored[m] # "unborn"
          BY <1>0, <2>3, <3>2 DEF CopyAhead
        <4> QED
          BY <1>0, <2>1, <3>1, <3>2, <4>1, <4>2
      <3>3. CASE ~(m = worker.msg /\ k = j)
        <4>1. sent'[m][k] = sent[m][k] /\ doubt'[m][k] = doubt[m][k]
          BY <2>3, <2>5, <3>3, RequestedCount
        <4> QED
          BY <1>0, <2>1, <2>2, <2>3, <3>1, <3>3, <4>1
      <3> QED
        BY <3>2, <3>3
    <2>6. CASE Requested(j) /\ doubt' = [doubt EXCEPT ![Msg][j] = @ + 1] /\ status = "error"
      <3>1. worker'.msg = worker.msg /\ worker'.unsaved = {}
        BY <1>7, <2>6, RanFields DEF RunsOne
      <3>2. CASE m = worker.msg /\ k = j
        <4>1. /\ sent'[m][k] = sent[m][k] + 1
              /\ doubt'[m][k] = doubt[m][k] + 1
          BY <2>3, <2>6, <3>2, RequestedCount, DoubtCount
        <4>2. sent[m][k] <= doubt[m][k] /\ stored[m] # "unborn"
          BY <1>0, <2>3, <3>2 DEF CopyAhead
        <4> QED
          BY <1>0, <2>1, <3>1, <3>2, <4>1, <4>2
      <3>3. CASE ~(m = worker.msg /\ k = j)
        <4>0. sent'[m][k] = sent[m][k]
          BY <2>3, <2>6, <3>3, RequestedCount
        <4>5. \A n \in Msgs, i \in Keys :
                n # worker.msg \/ i # j => doubt'[n][i] = doubt[n][i]
          BY <2>3, <2>6, DoubtCount
        <4>1. sent'[m][k] = sent[m][k] /\ doubt'[m][k] = doubt[m][k]
          BY <3>3, <4>0, <4>5
        <4>2. m = worker.msg => k # j /\ (InCopy(k)' <=> InCopy(k))
          BY <2>2, <3>3
        <4>3. Held(m)' /\ ~InCopy(k)' => sent[m][k] <= doubt[m][k]
          BY <1>0, <3>1, <4>2
        <4>4. stored[m] = "stored" /\ k \notin DoneKeys(m) => sent[m][k] <= doubt[m][k]
          BY <1>0, <2>3
        <4> QED
          BY <1>0, <2>1, <4>1, <4>3, <4>4
      <3> QED
        BY <3>2, <3>3
    <2> QED
      BY <1>7, <2>4, <2>5, <2>6 DEF RunsOne
  <1>8. CASE SaveResult /\ StandsStill
    <2>1. worker'.msg = worker.msg /\ (InCopy(k)' <=> InCopy(k))
      BY <1>8, SaveFields DEF InCopy
    <2>2. CASE Held(m) /\ stored[m] = "stored"
      <3>1. k \in DoneKeys(m)' <=> InCopy(k)
        BY <1>8, <2>2, SavedRows DEF DoneKeys, InCopy
      <3> QED
        BY <1>0, <1>8, <2>1, <2>2, <3>1 DEF StandsStill
    <2>3. CASE ~(Held(m) /\ stored[m] = "stored")
      <3>1. DoneKeys(m)' = DoneKeys(m)
        BY <1>8, <2>3, SavedRows, DoneKeysKept
      <3> QED
        BY <1>0, <1>8, <2>1, <2>3, <3>1 DEF StandsStill
    <2> QED
      BY <2>2, <2>3
  <1>9. CASE Finish /\ StandsStill
    <2>1. ~Held(m)' /\ worker.unsaved = {}
      BY <1>9, FinishFields, MsgAssumption
    <2>2. CASE Held(m) /\ stored[m] = "stored"
      <3>1. k \in DoneKeys(m)' <=> InCopy(k)
        BY <1>9, <2>2, SavedRows DEF DoneKeys, InCopy
      <3> QED
        BY <1>0, <1>9, <2>1, <2>2, <3>1 DEF StandsStill
    <2>3. CASE ~(Held(m) /\ stored[m] = "stored")
      <3>1. DoneKeys(m)' = DoneKeys(m)
        BY <1>9, <2>3, SavedRows, DoneKeysKept
      <3> QED
        BY <1>0, <1>9, <2>1, <2>3, <3>1 DEF StandsStill
    <2> QED
      BY <2>2, <2>3
  <1> QED
    BY <1>1, <1>2, <1>3, <1>4, <1>5, <1>6, <1>7, <1>8, <1>9, StepSort

(***************************************************************************)
(* Due times and attempts                                                  *)
(***************************************************************************)
LEMMA NoRowForgottenStep ==
  ASSUME TypeInv, CopyAhead, NoRowForgotten, [Next]_vars
  PROVE  NoRowForgotten'
  <1> DEFINE Kept(m) == route[m].next = "none"
                          <=> route[m].status \in {"new", "done", "failed"}
  <1> SUFFICES ASSUME NEW m \in Msgs PROVE Kept(m)'
    BY DEF NoRowForgotten
  <1>0. Kept(m)
    BY DEF NoRowForgotten
  <1>1. CASE UNCHANGED route
    BY <1>0, <1>1
  <1>2. ASSUME NEW n \in Msgs, Elapse(n) PROVE Kept(m)'
    BY <1>0, <1>2, ElapseFields
  <1>3. ASSUME NEW n \in Msgs, Claim(n) PROVE Kept(m)'
    BY <1>0, <1>3, ClaimFields
  <1>4. CASE SaveResult
    <2>1. CASE m = worker.msg /\ stored[m] = "stored"
      BY <1>4, <2>1, SavedRows DEF CopyAhead, Held
    <2>2. CASE ~(m = worker.msg /\ stored[m] = "stored")
      BY <1>0, <1>4, <2>2, SavedRows
    <2> QED
      BY <2>1, <2>2
  <1>5. CASE Finish
    <2>1. CASE m = worker.msg /\ stored[m] = "stored"
      BY <1>5, <2>1, SavedRows DEF Outcome
    <2>2. CASE ~(m = worker.msg /\ stored[m] = "stored")
      BY <1>0, <1>5, <2>2, SavedRows
    <2> QED
      BY <2>1, <2>2
  <1> QED
    BY <1>1, <1>2, <1>3, <1>4, <1>5, StepSort DEF Quiet, LetsGo, Plans, RunsOne

LEMMA FailureNoted ==
  ASSUME TypeInv, ClaimsCounted, [Next]_vars, NEW m \in Msgs, Held(m)', worker'.failed
  PROVE  /\ worker'.pc # "plan"
         /\ \E k \in Keys \ worker'.todo : worker'.copy.results[k].status = "error"
  <1> DEFINE Noted == \E k \in Keys \ worker.todo :
                         worker.copy.results[k].status = "error"
  <1> USE DEF Held
  <1>0. Held(m) /\ worker.failed => worker.pc # "plan" /\ Noted
    BY DEF ClaimsCounted
  <1>9. worker.copy.results \in [Keys -> Result]
    BY DEF TypeInv, TypeOK, WorkerState, Routing
  <1>1. CASE UNCHANGED worker
    BY <1>0, <1>1
  <1>2. CASE LetsGo
    BY <1>2, MsgAssumption DEF LetsGo
  <1>3. ASSUME NEW n \in Msgs, Claim(n) PROVE FALSE
    BY <1>3, ClaimFields
  <1>4. ASSUME NEW table, Plans(table) PROVE FALSE
    BY <1>0, <1>4, PlanFields DEF Plans
  <1>5. ASSUME NEW k \in Keys, SkipForImap(k) PROVE worker'.pc = "act" /\ Noted'
    <2>1. worker.msg = m /\ worker.failed
      BY <1>5, SkipFields
    <2>2. PICK j \in Keys \ worker.todo : worker.copy.results[j].status = "error"
      BY <1>0, <2>1
    <2>3. j \in Keys \ {k} /\ j \notin worker'.todo
      BY <1>5, SkipFields
    <2>4. worker'.copy.results =
            [worker.copy.results EXCEPT ![k] = [status |-> "done", type |-> Kind(k)]]
      BY <1>5, SkipFields
    <2>5. worker'.copy.results[j].status = "error"
      BY <1>9, <2>2, <2>3, <2>4
    <2>6. worker'.pc = "act"
      BY <1>5, SkipFields
    <2> QED
      BY <2>3, <2>5, <2>6
  <1>6. ASSUME NEW k \in Keys, NEW status \in {"done", "error"}, RunsOne(k, status)
        PROVE  worker'.pc = "save" /\ Noted'
    <2>1. worker'.pc = "save" /\ k \notin worker'.todo
      BY <1>6, RanFields DEF RunsOne
    <2>4. worker'.copy.results =
            [worker.copy.results EXCEPT ![k] = [status |-> status, type |-> Kind(k)]]
      BY <1>6, RanFields DEF RunsOne
    <2>2. CASE status = "error"
      <3>1. worker'.copy.results[k].status = "error"
        BY <1>9, <2>2, <2>4
      <3> QED
        BY <2>1, <3>1
    <2>3. CASE status = "done"
      <3>1. worker.msg = m /\ worker.failed
        BY <1>6, <2>3, RanFields DEF RunsOne
      <3>2. PICK j \in Keys \ worker.todo : worker.copy.results[j].status = "error"
        BY <1>0, <3>1
      <3>3. j \in Keys \ {k} /\ j \notin worker'.todo
        BY <1>6, RanFields DEF RunsOne
      <3>4. worker'.copy.results[j] = worker.copy.results[j]
        BY <1>9, <2>4, <3>3
      <3> QED
        BY <2>1, <3>2, <3>3, <3>4
    <2> QED
      BY <2>2, <2>3
  <1>7. CASE SaveResult
    BY <1>0, <1>7, SaveFields
  <1>8. CASE Finish
    BY <1>8, FinishFields
  <1> QED
    BY <1>1, <1>2, <1>3, <1>4, <1>5, <1>6, <1>7, <1>8, StepSort, ElapseFields DEF Quiet

LEMMA AttemptsStep ==
  ASSUME TypeInv, CopyAhead, ClaimsCounted, AttemptsAccounted, [Next]_vars
  PROVE  ClaimsCounted' /\ AttemptsAccounted'
  <1> DEFINE Claims(m) == /\ route[m].status = "new" => route[m].attempts = 0
                          /\ route[m].status = "running" /\ stored[m] # "gone" /\ ~Held(m)
                               => route[m].attempts < MaxAttempts + CutShort
             Tries(m) == /\ route[m].attempts <= MaxAttempts + CutShort
                         /\ route[m].status = "retry" => route[m].attempts < MaxAttempts
                         /\ route[m].status = "failed" =>
                              /\ route[m].attempts >= MaxAttempts
                              /\ \E k \in Keys : route[m].results[k].status = "error"
  <1>1. CutShort \in Nat /\ CutShort' >= CutShort /\ CutShort' \in Nat
    <2>1. TypeInv'
      BY TypeStep
    <2>2. CutShort \in Nat /\ CutShort' \in Nat
      BY <2>1 DEF CutShort, TypeInv, TypeOK, Spending
    <2>3. CutShort' >= CutShort
      BY StepSort DEF Quiet, LetsGo, StandsStill, Plans, RunsOne, Around, TableKept
    <2> QED
      BY <2>2, <2>3
  <1>2. \A m \in Msgs : route[m].attempts \in Nat
    BY DEF TypeInv, TypeOK, Routing
  <1>3. MaxAttempts \in Nat \ {0}
    BY BoundAssumption
  <1> SUFFICES ASSUME NEW m \in Msgs PROVE Claims(m)' /\ Tries(m)'
    <2>1. AttemptsAccounted'
      BY DEF AttemptsAccounted, CutShort
    <2>2. ClaimsCounted'
      BY FailureNoted DEF ClaimsCounted
    <2> QED
      BY <2>1, <2>2
  <1>4. Claims(m) /\ Tries(m)
    BY DEF ClaimsCounted, AttemptsAccounted, CutShort
  <1> HIDE DEF Claims, Tries
  <1>5. ASSUME UNCHANGED route, stored'[m] # stored[m] => stored'[m] = "gone" \/ stored[m] = "unborn",
               Held(m) /\ ~Held(m)' => CutShort' > CutShort
        PROVE  Claims(m)' /\ Tries(m)'
    BY <1>4, <1>1, <1>2, <1>3, <1>5 DEF Claims, Tries
  <1>6. CASE Quiet
    BY <1>5, <1>6 DEF Quiet, Around, RowLife, Held
  <1>7. CASE LetsGo
    BY <1>5, <1>7 DEF LetsGo, Around, RowLife, Held
  <1>8. ASSUME NEW n \in Msgs, Elapse(n), StandsStill PROVE Claims(m)' /\ Tries(m)'
    BY <1>4, <1>1, <1>2, <1>3, <1>8, ElapseFields DEF StandsStill, Claims, Tries, Held
  <1>9. ASSUME NEW n \in Msgs, Claim(n), StandsStill PROVE Claims(m)' /\ Tries(m)'
    <2>1. ~Held(m) /\ stored' = stored
      BY <1>9, NothingHeld DEF Claim, Held, StandsStill
    <2>2. CASE m = n
      <3>1. Eligible(m) /\ stored[m] = "stored"
        BY <1>9, <2>2 DEF Claim, Claimable, Turn, Queue, Eligible
      <3>2. route'[m].status = "running" /\ route'[m].attempts = route[m].attempts + 1
        BY <1>9, <2>2, ClaimFields
      <3>3. route'[m].attempts <= MaxAttempts + CutShort
        BY <1>4, <1>1, <1>2, <1>3, <2>1, <3>1, <3>2 DEF Claims, Tries, Eligible
      <3>4. worker'.msg = m
        BY <1>9, <2>2, ClaimFields
      <3> QED
        BY <1>1, <1>2, <1>3, <3>2, <3>3, <3>4 DEF Claims, Tries, Held
    <2>3. CASE m # n
      <3>1. route'[m] = route[m]
        BY <1>9, <2>3, ClaimFields
      <3> QED
        BY <1>4, <1>1, <1>2, <1>3, <2>1, <3>1 DEF Claims, Tries
    <2> QED
      BY <2>2, <2>3
  <1>10. ASSUME NEW table, Plans(table) PROVE Claims(m)' /\ Tries(m)'
    BY <1>5, <1>10, PlanFields DEF Plans, Held
  <1>11. ASSUME NEW k \in Keys, SkipForImap(k), UNCHANGED route, StandsStill
        PROVE  Claims(m)' /\ Tries(m)'
    BY <1>5, <1>11, SkipFields DEF StandsStill, Held
  <1>12. ASSUME NEW k \in Keys, NEW status \in {"done", "error"}, RunsOne(k, status)
        PROVE  Claims(m)' /\ Tries(m)'
    BY <1>5, <1>12, RanFields DEF RunsOne, Held
  <1>13. CASE SaveResult /\ StandsStill
    <2>1. worker'.msg = worker.msg
      BY <1>13, SaveFields
    <2>2. CASE m = worker.msg /\ stored[m] = "stored"
      <3>1. /\ route'[m].status = "running"
            /\ route'[m].attempts = route[m].attempts
        BY <1>13, <2>2, SavedRows DEF CopyAhead, Held
      <3> QED
        BY <1>4, <1>1, <1>2, <1>3, <2>1, <2>2, <3>1 DEF Claims, Tries, Held
    <2>3. CASE ~(m = worker.msg /\ stored[m] = "stored")
      BY <1>5, <1>13, <2>1, <2>3, SavedRows, <1>4, <1>1, <1>2, <1>3
         DEF Claims, Tries, Held, StandsStill
    <2> QED
      BY <2>2, <2>3
  <1>14. CASE Finish /\ StandsStill
    <2>1. worker'.msg = NoMsg /\ stored' = stored
      BY <1>14, FinishFields DEF StandsStill
    <2>2. CASE m = worker.msg /\ stored[m] = "stored"
      <3>1. /\ route'[m].status = Outcome
            /\ route'[m].attempts = worker.copy.attempts
            /\ route'[m].results = worker.copy.results
            /\ worker.copy.attempts = route[m].attempts
        BY <1>14, <2>2, SavedRows DEF CopyAhead, Held
      <3>2. worker.failed => \E k \in Keys : worker.copy.results[k].status = "error"
        BY <2>2 DEF ClaimsCounted, Held
      <3>3. Outcome = "failed" => worker.failed /\ worker.copy.attempts >= MaxAttempts
        BY DEF Outcome
      <3>4. Outcome = "retry" => worker.copy.attempts < MaxAttempts
        BY <1>2, <1>3, <3>1 DEF Outcome
      <3>5. Outcome \in {"failed", "retry", "done"}
        BY DEF Outcome
      <3>6. route'[m].attempts <= MaxAttempts + CutShort'
        BY <1>4, <1>1, <1>2, <1>3, <3>1 DEF Tries
      <3> QED
        BY <3>1, <3>2, <3>3, <3>4, <3>5, <3>6 DEF Claims, Tries
    <2>3. CASE ~(m = worker.msg /\ stored[m] = "stored")
      <3>1. route'[m] = route[m]
        BY <1>14, <2>3, SavedRows
      <3>2. stored[m] # "unborn" \/ ~Held(m)
        BY DEF CopyAhead
      <3>3. stored[m] = "gone" \/ ~Held(m)
        BY <2>3, <3>2 DEF Held, TypeInv, TypeOK
      <3> QED
        BY <1>4, <1>1, <1>2, <1>3, <2>1, <3>1, <3>3 DEF Claims, Tries
    <2> QED
      BY <2>2, <2>3
  <1> QED
    BY <1>6, <1>7, <1>8, <1>9, <1>10, <1>11, <1>12, <1>13, <1>14, StepSort

(***************************************************************************)
(* What the database calls done                                            *)
(***************************************************************************)
\* A result of an action on m that is true of the world.
Effective(m, k, result) ==
  result.status = "done" /\ Runnable(m, result.type) =>
    /\ result.type \in Push => sent[m][k] >= 1
    /\ result.type = "tag" => "tagged" \in flags[m]

LEMMA SentGrows ==
  ASSUME TypeInv, [Next]_vars, NEW m \in Msgs, NEW k \in Keys
  PROVE  sent'[m][k] >= sent[m][k]
  <1>0. sent[m][k] \in Nat
    BY DEF TypeInv, TypeOK
  <1>1. CASE UNCHANGED sent
    BY <1>0, <1>1
  <1>2. ASSUME NEW j \in Keys, NEW status \in {"done", "error"}, RunsOne(j, status)
        PROVE  sent'[m][k] >= sent[m][k]
    <2>1. worker.msg \in Msgs
      BY <1>2, RanFields DEF RunsOne
    <2>2. CASE Requested(j)
      BY <1>0, <2>1, <2>2, RequestedCount
    <2> QED
      BY <1>1, <1>2, <2>2 DEF RunsOne
  <1> QED
    BY <1>1, <1>2, StepSort DEF Quiet, LetsGo, StandsStill, Plans

\* The sent requests and the tags of a row that is there already stay.
LEMMA EffectLasts ==
  ASSUME TypeInv, [Next]_vars, NEW m \in Msgs, NEW k \in Keys, NEW result,
         stored[m] # "unborn", Effective(m, k, result)
  PROVE  /\ result.status = "done" /\ Runnable(m, result.type) =>
              /\ result.type \in Push => sent'[m][k] >= 1
              /\ result.type = "tag" => "tagged" \in flags'[m]
  <1>1. sent'[m][k] >= sent[m][k] /\ sent[m][k] \in Nat /\ sent'[m][k] \in Nat
    BY SentGrows, TypeStep DEF TypeInv, TypeOK
  <1>2. RowLife
    BY StepSort DEF Quiet, LetsGo, StandsStill, Plans, RunsOne, Around
  <1>3. KeepsTag(m)
    BY <1>2 DEF RowLife, TypeInv, TypeOK
  <1> QED
    BY <1>1, <1>3 DEF Effective, KeepsTag

LEMMA TookEffectStep ==
  ASSUME TypeInv, CopyAhead, RequestsCounted, CopyTookEffect, DoneTookEffect, [Next]_vars
  PROVE  CopyTookEffect' /\ DoneTookEffect'
  <1> DEFINE InRow(m, k) == Effective(m, k, route[m].results[k])
             InHands(m, k) == Held(m) => Effective(m, k, worker.copy.results[k])
  <1> SUFFICES ASSUME NEW m \in Msgs, NEW k \in Keys PROVE InRow(m, k)' /\ InHands(m, k)'
    BY DEF CopyTookEffect, DoneTookEffect, Effective, InCopy
  <1>1. InRow(m, k) /\ InHands(m, k)
    BY DEF CopyTookEffect, DoneTookEffect, Effective, InCopy
  <1>2. route[m].results[k].status = "done" => stored[m] # "unborn"
    BY DEF RequestsCounted, DoneKeys
  <1>3. Held(m) => stored[m] # "unborn"
    BY DEF CopyAhead
  <1>4. ASSUME route'[m].results[k] = route[m].results[k] PROVE InRow(m, k)'
    BY <1>1, <1>4, <1>2, EffectLasts DEF Effective
  <1>5. ASSUME worker'.msg = worker.msg,
               worker'.copy.results[k] = worker.copy.results[k]
        PROVE  InHands(m, k)'
    BY <1>1, <1>5, <1>3, EffectLasts DEF Effective, Held
  <1>6. CASE Quiet
    BY <1>4, <1>5, <1>6 DEF Quiet
  <1>7. CASE LetsGo
    BY <1>4, <1>7, MsgAssumption DEF LetsGo, Held
  <1>8. ASSUME NEW n \in Msgs, Elapse(n) PROVE InRow(m, k)' /\ InHands(m, k)'
    BY <1>4, <1>5, <1>8, ElapseFields
  <1>9. ASSUME NEW n \in Msgs, Claim(n) PROVE InRow(m, k)' /\ InHands(m, k)'
    <2>1. route'[m].results = route[m].results
      BY <1>9, ClaimFields
    <2>2. Held(m)' => worker'.copy.results[k] = route'[m].results[k]
      BY <1>9, ClaimFields DEF Held
    <2>3. InRow(m, k)'
      BY <1>4, <2>1
    <2> QED
      BY <2>2, <2>3
  <1>10. ASSUME NEW table, Plans(table) PROVE InRow(m, k)' /\ InHands(m, k)'
    BY <1>4, <1>5, <1>10, PlanFields DEF Plans
  <1>11. ASSUME NEW j \in Keys, SkipForImap(j), UNCHANGED route
        PROVE  InRow(m, k)' /\ InHands(m, k)'
    <2>1. InRow(m, k)'
      BY <1>4, <1>11
    <2>2. /\ worker'.msg = worker.msg
          /\ worker'.copy.results =
              [worker.copy.results EXCEPT ![j] = [status |-> "done", type |-> Kind(j)]]
          /\ worker.copy.results \in [Keys -> Result]
      BY <1>11, SkipFields DEF TypeInv, TypeOK, WorkerState, Routing
    <2>3. CASE k = j
      <3>1. worker'.copy.results[k] = [status |-> "done", type |-> Kind(k)]
        BY <2>2, <2>3
      <3>2. worker.msg = m => ~Runnable(m, Kind(k))
        BY <1>11, <2>3 DEF SkipForImap, Msg
      <3> QED
        BY <2>1, <2>2, <3>1, <3>2 DEF Held, Effective
    <2>4. CASE k # j
      BY <1>5, <2>1, <2>2, <2>4
    <2> QED
      BY <2>3, <2>4
  <1>12. ASSUME NEW j \in Keys, NEW status \in {"done", "error"}, RunsOne(j, status)
        PROVE  InRow(m, k)' /\ InHands(m, k)'
    <2>1. InRow(m, k)'
      BY <1>4, <1>12 DEF RunsOne
    <2>2. /\ worker'.msg = worker.msg /\ worker.msg \in Msgs
          /\ worker'.copy.results =
              [worker.copy.results EXCEPT ![j] = [status |-> status, type |-> Kind(j)]]
          /\ worker.copy.results \in [Keys -> Result]
      <3>1. worker.copy.results \in [Keys -> Result]
        BY DEF TypeInv, TypeOK, WorkerState, Routing
      <3>2. /\ worker'.msg = worker.msg /\ worker.msg \in Msgs
            /\ worker'.copy.results =
                [worker.copy.results EXCEPT ![j] = [status |-> status, type |-> Kind(j)]]
        BY <1>12, RanFields DEF RunsOne
      <3> QED
        BY <3>1, <3>2
    <2>3. CASE k = j /\ worker.msg = m
      <3>1. worker'.copy.results[k] = [status |-> status, type |-> Kind(k)]
        BY <2>2, <2>3
      <3>2. status = "done" /\ Kind(k) \in Push => sent'[m][k] >= 1
        <4>1. sent[m][k] \in Nat
          BY DEF TypeInv, TypeOK
        <4> QED
          BY <1>12, <2>2, <2>3, <4>1, RequestedCount DEF RunsOne
      <3>3. status = "done" /\ Kind(k) = "tag" => "tagged" \in flags'[m]
        BY <1>12, <2>3 DEF RunsOne, Msg
      <3> QED
        BY <2>1, <3>1, <3>2, <3>3 DEF Effective
    <2>4. CASE k # j
      BY <1>5, <2>1, <2>2, <2>4
    <2> QED
      BY <2>1, <2>2, <2>3, <2>4 DEF Held
  <1>13. CASE SaveResult
    <2>1. InHands(m, k)'
      BY <1>5, <1>13, SaveFields
    <2>2. CASE m = worker.msg /\ stored[m] = "stored"
      <3>1. route'[m].results = worker'.copy.results /\ worker'.msg = m
        BY <1>13, <2>2, SavedRows, SaveFields
      <3> QED
        BY <2>1, <3>1 DEF Held
    <2>3. CASE ~(m = worker.msg /\ stored[m] = "stored")
      BY <1>4, <1>13, <2>1, <2>3, SavedRows
    <2> QED
      BY <2>2, <2>3
  <1>14. CASE Finish
    <2>1. InHands(m, k)'
      BY <1>14, FinishFields, MsgAssumption DEF Held
    <2>2. CASE m = worker.msg /\ stored[m] = "stored"
      <3>1. route'[m].results[k] = worker.copy.results[k]
        BY <1>14, <2>2, SavedRows
      <3> QED
        BY <1>1, <1>3, <2>1, <2>2, <3>1, EffectLasts DEF Effective, Held
    <2>3. CASE ~(m = worker.msg /\ stored[m] = "stored")
      BY <1>4, <1>14, <2>1, <2>3, SavedRows
    <2> QED
      BY <2>2, <2>3
  <1> QED
    BY <1>6, <1>7, <1>8, <1>9, <1>10, <1>11, <1>12, <1>13, <1>14, StepSort

(***************************************************************************)
(* The rules of the table, to the end                                      *)
(***************************************************************************)
Calm == spent.edits = 0 /\ spent.dbErrors = 0

LEMMA CalmBefore ==
  ASSUME TypeInv, [Next]_vars, Calm'
  PROVE  Calm /\ rules' = rules
  BY StepSort DEF Quiet, LetsGo, StandsStill, Plans, RunsOne, Around, TableKept, Calm

LEMMA RunsTheTableStep ==
  ASSUME TypeInv, RunsTheTable, [Next]_vars
  PROVE  RunsTheTable'
  <1> DEFINE Accounted == \A r \in worker.copy.matched : \A k \in ActionsOf(rules, r) :
                             k \in worker.todo \/ InCopy(k)
  <1> SUFFICES ASSUME Calm', worker'.pc \in {"act", "save"}
               PROVE  /\ worker'.docs = rules'
                      /\ worker'.copy.matched \subseteq Usable(rules)'
                      /\ ~worker'.failed => Accounted'
    BY DEF RunsTheTable, Calm
  <1>1. Calm /\ rules' = rules /\ Usable(rules)' = Usable(rules)
    BY CalmBefore DEF Usable
  <1>2. \A r : ActionsOf(rules, r)' = ActionsOf(rules, r)
    BY <1>1 DEF ActionsOf
  <1>3. worker.pc \in {"act", "save"} =>
          /\ worker.docs = rules /\ worker.copy.matched \subseteq Usable(rules)
          /\ ~worker.failed => Accounted
    BY <1>1 DEF RunsTheTable, Calm
  <1>4. CASE Quiet \/ \E m \in Msgs : Elapse(m)
    <2>1. UNCHANGED worker
      BY <1>4, ElapseFields DEF Quiet
    <2> QED
      BY <1>3, <1>1, <1>2, <2>1 DEF InCopy
  <1>5. CASE LetsGo
    BY <1>5 DEF LetsGo
  <1>6. ASSUME NEW m \in Msgs, Claim(m) PROVE FALSE
    BY <1>6, ClaimFields
  <1>7. ASSUME NEW table, Plans(table)
        PROVE  /\ worker'.docs = rules
               /\ worker'.copy.matched \subseteq Usable(rules) /\ Accounted'
    <2>1. table = rules
      BY <1>7 DEF Plans, Calm
    <2>2. /\ worker'.docs = rules /\ worker'.copy.matched = MatchedIn(rules)
          /\ worker'.todo = Outstanding(rules, MatchedIn(rules))
          /\ worker'.copy.results = worker.copy.results
      BY <1>7, <2>1, PlanFields DEF Plans
    <2>3. MatchedIn(rules) \subseteq Usable(rules)
      BY MatchedUsable
    <2>4. \A r \in MatchedIn(rules) : \A k \in ActionsOf(rules, r) :
             k \in worker'.todo \/ InCopy(k)'
      BY <2>2 DEF Outstanding, InCopy
    <2> QED
      BY <1>2, <2>2, <2>3, <2>4
  <1>8. ASSUME NEW k \in Keys, NEW status \in {"done", "error"},
               worker.pc = "act", worker'.docs = worker.docs,
               worker'.copy.matched = worker.copy.matched,
               worker'.todo = worker.todo \ {k},
               worker'.failed <=> worker.failed \/ status = "error",
               worker'.copy.results =
                 [worker.copy.results EXCEPT ![k] = [status |-> status, type |-> Kind(k)]]
        PROVE  /\ worker'.docs = rules
               /\ worker'.copy.matched \subseteq Usable(rules)
               /\ ~worker'.failed => Accounted'
    <2>1. ASSUME ~worker'.failed, NEW r \in worker.copy.matched, NEW j \in ActionsOf(rules, r)
          PROVE  j \in worker'.todo \/ InCopy(j)'
      <3>1. r \in Usable(rules) /\ (j \in worker.todo \/ InCopy(j)) /\ status = "done"
        BY <1>3, <1>8, <2>1
      <3>2. j \in Keys
        BY <3>1, ActionsAreKeys DEF TypeInv, TypeOK
      <3>3. InCopy(j)' <=> IF j = k THEN status = "done" ELSE InCopy(j)
        BY <1>8, <3>2, NoteFields
      <3> QED
        BY <1>8, <3>1, <3>3
    <2> QED
      BY <1>3, <1>8, <1>2, <2>1
  <1>9. ASSUME NEW k \in Keys, SkipForImap(k)
        PROVE  /\ worker'.docs = rules
               /\ worker'.copy.matched \subseteq Usable(rules)
               /\ ~worker'.failed => Accounted'
    <2>1. /\ worker'.failed <=> worker.failed \/ "done" = "error"
          /\ worker.pc = "act" /\ worker'.docs = worker.docs
          /\ worker'.copy.matched = worker.copy.matched
          /\ worker'.todo = worker.todo \ {k}
          /\ worker'.copy.results =
                [worker.copy.results EXCEPT ![k] = [status |-> "done", type |-> Kind(k)]]
      BY <1>9, SkipFields
    <2> QED
      BY <1>8, <2>1
  <1>10. ASSUME NEW k \in Keys, NEW status \in {"done", "error"}, RunsOne(k, status)
        PROVE  /\ worker'.docs = rules
               /\ worker'.copy.matched \subseteq Usable(rules)
               /\ ~worker'.failed => Accounted'
    <2>1. /\ worker'.failed <=> worker.failed \/ status = "error"
          /\ worker.pc = "act" /\ worker'.docs = worker.docs
          /\ worker'.copy.matched = worker.copy.matched
          /\ worker'.todo = worker.todo \ {k}
          /\ worker'.copy.results =
                [worker.copy.results EXCEPT ![k] = [status |-> status, type |-> Kind(k)]]
      BY <1>10, RanFields DEF RunsOne
    <2> QED
      BY <1>8, <2>1
  <1>11. CASE SaveResult
    <2>1. /\ worker.pc = "save" /\ worker'.docs = worker.docs
          /\ worker'.copy = worker.copy /\ worker'.todo = worker.todo
          /\ worker'.failed = worker.failed
      BY <1>11, SaveFields DEF SaveResult
    <2> QED
      BY <1>3, <1>1, <1>2, <2>1 DEF InCopy
  <1>12. CASE Finish
    BY <1>12, FinishFields
  <1> QED
    BY <1>4, <1>5, <1>6, <1>7, <1>9, <1>10, <1>11, <1>12, <1>1, StepSort

LEMMA DoneIsCompleteStep ==
  ASSUME TypeInv, CopyAhead, RunsTheTable, DoneIsComplete, [Next]_vars
  PROVE  DoneIsComplete'
  <1> SUFFICES ASSUME Calm', NEW m \in Msgs, route'[m].status = "done",
                      NEW r \in route'[m].matched, NEW k \in ActionsOf(rules', r)
               PROVE  route'[m].results[k].status = "done"
    BY DEF DoneIsComplete, Calm, ActionsOf
  <1>1. Calm /\ rules' = rules
    BY CalmBefore
  <1>2. ASSUME route'[m] = route[m] PROVE route'[m].results[k].status = "done"
    BY <1>2, <1>1 DEF DoneIsComplete, Calm
  <1>3. ASSUME NEW n \in Msgs, Elapse(n) PROVE route'[m].results[k].status = "done"
    BY <1>3, <1>1, ElapseFields DEF DoneIsComplete, Calm
  <1>4. ASSUME NEW n \in Msgs, Claim(n) PROVE route'[m].results[k].status = "done"
    BY <1>2, <1>4, ClaimFields
  <1>5. CASE SaveResult
    BY <1>2, <1>5, SavedRows DEF CopyAhead, Held
  <1>6. CASE Finish
    <2>1. CASE m = worker.msg /\ stored[m] = "stored"
      <3>1. /\ Outcome = "done" /\ route'[m].results = worker.copy.results
            /\ route'[m].matched = worker.copy.matched
        BY <1>6, <2>1, SavedRows
      <3>2. ~worker.failed /\ worker.pc = "act" /\ worker.todo = {}
        BY <1>6, <3>1, FinishFields DEF Outcome
      <3> QED
        BY <1>1, <3>1, <3>2 DEF RunsTheTable, InCopy, Calm
    <2>2. CASE ~(m = worker.msg /\ stored[m] = "stored")
      BY <1>2, <1>6, <2>2, SavedRows
    <2> QED
      BY <2>1, <2>2
  <1> QED
    BY <1>2, <1>3, <1>4, <1>5, <1>6, StepSort DEF Quiet, LetsGo, Plans, RunsOne

(***************************************************************************)
(* The theorems                                                            *)
(***************************************************************************)
LEMMA InitSafety == Init => SafetyInv
  <1> SUFFICES ASSUME Init PROVE SafetyInv
    OBVIOUS
  <1>1. TypeInv /\ worker.msg = NoMsg /\ worker.pc = "claim"
    BY InitTypeInv DEF Init, Resting
  <1>2. \A m \in Msgs : ~Held(m)
    BY <1>1, MsgAssumption DEF Held
  <1>3. \A m \in Msgs : route[m] = Fresh /\ DoneKeys(m) = {}
    BY DEF Init, Fresh, DoneKeys, NoResult
  <1>4. \A m \in Msgs, k \in Keys : sent[m][k] = 0 /\ doubt[m][k] = 0
    BY DEF Init
  <1>5. BornFresh /\ CopyAhead /\ CopyTookEffect /\ RunsTheTable
    BY <1>1, <1>2, <1>3 DEF BornFresh, CopyAhead, CopyTookEffect, RunsTheTable
  <1>6. RequestsCounted
    BY <1>2, <1>3, <1>4 DEF RequestsCounted, Unanswered, Init
  <1>7. NoRowForgotten /\ DoneIsComplete /\ DoneTookEffect
    BY <1>3 DEF NoRowForgotten, DoneIsComplete, DoneTookEffect, Fresh, NoResult
  <1>8. ClaimsCounted /\ AttemptsAccounted
    BY <1>2, <1>3, BoundAssumption DEF ClaimsCounted, AttemptsAccounted, Fresh, Init
  <1> QED
    BY <1>1, <1>5, <1>6, <1>7, <1>8 DEF SafetyInv

\* Every part of SafetyInv holds initially and is preserved by every step, of
\* the worker, of the handlers and the users, of the clock and of a crash.
THEOREM Safety == SafetySpec => []SafetyInv
  <1>1. SafetyInv /\ [Next]_vars => SafetyInv'
    BY TypeStep, BornFreshStep, CopyAheadStep, RequestsCountedStep, NoRowForgottenStep, AttemptsStep,
       TookEffectStep, RunsTheTableStep, DoneIsCompleteStep
       DEF SafetyInv
  <1> QED
    BY InitSafety, <1>1, PTL DEF SafetySpec

\* A request beyond the first one of an action is one whose outcome was lost.
THEOREM RepeatsExplained == SafetySpec => []OnlyDoubtRepeats
  <1>1. SafetyInv => OnlyDoubtRepeats
    BY DEF SafetyInv, RequestsCounted, OnlyDoubtRepeats
  <1> QED
    BY Safety, <1>1, PTL

\* What the database calls done has happened.
THEOREM DoneIsTrue == SafetySpec => []DoneTookEffect
  BY Safety, PTL DEF SafetyInv

\* No claimed or failed row loses the due time it is found by.
THEOREM RowsAreFound == SafetySpec => []NoRowForgotten
  BY Safety, PTL DEF SafetyInv

\* Claims are bounded by ROUTER_MAX_ATTEMPTS and what crashes and failing
\* saves cut short, and a message is given up for no other reason.
THEOREM AttemptsBounded == SafetySpec => []AttemptsAccounted
  BY Safety, PTL DEF SafetyInv

\* With a steady rule table, a message called done has all its actions done.
THEOREM DoneIsWhole == SafetySpec => []DoneIsComplete
  BY Safety, PTL DEF SafetyInv

\* The saved list of matched rules loses rules and never gains one.
THEOREM MatchedShrinks == SafetySpec => MatchedOnlyShrinks
  <1> DEFINE Shrinks == \A m \in Msgs : route[m].fixed =>
               route'[m].fixed /\ route'[m].matched \subseteq route[m].matched
  <1>1. SafetyInv /\ [Next]_vars => Shrinks
    <2> SUFFICES ASSUME SafetyInv, [Next]_vars, NEW m \in Msgs, route[m].fixed
                 PROVE  route'[m].fixed /\ route'[m].matched \subseteq route[m].matched
      OBVIOUS
    <2> USE DEF SafetyInv
    <2>1. ASSUME NEW n \in Msgs, Elapse(n) \/ Claim(n)
          PROVE  route'[m].fixed /\ route'[m].matched \subseteq route[m].matched
      BY <2>1, ElapseFields, ClaimFields
    <2>2. CASE SaveResult \/ Finish
      BY <2>2, SavedRows DEF CopyAhead, Held
    <2> QED
      BY <2>1, <2>2, StepSort DEF Quiet, LetsGo, Plans, RunsOne
  <1>2. SafetyInv /\ [Next]_vars => [Shrinks]_vars
    BY <1>1
  <1> HIDE DEF Shrinks
  <1>3. SafetySpec => [][Shrinks]_vars
    BY Safety, <1>2, PTL DEF SafetySpec
  <1> QED
    BY <1>3 DEF MatchedOnlyShrinks, Shrinks

\* A worker that sleeps will be woken for each new row.
LEMMA WakeUpStep ==
  ASSUME TypeInv, NoLostWakeUp, [Next]_vars
  PROVE  NoLostWakeUp'
  <1> SUFFICES ASSUME worker'.pc = "idle", ~worker'.blind,
                      NEW m \in Msgs, Eligible(m)', route'[m].status = "new"
               PROVE  wake' \/ m \in owed'
    BY DEF NoLostWakeUp
  <1>1. ASSUME worker' = worker, route'[m].status = route[m].status,
               stored'[m] = stored[m],
               wake => wake', m \in owed => m \in owed' \/ wake'
        PROVE  wake' \/ m \in owed'
    BY <1>1 DEF NoLostWakeUp, Eligible
  <1>2. ASSUME NEW n \in Msgs, Store(n) PROVE wake' \/ m \in owed'
    BY <1>1, <1>2 DEF Store, TypeInv, TypeOK
  <1>3. ASSUME NEW n \in Msgs, NotifyWorker(n) PROVE wake' \/ m \in owed'
    BY <1>3 DEF NotifyWorker
  <1>4. ASSUME NEW n \in Msgs, Trash(n) \/ Restore(n) PROVE wake' \/ m \in owed'
    BY <1>1, <1>4 DEF Trash, Restore
  <1>5. ASSUME NEW n \in Msgs, Purge(n) PROVE wake' \/ m \in owed'
    <2>1. n # m
      BY <1>5 DEF Purge, Eligible, TypeInv, TypeOK
    <2> QED
      BY <1>1, <1>5, <2>1 DEF Purge, TypeInv, TypeOK
  <1>6. ASSUME NEW r \in RuleIds, DeleteRule(r) \/ \E d \in Docs : PutRule(r, d)
        PROVE  wake' \/ m \in owed'
    BY <1>1, <1>6 DEF PutRule, DeleteRule
  <1>7. ASSUME NEW n \in Msgs, Elapse(n) PROVE wake' \/ m \in owed'
    BY <1>1, <1>7, ElapseFields DEF Elapse
  <1>8. CASE NothingDue
    <2>1. Queue("smtp") = {} /\ Queue("imap") = {}
      BY <1>8 DEF NothingDue, Turn
    <2>2. ~Eligible(m)
      BY <2>1, MsgAssumption DEF Queue
    <2> QED
      BY <1>8, <2>2 DEF NothingDue, Eligible
  <1>9. CASE ClaimFails
    BY <1>9 DEF ClaimFails, Resting
  <1>10. ASSUME NEW n \in Msgs, Claim(n) PROVE FALSE
    BY <1>10, ClaimFields
  <1>11. CASE LoadRules \/ LoadRulesFails
    BY <1>11, PlanSort, PlanFields DEF Plans
  <1>12. ASSUME NEW k \in Keys, SkipForImap(k) PROVE FALSE
    BY <1>12, SkipFields
  <1>13. ASSUME NEW k \in Keys,
               \/ PushAccepted(k) \/ PushRefused(k) \/ PushAnswerLost(k)
               \/ LocalDone(k) \/ LocalFails(k)
        PROVE  FALSE
    BY <1>13, RunSort, RanFields DEF RunsOne
  <1>14. CASE SaveResult \/ Finish \/ SaveFails
    BY <1>14, SaveFields, FinishFields, RestingFields DEF SaveFails
  <1>15. CASE Woken \/ Poll \/ Cleanup \/ Stop \/ Crash \/ Start
    BY <1>15, RestingFields DEF Woken, Poll, Cleanup, Stop, Crash, ProcessEnds, Start
  <1>16. CASE UNCHANGED vars
    BY <1>1, <1>16 DEF vars
  <1>17. CASE People
    BY <1>2, <1>3, <1>4, <1>5, <1>6, <1>17 DEF People
  <1>18. CASE Work
    BY <1>8, <1>9, <1>10, <1>11, <1>12, <1>13, <1>14, <1>18 DEF Work
  <1> QED
    BY <1>7, <1>15, <1>16, <1>17, <1>18 DEF Next

\* The wake channel and the handlers between them miss no new row.
THEOREM WakeUpsKept == SafetySpec => []NoLostWakeUp
  <1>1. Init => NoLostWakeUp
    BY DEF Init, NoLostWakeUp, Resting
  <1> QED
    BY <1>1, TypeCorrect, WakeUpStep, PTL DEF SafetySpec

(***************************************************************************)
(* RouteEngine implements RoutePromise: under the mapping of OutcomeOf and *)
(* DoneKeys the first state is a first state of the promise, and each step *)
(* of the worker, the users, the clock or a crash is a step of the promise *)
(* or changes nothing that it speaks of.                                   *)
(***************************************************************************)
\* Nothing the promise speaks of has changed.
Stutters == /\ \A m \in Msgs : OutcomeOf(m)' = OutcomeOf(m) /\ DoneKeys(m)' = DoneKeys(m)
            /\ sent' = sent

LEMMA StuttersMap == ASSUME Stutters PROVE UNCHANGED Promise!vars
  BY DEF Stutters, Promise!vars

\* Mail appears and goes, and no row is routed.
LEMMA RemovesMap ==
  ASSUME SafetyInv, RowLife, UNCHANGED <<route, sent>>
  PROVE  Promise!Remove
  <1>1. \A m \in Msgs : DoneKeys(m)' = DoneKeys(m)
    BY DoneKeysKept
  <1>2. \A m \in Msgs : OutcomeOf(m)' \in {OutcomeOf(m), "gone"}
    BY DEF RowLife, OutcomeOf, SafetyInv, BornFresh, Fresh
  <1> QED
    BY <1>1, <1>2 DEF Promise!Remove

LEMMA ElapseMap ==
  ASSUME SafetyInv, NEW n \in Msgs, Elapse(n), StandsStill
  PROVE  Stutters
  <1>1. TypeInv
    BY DEF SafetyInv
  <1>2. \A m \in Msgs : DoneKeys(m)' = DoneKeys(m) /\ route'[m].status = route[m].status
    BY <1>1, ElapseFields, DoneKeysKept
  <1> QED
    BY <1>2 DEF Stutters, StandsStill, OutcomeOf

LEMMA ClaimMap ==
  ASSUME SafetyInv, NEW n \in Msgs, Claim(n), StandsStill
  PROVE  Stutters \/ Promise!Take(n)
  <1>1. TypeInv
    BY DEF SafetyInv
  <1>2. \A m \in Msgs : DoneKeys(m)' = DoneKeys(m)
    BY <1>1, ClaimFields, DoneKeysKept
  <1>3. /\ stored[n] = "stored" /\ stored' = stored /\ sent' = sent
        /\ route[n].status \in {"new", "retry", "running"}
        /\ route'[n].status = "running"
        /\ \A m \in Msgs \ {n} : route'[m] = route[m]
    BY <1>1, ClaimFields DEF StandsStill, Claim, Claimable, Turn, Queue, Eligible
  <1>4. \A m \in Msgs \ {n} : OutcomeOf(m)' = OutcomeOf(m)
    BY <1>3 DEF OutcomeOf
  <1>5. OutcomeOf(n)' = "open"
    BY <1>3 DEF OutcomeOf
  <1>6. CASE route[n].status = "new"
    <2>1. OutcomeOf(n) = "waiting"
      BY <1>3, <1>6 DEF OutcomeOf
    <2> QED
      BY <1>2, <1>3, <1>4, <1>5, <2>1 DEF Promise!Take
  <1>7. CASE route[n].status # "new"
    <2>1. OutcomeOf(n) = "open"
      BY <1>3, <1>7 DEF OutcomeOf
    <2> QED
      BY <1>2, <1>3, <1>4, <1>5, <2>1 DEF Stutters
  <1> QED
    BY <1>6, <1>7

\* What the promise sees of a message in hand.
LEMMA HeldOutcome ==
  ASSUME TypeInv, CopyAhead, NEW n \in Msgs, Held(n)
  PROVE  /\ stored[n] = "stored" => OutcomeOf(n) = "open"
         /\ stored[n] # "stored" => OutcomeOf(n) = "gone"
  <1>1. /\ stored[n] = "stored" \/ stored[n] = "gone"
        /\ stored[n] = "stored" => route[n].status = "running"
    BY DEF CopyAhead, TypeInv, TypeOK
  <1> QED
    BY <1>1 DEF OutcomeOf

LEMMA RunMap ==
  ASSUME SafetyInv, NEW n \in Msgs, Held(n),
         NEW k \in Keys, NEW status \in {"done", "error"}, RunsOne(k, status)
  PROVE  Stutters \/ Promise!Send(n, k)
  <1>1. TypeInv /\ k \in worker.todo /\ stored' = stored /\ route' = route
    BY RanFields DEF SafetyInv, RunsOne
  <1>2. \A m \in Msgs : DoneKeys(m)' = DoneKeys(m) /\ OutcomeOf(m)' = OutcomeOf(m)
    BY <1>1 DEF DoneKeys, OutcomeOf
  <1>3. CASE sent' = sent
    BY <1>2, <1>3 DEF Stutters
  <1>4. CASE Requested(k)
    <2>1. OutcomeOf(n) \in {"open", "gone"}
      BY <1>1, HeldOutcome DEF SafetyInv
    <2>2. k \notin DoneKeys(n)
      BY <1>1 DEF SafetyInv, CopyAhead, Held
    <2> QED
      BY <1>2, <1>4, <2>1, <2>2 DEF Promise!Send, Requested, Msg, Held
  <1> QED
    BY <1>3, <1>4 DEF RunsOne

LEMMA RecordMap ==
  ASSUME NEW n \in Msgs, OutcomeOf(n) = "open", sent' = sent,
         OutcomeOf(n)' \in {"open", "done", "failed"},
         DoneKeys(n) \subseteq DoneKeys(n)',
         \A m \in Msgs \ {n} : OutcomeOf(m)' = OutcomeOf(m) /\ DoneKeys(m)' = DoneKeys(m)
  PROVE  Promise!Record(n)
  BY DEF Promise!Record

LEMMA SaveMap ==
  ASSUME SafetyInv, NEW n \in Msgs, Held(n), SaveResult \/ Finish, StandsStill
  PROVE  Stutters \/ Promise!Record(n)
  <1>1. /\ TypeInv /\ CopyAhead /\ worker.msg = n
        /\ stored' = stored /\ sent' = sent
    BY DEF SafetyInv, StandsStill, Held
  <1>2. CASE stored[n] # "stored"
    <2>1. route' = route
      BY <1>1, <1>2 DEF SaveResult, Finish, SaveRouting, Msg
    <2> QED
      BY <1>1, <2>1 DEF Stutters, OutcomeOf, DoneKeys
  <1>3. CASE stored[n] = "stored"
    <2>1. OutcomeOf(n) = "open"
      BY <1>1, <1>3, HeldOutcome
    <2>2. \/ route'[n].status = "running" \/ route'[n].status = "retry"
          \/ route'[n].status = "done" \/ route'[n].status = "failed"
      BY <1>1, <1>3, SavedRows DEF CopyAhead, Held, Outcome
    <2>3. OutcomeOf(n)' \in {"open", "done", "failed"}
      <3>1. stored'[n] = "stored"
        BY <1>1, <1>3
      <3> QED
        BY <2>2, <3>1 DEF OutcomeOf
    <2>4. \A m \in Msgs \ {n} : route'[m] = route[m]
      BY <1>1, SavedRows
    <2>5. \A m \in Msgs \ {n} : OutcomeOf(m)' = OutcomeOf(m) /\ DoneKeys(m)' = DoneKeys(m)
      BY <1>1, <2>4 DEF OutcomeOf, DoneKeys
    <2>6. DoneKeys(n) \subseteq DoneKeys(n)'
      <3>1. \A k \in DoneKeys(n) : k \in Keys /\ InCopy(k)
        BY <1>1 DEF CopyAhead, Held, DoneKeys
      <3>2. route'[n].results = worker.copy.results
        BY <1>1, <1>3, SavedRows
      <3> QED
        BY <3>1, <3>2 DEF InCopy, DoneKeys
    <2> QED
      BY <1>1, <2>1, <2>3, <2>5, <2>6, RecordMap
  <1> QED
    BY <1>2, <1>3

LEMMA StepMap ==
  ASSUME SafetyInv, [Next]_vars
  PROVE  [Promise!Next]_(Promise!vars)
  <1>1. CASE Stutters
    BY <1>1, StuttersMap
  <1>2. CASE Quiet \/ LetsGo
    BY <1>2, RemovesMap DEF Quiet, LetsGo, Around, Promise!Next
  <1>3. ASSUME NEW m \in Msgs, Elapse(m) /\ StandsStill PROVE Stutters
    BY <1>3, ElapseMap
  <1>4. ASSUME NEW m \in Msgs, Claim(m) /\ StandsStill PROVE Stutters \/ Promise!Next
    BY <1>4, ClaimMap DEF Promise!Next
  <1>5. ASSUME UNCHANGED <<stored, route, sent>> PROVE Stutters
    BY <1>5 DEF Stutters, OutcomeOf, DoneKeys
  <1>6. ASSUME NEW k \in Keys, NEW status \in {"done", "error"}, RunsOne(k, status)
        PROVE  Stutters \/ Promise!Next
    <2>1. worker.msg \in Msgs
      BY <1>6, RanFields DEF RunsOne, SafetyInv
    <2> QED
      BY <1>6, <2>1, RunMap DEF Promise!Next, Held
  <1>7. CASE (SaveResult \/ Finish) /\ StandsStill
    <2>1. worker.msg \in Msgs
      BY <1>7, SavedRows DEF SafetyInv
    <2>2. Stutters \/ Promise!Next
      BY <1>7, <2>1, SaveMap DEF Promise!Next, Held
    <2> QED
      BY <1>1, <2>2
  <1> QED
    BY <1>1, <1>2, <1>3, <1>4, <1>5, <1>6, <1>7, StepSort
       DEF SafetyInv, Plans, StandsStill

LEMMA InitMap == Init => Promise!Init
  <1> SUFFICES ASSUME Init PROVE Promise!Init
    OBVIOUS
  <1>1. \A m \in Msgs : OutcomeOf(m) = "waiting" /\ DoneKeys(m) = {}
    BY DEF Init, OutcomeOf, DoneKeys, Fresh, NoResult
  <1> QED
    BY <1>1 DEF Init, Promise!Init

\* The worker implements what it promises: no request for an action that is
\* on record, a record that only grows, and one outcome for each message.
THEOREM Implements == SafetySpec => ImplementsPromise
  <1>1. SafetySpec => Promise!Init
    BY InitMap DEF SafetySpec
  <1>2. SafetySpec => [][Promise!Next]_(Promise!vars)
    BY StepMap, Safety, PTL DEF SafetySpec
  <1> QED
    BY <1>1, <1>2, PTL DEF ImplementsPromise, Promise!Spec
=============================================================================
