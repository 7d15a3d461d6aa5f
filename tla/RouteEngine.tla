---------------------------- MODULE RouteEngine ----------------------------
(***************************************************************************)
(* The routing worker of ManyMail (src/router.go, src/routestore.go and    *)
(* the selection part of src/rules.go): one goroutine claims stored mail   *)
(* from the database, runs the actions of the rules that select it, saves  *)
(* the outcome after every action and decides whether the message is done, *)
(* must be retried or has failed.  Around it run the handlers that store   *)
(* mail and wake the worker, the users who trash, restore and purge mail   *)
(* and edit rules, the clock that makes a saved due time pass, and the     *)
(* crash that takes the worker's memory and leaves the database.           *)
(*                                                                         *)
(* A row of messages or of routing_events is a member of Msgs; Source says *)
(* in which of the two tables it is.  A saved due time is abstracted to    *)
(* "none" (NULL), "later" and "due".  Whether the addresses and texts of a *)
(* message satisfy the globs of a rule is the rule's set "takes".          *)
(***************************************************************************)
EXTENDS Naturals, Sequences, FiniteSets

CONSTANTS
    Msgs,          \* the mail this run may receive
    NoMsg,         \* the worker holds nothing
    Source,        \* Msgs -> "smtp" (messages) or "imap" (routing_events)
    CreatedAt,     \* Msgs -> the created_at of the row
    Since,         \* router_since: older mail is not routed
    Spam,          \* the messages stored as spam, that is, in the trash
    RuleIds,       \* the ids a rule may have; naturals, compared like _id
    Docs,          \* the rule documents users save
    NoRule,        \* no document under this id
    InitRules,     \* the rule table when the router first starts
    MaxActions,    \* bound: actions per rule
    MaxAttempts,   \* ROUTER_MAX_ATTEMPTS
    MaxCrashes,    \* bound: crashes and graceful stops of the process
    MaxDbErrors,   \* bound: failing database calls of the worker
    MaxLost,       \* bound: requests taken by a service whose answer is lost
    MaxEdits,      \* bound: rule edits
    MaxMoves       \* bound: mail trashed, restored or removed

Kinds  == {"forward", "ntfy", "telegram", "webhook", "tag", "mark_read", "trash"}
Notify == {"ntfy", "telegram", "webhook"}     \* notifyTypes
Push   == Notify \cup {"forward"}             \* leave through postJSON
Local  == Kinds \ Push                        \* change the stored row

Rule == [valid       : BOOLEAN,               \* validateRule finds no problem
         enabled     : BOOLEAN,
         stop        : BOOLEAN,
         order       : Nat,
         takes       : SUBSET Msgs,
         includeSpam : BOOLEAN,
         actions     : Seq(Kinds)]

\* "<rule id>:<action index>", the name of an action in the saved results
Keys == RuleIds \X (1 .. MaxActions)

NoResult == [status |-> "none", type |-> "none"]
Result   == [status : {"none", "done", "error"}, type : Kinds \cup {"none"}]

\* type Routing, with the route_next column; fixed is Matched # nil
Routing == [status   : {"new", "running", "retry", "done", "failed"},
            attempts : Nat,
            fixed    : BOOLEAN,
            matched  : SUBSET RuleIds,
            results  : [Keys -> Result],
            next     : {"none", "later", "due"}]

Fresh == [status |-> "new", attempts |-> 0, fixed |-> FALSE, matched |-> {},
          results |-> [k \in Keys |-> NoResult], next |-> "none"]

ASSUME MsgAssumption ==
    /\ NoMsg \notin Msgs
    /\ Source \in [Msgs -> {"smtp", "imap"}]
    /\ CreatedAt \in [Msgs -> Nat]
    /\ Since \in Nat
    /\ Spam \subseteq {m \in Msgs : Source[m] = "smtp"}

ASSUME RuleAssumption ==
    /\ RuleIds \subseteq Nat
    /\ Docs \subseteq Rule
    /\ NoRule \notin Rule
    /\ InitRules \in [RuleIds -> Docs \cup {NoRule}]
    /\ MaxActions \in Nat
    /\ \A d \in Docs : Len(d.actions) <= MaxActions

\* loadConfig clamps ROUTER_MAX_ATTEMPTS to at least 1
ASSUME BoundAssumption ==
    /\ MaxAttempts \in Nat \ {0}
    /\ {MaxCrashes, MaxDbErrors, MaxLost, MaxEdits, MaxMoves} \subseteq Nat

VARIABLES
    stored,   \* Msgs -> "unborn", "stored" or "gone": the row and its life
    flags,    \* Msgs -> what the row's is_deleted, seen and tags say
    route,    \* Msgs -> the routing columns of the row
    rules,    \* RuleIds -> the routing_rules table
    owed,     \* mail whose handler has stored it and not yet called Notify
    wake,     \* a token is in the wake channel
    worker,   \* the goroutine: where it is and what it has in memory
    sent,     \* Msgs -> Keys -> requests the outside service took (history)
    doubt,    \* Msgs -> Keys -> how many of them left no trace (history)
    spent     \* how much of each bound is used up

vars == <<stored, flags, route, rules, owed, wake, worker, sent, doubt, spent>>

EmptyTable == [r \in RuleIds |-> NoRule]

\* pc: down | idle (in select or going there) | claim (in runOnce) | plan (claimed) |
\*     act (between two actions) | save (an action has run, not yet saved)
Resting(pc) ==
    [pc |-> pc, msg |-> NoMsg, copy |-> Fresh, trashed |-> FALSE,
     docs |-> EmptyTable, todo |-> {}, failed |-> FALSE, unsaved |-> {},
     blind |-> FALSE]

WorkerState ==
    [pc : {"down", "idle", "claim", "plan", "act", "save"}, msg : Msgs \cup {NoMsg},
     copy : Routing, trashed : BOOLEAN, docs : [RuleIds -> Docs \cup {NoRule}],
     todo : SUBSET Keys, failed : BOOLEAN, unsaved : SUBSET Keys, blind : BOOLEAN]

Spending == [crashes : Nat, dbErrors : Nat, lost : Nat, edits : Nat, moves : Nat]

TypeOK ==
    /\ stored \in [Msgs -> {"unborn", "stored", "gone"}]
    /\ flags \in [Msgs -> SUBSET {"deleted", "seen", "tagged"}]
    /\ route \in [Msgs -> Routing]
    /\ rules \in [RuleIds -> Docs \cup {NoRule}]
    /\ owed \subseteq Msgs
    /\ wake \in BOOLEAN
    /\ worker \in WorkerState
    /\ sent \in [Msgs -> [Keys -> Nat]]
    /\ doubt \in [Msgs -> [Keys -> Nat]]
    /\ spent \in Spending

Init ==
    /\ stored = [m \in Msgs |-> "unborn"]
    /\ flags = [m \in Msgs |-> {}]
    /\ route = [m \in Msgs |-> Fresh]
    /\ rules = InitRules
    /\ owed = {}
    /\ wake = FALSE
    /\ worker = Resting("claim")
    /\ sent = [m \in Msgs |-> [k \in Keys |-> 0]]
    /\ doubt = [m \in Msgs |-> [k \in Keys |-> 0]]
    /\ spent = [crashes |-> 0, dbErrors |-> 0, lost |-> 0, edits |-> 0, moves |-> 0]

(***************************************************************************)
(* A definition X_... before X is X with a slip in it.  It is not part of  *)
(* the specification: put in the place of X, it shows that a property      *)
(* notices (README, "Slips").                                              *)
(***************************************************************************)

(***************************************************************************)
(* Mail and people                                                         *)
(***************************************************************************)
Up == worker.pc # "down"

\* InsertMessage or InsertEvent commits the row; spam is born in the trash.
Store(m) ==
    /\ Up /\ stored[m] = "unborn"
    /\ stored' = [stored EXCEPT ![m] = "stored"]
    /\ flags' = [flags EXCEPT ![m] = IF m \in Spam THEN {"deleted"} ELSE {}]
    /\ owed' = owed \cup {m}
    /\ UNCHANGED <<route, rules, wake, worker, sent, doubt, spent>>

\* Slip: no buffer; a worker on its way into the select does not hear it
NotifyWorker_Unbuffered(m) ==
    /\ m \in owed
    /\ owed' = owed \ {m}
    /\ wake' \in {wake, wake \/ worker.pc = "idle"}
    /\ UNCHANGED <<stored, flags, route, rules, worker, sent, doubt, spent>>

\* The handler's call after it.  Nothing obliges it to come: an event batch
\* that fails half-way returns without it.
NotifyWorker(m) ==
    /\ m \in owed
    /\ owed' = owed \ {m}
    /\ wake' = TRUE
    /\ UNCHANGED <<stored, flags, route, rules, worker, sent, doubt, spent>>

Moves == /\ spent.moves < MaxMoves
         /\ spent' = [spent EXCEPT !.moves = @ + 1]

IsMessage(m) == Up /\ stored[m] = "stored" /\ Source[m] = "smtp"

Trash(m) ==
    /\ IsMessage(m) /\ "deleted" \notin flags[m] /\ Moves
    /\ flags' = [flags EXCEPT ![m] = @ \cup {"deleted"}]
    /\ UNCHANGED <<stored, route, rules, owed, wake, worker, sent, doubt>>

Restore(m) ==
    /\ IsMessage(m) /\ "deleted" \in flags[m] /\ Moves
    /\ flags' = [flags EXCEPT ![m] = @ \ {"deleted"}]
    /\ UNCHANGED <<stored, route, rules, owed, wake, worker, sent, doubt>>

\* PurgeMessages takes trash only, DeleteOlderThan (the TTL) any message.
Purge(m) ==
    /\ IsMessage(m) /\ Moves
    /\ stored' = [stored EXCEPT ![m] = "gone"]
    /\ UNCHANGED <<flags, route, rules, owed, wake, worker, sent, doubt>>

CanEdit == Up /\ spent.edits < MaxEdits

PutRule(r, d) ==
    /\ CanEdit /\ rules[r] # d
    /\ rules' = [rules EXCEPT ![r] = d]
    /\ spent' = [spent EXCEPT !.edits = @ + 1]
    /\ UNCHANGED <<stored, flags, route, owed, wake, worker, sent, doubt>>

DeleteRule(r) ==
    /\ CanEdit /\ rules[r] # NoRule
    /\ rules' = [rules EXCEPT ![r] = NoRule]
    /\ spent' = [spent EXCEPT !.edits = @ + 1]
    /\ UNCHANGED <<stored, flags, route, owed, wake, worker, sent, doubt>>

People == \/ \E m \in Msgs : Store(m) \/ NotifyWorker(m)
          \/ \E m \in Msgs : Trash(m) \/ Restore(m) \/ Purge(m)
          \/ \E r \in RuleIds : DeleteRule(r) \/ \E d \in Docs : PutRule(r, d)

(***************************************************************************)
(* ClaimNext: the oldest row that is due, messages before events, becomes  *)
(* running and its attempt is counted, in the row and in the copy.         *)
(***************************************************************************)
\* Slip: a stale claim is never taken over
Eligible_NoStaleClaims(m) ==
    /\ stored[m] = "stored" /\ CreatedAt[m] >= Since
    /\ route[m].status = "new" \/ (route[m].status = "retry" /\ route[m].next = "due")

Eligible(m) ==
    /\ stored[m] = "stored" /\ CreatedAt[m] >= Since
    /\ \/ route[m].status = "new"
       \/ route[m].status \in {"retry", "running"} /\ route[m].next = "due"

Queue(source) == {m \in Msgs : Source[m] = source /\ Eligible(m)}
Turn == IF Queue("smtp") # {} THEN Queue("smtp") ELSE Queue("imap")
Claimable(m) == m \in Turn /\ \A n \in Turn : CreatedAt[m] <= CreatedAt[n]

\* Slip: a status nobody else knows
Claimed_OtherName(m) == [route[m] EXCEPT !.status = "claimed", !.attempts = @ + 1,
                                         !.next = "later"]
\* Slip: without the time at which the claim is stale
Claimed_NoDueTime(m) == [route[m] EXCEPT !.status = "running", !.attempts = @ + 1,
                                         !.next = "none"]
\* Slip: every attempt starts with an empty record
Claimed_Afresh(m) == [Fresh EXCEPT !.status = "running", !.next = "later",
                                   !.attempts = route[m].attempts + 1]

Claimed(m) == [route[m] EXCEPT !.status = "running", !.attempts = @ + 1,
                               !.next = "later"]

Claim(m) ==
    /\ worker.pc = "claim" /\ Claimable(m)
    /\ route' = [route EXCEPT ![m] = Claimed(m)]
    /\ worker' = [Resting("plan") EXCEPT !.msg = m, !.copy = Claimed(m),
                                         !.trashed = "deleted" \in flags[m]]
    /\ UNCHANGED <<stored, flags, rules, owed, wake, sent, doubt, spent>>

NothingDue ==
    /\ worker.pc = "claim" /\ Turn = {}
    /\ worker' = Resting("idle")
    /\ UNCHANGED <<stored, flags, route, rules, owed, wake, sent, doubt, spent>>

DbFails == /\ spent.dbErrors < MaxDbErrors
           /\ spent' = [spent EXCEPT !.dbErrors = @ + 1]

\* The select or the update of ClaimNext fails: runOnce returns false.
ClaimFails ==
    /\ worker.pc = "claim" /\ DbFails
    /\ worker' = [Resting("idle") EXCEPT !.blind = TRUE]
    /\ UNCHANGED <<stored, flags, route, rules, owed, wake, sent, doubt>>

(***************************************************************************)
(* usableRules and the head of process: which rules, which actions         *)
(***************************************************************************)
Usable(table) == {r \in RuleIds : table[r] # NoRule /\ table[r].valid}

\* sortRules: by order, then by id
Before(table, q, r) ==
    \/ table[q].order < table[r].order
    \/ table[q].order = table[r].order /\ q < r

\* trashed is is_deleted as the claim read it.
RuleMatches(d, m, trashed) ==
    d.enabled /\ m \in d.takes /\ (trashed => m \in Spam /\ d.includeSpam)

SelectRules(table, m, trashed) ==
    LET hits == {r \in Usable(table) : RuleMatches(table[r], m, trashed)}
    IN  {r \in hits : \A q \in hits : Before(table, q, r) => ~table[q].stop}

\* Slip: matched again at every attempt
MatchedIn_Anew(table) == SelectRules(table, worker.msg, worker.trashed)

\* Once fixed, the saved ids are looked up among the rules of today.
MatchedIn(table) ==
    IF worker.copy.fixed
    THEN worker.copy.matched \cap Usable(table)
    ELSE SelectRules(table, worker.msg, worker.trashed)

ActionsOf(table, r) == {<<r, i>> : i \in 1 .. Len(table[r].actions)}

\* Slip: a retry runs the whole rule again
Outstanding_All(table, matched) == UNION {ActionsOf(table, r) : r \in matched}

\* The actions of these rules that the copy does not hold as done.
Outstanding(table, matched) ==
    {k \in UNION {ActionsOf(table, r) : r \in matched} :
        worker.copy.results[k].status # "done"}

PlanWith(table) ==
    LET matched == MatchedIn(table) IN
    worker' = [worker EXCEPT !.pc = "act",
                             !.copy = [@ EXCEPT !.fixed = TRUE, !.matched = matched],
                             !.docs = table,
                             !.todo = Outstanding(table, matched)]

LoadRules ==
    /\ worker.pc = "plan"
    /\ PlanWith(rules)
    /\ UNCHANGED <<stored, flags, route, rules, owed, wake, sent, doubt, spent>>

\* Rules() fails, at the query or between two rows: the error is logged and
\* routing goes on with the rows read so far.
LoadRulesFails ==
    /\ worker.pc = "plan" /\ DbFails
    /\ \E read \in SUBSET {r \in RuleIds : rules[r] # NoRule} :
         PlanWith([r \in RuleIds |-> IF r \in read THEN rules[r] ELSE NoRule])
    /\ UNCHANGED <<stored, flags, route, rules, owed, wake, sent, doubt>>

(***************************************************************************)
(* The loop of process: one action after the other, in the order of the    *)
(* rules and of their lists, and a save after each                         *)
(***************************************************************************)
Msg == worker.msg
Kind(k) == worker.docs[k[1]].actions[k[2]]

Precedes(k, j) ==
    \/ Before(worker.docs, k[1], j[1])
    \/ k[1] = j[1] /\ k[2] < j[2]

Current(k) ==
    /\ worker.pc = "act" /\ k \in worker.todo
    /\ \A j \in worker.todo \ {k} : Precedes(k, j)

\* An IMAP event is a header only: it can be told about, not forwarded or changed.
Runnable(m, kind) == Source[m] = "imap" => kind \in Notify

\* Noted as done in the copy, and not saved before a later save.
SkipForImap(k) ==
    /\ Current(k) /\ ~Runnable(Msg, Kind(k))
    /\ worker' = [worker EXCEPT !.todo = @ \ {k},
                     !.copy.results[k] = [status |-> "done", type |-> Kind(k)]]
    /\ UNCHANGED <<stored, flags, route, rules, owed, wake, sent, doubt, spent>>

Runs(k) == Current(k) /\ Runnable(Msg, Kind(k))

\* Slip: the last action decides whether the attempt failed
Ran_LastDecides(k, status) ==
    worker' = [worker EXCEPT
                 !.pc = "save", !.todo = @ \ {k},
                 !.copy.results[k] = [status |-> status, type |-> Kind(k)],
                 !.failed = status = "error",
                 !.unsaved = IF status = "done" /\ Kind(k) \in Push THEN {k} ELSE {}]

Ran(k, status) ==
    worker' = [worker EXCEPT
                 !.pc = "save", !.todo = @ \ {k},
                 !.copy.results[k] = [status |-> status, type |-> Kind(k)],
                 !.failed = @ \/ status = "error",
                 !.unsaved = IF status = "done" /\ Kind(k) \in Push THEN {k} ELSE {}]

Requested(k) == sent' = [sent EXCEPT ![Msg][k] = @ + 1]

PushAccepted(k) ==
    /\ Runs(k) /\ Kind(k) \in Push
    /\ Requested(k) /\ Ran(k, "done")
    /\ UNCHANGED <<stored, flags, route, rules, owed, wake, doubt, spent>>

\* No key, no connection, or a service that answers with an error.
PushRefused(k) ==
    /\ Runs(k) /\ Kind(k) \in Push
    /\ Ran(k, "error")
    /\ UNCHANGED <<stored, flags, route, rules, owed, wake, sent, doubt, spent>>

\* The service took it; the timeout or an unreadable answer says otherwise.
PushAnswerLost(k) ==
    /\ Runs(k) /\ Kind(k) \in Push /\ spent.lost < MaxLost
    /\ Requested(k) /\ Ran(k, "error")
    /\ doubt' = [doubt EXCEPT ![Msg][k] = @ + 1]
    /\ spent' = [spent EXCEPT !.lost = @ + 1]
    /\ UNCHANGED <<stored, flags, route, rules, owed, wake>>

FlagOf(kind) == CASE kind = "tag"       -> "tagged"
                  [] kind = "mark_read" -> "seen"
                  [] kind = "trash"     -> "deleted"

\* Slip: the column is written instead of added to
LocalDone_Overwrites(k) ==
    /\ Runs(k) /\ Kind(k) \in Local
    /\ Kind(k) = "tag" => stored[Msg] = "stored"
    /\ flags' = IF stored[Msg] = "stored"
                THEN [flags EXCEPT ![Msg] = {FlagOf(Kind(k))}] ELSE flags
    /\ Ran(k, "done")
    /\ UNCHANGED <<stored, route, rules, owed, wake, sent, doubt, spent>>

\* AddTags must find the row; SetFlag updates no row without a word.
LocalDone(k) ==
    /\ Runs(k) /\ Kind(k) \in Local
    /\ Kind(k) = "tag" => stored[Msg] = "stored"
    /\ flags' = IF stored[Msg] = "stored"
                THEN [flags EXCEPT ![Msg] = @ \cup {FlagOf(Kind(k))}] ELSE flags
    /\ Ran(k, "done")
    /\ UNCHANGED <<stored, route, rules, owed, wake, sent, doubt, spent>>

LocalFails(k) ==
    /\ Runs(k) /\ Kind(k) \in Local
    /\ \/ Kind(k) = "tag" /\ stored[Msg] = "gone" /\ UNCHANGED spent
       \/ DbFails
    /\ Ran(k, "error")
    /\ UNCHANGED <<stored, flags, route, rules, owed, wake, sent, doubt>>

\* SaveRouting updates the row if it is still there, and no row otherwise.
SaveRouting(state) ==
    route' = IF stored[Msg] = "stored" THEN [route EXCEPT ![Msg] = state]
                                       ELSE route

SaveResult ==
    /\ worker.pc = "save"
    /\ SaveRouting([worker.copy EXCEPT !.next = "later"])
    /\ worker' = [worker EXCEPT !.pc = "act", !.unsaved = {}]
    /\ UNCHANGED <<stored, flags, rules, owed, wake, sent, doubt, spent>>

\* Slip: one attempt too many
Outcome_OffByOne ==
    IF worker.failed /\ worker.copy.attempts > MaxAttempts THEN "failed"
    ELSE IF worker.failed THEN "retry"
    ELSE "done"

Outcome ==
    IF worker.failed /\ worker.copy.attempts >= MaxAttempts THEN "failed"
    ELSE IF worker.failed THEN "retry"
    ELSE "done"

Finish ==
    /\ worker.pc = "act" /\ worker.todo = {}
    /\ SaveRouting([worker.copy EXCEPT
                      !.status = Outcome,
                      !.next = IF Outcome = "retry" THEN "later" ELSE "none"])
    /\ worker' = Resting("claim")
    /\ UNCHANGED <<stored, flags, rules, owed, wake, sent, doubt, spent>>

\* What was sent and not yet saved is forgotten with the worker's memory.
Forgotten ==
    doubt' = IF worker.unsaved = {} THEN doubt
             ELSE [doubt EXCEPT ![Msg] = [k \in Keys |->
                     IF k \in worker.unsaved THEN @[k] + 1 ELSE @[k]]]

\* Either save fails: process returns, the row stays running, the loop goes on.
SaveFails ==
    /\ worker.pc \in {"save", "act"} /\ (worker.pc = "act" => worker.todo = {})
    /\ DbFails /\ Forgotten
    /\ worker' = Resting("claim")
    /\ UNCHANGED <<stored, flags, route, rules, owed, wake, sent>>

Work == \/ \E m \in Msgs : Claim(m)
        \/ NothingDue \/ ClaimFails
        \/ LoadRules \/ LoadRulesFails
        \/ \E k \in Keys : \/ SkipForImap(k)
                           \/ PushAccepted(k) \/ PushRefused(k) \/ PushAnswerLost(k)
                           \/ LocalDone(k) \/ LocalFails(k)
        \/ SaveResult \/ Finish \/ SaveFails

(***************************************************************************)
(* The select of Start: a token, the poll timer, the hourly cleanup or the *)
(* end of the context                                                      *)
(***************************************************************************)
Woken ==
    /\ worker.pc = "idle" /\ wake
    /\ wake' = FALSE
    /\ worker' = Resting("claim")
    /\ UNCHANGED <<stored, flags, route, rules, owed, sent, doubt, spent>>

Poll ==
    /\ worker.pc = "idle"
    /\ worker' = Resting("claim")
    /\ UNCHANGED <<stored, flags, route, rules, owed, wake, sent, doubt, spent>>

\* DeleteEventsOlderThan, run by the worker itself
Cleanup ==
    /\ worker.pc = "idle" /\ Moves
    /\ \E old \in SUBSET {m \in Msgs : Source[m] = "imap" /\ stored[m] = "stored"} \ {{}} :
         stored' = [m \in Msgs |-> IF m \in old THEN "gone" ELSE stored[m]]
    /\ worker' = Resting("claim")
    /\ UNCHANGED <<flags, route, rules, owed, wake, sent, doubt>>

ProcessEnds ==
    /\ spent.crashes < MaxCrashes
    /\ spent' = [spent EXCEPT !.crashes = @ + 1]
    /\ worker' = Resting("down") /\ wake' = FALSE /\ owed' = {}

\* Graceful: ctx is seen in the select only, so no action is cut off halfway.
Stop ==
    /\ worker.pc = "idle" /\ ProcessEnds
    /\ UNCHANGED <<stored, flags, route, rules, sent, doubt>>

Crash ==
    /\ Up /\ ProcessEnds /\ Forgotten
    /\ UNCHANGED <<stored, flags, route, rules, sent>>

Start ==
    /\ worker.pc = "down"
    /\ worker' = Resting("claim")
    /\ UNCHANGED <<stored, flags, route, rules, owed, wake, sent, doubt, spent>>

\* The saved due time of a row passes: of a backoff, or of a stale claim.
Elapse(m) ==
    /\ stored[m] = "stored" /\ route[m].next = "later"
    /\ route' = [route EXCEPT ![m].next = "due"]
    /\ UNCHANGED <<stored, flags, rules, owed, wake, worker, sent, doubt, spent>>

Next == \/ People \/ Work
        \/ Woken \/ Poll \/ Cleanup \/ Stop \/ Crash \/ Start
        \/ \E m \in Msgs : Elapse(m)

\* The goroutine goes on, the timer of its select fires, the process is
\* started again and time passes.  Nobody has to send, notify or edit.
Fairness == /\ WF_vars(Work) /\ WF_vars(Poll) /\ WF_vars(Start)
            /\ \A m \in Msgs : WF_vars(Elapse(m))

SafetySpec == Init /\ [][Next]_vars
Spec == SafetySpec /\ Fairness

(***************************************************************************)
(* Properties                                                              *)
(***************************************************************************)

\* Whatever is crashed, edited, purged or refused: beyond the first, every
\* request an action made for a message is one whose outcome was lost - its
\* answer, its save, or the process before the save (process, SaveRouting).
OnlyDoubtRepeats ==
    \A m \in Msgs, k \in Keys : sent[m][k] <= 1 + doubt[m][k]

\* An action the database calls done did happen: a push reached its service,
\* a tag is on the message.  No save runs ahead of the action, and what an
\* event cannot have done to it is the only exception.
DoneTookEffect ==
    \A m \in Msgs, k \in Keys :
        LET result == route[m].results[k] IN
        result.status = "done" /\ Runnable(m, result.type) =>
            /\ result.type \in Push => sent[m][k] >= 1
            /\ result.type = "tag" => "tagged" \in flags[m]

\* A claimed or failed row always keeps a due time, so that ClaimNext can
\* find it again whatever happened to the worker; a settled row keeps none.
NoRowForgotten ==
    \A m \in Msgs :
        route[m].next = "none" <=> route[m].status \in {"new", "done", "failed"}

\* Every claim but those that a crash or a failed save cut short is one of
\* the ROUTER_MAX_ATTEMPTS: a message is given up exactly when they are used
\* up and an action still failed, and never claimed more often.
AttemptsAccounted ==
    \A m \in Msgs :
        /\ route[m].attempts <= MaxAttempts + (spent.crashes + spent.dbErrors)
        /\ route[m].status = "retry" => route[m].attempts < MaxAttempts
        /\ route[m].status = "failed" =>
             /\ route[m].attempts >= MaxAttempts
             /\ \E k \in Keys : route[m].results[k].status = "error"

\* With unedited rules and a database that answers, "done" means that every
\* action of every matched rule is done, whatever was retried or crashed.
DoneIsComplete ==
    spent.edits = 0 /\ spent.dbErrors = 0 =>
        \A m \in Msgs : route[m].status = "done" =>
            \A r \in route[m].matched : \A k \in ActionsOf(rules, r) :
                route[m].results[k].status = "done"

\* No lost wake-up: when the worker sleeps after an answer of the database,
\* each new row has a token waiting or a handler that has yet to send one.
NoLostWakeUp ==
    worker.pc = "idle" /\ ~worker.blind =>
        \A m \in Msgs : Eligible(m) /\ route[m].status = "new" => wake \/ m \in owed

\* "matched: fixed when the message is first seen": once saved, the list can
\* lose the rules that are deleted, and no edit ever adds one.
MatchedOnlyShrinks ==
    [][\A m \in Msgs : route[m].fixed =>
          route'[m].fixed /\ route'[m].matched \subseteq route[m].matched]_vars

\* Every stored message the cut-over lets in is settled or removed, through
\* crashes, failed saves, refused requests and edits of the rules.
EveryMessageSettles ==
    \A m \in Msgs :
        stored[m] = "stored" /\ CreatedAt[m] >= Since
            ~> stored[m] = "gone" \/ route[m].status \in {"done", "failed"}

\* How a row shows the promise of RoutePromise.
OutcomeOf(m) ==
    IF stored[m] = "gone" THEN "gone"
    ELSE IF stored[m] = "unborn" \/ route[m].status = "new" THEN "waiting"
    ELSE IF route[m].status \in {"done", "failed"} THEN route[m].status
    ELSE "open"

DoneKeys(m) == {k \in Keys : route[m].results[k].status = "done"}

Promise == INSTANCE RoutePromise
             WITH outcome <- [m \in Msgs |-> OutcomeOf(m)],
                  recorded <- [m \in Msgs |-> DoneKeys(m)]

\* The worker makes no request for an action that is on record, the record
\* only grows, and a settled message stays settled and is left alone.
ImplementsPromise == Promise!Spec
=============================================================================
