------------------------------ MODULE RulesApi ------------------------------
(***************************************************************************)
(* The rule table and its writers (src/router.go, src/routestore.go): the  *)
(* handlers of the rules API, each of which reads the rule in one database *)
(* call and writes it in another while other requests are served, and the  *)
(* seeding of the .env rules when the process starts.                      *)
(*                                                                         *)
(* Of a rule document the model keeps the enabled field, managed_by, and   *)
(* everything else as its body.  A request that is refused (400, 404, 409) *)
(* changes nothing and is not an action.                                   *)
(***************************************************************************)
EXTENDS Naturals

CONSTANTS
    Ids,           \* rule ids
    EnvIds,        \* env-forward and env-paypal-forward
    Bodies,        \* what a rule says
    Faulty,        \* the bodies among them that validateRule rejects
    NoRule,        \* no row under this id
    NoSetting,     \* the FORWARD_* variables are not all set
    Clients,       \* concurrent requests
    Idle,          \* no request
    MaxRestarts,   \* bound: restarts
    MaxDbErrors    \* bound: failing database calls

Doc == [body : Bodies, enabled : BOOLEAN, env : BOOLEAN]

ASSUME IdAssumption ==
    /\ EnvIds \subseteq Ids /\ Faulty \subseteq Bodies
    /\ NoRule \notin Doc /\ NoSetting \notin Bodies

VARIABLES
    table,    \* routing_rules
    config,   \* EnvIds -> the rule .env spells, as of the last start
    unseeded, \* env ids whose seeding met a database error at the last start
    calls,    \* Clients -> the request between its read and its write
    deleted,  \* ids whose DELETE was answered and not saved since (history)
    spent     \* how much of each bound is used up

vars == <<table, config, unseeded, calls, deleted, spent>>

Call == [op : {"save", "delete", "toggle"}, id : Ids, doc : Doc \cup {NoRule}]

TypeOK ==
    /\ table \in [Ids -> Doc \cup {NoRule}]
    /\ config \in [EnvIds -> Bodies \cup {NoSetting}]
    /\ unseeded \subseteq EnvIds
    /\ calls \in [Clients -> Call \cup {Idle}]
    /\ deleted \subseteq Ids
    /\ spent \in [restarts : Nat, dbErrors : Nat]

FromEnv(doc) == doc # NoRule /\ doc.env
EnvDoc(body) == [body |-> body, enabled |-> TRUE, env |-> TRUE]

\* A definition X_... before X is X with a slip in it, not part of the
\* specification (README, "Slips").

\* Slip: variables that are not set make a rule, too
Seeded_Unset(setting, cur) == IF setting \in Faulty THEN cur ELSE EnvDoc(setting)

\* Slip: clearing the variables removes whatever has the id
Seeded_TakesAll(setting, cur) ==
    IF setting = NoSetting THEN NoRule
    ELSE IF setting \in Faulty THEN cur
    ELSE EnvDoc(setting)

\* seedLegacyRules for one id: what it leaves in place of cur.
Seeded(setting, cur) ==
    IF setting = NoSetting THEN IF FromEnv(cur) THEN NoRule ELSE cur
    ELSE IF setting \in Faulty THEN cur
    ELSE EnvDoc(setting)

\* A database call that fails for one of the ids in "broken" leaves its row.
SeedLegacyRules(settings, broken) ==
    /\ config' = settings /\ unseeded' = broken
    /\ table' = [r \in Ids |-> IF r \in EnvIds \ broken
                               THEN Seeded(settings[r], table[r]) ELSE table[r]]

Init ==
    /\ config \in [EnvIds -> Bodies \cup {NoSetting}]
    /\ table = [r \in Ids |-> IF r \in EnvIds THEN Seeded(config[r], NoRule) ELSE NoRule]
    /\ unseeded = {}
    /\ calls = [c \in Clients |-> Idle]
    /\ deleted = {}
    /\ spent = [restarts |-> 0, dbErrors |-> 0]

\* The read half of a handler.
Reads(c, op, r, doc) ==
    /\ calls[c] = Idle
    /\ calls' = [calls EXCEPT ![c] = [op |-> op, id |-> r, doc |-> doc]]
    /\ UNCHANGED <<table, config, unseeded, deleted, spent>>

\* saveRule: the document is validated and stripped of managed_by.
SaveReads(c, r, body, enabled) ==
    /\ body \notin Faulty /\ ~FromEnv(table[r])
    /\ Reads(c, "save", r, [body |-> body, enabled |-> enabled, env |-> FALSE])

\* Slip: without the 409
DeleteReads_AnyRule(c, r) == table[r] # NoRule /\ Reads(c, "delete", r, NoRule)

DeleteReads(c, r) ==
    /\ table[r] # NoRule /\ ~FromEnv(table[r])
    /\ Reads(c, "delete", r, NoRule)

\* The whole document is read, and written back with another enabled.
ToggleReads(c, r, enabled) ==
    /\ table[r] # NoRule
    /\ Reads(c, "toggle", r, [table[r] EXCEPT !.enabled = enabled])

\* The write half: PutRule or DeleteRule by id, whatever is there by now.
Writes(c) ==
    /\ calls[c] # Idle
    /\ table' = [table EXCEPT ![calls[c].id] = calls[c].doc]
    /\ calls' = [calls EXCEPT ![c] = Idle]
    /\ deleted' = CASE calls[c].op = "delete" -> deleted \cup {calls[c].id}
                    [] calls[c].op = "save"   -> deleted \ {calls[c].id}
                    [] calls[c].op = "toggle" -> deleted
    /\ UNCHANGED <<config, unseeded, spent>>

\* The write fails, or the client is gone before its body is read.
GivesUp(c) ==
    /\ calls[c] # Idle
    /\ calls' = [calls EXCEPT ![c] = Idle]
    /\ UNCHANGED <<table, config, unseeded, deleted, spent>>

\* The process ends with the requests it serves; .env may be edited; Start
\* seeds before any listener is opened.
Restart ==
    /\ spent.restarts < MaxRestarts
    /\ \E settings \in [EnvIds -> Bodies \cup {NoSetting}], broken \in SUBSET EnvIds :
         /\ broken # {} => spent.dbErrors < MaxDbErrors
         /\ SeedLegacyRules(settings, broken)
         /\ spent' = [restarts |-> spent.restarts + 1,
                      dbErrors |-> spent.dbErrors + (IF broken = {} THEN 0 ELSE 1)]
    /\ calls' = [c \in Clients |-> Idle]
    /\ deleted' = deleted \ {r \in Ids : table'[r] # NoRule}

Next == \/ \E c \in Clients, r \in Ids :
             \/ \E body \in Bodies, enabled \in BOOLEAN : SaveReads(c, r, body, enabled)
             \/ DeleteReads(c, r)
             \/ \E enabled \in BOOLEAN : ToggleReads(c, r, enabled)
        \/ \E c \in Clients : Writes(c) \/ GivesUp(c)
        \/ Restart

Spec == Init /\ [][Next]_vars

(***************************************************************************)
(* Properties                                                              *)
(***************************************************************************)

\* While the process runs, an .env rule says what .env said at its start, and
\* only those rules carry managed_by: no overlap of saves, deletions and
\* toggles gets past the 409 answers (saveRule, DELETE, seedLegacyRules).
EnvRulesFollowSettings ==
    \A r \in Ids : r \notin unseeded =>
        /\ FromEnv(table[r]) => r \in EnvIds /\ config[r] # NoSetting
        /\ r \in EnvIds /\ config[r] \in Bodies \ Faulty =>
             FromEnv(table[r]) /\ table[r].body = config[r]

\* A start replaces a user's rule only by a rule .env spells, and removes none.
StartSparesUserRules ==
    [][spent'.restarts # spent.restarts =>
         \A r \in Ids : table[r] # NoRule /\ ~table[r].env /\ table'[r] # table[r] =>
             r \in EnvIds /\ table'[r] = EnvDoc(config'[r])]_vars

\* docs/mail-router.md, "read-only rules named env-forward and
\* env-paypal-forward": no request changes a rule that comes from .env.
EnvRulesReadOnly ==
    [][spent'.restarts = spent.restarts =>
         \A r \in Ids : FromEnv(table[r]) => table'[r] = table[r]]_vars

\* docs/mail-router.md, "PUT / DELETE /rules/<id>: replace / delete": a rule
\* whose DELETE was answered is not there until somebody saves it again.
DeletedStaysDeleted == \A r \in deleted : table[r] = NoRule
=============================================================================
