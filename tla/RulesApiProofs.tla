--------------------------- MODULE RulesApiProofs ---------------------------
(***************************************************************************)
(* The rules of .env stay what .env says under any overlap of requests.    *)
(* What makes it inductive is a fact about the requests in flight: whether *)
(* a row is an .env rule cannot change under a request, because requests   *)
(* never change it and a start, which may, ends them all.                  *)
(***************************************************************************)
EXTENDS RulesApi, TLAPS

\* A request between its read and its write will not change whose rule it is.
CallsKeepOwner ==
  \A c \in Clients : calls[c] # Idle =>
    /\ FromEnv(calls[c].doc) <=> FromEnv(table[calls[c].id])
    /\ FromEnv(calls[c].doc) => calls[c].doc.body = table[calls[c].id].body

OwnerInv == TypeOK /\ EnvRulesFollowSettings /\ CallsKeepOwner

LEMMA SeededRow ==
  ASSUME NEW setting \in Bodies \cup {NoSetting}, NEW cur \in Doc \cup {NoRule}
  PROVE  /\ Seeded(setting, cur) \in Doc \cup {NoRule}
         /\ setting = NoSetting => ~FromEnv(Seeded(setting, cur))
         /\ setting \in Bodies \ Faulty =>
              /\ FromEnv(Seeded(setting, cur))
              /\ Seeded(setting, cur).body = setting
  <1>1. CASE setting \in Bodies
    <2>1. setting # NoSetting
      BY <1>1, IdAssumption
    <2>2. EnvDoc(setting) \in Doc /\ EnvDoc(setting).body = setting /\ EnvDoc(setting).env
      BY <1>1 DEF EnvDoc, Doc
    <2>3. FromEnv(EnvDoc(setting))
      BY <2>2, IdAssumption DEF FromEnv
    <2> QED
      BY <1>1, <2>1, <2>2, <2>3 DEF Seeded
  <1>2. CASE setting = NoSetting
    BY <1>2, IdAssumption DEF Seeded, FromEnv
  <1> QED
    BY <1>1, <1>2

LEMMA InitOwner == Init => OwnerInv
  <1> SUFFICES ASSUME Init PROVE OwnerInv
    OBVIOUS
  <1>1. TypeOK
    BY SeededRow, IdAssumption DEF Init, TypeOK
  <1>2. EnvRulesFollowSettings
    BY SeededRow, IdAssumption DEF Init, EnvRulesFollowSettings, FromEnv
  <1>3. CallsKeepOwner
    BY DEF Init, CallsKeepOwner
  <1> QED
    BY <1>1, <1>2, <1>3 DEF OwnerInv

\* The read half of any handler whose document keeps the owner of the row.
LEMMA ReadsKeep ==
  ASSUME OwnerInv, NEW c \in Clients, NEW r \in Ids, NEW doc \in Doc \cup {NoRule},
         NEW op \in {"save", "delete", "toggle"}, Reads(c, op, r, doc),
         FromEnv(doc) <=> FromEnv(table[r]),
         FromEnv(doc) => doc.body = table[r].body
  PROVE  OwnerInv'
  <1>1. UNCHANGED <<table, config, unseeded, deleted, spent>>
    BY DEF Reads
  <1>2. [op |-> op, id |-> r, doc |-> doc] \in Call
    BY DEF Call
  <1>3. TypeOK'
    BY <1>1, <1>2 DEF Reads, OwnerInv, TypeOK
  <1>4. EnvRulesFollowSettings'
    BY <1>1 DEF OwnerInv, EnvRulesFollowSettings
  <1>5. CallsKeepOwner'
    BY <1>1 DEF Reads, OwnerInv, CallsKeepOwner, TypeOK
  <1> QED
    BY <1>3, <1>4, <1>5 DEF OwnerInv

LEMMA WritesKeep ==
  ASSUME OwnerInv, NEW c \in Clients, Writes(c)
  PROVE  OwnerInv'
  <1> DEFINE call == calls[c]
  <1>1. call \in Call /\ UNCHANGED <<config, unseeded, spent>>
    BY DEF Writes, OwnerInv, TypeOK
  <1>2. call.id \in Ids /\ call.doc \in Doc \cup {NoRule}
        /\ call.op \in {"save", "delete", "toggle"}
    BY <1>1 DEF Call
  <1>3. table' = [table EXCEPT ![call.id] = call.doc]
        /\ calls' = [calls EXCEPT ![c] = Idle]
    BY DEF Writes
  <1>4. /\ FromEnv(call.doc) <=> FromEnv(table[call.id])
        /\ FromEnv(call.doc) => call.doc.body = table[call.id].body
    BY DEF Writes, OwnerInv, CallsKeepOwner
  <1> HIDE DEF call
  <1>5. TypeOK'
    <2>1. deleted' \subseteq Ids
      <3>1. \/ deleted' = deleted \cup {call.id} \/ deleted' = deleted \ {call.id}
            \/ deleted' = deleted
        BY <1>2 DEF Writes, call
      <3> QED
        BY <1>2, <3>1 DEF OwnerInv, TypeOK
    <2>2. table' \in [Ids -> Doc \cup {NoRule}]
      BY <1>2, <1>3 DEF OwnerInv, TypeOK
    <2>3. calls' \in [Clients -> Call \cup {Idle}]
      BY <1>3 DEF OwnerInv, TypeOK
    <2> QED
      BY <1>1, <2>1, <2>2, <2>3 DEF OwnerInv, TypeOK
  <1>6. \A r \in Ids : /\ FromEnv(table'[r]) <=> FromEnv(table[r])
                       /\ FromEnv(table'[r]) => table'[r].body = table[r].body
    BY <1>2, <1>3, <1>4 DEF OwnerInv, TypeOK
  <1>7. EnvRulesFollowSettings'
    <2>1. ASSUME NEW r \in Ids, r \notin unseeded
          PROVE  /\ FromEnv(table'[r]) => r \in EnvIds /\ config[r] # NoSetting
                 /\ r \in EnvIds /\ config[r] \in Bodies \ Faulty =>
                      FromEnv(table'[r]) /\ table'[r].body = config[r]
      BY <1>6, <2>1 DEF OwnerInv, EnvRulesFollowSettings
    <2> QED
      BY <1>1, <2>1 DEF EnvRulesFollowSettings, FromEnv
  <1>8. CallsKeepOwner'
    <2>1. ASSUME NEW d \in Clients, calls'[d] # Idle
          PROVE  /\ FromEnv(calls'[d].doc) <=> FromEnv(table'[calls'[d].id])
                 /\ FromEnv(calls'[d].doc) => calls'[d].doc.body = table'[calls'[d].id].body
      <3>1. calls'[d] = calls[d] /\ calls[d] # Idle /\ calls[d].id \in Ids
        BY <1>3, <2>1 DEF OwnerInv, TypeOK, Call
      <3> QED
        BY <1>6, <3>1 DEF OwnerInv, CallsKeepOwner
    <2> QED
      BY <2>1 DEF CallsKeepOwner, FromEnv
  <1> QED
    BY <1>5, <1>7, <1>8 DEF OwnerInv

LEMMA RestartKeeps ==
  ASSUME OwnerInv, Restart
  PROVE  OwnerInv'
  <1>1. PICK settings \in [EnvIds -> Bodies \cup {NoSetting}], broken \in SUBSET EnvIds :
          /\ SeedLegacyRules(settings, broken)
          /\ spent' = [restarts |-> spent.restarts + 1,
                       dbErrors |-> spent.dbErrors + (IF broken = {} THEN 0 ELSE 1)]
    BY DEF Restart
  <1>2. /\ config' = settings /\ unseeded' = broken
        /\ \A r \in EnvIds \ broken : table'[r] = Seeded(settings[r], table[r])
        /\ \A r \in Ids \ (EnvIds \ broken) : table'[r] = table[r]
    BY <1>1, IdAssumption DEF SeedLegacyRules
  <1>3. table' \in [Ids -> Doc \cup {NoRule}]
    <2>1. \A r \in Ids : table[r] \in Doc \cup {NoRule}
      BY DEF OwnerInv, TypeOK
    <2>2. \A r \in EnvIds \ broken : Seeded(settings[r], table[r]) \in Doc \cup {NoRule}
      BY <2>1, SeededRow, IdAssumption
    <2> QED
      BY <1>1, <2>1, <2>2 DEF SeedLegacyRules
  <1>4. TypeOK'
    <2>1. calls' \in [Clients -> Call \cup {Idle}] /\ deleted' \subseteq Ids
      BY DEF Restart, OwnerInv, TypeOK
    <2>2. spent' \in [restarts : Nat, dbErrors : Nat]
      BY <1>1 DEF OwnerInv, TypeOK
    <2> QED
      BY <1>2, <1>3, <2>1, <2>2 DEF TypeOK
  <1>5. EnvRulesFollowSettings'
    <2>1. ASSUME NEW r \in Ids, r \notin broken, r \notin EnvIds PROVE ~FromEnv(table'[r])
      <3>1. r \notin unseeded /\ ~FromEnv(table[r])
        BY <2>1 DEF OwnerInv, TypeOK, EnvRulesFollowSettings
      <3> QED
        BY <1>2, <2>1, <3>1
    <2>2. ASSUME NEW r \in EnvIds \ broken
          PROVE  /\ FromEnv(table'[r]) => settings[r] # NoSetting
                 /\ settings[r] \in Bodies \ Faulty =>
                      FromEnv(table'[r]) /\ table'[r].body = settings[r]
      <3>1. settings[r] \in Bodies \cup {NoSetting} /\ table[r] \in Doc \cup {NoRule}
        BY IdAssumption DEF OwnerInv, TypeOK
      <3> QED
        BY <1>2, <3>1, SeededRow
    <2> QED
      BY <1>2, <2>1, <2>2 DEF EnvRulesFollowSettings, FromEnv
  <1>6. CallsKeepOwner'
    BY DEF Restart, CallsKeepOwner
  <1> QED
    BY <1>4, <1>5, <1>6 DEF OwnerInv

LEMMA OwnerStep == OwnerInv /\ [Next]_vars => OwnerInv'
  <1> SUFFICES ASSUME OwnerInv, [Next]_vars PROVE OwnerInv'
    OBVIOUS
  <1>1. ASSUME NEW c \in Clients, NEW r \in Ids, NEW body \in Bodies,
               NEW enabled \in BOOLEAN, SaveReads(c, r, body, enabled)
        PROVE  OwnerInv'
    BY <1>1, ReadsKeep DEF SaveReads, Doc, FromEnv
  <1>2. ASSUME NEW c \in Clients, NEW r \in Ids, DeleteReads(c, r) PROVE OwnerInv'
    BY <1>2, ReadsKeep DEF DeleteReads, FromEnv
  <1>3. ASSUME NEW c \in Clients, NEW r \in Ids, NEW enabled \in BOOLEAN,
               ToggleReads(c, r, enabled)
        PROVE  OwnerInv'
    <2> DEFINE doc == [table[r] EXCEPT !.enabled = enabled]
    <2>1. table[r] \in Doc
      BY <1>3 DEF ToggleReads, OwnerInv, TypeOK
    <2>2. doc \in Doc /\ doc.body = table[r].body /\ doc.env = table[r].env
      BY <2>1 DEF Doc
    <2>3. FromEnv(doc) <=> FromEnv(table[r])
      BY <2>1, <2>2, IdAssumption DEF FromEnv
    <2> QED
      BY <1>3, <2>2, <2>3, ReadsKeep DEF ToggleReads
  <1>4. ASSUME NEW c \in Clients, GivesUp(c) PROVE OwnerInv'
    <2>1. TypeOK'
      BY <1>4 DEF GivesUp, OwnerInv, TypeOK
    <2>2. EnvRulesFollowSettings'
      BY <1>4 DEF GivesUp, OwnerInv, EnvRulesFollowSettings
    <2>3. CallsKeepOwner'
      BY <1>4 DEF GivesUp, OwnerInv, CallsKeepOwner, TypeOK
    <2> QED
      BY <2>1, <2>2, <2>3 DEF OwnerInv
  <1>5. CASE UNCHANGED vars
    BY <1>5 DEF vars, OwnerInv, TypeOK, EnvRulesFollowSettings, CallsKeepOwner
  <1> QED
    BY <1>1, <1>2, <1>3, <1>4, <1>5, WritesKeep, RestartKeeps DEF Next

\* The rules of .env follow its settings, for any set of rules and requests.
THEOREM EnvRulesFollow == Spec => []EnvRulesFollowSettings
  <1>1. OwnerInv => EnvRulesFollowSettings
    BY DEF OwnerInv
  <1> QED
    BY InitOwner, OwnerStep, <1>1, PTL DEF Spec
\* The rule table has the types the model says, for any rules and requests.
THEOREM RulesTyped == Spec => []TypeOK
  <1>1. OwnerInv => TypeOK
    BY DEF OwnerInv
  <1> QED
    BY InitOwner, OwnerStep, <1>1, PTL DEF Spec

\* A start replaces a user's rule only by one .env spells, and removes none.
THEOREM StartSpares == Spec => StartSparesUserRules
  <1> DEFINE Spares == spent'.restarts # spent.restarts =>
                \A r \in Ids : table[r] # NoRule /\ ~table[r].env /\ table'[r] # table[r] =>
                    r \in EnvIds /\ table'[r] = EnvDoc(config'[r])
  <1>1. ASSUME OwnerInv, Next, spent'.restarts # spent.restarts PROVE Restart
    <2>1. ASSUME NEW c \in Clients, NEW op, NEW r \in Ids, NEW doc, Reads(c, op, r, doc)
          PROVE  FALSE
      BY <1>1, <2>1 DEF Reads
    <2>2. ASSUME NEW c \in Clients, Writes(c) \/ GivesUp(c) PROVE FALSE
      BY <1>1, <2>2 DEF Writes, GivesUp
    <2> QED
      BY <1>1, <2>1, <2>2 DEF Next, SaveReads, DeleteReads, ToggleReads
  <1>2. ASSUME OwnerInv, Restart, NEW r \in Ids,
               table[r] # NoRule, ~table[r].env, table'[r] # table[r]
        PROVE  r \in EnvIds /\ table'[r] = EnvDoc(config'[r])
    <2>1. PICK settings \in [EnvIds -> Bodies \cup {NoSetting}], broken \in SUBSET EnvIds :
            SeedLegacyRules(settings, broken)
      BY <1>2 DEF Restart
    <2>2. /\ config' = settings
          /\ r \in EnvIds \ broken /\ table'[r] = Seeded(settings[r], table[r])
      BY <1>2, <2>1 DEF SeedLegacyRules
    <2>3. ~FromEnv(table[r])
      BY <1>2 DEF FromEnv
    <2> QED
      BY <1>2, <2>2, <2>3 DEF Seeded
  <1>3. OwnerInv /\ [Next]_vars => [Spares]_vars
    BY <1>1, <1>2
  <1> QED
    BY InitOwner, OwnerStep, <1>3, PTL DEF Spec, StartSparesUserRules
=============================================================================
