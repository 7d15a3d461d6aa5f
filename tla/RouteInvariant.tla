--------------------------- MODULE RouteInvariant ---------------------------
(***************************************************************************)
(* The inductive strengthening of the safety properties of RouteEngine.    *)
(* It says how what the worker holds in memory is related to the row it    *)
(* was read from, and to the requests made so far.                         *)
(***************************************************************************)
EXTENDS RouteEngine

\* The worker's list names actions of rules it holds.
TodoListed ==
  \A k \in worker.todo : /\ worker.docs[k[1]] # NoRule
                         /\ k[2] \in 1 .. Len(worker.docs[k[1]].actions)

\* From its claim to its return the worker has a message in hand, and only
\* between an action and its save it has something to forget.
InHand ==
  /\ worker.pc \in {"plan", "act", "save"} <=> worker.msg \in Msgs
  /\ worker.unsaved # {} => worker.pc = "save"

TypeInv == TypeOK /\ TodoListed /\ InHand

\* A row that is not there yet has nothing in its routing columns.
BornFresh == \A m \in Msgs : stored[m] = "unborn" => route[m] = Fresh

Held(m) == worker.msg = m
InCopy(k) == worker.copy.results[k].status = "done"

\* The copy is the claimed row, ahead of it by the results not yet saved.
CopyAhead ==
  \A m \in Msgs : Held(m) =>
    /\ stored[m] # "unborn"
    /\ stored[m] = "stored" => route[m].status = "running"
    /\ worker.copy.status = "running"
    /\ worker.copy.attempts = route[m].attempts
    /\ \A k \in DoneKeys(m) : InCopy(k)
    /\ \A k \in worker.todo : ~InCopy(k)
    /\ worker.pc # "plan" => worker.copy.fixed
    /\ route[m].fixed => /\ worker.copy.fixed
                         /\ worker.copy.matched \subseteq route[m].matched

Unanswered(m, k) == sent[m][k] <= doubt[m][k]

\* As long as neither the copy nor the row has an action done, every request
\* made for it is in doubt.
RequestsCounted ==
  \A m \in Msgs, k \in Keys :
    /\ sent[m][k] <= 1 + doubt[m][k]
    /\ stored[m] = "unborn" => k \notin DoneKeys(m) /\ Unanswered(m, k)
    /\ Held(m) /\ ~InCopy(k) => Unanswered(m, k)
    /\ stored[m] = "stored" /\ k \notin DoneKeys(m)
         => Unanswered(m, k) \/ (Held(m) /\ k \in worker.unsaved)

\* Claims cut short by a crash or a database error.
CutShort == spent.crashes + spent.dbErrors

\* A claim that is no longer held was cut short, and cost one; what failed
\* since the claim is noted as an error and not tried again before the next.
ClaimsCounted ==
  \A m \in Msgs :
    /\ route[m].status = "new" => route[m].attempts = 0
    /\ route[m].status = "running" /\ stored[m] # "gone" /\ ~Held(m)
         => route[m].attempts < MaxAttempts + CutShort
    /\ Held(m) /\ worker.failed =>
         /\ worker.pc # "plan"
         /\ \E k \in Keys \ worker.todo : worker.copy.results[k].status = "error"

\* What the copy calls done has happened too.
CopyTookEffect ==
  \A m \in Msgs, k \in Keys :
    Held(m) /\ InCopy(k) /\ Runnable(m, worker.copy.results[k].type) =>
      /\ worker.copy.results[k].type \in Push => sent[m][k] >= 1
      /\ worker.copy.results[k].type = "tag" => "tagged" \in flags[m]

\* Without edits and errors the worker runs the rules of the table, and what
\* is neither done nor still to do has failed.
RunsTheTable ==
  spent.edits = 0 /\ spent.dbErrors = 0 /\ worker.pc \in {"act", "save"} =>
    /\ worker.docs = rules
    /\ worker.copy.matched \subseteq Usable(rules)
    /\ ~worker.failed => \A r \in worker.copy.matched : \A k \in ActionsOf(rules, r) :
         k \in worker.todo \/ InCopy(k)

SafetyInv == /\ TypeInv /\ BornFresh /\ CopyAhead /\ RequestsCounted
             /\ NoRowForgotten /\ ClaimsCounted /\ AttemptsAccounted
             /\ CopyTookEffect /\ DoneTookEffect
             /\ RunsTheTable /\ DoneIsComplete
=============================================================================
