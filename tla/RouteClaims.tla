---------------------------- MODULE RouteClaims ----------------------------
(***************************************************************************)
(* What docs/mail-router.md and the comments of router.go say of the       *)
(* worker and RouteEngine does not do: each is the property of one         *)
(* configuration, which ends in a counterexample.                          *)
(***************************************************************************)
EXTENDS RouteInvariant

\* docs/mail-router.md, "the state is saved after every action, so a restart
\* never repeats one that already went out": no key is ever requested twice.
RestartNeverRepeats == \A m \in Msgs, k \in Keys : sent[m][k] <= 1

\* router.go, "only actions that have not succeeded run again": no rule asks
\* a service for a message again once it has a success of that kind on record.
\* (Stated for rules whose actions are all of different kinds.)
OnlyUnfinishedRunAgain ==
    [][\A m \in Msgs, k \in Keys : sent'[m][k] # sent[m][k] =>
          \A j \in Keys : j[1] = k[1] /\ route[m].results[j].status = "done" =>
              route[m].results[j].type # Kind(k)]_vars

\* docs/mail-router.md, "runs rules against every message received after it
\* first started": as long as nobody edits a rule or moves the mail, a
\* message that is done has matched all the rules that select it.
EveryMessageMeetsTheRules ==
    spent.edits = 0 /\ spent.moves = 0 =>
        \A m \in Msgs : route[m].status = "done" =>
            route[m].matched = SelectRules(rules, m, m \in Spam)
=============================================================================
