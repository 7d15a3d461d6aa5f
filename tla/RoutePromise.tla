---------------------------- MODULE RoutePromise ----------------------------
(***************************************************************************)
(* What the routing worker promises about one stored message, without the  *)
(* worker: its outcome, the actions on record as done, and the requests    *)
(* made for it.  RouteEngine implements it (RouteEngine!ImplementsPromise).*)
(***************************************************************************)
EXTENDS Naturals

CONSTANTS Msgs, Keys

VARIABLES
    outcome,    \* waiting -> open -> done or failed, and gone from any of them
    recorded,   \* the actions the stored state knows to be done
    sent        \* requests the outside services took, per action

vars == <<outcome, recorded, sent>>

Init == /\ outcome = [m \in Msgs |-> "waiting"]
        /\ recorded = [m \in Msgs |-> {}]
        /\ sent = [m \in Msgs |-> [k \in Keys |-> 0]]

Take(m) == /\ outcome[m] = "waiting"
           /\ outcome' = [outcome EXCEPT ![m] = "open"]
           /\ UNCHANGED <<recorded, sent>>

\* A request is made for an open message, or for one removed under the
\* worker's hands, and never for an action that is on record.
Send(m, k) == /\ outcome[m] \in {"open", "gone"} /\ k \notin recorded[m]
              /\ sent' = [sent EXCEPT ![m][k] = @ + 1]
              /\ UNCHANGED <<outcome, recorded>>

\* Records only grow, and a message is settled once.
Record(m) == /\ outcome[m] = "open"
             /\ outcome'[m] \in {"open", "done", "failed"}
             /\ outcome' = [outcome EXCEPT ![m] = outcome'[m]]
             /\ recorded[m] \subseteq recorded'[m]
             /\ recorded' = [recorded EXCEPT ![m] = recorded'[m]]
             /\ UNCHANGED sent

\* Users, the TTL and the cleanup remove messages at any time.
Remove == /\ \A m \in Msgs : outcome'[m] \in {outcome[m], "gone"}
          /\ outcome' = [m \in Msgs |-> outcome'[m]]
          /\ UNCHANGED <<recorded, sent>>

Next == \/ \E m \in Msgs : Take(m) \/ Record(m)
        \/ \E m \in Msgs, k \in Keys : Send(m, k)
        \/ Remove

Spec == Init /\ [][Next]_vars
=============================================================================
