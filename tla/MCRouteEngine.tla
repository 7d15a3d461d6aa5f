--------------------------- MODULE MCRouteEngine ---------------------------
(* Instances of RouteEngine for TLC: one stored message, one IMAP event and *)
(* one spam message, and the few rule documents their runs choose from.     *)
EXTENDS RouteClaims

CONSTANTS letter, event, junk

McSource    == [m \in Msgs |-> IF m = event THEN "imap" ELSE "smtp"]
McCreatedAt == [m \in Msgs |-> IF m = junk THEN 2 ELSE 1]
McSpam      == Msgs \cap {junk}

Doc(order, stop, takes, actions) ==
    [valid |-> TRUE, enabled |-> TRUE, stop |-> stop, order |-> order,
     takes |-> Msgs \cap takes, includeSpam |-> FALSE, actions |-> actions]

\* tell about everything and forward it, then stop
TellAndForward == Doc(1, TRUE, {letter, event, junk}, <<"ntfy", "forward">>)
\* the same two actions the other way round
ForwardAndTell == Doc(1, TRUE, {letter, event, junk}, <<"forward", "ntfy">>)
\* file it: a local rule that would come second
TagAndTrash == Doc(2, FALSE, {letter, junk}, <<"tag", "trash">>)
\* a rule that also takes spam, and one the import let in unchecked
JunkToo == [Doc(1, FALSE, {junk, event}, <<"webhook", "mark_read">>)
              EXCEPT !.includeSpam = TRUE]
Broken == [TagAndTrash EXCEPT !.valid = FALSE]

TwoDocs == {TellAndForward, TagAndTrash}
SwapDocs == {TellAndForward, ForwardAndTell}
EditDocs == {JunkToo, TagAndTrash, Broken}

McRules    == [r \in RuleIds |-> IF r = 1 THEN TellAndForward ELSE TagAndTrash]
EditRules  == [r \in RuleIds |-> IF r = 1 THEN JunkToo ELSE TagAndTrash]
=============================================================================
