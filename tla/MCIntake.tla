------------------------------- MODULE MCIntake --------------------------------
(* A small world of senders for Intake. *)
EXTENDS Intake

Mail0 == [ip |-> "out", from |-> "s", rcpts |-> {"a", "b"}, kind |-> "plain", blocked |-> FALSE]

Pair(x, y) == [m \in Mails |-> IF m = "m1" THEN x ELSE y]

Inside(kind) == [Mail0 EXCEPT !.ip = "lan", !.rcpts = {"a"}, !.kind = kind]
Only(x) == Pair(x, [x EXCEPT !.rcpts = {}])

\* one mail from outside, and a bounce; two of one sender to one recipient; a
\* blocked one and an empty one; auto-replies from inside; plain ones from inside
Deliveries ==
    LET ToA == [Mail0 EXCEPT !.rcpts = {"a"}]
    IN {Only(Mail0), Only([Mail0 EXCEPT !.from = NoSender]), Pair(ToA, ToA),
        Pair([Mail0 EXCEPT !.blocked = TRUE], Inside("empty")),
        Pair(Inside("loopEnv"), Inside("loopRule")),
        Pair(Inside("plain"), [Inside("plain") EXCEPT !.rcpts = {"a", "b"}])}

\* one from inside, while requests about its domains overlap each other and a start
Overlap == Only([Inside("plain") EXCEPT !.rcpts = {"a", "b"}])

MCPosts == Deliveries \cup {Overlap}
MCMost == [p \in MCPosts |->
             IF p = Overlap THEN [faults |-> 0, stops |-> 1, changes |-> 3, all |-> 4]
             ELSE [faults |-> 1, stops |-> 1, changes |-> 1, all |-> 2]]
MCDomainOf == ("a" :> "d1") @@ ("b" :> "d2")
MCRateMax == [rcpt |-> 2, data |-> 1]
MCRateWindow == [rcpt |-> 2, data |-> 2]
================================================================================
