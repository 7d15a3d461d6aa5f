--------------------------- MODULE BridgeInvariant ---------------------------
(***************************************************************************)
(* What makes TypeOK, CommandsKeepTheirFolder and ConfirmedSurvives of     *)
(* Bridge inductive.  A handler is a chain of operators on the memory p of *)
(* the process; in the middle of it, all but its own request fit, so the   *)
(* parts below are said of the requests in a set R.                        *)
(***************************************************************************)
EXTENDS Bridge

Maps     == UNION {[D -> Nat] : D \in SUBSET Nat}
Mades    == [email : Emails, folders : BOOLEAN, conn : Nat]
Conns    == [state : {"connecting", "up", "gone"}, folder : Folders \cup {None},
             queue : Seq(Slots)]
Requests == [stage : Stages, kind : Kinds, id : Nat, client : Nat,
             folder : Folders \cup {None}, conn : Nat, on : Nat, todo : Seq(Emails),
             ok : BOOLEAN, fresh : SUBSET Emails]
Memories == [clients : Maps, clientId : Nat, made : Seq(Mades), conns : Seq(Conns),
             reqs : [Slots -> Requests]]

\* Ids are handed out once, and name clients and connections there are.
Linked(p) ==
    /\ \A i \in DOMAIN p.clients : i \in 1 .. p.clientId /\ p.clients[i] \in DOMAIN p.made
    /\ \A c \in DOMAIN p.made : p.made[c].conn \in DOMAIN p.conns

KindsAt == [idle |-> {"none"}, connect |-> {"one", "read", "folders", "add", "import"},
            shared |-> {"folders"}, lock |-> {"one", "read"},
            command |-> {"one", "read", "folders"}, parse |-> {"read"}, flag |-> {"read"},
            logout |-> {"delete"}]

\* What a request refers to.
Fits(p, req) ==
    /\ req.stage = "idle" => req = Idle
    /\ req.kind \in KindsAt[req.stage]
    /\ req.stage # "idle" => req.client \in DOMAIN p.made
    /\ req.id \in 0 .. p.clientId /\ req.conn \in 0 .. Len(p.conns)
    /\ req.stage = "connect" => req.conn # 0
    /\ req.stage \in {"command", "flag", "logout"} => req.on \in DOMAIN p.conns
    /\ req.fresh # {} => req.ok /\ req.kind = "import"

\* A request under the lock, or waiting for it.
Locking(req) == req.kind \in {"one", "read"} /\ req.stage \in Holding \cup {"lock"}

\* Only the head of a queue may be past "lock"; a connection that is not up has
\* no queue.
Queued(p, R) ==
    \A k \in DOMAIN p.conns :
        LET queue == p.conns[k].queue IN
        /\ ToSet(queue) \subseteq R /\ IsInjective(queue)
        /\ p.conns[k].state # "up" => queue = <<>>
        /\ \A i \in DOMAIN queue : /\ Locking(p.reqs[queue[i]]) /\ p.reqs[queue[i]].conn = k
                                   /\ i # 1 => p.reqs[queue[i]].stage = "lock"

\* r is where it should be on its connection, or that has ended.
InPlace(p, r) ==
    LET req  == p.reqs[r]
        conn == p.conns[req.conn]
    IN /\ req.conn # 0
       /\ conn.state = "gone" => req.stage \notin {"lock", "command"}
       /\ conn.state # "gone" =>
            /\ conn.state = "up" /\ p.made[req.client].conn = req.conn
            /\ r \in ToSet(conn.queue)
            /\ req.stage # "lock" => Head(conn.queue) = r /\ conn.folder = req.folder
            /\ req.stage \in {"command", "flag"} => req.on = req.conn

\* A connection that is being made for a request is nobody else's yet.
Alone(p, R, r) ==
    /\ p.conns[p.reqs[r].conn].state # "up"
    /\ \A s \in R \ {r} : p.reqs[s].conn # p.reqs[r].conn

Solid(p, R) ==
    /\ p \in Memories /\ Linked(p)
    /\ \A r \in R : /\ Fits(p, p.reqs[r])
                    /\ Locking(p.reqs[r]) => InPlace(p, r)
                    /\ p.reqs[r].stage = "connect" => Alone(p, R, r)
    /\ Queued(p, R)

\* An account with this mailbox is there, and nobody is deleting it.
Holds(p, email) ==
    \E i \in DOMAIN p.clients : /\ p.made[p.clients[i]].email = email
                                /\ \A r \in Slots : p.reqs[r].id # i

\* What was answered is in the memory, undeleted, and in the file.
Lasting ==
    ~past.torn => /\ file # Torn /\ past.confirmed \subseteq ToSet(file)
                  /\ up # "down" => \A email \in past.confirmed : Holds(bridge, email)

\* The inductive invariant behind the three properties (server.js, client.js).
BridgeInv ==
    /\ up \in {"down", "restoring", "up"}
    /\ up # "up" => bridge.reqs = [r \in Slots |-> Idle]
    /\ up = "down" => bridge = Fresh
    /\ file = Torn \/ file \in Seq(Emails)
    /\ past \in [confirmed : SUBSET Emails, torn : BOOLEAN]
    /\ Solid(bridge, Slots)
    /\ Lasting
=============================================================================
