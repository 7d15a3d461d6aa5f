------------------------------- MODULE Bridge -------------------------------
(***************************************************************************)
(* The accounts and connections of the IMAP bridge: the account and mail   *)
(* routes of src/imap-bridge/server.js, the main connection of a           *)
(* MailClient (client.js) and the accounts file (accountStore.js).  The    *)
(* status connection is in InboxWatch, what the mail routes answer in      *)
(* BridgePage.                                                             *)
(*                                                                         *)
(* The server is one process with an event loop: an action is what a       *)
(* handler does from one await to the next.  The handlers of one account   *)
(* share its connection, on which a mailbox lock orders them; they read    *)
(* the connection of the account anew at every command.                    *)
(*                                                                         *)
(* A connection (imapflow): commands and locks on one that is not usable   *)
(* fail, and when it ends, what runs on it and waits for its lock fails.   *)
(***************************************************************************)
EXTENDS Integers, FiniteSets, SequencesExt

CONSTANTS
    Emails,      \* the mailboxes an account can be added for
    Folders,     \* the folders of a mailbox
    Imports,     \* the lists of mailboxes a batch import may name
    Known,       \* the accounts in the file at first, in order
    None,        \* no client, connection or folder
    Torn,        \* a file that does not parse
    Slots,       \* bound: requests under way at a time (1..n)
    MaxRequests, \* bound: requests
    MaxFaults,   \* bound: connections and commands that fail
    MaxCrashes   \* bound: crashes of the process

ASSUME BridgeAssumption ==
    /\ Imports \subseteq Seq(Emails) /\ Known \in Seq(Emails)
    /\ None \notin Nat \cup Folders /\ Torn \notin Seq(Emails)
    /\ Slots \in SUBSET (Nat \ {0}) /\ IsFiniteSet(Slots) /\ Slots # {}
    /\ {MaxRequests, MaxFaults, MaxCrashes} \subseteq Nat

VARIABLES
    up,     \* down | restoring | up
    bridge, \* the memory of the process: clients, connections, requests
    file,   \* the mailboxes in the accounts file, in order, or Torn
    past,   \* history: see TypeOK
    spent   \* how much of each bound is used up

vars == <<up, bridge, file, past, spent>>

\* A definition X_... before X is X with a slip in it, not part of the
\* specification (README, "Slips").

\* stage: connect  a connection is being made for it
\*        shared   waits for the folder list another request has asked for
\*        lock     waits for the lock of conn
\*        command, flag  a command runs, on the connection "on"
\*        parse    the mail is downloaded and being parsed
\*        logout   the connection is being ended
\* todo, ok, fresh: the lines left, whether one was fine, what was added
Idle == [stage |-> "idle", kind |-> "none", id |-> 0, client |-> 0, folder |-> None,
         conn |-> 0, on |-> 0, todo |-> <<>>, ok |-> FALSE, fresh |-> {}]

Stages == {"idle", "connect", "shared", "lock", "command", "parse", "flag", "logout"}
Kinds  == {"none", "one", "read", "folders", "add", "import", "delete"}

\* clients: id -> client; made: the clients there are or were, with the
\* connection that is theirs; folders: the folder list is cached.
\* queue: the requests that hold (the head) and wait for the lock of a connection.
Fresh == [clients |-> <<>>, clientId |-> 0, made |-> <<>>, conns |-> <<>>,
          reqs |-> [r \in Slots |-> Idle]]

Holding == {"command", "parse", "flag"}

TypeOK ==
    /\ up \in {"down", "restoring", "up"}
    /\ file = Torn \/ file \in Seq(Emails)
    /\ \A i \in DOMAIN bridge.clients :
          i \in 1 .. bridge.clientId /\ bridge.clients[i] \in DOMAIN bridge.made
    /\ \A c \in DOMAIN bridge.made :
          /\ bridge.made[c].email \in Emails /\ bridge.made[c].folders \in BOOLEAN
          /\ bridge.made[c].conn \in DOMAIN bridge.conns
    /\ \A r \in Slots : bridge.reqs[r].stage \in Stages /\ bridge.reqs[r].kind \in Kinds
    /\ \A k \in DOMAIN bridge.conns :
          LET conn == bridge.conns[k] IN
          /\ conn.state \in {"connecting", "up", "gone"} /\ conn.folder \in Folders \cup {None}
          /\ IsInjective(conn.queue)
          \* only requests under way hold or wait for a lock
          /\ \A r \in ToSet(conn.queue) :
                bridge.reqs[r].conn = k /\ bridge.reqs[r].stage \in Holding \cup {"lock"}
    \* confirmed: accounts whose addition was answered, and not deleted since
    \* torn: a crash has torn the file
    /\ past.confirmed \subseteq Emails /\ past.torn \in BOOLEAN

Used(what, most) == spent[what] < most /\ spent' = [spent EXCEPT ![what] = @ + 1]

EmailsOf(p) == {p.made[p.clients[i]].email : i \in DOMAIN p.clients}

\* What save writes: the clients in the order of their ids.
Saved(p) ==
    LET D == DOMAIN p.clients
        Nth(n) == CHOOSE i \in D : Cardinality({j \in D : j <= i}) = n
    IN [n \in 1 .. Cardinality(D) |-> p.made[p.clients[Nth(n)]].email]

(***************************************************************************)
(* Connections and locks                                                   *)
(***************************************************************************)
Usable(p, c) == p.conns[p.made[c].conn].state = "up"

Dialling == [state |-> "connecting", folder |-> None, queue |-> <<>>]

NewConn(p) == [p EXCEPT !.conns = Append(@, Dialling)]

\* new MailClient
NewMade(email, k) == [email |-> email, folders |-> FALSE, conn |-> k]

\* new MailClient, and connect
NewClient(p, email) ==
    [NewConn(p) EXCEPT !.made = Append(@, NewMade(email, Len(p.conns) + 1))]

Waiting(p, r) == {s \in Slots : p.reqs[s].stage = "shared" /\ p.reqs[s].client = p.reqs[r].client}

\* The requests are answered, and those that wait for a folder list of theirs.
ReplyAll(p, R) ==
    [p EXCEPT !.reqs = [s \in Slots |->
        IF s \in R \/ \E r \in R : p.reqs[r].kind = "folders" /\ s \in Waiting(p, r)
        THEN Idle ELSE p.reqs[s]]]

Reply(p, r) == ReplyAll(p, {r})

\* The next one in the queue holds the lock.  A connection that ended has none.
Release(p, r) ==
    LET k     == p.reqs[r].conn
        queue == p.conns[k].queue
    IN IF k # 0 /\ queue # <<>> /\ Head(queue) = r
       THEN [p EXCEPT !.conns[k].queue = Tail(queue)] ELSE p

Run(p, r, stage) ==
    [p EXCEPT !.reqs[r].stage = stage, !.reqs[r].on = p.made[p.reqs[r].client].conn]

\* getMailboxLock on the connection the client has by now; the folder list needs no lock.
Ensured(p, r) ==
    LET c == p.reqs[r].client
        k == p.made[c].conn
    IN CASE ~Usable(p, c) -> Reply(p, r)
         [] Usable(p, c) /\ p.reqs[r].kind = "folders" -> Run(p, r, "command")
         [] OTHER -> [p EXCEPT !.conns[k].queue = Append(@, r),
                               !.reqs[r].conn = k, !.reqs[r].stage = "lock"]

EnsureConnected(p, r) ==
    LET c == p.reqs[r].client
        k == Len(p.conns) + 1
    IN IF Usable(p, c) THEN Ensured(p, r)
       ELSE [NewConn(p) EXCEPT !.made[c].conn = k,
                               !.reqs[r].conn = k, !.reqs[r].stage = "connect"]

\* Slip: the requests that wait for the lock are left waiting
Ended_KeepWaiting(p, k) ==
    ReplyAll([p EXCEPT !.conns[k].state = "gone"],
             {r \in Slots : p.reqs[r].stage \in {"command", "flag"} /\ p.reqs[r].on = k})

\* A connection ends.
Ended(p, k) ==
    ReplyAll([p EXCEPT !.conns[k].state = "gone", !.conns[k].queue = <<>>],
             {r \in Slots : \/ p.reqs[r].stage = "lock" /\ p.reqs[r].conn = k
                            \/ p.reqs[r].stage \in {"command", "flag"} /\ p.reqs[r].on = k})

(***************************************************************************)
(* Requests come in                                                        *)
(***************************************************************************)
Asked(Handle(_, _), request) ==
    /\ up = "up" /\ Used("requests", MaxRequests)
    /\ \E r \in Slots : bridge.reqs[r].stage = "idle"
    /\ LET r == Min({s \in Slots : bridge.reqs[s].stage = "idle"})
       IN bridge' = Handle([bridge EXCEPT !.reqs[r] = request], r)
    /\ UNCHANGED up

\* One command under the lock (list, search, flags, move, delete, batch, an
\* attachment), or two (read: download, then mark as read).
UseMail(kind, id, f) ==
    /\ id \in DOMAIN bridge.clients
    /\ Asked(EnsureConnected, [Idle EXCEPT !.kind = kind, !.client = bridge.clients[id],
                                           !.folder = f])
    /\ UNCHANGED <<file, past>>

\* A cached list is answered at once.
GetFolders(id) ==
    /\ id \in DOMAIN bridge.clients /\ ~bridge.made[bridge.clients[id]].folders
    /\ LET c == bridge.clients[id]
           Handle(p, r) ==
               IF \E s \in Slots \ {r} : /\ p.reqs[s].kind = "folders" /\ p.reqs[s].client = c
                                         /\ p.reqs[s].stage # "shared"
               THEN [p EXCEPT !.reqs[r].stage = "shared"] ELSE EnsureConnected(p, r)
       IN Asked(Handle, [Idle EXCEPT !.kind = "folders", !.client = c])
    /\ UNCHANGED <<file, past>>

\* A mailbox that is connected is answered at once.
AddAccount(email) ==
    /\ email \notin EmailsOf(bridge)
    /\ LET Handle(p, r) ==
               LET q == NewClient(p, email)
               IN [q EXCEPT !.reqs[r] = [@ EXCEPT !.stage = "connect",
                                                  !.client = Len(q.made),
                                                  !.conn = Len(q.conns)]]
       IN Asked(Handle, [Idle EXCEPT !.kind = "add"])
    /\ UNCHANGED <<file, past>>

\* The loop of a batch import, up to the next mailbox that is not connected.
NextLine(p, r) ==
    LET todo == p.reqs[r].todo
        n    == SelectInSeq(todo, LAMBDA e : e \notin EmailsOf(p))
        q    == NewClient([p EXCEPT !.reqs[r].ok = @ \/ n # 1], todo[n])
    IN IF n = 0 THEN Reply(p, r)
       ELSE [q EXCEPT !.reqs[r] = [@ EXCEPT !.todo = SubSeq(todo, n + 1, Len(todo)),
                                            !.stage = "connect", !.client = Len(q.made),
                                            !.conn = Len(q.conns)]]

\* The file is written when one of the lines was connected, now or before.
ImportAccounts(emails) ==
    /\ Asked(NextLine, [Idle EXCEPT !.kind = "import", !.todo = emails])
    /\ file' = IF ToSet(emails) \subseteq EmailsOf(bridge) THEN Saved(bridge) ELSE file
    /\ UNCHANGED past

DeleteAccount(id) ==
    /\ id \in DOMAIN bridge.clients
    /\ LET c == bridge.clients[id]
           Handle(p, r) == p
       IN /\ Asked(Handle, [Idle EXCEPT !.kind = "delete", !.stage = "logout", !.id = id,
                                        !.client = c, !.on = bridge.made[c].conn])
          /\ past' = [past EXCEPT !.confirmed = @ \ {bridge.made[c].email}]
    /\ UNCHANGED file

(***************************************************************************)
(* Requests go on                                                          *)
(***************************************************************************)
InStage(r, stage) == up = "up" /\ bridge.reqs[r].stage = stage

Request(r) == bridge.reqs[r]

\* The new client gets the next id.
Registered(p, r) ==
    [p EXCEPT !.clientId = @ + 1,
              !.clients = [i \in DOMAIN @ \cup {p.clientId + 1} |->
                              IF i = p.clientId + 1 THEN p.reqs[r].client ELSE @[i]],
              !.reqs[r].ok = TRUE,
              !.reqs[r].fresh = @ \cup {p.made[p.reqs[r].client].email}]

\* The mailboxes of the clients that nobody is deleting.
Kept(p) ==
    {p.made[p.clients[i]].email : i \in {j \in DOMAIN p.clients :
        \A r \in Slots : p.reqs[r].stage # "idle" => p.reqs[r].id # j}}

\* What is left of an import: the next line, or the file and the answer.
ImportGoesOn(p, r) ==
    /\ bridge' = NextLine(p, r)
    /\ IF bridge'.reqs[r].stage = "idle"
       THEN /\ file' = IF p.reqs[r].ok \/ p.reqs[r].todo # <<>> THEN Saved(p) ELSE file
            /\ past' = [past EXCEPT !.confirmed = @ \cup (p.reqs[r].fresh \cap Kept(p))]
       ELSE UNCHANGED <<file, past>>

Connected(r) ==
    /\ InStage(r, "connect")
    /\ LET p == [bridge EXCEPT !.conns[Request(r).conn].state = "up"]
           q == Registered(p, r)
       IN CASE Request(r).kind = "add" ->
                    /\ bridge' = Reply(q, r) /\ file' = Saved(q)
                    /\ past' = [past EXCEPT !.confirmed = @ \cup q.reqs[r].fresh]
            [] Request(r).kind = "import" -> ImportGoesOn(q, r)
            [] Request(r).kind \notin {"add", "import"} ->
                    bridge' = Ensured(p, r) /\ UNCHANGED <<file, past>>
    /\ UNCHANGED <<up, spent>>

ConnectFails(r) ==
    /\ InStage(r, "connect") /\ Used("faults", MaxFaults)
    /\ LET p == [bridge EXCEPT !.conns[Request(r).conn].state = "gone"]
       IN IF Request(r).kind = "import" THEN ImportGoesOn(p, r)
          ELSE bridge' = Reply(p, r) /\ UNCHANGED <<file, past>>
    /\ UNCHANGED up

\* The lock is granted: the folder is selected, and the first command sent.
Granted(r) ==
    /\ InStage(r, "lock") /\ Head(bridge.conns[Request(r).conn].queue) = r
    /\ bridge' = Run([bridge EXCEPT !.conns[Request(r).conn].folder = Request(r).folder], r,
                     "command")
    /\ UNCHANGED <<up, file, past, spent>>

\* Slip: the lock is released before the mail is marked as read
CommandDone_ReleaseEarly(r) ==
    /\ InStage(r, "command")
    /\ bridge' = CASE Request(r).kind = "one" -> Reply(Release(bridge, r), r)
                   [] Request(r).kind = "read" ->
                        [Release(bridge, r) EXCEPT !.reqs[r].stage = "parse"]
                   [] Request(r).kind = "folders" ->
                        Reply([bridge EXCEPT !.made[Request(r).client].folders = TRUE], r)
    /\ UNCHANGED <<up, file, past, spent>>

\* Slip: the answer is given without releasing the lock
CommandDone_KeepLock(r) ==
    /\ InStage(r, "command")
    /\ bridge' = CASE Request(r).kind = "one" -> Reply(bridge, r)
                   [] Request(r).kind = "read" -> [bridge EXCEPT !.reqs[r].stage = "parse"]
                   [] Request(r).kind = "folders" ->
                        Reply([bridge EXCEPT !.made[Request(r).client].folders = TRUE], r)
    /\ UNCHANGED <<up, file, past, spent>>

CommandDone(r) ==
    /\ InStage(r, "command")
    /\ bridge' = CASE Request(r).kind = "one" -> Reply(Release(bridge, r), r)
                   [] Request(r).kind = "read" -> [bridge EXCEPT !.reqs[r].stage = "parse"]
                   [] Request(r).kind = "folders" ->
                        Reply([bridge EXCEPT !.made[Request(r).client].folders = TRUE], r)
    /\ UNCHANGED <<up, file, past, spent>>

\* The SELECT, the command or the STORE is refused.
CommandFails(r) ==
    /\ up = "up" /\ Request(r).stage \in {"command", "flag"} /\ Used("faults", MaxFaults)
    /\ bridge' = Reply(Release(bridge, r), r)
    /\ UNCHANGED <<up, file, past>>

\* messageFlagsAdd, on the connection the client has by now.
Parsed(r) ==
    /\ InStage(r, "parse")
    /\ bridge' = IF Usable(bridge, Request(r).client) THEN Run(bridge, r, "flag")
                 ELSE Reply(Release(bridge, r), r)
    /\ UNCHANGED <<up, file, past, spent>>

Flagged(r) ==
    /\ InStage(r, "flag") /\ bridge' = Reply(Release(bridge, r), r)
    /\ UNCHANGED <<up, file, past, spent>>

\* Whether or not the logout succeeds.
LoggedOut(r) ==
    /\ InStage(r, "logout")
    /\ LET p == Ended(bridge, Request(r).on)
           q == [p EXCEPT !.clients = [i \in DOMAIN @ \ {Request(r).id} |-> @[i]]]
       IN bridge' = Reply(q, r) /\ file' = Saved(q)
    /\ UNCHANGED <<up, past, spent>>

\* The server or the network ends a connection.
Drop(k) ==
    /\ up = "up" /\ bridge.conns[k].state = "up" /\ Used("faults", MaxFaults)
    /\ bridge' = Ended(bridge, k)
    /\ UNCHANGED <<up, file, past>>

(***************************************************************************)
(* The process                                                             *)
(***************************************************************************)
\* The requests whose next step writes the file.
AboutToSave ==
    \E r \in Slots : \/ bridge.reqs[r].stage = "logout"
                     \/ bridge.reqs[r].stage = "connect" /\ bridge.reqs[r].kind \in {"add", "import"}

\* A crash in the middle of the write leaves a file that does not parse.
Crash ==
    /\ up # "down" /\ Used("crashes", MaxCrashes)
    /\ \E torn \in IF up = "restoring" \/ AboutToSave THEN BOOLEAN ELSE {FALSE} :
          /\ file' = IF torn THEN Torn ELSE file
          /\ past' = [past EXCEPT !.torn = @ \/ torn]
    /\ up' = "down" /\ bridge' = Fresh

Loaded == IF file = Torn THEN <<>> ELSE file

\* restoreAccounts: all accounts of the file, then they connect.
Start ==
    /\ up = "down"
    /\ bridge' = [Fresh EXCEPT
                     !.clients = [i \in DOMAIN Loaded |-> i], !.clientId = Len(Loaded),
                     !.made  = [i \in DOMAIN Loaded |-> NewMade(Loaded[i], i)],
                     !.conns = [i \in DOMAIN Loaded |-> Dialling]]
    /\ up' = IF Loaded = <<>> THEN "up" ELSE "restoring"
    /\ UNCHANGED <<file, past, spent>>

\* Slip: an account that cannot connect is dropped
RestoreSettles_DropFailed(c, ok) ==
    /\ up = "restoring" /\ bridge.conns[c].state = "connecting"
    /\ IF ok THEN UNCHANGED spent ELSE Used("faults", MaxFaults)
    /\ LET p == [bridge EXCEPT !.conns[c].state = IF ok THEN "up" ELSE "gone",
                               !.clients = [i \in {j \in DOMAIN @ : ok \/ @[j] # c} |-> @[i]]]
           last == \A k \in DOMAIN p.conns : p.conns[k].state # "connecting"
       IN /\ bridge' = p
          /\ up' = IF last THEN "up" ELSE up
          /\ file' = IF last THEN Saved(p) ELSE file
    /\ UNCHANGED past

\* An account that cannot connect is kept; the last one lets the server listen.
RestoreSettles(c, ok) ==
    /\ up = "restoring" /\ bridge.conns[c].state = "connecting"
    /\ IF ok THEN UNCHANGED spent ELSE Used("faults", MaxFaults)
    /\ LET p    == [bridge EXCEPT !.conns[c].state = IF ok THEN "up" ELSE "gone"]
           last == \A k \in DOMAIN p.conns : p.conns[k].state # "connecting"
       IN /\ bridge' = p
          /\ up' = IF last THEN "up" ELSE up
          /\ file' = IF last THEN Saved(p) ELSE file
    /\ UNCHANGED past

Init ==
    /\ up = "down" /\ bridge = Fresh /\ file = Known
    /\ past = [confirmed |-> ToSet(Known), torn |-> FALSE]
    /\ spent = [requests |-> 0, faults |-> 0, crashes |-> 0]

Comes ==
    \/ \E kind \in {"one", "read"}, id \in DOMAIN bridge.clients, f \in Folders :
          UseMail(kind, id, f)
    \/ \E id \in DOMAIN bridge.clients : GetFolders(id)
    \/ \E email \in Emails : AddAccount(email)
    \/ \E emails \in Imports : ImportAccounts(emails)
    \/ \E id \in DOMAIN bridge.clients : DeleteAccount(id)

GoesOn(r) ==
    \/ Connected(r)
    \/ Granted(r)
    \/ CommandDone(r)
    \/ Parsed(r)
    \/ Flagged(r)
    \/ LoggedOut(r)

Next ==
    \/ Comes
    \/ \E r \in Slots : GoesOn(r) \/ ConnectFails(r) \/ CommandFails(r)
    \/ \E k \in DOMAIN bridge.conns : Drop(k)
    \/ Crash
    \/ Start
    \/ \E c \in DOMAIN bridge.conns, ok \in BOOLEAN : RestoreSettles(c, ok)

\* Connects, commands and logouts come to an end (imapflow gives up on its
\* timeouts), and the supervisor restarts the process.
Fairness ==
    /\ \A r \in Slots : WF_vars(GoesOn(r))
    /\ WF_vars(Start)
    /\ WF_vars(\E c \in DOMAIN bridge.conns : RestoreSettles(c, TRUE))

Spec == Init /\ [][Next]_vars
FairSpec == Spec /\ Fairness

(***************************************************************************)
(* Properties                                                              *)
(***************************************************************************)
\* The handlers take the lock "for" a folder and only then name UIDs
\* (server.js:257-262): a command runs on the connection whose lock its request
\* holds, with the request's folder selected.  The exception is a mark as read
\* after the connection was replaced (README, "Findings").
CommandsKeepTheirFolder ==
    \A r \in Slots :
        LET req == bridge.reqs[r] IN
        req.stage \in {"command", "flag"} /\ req.kind \in {"one", "read"} =>
            \/ /\ req.on = req.conn /\ bridge.conns[req.on].folder = req.folder
               /\ bridge.conns[req.on].queue # <<>> /\ Head(bridge.conns[req.on].queue) = r
            \/ req.stage = "flag" /\ bridge.conns[req.conn].state = "gone"

\* "Accounts whose login failed are kept too" (server.js:41): an account whose
\* addition was answered stays, in the file and at the next start, until
\* somebody deletes it, whatever fails and whoever adds or deletes others at the
\* same time; only a torn file loses it.
ConfirmedSurvives ==
    ~past.torn =>
        /\ past.confirmed \subseteq ToSet(file)
        /\ up # "down" => past.confirmed \subseteq EmailsOf(bridge)

\* Every request is answered, or lost with the process: no handler keeps the
\* lock of a connection from the others for good.
EveryRequestAnswered ==
    \A r \in Slots : bridge.reqs[r].stage # "idle" ~> bridge.reqs[r].stage = "idle"

\* "Make sure the connection is usable, reconnect automatically when it was
\* lost" (client.js:50): a request whose reconnect succeeds goes on.
EnsuredIsUsable ==
    [][\A r \in Slots : Connected(r) /\ Request(r).kind \in {"one", "read", "folders"} =>
          bridge'.reqs[r].stage # "idle"]_vars

\* "Check whether the same mailbox is already connected" (server.js:120): no
\* mailbox is connected as two accounts.
OneAccountPerMailbox ==
    \A i, j \in DOMAIN bridge.clients :
        bridge.made[bridge.clients[i]].email = bridge.made[bridge.clients[j]].email => i = j
=============================================================================
