-------------------------------- MODULE Intake --------------------------------
(***************************************************************************)
(* How mail comes in: the SMTP server of ManyMail (src/smtpd.go) with its  *)
(* blacklist, greylist and rate limits, the table of domains it takes mail *)
(* for (src/store.go) and the administrator who edits it, and the start,   *)
(* shutdown and crash of the process (src/main.go).  What becomes of a     *)
(* stored mail is in RouteEngine.                                          *)
(*                                                                         *)
(* Around it are the sending servers: each has its mails, takes a 4xx or a *)
(* broken connection as "try again" and a 5xx as final, and forgets a      *)
(* recipient only on a 250 for the whole mail.                             *)
(*                                                                         *)
(* A handler is one action: what it does are single locked sections and    *)
(* single statements, and none of them reads what another wrote.  Only     *)
(* between DATA's reply code and the client, and between a domain's SELECT *)
(* and its INSERT or UPDATE, something else can happen.                    *)
(***************************************************************************)
EXTENDS Integers, FiniteSets, SequencesExt

CONSTANTS
    Mails,       \* the mails on their way
    Posts,       \* what they may be: functions from Mails to Post
    Ips,         \* the addresses of the sending servers
    Internal,    \* those that isInternal tells
    Senders,     \* envelope senders
    NoSender,    \* the empty one, MAIL FROM:<>, as bounces have it
    Addrs,       \* recipients
    Domains,
    DomainOf,    \* Addrs -> Domains
    Configured,  \* the domains in .env
    MaxRcpts,    \* SMTP_MAX_RCPTS_PER_MESSAGE; 0: any number
    RateMax,     \* [rcpt, data]: SMTP_RCPT_RATE_MAX, SMTP_DATA_RATE_MAX; 0: no limit
    RateWindow,  \* [rcpt, data]: SMTP_RCPT_RATE_WINDOW, SMTP_DATA_RATE_WINDOW
    TableMax,    \* the size a rate table has before it is purged: 1024
    GreyEnabled, \* SMTP_GREYLIST_ENABLED
    GreyDelay, GreyTTL,
    Conns,       \* bound: connections at a time
    Admins,      \* bound: requests to add a domain at a time
    NoMail,      \* no transaction has begun
    MaxTime,     \* bound: units of time
    Most         \* bound, for each of Posts, on what may happen: see Bounds

Kinds == {"plain", "empty", "loopEnv", "loopRule"}

\* loop: an auto-reply from a forward target of .env, or of a rule
Post == [ip : Ips, from : Senders \cup {NoSender}, rcpts : SUBSET Addrs, kind : Kinds, blocked : BOOLEAN]

Tables == {"rcpt", "data"}

\* faults: connections that break, statements that fail; stops: shutdowns and
\* crashes; changes: requests to add or deactivate a domain; all: these together
Bounds == [faults : Nat, stops : Nat, changes : Nat, all : Nat]

ASSUME IntakeAssumption ==
    /\ Posts \subseteq [Mails -> Post] /\ Most \in [Posts -> Bounds] /\ NoMail \notin Mails
    /\ Internal \subseteq Ips /\ NoSender \notin Senders /\ GreyEnabled \in BOOLEAN
    /\ Configured \subseteq Domains /\ DomainOf \in [Addrs -> Domains] /\ IsFiniteSet(Conns)
    /\ RateMax \in [Tables -> Nat] /\ RateWindow \in [Tables -> Nat \ {0}]
    /\ {MaxRcpts, TableMax, GreyDelay, GreyTTL, MaxTime} \subseteq Nat

VARIABLES
    post,    \* what the mails are
    server,  \* the memory of the process
    db,      \* the database: domains and messages
    todo,    \* the recipients a sending server has still to deliver a mail to
    now,     \* the time
    past,    \* history: see TypeOK
    spent    \* how much of each bound is used up

vars == <<post, server, db, todo, now, past, spent>>

\* A definition X_... before X is X with a slip in it, not part of the
\* specification (README, "Slips").

\* at: closed, idle, mail (after MAIL), data (the text is coming), stored or
\* dropped (and the 250 for it is on its way)
Closed == [at |-> "closed", ip |-> "none", mail |-> NoMail, rcpts |-> {}]

\* admins: the domain a request has looked up, and what it found
NoTables == [ip \in Ips |-> <<>>]
Booted == [up |-> "up", sess |-> [c \in Conns |-> Closed],
           rate |-> [t \in Tables |-> NoTables], grey |-> <<>>,
           admins |-> [q \in Admins |-> [dom |-> "none", saw |-> "none"]]]
Down == [Booted EXCEPT !.up = "down"]

States == {"none", "active", "inactive"}
GreyKeys == Ips \X Senders \X Addrs

TypeOK ==
    /\ post \in Posts /\ now \in 0 .. MaxTime
    \* closing: main waits for the sessions; late: its ten seconds are over
    /\ server.up \in {"down", "up", "closing", "late"}
    /\ \A c \in Conns :
          LET s == server.sess[c] IN
          /\ s.at \in {"closed", "idle", "mail", "data", "stored", "dropped"}
          /\ s.at \in {"closed", "idle"} <=> s.mail = NoMail
          /\ s.mail = NoMail => s.rcpts = {}
          /\ s.mail # NoMail => s.rcpts \subseteq post[s.mail].rcpts
    /\ \A t \in Tables : \A ip \in Ips :
          LET ts == server.rate[t][ip] IN
          Len(ts) <= RateMax[t] /\ \A i \in DOMAIN ts : ts[i] <= now
    /\ DOMAIN server.grey \subseteq GreyKeys
    /\ db.domains \in [Domains -> States]
    /\ db.copies \in [Mails -> [Addrs -> Nat]]
    /\ todo \in [Mails -> SUBSET Addrs]
    \* told: the recipients of a mail a sending server got its 250 for
    \* lost: how often a stored mail was not acknowledged
    \* unread: the rules could not be read for a mail
    \* passed: the times at which a limit let an address pass, since the start
    \* tries: when a triple came to the greylist, since the start
    \* closed: the domains deactivated, and not reactivated by who found them so
    \* wrong: what the gate decided against its word
    /\ past.told \subseteq Mails \X Addrs /\ past.closed \subseteq Domains
    /\ past.lost \in [Mails -> [Addrs -> Nat]] /\ past.unread \subseteq Mails

Used(what) ==
    /\ spent[what] < Most[post][what] /\ spent.faults + spent.stops + spent.changes < Most[post].all
    /\ spent' = [spent EXCEPT ![what] = @ + 1]

External(ip) == ip \notin Internal

(***************************************************************************)
(* Limits                                                                  *)
(***************************************************************************)
\* Slip: an address is dropped once its oldest entry has passed.
Purged_ByOldest(tab, window) ==
    [ip \in Ips |-> IF tab[ip] # <<>> /\ now - Head(tab[ip]) >= window THEN <<>> ELSE tab[ip]]
\* Addresses whose window has passed are dropped from a large table.
Purged(tab, window) ==
    [ip \in Ips |-> IF tab[ip] # <<>> /\ now - Last(tab[ip]) >= window THEN <<>> ELSE tab[ip]]

\* Slip: a refused attempt counts as well, so whoever keeps trying stays out.
Counted_All(kept, limited) == Append(kept, now)
Counted(kept, limited) == IF limited THEN kept ELSE Append(kept, now)

\* Those of ts that are in the window still, in their order.
Within(ts, window) ==
    LET places == {i \in DOMAIN ts : now - ts[i] < window}
        Nth(n) == CHOOSE i \in places : Cardinality({j \in places : j <= i}) = n
    IN [n \in 1 .. Cardinality(places) |-> ts[Nth(n)]]

\* hit: the table afterwards, and whether the limit was reached
Hit(tab, ip, window, most) ==
    LET large == Cardinality({i \in Ips : tab[i] # <<>>}) > TableMax
        t == IF large THEN Purged(tab, window) ELSE tab
        kept == Within(t[ip], window)
        limited == Len(kept) >= most
    IN [table |-> [t EXCEPT ![ip] = Counted(kept, limited)], limited |-> limited]

\* hit, unless there is no such limit
Ask(t, ip) ==
    IF RateMax[t] = 0 THEN [table |-> server.rate[t], limited |-> FALSE]
    ELSE Hit(server.rate[t], ip, RateWindow[t], RateMax[t])

\* Slip: a bounce is greylisted like any mail.
Exempt_None(key) == ~GreyEnabled
\* Mail without a sender gets past the greylist and leaves nothing there.
Exempt(key) == ~GreyEnabled \/ key[2] = NoSender

\* Slip: a retry before the delay starts the delay again.
FirstSeen_Renewed(grey, key) == IF now - grey[key] < GreyDelay THEN now ELSE grey[key]
FirstSeen(grey, key) == grey[key]

\* greylisted: the entries afterwards, and whether to refuse
Greylist(grey, key) ==
    LET kept == {k \in DOMAIN grey : now - grey[k] <= GreyTTL}
        first == IF key \in kept THEN FirstSeen(grey, key) ELSE now
    IN IF Exempt(key) THEN [grey |-> grey, refuse |-> FALSE]
       ELSE [grey |-> [k \in kept \cup {key} |-> IF k = key THEN first ELSE grey[k]],
             refuse |-> key \notin kept \/ now - grey[key] < GreyDelay]

(***************************************************************************)
(* The gate's word, in terms of what came before                           *)
(***************************************************************************)
\* An address is refused just when it passed as often as it may in the window, and
\* never where there is no limit.
RateIsRight(t, ip, limited) ==
    limited <=> RateMax[t] > 0 /\ Cardinality({i \in DOMAIN past.passed[t][ip] :
                                now - past.passed[t][ip][i] < RateWindow[t]}) >= RateMax[t]

\* Whom the greylist is for: mail with a sender, while it is on.
Greylisted(key) == GreyEnabled /\ key \in GreyKeys

\* Of mail with a sender, none passes the greylist whose sender did not try that
\* recipient from that address before, the delay or longer ago and not forgotten;
\* and who comes again in that time after a first contact passes, however often
\* they came in between.  It refuses no bounce, and nobody when it is off.
GreyIsRight(key, refuse) ==
    LET tries == past.tries[key]
        InTime(t) == now - t >= GreyDelay /\ now - t <= GreyTTL
        First(t) == \A u \in tries : u < t => t - u > GreyTTL
    IN IF ~Greylisted(key) THEN ~refuse
       ELSE /\ ~refuse => \E t \in tries : InTime(t)
            /\ refuse => ~ \E t \in tries : InTime(t) /\ First(t)

Noted(p, right, what) == IF right THEN p ELSE [p EXCEPT !.wrong = @ \cup {what}]

\* What came to the greylist, and what a limit let pass, is remembered.
Tried(p, key) == IF Greylisted(key) THEN [p EXCEPT !.tries[key] = @ \cup {now}] ELSE p
LetPass(p, t, ip, limited) ==
    IF limited \/ RateMax[t] = 0 THEN p ELSE [p EXCEPT !.passed[t][ip] = Append(@, now)]

(***************************************************************************)
(* The process                                                             *)
(***************************************************************************)
\* Slip: INSERT OR REPLACE, which opens what was deactivated.
SeedDomains_Reopens(domains) ==
    [d \in Domains |-> IF d \in Configured THEN "active" ELSE domains[d]]
\* INSERT OR IGNORE
SeedDomains(domains) ==
    [d \in Domains |-> IF d \in Configured /\ domains[d] = "none" THEN "active" ELSE domains[d]]

NoHistory == [told |-> {}, lost |-> [m \in Mails |-> [a \in Addrs |-> 0]], unread |-> {},
              passed |-> [t \in Tables |-> NoTables], tries |-> [k \in GreyKeys |-> {}],
              closed |-> {}, wrong |-> {}]

Init ==
    /\ post \in Posts
    /\ server = Down
    /\ db = [domains |-> [d \in Domains |-> "none"],
             copies |-> [m \in Mails |-> [a \in Addrs |-> 0]]]
    /\ todo = [m \in Mails |-> post[m].rcpts]
    /\ now = 0
    /\ past = NoHistory
    /\ spent = [faults |-> 0, stops |-> 0, changes |-> 0]

\* A start opens the domains of .env; tables and greylist begin empty.
Start ==
    /\ server.up = "down"
    /\ server' = Booted
    /\ db' = [db EXCEPT !.domains = SeedDomains(@)]
    /\ past' = [past EXCEPT !.passed = NoHistory.passed, !.tries = NoHistory.tries]
    /\ UNCHANGED <<post, todo, now, spent>>

\* The sessions that stored mail m for a and have yet to get their 250.
Coming(m, a) == {c \in Conns : LET s == server.sess[c] IN s.at = "stored" /\ s.mail = m /\ a \in s.rcpts}

\* Sessions that break off never get it.
BrokenOff(broken) ==
    past' = [past EXCEPT !.lost = [m \in Mails |-> [a \in Addrs |->
                past.lost[m][a] + Cardinality(Coming(m, a) \cap broken)]]]

\* The process ends and its sessions break off wherever they are; who waited
\* for a 250 may put it down to a crash or a missed deadline, not to a shutdown.
Ends == server' = Down /\ UNCHANGED <<post, db, todo, now>>

Crash == server.up # "down" /\ Used("stops") /\ Ends /\ BrokenOff(Conns)

\* SIGTERM: no new connections; those there are go on.
Signal ==
    /\ server.up = "up" /\ Used("stops")
    /\ server' = [server EXCEPT !.up = "closing"]
    /\ UNCHANGED <<post, db, todo, now, past>>

\* Slip: nobody waits for the sessions.
MayLeave_AtOnce == server.up \in {"closing", "late"}
\* Shutdown waits until the last session and request are over, or ten seconds.
MayLeave ==
    \/ server.up = "late"
    \/ /\ server.up = "closing"
       /\ \A c \in Conns : server.sess[c].at = "closed"
       /\ \A q \in Admins : server.admins[q].dom = "none"

Deadline ==
    /\ server.up = "closing"
    /\ \E c \in Conns : server.sess[c].at # "closed"
    /\ server' = [server EXCEPT !.up = "late"]
    /\ UNCHANGED <<post, db, todo, now, past, spent>>

Leave ==
    /\ MayLeave /\ Ends /\ UNCHANGED spent
    /\ IF server.up = "late" THEN BrokenOff(Conns) ELSE UNCHANGED past

Tick == now < MaxTime /\ now' = now + 1 /\ UNCHANGED <<post, server, db, todo, past, spent>>

(***************************************************************************)
(* Sessions                                                                *)
(***************************************************************************)
Runs == server.up # "down"

\* The session of c becomes s, and nothing else of the process changes.
Turned(c, s) == server' = [server EXCEPT !.sess[c] = s]
Idle(s) == [s EXCEPT !.at = "idle", !.mail = NoMail, !.rcpts = {}]

NewSession(c, ip) ==
    /\ server.up = "up" /\ server.sess[c].at = "closed"
    /\ \E m \in Mails : post[m].ip = ip /\ todo[m] # {}
    /\ Turned(c, [Closed EXCEPT !.at = "idle", !.ip = ip])
    /\ UNCHANGED <<post, db, todo, now, past, spent>>

\* Slip: a second MAIL keeps the recipients of the first.
MailFrom_Keeps(s, m) == [s EXCEPT !.at = "mail", !.mail = m]
Mail(s, m) == [s EXCEPT !.at = "mail", !.mail = m, !.rcpts = {}]

\* A sending server tries one mail on one connection at a time.
MailFrom(c, m) ==
    LET s == server.sess[c] IN
    /\ Runs /\ s.at \in {"idle", "mail"} /\ post[m].ip = s.ip /\ todo[m] # {}
    /\ \A d \in Conns : server.sess[d].mail # m
    /\ Turned(c, Mail(s, m))
    /\ UNCHANGED <<post, db, todo, now, past, spent>>

\* RSET
Reset(c) ==
    LET s == server.sess[c] IN
    /\ Runs /\ s.at = "mail"
    /\ Turned(c, Idle(s))
    /\ UNCHANGED <<post, db, todo, now, past, spent>>

\* A recipient the mail has already is refused with a 452 and nothing else.
MayTry(s, a) == s.at = "mail" /\ a \in todo[s.mail] \ s.rcpts

\* 554: the sender or its address is on the blacklist.
RcptBlocked(c, a) ==
    LET s == server.sess[c] IN
    /\ Runs /\ MayTry(s, a) /\ post[s.mail].blocked
    /\ todo' = [todo EXCEPT ![s.mail] = @ \ {a}]
    /\ UNCHANGED <<post, server, db, now, past, spent>>

\* What a recipient from outside meets before its domain is looked up.
Gate(s, a) ==
    LET key == <<s.ip, post[s.mail].from, a>>
        grey == Greylist(server.grey, key)
        hit == Ask("rcpt", s.ip)
        full == MaxRcpts > 0 /\ Cardinality(s.rcpts) >= MaxRcpts
        seen == Noted(Tried(past, key), GreyIsRight(key, grey.refuse), "greylist")
        counted == Noted(seen, RateIsRight("rcpt", s.ip, hit.limited), "rate")
    IN IF grey.refuse \/ full
       THEN [server |-> [server EXCEPT !.grey = grey.grey], past |-> seen, passed |-> FALSE]
       ELSE [server |-> [server EXCEPT !.grey = grey.grey, !.rate.rcpt = hit.table],
             past |-> LetPass(counted, "rcpt", s.ip, hit.limited),
             passed |-> ~hit.limited]

Met(s, a) == IF External(s.ip) THEN Gate(s, a) ELSE [server |-> server, past |-> past, passed |-> TRUE]

\* 451 greylisted, 452 too many recipients, 421 too many commands: try again.
RcptHeldBack(c, a) ==
    LET s == server.sess[c]
        met == Met(s, a)
    IN
    /\ Runs /\ MayTry(s, a) /\ ~post[s.mail].blocked /\ ~met.passed
    /\ server' = met.server /\ past' = met.past
    /\ UNCHANGED <<post, db, todo, now, spent>>

\* Slip: any domain in the table will do.
DomainActive_Known(domain) == db.domains[domain] # "none"
DomainActive(domain) == db.domains[domain] = "active"

\* Accepted, or 550 for good; 451 when the domain cannot be looked up.
Rcpt(c, a) ==
    LET s == server.sess[c]
        met == Met(s, a)
        open == DomainActive(DomainOf[a])
    IN
    /\ Runs /\ MayTry(s, a) /\ ~post[s.mail].blocked /\ met.passed
    /\ \/ /\ open
          /\ server' = [met.server EXCEPT !.sess[c].rcpts = @ \cup {a}]
          /\ past' = Noted(met.past, DomainOf[a] \notin past.closed, "domain")
          /\ UNCHANGED <<todo, spent>>
       \/ /\ ~open
          /\ server' = met.server /\ past' = met.past
          /\ todo' = [todo EXCEPT ![s.mail] = @ \ {a}]
          /\ UNCHANGED spent
       \/ /\ Used("faults")
          /\ server' = met.server /\ past' = met.past
          /\ UNCHANGED todo
    /\ UNCHANGED <<post, db, now>>

\* DATA: too many mails from an address are read and thrown away with a 421.
DataBegins(c) ==
    LET s == server.sess[c]
        ext == External(s.ip)
        hit == Ask("data", s.ip)
        noted == Noted(past, RateIsRight("data", s.ip, hit.limited), "rate")
    IN
    /\ Runs /\ s.at = "mail" /\ s.rcpts # {}
    /\ IF ~ext
       THEN Turned(c, [s EXCEPT !.at = "data"]) /\ UNCHANGED past
       ELSE /\ server' = [server EXCEPT !.rate.data = hit.table,
                             !.sess[c] = IF hit.limited THEN Idle(s) ELSE [s EXCEPT !.at = "data"]]
            /\ past' = LetPass(noted, "data", s.ip, hit.limited)
    /\ UNCHANGED <<post, db, todo, now, spent>>

\* The targets of .env first; without the rules only they count.
IsForwardTarget(kind, readable) == kind = "loopEnv" \/ (kind = "loopRule" /\ readable)

\* An auto-reply from a forward target is dropped and the client told it is fine.
\* A failed read of the rules costs the mail nothing but this check.
Data(c) ==
    LET s == server.sess[c]
        kind == post[s.mail].kind
        Loop(readable) == kind \in {"loopEnv", "loopRule"} /\ IsForwardTarget(kind, readable)
        Dropped == /\ Turned(c, [s EXCEPT !.at = "dropped"])
                   /\ UNCHANGED <<db, todo, past, spent>>
        Stored == /\ db' = [db EXCEPT !.copies[s.mail] =
                              [a \in Addrs |-> @[a] + (IF a \in s.rcpts THEN 1 ELSE 0)]]
                  /\ Turned(c, [s EXCEPT !.at = "stored"])
                  /\ UNCHANGED todo
    IN
    /\ Runs /\ s.at = "data"
    /\ \/ Loop(TRUE) /\ Dropped
       \/ /\ ~Loop(TRUE) /\ kind # "empty"
          /\ Stored /\ UNCHANGED <<past, spent>>
       \/ /\ kind = "loopRule" /\ ~Loop(FALSE) /\ Used("faults")
          /\ Stored /\ past' = [past EXCEPT !.unread = @ \cup {s.mail}]
    /\ UNCHANGED <<post, now>>

\* 554 for an empty mail: final.
DataEmpty(c) ==
    LET s == server.sess[c] IN
    /\ Runs /\ s.at = "data" /\ post[s.mail].kind = "empty"
    /\ todo' = [todo EXCEPT ![s.mail] = @ \ s.rcpts]
    /\ Turned(c, Idle(s))
    /\ UNCHANGED <<post, db, now, past, spent>>

\* Slip: an answer of 250 although nothing was stored.
DataFails_Anyway(s) == [s EXCEPT !.at = "stored"]
DataFailed(s) == Idle(s)

\* 451: the transaction is rolled back and the mail will come again.
DataFails(c) ==
    LET s == server.sess[c] IN
    /\ Runs /\ s.at = "data" /\ post[s.mail].kind = "plain" /\ Used("faults")
    /\ Turned(c, DataFailed(s))
    /\ UNCHANGED <<post, db, todo, now, past>>

\* The client reads its 250.
Acknowledged(c) ==
    LET s == server.sess[c] IN
    /\ Runs /\ s.at \in {"stored", "dropped"}
    /\ todo' = [todo EXCEPT ![s.mail] = @ \ s.rcpts]
    /\ past' = [past EXCEPT !.told = @ \cup ({s.mail} \X s.rcpts)]
    /\ Turned(c, Idle(s))
    /\ UNCHANGED <<post, db, now, spent>>

Quit(c) ==
    /\ Runs /\ server.sess[c].at \in {"idle", "mail"}
    /\ Turned(c, Closed)
    /\ UNCHANGED <<post, db, todo, now, past, spent>>

\* The connection breaks: text or answer are lost with it.
Cut(c) ==
    /\ Runs /\ server.sess[c].at \in {"data", "stored", "dropped"} /\ Used("faults")
    /\ BrokenOff({c})
    /\ Turned(c, Closed)
    /\ UNCHANGED <<post, db, todo, now>>

(***************************************************************************)
(* Domains                                                                 *)
(***************************************************************************)
\* AddDomain's SELECT
AskAdd(q, d) ==
    /\ server.up \in {"up", "closing"} /\ server.admins[q].dom = "none" /\ Used("changes")
    /\ server' = [server EXCEPT !.admins[q] = [dom |-> d, saw |-> db.domains[d]]]
    /\ UNCHANGED <<post, db, todo, now, past>>

\* Slip: INSERT OR REPLACE.
Writes_Replaces(saw, there) == saw = "none" \/ (saw = "inactive" /\ there)
\* An INSERT fails when the row is there by now, an active domain is left alone.
Writes(saw, there) == (saw = "none" /\ ~there) \/ (saw = "inactive" /\ there)

\* Its INSERT or UPDATE.  Only who found the domain deactivated takes that back.
AddDomain(q) ==
    LET ask == server.admins[q] IN
    /\ Runs /\ ask.dom # "none"
    /\ server' = [server EXCEPT !.admins[q] = Booted.admins[q]]
    /\ IF Writes(ask.saw, db.domains[ask.dom] # "none")
       THEN /\ db' = [db EXCEPT !.domains[ask.dom] = "active"]
            /\ past' = [past EXCEPT !.closed = IF ask.saw = "inactive" THEN @ \ {ask.dom} ELSE @]
       ELSE UNCHANGED <<db, past>>
    /\ UNCHANGED <<post, todo, now, spent>>

DeactivateDomain(d) ==
    /\ server.up \in {"up", "closing"} /\ db.domains[d] # "none" /\ Used("changes")
    /\ db' = [db EXCEPT !.domains[d] = "inactive"]
    /\ past' = [past EXCEPT !.closed = @ \cup {d}]
    /\ UNCHANGED <<post, server, todo, now>>

Next ==
    \/ Start \/ Crash \/ Signal \/ Deadline \/ Leave \/ Tick
    \/ \E c \in Conns :
          \/ \E ip \in Ips : NewSession(c, ip)
          \/ \E m \in Mails : MailFrom(c, m)
          \/ Reset(c) \/ DataBegins(c) \/ Data(c) \/ DataEmpty(c) \/ DataFails(c)
          \/ Acknowledged(c) \/ Quit(c) \/ Cut(c)
          \/ \E a \in Addrs : RcptBlocked(c, a) \/ RcptHeldBack(c, a) \/ Rcpt(c, a)
    \/ \E q \in Admins : AddDomain(q) \/ \E d \in Domains : AskAdd(q, d)
    \/ \E d \in Domains : DeactivateDomain(d)

Spec == Init /\ [][Next]_vars

(***************************************************************************)
(* Properties                                                              *)
(***************************************************************************)
\* What a sending server was told holds over all sessions, stops and crashes.
\* A plain mail it got its 250 for is stored for each of those recipients, once
\* and, if a 250 was lost, once more for each that was; a graceful stop within
\* its ten seconds loses none ("let sessions in DATA finish, so no stored mail
\* goes unacknowledged", main.go:370).  Nothing refused for good is stored, and an
\* auto-reply of a forward target only while the rules could not be read.
StoredAsTold ==
    \A m \in Mails : \A a \in Addrs :
        LET copies == db.copies[m][a]
            told == IF <<m, a>> \in past.told /\ post[m].kind = "plain" THEN 1 ELSE 0
        IN /\ copies >= told
           /\ post[m].kind = "plain" => copies = told + past.lost[m][a] + Cardinality(Coming(m, a))
           /\ copies > 0 => /\ a \in post[m].rcpts /\ ~post[m].blocked
                            /\ post[m].kind \notin {"empty", "loopEnv"}
                            /\ post[m].kind = "loopRule" => m \in past.unread

\* The gate decides as its settings say, whatever happened to the tables in
\* between: a limit refuses an address just when so many of its attempts passed
\* within the window; no mail with a sender passes the greylist whose sender did
\* not try before, and who comes again in time passes, however often they were
\* refused, while a bounce is never refused there; and no recipient is taken for a
\* domain that was deactivated, be it after a start that seeds the domains of .env
\* or after a request that looked it up before it was there, until a request that
\* found it deactivated takes it back.
GateKeepsItsWord == past.wrong = {}
================================================================================
