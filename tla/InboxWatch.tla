----------------------------- MODULE InboxWatch -----------------------------
(***************************************************************************)
(* The new-mail watcher of the IMAP bridge (src/imap-bridge/client.js and  *)
(* notifier.js) for one account, with the INBOX it watches and the intake  *)
(* of the router it reports to (recordIMAPEvent, InsertEvent).             *)
(*                                                                         *)
(* The watcher is event-driven JavaScript: an action is what runs between  *)
(* two awaits, timers or events.  The server tells a selected connection   *)
(* of arrivals (EXISTS) and deletions (EXPUNGE) in order; "wire" holds     *)
(* what it has said and the watcher has not handled.  ROUTER_URL and       *)
(* ROUTER_API_KEY are set.                                                 *)
(***************************************************************************)
EXTENDS Integers, Sequences, FiniteSets

CONSTANTS
    MaxUid,         \* bound: mails per life of the INBOX
    MaxPerReport,   \* MAX_PER_REPORT
    MaxDeletions,   \* bound: mails deleted
    MaxRecreations, \* bound: times the INBOX gets a new UIDVALIDITY
    MaxDrops,       \* bound: connections lost, refused or left deaf
    MaxFailures,    \* bound: failing fetches and reports
    MaxRestarts     \* bound: restarts of the bridge

ASSUME WatchAssumption ==
    /\ {MaxUid, MaxPerReport} \subseteq Nat \ {0}
    /\ {MaxDeletions, MaxRecreations, MaxDrops, MaxFailures, MaxRestarts} \subseteq Nat

VARIABLES
    inbox,    \* the uids in the INBOX
    uidNext,  \* the uid the next mail gets
    validity, \* UIDVALIDITY
    conn,     \* the status connection and statusPromise
    wire,     \* notices under way
    rewatch,  \* rewatchTimer is set
    closed,   \* the account was removed
    me,       \* the other fields of the MailClient
    report,   \* the reportNewMail that runs
    events,   \* routing_events of this account: <<uidvalidity, uid>>
    past,     \* what became of which mail (history)
    spent     \* how much of each bound is used up

server == <<inbox, uidNext, validity>>
vars == <<server, conn, wire, rewatch, closed, me, report, events, past, spent>>

NoCount == -1   \* inboxExists = null
NoUid   == -2   \* lastUid = null
NoBase  == -1   \* lastUid = -1: no baseline known
Expunge == 0    \* the notice of a deletion; n > 0 is EXISTS n

Uids  == 1 .. MaxUid
Mails == Nat \X Uids

\* A definition X_... before X is X with a slip in it, not part of the
\* specification (README, "Slips").

\* state: none | connecting | opening | live (INBOX selected) | deaf (INBOX not
\* selected) | dead (kept in statusClient after its close went unheard);
\* awaited: somebody who would schedule the next attempt awaits the promise;
\* exists: mailbox.exists as the IMAP library counts along
NoConn   == [state |-> "none", awaited |-> FALSE, exists |-> 0]
Dialling == [state |-> "connecting", awaited |-> TRUE, exists |-> 0]

Blank == [inboxExists |-> NoCount, lastUid |-> NoUid, uidValidity |-> 0,
          newMailTimer |-> FALSE, reportAgain |-> FALSE]

\* stage: none | base (looking for a baseline) | fetch | post
NoReport == [stage |-> "none", found |-> {}, keys |-> {}]

NoPast == [old |-> {}, told |-> {}, lost |-> {}, cut |-> {}, base |-> NoUid,
           missed |-> FALSE]

TypeOK ==
    /\ inbox \subseteq 1 .. uidNext - 1 /\ uidNext \in 1 .. MaxUid + 1 /\ validity \in Nat
    /\ conn \in [state : {"none", "connecting", "opening", "live", "deaf", "dead"},
                 awaited : BOOLEAN, exists : Nat]
    /\ wire \in Seq(Nat)
    /\ rewatch \in BOOLEAN /\ closed \in BOOLEAN
    /\ me \in [inboxExists : Nat \cup {NoCount}, lastUid : Nat \cup {NoUid, NoBase},
               uidValidity : Nat, newMailTimer : BOOLEAN, reportAgain : BOOLEAN]
    /\ me.lastUid = NoUid <=> me.inboxExists = NoCount
    /\ report \in [stage : {"none", "base", "fetch", "post"},
                   found : SUBSET Mails, keys : SUBSET Mails]
    /\ events \subseteq Mails
    /\ past \in [old : SUBSET Mails, told : SUBSET Mails, lost : SUBSET Mails,
                 cut : SUBSET Mails, base : Nat \cup {NoUid, NoBase}, missed : BOOLEAN]
    /\ spent \in [deletions : Nat, recreations : Nat, drops : Nat, failures : Nat,
                  restarts : Nat]

Init ==
    /\ inbox \in {{}, {1}} /\ uidNext = 2 /\ validity = 1
    /\ conn = Dialling
    /\ wire = <<>> /\ rewatch = FALSE /\ closed = FALSE
    /\ me = Blank /\ report = NoReport
    /\ events = {} /\ past = NoPast
    /\ spent = [deletions |-> 0, recreations |-> 0, drops |-> 0, failures |-> 0,
                restarts |-> 0]

Top(uids) == IF uids = {} THEN 0 ELSE CHOOSE u \in uids : \A v \in uids : v <= u
Present == {<<validity, u>> : u \in inbox}
Listening == conn.state = "live"
Used(what, most) == spent[what] < most /\ spent' = [spent EXCEPT ![what] = @ + 1]

(***************************************************************************)
(* The IMAP server                                                         *)
(***************************************************************************)
Pushed(notice) == wire' = IF Listening THEN Append(wire, notice) ELSE wire

Arrive ==
    /\ uidNext <= MaxUid
    /\ inbox' = inbox \cup {uidNext} /\ uidNext' = uidNext + 1
    /\ Pushed(Cardinality(inbox) + 1)
    /\ UNCHANGED <<validity, conn, rewatch, closed, me, report, events, past, spent>>

Delete(u) ==
    /\ u \in inbox /\ Used("deletions", MaxDeletions)
    /\ inbox' = inbox \ {u}
    /\ Pushed(Expunge)
    /\ UNCHANGED <<uidNext, validity, conn, rewatch, closed, me, report, events, past>>

\* The INBOX is restored or rebuilt, while nobody has it open: uids start over.
Recreate ==
    /\ ~Listening /\ Used("recreations", MaxRecreations)
    /\ validity' = validity + 1
    /\ inbox' \in {{}, {1}} /\ uidNext' = 2
    /\ UNCHANGED <<conn, wire, rewatch, closed, me, report, events, past>>

(***************************************************************************)
(* Handlers of the watcher, as functions of its fields                     *)
(***************************************************************************)
QueueNewMail(my) == [my EXCEPT !.newMailTimer = @ \/ ~closed]

\* Slip: a deletion is counted at the next arrival, which then looks like none
NoteExpunge_Uncounted(my, count) == my

\* The expunge listener: the library has counted the deletion already.
NoteExpunge(my, count) == [my EXCEPT !.inboxExists = count]

NoteInboxExists(my, count) ==
    LET noted == [my EXCEPT !.inboxExists = count] IN
    IF my.inboxExists # NoCount /\ count > my.inboxExists THEN QueueNewMail(noted)
    ELSE noted

FirstLook(my) == my.lastUid = NoUid \/ my.uidValidity # validity

\* Slip: forgets under which UIDVALIDITY the uids count
TrackNewMail_OldValidity(my, baseline) ==
    IF FirstLook(my)
    THEN [my EXCEPT !.lastUid = baseline,
                    !.uidValidity = IF my.lastUid = NoUid THEN validity ELSE @]
    ELSE QueueNewMail(my)

\* Slip: one less, as if the baseline were UIDNEXT
TrackNewMail_OneLess(my, baseline) ==
    IF FirstLook(my)
    THEN [my EXCEPT !.lastUid = baseline - 1, !.uidValidity = validity]
    ELSE QueueNewMail(my)

\* At each selection of the INBOX: the first time, and under a new UIDVALIDITY,
\* only the highest uid is noted; else what came in meanwhile is looked for.
TrackNewMail(my, baseline) ==
    IF FirstLook(my)
    THEN [my EXCEPT !.lastUid = baseline, !.uidValidity = validity]
    ELSE QueueNewMail(my)

\* Slip: a notice that came during a report is not followed up
Ended_NotAgain(my) == [my EXCEPT !.reportAgain = FALSE]

\* The finally of reportNewMail.
Ended(my) == IF my.reportAgain THEN QueueNewMail([my EXCEPT !.reportAgain = FALSE])
                               ELSE my

(***************************************************************************)
(* The status connection                                                   *)
(***************************************************************************)
\* scheduleRewatch
ScheduleRewatch == rewatch' = (rewatch \/ ~closed)

\* The promise is under way: to call statusConnection again is to await it.
Pending == conn.state \in {"connecting", "opening"}

Connected ==
    /\ conn.state = "connecting"
    /\ conn' = [conn EXCEPT !.state = "opening"]
    /\ UNCHANGED <<server, wire, rewatch, closed, me, report, events, past, spent>>

ConnectFails ==
    /\ conn.state = "connecting" /\ Used("drops", MaxDrops)
    /\ conn' = NoConn
    /\ IF conn.awaited THEN ScheduleRewatch ELSE UNCHANGED rewatch
    /\ UNCHANGED <<server, wire, closed, me, report, events, past>>

\* mailboxOpen ends: the listeners are attached in the same turn.  A server may
\* leave UIDNEXT out.
Opened ==
    /\ conn.state = "opening"
    /\ \E baseline \in {uidNext - 1, NoBase} :
         /\ me' = NoteInboxExists(TrackNewMail(me, baseline), Cardinality(inbox))
         /\ past' = IF FirstLook(me)
                    THEN [past EXCEPT !.old = @ \cup Present, !.base = baseline]
                    ELSE [past EXCEPT !.missed = FALSE]
    /\ conn' = [state |-> "live", awaited |-> FALSE, exists |-> Cardinality(inbox)]
    /\ UNCHANGED <<server, wire, rewatch, closed, report, events, spent>>

\* The server refuses to select INBOX: the connection is kept for counting.
OpenRefused ==
    /\ conn.state = "opening" /\ Used("drops", MaxDrops)
    /\ conn' = [NoConn EXCEPT !.state = "deaf"]
    /\ UNCHANGED <<server, wire, rewatch, closed, me, report, events, past>>

\* The connection ends while the INBOX is selected.  The close listener is
\* attached after that await, so this close has no listener.
OpenCutOff ==
    /\ conn.state = "opening" /\ Used("drops", MaxDrops)
    /\ conn' = [NoConn EXCEPT !.state = "dead"]
    /\ UNCHANGED <<server, wire, rewatch, closed, me, report, events, past>>

\* The close listener, after a lost connection or, for a removed account, a
\* logout.  A fetch on the connection fails with it.
Dropped ==
    /\ conn.state \in {"live", "deaf"}
    /\ IF closed THEN UNCHANGED spent ELSE Used("drops", MaxDrops)
    /\ conn' = NoConn /\ wire' = <<>>
    /\ ScheduleRewatch
    /\ IF report.stage \in {"base", "fetch"}
       THEN report' = NoReport /\ me' = Ended(me)
       ELSE UNCHANGED <<report, me>>
    /\ UNCHANGED <<server, closed, events, past>>

Rewatch ==
    /\ rewatch /\ rewatch' = FALSE
    /\ conn' = CASE Pending -> [conn EXCEPT !.awaited = TRUE]
                 [] conn.state \in {"none", "dead"} -> Dialling
                 [] OTHER -> conn
    /\ UNCHANGED <<server, wire, closed, me, report, events, past, spent>>

\* The folder counts of the page ask for the connection, too, and fall back to
\* the main connection when they do not get it.
CountFolders ==
    /\ ~closed /\ conn.state \in {"none", "dead"}
    /\ conn' = [Dialling EXCEPT !.awaited = FALSE]
    /\ UNCHANGED <<server, wire, rewatch, closed, me, report, events, past, spent>>

\* disconnect: the account is removed.  The logout comes after the commands in
\* progress, and not at all for a connection that is still being made.
Disconnect ==
    /\ ~closed /\ closed' = TRUE
    /\ rewatch' = FALSE
    /\ me' = [me EXCEPT !.newMailTimer = FALSE]
    /\ conn' = IF conn.state = "dead" THEN NoConn ELSE conn
    /\ UNCHANGED <<server, wire, report, events, past, spent>>

\* The process starts again with nothing but the account; when its first login
\* fails, the next attempt is scheduled.
Restart ==
    /\ ~closed /\ Used("restarts", MaxRestarts)
    /\ \/ conn' = Dialling /\ rewatch' = FALSE
       \/ conn' = NoConn /\ rewatch' = TRUE
    /\ wire' = <<>> /\ me' = Blank /\ report' = NoReport /\ past' = NoPast
    /\ UNCHANGED <<server, closed, events>>

(***************************************************************************)
(* Notices and reports                                                     *)
(***************************************************************************)
\* The library takes EXISTS of a count it has for no news.
Notice ==
    /\ Listening /\ wire # <<>>
    /\ wire' = Tail(wire)
    /\ LET count == IF Head(wire) = Expunge THEN conn.exists - 1 ELSE Head(wire) IN
         /\ conn' = [conn EXCEPT !.exists = count]
         /\ me' = IF Head(wire) = Expunge THEN NoteExpunge(me, count)
                  ELSE IF count = conn.exists THEN me
                  ELSE NoteInboxExists(me, count)
    /\ UNCHANGED <<server, rewatch, closed, report, events, past, spent>>

TimerFires == me.newMailTimer /\ ~closed

\* Slip: n:* answers with the last mail when there is none above it
Found_Unfiltered ==
    {<<validity, u>> : u \in {v \in inbox : v > me.lastUid \/ v = Top(inbox)}}

\* What the server sends for lastUid + 1 : *, above lastUid.
Found == {<<validity, u>> : u \in {v \in inbox : v > me.lastUid}}

\* reportNewMail, up to its first await
StartReport ==
    /\ TimerFires /\ report.stage = "none"
    /\ me' = [me EXCEPT !.newMailTimer = FALSE]
    /\ report' = IF conn.state \notin {"live", "deaf"} \/ me.lastUid = NoUid THEN NoReport
                 ELSE IF me.lastUid = NoBase THEN [NoReport EXCEPT !.stage = "base"]
                 ELSE [NoReport EXCEPT !.stage = "fetch",
                                       !.found = IF Listening THEN Found ELSE {}]
    /\ past' = [past EXCEPT !.missed = FALSE]
    /\ UNCHANGED <<server, conn, wire, rewatch, closed, events, spent>>

ReportBusy ==
    /\ TimerFires /\ report.stage # "none"
    /\ me' = [me EXCEPT !.newMailTimer = FALSE, !.reportAgain = TRUE]
    /\ UNCHANGED <<server, conn, wire, rewatch, closed, report, events, past, spent>>

BaselineFound ==
    /\ report.stage = "base" /\ Listening
    /\ me' = Ended([me EXCEPT !.lastUid = Top(inbox)])
    /\ past' = [past EXCEPT !.base = Top(inbox)]
    /\ report' = NoReport
    /\ UNCHANGED <<server, conn, wire, rewatch, closed, events, spent>>

NothingFound ==
    /\ report.stage = "fetch" /\ Listening /\ report.found = {}
    /\ me' = Ended(me)
    /\ report' = NoReport
    /\ UNCHANGED <<server, conn, wire, rewatch, closed, events, past, spent>>

\* Without a selected INBOX a fetch can only fail; with one it may.
FetchFails ==
    /\ report.stage \in {"base", "fetch"}
    /\ IF Listening THEN Used("failures", MaxFailures) ELSE UNCHANGED spent
    /\ me' = Ended(me)
    /\ past' = [past EXCEPT !.missed = Listening /\ ~me.reportAgain]
    /\ report' = NoReport
    /\ UNCHANGED <<server, conn, wire, rewatch, closed, events>>

UidsOf(mails) == {mail[2] : mail \in mails}

\* Slip: takes the newest mail there is for the newest that was fetched
LastFetched_Newest == Top(inbox)

LastFetched == Top(UidsOf(report.found))

\* messages.slice(-MAX_PER_REPORT)
Newest(mails) ==
    {mail \in mails :
        Cardinality({other \in mails : other[2] > mail[2]}) < MaxPerReport}

\* The fetch is over: lastUid moves on, and the report is sent.
Fetched ==
    /\ report.stage = "fetch" /\ Listening /\ report.found # {}
    /\ me' = [me EXCEPT !.lastUid = LastFetched]
    /\ report' = [stage |-> "post", found |-> Newest(report.found),
                  keys |-> {<<me.uidValidity, u>> : u \in UidsOf(Newest(report.found))}]
    /\ past' = [past EXCEPT !.cut = @ \cup (report.found \ Newest(report.found))]
    /\ UNCHANGED <<server, conn, wire, rewatch, closed, events, spent>>

\* recordIMAPEvent takes every message; whether its answer arrives is all the same.
Posted ==
    /\ report.stage = "post"
    /\ events' = events \cup report.keys
    /\ past' = [past EXCEPT !.told = @ \cup report.found]
    /\ report' = NoReport /\ me' = Ended(me)
    /\ UNCHANGED <<server, conn, wire, rewatch, closed, spent>>

\* Refused, lost, or taken up to a row that cannot be stored: never made again.
PostFails ==
    /\ report.stage = "post" /\ Used("failures", MaxFailures)
    /\ \E bad \in report.found :
         LET taken == {mail \in report.found : mail[2] < bad[2]} IN
         /\ events' = events \cup {key \in report.keys : key[2] < bad[2]}
         /\ past' = [past EXCEPT !.told = @ \cup taken,
                                 !.lost = @ \cup (report.found \ taken)]
    /\ report' = NoReport /\ me' = Ended(me)
    /\ UNCHANGED <<server, conn, wire, rewatch, closed>>

Connection == \/ Connected \/ ConnectFails \/ Opened \/ OpenRefused \/ OpenCutOff
              \/ Dropped \/ Rewatch \/ CountFolders
Reporting == \/ StartReport \/ ReportBusy \/ BaselineFound \/ NothingFound
             \/ FetchFails \/ Fetched \/ Posted \/ PostFails

Next == \/ Arrive \/ Recreate \/ \E u \in Uids : Delete(u)
        \/ Connection \/ Notice \/ Reporting
        \/ Disconnect \/ Restart

\* Notices are handled, the timer fires and every await ends.
Fairness == WF_vars(Notice) /\ WF_vars(Reporting)

SafetySpec == Init /\ [][Next]_vars
Spec == SafetySpec /\ Fairness

(***************************************************************************)
(* Properties                                                              *)
(***************************************************************************)

\* While the INBOX is watched and every notice handled, mail above lastUid is
\* in the report that runs or another report is queued - however arrivals,
\* deletions, reconnects and reports overlap (noteInboxExists, reportAgain).
\* Two exceptions: no baseline yet, and a fetch that failed.
NoMailOverlooked ==
    Listening /\ ~closed /\ wire = <<>> /\ me.lastUid # NoBase /\ ~past.missed =>
        \A u \in inbox : u > me.lastUid =>
            \/ <<validity, u>> \in report.found
            \/ me.newMailTimer \/ me.reportAgain

\* lastUid never passes a mail that is still there: between the baseline and
\* lastUid everything was told, lost in a failed report, cut off as one too
\* many, or is being reported.
NothingPassedOver ==
    me.uidValidity = validity =>
        \A u \in inbox : past.base < u /\ u <= me.lastUid =>
            <<validity, u>> \in past.told \cup past.lost \cup past.cut \cup report.found

\* docs/mail-router.md, "it never reports old mail": what was in the INBOX at
\* the first look is never reported, and nothing is reported twice.
OnlyNewsIsReported ==
    report.found \cap (past.old \cup past.told \cup past.lost \cup past.cut) = {}

\* The router holds an event of its own for each mail it was told of, although
\* uids start over: the key carries the UIDVALIDITY the mail was fetched under.
ToldMailHasItsEvent == past.told \subseteq events

\* If in the end the INBOX stays watched, each new mail that stays is dealt
\* with: told, lost in a failed report, or cut off.
NewMailIsReported ==
    <>[](Listening /\ ~closed /\ ~past.missed /\ me.lastUid # NoBase) =>
        []<>(\A u \in inbox : u > past.base =>
                <<validity, u>> \in past.told \cup past.lost \cup past.cut)

\* client.js, scheduleRewatch, "the connection broke: reconnect after a while
\* and go on watching": somebody will always try again.
KeepsWatching == closed \/ rewatch \/ conn.state \notin {"none", "dead"}
=============================================================================
