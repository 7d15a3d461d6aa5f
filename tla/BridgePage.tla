----------------------------- MODULE BridgePage -----------------------------
(***************************************************************************)
(* The page of the IMAP bridge (src/imap-bridge/public/app.js) and what    *)
(* the mail routes of src/imap-bridge/server.js answer it.                 *)
(*                                                                         *)
(* The page is event-driven, as in WebMail: an action is a click or a key, *)
(* a timer, or what one reply sets off.  Unlike there, the requests name   *)
(* the account and the folder of the moment they are sent in, and a reply  *)
(* finds whatever the page shows by then.                                  *)
(*                                                                         *)
(* A list is a pair of an account and a folder.  A mail is known by its    *)
(* UID, which only its list makes unique; UIDs grow with age, and a        *)
(* sequence number is the rank of a mail in its list.                      *)
(***************************************************************************)
EXTENDS Integers, FiniteSets, SequencesExt

CONSTANTS
    Lists,      \* the lists: <<account, folder>>
    Inbox,      \* the folder name "INBOX"
    Contents,   \* the UIDs each list holds at first
    Connected,  \* the accounts connected at first
    Views,      \* the views a browser tab may have stored
    Found,      \* the UIDs a search finds
    PageSize,   \* count=30
    None,       \* no account, list or mail
    MaxClicks,  \* bound: what the user does
    MaxChanges, \* bound: mails that arrive or are expunged elsewhere
    MaxTicks,   \* bound: polls and page reloads
    MaxFaults,  \* bound: failing requests
    MaxAll,     \* bound: all of these together
    MaxCalls    \* bound: requests under way when the user or a timer acts

Accounts == {l[1] : l \in Lists}
Folders  == {l[2] : l \in Lists}
Mails    == [list : Lists, uid : Nat]

ASSUME BridgePageAssumption ==
    /\ IsFiniteSet(Lists) /\ Lists \subseteq Accounts \X Folders
    /\ \A a \in Accounts : <<a, Inbox>> \in Lists
    /\ Contents \in [Lists -> SUBSET (Nat \ {0})] /\ \A l \in Lists : IsFiniteSet(Contents[l])
    /\ Connected \subseteq Accounts
    /\ Views \subseteq [account : Accounts \cup {None}, folder : Folders, uid : Nat]
    /\ \A view \in Views : view.account # None => <<view.account, view.folder>> \in Lists
    /\ None \notin Accounts \cup Lists
    /\ PageSize \in Nat \ {0}
    /\ {MaxClicks, MaxChanges, MaxTicks, MaxFaults, MaxAll, MaxCalls} \subseteq Nat

VARIABLES
    box,     \* the UIDs in each list, at the IMAP server
    top,     \* the UID each list gave last
    version, \* inboxVersion of each account, in the bridge
    clients, \* the accounts the bridge has
    page,    \* the variables of app.js, what is drawn, and the requests under way
    past,    \* history: see TypeOK
    spent    \* how much of each bound is used up

vars == <<box, top, version, clients, page, past, spent>>

\* A definition X_... before X is X with a slip in it, not part of the
\* specification (README, "Slips").

Mail(l, u) == [list |-> l, uid |-> u]

\* An entry of listCache, or an answer.  total is 0 where the code has none.
\* at: the inbox version when it was read (history).
Entry(l, S, more, oldest, total, at) ==
    [mails |-> [i \in 1 .. Cardinality(S) |->
                  Mail(l, CHOOSE u \in S : Cardinality({v \in S : v >= u}) = i)],
     more |-> more, oldest |-> oldest, total |-> total, at |-> at]

Nothing == [mails |-> <<>>, more |-> FALSE, oldest |-> 0, total |-> 0, at |-> 0]

\* id: tells requests alike apart, 0 for a list
\* kind: list | more | search | read | flag | delete | move | batchDelete |
\*   batchFlag | poll | remove | add | opening
\* load, cached, quiet: which loadMails and refreshListQuietly wait for it and
\*   are not outdated by loadSeq; restore: the UID restoreImapView will look for,
\*   0 for none, -1 where it does not wait
\* current: the list it continues has not been replaced (history); the uids of
\*   a "load more" are those it continues (history)
\* target: where a move goes; got, seen: the answer
NoCall == [id |-> 0, kind |-> "list", list |-> None, uids |-> {}, before |-> 0, target |-> None,
           load |-> FALSE, cached |-> 0, quiet |-> FALSE, restore |-> -1, current |-> TRUE,
           opt |-> FALSE, reply |-> "none", got |-> Nothing, seen |-> [a \in Accounts |-> 0]]

Kinds == {"list", "more", "search", "read", "flag", "delete", "move", "batchDelete",
          "batchFlag", "poll", "remove", "add", "opening"}

\* See Slips and AnswerRemoval.
SlipKinds == {"stray", "shift", "row", "burst", "foreign"}

TypeOK ==
    /\ box \in [Lists -> SUBSET Nat] /\ \A l \in Lists : \A u \in box[l] : u <= top[l]
    /\ version \in [Accounts -> Nat] /\ clients \subseteq Accounts
    /\ page.account \in Accounts \cup {None} /\ page.folder \in Folders
    /\ page.key \in Lists \cup {None}
    /\ page.cache \in Seq(Mails) /\ page.index \in Nat
    /\ {page.more, page.selecting, page.visible, page.drawn, page.polling} \subseteq BOOLEAN
    /\ \A l \in DOMAIN page.lists : l \in Lists /\ page.lists[l].mails \in Seq(Mails)
    /\ page.detail \in Mails \cup {None}
    /\ \A c \in page.calls : c.kind \in Kinds /\ (c.kind = "poll" \/ c.list[2] \in Folders)
    /\ \A c, d \in page.calls : c.id = d.id /\ c.kind # "list" => c = d
    \* one fetch of a list at a time, whoever waits for it
    /\ \A c, d \in page.calls : c.kind = "list" /\ d.kind = "list" /\ c.list = d.list => c = d
    /\ past.picked \subseteq Mails /\ past.missed \subseteq Accounts
    /\ past.slips \subseteq SlipKinds /\ past.search \in BOOLEAN
    /\ clients \subseteq past.ids

Used(what, most) ==
    /\ spent[what] < most
    /\ spent.clicks + spent.changes + spent.ticks + spent.faults < MaxAll
    /\ spent' = [spent EXCEPT ![what] = @ + 1]

(***************************************************************************)
(* Requests                                                                *)
(***************************************************************************)
Active(p) == <<p.account, p.folder>>

FreeId(p) == CHOOSE n \in 1 .. Cardinality(p.calls) + 1 : \A c \in p.calls : c.id # n

Send(p, call) == [p EXCEPT !.calls = @ \cup {[call EXCEPT !.id = FreeId(p)]}]

Request(p, kind, uids) == [NoCall EXCEPT !.kind = kind, !.list = Active(p), !.uids = uids]

\* ++loadSeq
OutdateLoads(p) ==
    [p EXCEPT !.calls = {[c EXCEPT !.load = FALSE, !.quiet = FALSE] : c \in @}]

\* The list is another one now: what was asked to continue the old one strays.
Replaced(p) == [p EXCEPT !.calls = {[c EXCEPT !.current = FALSE] : c \in @}]

\* Slip: only the requests of loadMails are shared
FetchesOf_OfLoads(p, l) == {c \in p.calls : c.kind = "list" /\ c.list = l /\ c.load}

FetchesOf(p, l) == {c \in p.calls : c.kind = "list" /\ c.list = l}

\* A fetch under way, asked for once more.
Shared(c, asked) ==
    [c EXCEPT !.load = @ \/ asked.load, !.quiet = @ \/ asked.quiet,
              !.restore = IF asked.restore = -1 THEN @ ELSE asked.restore,
              !.cached = IF asked.load THEN asked.cached ELSE @]

\* fetchMailList, called for some lists in a row: callers of the same list share
\* one request.  "wanted" has the request of each caller alone, which needs no
\* id: there is one for a list.
FetchMailLists(p, wanted) ==
    LET under(asked) == FetchesOf(p, asked.list)
    IN [p EXCEPT !.calls = (@ \ UNION {under(asked) : asked \in wanted})
                           \cup (UNION {{Shared(c, asked) : c \in under(asked)} : asked \in wanted})
                           \cup {asked \in wanted : under(asked) = {}}]

FetchMailList(p, asked) == FetchMailLists(p, {asked})

PutListCache(p, l, entry) ==
    [p EXCEPT !.lists = [k \in DOMAIN @ \cup {l} |-> IF k = l THEN entry ELSE @[k]]]

ForgetAccountCache(p, a) ==
    [p EXCEPT !.lists = [k \in {l \in DOMAIN @ : l[1] # a} |-> @[k]]]

(***************************************************************************)
(* The list and the detail                                                 *)
(***************************************************************************)
SyncListCache(p) ==
    IF p.key = None \/ p.key # Active(p) THEN p
    ELSE PutListCache(p, p.key,
            [mails |-> p.cache, more |-> p.more, oldest |-> p.oldest, at |-> p.at,
             total |-> IF p.key \in DOMAIN p.lists THEN p.lists[p.key].total ELSE 0])

RenderMailList(p) == SyncListCache([p EXCEPT !.drawn = TRUE])

Selected(p) == p.index \in 1 .. Len(p.cache)

\* The selected mail stays selected, by its UID.
ApplyMailList(p, l, entry) ==
    LET same == {i \in 1 .. Len(entry.mails) :
                    p.key = l /\ Selected(p) /\ entry.mails[i].uid = p.cache[p.index].uid}
    IN RenderMailList(
         [p EXCEPT !.key = l, !.cache = entry.mails, !.more = entry.more, !.oldest = entry.oldest,
                   !.at = entry.at, !.index = IF same = {} THEN 0 ELSE CHOOSE i \in same :
                                                   \A j \in same : i <= j])

ResetMailDetail(p) == [p EXCEPT !.visible = FALSE, !.uid = 0, !.detail = None]

LoadMails(p, uid) ==
    LET l      == Active(p)
        cached == l \in DOMAIN p.lists
        q      == OutdateLoads([p EXCEPT !.visible = FALSE])
        drawn  == IF cached THEN ApplyMailList(Replaced(q), l, p.lists[l])
                  ELSE [q EXCEPT !.key = None, !.drawn = FALSE]
        asked  == [NoCall EXCEPT !.list = l, !.load = TRUE, !.restore = uid,
                                 !.cached = IF cached THEN p.lists[l].total + 1 ELSE 0]
    IN IF p.account = None THEN p ELSE FetchMailList(drawn, asked)

ReadMail(p, i) ==
    IF i \notin 1 .. Len(p.cache) THEN p
    ELSE LET u == p.cache[i].uid IN
         Send([p EXCEPT !.index = i, !.uid = u, !.detail = None], Request(p, "read", {u}))

SelectList(p, a, f) ==
    LoadMails([p EXCEPT !.account = a, !.folder = f, !.uid = 0, !.visible = FALSE], -1)

(***************************************************************************)
(* What the replies set off                                                *)
(***************************************************************************)
\* The redraw that is left out when nothing changed.  Flags are not modelled:
\* "flags" says whether one of them differs.
Unchanged(p, c, flags) ==
    /\ c.cached > 0 /\ p.key = c.list /\ ~flags
    /\ IsPrefix(c.got.mails, p.cache)
    /\ c.got.total + 1 = c.cached

\* The rows of a list that show a mail of M, in their order.
Rows(s, M) ==
    LET places == {i \in DOMAIN s : s[i] \in M}
        Nth(n) == CHOOSE i \in places : Cardinality({j \in places : j <= i}) = n
    IN [n \in 1 .. Cardinality(places) |-> s[Nth(n)]]

\* The mails of the list that are older than all of a fresh page.
Older(p, fresh) ==
    Rows(p.cache, {m \in ToSet(p.cache) : \A n \in ToSet(fresh.mails) : m.uid < n.uid})

\* Slip: the older mails go, the place to go on from stays
QuietEntry_DropOlder(p, fresh) ==
    IF fresh.mails = <<>> \/ Older(p, fresh) = <<>> THEN fresh
    ELSE [fresh EXCEPT !.more = p.more, !.oldest = p.oldest]

QuietEntry(p, fresh) ==
    IF fresh.mails = <<>> \/ Older(p, fresh) = <<>> THEN fresh
    ELSE [fresh EXCEPT !.mails = @ \o Older(p, fresh), !.more = p.more, !.oldest = p.oldest]

\* loadMails goes on: every reply it does not recognise as old is drawn.
LoadReply(p, c, flags) ==
    CASE ~c.load -> p
      [] c.load /\ c.reply # "ok" -> IF c.cached = 0 THEN [p EXCEPT !.drawn = FALSE] ELSE p
      [] OTHER -> IF Unchanged(p, c, flags) THEN [p EXCEPT !.at = c.got.at]
                  ELSE ApplyMailList(Replaced(p), c.list, c.got)

\* refreshListQuietly goes on.
QuietReply(p, c) ==
    IF c.quiet /\ c.reply = "ok" /\ p.key = c.list
    THEN ApplyMailList(IF p.cache = <<>> THEN Replaced(p) ELSE p, c.list, QuietEntry(p, c.got))
    ELSE p

\* restoreImapView goes on: it looks for the UID in whatever list there is.
RestoreReply(p, c) ==
    LET at == {i \in 1 .. Len(p.cache) : p.cache[i].uid = c.restore}
        q  == [p EXCEPT !.polling = TRUE]
    IN CASE c.restore = -1 -> p
         [] c.restore # -1 /\ at # {} /\ p.account = c.list[1] ->
                ReadMail(q, CHOOSE i \in at : \A j \in at : i <= j)
         [] OTHER -> q

ListReply(p, c, flags) ==
    LET q == IF c.reply = "ok" THEN PutListCache(p, c.list, c.got) ELSE p
    IN RestoreReply(QuietReply(LoadReply(q, c, flags), c), c)

MoreReply(p, c) ==
    IF c.reply # "ok" THEN p
    ELSE RenderMailList(
            [p EXCEPT !.cache = @ \o c.got.mails, !.more = c.got.more,
                      !.oldest = IF c.got.mails = <<>> THEN @ ELSE c.got.oldest])

\* Slip: a load under way replaces the results when it is answered
SearchReply_KeepLoads(p, c) ==
    IF c.reply # "ok" THEN [p EXCEPT !.drawn = FALSE]
    ELSE RenderMailList([Replaced(p) EXCEPT !.key = None, !.cache = c.got.mails,
                                            !.more = FALSE, !.index = 0])

\* Slip: the results pass for the list they were found in
SearchReply_KeepKey(p, c) ==
    IF c.reply # "ok" THEN [p EXCEPT !.drawn = FALSE]
    ELSE RenderMailList([OutdateLoads(Replaced(p)) EXCEPT !.cache = c.got.mails,
                                                          !.more = FALSE, !.index = 0])

SearchReply(p, c) ==
    IF c.reply # "ok" THEN [p EXCEPT !.drawn = FALSE]
    ELSE RenderMailList([OutdateLoads(Replaced(p)) EXCEPT !.key = None, !.cache = c.got.mails,
                                                          !.more = FALSE, !.index = 0])

\* The rows are drawn again with the mail marked as read.
ReadReply(p, c) ==
    IF c.reply # "ok" THEN [p EXCEPT !.detail = None, !.visible = TRUE]
    ELSE RenderMailList([p EXCEPT !.detail = Mail(c.list, CHOOSE u \in c.uids : TRUE),
                                  !.visible = TRUE])

\* opt: asked for in the detail, which is opened again
FlagReply(p, c) ==
    LET q == RenderMailList(p) IN
    CASE c.reply # "ok" -> p
      [] c.reply = "ok" /\ c.opt -> ReadMail(q, q.index)
      [] OTHER -> q

\* mailCache.splice(selectedMailIndex, 1): with nothing selected, the last row.
Spliced(p) ==
    LET n == Len(p.cache)
        i == IF p.index = 0 THEN n ELSE p.index
    IN IF i \in 1 .. n THEN SubSeq(p.cache, 1, i - 1) \o SubSeq(p.cache, i + 1, n) ELSE p.cache

RemoveReply(p, c) ==
    IF c.reply # "ok" THEN p
    ELSE ResetMailDetail(RenderMailList([p EXCEPT !.cache = Spliced(p), !.index = 0]))

BatchReply(p, c) ==
    CASE c.reply # "ok" -> p
      [] c.reply = "ok" /\ c.kind = "batchFlag" -> RenderMailList(p)
      [] OTHER -> ResetMailDetail(RenderMailList(
            [p EXCEPT !.cache = Rows(@, {m \in ToSet(@) : m.uid \notin p.chosen}),
                      !.chosen = {}]))

\* Slip: the other inboxes are left to the next visit
OnInboxChanged_OnlyShown(p, a) ==
    LET l == <<a, Inbox>>
    IN IF Active(p) = l /\ p.key = l THEN {[NoCall EXCEPT !.list = l, !.quiet = TRUE]} ELSE {}

\* onInboxChanged: the fetch it asks for, if any
OnInboxChanged(p, a) ==
    LET l     == <<a, Inbox>>
        shown == Active(p) = l /\ p.key = l
    IN IF shown \/ l \in DOMAIN p.lists THEN {[NoCall EXCEPT !.list = l, !.quiet = shown]} ELSE {}

\* versions[a] is -1 where the page has not seen one.
Changed(p, c) ==
    {a \in Accounts : {p.versions[a], c.seen[a]} \cap {-1} = {} /\ p.versions[a] # c.seen[a]}

PollReply(p, c) ==
    IF c.reply # "ok" THEN p
    ELSE FetchMailLists([p EXCEPT !.versions = c.seen],
                        UNION {OnInboxChanged(p, a) : a \in Changed(p, c)})

RemoveAccountReply(p, c) ==
    LET gone == c.list[1]
        q == [ForgetAccountCache(p, gone) EXCEPT !.known = @ \ {gone}]
    IN CASE c.reply # "ok" -> p
         [] c.reply = "ok" /\ p.account = gone ->
                [ResetMailDetail(q) EXCEPT !.account = None, !.drawn = FALSE]
         [] OTHER -> q

\* The folders of the new account are awaited before its mails are loaded.
AddAccountReply(p, c) ==
    IF c.reply # "ok" THEN p
    ELSE Send([p EXCEPT !.account = c.list[1], !.folder = Inbox, !.uid = 0],
              [NoCall EXCEPT !.kind = "opening", !.list = c.list])

OpeningReply(p, c) ==
    IF c.reply = "ok" THEN LoadMails([p EXCEPT !.known = @ \cup {c.list[1]}], -1) ELSE p

Handled(p, c, flags) ==
    CASE c.kind = "list" -> ListReply(p, c, flags)
      [] c.kind = "more" -> MoreReply(p, c)
      [] c.kind = "search" -> SearchReply(p, c)
      [] c.kind = "read" -> ReadReply(p, c)
      [] c.kind = "flag" -> FlagReply(p, c)
      [] c.kind \in {"delete", "move"} -> RemoveReply(p, c)
      [] c.kind \in {"batchDelete", "batchFlag"} -> BatchReply(p, c)
      [] c.kind = "poll" -> PollReply(p, c)
      [] c.kind = "remove" -> RemoveAccountReply(p, c)
      [] c.kind = "add" -> AddAccountReply(p, c)
      [] c.kind = "opening" -> OpeningReply(p, c)

(***************************************************************************)
(* A page is opened: restoreImapView with what the browser tab has stored  *)
(***************************************************************************)
Opened(view, lists) ==
    LET p == [account |-> None, folder |-> Inbox, key |-> None, cache |-> <<>>, index |-> 0,
              more |-> FALSE, oldest |-> 0, at |-> 0, lists |-> lists, known |-> clients,
              selecting |-> FALSE, chosen |-> {}, visible |-> FALSE, detail |-> None,
              drawn |-> FALSE, uid |-> 0, versions |-> [a \in Accounts |-> -1],
              polling |-> FALSE, ahead |-> clients, calls |-> {}]
        q == [p EXCEPT !.account = view.account, !.folder = view.folder]
    IN IF view.account \notin clients THEN [p EXCEPT !.polling = TRUE]
       ELSE LoadMails(q, view.uid)

Init ==
    /\ box = Contents /\ top = [l \in Lists |-> Max(Contents[l] \cup {0})]
    /\ version = [a \in Accounts |-> 0] /\ clients = Connected
    /\ page \in {Opened(view, [l \in {} |-> Nothing]) : view \in Views}
    /\ past = [picked |-> {}, missed |-> {}, slips |-> {}, search |-> FALSE,
               ids |-> Connected]
    /\ spent = [clicks |-> 0, changes |-> 0, ticks |-> 0, faults |-> 0]

(***************************************************************************)
(* The bridge and the IMAP server                                          *)
(***************************************************************************)
Rank(l, u) == Cardinality({v \in box[l] : v <= u})

\* A change in an inbox is noticed by the connection that watches it.
Noticed(lists) ==
    version' = [a \in Accounts |-> version[a] + (IF <<a, Inbox>> \in lists THEN 1 ELSE 0)]

Arrive(l) ==
    /\ Used("changes", MaxChanges) /\ l[2] = Inbox
    /\ box' = [box EXCEPT ![l] = @ \cup {top[l] + 1}]
    /\ top' = [top EXCEPT ![l] = @ + 1]
    /\ Noticed({l})
    /\ UNCHANGED <<clients, page, past>>

Expunge(l, u) ==
    /\ Used("changes", MaxChanges) /\ u \in box[l]
    /\ box' = [box EXCEPT ![l] = @ \ {u}]
    /\ Noticed({l})
    /\ UNCHANGED <<top, clients, page, past>>

Answered(c, reply, got) ==
    page' = [page EXCEPT !.calls = (@ \ {c}) \cup {[c EXCEPT !.reply = reply, !.got = got]}]

\* GET mails: the newest page, or the page before a sequence number.
AnswerMails(c) ==
    /\ c.reply = "none" /\ c.kind \in {"list", "more"} /\ c.list[1] \in clients
    /\ LET l     == c.list
           total == Cardinality(box[l])
           last  == IF c.before > 0 THEN c.before - 1 ELSE total
           first == Max({1, last - PageSize + 1})
           S     == {u \in box[l] : Rank(l, u) \in first .. last}
       IN Answered(c, "ok", Entry(l, S, total > 0 /\ first > 1, IF S = {} THEN 0 ELSE first, total,
                                  version[l[1]]))
    /\ UNCHANGED <<box, top, version, clients, past, spent>>

AnswerSearch(c) ==
    /\ c.reply = "none" /\ c.kind = "search" /\ c.list[1] \in clients
    /\ LET hits == box[c.list] \cap Found
           S    == {u \in hits : Cardinality({v \in hits : v <= u}) <= PageSize}
       IN Answered(c, "ok", Entry(c.list, S, FALSE, 0, 0, 0))
    /\ UNCHANGED <<box, top, version, clients, past, spent>>

\* A mail that is gone cannot be read, but can be flagged, moved or deleted.
AnswerMail(c) ==
    /\ c.reply = "none" /\ c.kind \in {"read", "flag", "batchFlag"} /\ c.list[1] \in clients
    /\ Answered(c, IF c.kind = "read" /\ c.uids \cap box[c.list] = {} THEN "refused" ELSE "ok",
                Nothing)
    /\ UNCHANGED <<box, top, version, clients, past, spent>>

AnswerRemoval(c) ==
    /\ c.reply = "none" /\ c.kind \in {"delete", "move", "batchDelete"} /\ c.list[1] \in clients
    /\ LET gone == c.uids \cap box[c.list]
           new  == IF c.target = None \/ gone = {} THEN {} ELSE {top[c.target] + 1}
       IN /\ box' = [l \in Lists |-> (IF l = c.list THEN box[l] \ gone ELSE box[l])
                                     \cup (IF l = c.target THEN new ELSE {})]
          /\ top' = [l \in Lists |-> Max({top[l]} \cup (IF l = c.target THEN new ELSE {}))]
          /\ Noticed(IF gone = {} THEN {} ELSE {c.list, c.target})
    /\ Answered(c, "ok", Nothing)
    /\ past' = [past EXCEPT !.slips = @ \cup
                    IF \E u \in c.uids : u > top[c.list] THEN {"foreign"} ELSE {}]
    /\ UNCHANGED <<clients, spent>>

\* GET changes
AnswerPoll(c) ==
    /\ c.reply = "none" /\ c.kind = "poll"
    /\ page' = [page EXCEPT !.calls = (@ \ {c}) \cup {[c EXCEPT !.reply = "ok",
                    !.seen = [a \in Accounts |-> IF a \in clients THEN version[a] ELSE -1]]}]
    /\ UNCHANGED <<box, top, version, clients, past, spent>>

AnswerAccount(c) ==
    /\ c.reply = "none" /\ c.kind \in {"remove", "add", "opening"}
    /\ clients' = CASE c.kind = "remove" -> clients \ {c.list[1]}
                    [] c.kind = "add" -> clients \cup {c.list[1]}
                    [] OTHER -> clients
    /\ Answered(c, IF c.list[1] \in clients' \cup (IF c.kind = "remove" THEN clients ELSE {})
                   THEN "ok" ELSE "refused", Nothing)
    /\ past' = [past EXCEPT !.ids = @ \cup clients']
    /\ UNCHANGED <<box, top, version, spent>>

\* 404 for an account that was removed.
RefuseUnknown(c) ==
    /\ c.reply = "none" /\ c.kind \notin {"poll", "remove", "add", "opening"}
    /\ c.list[1] \notin clients
    /\ Answered(c, "refused", Nothing)
    /\ UNCHANGED <<box, top, version, clients, past, spent>>

\* The IMAP server refuses, or the answer gets lost.
Fail(c) ==
    /\ c.reply \in {"none", "ok"} /\ Used("faults", MaxFaults)
    /\ Answered(c, "refused", Nothing)
    /\ UNCHANGED <<box, top, version, clients, past>>

(***************************************************************************)
(* The page: a reply comes in                                              *)
(***************************************************************************)
\* The first poll has nothing to compare with.
Overlooked(c) ==
    {a \in Accounts : /\ c.seen[a] # -1 /\ page.versions[a] = -1
                      /\ <<a, Inbox>> \in DOMAIN page.lists
                      /\ page.lists[<<a, Inbox>>].at < c.seen[a]}

\* A mail that is as old as one of a set, or older.
UpTo(u, uids) == \E v \in uids : u <= v

Straight(c) == \A n \in ToSet(c.got.mails) : UpTo(n.uid, c.uids)

\* stray: a "load more" is answered when the list it continues has gone.
\* shift: so many mails are gone that a "load more" gets one that is newer than
\*   all it continues.
\* row: the rows removed are not those of the mails deleted or moved.
\* foreign (AnswerRemoval): a UID to delete or move is one the list never gave.
\* burst: a whole page of mails arrived between two refreshes.
Slips(c) ==
    LET asked == {Mail(c.list, u) : u \in c.uids}
        gone  == IF c.kind = "batchDelete"
                 THEN {m \in ToSet(page.cache) : m.uid \in page.chosen}
                 ELSE ToSet(page.cache) \ ToSet(Spliced(page))
    IN CASE c.kind = "more" /\ ~c.current -> {"stray"}
         [] c.kind = "more" /\ c.current /\ ~Straight(c) -> {"shift"}
         [] c.kind \in {"delete", "move", "batchDelete"} /\ ~(gone \subseteq asked) -> {"row"}
         [] c.kind = "list" /\ c.quiet /\ page.key = c.list
                /\ Older(page, c.got) # <<>>
                /\ \E u \in box[c.list] :
                      \A m \in ToSet(page.cache), n \in ToSet(c.got.mails) : m.uid < u /\ u < n.uid
                -> {"burst"}
         [] OTHER -> {}

\* missed: what was fetched may be older than the change that was noticed
Recorded(c) ==
    [past EXCEPT
        !.slips = @ \cup (IF c.reply = "ok" THEN Slips(c) ELSE {}),
        !.search = (@ \/ (c.kind = "search" /\ c.reply = "ok")) /\ c.kind # "opening",
        !.picked = IF c.kind = "batchDelete" /\ c.reply = "ok" THEN {} ELSE @,
        !.missed =
            CASE c.kind = "poll" /\ c.reply = "ok" -> @ \cup Overlooked(c)
              [] c.kind = "list" /\ c.list[2] = Inbox ->
                    IF c.reply = "ok" /\ c.got.at >= page.versions[c.list[1]]
                    THEN @ \ {c.list[1]} ELSE @ \cup {c.list[1]}
              [] OTHER -> @]

Deliver(c) ==
    /\ c.reply # "none"
    /\ \E flags \in IF c.kind = "list" THEN BOOLEAN ELSE {FALSE} :
          page' = Handled([page EXCEPT !.calls = @ \ {c}], c, flags)
    /\ past' = Recorded(c)
    /\ UNCHANGED <<box, top, version, clients, spent>>

(***************************************************************************)
(* The page: the user and the timers                                       *)
(***************************************************************************)
Free == Cardinality(page.calls) < MaxCalls

ServerIdle == UNCHANGED <<box, top, version, clients>>

Click == Used("clicks", MaxClicks) /\ Free /\ ServerIdle

\* Selecting rows is not bounded: there are only so many selections.
Tap == Free /\ ServerIdle /\ UNCHANGED spent

\* A click that chooses a list ends the search.
Chooses(p) == page' = p /\ past' = [past EXCEPT !.search = FALSE]
Stays(p) == page' = p /\ UNCHANGED past

SelectAccount(a) == Click /\ a \in page.known /\ Chooses(SelectList(page, a, Inbox))

SelectFolder(f) ==
    /\ Click /\ page.account # None /\ <<page.account, f>> \in Lists
    /\ Chooses(SelectList(page, page.account, f))

RefreshMails ==
    /\ Click /\ Chooses(ResetMailDetail(LoadMails([page EXCEPT !.index = 0], -1)))

LoadMoreMails ==
    /\ Click /\ page.account # None /\ page.oldest > 0 /\ page.drawn /\ page.more
    /\ page.cache # <<>>
    /\ Stays(Send(page, [Request(page, "more", {m.uid : m \in ToSet(page.cache)}) EXCEPT
                            !.before = page.oldest]))

DoSearch ==
    /\ Click /\ page.account # None
    /\ Stays(Send([page EXCEPT !.visible = FALSE, !.drawn = FALSE], Request(page, "search", {})))

\* A row can be clicked when it is drawn, the selected one opened by a key.
OpenMail(i) ==
    /\ Click /\ i \in 1 .. Len(page.cache) /\ (page.drawn \/ i = page.index)
    /\ page.account # None
    /\ Stays(ReadMail(page, i))

\* The keys j and k.
Highlight(down) ==
    /\ Click /\ page.cache # <<>>
    /\ Stays([page EXCEPT !.index = IF down THEN Min({@ + 1, Len(page.cache)})
                                    ELSE Max({@ - 1, 1})])

ToggleStarInList(i) ==
    /\ Click /\ i \in 1 .. Len(page.cache) /\ (page.drawn \/ i = page.index)
    /\ page.account # None
    /\ Stays(Send(page, Request(page, "flag", {page.cache[i].uid})))

\* The buttons of the detail stay while it is drawn, the keys while it is in view.
DetailActs == (page.detail # None \/ page.visible) /\ Selected(page) /\ page.account # None

ToggleReadDetail ==
    /\ Click /\ DetailActs
    /\ Stays(Send(page, [Request(page, "flag", {page.cache[page.index].uid}) EXCEPT !.opt = TRUE]))

DeleteMailDetail ==
    /\ Click /\ DetailActs
    /\ Stays(Send(page, Request(page, "delete", {page.cache[page.index].uid})))

MoveMailDetail(f) ==
    /\ Click /\ DetailActs /\ page.detail # None /\ <<page.account, f>> \in Lists
    /\ Stays(Send(page, [Request(page, "move", {page.cache[page.index].uid}) EXCEPT
                            !.target = <<page.account, f>>]))

ToggleSelectMode ==
    /\ Click
    /\ page' = RenderMailList([page EXCEPT !.selecting = ~@, !.chosen = {}])
    /\ past' = [past EXCEPT !.picked = {}]

ToggleMailSelect(i) ==
    /\ Tap /\ page.selecting /\ page.drawn /\ i \in 1 .. Len(page.cache)
    /\ LET m == page.cache[i] IN
       IF m.uid \in page.chosen
       THEN /\ page' = [page EXCEPT !.chosen = @ \ {m.uid}]
            /\ past' = [past EXCEPT !.picked = {n \in @ : n.uid # m.uid}]
       ELSE /\ page' = [page EXCEPT !.chosen = @ \cup {m.uid}]
            /\ past' = [past EXCEPT !.picked = @ \cup {m}]

BatchSelectAll ==
    /\ Tap /\ page.selecting
    /\ page' = RenderMailList([page EXCEPT !.chosen = @ \cup {m.uid : m \in ToSet(page.cache)}])
    /\ past' = [past EXCEPT !.picked = @ \cup ToSet(page.cache)]

BatchDeselectAll ==
    /\ Tap /\ page.selecting
    /\ page' = RenderMailList([page EXCEPT !.chosen = {}])
    /\ past' = [past EXCEPT !.picked = {}]

DoBatchAction(kind) ==
    /\ Click /\ page.selecting /\ page.chosen # {} /\ page.account # None
    /\ Stays(Send(page, Request(page, kind, page.chosen)))

\* Escape, outside the select mode.
CloseDetail ==
    /\ Click /\ ~page.selecting
    /\ Stays(ResetMailDetail([page EXCEPT !.index = 0]))

ShowMailListView ==
    /\ Click /\ page.detail # None
    /\ Stays([page EXCEPT !.visible = FALSE, !.uid = 0])

RemoveAccount(a) ==
    /\ Click /\ a \in page.known
    /\ Stays(Send(page, [NoCall EXCEPT !.kind = "remove", !.list = <<a, Inbox>>]))

\* An account that is added again gets another id: it is another account here.
DoAddAccount(a) ==
    /\ Click /\ a \notin past.ids /\ \A c \in page.calls : c.kind # "add"
    /\ Stays(Send(page, [NoCall EXCEPT !.kind = "add", !.list = <<a, Inbox>>]))

Tick == Used("ticks", MaxTicks) /\ Free /\ ServerIdle

\* The timer, or the browser tab that is looked at again, at any time.
PollChanges ==
    /\ Tick
    /\ Stays(Send(page, [NoCall EXCEPT !.kind = "poll"]))

\* The other inboxes, once.
PrefetchOtherAccounts(a) ==
    LET l == <<a, Inbox>>
        p == [page EXCEPT !.ahead = @ \ {a}]
    IN /\ page.polling /\ a \in page.ahead \ {page.account} /\ Free /\ ServerIdle
       /\ Stays(IF l \in DOMAIN page.lists THEN p
                ELSE FetchMailList(p, [NoCall EXCEPT !.list = l]))
       /\ UNCHANGED spent

\* The browser tab keeps the view and the cached lists.
Reload ==
    /\ Tick
    /\ page' = Opened([account |-> page.account, folder |-> page.folder, uid |-> page.uid],
                      page.lists)
    /\ past' = [past EXCEPT !.picked = {}, !.search = FALSE]

UserActs ==
    \/ \E a \in Accounts : SelectAccount(a)
    \/ \E f \in Folders : SelectFolder(f)
    \/ RefreshMails
    \/ LoadMoreMails
    \/ DoSearch
    \/ \E i \in 1 .. Len(page.cache) : OpenMail(i)
    \/ \E down \in BOOLEAN : Highlight(down)
    \/ \E i \in 1 .. Len(page.cache) : ToggleStarInList(i)
    \/ ToggleReadDetail
    \/ DeleteMailDetail
    \/ \E f \in Folders : MoveMailDetail(f)
    \/ ToggleSelectMode
    \/ \E i \in 1 .. Len(page.cache) : ToggleMailSelect(i)
    \/ BatchSelectAll
    \/ BatchDeselectAll
    \/ \E kind \in {"batchDelete", "batchFlag"} : DoBatchAction(kind)
    \/ CloseDetail
    \/ ShowMailListView
    \/ \E a \in Accounts : RemoveAccount(a)
    \/ \E a \in Accounts : DoAddAccount(a)

Next ==
    \/ \E l \in Lists : Arrive(l)
    \/ \E l \in Lists : \E u \in box[l] : Expunge(l, u)
    \/ \E c \in page.calls :
          \/ AnswerMails(c)
          \/ AnswerSearch(c)
          \/ AnswerMail(c)
          \/ AnswerRemoval(c)
          \/ AnswerPoll(c)
          \/ AnswerAccount(c)
          \/ RefuseUnknown(c)
          \/ Fail(c)
          \/ Deliver(c)
    \/ UserActs
    \/ PollChanges
    \/ \E a \in Accounts : PrefetchOtherAccounts(a)
    \/ Reload

Spec == Init /\ [][Next]_vars

(***************************************************************************)
(* Properties                                                              *)
(***************************************************************************)
\* listCache is keyed by account and folder, and "search results ... are not
\* written back" (app.js:39): an entry holds mails of its own list only,
\* whatever the page shows when a reply comes.  The exception is a "load more"
\* answered when the list it continues has gone (README, "Findings").
MailsStayInTheirList ==
    "stray" \in past.slips \/ \A l \in DOMAIN page.lists :
        \A i \in DOMAIN page.lists[l].mails : page.lists[l].mails[i].list = l

\* A mail of the list is shown, or newer than all that are shown, or can still
\* be reached with "load more": deletions elsewhere, which shift the sequence
\* numbers, refreshes and reloads skip no mail.  The exceptions are the slips
\* of the code that "Slips" names (README, "Findings").
NoMailIsSkipped ==
    past.slips # {} \/ \A l \in DOMAIN page.lists :
        LET entry == page.lists[l]
            uids  == {m.uid : m \in ToSet(entry.mails)}
        IN \A u \in box[l] :
              \/ u \in uids
              \/ \A v \in uids : v < u
              \/ (\A v \in uids : u < v) /\ entry.more /\ Rank(l, u) < entry.oldest

\* A change the page was told of is in the cached inbox as soon as no fetch of
\* it is under way, unless the fetch failed or was already answered when the
\* change was noticed.
ChangesAreListed ==
    \A a \in Accounts : LET l == <<a, Inbox>> IN
        l \in DOMAIN page.lists /\ FetchesOf(page, l) = {} /\ a \notin past.missed
            => page.lists[l].at >= page.versions[a]

\* "Void the list refresh that is still on its way, so that it does not push
\* the search results out" (app.js:813): results stay until a list is chosen.
SearchStands == past.search => page.key = None

\* "Delete {n} selected emails?" (app.js:269): a batch is about mails that were
\* selected.
BatchIsOfTheSelected ==
    [][\A c \in page'.calls \ page.calls :
          c.kind = "batchDelete" /\ c.reply = "none" =>
              \A u \in c.uids : Mail(c.list, u) \in past.picked]_vars
=============================================================================
