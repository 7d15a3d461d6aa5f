------------------------------ MODULE WebMail ------------------------------
(***************************************************************************)
(* The mail page (src/frontend/src/state.ts, with the conditions under     *)
(* which src/frontend/src/components/*.tsx offer its actions) and the      *)
(* mailboxes behind it (src/viewer.go, src/store.go).                      *)
(*                                                                         *)
(* The page is event-driven: an action is a click, a timer, or what one    *)
(* reply sets off.  Between a request and its reply the user, the timer    *)
(* and other replies go on; the server answers in any order, and a reply   *)
(* may be lost after the server acted.  "page" is the store of the page;   *)
(* handlers are functions of it, so that one may call another.             *)
(*                                                                         *)
(* A larger mail is a newer one.  A ticket is modelled by what it is for:  *)
(* each call knows whether it still holds the newest ticket of its kind.   *)
(***************************************************************************)
EXTENDS Integers, FiniteSets, FiniteSetsExt

CONSTANTS
    Boxes,     \* mailboxes
    Mails,     \* mails, numbered by age
    Home,      \* the mailbox of a mail
    Contents,  \* where the mails are at first
    Views,     \* the views a browser tab may have stored
    PageSize,  \* PAGE_SIZE
    MaxPage,   \* MAX_PAGE
    None,      \* no mailbox, no mail
    MaxClicks, \* bound: what the user does
    MaxTicks,  \* bound: auto-refreshes
    MaxFaults, \* bound: failing requests
    MaxCalls   \* bound: requests under way when a click or a tick comes

Places  == {"unborn", "inbox", "trash", "purged", "sent"}
Folders == {"inbox", "sent", "trash"}
Tabs    == Folders \cup {"imap"}

ASSUME MailAssumption ==
    /\ Mails \subseteq Nat \ {0} /\ IsFiniteSet(Mails)
    /\ Home \in [Mails -> Boxes] /\ Contents \in [Mails -> Places]
    /\ Views \subseteq [tab : Tabs, email : Boxes \cup {None}, msg : Mails \cup {None}]
    /\ None \notin Boxes \cup Mails
    /\ {PageSize, MaxPage} \subseteq Nat \ {0} /\ PageSize <= MaxPage
    /\ {MaxClicks, MaxTicks, MaxFaults, MaxCalls} \subseteq Nat

VARIABLES
    place, \* where each mail is on the server
    seen,  \* the mails the server has as read
    page,  \* the store, and the requests under way
    past,  \* what the user was told is deleted, and still is (history)
    spent  \* how much of each bound is used up

vars == <<place, seen, page, past, spent>>

\* A definition X_... before X is X with a slip in it, not part of the
\* specification (README, "Slips").

\* query is loadInbox, more the next page of the inbox.
Kinds == {"query", "refresh", "more", "search", "sent", "trash", "detail", "sentDetail",
          "delete", "batchDelete", "markRead", "undo", "restore", "purge"}

\* opt: silent, for query; append, for sent and trash; of a trashed mail, for detail
\* current: it holds the newest ticket; edited: inboxEdits changed since it was sent
\* wanted: the query the user made last; awaited: restoreViewState waits for it
Calls == [id : 1 .. MaxCalls + 2, kind : Kinds, opt : BOOLEAN, email : Boxes,
          mails : SUBSET Mails, at : Nat, limit : Nat, current : BOOLEAN, edited : BOOLEAN,
          wanted : BOOLEAN, awaited : BOOLEAN,
          reply : {"none", "ok", "refused", "lost"},
          got : SUBSET Mails, read : SUBSET Mails, whole : SUBSET Mails]

Ticket(kind) ==
    CASE kind \in {"query", "refresh", "more"} -> "inbox"
      [] kind \in {"detail", "sentDetail"} -> "detail"
      [] kind \in {"search", "sent", "trash"} -> kind
      [] OTHER -> "none"

EmptyList == [items |-> {}, read |-> {}, total |-> 0, status |-> "idle", more |-> FALSE]
NoSearch  == [active |-> FALSE, items |-> {}, read |-> {}, status |-> "idle"]
NoDetail  == [kind |-> "none", id |-> None, trash |-> FALSE]

Statuses == {"idle", "loading", "ready", "error"}
Lists == [items : SUBSET Mails, read : SUBSET Mails, total : Nat, status : Statuses,
          more : BOOLEAN]

TypeOK ==
    /\ place \in [Mails -> Places] /\ seen \subseteq Mails
    /\ page.tab \in Tabs /\ page.email \in Boxes \cup {None}
    /\ {page.querying, page.auto} \subseteq BOOLEAN
    /\ page.lists \in [Folders -> Lists]
    /\ \A f \in Folders : page.lists[f].read \subseteq page.lists[f].items
    /\ page.search \in [active : BOOLEAN, items : SUBSET Mails, read : SUBSET Mails,
                        status : Statuses]
    /\ page.selected \subseteq Mails
    /\ page.active \in Mails \cup {None}
    /\ page.detail \in [kind : {"none", "loading", "error", "mail", "sent"},
                        id : Mails \cup {None}, trash : BOOLEAN]
    /\ page.detail.kind = "none" <=> page.active = None
    /\ page.offers \subseteq [email : Boxes, mails : SUBSET Mails, removed : SUBSET Mails,
                              read : SUBSET Mails, single : BOOLEAN]
    /\ page.restore \in Views \cup {NoDetail}
    /\ page.calls \subseteq Calls
    /\ \A c, d \in page.calls : c.id = d.id => c = d
    /\ past \subseteq Mails
    /\ spent \in [clicks : Nat, ticks : Nat, faults : Nat]

Used(what, most) == spent[what] < most /\ spent' = [spent EXCEPT ![what] = @ + 1]

(***************************************************************************)
(* Requests                                                                *)
(***************************************************************************)
FreeId(p) == Min((1 .. MaxCalls + 2) \ {c.id : c \in p.calls})

\* ++tickets[ticket]: no call of that kind is the newest any more.
Outdate(p, ticket) ==
    [p EXCEPT !.calls = {[c EXCEPT !.current = @ /\ Ticket(c.kind) # ticket] : c \in @}]

\* Slip: a local change goes unnoticed by a refresh under way
InboxEdited_Unnoticed(p) == p

\* inboxEdits++
InboxEdited(p) == [p EXCEPT !.calls = {[c EXCEPT !.edited = TRUE] : c \in @}]

Request(p, kind, opt, email, mails) ==
    [id |-> FreeId(p), kind |-> kind, opt |-> opt, email |-> email, mails |-> mails,
     at |-> 0, limit |-> PageSize, current |-> TRUE, edited |-> FALSE, wanted |-> FALSE,
     awaited |-> FALSE, reply |-> "none", got |-> {}, read |-> {}, whole |-> {}]

Send(p, call) ==
    LET q == Outdate(p, Ticket(call.kind)) IN
    [(IF Ticket(call.kind) = "none" THEN p ELSE q) EXCEPT !.calls = @ \cup {call}]

(***************************************************************************)
(* Handlers                                                                *)
(***************************************************************************)
\* Slip: leaves the row marked as open
ResetMailDetail_KeepRow(p) == [Outdate(p, "detail") EXCEPT !.detail = NoDetail]
\* Slip: the mail on its way still opens
ResetMailDetail_KeepTicket(p) == [p EXCEPT !.detail = NoDetail, !.active = None]

ResetMailDetail(p) == [Outdate(p, "detail") EXCEPT !.detail = NoDetail, !.active = None]

OpenDetailShell(p, kind, m, trash) ==
    Send([p EXCEPT !.active = m, !.detail = [kind |-> "loading", id |-> None, trash |-> FALSE]],
         Request(p, kind, trash, p.email, {m}))

Shown(p) == IF p.search.active THEN p.search.items ELSE p.lists["inbox"].items

\* Slip: takes the ticket and leaves the flag of the "load more" it replaces
LoadInbox_KeepMore(p, email, silent) ==
    LET q == IF silent THEN p
             ELSE [ResetMailDetail(p) EXCEPT !.querying = TRUE, !.selected = {},
                                             !.lists["inbox"].status = "loading"]
    IN Send(q, Request(p, "query", silent, email, {}))

LoadInbox(p, email, silent) ==
    LET q == IF silent THEN p
             ELSE [ResetMailDetail(p) EXCEPT !.querying = TRUE, !.selected = {},
                                             !.lists["inbox"].status = "loading"]
    IN Send([q EXCEPT !.lists["inbox"].more = FALSE], Request(p, "query", silent, email, {}))

\* The query of the user: it is the one wanted now.
QueryInbox(p, email) ==
    LET q == LoadInbox(p, email, FALSE) IN
    [q EXCEPT !.calls = {[c EXCEPT !.wanted = c.id = FreeId(p)] : c \in @}]

LoadFolder(p, f, append) ==
    LET at == IF append THEN Cardinality(p.lists[f].items) ELSE 0
        q  == IF append THEN [p EXCEPT !.lists[f].more = TRUE]
              ELSE [p EXCEPT !.lists[f].status = "loading"]
    IN Send(q, [Request(p, f, append, p.email, {}) EXCEPT !.at = at])

ShowTab(p) ==
    CASE p.tab # "inbox" -> LoadFolder(p, p.tab, FALSE)
      [] p.tab = "inbox" /\ p.lists["inbox"].status \in {"ready", "loading"} -> p
      [] OTHER -> LoadInbox(p, p.email, FALSE)

SwitchTab(p, tab) ==
    LET q == [Outdate(p, "search") EXCEPT
                !.tab = tab,
                !.auto = @ /\ tab = "inbox",
                !.search.active = FALSE, !.search.items = {}, !.search.read = {},
                !.selected = {}]
        r == ResetMailDetail(q)
    IN CASE tab = "imap" -> q
         [] tab # "imap" /\ p.email = None -> r
         [] OTHER -> ShowTab(r)

ClearSearch(p) ==
    [Outdate(p, "search") EXCEPT !.search.active = FALSE, !.search.items = {},
                                 !.search.read = {}, !.selected = {}]

PruneSelection(p) == [p EXCEPT !.selected = @ \cap Shown(p)]

RemoveFromInbox(p, mails) ==
    PruneSelection(
        [InboxEdited(p) EXCEPT
            !.lists["inbox"].items = @ \ mails, !.lists["inbox"].read = @ \ mails,
            !.lists["inbox"].total = IF @ > Cardinality(mails) THEN @ - Cardinality(mails) ELSE 0,
            !.search.items = @ \ mails, !.search.read = @ \ mails])

PutBackIntoInbox(p, offer) ==
    IF offer.email # p.email THEN p
    ELSE [InboxEdited(p) EXCEPT
            !.lists["inbox"].read = @ \cup (offer.read \ p.lists["inbox"].items),
            !.lists["inbox"].items = @ \cup offer.removed,
            !.lists["inbox"].total = @ + Cardinality(offer.removed)]

MarkedRead(p, mails) ==
    [InboxEdited(p) EXCEPT !.lists["inbox"].read = @ \cup (mails \cap p.lists["inbox"].items),
                           !.search.read = @ \cup (mails \cap p.search.items)]

(***************************************************************************)
(* What the replies set off                                                *)
(***************************************************************************)
\* Slip: a reply counts although the page shows another mailbox
Fresh_AnyMailbox(p, c) == c.current

Fresh(p, c) == c.current /\ c.email = p.email

\* Slip: keeps what was read again and nothing else
OlderThanWindow_WindowOnly(loaded, fresh, limit, total) == {}

OlderThanWindow(loaded, fresh, limit, total) ==
    IF Cardinality(fresh) < limit \/ Cardinality(fresh) >= total THEN {}
    ELSE {m \in loaded : m <= Min(fresh)}

\* A list taken over from a reply, with what it keeps of the old one.
Listed(list, c, kept) ==
    [list EXCEPT !.items = c.got \cup kept, !.read = c.read \cup (@ \cap (kept \ c.got)),
                 !.total = Cardinality(c.whole)]

GotInbox(p, c) ==
    LET changed == c.email # p.email
        q == [Outdate(IF changed THEN ResetMailDetail(p) ELSE p, "search") EXCEPT
                !.email = c.email,
                !.lists = [f \in Folders |->
                    CASE f = "inbox" -> Listed([EmptyList EXCEPT !.status = "ready"], c, {})
                      [] f # "inbox" /\ changed -> EmptyList
                      [] OTHER -> @[f]],
                !.search.active = FALSE, !.search.items = {}, !.search.read = {},
                !.selected = IF c.opt /\ ~changed THEN @ ELSE {}]
    IN IF changed /\ p.tab \in {"sent", "trash"} THEN LoadFolder(q, p.tab, FALSE) ELSE q

QueryReply(p, c) ==
    LET over == [p EXCEPT !.querying = @ /\ c.opt] IN
    CASE ~c.current -> p
      [] c.current /\ c.reply = "ok" -> GotInbox(over, c)
      [] c.current /\ c.reply # "ok" /\ c.opt -> p
      [] OTHER -> [over EXCEPT !.lists["inbox"].status = "error"]

RefreshReply(p, c) ==
    IF ~Fresh(p, c) \/ c.edited \/ c.reply # "ok" \/ p.search.active THEN p
    ELSE LET inbox == p.lists["inbox"]
             kept  == OlderThanWindow(inbox.items, c.got, c.limit, Cardinality(c.whole))
         IN PruneSelection([p EXCEPT !.lists["inbox"] = Listed(inbox, c, kept)])

\* mergeUnique: what was listed stays as it is.
Appended(list, c) ==
    [list EXCEPT !.items = @ \cup c.got, !.read = @ \cup (c.read \ list.items),
                 !.total = Cardinality(c.whole)]

MoreReply(p, c) ==
    LET inbox == p.lists["inbox"]
        merged == IF c.email = p.email /\ c.reply = "ok" THEN Appended(inbox, c) ELSE inbox
    IN IF c.current THEN [p EXCEPT !.lists["inbox"] = [merged EXCEPT !.more = FALSE]] ELSE p

SearchReply(p, c) ==
    CASE Fresh(p, c) /\ c.reply = "ok" ->
            [p EXCEPT !.search.status = "ready", !.search.items = c.got, !.search.read = c.read]
      [] c.reply = "lost" /\ c.current -> [p EXCEPT !.search.status = "error"]
      [] c.reply = "refused" /\ Fresh(p, c) -> [p EXCEPT !.search.status = "error"]
      [] OTHER -> p

FolderReply(p, c) ==
    LET list   == p.lists[c.kind]
        failed == [list EXCEPT !.more = FALSE, !.status = IF c.opt THEN @ ELSE "error"]
        loaded == IF c.opt THEN Appended(list, c) ELSE Listed(list, c, {})
    IN CASE Fresh(p, c) /\ c.reply = "ok" ->
                [p EXCEPT !.lists[c.kind] = [loaded EXCEPT !.more = FALSE, !.status = "ready"]]
         [] c.reply = "refused" /\ Fresh(p, c) -> [p EXCEPT !.lists[c.kind] = failed]
         [] c.reply = "lost" /\ c.current -> [p EXCEPT !.lists[c.kind] = failed]
         [] OTHER -> p

DetailReply(p, c) ==
    LET m == CHOOSE x \in c.mails : TRUE
        opened == [p EXCEPT !.detail = [kind |-> "mail", id |-> m, trash |-> c.opt]]
    IN CASE ~Fresh(p, c) -> p
         [] Fresh(p, c) /\ c.reply = "ok" -> IF c.opt THEN opened ELSE MarkedRead(opened, {m})
         [] OTHER -> [p EXCEPT !.detail = [kind |-> "error", id |-> None, trash |-> FALSE]]

\* Whatever becomes of the request, the copy of the list serves.
SentDetailReply(p, c) ==
    LET m == CHOOSE x \in c.mails : TRUE IN
    IF Fresh(p, c) THEN [p EXCEPT !.detail = [kind |-> "sent", id |-> m, trash |-> FALSE]]
    ELSE p

\* What an undo would put back: c.got and c.read hold the copies.
DeleteReply(p, c) ==
    LET listed  == p.lists["inbox"].items \cup p.search.items
        single  == c.kind = "delete"
        removed == IF single THEN c.mails \cap listed ELSE c.got
        read    == IF single THEN removed \cap (p.lists["inbox"].read \cup
                                                 (p.search.read \ p.lists["inbox"].items))
                   ELSE c.read
        offer   == [email |-> c.email, mails |-> c.mails, removed |-> removed, read |-> read,
                    single |-> single]
        q       == ResetMailDetail(RemoveFromInbox(p, c.mails))
    IN IF c.reply # "ok" \/ c.email # p.email THEN p
       ELSE IF single /\ removed = {} THEN q ELSE [q EXCEPT !.offers = @ \cup {offer}]

MarkReadReply(p, c) ==
    IF c.reply = "ok" /\ c.email = p.email
    THEN [MarkedRead(p, c.mails) EXCEPT !.selected = {}]
    ELSE p

UndoReply(p, c) ==
    IF c.reply = "ok"
    THEN PutBackIntoInbox(p, [email |-> c.email, removed |-> c.got, read |-> c.read])
    ELSE p

TrashReply(p, c) ==
    IF c.reply # "ok" \/ c.email # p.email THEN p
    ELSE ResetMailDetail(
            [p EXCEPT !.lists["trash"].items = @ \ c.mails, !.lists["trash"].read = @ \ c.mails,
                      !.lists["trash"].total = IF @ > 0 THEN @ - 1 ELSE 0,
                      !.lists["inbox"].status = "idle"])

Handled(p, c) ==
    CASE c.kind = "query" -> QueryReply(p, c)
      [] c.kind = "refresh" -> RefreshReply(p, c)
      [] c.kind = "more" -> MoreReply(p, c)
      [] c.kind = "search" -> SearchReply(p, c)
      [] c.kind \in {"sent", "trash"} -> FolderReply(p, c)
      [] c.kind = "detail" -> DetailReply(p, c)
      [] c.kind = "sentDetail" -> SentDetailReply(p, c)
      [] c.kind \in {"delete", "batchDelete"} -> DeleteReply(p, c)
      [] c.kind = "markRead" -> MarkReadReply(p, c)
      [] c.kind = "undo" -> UndoReply(p, c)
      [] c.kind \in {"restore", "purge"} -> TrashReply(p, c)

(***************************************************************************)
(* restoreViewState: the view the browser tab had before a reload          *)
(***************************************************************************)
Await(p, id) ==
    [p EXCEPT !.calls = {[c EXCEPT !.awaited = @ \/ c.id = id] : c \in @}]

RestoreMail(p) ==
    LET view == p.restore
        done == [p EXCEPT !.restore = NoDetail]
    IN CASE view.msg = None \/ p.tab # view.tab -> done
         [] view.msg # None /\ p.tab = view.tab /\ view.msg \in p.lists[p.tab].items ->
                OpenDetailShell(done, IF p.tab = "sent" THEN "sentDetail" ELSE "detail",
                                view.msg, p.tab = "trash")
         [] OTHER -> done

\* What follows the await, once the call it waits for is over; c says which.
Resume(p, c) ==
    LET view == p.restore IN
    CASE c.kind # "query" -> RestoreMail(p)
      [] c.kind = "query" /\ (view.tab = "imap" \/ p.email = None) ->
            [p EXCEPT !.restore = NoDetail]
      [] c.kind = "query" /\ view.tab \in {"sent", "trash"} /\ p.email # None ->
            LET q == SwitchTab(p, view.tab)
            IN Await(q, (CHOOSE d \in q.calls : d.kind = view.tab /\ d.current).id)
      [] OTHER -> RestoreMail(p)

FirstPage(view) ==
    LET p == [tab |-> "inbox",
              email |-> None, querying |-> FALSE, auto |-> FALSE,
              lists |-> [f \in Folders |-> EmptyList], search |-> NoSearch, selected |-> {},
              active |-> None, detail |-> NoDetail, offers |-> {}, restore |-> view,
              calls |-> {}]
        q == IF view.tab = "imap" THEN SwitchTab(p, "imap") ELSE p
    IN IF view.email = None THEN [q EXCEPT !.restore = NoDetail]
       ELSE Await(LoadInbox(q, view.email, view.tab = "imap"), FreeId(q))

Init ==
    /\ place = Contents /\ seen = {}
    /\ page \in {FirstPage(view) : view \in Views}
    /\ past = {}
    /\ spent = [clicks |-> 0, ticks |-> 0, faults |-> 0]

(***************************************************************************)
(* The server                                                              *)
(***************************************************************************)
Kept(box, where) == {m \in Mails : Home[m] = box /\ place[m] = where}

Newest(S, at, limit) ==
    {m \in S : Cardinality({n \in S : n > m}) \in at .. at + limit - 1}

Answered(c, reply, got, whole) ==
    page' = [page EXCEPT !.calls = (@ \ {c}) \cup
        {[c EXCEPT !.reply = reply, !.got = got, !.read = got \cap seen, !.whole = whole]}]

Arrive(m) ==
    /\ place[m] = "unborn" /\ \A n \in Mails : place[n] = "unborn" => n >= m
    /\ place' = [place EXCEPT ![m] = "inbox"]
    /\ UNCHANGED <<seen, page, past, spent>>

AnswerInbox(c) ==
    /\ c.reply = "none" /\ c.kind \in {"query", "refresh", "more"}
    /\ LET inbox == Kept(c.email, "inbox")
       IN Answered(c, "ok", Newest(inbox, c.at, c.limit), inbox)
    /\ UNCHANGED <<place, seen, past, spent>>

\* A search finds all of the inbox.
AnswerSearch(c) ==
    /\ c.reply = "none" /\ c.kind = "search"
    /\ LET inbox == Kept(c.email, "inbox") IN Answered(c, "ok", inbox, inbox)
    /\ UNCHANGED <<place, seen, past, spent>>

\* The trash is listed by the last change, which is any order here.
AnswerFolder(c) ==
    /\ c.reply = "none" /\ c.kind \in {"sent", "trash"}
    /\ LET all == Kept(c.email, c.kind)
           n   == Min({c.limit, Max({Cardinality(all) - c.at, 0})})
       IN IF c.kind = "sent" THEN Answered(c, "ok", Newest(all, c.at, c.limit), all)
          ELSE \E got \in {s \in SUBSET all : Cardinality(s) = n} : Answered(c, "ok", got, all)
    /\ UNCHANGED <<place, seen, past, spent>>

\* A mail that is opened is marked read; failing to mark it is only logged.
AnswerDetail(c) ==
    /\ c.reply = "none" /\ c.kind = "detail"
    /\ LET there == {m \in c.mails : place[m] \in {"inbox", "trash"}} IN
       /\ Answered(c, IF there = {} THEN "refused" ELSE "ok", {}, {})
       /\ seen' = seen \cup there
    /\ UNCHANGED <<place, past, spent>>

AnswerSentDetail(c) ==
    /\ c.reply = "none" /\ c.kind = "sentDetail"
    /\ Answered(c, "ok", {}, {})
    /\ UNCHANGED <<place, seen, past, spent>>

\* The mails a change is about, and where it puts them.
Affected(c) ==
    LET from == IF c.kind \in {"delete", "batchDelete", "markRead"} THEN {"inbox", "trash"}
                ELSE {"trash"}
    IN {m \in c.mails : place[m] \in from}

Changes == {"delete", "batchDelete", "markRead", "undo", "restore", "purge"}

Moved(c) ==
    CASE c.kind \in {"delete", "batchDelete"} -> "trash"
      [] c.kind \in {"undo", "restore"} -> "inbox"
      [] OTHER -> "purged"

Act(c) ==
    /\ place' = IF c.kind = "markRead" THEN place
                ELSE [m \in Mails |-> IF m \in Affected(c) THEN Moved(c) ELSE place[m]]
    /\ seen' = IF c.kind = "markRead" THEN seen \cup Affected(c) ELSE seen

\* The batch interface succeeds with no mail left to change, the others do not.
AnswerChange(c) ==
    /\ c.reply = "none" /\ c.kind \in Changes
    /\ Act(c)
    /\ LET batch == c.kind \in {"batchDelete", "markRead"} \/ (c.kind = "undo" /\ ~c.opt)
       IN page' = [page EXCEPT !.calls = (@ \ {c}) \cup
             {[c EXCEPT !.reply = IF batch \/ Affected(c) # {} THEN "ok" ELSE "refused"]}]
    /\ past' = IF Moved(c) = "inbox" THEN past \ Affected(c) ELSE past
    /\ UNCHANGED spent

\* The server refuses, or the connection fails before or after it acted.
Fail(c) ==
    /\ c.reply \in {"none", "ok"} /\ Used("faults", MaxFaults)
    /\ \E reply \in IF c.reply = "none" THEN {"refused", "lost"} ELSE {"lost"} :
          page' = [page EXCEPT !.calls = (@ \ {c}) \cup {[c EXCEPT !.reply = reply]}]
    /\ UNCHANGED <<place, seen, past>>

(***************************************************************************)
(* The page: a reply comes in                                              *)
(***************************************************************************)
Gone == {"trash", "purged"}

Deliver(c) ==
    /\ c.reply # "none"
    /\ LET p == Handled([page EXCEPT !.calls = @ \ {c}], c) IN
       /\ page' = IF c.awaited THEN Resume(p, c) ELSE p
       /\ past' = IF c.kind \in {"delete", "batchDelete"} /\ c.reply = "ok" /\ c.email = page.email
                  THEN past \cup {m \in c.mails : place[m] \in Gone} ELSE past
    /\ UNCHANGED <<place, seen, spent>>

(***************************************************************************)
(* The page: the user and the timer                                        *)
(***************************************************************************)
Click == /\ Used("clicks", MaxClicks)
         /\ Cardinality(page.calls) < MaxCalls
         /\ UNCHANGED <<place, seen, past>>

InboxRowsShown ==
    /\ page.tab = "inbox" /\ page.email # None
    /\ page.lists["inbox"].status \notin {"loading", "error"}
    /\ page.search.active => page.search.status \notin {"loading", "error"}

BatchBarShown ==
    /\ page.tab = "inbox" /\ page.email # None
    /\ page.lists["inbox"].status = "ready" /\ Shown(page) # {}

FolderRowsShown(f) ==
    page.tab = f /\ page.email # None /\ page.lists[f].status = "ready"

\* The button is off while a query runs; Enter in the address field is not.
Query(box) == Click /\ page.tab # "imap" /\ page' = QueryInbox(page, box)

QueryNothing == Click /\ page.tab # "imap" /\ page' = ResetMailDetail(page)

UseRecent(box) ==
    /\ Click /\ page.tab # "imap"
    /\ page' = QueryInbox(IF page.tab = "inbox" THEN page ELSE SwitchTab(page, "inbox"), box)

GoTo(tab) == Click /\ page' = SwitchTab(page, tab)

RefreshCurrentTab ==
    /\ Click /\ page.tab # "imap" /\ page.email # None /\ ~page.querying
    /\ page' = IF page.tab = "inbox" THEN QueryInbox(page, page.email)
               ELSE LoadFolder(page, page.tab, FALSE)

LoadMoreInbox ==
    /\ Click /\ InboxRowsShown /\ ~page.search.active
    /\ LET inbox == page.lists["inbox"] IN
       /\ inbox.items # {} /\ inbox.total > Cardinality(inbox.items) /\ ~inbox.more
       /\ page' = Send([page EXCEPT !.lists["inbox"].more = TRUE],
                       [Request(page, "more", FALSE, page.email, {}) EXCEPT
                           !.at = Cardinality(inbox.items)])

LoadMoreFolder(f) ==
    /\ Click /\ FolderRowsShown(f)
    /\ LET list == page.lists[f]
       IN list.items # {} /\ list.total > Cardinality(list.items) /\ ~list.more
    /\ page' = LoadFolder(page, f, TRUE)

SearchMail ==
    /\ Click /\ page.tab = "inbox" /\ page.email # None
    /\ page' = Send([page EXCEPT !.selected = {}, !.search =
                        [active |-> TRUE, items |-> {}, read |-> {}, status |-> "loading"]],
                    Request(page, "search", FALSE, page.email, {}))

LeaveSearch ==
    Click /\ page.tab = "inbox" /\ page.email # None /\ page' = ClearSearch(page)

ToggleSelected(m) ==
    /\ Click /\ InboxRowsShown /\ m \in Shown(page)
    /\ page' = [page EXCEPT !.selected = IF m \in @ THEN @ \ {m} ELSE @ \cup {m}]

SelectAll == Click /\ BatchBarShown /\ page' = [page EXCEPT !.selected = Shown(page)]

SetAutoRefresh(on) ==
    /\ Click /\ page.tab # "imap" /\ page.auto # on
    /\ page' = [page EXCEPT !.auto = on /\ page.tab = "inbox" /\ page.email # None]

OpenMail(m) ==
    /\ Click /\ page.email # None
    /\ \/ /\ InboxRowsShown /\ m \in Shown(page)
          /\ page' = OpenDetailShell(page, "detail", m, FALSE)
       \/ /\ FolderRowsShown("trash") /\ m \in page.lists["trash"].items
          /\ page' = OpenDetailShell(page, "detail", m, TRUE)
       \/ /\ FolderRowsShown("sent") /\ m \in page.lists["sent"].items
          /\ page' = OpenDetailShell(page, "sentDetail", m, FALSE)

\* The copies an undo needs are taken at once.
BatchAction(kind) ==
    /\ Click /\ BatchBarShown /\ page.selected # {}
    /\ LET removed == page.selected \cap Shown(page)
           read    == IF page.search.active THEN page.search.read ELSE page.lists["inbox"].read
       IN page' = Send(page, [Request(page, kind, FALSE, page.email, page.selected) EXCEPT
                                !.got = removed, !.read = read \cap removed])

MailIsOpen(trash) ==
    page.detail.kind = "mail" /\ page.detail.trash = trash /\ page.tab # "imap"

DeleteEmail ==
    /\ Click /\ MailIsOpen(FALSE) /\ page.email # None
    /\ page' = Send(page, Request(page, "delete", TRUE, page.email, {page.detail.id}))

TrashAction(kind) ==
    /\ Click /\ MailIsOpen(TRUE) /\ page.email # None
    /\ page' = Send(page, Request(page, kind, TRUE, page.email, {page.detail.id}))

Undo(offer) ==
    /\ Click
    /\ page' = Send([page EXCEPT !.offers = @ \ {offer}],
                    [Request(page, "undo", offer.single, offer.email, offer.mails) EXCEPT
                        !.got = offer.removed, !.read = offer.read])

\* The timer of auto-refresh runs for the inbox only.
AutoRefreshes == page.auto /\ page.tab = "inbox" /\ page.email # None

RefreshInboxSilently ==
    /\ AutoRefreshes
    /\ ~page.querying /\ ~page.search.active
    /\ page.lists["inbox"].status # "loading" /\ ~page.lists["inbox"].more
    /\ Used("ticks", MaxTicks) /\ Cardinality(page.calls) < MaxCalls
    /\ LET loaded == Cardinality(page.lists["inbox"].items)
       IN page' = Send(page, [Request(page, "refresh", FALSE, page.email, {}) EXCEPT
                                !.limit = Min({Max({loaded, PageSize}), MaxPage})])
    /\ UNCHANGED <<place, seen, past>>

UserActs ==
    \/ \E box \in Boxes : Query(box)
    \/ QueryNothing
    \/ \E box \in Boxes : UseRecent(box)
    \/ \E tab \in Tabs : GoTo(tab)
    \/ RefreshCurrentTab
    \/ LoadMoreInbox
    \/ \E f \in {"sent", "trash"} : LoadMoreFolder(f)
    \/ SearchMail
    \/ LeaveSearch
    \/ \E m \in Mails : ToggleSelected(m)
    \/ SelectAll
    \/ \E on \in BOOLEAN : SetAutoRefresh(on)
    \/ \E m \in Mails : OpenMail(m)
    \/ \E kind \in {"batchDelete", "markRead"} : BatchAction(kind)
    \/ DeleteEmail
    \/ \E kind \in {"restore", "purge"} : TrashAction(kind)
    \/ \E offer \in page.offers : Undo(offer)

Next ==
    \/ \E m \in Mails : Arrive(m)
    \/ \E c \in page.calls :
          \/ AnswerInbox(c)
          \/ AnswerSearch(c)
          \/ AnswerFolder(c)
          \/ AnswerDetail(c)
          \/ AnswerSentDetail(c)
          \/ AnswerChange(c)
          \/ Fail(c)
          \/ Deliver(c)
    \/ UserActs
    \/ RefreshInboxSilently

Spec == Init /\ [][Next]_vars

(***************************************************************************)
(* Properties                                                              *)
(***************************************************************************)
\* Everything on the page is of the mailbox it names, and only mails that can
\* be seen are selected, whatever replies come late from other mailboxes.
ShownBelongsToMailbox ==
    /\ \A f \in Folders : \A m \in page.lists[f].items : Home[m] = page.email
    /\ \A m \in page.search.items : Home[m] = page.email
    /\ page.active # None => Home[page.active] = page.email
    /\ page.selected \subseteq Shown(page)

\* The mail shown in the right column is the one opened last, in the tab it
\* was opened in: its buttons delete, restore or purge that mail.
DetailIsTheOneOpened ==
    page.detail.kind \in {"mail", "sent"} =>
        /\ page.detail.id = page.active
        /\ page.tab # "imap" =>
              /\ page.detail.kind = "sent" <=> page.tab = "sent"
              /\ page.detail.trash <=> page.tab = "trash"

Newest_(kinds, p) == \E c \in p.calls : c.current /\ c.kind \in kinds

\* A spinner turns only while the reply that stops it is to come: no reply that
\* is dropped leaves the list, the search or the mail loading for ever.
SpinnersAreOwned ==
    LET inbox == page.lists["inbox"] IN
    /\ inbox.status = "loading" => \E c \in page.calls : c.kind = "query" /\ ~c.opt /\ c.current
    /\ inbox.more => Newest_({"more"}, page)
    /\ page.search.active /\ page.search.status = "loading" => Newest_({"search"}, page)
    /\ page.detail.kind = "loading" => Newest_({"detail", "sentDetail"}, page)
    /\ \A f \in {"sent", "trash"} :
          /\ page.lists[f].status = "loading" \/ page.lists[f].more => Newest_({f}, page)
          /\ page.tab = f /\ page.email # None => page.lists[f].status # "idle"

\* "An auto-refresh that was already on its way no longer brings back a mail
\* you just deleted or marks a mail you just read as unread again", and it
\* "keeps the pages loaded with load more" (CHANGELOG.md).
RefreshUndoesNothing ==
    [][\A c \in page.calls : c.kind = "refresh" /\ Deliver(c) =>
          LET old == page.lists["inbox"]
              new == page'.lists["inbox"]
          IN /\ (new.items \ old.items) \cap past = {}
             /\ old.read \cap new.items \subseteq new.read
             /\ old.items \cap c.whole \subseteq new.items]_vars

\* "A load already in flight is for the mailbox just queried; starting another
\* for currentEmail (still the previous mailbox) would drop it"
\* (state.ts:493-494): a query stands until the user makes another.
NewestQueryStands == \A c \in page.calls : c.wanted => c.current
=============================================================================
