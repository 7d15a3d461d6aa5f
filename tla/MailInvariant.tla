---------------------------- MODULE MailInvariant ----------------------------
(***************************************************************************)
(* What makes TypeOK, ShownBelongsToMailbox, DetailIsTheOneOpened and      *)
(* SpinnersAreOwned of WebMail inductive.  Handlers are functions of the   *)
(* page, so the parts are said of any page p.                              *)
(***************************************************************************)
EXTENDS WebMail

Searches == [active : BOOLEAN, items : SUBSET Mails, read : SUBSET Mails, status : Statuses]
Details  == [kind : {"none", "loading", "error", "mail", "sent"}, id : Mails \cup {None},
             trash : BOOLEAN]
Offers   == [email : Boxes, mails : SUBSET Mails, removed : SUBSET Mails,
             read : SUBSET Mails, single : BOOLEAN]

Pages == [tab : Tabs, email : Boxes \cup {None}, querying : BOOLEAN, auto : BOOLEAN,
          lists : [Folders -> Lists], search : Searches, selected : SUBSET Mails,
          active : Mails \cup {None}, detail : Details, offers : SUBSET Offers,
          restore : Views \cup {NoDetail}, calls : SUBSET Calls]

AllOf(mails, box) == \A m \in mails : Home[m] = box

\* An answer is of the mailbox that was asked for.
Sound(c) == AllOf(c.got, c.email) /\ c.read \subseteq c.got

\* A silent query is the first there is.
FirstIfSilent(p, c) == c.kind = "query" /\ c.opt => p.email = None

\* The newest search and the newest mail asked for are those the page waits for.
SearchAwaited(p, c) ==
    c.kind = "search" =>
        /\ c.email = p.email /\ p.search.active
        /\ p.search.items = {} /\ p.search.status = "loading"

DetailAwaited(p, c) ==
    Ticket(c.kind) = "detail" =>
        /\ c.email = p.email /\ c.mails = {p.active} /\ p.detail.kind = "loading"
        /\ p.tab # "imap" => /\ c.kind = "sentDetail" <=> p.tab = "sent"
                             /\ c.opt <=> p.tab = "trash"

\* What restoreViewState awaits.
Resumes(p, c) ==
    c.awaited =>
        /\ p.restore \in Views
        /\ c.kind # "query" => c.kind \in {"sent", "trash"} /\ p.restore.tab = c.kind

CallFits(p, c) ==
    /\ Sound(c) /\ Resumes(p, c)
    /\ c.current => FirstIfSilent(p, c) /\ SearchAwaited(p, c) /\ DetailAwaited(p, c)

\* One newest call for each ticket, one that restoreViewState awaits.
Distinct(calls) ==
    \A c, d \in calls :
        \/ c = d
        \/ /\ c.id # d.id /\ ~(c.awaited /\ d.awaited)
           /\ c.current /\ d.current => Ticket(c.kind) # Ticket(d.kind) \/ Ticket(c.kind) = "none"

ListsFit(p) ==
    \A f \in Folders : /\ p.lists[f].read \subseteq p.lists[f].items
                       /\ AllOf(p.lists[f].items, p.email)

DetailFits(p) ==
    /\ p.detail.kind = "none" <=> p.active = None
    /\ p.active # None => Home[p.active] = p.email
    /\ p.detail.kind \in {"mail", "sent"} =>
         /\ p.detail.id = p.active
         /\ p.tab # "imap" => /\ p.detail.kind = "sent" <=> p.tab = "sent"
                              /\ p.detail.trash <=> p.tab = "trash"

\* What is on the page, and what of it an undo may bring back.
ViewInv(p) ==
    /\ ListsFit(p) /\ DetailFits(p)
    /\ AllOf(p.search.items, p.email) /\ p.selected \subseteq Shown(p)
    /\ \A o \in p.offers : AllOf(o.removed, o.email) /\ o.read \subseteq o.removed

CallsInv(p) == Distinct(p.calls) /\ \A c \in p.calls : CallFits(p, c)

PageInv(p) == p \in Pages /\ ViewInv(p) /\ CallsInv(p)

\* Who stops the spinners of a ticket.
InboxOwned(p) ==
    LET inbox == p.lists["inbox"] IN
    /\ inbox.status = "loading" => \E c \in p.calls : c.kind = "query" /\ ~c.opt /\ c.current
    /\ inbox.more => \E c \in p.calls : c.kind = "more" /\ c.current

SearchOwned(p) ==
    p.search.active /\ p.search.status = "loading" =>
        \E c \in p.calls : c.kind = "search" /\ c.current

DetailOwned(p) ==
    p.detail.kind = "loading" => \E c \in p.calls : Ticket(c.kind) = "detail" /\ c.current

\* A list is loading for its first page, and for the mailbox that is shown.
FolderOwned(p, f) ==
    LET newest == {c \in p.calls : c.kind = f /\ c.email = p.email /\ c.current} IN
    /\ p.lists[f].status = "loading" => \E c \in newest : ~c.opt
    /\ p.lists[f].more => newest # {}

\* The spinners of the tickets T aside.
Owned(p, T) ==
    /\ "inbox" \notin T => InboxOwned(p)
    /\ "search" \notin T => SearchOwned(p)
    /\ "detail" \notin T => DetailOwned(p)
    /\ \A f \in {"sent", "trash"} \ T : FolderOwned(p, f)

TabLoaded(p) ==
    p.tab \in {"sent", "trash"} /\ p.email # None => p.lists[p.tab].status # "idle"

\* The ids that are left.
Free(p) == (1 .. MaxCalls + 2) \ {c.id : c \in p.calls}

\* What restoreViewState may still send finds a number.
RoomLeft(p) == (\E c \in p.calls : c.awaited /\ c.kind = "query") => Free(p) # {}

\* The inductive invariant behind the four properties (state.ts).
MailInv ==
    /\ place \in [Mails -> Places] /\ seen \subseteq Mails /\ past \subseteq Mails
    /\ spent \in [clicks : Nat, ticks : Nat, faults : Nat]
    /\ PageInv(page) /\ Owned(page, {}) /\ TabLoaded(page) /\ RoomLeft(page)

(***************************************************************************)
(* What the page knows of its mails, for RefreshUndoesNothing.             *)
(***************************************************************************)
\* Read on the server, or never to be read there again.
StayRead(mails) == \A m \in mails : m \in seen \/ place[m] \in {"purged", "sent"}

Born(mails) == \A m \in mails : place[m] # "unborn"

\* What a call holds, and what it was told it did.
CallKnown(c) ==
    /\ Born(c.got) /\ StayRead(c.read)
    /\ c.kind = "markRead" => Born(c.mails)
    /\ c.reply = "ok" /\ (c.kind = "markRead" \/ (c.kind = "detail" /\ c.current)) => StayRead(c.mails)
    /\ c.kind = "refresh" => c.at = 0 /\ c.limit # 0

ViewKnown(p) ==
    /\ Born(p.lists["inbox"].items) /\ Born(p.search.items)
    /\ StayRead(p.lists["inbox"].read) /\ StayRead(p.search.read)
    /\ \A o \in p.offers : Born(o.removed) /\ StayRead(o.read)

Known(p) == ViewKnown(p) /\ \A c \in p.calls : CallKnown(c)

\* A refresh whose answer will be taken over, if its mailbox is shown.
Live(c) == c.kind = "refresh" /\ c.reply = "ok" /\ c.current /\ ~c.edited

\* Nothing the user was told since the answer was made is missing in it.
UpToDate(p, c) ==
    /\ c.got = Newest(c.whole, 0, c.limit)
    /\ c.got \cap past = {} /\ c.got \cap p.lists["inbox"].read \subseteq c.read

\* The inductive invariant behind RefreshUndoesNothing.
RefreshInv ==
    /\ \A m \in past : place[m] \in Gone
    /\ Known(page) /\ \A c \in page.calls : Live(c) => UpToDate(page, c)
=============================================================================
