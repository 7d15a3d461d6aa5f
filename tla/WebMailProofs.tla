---------------------------- MODULE WebMailProofs ----------------------------
(***************************************************************************)
(* MailInv is an invariant of WebMail, and with it TypeOK,                 *)
(* ShownBelongsToMailbox, DetailIsTheOneOpened and SpinnersAreOwned, for   *)
(* any mailboxes, mails, page sizes, clicks, refreshes and failures.       *)
(*                                                                         *)
(* A handler is a chain of functions of the page.  Each has a lemma that   *)
(* says what it makes of a page that is as PageInv says; which spinners    *)
(* nobody stops in the middle of a handler is the set T of Owned(p, T).    *)
(***************************************************************************)
EXTENDS MailInvariant, FiniteSetTheorems, WellFoundedInduction, TLAPS

(***************************************************************************)
(* Pages and their requests                                                *)
(***************************************************************************)
\* What a ticket is, for each kind of request.
LEMMA TicketIs ==
    \A k \in Kinds :
        /\ Ticket(k) \in {"inbox", "detail", "search", "sent", "trash", "none"}
        /\ Ticket(k) = "inbox" <=> k \in {"query", "refresh", "more"}
        /\ Ticket(k) = "detail" <=> k \in {"detail", "sentDetail"}
        /\ Ticket(k) = "search" <=> k = "search"
        /\ Ticket(k) = "sent" <=> k = "sent"
        /\ Ticket(k) = "trash" <=> k = "trash"
BY DEF Ticket, Kinds

\* All but the requests is the same.
SameView(p, q) ==
    /\ q.tab = p.tab /\ q.email = p.email /\ q.querying = p.querying /\ q.auto = p.auto
    /\ q.lists = p.lists /\ q.search = p.search /\ q.selected = p.selected
    /\ q.active = p.active /\ q.detail = p.detail /\ q.offers = p.offers
    /\ q.restore = p.restore

\* Request d is request c, without ticket t.
From(d, c, t) ==
    /\ d.id = c.id /\ d.kind = c.kind /\ d.opt = c.opt /\ d.email = c.email /\ d.mails = c.mails
    /\ d.reply = c.reply /\ d.got = c.got /\ d.read = c.read /\ d.whole = c.whole
    /\ d.at = c.at /\ d.limit = c.limit
    /\ d.awaited = c.awaited
    /\ d.current <=> (c.current /\ Ticket(c.kind) # t)

Mapped(p, q, t) ==
    /\ q \in Pages /\ SameView(p, q)
    /\ \A d \in q.calls : \E c \in p.calls : From(d, c, t)
    /\ \A c \in p.calls : \E d \in q.calls : From(d, c, t)
    /\ \A d, e \in q.calls : d.id = e.id => d = e

NoNewest(p, t) == \A c \in p.calls : c.current => Ticket(c.kind) # t

LEMMA WithCalls ==
    ASSUME NEW p \in Pages, NEW C \in SUBSET Calls
    PROVE  LET q == [p EXCEPT !.calls = C]
           IN q \in Pages /\ SameView(p, q) /\ q.calls = C
BY DEF Pages, SameView

LEMMA OutdateIs ==
    ASSUME NEW p \in Pages, Distinct(p.calls), NEW t
    PROVE  Mapped(p, Outdate(p, t), t)
<1> DEFINE F(c) == [c EXCEPT !.current = @ /\ Ticket(c.kind) # t]
           C == {F(c) : c \in p.calls}
<1>1. p.calls \in SUBSET Calls
  BY DEF Pages
<1>2. \A c \in p.calls : F(c) \in Calls /\ From(F(c), c, t)
  <2> SUFFICES ASSUME NEW c \in p.calls PROVE F(c) \in Calls /\ From(F(c), c, t)
    OBVIOUS
  <2>1. c \in Calls
    BY <1>1
  <2>2. F(c) \in Calls
    BY <2>1 DEF Calls
  <2>3. F(c).current <=> c.current /\ Ticket(c.kind) # t
    BY <2>1 DEF Calls
  <2>4. /\ F(c).id = c.id /\ F(c).kind = c.kind /\ F(c).opt = c.opt /\ F(c).email = c.email
        /\ F(c).mails = c.mails /\ F(c).reply = c.reply /\ F(c).got = c.got
        /\ F(c).read = c.read /\ F(c).whole = c.whole /\ F(c).at = c.at
        /\ F(c).limit = c.limit /\ F(c).awaited = c.awaited
    BY <2>1 DEF Calls
  <2> QED
    BY <2>2, <2>3, <2>4 DEF From
<1>3. Outdate(p, t) = [p EXCEPT !.calls = C]
  BY DEF Outdate
<1>4. C \in SUBSET Calls
  BY <1>2
<1> HIDE DEF F
<1>5. \A d, e \in C : d.id = e.id => d = e
  <2> SUFFICES ASSUME NEW c \in p.calls, NEW b \in p.calls, F(c).id = F(b).id PROVE F(c) = F(b)
    OBVIOUS
  <2>1. c.id = b.id
    BY <1>2 DEF From
  <2> QED
    BY <2>1 DEF Distinct
<1> HIDE DEF C
<1>6. Outdate(p, t) \in Pages /\ SameView(p, Outdate(p, t)) /\ Outdate(p, t).calls = C
  BY <1>3, <1>4, WithCalls
<1>7. \A d \in C : \E c \in p.calls : From(d, c, t)
  BY <1>2 DEF C
<1>8. \A c \in p.calls : \E d \in C : From(d, c, t)
  BY <1>2 DEF C
<1> QED
  BY <1>5, <1>6, <1>7, <1>8 DEF Mapped

LEMMA InboxEditedIs ==
    ASSUME NEW p \in Pages, Distinct(p.calls)
    PROVE  Mapped(p, InboxEdited(p), "nothing")
<1> DEFINE F(c) == [c EXCEPT !.edited = TRUE]
           C == {F(c) : c \in p.calls}
<1>1. p.calls \in SUBSET Calls
  BY DEF Pages
<1>2. \A c \in p.calls : F(c) \in Calls /\ From(F(c), c, "nothing")
  <2> SUFFICES ASSUME NEW c \in p.calls PROVE F(c) \in Calls /\ From(F(c), c, "nothing")
    OBVIOUS
  <2>1. c.kind \in Kinds /\ c.current \in BOOLEAN
    BY <1>1 DEF Calls
  <2>2. Ticket(c.kind) # "nothing"
    BY <2>1, TicketIs
  <2>3. c \in Calls
    BY <1>1
  <2>4. F(c) \in Calls
    BY <2>3 DEF Calls
  <2>5. F(c).current = c.current
    BY <2>3 DEF Calls
  <2>6. /\ F(c).id = c.id /\ F(c).kind = c.kind /\ F(c).opt = c.opt /\ F(c).email = c.email
        /\ F(c).mails = c.mails /\ F(c).reply = c.reply /\ F(c).got = c.got
        /\ F(c).read = c.read /\ F(c).whole = c.whole /\ F(c).at = c.at
        /\ F(c).limit = c.limit /\ F(c).awaited = c.awaited
    BY <2>3 DEF Calls
  <2> QED
    BY <2>2, <2>4, <2>5, <2>6 DEF From
<1>3. InboxEdited(p) = [p EXCEPT !.calls = C]
  BY DEF InboxEdited
<1>4. C \in SUBSET Calls
  BY <1>2
<1> HIDE DEF F
<1>5. \A d, e \in C : d.id = e.id => d = e
  <2> SUFFICES ASSUME NEW c \in p.calls, NEW b \in p.calls, F(c).id = F(b).id PROVE F(c) = F(b)
    OBVIOUS
  <2>1. c.id = b.id
    BY <1>2 DEF From
  <2> QED
    BY <2>1 DEF Distinct
<1> HIDE DEF C
<1>6. InboxEdited(p) \in Pages /\ SameView(p, InboxEdited(p)) /\ InboxEdited(p).calls = C
  BY <1>3, <1>4, WithCalls
<1>7. \A d \in C : \E c \in p.calls : From(d, c, "nothing")
  BY <1>2 DEF C
<1>8. \A c \in p.calls : \E d \in C : From(d, c, "nothing")
  BY <1>2 DEF C
<1> QED
  BY <1>5, <1>6, <1>7, <1>8 DEF Mapped

\* A call as another fits where that fits.
LEMMA FromFits ==
    ASSUME NEW p, NEW q, SameView(p, q), NEW c, NEW d, NEW t, From(d, c, t), CallFits(p, c)
    PROVE  CallFits(q, d)
<1>1. Sound(d) /\ Resumes(q, d)
  BY DEF SameView, From, CallFits, Sound, Resumes
<1>2. ASSUME d.current PROVE FirstIfSilent(q, d) /\ SearchAwaited(q, d) /\ DetailAwaited(q, d)
  <2>1. c.current /\ FirstIfSilent(p, c) /\ SearchAwaited(p, c) /\ DetailAwaited(p, c)
    BY <1>2 DEF From, CallFits
  <2>2. FirstIfSilent(q, d) /\ SearchAwaited(q, d)
    BY <2>1 DEF SameView, From, FirstIfSilent, SearchAwaited
  <2>3. DetailAwaited(q, d)
    BY <2>1 DEF SameView, From, DetailAwaited
  <2> QED
    BY <2>2, <2>3
<1> QED
  BY <1>1, <1>2 DEF CallFits

LEMMA MappedDistinct ==
    ASSUME NEW p, NEW q, NEW t, Mapped(p, q, t), Distinct(p.calls)
    PROVE  Distinct(q.calls)
<1> SUFFICES ASSUME NEW d \in q.calls, NEW e \in q.calls, d # e
             PROVE  /\ d.id # e.id /\ ~(d.awaited /\ e.awaited)
                    /\ d.current /\ e.current =>
                         Ticket(d.kind) # Ticket(e.kind) \/ Ticket(d.kind) = "none"
  BY DEF Distinct
<1>1. PICK c \in p.calls, b \in p.calls : From(d, c, t) /\ From(e, b, t)
  BY DEF Mapped
<1>2. d.id # e.id
  BY DEF Mapped
<1>3. c # b
  BY <1>1, <1>2 DEF From
<1>4. /\ c.id # b.id /\ ~(c.awaited /\ b.awaited)
      /\ c.current /\ b.current => Ticket(c.kind) # Ticket(b.kind) \/ Ticket(c.kind) = "none"
  BY <1>3 DEF Distinct
<1>5. d.kind = c.kind /\ e.kind = b.kind /\ d.awaited = c.awaited /\ e.awaited = b.awaited
  BY <1>1 DEF From
<1>6. (d.current => c.current) /\ (e.current => b.current)
  BY <1>1 DEF From
<1> QED
  BY <1>2, <1>4, <1>5, <1>6

LEMMA SameViewInv ==
    ASSUME NEW p, NEW q, SameView(p, q), ViewInv(p)
    PROVE  ViewInv(q)
BY DEF SameView, ViewInv, ListsFit, DetailFits, Shown

LEMMA MappedKeeps ==
    ASSUME NEW p, NEW q, NEW t, Mapped(p, q, t), PageInv(p)
    PROVE  PageInv(q)
<1>1. q \in Pages /\ SameView(p, q)
  BY DEF Mapped
<1>2. ViewInv(q)
  BY <1>1, SameViewInv DEF PageInv
<1>3. Distinct(q.calls)
  BY MappedDistinct DEF PageInv, CallsInv
<1>4. ASSUME NEW d \in q.calls PROVE CallFits(q, d)
  <2>1. PICK c \in p.calls : From(d, c, t)
    BY DEF Mapped
  <2> QED
    BY <1>1, <2>1, FromFits DEF PageInv, CallsInv
<1> QED
  BY <1>1, <1>2, <1>3, <1>4 DEF PageInv, CallsInv

\* A spinner of another ticket keeps who stops it.
LEMMA MappedOwned ==
    ASSUME NEW p, NEW q, NEW t, Mapped(p, q, t), NEW T, Owned(p, T)
    PROVE  Owned(q, T \cup {t})
<1>1. SameView(p, q) /\ q \in Pages
  BY DEF Mapped
<1>2. ASSUME NEW c \in p.calls, c.current, Ticket(c.kind) # t
      PROVE  \E d \in q.calls : /\ d.kind = c.kind /\ d.opt = c.opt /\ d.email = c.email
                                /\ d.current
  <2>1. PICK d \in q.calls : From(d, c, t)
    BY DEF Mapped
  <2> QED
    BY <1>2, <2>1 DEF From
<1>3. ASSUME "inbox" \notin T \cup {t} PROVE InboxOwned(q)
  <2>1. InboxOwned(p) /\ "inbox" # t
    BY <1>3 DEF Owned
  <2>2. Ticket("query") = "inbox" /\ Ticket("more") = "inbox"
    BY DEF Ticket
  <2> QED
    BY <1>1, <1>2, <2>1, <2>2 DEF InboxOwned, SameView
<1>4. ASSUME "search" \notin T \cup {t} PROVE SearchOwned(q)
  <2>1. SearchOwned(p) /\ "search" # t
    BY <1>4 DEF Owned
  <2>2. Ticket("search") = "search"
    BY DEF Ticket
  <2> QED
    BY <1>1, <1>2, <2>1, <2>2 DEF SearchOwned, SameView
<1>5. ASSUME "detail" \notin T \cup {t} PROVE DetailOwned(q)
  <2>1. DetailOwned(p) /\ "detail" # t
    BY <1>5 DEF Owned
  <2> QED
    BY <1>1, <1>2, <2>1 DEF DetailOwned, SameView
<1>6. ASSUME NEW f \in {"sent", "trash"} \ (T \cup {t}) PROVE FolderOwned(q, f)
  <2>1. FolderOwned(p, f) /\ f # t
    BY DEF Owned
  <2>2. Ticket(f) = f
    BY DEF Ticket
  <2> QED
    BY <1>1, <1>2, <2>1, <2>2 DEF FolderOwned, SameView
<1> QED
  BY <1>3, <1>4, <1>5, <1>6 DEF Owned

\* The ids that are left, and whether a silent restore still waits.
Ids(p) == {c.id : c \in p.calls}

Awaiting(p) == \E c \in p.calls : c.awaited /\ c.kind = "query"

NoneAwaited(p) == \A c \in p.calls : ~c.awaited

LEMMA MappedRest ==
    ASSUME NEW p, NEW q, NEW t, Mapped(p, q, t)
    PROVE  /\ Ids(q) = Ids(p) /\ (Awaiting(q) <=> Awaiting(p))
           /\ NoneAwaited(p) => NoneAwaited(q)
           /\ NoNewest(q, t) /\ (\A u : NoNewest(p, u) => NoNewest(q, u))
           /\ TabLoaded(p) => TabLoaded(q)
<1>1. \A d \in q.calls : \E c \in p.calls : From(d, c, t)
  BY DEF Mapped
<1>2. \A c \in p.calls : \E d \in q.calls : From(d, c, t)
  BY DEF Mapped
<1>3. Ids(q) = Ids(p)
  BY <1>1, <1>2 DEF Ids, From
<1>4. Awaiting(q) <=> Awaiting(p)
  BY <1>1, <1>2 DEF Awaiting, From
<1>5. NoneAwaited(p) => NoneAwaited(q)
  BY <1>1 DEF NoneAwaited, From
<1>6. NoNewest(q, t) /\ (\A u : NoNewest(p, u) => NoNewest(q, u))
  <2> SUFFICES ASSUME NEW d \in q.calls, d.current
               PROVE  Ticket(d.kind) # t /\ \A u : NoNewest(p, u) => Ticket(d.kind) # u
    BY DEF NoNewest
  <2>1. PICK c \in p.calls : From(d, c, t)
    BY <1>1
  <2>2. d.kind = c.kind /\ c.current /\ Ticket(c.kind) # t
    BY <2>1 DEF From
  <2> QED
    BY <2>2 DEF NoNewest
<1>7. TabLoaded(p) => TabLoaded(q)
  BY DEF Mapped, SameView, TabLoaded
<1> QED
  BY <1>3, <1>4, <1>5, <1>6, <1>7

\* The order the least element of a set of numbers is taken from.
Smaller == {pair \in Nat \X Nat : pair[1] < pair[2]}

\* A set of numbers that is not empty has a least one, and Min names it.
LEMMA MinIs ==
    ASSUME NEW S \in SUBSET Nat, S # {}
    PROVE  Min(S) \in S /\ \A y \in S : Min(S) <= y
<1>1. IsWellFoundedOn(Smaller, Nat)
  BY NatLessThanWellFounded DEF OpToRel, Smaller
<1>2. PICK x \in S : \A y \in S : ~(<<y, x>> \in Smaller)
  BY <1>1, WFMin
<1>3. \A y \in S : x <= y
  <2> SUFFICES ASSUME NEW y \in S PROVE x <= y
    OBVIOUS
  <2>1. y \in Nat /\ x \in Nat /\ ~(<<y, x>> \in Smaller)
    BY <1>2
  <2>2. ~(y < x)
    BY <2>1 DEF Smaller
  <2> QED
    BY <2>1, <2>2
<1>4. PICK w : w = CHOOSE v \in S : \A y \in S : v <= y
  OBVIOUS
<1>5. w \in S /\ \A y \in S : w <= y
  BY <1>3, <1>4
<1>6. Min(S) = w
  BY <1>4 DEF Min
<1> QED
  BY <1>5, <1>6

LEMMA FreeIdIs ==
    ASSUME NEW p, Free(p) # {}
    PROVE  FreeId(p) \in 1 .. MaxCalls + 2 /\ FreeId(p) \notin Ids(p)
<1>1. FreeId(p) = Min(Free(p)) /\ MaxCalls \in Nat
  BY MailAssumption DEF FreeId, Free, MailAssumption
<1>2. Free(p) \in SUBSET Nat
  BY <1>1 DEF Free
<1> QED
  BY <1>1, <1>2, MinIs DEF Free, Ids

\* A request as it is sent.
IsRequest(c, p, kind, opt, email, mails) ==
    /\ c \in Calls /\ c.id = FreeId(p) /\ c.id \notin Ids(p)
    /\ c.kind = kind /\ c.opt = opt /\ c.email = email /\ c.mails = mails
    /\ c.current /\ ~c.awaited /\ c.got = {} /\ c.read = {}

LEMMA RequestIs ==
    ASSUME NEW p, Free(p) # {}, NEW kind \in Kinds, NEW opt \in BOOLEAN, NEW email \in Boxes,
           NEW mails \in SUBSET Mails
    PROVE  IsRequest(Request(p, kind, opt, email, mails), p, kind, opt, email, mails)
<1>1. FreeId(p) \in 1 .. MaxCalls + 2 /\ FreeId(p) \notin Ids(p) /\ PageSize \in Nat
  BY FreeIdIs, MailAssumption DEF MailAssumption
<1> QED
  BY <1>1 DEF Request, Calls, IsRequest

LEMMA Adds ==
    ASSUME NEW p, PageInv(p), NEW call \in Calls, call.id \notin Ids(p), ~call.awaited,
           CallFits(p, call), NoNewest(p, Ticket(call.kind)) \/ Ticket(call.kind) = "none",
           NEW q \in Pages, SameView(p, q), q.calls = p.calls \cup {call}
    PROVE  /\ PageInv(q) /\ call \in q.calls
           /\ \A T : Owned(p, T) => Owned(q, T)
           /\ Ids(q) = Ids(p) \cup {call.id} /\ (Awaiting(q) <=> Awaiting(p))
           /\ NoneAwaited(p) => NoneAwaited(q)
           /\ \A u : NoNewest(p, u) /\ Ticket(call.kind) # u => NoNewest(q, u)
           /\ NoNewest(p, Ticket(call.kind)) =>
                \A d \in q.calls : d.current /\ Ticket(d.kind) = Ticket(call.kind) => d = call
           /\ TabLoaded(p) => TabLoaded(q)
<1>2. q \in Pages /\ SameView(p, q) /\ q.calls = p.calls \cup {call}
  OBVIOUS
<1>3. ViewInv(q)
  BY <1>2, SameViewInv DEF PageInv
<1>4. Distinct(q.calls)
  <2>1. Distinct(p.calls)
    BY DEF PageInv, CallsInv
  <2>2. \A d \in p.calls : /\ d.id # call.id
                           /\ d.current => Ticket(d.kind) # Ticket(call.kind)
                                          \/ Ticket(call.kind) = "none"
    BY DEF Ids, NoNewest
  <2> QED
    BY <1>2, <2>1, <2>2 DEF Distinct
<1>5. ASSUME NEW d \in q.calls PROVE CallFits(q, d)
  <2>1. CallFits(p, d)
    BY <1>2 DEF PageInv, CallsInv
  <2> QED
    BY <1>2, <2>1 DEF SameView, CallFits, Resumes, FirstIfSilent, SearchAwaited, DetailAwaited
<1>6. PageInv(q)
  BY <1>2, <1>3, <1>4, <1>5 DEF PageInv, CallsInv
<1>7. ASSUME NEW T, Owned(p, T) PROVE Owned(q, T)
  BY <1>2, <1>7 DEF Owned, SameView, InboxOwned, SearchOwned, DetailOwned, FolderOwned
<1>8. Ids(q) = Ids(p) \cup {call.id}
  BY <1>2 DEF Ids
<1>9. Awaiting(q) <=> Awaiting(p)
  BY <1>2 DEF Awaiting
<1>10. NoneAwaited(p) => NoneAwaited(q)
  BY <1>2 DEF NoneAwaited
<1>11. \A u : NoNewest(p, u) /\ Ticket(call.kind) # u => NoNewest(q, u)
  BY <1>2 DEF NoNewest
<1>12. NoNewest(p, Ticket(call.kind)) =>
         \A d \in q.calls : d.current /\ Ticket(d.kind) = Ticket(call.kind) => d = call
  BY <1>2 DEF NoNewest
<1>13. TabLoaded(p) => TabLoaded(q)
  BY <1>2 DEF TabLoaded, SameView
<1> QED
  BY <1>2, <1>6, <1>7, <1>8, <1>9, <1>10, <1>11, <1>12, <1>13

\* A request is sent: it takes the ticket of its kind.
LEMMA Sends ==
    ASSUME NEW p, PageInv(p), NEW call \in Calls, call.id \notin Ids(p), ~call.awaited,
           CallFits(p, call)
    PROVE  LET q == Send(p, call)
               t == Ticket(call.kind)
           IN /\ PageInv(q) /\ SameView(p, q) /\ call \in q.calls
              /\ \A T : Owned(p, T) => Owned(q, T \cup {t})
              /\ Ids(q) = Ids(p) \cup {call.id} /\ (Awaiting(q) <=> Awaiting(p))
              /\ NoneAwaited(p) => NoneAwaited(q)
              /\ \A u : NoNewest(p, u) /\ t # u => NoNewest(q, u)
              /\ t # "none" => \A d \in q.calls : d.current /\ Ticket(d.kind) = t => d = call
              /\ TabLoaded(p) => TabLoaded(q)
<1> DEFINE t == Ticket(call.kind)
<1>1. PICK o : o = IF t = "none" THEN p ELSE Outdate(p, t)
  OBVIOUS
<1>2. PICK q : q = [o EXCEPT !.calls = @ \cup {call}]
  OBVIOUS
<1>3. q = Send(p, call)
  BY <1>1, <1>2 DEF Send
<1>4. /\ PageInv(o) /\ SameView(p, o) /\ Ids(o) = Ids(p) /\ (Awaiting(o) <=> Awaiting(p))
      /\ NoneAwaited(p) => NoneAwaited(o)
      /\ NoNewest(o, t) \/ t = "none"
      /\ \A u : NoNewest(p, u) => NoNewest(o, u)
      /\ TabLoaded(p) => TabLoaded(o)
      /\ \A T : Owned(p, T) => Owned(o, T \cup {t})
  <2>1. CASE t = "none"
    BY <1>1, <2>1 DEF SameView, Owned
  <2>2. CASE t # "none"
    <3>1. Mapped(p, o, t)
      BY <1>1, <2>2, OutdateIs DEF PageInv, CallsInv
    <3>2. PageInv(o) /\ SameView(p, o)
      BY <3>1, MappedKeeps DEF Mapped
    <3>3. \A T : Owned(p, T) => Owned(o, T \cup {t})
      BY <3>1, MappedOwned
    <3> QED
      BY <3>1, <3>2, <3>3, MappedRest
  <2> QED
    BY <2>1, <2>2
<1>5. CallFits(o, call)
  BY <1>4 DEF SameView, CallFits, Resumes, FirstIfSilent, SearchAwaited, DetailAwaited
<1>6. call.id \notin Ids(o)
  BY <1>4
<1>7. /\ PageInv(q) /\ SameView(o, q) /\ call \in q.calls
      /\ \A T : Owned(o, T) => Owned(q, T)
      /\ Ids(q) = Ids(o) \cup {call.id} /\ (Awaiting(q) <=> Awaiting(o))
      /\ NoneAwaited(o) => NoneAwaited(q)
      /\ \A u : NoNewest(o, u) /\ t # u => NoNewest(q, u)
      /\ NoNewest(o, t) => \A d \in q.calls : d.current /\ Ticket(d.kind) = t => d = call
      /\ TabLoaded(o) => TabLoaded(q)
  <2>1. PageInv(o) /\ (NoNewest(o, Ticket(call.kind)) \/ Ticket(call.kind) = "none")
    BY <1>4
  <2>2. o \in Pages /\ o.calls \cup {call} \in SUBSET Calls
    BY <2>1 DEF PageInv, Pages
  <2>3. q \in Pages /\ SameView(o, q) /\ q.calls = o.calls \cup {call}
    BY <1>2, <2>2, WithCalls
  <2> QED
    BY <1>5, <1>6, <2>1, <2>3, Adds
<1>8. SameView(p, q)
  BY <1>4, <1>7 DEF SameView
<1> QED
  BY <1>3, <1>4, <1>7, <1>8

(***************************************************************************)
(* The parts of handlers                                                   *)
(***************************************************************************)
\* What a step says of the requests when it sends none.
Tame(p, q) ==
    /\ Ids(q) = Ids(p) /\ q.restore = p.restore
    /\ Awaiting(q) => Awaiting(p)
    /\ NoneAwaited(p) => NoneAwaited(q)
    /\ \A u : NoNewest(p, u) => NoNewest(q, u)

\* The view changes: what is asked for must still be wanted.
LEMMA Sets ==
    ASSUME NEW p, PageInv(p), NEW q \in Pages, q.calls = p.calls, q.restore = p.restore, ViewInv(q),
           q.email = p.email \/ NoNewest(p, "inbox"),
           \/ q.email = p.email /\ q.search = p.search
           \/ NoNewest(p, "search")
           \/ /\ q.email = p.email
              /\ q.search.active /\ q.search.items = {} /\ q.search.status = "loading",
           \/ q.email = p.email /\ q.active = p.active /\ q.detail = p.detail /\ q.tab \in {p.tab, "imap"}
           \/ NoNewest(p, "detail")
    PROVE  PageInv(q) /\ Tame(p, q)
<1>1. ASSUME NEW c \in q.calls PROVE CallFits(q, c)
  <2>1. c \in p.calls /\ CallFits(p, c) /\ c.kind \in Kinds
    BY DEF PageInv, CallsInv, Pages, Calls
  <2>2. Sound(c) /\ Resumes(q, c)
    BY <2>1 DEF CallFits, Resumes
  <2>3. c.current => FirstIfSilent(q, c)
    BY <2>1, TicketIs DEF CallFits, FirstIfSilent, NoNewest
  <2>4. c.current => SearchAwaited(q, c)
    BY <2>1, TicketIs DEF CallFits, SearchAwaited, NoNewest
  <2>5. c.current => DetailAwaited(q, c)
    BY <2>1, TicketIs DEF CallFits, DetailAwaited, NoNewest
  <2> QED
    BY <2>2, <2>3, <2>4, <2>5 DEF CallFits
<1>2. PageInv(q)
  BY <1>1 DEF PageInv, CallsInv
<1>3. Tame(p, q)
  BY DEF Tame, Ids, Awaiting, NoneAwaited, NoNewest
<1> QED
  BY <1>2, <1>3

LEMMA OutdateKeeps ==
    ASSUME NEW p, PageInv(p), NEW t
    PROVE  LET q == Outdate(p, t) IN
           /\ PageInv(q) /\ SameView(p, q) /\ Tame(p, q) /\ NoNewest(q, t)
           /\ \A T : Owned(p, T) => Owned(q, T \cup {t})
           /\ TabLoaded(p) => TabLoaded(q)
<1>1. PICK q : q = Outdate(p, t)
  OBVIOUS
<1>2. Mapped(p, q, t)
  BY <1>1, OutdateIs DEF PageInv, CallsInv
<1>3. PageInv(q) /\ SameView(p, q)
  BY <1>2, MappedKeeps DEF Mapped
<1>4. \A T : Owned(p, T) => Owned(q, T \cup {t})
  BY <1>2, MappedOwned
<1>5. Tame(p, q) /\ NoNewest(q, t) /\ (TabLoaded(p) => TabLoaded(q))
  BY <1>2, <1>3, MappedRest DEF Tame, SameView
<1> QED
  BY <1>1, <1>3, <1>4, <1>5

\* All but the mail in the right column is the same.
SameButDetail(p, q) ==
    /\ q.tab = p.tab /\ q.email = p.email /\ q.querying = p.querying /\ q.auto = p.auto
    /\ q.lists = p.lists /\ q.search = p.search /\ q.selected = p.selected
    /\ q.offers = p.offers /\ q.restore = p.restore

LEMMA ResetKeeps ==
    ASSUME NEW p, PageInv(p)
    PROVE  LET q == ResetMailDetail(p) IN
           /\ PageInv(q) /\ SameButDetail(p, q) /\ Tame(p, q) /\ NoNewest(q, "detail")
           /\ q.detail = NoDetail /\ q.active = None
           /\ \A T : Owned(p, T) => Owned(q, T \ {"detail"})
           /\ TabLoaded(p) => TabLoaded(q)
<1>1. PICK o : o = Outdate(p, "detail")
  OBVIOUS
<1>2. PICK q : q = [o EXCEPT !.detail = NoDetail, !.active = None]
  OBVIOUS
<1>3. q = ResetMailDetail(p)
  BY <1>1, <1>2 DEF ResetMailDetail
<1>4. /\ PageInv(o) /\ SameView(p, o) /\ Tame(p, o) /\ NoNewest(o, "detail")
      /\ \A T : Owned(p, T) => Owned(o, T \cup {"detail"})
      /\ TabLoaded(p) => TabLoaded(o)
  BY <1>1, OutdateKeeps
<1>5. /\ q \in Pages /\ SameButDetail(o, q) /\ q.calls = o.calls
      /\ q.detail = NoDetail /\ q.active = None
  <2>1. o \in Pages
    BY <1>4 DEF PageInv
  <2> QED
    BY <1>2, <2>1 DEF Pages, SameButDetail, NoDetail, Details
<1>6. ViewInv(q)
  BY <1>4, <1>5 DEF PageInv, ViewInv, ListsFit, DetailFits, Shown, SameButDetail, NoDetail
<1>7. PageInv(q) /\ Tame(o, q)
  BY <1>4, <1>5, <1>6, Sets DEF SameButDetail
<1>8. ASSUME NEW T, Owned(p, T) PROVE Owned(q, T \ {"detail"})
  <2>1. Owned(o, T \cup {"detail"})
    BY <1>4, <1>8
  <2>2. DetailOwned(q)
    BY <1>5 DEF DetailOwned, NoDetail
  <2> QED
    BY <1>5, <2>1, <2>2 DEF Owned, InboxOwned, SearchOwned, FolderOwned, SameButDetail
<1>9. TabLoaded(p) => TabLoaded(q)
  BY <1>4, <1>5 DEF TabLoaded, SameButDetail
<1>10. SameButDetail(p, q) /\ Tame(p, q) /\ NoNewest(q, "detail")
  BY <1>4, <1>5, <1>7 DEF SameButDetail, SameView, Tame
<1> QED
  BY <1>3, <1>5, <1>7, <1>8, <1>9, <1>10

\* What a step says of the requests when it sends one.
Sent(p, q, id) ==
    /\ Ids(q) = Ids(p) \cup {id} /\ q.restore = p.restore
    /\ Awaiting(q) => Awaiting(p)
    /\ NoneAwaited(p) => NoneAwaited(q)

\* Who stops the spinners of t is there again.
LEMMA OwnsAgain ==
    ASSUME NEW q, NEW T, NEW t, Owned(q, T \cup {t}),
           t = "inbox" => InboxOwned(q), t = "search" => SearchOwned(q),
           t = "detail" => DetailOwned(q), t \in {"sent", "trash"} => FolderOwned(q, t)
    PROVE  Owned(q, T \ {t})
BY DEF Owned

\* The mail on its way is what the right column waits for.
LEMMA OpenKeeps ==
    ASSUME NEW p, PageInv(p), Free(p) # {}, p.email \in Boxes,
           NEW m \in Mails, Home[m] = p.email, NEW trash \in BOOLEAN,
           NEW kind \in {"detail", "sentDetail"},
           p.tab # "imap" => (kind = "sentDetail" <=> p.tab = "sent"),
           p.tab # "imap" => (trash <=> p.tab = "trash")
    PROVE  LET q == OpenDetailShell(p, kind, m, trash) IN
           /\ PageInv(q) /\ Sent(p, q, FreeId(p))
           /\ \A T : Owned(p, T) => Owned(q, T \ {"detail"})
           /\ TabLoaded(p) => TabLoaded(q)
<1> DEFINE wait == [kind |-> "loading", id |-> None, trash |-> FALSE]
<1>1. PICK call : call = Request(p, kind, trash, p.email, {m})
  OBVIOUS
<1>2. PICK s : s = [p EXCEPT !.active = m, !.detail = wait]
  OBVIOUS
<1>3. PICK q : q = OpenDetailShell(p, kind, m, trash)
  OBVIOUS
<1>4. q = Send(s, call)
  BY <1>1, <1>2, <1>3 DEF OpenDetailShell
<1>5. PICK o : o = Outdate(p, "detail")
  OBVIOUS
<1>6. PICK r : r = [o EXCEPT !.active = m, !.detail = wait]
  OBVIOUS
<1>7. /\ PageInv(o) /\ SameView(p, o) /\ Tame(p, o) /\ NoNewest(o, "detail")
      /\ \A T : Owned(p, T) => Owned(o, T \cup {"detail"})
      /\ TabLoaded(p) => TabLoaded(o)
  BY <1>5, OutdateKeeps
<1>8. /\ r \in Pages /\ SameButDetail(o, r) /\ r.calls = o.calls
      /\ r.detail = wait /\ r.active = m
  <2>1. o \in Pages
    BY <1>7 DEF PageInv
  <2> QED
    BY <1>6, <2>1 DEF Pages, SameButDetail, Details
<1>9. m # None
  BY MailAssumption DEF MailAssumption
<1>10. ViewInv(r)
  BY <1>7, <1>8, <1>9 DEF PageInv, ViewInv, ListsFit, DetailFits, Shown, SameButDetail, SameView
<1>11. PageInv(r) /\ Tame(o, r)
  BY <1>7, <1>8, <1>10, Sets DEF SameButDetail
<1>12. /\ call \in Calls /\ call.id = FreeId(p) /\ call.id \notin Ids(p) /\ call.kind = kind
       /\ call.opt = trash /\ call.email = p.email /\ call.mails = {m} /\ call.current
       /\ ~call.awaited /\ call.got = {} /\ call.read = {}
  <2>1. kind \in Kinds /\ {m} \in SUBSET Mails
    BY DEF Kinds
  <2>2. IsRequest(call, p, kind, trash, p.email, {m})
    BY <1>1, <2>1, RequestIs
  <2> QED
    BY <2>2 DEF IsRequest
<1>13. Ticket(call.kind) = "detail"
  BY <1>12 DEF Ticket
<1>14. CallFits(r, call)
  <2>1. r.email = p.email /\ r.tab = p.tab
    BY <1>7, <1>8 DEF SameButDetail, SameView
  <2>2. DetailAwaited(r, call)
    BY <1>8, <1>12, <2>1 DEF DetailAwaited
  <2> QED
    BY <1>12, <2>2 DEF CallFits, Sound, AllOf, Resumes, FirstIfSilent, SearchAwaited
<1>15. q \in Pages /\ SameView(r, q) /\ q.calls = r.calls \cup {call}
  <2>1. p \in Pages /\ o \in Pages /\ p.calls \in SUBSET Calls /\ o.calls \in SUBSET Calls
    BY <1>7 DEF PageInv, Pages
  <2>2. s \in Pages /\ SameButDetail(p, s) /\ s.calls = p.calls /\ s.detail = wait /\ s.active = m
    BY <1>2, <2>1 DEF Pages, SameButDetail, Details
  <2>3. Outdate(s, "detail") = [s EXCEPT !.calls = o.calls] /\ o.calls \in SUBSET Calls
    <3>1. o.calls = {[c EXCEPT !.current = @ /\ Ticket(c.kind) # "detail"] : c \in p.calls}
      BY <1>5, <2>1 DEF Outdate, Pages
    <3> QED
      BY <2>1, <2>2, <3>1 DEF Outdate
  <2>4. PICK u : u = Outdate(s, "detail")
    OBVIOUS
  <2>5. u \in Pages /\ SameView(s, u) /\ u.calls = o.calls
    <3>1. s \in Pages /\ o.calls \in SUBSET Calls /\ u = [s EXCEPT !.calls = o.calls]
      BY <2>1, <2>2, <2>3, <2>4
    <3> QED
      BY <3>1, WithCalls
  <2>6. q = [u EXCEPT !.calls = u.calls \cup {call}]
    BY <1>4, <1>13, <2>4 DEF Send
  <2>7. q \in Pages /\ SameView(u, q) /\ q.calls = o.calls \cup {call}
    BY <1>12, <2>1, <2>5, <2>6, WithCalls
  <2> QED
    BY <1>7, <1>8, <2>2, <2>5, <2>7 DEF SameView, SameButDetail
<1>16. NoNewest(r, Ticket(call.kind)) /\ call.id \notin Ids(r) /\ ~call.awaited
  BY <1>7, <1>11, <1>12, <1>13 DEF Tame
<1>17. /\ PageInv(q) /\ call \in q.calls
       /\ \A T : Owned(r, T) => Owned(q, T)
       /\ Ids(q) = Ids(r) \cup {call.id} /\ (Awaiting(q) <=> Awaiting(r))
       /\ NoneAwaited(r) => NoneAwaited(q)
       /\ TabLoaded(r) => TabLoaded(q)
  BY <1>11, <1>12, <1>14, <1>15, <1>16, Adds
<1>18. ASSUME NEW T, Owned(p, T) PROVE Owned(q, T \ {"detail"})
  <2>1. Owned(o, T \cup {"detail"})
    BY <1>7, <1>18
  <2>2. Owned(r, T \cup {"detail"})
    BY <1>8, <2>1 DEF Owned, InboxOwned, SearchOwned, FolderOwned, SameButDetail
  <2>3. Owned(q, T \cup {"detail"})
    BY <1>17, <2>2
  <2>4. DetailOwned(q)
    BY <1>12, <1>13, <1>17 DEF DetailOwned
  <2> QED
    BY <2>3, <2>4, OwnsAgain
<1>19. TabLoaded(p) => TabLoaded(q)
  BY <1>7, <1>8, <1>17 DEF TabLoaded, SameButDetail, SameView
<1>20. Sent(p, q, FreeId(p))
  BY <1>7, <1>11, <1>12, <1>15, <1>17 DEF Sent, Tame, SameView
<1> QED
  BY <1>3, <1>17, <1>18, <1>19, <1>20

\* Mails are finite in number, and so is every list of them.
LEMMA MailCount ==
    ASSUME NEW S \in SUBSET Mails
    PROVE  IsFiniteSet(S) /\ Cardinality(S) \in Nat
<1>1. IsFiniteSet(Mails)
  BY MailAssumption DEF MailAssumption
<1> QED
  BY <1>1, FS_Subset, FS_CardinalityType

\* Spinners that were not touched keep who stops them.
LEMMA SameOwned ==
    ASSUME NEW p, NEW q, q.calls = p.calls, q.email = p.email, NEW T, Owned(p, T), NEW U, T \subseteq U,
           \/ "inbox" \in U
           \/ /\ q.lists["inbox"].status = p.lists["inbox"].status
              /\ q.lists["inbox"].more = p.lists["inbox"].more,
           "search" \in U \/ q.search = p.search,
           "detail" \in U \/ q.detail = p.detail,
           \A f \in {"sent", "trash"} :
               \/ f \in U
               \/ q.lists[f].status = p.lists[f].status /\ q.lists[f].more = p.lists[f].more
    PROVE  Owned(q, U)
<1>1. "inbox" \notin U => InboxOwned(q)
  BY DEF Owned, InboxOwned
<1>2. "search" \notin U => SearchOwned(q)
  BY DEF Owned, SearchOwned
<1>3. "detail" \notin U => DetailOwned(q)
  BY DEF Owned, DetailOwned
<1>4. \A f \in {"sent", "trash"} \ U : FolderOwned(q, f)
  BY DEF Owned, FolderOwned
<1> QED
  BY <1>1, <1>2, <1>3, <1>4 DEF Owned

LEMMA LoadInboxKeeps ==
    ASSUME NEW p, PageInv(p), Free(p) # {}, NEW email \in Boxes, NEW silent \in BOOLEAN,
           silent => p.email = None /\ p.lists["inbox"].status # "loading"
    PROVE  LET q == LoadInbox(p, email, silent) IN
           /\ PageInv(q) /\ Sent(p, q, FreeId(p)) /\ q.tab = p.tab /\ q.email = p.email
           /\ \A T : Owned(p, T) => Owned(q, T \ {"inbox"})
           /\ TabLoaded(p) => TabLoaded(q)
           /\ \E c \in q.calls : c.kind = "query" /\ c.id = FreeId(p)
<1>1. PICK o : o = IF silent THEN p ELSE ResetMailDetail(p)
  OBVIOUS
<1>2. PICK r : r = IF silent THEN o
                   ELSE [o EXCEPT !.querying = TRUE, !.selected = {},
                                  !.lists["inbox"].status = "loading"]
  OBVIOUS
<1>3. PICK s : s = [r EXCEPT !.lists["inbox"].more = FALSE]
  OBVIOUS
<1>4. PICK call : call = Request(p, "query", silent, email, {})
  OBVIOUS
<1>5. PICK q : q = Send(s, call)
  OBVIOUS
<1>6. q = LoadInbox(p, email, silent)
  BY <1>1, <1>2, <1>3, <1>4, <1>5 DEF LoadInbox
<1>7. /\ PageInv(o) /\ SameButDetail(p, o) /\ Tame(p, o)
      /\ \A T : Owned(p, T) => Owned(o, T)
      /\ TabLoaded(p) => TabLoaded(o)
  <2>1. CASE silent
    BY <1>1, <2>1 DEF SameButDetail, Tame
  <2>2. CASE ~silent
    <3>1. /\ PageInv(o) /\ SameButDetail(p, o) /\ Tame(p, o)
          /\ \A T : Owned(p, T) => Owned(o, T \ {"detail"})
          /\ TabLoaded(p) => TabLoaded(o)
      BY <1>1, <2>2, ResetKeeps
    <3>2. \A T : Owned(o, T \ {"detail"}) => Owned(o, T)
      BY DEF Owned
    <3> QED
      BY <3>1, <3>2
  <2> QED
    BY <2>1, <2>2
<1>8. /\ s \in Pages /\ s.calls = o.calls /\ s.restore = o.restore /\ s.email = o.email
      /\ s.search = o.search /\ s.active = o.active /\ s.detail = o.detail /\ s.tab = o.tab
      /\ s.offers = o.offers /\ s.selected \subseteq o.selected
      /\ \A f \in Folders : s.lists[f].items = o.lists[f].items /\ s.lists[f].read = o.lists[f].read
      /\ \A f \in {"sent", "trash"} : s.lists[f] = o.lists[f]
      /\ ~s.lists["inbox"].more
      /\ silent => s.lists["inbox"].status = p.lists["inbox"].status
  <2>1. o \in Pages /\ "inbox" \in Folders
    BY <1>7 DEF PageInv, Folders
  <2>2. /\ r \in Pages /\ r.calls = o.calls /\ r.restore = o.restore /\ r.email = o.email
        /\ r.search = o.search /\ r.active = o.active /\ r.detail = o.detail /\ r.tab = o.tab
        /\ r.offers = o.offers /\ r.selected \subseteq o.selected
        /\ r.lists = o.lists \/ r.lists = [o.lists EXCEPT !["inbox"].status = "loading"]
        /\ silent => r.lists = o.lists
    <3>1. CASE silent
      BY <1>2, <2>1, <3>1
    <3>2. CASE ~silent
      <4>1. [o.lists EXCEPT !["inbox"].status = "loading"] \in [Folders -> Lists]
        BY <2>1 DEF Pages, Lists, Statuses
      <4>2. PICK l : l = [o.lists EXCEPT !["inbox"].status = "loading"]
        OBVIOUS
      <4>3. r = [o EXCEPT !.querying = TRUE, !.selected = {}, !.lists = l]
        BY <1>2, <2>1, <3>2, <4>2 DEF Pages
      <4>4. /\ r \in Pages /\ r.calls = o.calls /\ r.restore = o.restore /\ r.email = o.email
            /\ r.search = o.search /\ r.active = o.active /\ r.detail = o.detail /\ r.tab = o.tab
            /\ r.offers = o.offers /\ r.selected = {} /\ r.lists = l
        BY <2>1, <4>1, <4>2, <4>3 DEF Pages
      <4> QED
        BY <3>2, <4>2, <4>4
    <3> QED
      BY <3>1, <3>2
  <2>3. PICK l : l = [r.lists EXCEPT !["inbox"].more = FALSE]
    OBVIOUS
  <2>4. l \in [Folders -> Lists]
    <3>1. r.lists \in [Folders -> Lists]
      BY <2>2 DEF Pages
    <3>2. [r.lists["inbox"] EXCEPT !.more = FALSE] \in Lists
      BY <2>1, <3>1 DEF Lists
    <3> QED
      BY <2>3, <3>1, <3>2
  <2>5. /\ \A f \in Folders : l[f].items = o.lists[f].items /\ l[f].read = o.lists[f].read
        /\ \A f \in {"sent", "trash"} : l[f] = o.lists[f]
        /\ ~l["inbox"].more /\ (silent => l["inbox"].status = o.lists["inbox"].status)
    BY <2>1, <2>2, <2>3 DEF Pages, Lists, Folders
  <2>6. s = [r EXCEPT !.lists = l]
    BY <1>3, <2>2, <2>3 DEF Pages
  <2>7. /\ s \in Pages /\ s.calls = r.calls /\ s.restore = r.restore /\ s.email = r.email
        /\ s.search = r.search /\ s.active = r.active /\ s.detail = r.detail /\ s.tab = r.tab
        /\ s.offers = r.offers /\ s.selected = r.selected /\ s.lists = l
    BY <2>2, <2>4, <2>6 DEF Pages
  <2> QED
    BY <1>7, <2>2, <2>5, <2>7 DEF SameButDetail
<1>9. ViewInv(s)
  <2>1. Shown(s) = Shown(o)
    BY <1>8 DEF Shown, Folders
  <2>2. ListsFit(s)
    BY <1>7, <1>8 DEF PageInv, ViewInv, ListsFit
  <2>3. DetailFits(s)
    BY <1>7, <1>8 DEF PageInv, ViewInv, DetailFits
  <2> QED
    BY <1>7, <1>8, <2>1, <2>2, <2>3 DEF PageInv, ViewInv
<1>10. PageInv(s) /\ Tame(o, s)
  BY <1>7, <1>8, <1>9, Sets
<1>11. IsRequest(call, p, "query", silent, email, {})
  BY <1>4, RequestIs DEF Kinds
<1>12. /\ call \in Calls /\ call.id = FreeId(p) /\ call.id \notin Ids(s) /\ ~call.awaited
       /\ call.kind = "query" /\ call.current /\ call.opt = silent
  BY <1>7, <1>10, <1>11 DEF IsRequest, Tame
<1>13. Ticket(call.kind) = "inbox"
  BY <1>12 DEF Ticket
<1>14. CallFits(s, call)
  <2>1. Sound(call) /\ Resumes(s, call)
    BY <1>11 DEF IsRequest, Sound, AllOf, Resumes
  <2>2. FirstIfSilent(s, call)
    BY <1>7, <1>8, <1>12 DEF FirstIfSilent, SameButDetail
  <2>3. SearchAwaited(s, call) /\ DetailAwaited(s, call)
    BY <1>12, <1>13 DEF SearchAwaited, DetailAwaited
  <2> QED
    BY <2>1, <2>2, <2>3 DEF CallFits
<1>15. /\ PageInv(q) /\ SameView(s, q) /\ call \in q.calls
       /\ \A T : Owned(s, T) => Owned(q, T \cup {Ticket(call.kind)})
       /\ Ids(q) = Ids(s) \cup {call.id} /\ (Awaiting(q) <=> Awaiting(s))
       /\ NoneAwaited(s) => NoneAwaited(q)
       /\ TabLoaded(s) => TabLoaded(q)
  BY <1>5, <1>10, <1>12, <1>14, Sends
<1>16. ASSUME NEW T, Owned(p, T) PROVE Owned(q, T \ {"inbox"})
  <2>1. Owned(o, T)
    BY <1>7, <1>16
  <2>2. Owned(s, T \cup {"inbox"})
    <3>1. PICK U : U = T \cup {"inbox"}
      OBVIOUS
    <3>2. /\ T \subseteq U /\ "inbox" \in U /\ s.calls = o.calls /\ s.email = o.email
          /\ s.search = o.search /\ s.detail = o.detail
          /\ \A f \in {"sent", "trash"} :
               \/ f \in U
               \/ s.lists[f].status = o.lists[f].status /\ s.lists[f].more = o.lists[f].more
      BY <1>8, <3>1
    <3>3. Owned(s, U)
      BY <2>1, <3>2, SameOwned
    <3> QED
      BY <3>1, <3>3
  <2>3. Owned(q, T \cup {"inbox"})
    <3>1. (T \cup {"inbox"}) \cup {"inbox"} = T \cup {"inbox"}
      OBVIOUS
    <3> QED
      BY <1>13, <1>15, <2>2, <3>1
  <2>4. InboxOwned(q)
    <3>1. q.lists = s.lists
      BY <1>15 DEF SameView
    <3>2. CASE silent
      BY <1>8, <3>1, <3>2 DEF InboxOwned
    <3>3. CASE ~silent
      BY <1>8, <1>12, <1>15, <3>1, <3>3 DEF InboxOwned
    <3> QED
      BY <3>2, <3>3
  <2> QED
    BY <2>3, <2>4, OwnsAgain
<1>17. TabLoaded(p) => TabLoaded(q)
  BY <1>7, <1>8, <1>15 DEF TabLoaded
<1>18. Sent(p, q, FreeId(p)) /\ q.tab = p.tab /\ q.email = p.email
  BY <1>7, <1>8, <1>10, <1>12, <1>15 DEF Sent, Tame, SameView, SameButDetail
<1> QED
  BY <1>6, <1>12, <1>15, <1>16, <1>17, <1>18

\* The newest call for list f.
Loads(q, f) ==
    \E d \in q.calls : /\ d.kind = f /\ d.current
                       /\ \A e \in q.calls : e.current /\ e.kind = f => e = d

LEMMA LoadFolderKeeps ==
    ASSUME NEW p, PageInv(p), Free(p) # {}, p.email \in Boxes, NEW f \in {"sent", "trash"},
           NEW append \in BOOLEAN, append => p.lists[f].status = "ready"
    PROVE  LET q == LoadFolder(p, f, append) IN
           /\ PageInv(q) /\ Sent(p, q, FreeId(p)) /\ q.tab = p.tab /\ q.email = p.email
           /\ \A T : Owned(p, T) => Owned(q, T \ {f})
           /\ TabLoaded(p) \/ p.tab = f => TabLoaded(q)
           /\ Loads(q, f)
<1> DEFINE at == IF append THEN Cardinality(p.lists[f].items) ELSE 0
           R == Request(p, f, append, p.email, {})
<1>1. PICK s : s = IF append THEN [p EXCEPT !.lists[f].more = TRUE]
                   ELSE [p EXCEPT !.lists[f].status = "loading"]
  OBVIOUS
<1>2. PICK call : call = [R EXCEPT !.at = at]
  OBVIOUS
<1>3. PICK q : q = Send(s, call)
  OBVIOUS
<1>4. q = LoadFolder(p, f, append)
  BY <1>1, <1>2, <1>3 DEF LoadFolder
<1>5. p \in Pages /\ f \in Folders /\ p.lists \in [Folders -> Lists] /\ "inbox" \in Folders
      /\ f # "inbox"
  BY DEF PageInv, Pages, Folders
<1>6. PICK l : l = IF append THEN [p.lists EXCEPT ![f].more = TRUE]
                   ELSE [p.lists EXCEPT ![f].status = "loading"]
  OBVIOUS
<1>7. /\ l \in [Folders -> Lists]
      /\ \A g \in Folders : l[g].items = p.lists[g].items /\ l[g].read = p.lists[g].read
      /\ \A g \in Folders \ {f} : l[g] = p.lists[g]
      /\ l[f].status = IF append THEN "ready" ELSE "loading"
  <2>1. CASE append
    <3>1. [p.lists[f] EXCEPT !.more = TRUE] \in Lists
      BY <1>5 DEF Lists
    <3>2. l = [p.lists EXCEPT ![f] = [p.lists[f] EXCEPT !.more = TRUE]]
      BY <1>5, <1>6, <2>1
    <3>3. l \in [Folders -> Lists]
      BY <1>5, <3>1, <3>2
    <3> QED
      BY <1>5, <2>1, <3>2, <3>3 DEF Lists
  <2>2. CASE ~append
    <3>1. [p.lists[f] EXCEPT !.status = "loading"] \in Lists
      BY <1>5 DEF Lists, Statuses
    <3>2. l = [p.lists EXCEPT ![f] = [p.lists[f] EXCEPT !.status = "loading"]]
      BY <1>5, <1>6, <2>2
    <3>3. l \in [Folders -> Lists]
      BY <1>5, <3>1, <3>2
    <3> QED
      BY <1>5, <2>2, <3>2, <3>3 DEF Lists
  <2> QED
    BY <2>1, <2>2
<1>8. /\ s \in Pages /\ s.calls = p.calls /\ s.restore = p.restore /\ s.email = p.email
      /\ s.search = p.search /\ s.active = p.active /\ s.detail = p.detail /\ s.tab = p.tab
      /\ s.offers = p.offers /\ s.selected = p.selected /\ s.lists = l
  <2>1. s = [p EXCEPT !.lists = l]
    BY <1>1, <1>5, <1>6 DEF Pages
  <2> QED
    BY <1>5, <1>7, <2>1 DEF Pages
<1>9. ViewInv(s)
  <2>1. Shown(s) = Shown(p)
    BY <1>5, <1>7, <1>8 DEF Shown
  <2>2. ListsFit(s)
    BY <1>7, <1>8 DEF PageInv, ViewInv, ListsFit
  <2>3. DetailFits(s)
    BY <1>8 DEF PageInv, ViewInv, DetailFits
  <2> QED
    BY <1>8, <2>1, <2>2, <2>3 DEF PageInv, ViewInv
<1>10. PageInv(s) /\ Tame(p, s)
  BY <1>8, <1>9, Sets
<1>11. IsRequest(R, p, f, append, p.email, {})
  BY RequestIs DEF Kinds
<1>12. /\ call \in Calls /\ call.id = FreeId(p) /\ call.id \notin Ids(s) /\ ~call.awaited
       /\ call.kind = f /\ call.current /\ call.opt = append /\ call.email = p.email
       /\ call.got = {} /\ call.read = {}
  <2>1. at \in Nat
    <3>1. p.lists[f].items \in SUBSET Mails
      BY <1>5 DEF Lists
    <3> QED
      BY <3>1, MailCount
  <2>2. R \in Calls
    BY <1>11 DEF IsRequest
  <2> HIDE DEF R
  <2> HIDE DEF at
  <2>3. /\ call \in Calls /\ call.id = R.id /\ call.awaited = R.awaited /\ call.kind = R.kind
        /\ call.current = R.current /\ call.opt = R.opt /\ call.email = R.email
        /\ call.got = R.got /\ call.read = R.read
    BY <1>2, <2>1, <2>2 DEF Calls
  <2> QED
    BY <1>10, <1>11, <2>3 DEF IsRequest, Tame
<1>13. Ticket(call.kind) = f
  BY <1>12 DEF Ticket
<1>14. CallFits(s, call)
  BY <1>12, <1>13 DEF CallFits, Sound, AllOf, Resumes, FirstIfSilent, SearchAwaited, DetailAwaited
<1>15. /\ PageInv(q) /\ SameView(s, q) /\ call \in q.calls
       /\ \A T : Owned(s, T) => Owned(q, T \cup {f})
       /\ Ids(q) = Ids(s) \cup {call.id} /\ (Awaiting(q) <=> Awaiting(s))
       /\ NoneAwaited(s) => NoneAwaited(q)
       /\ \A d \in q.calls : d.current /\ Ticket(d.kind) = f => d = call
       /\ TabLoaded(s) => TabLoaded(q)
  BY <1>3, <1>10, <1>12, <1>13, <1>14, Sends
<1>16. ASSUME NEW T, Owned(p, T) PROVE Owned(q, T \ {f})
  <2>2. Owned(s, T \cup {f})
    <3>1. PICK U : U = T \cup {f}
      OBVIOUS
    <3>2. /\ T \subseteq U /\ f \in U /\ s.calls = p.calls /\ s.email = p.email
          /\ s.search = p.search /\ s.detail = p.detail
          /\ s.lists["inbox"] = p.lists["inbox"]
          /\ \A g \in {"sent", "trash"} : g \in U \/ s.lists[g] = p.lists[g]
      BY <1>5, <1>7, <1>8, <3>1 DEF Folders
    <3>3. Owned(s, U)
      BY <1>16, <3>2, SameOwned, ZenonT(60)
    <3> QED
      BY <3>1, <3>3
  <2>3. Owned(q, T \cup {f})
    <3>1. (T \cup {f}) \cup {f} = T \cup {f}
      OBVIOUS
    <3> QED
      BY <1>15, <2>2, <3>1
  <2>4. FolderOwned(q, f)
    BY <1>7, <1>8, <1>12, <1>15 DEF FolderOwned, SameView
  <2> QED
    BY <1>5, <2>3, <2>4, OwnsAgain
<1>17. TabLoaded(p) \/ p.tab = f => TabLoaded(q)
  <2>1. q.lists = l /\ q.tab = p.tab /\ q.email = p.email
    BY <1>8, <1>15 DEF SameView
  <2>2. p.tab = f => TabLoaded(q)
    BY <1>7, <2>1 DEF TabLoaded
  <2>3. p.tab # f /\ q.tab \in {"sent", "trash"} => q.lists[q.tab] = p.lists[q.tab]
    BY <1>5, <1>7, <2>1 DEF Folders
  <2> QED
    BY <2>1, <2>2, <2>3 DEF TabLoaded
<1>18. Loads(q, f)
  <2>1. Ticket(f) = f
    BY DEF Ticket
  <2> QED
    BY <1>12, <1>15, <2>1 DEF Loads
<1>19. Sent(p, q, FreeId(p)) /\ q.tab = p.tab /\ q.email = p.email
  BY <1>8, <1>10, <1>12, <1>15 DEF Sent, Tame, SameView
<1> QED
  BY <1>4, <1>15, <1>16, <1>17, <1>18, <1>19

\* Resetting the right column of a page with the same requests.
LEMMA ResetSame ==
    ASSUME NEW p, PageInv(p), NEW q \in Pages, q.calls = p.calls
    PROVE  LET r == ResetMailDetail(q) IN
           /\ r \in Pages /\ SameButDetail(q, r) /\ r.detail = NoDetail /\ r.active = None
           /\ r.calls = ResetMailDetail(p).calls
<1> DEFINE C == {[c EXCEPT !.current = @ /\ Ticket(c.kind) # "detail"] : c \in p.calls}
<1>1. PICK o : o = Outdate(p, "detail")
  OBVIOUS
<1>2. o \in Pages /\ Outdate(p, "detail") = [p EXCEPT !.calls = C]
  <2>1. PageInv(o)
    BY <1>1, OutdateKeeps
  <2> QED
    BY <2>1 DEF Outdate, PageInv
<1>3. o.calls = C /\ C \in SUBSET Calls
  <2>1. p \in Pages
    BY DEF PageInv
  <2>2. o.calls = C
    BY <1>1, <1>2, <2>1 DEF Pages
  <2> QED
    BY <1>2, <2>2 DEF Pages
<1>4. Outdate(q, "detail") = [q EXCEPT !.calls = C]
  BY DEF Outdate
<1> HIDE DEF C
<1>5. PICK u : u = Outdate(q, "detail")
  OBVIOUS
<1>6. u \in Pages /\ SameView(q, u) /\ u.calls = C
  BY <1>3, <1>4, <1>5, WithCalls
<1>7. PICK r : r = [u EXCEPT !.detail = NoDetail, !.active = None]
  OBVIOUS
<1>8. /\ r \in Pages /\ SameButDetail(u, r) /\ r.calls = C
      /\ r.detail = NoDetail /\ r.active = None
  BY <1>6, <1>7 DEF Pages, SameButDetail, NoDetail, Details
<1>9. r = ResetMailDetail(q)
  BY <1>5, <1>7 DEF ResetMailDetail
<1>10. ResetMailDetail(p).calls = C
  BY <1>1, <1>2, <1>3 DEF ResetMailDetail, Pages
<1> QED
  BY <1>6, <1>8, <1>9, <1>10 DEF SameView, SameButDetail

\* What a step of the page keeps that sends at most one request.
Step(p, q) ==
    /\ PageInv(q) /\ q.restore = p.restore
    /\ Ids(q) \subseteq Ids(p) \cup {FreeId(p)}
    /\ Awaiting(q) => Awaiting(p)
    /\ NoneAwaited(p) => NoneAwaited(q)
    /\ Owned(p, {}) => Owned(q, {})

LEMMA ShowTabKeeps ==
    ASSUME NEW p, PageInv(p), Free(p) # {}, p.email \in Boxes, p.tab \in Folders
    PROVE  LET q == ShowTab(p) IN
           /\ Step(p, q) /\ q.tab = p.tab /\ q.email = p.email /\ TabLoaded(q)
           /\ p.tab \in {"sent", "trash"} => Loads(q, p.tab)
<1>1. CASE p.tab \in {"sent", "trash"}
  <2>1. PICK q : q = LoadFolder(p, p.tab, FALSE)
    OBVIOUS
  <2>2. ShowTab(p) = q
    BY <1>1, <2>1 DEF ShowTab
  <2>3. /\ PageInv(q) /\ Sent(p, q, FreeId(p)) /\ q.tab = p.tab /\ q.email = p.email
        /\ \A T : Owned(p, T) => Owned(q, T \ {p.tab})
        /\ TabLoaded(q) /\ Loads(q, p.tab)
    BY <1>1, <2>1, LoadFolderKeeps
  <2>4. Owned(p, {}) => Owned(q, {})
    <3>1. {} \ {p.tab} = {}
      OBVIOUS
    <3> QED
      BY <2>3, <3>1
  <2> QED
    BY <2>2, <2>3, <2>4 DEF Step, Sent
<1>2. CASE p.tab = "inbox" /\ p.lists["inbox"].status \in {"ready", "loading"}
  <2>1. ShowTab(p) = p
    BY <1>2 DEF ShowTab
  <2> QED
    BY <1>2, <2>1 DEF Step, TabLoaded
<1>3. CASE p.tab = "inbox" /\ p.lists["inbox"].status \notin {"ready", "loading"}
  <2>1. PICK q : q = LoadInbox(p, p.email, FALSE)
    OBVIOUS
  <2>2. ShowTab(p) = q
    BY <1>3, <2>1 DEF ShowTab
  <2>3. /\ PageInv(q) /\ Sent(p, q, FreeId(p)) /\ q.tab = p.tab /\ q.email = p.email
        /\ \A T : Owned(p, T) => Owned(q, T \ {"inbox"})
    BY <1>3, <2>1, LoadInboxKeeps
  <2>4. Owned(p, {}) => Owned(q, {})
    <3>1. {} \ {"inbox"} = {}
      OBVIOUS
    <3> QED
      BY <2>3, <3>1
  <2>5. TabLoaded(q)
    BY <1>3, <2>3 DEF TabLoaded
  <2> QED
    BY <1>3, <2>2, <2>3, <2>4, <2>5 DEF Step, Sent
<1> QED
  BY <1>1, <1>2, <1>3 DEF Folders

LEMMA SwitchTabKeeps ==
    ASSUME NEW p, PageInv(p), Free(p) # {}, NEW tab \in Tabs
    PROVE  LET q == SwitchTab(p, tab) IN
           /\ Step(p, q) /\ q.tab = tab /\ q.email = p.email /\ TabLoaded(q)
           /\ tab \in {"sent", "trash"} /\ p.email # None => Loads(q, tab)
<1>1. PICK o : o = Outdate(p, "search")
  OBVIOUS
<1>2. PICK q : q = [o EXCEPT !.tab = tab, !.auto = @ /\ tab = "inbox",
                             !.search.active = FALSE, !.search.items = {}, !.search.read = {},
                             !.selected = {}]
  OBVIOUS
<1>3. PICK r : r = ResetMailDetail(q)
  OBVIOUS
<1>4. SwitchTab(p, tab) = CASE tab = "imap" -> q
                            [] tab # "imap" /\ p.email = None -> r
                            [] OTHER -> ShowTab(r)
  BY <1>1, <1>2, <1>3 DEF SwitchTab
<1>5. /\ PageInv(o) /\ SameView(p, o) /\ Tame(p, o) /\ NoNewest(o, "search")
      /\ \A T : Owned(p, T) => Owned(o, T \cup {"search"})
  BY <1>1, OutdateKeeps
<1>6. /\ q \in Pages /\ q.calls = o.calls /\ q.restore = o.restore /\ q.email = o.email
      /\ q.lists = o.lists /\ q.active = o.active /\ q.detail = o.detail /\ q.tab = tab
      /\ q.offers = o.offers /\ q.selected = {} /\ ~q.search.active /\ q.search.items = {}
  <2>1. o \in Pages /\ o.search \in Searches /\ o.auto \in BOOLEAN
    BY <1>5 DEF PageInv, Pages
  <2>2. PICK s : s = [o.search EXCEPT !.active = FALSE, !.items = {}, !.read = {}]
    OBVIOUS
  <2>3. s \in Searches /\ ~s.active /\ s.items = {}
    BY <2>1, <2>2 DEF Searches
  <2>4. q = [o EXCEPT !.tab = tab, !.auto = (o.auto /\ tab = "inbox"), !.search = s,
                      !.selected = {}]
    BY <1>2, <2>1, <2>2 DEF Pages
  <2> QED
    BY <2>1, <2>3, <2>4 DEF Pages
<1>7. ASSUME Owned(p, {}) PROVE Owned(q, {})
  <2>1. Owned(o, {"search"})
    BY <1>5, <1>7
  <2>2. Owned(q, {"search"})
    BY <1>6, <2>1 DEF Owned, InboxOwned, DetailOwned, FolderOwned
  <2>3. SearchOwned(q)
    BY <1>6 DEF SearchOwned
  <2> QED
    BY <2>2, <2>3 DEF Owned
<1>8. Tame(o, q)
  BY <1>6 DEF Tame, Ids, Awaiting, NoneAwaited, NoNewest
<1>9. CASE tab = "imap"
  <2>1. ViewInv(q)
    BY <1>5, <1>6, <1>9 DEF PageInv, ViewInv, ListsFit, DetailFits, AllOf
  <2>2. PageInv(q)
    BY <1>5, <1>6, <1>9, <2>1, Sets
  <2>3. TabLoaded(q)
    BY <1>6, <1>9 DEF TabLoaded
  <2> QED
    BY <1>4, <1>5, <1>6, <1>7, <1>8, <1>9, <2>2, <2>3 DEF Step, Tame, SameView
<1>10. CASE tab # "imap"
  <2>1. PICK u : u = ResetMailDetail(o)
    OBVIOUS
  <2>2. /\ PageInv(u) /\ SameButDetail(o, u) /\ Tame(o, u) /\ NoNewest(u, "detail")
        /\ \A T : Owned(o, T) => Owned(u, T \ {"detail"})
    BY <1>5, <2>1, ResetKeeps
  <2>3. /\ r \in Pages /\ SameButDetail(q, r) /\ r.detail = NoDetail /\ r.active = None
        /\ r.calls = u.calls
    BY <1>3, <1>5, <1>6, <2>1, ResetSame
  <2>4. ViewInv(r)
    BY <1>5, <1>6, <2>3
       DEF PageInv, ViewInv, ListsFit, DetailFits, AllOf, SameButDetail, NoDetail
  <2>5. NoNewest(u, "search")
    BY <1>5, <2>2 DEF Tame
  <2>6. PageInv(r) /\ Tame(u, r)
    <3>1. r.restore = u.restore /\ r.email = u.email
      BY <1>6, <2>2, <2>3 DEF SameButDetail
    <3> QED
      BY <2>2, <2>3, <2>4, <2>5, <3>1, Sets
  <2>7. ASSUME Owned(p, {}) PROVE Owned(r, {})
    <3>1. Owned(u, {"search"})
      <4>1. Owned(o, {"search"}) /\ {"search"} \ {"detail"} = {"search"}
        BY <1>5, <2>7
      <4> QED
        BY <2>2, <4>1
    <3>2. Owned(r, {"search"})
      <4>1. r.lists = u.lists /\ r.email = u.email /\ r.calls = u.calls
        BY <1>6, <2>2, <2>3 DEF SameButDetail
      <4>2. DetailOwned(r)
        BY <2>3 DEF DetailOwned, NoDetail
      <4> QED
        BY <3>1, <4>1, <4>2 DEF Owned, InboxOwned, FolderOwned
    <3>3. SearchOwned(r)
      BY <1>6, <2>3 DEF SearchOwned, SameButDetail
    <3> QED
      BY <3>2, <3>3 DEF Owned
  <2>8. /\ PageInv(r) /\ r.restore = p.restore /\ Ids(r) = Ids(p)
        /\ Awaiting(r) => Awaiting(p)
        /\ NoneAwaited(p) => NoneAwaited(r)
        /\ r.tab = tab /\ r.email = p.email
    BY <1>5, <1>6, <2>2, <2>3, <2>6 DEF Tame, SameView, SameButDetail
  <2>9. CASE p.email = None
    <3>1. TabLoaded(r)
      BY <2>8, <2>9 DEF TabLoaded
    <3> QED
      BY <1>4, <1>10, <2>7, <2>8, <2>9, <3>1 DEF Step
  <2>10. CASE p.email # None
    <3>1. PICK s : s = ShowTab(r)
      OBVIOUS
    <3>2. Free(r) # {} /\ FreeId(r) = FreeId(p)
      <4>1. Free(r) = Free(p)
        BY <2>8 DEF Ids, Free
      <4> QED
        BY <4>1 DEF Free, FreeId
    <3>3. r.email \in Boxes /\ r.tab \in Folders
      BY <1>10, <2>8, <2>10 DEF PageInv, Pages, Tabs
    <3>4. /\ Step(r, s) /\ s.tab = r.tab /\ s.email = r.email /\ TabLoaded(s)
          /\ r.tab \in {"sent", "trash"} => Loads(s, r.tab)
      BY <2>8, <3>1, <3>2, <3>3, ShowTabKeeps
    <3>5. Step(p, s)
      BY <2>7, <2>8, <3>2, <3>4 DEF Step
    <3>6. SwitchTab(p, tab) = s
      BY <1>4, <1>10, <2>10, <3>1
    <3> QED
      BY <2>8, <3>4, <3>5, <3>6
  <2> QED
    BY <2>9, <2>10
<1> QED
  BY <1>9, <1>10

\* What a step keeps that sends nothing, and leaves the spinners alone.
Calm(p, q) ==
    /\ PageInv(q) /\ Tame(p, q) /\ q.email = p.email /\ q.tab = p.tab
    /\ \A T : Owned(p, T) => Owned(q, T)
    /\ TabLoaded(p) => TabLoaded(q)

LEMMA CalmTwice ==
    ASSUME NEW p, NEW o, NEW q, Calm(p, o), Calm(o, q)
    PROVE  Calm(p, q)
BY DEF Calm, Tame

LEMMA AwaitedSearch ==
    ASSUME NEW p, PageInv(p)
    PROVE  \/ NoNewest(p, "search")
           \/ p.search.active /\ p.search.items = {} /\ p.search.status = "loading"
<1>1. ASSUME NEW c \in p.calls, c.current, Ticket(c.kind) = "search"
      PROVE  p.search.active /\ p.search.items = {} /\ p.search.status = "loading"
  <2>1. CallFits(p, c) /\ c.kind \in Kinds
    BY DEF PageInv, CallsInv, Pages, Calls
  <2>2. c.kind = "search"
    BY <1>1, <2>1, TicketIs
  <2> QED
    BY <1>1, <2>1, <2>2 DEF CallFits, SearchAwaited
<1> QED
  BY <1>1 DEF NoNewest

\* Mails come and go, or are marked: no spinner starts or stops.
LEMMA ViewChanges ==
    ASSUME NEW p, PageInv(p), NEW q \in Pages, ViewInv(q),
           q.calls = p.calls, q.restore = p.restore, q.tab = p.tab, q.email = p.email,
           q.active = p.active, q.detail = p.detail,
           q.search.active = p.search.active, q.search.status = p.search.status,
           q.search.items \subseteq p.search.items,
           \A f \in Folders : /\ q.lists[f].status = p.lists[f].status
                              /\ q.lists[f].more = p.lists[f].more
    PROVE  Calm(p, q)
<1>1. \/ NoNewest(p, "search")
      \/ /\ q.email = p.email
         /\ q.search.active /\ q.search.items = {} /\ q.search.status = "loading"
  BY AwaitedSearch
<1>2. PageInv(q) /\ Tame(p, q)
  BY <1>1, Sets
<1>3. ASSUME NEW T, Owned(p, T) PROVE Owned(q, T)
  BY <1>3 DEF Owned, InboxOwned, SearchOwned, DetailOwned, FolderOwned, Folders
<1>4. TabLoaded(p) => TabLoaded(q)
  BY DEF TabLoaded, Folders
<1> QED
  BY <1>2, <1>3, <1>4 DEF Calm

LEMMA EditedKeeps ==
    ASSUME NEW p, PageInv(p)
    PROVE  Calm(p, InboxEdited(p)) /\ SameView(p, InboxEdited(p))
<1>1. PICK q : q = InboxEdited(p)
  OBVIOUS
<1>2. Mapped(p, q, "nothing")
  BY <1>1, InboxEditedIs DEF PageInv, CallsInv
<1>3. PageInv(q) /\ SameView(p, q)
  BY <1>2, MappedKeeps DEF Mapped
<1>4. ASSUME NEW T, Owned(p, T) PROVE Owned(q, T)
  <2>1. Owned(q, T \cup {"nothing"})
    BY <1>2, <1>4, MappedOwned
  <2> QED
    BY <2>1 DEF Owned
<1>5. Tame(p, q) /\ (TabLoaded(p) => TabLoaded(q))
  BY <1>2, <1>3, MappedRest DEF Tame, SameView
<1> QED
  BY <1>1, <1>3, <1>4, <1>5 DEF Calm, SameView

\* A page with another inbox, search and selection.
Viewed(o, n, s, x) ==
    [o EXCEPT !.lists = [o.lists EXCEPT !["inbox"] = n], !.search = s, !.selected = x]

LEMMA InboxChanges ==
    ASSUME NEW o, PageInv(o), NEW n \in Lists, NEW s \in Searches, NEW x \in SUBSET Mails,
           n.status = o.lists["inbox"].status, n.more = o.lists["inbox"].more,
           n.read \subseteq n.items, AllOf(n.items, o.email),
           s.active = o.search.active, s.status = o.search.status,
           s.items \subseteq o.search.items,
           x \subseteq n.items \/ s.active, x \subseteq s.items \/ ~s.active
    PROVE  Calm(o, Viewed(o, n, s, x))
<1>1. /\ o \in Pages /\ o.lists \in [Folders -> Lists] /\ "inbox" \in Folders
  BY DEF PageInv, Pages, Folders
<1>2. PICK l, q : l = [o.lists EXCEPT !["inbox"] = n] /\ q = Viewed(o, n, s, x)
  OBVIOUS
<1>3. /\ l \in [Folders -> Lists] /\ l["inbox"] = n
      /\ \A f \in Folders \ {"inbox"} : l[f] = o.lists[f]
  BY <1>1, <1>2
<1>4. /\ q \in Pages /\ q.lists = l /\ q.search = s /\ q.selected = x
      /\ q.calls = o.calls /\ q.restore = o.restore /\ q.tab = o.tab /\ q.email = o.email
      /\ q.active = o.active /\ q.detail = o.detail /\ q.offers = o.offers
  BY <1>1, <1>2, <1>3 DEF Pages, Viewed
<1>5. ViewInv(q)
  <2>1. ListsFit(q)
    BY <1>3, <1>4 DEF PageInv, ViewInv, ListsFit
  <2>2. DetailFits(q)
    BY <1>4 DEF PageInv, ViewInv, DetailFits
  <2>3. AllOf(q.search.items, q.email)
    BY <1>4 DEF PageInv, ViewInv, AllOf
  <2>4. q.selected \subseteq Shown(q)
    BY <1>3, <1>4 DEF Shown
  <2> QED
    BY <1>4, <2>1, <2>2, <2>3, <2>4 DEF PageInv, ViewInv
<1>6. \A f \in Folders : q.lists[f].status = o.lists[f].status /\ q.lists[f].more = o.lists[f].more
  BY <1>3, <1>4
<1>7. Calm(o, q)
  BY <1>4, <1>5, <1>6, ViewChanges
<1> QED
  BY <1>2, <1>7

LEMMA RemoveKeeps ==
    ASSUME NEW p, PageInv(p), NEW mails \in SUBSET Mails
    PROVE  Calm(p, RemoveFromInbox(p, mails))
<1>1. PICK o : o = InboxEdited(p)
  OBVIOUS
<1>2. PageInv(o) /\ Calm(p, o) /\ o \in Pages
  BY <1>1, EditedKeeps DEF Calm, PageInv
<1>3. PICK n : n = [o.lists["inbox"] EXCEPT
                      !.items = @ \ mails, !.read = @ \ mails,
                      !.total = IF @ > Cardinality(mails) THEN @ - Cardinality(mails) ELSE 0]
  OBVIOUS
<1>4. PICK s : s = [o.search EXCEPT !.items = @ \ mails, !.read = @ \ mails]
  OBVIOUS
<1>5. PICK l : l = [o.lists EXCEPT !["inbox"] = n]
  OBVIOUS
<1>6. /\ o.lists \in [Folders -> Lists] /\ o.search \in Searches /\ o.selected \in SUBSET Mails
      /\ "inbox" \in Folders
  BY <1>2 DEF Pages, Folders
<1>7. /\ n \in Lists /\ n.items = o.lists["inbox"].items \ mails
      /\ n.read = o.lists["inbox"].read \ mails
      /\ n.status = o.lists["inbox"].status /\ n.more = o.lists["inbox"].more
  <2>1. PICK t : t = IF o.lists["inbox"].total > Cardinality(mails)
                     THEN o.lists["inbox"].total - Cardinality(mails) ELSE 0
    OBVIOUS
  <2>2. o.lists["inbox"] \in Lists
    BY <1>6
  <2>3. t \in Nat
    <3>1. Cardinality(mails) \in Nat /\ o.lists["inbox"].total \in Nat
      BY <2>2, MailCount DEF Lists
    <3> QED
      BY <2>1, <3>1
  <2>4. PICK i : i = o.lists["inbox"]
    OBVIOUS
  <2>5. n = [i EXCEPT !.items = i.items \ mails, !.read = i.read \ mails, !.total = t]
    BY <1>3, <2>1, <2>2, <2>4 DEF Lists
  <2>6. n \in Lists /\ n.items = i.items \ mails /\ n.read = i.read \ mails
        /\ n.status = i.status /\ n.more = i.more
    BY <2>2, <2>3, <2>4, <2>5 DEF Lists
  <2> QED
    BY <2>4, <2>6
<1>8. /\ s \in Searches /\ s.items = o.search.items \ mails /\ s.active = o.search.active
      /\ s.status = o.search.status
  BY <1>4, <1>6 DEF Searches
<1>9. /\ l \in [Folders -> Lists] /\ l["inbox"] = n
      /\ \A f \in Folders \ {"inbox"} : l[f] = o.lists[f]
  BY <1>5, <1>6, <1>7
<1>10. PICK v : v = [o EXCEPT !.lists = l, !.search = s]
  OBVIOUS
<1>11. RemoveFromInbox(p, mails) = PruneSelection(v)
  <2>1. v = [o EXCEPT !.lists["inbox"].items = @ \ mails, !.lists["inbox"].read = @ \ mails,
                      !.lists["inbox"].total =
                          IF @ > Cardinality(mails) THEN @ - Cardinality(mails) ELSE 0,
                      !.search.items = @ \ mails, !.search.read = @ \ mails]
    <3>1. [o EXCEPT !.lists["inbox"].items = @ \ mails, !.lists["inbox"].read = @ \ mails,
                    !.lists["inbox"].total =
                        IF @ > Cardinality(mails) THEN @ - Cardinality(mails) ELSE 0]
          = [o EXCEPT !.lists = l]
      BY <1>2, <1>3, <1>5, <1>6 DEF Pages, Lists
    <3> QED
      BY <1>2, <1>4, <1>10, <3>1 DEF Pages
  <2> QED
    BY <1>1, <2>1 DEF RemoveFromInbox
<1>12. PICK x : x = o.selected \cap (IF s.active THEN s.items ELSE n.items)
  OBVIOUS
<1>13. PICK q : q = [o EXCEPT !.lists = l, !.search = s, !.selected = x]
  OBVIOUS
<1>14. PruneSelection(v) = q
  BY <1>2, <1>9, <1>10, <1>12, <1>13 DEF PruneSelection, Shown, Pages
<1>15. x \in SUBSET Mails /\ n.read \subseteq n.items /\ AllOf(n.items, o.email)
  BY <1>2, <1>6, <1>7, <1>12 DEF PageInv, ViewInv, ListsFit, AllOf
<1>16. /\ s.items \subseteq o.search.items
       /\ x \subseteq n.items \/ s.active
       /\ x \subseteq s.items \/ ~s.active
  BY <1>8, <1>12
<1>17. q = Viewed(o, n, s, x)
  BY <1>5, <1>13 DEF Viewed
<1>18. Calm(o, q)
  BY <1>2, <1>7, <1>8, <1>15, <1>16, <1>17, InboxChanges
<1> QED
  BY <1>2, <1>11, <1>14, <1>18, CalmTwice

LEMMA PutBackKeeps ==
    ASSUME NEW p, PageInv(p), NEW offer, offer.read \in SUBSET Mails,
           offer.removed \in SUBSET Mails, AllOf(offer.removed, offer.email),
           offer.read \subseteq offer.removed
    PROVE  Calm(p, PutBackIntoInbox(p, offer))
<1>1. CASE offer.email # p.email
  BY <1>1 DEF PutBackIntoInbox, Calm, Tame
<1>2. CASE offer.email = p.email
  <2>1. PICK o : o = InboxEdited(p)
    OBVIOUS
  <2>2. PageInv(o) /\ Calm(p, o) /\ SameView(p, o) /\ o \in Pages
    BY <2>1, EditedKeeps DEF Calm, PageInv
  <2>3. /\ o.lists \in [Folders -> Lists] /\ o.search \in Searches /\ o.selected \in SUBSET Mails
        /\ "inbox" \in Folders /\ o.lists = p.lists
    BY <2>2 DEF Pages, Folders, SameView
  <2>4. PICK i : i = o.lists["inbox"]
    OBVIOUS
  <2>5. PICK n : n = [i EXCEPT !.read = @ \cup (offer.read \ i.items),
                               !.items = @ \cup offer.removed,
                               !.total = @ + Cardinality(offer.removed)]
    OBVIOUS
  <2>6. PICK t : t = i.total + Cardinality(offer.removed)
    OBVIOUS
  <2>7. i \in Lists /\ t \in Nat /\ i.read \subseteq i.items /\ AllOf(i.items, o.email)
    <3>1. i \in Lists /\ Cardinality(offer.removed) \in Nat
      BY <2>3, <2>4, MailCount
    <3>2. t \in Nat
      BY <2>6, <3>1 DEF Lists
    <3> QED
      BY <2>2, <2>3, <2>4, <3>1, <3>2 DEF PageInv, ViewInv, ListsFit
  <2>8. /\ n \in Lists /\ n.items = i.items \cup offer.removed
        /\ n.read = i.read \cup (offer.read \ i.items)
        /\ n.status = i.status /\ n.more = i.more
    <3>1. n = [i EXCEPT !.read = i.read \cup (offer.read \ i.items),
                        !.items = i.items \cup offer.removed, !.total = t]
      BY <2>5, <2>6, <2>7 DEF Lists
    <3> QED
      BY <2>7, <3>1 DEF Lists
  <2>9. n.read \subseteq n.items /\ AllOf(n.items, o.email)
    <3>1. o.email = offer.email
      BY <1>2, <2>2 DEF SameView
    <3> QED
      BY <2>7, <2>8, <3>1 DEF AllOf
  <2>10. /\ o.selected \subseteq n.items \/ o.search.active
         /\ o.selected \subseteq o.search.items \/ ~o.search.active
    BY <2>2, <2>4, <2>8 DEF PageInv, ViewInv, Shown
  <2>11. Calm(o, Viewed(o, n, o.search, o.selected))
    BY <2>2, <2>3, <2>4, <2>8, <2>9, <2>10, InboxChanges
  <2>12. PutBackIntoInbox(p, offer) = Viewed(o, n, o.search, o.selected)
    <3>1. PutBackIntoInbox(p, offer)
          = [o EXCEPT !.lists["inbox"].read = @ \cup (offer.read \ i.items),
                      !.lists["inbox"].items = @ \cup offer.removed,
                      !.lists["inbox"].total = @ + Cardinality(offer.removed)]
      BY <1>2, <2>1, <2>3, <2>4 DEF PutBackIntoInbox
    <3>2. [o EXCEPT !.lists["inbox"].read = @ \cup (offer.read \ i.items),
                    !.lists["inbox"].items = @ \cup offer.removed,
                    !.lists["inbox"].total = @ + Cardinality(offer.removed)]
          = [o EXCEPT !.lists = [o.lists EXCEPT !["inbox"] = n]]
      BY <2>2, <2>3, <2>4, <2>5, ZenonT(60) DEF Pages, Lists
    <3>3. [o EXCEPT !.lists = [o.lists EXCEPT !["inbox"] = n]]
          = Viewed(o, n, o.search, o.selected)
      BY <2>2 DEF Viewed, Pages
    <3> QED
      BY <3>1, <3>2, <3>3
  <2> QED
    BY <2>2, <2>11, <2>12, CalmTwice
<1> QED
  BY <1>1, <1>2

LEMMA MarkedReadKeeps ==
    ASSUME NEW p, PageInv(p), NEW mails \in SUBSET Mails
    PROVE  Calm(p, MarkedRead(p, mails))
<1>1. PICK o : o = InboxEdited(p)
  OBVIOUS
<1>2. PageInv(o) /\ Calm(p, o) /\ SameView(p, o) /\ o \in Pages
  BY <1>1, EditedKeeps DEF Calm, PageInv
<1>3. /\ o.lists \in [Folders -> Lists] /\ o.search \in Searches /\ o.selected \in SUBSET Mails
      /\ "inbox" \in Folders /\ o.lists = p.lists /\ o.search = p.search
  BY <1>2 DEF Pages, Folders, SameView
<1>4. PICK i : i = o.lists["inbox"]
  OBVIOUS
<1>5. PICK n : n = [i EXCEPT !.read = @ \cup (mails \cap i.items)]
  OBVIOUS
<1>6. PICK s : s = [o.search EXCEPT !.read = @ \cup (mails \cap o.search.items)]
  OBVIOUS
<1>7. i \in Lists /\ i.read \subseteq i.items /\ AllOf(i.items, o.email)
  BY <1>2, <1>3, <1>4 DEF PageInv, ViewInv, ListsFit
<1>8. /\ n \in Lists /\ n.items = i.items /\ n.read \subseteq n.items
      /\ n.status = i.status /\ n.more = i.more
  BY <1>5, <1>7 DEF Lists
<1>9. /\ s \in Searches /\ s.items = o.search.items
      /\ s.active = o.search.active /\ s.status = o.search.status
  BY <1>3, <1>6 DEF Searches
<1>10. /\ o.selected \subseteq n.items \/ s.active
       /\ o.selected \subseteq s.items \/ ~s.active
  BY <1>2, <1>4, <1>8, <1>9 DEF PageInv, ViewInv, Shown
<1>11. Calm(o, Viewed(o, n, s, o.selected))
  BY <1>2, <1>3, <1>4, <1>7, <1>8, <1>9, <1>10, InboxChanges
<1>12. MarkedRead(p, mails) = Viewed(o, n, s, o.selected)
  <2>1. MarkedRead(p, mails)
        = [o EXCEPT !.lists["inbox"].read = @ \cup (mails \cap i.items),
                    !.search.read = @ \cup (mails \cap o.search.items)]
    BY <1>1, <1>3, <1>4 DEF MarkedRead
  <2>2. [o EXCEPT !.lists["inbox"].read = @ \cup (mails \cap i.items),
                  !.search.read = @ \cup (mails \cap o.search.items)]
        = [o EXCEPT !.lists = [o.lists EXCEPT !["inbox"] = n], !.search = s]
    BY <1>2, <1>3, <1>4, <1>5, <1>6 DEF Pages, Lists
  <2>3. [o EXCEPT !.lists = [o.lists EXCEPT !["inbox"] = n], !.search = s]
        = Viewed(o, n, s, o.selected)
    BY <1>2 DEF Viewed, Pages
  <2> QED
    BY <2>1, <2>2, <2>3
<1> QED
  BY <1>2, <1>11, <1>12, CalmTwice

\* What is selected is some of what is shown.
LEMMA SelectionKeeps ==
    ASSUME NEW p, PageInv(p), NEW x \in SUBSET Mails, x \subseteq Shown(p)
    PROVE  Calm(p, [p EXCEPT !.selected = x])
<1>1. PICK q : q = [p EXCEPT !.selected = x]
  OBVIOUS
<1>2. /\ q \in Pages /\ q.calls = p.calls /\ q.restore = p.restore /\ q.tab = p.tab
      /\ q.email = p.email /\ q.active = p.active /\ q.detail = p.detail
      /\ q.search = p.search /\ q.lists = p.lists /\ q.offers = p.offers /\ q.selected = x
  BY <1>1 DEF PageInv, Pages
<1>3. ViewInv(q)
  BY <1>2 DEF PageInv, ViewInv, ListsFit, DetailFits, Shown
<1>4. Calm(p, q)
  BY <1>2, <1>3, ViewChanges
<1> QED
  BY <1>1, <1>4

(***************************************************************************)
(* A call that is over                                                     *)
(***************************************************************************)
Without(p, c) == [p EXCEPT !.calls = @ \ {c}]

\* What a handler finds of call c, which is no longer under way, on page p.
Over(p, c) ==
    /\ PageInv(p) /\ c \in Calls /\ CallFits(p, c) /\ c.id \notin Ids(p)
    /\ c.current => NoNewest(p, Ticket(c.kind)) \/ Ticket(c.kind) = "none"
    /\ Owned(p, {Ticket(c.kind)}) /\ (~c.current => Owned(p, {}))
    /\ c.kind = "refresh" \/ (c.kind = "query" /\ c.opt) => Owned(p, {})
    /\ c.kind = "query" /\ c.current => ~p.lists["inbox"].more
    /\ c.kind = "more" /\ c.current => p.lists["inbox"].status # "loading"
    /\ c.kind \in {"sent", "trash"} /\ c.email # p.email => Owned(p, {})
    /\ c.kind \in {"sent", "trash"} /\ c.opt => p.lists[c.kind].status # "loading" \/ Owned(p, {})
    /\ TabLoaded(p) /\ (c.awaited => NoneAwaited(p))

LEMMA WithoutIs ==
    ASSUME NEW p, PageInv(p), Owned(p, {}), TabLoaded(p), NEW c \in p.calls
    PROVE  LET q == Without(p, c) IN
           /\ Over(q, c) /\ SameView(p, q) /\ Ids(q) = Ids(p) \ {c.id}
           /\ Awaiting(q) => Awaiting(p)
<1>1. PICK q : q = Without(p, c)
  OBVIOUS
<1>2. /\ q \in Pages /\ SameView(p, q) /\ q.calls = p.calls \ {c} /\ c \in Calls
  BY <1>1, WithCalls DEF Without, PageInv, Pages
<1>3. Distinct(p.calls) /\ \A d \in p.calls : CallFits(p, d)
  BY DEF PageInv, CallsInv
<1>4. PageInv(q)
  <2>1. ViewInv(q)
    BY <1>2, SameViewInv DEF PageInv
  <2>2. Distinct(q.calls)
    BY <1>2, <1>3 DEF Distinct
  <2>3. \A d \in q.calls : CallFits(q, d)
    BY <1>2, <1>3
       DEF SameView, CallFits, Resumes, FirstIfSilent, SearchAwaited, DetailAwaited
  <2> QED
    BY <1>2, <2>1, <2>2, <2>3 DEF PageInv, CallsInv
<1>5. CallFits(q, c)
  BY <1>2, <1>3 DEF SameView, CallFits, Resumes, FirstIfSilent, SearchAwaited, DetailAwaited
<1>6. Ids(q) = Ids(p) \ {c.id} /\ (Awaiting(q) => Awaiting(p)) /\ (c.awaited => NoneAwaited(q))
  BY <1>2, <1>3 DEF Ids, Awaiting, NoneAwaited, Distinct
<1>7. c.current => NoNewest(q, Ticket(c.kind)) \/ Ticket(c.kind) = "none"
  BY <1>2, <1>3 DEF NoNewest, Distinct
<1>8. \A k \in {"query", "refresh", "more"} : Ticket(k) = "inbox"
  BY DEF Ticket
<1>9. \A k \in {"search", "sent", "trash"} : Ticket(k) = k
  BY DEF Ticket
<1>10. Ticket(c.kind) = "inbox" \/ InboxOwned(q)
  BY <1>2, <1>8 DEF Owned, InboxOwned, SameView
<1>11. Ticket(c.kind) = "search" \/ SearchOwned(q)
  BY <1>2, <1>9 DEF Owned, SearchOwned, SameView
<1>12. Ticket(c.kind) = "detail" \/ DetailOwned(q)
  BY <1>2 DEF Owned, DetailOwned, SameView
<1>13. \A f \in {"sent", "trash"} : Ticket(c.kind) = f \/ FolderOwned(q, f)
  BY <1>2, <1>9 DEF Owned, FolderOwned, SameView
<1>14. Owned(q, {Ticket(c.kind)})
  BY <1>10, <1>11, <1>12, <1>13 DEF Owned
<1>15. Ticket(c.kind) = "none" => Owned(q, {})
  BY <1>10, <1>11, <1>12, <1>13 DEF Owned
<1>16. ~c.current => Owned(q, {})
  <2> SUFFICES ASSUME ~c.current PROVE Owned(q, {})
    OBVIOUS
  <2>1. InboxOwned(q)
    BY <1>2 DEF Owned, InboxOwned, SameView
  <2>2. SearchOwned(q) /\ DetailOwned(q)
    BY <1>2 DEF Owned, SearchOwned, DetailOwned, SameView
  <2>3. \A f \in {"sent", "trash"} : FolderOwned(q, f)
    BY <1>2 DEF Owned, FolderOwned, SameView
  <2> QED
    BY <2>1, <2>2, <2>3 DEF Owned
<1>17. c.kind = "refresh" \/ (c.kind = "query" /\ c.opt) => Owned(q, {})
  <2> SUFFICES ASSUME c.kind = "refresh" \/ (c.kind = "query" /\ c.opt) PROVE Owned(q, {})
    OBVIOUS
  <2>1. InboxOwned(q)
    BY <1>2 DEF Owned, InboxOwned, SameView
  <2>2. Ticket(c.kind) = "inbox"
    BY <1>8
  <2> QED
    BY <1>14, <2>1, <2>2 DEF Owned
<1>18. \A d \in p.calls : c.current /\ d.current /\ Ticket(c.kind) # "none" /\ Ticket(d.kind) = Ticket(c.kind)
         => d = c
  BY <1>3 DEF Distinct
<1>19. c.kind = "query" /\ c.current => ~q.lists["inbox"].more
  BY <1>2, <1>8, <1>18 DEF Owned, InboxOwned, SameView
<1>20. c.kind = "more" /\ c.current => q.lists["inbox"].status # "loading"
  BY <1>2, <1>8, <1>18 DEF Owned, InboxOwned, SameView
<1>21. c.kind \in {"sent", "trash"} /\ c.email # q.email => Owned(q, {})
  <2> SUFFICES ASSUME c.kind \in {"sent", "trash"}, c.email # q.email PROVE Owned(q, {})
    OBVIOUS
  <2>1. \A f \in {"sent", "trash"} : FolderOwned(q, f)
    BY <1>2 DEF Owned, FolderOwned, SameView
  <2>2. Ticket(c.kind) = c.kind
    BY <1>9
  <2> QED
    BY <1>14, <2>1, <2>2 DEF Owned
<1>22. c.kind \in {"sent", "trash"} /\ c.opt =>
         q.lists[c.kind].status # "loading" \/ Owned(q, {})
  <2> SUFFICES ASSUME c.kind \in {"sent", "trash"}, c.opt, q.lists[c.kind].status = "loading"
               PROVE  Owned(q, {})
    OBVIOUS
  <2>1. PICK f \in {"sent", "trash"} : f = c.kind
    OBVIOUS
  <2>2. FolderOwned(p, f) /\ p.lists[f].status = "loading"
    BY <1>2, <2>1 DEF Owned, SameView
  <2>3. PICK d \in p.calls : d.kind = f /\ d.email = p.email /\ d.current /\ ~d.opt
    BY <2>2 DEF FolderOwned
  <2>4. d # c /\ Ticket(d.kind) = Ticket(c.kind) /\ Ticket(c.kind) # "none"
    BY <1>9, <2>1, <2>3
  <2>5. ~c.current
    BY <1>18, <2>3, <2>4
  <2> QED
    BY <1>16, <2>5
<1>23. TabLoaded(q)
  BY <1>2 DEF TabLoaded, SameView
<1>24. Over(q, c)
  BY <1>2, <1>4, <1>5, <1>6, <1>7, <1>14, <1>16, <1>17, <1>19, <1>20, <1>21, <1>22, <1>23 DEF Over
<1> QED
  BY <1>1, <1>2, <1>6, <1>24

(***************************************************************************)
(* What the replies set off                                                *)
(***************************************************************************)
\* A reply is dealt with: every spinner has again who stops it.
Served(p, q) ==
    /\ PageInv(q) /\ q.restore = p.restore
    /\ Ids(q) \subseteq Ids(p) \cup {FreeId(p)}
    /\ Awaiting(q) => Awaiting(p)
    /\ NoneAwaited(p) => NoneAwaited(q)
    /\ Owned(q, {}) /\ TabLoaded(q)

LEMMA CalmServes ==
    ASSUME NEW p, NEW q, Calm(p, q), Owned(p, {}), TabLoaded(p)
    PROVE  Served(p, q)
BY DEF Calm, Tame, Served

LEMMA NothingServes ==
    ASSUME NEW p, PageInv(p), Owned(p, {}), TabLoaded(p)
    PROVE  Served(p, p)
BY DEF Served

LEMMA ListedIs ==
    ASSUME NEW list \in Lists, NEW c \in Calls, Sound(c), NEW kept \in SUBSET Mails
    PROVE  LET n == Listed(list, c, kept) IN
           /\ n \in Lists /\ n.items = c.got \cup kept /\ n.read \subseteq n.items
           /\ n.status = list.status /\ n.more = list.more
<1>1. /\ c.got \in SUBSET Mails /\ c.read \in SUBSET Mails /\ c.whole \in SUBSET Mails
      /\ c.read \subseteq c.got
  BY DEF Calls, Sound
<1>2. PICK t : t = Cardinality(c.whole)
  OBVIOUS
<1>3. t \in Nat
  BY <1>1, <1>2, MailCount
<1>4. PICK n : n = Listed(list, c, kept)
  OBVIOUS
<1>5. n = [list EXCEPT !.items = c.got \cup kept,
                       !.read = c.read \cup (list.read \cap (kept \ c.got)), !.total = t]
  BY <1>2, <1>4 DEF Listed, Lists
<1> QED
  BY <1>1, <1>3, <1>4, <1>5 DEF Lists

LEMMA AppendedIs ==
    ASSUME NEW list \in Lists, list.read \subseteq list.items, NEW c \in Calls, Sound(c)
    PROVE  LET n == Appended(list, c) IN
           /\ n \in Lists /\ n.items = list.items \cup c.got /\ n.read \subseteq n.items
           /\ n.status = list.status /\ n.more = list.more
<1>1. /\ c.got \in SUBSET Mails /\ c.read \in SUBSET Mails /\ c.whole \in SUBSET Mails
      /\ c.read \subseteq c.got
  BY DEF Calls, Sound
<1>2. PICK t : t = Cardinality(c.whole)
  OBVIOUS
<1>3. t \in Nat
  BY <1>1, <1>2, MailCount
<1>4. PICK n : n = Appended(list, c)
  OBVIOUS
<1>5. n = [list EXCEPT !.items = list.items \cup c.got,
                       !.read = list.read \cup (c.read \ list.items), !.total = t]
  BY <1>2, <1>4 DEF Appended, Lists
<1> QED
  BY <1>1, <1>3, <1>4, <1>5 DEF Lists

LEMMA RefreshServes ==
    ASSUME NEW p, NEW c, Over(p, c), c.kind = "refresh"
    PROVE  Served(p, RefreshReply(p, c))
<1>1. /\ PageInv(p) /\ c \in Calls /\ Sound(c) /\ Owned(p, {}) /\ TabLoaded(p)
  BY DEF Over, CallFits
<1>2. CASE ~Fresh(p, c) \/ c.edited \/ c.reply # "ok" \/ p.search.active
  BY <1>1, <1>2, NothingServes DEF RefreshReply
<1>3. CASE ~(~Fresh(p, c) \/ c.edited \/ c.reply # "ok" \/ p.search.active)
  <2>1. PICK i : i = p.lists["inbox"]
    OBVIOUS
  <2>2. PICK kept : kept = OlderThanWindow(i.items, c.got, c.limit, Cardinality(c.whole))
    OBVIOUS
  <2>3. PICK n : n = Listed(i, c, kept)
    OBVIOUS
  <2>4. PICK v : v = [p EXCEPT !.lists["inbox"] = n]
    OBVIOUS
  <2>5. PICK x : x = p.selected \cap n.items
    OBVIOUS
  <2>6. /\ p \in Pages /\ i \in Lists /\ AllOf(i.items, p.email) /\ p.search \in Searches
        /\ p.selected \in SUBSET Mails /\ ~p.search.active /\ "inbox" \in Folders
    BY <1>1, <1>3, <2>1 DEF PageInv, ViewInv, ListsFit, Pages, Folders
  <2>7. kept \subseteq i.items /\ kept \in SUBSET Mails
    BY <2>2, <2>6 DEF OlderThanWindow, Lists
  <2>8. /\ n \in Lists /\ n.items = c.got \cup kept /\ n.read \subseteq n.items
        /\ n.status = i.status /\ n.more = i.more
    BY <1>1, <2>3, <2>6, <2>7, ListedIs
  <2>9. AllOf(n.items, p.email)
    BY <1>1, <1>3, <2>6, <2>7, <2>8 DEF AllOf, Sound, Fresh
  <2>10. Calm(p, Viewed(p, n, p.search, x))
    BY <1>1, <2>1, <2>5, <2>6, <2>8, <2>9, InboxChanges
  <2>11. PruneSelection(v) = Viewed(p, n, p.search, x)
    <3>1. v \in Pages /\ v.search = p.search /\ v.selected = p.selected /\ v.lists["inbox"] = n
      BY <2>4, <2>6, <2>8 DEF Pages
    <3>2. PruneSelection(v) = [v EXCEPT !.selected = x]
      BY <2>5, <2>6, <3>1 DEF PruneSelection, Shown
    <3>3. [v EXCEPT !.selected = x] = Viewed(p, n, p.search, x)
      BY <2>4, <2>6, <2>8 DEF Viewed, Pages
    <3> QED
      BY <3>2, <3>3
  <2>12. RefreshReply(p, c) = PruneSelection(v)
    BY <1>3, <2>1, <2>2, <2>3, <2>4 DEF RefreshReply
  <2> QED
    BY <1>1, <2>10, <2>11, <2>12, CalmServes
<1> QED
  BY <1>2, <1>3

LEMMA MarkReadServes ==
    ASSUME NEW p, NEW c, Over(p, c), c.kind = "markRead"
    PROVE  Served(p, MarkReadReply(p, c))
<1>1. /\ PageInv(p) /\ c \in Calls /\ TabLoaded(p) /\ c.mails \in SUBSET Mails
  BY DEF Over, Calls
<1>2. Owned(p, {})
  <2>1. Ticket(c.kind) = "none"
    BY DEF Ticket
  <2> QED
    BY <2>1 DEF Over, Owned
<1>3. CASE c.reply = "ok" /\ c.email = p.email
  <2>1. PICK o : o = MarkedRead(p, c.mails)
    OBVIOUS
  <2>2. Calm(p, o) /\ PageInv(o)
    BY <1>1, <2>1, MarkedReadKeeps DEF Calm
  <2>3. Calm(o, [o EXCEPT !.selected = {}])
    BY <2>2, SelectionKeeps
  <2>4. MarkReadReply(p, c) = [o EXCEPT !.selected = {}]
    BY <1>3, <2>1 DEF MarkReadReply
  <2> QED
    BY <1>1, <1>2, <2>2, <2>3, <2>4, CalmTwice, CalmServes
<1>4. CASE ~(c.reply = "ok" /\ c.email = p.email)
  BY <1>1, <1>2, <1>4, NothingServes DEF MarkReadReply
<1> QED
  BY <1>3, <1>4

LEMMA UndoServes ==
    ASSUME NEW p, NEW c, Over(p, c), c.kind = "undo"
    PROVE  Served(p, UndoReply(p, c))
<1>1. /\ PageInv(p) /\ c \in Calls /\ TabLoaded(p) /\ Sound(c)
  BY DEF Over, CallFits
<1>2. Owned(p, {})
  <2>1. Ticket(c.kind) = "none"
    BY DEF Ticket
  <2> QED
    BY <2>1 DEF Over, Owned
<1>3. CASE c.reply = "ok"
  <2>1. PICK o : o = [email |-> c.email, removed |-> c.got, read |-> c.read]
    OBVIOUS
  <2>2. /\ o.read \in SUBSET Mails /\ o.removed \in SUBSET Mails
        /\ AllOf(o.removed, o.email) /\ o.read \subseteq o.removed
    BY <1>1, <2>1 DEF Sound, Calls
  <2>3. Calm(p, PutBackIntoInbox(p, o))
    BY <1>1, <2>2, PutBackKeeps
  <2>4. UndoReply(p, c) = PutBackIntoInbox(p, o)
    BY <1>3, <2>1 DEF UndoReply
  <2> QED
    BY <1>1, <1>2, <2>3, <2>4, CalmServes
<1>4. CASE c.reply # "ok"
  BY <1>1, <1>2, <1>4, NothingServes DEF UndoReply
<1> QED
  BY <1>3, <1>4

\* What an undo may bring back is of one mailbox.
LEMMA OffersKeep ==
    ASSUME NEW p, PageInv(p), NEW O \in SUBSET Offers,
           \A o \in O : AllOf(o.removed, o.email) /\ o.read \subseteq o.removed
    PROVE  Calm(p, [p EXCEPT !.offers = O])
<1>1. PICK q : q = [p EXCEPT !.offers = O]
  OBVIOUS
<1>2. /\ q \in Pages /\ q.calls = p.calls /\ q.restore = p.restore /\ q.tab = p.tab
      /\ q.email = p.email /\ q.active = p.active /\ q.detail = p.detail
      /\ q.search = p.search /\ q.lists = p.lists /\ q.offers = O /\ q.selected = p.selected
  BY <1>1 DEF PageInv, Pages
<1>3. ViewInv(q)
  BY <1>2 DEF PageInv, ViewInv, ListsFit, DetailFits, Shown
<1>4. Calm(p, q)
  BY <1>2, <1>3, ViewChanges
<1> QED
  BY <1>1, <1>4

LEMMA DeleteServes ==
    ASSUME NEW p, NEW c, Over(p, c), c.kind \in {"delete", "batchDelete"}
    PROVE  Served(p, DeleteReply(p, c))
<1>1. /\ PageInv(p) /\ c \in Calls /\ TabLoaded(p) /\ Sound(c) /\ c.mails \in SUBSET Mails
      /\ c.email \in Boxes
  BY DEF Over, CallFits, Calls
<1>2. Owned(p, {})
  <2>1. Ticket(c.kind) = "none"
    BY DEF Ticket
  <2> QED
    BY <2>1 DEF Over, Owned
<1>3. PICK listed : listed = p.lists["inbox"].items \cup p.search.items
  OBVIOUS
<1>4. PICK removed : removed = IF c.kind = "delete" THEN c.mails \cap listed ELSE c.got
  OBVIOUS
<1>5. PICK read : read = IF c.kind = "delete"
                         THEN removed \cap (p.lists["inbox"].read \cup
                                            (p.search.read \ p.lists["inbox"].items))
                         ELSE c.read
  OBVIOUS
<1>6. PICK single : single = (c.kind = "delete") /\ single \in BOOLEAN
  OBVIOUS
<1>7. PICK offer : offer = [email |-> c.email, mails |-> c.mails, removed |-> removed,
                            read |-> read, single |-> single]
  OBVIOUS
<1>8. PICK o : o = RemoveFromInbox(p, c.mails)
  OBVIOUS
<1>9. PICK q : q = ResetMailDetail(o)
  OBVIOUS
<1>10. PICK r : r = [q EXCEPT !.offers = q.offers \cup {offer}]
  OBVIOUS
<1>11. DeleteReply(p, c) = IF c.reply # "ok" \/ c.email # p.email THEN p
                           ELSE IF single /\ removed = {} THEN q ELSE r
  BY <1>3, <1>4, <1>5, <1>6, <1>7, <1>8, <1>9, <1>10 DEF DeleteReply
<1>12. CASE c.reply # "ok" \/ c.email # p.email
  <2>1. DeleteReply(p, c) = p
    BY <1>11, <1>12
  <2> QED
    BY <1>1, <1>2, <2>1, NothingServes
<1>13. CASE ~(c.reply # "ok" \/ c.email # p.email)
  <2>1. DeleteReply(p, c) = q \/ DeleteReply(p, c) = r
    BY <1>11, <1>13
  <2>2. Calm(p, o) /\ PageInv(o) /\ Owned(o, {}) /\ TabLoaded(o)
    BY <1>1, <1>2, <1>8, RemoveKeeps DEF Calm
  <2>3. /\ PageInv(q) /\ SameButDetail(o, q) /\ Tame(o, q)
         /\ Owned(q, {} \ {"detail"}) /\ TabLoaded(q)
    BY <1>9, <2>2, ResetKeeps
  <2>4. Owned(q, {})
    <3>1. {} \ {"detail"} = {}
      OBVIOUS
    <3> QED
      BY <2>3, <3>1
  <2>5. Served(p, q)
    BY <2>2, <2>3, <2>4 DEF Calm, Tame, Served
  <2>6. Calm(q, [q EXCEPT !.offers = q.offers \cup {offer}])
    <3>1. listed \in SUBSET Mails /\ AllOf(listed, p.email)
      <4>1. p \in Pages /\ ViewInv(p) /\ "inbox" \in Folders
        BY <1>1 DEF PageInv, Folders
      <4> QED
        BY <1>3, <4>1 DEF ViewInv, ListsFit, AllOf, Pages, Lists, Searches
    <3>2. /\ removed \in SUBSET Mails /\ read \subseteq removed /\ AllOf(removed, c.email)
      <4>1. CASE c.kind = "delete"
        BY <1>4, <1>5, <1>13, <3>1, <4>1 DEF AllOf
      <4>2. CASE c.kind # "delete"
        BY <1>1, <1>4, <1>5, <4>2 DEF Sound, Calls
      <4> QED
        BY <4>1, <4>2
    <3>3. offer \in Offers /\ AllOf(offer.removed, offer.email) /\ offer.read \subseteq offer.removed
      BY <1>1, <1>6, <1>7, <3>2 DEF Offers
    <3>4. PICK O : O = q.offers \cup {offer}
      OBVIOUS
    <3>5. O \in SUBSET Offers
          /\ \A x \in O : AllOf(x.removed, x.email) /\ x.read \subseteq x.removed
      BY <2>3, <3>3, <3>4 DEF PageInv, ViewInv, Pages
    <3> QED
      BY <2>3, <3>4, <3>5, OffersKeep
  <2>7. Served(p, r)
    BY <1>10, <2>5, <2>6 DEF Calm, Tame, Served
  <2> QED
    BY <1>10, <2>1, <2>5, <2>7
<1> QED
  BY <1>12, <1>13

LEMMA SearchServes ==
    ASSUME NEW p, NEW c, Over(p, c), c.kind = "search", c.reply # "none"
    PROVE  Served(p, SearchReply(p, c))
<1>1. /\ PageInv(p) /\ p \in Pages /\ c \in Calls /\ TabLoaded(p) /\ Sound(c)
      /\ c.reply \in {"ok", "refused", "lost"} /\ c.current \in BOOLEAN
      /\ Owned(p, {"search"}) /\ Ticket(c.kind) = "search"
  <2>1. Ticket(c.kind) = "search"
    BY DEF Ticket
  <2> QED
    BY <2>1 DEF Over, CallFits, Calls, PageInv
<1>2. CASE ~c.current
  <2>1. Owned(p, {}) /\ SearchReply(p, c) = p
    BY <1>1, <1>2 DEF Over, SearchReply, Fresh
  <2> QED
    BY <1>1, <2>1, NothingServes
<1>3. CASE c.current
  <2>1. /\ c.email = p.email /\ p.search.active /\ p.search.items = {} /\ p.search.status = "loading"
    BY <1>3 DEF Over, CallFits, SearchAwaited
  <2>2. NoNewest(p, "search")
    BY <1>1, <1>3 DEF Over
  <2>3. PICK s : s = IF c.reply = "ok"
                     THEN [p.search EXCEPT !.status = "ready", !.items = c.got, !.read = c.read]
                     ELSE [p.search EXCEPT !.status = "error"]
    OBVIOUS
  <2>4. PICK q : q = [p EXCEPT !.search = s]
    OBVIOUS
  <2>5. SearchReply(p, c) = q
    <3>1. CASE c.reply = "ok"
      BY <1>1, <1>3, <2>1, <2>3, <2>4, <3>1 DEF SearchReply, Fresh, Pages
    <3>2. CASE c.reply # "ok"
      BY <1>1, <1>3, <2>1, <2>3, <2>4, <3>2 DEF SearchReply, Fresh, Pages
    <3> QED
      BY <3>1, <3>2
  <2>6. s \in Searches /\ s.active /\ s.status # "loading" /\ AllOf(s.items, p.email)
    <3>1. p.search \in Searches /\ c.got \in SUBSET Mails /\ c.read \in SUBSET Mails
          /\ AllOf(c.got, p.email)
      BY <1>1, <2>1 DEF Pages, Calls, Sound
    <3> QED
      BY <2>1, <2>3, <3>1 DEF Searches, Statuses, AllOf
  <2>7. /\ q \in Pages /\ q.calls = p.calls /\ q.restore = p.restore /\ q.tab = p.tab
        /\ q.email = p.email /\ q.active = p.active /\ q.detail = p.detail
        /\ q.search = s /\ q.lists = p.lists /\ q.offers = p.offers /\ q.selected = p.selected
    BY <1>1, <2>4, <2>6 DEF Pages
  <2>8. ViewInv(q)
    <3>1. q.selected \subseteq Shown(q)
      BY <1>1, <2>1, <2>7 DEF PageInv, ViewInv, Shown
    <3> QED
      BY <1>1, <2>6, <2>7, <3>1 DEF PageInv, ViewInv, ListsFit, DetailFits
  <2>9. PageInv(q) /\ Tame(p, q)
    BY <1>1, <2>2, <2>7, <2>8, Sets
  <2>10. Owned(q, {})
    BY <1>1, <2>6, <2>7 DEF Owned, InboxOwned, SearchOwned, DetailOwned, FolderOwned
  <2>11. TabLoaded(q)
    BY <1>1, <2>7 DEF TabLoaded
  <2> QED
    BY <2>5, <2>9, <2>10, <2>11 DEF Served, Tame
<1> QED
  BY <1>1, <1>2, <1>3

\* One list changes, and who stops its spinners is to be seen to.
ListChanged(p, f, n) == [p EXCEPT !.lists = [p.lists EXCEPT ![f] = n]]

LEMMA ListChanges ==
    ASSUME NEW p, PageInv(p), NEW f \in Folders, NEW n \in Lists, n.read \subseteq n.items,
           AllOf(n.items, p.email), f = "inbox" => p.selected \subseteq n.items \/ p.search.active
    PROVE  LET q == ListChanged(p, f, n) IN
           /\ PageInv(q) /\ Tame(p, q) /\ q.email = p.email /\ q.tab = p.tab
           /\ q.search = p.search /\ q.detail = p.detail /\ q.calls = p.calls
           /\ q.lists[f] = n /\ \A g \in Folders \ {f} : q.lists[g] = p.lists[g]
           /\ \A T : Owned(p, T) => Owned(q, T \cup {f})
<1>1. PICK l, q : l = [p.lists EXCEPT ![f] = n] /\ q = ListChanged(p, f, n)
  OBVIOUS
<1>2. p \in Pages /\ p.lists \in [Folders -> Lists]
  BY DEF PageInv, Pages
<1>3. /\ l \in [Folders -> Lists] /\ l[f] = n
      /\ \A g \in Folders \ {f} : l[g] = p.lists[g]
  BY <1>1, <1>2
<1>4. /\ q \in Pages /\ q.calls = p.calls /\ q.restore = p.restore /\ q.tab = p.tab
      /\ q.email = p.email /\ q.active = p.active /\ q.detail = p.detail
      /\ q.search = p.search /\ q.lists = l /\ q.offers = p.offers /\ q.selected = p.selected
  BY <1>1, <1>2, <1>3 DEF Pages, ListChanged
<1>5. ViewInv(q)
  <2>1. ListsFit(q)
    BY <1>3, <1>4 DEF PageInv, ViewInv, ListsFit
  <2>2. DetailFits(q)
    BY <1>4 DEF PageInv, ViewInv, DetailFits
  <2>3. q.selected \subseteq Shown(q)
    <3>1. f # "inbox" => q.lists["inbox"] = p.lists["inbox"]
      BY <1>3, <1>4 DEF Folders
    <3> QED
      BY <1>3, <1>4, <3>1 DEF PageInv, ViewInv, Shown
  <2> QED
    BY <1>4, <2>1, <2>2, <2>3 DEF PageInv, ViewInv
<1>6. PageInv(q) /\ Tame(p, q)
  BY <1>4, <1>5, Sets
<1>7. ASSUME NEW T, Owned(p, T) PROVE Owned(q, T \cup {f})
  <2>1. \A g \in Folders \ {f} : q.lists[g] = p.lists[g]
    BY <1>3, <1>4
  <2>2. "inbox" \in T \cup {f} \/ InboxOwned(q)
    BY <1>4, <1>7, <2>1 DEF Owned, InboxOwned, Folders
  <2>3. "search" \in T \cup {f} \/ SearchOwned(q)
    BY <1>4, <1>7 DEF Owned, SearchOwned
  <2>4. "detail" \in T \cup {f} \/ DetailOwned(q)
    BY <1>4, <1>7 DEF Owned, DetailOwned
  <2>5. \A g \in {"sent", "trash"} \ (T \cup {f}) : FolderOwned(q, g)
    BY <1>4, <1>7, <2>1 DEF Owned, FolderOwned, Folders
  <2> QED
    BY <2>2, <2>3, <2>4, <2>5 DEF Owned
<1> QED
  BY <1>1, <1>3, <1>4, <1>6, <1>7

LEMMA MoreServes ==
    ASSUME NEW p, NEW c, Over(p, c), c.kind = "more"
    PROVE  Served(p, MoreReply(p, c))
<1>1. /\ PageInv(p) /\ p \in Pages /\ c \in Calls /\ TabLoaded(p) /\ Sound(c)
      /\ Owned(p, {"inbox"}) /\ c.current \in BOOLEAN
  <2>1. Ticket(c.kind) = "inbox"
    BY DEF Ticket
  <2> QED
    BY <2>1 DEF Over, CallFits, Calls, PageInv
<1>2. CASE ~c.current
  <2>1. Owned(p, {}) /\ MoreReply(p, c) = p
    BY <1>2 DEF Over, MoreReply
  <2> QED
    BY <1>1, <2>1, NothingServes
<1>3. CASE c.current
  <2>1. PICK i : i = p.lists["inbox"]
    OBVIOUS
  <2>2. /\ i \in Lists /\ i.read \subseteq i.items /\ AllOf(i.items, p.email)
        /\ i.status # "loading" /\ "inbox" \in Folders
        /\ p.selected \subseteq i.items \/ p.search.active
    BY <1>1, <1>3, <2>1 DEF Over, PageInv, ViewInv, ListsFit, Pages, Folders, Shown
  <2>3. PICK m : m = IF c.email = p.email /\ c.reply = "ok" THEN Appended(i, c) ELSE i
    OBVIOUS
  <2>4. /\ m \in Lists /\ m.read \subseteq m.items /\ AllOf(m.items, p.email)
        /\ m.status = i.status /\ i.items \subseteq m.items
    <3>1. CASE c.email = p.email /\ c.reply = "ok"
      <4>1. /\ m \in Lists /\ m.items = i.items \cup c.got /\ m.read \subseteq m.items
            /\ m.status = i.status
        BY <1>1, <2>2, <2>3, <3>1, AppendedIs
      <4> QED
        BY <1>1, <2>2, <3>1, <4>1 DEF AllOf, Sound
    <3>2. CASE ~(c.email = p.email /\ c.reply = "ok")
      BY <2>2, <2>3, <3>2
    <3> QED
      BY <3>1, <3>2
  <2>5. PICK n : n = [m EXCEPT !.more = FALSE]
    OBVIOUS
  <2>6. /\ n \in Lists /\ n.read = m.read /\ n.items = m.items /\ n.status = m.status /\ ~n.more
    BY <2>4, <2>5 DEF Lists
  <2>7. PICK q : q = ListChanged(p, "inbox", n)
    OBVIOUS
  <2>8. MoreReply(p, c) = q
    BY <1>1, <1>3, <2>1, <2>3, <2>5, <2>7 DEF MoreReply, ListChanged, Pages
  <2>9. /\ PageInv(q) /\ Tame(p, q) /\ q.email = p.email /\ q.tab = p.tab
        /\ q.lists["inbox"] = n /\ \A g \in Folders \ {"inbox"} : q.lists[g] = p.lists[g]
        /\ Owned(q, {"inbox"} \cup {"inbox"})
    <3>1. /\ n.read \subseteq n.items /\ AllOf(n.items, p.email)
          /\ p.selected \subseteq n.items \/ p.search.active
      BY <2>2, <2>4, <2>6
    <3> QED
      BY <1>1, <2>2, <2>6, <2>7, <3>1, ListChanges
  <2>10. InboxOwned(q)
    BY <2>2, <2>4, <2>6, <2>9 DEF InboxOwned
  <2>11. Owned(q, {})
    BY <2>9, <2>10 DEF Owned
  <2>12. TabLoaded(q)
    BY <1>1, <2>9 DEF TabLoaded, Folders
  <2> QED
    BY <2>8, <2>9, <2>11, <2>12 DEF Served, Tame
<1> QED
  BY <1>1, <1>2, <1>3

LEMMA FolderServes ==
    ASSUME NEW p, NEW c, Over(p, c), c.kind \in {"sent", "trash"}, c.reply # "none"
    PROVE  Served(p, FolderReply(p, c))
<1>1. PICK f : f = c.kind
  OBVIOUS
<1>2. /\ PageInv(p) /\ p \in Pages /\ c \in Calls /\ TabLoaded(p) /\ Sound(c)
      /\ Owned(p, {f}) /\ c.current \in BOOLEAN /\ c.opt \in BOOLEAN
      /\ c.reply \in {"ok", "refused", "lost"}
      /\ f \in {"sent", "trash"} /\ f \in Folders
  <2>1. Ticket(c.kind) = f
    BY <1>1 DEF Ticket
  <2> QED
    BY <1>1, <2>1 DEF Over, CallFits, Calls, PageInv, Folders
<1>3. PICK i : i = p.lists[f]
  OBVIOUS
<1>4. i \in Lists /\ i.read \subseteq i.items /\ AllOf(i.items, p.email)
  BY <1>2, <1>3 DEF PageInv, ViewInv, ListsFit, Pages
<1>5. PICK m : m = IF c.opt THEN Appended(i, c) ELSE Listed(i, c, {})
  OBVIOUS
<1>6. PICK ready : ready = [m EXCEPT !.more = FALSE, !.status = "ready"]
  OBVIOUS
<1>7. PICK failed : failed = [i EXCEPT !.more = FALSE, !.status = IF c.opt THEN i.status ELSE "error"]
  OBVIOUS
<1>8. FolderReply(p, c) =
        CASE Fresh(p, c) /\ c.reply = "ok" -> ListChanged(p, f, ready)
          [] c.reply = "refused" /\ Fresh(p, c) -> ListChanged(p, f, failed)
          [] c.reply = "lost" /\ c.current -> ListChanged(p, f, failed)
          [] OTHER -> p
  <2>1. /\ ListChanged(p, f, ready) = [p EXCEPT !.lists[f] = ready]
        /\ ListChanged(p, f, failed) = [p EXCEPT !.lists[f] = failed]
    BY <1>2 DEF ListChanged, Pages
  <2> QED
    BY <1>1, <1>3, <1>5, <1>6, <1>7, <2>1 DEF FolderReply
<1>9. ASSUME NEW n \in Lists, n.read \subseteq n.items, AllOf(n.items, p.email), ~n.more,
             n.status # "loading", n.status = "idle" => i.status = "idle"
      PROVE  Served(p, ListChanged(p, f, n))
  <2>1. PICK q : q = ListChanged(p, f, n)
    OBVIOUS
  <2>2. /\ PageInv(q) /\ Tame(p, q) /\ q.email = p.email /\ q.tab = p.tab
        /\ q.lists[f] = n /\ \A g \in Folders \ {f} : q.lists[g] = p.lists[g]
        /\ Owned(q, {f} \cup {f})
    <3>1. f # "inbox"
      BY <1>2
    <3> QED
      BY <1>2, <1>9, <2>1, <3>1, ListChanges
  <2>3. FolderOwned(q, f)
    BY <1>9, <2>2 DEF FolderOwned
  <2>4. Owned(q, {})
    BY <1>2, <2>2, <2>3 DEF Owned
  <2>5. TabLoaded(q)
    BY <1>2, <1>3, <1>9, <2>2 DEF TabLoaded, Folders
  <2> QED
    BY <2>1, <2>2, <2>4, <2>5 DEF Served, Tame
<1>10. CASE Fresh(p, c) /\ c.reply = "ok"
  <2>1. m \in Lists /\ m.read \subseteq m.items /\ AllOf(m.items, p.email)
    <3>1. c.email = p.email /\ AllOf(c.got, p.email)
      BY <1>2, <1>10 DEF Fresh, Sound
    <3>2. CASE c.opt
      <4>1. m \in Lists /\ m.items = i.items \cup c.got /\ m.read \subseteq m.items
        BY <1>2, <1>4, <1>5, <3>2, AppendedIs
      <4> QED
        BY <1>4, <3>1, <4>1 DEF AllOf
    <3>3. CASE ~c.opt
      <4>1. m \in Lists /\ m.items = c.got \cup {} /\ m.read \subseteq m.items
        BY <1>2, <1>4, <1>5, <3>3, ListedIs
      <4> QED
        BY <3>1, <4>1 DEF AllOf
    <3> QED
      BY <1>2, <3>2, <3>3
  <2>2. /\ ready \in Lists /\ ready.read = m.read /\ ready.items = m.items /\ ~ready.more
        /\ ready.status = "ready"
    BY <1>6, <2>1 DEF Lists, Statuses
  <2>3. Served(p, ListChanged(p, f, ready))
    BY <1>9, <2>1, <2>2
  <2> QED
    BY <1>8, <1>10, <2>3
<1>11. CASE c.reply # "ok" /\ c.current /\ (c.reply = "refused" => Fresh(p, c))
              /\ (c.opt => i.status # "loading")
  <2>1. /\ failed \in Lists /\ failed.read = i.read /\ failed.items = i.items /\ ~failed.more
        /\ failed.status = IF c.opt THEN i.status ELSE "error"
    BY <1>2, <1>4, <1>7 DEF Lists, Statuses
  <2>2. Served(p, ListChanged(p, f, failed))
    BY <1>2, <1>4, <1>9, <1>11, <2>1
  <2> QED
    BY <1>2, <1>8, <1>11, <2>2
<1>12. CASE c.reply # "ok" /\ c.current /\ (c.reply = "refused" => Fresh(p, c))
              /\ c.opt /\ i.status = "loading"
  <2>1. Owned(p, {})
    BY <1>1, <1>3, <1>12 DEF Over
  <2>2. /\ failed \in Lists /\ failed.read = i.read /\ failed.items = i.items /\ ~failed.more
        /\ failed.status = i.status
    BY <1>2, <1>4, <1>7, <1>12 DEF Lists
  <2>3. PICK q : q = ListChanged(p, f, failed)
    OBVIOUS
  <2>4. /\ PageInv(q) /\ Tame(p, q) /\ q.email = p.email /\ q.tab = p.tab
        /\ q.lists[f] = failed /\ \A g \in Folders \ {f} : q.lists[g] = p.lists[g]
        /\ q.calls = p.calls /\ Owned(q, {} \cup {f})
    <3>1. f # "inbox" /\ failed.read \subseteq failed.items /\ AllOf(failed.items, p.email)
      BY <1>2, <1>4, <2>2
    <3> QED
      BY <1>2, <2>1, <2>2, <2>3, <3>1, ListChanges
  <2>5. FolderOwned(q, f)
    BY <1>2, <1>3, <2>1, <2>2, <2>4 DEF Owned, FolderOwned
  <2>6. Owned(q, {})
    BY <1>2, <2>4, <2>5 DEF Owned
  <2>7. TabLoaded(q)
    BY <1>2, <1>3, <2>2, <2>4 DEF TabLoaded, Folders
  <2>8. Served(p, q)
    BY <2>4, <2>6, <2>7 DEF Served, Tame
  <2> QED
    BY <1>2, <1>8, <1>12, <2>3, <2>8
<1>13. CASE ~c.current \/ (c.reply # "lost" /\ c.email # p.email)
  <2>1. FolderReply(p, c) = p
    BY <1>2, <1>8, <1>13 DEF Fresh
  <2>2. Owned(p, {})
    BY <1>1, <1>2, <1>13 DEF Over
  <2> QED
    BY <1>2, <2>1, <2>2, NothingServes
<1> QED
  BY <1>2, <1>10, <1>11, <1>12, <1>13 DEF Fresh

\* The mail that was awaited is shown, or it cannot be.
LEMMA DetailArrives ==
    ASSUME NEW p, NEW c, Over(p, c), c.current, c.kind \in {"detail", "sentDetail"},
           NEW d \in Details, d.kind \in {"error", "mail", "sent"},
           d.kind \in {"mail", "sent"} =>
               /\ d.id = p.active
               /\ d.kind = "sent" <=> c.kind = "sentDetail"
               /\ c.kind = "detail" => (d.trash <=> c.opt)
               /\ c.kind = "sentDetail" => ~d.trash
    PROVE  Served(p, [p EXCEPT !.detail = d])
<1>1. PICK q : q = [p EXCEPT !.detail = d]
  OBVIOUS
<1>2. /\ PageInv(p) /\ p \in Pages /\ TabLoaded(p) /\ Owned(p, {"detail"})
      /\ NoNewest(p, "detail") /\ DetailAwaited(p, c) /\ Ticket(c.kind) = "detail"
  <2>1. Ticket(c.kind) = "detail"
    BY DEF Ticket
  <2> QED
    BY <2>1 DEF Over, CallFits, PageInv
<1>3. /\ q \in Pages /\ q.calls = p.calls /\ q.restore = p.restore /\ q.tab = p.tab
      /\ q.email = p.email /\ q.active = p.active /\ q.detail = d
      /\ q.search = p.search /\ q.lists = p.lists /\ q.offers = p.offers
      /\ q.selected = p.selected
  BY <1>1, <1>2 DEF Pages
<1>4. DetailFits(q)
  <2>1. p.active # None /\ Home[p.active] = p.email
    BY <1>2 DEF DetailAwaited, PageInv, ViewInv, DetailFits
  <2>2. ASSUME d.kind \in {"mail", "sent"}, p.tab # "imap"
        PROVE  (d.kind = "sent" <=> p.tab = "sent") /\ (d.trash <=> p.tab = "trash")
    <3>1. (c.kind = "sentDetail" <=> p.tab = "sent") /\ (c.opt <=> p.tab = "trash")
      BY <1>2, <2>2 DEF DetailAwaited
    <3>2. CASE c.kind = "detail"
      BY <2>2, <3>1, <3>2
    <3>3. CASE c.kind = "sentDetail"
      BY <2>2, <3>1, <3>3
    <3> QED
      BY <3>2, <3>3
  <2> QED
    BY <1>3, <2>1, <2>2 DEF DetailFits
<1>5. ViewInv(q)
  BY <1>2, <1>3, <1>4 DEF PageInv, ViewInv, ListsFit, Shown
<1>6. PageInv(q) /\ Tame(p, q)
  BY <1>2, <1>3, <1>5, Sets
<1>7. Owned(q, {})
  BY <1>2, <1>3 DEF Owned, InboxOwned, SearchOwned, DetailOwned, FolderOwned
<1>8. TabLoaded(q)
  BY <1>2, <1>3 DEF TabLoaded
<1> QED
  BY <1>1, <1>6, <1>7, <1>8 DEF Served, Tame

LEMMA ServedThenCalm ==
    ASSUME NEW p, NEW o, NEW q, Served(p, o), Calm(o, q)
    PROVE  Served(p, q)
BY DEF Served, Calm, Tame

LEMMA DetailServes ==
    ASSUME NEW p, NEW c, Over(p, c), c.kind = "detail", c.reply # "none"
    PROVE  Served(p, DetailReply(p, c))
<1>1. /\ PageInv(p) /\ p \in Pages /\ c \in Calls /\ TabLoaded(p) /\ c.current \in BOOLEAN
      /\ c.opt \in BOOLEAN
  BY DEF Over, Calls, PageInv
<1>2. CASE ~c.current
  <2>1. Owned(p, {}) /\ DetailReply(p, c) = p
    BY <1>2 DEF Over, DetailReply, Fresh
  <2> QED
    BY <1>1, <2>1, NothingServes
<1>3. CASE c.current
  <2>1. /\ c.email = p.email /\ c.mails = {p.active} /\ p.detail.kind = "loading"
    <3>1. Ticket(c.kind) = "detail"
      BY DEF Ticket
    <3> QED
      BY <1>3, <3>1 DEF Over, CallFits, DetailAwaited
  <2>2. p.active \in Mails
    BY <1>1, <2>1 DEF PageInv, ViewInv, DetailFits, Pages
  <2>3. (CHOOSE x \in c.mails : TRUE) = p.active
    BY <2>1
  <2>4. PICK d : d = [kind |-> "mail", id |-> p.active, trash |-> c.opt]
    OBVIOUS
  <2>5. PICK e : e = [kind |-> "error", id |-> None, trash |-> FALSE]
    OBVIOUS
  <2>6. d \in Details /\ e \in Details
    BY <1>1, <2>2, <2>4, <2>5 DEF Details
  <2>7. PICK o : o = [p EXCEPT !.detail = d]
    OBVIOUS
  <2>8. Served(p, o)
    BY <1>3, <2>4, <2>6, <2>7, DetailArrives
  <2>9. Served(p, [p EXCEPT !.detail = e])
    BY <1>3, <2>5, <2>6, DetailArrives
  <2>10. Served(p, MarkedRead(o, {p.active}))
    <3>1. PageInv(o) /\ {p.active} \in SUBSET Mails
      BY <2>2, <2>8 DEF Served
    <3>2. Calm(o, MarkedRead(o, {p.active}))
      BY <3>1, MarkedReadKeeps
    <3> QED
      BY <2>8, <3>2, ServedThenCalm
  <2>11. /\ c.reply = "ok" /\ c.opt => DetailReply(p, c) = o
         /\ c.reply = "ok" /\ ~c.opt => DetailReply(p, c) = MarkedRead(o, {p.active})
         /\ c.reply # "ok" => DetailReply(p, c) = [p EXCEPT !.detail = e]
    BY <1>3, <2>1, <2>3, <2>4, <2>5, <2>7 DEF DetailReply, Fresh
  <2> QED
    BY <1>1, <2>8, <2>9, <2>10, <2>11
<1> QED
  BY <1>1, <1>2, <1>3

LEMMA SentDetailServes ==
    ASSUME NEW p, NEW c, Over(p, c), c.kind = "sentDetail", c.reply # "none"
    PROVE  Served(p, SentDetailReply(p, c))
<1>1. /\ PageInv(p) /\ p \in Pages /\ c \in Calls /\ TabLoaded(p) /\ c.current \in BOOLEAN
  BY DEF Over, Calls, PageInv
<1>2. CASE ~c.current
  <2>1. Owned(p, {}) /\ SentDetailReply(p, c) = p
    BY <1>2 DEF Over, SentDetailReply, Fresh
  <2> QED
    BY <1>1, <2>1, NothingServes
<1>3. CASE c.current
  <2>1. /\ c.email = p.email /\ c.mails = {p.active} /\ p.detail.kind = "loading"
    <3>1. Ticket(c.kind) = "detail"
      BY DEF Ticket
    <3> QED
      BY <1>3, <3>1 DEF Over, CallFits, DetailAwaited
  <2>2. p.active \in Mails
    BY <1>1, <2>1 DEF PageInv, ViewInv, DetailFits, Pages
  <2>3. (CHOOSE x \in c.mails : TRUE) = p.active
    BY <2>1
  <2>4. PICK d : d = [kind |-> "sent", id |-> p.active, trash |-> FALSE]
    OBVIOUS
  <2>5. d \in Details
    BY <2>2, <2>4 DEF Details
  <2>6. Served(p, [p EXCEPT !.detail = d])
    BY <1>3, <2>4, <2>5, DetailArrives
  <2>7. SentDetailReply(p, c) = [p EXCEPT !.detail = d]
    BY <1>3, <2>1, <2>3, <2>4 DEF SentDetailReply, Fresh
  <2> QED
    BY <2>6, <2>7
<1> QED
  BY <1>1, <1>2, <1>3

LEMMA TrashServes ==
    ASSUME NEW p, NEW c, Over(p, c), c.kind \in {"restore", "purge"}
    PROVE  Served(p, TrashReply(p, c))
<1>1. /\ PageInv(p) /\ p \in Pages /\ c \in Calls /\ TabLoaded(p)
      /\ {"trash", "inbox"} \subseteq Folders
  BY DEF Over, PageInv, Folders
<1>2. Owned(p, {})
  <2>1. Ticket(c.kind) = "none"
    BY DEF Ticket
  <2> QED
    BY <2>1 DEF Over, Owned
<1>3. CASE c.reply # "ok" \/ c.email # p.email
  <2>1. TrashReply(p, c) = p
    BY <1>3 DEF TrashReply
  <2> QED
    BY <1>1, <1>2, <2>1, NothingServes
<1>4. CASE ~(c.reply # "ok" \/ c.email # p.email)
  <2>1. PICK t, i : t = p.lists["trash"] /\ i = p.lists["inbox"]
    OBVIOUS
  <2>2. /\ t \in Lists /\ t.read \subseteq t.items /\ AllOf(t.items, p.email)
        /\ i \in Lists /\ i.read \subseteq i.items /\ AllOf(i.items, p.email)
        /\ p.selected \subseteq i.items \/ p.search.active
    BY <1>1, <2>1 DEF PageInv, ViewInv, ListsFit, Pages, Shown
  <2>3. PICK n, u : /\ u = (IF t.total > 0 THEN t.total - 1 ELSE 0)
                    /\ n = [t EXCEPT !.items = t.items \ c.mails, !.read = t.read \ c.mails,
                                     !.total = u]
    OBVIOUS
  <2>4. /\ n \in Lists /\ n.items = t.items \ c.mails /\ n.read = t.read \ c.mails
        /\ n.status = t.status /\ n.more = t.more
    <3>1. u \in Nat
      BY <2>2, <2>3 DEF Lists
    <3>2. n = [t EXCEPT !.items = t.items \ c.mails, !.read = t.read \ c.mails, !.total = u]
      BY <2>3
    <3> QED
      BY <2>2, <3>1, <3>2 DEF Lists
  <2>5. PICK k : k = [i EXCEPT !.status = "idle"]
    OBVIOUS
  <2>6. /\ k \in Lists /\ k.items = i.items /\ k.read = i.read
        /\ k.status = "idle" /\ k.more = i.more
    BY <2>2, <2>5 DEF Lists, Statuses
  <2>7. PICK o, v, q : /\ o = ListChanged(p, "trash", n) /\ v = ListChanged(o, "inbox", k)
                       /\ q = ResetMailDetail(v)
    OBVIOUS
  <2>8. TrashReply(p, c) = q
    <3>1. v = [p EXCEPT !.lists["trash"].items = @ \ c.mails,
                        !.lists["trash"].read = @ \ c.mails,
                        !.lists["trash"].total = IF @ > 0 THEN @ - 1 ELSE 0,
                        !.lists["inbox"].status = "idle"]
      <4>1. [p EXCEPT !.lists["trash"].items = @ \ c.mails,
                      !.lists["trash"].read = @ \ c.mails,
                      !.lists["trash"].total = IF @ > 0 THEN @ - 1 ELSE 0] = o
        <5>1. [p.lists["trash"] EXCEPT !.items = @ \ c.mails, !.read = @ \ c.mails,
                                       !.total = IF @ > 0 THEN @ - 1 ELSE 0] = n
          BY <2>1, <2>2, <2>3 DEF Lists
        <5>2. [p.lists EXCEPT !["trash"].items = @ \ c.mails, !["trash"].read = @ \ c.mails,
                              !["trash"].total = IF @ > 0 THEN @ - 1 ELSE 0]
              = [p.lists EXCEPT !["trash"] = n]
          BY <1>1, <2>1, <2>2, <5>1 DEF Pages, Lists
        <5> QED
          BY <1>1, <2>7, <5>2 DEF ListChanged, Pages
      <4>2. o.lists["inbox"] = i /\ o = [p EXCEPT !.lists = o.lists]
        BY <1>1, <2>1, <2>7 DEF ListChanged, Pages
      <4>3. v = [o EXCEPT !.lists["inbox"].status = "idle"]
        BY <1>1, <2>5, <2>7, <4>2 DEF ListChanged, Pages
      <4> QED
        BY <4>1, <4>3, Zenon
    <3> QED
      BY <1>4, <2>7, <3>1 DEF TrashReply
  <2>9. /\ PageInv(o) /\ Tame(p, o) /\ o.email = p.email /\ o.tab = p.tab
        /\ o.search = p.search /\ o.calls = p.calls
        /\ o.lists["trash"] = n /\ \A g \in Folders \ {"trash"} : o.lists[g] = p.lists[g]
        /\ Owned(o, {} \cup {"trash"})
    <3>1. n.read \subseteq n.items /\ AllOf(n.items, p.email)
      BY <2>2, <2>4 DEF AllOf
    <3>2. PICK f : f = "trash"
      OBVIOUS
    <3>3. f \in Folders /\ f # "inbox" /\ n \in Lists /\ o = ListChanged(p, f, n)
      BY <1>1, <2>4, <2>7, <3>2
    <3>4. /\ PageInv(o) /\ Tame(p, o) /\ o.email = p.email /\ o.tab = p.tab
          /\ o.search = p.search /\ o.calls = p.calls
          /\ o.lists[f] = n /\ \A g \in Folders \ {f} : o.lists[g] = p.lists[g]
          /\ \A T : Owned(p, T) => Owned(o, T \cup {f})
      BY <1>1, <3>1, <3>3, ListChanges, SMTT(60)
    <3> QED
      BY <1>2, <3>2, <3>4
  <2>10. FolderOwned(o, "trash") /\ TabLoaded(o)
    BY <1>1, <1>2, <2>1, <2>4, <2>9 DEF Owned, FolderOwned, TabLoaded, Folders
  <2>11. Owned(o, {})
    BY <2>9, <2>10 DEF Owned
  <2>12. o.selected = p.selected
    BY <1>1, <2>7 DEF ListChanged, Pages
  <2>13. /\ PageInv(v) /\ Tame(o, v) /\ v.email = o.email /\ v.tab = o.tab
         /\ v.calls = o.calls
         /\ v.lists["inbox"] = k /\ \A g \in Folders \ {"inbox"} : v.lists[g] = o.lists[g]
         /\ Owned(v, {} \cup {"inbox"})
    <3>1. /\ k.read \subseteq k.items /\ AllOf(k.items, o.email)
          /\ o.selected \subseteq k.items \/ o.search.active
      BY <2>2, <2>6, <2>9, <2>12
    <3> QED
      BY <1>1, <2>6, <2>7, <2>9, <2>11, <3>1, ListChanges, SMTT(60)
  <2>14. InboxOwned(v) /\ TabLoaded(v)
    <3>1. o.lists["inbox"] = i
      BY <1>1, <2>1, <2>9
    <3> QED
      BY <2>6, <2>10, <2>11, <2>13, <3>1 DEF Owned, InboxOwned, TabLoaded, Folders
  <2>15. Owned(v, {})
    BY <2>13, <2>14 DEF Owned
  <2>16. /\ PageInv(q) /\ SameButDetail(v, q) /\ Tame(v, q)
         /\ Owned(q, {} \ {"detail"}) /\ TabLoaded(q)
    BY <2>7, <2>13, <2>14, <2>15, ResetKeeps
  <2>17. Owned(q, {})
    <3>1. {} \ {"detail"} = {}
      OBVIOUS
    <3> QED
      BY <2>16, <3>1
  <2> QED
    BY <2>8, <2>9, <2>13, <2>16, <2>17 DEF Served, Tame
<1> QED
  BY <1>3, <1>4

\* The inbox that was asked for takes the place of what the page shows.
LEMMA GotInboxServes ==
    ASSUME NEW p, PageInv(p), NEW c \in Calls, Sound(c), c.opt => p.email = None,
           NoNewest(p, "inbox"), Owned(p, {"inbox"}), TabLoaded(p), Free(p) # {}
    PROVE  Served(p, GotInbox(p, c))
<1>1. p \in Pages /\ c.email \in Boxes /\ None \notin Boxes
  BY MailAssumption DEF PageInv, Calls, MailAssumption
<1>2. PICK changed \in BOOLEAN : changed <=> c.email # p.email
  OBVIOUS
<1>3. PICK b : b = IF changed THEN ResetMailDetail(p) ELSE p
  OBVIOUS
<1>4. PICK o : o = Outdate(b, "search")
  OBVIOUS
<1>5. /\ PageInv(b) /\ SameButDetail(p, b) /\ Tame(p, b) /\ Owned(b, {"inbox"}) /\ TabLoaded(b)
      /\ changed => b.detail = NoDetail /\ b.active = None /\ NoNewest(b, "detail")
  <2>1. CASE changed
    <3>1. /\ PageInv(b) /\ SameButDetail(p, b) /\ Tame(p, b) /\ Owned(b, {"inbox"} \ {"detail"})
          /\ TabLoaded(b) /\ b.detail = NoDetail /\ b.active = None /\ NoNewest(b, "detail")
      BY <1>3, <2>1, ResetKeeps
    <3>2. {"inbox"} \ {"detail"} = {"inbox"}
      OBVIOUS
    <3> QED
      BY <3>1, <3>2
  <2>2. CASE ~changed
    BY <1>3, <2>2 DEF SameButDetail, Tame
  <2> QED
    BY <2>1, <2>2
<1>6. /\ PageInv(o) /\ SameView(b, o) /\ Tame(b, o) /\ NoNewest(o, "search")
      /\ Owned(o, {"inbox"} \cup {"search"}) /\ TabLoaded(o)
  BY <1>4, <1>5, OutdateKeeps
<1>7. NoNewest(o, "inbox") /\ (changed => NoNewest(o, "detail"))
  BY <1>5, <1>6 DEF Tame
<1>8. PICK n : n = Listed([EmptyList EXCEPT !.status = "ready"], c, {})
  OBVIOUS
<1>9. /\ n \in Lists /\ n.items = c.got /\ n.read \subseteq n.items /\ n.status = "ready" /\ ~n.more
  <2>1. PICK e : e = [EmptyList EXCEPT !.status = "ready"]
    OBVIOUS
  <2>2. e \in Lists /\ e.status = "ready" /\ ~e.more
    BY <2>1 DEF EmptyList, Lists, Statuses
  <2>3. n = Listed(e, c, {})
    BY <1>8, <2>1
  <2>4. /\ n \in Lists /\ n.items = c.got \cup {} /\ n.read \subseteq n.items
        /\ n.status = e.status /\ n.more = e.more
    BY <2>2, <2>3, ListedIs
  <2> QED
    BY <2>2, <2>4
<1>10. PICK l : l = [f \in Folders |-> IF f = "inbox" THEN n
                                       ELSE IF changed THEN EmptyList ELSE o.lists[f]]
  OBVIOUS
<1>11. PICK s : s = [o.search EXCEPT !.active = FALSE, !.items = {}, !.read = {}]
  OBVIOUS
<1>12. PICK q : q = [o EXCEPT !.email = c.email, !.lists = l, !.search = s, !.selected = {}]
  OBVIOUS
<1>13. GotInbox(p, c) = IF changed /\ p.tab \in {"sent", "trash"} THEN LoadFolder(q, p.tab, FALSE)
                        ELSE q
  <2>1. ~(c.opt /\ ~changed)
    BY <1>1, <1>2
  <2>2. [f \in Folders |-> CASE f = "inbox" -> n
                             [] f # "inbox" /\ changed -> EmptyList
                             [] OTHER -> o.lists[f]] = l
    BY <1>10
  <2>3. o \in Pages
    BY <1>6 DEF PageInv
  <2>4. [o EXCEPT !.email = c.email, !.lists = l,
                  !.search.active = FALSE, !.search.items = {}, !.search.read = {},
                  !.selected = {}] = q
    BY <1>11, <1>12, <2>3 DEF Pages
  <2>5. o = Outdate(IF c.email # p.email THEN ResetMailDetail(p) ELSE p, "search")
    BY <1>2, <1>3, <1>4
  <2>6. [o EXCEPT !.email = c.email,
                  !.lists = [f \in Folders |->
                      CASE f = "inbox" -> Listed([EmptyList EXCEPT !.status = "ready"], c, {})
                        [] f # "inbox" /\ c.email # p.email -> EmptyList
                        [] OTHER -> @[f]],
                  !.search.active = FALSE, !.search.items = {}, !.search.read = {},
                  !.selected = IF c.opt /\ ~(c.email # p.email) THEN @ ELSE {}] = q
    <3>1. [f \in Folders |->
              CASE f = "inbox" -> Listed([EmptyList EXCEPT !.status = "ready"], c, {})
                [] f # "inbox" /\ c.email # p.email -> EmptyList
                [] OTHER -> o.lists[f]] = l
      BY <1>2, <1>8, <2>2
    <3> QED
      BY <1>2, <2>1, <2>4, <3>1
  <2>7. GotInbox(p, c) = IF c.email # p.email /\ p.tab \in {"sent", "trash"}
                         THEN LoadFolder(q, p.tab, FALSE) ELSE q
    BY <2>5, <2>6 DEF GotInbox
  <2> QED
    BY <1>2, <2>7
<1>14. /\ EmptyList \in Lists /\ EmptyList.items = {} /\ EmptyList.read = {}
       /\ EmptyList.status = "idle" /\ ~EmptyList.more
  BY DEF EmptyList, Lists, Statuses
<1>15. /\ l \in [Folders -> Lists] /\ l["inbox"] = n
       /\ \A f \in Folders \ {"inbox"} : l[f] = IF changed THEN EmptyList ELSE o.lists[f]
  <2>1. o.lists \in [Folders -> Lists] /\ "inbox" \in Folders
    BY <1>6 DEF PageInv, Pages, Folders
  <2> QED
    BY <1>9, <1>10, <1>14, <2>1
<1>16. s \in Searches /\ ~s.active /\ s.items = {}
  BY <1>6, <1>11 DEF PageInv, Pages, Searches
<1>17. /\ q \in Pages /\ q.calls = o.calls /\ q.restore = o.restore /\ q.tab = o.tab
       /\ q.email = c.email /\ q.active = o.active /\ q.detail = o.detail
       /\ q.search = s /\ q.lists = l /\ q.offers = o.offers /\ q.selected = {}
  BY <1>1, <1>6, <1>12, <1>15, <1>16 DEF PageInv, Pages
<1>18. /\ o.restore = p.restore /\ o.tab = p.tab /\ o.email = p.email
       /\ changed => o.detail = NoDetail /\ o.active = None
  BY <1>5, <1>6 DEF SameView, SameButDetail
<1>19. ViewInv(q)
  <2>1. ListsFit(q)
    BY <1>2, <1>6, <1>9, <1>14, <1>15, <1>17, <1>18
       DEF PageInv, ViewInv, ListsFit, AllOf, Sound
  <2>2. DetailFits(q)
    <3>1. CASE changed
      BY <1>17, <1>18, <3>1 DEF DetailFits, NoDetail
    <3>2. CASE ~changed
      BY <1>2, <1>6, <1>17, <1>18, <3>2 DEF PageInv, ViewInv, DetailFits
    <3> QED
      BY <3>1, <3>2
  <2> QED
    BY <1>6, <1>16, <1>17, <2>1, <2>2 DEF PageInv, ViewInv, AllOf
<1>20. PageInv(q) /\ Tame(o, q)
  BY <1>2, <1>6, <1>7, <1>17, <1>18, <1>19, Sets
<1>21. Owned(q, {})
  <2>1. InboxOwned(q)
    BY <1>9, <1>15, <1>17 DEF InboxOwned
  <2>2. SearchOwned(q)
    BY <1>16, <1>17 DEF SearchOwned
  <2>3. DetailOwned(q)
    BY <1>6, <1>17 DEF Owned, DetailOwned
  <2>4. \A f \in {"sent", "trash"} : FolderOwned(q, f)
    <3> SUFFICES ASSUME NEW f \in {"sent", "trash"} PROVE FolderOwned(q, f)
      OBVIOUS
    <3>1. f \in Folders \ {"inbox"} /\ FolderOwned(o, f)
      BY <1>6 DEF Folders, Owned
    <3> QED
      BY <1>2, <1>14, <1>15, <1>17, <1>18, <3>1 DEF FolderOwned
  <2> QED
    BY <2>1, <2>2, <2>3, <2>4 DEF Owned
<1>22. /\ q.restore = p.restore /\ Ids(q) = Ids(p) /\ (Awaiting(q) => Awaiting(p))
       /\ NoneAwaited(p) => NoneAwaited(q)
  BY <1>5, <1>6, <1>20 DEF Tame
<1>23. CASE changed /\ p.tab \in {"sent", "trash"}
  <2>1. Free(q) = Free(p) /\ FreeId(q) = FreeId(p)
    <3>1. Free(q) = Free(p)
      BY <1>22 DEF Free, Ids
    <3> QED
      BY <3>1 DEF Free, FreeId
  <2>2. PICK r : r = LoadFolder(q, p.tab, FALSE)
    OBVIOUS
  <2>3. /\ PageInv(r) /\ Sent(q, r, FreeId(q)) /\ Owned(r, {} \ {p.tab}) /\ TabLoaded(r)
    BY <1>1, <1>17, <1>18, <1>20, <1>21, <1>23, <2>1, <2>2, LoadFolderKeeps
  <2>4. Owned(r, {})
    <3>1. {} \ {p.tab} = {}
      OBVIOUS
    <3> QED
      BY <2>3, <3>1
  <2> QED
    BY <1>13, <1>22, <1>23, <2>1, <2>2, <2>3, <2>4 DEF Served, Sent
<1>24. CASE ~(changed /\ p.tab \in {"sent", "trash"})
  <2>1. TabLoaded(q)
    <3>1. CASE p.tab \notin {"sent", "trash"}
      BY <1>17, <1>18, <3>1 DEF TabLoaded
    <3>2. CASE ~changed /\ p.tab \in {"sent", "trash"}
      BY <1>2, <1>6, <1>15, <1>17, <1>18, <3>2 DEF TabLoaded, Folders
    <3> QED
      BY <1>24, <3>1, <3>2
  <2> QED
    BY <1>13, <1>20, <1>21, <1>22, <1>24, <2>1 DEF Served
<1> QED
  BY <1>23, <1>24

LEMMA QueryServes ==
    ASSUME NEW p, NEW c, Over(p, c), c.kind = "query"
    PROVE  Served(p, QueryReply(p, c))
<1>1. /\ PageInv(p) /\ p \in Pages /\ c \in Calls /\ TabLoaded(p) /\ Sound(c)
      /\ c.current \in BOOLEAN /\ c.opt \in BOOLEAN /\ Owned(p, {"inbox"})
      /\ Ticket(c.kind) = "inbox" /\ p.querying \in BOOLEAN /\ "inbox" \in Folders
  <2>1. Ticket(c.kind) = "inbox"
    BY DEF Ticket
  <2> QED
    BY <2>1 DEF Over, CallFits, Calls, PageInv, Pages, Folders
<1>2. CASE ~c.current
  <2>1. Owned(p, {}) /\ QueryReply(p, c) = p
    BY <1>2 DEF Over, QueryReply
  <2> QED
    BY <1>1, <2>1, NothingServes
<1>3. CASE c.current
  <2>1. PICK o : o = [p EXCEPT !.querying = @ /\ c.opt]
    OBVIOUS
  <2>2. /\ o \in Pages /\ o.calls = p.calls /\ o.restore = p.restore /\ o.tab = p.tab
        /\ o.email = p.email /\ o.active = p.active /\ o.detail = p.detail
        /\ o.search = p.search /\ o.lists = p.lists /\ o.offers = p.offers
        /\ o.selected = p.selected
    BY <1>1, <2>1 DEF Pages
  <2>3. ViewInv(o)
    BY <1>1, <2>2 DEF PageInv, ViewInv, ListsFit, DetailFits, Shown
  <2>4. Calm(p, o)
    BY <1>1, <2>2, <2>3, ViewChanges
  <2>5. PageInv(o) /\ Owned(o, {"inbox"}) /\ TabLoaded(o)
    BY <1>1, <2>4 DEF Calm
  <2>6. NoNewest(o, "inbox") /\ Free(o) # {} /\ (c.opt => o.email = None)
    <3>1. c.id \in 1 .. MaxCalls + 2 /\ c.id \notin Ids(p)
      BY <1>1 DEF Over, Calls
    <3>2. Free(o) # {}
      BY <2>2, <3>1 DEF Free, Ids
    <3>3. NoNewest(o, "inbox")
      BY <1>1, <1>3, <2>4 DEF Over, Calm, Tame
    <3>4. c.opt => o.email = None
      BY <1>3, <2>2 DEF Over, CallFits, FirstIfSilent
    <3> QED
      BY <3>2, <3>3, <3>4
  <2>7. CASE c.reply = "ok"
    <3>1. Served(o, GotInbox(o, c))
      BY <1>1, <2>5, <2>6, GotInboxServes
    <3>2. Served(p, GotInbox(o, c))
      <4>1. Ids(o) = Ids(p) /\ FreeId(o) = FreeId(p)
        BY <2>2 DEF Ids, FreeId
      <4> QED
        BY <2>4, <3>1, <4>1 DEF Served, Calm, Tame
    <3>3. QueryReply(p, c) = GotInbox(o, c)
      BY <1>3, <2>1, <2>7 DEF QueryReply
    <3> QED
      BY <3>2, <3>3
  <2>8. CASE c.reply # "ok" /\ c.opt
    <3>1. Owned(p, {}) /\ QueryReply(p, c) = p
      BY <1>3, <2>8 DEF Over, QueryReply
    <3> QED
      BY <1>1, <3>1, NothingServes
  <2>9. CASE c.reply # "ok" /\ ~c.opt
    <3>1. PICK i, n : i = o.lists["inbox"] /\ n = [i EXCEPT !.status = "error"]
      OBVIOUS
    <3>2. /\ i \in Lists /\ i.read \subseteq i.items /\ AllOf(i.items, o.email) /\ ~i.more
          /\ o.selected \subseteq i.items \/ o.search.active
      BY <1>1, <1>3, <2>2, <2>3, <3>1 DEF Over, ViewInv, ListsFit, Pages, Shown
    <3>3. /\ n \in Lists /\ n.items = i.items /\ n.read = i.read /\ n.status = "error"
          /\ n.more = i.more
      BY <3>1, <3>2 DEF Lists, Statuses
    <3>4. PICK q : q = ListChanged(o, "inbox", n)
      OBVIOUS
    <3>5. QueryReply(p, c) = q
      BY <1>1, <1>3, <2>1, <2>2, <2>9, <3>1, <3>4 DEF QueryReply, ListChanged, Pages
    <3>6. /\ PageInv(q) /\ Tame(o, q) /\ q.email = o.email /\ q.tab = o.tab
          /\ q.lists["inbox"] = n /\ \A g \in Folders \ {"inbox"} : q.lists[g] = o.lists[g]
          /\ Owned(q, {"inbox"} \cup {"inbox"})
      <4>1. n.read \subseteq n.items /\ AllOf(n.items, o.email)
            /\ (o.selected \subseteq n.items \/ o.search.active)
        BY <3>2, <3>3
      <4> QED
        BY <1>1, <2>5, <3>3, <3>4, <4>1, ListChanges
    <3>7. InboxOwned(q)
      BY <3>2, <3>3, <3>6 DEF InboxOwned
    <3>8. Owned(q, {})
      BY <3>6, <3>7 DEF Owned
    <3>9. TabLoaded(q)
      BY <2>5, <3>6 DEF TabLoaded, Folders
    <3> QED
      BY <2>4, <3>5, <3>6, <3>8, <3>9 DEF Served, Tame, Calm
  <2> QED
    BY <1>1, <2>7, <2>8, <2>9
<1> QED
  BY <1>1, <1>2, <1>3

LEMMA HandledServes ==
    ASSUME NEW p, NEW c, Over(p, c), c.reply # "none"
    PROVE  Served(p, Handled(p, c))
<1>1. c.kind \in Kinds
  BY DEF Over, Calls
<1>2. CASE c.kind = "query"
  BY <1>2, QueryServes DEF Handled
<1>3. CASE c.kind = "refresh"
  BY <1>3, RefreshServes DEF Handled
<1>4. CASE c.kind = "more"
  BY <1>4, MoreServes DEF Handled
<1>5. CASE c.kind = "search"
  BY <1>5, SearchServes DEF Handled
<1>6. CASE c.kind \in {"sent", "trash"}
  BY <1>6, FolderServes DEF Handled
<1>7. CASE c.kind = "detail"
  BY <1>7, DetailServes DEF Handled
<1>8. CASE c.kind = "sentDetail"
  BY <1>8, SentDetailServes DEF Handled
<1>9. CASE c.kind \in {"delete", "batchDelete"}
  BY <1>9, DeleteServes DEF Handled
<1>10. CASE c.kind = "markRead"
  BY <1>10, MarkReadServes DEF Handled
<1>11. CASE c.kind = "undo"
  BY <1>11, UndoServes DEF Handled
<1>12. CASE c.kind \in {"restore", "purge"}
  BY <1>12, TrashServes DEF Handled
<1> QED
  BY <1>1, <1>2, <1>3, <1>4, <1>5, <1>6, <1>7, <1>8, <1>9, <1>10, <1>11, <1>12 DEF Kinds

(***************************************************************************)
(* Calls that are answered, awaited, or wanted                             *)
(***************************************************************************)
\* The same request, whatever has become of it.
Alike(d, c) ==
    /\ d.id = c.id /\ d.kind = c.kind /\ d.opt = c.opt /\ d.email = c.email /\ d.mails = c.mails
    /\ d.current = c.current

LEMMA AlikeKeeps ==
    ASSUME NEW p, PageInv(p), NEW q \in Pages, SameView(p, q),
           \A d \in q.calls : \E c \in p.calls : Alike(d, c),
           \A c \in p.calls : \E d \in q.calls : Alike(d, c),
           \A d, e \in q.calls : d = e \/ (d.id # e.id /\ ~(d.awaited /\ e.awaited)),
           \A d \in q.calls : Sound(d) /\ Resumes(q, d)
    PROVE  /\ PageInv(q) /\ Ids(q) = Ids(p)
           /\ \A T : Owned(p, T) => Owned(q, T)
           /\ TabLoaded(p) => TabLoaded(q)
<1>1. ViewInv(q)
  BY SameViewInv DEF PageInv
<1>2. Distinct(q.calls)
  <2> SUFFICES ASSUME NEW d \in q.calls, NEW e \in q.calls, d # e, d.current, e.current
               PROVE  Ticket(d.kind) # Ticket(e.kind) \/ Ticket(d.kind) = "none"
    BY DEF Distinct
  <2>1. PICK c \in p.calls, b \in p.calls : Alike(d, c) /\ Alike(e, b)
    OBVIOUS
  <2>2. c # b /\ c.current /\ b.current /\ d.kind = c.kind /\ e.kind = b.kind
    BY <2>1 DEF Alike
  <2> QED
    BY <2>2 DEF PageInv, CallsInv, Distinct
<1>3. ASSUME NEW d \in q.calls PROVE CallFits(q, d)
  <2>1. PICK c \in p.calls : Alike(d, c)
    OBVIOUS
  <2>2. CallFits(p, c)
    BY DEF PageInv, CallsInv
  <2>3. d.current => FirstIfSilent(q, d) /\ SearchAwaited(q, d) /\ DetailAwaited(q, d)
    BY <2>1, <2>2 DEF Alike, SameView, CallFits, FirstIfSilent, SearchAwaited, DetailAwaited
  <2> QED
    BY <2>3 DEF CallFits
<1>4. PageInv(q)
  BY <1>1, <1>2, <1>3 DEF PageInv, CallsInv
<1>5. Ids(q) = Ids(p)
  BY DEF Ids, Alike
<1>6. \A c \in p.calls : \E d \in q.calls : /\ d.kind = c.kind /\ d.opt = c.opt
                                            /\ d.email = c.email /\ d.current = c.current
  BY DEF Alike
<1>7. ASSUME NEW T, Owned(p, T) PROVE Owned(q, T)
  <2>1. "inbox" \in T \/ InboxOwned(q)
    BY <1>6, <1>7 DEF Owned, InboxOwned, SameView
  <2>2. "search" \in T \/ SearchOwned(q)
    BY <1>6, <1>7 DEF Owned, SearchOwned, SameView
  <2>3. "detail" \in T \/ DetailOwned(q)
    BY <1>6, <1>7 DEF Owned, DetailOwned, SameView
  <2>4. \A f \in {"sent", "trash"} \ T : FolderOwned(q, f)
    BY <1>6, <1>7 DEF Owned, FolderOwned, SameView
  <2> QED
    BY <2>1, <2>2, <2>3, <2>4 DEF Owned
<1>8. TabLoaded(p) => TabLoaded(q)
  BY DEF TabLoaded, SameView
<1> QED
  BY <1>4, <1>5, <1>7, <1>8

\* restoreViewState waits for one call.
LEMMA AwaitKeeps ==
    ASSUME NEW p, PageInv(p), NoneAwaited(p), NEW w \in p.calls, p.restore \in Views,
           w.kind # "query" => w.kind \in {"sent", "trash"} /\ p.restore.tab = w.kind
    PROVE  LET q == Await(p, w.id) IN
           /\ PageInv(q) /\ Ids(q) = Ids(p)
           /\ \A T : Owned(p, T) => Owned(q, T)
           /\ TabLoaded(p) => TabLoaded(q)
           /\ Awaiting(q) => w.kind = "query"
<1> DEFINE F(c) == [c EXCEPT !.awaited = @ \/ c.id = w.id]
           C == {F(c) : c \in p.calls}
<1>1. p.calls \in SUBSET Calls /\ p \in Pages /\ Distinct(p.calls)
  BY DEF PageInv, Pages, CallsInv
<1>2. \A c \in p.calls : /\ F(c) \in Calls /\ Alike(F(c), c)
                         /\ F(c).got = c.got /\ F(c).read = c.read
                         /\ F(c).awaited <=> c = w
  <2> SUFFICES ASSUME NEW c \in p.calls
               PROVE  /\ F(c) \in Calls /\ Alike(F(c), c)
                      /\ F(c).got = c.got /\ F(c).read = c.read
                      /\ F(c).awaited <=> c = w
    OBVIOUS
  <2>1. c \in Calls /\ ~c.awaited /\ (c.id = w.id <=> c = w)
    BY <1>1 DEF NoneAwaited, Distinct
  <2>2. F(c) \in Calls
    BY <2>1 DEF Calls
  <2>3. F(c).awaited <=> c = w
    BY <2>1 DEF Calls
  <2>4. /\ F(c).id = c.id /\ F(c).kind = c.kind /\ F(c).opt = c.opt /\ F(c).email = c.email
        /\ F(c).mails = c.mails /\ F(c).got = c.got /\ F(c).read = c.read
        /\ F(c).current = c.current
    BY <2>1 DEF Calls
  <2> QED
    BY <2>2, <2>3, <2>4 DEF Alike
<1>3. Await(p, w.id) = [p EXCEPT !.calls = C]
  BY DEF Await
<1>4. C \in SUBSET Calls
  BY <1>2
<1> HIDE DEF F
<1>5. \A d \in C : \E c \in p.calls : d = F(c)
  OBVIOUS
<1>6. \A c \in p.calls : F(c) \in C
  OBVIOUS
<1> HIDE DEF C
<1>7. PICK q : q = Await(p, w.id)
  OBVIOUS
<1>8. q \in Pages /\ SameView(p, q) /\ q.calls = C
  BY <1>1, <1>3, <1>4, <1>7, WithCalls
<1>9. \A d \in q.calls : \E c \in p.calls : Alike(d, c)
  BY <1>2, <1>5, <1>8
<1>10. \A c \in p.calls : \E d \in q.calls : Alike(d, c)
  BY <1>2, <1>6, <1>8
<1>11. ASSUME NEW d \in q.calls, NEW e \in q.calls
       PROVE  d = e \/ (d.id # e.id /\ ~(d.awaited /\ e.awaited))
  <2>1. PICK c \in p.calls, b \in p.calls : d = F(c) /\ e = F(b)
    BY <1>5, <1>8
  <2>2. d.id = c.id /\ e.id = b.id /\ (d.awaited <=> c = w) /\ (e.awaited <=> b = w)
    BY <1>2, <2>1 DEF Alike
  <2>3. CASE c = b
    BY <2>1, <2>3
  <2>4. CASE c # b
    BY <1>1, <2>2, <2>4 DEF Distinct
  <2> QED
    BY <2>3, <2>4
<1>12. ASSUME NEW d \in q.calls PROVE Sound(d) /\ Resumes(q, d)
  <2>1. PICK c \in p.calls : d = F(c)
    BY <1>5, <1>8
  <2>2. Sound(c)
    BY DEF PageInv, CallsInv, CallFits
  <2>3. /\ d.kind = c.kind /\ d.email = c.email /\ d.got = c.got /\ d.read = c.read
        /\ d.awaited <=> c = w
    BY <1>2, <2>1 DEF Alike
  <2>4. Sound(d)
    BY <2>2, <2>3 DEF Sound
  <2>5. Resumes(q, d)
    BY <1>8, <2>3 DEF Resumes, SameView
  <2> QED
    BY <2>4, <2>5
<1>13. /\ PageInv(q) /\ Ids(q) = Ids(p)
       /\ \A T : Owned(p, T) => Owned(q, T)
       /\ TabLoaded(p) => TabLoaded(q)
  BY <1>8, <1>9, <1>10, <1>11, <1>12, AlikeKeeps
<1>14. Awaiting(q) => w.kind = "query"
  <2> SUFFICES ASSUME NEW d \in q.calls, d.awaited, d.kind = "query" PROVE w.kind = "query"
    BY DEF Awaiting
  <2>1. PICK c \in p.calls : d = F(c)
    BY <1>5, <1>8
  <2> QED
    BY <1>2, <2>1 DEF Alike
<1> QED
  BY <1>7, <1>13, <1>14

\* The mail of the view that is restored is opened, where it is listed.
LEMMA RestoreKeeps ==
    ASSUME NEW p, PageInv(p), NoneAwaited(p), Free(p) # {}, p.restore \in Views,
           p.restore.tab \in Folders, Owned(p, {}), TabLoaded(p)
    PROVE  LET q == RestoreMail(p) IN
           /\ PageInv(q) /\ Ids(q) \subseteq Ids(p) \cup {FreeId(p)}
           /\ Owned(q, {}) /\ TabLoaded(q) /\ ~Awaiting(q)
<1>1. PICK view, o : view = p.restore /\ o = [p EXCEPT !.restore = NoDetail]
  OBVIOUS
<1>2. p \in Pages /\ view \in [tab : Tabs, email : Boxes \cup {None}, msg : Mails \cup {None}]
  BY <1>1, MailAssumption DEF PageInv, MailAssumption
<1>3. /\ o \in Pages /\ o.calls = p.calls /\ o.tab = p.tab /\ o.email = p.email
      /\ o.active = p.active /\ o.detail = p.detail /\ o.search = p.search
      /\ o.lists = p.lists /\ o.offers = p.offers /\ o.selected = p.selected
  BY <1>1, <1>2 DEF Pages
<1>4. ViewInv(o)
  BY <1>3 DEF PageInv, ViewInv, ListsFit, DetailFits, Shown
<1>5. \A c \in o.calls : CallFits(o, c)
  BY <1>3 DEF PageInv, CallsInv, CallFits, NoneAwaited, Resumes, FirstIfSilent, SearchAwaited,
              DetailAwaited
<1>6. PageInv(o)
  BY <1>3, <1>4, <1>5 DEF PageInv, CallsInv
<1>7. /\ Ids(o) = Ids(p) /\ NoneAwaited(o) /\ ~Awaiting(o) /\ Free(o) = Free(p)
      /\ FreeId(o) = FreeId(p)
  BY <1>3 DEF Ids, NoneAwaited, Awaiting, Free, FreeId
<1>8. Owned(o, {}) /\ TabLoaded(o)
  BY <1>3 DEF Owned, InboxOwned, SearchOwned, DetailOwned, FolderOwned, TabLoaded
<1>9. CASE view.msg # None /\ p.tab = view.tab /\ view.msg \in p.lists[p.tab].items
  <2>1. PICK m, kind, trash : /\ m = view.msg /\ kind = (IF p.tab = "sent" THEN "sentDetail" ELSE "detail")
                              /\ trash = (p.tab = "trash") /\ trash \in BOOLEAN
    OBVIOUS
  <2>2. PICK q : q = OpenDetailShell(o, kind, m, trash)
    OBVIOUS
  <2>3. RestoreMail(p) = q
    BY <1>1, <1>9, <2>1, <2>2 DEF RestoreMail
  <2>4. /\ m \in Mails /\ Home[m] = o.email /\ o.email \in Boxes /\ o.tab \in Folders
    <3>1. p.tab \in Folders
      BY <1>1, <1>9
    <3>2. m \in Mails
      BY <1>2, <1>9, <2>1
    <3>3. Home[m] = p.email
      BY <1>9, <2>1, <3>1 DEF PageInv, ViewInv, ListsFit, AllOf
    <3>4. Home[m] \in Boxes
      BY <3>2, MailAssumption DEF MailAssumption
    <3> QED
      BY <1>3, <3>1, <3>2, <3>3, <3>4
  <2>5. /\ kind \in {"detail", "sentDetail"}
        /\ o.tab # "imap" => (kind = "sentDetail" <=> o.tab = "sent")
        /\ o.tab # "imap" => (trash <=> o.tab = "trash")
    BY <1>3, <2>1
  <2>6. Free(o) # {}
    BY <1>7
  <2>7. /\ PageInv(q) /\ Sent(o, q, FreeId(o)) /\ Owned(q, {} \ {"detail"}) /\ TabLoaded(q)
    BY <1>6, <1>8, <2>1, <2>2, <2>4, <2>5, <2>6, OpenKeeps
  <2>8. {} \ {"detail"} = {}
    OBVIOUS
  <2> QED
    BY <1>7, <2>3, <2>7, <2>8 DEF Sent
<1>10. CASE ~(view.msg # None /\ p.tab = view.tab /\ view.msg \in p.lists[p.tab].items)
  <2>1. RestoreMail(p) = o
    BY <1>1, <1>10 DEF RestoreMail
  <2> QED
    BY <1>6, <1>7, <1>8, <2>1
<1> QED
  BY <1>9, <1>10

LEMMA ResumeKeeps ==
    ASSUME NEW p, PageInv(p), NoneAwaited(p), Free(p) # {}, p.restore \in Views,
           Owned(p, {}), TabLoaded(p), NEW c,
           c.kind # "query" => c.kind \in {"sent", "trash"} /\ p.restore.tab = c.kind
    PROVE  LET q == Resume(p, c) IN
           PageInv(q) /\ Owned(q, {}) /\ TabLoaded(q) /\ ~Awaiting(q)
<1>1. PICK view : view = p.restore
  OBVIOUS
<1>2. p \in Pages /\ view \in [tab : Tabs, email : Boxes \cup {None}, msg : Mails \cup {None}]
  BY <1>1, MailAssumption DEF PageInv, MailAssumption
<1>3. CASE c.kind # "query"
  <2>1. Resume(p, c) = RestoreMail(p)
    BY <1>3 DEF Resume
  <2>2. p.restore.tab \in Folders
    BY <1>3 DEF Folders
  <2> QED
    BY <2>1, <2>2, RestoreKeeps
<1>4. CASE c.kind = "query" /\ (view.tab = "imap" \/ p.email = None)
  <2>1. PICK o : o = [p EXCEPT !.restore = NoDetail]
    OBVIOUS
  <2>2. Resume(p, c) = o
    BY <1>1, <1>4, <2>1 DEF Resume
  <2>3. /\ o \in Pages /\ o.calls = p.calls /\ o.tab = p.tab /\ o.email = p.email
        /\ o.active = p.active /\ o.detail = p.detail /\ o.search = p.search
        /\ o.lists = p.lists /\ o.offers = p.offers /\ o.selected = p.selected
    BY <1>2, <2>1 DEF Pages
  <2>4. ViewInv(o)
    BY <2>3 DEF PageInv, ViewInv, ListsFit, DetailFits, Shown
  <2>5. \A d \in o.calls : CallFits(o, d)
    BY <2>3 DEF PageInv, CallsInv, CallFits, NoneAwaited, Resumes, FirstIfSilent, SearchAwaited,
                DetailAwaited
  <2>6. PageInv(o)
    BY <2>3, <2>4, <2>5 DEF PageInv, CallsInv
  <2>7. Owned(o, {}) /\ TabLoaded(o) /\ ~Awaiting(o)
    BY <2>3 DEF Owned, InboxOwned, SearchOwned, DetailOwned, FolderOwned, TabLoaded,
                NoneAwaited, Awaiting
  <2> QED
    BY <2>2, <2>6, <2>7
<1>5. CASE c.kind = "query" /\ view.tab \in {"sent", "trash"} /\ p.email # None
  <2>1. PICK o : o = SwitchTab(p, view.tab)
    OBVIOUS
  <2>2. /\ Step(p, o) /\ o.tab = view.tab /\ o.email = p.email /\ TabLoaded(o)
        /\ Loads(o, view.tab)
    BY <1>2, <1>5, <2>1, SwitchTabKeeps
  <2>3. PICK w : w = CHOOSE d \in o.calls : d.kind = view.tab /\ d.current
    OBVIOUS
  <2>4. w \in o.calls /\ w.kind = view.tab
    BY <2>2, <2>3 DEF Loads
  <2>5. PICK q : q = Await(o, w.id)
    OBVIOUS
  <2>6. Resume(p, c) = q
    BY <1>1, <1>5, <2>1, <2>3, <2>5 DEF Resume
  <2>7. /\ PageInv(o) /\ NoneAwaited(o) /\ o.restore \in Views /\ o.restore.tab = w.kind
        /\ w.kind \in {"sent", "trash"} /\ Owned(o, {})
    BY <1>1, <1>5, <2>2, <2>4 DEF Step
  <2>8. /\ PageInv(q) /\ (\A T : Owned(o, T) => Owned(q, T)) /\ TabLoaded(q)
        /\ Awaiting(q) => w.kind = "query"
    BY <2>2, <2>4, <2>5, <2>7, AwaitKeeps
  <2> QED
    BY <2>6, <2>7, <2>8
<1>6. CASE c.kind = "query" /\ view.tab \notin {"imap", "sent", "trash"} /\ p.email # None
  <2>1. Resume(p, c) = RestoreMail(p)
    BY <1>1, <1>6 DEF Resume
  <2>2. p.restore.tab \in Folders
    BY <1>1, <1>2, <1>6 DEF Tabs, Folders
  <2> QED
    BY <2>1, <2>2, RestoreKeeps
<1> QED
  BY <1>3, <1>4, <1>5, <1>6

LEMMA FolderReplySends ==
    ASSUME NEW p, p \in Pages, NEW c
    PROVE  FolderReply(p, c).calls = p.calls
<1>1. \A l : [p EXCEPT !.lists[c.kind] = l].calls = p.calls
  BY DEF Pages
<1> QED
  BY <1>1 DEF FolderReply

\* A reply is dealt with, and restoreViewState goes on after the one it awaits.
LEMMA DeliverKeeps ==
    ASSUME MailInv, NEW c \in page.calls, Deliver(c)
    PROVE  PageInv(page') /\ Owned(page', {}) /\ TabLoaded(page') /\ RoomLeft(page')
<1>1. PICK o, q : o = Without(page, c) /\ q = Handled(o, c)
  OBVIOUS
<1>2. page' = (IF c.awaited THEN Resume(q, c) ELSE q) /\ c.reply # "none"
  BY <1>1 DEF Deliver, Without
<1>3. /\ PageInv(page) /\ Owned(page, {}) /\ TabLoaded(page) /\ RoomLeft(page)
  BY DEF MailInv
<1>4. /\ Over(o, c) /\ SameView(page, o) /\ Ids(o) = Ids(page) \ {c.id}
      /\ Awaiting(o) => Awaiting(page)
  BY <1>1, <1>3, WithoutIs
<1>5. Served(o, q)
  BY <1>1, <1>2, <1>4, HandledServes
<1>6. c.id \in 1 .. MaxCalls + 2 /\ c.id \in Ids(page) /\ c.id \notin Ids(o)
  BY <1>3, <1>4 DEF PageInv, Pages, Calls, Ids
<1>7. Awaiting(page) => Free(q) # {}
  <2> SUFFICES ASSUME Awaiting(page) PROVE Free(q) # {}
    OBVIOUS
  <2>1. PICK i : i \in 1 .. MaxCalls + 2 /\ i \notin Ids(page)
    BY <1>3 DEF RoomLeft, Awaiting, Free, Ids
  <2>2. i # c.id /\ i \notin Ids(o)
    BY <1>4, <1>6, <2>1
  <2>3. i \notin Ids(q) \/ c.id \notin Ids(q)
    BY <1>5, <1>6, <2>2 DEF Served
  <2> QED
    BY <1>6, <2>1, <2>3 DEF Free, Ids
<1>8. CASE ~c.awaited
  <2>1. RoomLeft(q)
    BY <1>4, <1>5, <1>7 DEF Served, RoomLeft, Awaiting
  <2> QED
    BY <1>2, <1>5, <1>8, <2>1 DEF Served
<1>9. CASE c.awaited
  <2>1. PageInv(q) /\ Owned(q, {}) /\ TabLoaded(q) /\ q.restore = o.restore
    BY <1>5 DEF Served
  <2>2. NoneAwaited(q)
    BY <1>4, <1>5, <1>9 DEF Served, Over
  <2>3. /\ q.restore \in Views
        /\ c.kind # "query" => c.kind \in {"sent", "trash"} /\ q.restore.tab = c.kind
    BY <1>4, <1>9, <2>1 DEF Over, CallFits, Resumes
  <2>4. Free(q) # {}
    <3>1. CASE c.kind = "query"
      BY <1>7, <1>9, <3>1 DEF Awaiting
    <3>2. CASE c.kind # "query"
      <4>1. c.kind \in {"sent", "trash"} /\ o \in Pages
        BY <1>4, <2>3, <3>2 DEF Over, PageInv
      <4>2. q = FolderReply(o, c)
        BY <1>1, <4>1 DEF Handled
      <4>3. Ids(q) = Ids(o)
        BY <4>1, <4>2, FolderReplySends DEF Ids
      <4> QED
        BY <1>6, <4>3 DEF Free, Ids
    <3> QED
      BY <3>1, <3>2
  <2>5. PageInv(page') /\ Owned(page', {}) /\ TabLoaded(page') /\ ~Awaiting(page')
    BY <1>2, <1>9, <2>1, <2>2, <2>3, <2>4, ResumeKeeps
  <2> QED
    BY <2>5 DEF RoomLeft, Awaiting
<1> QED
  BY <1>8, <1>9

(***************************************************************************)
(* The steps                                                               *)
(***************************************************************************)
\* What is to show of the page after a step.
PageKept == PageInv(page') /\ Owned(page', {}) /\ TabLoaded(page') /\ RoomLeft(page')

\* The server has acted on a request, or it failed.
LEMMA ReplyKeeps ==
    ASSUME MailInv, NEW c \in page.calls, NEW d \in Calls, Alike(d, c), d.awaited = c.awaited,
           Sound(d), page' = [page EXCEPT !.calls = (@ \ {c}) \cup {d}]
    PROVE  PageKept
<1>1. /\ PageInv(page) /\ page \in Pages /\ page.calls \in SUBSET Calls /\ Distinct(page.calls)
      /\ \A b \in page.calls : CallFits(page, b)
  BY DEF MailInv, PageInv, Pages, CallsInv
<1>2. PICK p, q : p = page /\ q = page'
  OBVIOUS
<1>3. q \in Pages /\ SameView(p, q) /\ q.calls = (p.calls \ {c}) \cup {d}
  <2>1. (p.calls \ {c}) \cup {d} \in SUBSET Calls
    BY <1>1, <1>2
  <2>2. q = [p EXCEPT !.calls = (p.calls \ {c}) \cup {d}]
    BY <1>2
  <2> QED
    BY <1>1, <1>2, <2>1, <2>2, WithCalls
<1>4. \A b \in p.calls : Alike(b, b)
  BY DEF Alike
<1>5. \A e \in q.calls : \E b \in p.calls : Alike(e, b)
  BY <1>2, <1>3, <1>4
<1>6. \A b \in p.calls : \E e \in q.calls : Alike(e, b)
  BY <1>2, <1>3, <1>4
<1>7. \A e, b \in q.calls : e = b \/ (e.id # b.id /\ ~(e.awaited /\ b.awaited))
  BY <1>1, <1>2, <1>3 DEF Distinct, Alike
<1>8. ASSUME NEW e \in q.calls PROVE Sound(e) /\ Resumes(q, e)
  <2>1. CASE e = d
    <3>1. Resumes(p, c)
      BY <1>1, <1>2 DEF CallFits
    <3> QED
      BY <1>3, <2>1, <3>1 DEF Alike, Resumes, SameView
  <2>2. CASE e # d
    <3>1. Sound(e) /\ Resumes(p, e)
      BY <1>1, <1>2, <1>3, <2>2 DEF CallFits
    <3> QED
      BY <1>3, <3>1 DEF Resumes, SameView
  <2> QED
    BY <2>1, <2>2
<1>9. /\ PageInv(q) /\ Ids(q) = Ids(p)
      /\ \A T : Owned(p, T) => Owned(q, T)
      /\ TabLoaded(p) => TabLoaded(q)
  BY <1>1, <1>2, <1>3, <1>5, <1>6, <1>7, <1>8, AlikeKeeps, ZenonT(60)
<1>10. RoomLeft(q)
  <2>1. Awaiting(q) => Awaiting(p)
    BY <1>2, <1>3 DEF Awaiting, Alike
  <2> QED
    BY <1>2, <1>9, <2>1 DEF MailInv, RoomLeft, Awaiting, Free, Ids
<1> QED
  BY <1>2, <1>9, <1>10 DEF MailInv, PageKept

LEMMA AnsweredKeeps ==
    ASSUME MailInv, NEW c \in page.calls, NEW reply \in {"none", "ok", "refused", "lost"},
           NEW got \in SUBSET Mails, NEW whole \in SUBSET Mails, AllOf(got, c.email),
           Answered(c, reply, got, whole)
    PROVE  PageKept
<1>1. c \in Calls
  BY DEF MailInv, PageInv, Pages
<1>2. PICK d : d = [c EXCEPT !.reply = reply, !.got = got, !.read = got \cap seen, !.whole = whole]
  OBVIOUS
<1>3. /\ d \in Calls /\ d.got = got /\ d.read = got \cap seen /\ d.email = c.email
      /\ d.awaited = c.awaited
  BY <1>1, <1>2 DEF Calls
<1>4. Alike(d, c)
  BY <1>1, <1>2 DEF Alike, Calls
<1>5. Sound(d)
  BY <1>3 DEF Sound
<1>6. page' = [page EXCEPT !.calls = (@ \ {c}) \cup {d}]
  BY <1>2 DEF Answered
<1> QED
  BY <1>3, <1>4, <1>5, <1>6, ReplyKeeps

LEMMA FailedKeeps ==
    ASSUME MailInv, NEW c \in page.calls, NEW reply \in {"none", "ok", "refused", "lost"},
           page' = [page EXCEPT !.calls = (@ \ {c}) \cup {[c EXCEPT !.reply = reply]}]
    PROVE  PageKept
<1>1. c \in Calls /\ Sound(c)
  BY DEF MailInv, PageInv, Pages, CallsInv, CallFits
<1>2. PICK d : d = [c EXCEPT !.reply = reply]
  OBVIOUS
<1>3. /\ d \in Calls /\ d.got = c.got /\ d.read = c.read /\ d.email = c.email
      /\ d.awaited = c.awaited
  BY <1>1, <1>2 DEF Calls
<1>4. Alike(d, c)
  BY <1>1, <1>2 DEF Alike, Calls
<1>5. Sound(d)
  BY <1>1, <1>3 DEF Sound
<1>6. page' = [page EXCEPT !.calls = (@ \ {c}) \cup {d}]
  BY <1>2
<1> QED
  BY <1>3, <1>4, <1>5, <1>6, ReplyKeeps

\* What the server keeps for a mailbox is of that mailbox.
LEMMA KeptIs ==
    ASSUME NEW box, NEW where
    PROVE  Kept(box, where) \in SUBSET Mails /\ AllOf(Kept(box, where), box)
BY DEF Kept, AllOf

LEMMA ServerKeeps ==
    ASSUME MailInv, NEW c \in page.calls,
           \/ AnswerInbox(c) \/ AnswerSearch(c) \/ AnswerFolder(c) \/ AnswerDetail(c)
           \/ AnswerSentDetail(c) \/ AnswerChange(c) \/ Fail(c)
    PROVE  PageKept
<1>1. CASE AnswerInbox(c)
  <2>1. PICK inbox : inbox = Kept(c.email, "inbox")
    OBVIOUS
  <2>2. PICK got : got = Newest(inbox, c.at, c.limit)
    OBVIOUS
  <2>3. inbox \in SUBSET Mails /\ AllOf(inbox, c.email) /\ got \subseteq inbox
    BY <2>1, <2>2, KeptIs DEF Newest
  <2>4. got \in SUBSET Mails /\ AllOf(got, c.email) /\ Answered(c, "ok", got, inbox)
    BY <1>1, <2>1, <2>2, <2>3 DEF AnswerInbox, AllOf
  <2> QED
    BY <2>3, <2>4, AnsweredKeeps
<1>2. CASE AnswerSearch(c)
  <2>1. PICK inbox : inbox = Kept(c.email, "inbox")
    OBVIOUS
  <2>2. inbox \in SUBSET Mails /\ AllOf(inbox, c.email) /\ Answered(c, "ok", inbox, inbox)
    BY <1>2, <2>1, KeptIs DEF AnswerSearch
  <2> QED
    BY <2>2, AnsweredKeeps
<1>3. CASE AnswerFolder(c)
  <2>1. PICK all : all = Kept(c.email, c.kind)
    OBVIOUS
  <2>2. all \in SUBSET Mails /\ AllOf(all, c.email)
    BY <2>1, KeptIs
  <2>3. \E got \in SUBSET all : Answered(c, "ok", got, all)
    <3>1. CASE c.kind = "sent"
      BY <1>3, <2>1, <3>1 DEF AnswerFolder, Newest
    <3>2. CASE c.kind # "sent"
      BY <1>3, <2>1, <3>2 DEF AnswerFolder
    <3> QED
      BY <3>1, <3>2
  <2>4. PICK got \in SUBSET all : Answered(c, "ok", got, all)
    BY <2>3
  <2>5. got \in SUBSET Mails /\ AllOf(got, c.email)
    BY <2>2, <2>4 DEF AllOf
  <2> QED
    BY <2>2, <2>4, <2>5, AnsweredKeeps
<1>4. CASE AnswerDetail(c)
  <2>1. PICK reply \in {"ok", "refused"} : Answered(c, reply, {}, {})
    BY <1>4 DEF AnswerDetail
  <2>2. AllOf({}, c.email)
    BY DEF AllOf
  <2> QED
    BY <2>1, <2>2, AnsweredKeeps
<1>5. CASE AnswerSentDetail(c)
  <2>1. Answered(c, "ok", {}, {})
    BY <1>5 DEF AnswerSentDetail
  <2>2. AllOf({}, c.email)
    BY DEF AllOf
  <2> QED
    BY <2>1, <2>2, AnsweredKeeps
<1>6. CASE AnswerChange(c)
  <2>1. PICK reply \in {"ok", "refused"} :
          page' = [page EXCEPT !.calls = (@ \ {c}) \cup {[c EXCEPT !.reply = reply]}]
    BY <1>6 DEF AnswerChange
  <2> QED
    BY <2>1, FailedKeeps
<1>7. CASE Fail(c)
  <2>1. PICK reply \in {"refused", "lost"} :
          page' = [page EXCEPT !.calls = (@ \ {c}) \cup {[c EXCEPT !.reply = reply]}]
    BY <1>7 DEF Fail
  <2> QED
    BY <2>1, FailedKeeps
<1> QED
  BY <1>1, <1>2, <1>3, <1>4, <1>5, <1>6, <1>7

\* The numbers that are left: room for what a click sends, and for the restore.
RoomFor(p, n) ==
    \/ n = 1 /\ Free(p) # {}
    \/ n = 2 /\ \E i, j \in Free(p) : i # j
    \/ n = 3 /\ \E i, j, k \in Free(p) : i # j /\ j # k /\ i # k

LEMMA Rooms ==
    ASSUME NEW p, PageInv(p), Cardinality(p.calls) < MaxCalls
    PROVE  RoomFor(p, 3)
<1> DEFINE I == 1 .. MaxCalls + 2
           f == [c \in p.calls |-> c.id]
<1>1. p.calls \in SUBSET Calls /\ Distinct(p.calls) /\ MaxCalls \in Nat
  BY MailAssumption DEF PageInv, Pages, CallsInv, MailAssumption
<1>2. IsFiniteSet(I) /\ Cardinality(I) = MaxCalls + 2
  BY <1>1, FS_Interval
<1>3. \A c \in p.calls : c.id \in I
  BY <1>1 DEF Calls
<1>4. f \in Injection(p.calls, I)
  BY <1>1, <1>3 DEF Injection, IsInjective, Distinct
<1>5. IsFiniteSet(p.calls)
  BY <1>2, <1>4, FS_Injection
<1>6. f \in Surjection(p.calls, Ids(p))
  BY DEF Surjection, Ids
<1>7. IsFiniteSet(Ids(p)) /\ Cardinality(Ids(p)) <= Cardinality(p.calls)
  BY <1>5, <1>6, FS_Surjection
<1>8. Ids(p) \subseteq I /\ Free(p) = I \ Ids(p)
  BY <1>3 DEF Ids, Free
<1>9. Cardinality(p.calls) \in Nat /\ Cardinality(Ids(p)) \in Nat
  BY <1>5, <1>7, FS_CardinalityType
<1> HIDE DEF I, f
<1>10. IsFiniteSet(Free(p)) /\ Cardinality(Free(p)) >= 3
  <2>1. I \cap Ids(p) = Ids(p)
    BY <1>8
  <2>2. IsFiniteSet(I \ Ids(p)) /\ Cardinality(I \ Ids(p)) = Cardinality(I) - Cardinality(I \cap Ids(p))
    BY <1>2, FS_Difference
  <2>3. Cardinality(Free(p)) = MaxCalls + 2 - Cardinality(Ids(p))
    <3>1. PICK S : S = I \cap Ids(p)
      OBVIOUS
    <3>2. S = Ids(p) /\ Cardinality(I \ Ids(p)) = Cardinality(I) - Cardinality(S)
      BY <2>1, <2>2, <3>1
    <3>3. Cardinality(S) = Cardinality(Ids(p))
      BY <3>2
    <3>4. Cardinality(I \ Ids(p)) = MaxCalls + 2 - Cardinality(S)
      BY <1>1, <1>2, <1>9, <3>2, <3>3
    <3> QED
      BY <1>8, <3>3, <3>4
  <2> QED
    BY <1>1, <1>7, <1>8, <1>9, <2>2, <2>3
<1>11. PICK S : S = Free(p)
  OBVIOUS
<1>12. IsFiniteSet(S) /\ Cardinality(S) \in Nat /\ Cardinality(S) >= 3
  BY <1>10, <1>11, FS_CardinalityType
<1>13. PICK i : i \in S
  BY <1>12, FS_EmptySet
<1>14. /\ IsFiniteSet(S \ {i}) /\ Cardinality(S \ {i}) = Cardinality(S) - 1
  BY <1>12, <1>13, FS_RemoveElement
<1>15. PICK j : j \in S \ {i}
  BY <1>12, <1>14, FS_EmptySet
<1>16. /\ IsFiniteSet((S \ {i}) \ {j})
       /\ Cardinality((S \ {i}) \ {j}) = Cardinality(S \ {i}) - 1
  BY <1>14, <1>15, FS_RemoveElement
<1>17. PICK k : k \in (S \ {i}) \ {j}
  BY <1>12, <1>14, <1>16, FS_EmptySet
<1> QED
  BY <1>11, <1>13, <1>15, <1>17 DEF RoomFor

LEMMA RoomLess ==
    ASSUME NEW p, NEW q, NEW x, Ids(q) \subseteq Ids(p) \cup {x}
    PROVE  /\ RoomFor(p, 3) => RoomFor(q, 2)
           /\ RoomFor(p, 2) => RoomFor(q, 1)
<1>1. \A i \in Free(p) : i = x \/ i \in Free(q)
  BY DEF Free, Ids
<1> QED
  BY <1>1 DEF RoomFor

\* What the page is after a click, if nothing more than one request is sent.
LEMMA ClickKeeps ==
    ASSUME MailInv, NEW q, page' = q, RoomFor(page, 3), NEW x, Ids(q) \subseteq Ids(page) \cup {x},
           PageInv(q), Owned(q, {}), TabLoaded(q)
    PROVE  PageKept
<1>1. Free(q) # {}
  BY RoomLess DEF RoomFor
<1> QED
  BY <1>1 DEF PageKept, RoomLeft

LEMMA CalmClick ==
    ASSUME MailInv, NEW q, page' = q, RoomFor(page, 3), Calm(page, q)
    PROVE  PageKept
<1>1. /\ PageInv(page) /\ Owned(page, {}) /\ TabLoaded(page)
  BY DEF MailInv
<1> QED
  BY <1>1, ClickKeeps DEF Calm, Tame

LEMMA QueryInboxKeeps ==
    ASSUME NEW p, PageInv(p), Free(p) # {}, Owned(p, {}), TabLoaded(p), NEW email \in Boxes
    PROVE  LET q == QueryInbox(p, email) IN
           /\ PageInv(q) /\ Ids(q) = Ids(p) \cup {FreeId(p)} /\ Owned(q, {}) /\ TabLoaded(q)
<1> DEFINE F(c) == [c EXCEPT !.wanted = c.id = FreeId(p)]
<1>1. PICK o : o = LoadInbox(p, email, FALSE)
  OBVIOUS
<1>2. /\ PageInv(o) /\ Sent(p, o, FreeId(p)) /\ Owned(o, {} \ {"inbox"}) /\ TabLoaded(o)
  BY <1>1, LoadInboxKeeps
<1>3. Owned(o, {})
  <2>1. {} \ {"inbox"} = {}
    OBVIOUS
  <2> QED
    BY <1>2, <2>1
<1>4. o.calls \in SUBSET Calls /\ o \in Pages /\ Distinct(o.calls)
  BY <1>2 DEF PageInv, Pages, CallsInv
<1>5. \A c \in o.calls : /\ F(c) \in Calls /\ Alike(F(c), c) /\ F(c).awaited = c.awaited
                         /\ F(c).got = c.got /\ F(c).read = c.read
  <2> SUFFICES ASSUME NEW c \in o.calls
               PROVE  /\ F(c) \in Calls /\ Alike(F(c), c) /\ F(c).awaited = c.awaited
                      /\ F(c).got = c.got /\ F(c).read = c.read
    OBVIOUS
  <2>1. c \in Calls
    BY <1>4
  <2>2. F(c) \in Calls
    BY <2>1 DEF Calls
  <2>3. /\ F(c).id = c.id /\ F(c).kind = c.kind /\ F(c).opt = c.opt /\ F(c).email = c.email
        /\ F(c).mails = c.mails /\ F(c).got = c.got /\ F(c).read = c.read
        /\ F(c).current = c.current /\ F(c).awaited = c.awaited
    BY <2>1 DEF Calls
  <2> QED
    BY <2>2, <2>3 DEF Alike
<1>6. PICK C : C = {F(c) : c \in o.calls}
  OBVIOUS
<1>7. QueryInbox(p, email) = [o EXCEPT !.calls = C]
  BY <1>1, <1>6 DEF QueryInbox
<1>8. C \in SUBSET Calls
  BY <1>5, <1>6
<1> HIDE DEF F
<1>9. (\A d \in C : \E c \in o.calls : d = F(c)) /\ (\A c \in o.calls : F(c) \in C)
  BY <1>6
<1>10. PICK q : q = QueryInbox(p, email)
  OBVIOUS
<1>11. q \in Pages /\ SameView(o, q) /\ q.calls = C
  BY <1>4, <1>7, <1>8, <1>10, WithCalls
<1>12. \A d \in q.calls : \E c \in o.calls : Alike(d, c)
  BY <1>5, <1>9, <1>11
<1>13. \A c \in o.calls : \E d \in q.calls : Alike(d, c)
  BY <1>5, <1>9, <1>11
<1>14. ASSUME NEW d \in q.calls, NEW e \in q.calls
       PROVE  d = e \/ (d.id # e.id /\ ~(d.awaited /\ e.awaited))
  <2>1. PICK c \in o.calls, b \in o.calls : d = F(c) /\ e = F(b)
    BY <1>9, <1>11
  <2>2. d.id = c.id /\ e.id = b.id /\ d.awaited = c.awaited /\ e.awaited = b.awaited
    BY <1>5, <2>1 DEF Alike
  <2>3. CASE c = b
    BY <2>1, <2>3
  <2>4. CASE c # b
    BY <1>4, <2>2, <2>4 DEF Distinct
  <2> QED
    BY <2>3, <2>4
<1>15. ASSUME NEW d \in q.calls PROVE Sound(d) /\ Resumes(q, d)
  <2>1. PICK c \in o.calls : d = F(c)
    BY <1>9, <1>11
  <2>2. Sound(c) /\ Resumes(o, c)
    BY <1>2 DEF PageInv, CallsInv, CallFits
  <2>3. /\ d.kind = c.kind /\ d.email = c.email /\ d.got = c.got /\ d.read = c.read
        /\ d.awaited = c.awaited
    BY <1>5, <2>1 DEF Alike
  <2>4. Sound(d)
    BY <2>2, <2>3 DEF Sound
  <2>5. Resumes(q, d)
    BY <1>11, <2>2, <2>3 DEF Resumes, SameView
  <2> QED
    BY <2>4, <2>5
<1>16. /\ PageInv(q) /\ Ids(q) = Ids(o)
       /\ \A T : Owned(o, T) => Owned(q, T)
       /\ TabLoaded(o) => TabLoaded(q)
  BY <1>2, <1>11, <1>12, <1>13, <1>14, <1>15, AlikeKeeps, ZenonT(60)
<1> QED
  BY <1>2, <1>3, <1>10, <1>16 DEF Sent

\* A request is sent that owns its own spinner, or needs none.
LEMMA SendKeeps ==
    ASSUME NEW p, PageInv(p), Free(p) # {}, NEW call \in Calls, call.id = FreeId(p), ~call.awaited,
           CallFits(p, call), TabLoaded(p), Owned(p, {Ticket(call.kind)}),
           LET q == Send(p, call) IN
           SameView(p, q) /\ call \in q.calls =>
               CASE Ticket(call.kind) = "inbox" -> InboxOwned(q)
                 [] Ticket(call.kind) = "search" -> SearchOwned(q)
                 [] OTHER -> Ticket(call.kind) = "none"
    PROVE  LET q == Send(p, call) IN
           /\ PageInv(q) /\ Ids(q) = Ids(p) \cup {FreeId(p)} /\ Owned(q, {}) /\ TabLoaded(q)
<1>1. PICK q, t : q = Send(p, call) /\ t = Ticket(call.kind)
  OBVIOUS
<1>2. call.id \notin Ids(p)
  BY FreeIdIs
<1>3. /\ PageInv(q) /\ SameView(p, q) /\ call \in q.calls
      /\ \A T : Owned(p, T) => Owned(q, T \cup {t})
      /\ Ids(q) = Ids(p) \cup {call.id}
      /\ TabLoaded(p) => TabLoaded(q)
  BY <1>1, <1>2, Sends
<1>4. Owned(q, {t} \cup {t})
  BY <1>1, <1>3
<1>5. \/ t = "inbox" /\ InboxOwned(q)
      \/ t = "search" /\ SearchOwned(q)
      \/ t = "none"
  BY <1>1, <1>3
<1>6. Owned(q, {})
  BY <1>4, <1>5 DEF Owned
<1> QED
  BY <1>1, <1>3, <1>6

\* The greater and the lesser of two numbers.
LEMMA MaxOfTwo ==
    ASSUME NEW a \in Nat, NEW b \in Nat
    PROVE  Max({a, b}) \in {a, b} /\ Min({a, b}) \in {a, b}
<1>1. \E x \in {a, b} : \A y \in {a, b} : x >= y
  <2>1. CASE a >= b
    BY <2>1
  <2>2. CASE b >= a
    BY <2>2
  <2> QED
    BY <2>1, <2>2
<1>2. PICK w : w = CHOOSE x \in {a, b} : \A y \in {a, b} : x >= y
  OBVIOUS
<1>3. w \in {a, b}
  BY <1>1, <1>2
<1>4. Max({a, b}) = w
  BY <1>2 DEF Max
<1>5. {a, b} \in SUBSET Nat /\ {a, b} # {}
  OBVIOUS
<1> QED
  BY <1>3, <1>4, <1>5, MinIs

LEMMA ClickRoom ==
    ASSUME MailInv, Cardinality(page.calls) < MaxCalls
    PROVE  /\ RoomFor(page, 3) /\ Free(page) # {}
           /\ PageInv(page) /\ Owned(page, {}) /\ TabLoaded(page)
<1>1. PageInv(page) /\ Owned(page, {}) /\ TabLoaded(page)
  BY DEF MailInv
<1>2. RoomFor(page, 3)
  BY <1>1, Rooms
<1> QED
  BY <1>1, <1>2 DEF RoomFor

LEMMA StepClick ==
    ASSUME MailInv, NEW q, page' = q, RoomFor(page, 3), Step(page, q), TabLoaded(q)
    PROVE  PageKept
<1>1. Owned(page, {})
  BY DEF MailInv
<1> QED
  BY <1>1, ClickKeeps DEF Step

LEMMA QueryKeeps ==
    ASSUME MailInv, NEW box \in Boxes, Query(box)
    PROVE  PageKept
<1>1. Cardinality(page.calls) < MaxCalls /\ page' = QueryInbox(page, box)
  BY DEF Query, Click
<1>2. /\ RoomFor(page, 3) /\ Free(page) # {}
      /\ PageInv(page) /\ Owned(page, {}) /\ TabLoaded(page)
  BY <1>1, ClickRoom
<1>3. PICK q : q = QueryInbox(page, box)
  OBVIOUS
<1>4. /\ PageInv(q) /\ Ids(q) = Ids(page) \cup {FreeId(page)} /\ Owned(q, {}) /\ TabLoaded(q)
  BY <1>2, <1>3, QueryInboxKeeps
<1> QED
  BY <1>1, <1>2, <1>3, <1>4, ClickKeeps

LEMMA QueryNothingKeeps ==
    ASSUME MailInv, QueryNothing
    PROVE  PageKept
<1>1. Cardinality(page.calls) < MaxCalls /\ page' = ResetMailDetail(page)
  BY DEF QueryNothing, Click
<1>2. /\ RoomFor(page, 3) /\ Free(page) # {}
      /\ PageInv(page) /\ Owned(page, {}) /\ TabLoaded(page)
  BY <1>1, ClickRoom
<1>3. PICK q : q = ResetMailDetail(page)
  OBVIOUS
<1>4. /\ PageInv(q) /\ Tame(page, q) /\ Owned(q, {} \ {"detail"}) /\ TabLoaded(q)
  BY <1>2, <1>3, ResetKeeps
<1>5. {} \ {"detail"} = {} /\ Ids(q) \subseteq Ids(page) \cup {0}
  BY <1>4 DEF Tame
<1>6. Owned(q, {})
  BY <1>4, <1>5
<1> QED
  BY <1>1, <1>2, <1>3, <1>4, <1>5, <1>6, ClickKeeps

\* The only click that may send two requests.
LEMMA UseRecentKeeps ==
    ASSUME MailInv, NEW box \in Boxes, UseRecent(box)
    PROVE  PageKept
<1>1. Cardinality(page.calls) < MaxCalls
  BY DEF UseRecent, Click
<1>2. /\ RoomFor(page, 3) /\ Free(page) # {}
      /\ PageInv(page) /\ Owned(page, {}) /\ TabLoaded(page)
  BY <1>1, ClickRoom
<1>3. PICK o : o = IF page.tab = "inbox" THEN page ELSE SwitchTab(page, "inbox")
  OBVIOUS
<1>4. PageInv(o) /\ Owned(o, {}) /\ TabLoaded(o) /\ Ids(o) \subseteq Ids(page) \cup {FreeId(page)}
  <2>1. CASE page.tab = "inbox"
    BY <1>2, <1>3, <2>1
  <2>2. CASE page.tab # "inbox"
    <3>1. o = SwitchTab(page, "inbox") /\ "inbox" \in Tabs
      BY <1>3, <2>2 DEF Tabs, Folders
    <3>2. Step(page, o) /\ TabLoaded(o)
      BY <1>2, <3>1, SwitchTabKeeps
    <3> QED
      BY <1>2, <3>2 DEF Step
  <2> QED
    BY <2>1, <2>2
<1>5. RoomFor(o, 2) /\ Free(o) # {}
  <2>1. RoomFor(o, 2)
    BY <1>2, <1>4, RoomLess
  <2> QED
    BY <2>1 DEF RoomFor
<1>6. PICK q : q = QueryInbox(o, box)
  OBVIOUS
<1>7. /\ PageInv(q) /\ Ids(q) = Ids(o) \cup {FreeId(o)} /\ Owned(q, {}) /\ TabLoaded(q)
  BY <1>4, <1>5, <1>6, QueryInboxKeeps
<1>8. Free(q) # {}
  <2>1. RoomFor(q, 1)
    BY <1>5, <1>7, RoomLess
  <2> QED
    BY <2>1 DEF RoomFor
<1>9. page' = q
  BY <1>3, <1>6 DEF UseRecent
<1> QED
  BY <1>7, <1>8, <1>9 DEF PageKept, RoomLeft

LEMMA GoToKeeps ==
    ASSUME MailInv, NEW tab \in Tabs, GoTo(tab)
    PROVE  PageKept
<1>1. Cardinality(page.calls) < MaxCalls /\ page' = SwitchTab(page, tab)
  BY DEF GoTo, Click
<1>2. RoomFor(page, 3) /\ Free(page) # {} /\ PageInv(page)
  BY <1>1, ClickRoom
<1>3. PICK q : q = SwitchTab(page, tab)
  OBVIOUS
<1>4. Step(page, q) /\ TabLoaded(q)
  BY <1>2, <1>3, SwitchTabKeeps
<1> QED
  BY <1>1, <1>2, <1>3, <1>4, StepClick

\* The folder f is loaded, for a tab that is shown or for more of its list.
LEMMA LoadFolderClick ==
    ASSUME MailInv, RoomFor(page, 3), Free(page) # {}, page.email \in Boxes,
           NEW f \in {"sent", "trash"}, NEW append \in BOOLEAN,
           append => page.lists[f].status = "ready", page' = LoadFolder(page, f, append)
    PROVE  PageKept
<1>1. PageInv(page) /\ Owned(page, {}) /\ TabLoaded(page)
  BY DEF MailInv
<1>2. PICK q : q = LoadFolder(page, f, append)
  OBVIOUS
<1>3. PageInv(q) /\ Sent(page, q, FreeId(page)) /\ Owned(q, {} \ {f}) /\ TabLoaded(q)
  BY <1>1, <1>2, LoadFolderKeeps
<1>4. {} \ {f} = {} /\ Ids(q) \subseteq Ids(page) \cup {FreeId(page)}
  BY <1>3 DEF Sent
<1>5. Owned(q, {})
  BY <1>3, <1>4
<1> QED
  BY <1>2, <1>3, <1>4, <1>5, ClickKeeps

LEMMA RefreshTabKeeps ==
    ASSUME MailInv, RefreshCurrentTab
    PROVE  PageKept
<1>1. Cardinality(page.calls) < MaxCalls /\ page.tab # "imap" /\ page.email # None
  BY DEF RefreshCurrentTab, Click
<1>2. /\ RoomFor(page, 3) /\ Free(page) # {}
      /\ PageInv(page) /\ Owned(page, {}) /\ TabLoaded(page)
  BY <1>1, ClickRoom
<1>3. page.email \in Boxes /\ page.tab \in Folders
  BY <1>1, <1>2 DEF PageInv, Pages, Tabs
<1>4. CASE page.tab = "inbox"
  <2>1. page' = QueryInbox(page, page.email)
    BY <1>4 DEF RefreshCurrentTab
  <2>2. PICK q, box : box = page.email /\ q = QueryInbox(page, box)
    OBVIOUS
  <2>3. /\ PageInv(q) /\ Ids(q) = Ids(page) \cup {FreeId(page)} /\ Owned(q, {}) /\ TabLoaded(q)
    BY <1>2, <1>3, <2>2, QueryInboxKeeps
  <2> QED
    BY <1>2, <2>1, <2>2, <2>3, ClickKeeps
<1>5. CASE page.tab # "inbox"
  <2>1. page' = LoadFolder(page, page.tab, FALSE) /\ page.tab \in {"sent", "trash"}
    BY <1>3, <1>5 DEF RefreshCurrentTab, Folders
  <2>2. PICK f : f = page.tab
    OBVIOUS
  <2> QED
    BY <1>2, <1>3, <2>1, <2>2, LoadFolderClick
<1> QED
  BY <1>4, <1>5

LEMMA LoadMoreFolderKeeps ==
    ASSUME MailInv, NEW f \in {"sent", "trash"}, LoadMoreFolder(f)
    PROVE  PageKept
<1>1. Cardinality(page.calls) < MaxCalls
  BY DEF LoadMoreFolder, Click
<1>2. RoomFor(page, 3) /\ Free(page) # {} /\ PageInv(page)
  BY <1>1, ClickRoom
<1>3. page.email # None /\ page.lists[f].status = "ready" /\ page' = LoadFolder(page, f, TRUE)
  BY DEF LoadMoreFolder, FolderRowsShown
<1>4. page.email \in Boxes
  BY <1>2, <1>3 DEF PageInv, Pages
<1> QED
  BY <1>2, <1>3, <1>4, LoadFolderClick

\* A change of mails is sent: nothing on the page waits for it.
LEMMA ChangeClick ==
    ASSUME MailInv, RoomFor(page, 3), NEW p, Calm(page, p), Ids(p) = Ids(page),
           NEW call \in Calls, call.id = FreeId(p), ~call.awaited, Sound(call),
           call.kind \in {"delete", "batchDelete", "markRead", "undo", "restore", "purge"},
           page' = Send(p, call)
    PROVE  PageKept
<1>1. PageInv(p) /\ Owned(p, {}) /\ TabLoaded(p)
  BY DEF MailInv, Calm
<1>2. Free(p) # {}
  <2>1. RoomFor(p, 2)
    BY RoomLess
  <2> QED
    BY <2>1 DEF RoomFor
<1>3. Ticket(call.kind) = "none"
  BY DEF Ticket
<1>4. CallFits(p, call)
  BY <1>3 DEF CallFits, Resumes, FirstIfSilent, SearchAwaited, DetailAwaited
<1>5. Owned(p, {Ticket(call.kind)})
  BY <1>1 DEF Owned
<1>6. PICK q : q = Send(p, call)
  OBVIOUS
<1>7. /\ PageInv(q) /\ Ids(q) = Ids(p) \cup {FreeId(p)} /\ Owned(q, {}) /\ TabLoaded(q)
  BY <1>1, <1>2, <1>3, <1>4, <1>5, <1>6, SendKeeps
<1> QED
  BY <1>6, <1>7, ClickKeeps

LEMMA CalmSelf ==
    ASSUME NEW p, PageInv(p)
    PROVE  Calm(p, p)
BY DEF Calm, Tame

LEMMA BatchKeeps ==
    ASSUME MailInv, NEW kind \in {"batchDelete", "markRead"}, BatchAction(kind)
    PROVE  PageKept
<1>1. Cardinality(page.calls) < MaxCalls /\ page.email # None
  BY DEF BatchAction, Click, BatchBarShown
<1>2. /\ RoomFor(page, 3) /\ Free(page) # {} /\ PageInv(page)
  BY <1>1, ClickRoom
<1>3. page \in Pages /\ page.email \in Boxes /\ page.selected \in SUBSET Mails
  BY <1>1, <1>2 DEF PageInv, Pages
<1>4. PICK removed, read, r :
        /\ removed = page.selected \cap Shown(page)
        /\ read = IF page.search.active THEN page.search.read ELSE page.lists["inbox"].read
        /\ r = Request(page, kind, FALSE, page.email, page.selected)
  OBVIOUS
<1>5. IsRequest(r, page, kind, FALSE, page.email, page.selected)
  <2>1. kind \in Kinds
    BY DEF Kinds
  <2> QED
    BY <1>2, <1>3, <1>4, <2>1, RequestIs
<1>6. PICK call : call = [r EXCEPT !.got = removed, !.read = read \cap removed]
  OBVIOUS
<1>7. /\ call \in Calls /\ call.id = FreeId(page) /\ call.kind = kind /\ ~call.awaited
      /\ call.email = page.email /\ call.got = removed /\ call.read = read \cap removed
  <2>1. removed \in SUBSET Mails
    BY <1>3, <1>4
  <2> QED
    BY <1>5, <1>6, <2>1 DEF IsRequest, Calls
<1>8. AllOf(Shown(page), page.email)
  BY <1>2 DEF PageInv, ViewInv, ListsFit, Shown, Folders
<1>9. Sound(call)
  BY <1>4, <1>7, <1>8 DEF Sound, AllOf
<1>10. page' = Send(page, call)
  BY <1>4, <1>6 DEF BatchAction
<1>11. Calm(page, page)
  BY <1>2, CalmSelf
<1> QED
  BY <1>2, <1>7, <1>9, <1>10, <1>11, ChangeClick

LEMMA OpenClick ==
    ASSUME MailInv, RoomFor(page, 3), Free(page) # {}, page.email \in Boxes,
           NEW m \in Mails, Home[m] = page.email, NEW trash \in BOOLEAN,
           NEW kind \in {"detail", "sentDetail"},
           kind = "sentDetail" <=> page.tab = "sent",
           trash <=> page.tab = "trash",
           page' = OpenDetailShell(page, kind, m, trash)
    PROVE  PageKept
<1>1. PageInv(page) /\ Owned(page, {}) /\ TabLoaded(page)
  BY DEF MailInv
<1>2. PICK q : q = OpenDetailShell(page, kind, m, trash)
  OBVIOUS
<1>3. PageInv(q) /\ Sent(page, q, FreeId(page)) /\ Owned(q, {} \ {"detail"}) /\ TabLoaded(q)
  BY <1>1, <1>2, OpenKeeps
<1>4. {} \ {"detail"} = {} /\ Ids(q) \subseteq Ids(page) \cup {FreeId(page)}
  BY <1>3 DEF Sent
<1>5. Owned(q, {})
  BY <1>3, <1>4
<1> QED
  BY <1>2, <1>3, <1>4, <1>5, ClickKeeps

LEMMA OpenMailKeeps ==
    ASSUME MailInv, NEW m \in Mails, OpenMail(m)
    PROVE  PageKept
<1>1. Cardinality(page.calls) < MaxCalls /\ page.email # None
  BY DEF OpenMail, Click
<1>2. /\ RoomFor(page, 3) /\ Free(page) # {} /\ PageInv(page)
  BY <1>1, ClickRoom
<1>3. page.email \in Boxes
  BY <1>1, <1>2 DEF PageInv, Pages
<1>4. \A f \in Folders : AllOf(page.lists[f].items, page.email)
  BY <1>2 DEF PageInv, ViewInv, ListsFit
<1>5. CASE /\ InboxRowsShown /\ m \in Shown(page)
           /\ page' = OpenDetailShell(page, "detail", m, FALSE)
  <2>1. page.tab = "inbox" /\ Home[m] = page.email
    BY <1>2, <1>4, <1>5 DEF InboxRowsShown, Shown, PageInv, ViewInv, AllOf, Folders
  <2> QED
    BY <1>2, <1>3, <1>5, <2>1, OpenClick
<1>6. CASE /\ FolderRowsShown("trash") /\ m \in page.lists["trash"].items
           /\ page' = OpenDetailShell(page, "detail", m, TRUE)
  <2>1. page.tab = "trash" /\ Home[m] = page.email
    BY <1>4, <1>6 DEF FolderRowsShown, AllOf, Folders
  <2> QED
    BY <1>2, <1>3, <1>6, <2>1, OpenClick
<1>7. CASE /\ FolderRowsShown("sent") /\ m \in page.lists["sent"].items
           /\ page' = OpenDetailShell(page, "sentDetail", m, FALSE)
  <2>1. page.tab = "sent" /\ Home[m] = page.email
    BY <1>4, <1>7 DEF FolderRowsShown, AllOf, Folders
  <2> QED
    BY <1>2, <1>3, <1>7, <2>1, OpenClick
<1> QED
  BY <1>5, <1>6, <1>7 DEF OpenMail

\* The mail that is open is deleted, restored or purged.
LEMMA OpenMailClick ==
    ASSUME MailInv, RoomFor(page, 3), Free(page) # {}, page.email \in Boxes,
           page.detail.kind = "mail", NEW kind \in {"delete", "restore", "purge"},
           page' = Send(page, Request(page, kind, TRUE, page.email, {page.detail.id}))
    PROVE  PageKept
<1>1. PageInv(page) /\ Calm(page, page)
  BY CalmSelf DEF MailInv
<1>2. page.detail.id \in Mails
  BY <1>1, MailAssumption DEF PageInv, ViewInv, DetailFits, Pages, Details, MailAssumption
<1>3. PICK call : call = Request(page, kind, TRUE, page.email, {page.detail.id})
  OBVIOUS
<1>4. IsRequest(call, page, kind, TRUE, page.email, {page.detail.id})
  <2>1. kind \in Kinds
    BY DEF Kinds
  <2>2. PICK mails : mails = {page.detail.id}
    OBVIOUS
  <2>3. mails \in SUBSET Mails
    BY <1>2, <2>2
  <2> QED
    BY <1>3, <2>1, <2>2, <2>3, RequestIs
<1>5. /\ call \in Calls /\ call.id = FreeId(page) /\ ~call.awaited /\ call.kind = kind
      /\ Sound(call)
  BY <1>4 DEF IsRequest, Sound, AllOf
<1> QED
  BY <1>1, <1>3, <1>5, ChangeClick

LEMMA DeleteKeeps ==
    ASSUME MailInv, DeleteEmail \/ \E kind \in {"restore", "purge"} : TrashAction(kind)
    PROVE  PageKept
<1>1. PICK kind \in {"delete", "restore", "purge"} :
        /\ Cardinality(page.calls) < MaxCalls /\ page.email # None /\ page.detail.kind = "mail"
        /\ page' = Send(page, Request(page, kind, TRUE, page.email, {page.detail.id}))
  BY DEF DeleteEmail, TrashAction, Click, MailIsOpen
<1>2. /\ RoomFor(page, 3) /\ Free(page) # {} /\ PageInv(page)
  BY <1>1, ClickRoom
<1>3. page.email \in Boxes
  BY <1>1, <1>2 DEF PageInv, Pages
<1> QED
  BY <1>1, <1>2, <1>3, OpenMailClick

LEMMA UndoKeeps ==
    ASSUME MailInv, NEW offer \in page.offers, Undo(offer)
    PROVE  PageKept
<1>1. Cardinality(page.calls) < MaxCalls
  BY DEF Undo, Click
<1>2. /\ RoomFor(page, 3) /\ Free(page) # {} /\ PageInv(page)
  BY <1>1, ClickRoom
<1>3. PICK O, p : O = page.offers \ {offer} /\ p = [page EXCEPT !.offers = O]
  OBVIOUS
<1>4. page \in Pages /\ offer \in Offers /\ O \in SUBSET Offers
  BY <1>2, <1>3 DEF PageInv, Pages
<1>5. \A o \in page.offers : AllOf(o.removed, o.email) /\ o.read \subseteq o.removed
  BY <1>2 DEF PageInv, ViewInv
<1>6. Calm(page, p)
  BY <1>2, <1>3, <1>4, <1>5, OffersKeep
<1>7. Ids(p) = Ids(page)
  BY <1>6 DEF Calm, Tame
<1>8. PICK r : r = Request(page, "undo", offer.single, offer.email, offer.mails)
  OBVIOUS
<1>9. IsRequest(r, page, "undo", offer.single, offer.email, offer.mails)
  <2>1. "undo" \in Kinds
    BY DEF Kinds
  <2>2. offer.single \in BOOLEAN /\ offer.email \in Boxes /\ offer.mails \in SUBSET Mails
    BY <1>4 DEF Offers
  <2> QED
    BY <1>2, <1>8, <2>1, <2>2, RequestIs
<1>10. PICK call : call = [r EXCEPT !.got = offer.removed, !.read = offer.read]
  OBVIOUS
<1>11. /\ call \in Calls /\ call.id = FreeId(page) /\ call.kind = "undo" /\ ~call.awaited
       /\ call.email = offer.email /\ call.got = offer.removed /\ call.read = offer.read
  <2>1. offer.removed \in SUBSET Mails /\ offer.read \in SUBSET Mails
    BY <1>4 DEF Offers
  <2> QED
    BY <1>9, <1>10, <2>1 DEF IsRequest, Calls
<1>12. Sound(call)
  BY <1>5, <1>11 DEF Sound
<1>13. page' = Send(p, call)
  BY <1>3, <1>8, <1>10 DEF Undo
<1>14. FreeId(p) = FreeId(page)
  <2>1. p.calls = page.calls
    BY <1>3, <1>4 DEF Pages
  <2> QED
    BY <2>1 DEF FreeId
<1> QED
  BY <1>2, <1>6, <1>7, <1>11, <1>12, <1>13, <1>14, ChangeClick

\* Another list of the inbox is asked for.
LEMMA InboxSend ==
    ASSUME MailInv, RoomFor(page, 3), NEW p, PageInv(p), Ids(p) = Ids(page), Owned(p, {"inbox"}),
           TabLoaded(p), NEW call \in Calls, call.id = FreeId(p), ~call.awaited, call.current,
           call.kind \in {"refresh", "more"}, Sound(call),
           p.lists["inbox"].status # "loading",
           p.lists["inbox"].more => call.kind = "more",
           page' = Send(p, call)
    PROVE  PageKept
<1>1. Free(p) # {}
  <2>1. RoomFor(p, 2)
    BY RoomLess
  <2> QED
    BY <2>1 DEF RoomFor
<1>2. Ticket(call.kind) = "inbox"
  BY DEF Ticket
<1>3. CallFits(p, call)
  BY <1>2 DEF CallFits, Resumes, FirstIfSilent, SearchAwaited, DetailAwaited
<1>4. PICK q : q = Send(p, call)
  OBVIOUS
<1>5. SameView(p, q) /\ call \in q.calls => InboxOwned(q)
  BY DEF SameView, InboxOwned
<1>6. /\ PageInv(q) /\ Ids(q) = Ids(p) \cup {FreeId(p)} /\ Owned(q, {}) /\ TabLoaded(q)
  BY <1>1, <1>2, <1>3, <1>4, <1>5, SendKeeps
<1> QED
  BY <1>4, <1>6, ClickKeeps

LEMMA LoadMoreInboxKeeps ==
    ASSUME MailInv, LoadMoreInbox
    PROVE  PageKept
<1>1. /\ Cardinality(page.calls) < MaxCalls /\ page.email # None
      /\ page.lists["inbox"].status # "loading"
  BY DEF LoadMoreInbox, Click, InboxRowsShown
<1>2. /\ RoomFor(page, 3) /\ Free(page) # {}
      /\ PageInv(page) /\ Owned(page, {}) /\ TabLoaded(page)
  BY <1>1, ClickRoom
<1>3. /\ page \in Pages /\ page.email \in Boxes /\ page.lists \in [Folders -> Lists]
      /\ "inbox" \in Folders /\ page.lists["inbox"] \in Lists
  BY <1>1, <1>2 DEF PageInv, Pages, Folders
<1>4. PICK n, p : n = [page.lists["inbox"] EXCEPT !.more = TRUE] /\ p = ListChanged(page, "inbox", n)
  OBVIOUS
<1>5. /\ n \in Lists /\ n.read = page.lists["inbox"].read /\ n.items = page.lists["inbox"].items
      /\ n.status = page.lists["inbox"].status
  BY <1>3, <1>4 DEF Lists
<1>6. n.read \subseteq n.items /\ AllOf(n.items, page.email)
      /\ (page.selected \subseteq n.items \/ page.search.active)
  BY <1>2, <1>3, <1>5 DEF PageInv, ViewInv, ListsFit, Shown
<1>7. /\ PageInv(p) /\ Tame(page, p) /\ p.calls = page.calls /\ p.lists["inbox"] = n
      /\ \A T : Owned(page, T) => Owned(p, T \cup {"inbox"})
      /\ p.email = page.email /\ p.tab = page.tab
      /\ \A g \in Folders \ {"inbox"} : p.lists[g] = page.lists[g]
  <2>1. "inbox" = "inbox" => page.selected \subseteq n.items \/ page.search.active
    BY <1>6
  <2>2. /\ PageInv(page) /\ "inbox" \in Folders /\ n \in Lists /\ n.read \subseteq n.items
        /\ AllOf(n.items, page.email)
    BY <1>2, <1>3, <1>5, <1>6
  <2>3. PICK o, f, q : o = page /\ f = "inbox" /\ q = ListChanged(o, f, n)
    OBVIOUS
  <2>4. /\ PageInv(q) /\ Tame(o, q) /\ q.email = o.email /\ q.tab = o.tab
        /\ q.calls = o.calls /\ q.lists[f] = n /\ \A g \in Folders \ {f} : q.lists[g] = o.lists[g]
        /\ \A T : Owned(o, T) => Owned(q, T \cup {f})
    BY <2>1, <2>2, <2>3, ListChanges
  <2> QED
    BY <1>4, <2>3, <2>4
<1>8. Owned(p, {"inbox"}) /\ TabLoaded(p) /\ Ids(p) = Ids(page) /\ FreeId(p) = FreeId(page)
  <2>1. Owned(p, {} \cup {"inbox"}) /\ {} \cup {"inbox"} = {"inbox"}
    BY <1>2, <1>7
  <2>2. TabLoaded(p)
    BY <1>2, <1>7 DEF TabLoaded, Folders
  <2>3. Ids(p) = Ids(page)
    BY <1>7 DEF Tame
  <2>4. FreeId(p) = FreeId(page)
    BY <1>7 DEF FreeId
  <2> QED
    BY <1>7, <2>1, <2>2, <2>3, <2>4
<1>9. PICK r : r = Request(page, "more", FALSE, page.email, {})
  OBVIOUS
<1>10. IsRequest(r, page, "more", FALSE, page.email, {})
  <2>1. "more" \in Kinds /\ {} \in SUBSET Mails
    BY DEF Kinds
  <2> QED
    BY <1>2, <1>3, <1>9, <2>1, RequestIs
<1>11. PICK at : at = Cardinality(page.lists["inbox"].items)
  OBVIOUS
<1>12. at \in Nat
  BY <1>3, <1>11, MailCount DEF Lists
<1>13. PICK call : call = [r EXCEPT !.at = at]
  OBVIOUS
<1>14. /\ call \in Calls /\ call.id = FreeId(page) /\ call.kind = "more" /\ ~call.awaited
       /\ call.current /\ call.got = {} /\ call.read = {}
  BY <1>10, <1>12, <1>13 DEF IsRequest, Calls
<1>15. Sound(call)
  BY <1>14 DEF Sound, AllOf
<1>16. page' = Send(p, call)
  <2>1. page' = Send([page EXCEPT !.lists["inbox"].more = TRUE], call)
    BY <1>9, <1>11, <1>13 DEF LoadMoreInbox
  <2>2. [page EXCEPT !.lists["inbox"].more = TRUE] = p
    BY <1>3, <1>4 DEF ListChanged, Pages
  <2> QED
    BY <2>1, <2>2
<1> QED
  BY <1>1, <1>2, <1>5, <1>7, <1>8, <1>14, <1>15, <1>16, InboxSend

LEMMA SilentRefreshKeeps ==
    ASSUME MailInv, RefreshInboxSilently
    PROVE  PageKept
<1>1. /\ Cardinality(page.calls) < MaxCalls /\ page.email # None
      /\ page.lists["inbox"].status # "loading" /\ ~page.lists["inbox"].more
  BY DEF RefreshInboxSilently, AutoRefreshes
<1>2. /\ RoomFor(page, 3) /\ Free(page) # {}
      /\ PageInv(page) /\ Owned(page, {}) /\ TabLoaded(page)
  BY <1>1, ClickRoom
<1>3. /\ page.email \in Boxes /\ page.lists["inbox"] \in Lists
  BY <1>1, <1>2 DEF PageInv, Pages, Folders
<1>4. Owned(page, {"inbox"})
  BY <1>2 DEF Owned
<1>5. PICK r : r = Request(page, "refresh", FALSE, page.email, {})
  OBVIOUS
<1>6. IsRequest(r, page, "refresh", FALSE, page.email, {})
  <2>1. "refresh" \in Kinds /\ {} \in SUBSET Mails
    BY DEF Kinds
  <2> QED
    BY <1>2, <1>3, <1>5, <2>1, RequestIs
<1>7. PICK loaded, limit :
        /\ loaded = Cardinality(page.lists["inbox"].items)
        /\ limit = Min({Max({loaded, PageSize}), MaxPage})
  OBVIOUS
<1>8. limit \in Nat
  <2>1. loaded \in Nat
    BY <1>3, <1>7, MailCount DEF Lists
  <2>2. PageSize \in Nat /\ MaxPage \in Nat
    BY MailAssumption DEF MailAssumption
  <2>3. PICK most : most = Max({loaded, PageSize})
    OBVIOUS
  <2>4. most \in Nat
    BY <2>1, <2>2, <2>3, MaxOfTwo
  <2> QED
    BY <1>7, <2>2, <2>3, <2>4, MaxOfTwo
<1>9. PICK call : call = [r EXCEPT !.limit = limit]
  OBVIOUS
<1>10. /\ call \in Calls /\ call.id = FreeId(page) /\ call.kind = "refresh" /\ ~call.awaited
       /\ call.current /\ call.got = {} /\ call.read = {}
  BY <1>6, <1>8, <1>9 DEF IsRequest, Calls
<1>11. Sound(call)
  BY <1>10 DEF Sound, AllOf
<1>12. page' = Send(page, call)
  BY <1>5, <1>7, <1>9 DEF RefreshInboxSilently
<1> QED
  BY <1>1, <1>2, <1>4, <1>10, <1>11, <1>12, InboxSend

LEMMA SearchMailKeeps ==
    ASSUME MailInv, SearchMail
    PROVE  PageKept
<1>1. /\ Cardinality(page.calls) < MaxCalls /\ page.email # None
  BY DEF SearchMail, Click
<1>2. /\ RoomFor(page, 3) /\ Free(page) # {}
      /\ PageInv(page) /\ Owned(page, {}) /\ TabLoaded(page)
  BY <1>1, ClickRoom
<1>3. page \in Pages /\ page.email \in Boxes
  BY <1>1, <1>2 DEF PageInv, Pages
<1>4. PICK s : s = [active |-> TRUE, items |-> {}, read |-> {}, status |-> "loading"]
  OBVIOUS
<1>5. PICK p : p = [page EXCEPT !.selected = {}, !.search = s]
  OBVIOUS
<1>6. s \in Searches /\ s.active /\ s.items = {} /\ s.status = "loading"
  BY <1>4 DEF Searches, Statuses
<1>7. /\ p \in Pages /\ p.calls = page.calls /\ p.restore = page.restore /\ p.tab = page.tab
      /\ p.email = page.email /\ p.active = page.active /\ p.detail = page.detail
      /\ p.search = s /\ p.lists = page.lists /\ p.offers = page.offers /\ p.selected = {}
  BY <1>3, <1>5, <1>6 DEF Pages
<1>8. ViewInv(p)
  <2>1. p.selected \subseteq Shown(p) /\ AllOf(p.search.items, p.email)
    BY <1>6, <1>7 DEF AllOf
  <2> QED
    BY <1>2, <1>7, <2>1 DEF PageInv, ViewInv, ListsFit, DetailFits
<1>9. PageInv(p) /\ Tame(page, p)
  BY <1>2, <1>6, <1>7, <1>8, Sets
<1>10. /\ Owned(p, {"search"}) /\ TabLoaded(p) /\ Ids(p) = Ids(page) /\ FreeId(p) = FreeId(page)
       /\ Free(p) # {}
  <2>1. Owned(p, {"search"})
    BY <1>2, <1>7 DEF Owned, InboxOwned, DetailOwned, FolderOwned
  <2>2. TabLoaded(p)
    BY <1>2, <1>7 DEF TabLoaded
  <2>3. Ids(p) = Ids(page)
    BY <1>9 DEF Tame
  <2>4. FreeId(p) = FreeId(page) /\ Free(p) # {}
    BY <1>2, <1>7 DEF FreeId, Free
  <2> QED
    BY <2>1, <2>2, <2>3, <2>4
<1>11. PICK call : call = Request(page, "search", FALSE, page.email, {})
  OBVIOUS
<1>12. IsRequest(call, page, "search", FALSE, page.email, {})
  <2>1. "search" \in Kinds /\ {} \in SUBSET Mails
    BY DEF Kinds
  <2> QED
    BY <1>2, <1>3, <1>11, <2>1, RequestIs
<1>13. Ticket(call.kind) = "search"
  BY <1>12 DEF IsRequest, Ticket
<1>14. CallFits(p, call)
  BY <1>6, <1>7, <1>12, <1>13
     DEF IsRequest, CallFits, Sound, AllOf, Resumes, FirstIfSilent, SearchAwaited, DetailAwaited
<1>15. PICK q : q = Send(p, call)
  OBVIOUS
<1>16. SameView(p, q) /\ call \in q.calls => SearchOwned(q)
  BY <1>12 DEF SearchOwned, IsRequest
<1>17. /\ PageInv(q) /\ Ids(q) = Ids(p) \cup {FreeId(p)} /\ Owned(q, {}) /\ TabLoaded(q)
  <2>1. call \in Calls /\ call.id = FreeId(p) /\ ~call.awaited
    BY <1>10, <1>12 DEF IsRequest
  <2> QED
    BY <1>9, <1>10, <1>13, <1>14, <1>15, <1>16, <2>1, SendKeeps
<1>18. page' = q
  BY <1>4, <1>5, <1>11, <1>15 DEF SearchMail
<1> QED
  BY <1>2, <1>10, <1>17, <1>18, ClickKeeps

LEMMA LeaveSearchKeeps ==
    ASSUME MailInv, LeaveSearch
    PROVE  PageKept
<1>1. Cardinality(page.calls) < MaxCalls
  BY DEF LeaveSearch, Click
<1>2. /\ RoomFor(page, 3) /\ Free(page) # {}
      /\ PageInv(page) /\ Owned(page, {}) /\ TabLoaded(page)
  BY <1>1, ClickRoom
<1>3. PICK p : p = Outdate(page, "search")
  OBVIOUS
<1>4. /\ PageInv(p) /\ SameView(page, p) /\ Tame(page, p) /\ NoNewest(p, "search")
      /\ Owned(p, {} \cup {"search"}) /\ TabLoaded(p)
  BY <1>2, <1>3, OutdateKeeps
<1>5. p \in Pages /\ p.search \in Searches /\ Owned(p, {"search"})
  <2>1. {} \cup {"search"} = {"search"}
    OBVIOUS
  <2> QED
    BY <1>4, <2>1 DEF PageInv, Pages
<1>6. PICK s : s = [p.search EXCEPT !.active = FALSE, !.items = {}, !.read = {}]
  OBVIOUS
<1>7. s \in Searches /\ ~s.active /\ s.items = {}
  BY <1>5, <1>6 DEF Searches
<1>8. PICK q : q = [p EXCEPT !.search = s, !.selected = {}]
  OBVIOUS
<1>9. page' = q
  BY <1>3, <1>5, <1>6, <1>8 DEF LeaveSearch, ClearSearch, Pages, Searches
<1>10. /\ q \in Pages /\ q.calls = p.calls /\ q.restore = p.restore /\ q.tab = p.tab
       /\ q.email = p.email /\ q.active = p.active /\ q.detail = p.detail
       /\ q.search = s /\ q.lists = p.lists /\ q.offers = p.offers /\ q.selected = {}
  BY <1>5, <1>7, <1>8 DEF Pages
<1>11. ViewInv(q)
  <2>1. q.selected \subseteq Shown(q) /\ AllOf(q.search.items, q.email)
    BY <1>7, <1>10 DEF AllOf
  <2> QED
    BY <1>4, <1>10, <2>1 DEF PageInv, ViewInv, ListsFit, DetailFits
<1>12. PageInv(q) /\ Tame(p, q)
  BY <1>4, <1>10, <1>11, Sets
<1>13. Owned(q, {})
  BY <1>5, <1>7, <1>10 DEF Owned, InboxOwned, SearchOwned, DetailOwned, FolderOwned
<1>14. TabLoaded(q)
  BY <1>4, <1>10 DEF TabLoaded
<1>15. Ids(q) \subseteq Ids(page) \cup {0}
  BY <1>4, <1>12 DEF Tame
<1> QED
  BY <1>2, <1>9, <1>12, <1>13, <1>14, <1>15, ClickKeeps

\* Which mails are selected, and whether the inbox is refreshed by itself.
LEMMA SelectKeeps ==
    ASSUME MailInv, (\E m \in Mails : ToggleSelected(m)) \/ SelectAll
    PROVE  PageKept
<1>1. PICK x : /\ x \subseteq Shown(page) /\ page' = [page EXCEPT !.selected = x]
               /\ Cardinality(page.calls) < MaxCalls
  <2>1. page \in Pages /\ page.selected \subseteq Shown(page)
    BY DEF MailInv, PageInv, ViewInv
  <2>2. CASE SelectAll
    BY <2>2 DEF SelectAll, Click
  <2>3. CASE \E m \in Mails : ToggleSelected(m)
    <3>1. PICK m \in Mails : ToggleSelected(m)
      BY <2>3
    <3>2. PICK x : x = IF m \in page.selected THEN page.selected \ {m}
                       ELSE page.selected \cup {m}
      OBVIOUS
    <3>3. x \subseteq Shown(page)
      BY <2>1, <3>1, <3>2 DEF ToggleSelected
    <3>4. page' = [page EXCEPT !.selected = x]
      BY <2>1, <3>1, <3>2 DEF ToggleSelected
    <3> QED
      BY <3>1, <3>3, <3>4 DEF ToggleSelected, Click
  <2> QED
    BY <2>2, <2>3
<1>2. RoomFor(page, 3) /\ PageInv(page)
  BY <1>1, ClickRoom
<1>3. x \in SUBSET Mails
  BY <1>1, <1>2 DEF PageInv, Pages, Searches, Lists, Shown, Folders
<1>4. PICK q : q = [page EXCEPT !.selected = x]
  OBVIOUS
<1>5. Calm(page, q)
  BY <1>1, <1>2, <1>3, <1>4, SelectionKeeps
<1> QED
  BY <1>1, <1>2, <1>4, <1>5, CalmClick

LEMMA AutoKeeps ==
    ASSUME MailInv, NEW on \in BOOLEAN, SetAutoRefresh(on)
    PROVE  PageKept
<1>1. PICK auto \in BOOLEAN : /\ page' = [page EXCEPT !.auto = auto]
                              /\ Cardinality(page.calls) < MaxCalls
  BY DEF SetAutoRefresh, Click
<1>2. RoomFor(page, 3) /\ PageInv(page)
  BY <1>1, ClickRoom
<1>3. PICK q : q = [page EXCEPT !.auto = auto]
  OBVIOUS
<1>4. /\ q \in Pages /\ q.calls = page.calls /\ q.restore = page.restore /\ q.tab = page.tab
      /\ q.email = page.email /\ q.active = page.active /\ q.detail = page.detail
      /\ q.search = page.search /\ q.lists = page.lists /\ q.offers = page.offers
      /\ q.selected = page.selected
  BY <1>2, <1>3 DEF PageInv, Pages
<1>5. ViewInv(q)
  BY <1>2, <1>4 DEF PageInv, ViewInv, ListsFit, DetailFits, Shown
<1>6. Calm(page, q)
  BY <1>2, <1>4, <1>5, ViewChanges
<1> QED
  BY <1>1, <1>2, <1>3, <1>6, CalmClick

LEMMA UserKeeps ==
    ASSUME MailInv, UserActs
    PROVE  PageKept
<1>1. CASE QueryNothing \/ RefreshCurrentTab \/ LoadMoreInbox \/ SearchMail \/ LeaveSearch
  BY <1>1, QueryNothingKeeps, RefreshTabKeeps, LoadMoreInboxKeeps, SearchMailKeeps,
     LeaveSearchKeeps
<1>2. CASE \E box \in Boxes : Query(box) \/ UseRecent(box)
  BY <1>2, QueryKeeps, UseRecentKeeps
<1>3. CASE \E tab \in Tabs : GoTo(tab)
  BY <1>3, GoToKeeps
<1>4. CASE \E f \in {"sent", "trash"} : LoadMoreFolder(f)
  BY <1>4, LoadMoreFolderKeeps
<1>5. CASE (\E m \in Mails : ToggleSelected(m)) \/ SelectAll
  BY <1>5, SelectKeeps
<1>6. CASE \E on \in BOOLEAN : SetAutoRefresh(on)
  BY <1>6, AutoKeeps
<1>7. CASE \E m \in Mails : OpenMail(m)
  BY <1>7, OpenMailKeeps
<1>8. CASE \E kind \in {"batchDelete", "markRead"} : BatchAction(kind)
  BY <1>8, BatchKeeps
<1>9. CASE DeleteEmail \/ \E kind \in {"restore", "purge"} : TrashAction(kind)
  BY <1>9, DeleteKeeps
<1>10. CASE \E offer \in page.offers : Undo(offer)
  BY <1>10, UndoKeeps
<1> QED
  BY <1>1, <1>2, <1>3, <1>4, <1>5, <1>6, <1>7, <1>8, <1>9, <1>10 DEF UserActs

(***************************************************************************)
(* The specification                                                       *)
(***************************************************************************)
\* The server's side and the bounds have their types.
RestTyped ==
    /\ place \in [Mails -> Places] /\ seen \subseteq Mails /\ past \subseteq Mails
    /\ spent \in [clicks : Nat, ticks : Nat, faults : Nat]

LEMMA UsedTyped ==
    ASSUME RestTyped, NEW what \in {"clicks", "ticks", "faults"}, NEW most, Used(what, most)
    PROVE  spent' \in [clicks : Nat, ticks : Nat, faults : Nat]
BY DEF RestTyped, Used

LEMMA ActTyped ==
    ASSUME RestTyped, NEW c \in Calls, c.kind \in Changes, Act(c)
    PROVE  place' \in [Mails -> Places] /\ seen' \subseteq Mails
<1>1. Moved(c) \in Places
  BY DEF Moved, Places
<1>2. Affected(c) \subseteq Mails
  BY DEF Affected, Calls
<1> QED
  BY <1>1, <1>2 DEF RestTyped, Act

LEMMA CallsTyped ==
    ASSUME RestTyped, page.calls \subseteq Calls, NEW c \in page.calls,
           \/ AnswerInbox(c) \/ AnswerSearch(c) \/ AnswerFolder(c) \/ AnswerDetail(c)
           \/ AnswerSentDetail(c) \/ AnswerChange(c) \/ Fail(c) \/ Deliver(c)
    PROVE  RestTyped'
<1>1. c.mails \in SUBSET Mails
  BY DEF Calls
<1>2. CASE AnswerInbox(c) \/ AnswerSearch(c) \/ AnswerFolder(c) \/ AnswerSentDetail(c)
  BY <1>2 DEF RestTyped, AnswerInbox, AnswerSearch, AnswerFolder, AnswerSentDetail
<1>3. CASE AnswerDetail(c)
  BY <1>1, <1>3 DEF RestTyped, AnswerDetail
<1>4. CASE AnswerChange(c)
  <2>1. past' \subseteq past
    BY <1>4 DEF AnswerChange
  <2> QED
    BY <1>4, <2>1, ActTyped DEF RestTyped, AnswerChange
<1>5. CASE Fail(c)
  BY <1>5, UsedTyped DEF RestTyped, Fail
<1>6. CASE Deliver(c)
  BY <1>1, <1>6 DEF RestTyped, Deliver
<1> QED
  BY <1>2, <1>3, <1>4, <1>5, <1>6

LEMMA UserTyped ==
    ASSUME RestTyped, UserActs \/ RefreshInboxSilently
    PROVE  RestTyped'
<1>1. CASE RefreshInboxSilently
  BY <1>1, UsedTyped DEF RestTyped, RefreshInboxSilently
<1>2. CASE Click
  BY <1>2, UsedTyped DEF RestTyped, Click
<1>3. UserActs => Click
  BY Zenon DEF UserActs, Query, QueryNothing, UseRecent, GoTo, RefreshCurrentTab, LoadMoreInbox,
         LoadMoreFolder, SearchMail, LeaveSearch, ToggleSelected, SelectAll, SetAutoRefresh,
         OpenMail, BatchAction, DeleteEmail, TrashAction, Undo
<1> QED
  BY <1>1, <1>2, <1>3

\* The page before anything is asked for.
EmptyPage(tab, view) ==
    [tab |-> tab, email |-> None, querying |-> FALSE, auto |-> FALSE,
     lists |-> [f \in Folders |-> EmptyList], search |-> NoSearch, selected |-> {},
     active |-> None, detail |-> NoDetail, offers |-> {}, restore |-> view, calls |-> {}]

LEMMA EmptyPageFits ==
    ASSUME NEW tab \in Tabs, NEW view \in Views \cup {NoDetail}
    PROVE  LET p == EmptyPage(tab, view) IN
           /\ PageInv(p) /\ Owned(p, {}) /\ TabLoaded(p) /\ NoneAwaited(p) /\ RoomLeft(p)
<1>1. PICK p : p = EmptyPage(tab, view)
  OBVIOUS
<1>2. EmptyList \in Lists /\ NoSearch \in Searches /\ NoDetail \in Details
  BY DEF EmptyList, NoSearch, NoDetail, Lists, Searches, Details, Statuses
<1>3. p \in Pages
  BY <1>1, <1>2 DEF EmptyPage, Pages
<1>4. /\ p.calls = {} /\ p.search = NoSearch /\ p.detail = NoDetail /\ p.active = None
      /\ p.selected = {} /\ p.offers = {} /\ p.email = None
      /\ \A f \in Folders : p.lists[f] = EmptyList
  BY <1>1 DEF EmptyPage
<1>5. /\ EmptyList.items = {} /\ EmptyList.read = {} /\ EmptyList.status = "idle"
      /\ ~EmptyList.more /\ NoDetail.kind = "none" /\ NoSearch.items = {} /\ ~NoSearch.active
  BY DEF EmptyList, NoSearch, NoDetail
<1>6. ListsFit(p)
  BY <1>4, <1>5 DEF ListsFit, AllOf
<1>7. DetailFits(p)
  BY <1>4, <1>5 DEF DetailFits
<1>8. ViewInv(p)
  BY <1>4, <1>5, <1>6, <1>7 DEF ViewInv, AllOf
<1>9. CallsInv(p)
  BY <1>4 DEF CallsInv, Distinct
<1>10. Owned(p, {})
  BY <1>4, <1>5 DEF Owned, InboxOwned, SearchOwned, DetailOwned, FolderOwned, Folders
<1>11. TabLoaded(p) /\ NoneAwaited(p) /\ RoomLeft(p)
  BY <1>4 DEF TabLoaded, NoneAwaited, RoomLeft
<1> QED
  BY <1>1, <1>3, <1>8, <1>9, <1>10, <1>11 DEF PageInv

\* What was asked for at the first is the only call, and restoreViewState awaits it.
LEMMA FirstPageFits ==
    ASSUME NEW view \in Views
    PROVE  LET q == FirstPage(view) IN
           PageInv(q) /\ Owned(q, {}) /\ TabLoaded(q) /\ RoomLeft(q)
<1>1. view.tab \in Tabs /\ view.email \in Boxes \cup {None} /\ MaxCalls \in Nat
  BY MailAssumption DEF MailAssumption
<1>2. PICK o : o = EmptyPage("inbox", view)
  OBVIOUS
<1>3. PICK tab : tab = IF view.tab = "imap" THEN "imap" ELSE "inbox"
  OBVIOUS
<1>4. tab \in Tabs /\ "inbox" \in Tabs
  BY <1>3 DEF Tabs, Folders
<1>5. PICK p : p = EmptyPage(tab, view)
  OBVIOUS
<1>6. /\ PageInv(p) /\ Owned(p, {}) /\ TabLoaded(p) /\ NoneAwaited(p)
      /\ p.calls = {} /\ p.restore = view /\ p.email = None
      /\ p.lists["inbox"].status # "loading"
  <2>1. PageInv(p) /\ Owned(p, {}) /\ TabLoaded(p) /\ NoneAwaited(p)
    BY <1>4, <1>5, EmptyPageFits
  <2> QED
    BY <1>5, <2>1 DEF EmptyPage, EmptyList, Folders
<1>7. p = IF view.tab = "imap" THEN SwitchTab(o, "imap") ELSE o
  <2>1. CASE view.tab = "imap"
    <3>1. PICK C : C = {[c EXCEPT !.current = @ /\ Ticket(c.kind) # "search"] : c \in o.calls}
      OBVIOUS
    <3>2. C = {}
      BY <1>2, <3>1 DEF EmptyPage
    <3>3. SwitchTab(o, "imap") =
            [[o EXCEPT !.calls = C] EXCEPT
                !.tab = "imap", !.auto = @ /\ "imap" = "inbox",
                !.search.active = FALSE, !.search.items = {}, !.search.read = {},
                !.selected = {}]
      BY <3>1 DEF SwitchTab, Outdate
    <3>4. o \in Pages /\ p \in Pages
      BY <1>2, <1>4, <1>6, EmptyPageFits DEF PageInv
    <3>5. /\ o.calls = C /\ o.search = NoSearch /\ ~o.auto /\ o.selected = {}
          /\ p.tab = "imap" /\ p.auto = o.auto /\ p.search = o.search /\ p.selected = o.selected
          /\ p.email = o.email /\ p.querying = o.querying /\ p.lists = o.lists
          /\ p.active = o.active /\ p.detail = o.detail /\ p.offers = o.offers
          /\ p.restore = o.restore /\ p.calls = o.calls
      BY <1>2, <1>3, <1>5, <2>1, <3>2 DEF EmptyPage
    <3>6. PICK n : n = [o.search EXCEPT !.active = FALSE, !.items = {}, !.read = {}]
      OBVIOUS
    <3>7. n = o.search
      <4>1. o.search \in Searches
        BY <3>4 DEF Pages
      <4>2. o.search.active = FALSE /\ o.search.items = {} /\ o.search.read = {}
        BY <3>5 DEF NoSearch
      <4> QED
        BY <3>6, <4>1, <4>2 DEF Searches
    <3>8. SwitchTab(o, "imap") =
            [o EXCEPT !.tab = "imap", !.auto = FALSE, !.search = o.search, !.selected = {}]
      <4>1. [o EXCEPT !.calls = C] = o
        BY <3>4, <3>5 DEF Pages
      <4>2. PICK r : r = [o EXCEPT
                !.tab = "imap", !.auto = @ /\ "imap" = "inbox",
                !.search.active = FALSE, !.search.items = {}, !.search.read = {},
                !.selected = {}]
        OBVIOUS
      <4>3. o.search \in Searches /\ o.auto \in BOOLEAN
        BY <3>4 DEF Pages
      <4>4. r = [o EXCEPT !.tab = "imap", !.auto = (o.auto /\ "imap" = "inbox"), !.search = n,
                          !.selected = {}]
        BY <3>4, <3>6, <4>2, <4>3 DEF Pages
      <4>5. SwitchTab(o, "imap") = r
        BY <3>3, <4>1, <4>2
      <4>6. PICK on : on = (o.auto /\ "imap" = "inbox")
        OBVIOUS
      <4>7. on = FALSE
        BY <3>5, <4>6
      <4> QED
        BY <3>7, <4>4, <4>5, <4>6, <4>7
    <3>9. p = [o EXCEPT !.tab = "imap", !.auto = FALSE, !.search = o.search, !.selected = {}]
      BY <3>4, <3>5 DEF Pages
    <3> QED
      BY <2>1, <3>8, <3>9
  <2>2. CASE view.tab # "imap"
    BY <1>2, <1>3, <1>5, <2>2
  <2> QED
    BY <2>1, <2>2
<1>8. CASE view.email = None
  <2>1. PICK q : q = EmptyPage(tab, NoDetail)
    OBVIOUS
  <2>2. PageInv(q) /\ Owned(q, {}) /\ TabLoaded(q) /\ RoomLeft(q)
    BY <1>4, <2>1, EmptyPageFits
  <2>3. [p EXCEPT !.restore = NoDetail] = q
    <3>1. p \in Pages /\ q \in Pages
      BY <1>6, <2>2 DEF PageInv
    <3>2. /\ q.tab = p.tab /\ q.auto = p.auto /\ q.search = p.search /\ q.selected = p.selected
          /\ q.email = p.email /\ q.querying = p.querying /\ q.lists = p.lists
          /\ q.active = p.active /\ q.detail = p.detail /\ q.offers = p.offers
          /\ q.restore = NoDetail /\ q.calls = p.calls
      BY <1>5, <2>1 DEF EmptyPage
    <3> QED
      BY <3>1, <3>2 DEF Pages
  <2>4. FirstPage(view) = q
    BY <1>2, <1>7, <1>8, <2>3 DEF FirstPage, EmptyPage
  <2> QED
    BY <2>2, <2>4
<1>9. CASE view.email # None
  <2>1. PICK box, silent, id : /\ box = view.email /\ silent = (view.tab = "imap")
                               /\ id = FreeId(p)
    OBVIOUS
  <2>2. box \in Boxes /\ silent \in BOOLEAN
    BY <1>1, <1>9, <2>1
  <2>3. Free(p) = 1 .. MaxCalls + 2
    BY <1>6 DEF Free
  <2>4. Free(p) # {}
    BY <1>1, <2>3
  <2>5. PICK r : r = LoadInbox(p, box, silent)
    OBVIOUS
  <2>6. /\ PageInv(r) /\ Sent(p, r, id) /\ Owned(r, {} \ {"inbox"}) /\ TabLoaded(r)
        /\ \E c \in r.calls : c.kind = "query" /\ c.id = id
    BY <1>6, <2>1, <2>2, <2>4, <2>5, LoadInboxKeeps
  <2>7. {} \ {"inbox"} = {} /\ NoneAwaited(r) /\ r.restore \in Views /\ Ids(r) = {id}
    BY <1>6, <2>6 DEF Sent, Ids
  <2>8. PICK w \in r.calls : w.kind = "query" /\ w.id = id
    BY <2>6
  <2>9. PICK q : q = Await(r, w.id)
    OBVIOUS
  <2>10. /\ PageInv(q) /\ Ids(q) = Ids(r)
         /\ \A T : Owned(r, T) => Owned(q, T)
         /\ TabLoaded(r) => TabLoaded(q)
    BY <2>6, <2>7, <2>8, <2>9, AwaitKeeps
  <2>11. Owned(q, {}) /\ TabLoaded(q)
    BY <2>6, <2>7, <2>10
  <2>12. Free(q) # {}
    <3>1. Free(q) = (1 .. MaxCalls + 2) \ {id}
      BY <2>7, <2>10 DEF Free, Ids
    <3>2. 1 \in 1 .. MaxCalls + 2 /\ 2 \in 1 .. MaxCalls + 2
      BY <1>1
    <3> QED
      BY <3>1, <3>2
  <2>13. FirstPage(view) = q
    BY <1>2, <1>7, <1>9, <2>1, <2>5, <2>8, <2>9 DEF FirstPage, EmptyPage
  <2> QED
    BY <2>10, <2>11, <2>12, <2>13 DEF RoomLeft
<1> QED
  BY <1>8, <1>9

LEMMA MailInvHolds ==
    ASSUME Init
    PROVE  MailInv
<1>1. PICK view \in Views : page = FirstPage(view)
  BY DEF Init
<1>2. PageInv(page) /\ Owned(page, {}) /\ TabLoaded(page) /\ RoomLeft(page)
  <2>1. PICK q : q = FirstPage(view)
    OBVIOUS
  <2>2. PageInv(q) /\ Owned(q, {}) /\ TabLoaded(q) /\ RoomLeft(q)
    BY <2>1, FirstPageFits
  <2> QED
    BY <1>1, <2>1, <2>2
<1> QED
  BY <1>2, MailAssumption DEF Init, MailInv, MailAssumption

LEMMA MailInvKept ==
    ASSUME MailInv, [Next]_vars
    PROVE  MailInv'
<1>1. PageKept /\ RestTyped' => MailInv'
  BY DEF PageKept, RestTyped, MailInv, PageInv, ViewInv, CallsInv, Owned, TabLoaded, RoomLeft
<1>2. RestTyped /\ PageInv(page) /\ Owned(page, {}) /\ TabLoaded(page) /\ RoomLeft(page)
  BY DEF MailInv, RestTyped
<1>3. CASE UNCHANGED vars
  BY <1>3 DEF vars, MailInv, PageInv, ViewInv, CallsInv, Owned, TabLoaded, RoomLeft
<1>4. ASSUME NEW m \in Mails, Arrive(m) PROVE MailInv'
  <2>1. page' = page /\ place' \in [Mails -> Places] /\ UNCHANGED <<seen, past, spent>>
    BY <1>2, <1>4 DEF Arrive, RestTyped, Places
  <2>2. RestTyped'
    BY <1>2, <2>1 DEF RestTyped
  <2>3. PageKept
    BY <1>2, <2>1 DEF PageKept
  <2> QED
    BY <1>1, <2>2, <2>3
<1>5. ASSUME NEW c \in page.calls,
             \/ AnswerInbox(c) \/ AnswerSearch(c) \/ AnswerFolder(c) \/ AnswerDetail(c)
             \/ AnswerSentDetail(c) \/ AnswerChange(c) \/ Fail(c) \/ Deliver(c)
      PROVE  MailInv'
  <2>1. RestTyped'
    <3>1. page.calls \subseteq Calls
      BY <1>2 DEF PageInv, Pages
    <3> QED
      BY <1>2, <1>5, <3>1, CallsTyped
  <2>2. PageKept
    <3>1. CASE Deliver(c)
      BY <3>1, DeliverKeeps DEF PageKept
    <3>2. CASE ~Deliver(c)
      BY <1>5, <3>2, ServerKeeps
    <3> QED
      BY <3>1, <3>2
  <2> QED
    BY <1>1, <2>1, <2>2
<1>6. CASE UserActs
  BY <1>1, <1>2, <1>6, UserKeeps, UserTyped
<1>7. CASE RefreshInboxSilently
  BY <1>1, <1>2, <1>7, SilentRefreshKeeps, UserTyped
<1> QED
  BY <1>3, <1>4, <1>5, <1>6, <1>7 DEF Next

\* What the four properties take from the invariant.
LEMMA MailInvImplies ==
    ASSUME MailInv
    PROVE  TypeOK /\ ShownBelongsToMailbox /\ DetailIsTheOneOpened /\ SpinnersAreOwned
<1>1. /\ page \in Pages /\ ViewInv(page) /\ CallsInv(page) /\ Owned(page, {}) /\ TabLoaded(page)
  BY DEF MailInv, PageInv
<1>2. TypeOK
  <2>1. \A c, d \in page.calls : c.id = d.id => c = d
    BY <1>1 DEF CallsInv, Distinct
  <2>2. \A f \in Folders : page.lists[f].read \subseteq page.lists[f].items
    BY <1>1 DEF ViewInv, ListsFit
  <2>3. page.detail.kind = "none" <=> page.active = None
    BY <1>1 DEF ViewInv, DetailFits
  <2>4. /\ page.tab \in Tabs /\ page.email \in Boxes \cup {None}
        /\ {page.querying, page.auto} \subseteq BOOLEAN
        /\ page.lists \in [Folders -> Lists]
        /\ page.selected \subseteq Mails /\ page.active \in Mails \cup {None}
        /\ page.restore \in Views \cup {NoDetail} /\ page.calls \subseteq Calls
    BY <1>1 DEF Pages
  <2>5. page.search \in [active : BOOLEAN, items : SUBSET Mails, read : SUBSET Mails,
                         status : Statuses]
    BY <1>1 DEF Pages, Searches
  <2>6. page.detail \in [kind : {"none", "loading", "error", "mail", "sent"},
                         id : Mails \cup {None}, trash : BOOLEAN]
    BY <1>1 DEF Pages, Details
  <2>7. page.offers \subseteq [email : Boxes, mails : SUBSET Mails, removed : SUBSET Mails,
                               read : SUBSET Mails, single : BOOLEAN]
    BY <1>1 DEF Pages, Offers
  <2> QED
    BY <2>1, <2>2, <2>3, <2>4, <2>5, <2>6, <2>7 DEF TypeOK, MailInv
<1>3. ShownBelongsToMailbox
  BY <1>1 DEF ShownBelongsToMailbox, ViewInv, ListsFit, DetailFits, AllOf
<1>4. DetailIsTheOneOpened
  BY <1>1 DEF DetailIsTheOneOpened, ViewInv, DetailFits
<1>5. SpinnersAreOwned
  <2>1. InboxOwned(page) /\ SearchOwned(page) /\ DetailOwned(page)
        /\ \A f \in {"sent", "trash"} : FolderOwned(page, f)
    BY <1>1 DEF Owned
  <2>2. DetailOwned(page) => (page.detail.kind = "loading" => Newest_({"detail", "sentDetail"}, page))
    <3>1. \A c \in page.calls : Ticket(c.kind) = "detail" => c.kind \in {"detail", "sentDetail"}
      BY <1>1, TicketIs DEF Pages, Calls
    <3> QED
      BY <3>1 DEF DetailOwned, Newest_
  <2>3. \A f \in {"sent", "trash"} :
          page.lists[f].status = "loading" \/ page.lists[f].more => Newest_({f}, page)
    BY <2>1 DEF FolderOwned, Newest_
  <2>4. \A f \in {"sent", "trash"} :
          page.tab = f /\ page.email # None => page.lists[f].status # "idle"
    BY <1>1 DEF TabLoaded
  <2>5. page.search.active /\ page.search.status = "loading" => Newest_({"search"}, page)
    BY <2>1 DEF SearchOwned, Newest_
  <2>6. /\ page.lists["inbox"].status = "loading" =>
             \E c \in page.calls : c.kind = "query" /\ ~c.opt /\ c.current
        /\ page.lists["inbox"].more => Newest_({"more"}, page)
    BY <2>1 DEF InboxOwned, Newest_
  <2> QED
    BY <2>1, <2>2, <2>3, <2>4, <2>5, <2>6 DEF SpinnersAreOwned
<1> QED
  BY <1>2, <1>3, <1>4, <1>5

(***************************************************************************)
(* The theorems                                                            *)
(***************************************************************************)
\* The page and its calls stay as the handlers of state.ts leave them.
THEOREM MailInvariantHolds == Spec => []MailInv
<1> QED
  BY MailInvHolds, MailInvKept, PTL DEF Spec

\* The store of the page, its calls and the server's side keep their types.
THEOREM WebMailTyped == Spec => []TypeOK
<1> QED
  BY MailInvariantHolds, MailInvImplies, PTL

\* Whatever replies come late from other mailboxes, the page shows and selects
\* mails of the mailbox it names only (fresh, GotInbox of state.ts).
THEOREM MailboxShown == Spec => []ShownBelongsToMailbox
<1> QED
  BY MailInvariantHolds, MailInvImplies, PTL

\* The mail in the right column is the one opened last, in the tab it was opened
\* in: its buttons delete, restore or purge that mail (the detail ticket).
THEOREM DetailOpened == Spec => []DetailIsTheOneOpened
<1> QED
  BY MailInvariantHolds, MailInvImplies, PTL

\* Every spinner has the call that will stop it under way, and a list that is
\* shown is never left idle: no dropped reply leaves the page loading for ever.
THEOREM SpinnersOwned == Spec => []SpinnersAreOwned
<1> QED
  BY MailInvariantHolds, MailInvImplies, PTL

(***************************************************************************)
(* The silent refresh: it brings no mail back that the user was told is    *)
(* deleted, unmarks none that was read and drops no page that was loaded.  *)
(*                                                                         *)
(* RefreshInv is what every handler keeps.  Most of it can be said of the  *)
(* inbox, the search, the offers and the requests of a page; the other     *)
(* parts of a page need only be there (IsPage).                            *)
(***************************************************************************)

(***************************************************************************)
(* Pages by their shape                                                    *)
(***************************************************************************)
IsList(l) ==
    l \in [items : {l.items}, read : {l.read}, total : {l.total}, status : {l.status},
           more : {l.more}]

IsSearch(s) ==
    s \in [active : {s.active}, items : {s.items}, read : {s.read}, status : {s.status}]

IsCall(c) ==
    c \in [id : {c.id}, kind : {c.kind}, opt : {c.opt}, email : {c.email}, mails : {c.mails},
           at : {c.at}, limit : {c.limit}, current : {c.current}, edited : {c.edited},
           wanted : {c.wanted}, awaited : {c.awaited}, reply : {c.reply}, got : {c.got},
           read : {c.read}, whole : {c.whole}]

IsPage(p) ==
    /\ p \in [tab : {p.tab}, email : {p.email}, querying : {p.querying}, auto : {p.auto},
              lists : {p.lists}, search : {p.search}, selected : {p.selected},
              active : {p.active}, detail : {p.detail}, offers : {p.offers},
              restore : {p.restore}, calls : {p.calls}]
    /\ p.lists \in [Folders -> {p.lists[f] : f \in Folders}]
    /\ \A f \in Folders : IsList(p.lists[f])
    /\ IsSearch(p.search) /\ \A c \in p.calls : IsCall(c)

LEMMA PagesAre ==
    ASSUME NEW p \in Pages
    PROVE  IsPage(p)
<1>1. p.lists \in [Folders -> Lists] /\ p.search \in Searches /\ p.calls \subseteq Calls
  BY DEF Pages
<1>2. \A f \in Folders : IsList(p.lists[f])
  BY <1>1 DEF Lists, IsList
<1>3. IsSearch(p.search)
  BY <1>1 DEF Searches, IsSearch
<1>4. \A c \in Calls : IsCall(c)
  BY DEF Calls, IsCall
<1>5. p \in [tab : {p.tab}, email : {p.email}, querying : {p.querying}, auto : {p.auto},
             lists : {p.lists}, search : {p.search}, selected : {p.selected},
             active : {p.active}, detail : {p.detail}, offers : {p.offers},
             restore : {p.restore}, calls : {p.calls}]
  BY DEF Pages
<1> QED
  BY <1>1, <1>2, <1>3, <1>4, <1>5 DEF IsPage

\* A page that RefreshInv can be said of.
Good(p) == IsPage(p) /\ Known(p) /\ \A c \in p.calls : Live(c) => UpToDate(p, c)

\* The same request, perhaps without its ticket or overtaken by an edit.
Like(d, c) ==
    /\ d.kind = c.kind /\ d.mails = c.mails /\ d.at = c.at /\ d.limit = c.limit
    /\ d.reply = c.reply /\ d.got = c.got /\ d.read = c.read /\ d.whole = c.whole
    /\ d.current => c.current
    /\ c.edited => d.edited

NewCall(d) == d.reply = "none" /\ CallKnown(d)

\* Every request of q is one of p, or was just sent.
CallsFrom(p, q) == \A d \in q.calls : NewCall(d) \/ \E c \in p.calls : Like(d, c)

\* There is nothing on q that is not on p.
ViewFrom(p, q) ==
    /\ q.lists["inbox"].items \subseteq p.lists["inbox"].items
    /\ q.lists["inbox"].read \subseteq p.lists["inbox"].read
    /\ q.search.items \subseteq p.search.items /\ q.search.read \subseteq p.search.read
    /\ q.offers \subseteq p.offers

NoneLive(p) == \A c \in p.calls : ~Live(c)

LEMMA LikeKnown ==
    ASSUME NEW c, CallKnown(c), NEW d, Like(d, c)
    PROVE  CallKnown(d)
BY DEF CallKnown, Like

\* No request of p is live, and what is on q is known.
LEMMA Learns ==
    ASSUME NEW p, Good(p), NEW q, IsPage(q), ViewKnown(q), CallsFrom(p, q), NoneLive(q)
    PROVE  Good(q)
<1>1. \A d \in q.calls : CallKnown(d)
  BY LikeKnown DEF Good, Known, CallsFrom, NewCall
<1> QED
  BY <1>1 DEF Good, Known, NoneLive

LEMMA LiveLike ==
    ASSUME NEW p, NEW q, CallsFrom(p, q)
    PROVE  /\ \A d \in q.calls : Live(d) => \E c \in p.calls : Live(c) /\ Like(d, c)
           /\ NoneLive(p) => NoneLive(q)
BY DEF CallsFrom, Live, Like, NewCall, NoneLive

LEMMA Forgets ==
    ASSUME NEW p, Good(p), NEW q, IsPage(q), ViewFrom(p, q), CallsFrom(p, q)
    PROVE  Good(q)
<1>1. \A d \in q.calls : CallKnown(d)
  BY LikeKnown DEF Good, Known, CallsFrom, NewCall
<1>2. ViewKnown(q)
  BY DEF Good, Known, ViewKnown, ViewFrom, Born, StayRead
<1>3. ASSUME NEW d \in q.calls, Live(d) PROVE UpToDate(q, d)
  <2>1. PICK c \in p.calls : Live(c) /\ Like(d, c)
    BY <1>3, LiveLike
  <2>2. UpToDate(p, c)
    BY <2>1 DEF Good
  <2> QED
    BY <2>1, <2>2 DEF UpToDate, Like, ViewFrom
<1> QED
  BY <1>1, <1>2, <1>3 DEF Good, Known

LEMMA LikeSelf ==
    ASSUME NEW p
    PROVE  ViewFrom(p, p) /\ CallsFrom(p, p)
BY DEF ViewFrom, CallsFrom, Like

(***************************************************************************)
(* Handlers that bring nothing new                                         *)
(***************************************************************************)
\* All but the requests is the same, and there is a call like each of p's.
SameSheet(p, q) == IsPage(q) /\ SameView(p, q) /\ CallsFrom(p, q)

LEMMA SheetGood ==
    ASSUME NEW p, Good(p), NEW q, SameSheet(p, q)
    PROVE  Good(q)
<1>1. ViewFrom(p, q)
  BY DEF SameSheet, SameView, ViewFrom
<1> QED
  BY <1>1, Forgets DEF SameSheet

LEMMA SheetCalls ==
    ASSUME NEW p, IsPage(p), NEW C, \A d \in C : IsCall(d),
           \A d \in C : NewCall(d) \/ \E c \in p.calls : Like(d, c)
    PROVE  LET q == [p EXCEPT !.calls = C]
           IN SameSheet(p, q) /\ q.calls = C
<1>1. PICK q : q = [p EXCEPT !.calls = C]
  OBVIOUS
<1>2. IsPage(q) /\ SameView(p, q) /\ q.calls = C
  BY <1>1 DEF IsPage, SameView
<1> QED
  BY <1>1, <1>2 DEF SameSheet, CallsFrom

LEMMA OutdateGood ==
    ASSUME NEW p, Good(p), NEW t
    PROVE  LET q == Outdate(p, t) IN SameSheet(p, q) /\ Good(q)
<1> DEFINE C == {[c EXCEPT !.current = @ /\ Ticket(c.kind) # t] : c \in p.calls}
<1>1. IsPage(p) /\ \A c \in p.calls : IsCall(c)
  BY DEF Good, IsPage
<1>2. ASSUME NEW c \in p.calls
      PROVE  LET d == [c EXCEPT !.current = @ /\ Ticket(c.kind) # t] IN IsCall(d) /\ Like(d, c)
  <2>1. IsCall(c)
    BY <1>1
  <2> QED
    BY <2>1 DEF IsCall, Like
<1>3. \A d \in C : IsCall(d) /\ \E c \in p.calls : Like(d, c)
  BY <1>2
<1>4. Outdate(p, t) = [p EXCEPT !.calls = C]
  BY DEF Outdate
<1> HIDE DEF C
<1> QED
  BY <1>1, <1>3, <1>4, SheetCalls, SheetGood

LEMMA EditedGood ==
    ASSUME NEW p, Good(p)
    PROVE  LET q == InboxEdited(p) IN SameSheet(p, q) /\ Good(q) /\ NoneLive(q)
<1> DEFINE C == {[c EXCEPT !.edited = TRUE] : c \in p.calls}
<1>1. IsPage(p) /\ \A c \in p.calls : IsCall(c)
  BY DEF Good, IsPage
<1>2. ASSUME NEW c \in p.calls
      PROVE  LET d == [c EXCEPT !.edited = TRUE] IN IsCall(d) /\ Like(d, c) /\ ~Live(d)
  <2>1. IsCall(c)
    BY <1>1
  <2> QED
    BY <2>1 DEF IsCall, Like, Live
<1>3. \A d \in C : IsCall(d) /\ ~Live(d) /\ \E c \in p.calls : Like(d, c)
  BY <1>2
<1>4. InboxEdited(p) = [p EXCEPT !.calls = C]
  BY DEF InboxEdited
<1> HIDE DEF C
<1>5. PICK q : q = [p EXCEPT !.calls = C]
  OBVIOUS
<1>6. SameSheet(p, q) /\ q.calls = C
  BY <1>1, <1>3, <1>5, SheetCalls
<1>7. Good(q) /\ NoneLive(q)
  BY <1>3, <1>6, SheetGood DEF NoneLive
<1> QED
  BY <1>4, <1>5, <1>6, <1>7

LEMMA SendGood ==
    ASSUME NEW p, Good(p), NEW call, IsCall(call), NewCall(call)
    PROVE  LET q == Send(p, call) IN SameSheet(p, q) /\ Good(q)
<1>1. PICK o : o = IF Ticket(call.kind) = "none" THEN p ELSE Outdate(p, Ticket(call.kind))
  OBVIOUS
<1>2. SameSheet(p, o) /\ Good(o)
  <2>1. CASE Ticket(call.kind) = "none"
    BY <1>1, <2>1, LikeSelf DEF SameSheet, SameView, Good
  <2>2. CASE Ticket(call.kind) # "none"
    BY <1>1, <2>2, OutdateGood
  <2> QED
    BY <2>1, <2>2
<1>3. PICK C : C = o.calls \cup {call}
  OBVIOUS
<1>4. IsPage(o) /\ \A c \in o.calls : IsCall(c)
  BY <1>2 DEF SameSheet, IsPage
<1>5. \A d \in C : IsCall(d) /\ (NewCall(d) \/ \E c \in p.calls : Like(d, c))
  BY <1>2, <1>3, <1>4 DEF SameSheet, CallsFrom
<1>6. Send(p, call) = [o EXCEPT !.calls = C]
  BY <1>1, <1>3 DEF Send
<1>7. PICK q : q = [o EXCEPT !.calls = C]
  OBVIOUS
<1>8. IsPage(q) /\ SameView(o, q) /\ q.calls = C
  BY <1>4, <1>5, <1>7 DEF IsPage, SameView
<1>9. SameSheet(p, q)
  BY <1>2, <1>5, <1>8 DEF SameSheet, SameView, CallsFrom
<1> QED
  BY <1>6, <1>7, <1>9, SheetGood

LEMMA RequestGood ==
    ASSUME NEW p, NEW kind, kind \notin {"markRead", "refresh"}, NEW opt, NEW email, NEW mails
    PROVE  LET c == Request(p, kind, opt, email, mails)
           IN IsCall(c) /\ NewCall(c)
BY DEF Request, IsCall, NewCall, CallKnown, Born, StayRead

\* Everything a refresh looks at stays as it is.
Beside(p, q) ==
    /\ IsPage(q) /\ q.calls = p.calls /\ q.lists["inbox"].items = p.lists["inbox"].items
    /\ q.lists["inbox"].read = p.lists["inbox"].read
    /\ q.search.items \subseteq p.search.items /\ q.search.read \subseteq p.search.read
    /\ q.offers \subseteq p.offers

LEMMA BesideGood ==
    ASSUME NEW p, Good(p), NEW q, Beside(p, q)
    PROVE  Good(q)
<1>1. ViewFrom(p, q) /\ CallsFrom(p, q)
  BY DEF Beside, ViewFrom, CallsFrom, Like
<1> QED
  BY <1>1, Forgets DEF Beside

LEMMA ResetGood ==
    ASSUME NEW p, Good(p)
    PROVE  Good(ResetMailDetail(p))
<1>1. PICK o : o = Outdate(p, "detail")
  OBVIOUS
<1>2. Good(o)
  BY <1>1, OutdateGood
<1>3. PICK q : q = [o EXCEPT !.detail = NoDetail, !.active = None]
  OBVIOUS
<1>4. Beside(o, q)
  BY <1>2, <1>3 DEF Good, IsPage, Beside
<1> QED
  BY <1>1, <1>2, <1>3, <1>4, BesideGood DEF ResetMailDetail

LEMMA OpenGood ==
    ASSUME NEW p, Good(p), NEW kind \in {"detail", "sentDetail"}, NEW m, NEW trash
    PROVE  Good(OpenDetailShell(p, kind, m, trash))
<1>1. PICK o : o = [p EXCEPT !.active = m,
                             !.detail = [kind |-> "loading", id |-> None, trash |-> FALSE]]
  OBVIOUS
<1>2. Beside(p, o)
  BY <1>1 DEF Good, IsPage, Beside
<1>3. PICK call : call = Request(p, kind, trash, p.email, {m})
  OBVIOUS
<1>4. IsCall(call) /\ NewCall(call)
  BY <1>3, RequestGood
<1>5. OpenDetailShell(p, kind, m, trash) = Send(o, call)
  BY <1>1, <1>3 DEF OpenDetailShell
<1> QED
  BY <1>2, <1>4, <1>5, BesideGood, SendGood

LEMMA LoadInboxGood ==
    ASSUME NEW p, Good(p), NEW email, NEW silent \in BOOLEAN
    PROVE  Good(LoadInbox(p, email, silent))
<1>1. PICK r : r = ResetMailDetail(p)
  OBVIOUS
<1>2. Good(r)
  BY <1>1, ResetGood
<1>3. PICK q : q = IF silent THEN p
                   ELSE [r EXCEPT !.querying = TRUE, !.selected = {},
                                  !.lists["inbox"].status = "loading"]
  OBVIOUS
<1>4. "inbox" \in Folders
  BY DEF Folders
<1>5. Good(q)
  <2>1. CASE silent
    BY <1>3, <2>1
  <2>2. CASE ~silent
    <3>1. PICK v : v = [r EXCEPT !.lists["inbox"].status = "loading"]
      OBVIOUS
    <3>2. Beside(r, v)
      BY <1>2, <1>4, <3>1 DEF Good, IsPage, IsList, Beside
    <3>3. q = [v EXCEPT !.querying = TRUE, !.selected = {}]
      BY <1>2, <1>3, <2>2, <3>1 DEF Good, IsPage
    <3>4. Beside(v, q)
      BY <3>2, <3>3 DEF IsPage, Beside
    <3> QED
      BY <1>2, <3>2, <3>4, BesideGood
  <2> QED
    BY <2>1, <2>2
<1>6. PICK s : s = [q EXCEPT !.lists["inbox"].more = FALSE]
  OBVIOUS
<1>7. Beside(q, s)
  BY <1>4, <1>5, <1>6 DEF Good, IsPage, IsList, Beside
<1>8. PICK call : call = Request(p, "query", silent, email, {})
  OBVIOUS
<1>9. IsCall(call) /\ NewCall(call)
  BY <1>8, RequestGood
<1>10. LoadInbox(p, email, silent) = Send(s, call)
  BY <1>1, <1>3, <1>6, <1>8 DEF LoadInbox
<1> QED
  BY <1>5, <1>7, <1>9, <1>10, BesideGood, SendGood

LEMMA AwaitGood ==
    ASSUME NEW p, Good(p), NEW id
    PROVE  Good(Await(p, id))
<1> DEFINE C == {[c EXCEPT !.awaited = @ \/ c.id = id] : c \in p.calls}
<1>1. IsPage(p) /\ \A c \in p.calls : IsCall(c)
  BY DEF Good, IsPage
<1>2. ASSUME NEW c \in p.calls
      PROVE  LET d == [c EXCEPT !.awaited = @ \/ c.id = id] IN IsCall(d) /\ Like(d, c)
  <2>1. IsCall(c)
    BY <1>1
  <2> QED
    BY <2>1 DEF IsCall, Like
<1>3. \A d \in C : IsCall(d) /\ \E c \in p.calls : Like(d, c)
  BY <1>2
<1>4. Await(p, id) = [p EXCEPT !.calls = C]
  BY DEF Await
<1> HIDE DEF C
<1> QED
  BY <1>1, <1>3, <1>4, SheetCalls, SheetGood

LEMMA QueryInboxGood ==
    ASSUME NEW p, Good(p), NEW email
    PROVE  Good(QueryInbox(p, email))
<1>1. PICK q : q = LoadInbox(p, email, FALSE)
  OBVIOUS
<1>2. Good(q)
  BY <1>1, LoadInboxGood
<1> DEFINE C == {[c EXCEPT !.wanted = c.id = FreeId(p)] : c \in q.calls}
<1>3. IsPage(q) /\ \A c \in q.calls : IsCall(c)
  BY <1>2 DEF Good, IsPage
<1>4. ASSUME NEW c \in q.calls
      PROVE  LET d == [c EXCEPT !.wanted = c.id = FreeId(p)] IN IsCall(d) /\ Like(d, c)
  <2>1. IsCall(c)
    BY <1>3
  <2> QED
    BY <2>1 DEF IsCall, Like
<1>5. \A d \in C : IsCall(d) /\ \E c \in q.calls : Like(d, c)
  BY <1>4
<1>6. QueryInbox(p, email) = [q EXCEPT !.calls = C]
  BY <1>1 DEF QueryInbox
<1> HIDE DEF C
<1> QED
  BY <1>2, <1>3, <1>5, <1>6, SheetCalls, SheetGood

LEMMA LoadFolderGood ==
    ASSUME NEW p, Good(p), NEW f \in {"sent", "trash"}, NEW append \in BOOLEAN
    PROVE  Good(LoadFolder(p, f, append))
<1>1. PICK at : at = IF append THEN Cardinality(p.lists[f].items) ELSE 0
  OBVIOUS
<1>2. PICK q : q = IF append THEN [p EXCEPT !.lists[f].more = TRUE]
                   ELSE [p EXCEPT !.lists[f].status = "loading"]
  OBVIOUS
<1>3. f \in Folders /\ "inbox" \in Folders /\ f # "inbox"
  BY DEF Folders
<1>4. Beside(p, q)
  BY <1>2, <1>3 DEF Good, IsPage, IsList, Beside
<1>5. PICK call : call = [Request(p, f, append, p.email, {}) EXCEPT !.at = at]
  OBVIOUS
<1>6. IsCall(call) /\ NewCall(call)
  BY <1>5 DEF Request, IsCall, NewCall, CallKnown, Born, StayRead
<1>7. LoadFolder(p, f, append) = Send(q, call)
  BY <1>1, <1>2, <1>5 DEF LoadFolder
<1> QED
  BY <1>4, <1>6, <1>7, BesideGood, SendGood

LEMMA ShowTabGood ==
    ASSUME NEW p, Good(p), p.tab \in Folders
    PROVE  Good(ShowTab(p))
<1>1. p.tab # "inbox" => p.tab \in {"sent", "trash"}
  BY DEF Folders
<1>2. \/ p.tab # "inbox" /\ ShowTab(p) = LoadFolder(p, p.tab, FALSE)
      \/ ShowTab(p) = p
      \/ ShowTab(p) = LoadInbox(p, p.email, FALSE)
  BY DEF ShowTab
<1> QED
  BY <1>1, <1>2, LoadFolderGood, LoadInboxGood

LEMMA SwitchTabGood ==
    ASSUME NEW p, Good(p), NEW tab \in Tabs
    PROVE  Good(SwitchTab(p, tab))
<1>1. PICK o : o = Outdate(p, "search")
  OBVIOUS
<1>2. Good(o)
  BY <1>1, OutdateGood
<1>3. PICK q : q = [o EXCEPT !.tab = tab, !.auto = @ /\ tab = "inbox", !.search.active = FALSE,
                             !.search.items = {}, !.search.read = {}, !.selected = {}]
  OBVIOUS
<1>4. Beside(o, q) /\ q.tab = tab
  BY <1>2, <1>3 DEF Good, IsPage, IsSearch, Beside
<1>5. PICK r : r = ResetMailDetail(q)
  OBVIOUS
<1>6. Good(q) /\ Good(r)
  BY <1>2, <1>4, <1>5, BesideGood, ResetGood
<1>7. r.tab = tab
  <2>1. PICK w : w = Outdate(q, "detail")
    OBVIOUS
  <2>2. IsPage(w) /\ w.tab = q.tab
    BY <1>6, <2>1, OutdateGood DEF SameSheet, SameView
  <2>3. r = [w EXCEPT !.detail = NoDetail, !.active = None]
    BY <1>5, <2>1 DEF ResetMailDetail
  <2> QED
    BY <1>4, <2>2, <2>3 DEF IsPage
<1>8. SwitchTab(p, tab) = CASE tab = "imap" -> q
                            [] tab # "imap" /\ p.email = None -> r
                            [] OTHER -> ShowTab(r)
  BY <1>1, <1>3, <1>5 DEF SwitchTab
<1>9. tab # "imap" => tab \in Folders
  BY DEF Tabs
<1>10. tab # "imap" => Good(ShowTab(r))
  BY <1>6, <1>7, <1>9, ShowTabGood
<1> QED
  BY <1>6, <1>8, <1>10

LEMMA ClearSearchGood ==
    ASSUME NEW p, Good(p)
    PROVE  Good(ClearSearch(p))
<1>1. PICK o : o = Outdate(p, "search")
  OBVIOUS
<1>2. Good(o)
  BY <1>1, OutdateGood
<1>3. PICK q : q = [o EXCEPT !.search.active = FALSE, !.search.items = {}, !.search.read = {},
                             !.selected = {}]
  OBVIOUS
<1>4. Beside(o, q)
  BY <1>2, <1>3 DEF Good, IsPage, IsSearch, Beside
<1> QED
  BY <1>1, <1>2, <1>3, <1>4, BesideGood DEF ClearSearch

LEMMA PruneGood ==
    ASSUME NEW p, Good(p)
    PROVE  /\ Good(PruneSelection(p))
           /\ PruneSelection(p).lists = p.lists /\ PruneSelection(p).calls = p.calls
<1>1. PICK q : q = [p EXCEPT !.selected = @ \cap Shown(p)]
  OBVIOUS
<1>2. Beside(p, q) /\ q.lists = p.lists
  BY <1>1 DEF Good, IsPage, Beside
<1> QED
  BY <1>1, <1>2, BesideGood DEF PruneSelection, Beside

LEMMA RestoreGood ==
    ASSUME NEW p, Good(p)
    PROVE  Good(RestoreMail(p))
<1>1. PICK q : q = [p EXCEPT !.restore = NoDetail]
  OBVIOUS
<1>2. Beside(p, q)
  BY <1>1 DEF Good, IsPage, Beside
<1>3. Good(q)
  BY <1>2, BesideGood
<1>4. PICK kind, m, trash : /\ kind = IF p.tab = "sent" THEN "sentDetail" ELSE "detail"
                            /\ m = p.restore.msg /\ trash = (p.tab = "trash")
  OBVIOUS
<1>5. Good(OpenDetailShell(q, kind, m, trash))
  BY <1>3, <1>4, OpenGood
<1>6. RestoreMail(p) = q \/ RestoreMail(p) = OpenDetailShell(q, kind, m, trash)
  BY <1>1, <1>4 DEF RestoreMail
<1> QED
  BY <1>3, <1>5, <1>6

LEMMA ResumeGood ==
    ASSUME NEW p, Good(p), NEW c
    PROVE  Good(Resume(p, c))
<1>1. Good(RestoreMail(p))
  BY RestoreGood
<1>2. Good([p EXCEPT !.restore = NoDetail])
  <2>1. PICK q : q = [p EXCEPT !.restore = NoDetail]
    OBVIOUS
  <2>2. Beside(p, q)
    BY <2>1 DEF Good, IsPage, Beside
  <2> QED
    BY <2>1, <2>2, BesideGood
<1>3. PICK tab : tab = p.restore.tab
  OBVIOUS
<1>4. PICK q : q = SwitchTab(p, tab)
  OBVIOUS
<1>5. PICK id : id = (CHOOSE d \in q.calls : d.kind = tab /\ d.current).id
  OBVIOUS
<1>6. tab \in {"sent", "trash"} => Good(Await(q, id))
  <2>1. tab \in {"sent", "trash"} => Good(q)
    BY <1>4, SwitchTabGood DEF Tabs, Folders
  <2> QED
    BY <2>1, AwaitGood
<1>7. \/ Resume(p, c) = RestoreMail(p)
      \/ Resume(p, c) = [p EXCEPT !.restore = NoDetail]
      \/ tab \in {"sent", "trash"} /\ Resume(p, c) = Await(q, id)
  BY <1>3, <1>4, <1>5 DEF Resume
<1> QED
  BY <1>1, <1>2, <1>6, <1>7

(***************************************************************************)
(* Handlers that edit the inbox                                            *)
(***************************************************************************)
LEMMA ListSet ==
    ASSUME NEW p, IsPage(p), NEW f \in Folders, NEW n, IsList(n)
    PROVE  LET v == [p EXCEPT !.lists = [p.lists EXCEPT ![f] = n]] IN
           /\ IsPage(v) /\ v.calls = p.calls /\ v.search = p.search /\ v.offers = p.offers
           /\ v.tab = p.tab /\ v.email = p.email
           /\ v.lists[f] = n /\ \A g \in Folders \ {f} : v.lists[g] = p.lists[g]
BY DEF IsPage

LEMMA RemoveGood ==
    ASSUME NEW p, Good(p), NEW mails
    PROVE  LET q == RemoveFromInbox(p, mails) IN Good(q) /\ NoneLive(q)
<1>1. PICK o : o = InboxEdited(p)
  OBVIOUS
<1>2. Good(o) /\ NoneLive(o) /\ IsPage(o)
  BY <1>1, EditedGood DEF Good
<1>3. "inbox" \in Folders
  BY DEF Folders
<1>4. PICK v : v = [o EXCEPT !.lists["inbox"].items = @ \ mails, !.lists["inbox"].read = @ \ mails,
                       !.lists["inbox"].total =
                           IF @ > Cardinality(mails) THEN @ - Cardinality(mails) ELSE 0]
  OBVIOUS
<1>5. /\ IsPage(v) /\ v.calls = o.calls /\ v.search = o.search /\ v.offers = o.offers
      /\ v.lists["inbox"].items \subseteq o.lists["inbox"].items
      /\ v.lists["inbox"].read \subseteq o.lists["inbox"].read
  <2>1. PICK n : n = [o.lists["inbox"] EXCEPT
                         !.items = @ \ mails, !.read = @ \ mails,
                         !.total = IF @ > Cardinality(mails) THEN @ - Cardinality(mails) ELSE 0]
    OBVIOUS
  <2>2. /\ IsList(n) /\ n.items \subseteq o.lists["inbox"].items
        /\ n.read \subseteq o.lists["inbox"].read
    BY <1>2, <1>3, <2>1 DEF IsPage, IsList
  <2>3. v = [o EXCEPT !.lists = [o.lists EXCEPT !["inbox"] = n]]
    BY <1>2, <1>3, <1>4, <2>1 DEF IsPage, IsList
  <2> QED
    BY <1>2, <1>3, <2>2, <2>3, ListSet
<1>6. Good(v) /\ NoneLive(v)
  <2>1. ViewFrom(o, v) /\ CallsFrom(o, v)
    BY <1>5 DEF ViewFrom, CallsFrom, Like
  <2> QED
    BY <1>2, <1>5, <2>1, Forgets DEF NoneLive
<1>7. PICK w : w = [v EXCEPT !.search.items = @ \ mails, !.search.read = @ \ mails]
  OBVIOUS
<1>8. Beside(v, w)
  BY <1>5, <1>7 DEF IsPage, IsSearch, Beside
<1>9. Good(w) /\ NoneLive(w)
  BY <1>6, <1>8, BesideGood DEF Beside, NoneLive
<1>10. RemoveFromInbox(p, mails) = PruneSelection(w)
  BY <1>1, <1>4, <1>7 DEF RemoveFromInbox
<1> QED
  BY <1>9, <1>10, PruneGood DEF NoneLive

LEMMA PutBackGood ==
    ASSUME NEW p, Good(p), NEW offer, Born(offer.removed), StayRead(offer.read)
    PROVE  Good(PutBackIntoInbox(p, offer))
<1>1. PICK o : o = InboxEdited(p)
  OBVIOUS
<1>2. Good(o) /\ NoneLive(o) /\ IsPage(o) /\ SameSheet(p, o)
  BY <1>1, EditedGood DEF Good
<1>3. "inbox" \in Folders
  BY DEF Folders
<1>4. PICK back : back = offer.read \ p.lists["inbox"].items
  OBVIOUS
<1>5. PICK v : v = [o EXCEPT !.lists["inbox"].read = @ \cup back,
                             !.lists["inbox"].items = @ \cup offer.removed,
                             !.lists["inbox"].total = @ + Cardinality(offer.removed)]
  OBVIOUS
<1>6. /\ IsPage(v) /\ v.calls = o.calls /\ v.search = o.search /\ v.offers = o.offers
      /\ v.lists["inbox"].items = o.lists["inbox"].items \cup offer.removed
      /\ v.lists["inbox"].read = o.lists["inbox"].read \cup back
  <2>1. PICK n : n = [o.lists["inbox"] EXCEPT
                         !.read = @ \cup back, !.items = @ \cup offer.removed,
                         !.total = @ + Cardinality(offer.removed)]
    OBVIOUS
  <2>2. /\ IsList(n) /\ n.items = o.lists["inbox"].items \cup offer.removed
        /\ n.read = o.lists["inbox"].read \cup back
    BY <1>2, <1>3, <2>1 DEF IsPage, IsList
  <2>3. v = [o EXCEPT !.lists = [o.lists EXCEPT !["inbox"] = n]]
    BY <1>2, <1>3, <1>5, <2>1 DEF IsPage, IsList
  <2> QED
    BY <1>2, <1>3, <2>2, <2>3, ListSet
<1>7. ViewKnown(v)
  BY <1>2, <1>4, <1>6 DEF Good, Known, ViewKnown, Born, StayRead
<1>8. CallsFrom(o, v) /\ NoneLive(v)
  BY <1>2, <1>6 DEF CallsFrom, Like, NoneLive
<1>9. Good(v)
  BY <1>2, <1>6, <1>7, <1>8, Learns
<1>10. PutBackIntoInbox(p, offer) = p \/ PutBackIntoInbox(p, offer) = v
  BY <1>1, <1>4, <1>5 DEF PutBackIntoInbox
<1> QED
  BY <1>9, <1>10

LEMMA MarkedGood ==
    ASSUME NEW p, Good(p), NEW mails, StayRead(mails)
    PROVE  Good(MarkedRead(p, mails))
<1>1. PICK o : o = InboxEdited(p)
  OBVIOUS
<1>2. Good(o) /\ NoneLive(o) /\ IsPage(o) /\ SameSheet(p, o)
  BY <1>1, EditedGood DEF Good
<1>3. "inbox" \in Folders
  BY DEF Folders
<1>4. PICK x, y : x = mails \cap p.lists["inbox"].items /\ y = mails \cap p.search.items
  OBVIOUS
<1>5. PICK v : v = [o EXCEPT !.lists["inbox"].read = @ \cup x, !.search.read = @ \cup y]
  OBVIOUS
<1>6. /\ IsPage(v) /\ v.calls = o.calls /\ v.offers = o.offers
      /\ v.search.items = o.search.items /\ v.search.read = o.search.read \cup y
      /\ v.lists["inbox"].items = o.lists["inbox"].items
      /\ v.lists["inbox"].read = o.lists["inbox"].read \cup x
  BY <1>2, <1>3, <1>5 DEF IsPage, IsList, IsSearch
<1>7. ViewKnown(v)
  BY <1>2, <1>4, <1>6 DEF Good, Known, ViewKnown, Born, StayRead
<1>8. CallsFrom(o, v) /\ NoneLive(v)
  BY <1>2, <1>6 DEF CallsFrom, Like, NoneLive
<1>9. Good(v)
  BY <1>2, <1>6, <1>7, <1>8, Learns
<1>10. MarkedRead(p, mails) = v
  BY <1>1, <1>4, <1>5 DEF MarkedRead
<1> QED
  BY <1>9, <1>10

(***************************************************************************)
(* What the replies bring                                                  *)
(***************************************************************************)
LEMMA ListedShape ==
    ASSUME NEW list, IsList(list), NEW c, NEW kept
    PROVE  LET n == Listed(list, c, kept) IN
           /\ IsList(n) /\ n.items = c.got \cup kept
           /\ n.read = c.read \cup (list.read \cap (kept \ c.got))
BY DEF Listed, IsList

LEMMA AppendedShape ==
    ASSUME NEW list, IsList(list), NEW c
    PROVE  LET n == Appended(list, c) IN
           /\ IsList(n) /\ n.items = list.items \cup c.got
           /\ n.read = list.read \cup (c.read \ list.items)
BY DEF Appended, IsList

\* The list of the inbox becomes n, when no refresh is live.
LEMMA InboxLearns ==
    ASSUME NEW p, Good(p), NoneLive(p), NEW n, IsList(n), Born(n.items), StayRead(n.read)
    PROVE  Good([p EXCEPT !.lists = [p.lists EXCEPT !["inbox"] = n]])
<1>1. "inbox" \in Folders /\ IsPage(p)
  BY DEF Folders, Good
<1>2. PICK v : v = [p EXCEPT !.lists = [p.lists EXCEPT !["inbox"] = n]]
  OBVIOUS
<1>3. /\ IsPage(v) /\ v.calls = p.calls /\ v.search = p.search /\ v.offers = p.offers
      /\ v.lists["inbox"] = n
  BY <1>1, <1>2, ListSet
<1>4. ViewKnown(v)
  BY <1>3 DEF Good, Known, ViewKnown
<1>5. CallsFrom(p, v) /\ NoneLive(v)
  BY <1>3 DEF CallsFrom, Like, NoneLive
<1> QED
  BY <1>2, <1>3, <1>4, <1>5, Learns

LEMMA GotInboxGood ==
    ASSUME NEW p, Good(p), NoneLive(p), NEW c, CallKnown(c)
    PROVE  Good(GotInbox(p, c))
<1>1. PICK changed \in BOOLEAN : changed <=> c.email # p.email
  OBVIOUS
<1>2. PICK r : r = IF changed THEN ResetMailDetail(p) ELSE p
  OBVIOUS
<1>3. PICK o : o = Outdate(r, "search")
  OBVIOUS
<1>4. Good(r) /\ NoneLive(r)
  <2>1. PICK w : w = Outdate(p, "detail")
    OBVIOUS
  <2>2. Good(w) /\ NoneLive(w)
    BY <2>1, OutdateGood, LiveLike DEF SameSheet
  <2>3. ResetMailDetail(p).calls = w.calls
    BY <2>1, <2>2 DEF ResetMailDetail, Good, IsPage
  <2> QED
    BY <1>2, <2>2, <2>3, ResetGood DEF NoneLive
<1>5. Good(o) /\ NoneLive(o) /\ IsPage(o)
  BY <1>3, <1>4, OutdateGood, LiveLike DEF SameSheet, Good
<1>6. PICK n : n = Listed([EmptyList EXCEPT !.status = "ready"], c, {})
  OBVIOUS
<1>7. IsList(n) /\ Born(n.items) /\ StayRead(n.read)
  <2>1. IsList([EmptyList EXCEPT !.status = "ready"])
    BY DEF IsList, EmptyList
  <2> QED
    BY <1>6, <2>1, ListedShape DEF CallKnown, Born, StayRead
<1>8. PICK l : l = [f \in Folders |-> CASE f = "inbox" -> n
                                        [] f # "inbox" /\ changed -> EmptyList
                                        [] OTHER -> o.lists[f]]
  OBVIOUS
<1>9. PICK x : x = IF c.opt /\ ~changed THEN o.selected ELSE {}
  OBVIOUS
<1>10. PICK q : q = [o EXCEPT !.email = c.email, !.lists = l, !.search.active = FALSE,
                              !.search.items = {}, !.search.read = {}, !.selected = x]
  OBVIOUS
<1>11. IsList(EmptyList) /\ "inbox" \in Folders
  BY DEF IsList, EmptyList, Folders
<1>12. l["inbox"] = n /\ l \in [Folders -> {l[f] : f \in Folders}] /\ \A f \in Folders : IsList(l[f])
  BY <1>5, <1>7, <1>8, <1>11 DEF IsPage
<1>13. /\ IsPage(q) /\ q.calls = o.calls /\ q.lists = l /\ q.search.items = {} /\ q.search.read = {}
       /\ q.offers = o.offers /\ q.tab = o.tab
  BY <1>5, <1>10, <1>12 DEF IsPage, IsSearch
<1>14. ViewKnown(q)
  BY <1>5, <1>7, <1>12, <1>13 DEF Good, Known, ViewKnown, Born, StayRead
<1>15. CallsFrom(o, q) /\ NoneLive(q)
  BY <1>5, <1>13 DEF CallsFrom, Like, NoneLive
<1>16. Good(q)
  BY <1>5, <1>13, <1>14, <1>15, Learns
<1>17. GotInbox(p, c) = IF changed /\ p.tab \in {"sent", "trash"} THEN LoadFolder(q, p.tab, FALSE)
                        ELSE q
  <2>1. o = Outdate(IF c.email # p.email THEN ResetMailDetail(p) ELSE p, "search")
    BY <1>1, <1>2, <1>3
  <2>2. [f \in Folders |->
            CASE f = "inbox" -> Listed([EmptyList EXCEPT !.status = "ready"], c, {})
              [] f # "inbox" /\ c.email # p.email -> EmptyList
              [] OTHER -> o.lists[f]] = l
    BY <1>1, <1>6, <1>8
  <2>3. (IF c.opt /\ ~(c.email # p.email) THEN o.selected ELSE {}) = x
    BY <1>1, <1>9
  <2>4. [o EXCEPT !.email = c.email,
                  !.lists = [f \in Folders |->
                      CASE f = "inbox" -> Listed([EmptyList EXCEPT !.status = "ready"], c, {})
                        [] f # "inbox" /\ c.email # p.email -> EmptyList
                        [] OTHER -> @[f]],
                  !.search.active = FALSE, !.search.items = {}, !.search.read = {},
                  !.selected = IF c.opt /\ ~(c.email # p.email) THEN @ ELSE {}] = q
    BY <1>10, <2>2, <2>3
  <2>5. GotInbox(p, c) = IF c.email # p.email /\ p.tab \in {"sent", "trash"}
                         THEN LoadFolder(q, p.tab, FALSE) ELSE q
    BY <2>1, <2>4 DEF GotInbox
  <2> QED
    BY <1>1, <2>5
<1> QED
  BY <1>16, <1>17, LoadFolderGood

LEMMA QueryGood ==
    ASSUME NEW p, Good(p), NEW c, CallKnown(c), c.current => NoneLive(p)
    PROVE  Good(QueryReply(p, c))
<1>1. PICK o : o = [p EXCEPT !.querying = @ /\ c.opt]
  OBVIOUS
<1>2. Beside(p, o)
  BY <1>1 DEF Good, IsPage, Beside
<1>3. Good(o) /\ (c.current => NoneLive(o))
  BY <1>2, BesideGood DEF Beside, NoneLive
<1>4. PICK e : e = [o EXCEPT !.lists["inbox"].status = "error"]
  OBVIOUS
<1>5. "inbox" \in Folders
  BY DEF Folders
<1>6. Beside(o, e)
  BY <1>3, <1>4, <1>5 DEF Good, IsPage, IsList, Beside
<1>7. \/ QueryReply(p, c) = p \/ QueryReply(p, c) = e
      \/ c.current /\ QueryReply(p, c) = GotInbox(o, c)
  BY <1>1, <1>4 DEF QueryReply
<1> QED
  BY <1>3, <1>6, <1>7, BesideGood, GotInboxGood

LEMMA RefreshGood ==
    ASSUME NEW p, Good(p), NEW c, CallKnown(c), c.current => NoneLive(p)
    PROVE  Good(RefreshReply(p, c))
<1>1. CASE ~Fresh(p, c) \/ c.edited \/ c.reply # "ok" \/ p.search.active
  BY <1>1 DEF RefreshReply
<1>2. CASE ~(~Fresh(p, c) \/ c.edited \/ c.reply # "ok" \/ p.search.active)
  <2>1. PICK i : i = p.lists["inbox"]
    OBVIOUS
  <2>2. PICK kept : kept = OlderThanWindow(i.items, c.got, c.limit, Cardinality(c.whole))
    OBVIOUS
  <2>3. PICK n : n = Listed(i, c, kept)
    OBVIOUS
  <2>4. IsList(i) /\ Born(i.items) /\ StayRead(i.read) /\ NoneLive(p)
    BY <1>2, <2>1 DEF Good, IsPage, Folders, Known, ViewKnown, Fresh
  <2>5. kept \subseteq i.items
    BY <2>2 DEF OlderThanWindow
  <2>6. IsList(n) /\ Born(n.items) /\ StayRead(n.read)
    BY <2>3, <2>4, <2>5, ListedShape DEF CallKnown, Born, StayRead
  <2>7. PICK v : v = [p EXCEPT !.lists = [p.lists EXCEPT !["inbox"] = n]]
    OBVIOUS
  <2>8. Good(v)
    BY <2>4, <2>6, <2>7, InboxLearns
  <2>9. RefreshReply(p, c) = PruneSelection(v)
    BY <1>2, <2>1, <2>2, <2>3, <2>7 DEF RefreshReply
  <2> QED
    BY <2>8, <2>9, PruneGood
<1> QED
  BY <1>1, <1>2

LEMMA MoreGood ==
    ASSUME NEW p, Good(p), NEW c, CallKnown(c), c.current => NoneLive(p)
    PROVE  Good(MoreReply(p, c))
<1>1. PICK i : i = p.lists["inbox"]
  OBVIOUS
<1>2. PICK m : m = IF c.email = p.email /\ c.reply = "ok" THEN Appended(i, c) ELSE i
  OBVIOUS
<1>3. PICK n : n = [m EXCEPT !.more = FALSE]
  OBVIOUS
<1>4. IsList(i) /\ Born(i.items) /\ StayRead(i.read)
  BY <1>1 DEF Good, IsPage, Folders, Known, ViewKnown
<1>5. IsList(m) /\ Born(m.items) /\ StayRead(m.read)
  <2>1. CASE m = i
    BY <1>4, <2>1
  <2>2. CASE m = Appended(i, c)
    <3>1. /\ IsList(m) /\ m.items = i.items \cup c.got
          /\ m.read = i.read \cup (c.read \ i.items)
      BY <1>4, <2>2, AppendedShape
    <3> QED
      BY <1>4, <3>1 DEF CallKnown, Born, StayRead
  <2> QED
    BY <1>2, <2>1, <2>2
<1>6. IsList(n) /\ n.items = m.items /\ n.read = m.read
  BY <1>3, <1>5 DEF IsList
<1>7. PICK v : v = [p EXCEPT !.lists = [p.lists EXCEPT !["inbox"] = n]]
  OBVIOUS
<1>8. NoneLive(p) => Good(v)
  BY <1>5, <1>6, <1>7, InboxLearns
<1>9. MoreReply(p, c) = IF c.current THEN v ELSE p
  BY <1>1, <1>2, <1>3, <1>7 DEF MoreReply
<1> QED
  BY <1>8, <1>9

LEMMA SearchGood ==
    ASSUME NEW p, Good(p), NEW c, CallKnown(c)
    PROVE  Good(SearchReply(p, c))
<1>1. PICK v : v = [p EXCEPT !.search.status = "ready", !.search.items = c.got,
                             !.search.read = c.read]
  OBVIOUS
<1>2. /\ IsPage(v) /\ v.calls = p.calls /\ v.lists = p.lists /\ v.offers = p.offers
      /\ v.search.items = c.got /\ v.search.read = c.read
  BY <1>1 DEF Good, IsPage, IsSearch
<1>3. Good(v)
  BY <1>2 DEF Good, Known, ViewKnown, CallKnown, UpToDate
<1>4. PICK e : e = [p EXCEPT !.search.status = "error"]
  OBVIOUS
<1>5. Beside(p, e)
  BY <1>4 DEF Good, IsPage, IsSearch, Beside
<1>6. SearchReply(p, c) \in {v, e, p}
  BY <1>1, <1>4 DEF SearchReply
<1> QED
  BY <1>3, <1>5, <1>6, BesideGood

\* What becomes of the sent mails and the trash is no matter here.
LEMMA FolderGood ==
    ASSUME NEW p, Good(p), NEW c, c.kind \in {"sent", "trash"}
    PROVE  Good(FolderReply(p, c))
<1>1. PICK l, f : l = p.lists[c.kind] /\ f = c.kind
  OBVIOUS
<1>2. f \in Folders /\ "inbox" \in Folders /\ f # "inbox" /\ IsList(l) /\ IsPage(p)
  BY <1>1 DEF Folders, Good, IsPage
<1>3. PICK x : x = [l EXCEPT !.more = FALSE, !.status = IF c.opt THEN @ ELSE "error"]
  OBVIOUS
<1>4. PICK g : g = IF c.opt THEN Appended(l, c) ELSE Listed(l, c, {})
  OBVIOUS
<1>5. PICK n : n = [g EXCEPT !.more = FALSE, !.status = "ready"]
  OBVIOUS
<1>6. IsList(x) /\ IsList(n)
  <2>1. IsList(x)
    BY <1>2, <1>3 DEF IsList
  <2>2. IsList(g)
    BY <1>2, <1>4, AppendedShape, ListedShape
  <2>3. IsList(n)
    BY <1>5, <2>2 DEF IsList
  <2> QED
    BY <2>1, <2>3
<1>7. PICK v, w : /\ v = [p EXCEPT !.lists = [p.lists EXCEPT ![f] = n]]
                  /\ w = [p EXCEPT !.lists = [p.lists EXCEPT ![f] = x]]
  OBVIOUS
<1>8. Beside(p, v)
  BY <1>2, <1>6, <1>7, ListSet DEF Beside
<1>9. Beside(p, w)
  BY <1>2, <1>6, <1>7, ListSet DEF Beside
<1>10. FolderReply(p, c) \in {v, w, p}
  BY <1>1, <1>3, <1>4, <1>5, <1>7 DEF FolderReply
<1> QED
  BY <1>8, <1>9, <1>10, BesideGood

LEMMA DetailGood ==
    ASSUME NEW p, Good(p), NEW c, CallKnown(c), c.kind = "detail", c.current => c.mails # {}
    PROVE  Good(DetailReply(p, c))
<1>1. PICK m : m = CHOOSE x \in c.mails : TRUE
  OBVIOUS
<1>2. PICK v, e : /\ v = [p EXCEPT !.detail = [kind |-> "mail", id |-> m, trash |-> c.opt]]
                  /\ e = [p EXCEPT !.detail = [kind |-> "error", id |-> None, trash |-> FALSE]]
  OBVIOUS
<1>3. Beside(p, v) /\ Beside(p, e)
  BY <1>2 DEF Good, IsPage, Beside
<1>4. Good(v) /\ Good(e)
  BY <1>3, BesideGood
<1>5. \/ DetailReply(p, c) \in {v, e, p}
      \/ c.current /\ c.reply = "ok" /\ DetailReply(p, c) = MarkedRead(v, {m})
  BY <1>1, <1>2 DEF DetailReply, Fresh
<1>6. c.current /\ c.reply = "ok" => StayRead({m})
  BY <1>1 DEF CallKnown, StayRead
<1> QED
  BY <1>4, <1>5, <1>6, MarkedGood

LEMMA SentDetailGood ==
    ASSUME NEW p, Good(p), NEW c
    PROVE  Good(SentDetailReply(p, c))
<1>1. PICK m : m = CHOOSE x \in c.mails : TRUE
  OBVIOUS
<1>2. PICK v : v = [p EXCEPT !.detail = [kind |-> "sent", id |-> m, trash |-> FALSE]]
  OBVIOUS
<1>3. Beside(p, v)
  BY <1>2 DEF Good, IsPage, Beside
<1>4. SentDetailReply(p, c) \in {v, p}
  BY <1>1, <1>2 DEF SentDetailReply
<1> QED
  BY <1>3, <1>4, BesideGood

LEMMA DeleteGood ==
    ASSUME NEW p, Good(p), NEW c, CallKnown(c), NEW q, q = DeleteReply(p, c)
    PROVE  /\ Good(q)
           /\ c.reply = "ok" /\ c.email = p.email => NoneLive(q)
<1>1. PICK removed : removed = IF c.kind = "delete"
                               THEN c.mails \cap (p.lists["inbox"].items \cup p.search.items)
                               ELSE c.got
  OBVIOUS
<1>2. PICK read : read = IF c.kind = "delete"
                         THEN removed \cap (p.lists["inbox"].read \cup
                                            (p.search.read \ p.lists["inbox"].items))
                         ELSE c.read
  OBVIOUS
<1>3. PICK offer : offer = [email |-> c.email, mails |-> c.mails, removed |-> removed, read |-> read,
                            single |-> (c.kind = "delete")]
  OBVIOUS
<1>4. Born(offer.removed) /\ StayRead(offer.read)
  <2>1. Born(removed) /\ StayRead(read)
    BY <1>1, <1>2 DEF Good, Known, ViewKnown, CallKnown, Born, StayRead
  <2> QED
    BY <1>3, <2>1
<1>5. PICK r : r = RemoveFromInbox(p, c.mails)
  OBVIOUS
<1>6. PICK o : o = Outdate(r, "detail")
  OBVIOUS
<1>7. PICK v : v = [o EXCEPT !.detail = NoDetail, !.active = None]
  OBVIOUS
<1>8. Good(r) /\ NoneLive(r)
  BY <1>5, RemoveGood
<1>9. Good(o) /\ NoneLive(o)
  BY <1>6, <1>8, OutdateGood, LiveLike DEF SameSheet
<1>10. Beside(o, v)
  BY <1>7, <1>9 DEF Good, IsPage, Beside
<1>11. Good(v) /\ NoneLive(v)
  BY <1>9, <1>10, BesideGood DEF Beside, NoneLive
<1>12. v = ResetMailDetail(r)
  BY <1>6, <1>7 DEF ResetMailDetail
<1>13. PICK w : w = [v EXCEPT !.offers = @ \cup {offer}]
  OBVIOUS
<1>14. /\ IsPage(w) /\ w.calls = v.calls /\ w.lists = v.lists /\ w.search = v.search
       /\ w.offers = v.offers \cup {offer}
  BY <1>11, <1>13 DEF Good, IsPage
<1>15. Good(w) /\ NoneLive(w)
  <2>1. ViewKnown(w)
    BY <1>4, <1>11, <1>14 DEF Good, Known, ViewKnown
  <2>2. CallsFrom(v, w) /\ NoneLive(w)
    BY <1>11, <1>14 DEF CallsFrom, Like, NoneLive
  <2> QED
    BY <1>11, <1>14, <2>1, <2>2, Learns
<1>16. /\ c.reply # "ok" \/ c.email # p.email => q = p
       /\ ~(c.reply # "ok" \/ c.email # p.email) => q \in {v, w}
  BY <1>1, <1>2, <1>3, <1>5, <1>12, <1>13 DEF DeleteReply
<1> QED
  BY <1>11, <1>15, <1>16

LEMMA MarkReadGood ==
    ASSUME NEW p, Good(p), NEW c, CallKnown(c), c.kind = "markRead"
    PROVE  Good(MarkReadReply(p, c))
<1>1. PICK o : o = MarkedRead(p, c.mails)
  OBVIOUS
<1>2. c.reply = "ok" => Good(o)
  BY <1>1, MarkedGood DEF CallKnown
<1>3. PICK v : v = [o EXCEPT !.selected = {}]
  OBVIOUS
<1>4. Good(o) => Good(v)
  <2>1. Good(o) => Beside(o, v)
    BY <1>3 DEF Good, IsPage, Beside
  <2> QED
    BY <2>1, BesideGood
<1>5. MarkReadReply(p, c) = IF c.reply = "ok" /\ c.email = p.email THEN v ELSE p
  BY <1>1, <1>3 DEF MarkReadReply
<1> QED
  BY <1>2, <1>4, <1>5

LEMMA UndoGood ==
    ASSUME NEW p, Good(p), NEW c, CallKnown(c)
    PROVE  Good(UndoReply(p, c))
<1>1. PICK offer : offer = [email |-> c.email, removed |-> c.got, read |-> c.read]
  OBVIOUS
<1>2. Born(offer.removed) /\ StayRead(offer.read)
  BY <1>1 DEF CallKnown
<1>3. UndoReply(p, c) = IF c.reply = "ok" THEN PutBackIntoInbox(p, offer) ELSE p
  BY <1>1 DEF UndoReply
<1> QED
  BY <1>2, <1>3, PutBackGood

LEMMA TrashGood ==
    ASSUME NEW p, Good(p), NEW c
    PROVE  Good(TrashReply(p, c))
<1>1. "inbox" \in Folders /\ "trash" \in Folders /\ IsPage(p)
  BY DEF Folders, Good
<1>2. PICK n : n = [p.lists["trash"] EXCEPT !.items = @ \ c.mails, !.read = @ \ c.mails,
                                            !.total = IF @ > 0 THEN @ - 1 ELSE 0]
  OBVIOUS
<1>3. IsList(n)
  BY <1>1, <1>2 DEF IsPage, IsList
<1>4. PICK w : w = [p EXCEPT !.lists["trash"].items = @ \ c.mails,
                             !.lists["trash"].read = @ \ c.mails,
                             !.lists["trash"].total = IF @ > 0 THEN @ - 1 ELSE 0]
  OBVIOUS
<1>5. w = [p EXCEPT !.lists = [p.lists EXCEPT !["trash"] = n]]
  BY <1>1, <1>2, <1>4 DEF IsPage, IsList
<1>6. Beside(p, w)
  BY <1>1, <1>3, <1>5, ListSet DEF Beside
<1>7. PICK v : v = [w EXCEPT !.lists["inbox"].status = "idle"]
  OBVIOUS
<1>8. Beside(w, v)
  BY <1>1, <1>6, <1>7 DEF IsPage, IsList, Beside
<1>9. TrashReply(p, c) = IF c.reply # "ok" \/ c.email # p.email THEN p ELSE ResetMailDetail(v)
  BY <1>4, <1>7 DEF TrashReply
<1> QED
  BY <1>6, <1>8, <1>9, BesideGood, ResetGood

LEMMA HandledGood ==
    ASSUME NEW p, Good(p), NEW c, c.kind \in Kinds, CallKnown(c),
           c.current /\ Ticket(c.kind) = "inbox" => NoneLive(p),
           c.current /\ c.kind = "detail" => c.mails # {},
           NEW q, q = Handled(p, c)
    PROVE  /\ Good(q)
           /\ c.kind \in {"delete", "batchDelete"} /\ c.reply = "ok" /\ c.email = p.email => NoneLive(q)
<1>1. c.kind \in {"query", "refresh", "more"} /\ c.current => NoneLive(p)
  BY DEF Ticket
<1>2. CASE c.kind = "query"
  BY <1>1, <1>2, QueryGood DEF Handled
<1>3. CASE c.kind = "refresh"
  BY <1>1, <1>3, RefreshGood DEF Handled
<1>4. CASE c.kind = "more"
  BY <1>1, <1>4, MoreGood DEF Handled
<1>5. CASE c.kind = "search"
  BY <1>5, SearchGood DEF Handled
<1>6. CASE c.kind \in {"sent", "trash"}
  BY <1>6, FolderGood DEF Handled
<1>7. CASE c.kind = "detail"
  BY <1>7, DetailGood DEF Handled
<1>8. CASE c.kind = "sentDetail"
  BY <1>8, SentDetailGood DEF Handled
<1>9. CASE c.kind \in {"delete", "batchDelete"}
  <2>1. q = DeleteReply(p, c)
    BY <1>9 DEF Handled
  <2> QED
    BY <2>1, DeleteGood
<1>10. CASE c.kind = "markRead"
  BY <1>10, MarkReadGood DEF Handled
<1>11. CASE c.kind = "undo"
  BY <1>11, UndoGood DEF Handled
<1>12. CASE c.kind \in {"restore", "purge"}
  BY <1>12, TrashGood DEF Handled
<1> QED
  BY <1>2, <1>3, <1>4, <1>5, <1>6, <1>7, <1>8, <1>9, <1>10, <1>11, <1>12 DEF Kinds

(***************************************************************************)
(* The page: a reply, the user, the timer                                  *)
(***************************************************************************)
LEMMA PageGood ==
    ASSUME MailInv, RefreshInv
    PROVE  /\ Good(page) /\ page \in Pages /\ Distinct(page.calls)
           /\ \A c \in page.calls : c \in Calls /\ CallKnown(c) /\ CallFits(page, c)
<1>1. page \in Pages /\ CallsInv(page)
  BY DEF MailInv, PageInv
<1>2. IsPage(page)
  BY <1>1, PagesAre
<1> QED
  BY <1>1, <1>2 DEF RefreshInv, Good, Known, CallsInv, Pages

LEMMA Carried ==
    ASSUME NEW q, Good(q), page' = q, place' = place, seen' = seen,
           past' = past \/ NoneLive(q), \A m \in past' : place[m] \in Gone
    PROVE  RefreshInv'
<1>1. Known(page)'
  BY DEF Good, Known, ViewKnown, CallKnown, Born, StayRead
<1>2. \A c \in page'.calls : Live(c) => UpToDate(page, c)'
  BY DEF Good, UpToDate, NoneLive
<1> QED
  BY <1>1, <1>2 DEF RefreshInv

LEMMA DeliverGood ==
    ASSUME MailInv, RefreshInv, NEW c \in page.calls, Deliver(c)
    PROVE  RefreshInv'
<1>1. /\ Good(page) /\ Distinct(page.calls) /\ c \in Calls /\ CallKnown(c) /\ CallFits(page, c)
  BY PageGood
<1>2. PICK p : p = [page EXCEPT !.calls = @ \ {c}]
  OBVIOUS
<1>3. /\ IsPage(p) /\ p.calls = page.calls \ {c} /\ p.email = page.email /\ SameView(page, p)
  BY <1>1, <1>2 DEF Good, IsPage, SameView
<1>4. Good(p)
  <2>1. SameSheet(page, p)
    BY <1>3 DEF SameSheet, CallsFrom, Like
  <2> QED
    BY <1>1, <2>1, SheetGood
<1>5. c.current /\ Ticket(c.kind) = "inbox" => NoneLive(p)
  <2> SUFFICES ASSUME c.current, Ticket(c.kind) = "inbox", NEW d \in page.calls, d # c, Live(d)
               PROVE  FALSE
    BY <1>3 DEF NoneLive
  <2>1. Ticket(d.kind) = "inbox" /\ d.current
    BY DEF Live, Ticket
  <2> QED
    BY <1>1, <2>1 DEF Distinct
<1>6. c.current /\ c.kind = "detail" => c.mails # {}
  BY <1>1 DEF CallFits, DetailAwaited, Ticket
<1>7. PICK q : q = Handled(p, c)
  OBVIOUS
<1>8. /\ Good(q)
      /\ c.kind \in {"delete", "batchDelete"} /\ c.reply = "ok" /\ c.email = p.email => NoneLive(q)
  BY <1>1, <1>4, <1>5, <1>6, <1>7, HandledGood DEF Calls
<1>9. PICK r : r = IF c.awaited THEN Resume(q, c) ELSE q
  OBVIOUS
<1>10. page' = r /\ Good(r)
  BY <1>2, <1>7, <1>8, <1>9, ResumeGood DEF Deliver
<1>11. c.kind \in {"delete", "batchDelete"} => ~c.awaited
  BY <1>1 DEF CallFits, Resumes
<1>12. /\ past' = past \/ NoneLive(r)
       /\ \A m \in past' : place[m] \in Gone
  BY <1>3, <1>8, <1>9, <1>11 DEF Deliver, RefreshInv
<1> QED
  BY <1>10, <1>12, Carried DEF Deliver

LEMMA QueriesGood ==
    ASSUME NEW p, Good(p), NEW box
    PROVE  Good(QueryInbox(IF p.tab = "inbox" THEN p ELSE SwitchTab(p, "inbox"), box))
<1>1. Good(SwitchTab(p, "inbox"))
  BY SwitchTabGood DEF Tabs, Folders
<1> QED
  BY <1>1, QueryInboxGood

\* A change of the mails selected, or of the one that is open.
LEMMA ChangeGood ==
    ASSUME NEW p, Good(p), NEW kind, kind \notin {"markRead", "refresh"}, NEW opt, NEW email,
           NEW mails, NEW got, NEW read, Born(got), StayRead(read), NEW call,
           call = [Request(p, kind, opt, email, mails) EXCEPT !.got = got, !.read = read]
    PROVE  IsCall(call) /\ NewCall(call)
BY DEF Request, IsCall, NewCall, CallKnown

LEMMA BatchGood ==
    ASSUME MailInv, RefreshInv, NEW kind \in {"batchDelete", "markRead"}, BatchAction(kind)
    PROVE  Good(page')
<1>1. Good(page) /\ page.selected \subseteq Shown(page)
  BY PageGood DEF MailInv, PageInv, ViewInv
<1>2. PICK removed, read : /\ removed = page.selected \cap Shown(page)
                           /\ read = IF page.search.active THEN page.search.read
                                     ELSE page.lists["inbox"].read
  OBVIOUS
<1>3. Born(page.selected) /\ Born(removed) /\ StayRead(read \cap removed)
  BY <1>1, <1>2 DEF Good, Known, ViewKnown, Shown, Born, StayRead
<1>4. PICK call : call = [Request(page, kind, FALSE, page.email, page.selected) EXCEPT
                             !.got = removed, !.read = read \cap removed]
  OBVIOUS
<1>5. IsCall(call) /\ NewCall(call)
  <2>1. /\ IsCall(call) /\ call.kind = kind /\ call.reply = "none" /\ call.mails = page.selected
        /\ call.got = removed /\ call.read = read \cap removed
    BY <1>4 DEF Request, IsCall
  <2> QED
    BY <1>3, <2>1 DEF NewCall, CallKnown
<1>6. page' = Send(page, call)
  BY <1>2, <1>4 DEF BatchAction
<1> QED
  BY <1>1, <1>5, <1>6, SendGood

LEMMA UndoClickGood ==
    ASSUME MailInv, RefreshInv, NEW offer \in page.offers, Undo(offer)
    PROVE  Good(page')
<1>1. Good(page) /\ Born(offer.removed) /\ StayRead(offer.read)
  BY PageGood DEF Good, Known, ViewKnown
<1>2. PICK q : q = [page EXCEPT !.offers = @ \ {offer}]
  OBVIOUS
<1>3. Beside(page, q)
  BY <1>1, <1>2 DEF Good, IsPage, Beside
<1>4. PICK call : call = [Request(page, "undo", offer.single, offer.email, offer.mails) EXCEPT
                             !.got = offer.removed, !.read = offer.read]
  OBVIOUS
<1>5. IsCall(call) /\ NewCall(call)
  BY <1>1, <1>4, ChangeGood
<1>6. page' = Send(q, call)
  BY <1>2, <1>4 DEF Undo
<1> QED
  BY <1>1, <1>3, <1>5, <1>6, BesideGood, SendGood

LEMMA LoadMoreGood ==
    ASSUME MailInv, RefreshInv, LoadMoreInbox
    PROVE  Good(page')
<1>1. Good(page) /\ "inbox" \in Folders
  BY PageGood DEF Folders
<1>2. PICK q : q = [page EXCEPT !.lists["inbox"].more = TRUE]
  OBVIOUS
<1>3. Beside(page, q)
  BY <1>1, <1>2 DEF Good, IsPage, IsList, Beside
<1>4. PICK call : call = [Request(page, "more", FALSE, page.email, {}) EXCEPT
                             !.at = Cardinality(page.lists["inbox"].items)]
  OBVIOUS
<1>5. IsCall(call) /\ NewCall(call)
  BY <1>4 DEF Request, IsCall, NewCall, CallKnown, Born, StayRead
<1>6. page' = Send(q, call)
  BY <1>2, <1>4 DEF LoadMoreInbox
<1> QED
  BY <1>1, <1>3, <1>5, <1>6, BesideGood, SendGood

LEMMA SearchMailGood ==
    ASSUME MailInv, RefreshInv, SearchMail
    PROVE  Good(page')
<1>1. Good(page)
  BY PageGood
<1>2. PICK s : s = [active |-> TRUE, items |-> {}, read |-> {}, status |-> "loading"]
  OBVIOUS
<1>3. PICK q : q = [page EXCEPT !.selected = {}, !.search = s]
  OBVIOUS
<1>4. IsSearch(s) /\ s.items = {} /\ s.read = {}
  BY <1>2 DEF IsSearch
<1>5. Beside(page, q)
  BY <1>1, <1>3, <1>4 DEF Good, IsPage, Beside
<1>6. PICK call : call = Request(page, "search", FALSE, page.email, {})
  OBVIOUS
<1>7. IsCall(call) /\ NewCall(call)
  BY <1>6, RequestGood
<1>8. page' = Send(q, call)
  BY <1>2, <1>3, <1>6 DEF SearchMail
<1> QED
  BY <1>1, <1>5, <1>7, <1>8, BesideGood, SendGood

LEMMA LargerIs ==
    ASSUME NEW a \in Nat, NEW b \in Nat
    PROVE  Max({a, b}) \in {a, b} /\ Max({a, b}) >= b
<1>1. \E x \in {a, b} : \A y \in {a, b} : x >= y
  <2>1. CASE a >= b
    BY <2>1
  <2>2. CASE b >= a
    BY <2>2
  <2> QED
    BY <2>1, <2>2
<1>2. PICK w : w = CHOOSE x \in {a, b} : \A y \in {a, b} : x >= y
  OBVIOUS
<1>3. w \in {a, b} /\ w >= b
  BY <1>1, <1>2
<1> QED
  BY <1>2, <1>3 DEF Max

\* A refresh is for the newest mails, and at least a page of them.
LEMMA SilentGood ==
    ASSUME MailInv, RefreshInv, RefreshInboxSilently
    PROVE  Good(page')
<1>1. Good(page) /\ page \in Pages
  BY PageGood
<1>2. PICK n : n = Cardinality(page.lists["inbox"].items)
  OBVIOUS
<1>3. n \in Nat
  BY <1>1, <1>2, MailCount DEF Pages, Lists, Folders
<1>4. PICK limit : limit = Min({Max({n, PageSize}), MaxPage})
  OBVIOUS
<1>5. limit # 0
  <2>1. PageSize \in Nat \ {0} /\ MaxPage \in Nat \ {0} /\ PageSize <= MaxPage
    BY MailAssumption DEF MailAssumption
  <2>2. PICK most : most = Max({n, PageSize})
    OBVIOUS
  <2>3. most \in Nat /\ most # 0
    BY <1>3, <2>1, <2>2, LargerIs
  <2>4. limit \in {most, MaxPage}
    BY <1>4, <2>1, <2>2, <2>3, MaxOfTwo
  <2> QED
    BY <2>1, <2>3, <2>4
<1>6. PICK call : call = [Request(page, "refresh", FALSE, page.email, {}) EXCEPT !.limit = limit]
  OBVIOUS
<1>7. IsCall(call) /\ NewCall(call)
  BY <1>5, <1>6 DEF Request, IsCall, NewCall, CallKnown, Born, StayRead
<1>8. page' = Send(page, call)
  BY <1>2, <1>4, <1>6 DEF RefreshInboxSilently
<1> QED
  BY <1>1, <1>7, <1>8, SendGood

LEMMA SelectGood ==
    ASSUME MailInv, RefreshInv,
           (\E m \in Mails : ToggleSelected(m)) \/ SelectAll \/ \E on \in BOOLEAN : SetAutoRefresh(on)
    PROVE  Good(page')
<1>1. Good(page)
  BY PageGood
<1>2. Beside(page, page')
  <2>1. CASE SelectAll
    BY <1>1, <2>1 DEF SelectAll, Good, IsPage, Beside
  <2>2. ASSUME NEW m \in Mails, ToggleSelected(m) PROVE Beside(page, page')
    <3>1. PICK x : x = IF m \in page.selected THEN page.selected \ {m} ELSE page.selected \cup {m}
      OBVIOUS
    <3>2. page' = [page EXCEPT !.selected = x]
      BY <2>2, <3>1 DEF ToggleSelected
    <3> QED
      BY <1>1, <3>2 DEF Good, IsPage, Beside
  <2>3. ASSUME NEW on \in BOOLEAN, SetAutoRefresh(on) PROVE Beside(page, page')
    BY <1>1, <2>3 DEF SetAutoRefresh, Good, IsPage, Beside
  <2> QED
    BY <2>1, <2>2, <2>3
<1> QED
  BY <1>1, <1>2, BesideGood

LEMMA OpenMailGood ==
    ASSUME MailInv, RefreshInv, NEW m \in Mails, OpenMail(m)
    PROVE  Good(page')
<1>1. Good(page)
  BY PageGood
<1>2. \E kind \in {"detail", "sentDetail"}, trash \in BOOLEAN :
         page' = OpenDetailShell(page, kind, m, trash)
  BY DEF OpenMail
<1> QED
  BY <1>1, <1>2, OpenGood

LEMMA OneMailGood ==
    ASSUME MailInv, RefreshInv, DeleteEmail \/ \E kind \in {"restore", "purge"} : TrashAction(kind)
    PROVE  Good(page')
<1>1. Good(page)
  BY PageGood
<1>2. PICK kind \in {"delete", "restore", "purge"} :
         page' = Send(page, Request(page, kind, TRUE, page.email, {page.detail.id}))
  BY DEF DeleteEmail, TrashAction
<1>3. PICK call : call = Request(page, kind, TRUE, page.email, {page.detail.id})
  OBVIOUS
<1>4. IsCall(call) /\ NewCall(call)
  BY <1>3, RequestGood
<1> QED
  BY <1>1, <1>2, <1>3, <1>4, SendGood

LEMMA UserGood ==
    ASSUME MailInv, RefreshInv, UserActs
    PROVE  Good(page')
<1>1. Good(page) /\ page.tab \in Tabs
  BY PageGood DEF Pages
<1>2. ASSUME NEW box \in Boxes, Query(box) \/ UseRecent(box) PROVE Good(page')
  <2>1. Query(box) => page' = QueryInbox(page, box)
    BY DEF Query
  <2>2. UseRecent(box) =>
          page' = QueryInbox(IF page.tab = "inbox" THEN page ELSE SwitchTab(page, "inbox"), box)
    BY DEF UseRecent
  <2> QED
    BY <1>1, <1>2, <2>1, <2>2, QueryInboxGood, QueriesGood
<1>3. CASE QueryNothing
  BY <1>1, <1>3, ResetGood DEF QueryNothing
<1>4. ASSUME NEW tab \in Tabs, GoTo(tab) PROVE Good(page')
  BY <1>1, <1>4, SwitchTabGood DEF GoTo
<1>5. CASE RefreshCurrentTab
  <2>1. page.tab \notin {"inbox", "imap"} => page.tab \in {"sent", "trash"}
    BY <1>1 DEF Tabs, Folders
  <2> QED
    BY <1>1, <1>5, <2>1, QueryInboxGood, LoadFolderGood DEF RefreshCurrentTab
<1>6. CASE LoadMoreInbox
  BY <1>6, LoadMoreGood
<1>7. ASSUME NEW f \in {"sent", "trash"}, LoadMoreFolder(f) PROVE Good(page')
  BY <1>1, <1>7, LoadFolderGood DEF LoadMoreFolder
<1>8. CASE SearchMail
  BY <1>8, SearchMailGood
<1>9. CASE LeaveSearch
  BY <1>1, <1>9, ClearSearchGood DEF LeaveSearch
<1>10. CASE (\E m \in Mails : ToggleSelected(m)) \/ SelectAll
            \/ \E on \in BOOLEAN : SetAutoRefresh(on)
  BY <1>10, SelectGood
<1>11. ASSUME NEW m \in Mails, OpenMail(m) PROVE Good(page')
  BY <1>11, OpenMailGood
<1>12. ASSUME NEW kind \in {"batchDelete", "markRead"}, BatchAction(kind) PROVE Good(page')
  BY <1>12, BatchGood
<1>13. CASE DeleteEmail \/ \E kind \in {"restore", "purge"} : TrashAction(kind)
  BY <1>13, OneMailGood
<1>14. ASSUME NEW offer \in page.offers, Undo(offer) PROVE Good(page')
  BY <1>14, UndoClickGood
<1> QED
  BY <1>2, <1>3, <1>4, <1>5, <1>6, <1>7, <1>8, <1>9, <1>10, <1>11, <1>12, <1>13, <1>14
     DEF UserActs

LEMMA UserActsGood ==
    ASSUME MailInv, RefreshInv, UserActs \/ RefreshInboxSilently
    PROVE  RefreshInv'
<1>1. PICK q : q = page'
  OBVIOUS
<1>2. Good(q)
  BY <1>1, UserGood, SilentGood
<1>3. UserActs => Click
  BY Zenon DEF UserActs, Query, QueryNothing, UseRecent, GoTo, RefreshCurrentTab, LoadMoreInbox,
         LoadMoreFolder, SearchMail, LeaveSearch, ToggleSelected, SelectAll, SetAutoRefresh,
         OpenMail, BatchAction, DeleteEmail, TrashAction, Undo
<1>4. place' = place /\ seen' = seen /\ past' = past
  BY <1>3 DEF Click, RefreshInboxSilently
<1>5. \A m \in past' : place[m] \in Gone
  BY <1>4 DEF RefreshInv
<1> QED
  BY <1>1, <1>2, <1>4, <1>5, Carried

(***************************************************************************)
(* The server                                                              *)
(***************************************************************************)
\* What the server does takes back nothing the page knows.
Lasts ==
    /\ \A m \in Mails : place[m] # "unborn" => place'[m] # "unborn"
    /\ \A m \in Mails : place[m] \in {"purged", "sent"} => place'[m] = place[m]
    /\ seen \subseteq seen' /\ past' \subseteq past
    /\ \A m \in past' : place'[m] \in Gone

LEMMA KnowledgeLasts ==
    ASSUME Lasts, NEW p \in Pages, Good(p)
    PROVE  Good(p)'
<1>1. \A S \in SUBSET Mails : Born(S) => Born(S)'
  BY DEF Lasts, Born
<1>2. \A S \in SUBSET Mails : StayRead(S) => StayRead(S)'
  BY DEF Lasts, StayRead
<1>3. ASSUME NEW c \in p.calls PROVE CallKnown(c)'
  <2>1. CallKnown(c) /\ c \in Calls
    BY DEF Good, Known, Pages
  <2>2. c.got \in SUBSET Mails /\ c.read \in SUBSET Mails /\ c.mails \in SUBSET Mails
    BY <2>1 DEF Calls
  <2> QED
    BY <1>1, <1>2, <2>1, <2>2 DEF CallKnown
<1>4. ViewKnown(p)'
  <2>1. ViewKnown(p)
    BY DEF Good, Known
  <2>2. /\ p.lists["inbox"].items \in SUBSET Mails /\ p.lists["inbox"].read \in SUBSET Mails
        /\ p.search.items \in SUBSET Mails /\ p.search.read \in SUBSET Mails
        /\ \A o \in p.offers : o.removed \in SUBSET Mails /\ o.read \in SUBSET Mails
    BY DEF Pages, Lists, Searches, Offers, Folders
  <2> QED
    BY <1>1, <1>2, <2>1, <2>2 DEF ViewKnown
<1>5. ASSUME NEW c \in p.calls, Live(c) PROVE UpToDate(p, c)'
  <2>1. UpToDate(p, c)
    BY <1>5 DEF Good
  <2> QED
    BY <2>1 DEF UpToDate, Lasts
<1> QED
  BY <1>3, <1>4, <1>5 DEF Good, Known

\* Call c is answered, and is call d now.
LEMMA AnswerGood ==
    ASSUME MailInv, RefreshInv, Lasts, NEW c \in page.calls, NEW d, IsCall(d), CallKnown(d)',
           Live(d) => UpToDate(page, d),
           page' = [page EXCEPT !.calls = (@ \ {c}) \cup {d}]
    PROVE  RefreshInv'
<1>1. PICK p : p = page
  OBVIOUS
<1>2. Good(p) /\ p \in Pages
  BY <1>1, PageGood
<1>3. Good(p)'
  BY <1>2, KnowledgeLasts
<1>4. PICK q : q = [p EXCEPT !.calls = (p.calls \ {c}) \cup {d}]
  OBVIOUS
<1>5. /\ q.lists = p.lists /\ q.search = p.search /\ q.offers = p.offers
      /\ q.calls = (p.calls \ {c}) \cup {d}
  BY <1>2, <1>4 DEF Good, IsPage
<1>6. Known(q)'
  BY <1>3, <1>5 DEF Good, Known, ViewKnown
<1>7. \A e \in q.calls : Live(e) => UpToDate(q, e)'
  <2>1. Live(d) => UpToDate(p, d)'
    BY <1>1 DEF UpToDate, Lasts
  <2> QED
    BY <1>3, <1>5, <2>1 DEF Good, UpToDate
<1>8. page' = q
  BY <1>1, <1>4
<1>9. \A m \in past' : place'[m] \in Gone
  BY DEF Lasts
<1>10. Known(page)' /\ \A e \in page'.calls : Live(e) => UpToDate(page, e)'
  BY <1>6, <1>7, <1>8 DEF Known, ViewKnown, UpToDate
<1> QED
  BY <1>9, <1>10 DEF RefreshInv

LEMMA NothingMoves ==
    ASSUME RefreshInv, place' = place, seen \subseteq seen', past' = past
    PROVE  Lasts
BY DEF Lasts, RefreshInv

\* The server lists mails: it never lists more than it has there.
LEMMA ListingGood ==
    ASSUME MailInv, RefreshInv, NEW c \in page.calls, c.kind \notin {"detail", "markRead"},
           UNCHANGED <<place, seen, past>>,
           NEW got, NEW whole, Born(got), Answered(c, "ok", got, whole),
           c.kind = "refresh" =>
               /\ got = Newest(whole, c.at, c.limit)
               /\ \A m \in got : place[m] = "inbox"
    PROVE  RefreshInv'
<1>1. CallKnown(c) /\ IsCall(c) /\ Good(page)
  BY PageGood DEF Good, IsPage
<1>2. PICK d : d = [c EXCEPT !.reply = "ok", !.got = got, !.read = got \cap seen, !.whole = whole]
  OBVIOUS
<1>3. /\ IsCall(d) /\ d.kind = c.kind /\ d.at = c.at /\ d.limit = c.limit /\ d.mails = c.mails
      /\ d.got = got /\ d.read = got \cap seen /\ d.whole = whole
  BY <1>1, <1>2 DEF IsCall
<1>4. CallKnown(d)'
  BY <1>1, <1>3 DEF CallKnown, Born, StayRead
<1>5. Live(d) => UpToDate(page, d)
  <2>1. SUFFICES ASSUME Live(d) PROVE UpToDate(page, d)
    OBVIOUS
  <2>2. c.at = 0 /\ got = Newest(whole, c.at, c.limit) /\ \A m \in got : place[m] = "inbox"
    BY <1>1, <1>3, <2>1 DEF Live, CallKnown
  <2>3. got \cap past = {}
    BY <2>2 DEF RefreshInv, Gone
  <2>4. got \cap page.lists["inbox"].read \subseteq seen
    BY <1>1, <2>2 DEF Good, Known, ViewKnown, StayRead
  <2> QED
    BY <1>3, <2>2, <2>3, <2>4 DEF UpToDate
<1>6. page' = [page EXCEPT !.calls = (@ \ {c}) \cup {d}]
  BY <1>2 DEF Answered
<1> QED
  BY <1>3, <1>4, <1>5, <1>6, NothingMoves, AnswerGood

\* The server does not list mails: the call learns how it went, no more.
LEMMA ToldGood ==
    ASSUME MailInv, RefreshInv, Lasts, NEW c \in page.calls, NEW reply,
           c.kind = "refresh" => reply # "ok",
           reply = "ok" /\ (c.kind = "markRead" \/ (c.kind = "detail" /\ c.current)) => StayRead(c.mails)',
           page' = [page EXCEPT !.calls = (@ \ {c}) \cup {[c EXCEPT !.reply = reply]}]
    PROVE  RefreshInv'
<1>1. CallKnown(c) /\ IsCall(c) /\ Good(page) /\ page \in Pages
  BY PageGood DEF Good, IsPage
<1>2. PICK d : d = [c EXCEPT !.reply = reply]
  OBVIOUS
<1>3. /\ IsCall(d) /\ d.kind = c.kind /\ d.at = c.at /\ d.limit = c.limit /\ d.mails = c.mails
      /\ d.got = c.got /\ d.read = c.read /\ d.reply = reply /\ d.current = c.current
  BY <1>1, <1>2 DEF IsCall
<1>4. CallKnown(c)'
  <2>1. PICK p : p = page
    OBVIOUS
  <2>2. PICK b : b = c
    OBVIOUS
  <2>3. b \in p.calls /\ Good(p)'
    BY <1>1, <2>1, <2>2, KnowledgeLasts
  <2>4. CallKnown(b)'
    BY <2>3 DEF Good, Known
  <2> QED
    BY <2>2, <2>4
<1>5. CallKnown(d)'
  BY <1>3, <1>4 DEF CallKnown
<1>6. ~Live(d)
  BY <1>3 DEF Live
<1> QED
  BY <1>2, <1>3, <1>5, <1>6, AnswerGood

LEMMA AnswersGood ==
    ASSUME MailInv, RefreshInv, NEW c \in page.calls,
           AnswerInbox(c) \/ AnswerSearch(c) \/ AnswerFolder(c)
    PROVE  RefreshInv'
<1>1. UNCHANGED <<place, seen, past>> /\ c.kind \notin {"detail", "markRead"}
  BY DEF AnswerInbox, AnswerSearch, AnswerFolder
<1>2. CASE AnswerInbox(c)
  <2>1. PICK whole, got : whole = Kept(c.email, "inbox") /\ got = Newest(whole, c.at, c.limit)
    OBVIOUS
  <2>2. \A m \in got : place[m] = "inbox"
    BY <2>1 DEF Newest, Kept
  <2>3. Answered(c, "ok", got, whole)
    BY <1>2, <2>1 DEF AnswerInbox
  <2>4. Born(got)
    BY <2>2 DEF Born
  <2> QED
    BY <1>1, <2>1, <2>2, <2>3, <2>4, ListingGood
<1>3. CASE AnswerSearch(c)
  <2>1. PICK whole : whole = Kept(c.email, "inbox")
    OBVIOUS
  <2>2. Answered(c, "ok", whole, whole) /\ c.kind = "search"
    BY <1>3, <2>1 DEF AnswerSearch
  <2>3. Born(whole)
    BY <2>1 DEF Born, Kept
  <2> QED
    BY <1>1, <2>2, <2>3, ListingGood
<1>4. CASE AnswerFolder(c)
  <2>1. PICK whole : whole = Kept(c.email, c.kind)
    OBVIOUS
  <2>2. c.kind \in {"sent", "trash"}
    BY <1>4 DEF AnswerFolder
  <2>3. PICK got : got \subseteq whole /\ Answered(c, "ok", got, whole)
    BY <1>4, <2>1 DEF AnswerFolder, Newest
  <2>4. Born(got)
    BY <2>1, <2>2, <2>3 DEF Born, Kept
  <2> QED
    BY <1>1, <2>2, <2>3, <2>4, ListingGood
<1> QED
  BY <1>2, <1>3, <1>4

LEMMA DetailsGood ==
    ASSUME MailInv, RefreshInv, NEW c \in page.calls, AnswerDetail(c) \/ AnswerSentDetail(c)
    PROVE  RefreshInv'
<1>1. CASE AnswerDetail(c)
  <2>1. PICK there : there = {m \in c.mails : place[m] \in {"inbox", "trash"}}
    OBVIOUS
  <2>2. PICK reply : reply = IF there = {} THEN "refused" ELSE "ok"
    OBVIOUS
  <2>3. /\ Answered(c, reply, {}, {}) /\ seen' = seen \cup there /\ place' = place /\ past' = past
        /\ c.kind = "detail"
    BY <1>1, <2>1, <2>2 DEF AnswerDetail
  <2>4. CallFits(page, c) /\ IsCall(c)
    BY PageGood DEF Good, IsPage
  <2>5. c.current => c.mails = {page.active}
    BY <2>3, <2>4 DEF CallFits, DetailAwaited, Ticket
  <2>6. reply = "ok" /\ c.current => StayRead(c.mails)'
    BY <2>1, <2>2, <2>3, <2>5 DEF StayRead
  <2>7. PICK d : d = [c EXCEPT !.reply = reply, !.got = {}, !.read = {} \cap seen, !.whole = {}]
    OBVIOUS
  <2>8. /\ IsCall(d) /\ d.kind = c.kind /\ d.mails = c.mails /\ d.got = {} /\ d.read = {}
        /\ d.reply = reply /\ d.current = c.current
    BY <2>4, <2>7 DEF IsCall
  <2>9. CallKnown(d)' /\ ~Live(d)
    BY <2>3, <2>6, <2>8 DEF CallKnown, Born, StayRead, Live
  <2>10. page' = [page EXCEPT !.calls = (@ \ {c}) \cup {d}]
    BY <2>3, <2>7 DEF Answered
  <2>11. Lasts
    BY <2>3, NothingMoves
  <2> QED
    BY <2>8, <2>9, <2>10, <2>11, AnswerGood
<1>2. CASE AnswerSentDetail(c)
  <2>1. /\ Answered(c, "ok", {}, {}) /\ UNCHANGED <<place, seen, past>>
        /\ c.kind = "sentDetail"
    BY <1>2 DEF AnswerSentDetail
  <2>2. Born({})
    BY DEF Born
  <2> QED
    BY <2>1, <2>2, ListingGood
<1> QED
  BY <1>1, <1>2

LEMMA ChangesGood ==
    ASSUME MailInv, RefreshInv, NEW c \in page.calls, AnswerChange(c)
    PROVE  RefreshInv'
<1>1. c \in Calls /\ c.mails \in SUBSET Mails /\ CallKnown(c) /\ c.kind \in Changes
  BY PageGood DEF Calls, AnswerChange
<1>2. place \in [Mails -> Places]
  BY DEF MailInv
<1>3. PICK A : A = Affected(c)
  OBVIOUS
<1>4. \A m \in A : m \in Mails /\ place[m] \in {"inbox", "trash"}
  BY <1>1, <1>3 DEF Affected
<1>5. PICK where : where = Moved(c)
  OBVIOUS
<1>6. where \in {"trash", "inbox", "purged"}
  BY <1>5 DEF Moved
<1>7. CASE c.kind = "markRead"
  <2>1. place' = place /\ seen' = seen \cup A /\ past' \subseteq past
    BY <1>3, <1>7 DEF AnswerChange, Act
  <2>2. Lasts
    BY <2>1 DEF Lasts, RefreshInv
  <2>3. \A m \in c.mails : place[m] \in {"inbox", "trash"} => m \in A
    BY <1>3, <1>7 DEF Affected
  <2>4. Born(c.mails)
    BY <1>1, <1>7 DEF CallKnown
  <2>5. StayRead(c.mails)'
    BY <1>1, <1>2, <2>1, <2>3, <2>4 DEF StayRead, Born, Places
  <2>6. PICK reply : page' = [page EXCEPT !.calls = (@ \ {c}) \cup {[c EXCEPT !.reply = reply]}]
    BY DEF AnswerChange
  <2> QED
    BY <1>7, <2>2, <2>5, <2>6, ToldGood
<1>8. CASE c.kind # "markRead"
  <2>1. place' = [m \in Mails |-> IF m \in A THEN where ELSE place[m]] /\ seen' = seen
    BY <1>3, <1>5, <1>8 DEF AnswerChange, Act
  <2>2. past' = IF where = "inbox" THEN past \ A ELSE past
    BY <1>3, <1>5 DEF AnswerChange
  <2>3. past \subseteq Mails
    BY DEF MailInv
  <2>4. Lasts
    <3>1. \A m \in Mails : place[m] # "unborn" => place'[m] # "unborn"
      BY <1>4, <1>6, <2>1
    <3>2. \A m \in Mails : place[m] \in {"purged", "sent"} => place'[m] = place[m]
      BY <1>4, <2>1
    <3>3. \A m \in past' : place'[m] \in Gone
      BY <1>6, <2>1, <2>2, <2>3 DEF RefreshInv, Gone
    <3> QED
      BY <2>1, <2>2, <3>1, <3>2, <3>3 DEF Lasts
  <2>5. c.kind \notin {"refresh", "detail", "markRead"}
    BY <1>1, <1>8 DEF Changes
  <2>6. PICK reply : page' = [page EXCEPT !.calls = (@ \ {c}) \cup {[c EXCEPT !.reply = reply]}]
    BY DEF AnswerChange
  <2> QED
    BY <2>4, <2>5, <2>6, ToldGood
<1> QED
  BY <1>7, <1>8

LEMMA FailGood ==
    ASSUME MailInv, RefreshInv, NEW c \in page.calls, Fail(c)
    PROVE  RefreshInv'
<1>1. PICK reply \in {"refused", "lost"} :
         page' = [page EXCEPT !.calls = (@ \ {c}) \cup {[c EXCEPT !.reply = reply]}]
  BY DEF Fail
<1>2. Lasts
  BY NothingMoves DEF Fail
<1> QED
  BY <1>1, <1>2, ToldGood

LEMMA ArriveGood ==
    ASSUME MailInv, RefreshInv, NEW m \in Mails, Arrive(m)
    PROVE  RefreshInv'
<1>1. place[m] = "unborn" /\ place' = [place EXCEPT ![m] = "inbox"] /\ UNCHANGED <<seen, page, past>>
  BY DEF Arrive
<1>2. place \in [Mails -> Places] /\ past \subseteq Mails
  BY DEF MailInv
<1>3. Lasts
  BY <1>1, <1>2 DEF Lasts, RefreshInv, Gone
<1>4. PICK p : p = page
  OBVIOUS
<1>5. Good(p)'
  BY <1>3, <1>4, PageGood, KnowledgeLasts
<1>6. Known(page)' /\ \A c \in page'.calls : Live(c) => UpToDate(page, c)'
  BY <1>1, <1>4, <1>5 DEF Good, Known, ViewKnown, UpToDate
<1> QED
  BY <1>3, <1>6 DEF RefreshInv, Lasts

(***************************************************************************)
(* The window of a refresh                                                 *)
(***************************************************************************)
\* A mail that is not among the newest has a full window of newer ones.
LEMMA NewestIs ==
    ASSUME NEW S \in SUBSET Mails, NEW limit \in Nat \ {0}, NEW N, N = Newest(S, 0, limit),
           NEW m \in S, m \notin N
    PROVE  /\ Cardinality(N) >= limit /\ Cardinality(N) < Cardinality(S)
           /\ \A n \in N : m <= n
<1>1. Mails \subseteq Nat
  BY MailAssumption DEF MailAssumption
<1> DEFINE Above(k) == {n \in S : n > k}
           rank(k)  == Cardinality(Above(k))
<1>2. \A k \in S : rank(k) \in Nat /\ IsFiniteSet(Above(k))
  <2> SUFFICES ASSUME NEW k \in S PROVE rank(k) \in Nat /\ IsFiniteSet(Above(k))
    OBVIOUS
  <2>1. Above(k) \in SUBSET Mails
    OBVIOUS
  <2> QED
    BY <2>1, MailCount
<1>3. N = {k \in S : rank(k) < limit}
  <2>1. N = {k \in S : rank(k) \in 0 .. 0 + limit - 1}
    BY DEF Newest
  <2>2. \A k \in S : rank(k) \in 0 .. 0 + limit - 1 <=> rank(k) < limit
    BY <1>2
  <2> QED
    BY <2>1, <2>2
<1>4. \A j, k \in S : j < k => rank(k) < rank(j)
  <2> SUFFICES ASSUME NEW j \in S, NEW k \in S, j < k PROVE rank(k) < rank(j)
    OBVIOUS
  <2>1. Above(k) \subseteq Above(j) /\ k \in Above(j) /\ k \notin Above(k)
    <3>1. S \subseteq Nat
      BY <1>1
    <3>2. j \in Nat /\ k \in Nat
      BY <3>1
    <3>3. \A n \in S : n > k => n > j
      BY <3>1, <3>2
    <3>4. ~(k > k) /\ k > j
      BY <3>2
    <3> QED
      BY <3>3, <3>4
  <2>2. IsFiniteSet(Above(j)) /\ rank(j) \in Nat /\ rank(k) \in Nat
    BY <1>2
  <2>3. Above(k) # Above(j)
    BY <2>1
  <2> HIDE DEF Above
  <2> QED
    BY <2>1, <2>2, <2>3, FS_Subset, SMTT(30)
<1> HIDE DEF rank
<1>5. \A n \in N : m <= n
  <2> SUFFICES ASSUME NEW n \in N, n < m PROVE FALSE
    BY <1>1, <1>3
  <2>1. n \in S /\ rank(n) < limit /\ ~(rank(m) < limit)
    BY <1>3
  <2>2. rank(m) < rank(n)
    BY <1>4, <2>1
  <2>3. rank(m) \in Nat /\ rank(n) \in Nat
    BY <1>2, <2>1
  <2> QED
    BY <2>1, <2>2, <2>3
<1>6. PICK top \in S \ N : \A k \in S \ N : rank(top) <= rank(k)
  <2>1. PICK R : R = {rank(k) : k \in S \ N}
    OBVIOUS
  <2>2. R \in SUBSET Nat /\ R # {}
    BY <1>2, <2>1
  <2>3. \E r \in R : \A t \in R : r <= t
    BY <2>2, MinIs
  <2> QED
    BY <2>1, <2>3
<1>7. Above(top) \subseteq N
  <2> SUFFICES ASSUME NEW k \in S, k > top, k \notin N PROVE FALSE
    OBVIOUS
  <2>1. top \in Nat /\ k \in Nat
    BY <1>1
  <2>2. top < k
    BY <2>1
  <2>3. rank(k) < rank(top)
    BY <1>4, <2>2
  <2>4. rank(top) <= rank(k) /\ rank(top) \in Nat /\ rank(k) \in Nat
    BY <1>2, <1>6
  <2> QED
    BY <2>3, <2>4
<1>8. N \subseteq S /\ N # S /\ N \in SUBSET Mails
  BY <1>3
<1>9. rank(top) <= Cardinality(N)
  <2>1. IsFiniteSet(N)
    BY <1>8, MailCount
  <2>2. Cardinality(Above(top)) <= Cardinality(N)
    BY <1>7, <2>1, FS_Subset
  <2> QED
    BY <2>2 DEF rank
<1>10. rank(top) >= limit
  <2>1. ~(rank(top) < limit) /\ rank(top) \in Nat
    BY <1>2, <1>3
  <2> QED
    BY <2>1
<1>11. Cardinality(N) < Cardinality(S)
  <2>1. IsFiniteSet(S) /\ Cardinality(S) \in Nat /\ Cardinality(N) \in Nat
    BY <1>8, MailCount
  <2>2. Cardinality(N) <= Cardinality(S) /\ Cardinality(N) # Cardinality(S)
    BY <1>8, <2>1, FS_Subset
  <2> QED
    BY <2>1, <2>2
<1>12. Cardinality(N) \in Nat /\ rank(top) \in Nat
  BY <1>2, <1>8, MailCount
<1> QED
  BY <1>5, <1>9, <1>10, <1>11, <1>12

\* No page that was loaded is dropped while its mails are in the inbox.
LEMMA WindowKept ==
    ASSUME NEW whole \in SUBSET Mails, NEW limit \in Nat \ {0}, NEW got, got = Newest(whole, 0, limit),
           NEW loaded \in SUBSET Mails, NEW m \in loaded \cap whole, m \notin got
    PROVE  m \in OlderThanWindow(loaded, got, limit, Cardinality(whole))
<1>1. /\ Cardinality(got) >= limit /\ Cardinality(got) < Cardinality(whole)
      /\ \A n \in got : m <= n
  BY NewestIs
<1>2. got \in SUBSET Mails
  BY DEF Newest
<1>3. Cardinality(got) \in Nat /\ Cardinality(whole) \in Nat
  BY <1>2, MailCount
<1>4. got # {}
  <2>1. Cardinality({}) = 0
    BY FS_EmptySet
  <2> QED
    BY <1>1, <2>1
<1>5. Mails \subseteq Nat
  BY MailAssumption DEF MailAssumption
<1>6. Min(got) \in got
  BY <1>2, <1>4, <1>5, MinIs
<1>7. m <= Min(got)
  BY <1>1, <1>6
<1>8. ~(Cardinality(got) < limit \/ Cardinality(got) >= Cardinality(whole))
  BY <1>1, <1>3
<1> QED
  BY <1>7, <1>8 DEF OlderThanWindow

(***************************************************************************)
(* The theorems                                                            *)
(***************************************************************************)
LEMMA RefreshHarmless ==
    ASSUME MailInv, RefreshInv, NEW c \in page.calls, c.kind = "refresh", Deliver(c)
    PROVE  LET old == page.lists["inbox"]
               new == page'.lists["inbox"]
           IN /\ (new.items \ old.items) \cap past = {}
              /\ old.read \cap new.items \subseteq new.read
              /\ old.items \cap c.whole \subseteq new.items
<1>1. /\ Good(page) /\ page \in Pages /\ c \in Calls /\ CallKnown(c) /\ CallFits(page, c)
  BY PageGood
<1>2. ~c.awaited
  BY <1>1 DEF CallFits, Resumes
<1>3. PICK p : p = [page EXCEPT !.calls = @ \ {c}]
  OBVIOUS
<1>4. IsPage(p) /\ p.lists = page.lists /\ p.search = page.search /\ p.email = page.email
  BY <1>1, <1>3 DEF Good, IsPage
<1>5. page' = RefreshReply(p, c) /\ c.reply # "none"
  BY <1>2, <1>3 DEF Deliver, Handled
<1>6. PICK i : i = page.lists["inbox"]
  OBVIOUS
<1>7. IsList(i) /\ i.read \subseteq i.items /\ i.items \in SUBSET Mails /\ "inbox" \in Folders
  BY <1>1, <1>6 DEF Good, IsPage, Folders, Pages, Lists, MailInv, PageInv, ViewInv, ListsFit
<1>8. CASE ~Fresh(p, c) \/ c.edited \/ c.reply # "ok" \/ p.search.active
  <2>1. page'.lists["inbox"] = i
    BY <1>4, <1>5, <1>6, <1>8 DEF RefreshReply
  <2> QED
    BY <1>6, <1>7, <2>1
<1>9. CASE ~(~Fresh(p, c) \/ c.edited \/ c.reply # "ok" \/ p.search.active)
  <2>1. PICK kept : kept = OlderThanWindow(i.items, c.got, c.limit, Cardinality(c.whole))
    OBVIOUS
  <2>2. PICK n : n = Listed(i, c, kept)
    OBVIOUS
  <2>3. n.items = c.got \cup kept /\ n.read = c.read \cup (i.read \cap (kept \ c.got)) /\ IsList(n)
    BY <1>7, <2>2, ListedShape
  <2>4. PICK v : v = [p EXCEPT !.lists = [p.lists EXCEPT !["inbox"] = n]]
    OBVIOUS
  <2>5. IsPage(v) /\ v.lists["inbox"] = n
    BY <1>4, <1>7, <2>3, <2>4, ListSet
  <2>6. page' = PruneSelection(v)
    BY <1>4, <1>5, <1>6, <1>9, <2>1, <2>2, <2>4 DEF RefreshReply
  <2>7. page'.lists["inbox"] = n
    BY <2>5, <2>6 DEF PruneSelection, IsPage
  <2>8. UpToDate(page, c)
    BY <1>1, <1>9 DEF Good, Live, Fresh
  <2>9. kept \subseteq i.items
    BY <2>1 DEF OlderThanWindow
  <2>10. (n.items \ i.items) \cap past = {}
    BY <2>3, <2>8, <2>9 DEF UpToDate
  <2>11. i.read \cap n.items \subseteq n.read
    BY <1>6, <2>3, <2>8 DEF UpToDate
  <2>12. i.items \cap c.whole \subseteq n.items
    <3>1. c.got = Newest(c.whole, 0, c.limit) /\ c.limit \in Nat \ {0} /\ c.whole \in SUBSET Mails
      BY <1>1, <2>8 DEF UpToDate, CallKnown, Calls
    <3> QED
      BY <1>7, <2>1, <2>3, <3>1, WindowKept
  <2> QED
    BY <1>6, <2>7, <2>10, <2>11, <2>12
<1> QED
  BY <1>8, <1>9

LEMMA FirstPageGood ==
    ASSUME NEW view \in Views
    PROVE  Good(FirstPage(view))
<1> DEFINE p == EmptyPage("inbox", view)
<1>1. PICK o : o = p
  OBVIOUS
<1>2. Good(o)
  <2>1. IsPage(o)
    BY <1>1 DEF EmptyPage, EmptyList, NoSearch, IsPage, IsList, IsSearch, Folders
  <2>2. /\ o.calls = {} /\ o.offers = {} /\ o.lists["inbox"] = EmptyList /\ o.search = NoSearch
    BY <1>1 DEF EmptyPage, Folders
  <2> QED
    BY <2>1, <2>2 DEF Good, Known, ViewKnown, EmptyList, NoSearch, Born, StayRead
<1>3. PICK q : q = IF view.tab = "imap" THEN SwitchTab(o, "imap") ELSE o
  OBVIOUS
<1>4. Good(q)
  BY <1>2, <1>3, SwitchTabGood DEF Tabs
<1>5. PICK v : v = [q EXCEPT !.restore = NoDetail]
  OBVIOUS
<1>6. Beside(q, v)
  BY <1>4, <1>5 DEF Good, IsPage, Beside
<1>7. PICK silent \in BOOLEAN : silent = (view.tab = "imap")
  OBVIOUS
<1>8. Good(Await(LoadInbox(q, view.email, silent), FreeId(q)))
  BY <1>4, LoadInboxGood, AwaitGood
<1>9. FirstPage(view) = IF view.email = None THEN v
                        ELSE Await(LoadInbox(q, view.email, silent), FreeId(q))
  BY <1>1, <1>3, <1>5, <1>7 DEF FirstPage, EmptyPage
<1> QED
  BY <1>4, <1>6, <1>8, <1>9, BesideGood

LEMMA RefreshInvHolds ==
    ASSUME Init
    PROVE  RefreshInv
<1>1. PICK view \in Views : page = FirstPage(view)
  BY DEF Init
<1>2. Good(page)
  BY <1>1, FirstPageGood
<1> QED
  BY <1>2 DEF RefreshInv, Good, Init

LEMMA RefreshInvKept ==
    ASSUME MailInv, RefreshInv, [Next]_vars
    PROVE  RefreshInv'
<1>1. CASE UNCHANGED vars
  BY <1>1 DEF vars, RefreshInv, Known, ViewKnown, CallKnown, UpToDate, Born, StayRead
<1>2. ASSUME NEW c \in page.calls,
             \/ AnswerInbox(c) \/ AnswerSearch(c) \/ AnswerFolder(c) \/ AnswerDetail(c)
             \/ AnswerSentDetail(c) \/ AnswerChange(c) \/ Fail(c) \/ Deliver(c)
      PROVE  RefreshInv'
  BY <1>2, AnswersGood, DetailsGood, ChangesGood, FailGood, DeliverGood
<1> QED
  BY <1>1, <1>2, ArriveGood, UserActsGood DEF Next

\* What the page knows of its mails stays true, whatever the server, the user
\* and the timer do meanwhile (state.ts:331 and the inboxEdits of its callers).
THEOREM RefreshInvariantHolds == Spec => []RefreshInv
<1> QED
  BY MailInvariantHolds, RefreshInvHolds, RefreshInvKept, PTL DEF Spec

\* A silent refresh brings back nothing the user was told is deleted, leaves
\* read what was read, and keeps the pages loaded (refreshInboxSilently).
THEOREM RefreshIsHarmless == Spec => RefreshUndoesNothing
<1>1. MailInv /\ RefreshInv /\ [Next]_vars =>
        [\A c \in page.calls : c.kind = "refresh" /\ Deliver(c) =>
            LET old == page.lists["inbox"]
                new == page'.lists["inbox"]
            IN /\ (new.items \ old.items) \cap past = {}
               /\ old.read \cap new.items \subseteq new.read
               /\ old.items \cap c.whole \subseteq new.items]_vars
  BY RefreshHarmless
<1> QED
  BY <1>1, MailInvariantHolds, RefreshInvariantHolds, PTL DEF Spec, RefreshUndoesNothing
=============================================================================
