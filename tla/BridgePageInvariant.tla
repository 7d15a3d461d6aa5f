------------------------ MODULE BridgePageInvariant ------------------------
(***************************************************************************)
(* What makes TypeOK, MailsStayInTheirList, NoMailIsSkipped,               *)
(* ChangesAreListed and SearchStands of BridgePage inductive.              *)
(***************************************************************************)
EXTENDS BridgePage

Places  == Lists \cup ({None} \X Folders)
Seen    == [Accounts -> Nat \cup {-1}]
Entries == [mails : Seq(Mails), more : BOOLEAN, oldest : Nat, total : Nat, at : Nat]
Caches  == UNION {[D -> Entries] : D \in SUBSET Lists}
Calls   == [id : Nat, kind : Kinds, list : Places \cup {None}, uids : SUBSET Nat, before : Nat,
            target : Lists \cup {None}, load : BOOLEAN, cached : Nat, quiet : BOOLEAN,
            restore : Nat \cup {-1}, current : BOOLEAN, opt : BOOLEAN,
            reply : {"none", "ok", "refused"}, got : Entries, seen : Seen]
Pages   == [account : Accounts \cup {None}, folder : Folders, key : Lists \cup {None},
            cache : Seq(Mails), index : Nat, more : BOOLEAN, oldest : Nat, at : Nat,
            lists : Caches, known : SUBSET Accounts, selecting : BOOLEAN, chosen : SUBSET Nat,
            visible : BOOLEAN, detail : Mails \cup {None}, drawn : BOOLEAN, uid : Nat,
            versions : Seen, polling : BOOLEAN, ahead : SUBSET Accounts, calls : SUBSET Calls]

ServerTyped ==
    /\ box \in [Lists -> SUBSET Nat] /\ top \in [Lists -> Nat]
    /\ \A l \in Lists : IsFiniteSet(box[l]) /\ \A u \in box[l] : u <= top[l]
    /\ version \in [Accounts -> Nat] /\ clients \subseteq Accounts

\* What a request is about. A list needs no id, there is one request for it.
CallFits(c) ==
    /\ c.kind = "list" <=> c.id = 0
    /\ c.kind = "list" => c.list \in Lists
    /\ c.kind \in {"add", "opening"} => \E a \in Accounts : c.list = <<a, Inbox>>
    /\ c.kind # "poll" => c.list \in Places
    /\ c.kind = "read" => c.uids # {} /\ (c.reply = "ok" => c.list \in Lists)

Distinct(p) ==
    \A c, d \in p.calls :
        /\ c.id = d.id /\ c.kind # "list" => c = d
        /\ c.kind = "list" /\ d.kind = "list" /\ c.list = d.list => c = d
        /\ c.kind = "add" /\ d.kind = "add" => c = d

PageTyped(p) ==
    /\ p \in Pages /\ IsFiniteSet(p.calls)
    /\ p.account # None => Active(p) \in Lists
    /\ \A c \in p.calls : CallFits(c)
    /\ Distinct(p)

\* The page names the account, though not as one that is being added.
Names(p, account) ==
    \/ account = p.account \/ account \in p.known \/ account \in p.ahead
    \/ p.key # None /\ account = p.key[1]
    \/ \E l \in DOMAIN p.lists : account = l[1]
    \/ \E c \in p.calls : c.kind \in {"list", "opening"} /\ account = c.list[1]

\* The page names accounts that were added (those in I), and no name is used for
\* the one being added yet.
Named(p, I) ==
    /\ \A account \in Accounts : Names(p, account) =>
          account \in I /\ \A c \in p.calls : c.kind = "add" => c.list[1] # account
    /\ \A c \in p.calls : c.kind = "add" /\ c.reply = "ok" => c.list[1] \in I

\* The rows are those of the account and the folder chosen.
Shown(p) == p.key # None /\ p.key = Active(p)

\* The rows s are mails of the list l.
Of(l, s) == \A i \in DOMAIN s : s[i].list = l

\* Mails are where they belong: in the cache and in the answers,
Stored(p) ==
    /\ \A l \in DOMAIN p.lists : Of(l, p.lists[l].mails)
    /\ \A c \in p.calls : c.kind \in {"list", "more"} => Of(c.list, c.got.mails)

\* and in the rows, which are continued with mails of the same list.
Continued(p) ==
    Shown(p) => /\ Of(p.key, p.cache)
                /\ \A c \in p.calls : c.kind = "more" /\ c.current => c.list = p.key

InPlace(p) == Stored(p) /\ Continued(p)

\* The rows are as new as the cached list.
SameAge(p) == Shown(p) => p.key \in DOMAIN p.lists /\ p.lists[p.key].at = p.at

\* Whoever fetches the list that is shown shows what it gets.
InStep(p) ==
    /\ SameAge(p)
    /\ Shown(p) => \A c \in FetchesOf(p, p.key) : c.load \/ c.quiet

\* Search results are shown, and no list is about to be.
Searched(p) == p.key = None /\ \A c \in p.calls : ~c.load

\* The changes the page was told of, those of the accounts in A aside, are listed.
Listed(p, A) ==
    \A a \in Accounts \ A : LET l == <<a, Inbox>> IN
        l \in DOMAIN p.lists /\ FetchesOf(p, l) = {} => p.lists[l].at >= p.versions[a]

PastTyped ==
    past \in [picked : SUBSET Mails, missed : SUBSET Accounts, search : BOOLEAN,
              slips : SUBSET SlipKinds, ids : SUBSET Accounts]

Uids(s) == {s[i].uid : i \in DOMAIN s}

\* The sequence number of the mail u among the mails S of a list.
Place(S, u) == Cardinality({v \in S : v <= u})

\* Below, S are the mails of a list at the server, and t is the UID it gave last.
Given(U, t) == \A u \in U : u <= t

\* Rows of the mails U skip none, if they can be continued before a place.
Skipless(S, U, more, place) ==
    \A u \in S : \/ u \in U
                 \/ \A v \in U : v < u
                 \/ (\A v \in U : u < v) /\ more /\ Place(S, u) < place

Whole(e, S, t) == Given(Uids(e.mails), t) /\ Skipless(S, Uids(e.mails), e.more, e.oldest)

\* What is as old as U is as old as the answer G: nothing newer than G has been seen.
Behind(S, U, G) == \A u \in S : UpTo(u, U) => UpTo(u, G)

\* The "load more" c continues the rows of U: the mails that are not shown are
\* older than the rows just when they are older than what c continues, and
\* then c gets them, or they come before what it gets.
Continues(c, U, S, t) ==
    /\ Given(c.uids, t)
    /\ U # {} => \A u \in S \ U : UpTo(u, c.uids) <=> \A v \in U : u < v
    /\ c.reply = "none" => \A u \in S \ U : UpTo(u, c.uids) => Place(S, u) < c.before
    /\ c.reply = "ok" /\ Straight(c) =>
          \A u \in S \ U : UpTo(u, c.uids) =>
             \/ u \in Uids(c.got.mails)
             \/ /\ \A n \in Uids(c.got.mails) : u < n
                /\ c.got.more /\ (c.got.mails # <<>> => Place(S, u) < c.got.oldest)

Continuing(p) == {c \in p.calls : c.kind = "more" /\ c.current}

RowsSkipNone(p, S, t) ==
    LET U == Uids(p.cache) IN
    /\ Given(U, t) /\ Skipless(S, U, p.more, p.oldest)
    /\ \A c \in Continuing(p) : Continues(c, U, S, t)
    /\ \A c, d \in Continuing(p) : \A u \in S \ U : UpTo(u, c.uids) <=> UpTo(u, d.uids)
    /\ \A f \in FetchesOf(p, p.key) : f.reply = "ok" =>
          /\ Behind(S, U, Uids(f.got.mails))
          /\ \A c \in Continuing(p) : Behind(S, c.uids, Uids(f.got.mails))

\* An answer to fetch a list is whole and no older than the cached list; a mail
\* whose deletion is confirmed is gone for good.
AnswerFits(p, c, S, t) ==
    /\ c.kind = "list" => c.before = 0
    /\ c.kind = "list" /\ c.reply = "ok" =>
          /\ Whole(c.got, S, t)
          /\ c.list \in DOMAIN p.lists =>
                Behind(S, Uids(p.lists[c.list].mails), Uids(c.got.mails))
    /\ c.kind \in {"delete", "move", "batchDelete"} /\ c.reply = "ok" =>
          c.list \in Lists /\ Given(c.uids, t) /\ S \cap c.uids = {}

\* No mail of the lists is skipped: box and top are B and T.
SkipsNone(p, B, T) ==
    /\ \A l \in DOMAIN p.lists : Whole(p.lists[l], B[l], T[l])
    /\ \A c \in p.calls : AnswerFits(p, c, B[c.list], T[c.list])
    /\ Shown(p) => RowsSkipNone(p, B[p.key], T[p.key])

\* A page with a history.
InOrder(p, r) ==
    /\ PageTyped(p) /\ Named(p, r.ids)
    /\ "stray" \in r.slips \/ InPlace(p)
    /\ InStep(p)
    /\ r.search => Searched(p)
    /\ Listed(p, r.missed)

PageInv ==
    /\ ServerTyped /\ PastTyped /\ clients \subseteq past.ids /\ InOrder(page, past)
    /\ past.slips = {} => SkipsNone(page, box, top)
=============================================================================
