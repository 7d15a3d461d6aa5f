--------------------------- MODULE InboxInvariant ---------------------------
(***************************************************************************)
(* What makes OnlyNewsIsReported, NothingPassedOver and                    *)
(* ToldMailHasItsEvent of InboxWatch inductive (WatchInv), and TypeOK and  *)
(* NoMailOverlooked (NewsInv).                                             *)
(***************************************************************************)
EXTENDS InboxWatch

Fields == [inboxExists : Int, lastUid : Nat \cup {NoUid, NoBase},
           uidValidity : Nat, newMailTimer : BOOLEAN, reportAgain : BOOLEAN]

\* Nothing below depends on the counts: any integers will do.
WatchTypes ==
    /\ uidNext \in Nat \ {0} /\ inbox \subseteq Uids /\ \A u \in inbox : u < uidNext
    /\ validity \in Nat
    /\ conn \in [state : {"none", "connecting", "opening", "live", "deaf", "dead"},
                 awaited : BOOLEAN, exists : Int]
    /\ wire \in Seq(Int)
    /\ rewatch \in BOOLEAN /\ closed \in BOOLEAN
    /\ me \in Fields
    /\ report \in [stage : {"none", "base", "fetch", "post"},
                   found : SUBSET Mails, keys : SUBSET Mails]
    /\ events \in SUBSET Mails
    /\ past \in [old : SUBSET Mails, told : SUBSET Mails, lost : SUBSET Mails,
                 cut : SUBSET Mails, base : Nat \cup {NoUid, NoBase}, missed : BOOLEAN]

Done == past.told \cup past.lost \cup past.cut

\* A watched INBOX has been looked at, under the UIDVALIDITY it has.
LookedAt ==
    /\ me.uidValidity <= validity
    /\ me.uidValidity = validity => me.lastUid < uidNext /\ past.base <= me.lastUid
    /\ Listening => ~FirstLook(me)
    /\ me.lastUid = NoUid => report = NoReport /\ past.old = {} /\ Done = {}

\* What is done with lies at or below lastUid, and so does the old mail that is
\* still there once a baseline is known.
DoneBelow ==
    /\ \A mail \in Done : /\ mail[1] <= me.uidValidity
                          /\ mail[1] = me.uidValidity => mail[2] <= me.lastUid
    /\ \A mail \in past.old : /\ mail[1] <= me.uidValidity
                              /\ mail[1] = validity => mail[2] < uidNext
    /\ me.uidValidity = validity /\ me.lastUid >= 0 =>
         \A u \in inbox : <<validity, u>> \in past.old => u <= me.lastUid

\* A fetch runs on a connection that is up; what it found lies above lastUid,
\* with no gap among the mail that is still there.
FetchAbove ==
    /\ report.stage = "none" => report = NoReport
    /\ report.stage = "base" => report.found = {} /\ me.lastUid = NoBase
    /\ report.stage \in {"base", "fetch"} => conn.state \in {"live", "deaf"}
    /\ report.stage = "fetch" =>
         /\ me.lastUid >= 0
         /\ report.found # {} => Listening
         /\ \A mail \in report.found :
              /\ mail[1] = me.uidValidity
              /\ me.lastUid < mail[2] /\ mail[2] < uidNext
              /\ \A u \in inbox : me.lastUid < u /\ u <= mail[2] =>
                   <<validity, u>> \in report.found

\* A report under way is news, carries the keys of its mail, and lies below
\* the lastUid that has moved on.
PostBelow ==
    report.stage = "post" =>
        /\ report.keys = report.found
        /\ \A mail \in report.found :
             /\ mail[1] <= me.uidValidity
             /\ mail[1] = me.uidValidity => mail[2] <= me.lastUid

\* What the watcher and its history say of the INBOX is true: the inductive
\* invariant behind the three properties it contains (client.js, trackNewMail
\* and reportNewMail).
WatchInv ==
    /\ WatchTypes /\ LookedAt /\ DoneBelow /\ FetchAbove /\ PostBelow
    /\ OnlyNewsIsReported /\ NothingPassedOver /\ ToldMailHasItsEvent

\* counts: what the INBOX held before and after each notice on the wire.
Counted(counts) ==
    /\ counts[0] = conn.exists /\ counts[Len(wire)] = Cardinality(inbox)
    /\ \A i \in 1 .. Len(wire) :
          \/ wire[i] = Expunge /\ counts[i] = counts[i - 1] - 1
          \/ wire[i] = counts[i] /\ counts[i] = counts[i - 1] + 1

\* The watcher's count is the library's, and the notices on the wire lead from
\* it to what the INBOX holds, one mail at a time.
CountsAgree ==
    /\ wire \in Seq(Nat) /\ conn.exists \in Nat
    /\ ~Listening => wire = <<>>
    /\ Listening => /\ me.inboxExists = conn.exists
                    /\ \E counts \in [0 .. Len(wire) -> 0 .. MaxUid] : Counted(counts)

\* Mail above lastUid is in the report that runs, or another report is queued,
\* or an arrival that is still on the wire will queue one.
MailAwaited ==
    Listening /\ ~closed /\ me.lastUid # NoBase /\ ~past.missed =>
        \/ me.newMailTimer \/ me.reportAgain
        \/ \E i \in 1 .. Len(wire) : wire[i] # Expunge
        \/ \A u \in inbox : u > me.lastUid => <<validity, u>> \in report.found

\* What TypeOK says beyond WatchTypes.
FineTypes ==
    /\ uidNext <= MaxUid + 1
    /\ me.inboxExists \in Nat \cup {NoCount}
    /\ me.lastUid = NoUid <=> me.inboxExists = NoCount
    /\ spent \in [deletions : Nat, recreations : Nat, drops : Nat, failures : Nat,
                  restarts : Nat]

\* No arrival gets lost between the server's notices and the next report
\* (client.js, noteInboxExists and reportAgain).
NewsInv == WatchInv /\ CountsAgree /\ MailAwaited /\ FineTypes
=============================================================================
