------------------------------- MODULE Compose -------------------------------
(***************************************************************************)
(* Writing and sending a mail: the compose window of the web UI            *)
(* (src/frontend/src/components/ComposeModal.tsx), its confirm dialog      *)
(* (ui.ts), the send handler (src/viewer.go) and the record of sent mail   *)
(* (src/store.go).                                                         *)
(*                                                                         *)
(* The window is one form for all mails, one after the other; openSeq      *)
(* tells them apart.  What comes late - files that were read, the answer   *)
(* of the server, timers - compares the openSeq it started with.  The      *)
(* draft is in localStorage and outlives the page, the rest does not.      *)
(*                                                                         *)
(* A text stands for subject and body, 0 for none; every text typed or     *)
(* quoted is another number, so a text names a mail.  "to" says whether    *)
(* there are recipients (all well formed) and a sender.                    *)
(***************************************************************************)
EXTENDS Integers, FiniteSets, SequencesExt

CONSTANTS
    Files,       \* what the user may attach
    Size,        \* Files -> size
    MaxFile,     \* MAX_ATTACHMENT_MB
    MaxTotal,    \* MAX_ATTACHMENT_TOTAL_MB
    Lists,       \* the lists of files the user may pick at a time
    None,        \* no draft
    MaxOpens,    \* bound: times the window is opened
    MaxTexts,    \* bound: texts typed or quoted
    MaxPicks,    \* bound: lists of files picked
    MaxSends,    \* bound: requests
    MaxFaults,   \* bound: requests and records that fail
    MaxReloads   \* bound: reloads of the page

ASSUME ComposeAssumption ==
    /\ Size \in [Files -> Nat]
    /\ Lists \subseteq Seq(Files) /\ None \notin [to : BOOLEAN, text : Nat]
    /\ {MaxFile, MaxTotal, MaxOpens, MaxTexts, MaxPicks, MaxSends, MaxFaults, MaxReloads} \subseteq Nat

VARIABLES
    page,   \* the window: its form, timers and the files being read
    draft,  \* localStorage: the saved [to, text], or None
    reqs,   \* the requests under way
    rows,   \* sent_messages: how often each text is recorded
    past,   \* history: see TypeOK
    spent   \* how much of each bound is used up

vars == <<page, draft, reqs, rows, past, spent>>

\* A definition X_... before X is X with a slip in it, not part of the
\* specification (README, "Slips").

Texts == 0 .. MaxTexts
Content == [to : BOOLEAN, text : Texts]

\* timer: saveDraft's; confirm: the dialog of tryClose is shown;
\* closing: the openings whose two seconds after "sent" run
Blank(seq) == [seq |-> seq, visible |-> FALSE, to |-> FALSE, text |-> 0, atts |-> <<>>,
               send |-> "idle", alert |-> "none", bar |-> FALSE,
               timer |-> FALSE, confirm |-> FALSE, closing |-> {}, picks |-> {}]

Fresh == [told |-> {}, toldIn |-> {}, taken |-> [n \in Texts |-> 0], doubt |-> [n \in Texts |-> 0],
          unrecorded |-> {}, kept |-> FALSE, closed |-> FALSE, dropped |-> {}]

TypeOK ==
    /\ page.seq \in Nat /\ page.text \in Texts
    /\ {page.visible, page.to, page.bar, page.timer, page.confirm} \subseteq BOOLEAN
    /\ page.send \in {"idle", "sending", "sent"} /\ page.alert \in {"none", "success", "danger"}
    /\ page.atts \in Seq([file : Files, seq : 1 .. page.seq])
    /\ page.closing \subseteq 1 .. page.seq
    \* a pick: the file being read and those to come after it
    /\ \A p \in page.picks : p.seq \in 1 .. page.seq /\ p.files \in Seq(Files) \ {<<>>}
    /\ page.bar => draft # None
    /\ page.timer => page.visible
    /\ draft \in Content \cup {None}
    \* seq 0: the page that waited for the answer is gone
    /\ \A r \in reqs : /\ r.seq \in 0 .. page.seq /\ r.text \in Texts /\ r.lost \in BOOLEAN
                       /\ r.stage \in {"posted", "taken", "yes", "no"}
    /\ rows \in [Texts -> Nat]
    \* told: the texts, and toldIn: the openings of this page, told as sent
    \* taken: how often Resend took a text; doubt: how often without the user
    \* being told; unrecorded: texts whose record failed
    \* kept: saveDraft has seen the last change of this form
    \* closed: this page has closed the window, and not opened it since
    \* dropped: texts a timer took out of a form before they were sent
    /\ past.taken \in [Texts -> Nat] /\ past.doubt \in [Texts -> Nat]

Used(what, most) == spent[what] < most /\ spent' = [spent EXCEPT ![what] = @ + 1]

(***************************************************************************)
(* The draft                                                               *)
(***************************************************************************)
Dirty(p) == p.to \/ p.text # 0 \/ p.atts # <<>>

Saved(p) == [to |-> p.to, text |-> p.text]

DiscardDraft(p) == [p EXCEPT !.bar = FALSE]

\* Slip: a mail that cannot be sent is dropped from the drafts as well.
Unsent_DropsDraft(d) == None
\* The draft after a send that failed.
Unsent(d) == d

\* Every change of the form but one of its files or its sender's domain
\* (re)starts the timer.
SaveDraft(p) == [p EXCEPT !.timer = p.visible]

WithRecipients(p, to) == SaveDraft([p EXCEPT !.to = to])

\* The subject's input and the editor's text-change
Typed(p, text) == SaveDraft([p EXCEPT !.text = text])

\* The window is open and no question stands before it; nothing else closes it.
AtForm == page.visible /\ ~page.confirm

Edits(p) ==
    /\ AtForm
    /\ page' = p
    /\ past' = [past EXCEPT !.kept = TRUE]
    /\ UNCHANGED <<draft, reqs, rows>>

\* Typing, pasting or removing a recipient; what stands in the input becomes
\* one when it loses the focus, before any button acts.
ChangeRecipients == Edits(WithRecipients(page, ~page.to)) /\ UNCHANGED spent

TypeText == Used("texts", MaxTexts) /\ Edits(Typed(page, spent.texts + 1))

ClearText == page.text # 0 /\ Edits(Typed(page, 0)) /\ UNCHANGED spent

\* Nothing to save, or the draft is of what the form holds by now.
DraftTimer ==
    /\ page.timer
    /\ page' = [(IF Dirty(page) THEN page ELSE DiscardDraft(page)) EXCEPT !.timer = FALSE]
    /\ draft' = IF Dirty(page) THEN Saved(page) ELSE None
    /\ UNCHANGED <<reqs, rows, past, spent>>

RestoreDraft ==
    /\ AtForm /\ page.bar
    /\ page' = SaveDraft([page EXCEPT !.to = draft.to, !.text = draft.text, !.bar = FALSE])
    /\ past' = [past EXCEPT !.kept = TRUE]
    /\ UNCHANGED <<draft, reqs, rows, spent>>

DiscardFoundDraft ==
    /\ AtForm /\ page.bar
    /\ page' = DiscardDraft(page)
    /\ draft' = None
    /\ past' = [past EXCEPT !.kept = FALSE]
    /\ UNCHANGED <<reqs, rows, spent>>

(***************************************************************************)
(* Attachments                                                             *)
(***************************************************************************)
Total(atts) ==
    LET sum[i \in 0 .. Len(atts)] == IF i = 0 THEN 0 ELSE sum[i - 1] + Size[atts[i].file]
    IN sum[Len(atts)]

Fits(f, atts) == Total(atts) + Size[f] <= MaxTotal

\* The turn of onAttachmentsPicked that goes on with the given files: those too
\* large by themselves are passed over, and the first that does not fit any
\* more ends the list.
ReadOn(p, pick) ==
    LET small == {i \in DOMAIN pick.files : Size[pick.files[i]] <= MaxFile}
        first == CHOOSE i \in small : \A j \in small : i <= j
        rest == SubSeq(pick.files, first, Len(pick.files))
    IN IF small # {} /\ Fits(Head(rest), p.atts)
       THEN [p EXCEPT !.picks = @ \cup {[pick EXCEPT !.files = rest]}]
       ELSE p

PickFiles(files) ==
    /\ AtForm /\ Used("picks", MaxPicks)
    /\ page' = ReadOn(page, [id |-> spent.picks, seq |-> page.seq, files |-> files])
    /\ UNCHANGED <<draft, reqs, rows, past>>

\* Slip: what fitted before the file was read is taken to fit afterwards.
Attached_Unchecked(p, f) == [p EXCEPT !.atts = Append(@, [file |-> f, seq |-> p.seq])]
\* The form with a file that was read, if it (still) fits.
Attached(p, f) ==
    IF Fits(f, p.atts) THEN [p EXCEPT !.atts = Append(@, [file |-> f, seq |-> p.seq])] ELSE p

\* A file was read, or could not be.
ReadEnds(pick, ok) ==
    LET p == [page EXCEPT !.picks = @ \ {pick}]
        q == IF ok THEN Attached(p, Head(pick.files)) ELSE p
    IN /\ page' = IF pick.seq # page.seq \/ ~page.visible THEN p
                  ELSE ReadOn(q, [pick EXCEPT !.files = Tail(@)])
       /\ UNCHANGED <<draft, reqs, rows, past, spent>>

RemoveAttachment(i) ==
    /\ AtForm
    /\ page' = [page EXCEPT !.atts = RemoveAt(@, i)]
    /\ UNCHANGED <<draft, reqs, rows, past, spent>>

(***************************************************************************)
(* Opening and closing                                                     *)
(***************************************************************************)
\* Slip: the next mail has the number of the one before.
NextSeq_Same(p) == IF p.seq = 0 THEN 1 ELSE p.seq
\* resetForm and close each take the next number.
NextSeq(p) == p.seq + 1

\* resetForm; what comes late for other openings is still to come.
ResetForm(p) ==
    [Blank(NextSeq(p)) EXCEPT !.closing = p.closing, !.picks = p.picks, !.visible = TRUE]

Opens(p) ==
    /\ ~page.visible /\ ~page.confirm
    /\ page' = p
    /\ past' = [past EXCEPT !.kept = FALSE, !.closed = FALSE]
    /\ UNCHANGED <<draft, reqs, rows>>

OpenCompose ==
    /\ Used("opens", MaxOpens)
    /\ Opens([ResetForm(page) EXCEPT !.bar = draft # None])

\* Reply, reply to all (recipients filled in) and forward (none): the original
\* is quoted, and no draft is offered.
OpenVariant(to) ==
    /\ spent.opens < MaxOpens /\ spent.texts < MaxTexts
    /\ spent' = [spent EXCEPT !.opens = @ + 1, !.texts = @ + 1]
    /\ Opens([ResetForm(page) EXCEPT !.to = to, !.text = spent.texts + 1])

\* Slip: the draft timer of the closed form is left running.
Closed_TimerRuns(p) == [p EXCEPT !.seq = NextSeq(p), !.visible = FALSE, !.bar = FALSE]
\* close(true); the draft is discarded with it.
Closed(p) == [p EXCEPT !.seq = NextSeq(p), !.timer = FALSE, !.visible = FALSE, !.bar = FALSE]

Waiting(seq) == {r \in reqs : r.seq = seq /\ seq # 0}

\* Whoever waits for an answer gets none any more.
InDoubt(gone) ==
    [n \in Texts |-> past.doubt[n] + Cardinality({r \in gone : r.text = n})]

Close(p, by) ==
    /\ page' = Closed(p)
    /\ draft' = None
    /\ past' = [past EXCEPT !.doubt = InDoubt(Waiting(p.seq)), !.closed = TRUE,
                !.dropped = IF by = "timer" /\ p.seq \notin past.toldIn THEN @ \cup {p.text} ELSE @]
    /\ UNCHANGED <<reqs, rows, spent>>

TryClose ==
    /\ AtForm
    /\ \/ ~Dirty(page) /\ Close(page, "user")
       \/ /\ Dirty(page)
          /\ page' = [page EXCEPT !.confirm = TRUE]
          /\ UNCHANGED <<draft, reqs, rows, past, spent>>

\* acceptConfirm: the window may have closed by itself meanwhile.
AcceptConfirm == page.confirm /\ Close([page EXCEPT !.confirm = FALSE], "user")

CancelConfirm ==
    /\ page.confirm
    /\ page' = [page EXCEPT !.confirm = FALSE]
    /\ UNCHANGED <<draft, reqs, rows, past, spent>>

\* A reload, or the browser ends: the page starts anew with the saved draft.
\* The request goes on without anybody who waits for it.  If the draft is of
\* a mail that was told as sent, the user is misled about it from here on.
Reload ==
    LET stale == IF draft # None THEN {draft.text} \cap past.told ELSE {}
    IN /\ Used("reloads", MaxReloads)
       /\ page' = Blank(0)
       /\ reqs' = {[r EXCEPT !.seq = 0] : r \in reqs}
       /\ past' = [past EXCEPT !.toldIn = {}, !.kept = FALSE, !.closed = FALSE,
                   !.doubt = [n \in Texts |-> InDoubt(Waiting(page.seq))[n]
                                                + IF n \in stale THEN 1 ELSE 0]]
       /\ UNCHANGED <<draft, rows>>

(***************************************************************************)
(* Sending                                                                 *)
(***************************************************************************)
\* The button is enabled while nothing is being or was sent in this opening.
MaySend == AtForm /\ page.send = "idle"

SendEmail ==
    /\ MaySend
    /\ \/ /\ ~page.to \/ page.text = 0
          /\ page' = [page EXCEPT !.alert = "danger"]
          /\ UNCHANGED <<reqs, spent>>
       \/ /\ page.to /\ page.text # 0 /\ Used("sends", MaxSends)
          /\ page' = [page EXCEPT !.alert = "none", !.send = "sending"]
          /\ reqs' = reqs \cup {[id |-> spent.sends, seq |-> page.seq, text |-> page.text,
                                 stage |-> "posted", lost |-> FALSE]}
    /\ UNCHANGED <<draft, rows, past>>

Becomes(r, new) == reqs' = (reqs \ {r}) \cup {new}

\* Resend takes the mail.
Takes(r) ==
    /\ r.stage = "posted"
    /\ Becomes(r, [r EXCEPT !.stage = "taken"])
    /\ past' = [past EXCEPT !.taken[r.text] = @ + 1]
    /\ UNCHANGED <<page, draft, rows, spent>>

\* Resend, or the handler before, refuses it; the request to Resend fails or
\* times out, whether the mail was taken or not; the server goes down or the
\* answer of the handler is lost.
Fails(r) ==
    /\ r.stage # "no" /\ Used("faults", MaxFaults)
    /\ Becomes(r, [r EXCEPT !.stage = "no", !.lost = r.stage # "posted"])
    /\ UNCHANGED <<page, draft, rows, past>>

\* Slip: a record that fails is answered as a mail that was not sent.
AfterRecord_Fails(ok) == IF ok THEN "yes" ELSE "no"
\* "the mail went out; only the record is missing" (viewer.go:1373)
AfterRecord(ok) == "yes"

\* The handler reads Resend's answer, records the mail and answers.
Records(r, ok) ==
    /\ r.stage = "taken"
    /\ Becomes(r, [r EXCEPT !.stage = AfterRecord(ok)])
    /\ rows' = IF ok THEN [rows EXCEPT ![r.text] = @ + 1] ELSE rows
    /\ past' = IF ok THEN past ELSE [past EXCEPT !.unrecorded = @ \cup {r.text}]
    /\ IF ok THEN UNCHANGED spent ELSE Used("faults", MaxFaults)
    /\ UNCHANGED <<page, draft>>

\* Slip: the answer is for whatever mail is in the window.
IsLate_Never(r, p) == r.seq = 0
\* The window was closed, or opened for another mail, since the request.
IsLate(r, p) == r.seq # p.seq \/ r.seq = 0

Answer(r) ==
    /\ r.stage \in {"yes", "no"}
    /\ reqs' = reqs \ {r}
    /\ \/ IsLate(r, page) /\ UNCHANGED <<page, draft, past>>
       \/ /\ ~IsLate(r, page) /\ r.stage = "yes"
          /\ page' = [DiscardDraft(page) EXCEPT !.alert = "success", !.send = "sent",
                                                !.closing = @ \cup {page.seq}]
          /\ draft' = None
          /\ past' = [past EXCEPT !.told = @ \cup {r.text}, !.toldIn = @ \cup {r.seq}, !.kept = FALSE]
       \/ /\ ~IsLate(r, page) /\ r.stage = "no"
          /\ page' = [page EXCEPT !.alert = "danger", !.send = "idle"]
          /\ draft' = Unsent(draft)
          /\ past' = IF r.lost THEN [past EXCEPT !.doubt[r.text] = @ + 1] ELSE past
    /\ UNCHANGED <<rows, spent>>

\* Slip: the two seconds close whatever is in the window.
ClosesItself_Anything(seq, p) == p.visible
\* The window still shows the mail that was sent two seconds ago.
ClosesItself(seq, p) == seq = p.seq

AutoClose(seq) ==
    /\ seq \in page.closing
    /\ LET p == [page EXCEPT !.closing = @ \ {seq}]
       IN IF ClosesItself(seq, page) THEN Close(p, "timer")
          ELSE page' = p /\ UNCHANGED <<draft, reqs, rows, past, spent>>

Init ==
    /\ page = Blank(0)
    /\ draft = None
    /\ reqs = {}
    /\ rows = [n \in Texts |-> 0]
    /\ past = Fresh
    /\ spent = [opens |-> 0, texts |-> 0, picks |-> 0, sends |-> 0, faults |-> 0, reloads |-> 0]

Next ==
    \/ OpenCompose
    \/ \E to \in BOOLEAN : OpenVariant(to)
    \/ ChangeRecipients
    \/ TypeText
    \/ ClearText
    \/ DraftTimer
    \/ RestoreDraft
    \/ DiscardFoundDraft
    \/ \E files \in Lists : PickFiles(files)
    \/ \E pick \in page.picks, ok \in BOOLEAN : ReadEnds(pick, ok)
    \/ \E i \in DOMAIN page.atts : RemoveAttachment(i)
    \/ TryClose
    \/ AcceptConfirm
    \/ CancelConfirm
    \/ Reload
    \/ SendEmail
    \/ \E r \in reqs :
          \/ Takes(r)
          \/ Fails(r)
          \/ \E ok \in BOOLEAN : Records(r, ok)
          \/ Answer(r)
    \/ \E seq \in page.closing : AutoClose(seq)

Spec == Init /\ [][Next]_vars

(***************************************************************************)
(* Properties                                                              *)
(***************************************************************************)
\* What the window shows is of the mail in it, whatever comes late: it says
\* "sending" as long as somebody waits for an answer and "sent" only of a mail
\* that was, holds the files picked for this mail and no more than fit, however
\* the reading of two lists overlaps, and no timer takes an unsent mail away.
WindowShowsItsMail ==
    /\ page.visible =>
          /\ page.send = "sending" <=> Waiting(page.seq) # {}
          /\ page.send = "sent" => page.seq \in past.toldIn
          /\ \A i \in DOMAIN page.atts : page.atts[i].seq = page.seq
    /\ Total(page.atts) <= MaxTotal
    /\ past.dropped = {}

\* A mail told as sent was taken by Resend, and is in the sent folder unless
\* its record failed.  No mail goes out twice, unless the user was told that it
\* failed or not told at all - the window closed on it, or the page reloaded,
\* with the draft perhaps saved once more within the two seconds after "sent".
SentAsTold ==
    /\ \A n \in past.told :
          past.taken[n] > 0 /\ (rows[n] > 0 \/ n \in past.unrecorded)
    /\ \A n \in Texts : rows[n] <= past.taken[n] /\ past.taken[n] <= 1 + past.doubt[n]

\* What the user wrote is in the draft once typing pauses, also after a failed
\* send, so that a reload takes no more than the last words and the files; and
\* a mail that was sent or given up leaves no draft when its window closes.
DraftKeepsUp ==
    /\ page.visible /\ past.kept /\ ~page.timer /\ (page.to \/ page.text # 0) =>
          draft = Saved(page)
    /\ past.closed => draft = None
=============================================================================
