---------------------------- MODULE ComposeProofs ----------------------------
(***************************************************************************)
(* Proofs of SentAsTold and DraftKeepsUp (Compose.tla) for every number of *)
(* mails, openings, requests, faults and reloads: no mail goes out twice   *)
(* unless the user was told that it failed, or not told at all, and the    *)
(* draft holds what the form says.                                         *)
(*                                                                         *)
(* The argument for the first: a mail has one request for free and one     *)
(* more for every doubt.  The invariant counts, per mail, what Resend took *)
(* and what may still reach it (Out), and says who may send the mail once  *)
(* more: a form or a draft that holds it while nobody waits for it, unless *)
(* the form says "sent" of it.                                             *)
(***************************************************************************)
EXTENDS Compose, FiniteSetTheorems, SequenceTheorems, WellFoundedInduction,
        TLAPS

(***************************************************************************)
(* The invariant                                                           *)
(***************************************************************************)
Stages == {"posted", "taken", "yes", "no"}

Requests == [id : Nat, seq : Nat, text : Texts, stage : Stages, lost : BOOLEAN]

\* The types of the fields the proof reads; the others are what they are.
IsPage(p) ==
    p \in [seq : Nat, visible : BOOLEAN, to : BOOLEAN, text : Texts, atts : {p.atts},
           send : {"idle", "sending", "sent"}, alert : {p.alert}, bar : BOOLEAN,
           timer : BOOLEAN, confirm : BOOLEAN, closing : {p.closing}, picks : {p.picks}]

PastType ==
    past \in [told : SUBSET Texts, toldIn : {past.toldIn}, taken : [Texts -> Nat],
              doubt : [Texts -> Nat], unrecorded : SUBSET Texts, kept : {past.kept},
              closed : {past.closed}, dropped : {past.dropped}]

SendTypes ==
    /\ IsPage(page) /\ PastType
    /\ draft \in Content \cup {None}
    /\ reqs \in SUBSET Requests /\ IsFiniteSet(reqs)
    /\ rows \in [Texts -> Nat]
    /\ spent \in [opens : Nat, texts : Texts, picks : Nat, sends : Nat, faults : Nat, reloads : Nat]

\* The requests for a mail that Resend may still take, and that it took.
Posted(n)   == {r \in reqs : r.text = n /\ r.stage = "posted"}
AtResend(n) == {r \in reqs : r.text = n /\ r.stage = "taken"}

\* How often a mail went out, or still may.
Out(n) == past.taken[n] + Cardinality(Posted(n))

\* The requests the window waits for.
Asking == Waiting(page.seq)

Awaited(n) == \E r \in Asking : r.text = n

\* The form or the draft holds a mail.
Holds(n) == n # 0 /\ (n = page.text \/ (draft # None /\ n = draft.text))

Done(n) == page.send = "sent" /\ n \in past.told

Recorded(n) == past.taken[n] > 0 /\ (rows[n] > 0 \/ n \in past.unrecorded)

\* Texts and requests are numbered; what has no number yet is nowhere.
Numbered ==
    /\ \A r \in reqs : r.id < spent.sends /\ r.text # 0 /\ r.text <= spent.texts
    /\ \A r, s \in reqs : r.id = s.id => r = s
    /\ page.text <= spent.texts /\ (draft # None => draft.text <= spent.texts)
    /\ \A n \in Texts : n > spent.texts => past.taken[n] = 0

\* The window waits for the answer to one request at most, and says so; an
\* open one has a number to wait under.
OneAwaited ==
    /\ page.visible => page.seq # 0
    /\ \A r \in reqs : r.seq <= page.seq
    /\ \A r, s \in Asking : r = s
    /\ Asking # {} => page.visible /\ page.send = "sending"

\* A closed window saves no draft, and leaves none of a mail that was sent; a
\* draft that is offered is there.
DraftInStep ==
    /\ ~page.visible => ~page.timer /\ (page.send = "sent" => draft = None)
    /\ page.bar => draft # None

Limited == \A n \in Texts : Out(n) <= 1 + past.doubt[n]

\* Who may send a mail once more has it to spare.
Spare == \A n \in Texts : Holds(n) /\ ~Awaited(n) /\ ~Done(n) => Out(n) <= past.doubt[n]

\* A mail that was refused did not go out for that request.
Refused ==
    \A r \in Asking : r.stage = "no" /\ ~r.lost => Out(r.text) <= past.doubt[r.text]

Kept ==
    /\ \A n \in Texts : rows[n] + Cardinality(AtResend(n)) <= past.taken[n]
    /\ \A r \in reqs : /\ r.stage = "taken" => past.taken[r.text] > 0
                       /\ r.stage = "yes" => Recorded(r.text)
    /\ \A n \in past.told : Recorded(n)

SendInv ==
    /\ SendTypes /\ Numbered /\ OneAwaited /\ DraftInStep
    /\ Limited /\ Spare /\ Refused /\ Kept

(***************************************************************************)
(* What the steps leave alone                                              *)
(***************************************************************************)
\* What is counted.
Books == <<reqs, rows, past.told, past.taken, past.doubt, past.unrecorded>>

LEMMA TextsAreNumbers ==
  /\ MaxTexts \in Nat /\ MaxOpens \in Nat /\ MaxSends \in Nat /\ MaxPicks \in Nat
  /\ MaxFaults \in Nat /\ MaxReloads \in Nat
  /\ Texts = 0 .. MaxTexts /\ Texts \subseteq Nat /\ 0 \in Texts /\ None \notin Content
  BY ComposeAssumption DEF ComposeAssumption, Texts, Content

\* A bound that is used counts up by one, and the others stay.
LEMMA UsedFields ==
  ASSUME SendTypes, NEW what \in {"opens", "picks", "sends", "faults", "reloads"},
         NEW most \in Nat, Used(what, most)
  PROVE  /\ spent' \in [opens : Nat, texts : Texts, picks : Nat, sends : Nat,
                         faults : Nat, reloads : Nat]
         /\ spent'.texts = spent.texts
         /\ spent'.sends = IF what = "sends" THEN spent.sends + 1 ELSE spent.sends
  BY DEF SendTypes, Used

LEMMA UsedText ==
  ASSUME SendTypes, Used("texts", MaxTexts)
  PROVE  /\ spent' \in [opens : Nat, texts : Texts, picks : Nat, sends : Nat,
                         faults : Nat, reloads : Nat]
         /\ spent'.texts = spent.texts + 1 /\ spent.texts + 1 \in Texts
         /\ spent'.sends = spent.sends
  <1>1. spent.texts \in Texts /\ spent.texts < MaxTexts
    BY DEF SendTypes, Used
  <1>2. spent.texts + 1 \in Texts
    BY <1>1, TextsAreNumbers
  <1>3. spent' = [spent EXCEPT !.texts = spent.texts + 1]
    BY DEF Used
  <1> QED
    BY <1>2, <1>3 DEF SendTypes

\* Reading files changes the attachments and the files being read only.
LEMMA ReadOnFields ==
  ASSUME NEW p, IsPage(p), NEW pick
  PROVE  LET q == ReadOn(p, pick) IN
         /\ IsPage(q) /\ q.seq = p.seq /\ q.visible = p.visible /\ q.text = p.text
         /\ q.send = p.send /\ q.timer = p.timer /\ q.bar = p.bar /\ q.to = p.to
  BY DEF ReadOn, IsPage

LEMMA AttachedFields ==
  ASSUME NEW p, IsPage(p), NEW f
  PROVE  LET q == Attached(p, f) IN
         /\ IsPage(q) /\ q.seq = p.seq /\ q.visible = p.visible /\ q.text = p.text
         /\ q.send = p.send /\ q.timer = p.timer /\ q.bar = p.bar /\ q.to = p.to
  BY DEF Attached, IsPage

\* A step within one opening that sends nothing and answers nothing.
Quiet ==
    /\ UNCHANGED Books /\ SendTypes'
    /\ page'.seq = page.seq /\ page'.visible = page.visible /\ page'.send = page.send
    /\ spent.texts <= spent'.texts /\ spent'.sends = spent.sends
    /\ (page'.timer => page.visible) /\ (draft' # draft => page.visible)
    /\ (page'.bar => draft' # None)
    /\ page'.text <= spent'.texts /\ (draft' # None => draft'.text <= spent'.texts)
    /\ \A n \in Texts : Holds(n)' => Holds(n) \/ n > spent.texts

LEMMA EditsFields ==
  ASSUME SendTypes, NEW p, IsPage(p), Edits(p)
  PROVE  /\ UNCHANGED Books /\ PastType' /\ IsPage(page') /\ page' = p /\ page.visible
         /\ UNCHANGED draft
  BY DEF Edits, AtForm, SendTypes, PastType, Books

\* An edit shows a mail that was there before, none, or a new one.
LEMMA EditsQuiet ==
  ASSUME SendInv, NEW p, IsPage(p), Edits(p),
         p.seq = page.seq, p.visible = page.visible, p.send = page.send, p.bar => page.bar,
         spent' \in [opens : Nat, texts : Texts, picks : Nat, sends : Nat,
                     faults : Nat, reloads : Nat],
         spent.texts <= spent'.texts, spent'.sends = spent.sends,
         \/ p.text = 0 \/ p.text = page.text
         \/ draft # None /\ p.text = draft.text
         \/ p.text > spent.texts /\ p.text <= spent'.texts
  PROVE  Quiet
  <1>1. /\ UNCHANGED Books /\ PastType' /\ IsPage(page') /\ page' = p /\ page.visible
        /\ UNCHANGED draft
    BY EditsFields DEF SendInv
  <1>2. SendTypes' /\ (page'.bar => draft' # None)
    BY <1>1 DEF SendInv, SendTypes, Books, DraftInStep
  <1>3. spent.texts \in Nat /\ spent'.texts \in Nat /\ p.text \in Nat /\ page.text \in Nat
        /\ (draft # None => draft.text \in Nat)
    BY TextsAreNumbers DEF SendInv, SendTypes, IsPage, Content
  <1>4. page'.text <= spent'.texts /\ (draft' # None => draft'.text <= spent'.texts)
    BY <1>1, <1>3 DEF SendInv, Numbered
  <1>5. \A n \in Texts : Holds(n)' => Holds(n) \/ n > spent.texts
    BY <1>1 DEF Holds
  <1> QED
    BY <1>1, <1>2, <1>4, <1>5 DEF Quiet

LEMMA FormEditsQuiet ==
  ASSUME SendInv, ChangeRecipients \/ TypeText \/ ClearText \/ RestoreDraft
  PROVE  Quiet
  <1>1. CASE ChangeRecipients
    <2> DEFINE p == WithRecipients(page, ~page.to)
    <2>1. /\ IsPage(p) /\ p.seq = page.seq /\ p.visible = page.visible /\ p.send = page.send
          /\ p.text = page.text /\ (p.bar => page.bar)
      BY DEF WithRecipients, SaveDraft, SendInv, SendTypes, IsPage
    <2>2. UNCHANGED spent /\ Edits(p)
      BY <1>1 DEF ChangeRecipients
    <2> QED
      BY <2>1, <2>2, EditsQuiet, TextsAreNumbers DEF SendInv, SendTypes
  <1>2. CASE TypeText
    <2> DEFINE p == Typed(page, spent.texts + 1)
    <2>1. /\ Used("texts", MaxTexts) /\ Edits(p)
      BY <1>2 DEF TypeText
    <2>2. /\ spent' \in [opens : Nat, texts : Texts, picks : Nat, sends : Nat,
                          faults : Nat, reloads : Nat]
          /\ spent'.texts = spent.texts + 1 /\ spent.texts + 1 \in Texts
          /\ spent'.sends = spent.sends /\ spent.texts \in Nat
      BY <2>1, UsedText, TextsAreNumbers DEF SendInv, SendTypes
    <2>3. /\ IsPage(p) /\ p.seq = page.seq /\ p.visible = page.visible /\ p.send = page.send
          /\ p.text = spent.texts + 1 /\ (p.bar => page.bar)
      BY <2>2 DEF Typed, SaveDraft, SendInv, SendTypes, IsPage
    <2>4. spent.texts <= spent'.texts /\ p.text > spent.texts /\ p.text <= spent'.texts
      BY <2>2, <2>3
    <2> HIDE DEF p
    <2> QED
      BY <2>1, <2>2, <2>3, <2>4, EditsQuiet
  <1>3. CASE ClearText
    <2> DEFINE p == Typed(page, 0)
    <2>1. /\ IsPage(p) /\ p.seq = page.seq /\ p.visible = page.visible /\ p.send = page.send
          /\ p.text = 0 /\ (p.bar => page.bar)
      BY TextsAreNumbers DEF Typed, SaveDraft, SendInv, SendTypes, IsPage
    <2>2. UNCHANGED spent /\ Edits(p)
      BY <1>3 DEF ClearText
    <2> QED
      BY <2>1, <2>2, EditsQuiet, TextsAreNumbers DEF SendInv, SendTypes
  <1>4. CASE RestoreDraft
    <2> DEFINE p == SaveDraft([page EXCEPT !.to = draft.to, !.text = draft.text, !.bar = FALSE])
    <2>1. page.bar /\ UNCHANGED spent /\ Edits(p)
      BY <1>4 DEF RestoreDraft, Edits
    <2>2. CASE draft # None
      <3>1. draft.to \in BOOLEAN /\ draft.text \in Texts
        BY <2>2 DEF SendInv, SendTypes, Content
      <3>2. /\ IsPage(p) /\ p.seq = page.seq /\ p.visible = page.visible /\ p.send = page.send
            /\ p.text = draft.text /\ (p.bar => page.bar)
        BY <3>1 DEF SaveDraft, SendInv, SendTypes, IsPage
      <3> QED
        BY <2>1, <2>2, <3>2, EditsQuiet, TextsAreNumbers DEF SendInv, SendTypes
    <2> QED
      BY <2>1, <2>2 DEF SendInv, DraftInStep
  <1> QED
    BY <1>1, <1>2, <1>3, <1>4

LEMMA DraftQuiet ==
  ASSUME SendInv, DraftTimer \/ DiscardFoundDraft
  PROVE  Quiet
  <1>1. /\ page'.seq = page.seq /\ page'.visible = page.visible /\ page'.send = page.send
        /\ page'.text = page.text /\ (page'.timer => page.visible) /\ IsPage(page')
        /\ (page'.bar => draft' # None) /\ (draft' # draft => page.visible)
    <2>1. CASE DraftTimer /\ Dirty(page)
      <3>1. page' = [page EXCEPT !.timer = FALSE] /\ draft' = Saved(page) /\ page.timer
        BY <2>1 DEF DraftTimer
      <3>2. Saved(page) \in Content
        BY DEF Saved, Content, SendInv, SendTypes, IsPage
      <3> QED
        BY <3>1, <3>2, TextsAreNumbers DEF SendInv, SendTypes, IsPage, DraftInStep
    <2>2. CASE DraftTimer /\ ~Dirty(page)
      <3>1. page' = [DiscardDraft(page) EXCEPT !.timer = FALSE] /\ page.timer
        BY <2>2 DEF DraftTimer
      <3> QED
        BY <3>1 DEF DiscardDraft, SendInv, SendTypes, IsPage, DraftInStep
    <2>3. CASE DiscardFoundDraft
      <3>1. page' = DiscardDraft(page) /\ page.visible
        BY <2>3 DEF DiscardFoundDraft, AtForm
      <3> QED
        BY <3>1 DEF DiscardDraft, SendInv, SendTypes, IsPage
    <2> QED
      BY <2>1, <2>2, <2>3
  <1>2. UNCHANGED spent /\ UNCHANGED Books /\ PastType'
    BY DEF DraftTimer, DiscardFoundDraft, Books, SendInv, SendTypes, PastType
  <1>3. draft' = None \/ (draft' \in Content /\ draft'.text = page.text)
    <2>1. draft' = None \/ draft' = Saved(page)
      BY DEF DraftTimer, DiscardFoundDraft
    <2> QED
      BY <2>1 DEF Saved, Content, SendInv, SendTypes, IsPage
  <1>4. SendTypes'
    BY <1>1, <1>2, <1>3 DEF SendInv, SendTypes, Books
  <1>5. spent.texts \in Nat /\ page.text <= spent.texts
    BY TextsAreNumbers DEF SendInv, SendTypes, Numbered
  <1>6. \A n \in Texts : Holds(n)' => Holds(n)
    BY <1>1, <1>3 DEF Holds
  <1> QED
    BY <1>1, <1>2, <1>3, <1>4, <1>5, <1>6 DEF Quiet

\* Everything but the mail: files, the dialog, an alert, a timer that is late.
LEMMA PageQuiet ==
  ASSUME SendInv, IsPage(page'), UNCHANGED <<draft, Books>>, PastType',
         page'.seq = page.seq, page'.visible = page.visible, page'.send = page.send,
         page'.text = page.text, page'.timer => page.timer, page'.bar => page.bar,
         spent' \in [opens : Nat, texts : Texts, picks : Nat, sends : Nat,
                     faults : Nat, reloads : Nat],
         spent'.texts = spent.texts, spent'.sends = spent.sends
  PROVE  Quiet
  <1>1. SendTypes'
    BY DEF SendInv, SendTypes, Books
  <1>2. spent.texts \in Nat /\ page.text <= spent.texts
        /\ (draft # None => draft.text <= spent.texts)
    BY TextsAreNumbers DEF SendInv, SendTypes, Numbered
  <1>3. \A n \in Texts : Holds(n)' => Holds(n)
    BY DEF Holds
  <1> QED
    BY <1>1, <1>2, <1>3 DEF Quiet, SendInv, DraftInStep

LEMMA FilesQuiet ==
  ASSUME SendInv,
         \/ \E files \in Lists : PickFiles(files)
         \/ \E pick \in page.picks, ok \in BOOLEAN : ReadEnds(pick, ok)
         \/ \E i \in DOMAIN page.atts : RemoveAttachment(i)
  PROVE  Quiet
  <1>0. IsPage(page)
    BY DEF SendInv, SendTypes
  <1>1. ASSUME NEW files \in Lists, PickFiles(files) PROVE Quiet
    <2> DEFINE pick == [id |-> spent.picks, seq |-> page.seq, files |-> files]
    <2>1. /\ page' = ReadOn(page, pick) /\ Used("picks", MaxPicks)
          /\ UNCHANGED <<draft, reqs, rows, past>>
      BY <1>1 DEF PickFiles
    <2> HIDE DEF pick
    <2>2. /\ IsPage(page') /\ page'.seq = page.seq /\ page'.visible = page.visible
          /\ page'.text = page.text /\ page'.send = page.send /\ page'.timer = page.timer
          /\ page'.bar = page.bar
      BY <1>0, <2>1, ReadOnFields
    <2>3. /\ UNCHANGED <<draft, Books>> /\ PastType'
      BY <2>1 DEF Books, SendInv, SendTypes, PastType
    <2> QED
      BY <2>1, <2>2, <2>3, UsedFields, PageQuiet, TextsAreNumbers DEF SendInv
  <1>2. ASSUME NEW pick \in page.picks, NEW ok \in BOOLEAN, ReadEnds(pick, ok) PROVE Quiet
    <2> DEFINE p == [page EXCEPT !.picks = @ \ {pick}]
               q == IF ok THEN Attached(p, Head(pick.files)) ELSE p
               rest == [pick EXCEPT !.files = Tail(@)]
    <2>1. /\ page' = p \/ page' = ReadOn(q, rest)
          /\ UNCHANGED <<draft, reqs, rows, past, spent>>
      BY <1>2 DEF ReadEnds
    <2>2. /\ IsPage(p) /\ p.seq = page.seq /\ p.visible = page.visible /\ p.text = page.text
          /\ p.send = page.send /\ p.timer = page.timer /\ p.bar = page.bar
      BY <1>0 DEF IsPage
    <2> HIDE DEF p
    <2>3. /\ IsPage(q) /\ q.seq = p.seq /\ q.visible = p.visible /\ q.text = p.text
          /\ q.send = p.send /\ q.timer = p.timer /\ q.bar = p.bar /\ q.to = p.to
      BY <2>2, AttachedFields
    <2> HIDE DEF q, rest
    <2>4. /\ IsPage(page') /\ page'.seq = page.seq /\ page'.visible = page.visible
          /\ page'.text = page.text /\ page'.send = page.send /\ page'.timer = page.timer
          /\ page'.bar = page.bar
      BY <2>1, <2>2, <2>3, ReadOnFields
    <2>5. /\ UNCHANGED <<draft, Books>> /\ PastType'
      BY <2>1 DEF Books, SendInv, SendTypes, PastType
    <2> QED
      BY <2>1, <2>4, <2>5, PageQuiet DEF SendInv, SendTypes
  <1>3. ASSUME NEW i \in DOMAIN page.atts, RemoveAttachment(i) PROVE Quiet
    <2>1. /\ page' = [page EXCEPT !.atts = RemoveAt(@, i)]
          /\ UNCHANGED <<draft, reqs, rows, past, spent>>
      BY <1>3 DEF RemoveAttachment
    <2>2. /\ IsPage(page') /\ page'.seq = page.seq /\ page'.visible = page.visible
          /\ page'.text = page.text /\ page'.send = page.send /\ page'.timer = page.timer
          /\ page'.bar = page.bar
      BY <1>0, <2>1 DEF IsPage
    <2>3. /\ UNCHANGED <<draft, Books>> /\ PastType'
      BY <2>1 DEF Books, SendInv, SendTypes, PastType
    <2> QED
      BY <2>1, <2>2, <2>3, PageQuiet DEF SendInv, SendTypes
  <1> QED
    BY <1>1, <1>2, <1>3

\* Every request is a new one.
LEMMA SendsNew ==
  ASSUME SendInv
  PROVE  ~\E r \in reqs : r.id = spent.sends
  BY DEF SendInv, Numbered, SendTypes, Requests

LEMMA SendsChange ==
  ASSUME SendInv, UNCHANGED reqs
  PROVE  ~\E r : r.id = spent.sends /\ reqs' = reqs \cup {r}
  BY SendsNew

LEMMA DialogQuiet ==
  ASSUME SendInv,
         \/ TryClose /\ Dirty(page)
         \/ CancelConfirm
         \/ SendEmail /\ UNCHANGED reqs
         \/ \E seq \in page.closing : AutoClose(seq) /\ ~ClosesItself(seq, page)
  PROVE  Quiet
  <1>1. /\ IsPage(page') /\ page'.seq = page.seq /\ page'.visible = page.visible
        /\ page'.text = page.text /\ page'.send = page.send /\ page'.timer = page.timer
        /\ page'.bar = page.bar
    <2>1. IsPage(page)
      BY DEF SendInv, SendTypes
    <2>2. \/ page' = [page EXCEPT !.confirm = TRUE]
          \/ page' = [page EXCEPT !.confirm = FALSE]
          \/ page' = [page EXCEPT !.alert = "danger"]
          \/ \E seq \in page.closing : page' = [page EXCEPT !.closing = @ \ {seq}]
      <3>1. CASE TryClose /\ Dirty(page)
        BY <3>1 DEF TryClose
      <3>2. CASE CancelConfirm
        BY <3>2 DEF CancelConfirm
      <3>3. CASE SendEmail /\ UNCHANGED reqs
        <4>1. ~\E r : r.id = spent.sends /\ reqs' = reqs \cup {r}
          BY <3>3, SendsChange
        <4> QED
          BY <3>3, <4>1 DEF SendEmail
      <3>4. CASE \E seq \in page.closing : AutoClose(seq) /\ ~ClosesItself(seq, page)
        BY <3>4 DEF AutoClose
      <3> QED
        BY <3>1, <3>2, <3>3, <3>4
    <2> QED
      BY <2>1, <2>2 DEF IsPage
  <1>2. UNCHANGED <<draft, reqs, rows, past, spent>>
    <2>1. CASE TryClose /\ Dirty(page)
      BY <2>1 DEF TryClose
    <2>2. CASE CancelConfirm
      BY <2>2 DEF CancelConfirm
    <2>3. CASE SendEmail /\ UNCHANGED reqs
      <3>1. ~\E r : r.id = spent.sends /\ reqs' = reqs \cup {r}
        BY <2>3, SendsChange
      <3> QED
        BY <2>3, <3>1 DEF SendEmail
    <2>4. CASE \E seq \in page.closing : AutoClose(seq) /\ ~ClosesItself(seq, page)
      BY <2>4 DEF AutoClose
    <2> QED
      BY <2>1, <2>2, <2>3, <2>4
  <1>3. UNCHANGED <<draft, Books>> /\ PastType'
    BY <1>2 DEF Books, SendInv, SendTypes, PastType
  <1> QED
    BY <1>1, <1>2, <1>3, PageQuiet DEF SendInv, SendTypes

(***************************************************************************)
(* Steps that leave the books alone                                        *)
(***************************************************************************)
\* A mail without a number has no request.
LEMMA NewTextUnused ==
  ASSUME SendInv, NEW n \in Texts, n > spent.texts
  PROVE  Out(n) = 0 /\ past.doubt[n] \in Nat
  <1>1. \A r \in reqs : r.text \in Nat /\ r.text <= spent.texts /\ spent.texts \in Nat
    BY TextsAreNumbers DEF SendInv, SendTypes, Numbered, Requests
  <1>2. Posted(n) = {}
    BY <1>1 DEF Posted
  <1>3. past.taken[n] = 0 /\ past.doubt[n] \in Nat
    BY DEF SendInv, Numbered, SendTypes, PastType
  <1> QED
    BY <1>2, <1>3, FS_EmptySet DEF Out

LEMMA BooksKept ==
  ASSUME SendInv, UNCHANGED Books, SendTypes', Numbered', OneAwaited', DraftInStep',
         \A r \in Asking' : r \in Asking,
         \A n \in Texts : Holds(n)' /\ ~Awaited(n)' /\ ~Done(n)' =>
                            (Holds(n) /\ ~Awaited(n) /\ ~Done(n)) \/ n > spent.texts
  PROVE  SendInv'
  <1>1. \A n \in Texts : /\ Out(n)' = Out(n) /\ past'.doubt[n] = past.doubt[n]
                          /\ past'.taken[n] = past.taken[n]
                          /\ AtResend(n)' = AtResend(n) /\ (Recorded(n)' <=> Recorded(n))
    BY DEF Out, Posted, AtResend, Recorded, Books
  <1>2. Limited'
    BY <1>1 DEF SendInv, Limited
  <1>3. Spare'
    <2> SUFFICES ASSUME NEW n \in Texts, Holds(n)', ~Awaited(n)', ~Done(n)'
                 PROVE  Out(n)' <= past'.doubt[n]
      BY DEF Spare
    <2>1. CASE n > spent.texts
      BY <1>1, <2>1, NewTextUnused
    <2>2. CASE Holds(n) /\ ~Awaited(n) /\ ~Done(n)
      BY <1>1, <2>2 DEF SendInv, Spare
    <2> QED
      BY <2>1, <2>2
  <1>4. Refused'
    <2> SUFFICES ASSUME NEW r \in Asking', r.stage = "no", ~r.lost
                 PROVE  Out(r.text)' <= past'.doubt[r.text]
      BY DEF Refused
    <2>1. r.text \in Texts
      BY DEF Asking, Waiting, SendInv, SendTypes, Requests
    <2> QED
      BY <1>1, <2>1 DEF SendInv, Refused
  <1>5. Kept'
    <2>1. \A r \in reqs : r.text \in Texts
      BY DEF SendInv, SendTypes, Requests
    <2>2. past.told \subseteq Texts
      BY DEF SendInv, SendTypes, PastType
    <2> QED
      BY <1>1, <2>1, <2>2 DEF SendInv, Kept, Books
  <1> QED
    BY <1>2, <1>3, <1>4, <1>5 DEF SendInv

LEMMA QuietKeeps ==
  ASSUME SendInv, Quiet
  PROVE  SendInv'
  <1>1. reqs' = reqs /\ page'.seq = page.seq /\ past'.told = past.told
        /\ past'.taken = past.taken
    BY DEF Quiet, Books
  <1>2. Asking' = Asking
    BY <1>1 DEF Asking, Waiting
  <1>3. Numbered'
    <2>1. /\ \A r \in reqs : r.id < spent.sends /\ r.text # 0 /\ r.text <= spent.texts
          /\ \A r \in reqs : r.text \in Nat
          /\ spent.texts \in Nat /\ spent'.texts \in Nat /\ spent.texts <= spent'.texts
          /\ spent'.sends = spent.sends
      BY TextsAreNumbers DEF Quiet, SendInv, SendTypes, Numbered, Requests
    <2>2. \A r \in reqs : r.text <= spent'.texts
      BY <2>1
    <2>3. \A n \in Texts : n > spent'.texts => past'.taken[n] = 0
      BY <1>1, <2>1, TextsAreNumbers DEF SendInv, Numbered
    <2> QED
      BY <1>1, <2>1, <2>2, <2>3 DEF Quiet, SendInv, Numbered
  <1>4. OneAwaited'
    BY <1>1, <1>2 DEF OneAwaited, SendInv, Quiet
  <1>5. DraftInStep'
    BY DEF SendInv, DraftInStep, Quiet
  <1>6. \A n \in Texts : Holds(n)' /\ ~Awaited(n)' /\ ~Done(n)' =>
                            (Holds(n) /\ ~Awaited(n) /\ ~Done(n)) \/ n > spent.texts
    BY <1>1, <1>2 DEF Quiet, Awaited, Done
  <1> QED
    BY <1>2, <1>3, <1>4, <1>5, <1>6, BooksKept DEF Quiet

LEMMA BlankFields ==
  ASSUME NEW seq \in Nat
  PROVE  LET b == Blank(seq) IN
         /\ IsPage(b) /\ b.seq = seq /\ ~b.visible /\ b.send = "idle" /\ b.text = 0
         /\ ~b.bar /\ ~b.timer
  BY TextsAreNumbers DEF Blank, IsPage

LEMMA ResetFields ==
  ASSUME SendTypes
  PROVE  LET b == ResetForm(page) IN
         /\ IsPage(b) /\ b.seq = page.seq + 1 /\ b.visible /\ b.send = "idle" /\ b.text = 0
         /\ ~b.bar
  <1> DEFINE b == Blank(NextSeq(page))
  <1>1. NextSeq(page) = page.seq + 1 /\ page.seq + 1 \in Nat
    BY DEF NextSeq, SendTypes, IsPage
  <1>2. /\ IsPage(b) /\ b.seq = page.seq + 1 /\ b.send = "idle" /\ b.text = 0 /\ ~b.bar
    BY <1>1, BlankFields
  <1> HIDE DEF b
  <1>3. ResetForm(page) = [b EXCEPT !.closing = page.closing, !.picks = page.picks,
                                    !.visible = TRUE]
    BY DEF ResetForm, b
  <1> QED
    BY <1>2, <1>3 DEF IsPage

\* A window that opens waits for nothing, and shows no old mail.
LEMMA OpensKeeps ==
  ASSUME SendInv, OpenCompose \/ \E to \in BOOLEAN : OpenVariant(to)
  PROVE  SendInv'
  <1>1. /\ ~page.visible /\ UNCHANGED <<draft, reqs, rows>>
        /\ UNCHANGED Books /\ PastType'
    BY DEF OpenCompose, OpenVariant, Opens, Books, SendInv, SendTypes, PastType
  <1>2. /\ spent' \in [opens : Nat, texts : Texts, picks : Nat, sends : Nat,
                        faults : Nat, reloads : Nat]
        /\ spent.texts <= spent'.texts /\ spent'.sends = spent.sends
        /\ \/ OpenCompose \/ spent'.texts = spent.texts + 1
    <2>1. CASE OpenCompose
      BY SMTT(40), <2>1, UsedFields, TextsAreNumbers DEF OpenCompose, SendInv, SendTypes
    <2>2. ASSUME NEW to \in BOOLEAN, OpenVariant(to)
          PROVE  /\ spent' \in [opens : Nat, texts : Texts, picks : Nat, sends : Nat,
                                 faults : Nat, reloads : Nat]
                 /\ spent'.texts = spent.texts + 1 /\ spent'.sends = spent.sends
                 /\ spent.texts <= spent'.texts
      <3>1. /\ spent.texts < MaxTexts /\ spent.texts \in Texts /\ spent.opens \in Nat
            /\ spent' = [spent EXCEPT !.opens = spent.opens + 1, !.texts = spent.texts + 1]
        BY <2>2 DEF OpenVariant, SendInv, SendTypes
      <3>2. spent.texts + 1 \in Texts /\ spent.texts <= spent.texts + 1 /\ spent.opens + 1 \in Nat
        BY <3>1, TextsAreNumbers
      <3> QED
        BY <3>1, <3>2 DEF SendInv, SendTypes
    <2> QED
      BY <2>1, <2>2
  <1>3. /\ IsPage(page') /\ page'.seq = page.seq + 1 /\ page'.visible /\ page'.send = "idle"
        /\ page'.text = 0 \/ (~OpenCompose /\ page'.text = spent.texts + 1)
        /\ (page'.bar => draft # None)
    <2>1. CASE OpenCompose
      <3>1. page' = [ResetForm(page) EXCEPT !.bar = draft # None]
        BY <2>1 DEF OpenCompose, Opens
      <3> DEFINE b == ResetForm(page)
      <3>2. /\ IsPage(b) /\ b.seq = page.seq + 1 /\ b.visible /\ b.send = "idle" /\ b.text = 0
        BY ResetFields DEF SendInv
      <3> HIDE DEF b
      <3>3. page' = [b EXCEPT !.bar = draft # None]
        BY <3>1 DEF b
      <3> QED
        BY <3>2, <3>3 DEF IsPage
    <2>2. ASSUME NEW to \in BOOLEAN, OpenVariant(to), ~OpenCompose
          PROVE  /\ IsPage(page') /\ page'.seq = page.seq + 1 /\ page'.visible
                 /\ page'.send = "idle" /\ page'.text = spent.texts + 1 /\ ~page'.bar
      <3>1. /\ page' = [ResetForm(page) EXCEPT !.to = to, !.text = spent.texts + 1]
            /\ spent.texts + 1 \in Texts
        BY <1>2, <2>2 DEF OpenVariant, Opens
      <3> DEFINE b == ResetForm(page)
      <3>2. /\ IsPage(b) /\ b.seq = page.seq + 1 /\ b.visible /\ b.send = "idle" /\ ~b.bar
        BY ResetFields DEF SendInv
      <3> HIDE DEF b
      <3>3. page' = [b EXCEPT !.to = to, !.text = spent.texts + 1]
        BY <3>1 DEF b
      <3> QED
        BY <3>1, <3>2, <3>3 DEF IsPage
    <2> QED
      BY <2>1, <2>2
  <1>4. SendTypes'
    BY <1>1, <1>2, <1>3 DEF SendInv, SendTypes
  <1>5. /\ \A r \in reqs : r.seq \in Nat /\ r.seq <= page.seq /\ r.text \in Nat
        /\ page.seq \in Nat /\ spent.texts \in Nat /\ spent'.texts \in Nat
        /\ (draft # None => draft.text \in Nat)
    BY <1>2, TextsAreNumbers DEF SendInv, SendTypes, OneAwaited, Requests, IsPage, Content
  <1>6. Asking' = {}
    BY <1>1, <1>3, <1>5 DEF Asking, Waiting
  <1>7. Numbered'
    <2>1. \A r \in reqs' : r.id < spent'.sends /\ r.text # 0 /\ r.text <= spent'.texts
      BY <1>1, <1>2, <1>5 DEF SendInv, Numbered
    <2>2. page'.text <= spent'.texts /\ (draft' # None => draft'.text <= spent'.texts)
      BY <1>1, <1>2, <1>3, <1>5 DEF SendInv, Numbered
    <2>3. \A n \in Texts : n > spent'.texts => past'.taken[n] = 0
      BY <1>1, <1>2, <1>5, TextsAreNumbers DEF SendInv, Numbered, Books
    <2> QED
      BY <1>1, <2>1, <2>2, <2>3 DEF SendInv, Numbered
  <1>8. OneAwaited'
    <2>1. \A r \in reqs' : r.seq <= page'.seq
      BY <1>1, <1>3, <1>5
    <2> QED
      BY <1>3, <1>5, <1>6, <2>1 DEF OneAwaited, Asking
  <1>9. DraftInStep'
    BY <1>1, <1>3 DEF DraftInStep
  <1>10. ASSUME NEW n \in Texts, Holds(n)', ~Awaited(n)', ~Done(n)'
         PROVE  (Holds(n) /\ ~Awaited(n) /\ ~Done(n)) \/ n > spent.texts
    <2>1. CASE n = page'.text
      BY <1>3, <1>5, <1>10, <2>1 DEF Holds
    <2>2. CASE draft # None /\ n = draft.text
      <3>1. Asking = {} /\ page.send # "sent"
        BY <1>1, <2>2 DEF SendInv, OneAwaited, DraftInStep
      <3> QED
        BY <1>10, <2>2, <3>1 DEF Holds, Awaited, Done
    <2> QED
      BY <1>1, <1>10, <2>1, <2>2 DEF Holds
  <1> QED
    BY <1>1, <1>4, <1>6, <1>7, <1>8, <1>9, <1>10, BooksKept

(***************************************************************************)
(* Steps after which nobody waits any more                                 *)
(***************************************************************************)
LEMMA OutType ==
  ASSUME SendTypes, NEW n \in Texts
  PROVE  /\ Out(n) \in Nat /\ past.taken[n] \in Nat /\ past.doubt[n] \in Nat /\ rows[n] \in Nat
         /\ IsFiniteSet(Posted(n)) /\ Cardinality(Posted(n)) \in Nat
         /\ IsFiniteSet(AtResend(n)) /\ Cardinality(AtResend(n)) \in Nat
  <1>1. IsFiniteSet(reqs) /\ Posted(n) \subseteq reqs /\ AtResend(n) \subseteq reqs
    BY DEF SendTypes, Posted, AtResend
  <1>2. /\ IsFiniteSet(Posted(n)) /\ Cardinality(Posted(n)) \in Nat
        /\ IsFiniteSet(AtResend(n)) /\ Cardinality(AtResend(n)) \in Nat
    BY <1>1, FS_Subset, FS_CardinalityType
  <1>3. past.taken[n] \in Nat /\ past.doubt[n] \in Nat /\ rows[n] \in Nat
    BY DEF SendTypes, PastType
  <1> QED
    BY <1>2, <1>3 DEF Out

LEMMA OutTypeNext ==
  ASSUME SendTypes', NEW n \in Texts
  PROVE  Out(n)' \in Nat /\ Cardinality(AtResend(n)') \in Nat
  <1>1. IsFiniteSet(reqs') /\ Posted(n)' \subseteq reqs' /\ AtResend(n)' \subseteq reqs'
    BY DEF SendTypes, Posted, AtResend
  <1>2. Cardinality(Posted(n)') \in Nat /\ Cardinality(AtResend(n)') \in Nat
    BY <1>1, FS_Subset, FS_CardinalityType
  <1>3. past'.taken[n] \in Nat
    BY DEF SendTypes, PastType
  <1> QED
    BY <1>2, <1>3 DEF Out

LEMMA DoubtGrows ==
  ASSUME SendTypes, NEW n \in Texts
  PROVE  /\ InDoubt(Asking)[n] \in Nat /\ InDoubt(Asking)[n] >= past.doubt[n]
         /\ Awaited(n) => InDoubt(Asking)[n] >= past.doubt[n] + 1
  <1> DEFINE G == {r \in Asking : r.text = n}
  <1>1. IsFiniteSet(reqs) /\ G \subseteq reqs
    BY DEF SendTypes, Asking, Waiting
  <1>2. IsFiniteSet(G) /\ Cardinality(G) \in Nat
    BY <1>1, FS_Subset, FS_CardinalityType
  <1>3. Awaited(n) => Cardinality(G) # 0
    BY <1>2, FS_EmptySet DEF Awaited
  <1>4. InDoubt(Asking)[n] = past.doubt[n] + Cardinality(G)
    BY DEF InDoubt
  <1> HIDE DEF G
  <1> QED
    BY <1>2, <1>3, <1>4, OutType

LEMMA CloseKeeps ==
  ASSUME SendInv, NEW p, IsPage(p), p.seq = page.seq, p.text = page.text, p.send = page.send,
         NEW by, Close(p, by)
  PROVE  SendInv'
  <1>1. /\ IsPage(page') /\ page'.seq = page.seq + 1 /\ page'.text = page.text
        /\ page'.send = page.send /\ ~page'.timer /\ ~page'.visible /\ ~page'.bar
    <2>1. page' = Closed(p) /\ p.seq \in Nat
      BY DEF Close, IsPage
    <2>2. page' = [p EXCEPT !.seq = p.seq + 1, !.timer = FALSE, !.visible = FALSE, !.bar = FALSE]
      BY <2>1 DEF Closed, NextSeq
    <2>3. p.seq + 1 \in Nat
      BY <2>1
    <2> QED
      BY <2>2, <2>3 DEF IsPage
  <1>2. draft' = None /\ UNCHANGED <<reqs, rows, spent>>
    BY DEF Close
  <1>3. /\ PastType' /\ past'.told = past.told /\ past'.taken = past.taken
        /\ past'.unrecorded = past.unrecorded /\ past'.doubt = InDoubt(Asking)
    <2>1. InDoubt(Asking) \in [Texts -> Nat]
      <3>1. \A n \in Texts : InDoubt(Asking)[n] \in Nat
        BY DoubtGrows DEF SendInv
      <3> QED
        BY <3>1 DEF InDoubt
    <2>2. \E d : past' = [past EXCEPT !.doubt = InDoubt(Asking), !.closed = TRUE, !.dropped = d]
      BY DEF Close, Asking
    <2> QED
      BY <2>1, <2>2 DEF SendInv, SendTypes, PastType
  <1>4. SendTypes'
    BY <1>1, <1>2, <1>3 DEF SendInv, SendTypes
  <1>5. Asking' = {}
    <2>1. \A r \in reqs : r.seq \in Nat /\ r.seq <= page.seq /\ page.seq \in Nat
      BY DEF SendInv, SendTypes, OneAwaited, Requests, IsPage
    <2>2. \A r \in reqs : r.seq # page.seq + 1
      BY <2>1
    <2> QED
      BY <1>1, <1>2, <2>2 DEF Asking, Waiting
  <1>6. Numbered'
    BY <1>1, <1>2, <1>3 DEF SendInv, Numbered
  <1>7. OneAwaited'
    <2>1. \A r \in reqs : r.seq \in Nat /\ r.seq <= page.seq /\ page.seq \in Nat
      BY DEF SendInv, SendTypes, OneAwaited, Requests, IsPage
    <2>2. \A r \in reqs : r.seq <= page.seq + 1
      BY <2>1
    <2> QED
      BY <1>1, <1>2, <1>5, <2>2 DEF OneAwaited, Asking
  <1>8. DraftInStep'
    BY <1>1, <1>2 DEF DraftInStep
  <1>9. \A n \in Texts : /\ Out(n)' = Out(n) /\ past'.taken[n] = past.taken[n]
                          /\ AtResend(n)' = AtResend(n) /\ (Recorded(n)' <=> Recorded(n))
    BY <1>2, <1>3 DEF Out, Posted, AtResend, Recorded
  <1>10. ASSUME NEW n \in Texts
        PROVE  /\ past'.doubt[n] \in Nat /\ past'.doubt[n] >= past.doubt[n]
               /\ Awaited(n) => past'.doubt[n] >= past.doubt[n] + 1
    BY <1>3, DoubtGrows DEF SendInv
  <1>11. Limited'
    <2> SUFFICES ASSUME NEW n \in Texts PROVE Out(n)' <= 1 + past'.doubt[n]
      BY DEF Limited
    <2>1. Out(n) <= 1 + past.doubt[n]
      BY DEF SendInv, Limited
    <2>2. Out(n) \in Nat /\ past.doubt[n] \in Nat
      BY OutType DEF SendInv
    <2>3. Out(n)' = Out(n)
      BY <1>9
    <2>4. past'.doubt[n] \in Nat /\ past'.doubt[n] >= past.doubt[n]
      BY <1>10
    <2> QED
      BY <2>1, <2>2, <2>3, <2>4
  <1>12. Spare'
    <2> SUFFICES ASSUME NEW n \in Texts, Holds(n)', ~Done(n)'
                 PROVE  Out(n)' <= past'.doubt[n]
      BY DEF Spare
    <2>1. Holds(n) /\ ~Done(n)
      BY <1>1, <1>2, <1>3 DEF Holds, Done
    <2>2. Out(n) <= 1 + past.doubt[n] /\ (~Awaited(n) => Out(n) <= past.doubt[n])
      BY <2>1 DEF SendInv, Limited, Spare
    <2>3. Out(n) \in Nat /\ past.doubt[n] \in Nat
      BY OutType DEF SendInv
    <2> QED
      BY <1>9, <1>10, <2>2, <2>3
  <1>13. Refused'
    BY <1>5 DEF Refused
  <1>14. Kept'
    <2>1. \A r \in reqs : r.text \in Texts
      BY DEF SendInv, SendTypes, Requests
    <2>2. past.told \subseteq Texts
      BY DEF SendInv, SendTypes, PastType
    <2> QED
      BY <1>2, <1>3, <1>9, <2>1, <2>2, Zenon DEF SendInv, Kept
  <1> QED
    BY <1>4, <1>6, <1>7, <1>8, <1>11, <1>12, <1>13, <1>14 DEF SendInv

LEMMA ImageNotLarger ==
  ASSUME NEW S, IsFiniteSet(S), NEW T, NEW f \in [S -> T], \A t \in T : \E x \in S : f[x] = t
  PROVE  IsFiniteSet(T) /\ Cardinality(T) <= Cardinality(S)
  <1>1. f \in Surjection(S, T)
    BY DEF Surjection
  <1> QED
    BY <1>1, FS_Surjection

\* A reload forgets who waited for a request, and nothing else about it.
LEMMA ReloadRequests ==
  ASSUME SendTypes, Reload
  PROVE  /\ reqs' \in SUBSET Requests /\ IsFiniteSet(reqs')
         /\ \A q \in reqs' : \E r \in reqs :
               /\ q.seq = 0 /\ q.id = r.id /\ q.text = r.text /\ q.stage = r.stage
               /\ q = [r EXCEPT !.seq = 0]
         /\ \A n \in Texts : /\ Cardinality(Posted(n)') <= Cardinality(Posted(n))
                             /\ Cardinality(AtResend(n)') <= Cardinality(AtResend(n))
                             /\ Cardinality(Posted(n)') \in Nat
                             /\ Cardinality(AtResend(n)') \in Nat
  <1> DEFINE f == [r \in reqs |-> [r EXCEPT !.seq = 0]]
  <1>1. reqs' = {[r EXCEPT !.seq = 0] : r \in reqs}
    BY DEF Reload
  <1>2. \A r \in reqs : /\ f[r] \in Requests /\ f[r].seq = 0 /\ f[r].id = r.id
                         /\ f[r].text = r.text /\ f[r].stage = r.stage
    BY DEF SendTypes, Requests
  <1>3. \A q \in reqs' : \E r \in reqs : q = f[r]
    BY <1>1
  <1>4. \A r \in reqs : f[r] \in reqs' /\ f[r] = [r EXCEPT !.seq = 0]
    BY <1>1
  <1>5. IsFiniteSet(reqs')
    <2>1. f \in [reqs -> reqs'] /\ IsFiniteSet(reqs)
      BY <1>4 DEF SendTypes
    <2> HIDE DEF f
    <2> QED
      BY <1>3, <2>1, ImageNotLarger
  <1>6. ASSUME NEW n \in Texts
        PROVE  /\ Cardinality(Posted(n)') <= Cardinality(Posted(n))
               /\ Cardinality(AtResend(n)') <= Cardinality(AtResend(n))
               /\ Cardinality(Posted(n)') \in Nat
               /\ Cardinality(AtResend(n)') \in Nat
    <2> DEFINE g == [r \in Posted(n) |-> f[r]]
               h == [r \in AtResend(n) |-> f[r]]
    <2> HIDE DEF f
    <2>1. g \in [Posted(n) -> Posted(n)'] /\ h \in [AtResend(n) -> AtResend(n)']
      BY <1>2, <1>4 DEF Posted, AtResend
    <2>2. /\ \A q \in Posted(n)' : \E r \in Posted(n) : g[r] = q
          /\ \A q \in AtResend(n)' : \E r \in AtResend(n) : h[r] = q
      BY <1>2, <1>3 DEF Posted, AtResend
    <2>3. IsFiniteSet(Posted(n)) /\ IsFiniteSet(AtResend(n))
      BY OutType
    <2> HIDE DEF g, h
    <2>4. IsFiniteSet(Posted(n)') /\ Cardinality(Posted(n)') <= Cardinality(Posted(n))
      BY <2>1, <2>2, <2>3, ImageNotLarger
    <2>5. IsFiniteSet(AtResend(n)') /\ Cardinality(AtResend(n)') <= Cardinality(AtResend(n))
      BY <2>1, <2>2, <2>3, ImageNotLarger
    <2> QED
      BY <2>4, <2>5, FS_CardinalityType
  <1> HIDE DEF f
  <1>7. reqs' \in SUBSET Requests
    BY <1>2, <1>3
  <1>8. ASSUME NEW q \in reqs'
        PROVE  \E r \in reqs : /\ q.seq = 0 /\ q.id = r.id /\ q.text = r.text /\ q.stage = r.stage
                               /\ q = [r EXCEPT !.seq = 0]
    <2>1. PICK r \in reqs : q = f[r]
      BY <1>3
    <2> QED
      BY <1>2, <1>4, <2>1
  <1> QED
    BY <1>5, <1>6, <1>7, <1>8

LEMMA ReloadKeeps ==
  ASSUME SendInv, Reload
  PROVE  SendInv'
  <1> DEFINE stale == IF draft # None THEN {draft.text} \cap past.told ELSE {}
             doubt == [n \in Texts |-> InDoubt(Asking)[n] + IF n \in stale THEN 1 ELSE 0]
  <1>1. /\ IsPage(page') /\ page'.seq = 0 /\ page'.text = 0 /\ page'.send = "idle"
        /\ ~page'.timer /\ ~page'.visible /\ ~page'.bar
    BY BlankFields DEF Reload
  <1>2. UNCHANGED <<draft, rows>> /\ Used("reloads", MaxReloads)
    BY DEF Reload
  <1>3. ASSUME NEW n \in Texts
        PROVE  /\ doubt[n] \in Nat /\ doubt[n] >= past.doubt[n]
               /\ Awaited(n) \/ n \in stale => doubt[n] >= past.doubt[n] + 1
    <2>1. doubt[n] = InDoubt(Asking)[n] + IF n \in stale THEN 1 ELSE 0
      OBVIOUS
    <2>2. /\ InDoubt(Asking)[n] \in Nat /\ InDoubt(Asking)[n] >= past.doubt[n]
          /\ Awaited(n) => InDoubt(Asking)[n] >= past.doubt[n] + 1
      BY DoubtGrows DEF SendInv
    <2>3. past.doubt[n] \in Nat
      BY OutType DEF SendInv
    <2> HIDE DEF stale, doubt
    <2> QED
      BY <2>1, <2>2, <2>3
  <1>4. /\ PastType' /\ past'.told = past.told /\ past'.taken = past.taken
        /\ past'.unrecorded = past.unrecorded /\ past'.doubt = doubt
    <2>1. past' = [past EXCEPT !.toldIn = {}, !.kept = FALSE, !.closed = FALSE, !.doubt = doubt]
      BY DEF Reload, Asking
    <2>2. doubt \in [Texts -> Nat]
      BY <1>3
    <2> HIDE DEF doubt
    <2> QED
      BY <2>1, <2>2 DEF SendInv, SendTypes, PastType
  <1> HIDE DEF doubt
  <1>5. /\ spent' \in [opens : Nat, texts : Texts, picks : Nat, sends : Nat,
                        faults : Nat, reloads : Nat]
        /\ spent'.texts = spent.texts /\ spent'.sends = spent.sends
    BY <1>2, UsedFields, TextsAreNumbers DEF SendInv
  <1>6. SendTypes'
    BY <1>1, <1>2, <1>4, <1>5, ReloadRequests DEF SendInv, SendTypes
  <1>7. /\ Asking' = {} /\ \A q \in reqs' : q.seq <= page'.seq
    BY <1>1, ReloadRequests DEF SendInv, Asking, Waiting
  <1>8. Numbered'
    <2>1. \A q \in reqs' : q.id < spent'.sends /\ q.text # 0 /\ q.text <= spent'.texts
      BY <1>5, ReloadRequests DEF SendInv, Numbered
    <2>2. ASSUME NEW q \in reqs', NEW u \in reqs', q.id = u.id PROVE q = u
      <3>1. PICK r \in reqs : q.id = r.id /\ q = [r EXCEPT !.seq = 0]
        BY ReloadRequests DEF SendInv
      <3>2. PICK v \in reqs : u.id = v.id /\ u = [v EXCEPT !.seq = 0]
        BY ReloadRequests DEF SendInv
      <3>3. r = v
        BY <2>2, <3>1, <3>2 DEF SendInv, Numbered
      <3> QED
        BY <3>1, <3>2, <3>3
    <2>3. spent.texts \in Nat
      BY TextsAreNumbers DEF SendInv, SendTypes
    <2>4. page'.text <= spent'.texts /\ (draft' # None => draft'.text <= spent'.texts)
      BY <1>1, <1>2, <1>5, <2>3 DEF SendInv, Numbered
    <2>5. \A n \in Texts : n > spent'.texts => past'.taken[n] = 0
      BY <1>4, <1>5 DEF SendInv, Numbered
    <2> QED
      BY <2>1, <2>2, <2>4, <2>5 DEF Numbered
  <1>9. OneAwaited' /\ DraftInStep'
    BY <1>1, <1>7 DEF OneAwaited, DraftInStep, Asking
  <1>10. ASSUME NEW n \in Texts PROVE Out(n)' \in Nat /\ Out(n)' <= Out(n)
    <2>1. Out(n)' = past'.taken[n] + Cardinality(Posted(n)')
      BY DEF Out
    <2>2. /\ past'.taken[n] = past.taken[n] /\ past.taken[n] \in Nat
          /\ Cardinality(Posted(n)') \in Nat /\ Cardinality(Posted(n)) \in Nat
          /\ Cardinality(Posted(n)') <= Cardinality(Posted(n))
      BY <1>4, ReloadRequests, OutType DEF SendInv
    <2> QED
      BY <2>1, <2>2 DEF Out
  <1>11. ASSUME NEW n \in Texts
         PROVE  /\ Out(n) \in Nat /\ past.doubt[n] \in Nat /\ Out(n) <= 1 + past.doubt[n]
                /\ past'.doubt[n] \in Nat /\ past'.doubt[n] >= past.doubt[n]
                /\ Awaited(n) \/ n \in stale => past'.doubt[n] >= past.doubt[n] + 1
    BY <1>3, <1>4, OutType DEF SendInv, Limited
  <1>12. Limited'
    <2> SUFFICES ASSUME NEW n \in Texts PROVE Out(n)' <= 1 + past'.doubt[n]
      BY DEF Limited
    <2> QED
      BY <1>10, <1>11
  <1>13. Spare'
    <2> SUFFICES ASSUME NEW n \in Texts, Holds(n)'
                 PROVE  Out(n)' <= past'.doubt[n]
      BY DEF Spare
    <2>1. Holds(n) /\ draft # None /\ n = draft.text
      BY <1>1, <1>2 DEF Holds
    <2>2. CASE Awaited(n) \/ n \in stale
      BY <1>10, <1>11, <2>2
    <2>3. CASE ~Awaited(n) /\ n \notin stale
      <3>1. ~Done(n)
        BY <2>1, <2>3 DEF Done
      <3>2. Out(n) <= past.doubt[n]
        BY <2>1, <2>3, <3>1 DEF SendInv, Spare
      <3> QED
        BY <1>10, <1>11, <3>2
    <2> QED
      BY <2>2, <2>3
  <1>14. Refused'
    BY <1>7 DEF Refused
  <1>15. Kept'
    <2>1. \A n \in Texts : Recorded(n)' <=> Recorded(n)
      BY <1>2, <1>4 DEF Recorded
    <2>2. ASSUME NEW n \in Texts PROVE rows'[n] + Cardinality(AtResend(n)') <= past'.taken[n]
      <3>1. /\ rows'[n] = rows[n] /\ past'.taken[n] = past.taken[n]
            /\ rows[n] \in Nat /\ past.taken[n] \in Nat
            /\ Cardinality(AtResend(n)') \in Nat /\ Cardinality(AtResend(n)) \in Nat
            /\ Cardinality(AtResend(n)') <= Cardinality(AtResend(n))
        BY <1>2, <1>4, ReloadRequests, OutType DEF SendInv
      <3>2. rows[n] + Cardinality(AtResend(n)) <= past.taken[n]
        BY DEF SendInv, Kept
      <3> QED
        BY <3>1, <3>2
    <2>3. ASSUME NEW q \in reqs'
          PROVE  /\ q.stage = "taken" => past'.taken[q.text] > 0
                 /\ q.stage = "yes" => Recorded(q.text)'
      <3>1. PICK r \in reqs : q.text = r.text /\ q.stage = r.stage
        BY ReloadRequests DEF SendInv
      <3>2. r.text \in Texts
        BY DEF SendInv, SendTypes, Requests
      <3>3. /\ r.stage = "taken" => past.taken[r.text] > 0
            /\ r.stage = "yes" => Recorded(r.text)
        BY DEF SendInv, Kept
      <3> QED
        BY <1>4, <2>1, <3>1, <3>2, <3>3
    <2>4. \A n \in past'.told : Recorded(n)'
      BY <1>4, <2>1 DEF SendInv, SendTypes, PastType, Kept
    <2> QED
      BY <2>2, <2>3, <2>4 DEF Kept
  <1> QED
    BY <1>6, <1>8, <1>9, <1>12, <1>13, <1>14, <1>15 DEF SendInv

(***************************************************************************)
(* Steps of the server                                                     *)
(***************************************************************************)
\* A request gets on.
LEMMA BecomesFields ==
  ASSUME SendInv, NEW r \in reqs, NEW stage \in Stages \ {"posted"}, r.stage # stage,
         NEW lost \in BOOLEAN, NEW new, new = [r EXCEPT !.stage = stage, !.lost = lost],
         Becomes(r, new)
  PROVE  /\ reqs' \in SUBSET Requests /\ IsFiniteSet(reqs')
         /\ new \in reqs' /\ new \notin reqs /\ \A q \in reqs' : q \in reqs \/ q = new
         /\ new.id = r.id /\ new.seq = r.seq /\ new.text = r.text /\ new.stage = stage
         /\ new.lost = lost
         /\ \A q, u \in reqs' : q.id = u.id => q = u
  <1>1. reqs' = (reqs \ {r}) \cup {new} /\ r \in Requests /\ IsFiniteSet(reqs)
    BY DEF Becomes, SendInv, SendTypes
  <1>2. /\ new.id = r.id /\ new.seq = r.seq /\ new.text = r.text /\ new.stage = stage
        /\ new.lost = lost /\ new \in Requests
    BY <1>1 DEF Requests
  <1>3. \A q, u \in reqs : q.id = u.id => q = u
    BY DEF SendInv, Numbered
  <1>4. new \notin reqs
    BY <1>2, <1>3
  <1>5. IsFiniteSet(reqs')
    BY <1>1, FS_AddElement, FS_RemoveElement
  <1>6. reqs' \in SUBSET Requests
    BY <1>1, <1>2 DEF SendInv, SendTypes
  <1>7. ASSUME NEW q \in reqs', NEW u \in reqs', q.id = u.id PROVE q = u
    <2>1. \A x \in reqs' : x = new \/ (x \in reqs /\ x # r)
      BY <1>1
    <2>2. CASE q = new /\ u # new
      <3>1. u \in reqs /\ u # r /\ u.id = r.id
        BY <1>2, <1>7, <2>1, <2>2
      <3> QED
        BY <1>3, <3>1
    <2>3. CASE u = new /\ q # new
      <3>1. q \in reqs /\ q # r /\ q.id = r.id
        BY <1>2, <1>7, <2>1, <2>3
      <3> QED
        BY <1>3, <3>1
    <2>4. CASE q # new /\ u # new
      BY <1>3, <1>7, <2>1, <2>4
    <2> QED
      BY <2>2, <2>3, <2>4
  <1> QED
    BY <1>1, <1>2, <1>4, <1>5, <1>6, <1>7

\* It counts as what it has become.
LEMMA BecomesCounts ==
  ASSUME SendInv, NEW r \in reqs, NEW stage \in Stages \ {"posted"}, r.stage # stage,
         NEW lost \in BOOLEAN, NEW new, new = [r EXCEPT !.stage = stage, !.lost = lost],
         Becomes(r, new), NEW n \in Texts
  PROVE  /\ Cardinality(Posted(n)') =
               IF n = r.text /\ r.stage = "posted" THEN Cardinality(Posted(n)) - 1
               ELSE Cardinality(Posted(n))
         /\ Cardinality(AtResend(n)') =
               IF n = r.text /\ stage = "taken" THEN Cardinality(AtResend(n)) + 1
               ELSE IF n = r.text /\ r.stage = "taken" THEN Cardinality(AtResend(n)) - 1
               ELSE Cardinality(AtResend(n))
  <1>1. reqs' = (reqs \ {r}) \cup {new} /\ r \in reqs
    BY DEF Becomes
  <1>2. /\ new.id = r.id /\ new.seq = r.seq /\ new.text = r.text /\ new.stage = stage
        /\ new \notin reqs
    <2>1. new.id = r.id /\ new.seq = r.seq /\ new.text = r.text /\ new.stage = stage
      BY DEF SendInv, SendTypes, Requests
    <2>2. \A q, u \in reqs : q.id = u.id => q = u
      BY DEF SendInv, Numbered
    <2> QED
      BY <2>1, <2>2
  <1>3. Cardinality(Posted(n)') =
           IF n = r.text /\ r.stage = "posted" THEN Cardinality(Posted(n)) - 1
           ELSE Cardinality(Posted(n))
    <2>1. IsFiniteSet(Posted(n))
      BY OutType DEF SendInv
    <2>2. CASE n = r.text /\ r.stage = "posted"
      <3>1. Posted(n)' = Posted(n) \ {r} /\ r \in Posted(n)
        BY <1>1, <1>2, <2>2 DEF Posted
      <3> QED
        BY <2>1, <2>2, <3>1, FS_RemoveElement
    <2>3. CASE ~(n = r.text /\ r.stage = "posted")
      <3>1. Posted(n)' = Posted(n)
        BY <1>1, <1>2, <2>3 DEF Posted
      <3> QED
        BY <2>3, <3>1
    <2> QED
      BY <2>2, <2>3
  <1>4. Cardinality(AtResend(n)') =
           IF n = r.text /\ stage = "taken" THEN Cardinality(AtResend(n)) + 1
           ELSE IF n = r.text /\ r.stage = "taken" THEN Cardinality(AtResend(n)) - 1
           ELSE Cardinality(AtResend(n))
    <2>1. IsFiniteSet(AtResend(n))
      BY OutType DEF SendInv
    <2>2. CASE n = r.text /\ stage = "taken"
      <3>1. AtResend(n)' = AtResend(n) \cup {new} /\ new \notin AtResend(n)
        BY <1>1, <1>2, <2>2 DEF AtResend
      <3> QED
        BY <2>1, <2>2, <3>1, FS_AddElement
    <2>3. CASE n = r.text /\ r.stage = "taken"
      <3>1. AtResend(n)' = AtResend(n) \ {r} /\ r \in AtResend(n)
        BY <1>1, <1>2, <2>3 DEF AtResend
      <3> QED
        BY <2>1, <2>3, <3>1, FS_RemoveElement
    <2>4. CASE ~(n = r.text /\ (stage = "taken" \/ r.stage = "taken"))
      <3>1. AtResend(n)' = AtResend(n)
        BY <1>1, <1>2, <2>4 DEF AtResend
      <3> QED
        BY <2>4, <3>1
    <2> QED
      BY <2>2, <2>3, <2>4
  <1> QED
    BY <1>3, <1>4

LEMMA ServerKeeps ==
  ASSUME SendInv, NEW r \in reqs, NEW stage \in Stages \ {"posted"}, r.stage # stage,
         NEW lost \in BOOLEAN, NEW new, new = [r EXCEPT !.stage = stage, !.lost = lost],
         Becomes(r, new), UNCHANGED <<page, draft>>, PastType', rows' \in [Texts -> Nat],
         past'.told = past.told, past'.doubt = past.doubt,
         spent' \in [opens : Nat, texts : Texts, picks : Nat, sends : Nat,
                     faults : Nat, reloads : Nat],
         spent'.texts = spent.texts, spent'.sends = spent.sends,
         \A n \in Texts : n > spent.texts => past'.taken[n] = 0,
         \A n \in Texts : Out(n)' <= Out(n),
         stage = "no" /\ ~lost => Out(r.text)' <= Out(r.text) - 1,
         Kept'
  PROVE  SendInv'
  <1>1. /\ reqs' \in SUBSET Requests /\ IsFiniteSet(reqs')
        /\ new \in reqs' /\ \A q \in reqs' : q \in reqs \/ q = new
        /\ new.id = r.id /\ new.seq = r.seq /\ new.text = r.text /\ new.stage = stage
        /\ new.lost = lost
        /\ \A q, u \in reqs' : q.id = u.id => q = u
        /\ reqs' = (reqs \ {r}) \cup {new} /\ r.text \in Texts
    BY BecomesFields DEF Becomes, SendInv, SendTypes, Requests
  <1>2. SendTypes'
    BY <1>1 DEF SendInv, SendTypes
  <1>3. Numbered'
    BY ZenonT(60), <1>1 DEF SendInv, Numbered
  <1>4. \A q : q \in Asking' <=> (q \in Asking /\ q # r) \/ (q = new /\ r \in Asking)
    BY <1>1 DEF Asking, Waiting
  <1>5. OneAwaited'
    <2>1. \A q \in reqs' : q.seq <= page'.seq
      BY <1>1 DEF SendInv, OneAwaited
    <2>2. Asking # {} => page'.visible /\ page'.send = "sending"
      BY DEF SendInv, OneAwaited, Asking
    <2>3. ASSUME NEW q \in Asking', NEW u \in Asking' PROVE q = u
      <3>1. \A x, y \in Asking : x = y
        BY DEF SendInv, OneAwaited, Asking
      <3> QED
        BY <1>4, <3>1
    <2>4. Asking' # {} => Asking # {}
      BY <1>4
    <2> QED
      BY <2>1, <2>2, <2>3, <2>4 DEF SendInv, OneAwaited, Asking
  <1>6. DraftInStep'
    BY DEF SendInv, DraftInStep
  <1>7. ASSUME NEW n \in Texts
        PROVE  (Awaited(n)' <=> Awaited(n)) /\ (Holds(n)' <=> Holds(n)) /\ (Done(n)' <=> Done(n))
    <2>1. ASSUME NEW q \in Asking, q.text = n PROVE \E u \in Asking' : u.text = n
      BY <1>1, <1>4, <2>1
    <2>2. ASSUME NEW q \in Asking', q.text = n PROVE \E u \in Asking : u.text = n
      <3>1. CASE q \in Asking
        BY <2>2, <3>1
      <3>2. CASE q = new /\ r \in Asking
        BY <1>1, <2>2, <3>2
      <3> QED
        BY <1>4, <3>1, <3>2
    <2>3. Holds(n)' <=> Holds(n)
      BY DEF Holds
    <2>4. Done(n)' <=> Done(n)
      BY DEF Done
    <2> QED
      BY <2>1, <2>2, <2>3, <2>4 DEF Awaited
  <1>8. ASSUME NEW n \in Texts
        PROVE  /\ Out(n) \in Nat /\ Out(n)' \in Nat /\ past.doubt[n] \in Nat
               /\ Out(n)' <= Out(n) /\ past'.doubt[n] = past.doubt[n]
    <2>1. Out(n)' \in Nat
      BY <1>2, OutTypeNext
    <2> QED
      BY <2>1, OutType DEF SendInv
  <1>9. Limited'
    <2> SUFFICES ASSUME NEW n \in Texts PROVE Out(n)' <= 1 + past'.doubt[n]
      BY DEF Limited
    <2>1. Out(n) <= 1 + past.doubt[n]
      BY DEF SendInv, Limited
    <2> QED
      BY <1>8, <2>1
  <1>10. Spare'
    <2> SUFFICES ASSUME NEW n \in Texts, Holds(n)', ~Awaited(n)', ~Done(n)'
                 PROVE  Out(n)' <= past'.doubt[n]
      BY DEF Spare
    <2>1. Out(n) <= past.doubt[n]
      BY <1>7 DEF SendInv, Spare
    <2> QED
      BY <1>8, <2>1
  <1>11. Refused'
    <2> SUFFICES ASSUME NEW q \in Asking', q.stage = "no", ~q.lost
                 PROVE  Out(q.text)' <= past'.doubt[q.text]
      BY DEF Refused
    <2>1. CASE q \in Asking
      <3>1. q.text \in Texts /\ Out(q.text) <= past.doubt[q.text]
        BY <2>1 DEF SendInv, SendTypes, Requests, Refused, Asking, Waiting
      <3> QED
        BY <1>8, <3>1
    <2>2. CASE q = new
      <3>1. Out(r.text)' <= Out(r.text) - 1 /\ Out(r.text) <= 1 + past.doubt[r.text]
        BY <1>1, <2>2 DEF SendInv, Limited
      <3> QED
        BY <1>1, <1>8, <2>2, <3>1
    <2> QED
      BY <1>4, <2>1, <2>2
  <1> QED
    BY <1>2, <1>3, <1>5, <1>6, <1>9, <1>10, <1>11 DEF SendInv

LEMMA TakesKeeps ==
  ASSUME SendInv, NEW r \in reqs, Takes(r)
  PROVE  SendInv'
  <1> DEFINE new == [r EXCEPT !.stage = "taken", !.lost = r.lost]
  <1>1. /\ r \in Requests /\ r.text \in Texts /\ r.lost \in BOOLEAN /\ r.stage = "posted"
    BY DEF SendInv, SendTypes, Requests, Takes
  <1>2. Becomes(r, new)
    <2>1. [r EXCEPT !.stage = "taken"] = new
      BY <1>1 DEF Requests
    <2> QED
      BY <2>1 DEF Takes
  <1>3. /\ PastType' /\ past'.told = past.told /\ past'.doubt = past.doubt
        /\ past'.unrecorded = past.unrecorded
        /\ past'.taken = [past.taken EXCEPT ![r.text] = past.taken[r.text] + 1]
    BY <1>1 DEF Takes, SendInv, SendTypes, PastType
  <1>4. UNCHANGED <<page, draft, rows, spent>>
    BY DEF Takes
  <1> HIDE DEF new
  <1>5. ASSUME NEW n \in Texts
        PROVE  /\ past'.taken[n] = IF n = r.text THEN past.taken[n] + 1 ELSE past.taken[n]
               /\ Cardinality(Posted(n)') = IF n = r.text THEN Cardinality(Posted(n)) - 1
                                            ELSE Cardinality(Posted(n))
               /\ Cardinality(AtResend(n)') = IF n = r.text THEN Cardinality(AtResend(n)) + 1
                                              ELSE Cardinality(AtResend(n))
               /\ past.taken[n] \in Nat /\ rows[n] \in Nat
               /\ Cardinality(Posted(n)) \in Nat /\ Cardinality(AtResend(n)) \in Nat
    <2>1. past'.taken[n] = IF n = r.text THEN past.taken[n] + 1 ELSE past.taken[n]
      BY <1>1, <1>3 DEF SendInv, SendTypes, PastType
    <2>2. "taken" \in Stages \ {"posted"} /\ new = [r EXCEPT !.stage = "taken", !.lost = r.lost]
      BY DEF Stages, new
    <2>3. /\ Cardinality(Posted(n)') = IF n = r.text /\ r.stage = "posted"
                                        THEN Cardinality(Posted(n)) - 1
                                        ELSE Cardinality(Posted(n))
          /\ Cardinality(AtResend(n)') = IF n = r.text 
                                          THEN Cardinality(AtResend(n)) + 1
                                          ELSE IF n = r.text /\ r.stage = "taken"
                                          THEN Cardinality(AtResend(n)) - 1
                                          ELSE Cardinality(AtResend(n))
      BY <1>1, <1>2, <2>2, BecomesCounts
    <2>4. /\ past.taken[n] \in Nat /\ rows[n] \in Nat
          /\ Cardinality(Posted(n)) \in Nat /\ Cardinality(AtResend(n)) \in Nat
      BY OutType DEF SendInv
    <2> QED
      BY <1>1, <2>1, <2>3, <2>4
  <1>6. \A n \in Texts : Out(n)' <= Out(n)
    <2> SUFFICES ASSUME NEW n \in Texts PROVE Out(n)' <= Out(n)
      OBVIOUS
    <2>1. past'.taken[n] + Cardinality(Posted(n)') <= past.taken[n] + Cardinality(Posted(n))
      BY <1>5
    <2> QED
      BY <2>1 DEF Out
  <1>7. \A n \in Texts : n > spent.texts => past'.taken[n] = 0
    <2>1. r.text \in Nat /\ r.text <= spent.texts /\ spent.texts \in Nat
      BY <1>1, TextsAreNumbers DEF SendInv, SendTypes, Numbered
    <2>2. \A n \in Texts : n > spent.texts => n # r.text
      BY <2>1, TextsAreNumbers
    <2> QED
      BY <1>5, <2>2 DEF SendInv, Numbered
  <1>8. Kept'
    <2>1. ASSUME NEW n \in Texts PROVE rows'[n] + Cardinality(AtResend(n)') <= past'.taken[n]
      <3>1. rows[n] + Cardinality(AtResend(n)) <= past.taken[n]
        BY DEF SendInv, Kept
      <3> QED
        BY <1>4, <1>5, <3>1
    <2>2. ASSUME NEW n \in Texts PROVE past.taken[n] > 0 => past'.taken[n] > 0
      BY <1>5
    <2>3. ASSUME NEW n \in Texts, Recorded(n) PROVE Recorded(n)'
      BY <1>3, <1>4, <2>2, <2>3 DEF Recorded
    <2>4. ASSUME NEW q \in reqs'
          PROVE  /\ q.stage = "taken" => past'.taken[q.text] > 0
                 /\ q.stage = "yes" => Recorded(q.text)'
      <3>1. CASE q \in reqs
        BY <2>2, <2>3, <3>1 DEF SendInv, SendTypes, Requests, Kept
      <3>2. CASE q = new
        <4>1. q.text = r.text /\ q.stage = "taken"
          BY <1>1, <3>2 DEF new, Requests
        <4> QED
          BY <1>1, <1>5, <4>1
      <3> QED
        BY <1>2, <3>1, <3>2 DEF Becomes
    <2>5. \A n \in past'.told : Recorded(n)'
      BY <1>3, <2>3 DEF SendInv, SendTypes, PastType, Kept
    <2> QED
      BY <2>1, <2>4, <2>5 DEF Kept
  <1>9. "taken" \in Stages \ {"posted"} /\ new = [r EXCEPT !.stage = "taken", !.lost = r.lost]
    BY DEF Stages, new
  <1>10. rows' \in [Texts -> Nat]
         /\ spent' \in [opens : Nat, texts : Texts, picks : Nat, sends : Nat,
                         faults : Nat, reloads : Nat]
         /\ spent'.texts = spent.texts /\ spent'.sends = spent.sends
    BY <1>4 DEF SendInv, SendTypes
  <1> QED
    BY <1>1, <1>2, <1>3, <1>4, <1>6, <1>7, <1>8, <1>9, <1>10, ServerKeeps

LEMMA FailsKeeps ==
  ASSUME SendInv, NEW r \in reqs, Fails(r)
  PROVE  SendInv'
  <1> DEFINE lost == r.stage # "posted"
             new == [r EXCEPT !.stage = "no", !.lost = lost]
  <1>1. /\ r \in Requests /\ r.text \in Texts /\ r.stage # "no" /\ Becomes(r, new)
        /\ lost \in BOOLEAN /\ "no" \in Stages \ {"posted"}
    BY DEF SendInv, SendTypes, Requests, Fails, Stages
  <1>2. UNCHANGED <<page, draft, rows, past>> /\ Used("faults", MaxFaults)
    BY DEF Fails
  <1>3. new.text = r.text /\ new.stage = "no"
    BY <1>1 DEF Requests
  <1>4. new = [r EXCEPT !.stage = "no", !.lost = lost]
    OBVIOUS
  <1>5. lost <=> r.stage # "posted"
    OBVIOUS
  <1> HIDE DEF lost, new
  <1>6. ASSUME NEW n \in Texts
        PROVE  /\ Cardinality(Posted(n)') = IF n = r.text /\ r.stage = "posted"
                                            THEN Cardinality(Posted(n)) - 1
                                            ELSE Cardinality(Posted(n))
               /\ Cardinality(AtResend(n)') <= Cardinality(AtResend(n))
               /\ Cardinality(Posted(n)) \in Nat /\ Cardinality(AtResend(n)) \in Nat
               /\ Cardinality(AtResend(n)') \in Int
    <2>1. /\ Cardinality(Posted(n)') = IF n = r.text /\ r.stage = "posted"
                                       THEN Cardinality(Posted(n)) - 1
                                       ELSE Cardinality(Posted(n))
          /\ Cardinality(AtResend(n)') = IF n = r.text /\ "no" = "taken"
                                         THEN Cardinality(AtResend(n)) + 1
                                         ELSE IF n = r.text /\ r.stage = "taken"
                                         THEN Cardinality(AtResend(n)) - 1
                                         ELSE Cardinality(AtResend(n))
      BY <1>1, <1>4, BecomesCounts
    <2>2. Cardinality(Posted(n)) \in Nat /\ Cardinality(AtResend(n)) \in Nat
      BY OutType DEF SendInv
    <2> QED
      BY <2>1, <2>2
  <1>7. ASSUME NEW n \in Texts
        PROVE  Out(n)' <= Out(n) /\ (n = r.text /\ ~lost => Out(n)' <= Out(n) - 1)
    <2>1. past'.taken[n] = past.taken[n] /\ past.taken[n] \in Nat
      BY <1>2, OutType DEF SendInv
    <2>2. /\ past'.taken[n] + Cardinality(Posted(n)') <= past.taken[n] + Cardinality(Posted(n))
          /\ n = r.text /\ ~lost => past'.taken[n] + Cardinality(Posted(n)')
                                     <= (past.taken[n] + Cardinality(Posted(n))) - 1
      BY <1>5, <1>6, <2>1
    <2> QED
      BY <2>2 DEF Out
  <1>8. Kept'
    <2>1. ASSUME NEW n \in Texts PROVE rows'[n] + Cardinality(AtResend(n)') <= past'.taken[n]
      <3>1. rows[n] + Cardinality(AtResend(n)) <= past.taken[n]
        BY DEF SendInv, Kept
      <3>2. rows[n] \in Nat /\ past.taken[n] \in Nat
        BY OutType DEF SendInv
      <3>3. rows[n] + Cardinality(AtResend(n)') <= past.taken[n]
        BY <1>6, <3>1, <3>2
      <3> QED
        BY <1>2, <3>3
    <2>2. \A n \in Texts : Recorded(n)' <=> Recorded(n)
      BY <1>2 DEF Recorded
    <2>3. ASSUME NEW q \in reqs'
          PROVE  /\ q.stage = "taken" => past'.taken[q.text] > 0
                 /\ q.stage = "yes" => Recorded(q.text)'
      <3>1. CASE q \in reqs
        BY <1>2, <2>2, <3>1 DEF SendInv, SendTypes, Requests, Kept
      <3>2. CASE q = new
        BY <1>3, <3>2
      <3> QED
        BY <1>1, <3>1, <3>2 DEF Becomes
    <2>4. \A n \in past'.told : Recorded(n)'
      BY <1>2, <2>2 DEF SendInv, SendTypes, PastType, Kept
    <2> QED
      BY <2>1, <2>3, <2>4 DEF Kept
  <1>9. /\ PastType' /\ past'.told = past.told /\ past'.doubt = past.doubt
        /\ rows' \in [Texts -> Nat]
        /\ \A n \in Texts : n > spent.texts => past'.taken[n] = 0
    BY <1>2 DEF SendInv, SendTypes, PastType, Numbered
  <1>10. /\ spent' \in [opens : Nat, texts : Texts, picks : Nat, sends : Nat,
                         faults : Nat, reloads : Nat]
         /\ spent'.texts = spent.texts /\ spent'.sends = spent.sends
    BY <1>2, UsedFields, TextsAreNumbers DEF SendInv
  <1>11. /\ \A n \in Texts : Out(n)' <= Out(n)
         /\ "no" = "no" /\ ~lost => Out(r.text)' <= Out(r.text) - 1
    BY <1>1, <1>7
  <1> QED
    BY <1>1, <1>2, <1>4, <1>8, <1>9, <1>10, <1>11, ServerKeeps

LEMMA RecordsKeeps ==
  ASSUME SendInv, NEW r \in reqs, NEW ok \in BOOLEAN, Records(r, ok)
  PROVE  SendInv'
  <1> DEFINE new == [r EXCEPT !.stage = "yes", !.lost = r.lost]
  <1>1. /\ r \in Requests /\ r.text \in Texts /\ r.lost \in BOOLEAN /\ r.stage = "taken"
        /\ "yes" \in Stages \ {"posted"}
    BY DEF SendInv, SendTypes, Requests, Records, Stages
  <1>2. Becomes(r, new) /\ new.text = r.text /\ new.stage = "yes"
    <2>1. [r EXCEPT !.stage = AfterRecord(ok)] = new /\ new.text = r.text /\ new.stage = "yes"
      BY <1>1 DEF Requests, AfterRecord
    <2> QED
      BY <2>1 DEF Records
  <1>3. new = [r EXCEPT !.stage = "yes", !.lost = r.lost]
    OBVIOUS
  <1> HIDE DEF new
  <1>4. UNCHANGED <<page, draft>>
    BY DEF Records
  <1>5. /\ PastType' /\ past'.told = past.told /\ past'.doubt = past.doubt
        /\ past'.taken = past.taken /\ past.unrecorded \subseteq past'.unrecorded
        /\ ~ok => r.text \in past'.unrecorded
    <2>1. CASE ok
      BY <2>1 DEF Records, SendInv, SendTypes, PastType
    <2>2. CASE ~ok
      BY <1>1, <2>2 DEF Records, SendInv, SendTypes, PastType
    <2> QED
      BY <2>1, <2>2
  <1>6. /\ rows' \in [Texts -> Nat]
        /\ \A n \in Texts : /\ rows[n] \in Nat /\ rows'[n] \in Nat
                            /\ rows'[n] >= rows[n] /\ rows'[n] <= rows[n] + 1
                            /\ n # r.text => rows'[n] = rows[n]
        /\ ok => rows'[r.text] = rows[r.text] + 1
    <2>1. rows \in [Texts -> Nat]
      BY DEF SendInv, SendTypes
    <2>2. CASE ok
      <3>1. rows' = [rows EXCEPT ![r.text] = rows[r.text] + 1]
        BY <2>2 DEF Records
      <3> QED
        BY <1>1, <2>1, <3>1
    <2>3. CASE ~ok
      <3>1. rows' = rows
        BY <2>3 DEF Records
      <3> QED
        BY <2>1, <2>3, <3>1
    <2> QED
      BY <2>2, <2>3
  <1>7. /\ spent' \in [opens : Nat, texts : Texts, picks : Nat, sends : Nat,
                        faults : Nat, reloads : Nat]
        /\ spent'.texts = spent.texts /\ spent'.sends = spent.sends
    <2>1. UNCHANGED spent \/ Used("faults", MaxFaults)
      BY DEF Records
    <2> QED
      BY <2>1, UsedFields, TextsAreNumbers DEF SendInv, SendTypes
  <1>8. ASSUME NEW n \in Texts
        PROVE  /\ Cardinality(Posted(n)') = Cardinality(Posted(n))
               /\ Cardinality(AtResend(n)') = IF n = r.text THEN Cardinality(AtResend(n)) - 1
                                              ELSE Cardinality(AtResend(n))
               /\ Cardinality(AtResend(n)) \in Nat /\ Cardinality(Posted(n)) \in Nat
    <2>1. /\ Cardinality(Posted(n)') = IF n = r.text /\ r.stage = "posted"
                                       THEN Cardinality(Posted(n)) - 1
                                       ELSE Cardinality(Posted(n))
          /\ Cardinality(AtResend(n)') = IF n = r.text /\ "yes" = "taken"
                                         THEN Cardinality(AtResend(n)) + 1
                                         ELSE IF n = r.text /\ r.stage = "taken"
                                         THEN Cardinality(AtResend(n)) - 1
                                         ELSE Cardinality(AtResend(n))
      BY <1>1, <1>2, <1>3, BecomesCounts
    <2>2. Cardinality(Posted(n)) \in Nat /\ Cardinality(AtResend(n)) \in Nat
      BY OutType DEF SendInv
    <2> QED
      BY <1>1, <2>1, <2>2
  <1>9. \A n \in Texts : Out(n)' <= Out(n)
    <2> SUFFICES ASSUME NEW n \in Texts PROVE Out(n)' <= Out(n)
      OBVIOUS
    <2>1. past'.taken[n] = past.taken[n] /\ past.taken[n] \in Nat
      BY <1>5, OutType DEF SendInv
    <2>2. past'.taken[n] + Cardinality(Posted(n)') <= past.taken[n] + Cardinality(Posted(n))
      BY <1>8, <2>1
    <2> QED
      BY <2>2 DEF Out
  <1>10. Kept'
    <2>1. ASSUME NEW n \in Texts PROVE rows'[n] + Cardinality(AtResend(n)') <= past'.taken[n]
      <3>1. rows[n] + Cardinality(AtResend(n)) <= past.taken[n]
        BY DEF SendInv, Kept
      <3>2. past.taken[n] \in Nat
        BY OutType DEF SendInv
      <3>3. rows'[n] + Cardinality(AtResend(n)') <= past.taken[n]
        BY <1>6, <1>8, <3>1, <3>2
      <3> QED
        BY <1>5, <3>3
    <2>2. ASSUME NEW n \in Texts, Recorded(n) PROVE Recorded(n)'
      <3>1. rows[n] > 0 => rows'[n] > 0
        BY <1>6
      <3> QED
        BY <1>5, <2>2, <3>1 DEF Recorded
    <2>3. Recorded(r.text)'
      <3>1. past.taken[r.text] > 0
        BY <1>1 DEF SendInv, Kept
      <3>2. ok => rows'[r.text] > 0
        BY <1>1, <1>6
      <3> QED
        BY <1>5, <3>1, <3>2 DEF Recorded
    <2>4. ASSUME NEW q \in reqs'
          PROVE  /\ q.stage = "taken" => past'.taken[q.text] > 0
                 /\ q.stage = "yes" => Recorded(q.text)'
      <3>1. CASE q \in reqs
        <4>1. /\ q.text \in Texts
              /\ q.stage = "taken" => past.taken[q.text] > 0
              /\ q.stage = "yes" => Recorded(q.text)
          BY <3>1 DEF SendInv, SendTypes, Requests, Kept
        <4> QED
          BY <1>5, <2>2, <4>1
      <3>2. CASE q = new
        BY <1>2, <2>3, <3>2
      <3> QED
        BY <1>2, <3>1, <3>2 DEF Becomes
    <2>5. \A n \in past'.told : Recorded(n)'
      BY <1>5, <2>2 DEF SendInv, SendTypes, PastType, Kept
    <2> QED
      BY <2>1, <2>4, <2>5 DEF Kept
  <1>11. \A n \in Texts : n > spent.texts => past'.taken[n] = 0
    BY <1>5 DEF SendInv, Numbered
  <1> QED
    BY <1>1, <1>2, <1>3, <1>4, <1>5, <1>6, <1>7, <1>9, <1>10, <1>11, ServerKeeps

\* The window gets its answer, or nobody waits for it any more.
LEMMA AnswerKeeps ==
  ASSUME SendInv, NEW r \in reqs, Answer(r)
  PROVE  SendInv'
  <1>1. /\ reqs' = reqs \ {r} /\ UNCHANGED <<rows, spent>> /\ r.stage \in {"yes", "no"}
        /\ r \in Requests /\ r.text \in Texts /\ IsPage(page)
    BY DEF Answer, SendInv, SendTypes, Requests
  <1>2. IsLate(r, page) <=> r \notin Asking
    BY DEF IsLate, Asking, Waiting
  <1>3. \/ IsLate(r, page) /\ UNCHANGED <<page, draft, past>>
        \/ /\ ~IsLate(r, page) /\ r.stage = "yes"
           /\ page' = [DiscardDraft(page) EXCEPT !.alert = "success", !.send = "sent",
                                                 !.closing = @ \cup {page.seq}]
           /\ draft' = None
           /\ past' = [past EXCEPT !.told = @ \cup {r.text}, !.toldIn = @ \cup {r.seq},
                                   !.kept = FALSE]
        \/ /\ ~IsLate(r, page) /\ r.stage = "no"
           /\ page' = [page EXCEPT !.alert = "danger", !.send = "idle"]
           /\ draft' = draft
           /\ past' = IF r.lost THEN [past EXCEPT !.doubt[r.text] = @ + 1] ELSE past
    BY DEF Answer, Unsent
  <1>4. /\ IsPage(page') /\ page'.seq = page.seq /\ page'.text = page.text
        /\ page'.visible = page.visible /\ page'.timer = page.timer
        /\ page'.send = IF IsLate(r, page) THEN page.send
                         ELSE IF r.stage = "yes" THEN "sent" ELSE "idle"
        /\ (page'.bar => page.bar /\ draft' = draft) /\ (draft' = None \/ draft' = draft)
        /\ ~IsLate(r, page) /\ r.stage = "yes" => draft' = None
    BY ZenonT(60), <1>1, <1>3 DEF DiscardDraft, IsPage
  <1>5. /\ PastType' /\ past'.taken = past.taken /\ past'.unrecorded = past.unrecorded
        /\ IsLate(r, page) => past'.told = past.told /\ past'.doubt = past.doubt
        /\ ~IsLate(r, page) /\ r.stage = "yes" =>
              past'.told = past.told \cup {r.text} /\ past'.doubt = past.doubt
        /\ ~IsLate(r, page) /\ r.stage = "no" =>
              /\ past'.told = past.told
              /\ past'.doubt = IF r.lost THEN [past.doubt EXCEPT ![r.text] = past.doubt[r.text] + 1]
                               ELSE past.doubt
    <2>1. PastType
      BY DEF SendInv, SendTypes
    <2>2. CASE IsLate(r, page)
      BY <1>3, <2>1, <2>2 DEF PastType
    <2>3. CASE ~IsLate(r, page) /\ r.stage = "yes"
      <3>1. past' = [past EXCEPT !.told = past.told \cup {r.text},
                                 !.toldIn = past.toldIn \cup {r.seq}, !.kept = FALSE]
        BY <1>3, <2>3
      <3>2. past.told \cup {r.text} \in SUBSET Texts
        BY <1>1, <2>1 DEF PastType
      <3> QED
        BY <2>1, <2>3, <3>1, <3>2 DEF PastType
    <2>4. CASE ~IsLate(r, page) /\ r.stage = "no"
      BY <1>1, <1>3, <2>1, <2>4 DEF PastType
    <2> QED
      BY <1>3, <2>2, <2>3, <2>4
  <1>6. SendTypes'
    <2>1. IsFiniteSet(reqs') /\ reqs' \in SUBSET Requests
      BY <1>1, FS_RemoveElement DEF SendInv, SendTypes
    <2> QED
      BY <1>1, <1>4, <1>5, <2>1 DEF SendInv, SendTypes
  <1>7. Numbered'
    <2>1. /\ \A q \in reqs' : q.id < spent'.sends /\ q.text # 0 /\ q.text <= spent'.texts
          /\ \A q, u \in reqs' : q.id = u.id => q = u
      BY <1>1 DEF SendInv, Numbered
    <2>2. page'.text <= spent'.texts /\ (draft' # None => draft'.text <= spent'.texts)
      BY <1>1, <1>4 DEF SendInv, Numbered
    <2>3. \A n \in Texts : n > spent'.texts => past'.taken[n] = 0
      BY <1>1, <1>5 DEF SendInv, Numbered
    <2> QED
      BY <2>1, <2>2, <2>3 DEF Numbered
  <1>8. \A q : q \in Asking' <=> q \in Asking /\ q # r
    BY <1>1, <1>4 DEF Asking, Waiting
  <1>9. /\ \A q \in reqs' : q.seq <= page'.seq
        /\ \A q, u \in Asking' : q = u
        /\ ~IsLate(r, page) => Asking' = {} /\ page.visible /\ page.send = "sending"
        /\ Asking' # {} => page'.visible /\ page'.send = "sending"
    <2>1. /\ \A q \in reqs : q.seq <= page.seq
          /\ \A q, u \in Asking : q = u
          /\ Asking # {} => page.visible /\ page.send = "sending"
      BY DEF SendInv, OneAwaited, Asking
    <2>2. CASE r \in Asking
      <3>1. Asking' = {}
        BY <1>8, <2>1, <2>2
      <3> QED
        BY <1>1, <1>2, <1>4, <2>1, <2>2, <3>1
    <2>3. CASE r \notin Asking
      BY <1>1, <1>2, <1>4, <1>8, <2>1, <2>3
    <2> QED
      BY <2>2, <2>3
  <1>10. OneAwaited'
    BY <1>4, <1>9 DEF SendInv, OneAwaited, Asking
  <1>11. DraftInStep'
    BY <1>4, <1>9 DEF SendInv, DraftInStep
  <1>12. ASSUME NEW n \in Texts
         PROVE  /\ Out(n)' = Out(n) /\ AtResend(n)' = AtResend(n)
                /\ Out(n) \in Nat /\ past.doubt[n] \in Nat /\ past'.doubt[n] \in Nat
                /\ Out(n) <= 1 + past.doubt[n] /\ past'.doubt[n] >= past.doubt[n]
                /\ n = r.text /\ ~IsLate(r, page) /\ r.stage = "no" /\ r.lost =>
                      past'.doubt[n] = past.doubt[n] + 1
    <2>1. Posted(n)' = Posted(n) /\ AtResend(n)' = AtResend(n)
      BY <1>1 DEF Posted, AtResend
    <2>2. Out(n)' = Out(n)
      BY <1>5, <2>1 DEF Out
    <2>3. Out(n) \in Nat /\ past.doubt[n] \in Nat /\ Out(n) <= 1 + past.doubt[n]
      BY OutType DEF SendInv, Limited
    <2>4. /\ past'.doubt[n] \in Nat /\ past'.doubt[n] >= past.doubt[n]
          /\ n = r.text /\ ~IsLate(r, page) /\ r.stage = "no" /\ r.lost =>
                past'.doubt[n] = past.doubt[n] + 1
      <3>1. past.doubt \in [Texts -> Nat]
        BY DEF SendInv, SendTypes, PastType
      <3> QED
        BY <1>1, <1>3, <1>5, <3>1
    <2> QED
      BY <2>1, <2>2, <2>3, <2>4
  <1>13. Limited'
    <2> SUFFICES ASSUME NEW n \in Texts PROVE Out(n)' <= 1 + past'.doubt[n]
      BY DEF Limited
    <2> QED
      BY <1>12
  <1>14. Spare'
    <2> SUFFICES ASSUME NEW n \in Texts, Holds(n)', ~Awaited(n)', ~Done(n)'
                 PROVE  Out(n)' <= past'.doubt[n]
      BY DEF Spare
    <2>1. Holds(n)
      BY <1>4 DEF Holds
    <2>2. CASE IsLate(r, page)
      <3>1. ~Awaited(n)
        BY <1>2, <1>8, <2>2 DEF Awaited
      <3>2. ~Done(n)
        BY <1>4, <1>5, <2>2 DEF Done
      <3>3. Out(n) <= past.doubt[n]
        BY <2>1, <3>1, <3>2 DEF SendInv, Spare
      <3> QED
        BY <1>12, <3>3
    <2>3. CASE ~IsLate(r, page) /\ n # r.text
      <3>1. ~Awaited(n)
        BY <1>8, <2>3 DEF Awaited
      <3>2. ~Done(n)
        BY <1>9, <2>3 DEF Done
      <3>3. Out(n) <= past.doubt[n]
        BY <2>1, <3>1, <3>2 DEF SendInv, Spare
      <3> QED
        BY <1>12, <3>3
    <2>4. CASE ~IsLate(r, page) /\ n = r.text
      <3>1. r.stage = "no"
        BY <1>1, <1>4, <1>5, <2>4 DEF Done
      <3>2. CASE r.lost
        BY <1>12, <2>4, <3>1, <3>2
      <3>3. CASE ~r.lost
        <4>1. Out(n) <= past.doubt[n]
          BY <1>2, <2>4, <3>1, <3>3 DEF SendInv, Refused, Asking
        <4> QED
          BY <1>12, <4>1
      <3> QED
        BY <3>2, <3>3
    <2> QED
      BY <2>2, <2>3, <2>4
  <1>15. Refused'
    <2> SUFFICES ASSUME NEW q \in Asking', q.stage = "no", ~q.lost
                 PROVE  Out(q.text)' <= past'.doubt[q.text]
      BY DEF Refused
    <2>1. q.text \in Texts /\ Out(q.text) <= past.doubt[q.text]
      BY <1>8 DEF SendInv, SendTypes, Requests, Refused, Asking, Waiting
    <2> QED
      BY <1>12, <2>1
  <1>16. Kept'
    <2>1. \A n \in Texts : Recorded(n)' <=> Recorded(n)
      BY <1>1, <1>5 DEF Recorded
    <2>2. ASSUME NEW n \in Texts
          PROVE  rows'[n] + Cardinality(AtResend(n)') <= past'.taken[n]
      BY <1>1, <1>5, <1>12 DEF SendInv, Kept
    <2>3. ASSUME NEW q \in reqs'
          PROVE  /\ q.stage = "taken" => past'.taken[q.text] > 0
                 /\ q.stage = "yes" => Recorded(q.text)'
      BY <1>1, <1>5, <2>1 DEF SendInv, SendTypes, Requests, Kept
    <2>4. ASSUME NEW n \in past'.told PROVE Recorded(n)'
      <3>1. n \in Texts /\ (n \in past.told \/ (n = r.text /\ r.stage = "yes"))
        BY <1>1, <1>3, <1>5 DEF SendInv, SendTypes, PastType
      <3>2. Recorded(n)
        BY <3>1 DEF SendInv, Kept
      <3> QED
        BY <2>1, <3>1, <3>2
    <2> QED
      BY <2>2, <2>3, <2>4 DEF Kept
  <1> QED
    BY <1>6, <1>7, <1>10, <1>11, <1>13, <1>14, <1>15, <1>16 DEF SendInv

\* The mail in an open form that is not being sent has a request to spare.
LEMMA SendKeeps ==
  ASSUME SendInv, SendEmail, reqs' # reqs
  PROVE  SendInv'
  <1> DEFINE new == [id |-> spent.sends, seq |-> page.seq, text |-> page.text,
                     stage |-> "posted", lost |-> FALSE]
  <1>1. /\ page.visible /\ page.send = "idle" /\ page.text # 0 /\ Used("sends", MaxSends)
        /\ page' = [page EXCEPT !.alert = "none", !.send = "sending"]
        /\ reqs' = reqs \cup {new} /\ UNCHANGED <<draft, rows, past>>
    BY DEF SendEmail, MaySend, AtForm
  <1>2. /\ new \in Requests /\ new.id = spent.sends /\ new.seq = page.seq
        /\ new.text = page.text /\ new.stage = "posted" /\ page.text \in Texts
    BY DEF SendInv, SendTypes, IsPage, Requests, Stages
  <1> HIDE DEF new
  <1>3. /\ spent' \in [opens : Nat, texts : Texts, picks : Nat, sends : Nat,
                        faults : Nat, reloads : Nat]
        /\ spent'.texts = spent.texts /\ spent'.sends = spent.sends + 1
    BY <1>1, UsedFields, TextsAreNumbers DEF SendInv
  <1>4. /\ IsPage(page') /\ page'.seq = page.seq /\ page'.text = page.text /\ page'.visible
        /\ page'.send = "sending" /\ page'.bar = page.bar
    BY <1>1 DEF SendInv, SendTypes, IsPage
  <1>5. SendTypes'
    <2>1. IsFiniteSet(reqs') /\ reqs' \in SUBSET Requests
      BY <1>1, <1>2, FS_AddElement DEF SendInv, SendTypes
    <2>2. PastType'
      BY <1>1 DEF SendInv, SendTypes, PastType
    <2> QED
      BY <1>1, <1>3, <1>4, <2>1, <2>2 DEF SendInv, SendTypes
  <1>6. new \notin reqs
    BY <1>2, SendsNew
  <1>7. Numbered'
    <2>1. ASSUME NEW q \in reqs PROVE q.id \in Nat /\ q.id < spent.sends /\ q.id < spent'.sends
      BY <1>3 DEF SendInv, SendTypes, Numbered, Requests
    <2>2. spent.sends \in Nat /\ spent.sends < spent'.sends
      BY <1>3 DEF SendInv, SendTypes
    <2>3. ASSUME NEW q \in reqs', NEW u \in reqs', q.id = u.id PROVE q = u
      <3>1. CASE q \in reqs /\ u \in reqs
        BY <2>3, <3>1 DEF SendInv, Numbered
      <3>2. CASE q = new
        BY <1>1, <1>2, <2>1, <2>2, <2>3, <3>2
      <3>3. CASE u = new
        BY <1>1, <1>2, <2>1, <2>2, <2>3, <3>3
      <3> QED
        BY <1>1, <3>1, <3>2, <3>3
    <2>4. \A q \in reqs' : q.id < spent'.sends /\ q.text # 0 /\ q.text <= spent'.texts
      BY <1>1, <1>2, <1>3, <2>1, <2>2 DEF SendInv, Numbered
    <2>5. /\ page'.text <= spent'.texts /\ (draft' # None => draft'.text <= spent'.texts)
          /\ \A n \in Texts : n > spent'.texts => past'.taken[n] = 0
      BY <1>1, <1>3, <1>4 DEF SendInv, Numbered
    <2> QED
      BY <2>3, <2>4, <2>5 DEF Numbered
  <1>8. Asking = {} /\ page.seq # 0
    BY <1>1 DEF SendInv, OneAwaited, Asking
  <1>9. \A q : q \in Asking' <=> q = new
    <2>1. \A q \in reqs : q.seq # page.seq
      BY <1>8 DEF Asking, Waiting
    <2> QED
      BY <1>1, <1>2, <1>4, <1>8, <2>1 DEF Asking, Waiting
  <1>10. OneAwaited'
    <2>1. \A q \in reqs' : q.seq <= page'.seq
      <3>1. page.seq <= page.seq
        BY DEF SendInv, SendTypes, IsPage
      <3> QED
        BY <1>1, <1>2, <1>4, <3>1 DEF SendInv, OneAwaited
    <2> QED
      BY <1>4, <1>8, <1>9, <2>1 DEF OneAwaited, Asking
  <1>11. DraftInStep'
    BY <1>1, <1>4 DEF SendInv, DraftInStep
  <1>12. ASSUME NEW n \in Texts
         PROVE  /\ Out(n)' = IF n = page.text THEN Out(n) + 1 ELSE Out(n)
                /\ AtResend(n)' = AtResend(n)
                /\ Out(n) \in Nat /\ past.doubt[n] \in Nat /\ past'.doubt[n] = past.doubt[n]
    <2>1. AtResend(n)' = AtResend(n)
      BY <1>1, <1>2 DEF AtResend
    <2>2. IsFiniteSet(Posted(n)) /\ Cardinality(Posted(n)) \in Nat /\ past.taken[n] \in Nat
          /\ Out(n) \in Nat /\ past.doubt[n] \in Nat
      BY OutType DEF SendInv
    <2>3. Out(n)' = past.taken[n] + Cardinality(Posted(n)')
      BY <1>1 DEF Out
    <2>4. CASE n = page.text
      <3>1. Posted(n)' = Posted(n) \cup {new} /\ new \notin Posted(n)
        BY <1>1, <1>2, <1>6, <2>4 DEF Posted
      <3>2. Cardinality(Posted(n)') = Cardinality(Posted(n)) + 1
        BY <2>2, <3>1, FS_AddElement
      <3> QED
        BY <1>1, <2>1, <2>2, <2>3, <2>4, <3>2 DEF Out
    <2>5. CASE n # page.text
      <3>1. Posted(n)' = Posted(n)
        BY <1>1, <1>2, <2>5 DEF Posted
      <3> QED
        BY <1>1, <2>1, <2>2, <2>3, <2>5, <3>1 DEF Out
    <2> QED
      BY <2>4, <2>5
  <1>13. Out(page.text) <= past.doubt[page.text]
    <2>1. Holds(page.text) /\ ~Awaited(page.text) /\ ~Done(page.text)
      BY <1>1, <1>8 DEF Holds, Awaited, Done
    <2> QED
      BY <1>2, <2>1 DEF SendInv, Spare
  <1>14. Limited'
    <2> SUFFICES ASSUME NEW n \in Texts PROVE Out(n)' <= 1 + past'.doubt[n]
      BY DEF Limited
    <2>1. Out(n) <= 1 + past.doubt[n]
      BY DEF SendInv, Limited
    <2> QED
      BY <1>12, <1>13, <2>1
  <1>15. Spare'
    <2> SUFFICES ASSUME NEW n \in Texts, Holds(n)', ~Awaited(n)' PROVE Out(n)' <= past'.doubt[n]
      BY DEF Spare
    <2>1. n # page.text
      BY <1>2, <1>9 DEF Awaited
    <2>2. Holds(n) /\ ~Awaited(n) /\ ~Done(n)
      BY <1>1, <1>4, <1>8 DEF Holds, Awaited, Done
    <2>3. Out(n) <= past.doubt[n]
      BY <2>2 DEF SendInv, Spare
    <2> QED
      BY <1>12, <2>1, <2>3
  <1>16. Refused'
    BY <1>2, <1>9 DEF Refused
  <1>17. Kept'
    <2>1. \A n \in Texts : Recorded(n)' <=> Recorded(n)
      BY <1>1 DEF Recorded
    <2>2. ASSUME NEW n \in Texts
          PROVE  rows'[n] + Cardinality(AtResend(n)') <= past'.taken[n]
      BY <1>1, <1>12 DEF SendInv, Kept
    <2>3. ASSUME NEW q \in reqs'
          PROVE  /\ q.stage = "taken" => past'.taken[q.text] > 0
                 /\ q.stage = "yes" => Recorded(q.text)'
      <3>1. CASE q \in reqs
        BY <1>1, <2>1, <3>1 DEF SendInv, SendTypes, Requests, Kept
      <3>2. CASE q = new
        BY <1>2, <3>2
      <3> QED
        BY <1>1, <3>1, <3>2
    <2>4. \A n \in past'.told : Recorded(n)'
      BY <1>1, <2>1 DEF SendInv, SendTypes, PastType, Kept
    <2> QED
      BY <2>2, <2>3, <2>4 DEF Kept
  <1> QED
    BY <1>5, <1>7, <1>10, <1>11, <1>14, <1>15, <1>16, <1>17 DEF SendInv

(***************************************************************************)
(* The theorem                                                             *)
(***************************************************************************)
LEMMA SendInvInit ==
  ASSUME Init
  PROVE  SendInv
  <1>1. /\ page = Blank(0) /\ draft = None /\ reqs = {} /\ rows = [n \in Texts |-> 0]
        /\ past = Fresh
        /\ spent = [opens |-> 0, texts |-> 0, picks |-> 0, sends |-> 0, faults |-> 0, reloads |-> 0]
    BY DEF Init
  <1>2. /\ IsPage(page) /\ page.seq = 0 /\ ~page.visible /\ page.send = "idle"
        /\ page.text = 0 /\ ~page.bar /\ ~page.timer
    BY <1>1, BlankFields
  <1>3. /\ PastType /\ past.told = {} /\ past.taken = [n \in Texts |-> 0]
        /\ past.doubt = [n \in Texts |-> 0]
    BY <1>1 DEF Fresh, PastType
  <1>4. SendTypes
    BY <1>1, <1>2, <1>3, FS_EmptySet, TextsAreNumbers DEF SendTypes
  <1>5. Numbered
    BY <1>1, <1>2, <1>3, TextsAreNumbers DEF Numbered
  <1>6. Asking = {} /\ \A n \in Texts : Posted(n) = {} /\ AtResend(n) = {}
    BY <1>1 DEF Asking, Waiting, Posted, AtResend
  <1>7. OneAwaited /\ DraftInStep
    BY <1>1, <1>2, <1>6 DEF OneAwaited, DraftInStep, Asking
  <1>8. \A n \in Texts : Out(n) = 0 /\ past.doubt[n] = 0 /\ Cardinality(AtResend(n)) = 0
    BY <1>3, <1>6, FS_EmptySet DEF Out
  <1>9. Limited /\ Spare /\ Refused
    BY <1>6, <1>8 DEF Limited, Spare, Refused
  <1>10. Kept
    BY <1>1, <1>3, <1>8 DEF Kept
  <1> QED
    BY <1>4, <1>5, <1>7, <1>9, <1>10 DEF SendInv

LEMMA SendInvNext ==
  ASSUME SendInv, [Next]_vars
  PROVE  SendInv'
  <1>1. CASE OpenCompose \/ \E to \in BOOLEAN : OpenVariant(to)
    BY <1>1, OpensKeeps
  <1>2. CASE ChangeRecipients \/ TypeText \/ ClearText \/ RestoreDraft
    BY <1>2, FormEditsQuiet, QuietKeeps
  <1>3. CASE DraftTimer \/ DiscardFoundDraft
    BY <1>3, DraftQuiet, QuietKeeps
  <1>4. CASE \/ \E files \in Lists : PickFiles(files)
             \/ \E pick \in page.picks, ok \in BOOLEAN : ReadEnds(pick, ok)
             \/ \E i \in DOMAIN page.atts : RemoveAttachment(i)
    BY <1>4, FilesQuiet, QuietKeeps
  <1>5. CASE TryClose
    <2>1. CASE Dirty(page)
      BY <1>5, <2>1, DialogQuiet, QuietKeeps
    <2>2. CASE ~Dirty(page)
      <3>1. Close(page, "user") /\ IsPage(page)
        BY <1>5, <2>2 DEF TryClose, SendInv, SendTypes
      <3> QED
        BY <3>1, CloseKeeps
    <2> QED
      BY <2>1, <2>2
  <1>6. CASE AcceptConfirm
    <2> DEFINE p == [page EXCEPT !.confirm = FALSE]
    <2>1. IsPage(p) /\ p.seq = page.seq /\ p.text = page.text /\ p.send = page.send
      BY DEF SendInv, SendTypes, IsPage
    <2>2. Close(p, "user")
      BY <1>6 DEF AcceptConfirm
    <2> HIDE DEF p
    <2> QED
      BY <2>1, <2>2, CloseKeeps
  <1>7. CASE CancelConfirm
    BY <1>7, DialogQuiet, QuietKeeps
  <1>8. CASE Reload
    BY <1>8, ReloadKeeps
  <1>9. CASE SendEmail
    BY <1>9, SendKeeps, DialogQuiet, QuietKeeps
  <1>10. ASSUME NEW r \in reqs,
                Takes(r) \/ Fails(r) \/ (\E ok \in BOOLEAN : Records(r, ok)) \/ Answer(r)
         PROVE  SendInv'
    BY <1>10, TakesKeeps, FailsKeeps, RecordsKeeps, AnswerKeeps
  <1>11. ASSUME NEW seq \in page.closing, AutoClose(seq) PROVE SendInv'
    <2>1. CASE ~ClosesItself(seq, page)
      BY <1>11, <2>1, DialogQuiet, QuietKeeps
    <2>2. CASE ClosesItself(seq, page)
      <3> DEFINE p == [page EXCEPT !.closing = @ \ {seq}]
      <3>1. IsPage(p) /\ p.seq = page.seq /\ p.text = page.text /\ p.send = page.send
        BY DEF SendInv, SendTypes, IsPage
      <3>2. Close(p, "timer")
        BY <1>11, <2>2 DEF AutoClose
      <3> HIDE DEF p
      <3> QED
        BY <3>1, <3>2, CloseKeeps
    <2> QED
      BY <2>1, <2>2
  <1>12. CASE UNCHANGED vars
    <2>1. Quiet
      BY <1>12, PageQuiet DEF vars, SendInv, SendTypes, Books, PastType
    <2> QED
      BY <2>1, QuietKeeps
  <1> QED
    BY <1>1, <1>2, <1>3, <1>4, <1>5, <1>6, <1>7, <1>8, <1>9, <1>10, <1>11, <1>12 DEF Next

LEMMA SendInvTells ==
  ASSUME SendInv
  PROVE  SentAsTold
  <1>1. \A n \in past.told : Recorded(n)
    BY DEF SendInv, Kept
  <1>2. ASSUME NEW n \in Texts
        PROVE  rows[n] <= past.taken[n] /\ past.taken[n] <= 1 + past.doubt[n]
    <2>1. /\ past.taken[n] \in Nat /\ rows[n] \in Nat /\ past.doubt[n] \in Nat
          /\ Cardinality(Posted(n)) \in Nat /\ Cardinality(AtResend(n)) \in Nat
      BY OutType DEF SendInv
    <2>2. /\ rows[n] + Cardinality(AtResend(n)) <= past.taken[n]
          /\ past.taken[n] + Cardinality(Posted(n)) <= 1 + past.doubt[n]
      BY DEF SendInv, Kept, Limited, Out
    <2> QED
      BY <2>1, <2>2
  <1> QED
    BY <1>1, <1>2 DEF SentAsTold, Recorded

\* However often the window is opened, closed and reloaded, and whatever is
\* lost on the way: a mail told as sent was taken and is recorded or known to be
\* unrecorded, and none goes out more often than the user has doubts about it
\* (sendEmail in ComposeModal.tsx, send in viewer.go).
THEOREM NoMailTwice == Spec => []SentAsTold
  <1>1. Init => SendInv
    BY SendInvInit
  <1>2. SendInv /\ [Next]_vars => SendInv'
    BY SendInvNext
  <1>3. SendInv => SentAsTold
    BY SendInvTells
  <1> QED
    BY <1>1, <1>2, <1>3, PTL DEF Spec

(***************************************************************************)
(* The draft                                                               *)
(***************************************************************************)
DraftInv == SendInv /\ DraftKeepsUp /\ (past.closed => ~page.visible)

\* What says whether the draft is in step.
Shown == <<page.visible, page.timer, page.to, page.text, past.kept, past.closed, draft>>

LEMMA ShownKeeps ==
  ASSUME DraftInv, UNCHANGED Shown
  PROVE  DraftKeepsUp' /\ (past'.closed => ~page'.visible)
  BY DEF DraftInv, DraftKeepsUp, Shown, Saved

\* An edit starts the timer.
LEMMA EditsKeepUp ==
  ASSUME DraftInv, NEW p, IsPage(p), Edits(p), p.timer, p.visible
  PROVE  DraftKeepsUp' /\ (past'.closed => ~page'.visible)
  <1>1. /\ page' = p /\ UNCHANGED draft /\ past'.closed = past.closed /\ page.visible
    BY DEF Edits, AtForm, DraftInv, SendInv, SendTypes, PastType
  <1>2. ~past.closed
    BY <1>1 DEF DraftInv
  <1> QED
    BY <1>1, <1>2 DEF DraftKeepsUp

LEMMA FormEditsKeepUp ==
  ASSUME DraftInv, ChangeRecipients \/ TypeText \/ ClearText \/ RestoreDraft
  PROVE  DraftKeepsUp' /\ (past'.closed => ~page'.visible)
  <1>1. ASSUME NEW to \in BOOLEAN, NEW text \in Texts, NEW bar \in BOOLEAN,
               Edits(SaveDraft([page EXCEPT !.to = to, !.text = text, !.bar = bar]))
        PROVE  DraftKeepsUp' /\ (past'.closed => ~page'.visible)
    <2> DEFINE p == SaveDraft([page EXCEPT !.to = to, !.text = text, !.bar = bar])
    <2>1. IsPage(page) /\ page.visible
      BY <1>1 DEF Edits, AtForm, DraftInv, SendInv, SendTypes
    <2>2. IsPage(p) /\ p.timer /\ p.visible
      BY <2>1 DEF SaveDraft, IsPage
    <2> HIDE DEF p
    <2> QED
      BY <1>1, <2>2, EditsKeepUp DEF p
  <1>2. IsPage(page)
    BY DEF DraftInv, SendInv, SendTypes
  <1>3. CASE ChangeRecipients
    <2>1. WithRecipients(page, ~page.to) =
            SaveDraft([page EXCEPT !.to = ~page.to, !.text = page.text, !.bar = page.bar])
      <3>1. [page EXCEPT !.to = ~page.to] =
              [page EXCEPT !.to = ~page.to, !.text = page.text, !.bar = page.bar]
        BY <1>2 DEF IsPage
      <3> QED
        BY <3>1 DEF WithRecipients
    <2>2. (~page.to) \in BOOLEAN /\ page.text \in Texts /\ page.bar \in BOOLEAN
      BY <1>2 DEF IsPage
    <2> QED
      BY <1>1, <1>3, <2>1, <2>2 DEF ChangeRecipients
  <1>4. ASSUME NEW text \in Texts, Edits(Typed(page, text))
        PROVE  DraftKeepsUp' /\ (past'.closed => ~page'.visible)
    <2>1. Typed(page, text) = SaveDraft([page EXCEPT !.to = page.to, !.text = text, !.bar = page.bar])
      <3>1. [page EXCEPT !.text = text] =
              [page EXCEPT !.to = page.to, !.text = text, !.bar = page.bar]
        BY <1>2 DEF IsPage
      <3> QED
        BY <3>1 DEF Typed
    <2>2. page.to \in BOOLEAN /\ page.bar \in BOOLEAN
      BY <1>2 DEF IsPage
    <2> QED
      BY <1>1, <1>4, <2>1, <2>2
  <1>5. CASE TypeText
    <2>1. spent.texts + 1 \in Texts
      BY <1>5, UsedText DEF TypeText, DraftInv, SendInv
    <2> QED
      BY <1>4, <1>5, <2>1 DEF TypeText
  <1>6. CASE ClearText
    BY <1>4, <1>6, TextsAreNumbers DEF ClearText
  <1>7. CASE RestoreDraft
    <2>1. draft.to \in BOOLEAN /\ draft.text \in Texts
      BY <1>7 DEF RestoreDraft, DraftInv, SendInv, SendTypes, DraftInStep, Content
    <2>2. Edits(SaveDraft([page EXCEPT !.to = draft.to, !.text = draft.text, !.bar = FALSE]))
      BY <1>7 DEF RestoreDraft, Edits
    <2> QED
      BY <1>1, <2>1, <2>2
  <1> QED
    BY <1>3, <1>5, <1>6, <1>7

\* Steps that touch neither the texts nor the draft.
LEMMA OthersKeepUp ==
  ASSUME DraftInv,
         \/ \E files \in Lists : PickFiles(files)
         \/ \E pick \in page.picks, ok \in BOOLEAN : ReadEnds(pick, ok)
         \/ \E i \in DOMAIN page.atts : RemoveAttachment(i)
         \/ TryClose /\ Dirty(page)
         \/ CancelConfirm
         \/ SendEmail
         \/ \E r \in reqs : \/ Takes(r) \/ Fails(r)
                            \/ \E ok \in BOOLEAN : Records(r, ok)
         \/ \E seq \in page.closing : AutoClose(seq) /\ ~ClosesItself(seq, page)
         \/ UNCHANGED vars
  PROVE  UNCHANGED Shown
  <1>1. IsPage(page) /\ PastType
    BY DEF DraftInv, SendInv, SendTypes
  <1>2. CASE \E files \in Lists : PickFiles(files)
    <2>1. PICK files \in Lists : PickFiles(files)
      BY <1>2
    <2> DEFINE pick == [id |-> spent.picks, seq |-> page.seq, files |-> files]
    <2>2. page' = ReadOn(page, pick) /\ UNCHANGED <<draft, past>>
      BY <2>1 DEF PickFiles
    <2> HIDE DEF pick
    <2> QED
      BY <1>1, <2>2, ReadOnFields DEF Shown
  <1>3. CASE \E pick \in page.picks, ok \in BOOLEAN : ReadEnds(pick, ok)
    <2>1. PICK pick \in page.picks, ok \in BOOLEAN : ReadEnds(pick, ok)
      BY <1>3
    <2> DEFINE p == [page EXCEPT !.picks = @ \ {pick}]
               q == IF ok THEN Attached(p, Head(pick.files)) ELSE p
               rest == [pick EXCEPT !.files = Tail(@)]
    <2>2. (page' = p \/ page' = ReadOn(q, rest)) /\ UNCHANGED <<draft, past>>
      BY <2>1 DEF ReadEnds
    <2>3. /\ IsPage(p) /\ p.visible = page.visible /\ p.text = page.text
          /\ p.timer = page.timer /\ p.to = page.to
      BY <1>1 DEF IsPage
    <2> HIDE DEF p
    <2>4. /\ IsPage(q) /\ q.visible = p.visible /\ q.text = p.text
          /\ q.timer = p.timer /\ q.to = p.to
      BY <2>3, AttachedFields
    <2> HIDE DEF q, rest
    <2>5. /\ page'.visible = page.visible /\ page'.text = page.text
          /\ page'.timer = page.timer /\ page'.to = page.to
      BY <2>2, <2>3, <2>4, ReadOnFields
    <2> QED
      BY <2>2, <2>5 DEF Shown
  <1>4. CASE \E i \in DOMAIN page.atts : RemoveAttachment(i)
    BY <1>1, <1>4 DEF RemoveAttachment, IsPage, Shown
  <1>5. CASE (TryClose /\ Dirty(page)) \/ CancelConfirm
    <2>1. /\ \E c \in BOOLEAN : page' = [page EXCEPT !.confirm = c]
          /\ UNCHANGED <<draft, past>>
      BY <1>5 DEF TryClose, CancelConfirm
    <2> QED
      BY <1>1, <2>1 DEF IsPage, Shown
  <1>6. CASE SendEmail
    <2>1. /\ \/ page' = [page EXCEPT !.alert = "danger"]
             \/ page' = [page EXCEPT !.alert = "none", !.send = "sending"]
          /\ UNCHANGED <<draft, past>>
      BY <1>6 DEF SendEmail
    <2> QED
      BY <1>1, <2>1 DEF IsPage, Shown
  <1>7. ASSUME NEW r \in reqs, Takes(r) \/ Fails(r) \/ \E ok \in BOOLEAN : Records(r, ok)
        PROVE  UNCHANGED Shown
    <2>1. UNCHANGED <<page, draft>>
      BY <1>7 DEF Takes, Fails, Records
    <2>2. past'.kept = past.kept /\ past'.closed = past.closed
      BY <1>1, <1>7 DEF Takes, Fails, Records, PastType
    <2> QED
      BY SMTT(60), <2>1, <2>2 DEF Shown
  <1>8. CASE \E seq \in page.closing : AutoClose(seq) /\ ~ClosesItself(seq, page)
    <2>1. /\ \E seq \in page.closing : page' = [page EXCEPT !.closing = @ \ {seq}]
          /\ UNCHANGED <<draft, past>>
      BY <1>8 DEF AutoClose
    <2> QED
      BY <1>1, <2>1 DEF IsPage, Shown
  <1>9. CASE UNCHANGED vars
    BY <1>9 DEF vars, Shown
  <1> QED
    BY <1>2, <1>3, <1>4, <1>5, <1>6, <1>7, <1>8, <1>9

LEMMA CloseDrops ==
  ASSUME NEW p, IsPage(p), NEW by, Close(p, by)
  PROVE  DraftKeepsUp' /\ (past'.closed => ~page'.visible)
  <1>1. page' = Closed(p) /\ draft' = None
    BY DEF Close
  <1>2. ~page'.visible
    BY <1>1 DEF Closed, IsPage
  <1> QED
    BY <1>1, <1>2 DEF DraftKeepsUp

LEMMA DraftInvNext ==
  ASSUME DraftInv, [Next]_vars
  PROVE  DraftInv'
  <1> DEFINE Goal == DraftKeepsUp' /\ (past'.closed => ~page'.visible)
  <1>0. IsPage(page) /\ PastType /\ SendInv
    BY DEF DraftInv, SendInv, SendTypes
  <1> SUFFICES Goal
    BY <1>0, SendInvNext DEF DraftInv
  <1>1. CASE OpenCompose \/ \E to \in BOOLEAN : OpenVariant(to)
    <2>1. ~past'.kept /\ ~past'.closed
      BY <1>0, <1>1 DEF OpenCompose, OpenVariant, Opens, PastType
    <2> QED
      BY <2>1 DEF DraftKeepsUp
  <1>2. CASE ChangeRecipients \/ TypeText \/ ClearText \/ RestoreDraft
    BY <1>2, FormEditsKeepUp
  <1>3. CASE DraftTimer
    <2>1. page.visible /\ ~past.closed /\ UNCHANGED past
      BY <1>3 DEF DraftTimer, DraftInv, SendInv, DraftInStep
    <2>2. CASE Dirty(page)
      <3>1. page' = [page EXCEPT !.timer = FALSE] /\ draft' = Saved(page)
        BY <1>3, <2>2 DEF DraftTimer
      <3>2. page'.to = page.to /\ page'.text = page.text
        BY <1>0, <3>1 DEF IsPage
      <3> QED
        BY <2>1, <3>1, <3>2 DEF DraftKeepsUp, Saved
    <2>3. CASE ~Dirty(page)
      <3>1. page' = [DiscardDraft(page) EXCEPT !.timer = FALSE]
        BY <1>3, <2>3 DEF DraftTimer
      <3>2. ~page'.to /\ page'.text = 0
        BY <1>0, <2>3, <3>1 DEF Dirty, DiscardDraft, IsPage
      <3> QED
        BY <2>1, <3>2 DEF DraftKeepsUp
    <2> QED
      BY <2>2, <2>3
  <1>4. CASE DiscardFoundDraft
    <2>1. page.visible /\ ~past'.kept /\ past'.closed = past.closed
      BY <1>0, <1>4 DEF DiscardFoundDraft, AtForm, PastType
    <2> QED
      BY <2>1 DEF DraftInv, DraftKeepsUp
  <1>5. CASE \/ \E files \in Lists : PickFiles(files)
             \/ \E pick \in page.picks, ok \in BOOLEAN : ReadEnds(pick, ok)
             \/ \E i \in DOMAIN page.atts : RemoveAttachment(i)
    BY <1>5, OthersKeepUp, ShownKeeps
  <1>6. CASE TryClose
    <2>1. CASE Dirty(page)
      BY <1>6, <2>1, OthersKeepUp, ShownKeeps
    <2>2. CASE ~Dirty(page)
      BY <1>0, <1>6, <2>2, CloseDrops DEF TryClose
    <2> QED
      BY <2>1, <2>2
  <1>7. CASE AcceptConfirm
    <2>1. IsPage([page EXCEPT !.confirm = FALSE])
      BY <1>0 DEF IsPage
    <2> QED
      BY <1>7, <2>1, CloseDrops DEF AcceptConfirm
  <1>8. CASE CancelConfirm \/ SendEmail
    BY <1>8, OthersKeepUp, ShownKeeps
  <1>9. CASE Reload
    <2>1. ~past'.kept /\ ~past'.closed
      BY <1>0, <1>9 DEF Reload, PastType
    <2> QED
      BY <2>1 DEF DraftKeepsUp
  <1>10. ASSUME NEW r \in reqs, Takes(r) \/ Fails(r) \/ \E ok \in BOOLEAN : Records(r, ok)
         PROVE  Goal
    BY <1>10, OthersKeepUp, ShownKeeps
  <1>11. ASSUME NEW r \in reqs, Answer(r)
         PROVE  Goal
    <2>1. CASE IsLate(r, page)
      <3>1. UNCHANGED Shown
        BY <1>11, <2>1 DEF Answer, Shown
      <3> QED
        BY <3>1, ShownKeeps
    <2>2. CASE ~IsLate(r, page) /\ r.stage = "yes"
      <3>1. /\ page' = [DiscardDraft(page) EXCEPT !.alert = "success", !.send = "sent",
                                                  !.closing = @ \cup {page.seq}]
            /\ past' = [past EXCEPT !.told = @ \cup {r.text}, !.toldIn = @ \cup {r.seq},
                                    !.kept = FALSE]
            /\ draft' = None
        BY <1>11, <2>2 DEF Answer
      <3>2. page'.visible = page.visible
        BY <1>0, <3>1 DEF DiscardDraft, IsPage
      <3>3. ~past'.kept /\ past'.closed = past.closed
        BY <1>0, <3>1 DEF PastType
      <3> QED
        BY <3>1, <3>2, <3>3 DEF DraftInv, DraftKeepsUp
    <2>3. CASE ~IsLate(r, page) /\ r.stage # "yes"
      <3>1. /\ page' = [page EXCEPT !.alert = "danger", !.send = "idle"]
            /\ draft' = draft
            /\ past' = past \/ past' = [past EXCEPT !.doubt[r.text] = @ + 1]
        BY <1>11, <2>3 DEF Answer, Unsent
      <3>2. /\ page'.visible = page.visible /\ page'.timer = page.timer
            /\ page'.to = page.to /\ page'.text = page.text
        BY <1>0, <3>1 DEF IsPage
      <3>3. past'.kept = past.kept /\ past'.closed = past.closed
        BY <1>0, <3>1 DEF PastType
      <3>4. UNCHANGED Shown
        BY <3>1, <3>2, <3>3 DEF Shown
      <3> QED
        BY <3>4, ShownKeeps
    <2> QED
      BY <2>1, <2>2, <2>3
  <1>12. ASSUME NEW seq \in page.closing, AutoClose(seq) PROVE Goal
    <2>1. CASE ~ClosesItself(seq, page)
      BY <1>12, <2>1, OthersKeepUp, ShownKeeps
    <2>2. CASE ClosesItself(seq, page)
      <3> DEFINE p == [page EXCEPT !.closing = @ \ {seq}]
      <3>1. IsPage(p)
        BY <1>0 DEF IsPage
      <3>2. Close(p, "timer")
        BY <1>12, <2>2 DEF AutoClose
      <3> HIDE DEF p
      <3> QED
        BY <3>1, <3>2, CloseDrops
    <2> QED
      BY <2>1, <2>2
  <1>13. CASE UNCHANGED vars
    BY <1>13, OthersKeepUp, ShownKeeps
  <1> QED
    BY <1>1, <1>2, <1>3, <1>4, <1>5, <1>6, <1>7, <1>8, <1>9, <1>10, <1>11, <1>12, <1>13 DEF Next

\* Once typing pauses the draft holds what the form says, failed sends and
\* closings by the timer included; and what was closed for good left no draft
\* (saveDraft, discardDraft and close in ComposeModal.tsx).
THEOREM DraftFollows == Spec => []DraftKeepsUp
  <1>1. Init => DraftInv
    <2> SUFFICES ASSUME Init PROVE DraftInv
      OBVIOUS
    <2>1. ~page.visible /\ draft = None /\ ~past.closed
      BY BlankFields DEF Init, Fresh
    <2> QED
      BY <2>1, SendInvInit DEF DraftInv, DraftKeepsUp
  <1>2. DraftInv /\ [Next]_vars => DraftInv'
    BY DraftInvNext
  <1>3. DraftInv => DraftKeepsUp
    BY DEF DraftInv
  <1> QED
    BY <1>1, <1>2, <1>3, PTL DEF Spec

(***************************************************************************)
(* The sizes of the attachments                                            *)
(***************************************************************************)
\* The order the least element of a set of numbers is taken from.
Smaller == {pair \in Nat \X Nat : pair[1] < pair[2]}

\* A set of numbers that is not empty has a least.
LEMMA LeastOf ==
  ASSUME NEW T \in SUBSET Nat, T # {}
  PROVE  \E n \in T : \A k \in T : n <= k
  <1>1. IsWellFoundedOn(Smaller, Nat)
    BY NatLessThanWellFounded DEF OpToRel, Smaller
  <1>2. PICK n \in T : \A k \in T : ~(<<k, n>> \in Smaller)
    BY <1>1, WFMin
  <1>3. ASSUME NEW k \in T PROVE n <= k
    <2>1. k \in Nat /\ n \in Nat /\ ~(<<k, n>> \in Smaller)
      BY <1>2
    <2>2. ~(k < n)
      BY <2>1 DEF Smaller
    <2> QED
      BY <2>1, <2>2
  <1> QED
    BY <1>3

\* What holds of 0, and of a number after each it holds of, holds up to n.
LEMMA Upward ==
  ASSUME NEW n \in Nat, NEW P, 0 \in P, \A k \in 0 .. n - 1 : k \in P => k + 1 \in P
  PROVE  0 .. n \subseteq P
  <1> DEFINE T == {k \in 0 .. n : k \notin P}
  <1> SUFFICES ASSUME T # {} PROVE FALSE
    OBVIOUS
  <1>1. T \in SUBSET Nat
    OBVIOUS
  <1>2. PICK k \in T : \A j \in T : k <= j
    <2> HIDE DEF T
    <2> QED BY <1>1, LeastOf
  <1>3. k \in 0 .. n /\ k \notin P /\ k # 0
    BY <1>2
  <1>4. k - 1 \in 0 .. n - 1 /\ k - 1 \notin T /\ k = (k - 1) + 1
    BY <1>2, <1>3
  <1> QED
    BY <1>3, <1>4

\* What has been added up before each place, for any sizes in a row.
LEMMA SumsExist ==
  ASSUME NEW n \in Nat, NEW w
  PROVE  \E sum : sum = [i \in 0 .. n |-> IF i = 0 THEN 0 ELSE sum[i - 1] + w[i]]
  <1> DEFINE P == {m \in 0 .. n : \E sum : sum = [i \in 0 .. m |-> IF i = 0 THEN 0 ELSE sum[i - 1] + w[i]]}
  <1>1. 0 \in P
    <2>1. PICK sum : sum = [i \in 0 .. 0 |-> 0]
      OBVIOUS
    <2>2. sum = [i \in 0 .. 0 |-> IF i = 0 THEN 0 ELSE sum[i - 1] + w[i]]
      BY <2>1
    <2> QED
      BY <2>2
  <1>2. ASSUME NEW m \in 0 .. n - 1, m \in P PROVE m + 1 \in P
    <2>1. PICK old : old = [i \in 0 .. m |-> IF i = 0 THEN 0 ELSE old[i - 1] + w[i]]
      BY <1>2
    <2>2. PICK sum : sum = [i \in 0 .. m + 1 |-> IF i = m + 1 THEN old[m] + w[m + 1] ELSE old[i]]
      OBVIOUS
    <2>3. ASSUME NEW i \in 0 .. m + 1 PROVE sum[i] = IF i = 0 THEN 0 ELSE sum[i - 1] + w[i]
      <3>1. CASE i = m + 1
        <4>1. sum[i] = old[m] + w[m + 1] /\ sum[m] = old[m] /\ i # 0 /\ i - 1 = m
          BY <2>2, <3>1
        <4> QED
          BY <3>1, <4>1
      <3>2. CASE i # m + 1
        <4>1. i \in 0 .. m /\ sum[i] = old[i] /\ (i # 0 => i - 1 \in 0 .. m + 1 /\ i - 1 # m + 1)
          BY <2>2, <3>2
        <4>2. i # 0 => sum[i - 1] = old[i - 1]
          BY <2>2, <4>1
        <4>3. old[i] = IF i = 0 THEN 0 ELSE old[i - 1] + w[i]
          BY <2>1, <4>1
        <4> QED
          BY <4>1, <4>2, <4>3
      <3> QED
        BY <3>1, <3>2
    <2>4. sum = [i \in 0 .. m + 1 |-> IF i = 0 THEN 0 ELSE sum[i - 1] + w[i]]
      BY <2>2, <2>3
    <2>5. m + 1 \in 0 .. n
      OBVIOUS
    <2> QED
      BY <2>4, <2>5
  <1>3. n \in P
    <2> HIDE DEF P
    <2> QED BY <1>1, <1>2, Upward
  <1> QED
    BY <1>3

Att == [file : Files, seq : Nat]

\* What TotalIs says of a list and the sums up to each place in it.
IsSums(atts, sum) ==
    /\ sum \in [0 .. Len(atts) -> Nat]
    /\ sum[0] = 0
    /\ \A i \in 1 .. Len(atts) : sum[i] = sum[i - 1] + Size[atts[i].file]

\* Total is the last of the sums.
LEMMA TotalIs ==
  ASSUME NEW atts \in Seq(Att)
  PROVE  \E sum : IsSums(atts, sum) /\ Total(atts) = sum[Len(atts)]
  <1>1. PICK w : w = [i \in 1 .. Len(atts) |-> Size[atts[i].file]]
    OBVIOUS
  <1>2. Len(atts) \in Nat
    OBVIOUS
  <1>3. PICK g : g = [i \in 0 .. Len(atts) |-> IF i = 0 THEN 0 ELSE g[i - 1] + w[i]]
    BY <1>2, SumsExist
  <1>4. g = [i \in 0 .. Len(atts) |-> IF i = 0 THEN 0 ELSE g[i - 1] + Size[atts[i].file]]
    <2>1. PICK h : h = [i \in 0 .. Len(atts) |-> IF i = 0 THEN 0 ELSE g[i - 1] + Size[atts[i].file]]
      OBVIOUS
    <2>2. ASSUME NEW i \in 0 .. Len(atts) PROVE g[i] = h[i]
      <3>1. CASE i = 0
        BY <1>3, <2>1, <3>1
      <3>2. CASE i # 0
        <4>1. w[i] = Size[atts[i].file]
          BY <1>1, <1>2, <3>2
        <4> QED
          BY <1>3, <2>1, <3>2, <4>1
      <3> QED
        BY <3>1, <3>2
    <2>3. g = h
      BY <1>3, <2>1, <2>2
    <2> QED
      BY <2>1, <2>3
  <1> DEFINE sum == CHOOSE sum : sum = [i \in 0 .. Len(atts) |-> IF i = 0 THEN 0 ELSE sum[i - 1] + Size[atts[i].file]]
  <1>5. sum = [i \in 0 .. Len(atts) |-> IF i = 0 THEN 0 ELSE sum[i - 1] + Size[atts[i].file]]
    BY <1>4
  <1>6. Total(atts) = sum[Len(atts)]
    BY DEF Total
  <1> HIDE DEF sum
  <1>7. \A i \in 1 .. Len(atts) : Size[atts[i].file] \in Nat
    <2> SUFFICES ASSUME NEW i \in 1 .. Len(atts) PROVE Size[atts[i].file] \in Nat
      OBVIOUS
    <2>1. atts[i] \in Att
      OBVIOUS
    <2>2. atts[i].file \in Files
      BY <2>1 DEF Att
    <2> QED
      BY <2>2, ComposeAssumption DEF ComposeAssumption
  <1>8. sum[0] = 0 /\ \A i \in 1 .. Len(atts) : sum[i] = sum[i - 1] + Size[atts[i].file]
    BY <1>2, <1>5
  <1> DEFINE P == {i \in 0 .. Len(atts) : sum[i] \in Nat}
  <1>9. 0 .. Len(atts) \subseteq P
    <2>1. 0 \in P
      BY <1>2, <1>8
    <2>2. ASSUME NEW k \in 0 .. Len(atts) - 1, k \in P PROVE k + 1 \in P
      <3>1. k + 1 \in 1 .. Len(atts) /\ (k + 1) - 1 = k /\ k + 1 \in 0 .. Len(atts)
        BY <1>2
      <3>2. sum[k + 1] = sum[k] + Size[atts[k + 1].file] /\ sum[k] \in Nat
        BY <1>8, <2>2, <3>1
      <3> QED
        BY <1>7, <3>1, <3>2
    <2> HIDE DEF P
    <2> QED
      BY <1>2, <2>1, <2>2, Upward
  <1>10. sum \in [0 .. Len(atts) -> Nat]
    BY <1>5, <1>9
  <1> QED
    BY <1>6, <1>8, <1>10 DEF IsSums

LEMMA TotalNat ==
  ASSUME NEW atts \in Seq(Att)
  PROVE  Total(atts) \in Nat
  <1>1. PICK sum : IsSums(atts, sum) /\ Total(atts) = sum[Len(atts)]
    BY TotalIs
  <1>2. Len(atts) \in 0 .. Len(atts)
    OBVIOUS
  <1> QED
    BY <1>1, <1>2 DEF IsSums

\* One more attachment adds its size.
LEMMA TotalAppend ==
  ASSUME NEW atts \in Seq(Att), NEW x \in Att
  PROVE  Total(Append(atts, x)) = Total(atts) + Size[x.file]
  <1> DEFINE more == Append(atts, x)
  <1>1. more \in Seq(Att) /\ Len(more) = Len(atts) + 1 /\ Len(atts) \in Nat /\ more[Len(atts) + 1] = x
        /\ \A i \in 1 .. Len(atts) : more[i] = atts[i]
    OBVIOUS
  <1>2. PICK sum : IsSums(atts, sum) /\ Total(atts) = sum[Len(atts)]
    BY TotalIs
  <1> HIDE DEF more
  <1>3. PICK sums : IsSums(more, sums) /\ Total(more) = sums[Len(more)]
    BY <1>1, TotalIs
  <1> DEFINE P == {i \in 0 .. Len(atts) : sums[i] = sum[i]}
  <1>4. 0 .. Len(atts) \subseteq P
    <2>1. 0 \in P
      BY <1>1, <1>2, <1>3 DEF IsSums
    <2>2. ASSUME NEW k \in 0 .. Len(atts) - 1, k \in P PROVE k + 1 \in P
      <3>1. k + 1 \in 1 .. Len(atts) /\ k + 1 \in 1 .. Len(more) /\ (k + 1) - 1 = k /\ k + 1 \in 0 .. Len(atts)
        BY <1>1
      <3>2. sum[k + 1] = sum[k] + Size[atts[k + 1].file]
        BY <1>2, <3>1 DEF IsSums
      <3>3. sums[k + 1] = sums[k] + Size[more[k + 1].file]
        BY <1>3, <3>1 DEF IsSums
      <3>4. sums[k] = sum[k] /\ more[k + 1] = atts[k + 1]
        BY <1>1, <2>2, <3>1
      <3> QED
        BY <3>1, <3>2, <3>3, <3>4
    <2> HIDE DEF P
    <2> QED
      BY <1>1, <2>1, <2>2, Upward
  <1>5. sums[Len(atts)] = sum[Len(atts)]
    BY <1>1, <1>4
  <1>6. Len(atts) + 1 \in 1 .. Len(more) /\ (Len(atts) + 1) - 1 = Len(atts)
    BY <1>1
  <1>7. sums[Len(atts) + 1] = sums[Len(atts)] + Size[x.file]
    BY <1>1, <1>3, <1>6 DEF IsSums
  <1>8. Total(more) = Total(atts) + Size[x.file]
    BY <1>1, <1>2, <1>3, <1>5, <1>7
  <1> QED
    BY <1>8 DEF more

\* An attachment that is taken out takes nothing from the others.
LEMMA TotalRemove ==
  ASSUME NEW atts \in Seq(Att), NEW i \in DOMAIN atts
  PROVE  /\ RemoveAt(atts, i) \in Seq(Att)
         /\ \A j \in DOMAIN RemoveAt(atts, i) : \E k \in DOMAIN atts : RemoveAt(atts, i)[j] = atts[k]
         /\ Total(RemoveAt(atts, i)) <= Total(atts)
  <1> DEFINE fewer == RemoveAt(atts, i)
  <1>1. Len(atts) \in Nat /\ i \in 1 .. Len(atts) /\ i \in Nat
    OBVIOUS
  <1>2. /\ fewer \in Seq(Att) /\ Len(fewer) = Len(atts) - 1
        /\ \A j \in 1 .. Len(fewer) : fewer[j] = atts[IF j < i THEN j ELSE j + 1]
    <2>1. /\ SubSeq(atts, 1, i - 1) \in Seq(Att) /\ Len(SubSeq(atts, 1, i - 1)) = i - 1
          /\ \A j \in 1 .. i - 1 : SubSeq(atts, 1, i - 1)[j] = atts[j]
      BY <1>1
    <2>2. /\ SubSeq(atts, i + 1, Len(atts)) \in Seq(Att) /\ Len(SubSeq(atts, i + 1, Len(atts))) = Len(atts) - i
          /\ \A j \in 1 .. Len(atts) - i : SubSeq(atts, i + 1, Len(atts))[j] = atts[i + j]
      BY <1>1
    <2>3. PICK s, t : s = SubSeq(atts, 1, i - 1) /\ t = SubSeq(atts, i + 1, Len(atts))
      OBVIOUS
    <2>4. fewer = s \o t
      BY <2>3 DEF RemoveAt
    <2>5. /\ s \in Seq(Att) /\ t \in Seq(Att) /\ Len(s) = i - 1 /\ Len(t) = Len(atts) - i
          /\ \A j \in 1 .. i - 1 : s[j] = atts[j]
          /\ \A j \in 1 .. Len(atts) - i : t[j] = atts[i + j]
      BY <2>1, <2>2, <2>3
    <2>6. /\ s \o t \in Seq(Att) /\ Len(s \o t) = Len(atts) - 1
          /\ \A j \in 1 .. Len(s) + Len(t) : (s \o t)[j] = IF j <= Len(s) THEN s[j] ELSE t[j - Len(s)]
      <3>1. s \in Seq(Att) /\ t \in Seq(Att)
        BY <2>5
      <3>2. s \o t \in Seq(Att) /\ Len(s \o t) = Len(s) + Len(t)
        BY <3>1
      <3>3. \A j \in 1 .. Len(s) + Len(t) : (s \o t)[j] = IF j <= Len(s) THEN s[j] ELSE t[j - Len(s)]
        BY <3>1
      <3>4. Len(s) + Len(t) = Len(atts) - 1
        BY <1>1, <2>5
      <3> QED
        BY <3>2, <3>3, <3>4
    <2>7. ASSUME NEW j \in 1 .. Len(atts) - 1
          PROVE  (s \o t)[j] = atts[IF j < i THEN j ELSE j + 1]
      <3>1. CASE j < i
        BY <1>1, <2>5, <2>6, <3>1
      <3>2. CASE ~(j < i)
        <4>1. j - Len(s) \in 1 .. Len(atts) - i /\ i + (j - Len(s)) = j + 1 /\ ~(j <= Len(s))
          BY <1>1, <2>5, <3>2
        <4>2. (s \o t)[j] = t[j - Len(s)]
          BY <1>1, <2>5, <2>6, <4>1, SMTT(60)
        <4> QED
          BY <2>5, <3>2, <4>1, <4>2
      <3> QED
        BY <3>1, <3>2
    <2> HIDE DEF fewer
    <2> QED
      BY <2>4, <2>6, <2>7
  <1>3. PICK sum : IsSums(atts, sum) /\ Total(atts) = sum[Len(atts)]
    BY TotalIs
  <1> HIDE DEF fewer
  <1>4. PICK less : IsSums(fewer, less) /\ Total(fewer) = less[Len(fewer)]
    BY <1>2, TotalIs
  <1>5. \A k \in 1 .. Len(atts) : Size[atts[k].file] \in Nat
    <2> SUFFICES ASSUME NEW k \in 1 .. Len(atts) PROVE Size[atts[k].file] \in Nat
      OBVIOUS
    <2>1. atts[k] \in Att
      OBVIOUS
    <2>2. atts[k].file \in Files
      BY <2>1 DEF Att
    <2> QED
      BY <2>2, ComposeAssumption DEF ComposeAssumption
  <1>6. \A k \in 1 .. Len(atts) : sum[k - 1] <= sum[k] /\ sum[k] \in Nat /\ sum[k - 1] \in Nat
    <2> SUFFICES ASSUME NEW k \in 1 .. Len(atts)
                 PROVE  sum[k - 1] <= sum[k] /\ sum[k] \in Nat /\ sum[k - 1] \in Nat
      OBVIOUS
    <2>1. k \in 0 .. Len(atts) /\ k - 1 \in 0 .. Len(atts)
      BY <1>1
    <2>2. sum[k] \in Nat /\ sum[k - 1] \in Nat /\ sum[k] = sum[k - 1] + Size[atts[k].file]
      BY <1>3, <2>1 DEF IsSums
    <2> QED
      BY <1>5, <2>2
  <1> DEFINE P == {j \in 0 .. Len(fewer) : /\ j < i => less[j] = sum[j]
                                           /\ j >= i => less[j] <= sum[j + 1]}
  <1>7. 0 .. Len(fewer) \subseteq P
    <2>1. 0 \in P
      BY <1>1, <1>2, <1>3, <1>4 DEF IsSums
    <2>2. ASSUME NEW j \in 0 .. Len(fewer) - 1, j \in P PROVE j + 1 \in P
      <3>1. /\ j + 1 \in 1 .. Len(fewer) /\ (j + 1) - 1 = j /\ j + 1 \in 0 .. Len(fewer)
            /\ j + 1 \in 1 .. Len(atts) /\ j + 2 \in 1 .. Len(atts) /\ (j + 2) - 1 = j + 1 /\ j \in Nat
            /\ j \in 0 .. Len(fewer)
        BY <1>1, <1>2
      <3>2. less[j + 1] = less[j] + Size[fewer[j + 1].file] /\ less[j] \in Nat
        BY <1>4, <3>1 DEF IsSums
      <3>3. CASE j + 1 < i
        <4>1. less[j] = sum[j] /\ fewer[j + 1] = atts[j + 1]
          <5>1. j < i
            BY <1>1, <3>1, <3>3
          <5>2. less[j] = sum[j]
            BY <2>2, <5>1
          <5>3. fewer[j + 1] = atts[j + 1]
            BY <1>2, <3>1, <3>3
          <5> QED
            BY <5>2, <5>3
        <4>2. sum[j + 1] = sum[j] + Size[atts[j + 1].file]
          BY <1>3, <3>1 DEF IsSums
        <4>3. less[j + 1] = sum[j + 1]
          BY <3>2, <4>1, <4>2
        <4>4. ~(j + 1 >= i)
          BY <1>1, <3>1, <3>3
        <4>5. PICK k : k = j + 1
          OBVIOUS
        <4>6. k \in 0 .. Len(fewer) /\ less[k] = sum[k] /\ ~(k >= i)
          BY <3>1, <4>3, <4>4, <4>5
        <4>7. k \in P
          BY <4>6, Zenon
        <4> QED
          BY <4>5, <4>7
      <3>4. CASE j + 1 >= i
        <4>1. fewer[j + 1] = atts[j + 2]
          <5>1. ~(j + 1 < i) /\ (j + 1) + 1 = j + 2
            BY <1>1, <3>1, <3>4
          <5>2. PICK k : k = j + 1
            OBVIOUS
          <5>3. k \in 1 .. Len(fewer)
            BY <3>1, <5>2
          <5>4. fewer[k] = atts[IF k < i THEN k ELSE k + 1]
            BY <1>2, <5>3, Zenon
          <5>5. (IF k < i THEN k ELSE k + 1) = k + 1
            BY <5>1, <5>2
          <5>6. fewer[k] = atts[k + 1]
            BY <5>4, <5>5, Zenon
          <5> QED
            BY <5>1, <5>2, <5>6
        <4>2. sum[j + 2] = sum[j + 1] + Size[atts[j + 2].file]
          BY <1>3, <3>1 DEF IsSums
        <4>3. less[j] <= sum[j + 1]
          <5>1. CASE j < i
            BY <1>1, <1>6, <2>2, <3>1, <5>1
          <5>2. CASE j >= i
            BY <2>2, <5>2
          <5> QED
            BY <1>1, <3>1, <5>1, <5>2
        <4>4. sum[j + 1] \in Nat /\ Size[atts[j + 2].file] \in Nat
          BY <1>5, <1>6, <3>1
        <4>5. less[j + 1] <= sum[j + 2]
          BY <3>2, <4>1, <4>2, <4>3, <4>4
        <4>6. (j + 1) + 1 = j + 2
          BY <3>1
        <4> QED
          BY <1>1, <3>1, <3>4, <4>5, <4>6
      <3> QED
        BY <1>1, <3>1, <3>3, <3>4
    <2>3. Len(fewer) \in Nat
      BY <1>1, <1>2
    <2> HIDE DEF P
    <2> QED
      BY <2>1, <2>2, <2>3, Upward
  <1>8. less[Len(fewer)] <= sum[Len(atts)]
    <2>1. Len(fewer) \in P /\ Len(fewer) \in Nat /\ Len(fewer) = Len(atts) - 1 /\ Len(atts) \in 1 .. Len(atts)
      BY <1>1, <1>2, <1>7
    <2>2. CASE Len(fewer) < i
      <3>1. less[Len(fewer)] = sum[Len(atts) - 1]
        BY <2>1, <2>2
      <3> QED
        BY <1>6, <2>1, <3>1
    <2>3. CASE Len(fewer) >= i
      <3>1. Len(fewer) + 1 = Len(atts)
        BY <1>1, <2>1
      <3> QED
        BY <2>1, <2>3, <3>1
    <2> QED
      BY <1>1, <2>1, <2>2, <2>3
  <1>9. \A j \in DOMAIN fewer : \E k \in DOMAIN atts : fewer[j] = atts[k]
    <2> SUFFICES ASSUME NEW j \in DOMAIN fewer PROVE \E k \in DOMAIN atts : fewer[j] = atts[k]
      OBVIOUS
    <2>1. j \in 1 .. Len(fewer)
      BY <1>2
    <2>2. (IF j < i THEN j ELSE j + 1) \in 1 .. Len(atts)
      BY <1>1, <1>2, <2>1
    <2> QED
      BY <1>2, <2>1, <2>2
  <1>10. fewer \in Seq(Att) /\ Total(fewer) <= Total(atts)
    BY <1>2, <1>3, <1>4, <1>8
  <1> QED
    BY <1>9, <1>10 DEF fewer

\* Nothing attached, nothing to add up.
LEMMA TotalEmpty == Total(<<>>) = 0
  <1>1. <<>> \in Seq(Att) /\ Len(<<>>) = 0
    OBVIOUS
  <1> QED
    BY <1>1, TotalIs DEF IsSums

(***************************************************************************)
(* The window                                                              *)
(***************************************************************************)
\* A pick under way: there is a file being read.
IsPick(pick, seq) ==
    /\ DOMAIN pick = {"id", "seq", "files"}
    /\ pick.seq \in 1 .. seq
    /\ pick.files \in Seq(Files) /\ pick.files # <<>>

\* The files of a window are its own, and fit.
FilesFit(p) ==
    /\ p.atts \in Seq(Att) /\ Total(p.atts) <= MaxTotal
    /\ \A i \in DOMAIN p.atts : p.atts[i].seq \in 1 .. p.seq /\ (p.visible => p.atts[i].seq = p.seq)
    /\ \A pick \in p.picks : IsPick(pick, p.seq)

\* What the window says is so, and only openings that were told as sent close
\* by themselves.
SaysSo ==
    /\ page.visible =>
         /\ page.send = "sending" => Asking # {}
         /\ page.send = "sent" => page.seq \in past.toldIn
    /\ page.closing \subseteq past.toldIn /\ page.closing \subseteq 1 .. page.seq
    /\ past.dropped = {}
    /\ page.alert \in {"none", "success", "danger"}

WindowInv == SendInv /\ FilesFit(page) /\ SaysSo

\* The turn that goes on with a list takes up what follows of it.
LEMMA ReadOnFits ==
  ASSUME NEW p, IsPage(p), FilesFit(p), NEW pick, DOMAIN pick = {"id", "seq", "files"},
         pick.seq \in 1 .. p.seq, pick.files \in Seq(Files)
  PROVE  LET q == ReadOn(p, pick) IN
         /\ FilesFit(q) /\ IsPage(q) /\ q.seq = p.seq /\ q.visible = p.visible /\ q.send = p.send
         /\ q.closing = p.closing /\ q.alert = p.alert
  <1> DEFINE small == {i \in DOMAIN pick.files : Size[pick.files[i]] <= MaxFile}
             first == CHOOSE i \in small : \A j \in small : i <= j
             rest == SubSeq(pick.files, first, Len(pick.files))
             next == [pick EXCEPT !.files = rest]
             q == ReadOn(p, pick)
  <1>1. q = p \/ (small # {} /\ q = [p EXCEPT !.picks = @ \cup {next}])
    BY DEF ReadOn
  <1>2. CASE q = p
    BY <1>2
  <1>3. CASE small # {} /\ q = [p EXCEPT !.picks = @ \cup {next}]
    <2>1. small \in SUBSET Nat /\ small \subseteq 1 .. Len(pick.files) /\ Len(pick.files) \in Nat
      OBVIOUS
    <2>2. \E i \in small : \A j \in small : i <= j
      <3> HIDE DEF small
      <3> QED BY <1>3, <2>1, LeastOf
    <2>3. first \in 1 .. Len(pick.files)
      <3> HIDE DEF small
      <3> QED BY <2>1, <2>2
    <2> HIDE DEF first
    <2>4. rest \in Seq(Files) /\ Len(rest) = Len(pick.files) - first + 1
      BY <2>1, <2>3
    <2>5. rest # <<>>
      BY <2>1, <2>3, <2>4
    <2> HIDE DEF rest
    <2>6. IsPick(next, p.seq)
      BY <2>4, <2>5 DEF IsPick
    <2> HIDE DEF next, q
    <2>7. /\ IsPage(q) /\ q.seq = p.seq /\ q.visible = p.visible /\ q.send = p.send
          /\ q.closing = p.closing /\ q.alert = p.alert /\ q.atts = p.atts
          /\ q.picks = p.picks \cup {next}
      BY <1>3 DEF IsPage
    <2>8. FilesFit(q)
      BY <2>6, <2>7 DEF FilesFit
    <2> QED
      BY <2>7, <2>8 DEF q
  <1> QED
    BY <1>1, <1>2, <1>3

\* A file that was read is attached to the opening it was picked for, if it fits.
LEMMA AttachedFits ==
  ASSUME NEW p, IsPage(p), FilesFit(p), p.seq \in Nat \ {0}, NEW f \in Files
  PROVE  LET q == Attached(p, f) IN
         /\ FilesFit(q) /\ IsPage(q) /\ q.seq = p.seq /\ q.visible = p.visible /\ q.send = p.send
         /\ q.closing = p.closing /\ q.alert = p.alert
  <1> DEFINE x == [file |-> f, seq |-> p.seq]
             q == Attached(p, f)
  <1>1. q = p \/ (Total(p.atts) + Size[f] <= MaxTotal /\ q = [p EXCEPT !.atts = Append(@, x)])
    BY DEF Attached, Fits
  <1>2. CASE q = p
    BY <1>2
  <1>3. CASE Total(p.atts) + Size[f] <= MaxTotal /\ q = [p EXCEPT !.atts = Append(@, x)]
    <2>1. x \in Att /\ x.file = f /\ x.seq = p.seq /\ p.atts \in Seq(Att)
      BY DEF Att, FilesFit
    <2> HIDE DEF x, q
    <2>2. /\ IsPage(q) /\ q.seq = p.seq /\ q.visible = p.visible /\ q.send = p.send
          /\ q.closing = p.closing /\ q.alert = p.alert /\ q.picks = p.picks
          /\ q.atts = Append(p.atts, x)
      BY <1>3 DEF IsPage
    <2>3. Total(q.atts) <= MaxTotal
      BY <1>3, <2>1, <2>2, TotalAppend
    <2>4. /\ q.atts \in Seq(Att)
          /\ \A i \in DOMAIN q.atts : (i \in DOMAIN p.atts /\ q.atts[i] = p.atts[i]) \/ q.atts[i] = x
      BY <2>1, <2>2
    <2>5. \A i \in DOMAIN q.atts : q.atts[i].seq \in 1 .. q.seq /\ (q.visible => q.atts[i].seq = q.seq)
      BY <2>1, <2>2, <2>4 DEF FilesFit
    <2>6. \A pick \in q.picks : IsPick(pick, q.seq)
      BY <2>2 DEF FilesFit
    <2>7. FilesFit(q)
      BY <2>3, <2>4, <2>5, <2>6 DEF FilesFit
    <2> QED
      BY <2>2, <2>7 DEF q
  <1> QED
    BY <1>1, <1>2, <1>3

\* One page has the files of another, in the same opening.
LEMMA SameFilesFit ==
  ASSUME NEW p, NEW q, FilesFit(p), q.atts = p.atts, q.picks \subseteq p.picks, q.seq = p.seq,
         q.visible = p.visible
  PROVE  FilesFit(q)
  BY DEF FilesFit

\* A step that leaves the window's files, state and books of it alone.
LEMMA SameWindow ==
  ASSUME WindowInv, SendInv',
         page'.atts = page.atts, page'.picks = page.picks, page'.seq = page.seq,
         page'.visible = page.visible, page'.send = page.send, page'.closing \subseteq page.closing,
         page'.alert = page.alert, UNCHANGED reqs, past'.toldIn = past.toldIn,
         past'.dropped = past.dropped
  PROVE  WindowInv'
  <1>1. FilesFit(page')
    BY SameFilesFit DEF WindowInv
  <1>2. Asking' = Asking
    BY DEF Asking, Waiting
  <1>3. SaysSo'
    BY <1>2 DEF WindowInv, SaysSo
  <1> QED
    BY <1>1, <1>3 DEF WindowInv

LEMMA FilesKeep ==
  ASSUME WindowInv, SendInv',
         \/ \E files \in Lists : PickFiles(files)
         \/ \E pick \in page.picks, ok \in BOOLEAN : ReadEnds(pick, ok)
         \/ \E i \in DOMAIN page.atts : RemoveAttachment(i)
  PROVE  WindowInv'
  <1>0. /\ IsPage(page) /\ FilesFit(page) /\ (page.visible => page.seq # 0) /\ page.seq \in Nat
    BY DEF WindowInv, SendInv, SendTypes, OneAwaited, IsPage
  <1> SUFFICES ASSUME UNCHANGED <<reqs, past>>, FilesFit(page'), page'.seq = page.seq,
                      page'.visible = page.visible, page'.send = page.send,
                      page'.closing = page.closing, page'.alert = page.alert
               PROVE  WindowInv'
    <2>1. ASSUME NEW files \in Lists, PickFiles(files)
          PROVE  /\ FilesFit(page') /\ page'.seq = page.seq /\ page'.visible = page.visible
                 /\ page'.send = page.send /\ page'.closing = page.closing /\ page'.alert = page.alert
                 /\ UNCHANGED <<reqs, past>>
      <3> DEFINE pick == [id |-> spent.picks, seq |-> page.seq, files |-> files]
      <3>1. page' = ReadOn(page, pick) /\ UNCHANGED <<reqs, past>> /\ page.visible
        BY <2>1 DEF PickFiles, AtForm
      <3>2. DOMAIN pick = {"id", "seq", "files"} /\ pick.seq \in 1 .. page.seq /\ pick.files \in Seq(Files)
        BY <1>0, <3>1, ComposeAssumption DEF ComposeAssumption
      <3> HIDE DEF pick
      <3> QED
        BY <1>0, <3>1, <3>2, ReadOnFits
    <2>2. ASSUME NEW pick \in page.picks, NEW ok \in BOOLEAN, ReadEnds(pick, ok)
          PROVE  /\ FilesFit(page') /\ page'.seq = page.seq /\ page'.visible = page.visible
                 /\ page'.send = page.send /\ page'.closing = page.closing /\ page'.alert = page.alert
                 /\ UNCHANGED <<reqs, past>>
      <3> DEFINE p == [page EXCEPT !.picks = @ \ {pick}]
                 q == IF ok THEN Attached(p, Head(pick.files)) ELSE p
                 rest == [pick EXCEPT !.files = Tail(@)]
      <3>1. /\ page' = p \/ (page' = ReadOn(q, rest) /\ page.visible)
            /\ UNCHANGED <<reqs, past>>
        BY <2>2 DEF ReadEnds
      <3>2. IsPick(pick, page.seq)
        BY <1>0 DEF FilesFit
      <3>3. /\ IsPage(p) /\ p.seq = page.seq /\ p.visible = page.visible /\ p.send = page.send
            /\ p.closing = page.closing /\ p.alert = page.alert /\ p.atts = page.atts
            /\ p.picks \subseteq page.picks
        BY <1>0 DEF IsPage
      <3> HIDE DEF p
      <3>4. FilesFit(p)
        BY <1>0, <3>3, SameFilesFit
      <3>5. CASE page' = p
        BY <3>1, <3>3, <3>4, <3>5
      <3>6. CASE page' = ReadOn(q, rest) /\ page.visible
        <4>1. Head(pick.files) \in Files /\ Tail(pick.files) \in Seq(Files)
          BY <3>2 DEF IsPick
        <4>2. /\ DOMAIN rest = {"id", "seq", "files"} /\ rest.seq \in 1 .. p.seq
              /\ rest.files \in Seq(Files)
          BY <3>2, <3>3, <4>1 DEF IsPick
        <4>3. p.seq \in Nat \ {0}
          BY <1>0, <3>3, <3>6
        <4>4. /\ FilesFit(q) /\ IsPage(q) /\ q.seq = p.seq /\ q.visible = p.visible /\ q.send = p.send
              /\ q.closing = p.closing /\ q.alert = p.alert
          BY <3>3, <3>4, <4>1, <4>3, AttachedFits
        <4> HIDE DEF q, rest
        <4>5. rest.seq \in 1 .. q.seq
          BY <4>2, <4>4
        <4> QED
          BY <3>1, <3>3, <3>6, <4>2, <4>4, <4>5, ReadOnFits
      <3> QED
        BY <3>1, <3>5, <3>6
    <2>3. ASSUME NEW i \in DOMAIN page.atts, RemoveAttachment(i)
          PROVE  /\ FilesFit(page') /\ page'.seq = page.seq /\ page'.visible = page.visible
                 /\ page'.send = page.send /\ page'.closing = page.closing /\ page'.alert = page.alert
                 /\ UNCHANGED <<reqs, past>>
      <3>1. page' = [page EXCEPT !.atts = RemoveAt(@, i)] /\ UNCHANGED <<reqs, past>>
        BY <2>3 DEF RemoveAttachment
      <3>2. /\ page'.seq = page.seq /\ page'.visible = page.visible
            /\ page'.send = page.send /\ page'.closing = page.closing /\ page'.alert = page.alert
            /\ page'.atts = RemoveAt(page.atts, i) /\ page'.picks = page.picks
        BY <1>0, <3>1 DEF IsPage
      <3>3. page.atts \in Seq(Att) /\ Total(page.atts) <= MaxTotal
        BY <1>0 DEF FilesFit
      <3>4. PICK less : less = RemoveAt(page.atts, i)
        OBVIOUS
      <3>5. /\ less \in Seq(Att) /\ \A j \in DOMAIN less : \E k \in DOMAIN page.atts : less[j] = page.atts[k]
            /\ Total(less) <= Total(page.atts)
        BY <3>3, <3>4, TotalRemove
      <3>6. Total(less) <= MaxTotal
        <4>1. Total(less) \in Nat /\ Total(page.atts) \in Nat
          BY <3>3, <3>5, TotalNat
        <4> QED
          BY <3>3, <3>5, <4>1, ComposeAssumption DEF ComposeAssumption
      <3>7. FilesFit(page')
        BY <1>0, <3>2, <3>4, <3>5, <3>6 DEF FilesFit
      <3> QED
        BY <3>1, <3>2, <3>7
    <2> QED
      BY <2>1, <2>2, <2>3
  <1>1. Asking' = Asking
    BY DEF Asking, Waiting
  <1>2. SaysSo'
    BY <1>1 DEF WindowInv, SaysSo
  <1> QED
    BY <1>2 DEF WindowInv

\* Writing, drafts and the dialog leave the files and what is said alone.
LEMMA WritingKeeps ==
  ASSUME WindowInv, SendInv',
         \/ ChangeRecipients \/ TypeText \/ ClearText \/ DraftTimer \/ RestoreDraft
         \/ DiscardFoundDraft \/ CancelConfirm \/ (TryClose /\ Dirty(page)) \/ UNCHANGED vars
  PROVE  WindowInv'
  <1>0. IsPage(page) /\ PastType
    BY DEF WindowInv, SendInv, SendTypes
  <1>1. \/ UNCHANGED page
        \/ \E to, text, bar, timer, confirm :
             page' = [page EXCEPT !.to = to, !.text = text, !.bar = bar, !.timer = timer,
                                  !.confirm = confirm]
    <2>1. CASE ChangeRecipients
      <3>1. page' = [page EXCEPT !.to = ~page.to, !.timer = page.visible]
        BY <1>0, <2>1 DEF ChangeRecipients, Edits, WithRecipients, SaveDraft, IsPage
      <3>2. page' = [page EXCEPT !.to = ~page.to, !.text = page.text, !.bar = page.bar,
                                 !.timer = page.visible, !.confirm = page.confirm]
        BY <1>0, <3>1 DEF IsPage
      <3> QED
        BY <3>2, Zenon
    <2>2. ASSUME NEW text, Edits(Typed(page, text))
          PROVE  \E to, txt, bar, timer, confirm :
                   page' = [page EXCEPT !.to = to, !.text = txt, !.bar = bar, !.timer = timer,
                                        !.confirm = confirm]
      <3>1. page' = [page EXCEPT !.text = text, !.timer = page.visible]
        BY <1>0, <2>2 DEF Edits, Typed, SaveDraft, IsPage
      <3>2. page' = [page EXCEPT !.to = page.to, !.text = text, !.bar = page.bar,
                                 !.timer = page.visible, !.confirm = page.confirm]
        BY <1>0, <3>1 DEF IsPage
      <3> QED
        BY <3>2, Zenon
    <2>3. CASE TypeText \/ ClearText
      BY <2>2, <2>3 DEF TypeText, ClearText
    <2>4. CASE DraftTimer
      <3>1. \E bar : page' = [page EXCEPT !.bar = bar, !.timer = FALSE]
        <4>1. CASE Dirty(page)
          <5>1. page' = [page EXCEPT !.timer = FALSE]
            BY <2>4, <4>1 DEF DraftTimer
          <5>2. page' = [page EXCEPT !.bar = page.bar, !.timer = FALSE]
            BY <1>0, <5>1 DEF IsPage
          <5> QED
            BY <5>2, Zenon
        <4>2. CASE ~Dirty(page)
          <5>1. page' = [page EXCEPT !.bar = FALSE, !.timer = FALSE]
            BY <1>0, <2>4, <4>2 DEF DraftTimer, DiscardDraft, IsPage
          <5> QED
            BY <5>1, Zenon
        <4> QED
          BY <4>1, <4>2
      <3>2. PICK bar : page' = [page EXCEPT !.bar = bar, !.timer = FALSE]
        BY <3>1
      <3>3. page' = [page EXCEPT !.to = page.to, !.text = page.text, !.bar = bar, !.timer = FALSE,
                                 !.confirm = page.confirm]
        BY <1>0, <3>2 DEF IsPage
      <3> QED
        BY <3>3, Zenon
    <2>5. CASE RestoreDraft
      <3>1. page' = [page EXCEPT !.to = draft.to, !.text = draft.text, !.bar = FALSE,
                                 !.timer = page.visible, !.confirm = page.confirm]
        BY <1>0, <2>5 DEF RestoreDraft, SaveDraft, IsPage
      <3> QED
        BY <3>1, Zenon
    <2>6. CASE DiscardFoundDraft
      <3>1. page' = [page EXCEPT !.to = page.to, !.text = page.text, !.bar = FALSE,
                                 !.timer = page.timer, !.confirm = page.confirm]
        BY <1>0, <2>6 DEF DiscardFoundDraft, DiscardDraft, IsPage
      <3> QED
        BY <3>1, Zenon
    <2>7. CASE CancelConfirm \/ (TryClose /\ Dirty(page))
      <3>1. PICK confirm \in BOOLEAN : page' = [page EXCEPT !.confirm = confirm]
        BY <2>7 DEF CancelConfirm, TryClose
      <3>2. page' = [page EXCEPT !.to = page.to, !.text = page.text, !.bar = page.bar,
                                 !.timer = page.timer, !.confirm = confirm]
        BY <1>0, <3>1 DEF IsPage
      <3> QED
        BY <3>2, Zenon
    <2>8. CASE UNCHANGED vars
      BY <2>8 DEF vars
    <2> QED
      BY <2>1, <2>3, <2>4, <2>5, <2>6, <2>7, <2>8
  <1>2. /\ page'.atts = page.atts /\ page'.picks = page.picks /\ page'.seq = page.seq
        /\ page'.visible = page.visible /\ page'.send = page.send /\ page'.closing = page.closing
        /\ page'.alert = page.alert
    BY <1>0, <1>1 DEF IsPage
  <1>3. \/ UNCHANGED past
        \/ \E kept \in BOOLEAN : past' = [past EXCEPT !.kept = kept]
    BY Zenon DEF ChangeRecipients, TypeText, ClearText, DraftTimer, RestoreDraft, DiscardFoundDraft,
              CancelConfirm, TryClose, Edits, vars
  <1>4. past'.toldIn = past.toldIn /\ past'.dropped = past.dropped
    BY <1>0, <1>3 DEF PastType
  <1>5. UNCHANGED reqs
    BY DEF ChangeRecipients, TypeText, ClearText, DraftTimer, RestoreDraft, DiscardFoundDraft,
           CancelConfirm, TryClose, Edits, vars
  <1> QED
    BY <1>2, <1>4, <1>5, SameWindow

\* A window that opens is empty; what comes late for others is still to come.
LEMMA OpeningKeeps ==
  ASSUME WindowInv, SendInv', OpenCompose \/ \E to \in BOOLEAN : OpenVariant(to)
  PROVE  WindowInv'
  <1>0. IsPage(page) /\ PastType /\ FilesFit(page) /\ SaysSo
    BY DEF WindowInv, SendInv, SendTypes
  <1> DEFINE b == ResetForm(page)
  <1>1. /\ IsPage(b) /\ b.seq = page.seq + 1 /\ b.visible /\ b.send = "idle" /\ page.seq \in Nat
    BY <1>0, ResetFields DEF WindowInv, SendInv, IsPage
  <1>2. b.atts = <<>> /\ b.closing = page.closing /\ b.picks = page.picks /\ b.alert = "none"
    BY DEF ResetForm, Blank
  <1> HIDE DEF b
  <1>3. \E to, text, bar : page' = [b EXCEPT !.to = to, !.text = text, !.bar = bar]
    <2>1. CASE OpenCompose
      <3>1. page' = [b EXCEPT !.bar = draft # None]
        BY <2>1 DEF OpenCompose, Opens, b
      <3>2. page' = [b EXCEPT !.to = b.to, !.text = b.text, !.bar = draft # None]
        BY <1>1, <3>1 DEF IsPage
      <3> QED
        BY <3>2, Zenon
    <2>2. CASE \E to \in BOOLEAN : OpenVariant(to)
      <3>1. PICK to \in BOOLEAN : page' = [b EXCEPT !.to = to, !.text = spent.texts + 1]
        BY <2>2 DEF OpenVariant, Opens, b
      <3>2. page' = [b EXCEPT !.to = to, !.text = spent.texts + 1, !.bar = b.bar]
        BY <1>1, <3>1 DEF IsPage
      <3> QED
        BY <3>2, Zenon
    <2> QED
      BY <2>1, <2>2
  <1>4. /\ page'.seq = page.seq + 1 /\ page'.send = "idle" /\ page'.atts = <<>>
        /\ page'.closing = page.closing /\ page'.picks = page.picks /\ page'.alert = "none"
    BY <1>1, <1>2, <1>3 DEF IsPage
  <1>5. past'.toldIn = past.toldIn /\ past'.dropped = past.dropped
    BY <1>0 DEF OpenCompose, OpenVariant, Opens, PastType
  <1>6. \A pick \in page'.picks : IsPick(pick, page'.seq)
    BY <1>0, <1>1, <1>4 DEF FilesFit, IsPick
  <1>7. FilesFit(page')
    <2>1. <<>> \in Seq(Att) /\ Total(<<>>) <= MaxTotal
      BY TotalEmpty, ComposeAssumption DEF ComposeAssumption
    <2> QED
      BY <1>4, <1>6, <2>1 DEF FilesFit
  <1>8. SaysSo'
    BY <1>0, <1>1, <1>4, <1>5 DEF SaysSo
  <1> QED
    BY <1>7, <1>8 DEF WindowInv

\* A window that closes keeps no unsent mail back.
LEMMA ClosingKeeps ==
  ASSUME WindowInv, SendInv', NEW p, IsPage(p), NEW by, Close(p, by),
         p.atts = page.atts, p.picks = page.picks, p.seq = page.seq,
         p.closing \subseteq page.closing, p.alert = page.alert,
         by = "timer" => p.seq \in past.toldIn
  PROVE  WindowInv'
  <1>0. IsPage(page) /\ PastType /\ FilesFit(page) /\ SaysSo /\ page.seq \in Nat
    BY DEF WindowInv, SendInv, SendTypes, IsPage
  <1>1. page' = Closed(p)
    BY DEF Close
  <1>2. /\ page'.seq = page.seq + 1 /\ ~page'.visible /\ page'.atts = page.atts
        /\ page'.picks = page.picks /\ page'.closing = p.closing /\ page'.alert = page.alert
    BY <1>1 DEF Closed, NextSeq, IsPage
  <1>3. past'.toldIn = past.toldIn /\ past'.dropped = past.dropped
    <2>1. PICK doubt : past' = [past EXCEPT !.doubt = doubt, !.closed = TRUE, !.dropped = past.dropped]
      BY Zenon DEF Close
    <2> QED
      BY <1>0, <2>1 DEF PastType
  <1>4. \A pick \in page'.picks : IsPick(pick, page'.seq)
    BY <1>0, <1>2 DEF FilesFit, IsPick
  <1>5. FilesFit(page')
    BY <1>0, <1>2, <1>4 DEF FilesFit
  <1>6. SaysSo'
    BY <1>0, <1>2, <1>3 DEF SaysSo
  <1> QED
    BY <1>5, <1>6 DEF WindowInv

\* After a reload nothing is left of the page.
LEMMA ReloadingKeeps ==
  ASSUME WindowInv, SendInv', Reload
  PROVE  WindowInv'
  <1>0. PastType /\ SaysSo
    BY DEF WindowInv, SendInv, SendTypes
  <1>1. /\ page' = Blank(0)
        /\ \E doubt : past' = [past EXCEPT !.toldIn = {}, !.kept = FALSE, !.closed = FALSE, !.doubt = doubt]
    BY Zenon DEF Reload
  <1>2. /\ page'.seq = 0 /\ page'.atts = <<>> /\ page'.picks = {} /\ page'.closing = {}
        /\ page'.alert = "none" /\ ~page'.visible
    BY <1>1 DEF Blank
  <1>3. past'.dropped = past.dropped
    BY <1>0, <1>1 DEF PastType
  <1>4. FilesFit(page')
    <2>1. <<>> \in Seq(Att) /\ Total(<<>>) <= MaxTotal
      BY TotalEmpty, ComposeAssumption DEF ComposeAssumption
    <2> QED
      BY <1>2, <2>1 DEF FilesFit
  <1>5. SaysSo'
    BY <1>0, <1>2, <1>3 DEF SaysSo
  <1> QED
    BY <1>4, <1>5 DEF WindowInv

\* A window that sends waits for an answer.
LEMMA SendingKeeps ==
  ASSUME WindowInv, SendInv', SendEmail
  PROVE  WindowInv'
  <1>0. /\ IsPage(page) /\ FilesFit(page) /\ SaysSo /\ page.visible /\ page.seq # 0
        /\ page.send = "idle" /\ UNCHANGED past
    BY DEF WindowInv, SendInv, SendTypes, SendEmail, MaySend, AtForm, OneAwaited
  <1>1. CASE page' = [page EXCEPT !.alert = "danger"]
    <2>1. /\ page'.seq = page.seq /\ page'.atts = page.atts /\ page'.picks = page.picks
          /\ page'.visible = page.visible /\ page'.send = "idle" /\ page'.closing = page.closing
          /\ page'.alert = "danger"
      BY <1>0, <1>1 DEF IsPage
    <2>2. FilesFit(page')
      BY <1>0, <2>1, SameFilesFit
    <2>3. SaysSo'
      BY <1>0, <2>1 DEF SaysSo
    <2> QED
      BY <2>2, <2>3 DEF WindowInv
  <1>2. CASE /\ page' = [page EXCEPT !.alert = "none", !.send = "sending"]
             /\ reqs' = reqs \cup {[id |-> spent.sends, seq |-> page.seq, text |-> page.text,
                                    stage |-> "posted", lost |-> FALSE]}
    <2>1. /\ page'.seq = page.seq /\ page'.atts = page.atts /\ page'.picks = page.picks
          /\ page'.visible = page.visible /\ page'.send = "sending" /\ page'.closing = page.closing
          /\ page'.alert = "none"
      BY <1>0, <1>2 DEF IsPage
    <2>2. \E r \in reqs' : r.seq = page.seq
      <3>1. PICK r : r = [id |-> spent.sends, seq |-> page.seq, text |-> page.text,
                          stage |-> "posted", lost |-> FALSE]
        OBVIOUS
      <3>2. r \in reqs' /\ r.seq = page.seq
        BY <1>2, <3>1
      <3> QED
        BY <3>2
    <2>3. Asking' # {}
      BY <1>0, <2>1, <2>2 DEF Asking, Waiting
    <2>4. FilesFit(page')
      BY <1>0, <2>1, SameFilesFit
    <2>5. SaysSo'
      BY <1>0, <2>1, <2>3 DEF SaysSo
    <2> QED
      BY <2>4, <2>5 DEF WindowInv
  <1> QED
    BY <1>1, <1>2 DEF SendEmail

\* The server changes what becomes of a request, not who waits for it.
LEMMA ServingKeeps ==
  ASSUME WindowInv, SendInv', NEW r \in reqs,
         Takes(r) \/ Fails(r) \/ \E ok \in BOOLEAN : Records(r, ok)
  PROVE  WindowInv'
  <1>0. PastType /\ SaysSo /\ r \in Requests /\ FilesFit(page)
    BY DEF WindowInv, SendInv, SendTypes
  <1>1. UNCHANGED page
    BY DEF Takes, Fails, Records
  <1>2. \E stage, lost : reqs' = (reqs \ {r}) \cup {[r EXCEPT !.stage = stage, !.lost = lost]}
    <2>1. CASE Takes(r)
      <3>1. reqs' = (reqs \ {r}) \cup {[r EXCEPT !.stage = "taken"]}
        BY <2>1 DEF Takes, Becomes
      <3>2. [r EXCEPT !.stage = "taken"] = [r EXCEPT !.stage = "taken", !.lost = r.lost]
        BY <1>0 DEF Requests
      <3> QED
        BY <3>1, <3>2, Zenon
    <2>2. CASE Fails(r)
      BY <2>2, Zenon DEF Fails, Becomes
    <2>3. CASE \E ok \in BOOLEAN : Records(r, ok)
      <3>1. PICK stage : reqs' = (reqs \ {r}) \cup {[r EXCEPT !.stage = stage]}
        BY <2>3, Zenon DEF Records, Becomes
      <3>2. [r EXCEPT !.stage = stage] = [r EXCEPT !.stage = stage, !.lost = r.lost]
        BY <1>0 DEF Requests
      <3> QED
        BY <3>1, <3>2, Zenon
    <2> QED
      BY <2>1, <2>2, <2>3
  <1>3. PICK new : new.seq = r.seq /\ reqs' = (reqs \ {r}) \cup {new}
    <2>1. PICK stage, lost : reqs' = (reqs \ {r}) \cup {[r EXCEPT !.stage = stage, !.lost = lost]}
      BY <1>2
    <2>2. [r EXCEPT !.stage = stage, !.lost = lost].seq = r.seq
      BY <1>0 DEF Requests
    <2> QED
      BY <2>1, <2>2, Zenon
  <1>4. \A q \in reqs : \E u \in reqs' : u.seq = q.seq
    BY <1>3
  <1>5. Asking # {} => Asking' # {}
    BY <1>1, <1>4 DEF Asking, Waiting
  <1>6. past'.toldIn = past.toldIn /\ past'.dropped = past.dropped
    BY <1>0 DEF Takes, Fails, Records, PastType
  <1>7. SaysSo'
    BY <1>0, <1>1, <1>5, <1>6 DEF SaysSo
  <1> QED
    BY <1>0, <1>1, <1>7 DEF WindowInv

\* An answer is told to the window that waits for it, and to no other.
LEMMA AnswerTold ==
  ASSUME WindowInv, SendInv', NEW r \in reqs, Answer(r)
  PROVE  WindowInv'
  <1>0. /\ IsPage(page) /\ PastType /\ SaysSo /\ FilesFit(page) /\ reqs' = reqs \ {r}
        /\ page.seq \in Nat
    BY DEF WindowInv, SendInv, SendTypes, IsPage, Answer
  <1>1. CASE IsLate(r, page)
    <2>1. UNCHANGED <<page, past>>
      BY <1>1 DEF Answer
    <2>2. Asking \subseteq Asking'
      BY <1>0, <1>1, <2>1 DEF Asking, Waiting, IsLate
    <2>3. SaysSo'
      BY <1>0, <2>1, <2>2 DEF SaysSo
    <2> QED
      BY <1>0, <2>1, <2>3 DEF WindowInv
  <1>2. CASE ~IsLate(r, page) /\ r.stage = "yes"
    <2>1. r.seq = page.seq /\ page.seq \in 1 .. page.seq
      BY <1>0, <1>2 DEF IsLate
    <2>2. /\ page' = [DiscardDraft(page) EXCEPT !.alert = "success", !.send = "sent",
                                                !.closing = @ \cup {page.seq}]
          /\ past' = [past EXCEPT !.told = @ \cup {r.text}, !.toldIn = @ \cup {r.seq}, !.kept = FALSE]
      BY <1>2 DEF Answer
    <2>3. /\ page'.seq = page.seq /\ page'.atts = page.atts /\ page'.picks = page.picks
          /\ page'.visible = page.visible /\ page'.send = "sent" /\ page'.alert = "success"
          /\ page'.closing = page.closing \cup {page.seq}
      BY <1>0, <2>2 DEF DiscardDraft, IsPage
    <2>4. past'.toldIn = past.toldIn \cup {page.seq} /\ past'.dropped = past.dropped
      BY <1>0, <2>1, <2>2 DEF PastType
    <2>5. FilesFit(page')
      BY <1>0, <2>3, SameFilesFit
    <2>6. SaysSo'
      BY <1>0, <2>1, <2>3, <2>4 DEF SaysSo
    <2> QED
      BY <2>5, <2>6 DEF WindowInv
  <1>3. CASE ~IsLate(r, page) /\ r.stage = "no"
    <2>1. /\ page' = [page EXCEPT !.alert = "danger", !.send = "idle"]
          /\ past' = past \/ past' = [past EXCEPT !.doubt[r.text] = @ + 1]
      BY <1>3 DEF Answer
    <2>2. /\ page'.seq = page.seq /\ page'.atts = page.atts /\ page'.picks = page.picks
          /\ page'.visible = page.visible /\ page'.send = "idle" /\ page'.alert = "danger"
          /\ page'.closing = page.closing
      BY <1>0, <2>1 DEF IsPage
    <2>3. past'.toldIn = past.toldIn /\ past'.dropped = past.dropped
      BY <1>0, <2>1 DEF PastType
    <2>4. FilesFit(page')
      BY <1>0, <2>2, SameFilesFit
    <2>5. SaysSo'
      BY <1>0, <2>2, <2>3 DEF SaysSo
    <2> QED
      BY <2>4, <2>5 DEF WindowInv
  <1> QED
    BY <1>1, <1>2, <1>3 DEF Answer

\* The two seconds after "sent" close the window they are for, if any.
LEMMA AutoCloseKeeps ==
  ASSUME WindowInv, SendInv', NEW seq \in page.closing, AutoClose(seq)
  PROVE  WindowInv'
  <1> DEFINE p == [page EXCEPT !.closing = @ \ {seq}]
  <1>0. IsPage(page) /\ SaysSo
    BY DEF WindowInv, SendInv, SendTypes
  <1>1. /\ IsPage(p) /\ p.atts = page.atts /\ p.picks = page.picks /\ p.seq = page.seq
        /\ p.visible = page.visible /\ p.send = page.send /\ p.closing \subseteq page.closing
        /\ p.alert = page.alert
    BY <1>0 DEF IsPage
  <1>2. CASE ClosesItself(seq, page)
    <2>1. Close(p, "timer") /\ p.seq \in past.toldIn
      BY <1>0, <1>1, <1>2 DEF AutoClose, ClosesItself, SaysSo
    <2> HIDE DEF p
    <2> QED
      BY <1>1, <2>1, ClosingKeeps
  <1>3. CASE ~ClosesItself(seq, page)
    <2>1. page' = p /\ UNCHANGED <<reqs, past>>
      BY <1>3 DEF AutoClose
    <2> HIDE DEF p
    <2> QED
      BY <1>1, <2>1, SameWindow
  <1> QED
    BY <1>2, <1>3

LEMMA WindowInvNext ==
  ASSUME WindowInv, [Next]_vars
  PROVE  WindowInv'
  <1>0. IsPage(page) /\ SendInv'
    BY SendInvNext DEF WindowInv, SendInv, SendTypes
  <1>1. CASE OpenCompose \/ \E to \in BOOLEAN : OpenVariant(to)
    BY <1>0, <1>1, OpeningKeeps
  <1>2. CASE \/ ChangeRecipients \/ TypeText \/ ClearText \/ DraftTimer \/ RestoreDraft
             \/ DiscardFoundDraft \/ CancelConfirm \/ UNCHANGED vars
    BY <1>0, <1>2, WritingKeeps
  <1>3. CASE \/ \E files \in Lists : PickFiles(files)
             \/ \E pick \in page.picks, ok \in BOOLEAN : ReadEnds(pick, ok)
             \/ \E i \in DOMAIN page.atts : RemoveAttachment(i)
    BY <1>0, <1>3, FilesKeep
  <1>4. CASE TryClose
    <2>1. CASE Dirty(page)
      BY <1>0, <1>4, <2>1, WritingKeeps
    <2>2. CASE ~Dirty(page)
      <3>1. Close(page, "user")
        BY <1>4, <2>2 DEF TryClose
      <3> QED
        BY <1>0, <3>1, ClosingKeeps
    <2> QED
      BY <2>1, <2>2
  <1>5. CASE AcceptConfirm
    <2> DEFINE p == [page EXCEPT !.confirm = FALSE]
    <2>1. /\ IsPage(p) /\ p.atts = page.atts /\ p.picks = page.picks /\ p.seq = page.seq
          /\ p.closing = page.closing /\ p.alert = page.alert
      BY <1>0 DEF IsPage
    <2>2. Close(p, "user")
      BY <1>5 DEF AcceptConfirm
    <2> HIDE DEF p
    <2> QED
      BY <1>0, <2>1, <2>2, ClosingKeeps
  <1>6. CASE Reload
    BY <1>0, <1>6, ReloadingKeeps
  <1>7. CASE SendEmail
    BY <1>0, <1>7, SendingKeeps
  <1>8. ASSUME NEW r \in reqs, \/ Takes(r) \/ Fails(r) \/ Answer(r)
                               \/ \E ok \in BOOLEAN : Records(r, ok)
        PROVE  WindowInv'
    BY <1>0, <1>8, ServingKeeps, AnswerTold
  <1>9. ASSUME NEW seq \in page.closing, AutoClose(seq)
        PROVE  WindowInv'
    BY <1>0, <1>9, AutoCloseKeeps
  <1> QED
    BY <1>1, <1>2, <1>3, <1>4, <1>5, <1>6, <1>7, <1>8, <1>9 DEF Next

LEMMA WindowInvInit == Init => WindowInv
  <1> SUFFICES ASSUME Init PROVE WindowInv
    OBVIOUS
  <1>1. page = Blank(0) /\ past = Fresh
    BY DEF Init
  <1>2. /\ page.seq = 0 /\ page.atts = <<>> /\ page.picks = {} /\ page.closing = {}
        /\ page.alert = "none" /\ ~page.visible
    BY <1>1 DEF Blank
  <1>3. past.dropped = {}
    BY <1>1 DEF Fresh
  <1>4. FilesFit(page)
    <2>1. <<>> \in Seq(Att) /\ Total(<<>>) <= MaxTotal
      BY TotalEmpty, ComposeAssumption DEF ComposeAssumption
    <2> QED
      BY <1>2, <2>1 DEF FilesFit
  <1>5. SaysSo
    BY <1>2, <1>3 DEF SaysSo
  <1> QED
    BY <1>4, <1>5, SendInvInit DEF WindowInv

LEMMA WindowInvHolds == Spec => []WindowInv
  BY WindowInvInit, WindowInvNext, PTL DEF Spec

\* The window says "sending" as long as it waits and "sent" only of a mail that
\* was, shows the files picked for its mail and no more than fit, and no timer takes
\* an unsent mail away, whatever comes late (sendEmail, onAttachmentsPicked and
\* close in ComposeModal.tsx).
THEOREM WindowHolds == Spec => []WindowShowsItsMail
  <1>1. ASSUME WindowInv PROVE WindowShowsItsMail
    <2>1. /\ page.visible => (page.send = "sending" => Asking # {})
          /\ page.visible => (page.send = "sent" => page.seq \in past.toldIn)
          /\ past.dropped = {}
      BY <1>1 DEF WindowInv, SaysSo
    <2>2. Asking # {} => page.send = "sending"
      BY <1>1 DEF WindowInv, SendInv, OneAwaited
    <2>3. /\ page.visible => \A i \in DOMAIN page.atts : page.atts[i].seq = page.seq
          /\ Total(page.atts) <= MaxTotal
      BY <1>1 DEF WindowInv, FilesFit
    <2> QED
      BY <2>1, <2>2, <2>3 DEF WindowShowsItsMail, Asking
  <1> QED
    BY <1>1, WindowInvHolds, PTL

\* The window, its draft, the requests and the records have the shape the other
\* properties read them by, in every state of the program.
THEOREM ComposeTyped == Spec => []TypeOK
  <1>1. ASSUME WindowInv PROVE TypeOK
    <2>1. /\ page.seq \in Nat /\ page.text \in Texts
          /\ {page.visible, page.to, page.bar, page.timer, page.confirm} \subseteq BOOLEAN
          /\ page.send \in {"idle", "sending", "sent"}
          /\ draft \in Content \cup {None} /\ rows \in [Texts -> Nat]
          /\ past.taken \in [Texts -> Nat] /\ past.doubt \in [Texts -> Nat]
      BY <1>1 DEF WindowInv, SendInv, SendTypes, IsPage, PastType
    <2>2. page.alert \in {"none", "success", "danger"} /\ page.closing \subseteq 1 .. page.seq
      BY <1>1 DEF WindowInv, SaysSo
    <2>3. page.atts \in Seq([file : Files, seq : 1 .. page.seq])
      <3>1. page.atts \in Seq(Att) /\ \A i \in DOMAIN page.atts : page.atts[i].seq \in 1 .. page.seq
        BY <1>1 DEF WindowInv, FilesFit
      <3>2. PICK atts, T : atts = page.atts /\ T = [file : Files, seq : 1 .. page.seq]
        OBVIOUS
      <3>3. \A i \in 1 .. Len(atts) : atts[i] \in T
        <4> SUFFICES ASSUME NEW i \in 1 .. Len(atts) PROVE atts[i] \in T
          OBVIOUS
        <4>1. atts[i] \in Att /\ atts[i].seq \in 1 .. page.seq
          BY <3>1, <3>2
        <4> QED
          BY <3>2, <4>1 DEF Att
      <3>4. atts \in Seq(T)
        <4>1. Len(atts) \in Nat /\ atts \in [1 .. Len(atts) -> T]
          BY <3>1, <3>2, <3>3, LenProperties
        <4> QED
          BY <4>1, SeqDef, Zenon
      <3> QED
        BY <3>2, <3>4
    <2>4. \A p \in page.picks : p.seq \in 1 .. page.seq /\ p.files \in Seq(Files) \ {<<>>}
      BY <1>1 DEF WindowInv, FilesFit, IsPick
    <2>5. (page.bar => draft # None) /\ (page.timer => page.visible)
      BY <1>1 DEF WindowInv, SendInv, DraftInStep
    <2>6. \A r \in reqs : /\ r.seq \in 0 .. page.seq /\ r.text \in Texts /\ r.lost \in BOOLEAN
                          /\ r.stage \in {"posted", "taken", "yes", "no"}
      BY <1>1, <2>1 DEF WindowInv, SendInv, SendTypes, Requests, Stages, OneAwaited
    <2> QED
      BY <2>1, <2>2, <2>3, <2>4, <2>5, <2>6 DEF TypeOK
  <1> QED
    BY <1>1, WindowInvHolds, PTL
=============================================================================
