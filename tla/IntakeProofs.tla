----------------------------- MODULE IntakeProofs -----------------------------
(***************************************************************************)
(* What a sending server was told holds, and the gate keeps its word:      *)
(* StoredAsTold, GateKeepsItsWord and TypeOK are invariants of Intake, for *)
(* any mails, connections and settings.                                    *)
(***************************************************************************)
EXTENDS Intake, FiniteSetTheorems, WellFoundedInduction, TLAPS

Session == [at : {"closed", "idle", "mail", "data", "stored", "dropped"},
            ip : Ips \cup {"none"}, mail : Mails \cup {NoMail}, rcpts : SUBSET Addrs]

\* Tables, greylist and requests of administrators may be anything: nothing a
\* sending server is told depends on them.
Shape ==
    /\ DOMAIN server = {"up", "sess", "rate", "grey", "admins"}
    /\ DOMAIN db = {"domains", "copies"}
    /\ DOMAIN past = {"told", "lost", "unread", "passed", "tries", "closed", "wrong"}
    /\ post \in [Mails -> Post]
    /\ server.up \in {"down", "up", "closing", "late"}
    /\ server.sess \in [Conns -> Session]
    /\ db.copies \in [Mails -> [Addrs -> Nat]]
    /\ todo \in [Mails -> SUBSET Addrs]
    /\ past.told \subseteq Mails \X Addrs /\ past.unread \subseteq Mails
    /\ past.lost \in [Mails -> [Addrs -> Nat]]

\* What a session has of a mail is still to be delivered, and what it did with
\* it is what the mail calls for.
Fits(c) ==
    LET s == server.sess[c] IN
    /\ s.at \in {"closed", "idle"} <=> s.mail = NoMail
    /\ s.mail = NoMail => s.rcpts = {}
    /\ s.mail # NoMail => /\ s.rcpts \subseteq todo[s.mail]
                          /\ post[s.mail].blocked => s.rcpts = {}
    /\ s.at = "stored" => /\ post[s.mail].kind \notin {"empty", "loopEnv"}
                          /\ post[s.mail].kind = "loopRule" => s.mail \in past.unread
    /\ s.at = "dropped" => post[s.mail].kind # "plain"
    /\ server.up = "down" => s.at = "closed"

\* A mail is in one session at a time.
OneEach ==
    \A c, d \in Conns : server.sess[c].mail = server.sess[d].mail /\ server.sess[c].mail # NoMail => c = d

\* Nobody delivers again what it got its 250 for.
Owed ==
    \A m \in Mails : /\ todo[m] \subseteq post[m].rcpts
                     /\ \A a \in Addrs : <<m, a>> \in past.told => a \notin todo[m]

IntakeInv == Shape /\ (\A c \in Conns : Fits(c)) /\ OneEach /\ Owed /\ StoredAsTold

\* What the proof follows of the history and the mailbox stays as it is.
SameBooks ==
    UNCHANGED <<post, todo, db.copies, past.told, past.lost, past.unread>>

\* Session c is t now, and every other what it was.
Becomes(c, t) ==
    /\ server'.sess = [server.sess EXCEPT ![c] = t]
    /\ server'.up = server.up

\* A count of sessions is a number.
LEMMA ComingCount ==
    ASSUME NEW m, NEW a
    PROVE  IsFiniteSet(Coming(m, a)) /\ Cardinality(Coming(m, a)) \in Nat
<1>1. IsFiniteSet(Conns) /\ Coming(m, a) \subseteq Conns
  BY IntakeAssumption DEF Coming
<1> QED
  BY <1>1, FS_Subset, FS_CardinalityType

\* After a turn of c nobody else is coming who was not, and nobody else left.
LEMMA ComingAfter ==
    ASSUME IntakeInv, NEW c \in Conns, NEW t, Becomes(c, t), NEW m, NEW a
    PROVE  Coming(m, a)' = IF t.at = "stored" /\ t.mail = m /\ a \in t.rcpts
                           THEN Coming(m, a) \cup {c} ELSE Coming(m, a) \ {c}
<1>1. server.sess \in [Conns -> Session]
  BY DEF IntakeInv, Shape
<1>2. \A d \in Conns : server'.sess[d] = IF d = c THEN t ELSE server.sess[d]
  BY <1>1 DEF Becomes
<1> QED
  BY <1>2, Zenon DEF Coming

\* A turn of c that takes up no mail of another session and neither stores one
\* nor leaves one that is stored keeps the invariant.
LEMMA TurnKeeps ==
    ASSUME IntakeInv, NEW c \in Conns, NEW t \in Session, Becomes(c, t), SameBooks, Shape', Fits(c)',
           server.sess[c].at # "stored", t.at # "stored",
           t.mail = NoMail \/ \A d \in Conns : d # c => server.sess[d].mail # t.mail
    PROVE  IntakeInv'
<1>1. server.sess \in [Conns -> Session]
  BY DEF IntakeInv, Shape
<1>2. \A d \in Conns : server'.sess[d] = IF d = c THEN t ELSE server.sess[d]
  BY <1>1 DEF Becomes
<1>3. \A m, a : Coming(m, a)' = Coming(m, a)
  BY <1>2, Zenon DEF Coming
<1>4. \A d \in Conns : Fits(d)'
  <2> SUFFICES ASSUME NEW d \in Conns, d # c PROVE Fits(d)'
    OBVIOUS
  <2>1. Fits(d)
    BY DEF IntakeInv
  <2> QED
    BY <1>2, <2>1 DEF Fits, SameBooks, Becomes
<1>5. OneEach'
  BY <1>2 DEF IntakeInv, OneEach
<1>6. Owed'
  BY DEF IntakeInv, Owed, SameBooks
<1>7. StoredAsTold'
  BY <1>3, Zenon DEF IntakeInv, StoredAsTold, SameBooks
<1> QED
  BY <1>4, <1>5, <1>6, <1>7 DEF IntakeInv

\* Where no session, book or list changes, the invariant stays.
LEMMA RestKeeps ==
    ASSUME IntakeInv, SameBooks, Shape', server'.sess = server.sess,
           server'.up = "down" => server.up = "down" \/ \A c \in Conns : server.sess[c].at = "closed"
    PROVE  IntakeInv'
<1>1. \A m, a : Coming(m, a)' = Coming(m, a)
  BY Zenon DEF Coming
<1>2. \A d \in Conns : Fits(d)'
  BY DEF IntakeInv, Fits, SameBooks
<1>3. OneEach' /\ Owed'
  BY DEF IntakeInv, OneEach, Owed, SameBooks
<1>4. StoredAsTold'
  BY <1>1, Zenon DEF IntakeInv, StoredAsTold, SameBooks
<1> QED
  BY <1>2, <1>3, <1>4 DEF IntakeInv

\* A session as it stands is one.
LEMMA SessionTyped ==
    ASSUME IntakeInv, NEW c \in Conns
    PROVE  /\ server.sess[c] \in Session
           /\ Closed \in Session /\ Closed.at = "closed" /\ Closed.mail = NoMail /\ Closed.rcpts = {}
           /\ Idle(server.sess[c]) \in Session /\ Idle(server.sess[c]).at = "idle"
           /\ Idle(server.sess[c]).mail = NoMail /\ Idle(server.sess[c]).rcpts = {}
<1>1. server.sess[c] \in Session
  BY DEF IntakeInv, Shape
<1>2. Closed \in Session /\ Closed.at = "closed" /\ Closed.mail = NoMail /\ Closed.rcpts = {}
  BY DEF Session, Closed
<1>3. PICK s \in Session : s = server.sess[c]
  BY <1>1
<1>4. /\ Idle(s) \in Session /\ Idle(s).at = "idle"
      /\ Idle(s).mail = NoMail /\ Idle(s).rcpts = {}
  BY DEF Session, Idle
<1> QED
  BY <1>1, <1>2, <1>3, <1>4

\* Turned makes a session t and leaves the rest of the process.
LEMMA TurnedBecomes ==
    ASSUME IntakeInv, NEW c \in Conns, NEW t \in Session, Turned(c, t)
    PROVE  /\ Becomes(c, t)
           /\ DOMAIN server' = {"up", "sess", "rate", "grey", "admins"}
           /\ server'.up \in {"down", "up", "closing", "late"}
           /\ server'.sess \in [Conns -> Session]
           /\ server'.sess[c] = t
<1>1. /\ DOMAIN server = {"up", "sess", "rate", "grey", "admins"}
      /\ server.up \in {"down", "up", "closing", "late"}
      /\ server.sess \in [Conns -> Session]
  BY DEF IntakeInv, Shape
<1>2. /\ server'.sess = [server.sess EXCEPT ![c] = t] /\ server'.up = server.up
      /\ DOMAIN server' = {"up", "sess", "rate", "grey", "admins"}
  BY <1>1 DEF Turned
<1> QED
  BY <1>1, <1>2 DEF Becomes

\* A session that only its own step disturbs.
LEMMA LeavesMail ==
    ASSUME IntakeInv, NEW c \in Conns, server.up # "down", server.sess[c].at # "stored",
           NEW t \in Session, t.at \in {"closed", "idle"}, t.mail = NoMail, t.rcpts = {},
           Turned(c, t), UNCHANGED <<post, db, todo, past>>
    PROVE  IntakeInv'
<1>1. /\ Becomes(c, t)
      /\ server'.sess[c] = t
  BY TurnedBecomes
<1>2. Shape'
  BY TurnedBecomes DEF Shape, IntakeInv
<1>3. SameBooks
  BY DEF SameBooks
<1>4. server'.up = server.up
  BY <1>1 DEF Becomes
<1>5. Fits(c)'
  BY <1>1, <1>4 DEF Fits
<1> QED
  BY <1>1, <1>2, <1>3, <1>5, TurnKeeps

LEMMA NewSessionKeeps ==
    ASSUME IntakeInv, NEW c \in Conns, NEW ip \in Ips, NewSession(c, ip)
    PROVE  IntakeInv'
<1> DEFINE t == [Closed EXCEPT !.at = "idle", !.ip = ip]
<1>1. t \in Session /\ t.at = "idle" /\ t.mail = NoMail /\ t.rcpts = {}
  BY DEF Session, Closed
<1>2. server.up # "down" /\ server.sess[c].at # "stored" /\ Turned(c, t) /\ UNCHANGED <<post, db, todo, past>>
  BY DEF NewSession
<1> HIDE DEF t
<1> QED
  BY <1>1, <1>2, LeavesMail

LEMMA ResetKeeps ==
    ASSUME IntakeInv, NEW c \in Conns, Reset(c)
    PROVE  IntakeInv'
<1>1. server.up # "down" /\ server.sess[c].at # "stored" /\ Turned(c, Idle(server.sess[c]))
      /\ UNCHANGED <<post, db, todo, past>>
  BY DEF Reset, Runs
<1> QED
  BY <1>1, SessionTyped, LeavesMail

LEMMA QuitKeeps ==
    ASSUME IntakeInv, NEW c \in Conns, Quit(c)
    PROVE  IntakeInv'
<1>1. server.up # "down" /\ server.sess[c].at # "stored" /\ Turned(c, Closed)
      /\ UNCHANGED <<post, db, todo, past>>
  BY DEF Quit, Runs
<1> QED
  BY <1>1, SessionTyped, LeavesMail

LEMMA DataFailsKeeps ==
    ASSUME IntakeInv, NEW c \in Conns, DataFails(c)
    PROVE  IntakeInv'
<1>1. server.up # "down" /\ server.sess[c].at # "stored" /\ Turned(c, Idle(server.sess[c]))
      /\ UNCHANGED <<post, db, todo, past>>
  BY DEF DataFails, DataFailed, Runs
<1> QED
  BY <1>1, SessionTyped, LeavesMail

LEMMA MailFromKeeps ==
    ASSUME IntakeInv, NEW c \in Conns, NEW m \in Mails, MailFrom(c, m)
    PROVE  IntakeInv'
<1> DEFINE t == Mail(server.sess[c], m)
<1>1. t \in Session /\ t.at = "mail" /\ t.mail = m /\ t.rcpts = {}
  BY SessionTyped DEF Session, Mail
<1>2. /\ server.up # "down" /\ server.sess[c].at # "stored" /\ Turned(c, t)
      /\ \A d \in Conns : server.sess[d].mail # m
      /\ UNCHANGED <<post, db, todo, past>>
  BY DEF MailFrom, Runs
<1> HIDE DEF t
<1>3. Becomes(c, t) /\ server'.sess[c] = t
  BY <1>1, <1>2, TurnedBecomes
<1>4. Shape'
  BY <1>1, <1>2, TurnedBecomes DEF Shape, IntakeInv
<1>5. SameBooks
  BY <1>2 DEF SameBooks
<1>6. server'.up = server.up /\ m # NoMail
  BY <1>3, IntakeAssumption DEF Becomes
<1>7. Fits(c)'
  BY <1>1, <1>2, <1>3, <1>6 DEF Fits
<1> QED
  BY <1>1, <1>2, <1>3, <1>4, <1>5, <1>7, TurnKeeps

\* The gate touches tables, greylist and history of attempts only.
LEMMA MetKeeps ==
    ASSUME IntakeInv, NEW s, NEW a
    PROVE  /\ Met(s, a).server.sess = server.sess /\ Met(s, a).server.up = server.up
           /\ DOMAIN Met(s, a).server = DOMAIN server
           /\ Met(s, a).past.told = past.told /\ Met(s, a).past.lost = past.lost
           /\ Met(s, a).past.unread = past.unread
           /\ DOMAIN Met(s, a).past = DOMAIN past
<1>1. /\ DOMAIN server = {"up", "sess", "rate", "grey", "admins"}
      /\ DOMAIN past = {"told", "lost", "unread", "passed", "tries", "closed", "wrong"}
  BY DEF IntakeInv, Shape
<1>2. CASE ~External(s.ip)
  BY <1>2 DEF Met
<1>3. CASE External(s.ip)
  <2>1. /\ Gate(s, a).server.sess = server.sess /\ Gate(s, a).server.up = server.up
        /\ DOMAIN Gate(s, a).server = DOMAIN server
    BY <1>1 DEF Gate
  <2>2. /\ Gate(s, a).past.told = past.told /\ Gate(s, a).past.lost = past.lost
        /\ Gate(s, a).past.unread = past.unread
        /\ DOMAIN Gate(s, a).past = DOMAIN past
    BY <1>1 DEF Gate, Noted, Tried, LetPass
  <2> QED
    BY <1>3, <2>1, <2>2 DEF Met
<1> QED
  BY <1>2, <1>3

LEMMA RcptHeldBackKeeps ==
    ASSUME IntakeInv, NEW c \in Conns, NEW a \in Addrs, RcptHeldBack(c, a)
    PROVE  IntakeInv'
<1>1. /\ server' = Met(server.sess[c], a).server /\ past' = Met(server.sess[c], a).past
      /\ UNCHANGED <<post, db, todo>>
  BY DEF RcptHeldBack
<1>2. /\ server'.sess = server.sess /\ server'.up = server.up /\ DOMAIN server' = DOMAIN server
      /\ past'.told = past.told /\ past'.lost = past.lost /\ past'.unread = past.unread
      /\ DOMAIN past' = DOMAIN past
  BY <1>1, MetKeeps
<1>3. Shape'
  BY <1>1, <1>2 DEF Shape, IntakeInv
<1>4. SameBooks
  BY <1>1, <1>2 DEF SameBooks
<1> QED
  BY <1>2, <1>3, <1>4, RestKeeps

\* A recipient that is refused for good leaves the list of its mail.
LEMMA DropKeeps ==
    ASSUME IntakeInv, NEW c \in Conns, NEW a, MayTry(server.sess[c], a), Shape',
           server'.sess = server.sess, server'.up = server.up,
           todo' = [todo EXCEPT ![server.sess[c].mail] = @ \ {a}],
           UNCHANGED <<post, db.copies, past.told, past.lost, past.unread>>
    PROVE  IntakeInv'
<1>1. /\ server.sess[c].at = "mail" /\ a \notin server.sess[c].rcpts
      /\ server.sess[c].mail # NoMail /\ server.sess[c].mail \in Mails
      /\ todo \in [Mails -> SUBSET Addrs]
  BY DEF IntakeInv, Shape, Session, MayTry, Fits
<1>2. \A m \in Mails : /\ todo'[m] \subseteq todo[m]
                       /\ m # server.sess[c].mail => todo'[m] = todo[m]
                       /\ todo[m] \ {a} \subseteq todo'[m]
  BY <1>1
<1>3. \A m, b : Coming(m, b)' = Coming(m, b)
  BY Zenon DEF Coming
<1>4. \A d \in Conns : Fits(d)'
  <2> SUFFICES ASSUME NEW d \in Conns PROVE Fits(d)'
    OBVIOUS
  <2>1. Fits(d) /\ server.sess[d].mail \in Mails \cup {NoMail}
    BY DEF IntakeInv, Shape, Session
  <2>2. CASE server.sess[d].mail = NoMail
    BY <2>1, <2>2 DEF Fits
  <2>3. CASE server.sess[d].mail # NoMail
    <3>1. server.sess[d].mail = server.sess[c].mail => d = c
      BY <1>1 DEF IntakeInv, OneEach
    <3>2. server.sess[d].rcpts \subseteq todo'[server.sess[d].mail]
      BY <1>1, <1>2, <2>1, <2>3, <3>1 DEF Fits
    <3> QED
      BY <2>1, <2>3, <3>2 DEF Fits
  <2> QED
    BY <2>2, <2>3
<1>5. OneEach'
  BY DEF IntakeInv, OneEach
<1>6. Owed'
  BY <1>2 DEF IntakeInv, Owed
<1>7. StoredAsTold'
  BY <1>3, ZenonT(60) DEF IntakeInv, StoredAsTold
<1> QED
  BY <1>4, <1>5, <1>6, <1>7 DEF IntakeInv

LEMMA RcptBlockedKeeps ==
    ASSUME IntakeInv, NEW c \in Conns, NEW a \in Addrs, RcptBlocked(c, a)
    PROVE  IntakeInv'
<1>1. /\ MayTry(server.sess[c], a)
      /\ todo' = [todo EXCEPT ![server.sess[c].mail] = @ \ {a}]
      /\ UNCHANGED <<post, server, db, past>>
  BY DEF RcptBlocked
<1>2. Shape'
  <2>1. todo' \in [Mails -> SUBSET Addrs]
    BY <1>1 DEF IntakeInv, Shape
  <2> QED
    BY <1>1, <2>1 DEF IntakeInv, Shape
<1> QED
  BY <1>1, <1>2, DropKeeps

LEMMA RcptKeeps ==
    ASSUME IntakeInv, NEW c \in Conns, NEW a \in Addrs, Rcpt(c, a)
    PROVE  IntakeInv'
<1> DEFINE s == server.sess[c]
           met == Met(s, a)
<1>1. /\ Runs /\ MayTry(s, a) /\ ~post[s.mail].blocked
      /\ UNCHANGED <<post, db>>
  BY DEF Rcpt
<1>2. s \in Session /\ s.at = "mail" /\ a \in todo[s.mail] \ s.rcpts /\ s.mail # NoMail /\ s.mail \in Mails
      /\ server.up # "down"
  BY <1>1 DEF IntakeInv, Shape, Session, MayTry, Fits, Runs
<1>3. /\ met.server.sess = server.sess /\ met.server.up = server.up
      /\ DOMAIN met.server = DOMAIN server
      /\ met.past.told = past.told /\ met.past.lost = past.lost /\ met.past.unread = past.unread
      /\ DOMAIN met.past = DOMAIN past
  BY MetKeeps
<1>4. CASE /\ server' = [met.server EXCEPT !.sess[c].rcpts = @ \cup {a}]
           /\ past' = Noted(met.past, DomainOf[a] \notin past.closed, "domain")
           /\ UNCHANGED <<todo, spent>>
  <2> DEFINE t == [s EXCEPT !.rcpts = @ \cup {a}]
  <2>1. t \in Session /\ t.at = "mail" /\ t.mail = s.mail /\ t.rcpts = s.rcpts \cup {a}
    BY <1>2 DEF Session
  <2>2. /\ past'.told = past.told /\ past'.lost = past.lost /\ past'.unread = past.unread
        /\ DOMAIN past' = DOMAIN past
    <3>1. past' = met.past \/ past' = [met.past EXCEPT !.wrong = @ \cup {"domain"}]
      BY <1>4 DEF Noted
    <3> HIDE DEF met
    <3>2. CASE past' = met.past
      BY <3>2, <1>3
    <3>3. CASE past' = [met.past EXCEPT !.wrong = @ \cup {"domain"}]
      BY <3>3, <1>3 DEF IntakeInv, Shape
    <3> QED
      BY <3>1, <3>2, <3>3
  <2>3. /\ server'.sess = [server.sess EXCEPT ![c] = t] /\ server'.up = server.up
        /\ DOMAIN server' = DOMAIN server
    <3> HIDE DEF met
    <3> QED
      BY <1>3, <1>4 DEF IntakeInv, Shape
  <2> HIDE DEF t, met
  <2>4. Becomes(c, t) /\ server'.sess \in [Conns -> Session] /\ server'.sess[c] = t
    BY <2>1, <2>3 DEF Becomes, IntakeInv, Shape
  <2>5. SameBooks
    BY <1>1, <1>4, <2>2 DEF SameBooks
  <2>6. Shape'
    BY <1>1, <1>4, <2>2, <2>3, <2>4 DEF Shape, IntakeInv
  <2>7. Fits(c)
    BY DEF IntakeInv
  <2>8. Fits(c)'
    BY <1>1, <1>2, <1>4, <2>1, <2>2, <2>3, <2>4, <2>7, ZenonT(60) DEF Fits
  <2>9. \A d \in Conns : d # c => server.sess[d].mail # t.mail
    BY <1>2, <2>1 DEF IntakeInv, OneEach
  <2> QED
    BY <1>2, <2>1, <2>4, <2>5, <2>6, <2>8, <2>9, TurnKeeps
<1>5. CASE /\ server' = met.server /\ past' = met.past
           /\ todo' = [todo EXCEPT ![s.mail] = @ \ {a}]
  <2>1. todo' \in [Mails -> SUBSET Addrs]
    BY <1>5 DEF IntakeInv, Shape
  <2> HIDE DEF met
  <2>2. /\ server'.sess = server.sess /\ server'.up = server.up /\ DOMAIN server' = DOMAIN server
        /\ past'.told = past.told /\ past'.lost = past.lost /\ past'.unread = past.unread
        /\ DOMAIN past' = DOMAIN past
    BY <1>3, <1>5
  <2>3. Shape'
    BY <1>1, <2>1, <2>2 DEF Shape, IntakeInv
  <2> QED
    BY <1>1, <1>5, <2>2, <2>3, DropKeeps
<1>6. CASE /\ server' = met.server /\ past' = met.past
           /\ UNCHANGED todo
  <2> HIDE DEF met
  <2>2. /\ server'.sess = server.sess /\ server'.up = server.up /\ DOMAIN server' = DOMAIN server
        /\ past'.told = past.told /\ past'.lost = past.lost /\ past'.unread = past.unread
        /\ DOMAIN past' = DOMAIN past
    BY <1>3, <1>6
  <2>3. Shape' /\ SameBooks
    BY <1>1, <1>6, <2>2 DEF Shape, IntakeInv, SameBooks
  <2> QED
    BY <2>2, <2>3, RestKeeps
<1> QED
  BY <1>4, <1>5, <1>6, ZenonT(60) DEF Rcpt

LEMMA DataBeginsKeeps ==
    ASSUME IntakeInv, NEW c \in Conns, DataBegins(c)
    PROVE  IntakeInv'
<1> DEFINE s == server.sess[c]
           t == [s EXCEPT !.at = "data"]
<1>1. /\ server.up # "down" /\ s.at = "mail" /\ s \in Session /\ s.mail # NoMail /\ Fits(c)
      /\ UNCHANGED <<post, db, todo>>
  BY Zenon DEF DataBegins, Runs, IntakeInv, Shape, Session, Fits
<1>2. /\ t \in Session /\ t.at = "data" /\ t.mail = s.mail /\ t.rcpts = s.rcpts
      /\ Idle(s) \in Session /\ Idle(s).at = "idle" /\ Idle(s).mail = NoMail /\ Idle(s).rcpts = {}
  BY <1>1, SessionTyped DEF Session
<1>3. PICK rate, limited, right :
         /\ rate = Ask("data", s.ip).table
         /\ limited = Ask("data", s.ip).limited
         /\ right = RateIsRight("data", s.ip, Ask("data", s.ip).limited)
  OBVIOUS
<1>4. /\ \E u \in {t, Idle(s)} : server'.sess = [server.sess EXCEPT ![c] = u]
      /\ server'.up = server.up /\ DOMAIN server' = DOMAIN server
  <2>1. CASE ~External(s.ip)
    <3>1. Turned(c, t)
      BY <2>1, Zenon DEF DataBegins
    <3> HIDE DEF t
    <3> QED
      BY <3>1 DEF IntakeInv, Shape, Turned
  <2>2. CASE External(s.ip)
    <3>1. server' = [server EXCEPT !.rate.data = rate, !.sess[c] = IF limited THEN Idle(s) ELSE t]
      BY <1>3, <2>2, Zenon DEF DataBegins
    <3>2. PICK u \in {t, Idle(s)} : server' = [server EXCEPT !.rate.data = rate, !.sess[c] = u]
      BY <3>1, Zenon
    <3> HIDE DEF t
    <3> QED
      BY <3>2 DEF IntakeInv, Shape
  <2> QED
    BY <2>1, <2>2
<1>5. /\ past'.told = past.told /\ past'.lost = past.lost /\ past'.unread = past.unread
      /\ DOMAIN past' = DOMAIN past
  <2>1. CASE ~External(s.ip)
    BY <2>1, Zenon DEF DataBegins
  <2>2. CASE External(s.ip)
    <3>1. PICK noted : noted = Noted(past, right, "rate")
      OBVIOUS
    <3>2. past' = LetPass(noted, "data", s.ip, limited)
      BY <1>3, <2>2, <3>1, Zenon DEF DataBegins
    <3>3. /\ noted.told = past.told /\ noted.lost = past.lost /\ noted.unread = past.unread
          /\ DOMAIN noted = DOMAIN past
      BY <3>1 DEF Noted, IntakeInv, Shape
    <3> QED
      BY <3>2, <3>3 DEF IntakeInv, Shape, LetPass
  <2> QED
    BY <2>1, <2>2
<1> HIDE DEF t
<1>6. PICK u \in {t, Idle(s)} : server'.sess = [server.sess EXCEPT ![c] = u]
  BY <1>4
<1>7. Becomes(c, u) /\ server'.sess \in [Conns -> Session] /\ server'.sess[c] = u /\ u \in Session
  BY <1>2, <1>4, <1>6 DEF Becomes, IntakeInv, Shape
<1>8. Shape' /\ SameBooks
  BY <1>1, <1>4, <1>5, <1>7 DEF Shape, IntakeInv, SameBooks
<1>9. Fits(c)'
  BY <1>1, <1>2, <1>4, <1>7 DEF Fits
<1>10. u.mail = NoMail \/ \A d \in Conns : d # c => server.sess[d].mail # u.mail
  BY <1>1, <1>2 DEF IntakeInv, OneEach
<1> QED
  BY <1>1, <1>2, <1>7, <1>8, <1>9, <1>10, TurnKeeps

\* A mail that is stored: a copy more for each recipient, and a 250 on its way.
LEMMA StoringKeeps ==
    ASSUME IntakeInv, NEW c \in Conns, server.up # "down", server.sess[c].at = "data",
           post[server.sess[c].mail].kind \notin {"empty", "loopEnv"},
           post[server.sess[c].mail].kind = "loopRule" => server.sess[c].mail \in past'.unread,
           db' = [db EXCEPT !.copies[server.sess[c].mail] =
                     [a \in Addrs |-> @[a] + (IF a \in server.sess[c].rcpts THEN 1 ELSE 0)]],
           Turned(c, [server.sess[c] EXCEPT !.at = "stored"]),
           UNCHANGED <<post, todo, past.told, past.lost, DOMAIN past>>,
           past.unread \subseteq past'.unread, past'.unread \subseteq Mails
    PROVE  IntakeInv'
<1> DEFINE s == server.sess[c]
           t == [s EXCEPT !.at = "stored"]
<1>1. s \in Session /\ s.mail # NoMail /\ s.mail \in Mails /\ Fits(c)
  BY DEF IntakeInv, Shape, Session, Fits
<1>2. t \in Session /\ t.at = "stored" /\ t.mail = s.mail /\ t.rcpts = s.rcpts
  BY <1>1 DEF Session
<1>3. \A m \in Mails : \A a \in Addrs :
         db'.copies[m][a] = db.copies[m][a] + (IF m = s.mail /\ a \in s.rcpts THEN 1 ELSE 0)
  BY <1>1 DEF IntakeInv, Shape
<1>4. db'.copies \in [Mails -> [Addrs -> Nat]] /\ DOMAIN db' = DOMAIN db
  BY <1>1 DEF IntakeInv, Shape
<1>5. Turned(c, t)
  OBVIOUS
<1> HIDE DEF t
<1>6. /\ Becomes(c, t) /\ server'.sess[c] = t /\ server'.up = server.up
      /\ \A d \in Conns : server'.sess[d] = IF d = c THEN t ELSE server.sess[d]
  BY <1>2, <1>5, TurnedBecomes, SMTT(60) DEF Becomes, IntakeInv, Shape
<1>7. Shape'
  BY <1>2, <1>4, <1>5, TurnedBecomes, SMTT(60) DEF IntakeInv, Shape
<1>8. \A d \in Conns : Fits(d)'
  <2> SUFFICES ASSUME NEW d \in Conns PROVE Fits(d)'
    OBVIOUS
  <2>1. Fits(d)
    BY DEF IntakeInv
  <2> QED
    BY <1>1, <1>2, <1>6, <2>1 DEF Fits
<1>9. OneEach'
  BY <1>2, <1>6 DEF IntakeInv, OneEach
<1>10. Owed'
  BY SMTT(60) DEF IntakeInv, Owed
<1>11. StoredAsTold'
  <2> SUFFICES ASSUME NEW m \in Mails, NEW a \in Addrs
               PROVE  LET told == IF <<m, a>> \in past'.told /\ post'[m].kind = "plain" THEN 1 ELSE 0
                      IN /\ db'.copies[m][a] >= told
                         /\ post'[m].kind = "plain" =>
                              db'.copies[m][a] = told + past'.lost[m][a] + Cardinality(Coming(m, a)')
                         /\ db'.copies[m][a] > 0 =>
                              /\ a \in post'[m].rcpts /\ ~post'[m].blocked
                              /\ post'[m].kind \notin {"empty", "loopEnv"}
                              /\ post'[m].kind = "loopRule" => m \in past'.unread
    BY DEF StoredAsTold
  <2> DEFINE told == IF <<m, a>> \in past.told /\ post[m].kind = "plain" THEN 1 ELSE 0
  <2>1. /\ db.copies[m][a] >= told
        /\ post[m].kind = "plain" =>
             db.copies[m][a] = told + past.lost[m][a] + Cardinality(Coming(m, a))
        /\ db.copies[m][a] > 0 =>
             /\ a \in post[m].rcpts /\ ~post[m].blocked
             /\ post[m].kind \notin {"empty", "loopEnv"}
             /\ post[m].kind = "loopRule" => m \in past.unread
    BY DEF IntakeInv, StoredAsTold
  <2>2. Coming(m, a)' = IF m = s.mail /\ a \in s.rcpts THEN Coming(m, a) \cup {c} ELSE Coming(m, a) \ {c}
    BY <1>2, <1>6, ComingAfter
  <2>3. c \notin Coming(m, a)
    BY DEF Coming
  <2>4. Coming(m, a) \ {c} = Coming(m, a)
    BY <2>3
  <2>5. IsFiniteSet(Coming(m, a)) /\ Cardinality(Coming(m, a)) \in Nat
    BY ComingCount
  <2>6. Cardinality(Coming(m, a) \cup {c}) = Cardinality(Coming(m, a)) + 1
    BY <2>3, <2>5, FS_AddElement
  <2>7. db.copies[m][a] \in Nat /\ past.lost[m][a] \in Nat
    BY DEF IntakeInv, Shape
  <2>8. m = s.mail /\ a \in s.rcpts => a \in post[m].rcpts /\ ~post[m].blocked
    BY <1>1 DEF IntakeInv, Owed, Fits
  <2>9. Cardinality(Coming(m, a)') =
          Cardinality(Coming(m, a)) + (IF m = s.mail /\ a \in s.rcpts THEN 1 ELSE 0)
    <3>1. CASE m = s.mail /\ a \in s.rcpts
      BY <2>2, <2>6, <3>1
    <3>2. CASE ~(m = s.mail /\ a \in s.rcpts)
      <4>1. Coming(m, a)' = Coming(m, a) \ {c}
        BY <2>2, <3>2
      <4>2. Coming(m, a)' = Coming(m, a)
        BY <4>1, <2>4
      <4> QED
        BY <2>5, <3>2, <4>2
    <3> QED
      BY <3>1, <3>2
  <2>10. PICK x, y : x = Cardinality(Coming(m, a)) /\ y = Cardinality(Coming(m, a)')
    OBVIOUS
  <2>11. PICK k : k = db.copies[m][a] /\ db'.copies[m][a] = k + (IF m = s.mail /\ a \in s.rcpts THEN 1 ELSE 0)
    BY <1>3
  <2> QED
    BY <2>1, <2>5, <2>7, <2>8, <2>9, <2>10, <2>11, SMTT(60)
<1> QED
  BY <1>7, <1>8, <1>9, <1>10, <1>11 DEF IntakeInv

LEMMA DataKeeps ==
    ASSUME IntakeInv, NEW c \in Conns, Data(c)
    PROVE  IntakeInv'
<1> DEFINE s == server.sess[c]
           t == [s EXCEPT !.at = "dropped"]
<1>1. /\ server.up # "down" /\ s.at = "data" /\ s \in Session /\ s.mail # NoMail /\ s.mail \in Mails
      /\ Fits(c) /\ UNCHANGED post
      /\ post[s.mail] \in Post /\ post[s.mail].kind \in Kinds
  BY Zenon DEF Data, Runs, IntakeInv, Shape, Session, Fits, Post
<1>2. DOMAIN past = {"told", "lost", "unread", "passed", "tries", "closed", "wrong"} /\ past.unread \subseteq Mails
  BY DEF IntakeInv, Shape
<1>3. CASE /\ post[s.mail].kind \in {"loopEnv", "loopRule"}
           /\ Turned(c, t) /\ UNCHANGED <<db, todo, past, spent>>
  <2>1. t \in Session /\ t.at = "dropped" /\ t.mail = s.mail /\ t.rcpts = s.rcpts
    BY <1>1 DEF Session
  <2> HIDE DEF t
  <2>2. Becomes(c, t) /\ server'.sess[c] = t /\ server'.up = server.up
    BY <1>3, <2>1, TurnedBecomes DEF Becomes
  <2>3. Shape'
    BY <1>1, <1>3, <2>1, TurnedBecomes DEF Shape, IntakeInv
  <2>4. SameBooks
    BY <1>1, <1>3 DEF SameBooks
  <2>5. Fits(c)'
    BY <1>1, <1>3, <2>1, <2>2 DEF Fits
  <2>6. \A d \in Conns : d # c => server.sess[d].mail # t.mail
    BY <1>1, <2>1 DEF IntakeInv, OneEach
  <2> QED
    BY <1>1, <2>1, <2>2, <2>3, <2>4, <2>5, <2>6, TurnKeeps
<1>4. CASE /\ db' = [db EXCEPT !.copies[s.mail] = [a \in Addrs |-> @[a] + (IF a \in s.rcpts THEN 1 ELSE 0)]]
           /\ Turned(c, [s EXCEPT !.at = "stored"])
           /\ UNCHANGED todo
           /\ \/ post[s.mail].kind \notin {"loopEnv", "loopRule", "empty"} /\ UNCHANGED <<past, spent>>
              \/ /\ post[s.mail].kind = "loopRule"
                 /\ past' = [past EXCEPT !.unread = @ \cup {s.mail}]
  <2>1. /\ post[s.mail].kind \notin {"empty", "loopEnv"}
        /\ post[s.mail].kind = "loopRule" => s.mail \in past'.unread
        /\ UNCHANGED <<post, todo, past.told, past.lost, DOMAIN past>>
        /\ past.unread \subseteq past'.unread /\ past'.unread \subseteq Mails
    <3>1. CASE post[s.mail].kind \notin {"loopEnv", "loopRule", "empty"} /\ UNCHANGED <<past, spent>>
      BY <1>1, <1>2, <1>4, <3>1
    <3>2. CASE post[s.mail].kind = "loopRule" /\ past' = [past EXCEPT !.unread = @ \cup {s.mail}]
      BY <1>1, <1>2, <1>4, <3>2
    <3> QED
      BY <1>4, <3>1, <3>2, SMTT(60)
  <2> QED
    BY <1>1, <1>4, <2>1, StoringKeeps, Zenon
<1> QED
  BY <1>3, <1>4, Zenon DEF Data, IsForwardTarget

\* An empty mail is refused for good.
LEMMA DataEmptyKeeps ==
    ASSUME IntakeInv, NEW c \in Conns, DataEmpty(c)
    PROVE  IntakeInv'
<1> DEFINE s == server.sess[c]
           t == Idle(s)
<1>1. /\ server.up # "down" /\ s.at = "data" /\ s \in Session /\ s.mail # NoMail /\ s.mail \in Mails
      /\ todo' = [todo EXCEPT ![s.mail] = @ \ s.rcpts] /\ Turned(c, t)
      /\ UNCHANGED <<post, db, past>> /\ todo \in [Mails -> SUBSET Addrs]
  BY DEF DataEmpty, Runs, IntakeInv, Shape, Session, Fits
<1>2. t \in Session /\ t.at = "idle" /\ t.mail = NoMail /\ t.rcpts = {}
  BY SessionTyped
<1> HIDE DEF t
<1>3. todo' \in [Mails -> SUBSET Addrs]
      /\ \A m \in Mails : todo'[m] \subseteq todo[m] /\ (m # s.mail => todo'[m] = todo[m])
  BY <1>1
<1>4. /\ server'.sess[c] = t /\ server'.up = server.up
      /\ \A d \in Conns : server'.sess[d] = IF d = c THEN t ELSE server.sess[d]
  <2>1. Becomes(c, t) /\ server'.sess[c] = t
    BY <1>1, <1>2, TurnedBecomes
  <2> QED
    BY <2>1 DEF Becomes, IntakeInv, Shape
<1>5. Shape'
  BY <1>1, <1>2, <1>3, TurnedBecomes DEF Shape, IntakeInv
<1>6. \A d \in Conns : Fits(d)'
  <2> SUFFICES ASSUME NEW d \in Conns PROVE Fits(d)'
    OBVIOUS
  <2>1. Fits(d) /\ server.sess[d].mail \in Mails \cup {NoMail}
        /\ (d # c => server.sess[d].mail # s.mail)
    BY <1>1 DEF IntakeInv, Shape, Session, OneEach
  <2>2. CASE d = c
    BY <1>1, <1>2, <1>4, <2>2 DEF Fits
  <2>3. CASE d # c
    BY <1>1, <1>3, <1>4, <2>1, <2>3 DEF Fits
  <2> QED
    BY <2>2, <2>3
<1>7. OneEach'
  BY <1>2, <1>4 DEF IntakeInv, OneEach
<1>8. Owed'
  BY <1>1, <1>3 DEF IntakeInv, Owed
<1>9. \A m, a : Coming(m, a)' = Coming(m, a)
  BY <1>1, <1>2, <1>4, Zenon DEF Coming
<1>10. StoredAsTold'
  BY <1>1, <1>9, Zenon DEF IntakeInv, StoredAsTold
<1> QED
  BY <1>5, <1>6, <1>7, <1>8, <1>10 DEF IntakeInv

\* The sending server hears of its mail, and will not send it to them again.
LEMMA AcknowledgedKeeps ==
    ASSUME IntakeInv, NEW c \in Conns, Acknowledged(c)
    PROVE  IntakeInv'
<1> DEFINE s == server.sess[c]
           t == Idle(s)
<1>1. /\ server.up # "down" /\ s.at \in {"stored", "dropped"} /\ s \in Session
      /\ s.mail # NoMail /\ s.mail \in Mails /\ s.rcpts \subseteq Addrs
      /\ todo' = [todo EXCEPT ![s.mail] = @ \ s.rcpts] /\ Turned(c, t)
      /\ past' = [past EXCEPT !.told = @ \cup ({s.mail} \X s.rcpts)]
      /\ UNCHANGED <<post, db>> /\ todo \in [Mails -> SUBSET Addrs] /\ Fits(c)
  BY DEF Acknowledged, Runs, IntakeInv, Shape, Session, Fits
<1>2. t \in Session /\ t.at = "idle" /\ t.mail = NoMail /\ t.rcpts = {}
  BY SessionTyped
<1>3. todo' \in [Mails -> SUBSET Addrs]
      /\ \A m \in Mails : todo'[m] = IF m = s.mail THEN todo[m] \ s.rcpts ELSE todo[m]
  BY <1>1
<1>4. /\ server'.sess[c] = t /\ server'.up = server.up /\ Becomes(c, t)
      /\ \A d \in Conns : server'.sess[d] = IF d = c THEN t ELSE server.sess[d]
  <2>1. Becomes(c, t) /\ server'.sess[c] = t
    BY <1>1, <1>2, TurnedBecomes
  <2> HIDE DEF t
  <2> QED
    BY <2>1 DEF Becomes, IntakeInv, Shape
<1> HIDE DEF t
<1>5. /\ past'.told = past.told \cup ({s.mail} \X s.rcpts)
      /\ past'.lost = past.lost /\ past'.unread = past.unread /\ DOMAIN past' = DOMAIN past
  BY <1>1 DEF IntakeInv, Shape
<1>6. past'.told \subseteq Mails \X Addrs
      /\ \A m \in Mails : \A a \in Addrs :
            <<m, a>> \in past'.told <=> <<m, a>> \in past.told \/ (m = s.mail /\ a \in s.rcpts)
  BY <1>1, <1>5 DEF IntakeInv, Shape
<1>7. Shape'
  BY <1>1, <1>2, <1>3, <1>5, <1>6, TurnedBecomes DEF Shape, IntakeInv
<1>8. \A d \in Conns : Fits(d)'
  <2> SUFFICES ASSUME NEW d \in Conns PROVE Fits(d)'
    OBVIOUS
  <2>1. Fits(d) /\ server.sess[d].mail \in Mails \cup {NoMail}
        /\ (d # c => server.sess[d].mail # s.mail)
    BY <1>1 DEF IntakeInv, Shape, Session, OneEach
  <2>2. CASE d = c
    BY <1>1, <1>2, <1>4, <2>2 DEF Fits
  <2>3. CASE d # c
    BY <1>1, <1>3, <1>4, <1>5, <2>1, <2>3 DEF Fits
  <2> QED
    BY <2>2, <2>3
<1>9. OneEach'
  BY <1>2, <1>4 DEF IntakeInv, OneEach
<1>10. Owed'
  BY <1>1, <1>3, <1>6 DEF IntakeInv, Owed
<1>11. StoredAsTold'
  <2> SUFFICES ASSUME NEW m \in Mails, NEW a \in Addrs
               PROVE  LET told == IF <<m, a>> \in past'.told /\ post'[m].kind = "plain" THEN 1 ELSE 0
                      IN /\ db'.copies[m][a] >= told
                         /\ post'[m].kind = "plain" =>
                              db'.copies[m][a] = told + past'.lost[m][a] + Cardinality(Coming(m, a)')
                         /\ db'.copies[m][a] > 0 =>
                              /\ a \in post'[m].rcpts /\ ~post'[m].blocked
                              /\ post'[m].kind \notin {"empty", "loopEnv"}
                              /\ post'[m].kind = "loopRule" => m \in past'.unread
    BY DEF StoredAsTold
  <2> DEFINE told == IF <<m, a>> \in past.told /\ post[m].kind = "plain" THEN 1 ELSE 0
  <2>1. /\ db.copies[m][a] >= told
        /\ post[m].kind = "plain" =>
             db.copies[m][a] = told + past.lost[m][a] + Cardinality(Coming(m, a))
        /\ db.copies[m][a] > 0 =>
             /\ a \in post[m].rcpts /\ ~post[m].blocked
             /\ post[m].kind \notin {"empty", "loopEnv"}
             /\ post[m].kind = "loopRule" => m \in past.unread
    BY DEF IntakeInv, StoredAsTold
  <2>2. Coming(m, a)' = Coming(m, a) \ {c}
    BY <1>2, <1>4, ComingAfter
  <2>3. IsFiniteSet(Coming(m, a)) /\ Cardinality(Coming(m, a)) \in Nat
    BY ComingCount
  <2>4. db.copies[m][a] \in Nat /\ past.lost[m][a] \in Nat
    BY DEF IntakeInv, Shape
  <2>5. PICK x, k, l : x = Cardinality(Coming(m, a)) /\ k = db.copies[m][a] /\ l = past.lost[m][a]
    OBVIOUS
  <2>6. CASE m = s.mail /\ a \in s.rcpts /\ s.at = "stored"
    <3>1. c \in Coming(m, a)
      BY <2>6 DEF Coming
    <3>2. Cardinality(Coming(m, a)') = Cardinality(Coming(m, a)) - 1
      BY <2>2, <2>3, <3>1, FS_RemoveElement
    <3>3. <<m, a>> \notin past.told /\ <<m, a>> \in past'.told
      BY <1>1, <1>6, <2>6 DEF IntakeInv, Owed, Fits
    <3>4. db'.copies[m][a] = db.copies[m][a] /\ past'.lost[m][a] = past.lost[m][a]
      BY <1>1, <1>5
    <3>5. \A d \in Coming(m, a) : d = c
      BY <2>6, <1>1 DEF Coming, IntakeInv, OneEach
    <3>6. Coming(m, a) = {c}
      BY <3>1, <3>5
    <3>7. Cardinality(Coming(m, a)) = 1
      BY <3>6, FS_Singleton
    <3>8. PICK y : y = Cardinality(Coming(m, a)')
      OBVIOUS
    <3>9. post'[m] = post[m] /\ past'.unread = past.unread
      BY <1>1, <1>5
    <3>10. post[m].kind = "plain" => k = l + 1 /\ y = 0
      BY <2>1, <2>3, <2>4, <2>5, <3>2, <3>3, <3>7, <3>8
    <3>11. k >= 0 /\ 0 \in Nat /\ l \in Nat /\ k \in Nat
      BY <2>4, <2>5
    <3> QED
      BY <2>1, <2>5, <3>3, <3>4, <3>8, <3>9, <3>10, <3>11
  <2>7. CASE ~(m = s.mail /\ a \in s.rcpts /\ s.at = "stored")
    <3>1. c \notin Coming(m, a)
      BY <2>7 DEF Coming
    <3>2. Coming(m, a)' = Coming(m, a)
      BY <2>2, <3>1
    <3>3. post[m].kind = "plain" => (<<m, a>> \in past'.told <=> <<m, a>> \in past.told)
      BY <1>1, <1>6, <2>7 DEF Fits
    <3>4. db'.copies[m][a] = db.copies[m][a] /\ past'.lost[m][a] = past.lost[m][a]
      BY <1>1, <1>5
    <3>5. post'[m] = post[m] /\ past'.unread = past.unread
      BY <1>1, <1>5
    <3>6. Cardinality(Coming(m, a)') = Cardinality(Coming(m, a))
      BY <3>2
    <3>7. PICK p, q : p = (<<m, a>> \in past'.told) /\ q = (<<m, a>> \in past.told)
      OBVIOUS
    <3> QED
      BY <2>1, <2>3, <2>4, <2>5, <3>3, <3>4, <3>5, <3>6
  <2> QED
    BY <2>6, <2>7
<1> QED
  BY <1>7, <1>8, <1>9, <1>10, <1>11 DEF IntakeInv

\* Sessions that end wherever they are: what they stored and did not answer for
\* is counted as lost, the others go on.
LEMMA BreakingKeeps ==
    ASSUME IntakeInv, NEW B \in SUBSET Conns, Shape',
           \A d \in Conns : server'.sess[d] = IF d \in B THEN Closed ELSE server.sess[d],
           server'.up = "down" => B = Conns \/ server.up = "down",
           \A m \in Mails : \A a \in Addrs :
              past'.lost[m][a] = past.lost[m][a] + Cardinality(Coming(m, a) \cap B),
           UNCHANGED <<post, todo, db.copies, past.told, past.unread>>
    PROVE  IntakeInv'
<1>1. Closed.at = "closed" /\ Closed.mail = NoMail /\ Closed.rcpts = {}
  BY DEF Closed
<1>2. \A d \in Conns : Fits(d)'
  <2> SUFFICES ASSUME NEW d \in Conns PROVE Fits(d)'
    OBVIOUS
  <2>1. Fits(d)
    BY DEF IntakeInv
  <2>2. CASE d \in B
    BY <1>1, <2>2 DEF Fits
  <2>3. CASE d \notin B
    BY <2>1, <2>3 DEF Fits
  <2> QED
    BY <2>2, <2>3
<1>3. OneEach'
  BY <1>1 DEF IntakeInv, OneEach
<1>4. Owed'
  BY DEF IntakeInv, Owed
<1>5. StoredAsTold'
  <2> SUFFICES ASSUME NEW m \in Mails, NEW a \in Addrs
               PROVE  LET told == IF <<m, a>> \in past'.told /\ post'[m].kind = "plain" THEN 1 ELSE 0
                      IN /\ db'.copies[m][a] >= told
                         /\ post'[m].kind = "plain" =>
                              db'.copies[m][a] = told + past'.lost[m][a] + Cardinality(Coming(m, a)')
                         /\ db'.copies[m][a] > 0 =>
                              /\ a \in post'[m].rcpts /\ ~post'[m].blocked
                              /\ post'[m].kind \notin {"empty", "loopEnv"}
                              /\ post'[m].kind = "loopRule" => m \in past'.unread
    BY DEF StoredAsTold
  <2> DEFINE told == IF <<m, a>> \in past.told /\ post[m].kind = "plain" THEN 1 ELSE 0
  <2>1. /\ db.copies[m][a] >= told
        /\ post[m].kind = "plain" =>
             db.copies[m][a] = told + past.lost[m][a] + Cardinality(Coming(m, a))
        /\ db.copies[m][a] > 0 =>
             /\ a \in post[m].rcpts /\ ~post[m].blocked
             /\ post[m].kind \notin {"empty", "loopEnv"}
             /\ post[m].kind = "loopRule" => m \in past.unread
    BY DEF IntakeInv, StoredAsTold
  <2>2. Coming(m, a)' = Coming(m, a) \ B
    BY <1>1, Zenon DEF Coming
  <2>3. /\ IsFiniteSet(Coming(m, a)) /\ Cardinality(Coming(m, a)) \in Nat
        /\ Cardinality(Coming(m, a) \cap B) \in Nat
    BY ComingCount, FS_Intersection, FS_CardinalityType
  <2>4. Cardinality(Coming(m, a)') = Cardinality(Coming(m, a)) - Cardinality(Coming(m, a) \cap B)
    BY <2>2, <2>3, FS_Difference
  <2>5. db.copies[m][a] \in Nat /\ past.lost[m][a] \in Nat
    BY DEF IntakeInv, Shape
  <2>6. past'.lost[m][a] = past.lost[m][a] + Cardinality(Coming(m, a) \cap B)
    OBVIOUS
  <2>7. PICK w, x, y, z : /\ w = Cardinality(Coming(m, a)) /\ x = Cardinality(Coming(m, a) \cap B)
                          /\ y = Cardinality(Coming(m, a)') /\ z = past.lost[m][a]
    OBVIOUS
  <2>8. past'.lost[m][a] + y = z + w
    BY <2>3, <2>4, <2>5, <2>6, <2>7
  <2>9. \A k \in {0, 1} : k + past'.lost[m][a] + y = k + z + w
    BY <2>3, <2>4, <2>5, <2>6, <2>7
  <2> QED
    BY <2>1, <2>7, <2>9
<1> QED
  BY <1>2, <1>3, <1>4, <1>5 DEF IntakeInv

\* The process as it ends and starts has no sessions.
LEMMA NoSessions ==
    /\ DOMAIN Booted = {"up", "sess", "rate", "grey", "admins"} /\ DOMAIN Down = DOMAIN Booted
    /\ Booted.up = "up" /\ Down.up = "down"
    /\ Booted.sess = [c \in Conns |-> Closed] /\ Down.sess = Booted.sess
    /\ Booted.sess \in [Conns -> Session]
<1>1. Closed \in Session
  BY DEF Session, Closed
<1> QED
  BY <1>1 DEF Booted, Down

\* What BrokenOff writes down.
LEMMA BrokenOffLost ==
    ASSUME IntakeInv, NEW B \in SUBSET Conns, BrokenOff(B)
    PROVE  /\ past'.lost \in [Mails -> [Addrs -> Nat]]
           /\ \A m \in Mails : \A a \in Addrs :
                 past'.lost[m][a] = past.lost[m][a] + Cardinality(Coming(m, a) \cap B)
           /\ past'.told = past.told /\ past'.unread = past.unread /\ DOMAIN past' = DOMAIN past
<1>1. DOMAIN past = {"told", "lost", "unread", "passed", "tries", "closed", "wrong"}
      /\ past.lost \in [Mails -> [Addrs -> Nat]]
  BY DEF IntakeInv, Shape
<1>2. \A m \in Mails : \A a \in Addrs : Cardinality(Coming(m, a) \cap B) \in Nat
  BY ComingCount, FS_Intersection, FS_CardinalityType
<1>3. PICK lost : lost = [m \in Mails |-> [a \in Addrs |->
                            past.lost[m][a] + Cardinality(Coming(m, a) \cap B)]]
  OBVIOUS
<1>4. \A m \in Mails : lost[m] = [a \in Addrs |-> past.lost[m][a] + Cardinality(Coming(m, a) \cap B)]
  BY <1>3
<1>5. past' = [past EXCEPT !.lost = lost]
  BY <1>3 DEF BrokenOff
<1>6. \A m \in Mails : lost[m] \in [Addrs -> Nat]
  <2> SUFFICES ASSUME NEW m \in Mails PROVE lost[m] \in [Addrs -> Nat]
    OBVIOUS
  <2>1. \A a \in Addrs : past.lost[m][a] \in Nat
    BY <1>1
  <2>2. \A a \in Addrs : past.lost[m][a] + Cardinality(Coming(m, a) \cap B) \in Nat
    BY <1>2, <2>1
  <2> QED
    BY <1>4, <2>2
<1>7. lost \in [Mails -> [Addrs -> Nat]]
  BY <1>3, <1>6
<1>8. past'.lost = lost /\ past'.told = past.told /\ past'.unread = past.unread /\ DOMAIN past' = DOMAIN past
  BY <1>1, <1>5
<1> QED
  BY <1>4, <1>7, <1>8

LEMMA CutKeeps ==
    ASSUME IntakeInv, NEW c \in Conns, Cut(c)
    PROVE  IntakeInv'
<1>1. server.up # "down" /\ BrokenOff({c}) /\ Turned(c, Closed) /\ UNCHANGED <<post, db, todo>>
  BY DEF Cut, Runs
<1>2. Becomes(c, Closed) /\ Closed \in Session
  BY <1>1, SessionTyped, TurnedBecomes
<1>3. \A d \in Conns : server'.sess[d] = IF d \in {c} THEN Closed ELSE server.sess[d]
  BY <1>2 DEF Becomes, IntakeInv, Shape
<1>4. Shape'
  BY <1>1, <1>2, TurnedBecomes, BrokenOffLost DEF Shape, IntakeInv
<1>5. server'.up # "down"
  BY <1>1, <1>2 DEF Becomes
<1> QED
  BY <1>1, <1>3, <1>4, <1>5, BreakingKeeps, BrokenOffLost

\* The process ends with every 250 that was on its way lost.
LEMMA EndKeeps ==
    ASSUME IntakeInv, Ends, BrokenOff(Conns)
    PROVE  IntakeInv'
<1>1. server' = Down /\ UNCHANGED <<post, db, todo>>
  BY DEF Ends
<1>2. \A d \in Conns : server'.sess[d] = IF d \in Conns THEN Closed ELSE server.sess[d]
  BY <1>1, NoSessions
<1>3. Shape'
  BY <1>1, NoSessions, BrokenOffLost DEF Shape, IntakeInv
<1> QED
  BY <1>1, <1>2, <1>3, BreakingKeeps, BrokenOffLost

\* The process ends, or starts, with no session open.
LEMMA AllClosedKeeps ==
    ASSUME IntakeInv, \A c \in Conns : server.sess[c].at = "closed", server' \in {Booted, Down},
           Shape', UNCHANGED <<post, todo, db.copies, past.told, past.lost, past.unread>>
    PROVE  IntakeInv'
<1>1. \A d \in Conns : server'.sess[d] = IF d \in Conns THEN Closed ELSE server.sess[d]
  BY NoSessions
<1>2. \A m \in Mails : \A a \in Addrs : Coming(m, a) \cap Conns = {}
  BY DEF Coming
<1>3. \A m \in Mails : \A a \in Addrs :
         past'.lost[m][a] = past.lost[m][a] + Cardinality(Coming(m, a) \cap Conns)
  <2> SUFFICES ASSUME NEW m \in Mails, NEW a \in Addrs
               PROVE  past'.lost[m][a] = past.lost[m][a] + Cardinality(Coming(m, a) \cap Conns)
    OBVIOUS
  <2>1. Cardinality(Coming(m, a) \cap Conns) = 0
    BY <1>2, FS_EmptySet
  <2>2. past.lost[m][a] \in Nat
    BY DEF IntakeInv, Shape
  <2> QED
    BY <2>1, <2>2
<1> QED
  BY <1>1, <1>3, BreakingKeeps

LEMMA StartKeeps ==
    ASSUME IntakeInv, Start
    PROVE  IntakeInv'
<1>1. /\ server.up = "down" /\ server' = Booted
      /\ db' = [db EXCEPT !.domains = SeedDomains(@)]
      /\ past' = [past EXCEPT !.passed = NoHistory.passed, !.tries = NoHistory.tries]
      /\ UNCHANGED <<post, todo>>
  BY DEF Start
<1>2. \A c \in Conns : server.sess[c].at = "closed"
  BY <1>1 DEF IntakeInv, Fits
<1>3. db'.copies = db.copies /\ DOMAIN db' = DOMAIN db
      /\ past'.told = past.told /\ past'.lost = past.lost /\ past'.unread = past.unread
      /\ DOMAIN past' = DOMAIN past
  BY <1>1 DEF IntakeInv, Shape
<1>4. Shape'
  BY <1>1, <1>3, NoSessions DEF Shape, IntakeInv
<1> QED
  BY <1>1, <1>2, <1>3, <1>4, AllClosedKeeps

LEMMA LeaveKeeps ==
    ASSUME IntakeInv, Leave
    PROVE  IntakeInv'
<1>1. CASE server.up = "late"
  BY <1>1, EndKeeps DEF Leave
<1>2. CASE server.up # "late"
  <2>1. /\ \A c \in Conns : server.sess[c].at = "closed"
        /\ server' = Down /\ UNCHANGED <<post, db, todo, past>>
    BY <1>2 DEF Leave, MayLeave, Ends
  <2>2. Shape'
    BY <2>1, NoSessions DEF Shape, IntakeInv
  <2> QED
    BY <2>1, <2>2, AllClosedKeeps
<1> QED
  BY <1>1, <1>2

\* Signals, the clock and the administrators leave every session alone.
LEMMA OthersKeep ==
    ASSUME IntakeInv,
           \/ Signal \/ Deadline \/ Tick
           \/ \E q \in Admins : AddDomain(q) \/ \E d \in Domains : AskAdd(q, d)
           \/ \E d \in Domains : DeactivateDomain(d)
    PROVE  IntakeInv'
<1>1. /\ DOMAIN server = {"up", "sess", "rate", "grey", "admins"} /\ DOMAIN db = {"domains", "copies"}
      /\ DOMAIN past = {"told", "lost", "unread", "passed", "tries", "closed", "wrong"}
  BY DEF IntakeInv, Shape
<1>2. /\ server'.sess = server.sess /\ DOMAIN server' = DOMAIN server
      /\ server'.up \in {"up", "closing", "late"} \/ server'.up = server.up
  <2>1. CASE Signal \/ Deadline
    BY <1>1, <2>1 DEF Signal, Deadline
  <2>2. CASE Tick
    BY <2>2 DEF Tick
  <2>3. CASE \E q \in Admins : AddDomain(q) \/ \E d \in Domains : AskAdd(q, d)
    BY <1>1, <2>3 DEF AddDomain, AskAdd
  <2>4. CASE \E d \in Domains : DeactivateDomain(d)
    BY <2>4 DEF DeactivateDomain
  <2> QED
    BY <2>1, <2>2, <2>3, <2>4
<1>3. /\ UNCHANGED <<post, todo>>
      /\ db'.copies = db.copies /\ DOMAIN db' = DOMAIN db
      /\ past'.told = past.told /\ past'.lost = past.lost /\ past'.unread = past.unread
      /\ DOMAIN past' = DOMAIN past
  <2>1. CASE Signal \/ Deadline \/ Tick
    BY <2>1 DEF Signal, Deadline, Tick
  <2>2. CASE \E q \in Admins : AddDomain(q) \/ \E d \in Domains : AskAdd(q, d)
    <3>1. UNCHANGED <<post, todo>>
      BY <2>2, Zenon DEF AddDomain, AskAdd
    <3>2. \/ \E dom, left : /\ db' = [db EXCEPT !.domains[dom] = "active"]
                           /\ past' = [past EXCEPT !.closed = left]
          \/ UNCHANGED <<db, past>>
      BY <2>2, Zenon DEF AddDomain, AskAdd
    <3> QED
      BY <1>1, <3>1, <3>2
  <2>3. CASE \E d \in Domains : DeactivateDomain(d)
    BY <1>1, <2>3 DEF DeactivateDomain
  <2> QED
    BY <2>1, <2>2, <2>3
<1>4. Shape'
  BY <1>2, <1>3 DEF IntakeInv, Shape
<1>5. SameBooks
  BY <1>3 DEF SameBooks
<1> QED
  BY <1>2, <1>4, <1>5, RestKeeps

LEMMA InitHolds == Init => IntakeInv
<1> SUFFICES ASSUME Init PROVE IntakeInv
  OBVIOUS
<1>1. /\ post \in Posts /\ server = Down
      /\ db = [domains |-> [d \in Domains |-> "none"],
               copies |-> [m \in Mails |-> [a \in Addrs |-> 0]]]
      /\ todo = [m \in Mails |-> post[m].rcpts]
      /\ past = NoHistory
  BY DEF Init
<1>2. post \in [Mails -> Post]
  BY <1>1, IntakeAssumption
<1>3. todo \in [Mails -> SUBSET Addrs]
  BY <1>1, <1>2 DEF Post
<1>4. /\ past.told = {} /\ past.unread = {} /\ past.lost = [m \in Mails |-> [a \in Addrs |-> 0]]
      /\ DOMAIN past = {"told", "lost", "unread", "passed", "tries", "closed", "wrong"}
  BY <1>1 DEF NoHistory
<1>5. db.copies = [m \in Mails |-> [a \in Addrs |-> 0]] /\ DOMAIN db = {"domains", "copies"}
  BY <1>1
<1>6. Shape
  BY <1>1, <1>2, <1>3, <1>4, <1>5, NoSessions DEF Shape
<1>7. \A c \in Conns : server.sess[c] = Closed
  BY <1>1, NoSessions
<1>8. Closed.at = "closed" /\ Closed.mail = NoMail /\ Closed.rcpts = {}
  BY DEF Closed
<1>9. (\A c \in Conns : Fits(c)) /\ OneEach
  BY <1>7, <1>8 DEF Fits, OneEach
<1>10. Owed
  BY <1>1, <1>4 DEF Owed
<1>11. \A m, a : Coming(m, a) = {}
  BY <1>7, <1>8 DEF Coming
<1>12. \A m \in Mails : \A a \in Addrs : Cardinality(Coming(m, a)) = 0
  BY <1>11, FS_EmptySet
<1>13. StoredAsTold
  BY <1>4, <1>5, <1>12 DEF StoredAsTold
<1> QED
  BY <1>6, <1>9, <1>10, <1>13 DEF IntakeInv

\* Every step of the program keeps what the books and the sessions say of each
\* other.
LEMMA StepKeeps == IntakeInv /\ [Next]_vars => IntakeInv'
<1> SUFFICES ASSUME IntakeInv, [Next]_vars PROVE IntakeInv'
  OBVIOUS
<1>1. CASE UNCHANGED vars
  <2>1. Shape' /\ SameBooks /\ server'.sess = server.sess /\ server'.up = server.up
    BY <1>1 DEF vars, IntakeInv, Shape, SameBooks
  <2> QED
    BY <2>1, RestKeeps
<1>2. CASE Start
  BY <1>2, StartKeeps
<1>3. CASE Crash
  BY <1>3, EndKeeps DEF Crash
<1>4. CASE Leave
  BY <1>4, LeaveKeeps
<1>5. CASE \/ Signal \/ Deadline \/ Tick
           \/ \E q \in Admins : AddDomain(q) \/ \E d \in Domains : AskAdd(q, d)
           \/ \E d \in Domains : DeactivateDomain(d)
  BY <1>5, OthersKeep
<1>6. ASSUME NEW c \in Conns,
             \/ \E ip \in Ips : NewSession(c, ip)
             \/ \E m \in Mails : MailFrom(c, m)
      PROVE  IntakeInv'
  BY <1>6, NewSessionKeeps, MailFromKeeps
<1>7. ASSUME NEW c \in Conns,
             Reset(c) \/ DataBegins(c) \/ Data(c) \/ DataEmpty(c) \/ DataFails(c)
      PROVE  IntakeInv'
  BY <1>7, ResetKeeps, DataBeginsKeeps, DataKeeps, DataEmptyKeeps, DataFailsKeeps
<1>8. ASSUME NEW c \in Conns, Acknowledged(c) \/ Quit(c) \/ Cut(c)
      PROVE  IntakeInv'
  BY <1>8, AcknowledgedKeeps, QuitKeeps, CutKeeps
<1>9. ASSUME NEW c \in Conns, NEW a \in Addrs, RcptBlocked(c, a) \/ RcptHeldBack(c, a) \/ Rcpt(c, a)
      PROVE  IntakeInv'
  BY <1>9, RcptBlockedKeeps, RcptHeldBackKeeps, RcptKeeps
<1> QED
  BY <1>1, <1>2, <1>3, <1>4, <1>5, <1>6, <1>7, <1>8, <1>9, Zenon DEF Next

\* The books and the sessions agree in every state of the program.
THEOREM BooksAgree == Spec => []IntakeInv
  BY InitHolds, StepKeeps, PTL DEF Spec

\* A plain mail a sending server got its 250 for is stored for each of its
\* recipients, once and once more for every 250 that was lost; nothing refused for
\* good is stored, and no auto-reply of a forward target while the rules can be
\* read (Data and Rcpt in smtpd.go, the shutdown of main.go).
THEOREM ToldHolds == Spec => []StoredAsTold
<1>1. IntakeInv => StoredAsTold
  BY DEF IntakeInv
<1> QED
  BY <1>1, BooksAgree, PTL

\* A set of numbers has a least one.
LEMMA LeastOne ==
    ASSUME NEW S \in SUBSET Nat, S # {}
    PROVE  \E i \in S : \A j \in S : i <= j
<1> DEFINE T == {0 .. i : i \in S}
<1>1. T \subseteq FiniteSubsetsOf(Nat) /\ T # {}
  <2> SUFFICES ASSUME NEW i \in S PROVE 0 .. i \in FiniteSubsetsOf(Nat)
    OBVIOUS
  <2>1. IsFiniteSet(0 .. i)
    BY FS_Interval
  <2> QED
    BY <2>1 DEF FiniteSubsetsOf
<1>2. PICK x \in T : \A y \in T : <<y, x>> \notin StrictSubsetOrdering(Nat)
  <2> HIDE DEF T
  <2> QED
    BY <1>1, FS_StrictSubsetOrderingWellFounded, WFMin
<1>3. PICK i \in S : x = 0 .. i
  OBVIOUS
<1>4. ASSUME NEW j \in S PROVE i <= j
  <2> SUFFICES ASSUME j < i PROVE FALSE
    OBVIOUS
  <2>1. 0 .. j \subseteq 0 .. i /\ i \in 0 .. i /\ i \notin 0 .. j
    OBVIOUS
  <2>2. <<0 .. j, 0 .. i>> \in StrictSubsetOrdering(Nat)
    <3>1. 0 .. i \subseteq Nat /\ 0 .. j \subseteq Nat /\ 0 .. j # 0 .. i
      BY <2>1
    <3> QED
      BY <2>1, <3>1, Zenon DEF StrictSubsetOrdering
  <2> QED
    BY <1>2, <1>3, <2>2
<1> QED
  BY <1>4

\* What is in the window still of times in order are the newest of them.
LEMMA WithinIs ==
    ASSUME NEW ts \in Seq(Nat), \A i, j \in DOMAIN ts : i < j => ts[i] <= ts[j],
           NEW w \in Nat, now \in Nat
    PROVE  \E j \in 0 .. Len(ts) :
              /\ \A i \in 1 .. j : now - ts[i] >= w
              /\ \A i \in (j + 1) .. Len(ts) : now - ts[i] < w
              /\ Within(ts, w) \in Seq(Nat) /\ Len(Within(ts, w)) = Len(ts) - j
              /\ \A n \in 1 .. (Len(ts) - j) : Within(ts, w)[n] = ts[j + n]
<1> DEFINE places == {i \in DOMAIN ts : now - ts[i] < w}
           Nth(n) == CHOOSE i \in places : Cardinality({v \in places : v <= i}) = n
<1>1. PICK L : L \in Nat /\ L = Len(ts) /\ DOMAIN ts = 1 .. L /\ \A i \in 1 .. L : ts[i] \in Nat
  OBVIOUS
<1>2. PICK j \in 0 .. L : places = (j + 1) .. L
  <2>1. CASE places = {}
    BY <1>1, <2>1
  <2>2. CASE places # {}
    <3>1. places \in SUBSET Nat
      BY <1>1
    <3>2. PICK i \in places : \A k \in places : i <= k
      <4> HIDE DEF places
      <4> QED
        BY <2>2, <3>1, LeastOne
    <3>3. i \in 1 .. L /\ now - ts[i] < w
      BY <1>1, <3>2
    <3>4. ASSUME NEW k \in i .. L PROVE k \in places
      <4>1. i \in DOMAIN ts /\ k \in DOMAIN ts /\ ts[i] \in Nat /\ ts[k] \in Nat /\ (i = k \/ i < k)
        BY <1>1, <3>3
      <4> QED
        BY <3>3, <4>1
    <3>5. places = i .. L
      BY <1>1, <3>2, <3>4
    <3>6. i - 1 \in 0 .. L /\ (i - 1) + 1 = i
      BY <1>1, <3>3
    <3> HIDE DEF places
    <3> QED
      BY <3>5, <3>6
  <2> QED
    BY <2>1, <2>2
<1>0. j \in Nat /\ j <= L
  BY <1>1
<1>3. \A i \in 1 .. j : now - ts[i] >= w
  <2> SUFFICES ASSUME NEW i \in 1 .. j PROVE now - ts[i] >= w
    OBVIOUS
  <2>1. i \notin (j + 1) .. L /\ i \in 1 .. L
    BY <1>0, <1>1
  <2>2. i \in DOMAIN ts /\ ts[i] \in Nat /\ i \notin places
    BY <1>1, <1>2, <2>1
  <2> QED
    BY <2>2
<1>4. Cardinality(places) = L - j
  <2>1. PICK a \in Int : a = j + 1
    BY <1>0
  <2>2. Cardinality(a .. L) = IF a > L THEN 0 ELSE L - a + 1
    <3>0. L \in Int
      BY <1>1
    <3>1. PICK b \in Int : b = L
      BY <3>0
    <3>2. Cardinality(a .. b) = IF a > b THEN 0 ELSE b - a + 1
      BY FS_Interval
    <3> QED
      BY <3>1, <3>2
  <2>3. Cardinality(a .. L) = L - j
    BY <1>0, <1>1, <2>1, <2>2
  <2> QED
    BY <1>2, <2>1, <2>3
<1>5. \A n \in 1 .. (L - j) : Nth(n) = j + n
  <2>1. \A i \in (j + 1) .. L : {v \in (j + 1) .. L : v <= i} = (j + 1) .. i
    BY <1>0, <1>1
  <2>2. \A i \in (j + 1) .. L : Cardinality({v \in (j + 1) .. L : v <= i}) = i - j
    <3> SUFFICES ASSUME NEW i \in (j + 1) .. L PROVE Cardinality((j + 1) .. i) = i - j
      BY <2>1
    <3> QED
      BY <1>0, <1>1, FS_Interval
  <2> SUFFICES ASSUME NEW n \in 1 .. (L - j) PROVE Nth(n) = j + n
    OBVIOUS
  <2>3. Nth(n) = CHOOSE i \in (j + 1) .. L : Cardinality({v \in (j + 1) .. L : v <= i}) = n
    BY <1>2
  <2>4. \A i \in (j + 1) .. L : Cardinality({v \in (j + 1) .. L : v <= i}) = n <=> i = j + n
    <3> SUFFICES ASSUME NEW i \in (j + 1) .. L, NEW h, h = i - j PROVE h = n <=> i = j + n
      BY <2>2
    <3> QED
      BY <1>0, <1>1
  <2>5. j + n \in (j + 1) .. L
    BY <1>0, <1>1
  <2> HIDE DEF Nth
  <2>6. PICK S, f : S = (j + 1) .. L /\ f = [i \in S |-> Cardinality({v \in (j + 1) .. L : v <= i})]
    OBVIOUS
  <2>7. Nth(n) = CHOOSE i \in S : f[i] = n
    BY <2>3, <2>6, Zenon
  <2>8. (\A i \in S : f[i] = n <=> i = j + n) /\ j + n \in S
    BY <2>4, <2>5, <2>6
  <2> QED
    BY <2>7, <2>8
<1>6. Within(ts, w) = [n \in 1 .. (L - j) |-> ts[Nth(n)]]
  BY <1>4 DEF Within
<1> HIDE DEF Nth, places
<1>7. PICK r : r = [n \in 1 .. (L - j) |-> ts[Nth(n)]]
  OBVIOUS
<1>8. \A n \in 1 .. (L - j) : r[n] = ts[j + n] /\ r[n] \in Nat
  BY <1>1, <1>5, <1>7
<1>9. r \in Seq(Nat) /\ Len(r) = L - j
  BY <1>0, <1>1, <1>7, <1>8
<1>10. \A i \in (j + 1) .. L : now - ts[i] < w
  BY <1>2 DEF places
<1> QED
  BY <1>1, <1>3, <1>6, <1>7, <1>8, <1>9, <1>10

(***************************************************************************)
(* The gate.  While the process runs, a table of a limit is the newest     *)
(* part of what the limit let pass since the start, and the greylist has   *)
(* of a triple the first of its contacts that is not forgotten.            *)
(***************************************************************************)
\* ps: when an address passed; ts: what the table has of it.  What was dropped is
\* out of the window.
RateFits(t, ps, ts) ==
    /\ \A i \in DOMAIN ps : ps[i] <= now
    /\ \A i, j \in DOMAIN ps : i < j => ps[i] <= ps[j]
    /\ Len(ts) <= RateMax[t]
    /\ \E k \in 0 .. Len(ps) :
          /\ Len(ts) = Len(ps) - k
          /\ \A i \in DOMAIN ts : ts[i] = ps[k + i]
          /\ \A i \in 1 .. k : now - ps[i] >= RateWindow[t]

\* tries: when a triple came
GreyFits(tries, grey, key) ==
    /\ \A t \in tries : t <= now
    /\ key \in DOMAIN grey => grey[key] \in tries
    /\ \A t \in tries : (\A u \in tries : u < t => t - u > GreyTTL) /\ now - t <= GreyTTL
                           => key \in DOMAIN grey /\ grey[key] = t

\* p: the memory of the process; h: the history
TablesFit(p, h) ==
    /\ p.rate \in [Tables -> [Ips -> Seq(Nat)]] /\ h.passed \in [Tables -> [Ips -> Seq(Nat)]]
    /\ h.tries \in [GreyKeys -> SUBSET Nat] /\ DOMAIN p.grey \subseteq GreyKeys
    /\ p.up # "down" =>
          /\ \A t \in Tables : \A ip \in Ips : RateFits(t, h.passed[t][ip], p.rate[t][ip])
          /\ \A key \in GreyKeys : GreyFits(h.tries[key], p.grey, key)

\* What was deactivated last is inactive.
DomainsFit ==
    /\ db.domains \in [Domains -> States]
    /\ server.admins \in [Admins -> [dom : Domains \cup {"none"}, saw : States]]
    /\ past.closed \subseteq Domains
    /\ \A d \in past.closed : db.domains[d] = "inactive"

GateInv ==
    /\ post \in Posts /\ now \in 0 .. MaxTime
    /\ server.up = "down" => server = Down
    /\ \A c \in Conns : server.sess[c].mail # NoMail => server.sess[c].ip \in Ips
    /\ TablesFit(server, past) /\ DomainsFit
    /\ GateKeepsItsWord

\* What came earlier is out of the window when what came later is.
LEMMA Longer ==
    ASSUME NEW x \in Nat, NEW y \in Nat, NEW n \in Nat, NEW w \in Nat, x <= y, n - y >= w
    PROVE  n - x >= w
  OBVIOUS

\* An address whose window has passed may as well have no entry.
LEMMA PurgedFits ==
    ASSUME NEW t \in Tables, NEW ps \in Seq(Nat), NEW ts \in Seq(Nat), RateFits(t, ps, ts), now \in Nat,
           ts # <<>>, now - Last(ts) >= RateWindow[t]
    PROVE  RateFits(t, ps, <<>>)
<1>1. PICK w \in Nat : w = RateWindow[t] /\ RateMax[t] \in Nat
  BY IntakeAssumption
<1>2. PICK k \in 0 .. Len(ps) : /\ Len(ts) = Len(ps) - k
                                /\ \A i \in DOMAIN ts : ts[i] = ps[k + i]
                                /\ \A i \in 1 .. k : now - ps[i] >= w
  BY <1>1 DEF RateFits
<1>9. PICK L \in Nat : L = Len(ps) /\ DOMAIN ps = 1 .. L
  OBVIOUS
<1>10. PICK M \in Nat : M = Len(ts) /\ DOMAIN ts = 1 .. M
  OBVIOUS
<1>3. L = Len(ps) /\ M = Len(ts) /\ DOMAIN ps = 1 .. L /\ DOMAIN ts = 1 .. M
  BY <1>9, <1>10
<1>11. \A i, j \in DOMAIN ps : i < j => ps[i] <= ps[j]
  BY DEF RateFits
<1>4. M # 0 /\ M = L - k /\ Last(ts) = ts[M]
  BY <1>2, <1>3, SMTT(60) DEF Last
<1>5. Last(ts) = ps[L]
  <2>1. M \in DOMAIN ts /\ k + M = L
    BY <1>2, <1>3, <1>4
  <2> QED
    BY <1>2, <1>4, <2>1
<1>6. ASSUME NEW i \in 1 .. L PROVE now - ps[i] >= w
  <2>1. i \in DOMAIN ps /\ L \in DOMAIN ps /\ (i = L \/ i < L) /\ ps[i] \in Nat /\ ps[L] \in Nat
    BY <1>3
  <2>2. ps[i] <= ps[L]
    <3>1. CASE i = L
      BY <2>1, <3>1
    <3>2. CASE i < L
      BY <1>11, <2>1, <3>2
    <3> QED
      BY <2>1, <3>1, <3>2
  <2>3. now - ps[L] >= w
    BY <1>1, <1>5
  <2>4. PICK x \in Nat, y \in Nat, n \in Nat : x = ps[i] /\ y = ps[L] /\ n = now
    BY <2>1
  <2>5. x <= y /\ n - y >= w
    BY <2>2, <2>3, <2>4
  <2>6. n - x >= w
    BY <2>5, Longer
  <2> QED
    BY <2>4, <2>6
<1>7. Len(<<>>) = 0 /\ DOMAIN <<>> = {} /\ Len(ps) \in 0 .. Len(ps)
  BY <1>3
<1>8. /\ Len(<<>>) = Len(ps) - L /\ (\A i \in DOMAIN <<>> : <<>>[i] = ps[L + i])
      /\ \A i \in 1 .. L : now - ps[i] >= w
  BY <1>3, <1>6, <1>7
<1>12. Len(<<>>) <= RateMax[t] /\ L \in 0 .. Len(ps)
  BY <1>1, <1>3, <1>7
<1> QED
  BY <1>1, <1>8, <1>11, <1>12 DEF RateFits

\* What is left of a table in the window still fits, and is as much as passed in
\* the window; so does the table with one more, where the limit allows it.
LEMMA WindowFits ==
    ASSUME NEW t \in Tables, NEW ps \in Seq(Nat), NEW ts \in Seq(Nat), RateFits(t, ps, ts), now \in Nat,
           NEW kept, kept = Within(ts, RateWindow[t])
    PROVE  /\ kept \in Seq(Nat) /\ RateFits(t, ps, kept)
           /\ Len(kept) = Cardinality({i \in DOMAIN ps : now - ps[i] < RateWindow[t]})
<1>1. PICK w \in Nat, most \in Nat : w = RateWindow[t] /\ most = RateMax[t]
  BY IntakeAssumption
<1>3. /\ \A i \in DOMAIN ps : ps[i] <= now
      /\ \A i, j \in DOMAIN ps : i < j => ps[i] <= ps[j]
      /\ Len(ts) <= most
  BY <1>1 DEF RateFits
<1>4. PICK L \in Nat : L = Len(ps) /\ DOMAIN ps = 1 .. L
  OBVIOUS
<1>5. PICK M \in Nat : M = Len(ts) /\ DOMAIN ts = 1 .. M
  OBVIOUS
<1>2. PICK k \in Nat : /\ k <= L /\ M = L - k
                       /\ \A i \in 1 .. M : ts[i] = ps[k + i]
                       /\ \A i \in 1 .. k : now - ps[i] >= w
  <2>1. PICK k \in 0 .. L : /\ M = L - k
                            /\ \A i \in 1 .. M : ts[i] = ps[k + i]
                            /\ \A i \in 1 .. k : now - ps[i] >= w
    BY <1>1, <1>4, <1>5 DEF RateFits
  <2>2. k \in Nat /\ k <= L
    BY <1>4
  <2> QED
    BY <2>1, <2>2, Zenon
<1>6. \A i, j \in DOMAIN ts : i < j => ts[i] <= ts[j]
  <2> SUFFICES ASSUME NEW i \in 1 .. M, NEW j \in 1 .. M, i < j PROVE ts[i] <= ts[j]
    BY <1>5
  <2>1. k + i \in DOMAIN ps /\ k + j \in DOMAIN ps /\ k + i < k + j
    BY <1>2, <1>4, <1>5
  <2> QED
    BY <1>2, <1>3, <2>1
<1>7. PICK j \in Nat : /\ j <= M
                       /\ \A i \in 1 .. j : now - ts[i] >= w
                       /\ \A i \in (j + 1) .. M : now - ts[i] < w
                       /\ kept \in Seq(Nat) /\ Len(kept) = M - j
                       /\ \A n \in 1 .. (M - j) : kept[n] = ts[j + n]
  <2>1. w \in Nat /\ kept = Within(ts, w)
    BY <1>1
  <2>2. \E j \in 0 .. Len(ts) :
            /\ \A i \in 1 .. j : now - ts[i] >= w
            /\ \A i \in (j + 1) .. Len(ts) : now - ts[i] < w
            /\ Within(ts, w) \in Seq(Nat) /\ Len(Within(ts, w)) = Len(ts) - j
            /\ \A n \in 1 .. (Len(ts) - j) : Within(ts, w)[n] = ts[j + n]
    BY <1>6, <2>1, WithinIs, Zenon
  <2>3. PICK j \in 0 .. M : /\ \A i \in 1 .. j : now - ts[i] >= w
                            /\ \A i \in (j + 1) .. M : now - ts[i] < w
                            /\ kept \in Seq(Nat) /\ Len(kept) = M - j
                            /\ \A n \in 1 .. (M - j) : kept[n] = ts[j + n]
    BY <1>5, <2>1, <2>2, ZenonT(60)
  <2>4. j \in Nat /\ j <= M
    BY <1>5
  <2> QED
    BY <2>3, <2>4, Zenon
<1>8. k + j \in 0 .. L /\ Len(kept) = L - (k + j) /\ DOMAIN kept = 1 .. (M - j) /\ Len(kept) <= most
  BY <1>2, <1>3, <1>4, <1>5, <1>7, SMTT(60)
<1>9. \A i \in DOMAIN kept : kept[i] = ps[(k + j) + i]
  <2> SUFFICES ASSUME NEW i \in 1 .. (M - j) PROVE kept[i] = ps[(k + j) + i]
    BY <1>8
  <2>1. kept[i] = ts[j + i]
    BY <1>7
  <2>3. j + i \in 1 .. M /\ k + (j + i) = (k + j) + i
    <3>1. i \in Nat /\ i >= 1 /\ i <= M - j
      OBVIOUS
    <3> QED
      BY <1>7, <3>1
  <2> QED
    BY <1>2, <2>1, <2>3
<1>10. \A i \in 1 .. (k + j) : now - ps[i] >= w
  <2> SUFFICES ASSUME NEW i \in 1 .. (k + j) PROVE now - ps[i] >= w
    OBVIOUS
  <2>1. CASE i \in 1 .. k
    BY <1>2, <2>1
  <2>2. CASE i \notin 1 .. k
    <3>1. i - k \in 1 .. j /\ i - k \in DOMAIN ts /\ k + (i - k) = i
      BY <1>5, <1>7, <2>2
    <3>2. ts[i - k] = ps[i]
      <4>1. i - k \in 1 .. M
        BY <1>5, <3>1
      <4> QED
        BY <1>2, <3>1, <4>1
    <3> QED
      BY <1>7, <3>1, <3>2
  <2> QED
    BY <2>1, <2>2
<1>11. \A i \in ((k + j) + 1) .. L : now - ps[i] < w
  <2> SUFFICES ASSUME NEW i \in ((k + j) + 1) .. L PROVE now - ps[i] < w
    OBVIOUS
  <2>1. i - k \in (j + 1) .. M /\ i - k \in 1 .. M /\ k + (i - k) = i
    <3>1. i \in Nat /\ i >= (k + j) + 1 /\ i <= L
      OBVIOUS
    <3> QED
      BY <1>2, <1>7, <3>1
  <2>2. ts[i - k] = ps[i]
    BY <1>2, <2>1
  <2> QED
    BY <1>7, <2>1, <2>2
<1>12. RateFits(t, ps, kept)
  BY <1>1, <1>3, <1>4, <1>8, <1>9, <1>10 DEF RateFits
<1>13. {i \in DOMAIN ps : now - ps[i] < w} = ((k + j) + 1) .. L
  <2>1. ASSUME NEW i \in 1 .. L PROVE now - ps[i] < w <=> i \in ((k + j) + 1) .. L
    <3>1. i \in 1 .. (k + j) \/ i \in ((k + j) + 1) .. L
      BY <1>8
    <3>2. i \in 1 .. (k + j) => i \notin ((k + j) + 1) .. L
      OBVIOUS
    <3>3. PICK d \in Int : d = now - ps[i]
      BY <1>4
    <3> QED
      BY <1>10, <1>11, <3>1, <3>2, <3>3
  <2>2. ((k + j) + 1) .. L \subseteq 1 .. L
    BY <1>8
  <2> QED
    BY <1>4, <2>1, <2>2
<1>14. Cardinality(((k + j) + 1) .. L) = L - (k + j)
  <2>1. PICK a \in Int, b \in Int : a = (k + j) + 1 /\ b = L
    <3>1. (k + j) + 1 \in Int /\ L \in Int
      BY <1>8
    <3> QED
      BY <3>1
  <2>2. Cardinality(a .. b) = IF a > b THEN 0 ELSE b - a + 1
    BY FS_Interval
  <2>3. (k + j) \in Nat /\ (k + j) <= L
    BY <1>8
  <2> QED
    BY <2>1, <2>2, <2>3
<1> QED
  BY <1>1, <1>7, <1>8, <1>12, <1>13, <1>14

LEMMA CountedFits ==
    ASSUME NEW t \in Tables, NEW ps \in Seq(Nat), NEW kept \in Seq(Nat), RateFits(t, ps, kept), now \in Nat,
           Len(kept) < RateMax[t]
    PROVE  RateFits(t, Append(ps, now), Append(kept, now))
<1>1. PICK w \in Nat, most \in Nat : w = RateWindow[t] /\ most = RateMax[t]
  BY IntakeAssumption
<1>2. /\ \A i \in DOMAIN ps : ps[i] <= now
      /\ \A i, j \in DOMAIN ps : i < j => ps[i] <= ps[j]
      /\ Len(kept) < most
  BY <1>1 DEF RateFits
<1>3. PICK L \in Nat : L = Len(ps) /\ DOMAIN ps = 1 .. L
  OBVIOUS
<1>4. PICK M \in Nat : M = Len(kept) /\ DOMAIN kept = 1 .. M
  OBVIOUS
<1>5. PICK k \in 0 .. L : /\ M = L - k
                          /\ \A i \in 1 .. M : kept[i] = ps[k + i]
                          /\ \A i \in 1 .. k : now - ps[i] >= w
  BY <1>1, <1>3, <1>4 DEF RateFits
<1>6. k \in Nat /\ k <= L
  BY <1>3
<1>7. PICK qs \in Seq(Nat) : qs = Append(ps, now)
  <2>1. Append(ps, now) \in Seq(Nat)
    OBVIOUS
  <2> QED
    BY <2>1
<1>8. PICK us \in Seq(Nat) : us = Append(kept, now)
  <2>1. Append(kept, now) \in Seq(Nat)
    OBVIOUS
  <2> QED
    BY <2>1
<1>9. /\ Len(qs) = L + 1 /\ DOMAIN qs = 1 .. (L + 1)
      /\ \A i \in 1 .. L : qs[i] = ps[i]
      /\ qs[L + 1] = now
  BY <1>3, <1>7
<1>10. /\ Len(us) = M + 1 /\ DOMAIN us = 1 .. (M + 1)
       /\ \A i \in 1 .. M : us[i] = kept[i]
       /\ us[M + 1] = now
  BY <1>4, <1>8
<1>11. \A i \in 1 .. (L + 1) : qs[i] <= now
  <2> SUFFICES ASSUME NEW i \in 1 .. (L + 1) PROVE qs[i] <= now
    OBVIOUS
  <2>1. CASE i \in 1 .. L
    BY <1>2, <1>3, <1>9, <2>1
  <2>2. CASE i = L + 1
    <3>1. qs[i] = now /\ now <= now
      BY <1>9, <2>2
    <3> QED
      BY <3>1
  <2>3. i \in 1 .. L \/ i = L + 1
    BY <1>3
  <2> QED
    BY <2>1, <2>2, <2>3
<1>12. \A i, j \in 1 .. (L + 1) : i < j => qs[i] <= qs[j]
  <2> SUFFICES ASSUME NEW i \in 1 .. (L + 1), NEW j \in 1 .. (L + 1), i < j PROVE qs[i] <= qs[j]
    OBVIOUS
  <2>1. i \in Nat /\ j \in Nat /\ i >= 1 /\ j <= L + 1 /\ i < j
    OBVIOUS
  <2>2. i \in 1 .. L /\ (j \in 1 .. L \/ j = L + 1)
    BY <1>3, <2>1, SMTT(60)
  <2> QED
    BY <1>2, <1>3, <1>9, <1>11, <2>2
<1>13. \A i \in 1 .. (M + 1) : us[i] = qs[k + i]
  <2> SUFFICES ASSUME NEW i \in 1 .. (M + 1) PROVE us[i] = qs[k + i]
    OBVIOUS
  <2>1. CASE i \in 1 .. M
    <3>1. k + i \in 1 .. L
      BY <1>5, <1>6, <2>1
    <3> QED
      BY <1>5, <1>9, <1>10, <2>1, <3>1
  <2>2. CASE i = M + 1
    <3>1. k + i = L + 1
      BY <1>5, <1>6, <2>2
    <3> QED
      BY <1>9, <1>10, <2>2, <3>1
  <2>3. i \in 1 .. M \/ i = M + 1
    <3>1. i \in Nat /\ i >= 1 /\ i <= M + 1
      OBVIOUS
    <3> QED
      BY <3>1
  <2> QED
    BY <2>1, <2>2, <2>3
<1>14. \A i \in 1 .. k : now - qs[i] >= w
  <2> SUFFICES ASSUME NEW i \in 1 .. k PROVE now - qs[i] >= w
    OBVIOUS
  <2>1. i \in 1 .. L
    BY <1>6
  <2> QED
    BY <1>5, <1>9, <2>1
<1>15. k \in 0 .. (L + 1) /\ M + 1 = (L + 1) - k /\ M + 1 <= most
  BY <1>1, <1>2, <1>4, <1>5, <1>6
<1>16. RateFits(t, qs, us)
  BY <1>1, <1>9, <1>10, <1>11, <1>12, <1>13, <1>14, <1>15 DEF RateFits
<1> QED
  BY <1>7, <1>8, <1>16

\* A hit refuses just when as many passed in the window as may, and leaves a table
\* that fits.
LEMMA HitFits ==
    ASSUME NEW t \in Tables, NEW tab \in [Ips -> Seq(Nat)], NEW passed \in [Ips -> Seq(Nat)], now \in Nat,
           \A x \in Ips : RateFits(t, passed[x], tab[x]), NEW ip \in Ips,
           NEW hit, hit = Hit(tab, ip, RateWindow[t], RateMax[t])
    PROVE  /\ hit.limited \in BOOLEAN /\ hit.table \in [Ips -> Seq(Nat)]
           /\ hit.limited <=> Cardinality({i \in DOMAIN passed[ip] : now - passed[ip][i] < RateWindow[t]}) >= RateMax[t]
           /\ \A x \in Ips : RateFits(t, IF x = ip /\ ~hit.limited THEN Append(passed[x], now) ELSE passed[x],
                                      hit.table[x])
<1>1. PICK w \in Nat, most \in Nat : w = RateWindow[t] /\ most = RateMax[t]
  BY IntakeAssumption
<1>2. PICK large \in BOOLEAN : large <=> Cardinality({i \in Ips : tab[i] # <<>>}) > TableMax
  OBVIOUS
<1>3. PICK s : s = IF large THEN Purged(tab, w) ELSE tab
  OBVIOUS
<1>4. s \in [Ips -> Seq(Nat)] /\ \A x \in Ips : RateFits(t, passed[x], s[x])
  <2>1. CASE ~large
    BY <1>3, <2>1
  <2>2. CASE large
    <3>1. s = [x \in Ips |-> IF tab[x] # <<>> /\ now - Last(tab[x]) >= w THEN <<>> ELSE tab[x]]
      BY <1>3, <2>2 DEF Purged
    <3>2. ASSUME NEW x \in Ips PROVE s[x] \in Seq(Nat) /\ RateFits(t, passed[x], s[x])
      <4>1. CASE tab[x] # <<>> /\ now - Last(tab[x]) >= w
        <5>1. s[x] = <<>>
          BY <3>1, <4>1
        <5>2. RateFits(t, passed[x], <<>>)
          <6>1. passed[x] \in Seq(Nat) /\ tab[x] \in Seq(Nat) /\ RateFits(t, passed[x], tab[x])
                /\ tab[x] # <<>> /\ now - Last(tab[x]) >= RateWindow[t]
            BY <1>1, <4>1
          <6> QED
            BY <6>1, PurgedFits, Zenon
        <5> QED
          BY <5>1, <5>2
      <4>2. CASE ~(tab[x] # <<>> /\ now - Last(tab[x]) >= w)
        BY <3>1, <4>2
      <4> QED
        BY <4>1, <4>2
    <3> QED
      BY <3>1, <3>2
  <2> QED
    BY <2>1, <2>2
<1>5. PICK kept : kept = Within(s[ip], w)
  OBVIOUS
<1>6. /\ kept \in Seq(Nat) /\ RateFits(t, passed[ip], kept)
      /\ Len(kept) = Cardinality({i \in DOMAIN passed[ip] : now - passed[ip][i] < w})
  <2>1. passed[ip] \in Seq(Nat) /\ s[ip] \in Seq(Nat) /\ RateFits(t, passed[ip], s[ip])
        /\ kept = Within(s[ip], RateWindow[t])
    BY <1>1, <1>4, <1>5
  <2>2. /\ kept \in Seq(Nat) /\ RateFits(t, passed[ip], kept)
        /\ Len(kept) = Cardinality({i \in DOMAIN passed[ip] : now - passed[ip][i] < RateWindow[t]})
    BY <2>1, WindowFits, Zenon
  <2> QED
    BY <1>1, <2>2, Zenon
<1>7. PICK limited \in BOOLEAN : limited <=> Len(kept) >= most
  OBVIOUS
<1>8. PICK u : u = IF limited THEN kept ELSE Append(kept, now)
  OBVIOUS
<1>9. hit.table = [s EXCEPT ![ip] = u] /\ (hit.limited <=> limited) /\ hit.limited \in BOOLEAN
  <2>1. Hit(tab, ip, w, most) = [table |-> [s EXCEPT ![ip] = Counted(kept, Len(kept) >= most)],
                                 limited |-> Len(kept) >= most]
    BY <1>2, <1>3, <1>5, Zenon DEF Hit
  <2>2. hit.table = [s EXCEPT ![ip] = Counted(kept, Len(kept) >= most)] /\ hit.limited = (Len(kept) >= most)
    <3>1. PICK tb, b : tb = [s EXCEPT ![ip] = Counted(kept, Len(kept) >= most)] /\ b = (Len(kept) >= most)
      OBVIOUS
    <3>2. hit = [table |-> tb, limited |-> b]
      BY <1>1, <2>1, <3>1, Zenon
    <3>3. hit.table = tb /\ hit.limited = b
      BY <3>2
    <3> QED
      BY <3>1, <3>3, Zenon
  <2>3. Counted(kept, Len(kept) >= most) = u
    BY <1>7, <1>8 DEF Counted
  <2>4. (Len(kept) >= most) \in BOOLEAN
    BY <1>6
  <2> QED
    BY <1>7, <2>2, <2>3, <2>4, Zenon
<1>10. u \in Seq(Nat) /\ RateFits(t, IF ~limited THEN Append(passed[ip], now) ELSE passed[ip], u)
  <2>1. CASE limited
    BY <1>6, <1>8, <2>1
  <2>2. CASE ~limited
    <3>1. Len(kept) < RateMax[t] /\ passed[ip] \in Seq(Nat)
      BY <1>1, <1>6, <1>7, <2>2
    <3>2. RateFits(t, Append(passed[ip], now), Append(kept, now))
      BY <1>6, <3>1, CountedFits, Zenon
    <3> QED
      BY <1>6, <1>8, <2>2, <3>2
  <2> QED
    BY <1>7, <2>1, <2>2
<1>11. hit.table \in [Ips -> Seq(Nat)] /\ hit.table[ip] = u /\ \A x \in Ips : x # ip => hit.table[x] = s[x]
  BY <1>4, <1>9, <1>10
<1>12. hit.limited <=> Cardinality({i \in DOMAIN passed[ip] : now - passed[ip][i] < RateWindow[t]}) >= RateMax[t]
  BY <1>1, <1>6, <1>7, <1>9
<1>13. \A x \in Ips : RateFits(t, IF x = ip /\ ~hit.limited THEN Append(passed[x], now) ELSE passed[x],
                               hit.table[x])
  <2> SUFFICES ASSUME NEW x \in Ips
               PROVE  RateFits(t, IF x = ip /\ ~hit.limited THEN Append(passed[x], now) ELSE passed[x], hit.table[x])
    OBVIOUS
  <2>1. CASE x = ip
    BY <1>7, <1>9, <1>10, <1>11, <2>1
  <2>2. CASE x # ip
    BY <1>4, <1>11, <2>2
  <2> QED
    BY <2>1, <2>2
<1> QED
  BY <1>9, <1>11, <1>12, <1>13

\* So does asking a limit, which lets all pass and keeps nothing when there is none.
LEMMA AskFits ==
    ASSUME NEW t \in Tables, NEW tab \in [Ips -> Seq(Nat)], tab = server.rate[t],
           NEW passed \in [Ips -> Seq(Nat)], passed = past.passed[t], now \in Nat,
           \A x \in Ips : RateFits(t, passed[x], tab[x]), NEW ip \in Ips, NEW hit, hit = Ask(t, ip)
    PROVE  /\ hit.limited \in BOOLEAN /\ hit.table \in [Ips -> Seq(Nat)]
           /\ RateIsRight(t, ip, hit.limited)
           /\ \A x \in Ips : RateFits(t, IF x = ip /\ ~(hit.limited \/ RateMax[t] = 0)
                                         THEN Append(passed[x], now) ELSE passed[x], hit.table[x])
<1>1. PICK most \in Nat : most = RateMax[t]
  BY IntakeAssumption
<1>2. CASE most = 0
  <2>1. hit.table = tab /\ hit.limited = FALSE
    BY <1>1, <1>2 DEF Ask
  <2>2. RateIsRight(t, ip, hit.limited)
    BY <1>1, <1>2, <2>1 DEF RateIsRight
  <2>3. \A x \in Ips : (IF x = ip /\ ~(hit.limited \/ RateMax[t] = 0)
                        THEN Append(passed[x], now) ELSE passed[x]) = passed[x]
    BY <1>1, <1>2
  <2> QED
    BY <2>1, <2>2, <2>3
<1>3. CASE most # 0
  <2>1. /\ tab \in [Ips -> Seq(Nat)] /\ passed \in [Ips -> Seq(Nat)] /\ now \in Nat
        /\ \A x \in Ips : RateFits(t, passed[x], tab[x])
        /\ hit = Hit(tab, ip, RateWindow[t], RateMax[t])
    BY <1>1, <1>3 DEF Ask
  <2>2. /\ hit.limited \in BOOLEAN /\ hit.table \in [Ips -> Seq(Nat)]
        /\ hit.limited <=> Cardinality({i \in DOMAIN passed[ip] : now - passed[ip][i] < RateWindow[t]}) >= RateMax[t]
        /\ \A x \in Ips : RateFits(t, IF x = ip /\ ~hit.limited THEN Append(passed[x], now) ELSE passed[x],
                                   hit.table[x])
    BY <2>1, HitFits, ZenonT(60)
  <2>3. RateMax[t] > 0
    BY <1>1, <1>3
  <2>4. RateIsRight(t, ip, hit.limited)
    BY <2>2, <2>3, Zenon DEF RateIsRight
  <2>5. \A x \in Ips : (IF x = ip /\ ~(hit.limited \/ RateMax[t] = 0)
                        THEN Append(passed[x], now) ELSE passed[x])
                     = (IF x = ip /\ ~hit.limited THEN Append(passed[x], now) ELSE passed[x])
    BY <1>1, <1>3
  <2> QED
    BY <2>2, <2>4, <2>5
<1> QED
  BY <1>2, <1>3

\* The greylist refuses as its word says, and what it has of each triple still fits.
LEMMA GreylistFits ==
    ASSUME NEW grey, DOMAIN grey \subseteq GreyKeys, NEW tries \in [GreyKeys -> SUBSET Nat], tries = past.tries,
           now \in Nat, \A k \in GreyKeys : GreyFits(tries[k], grey, k), NEW key \in GreyKeys,
           GreyEnabled, NEW g, g = Greylist(grey, key)
    PROVE  /\ g.refuse \in BOOLEAN /\ DOMAIN g.grey \subseteq GreyKeys
           /\ GreyIsRight(key, g.refuse)
           /\ \A k \in GreyKeys : GreyFits(IF k = key THEN tries[k] \cup {now} ELSE tries[k], g.grey, k)
<1>1. PICK ttl \in Nat, delay \in Nat, n \in Nat : ttl = GreyTTL /\ delay = GreyDelay /\ n = now
  <2>1. GreyTTL \in Nat /\ GreyDelay \in Nat
    BY IntakeAssumption
  <2> QED
    BY <2>1
<1>2. PICK kept : kept = {k \in DOMAIN grey : n - grey[k] <= ttl}
  OBVIOUS
<1>3. PICK first : first = IF key \in kept THEN grey[key] ELSE n
  OBVIOUS
<1>4. PICK after : after = [k \in kept \cup {key} |-> IF k = key THEN first ELSE grey[k]]
  OBVIOUS
<1>5. PICK refuse \in BOOLEAN : refuse <=> key \notin kept \/ n - grey[key] < delay
  OBVIOUS
<1>6. g.grey = after /\ g.refuse \in BOOLEAN /\ (g.refuse <=> refuse)
  <2>1. ~Exempt(key)
    BY IntakeAssumption DEF Exempt, GreyKeys
  <2>2. Greylist(grey, key) = [grey |-> after, refuse |-> key \notin kept \/ n - grey[key] < delay]
    BY <1>1, <1>2, <1>3, <1>4, <2>1, Zenon DEF Greylist, FirstSeen
  <2> QED
    BY <1>5, <2>2
<1>7. \A k \in GreyKeys : tries[k] \in SUBSET Nat
  OBVIOUS
<1>8. /\ \A k \in GreyKeys : \A t \in tries[k] : t <= n
      /\ \A k \in GreyKeys : k \in DOMAIN grey => grey[k] \in tries[k] /\ grey[k] \in Nat
      /\ \A k \in GreyKeys : \A t \in tries[k] :
            (\A u \in tries[k] : u < t => t - u > ttl) /\ n - t <= ttl => k \in DOMAIN grey /\ grey[k] = t
  BY <1>1, <1>7 DEF GreyFits
<1>9. kept \subseteq DOMAIN grey /\ DOMAIN after = kept \cup {key}
  BY <1>2, <1>4
<1>10. GreyIsRight(key, g.refuse)
  <2>1. ASSUME ~refuse PROVE \E t \in tries[key] : n - t >= delay /\ n - t <= ttl
    <3>1. key \in kept /\ ~(n - grey[key] < delay)
      BY <1>5, <2>1
    <3>2. grey[key] \in tries[key] /\ grey[key] \in Nat /\ n - grey[key] <= ttl
      BY <1>2, <1>8, <3>1
    <3> QED
      BY <3>1, <3>2
  <2>2. ASSUME refuse, NEW t \in tries[key], n - t >= delay, n - t <= ttl,
               \A u \in tries[key] : u < t => t - u > ttl
        PROVE  FALSE
    <3>1. key \in DOMAIN grey /\ grey[key] = t
      BY <1>8, <2>2
    <3>2. key \in kept
      BY <1>2, <2>2, <3>1
    <3>3. t \in Nat
      BY <1>7
    <3> QED
      BY <1>5, <2>2, <3>1, <3>2, <3>3
  <2> QED
    BY <1>1, <1>6, <2>1, <2>2 DEF GreyIsRight, Greylisted
<1>11. ASSUME NEW k \in GreyKeys, k # key PROVE GreyFits(tries[k], g.grey, k)
  <2>1. k \in DOMAIN after <=> k \in kept
    BY <1>9, <1>11
  <2>2. k \in kept => after[k] = grey[k]
    BY <1>4, <1>11
  <2>3. ASSUME NEW t \in tries[k], \A u \in tries[k] : u < t => t - u > ttl, n - t <= ttl
        PROVE  k \in DOMAIN after /\ after[k] = t
    <3>1. k \in DOMAIN grey /\ grey[k] = t
      BY <1>8, <2>3
    <3>2. k \in kept
      BY <1>2, <2>3, <3>1
    <3> QED
      BY <2>1, <2>2, <3>1, <3>2
  <2>4. k \in DOMAIN after => after[k] \in tries[k]
    BY <1>8, <1>9, <2>1, <2>2
  <2> QED
    BY <1>1, <1>6, <1>8, <2>3, <2>4 DEF GreyFits
<1>12. GreyFits(tries[key] \cup {now}, g.grey, key)
  <2>1. key \in DOMAIN after /\ after[key] = first
    BY <1>4, <1>9
  <2>2. first \in tries[key] \cup {n}
    BY <1>3, <1>8, <1>9
  <2>3. ASSUME NEW t \in tries[key] \cup {n}, \A u \in tries[key] \cup {n} : u < t => t - u > ttl, n - t <= ttl
        PROVE  first = t
    <3>1. t \in Nat
      BY <1>7
    <3>2. CASE t \in tries[key]
      <4>1. \A u \in tries[key] : u < t => t - u > ttl
        BY <2>3
      <4>2. key \in DOMAIN grey /\ grey[key] = t
        BY <1>8, <2>3, <3>2, <4>1
      <4>3. key \in kept
        BY <1>2, <2>3, <4>2
      <4> QED
        BY <1>3, <4>2, <4>3
    <3>3. CASE t = n /\ key \in kept
      <4>1. grey[key] \in tries[key] /\ grey[key] \in Nat /\ grey[key] <= n /\ n - grey[key] <= ttl
        BY <1>2, <1>8, <3>3
      <4>2. grey[key] < n => n - grey[key] > ttl
        BY <2>3, <3>3, <4>1
      <4>3. grey[key] = n
        BY <4>1, <4>2
      <4> QED
        BY <1>3, <3>3, <4>3
    <3>4. CASE t = n /\ key \notin kept
      BY <1>3, <3>4
    <3> QED
      BY <3>2, <3>3, <3>4
  <2>4. \A t \in tries[key] \cup {n} : t <= n
    BY <1>8
  <2> QED
    BY <1>1, <1>6, <2>1, <2>2, <2>3, <2>4 DEF GreyFits
<1>13. DOMAIN g.grey \subseteq GreyKeys
  BY <1>6, <1>9
<1> QED
  BY <1>6, <1>10, <1>11, <1>12, <1>13

\* What a recipient from outside meets keeps the tables, and nothing is noted
\* against the gate.
LEMMA GateFits ==
    ASSUME IntakeInv, GateInv, server.up # "down", NEW s, s.ip \in Ips, s.mail \in Mails, NEW a \in Addrs,
           NEW m, m = Gate(s, a)
    PROVE  /\ TablesFit(m.server, m.past) /\ m.passed \in BOOLEAN
           /\ m.server.admins = server.admins /\ m.past.closed = past.closed /\ m.past.wrong = {}
<1>1. /\ DOMAIN server = {"up", "sess", "rate", "grey", "admins"}
      /\ DOMAIN past = {"told", "lost", "unread", "passed", "tries", "closed", "wrong"}
      /\ TablesFit(server, past) /\ past.wrong = {} /\ now \in Nat
  BY DEF IntakeInv, Shape, GateInv, GateKeepsItsWord
<1>2. PICK key : key = <<s.ip, post[s.mail].from, a>>
  OBVIOUS
<1>3. PICK ip \in Ips : ip = s.ip
  OBVIOUS
<1>4. PICK g : g = Greylist(server.grey, key)
  OBVIOUS
<1>5. PICK rcpt, passed, tries : rcpt = server.rate.rcpt /\ passed = past.passed.rcpt /\ tries = past.tries
  OBVIOUS
<1>6. PICK hit, skip : hit = Ask("rcpt", ip) /\ skip \in BOOLEAN /\ (skip <=> hit.limited \/ RateMax["rcpt"] = 0)
  <2>1. PICK hit : hit = Ask("rcpt", ip)
    OBVIOUS
  <2>2. PICK skip \in BOOLEAN : skip <=> hit.limited \/ RateMax["rcpt"] = 0
    OBVIOUS
  <2> QED
    BY <2>1, <2>2
<1>7. PICK full \in BOOLEAN : full <=> MaxRcpts > 0 /\ Cardinality(s.rcpts) >= MaxRcpts
  OBVIOUS
<1>8. /\ rcpt \in [Ips -> Seq(Nat)] /\ passed \in [Ips -> Seq(Nat)] /\ tries \in [GreyKeys -> SUBSET Nat]
      /\ DOMAIN server.grey \subseteq GreyKeys
      /\ \A x \in Ips : RateFits("rcpt", passed[x], rcpt[x])
      /\ \A k \in GreyKeys : GreyFits(tries[k], server.grey, k)
  BY <1>1, <1>5 DEF TablesFit, Tables
<1>9. PICK ts : ts = [k \in GreyKeys |-> IF k = key /\ Greylisted(key) THEN tries[k] \cup {now} ELSE tries[k]]
  OBVIOUS
<1>10. /\ g.refuse \in BOOLEAN /\ DOMAIN g.grey \subseteq GreyKeys
       /\ GreyIsRight(key, g.refuse)
       /\ \A k \in GreyKeys : GreyFits(ts[k], g.grey, k)
  <2>1. CASE Greylisted(key)
    <3>1. key \in GreyKeys /\ GreyEnabled
      BY <2>1 DEF Greylisted
    <3>2. /\ g.refuse \in BOOLEAN /\ DOMAIN g.grey \subseteq GreyKeys
          /\ GreyIsRight(key, g.refuse)
          /\ \A k \in GreyKeys : GreyFits(IF k = key THEN tries[k] \cup {now} ELSE tries[k], g.grey, k)
      BY <1>1, <1>4, <1>5, <1>8, <3>1, GreylistFits, Zenon
    <3>3. \A k \in GreyKeys : ts[k] = IF k = key THEN tries[k] \cup {now} ELSE tries[k]
      BY <1>9, <2>1
    <3> QED
      BY <3>2, <3>3
  <2>2. CASE ~Greylisted(key)
    <3>1. Exempt(key)
      <4>1. post[s.mail].from \in Senders \cup {NoSender}
        BY DEF IntakeInv, Shape, Post
      <4>2. GreyEnabled => post[s.mail].from = NoSender
        BY <1>2, <2>2, <4>1 DEF Greylisted, GreyKeys
      <4>3. key[2] = post[s.mail].from
        BY <1>2
      <4> QED
        BY <4>2, <4>3 DEF Exempt
    <3>2. g.grey = server.grey /\ g.refuse = FALSE
      BY <1>4, <3>1 DEF Greylist
    <3>3. \A k \in GreyKeys : ts[k] = tries[k]
      BY <1>9, <2>2
    <3>4. GreyIsRight(key, g.refuse)
      BY <2>2, <3>2 DEF GreyIsRight
    <3> QED
      BY <1>8, <3>2, <3>3, <3>4
  <2> QED
    BY <2>1, <2>2
<1>11. /\ hit.limited \in BOOLEAN /\ hit.table \in [Ips -> Seq(Nat)]
       /\ RateIsRight("rcpt", ip, hit.limited)
       /\ \A x \in Ips : RateFits("rcpt", IF x = ip /\ ~skip THEN Append(passed[x], now) ELSE passed[x],
                                  hit.table[x])
  <2>1. PICK t \in Tables : t = "rcpt"
    BY DEF Tables
  <2>2. /\ rcpt \in [Ips -> Seq(Nat)] /\ passed \in [Ips -> Seq(Nat)] /\ now \in Nat
        /\ rcpt = server.rate[t] /\ passed = past.passed[t] /\ hit = Ask(t, ip)
        /\ \A x \in Ips : RateFits(t, passed[x], rcpt[x])
    BY <1>1, <1>5, <1>6, <1>8, <2>1
  <2>3. /\ hit.limited \in BOOLEAN /\ hit.table \in [Ips -> Seq(Nat)]
        /\ RateIsRight(t, ip, hit.limited)
        /\ \A x \in Ips : RateFits(t, IF x = ip /\ ~(hit.limited \/ RateMax[t] = 0)
                                      THEN Append(passed[x], now) ELSE passed[x], hit.table[x])
    BY <2>2, AskFits, ZenonT(60)
  <2>4. skip <=> hit.limited \/ RateMax[t] = 0
    BY <1>6, <2>1
  <2>5. \A x \in Ips : (IF x = ip /\ ~(hit.limited \/ RateMax[t] = 0) THEN Append(passed[x], now) ELSE passed[x])
                     = (IF x = ip /\ ~skip THEN Append(passed[x], now) ELSE passed[x])
    BY <2>4, Zenon
  <2>6. \A x \in Ips : RateFits(t, IF x = ip /\ ~skip THEN Append(passed[x], now) ELSE passed[x], hit.table[x])
    BY <2>3, <2>5
  <2> QED
    BY <2>1, <2>3, <2>6, Zenon
<1>12. PICK asked : asked = Tried(past, key)
  OBVIOUS
<1>13. PICK noted : noted = [asked EXCEPT !.passed["rcpt"][ip] = Append(@, now)]
  OBVIOUS
<1>16. PICK p : p = [server EXCEPT !.grey = g.grey]
  OBVIOUS
<1>17. PICK q : q = [server EXCEPT !.grey = g.grey, !.rate.rcpt = hit.table]
  OBVIOUS
<1>18. m = IF g.refuse \/ full THEN [server |-> p, past |-> asked, passed |-> FALSE]
           ELSE [server |-> q, past |-> IF skip THEN asked ELSE noted, passed |-> ~hit.limited]
  <2>1. Noted(Tried(past, key), GreyIsRight(key, g.refuse), "greylist") = asked
    BY <1>10, <1>12 DEF Noted
  <2>2. Noted(asked, RateIsRight("rcpt", ip, hit.limited), "rate") = asked
    BY <1>11 DEF Noted
  <2>3. LetPass(asked, "rcpt", ip, hit.limited) = IF skip THEN asked ELSE noted
    BY <1>6, <1>13, Zenon DEF LetPass
  <2> QED
    BY <1>2, <1>3, <1>4, <1>6, <1>7, <1>16, <1>17, <2>1, <2>2, <2>3, Zenon DEF Gate
<1>19. /\ asked.tries = ts /\ asked.passed = past.passed /\ asked.closed = past.closed /\ asked.wrong = {}
       /\ DOMAIN asked = DOMAIN past
       /\ ts \in [GreyKeys -> SUBSET Nat]
  <2>1. CASE Greylisted(key)
    <3>1. key \in GreyKeys
      BY <2>1 DEF Greylisted
    <3>2. ts = [tries EXCEPT ![key] = @ \cup {now}] /\ ts \in [GreyKeys -> SUBSET Nat]
      BY <1>1, <1>8, <1>9, <2>1, <3>1
    <3>3. asked = [past EXCEPT !.tries[key] = @ \cup {now}]
      BY <1>12, <2>1 DEF Tried
    <3> QED
      BY <1>1, <1>5, <3>2, <3>3
  <2>2. CASE ~Greylisted(key)
    <3>1. ts = tries
      BY <1>8, <1>9, <2>2
    <3>2. asked = past
      BY <1>12, <2>2 DEF Tried
    <3> QED
      BY <1>1, <1>5, <1>8, <3>1, <3>2
  <2> QED
    BY <2>1, <2>2
<1>20. /\ p.grey = g.grey /\ p.rate = server.rate /\ p.up = server.up /\ p.admins = server.admins
  BY <1>1, <1>16
<1>21. \A k \in GreyKeys : GreyFits(ts[k], g.grey, k)
  BY <1>10
<1>22. CASE g.refuse \/ full
  <2>1. TablesFit(p, asked)
    BY <1>1, <1>10, <1>19, <1>20, <1>21 DEF TablesFit
  <2>2. m.server = p /\ m.past = asked /\ m.passed = FALSE
    BY <1>18, <1>22
  <2> QED
    BY <1>19, <1>20, <2>1, <2>2
<1>23. CASE ~(g.refuse \/ full)
  <2>1. PICK h : h = IF skip THEN asked ELSE noted
    OBVIOUS
  <2>2. PICK ps : ps = IF skip THEN passed ELSE [passed EXCEPT ![ip] = Append(@, now)]
    OBVIOUS
  <2>3. /\ h.tries = ts /\ h.closed = past.closed /\ h.wrong = {}
        /\ h.passed = [past.passed EXCEPT !["rcpt"] = ps]
    <3>1. past.passed \in [Tables -> [Ips -> Seq(Nat)]]
      BY <1>1 DEF TablesFit
    <3>2. CASE skip
      BY <1>5, <1>19, <2>1, <2>2, <3>1, <3>2 DEF Tables
    <3>3. CASE ~skip
      BY <1>1, <1>5, <1>13, <1>19, <2>1, <2>2, <3>1, <3>3 DEF Tables
    <3> QED
      BY <3>2, <3>3
  <2>4. \A x \in Ips : ps[x] = (IF x = ip /\ ~skip THEN Append(passed[x], now) ELSE passed[x])
    BY <1>8, <2>2
  <2>5. ps \in [Ips -> Seq(Nat)]
    <3>1. Append(passed[ip], now) \in Seq(Nat)
      BY <1>1, <1>8
    <3> QED
      BY <1>8, <2>2, <3>1
  <2>6. /\ q.grey = g.grey /\ q.rate = [server.rate EXCEPT !["rcpt"] = hit.table]
        /\ q.up = server.up /\ q.admins = server.admins
    BY <1>1, <1>17
  <2>7. \A x \in Ips : RateFits("rcpt", ps[x], hit.table[x])
    BY <1>11, <2>4
  <2>8. TablesFit(q, h)
    <3>1. /\ server.rate \in [Tables -> [Ips -> Seq(Nat)]] /\ past.passed \in [Tables -> [Ips -> Seq(Nat)]]
          /\ \A t \in Tables : \A x \in Ips : RateFits(t, past.passed[t][x], server.rate[t][x])
      BY <1>1 DEF TablesFit
    <3>2. /\ q.rate \in [Tables -> [Ips -> Seq(Nat)]] /\ q.rate["rcpt"] = hit.table
          /\ \A t \in Tables : t # "rcpt" => q.rate[t] = server.rate[t]
      BY <1>11, <2>6, <3>1 DEF Tables
    <3>3. /\ h.passed \in [Tables -> [Ips -> Seq(Nat)]] /\ h.passed["rcpt"] = ps
          /\ \A t \in Tables : t # "rcpt" => h.passed[t] = past.passed[t]
      BY <2>3, <2>5, <3>1 DEF Tables
    <3>4. \A t \in Tables : \A x \in Ips : RateFits(t, h.passed[t][x], q.rate[t][x])
      BY <2>7, <3>1, <3>2, <3>3
    <3>5. \A k \in GreyKeys : GreyFits(h.tries[k], q.grey, k)
      BY <1>21, <2>3, <2>6
    <3> QED
      BY <1>10, <1>19, <2>3, <2>6, <3>2, <3>3, <3>4, <3>5 DEF TablesFit
  <2>9. m.server = q /\ m.past = h /\ m.passed = ~hit.limited
    BY <1>18, <1>23, <2>1
  <2> QED
    BY <1>11, <2>3, <2>6, <2>8, <2>9
<1> QED
  BY <1>22, <1>23

\* The tables fit as long as the clock stands still and they and their history do.
LEMMA TablesStay ==
    ASSUME NEW p, NEW h, TablesFit(p, h), now' = now, server'.rate = p.rate, server'.grey = p.grey,
           p.up = "down" => server'.up = "down", past'.passed = h.passed, past'.tries = h.tries
    PROVE  TablesFit(server, past)'
<1>1. \A t, ps, ts : RateFits(t, ps, ts)' <=> RateFits(t, ps, ts)
  BY ZenonT(60) DEF RateFits
<1>2. \A ts, grey, key : GreyFits(ts, grey, key)' <=> GreyFits(ts, grey, key)
  BY Zenon DEF GreyFits
<1> QED
  BY <1>1, <1>2 DEF TablesFit

\* What a step owes the gate: its tables, its domains and its sessions.
LEMMA PartsFit ==
    ASSUME GateInv, UNCHANGED <<post, now>>, TablesFit(server, past)', DomainsFit', past'.wrong = {},
           server'.up = "down" => server' = Down,
           \A c \in Conns : server'.sess[c].mail # NoMail => server'.sess[c].ip \in Ips
    PROVE  GateInv'
BY DEF GateInv, GateKeepsItsWord

\* A turn of a session that leaves tables and domains alone.
LEMMA TurnFits ==
    ASSUME IntakeInv, GateInv, NEW c \in Conns, NEW t, t.mail # NoMail => t.ip \in Ips, Turned(c, t),
           server.up # "down", UNCHANGED <<post, now, db.domains, past.passed, past.tries, past.closed, past.wrong>>
    PROVE  GateInv'
<1>1. /\ DOMAIN server = {"up", "sess", "rate", "grey", "admins"} /\ server.sess \in [Conns -> Session]
  BY DEF IntakeInv, Shape
<1>2. /\ server'.up = server.up /\ server'.rate = server.rate /\ server'.grey = server.grey
      /\ server'.admins = server.admins /\ server'.sess = [server.sess EXCEPT ![c] = t]
  BY <1>1 DEF Turned
<1>3. TablesFit(server, past)'
  BY <1>2, TablesStay DEF GateInv
<1>4. DomainsFit'
  BY <1>2 DEF GateInv, DomainsFit
<1>5. \A d \in Conns : server'.sess[d].mail # NoMail => server'.sess[d].ip \in Ips
  BY <1>1, <1>2 DEF GateInv
<1>6. past'.wrong = {}
  BY DEF GateInv, GateKeepsItsWord
<1> QED
  BY <1>2, <1>3, <1>4, <1>5, <1>6, PartsFit

\* Sessions that neither meet a table nor look a domain up.
LEMMA SessionsFit ==
    ASSUME IntakeInv, GateInv, NEW c \in Conns,
           \/ \E ip \in Ips : NewSession(c, ip)
           \/ \E m \in Mails : MailFrom(c, m)
           \/ Reset(c) \/ DataEmpty(c) \/ DataFails(c) \/ Acknowledged(c) \/ Quit(c) \/ Cut(c)
    PROVE  GateInv'
<1>1. DOMAIN past = {"told", "lost", "unread", "passed", "tries", "closed", "wrong"}
  BY DEF IntakeInv, Shape
<1>2. Idle(server.sess[c]).mail = NoMail /\ Closed.mail = NoMail
  BY SessionTyped
<1>3. ASSUME NEW ip \in Ips, NewSession(c, ip) PROVE GateInv'
  <2>1. [Closed EXCEPT !.at = "idle", !.ip = ip].mail = NoMail
    BY DEF Closed
  <2>2. PICK t : t = [Closed EXCEPT !.at = "idle", !.ip = ip]
    OBVIOUS
  <2>3. Turned(c, t) /\ server.up # "down" /\ UNCHANGED <<post, now, db, past>>
    BY <1>3, <2>2 DEF NewSession
  <2> QED
    BY <2>1, <2>2, <2>3, TurnFits
<1>4. ASSUME NEW m \in Mails, MailFrom(c, m) PROVE GateInv'
  <2>1. PICK t : t = Mail(server.sess[c], m)
    OBVIOUS
  <2>2. Turned(c, t) /\ server.up # "down" /\ UNCHANGED <<post, now, db, past>>
    BY <1>4, <2>1 DEF MailFrom, Runs
  <2>3. t.ip = server.sess[c].ip
    BY <2>1 DEF Mail
  <2>4. server.sess[c].ip = post[m].ip /\ post[m].ip \in Ips
    BY <1>4 DEF MailFrom, IntakeInv, Shape, Post
  <2> QED
    BY <2>2, <2>3, <2>4, TurnFits
<1>5. CASE Reset(c) \/ DataEmpty(c) \/ DataFails(c) \/ Quit(c)
  <2>1. \E t \in {Idle(server.sess[c]), Closed} : Turned(c, t)
    BY <1>5 DEF Reset, DataEmpty, DataFails, DataFailed, Quit
  <2>2. server.up # "down" /\ UNCHANGED <<post, now, db, past>>
    BY <1>5 DEF Reset, DataEmpty, DataFails, Quit, Runs
  <2> QED
    BY <1>2, <2>1, <2>2, TurnFits
<1>6. CASE Acknowledged(c)
  <2>1. /\ Turned(c, Idle(server.sess[c])) /\ server.up # "down" /\ UNCHANGED <<post, now, db>>
        /\ past' = [past EXCEPT !.told = @ \cup ({server.sess[c].mail} \X server.sess[c].rcpts)]
    BY <1>6 DEF Acknowledged, Runs
  <2>2. UNCHANGED <<past.passed, past.tries, past.closed, past.wrong>>
    BY <1>1, <2>1
  <2> QED
    BY <1>2, <2>1, <2>2, TurnFits
<1>7. CASE Cut(c)
  <2>1. Turned(c, Closed) /\ server.up # "down" /\ UNCHANGED <<post, now, db>> /\ BrokenOff({c})
    BY <1>7 DEF Cut, Runs
  <2>2. UNCHANGED <<past.passed, past.tries, past.closed, past.wrong>>
    BY <1>1, <2>1 DEF BrokenOff
  <2> QED
    BY <1>2, <2>1, <2>2, TurnFits
<1> QED
  BY <1>3, <1>4, <1>5, <1>6, <1>7

\* Recipients: what was met is kept, and no recipient is taken for a domain that
\* was deactivated last.
LEMMA MetFits ==
    ASSUME IntakeInv, GateInv, NEW c \in Conns, NEW a \in Addrs, Runs, MayTry(server.sess[c], a),
           NEW m, m = Met(server.sess[c], a)
    PROVE  /\ TablesFit(m.server, m.past)
           /\ m.server.admins = server.admins /\ m.past.closed = past.closed /\ m.past.wrong = {}
           /\ m.server.sess = server.sess /\ m.server.up = server.up
           /\ DOMAIN m.server = {"up", "sess", "rate", "grey", "admins"}
           /\ DOMAIN m.past = {"told", "lost", "unread", "passed", "tries", "closed", "wrong"}
<1>1. PICK s : s = server.sess[c]
  OBVIOUS
<1>2. /\ s.at = "mail" /\ s.mail \in Mails /\ s.mail # NoMail
  BY <1>1 DEF IntakeInv, Shape, Session, MayTry, Fits
<1>3. s.ip \in Ips /\ server.up # "down"
  BY <1>1, <1>2 DEF GateInv, Runs
<1>4. /\ DOMAIN server = {"up", "sess", "rate", "grey", "admins"}
      /\ DOMAIN past = {"told", "lost", "unread", "passed", "tries", "closed", "wrong"}
  BY DEF IntakeInv, Shape
<1>5. /\ m.server.sess = server.sess /\ m.server.up = server.up
      /\ DOMAIN m.server = DOMAIN server /\ DOMAIN m.past = DOMAIN past
  BY <1>1, MetKeeps
<1>6. CASE External(s.ip)
  <2>1. m = Gate(s, a)
    BY <1>1, <1>6 DEF Met
  <2>2. /\ TablesFit(m.server, m.past)
        /\ m.server.admins = server.admins /\ m.past.closed = past.closed /\ m.past.wrong = {}
    BY <1>2, <1>3, <2>1, GateFits
  <2> QED
    BY <1>4, <1>5, <2>2
<1>7. CASE ~External(s.ip)
  <2>1. m.server = server /\ m.past = past
    BY <1>1, <1>7 DEF Met
  <2> QED
    BY <1>4, <1>5, <2>1 DEF GateInv, GateKeepsItsWord
<1> QED
  BY <1>6, <1>7

LEMMA RcptFits ==
    ASSUME IntakeInv, GateInv, NEW c \in Conns, NEW a \in Addrs,
           RcptBlocked(c, a) \/ RcptHeldBack(c, a) \/ Rcpt(c, a)
    PROVE  GateInv'
<1>1. CASE RcptBlocked(c, a)
  <2>1. UNCHANGED <<post, now, server, db, past>>
    BY <1>1 DEF RcptBlocked
  <2>2. TablesFit(server, past)'
    BY <2>1, TablesStay DEF GateInv
  <2>3. DomainsFit'
    BY <2>1 DEF GateInv, DomainsFit
  <2> QED
    BY <2>1, <2>2, <2>3, PartsFit DEF GateInv, GateKeepsItsWord
<1>2. CASE RcptHeldBack(c, a) \/ Rcpt(c, a)
  <2>1. PICK m : m = Met(server.sess[c], a)
    OBVIOUS
  <2>2. Runs /\ MayTry(server.sess[c], a) /\ UNCHANGED <<post, now, db>>
    BY <1>2, Zenon DEF RcptHeldBack, Rcpt
  <2>3. /\ TablesFit(m.server, m.past)
        /\ m.server.admins = server.admins /\ m.past.closed = past.closed /\ m.past.wrong = {}
        /\ m.server.sess = server.sess /\ m.server.up = server.up
        /\ DOMAIN m.server = {"up", "sess", "rate", "grey", "admins"}
        /\ DOMAIN m.past = {"told", "lost", "unread", "passed", "tries", "closed", "wrong"}
    BY <2>1, <2>2, MetFits
  <2>4. \/ server' = m.server /\ past' = m.past
        \/ /\ DomainActive(DomainOf[a])
           /\ server' = [m.server EXCEPT !.sess[c].rcpts = @ \cup {a}]
           /\ past' = Noted(m.past, DomainOf[a] \notin past.closed, "domain")
    BY <1>2, <2>1, Zenon DEF RcptHeldBack, Rcpt
  <2>5. DomainActive(DomainOf[a]) => DomainOf[a] \notin past.closed
    BY DEF GateInv, DomainsFit, DomainActive
  <2>6. past' = m.past
    BY <2>4, <2>5 DEF Noted
  <2>7. /\ server'.rate = m.server.rate /\ server'.grey = m.server.grey /\ server'.admins = m.server.admins
        /\ server'.up = server.up
        /\ server'.sess = server.sess \/ server'.sess = [server.sess EXCEPT ![c].rcpts = @ \cup {a}]
    BY <2>3, <2>4
  <2>8. server.sess \in [Conns -> Session]
    BY DEF IntakeInv, Shape
  <2>9. \A d \in Conns : server'.sess[d].mail = server.sess[d].mail /\ server'.sess[d].ip = server.sess[d].ip
    BY <2>7, <2>8 DEF Session
  <2>10. TablesFit(server, past)'
    BY <2>2, <2>3, <2>6, <2>7, TablesStay
  <2>11. DomainsFit'
    BY <2>2, <2>3, <2>6, <2>7 DEF GateInv, DomainsFit
  <2>12. server'.up # "down"
    BY <2>2, <2>7 DEF Runs
  <2> QED
    BY <2>2, <2>3, <2>6, <2>9, <2>10, <2>11, <2>12, PartsFit DEF GateInv
<1> QED
  BY <1>1, <1>2

LEMMA DataBeginsFits ==
    ASSUME IntakeInv, GateInv, NEW c \in Conns, DataBegins(c)
    PROVE  GateInv'
<1>1. PICK s : s = server.sess[c]
  OBVIOUS
<1>2. /\ s \in Session /\ s.at = "mail" /\ s.mail # NoMail /\ server.up # "down"
      /\ UNCHANGED <<post, now, db>>
  BY <1>1, Zenon DEF IntakeInv, Shape, DataBegins, Fits, Runs
<1>3. PICK ip \in Ips : ip = s.ip
  BY <1>1, <1>2 DEF GateInv
<1>4. PICK u : u = [s EXCEPT !.at = "data"]
  OBVIOUS
<1>5. u.ip = ip /\ Idle(s).mail = NoMail
  BY <1>1, <1>2, <1>3, <1>4, SessionTyped
<1>6. CASE ~External(ip)
  <2>1. Turned(c, u) /\ UNCHANGED past
    BY <1>1, <1>3, <1>4, <1>6, Zenon DEF DataBegins
  <2> QED
    BY <1>2, <1>5, <2>1, TurnFits
<1>7. CASE External(ip)
  <2>1. /\ DOMAIN server = {"up", "sess", "rate", "grey", "admins"} /\ server.sess \in [Conns -> Session]
        /\ DOMAIN past = {"told", "lost", "unread", "passed", "tries", "closed", "wrong"}
        /\ TablesFit(server, past) /\ past.wrong = {} /\ now \in Nat
    BY DEF IntakeInv, Shape, GateInv, GateKeepsItsWord
  <2>2. PICK t \in Tables : t = "data"
    BY DEF Tables
  <2>3. PICK tab, passed : tab = server.rate[t] /\ passed = past.passed[t]
    OBVIOUS
  <2>4. PICK hit, skip : hit = Ask(t, ip) /\ skip \in BOOLEAN /\ (skip <=> hit.limited \/ RateMax[t] = 0)
    <3>1. PICK hit : hit = Ask(t, ip)
      OBVIOUS
    <3>2. PICK skip \in BOOLEAN : skip <=> hit.limited \/ RateMax[t] = 0
      OBVIOUS
    <3> QED
      BY <3>1, <3>2
  <2>5. /\ tab \in [Ips -> Seq(Nat)] /\ passed \in [Ips -> Seq(Nat)]
        /\ \A x \in Ips : RateFits(t, passed[x], tab[x])
    BY <1>2, <2>1, <2>3 DEF TablesFit
  <2>6. /\ hit.limited \in BOOLEAN /\ hit.table \in [Ips -> Seq(Nat)]
        /\ RateIsRight(t, ip, hit.limited)
        /\ \A x \in Ips : RateFits(t, IF x = ip /\ ~skip THEN Append(passed[x], now) ELSE passed[x],
                                   hit.table[x])
    <3>1. /\ tab \in [Ips -> Seq(Nat)] /\ passed \in [Ips -> Seq(Nat)] /\ now \in Nat
          /\ tab = server.rate[t] /\ passed = past.passed[t] /\ hit = Ask(t, ip)
          /\ \A x \in Ips : RateFits(t, passed[x], tab[x])
      BY <2>1, <2>3, <2>4, <2>5
    <3>2. /\ hit.limited \in BOOLEAN /\ hit.table \in [Ips -> Seq(Nat)]
          /\ RateIsRight(t, ip, hit.limited)
          /\ \A x \in Ips : RateFits(t, IF x = ip /\ ~(hit.limited \/ RateMax[t] = 0)
                                        THEN Append(passed[x], now) ELSE passed[x], hit.table[x])
      BY <3>1, AskFits, ZenonT(60)
    <3>3. \A x \in Ips : (IF x = ip /\ ~(hit.limited \/ RateMax[t] = 0) THEN Append(passed[x], now) ELSE passed[x])
                       = (IF x = ip /\ ~skip THEN Append(passed[x], now) ELSE passed[x])
      BY <2>4, Zenon
    <3> QED
      BY <3>2, <3>3
  <2>7. RateIsRight("data", ip, hit.limited)
    BY <2>2, <2>6
  <2>8. /\ server' = [server EXCEPT !.rate.data = hit.table,
                        !.sess[c] = IF hit.limited THEN Idle(s) ELSE u]
        /\ past' = IF skip THEN past ELSE [past EXCEPT !.passed["data"][ip] = Append(@, now)]
    <3>1. hit = Ask("data", ip)
      BY <2>2, <2>4
    <3>2. Noted(past, RateIsRight("data", ip, hit.limited), "rate") = past
      BY <2>7 DEF Noted
    <3>3. LetPass(past, "data", ip, hit.limited) =
             IF skip THEN past ELSE [past EXCEPT !.passed["data"][ip] = Append(@, now)]
      BY <2>2, <2>4, Zenon DEF LetPass
    <3> QED
      BY <1>1, <1>3, <1>4, <1>7, <3>1, <3>2, <3>3, Zenon DEF DataBegins
  <2>9. PICK ps : ps = IF skip THEN passed ELSE [passed EXCEPT ![ip] = Append(@, now)]
    OBVIOUS
  <2>10. \A x \in Ips : ps[x] = (IF x = ip /\ ~skip THEN Append(passed[x], now) ELSE passed[x])
    BY <2>4, <2>5, <2>9
  <2>11. ps \in [Ips -> Seq(Nat)]
    <3>1. Append(passed[ip], now) \in Seq(Nat)
      BY <2>1, <2>5
    <3> QED
      BY <2>5, <2>9, <3>1
  <2>12. /\ server.rate \in [Tables -> [Ips -> Seq(Nat)]] /\ past.passed \in [Tables -> [Ips -> Seq(Nat)]]
         /\ \A y \in Tables : \A x \in Ips : RateFits(y, past.passed[y][x], server.rate[y][x])
    BY <1>2, <2>1 DEF TablesFit
  <2>13. PICK w : w = IF hit.limited THEN Idle(s) ELSE u
    OBVIOUS
  <2>14. /\ server'.rate = [server.rate EXCEPT !["data"] = hit.table] /\ server'.grey = server.grey
         /\ server'.up = server.up /\ server'.admins = server.admins
         /\ server'.sess = [server.sess EXCEPT ![c] = w]
    BY <2>1, <2>8, <2>13
  <2>15. /\ past'.passed = [past.passed EXCEPT !["data"] = ps]
         /\ past'.tries = past.tries /\ past'.closed = past.closed /\ past'.wrong = {}
    <3>1. CASE skip
      BY <2>1, <2>2, <2>3, <2>8, <2>9, <2>12, <3>1
    <3>2. CASE ~skip
      BY <2>1, <2>2, <2>3, <2>8, <2>9, <2>12, <3>2
    <3> QED
      BY <3>1, <3>2
  <2>16. /\ server'.rate \in [Tables -> [Ips -> Seq(Nat)]] /\ server'.rate[t] = hit.table
         /\ \A y \in Tables : y # t => server'.rate[y] = server.rate[y]
    BY <2>2, <2>6, <2>12, <2>14
  <2>17. /\ past'.passed \in [Tables -> [Ips -> Seq(Nat)]] /\ past'.passed[t] = ps
         /\ \A y \in Tables : y # t => past'.passed[y] = past.passed[y]
    BY <2>2, <2>11, <2>12, <2>15
  <2>18. \A y \in Tables : \A x \in Ips : RateFits(y, past'.passed[y][x], server'.rate[y][x])
    <3>1. \A x \in Ips : RateFits(t, ps[x], hit.table[x])
      BY <2>6, <2>10
    <3> QED
      BY <2>12, <2>16, <2>17, <3>1
  <2>19. TablesFit(server', past')
    BY <2>1, <2>14, <2>15, <2>16, <2>17, <2>18 DEF TablesFit
  <2>20. TablesFit(server, past)'
    BY <1>2, <2>19, TablesStay
  <2>21. DomainsFit'
    BY <1>2, <2>14, <2>15 DEF GateInv, DomainsFit
  <2>22. w.mail # NoMail => w.ip \in Ips
    BY <1>5, <2>13
  <2>23. \A d \in Conns : server'.sess[d].mail # NoMail => server'.sess[d].ip \in Ips
    BY <2>1, <2>14, <2>22 DEF GateInv
  <2> QED
    BY <1>2, <2>14, <2>15, <2>20, <2>21, <2>23, PartsFit
<1> QED
  BY <1>6, <1>7

LEMMA DataFits ==
    ASSUME IntakeInv, GateInv, NEW c \in Conns, Data(c)
    PROVE  GateInv'
<1>1. PICK s \in Session : s = server.sess[c]
  BY DEF IntakeInv, Shape
<1>2. /\ DOMAIN db = {"domains", "copies"}
      /\ DOMAIN past = {"told", "lost", "unread", "passed", "tries", "closed", "wrong"}
  BY DEF IntakeInv, Shape
<1>3. server.up # "down" /\ s.at = "data" /\ s.mail # NoMail /\ UNCHANGED <<post, now>>
  BY <1>1, Zenon DEF Data, Runs, IntakeInv, Fits
<1>4. \E at \in {"dropped", "stored"} : Turned(c, [s EXCEPT !.at = at])
  BY <1>1, Zenon DEF Data
<1>5. PICK t : Turned(c, t) /\ t.ip = s.ip
  <2>1. PICK at \in {"dropped", "stored"} : Turned(c, [s EXCEPT !.at = at])
    BY <1>4
  <2>2. PICK u : u = [s EXCEPT !.at = at]
    OBVIOUS
  <2>3. u.ip = s.ip
    BY <2>2 DEF Session
  <2> QED
    BY <2>1, <2>2, <2>3, Zenon
<1>6. db'.domains = db.domains
  <2>1. db' = db \/ \E cs : db' = [db EXCEPT !.copies[s.mail] = cs]
    BY <1>1, Zenon DEF Data
  <2> QED
    BY <1>2, <2>1
<1>7. UNCHANGED <<past.passed, past.tries, past.closed, past.wrong>>
  <2>1. past' = past \/ past' = [past EXCEPT !.unread = @ \cup {s.mail}]
    BY <1>1, Zenon DEF Data
  <2> QED
    BY <1>2, <2>1
<1>8. t.ip \in Ips
  BY <1>1, <1>3, <1>5 DEF GateInv
<1> QED
  BY <1>3, <1>5, <1>6, <1>7, <1>8, TurnFits

\* Signals and administrators leave tables and sessions alone.
LEMMA AdminsFit ==
    ASSUME IntakeInv, GateInv,
           \/ Signal \/ Deadline
           \/ \E q \in Admins : AddDomain(q) \/ \E d \in Domains : AskAdd(q, d)
           \/ \E d \in Domains : DeactivateDomain(d)
    PROVE  GateInv'
<1>1. /\ DOMAIN server = {"up", "sess", "rate", "grey", "admins"} /\ DOMAIN db = {"domains", "copies"}
      /\ DOMAIN past = {"told", "lost", "unread", "passed", "tries", "closed", "wrong"}
  BY DEF IntakeInv, Shape
<1>2. /\ db.domains \in [Domains -> States]
      /\ server.admins \in [Admins -> [dom : Domains \cup {"none"}, saw : States]]
      /\ past.closed \subseteq Domains
      /\ \A d \in past.closed : db.domains[d] = "inactive"
  BY DEF GateInv, DomainsFit
<1>3. ASSUME UNCHANGED <<post, now>>, server'.sess = server.sess, server'.rate = server.rate,
             server'.grey = server.grey, server.up # "down", server'.up # "down",
             past'.passed = past.passed, past'.tries = past.tries, past'.wrong = past.wrong, DomainsFit'
      PROVE  GateInv'
  <2>1. TablesFit(server, past)'
    BY <1>3, TablesStay DEF GateInv
  <2> QED
    BY <1>3, <2>1, PartsFit DEF GateInv, GateKeepsItsWord
<1>4. CASE Signal \/ Deadline
  <2>1. /\ UNCHANGED <<post, now, db, past>> /\ server.up # "down"
        /\ \E up \in {"closing", "late"} : server' = [server EXCEPT !.up = up]
    BY <1>4 DEF Signal, Deadline
  <2>2. /\ server'.sess = server.sess /\ server'.rate = server.rate /\ server'.grey = server.grey
        /\ server'.up # "down" /\ server'.admins = server.admins
    BY <1>1, <2>1
  <2>3. DomainsFit'
    BY <2>1, <2>2 DEF GateInv, DomainsFit
  <2> QED
    BY <1>3, <2>1, <2>2, <2>3
<1>5. ASSUME NEW q \in Admins, NEW d \in Domains, AskAdd(q, d) PROVE GateInv'
  <2>1. /\ UNCHANGED <<post, now, db, past>> /\ server.up # "down"
        /\ server' = [server EXCEPT !.admins[q] = [dom |-> d, saw |-> db.domains[d]]]
    BY <1>5 DEF AskAdd
  <2>2. /\ server'.sess = server.sess /\ server'.rate = server.rate /\ server'.grey = server.grey
        /\ server'.up = server.up
        /\ server'.admins = [server.admins EXCEPT ![q] = [dom |-> d, saw |-> db.domains[d]]]
    BY <1>1, <2>1
  <2>3. [dom |-> d, saw |-> db.domains[d]] \in [dom : Domains \cup {"none"}, saw : States]
    BY <1>2
  <2>4. server'.admins \in [Admins -> [dom : Domains \cup {"none"}, saw : States]]
    BY <1>2, <2>2, <2>3
  <2>5. DomainsFit'
    BY <1>2, <2>1, <2>4 DEF DomainsFit
  <2> QED
    BY <1>3, <2>1, <2>2, <2>5
<1>6. ASSUME NEW q \in Admins, AddDomain(q) PROVE GateInv'
  <2>1. PICK ask \in [dom : Domains \cup {"none"}, saw : States] : ask = server.admins[q]
    BY <1>2
  <2>2. ask.dom \in Domains
    BY <1>6, <2>1 DEF AddDomain
  <2>3. PICK none : none = [dom |-> "none", saw |-> "none"]
    OBVIOUS
  <2>4. /\ UNCHANGED <<post, now>> /\ server.up # "down"
        /\ server' = [server EXCEPT !.admins[q] = none]
        /\ \/ /\ db' = [db EXCEPT !.domains[ask.dom] = "active"]
              /\ past' = [past EXCEPT !.closed = IF ask.saw = "inactive" THEN @ \ {ask.dom} ELSE @]
              /\ ask.saw = "inactive" \/ db.domains[ask.dom] = "none"
           \/ UNCHANGED <<db, past>>
    <3>1. Booted.admins[q] = none
      BY <2>3 DEF Booted
    <3> QED
      BY <1>6, <2>1, <3>1, Zenon DEF AddDomain, Runs, Writes
  <2>5. /\ server'.sess = server.sess /\ server'.rate = server.rate /\ server'.grey = server.grey
        /\ server'.up = server.up
        /\ server'.admins = [server.admins EXCEPT ![q] = none]
    BY <1>1, <2>4
  <2>6. none \in [dom : Domains \cup {"none"}, saw : States]
    BY <2>3 DEF States
  <2>7. server'.admins \in [Admins -> [dom : Domains \cup {"none"}, saw : States]]
    BY <1>2, <2>5, <2>6
  <2>8. /\ past'.passed = past.passed /\ past'.tries = past.tries /\ past'.wrong = past.wrong
        /\ db'.domains \in [Domains -> States] /\ past'.closed \subseteq Domains
        /\ \A d \in past'.closed : db'.domains[d] = "inactive"
    <3>1. CASE /\ db' = [db EXCEPT !.domains[ask.dom] = "active"]
               /\ past' = [past EXCEPT !.closed = IF ask.saw = "inactive" THEN @ \ {ask.dom} ELSE @]
               /\ ask.saw = "inactive" \/ db.domains[ask.dom] = "none"
      <4>1. PICK left : left = IF ask.saw = "inactive" THEN past.closed \ {ask.dom} ELSE past.closed
        OBVIOUS
      <4>2. /\ db'.domains = [db.domains EXCEPT ![ask.dom] = "active"] /\ past'.closed = left
            /\ past'.passed = past.passed /\ past'.tries = past.tries /\ past'.wrong = past.wrong
        BY <1>1, <3>1, <4>1
      <4>3. left \subseteq past.closed /\ ask.dom \notin left
        BY <1>2, <3>1, <4>1
      <4> QED
        BY <1>2, <2>2, <4>2, <4>3 DEF States
    <3>2. CASE UNCHANGED <<db, past>>
      BY <1>2, <3>2
    <3> QED
      BY <2>4, <3>1, <3>2
  <2>9. DomainsFit'
    BY <2>7, <2>8 DEF DomainsFit
  <2> QED
    BY <1>3, <2>4, <2>5, <2>8, <2>9
<1>7. ASSUME NEW d \in Domains, DeactivateDomain(d) PROVE GateInv'
  <2>1. /\ UNCHANGED <<post, now, server>> /\ server.up # "down"
        /\ db' = [db EXCEPT !.domains[d] = "inactive"] /\ past' = [past EXCEPT !.closed = @ \cup {d}]
    BY <1>7 DEF DeactivateDomain
  <2>2. /\ db'.domains = [db.domains EXCEPT ![d] = "inactive"] /\ past'.closed = past.closed \cup {d}
        /\ past'.passed = past.passed /\ past'.tries = past.tries /\ past'.wrong = past.wrong
    BY <1>1, <2>1
  <2>3. DomainsFit'
    BY <1>2, <2>1, <2>2 DEF DomainsFit, States
  <2> QED
    BY <1>3, <2>1, <2>2, <2>3
<1> QED
  BY <1>4, <1>5, <1>6, <1>7

\* Time passes: what is out of the window stays out.
LEMMA TickFits ==
    ASSUME IntakeInv, GateInv, Tick
    PROVE  GateInv'
<1>1. PICK n \in Nat, m \in Nat : n = now /\ m = MaxTime /\ n < m /\ now' = n + 1
  <2>1. MaxTime \in Nat
    BY IntakeAssumption
  <2>2. now \in 0 .. MaxTime /\ now < MaxTime /\ now' = now + 1
    BY DEF GateInv, Tick
  <2> QED
    BY <2>1, <2>2
<1>2. UNCHANGED <<post, server, db, past>> /\ now' \in 0 .. MaxTime
  BY <1>1 DEF Tick
<1>3. TablesFit(server, past)
  BY DEF GateInv
<1>4. ASSUME NEW t \in Tables, NEW ps \in Seq(Nat), NEW ts \in Seq(Nat), RateFits(t, ps, ts)
      PROVE  RateFits(t, ps, ts)'
  <2>1. PICK w \in Nat : w = RateWindow[t]
    BY IntakeAssumption
  <2>2. PICK L \in Nat : L = Len(ps) /\ DOMAIN ps = 1 .. L
    OBVIOUS
  <2>3. PICK k \in 0 .. L : /\ Len(ts) = L - k
                            /\ \A i \in DOMAIN ts : ts[i] = ps[k + i]
                            /\ \A i \in 1 .. k : n - ps[i] >= w
    BY <1>1, <1>4, <2>1, <2>2 DEF RateFits
  <2>4. \A i \in 1 .. L : ps[i] \in Nat /\ ps[i] <= n
    <3>1. \A i \in DOMAIN ps : ps[i] <= now
      BY <1>4 DEF RateFits
    <3>2. \A i \in 1 .. L : ps[i] \in Nat
      BY <2>2
    <3> QED
      BY <1>1, <2>2, <3>1, <3>2
  <2>5. \A i \in 1 .. L : ps[i] <= n + 1
    BY <2>4
  <2>6. \A i \in 1 .. k : (n + 1) - ps[i] >= w
    <3> SUFFICES ASSUME NEW i \in 1 .. k PROVE (n + 1) - ps[i] >= w
      OBVIOUS
    <3>1. i \in 1 .. L
      BY <2>3
    <3>2. PICK x \in Nat : x = ps[i]
      BY <2>4, <3>1
    <3>3. n - x >= w
      BY <2>3, <3>2
    <3> QED
      BY <3>2, <3>3
  <2>7. k \in 0 .. Len(ps) /\ \A i, j \in DOMAIN ps : i < j => ps[i] <= ps[j]
    BY <1>4, <2>2 DEF RateFits
  <2>8. Len(ts) <= RateMax[t]
    BY <1>4 DEF RateFits
  <2> QED
    BY <1>1, <2>1, <2>2, <2>3, <2>5, <2>6, <2>7, <2>8 DEF RateFits
<1>5. ASSUME NEW tries \in SUBSET Nat, NEW grey, NEW key, GreyFits(tries, grey, key)
      PROVE  GreyFits(tries, grey, key)'
  <2>1. PICK ttl \in Nat : ttl = GreyTTL
    BY IntakeAssumption
  <2>2. \A t \in tries : t \in Nat /\ t <= n /\ ((n + 1) - t <= ttl => n - t <= ttl)
    BY <1>1, <1>5 DEF GreyFits
  <2> QED
    BY <1>1, <1>5, <2>1, <2>2 DEF GreyFits
<1>6. TablesFit(server, past)'
  <2>1. server.up # "down" =>
          \A t \in Tables : \A ip \in Ips : RateFits(t, past.passed[t][ip], server.rate[t][ip])'
    <3> SUFFICES ASSUME server.up # "down", NEW t \in Tables, NEW ip \in Ips
                 PROVE  RateFits(t, past.passed[t][ip], server.rate[t][ip])'
      OBVIOUS
    <3>1. PICK ps, ts : ps = past.passed[t][ip] /\ ts = server.rate[t][ip]
      OBVIOUS
    <3>2. ps \in Seq(Nat) /\ ts \in Seq(Nat) /\ RateFits(t, ps, ts)
      BY <1>3, <3>1 DEF TablesFit
    <3>3. RateFits(t, ps, ts)'
      BY <1>4, <3>2
    <3>4. ps = past'.passed[t][ip] /\ ts = server'.rate[t][ip]
      BY <1>2, <3>1
    <3> QED
      BY <3>3, <3>4
  <2>2. server.up # "down" => \A key \in GreyKeys : GreyFits(past.tries[key], server.grey, key)'
    <3> SUFFICES ASSUME server.up # "down", NEW key \in GreyKeys
                 PROVE  GreyFits(past.tries[key], server.grey, key)'
      OBVIOUS
    <3>1. PICK ts, grey : ts = past.tries[key] /\ grey = server.grey
      OBVIOUS
    <3>2. ts \in SUBSET Nat /\ GreyFits(ts, grey, key)
      BY <1>3, <3>1 DEF TablesFit
    <3>3. GreyFits(ts, grey, key)'
      BY <1>5, <3>2
    <3>4. ts = past'.tries[key] /\ grey = server'.grey
      BY <1>2, <3>1
    <3> QED
      BY <3>3, <3>4
  <2> QED
    BY <1>2, <1>3, <2>1, <2>2 DEF TablesFit
<1>7. DomainsFit'
  BY <1>2 DEF GateInv, DomainsFit
<1> QED
  BY <1>2, <1>6, <1>7 DEF GateInv, GateKeepsItsWord

\* A process that ended has nothing, and neither has one that starts.
LEMMA EmptyTables ==
    ASSUME NEW p \in {Booted, Down}, NEW h, now \in Nat,
           p = Booted => h.passed = NoHistory.passed /\ h.tries = NoHistory.tries,
           h.passed \in [Tables -> [Ips -> Seq(Nat)]], h.tries \in [GreyKeys -> SUBSET Nat]
    PROVE  TablesFit(p, h) /\ p.admins \in [Admins -> [dom : Domains \cup {"none"}, saw : States]]
<1>1. PICK none : none = <<>>
  OBVIOUS
<1>2. none \in Seq(Nat) /\ Len(none) = 0 /\ DOMAIN none = {}
  BY <1>1
<1>3. PICK empty : empty = [t \in Tables |-> [ip \in Ips |-> none]]
  OBVIOUS
<1>4. PICK ads : ads = [q \in Admins |-> [dom |-> "none", saw |-> "none"]]
  OBVIOUS
<1>5. /\ p.rate = empty /\ p.grey = none /\ p.admins = ads
      /\ p.up # "down" => p = Booted
  <2>1. Booted.rate = empty /\ Booted.grey = none /\ Booted.admins = ads
    BY <1>1, <1>3, <1>4 DEF Booted, NoTables
  <2>2. Down.rate = Booted.rate /\ Down.grey = Booted.grey /\ Down.admins = Booted.admins /\ Down.up = "down"
    BY DEF Down, Booted
  <2> QED
    BY <2>1, <2>2
<1>6. empty \in [Tables -> [Ips -> Seq(Nat)]]
  BY <1>2, <1>3
<1>7. ads \in [Admins -> [dom : Domains \cup {"none"}, saw : States]]
  BY <1>4 DEF States
<1>8. ASSUME p.up # "down" PROVE /\ \A t \in Tables : \A ip \in Ips : RateFits(t, h.passed[t][ip], p.rate[t][ip])
                                 /\ \A key \in GreyKeys : GreyFits(h.tries[key], p.grey, key)
  <2>1. h.passed = NoHistory.passed /\ h.tries = NoHistory.tries
    BY <1>5, <1>8
  <2>2. h.passed = empty /\ \A key \in GreyKeys : h.tries[key] = {}
    BY <1>1, <1>3, <2>1 DEF NoHistory, NoTables
  <2>3. \A t \in Tables : RateFits(t, none, none)
    <3> SUFFICES ASSUME NEW t \in Tables PROVE RateFits(t, none, none)
      OBVIOUS
    <3>1. RateMax[t] \in Nat
      BY IntakeAssumption
    <3>2. 0 \in 0 .. Len(none) /\ Len(none) = Len(none) - 0 /\ Len(none) <= RateMax[t]
      BY <1>2, <3>1
    <3>3. \A i \in 1 .. 0 : now - none[i] >= RateWindow[t]
      OBVIOUS
    <3> QED
      BY <1>2, <3>2, <3>3 DEF RateFits
  <2>4. \A key \in GreyKeys : GreyFits({}, none, key)
    BY <1>2 DEF GreyFits
  <2>5. ASSUME NEW t \in Tables, NEW ip \in Ips PROVE RateFits(t, h.passed[t][ip], p.rate[t][ip])
    <3>1. h.passed[t][ip] = none /\ p.rate[t][ip] = none
      BY <1>3, <1>5, <2>2
    <3> QED
      BY <2>3, <3>1
  <2>6. ASSUME NEW key \in GreyKeys PROVE GreyFits(h.tries[key], p.grey, key)
    <3>1. h.tries[key] = {} /\ p.grey = none
      BY <1>5, <2>2
    <3> QED
      BY <2>4, <3>1
  <2> QED
    BY <2>5, <2>6
<1> QED
  BY <1>2, <1>5, <1>6, <1>7, <1>8 DEF TablesFit

\* The process starts or ends.
LEMMA ProcessFits ==
    ASSUME IntakeInv, GateInv, Start \/ Crash \/ Leave
    PROVE  GateInv'
<1>1. /\ DOMAIN db = {"domains", "copies"}
      /\ DOMAIN past = {"told", "lost", "unread", "passed", "tries", "closed", "wrong"}
      /\ TablesFit(server, past) /\ now \in Nat /\ past.wrong = {}
  BY DEF IntakeInv, Shape, GateInv, GateKeepsItsWord
<1>2. /\ UNCHANGED <<post, now>> /\ server' \in {Booted, Down}
      /\ past'.closed = past.closed /\ past'.wrong = {}
      /\ server' = Booted => past'.passed = NoHistory.passed /\ past'.tries = NoHistory.tries
      /\ past'.passed \in [Tables -> [Ips -> Seq(Nat)]] /\ past'.tries \in [GreyKeys -> SUBSET Nat]
      /\ db'.domains \in [Domains -> States]
      /\ \A d \in Domains : db.domains[d] = "inactive" => db'.domains[d] = "inactive"
  <2>1. CASE Start
    <3>1. PICK passed, tries : passed = NoHistory.passed /\ tries = NoHistory.tries
      OBVIOUS
    <3>2. passed \in [Tables -> [Ips -> Seq(Nat)]] /\ tries \in [GreyKeys -> SUBSET Nat]
      BY <3>1 DEF NoHistory, NoTables
    <3>3. past' = [past EXCEPT !.passed = passed, !.tries = tries]
          /\ db' = [db EXCEPT !.domains = SeedDomains(@)]
      BY <2>1, <3>1 DEF Start
    <3>4. past'.passed = passed /\ past'.tries = tries /\ past'.closed = past.closed /\ past'.wrong = {}
      BY <1>1, <3>3
    <3>5. db'.domains = SeedDomains(db.domains)
      BY <1>1, <3>3
    <3>6. db.domains \in [Domains -> States]
      BY DEF GateInv, DomainsFit
    <3>7. /\ SeedDomains(db.domains) \in [Domains -> States]
          /\ \A d \in Domains : db.domains[d] = "inactive" => SeedDomains(db.domains)[d] = "inactive"
      BY <3>6 DEF SeedDomains, States
    <3> QED
      BY <2>1, <3>1, <3>2, <3>4, <3>5, <3>7 DEF Start
  <2>2. CASE Crash \/ Leave
    <3>1. server' = Down /\ UNCHANGED <<post, db, now>> /\ (BrokenOff(Conns) \/ UNCHANGED past)
      BY <2>2 DEF Crash, Leave, Ends
    <3>2. past'.passed = past.passed /\ past'.tries = past.tries /\ past'.closed = past.closed /\ past'.wrong = {}
      BY <1>1, <3>1 DEF BrokenOff
    <3>3. Down # Booted
      <4>1. Down.up = "down" /\ Booted.up = "up"
        BY DEF Down, Booted
      <4> QED
        BY <4>1
    <3> QED
      BY <1>1, <3>1, <3>2, <3>3 DEF GateInv, DomainsFit, TablesFit
  <2> QED
    BY <2>1, <2>2
<1>3. TablesFit(server', past') /\ server'.admins \in [Admins -> [dom : Domains \cup {"none"}, saw : States]]
  BY <1>1, <1>2, EmptyTables
<1>4. TablesFit(server, past)'
  BY <1>2, <1>3, TablesStay
<1>5. DomainsFit'
  BY <1>2, <1>3 DEF GateInv, DomainsFit
<1>6. (server'.up = "down" => server' = Down) /\ \A c \in Conns : server'.sess[c].mail = NoMail
  <2>1. Booted.up = "up" /\ \A c \in Conns : Booted.sess[c] = Closed
    BY DEF Booted
  <2>2. \A c \in Conns : Down.sess[c] = Closed
    BY DEF Down, Booted
  <2>3. Closed.mail = NoMail
    BY DEF Closed
  <2> QED
    BY <1>2, <2>1, <2>2, <2>3
<1> QED
  BY <1>2, <1>4, <1>5, <1>6, PartsFit

LEMMA GateBegins == Init => GateInv
<1> SUFFICES ASSUME Init PROVE GateInv
  OBVIOUS
<1>1. /\ post \in Posts /\ server = Down /\ past = NoHistory /\ now = 0
      /\ db = [domains |-> [d \in Domains |-> "none"],
               copies |-> [m \in Mails |-> [a \in Addrs |-> 0]]]
  BY DEF Init
<1>2. /\ past.passed = [t \in Tables |-> [ip \in Ips |-> <<>>]] /\ past.tries = [k \in GreyKeys |-> {}]
      /\ past.closed = {} /\ past.wrong = {}
  BY <1>1 DEF NoHistory, NoTables
<1>3. past.passed \in [Tables -> [Ips -> Seq(Nat)]] /\ past.tries \in [GreyKeys -> SUBSET Nat]
  BY <1>2
<1>4. TablesFit(server, past) /\ server.admins \in [Admins -> [dom : Domains \cup {"none"}, saw : States]]
  <2>1. Down \in {Booted, Down} /\ now \in Nat
    BY <1>1
  <2>2. Down = Booted => past.passed = NoHistory.passed /\ past.tries = NoHistory.tries
    BY <1>1
  <2> QED
    BY <1>1, <1>3, <2>1, <2>2, EmptyTables
<1>5. DomainsFit
  <2>1. db.domains = [d \in Domains |-> "none"]
    BY <1>1
  <2> QED
    BY <1>2, <1>4, <2>1 DEF DomainsFit, States
<1>6. \A c \in Conns : server.sess[c].mail = NoMail
  <2>1. \A c \in Conns : Down.sess[c] = Closed
    BY DEF Down, Booted
  <2> QED
    BY <1>1, <2>1 DEF Closed
<1>7. now \in 0 .. MaxTime
  BY <1>1, IntakeAssumption
<1> QED
  BY <1>1, <1>2, <1>4, <1>5, <1>6, <1>7 DEF GateInv, GateKeepsItsWord

\* Every step of the program keeps the gate as its history says.
LEMMA GateSteps == IntakeInv /\ GateInv /\ [Next]_vars => GateInv'
<1> SUFFICES ASSUME IntakeInv, GateInv, [Next]_vars PROVE GateInv'
  OBVIOUS
<1>1. CASE UNCHANGED vars
  <2>1. UNCHANGED <<post, server, db, now, past>>
    BY <1>1 DEF vars
  <2>2. TablesFit(server, past)'
    BY <2>1, TablesStay DEF GateInv
  <2>3. DomainsFit'
    BY <2>1 DEF GateInv, DomainsFit
  <2> QED
    BY <2>1, <2>2, <2>3, PartsFit DEF GateInv, GateKeepsItsWord
<1>2. CASE Start \/ Crash \/ Leave
  BY <1>2, ProcessFits
<1>3. CASE Tick
  BY <1>3, TickFits
<1>4. CASE \/ Signal \/ Deadline
           \/ \E q \in Admins : AddDomain(q) \/ \E d \in Domains : AskAdd(q, d)
           \/ \E d \in Domains : DeactivateDomain(d)
  BY <1>4, AdminsFit
<1>5. ASSUME NEW c \in Conns,
             \/ \E ip \in Ips : NewSession(c, ip)
             \/ \E m \in Mails : MailFrom(c, m)
             \/ Reset(c) \/ DataEmpty(c) \/ DataFails(c) \/ Acknowledged(c) \/ Quit(c) \/ Cut(c)
      PROVE  GateInv'
  BY <1>5, SessionsFit
<1>6. ASSUME NEW c \in Conns, DataBegins(c) \/ Data(c)
      PROVE  GateInv'
  BY <1>6, DataBeginsFits, DataFits
<1>7. ASSUME NEW c \in Conns, NEW a \in Addrs, RcptBlocked(c, a) \/ RcptHeldBack(c, a) \/ Rcpt(c, a)
      PROVE  GateInv'
  BY <1>7, RcptFits
<1> QED
  BY <1>1, <1>2, <1>3, <1>4, <1>5, <1>6, <1>7, Zenon DEF Next

\* Limits, greylist and domains agree with their history in every state.
THEOREM GateAgrees == Spec => []GateInv
  BY BooksAgree, GateBegins, GateSteps, PTL DEF Spec

\* The gate decides as its settings say, whatever was purged, forgotten or started
\* again: a limit refuses just when so many passed in the window, the greylist lets
\* in, of mail with a sender, just what came before in time and refuses no bounce,
\* and no recipient is taken for a deactivated domain nobody took back (hit, greylisted and Rcpt in smtpd.go, SeedDomains in store.go).
THEOREM GateIsTrue == Spec => []GateKeepsItsWord
<1>1. GateInv => GateKeepsItsWord
  BY DEF GateInv
<1> QED
  BY <1>1, GateAgrees, PTL

\* Sessions, tables, greylist, domains and history have the shape that TypeOK says.
THEOREM IntakeIsTyped == Spec => []TypeOK
<1>1. IntakeInv /\ GateInv => TypeOK
  <2> SUFFICES ASSUME IntakeInv, GateInv PROVE TypeOK
    OBVIOUS
  <2>1. \A c \in Conns :
          LET s == server.sess[c] IN
          /\ s.at \in {"closed", "idle", "mail", "data", "stored", "dropped"}
          /\ s.at \in {"closed", "idle"} <=> s.mail = NoMail
          /\ s.mail = NoMail => s.rcpts = {}
          /\ s.mail # NoMail => s.rcpts \subseteq post[s.mail].rcpts
    <3> SUFFICES ASSUME NEW c \in Conns, NEW s \in Session, s = server.sess[c]
                 PROVE  /\ s.at \in {"closed", "idle", "mail", "data", "stored", "dropped"}
                        /\ s.at \in {"closed", "idle"} <=> s.mail = NoMail
                        /\ s.mail = NoMail => s.rcpts = {}
                        /\ s.mail # NoMail => s.rcpts \subseteq post[s.mail].rcpts
      BY DEF IntakeInv, Shape
    <3>1. /\ s.at \in {"closed", "idle"} <=> s.mail = NoMail
          /\ s.mail = NoMail => s.rcpts = {}
          /\ s.mail # NoMail => s.rcpts \subseteq todo[s.mail]
      BY DEF IntakeInv, Fits
    <3>2. s.mail # NoMail => todo[s.mail] \subseteq post[s.mail].rcpts
      BY DEF Session, IntakeInv, Owed
    <3> QED
      BY <3>1, <3>2 DEF Session
  <2>2. ASSUME NEW t \in Tables, NEW ip \in Ips
        PROVE  LET ts == server.rate[t][ip] IN Len(ts) <= RateMax[t] /\ \A i \in DOMAIN ts : ts[i] <= now
    <3>1. CASE server.up = "down"
      <4>1. server.rate[t][ip] = <<>>
        BY <3>1 DEF GateInv, Down, Booted, NoTables
      <4>2. RateMax[t] \in Nat
        BY IntakeAssumption
      <4> QED
        BY <4>1, <4>2
    <3>2. CASE server.up # "down"
      <4>1. PICK ps, ts : ps = past.passed[t][ip] /\ ts = server.rate[t][ip]
        OBVIOUS
      <4>2. RateFits(t, ps, ts) /\ ps \in Seq(Nat) /\ ts \in Seq(Nat)
        BY <3>2, <4>1 DEF GateInv, TablesFit
      <4>3. PICK L \in Nat : L = Len(ps) /\ DOMAIN ps = 1 .. L
        BY <4>2
      <4>4. PICK k \in 0 .. L : Len(ts) = L - k /\ \A i \in DOMAIN ts : ts[i] = ps[k + i]
        BY <4>2, <4>3 DEF RateFits
      <4>5. ASSUME NEW i \in DOMAIN ts PROVE ts[i] <= now
        <5>1. i \in Nat /\ i >= 1 /\ i <= L - k
          BY <4>2, <4>4
        <5>2. k + i \in 1 .. L
          BY <4>3, <5>1
        <5> QED
          BY <4>2, <4>3, <4>4, <5>2 DEF RateFits
      <4> QED
        BY <4>1, <4>2, <4>5 DEF RateFits
    <3> QED
      BY <3>1, <3>2
  <2>3. /\ post \in Posts /\ now \in 0 .. MaxTime /\ server.up \in {"down", "up", "closing", "late"}
        /\ DOMAIN server.grey \subseteq GreyKeys /\ db.domains \in [Domains -> States]
        /\ db.copies \in [Mails -> [Addrs -> Nat]] /\ todo \in [Mails -> SUBSET Addrs]
        /\ past.told \subseteq Mails \X Addrs /\ past.closed \subseteq Domains
        /\ past.lost \in [Mails -> [Addrs -> Nat]] /\ past.unread \subseteq Mails
    BY DEF IntakeInv, Shape, GateInv, TablesFit, DomainsFit
  <2> QED
    BY <2>1, <2>2, <2>3 DEF TypeOK
<1> QED
  BY <1>1, BooksAgree, GateAgrees, PTL
================================================================================
