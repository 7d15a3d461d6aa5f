-------------------------- MODULE InboxWatchProofs --------------------------
(***************************************************************************)
(* WatchInv and NewsInv are invariants of InboxWatch, and with them the    *)
(* type invariant and the four safety properties that TLC checks on a      *)
(* small instance.                                                         *)
(***************************************************************************)
EXTENDS InboxInvariant, FiniteSetTheorems, WellFoundedInduction, TLAPS

\* The order the least element of a set of numbers is taken from.
Smaller == {pair \in Nat \X Nat : pair[1] < pair[2]}

\* Smaller has no endless descent.
LEMMA SmallerWellFounded == IsWellFoundedOn(Smaller, Nat)
  BY NatLessThanWellFounded DEF OpToRel, Smaller

\* A set of uids that is not empty has a greatest, and Top names it.
LEMMA TopGreatest ==
    ASSUME NEW S \in SUBSET Uids, S # {}
    PROVE  /\ Top(S) \in S
           /\ \A u \in S : u <= Top(S)
<1>0. MaxUid \in Nat /\ \A u \in S : u \in Nat /\ MaxUid - u \in Nat
  BY WatchAssumption DEF Uids
<1> DEFINE T == {n \in Nat : \E u \in S : n = MaxUid - u}
<1>1. T \subseteq Nat /\ T # {}
  BY <1>0
<1>2. PICK x \in T : \A y \in T : ~(<<y, x>> \in Smaller)
  <2> HIDE DEF T
  <2> QED BY <1>1, SmallerWellFounded, WFMin
<1>3. PICK t \in S : x = MaxUid - t
  BY <1>2
<1>4. \A u \in S : u <= t
  <2> SUFFICES ASSUME NEW u \in S PROVE u <= t
    OBVIOUS
  <2>1. MaxUid - u \in T /\ MaxUid - u \in Nat /\ x \in Nat
    BY <1>0, <1>1, <1>2
  <2>2. ~(MaxUid - u < x)
    BY <2>1, <1>2 DEF Smaller
  <2> QED
    BY <2>2, <1>0, <1>3
<1>5. \E v \in S : \A u \in S : u <= v
  BY <1>4
<1> DEFINE w == CHOOSE v \in S : \A u \in S : u <= v
<1>6. w \in S /\ \A u \in S : u <= w
  BY <1>5
<1>7. Top(S) = w
  BY DEF Top
<1> QED
  BY <1>6, <1>7

\* The count the server gives of an INBOX is a number.
LEMMA CountIsInt ==
    ASSUME NEW S \in SUBSET Uids
    PROVE  Cardinality(S) \in Int
<1>1. MaxUid \in Int /\ 1 \in Int
  BY WatchAssumption
<1>2. IsFiniteSet(Uids)
  BY <1>1, FS_Interval DEF Uids
<1>3. IsFiniteSet(S)
  BY <1>2, FS_Subset
<1> QED
  BY <1>3, FS_CardinalityType

\* No handler but TrackNewMail touches the uid and the validity of the watcher.
LEMMA HandlersKeep ==
    ASSUME NEW my \in Fields, NEW count \in Int, closed \in BOOLEAN
    PROVE  /\ QueueNewMail(my) \in Fields
           /\ QueueNewMail(my).lastUid = my.lastUid
           /\ QueueNewMail(my).uidValidity = my.uidValidity
           /\ NoteExpunge(my, count) \in Fields
           /\ NoteExpunge(my, count).lastUid = my.lastUid
           /\ NoteExpunge(my, count).uidValidity = my.uidValidity
           /\ NoteInboxExists(my, count) \in Fields
           /\ NoteInboxExists(my, count).lastUid = my.lastUid
           /\ NoteInboxExists(my, count).uidValidity = my.uidValidity
           /\ Ended(my) \in Fields
           /\ Ended(my).lastUid = my.lastUid
           /\ Ended(my).uidValidity = my.uidValidity
<1>1. \A y \in Fields : /\ QueueNewMail(y) \in Fields
                        /\ QueueNewMail(y).lastUid = y.lastUid
                        /\ QueueNewMail(y).uidValidity = y.uidValidity
  BY DEF QueueNewMail, Fields
<1>2. LET y == [my EXCEPT !.inboxExists = count]
      IN  /\ y \in Fields
          /\ y.lastUid = my.lastUid /\ y.uidValidity = my.uidValidity
  BY DEF Fields
<1>3. LET y == [my EXCEPT !.reportAgain = FALSE]
      IN  /\ y \in Fields
          /\ y.lastUid = my.lastUid /\ y.uidValidity = my.uidValidity
  BY DEF Fields
<1>4. /\ NoteInboxExists(my, count) \in Fields
      /\ NoteInboxExists(my, count).lastUid = my.lastUid
      /\ NoteInboxExists(my, count).uidValidity = my.uidValidity
  BY <1>1, <1>2 DEF NoteInboxExists
<1>5. /\ Ended(my) \in Fields
      /\ Ended(my).lastUid = my.lastUid
      /\ Ended(my).uidValidity = my.uidValidity
  BY <1>1, <1>3 DEF Ended
<1> QED
  BY <1>1, <1>2, <1>4, <1>5 DEF NoteExpunge

\* The invariant holds at the start.
LEMMA InitInv == Init => WatchInv
<1> SUFFICES ASSUME Init PROVE WatchInv
  OBVIOUS
<1>1. WatchTypes
  <2>1. 1 \in Uids /\ Uids \subseteq Nat
    BY WatchAssumption DEF Uids
  <2>2. inbox \subseteq Uids /\ uidNext \in Nat \ {0} /\ (\A u \in inbox : u < uidNext)
    BY <2>1 DEF Init
  <2>3. me \in Fields
    BY DEF Init, Blank, Fields, NoUid, NoCount
  <2>4. past \in [old : SUBSET Mails, told : SUBSET Mails, lost : SUBSET Mails,
                  cut : SUBSET Mails, base : Nat \cup {NoUid, NoBase}, missed : BOOLEAN]
    BY DEF Init, NoPast, NoUid
  <2>5. report \in [stage : {"none", "base", "fetch", "post"},
                    found : SUBSET Mails, keys : SUBSET Mails]
    BY DEF Init, NoReport
  <2>6. conn \in [state : {"none", "connecting", "opening", "live", "deaf", "dead"},
                  awaited : BOOLEAN, exists : Int]
    BY DEF Init, Dialling
  <2>7. <<>> \in Seq(Int)
    OBVIOUS
  <2>8. /\ validity \in Nat /\ wire \in Seq(Int) /\ events \in SUBSET Mails
        /\ rewatch \in BOOLEAN /\ closed \in BOOLEAN
    BY <2>7 DEF Init
  <2> QED
    BY <2>2, <2>3, <2>4, <2>5, <2>6, <2>8 DEF WatchTypes
<1>2. LookedAt /\ DoneBelow /\ FetchAbove /\ PostBelow
  BY DEF Init, LookedAt, DoneBelow, FetchAbove, PostBelow, Done, Listening, FirstLook,
         Dialling, Blank, NoReport, NoPast, NoUid, NoBase
<1>3. OnlyNewsIsReported /\ NothingPassedOver /\ ToldMailHasItsEvent
  BY DEF Init, OnlyNewsIsReported, NothingPassedOver, ToldMailHasItsEvent,
         Blank, NoReport, NoPast
<1> QED
  BY <1>1, <1>2, <1>3 DEF WatchInv


ConnTypes == [state : {"none", "connecting", "opening", "live", "deaf", "dead"},
              awaited : BOOLEAN, exists : Int]
ReportTypes == [stage : {"none", "base", "fetch", "post"},
                found : SUBSET Mails, keys : SUBSET Mails]
PastTypes == [old : SUBSET Mails, told : SUBSET Mails, lost : SUBSET Mails,
              cut : SUBSET Mails, base : Nat \cup {NoUid, NoBase}, missed : BOOLEAN]

\* The server's side of WatchTypes, and the watcher's.
ServerTypes == /\ uidNext \in Nat \ {0} /\ inbox \subseteq Uids
               /\ \A u \in inbox : u < uidNext
               /\ validity \in Nat
WatcherTypes == /\ conn \in ConnTypes /\ wire \in Seq(Int)
                /\ rewatch \in BOOLEAN /\ closed \in BOOLEAN
                /\ me \in Fields
                /\ report \in ReportTypes
                /\ events \in SUBSET Mails
                /\ past \in PastTypes

\* WatchTypes is the types of the server and of the watcher.
LEMMA TypesSplit == WatchTypes <=> ServerTypes /\ WatcherTypes
  BY DEF WatchTypes, ServerTypes, WatcherTypes, ConnTypes, ReportTypes, PastTypes

\* Every step keeps the types.
LEMMA TypesStep ==
    ASSUME WatchTypes, [Next]_vars
    PROVE  WatchTypes'
<1> SUFFICES ServerTypes' /\ WatcherTypes'
  BY DEF WatchTypes, ServerTypes, WatcherTypes, ConnTypes, ReportTypes, PastTypes
<1> USE DEF ServerTypes, WatcherTypes
<1>1. ServerTypes /\ WatcherTypes
  BY TypesSplit
<1>2. Uids \subseteq Nat /\ Cardinality(inbox) \in Int
  BY <1>1, CountIsInt DEF Uids
<1>3. \A count \in Int : NoteInboxExists(me, count) \in Fields
  BY <1>1, HandlersKeep
<1>4. NoReport \in ReportTypes /\ NoConn \in ConnTypes /\ Dialling \in ConnTypes
  BY DEF NoReport, ReportTypes, NoConn, Dialling, ConnTypes
<1>5. Ended(me) \in Fields
  BY <1>1, HandlersKeep
<1>6. \A mails \in SUBSET Mails : UidsOf(mails) \subseteq Uids /\ Newest(mails) \subseteq mails
  BY DEF UidsOf, Newest, Mails
<1>7. <<>> \in Seq(Int)
  OBVIOUS
<1>8. CASE Arrive
  <2>1. ServerTypes'
    BY <1>8, <1>1 DEF Arrive, Uids
  <2>2. wire' \in Seq(Int)
    BY <1>8, <1>1, <1>2 DEF Arrive, Pushed
  <2> QED
    BY <1>8, <1>1, <2>1, <2>2 DEF Arrive
<1>9. ASSUME NEW u \in Uids, Delete(u) PROVE ServerTypes' /\ WatcherTypes'
  <2>1. wire' \in Seq(Int)
    BY <1>9, <1>1 DEF Delete, Pushed, Expunge
  <2> QED
    BY <1>9, <1>1, <2>1 DEF Delete
<1>10. CASE Recreate
  BY <1>10, <1>1, WatchAssumption DEF Recreate, Uids
<1>11. CASE Connected \/ ConnectFails \/ OpenRefused \/ OpenCutOff \/ Rewatch \/ CountFolders
  <2>1. conn' \in ConnTypes
    BY <1>11, <1>1, <1>4
       DEF Connected, ConnectFails, OpenRefused, OpenCutOff, Rewatch, CountFolders,
           NoConn, Dialling, ConnTypes
  <2>2. rewatch' \in BOOLEAN
    BY <1>11, <1>1 DEF Connected, ConnectFails, OpenRefused, OpenCutOff, Rewatch, CountFolders,
                      ScheduleRewatch
  <2>3. UNCHANGED <<server, wire, closed, me, report, events, past>>
    BY <1>11 DEF Connected, ConnectFails, OpenRefused, OpenCutOff, Rewatch, CountFolders
  <2> QED
    BY <1>1, <2>1, <2>2, <2>3 DEF server
<1>12. CASE Opened
  <2>1. PICK baseline \in {uidNext - 1, NoBase} :
          me' = NoteInboxExists(TrackNewMail(me, baseline), Cardinality(inbox))
          /\ past' = IF FirstLook(me)
                     THEN [past EXCEPT !.old = @ \cup Present, !.base = baseline]
                     ELSE [past EXCEPT !.missed = FALSE]
    BY <1>12 DEF Opened
  <2>2. baseline \in Nat \cup {NoBase}
    BY <1>1
  <2>3. TrackNewMail(me, baseline) \in Fields
    <3>1. QueueNewMail(me) \in Fields
      BY <1>1, <1>2, HandlersKeep
    <3>2. [me EXCEPT !.lastUid = baseline, !.uidValidity = validity] \in Fields
      BY <1>1, <2>2 DEF Fields
    <3> QED
      BY <3>1, <3>2 DEF TrackNewMail
  <2>4. me' \in Fields
    BY <1>1, <1>2, <2>1, <2>3, HandlersKeep
  <2>5. past' \in PastTypes
    <3>1. Present \subseteq Mails
      BY <1>1 DEF Present, Mails
    <3> QED
      BY <1>1, <2>1, <2>2, <3>1 DEF PastTypes
  <2>6. conn' \in ConnTypes
    BY <1>2, <1>12 DEF Opened, ConnTypes
  <2> QED
    BY <1>1, <1>12, <2>4, <2>5, <2>6 DEF Opened, server
<1>13. CASE Dropped
  <2>1. report' \in ReportTypes /\ me' \in Fields
    BY <1>13, <1>1, <1>4, <1>5 DEF Dropped
  <2>2. rewatch' \in BOOLEAN /\ conn' \in ConnTypes /\ wire' \in Seq(Int)
    BY <1>13, <1>1, <1>4, <1>7 DEF Dropped, ScheduleRewatch
  <2> QED
    BY <1>13, <1>1, <2>1, <2>2 DEF Dropped, server
<1>14. CASE Disconnect
  <2>1. me' \in Fields
    BY <1>14, <1>1 DEF Disconnect, Fields
  <2>2. conn' \in ConnTypes
    BY <1>14, <1>1, <1>4 DEF Disconnect
  <2> QED
    BY <1>14, <1>1, <2>1, <2>2 DEF Disconnect, server
<1>15. CASE Restart
  <2>1. Blank \in Fields
    BY DEF Blank, Fields, NoCount, NoUid
  <2>2. NoPast \in PastTypes
    BY DEF NoPast, PastTypes, NoUid
  <2> QED
    BY <1>15, <1>1, <1>4, <1>7, <2>1, <2>2 DEF Restart, server
<1>16. CASE Notice
  <2>1. wire' \in Seq(Int) /\ Head(wire) \in Int
    BY <1>16, <1>1 DEF Notice
  <2>2. conn.exists \in Int
    BY <1>1 DEF ConnTypes
  <2> DEFINE count == IF Head(wire) = Expunge THEN conn.exists - 1 ELSE Head(wire)
  <2>3. count \in Int
    BY <2>1, <2>2
  <2>4. /\ conn' = [conn EXCEPT !.exists = count]
        /\ me' = IF Head(wire) = Expunge THEN NoteExpunge(me, count)
                 ELSE IF count = conn.exists THEN me
                 ELSE NoteInboxExists(me, count)
    BY <1>16 DEF Notice
  <2> HIDE DEF count
  <2>5. conn' \in ConnTypes
    BY <1>1, <2>3, <2>4 DEF ConnTypes
  <2>6. me' \in Fields
    BY <1>1, <2>3, <2>4, HandlersKeep
  <2> QED
    BY <1>16, <1>1, <2>1, <2>5, <2>6 DEF Notice, server
<1>17. CASE StartReport
  <2>1. me' \in Fields
    BY <1>17, <1>1 DEF StartReport, Fields
  <2>2. past' \in PastTypes
    BY <1>17, <1>1 DEF StartReport, PastTypes
  <2>3. Found \subseteq Mails
    BY <1>1 DEF Found, Mails
  <2>4. report' \in ReportTypes
    BY <1>17, <1>4, <2>3 DEF StartReport, ReportTypes, NoReport
  <2> QED
    BY <1>17, <1>1, <2>1, <2>2, <2>4 DEF StartReport, server
<1>18. CASE ReportBusy
  <2>1. me' \in Fields
    BY <1>18, <1>1 DEF ReportBusy, Fields
  <2> QED
    BY <1>18, <1>1, <2>1 DEF ReportBusy, server
<1>19. CASE BaselineFound
  <2>1. Top(inbox) \in Nat
    BY <1>1, <1>2, TopGreatest DEF Top
  <2>2. [me EXCEPT !.lastUid = Top(inbox)] \in Fields
    BY <1>1, <2>1 DEF Fields
  <2>3. me' \in Fields
    BY <1>19, <1>1, <1>2, <2>2, HandlersKeep DEF BaselineFound
  <2>4. past' \in PastTypes
    BY <1>19, <1>1, <2>1 DEF BaselineFound, PastTypes
  <2> QED
    BY <1>19, <1>1, <1>4, <2>3, <2>4 DEF BaselineFound, server
<1>20. CASE NothingFound
  BY <1>20, <1>1, <1>4, <1>5 DEF NothingFound, server
<1>21. CASE FetchFails
  <2>1. past' \in PastTypes
    BY <1>21, <1>1 DEF FetchFails, PastTypes, Fields, Listening
  <2> QED
    BY <1>21, <1>1, <1>4, <1>5, <2>1 DEF FetchFails, server
<1>22. CASE Fetched
  <2>1. report.found \subseteq Mails /\ me.uidValidity \in Nat
    BY <1>1 DEF ReportTypes, Fields
  <2>2. LastFetched \in Nat
    BY <1>2, <1>6, <2>1, TopGreatest DEF LastFetched, Top
  <2>3. me' \in Fields
    BY <1>22, <1>1, <2>2 DEF Fetched, Fields
  <2>4. past' \in PastTypes
    BY <1>22, <1>1, <2>1 DEF Fetched, PastTypes
  <2>5. {<<me.uidValidity, u>> : u \in UidsOf(Newest(report.found))} \subseteq Mails
    BY <1>6, <2>1 DEF Mails
  <2>6. report' \in ReportTypes
    BY <1>22, <1>6, <2>1, <2>5 DEF Fetched, ReportTypes
  <2> QED
    BY <1>22, <1>1, <2>3, <2>4, <2>6 DEF Fetched, server
<1>23. CASE Posted
  <2>1. past' \in PastTypes /\ events' \in SUBSET Mails
    BY <1>23, <1>1 DEF Posted, PastTypes, ReportTypes
  <2> QED
    BY <1>23, <1>1, <1>4, <1>5, <2>1 DEF Posted, server
<1>24. CASE PostFails
  <2>1. past' \in PastTypes /\ events' \in SUBSET Mails
    BY ZenonT(60), <1>24, <1>1 DEF PostFails, PastTypes, ReportTypes
  <2> QED
    BY <1>24, <1>1, <1>4, <1>5, <2>1 DEF PostFails, server
<1>25. CASE UNCHANGED vars
  BY <1>25, <1>1 DEF vars, server
<1> QED
  BY <1>8, <1>9, <1>10, <1>11, <1>12, <1>13, <1>14, <1>15, <1>16, <1>17, <1>18, <1>19, <1>20, <1>21,
     <1>22, <1>23, <1>24, <1>25 DEF Next, Connection, Reporting

\* The parts of WatchInv beyond the types.
Beyond == /\ LookedAt /\ DoneBelow /\ FetchAbove /\ PostBelow
          /\ OnlyNewsIsReported /\ NothingPassedOver /\ ToldMailHasItsEvent

\* WatchInv is the types and the rest.
LEMMA InvSplit == WatchInv <=> WatchTypes /\ Beyond
  BY DEF WatchInv, Beyond

\* Facts the solver needs of the types.
Typed == /\ uidNext \in Nat \ {0} /\ validity \in Nat
         /\ \A u \in inbox : u \in Nat /\ u < uidNext
         /\ me.lastUid \in Int /\ me.lastUid >= -2 /\ me.uidValidity \in Nat
         /\ past.base \in Int
         /\ report.stage \in {"none", "base", "fetch", "post"}
         /\ \A mail \in past.old \cup Done \cup report.found :
              mail[1] \in Nat /\ mail[2] \in Nat /\ mail = <<mail[1], mail[2]>>

\* The types give those facts.
LEMMA TypesGive ==
    ASSUME WatchTypes
    PROVE  Typed
<1>1. Uids \subseteq Nat
  BY WatchAssumption DEF Uids
<1>2. \A mail \in Mails : mail[1] \in Nat /\ mail[2] \in Nat /\ mail = <<mail[1], mail[2]>>
  <2> SUFFICES ASSUME NEW mail \in Mails
               PROVE  mail[1] \in Nat /\ mail[2] \in Nat /\ mail = <<mail[1], mail[2]>>
    OBVIOUS
  <2>1. PICK n \in Nat, u \in Uids : mail = <<n, u>>
    BY DEF Mails
  <2> QED
    BY <1>1, <2>1
<1>3. /\ uidNext \in Nat \ {0} /\ validity \in Nat
      /\ \A u \in inbox : u \in Nat /\ u < uidNext
  BY <1>1 DEF WatchTypes
<1>4. me.lastUid \in Int /\ me.lastUid >= -2 /\ me.uidValidity \in Nat
  BY DEF WatchTypes, Fields, NoUid, NoBase
<1>5. past.base \in Int /\ report.stage \in {"none", "base", "fetch", "post"}
  BY DEF WatchTypes, NoUid, NoBase
<1>6. past.old \cup Done \cup report.found \subseteq Mails
  BY DEF WatchTypes, Done
<1> QED
  BY <1>2, <1>3, <1>4, <1>5, <1>6 DEF Typed

\* Steps that are not the server's and leave what is known of the mail as it is.
Quiet ==
    /\ UNCHANGED <<inbox, uidNext, validity, events>>
    /\ UNCHANGED <<past.old, past.told, past.lost, past.cut, past.base>>
    /\ UNCHANGED <<me.lastUid, me.uidValidity>>
    /\ report' = report \/ (report' = NoReport /\ report.stage # "post")
    /\ Listening' => ~FirstLook(me)
    /\ report'.stage \in {"base", "fetch"} => UNCHANGED conn.state

\* A Quiet step keeps the rest of the invariant.
LEMMA QuietKeeps ==
    ASSUME Typed, Beyond, Quiet
    PROVE  Beyond'
<1>1. UNCHANGED Done /\ UNCHANGED FirstLook(me)
  BY DEF Quiet, Done, FirstLook
<1>2. LookedAt'
  BY <1>1 DEF Beyond, Quiet, LookedAt, NoReport, Typed
<1>3. DoneBelow'
  BY <1>1 DEF Beyond, Quiet, DoneBelow
<1>4. FetchAbove' /\ PostBelow'
  <2>1. CASE report' = report
    BY <2>1 DEF Beyond, Quiet, FetchAbove, PostBelow, Listening
  <2>2. CASE report' = NoReport
    BY <2>2 DEF FetchAbove, PostBelow, NoReport
  <2> QED
    BY <2>1, <2>2 DEF Quiet
<1>5. OnlyNewsIsReported'
  BY DEF Beyond, Quiet, OnlyNewsIsReported, NoReport
<1>6. NothingPassedOver'
  <2> SUFFICES ASSUME me.uidValidity = validity, NEW u \in inbox,
                      past.base < u, u <= me.lastUid
               PROVE  <<validity, u>> \in Done \cup report'.found
    BY DEF NothingPassedOver, Quiet, Done
  <2>0. FetchAbove /\ Typed
    BY DEF Beyond
  <2>1. <<validity, u>> \in Done \cup report.found
    BY DEF Beyond, NothingPassedOver, Done
  <2>2. CASE <<validity, u>> \in report.found /\ report' = NoReport
    <3>1. report.stage # "post" /\ report.found # {}
      BY <2>2 DEF Quiet, NoReport
    <3>2. report.stage = "fetch"
      BY <3>1, <2>0 DEF Typed, FetchAbove, NoReport
    <3>3. me.lastUid < <<validity, u>>[2]
      BY <2>2, <3>2, <2>0 DEF FetchAbove
    <3> QED
      BY <3>3, <2>0 DEF Typed
  <2> QED
    BY <2>1, <2>2 DEF Quiet
<1>7. ToldMailHasItsEvent'
  BY DEF Beyond, Quiet, ToldMailHasItsEvent
<1> QED
  BY <1>2, <1>3, <1>4, <1>5, <1>6, <1>7 DEF Beyond

\* Steps that are Quiet: the notices, and a connection or report that fails.
LEMMA QuietSteps ==
    ASSUME WatchTypes, Typed, Beyond,
           \/ Connected \/ ConnectFails \/ OpenRefused \/ OpenCutOff
           \/ Dropped \/ Rewatch \/ CountFolders \/ Disconnect \/ Notice
           \/ ReportBusy \/ NothingFound \/ FetchFails \/ UNCHANGED vars
    PROVE  Quiet
<1>1. /\ me \in Fields /\ closed \in BOOLEAN /\ conn \in ConnTypes /\ past \in PastTypes
      /\ wire \in Seq(Int)
  BY DEF WatchTypes, ConnTypes, PastTypes
<1>2. Ended(me).lastUid = me.lastUid /\ Ended(me).uidValidity = me.uidValidity
  BY <1>1, HandlersKeep
<1>3. Listening => ~FirstLook(me)
  BY DEF Beyond, LookedAt
<1>4. report.stage \in {"base", "fetch"} => conn.state \in {"live", "deaf"}
  BY DEF Beyond, FetchAbove
<1>5. NoReport.stage = "none"
  BY DEF NoReport
<1>6. CASE Connected \/ ConnectFails \/ OpenRefused \/ OpenCutOff \/ CountFolders
  <2>1. UNCHANGED <<server, me, report, events, past>>
    BY <1>6 DEF Connected, ConnectFails, OpenRefused, OpenCutOff, CountFolders
  <2>2. conn.state \notin {"live", "deaf"}
    BY <1>6 DEF Connected, ConnectFails, OpenRefused, OpenCutOff, CountFolders
  <2>3. conn'.state # "live"
    <3>1. Connected => conn'.state = "opening"
      BY <1>1 DEF Connected, ConnTypes
    <3>2. ConnectFails => conn'.state = "none"
      BY DEF ConnectFails, NoConn
    <3>3. OpenRefused \/ OpenCutOff => conn'.state \in {"deaf", "dead"}
      BY DEF OpenRefused, OpenCutOff, NoConn
    <3>4. CountFolders => conn'.state = "connecting"
      BY DEF CountFolders, Dialling
    <3> QED
      BY <1>6, <3>1, <3>2, <3>3, <3>4
  <2> QED
    BY <2>1, <2>2, <2>3, <1>4 DEF Quiet, Listening, server
<1>7. CASE Rewatch
  <2>1. \/ UNCHANGED conn.state
        \/ conn.state \in {"none", "dead"} /\ conn'.state # "live"
    BY <1>7, <1>1 DEF Rewatch, Pending, ConnTypes, Dialling
  <2> QED
    BY <1>7, <1>3, <1>4, <2>1 DEF Rewatch, Quiet, Listening, server, FirstLook
<1>8. CASE Dropped
  <2>1. conn'.state = "none"
    BY <1>8 DEF Dropped, NoConn
  <2>2. /\ UNCHANGED <<server, events, past>>
        /\ \/ report.stage \in {"base", "fetch"} /\ report' = NoReport /\ me' = Ended(me)
           \/ report.stage \notin {"base", "fetch"} /\ UNCHANGED <<report, me>>
    BY <1>8 DEF Dropped
  <2> QED
    BY <2>1, <2>2, <1>2, <1>5 DEF Quiet, Listening, server
<1>9. CASE Disconnect
  <2>1. me'.lastUid = me.lastUid /\ me'.uidValidity = me.uidValidity
    BY <1>9, <1>1 DEF Disconnect, Fields
  <2>2. \/ UNCHANGED conn.state
        \/ conn.state = "dead" /\ conn'.state # "live"
    BY <1>9 DEF Disconnect, NoConn
  <2> QED
    BY <1>9, <1>3, <1>4, <2>1, <2>2 DEF Disconnect, Quiet, Listening, server, FirstLook
<1>10. CASE Notice
  <2> DEFINE count == IF Head(wire) = Expunge THEN conn.exists - 1 ELSE Head(wire)
  <2>1. count \in Int
    <3>1. Head(wire) \in Int
      BY <1>10, <1>1 DEF Notice
    <3>2. conn.exists \in Int
      BY <1>1 DEF ConnTypes
    <3> QED
      BY <3>1, <3>2
  <2>2. /\ conn' = [conn EXCEPT !.exists = count]
        /\ me' = IF Head(wire) = Expunge THEN NoteExpunge(me, count)
                 ELSE IF count = conn.exists THEN me
                 ELSE NoteInboxExists(me, count)
    BY <1>10 DEF Notice
  <2> HIDE DEF count
  <2>3. me'.lastUid = me.lastUid /\ me'.uidValidity = me.uidValidity
    BY <1>1, <2>1, <2>2, HandlersKeep
  <2>4. UNCHANGED conn.state
    BY <1>1, <2>2 DEF ConnTypes
  <2> QED
    BY <1>10, <1>3, <2>3, <2>4 DEF Notice, Quiet, Listening, server, FirstLook
<1>11. CASE ReportBusy
  <2>1. me'.lastUid = me.lastUid /\ me'.uidValidity = me.uidValidity
    BY <1>11, <1>1 DEF ReportBusy, Fields
  <2> QED
    BY <1>11, <1>3, <2>1 DEF ReportBusy, Quiet, Listening, server, FirstLook
<1>12. CASE NothingFound
  BY <1>12, <1>2, <1>3, <1>5 DEF NothingFound, Quiet, Listening, server, FirstLook
<1>13. CASE FetchFails
  <2>1. UNCHANGED <<past.old, past.told, past.lost, past.cut, past.base>>
    BY <1>13, <1>1 DEF FetchFails, PastTypes
  <2> QED
    BY <1>13, <1>2, <1>3, <1>5, <2>1 DEF FetchFails, Quiet, Listening, server, FirstLook
<1>14. CASE UNCHANGED vars
  BY <1>14, <1>3 DEF vars, server, Quiet, Listening, FirstLook
<1> QED
  BY <1>6, <1>7, <1>8, <1>9, <1>10, <1>11, <1>12, <1>13, <1>14

\* Arrivals, deletions and a new UIDVALIDITY keep it, too.
LEMMA ServerSteps ==
    ASSUME Typed, Beyond, Arrive \/ (\E u \in Uids : Delete(u)) \/ Recreate
    PROVE  Beyond'
<1>1. /\ UNCHANGED <<conn, me, report, events, past, Done>>
      /\ Listening' = Listening
  BY DEF Arrive, Delete, Recreate, Done, Listening
<1>2. ToldMailHasItsEvent' /\ OnlyNewsIsReported' /\ PostBelow'
  BY <1>1 DEF Beyond, ToldMailHasItsEvent, OnlyNewsIsReported, PostBelow
<1>3. CASE Arrive
  <2>1. inbox' = inbox \cup {uidNext} /\ uidNext' = uidNext + 1 /\ validity' = validity
    BY <1>3 DEF Arrive
  <2>2. LookedAt'
    BY <1>1, <2>1 DEF Beyond, LookedAt, FirstLook, Typed
  <2>3. DoneBelow'
    <3>1. DoneBelow /\ Typed
      BY DEF Beyond
    <3>2. <<validity, uidNext>> \notin past.old
      BY <3>1 DEF DoneBelow, Typed
    <3> QED
      BY <1>1, <2>1, <3>1, <3>2 DEF DoneBelow, Typed
  <2>4. FetchAbove'
    BY <1>1, <2>1 DEF Beyond, FetchAbove, Typed
  <2>5. NothingPassedOver'
    BY <1>1, <2>1 DEF Beyond, NothingPassedOver, LookedAt, Typed
  <2> QED
    BY <1>2, <2>2, <2>3, <2>4, <2>5 DEF Beyond
<1>4. ASSUME NEW u \in Uids, Delete(u) PROVE Beyond'
  <2>1. inbox' \subseteq inbox /\ uidNext' = uidNext /\ validity' = validity
    BY <1>4 DEF Delete
  <2>2. LookedAt'
    BY <1>1, <2>1 DEF Beyond, LookedAt, FirstLook
  <2>3. DoneBelow'
    BY <1>1, <2>1 DEF Beyond, DoneBelow
  <2>4. FetchAbove'
    BY <1>1, <2>1 DEF Beyond, FetchAbove
  <2>5. NothingPassedOver'
    BY <1>1, <2>1 DEF Beyond, NothingPassedOver
  <2> QED
    BY <1>2, <2>2, <2>3, <2>4, <2>5 DEF Beyond
<1>5. CASE Recreate
  <2>1. ~Listening /\ validity' = validity + 1 /\ me.uidValidity <= validity
    BY <1>5 DEF Recreate, Beyond, LookedAt
  <2>2. LookedAt'
    BY <1>1, <2>1 DEF Beyond, LookedAt, Typed
  <2>3. DoneBelow'
    BY <1>1, <2>1 DEF Beyond, DoneBelow, Typed
  <2>4. FetchAbove'
    BY <1>1, <2>1 DEF Beyond, FetchAbove
  <2>5. NothingPassedOver'
    BY <1>1, <2>1 DEF NothingPassedOver, Typed
  <2> QED
    BY <1>2, <2>2, <2>3, <2>4, <2>5 DEF Beyond
<1> QED
  BY <1>3, <1>4, <1>5

\* Selecting the INBOX (trackNewMail) keeps it: at a first look nothing of
\* this UIDVALIDITY was done or is under way.
LEMMA OpenedKeeps ==
    ASSUME WatchTypes, Typed, Beyond, Opened
    PROVE  Beyond'
<1>1. PICK baseline \in {uidNext - 1, NoBase} :
        /\ me' = NoteInboxExists(TrackNewMail(me, baseline), Cardinality(inbox))
        /\ past' = IF FirstLook(me)
                   THEN [past EXCEPT !.old = @ \cup Present, !.base = baseline]
                   ELSE [past EXCEPT !.missed = FALSE]
  BY DEF Opened
<1>2. /\ UNCHANGED <<inbox, uidNext, validity, report, events>>
      /\ Listening' /\ conn.state = "opening"
  BY DEF Opened, server, Listening
<1>3. /\ LookedAt /\ DoneBelow /\ FetchAbove /\ PostBelow
      /\ OnlyNewsIsReported /\ NothingPassedOver /\ ToldMailHasItsEvent
  BY DEF Beyond
<1>4. me \in Fields /\ closed \in BOOLEAN /\ past \in PastTypes /\ Cardinality(inbox) \in Int
  BY CountIsInt DEF WatchTypes, PastTypes
<1>5. report.stage \in {"none", "post"}
  BY <1>2, <1>3 DEF FetchAbove, Typed
<1>6. CASE FirstLook(me)
  <2>1. /\ me'.lastUid = baseline /\ me'.uidValidity = validity
    <3>1. /\ [me EXCEPT !.lastUid = baseline, !.uidValidity = validity] \in Fields
          /\ [me EXCEPT !.lastUid = baseline, !.uidValidity = validity].lastUid = baseline
          /\ [me EXCEPT !.lastUid = baseline, !.uidValidity = validity].uidValidity = validity
      <4>1. baseline \in Nat \cup {NoUid, NoBase} /\ validity \in Nat
        BY <1>1 DEF Typed
      <4> QED
        BY <1>4, <4>1 DEF Fields
    <3> QED
      BY <1>6, <1>1, <1>4, <3>1, HandlersKeep DEF TrackNewMail
  <2>2. /\ past'.old = past.old \cup Present /\ past'.base = baseline
        /\ UNCHANGED <<past.told, past.lost, past.cut, Done>>
    BY <1>6, <1>1, <1>4 DEF PastTypes, Done
  <2>3. baseline \in Int /\ baseline < uidNext /\ baseline # NoUid
    BY <1>1 DEF Typed, NoUid, NoBase
  <2>4. \A mail \in Done \cup report.found : mail[1] < validity
    <3>1. CASE me.lastUid = NoUid
      BY <3>1, <1>3 DEF LookedAt, NoReport
    <3>2. CASE me.uidValidity # validity
      <4>1. me.uidValidity < validity
        BY <3>2, <1>3 DEF LookedAt, Typed
      <4>2. \A mail \in Done \cup report.found : mail[1] <= me.uidValidity
        BY <1>3, <1>5 DEF DoneBelow, FetchAbove, PostBelow, NoReport
      <4> QED
        BY <4>1, <4>2 DEF Typed
    <3> QED
      BY <1>6, <3>1, <3>2 DEF FirstLook
  <2>5. \A mail \in Present : mail[1] = validity /\ mail[2] \in inbox
    BY DEF Present
  <2>6. LookedAt'
    BY <1>2, <2>1, <2>2, <2>3 DEF LookedAt, FirstLook, Typed
  <2>7. DoneBelow'
    <3>1. \A mail \in past.old : mail[1] <= validity
      BY <1>3 DEF DoneBelow, LookedAt, Typed
    <3>2. \A mail \in Done' : mail[1] < validity
      BY <2>2, <2>4
    <3>3. me'.lastUid >= 0 => \A u \in inbox : u <= me'.lastUid
      BY <1>1, <2>1 DEF Typed, NoBase
    <3>4. \A mail \in past.old : mail[1] = validity => mail[2] < uidNext
      BY <1>3 DEF DoneBelow
    <3>5. \A mail \in Done' : /\ mail[1] <= me'.uidValidity
                              /\ mail[1] = me'.uidValidity => mail[2] <= me'.lastUid
      BY <3>2, <2>1, <2>2 DEF Typed
    <3>6. \A mail \in past'.old : /\ mail[1] <= me'.uidValidity
                                  /\ mail[1] = validity' => mail[2] < uidNext'
      BY <1>2, <2>1, <2>2, <2>5, <3>1, <3>4 DEF Typed
    <3> QED
      BY <1>2, <3>3, <3>5, <3>6 DEF DoneBelow
  <2>8. FetchAbove'
    BY <1>2, <1>3, <1>5 DEF FetchAbove
  <2>9. PostBelow'
    BY <1>2, <1>3, <2>1, <2>4 DEF PostBelow, Typed
  <2>10. OnlyNewsIsReported'
    BY <1>2, <1>3, <2>2, <2>4, <2>5 DEF OnlyNewsIsReported, Typed
  <2>11. NothingPassedOver'
    BY <1>2, <2>1, <2>2, <2>3 DEF NothingPassedOver, Typed
  <2>12. ToldMailHasItsEvent'
    BY <1>2, <1>3, <2>2 DEF ToldMailHasItsEvent
  <2> QED
    BY <2>6, <2>7, <2>8, <2>9, <2>10, <2>11, <2>12 DEF Beyond
<1>7. CASE ~FirstLook(me)
  <2>1. me'.lastUid = me.lastUid /\ me'.uidValidity = me.uidValidity
    <3>1. /\ QueueNewMail(me) \in Fields
          /\ QueueNewMail(me).lastUid = me.lastUid
          /\ QueueNewMail(me).uidValidity = me.uidValidity
      BY <1>4, HandlersKeep
    <3> QED
      BY <1>7, <1>1, <1>4, <3>1, HandlersKeep DEF TrackNewMail
  <2>2. UNCHANGED <<past.old, past.told, past.lost, past.cut, past.base>>
    BY <1>7, <1>1, <1>4 DEF PastTypes
  <2>3. Quiet
    BY <1>2, <1>5, <1>7, <2>1, <2>2 DEF Quiet
  <2> QED
    BY <2>3, QuietKeeps
<1> QED
  BY <1>6, <1>7

\* A restart forgets everything, and nothing is told of nothing.
LEMMA RestartKeeps ==
    ASSUME Typed, Beyond, Restart
    PROVE  Beyond'
<1>1. /\ me' = Blank /\ report' = NoReport /\ past' = NoPast
      /\ conn'.state # "live" /\ UNCHANGED <<inbox, uidNext, validity>>
  BY DEF Restart, server, Dialling, NoConn
<1>2. Done' = {}
  BY <1>1 DEF Done, NoPast
<1>3. LookedAt'
  BY <1>1, <1>2 DEF LookedAt, Listening, Blank, NoPast, NoUid, Typed
<1>4. DoneBelow' /\ FetchAbove' /\ PostBelow'
  BY <1>1, <1>2 DEF DoneBelow, FetchAbove, PostBelow, NoReport, NoPast, Blank, NoUid
<1>5. OnlyNewsIsReported' /\ ToldMailHasItsEvent'
  BY <1>1 DEF OnlyNewsIsReported, ToldMailHasItsEvent, NoReport, NoPast
<1>6. NothingPassedOver'
  BY <1>1 DEF NothingPassedOver, NoPast, Blank, NoUid, Typed
<1> QED
  BY <1>3, <1>4, <1>5, <1>6 DEF Beyond

\* What a fetch finds above lastUid is news, with no gap.
LEMMA StartReportKeeps ==
    ASSUME WatchTypes, Typed, Beyond, StartReport
    PROVE  Beyond'
<1>1. /\ LookedAt /\ DoneBelow /\ FetchAbove /\ NothingPassedOver
      /\ report = NoReport
  BY DEF Beyond, StartReport, FetchAbove
<1>2. /\ me'.lastUid = me.lastUid /\ me'.uidValidity = me.uidValidity
      /\ UNCHANGED <<past.old, past.told, past.lost, past.cut, past.base>>
      /\ UNCHANGED <<inbox, uidNext, validity, conn, events>>
  <2>1. me \in Fields /\ past \in PastTypes
    BY DEF WatchTypes, PastTypes
  <2> QED
    BY <2>1 DEF StartReport, Fields, PastTypes, server
<1>3. Listening => ~FirstLook(me)
  BY <1>1 DEF LookedAt
<1>4. CASE report' = NoReport
  <2>1. Quiet
    BY <1>1, <1>2, <1>3, <1>4 DEF Quiet, NoReport, Listening
  <2> QED
    BY <2>1, QuietKeeps
<1>5. CASE me.lastUid # NoUid /\ conn.state \in {"live", "deaf"} /\ report' # NoReport
  <2>1. UNCHANGED <<Done, Listening, FirstLook(me)>>
    BY <1>2 DEF Done, Listening, FirstLook
  <2>2. LookedAt'
    BY <1>5, <1>1, <1>2, <2>1 DEF LookedAt
  <2>3. DoneBelow'
    BY <1>1, <1>2, <2>1 DEF DoneBelow
  <2>4. ToldMailHasItsEvent'
    BY <1>2 DEF Beyond, ToldMailHasItsEvent
  <2>5. NothingPassedOver'
    BY <1>1, <1>2 DEF NothingPassedOver, NoReport
  <2>6. CASE me.lastUid = NoBase
    <3>1. report' = [NoReport EXCEPT !.stage = "base"]
      BY <1>5, <2>6 DEF StartReport
    <3>2. FetchAbove' /\ PostBelow' /\ OnlyNewsIsReported'
      BY <1>2, <1>5, <2>6, <3>1 DEF FetchAbove, PostBelow, OnlyNewsIsReported, NoReport
    <3> QED
      BY <2>2, <2>3, <2>4, <2>5, <3>2 DEF Beyond
  <2>7. CASE me.lastUid # NoBase
    <3>1. /\ report'.stage = "fetch"
          /\ report'.found = IF Listening THEN Found ELSE {}
      BY <1>5, <2>7 DEF StartReport, NoReport
    <3>2. me.lastUid >= 0
      BY <1>5, <2>7 DEF Typed, NoUid, NoBase
    <3>3. report'.found # {} => Listening /\ me.uidValidity = validity
      BY <3>1, <1>3 DEF FirstLook
    <3>4. \A mail \in report'.found : /\ mail[1] = validity /\ mail[2] \in inbox
                                      /\ me.lastUid < mail[2]
                                      /\ mail = <<validity, mail[2]>>
      BY <3>1 DEF Found
    <3>5. \A mail \in report'.found : \A u \in inbox :
             me.lastUid < u => <<validity, u>> \in report'.found
      BY <3>1, <3>3 DEF Found, Typed
    <3>6. FetchAbove'
      <4>1. \A mail \in report'.found :
              /\ mail[1] = me.uidValidity
              /\ me.lastUid < mail[2] /\ mail[2] < uidNext
        BY <3>3, <3>4 DEF Typed
      <4> QED
        BY <1>2, <1>5, <2>1, <3>1, <3>2, <3>3, <3>5, <4>1 DEF FetchAbove
    <3>7. PostBelow'
      BY <3>1 DEF PostBelow
    <3>8. OnlyNewsIsReported'
      <4> SUFFICES ASSUME NEW mail \in report'.found, mail \in past.old \cup Done
                   PROVE  FALSE
        BY <1>2 DEF OnlyNewsIsReported, Done
      <4>1. /\ mail[1] = validity /\ me.uidValidity = validity /\ mail[2] \in inbox
            /\ me.lastUid < mail[2] /\ mail = <<validity, mail[2]>>
        BY <3>3, <3>4
      <4>2. mail[2] <= me.lastUid
        BY <1>1, <3>2, <4>1 DEF DoneBelow
      <4> QED
        BY <4>1, <4>2 DEF Typed
    <3> QED
      BY <2>2, <2>3, <2>4, <2>5, <3>6, <3>7, <3>8 DEF Beyond
  <2> QED
    BY <2>6, <2>7
<1>6. report' = NoReport \/ (me.lastUid # NoUid /\ conn.state \in {"live", "deaf"})
  BY DEF StartReport
<1> QED
  BY <1>4, <1>5, <1>6

\* The baseline is the highest uid, so that all mail there is lies below it.
LEMMA BaselineKeeps ==
    ASSUME WatchTypes, Typed, Beyond, BaselineFound
    PROVE  Beyond'
<1>0. /\ LookedAt /\ DoneBelow /\ ToldMailHasItsEvent
      /\ me.lastUid = NoBase /\ me.uidValidity = validity
  BY DEF Beyond, BaselineFound, FetchAbove, LookedAt, FirstLook
<1>1. Top(inbox) \in Nat /\ Top(inbox) < uidNext /\ \A u \in inbox : u <= Top(inbox)
  <2>1. CASE inbox = {}
    BY <2>1 DEF Top, Typed
  <2>2. CASE inbox # {}
    <3>1. inbox \in SUBSET Uids
      BY DEF WatchTypes
    <3> QED
      BY <2>2, <3>1, TopGreatest DEF Typed
  <2> QED
    BY <2>1, <2>2
<1>2. me'.lastUid = Top(inbox) /\ me'.uidValidity = me.uidValidity
  <2>1. me \in Fields /\ closed \in BOOLEAN
    BY DEF WatchTypes
  <2> DEFINE found == [me EXCEPT !.lastUid = Top(inbox)]
  <2>2. found \in Fields /\ found.lastUid = Top(inbox) /\ found.uidValidity = me.uidValidity
    BY <1>1, <2>1 DEF Fields
  <2>3. me' = Ended(found) /\ 0 \in Int
    BY DEF BaselineFound
  <2> HIDE DEF found
  <2> QED
    BY <2>1, <2>2, <2>3, HandlersKeep
<1>3. /\ UNCHANGED <<past.old, past.told, past.lost, past.cut, Done>>
      /\ past'.base = Top(inbox)
  <2>1. past \in PastTypes
    BY DEF WatchTypes, PastTypes
  <2> QED
    BY <2>1 DEF BaselineFound, PastTypes, Done
<1>4. /\ UNCHANGED <<inbox, uidNext, validity, conn, events>> /\ report' = NoReport
  BY DEF BaselineFound, server
<1>5. LookedAt'
  BY <1>0, <1>1, <1>2, <1>3, <1>4 DEF LookedAt, FirstLook, Listening, NoUid
<1>6. DoneBelow'
  BY <1>0, <1>1, <1>2, <1>3, <1>4 DEF DoneBelow, Typed, NoBase
<1>7. FetchAbove' /\ PostBelow' /\ OnlyNewsIsReported'
  BY <1>4 DEF FetchAbove, PostBelow, OnlyNewsIsReported, NoReport
<1>8. NothingPassedOver'
  BY <1>1, <1>2, <1>3, <1>4 DEF NothingPassedOver, Typed
<1>9. ToldMailHasItsEvent'
  BY <1>0, <1>3, <1>4 DEF ToldMailHasItsEvent
<1> QED
  BY <1>5, <1>6, <1>7, <1>8, <1>9 DEF Beyond

\* lastUid moves on to the highest uid that was fetched; the mail up to it
\* is in the report or cut off.
LEMMA FetchedKeeps ==
    ASSUME WatchTypes, Typed, Beyond, Fetched
    PROVE  Beyond'
<1> DEFINE sent == Newest(report.found)
<1>0. /\ LookedAt /\ DoneBelow /\ OnlyNewsIsReported /\ NothingPassedOver
      /\ ToldMailHasItsEvent
      /\ me.uidValidity = validity /\ me.lastUid >= 0
      /\ \A mail \in report.found :
           /\ mail[1] = me.uidValidity
           /\ me.lastUid < mail[2] /\ mail[2] < uidNext
           /\ \A u \in inbox : me.lastUid < u /\ u <= mail[2] =>
                <<validity, u>> \in report.found
  BY DEF Beyond, Fetched, FetchAbove, LookedAt, FirstLook
<1>1. \E mail \in report.found : mail[2] = LastFetched
  <2>1. UidsOf(report.found) \in SUBSET Uids /\ UidsOf(report.found) # {}
    BY DEF UidsOf, WatchTypes, Mails, Fetched
  <2>2. LastFetched \in UidsOf(report.found)
    BY <2>1, TopGreatest DEF LastFetched
  <2> QED
    BY <2>2 DEF UidsOf
<1>2. \A mail \in report.found : mail[2] <= LastFetched
  <2>1. UidsOf(report.found) \in SUBSET Uids /\ UidsOf(report.found) # {}
    BY DEF UidsOf, WatchTypes, Mails, Fetched
  <2> QED
    BY <2>1, TopGreatest DEF LastFetched, UidsOf
<1>3. /\ LastFetched \in Nat /\ me.lastUid < LastFetched /\ LastFetched < uidNext
      /\ \A u \in inbox : me.lastUid < u /\ u <= LastFetched =>
           <<validity, u>> \in report.found
  BY <1>0, <1>1 DEF Typed
<1>4. me'.lastUid = LastFetched /\ me'.uidValidity = me.uidValidity
  BY DEF Fetched, WatchTypes, Fields
<1>5. sent \subseteq report.found
  BY DEF Newest
<1>6. /\ report'.stage = "post" /\ report'.found = sent
      /\ report'.keys = {<<me.uidValidity, u>> : u \in UidsOf(sent)}
  BY DEF Fetched
<1>7. /\ UNCHANGED <<past.old, past.told, past.lost, past.base>>
      /\ past'.cut = past.cut \cup (report.found \ sent)
  <2>1. past \in PastTypes
    BY DEF WatchTypes, PastTypes
  <2> QED
    BY <2>1 DEF Fetched, PastTypes
<1>8. Done' = Done \cup (report.found \ sent)
  BY <1>7 DEF Done
<1>9. UNCHANGED <<inbox, uidNext, validity, conn, events>> /\ Listening
  BY DEF Fetched, server
<1> HIDE DEF sent
<1>10. LookedAt'
  BY <1>0, <1>3, <1>4, <1>7, <1>9 DEF LookedAt, FirstLook, Listening, Typed, NoUid
<1>11. DoneBelow'
  <2>1. \A mail \in Done' : /\ mail[1] <= me'.uidValidity
                            /\ mail[1] = me'.uidValidity => mail[2] <= me'.lastUid
    <3> SUFFICES ASSUME NEW mail \in Done'
                 PROVE  /\ mail[1] <= me'.uidValidity
                        /\ mail[1] = me'.uidValidity => mail[2] <= me'.lastUid
      OBVIOUS
    <3>1. CASE mail \in Done
      BY <3>1, <1>0, <1>3, <1>4 DEF DoneBelow, Typed
    <3>2. CASE mail \in report.found
      BY <3>2, <1>0, <1>2, <1>4 DEF Typed
    <3> QED
      BY <3>1, <3>2, <1>8
  <2>2. \A mail \in past.old : /\ mail[1] <= me.uidValidity
                               /\ mail[1] = validity => mail[2] < uidNext
    BY <1>0 DEF DoneBelow
  <2>3. \A u \in inbox : <<validity, u>> \in past.old => u <= LastFetched
    BY <1>0, <1>3 DEF DoneBelow, Typed
  <2> QED
    BY <2>1, <2>2, <2>3, <1>4, <1>7, <1>9 DEF DoneBelow
<1>12. FetchAbove'
  BY <1>6 DEF FetchAbove
<1>13. PostBelow'
  <2>1. report'.keys = report'.found
    <3>1. \A mail \in sent : mail = <<me.uidValidity, mail[2]>>
      BY <1>0, <1>5 DEF Typed
    <3> QED
      BY <3>1, <1>6 DEF UidsOf
  <2>2. \A mail \in sent : mail[1] = me.uidValidity /\ mail[2] <= LastFetched
    BY <1>0, <1>2, <1>5
  <2> QED
    BY <2>1, <2>2, <1>4, <1>6 DEF PostBelow, Typed
<1>14. OnlyNewsIsReported'
  BY <1>0, <1>5, <1>6, <1>7 DEF OnlyNewsIsReported
<1>15. NothingPassedOver'
  <2> SUFFICES ASSUME NEW u \in inbox, past.base < u, u <= LastFetched
               PROVE  <<validity, u>> \in Done' \cup report'.found
    BY <1>4, <1>7, <1>9 DEF NothingPassedOver, Done
  <2>1. <<validity, u>> \in Done \cup report.found
    <3>1. CASE u <= me.lastUid
      BY <3>1, <1>0 DEF NothingPassedOver, Done
    <3>2. CASE ~(u <= me.lastUid)
      BY <3>2, <1>3 DEF Typed
    <3> QED
      BY <3>1, <3>2
  <2> QED
    BY <2>1, <1>6, <1>8
<1>16. ToldMailHasItsEvent'
  BY <1>0, <1>7, <1>9 DEF ToldMailHasItsEvent
<1> QED
  BY <1>10, <1>11, <1>12, <1>13, <1>14, <1>15, <1>16 DEF Beyond

\* Both ends of a report: a part of it, perhaps all, has become events.
LEMMA PostKeeps ==
    ASSUME WatchTypes, Typed, Beyond, Posted \/ PostFails
    PROVE  Beyond'
<1>0. /\ LookedAt /\ DoneBelow /\ PostBelow /\ NothingPassedOver /\ ToldMailHasItsEvent
      /\ report.stage = "post" /\ report.keys = report.found
  BY DEF Beyond, Posted, PostFails, PostBelow
<1>1. me'.lastUid = me.lastUid /\ me'.uidValidity = me.uidValidity
  <2>1. me \in Fields /\ closed \in BOOLEAN /\ 0 \in Int
    BY DEF WatchTypes
  <2> QED
    BY <2>1, HandlersKeep DEF Posted, PostFails
<1>2. \E taken \in SUBSET report.found :
        /\ events' = events \cup taken
        /\ past'.told = past.told \cup taken
        /\ past'.lost = past.lost \cup (report.found \ taken)
        /\ UNCHANGED <<past.old, past.cut, past.base>>
  <2>1. past \in PastTypes
    BY DEF WatchTypes, PastTypes
  <2>2. CASE Posted
    BY SMTT(60), <2>1, <2>2, <1>0 DEF Posted, PastTypes
  <2>3. CASE PostFails
    <3>1. PICK bad \in report.found :
            LET taken == {mail \in report.found : mail[2] < bad[2]} IN
            /\ events' = events \cup {key \in report.keys : key[2] < bad[2]}
            /\ past' = [past EXCEPT !.told = @ \cup taken,
                                    !.lost = @ \cup (report.found \ taken)]
      BY <2>3 DEF PostFails
    <3> DEFINE taken == {mail \in report.found : mail[2] < bad[2]}
    <3>2. /\ taken \in SUBSET report.found
          /\ events' = events \cup taken
      BY <1>0, <3>1
    <3>3. past' = [past EXCEPT !.told = @ \cup taken, !.lost = @ \cup (report.found \ taken)]
      BY <3>1
    <3> HIDE DEF taken
    <3>4. /\ past'.told = past.told \cup taken
          /\ past'.lost = past.lost \cup (report.found \ taken)
          /\ UNCHANGED <<past.old, past.cut, past.base>>
      BY <2>1, <3>3 DEF PastTypes
    <3> QED
      BY <3>2, <3>4
  <2> QED
    BY <2>2, <2>3
<1>3. Done' = Done \cup report.found
  BY <1>2 DEF Done
<1>4. UNCHANGED <<inbox, uidNext, validity, conn>> /\ report' = NoReport
  BY DEF Posted, PostFails, server
<1>5. me.lastUid # NoUid
  BY <1>0 DEF LookedAt, NoReport
<1>6. LookedAt'
  BY <1>0, <1>1, <1>2, <1>4, <1>5 DEF LookedAt, FirstLook, Listening
<1>7. DoneBelow'
  <2>1. \A mail \in Done' : /\ mail[1] <= me.uidValidity
                            /\ mail[1] = me.uidValidity => mail[2] <= me.lastUid
    BY <1>0, <1>3 DEF DoneBelow, PostBelow
  <2> QED
    BY <2>1, <1>0, <1>1, <1>2, <1>4 DEF DoneBelow
<1>8. FetchAbove' /\ PostBelow' /\ OnlyNewsIsReported'
  BY <1>4 DEF FetchAbove, PostBelow, OnlyNewsIsReported, NoReport
<1>9. NothingPassedOver'
  <2>1. UNCHANGED past.base
    BY <1>2
  <2> QED
    BY <2>1, <1>0, <1>1, <1>3, <1>4 DEF NothingPassedOver, Done, NoReport
<1>10. ToldMailHasItsEvent'
  BY <1>0, <1>2 DEF ToldMailHasItsEvent
<1> QED
  BY <1>6, <1>7, <1>8, <1>9, <1>10 DEF Beyond

\* WatchInv is an invariant: what the watcher knows of the INBOX is true in
\* every state, whatever fails or overlaps.
THEOREM Watched == SafetySpec => []WatchInv
<1>1. Init => WatchInv
  BY InitInv
<1>2. WatchInv /\ [Next]_vars => WatchInv'
  <2> SUFFICES ASSUME WatchInv, [Next]_vars PROVE WatchInv'
    OBVIOUS
  <2>1. WatchTypes /\ Beyond
    BY InvSplit
  <2>2. Typed /\ WatchTypes'
    BY <2>1, TypesGive, TypesStep
  <2>3. SUFFICES Beyond'
    BY <2>2 DEF WatchInv, Beyond
  <2>4. CASE Arrive \/ (\E u \in Uids : Delete(u)) \/ Recreate
    BY <2>1, <2>2, <2>4, ServerSteps
  <2>5. CASE \/ Connected \/ ConnectFails \/ OpenRefused \/ OpenCutOff
             \/ Dropped \/ Rewatch \/ CountFolders \/ Disconnect \/ Notice
             \/ ReportBusy \/ NothingFound \/ FetchFails \/ UNCHANGED vars
    <3>1. Quiet
      BY <2>1, <2>2, <2>5, QuietSteps
    <3> QED
      BY <2>1, <2>2, <3>1, QuietKeeps
  <2>6. CASE Opened
    BY <2>1, <2>2, <2>6, OpenedKeeps
  <2>7. CASE Restart
    BY <2>1, <2>2, <2>7, RestartKeeps
  <2>8. CASE StartReport
    BY <2>1, <2>2, <2>8, StartReportKeeps
  <2>9. CASE BaselineFound
    BY <2>1, <2>2, <2>9, BaselineKeeps
  <2>10. CASE Fetched
    BY <2>1, <2>2, <2>10, FetchedKeeps
  <2>11. CASE Posted \/ PostFails
    BY <2>1, <2>2, <2>11, PostKeeps
  <2> QED
    BY <2>4, <2>5, <2>6, <2>7, <2>8, <2>9, <2>10, <2>11 DEF Next, Connection, Reporting
<1> QED
  BY <1>1, <1>2, PTL DEF SafetySpec

\* What was in the INBOX at the first look is never reported, and no mail is
\* reported twice: lastUid, UIDVALIDITY and the filter of reportNewMail.
THEOREM NewsOnly == SafetySpec => []OnlyNewsIsReported
<1>1. WatchInv => OnlyNewsIsReported
  BY DEF WatchInv
<1> QED
  BY <1>1, Watched, PTL

\* lastUid passes no mail that is still there without a report of it.
THEOREM NonePassed == SafetySpec => []NothingPassedOver
<1>1. WatchInv => NothingPassedOver
  BY DEF WatchInv
<1> QED
  BY <1>1, Watched, PTL

\* The keys of a report are those of its mail, so the router that ignores
\* known keys still holds an event for each mail it was told of.
THEOREM ToldStored == SafetySpec => []ToldMailHasItsEvent
<1>1. WatchInv => ToldMailHasItsEvent
  BY DEF WatchInv
<1> QED
  BY <1>1, Watched, PTL
(***************************************************************************)
(* No arrival gets lost: the counts on the wire and the reports queued     *)
(***************************************************************************)

\* The number of mails in the INBOX, and what one mail more or less makes of it.
LEMMA CountTypes ==
    ASSUME NEW S \in SUBSET Uids
    PROVE  /\ Cardinality(S) \in 0 .. MaxUid /\ Cardinality(S) \in Nat
           /\ \A u : u \notin S => Cardinality(S \cup {u}) = Cardinality(S) + 1
           /\ \A u : u \in S => Cardinality(S \ {u}) = Cardinality(S) - 1
<1>1. MaxUid \in Nat /\ MaxUid > 0
  BY WatchAssumption
<1>2. IsFiniteSet(Uids) /\ Cardinality(Uids) = MaxUid
  BY <1>1, FS_Interval DEF Uids
<1>3. IsFiniteSet(S) /\ Cardinality(S) <= MaxUid
  BY <1>2, FS_Subset
<1>4. Cardinality(S) \in Nat
  BY <1>3, FS_CardinalityType
<1>5. ASSUME NEW u, u \notin S PROVE Cardinality(S \cup {u}) = Cardinality(S) + 1
  BY <1>3, <1>5, FS_AddElement
<1>6. ASSUME NEW u, u \in S PROVE Cardinality(S \ {u}) = Cardinality(S) - 1
  BY <1>3, <1>6, FS_RemoveElement
<1> QED
  BY <1>1, <1>3, <1>4, <1>5, <1>6

\* Which handlers set the count, and which queue a report.
LEMMA HandlersQueue ==
    ASSUME NEW my \in Fields, NEW count \in Int, closed \in BOOLEAN
    PROVE  /\ QueueNewMail(my).inboxExists = my.inboxExists
           /\ ~closed => QueueNewMail(my).newMailTimer
           /\ my.newMailTimer => QueueNewMail(my).newMailTimer
           /\ QueueNewMail(my).reportAgain = my.reportAgain
           /\ NoteExpunge(my, count).inboxExists = count
           /\ NoteExpunge(my, count).newMailTimer = my.newMailTimer
           /\ NoteExpunge(my, count).reportAgain = my.reportAgain
           /\ NoteInboxExists(my, count).inboxExists = count
           /\ my.newMailTimer => NoteInboxExists(my, count).newMailTimer
           /\ NoteInboxExists(my, count).reportAgain = my.reportAgain
           /\ ~closed /\ my.inboxExists # NoCount /\ count > my.inboxExists =>
                NoteInboxExists(my, count).newMailTimer
           /\ Ended(my).inboxExists = my.inboxExists
           /\ my.newMailTimer => Ended(my).newMailTimer
           /\ ~closed /\ my.reportAgain => Ended(my).newMailTimer
           /\ ~my.reportAgain => Ended(my) = my
<1>1. \A y \in Fields : /\ QueueNewMail(y).inboxExists = y.inboxExists
                        /\ ~closed => QueueNewMail(y).newMailTimer
                        /\ y.newMailTimer => QueueNewMail(y).newMailTimer
                        /\ QueueNewMail(y).reportAgain = y.reportAgain
  BY DEF QueueNewMail, Fields
<1> DEFINE noted == [my EXCEPT !.inboxExists = count]
           over  == [my EXCEPT !.reportAgain = FALSE]
<1>2. /\ noted \in Fields /\ noted.inboxExists = count
      /\ noted.newMailTimer = my.newMailTimer /\ noted.reportAgain = my.reportAgain
  BY DEF Fields
<1>3. over \in Fields /\ over.inboxExists = my.inboxExists /\ over.newMailTimer = my.newMailTimer
  BY DEF Fields
<1>4. NoteInboxExists(my, count) =
        IF my.inboxExists # NoCount /\ count > my.inboxExists THEN QueueNewMail(noted) ELSE noted
  BY DEF NoteInboxExists
<1>5. Ended(my) = IF my.reportAgain THEN QueueNewMail(over) ELSE my
  BY DEF Ended
<1>6. NoteExpunge(my, count) = noted
  BY DEF NoteExpunge
<1> HIDE DEF noted, over
<1> QED
  BY <1>1, <1>2, <1>3, <1>4, <1>5, <1>6

\* Steps of the watcher that neither read a notice nor select the INBOX.
Inward == \/ Disconnect \/ StartReport \/ ReportBusy \/ BaselineFound \/ NothingFound
          \/ FetchFails \/ Fetched \/ Posted \/ PostFails \/ UNCHANGED vars

\* They leave counts and notices alone.
LEMMA InwardKeeps ==
    ASSUME WatchTypes, Inward
    PROVE  /\ UNCHANGED <<inbox, uidNext, validity, wire>>
           /\ me'.inboxExists = me.inboxExists
           /\ conn' = conn \/ (~Listening /\ conn' = NoConn)
<1>0. me \in Fields /\ closed \in BOOLEAN /\ 0 \in Int
  BY DEF WatchTypes
<1>1. Ended(me).inboxExists = me.inboxExists
  BY <1>0, HandlersQueue
<1>2. CASE Disconnect
  BY <1>0, <1>2 DEF Disconnect, server, Fields, Listening
<1>3. CASE StartReport \/ ReportBusy
  BY <1>0, <1>3 DEF StartReport, ReportBusy, server, Fields
<1>4. CASE BaselineFound
  <2>1. [me EXCEPT !.lastUid = Top(inbox)] \in Fields
    <3>1. inbox \in SUBSET Uids /\ Uids \subseteq Nat
      BY WatchAssumption DEF WatchTypes, Uids
    <3>2. Top(inbox) \in Nat
      BY <3>1, TopGreatest DEF Top
    <3> QED
      BY <1>0, <3>2 DEF Fields
  <2>2. [me EXCEPT !.lastUid = Top(inbox)].inboxExists = me.inboxExists
    BY <1>0 DEF Fields
  <2>3. Ended([me EXCEPT !.lastUid = Top(inbox)]).inboxExists = me.inboxExists
    BY <1>0, <2>1, <2>2, HandlersQueue
  <2> QED
    BY <1>4, <2>3 DEF BaselineFound, server
<1>5. CASE NothingFound \/ FetchFails \/ Posted \/ PostFails
  BY <1>1, <1>5 DEF NothingFound, FetchFails, Posted, PostFails, server
<1>6. CASE Fetched
  BY <1>0, <1>6 DEF Fetched, server, Fields
<1>7. CASE UNCHANGED vars
  BY <1>7 DEF vars, server
<1> QED
  BY <1>2, <1>3, <1>4, <1>5, <1>6, <1>7 DEF Inward

\* Steps after which nobody listens and nothing is on the wire.
Deaf == \/ Connected \/ ConnectFails \/ OpenRefused \/ OpenCutOff \/ CountFolders
        \/ Dropped \/ Recreate \/ Restart \/ (Rewatch /\ ~Listening)

LEMMA DeafSteps ==
    ASSUME WatchTypes, CountsAgree, Deaf
    PROVE  ~Listening' /\ wire' = <<>> /\ conn'.exists \in Nat
<1>0. conn \in ConnTypes /\ conn.exists \in Nat /\ (~Listening => wire = <<>>)
  BY DEF WatchTypes, ConnTypes, CountsAgree
<1>1. /\ NoConn.exists = 0 /\ NoConn.state = "none"
      /\ Dialling.exists = 0 /\ Dialling.state = "connecting"
  BY DEF NoConn, Dialling
<1>2. CASE Connected \/ OpenRefused \/ OpenCutOff
  <2>1. conn'.state # "live" /\ conn'.exists \in Nat
    BY <1>0, <1>1, <1>2 DEF Connected, OpenRefused, OpenCutOff, NoConn, ConnTypes
  <2> QED
    BY <1>0, <1>2, <2>1 DEF Connected, OpenRefused, OpenCutOff, Listening
<1>3. CASE ConnectFails \/ Dropped \/ Recreate \/ Restart
  <2>1. wire' = <<>>
    BY <1>0, <1>3 DEF ConnectFails, Dropped, Recreate, Restart, Listening
  <2>2. conn' = NoConn \/ conn' = Dialling \/ (conn' = conn /\ ~Listening)
    BY <1>3 DEF ConnectFails, Dropped, Recreate, Restart
  <2> QED
    BY <1>0, <1>1, <2>1, <2>2 DEF Listening
<1>4. CASE CountFolders \/ (Rewatch /\ ~Listening)
  <2>1. wire' = <<>>
    BY <1>0, <1>4 DEF CountFolders, Rewatch, Listening
  <2>2. conn'.state # "live" /\ conn'.exists \in Nat
    BY <1>0, <1>1, <1>4 DEF CountFolders, Rewatch, Pending, Dialling, Listening, ConnTypes
  <2> QED
    BY <2>1, <2>2 DEF Listening
<1> QED
  BY <1>2, <1>3, <1>4 DEF Deaf

\* The notices lead to what the INBOX holds, whatever happens on either side.
LEMMA CountsStep ==
    ASSUME WatchTypes, CountsAgree, [Next]_vars
    PROVE  CountsAgree'
<1>1. /\ me \in Fields /\ closed \in BOOLEAN /\ conn \in ConnTypes /\ inbox \in SUBSET Uids
      /\ wire \in Seq(Nat) /\ conn.exists \in Nat
      /\ (~Listening => wire = <<>>)
      /\ (Listening => me.inboxExists = conn.exists)
      /\ (Listening => \E h \in [0 .. Len(wire) -> 0 .. MaxUid] : Counted(h))
  BY DEF WatchTypes, ConnTypes, CountsAgree
<1>2. MaxUid \in Nat
  BY WatchAssumption
<1>3. CASE Deaf
  BY <1>3, DeafSteps DEF CountsAgree
<1>4. CASE Inward
  <2>1. /\ UNCHANGED <<inbox, wire>> /\ me'.inboxExists = me.inboxExists
        /\ conn' = conn \/ (~Listening /\ conn' = NoConn)
    BY <1>4, InwardKeeps
  <2>2. CASE conn' = conn
    BY <1>1, <2>1, <2>2 DEF CountsAgree, Counted, Listening
  <2>3. CASE ~Listening /\ conn' = NoConn
    BY <1>1, <2>1, <2>3 DEF CountsAgree, Listening, NoConn
  <2> QED
    BY <2>1, <2>2, <2>3
<1>5. CASE Rewatch /\ Listening
  BY <1>1, <1>5 DEF Rewatch, Pending, CountsAgree, Counted, Listening, server
<1>6. CASE Opened
  <2>1. Cardinality(inbox) \in 0 .. MaxUid /\ Cardinality(inbox) \in Nat
    BY <1>1, CountTypes
  <2>2. wire' = <<>> /\ inbox' = inbox /\ conn'.exists = Cardinality(inbox)
    BY <1>1, <1>6 DEF Opened, Listening, server
  <2>3. me'.inboxExists = Cardinality(inbox)
    <3>1. PICK baseline \in {uidNext - 1, NoBase} :
            me' = NoteInboxExists(TrackNewMail(me, baseline), Cardinality(inbox))
      BY <1>6 DEF Opened
    <3> QED
      BY <3>1 DEF NoteInboxExists, QueueNewMail
  <2> DEFINE h == [i \in 0 .. 0 |-> Cardinality(inbox)]
  <2>4. h \in [0 .. Len(wire') -> 0 .. MaxUid] /\ Counted(h)'
    BY <2>1, <2>2 DEF Counted
  <2> QED
    BY <2>1, <2>2, <2>3, <2>4 DEF CountsAgree
<1>7. CASE Arrive \/ \E u \in Uids : Delete(u)
  <2>1. UNCHANGED <<conn, me>>
    BY <1>7 DEF Arrive, Delete
  <2>2. CASE ~Listening
    BY <1>1, <1>7, <2>1, <2>2 DEF Arrive, Delete, Pushed, CountsAgree, Listening
  <2>3. CASE Listening
    <3>1. PICK h \in [0 .. Len(wire) -> 0 .. MaxUid] : Counted(h)
      BY <1>1, <2>3
    <3>2. PICK n \in Nat, c \in 0 .. MaxUid :
            /\ wire' = Append(wire, n) /\ Cardinality(inbox') = c
            /\ \/ n = Expunge /\ c = Cardinality(inbox) - 1
               \/ n = c /\ c = Cardinality(inbox) + 1
      <4>1. CASE Arrive
        <5>1. inbox' = inbox \cup {uidNext} /\ inbox' \in SUBSET Uids /\ uidNext \notin inbox
          BY <4>1 DEF Arrive, WatchTypes, Uids
        <5>2. Cardinality(inbox') = Cardinality(inbox) + 1 /\ Cardinality(inbox') \in 0 .. MaxUid
          BY <1>1, <5>1, CountTypes
        <5>3. wire' = Append(wire, Cardinality(inbox) + 1)
          BY <2>3, <4>1 DEF Arrive, Pushed
        <5> QED
          BY <5>2, <5>3
      <4>2. CASE \E u \in Uids : Delete(u)
        <5>1. PICK u \in inbox : inbox' = inbox \ {u} /\ wire' = Append(wire, Expunge)
          BY <2>3, <4>2 DEF Delete, Pushed
        <5>2. inbox' \in SUBSET Uids
          BY <1>1, <5>1
        <5>3. Cardinality(inbox') = Cardinality(inbox) - 1 /\ Cardinality(inbox') \in 0 .. MaxUid
          BY <1>1, <5>1, <5>2, CountTypes
        <5> QED
          BY <5>1, <5>3 DEF Expunge
      <4> QED
        BY <1>7, <4>1, <4>2
    <3>3. PICK l, g : l = Len(wire) + 1 /\ g = [i \in 0 .. l |-> IF i = l THEN c ELSE h[i]]
      OBVIOUS
    <3>4. Len(wire) \in Nat /\ Len(wire') = l /\ wire' \in Seq(Nat) /\ wire'[l] = n
      BY <1>1, <3>3, <3>2
    <3>5. \A i \in 1 .. Len(wire) : wire'[i] = wire[i]
      BY <1>1, <3>2
    <3>6. /\ g \in [0 .. l -> 0 .. MaxUid]
          /\ g[l] = c /\ \A i \in 0 .. Len(wire) : g[i] = h[i]
      BY <3>3, <3>4
    <3>7. g[0] = conn.exists /\ h[Len(wire)] = Cardinality(inbox) /\ g[l - 1] = h[Len(wire)]
      BY <3>3, <3>1, <3>4, <3>6 DEF Counted
    <3>8. ASSUME NEW i \in 1 .. l
          PROVE  \/ wire'[i] = Expunge /\ g[i] = g[i - 1] - 1
                 \/ wire'[i] = g[i] /\ g[i] = g[i - 1] + 1
      <4>1. CASE i = l
        BY <3>2, <3>4, <3>6, <3>7, <4>1
      <4>2. CASE i \in 1 .. Len(wire)
        <5>1. \/ wire[i] = Expunge /\ h[i] = h[i - 1] - 1
              \/ wire[i] = h[i] /\ h[i] = h[i - 1] + 1
          BY <3>1, <4>2 DEF Counted
        <5>2. g[i] = h[i] /\ g[i - 1] = h[i - 1] /\ wire'[i] = wire[i]
          BY <3>4, <3>5, <3>6, <4>2
        <5> QED
          BY <5>1, <5>2
      <4> QED
        BY <3>3, <3>4, <4>1, <4>2
    <3>9. Counted(g)'
      BY <2>1, <3>2, <3>4, <3>6, <3>7, <3>8 DEF Counted
    <3>10. \E k \in [0 .. Len(wire') -> 0 .. MaxUid] : Counted(k)'
      BY <3>4, <3>6, <3>9
    <3> QED
      BY <1>1, <2>1, <2>3, <3>4, <3>10 DEF CountsAgree, Listening
  <2> QED
    BY <2>2, <2>3
<1>8. CASE Notice
  <2>1. Listening /\ wire # <<>> /\ wire' = Tail(wire) /\ UNCHANGED inbox
    BY <1>8 DEF Notice, server
  <2>2. PICK h \in [0 .. Len(wire) -> 0 .. MaxUid] : Counted(h)
    BY <1>1, <2>1
  <2> DEFINE count == IF Head(wire) = Expunge THEN conn.exists - 1 ELSE Head(wire)
  <2>3. /\ conn' = [conn EXCEPT !.exists = count]
        /\ me' = IF Head(wire) = Expunge THEN NoteExpunge(me, count)
                 ELSE IF count = conn.exists THEN me
                 ELSE NoteInboxExists(me, count)
    BY <1>8 DEF Notice
  <2>4. Head(wire) = wire[1] /\ Len(wire) \in Nat /\ 1 \in 1 .. Len(wire)
    BY <1>1, <2>1
  <2>5. h[0] \in Nat /\ h[1] \in Nat /\ h[0] = conn.exists
        /\ \/ wire[1] = Expunge /\ h[1] = h[0] - 1
           \/ wire[1] = h[1] /\ h[1] = h[0] + 1
    <3>1. h[0] \in Nat /\ h[1] \in Nat /\ 1 - 1 = 0
      BY <1>2, <2>2, <2>4
    <3>2. h[0] = conn.exists
      BY <2>2 DEF Counted
    <3>3. \/ wire[1] = Expunge /\ h[1] = h[1 - 1] - 1
          \/ wire[1] = h[1] /\ h[1] = h[1 - 1] + 1
      BY <2>2, <2>4 DEF Counted
    <3> QED
      BY <3>1, <3>2, <3>3
  <2>6. count = h[1]
    BY <2>4, <2>5 DEF Expunge
  <2> HIDE DEF count
  <2>7. count \in Nat /\ me'.inboxExists = count
    BY <1>1, <2>3, <2>5, <2>6, HandlersQueue
  <2>8. conn'.exists = count /\ Listening'
    BY <1>1, <2>1, <2>3 DEF ConnTypes, Listening
  <2>9. PICK g : g = [i \in 0 .. Len(wire) - 1 |-> h[i + 1]]
    OBVIOUS
  <2>10. /\ Len(wire') = Len(wire) - 1 /\ wire' \in Seq(Nat)
        /\ \A i \in 1 .. Len(wire') : wire'[i] = wire[i + 1]
    BY <1>1, <2>1
  <2>11. g \in [0 .. Len(wire') -> 0 .. MaxUid]
    BY <2>4, <2>10, <2>9
  <2>12. g[0] = h[1] /\ g[Len(wire')] = h[Len(wire)]
    BY <2>4, <2>10, <2>9
  <2>13. ASSUME NEW i \in 1 .. Len(wire')
         PROVE  \/ wire'[i] = Expunge /\ g[i] = g[i - 1] - 1
                \/ wire'[i] = g[i] /\ g[i] = g[i - 1] + 1
    <3>1. i + 1 \in 1 .. Len(wire) /\ g[i] = h[i + 1] /\ g[i - 1] = h[i] /\ (i + 1) - 1 = i
      BY <2>4, <2>10, <2>9
    <3>2. \/ wire[i + 1] = Expunge /\ h[i + 1] = h[(i + 1) - 1] - 1
          \/ wire[i + 1] = h[i + 1] /\ h[i + 1] = h[(i + 1) - 1] + 1
      BY <2>2, <3>1 DEF Counted
    <3> QED
      BY <2>10, <3>1, <3>2
  <2>14. Counted(g)'
    BY <2>1, <2>2, <2>6, <2>8, <2>12, <2>13 DEF Counted
  <2>15. \E k \in [0 .. Len(wire') -> 0 .. MaxUid] : Counted(k)'
    BY <2>11, <2>14
  <2> QED
    BY <2>7, <2>8, <2>10, <2>15 DEF CountsAgree
<1> QED
  BY <1>3, <1>4, <1>5, <1>6, <1>7, <1>8 DEF Next, Connection, Reporting, Deaf, Inward

\* A report that ends without having moved on: its wake-ups are queued again.
LEMMA EndedAwaits ==
    ASSUME WatchTypes, MailAwaited, me' = Ended(me),
           UNCHANGED <<inbox, validity, wire, conn, closed, me.lastUid, past.missed>>,
           \A u \in inbox : u > me.lastUid => <<validity, u>> \notin report.found
    PROVE  MailAwaited'
<1>0. me \in Fields /\ closed \in BOOLEAN /\ 0 \in Int
  BY DEF WatchTypes
<1>1. /\ me.newMailTimer => me'.newMailTimer
      /\ ~closed /\ me.reportAgain => me'.newMailTimer
  BY <1>0, HandlersQueue
<1> QED
  BY <1>1 DEF MailAwaited, Listening

\* New mail stays awaited.
LEMMA AwaitedStep ==
    ASSUME WatchTypes, Typed, Beyond, CountsAgree, MailAwaited, [Next]_vars
    PROVE  MailAwaited'
<1>0. /\ me \in Fields /\ closed \in BOOLEAN /\ conn \in ConnTypes /\ past \in PastTypes
      /\ inbox \in SUBSET Uids /\ wire \in Seq(Nat) /\ 0 \in Int
  BY DEF WatchTypes, ConnTypes, PastTypes, CountsAgree
<1>1. Listening => me.lastUid # NoUid /\ me.uidValidity = validity
  BY DEF Beyond, LookedAt, FirstLook
<1>2. CASE Deaf
  BY <1>2, DeafSteps DEF MailAwaited
<1>3. CASE Disconnect
  BY <1>3 DEF Disconnect, MailAwaited
<1>4. CASE Rewatch /\ Listening
  BY <1>4 DEF Rewatch, Pending, MailAwaited, Listening, server
<1>5. CASE Opened
  <2>1. PICK baseline \in {uidNext - 1, NoBase} :
          me' = NoteInboxExists(TrackNewMail(me, baseline), Cardinality(inbox))
    BY <1>5 DEF Opened
  <2>2. Cardinality(inbox) \in Int /\ baseline \in Nat \cup {NoBase}
    BY <1>0, CountIsInt DEF Typed
  <2>3. TrackNewMail(me, baseline) \in Fields
    BY <1>0, <2>2, HandlersKeep DEF TrackNewMail, Typed, Fields
  <2>4. CASE FirstLook(me)
    <3>1. TrackNewMail(me, baseline).lastUid = baseline
      BY <1>0, <2>4 DEF TrackNewMail, Fields
    <3>2. me'.lastUid = baseline
      BY <1>0, <2>1, <2>2, <2>3, <3>1, HandlersKeep
    <3>3. UNCHANGED <<inbox, uidNext>>
      BY <1>5 DEF Opened, server
    <3> QED
      BY <2>1, <3>2, <3>3 DEF MailAwaited, Typed
  <2>5. CASE ~FirstLook(me)
    <3>1. TrackNewMail(me, baseline) = QueueNewMail(me)
      BY <2>5 DEF TrackNewMail
    <3>2. ~closed => TrackNewMail(me, baseline).newMailTimer
      BY <1>0, <3>1, HandlersQueue
    <3>3. ~closed => me'.newMailTimer
      BY <1>0, <2>1, <2>2, <2>3, <3>2, HandlersQueue
    <3> QED
      BY <1>5, <3>3 DEF MailAwaited, Opened
  <2> QED
    BY <2>4, <2>5
<1>6. CASE Arrive
  <2>1. Cardinality(inbox) \in Nat
    BY <1>0, CountTypes
  <2>2. SUFFICES ASSUME Listening PROVE \E i \in 1 .. Len(wire') : wire'[i] # Expunge
    BY <1>6 DEF Arrive, MailAwaited, Listening
  <2>3. wire' = Append(wire, Cardinality(inbox) + 1)
    BY <1>6, <2>2 DEF Arrive, Pushed
  <2>4. Len(wire') \in 1 .. Len(wire') /\ wire'[Len(wire')] = Cardinality(inbox) + 1
    BY <1>0, <2>1, <2>3
  <2> QED
    BY <2>1, <2>4 DEF Expunge
<1>7. CASE \E u \in Uids : Delete(u)
  <2>1. /\ inbox' \subseteq inbox /\ UNCHANGED <<validity, conn, me, report, past, closed>>
        /\ Listening => wire' = Append(wire, Expunge)
    BY <1>7 DEF Delete, Pushed
  <2>2. Listening => \A i \in 1 .. Len(wire) : i \in 1 .. Len(wire') /\ wire'[i] = wire[i]
    BY <1>0, <2>1 DEF Expunge
  <2> QED
    BY <2>1, <2>2 DEF MailAwaited, Listening
<1>8. CASE Notice
  <2>0. /\ Listening /\ wire # <<>> /\ wire' = Tail(wire)
        /\ UNCHANGED <<inbox, validity, closed, report, past>>
    BY <1>8 DEF Notice, server
  <2> DEFINE count == IF Head(wire) = Expunge THEN conn.exists - 1 ELSE Head(wire)
  <2>1. /\ conn' = [conn EXCEPT !.exists = count]
        /\ me' = IF Head(wire) = Expunge THEN NoteExpunge(me, count)
                 ELSE IF count = conn.exists THEN me
                 ELSE NoteInboxExists(me, count)
    BY <1>8 DEF Notice
  <2>2. PICK h \in [0 .. Len(wire) -> 0 .. MaxUid] : Counted(h)
    BY <2>0 DEF CountsAgree
  <2>3. Head(wire) = wire[1] /\ Head(wire) \in Nat /\ Len(wire) \in Nat /\ 1 \in 1 .. Len(wire)
    BY <1>0, <2>0
  <2>4. Head(wire) # Expunge => Head(wire) = conn.exists + 1
    <3>1. h[0] = conn.exists /\ 1 - 1 = 0
      BY <2>2 DEF Counted
    <3>2. \/ wire[1] = Expunge /\ h[1] = h[1 - 1] - 1
          \/ wire[1] = h[1] /\ h[1] = h[1 - 1] + 1
      BY <2>2, <2>3 DEF Counted
    <3> QED
      BY <2>3, <3>1, <3>2
  <2>5. conn.exists \in Nat /\ me.inboxExists = conn.exists /\ count \in Int
    BY <2>0, <2>3 DEF CountsAgree
  <2> HIDE DEF count
  <2>6. me'.lastUid = me.lastUid
    BY <1>0, <2>1, <2>5, HandlersKeep
  <2>7. CASE Head(wire) # Expunge
    <3>1. count = conn.exists + 1 /\ count > me.inboxExists /\ me.inboxExists # NoCount
      BY <2>4, <2>5, <2>7 DEF count, NoCount
    <3>2. ~closed => me'.newMailTimer
      BY <1>0, <2>1, <2>5, <2>7, <3>1, HandlersQueue
    <3> QED
      BY <2>0, <3>2 DEF MailAwaited
  <2>8. CASE Head(wire) = Expunge
    <3>1. me'.newMailTimer = me.newMailTimer /\ me'.reportAgain = me.reportAgain
      BY <1>0, <2>1, <2>5, <2>8, HandlersQueue
    <3>2. \A i \in 1 .. Len(wire) : wire[i] # Expunge =>
            i - 1 \in 1 .. Len(wire') /\ wire'[i - 1] = wire[i]
      <4> SUFFICES ASSUME NEW i \in 1 .. Len(wire), wire[i] # Expunge
                   PROVE  i - 1 \in 1 .. Len(wire') /\ wire'[i - 1] = wire[i]
        OBVIOUS
      <4>1. i # 1 /\ i \in Nat
        BY <2>3, <2>8
      <4> QED
        BY <1>0, <2>0, <2>3, <4>1
    <3> QED
      BY <2>0, <2>6, <3>1, <3>2 DEF MailAwaited
  <2> QED
    BY <2>7, <2>8
<1>9. CASE StartReport
  <2>1. /\ UNCHANGED <<inbox, validity, conn>> /\ me'.lastUid = me.lastUid
        /\ report' = IF conn.state \notin {"live", "deaf"} \/ me.lastUid = NoUid THEN NoReport
                     ELSE IF me.lastUid = NoBase THEN [NoReport EXCEPT !.stage = "base"]
                     ELSE [NoReport EXCEPT !.stage = "fetch",
                                           !.found = IF Listening THEN Found ELSE {}]
    BY <1>0, <1>9 DEF StartReport, server, Fields
  <2>2. SUFFICES ASSUME Listening, me.lastUid # NoBase
                 PROVE  \A u \in inbox : u > me.lastUid => <<validity, u>> \in report'.found
    BY <2>1 DEF MailAwaited, Listening
  <2>3. report'.found = Found
    BY <1>1, <2>1, <2>2 DEF Listening, NoReport
  <2> QED
    BY <2>3 DEF Found
<1>10. CASE ReportBusy
  <2>1. me'.reportAgain
    BY <1>0, <1>10 DEF ReportBusy, Fields
  <2> QED
    BY <2>1 DEF MailAwaited
<1>11. CASE BaselineFound
  <2>1. inbox \in SUBSET Uids /\ Uids \subseteq Nat
    BY <1>0, WatchAssumption DEF Uids
  <2>2. Top(inbox) \in Nat /\ \A u \in inbox : u <= Top(inbox)
    BY <2>1, TopGreatest DEF Top
  <2>3. [me EXCEPT !.lastUid = Top(inbox)] \in Fields
    BY <1>0, <2>2 DEF Fields
  <2>4. me'.lastUid = [me EXCEPT !.lastUid = Top(inbox)].lastUid
    BY <1>0, <1>11, <2>3, HandlersKeep DEF BaselineFound
  <2>5. me'.lastUid = Top(inbox) /\ inbox' = inbox
    BY <1>0, <1>11, <2>4 DEF BaselineFound, Fields, server
  <2> QED
    BY <2>1, <2>2, <2>5 DEF MailAwaited
<1>12. CASE NothingFound
  <2>1. me' = Ended(me) /\ UNCHANGED <<inbox, validity, wire, conn, closed, past>>
        /\ report.found = {}
    BY <1>12 DEF NothingFound, server
  <2>2. me'.lastUid = me.lastUid
    BY <1>0, <2>1, HandlersKeep
  <2> QED
    BY <2>1, <2>2, EndedAwaits
<1>13. CASE FetchFails
  <2>1. me' = Ended(me) /\ UNCHANGED <<conn, closed>>
    BY <1>13 DEF FetchFails
  <2>2. past'.missed = (Listening /\ ~me.reportAgain)
    BY <1>0, <1>13 DEF FetchFails, PastTypes
  <2>3. ~closed /\ me.reportAgain => me'.newMailTimer
    BY <1>0, <2>1, HandlersQueue
  <2> QED
    BY <2>1, <2>2, <2>3 DEF MailAwaited, Listening
<1>14. CASE Fetched
  <2> DEFINE S == UidsOf(report.found)
  <2>1. S \in SUBSET Uids /\ S # {}
    BY <1>14 DEF Fetched, UidsOf, WatchTypes, Mails
  <2>2. LastFetched \in S /\ \A u \in S : u <= LastFetched
    BY <2>1, TopGreatest DEF LastFetched
  <2>3. /\ UNCHANGED <<inbox, validity, wire, conn, closed>>
        /\ past'.missed = past.missed /\ me'.lastUid = LastFetched
        /\ me'.newMailTimer = me.newMailTimer /\ me'.reportAgain = me.reportAgain
    BY <1>0, <1>14 DEF Fetched, server, Fields, PastTypes
  <2>4. report.stage = "fetch" /\ me.lastUid >= 0
    BY <1>14 DEF Fetched, Beyond, FetchAbove
  <2>5. \A u \in S : u \in Int /\ me.lastUid < u
    BY <2>4 DEF UidsOf, Beyond, FetchAbove, Typed
  <2>6. ASSUME NEW u \in inbox, u > LastFetched
        PROVE  u > me.lastUid /\ <<validity, u>> \notin report.found
    <3>1. u \in Int /\ LastFetched \in Int /\ me.lastUid \in Int
      BY <2>2, <2>5 DEF Typed
    <3>2. u \notin S
      BY <2>2, <2>6, <3>1
    <3> QED
      BY <2>2, <2>5, <2>6, <3>1, <3>2 DEF UidsOf
  <2> HIDE DEF S
  <2> QED
    BY <2>3, <2>4, <2>6 DEF MailAwaited, Listening, NoBase
<1>15. CASE Posted \/ PostFails
  <2>1. me' = Ended(me) /\ UNCHANGED <<inbox, validity, wire, conn, closed>>
        /\ past'.missed = past.missed /\ report.stage = "post"
    BY <1>0, <1>15 DEF Posted, PostFails, server, PastTypes
  <2>2. me'.lastUid = me.lastUid
    BY <1>0, <2>1, HandlersKeep
  <2>3. CASE Listening
    <3>1. \A u \in inbox : u > me.lastUid => <<validity, u>> \notin report.found
      BY <1>1, <2>1, <2>3 DEF Beyond, PostBelow, Typed
    <3> QED
      BY <2>1, <2>2, <3>1, EndedAwaits
  <2>4. CASE ~Listening
    BY <2>1, <2>4 DEF MailAwaited, Listening
  <2> QED
    BY <2>3, <2>4
<1>16. CASE UNCHANGED vars
  BY <1>16 DEF vars, server, MailAwaited, Listening
<1> QED
  BY <1>2, <1>3, <1>4, <1>5, <1>6, <1>7, <1>8, <1>9, <1>10, <1>11, <1>12, <1>13, <1>14,
     <1>15, <1>16 DEF Next, Connection, Reporting, Deaf

SpentTypes == [deletions : Nat, recreations : Nat, drops : Nat, failures : Nat,
               restarts : Nat]

\* One more of a bound used up is a number again.
LEMMA UsedTypes ==
    ASSUME spent \in SpentTypes, NEW what \in {"deletions", "recreations", "drops",
                                               "failures", "restarts"},
           NEW most, Used(what, most)
    PROVE  spent' \in SpentTypes
  BY DEF Used, SpentTypes

\* The bounds of the model stay numbers.
LEMMA BoundsStep ==
    ASSUME uidNext \in Nat, uidNext <= MaxUid + 1, spent \in SpentTypes, [Next]_vars
    PROVE  uidNext' <= MaxUid + 1 /\ spent' \in SpentTypes
<1>0. MaxUid \in Nat /\ MaxUid >= 1
  BY WatchAssumption
<1>1. uidNext' <= MaxUid + 1
  <2>1. CASE Arrive \/ Recreate
    BY <1>0, <2>1 DEF Arrive, Recreate
  <2>2. CASE \/ (\E u \in Uids : Delete(u)) \/ Connected \/ ConnectFails \/ Opened
             \/ OpenRefused \/ OpenCutOff \/ Dropped \/ Rewatch \/ CountFolders \/ Notice
             \/ StartReport \/ ReportBusy \/ BaselineFound \/ NothingFound \/ FetchFails
             \/ Fetched \/ Posted \/ PostFails \/ Disconnect \/ Restart \/ UNCHANGED vars
    BY <2>2 DEF Delete, Connected, ConnectFails, Opened, OpenRefused, OpenCutOff, Dropped,
                Rewatch, CountFolders, Notice, StartReport, ReportBusy, BaselineFound,
                NothingFound, FetchFails, Fetched, Posted, PostFails, Disconnect, Restart,
                vars, server
  <2> QED
    BY <2>1, <2>2 DEF Next, Connection, Reporting
<1>2. spent' \in SpentTypes
  <2>1. CASE \/ Arrive \/ Connected \/ Opened \/ Rewatch \/ CountFolders \/ Notice
             \/ StartReport \/ ReportBusy \/ BaselineFound \/ NothingFound \/ Fetched
             \/ Posted \/ Disconnect \/ UNCHANGED vars
    BY <2>1 DEF Arrive, Connected, Opened, Rewatch, CountFolders, Notice, StartReport,
                ReportBusy, BaselineFound, NothingFound, Fetched, Posted, Disconnect, vars
  <2>2. CASE \/ (\E u \in Uids : Delete(u)) \/ Recreate \/ ConnectFails \/ OpenRefused
             \/ OpenCutOff \/ Dropped \/ FetchFails \/ PostFails \/ Restart
    <3>1. \/ spent' = spent
          \/ \E what \in {"deletions", "recreations", "drops", "failures", "restarts"} :
               \E most : Used(what, most)
      BY <2>2, Zenon DEF Delete, Recreate, ConnectFails, OpenRefused, OpenCutOff, Dropped,
                         FetchFails, PostFails, Restart
    <3> QED
      BY <3>1, UsedTypes
  <2> QED
    BY <2>1, <2>2 DEF Next, Connection, Reporting
<1> QED
  BY <1>1, <1>2

\* The watcher knows a count as soon as it knows a uid, and never loses one alone.
LEMMA KnownStep ==
    ASSUME WatchTypes, Typed, CountsAgree, CountsAgree', [Next]_vars,
           me.inboxExists \in Nat \cup {NoCount},
           me.lastUid = NoUid <=> me.inboxExists = NoCount, Beyond
    PROVE  /\ me'.inboxExists \in Nat \cup {NoCount}
           /\ me'.lastUid = NoUid <=> me'.inboxExists = NoCount
<1>1. /\ me \in Fields /\ closed \in BOOLEAN /\ conn \in ConnTypes
      /\ inbox \in SUBSET Uids /\ wire \in Seq(Nat) /\ 0 \in Int
  BY DEF WatchTypes, ConnTypes, CountsAgree
<1>2. CASE me'.lastUid = me.lastUid /\ me'.inboxExists = me.inboxExists
  BY <1>2
<1>3. CASE \/ Arrive \/ (\E u \in Uids : Delete(u)) \/ Recreate \/ Connected \/ ConnectFails
           \/ OpenRefused \/ OpenCutOff \/ Rewatch \/ CountFolders \/ UNCHANGED vars
  BY <1>2, <1>3 DEF Arrive, Delete, Recreate, Connected, ConnectFails, OpenRefused,
                    OpenCutOff, Rewatch, CountFolders, vars
<1>4. CASE Disconnect \/ StartReport \/ ReportBusy
  BY <1>1, <1>2, <1>4 DEF Disconnect, StartReport, ReportBusy, Fields
<1>5. CASE Dropped \/ NothingFound \/ FetchFails \/ Posted \/ PostFails
  <2>1. me' = me \/ me' = Ended(me)
    BY <1>5 DEF Dropped, NothingFound, FetchFails, Posted, PostFails
  <2> QED
    BY <1>1, <1>2, <2>1, HandlersKeep, HandlersQueue
<1>6. CASE Restart
  BY <1>6 DEF Restart, Blank, NoUid, NoCount
<1>7. CASE Opened
  <2>1. PICK baseline \in {uidNext - 1, NoBase} :
          me' = NoteInboxExists(TrackNewMail(me, baseline), Cardinality(inbox))
    BY <1>7 DEF Opened
  <2>2. Cardinality(inbox) \in Nat /\ Cardinality(inbox) \in Int
        /\ baseline \in Nat \cup {NoBase}
    BY <1>1, CountTypes DEF Typed
  <2>3. TrackNewMail(me, baseline) \in Fields /\ TrackNewMail(me, baseline).lastUid # NoUid
    <3>1. CASE FirstLook(me)
      <4>1. TrackNewMail(me, baseline) = [me EXCEPT !.lastUid = baseline, !.uidValidity = validity]
        BY <3>1 DEF TrackNewMail
      <4>2. validity \in Nat /\ baseline \in Nat \cup {NoUid, NoBase} /\ baseline # NoUid
        BY <2>2 DEF Typed, NoUid, NoBase
      <4> QED
        BY <1>1, <4>1, <4>2 DEF Fields
    <3>2. CASE ~FirstLook(me)
      <4>1. TrackNewMail(me, baseline) = QueueNewMail(me) /\ me.lastUid # NoUid
        BY <3>2 DEF TrackNewMail, FirstLook
      <4> QED
        BY <1>1, <4>1, HandlersKeep
    <3> QED
      BY <3>1, <3>2
  <2>4. me'.lastUid # NoUid /\ me'.inboxExists = Cardinality(inbox)
    <3>1. NoteInboxExists(TrackNewMail(me, baseline), Cardinality(inbox)).lastUid
            = TrackNewMail(me, baseline).lastUid
      BY <1>1, <2>2, <2>3, HandlersKeep
    <3>2. NoteInboxExists(TrackNewMail(me, baseline), Cardinality(inbox)).inboxExists
            = Cardinality(inbox)
      BY <1>1, <2>2, <2>3, HandlersQueue
    <3> QED
      BY <2>1, <2>3, <3>1, <3>2
  <2> QED
    BY <2>2, <2>4 DEF NoCount
<1>8. CASE Notice
  <2>1. Listening /\ Listening' /\ me.lastUid # NoUid
    BY <1>1, <1>8 DEF Notice, Listening, ConnTypes, Beyond, LookedAt, FirstLook
  <2>2. me'.inboxExists \in Nat
    BY <2>1 DEF CountsAgree
  <2>3. Head(wire) \in Nat /\ conn.exists \in Int
    BY <1>1, <1>8 DEF Notice, CountsAgree
  <2>4. me'.lastUid = me.lastUid
    <3>1. PICK count \in Int : me' \in {me, NoteExpunge(me, count), NoteInboxExists(me, count)}
      BY <1>8, <2>3 DEF Notice
    <3> QED
      BY <1>1, <3>1, HandlersKeep
  <2> QED
    BY <2>1, <2>2, <2>4 DEF NoCount
<1>9. CASE BaselineFound
  <2>1. inbox \in SUBSET Uids /\ Uids \subseteq Nat
    BY <1>1, WatchAssumption DEF Uids
  <2>2. Top(inbox) \in Nat
    BY <2>1, TopGreatest DEF Top
  <2>3. /\ [me EXCEPT !.lastUid = Top(inbox)] \in Fields
        /\ [me EXCEPT !.lastUid = Top(inbox)].lastUid = Top(inbox)
        /\ [me EXCEPT !.lastUid = Top(inbox)].inboxExists = me.inboxExists
    BY <1>1, <2>2 DEF Fields
  <2>4. me'.lastUid = Top(inbox) /\ me'.inboxExists = me.inboxExists
    BY <1>1, <1>9, <2>3, HandlersKeep, HandlersQueue DEF BaselineFound
  <2>5. me.lastUid = NoBase
    BY <1>9 DEF BaselineFound, Beyond, FetchAbove
  <2> QED
    BY <2>2, <2>4, <2>5 DEF NoBase, NoUid
<1>10. CASE Fetched
  <2>1. me'.inboxExists = me.inboxExists /\ me'.lastUid = LastFetched
    BY <1>1, <1>10 DEF Fetched, Fields
  <2> DEFINE S == UidsOf(report.found)
  <2>2. Uids \subseteq Nat
    BY WatchAssumption DEF Uids
  <2>3. report.found \in SUBSET Mails /\ report.found # {}
    BY <1>10 DEF Fetched, WatchTypes
  <2>4. S \in SUBSET Uids /\ S # {} /\ Uids \subseteq Nat
    BY <2>2, <2>3 DEF UidsOf, Mails
  <2>5. LastFetched \in Nat
    BY <2>4, TopGreatest DEF LastFetched
  <2>6. me.lastUid >= 0
    BY <1>10 DEF Fetched, Beyond, FetchAbove
  <2> QED
    BY <2>1, <2>5, <2>6 DEF NoUid
<1> QED
  BY <1>3, <1>4, <1>5, <1>6, <1>7, <1>8, <1>9, <1>10 DEF Next, Connection, Reporting

\* The news invariant holds at the start.
LEMMA NewsInit == Init => NewsInv
<1> SUFFICES ASSUME Init PROVE NewsInv
  OBVIOUS
<1>1. WatchInv
  BY InitInv
<1>2. CountsAgree
  BY DEF Init, CountsAgree, Listening, Dialling
<1>3. MailAwaited
  BY DEF Init, MailAwaited, Listening, Dialling
<1>4. FineTypes
  BY WatchAssumption DEF Init, FineTypes, Blank, NoCount, NoUid
<1> QED
  BY <1>1, <1>2, <1>3, <1>4 DEF NewsInv

\* Counts, notices and queued reports fit together in every state.
THEOREM AllAwaited == SafetySpec => []NewsInv
<1>1. Init => NewsInv
  BY NewsInit
<1>2. WatchInv /\ WatchInv' /\ NewsInv /\ [Next]_vars => NewsInv'
  <2> SUFFICES ASSUME WatchInv', NewsInv, [Next]_vars PROVE NewsInv'
    OBVIOUS
  <2>1. WatchTypes /\ Beyond /\ CountsAgree /\ MailAwaited /\ FineTypes
    BY InvSplit DEF NewsInv
  <2>2. Typed
    BY <2>1, TypesGive
  <2>3. CountsAgree'
    BY <2>1, CountsStep
  <2>4. MailAwaited'
    BY <2>1, <2>2, AwaitedStep
  <2>5. uidNext \in Nat /\ uidNext <= MaxUid + 1 /\ spent \in SpentTypes
    BY <2>1, <2>2 DEF Typed, FineTypes, SpentTypes
  <2>6. uidNext' <= MaxUid + 1 /\ spent' \in SpentTypes
    BY <2>5, BoundsStep
  <2>7. /\ me'.inboxExists \in Nat \cup {NoCount}
        /\ me'.lastUid = NoUid <=> me'.inboxExists = NoCount
    <3>1. /\ me.inboxExists \in Nat \cup {NoCount}
          /\ me.lastUid = NoUid <=> me.inboxExists = NoCount
      BY <2>1 DEF FineTypes
    <3> QED
      BY <2>1, <2>2, <2>3, <3>1, KnownStep
  <2>8. FineTypes'
    BY <2>6, <2>7 DEF FineTypes, SpentTypes
  <2> QED
    BY <2>3, <2>4, <2>8 DEF NewsInv
<1> QED
  BY <1>1, <1>2, Watched, PTL DEF SafetySpec

\* Mail that arrives while the INBOX is watched is reported by the report that
\* runs or by one that is queued, however arrivals, deletions, reconnects and
\* reports overlap (noteInboxExists, reportAgain).
THEOREM NothingOverlooked == SafetySpec => []NoMailOverlooked
<1>1. NewsInv => NoMailOverlooked
  BY DEF NewsInv, MailAwaited, NoMailOverlooked
<1> QED
  BY <1>1, AllAwaited, PTL

\* Uids stay within the INBOX, counts are never negative, and a watcher that
\* knows a uid knows a count.
THEOREM WatchTyped == SafetySpec => []TypeOK
<1>1. NewsInv => TypeOK
  <2> SUFFICES ASSUME NewsInv PROVE TypeOK
    OBVIOUS
  <2>1. WatchTypes /\ CountsAgree /\ FineTypes
    BY DEF NewsInv, WatchInv
  <2>2. MaxUid \in Nat /\ Uids \subseteq Nat /\ \A u \in Uids : u >= 1
    BY WatchAssumption DEF Uids
  <2>3. inbox \subseteq 1 .. uidNext - 1 /\ uidNext \in 1 .. MaxUid + 1
    BY <2>1, <2>2 DEF WatchTypes, FineTypes
  <2>4. conn \in [state : {"none", "connecting", "opening", "live", "deaf", "dead"},
                  awaited : BOOLEAN, exists : Nat]
    BY <2>1 DEF WatchTypes, CountsAgree
  <2>5. me \in [inboxExists : Nat \cup {NoCount}, lastUid : Nat \cup {NoUid, NoBase},
                uidValidity : Nat, newMailTimer : BOOLEAN, reportAgain : BOOLEAN]
    BY <2>1 DEF WatchTypes, Fields, FineTypes
  <2> QED
    BY <2>1, <2>3, <2>4, <2>5 DEF TypeOK, WatchTypes, CountsAgree, FineTypes
<1> QED
  BY <1>1, AllAwaited, PTL
=============================================================================
