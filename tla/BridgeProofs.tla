----------------------------- MODULE BridgeProofs -----------------------------
(***************************************************************************)
(* BridgeInv is an invariant of Bridge, and with it TypeOK,                *)
(* CommandsKeepTheirFolder and ConfirmedSurvives, for every number of      *)
(* mailboxes, folders, requests under way, faults and crashes.             *)
(*                                                                         *)
(* A handler is a chain of operators on the memory of the process.  While  *)
(* it runs, everything fits but its own request r: the memory is Solid for *)
(* Slots \ {r}.  Each operator has a lemma that says what it makes of such *)
(* a memory; ReplyAll, a new connection or a place in a queue close the    *)
(* gap.                                                                    *)
(***************************************************************************)
EXTENDS BridgeInvariant, FiniteSetTheorems, WellFoundedInduction, TLAPS

(***************************************************************************)
(* Memories and their fields                                               *)
(***************************************************************************)

\* A memory is made of its fields.
LEMMA MemoryFields ==
    ASSUME NEW p \in Memories
    PROVE  /\ p.clients \in Maps /\ p.clientId \in Nat /\ p.made \in Seq(Mades)
           /\ p.conns \in Seq(Conns) /\ p.reqs \in [Slots -> Requests]
  BY DEF Memories

\* An element of a sequence is replaced.
LEMMA SetAt ==
    ASSUME NEW S, NEW s \in Seq(S), NEW k \in DOMAIN s, NEW v \in S
    PROVE  /\ [s EXCEPT ![k] = v] \in Seq(S)
           /\ Len([s EXCEPT ![k] = v]) = Len(s)
           /\ DOMAIN [s EXCEPT ![k] = v] = DOMAIN s
  OBVIOUS

\* A request is added at the end of a queue.
LEMMA AppendIs ==
    ASSUME NEW s \in Seq(Slots), NEW v \in Slots, NEW t, t = Append(s, v)
    PROVE  /\ t \in Seq(Slots) /\ Len(s) \in Nat /\ Len(t) = Len(s) + 1
           /\ DOMAIN s = 1 .. Len(s) /\ DOMAIN t = 1 .. Len(s) + 1
           /\ \A i \in DOMAIN s : t[i] = s[i]
           /\ t[Len(s) + 1] = v
           /\ \A i \in DOMAIN t : i \in DOMAIN s \/ i = Len(s) + 1
           /\ ToSet(t) = ToSet(s) \cup {v}
           /\ s # <<>> => Head(t) = Head(s)
           /\ IsInjective(s) /\ v \notin ToSet(s) => IsInjective(t)
<1>1. /\ t \in Seq(Slots) /\ Len(s) \in Nat /\ Len(t) = Len(s) + 1
      /\ DOMAIN s = 1 .. Len(s) /\ DOMAIN t = 1 .. Len(s) + 1
      /\ \A i \in DOMAIN s : t[i] = s[i]
      /\ t[Len(s) + 1] = v
  OBVIOUS
<1>2. /\ \A i \in DOMAIN t : i \in DOMAIN s \/ i = Len(s) + 1
      /\ \A i \in DOMAIN s : i \in DOMAIN t
      /\ Len(s) + 1 \in DOMAIN t
  BY <1>1
<1>3. ToSet(t) = ToSet(s) \cup {v}
  BY <1>1, <1>2 DEF ToSet
<1>4. s # <<>> => Head(t) = Head(s)
  BY <1>1, <1>2
<1>5. IsInjective(s) /\ v \notin ToSet(s) => IsInjective(t)
  BY <1>1, <1>2 DEF IsInjective, ToSet
<1> QED
  BY <1>1, <1>2, <1>3, <1>4, <1>5

\* Which requests get where.
LEMMA KindsAre ==
    /\ KindsAt["idle"] = {"none"}
    /\ KindsAt["connect"] = {"one", "read", "folders", "add", "import"}
    /\ KindsAt["shared"] = {"folders"} /\ KindsAt["lock"] = {"one", "read"}
    /\ KindsAt["command"] = {"one", "read", "folders"}
    /\ KindsAt["parse"] = {"read"} /\ KindsAt["flag"] = {"read"}
    /\ KindsAt["logout"] = {"delete"}
  BY DEF KindsAt

\* An idle request is a request, and fits everywhere.
LEMMA IdleFits ==
    /\ Idle \in Requests
    /\ \A p \in Memories : Fits(p, Idle)
    /\ ~Locking(Idle) /\ Idle.stage = "idle" /\ Idle.conn = 0 /\ Idle.id = 0
<1>1. Idle \in Requests
  <2>1. <<>> \in Seq(Emails)
    OBVIOUS
  <2> QED
    BY <2>1 DEF Idle, Requests, Stages, Kinds
<1>2. ASSUME NEW p \in Memories PROVE Fits(p, Idle)
  <2>1. 0 \in 0 .. p.clientId /\ 0 \in 0 .. Len(p.conns)
    BY MemoryFields
  <2> QED
    BY <2>1 DEF Fits, Idle, KindsAt
<1> QED
  BY <1>1, <1>2 DEF Idle, Locking, Holding

\* A memory with other requests, another connection, another client.
WithReq(p, r, req)   == [p EXCEPT !.reqs[r] = req]
WithConn(p, k, conn) == [p EXCEPT !.conns[k] = conn]

LEMMA WithReqIs ==
    ASSUME NEW p \in Memories, NEW r \in Slots, NEW req \in Requests,
           NEW q, q = WithReq(p, r, req)
    PROVE  /\ q \in Memories
           /\ q.clients = p.clients /\ q.clientId = p.clientId
           /\ q.made = p.made /\ q.conns = p.conns
           /\ q.reqs[r] = req
           /\ \A s \in Slots \ {r} : q.reqs[s] = p.reqs[s]
  BY DEF WithReq, Memories

LEMMA WithConnIs ==
    ASSUME NEW p \in Memories, NEW k \in DOMAIN p.conns, NEW conn \in Conns,
           NEW q, q = WithConn(p, k, conn)
    PROVE  /\ q \in Memories
           /\ q.clients = p.clients /\ q.clientId = p.clientId
           /\ q.made = p.made /\ q.reqs = p.reqs
           /\ DOMAIN q.conns = DOMAIN p.conns /\ Len(q.conns) = Len(p.conns)
           /\ q.conns[k] = conn
           /\ \A j \in DOMAIN p.conns : j # k => q.conns[j] = p.conns[j]
<1>1. p.conns \in Seq(Conns)
  BY MemoryFields
<1>2. PICK conns : conns = [p.conns EXCEPT ![k] = conn]
  OBVIOUS
<1>3. conns \in Seq(Conns) /\ Len(conns) = Len(p.conns) /\ DOMAIN conns = DOMAIN p.conns
  BY <1>1, <1>2, SetAt
<1>4. conns[k] = conn /\ \A j \in DOMAIN p.conns : j # k => conns[j] = p.conns[j]
  BY <1>2
<1>5. q = [p EXCEPT !.conns = conns]
  BY <1>2 DEF WithConn
<1>6. /\ q \in Memories /\ q.conns = conns
      /\ q.clients = p.clients /\ q.clientId = p.clientId
      /\ q.made = p.made /\ q.reqs = p.reqs
  BY <1>3, <1>5 DEF Memories
<1> QED
  BY <1>3, <1>4, <1>6

\* What a request refers to stays, when nothing is taken away.
LEMMA FitsKeeps ==
    ASSUME NEW p \in Memories, NEW q \in Memories, NEW req, Fits(p, req),
           Len(p.conns) <= Len(q.conns), p.clientId <= q.clientId,
           DOMAIN p.made \subseteq DOMAIN q.made
    PROVE  Fits(q, req)
<1>1. /\ Len(p.conns) \in Nat /\ Len(q.conns) \in Nat
      /\ p.clientId \in Nat /\ q.clientId \in Nat
      /\ DOMAIN p.conns = 1 .. Len(p.conns) /\ DOMAIN q.conns = 1 .. Len(q.conns)
  BY MemoryFields
<1>2. 0 .. p.clientId \subseteq 0 .. q.clientId /\ 0 .. Len(p.conns) \subseteq 0 .. Len(q.conns)
      /\ DOMAIN p.conns \subseteq DOMAIN q.conns
  BY <1>1, SMTT(60)
<1> QED
  BY <1>2 DEF Fits

\* A request stays in its place, when its connection and its client stay.
LEMMA InPlaceKeeps ==
    ASSUME NEW p, NEW q, NEW r, InPlace(p, r), q.reqs[r] = p.reqs[r],
           q.conns[p.reqs[r].conn] = p.conns[p.reqs[r].conn],
           p.conns[p.reqs[r].conn].state = "up" =>
             q.made[p.reqs[r].client].conn = p.made[p.reqs[r].client].conn
    PROVE  InPlace(q, r)
  BY DEF InPlace

(***************************************************************************)
(* A request steps out of the picture, and others are answered             *)
(***************************************************************************)

\* A request that neither holds nor waits for a lock can be left out.
LEMMA Loosen ==
    ASSUME NEW p, NEW R, Solid(p, R), NEW r \in R, ~Locking(p.reqs[r])
    PROVE  Solid(p, R \ {r})
<1>1. \A s \in R \ {r} : /\ Fits(p, p.reqs[s])
                         /\ Locking(p.reqs[s]) => InPlace(p, s)
                         /\ p.reqs[s].stage = "connect" => Alone(p, R \ {r}, s)
  BY DEF Solid, Alone
<1>2. \A k \in DOMAIN p.conns : ToSet(p.conns[k].queue) \subseteq R \ {r}
  BY DEF Solid, Queued, ToSet
<1>3. Queued(p, R \ {r})
  BY <1>2 DEF Solid, Queued
<1> QED
  BY <1>1, <1>3 DEF Solid

\* What is left out may change.
LEMMA Rewrite ==
    ASSUME NEW p, NEW r \in Slots, Solid(p, Slots \ {r}), NEW req \in Requests
    PROVE  Solid(WithReq(p, r, req), Slots \ {r})
<1> DEFINE R == Slots \ {r}
<1>0. PICK q : q = WithReq(p, r, req)
  OBVIOUS
<1>1. p \in Memories /\ Linked(p) /\ Queued(p, R)
  BY DEF Solid
<1>2. /\ q \in Memories /\ q.clients = p.clients /\ q.clientId = p.clientId
      /\ q.made = p.made /\ q.conns = p.conns
      /\ \A s \in R : q.reqs[s] = p.reqs[s]
  BY <1>0, <1>1, WithReqIs
<1>3. Linked(q)
  BY <1>1, <1>2, SMTT(60) DEF Linked
<1>4. ASSUME NEW s \in R
      PROVE  /\ Fits(q, q.reqs[s])
             /\ Locking(q.reqs[s]) => InPlace(q, s)
             /\ q.reqs[s].stage = "connect" => Alone(q, R, s)
  <2>1. /\ Fits(p, p.reqs[s]) /\ (Locking(p.reqs[s]) => InPlace(p, s))
        /\ (p.reqs[s].stage = "connect" => Alone(p, R, s))
    BY DEF Solid
  <2> QED
    BY <1>2, <2>1 DEF Fits, InPlace, Alone
<1>5. Queued(q, R)
  <2>1. ASSUME NEW k \in DOMAIN p.conns
        PROVE  \A i \in DOMAIN p.conns[k].queue : p.conns[k].queue[i] \in R
    BY <1>1, <2>1 DEF Queued, ToSet
  <2> QED
    BY <1>1, <1>2, <2>1 DEF Queued
<1> HIDE DEF R
<1>6. Solid(q, R)
  BY <1>2, <1>3, <1>4, <1>5 DEF Solid
<1> QED
  BY <1>0, <1>6 DEF R

\* What ReplyAll makes of a memory.
LEMMA ReplyAllIs ==
    ASSUME NEW p \in Memories, NEW R \in SUBSET Slots
    PROVE  LET q == ReplyAll(p, R)
           IN  /\ q \in Memories
               /\ q.clients = p.clients /\ q.clientId = p.clientId
               /\ q.made = p.made /\ q.conns = p.conns
               /\ \A s \in Slots : \/ q.reqs[s] = Idle
                                   \/ q.reqs[s] = p.reqs[s] /\ s \notin R
               /\ \A s \in Slots \ R : p.reqs[s].stage # "shared" => q.reqs[s] = p.reqs[s]
<1> DEFINE reqs == [s \in Slots |->
             IF s \in R \/ \E r \in R : p.reqs[r].kind = "folders" /\ s \in Waiting(p, r)
             THEN Idle ELSE p.reqs[s]]
<1>0. ReplyAll(p, R) = [p EXCEPT !.reqs = reqs]
  BY DEF ReplyAll
<1>1. reqs \in [Slots -> Requests]
  BY IdleFits, MemoryFields
<1>2. \A s \in Slots : \/ reqs[s] = Idle
                       \/ reqs[s] = p.reqs[s] /\ s \notin R
  OBVIOUS
<1>3. \A s \in Slots \ R : p.reqs[s].stage # "shared" => reqs[s] = p.reqs[s]
  BY DEF Waiting
<1> HIDE DEF reqs
<1>4. PICK q : q = [p EXCEPT !.reqs = reqs]
  BY Zenon
<1>5. /\ q \in Memories
      /\ q.clients = p.clients /\ q.clientId = p.clientId
      /\ q.made = p.made /\ q.conns = p.conns /\ q.reqs = reqs
  BY <1>1, <1>4 DEF Memories
<1> QED
  BY <1>0, <1>2, <1>3, <1>4, <1>5

\* With the requests answered that were left out, everything fits again.
LEMMA ReplyAllSolid ==
    ASSUME NEW p, NEW R \in SUBSET Slots, Solid(p, Slots \ R)
    PROVE  Solid(ReplyAll(p, R), Slots)
<1>0. PICK q : q = ReplyAll(p, R)
  OBVIOUS
<1>1. p \in Memories /\ Linked(p) /\ Queued(p, Slots \ R)
  BY DEF Solid
<1>2. /\ q \in Memories
      /\ q.clients = p.clients /\ q.clientId = p.clientId
      /\ q.made = p.made /\ q.conns = p.conns
      /\ \A s \in Slots : q.reqs[s] = Idle \/ (q.reqs[s] = p.reqs[s] /\ s \notin R)
      /\ \A s \in Slots \ R : p.reqs[s].stage # "shared" => q.reqs[s] = p.reqs[s]
  BY <1>0, <1>1, ReplyAllIs
<1>3. Linked(q)
  BY <1>1, <1>2 DEF Linked
<1>4. ASSUME NEW s \in Slots
      PROVE  /\ Fits(q, q.reqs[s])
             /\ Locking(q.reqs[s]) => InPlace(q, s)
             /\ q.reqs[s].stage = "connect" => Alone(q, Slots, s)
  <2>1. CASE q.reqs[s] = Idle
    BY <1>2, <2>1, IdleFits
  <2>2. CASE q.reqs[s] = p.reqs[s] /\ s \notin R
    <3>1. /\ Fits(p, p.reqs[s]) /\ (Locking(p.reqs[s]) => InPlace(p, s))
          /\ (p.reqs[s].stage = "connect" => Alone(p, Slots \ R, s) /\ p.reqs[s].conn # 0)
      BY <2>2 DEF Solid, Fits
    <3>2. Fits(q, q.reqs[s])
      BY <1>2, <2>2, <3>1 DEF Fits
    <3>3. Locking(q.reqs[s]) => InPlace(q, s)
      BY <1>2, <2>2, <3>1 DEF InPlace
    <3>4. q.reqs[s].stage = "connect" => Alone(q, Slots, s)
      BY <1>2, <2>2, <3>1, IdleFits DEF Alone
    <3> QED
      BY <3>2, <3>3, <3>4
  <2> QED
    BY <1>2, <2>1, <2>2
<1>5. Queued(q, Slots)
  <2> SUFFICES ASSUME NEW k \in DOMAIN p.conns
               PROVE  LET queue == p.conns[k].queue IN
                      /\ ToSet(queue) \subseteq Slots /\ IsInjective(queue)
                      /\ p.conns[k].state # "up" => queue = <<>>
                      /\ \A i \in DOMAIN queue :
                           /\ Locking(q.reqs[queue[i]]) /\ q.reqs[queue[i]].conn = k
                           /\ i # 1 => q.reqs[queue[i]].stage = "lock"
    BY <1>2 DEF Queued
  <2>1. ASSUME NEW i \in DOMAIN p.conns[k].queue
        PROVE  q.reqs[p.conns[k].queue[i]] = p.reqs[p.conns[k].queue[i]]
    <3>1. p.conns[k].queue[i] \in Slots \ R /\ Locking(p.reqs[p.conns[k].queue[i]])
      BY <1>1, <2>1 DEF Queued, ToSet
    <3> QED
      BY <1>2, <3>1 DEF Locking, Holding
  <2> QED
    BY <1>1, <2>1 DEF Queued
<1>6. Solid(q, Slots)
  BY <1>2, <1>3, <1>4, <1>5 DEF Solid
<1> QED
  BY <1>0, <1>6

\* The request is answered.
LEMMA ReplySolid ==
    ASSUME NEW p, NEW r \in Slots, Solid(p, Slots \ {r})
    PROVE  Solid(Reply(p, r), Slots)
  BY ReplyAllSolid DEF Reply

Struck(p, k) == {r \in Slots : \/ p.reqs[r].stage = "lock" /\ p.reqs[r].conn = k
                               \/ p.reqs[r].stage \in {"command", "flag"} /\ p.reqs[r].on = k}

GoneConn(conn) == [conn EXCEPT !.state = "gone", !.queue = <<>>]

\* A connection ends, with what runs on it and waits for its lock.
LEMMA EndedSolid ==
    ASSUME NEW p, Solid(p, Slots), NEW k \in DOMAIN p.conns
    PROVE  Solid(Ended(p, k), Slots)
<1> DEFINE R == Slots \ Struck(p, k)
<1>1. p \in Memories /\ Linked(p) /\ Queued(p, Slots)
  BY DEF Solid
<1>2. p.conns \in Seq(Conns) /\ p.conns[k] \in Conns /\ <<>> \in Seq(Slots)
  BY <1>1, MemoryFields
<1>3. /\ GoneConn(p.conns[k]) \in Conns
      /\ GoneConn(p.conns[k]).state = "gone" /\ GoneConn(p.conns[k]).queue = <<>>
  BY <1>2 DEF GoneConn, Conns
<1>4. PICK q : q = WithConn(p, k, GoneConn(p.conns[k]))
  OBVIOUS
<1>5. Ended(p, k) = ReplyAll(q, Struck(p, k))
  <2>1. [p EXCEPT !.conns[k].state = "gone", !.conns[k].queue = <<>>] = q
    BY <1>1, <1>2, <1>4 DEF WithConn, GoneConn, Memories
  <2> QED
    BY <2>1 DEF Ended, Struck
<1>6. /\ q \in Memories /\ q.clients = p.clients /\ q.clientId = p.clientId
      /\ q.made = p.made /\ q.reqs = p.reqs
      /\ DOMAIN q.conns = DOMAIN p.conns /\ Len(q.conns) = Len(p.conns)
      /\ q.conns[k].state = "gone" /\ q.conns[k].queue = <<>>
      /\ \A j \in DOMAIN p.conns : j # k => q.conns[j] = p.conns[j]
  BY <1>1, <1>3, <1>4, WithConnIs
<1>7. Linked(q)
  BY <1>1, <1>6 DEF Linked
<1>8. ASSUME NEW s \in R
      PROVE  /\ Fits(q, q.reqs[s])
             /\ Locking(q.reqs[s]) => InPlace(q, s)
             /\ q.reqs[s].stage = "connect" => Alone(q, R, s)
  <2>1. /\ Fits(p, p.reqs[s]) /\ (Locking(p.reqs[s]) => InPlace(p, s))
        /\ (p.reqs[s].stage = "connect" => Alone(p, Slots, s))
    BY DEF Solid
  <2>2. Fits(q, q.reqs[s])
    BY <1>6, <2>1 DEF Fits
  <2>3. p.reqs[s].conn # 0 => p.reqs[s].conn \in DOMAIN p.conns
    BY <1>1, <2>1, MemoryFields DEF Fits
  <2>4. Locking(q.reqs[s]) => InPlace(q, s)
    <3> SUFFICES ASSUME Locking(p.reqs[s]) PROVE InPlace(q, s)
      BY <1>6
    <3>1. InPlace(p, s)
      BY <2>1
    <3>2. CASE p.reqs[s].conn # k
      BY <1>6, <2>3, <3>1, <3>2 DEF InPlace
    <3>3. CASE p.reqs[s].conn = k
      <4>1. p.reqs[s].stage # "lock"
        BY <3>3 DEF Struck
      <4>2. p.reqs[s].stage # "command"
        BY <3>1, <3>3 DEF Struck, InPlace
      <4> QED
        BY <1>6, <3>1, <3>3, <4>1, <4>2 DEF InPlace
    <3> QED
      BY <3>2, <3>3
  <2>5. q.reqs[s].stage = "connect" => Alone(q, R, s)
    BY <1>6, <2>1, <2>3, SMTT(60) DEF Alone, Fits
  <2> QED
    BY <2>2, <2>4, <2>5
<1>9. Queued(q, R)
  <2> SUFFICES ASSUME NEW j \in DOMAIN p.conns
               PROVE  LET queue == q.conns[j].queue IN
                      /\ ToSet(queue) \subseteq R /\ IsInjective(queue)
                      /\ q.conns[j].state # "up" => queue = <<>>
                      /\ \A i \in DOMAIN queue :
                           /\ Locking(q.reqs[queue[i]]) /\ q.reqs[queue[i]].conn = j
                           /\ i # 1 => q.reqs[queue[i]].stage = "lock"
    BY <1>6 DEF Queued
  <2>1. CASE j = k
    BY <1>6, <2>1 DEF ToSet, IsInjective
  <2>2. CASE j # k
    <3>1. q.conns[j] = p.conns[j]
      BY <1>6, <2>2
    <3>2. ASSUME NEW i \in DOMAIN p.conns[j].queue
          PROVE  p.conns[j].queue[i] \in R
      <4> DEFINE s == p.conns[j].queue[i]
      <4>1. s \in Slots /\ Locking(p.reqs[s]) /\ p.reqs[s].conn = j
        BY <1>1 DEF Queued, ToSet
      <4>2. InPlace(p, s)
        BY <4>1 DEF Solid
      <4>3. p.conns[j].state = "up"
        BY <1>1 DEF Queued
      <4>4. p.reqs[s].stage \in {"command", "flag"} => p.reqs[s].on = j
        BY <4>1, <4>2, <4>3, Zenon DEF InPlace
      <4> QED
        BY <2>2, <4>1, <4>4, Zenon DEF Struck
    <3>3. ToSet(p.conns[j].queue) \subseteq R
      BY <3>2 DEF ToSet
    <3> QED
      BY <1>1, <1>6, <3>1, <3>3 DEF Queued
  <2> QED
    BY <2>1, <2>2
<1>10. Solid(q, R)
  BY <1>6, <1>7, <1>8, <1>9 DEF Solid
<1>11. Struck(p, k) \in SUBSET Slots
  BY DEF Struck
<1> QED
  BY <1>5, <1>10, <1>11, ReplyAllSolid

(***************************************************************************)
(* A connection is made, a place in a queue is taken                       *)
(***************************************************************************)

\* What a request may be that goes on: its client is there, it is not being
\* answered, and no connection is being made for another on the one it names.
Going(p, r, kinds) ==
    /\ p.reqs[r].kind \in kinds /\ p.reqs[r].id \in 0 .. p.clientId
    /\ p.reqs[r].conn \in 0 .. Len(p.conns)
    /\ p.reqs[r].fresh # {} => p.reqs[r].ok /\ p.reqs[r].kind = "import"
    /\ \A s \in Slots \ {r} : p.reqs[s].stage = "connect" => p.reqs[s].conn # p.reqs[r].conn

\* A request that is being connected on a new connection fits, whether the
\* client is new too or has a connection that is no longer usable.
LEMMA Dials ==
    ASSUME NEW p, NEW r \in Slots, Solid(p, Slots \ {r}), NEW q \in Memories,
           q.clients = p.clients, q.clientId = p.clientId,
           q.conns = Append(p.conns, Dialling),
           DOMAIN p.made \subseteq DOMAIN q.made,
           \A c \in DOMAIN q.made :
              \/ q.made[c].conn = Len(p.conns) + 1
              \/ c \in DOMAIN p.made /\ q.made[c].conn = p.made[c].conn,
           \A c \in DOMAIN p.made :
              p.conns[p.made[c].conn].state = "up" => q.made[c].conn = p.made[c].conn,
           \A s \in Slots \ {r} : q.reqs[s] = p.reqs[s],
           q.reqs[r].stage = "connect", q.reqs[r].kind \in KindsAt.connect,
           q.reqs[r].conn = Len(p.conns) + 1, q.reqs[r].client \in DOMAIN q.made,
           q.reqs[r].id \in 0 .. p.clientId,
           q.reqs[r].fresh # {} => q.reqs[r].ok /\ q.reqs[r].kind = "import"
    PROVE  Solid(q, Slots)
<1>1. p \in Memories /\ Linked(p) /\ Queued(p, Slots \ {r})
  BY DEF Solid
<1>2. p.conns \in Seq(Conns) /\ q.conns \in Seq(Conns) /\ Len(p.conns) \in Nat
  BY <1>1, MemoryFields
<1>3. /\ Len(q.conns) = Len(p.conns) + 1 /\ DOMAIN q.conns = 1 .. Len(p.conns) + 1
      /\ DOMAIN p.conns = 1 .. Len(p.conns)
      /\ \A k \in DOMAIN p.conns : q.conns[k] = p.conns[k]
      /\ q.conns[Len(p.conns) + 1] = Dialling
  <2>1. Dialling \in Conns
    <3>1. <<>> \in Seq(Slots)
      OBVIOUS
    <3> QED
      BY <3>1 DEF Dialling, Conns
  <2> QED
    BY <1>2, <2>1
<1>4. Dialling.state = "connecting" /\ Dialling.queue = <<>>
  BY DEF Dialling
<1>5. Linked(q)
  BY <1>1, <1>3 DEF Linked
<1>6. ASSUME NEW s \in Slots \ {r}
      PROVE  /\ Fits(q, q.reqs[s])
             /\ Locking(q.reqs[s]) => InPlace(q, s)
             /\ q.reqs[s].stage = "connect" => Alone(q, Slots, s)
  <2>1. /\ q.reqs[s] = p.reqs[s]
        /\ Fits(p, p.reqs[s]) /\ (Locking(p.reqs[s]) => InPlace(p, s))
        /\ (p.reqs[s].stage = "connect" => Alone(p, Slots \ {r}, s))
    BY DEF Solid
  <2>2. Fits(q, p.reqs[s])
    <3>1. Len(p.conns) <= Len(q.conns) /\ p.clientId <= q.clientId
      BY <1>1, <1>2, <1>3, MemoryFields
    <3> QED
      BY <1>1, <2>1, <3>1, FitsKeeps
  <2>3. p.reqs[s].conn # 0 => p.reqs[s].conn \in DOMAIN p.conns
    BY <1>2, <1>3, <2>1, SMTT(60) DEF Fits
  <2>4. Locking(p.reqs[s]) => InPlace(q, s)
    <3> SUFFICES ASSUME Locking(p.reqs[s]) PROVE InPlace(q, s)
      OBVIOUS
    <3>1. InPlace(p, s) /\ p.reqs[s].conn \in DOMAIN p.conns
      BY <2>1, <2>3 DEF InPlace
    <3>2. p.reqs[s].client \in DOMAIN p.made
      BY <2>1 DEF Fits, Locking, Holding
    <3>3. /\ p.conns[p.reqs[s].conn].state = "up" =>
               p.made[p.reqs[s].client].conn = p.reqs[s].conn
      BY <3>1 DEF InPlace
    <3>4. p.conns[p.reqs[s].conn].state = "up" =>
               q.made[p.reqs[s].client].conn = p.made[p.reqs[s].client].conn
      BY <3>2, <3>3
    <3> QED
      BY <1>3, <2>1, <3>1, <3>4, InPlaceKeeps
  <2>5. p.reqs[s].stage = "connect" => Alone(q, Slots, s)
    BY <1>2, <1>3, <2>1, <2>3 DEF Alone, Fits
  <2> QED
    BY <2>1, <2>2, <2>4, <2>5
<1>7. /\ Fits(q, q.reqs[r]) /\ ~Locking(q.reqs[r])
      /\ Alone(q, Slots, r)
  <2>1. Fits(q, q.reqs[r])
    BY <1>2, <1>3 DEF Fits, KindsAt
  <2>2. \A s \in Slots \ {r} : q.reqs[s].conn # q.reqs[r].conn
    BY <1>2 DEF Solid, Fits
  <2> QED
    BY <1>3, <1>4, <2>1, <2>2 DEF Locking, Holding, Alone
<1>8. Queued(q, Slots)
  <2> SUFFICES ASSUME NEW k \in DOMAIN q.conns
               PROVE  LET queue == q.conns[k].queue IN
                      /\ ToSet(queue) \subseteq Slots /\ IsInjective(queue)
                      /\ q.conns[k].state # "up" => queue = <<>>
                      /\ \A i \in DOMAIN queue :
                           /\ Locking(q.reqs[queue[i]]) /\ q.reqs[queue[i]].conn = k
                           /\ i # 1 => q.reqs[queue[i]].stage = "lock"
    BY ZenonT(60) DEF Queued
  <2>1. CASE k = Len(p.conns) + 1
    BY <1>3, <1>4, <2>1, SMTT(60) DEF ToSet, IsInjective
  <2>2. CASE k \in DOMAIN p.conns
    <3>1. q.conns[k] = p.conns[k]
      BY <1>3, <2>2
    <3>2. \A i \in DOMAIN p.conns[k].queue : p.conns[k].queue[i] \in Slots \ {r}
      BY <1>1, <2>2 DEF Queued, ToSet
    <3> QED
      BY <1>1, <2>2, <3>1, <3>2 DEF Queued
  <2>3. k = Len(p.conns) + 1 \/ k \in DOMAIN p.conns
    BY <1>2, <1>3
  <2> QED
    BY <2>1, <2>2, <2>3, ZenonT(60)
<1> QED
  BY <1>5, <1>6, <1>7, <1>8 DEF Solid

\* What a new connection, and a new client, make of a memory.
LEMMA NewConnIs ==
    ASSUME NEW p \in Memories, NEW q, q = NewConn(p)
    PROVE  /\ q \in Memories
           /\ q.clients = p.clients /\ q.clientId = p.clientId
           /\ q.made = p.made /\ q.reqs = p.reqs
           /\ q.conns = Append(p.conns, Dialling)
<1>1. Dialling \in Conns
  <2>1. <<>> \in Seq(Slots)
    OBVIOUS
  <2> QED
    BY <2>1 DEF Dialling, Conns
<1>2. Append(p.conns, Dialling) \in Seq(Conns)
  BY <1>1, MemoryFields
<1>3. PICK conns : conns = Append(p.conns, Dialling)
  OBVIOUS
<1>4. q = [p EXCEPT !.conns = conns]
  BY <1>3 DEF NewConn
<1> QED
  BY <1>2, <1>3, <1>4 DEF Memories

LEMMA NewClientIs ==
    ASSUME NEW p \in Memories, NEW email \in Emails, NEW q, q = NewClient(p, email)
    PROVE  /\ q \in Memories
           /\ q.clients = p.clients /\ q.clientId = p.clientId /\ q.reqs = p.reqs
           /\ q.conns = Append(p.conns, Dialling)
           /\ DOMAIN q.made = 1 .. Len(p.made) + 1 /\ DOMAIN p.made = 1 .. Len(p.made)
           /\ \A c \in DOMAIN p.made : q.made[c] = p.made[c]
           /\ q.made[Len(p.made) + 1] = NewMade(email, Len(p.conns) + 1)
           /\ NewMade(email, Len(p.conns) + 1).email = email
           /\ NewMade(email, Len(p.conns) + 1).conn = Len(p.conns) + 1
<1>1. PICK n : n = NewConn(p)
  OBVIOUS
<1>2. /\ n \in Memories
      /\ n.clients = p.clients /\ n.clientId = p.clientId
      /\ n.made = p.made /\ n.reqs = p.reqs /\ n.conns = Append(p.conns, Dialling)
  BY <1>1, NewConnIs
<1>3. PICK m : m = NewMade(email, Len(p.conns) + 1)
  OBVIOUS
<1>4. m \in Mades /\ m.email = email /\ m.conn = Len(p.conns) + 1
  BY <1>3, MemoryFields DEF NewMade, Mades
<1>5. PICK made : made = Append(n.made, m)
  OBVIOUS
<1>6. /\ made \in Seq(Mades) /\ Len(made) = Len(p.made) + 1
      /\ DOMAIN made = 1 .. Len(p.made) + 1 /\ DOMAIN p.made = 1 .. Len(p.made)
      /\ \A c \in DOMAIN p.made : made[c] = p.made[c]
      /\ made[Len(p.made) + 1] = m
  BY <1>2, <1>4, <1>5, MemoryFields
<1>7. q = [n EXCEPT !.made = made]
  BY <1>1, <1>3, <1>5 DEF NewClient
<1>8. /\ q \in Memories /\ q.made = made
      /\ q.clients = n.clients /\ q.clientId = n.clientId /\ q.reqs = n.reqs
      /\ q.conns = n.conns
  BY <1>2, <1>6, <1>7 DEF Memories
<1> QED
  BY <1>2, <1>3, <1>4, <1>6, <1>8

\* The connection the client of a request has by now.
ConnOf(p, r) == p.made[p.reqs[r].client].conn
Served(p, r) == p.reqs[r].client \in DOMAIN p.made /\ Usable(p, p.reqs[r].client)

Enter(p, r, k) == [p EXCEPT !.conns[k].queue = Append(@, r),
                            !.reqs[r].conn = k, !.reqs[r].stage = "lock"]

\* A request gets the lock of a connection that is up, or a place in its queue.
LEMMA Enqueued ==
    ASSUME NEW p, NEW r \in Slots, Solid(p, Slots \ {r}), Going(p, r, {"one", "read"}),
           Served(p, r), NEW k, k = ConnOf(p, r), NEW q, q = Enter(p, r, k)
    PROVE  Solid(q, Slots)
<1>1. p \in Memories /\ Linked(p) /\ Queued(p, Slots \ {r})
  BY DEF Solid
<1>2. k \in DOMAIN p.conns /\ p.conns[k].state = "up" /\ k \in Nat \ {0}
      /\ k \in 0 .. Len(p.conns)
  <2>1. PICK c : c = p.reqs[r].client
    OBVIOUS
  <2>2. k = p.made[c].conn /\ c \in DOMAIN p.made /\ p.conns[p.made[c].conn].state = "up"
    BY <2>1, Zenon DEF Served, Usable, ConnOf
  <2>3. k \in DOMAIN p.conns
    BY <1>1, <2>2 DEF Linked
  <2>4. DOMAIN p.conns = 1 .. Len(p.conns) /\ Len(p.conns) \in Nat
    BY <1>1, MemoryFields
  <2> QED
    BY <2>2, <2>3, <2>4
<1>3. p.conns[k] \in Conns /\ p.reqs[r] \in Requests
  BY <1>1, <1>2, MemoryFields
<1>4. PICK queue : queue = Append(p.conns[k].queue, r)
  OBVIOUS
<1>5. p.conns[k].queue \in Seq(Slots)
  BY <1>3 DEF Conns
<1>6. queue \in Seq(Slots)
  BY <1>4, <1>5
<1>7. PICK conn : conn = [p.conns[k] EXCEPT !.queue = queue]
  OBVIOUS
<1>8. /\ conn \in Conns /\ conn.state = "up" /\ conn.queue = queue
      /\ conn.folder = p.conns[k].folder
  BY <1>2, <1>3, <1>7, <1>6 DEF Conns
<1>9. PICK req : req = [p.reqs[r] EXCEPT !.conn = k, !.stage = "lock"]
  OBVIOUS
<1>10. /\ req \in Requests /\ req.conn = k /\ req.stage = "lock" /\ req.kind = p.reqs[r].kind
      /\ req.client = p.reqs[r].client /\ req.id = p.reqs[r].id
      /\ req.fresh = p.reqs[r].fresh /\ req.ok = p.reqs[r].ok
  BY <1>2, <1>3, <1>9 DEF Requests, Stages
<1>11. PICK c : c = WithConn(p, k, conn)
  OBVIOUS
<1>12. /\ c \in Memories /\ c.clients = p.clients /\ c.clientId = p.clientId
      /\ c.made = p.made /\ c.reqs = p.reqs
      /\ DOMAIN c.conns = DOMAIN p.conns /\ Len(c.conns) = Len(p.conns)
      /\ c.conns[k] = conn
      /\ \A j \in DOMAIN p.conns : j # k => c.conns[j] = p.conns[j]
  BY <1>1, <1>2, <1>8, <1>11, WithConnIs
<1>13. q = WithReq(c, r, req)
  BY <1>1, <1>4, <1>7, <1>9, <1>11 DEF Enter, WithReq, WithConn, Memories
<1>14. /\ q \in Memories /\ q.clients = c.clients /\ q.clientId = c.clientId
       /\ q.made = c.made /\ q.conns = c.conns
       /\ q.reqs[r] = req /\ \A s \in Slots \ {r} : q.reqs[s] = c.reqs[s]
  BY <1>10, <1>12, <1>13, WithReqIs
<1>15. Linked(q)
  BY <1>1, <1>12, <1>14 DEF Linked
<1>16. /\ ToSet(conn.queue) = ToSet(p.conns[k].queue) \cup {r}
       /\ \A i \in DOMAIN p.conns[k].queue : conn.queue[i] = p.conns[k].queue[i]
       /\ \A i \in DOMAIN conn.queue :
            \/ i \in DOMAIN p.conns[k].queue
            \/ i = Len(p.conns[k].queue) + 1 /\ conn.queue[i] = r
       /\ p.conns[k].queue # <<>> => Head(conn.queue) = Head(p.conns[k].queue)
       /\ IsInjective(p.conns[k].queue) /\ r \notin ToSet(p.conns[k].queue) =>
            IsInjective(conn.queue)
  <2>1. PICK old : old = p.conns[k].queue
    OBVIOUS
  <2>2. /\ ToSet(queue) = ToSet(old) \cup {r}
        /\ \A i \in DOMAIN old : queue[i] = old[i]
        /\ \A i \in DOMAIN queue : i \in DOMAIN old \/ (i = Len(old) + 1 /\ queue[i] = r)
        /\ old # <<>> => Head(queue) = Head(old)
        /\ IsInjective(old) /\ r \notin ToSet(old) => IsInjective(queue)
    <3>1. old \in Seq(Slots) /\ queue = Append(old, r)
      BY <1>4, <1>5, <2>1
    <3>2. /\ \A i \in DOMAIN old : queue[i] = old[i]
          /\ queue[Len(old) + 1] = r
          /\ \A i \in DOMAIN queue : i \in DOMAIN old \/ i = Len(old) + 1
      BY <3>1, AppendIs
    <3>3. ToSet(queue) = ToSet(old) \cup {r}
      BY <3>1, AppendIs
    <3>4. old # <<>> => Head(queue) = Head(old)
      BY <3>1, AppendIs
    <3>5. IsInjective(old) /\ r \notin ToSet(old) => IsInjective(queue)
      BY <3>1, AppendIs
    <3> QED
      BY <3>2, <3>3, <3>4, <3>5
  <2> QED
    BY <1>8, <2>1, <2>2
<1>17. ASSUME NEW s \in Slots \ {r}
       PROVE  /\ Fits(q, q.reqs[s])
              /\ Locking(q.reqs[s]) => InPlace(q, s)
              /\ q.reqs[s].stage = "connect" => Alone(q, Slots, s)
  <2>1. /\ q.reqs[s] = p.reqs[s]
        /\ Fits(p, p.reqs[s]) /\ (Locking(p.reqs[s]) => InPlace(p, s))
        /\ (p.reqs[s].stage = "connect" => Alone(p, Slots \ {r}, s))
    BY <1>12, <1>14 DEF Solid
  <2>2. Fits(q, p.reqs[s])
    BY <1>12, <1>14, <2>1 DEF Fits
  <2>3. p.reqs[s].conn # 0 => p.reqs[s].conn \in DOMAIN p.conns
    BY <1>1, <2>1, MemoryFields DEF Fits
  <2>4. Locking(p.reqs[s]) => InPlace(q, s)
    <3> SUFFICES ASSUME Locking(p.reqs[s]) PROVE InPlace(q, s)
      BY SMTT(60)
    <3>1. InPlace(p, s) /\ p.reqs[s].conn \in DOMAIN p.conns
      BY <2>1, <2>3 DEF InPlace
    <3>2. CASE p.reqs[s].conn # k
      BY <1>12, <1>14, <2>1, <3>1, <3>2, InPlaceKeeps, ZenonT(60)
    <3>3. CASE p.reqs[s].conn = k
      <4>1. s \in ToSet(conn.queue) /\ p.conns[k].queue # <<>>
        <5>1. s \in ToSet(p.conns[k].queue)
          BY <1>2, <3>1, <3>3 DEF InPlace
        <5>2. ToSet(<<>>) = {}
          BY DEF ToSet
        <5> QED
          BY <1>16, <5>1, <5>2
      <4>2. Head(conn.queue) = Head(p.conns[k].queue)
        BY <1>16, <4>1
      <4>3. q.conns[k] = conn /\ q.made = p.made
        BY <1>12, <1>14
      <4> QED
        BY <1>2, <1>8, <2>1, <3>1, <3>3, <4>1, <4>2, <4>3 DEF InPlace
    <3> QED
      BY <3>2, <3>3
  <2>5. p.reqs[s].stage = "connect" => Alone(q, Slots, s)
    <3> SUFFICES ASSUME p.reqs[s].stage = "connect" PROVE Alone(q, Slots, s)
      OBVIOUS
    <3>1. Alone(p, Slots \ {r}, s) /\ p.reqs[s].conn \in DOMAIN p.conns
      BY <2>1, <2>3 DEF Fits
    <3>2. p.reqs[s].conn # k
      BY <1>2, <3>1 DEF Alone
    <3> QED
      BY <1>10, <1>12, <1>14, <2>1, <3>1, <3>2 DEF Alone
  <2> QED
    BY <2>1, <2>2, <2>4, <2>5
<1>18. Fits(q, req) /\ InPlace(q, r) /\ req.stage # "connect" /\ Locking(req)
  <2>1. Fits(q, req)
    <3>1. /\ req.kind \in {"one", "read"} /\ req.id \in 0 .. p.clientId
          /\ req.fresh # {} => req.ok /\ req.kind = "import"
          /\ req.client \in DOMAIN p.made
      BY <1>10 DEF Going, Served
    <3>2. q.made = p.made /\ q.clientId = p.clientId /\ Len(q.conns) = Len(p.conns)
      BY <1>12, <1>14
    <3> QED
      BY <1>2, <1>10, <3>1, <3>2, KindsAre DEF Fits
  <2>2. InPlace(q, r)
    <3>1. q.reqs[r] = req /\ q.conns[k] = conn /\ q.made = p.made
      BY <1>12, <1>14
    <3>2. q.made[req.client].conn = k /\ r \in ToSet(conn.queue)
      BY <1>10, <1>16, <3>1, ZenonT(60) DEF ConnOf
    <3> QED
      BY <1>2, <1>8, <1>10, <3>1, <3>2 DEF InPlace
  <2> QED
    BY <1>10, <2>1, <2>2 DEF Locking, Going
<1>19. Queued(q, Slots)
  <2> SUFFICES ASSUME NEW j \in DOMAIN p.conns
               PROVE  LET line == q.conns[j].queue IN
                      /\ ToSet(line) \subseteq Slots /\ IsInjective(line)
                      /\ q.conns[j].state # "up" => line = <<>>
                      /\ \A i \in DOMAIN line :
                           /\ Locking(q.reqs[line[i]]) /\ q.reqs[line[i]].conn = j
                           /\ i # 1 => q.reqs[line[i]].stage = "lock"
    BY <1>12, <1>14, SMTT(60) DEF Queued
  <2>1. /\ \A i \in DOMAIN p.conns[j].queue : p.conns[j].queue[i] \in Slots \ {r}
        /\ ToSet(p.conns[j].queue) \subseteq Slots \ {r}
        /\ IsInjective(p.conns[j].queue)
        /\ p.conns[j].state # "up" => p.conns[j].queue = <<>>
        /\ \A i \in DOMAIN p.conns[j].queue :
             /\ Locking(p.reqs[p.conns[j].queue[i]])
             /\ p.reqs[p.conns[j].queue[i]].conn = j
             /\ i # 1 => p.reqs[p.conns[j].queue[i]].stage = "lock"
    BY <1>1, SMTT(60) DEF Queued, ToSet
  <2>2. CASE j # k
    BY <1>12, <1>14, <2>1, <2>2
  <2>3. CASE j = k
    <3>1. q.conns[j] = conn /\ r \notin ToSet(p.conns[k].queue)
      BY <1>12, <1>14, <2>1, <2>3, SMTT(60)
    <3>2. IsInjective(conn.queue) /\ ToSet(conn.queue) \subseteq Slots
      BY <1>16, <2>1, <2>3, <3>1
    <3>3. ASSUME NEW i \in DOMAIN conn.queue
          PROVE  /\ Locking(q.reqs[conn.queue[i]]) /\ q.reqs[conn.queue[i]].conn = k
                 /\ i # 1 => q.reqs[conn.queue[i]].stage = "lock"
      <4>1. CASE i \in DOMAIN p.conns[k].queue
        <5>1. conn.queue[i] = p.conns[k].queue[i] /\ conn.queue[i] \in Slots \ {r}
          BY <1>16, <2>1, <2>3, <4>1
        <5>2. q.reqs[conn.queue[i]] = p.reqs[p.conns[k].queue[i]]
          BY <1>12, <1>14, <5>1
        <5> QED
          BY <2>1, <2>3, <4>1, <5>2
      <4>2. CASE conn.queue[i] = r
        BY <1>10, <1>14, <1>18, <4>2
      <4> QED
        BY <1>16, <4>1, <4>2, SMTT(60)
    <3> QED
      BY <1>8, <2>3, <3>1, <3>2, <3>3
  <2> QED
    BY <2>2, <2>3, ZenonT(60)
<1> QED
  BY <1>14, <1>15, <1>17, <1>18, <1>19 DEF Solid

\* A request that needs no lock and no new connection comes back.
LEMMA Placed ==
    ASSUME NEW p, NEW r \in Slots, Solid(p, Slots \ {r}), NEW req \in Requests,
           Fits(p, req), ~Locking(req), req.stage # "connect",
           \A s \in Slots \ {r} : p.reqs[s].stage = "connect" => p.reqs[s].conn # req.conn
    PROVE  Solid(WithReq(p, r, req), Slots)
<1>0. PICK q : q = WithReq(p, r, req)
  OBVIOUS
<1>1. p \in Memories
  BY DEF Solid
<1>2. /\ q.made = p.made /\ q.conns = p.conns /\ q.clientId = p.clientId
      /\ q.reqs[r] = req /\ \A s \in Slots \ {r} : q.reqs[s] = p.reqs[s]
  BY <1>0, <1>1, WithReqIs
<1>3. Solid(q, Slots \ {r})
  BY <1>0, Rewrite
<1>4. Fits(q, q.reqs[r])
  BY <1>2 DEF Fits
<1>5. ASSUME NEW s \in Slots \ {r}
      PROVE  q.reqs[s].stage = "connect" => Alone(q, Slots, s)
  BY <1>2, <1>3, SMTT(60) DEF Solid, Alone
<1>6. Queued(q, Slots)
  BY <1>3 DEF Solid, Queued
<1>7. Solid(q, Slots)
  BY <1>2, <1>3, <1>4, <1>5, <1>6 DEF Solid
<1> QED
  BY <1>0, <1>7

\* The request goes on with the connection of its client, or is answered.
LEMMA EnsuredSolid ==
    ASSUME NEW p, NEW r \in Slots, Solid(p, Slots \ {r}),
           Going(p, r, {"one", "read", "folders"}), p.reqs[r].client \in DOMAIN p.made
    PROVE  Solid(Ensured(p, r), Slots)
<1>1. p \in Memories /\ Linked(p)
  BY SMTT(60) DEF Solid
<1>2. CASE ~Usable(p, p.reqs[r].client)
  BY <1>2, ReplySolid DEF Ensured
<1>3. CASE Usable(p, p.reqs[r].client) /\ p.reqs[r].kind = "folders"
  <2>1. Ensured(p, r) = Run(p, r, "command")
    BY <1>3 DEF Ensured
  <2>2. PICK k : k = ConnOf(p, r)
    OBVIOUS
  <2>3. k \in DOMAIN p.conns /\ k \in Nat /\ p.reqs[r] \in Requests
    BY <1>1, <2>2, MemoryFields DEF Linked, ConnOf
  <2>4. PICK req : req = [p.reqs[r] EXCEPT !.stage = "command", !.on = k]
    OBVIOUS
  <2>5. /\ req \in Requests /\ req.stage = "command" /\ req.on = k
        /\ req.kind = p.reqs[r].kind /\ req.client = p.reqs[r].client
        /\ req.id = p.reqs[r].id /\ req.conn = p.reqs[r].conn
        /\ req.fresh = p.reqs[r].fresh /\ req.ok = p.reqs[r].ok
    BY <2>3, <2>4 DEF Requests, Stages
  <2>6. Run(p, r, "command") = WithReq(p, r, req)
    BY <1>1, <2>2, <2>4 DEF Run, WithReq, Memories, ConnOf
  <2>7. Fits(p, req)
    <3>1. req.kind = "folders" /\ req.client \in DOMAIN p.made
      BY <1>3, <2>5
    <3>2. req.id \in 0 .. p.clientId /\ req.conn \in 0 .. Len(p.conns)
          /\ (req.fresh # {} => req.ok /\ req.kind = "import")
      BY <2>5 DEF Going
    <3> QED
      BY <2>3, <2>5, <3>1, <3>2, KindsAre DEF Fits
  <2>8. ~Locking(req) /\ req.stage # "connect"
    BY <1>3, <2>5 DEF Locking
  <2>9. \A s \in Slots \ {r} : p.reqs[s].stage = "connect" => p.reqs[s].conn # req.conn
    BY <2>5 DEF Going
  <2> QED
    BY <2>1, <2>5, <2>6, <2>7, <2>8, <2>9, Placed
<1>4. CASE Usable(p, p.reqs[r].client) /\ p.reqs[r].kind # "folders"
  <2>1. Ensured(p, r) = Enter(p, r, ConnOf(p, r))
    BY <1>4 DEF Ensured, Enter, ConnOf
  <2>2. Served(p, r) /\ Going(p, r, {"one", "read"})
    BY <1>4 DEF Served, Going
  <2> QED
    BY <2>1, <2>2, Enqueued
<1> QED
  BY <1>2, <1>3, <1>4

Redial(p, r) ==
    [NewConn(p) EXCEPT !.made[p.reqs[r].client].conn = Len(p.conns) + 1,
                       !.reqs[r].conn = Len(p.conns) + 1, !.reqs[r].stage = "connect"]

\* A usable connection is used, any other replaced.
LEMMA EnsureConnectedSolid ==
    ASSUME NEW p, NEW r \in Slots, Solid(p, Slots \ {r}),
           Going(p, r, {"one", "read", "folders"}), p.reqs[r].client \in DOMAIN p.made
    PROVE  Solid(EnsureConnected(p, r), Slots)
<1>1. p \in Memories /\ Linked(p)
  BY DEF Solid
<1>2. CASE Usable(p, p.reqs[r].client)
  BY <1>2, EnsuredSolid DEF EnsureConnected
<1>3. CASE ~Usable(p, p.reqs[r].client)
  <2>1. EnsureConnected(p, r) = Redial(p, r)
    BY <1>3 DEF EnsureConnected, Redial
  <2>2. PICK n : n = NewConn(p)
    OBVIOUS
  <2>3. /\ n \in Memories
        /\ n.clients = p.clients /\ n.clientId = p.clientId
        /\ n.made = p.made /\ n.reqs = p.reqs /\ n.conns = Append(p.conns, Dialling)
    BY <1>1, <2>2, NewConnIs
  <2>4. PICK k, c : k = Len(p.conns) + 1 /\ c = p.reqs[r].client
    OBVIOUS
  <2>5. /\ k \in Nat /\ c \in DOMAIN p.made /\ p.made \in Seq(Mades) /\ p.made[c] \in Mades
        /\ p.reqs[r] \in Requests
    BY <1>1, <2>4, MemoryFields
  <2>6. PICK req : req = [p.reqs[r] EXCEPT !.conn = k, !.stage = "connect"]
    OBVIOUS
  <2>7. /\ req \in Requests /\ req.stage = "connect" /\ req.conn = k
        /\ req.kind = p.reqs[r].kind /\ req.client = c /\ req.id = p.reqs[r].id
        /\ req.fresh = p.reqs[r].fresh /\ req.ok = p.reqs[r].ok
    BY <2>4, <2>5, <2>6 DEF Requests, Stages
  <2>8. PICK one : one = [p.made[c] EXCEPT !.conn = k]
    OBVIOUS
  <2>9. one \in Mades /\ one.conn = k
    BY <2>5, <2>8 DEF Mades
  <2>10. PICK made : made = [p.made EXCEPT ![c] = one]
    OBVIOUS
  <2>11. /\ made \in Seq(Mades) /\ DOMAIN made = DOMAIN p.made
         /\ made[c] = one /\ \A d \in DOMAIN p.made : d # c => made[d] = p.made[d]
    BY <2>5, <2>9, <2>10, SetAt
  <2>12. PICK reqs : reqs = [p.reqs EXCEPT ![r] = req]
    BY Zenon
  <2>13. reqs \in [Slots -> Requests] /\ reqs[r] = req
         /\ \A s \in Slots \ {r} : reqs[s] = p.reqs[s]
    BY <1>1, <2>7, <2>12, MemoryFields
  <2>14. PICK q : q = [n EXCEPT !.made = made, !.reqs = reqs]
    OBVIOUS
  <2>15. Redial(p, r) = q
    BY <2>2, <2>3, <2>4, <2>6, <2>8, <2>10, <2>12, <2>14 DEF Redial, Memories
  <2>16. /\ q \in Memories /\ q.made = made /\ q.reqs = reqs
         /\ q.clients = p.clients /\ q.clientId = p.clientId
         /\ q.conns = Append(p.conns, Dialling)
    BY <2>3, <2>11, <2>13, <2>14 DEF Memories
  <2>17. \A d \in DOMAIN q.made :
              \/ q.made[d].conn = Len(p.conns) + 1
              \/ d \in DOMAIN p.made /\ q.made[d].conn = p.made[d].conn
    BY <2>4, <2>9, <2>11, <2>16, SMTT(60)
  <2>18. \A d \in DOMAIN p.made :
              p.conns[p.made[d].conn].state = "up" => q.made[d].conn = p.made[d].conn
    BY <1>3, <2>4, <2>11, <2>16 DEF Usable
  <2>19. /\ q.reqs[r].kind \in KindsAt["connect"] /\ q.reqs[r].id \in 0 .. p.clientId
         /\ q.reqs[r].fresh # {} => q.reqs[r].ok /\ q.reqs[r].kind = "import"
    BY <2>7, <2>13, <2>16, KindsAre DEF Going
  <2>20. /\ DOMAIN p.made \subseteq DOMAIN q.made
         /\ \A s \in Slots \ {r} : q.reqs[s] = p.reqs[s]
         /\ q.reqs[r].stage = "connect" /\ q.reqs[r].conn = Len(p.conns) + 1
         /\ q.reqs[r].client \in DOMAIN q.made
    BY <2>4, <2>5, <2>7, <2>11, <2>13, <2>16
  <2>21. KindsAt["connect"] = KindsAt.connect
    OBVIOUS
  <2>22. Solid(q, Slots)
    BY <2>16, <2>17, <2>18, <2>19, <2>20, <2>21, Dials, ZenonT(60)
  <2> QED
    BY <2>1, <2>15, <2>22
<1> QED
  BY <1>2, <1>3

\* A client is made for an address, and its connection for the request.
LEMMA DialsNew ==
    ASSUME NEW p, NEW r \in Slots, Solid(p, Slots \ {r}), NEW email \in Emails,
           NEW req \in Requests, req.stage = "connect", req.kind \in {"add", "import"},
           req.client = Len(p.made) + 1, req.conn = Len(p.conns) + 1,
           req.id \in 0 .. p.clientId, req.fresh # {} => req.ok /\ req.kind = "import"
    PROVE  Solid(WithReq(NewClient(p, email), r, req), Slots)
<1>1. p \in Memories /\ Linked(p) /\ Len(p.made) \in Nat /\ Len(p.conns) \in Nat
  BY MemoryFields DEF Solid
<1>2. PICK n : n = NewClient(p, email)
  OBVIOUS
<1>3. PICK q : q = WithReq(n, r, req)
  OBVIOUS
<1>4. /\ n \in Memories
      /\ n.clients = p.clients /\ n.clientId = p.clientId /\ n.reqs = p.reqs
      /\ n.conns = Append(p.conns, Dialling)
  BY <1>1, <1>2, NewClientIs
<1>5. /\ DOMAIN n.made = 1 .. Len(p.made) + 1 /\ DOMAIN p.made = 1 .. Len(p.made)
      /\ \A c \in DOMAIN p.made : n.made[c] = p.made[c]
      /\ n.made[Len(p.made) + 1].conn = Len(p.conns) + 1
  BY <1>1, <1>2, NewClientIs
<1>6. /\ q \in Memories /\ q.clients = n.clients /\ q.clientId = n.clientId
      /\ q.made = n.made /\ q.conns = n.conns
      /\ q.reqs[r] = req /\ \A s \in Slots \ {r} : q.reqs[s] = n.reqs[s]
  BY <1>3, <1>4, WithReqIs
<1>7. /\ DOMAIN p.made \subseteq DOMAIN q.made
      /\ \A c \in DOMAIN q.made :
              \/ q.made[c].conn = Len(p.conns) + 1
              \/ c \in DOMAIN p.made /\ q.made[c].conn = p.made[c].conn
      /\ \A c \in DOMAIN p.made :
              p.conns[p.made[c].conn].state = "up" => q.made[c].conn = p.made[c].conn
  <2>1. \A c \in DOMAIN n.made : c = Len(p.made) + 1 \/ c \in DOMAIN p.made
    BY <1>1, <1>5
  <2> QED
    BY <1>1, <1>5, <1>6, <2>1
<1>8. q.reqs[r].kind \in KindsAt.connect
  BY <1>6 DEF KindsAt
<1>9. q.reqs[r].client \in DOMAIN q.made
  BY <1>1, <1>5, <1>6
<1>10. /\ q.clients = p.clients /\ q.clientId = p.clientId
       /\ q.conns = Append(p.conns, Dialling)
       /\ \A s \in Slots \ {r} : q.reqs[s] = p.reqs[s]
       /\ q.reqs[r].stage = "connect" /\ q.reqs[r].conn = Len(p.conns) + 1
       /\ q.reqs[r].id \in 0 .. p.clientId
       /\ q.reqs[r].fresh # {} => q.reqs[r].ok /\ q.reqs[r].kind = "import"
  BY <1>4, <1>6
<1>11. Solid(q, Slots)
  BY <1>6, <1>7, <1>8, <1>9, <1>10, Dials
<1> QED
  BY <1>2, <1>3, <1>11

\* The order the least element of a set of numbers is taken from.
Smaller == {pair \in Nat \X Nat : pair[1] < pair[2]}

\* A set of numbers that is not empty has a least one, and Min names it.
LEMMA MinIs ==
    ASSUME NEW S \in SUBSET Nat, S # {}
    PROVE  Min(S) \in S /\ \A y \in S : Min(S) <= y
<1>1. IsWellFoundedOn(Smaller, Nat)
  BY NatLessThanWellFounded DEF OpToRel, Smaller
<1>2. PICK x \in S : \A y \in S : ~(<<y, x>> \in Smaller)
  BY <1>1, WFMin
<1>3. \A y \in S : x <= y
  <2> SUFFICES ASSUME NEW y \in S PROVE x <= y
    OBVIOUS
  <2>1. y \in Nat /\ x \in Nat /\ ~(<<y, x>> \in Smaller)
    BY <1>2
  <2>2. ~(y < x)
    BY <2>1 DEF Smaller
  <2> QED
    BY <2>1, <2>2
<1>4. PICK w : w = CHOOSE v \in S : \A y \in S : v <= y
  OBVIOUS
<1>5. w \in S /\ \A y \in S : w <= y
  BY <1>3, <1>4
<1>6. Min(S) = w
  BY <1>4 DEF Min
<1> QED
  BY <1>5, <1>6

NewLine(p, todo) == SelectInSeq(todo, LAMBDA e : e \notin EmailsOf(p))

\* The line of an import that comes next is one of its lines, if there is one.
LEMMA SelectIs ==
    ASSUME NEW p, NEW todo \in Seq(Emails), NEW n, n = NewLine(p, todo)
    PROVE  /\ n \in 0 .. Len(todo)
           /\ n # 0 => /\ todo[n] \in Emails /\ todo[n] \notin EmailsOf(p)
                       /\ SubSeq(todo, n + 1, Len(todo)) \in Seq(Emails)
           /\ n = 0 => \A i \in 1 .. Len(todo) : todo[i] \in EmailsOf(p)
<1>0. PICK I : I = {i \in 1 .. Len(todo) : todo[i] \notin EmailsOf(p)}
  OBVIOUS
<1>1. n = IF I # {} THEN Min(I) ELSE 0
  BY <1>0 DEF NewLine, SelectInSeq
<1>2. I \in SUBSET Nat /\ Len(todo) \in Nat
  BY <1>0
<1>3. I # {} => Min(I) \in I
  BY <1>2, MinIs
<1>4. CASE I = {}
  BY <1>0, <1>1, <1>2, <1>4
<1>5. CASE I # {}
  <2>1. n \in I
    BY <1>1, <1>3, <1>5
  <2>2. n \in 1 .. Len(todo) /\ n # 0 /\ n \in Nat /\ todo[n] \notin EmailsOf(p)
    BY <1>0, <1>2, <2>1
  <2>3. todo[n] \in Emails
    BY <2>2
  <2>4. SubSeq(todo, n + 1, Len(todo)) \in Seq(Emails)
    BY <1>2, <2>2
  <2> QED
    BY <1>2, <2>2, <2>3, <2>4
<1> QED
  BY <1>4, <1>5

\* What NextLine makes of a memory: the answer, or a client for the next line.
LEMMA NextLineIs ==
    ASSUME NEW p \in Memories, NEW r \in Slots
    PROVE  \/ NextLine(p, r) = Reply(p, r)
           \/ \E email \in Emails, req \in Requests, mid \in Requests :
                /\ NextLine(p, r) = WithReq(NewClient(WithReq(p, r, mid), email), r, req)
                /\ req.stage = "connect" /\ req.kind = p.reqs[r].kind
                /\ req.client = Len(p.made) + 1 /\ req.conn = Len(p.conns) + 1
                /\ req.id = p.reqs[r].id /\ req.fresh = p.reqs[r].fresh
                /\ p.reqs[r].ok => req.ok
<1>1. PICK todo : todo = p.reqs[r].todo
  OBVIOUS
<1>2. PICK n : n = NewLine(p, todo)
  OBVIOUS
<1>3. p.reqs[r] \in Requests /\ todo \in Seq(Emails)
  BY <1>1, MemoryFields DEF Requests
<1>4. CASE n = 0
  BY <1>1, <1>2, <1>4, Zenon DEF NextLine, NewLine
<1>5. CASE n # 0
  <2>1. todo[n] \in Emails /\ SubSeq(todo, n + 1, Len(todo)) \in Seq(Emails)
    BY <1>2, <1>3, <1>5, SelectIs
  <2>2. PICK email, rest : email = todo[n] /\ rest = SubSeq(todo, n + 1, Len(todo))
    OBVIOUS
  <2>3. PICK b \in BOOLEAN : b = (p.reqs[r].ok \/ n # 1)
    OBVIOUS
  <2>4. PICK mid : mid = [p.reqs[r] EXCEPT !.ok = b]
    OBVIOUS
  <2>5. /\ mid \in Requests /\ mid.kind = p.reqs[r].kind /\ mid.id = p.reqs[r].id
        /\ mid.fresh = p.reqs[r].fresh /\ mid.ok = b
    BY <1>3, <2>3, <2>4 DEF Requests
  <2>6. PICK m : m = WithReq(p, r, mid)
    OBVIOUS
  <2>7. /\ m \in Memories /\ m.made = p.made /\ m.conns = p.conns /\ m.reqs[r] = mid
    BY <2>5, <2>6, WithReqIs
  <2>8. PICK q : q = NewClient(m, email)
    OBVIOUS
  <2>9. email \in Emails /\ rest \in Seq(Emails)
    BY <2>1, <2>2
  <2>10. q.reqs = m.reqs /\ q \in Memories
    BY <2>7, <2>8, <2>9, NewClientIs
  <2>11. Len(q.made) = Len(p.made) + 1 /\ Len(q.conns) = Len(p.conns) + 1
    <3>1. m \in Memories /\ email \in Emails
      BY <2>7, <2>9
    <3>2. q.conns = Append(m.conns, Dialling)
      BY <2>8, <3>1, NewClientIs
    <3>3. DOMAIN q.made = 1 .. Len(m.made) + 1
      BY <2>7, <2>8, <2>9, NewClientIs
    <3>4. m.conns \in Seq(Conns) /\ q.made \in Seq(Mades) /\ Len(m.made) \in Nat
      BY <2>7, <2>10, MemoryFields
    <3>5. Len(q.conns) = Len(m.conns) + 1
      BY <3>2, <3>4
    <3>6. Len(q.made) = Len(m.made) + 1
      BY <3>3, <3>4
    <3> QED
      BY <2>7, <3>5, <3>6
  <2>12. PICK req : req = [mid EXCEPT !.todo = rest, !.stage = "connect",
                                      !.client = Len(q.made), !.conn = Len(q.conns)]
    OBVIOUS
  <2>13. Len(q.made) \in Nat /\ Len(q.conns) \in Nat
    BY <2>10, MemoryFields
  <2>14. /\ req \in Requests /\ req.stage = "connect" /\ req.kind = mid.kind
         /\ req.client = Len(q.made) /\ req.conn = Len(q.conns)
         /\ req.id = mid.id /\ req.fresh = mid.fresh /\ req.ok = mid.ok
    BY <2>5, <2>9, <2>12, <2>13 DEF Requests, Stages
  <2>15. NextLine(p, r) = WithReq(q, r, req)
    <3>1. m = [p EXCEPT !.reqs[r].ok = @ \/ n # 1]
      BY <2>3, <2>4, <2>6 DEF WithReq
    <3>2. NextLine(p, r) = [q EXCEPT !.reqs[r] =
                              [@ EXCEPT !.todo = rest, !.stage = "connect",
                                        !.client = Len(q.made), !.conn = Len(q.conns)]]
      BY <1>1, <1>2, <1>5, <2>2, <2>8, <3>1, Zenon DEF NextLine, NewLine
    <3>3. q.reqs[r] = mid
      BY <2>7, <2>10
    <3> QED
      BY <2>12, <3>2, <3>3 DEF WithReq
  <2> QED
    BY <2>3, <2>5, <2>6, <2>8, <2>9, <2>11, <2>14, <2>15
<1> QED
  BY <1>4, <1>5

\* The next line is connected, or the import is answered.
LEMMA NextLineSolid ==
    ASSUME NEW p, NEW r \in Slots, Solid(p, Slots \ {r}), p.reqs[r].kind = "import",
           p.reqs[r].id \in 0 .. p.clientId, p.reqs[r].fresh # {} => p.reqs[r].ok
    PROVE  Solid(NextLine(p, r), Slots)
<1>1. p \in Memories
  BY DEF Solid
<1>2. CASE NextLine(p, r) = Reply(p, r)
  BY <1>2, ReplySolid
<1>3. CASE NextLine(p, r) # Reply(p, r)
  <2>1. PICK email \in Emails, req \in Requests, mid \in Requests :
                /\ NextLine(p, r) = WithReq(NewClient(WithReq(p, r, mid), email), r, req)
                /\ req.stage = "connect" /\ req.kind = p.reqs[r].kind
                /\ req.client = Len(p.made) + 1 /\ req.conn = Len(p.conns) + 1
                /\ req.id = p.reqs[r].id /\ req.fresh = p.reqs[r].fresh
                /\ p.reqs[r].ok => req.ok
    BY <1>1, <1>3, NextLineIs
  <2>2. PICK m : m = WithReq(p, r, mid)
    OBVIOUS
  <2>3. m.made = p.made /\ m.conns = p.conns /\ m.clientId = p.clientId
    BY <1>1, <2>2, WithReqIs
  <2>4. Solid(m, Slots \ {r})
    BY <2>2, Rewrite
  <2>5. Solid(WithReq(NewClient(m, email), r, req), Slots)
    BY <2>1, <2>3, <2>4, DialsNew
  <2> QED
    BY <2>1, <2>2, <2>5
<1> QED
  BY <1>2, <1>3

\* What Registered makes of a memory.
LEMMA RegisteredIs ==
    ASSUME NEW p \in Memories, Linked(p), NEW r \in Slots, p.reqs[r].client \in DOMAIN p.made,
           NEW q, q = Registered(p, r)
    PROVE  /\ q \in Memories /\ Linked(q)
           /\ q.clientId = p.clientId + 1 /\ q.made = p.made /\ q.conns = p.conns
           /\ DOMAIN q.clients = DOMAIN p.clients \cup {p.clientId + 1}
           /\ q.clients[p.clientId + 1] = p.reqs[r].client
           /\ \A i \in DOMAIN p.clients : i # p.clientId + 1 /\ q.clients[i] = p.clients[i]
           /\ q.reqs[r] \in Requests /\ q.reqs[r].ok
           /\ q.reqs[r].fresh = p.reqs[r].fresh \cup {p.made[p.reqs[r].client].email}
           /\ q.reqs[r].stage = p.reqs[r].stage /\ q.reqs[r].kind = p.reqs[r].kind
           /\ q.reqs[r].id = p.reqs[r].id /\ q.reqs[r].todo = p.reqs[r].todo
           /\ \A s \in Slots \ {r} : q.reqs[s] = p.reqs[s]
<1>1. /\ p.clients \in Maps /\ p.clientId \in Nat /\ p.made \in Seq(Mades)
      /\ p.reqs[r] \in Requests /\ p.made[p.reqs[r].client] \in Mades
  BY MemoryFields
<1>2. PICK id, c, email : /\ id = p.clientId + 1 /\ c = p.reqs[r].client
                          /\ email = p.made[p.reqs[r].client].email
  OBVIOUS
<1>3. id \in Nat /\ c \in Nat /\ c \in DOMAIN p.made /\ email \in Emails
  BY <1>1, <1>2, SMTT(60) DEF Mades, Requests
<1>4. PICK D \in SUBSET Nat : p.clients \in [D -> Nat]
  BY <1>1 DEF Maps
<1>5. D = DOMAIN p.clients /\ \A i \in D : i \in 1 .. p.clientId /\ p.clients[i] \in DOMAIN p.made
  BY <1>4 DEF Linked
<1>6. \A i \in D : i # id
  BY <1>1, <1>2, <1>5
<1>7. PICK clients : clients = [i \in DOMAIN p.clients \cup {p.clientId + 1} |->
                                  IF i = p.clientId + 1 THEN c ELSE p.clients[i]]
  OBVIOUS
<1>8. /\ clients \in [D \cup {id} -> Nat] /\ clients[id] = c
      /\ \A i \in D : clients[i] = p.clients[i]
  BY <1>2, <1>3, <1>4, <1>5, <1>6, <1>7
<1>9. clients \in Maps /\ DOMAIN clients = D \cup {id}
  <2>1. D \cup {id} \in SUBSET Nat
    BY <1>3, <1>4
  <2> QED
    BY <1>8, <2>1 DEF Maps
<1>10. PICK req : req = [p.reqs[r] EXCEPT !.ok = TRUE, !.fresh = @ \cup {email}]
  OBVIOUS
<1>11. /\ req \in Requests /\ req.ok
       /\ req.fresh = p.reqs[r].fresh \cup {email}
       /\ req.stage = p.reqs[r].stage /\ req.kind = p.reqs[r].kind
       /\ req.id = p.reqs[r].id /\ req.todo = p.reqs[r].todo
  BY <1>1, <1>3, <1>10 DEF Requests
<1>12. PICK reqs : reqs = [p.reqs EXCEPT ![r] = req]
  OBVIOUS
<1>13. /\ reqs \in [Slots -> Requests] /\ reqs[r] = req
       /\ \A s \in Slots \ {r} : reqs[s] = p.reqs[s]
  BY <1>11, <1>12, MemoryFields
<1>14. q = [p EXCEPT !.clientId = id, !.clients = clients, !.reqs = reqs]
  BY <1>2, <1>7, <1>10, <1>12 DEF Registered, Memories
<1>15. /\ q \in Memories /\ q.clients = clients /\ q.clientId = id /\ q.reqs = reqs
       /\ q.made = p.made /\ q.conns = p.conns
  BY <1>3, <1>9, <1>13, <1>14 DEF Memories
<1>16. Linked(q)
  <2>1. \A i \in DOMAIN q.clients : i \in 1 .. q.clientId /\ q.clients[i] \in DOMAIN q.made
    <3> SUFFICES ASSUME NEW i \in D \cup {id}
                 PROVE  i \in 1 .. id /\ clients[i] \in DOMAIN p.made
      BY <1>9, <1>15
    <3>1. CASE i = id
      BY <1>1, <1>2, <1>3, <1>8, <3>1
    <3>2. CASE i \in D
      BY <1>1, <1>2, <1>5, <1>8, <3>2
    <3> QED
      BY <3>1, <3>2
  <2> QED
    BY <1>15, <2>1 DEF Linked
<1> QED
  BY <1>2, <1>5, <1>6, <1>8, <1>9, <1>10, <1>11, <1>13, <1>15, <1>16, ZenonT(60)

\* A new client fits.
LEMMA RegisteredSolid ==
    ASSUME NEW p, NEW r \in Slots, Solid(p, Slots \ {r}), p.reqs[r].client \in DOMAIN p.made
    PROVE  Solid(Registered(p, r), Slots \ {r})
<1>1. p \in Memories /\ Linked(p) /\ Queued(p, Slots \ {r})
  BY DEF Solid
<1>2. PICK q : q = Registered(p, r)
  OBVIOUS
<1>3. /\ q \in Memories /\ Linked(q)
      /\ q.clientId = p.clientId + 1 /\ q.made = p.made /\ q.conns = p.conns
      /\ \A s \in Slots \ {r} : q.reqs[s] = p.reqs[s]
  <2>1. q \in Memories /\ Linked(q)
    BY <1>1, <1>2, RegisteredIs
  <2>2. q.clientId = p.clientId + 1 /\ q.made = p.made /\ q.conns = p.conns
    BY <1>1, <1>2, RegisteredIs
  <2>3. \A s \in Slots \ {r} : q.reqs[s] = p.reqs[s]
    BY <1>1, <1>2, RegisteredIs, SMTT(60)
  <2> QED
    BY <2>1, <2>2, <2>3
<1>4. ASSUME NEW s \in Slots \ {r}
      PROVE  /\ Fits(q, q.reqs[s])
             /\ Locking(q.reqs[s]) => InPlace(q, s)
             /\ q.reqs[s].stage = "connect" => Alone(q, Slots \ {r}, s)
  <2>1. /\ q.reqs[s] = p.reqs[s]
        /\ Fits(p, p.reqs[s]) /\ (Locking(p.reqs[s]) => InPlace(p, s))
        /\ (p.reqs[s].stage = "connect" => Alone(p, Slots \ {r}, s))
    BY <1>3 DEF Solid
  <2>2. Fits(q, p.reqs[s])
    <3>1. p.clientId <= q.clientId /\ Len(p.conns) <= Len(q.conns)
      BY <1>1, <1>3, MemoryFields
    <3> QED
      BY <1>1, <1>3, <2>1, <3>1, FitsKeeps
  <2>3. p.reqs[s].stage = "connect" => Alone(q, Slots \ {r}, s)
    BY <1>3, <2>1, SMTT(60) DEF Alone
  <2> QED
    BY <1>3, <2>1, <2>2, <2>3 DEF InPlace
<1>5. Queued(q, Slots \ {r})
  <2>1. ASSUME NEW k \in DOMAIN p.conns
        PROVE  \A i \in DOMAIN p.conns[k].queue : p.conns[k].queue[i] \in Slots \ {r}
    BY <1>1, <2>1 DEF Queued, ToSet
  <2> QED
    BY <1>1, <1>3, <2>1 DEF Queued
<1>6. Solid(q, Slots \ {r})
  BY <1>3, <1>4, <1>5 DEF Solid
<1> QED
  BY <1>2, <1>6

(***************************************************************************)
(* A connection is made or fails, a lock is released                       *)
(***************************************************************************)

SetState(p, k, state) == [p EXCEPT !.conns[k].state = state]

\* The connection that was made for a request is up, or not to be had.
LEMMA ConnectSettles ==
    ASSUME NEW p, Solid(p, Slots), NEW r \in Slots, p.reqs[r].stage = "connect",
           NEW state \in {"up", "gone"}, NEW k, k = p.reqs[r].conn,
           NEW q, q = SetState(p, k, state)
    PROVE  /\ Solid(q, Slots \ {r})
           /\ q.clients = p.clients /\ q.clientId = p.clientId
           /\ q.made = p.made /\ q.reqs = p.reqs
           /\ Len(q.conns) = Len(p.conns)
           /\ \A s \in Slots \ {r} : p.reqs[s].stage = "connect" => p.reqs[s].conn # k
<1>1. p \in Memories /\ Linked(p) /\ Queued(p, Slots)
  BY DEF Solid
<1>2. Fits(p, p.reqs[r]) /\ Alone(p, Slots, r)
  BY DEF Solid
<1>3. k \in 0 .. Len(p.conns) /\ k # 0 /\ p.conns[k].state # "up"
      /\ \A s \in Slots \ {r} : p.reqs[s].conn # k
  BY <1>2 DEF Fits, Alone
<1>4. k \in DOMAIN p.conns
  BY <1>1, <1>3, MemoryFields
<1>5. p.conns[k] \in Conns /\ p.conns[k].queue = <<>>
  BY <1>1, <1>3, <1>4, MemoryFields DEF Queued
<1>6. PICK conn : conn = [p.conns[k] EXCEPT !.state = state]
  OBVIOUS
<1>7. conn \in Conns /\ conn.state = state /\ conn.queue = <<>>
  BY <1>5, <1>6 DEF Conns
<1>8. q = WithConn(p, k, conn)
  BY <1>6 DEF SetState, WithConn
<1>9. /\ q \in Memories /\ q.clients = p.clients /\ q.clientId = p.clientId
      /\ q.made = p.made /\ q.reqs = p.reqs
      /\ DOMAIN q.conns = DOMAIN p.conns /\ Len(q.conns) = Len(p.conns)
      /\ q.conns[k] = conn
      /\ \A j \in DOMAIN p.conns : j # k => q.conns[j] = p.conns[j]
  BY <1>1, <1>4, <1>7, <1>8, WithConnIs
<1>10. Linked(q)
  BY <1>1, <1>9 DEF Linked
<1>11. ASSUME NEW s \in Slots \ {r}
       PROVE  /\ Fits(q, q.reqs[s])
              /\ Locking(q.reqs[s]) => InPlace(q, s)
              /\ q.reqs[s].stage = "connect" => Alone(q, Slots \ {r}, s)
  <2>1. /\ q.reqs[s] = p.reqs[s] /\ p.reqs[s].conn # k
        /\ Fits(p, p.reqs[s]) /\ (Locking(p.reqs[s]) => InPlace(p, s))
        /\ (p.reqs[s].stage = "connect" => Alone(p, Slots, s))
    BY <1>3, <1>9 DEF Solid
  <2>2. Fits(q, p.reqs[s])
    BY <1>9, <2>1 DEF Fits
  <2>3. p.reqs[s].conn # 0 => p.reqs[s].conn \in DOMAIN p.conns
    BY <1>1, <2>1, MemoryFields, SMTT(60) DEF Fits
  <2>4. Locking(p.reqs[s]) => InPlace(q, s)
    <3> SUFFICES ASSUME Locking(p.reqs[s]) PROVE InPlace(q, s)
      OBVIOUS
    <3>1. InPlace(p, s) /\ p.reqs[s].conn \in DOMAIN p.conns
      BY <2>1, <2>3 DEF InPlace
    <3> QED
      BY <1>9, <2>1, <3>1, InPlaceKeeps, SMTT(60)
  <2>5. p.reqs[s].stage = "connect" => Alone(q, Slots \ {r}, s)
    BY <1>9, <2>1, <2>3 DEF Alone, Fits
  <2> QED
    BY <2>1, <2>2, <2>4, <2>5
<1>12. Queued(q, Slots \ {r})
  <2>1. DOMAIN q.conns = DOMAIN p.conns /\ q.reqs = p.reqs
    BY <1>9
  <2> SUFFICES ASSUME NEW j \in DOMAIN q.conns
               PROVE  LET line == q.conns[j].queue IN
                      /\ ToSet(line) \subseteq Slots \ {r} /\ IsInjective(line)
                      /\ q.conns[j].state # "up" => line = <<>>
                      /\ \A i \in DOMAIN line :
                           /\ Locking(q.reqs[line[i]]) /\ q.reqs[line[i]].conn = j
                           /\ i # 1 => q.reqs[line[i]].stage = "lock"
    BY Zenon DEF Queued
  <2>2. CASE j = k
    <3>1. q.conns[j] = conn
      BY <1>9, <2>2
    <3>2. ToSet(<<>>) = {} /\ IsInjective(<<>>) /\ DOMAIN <<>> = {}
      BY DEF ToSet, IsInjective
    <3> QED
      BY <1>7, <3>1, <3>2, Zenon
  <2>3. CASE j # k
    <3>1. q.conns[j] = p.conns[j]
      BY <1>9, <2>1, <2>3
    <3>2. PICK line : line = p.conns[j].queue
      OBVIOUS
    <3>3. /\ ToSet(line) \subseteq Slots /\ IsInjective(line)
          /\ p.conns[j].state # "up" => line = <<>>
          /\ \A i \in DOMAIN line : /\ Locking(p.reqs[line[i]]) /\ p.reqs[line[i]].conn = j
                                    /\ i # 1 => p.reqs[line[i]].stage = "lock"
      BY <1>1, <2>1, <3>2, Zenon DEF Queued
    <3>4. r \notin ToSet(line)
      BY <2>3, <3>3, Zenon DEF ToSet
    <3> QED
      BY <2>1, <3>1, <3>2, <3>3, <3>4, Zenon
  <2> QED
    BY <2>2, <2>3, Zenon
<1>13. Solid(q, Slots \ {r})
  BY <1>9, <1>10, <1>11, <1>12 DEF Solid
<1> QED
  BY <1>3, <1>9, <1>13

\* The first request of a queue leaves it.
LEMMA TailIs ==
    ASSUME NEW s \in Seq(Slots), s # <<>>, IsInjective(s), NEW t, t = Tail(s)
    PROVE  /\ t \in Seq(Slots) /\ IsInjective(t)
           /\ \A i \in DOMAIN t : i + 1 \in DOMAIN s /\ i + 1 # 1 /\ t[i] = s[i + 1]
           /\ ToSet(t) = ToSet(s) \ {Head(s)}
<1>1. /\ t \in Seq(Slots) /\ Len(s) \in Nat /\ Len(s) # 0 /\ Len(t) = Len(s) - 1
      /\ DOMAIN t = 1 .. Len(s) - 1 /\ DOMAIN s = 1 .. Len(s)
      /\ Head(s) = s[1]
      /\ \A i \in 1 .. Len(s) - 1 : t[i] = s[i + 1]
  OBVIOUS
<1>2. \A i \in DOMAIN t : i \in Nat /\ i + 1 \in DOMAIN s /\ i + 1 # 1 /\ t[i] = s[i + 1]
  BY <1>1
<1>3. \A i \in DOMAIN s : i # 1 => i - 1 \in DOMAIN t /\ t[i - 1] = s[i]
  BY <1>1
<1>4. IsInjective(t)
  <2> SUFFICES ASSUME NEW i \in DOMAIN t, NEW j \in DOMAIN t, t[i] = t[j] PROVE i = j
    BY DEF IsInjective
  <2>1. i + 1 \in DOMAIN s /\ j + 1 \in DOMAIN s /\ s[i + 1] = s[j + 1]
    BY <1>2
  <2>2. i + 1 = j + 1
    BY <2>1 DEF IsInjective
  <2> QED
    BY <1>2, <2>2
<1>5. ToSet(t) \subseteq ToSet(s) \ {Head(s)}
  <2> SUFFICES ASSUME NEW i \in DOMAIN t PROVE t[i] \in ToSet(s) /\ t[i] # s[1]
    BY <1>1 DEF ToSet
  <2>1. i + 1 \in DOMAIN s /\ i + 1 # 1 /\ t[i] = s[i + 1] /\ 1 \in DOMAIN s
    BY <1>1, <1>2
  <2> QED
    BY <2>1 DEF IsInjective, ToSet
<1>6. ToSet(s) \ {Head(s)} \subseteq ToSet(t)
  <2> SUFFICES ASSUME NEW i \in DOMAIN s, s[i] # s[1] PROVE s[i] \in ToSet(t)
    BY <1>1 DEF ToSet
  <2>1. i - 1 \in DOMAIN t /\ t[i - 1] = s[i]
    BY <1>3
  <2> QED
    BY <2>1 DEF ToSet
<1> QED
  BY <1>1, <1>2, <1>4, <1>5, <1>6

\* A request that is in no queue can be left out.
LEMMA LeaveOut ==
    ASSUME NEW p, Solid(p, Slots), NEW r \in Slots,
           \A k \in DOMAIN p.conns : r \notin ToSet(p.conns[k].queue)
    PROVE  Solid(p, Slots \ {r})
<1>1. \A s \in Slots \ {r} : /\ Fits(p, p.reqs[s])
                             /\ Locking(p.reqs[s]) => InPlace(p, s)
                             /\ p.reqs[s].stage = "connect" => Alone(p, Slots \ {r}, s)
  BY DEF Solid, Alone
<1>2. Queued(p, Slots \ {r})
  BY DEF Solid, Queued
<1> QED
  BY <1>1, <1>2 DEF Solid

\* The lock goes to the next in the queue.  A request that has none, or whose
\* connection ended, leaves nothing behind.
LEMMA ReleaseSolid ==
    ASSUME NEW p, Solid(p, Slots), NEW r \in Slots, p.reqs[r].stage \in Holding
    PROVE  Solid(Release(p, r), Slots \ {r})
<1>1. p \in Memories /\ Linked(p) /\ Queued(p, Slots) /\ Fits(p, p.reqs[r])
  BY DEF Solid
<1>2. PICK k : k = p.reqs[r].conn
  OBVIOUS
<1>3. \A j \in DOMAIN p.conns :
         r \in ToSet(p.conns[j].queue) => Locking(p.reqs[r]) /\ j = k
  BY <1>1, <1>2 DEF Queued, ToSet
<1>4. CASE ~(k # 0 /\ p.conns[k].queue # <<>> /\ Head(p.conns[k].queue) = r)
  <2>1. Release(p, r) = p
    BY <1>2, <1>4 DEF Release
  <2>2. ASSUME NEW j \in DOMAIN p.conns, r \in ToSet(p.conns[j].queue) PROVE FALSE
    <3>1. Locking(p.reqs[r]) /\ j = k
      BY <1>3, <2>2
    <3>2. InPlace(p, r)
      BY <3>1 DEF Solid
    <3>3. p.conns[k].queue # <<>>
      <4>1. ToSet(<<>>) = {}
        BY DEF ToSet
      <4> QED
        BY <2>2, <3>1, <4>1
    <3>4. p.conns[k].state = "up"
      BY <1>1, <2>2, <3>1, <3>3 DEF Queued
    <3>5. Head(p.conns[k].queue) = r /\ k # 0
      BY <1>2, <3>2, <3>4 DEF InPlace, Holding
    <3> QED
      BY <1>4, <3>3, <3>5
  <2> QED
    BY <2>1, <2>2, LeaveOut, SMTT(60)
<1>5. CASE k # 0 /\ p.conns[k].queue # <<>> /\ Head(p.conns[k].queue) = r
  <2>1. k \in DOMAIN p.conns
    BY <1>1, <1>2, <1>5, MemoryFields DEF Fits
  <2>2. p.conns[k] \in Conns /\ p.conns[k].queue \in Seq(Slots)
        /\ IsInjective(p.conns[k].queue) /\ p.conns[k].state = "up"
    <3>1. p.conns[k] \in Conns
      BY <1>1, <2>1, MemoryFields
    <3>2. IsInjective(p.conns[k].queue) /\ p.conns[k].state = "up"
      BY <1>1, <1>5, <2>1, Zenon DEF Queued
    <3> QED
      BY <3>1, <3>2 DEF Conns
  <2>3. PICK old, queue : old = p.conns[k].queue /\ queue = Tail(old)
    OBVIOUS
  <2>4. /\ queue \in Seq(Slots) /\ IsInjective(queue)
        /\ \A i \in DOMAIN queue : i + 1 \in DOMAIN old /\ i + 1 # 1 /\ queue[i] = old[i + 1]
        /\ ToSet(queue) = ToSet(old) \ {r}
    <3>1. old \in Seq(Slots) /\ old # <<>> /\ IsInjective(old) /\ Head(old) = r
      BY <1>5, <2>2, <2>3
    <3>2. queue = Tail(old)
      BY <2>3
    <3>3. queue \in Seq(Slots) /\ IsInjective(queue)
      BY <3>1, <3>2, TailIs
    <3>4. \A i \in DOMAIN queue : i + 1 \in DOMAIN old /\ i + 1 # 1 /\ queue[i] = old[i + 1]
      BY <3>1, <3>2, TailIs
    <3>5. ToSet(queue) = ToSet(old) \ {Head(old)}
      BY <3>1, <3>2, TailIs
    <3> QED
      BY <3>1, <3>3, <3>4, <3>5
  <2>5. PICK conn : conn = [p.conns[k] EXCEPT !.queue = queue]
    OBVIOUS
  <2>6. conn \in Conns /\ conn.state = "up" /\ conn.queue = queue
        /\ conn.folder = p.conns[k].folder
    BY <2>2, <2>4, <2>5 DEF Conns
  <2>7. PICK q : q = WithConn(p, k, conn)
    OBVIOUS
  <2>8. Release(p, r) = q
    BY <1>2, <1>5, <2>3, <2>5, <2>7, Zenon DEF Release, WithConn
  <2>9. /\ q \in Memories /\ q.clients = p.clients /\ q.clientId = p.clientId
        /\ q.made = p.made /\ q.reqs = p.reqs
        /\ DOMAIN q.conns = DOMAIN p.conns /\ Len(q.conns) = Len(p.conns)
        /\ q.conns[k] = conn
        /\ \A j \in DOMAIN p.conns : j # k => q.conns[j] = p.conns[j]
    BY <1>1, <2>1, <2>6, <2>7, WithConnIs
  <2>10. Linked(q)
    BY <1>1, <2>9 DEF Linked
  <2>11. \A s \in ToSet(old) \ {r} : p.reqs[s].stage = "lock"
    <3> SUFFICES ASSUME NEW i \in DOMAIN old, old[i] # r PROVE p.reqs[old[i]].stage = "lock"
      BY DEF ToSet
    <3>1. i # 1
      BY <1>5, <2>2, <2>3
    <3> QED
      BY <1>1, <2>1, <2>3, <3>1 DEF Queued
  <2>12. ASSUME NEW s \in Slots \ {r}
         PROVE  /\ Fits(q, q.reqs[s])
                /\ Locking(q.reqs[s]) => InPlace(q, s)
                /\ q.reqs[s].stage = "connect" => Alone(q, Slots \ {r}, s)
    <3>1. /\ q.reqs[s] = p.reqs[s]
          /\ Fits(p, p.reqs[s]) /\ (Locking(p.reqs[s]) => InPlace(p, s))
          /\ (p.reqs[s].stage = "connect" => Alone(p, Slots, s))
      BY <2>9 DEF Solid
    <3>2. Fits(q, p.reqs[s])
      BY <2>9, <3>1 DEF Fits
    <3>3. p.reqs[s].conn # 0 => p.reqs[s].conn \in DOMAIN p.conns
      BY <1>1, <3>1, MemoryFields DEF Fits
    <3>4. Locking(p.reqs[s]) => InPlace(q, s)
      <4> SUFFICES ASSUME Locking(p.reqs[s]) PROVE InPlace(q, s)
        OBVIOUS
      <4>1. InPlace(p, s) /\ p.reqs[s].conn \in DOMAIN p.conns
        BY <3>1, <3>3 DEF InPlace
      <4>2. CASE p.reqs[s].conn # k
        BY <2>9, <3>1, <4>1, <4>2, InPlaceKeeps
      <4>3. CASE p.reqs[s].conn = k
        <5>1. s \in ToSet(old)
          BY <2>2, <2>3, <4>1, <4>3 DEF InPlace
        <5>2. p.reqs[s].stage = "lock" /\ s \in ToSet(queue)
          BY <2>4, <2>11, <5>1
        <5>3. q.conns[k] = conn /\ q.made = p.made
          BY <2>9
        <5> QED
          BY <2>2, <2>6, <3>1, <4>1, <4>3, <5>2, <5>3 DEF InPlace
      <4> QED
        BY <4>2, <4>3
    <3>5. p.reqs[s].stage = "connect" => Alone(q, Slots \ {r}, s)
      <4> SUFFICES ASSUME p.reqs[s].stage = "connect" PROVE Alone(q, Slots \ {r}, s)
        OBVIOUS
      <4>1. Alone(p, Slots, s) /\ p.reqs[s].conn \in DOMAIN p.conns
        BY <3>1, <3>3 DEF Fits
      <4>2. p.reqs[s].conn # k
        BY <2>2, <4>1 DEF Alone
      <4> QED
        BY <2>9, <3>1, <4>1, <4>2 DEF Alone
    <3> QED
      BY <3>1, <3>2, <3>4, <3>5
  <2>13. Queued(q, Slots \ {r})
    <3> SUFFICES ASSUME NEW j \in DOMAIN p.conns
                 PROVE  LET line == q.conns[j].queue IN
                        /\ ToSet(line) \subseteq Slots \ {r} /\ IsInjective(line)
                        /\ q.conns[j].state # "up" => line = <<>>
                        /\ \A i \in DOMAIN line :
                             /\ Locking(q.reqs[line[i]]) /\ q.reqs[line[i]].conn = j
                             /\ i # 1 => q.reqs[line[i]].stage = "lock"
      BY <2>9 DEF Queued
    <3>1. /\ ToSet(p.conns[j].queue) \subseteq Slots /\ IsInjective(p.conns[j].queue)
          /\ p.conns[j].state # "up" => p.conns[j].queue = <<>>
          /\ \A i \in DOMAIN p.conns[j].queue :
               /\ Locking(p.reqs[p.conns[j].queue[i]])
               /\ p.reqs[p.conns[j].queue[i]].conn = j
               /\ i # 1 => p.reqs[p.conns[j].queue[i]].stage = "lock"
      BY <1>1, SMTT(60) DEF Queued
    <3>2. CASE j # k
      <4>1. r \notin ToSet(p.conns[j].queue)
        BY <1>3, <3>2
      <4> QED
        BY <2>9, <3>1, <3>2, <4>1
    <3>3. CASE j = k
      <4>1. q.conns[j] = conn
        BY <2>9, <3>3
      <4>2. ToSet(queue) \subseteq Slots \ {r}
        BY <2>3, <2>4, <3>1, <3>3, SMTT(60)
      <4>3. ASSUME NEW i \in DOMAIN queue
            PROVE  /\ Locking(q.reqs[queue[i]]) /\ q.reqs[queue[i]].conn = k
                   /\ i # 1 => q.reqs[queue[i]].stage = "lock"
        <5>1. i + 1 \in DOMAIN old /\ i + 1 # 1 /\ queue[i] = old[i + 1]
          BY <2>4, <4>3
        <5> QED
          BY <2>3, <2>9, <3>1, <3>3, <5>1
      <4> QED
        BY <2>4, <2>6, <3>3, <4>1, <4>2, <4>3
    <3> QED
      BY <3>2, <3>3
  <2>14. Solid(q, Slots \ {r})
    BY <2>9, <2>10, <2>12, <2>13 DEF Solid
  <2> QED
    BY <2>8, <2>14
<1> QED
  BY <1>4, <1>5

(***************************************************************************)
(* A request under the lock goes on                                        *)
(***************************************************************************)

\* What a request's next stage leaves as it is.
LEMMA Moves ==
    ASSUME NEW p, Solid(p, Slots), NEW r \in Slots, Locking(p.reqs[r]),
           NEW req \in Requests, Fits(p, req), Locking(req), req.stage # "lock",
           req.conn = p.reqs[r].conn, NEW q, q = WithReq(p, r, req), InPlace(q, r)
    PROVE  Solid(q, Slots)
<1>1. p \in Memories /\ Linked(p) /\ Queued(p, Slots)
  BY DEF Solid
<1>2. /\ q \in Memories /\ q.clients = p.clients /\ q.clientId = p.clientId
      /\ q.made = p.made /\ q.conns = p.conns
      /\ q.reqs[r] = req /\ \A s \in Slots \ {r} : q.reqs[s] = p.reqs[s]
  BY <1>1, WithReqIs
<1>3. Linked(q)
  BY <1>1, <1>2 DEF Linked
<1>4. \A s \in Slots : q.reqs[s].conn = p.reqs[s].conn
  BY <1>2
<1>5. ASSUME NEW s \in Slots
      PROVE  /\ Fits(q, q.reqs[s])
             /\ Locking(q.reqs[s]) => InPlace(q, s)
             /\ q.reqs[s].stage = "connect" => Alone(q, Slots, s)
  <2>1. CASE s = r
    <3>1. Fits(q, req)
      BY <1>2 DEF Fits
    <3>2. req.stage # "connect"
      BY DEF Locking, Holding
    <3> QED
      BY <1>2, <2>1, <3>1, <3>2
  <2>2. CASE s # r
    <3>1. /\ q.reqs[s] = p.reqs[s]
          /\ Fits(p, p.reqs[s]) /\ (Locking(p.reqs[s]) => InPlace(p, s))
          /\ (p.reqs[s].stage = "connect" => Alone(p, Slots, s))
      BY <1>2, <2>2 DEF Solid
    <3>2. Fits(q, p.reqs[s])
      BY <1>2, <3>1 DEF Fits
    <3>3. Locking(p.reqs[s]) => InPlace(q, s)
      BY <1>2, <3>1 DEF InPlace
    <3>4. p.reqs[s].stage = "connect" => Alone(q, Slots, s)
      BY <1>2, <1>4, <3>1 DEF Alone
    <3> QED
      BY <3>1, <3>2, <3>3, <3>4
  <2> QED
    BY <2>1, <2>2
<1>6. Queued(q, Slots)
  <2> SUFFICES ASSUME NEW k \in DOMAIN q.conns
               PROVE  LET line == q.conns[k].queue IN
                      /\ ToSet(line) \subseteq Slots /\ IsInjective(line)
                      /\ q.conns[k].state # "up" => line = <<>>
                      /\ \A i \in DOMAIN line :
                           /\ Locking(q.reqs[line[i]]) /\ q.reqs[line[i]].conn = k
                           /\ i # 1 => q.reqs[line[i]].stage = "lock"
    BY Zenon DEF Queued
  <2>1. PICK line : line = q.conns[k].queue
    OBVIOUS
  <2>2. k \in DOMAIN p.conns /\ line = p.conns[k].queue /\ q.conns[k] = p.conns[k]
    BY <1>2, <2>1
  <2>3. /\ ToSet(line) \subseteq Slots /\ IsInjective(line)
        /\ q.conns[k].state # "up" => line = <<>>
        /\ \A i \in DOMAIN line : /\ Locking(p.reqs[line[i]]) /\ p.reqs[line[i]].conn = k
                                  /\ i # 1 => p.reqs[line[i]].stage = "lock"
    BY <1>1, <2>2, Zenon DEF Queued
  <2>4. ASSUME NEW i \in DOMAIN line
        PROVE  /\ Locking(q.reqs[line[i]]) /\ q.reqs[line[i]].conn = k
               /\ i # 1 => q.reqs[line[i]].stage = "lock"
    <3>1. line[i] \in Slots
      BY <2>3 DEF ToSet
    <3>2. CASE line[i] # r
      BY <1>2, <2>3, <3>1, <3>2
    <3>3. CASE line[i] = r
      <4>1. Locking(q.reqs[r]) /\ q.reqs[r].conn = k
        BY <1>2, <1>4, <2>3, <3>3
      <4>2. q.conns[k].state = "up"
        BY <2>3
      <4>3. Head(line) = r
        BY <1>2, <2>1, <4>1, <4>2 DEF InPlace
      <4>4. line \in Seq(Slots) /\ line # <<>>
        <5>1. q.conns[k] \in Conns
          BY <1>2, MemoryFields
        <5>2. DOMAIN <<>> = {}
          OBVIOUS
        <5> QED
          BY <2>1, <5>1, <5>2 DEF Conns
      <4>5. 1 \in DOMAIN line /\ line[1] = r
        BY <4>3, <4>4
      <4>6. i = 1
        BY <2>3, <3>3, <4>5 DEF IsInjective
      <4> QED
        BY <3>3, <4>1, <4>6
    <3> QED
      BY <3>2, <3>3
  <2> QED
    BY <2>1, <2>3, <2>4, Zenon
<1> QED
  BY <1>2, <1>3, <1>5, <1>6 DEF Solid

Select(p, k, folder) == [p EXCEPT !.conns[k].folder = folder]

\* The holder of the lock, which has not sent a command yet, selects its folder.
LEMMA SelectSolid ==
    ASSUME NEW p, Solid(p, Slots), NEW k \in DOMAIN p.conns, p.conns[k].queue # <<>>,
           p.reqs[Head(p.conns[k].queue)].stage = "lock", NEW folder \in Folders \cup {None},
           NEW q, q = Select(p, k, folder)
    PROVE  /\ Solid(q, Slots)
           /\ q.clients = p.clients /\ q.clientId = p.clientId
           /\ q.made = p.made /\ q.reqs = p.reqs
           /\ DOMAIN q.conns = DOMAIN p.conns /\ q.conns[k].folder = folder
           /\ q.conns[k].queue = p.conns[k].queue /\ q.conns[k].state = p.conns[k].state
<1>1. p \in Memories /\ Linked(p) /\ Queued(p, Slots)
  BY DEF Solid
<1>2. p.conns[k] \in Conns
  BY <1>1, MemoryFields
<1>3. PICK conn : conn = [p.conns[k] EXCEPT !.folder = folder]
  OBVIOUS
<1>4. /\ conn \in Conns /\ conn.state = p.conns[k].state /\ conn.queue = p.conns[k].queue
      /\ conn.folder = folder
  BY <1>2, <1>3 DEF Conns
<1>5. q = WithConn(p, k, conn)
  BY <1>3 DEF Select, WithConn
<1>6. /\ q \in Memories /\ q.clients = p.clients /\ q.clientId = p.clientId
      /\ q.made = p.made /\ q.reqs = p.reqs
      /\ DOMAIN q.conns = DOMAIN p.conns /\ Len(q.conns) = Len(p.conns)
      /\ q.conns[k] = conn
      /\ \A j \in DOMAIN p.conns : j # k => q.conns[j] = p.conns[j]
  BY <1>1, <1>4, <1>5, WithConnIs
<1>7. \A j \in DOMAIN p.conns : /\ q.conns[j].queue = p.conns[j].queue
                                /\ q.conns[j].state = p.conns[j].state
  BY <1>4, <1>6
<1>8. Linked(q)
  BY <1>1, <1>6 DEF Linked
<1>9. ASSUME NEW s \in Slots
      PROVE  /\ Fits(q, q.reqs[s])
             /\ Locking(q.reqs[s]) => InPlace(q, s)
             /\ q.reqs[s].stage = "connect" => Alone(q, Slots, s)
  <2>1. /\ q.reqs[s] = p.reqs[s]
        /\ Fits(p, p.reqs[s]) /\ (Locking(p.reqs[s]) => InPlace(p, s))
        /\ (p.reqs[s].stage = "connect" => Alone(p, Slots, s))
    BY <1>6 DEF Solid
  <2>2. Fits(q, p.reqs[s])
    BY <1>6, <2>1 DEF Fits
  <2>3. p.reqs[s].conn # 0 => p.reqs[s].conn \in DOMAIN p.conns
    BY <1>1, <2>1, MemoryFields DEF Fits
  <2>4. Locking(p.reqs[s]) => InPlace(q, s)
    <3> SUFFICES ASSUME Locking(p.reqs[s]) PROVE InPlace(q, s)
      BY SMTT(60)
    <3>1. InPlace(p, s) /\ p.reqs[s].conn \in DOMAIN p.conns
      BY <2>1, <2>3 DEF InPlace
    <3>2. CASE p.reqs[s].conn # k
      BY <1>6, <2>1, <3>1, <3>2, InPlaceKeeps
    <3>3. CASE p.reqs[s].conn = k
      <4>1. p.conns[k].state # "gone" => p.reqs[s].stage = "lock"
        BY <3>1, <3>3 DEF InPlace
      <4> QED
        BY <1>4, <1>6, <2>1, <3>1, <3>3, <4>1 DEF InPlace
    <3> QED
      BY <3>2, <3>3
  <2>5. p.reqs[s].stage = "connect" => Alone(q, Slots, s)
    BY <1>6, <1>7, <2>1, <2>3 DEF Alone, Fits
  <2> QED
    BY <2>1, <2>2, <2>4, <2>5
<1>10. Queued(q, Slots)
  <2> SUFFICES ASSUME NEW j \in DOMAIN q.conns
               PROVE  LET line == q.conns[j].queue IN
                      /\ ToSet(line) \subseteq Slots /\ IsInjective(line)
                      /\ q.conns[j].state # "up" => line = <<>>
                      /\ \A i \in DOMAIN line :
                           /\ Locking(q.reqs[line[i]]) /\ q.reqs[line[i]].conn = j
                           /\ i # 1 => q.reqs[line[i]].stage = "lock"
    BY Zenon DEF Queued
  <2>1. PICK line : line = p.conns[j].queue
    OBVIOUS
  <2>2. j \in DOMAIN p.conns
    BY <1>6
  <2>3. q.conns[j].queue = line /\ q.conns[j].state = p.conns[j].state
    BY <1>7, <2>1, <2>2
  <2>4. /\ ToSet(line) \subseteq Slots /\ IsInjective(line)
        /\ p.conns[j].state # "up" => line = <<>>
        /\ \A i \in DOMAIN line : /\ Locking(p.reqs[line[i]]) /\ p.reqs[line[i]].conn = j
                                  /\ i # 1 => p.reqs[line[i]].stage = "lock"
    BY <1>1, <2>1, <2>2, Zenon DEF Queued
  <2>5. q.reqs = p.reqs
    BY <1>6
  <2> QED
    BY <2>3, <2>4, <2>5, Zenon
<1>11. Solid(q, Slots)
  BY <1>6, <1>8, <1>9, <1>10 DEF Solid
<1> QED
  BY <1>4, <1>6, <1>11

\* Fewer clients, and what a client remembers, make no difference to requests.
LEMMA Alike ==
    ASSUME NEW p, NEW R, Solid(p, R), NEW q \in Memories,
           q.conns = p.conns, q.reqs = p.reqs, q.clientId = p.clientId,
           DOMAIN q.clients \subseteq DOMAIN p.clients,
           \A i \in DOMAIN q.clients : q.clients[i] = p.clients[i],
           DOMAIN q.made = DOMAIN p.made,
           \A c \in DOMAIN p.made : q.made[c].conn = p.made[c].conn
    PROVE  Solid(q, R)
<1>1. Linked(q)
  BY DEF Solid, Linked
<1>2. ASSUME NEW s \in R
      PROVE  /\ Fits(q, q.reqs[s])
             /\ Locking(q.reqs[s]) => InPlace(q, s)
             /\ q.reqs[s].stage = "connect" => Alone(q, R, s)
  <2>1. /\ Fits(p, p.reqs[s]) /\ (Locking(p.reqs[s]) => InPlace(p, s))
        /\ (p.reqs[s].stage = "connect" => Alone(p, R, s))
    BY DEF Solid
  <2>2. Locking(p.reqs[s]) => p.reqs[s].client \in DOMAIN p.made
    BY <2>1 DEF Fits, Locking, Holding
  <2>3. Fits(q, p.reqs[s])
    BY <2>1 DEF Fits
  <2>4. Locking(p.reqs[s]) => InPlace(q, s)
    BY <2>1, <2>2, InPlaceKeeps
  <2> QED
    BY <2>1, <2>3, <2>4 DEF Alone
<1>3. Queued(q, R)
  BY DEF Solid, Queued
<1> QED
  BY <1>1, <1>2, <1>3 DEF Solid

(***************************************************************************)
(* What an account needs to last                                           *)
(***************************************************************************)

\* The clients of p are there, for their mailboxes, and nobody more is deleting
\* any of them.
Keeps(p, q) ==
    /\ \A i \in DOMAIN p.clients : i \in DOMAIN q.clients /\ q.clients[i] = p.clients[i]
    /\ \A c \in DOMAIN p.made : c \in DOMAIN q.made /\ q.made[c].email = p.made[c].email
    /\ \A s \in Slots : q.reqs[s].id \in {p.reqs[s].id, 0}

LEMMA KeepsSame ==
    ASSUME NEW p, NEW q, q.clients = p.clients, q.made = p.made, q.reqs = p.reqs
    PROVE  Keeps(p, q)
  BY DEF Keeps

LEMMA KeepsOn ==
    ASSUME NEW p, NEW m, NEW q, Keeps(p, m), Keeps(m, q)
    PROVE  Keeps(p, q)
<1>1. \A i \in DOMAIN p.clients : i \in DOMAIN q.clients /\ q.clients[i] = p.clients[i]
  BY DEF Keeps
<1>2. \A c \in DOMAIN p.made : c \in DOMAIN q.made /\ q.made[c].email = p.made[c].email
  BY DEF Keeps
<1>3. \A s \in Slots : q.reqs[s].id \in {p.reqs[s].id, 0}
  BY DEF Keeps
<1> QED
  BY <1>1, <1>2, <1>3 DEF Keeps

\* Who holds on to a mailbox goes on to.
LEMMA KeepsHolds ==
    ASSUME NEW p, Linked(p), NEW q, Keeps(p, q), NEW email, Holds(p, email)
    PROVE  Holds(q, email)
<1>1. PICK i \in DOMAIN p.clients : /\ p.made[p.clients[i]].email = email
                                    /\ \A r \in Slots : p.reqs[r].id # i
  BY DEF Holds
<1>2. p.clients[i] \in DOMAIN p.made /\ i # 0
  BY DEF Linked
<1>3. i \in DOMAIN q.clients /\ q.made[q.clients[i]].email = email
  BY <1>1, <1>2 DEF Keeps
<1>4. \A r \in Slots : q.reqs[r].id # i
  BY <1>1, <1>2 DEF Keeps
<1> QED
  BY <1>3, <1>4 DEF Holds

LEMMA HeldIsThere ==
    ASSUME NEW p, NEW email, Holds(p, email)
    PROVE  email \in EmailsOf(p)
  BY DEF Holds, EmailsOf

LEMMA WithReqKeeps ==
    ASSUME NEW p \in Memories, NEW r \in Slots, NEW req \in Requests,
           req.id \in {p.reqs[r].id, 0}, NEW q, q = WithReq(p, r, req)
    PROVE  Keeps(p, q)
  BY WithReqIs DEF Keeps

LEMMA ReplyAllKeeps ==
    ASSUME NEW p \in Memories, NEW R \in SUBSET Slots
    PROVE  Keeps(p, ReplyAll(p, R))
<1>1. PICK q : q = ReplyAll(p, R)
  OBVIOUS
<1>2. /\ q.clients = p.clients /\ q.made = p.made
      /\ \A s \in Slots : q.reqs[s] = Idle \/ (q.reqs[s] = p.reqs[s] /\ s \notin R)
  BY <1>1, ReplyAllIs
<1>3. \A s \in Slots : q.reqs[s].id \in {p.reqs[s].id, 0}
  BY <1>2, IdleFits
<1>4. Keeps(p, q)
  BY <1>2, <1>3 DEF Keeps
<1> QED
  BY <1>1, <1>4

LEMMA ReplyKeeps ==
    ASSUME NEW p \in Memories, NEW r \in Slots
    PROVE  Keeps(p, Reply(p, r))
  BY ReplyAllKeeps DEF Reply

LEMMA EndedKeeps ==
    ASSUME NEW p \in Memories, NEW k \in DOMAIN p.conns
    PROVE  Keeps(p, Ended(p, k))
<1>1. p.conns[k] \in Conns /\ <<>> \in Seq(Slots)
  BY MemoryFields
<1>2. GoneConn(p.conns[k]) \in Conns
  BY <1>1 DEF GoneConn, Conns
<1>3. PICK q : q = WithConn(p, k, GoneConn(p.conns[k]))
  OBVIOUS
<1>4. Ended(p, k) = ReplyAll(q, Struck(p, k))
  <2>1. [p EXCEPT !.conns[k].state = "gone", !.conns[k].queue = <<>>] = q
    BY <1>1, <1>3 DEF WithConn, GoneConn, Memories
  <2> QED
    BY <2>1 DEF Ended, Struck
<1>5. q \in Memories /\ q.clients = p.clients /\ q.made = p.made /\ q.reqs = p.reqs
  BY <1>2, <1>3, WithConnIs
<1>6. Keeps(p, q)
  BY <1>5, KeepsSame
<1>7. Keeps(q, ReplyAll(q, Struck(p, k)))
  BY <1>5, ReplyAllKeeps DEF Struck
<1> QED
  BY <1>4, <1>6, <1>7, KeepsOn

LEMMA ReleaseKeeps ==
    ASSUME NEW p \in Memories, NEW r \in Slots
    PROVE  Keeps(p, Release(p, r))
<1>1. Keeps(p, p)
  BY KeepsSame
<1>2. PICK k : k = p.reqs[r].conn
  OBVIOUS
<1>3. PICK q : q = [p EXCEPT !.conns[k].queue = Tail(p.conns[k].queue)]
  OBVIOUS
<1>4. q.clients = p.clients /\ q.made = p.made /\ q.reqs = p.reqs
  BY <1>3 DEF Memories
<1>5. Keeps(p, q)
  BY <1>4, KeepsSame
<1>6. Release(p, r) \in {p, q}
  BY <1>2, <1>3 DEF Release
<1> QED
  BY <1>1, <1>5, <1>6

LEMMA EnsuredKeeps ==
    ASSUME NEW p \in Memories, NEW r \in Slots
    PROVE  Keeps(p, Ensured(p, r))
<1>1. Keeps(p, Reply(p, r))
  BY ReplyKeeps
<1>2. Keeps(p, Run(p, r, "command"))
  <2>1. PICK q, k : k = ConnOf(p, r) /\ q = [p EXCEPT !.reqs[r].stage = "command", !.reqs[r].on = k]
    OBVIOUS
  <2>2. q.clients = p.clients /\ q.made = p.made /\ \A s \in Slots : q.reqs[s].id = p.reqs[s].id
    BY <2>1 DEF Memories, Requests
  <2>3. Keeps(p, q)
    BY <2>2 DEF Keeps
  <2> QED
    BY <2>1, <2>3 DEF Run, ConnOf
<1>3. Keeps(p, Enter(p, r, ConnOf(p, r)))
  <2>1. PICK q, k : k = ConnOf(p, r) /\ q = Enter(p, r, k)
    OBVIOUS
  <2>2. q.clients = p.clients /\ q.made = p.made /\ \A s \in Slots : q.reqs[s].id = p.reqs[s].id
    BY <2>1 DEF Enter, Memories, Requests
  <2>3. Keeps(p, q)
    BY <2>2 DEF Keeps
  <2> QED
    BY <2>1, <2>3
<1>4. Ensured(p, r) \in {Reply(p, r), Run(p, r, "command"), Enter(p, r, ConnOf(p, r))}
  BY DEF Ensured, Enter, ConnOf
<1> QED
  BY <1>1, <1>2, <1>3, <1>4

LEMMA EnsureConnectedKeeps ==
    ASSUME NEW p \in Memories, NEW r \in Slots
    PROVE  Keeps(p, EnsureConnected(p, r))
<1>1. PICK k, c, q : /\ k = Len(p.conns) + 1 /\ c = p.reqs[r].client
                     /\ q = [NewConn(p) EXCEPT !.made[c].conn = k,
                                               !.reqs[r].conn = k, !.reqs[r].stage = "connect"]
  OBVIOUS
<1>2. PICK n : n = NewConn(p)
  OBVIOUS
<1>3. n \in Memories /\ n.clients = p.clients /\ n.made = p.made /\ n.reqs = p.reqs
  BY <1>2, NewConnIs
<1>4. q = [n EXCEPT !.made[c].conn = k, !.reqs[r].conn = k, !.reqs[r].stage = "connect"]
  BY <1>1, <1>2
<1>5. p.made \in Seq(Mades)
  BY MemoryFields
<1>6. q.clients = n.clients /\ q.made = [n.made EXCEPT ![c].conn = k]
      /\ \A s \in Slots : q.reqs[s].id = n.reqs[s].id
  BY <1>3, <1>4, SMTT(60) DEF Memories, Requests
<1>7. \A d \in DOMAIN p.made : d \in DOMAIN q.made /\ q.made[d].email = p.made[d].email
  BY <1>3, <1>5, <1>6 DEF Mades
<1>8. Keeps(p, q)
  BY <1>3, <1>6, <1>7 DEF Keeps
<1>9. EnsureConnected(p, r) \in {Ensured(p, r), q}
  BY <1>1 DEF EnsureConnected
<1> QED
  BY <1>8, <1>9, EnsuredKeeps

LEMMA NewClientKeeps ==
    ASSUME NEW p \in Memories, NEW email \in Emails
    PROVE  Keeps(p, NewClient(p, email)) /\ NewClient(p, email) \in Memories
<1>1. PICK q : q = NewClient(p, email)
  OBVIOUS
<1>2. q \in Memories /\ q.clients = p.clients /\ q.reqs = p.reqs
  BY <1>1, NewClientIs
<1>3. DOMAIN q.made = 1 .. Len(p.made) + 1 /\ DOMAIN p.made = 1 .. Len(p.made)
      /\ \A c \in DOMAIN p.made : q.made[c] = p.made[c]
  BY <1>1, NewClientIs
<1>4. \A c \in DOMAIN p.made : c \in DOMAIN q.made
  BY <1>3, MemoryFields
<1>5. Keeps(p, q)
  BY <1>2, <1>3, <1>4 DEF Keeps
<1> QED
  BY <1>1, <1>2, <1>5

LEMMA NextLineKeeps ==
    ASSUME NEW p \in Memories, NEW r \in Slots
    PROVE  Keeps(p, NextLine(p, r))
<1>1. CASE NextLine(p, r) = Reply(p, r)
  BY <1>1, ReplyKeeps
<1>2. CASE NextLine(p, r) # Reply(p, r)
  <2>1. PICK email \in Emails, req \in Requests, mid \in Requests :
                /\ NextLine(p, r) = WithReq(NewClient(WithReq(p, r, mid), email), r, req)
                /\ req.id = p.reqs[r].id
    BY <1>2, NextLineIs
  <2>2. PICK m, n : m = WithReq(p, r, mid) /\ n = NewClient(m, email)
    OBVIOUS
  <2>3. PICK q : q = WithReq(n, r, req)
    OBVIOUS
  <2>4. m \in Memories /\ m.clients = p.clients /\ m.made = p.made
        /\ \A s \in Slots \ {r} : m.reqs[s] = p.reqs[s]
    BY <2>2, WithReqIs
  <2>5. n \in Memories /\ Keeps(m, n) /\ n.reqs = m.reqs
    BY <2>2, <2>4, NewClientKeeps, NewClientIs
  <2>6. n \in Memories
    BY <2>5
  <2>7. q.clients = n.clients /\ q.made = n.made /\ q.reqs[r] = req
        /\ \A s \in Slots \ {r} : q.reqs[s] = n.reqs[s]
    BY <2>3, <2>6, WithReqIs, SMTT(60)
  <2>8. \A i \in DOMAIN p.clients : i \in DOMAIN q.clients /\ q.clients[i] = p.clients[i]
    BY <2>4, <2>5, <2>7 DEF Keeps
  <2>9. \A c \in DOMAIN p.made : c \in DOMAIN q.made /\ q.made[c].email = p.made[c].email
    BY <2>4, <2>5, <2>7 DEF Keeps
  <2>10. \A s \in Slots : q.reqs[s].id \in {p.reqs[s].id, 0}
    BY <2>1, <2>4, <2>5, <2>7
  <2>11. Keeps(p, q)
    BY <2>8, <2>9, <2>10 DEF Keeps
  <2> QED
    BY <2>1, <2>2, <2>3, <2>11
<1> QED
  BY <1>1, <1>2

LEMMA RegisteredKeeps ==
    ASSUME NEW p \in Memories, Linked(p), NEW r \in Slots, p.reqs[r].client \in DOMAIN p.made
    PROVE  Keeps(p, Registered(p, r))
<1>1. PICK q : q = Registered(p, r)
  OBVIOUS
<1>2. DOMAIN q.clients = DOMAIN p.clients \cup {p.clientId + 1}
  BY <1>1, RegisteredIs
<1>3. \A i \in DOMAIN p.clients : i # p.clientId + 1 /\ q.clients[i] = p.clients[i]
  BY <1>1, RegisteredIs
<1>4. q.made = p.made
  BY <1>1, RegisteredIs
<1>5. q.reqs[r].id = p.reqs[r].id
  BY <1>1, RegisteredIs
<1>6. \A s \in Slots \ {r} : q.reqs[s] = p.reqs[s]
  BY <1>1, RegisteredIs
<1>7. \A s \in Slots : q.reqs[s].id = p.reqs[s].id
  BY <1>5, <1>6
<1>8. Keeps(p, q)
  BY <1>2, <1>3, <1>4, <1>7 DEF Keeps
<1> QED
  BY <1>1, <1>8

(***************************************************************************)
(* What save writes                                                        *)
(***************************************************************************)

Rank(D, i) == Cardinality({j \in D : j <= i})
Nth(D, n)  == CHOOSE i \in D : Rank(D, i) = n

\* The ranks of the ids number them without a gap.
LEMMA RankIs ==
    ASSUME NEW D \in SUBSET Nat, IsFiniteSet(D)
    PROVE  /\ \A i \in D : Rank(D, i) \in 1 .. Cardinality(D)
           /\ \A i, k \in D : Rank(D, i) = Rank(D, k) => i = k
           /\ \A n \in 1 .. Cardinality(D) : Nth(D, n) \in D
           /\ \A i \in D : Nth(D, Rank(D, i)) = i
<1>1. Cardinality(D) \in Nat
  BY FS_CardinalityType
<1>2. ASSUME NEW i \in D PROVE Rank(D, i) \in 1 .. Cardinality(D)
  <2>1. PICK S \in SUBSET D : S = {j \in D : j <= i}
    OBVIOUS
  <2>2. i \in S
    BY <2>1
  <2>3. IsFiniteSet(S) /\ Cardinality(S) <= Cardinality(D)
    BY FS_Subset
  <2>4. Cardinality(S) \in Nat /\ Cardinality(S) # 0
    BY <2>2, <2>3, FS_CardinalityType, FS_EmptySet
  <2> QED
    BY <1>1, <2>1, <2>3, <2>4 DEF Rank
<1>3. ASSUME NEW i \in D, NEW k \in D, i < k PROVE Rank(D, i) # Rank(D, k)
  <2>1. PICK S \in SUBSET D, T \in SUBSET D : S = {j \in D : j <= i} /\ T = {j \in D : j <= k}
    OBVIOUS
  <2>2. i \in Nat /\ k \in Nat /\ ~(k <= i)
    BY <1>3
  <2>3. \A j \in S : j \in D /\ j \in Nat /\ j <= i /\ j <= k
    BY <1>3, <2>1, <2>2
  <2>4. S \in SUBSET T /\ k \in T /\ k \notin S
    <3>1. \A j \in S : j \in T
      BY <2>1, <2>3
    <3>2. k <= k
      BY <2>2
    <3>3. k \in T /\ k \notin S
      BY <2>1, <2>2, <3>2
    <3> QED
      BY <3>1, <3>3
  <2>5. IsFiniteSet(T)
    BY FS_Subset
  <2>6. Cardinality(T) # Cardinality(S)
    BY <2>4, <2>5, FS_Subset
  <2> QED
    BY <2>1, <2>6 DEF Rank
<1>4. \A i, k \in D : Rank(D, i) = Rank(D, k) => i = k
  <2> SUFFICES ASSUME NEW i \in D, NEW k \in D, i # k PROVE Rank(D, i) # Rank(D, k)
    OBVIOUS
  <2>1. i < k \/ k < i
    OBVIOUS
  <2> QED
    BY <1>3, <2>1
<1>5. ASSUME NEW n \in 1 .. Cardinality(D) PROVE \E i \in D : Rank(D, i) = n
  <2>1. PICK f : f = [i \in D |-> Rank(D, i)]
    OBVIOUS
  <2>2. f \in [D -> 1 .. Cardinality(D)] /\ \A i, k \in D : f[i] = f[k] => i = k
    BY <1>2, <1>4, <2>1
  <2>3. f \in Injection(D, 1 .. Cardinality(D))
    BY <2>2 DEF Injection, IsInjective
  <2>4. IsFiniteSet(1 .. Cardinality(D)) /\ Cardinality(1 .. Cardinality(D)) = Cardinality(D)
    BY <1>1, FS_Interval
  <2>5. f \in Surjection(D, 1 .. Cardinality(D))
    BY <2>3, <2>4, FS_Injection
  <2>6. \E i \in D : f[i] = n
    BY <2>5 DEF Surjection
  <2> QED
    BY <2>1, <2>6
<1>6. \A n \in 1 .. Cardinality(D) : Nth(D, n) \in D
  BY <1>5 DEF Nth
<1>7. ASSUME NEW i \in D PROVE Nth(D, Rank(D, i)) = i
  <2>1. PICK w : w = CHOOSE j \in D : Rank(D, j) = Rank(D, i)
    OBVIOUS
  <2>2. w \in D /\ Rank(D, w) = Rank(D, i)
    BY <2>1
  <2>3. w = i
    BY <1>4, <2>2
  <2> QED
    BY <2>1, <2>3 DEF Nth
<1> QED
  BY <1>2, <1>4, <1>6, <1>7

\* The file gets a sequence of mailboxes, those of all clients.
LEMMA SavedIs ==
    ASSUME NEW p \in Memories, Linked(p)
    PROVE  Saved(p) \in Seq(Emails) /\ EmailsOf(p) \subseteq ToSet(Saved(p))
<1>1. PICK D \in SUBSET Nat : p.clients \in [D -> Nat]
  BY MemoryFields DEF Maps
<1>2. p.clientId \in Nat /\ p.made \in Seq(Mades)
  BY MemoryFields
<1>3. /\ DOMAIN p.clients = D
      /\ \A i \in D : i \in 1 .. p.clientId /\ p.clients[i] \in DOMAIN p.made
  BY <1>1 DEF Linked
<1>4. IsFiniteSet(D)
  <2>1. p.clientId \in Int /\ 1 \in Int
    BY <1>2
  <2>2. IsFiniteSet(1 .. p.clientId)
    BY <2>1, FS_Interval
  <2>3. D \in SUBSET (1 .. p.clientId)
    BY <1>3
  <2> QED
    BY <2>2, <2>3, FS_Subset
<1>5. PICK N \in Nat : N = Cardinality(D)
  BY <1>4, FS_CardinalityType
<1>6. PICK s : s = [n \in 1 .. N |-> p.made[p.clients[Nth(D, n)]].email]
  OBVIOUS
<1>7. Saved(p) = s
  BY <1>3, <1>5, <1>6 DEF Saved, Nth, Rank
<1>8. ASSUME NEW i \in D PROVE p.made[p.clients[i]].email \in Emails
  <2>1. PICK c : c = p.clients[i]
    OBVIOUS
  <2>2. c \in DOMAIN p.made
    BY <1>3, <2>1
  <2>3. p.made[c] \in Mades
    BY <1>2, <2>2
  <2> QED
    BY <2>1, <2>3 DEF Mades
<1>9. s \in Seq(Emails)
  <2>1. \A n \in 1 .. N : Nth(D, n) \in D
    BY <1>4, <1>5, RankIs
  <2>2. \A n \in 1 .. N : s[n] \in Emails
    BY <1>6, <1>8, <2>1
  <2> QED
    BY <1>6, <2>2
<1>10. ASSUME NEW i \in D PROVE p.made[p.clients[i]].email \in ToSet(s)
  <2>1. Rank(D, i) \in 1 .. N
    BY <1>4, <1>5, RankIs
  <2>2. Nth(D, Rank(D, i)) = i
    BY <1>4, RankIs
  <2>3. s[Rank(D, i)] = p.made[p.clients[i]].email /\ Rank(D, i) \in DOMAIN s
    BY <1>6, <2>1, <2>2
  <2> QED
    BY <2>3 DEF ToSet
<1>11. EmailsOf(p) \subseteq ToSet(s)
  BY <1>3, <1>10 DEF EmailsOf
<1> QED
  BY <1>7, <1>9, <1>11

(***************************************************************************)
(* Requests come in                                                        *)
(***************************************************************************)

\* The slot that is taken is free.
LEMMA IdleSlot ==
    ASSUME NEW p, Solid(p, Slots), \E s \in Slots : p.reqs[s].stage = "idle",
           NEW r, r = Min({s \in Slots : p.reqs[s].stage = "idle"})
    PROVE  r \in Slots /\ p.reqs[r] = Idle
<1>1. PICK S : S = {s \in Slots : p.reqs[s].stage = "idle"}
  OBVIOUS
<1>2. S \in SUBSET Nat /\ S # {}
  BY <1>1, BridgeAssumption
<1>3. r \in S
  BY <1>1, <1>2, MinIs
<1>4. r \in Slots /\ p.reqs[r].stage = "idle"
  BY <1>1, <1>3
<1> QED
  BY <1>4 DEF Solid, Fits

\* A request that comes in is left out at first.
LEMMA Taken ==
    ASSUME NEW p, Solid(p, Slots), NEW r \in Slots, p.reqs[r] = Idle,
           NEW req \in Requests, req.conn = 0, req.id = 0, req.fresh = {},
           NEW q, q = WithReq(p, r, req)
    PROVE  /\ Solid(q, Slots \ {r}) /\ Solid(p, Slots \ {r})
           /\ q.made = p.made /\ q.conns = p.conns /\ q.clientId = p.clientId
           /\ q.reqs[r] = req /\ Going(q, r, {req.kind}) /\ Keeps(p, q)
<1>1. p \in Memories
  BY DEF Solid
<1>2. /\ q.made = p.made /\ q.conns = p.conns /\ q.clientId = p.clientId
      /\ q.reqs[r] = req /\ \A s \in Slots \ {r} : q.reqs[s] = p.reqs[s]
  BY <1>1, WithReqIs
<1>3. Solid(p, Slots \ {r})
  BY IdleFits, Loosen
<1>4. Solid(q, Slots \ {r})
  BY <1>3, Rewrite
<1>5. 0 \in 0 .. q.clientId /\ 0 \in 0 .. Len(q.conns)
  BY <1>1, <1>2, MemoryFields
<1>6. \A s \in Slots \ {r} : q.reqs[s].stage = "connect" => q.reqs[s].conn # 0
  BY <1>4 DEF Solid, Fits
<1>7. Going(q, r, {req.kind})
  BY <1>2, <1>5, <1>6 DEF Going
<1>8. Keeps(p, q)
  BY <1>1, WithReqKeeps
<1> QED
  BY <1>2, <1>3, <1>4, <1>7, <1>8

\* A mail route is called.
LEMMA UseMailGoes ==
    ASSUME Solid(bridge, Slots), NEW kind \in {"one", "read"}, NEW id, NEW f \in Folders,
           UseMail(kind, id, f)
    PROVE  Solid(bridge', Slots) /\ Keeps(bridge, bridge')
<1>1. PICK p, r, c : /\ p = bridge /\ c = bridge.clients[id]
                     /\ r = Min({s \in Slots : bridge.reqs[s].stage = "idle"})
  OBVIOUS
<1>2. PICK req : req = [Idle EXCEPT !.kind = kind, !.client = c, !.folder = f]
  OBVIOUS
<1>3. PICK q : q = WithReq(p, r, req)
  OBVIOUS
<1>4. bridge' = EnsureConnected(q, r) /\ id \in DOMAIN p.clients
      /\ \E s \in Slots : p.reqs[s].stage = "idle"
  BY <1>1, <1>2, <1>3 DEF UseMail, Asked, WithReq
<1>5. Solid(p, Slots) /\ p \in Memories /\ c \in DOMAIN p.made
  BY <1>1, <1>4 DEF Solid, Linked
<1>6. r \in Slots /\ p.reqs[r] = Idle
  BY <1>1, <1>4, <1>5, IdleSlot
<1>7. req \in Requests /\ req.kind = kind /\ req.client = c /\ req.conn = 0 /\ req.id = 0
      /\ req.fresh = {}
  <2>1. c \in Nat
    BY <1>5, MemoryFields
  <2> QED
    BY <1>2, <2>1, IdleFits DEF Requests, Idle, Kinds
<1>8. Solid(q, Slots \ {r})
  BY <1>3, <1>5, <1>6, <1>7, Taken
<1>9. Solid(q, Slots \ {r}) /\ q.made = p.made /\ q.reqs[r] = req
  BY <1>3, <1>5, <1>6, <1>7, <1>8, WithReqIs
<1>10. Going(q, r, {req.kind}) /\ Keeps(p, q)
  BY <1>3, <1>5, <1>6, <1>7, Taken
<1>11. Going(q, r, {"one", "read", "folders"}) /\ q.reqs[r].client \in DOMAIN q.made
  BY <1>5, <1>7, <1>9, <1>10 DEF Going
<1>12. Solid(EnsureConnected(q, r), Slots)
  BY <1>6, <1>9, <1>11, EnsureConnectedSolid
<1>13. Keeps(p, EnsureConnected(q, r))
  <2>1. Keeps(q, EnsureConnected(q, r))
    BY <1>6, <1>9, EnsureConnectedKeeps DEF Solid
  <2> QED
    BY <1>10, <2>1, KeepsOn
<1> QED
  BY <1>1, <1>4, <1>12, <1>13

\* The folder list is asked for, by the first request or another.
LEMMA GetFoldersGoes ==
    ASSUME Solid(bridge, Slots), NEW id, GetFolders(id)
    PROVE  Solid(bridge', Slots) /\ Keeps(bridge, bridge')
<1>1. PICK p, r, c : /\ p = bridge /\ c = bridge.clients[id]
                     /\ r = Min({s \in Slots : bridge.reqs[s].stage = "idle"})
  OBVIOUS
<1>2. PICK req : req = [Idle EXCEPT !.kind = "folders", !.client = c]
  OBVIOUS
<1>3. PICK q : q = WithReq(p, r, req)
  OBVIOUS
<1>4. /\ bridge' = EnsureConnected(q, r) \/ bridge' = [q EXCEPT !.reqs[r].stage = "shared"]
      /\ id \in DOMAIN p.clients /\ \E s \in Slots : p.reqs[s].stage = "idle"
  BY <1>1, <1>2, <1>3 DEF GetFolders, Asked, WithReq
<1>5. Solid(p, Slots) /\ p \in Memories /\ c \in DOMAIN p.made
  BY <1>1, <1>4 DEF Solid, Linked
<1>6. r \in Slots /\ p.reqs[r] = Idle
  BY <1>1, <1>4, <1>5, IdleSlot
<1>7. req \in Requests /\ req.kind = "folders" /\ req.client = c /\ req.conn = 0 /\ req.id = 0
      /\ req.fresh = {}
  <2>1. c \in Nat
    BY <1>5, MemoryFields
  <2> QED
    BY <1>2, <2>1, IdleFits DEF Requests, Idle, Kinds
<1>8. Solid(q, Slots \ {r}) /\ Solid(p, Slots \ {r})
  BY <1>3, <1>5, <1>6, <1>7, Taken
<1>9. Solid(q, Slots \ {r}) /\ q.made = p.made /\ q.reqs[r] = req /\ Solid(p, Slots \ {r})
  BY <1>3, <1>5, <1>6, <1>7, <1>8, WithReqIs
<1>10. Going(q, r, {req.kind}) /\ Keeps(p, q)
  BY <1>3, <1>5, <1>6, <1>7, Taken
<1>11. CASE bridge' = EnsureConnected(q, r)
  <2>1. Going(q, r, {"one", "read", "folders"}) /\ q.reqs[r].client \in DOMAIN q.made
    BY <1>5, <1>7, <1>9, <1>10 DEF Going
  <2>2. Solid(EnsureConnected(q, r), Slots)
    BY <1>6, <1>9, <2>1, EnsureConnectedSolid
  <2>3. Keeps(q, EnsureConnected(q, r))
    BY <1>6, <1>9, EnsureConnectedKeeps DEF Solid
  <2> QED
    BY <1>1, <1>10, <1>11, <2>2, <2>3, KeepsOn
<1>12. CASE bridge' = [q EXCEPT !.reqs[r].stage = "shared"]
  <2>1. PICK wait : wait = [req EXCEPT !.stage = "shared"]
    OBVIOUS
  <2>2. /\ wait \in Requests /\ wait.stage = "shared" /\ wait.kind = "folders"
        /\ wait.client = c /\ wait.conn = 0 /\ wait.id = 0 /\ wait.fresh = {}
    BY <1>7, <2>1 DEF Requests, Stages
  <2>3. bridge' = WithReq(p, r, wait)
    BY <1>3, <1>5, <1>6, <1>9, <1>12, <2>1 DEF WithReq, Memories
  <2>4. Fits(p, wait) /\ ~Locking(wait)
    <3>1. 0 \in 0 .. p.clientId /\ 0 \in 0 .. Len(p.conns)
      BY <1>5, MemoryFields
    <3> QED
      BY <1>5, <2>2, <3>1, KindsAre DEF Fits, Locking
  <2>5. \A s \in Slots \ {r} : p.reqs[s].stage = "connect" => p.reqs[s].conn # wait.conn
    BY <1>9, <2>2 DEF Solid, Fits
  <2>6. Solid(WithReq(p, r, wait), Slots)
    BY <1>6, <1>9, <2>2, <2>4, <2>5, Placed
  <2>7. Keeps(p, WithReq(p, r, wait))
    BY <1>5, <1>6, <2>2, WithReqKeeps
  <2> QED
    BY <1>1, <2>3, <2>6, <2>7
<1> QED
  BY <1>4, <1>11, <1>12

\* An account is added.
LEMMA AddAccountGoes ==
    ASSUME Solid(bridge, Slots), NEW email \in Emails, AddAccount(email)
    PROVE  Solid(bridge', Slots) /\ Keeps(bridge, bridge')
<1>1. PICK p, r : /\ p = bridge
                  /\ r = Min({s \in Slots : bridge.reqs[s].stage = "idle"})
  OBVIOUS
<1>2. PICK first : first = [Idle EXCEPT !.kind = "add"]
  OBVIOUS
<1>3. PICK m, n : m = WithReq(p, r, first) /\ n = NewClient(m, email)
  OBVIOUS
<1>4. PICK req : req = [n.reqs[r] EXCEPT !.stage = "connect", !.client = Len(n.made),
                                         !.conn = Len(n.conns)]
  OBVIOUS
<1>5. bridge' = WithReq(n, r, req) /\ \E s \in Slots : p.reqs[s].stage = "idle"
  BY <1>1, <1>2, <1>3, <1>4 DEF AddAccount, Asked, WithReq
<1>6. Solid(p, Slots) /\ p \in Memories
  BY <1>1 DEF Solid
<1>7. r \in Slots /\ p.reqs[r] = Idle
  BY <1>1, <1>5, <1>6, IdleSlot
<1>8. first \in Requests /\ first.kind = "add" /\ first.conn = 0 /\ first.id = 0
      /\ first.fresh = {}
  BY <1>2, IdleFits DEF Requests, Idle, Kinds
<1>9. m = WithReq(p, r, first) /\ n = NewClient(m, email)
  BY <1>3
<1>10. Solid(m, Slots \ {r}) /\ Keeps(p, m)
  BY <1>6, <1>7, <1>8, <1>9, Taken
<1>11. Solid(m, Slots \ {r}) /\ m.reqs[r] = first /\ Keeps(p, m)
  BY <1>6, <1>7, <1>8, <1>9, <1>10, WithReqIs
<1>12. m \in Memories /\ m.conns \in Seq(Conns) /\ m.made \in Seq(Mades) /\ m.clientId \in Nat
  BY <1>11, MemoryFields DEF Solid
<1>13. n \in Memories /\ n.reqs = m.reqs /\ Keeps(m, n)
  BY <1>9, <1>12, NewClientIs, NewClientKeeps
<1>14. Len(n.made) = Len(m.made) + 1 /\ Len(n.conns) = Len(m.conns) + 1
  <2>1. n.conns = Append(m.conns, Dialling)
    BY <1>9, <1>12, NewClientIs
  <2>2. DOMAIN n.made = 1 .. Len(m.made) + 1
    BY <1>9, <1>12, NewClientIs
  <2>3. n.made \in Seq(Mades)
    BY <1>13, MemoryFields
  <2>4. Len(n.conns) = Len(m.conns) + 1
    BY <1>12, <2>1
  <2> QED
    BY <1>12, <2>2, <2>3, <2>4
<1>15. /\ req \in Requests /\ req.stage = "connect" /\ req.kind = "add"
       /\ req.client = Len(m.made) + 1 /\ req.conn = Len(m.conns) + 1
       /\ req.id = 0 /\ req.fresh = {}
  <2>1. Len(n.made) \in Nat /\ Len(n.conns) \in Nat
    BY <1>12, <1>14
  <2>2. n.reqs[r] = first
    BY <1>11, <1>13
  <2> QED
    BY <1>4, <1>8, <1>14, <2>1, <2>2 DEF Requests, Stages
<1>16. Solid(WithReq(n, r, req), Slots)
  <2>1. req.id \in 0 .. m.clientId
    BY <1>12, <1>15
  <2> QED
    BY <1>7, <1>9, <1>11, <1>15, <2>1, DialsNew
<1>17. Keeps(n, WithReq(n, r, req))
  BY <1>7, <1>13, <1>15, WithReqKeeps
<1>18. Keeps(p, WithReq(n, r, req))
  BY <1>11, <1>13, <1>17, KeepsOn
<1> QED
  BY <1>1, <1>5, <1>16, <1>18

\* A list is imported.
LEMMA ImportGoes ==
    ASSUME Solid(bridge, Slots), NEW emails \in Imports, ImportAccounts(emails)
    PROVE  Solid(bridge', Slots) /\ Keeps(bridge, bridge')
<1>1. PICK p, r : /\ p = bridge
                  /\ r = Min({s \in Slots : bridge.reqs[s].stage = "idle"})
  OBVIOUS
<1>2. PICK req : req = [Idle EXCEPT !.kind = "import", !.todo = emails]
  OBVIOUS
<1>3. PICK q : q = WithReq(p, r, req)
  OBVIOUS
<1>4. bridge' = NextLine(q, r) /\ \E s \in Slots : p.reqs[s].stage = "idle"
  BY <1>1, <1>2, <1>3 DEF ImportAccounts, Asked, WithReq
<1>5. Solid(p, Slots) /\ p \in Memories
  BY <1>1 DEF Solid
<1>6. r \in Slots /\ p.reqs[r] = Idle
  BY <1>1, <1>4, <1>5, IdleSlot
<1>7. req \in Requests /\ req.kind = "import" /\ req.conn = 0 /\ req.id = 0 /\ req.fresh = {}
  <2>1. emails \in Seq(Emails)
    BY BridgeAssumption
  <2> QED
    BY <1>2, <2>1, IdleFits DEF Requests, Idle, Kinds
<1>8. Solid(q, Slots \ {r}) /\ Keeps(p, q)
  BY <1>3, <1>5, <1>6, <1>7, Taken
<1>9. Solid(q, Slots \ {r}) /\ q.reqs[r] = req /\ Keeps(p, q)
  BY <1>3, <1>5, <1>6, <1>7, <1>8, WithReqIs
<1>10. q \in Memories /\ 0 \in 0 .. q.clientId
  BY <1>9, MemoryFields DEF Solid
<1>11. Solid(NextLine(q, r), Slots)
  BY <1>6, <1>7, <1>9, <1>10, NextLineSolid
<1>12. Keeps(q, NextLine(q, r))
  BY <1>6, <1>7, <1>9, <1>10, NextLineKeeps
<1>13. Keeps(p, NextLine(q, r))
  BY <1>9, <1>12, KeepsOn
<1> QED
  BY <1>1, <1>4, <1>11, <1>13

\* An account is to go: it is the only one that is no longer held.
LEMMA DeleteGoes ==
    ASSUME Solid(bridge, Slots), NEW id \in DOMAIN bridge.clients, DeleteAccount(id)
    PROVE  /\ Solid(bridge', Slots)
           /\ \A email : Holds(bridge, email) /\ email # bridge.made[bridge.clients[id]].email
                => Holds(bridge', email)
<1>1. PICK p, r, c : /\ p = bridge /\ c = bridge.clients[id]
                     /\ r = Min({s \in Slots : bridge.reqs[s].stage = "idle"})
  OBVIOUS
<1>2. PICK k : k = p.made[c].conn
  OBVIOUS
<1>3. PICK req : req = [Idle EXCEPT !.kind = "delete", !.stage = "logout", !.id = id,
                                    !.client = c, !.on = k]
  OBVIOUS
<1>4. bridge' = WithReq(p, r, req) /\ \E s \in Slots : p.reqs[s].stage = "idle"
  BY <1>1, <1>2, <1>3 DEF DeleteAccount, Asked, WithReq
<1>5. Solid(p, Slots) /\ p \in Memories /\ Linked(p) /\ id \in DOMAIN p.clients
  BY <1>1 DEF Solid
<1>6. c \in DOMAIN p.made /\ k \in DOMAIN p.conns /\ id \in 1 .. p.clientId
  BY <1>1, <1>2, <1>5 DEF Linked
<1>7. r \in Slots /\ p.reqs[r] = Idle
  BY <1>1, <1>4, <1>5, IdleSlot
<1>8. /\ req \in Requests /\ req.stage = "logout" /\ req.kind = "delete" /\ req.id = id
      /\ req.client = c /\ req.on = k /\ req.conn = 0 /\ req.fresh = {}
  <2>1. c \in Nat /\ k \in Nat /\ id \in Nat
    BY <1>5, <1>6, MemoryFields
  <2> QED
    BY <1>3, <2>1, IdleFits DEF Requests, Idle, Kinds, Stages
<1>9. Fits(p, req) /\ ~Locking(req)
  <2>1. 0 \in 0 .. Len(p.conns) /\ id \in 0 .. p.clientId
    BY <1>5, <1>6, MemoryFields
  <2> QED
    BY <1>6, <1>8, <2>1, KindsAre DEF Fits, Locking
<1>10. Solid(p, Slots \ {r})
  BY <1>5, <1>7, IdleFits, Loosen
<1>11. \A s \in Slots \ {r} : p.reqs[s].stage = "connect" => p.reqs[s].conn # req.conn
  BY <1>8, <1>10 DEF Solid, Fits
<1>12. PICK q : q = WithReq(p, r, req)
  OBVIOUS
<1>13. Solid(q, Slots)
  BY <1>7, <1>8, <1>9, <1>10, <1>11, <1>12, Placed
<1>14. /\ q.clients = p.clients /\ q.made = p.made /\ q.reqs[r] = req
       /\ \A s \in Slots \ {r} : q.reqs[s] = p.reqs[s]
  BY <1>5, <1>7, <1>8, <1>12, WithReqIs
<1>15. ASSUME NEW email, Holds(p, email), email # p.made[c].email PROVE Holds(q, email)
  <2>1. PICK i \in DOMAIN p.clients : /\ p.made[p.clients[i]].email = email
                                      /\ \A s \in Slots : p.reqs[s].id # i
    BY <1>15 DEF Holds
  <2>2. i # id
    BY <1>1, <1>15, <2>1
  <2>3. \A s \in Slots : q.reqs[s].id # i
    BY <1>8, <1>14, <2>1, <2>2
  <2> QED
    BY <1>14, <2>1, <2>3 DEF Holds
<1>16. bridge' = q
  BY <1>4, <1>12
<1> QED
  BY <1>1, <1>13, <1>15, <1>16

(***************************************************************************)
(* Requests go on                                                          *)
(***************************************************************************)

LEMMA SetStateIs ==
    ASSUME NEW p \in Memories, NEW k, NEW state
    PROVE  LET q == SetState(p, k, state)
           IN  /\ q.clients = p.clients /\ q.clientId = p.clientId
               /\ q.made = p.made /\ q.reqs = p.reqs /\ Len(q.conns) = Len(p.conns)
  BY DEF SetState, Memories

\* What ConnectSettles gives the handler to go on with.
LEMMA SettledFacts ==
    ASSUME NEW p, Solid(p, Slots), NEW r \in Slots, p.reqs[r].stage = "connect",
           NEW state \in {"up", "gone"}, NEW k, k = p.reqs[r].conn,
           NEW q, q = SetState(p, k, state)
    PROVE  /\ Solid(q, Slots \ {r}) /\ q \in Memories /\ Linked(q) /\ Keeps(p, q)
           /\ Going(q, r, KindsAt["connect"]) /\ q.reqs[r].client \in DOMAIN q.made
           /\ q.reqs = p.reqs /\ q.made = p.made /\ q.clientId = p.clientId
<1>3. Solid(q, Slots \ {r})
  BY ConnectSettles
<1>4. /\ q.clients = p.clients /\ q.clientId = p.clientId
      /\ q.made = p.made /\ q.reqs = p.reqs
  BY SetStateIs DEF Solid
<1>5. Len(q.conns) = Len(p.conns)
  BY SetStateIs DEF Solid
<1>6. \A s \in Slots \ {r} : p.reqs[s].stage = "connect" => p.reqs[s].conn # k
  BY ConnectSettles
<1>7. q \in Memories /\ Linked(q)
  BY <1>3 DEF Solid
<1>8. Keeps(p, q)
  BY <1>4, KeepsSame
<1>9. Fits(p, p.reqs[r])
  BY DEF Solid
<1>10. Going(q, r, KindsAt["connect"])
  BY <1>4, <1>5, <1>6, <1>9 DEF Going, Fits
<1>11. q.reqs[r].client \in DOMAIN q.made
  BY <1>4, <1>9 DEF Fits
<1> QED
  BY <1>3, <1>4, <1>7, <1>8, <1>10, <1>11

\* A connection is made: an account is there, or a command can be sent.
LEMMA ConnectedGoes ==
    ASSUME Solid(bridge, Slots), NEW r \in Slots, Connected(r)
    PROVE  Solid(bridge', Slots) /\ Keeps(bridge, bridge')
<1>1. PICK b, k, p : b = bridge /\ k = b.reqs[r].conn /\ p = SetState(b, k, "up")
  OBVIOUS
<1>2. PICK q : q = Registered(p, r)
  OBVIOUS
<1>3. /\ b.reqs[r].stage = "connect"
      /\ b.reqs[r].kind = "add" => bridge' = Reply(q, r)
      /\ b.reqs[r].kind = "import" => bridge' = NextLine(q, r)
      /\ b.reqs[r].kind \notin {"add", "import"} => bridge' = Ensured(p, r)
  BY <1>1, <1>2, Zenon DEF Connected, InStage, Request, SetState, ImportGoesOn
<1>4. Solid(b, Slots) /\ k = b.reqs[r].conn /\ p = SetState(b, k, "up")
  BY <1>1
<1>5. Solid(p, Slots \ {r}) /\ p \in Memories /\ Linked(p)
  BY <1>3, <1>4, SettledFacts
<1>6. Keeps(b, p)
  BY <1>3, <1>4, SettledFacts
<1>7. Going(p, r, KindsAt["connect"]) /\ p.reqs[r].client \in DOMAIN p.made
  BY <1>3, <1>4, SettledFacts
<1>8. p.reqs = b.reqs
  BY <1>4, SetStateIs DEF Solid
<1>9. Solid(q, Slots \ {r}) /\ Keeps(p, q)
  BY <1>2, <1>5, <1>7, RegisteredSolid, RegisteredKeeps
<1>10. q \in Memories
  BY <1>9 DEF Solid
<1>11. CASE b.reqs[r].kind = "add"
  <2>1. Solid(Reply(q, r), Slots) /\ Keeps(q, Reply(q, r))
    BY <1>9, <1>10, ReplySolid, ReplyKeeps
  <2>2. Keeps(b, Reply(q, r))
    BY <1>6, <1>9, <2>1, KeepsOn
  <2> QED
    BY <1>1, <1>3, <1>11, <2>1, <2>2
<1>12. CASE b.reqs[r].kind = "import"
  <2>1. q.reqs[r].ok
    BY <1>2, <1>5, <1>7, RegisteredIs
  <2>2. q.reqs[r].kind = "import" /\ q.reqs[r].id = p.reqs[r].id
    BY <1>2, <1>5, <1>7, <1>8, <1>12, RegisteredIs
  <2>3. q.clientId = p.clientId + 1
    BY <1>2, <1>5, <1>7, RegisteredIs
  <2>4. q.reqs[r].id \in 0 .. q.clientId
    BY <1>5, <1>7, <2>2, <2>3, MemoryFields DEF Going
  <2>5. Solid(NextLine(q, r), Slots)
    BY <1>9, <2>1, <2>2, <2>4, NextLineSolid
  <2>6. Keeps(q, NextLine(q, r))
    BY <1>10, NextLineKeeps
  <2>7. Keeps(b, NextLine(q, r))
    BY <1>6, <1>9, <2>6, KeepsOn
  <2> QED
    BY <1>1, <1>3, <1>12, <2>5, <2>7
<1>13. CASE b.reqs[r].kind \notin {"add", "import"}
  <2>1. Going(p, r, {"one", "read", "folders"})
    BY <1>7, <1>8, <1>13, KindsAre DEF Going
  <2>2. Solid(Ensured(p, r), Slots)
    BY <1>5, <1>7, <2>1, EnsuredSolid
  <2>3. Keeps(b, Ensured(p, r))
    BY <1>5, <1>6, EnsuredKeeps, KeepsOn
  <2> QED
    BY <1>1, <1>3, <1>13, <2>2, <2>3
<1> QED
  BY <1>11, <1>12, <1>13

\* A connection is not to be had: the request is answered, an import goes on.
LEMMA ConnectFailsGoes ==
    ASSUME Solid(bridge, Slots), NEW r \in Slots, ConnectFails(r)
    PROVE  Solid(bridge', Slots) /\ Keeps(bridge, bridge')
<1>1. PICK b, k, p : b = bridge /\ k = b.reqs[r].conn /\ p = SetState(b, k, "gone")
  OBVIOUS
<1>3. /\ b.reqs[r].stage = "connect"
      /\ b.reqs[r].kind = "import" => bridge' = NextLine(p, r)
      /\ b.reqs[r].kind # "import" => bridge' = Reply(p, r)
  BY <1>1 DEF ConnectFails, InStage, Request, SetState, ImportGoesOn
<1>4. Solid(b, Slots) /\ k = b.reqs[r].conn /\ p = SetState(b, k, "gone")
  BY <1>1
<1>5. Solid(p, Slots \ {r}) /\ p \in Memories /\ Linked(p)
  BY <1>3, <1>4, SettledFacts
<1>6. Keeps(b, p)
  BY <1>3, <1>4, SettledFacts
<1>7. Going(p, r, KindsAt["connect"])
  BY <1>3, <1>4, SettledFacts
<1>8. p.reqs = b.reqs
  BY <1>4, SetStateIs DEF Solid
<1>9. CASE b.reqs[r].kind = "import"
  <2>1. Solid(NextLine(p, r), Slots)
    BY <1>5, <1>7, <1>8, <1>9, NextLineSolid DEF Going
  <2>2. Keeps(b, NextLine(p, r))
    BY <1>5, <1>6, NextLineKeeps, KeepsOn
  <2> QED
    BY <1>1, <1>3, <1>9, <2>1, <2>2
<1>10. CASE b.reqs[r].kind # "import"
  <2>1. Solid(Reply(p, r), Slots) /\ Keeps(b, Reply(p, r))
    BY <1>5, <1>6, ReplySolid, ReplyKeeps, KeepsOn
  <2> QED
    BY <1>1, <1>3, <1>10, <2>1
<1> QED
  BY <1>9, <1>10

\* A request under the lock is answered.
LEMMA ReleasedGoes ==
    ASSUME NEW p, Solid(p, Slots), NEW r \in Slots, p.reqs[r].stage \in Holding
    PROVE  Solid(Reply(Release(p, r), r), Slots) /\ Keeps(p, Reply(Release(p, r), r))
<1>1. Solid(Release(p, r), Slots \ {r})
  BY ReleaseSolid
<1>2. Release(p, r) \in Memories /\ p \in Memories
  BY <1>1 DEF Solid
<1>3. Keeps(p, Reply(Release(p, r), r))
  BY <1>2, ReleaseKeeps, ReplyKeeps, KeepsOn
<1> QED
  BY <1>1, <1>3, ReplySolid

\* The lock is granted.
LEMMA GrantedGoes ==
    ASSUME Solid(bridge, Slots), NEW r \in Slots, Granted(r)
    PROVE  Solid(bridge', Slots) /\ Keeps(bridge, bridge')
<1>1. PICK p, k, folder : p = bridge /\ k = p.reqs[r].conn /\ folder = p.reqs[r].folder
  BY SMTT(60)
<1>2. PICK m : m = Select(p, k, folder)
  OBVIOUS
<1>3. /\ bridge' = Run(m, r, "command")
      /\ p.reqs[r].stage = "lock" /\ Head(p.conns[k].queue) = r
  BY <1>1, <1>2 DEF Granted, InStage, Request, Select
<1>4. Solid(p, Slots) /\ p \in Memories /\ p.reqs[r] \in Requests /\ Fits(p, p.reqs[r])
  BY <1>1, MemoryFields DEF Solid
<1>5. Locking(p.reqs[r])
  BY <1>3, <1>4, KindsAre DEF Fits, Locking
<1>6. InPlace(p, r)
  BY <1>4, <1>5 DEF Solid
<1>7. /\ k # 0 /\ p.conns[k].state = "up" /\ p.made[p.reqs[r].client].conn = k
      /\ r \in ToSet(p.conns[k].queue)
  BY <1>1, <1>3, <1>6 DEF InPlace
<1>8. k \in DOMAIN p.conns /\ p.reqs[r].client \in DOMAIN p.made
  BY <1>1, <1>3, <1>4, <1>7, MemoryFields DEF Fits
<1>9. p.conns[k].queue # <<>> /\ folder \in Folders \cup {None}
  <2>1. ToSet(<<>>) = {}
    BY DEF ToSet
  <2> QED
    BY <1>1, <1>4, <1>7, <2>1 DEF Requests
<1>10. Solid(m, Slots)
  BY <1>2, <1>3, <1>4, <1>8, <1>9, SelectSolid
<1>11. m.clients = p.clients /\ m.clientId = p.clientId /\ m.made = p.made /\ m.reqs = p.reqs
  BY <1>2, <1>3, <1>4, <1>8, <1>9, SelectSolid
<1>12. DOMAIN m.conns = DOMAIN p.conns /\ m.conns[k].folder = folder
  BY <1>2, <1>3, <1>4, <1>8, <1>9, SelectSolid
<1>13. m.conns[k].queue = p.conns[k].queue /\ m.conns[k].state = p.conns[k].state
  BY <1>2, <1>3, <1>4, <1>8, <1>9, SelectSolid
<1>14. PICK req : req = [p.reqs[r] EXCEPT !.stage = "command", !.on = k]
  OBVIOUS
<1>15. /\ req \in Requests /\ req.stage = "command" /\ req.on = k
       /\ req.kind = p.reqs[r].kind /\ req.client = p.reqs[r].client
       /\ req.id = p.reqs[r].id /\ req.conn = k /\ req.folder = folder
       /\ req.fresh = p.reqs[r].fresh /\ req.ok = p.reqs[r].ok
  <2>1. k \in Nat
    BY <1>1, <1>4 DEF Requests
  <2> QED
    BY <1>1, <1>4, <1>14, <2>1 DEF Requests, Stages
<1>16. m \in Memories /\ Fits(m, m.reqs[r]) /\ Locking(m.reqs[r])
  BY <1>5, <1>10, <1>11 DEF Solid
<1>17. Run(m, r, "command") = WithReq(m, r, req)
  <2>1. m.made[m.reqs[r].client].conn = k
    BY <1>7, <1>11
  <2> QED
    BY <1>11, <1>14, <1>16, <2>1 DEF Run, WithReq, Memories
<1>18. Fits(m, req)
  <2>1. req.kind \in {"one", "read"}
    BY <1>5, <1>15 DEF Locking
  <2> QED
    BY <1>8, <1>11, <1>12, <1>15, <1>16, <2>1, KindsAre DEF Fits
<1>19. Locking(req) /\ req.stage # "lock" /\ req.conn = m.reqs[r].conn
  BY <1>1, <1>5, <1>11, <1>15 DEF Locking, Holding
<1>20. PICK q : q = WithReq(m, r, req)
  OBVIOUS
<1>21. q.reqs[r] = req /\ q.conns = m.conns /\ q.made = m.made
  BY <1>15, <1>16, <1>20, WithReqIs
<1>22. InPlace(q, r)
  BY <1>3, <1>7, <1>11, <1>12, <1>13, <1>15, <1>21 DEF InPlace
<1>23. Solid(q, Slots)
  BY <1>10, <1>15, <1>16, <1>18, <1>19, <1>20, <1>22, Moves
<1>24. Keeps(p, q)
  <2>1. Keeps(p, m)
    BY <1>11, KeepsSame
  <2>2. Keeps(m, q)
    BY <1>11, <1>15, <1>16, <1>20, WithReqKeeps
  <2> QED
    BY <2>1, <2>2, KeepsOn
<1> QED
  BY <1>1, <1>3, <1>17, <1>20, <1>23, <1>24

\* The first command is done: the request is answered, or its mail parsed.
LEMMA CommandDoneGoes ==
    ASSUME Solid(bridge, Slots), NEW r \in Slots, CommandDone(r)
    PROVE  Solid(bridge', Slots) /\ Keeps(bridge, bridge')
<1>1. PICK p : p = bridge
  OBVIOUS
<1>2. PICK c : c = p.reqs[r].client
  OBVIOUS
<1>3. Solid(p, Slots) /\ p \in Memories /\ p.reqs[r] \in Requests /\ Fits(p, p.reqs[r])
  BY <1>1, MemoryFields DEF Solid
<1>4. p.reqs[r].stage = "command" /\ p.reqs[r].kind \in {"one", "read", "folders"}
  BY <1>1, <1>3, KindsAre DEF CommandDone, InStage, Fits
<1>5. CASE p.reqs[r].kind = "one"
  <2>1. bridge' = Reply(Release(p, r), r)
    BY <1>1, <1>5 DEF CommandDone, Request
  <2> QED
    BY <1>1, <1>3, <1>4, <2>1, ReleasedGoes DEF Holding
<1>6. CASE p.reqs[r].kind = "read"
  <2>1. PICK req : req = [p.reqs[r] EXCEPT !.stage = "parse"]
    OBVIOUS
  <2>2. /\ req \in Requests /\ req.stage = "parse" /\ req.kind = "read"
        /\ req.client = p.reqs[r].client /\ req.id = p.reqs[r].id
        /\ req.conn = p.reqs[r].conn /\ req.folder = p.reqs[r].folder
        /\ req.fresh = p.reqs[r].fresh /\ req.ok = p.reqs[r].ok
    BY <1>3, <1>6, <2>1 DEF Requests, Stages
  <2>3. PICK q : q = WithReq(p, r, req)
    OBVIOUS
  <2>4. bridge' = q
    <3>1. bridge' = [p EXCEPT !.reqs[r].stage = "parse"]
      BY <1>1, <1>6 DEF CommandDone, Request
    <3> QED
      BY <2>1, <2>3, <3>1 DEF WithReq
  <2>5. Fits(p, req)
    BY <1>3, <1>4, <2>2, KindsAre DEF Fits
  <2>6. Locking(p.reqs[r]) /\ Locking(req) /\ req.stage # "lock"
    BY <1>4, <1>6, <2>2 DEF Locking, Holding
  <2>7. q.reqs[r] = req /\ q.conns = p.conns /\ q.made = p.made
    BY <1>3, <2>2, <2>3, WithReqIs
  <2>8. InPlace(p, r)
    BY <1>3, <2>6 DEF Solid
  <2>9. InPlace(q, r)
    BY <1>4, <2>2, <2>7, <2>8 DEF InPlace
  <2>10. Solid(q, Slots)
    BY <1>3, <2>2, <2>3, <2>5, <2>6, <2>9, Moves
  <2>11. Keeps(p, q)
    BY <1>3, <2>2, <2>3, WithReqKeeps
  <2> QED
    BY <1>1, <2>4, <2>10, <2>11
<1>7. CASE p.reqs[r].kind = "folders"
  <2>1. PICK one : one = [p.made[c] EXCEPT !.folders = TRUE]
    OBVIOUS
  <2>2. c \in DOMAIN p.made /\ p.made \in Seq(Mades) /\ p.made[c] \in Mades
    BY <1>2, <1>3, <1>4, MemoryFields DEF Fits
  <2>3. one \in Mades /\ one.conn = p.made[c].conn /\ one.email = p.made[c].email
    BY <2>1, <2>2 DEF Mades
  <2>4. PICK made : made = [p.made EXCEPT ![c] = one]
    OBVIOUS
  <2>5. made \in Seq(Mades) /\ DOMAIN made = DOMAIN p.made
    BY <2>2, <2>3, <2>4, SetAt
  <2>6. \A d \in DOMAIN p.made : made[d].conn = p.made[d].conn /\ made[d].email = p.made[d].email
    BY <2>3, <2>4
  <2>7. PICK q : q = [p EXCEPT !.made = made]
    OBVIOUS
  <2>8. bridge' = Reply(q, r)
    <3>1. q = [p EXCEPT !.made[c].folders = TRUE]
      BY <2>1, <2>4, <2>7
    <3> QED
      BY <1>1, <1>2, <1>7, <3>1 DEF CommandDone, Request
  <2>9. /\ q \in Memories /\ q.made = made /\ q.clients = p.clients
        /\ q.clientId = p.clientId /\ q.conns = p.conns /\ q.reqs = p.reqs
    BY <1>3, <2>5, <2>7 DEF Memories
  <2>10. Solid(q, Slots)
    BY <1>3, <2>5, <2>6, <2>9, Alike
  <2>11. ~Locking(q.reqs[r])
    BY <1>7, <2>9 DEF Locking
  <2>12. Solid(Reply(q, r), Slots)
    BY <2>10, <2>11, Loosen, ReplySolid
  <2>13. Keeps(p, q)
    BY <2>5, <2>6, <2>9 DEF Keeps
  <2>14. Keeps(p, Reply(q, r))
    BY <2>9, <2>13, ReplyKeeps, KeepsOn
  <2> QED
    BY <1>1, <2>8, <2>12, <2>14
<1> QED
  BY <1>4, <1>5, <1>6, <1>7

\* The mail is parsed, and marked as read if the client has a connection.
LEMMA ParsedGoes ==
    ASSUME Solid(bridge, Slots), NEW r \in Slots, Parsed(r)
    PROVE  Solid(bridge', Slots) /\ Keeps(bridge, bridge')
<1>1. PICK p : p = bridge
  OBVIOUS
<1>2. PICK k : k = ConnOf(p, r)
  OBVIOUS
<1>3. Solid(p, Slots) /\ p \in Memories /\ p.reqs[r] \in Requests /\ Fits(p, p.reqs[r])
      /\ Linked(p)
  BY <1>1, MemoryFields DEF Solid
<1>4. /\ p.reqs[r].stage = "parse"
      /\ bridge' = Run(p, r, "flag") \/ bridge' = Reply(Release(p, r), r)
  BY <1>1 DEF Parsed, InStage, Request
<1>5. p.reqs[r].kind = "read" /\ p.reqs[r].client \in DOMAIN p.made
  BY <1>3, <1>4, KindsAre DEF Fits
<1>6. CASE bridge' = Reply(Release(p, r), r)
  BY <1>1, <1>3, <1>4, <1>6, ReleasedGoes DEF Holding
<1>7. CASE bridge' = Run(p, r, "flag")
  <2>1. k \in DOMAIN p.conns /\ k \in Nat
    BY <1>2, <1>3, <1>5, MemoryFields DEF Linked, ConnOf
  <2>2. PICK req : req = [p.reqs[r] EXCEPT !.stage = "flag", !.on = k]
    OBVIOUS
  <2>3. /\ req \in Requests /\ req.stage = "flag" /\ req.kind = "read" /\ req.on = k
        /\ req.client = p.reqs[r].client /\ req.id = p.reqs[r].id
        /\ req.conn = p.reqs[r].conn /\ req.folder = p.reqs[r].folder
        /\ req.fresh = p.reqs[r].fresh /\ req.ok = p.reqs[r].ok
    BY <1>3, <1>5, <2>1, <2>2 DEF Requests, Stages
  <2>4. PICK q : q = WithReq(p, r, req)
    OBVIOUS
  <2>5. bridge' = q
    BY <1>2, <1>3, <1>7, <2>2, <2>4 DEF Run, WithReq, ConnOf, Memories
  <2>6. Fits(p, req)
    BY <1>3, <1>5, <2>1, <2>3, KindsAre DEF Fits
  <2>7. Locking(p.reqs[r]) /\ Locking(req) /\ req.stage # "lock"
    BY <1>4, <1>5, <2>3 DEF Locking, Holding
  <2>8. q.reqs[r] = req /\ q.conns = p.conns /\ q.made = p.made
    BY <1>3, <2>3, <2>4, WithReqIs
  <2>9. InPlace(p, r)
    BY <1>3, <2>7 DEF Solid
  <2>10. InPlace(q, r)
    BY <1>2, <1>4, <2>3, <2>8, <2>9 DEF InPlace, ConnOf
  <2>11. Solid(q, Slots)
    BY <1>3, <2>3, <2>4, <2>6, <2>7, <2>10, Moves
  <2>12. Keeps(p, q)
    BY <1>3, <2>3, <2>4, WithReqKeeps
  <2> QED
    BY <1>1, <2>5, <2>11, <2>12
<1> QED
  BY <1>4, <1>6, <1>7

\* The mark as read is done, or refused like any command.
LEMMA FlaggedGoes ==
    ASSUME Solid(bridge, Slots), NEW r \in Slots, Flagged(r) \/ CommandFails(r)
    PROVE  Solid(bridge', Slots) /\ Keeps(bridge, bridge')
<1>1. PICK p : p = bridge
  OBVIOUS
<1>2. CASE Flagged(r)
  <2>1. p.reqs[r].stage = "flag" /\ bridge' = Reply(Release(p, r), r)
    BY <1>1, <1>2 DEF Flagged, InStage
  <2> QED
    BY <1>1, <2>1, ReleasedGoes DEF Holding
<1>3. CASE CommandFails(r)
  <2>1. p.reqs[r].stage \in {"command", "flag"} /\ bridge' = Reply(Release(p, r), r)
    BY <1>1, <1>3 DEF CommandFails, Request
  <2> QED
    BY <1>1, <2>1, ReleasedGoes DEF Holding
<1> QED
  BY <1>2, <1>3

Without(p, id) == [p EXCEPT !.clients = [i \in DOMAIN @ \ {id} |-> @[i]]]

\* What is left when the client with this id is gone.
LEMMA WithoutIs ==
    ASSUME NEW p \in Memories, NEW id, NEW q, q = Without(p, id)
    PROVE  /\ q \in Memories
           /\ q.clientId = p.clientId /\ q.made = p.made
           /\ q.conns = p.conns /\ q.reqs = p.reqs
           /\ DOMAIN q.clients = DOMAIN p.clients \ {id}
           /\ \A i \in DOMAIN q.clients : q.clients[i] = p.clients[i]
<1>1. PICK D \in SUBSET Nat : p.clients \in [D -> Nat]
  BY MemoryFields DEF Maps
<1>2. PICK clients : clients = [i \in DOMAIN p.clients \ {id} |-> p.clients[i]]
  OBVIOUS
<1>3. clients \in [D \ {id} -> Nat] /\ \A i \in DOMAIN clients : clients[i] = p.clients[i]
  BY <1>1, <1>2
<1>4. clients \in Maps
  BY <1>3 DEF Maps
<1>5. q = [p EXCEPT !.clients = clients]
  BY <1>2 DEF Without, Memories
<1>6. /\ q \in Memories /\ q.clients = clients
      /\ q.clientId = p.clientId /\ q.made = p.made
      /\ q.conns = p.conns /\ q.reqs = p.reqs
  BY <1>4, <1>5 DEF Memories
<1> QED
  BY <1>2, <1>3, <1>6

\* An account is gone, whose deletion nobody's account has to fear.
LEMMA LoggedOutGoes ==
    ASSUME Solid(bridge, Slots), NEW r \in Slots, LoggedOut(r)
    PROVE  \E q \in Memories :
              /\ Linked(q) /\ bridge' = Reply(q, r) /\ file' = Saved(q)
              /\ Solid(bridge', Slots) /\ Keeps(q, bridge')
              /\ \A email : Holds(bridge, email) => Holds(q, email)
<1>1. PICK b, k, id : b = bridge /\ k = b.reqs[r].on /\ id = b.reqs[r].id
  BY SMTT(60)
<1>2. PICK p : p = Ended(b, k)
  OBVIOUS
<1>3. PICK q : q = Without(p, id)
  OBVIOUS
<1>4. b.reqs[r].stage = "logout" /\ bridge' = Reply(q, r) /\ file' = Saved(q)
  BY <1>1, <1>2, <1>3 DEF LoggedOut, InStage, Request, Without
<1>5. Solid(b, Slots) /\ b \in Memories /\ Fits(b, b.reqs[r])
  BY <1>1 DEF Solid
<1>6. k \in DOMAIN b.conns
  BY <1>1, <1>4, <1>5 DEF Fits
<1>7. Solid(p, Slots) /\ p \in Memories /\ Keeps(b, p)
  <2>1. Solid(Ended(b, k), Slots)
    BY <1>5, <1>6, EndedSolid
  <2>2. Keeps(b, Ended(b, k))
    BY <1>5, <1>6, EndedKeeps
  <2> QED
    BY <1>2, <2>1, <2>2 DEF Solid
<1>8. p.reqs[r] = Idle \/ p.reqs[r] = b.reqs[r]
  <2>1. PICK g : g = [b EXCEPT !.conns[k].state = "gone", !.conns[k].queue = <<>>]
    OBVIOUS
  <2>2. p = ReplyAll(g, Struck(b, k)) /\ g.reqs = b.reqs
    BY <1>2, <1>5, <2>1 DEF Ended, Struck, Memories
  <2>3. p.reqs[r] \in {Idle, g.reqs[r]}
    BY <1>5, <2>1, <2>2 DEF ReplyAll, Memories
  <2> QED
    BY <2>2, <2>3
<1>9. ~Locking(p.reqs[r])
  BY <1>4, <1>8, IdleFits DEF Locking, Holding
<1>10. /\ q \in Memories /\ q.clientId = p.clientId /\ q.made = p.made
       /\ q.conns = p.conns /\ q.reqs = p.reqs
  BY <1>3, <1>7, WithoutIs
<1>11. /\ DOMAIN q.clients = DOMAIN p.clients \ {id}
       /\ \A i \in DOMAIN q.clients : q.clients[i] = p.clients[i]
  BY <1>3, <1>7, WithoutIs
<1>12. Solid(q, Slots)
  BY <1>7, <1>10, <1>11, Alike
<1>13. Solid(Reply(q, r), Slots)
  BY <1>9, <1>10, <1>12, Loosen, ReplySolid
<1>14. Keeps(q, Reply(q, r))
  BY <1>10, ReplyKeeps
<1>15. ASSUME NEW email, Holds(b, email) PROVE Holds(q, email)
  <2>1. PICK i \in DOMAIN b.clients : /\ b.made[b.clients[i]].email = email
                                      /\ \A s \in Slots : b.reqs[s].id # i
    BY <1>15 DEF Holds
  <2>2. i # id /\ i # 0 /\ b.clients[i] \in DOMAIN b.made
    BY <1>1, <1>5, <2>1 DEF Solid, Linked
  <2>3. i \in DOMAIN p.clients /\ p.clients[i] = b.clients[i]
        /\ p.made[p.clients[i]].email = email
    BY <1>7, <2>1, <2>2 DEF Keeps
  <2>4. \A s \in Slots : p.reqs[s].id # i
    BY <1>7, <2>1, <2>2 DEF Keeps
  <2>5. i \in DOMAIN q.clients /\ q.made[q.clients[i]].email = email
    BY <1>10, <1>11, <2>2, <2>3
  <2> QED
    BY <1>10, <2>4, <2>5 DEF Holds
<1>16. Linked(q)
  BY <1>12 DEF Solid
<1> QED
  BY <1>1, <1>4, <1>10, <1>13, <1>14, <1>15, <1>16

\* A connection ends.
LEMMA DropGoes ==
    ASSUME Solid(bridge, Slots), NEW k \in DOMAIN bridge.conns, Drop(k)
    PROVE  Solid(bridge', Slots) /\ Keeps(bridge, bridge')
  BY EndedSolid, EndedKeeps DEF Drop, Solid

(***************************************************************************)
(* The process starts and crashes                                          *)
(***************************************************************************)

\* Where no request is under way, little has to fit.
LEMMA AllIdle ==
    ASSUME NEW p \in Memories, Linked(p), \A r \in Slots : p.reqs[r] = Idle,
           \A k \in DOMAIN p.conns : p.conns[k].queue = <<>>
    PROVE  Solid(p, Slots)
<1>1. \A r \in Slots : Fits(p, p.reqs[r]) /\ ~Locking(p.reqs[r]) /\ p.reqs[r].stage # "connect"
  BY IdleFits
<1>2. Queued(p, Slots)
  <2>1. ToSet(<<>>) = {} /\ IsInjective(<<>>) /\ DOMAIN <<>> = {}
    BY DEF ToSet, IsInjective
  <2> QED
    BY <2>1 DEF Queued
<1> QED
  BY <1>1, <1>2 DEF Solid

LEMMA FreshSolid == Solid(Fresh, Slots)
<1>1. <<>> \in Maps
  <2>1. <<>> \in [{} -> Nat]
    OBVIOUS
  <2> QED
    BY <2>1 DEF Maps
<1>2. <<>> \in Seq(Mades) /\ <<>> \in Seq(Conns) /\ DOMAIN <<>> = {}
  OBVIOUS
<1>3. [r \in Slots |-> Idle] \in [Slots -> Requests]
  BY IdleFits
<1>4. PICK p : p = Fresh
  OBVIOUS
<1>5. /\ p \in Memories /\ p.clients = <<>> /\ p.made = <<>> /\ p.conns = <<>>
      /\ p.reqs = [r \in Slots |-> Idle]
  BY <1>1, <1>2, <1>3, <1>4 DEF Fresh, Memories
<1>6. Linked(p)
  BY <1>2, <1>5 DEF Linked
<1>7. Solid(p, Slots)
  BY <1>2, <1>5, <1>6, AllIdle
<1> QED
  BY <1>4, <1>7

Restored(s) ==
    [Fresh EXCEPT !.clients = [i \in DOMAIN s |-> i], !.clientId = Len(s),
                  !.made  = [i \in DOMAIN s |-> NewMade(s[i], i)],
                  !.conns = [i \in DOMAIN s |-> Dialling]]

\* All accounts of the file are there again.
LEMMA RestoredSolid ==
    ASSUME NEW s \in Seq(Emails)
    PROVE  /\ Solid(Restored(s), Slots) /\ \A email \in ToSet(s) : Holds(Restored(s), email)
           /\ Restored(s).reqs = [r \in Slots |-> Idle]
<1>1. PICK clients, made, conns : /\ clients = [i \in DOMAIN s |-> i]
                                  /\ made  = [i \in DOMAIN s |-> NewMade(s[i], i)]
                                  /\ conns = [i \in DOMAIN s |-> Dialling]
  OBVIOUS
<1>2. DOMAIN s = 1 .. Len(s) /\ Len(s) \in Nat
  OBVIOUS
<1>3. clients \in Maps /\ DOMAIN clients = 1 .. Len(s)
  <2>1. clients \in [1 .. Len(s) -> Nat]
    BY <1>1, <1>2
  <2> QED
    BY <2>1 DEF Maps
<1>4. made \in Seq(Mades) /\ DOMAIN made = 1 .. Len(s)
  <2>1. ASSUME NEW i \in 1 .. Len(s) PROVE NewMade(s[i], i) \in Mades
    <3>1. s[i] \in Emails /\ i \in Nat
      BY <1>2
    <3> QED
      BY <3>1 DEF NewMade, Mades
  <2>2. \A i \in 1 .. Len(s) : made[i] \in Mades
    BY <1>1, <1>2, <2>1
  <2> QED
    BY <1>1, <1>2, <2>2
<1>5. conns \in Seq(Conns) /\ DOMAIN conns = 1 .. Len(s)
  <2>1. <<>> \in Seq(Slots)
    OBVIOUS
  <2>2. Dialling \in Conns
    BY <2>1 DEF Dialling, Conns
  <2>3. \A i \in 1 .. Len(s) : conns[i] \in Conns
    BY <1>1, <1>2, <2>2
  <2> QED
    BY <1>1, <1>2, <2>3
<1>6. [r \in Slots |-> Idle] \in [Slots -> Requests]
  BY IdleFits
<1>7. PICK p : p = Restored(s)
  OBVIOUS
<1>8. /\ p \in Memories /\ p.clients = clients /\ p.clientId = Len(s)
      /\ p.made = made /\ p.conns = conns /\ p.reqs = [r \in Slots |-> Idle]
  <2>1. p = [clients |-> clients, clientId |-> Len(s), made |-> made, conns |-> conns,
             reqs |-> [r \in Slots |-> Idle]]
    BY <1>1, <1>7 DEF Restored, Fresh
  <2> QED
    BY <1>2, <1>3, <1>4, <1>5, <1>6, <2>1 DEF Memories
<1>9. \A i \in 1 .. Len(s) : /\ clients[i] = i /\ made[i].conn = i /\ made[i].email = s[i]
                             /\ conns[i].queue = <<>>
  BY <1>1, <1>2 DEF NewMade, Dialling
<1>10. Linked(p)
  BY <1>2, <1>3, <1>4, <1>5, <1>8, <1>9 DEF Linked
<1>11. Solid(p, Slots)
  BY <1>5, <1>8, <1>9, <1>10, AllIdle
<1>12. ASSUME NEW i \in 1 .. Len(s) PROVE Holds(p, s[i])
  <2>1. i \in DOMAIN p.clients /\ p.made[p.clients[i]].email = s[i] /\ i # 0
    BY <1>2, <1>3, <1>8, <1>9
  <2>2. \A r \in Slots : p.reqs[r].id # i
    BY <1>8, <2>1, IdleFits
  <2> QED
    BY <2>1, <2>2 DEF Holds
<1>13. \A email \in ToSet(s) : Holds(p, email)
  BY <1>2, <1>12 DEF ToSet
<1> QED
  BY <1>7, <1>8, <1>11, <1>13

\* A connection of a restored account is made, or fails.
LEMMA RestoreSolid ==
    ASSUME NEW p, Solid(p, Slots), \A r \in Slots : p.reqs[r] = Idle, NEW k \in DOMAIN p.conns,
           NEW state \in {"up", "gone"}, NEW q, q = SetState(p, k, state)
    PROVE  Solid(q, Slots) /\ Keeps(p, q) /\ q.reqs = p.reqs
<1>1. p \in Memories /\ Linked(p) /\ Queued(p, Slots)
  BY DEF Solid
<1>2. PICK conn : conn = [p.conns[k] EXCEPT !.state = state]
  OBVIOUS
<1>3. conn \in Conns /\ conn.queue = p.conns[k].queue
  <2>1. p.conns[k] \in Conns
    BY <1>1, MemoryFields
  <2> QED
    BY <1>2, <2>1 DEF Conns
<1>4. q = WithConn(p, k, conn)
  BY <1>2 DEF SetState, WithConn
<1>5. /\ q \in Memories /\ q.clients = p.clients /\ q.clientId = p.clientId
      /\ q.made = p.made /\ q.reqs = p.reqs
  BY <1>1, <1>3, <1>4, WithConnIs
<1>6. /\ DOMAIN q.conns = DOMAIN p.conns
      /\ q.conns[k] = conn
      /\ \A j \in DOMAIN p.conns : j # k => q.conns[j] = p.conns[j]
  BY <1>1, <1>3, <1>4, WithConnIs
<1>7. ASSUME NEW j \in DOMAIN p.conns PROVE p.conns[j].queue = <<>>
  <2>1. PICK line : line = p.conns[j].queue
    OBVIOUS
  <2>2. line \in Seq(Slots)
    <3>1. p.conns[j] \in Conns
      BY <1>1, MemoryFields
    <3> QED
      BY <2>1, <3>1 DEF Conns
  <2>3. \A i \in DOMAIN line : line[i] \in Slots /\ Locking(p.reqs[line[i]])
    <3>1. \A i \in DOMAIN line : Locking(p.reqs[line[i]])
      BY <1>1, <2>1, Zenon DEF Queued
    <3> QED
      BY <2>2, <3>1
  <2>4. \A i \in DOMAIN line : FALSE
    BY <2>3, IdleFits
  <2>5. line # <<>> => 1 \in DOMAIN line
    BY <2>2
  <2> QED
    BY <2>1, <2>4, <2>5
<1>8. \A j \in DOMAIN q.conns : q.conns[j].queue = <<>>
  BY <1>3, <1>6, <1>7
<1>9. Linked(q)
  BY <1>1, <1>5, <1>6 DEF Linked
<1>10. \A r \in Slots : q.reqs[r] = Idle
  BY <1>5
<1> QED
  BY <1>5, <1>8, <1>9, <1>10, AllIdle, KeepsSame

(***************************************************************************)
(* The invariant                                                           *)
(***************************************************************************)

Pasts == [confirmed : SUBSET Emails, torn : BOOLEAN]

\* A step of the process that is up and stays up, with what it has to keep.
LEMMA Closing ==
    ASSUME BridgeInv, up' = "up", Solid(bridge', Slots), past' \in Pasts,
           past'.torn = past.torn, file' = file \/ file' \in Seq(Emails),
           ~past.torn => /\ file' # Torn /\ past'.confirmed \subseteq ToSet(file')
                         /\ \A email \in past'.confirmed : Holds(bridge', email)
    PROVE  BridgeInv'
<1>1. Lasting'
  BY DEF Lasting
<1> QED
  BY <1>1 DEF BridgeInv, Pasts

\* A step that neither writes the file nor confirms or deletes an account.
LEMMA Quiet ==
    ASSUME BridgeInv, up = "up", up' = up, file' = file, past' = past,
           Solid(bridge', Slots), Keeps(bridge, bridge')
    PROVE  BridgeInv'
<1>1. past' \in Pasts /\ Linked(bridge)
  BY DEF BridgeInv, Pasts, Solid
<1>2. ASSUME ~past.torn
      PROVE  /\ file' # Torn /\ past'.confirmed \subseteq ToSet(file')
             /\ \A email \in past'.confirmed : Holds(bridge', email)
  <2>1. /\ file # Torn /\ past.confirmed \subseteq ToSet(file)
        /\ \A email \in past.confirmed : Holds(bridge, email)
    BY <1>2 DEF BridgeInv, Lasting
  <2> QED
    BY <1>1, <2>1, KeepsHolds
<1> QED
  BY <1>1, <1>2, Closing

\* The file holds what the memory that is saved holds.
LEMMA SavedHolds ==
    ASSUME NEW p \in Memories, Linked(p), NEW C, \A email \in C : Holds(p, email)
    PROVE  Saved(p) \in Seq(Emails) /\ Saved(p) # Torn /\ C \subseteq ToSet(Saved(p))
<1>1. C \subseteq EmailsOf(p)
  BY HeldIsThere
<1>2. Saved(p) \in Seq(Emails) /\ EmailsOf(p) \subseteq ToSet(Saved(p))
  BY SavedIs
<1> QED
  BY <1>1, <1>2, BridgeAssumption

\* An import confirms what it has connected and nobody is deleting.
LEMMA ImportInv ==
    ASSUME BridgeInv, up = "up", up' = up, NEW r \in Slots, NEW p \in Memories,
           Linked(p), Keeps(bridge, p), ImportGoesOn(p, r), Solid(bridge', Slots),
           \A s \in Slots : p.reqs[s].stage = "idle" => p.reqs[s].id = 0,
           p.reqs[r].fresh # {} => p.reqs[r].ok
    PROVE  BridgeInv'
<1>1. bridge' = NextLine(p, r) /\ Keeps(p, bridge')
  BY NextLineKeeps DEF ImportGoesOn
<1>2. Keeps(bridge, bridge')
  BY <1>1, KeepsOn
<1>3. CASE bridge'.reqs[r].stage # "idle"
  <2>1. file' = file /\ past' = past
    BY <1>3 DEF ImportGoesOn
  <2> QED
    BY <1>2, <2>1, Quiet
<1>4. CASE bridge'.reqs[r].stage = "idle"
  <2>1. PICK fresh : fresh = p.reqs[r].fresh
    OBVIOUS
  <2>2. /\ file' = IF p.reqs[r].ok \/ p.reqs[r].todo # <<>> THEN Saved(p) ELSE file
        /\ past' = [past EXCEPT !.confirmed = @ \cup (fresh \cap Kept(p))]
    BY <1>4, <2>1 DEF ImportGoesOn
  <2>3. past \in Pasts /\ Linked(bridge) /\ fresh \subseteq Emails
    <3>1. p.reqs[r] \in Requests
      BY MemoryFields
    <3> QED
      BY <2>1, <3>1 DEF BridgeInv, Pasts, Solid, Requests
  <2>4. /\ past' \in Pasts /\ past'.torn = past.torn
        /\ past'.confirmed = past.confirmed \cup (fresh \cap Kept(p))
    BY <2>2, <2>3 DEF Pasts
  <2>5. \A email \in Kept(p) : Holds(p, email)
    <3> SUFFICES ASSUME NEW j \in DOMAIN p.clients,
                        \A s \in Slots : p.reqs[s].stage # "idle" => p.reqs[s].id # j
                 PROVE  Holds(p, p.made[p.clients[j]].email)
      BY DEF Kept
    <3>1. j # 0
      BY DEF Linked
    <3>2. \A s \in Slots : p.reqs[s].id # j
      BY <3>1
    <3> QED
      BY <3>2 DEF Holds
  <2>6. ASSUME ~past.torn
        PROVE  /\ file' # Torn /\ past'.confirmed \subseteq ToSet(file')
               /\ \A email \in past'.confirmed : Holds(bridge', email)
    <3>1. /\ file # Torn /\ past.confirmed \subseteq ToSet(file)
          /\ \A email \in past.confirmed : Holds(bridge, email)
      BY <2>6 DEF BridgeInv, Lasting
    <3>2. \A email \in past'.confirmed : Holds(p, email)
      BY <2>3, <2>4, <2>5, <3>1, KeepsHolds
    <3>3. \A email \in past'.confirmed : Holds(bridge', email)
      BY <1>1, <3>2, KeepsHolds
    <3>4. CASE file' = Saved(p)
      BY <3>2, <3>3, <3>4, SavedHolds
    <3>5. CASE file' # Saved(p)
      <4>1. file' = file /\ fresh = {}
        BY <2>1, <2>2, <3>5
      <4>2. past'.confirmed = past.confirmed
        BY <2>4, <4>1
      <4> QED
        BY <3>1, <3>3, <4>1, <4>2
    <3> QED
      BY <3>4, <3>5
  <2>7. file' = file \/ file' \in Seq(Emails)
    BY <2>2, SavedIs
  <2> QED
    BY <2>4, <2>6, <2>7, Closing
<1> QED
  BY <1>3, <1>4

\* An account that was connected is there, and nobody is deleting it yet.
LEMMA RegisteredHolds ==
    ASSUME NEW p \in Memories, Linked(p), NEW r \in Slots, p.reqs[r].client \in DOMAIN p.made,
           \A s \in Slots : p.reqs[s].id \in 0 .. p.clientId,
           NEW q, q = Registered(p, r)
    PROVE  Holds(q, p.made[p.reqs[r].client].email)
<1>1. DOMAIN q.clients = DOMAIN p.clients \cup {p.clientId + 1}
  BY RegisteredIs
<1>2. q.clients[p.clientId + 1] = p.reqs[r].client
  BY RegisteredIs
<1>3. q.made = p.made
  BY RegisteredIs
<1>4. q.reqs[r].id = p.reqs[r].id
  BY RegisteredIs
<1>5. \A s \in Slots \ {r} : q.reqs[s] = p.reqs[s]
  BY RegisteredIs
<1>6. \A s \in Slots : q.reqs[s].id # p.clientId + 1
  BY <1>4, <1>5, MemoryFields
<1> QED
  BY <1>1, <1>2, <1>3, <1>6 DEF Holds

\* A connection that was made for a request keeps the invariant.
LEMMA ConnectedInv ==
    ASSUME BridgeInv, NEW r \in Slots, Connected(r)
    PROVE  BridgeInv'
<1>1. PICK b, k, p : b = bridge /\ k = b.reqs[r].conn /\ p = SetState(b, k, "up")
  OBVIOUS
<1>2. PICK q, email : q = Registered(p, r) /\ email = p.made[p.reqs[r].client].email
  OBVIOUS
<1>3. /\ up = "up" /\ up' = up /\ b.reqs[r].stage = "connect"
      /\ b.reqs[r].kind = "add" =>
           /\ bridge' = Reply(q, r) /\ file' = Saved(q)
           /\ past' = [past EXCEPT !.confirmed = @ \cup q.reqs[r].fresh]
      /\ b.reqs[r].kind = "import" => ImportGoesOn(q, r)
      /\ b.reqs[r].kind \notin {"add", "import"} => file' = file /\ past' = past
  BY <1>1, <1>2, Zenon DEF Connected, InStage, Request, SetState
<1>4. Solid(b, Slots) /\ k = b.reqs[r].conn /\ p = SetState(b, k, "up") /\ past \in Pasts
  BY <1>1 DEF BridgeInv, Pasts
<1>5. Solid(p, Slots \ {r}) /\ p \in Memories /\ Linked(p)
  BY <1>3, <1>4, SettledFacts
<1>6. Keeps(b, p)
  BY <1>3, <1>4, SettledFacts
<1>7. p.reqs[r].client \in DOMAIN p.made
  BY <1>3, <1>4, SettledFacts
<1>8. p.reqs = b.reqs /\ p.clientId = b.clientId
  BY <1>4, SetStateIs DEF Solid
<1>9. Solid(bridge', Slots) /\ Keeps(bridge, bridge')
  BY ConnectedGoes DEF BridgeInv
<1>10. q = Registered(p, r)
  BY <1>2
<1>11. q \in Memories /\ Linked(q)
  BY <1>5, <1>7, <1>10, RegisteredIs
<1>12. Keeps(p, q)
  BY <1>5, <1>7, <1>10, RegisteredKeeps
<1>13. q.reqs[r].fresh = p.reqs[r].fresh \cup {email}
  BY <1>2, <1>5, <1>7, RegisteredIs
<1>14. q.reqs[r].ok
  BY <1>5, <1>7, <1>10, RegisteredIs
<1>15. q.reqs[r].stage = p.reqs[r].stage
  BY <1>5, <1>7, <1>10, RegisteredIs
<1>16. \A s \in Slots \ {r} : q.reqs[s] = p.reqs[s]
  BY <1>5, <1>7, <1>10, RegisteredIs
<1>17. \A s \in Slots : Fits(b, b.reqs[s])
  BY <1>4 DEF Solid
<1>18. Keeps(b, q)
  BY <1>6, <1>12, KeepsOn
<1>19. CASE b.reqs[r].kind = "add"
  <2>1. q.reqs[r].fresh = {email}
    <3>1. p.reqs[r].fresh = {}
      BY <1>8, <1>17, <1>19 DEF Fits
    <3> QED
      BY <1>13, <3>1
  <2>2. email \in Emails
    <3>1. p.made \in Seq(Mades)
      BY <1>5, MemoryFields
    <3>2. p.made[p.reqs[r].client] \in Mades
      BY <1>7, <3>1
    <3> QED
      BY <1>2, <3>2 DEF Mades
  <2>3. past' = [past EXCEPT !.confirmed = @ \cup {email}]
    BY <1>3, <1>19, <2>1
  <2>4. /\ past' \in Pasts /\ past'.torn = past.torn
        /\ past'.confirmed = past.confirmed \cup {email}
    BY <1>4, <2>2, <2>3 DEF Pasts
  <2>5. Holds(q, email)
    <3>1. \A s \in Slots : p.reqs[s].id \in 0 .. p.clientId
      BY <1>8, <1>17 DEF Fits
    <3> QED
      BY <1>2, <1>5, <1>7, <3>1, RegisteredHolds
  <2>6. bridge' = Reply(q, r) /\ file' = Saved(q) /\ Keeps(q, bridge')
    BY <1>3, <1>11, <1>19, ReplyKeeps
  <2>7. ASSUME ~past.torn
        PROVE  /\ file' # Torn /\ past'.confirmed \subseteq ToSet(file')
               /\ \A e \in past'.confirmed : Holds(bridge', e)
    <3>1. \A e \in past.confirmed : Holds(b, e)
      BY <1>1, <1>3, <2>7 DEF BridgeInv, Lasting
    <3>2. \A e \in past'.confirmed : Holds(q, e)
      BY <1>4, <1>18, <2>4, <2>5, <3>1, KeepsHolds DEF Solid
    <3>3. \A e \in past'.confirmed : Holds(bridge', e)
      BY <1>11, <2>6, <3>2, KeepsHolds
    <3> QED
      BY <1>11, <2>6, <3>2, <3>3, SavedHolds
  <2>8. file' \in Seq(Emails)
    BY <1>11, <2>6, SavedIs
  <2> QED
    BY <1>3, <1>9, <2>4, <2>7, <2>8, Closing
<1>20. CASE b.reqs[r].kind = "import"
  <2>1. \A s \in Slots : q.reqs[s].stage = "idle" => q.reqs[s].id = 0
    <3> SUFFICES ASSUME NEW s \in Slots, q.reqs[s].stage = "idle" PROVE q.reqs[s].id = 0
      OBVIOUS
    <3>1. s # r
      BY <1>3, <1>8, <1>15
    <3>2. q.reqs[s] = b.reqs[s]
      BY <1>8, <1>16, <3>1
    <3> QED
      BY <1>17, <3>2, IdleFits DEF Fits
  <2>2. Keeps(bridge, q) /\ ImportGoesOn(q, r)
    BY <1>1, <1>3, <1>18, <1>20
  <2> QED
    BY <1>3, <1>9, <1>11, <1>14, <2>1, <2>2, ImportInv
<1>21. CASE b.reqs[r].kind \notin {"add", "import"}
  BY <1>3, <1>9, <1>21, Quiet
<1> QED
  BY <1>19, <1>20, <1>21

\* So does one that could not be made.
LEMMA ConnectFailsInv ==
    ASSUME BridgeInv, NEW r \in Slots, ConnectFails(r)
    PROVE  BridgeInv'
<1>1. PICK b, k, p : b = bridge /\ k = b.reqs[r].conn /\ p = SetState(b, k, "gone")
  OBVIOUS
<1>2. /\ up = "up" /\ up' = up /\ b.reqs[r].stage = "connect"
      /\ b.reqs[r].kind = "import" => ImportGoesOn(p, r)
      /\ b.reqs[r].kind # "import" => file' = file /\ past' = past
  BY <1>1 DEF ConnectFails, InStage, Request, SetState
<1>3. Solid(b, Slots) /\ k = b.reqs[r].conn /\ p = SetState(b, k, "gone")
  BY <1>1 DEF BridgeInv
<1>4. Solid(p, Slots \ {r}) /\ p \in Memories /\ Linked(p)
  BY <1>2, <1>3, SettledFacts
<1>5. Keeps(b, p)
  BY <1>2, <1>3, SettledFacts
<1>6. p.reqs = b.reqs
  BY <1>3, SetStateIs DEF Solid
<1>7. Solid(bridge', Slots) /\ Keeps(bridge, bridge')
  BY ConnectFailsGoes DEF BridgeInv
<1>8. \A s \in Slots : Fits(b, b.reqs[s])
  BY <1>3 DEF Solid
<1>9. CASE b.reqs[r].kind = "import"
  <2>1. \A s \in Slots : p.reqs[s].stage = "idle" => p.reqs[s].id = 0
    BY <1>6, <1>8, IdleFits DEF Fits
  <2>2. p.reqs[r].fresh # {} => p.reqs[r].ok
    BY <1>6, <1>8 DEF Fits
  <2>3. Keeps(bridge, p) /\ ImportGoesOn(p, r)
    BY <1>1, <1>2, <1>5, <1>9
  <2> QED
    BY <1>2, <1>4, <1>7, <2>1, <2>2, <2>3, ImportInv
<1>10. CASE b.reqs[r].kind # "import"
  BY <1>2, <1>7, <1>10, Quiet
<1> QED
  BY <1>9, <1>10

\* Requests that come in keep the invariant.
LEMMA ComesInv ==
    ASSUME BridgeInv, Comes
    PROVE  BridgeInv'
<1>1. Solid(bridge, Slots)
  BY DEF BridgeInv
<1>2. CASE \E kind \in {"one", "read"}, id \in DOMAIN bridge.clients, f \in Folders :
             UseMail(kind, id, f)
  <2>1. PICK kind \in {"one", "read"}, id \in DOMAIN bridge.clients, f \in Folders :
             UseMail(kind, id, f)
    BY <1>2
  <2>2. up = "up" /\ up' = up /\ file' = file /\ past' = past
    BY <2>1 DEF UseMail, Asked
  <2> QED
    BY <1>1, <2>1, <2>2, UseMailGoes, Quiet
<1>3. CASE \E id \in DOMAIN bridge.clients : GetFolders(id)
  <2>1. PICK id \in DOMAIN bridge.clients : GetFolders(id)
    BY <1>3
  <2>2. up = "up" /\ up' = up /\ file' = file /\ past' = past
    BY <2>1 DEF GetFolders, Asked
  <2> QED
    BY <1>1, <2>1, <2>2, GetFoldersGoes, Quiet
<1>4. CASE \E email \in Emails : AddAccount(email)
  <2>1. PICK email \in Emails : AddAccount(email)
    BY <1>4
  <2>2. up = "up" /\ up' = up /\ file' = file /\ past' = past
    BY <2>1 DEF AddAccount, Asked
  <2> QED
    BY <1>1, <2>1, <2>2, AddAccountGoes, Quiet
<1>5. CASE \E emails \in Imports : ImportAccounts(emails)
  <2>1. PICK emails \in Imports : ImportAccounts(emails)
    BY <1>5
  <2>2. up = "up" /\ up' = up /\ past' = past /\ file' \in {Saved(bridge), file}
    BY <2>1 DEF ImportAccounts, Asked
  <2>3. Solid(bridge', Slots) /\ Keeps(bridge, bridge')
    BY <1>1, <2>1, ImportGoes
  <2>4. bridge \in Memories /\ Linked(bridge) /\ past' \in Pasts
    BY <1>1, <2>2 DEF Solid, BridgeInv, Pasts
  <2>5. ASSUME ~past.torn
        PROVE  /\ file' # Torn /\ past'.confirmed \subseteq ToSet(file')
               /\ \A e \in past'.confirmed : Holds(bridge', e)
    <3>1. /\ file # Torn /\ past.confirmed \subseteq ToSet(file)
          /\ \A e \in past.confirmed : Holds(bridge, e)
      BY <2>2, <2>5 DEF BridgeInv, Lasting
    <3>2. Saved(bridge) # Torn /\ past.confirmed \subseteq ToSet(Saved(bridge))
      BY <2>4, <3>1, SavedHolds
    <3> QED
      BY <2>2, <2>3, <2>4, <3>1, <3>2, KeepsHolds
  <2>6. file' = file \/ file' \in Seq(Emails)
    BY <2>2, <2>4, SavedIs
  <2> QED
    BY <2>2, <2>3, <2>4, <2>5, <2>6, Closing
<1>6. CASE \E id \in DOMAIN bridge.clients : DeleteAccount(id)
  <2>1. PICK id \in DOMAIN bridge.clients : DeleteAccount(id)
    BY <1>6
  <2>2. PICK email : email = bridge.made[bridge.clients[id]].email
    OBVIOUS
  <2>3. /\ up = "up" /\ up' = up /\ file' = file
        /\ past' = [past EXCEPT !.confirmed = @ \ {email}]
    BY <2>1, <2>2 DEF DeleteAccount, Asked
  <2>4. Solid(bridge', Slots) /\ \A e : Holds(bridge, e) /\ e # email => Holds(bridge', e)
    BY <1>1, <2>1, <2>2, DeleteGoes
  <2>5. /\ past' \in Pasts /\ past'.torn = past.torn
        /\ past'.confirmed = past.confirmed \ {email}
    BY <2>3 DEF BridgeInv, Pasts
  <2>6. ASSUME ~past.torn
        PROVE  /\ file' # Torn /\ past'.confirmed \subseteq ToSet(file')
               /\ \A e \in past'.confirmed : Holds(bridge', e)
    <3>1. /\ file # Torn /\ past.confirmed \subseteq ToSet(file)
          /\ \A e \in past.confirmed : Holds(bridge, e)
      BY <2>3, <2>6 DEF BridgeInv, Lasting
    <3> QED
      BY <2>3, <2>4, <2>5, <3>1
  <2> QED
    BY <2>3, <2>4, <2>5, <2>6, Closing
<1> QED
  BY <1>2, <1>3, <1>4, <1>5, <1>6 DEF Comes

\* An account that goes takes no other with it.
LEMMA LoggedOutInv ==
    ASSUME BridgeInv, NEW r \in Slots, LoggedOut(r)
    PROVE  BridgeInv'
<1>1. up = "up" /\ up' = up /\ past' = past /\ past' \in Pasts
  BY DEF LoggedOut, InStage, BridgeInv, Pasts
<1>2. PICK q \in Memories :
              /\ Linked(q) /\ bridge' = Reply(q, r) /\ file' = Saved(q)
              /\ Solid(bridge', Slots) /\ Keeps(q, bridge')
              /\ \A email : Holds(bridge, email) => Holds(q, email)
  BY LoggedOutGoes DEF BridgeInv
<1>3. ASSUME ~past.torn
      PROVE  /\ file' # Torn /\ past'.confirmed \subseteq ToSet(file')
             /\ \A e \in past'.confirmed : Holds(bridge', e)
  <2>1. \A e \in past'.confirmed : Holds(bridge, e)
    BY <1>1, <1>3 DEF BridgeInv, Lasting
  <2>2. \A e \in past'.confirmed : Holds(q, e)
    BY <1>2, <2>1
  <2> QED
    BY <1>2, <2>2, KeepsHolds, SavedHolds
<1>4. file' \in Seq(Emails)
  BY <1>2, SavedIs
<1> QED
  BY <1>1, <1>2, <1>3, <1>4, Closing

\* A crash takes the memory, and the file only when it is torn.
LEMMA CrashInv ==
    ASSUME BridgeInv, Crash
    PROVE  BridgeInv'
<1>1. PICK torn \in BOOLEAN : /\ file' = IF torn THEN Torn ELSE file
                              /\ past' = [past EXCEPT !.torn = @ \/ torn]
  BY DEF Crash
<1>2. up' = "down" /\ bridge' = Fresh
  BY DEF Crash
<1>3. past \in Pasts /\ past' \in Pasts /\ past'.torn = (past.torn \/ torn)
      /\ past'.confirmed = past.confirmed
  BY <1>1 DEF BridgeInv, Pasts
<1>4. Lasting'
  BY <1>1, <1>2, <1>3 DEF BridgeInv, Lasting
<1>5. Solid(bridge', Slots) /\ bridge'.reqs = [s \in Slots |-> Idle]
  BY <1>2, FreshSolid DEF Fresh
<1> QED
  BY <1>1, <1>2, <1>3, <1>4, <1>5 DEF BridgeInv, Pasts

\* A start restores what the file holds.
LEMMA StartInv ==
    ASSUME BridgeInv, Start
    PROVE  BridgeInv'
<1>1. PICK s : s = Loaded
  OBVIOUS
<1>2. s \in Seq(Emails) /\ (file # Torn => s = file)
  <2>1. <<>> \in Seq(Emails)
    OBVIOUS
  <2> QED
    BY <1>1, <2>1 DEF Loaded, BridgeInv
<1>3. bridge' = Restored(s) /\ up' \in {"up", "restoring"} /\ file' = file /\ past' = past
  BY <1>1 DEF Start, Restored
<1>4. /\ Solid(bridge', Slots) /\ bridge'.reqs = [r \in Slots |-> Idle]
      /\ \A email \in ToSet(s) : Holds(bridge', email)
  BY <1>2, <1>3, RestoredSolid
<1>5. Lasting'
  BY <1>2, <1>3, <1>4 DEF BridgeInv, Lasting
<1> QED
  BY <1>3, <1>4, <1>5 DEF BridgeInv

\* The restored accounts stay, those that cannot connect too.
LEMMA RestoreInv ==
    ASSUME BridgeInv, NEW c \in DOMAIN bridge.conns, NEW ok \in BOOLEAN, RestoreSettles(c, ok)
    PROVE  BridgeInv'
<1>1. PICK p, state : p = bridge /\ state = IF ok THEN "up" ELSE "gone"
  OBVIOUS
<1>2. state \in {"up", "gone"}
  BY <1>1
<1>3. PICK q : q = SetState(p, c, state)
  OBVIOUS
<1>4. /\ up = "restoring" /\ up' \in {"up", "restoring"} /\ bridge' = q /\ past' = past
      /\ file' \in {Saved(q), file}
  BY <1>1, <1>3 DEF RestoreSettles, SetState
<1>5. Solid(p, Slots) /\ c \in DOMAIN p.conns /\ p.reqs = [s \in Slots |-> Idle]
  BY <1>1, <1>4 DEF BridgeInv
<1>6. Solid(q, Slots) /\ Keeps(p, q)
  BY <1>3, <1>5, <1>2, RestoreSolid
<1>7. q.reqs = p.reqs
  BY <1>3, <1>5, SetStateIs DEF Solid
<1>8. q \in Memories /\ Linked(q)
  BY <1>6 DEF Solid
<1>9. ASSUME ~past.torn
      PROVE  /\ file' # Torn /\ past.confirmed \subseteq ToSet(file')
             /\ \A e \in past.confirmed : Holds(q, e)
  <2>1. /\ file # Torn /\ past.confirmed \subseteq ToSet(file)
        /\ \A e \in past.confirmed : Holds(p, e)
    BY <1>1, <1>4, <1>9 DEF BridgeInv, Lasting
  <2>2. \A e \in past.confirmed : Holds(q, e)
    BY <1>5, <1>6, <2>1, KeepsHolds DEF Solid
  <2>3. Saved(q) # Torn /\ past.confirmed \subseteq ToSet(Saved(q))
    BY <1>8, <2>2, SavedHolds
  <2> QED
    BY <1>4, <2>1, <2>2, <2>3
<1>10. Lasting'
  BY <1>4, <1>9 DEF Lasting
<1>11. file' = Torn \/ file' \in Seq(Emails)
  BY <1>4, <1>8, SavedIs DEF BridgeInv
<1> QED
  BY <1>4, <1>5, <1>6, <1>7, <1>10, <1>11 DEF BridgeInv

LEMMA InitInv == Init => BridgeInv
<1> SUFFICES ASSUME Init PROVE BridgeInv
  OBVIOUS
<1>1. /\ up = "down" /\ bridge = Fresh /\ file = Known
      /\ past = [confirmed |-> ToSet(Known), torn |-> FALSE]
  BY DEF Init
<1>2. Known \in Seq(Emails) /\ Known # Torn
  BY BridgeAssumption
<1>3. ToSet(Known) \subseteq Emails
  BY <1>2 DEF ToSet
<1>4. Solid(bridge, Slots) /\ bridge.reqs = [s \in Slots |-> Idle]
  BY <1>1, FreshSolid DEF Fresh
<1> QED
  BY <1>1, <1>2, <1>3, <1>4 DEF BridgeInv, Lasting

\* Every step keeps the invariant.
LEMMA NextInv == BridgeInv /\ [Next]_vars => BridgeInv'
<1> SUFFICES ASSUME BridgeInv, [Next]_vars PROVE BridgeInv'
  OBVIOUS
<1>1. CASE Comes
  BY <1>1, ComesInv
<1>2. ASSUME NEW r \in Slots, GoesOn(r) \/ ConnectFails(r) \/ CommandFails(r)
      PROVE  BridgeInv'
  <2>1. CASE Connected(r)
    BY <2>1, ConnectedInv
  <2>2. CASE LoggedOut(r)
    BY <2>2, LoggedOutInv
  <2>3. CASE ConnectFails(r)
    BY <2>3, ConnectFailsInv
  <2>4. CASE Granted(r) \/ CommandDone(r) \/ Parsed(r) \/ Flagged(r) \/ CommandFails(r)
    <3>1. up = "up" /\ up' = up /\ file' = file /\ past' = past
      BY <2>4 DEF Granted, CommandDone, Parsed, Flagged, CommandFails, InStage
    <3>2. Solid(bridge', Slots) /\ Keeps(bridge, bridge')
      BY <2>4, GrantedGoes, CommandDoneGoes, ParsedGoes, FlaggedGoes DEF BridgeInv
    <3> QED
      BY <3>1, <3>2, Quiet
  <2> QED
    BY <1>2, <2>1, <2>2, <2>3, <2>4 DEF GoesOn
<1>3. ASSUME NEW k \in DOMAIN bridge.conns, Drop(k) PROVE BridgeInv'
  <2>1. up = "up" /\ up' = up /\ file' = file /\ past' = past
    BY <1>3 DEF Drop
  <2>2. Solid(bridge', Slots) /\ Keeps(bridge, bridge')
    BY <1>3, DropGoes DEF BridgeInv
  <2> QED
    BY <2>1, <2>2, Quiet
<1>4. CASE Crash
  BY <1>4, CrashInv
<1>5. CASE Start
  BY <1>5, StartInv
<1>6. ASSUME NEW c \in DOMAIN bridge.conns, NEW ok \in BOOLEAN, RestoreSettles(c, ok)
      PROVE  BridgeInv'
  BY <1>6, RestoreInv
<1>7. CASE UNCHANGED vars
  BY <1>7 DEF vars, BridgeInv, Lasting
<1> QED
  BY <1>1, <1>2, <1>3, <1>4, <1>5, <1>6, <1>7 DEF Next

(***************************************************************************)
(* The theorems                                                            *)
(***************************************************************************)

\* Whatever the routes of server.js are asked, in whatever order connections
\* come and go and handlers go on, the memory of the bridge stays solid:
\* requests under a lock are where they should be, a connection that is being
\* made is nobody else's, and the accounts that were answered last.
THEOREM BridgeSound == Spec => []BridgeInv
  BY InitInv, NextInv, PTL DEF Spec

\* A command a handler sends under the lock of a folder (client.js, withLock in
\* the mail routes) runs on the connection whose lock it holds, with that folder
\* selected; the one exception is the mark as read after the connection ended.
THEOREM FolderKept == Spec => []CommandsKeepTheirFolder
<1>1. BridgeInv => CommandsKeepTheirFolder
  <2> SUFFICES ASSUME BridgeInv, NEW r \in Slots,
                      bridge.reqs[r].stage \in {"command", "flag"},
                      bridge.reqs[r].kind \in {"one", "read"}
               PROVE  LET req == bridge.reqs[r] IN
                      \/ /\ req.on = req.conn /\ bridge.conns[req.on].folder = req.folder
                         /\ bridge.conns[req.on].queue # <<>>
                         /\ Head(bridge.conns[req.on].queue) = r
                      \/ req.stage = "flag" /\ bridge.conns[req.conn].state = "gone"
    BY DEF CommandsKeepTheirFolder
  <2>1. InPlace(bridge, r)
    BY DEF BridgeInv, Solid, Locking, Holding
  <2>2. ToSet(<<>>) = {}
    BY DEF ToSet
  <2> QED
    BY <2>1, <2>2 DEF InPlace
<1> QED
  BY <1>1, BridgeSound, PTL

\* An account whose addition or import was answered stays in the file and in
\* the memory, whatever fails and whoever adds, imports or deletes others
\* meanwhile, until somebody deletes it (server.js, accountStore.js).
THEOREM AccountsLast == Spec => []ConfirmedSurvives
<1>1. BridgeInv => ConfirmedSurvives
  BY HeldIsThere DEF BridgeInv, Lasting, ConfirmedSurvives
<1> QED
  BY <1>1, BridgeSound, PTL

\* The state of the bridge has its types, and only requests under way hold or
\* wait for a lock.
THEOREM BridgeTyped == Spec => []TypeOK
<1>1. BridgeInv => TypeOK
  <2> SUFFICES ASSUME BridgeInv PROVE TypeOK
    OBVIOUS
  <2>1. bridge \in Memories /\ Linked(bridge) /\ Queued(bridge, Slots)
    BY DEF BridgeInv, Solid
  <2>2. \A c \in DOMAIN bridge.made :
           bridge.made[c].email \in Emails /\ bridge.made[c].folders \in BOOLEAN
    <3>1. \A c \in DOMAIN bridge.made : bridge.made[c] \in Mades
      BY <2>1, MemoryFields
    <3> QED
      BY <3>1 DEF Mades
  <2>3. \A r \in Slots : bridge.reqs[r].stage \in Stages /\ bridge.reqs[r].kind \in Kinds
    <3>1. \A r \in Slots : bridge.reqs[r] \in Requests
      BY <2>1, MemoryFields
    <3> QED
      BY <3>1 DEF Requests
  <2>4. ASSUME NEW k \in DOMAIN bridge.conns
        PROVE  LET conn == bridge.conns[k] IN
               /\ conn.state \in {"connecting", "up", "gone"}
               /\ conn.folder \in Folders \cup {None} /\ IsInjective(conn.queue)
               /\ \A r \in ToSet(conn.queue) :
                    bridge.reqs[r].conn = k /\ bridge.reqs[r].stage \in Holding \cup {"lock"}
    <3>1. bridge.conns[k] \in Conns
      BY <2>1, MemoryFields
    <3>2. bridge.conns[k].state \in {"connecting", "up", "gone"}
          /\ bridge.conns[k].folder \in Folders \cup {None}
      BY <3>1 DEF Conns
    <3>3. PICK line : line = bridge.conns[k].queue
      OBVIOUS
    <3>4. /\ IsInjective(line)
          /\ \A i \in DOMAIN line : Locking(bridge.reqs[line[i]]) /\ bridge.reqs[line[i]].conn = k
      BY <2>1, <3>3, Zenon DEF Queued
    <3>5. \A r \in ToSet(line) :
             bridge.reqs[r].conn = k /\ bridge.reqs[r].stage \in Holding \cup {"lock"}
      BY <3>4 DEF ToSet, Locking
    <3> QED
      BY <3>2, <3>3, <3>4, <3>5
  <2> QED
    BY <2>1, <2>2, <2>3, <2>4 DEF TypeOK, BridgeInv, Linked
<1> QED
  BY <1>1, BridgeSound, PTL
=============================================================================
