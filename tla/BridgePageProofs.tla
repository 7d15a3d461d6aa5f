-------------------------- MODULE BridgePageProofs --------------------------
(***************************************************************************)
(* TypeOK, MailsStayInTheirList, NoMailIsSkipped, ChangesAreListed and     *)
(* SearchStands of BridgePage.                                             *)
(*                                                                         *)
(* A handler is a chain of operators on the page.  There is a lemma for    *)
(* each operator, which says what of BridgePageInvariant it keeps, and     *)
(* what it needs for that; the actions put them together.                  *)
(***************************************************************************)
EXTENDS BridgePageInvariant, FiniteSetTheorems, SequenceTheorems, TLAPS

(***************************************************************************)
(* Counting and sequences                                                  *)
(***************************************************************************)
AtMost(D, i)  == {j \in D : j <= i}
AtLeast(D, i) == {j \in D : j >= i}

\* There is an n-th element, from below and from above.
LEMMA NthIs ==
    ASSUME NEW D \in SUBSET Nat, IsFiniteSet(D), NEW n \in 1 .. Cardinality(D)
    PROVE  /\ \E i \in D : Cardinality(AtMost(D, i)) = n
           /\ \E i \in D : Cardinality(AtLeast(D, i)) = n
<1>0. Cardinality(D) \in Nat
  BY FS_CardinalityType
<1>1. ASSUME NEW S \in SUBSET D, S # {} PROVE IsFiniteSet(S) /\ Cardinality(S) \in 1 .. Cardinality(D)
  <2>1. IsFiniteSet(S) /\ Cardinality(S) <= Cardinality(D)
    BY FS_Subset
  <2>2. Cardinality(S) \in Nat /\ Cardinality(S) # 0
    BY <1>1, <2>1, FS_CardinalityType, FS_EmptySet
  <2> QED
    BY <1>0, <2>1, <2>2
<1>2. ASSUME NEW S \in SUBSET D, NEW T \in SUBSET D, S \subseteq T, NEW k \in T, k \notin S
      PROVE  Cardinality(S) # Cardinality(T)
  <2>1. IsFiniteSet(T)
    BY FS_Subset
  <2> QED
    BY <1>2, <2>1, FS_Subset
<1>3. \A i \in D : AtMost(D, i) \in SUBSET D /\ AtLeast(D, i) \in SUBSET D
                   /\ i \in AtMost(D, i) /\ i \in AtLeast(D, i)
  BY DEF AtMost, AtLeast
<1>4. \A i, k \in D : i < k => /\ AtMost(D, i) \subseteq AtMost(D, k) /\ k \notin AtMost(D, i)
                               /\ AtLeast(D, k) \subseteq AtLeast(D, i) /\ i \notin AtLeast(D, k)
  <2> SUFFICES ASSUME NEW i \in D, NEW k \in D, i < k
               PROVE  /\ AtMost(D, i) \subseteq AtMost(D, k) /\ k \notin AtMost(D, i)
                      /\ AtLeast(D, k) \subseteq AtLeast(D, i) /\ i \notin AtLeast(D, k)
    OBVIOUS
  <2>1. i \in Nat /\ k \in Nat /\ ~(k <= i) /\ ~(i >= k)
    OBVIOUS
  <2>2. \A j \in D : j \in Nat /\ (j <= i => j <= k) /\ (j >= k => j >= i)
    BY <2>1
  <2> QED
    BY <2>1, <2>2 DEF AtMost, AtLeast
<1>5. \A i, k \in D : i < k => /\ Cardinality(AtMost(D, i)) # Cardinality(AtMost(D, k))
                               /\ Cardinality(AtLeast(D, i)) # Cardinality(AtLeast(D, k))
  BY <1>2, <1>3, <1>4
<1>6. \A i, k \in D : i # k => i < k \/ k < i
  OBVIOUS
<1>7. PICK f, g : f = [i \in D |-> Cardinality(AtMost(D, i))]
                  /\ g = [i \in D |-> Cardinality(AtLeast(D, i))]
  OBVIOUS
<1>8. f \in [D -> 1 .. Cardinality(D)] /\ g \in [D -> 1 .. Cardinality(D)]
  BY <1>1, <1>3, <1>7
<1>9. \A i, k \in D : (f[i] = f[k] => i = k) /\ (g[i] = g[k] => i = k)
  BY <1>5, <1>6, <1>7
<1>10. PICK N : N = Cardinality(D)
  OBVIOUS
<1>11. n \in 1 .. N
  BY <1>10
<1>12. IsFiniteSet(1 .. N) /\ Cardinality(1 .. N) = N /\ IsFiniteSet(D)
  BY <1>0, <1>10, FS_Interval
<1>13. f \in Injection(D, 1 .. N) /\ g \in Injection(D, 1 .. N)
  BY <1>8, <1>9, <1>10 DEF Injection, IsInjective
<1>14. f \in Surjection(D, 1 .. N)
  BY <1>10, <1>12, <1>13, FS_Injection
<1>15. g \in Surjection(D, 1 .. N)
  BY <1>10, <1>12, <1>13, FS_Injection
<1>16. (\E i \in D : f[i] = n) /\ (\E i \in D : g[i] = n)
  BY <1>11, <1>14, <1>15 DEF Surjection
<1> QED
  BY <1>7, <1>16

LEMMA MaxExists ==
    ASSUME NEW D \in SUBSET Nat, IsFiniteSet(D), D # {}
    PROVE  Max(D) \in D /\ \A i \in D : i <= Max(D)
<1>1. Cardinality(D) \in Nat /\ Cardinality(D) # 0
  BY FS_CardinalityType, FS_EmptySet
<1>2. PICK k \in D : Cardinality(AtMost(D, k)) = Cardinality(D)
  BY <1>1, NthIs
<1>3. \A i \in D : i <= k
  BY <1>2, FS_Subset DEF AtMost
<1>4. PICK w : w = CHOOSE x \in D : \A y \in D : x >= y
  OBVIOUS
<1>5. w \in D /\ \A y \in D : w >= y
  BY <1>3, <1>4
<1>6. Max(D) = w
  BY <1>4 DEF Max
<1> QED
  BY <1>5, <1>6

\* The rows left of a list are rows it had.
LEMMA RowsAre ==
    ASSUME NEW S, NEW s \in Seq(S), NEW M
    PROVE  /\ Rows(s, M) \in Seq(S)
           /\ \A i \in DOMAIN Rows(s, M) : \E k \in DOMAIN s : s[k] \in M /\ Rows(s, M)[i] = s[k]
<1> DEFINE places == {i \in DOMAIN s : s[i] \in M}
           Nth(n) == CHOOSE i \in places : Cardinality({j \in places : j <= i}) = n
<1>1. DOMAIN s = 1 .. Len(s) /\ Len(s) \in Nat
  OBVIOUS
<1>2. places \in SUBSET Nat
  BY <1>1
<1>3. IsFiniteSet(places)
  <2>1. IsFiniteSet(1 .. Len(s))
    BY <1>1, FS_Interval
  <2>2. places \in SUBSET (1 .. Len(s))
    BY <1>1
  <2> QED
    BY <2>1, <2>2, FS_Subset
<1>4. Cardinality(places) \in Nat
  BY <1>3, FS_CardinalityType
<1>5. Rows(s, M) = [n \in 1 .. Cardinality(places) |-> s[Nth(n)]]
  BY DEF Rows
<1>6. ASSUME NEW n \in 1 .. Cardinality(places) PROVE Nth(n) \in places
  <2>1. \E i \in places : Cardinality({j \in places : j <= i}) = n
    <3> HIDE DEF places
    <3> QED
      BY <1>2, <1>3, NthIs DEF AtMost
  <2> QED
    BY <2>1
<1> HIDE DEF Nth
<1>7. \A n \in 1 .. Cardinality(places) : Nth(n) \in DOMAIN s /\ s[Nth(n)] \in M
  BY <1>6
<1>8. PICK N, r : N = Cardinality(places) /\ N \in Nat /\ r = [n \in 1 .. N |-> s[Nth(n)]]
  BY <1>4
<1>9. \A n \in 1 .. N : r[n] = s[Nth(n)] /\ Nth(n) \in DOMAIN s /\ s[Nth(n)] \in S /\ s[Nth(n)] \in M
  BY <1>1, <1>7, <1>8
<1>10. r \in Seq(S) /\ DOMAIN r = 1 .. N
  BY <1>8, <1>9
<1> HIDE DEF places
<1> QED
  BY <1>5, <1>8, <1>9, <1>10

\* What an answer says, whatever mails it is about.
LEMMA EntryIs ==
    ASSUME NEW l \in Lists, NEW S \in SUBSET Nat, IsFiniteSet(S), NEW more \in BOOLEAN,
           NEW oldest \in Nat, NEW total \in Nat, NEW at \in Nat
    PROVE  LET e == Entry(l, S, more, oldest, total, at)
           IN e \in Entries /\ Of(l, e.mails) /\ e.at = at
<1> DEFINE Nth(n) == CHOOSE u \in S : Cardinality({v \in S : v >= u}) = n
<1>1. PICK mails : mails = [n \in 1 .. Cardinality(S) |-> Mail(l, Nth(n))]
  OBVIOUS
<1>2. Cardinality(S) \in Nat
  BY FS_CardinalityType
<1>3. \A n \in 1 .. Cardinality(S) : Nth(n) \in Nat
  <2> SUFFICES ASSUME NEW n \in 1 .. Cardinality(S) PROVE Nth(n) \in S
    OBVIOUS
  <2>1. \E u \in S : Cardinality({v \in S : v >= u}) = n
    BY NthIs DEF AtLeast
  <2> QED
    BY <2>1
<1>4. Entry(l, S, more, oldest, total, at)
      = [mails |-> mails, more |-> more, oldest |-> oldest, total |-> total, at |-> at]
  BY <1>1 DEF Entry
<1> HIDE DEF Nth
<1>5. \A n \in 1 .. Cardinality(S) : mails[n] \in Mails /\ mails[n].list = l
  BY <1>1, <1>3 DEF Mail, Mails
<1>6. mails \in Seq(Mails) /\ DOMAIN mails = 1 .. Cardinality(S)
  BY <1>1, <1>2, <1>5
<1> QED
  BY <1>4, <1>5, <1>6 DEF Entries, Of

LEMMA NothingIs ==
    Nothing \in Entries /\ \A l : Of(l, Nothing.mails)
<1>1. << >> \in Seq(Mails)
  OBVIOUS
<1> QED
  BY <1>1 DEF Nothing, Entries, Of

LEMMA OfJoined ==
    ASSUME NEW l, NEW s \in Seq(Mails), NEW t \in Seq(Mails)
    PROVE  s \o t \in Seq(Mails) /\ (Of(l, s) /\ Of(l, t) => Of(l, s \o t))
BY DEF Of

LEMMA OfRows ==
    ASSUME NEW l, NEW s \in Seq(Mails), NEW M
    PROVE  Rows(s, M) \in Seq(Mails) /\ (Of(l, s) => Of(l, Rows(s, M)))
BY RowsAre DEF Of

LEMMA SubSeqIs ==
    ASSUME NEW S, NEW s \in Seq(S), NEW i \in Nat \ {0}, NEW k \in Nat, k <= Len(s)
    PROVE  /\ SubSeq(s, i, k) \in Seq(S)
           /\ \A n \in DOMAIN SubSeq(s, i, k) : \E m \in DOMAIN s : SubSeq(s, i, k)[n] = s[m]
<1>1. \A n \in i .. k : n \in DOMAIN s /\ s[n] \in S
  OBVIOUS
<1>2. PICK r : r = SubSeq(s, i, k)
  OBVIOUS
<1>3. /\ r \in Seq(S) /\ Len(r) = IF i <= k THEN k - i + 1 ELSE 0
      /\ \A n \in 1 .. k - i + 1 : r[n] = s[i + n - 1]
  BY <1>1, <1>2, SubSeqProperties
<1>4. \A n \in 1 .. Len(r) : n \in 1 .. k - i + 1 /\ i + n - 1 \in i .. k
  BY <1>3
<1>5. \A n \in DOMAIN r : r[n] = s[i + n - 1] /\ i + n - 1 \in DOMAIN s
  BY <1>1, <1>3, <1>4
<1> QED
  BY <1>2, <1>3, <1>5

LEMMA UidsJoined ==
    ASSUME NEW s \in Seq(Mails), NEW t \in Seq(Mails)
    PROVE  Uids(s \o t) = Uids(s) \cup Uids(t)
<1>1. PICK r : r = s \o t
  OBVIOUS
<1>2. /\ Len(s) \in Nat /\ Len(t) \in Nat /\ DOMAIN s = 1 .. Len(s) /\ DOMAIN t = 1 .. Len(t)
      /\ DOMAIN r = 1 .. Len(s) + Len(t)
      /\ \A i \in DOMAIN r : r[i] = IF i <= Len(s) THEN s[i] ELSE t[i - Len(s)]
  BY <1>1
<1>3. ASSUME NEW i \in DOMAIN r PROVE r[i].uid \in Uids(s) \cup Uids(t)
  <2>1. CASE i <= Len(s)
    BY <1>2, <2>1 DEF Uids
  <2>2. CASE ~(i <= Len(s))
    <3>1. i - Len(s) \in DOMAIN t /\ r[i] = t[i - Len(s)]
      BY <1>2, <2>2
    <3> QED
      BY <3>1 DEF Uids
  <2> QED
    BY <2>1, <2>2
<1>4. \A i \in DOMAIN s : i \in DOMAIN r /\ r[i] = s[i]
  BY <1>2
<1>5. \A i \in DOMAIN t : i + Len(s) \in DOMAIN r /\ r[i + Len(s)] = t[i]
  BY <1>2
<1>6. Uids(r) \subseteq Uids(s) \cup Uids(t)
  BY <1>3 DEF Uids
<1>7. Uids(s) \subseteq Uids(r)
  BY <1>4 DEF Uids
<1>8. Uids(t) \subseteq Uids(r)
  BY <1>5 DEF Uids
<1> QED
  BY <1>1, <1>6, <1>7, <1>8

LEMMA SplicedIs ==
    ASSUME NEW p, p.cache \in Seq(Mails), p.index \in Nat, NEW l
    PROVE  /\ Spliced(p) \in Seq(Mails) /\ (Of(l, p.cache) => Of(l, Spliced(p)))
           /\ Uids(Spliced(p)) \subseteq Uids(p.cache)
<1> DEFINE s == p.cache
           n == Len(s)
           i == IF p.index = 0 THEN n ELSE p.index
<1>1. s \in Seq(Mails) /\ n \in Nat /\ i \in Nat
  OBVIOUS
<1>2. CASE i \in 1 .. n
  <2>1. PICK a, b : a = SubSeq(s, 1, i - 1) /\ b = SubSeq(s, i + 1, n)
    OBVIOUS
  <2>2. i - 1 \in Nat /\ i - 1 <= n /\ i + 1 \in Nat \ {0} /\ 1 \in Nat \ {0}
         /\ n \in Nat /\ n <= Len(s)
    BY <1>1, <1>2
  <2>3. Spliced(p) = a \o b
    BY <1>2, <2>1 DEF Spliced
  <2> HIDE DEF i, n, s
  <2>4. a \in Seq(Mails) /\ \A k \in DOMAIN a : \E m \in DOMAIN s : a[k] = s[m]
    BY <1>1, <2>1, <2>2, SubSeqIs, SMTT(60) DEF n
  <2>5. PICK j \in Nat \ {0} : j = i + 1
    BY <2>2
  <2>6. b \in Seq(Mails) /\ \A k \in DOMAIN b : \E m \in DOMAIN s : b[k] = s[m]
    <3>1. b = SubSeq(s, j, n)
      BY <2>1, <2>5
    <3>2. s \in Seq(Mails) /\ n \in Nat /\ n <= Len(s)
      BY <1>1, <2>2
    <3> QED
      BY <2>5, <3>1, <3>2, SubSeqIs
  <2>7. Of(l, s) => Of(l, a) /\ Of(l, b)
    BY <2>4, <2>6 DEF Of
  <2>8. Uids(a) \subseteq Uids(s) /\ Uids(b) \subseteq Uids(s)
    BY <2>4, <2>6 DEF Uids
  <2>9. Uids(a \o b) = Uids(a) \cup Uids(b)
    BY <2>4, <2>6, UidsJoined
  <2> QED
    BY <2>3, <2>4, <2>6, <2>7, <2>8, <2>9, OfJoined DEF s
<1>3. CASE i \notin 1 .. n
  BY <1>3 DEF Spliced
<1> QED
  BY <1>2, <1>3

(***************************************************************************)
(* The mails at the server and those the page has                          *)
(***************************************************************************)
LEMMA PlaceIs ==
    ASSUME NEW S \in SUBSET Nat, IsFiniteSet(S), NEW u
    PROVE  Place(S, u) \in Nat
<1>1. IsFiniteSet({v \in S : v <= u})
  BY FS_Subset
<1> QED
  BY <1>1, FS_CardinalityType DEF Place

\* A younger mail has a later place.
LEMMA PlacesGrow ==
    ASSUME NEW S \in SUBSET Nat, IsFiniteSet(S), NEW u \in S
    PROVE  /\ Place(S, u) \in 1 .. Cardinality(S)
           /\ \A v \in S : u < v => Place(S, u) < Place(S, v)
           /\ \A v \in S : Place(S, u) < Place(S, v) => u < v
           /\ \A v \in S : Place(S, u) = Place(S, v) => u = v
<1>1. PICK N \in Nat : N = Cardinality(S)
  BY FS_CardinalityType
<1>2. ASSUME NEW A \in SUBSET S, NEW C \in SUBSET A, NEW w \in A, w \notin C
      PROVE  /\ Cardinality(C) \in Nat /\ Cardinality(A) \in Nat /\ Cardinality(C) < Cardinality(A)
             /\ Cardinality(A) <= N
  <2>1. IsFiniteSet(A) /\ Cardinality(A) <= N
    BY <1>1, FS_Subset
  <2>2. IsFiniteSet(C) /\ Cardinality(C) <= Cardinality(A) /\ Cardinality(C) # Cardinality(A)
    BY <1>2, <2>1, FS_Subset
  <2> QED
    BY <2>1, <2>2, FS_CardinalityType
<1>3. ASSUME NEW a \in S PROVE Place(S, a) \in 1 .. N
  <2>1. PICK A : A = {w \in S : w <= a}
    OBVIOUS
  <2>2. A \in SUBSET S /\ a \in A /\ {} \in SUBSET A
    BY <2>1
  <2>3. Cardinality(A) \in Nat /\ Cardinality({}) \in Nat /\ Cardinality({}) < Cardinality(A)
        /\ Cardinality(A) <= N
    BY <1>2, <2>2
  <2> QED
    BY <2>1, <2>3, FS_EmptySet DEF Place
<1>4. ASSUME NEW a \in S, NEW b \in S, a < b PROVE Place(S, a) < Place(S, b)
  <2>1. PICK A, C : A = {w \in S : w <= b} /\ C = {w \in S : w <= a}
    OBVIOUS
  <2>2. A \in SUBSET S /\ C \in SUBSET A /\ b \in A /\ b \notin C
    <3>1. a \in Nat /\ b \in Nat /\ b <= b /\ ~(b <= a) /\ \A w \in S : w <= a => w <= b
      BY <1>4
    <3> QED
      BY <2>1, <3>1
  <2>3. Cardinality(C) < Cardinality(A)
    BY <1>2, <2>2
  <2> QED
    BY <2>1, <2>3 DEF Place
<1>5. ASSUME NEW v \in S
      PROVE  /\ u < v => Place(S, u) < Place(S, v)
             /\ Place(S, u) < Place(S, v) => u < v
             /\ Place(S, u) = Place(S, v) => u = v
  <2>1. Place(S, u) \in Nat /\ Place(S, v) \in Nat
    BY <1>1, <1>3
  <2>2. u < v \/ v < u \/ u = v
    OBVIOUS
  <2> QED
    BY <1>4, <2>1, <2>2
<1> QED
  BY <1>1, <1>3, <1>5

\* The mails of a list at two times: some went, and newer ones came.
Later(S, t, R, n) ==
    /\ S \in SUBSET Nat /\ R \in SUBSET Nat /\ IsFiniteSet(S) /\ IsFiniteSet(R) /\ t \in Nat /\ n \in Nat
    /\ Given(S, t) /\ Given(R, n) /\ t <= n /\ \A u \in R : u \in S \/ u > t

\* No mail comes later in the list than it was.
LEMMA PlacesFall ==
    ASSUME NEW S, NEW t, NEW R, NEW n, Later(S, t, R, n), NEW u \in R, u <= t
    PROVE  /\ u \in S /\ Place(R, u) \in Nat /\ Place(S, u) \in Nat /\ Place(R, u) <= Place(S, u)
           /\ \A m \in Nat : Place(S, u) < m => Place(R, u) < m
<1>1. S \in SUBSET Nat /\ R \in SUBSET Nat /\ IsFiniteSet(S) /\ IsFiniteSet(R) /\ t \in Nat /\ u \in S
      /\ \A v \in R : v \in S \/ v > t
  BY DEF Later
<1>2. PICK A, C : A = {v \in S : v <= u} /\ C = {v \in R : v <= u}
  OBVIOUS
<1>3. \A v \in R : v <= u => v \in S
  <2> SUFFICES ASSUME NEW v \in R, v <= u, v > t PROVE FALSE
    BY <1>1
  <2> QED
    BY <1>1
<1>4. C \subseteq A
  BY <1>2, <1>3
<1>5. IsFiniteSet(A) /\ Cardinality(C) <= Cardinality(A)
  <2>1. IsFiniteSet(A)
    BY <1>1, <1>2, FS_Subset
  <2> QED
    BY <1>4, <2>1, FS_Subset
<1>6. Place(R, u) \in Nat /\ Place(S, u) \in Nat
  BY <1>1, PlaceIs
<1>7. Place(R, u) <= Place(S, u)
  BY <1>2, <1>5 DEF Place
<1> QED
  BY <1>1, <1>6, <1>7

LEMMA LaterSkipless ==
    ASSUME NEW S, NEW t, NEW R, NEW n, Later(S, t, R, n), NEW U \in SUBSET Nat, Given(U, t)
    PROVE  /\ Given(U, n)
           /\ \A more \in BOOLEAN, place \in Nat : Skipless(S, U, more, place) => Skipless(R, U, more, place)
           /\ \A G : Behind(S, U, G) => Behind(R, U, G)
<1>1. /\ t \in Nat /\ n \in Nat /\ t <= n /\ R \in SUBSET Nat
      /\ \A u \in R : u \in S \/ (u > t /\ \A v \in U : v < u /\ ~(u <= v))
  BY DEF Later, Given
<1>2. Given(U, n)
  BY <1>1 DEF Given
<1>3. ASSUME NEW more \in BOOLEAN, NEW place \in Nat, Skipless(S, U, more, place) PROVE Skipless(R, U, more, place)
  <2> SUFFICES ASSUME NEW u \in R, u \notin U, ~\A v \in U : v < u
               PROVE  (\A v \in U : u < v) /\ more /\ Place(R, u) < place
    BY DEF Skipless
  <2>1. u <= t
    BY <1>1 DEF Given
  <2>2. u \in S /\ (Place(S, u) < place => Place(R, u) < place)
    BY <2>1, PlacesFall
  <2> QED
    BY <1>3, <2>2 DEF Skipless
<1>4. ASSUME NEW G, Behind(S, U, G) PROVE Behind(R, U, G)
  BY <1>1, <1>4 DEF Behind, UpTo
<1> QED
  BY <1>2, <1>3, <1>4

LEMMA UidsAre ==
    ASSUME NEW s \in Seq(Mails)
    PROVE  Uids(s) \in SUBSET Nat /\ \A i \in DOMAIN s : s[i] \in Mails /\ s[i].uid \in Uids(s)
<1>1. \A i \in DOMAIN s : s[i] \in Mails
  OBVIOUS
<1> QED
  BY <1>1 DEF Uids, Mails

LEMMA LaterContinues ==
    ASSUME NEW S, NEW t, NEW R, NEW n, Later(S, t, R, n), NEW U \in SUBSET Nat, Given(U, t),
           NEW c \in Calls, Continues(c, U, S, t)
    PROVE  Continues(c, U, R, n)
<1>1. /\ t \in Nat /\ n \in Nat /\ t <= n /\ R \in SUBSET Nat /\ Given(c.uids, t)
      /\ c.uids \in SUBSET Nat /\ c.before \in Nat /\ c.got.oldest \in Nat
  BY DEF Later, Continues, Calls, Entries
<1>2. ASSUME NEW u \in R, ~(u <= t)
      PROVE  ~UpTo(u, c.uids) /\ \A v \in U : v < u /\ ~(u < v)
  <2>1. u \in Nat /\ u > t
    BY <1>1, <1>2
  <2>2. \A v \in c.uids : v \in Nat /\ v <= t
    BY <1>1 DEF Given
  <2>3. \A v \in U : v \in Nat /\ v <= t
    BY DEF Given
  <2>4. ~UpTo(u, c.uids)
    BY <1>1, <2>1, <2>2 DEF UpTo
  <2> QED
    BY <1>1, <2>1, <2>3, <2>4
<1>3. ASSUME NEW u \in R, UpTo(u, c.uids) PROVE u <= t
  BY <1>2, <1>3
<1>4. \A u \in R : u <= t => u \in S /\ \A m \in Nat : Place(S, u) < m => Place(R, u) < m
  BY PlacesFall
<1>5. Given(c.uids, n)
  BY <1>1 DEF Given
<1>6. ASSUME U # {}, NEW u \in R \ U PROVE UpTo(u, c.uids) <=> \A v \in U : u < v
  <2>1. CASE u <= t
    BY <1>4, <1>6, <2>1 DEF Continues
  <2>2. CASE ~(u <= t)
    BY <1>2, <1>6, <2>2
  <2> QED
    BY <2>1, <2>2
<1>7. ASSUME c.reply = "none", NEW u \in R \ U, UpTo(u, c.uids) PROVE Place(R, u) < c.before
  BY <1>1, <1>3, <1>4, <1>7 DEF Continues
<1>8. ASSUME c.reply = "ok", Straight(c), NEW u \in R \ U, UpTo(u, c.uids)
      PROVE  \/ u \in Uids(c.got.mails)
             \/ /\ \A m \in Uids(c.got.mails) : u < m
                /\ c.got.more /\ (c.got.mails # <<>> => Place(R, u) < c.got.oldest)
  <2>1. u \in S \ U /\ \A m \in Nat : Place(S, u) < m => Place(R, u) < m
    BY <1>3, <1>4, <1>8
  <2> QED
    BY <1>1, <1>8, <2>1 DEF Continues
<1> QED
  BY <1>5, <1>6, <1>7, <1>8 DEF Continues

LEMMA PlaceFromTop ==
    ASSUME NEW S \in SUBSET Nat, IsFiniteSet(S), NEW u \in S
    PROVE  /\ Cardinality(AtLeast(S, u)) \in 1 .. Cardinality(S)
           /\ \A w \in S : Cardinality(AtLeast(S, u)) = Cardinality(AtLeast(S, w)) => u = w
<1>1. PICK N \in Nat : N = Cardinality(S)
  BY FS_CardinalityType
<1>2. ASSUME NEW A \in SUBSET S, NEW C \in SUBSET A, NEW x \in A, x \notin C
      PROVE  /\ Cardinality(C) \in Nat /\ Cardinality(A) \in Nat /\ Cardinality(C) < Cardinality(A)
             /\ Cardinality(A) <= N
  <2>1. IsFiniteSet(A) /\ Cardinality(A) <= N
    BY <1>1, FS_Subset
  <2>2. IsFiniteSet(C) /\ Cardinality(C) <= Cardinality(A) /\ Cardinality(C) # Cardinality(A)
    BY <1>2, <2>1, FS_Subset
  <2> QED
    BY <2>1, <2>2, FS_CardinalityType
<1>3. ASSUME NEW a \in S PROVE Cardinality(AtLeast(S, a)) \in 1 .. N
  <2>1. AtLeast(S, a) \in SUBSET S /\ a \in AtLeast(S, a) /\ {} \in SUBSET AtLeast(S, a)
    BY DEF AtLeast
  <2>2. /\ Cardinality(AtLeast(S, a)) \in Nat /\ Cardinality({}) < Cardinality(AtLeast(S, a))
        /\ Cardinality(AtLeast(S, a)) <= N
    BY <1>2, <2>1
  <2> QED
    BY <2>2, FS_EmptySet
<1>4. ASSUME NEW a \in S, NEW b \in S, a < b
      PROVE  Cardinality(AtLeast(S, b)) < Cardinality(AtLeast(S, a))
  <2>1. a \in Nat /\ b \in Nat /\ a >= a /\ ~(a >= b) /\ \A w \in S : w >= b => w >= a
    BY <1>4
  <2>2. /\ AtLeast(S, a) \in SUBSET S /\ AtLeast(S, b) \in SUBSET AtLeast(S, a)
        /\ a \in AtLeast(S, a) /\ a \notin AtLeast(S, b)
    BY <2>1 DEF AtLeast
  <2> QED
    BY <1>2, <2>2
<1>5. ASSUME NEW w \in S, Cardinality(AtLeast(S, u)) = Cardinality(AtLeast(S, w)) PROVE u = w
  <2>1. Cardinality(AtLeast(S, u)) \in Nat /\ Cardinality(AtLeast(S, w)) \in Nat
    BY <1>1, <1>3
  <2>2. u < w \/ w < u \/ u = w
    OBVIOUS
  <2> QED
    BY <1>4, <1>5, <2>1, <2>2
<1> QED
  BY <1>1, <1>3, <1>5

\* An answer has the mails it is made of.
LEMMA EntryHas ==
    ASSUME NEW l, NEW S \in SUBSET Nat, IsFiniteSet(S), NEW more, NEW oldest, NEW total, NEW at
    PROVE  LET e == Entry(l, S, more, oldest, total, at) IN
           /\ Uids(e.mails) = S /\ (e.mails = << >> <=> S = {})
           /\ e.more = more /\ e.oldest = oldest
<1> DEFINE Nth(n) == CHOOSE u \in S : Cardinality({v \in S : v >= u}) = n
<1>1. PICK N, mails : N = Cardinality(S) /\ mails = [n \in 1 .. N |-> Mail(l, Nth(n))]
  OBVIOUS
<1>2. N \in Nat
  BY <1>1, FS_CardinalityType
<1>3. \A u \in S : AtLeast(S, u) = {v \in S : v >= u}
  BY DEF AtLeast
<1>4. ASSUME NEW n \in 1 .. N PROVE Nth(n) \in S /\ Cardinality(AtLeast(S, Nth(n))) = n
  <2>1. \E u \in S : Cardinality({v \in S : v >= u}) = n
    BY <1>1, NthIs DEF AtLeast
  <2>2. Nth(n) \in S /\ Cardinality({v \in S : v >= Nth(n)}) = n
    BY <2>1
  <2> HIDE DEF Nth
  <2> QED
    BY <1>3, <2>2
<1>5. Entry(l, S, more, oldest, total, at)
      = [mails |-> mails, more |-> more, oldest |-> oldest, total |-> total, at |-> at]
  BY <1>1 DEF Entry
<1> HIDE DEF Nth
<1>6. DOMAIN mails = 1 .. N /\ \A n \in 1 .. N : mails[n].uid = Nth(n)
  BY <1>1 DEF Mail
<1>7. ASSUME NEW u \in S PROVE \E n \in 1 .. N : mails[n].uid = u
  <2>1. PICK n \in 1 .. N : n = Cardinality(AtLeast(S, u))
    BY <1>1, PlaceFromTop
  <2>2. Nth(n) \in S /\ Cardinality(AtLeast(S, Nth(n))) = n
    BY <1>4
  <2>3. Nth(n) = u
    BY <2>1, <2>2, PlaceFromTop
  <2> QED
    BY <1>6, <2>3
<1>8. Uids(mails) = S
  <2>1. \A x : x \in Uids(mails) <=> \E n \in 1 .. N : x = mails[n].uid
    BY <1>6 DEF Uids
  <2>2. \A n \in 1 .. N : mails[n].uid \in S
    BY <1>4, <1>6
  <2>3. \A x : x \in Uids(mails) => x \in S
    BY <2>1, <2>2
  <2>4. \A x \in S : x \in Uids(mails)
    BY <1>7, <2>1
  <2> QED
    BY <2>3, <2>4
<1>9. mails = << >> <=> S = {}
  <2>1. S = {} <=> N = 0
    BY <1>1, FS_EmptySet
  <2>2. mails = << >> <=> DOMAIN mails = {}
    <3>1. DOMAIN mails = {} => mails = [n \in {} |-> mails[n]]
      BY <1>1
    <3>2. << >> = [n \in {} |-> mails[n]] /\ DOMAIN << >> = {}
      OBVIOUS
    <3> QED
      BY <3>1, <3>2
  <2>3. 1 .. N = {} <=> N = 0
    BY <1>2
  <2> QED
    BY <1>6, <2>1, <2>2, <2>3
<1> QED
  BY <1>5, <1>8, <1>9

\* The mails at the places from "first" to "last", and those before.
LEMMA PageOfList ==
    ASSUME NEW S \in SUBSET Nat, IsFiniteSet(S), NEW last \in Int,
           NEW first, first = Max({1, last - PageSize + 1}),
           NEW G, G = {u \in S : Place(S, u) \in first .. last},
           NEW u \in S, Place(S, u) <= last, u \notin G
    PROVE  /\ first \in Nat /\ first > 1 /\ Place(S, u) < first /\ Cardinality(S) > 0
           /\ \A n \in G : u < n
           /\ last = Cardinality(S) => G # {}
<1>1. PICK n \in Int : n = last - PageSize + 1 /\ n <= last
  BY BridgePageAssumption
<1>2. first \in Nat /\ first >= 1 /\ (first = 1 \/ first = n)
  <2>1. first = CHOOSE x \in {1, n} : \A y \in {1, n} : x >= y
    BY <1>1 DEF Max
  <2>2. \E x \in {1, n} : \A y \in {1, n} : x >= y
    OBVIOUS
  <2>3. first \in {1, n} /\ \A y \in {1, n} : first >= y
    BY <2>1, <2>2
  <2> QED
    BY <2>3
<1>3. PICK N \in Nat : N = Cardinality(S)
  BY FS_CardinalityType
<1>4. Place(S, u) \in 1 .. N
  BY <1>3, PlacesGrow
<1>5. Place(S, u) < first
  BY <1>2, <1>4
<1>6. first > 1 /\ N > 0
  BY <1>2, <1>4, <1>5
<1>7. ASSUME NEW m \in G PROVE u < m
  <2>1. m \in S /\ Place(S, m) \in first .. last
    OBVIOUS
  <2>2. Place(S, u) < Place(S, m)
    BY <1>2, <1>4, <1>5, <2>1
  <2> QED
    BY <2>1, <2>2, PlacesGrow
<1>8. ASSUME last = N PROVE G # {}
  <2>1. PICK m \in S : Cardinality(AtMost(S, m)) = N
    BY <1>3, <1>6, NthIs
  <2>2. Place(S, m) = N
    BY <2>1 DEF Place, AtMost
  <2>3. N \in first .. last
    BY <1>1, <1>2, <1>6, <1>8
  <2> QED
    BY <2>2, <2>3
<1> QED
  BY <1>2, <1>3, <1>5, <1>6, <1>7, <1>8

LEMMA NoUids ==
    ASSUME NEW s \in Seq(Mails)
    PROVE  Uids(s) = {} <=> s = << >>
<1>1. Len(s) \in Nat /\ DOMAIN s = 1 .. Len(s)
  OBVIOUS
<1>2. s = << >> => Uids(s) = {}
  BY DEF Uids
<1>3. ASSUME s # << >> PROVE s[1].uid \in Uids(s)
  <2>1. 1 \in DOMAIN s
    BY <1>1, <1>3
  <2> QED
    BY <2>1 DEF Uids
<1> QED
  BY <1>2, <1>3

\* The rows left of a list are all rows of it that are to be left.
LEMMA RowsHave ==
    ASSUME NEW s \in Seq(Mails), NEW M
    PROVE  \A u : u \in Uids(Rows(s, M)) <=> \E k \in DOMAIN s : s[k] \in M /\ s[k].uid = u
<1> DEFINE places == {i \in DOMAIN s : s[i] \in M}
           Nth(n) == CHOOSE i \in places : Cardinality({j \in places : j <= i}) = n
<1>1. places \in SUBSET Nat /\ IsFiniteSet(places)
  <2>1. IsFiniteSet(1 .. Len(s)) /\ places \in SUBSET (1 .. Len(s))
    BY FS_Interval
  <2> QED
    BY <2>1, FS_Subset
<1>2. PICK N, r : N = Cardinality(places) /\ r = [n \in 1 .. N |-> s[Nth(n)]]
  OBVIOUS
<1>3. Rows(s, M) = r
  BY <1>2 DEF Rows
<1> HIDE DEF places
<1>4. ASSUME NEW k \in places PROVE \E n \in 1 .. N : r[n] = s[k]
  <2>1. PICK n \in 1 .. N : n = Place(places, k)
    BY <1>1, <1>2, PlacesGrow
  <2>2. Nth(n) \in places /\ Place(places, Nth(n)) = n
    BY <2>1 DEF Place
  <2>3. Nth(n) = k
    BY <1>1, <2>1, <2>2, PlacesGrow
  <2> QED
    BY <1>2, <2>3
<1>5. ASSUME NEW k \in DOMAIN s, s[k] \in M PROVE s[k].uid \in Uids(Rows(s, M))
  <2>1. k \in places
    BY <1>5 DEF places
  <2>2. PICK n \in 1 .. N : r[n] = s[k]
    BY <1>4, <2>1
  <2>3. n \in DOMAIN r
    BY <1>2
  <2> QED
    BY <1>3, <2>2, <2>3 DEF Uids
<1>6. \A i \in DOMAIN Rows(s, M) : \E k \in DOMAIN s : s[k] \in M /\ Rows(s, M)[i] = s[k]
  BY RowsAre
<1>7. \A u : u \in Uids(Rows(s, M)) => \E k \in DOMAIN s : s[k] \in M /\ s[k].uid = u
  BY <1>6 DEF Uids
<1> QED
  BY <1>5, <1>7

(***************************************************************************)
(* Pages and their requests                                                *)
(***************************************************************************)
\* What the invariant looks at is the same, the requests aside.
SameView(p, q) ==
    /\ q.account = p.account /\ q.folder = p.folder /\ q.key = p.key /\ q.cache = p.cache
    /\ q.at = p.at /\ q.lists = p.lists /\ q.known = p.known /\ q.ahead = p.ahead
    /\ q.versions = p.versions /\ q.more = p.more /\ q.oldest = p.oldest

\* d is the request c, whoever waits for it.
Like(d, c) ==
    /\ d.id = c.id /\ d.kind = c.kind /\ d.list = c.list /\ d.uids = c.uids
    /\ d.before = c.before /\ d.reply = c.reply /\ d.got = c.got
    /\ d.current => c.current

\* The requests of q are those of p, perhaps waited for by others.
Mapped(p, q) ==
    /\ q \in Pages /\ SameView(p, q)
    /\ \E f \in [p.calls -> Calls] : /\ q.calls = {f[c] : c \in p.calls}
                                     /\ \A c \in p.calls : Like(f[c], c)

LEMMA ListIs ==
    /\ \A l \in Lists : l = <<l[1], l[2]>> /\ l[1] \in Accounts /\ l[2] \in Folders /\ l \in Places
    /\ \A a \in Accounts : <<a, Inbox>> \in Lists /\ <<a, Inbox>> \in Places /\ a # None
    /\ None \notin Lists /\ None \notin Accounts
BY BridgePageAssumption DEF Places

NoFetch(p, l) == FetchesOf(p, l) = {}

LEMMA NoFetchIs ==
    \A p, l : NoFetch(p, l) <=> \A c \in p.calls : ~(c.kind = "list" /\ c.list = l)
BY DEF NoFetch, FetchesOf

LEMMA WithCalls ==
    ASSUME NEW p \in Pages, NEW C \in SUBSET Calls
    PROVE  LET q == [p EXCEPT !.calls = C]
           IN q \in Pages /\ SameView(p, q) /\ q.calls = C
BY DEF Pages, SameView

\* Everything said of the view alone.
LEMMA ViewKeeps ==
    ASSUME NEW p, NEW q, SameView(p, q)
    PROVE  /\ Active(q) = Active(p) /\ (Shown(q) <=> Shown(p)) /\ (SameAge(p) => SameAge(q))
BY DEF SameView, Active, Shown, SameAge

LEMMA MappedKeeps ==
    ASSUME NEW p, NEW q, PageTyped(p), Mapped(p, q)
    PROVE  /\ PageTyped(q) /\ (\A I : Named(p, I) => Named(q, I))
           /\ (Stored(p) => Stored(q)) /\ (Continued(p) => Continued(q))
           /\ \A l : NoFetch(q, l) <=> NoFetch(p, l)
           /\ \A A : Listed(p, A) => Listed(q, A)
<1>1. /\ q \in Pages /\ SameView(p, q) /\ Active(q) = Active(p) /\ (Shown(q) <=> Shown(p))
      /\ p \in Pages /\ IsFiniteSet(p.calls) /\ Distinct(p) /\ \A c \in p.calls : CallFits(c)
  BY ViewKeeps DEF Mapped, PageTyped
<1>2. PICK f \in [p.calls -> Calls] : /\ q.calls = {f[c] : c \in p.calls}
                                      /\ \A c \in p.calls : Like(f[c], c)
  BY DEF Mapped
<1>3. \A d \in q.calls : \E c \in p.calls : Like(d, c)
  BY <1>2
<1>4. \A c \in p.calls : \E d \in q.calls : Like(d, c)
  BY <1>2
<1>5. PageTyped(q)
  <2>1. IsFiniteSet(q.calls)
    <3>1. f \in Surjection(p.calls, q.calls)
      BY <1>2 DEF Surjection
    <3> QED
      BY <1>1, <3>1, FS_Surjection
  <2>2. \A d \in q.calls : CallFits(d)
    BY <1>1, <1>3 DEF CallFits, Like
  <2>3. Distinct(q)
    <3> SUFFICES ASSUME NEW c \in p.calls, NEW b \in p.calls
                 PROVE  /\ f[c].id = f[b].id /\ f[c].kind # "list" => f[c] = f[b]
                        /\ f[c].kind = "list" /\ f[b].kind = "list" /\ f[c].list = f[b].list
                              => f[c] = f[b]
                        /\ f[c].kind = "add" /\ f[b].kind = "add" => f[c] = f[b]
      BY <1>2 DEF Distinct
    <3>1. Like(f[c], c) /\ Like(f[b], b)
      BY <1>2
    <3>2. /\ c.id = b.id /\ c.kind # "list" => c = b
          /\ c.kind = "list" /\ b.kind = "list" /\ c.list = b.list => c = b
          /\ c.kind = "add" /\ b.kind = "add" => c = b
      BY <1>1 DEF Distinct
    <3> QED
      BY <3>1, <3>2 DEF Like
  <2>4. q.account # None => Active(q) \in Lists
    BY <1>1 DEF PageTyped, SameView
  <2> QED
    BY <1>1, <2>1, <2>2, <2>3, <2>4 DEF PageTyped
<1>6. ASSUME NEW I, Named(p, I) PROVE Named(q, I)
  <2>1. \A a : Names(q, a) => Names(p, a)
    BY <1>1, <1>3 DEF Names, SameView, Like
  <2> QED
    BY <1>3, <1>6, <2>1 DEF Named, Like
<1>7. Stored(p) => Stored(q)
  BY <1>1, <1>3 DEF Stored, SameView, Like
<1>8. Continued(p) => Continued(q)
  BY <1>1, <1>3 DEF Continued, SameView, Like
<1>9. \A l : NoFetch(q, l) <=> NoFetch(p, l)
  BY <1>3, <1>4, NoFetchIs DEF Like
<1>10. ASSUME NEW A, Listed(p, A) PROVE Listed(q, A)
  BY <1>1, <1>9, <1>10 DEF Listed, SameView, NoFetch
<1> QED
  BY <1>5, <1>6, <1>7, <1>8, <1>9, <1>10

\* Requests are changed one by one.
LEMMA MappedIs ==
    ASSUME NEW p \in Pages, NEW f \in [p.calls -> Calls], \A c \in p.calls : Like(f[c], c)
    PROVE  LET q == [p EXCEPT !.calls = {f[c] : c \in p.calls}]
           IN Mapped(p, q) /\ q.calls = {f[c] : c \in p.calls}
<1>1. PICK C : C = {f[c] : c \in p.calls}
  OBVIOUS
<1>2. C \in SUBSET Calls
  BY <1>1
<1>3. PICK q : q = [p EXCEPT !.calls = C]
  OBVIOUS
<1>4. q \in Pages /\ SameView(p, q) /\ q.calls = C
  BY <1>2, <1>3, WithCalls
<1> QED
  BY <1>1, <1>3, <1>4 DEF Mapped

LEMMA OutdateIs ==
    ASSUME NEW p \in Pages
    PROVE  LET q == OutdateLoads(p)
           IN Mapped(p, q) /\ \A d \in q.calls : ~d.load /\ ~d.quiet
<1>1. PICK f : f = [c \in p.calls |-> [c EXCEPT !.load = FALSE, !.quiet = FALSE]]
  OBVIOUS
<1>2. \A c \in p.calls : c \in Calls
  BY DEF Pages
<1>3. \A c \in p.calls : f[c] \in Calls /\ Like(f[c], c) /\ ~f[c].load /\ ~f[c].quiet
  <2> SUFFICES ASSUME NEW c \in p.calls, NEW d, d = [c EXCEPT !.load = FALSE, !.quiet = FALSE]
               PROVE  d \in Calls /\ Like(d, c) /\ ~d.load /\ ~d.quiet
    BY <1>1
  <2>1. c \in Calls
    BY <1>2
  <2>2. d \in Calls
    BY <2>1 DEF Calls
  <2> QED
    BY <2>1, <2>2 DEF Calls, Like
<1>4. f \in [p.calls -> Calls]
  BY <1>1, <1>3
<1>5. OutdateLoads(p) = [p EXCEPT !.calls = {f[c] : c \in p.calls}]
  BY <1>1 DEF OutdateLoads
<1> QED
  BY <1>3, <1>4, <1>5, MappedIs

LEMMA ReplacedIs ==
    ASSUME NEW p \in Pages
    PROVE  LET q == Replaced(p)
           IN /\ Mapped(p, q) /\ \A d \in q.calls : ~d.current
              /\ \A d \in q.calls : \E c \in p.calls :
                    Like(d, c) /\ d.load = c.load /\ d.quiet = c.quiet
<1>1. PICK f : f = [c \in p.calls |-> [c EXCEPT !.current = FALSE]]
  OBVIOUS
<1>2. \A c \in p.calls : c \in Calls
  BY DEF Pages
<1>3. \A c \in p.calls : f[c] \in Calls /\ Like(f[c], c) /\ ~f[c].current
                          /\ f[c].load = c.load /\ f[c].quiet = c.quiet
  <2> SUFFICES ASSUME NEW c \in p.calls, NEW d, d = [c EXCEPT !.current = FALSE]
               PROVE  d \in Calls /\ Like(d, c) /\ ~d.current
                      /\ d.load = c.load /\ d.quiet = c.quiet
    BY <1>1
  <2>1. c \in Calls
    BY <1>2
  <2>2. d \in Calls
    BY <2>1 DEF Calls
  <2>3. d.load = c.load /\ d.quiet = c.quiet /\ ~d.current
    BY <2>1 DEF Calls
  <2> QED
    BY <2>1, <2>2, <2>3 DEF Calls, Like
<1>4. f \in [p.calls -> Calls]
  BY <1>1, <1>3
<1>5. Replaced(p) = [p EXCEPT !.calls = {f[c] : c \in p.calls}]
  BY <1>1 DEF Replaced
<1> QED
  BY <1>3, <1>4, <1>5, MappedIs

\* A request as it is sent.
New(p, d) ==
    /\ d \in Calls /\ CallFits(d) /\ d.reply = "none" /\ d.got = Nothing
    /\ d.kind \in {"list", "opening"} => Names(p, d.list[1])
    /\ d.kind = "add" => ~Names(p, d.list[1])
    /\ d.kind = "more" /\ Shown(p) => d.list = p.key

\* The requests in N are sent.
Adds(p, q, N) ==
    /\ q \in Pages /\ SameView(p, q) /\ q.calls = p.calls \cup N
    /\ IsFiniteSet(N) /\ \A d \in N : New(p, d)
    /\ \A d \in N, c \in p.calls \cup N :
          /\ c.id = d.id /\ (c.kind # "list" \/ d.kind # "list") => c = d
          /\ c.kind = "list" /\ d.kind = "list" /\ c.list = d.list => c = d
          /\ c.kind = "add" /\ d.kind = "add" => c = d

LEMMA AddsKeeps ==
    ASSUME NEW p, NEW q, NEW N, PageTyped(p), Adds(p, q, N)
    PROVE  /\ PageTyped(q) /\ (\A I : Named(p, I) => Named(q, I))
           /\ (Stored(p) => Stored(q)) /\ (Continued(p) => Continued(q))
           /\ \A l : NoFetch(q, l) <=> NoFetch(p, l) /\ \A d \in N : ~(d.kind = "list" /\ d.list = l)
           /\ \A A : Listed(p, A) => Listed(q, A)
<1>1. /\ q \in Pages /\ SameView(p, q) /\ Active(q) = Active(p) /\ (Shown(q) <=> Shown(p))
      /\ q.calls = p.calls \cup N /\ IsFiniteSet(N) /\ \A d \in N : New(p, d)
      /\ p \in Pages /\ IsFiniteSet(p.calls) /\ Distinct(p) /\ \A c \in p.calls : CallFits(c)
  BY ViewKeeps DEF Adds, PageTyped
<1>2. PageTyped(q)
  <2>1. IsFiniteSet(q.calls)
    BY <1>1, FS_Union
  <2>2. \A d \in q.calls : CallFits(d)
    BY <1>1 DEF New
  <2>3. Distinct(q)
    <3> SUFFICES ASSUME NEW c \in q.calls, NEW d \in q.calls
                 PROVE  /\ c.id = d.id /\ c.kind # "list" => c = d
                        /\ c.kind = "list" /\ d.kind = "list" /\ c.list = d.list => c = d
                        /\ c.kind = "add" /\ d.kind = "add" => c = d
      BY DEF Distinct
    <3>1. CASE d \in N
      BY <1>1, <3>1 DEF Adds
    <3>2. CASE c \in N
      BY <1>1, <3>2 DEF Adds
    <3>3. CASE c \in p.calls /\ d \in p.calls
      BY <1>1, <3>3 DEF Distinct
    <3> QED
      BY <1>1, <3>1, <3>2, <3>3
  <2>4. q.account # None => Active(q) \in Lists
    BY <1>1 DEF PageTyped, SameView
  <2> QED
    BY <1>1, <2>1, <2>2, <2>3, <2>4 DEF PageTyped
<1>3. ASSUME NEW I, Named(p, I) PROVE Named(q, I)
  <2>1. \A a : Names(q, a) => Names(p, a)
    BY <1>1 DEF Names, SameView, New
  <2> QED
    BY <1>1, <1>3, <2>1 DEF Named, New
<1>4. Stored(p) => Stored(q)
  BY <1>1, NothingIs DEF Stored, SameView, New
<1>5. Continued(p) => Continued(q)
  BY <1>1 DEF Continued, SameView, New
<1>6. \A l : NoFetch(q, l) <=> NoFetch(p, l) /\ \A d \in N : ~(d.kind = "list" /\ d.list = l)
  BY <1>1, NoFetchIs
<1>7. ASSUME NEW A, Listed(p, A) PROVE Listed(q, A)
  BY <1>1, <1>6, <1>7 DEF Listed, SameView, NoFetch
<1> QED
  BY <1>2, <1>3, <1>4, <1>5, <1>6, <1>7

\* There is a number left for a request.
LEMMA FreeIdIs ==
    ASSUME NEW p \in Pages, IsFiniteSet(p.calls)
    PROVE  FreeId(p) \in Nat \ {0} /\ \A c \in p.calls : c.id # FreeId(p)
<1>1. PICK ids : ids = {c.id : c \in p.calls}
  OBVIOUS
<1>2. PICK N \in Nat : N = Cardinality(p.calls)
  BY FS_CardinalityType
<1>3. IsFiniteSet(ids) /\ Cardinality(ids) <= N
  <2>1. PICK f : f = [c \in p.calls |-> c.id]
    OBVIOUS
  <2>2. f \in Surjection(p.calls, ids)
    BY <1>1, <2>1 DEF Surjection
  <2> QED
    BY <1>2, <2>2, FS_Surjection
<1>4. IsFiniteSet(1 .. N + 1) /\ Cardinality(1 .. N + 1) = N + 1
  BY FS_Interval
<1>5. Cardinality(ids) \in Nat
  BY <1>3, FS_CardinalityType
<1>6. ~(1 .. N + 1 \subseteq ids)
  <2> SUFFICES ASSUME 1 .. N + 1 \subseteq ids PROVE FALSE
    OBVIOUS
  <2>1. Cardinality(1 .. N + 1) <= Cardinality(ids)
    BY <1>3, FS_Subset
  <2> QED
    BY <1>3, <1>4, <1>5, <2>1
<1>7. \E n \in 1 .. N + 1 : \A c \in p.calls : c.id # n
  BY <1>1, <1>6
<1>8. FreeId(p) = CHOOSE n \in 1 .. N + 1 : \A c \in p.calls : c.id # n
  BY <1>2 DEF FreeId
<1>9. FreeId(p) \in 1 .. N + 1 /\ \A c \in p.calls : c.id # FreeId(p)
  BY <1>7, <1>8
<1> QED
  BY <1>9

\* A request that can be sent, whatever its number.
Sendable(p, d) ==
    /\ d \in Calls /\ d.kind # "list" /\ d.reply = "none" /\ d.got = Nothing /\ ~d.load
    /\ d.kind # "poll" => d.list \in Places
    /\ d.kind \in {"add", "opening"} => \E a \in Accounts : d.list = <<a, Inbox>>
    /\ d.kind = "read" => d.uids # {}
    /\ d.kind = "opening" => Names(p, d.list[1])
    /\ d.kind = "add" => ~Names(p, d.list[1]) /\ \A c \in p.calls : c.kind # "add"
    /\ d.kind = "more" /\ Shown(p) => d.list = p.key

LEMMA SendIs ==
    ASSUME NEW p, PageTyped(p), NEW call, Sendable(p, call)
    PROVE  LET q == Send(p, call) IN
           \E d : /\ Adds(p, q, {d}) /\ d.kind = call.kind /\ ~d.load /\ d.uids = call.uids
                 /\ d.before = call.before
<1>1. PICK n \in Nat \ {0} : n = FreeId(p) /\ \A c \in p.calls : c.id # n
  BY FreeIdIs DEF PageTyped
<1>2. PICK d : d = [call EXCEPT !.id = n]
  OBVIOUS
<1>3. /\ d \in Calls /\ d.id = n /\ d.kind = call.kind /\ d.list = call.list
      /\ d.reply = call.reply /\ d.got = call.got /\ d.uids = call.uids /\ d.load = call.load
      /\ d.before = call.before
  <2>1. call \in Calls
    BY DEF Sendable
  <2>2. d \in Calls
    BY <1>2, <2>1 DEF Calls
  <2> QED
    BY <1>2, <2>1, <2>2 DEF Calls
<1>4. New(p, d)
  BY <1>3 DEF New, Sendable, CallFits
<1>5. p.calls \in SUBSET Calls
  BY DEF PageTyped, Pages
<1>6. PICK C \in SUBSET Calls : C = p.calls \cup {d}
  BY <1>3, <1>5
<1>7. PICK q : q = [p EXCEPT !.calls = C]
  OBVIOUS
<1>8. q \in Pages /\ SameView(p, q) /\ q.calls = C
  BY <1>7, WithCalls DEF PageTyped
<1>9. Send(p, call) = q
  BY <1>1, <1>2, <1>6, <1>7 DEF Send
<1>10. \A c \in p.calls : c.id # d.id /\ ~(c.kind = "add" /\ d.kind = "add") /\ d.kind # "list"
  BY <1>1, <1>3 DEF Sendable
<1>11. IsFiniteSet({d})
  BY FS_Singleton
<1>12. Adds(p, q, {d})
  BY <1>4, <1>6, <1>8, <1>10, <1>11 DEF Adds
<1> QED
  BY <1>3, <1>9, <1>12 DEF Sendable

\* A fetch that is asked for.
Asked(p, w) ==
    /\ w \in Calls /\ w.id = 0 /\ w.kind = "list" /\ w.list \in Lists
    /\ w.before = 0 /\ w.reply = "none" /\ w.got = Nothing /\ Names(p, w.list[1])

\* Who waits for the requests of q, after the fetches W were asked for.
Waited(p, q, W) ==
    \A d \in q.calls :
        /\ \A w \in W : d.kind = "list" /\ d.list = w.list => (w.load => d.load) /\ (w.quiet => d.quiet)
        /\ d \in W \/ \E c \in p.calls : Like(d, c) /\ (c.load => d.load) /\ (c.quiet => d.quiet)
        /\ d.load => (\E c \in p.calls : c.load) \/ (\E w \in W : w.load)

LEMMA SharedIs ==
    ASSUME NEW c \in Calls, NEW w \in Calls
    PROVE  LET d == Shared(c, w)
           IN d \in Calls /\ Like(d, c) /\ d.load = (c.load \/ w.load) /\ d.quiet = (c.quiet \/ w.quiet)
<1>1. PICK d : d = Shared(c, w)
  OBVIOUS
<1>2. PICK load, quiet, restore, cached :
         /\ load = (c.load \/ w.load) /\ quiet = (c.quiet \/ w.quiet)
         /\ restore = (IF w.restore = -1 THEN c.restore ELSE w.restore)
         /\ cached = (IF w.load THEN w.cached ELSE c.cached)
  OBVIOUS
<1>3. load \in BOOLEAN /\ quiet \in BOOLEAN /\ restore \in Nat \cup {-1} /\ cached \in Nat
  BY <1>2 DEF Calls
<1>4. d = [c EXCEPT !.load = load, !.quiet = quiet, !.restore = restore, !.cached = cached]
  BY <1>1, <1>2 DEF Shared
<1>5. d \in Calls
  BY <1>3, <1>4, ZenonT(60) DEF Calls
<1>6. d.load = (c.load \/ w.load) /\ d.quiet = (c.quiet \/ w.quiet)
  BY <1>1 DEF Shared, Calls
<1>7. Like(d, c)
  BY <1>1 DEF Shared, Calls, Like
<1> QED
  BY <1>1, <1>5, <1>6, <1>7

LEMMA FetchIs ==
    ASSUME NEW p, PageTyped(p), NEW W, IsFiniteSet(W), \A w \in W : Asked(p, w),
           \A v, w \in W : v.list = w.list => v = w
    PROVE  LET q == FetchMailLists(p, W) IN
           \E r : Mapped(p, r) /\ Adds(r, q, {w \in W : NoFetch(p, w.list)}) /\ Waited(p, q, W)
<1> DEFINE Meant(c) == {w \in W : c.kind = "list" /\ c.list = w.list}
           G(c) == IF Meant(c) = {} THEN c ELSE Shared(c, CHOOSE w \in Meant(c) : TRUE)
           N == {w \in W : NoFetch(p, w.list)}
<1>1. /\ p \in Pages /\ p.calls \in SUBSET Calls /\ W \in SUBSET Calls
      /\ \A c \in p.calls : CallFits(c) /\ c \in Calls
  BY DEF PageTyped, Pages, Asked
<1>2. ASSUME NEW c \in p.calls, Meant(c) # {}
      PROVE  \E w \in W : /\ c.kind = "list" /\ c.list = w.list /\ G(c) = Shared(c, w)
                          /\ \A v \in W : c.list = v.list => v = w
  <2>1. PICK w : w = CHOOSE v \in Meant(c) : TRUE
    OBVIOUS
  <2>2. w \in Meant(c)
    BY <1>2, <2>1
  <2> QED
    BY <1>2, <2>1, <2>2
<1>3. \A c \in p.calls : Meant(c) = {} => G(c) = c
  OBVIOUS
<1>4. \A c \in p.calls : Meant(c) = {} <=> \A w \in W : ~(c.kind = "list" /\ c.list = w.list)
  OBVIOUS
<1> HIDE DEF G
<1> HIDE DEF Meant
<1>5. ASSUME NEW c \in p.calls
      PROVE  /\ G(c) \in Calls /\ Like(G(c), c) /\ (c.load => G(c).load) /\ (c.quiet => G(c).quiet)
             /\ \A w \in W : c.kind = "list" /\ c.list = w.list
                               => (w.load => G(c).load) /\ (w.quiet => G(c).quiet)
             /\ G(c).load => c.load \/ \E w \in W : w.load
  <2>1. CASE Meant(c) = {}
    <3>1. Like(c, c)
      BY DEF Like
    <3> QED
      BY <1>1, <1>3, <1>4, <2>1, <3>1
  <2>2. CASE Meant(c) # {}
    <3>1. PICK w \in W : /\ c.kind = "list" /\ c.list = w.list /\ G(c) = Shared(c, w)
                         /\ \A v \in W : c.list = v.list => v = w
      BY <1>2, <2>2
    <3>2. c \in Calls /\ w \in Calls
      BY <1>1
    <3>3. PICK d : d = Shared(c, w)
      OBVIOUS
    <3>4. d \in Calls /\ Like(d, c) /\ d.load = (c.load \/ w.load) /\ d.quiet = (c.quiet \/ w.quiet)
      BY <3>2, <3>3, SharedIs
    <3> HIDE DEF Shared
    <3> QED
      BY <3>1, <3>3, <3>4
  <2> QED
    BY <2>1, <2>2
<1>6. PICK f : f = [c \in p.calls |-> G(c)]
  OBVIOUS
<1>7. f \in [p.calls -> Calls] /\ \A c \in p.calls : f[c] = G(c) /\ Like(f[c], c)
  BY <1>5, <1>6
<1>8. PICK R : R = {f[c] : c \in p.calls}
  OBVIOUS
<1>9. PICK r : r = [p EXCEPT !.calls = R]
  OBVIOUS
<1>10. Mapped(p, r) /\ r.calls = R
  BY <1>1, <1>7, <1>8, <1>9, MappedIs
<1>11. R = {G(c) : c \in p.calls}
  BY <1>7, <1>8
<1>12. PICK C : C = R \cup N
  OBVIOUS
<1>13. C \in SUBSET Calls /\ N \in SUBSET W
  BY <1>1, <1>5, <1>11, <1>12
<1>14. PICK q : q = [p EXCEPT !.calls = C]
  OBVIOUS
<1>15. q \in Pages /\ SameView(p, q) /\ q.calls = C
  BY <1>1, <1>13, <1>14, WithCalls
<1>16. SameView(p, r) /\ r \in Pages
  BY <1>10 DEF Mapped
<1>17. FetchMailLists(p, W)
      = [p EXCEPT !.calls = (p.calls \ UNION {FetchesOf(p, w.list) : w \in W})
                            \cup (UNION {{Shared(c, w) : c \in FetchesOf(p, w.list)} : w \in W})
                            \cup {w \in W : FetchesOf(p, w.list) = {}}]
  BY DEF FetchMailLists
<1>18. FetchMailLists(p, W) = q
  <2> DEFINE under(w) == FetchesOf(p, w.list)
             A == p.calls \ UNION {under(w) : w \in W}
             B == UNION {{Shared(c, w) : c \in under(w)} : w \in W}
             D == {w \in W : under(w) = {}}
  <2>1. D = N
    BY DEF NoFetch
  <2>2. \A w \in W, c \in p.calls : c \in under(w) <=> c.kind = "list" /\ c.list = w.list
    BY DEF FetchesOf
  <2>3. \A w \in W : under(w) \subseteq p.calls
    BY DEF FetchesOf
  <2>4. A = p.calls \ UNION {FetchesOf(p, w.list) : w \in W}
    OBVIOUS
  <2>5. B = UNION {{Shared(c, w) : c \in FetchesOf(p, w.list)} : w \in W}
    OBVIOUS
  <2>6. D = {w \in W : FetchesOf(p, w.list) = {}}
    OBVIOUS
  <2> HIDE DEF under
  <2>7. A = {c \in p.calls : Meant(c) = {}}
    BY <1>4, <2>2, <2>3
  <2>8. B = {G(c) : c \in {d \in p.calls : Meant(d) # {}}}
    <3>1. ASSUME NEW w \in W, NEW c \in under(w) PROVE c \in p.calls /\ Meant(c) # {} /\ G(c) = Shared(c, w)
      <4>1. c \in p.calls /\ c.kind = "list" /\ c.list = w.list
        BY <2>2, <2>3
      <4>2. Meant(c) # {}
        BY <1>4, <4>1
      <4> QED
        BY <1>2, <4>1, <4>2
    <3>2. ASSUME NEW c \in p.calls, Meant(c) # {} PROVE \E w \in W : c \in under(w) /\ G(c) = Shared(c, w)
      BY <1>2, <2>2, <3>2
    <3>3. \A x : x \in B <=> \E w \in W : \E c \in under(w) : x = Shared(c, w)
      OBVIOUS
    <3>4. \A x : x \in B => x \in {G(c) : c \in {d \in p.calls : Meant(d) # {}}}
      BY <3>1, <3>3
    <3>5. \A c \in p.calls : Meant(c) # {} => G(c) \in B
      BY <3>2, <3>3
    <3> HIDE DEF B
    <3> QED
      BY <3>4, <3>5
  <2> HIDE DEF A, B, D, N
  <2>9. FetchMailLists(p, W) = [p EXCEPT !.calls = A \cup B \cup D]
    BY <1>17, <2>4, <2>5, <2>6
  <2>10. A \cup B = R
    BY <1>3, <1>11, <2>7, <2>8
  <2> QED
    BY <1>12, <1>14, <2>1, <2>9, <2>10
<1>19. Adds(r, q, N)
  <2>1. SameView(r, q)
    BY <1>15, <1>16 DEF SameView
  <2>2. IsFiniteSet(N)
    BY <1>13, FS_Subset
  <2>3. \A a : Names(p, a) => Names(r, a)
    <3>1. \A c \in p.calls : \E d \in r.calls : Like(d, c)
      BY <1>7, <1>8, <1>10
    <3> QED
      BY <1>16, <3>1 DEF Names, SameView, Like
  <2>4. ASSUME NEW d \in N PROVE New(r, d)
    <3>1. Asked(p, d)
      BY <1>13
    <3> QED
      BY <2>3, <3>1, ListIs DEF New, Asked, CallFits
  <2>5. ASSUME NEW d \in N, NEW c \in R \cup N
        PROVE  /\ c.id = d.id /\ (c.kind # "list" \/ d.kind # "list") => c = d
               /\ c.kind = "list" /\ d.kind = "list" /\ c.list = d.list => c = d
               /\ c.kind = "add" /\ d.kind = "add" => c = d
    <3>1. Asked(p, d) /\ d \in W
      BY <1>13
    <3>2. CASE c \in N
      BY <1>13, <3>1, <3>2 DEF Asked
    <3>3. CASE c \in R
      <4>1. PICK b \in p.calls : Like(c, b)
        BY <1>7, <1>8, <3>3
      <4>2. CallFits(b)
        BY <1>1
      <4>3. ~(b.kind = "list" /\ b.list = d.list)
        BY NoFetchIs
      <4> QED
        BY <3>1, <4>1, <4>2, <4>3 DEF Asked, Like, CallFits
    <3> QED
      BY <3>2, <3>3
  <2> QED
    BY <1>10, <1>12, <1>15, <2>1, <2>2, <2>4, <2>5 DEF Adds
<1>20. Waited(p, q, W)
  <2> SUFFICES ASSUME NEW d \in q.calls
               PROVE  /\ \A w \in W : d.kind = "list" /\ d.list = w.list
                                        => (w.load => d.load) /\ (w.quiet => d.quiet)
                      /\ d \in W \/ \E c \in p.calls :
                                        Like(d, c) /\ (c.load => d.load) /\ (c.quiet => d.quiet)
                      /\ d.load => (\E c \in p.calls : c.load) \/ (\E w \in W : w.load)
    BY DEF Waited
  <2>1. CASE d \in N
    BY <1>13, <2>1
  <2>2. CASE d \in R
    <3>1. PICK c \in p.calls : d = G(c)
      BY <1>11, <2>2
    <3> QED
      BY <1>5, <3>1 DEF Like
  <2> QED
    BY <1>12, <1>15, <2>1, <2>2
<1> QED
  BY <1>10, <1>18, <1>19, <1>20

(***************************************************************************)
(* The cached lists                                                        *)
(***************************************************************************)
LEMMA CacheIs ==
    \A m : m \in Caches <=> /\ DOMAIN m \subseteq Lists /\ m = [l \in DOMAIN m |-> m[l]]
                            /\ \A l \in DOMAIN m : m[l] \in Entries
<1>1. ASSUME NEW m \in Caches
      PROVE  /\ DOMAIN m \subseteq Lists /\ m = [l \in DOMAIN m |-> m[l]]
             /\ \A l \in DOMAIN m : m[l] \in Entries
  <2>1. PICK D \in SUBSET Lists : m \in [D -> Entries]
    BY DEF Caches
  <2> QED
    BY <2>1
<1>2. ASSUME NEW m, DOMAIN m \subseteq Lists, m = [l \in DOMAIN m |-> m[l]],
             \A l \in DOMAIN m : m[l] \in Entries
      PROVE  m \in Caches
  <2>1. m \in [DOMAIN m -> Entries]
    BY <1>2
  <2> QED
    BY <1>2, <2>1 DEF Caches
<1> QED
  BY <1>1, <1>2

\* All the invariant looks at is the same, the cached lists aside.
SameRows(p, q) ==
    /\ q.account = p.account /\ q.folder = p.folder /\ q.key = p.key /\ q.cache = p.cache
    /\ q.at = p.at /\ q.known = p.known /\ q.ahead = p.ahead /\ q.versions = p.versions
    /\ q.more = p.more /\ q.oldest = p.oldest /\ q.calls = p.calls

\* The entry of l in the cache is e.
Put(p, q, l, e) ==
    /\ DOMAIN q.lists = DOMAIN p.lists \cup {l} /\ q.lists[l] = e
    /\ \A k \in DOMAIN p.lists : k # l => q.lists[k] = p.lists[k]

LEMMA PutIs ==
    ASSUME NEW p \in Pages, NEW l \in Lists, NEW e \in Entries
    PROVE  LET q == PutListCache(p, l, e)
           IN q \in Pages /\ SameRows(p, q) /\ Put(p, q, l, e) /\ q.index = p.index
<1>1. PICK m : m = [k \in DOMAIN p.lists \cup {l} |-> IF k = l THEN e ELSE p.lists[k]]
  OBVIOUS
<1>2. p.lists \in Caches
  BY DEF Pages
<1>3. DOMAIN m \subseteq Lists /\ \A k \in DOMAIN m : m[k] \in Entries
  BY <1>1, <1>2, CacheIs
<1>4. m = [k \in DOMAIN m |-> m[k]]
  BY <1>1
<1>5. m \in Caches
  BY <1>3, <1>4, CacheIs
<1>6. PICK q : q = [p EXCEPT !.lists = m]
  OBVIOUS
<1>7. q \in Pages /\ SameRows(p, q) /\ q.lists = m /\ q.index = p.index
  BY <1>5, <1>6 DEF Pages, SameRows
<1>8. Put(p, q, l, e)
  BY <1>1, <1>7 DEF Put
<1>9. PutListCache(p, l, e) = q
  BY <1>1, <1>6 DEF PutListCache
<1> QED
  BY <1>7, <1>8, <1>9

\* What is shown is what is cached.
Synced(p, q) ==
    /\ q \in Pages /\ SameRows(p, q)
    /\ ~Shown(p) => q.lists = p.lists
    /\ Shown(p) => \E e \in Entries : /\ e.mails = p.cache /\ e.at = p.at
                                      /\ e.more = p.more /\ e.oldest = p.oldest
                                      /\ Put(p, q, p.key, e)

LEMMA SyncIs ==
    ASSUME NEW p \in Pages
    PROVE  Synced(p, SyncListCache(p))
<1>1. CASE ~Shown(p)
  BY <1>1 DEF Shown, SyncListCache, Synced, SameRows
<1>2. CASE Shown(p)
  <2>1. PICK e : e = [mails |-> p.cache, more |-> p.more, oldest |-> p.oldest, at |-> p.at,
                      total |-> IF p.key \in DOMAIN p.lists THEN p.lists[p.key].total ELSE 0]
    OBVIOUS
  <2>2. p.lists \in Caches /\ p.key \in Lists
    BY <1>2 DEF Pages, Shown
  <2>3. PICK total \in Nat : total = IF p.key \in DOMAIN p.lists THEN p.lists[p.key].total ELSE 0
    BY <2>2, CacheIs DEF Entries
  <2>4. e \in Entries /\ e.mails = p.cache /\ e.at = p.at /\ e.more = p.more /\ e.oldest = p.oldest
    BY <2>1, <2>3 DEF Entries, Pages
  <2>5. SyncListCache(p) = PutListCache(p, p.key, e)
    BY <1>2, <2>1 DEF SyncListCache, Shown
  <2> QED
    BY <1>2, <2>2, <2>4, <2>5, PutIs DEF Synced
<1> QED
  BY <1>1, <1>2

LEMMA RenderIs ==
    ASSUME NEW p \in Pages
    PROVE  Synced(p, RenderMailList(p))
<1>1. PICK d : d = [p EXCEPT !.drawn = TRUE]
  OBVIOUS
<1>2. /\ d \in Pages /\ SameRows(p, d) /\ d.lists = p.lists
  BY <1>1 DEF Pages, SameRows
<1>3. RenderMailList(p) = SyncListCache(d)
  BY <1>1 DEF RenderMailList
<1>4. Synced(d, SyncListCache(d))
  BY <1>2, SyncIs
<1>5. Shown(d) <=> Shown(p)
  BY <1>2 DEF Shown, Active, SameRows
<1>6. \A q, l, e : Put(d, q, l, e) <=> Put(p, q, l, e)
  BY <1>2 DEF Put
<1> QED
  BY <1>2, <1>3, <1>4, <1>5, <1>6 DEF Synced, SameRows

\* Redrawing what is as new as the cached list changes no more than its rows.
LEMMA SyncedKeeps ==
    ASSUME NEW p, NEW q, PageTyped(p), SameAge(p), Synced(p, q)
    PROVE  /\ PageTyped(q) /\ (\A I : Named(p, I) => Named(q, I))
           /\ SameAge(q) /\ (InStep(p) => InStep(q)) /\ DOMAIN q.lists = DOMAIN p.lists
           /\ (Stored(p) /\ (Shown(p) => Of(p.key, p.cache)) => Stored(q))
           /\ (Continued(p) => Continued(q)) /\ (Searched(p) => Searched(q))
           /\ \A l : NoFetch(q, l) <=> NoFetch(p, l)
           /\ \A A : Listed(p, A) => Listed(q, A)
<1>1. /\ q \in Pages /\ SameRows(p, q) /\ Active(q) = Active(p) /\ (Shown(q) <=> Shown(p))
      /\ q.calls = p.calls
  BY DEF Synced, SameRows, Active, Shown
<1>2. /\ DOMAIN q.lists = DOMAIN p.lists
      /\ \A l \in DOMAIN p.lists : q.lists[l].at = p.lists[l].at
      /\ \A l \in DOMAIN p.lists : \/ q.lists[l].mails = p.lists[l].mails
                                   \/ l = p.key /\ Shown(p) /\ q.lists[l].mails = p.cache
  <2>1. CASE ~Shown(p)
    BY <2>1 DEF Synced
  <2>2. CASE Shown(p)
    <3>1. PICK e \in Entries : e.mails = p.cache /\ e.at = p.at /\ Put(p, q, p.key, e)
      BY <2>2 DEF Synced
    <3>2. p.key \in DOMAIN p.lists /\ p.lists[p.key].at = p.at
      BY <2>2 DEF SameAge
    <3> QED
      BY <2>2, <3>1, <3>2 DEF Put
  <2> QED
    BY <2>1, <2>2
<1>3. \A l : NoFetch(q, l) <=> NoFetch(p, l)
  BY <1>1, NoFetchIs
<1>4. PageTyped(q)
  BY <1>1 DEF PageTyped, SameRows, Distinct
<1>5. ASSUME NEW I, Named(p, I) PROVE Named(q, I)
  BY <1>1, <1>2, <1>5 DEF Named, Names, SameRows
<1>6. SameAge(q)
  BY <1>1, <1>2 DEF SameAge, SameRows
<1>7. InStep(p) => InStep(q)
  BY <1>1, <1>6 DEF InStep, SameRows, FetchesOf
<1>8. Stored(p) /\ (Shown(p) => Of(p.key, p.cache)) => Stored(q)
  BY <1>1, <1>2 DEF Stored, SameRows
<1>9. (Continued(p) => Continued(q)) /\ (Searched(p) => Searched(q))
  BY <1>1 DEF Continued, Searched, SameRows
<1>10. ASSUME NEW A, Listed(p, A) PROVE Listed(q, A)
  BY <1>1, <1>2, <1>3, <1>10 DEF Listed, SameRows, NoFetch
<1> QED
  BY <1>2, <1>3, <1>4, <1>5, <1>6, <1>7, <1>8, <1>9, <1>10

LEMMA LeastExists ==
    ASSUME NEW D \in SUBSET Nat, IsFiniteSet(D), D # {}
    PROVE  (CHOOSE i \in D : \A k \in D : i <= k) \in D
<1>1. Cardinality(D) \in Nat /\ Cardinality(D) # 0
  BY FS_CardinalityType, FS_EmptySet
<1>2. PICK i \in D : Cardinality(AtLeast(D, i)) = Cardinality(D)
  BY <1>1, NthIs
<1>3. \A k \in D : k >= i
  BY <1>2, FS_Subset DEF AtLeast
<1>4. \A k \in D : i <= k
  BY <1>3
<1> QED
  BY <1>4

\* The first of some places in a list.
LEMMA FirstPlace ==
    ASSUME NEW s \in Seq(Mails), NEW P \in SUBSET (1 .. Len(s)), P # {}
    PROVE  (CHOOSE i \in P : \A k \in P : i <= k) \in 1 .. Len(s)
<1>1. IsFiniteSet(1 .. Len(s))
  BY FS_Interval
<1>2. IsFiniteSet(P)
  BY <1>1, FS_Subset
<1>3. P \in SUBSET Nat
  OBVIOUS
<1> QED
  BY <1>2, <1>3, LeastExists

\* The rows are now those of l.
Applied(p, q, l, e) ==
    /\ q \in Pages /\ q.key = l /\ q.cache = e.mails /\ q.at = e.at
    /\ q.more = e.more /\ q.oldest = e.oldest
    /\ q.account = p.account /\ q.folder = p.folder /\ q.known = p.known /\ q.ahead = p.ahead
    /\ q.versions = p.versions /\ q.lists = p.lists /\ q.calls = p.calls

LEMMA ApplyIs ==
    ASSUME NEW p \in Pages, NEW l \in Lists, NEW e \in Entries
    PROVE  \E d : Applied(p, d, l, e) /\ Synced(d, ApplyMailList(p, l, e))
<1> DEFINE same == {i \in 1 .. Len(e.mails) :
                       p.key = l /\ Selected(p) /\ e.mails[i].uid = p.cache[p.index].uid}
<1>1. PICK n : n = IF same = {} THEN 0 ELSE CHOOSE i \in same : \A j \in same : i <= j
  OBVIOUS
<1>2. e.mails \in Seq(Mails)
  BY DEF Entries
<1>3. n \in Nat
  <2>1. same \in SUBSET (1 .. Len(e.mails)) /\ Len(e.mails) \in Nat
    BY <1>2
  <2> HIDE DEF same
  <2> QED
    BY <1>1, <1>2, <2>1, FirstPlace
<1>4. PICK d : d = [p EXCEPT !.key = l, !.cache = e.mails, !.more = e.more, !.oldest = e.oldest,
                             !.at = e.at, !.index = n]
  OBVIOUS
<1>5. d \in Pages
  BY <1>2, <1>3, <1>4 DEF Pages, Entries
<1>6. Applied(p, d, l, e)
  BY <1>4, <1>5 DEF Applied, Pages
<1>7. ApplyMailList(p, l, e) = RenderMailList(d)
  BY <1>1, <1>4 DEF ApplyMailList
<1> QED
  BY <1>5, <1>6, <1>7, RenderIs

\* A list the page has, of the age it has there, can be shown.
LEMMA ApplyKeeps ==
    ASSUME NEW p, PageTyped(p), NEW l \in Lists, NEW e \in Entries, Names(p, l[1]),
           l = Active(p) => l \in DOMAIN p.lists /\ p.lists[l].at = e.at
    PROVE  LET q == ApplyMailList(p, l, e) IN
           /\ PageTyped(q) /\ (\A I : Named(p, I) => Named(q, I)) /\ SameAge(q)
           /\ q.key = l /\ q.at = e.at /\ q.account = p.account /\ q.folder = p.folder
           /\ q.versions = p.versions /\ q.calls = p.calls /\ DOMAIN q.lists = DOMAIN p.lists
           /\ Stored(p) /\ (l = Active(p) => Of(l, e.mails))
                => Stored(q) /\ (Shown(q) => Of(q.key, q.cache))
           /\ \A k : NoFetch(q, k) <=> NoFetch(p, k)
           /\ \A A : Listed(p, A) => Listed(q, A)
<1>1. PICK q : q = ApplyMailList(p, l, e)
  OBVIOUS
<1>2. PICK d : Applied(p, d, l, e) /\ Synced(d, q)
  BY <1>1, ApplyIs DEF PageTyped
<1>3. Active(d) = Active(p) /\ (Shown(d) <=> l = Active(p)) /\ d.calls = p.calls
  BY <1>2, ListIs DEF Applied, Active, Shown
<1>4. PageTyped(d)
  BY <1>2, <1>3 DEF PageTyped, Applied, Distinct
<1>5. SameAge(d)
  BY <1>2, <1>3 DEF SameAge, Applied
<1>6. ASSUME NEW I, Named(p, I) PROVE Named(d, I)
  <2>1. \A a : Names(d, a) => Names(p, a)
    BY <1>2 DEF Names, Applied
  <2> QED
    BY <1>3, <1>6, <2>1 DEF Named
<1>7. \A k : NoFetch(d, k) <=> NoFetch(p, k)
  BY <1>3, NoFetchIs
<1>8. ASSUME NEW A, Listed(p, A) PROVE Listed(d, A)
  BY <1>2, <1>7, <1>8 DEF Listed, Applied, NoFetch
<1>9. Stored(p) => Stored(d)
  BY <1>2 DEF Stored, Applied
<1>10. /\ PageTyped(q) /\ (\A I : Named(d, I) => Named(q, I)) /\ SameAge(q)
       /\ DOMAIN q.lists = DOMAIN d.lists
       /\ (Stored(d) /\ (Shown(d) => Of(d.key, d.cache)) => Stored(q))
       /\ \A k : NoFetch(q, k) <=> NoFetch(d, k)
       /\ \A A : Listed(d, A) => Listed(q, A)
  BY <1>2, <1>4, <1>5, SyncedKeeps
<1>11. /\ SameRows(d, q) /\ d.key = l /\ d.cache = e.mails /\ d.at = e.at /\ DOMAIN d.lists = DOMAIN p.lists
       /\ d.account = p.account /\ d.folder = p.folder /\ d.versions = p.versions
  BY <1>2 DEF Synced, Applied
<1>12. q.key = l /\ q.cache = e.mails /\ q.at = e.at /\ q.account = p.account /\ q.folder = p.folder
       /\ q.versions = p.versions /\ q.calls = p.calls /\ Active(q) = Active(p)
  BY <1>3, <1>11 DEF SameRows, Active
<1>13. Stored(p) /\ (l = Active(p) => Of(l, e.mails)) => Stored(q) /\ (Shown(q) => Of(q.key, q.cache))
  BY <1>3, <1>9, <1>10, <1>11, <1>12 DEF Shown
<1> QED
  BY <1>1, <1>6, <1>7, <1>8, <1>10, <1>11, <1>12, <1>13

(***************************************************************************)
(* The mails the page skips                                                *)
(***************************************************************************)
\* What the bridge has: box and top are B and T.
Served(B, T) ==
    /\ B \in [Lists -> SUBSET Nat] /\ T \in [Lists -> Nat]
    /\ \A l \in Lists : IsFiniteSet(B[l]) /\ Given(B[l], T[l])

LEMMA PageHas ==
    ASSUME NEW p, PageTyped(p)
    PROVE  /\ p \in Pages /\ Uids(p.cache) \in SUBSET Nat /\ p.more \in BOOLEAN /\ p.oldest \in Nat
           /\ p.cache \in Seq(Mails) /\ p.key \in Lists \cup {None}
           /\ \A l \in DOMAIN p.lists : l \in Lists /\ p.lists[l] \in Entries
           /\ \A c \in p.calls : c \in Calls /\ CallFits(c)
           /\ Shown(p) => p.key \in Lists
           /\ \A e \in Entries : /\ e.mails \in Seq(Mails) /\ Uids(e.mails) \in SUBSET Nat
                                 /\ e.more \in BOOLEAN /\ e.oldest \in Nat
           /\ \A c \in Calls : c.got \in Entries /\ c.uids \in SUBSET Nat /\ c.before \in Nat
<1>1. p \in Pages /\ p.cache \in Seq(Mails) /\ p.more \in BOOLEAN /\ p.oldest \in Nat
      /\ p.lists \in Caches /\ p.key \in Lists \cup {None}
  BY DEF PageTyped, Pages
<1>2. \A l \in DOMAIN p.lists : l \in Lists /\ p.lists[l] \in Entries
  BY <1>1, CacheIs
<1>3. \A c \in p.calls : c \in Calls /\ CallFits(c)
  BY DEF PageTyped, Pages
<1>4. \A e \in Entries : e.mails \in Seq(Mails) /\ e.more \in BOOLEAN /\ e.oldest \in Nat
  BY DEF Entries
<1>5. \A c \in Calls : c.got \in Entries /\ c.uids \in SUBSET Nat /\ c.before \in Nat
  BY DEF Calls
<1>6. Shown(p) => p.key \in Lists
  BY <1>1 DEF Shown
<1> QED
  BY <1>1, <1>2, <1>3, <1>4, <1>5, <1>6, UidsAre

LEMMA LaterRows ==
    ASSUME NEW S, NEW t, NEW R, NEW n, Later(S, t, R, n), NEW p, PageTyped(p), RowsSkipNone(p, S, t)
    PROVE  RowsSkipNone(p, R, n)
<1>1. PICK U : U = Uids(p.cache)
  OBVIOUS
<1>2. /\ U \in SUBSET Nat /\ p.more \in BOOLEAN /\ p.oldest \in Nat /\ Given(U, t)
      /\ \A c \in p.calls : c \in Calls /\ c.uids \in SUBSET Nat
      /\ Skipless(S, U, p.more, p.oldest)
      /\ \A c \in Continuing(p) : c \in p.calls /\ Continues(c, U, S, t)
  BY <1>1, PageHas DEF RowsSkipNone, Continuing
<1>3. Given(U, n) /\ Skipless(R, U, p.more, p.oldest) /\ \A G : Behind(S, U, G) => Behind(R, U, G)
  <2>1. PICK more, place : more = p.more /\ place = p.oldest
    OBVIOUS
  <2>2. more \in BOOLEAN /\ place \in Nat /\ Skipless(S, U, more, place)
    BY <1>2, <2>1
  <2>3. Given(U, n) /\ Skipless(R, U, more, place) /\ \A G : Behind(S, U, G) => Behind(R, U, G)
    BY <1>2, <2>2, LaterSkipless
  <2> QED
    BY <2>1, <2>3
<1>4. \A c \in Continuing(p) : Continues(c, U, R, n)
  BY <1>2, LaterContinues
<1>5. \A c \in Continuing(p) : Given(c.uids, t)
  BY <1>2 DEF Continues
<1>6. \A c \in Continuing(p) : \A G : Behind(S, c.uids, G) => Behind(R, c.uids, G)
  BY <1>2, <1>5, LaterSkipless
<1>7. ASSUME NEW c \in Continuing(p), NEW d \in Continuing(p), NEW u \in R \ U
      PROVE  UpTo(u, c.uids) <=> UpTo(u, d.uids)
  <2>1. /\ c.uids \in SUBSET Nat /\ d.uids \in SUBSET Nat /\ Given(c.uids, t) /\ Given(d.uids, t)
        /\ \A v \in S \ U : UpTo(v, c.uids) <=> UpTo(v, d.uids)
    BY <1>1, <1>2, <1>5 DEF RowsSkipNone
  <2>2. u \in S \/ u > t
    BY DEF Later
  <2>3. u \in Nat /\ t \in Nat
    BY DEF Later
  <2> QED
    BY <2>1, <2>2, <2>3 DEF UpTo, Given
<1>8. \A f \in FetchesOf(p, p.key) : f.reply = "ok" =>
         /\ Behind(S, U, Uids(f.got.mails))
         /\ \A c \in Continuing(p) : Behind(S, c.uids, Uids(f.got.mails))
  BY <1>1 DEF RowsSkipNone
<1>9. \A f \in FetchesOf(p, p.key) : f.reply = "ok" =>
         /\ Behind(R, U, Uids(f.got.mails))
         /\ \A c \in Continuing(p) : Behind(R, c.uids, Uids(f.got.mails))
  BY <1>3, <1>6, <1>8
<1> QED
  BY <1>1, <1>3, <1>4, <1>7, <1>9 DEF RowsSkipNone

\* Arrivals and removals skip nothing.
LEMMA LaterSkipsNone ==
    ASSUME NEW p, PageTyped(p), NEW B, NEW T, NEW C, NEW N, Served(B, T), Served(C, N),
           \A l \in Lists : T[l] <= N[l] /\ \A u \in C[l] : u \in B[l] \/ u > T[l],
           SkipsNone(p, B, T)
    PROVE  SkipsNone(p, C, N)
<1>1. \A l \in Lists : Later(B[l], T[l], C[l], N[l])
  BY DEF Served, Later
<1>2. ASSUME NEW l \in Lists, NEW e \in Entries, Whole(e, B[l], T[l]) PROVE Whole(e, C[l], N[l])
  <2>1. Later(B[l], T[l], C[l], N[l])
    BY <1>1
  <2>2. Uids(e.mails) \in SUBSET Nat /\ e.more \in BOOLEAN /\ e.oldest \in Nat
    BY PageHas
  <2>3. Given(Uids(e.mails), T[l]) /\ Skipless(B[l], Uids(e.mails), e.more, e.oldest)
    BY <1>2 DEF Whole
  <2> QED
    BY <2>1, <2>2, <2>3, LaterSkipless DEF Whole
<1>3. ASSUME NEW l \in DOMAIN p.lists PROVE Whole(p.lists[l], C[l], N[l])
  BY <1>2, PageHas DEF SkipsNone
<1>4. ASSUME NEW c \in p.calls PROVE AnswerFits(p, c, C[c.list], N[c.list])
  <2>1. PICK l : l = c.list
    OBVIOUS
  <2>2. c \in Calls /\ CallFits(c) /\ c.got \in Entries /\ c.uids \in SUBSET Nat
        /\ AnswerFits(p, c, B[l], T[l])
    BY <2>1, PageHas DEF SkipsNone
  <2>3. ASSUME c.kind = "list", c.reply = "ok"
        PROVE  /\ Whole(c.got, C[l], N[l])
               /\ l \in DOMAIN p.lists => Behind(C[l], Uids(p.lists[l].mails), Uids(c.got.mails))
    <3>1. l \in Lists /\ Whole(c.got, B[l], T[l])
      BY <2>1, <2>2, <2>3 DEF CallFits, AnswerFits
    <3>2. ASSUME l \in DOMAIN p.lists PROVE Behind(C[l], Uids(p.lists[l].mails), Uids(c.got.mails))
      <4>1. Whole(p.lists[l], B[l], T[l]) /\ Uids(p.lists[l].mails) \in SUBSET Nat
            /\ Behind(B[l], Uids(p.lists[l].mails), Uids(c.got.mails))
        BY <2>1, <2>2, <2>3, <3>2, PageHas DEF SkipsNone, AnswerFits
      <4> QED
        BY <1>1, <3>1, <4>1, LaterSkipless DEF Whole
    <3> QED
      BY <1>2, <2>2, <3>1, <3>2
  <2>4. ASSUME c.kind \in {"delete", "move", "batchDelete"}, c.reply = "ok"
        PROVE  l \in Lists /\ Given(c.uids, N[l]) /\ C[l] \cap c.uids = {}
    <3>1. l \in Lists /\ Given(c.uids, T[l]) /\ B[l] \cap c.uids = {}
      BY <2>1, <2>2, <2>4 DEF AnswerFits
    <3>2. Later(B[l], T[l], C[l], N[l])
      BY <1>1, <3>1
    <3>3. Given(c.uids, N[l])
      BY <2>2, <3>1, <3>2, LaterSkipless
    <3>4. \A u \in C[l] : u \in B[l] \/ u \notin c.uids
      BY <2>2, <3>1, <3>2 DEF Later, Given
    <3> QED
      BY <3>1, <3>3, <3>4
  <2> QED
    BY <2>1, <2>2, <2>3, <2>4 DEF AnswerFits
<1>5. Shown(p) => RowsSkipNone(p, C[p.key], N[p.key])
  BY <1>1, PageHas, LaterRows DEF SkipsNone
<1> QED
  BY <1>3, <1>4, <1>5 DEF SkipsNone

\* The page continues the rows it shows.
Asks(q, d) ==
    /\ d.reply = "none" /\ (d.kind = "list" => d.before = 0)
    /\ d.kind = "more" /\ d.current /\ Shown(q) =>
          d.uids = Uids(q.cache) /\ q.cache # << >> /\ q.more /\ d.before = q.oldest

\* q has no lists, rows or requests but those of p and new requests.
Narrows(p, q) ==
    /\ \A l \in DOMAIN q.lists :
          /\ l \in DOMAIN p.lists /\ q.lists[l].mails = p.lists[l].mails
          /\ q.lists[l].more = p.lists[l].more /\ q.lists[l].oldest = p.lists[l].oldest
    /\ \A d \in q.calls : Asks(q, d) \/ \E c \in p.calls : Like(d, c)
    /\ Shown(q) => /\ Shown(p) /\ q.key = p.key /\ q.cache = p.cache
                   /\ q.more = p.more /\ q.oldest = p.oldest

LEMMA LikeContinues ==
    ASSUME NEW d, NEW c, Like(d, c)
    PROVE  \A U, S, t : Continues(c, U, S, t) => Continues(d, U, S, t)
BY DEF Like, Continues, Straight

LEMMA FreshContinues ==
    ASSUME NEW U \in SUBSET Nat, NEW S \in SUBSET Nat, NEW t, NEW more, NEW oldest, Given(U, t),
           Skipless(S, U, more, oldest), U # {},
           NEW d, d.reply = "none", d.uids = U, d.before = oldest
    PROVE  Continues(d, U, S, t) /\ \A u \in S \ U : UpTo(u, d.uids) <=> \A v \in U : u < v
<1>1. ASSUME NEW u \in S \ U
      PROVE  /\ UpTo(u, U) <=> \A v \in U : u < v
             /\ UpTo(u, U) => Place(S, u) < oldest
  <2>1. PICK w \in U : TRUE
    OBVIOUS
  <2>2. u \in Nat /\ w \in Nat
    OBVIOUS
  <2>3. CASE \A v \in U : v < u
    <3>1. \A v \in U : v \in Nat /\ v < u /\ ~(u <= v) /\ ~(u < v)
      BY <2>2, <2>3
    <3> QED
      BY <2>1, <3>1 DEF UpTo
  <2>4. CASE (\A v \in U : u < v) /\ Place(S, u) < oldest
    <3>1. u < w /\ u <= w
      BY <2>1, <2>2, <2>4
    <3> QED
      BY <2>4, <3>1 DEF UpTo
  <2> QED
    BY <2>3, <2>4 DEF Skipless
<1> QED
  BY <1>1 DEF Continues

LEMMA NarrowRows ==
    ASSUME NEW p, NEW q, Narrows(p, q), Shown(q), p.cache \in Seq(Mails),
           NEW S \in SUBSET Nat, NEW t, RowsSkipNone(p, S, t)
    PROVE  RowsSkipNone(q, S, t)
<1>1. PICK U : U = Uids(p.cache)
  OBVIOUS
<1>2. /\ U \in SUBSET Nat /\ (p.cache # << >> => U # {})
      /\ q.cache = p.cache /\ q.more = p.more /\ q.oldest = p.oldest /\ q.key = p.key
      /\ \A d \in q.calls : Asks(q, d) \/ \E c \in p.calls : Like(d, c)
  BY <1>1, UidsAre, NoUids DEF Narrows
<1>3. /\ Given(U, t) /\ Skipless(S, U, p.more, p.oldest)
      /\ \A c \in Continuing(p) : Continues(c, U, S, t)
      /\ \A c, d \in Continuing(p) : \A u \in S \ U : UpTo(u, c.uids) <=> UpTo(u, d.uids)
      /\ \A f \in FetchesOf(p, p.key) : f.reply = "ok" =>
            /\ Behind(S, U, Uids(f.got.mails))
            /\ \A c \in Continuing(p) : Behind(S, c.uids, Uids(f.got.mails))
  BY <1>1 DEF RowsSkipNone
<1>4. ASSUME NEW d \in Continuing(q)
      PROVE  \/ \E c \in Continuing(p) : Like(d, c)
             \/ d.uids = U /\ U # {} /\ d.before = p.oldest /\ d.reply = "none"
  <2>1. d \in q.calls /\ d.kind = "more" /\ d.current
    BY DEF Continuing
  <2>2. CASE Asks(q, d)
    BY <1>1, <1>2, <2>1, <2>2 DEF Asks
  <2>3. ASSUME NEW c \in p.calls, Like(d, c) PROVE c \in Continuing(p)
    BY <2>1, <2>3 DEF Like, Continuing
  <2> QED
    BY <1>2, <2>1, <2>2, <2>3
<1>5. ASSUME NEW d \in Continuing(q)
      PROVE  Continues(d, U, S, t) /\ \A G : (Behind(S, U, G) /\ \A c \in Continuing(p) : Behind(S, c.uids, G))
                                             => Behind(S, d.uids, G)
  <2>1. CASE \E c \in Continuing(p) : Like(d, c)
    <3>1. PICK c \in Continuing(p) : Like(d, c)
      BY <2>1
    <3>2. Continues(d, U, S, t)
      BY <1>3, <3>1, LikeContinues
    <3>3. d.uids = c.uids
      BY <3>1 DEF Like
    <3> QED
      BY <3>2, <3>3
  <2>2. CASE d.uids = U /\ U # {} /\ d.before = p.oldest /\ d.reply = "none"
    <3>1. Continues(d, U, S, t)
      BY <1>2, <1>3, <2>2, FreshContinues
    <3> QED
      BY <2>2, <3>1
  <2> QED
    BY <1>4, <2>1, <2>2
<1>6. ASSUME NEW c \in Continuing(q), NEW d \in Continuing(q), NEW u \in S \ U
      PROVE  UpTo(u, c.uids) <=> UpTo(u, d.uids)
  <2>1. CASE U # {}
    <3>1. Continues(c, U, S, t) /\ Continues(d, U, S, t)
      BY <1>5
    <3> QED
      BY <2>1, <3>1 DEF Continues
  <2>2. CASE U = {}
    <3>1. PICK a \in Continuing(p), b \in Continuing(p) : Like(c, a) /\ Like(d, b)
      BY <1>4, <2>2
    <3>2. c.uids = a.uids /\ d.uids = b.uids
      BY <3>1 DEF Like
    <3>3. UpTo(u, a.uids) <=> UpTo(u, b.uids)
      BY <1>3
    <3> QED
      BY <3>2, <3>3
  <2> QED
    BY <2>1, <2>2
<1>7. ASSUME NEW f \in FetchesOf(q, q.key), f.reply = "ok"
      PROVE  /\ Behind(S, U, Uids(f.got.mails))
             /\ \A d \in Continuing(q) : Behind(S, d.uids, Uids(f.got.mails))
  <2>1. f \in q.calls /\ f.kind = "list" /\ f.list = q.key
    BY DEF FetchesOf
  <2>2. PICK g \in p.calls : Like(f, g)
    BY <1>2, <1>7, <2>1 DEF Asks
  <2>3. g \in FetchesOf(p, p.key) /\ g.reply = "ok" /\ g.got = f.got
    BY <1>2, <1>7, <2>1, <2>2 DEF Like, FetchesOf
  <2>4. Behind(S, U, Uids(f.got.mails)) /\ \A c \in Continuing(p) : Behind(S, c.uids, Uids(f.got.mails))
    BY <1>3, <2>3
  <2> QED
    BY <1>5, <2>4
<1>8. Skipless(S, U, q.more, q.oldest) /\ Uids(q.cache) = U
  BY <1>1, <1>2, <1>3
<1> QED
  BY <1>3, <1>5, <1>6, <1>7, <1>8 DEF RowsSkipNone

LEMMA NarrowsKeeps ==
    ASSUME NEW p, NEW q, Narrows(p, q), p.cache \in Seq(Mails), Shown(p) => p.key \in Lists,
           NEW B, NEW T, Served(B, T), SkipsNone(p, B, T)
    PROVE  SkipsNone(q, B, T)
<1>1. ASSUME NEW l \in DOMAIN q.lists PROVE Whole(q.lists[l], B[l], T[l])
  <2>1. /\ l \in DOMAIN p.lists /\ q.lists[l].mails = p.lists[l].mails
        /\ q.lists[l].more = p.lists[l].more /\ q.lists[l].oldest = p.lists[l].oldest
    BY DEF Narrows
  <2>2. Whole(p.lists[l], B[l], T[l])
    BY <2>1 DEF SkipsNone
  <2> QED
    BY <2>1, <2>2 DEF Whole
<1>2. ASSUME NEW d \in q.calls PROVE AnswerFits(q, d, B[d.list], T[d.list])
  <2>1. CASE Asks(q, d)
    BY <2>1 DEF Asks, AnswerFits
  <2>2. ASSUME NEW c \in p.calls, Like(d, c) PROVE AnswerFits(q, d, B[d.list], T[d.list])
    <3>1. AnswerFits(p, c, B[c.list], T[c.list])
      BY DEF SkipsNone
    <3>2. \A l \in DOMAIN q.lists : l \in DOMAIN p.lists /\ q.lists[l].mails = p.lists[l].mails
      BY DEF Narrows
    <3>3. d.kind = c.kind /\ d.list = c.list /\ d.uids = c.uids /\ d.before = c.before
          /\ d.reply = c.reply /\ d.got = c.got
      BY <2>2 DEF Like
    <3> QED
      BY <3>1, <3>2, <3>3 DEF AnswerFits
  <2> QED
    BY <2>1, <2>2 DEF Narrows
<1>3. ASSUME Shown(q) PROVE RowsSkipNone(q, B[q.key], T[q.key])
  <2>1. Shown(p) /\ q.key = p.key /\ p.key \in Lists
    BY <1>3 DEF Narrows
  <2>2. B[p.key] \in SUBSET Nat
    BY <2>1 DEF Served
  <2>3. RowsSkipNone(p, B[p.key], T[p.key])
    BY <2>1 DEF SkipsNone
  <2> QED
    BY <1>3, <2>1, <2>2, <2>3, NarrowRows
<1> QED
  BY <1>1, <1>2, <1>3 DEF SkipsNone


(***************************************************************************)
(* What skips no mail                                                      *)
(***************************************************************************)
Spares(p, q) == \A B, T : Served(B, T) /\ SkipsNone(p, B, T) => SkipsNone(q, B, T)

LEMMA SparesTwice ==
    ASSUME NEW p, NEW q, NEW r, Spares(p, q), Spares(q, r)
    PROVE  Spares(p, r)
BY DEF Spares

LEMMA NarrowsSpares ==
    ASSUME NEW p \in Pages, NEW q, Narrows(p, q)
    PROVE  Spares(p, q)
<1>1. p.cache \in Seq(Mails) /\ (Shown(p) => p.key \in Lists)
  BY DEF Pages, Shown
<1> QED
  BY <1>1, NarrowsKeeps DEF Spares

LEMMA MappedSpares ==
    ASSUME NEW p \in Pages, NEW q, Mapped(p, q)
    PROVE  Spares(p, q)
<1>1. SameView(p, q) /\ (Shown(q) <=> Shown(p)) /\ \A d \in q.calls : \E c \in p.calls : Like(d, c)
  BY ViewKeeps DEF Mapped
<1>2. Narrows(p, q)
  BY <1>1 DEF Narrows, SameView
<1> QED
  BY <1>2, NarrowsSpares

LEMMA AddsSpares ==
    ASSUME NEW p \in Pages, NEW q, NEW N, Adds(p, q, N), \A d \in N : Asks(q, d)
    PROVE  Spares(p, q)
<1>1. SameView(p, q) /\ (Shown(q) <=> Shown(p)) /\ \A d \in q.calls : d \in N \/ (d \in p.calls /\ Like(d, d))
  BY ViewKeeps DEF Adds, Like
<1>2. Narrows(p, q)
  BY <1>1 DEF Narrows, SameView
<1> QED
  BY <1>2, NarrowsSpares

LEMMA SendSpares ==
    ASSUME NEW p, PageTyped(p), NEW call, Sendable(p, call),
           call.kind = "more" => call.uids = Uids(p.cache) /\ p.cache # << >> /\ p.more
                                 /\ call.before = p.oldest
    PROVE  Spares(p, Send(p, call))
<1>1. PICK q : q = Send(p, call)
  OBVIOUS
<1>2. PICK d : Adds(p, q, {d}) /\ d.kind = call.kind /\ d.uids = call.uids /\ d.before = call.before
  BY <1>1, SendIs
<1>3. d.reply = "none" /\ d.kind # "list" /\ SameView(p, q)
  BY <1>2 DEF Adds, New, Sendable
<1>4. Asks(q, d)
  BY <1>2, <1>3 DEF Asks, SameView
<1> QED
  BY <1>1, <1>2, <1>4, AddsSpares DEF PageTyped

LEMMA FetchSpares ==
    ASSUME NEW p, PageTyped(p), NEW W, IsFiniteSet(W), \A w \in W : Asked(p, w),
           \A v, w \in W : v.list = w.list => v = w
    PROVE  Spares(p, FetchMailLists(p, W))
<1>1. PICK q : q = FetchMailLists(p, W)
  OBVIOUS
<1>2. PICK r, N : N = {w \in W : NoFetch(p, w.list)} /\ Mapped(p, r) /\ Adds(r, q, N)
  BY <1>1, FetchIs
<1>3. \A d \in N : Asks(q, d)
  BY <1>2 DEF Asks, Asked
<1>4. r \in Pages /\ p \in Pages
  BY <1>2 DEF Mapped, PageTyped
<1>5. Spares(p, r) /\ Spares(r, q)
  BY <1>2, <1>3, <1>4, MappedSpares, AddsSpares
<1> QED
  BY <1>1, <1>5, SparesTwice

\* What is shown is cached: it skips none where it is, or where it was.
LEMMA SyncedSpares ==
    ASSUME NEW p \in Pages, NEW q, Synced(p, q)
    PROVE  Spares(p, q)
<1> SUFFICES ASSUME NEW B, NEW T, Served(B, T), SkipsNone(p, B, T)
             PROVE  SkipsNone(q, B, T)
  BY DEF Spares
<1>1. /\ SameRows(p, q) /\ (Shown(q) <=> Shown(p)) /\ q.calls = p.calls /\ q.key = p.key
      /\ (Shown(p) => RowsSkipNone(p, B[p.key], T[p.key]))
      /\ \A l \in DOMAIN p.lists : Whole(p.lists[l], B[l], T[l])
      /\ \A c \in p.calls : AnswerFits(p, c, B[c.list], T[c.list])
  BY DEF Synced, SameRows, Shown, Active, SkipsNone
<1>2. Shown(q) => RowsSkipNone(q, B[q.key], T[q.key])
  BY <1>1 DEF RowsSkipNone, SameRows, Continuing, FetchesOf
<1>3. CASE ~Shown(p)
  <2>1. q.lists = p.lists
    BY <1>3 DEF Synced
  <2> QED
    BY <1>1, <1>2, <2>1 DEF SkipsNone, AnswerFits
<1>4. CASE Shown(p)
  <2>1. PICK e, k : /\ k = p.key /\ e.mails = p.cache /\ e.more = p.more
                    /\ e.oldest = p.oldest /\ Put(p, q, k, e)
    BY <1>4 DEF Synced
  <2>2. /\ RowsSkipNone(p, B[k], T[k]) /\ DOMAIN q.lists = DOMAIN p.lists \cup {k}
        /\ q.lists[k] = e /\ \A l \in DOMAIN p.lists : l # k => q.lists[l] = p.lists[l]
    BY <1>1, <1>4, <2>1 DEF Put
  <2>3. Whole(e, B[k], T[k])
    BY <2>1, <2>2 DEF Whole, RowsSkipNone
  <2>4. \A l \in DOMAIN q.lists : Whole(q.lists[l], B[l], T[l])
    BY <1>1, <2>2, <2>3
  <2>5. ASSUME NEW c \in q.calls PROVE AnswerFits(q, c, B[c.list], T[c.list])
    <3>1. c \in p.calls /\ AnswerFits(p, c, B[c.list], T[c.list])
      BY <1>1
    <3>2. ASSUME c.kind = "list", c.reply = "ok", c.list = k
          PROVE  Behind(B[c.list], Uids(q.lists[c.list].mails), Uids(c.got.mails))
      <4>1. c \in FetchesOf(p, p.key)
        BY <2>1, <3>1, <3>2 DEF FetchesOf
      <4> QED
        BY <2>1, <2>2, <3>2, <4>1 DEF RowsSkipNone
    <3>3. c.list # k /\ c.list \in DOMAIN q.lists => c.list \in DOMAIN p.lists /\ q.lists[c.list] = p.lists[c.list]
      BY <2>2
    <3> QED
      BY <3>1, <3>2, <3>3 DEF AnswerFits
  <2> QED
    BY <1>2, <2>4, <2>5 DEF SkipsNone
<1> QED
  BY <1>3, <1>4

LEMMA RenderSpares ==
    ASSUME NEW p \in Pages
    PROVE  Spares(p, RenderMailList(p))
BY RenderIs, SyncedSpares

\* A list is shown while nothing continues what it replaces.
LEMMA ApplySpares ==
    ASSUME NEW p \in Pages, NEW l \in Lists, NEW e \in Entries,
           NEW g, g.lists = p.lists, g.calls = p.calls,
           NEW B, NEW T, Served(B, T), SkipsNone(g, B, T), Continuing(p) = {}, Whole(e, B[l], T[l]),
           \A f \in FetchesOf(p, l) : f.reply = "ok" => Behind(B[l], Uids(e.mails), Uids(f.got.mails))
    PROVE  SkipsNone(ApplyMailList(p, l, e), B, T)
<1>1. PICK q, d : q = ApplyMailList(p, l, e) /\ Applied(p, d, l, e) /\ Synced(d, q)
  BY ApplyIs
<1>2. /\ d \in Pages /\ d.key = l /\ d.cache = e.mails /\ d.more = e.more /\ d.oldest = e.oldest
      /\ d.lists = p.lists /\ d.calls = p.calls
  BY <1>1 DEF Applied
<1>3. RowsSkipNone(d, B[l], T[l])
  BY <1>2 DEF RowsSkipNone, Continuing, FetchesOf, Whole
<1>4. SkipsNone(d, B, T)
  BY <1>2, <1>3 DEF SkipsNone, AnswerFits
<1>5. Spares(d, q)
  BY <1>1, <1>2, SyncedSpares
<1> QED
  BY <1>1, <1>4, <1>5 DEF Spares

\* What was shown before does not matter: g showed something else.
LEMMA SwitchSpares ==
    ASSUME NEW p \in Pages, NEW l \in Lists, l \in DOMAIN p.lists, NEW e \in Entries,
           e.mails = p.lists[l].mails, e.more = p.lists[l].more, e.oldest = p.lists[l].oldest,
           \A c \in p.calls : ~c.current, NEW g, g.lists = p.lists, g.calls = p.calls
    PROVE  Spares(g, ApplyMailList(p, l, e))
<1> SUFFICES ASSUME NEW B, NEW T, Served(B, T), SkipsNone(g, B, T)
             PROVE  SkipsNone(ApplyMailList(p, l, e), B, T)
  BY DEF Spares
<1>1. Continuing(p) = {}
  BY DEF Continuing
<1>2. Whole(e, B[l], T[l])
  BY DEF SkipsNone, Whole
<1>3. ASSUME NEW f \in FetchesOf(p, l), f.reply = "ok"
      PROVE  Behind(B[l], Uids(e.mails), Uids(f.got.mails))
  <2>1. f \in p.calls /\ f.kind = "list" /\ f.list = l
    BY DEF FetchesOf
  <2>2. AnswerFits(g, f, B[f.list], T[f.list])
    BY <2>1 DEF SkipsNone
  <2> QED
    BY <1>3, <2>1, <2>2 DEF AnswerFits
<1> QED
  BY <1>1, <1>2, <1>3, ApplySpares

LEMMA CachedSpares ==
    ASSUME NEW p \in Pages, NEW l \in Lists, l \in DOMAIN p.lists, NEW e \in Entries,
           e.mails = p.lists[l].mails, e.more = p.lists[l].more, e.oldest = p.lists[l].oldest,
           \A c \in p.calls : ~c.current
    PROVE  Spares(p, ApplyMailList(p, l, e))
BY SwitchSpares

LEMMA HiddenSpares ==
    ASSUME NEW p \in Pages, NEW q, q.lists = p.lists, q.calls = p.calls, ~Shown(q)
    PROVE  Spares(p, q)
<1>1. \A d \in p.calls : Like(d, d)
  BY DEF Like
<1>2. Narrows(p, q)
  BY <1>1 DEF Narrows
<1> QED
  BY <1>2, NarrowsSpares

\* What is left of the rows skips none, if no mail of the list was taken out.
LEMMA FewerRows ==
    ASSUME NEW p, NEW q, NEW S \in SUBSET Nat, NEW t, RowsSkipNone(p, S, t),
           Uids(p.cache) \in SUBSET Nat, Uids(q.cache) \subseteq Uids(p.cache),
           \A u \in S : u \in Uids(p.cache) => u \in Uids(q.cache),
           q.key = p.key, q.calls = p.calls, q.more = p.more, q.oldest = p.oldest
    PROVE  RowsSkipNone(q, S, t)
<1>1. PICK U, V : U = Uids(p.cache) /\ V = Uids(q.cache)
  OBVIOUS
<1>2. /\ U \in SUBSET Nat /\ V \subseteq U /\ \A u \in S : u \in U <=> u \in V
      /\ Given(U, t) /\ Skipless(S, U, p.more, p.oldest)
      /\ \A c \in Continuing(p) : Continues(c, U, S, t)
      /\ \A c, d \in Continuing(p) : \A u \in S \ U : UpTo(u, c.uids) <=> UpTo(u, d.uids)
      /\ \A f \in FetchesOf(p, p.key) : f.reply = "ok" =>
            /\ Behind(S, U, Uids(f.got.mails))
            /\ \A c \in Continuing(p) : Behind(S, c.uids, Uids(f.got.mails))
  BY <1>1 DEF RowsSkipNone
<1>3. Given(V, t) /\ Skipless(S, V, q.more, q.oldest)
  BY <1>2 DEF Given, Skipless
<1>4. Continuing(q) = Continuing(p) /\ FetchesOf(q, q.key) = FetchesOf(p, p.key)
  BY DEF Continuing, FetchesOf
<1>5. ASSUME NEW c \in Continuing(p), V # {}, NEW u \in S \ V
      PROVE  UpTo(u, c.uids) <=> \A v \in V : u < v
  <2>1. u \in S \ U /\ U # {} /\ u \in Nat
    BY <1>2, <1>5
  <2>2. UpTo(u, c.uids) <=> \A v \in U : u < v
    BY <1>2, <2>1 DEF Continues
  <2>3. ASSUME \A v \in V : u < v PROVE \A v \in U : u < v
    <3>1. PICK w \in V : u < w
      BY <1>5, <2>3
    <3>2. w \in U /\ w \in Nat
      BY <1>2, <3>1
    <3>3. ~(w < u)
      BY <2>1, <3>1, <3>2
    <3> QED
      BY <1>2, <2>1, <3>2, <3>3 DEF Skipless
  <2> QED
    BY <1>2, <2>2, <2>3
<1>6. \A c \in Continuing(p) : Continues(c, V, S, t)
  BY <1>2, <1>5 DEF Continues
<1>7. \A G : Behind(S, U, G) => Behind(S, V, G)
  BY <1>2 DEF Behind, UpTo
<1>8. \A u \in S \ V : u \in S \ U
  BY <1>2
<1> QED
  BY <1>1, <1>2, <1>3, <1>4, <1>6, <1>7, <1>8 DEF RowsSkipNone

\* The rows are continued with what was asked for.
LEMMA MoreRows ==
    ASSUME NEW p, NEW q, NEW S \in SUBSET Nat, NEW t \in Nat, RowsSkipNone(p, S, t),
           Uids(p.cache) \in SUBSET Nat,
           NEW c \in Continuing(p), c \in Calls, c.reply = "ok", Straight(c),
           Uids(q.cache) = Uids(p.cache) \cup Uids(c.got.mails),
           q.key = p.key, q.calls = p.calls \ {c}, q.more = c.got.more,
           q.oldest = IF c.got.mails = << >> THEN p.oldest ELSE c.got.oldest
    PROVE  RowsSkipNone(q, S, t)
<1>1. PICK U, G, V, L : /\ U = Uids(p.cache) /\ G = Uids(c.got.mails) /\ V = Uids(q.cache)
                        /\ L = c.uids
  OBVIOUS
<1>2. c.got.mails \in Seq(Mails) /\ L \in SUBSET Nat
  BY <1>1 DEF Calls, Entries
<1>3. /\ U \in SUBSET Nat /\ V = U \cup G /\ G \in SUBSET Nat /\ (G = {} <=> c.got.mails = << >>)
  BY <1>1, <1>2, UidsAre, NoUids
<1>4. /\ Given(U, t) /\ Skipless(S, U, p.more, p.oldest)
      /\ \A d \in Continuing(p) : Continues(d, U, S, t)
      /\ \A d, e \in Continuing(p) : \A u \in S \ U : UpTo(u, d.uids) <=> UpTo(u, e.uids)
      /\ \A f \in FetchesOf(p, p.key) : f.reply = "ok" =>
            /\ Behind(S, U, Uids(f.got.mails))
            /\ \A d \in Continuing(p) : Behind(S, d.uids, Uids(f.got.mails))
  BY <1>1 DEF RowsSkipNone
<1>5. /\ Given(L, t) /\ (U # {} => \A u \in S \ U : UpTo(u, L) <=> \A v \in U : u < v)
      /\ \A u \in S \ U : UpTo(u, L) =>
            \/ u \in G
            \/ /\ \A n \in G : u < n
               /\ c.got.more /\ (c.got.mails # << >> => Place(S, u) < c.got.oldest)
  BY <1>1, <1>4 DEF Continues
<1>6. \A n \in G : \E v \in L : n <= v
  BY <1>1 DEF Straight, ToSet, Uids, UpTo
<1>7. ASSUME NEW u \in S \ V, UpTo(u, L)
      PROVE  /\ \A v \in V : u < v
             /\ c.got.more /\ (G # {} => Place(S, u) < c.got.oldest)
             /\ U # {} => Place(S, u) < p.oldest
  <2>1. u \in S \ U /\ u \notin G /\ u \in Nat
    BY <1>3
  <2>2. (\A n \in G : u < n) /\ c.got.more /\ (G # {} => Place(S, u) < c.got.oldest)
    BY <1>3, <1>5, <1>7, <2>1
  <2>3. ASSUME U # {} PROVE (\A v \in U : u < v) /\ Place(S, u) < p.oldest
    <3>1. \A v \in U : u < v /\ ~(v < u)
      BY <1>3, <1>5, <1>7, <2>1, <2>3
    <3> QED
      BY <1>4, <2>1, <2>3, <3>1 DEF Skipless
  <2> QED
    BY <1>3, <2>2, <2>3
<1>8. ASSUME NEW u \in S \ V, ~UpTo(u, L)
      PROVE  \A v \in V : v < u /\ ~(u < v)
  <2>1. u \in S \ U /\ u \in Nat
    BY <1>3
  <2>2. \A v \in L : v < u
    BY <1>2, <1>8, <2>1 DEF UpTo
  <2>3. \A n \in G : n < u
    BY <1>2, <1>3, <1>6, <2>1, <2>2
  <2>4. \A v \in U : v < u
    BY <1>4, <1>5, <1>8, <2>1 DEF Skipless
  <2> QED
    BY <1>3, <2>1, <2>3, <2>4
<1>9. Given(V, t)
  <2>1. ASSUME NEW n \in G PROVE n <= t
    <3>1. PICK v \in L : n <= v
      BY <1>6
    <3>2. v <= t
      BY <1>5, <3>1 DEF Given
    <3> QED
      BY <1>2, <1>3, <3>1, <3>2
  <2> QED
    BY <1>3, <1>4, <2>1 DEF Given
<1>10. Skipless(S, V, q.more, q.oldest)
  <2> SUFFICES ASSUME NEW u \in S, u \notin V
               PROVE  (\A v \in V : v < u) \/ ((\A v \in V : u < v) /\ q.more /\ Place(S, u) < q.oldest)
    BY DEF Skipless
  <2>1. CASE ~UpTo(u, L)
    BY <1>8, <2>1
  <2>2. CASE UpTo(u, L) /\ V = {}
    BY <2>2
  <2>3. CASE UpTo(u, L) /\ V # {}
    BY <1>3, <1>7, <2>3
  <2> QED
    BY <2>1, <2>2, <2>3
<1>11. Continuing(q) \subseteq Continuing(p) /\ FetchesOf(q, q.key) \subseteq FetchesOf(p, p.key)
  BY DEF Continuing, FetchesOf
<1>12. ASSUME NEW d \in Continuing(p) PROVE Continues(d, V, S, t)
  <2>1. Continues(d, U, S, t) /\ \A u \in S \ V : u \in S \ U /\ (UpTo(u, d.uids) <=> UpTo(u, L))
    BY <1>1, <1>3, <1>4
  <2>2. V # {} => \A u \in S \ V : UpTo(u, d.uids) <=> \A v \in V : u < v
    BY <1>7, <1>8, <2>1
  <2> QED
    BY <2>1, <2>2 DEF Continues
<1>13. ASSUME NEW f \in FetchesOf(p, p.key), f.reply = "ok" PROVE Behind(S, V, Uids(f.got.mails))
  <2>1. Behind(S, U, Uids(f.got.mails)) /\ Behind(S, L, Uids(f.got.mails))
    BY <1>1, <1>4, <1>13
  <2>2. ASSUME NEW u \in S, UpTo(u, V) PROVE UpTo(u, U) \/ UpTo(u, L)
    <3>1. PICK v \in V : u <= v
      BY <2>2 DEF UpTo
    <3>2. CASE v \in U
      BY <3>1, <3>2 DEF UpTo
    <3>3. CASE v \in G
      <4>1. PICK w \in L : v <= w
        BY <1>6, <3>3
      <4>2. u <= w
        BY <1>2, <1>3, <3>1, <3>3, <4>1
      <4> QED
        BY <4>2 DEF UpTo
    <3> QED
      BY <1>3, <3>2, <3>3
  <2> QED
    BY <2>1, <2>2 DEF Behind
<1>14. \A d, e \in Continuing(q) : \A u \in S \ V : UpTo(u, d.uids) <=> UpTo(u, e.uids)
  BY <1>3, <1>4, <1>11
<1>15. /\ \A d \in Continuing(q) : Continues(d, V, S, t)
       /\ \A f \in FetchesOf(q, q.key) : f.reply = "ok" =>
             /\ Behind(S, V, Uids(f.got.mails))
             /\ \A d \in Continuing(q) : Behind(S, d.uids, Uids(f.got.mails))
  BY <1>4, <1>11, <1>12, <1>13
<1> QED
  BY <1>1, <1>9, <1>10, <1>14, <1>15 DEF RowsSkipNone

\* The rows U of the page p become those of q: the fresh page G, which is the
\* answer e, and the rows O that are older than all of it.
Refreshed(p, q, e, U, G, O, S) ==
    /\ U = Uids(p.cache) /\ U # {} /\ U \in SUBSET Nat
    /\ G = Uids(e.mails) /\ G \in SUBSET Nat /\ Behind(S, U, G)
    /\ \A c \in Continuing(p) : c.uids \in SUBSET Nat /\ Behind(S, c.uids, G)
    /\ \A u : u \in O <=> u \in U /\ \A n \in G : u < n
    /\ G # {} /\ O # {} => ~\E u \in S : \A v \in U, n \in G : v < u /\ u < n
    /\ q.key = p.key /\ q.calls = p.calls /\ FetchesOf(p, p.key) = {}
    /\ G = {} \/ O = {} => Uids(q.cache) = G /\ q.more = e.more /\ q.oldest = e.oldest
    /\ G # {} /\ O # {} => Uids(q.cache) = G \cup O /\ q.more = p.more /\ q.oldest = p.oldest

LEMMA QuietRows ==
    ASSUME NEW p, NEW q, NEW e, NEW U, NEW G, NEW O, NEW S \in SUBSET Nat, NEW t,
           Refreshed(p, q, e, U, G, O, S), RowsSkipNone(p, S, t), Whole(e, S, t)
    PROVE  RowsSkipNone(q, S, t)
<1> USE DEF Refreshed
<1>1. PICK V : V = Uids(q.cache)
  OBVIOUS
<1>2. /\ Given(U, t) /\ Skipless(S, U, p.more, p.oldest)
      /\ \A c \in Continuing(p) : Continues(c, U, S, t)
      /\ \A c, d \in Continuing(p) : \A u \in S \ U : UpTo(u, c.uids) <=> UpTo(u, d.uids)
      /\ Given(G, t) /\ Skipless(S, G, e.more, e.oldest)
  BY DEF RowsSkipNone, Whole
<1>3. /\ V = G \/ V = G \cup O
      /\ G = {} \/ O = {} => V = G /\ q.more = e.more /\ q.oldest = e.oldest
      /\ G # {} /\ O # {} => V = G \cup O /\ q.more = p.more /\ q.oldest = p.oldest
  BY <1>1
<1>4. ASSUME NEW u \in S, u \notin V, UpTo(u, G) PROVE u \notin U /\ \A n \in G : u < n
  <2>1. PICK n \in G : u <= n /\ ~(n < u)
    BY <1>4 DEF UpTo
  <2>2. \A m \in G : u < m
    BY <1>2, <1>3, <1>4, <2>1 DEF Skipless
  <2>3. ASSUME u \in U PROVE FALSE
    BY <1>3, <1>4, <2>1, <2>2, <2>3
  <2> QED
    BY <2>2, <2>3
<1>5. ASSUME NEW u \in S, u \notin V PROVE u \notin U
  <2> SUFFICES ASSUME u \in U PROVE FALSE
    OBVIOUS
  <2>1. u <= u
    OBVIOUS
  <2>2. UpTo(u, U)
    BY <2>1 DEF UpTo
  <2> QED
    BY <1>4, <1>5, <2>2 DEF Behind
<1>6. ASSUME NEW u \in S, u \notin V, \A v \in U : u < v, G # {} PROVE \A n \in G : u < n
  <2>1. PICK v \in U : u < v
    BY <1>6
  <2>2. u <= v
    BY <2>1
  <2>3. UpTo(u, U)
    BY <2>2 DEF UpTo
  <2> QED
    BY <1>4, <1>6, <2>3 DEF Behind
<1>7. ASSUME NEW u \in S, u \notin V, G # {}, \A n \in G : u < n, \A v \in U : v < u PROVE FALSE
  <2>1. PICK v \in U : TRUE
    OBVIOUS
  <2>2. \A n \in G : v < n
    BY <1>7, <2>1
  <2>3. O # {}
    BY <2>1, <2>2
  <2> QED
    BY <1>7, <2>3
<1>8. Given(V, t)
  BY <1>2, <1>3 DEF Given
<1>9. Skipless(S, V, q.more, q.oldest)
  <2>1. CASE G = {} \/ O = {}
    BY <1>2, <1>3, <2>1
  <2>2. ASSUME G # {}, O # {}, NEW u \in S, u \notin V
        PROVE  \/ \A v \in V : v < u
               \/ (\A v \in V : u < v) /\ p.more /\ Place(S, u) < p.oldest
    <3>1. u \notin U /\ u \notin G /\ V = G \cup O
      BY <1>3, <1>5, <2>2
    <3>2. CASE \A v \in U : v < u
      <4>1. ~\A n \in G : u < n
        BY <1>7, <2>2, <3>2
      <4>2. \A n \in G : n < u
        BY <1>2, <3>1, <4>1 DEF Skipless
      <4> QED
        BY <3>1, <3>2, <4>2
    <3>3. CASE (\A v \in U : u < v) /\ p.more /\ Place(S, u) < p.oldest
      <4>1. \A n \in G : u < n
        BY <1>6, <2>2, <3>3
      <4> QED
        BY <3>1, <3>3, <4>1
    <3> QED
      BY <1>2, <3>1, <3>2, <3>3 DEF Skipless
  <2> QED
    BY <1>3, <2>1, <2>2 DEF Skipless
<1>10. ASSUME NEW c \in Continuing(p) PROVE Continues(c, V, S, t)
  <2>1. Continues(c, U, S, t) /\ \A u \in S \ V : u \in S \ U
    BY <1>2, <1>5
  <2>2. ASSUME V # {}, NEW u \in S \ V, UpTo(u, c.uids) PROVE \A v \in V : u < v
    <3>1. (\A v \in U : u < v) /\ UpTo(u, G)
      BY <2>1, <2>2 DEF Continues, Behind
    <3>2. \A n \in G : u < n
      BY <1>4, <3>1
    <3> QED
      BY <1>3, <3>1, <3>2
  <2>3. ASSUME V # {}, NEW u \in S \ V, \A v \in V : u < v PROVE UpTo(u, c.uids)
    <3>1. u \in S \ U /\ u \in Nat
      BY <2>1
    <3>2. CASE \A v \in U : v < u
      <4>1. G # {} /\ \A n \in G : u < n
        BY <1>3, <2>3
      <4> QED
        BY <1>7, <3>2, <4>1
    <3>3. CASE \A v \in U : u < v
      BY <2>1, <3>1, <3>3 DEF Continues
    <3> QED
      BY <1>2, <3>1, <3>2, <3>3 DEF Skipless
  <2> QED
    BY <2>1, <2>2, <2>3 DEF Continues
<1>11. Continuing(q) = Continuing(p) /\ FetchesOf(q, q.key) = {}
  BY DEF Continuing, FetchesOf
<1>12. \A c, d \in Continuing(p) : \A u \in S \ V : UpTo(u, c.uids) <=> UpTo(u, d.uids)
  BY <1>2, <1>5
<1> QED
  BY <1>1, <1>8, <1>9, <1>10, <1>11, <1>12 DEF RowsSkipNone

(***************************************************************************)
(* Lists are fetched                                                       *)
(***************************************************************************)
LEMMA FetchKeeps ==
    ASSUME NEW p, PageTyped(p), NEW W, IsFiniteSet(W), \A w \in W : Asked(p, w),
           \A v, w \in W : v.list = w.list => v = w
    PROVE  LET q == FetchMailLists(p, W) IN
           /\ PageTyped(q) /\ (\A I : Named(p, I) => Named(q, I)) /\ SameView(p, q)
           /\ (Stored(p) => Stored(q)) /\ (Continued(p) => Continued(q))
           /\ (SameAge(p) => SameAge(q)) /\ Waited(p, q, W)
           /\ (InStep(p) /\ (Shown(p) => \A w \in W : w.list = p.key => w.load \/ w.quiet)
                => InStep(q))
           /\ (Searched(p) /\ (\A w \in W : ~w.load) => Searched(q))
           /\ \A l : NoFetch(q, l) <=> NoFetch(p, l) /\ \A w \in W : w.list # l
           /\ \A A : Listed(p, A) => Listed(q, A)
<1>1. PICK q, N : q = FetchMailLists(p, W) /\ N = {w \in W : NoFetch(p, w.list)}
  OBVIOUS
<1>2. PICK r : Mapped(p, r) /\ Adds(r, q, N) /\ Waited(p, q, W)
  BY <1>1, FetchIs
<1>3. /\ PageTyped(r) /\ (\A I : Named(p, I) => Named(r, I))
      /\ (Stored(p) => Stored(r)) /\ (Continued(p) => Continued(r))
      /\ \A l : NoFetch(r, l) <=> NoFetch(p, l)
      /\ \A A : Listed(p, A) => Listed(r, A)
  BY <1>2, MappedKeeps
<1>4. /\ PageTyped(q) /\ (\A I : Named(r, I) => Named(q, I))
      /\ (Stored(r) => Stored(q)) /\ (Continued(r) => Continued(q))
      /\ \A l : NoFetch(q, l) <=> NoFetch(r, l) /\ \A d \in N : ~(d.kind = "list" /\ d.list = l)
      /\ \A A : Listed(r, A) => Listed(q, A)
  BY <1>2, <1>3, AddsKeeps
<1>5. SameView(p, q)
  BY <1>2 DEF Mapped, Adds, SameView
<1>6. \A w \in W : w.kind = "list"
  BY DEF Asked
<1>7. \A l : NoFetch(q, l) <=> NoFetch(p, l) /\ \A w \in W : w.list # l
  BY <1>1, <1>3, <1>4, <1>6
<1>8. InStep(p) /\ (Shown(p) => \A w \in W : w.list = p.key => w.load \/ w.quiet) => InStep(q)
  <2> SUFFICES ASSUME InStep(p), Shown(p) => \A w \in W : w.list = p.key => w.load \/ w.quiet
               PROVE  InStep(q)
    OBVIOUS
  <2>1. SameAge(q) /\ (Shown(q) <=> Shown(p)) /\ q.key = p.key
    BY <1>5, ViewKeeps DEF InStep, SameView
  <2>2. ASSUME Shown(q), NEW d \in q.calls, d.kind = "list", d.list = q.key PROVE d.load \/ d.quiet
    <3>1. CASE d \in W
      BY <2>1, <2>2, <3>1
    <3>2. CASE \E c \in p.calls : Like(d, c) /\ (c.load => d.load) /\ (c.quiet => d.quiet)
      BY <2>1, <2>2, <3>2 DEF InStep, FetchesOf, Like
    <3> QED
      BY <1>2, <3>1, <3>2 DEF Waited
  <2> QED
    BY <2>1, <2>2 DEF InStep, FetchesOf
<1>9. Searched(p) /\ (\A w \in W : ~w.load) => Searched(q)
  BY <1>2, <1>5 DEF Searched, Waited, SameView
<1> QED
  BY <1>1, <1>2, <1>3, <1>4, <1>5, <1>7, <1>8, <1>9, ViewKeeps

LEMMA NoCallIs ==
    /\ NoCall \in Calls /\ NoCall.id = 0 /\ NoCall.reply = "none" /\ NoCall.got = Nothing
    /\ ~NoCall.load /\ NoCall.kind = "list" /\ ~NoCall.quiet /\ NoCall.before = 0
<1>1. [a \in Accounts |-> 0] \in Seen
  BY DEF Seen
<1> QED
  BY <1>1, NothingIs DEF NoCall, Calls, Kinds

\* The requests of loadMails, of onInboxChanged and of prefetchOtherAccounts.
LoadCall(l, restore, cached) ==
    [NoCall EXCEPT !.list = l, !.load = TRUE, !.restore = restore, !.cached = cached]
QuietCall(l, quiet) == [NoCall EXCEPT !.list = l, !.quiet = quiet]
PlainCall(l) == [NoCall EXCEPT !.list = l]

LEMMA LoadAsked ==
    ASSUME NEW p, NEW l \in Lists, Names(p, l[1]), NEW restore \in Nat \cup {-1}, NEW cached \in Nat
    PROVE  LET w == LoadCall(l, restore, cached) IN Asked(p, w) /\ w.list = l /\ w.load
<1>1. PICK w : w = LoadCall(l, restore, cached)
  OBVIOUS
<1>2. w \in Calls
  BY <1>1, NoCallIs, ListIs DEF Calls, LoadCall
<1>3. /\ w.list = l /\ w.load = TRUE /\ w.id = NoCall.id
      /\ w.kind = NoCall.kind /\ w.before = NoCall.before /\ w.reply = NoCall.reply
      /\ w.got = NoCall.got
  BY <1>1, NoCallIs DEF Calls, LoadCall
<1> QED
  BY <1>1, <1>2, <1>3, NoCallIs DEF Asked

LEMMA QuietAsked ==
    ASSUME NEW p, NEW l \in Lists, Names(p, l[1]), NEW quiet \in BOOLEAN
    PROVE  LET w == QuietCall(l, quiet) IN Asked(p, w) /\ w.list = l /\ w.quiet = quiet /\ ~w.load
<1>1. PICK w : w = QuietCall(l, quiet)
  OBVIOUS
<1>2. w \in Calls
  BY <1>1, NoCallIs, ListIs DEF Calls, QuietCall
<1>3. /\ w.list = l /\ w.load = NoCall.load /\ w.quiet = quiet /\ w.id = NoCall.id
      /\ w.kind = NoCall.kind /\ w.before = NoCall.before /\ w.reply = NoCall.reply
      /\ w.got = NoCall.got
  BY <1>1, NoCallIs DEF Calls, QuietCall
<1> QED
  BY <1>1, <1>2, <1>3, NoCallIs DEF Asked

LEMMA PlainAsked ==
    ASSUME NEW p, NEW l \in Lists, Names(p, l[1])
    PROVE  LET w == PlainCall(l) IN Asked(p, w) /\ w.list = l /\ ~w.load
<1>1. PICK w : w = PlainCall(l)
  OBVIOUS
<1>2. w \in Calls
  BY <1>1, NoCallIs, ListIs DEF Calls, PlainCall
<1>3. /\ w.list = l /\ w.load = NoCall.load /\ w.id = NoCall.id
      /\ w.kind = NoCall.kind /\ w.before = NoCall.before /\ w.reply = NoCall.reply
      /\ w.got = NoCall.got
  BY <1>1, NoCallIs DEF Calls, PlainCall
<1> QED
  BY <1>1, <1>2, <1>3, NoCallIs DEF Asked

\* Nothing the invariant looks at is changed.
Beside(p, q) == q \in Pages /\ SameView(p, q) /\ q.calls = p.calls

LEMMA BesideKeeps ==
    ASSUME NEW p, NEW q, PageTyped(p), Beside(p, q)
    PROVE  /\ PageTyped(q) /\ (\A I : Named(p, I) => Named(q, I))
           /\ (Stored(p) => Stored(q)) /\ (Continued(p) => Continued(q))
           /\ (SameAge(p) => SameAge(q)) /\ (InStep(p) => InStep(q))
           /\ (Searched(p) => Searched(q)) /\ (\A l : NoFetch(q, l) <=> NoFetch(p, l))
           /\ \A A : Listed(p, A) => Listed(q, A)
<1>1. Adds(p, q, {})
  BY FS_EmptySet DEF Beside, Adds
<1>2. Active(q) = Active(p) /\ (Shown(q) <=> Shown(p)) /\ (SameAge(p) => SameAge(q))
  BY ViewKeeps DEF Beside
<1>3. (InStep(p) => InStep(q)) /\ (Searched(p) => Searched(q))
  BY <1>2 DEF InStep, Searched, Beside, SameView, FetchesOf
<1>4. /\ PageTyped(q) /\ (\A I : Named(p, I) => Named(q, I))
      /\ (Stored(p) => Stored(q)) /\ (Continued(p) => Continued(q))
      /\ \A A : Listed(p, A) => Listed(q, A)
  BY <1>1, AddsKeeps
<1>5. \A l : NoFetch(q, l) <=> NoFetch(p, l)
  BY NoFetchIs DEF Beside
<1> QED
  BY <1>2, <1>3, <1>4, <1>5

\* A list that is not shown needs nothing.
LEMMA BesideSpares ==
    ASSUME NEW p \in Pages, NEW q, Beside(p, q)
    PROVE  Spares(p, q)
<1>1. SameView(p, q) /\ (Shown(q) <=> Shown(p)) /\ \A d \in q.calls : d \in p.calls /\ Like(d, d)
  BY ViewKeeps DEF Beside, Like
<1>2. Narrows(p, q)
  BY <1>1 DEF Narrows, SameView
<1> QED
  BY <1>2, NarrowsSpares

\* Pages with the same lists and requests, whatever they show.
Twin(h, p) == h \in Pages /\ h.lists = p.lists /\ h.calls = p.calls

LEMMA TwinSpares ==
    ASSUME NEW p, NEW r, r.lists = p.lists, \A d \in r.calls : \E c \in p.calls : Like(d, c),
           NEW h, Twin(h, p), NEW g, Twin(g, r), ~Shown(g)
    PROVE  Spares(h, g)
<1>1. Narrows(h, g)
  BY DEF Narrows, Twin
<1> QED
  BY <1>1, NarrowsSpares DEF Twin

LEMMA HiddenIs ==
    ASSUME NEW p, ~Shown(p)
    PROVE  InStep(p) /\ Continued(p)
BY DEF InStep, SameAge, Continued

\* loadMails, for the account and the folder chosen
LEMMA LoadKeeps ==
    ASSUME NEW p, PageTyped(p), NEW uid \in Nat \cup {-1}
    PROVE  LET q == LoadMails(p, uid) IN
           /\ PageTyped(q) /\ (\A I : Named(p, I) => Named(q, I)) /\ InStep(q)
           /\ (Stored(p) => InPlace(q)) /\ (\A A : Listed(p, A) => Listed(q, A))
           /\ \A h : Twin(h, p) => Spares(h, q)
<1>1. PICK q, l : q = LoadMails(p, uid) /\ l = Active(p)
  OBVIOUS
<1>2. CASE p.account = None
  <2>1. q = p
    BY <1>1, <1>2 DEF LoadMails
  <2>2. ~Shown(p)
    BY <1>2, ListIs DEF Shown, Active, PageTyped, Pages
  <2>3. ASSUME NEW h, Twin(h, p) PROVE Spares(h, q)
    BY <2>1, <2>2, <2>3, HiddenSpares DEF Twin
  <2> QED
    BY <1>1, <2>1, <2>2, <2>3, HiddenIs DEF InPlace
<1>3. CASE p.account # None
  <2>1. l \in Lists /\ l[1] = p.account /\ p \in Pages
    BY <1>1, <1>3 DEF PageTyped, Active
  <2>2. PICK v : v = [p EXCEPT !.visible = FALSE]
    OBVIOUS
  <2>3. Beside(p, v)
    BY <2>1, <2>2 DEF Pages, Beside, SameView
  <2>4. /\ PageTyped(v) /\ (\A I : Named(p, I) => Named(v, I)) /\ (Stored(p) => Stored(v))
        /\ v \in Pages /\ (\A h : Twin(h, p) => Twin(h, v)) /\ \A A : Listed(p, A) => Listed(v, A)
    BY <2>1, <2>3, BesideKeeps DEF Beside, Twin, SameView
  <2>5. PICK o : o = OutdateLoads(v)
    OBVIOUS
  <2>6. Mapped(v, o) /\ \A d \in o.calls : ~d.load /\ ~d.quiet
    BY <2>4, <2>5, OutdateIs
  <2>7. /\ PageTyped(o) /\ (\A I : Named(v, I) => Named(o, I)) /\ (Stored(v) => Stored(o))
        /\ \A A : Listed(v, A) => Listed(o, A)
    BY <2>4, <2>6, MappedKeeps
  <2>8. SameView(p, o) /\ Active(o) = l /\ o \in Pages
    BY <1>1, <2>3, <2>6 DEF Beside, Mapped, SameView, Active
  <2>9. PICK cached : cached = IF l \in DOMAIN p.lists THEN p.lists[l].total + 1 ELSE 0
    OBVIOUS
  <2>10. cached \in Nat /\ (l \in DOMAIN p.lists => p.lists[l] \in Entries)
    BY <2>1, <2>9, CacheIs DEF Entries, Pages
  <2>11. PICK w : w = LoadCall(l, uid, cached)
    OBVIOUS
  <2>12. IsFiniteSet({w}) /\ \A y, x \in {w} : y.list = x.list => y = x
    BY FS_Singleton
  <2>13. ASSUME NEW s, PageTyped(s), s.account = p.account
         PROVE  Asked(s, w) /\ w.list = l /\ w.load
    <3>1. Names(s, l[1])
      BY <2>1, <2>13 DEF Names
    <3> QED
      BY <2>1, <2>10, <2>11, <3>1, LoadAsked
  <2>14. CASE l \in DOMAIN p.lists
    <3>1. PICK r, s : r = Replaced(o) /\ s = ApplyMailList(r, l, p.lists[l])
      OBVIOUS
    <3>2. Mapped(o, r) /\ \A d \in r.calls : ~d.current
      BY <2>8, <3>1, ReplacedIs
    <3>3. /\ PageTyped(r) /\ (\A I : Named(o, I) => Named(r, I)) /\ (Stored(o) => Stored(r))
          /\ \A A : Listed(o, A) => Listed(r, A)
      BY <2>7, <3>2, MappedKeeps
    <3>4. SameView(p, r) /\ Active(r) = l /\ Names(r, l[1])
      BY <2>1, <2>8, <3>2 DEF Mapped, SameView, Active, Names
    <3>5. l \in DOMAIN r.lists /\ r.lists[l] = p.lists[l]
      BY <2>14, <3>4 DEF SameView
    <3>6. /\ PageTyped(s) /\ (\A I : Named(r, I) => Named(s, I)) /\ SameAge(s)
          /\ s.key = l /\ s.account = p.account /\ s.folder = r.folder /\ s.calls = r.calls
          /\ Stored(r) /\ (l = Active(r) => Of(l, p.lists[l].mails))
               => Stored(s) /\ (Shown(s) => Of(s.key, s.cache))
          /\ \A A : Listed(r, A) => Listed(s, A)
      BY <2>1, <2>10, <2>14, <3>1, <3>3, <3>4, <3>5, ApplyKeeps DEF SameView
    <3>7. Stored(p) => Stored(s) /\ Continued(s)
      <4>1. Stored(p) => Of(l, p.lists[l].mails) /\ Stored(r)
        BY <2>4, <2>7, <2>14, <3>3 DEF Stored
      <4> QED
        BY <3>2, <3>6, <4>1 DEF Continued
    <3>8. ASSUME NEW h, Twin(h, p) PROVE Spares(h, s)
      <4>1. r \in Pages /\ r.lists = v.lists /\ \A d \in r.calls : \E c \in v.calls : Like(d, c)
        <5>1. \A d \in o.calls : \E c \in v.calls : Like(d, c)
          BY <2>6 DEF Mapped
        <5>2. \A d \in r.calls : \E c \in o.calls : Like(d, c)
          BY <3>2 DEF Mapped
        <5>3. \A d \in r.calls : \E c \in v.calls : Like(d, c)
          BY <5>1, <5>2 DEF Like
        <5> QED
          BY <2>6, <3>2, <5>3 DEF Mapped, SameView
      <4>2. PICK g : g = [r EXCEPT !.key = None]
        OBVIOUS
      <4>3. Twin(g, r) /\ ~Shown(g)
        BY <4>1, <4>2 DEF Pages, Twin, Shown
      <4>4. Spares(h, g)
        BY <2>4, <3>8, <4>1, <4>3, TwinSpares
      <4>5. Spares(g, s)
        BY <2>1, <2>10, <2>14, <3>1, <3>2, <3>5, <4>1, <4>3, SwitchSpares DEF Twin
      <4> QED
        BY <4>4, <4>5, SparesTwice
    <3>9. q = FetchMailLists(s, {w})
      BY <1>1, <1>3, <2>2, <2>5, <2>9, <2>11, <2>14, <3>1 DEF LoadMails, FetchMailList, LoadCall
    <3>10. Asked(s, w) /\ w.list = l /\ w.load
      BY <2>13, <3>6
    <3>11. /\ PageTyped(q) /\ (\A I : Named(s, I) => Named(q, I)) /\ SameView(s, q)
           /\ (Stored(s) => Stored(q)) /\ (Continued(s) => Continued(q)) /\ SameAge(q)
           /\ Waited(s, q, {w}) /\ Spares(s, q) /\ \A A : Listed(s, A) => Listed(q, A)
      BY <2>12, <3>6, <3>9, <3>10, FetchKeeps, FetchSpares
    <3>12. \A d \in FetchesOf(q, q.key) : d.load
      BY <3>6, <3>10, <3>11 DEF SameView, Waited, FetchesOf
    <3>13. ASSUME NEW h, Twin(h, p) PROVE Spares(h, q)
      BY <3>8, <3>11, <3>13, SparesTwice
    <3> QED
      BY <1>1, <2>4, <2>7, <3>3, <3>6, <3>7, <3>11, <3>12, <3>13 DEF InStep, InPlace
  <2>15. CASE l \notin DOMAIN p.lists
    <3>1. PICK s : s = [o EXCEPT !.key = None, !.drawn = FALSE]
      OBVIOUS
    <3>2. /\ s \in Pages /\ s.key = None /\ s.account = o.account /\ s.folder = o.folder
          /\ s.calls = o.calls /\ s.lists = o.lists /\ s.known = o.known /\ s.ahead = o.ahead
          /\ s.versions = o.versions
      BY <2>8, <3>1 DEF Pages
    <3>3. ~Shown(s) /\ Active(s) = l
      BY <2>8, <3>2 DEF Shown, Active
    <3>4. PageTyped(s)
      BY <2>7, <3>2 DEF PageTyped, Active, Distinct
    <3>5. ASSUME NEW I, Named(o, I) PROVE Named(s, I)
      <4>1. \A a : Names(s, a) => Names(o, a)
        BY <3>2 DEF Names
      <4> QED
        BY <3>2, <3>5, <4>1 DEF Named
    <3>6. (Stored(o) => Stored(s)) /\ \A A : Listed(o, A) => Listed(s, A)
      BY <3>2 DEF Stored, Listed, FetchesOf
    <3>7. q = FetchMailLists(s, {w})
      BY <1>1, <1>3, <2>2, <2>5, <2>9, <2>11, <2>15, <3>1 DEF LoadMails, FetchMailList, LoadCall
    <3>8. Asked(s, w)
      BY <2>8, <2>13, <3>2, <3>4 DEF SameView
    <3>9. /\ PageTyped(q) /\ (\A I : Named(s, I) => Named(q, I)) /\ SameView(s, q)
          /\ (Stored(s) => Stored(q)) /\ Spares(s, q) /\ \A A : Listed(s, A) => Listed(q, A)
      BY <2>12, <3>4, <3>7, <3>8, FetchKeeps, FetchSpares
    <3>10. ~Shown(q)
      BY <3>3, <3>9, ViewKeeps
    <3>11. ASSUME NEW h, Twin(h, p) PROVE Spares(h, q)
      <4>1. Twin(s, o)
        BY <3>2 DEF Twin
      <4>2. o.lists = v.lists /\ \A d \in o.calls : \E c \in v.calls : Like(d, c)
        BY <2>6 DEF Mapped, SameView
      <4>3. Twin(h, v) /\ Spares(h, s)
        BY <2>4, <3>3, <3>11, <4>1, <4>2, TwinSpares
      <4> QED
        BY <3>9, <4>3, SparesTwice
    <3> QED
      BY <1>1, <2>4, <2>7, <3>5, <3>6, <3>9, <3>10, <3>11, HiddenIs DEF InPlace
  <2> QED
    BY <2>14, <2>15
<1> QED
  BY <1>2, <1>3

(***************************************************************************)
(* What most steps keep                                                    *)
(***************************************************************************)
Steady(p, q) ==
    /\ PageTyped(q) /\ (\A I : Named(p, I) => Named(q, I)) /\ (InStep(p) => InStep(q))
    /\ (Searched(p) => Searched(q)) /\ \A A : Listed(p, A) => Listed(q, A)

Kept(p, q) == Steady(p, q) /\ (InPlace(p) => InPlace(q)) /\ Spares(p, q)

LEMMA BesideIsKept ==
    ASSUME NEW p, NEW q, PageTyped(p), Beside(p, q)
    PROVE  Kept(p, q)
BY BesideKeeps, BesideSpares DEF Kept, Steady, InPlace, PageTyped

LEMMA KeptTwice ==
    ASSUME NEW p, NEW q, NEW r, Kept(p, q), Kept(q, r)
    PROVE  Kept(p, r)
BY SparesTwice DEF Kept, Steady

LEMMA SendIsKept ==
    ASSUME NEW p, PageTyped(p), NEW call, Sendable(p, call),
           call.kind = "more" => call.uids = Uids(p.cache) /\ p.cache # << >> /\ p.more
                                 /\ call.before = p.oldest
    PROVE  Kept(p, Send(p, call))
<1>1. PICK q : q = Send(p, call)
  OBVIOUS
<1>2. PICK d : Adds(p, q, {d}) /\ d.kind = call.kind /\ ~d.load
  BY <1>1, SendIs
<1>3. /\ PageTyped(q) /\ (\A I : Named(p, I) => Named(q, I)) /\ (Stored(p) => Stored(q))
      /\ (Continued(p) => Continued(q)) /\ \A A : Listed(p, A) => Listed(q, A)
  BY <1>2, AddsKeeps
<1>4. SameView(p, q) /\ q.calls = p.calls \cup {d} /\ d.kind # "list"
  BY <1>2 DEF Adds, Sendable
<1>5. (Shown(q) <=> Shown(p)) /\ (SameAge(p) => SameAge(q))
  BY <1>4, ViewKeeps
<1>6. (InStep(p) => InStep(q)) /\ (Searched(p) => Searched(q))
  BY <1>2, <1>4, <1>5 DEF InStep, Searched, SameView, FetchesOf
<1>7. Spares(p, q)
  BY <1>1, SendSpares
<1> QED
  BY <1>1, <1>3, <1>6, <1>7 DEF Kept, Steady, InPlace

\* Only the rows change.
Rowed(p, q) ==
    /\ q \in Pages /\ q.account = p.account /\ q.folder = p.folder /\ q.key = p.key
    /\ q.at = p.at /\ q.lists = p.lists /\ q.known = p.known /\ q.ahead = p.ahead
    /\ q.versions = p.versions /\ q.calls = p.calls

LEMMA RowedIsSteady ==
    ASSUME NEW p, NEW q, PageTyped(p), Rowed(p, q)
    PROVE  Steady(p, q) /\ (InPlace(p) /\ (Shown(p) => Of(p.key, q.cache)) => InPlace(q))
<1>1. Active(q) = Active(p) /\ (Shown(q) <=> Shown(p))
  BY DEF Rowed, Active, Shown
<1>2. PageTyped(q)
  BY <1>1 DEF PageTyped, Rowed, Distinct
<1>3. ASSUME NEW I, Named(p, I) PROVE Named(q, I)
  <2>1. \A a : Names(q, a) => Names(p, a)
    BY DEF Names, Rowed
  <2> QED
    BY <1>3, <2>1 DEF Named, Rowed
<1>4. (InStep(p) => InStep(q)) /\ (Searched(p) => Searched(q))
  BY <1>1 DEF InStep, SameAge, Searched, Rowed, FetchesOf
<1>5. InPlace(p) /\ (Shown(p) => Of(p.key, q.cache)) => InPlace(q)
  BY <1>1 DEF InPlace, Stored, Continued, Rowed
<1>6. ASSUME NEW A, Listed(p, A) PROVE Listed(q, A)
  BY <1>6 DEF Listed, Rowed, FetchesOf
<1> QED
  BY <1>2, <1>3, <1>4, <1>5, <1>6 DEF Steady

\* The rows change, and are drawn again.
LEMMA RedrawIsSteady ==
    ASSUME NEW p, NEW d, PageTyped(p), InStep(p), Rowed(p, d)
    PROVE  LET q == RenderMailList(d) IN
           Steady(p, q) /\ (InPlace(p) /\ (Shown(p) => Of(p.key, d.cache)) => InPlace(q))
<1>1. PICK q : q = RenderMailList(d)
  OBVIOUS
<1>2. Steady(p, d) /\ (InPlace(p) /\ (Shown(p) => Of(p.key, d.cache)) => InPlace(d))
  BY RowedIsSteady
<1>3. PageTyped(d) /\ SameAge(d)
  BY <1>2 DEF Steady, InStep
<1>4. Synced(d, q)
  BY <1>1, RenderIs DEF Rowed
<1>5. Steady(d, q) /\ (InPlace(d) => InPlace(q))
  BY <1>3, <1>4, SyncedKeeps DEF Steady, InPlace, Continued
<1> QED
  BY <1>1, <1>2, <1>5 DEF Steady

LEMMA RedrawnIsKept ==
    ASSUME NEW p, PageTyped(p), InStep(p)
    PROVE  Kept(p, RenderMailList(p))
<1>1. Rowed(p, p)
  BY DEF Rowed, PageTyped
<1> QED
  BY <1>1, RedrawIsSteady, RenderSpares DEF Kept, InPlace, Continued, PageTyped

\* Rows that are mails of the list no longer go.
LEMMA FewerKeeps ==
    ASSUME NEW p, PageTyped(p), NEW d, Rowed(p, d), d.more = p.more, d.oldest = p.oldest,
           Uids(d.cache) \subseteq Uids(p.cache), NEW B, NEW T, Served(B, T), SkipsNone(p, B, T),
           Shown(p) => \A u \in B[p.key] : u \in Uids(p.cache) => u \in Uids(d.cache)
    PROVE  SkipsNone(RenderMailList(d), B, T)
<1>1. /\ d \in Pages /\ d.lists = p.lists /\ d.calls = p.calls /\ d.key = p.key
      /\ (Shown(d) <=> Shown(p))
  BY DEF Rowed, Shown, Active
<1>2. Uids(p.cache) \in SUBSET Nat /\ (Shown(p) => B[p.key] \in SUBSET Nat)
  BY PageHas DEF Served
<1>3. ASSUME Shown(p) PROVE RowsSkipNone(d, B[d.key], T[d.key])
  <2>1. RowsSkipNone(p, B[p.key], T[p.key])
    BY <1>3 DEF SkipsNone
  <2> QED
    BY <1>1, <1>2, <1>3, <2>1, FewerRows
<1>4. SkipsNone(d, B, T)
  BY <1>1, <1>3 DEF SkipsNone, AnswerFits
<1> QED
  BY <1>1, <1>4, RenderSpares DEF Spares

LEMMA ResetIsKept ==
    ASSUME NEW p, PageTyped(p)
    PROVE  Kept(p, ResetMailDetail(p))
<1>1. PICK q : q = ResetMailDetail(p)
  OBVIOUS
<1>2. Beside(p, q)
  BY <1>1 DEF ResetMailDetail, Beside, SameView, PageTyped, Pages
<1> QED
  BY <1>1, <1>2, BesideIsKept

\* A request about what the page shows.
LEMMA RequestIs ==
    ASSUME NEW p, PageTyped(p), NEW kind \in Kinds \ {"list", "add", "opening"},
           NEW uids \in SUBSET Nat, kind = "read" => uids # {}
    PROVE  LET d == Request(p, kind, uids) IN Sendable(p, d) /\ d.kind = kind /\ d.uids = uids
<1>1. PICK d : d = Request(p, kind, uids)
  OBVIOUS
<1>2. PICK l : l = Active(p)
  OBVIOUS
<1>3. l \in Places /\ (Shown(p) => l = p.key)
  BY <1>2, ListIs DEF PageTyped, Pages, Active, Places, Shown
<1>4. d \in Calls
  BY <1>1, <1>2, <1>3, NoCallIs DEF Calls, Request
<1>5. /\ d.kind = kind /\ d.list = l /\ d.uids = uids /\ d.reply = NoCall.reply
      /\ d.got = NoCall.got /\ d.load = NoCall.load
  BY <1>1, <1>2, NoCallIs DEF Calls, Request
<1> QED
  BY <1>1, <1>3, <1>4, <1>5, NoCallIs DEF Sendable

LEMMA RowIs ==
    ASSUME NEW p \in Pages, NEW i \in 1 .. Len(p.cache)
    PROVE  p.cache[i] \in Mails /\ p.cache[i].uid \in Nat /\ {p.cache[i].uid} \in SUBSET Nat
<1>1. p.cache \in Seq(Mails)
  BY DEF Pages
<1>2. p.cache[i] \in Mails
  BY <1>1
<1> QED
  BY <1>2 DEF Mails

LEMMA ReadIsKept ==
    ASSUME NEW p, PageTyped(p), NEW i
    PROVE  Kept(p, ReadMail(p, i))
<1>1. PICK q : q = ReadMail(p, i)
  OBVIOUS
<1>2. CASE i \notin 1 .. Len(p.cache)
  <2>1. Beside(p, p) /\ q = p
    BY <1>1, <1>2 DEF Beside, SameView, PageTyped, ReadMail
  <2> QED
    BY <1>1, <2>1, BesideIsKept
<1>3. CASE i \in 1 .. Len(p.cache)
  <2>1. PICK u : u = p.cache[i].uid
    OBVIOUS
  <2>2. u \in Nat /\ i \in Nat
    BY <1>3, <2>1, RowIs DEF PageTyped, Pages
  <2>3. PICK d : d = [p EXCEPT !.index = i, !.uid = u, !.detail = None]
    OBVIOUS
  <2>4. Beside(p, d)
    BY <2>2, <2>3 DEF Beside, SameView, PageTyped, Pages
  <2>5. Kept(p, d)
    BY <2>4, BesideIsKept
  <2>6. Request(p, "read", {u}) = Request(d, "read", {u})
    BY <2>4 DEF Beside, SameView, Request, Active
  <2>7. "read" \in Kinds \ {"list", "add", "opening"} /\ {u} \in SUBSET Nat /\ {u} # {}
    BY <2>2 DEF Kinds
  <2>8. Sendable(d, Request(d, "read", {u})) /\ Request(d, "read", {u}).kind = "read"
    BY <2>5, <2>7, RequestIs DEF Kept, Steady
  <2>9. q = Send(d, Request(d, "read", {u}))
    BY <1>1, <1>3, <2>1, <2>3, <2>6 DEF ReadMail
  <2>10. Kept(d, q)
    BY <2>5, <2>8, <2>9, SendIsKept DEF Kept, Steady
  <2> QED
    BY <1>1, <2>5, <2>10, KeptTwice
<1> QED
  BY <1>2, <1>3

(***************************************************************************)
(* Replies that change the rows                                            *)
(***************************************************************************)
LEMMA MoreIsSteady ==
    ASSUME NEW p, PageTyped(p), InStep(p), NEW c \in Calls
    PROVE  LET q == MoreReply(p, c) IN
           /\ Steady(p, q)
           /\ InPlace(p) /\ (c.reply = "ok" /\ Shown(p) => Of(p.key, c.got.mails)) => InPlace(q)
<1>1. PICK q : q = MoreReply(p, c)
  OBVIOUS
<1>2. CASE c.reply # "ok"
  <2>1. Beside(p, p) /\ q = p
    BY <1>1, <1>2 DEF Beside, SameView, PageTyped, MoreReply
  <2> QED
    BY <1>1, <2>1, BesideIsKept DEF Kept
<1>3. CASE c.reply = "ok"
  <2>1. PICK e, s, n : /\ e = c.got /\ s = p.cache \o e.mails
                       /\ n = IF e.mails = << >> THEN p.oldest ELSE e.oldest
    OBVIOUS
  <2>2. p \in Pages /\ p.cache \in Seq(Mails) /\ e.mails \in Seq(Mails) /\ e.more \in BOOLEAN
        /\ n \in Nat
    BY <2>1 DEF PageTyped, Pages, Calls, Entries
  <2>3. s \in Seq(Mails) /\ (Shown(p) /\ Of(p.key, p.cache) /\ Of(p.key, e.mails) => Of(p.key, s))
    BY <2>1, <2>2, OfJoined
  <2>4. PICK d : d = [p EXCEPT !.cache = s, !.more = e.more, !.oldest = n]
    OBVIOUS
  <2>5. d \in Pages
    BY <2>2, <2>3, <2>4 DEF Pages
  <2>6. Rowed(p, d) /\ d.cache = s
    BY <2>2, <2>4, <2>5 DEF Rowed, Pages
  <2>7. q = RenderMailList(d)
    BY <1>1, <1>3, <2>1, <2>4 DEF MoreReply
  <2>8. Steady(p, q) /\ (InPlace(p) /\ (Shown(p) => Of(p.key, s)) => InPlace(q))
    BY <2>6, <2>7, RedrawIsSteady
  <2> QED
    BY <1>1, <1>3, <2>1, <2>3, <2>8 DEF InPlace, Continued
<1> QED
  BY <1>2, <1>3

\* The results take the place of the list.
LEMMA SearchIsKept ==
    ASSUME NEW p, PageTyped(p), NEW c \in Calls
    PROVE  LET q == SearchReply(p, c) IN Kept(p, q) /\ (c.reply = "ok" => Searched(q))
<1>1. PICK q : q = SearchReply(p, c)
  OBVIOUS
<1>2. CASE c.reply # "ok"
  <2>1. q = [p EXCEPT !.drawn = FALSE]
    BY <1>1, <1>2 DEF SearchReply
  <2>2. Beside(p, q)
    BY <2>1 DEF Beside, SameView, PageTyped, Pages
  <2> QED
    BY <1>1, <1>2, <2>2, BesideIsKept
<1>3. CASE c.reply = "ok"
  <2>1. PICK r, o : r = Replaced(p) /\ o = OutdateLoads(r)
    OBVIOUS
  <2>2. Mapped(p, r)
    BY <2>1, ReplacedIs DEF PageTyped
  <2>3. /\ PageTyped(r) /\ (\A I : Named(p, I) => Named(r, I)) /\ (Stored(p) => Stored(r))
        /\ \A A : Listed(p, A) => Listed(r, A)
    BY <2>2, MappedKeeps
  <2>4. Mapped(r, o) /\ \A d \in o.calls : ~d.load
    BY <2>1, <2>3, OutdateIs DEF PageTyped
  <2>5. /\ PageTyped(o) /\ (\A I : Named(r, I) => Named(o, I)) /\ (Stored(r) => Stored(o))
        /\ \A A : Listed(r, A) => Listed(o, A)
    BY <2>3, <2>4, MappedKeeps
  <2>6. PICK s : s = c.got.mails
    OBVIOUS
  <2>7. s \in Seq(Mails) /\ o \in Pages
    BY <2>5, <2>6 DEF Calls, Entries, PageTyped
  <2>8. PICK d : d = [o EXCEPT !.key = None, !.cache = s, !.more = FALSE, !.index = 0]
    OBVIOUS
  <2>9. d \in Pages
    BY <2>7, <2>8 DEF Pages
  <2>10. /\ d.key = None /\ d.account = o.account /\ d.folder = o.folder /\ d.calls = o.calls
         /\ d.lists = o.lists /\ d.known = o.known /\ d.ahead = o.ahead /\ d.versions = o.versions
    BY <2>7, <2>8 DEF Pages
  <2>11. PageTyped(d)
    BY <2>5, <2>9, <2>10 DEF PageTyped, Active, Distinct
  <2>12. ASSUME NEW I, Named(o, I) PROVE Named(d, I)
    <3>1. \A a : Names(d, a) => Names(o, a)
      BY <2>10 DEF Names
    <3> QED
      BY <2>10, <2>12, <3>1 DEF Named
  <2>13. (Stored(o) => Stored(d)) /\ \A A : Listed(o, A) => Listed(d, A)
    BY <2>10 DEF Stored, Listed, FetchesOf
  <2>14. ~Shown(d) /\ Searched(d)
    BY <2>4, <2>10 DEF Shown, Searched
  <2>15. q = RenderMailList(d)
    BY <1>1, <1>3, <2>1, <2>6, <2>8 DEF SearchReply
  <2>16. Synced(d, q) /\ SameAge(d)
    BY <2>9, <2>14, <2>15, RenderIs DEF SameAge
  <2>19. Spares(p, q)
    <3>1. Spares(p, o)
      BY <2>2, <2>3, <2>4, MappedSpares, SparesTwice DEF PageTyped
    <3>2. Spares(o, d) /\ Spares(d, q)
      BY <2>7, <2>9, <2>10, <2>14, <2>16, HiddenSpares, SyncedSpares
    <3> QED
      BY <3>1, <3>2, SparesTwice
  <2>17. /\ PageTyped(q) /\ (\A I : Named(d, I) => Named(q, I)) /\ (Stored(d) => Stored(q))
         /\ Searched(q) /\ \A A : Listed(d, A) => Listed(q, A)
    BY <2>11, <2>14, <2>16, SyncedKeeps
  <2>18. ~Shown(q)
    BY <2>17 DEF Searched, Shown
  <2> QED
    BY <1>1, <2>3, <2>5, <2>12, <2>13, <2>17, <2>18, <2>19, HiddenIs DEF Kept, Steady, InPlace
<1> QED
  BY <1>2, <1>3

LEMMA ReadReplyIsKept ==
    ASSUME NEW p, PageTyped(p), InStep(p), NEW c \in Calls, c.uids # {},
           c.reply = "ok" => c.list \in Lists
    PROVE  Kept(p, ReadReply(p, c))
<1>1. PICK q : q = ReadReply(p, c)
  OBVIOUS
<1>2. CASE c.reply # "ok"
  <2>1. q = [p EXCEPT !.detail = None, !.visible = TRUE]
    BY <1>1, <1>2 DEF ReadReply
  <2>2. Beside(p, q)
    BY <2>1 DEF Beside, SameView, PageTyped, Pages
  <2> QED
    BY <1>1, <2>2, BesideIsKept
<1>3. CASE c.reply = "ok"
  <2>1. PICK m : m = Mail(c.list, CHOOSE u \in c.uids : TRUE)
    OBVIOUS
  <2>2. m \in Mails
    BY <1>3, <2>1 DEF Mail, Mails, Calls
  <2>3. PICK d : d = [p EXCEPT !.detail = m, !.visible = TRUE]
    OBVIOUS
  <2>4. Beside(p, d)
    BY <2>2, <2>3 DEF Beside, SameView, PageTyped, Pages
  <2>5. Kept(p, d) /\ PageTyped(d) /\ InStep(d)
    BY <2>4, BesideIsKept DEF Kept, Steady
  <2>6. q = RenderMailList(d)
    BY <1>1, <1>3, <2>1, <2>3 DEF ReadReply
  <2>7. Kept(d, q)
    BY <2>5, <2>6, RedrawnIsKept
  <2> QED
    BY <1>1, <2>5, <2>7, KeptTwice
<1> QED
  BY <1>2, <1>3

LEMMA FlagReplyIsKept ==
    ASSUME NEW p, PageTyped(p), InStep(p), NEW c
    PROVE  Kept(p, FlagReply(p, c))
<1>1. Beside(p, p)
  BY DEF Beside, SameView, PageTyped
<1>2. PICK q : q = RenderMailList(p)
  OBVIOUS
<1>3. Kept(p, q) /\ PageTyped(q)
  BY <1>2, RedrawnIsKept DEF Kept, Steady
<1>4. Kept(q, ReadMail(q, q.index))
  BY <1>3, ReadIsKept
<1>5. CASE c.reply # "ok"
  BY <1>1, <1>5, BesideIsKept DEF FlagReply
<1>6. CASE c.reply = "ok" /\ c.opt
  BY <1>2, <1>3, <1>4, <1>6, KeptTwice DEF FlagReply
<1>7. CASE c.reply = "ok" /\ ~c.opt
  BY <1>2, <1>3, <1>7 DEF FlagReply
<1> QED
  BY <1>5, <1>6, <1>7

LEMMA RemoveReplyIs ==
    ASSUME NEW p, PageTyped(p), InStep(p), NEW c
    PROVE  LET q == RemoveReply(p, c) IN
           /\ Steady(p, q) /\ (InPlace(p) => InPlace(q))
           /\ \A B, T : /\ Served(B, T) /\ SkipsNone(p, B, T)
                        /\ c.reply = "ok" /\ Shown(p) =>
                              \A u \in B[p.key] : u \in Uids(p.cache) => u \in Uids(Spliced(p))
                        => SkipsNone(q, B, T)
<1>1. CASE c.reply # "ok"
  BY <1>1, BesideIsKept DEF RemoveReply, Beside, SameView, PageTyped, Kept, Spares
<1>2. CASE c.reply = "ok"
  <2>1. PICK s : s = Spliced(p)
    OBVIOUS
  <2>2. /\ s \in Seq(Mails) /\ (Shown(p) /\ Of(p.key, p.cache) => Of(p.key, s))
        /\ Uids(s) \subseteq Uids(p.cache)
    BY <2>1, SplicedIs DEF PageTyped, Pages
  <2>3. PICK d : d = [p EXCEPT !.cache = s, !.index = 0]
    OBVIOUS
  <2>4. Rowed(p, d) /\ d.cache = s /\ d.more = p.more /\ d.oldest = p.oldest
    BY <2>2, <2>3 DEF Rowed, PageTyped, Pages
  <2>5. PICK q : q = RenderMailList(d)
    OBVIOUS
  <2>6. Steady(p, q) /\ (InPlace(p) => InPlace(q))
    BY <2>2, <2>4, <2>5, RedrawIsSteady DEF InPlace, Continued
  <2>7. Kept(q, ResetMailDetail(q))
    BY <2>6, ResetIsKept DEF Steady
  <2>9. ASSUME NEW B, NEW T, Served(B, T), SkipsNone(p, B, T),
               Shown(p) => \A u \in B[p.key] : u \in Uids(p.cache) => u \in Uids(s)
        PROVE  SkipsNone(q, B, T)
    BY <2>2, <2>4, <2>5, <2>9, FewerKeeps
  <2>8. RemoveReply(p, c) = ResetMailDetail(q)
    BY <1>2, <2>1, <2>3, <2>5 DEF RemoveReply
  <2> QED
    BY <1>2, <2>1, <2>6, <2>7, <2>8, <2>9 DEF Kept, Steady, Spares
<1> QED
  BY <1>1, <1>2

LEMMA BatchReplyIs ==
    ASSUME NEW p, PageTyped(p), InStep(p), NEW c
    PROVE  LET q == BatchReply(p, c) IN
           /\ Steady(p, q) /\ (InPlace(p) => InPlace(q))
           /\ \A B, T : /\ Served(B, T) /\ SkipsNone(p, B, T)
                        /\ c.reply = "ok" /\ c.kind # "batchFlag" /\ Shown(p) =>
                              \A u \in B[p.key] : u \in Uids(p.cache) => u \notin p.chosen
                        => SkipsNone(q, B, T)
<1>1. CASE c.reply # "ok"
  BY <1>1, BesideIsKept DEF BatchReply, Beside, SameView, PageTyped, Kept, Spares
<1>2. CASE c.reply = "ok" /\ c.kind = "batchFlag"
  BY <1>2, RedrawnIsKept DEF BatchReply, Kept, Spares
<1>3. CASE c.reply = "ok" /\ c.kind # "batchFlag"
  <2>1. PICK M, s : M = {m \in ToSet(p.cache) : m.uid \notin p.chosen} /\ s = Rows(p.cache, M)
    OBVIOUS
  <2>2. /\ s \in Seq(Mails) /\ (Shown(p) /\ Of(p.key, p.cache) => Of(p.key, s))
        /\ \A u : u \in Uids(s) <=> u \in Uids(p.cache) /\ u \notin p.chosen
    <3>1. p.cache \in Seq(Mails)
      BY DEF PageTyped, Pages
    <3>2. \A u : u \in Uids(s) <=> \E k \in DOMAIN p.cache : p.cache[k] \in M /\ p.cache[k].uid = u
      BY <2>1, <3>1, RowsHave
    <3>3. \A k \in DOMAIN p.cache : p.cache[k] \in M <=> p.cache[k].uid \notin p.chosen
      BY <2>1 DEF ToSet
    <3>4. \A u : u \in Uids(s) <=> u \in Uids(p.cache) /\ u \notin p.chosen
      BY <3>2, <3>3 DEF Uids
    <3> QED
      BY <2>1, <3>1, <3>4, OfRows
  <2>3. PICK d : d = [p EXCEPT !.cache = s, !.chosen = {}]
    OBVIOUS
  <2>4. Rowed(p, d) /\ d.cache = s /\ d.more = p.more /\ d.oldest = p.oldest
    BY <2>2, <2>3 DEF Rowed, PageTyped, Pages
  <2>5. PICK q : q = RenderMailList(d)
    OBVIOUS
  <2>6. Steady(p, q) /\ (InPlace(p) => InPlace(q))
    BY <2>2, <2>4, <2>5, RedrawIsSteady DEF InPlace, Continued
  <2>7. Kept(q, ResetMailDetail(q))
    BY <2>6, ResetIsKept DEF Steady
  <2>9. ASSUME NEW B, NEW T, Served(B, T), SkipsNone(p, B, T),
               Shown(p) => \A u \in B[p.key] : u \in Uids(p.cache) => u \in Uids(s)
        PROVE  SkipsNone(q, B, T)
    BY <2>2, <2>4, <2>5, <2>9, FewerKeeps
  <2>8. BatchReply(p, c) = ResetMailDetail(q)
    BY <1>3, <2>1, <2>3, <2>5 DEF BatchReply
  <2> QED
    BY <1>3, <2>2, <2>6, <2>7, <2>8, <2>9 DEF Kept, Steady, Spares
<1> QED
  BY <1>1, <1>2, <1>3

(***************************************************************************)
(* Replies about accounts                                                  *)
(***************************************************************************)
LEMMA RemoveAccountIsKept ==
    ASSUME NEW p, PageTyped(p), NEW c \in Calls
    PROVE  Kept(p, RemoveAccountReply(p, c))
<1>1. CASE c.reply # "ok"
  BY <1>1, BesideIsKept DEF RemoveAccountReply, Beside, SameView, PageTyped
<1>2. CASE c.reply = "ok"
  <2>1. PICK gone, m : /\ gone = c.list[1]
                       /\ m = [k \in {l \in DOMAIN p.lists : l[1] # gone} |-> p.lists[k]]
    OBVIOUS
  <2>2. p \in Pages /\ p.lists \in Caches
    BY DEF PageTyped, Pages
  <2>3. /\ m = [k \in DOMAIN m |-> m[k]] /\ DOMAIN m = {l \in DOMAIN p.lists : l[1] # gone}
        /\ \A k \in DOMAIN m : m[k] = p.lists[k]
    BY <2>1
  <2>4. m \in Caches
    BY <2>2, <2>3, CacheIs
  <2>5. PICK r : r = [p EXCEPT !.lists = m]
    OBVIOUS
  <2>6. PICK e : e = [r EXCEPT !.known = r.known \ {gone}]
    OBVIOUS
  <2>7. /\ e \in Pages /\ e.lists = m /\ e.known = p.known \ {gone} /\ e.account = p.account
        /\ e.folder = p.folder /\ e.key = p.key /\ e.cache = p.cache /\ e.at = p.at
        /\ e.more = p.more /\ e.oldest = p.oldest /\ e.ahead = p.ahead
        /\ e.versions = p.versions /\ e.calls = p.calls
    BY <2>2, <2>4, <2>5, <2>6 DEF Pages
  <2>8. PageTyped(e)
    BY <2>7 DEF PageTyped, Active, Distinct
  <2>9. ASSUME NEW I, Named(p, I) PROVE Named(e, I)
    <3>1. \A a : Names(e, a) => Names(p, a)
      BY <2>3, <2>7 DEF Names
    <3> QED
      BY <2>7, <2>9, <3>1 DEF Named
  <2>10. (Stored(p) => Stored(e)) /\ (Continued(p) => Continued(e)) /\ (Searched(p) => Searched(e))
    BY <2>3, <2>7 DEF Stored, Continued, Searched, Shown, Active
  <2>11. ASSUME NEW A, Listed(p, A) PROVE Listed(e, A)
    BY <2>3, <2>7, <2>11 DEF Listed, FetchesOf
  <2>12. ForgetAccountCache(p, gone) = r
    BY <2>1, <2>5 DEF ForgetAccountCache
  <2>15. Spares(p, e)
    <3>1. \A d \in p.calls : Like(d, d)
      BY DEF Like
    <3>2. Narrows(p, e)
      BY <2>3, <2>7, <3>1 DEF Narrows, Shown, Active
    <3> QED
      BY <2>2, <3>2, NarrowsSpares
  <2>13. CASE p.account = gone
    <3>1. PICK d : d = ResetMailDetail(e)
      OBVIOUS
    <3>2. Kept(e, d) /\ Beside(e, d)
      BY <2>7, <2>8, <3>1, ResetIsKept DEF ResetMailDetail, Beside, SameView, Pages
    <3>3. PICK q : q = [d EXCEPT !.account = None, !.drawn = FALSE]
      OBVIOUS
    <3>4. /\ q \in Pages /\ q.account = None /\ q.folder = d.folder /\ q.key = d.key
          /\ q.lists = d.lists /\ q.known = d.known /\ q.ahead = d.ahead
          /\ q.versions = d.versions /\ q.calls = d.calls
      BY <3>2, <3>3 DEF Beside, Pages
    <3>5. ~Shown(q)
      BY <3>4, ListIs DEF Shown, Active, Pages
    <3>6. PageTyped(q)
      BY <3>2, <3>4 DEF Kept, Steady, PageTyped, Distinct
    <3>7. ASSUME NEW I, Named(d, I) PROVE Named(q, I)
      <4>1. \A a \in Accounts : Names(q, a) => Names(d, a)
        BY <3>4, ListIs DEF Names
      <4> QED
        BY <3>4, <3>7, <4>1 DEF Named
    <3>8. (Stored(d) => Stored(q)) /\ (Searched(d) => Searched(q)) /\ \A A : Listed(d, A) => Listed(q, A)
      BY <3>4 DEF Stored, Searched, Listed, FetchesOf
    <3>9. RemoveAccountReply(p, c) = q
      BY <1>2, <2>1, <2>6, <2>12, <2>13, <3>1, <3>3 DEF RemoveAccountReply
    <3>10. Steady(e, d) /\ (Stored(e) => Stored(d))
      BY <2>8, <3>2, BesideKeeps DEF Kept
    <3>11. Spares(p, q)
      <4>1. Spares(d, q)
        BY <3>2, <3>4, <3>5, HiddenSpares DEF Beside
      <4> QED
        BY <2>15, <3>2, <4>1, SparesTwice DEF Kept
    <3> QED
      BY <2>9, <2>10, <2>11, <3>5, <3>6, <3>7, <3>8, <3>9, <3>10, <3>11, HiddenIs
      DEF Kept, Steady, InPlace
  <2>14. CASE p.account # gone
    <3>1. SameAge(p) => SameAge(e)
      BY <2>3, <2>7, <2>14 DEF SameAge, Shown, Active
    <3>2. InStep(p) => InStep(e)
      BY <2>7, <3>1 DEF InStep, Shown, Active, FetchesOf
    <3>3. RemoveAccountReply(p, c) = e
      BY <1>2, <2>1, <2>6, <2>12, <2>14 DEF RemoveAccountReply
    <3> QED
      BY <2>8, <2>9, <2>10, <2>11, <2>15, <3>2, <3>3 DEF Kept, Steady, InPlace
  <2> QED
    BY <2>13, <2>14
<1> QED
  BY <1>1, <1>2

\* An account that is added has a name nothing on the page has.
LEMMA AddAccountIsKept ==
    ASSUME NEW p, PageTyped(p), NEW I, Named(p, I), NEW c \in Calls, NEW account \in Accounts,
           c.list = <<account, Inbox>>, c.reply = "ok" => account \in I,
           ~Names(p, account), \A d \in p.calls : d.kind # "add"
    PROVE  LET q == AddAccountReply(p, c) IN
           /\ PageTyped(q) /\ Named(q, I) /\ (InStep(p) => InStep(q)) /\ (InPlace(p) => InPlace(q))
           /\ Spares(p, q) /\ (Searched(p) => Searched(q)) /\ \A A : Listed(p, A) => Listed(q, A)
<1>1. CASE c.reply # "ok"
  BY <1>1 DEF AddAccountReply, Spares
<1>2. CASE c.reply = "ok"
  <2>1. PICK d : d = [p EXCEPT !.account = account, !.folder = Inbox, !.uid = 0]
    OBVIOUS
  <2>2. p \in Pages /\ Inbox \in Folders /\ <<account, Inbox>> \in Lists
    BY ListIs DEF PageTyped
  <2>3. /\ d \in Pages /\ d.account = account /\ d.folder = Inbox /\ d.key = p.key
        /\ d.lists = p.lists /\ d.known = p.known /\ d.ahead = p.ahead
        /\ d.versions = p.versions /\ d.calls = p.calls
    BY <2>1, <2>2 DEF Pages
  <2>4. PageTyped(d)
    BY <2>2, <2>3 DEF PageTyped, Active, Distinct
  <2>5. Named(d, I)
    <3>1. \A a : Names(d, a) => Names(p, a) \/ a = account
      BY <2>3 DEF Names
    <3> QED
      BY <1>2, <2>3, <3>1 DEF Named
  <2>6. ~Shown(d)
    BY <2>3 DEF Shown, Active, Names
  <2>7. (Stored(p) => Stored(d)) /\ (Searched(p) => Searched(d)) /\ \A A : Listed(p, A) => Listed(d, A)
    BY <2>3 DEF Stored, Searched, Listed, FetchesOf
  <2>8. PICK call : call = [NoCall EXCEPT !.kind = "opening", !.list = c.list]
    OBVIOUS
  <2>9. call \in Calls
    BY <2>2, <2>8, ListIs, NoCallIs DEF Calls, Kinds
  <2>10. /\ call.kind = "opening" /\ call.list = c.list /\ call.reply = NoCall.reply
         /\ call.got = NoCall.got /\ call.load = NoCall.load
    BY <2>8, NoCallIs DEF Calls
  <2>11. Sendable(d, call)
    BY <2>3, <2>9, <2>10, ListIs, NoCallIs DEF Sendable, Names
  <2>12. AddAccountReply(p, c) = Send(d, call)
    BY <1>2, <2>1, <2>8 DEF AddAccountReply
  <2>13. Kept(d, Send(d, call))
    BY <2>4, <2>10, <2>11, SendIsKept
  <2>14. Spares(p, Send(d, call))
    BY <2>2, <2>3, <2>6, <2>13, HiddenSpares, SparesTwice DEF Kept
  <2> QED
    BY <2>5, <2>6, <2>7, <2>12, <2>13, <2>14, HiddenIs DEF Kept, Steady, InPlace
<1> QED
  BY <1>1, <1>2

LEMMA OpeningIsKept ==
    ASSUME NEW p, PageTyped(p), NEW I, Named(p, I), NEW c \in Calls, NEW account \in Accounts,
           c.list = <<account, Inbox>>, account \in I,
           \A d \in p.calls : d.kind = "add" => d.list[1] # account
    PROVE  LET q == OpeningReply(p, c) IN
           /\ PageTyped(q) /\ Named(q, I) /\ (InStep(p) => InStep(q)) /\ (InPlace(p) => InPlace(q))
           /\ Spares(p, q) /\ \A A : Listed(p, A) => Listed(q, A)
<1>1. CASE c.reply # "ok"
  BY <1>1 DEF OpeningReply, Spares
<1>2. CASE c.reply = "ok"
  <2>1. PICK d : d = [p EXCEPT !.known = p.known \cup {account}]
    OBVIOUS
  <2>2. /\ d \in Pages /\ d.known = p.known \cup {account} /\ d.account = p.account
        /\ d.folder = p.folder /\ d.key = p.key /\ d.lists = p.lists /\ d.ahead = p.ahead
        /\ d.versions = p.versions /\ d.calls = p.calls
    BY <2>1 DEF Pages, PageTyped
  <2>3. PageTyped(d)
    BY <2>2 DEF PageTyped, Active, Distinct
  <2>4. Named(d, I)
    <3>1. \A a : Names(d, a) => Names(p, a) \/ a = account
      BY <2>2 DEF Names
    <3> QED
      BY <2>2, <3>1 DEF Named
  <2>5. (Stored(p) => Stored(d)) /\ \A A : Listed(p, A) => Listed(d, A)
    BY <2>2 DEF Stored, Listed, FetchesOf
  <2>6. OpeningReply(p, c) = LoadMails(d, -1)
    BY <1>2, <2>1 DEF OpeningReply
  <2>7. -1 \in Nat \cup {-1}
    OBVIOUS
  <2>9. PICK q : q = LoadMails(d, -1)
    OBVIOUS
  <2>10. /\ PageTyped(q) /\ Named(q, I) /\ InStep(q) /\ (Stored(d) => InPlace(q))
         /\ (\A h : Twin(h, d) => Spares(h, q)) /\ \A A : Listed(d, A) => Listed(q, A)
    BY <2>3, <2>4, <2>7, <2>9, LoadKeeps
  <2>8. Twin(p, d)
    BY <2>2 DEF Twin, PageTyped
  <2>11. Spares(p, q)
    BY <2>8, <2>10
  <2> QED
    BY <2>5, <2>6, <2>9, <2>10, <2>11 DEF InPlace
<1> QED
  BY <1>1, <1>2

(***************************************************************************)
(* A poll is answered                                                      *)
(***************************************************************************)
LEMMA AccountsFinite == IsFiniteSet(Accounts)
<1>1. PICK f : f = [l \in Lists |-> l[1]]
  OBVIOUS
<1>2. f \in Surjection(Lists, Accounts)
  BY <1>1 DEF Surjection, Accounts
<1> QED
  BY <1>2, BridgePageAssumption, FS_Surjection

\* The fetches that changed inboxes ask for.
Wanted(p, C) == UNION {OnInboxChanged(p, a) : a \in C}

LEMMA WantedIs ==
    ASSUME NEW p, PageTyped(p), NEW C \in SUBSET Accounts,
           NEW W, W = Wanted(p, C)
    PROVE  /\ IsFiniteSet(W) /\ \A w \in W : Asked(p, w) /\ ~w.load
           /\ \A v, w \in W : v.list = w.list => v = w
           /\ \A w \in W : Shown(p) /\ w.list = p.key => w.quiet
           /\ \A a \in C : <<a, Inbox>> \in DOMAIN p.lists => \E w \in W : w.list = <<a, Inbox>>
<1> DEFINE Inboxed(a) == <<a, Inbox>>
           shown(a) == Active(p) = <<a, Inbox>> /\ p.key = <<a, Inbox>>
           call(a) == QuietCall(<<a, Inbox>>, shown(a))
           D == {a \in C : shown(a) \/ <<a, Inbox>> \in DOMAIN p.lists}
<1>1. \A a : OnInboxChanged(p, a) = IF shown(a) \/ <<a, Inbox>> \in DOMAIN p.lists
                                   THEN {call(a)} ELSE {}
  BY DEF OnInboxChanged, QuietCall
<1>2. ASSUME NEW a \in D
      PROVE  /\ Asked(p, call(a)) /\ call(a).list = <<a, Inbox>> /\ call(a).quiet = shown(a)
             /\ ~call(a).load
  <2>1. a \in Accounts /\ <<a, Inbox>> \in Lists /\ <<a, Inbox>>[1] = a
    BY ListIs
  <2>2. shown(a) => a = p.account
    BY DEF Active
  <2>3. Names(p, <<a, Inbox>>[1])
    <3>1. CASE <<a, Inbox>> \in DOMAIN p.lists
      BY <2>1, <3>1 DEF Names
    <3>2. CASE shown(a)
      BY <2>1, <2>2, <3>2 DEF Names
    <3> QED
      BY <3>1, <3>2
  <2>4. PICK l, quiet : l = <<a, Inbox>> /\ quiet = shown(a) /\ quiet \in BOOLEAN
    OBVIOUS
  <2>5. PICK w : w = QuietCall(l, quiet)
    OBVIOUS
  <2>6. Asked(p, w) /\ w.list = l /\ w.quiet = quiet /\ ~w.load
    BY <2>1, <2>3, <2>4, <2>5, QuietAsked
  <2>7. call(a) = w
    BY <2>4, <2>5
  <2> HIDE DEF call, shown
  <2> QED
    BY <2>4, <2>6, <2>7
<1>3. \A a : OnInboxChanged(p, a) = {} \/ OnInboxChanged(p, a) = {call(a)}
  BY <1>1
<1>4. \A a \in C : OnInboxChanged(p, a) # {} <=> a \in D
  BY <1>1
<1> HIDE DEF call
<1>5. W = {call(a) : a \in D}
  <2>1. \A w : w \in W <=> \E a \in C : w \in OnInboxChanged(p, a)
    BY DEF Wanted
  <2>2. D \in SUBSET C
    OBVIOUS
  <2> HIDE DEF D
  <2>3. \A w : w \in W <=> \E a \in D : w = call(a)
    BY <1>3, <1>4, <2>1, <2>2
  <2> QED
    BY <2>3
<1>6. IsFiniteSet(W)
  <2>1. PICK f : f = [a \in D |-> call(a)]
    OBVIOUS
  <2>2. f \in Surjection(D, W)
    BY <1>5, <2>1 DEF Surjection
  <2>3. IsFiniteSet(D)
    BY AccountsFinite, FS_Subset
  <2> QED
    BY <2>2, <2>3, FS_Surjection
<1>7. \A w \in W : Asked(p, w) /\ ~w.load
  BY <1>2, <1>5
<1>8. ASSUME NEW a \in D, NEW b \in D, call(a).list = call(b).list PROVE a = b
  <2>1. <<a, Inbox>> = <<b, Inbox>>
    BY <1>2, <1>8
  <2> QED
    BY <2>1
<1>9. \A v, w \in W : v.list = w.list => v = w
  BY <1>5, <1>8
<1>10. ASSUME NEW a \in D, Shown(p), call(a).list = p.key PROVE call(a).quiet
  <2>1. shown(a)
    BY <1>2, <1>10 DEF Shown
  <2> QED
    BY <1>2, <2>1
<1>11. \A a \in C : <<a, Inbox>> \in DOMAIN p.lists => \E w \in W : w.list = <<a, Inbox>>
  BY <1>2, <1>5
<1> QED
  BY <1>5, <1>6, <1>7, <1>9, <1>10, <1>11

LEMMA PollIsKept ==
    ASSUME NEW p, PageTyped(p), NEW c \in Calls
    PROVE  LET q == PollReply(p, c)
               late == {a \in Accounts : /\ c.seen[a] # -1 /\ p.versions[a] = -1
                                         /\ <<a, Inbox>> \in DOMAIN p.lists
                                         /\ p.lists[<<a, Inbox>>].at < c.seen[a]}
           IN /\ PageTyped(q) /\ (\A I : Named(p, I) => Named(q, I)) /\ (InStep(p) => InStep(q))
              /\ (InPlace(p) => InPlace(q)) /\ (Searched(p) => Searched(q)) /\ Spares(p, q)
              /\ c.reply # "ok" => q = p
              /\ \A A : Listed(p, A) => Listed(q, A \cup late)
<1> DEFINE late == {a \in Accounts : /\ c.seen[a] # -1 /\ p.versions[a] = -1
                                     /\ <<a, Inbox>> \in DOMAIN p.lists
                                     /\ p.lists[<<a, Inbox>>].at < c.seen[a]}
<1>1. CASE c.reply # "ok"
  <2>1. PollReply(p, c) = p
    BY <1>1 DEF PollReply
  <2>2. \A A : Listed(p, A) => Listed(p, A \cup late)
    BY DEF Listed
  <2> QED
    BY <2>1, <2>2 DEF Spares
<1>2. CASE c.reply = "ok"
  <2>1. PICK q, W : /\ q = PollReply(p, c)
                    /\ W = Wanted(p, Changed(p, c))
    OBVIOUS
  <2>2. Changed(p, c) \in SUBSET Accounts
    BY DEF Changed
  <2>3. /\ IsFiniteSet(W) /\ \A w \in W : Asked(p, w) /\ ~w.load
        /\ \A v, w \in W : v.list = w.list => v = w
        /\ \A w \in W : Shown(p) /\ w.list = p.key => w.quiet
        /\ \A a \in Changed(p, c) : <<a, Inbox>> \in DOMAIN p.lists => \E w \in W : w.list = <<a, Inbox>>
    BY <2>1, <2>2, WantedIs, SMTT(60)
  <2>4. PICK v : v = [p EXCEPT !.versions = c.seen]
    OBVIOUS
  <2>5. /\ v \in Pages /\ v.versions = c.seen /\ v.account = p.account /\ v.folder = p.folder
        /\ v.key = p.key /\ v.cache = p.cache /\ v.at = p.at /\ v.lists = p.lists
        /\ v.known = p.known /\ v.ahead = p.ahead /\ v.calls = p.calls
        /\ v.more = p.more /\ v.oldest = p.oldest
    BY <2>4 DEF Pages, PageTyped, Calls
  <2>6. PageTyped(v) /\ (Shown(v) <=> Shown(p)) /\ \A a : Names(v, a) <=> Names(p, a)
    BY <2>5 DEF PageTyped, Shown, Active, Distinct, Names
  <2>7. /\ (\A I : Named(p, I) => Named(v, I)) /\ (InStep(p) => InStep(v))
        /\ (InPlace(p) => InPlace(v)) /\ (Searched(p) => Searched(v))
    BY <2>5, <2>6, SMTT(30) DEF Named, InStep, SameAge, FetchesOf, InPlace, Stored, Continued, Searched
  <2>8. \A w \in W : Asked(v, w)
    BY <2>3, <2>6 DEF Asked
  <2>9. q = FetchMailLists(v, W)
    BY <1>2, <2>1, <2>4 DEF PollReply, Wanted
  <2>10. /\ PageTyped(q) /\ (\A I : Named(v, I) => Named(q, I)) /\ SameView(v, q)
         /\ (Stored(v) => Stored(q)) /\ (Continued(v) => Continued(q))
         /\ (InStep(v) /\ (Shown(v) => \A w \in W : w.list = v.key => w.load \/ w.quiet) => InStep(q))
         /\ (Searched(v) /\ (\A w \in W : ~w.load) => Searched(q))
         /\ \A l : NoFetch(q, l) <=> NoFetch(v, l) /\ \A w \in W : w.list # l
    BY <2>3, <2>6, <2>8, <2>9, FetchKeeps
  <2>11. ASSUME NEW A, Listed(p, A), NEW a \in Accounts \ (A \cup late),
                <<a, Inbox>> \in DOMAIN q.lists, NoFetch(q, <<a, Inbox>>)
         PROVE  q.lists[<<a, Inbox>>].at >= q.versions[a]
    <3>1. PICK l : l = <<a, Inbox>>
      OBVIOUS
    <3>2. q.lists = p.lists /\ q.versions = c.seen /\ l \in DOMAIN p.lists
      BY <2>5, <2>10, <2>11, <3>1 DEF SameView
    <3>3. NoFetch(p, l) /\ a \notin Changed(p, c)
      BY <2>3, <2>5, <2>10, <2>11, <3>1, <3>2, SMTT(60) DEF NoFetch, FetchesOf
    <3>4. p.lists[l].at >= p.versions[a]
      BY <2>11, <3>1, <3>2, <3>3 DEF Listed, NoFetch
    <3>5. p.lists[l].at \in Nat /\ p.versions[a] \in Nat \cup {-1} /\ c.seen[a] \in Nat \cup {-1}
      BY <3>2, CacheIs DEF PageTyped, Pages, Entries, Seen, Calls
    <3>6. c.seen[a] = -1 \/ p.versions[a] = -1 \/ p.versions[a] = c.seen[a]
      BY <3>3 DEF Changed
    <3>7. ~(c.seen[a] # -1 /\ p.versions[a] = -1 /\ p.lists[l].at < c.seen[a])
      BY <2>11, <3>1, <3>2
    <3> QED
      BY <3>1, <3>2, <3>4, <3>5, <3>6, <3>7
  <2>12. \A A : Listed(p, A) => Listed(q, A \cup late)
    BY <2>11 DEF Listed, NoFetch
  <2>13. Spares(p, q)
    <3>1. \A d \in p.calls : Like(d, d)
      BY DEF Like
    <3>2. Narrows(p, v)
      BY <2>5, <2>6, <3>1 DEF Narrows
    <3>3. Spares(p, v)
      BY <3>2, NarrowsSpares DEF PageTyped
    <3>4. Spares(v, q)
      BY <2>3, <2>6, <2>8, <2>9, FetchSpares
    <3> QED
      BY <3>3, <3>4, SparesTwice
  <2> QED
    BY <1>2, <2>1, <2>3, <2>5, <2>6, <2>7, <2>10, <2>12, <2>13 DEF InPlace
<1> QED
  BY <1>1, <1>2

(***************************************************************************)
(* A list is answered                                                      *)
(***************************************************************************)
\* p is the page without the fetch c that is answered.
Fetched(p, c, I) ==
    /\ PageTyped(p) /\ Named(p, I) /\ c \in Calls /\ c.kind = "list" /\ c.list \in Lists
    /\ c.list[1] \in I /\ \A d \in p.calls : d.kind = "add" => d.list[1] # c.list[1]
    /\ NoFetch(p, c.list)

\* The list c fetched is cached.
Had(p, c) == c.list \in DOMAIN p.lists /\ p.lists[c.list].at = c.got.at

LEMMA PutReply ==
    ASSUME NEW p, NEW c, NEW I, Fetched(p, c, I)
    PROVE  LET q == PutListCache(p, c.list, c.got) IN
           /\ PageTyped(q) /\ Named(q, I) /\ SameRows(p, q) /\ Put(p, q, c.list, c.got) /\ Had(q, c)
           /\ (Stored(p) /\ Of(c.list, c.got.mails) => Stored(q)) /\ (Continued(p) => Continued(q))
           /\ c.list[2] = Inbox => \A A : Listed(p, A \cup {c.list[1]}) =>
                 /\ c.got.at >= p.versions[c.list[1]] => Listed(q, A)
                 /\ Listed(q, A \cup {c.list[1]})
           /\ c.list[2] # Inbox => \A A : Listed(p, A) => Listed(q, A)
<1>1. PICK q, l, e : q = PutListCache(p, l, e) /\ l = c.list /\ e = c.got
  OBVIOUS
<1>2. p \in Pages /\ l \in Lists /\ e \in Entries
  BY <1>1 DEF Fetched, PageTyped, Calls
<1>3. q \in Pages /\ SameRows(p, q) /\ Put(p, q, l, e)
  BY <1>1, <1>2, PutIs
<1>4. Active(q) = Active(p) /\ (Shown(q) <=> Shown(p)) /\ q.calls = p.calls
  BY <1>3 DEF SameRows, Active, Shown
<1>5. PageTyped(q)
  BY <1>3, <1>4 DEF Fetched, PageTyped, SameRows, Distinct
<1>6. Named(q, I)
  <2>1. \A a : Names(q, a) => Names(p, a) \/ a = l[1]
    BY <1>3 DEF Names, SameRows, Put
  <2> QED
    BY <1>1, <1>4, <2>1 DEF Fetched, Named
<1>7. Had(q, c)
  BY <1>1, <1>3 DEF Had, Put
<1>8. (Stored(p) /\ Of(l, e.mails) => Stored(q)) /\ (Continued(p) => Continued(q))
  BY <1>3, <1>4 DEF Stored, Continued, SameRows, Put
<1>9. ASSUME NEW A, NEW a \in Accounts \ A, a # l[1] \/ l[2] # Inbox \/ e.at >= p.versions[a],
             (l[2] = Inbox /\ Listed(p, A \cup {l[1]})) \/ (l[2] # Inbox /\ Listed(p, A)),
             <<a, Inbox>> \in DOMAIN q.lists, NoFetch(q, <<a, Inbox>>)
      PROVE  q.lists[<<a, Inbox>>].at >= q.versions[a]
  <2>1. q.versions = p.versions /\ NoFetch(p, <<a, Inbox>>)
    BY <1>3, <1>4, <1>9 DEF SameRows, NoFetch, FetchesOf
  <2>2. CASE l = <<a, Inbox>>
    <3>1. l[1] = a /\ l[2] = Inbox
      BY <2>2
    <3> QED
      BY <1>3, <1>9, <2>1, <2>2, <3>1 DEF Put
  <2>3. CASE l # <<a, Inbox>>
    <3>1. a # l[1] \/ l[2] # Inbox
      BY <1>2, <2>3, ListIs
    <3>2. <<a, Inbox>> \in DOMAIN p.lists /\ q.lists[<<a, Inbox>>] = p.lists[<<a, Inbox>>]
      BY <1>3, <1>9, <2>3 DEF Put
    <3>3. p.lists[<<a, Inbox>>].at >= p.versions[a]
      BY <1>9, <2>1, <3>1, <3>2 DEF Listed, NoFetch
    <3> QED
      BY <2>1, <3>2, <3>3
  <2> QED
    BY <2>2, <2>3
<1> QED
  BY <1>1, <1>3, <1>5, <1>6, <1>7, <1>8, <1>9 DEF Listed, NoFetch

LEMMA PutSpares ==
    ASSUME NEW p, PageTyped(p), NEW l \in Lists, NEW e \in Entries, NoFetch(p, l),
           NEW B, NEW T, SkipsNone(p, B, T), Whole(e, B[l], T[l])
    PROVE  SkipsNone(PutListCache(p, l, e), B, T)
<1>1. PICK q : q = PutListCache(p, l, e)
  OBVIOUS
<1>2. SameRows(p, q) /\ Put(p, q, l, e)
  BY <1>1, PutIs DEF PageTyped
<1>3. (Shown(q) <=> Shown(p)) /\ q.calls = p.calls /\ q.key = p.key
  BY <1>2 DEF SameRows, Shown, Active
<1>4. \A k \in DOMAIN q.lists : Whole(q.lists[k], B[k], T[k])
  BY <1>2 DEF Put, SkipsNone
<1>5. ASSUME NEW c \in q.calls PROVE AnswerFits(q, c, B[c.list], T[c.list])
  <2>1. c \in p.calls /\ AnswerFits(p, c, B[c.list], T[c.list]) /\ (c.kind = "list" => c.list # l)
    BY <1>3 DEF SkipsNone, NoFetch, FetchesOf
  <2>2. c.list # l /\ c.list \in DOMAIN q.lists => c.list \in DOMAIN p.lists /\ q.lists[c.list] = p.lists[c.list]
    BY <1>2 DEF Put
  <2> QED
    BY <2>1, <2>2 DEF AnswerFits
<1>6. Shown(q) => RowsSkipNone(q, B[q.key], T[q.key])
  BY <1>2, <1>3 DEF SkipsNone, RowsSkipNone, SameRows, Continuing, FetchesOf
<1> QED
  BY <1>1, <1>4, <1>5, <1>6 DEF SkipsNone

\* Whoever fetches what is shown shows what it gets.
Waits(p) == Shown(p) => \A d \in FetchesOf(p, p.key) : d.load \/ d.quiet

LEMMA LoadReplyIs ==
    ASSUME NEW p, PageTyped(p), NEW c \in Calls, c.list \in Lists, c.reply = "ok", Had(p, c),
           NoFetch(p, c.list), NEW flags
    PROVE  LET q == LoadReply(p, c, flags) IN
           /\ PageTyped(q) /\ (\A I : Named(p, I) => Named(q, I)) /\ (Waits(p) => Waits(q))
           /\ c.list \in DOMAIN q.lists /\ (c.list = Active(q) => Had(q, c))
           /\ (InPlace(p) /\ Of(c.list, c.got.mails) => InPlace(q))
           /\ (c.load => SameAge(q)) /\ (~c.load => q = p)
           /\ \A A : Listed(p, A) => Listed(q, A)
<1>1. PICK q, l, e : q = LoadReply(p, c, flags) /\ l = c.list /\ e = c.got
  OBVIOUS
<1>2. e \in Entries /\ p \in Pages /\ l \in DOMAIN p.lists /\ p.lists[l].at = e.at
  BY <1>1 DEF Calls, Had, PageTyped
<1>3. CASE ~c.load
  <2>1. q = p
    BY <1>1, <1>3 DEF LoadReply
  <2> QED
    BY <1>1, <1>2, <1>3, <2>1
<1>4. CASE c.load /\ Unchanged(p, c, flags)
  <2>1. PICK at \in Nat : at = e.at
    BY <1>2 DEF Entries
  <2>2. q = [p EXCEPT !.at = at]
    BY <1>1, <1>4, <2>1 DEF LoadReply
  <2>3. /\ q \in Pages /\ q.at = at /\ q.account = p.account /\ q.folder = p.folder
        /\ q.key = p.key /\ q.cache = p.cache /\ q.lists = p.lists /\ q.known = p.known
        /\ q.ahead = p.ahead /\ q.versions = p.versions /\ q.calls = p.calls
    BY <1>2, <2>2 DEF Pages
  <2>4. PageTyped(q) /\ Active(q) = Active(p) /\ (Shown(q) <=> Shown(p)) /\ p.key = l
    BY <1>1, <1>4, <2>3 DEF PageTyped, Active, Shown, Distinct, Unchanged
  <2>5. ASSUME NEW I, Named(p, I) PROVE Named(q, I)
    <3>1. \A a : Names(q, a) => Names(p, a)
      BY <2>3 DEF Names
    <3> QED
      BY <2>3, <2>5, <3>1 DEF Named
  <2>6. (Waits(p) => Waits(q)) /\ (InPlace(p) => InPlace(q))
    BY <2>3, <2>4 DEF Waits, FetchesOf, InPlace, Stored, Continued
  <2>7. SameAge(q) /\ Had(q, c)
    BY <1>1, <1>2, <2>1, <2>3, <2>4 DEF SameAge, Had
  <2>8. ASSUME NEW A, Listed(p, A) PROVE Listed(q, A)
    BY <2>3, <2>8 DEF Listed, FetchesOf
  <2> QED
    BY <1>1, <1>2, <1>4, <2>3, <2>4, <2>5, <2>6, <2>7, <2>8
<1>5. CASE c.load /\ ~Unchanged(p, c, flags)
  <2>1. PICK r : r = Replaced(p)
    OBVIOUS
  <2>2. Mapped(p, r) /\ \A d \in r.calls : ~d.current
    BY <1>2, <2>1, ReplacedIs
  <2>3. /\ PageTyped(r) /\ (\A I : Named(p, I) => Named(r, I)) /\ (Stored(p) => Stored(r))
        /\ NoFetch(r, l) /\ \A A : Listed(p, A) => Listed(r, A)
    BY <1>1, <2>2, MappedKeeps
  <2>4. r.lists = p.lists /\ Names(r, l[1])
    BY <1>2, <2>2 DEF Mapped, SameView, Names
  <2>5. q = ApplyMailList(r, l, e)
    BY <1>1, <1>5, <2>1 DEF LoadReply
  <2>6. /\ PageTyped(q) /\ (\A I : Named(r, I) => Named(q, I)) /\ SameAge(q)
        /\ q.key = l /\ q.at = e.at /\ q.calls = r.calls /\ DOMAIN q.lists = DOMAIN r.lists
        /\ Stored(r) /\ (l = Active(r) => Of(l, e.mails))
             => Stored(q) /\ (Shown(q) => Of(q.key, q.cache))
        /\ \A k : NoFetch(q, k) <=> NoFetch(r, k)
        /\ \A A : Listed(r, A) => Listed(q, A)
    BY <1>1, <1>2, <2>3, <2>4, <2>5, ApplyKeeps
  <2>7. InPlace(p) /\ Of(l, e.mails) => InPlace(q)
    BY <2>2, <2>3, <2>6 DEF InPlace, Continued
  <2>8. Waits(q)
    BY <2>3, <2>6 DEF Waits, NoFetch
  <2>9. l = Active(q) => Had(q, c)
    BY <1>1, <1>2, <2>4, <2>6, ListIs DEF Had, SameAge, Shown
  <2> QED
    BY <1>1, <1>2, <1>5, <2>3, <2>4, <2>6, <2>7, <2>8, <2>9
<1> QED
  BY <1>3, <1>4, <1>5

\* What loadMails shows is what was cached just before.
LEMMA LoadReplySpares ==
    ASSUME NEW p, PageTyped(p), NEW c \in Calls, NEW l \in Lists, c.list = l, c.reply = "ok",
           l \in DOMAIN p.lists, p.lists[l] = c.got, NEW flags
    PROVE  LET q == LoadReply(p, c, flags) IN
           /\ Spares(p, q) /\ (NoFetch(p, l) => NoFetch(q, l))
           /\ l \in DOMAIN q.lists /\ q.lists[l].mails = c.got.mails
           /\ q.lists[l].more = c.got.more /\ q.lists[l].oldest = c.got.oldest
           /\ \/ /\ q.key = p.key /\ q.cache = p.cache /\ q.calls = p.calls
                 /\ q.account = p.account /\ q.folder = p.folder
              \/ q.cache = c.got.mails /\ Continuing(q) = {}
<1>1. PICK q, e : q = LoadReply(p, c, flags) /\ e = c.got
  OBVIOUS
<1>2. e \in Entries /\ p \in Pages
  BY <1>1 DEF Calls, PageTyped
<1>3. CASE ~c.load
  <2>1. q = p
    BY <1>1, <1>3 DEF LoadReply
  <2> QED
    BY <1>1, <2>1 DEF Spares
<1>4. CASE c.load /\ Unchanged(p, c, flags)
  <2>1. q = [p EXCEPT !.at = e.at]
    BY <1>1, <1>4 DEF LoadReply
  <2>2. /\ q.account = p.account /\ q.folder = p.folder /\ q.key = p.key /\ q.cache = p.cache
        /\ q.more = p.more /\ q.oldest = p.oldest /\ q.lists = p.lists /\ q.calls = p.calls
    BY <1>2, <2>1 DEF Pages
  <2>3. (Shown(q) <=> Shown(p)) /\ (NoFetch(p, l) => NoFetch(q, l)) /\ \A d \in p.calls : Like(d, d)
    BY <2>2 DEF Shown, Active, NoFetch, FetchesOf, Like
  <2>4. Narrows(p, q)
    BY <2>2, <2>3 DEF Narrows
  <2> QED
    BY <1>1, <1>2, <2>2, <2>3, <2>4, NarrowsSpares
<1>5. CASE c.load /\ ~Unchanged(p, c, flags)
  <2>1. PICK r : r = Replaced(p)
    OBVIOUS
  <2>2. Mapped(p, r) /\ \A d \in r.calls : ~d.current
    BY <1>2, <2>1, ReplacedIs
  <2>3. r \in Pages /\ r.lists = p.lists /\ Spares(p, r) /\ (NoFetch(p, l) => NoFetch(r, l))
    BY <1>2, <2>2, MappedSpares, MappedKeeps DEF Mapped, SameView
  <2>4. q = ApplyMailList(r, l, e)
    BY <1>1, <1>5, <2>1 DEF LoadReply
  <2>5. Spares(r, q)
    BY <1>1, <1>2, <2>2, <2>3, <2>4, CachedSpares
  <2>6. PICK d : Applied(r, d, l, e) /\ Synced(d, q)
    BY <1>2, <2>3, <2>4, ApplyIs
  <2>7. /\ d.cache = e.mails /\ d.more = e.more /\ d.oldest = e.oldest /\ d.key = l
        /\ d.lists = p.lists /\ d.calls = r.calls /\ q.cache = d.cache /\ q.calls = d.calls
    BY <2>3, <2>6 DEF Applied, Synced, SameRows
  <2>8. NoFetch(p, l) => NoFetch(q, l)
    BY <2>3, <2>7 DEF NoFetch, FetchesOf
  <2>9. l \in DOMAIN q.lists /\ q.lists[l].mails = e.mails /\ q.lists[l].more = e.more
        /\ q.lists[l].oldest = e.oldest
    <3>1. CASE ~Shown(d)
      BY <1>1, <2>6, <2>7, <3>1 DEF Synced
    <3>2. CASE Shown(d)
      BY <2>6, <2>7, <3>2 DEF Synced, Put
    <3> QED
      BY <3>1, <3>2
  <2>10. Continuing(q) = {}
    BY <2>2, <2>7 DEF Continuing
  <2> QED
    BY <1>1, <2>3, <2>5, <2>7, <2>8, <2>9, <2>10, SparesTwice
<1> QED
  BY <1>3, <1>4, <1>5

LEMMA QuietEntryIs ==
    ASSUME NEW p \in Pages, NEW e \in Entries
    PROVE  LET f == QuietEntry(p, e) IN
           /\ f \in Entries /\ f.at = e.at
           /\ \A l : Of(l, e.mails) /\ Of(l, p.cache) => Of(l, f.mails)
<1>1. CASE e.mails = << >> \/ Older(p, e) = << >>
  BY <1>1 DEF QuietEntry
<1>2. CASE ~(e.mails = << >> \/ Older(p, e) = << >>)
  <2>1. PICK old, s : old = Older(p, e) /\ s = e.mails \o old
    OBVIOUS
  <2>2. p.cache \in Seq(Mails) /\ e.mails \in Seq(Mails)
    BY DEF Pages, Entries
  <2>3. old \in Seq(Mails) /\ \A l : Of(l, p.cache) => Of(l, old)
    BY <2>1, <2>2, OfRows DEF Older
  <2>4. s \in Seq(Mails) /\ \A l : Of(l, e.mails) /\ Of(l, old) => Of(l, s)
    BY <2>1, <2>2, <2>3, OfJoined
  <2>5. PICK f : f = [e EXCEPT !.mails = s, !.more = p.more, !.oldest = p.oldest]
    OBVIOUS
  <2>6. f \in Entries /\ f.at = e.at /\ f.mails = s
    BY <2>4, <2>5 DEF Entries, Pages
  <2>7. QuietEntry(p, e) = f
    BY <1>2, <2>1, <2>5 DEF QuietEntry
  <2> QED
    BY <2>3, <2>4, <2>6, <2>7
<1> QED
  BY <1>1, <1>2

LEMMA QuietReplyIs ==
    ASSUME NEW p, PageTyped(p), NEW c \in Calls, c.list \in Lists, c.list \in DOMAIN p.lists,
           c.list = Active(p) => Had(p, c)
    PROVE  LET q == QuietReply(p, c) IN
           /\ PageTyped(q) /\ (\A I : Named(p, I) => Named(q, I)) /\ (Waits(p) => Waits(q))
           /\ (InPlace(p) /\ Of(c.list, c.got.mails) => InPlace(q))
           /\ (c.quiet /\ c.reply = "ok" /\ p.key = c.list => SameAge(q))
           /\ (~(c.quiet /\ c.reply = "ok" /\ p.key = c.list) => q = p)
           /\ \A A : Listed(p, A) => Listed(q, A)
<1>1. PICK q, l, f : q = QuietReply(p, c) /\ l = c.list /\ f = QuietEntry(p, c.got)
  OBVIOUS
<1>2. CASE ~(c.quiet /\ c.reply = "ok" /\ p.key = c.list)
  <2>1. q = p
    BY <1>1, <1>2 DEF QuietReply
  <2> QED
    BY <1>1, <1>2, <2>1
<1>3. CASE c.quiet /\ c.reply = "ok" /\ p.key = c.list
  <2>1. /\ f \in Entries /\ f.at = c.got.at
        /\ \A k : Of(k, c.got.mails) /\ Of(k, p.cache) => Of(k, f.mails)
    BY <1>1, QuietEntryIs DEF PageTyped, Calls
  <2>2. PICK r : r = IF p.cache = << >> THEN Replaced(p) ELSE p
    OBVIOUS
  <2>3. /\ PageTyped(r) /\ (\A I : Named(p, I) => Named(r, I)) /\ SameView(p, r)
        /\ (Stored(p) => Stored(r)) /\ (Continued(p) => Continued(r))
        /\ (Waits(p) => Waits(r)) /\ \A A : Listed(p, A) => Listed(r, A)
    <3>1. CASE p.cache # << >>
      BY <2>2, <3>1 DEF SameView
    <3>2. CASE p.cache = << >>
      <4>1. /\ Mapped(p, r)
            /\ \A d \in r.calls : \E b \in p.calls : Like(d, b) /\ d.load = b.load /\ d.quiet = b.quiet
        BY <2>2, <3>2, ReplacedIs DEF PageTyped
      <4>2. SameView(p, r) /\ (Shown(r) <=> Shown(p))
        BY <4>1, ViewKeeps DEF Mapped
      <4>3. Waits(p) => Waits(r)
        BY <4>1, <4>2 DEF Waits, FetchesOf, Like, SameView
      <4> QED
        BY <4>1, <4>2, <4>3, MappedKeeps
    <3> QED
      BY <3>1, <3>2
  <2>4. Names(r, l[1]) /\ (l = Active(r) => l \in DOMAIN r.lists /\ r.lists[l].at = f.at)
    BY <1>1, <2>1, <2>3, ViewKeeps DEF Names, Had, SameView
  <2>5. q = ApplyMailList(r, l, f)
    BY <1>1, <1>3, <2>2 DEF QuietReply
  <2>6. /\ PageTyped(q) /\ (\A I : Named(r, I) => Named(q, I)) /\ SameAge(q)
        /\ q.key = l /\ q.account = r.account /\ q.folder = r.folder /\ q.calls = r.calls
        /\ Stored(r) /\ (l = Active(r) => Of(l, f.mails))
             => Stored(q) /\ (Shown(q) => Of(q.key, q.cache))
        /\ \A A : Listed(r, A) => Listed(q, A)
    BY <1>1, <2>1, <2>3, <2>4, <2>5, ApplyKeeps
  <2>7. r.key = l /\ (Shown(q) <=> Shown(r)) /\ (l = Active(r) => Shown(r)) /\ p.key = l
        /\ (Shown(r) <=> Shown(p)) /\ r.cache = p.cache
    BY <1>1, <1>3, <2>3, <2>6, ListIs DEF Shown, Active, SameView
  <2>8. Waits(r) => Waits(q)
    BY <2>6, <2>7 DEF Waits, FetchesOf
  <2>9. InPlace(p) /\ Of(l, c.got.mails) => InPlace(q)
    BY <2>1, <2>3, <2>6, <2>7 DEF InPlace, Continued
  <2> QED
    BY <1>1, <1>3, <2>3, <2>6, <2>7, <2>8, <2>9
<1> QED
  BY <1>2, <1>3

LEMMA OlderIs ==
    ASSUME NEW p \in Pages, NEW e \in Entries
    PROVE  /\ Older(p, e) \in Seq(Mails)
           /\ Uids(Older(p, e)) = {u \in Uids(p.cache) : \A n \in Uids(e.mails) : u < n}
<1>1. PICK s, M : s = p.cache /\ M = {m \in ToSet(s) : \A n \in ToSet(e.mails) : m.uid < n.uid}
  OBVIOUS
<1>2. s \in Seq(Mails) /\ Older(p, e) = Rows(s, M)
  BY <1>1 DEF Pages, Older
<1>3. \A u : u \in Uids(Rows(s, M)) <=> \E k \in DOMAIN s : s[k] \in M /\ s[k].uid = u
  BY <1>2, RowsHave
<1>4. \A k \in DOMAIN s : s[k] \in M <=> \A n \in Uids(e.mails) : s[k].uid < n
  BY <1>1 DEF ToSet, Uids
<1>5. \A u : u \in Uids(s) <=> \E k \in DOMAIN s : s[k].uid = u
  BY DEF Uids
<1>6. \A u : u \in Uids(Rows(s, M)) <=> u \in Uids(s) /\ \A n \in Uids(e.mails) : u < n
  BY <1>3, <1>4, <1>5
<1>7. Rows(s, M) \in Seq(Mails)
  BY <1>2, RowsAre
<1> QED
  BY <1>1, <1>2, <1>6, <1>7

\* A quiet refresh skips none, unless a whole page has come in between.
LEMMA QuietSpares ==
    ASSUME NEW p, PageTyped(p), NEW c \in Calls, NEW l \in Lists, c.list = l,
           l \in DOMAIN p.lists, p.lists[l].mails = c.got.mails, p.lists[l].more = c.got.more,
           p.lists[l].oldest = c.got.oldest, NoFetch(p, l),
           NEW B, NEW T, Served(B, T), SkipsNone(p, B, T),
           Shown(p) /\ p.key = l => /\ Behind(B[l], Uids(p.cache), Uids(c.got.mails))
                                    /\ \A d \in Continuing(p) : Behind(B[l], d.uids, Uids(c.got.mails)),
           c.quiet /\ c.reply = "ok" /\ p.key = l /\ c.got.mails # << >> /\ Older(p, c.got) # << >> =>
              ~\E u \in B[l] : \A m \in ToSet(p.cache), n \in ToSet(c.got.mails) : m.uid < u /\ u < n.uid
    PROVE  SkipsNone(QuietReply(p, c), B, T)
<1>1. PICK q, e, f : q = QuietReply(p, c) /\ e = c.got /\ f = QuietEntry(p, e)
  OBVIOUS
<1>2. /\ e \in Entries /\ p \in Pages /\ p.cache \in Seq(Mails) /\ e.mails \in Seq(Mails)
      /\ Uids(p.cache) \in SUBSET Nat /\ Uids(e.mails) \in SUBSET Nat /\ B[l] \in SUBSET Nat
      /\ \A d \in p.calls : d.uids \in SUBSET Nat
  BY <1>1, PageHas DEF Calls, Served
<1>3. CASE ~(c.quiet /\ c.reply = "ok" /\ p.key = l)
  BY <1>1, <1>3 DEF QuietReply
<1>4. CASE c.quiet /\ c.reply = "ok" /\ p.key = l
  <2>1. /\ Older(p, e) \in Seq(Mails)
        /\ Uids(Older(p, e)) = {u \in Uids(p.cache) : \A n \in Uids(e.mails) : u < n}
    BY <1>2, OlderIs
  <2>2. CASE p.cache = << >>
    <3>1. PICK r : r = Replaced(p)
      OBVIOUS
    <3>2. Mapped(p, r) /\ \A d \in r.calls : ~d.current
      BY <1>2, <3>1, ReplacedIs
    <3>3. r \in Pages /\ r.lists = p.lists /\ Spares(p, r)
      BY <1>2, <3>2, MappedSpares DEF Mapped, SameView
    <3>4. Uids(Older(p, e)) = {}
      <4>1. Uids(p.cache) = {}
        BY <1>2, <2>2, NoUids
      <4> QED
        BY <2>1, <4>1
    <3>5. f = e
      BY <1>1, <2>1, <3>4, NoUids DEF QuietEntry
    <3>6. q = ApplyMailList(r, l, e)
      BY <1>1, <1>4, <2>2, <3>1, <3>5 DEF QuietReply
    <3>7. Spares(r, q)
      BY <1>1, <1>2, <3>2, <3>3, <3>6, CachedSpares
    <3> QED
      BY <1>1, <3>3, <3>7 DEF Spares
  <2>3. CASE p.cache # << >>
    <3>1. f \in Entries
      BY <1>1, <1>2, QuietEntryIs
    <3>2. q = ApplyMailList(p, l, f)
      BY <1>1, <1>4, <2>3 DEF QuietReply
    <3>3. PICK d : Applied(p, d, l, f) /\ Synced(d, q)
      BY <1>2, <3>1, <3>2, ApplyIs
    <3>4. /\ d \in Pages /\ d.key = l /\ d.cache = f.mails /\ d.more = f.more /\ d.oldest = f.oldest
          /\ d.lists = p.lists /\ d.calls = p.calls /\ (Shown(d) => Shown(p))
      BY <1>4, <3>3 DEF Applied, Shown, Active
    <3>5. ASSUME Shown(d) PROVE RowsSkipNone(d, B[l], T[l])
      <4>1. PICK U, G, O, S, t : /\ U = Uids(p.cache) /\ G = Uids(e.mails) /\ S = B[l] /\ t = T[l]
                                 /\ O = {u \in U : \A n \in G : u < n}
        OBVIOUS
      <4>2. /\ RowsSkipNone(p, S, t) /\ U # {} /\ (G = {} <=> e.mails = << >>)
            /\ (O = {} <=> Older(p, e) = << >>) /\ O = Uids(Older(p, e))
        BY <1>2, <1>4, <2>1, <2>3, <3>4, <3>5, <4>1, NoUids DEF SkipsNone
      <4>3. Whole(e, S, t)
        BY <1>1, <4>1 DEF SkipsNone, Whole
      <4>4. Behind(S, U, G) /\ \A k \in Continuing(p) : k.uids \in SUBSET Nat /\ Behind(S, k.uids, G)
        BY <1>1, <1>2, <1>4, <3>4, <3>5, <4>1 DEF Continuing
      <4>5. G # {} /\ O # {} => ~\E u \in S : \A v \in U, n \in G : v < u /\ u < n
        <5>1. ASSUME G # {}, O # {} PROVE ~\E u \in S : \A m \in ToSet(p.cache), n \in ToSet(e.mails) : m.uid < u /\ u < n.uid
          BY <1>1, <1>4, <4>1, <4>2, <5>1
        <5>2. /\ \A m \in ToSet(p.cache) : m.uid \in U
              /\ \A n \in ToSet(e.mails) : n.uid \in G
          BY <4>1 DEF ToSet, Uids
        <5> QED
          BY <5>1, <5>2
      <4>6. FetchesOf(p, p.key) = {} /\ d.key = p.key
        BY <1>4, <3>4 DEF NoFetch
      <4>7. /\ G = {} \/ O = {} => Uids(d.cache) = G /\ d.more = e.more /\ d.oldest = e.oldest
            /\ G # {} /\ O # {} => Uids(d.cache) = G \cup O /\ d.more = p.more /\ d.oldest = p.oldest
        <5>1. CASE G = {} \/ O = {}
          <6>1. f = e
            BY <1>1, <4>2, <5>1 DEF QuietEntry
          <6> QED
            BY <3>4, <4>1, <5>1, <6>1
        <5>2. CASE ~(G = {} \/ O = {})
          <6>1. PICK old, s : old = Older(p, e) /\ s = e.mails \o old
            OBVIOUS
          <6>2. f = [e EXCEPT !.mails = s, !.more = p.more, !.oldest = p.oldest]
            BY <1>1, <4>2, <5>2, <6>1 DEF QuietEntry
          <6>3. f.mails = s /\ f.more = p.more /\ f.oldest = p.oldest
            BY <1>2, <6>2 DEF Entries
          <6>4. Uids(s) = G \cup O
            BY <1>2, <2>1, <4>1, <4>2, <6>1, UidsJoined
          <6> QED
            BY <3>4, <5>2, <6>3, <6>4
        <5> QED
          BY <5>1, <5>2
      <4>8. U \in SUBSET Nat /\ G \in SUBSET Nat /\ S \in SUBSET Nat
        BY <1>2, <4>1
      <4>9. Refreshed(p, d, e, U, G, O, S)
        BY <3>4, <4>1, <4>2, <4>4, <4>5, <4>6, <4>7, <4>8 DEF Refreshed
      <4>10. RowsSkipNone(d, S, t)
        BY <4>2, <4>3, <4>8, <4>9, QuietRows
      <4> QED
        BY <4>1, <4>10
    <3>6. SkipsNone(d, B, T)
      BY <3>4, <3>5 DEF SkipsNone, AnswerFits
    <3>7. Spares(d, q)
      BY <3>3, <3>4, SyncedSpares
    <3> QED
      BY <1>1, <3>6, <3>7 DEF Spares
  <2> QED
    BY <2>2, <2>3
<1> QED
  BY <1>3, <1>4

LEMMA FetchedSpares ==
    ASSUME NEW p, NEW c, NEW I, Fetched(p, c, I), NEW flags, c.reply = "ok",
           NEW B, NEW T, Served(B, T), SkipsNone(p, B, T), Whole(c.got, B[c.list], T[c.list]),
           Shown(p) /\ p.key = c.list =>
              /\ Behind(B[c.list], Uids(p.cache), Uids(c.got.mails))
              /\ \A d \in Continuing(p) : Behind(B[c.list], d.uids, Uids(c.got.mails)),
           c.quiet /\ p.key = c.list /\ Older(p, c.got) # << >> =>
              ~\E u \in B[c.list] : \A m \in ToSet(p.cache), n \in ToSet(c.got.mails) : m.uid < u /\ u < n.uid
    PROVE  SkipsNone(QuietReply(LoadReply(PutListCache(p, c.list, c.got), c, flags), c), B, T)
<1>1. PICK l, e, r, s : /\ l = c.list /\ e = c.got /\ r = PutListCache(p, l, e)
                        /\ s = LoadReply(r, c, flags)
  OBVIOUS
<1>2. /\ PageTyped(p) /\ p \in Pages /\ c \in Calls /\ l \in Lists /\ e \in Entries /\ NoFetch(p, l)
      /\ e.mails \in Seq(Mails) /\ Uids(e.mails) \in SUBSET Nat
  BY <1>1, PageHas DEF Fetched, PageTyped, Calls
<1>3. PageTyped(r) /\ SameRows(p, r) /\ Put(p, r, l, e) /\ Had(r, c) /\ SkipsNone(r, B, T)
  BY <1>1, <1>2, PutReply, PutSpares
<1>4. NoFetch(r, l) /\ l \in DOMAIN r.lists /\ r.lists[l] = e
  BY <1>2, <1>3 DEF NoFetch, FetchesOf, SameRows, Put
<1>5. /\ Spares(r, s) /\ NoFetch(s, l) /\ l \in DOMAIN s.lists /\ s.lists[l].mails = e.mails
      /\ s.lists[l].more = e.more /\ s.lists[l].oldest = e.oldest
      /\ \/ /\ s.key = r.key /\ s.cache = r.cache /\ s.calls = r.calls
            /\ s.account = r.account /\ s.folder = r.folder
         \/ s.cache = e.mails /\ Continuing(s) = {}
  BY <1>1, <1>2, <1>3, <1>4, LoadReplySpares
<1>6. PageTyped(s) /\ SkipsNone(s, B, T)
  BY <1>1, <1>2, <1>3, <1>4, <1>5, LoadReplyIs DEF Spares
<1>7. CASE s.cache = e.mails /\ Continuing(s) = {}
  <2>1. Behind(B[l], Uids(s.cache), Uids(e.mails))
    BY <1>7 DEF Behind
  <2>2. e.mails # << >> => Older(s, e) = << >>
    <3>1. /\ Older(s, e) \in Seq(Mails)
          /\ Uids(Older(s, e)) = {u \in Uids(s.cache) : \A n \in Uids(e.mails) : u < n}
      BY <1>2, <1>6, OlderIs DEF PageTyped
    <3>2. \A u \in Uids(e.mails) : ~(u < u)
      BY <1>2
    <3>3. Uids(Older(s, e)) = {}
      BY <1>7, <3>1, <3>2
    <3> QED
      BY <3>1, <3>3, NoUids
  <2> QED
    BY <1>1, <1>2, <1>5, <1>6, <1>7, <2>1, <2>2, QuietSpares
<1>8. CASE /\ s.key = r.key /\ s.cache = r.cache /\ s.calls = r.calls
           /\ s.account = r.account /\ s.folder = r.folder
  <2>1. /\ s.key = p.key /\ s.cache = p.cache /\ Continuing(s) = Continuing(p)
        /\ (Shown(s) <=> Shown(p))
    BY <1>3, <1>8 DEF SameRows, Continuing, Shown, Active
  <2>2. Older(s, e) = Older(p, e)
    BY <2>1 DEF Older
  <2>3. /\ Shown(s) /\ s.key = l => /\ Behind(B[l], Uids(s.cache), Uids(e.mails))
                                    /\ \A d \in Continuing(s) : Behind(B[l], d.uids, Uids(e.mails))
        /\ c.quiet /\ s.key = l /\ Older(s, e) # << >> =>
             ~\E u \in B[l] : \A m \in ToSet(s.cache), n \in ToSet(e.mails) : m.uid < u /\ u < n.uid
    BY <1>1, <2>1, <2>2
  <2> QED
    BY <1>1, <1>2, <1>5, <1>6, <2>3, QuietSpares, ZenonT(60)
<1> QED
  BY <1>5, <1>7, <1>8

LEMMA RestoreIsKept ==
    ASSUME NEW p, PageTyped(p), NEW c
    PROVE  Kept(p, RestoreReply(p, c))
<1>1. PICK q : q = [p EXCEPT !.polling = TRUE]
  OBVIOUS
<1>2. Beside(p, q) /\ Beside(p, p)
  BY <1>1 DEF Beside, SameView, PageTyped, Pages
<1>3. Kept(p, q) /\ Kept(p, p)
  BY <1>2, BesideIsKept
<1>4. \A i : Kept(q, ReadMail(q, i))
  BY <1>3, ReadIsKept DEF Kept, Steady
<1>5. \/ RestoreReply(p, c) = p \/ RestoreReply(p, c) = q
      \/ \E i : RestoreReply(p, c) = ReadMail(q, i)
  BY <1>1 DEF RestoreReply
<1> QED
  BY <1>3, <1>4, <1>5, KeptTwice

LEMMA ListReplyIs ==
    ASSUME NEW p, NEW c, NEW I, Fetched(p, c, I), InStep(p), NEW flags,
           Shown(p) /\ p.key = c.list => c.load \/ c.quiet
    PROVE  LET q == ListReply(p, c, flags) IN
           /\ PageTyped(q) /\ Named(q, I) /\ InStep(q)
           /\ (InPlace(p) /\ Of(c.list, c.got.mails) => InPlace(q))
           /\ (Searched(p) /\ ~c.load => Searched(q))
           /\ c.reply # "ok" => Spares(p, q)
           /\ c.reply = "ok" =>
                 Spares(QuietReply(LoadReply(PutListCache(p, c.list, c.got), c, flags), c), q)
           /\ c.list[2] = Inbox => \A A : Listed(p, A \cup {c.list[1]}) =>
                 /\ c.reply = "ok" /\ c.got.at >= p.versions[c.list[1]] => Listed(q, A)
                 /\ Listed(q, A \cup {c.list[1]})
           /\ c.list[2] # Inbox => \A A : Listed(p, A) => Listed(q, A)
<1>1. PageTyped(p) /\ Named(p, I) /\ p \in Pages /\ c \in Calls /\ c.list \in Lists
  BY DEF Fetched, PageTyped
<1>2. CASE c.reply # "ok"
  <2>1. PICK d : d = LoadReply(p, c, flags)
    OBVIOUS
  <2>2. d = p \/ d = [p EXCEPT !.drawn = FALSE]
    BY <1>2, <2>1 DEF LoadReply
  <2>3. Beside(p, d)
    BY <1>1, <2>2 DEF Beside, SameView, Pages
  <2>4. Kept(p, d)
    BY <1>1, <2>3, BesideIsKept
  <2>5. ListReply(p, c, flags) = RestoreReply(d, c)
    BY <1>2, <2>1 DEF ListReply, QuietReply
  <2>6. Kept(d, RestoreReply(d, c))
    BY <2>4, RestoreIsKept DEF Kept, Steady
  <2> QED
    BY <1>1, <1>2, <2>4, <2>5, <2>6, SparesTwice DEF Kept, Steady
<1>3. CASE c.reply = "ok"
  <2>1. PICK r, s, t : /\ r = PutListCache(p, c.list, c.got)
                       /\ s = LoadReply(r, c, flags) /\ t = QuietReply(s, c)
    OBVIOUS
  <2>2. /\ PageTyped(r) /\ Named(r, I) /\ SameRows(p, r) /\ Put(p, r, c.list, c.got) /\ Had(r, c)
        /\ (Stored(p) /\ Of(c.list, c.got.mails) => Stored(r)) /\ (Continued(p) => Continued(r))
        /\ c.list[2] = Inbox => \A A : Listed(p, A \cup {c.list[1]}) =>
              /\ c.got.at >= p.versions[c.list[1]] => Listed(r, A)
              /\ Listed(r, A \cup {c.list[1]})
        /\ c.list[2] # Inbox => \A A : Listed(p, A) => Listed(r, A)
    BY <2>1, PutReply
  <2>3. /\ (Shown(r) <=> Shown(p)) /\ r.key = p.key /\ r.calls = p.calls /\ r.at = p.at
        /\ (Waits(p) => Waits(r)) /\ NoFetch(r, c.list) /\ (Searched(p) => Searched(r))
    BY <2>2 DEF SameRows, Shown, Active, Waits, FetchesOf, Fetched, NoFetch, Searched
  <2>4. Waits(r)
    BY <2>3 DEF InStep, Waits
  <2>5. /\ PageTyped(s) /\ (\A J : Named(r, J) => Named(s, J)) /\ Waits(s)
        /\ c.list \in DOMAIN s.lists /\ (c.list = Active(s) => Had(s, c))
        /\ (InPlace(r) /\ Of(c.list, c.got.mails) => InPlace(s))
        /\ (c.load => SameAge(s)) /\ (~c.load => s = r)
        /\ \A A : Listed(r, A) => Listed(s, A)
    BY <1>1, <1>3, <2>1, <2>2, <2>3, <2>4, LoadReplyIs
  <2>6. /\ PageTyped(t) /\ (\A J : Named(s, J) => Named(t, J)) /\ Waits(t)
        /\ (InPlace(s) /\ Of(c.list, c.got.mails) => InPlace(t))
        /\ (c.quiet /\ c.reply = "ok" /\ s.key = c.list => SameAge(t))
        /\ (~(c.quiet /\ c.reply = "ok" /\ s.key = c.list) => t = s)
        /\ \A A : Listed(s, A) => Listed(t, A)
    BY <1>1, <2>1, <2>5, QuietReplyIs
  <2>7. SameAge(t)
    <3>1. CASE c.quiet /\ s.key = c.list
      BY <1>3, <2>6, <3>1
    <3>2. CASE ~(c.quiet /\ s.key = c.list) /\ c.load
      BY <2>5, <2>6, <3>2
    <3>3. CASE ~(c.quiet /\ s.key = c.list) /\ ~c.load
      <4>1. t = r /\ s = r
        BY <2>5, <2>6, <3>3
      <4>2. ~(Shown(r) /\ r.key = c.list)
        BY <2>3, <3>3, <4>1
      <4>3. SameAge(r)
        BY <2>2, <2>3, <4>2 DEF InStep, SameAge, Put
      <4> QED
        BY <4>1, <4>3
    <3> QED
      BY <3>1, <3>2, <3>3
  <2>8. InStep(t)
    BY <2>6, <2>7 DEF InStep, Waits
  <2>9. Searched(p) /\ ~c.load => Searched(t)
    BY <1>1, <2>3, <2>5, <2>6, ListIs DEF Searched
  <2>10. InPlace(p) /\ Of(c.list, c.got.mails) => InPlace(t)
    BY <2>2, <2>5, <2>6 DEF InPlace
  <2>11. ListReply(p, c, flags) = RestoreReply(t, c)
    BY <1>3, <2>1 DEF ListReply
  <2>12. Kept(t, RestoreReply(t, c))
    BY <2>6, RestoreIsKept
  <2>13. \A A : Listed(r, A) => Listed(RestoreReply(t, c), A)
    BY <2>5, <2>6, <2>12 DEF Kept, Steady
  <2> QED
    BY <1>3, <2>1, <2>2, <2>5, <2>6, <2>8, <2>9, <2>10, <2>11, <2>12, <2>13 DEF Kept, Steady
<1> QED
  BY <1>2, <1>3

(***************************************************************************)
(* A reply comes in                                                        *)
(***************************************************************************)
LEMMA KeptInOrder ==
    ASSUME NEW p, NEW q, NEW r, InOrder(p, r), Kept(p, q)
    PROVE  InOrder(q, r)
BY DEF InOrder, Kept, Steady

\* p is the page o without the request c.
LEMMA TakenIs ==
    ASSUME NEW o, PageTyped(o), NEW c \in o.calls
    PROVE  LET p == [o EXCEPT !.calls = o.calls \ {c}] IN
           /\ PageTyped(p) /\ SameView(o, p) /\ p.calls = o.calls \ {c} /\ (Shown(p) <=> Shown(o))
           /\ (\A I : Named(o, I) => Named(p, I)) /\ (InStep(o) => InStep(p))
           /\ (InPlace(o) => InPlace(p)) /\ (Searched(o) => Searched(p)) /\ Spares(o, p)
           /\ \A A : Listed(o, A) => Listed(p, A \cup {c.list[1]})
           /\ c.kind # "list" \/ c.list[2] # Inbox => \A A : Listed(o, A) => Listed(p, A)
<1>1. PICK C : C = o.calls \ {c}
  OBVIOUS
<1>2. o \in Pages /\ C \in SUBSET Calls /\ IsFiniteSet(C)
  BY <1>1, FS_Subset DEF PageTyped, Pages
<1>3. PICK p : p = [o EXCEPT !.calls = C]
  OBVIOUS
<1>4. p \in Pages /\ SameView(o, p) /\ p.calls = C
  BY <1>2, <1>3, WithCalls
<1>5. Active(p) = Active(o) /\ (Shown(p) <=> Shown(o)) /\ (SameAge(o) => SameAge(p))
  BY <1>4, ViewKeeps
<1>6. PageTyped(p)
  <2>1. p.account # None => Active(p) \in Lists
    BY <1>4, <1>5 DEF PageTyped, SameView
  <2>2. Distinct(p) /\ \A d \in p.calls : CallFits(d)
    BY <1>1, <1>4 DEF PageTyped, Distinct
  <2> QED
    BY <1>2, <1>4, <2>1, <2>2 DEF PageTyped
<1>7. ASSUME NEW I, Named(o, I) PROVE Named(p, I)
  <2>1. \A a : Names(p, a) => Names(o, a)
    BY <1>1, <1>4 DEF Names, SameView
  <2> QED
    BY <1>1, <1>4, <1>7, <2>1 DEF Named
<1>8. (InStep(o) => InStep(p)) /\ (Searched(o) => Searched(p))
  BY <1>1, <1>4, <1>5 DEF InStep, Searched, FetchesOf, SameView
<1>9. InPlace(o) => InPlace(p)
  BY <1>1, <1>4, <1>5 DEF InPlace, Stored, Continued, SameView
<1>10. ASSUME NEW a \in Accounts, a # c.list[1] \/ c.kind # "list" \/ c.list[2] # Inbox,
              NoFetch(p, <<a, Inbox>>)
       PROVE  NoFetch(o, <<a, Inbox>>)
  <2>1. ~(c.kind = "list" /\ c.list = <<a, Inbox>>)
    BY <1>10
  <2> QED
    BY <1>1, <1>4, <1>10, <2>1, NoFetchIs
<1>11. ASSUME NEW A, Listed(o, A)
       PROVE  /\ Listed(p, A \cup {c.list[1]})
              /\ c.kind # "list" \/ c.list[2] # Inbox => Listed(p, A)
  BY <1>4, <1>10, <1>11 DEF Listed, SameView, NoFetch
<1>12. Spares(o, p)
  <2>1. \A d \in C : d \in o.calls /\ Like(d, d)
    BY <1>1 DEF Like
  <2>2. Narrows(o, p)
    BY <1>4, <1>5, <2>1 DEF Narrows, SameView
  <2> QED
    BY <1>2, <2>2, NarrowsSpares
<1> QED
  BY <1>1, <1>3, <1>4, <1>5, <1>6, <1>7, <1>8, <1>9, <1>11, <1>12

\* The fetch of a list is answered to those that wait for it.
LEMMA TakenFetch ==
    ASSUME NEW o, NEW r, InOrder(o, r), NEW c \in o.calls, c.kind = "list",
           NEW p, PageTyped(p), SameView(o, p), p.calls = o.calls \ {c}, Named(p, r.ids)
    PROVE  Fetched(p, c, r.ids) /\ (Shown(p) /\ p.key = c.list => c.load \/ c.quiet)
<1>1. PageTyped(o) /\ c \in Calls /\ CallFits(c) /\ (Shown(p) <=> Shown(o)) /\ o.key = p.key
  BY ViewKeeps DEF InOrder, PageTyped, Pages, SameView
<1>2. Names(o, c.list[1])
  BY DEF Names
<1>3. c.list \in Lists /\ c.list[1] \in Accounts
  BY <1>1, ListIs DEF CallFits
<1>4. c.list[1] \in r.ids /\ \A d \in p.calls : d.kind = "add" => d.list[1] # c.list[1]
  BY <1>2, <1>3 DEF InOrder, Named
<1>5. NoFetch(p, c.list)
  <2>1. \A d \in o.calls : d.kind = "list" /\ d.list = c.list => d = c
    BY <1>1 DEF PageTyped, Distinct
  <2> QED
    BY <2>1, NoFetchIs
<1>6. Shown(p) /\ p.key = c.list => c.load \/ c.quiet
  BY <1>1 DEF InOrder, InStep, FetchesOf
<1> QED
  BY <1>1, <1>3, <1>4, <1>5, <1>6 DEF Fetched

LEMMA SlipsAre ==
    ASSUME NEW c
    PROVE  /\ Slips(c) \subseteq SlipKinds
           /\ c.kind = "more" /\ ~c.current => "stray" \in Slips(c)
<1>1. \/ Slips(c) = {"stray"} \/ Slips(c) = {"shift"} \/ Slips(c) = {"row"}
      \/ Slips(c) = {"burst"} \/ Slips(c) = {}
  BY DEF Slips
<1>2. c.kind = "more" /\ ~c.current => Slips(c) = {"stray"}
  BY DEF Slips
<1> QED
  BY <1>1, <1>2 DEF SlipKinds

LEMMA RecordedIs ==
    ASSUME PastTyped, PageTyped(page), NEW c \in page.calls, past' = Recorded(c)
    PROVE  /\ PastTyped' /\ past'.ids = past.ids /\ past.slips \subseteq past'.slips
           /\ c.kind = "more" /\ c.reply = "ok" /\ ~c.current => "stray" \in past'.slips
           /\ c.reply = "ok" => Slips(c) \subseteq past'.slips
           /\ past'.search => \/ past.search /\ c.kind # "opening"
                              \/ c.kind = "search" /\ c.reply = "ok"
           /\ c.kind = "poll" /\ c.reply = "ok" => past'.missed = past.missed \cup Overlooked(c)
           /\ c.kind = "list" /\ c.list[2] = Inbox =>
                 past'.missed = IF c.reply = "ok" /\ c.got.at >= page.versions[c.list[1]]
                                THEN past.missed \ {c.list[1]} ELSE past.missed \cup {c.list[1]}
           /\ ~(c.kind = "poll" /\ c.reply = "ok") /\ ~(c.kind = "list" /\ c.list[2] = Inbox)
                => past'.missed = past.missed
<1>1. PICK slips, search, picked, missed :
         /\ slips = past.slips \cup (IF c.reply = "ok" THEN Slips(c) ELSE {})
         /\ search = ((past.search \/ (c.kind = "search" /\ c.reply = "ok")) /\ c.kind # "opening")
         /\ picked = (IF c.kind = "batchDelete" /\ c.reply = "ok" THEN {} ELSE past.picked)
         /\ missed = (CASE c.kind = "poll" /\ c.reply = "ok" -> past.missed \cup Overlooked(c)
                        [] c.kind = "list" /\ c.list[2] = Inbox ->
                              IF c.reply = "ok" /\ c.got.at >= page.versions[c.list[1]]
                              THEN past.missed \ {c.list[1]} ELSE past.missed \cup {c.list[1]}
                        [] OTHER -> past.missed)
  OBVIOUS
<1>2. past' = [past EXCEPT !.slips = slips, !.search = search, !.picked = picked, !.missed = missed]
  BY <1>1 DEF Recorded
<1>3. /\ past'.ids = past.ids /\ past'.slips = slips /\ past'.search = search
      /\ past'.picked = picked /\ past'.missed = missed
  BY <1>2 DEF PastTyped
<1>4. c.kind = "list" => c.list[1] \in Accounts
  BY ListIs DEF PageTyped, CallFits
<1>5. Overlooked(c) \subseteq Accounts
  BY DEF Overlooked
<1>6. slips \in SUBSET SlipKinds /\ search \in BOOLEAN /\ picked \in SUBSET Mails
  BY <1>1, SlipsAre DEF PastTyped
<1>7. missed \in SUBSET Accounts
  BY <1>1, <1>4, <1>5 DEF PastTyped
<1>8. PastTyped'
  BY <1>2, <1>6, <1>7 DEF PastTyped
<1>9. c.kind = "more" /\ c.reply = "ok" /\ ~c.current => "stray" \in slips
  BY <1>1, SlipsAre
<1> QED
  BY <1>1, <1>3, <1>8, <1>9

\* What a "load more" gets goes on where the rows it continues end.
LEMMA MoreSpares ==
    ASSUME NEW o, PageTyped(o), NEW c \in o.calls, c.kind = "more", c.current, c.reply = "ok",
           Straight(c), NEW p, PageTyped(p), SameView(o, p), p.calls = o.calls \ {c},
           NEW B, NEW T, Served(B, T), SkipsNone(o, B, T), SkipsNone(p, B, T)
    PROVE  SkipsNone(MoreReply(p, c), B, T)
<1>1. PICK e, s, n : /\ e = c.got /\ s = p.cache \o e.mails
                     /\ n = IF e.mails = << >> THEN p.oldest ELSE e.oldest
  OBVIOUS
<1>2. /\ p \in Pages /\ p.cache \in Seq(Mails) /\ e.mails \in Seq(Mails) /\ e.more \in BOOLEAN
      /\ p.oldest \in Nat /\ e.oldest \in Nat /\ n \in Nat /\ c \in Calls
  BY <1>1 DEF PageTyped, Pages, Calls, Entries
<1>3. s \in Seq(Mails) /\ Uids(s) = Uids(p.cache) \cup Uids(e.mails)
  BY <1>1, <1>2, OfJoined, UidsJoined
<1>4. PICK d : d = [p EXCEPT !.cache = s, !.more = e.more, !.oldest = n]
  OBVIOUS
<1>5. /\ d \in Pages /\ d.cache = s /\ d.more = e.more /\ d.oldest = n /\ d.key = p.key
      /\ d.calls = p.calls /\ d.lists = p.lists /\ (Shown(d) <=> Shown(p))
  BY <1>2, <1>3, <1>4 DEF Pages, Shown, Active
<1>6. (Shown(p) <=> Shown(o)) /\ o.key = p.key /\ o.cache = p.cache /\ o.oldest = p.oldest
  BY ViewKeeps, PageHas DEF SameView
<1>7. ASSUME Shown(d) PROVE RowsSkipNone(d, B[d.key], T[d.key])
  <2>1. PICK S, t : S = B[d.key] /\ t = T[d.key]
    OBVIOUS
  <2>2. S \in SUBSET Nat /\ t \in Nat /\ Uids(o.cache) \in SUBSET Nat
    BY <1>5, <1>6, <1>7, <2>1, PageHas DEF Served
  <2>3. RowsSkipNone(o, S, t)
    BY <1>5, <1>6, <1>7, <2>1 DEF SkipsNone
  <2>4. c \in Continuing(o)
    BY DEF Continuing
  <2>5. /\ Uids(d.cache) = Uids(o.cache) \cup Uids(c.got.mails) /\ d.key = o.key
        /\ d.calls = o.calls \ {c} /\ d.more = c.got.more
        /\ d.oldest = IF c.got.mails = << >> THEN o.oldest ELSE c.got.oldest
    BY <1>1, <1>3, <1>5, <1>6
  <2>6. RowsSkipNone(d, S, t)
    BY <1>2, <2>2, <2>3, <2>4, <2>5, MoreRows
  <2> QED
    BY <2>1, <2>6
<1>8. SkipsNone(d, B, T)
  BY <1>5, <1>7 DEF SkipsNone, AnswerFits
<1>9. MoreReply(p, c) = RenderMailList(d)
  BY <1>1, <1>4 DEF MoreReply
<1> QED
  BY <1>5, <1>8, <1>9, RenderSpares DEF Spares

\* The rows that go are not mails of the list.
LEMMA RemovedAreGone ==
    ASSUME PageTyped(page), InPlace(page), Shown(page), NEW c \in page.calls,
           c.kind \in {"delete", "move", "batchDelete"}, c.reply = "ok", Slips(c) = {},
           NEW B, NEW T, SkipsNone(page, B, T),
           NEW u \in B[page.key], u \in Uids(page.cache)
    PROVE  /\ c.kind # "batchDelete" => u \in Uids(Spliced(page))
           /\ c.kind = "batchDelete" => u \notin page.chosen
<1>1. PICK i \in DOMAIN page.cache : page.cache[i].uid = u
  BY DEF Uids
<1>2. PICK m : m = page.cache[i]
  OBVIOUS
<1>3. m.uid = u /\ m.list = page.key /\ m \in ToSet(page.cache)
  BY <1>1, <1>2 DEF InPlace, Continued, Of, ToSet
<1>4. B[c.list] \cap c.uids = {}
  BY DEF SkipsNone, AnswerFits
<1>5. ASSUME m \in {Mail(c.list, v) : v \in c.uids} PROVE FALSE
  <2>1. PICK v \in c.uids : m = Mail(c.list, v)
    BY <1>5
  <2>2. m.list = c.list /\ m.uid = v
    BY <2>1 DEF Mail
  <2> QED
    BY <1>3, <1>4, <2>1, <2>2
<1>6. CASE c.kind = "batchDelete"
  <2>1. {n \in ToSet(page.cache) : n.uid \in page.chosen} \subseteq {Mail(c.list, v) : v \in c.uids}
    BY <1>6 DEF Slips
  <2> QED
    BY <1>3, <1>5, <1>6, <2>1
<1>7. CASE c.kind # "batchDelete"
  <2>1. ToSet(page.cache) \ ToSet(Spliced(page)) \subseteq {Mail(c.list, v) : v \in c.uids}
    BY <1>7 DEF Slips
  <2>2. m \in ToSet(Spliced(page))
    BY <1>3, <1>5, <2>1
  <2>3. PICK k \in DOMAIN Spliced(page) : Spliced(page)[k] = m
    BY <2>2 DEF ToSet
  <2> QED
    BY <1>3, <1>7, <2>3 DEF Uids
<1> QED
  BY <1>6, <1>7

\* What a fetch gets is shown, and skips none.
LEMMA ListSpares ==
    ASSUME PageTyped(page), NEW c \in page.calls, c.reply = "ok", Slips(c) = {},
           NEW p, NEW I, Fetched(p, c, I), SameView(page, p), p.calls = page.calls \ {c},
           NEW flags, Served(box, top), SkipsNone(page, box, top), SkipsNone(p, box, top)
    PROVE  SkipsNone(QuietReply(LoadReply(PutListCache(p, c.list, c.got), c, flags), c), box, top)
<1>1. c.kind = "list" /\ Whole(c.got, box[c.list], top[c.list])
  BY DEF Fetched, SkipsNone, AnswerFits
<1>2. (Shown(p) <=> Shown(page)) /\ page.key = p.key /\ page.cache = p.cache
  BY ViewKeeps, PageHas DEF SameView
<1>3. Continuing(p) = Continuing(page)
  BY <1>1 DEF Continuing
<1>4. ASSUME Shown(p), p.key = c.list
      PROVE  /\ Behind(box[c.list], Uids(p.cache), Uids(c.got.mails))
             /\ \A d \in Continuing(p) : Behind(box[c.list], d.uids, Uids(c.got.mails))
  <2>1. c \in FetchesOf(page, page.key)
    BY <1>1, <1>2, <1>4 DEF FetchesOf
  <2>2. RowsSkipNone(page, box[c.list], top[c.list])
    BY <1>2, <1>4 DEF SkipsNone
  <2> QED
    BY <1>2, <1>3, <2>1, <2>2 DEF RowsSkipNone
<1>5. Older(p, c.got) = Older(page, c.got)
  BY <1>2 DEF Older
<1>6. ASSUME c.quiet, p.key = c.list, Older(p, c.got) # << >>
      PROVE  ~\E u \in box[c.list] :
                \A m \in ToSet(p.cache), n \in ToSet(c.got.mails) : m.uid < u /\ u < n.uid
  BY <1>1, <1>2, <1>5, <1>6 DEF Slips
<1> QED
  BY <1>1, <1>4, <1>6, FetchedSpares

LEMMA DeliverKeeps ==
    ASSUME PageInv, NEW c \in page.calls, Deliver(c)
    PROVE  PageInv'
<1>1. PICK flags, o, p, q, r, s :
         /\ o = page /\ p = [o EXCEPT !.calls = o.calls \ {c}] /\ q = page' /\ r = past /\ s = past'
         /\ q = Handled(p, c, flags) /\ past' = Recorded(c)
         /\ UNCHANGED <<box, top, version, clients>>
  BY DEF Deliver
<1>2. /\ PageTyped(o) /\ c \in o.calls /\ c \in Calls /\ CallFits(c) /\ InOrder(o, r)
      /\ PastTyped /\ ServerTyped
  BY <1>1 DEF PageInv, InOrder, PageTyped, Pages
<1>3. /\ PageTyped(p) /\ SameView(o, p) /\ p.calls = o.calls \ {c} /\ (Shown(p) <=> Shown(o))
      /\ (\A I : Named(o, I) => Named(p, I)) /\ (InStep(o) => InStep(p))
      /\ (InPlace(o) => InPlace(p)) /\ (Searched(o) => Searched(p)) /\ Spares(o, p)
      /\ \A A : Listed(o, A) => Listed(p, A \cup {c.list[1]})
      /\ c.kind # "list" \/ c.list[2] # Inbox => \A A : Listed(o, A) => Listed(p, A)
  BY <1>1, <1>2, TakenIs
<1>4. /\ PastTyped' /\ s.ids = r.ids /\ r.slips \subseteq s.slips
      /\ c.kind = "more" /\ c.reply = "ok" /\ ~c.current => "stray" \in s.slips
      /\ c.reply = "ok" => Slips(c) \subseteq s.slips
      /\ s.search => \/ r.search /\ c.kind # "opening"
                     \/ c.kind = "search" /\ c.reply = "ok"
      /\ c.kind = "poll" /\ c.reply = "ok" => s.missed = r.missed \cup Overlooked(c)
      /\ c.kind = "list" /\ c.list[2] = Inbox =>
            s.missed = IF c.reply = "ok" /\ c.got.at >= o.versions[c.list[1]]
                       THEN r.missed \ {c.list[1]} ELSE r.missed \cup {c.list[1]}
      /\ ~(c.kind = "poll" /\ c.reply = "ok") /\ ~(c.kind = "list" /\ c.list[2] = Inbox)
           => s.missed = r.missed
  BY <1>1, <1>2, RecordedIs
<1>5. /\ Named(p, s.ids) /\ InStep(p) /\ ("stray" \in s.slips \/ (InPlace(o) /\ InPlace(p)))
      /\ (r.search => Searched(p)) /\ Listed(o, r.missed)
  <2>1. /\ Named(o, r.ids) /\ InStep(o) /\ ("stray" \in r.slips \/ InPlace(o))
        /\ (r.search => Searched(o)) /\ Listed(o, r.missed)
    BY <1>2 DEF InOrder
  <2>2. "stray" \in s.slips \/ InPlace(o)
    BY <1>4, <2>1
  <2>3. Named(p, s.ids)
    BY <1>3, <1>4, <2>1
  <2> QED
    BY <1>3, <2>1, <2>2, <2>3
<1>20. /\ Served(box, top)
       /\ s.slips = {} => /\ SkipsNone(o, box, top) /\ SkipsNone(p, box, top) /\ InPlace(o)
                          /\ c.reply = "ok" => Slips(c) = {}
  <2>1. Served(box, top)
    BY <1>2 DEF Served, ServerTyped, Given
  <2>2. s.slips = {} => SkipsNone(o, box, top)
    BY <1>1, <1>4 DEF PageInv
  <2>3. s.slips = {} => SkipsNone(p, box, top)
    BY <1>3, <2>1, <2>2 DEF Spares
  <2> QED
    BY <1>4, <1>5, <2>1, <2>2, <2>3
<1>6. SUFFICES InOrder(q, s) /\ (s.slips = {} => SkipsNone(q, box, top))
  BY <1>1, <1>2, <1>4 DEF PageInv, ServerTyped
<1>21. ASSUME Spares(p, q) PROVE s.slips = {} => SkipsNone(q, box, top)
  BY <1>20, <1>21 DEF Spares
<1>22. ASSUME Steady(p, q), InPlace(p) => InPlace(q), c.kind \notin {"list", "poll", "search"}
       PROVE  InOrder(q, s)
  BY <1>3, <1>4, <1>5, <1>22 DEF Steady, InOrder
<1>7. ASSUME Kept(p, q), c.kind \notin {"list", "poll", "search"}
      PROVE  InOrder(q, s) /\ (s.slips = {} => SkipsNone(q, box, top))
  BY <1>7, <1>21, <1>22 DEF Kept
<1>8. CASE c.kind = "list"
  <2>1. q = ListReply(p, c, flags)
    BY <1>1, <1>8 DEF Handled
  <2>6. Fetched(p, c, s.ids) /\ (Shown(p) /\ p.key = c.list => c.load \/ c.quiet)
    BY <1>2, <1>3, <1>4, <1>5, <1>8, TakenFetch
  <2>8. /\ PageTyped(q) /\ Named(q, s.ids) /\ InStep(q)
        /\ (InPlace(p) /\ Of(c.list, c.got.mails) => InPlace(q))
        /\ (Searched(p) /\ ~c.load => Searched(q))
        /\ c.reply # "ok" => Spares(p, q)
        /\ c.reply = "ok" =>
              Spares(QuietReply(LoadReply(PutListCache(p, c.list, c.got), c, flags), c), q)
        /\ c.list[2] = Inbox => \A A : Listed(p, A \cup {c.list[1]}) =>
              /\ c.reply = "ok" /\ c.got.at >= p.versions[c.list[1]] => Listed(q, A)
              /\ Listed(q, A \cup {c.list[1]})
        /\ c.list[2] # Inbox => \A A : Listed(p, A) => Listed(q, A)
    BY <1>5, <2>1, <2>6, ListReplyIs
  <2>9. InPlace(o) => Of(c.list, c.got.mails)
    BY <1>2, <1>8 DEF InPlace, Stored
  <2>10. s.search => Searched(q)
    <3>1. s.search => Searched(o) /\ Searched(p)
      BY <1>2, <1>3, <1>4, <1>8 DEF InOrder
    <3> QED
      BY <1>2, <2>8, <3>1 DEF Searched
  <2>11. Listed(q, s.missed)
    <3>1. CASE c.list[2] # Inbox
      BY <1>3, <1>4, <1>5, <1>8, <2>8, <3>1
    <3>2. CASE c.list[2] = Inbox
      <4>1. Listed(p, r.missed \cup {c.list[1]}) /\ p.versions = o.versions
        BY <1>3, <1>5 DEF SameView
      <4>2. CASE c.reply = "ok" /\ c.got.at >= o.versions[c.list[1]]
        <5>1. r.missed \cup {c.list[1]} = (r.missed \ {c.list[1]}) \cup {c.list[1]}
          OBVIOUS
        <5>2. Listed(p, (r.missed \ {c.list[1]}) \cup {c.list[1]})
          BY <4>1, <5>1
        <5>3. s.missed = r.missed \ {c.list[1]}
          BY <1>4, <1>8, <3>2, <4>2
        <5> QED
          BY <2>8, <3>2, <4>1, <4>2, <5>2, <5>3
      <4>3. CASE ~(c.reply = "ok" /\ c.got.at >= o.versions[c.list[1]])
        <5>1. s.missed = r.missed \cup {c.list[1]}
          BY <1>4, <1>8, <3>2, <4>3
        <5> QED
          BY <2>8, <3>2, <4>1, <5>1
      <4> QED
        BY <4>2, <4>3
    <3> QED
      BY <3>1, <3>2
  <2>12. s.slips = {} => SkipsNone(q, box, top)
    <3>1. CASE c.reply # "ok"
      BY <1>21, <2>8, <3>1
    <3>2. ASSUME c.reply = "ok", s.slips = {} PROVE SkipsNone(q, box, top)
      <4>1. PageTyped(page) /\ SameView(page, p) /\ p.calls = page.calls \ {c}
        BY <1>1, <1>2, <1>3
      <4>2. /\ SkipsNone(page, box, top) /\ SkipsNone(p, box, top) /\ Slips(c) = {}
            /\ Served(box, top)
        BY <1>1, <1>20, <3>2
      <4>3. SkipsNone(QuietReply(LoadReply(PutListCache(p, c.list, c.got), c, flags), c), box, top)
        BY <2>6, <3>2, <4>1, <4>2, ListSpares
      <4> QED
        BY <2>8, <3>2, <4>2, <4>3 DEF Spares
    <3> QED
      BY <3>1, <3>2
  <2> QED
    BY <1>5, <2>8, <2>9, <2>10, <2>11, <2>12 DEF InOrder
<1>9. CASE c.kind = "more"
  <2>1. q = MoreReply(p, c)
    BY <1>1, <1>9 DEF Handled
  <2>2. /\ Steady(p, q)
        /\ InPlace(p) /\ (c.reply = "ok" /\ Shown(p) => Of(p.key, c.got.mails)) => InPlace(q)
    BY <1>2, <1>3, <1>5, <2>1, MoreIsSteady
  <2>3. InPlace(o) /\ c.current /\ Shown(p) => Of(p.key, c.got.mails)
    BY <1>2, <1>3, <1>9 DEF InPlace, Stored, Continued, SameView
  <2>4. "stray" \in s.slips \/ InPlace(q)
    BY <1>4, <1>5, <1>9, <2>2, <2>3
  <2>5. InOrder(q, s)
    BY <1>3, <1>4, <1>5, <1>9, <2>2, <2>4 DEF Steady, InOrder
  <2>6. CASE c.reply # "ok"
    BY <1>20, <2>1, <2>5, <2>6 DEF MoreReply
  <2>7. ASSUME c.reply = "ok", s.slips = {} PROVE SkipsNone(q, box, top)
    <3>1. Slips(c) = {} /\ SkipsNone(o, box, top) /\ SkipsNone(p, box, top)
      BY <1>20, <2>7
    <3>2. c.current /\ Straight(c)
      BY <1>9, <3>1 DEF Slips
    <3> QED
      BY <1>2, <1>3, <1>9, <1>20, <2>1, <2>7, <3>1, <3>2, MoreSpares
  <2> QED
    BY <2>5, <2>6, <2>7
<1>10. CASE c.kind = "search"
  <2>1. q = SearchReply(p, c)
    BY <1>1, <1>10 DEF Handled
  <2>2. Kept(p, q) /\ (c.reply = "ok" => Searched(q))
    BY <1>2, <1>3, <2>1, SearchIsKept
  <2> QED
    BY <1>3, <1>4, <1>5, <1>10, <1>21, <2>2 DEF Kept, Steady, InOrder
<1>11. CASE c.kind = "read"
  <2>1. q = ReadReply(p, c)
    BY <1>1, <1>11 DEF Handled
  <2> QED
    BY <1>2, <1>3, <1>5, <1>7, <1>11, <2>1, ReadReplyIsKept DEF CallFits
<1>12. CASE c.kind = "flag"
  BY <1>1, <1>3, <1>5, <1>7, <1>12, FlagReplyIsKept DEF Handled
<1>23. /\ p.key = o.key /\ p.cache = o.cache /\ p.chosen = o.chosen /\ Spliced(p) = Spliced(o)
  <2>1. p.key = o.key /\ p.cache = o.cache /\ p.chosen = o.chosen /\ p.index = o.index
    BY <1>1, <1>2 DEF PageTyped, Pages
  <2> QED
    BY <2>1 DEF Spliced
<1>24. ASSUME s.slips = {}, c.reply = "ok", Shown(p), c.kind \in {"delete", "move", "batchDelete"},
              NEW u \in box[p.key], u \in Uids(p.cache)
       PROVE  /\ c.kind # "batchDelete" => u \in Uids(Spliced(p))
              /\ c.kind = "batchDelete" => u \notin p.chosen
  <2>1. /\ PageTyped(page) /\ InPlace(page) /\ Shown(page) /\ Slips(c) = {}
        /\ SkipsNone(page, box, top)
    BY <1>1, <1>2, <1>3, <1>20, <1>24
  <2>2. u \in box[page.key] /\ u \in Uids(page.cache)
    BY <1>1, <1>23, <1>24
  <2>3. /\ c.kind # "batchDelete" => u \in Uids(Spliced(page))
        /\ c.kind = "batchDelete" => u \notin page.chosen
    BY <1>24, <2>1, <2>2, RemovedAreGone
  <2> QED
    BY <1>1, <1>23, <2>3
<1>13. CASE c.kind \in {"delete", "move"}
  <2>1. q = RemoveReply(p, c)
    BY <1>1, <1>13 DEF Handled
  <2>2. /\ Steady(p, q) /\ (InPlace(p) => InPlace(q))
        /\ \A B, T : /\ Served(B, T) /\ SkipsNone(p, B, T)
                     /\ c.reply = "ok" /\ Shown(p) =>
                           \A u \in B[p.key] : u \in Uids(p.cache) => u \in Uids(Spliced(p))
                     => SkipsNone(q, B, T)
    BY <1>3, <1>5, <2>1, RemoveReplyIs
  <2>3. s.slips = {} /\ c.reply = "ok" /\ Shown(p) =>
           \A u \in box[p.key] : u \in Uids(p.cache) => u \in Uids(Spliced(p))
    BY <1>13, <1>24
  <2> QED
    BY <1>13, <1>20, <1>22, <2>2, <2>3
<1>14. CASE c.kind \in {"batchDelete", "batchFlag"}
  <2>1. q = BatchReply(p, c)
    BY <1>1, <1>14 DEF Handled
  <2>2. /\ Steady(p, q) /\ (InPlace(p) => InPlace(q))
        /\ \A B, T : /\ Served(B, T) /\ SkipsNone(p, B, T)
                     /\ c.reply = "ok" /\ c.kind # "batchFlag" /\ Shown(p) =>
                           \A u \in B[p.key] : u \in Uids(p.cache) => u \notin p.chosen
                     => SkipsNone(q, B, T)
    BY <1>3, <1>5, <2>1, BatchReplyIs
  <2>3. s.slips = {} /\ c.reply = "ok" /\ c.kind # "batchFlag" /\ Shown(p) =>
           \A u \in box[p.key] : u \in Uids(p.cache) => u \notin p.chosen
    BY <1>14, <1>24
  <2> QED
    BY <1>14, <1>20, <1>22, <2>2, <2>3
<1>15. CASE c.kind = "poll"
  <2>1. PICK late : late = {a \in Accounts : /\ c.seen[a] # -1 /\ p.versions[a] = -1
                                             /\ <<a, Inbox>> \in DOMAIN p.lists
                                             /\ p.lists[<<a, Inbox>>].at < c.seen[a]}
    OBVIOUS
  <2>2. q = PollReply(p, c)
    BY <1>1, <1>15 DEF Handled
  <2>3. /\ PageTyped(q) /\ (\A I : Named(p, I) => Named(q, I)) /\ (InStep(p) => InStep(q))
        /\ (InPlace(p) => InPlace(q)) /\ (Searched(p) => Searched(q)) /\ Spares(p, q)
        /\ c.reply # "ok" => q = p
        /\ \A A : Listed(p, A) => Listed(q, A \cup late)
    BY <1>2, <1>3, <2>1, <2>2, PollIsKept
  <2>4. late = Overlooked(c)
    BY <1>1, <1>3, <2>1 DEF Overlooked, SameView
  <2>5. Listed(q, s.missed)
    BY <1>3, <1>4, <1>5, <1>15, <2>3, <2>4
  <2> QED
    BY <1>3, <1>4, <1>5, <1>15, <1>21, <2>3, <2>5 DEF InOrder
<1>16. CASE c.kind = "remove"
  <2>1. q = RemoveAccountReply(p, c)
    BY <1>1, <1>16 DEF Handled
  <2> QED
    BY <1>2, <1>3, <1>7, <1>16, <2>1, RemoveAccountIsKept
<1>17. CASE c.kind = "add"
  <2>1. q = AddAccountReply(p, c)
    BY <1>1, <1>17 DEF Handled
  <2>2. PICK a \in Accounts : c.list = <<a, Inbox>> /\ a = c.list[1]
    BY <1>2, <1>17 DEF CallFits
  <2>3. ~Names(o, a) /\ (c.reply = "ok" => a \in s.ids)
    BY <1>2, <1>4, <1>17, <2>2 DEF InOrder, Named
  <2>4. ~Names(p, a)
    BY <1>3, <2>3 DEF Names, SameView
  <2>5. \A d \in p.calls : d.kind # "add"
    BY <1>2, <1>3, <1>17 DEF PageTyped, Distinct
  <2>6. /\ PageTyped(q) /\ Named(q, s.ids) /\ (InStep(p) => InStep(q)) /\ (InPlace(p) => InPlace(q))
        /\ Spares(p, q) /\ (Searched(p) => Searched(q)) /\ \A A : Listed(p, A) => Listed(q, A)
    BY <1>2, <1>3, <1>5, <2>1, <2>2, <2>3, <2>4, <2>5, AddAccountIsKept
  <2> QED
    BY <1>3, <1>4, <1>5, <1>17, <1>21, <2>6 DEF InOrder
<1>18. CASE c.kind = "opening"
  <2>1. q = OpeningReply(p, c)
    BY <1>1, <1>18 DEF Handled
  <2>2. PICK a \in Accounts : c.list = <<a, Inbox>> /\ a = c.list[1]
    BY <1>2, <1>18 DEF CallFits
  <2>3. Names(o, a)
    BY <1>2, <1>18, <2>2 DEF Names
  <2>4. a \in s.ids /\ \A d \in p.calls : d.kind = "add" => d.list[1] # a
    BY <1>2, <1>3, <1>4, <2>3 DEF InOrder, Named
  <2>5. /\ PageTyped(q) /\ Named(q, s.ids) /\ (InStep(p) => InStep(q)) /\ (InPlace(p) => InPlace(q))
        /\ Spares(p, q) /\ \A A : Listed(p, A) => Listed(q, A)
    BY <1>2, <1>3, <1>5, <2>1, <2>2, <2>4, OpeningIsKept
  <2> QED
    BY <1>3, <1>4, <1>5, <1>18, <1>21, <2>5 DEF InOrder
<1>19. c.kind \in Kinds
  BY <1>2 DEF Calls
<1> QED
  BY <1>8, <1>9, <1>10, <1>11, <1>12, <1>13, <1>14, <1>15, <1>16, <1>17, <1>18, <1>19 DEF Kinds

(***************************************************************************)
(* The bridge answers                                                      *)
(***************************************************************************)
\* The request c of o is answered: it is d now.
Replied(o, q, c, d) ==
    /\ q \in Pages /\ SameView(o, q) /\ q.calls = (o.calls \ {c}) \cup {d} /\ d \in Calls
    /\ d.id = c.id /\ d.kind = c.kind /\ d.list = c.list /\ d.uids = c.uids
    /\ d.load = c.load /\ d.quiet = c.quiet /\ d.current = c.current /\ d.before = c.before

LEMMA RepliedInOrder ==
    ASSUME NEW o, NEW q, NEW r, NEW s, InOrder(o, r), NEW c \in o.calls, NEW d, Replied(o, q, c, d),
           r.ids \subseteq s.ids, r.slips \subseteq s.slips, s.search = r.search, s.missed = r.missed,
           c.kind = "read" /\ d.reply = "ok" => c.list \in Lists,
           c.kind = "add" /\ d.reply = "ok" => c.list[1] \in s.ids,
           c.kind \in {"list", "more"} => Of(c.list, d.got.mails)
    PROVE  InOrder(q, s)
<1>1. PageTyped(o) /\ o \in Pages /\ CallFits(c) /\ (Shown(q) <=> Shown(o)) /\ Active(q) = Active(o)
  BY ViewKeeps DEF InOrder, PageTyped, Replied
<1>2. /\ \A b \in q.calls : b = d \/ (b \in o.calls /\ b # c)
      /\ \A b \in o.calls : b = c \/ b \in q.calls
      /\ d \in q.calls
  BY DEF Replied
<1>3. PageTyped(q)
  <2>1. IsFiniteSet(q.calls)
    <3>1. IsFiniteSet(o.calls \ {c}) /\ IsFiniteSet({d})
      BY <1>1, FS_Subset, FS_Singleton DEF PageTyped
    <3>2. IsFiniteSet((o.calls \ {c}) \cup {d})
      BY <3>1, FS_Union
    <3> QED
      BY <3>2 DEF Replied
  <2>2. \A b \in q.calls : CallFits(b)
    BY <1>1, <1>2 DEF Replied, CallFits, PageTyped
  <2>3. Distinct(q)
    <3> SUFFICES ASSUME NEW x \in q.calls, NEW y \in q.calls
                 PROVE  /\ x.id = y.id /\ x.kind # "list" => x = y
                        /\ x.kind = "list" /\ y.kind = "list" /\ x.list = y.list => x = y
                        /\ x.kind = "add" /\ y.kind = "add" => x = y
      BY DEF Distinct
    <3>1. \A a, b \in o.calls : /\ a.id = b.id /\ a.kind # "list" => a = b
                                /\ a.kind = "list" /\ b.kind = "list" /\ a.list = b.list => a = b
                                /\ a.kind = "add" /\ b.kind = "add" => a = b
      BY <1>1 DEF PageTyped, Distinct
    <3>2. \A b \in o.calls : CallFits(b)
      BY <1>1 DEF PageTyped
    <3>3. CASE x = d /\ y # d
      BY <1>1, <1>2, <3>1, <3>2, <3>3 DEF Replied, CallFits
    <3>4. CASE y = d /\ x # d
      BY <1>1, <1>2, <3>1, <3>2, <3>4 DEF Replied, CallFits
    <3>5. CASE x # d /\ y # d
      BY <1>2, <3>1, <3>5
    <3> QED
      BY <3>3, <3>4, <3>5
  <2> QED
    BY <1>1, <2>1, <2>2, <2>3 DEF PageTyped, Replied, SameView
<1>4. Named(q, s.ids)
  <2>1. \A a : Names(q, a) => Names(o, a)
    BY <1>2 DEF Names, Replied, SameView
  <2> QED
    BY <1>2, <2>1 DEF InOrder, Named, Replied
<1>5. InPlace(o) => InPlace(q)
  BY <1>1, <1>2 DEF InPlace, Stored, Continued, Replied, SameView
<1>6. InStep(q)
  BY <1>1, <1>2 DEF InOrder, InStep, SameAge, FetchesOf, Replied, SameView
<1>7. Searched(o) => Searched(q)
  BY <1>2 DEF Searched, Replied, SameView
<1>8. \A l : NoFetch(q, l) <=> NoFetch(o, l)
  BY <1>2, NoFetchIs DEF Replied
<1>9. Listed(q, s.missed)
  BY <1>8 DEF InOrder, Listed, Replied, SameView, NoFetch
<1> QED
  BY <1>3, <1>4, <1>5, <1>6, <1>7, <1>9 DEF InOrder

\* What the bridge has got for the request c fits what the page shows: box and
\* top are B and T.
Suits(p, c, got, B, T) ==
    /\ c.kind = "list" => /\ Whole(got, B[c.list], T[c.list])
                          /\ \A u \in B[c.list] : UpTo(u, Uids(got.mails))
    /\ c.kind = "more" /\ c.current /\ Shown(p) =>
          \A u \in B[p.key] \ Uids(p.cache) : UpTo(u, c.uids) =>
             \/ u \in Uids(got.mails)
             \/ /\ \A n \in Uids(got.mails) : u < n
                /\ got.more /\ (got.mails # << >> => Place(B[p.key], u) < got.oldest)
    /\ c.kind \in {"delete", "move", "batchDelete"} =>
          c.list \in Lists /\ Given(c.uids, T[c.list]) /\ B[c.list] \cap c.uids = {}

LEMMA RepliedSpares ==
    ASSUME NEW o, NEW q, NEW c \in o.calls, NEW d, Replied(o, q, c, d), d.reply # "none",
           NEW B, NEW T, SkipsNone(o, B, T), d.reply = "ok" => Suits(o, c, d.got, B, T)
    PROVE  SkipsNone(q, B, T)
<1>1. /\ (Shown(q) <=> Shown(o)) /\ q.key = o.key /\ q.cache = o.cache /\ q.more = o.more
      /\ q.oldest = o.oldest /\ q.lists = o.lists
  BY ViewKeeps DEF Replied, SameView
<1>2. /\ \A b \in q.calls : b = d \/ b \in o.calls
      /\ d.kind = c.kind /\ d.list = c.list /\ d.uids = c.uids /\ d.current = c.current
      /\ d.before = c.before
  BY DEF Replied
<1>3. AnswerFits(q, d, B[d.list], T[d.list])
  <2>1. AnswerFits(o, c, B[c.list], T[c.list])
    BY DEF SkipsNone
  <2> QED
    BY <1>2, <2>1 DEF AnswerFits, Suits, Behind
<1>4. \A b \in q.calls : AnswerFits(q, b, B[b.list], T[b.list])
  BY <1>1, <1>2, <1>3 DEF SkipsNone, AnswerFits
<1>5. ASSUME Shown(q) PROVE RowsSkipNone(q, B[q.key], T[q.key])
  <2>1. PICK U, S, t : U = Uids(o.cache) /\ S = B[o.key] /\ t = T[o.key]
    OBVIOUS
  <2>2. /\ Given(U, t) /\ Skipless(S, U, o.more, o.oldest)
        /\ \A b \in Continuing(o) : Continues(b, U, S, t)
        /\ \A a, b \in Continuing(o) : \A u \in S \ U : UpTo(u, a.uids) <=> UpTo(u, b.uids)
        /\ \A f \in FetchesOf(o, o.key) : f.reply = "ok" =>
              /\ Behind(S, U, Uids(f.got.mails))
              /\ \A b \in Continuing(o) : Behind(S, b.uids, Uids(f.got.mails))
    BY <1>1, <1>5, <2>1 DEF SkipsNone, RowsSkipNone
  <2>3. ASSUME NEW b \in Continuing(q)
        PROVE  \E a \in Continuing(o) : a.uids = b.uids /\ (b = a \/ (b = d /\ a = c))
    BY <1>2 DEF Continuing
  <2>4. ASSUME d \in Continuing(q), c \in Continuing(o) PROVE Continues(d, U, S, t)
    <3>1. Continues(c, U, S, t) /\ d.kind = "more" /\ d.current
      BY <2>2, <2>4 DEF Continuing
    <3>2. ASSUME d.reply = "ok"
          PROVE  \A u \in S \ U : UpTo(u, d.uids) =>
                    \/ u \in Uids(d.got.mails)
                    \/ /\ \A n \in Uids(d.got.mails) : u < n
                       /\ d.got.more /\ (d.got.mails # << >> => Place(S, u) < d.got.oldest)
      BY <1>1, <1>2, <1>5, <2>1, <3>1, <3>2 DEF Suits
    <3> QED
      BY <1>2, <3>1, <3>2 DEF Continues
  <2>5. \A b \in Continuing(q) : Continues(b, U, S, t)
    BY <2>2, <2>3, <2>4
  <2>6. \A a, b \in Continuing(q) : \A u \in S \ U : UpTo(u, a.uids) <=> UpTo(u, b.uids)
    <3> SUFFICES ASSUME NEW a \in Continuing(q), NEW b \in Continuing(q), NEW u \in S \ U
                 PROVE  UpTo(u, a.uids) <=> UpTo(u, b.uids)
      OBVIOUS
    <3>1. PICK x \in Continuing(o) : x.uids = a.uids
      BY <2>3
    <3>2. PICK y \in Continuing(o) : y.uids = b.uids
      BY <2>3
    <3>3. UpTo(u, x.uids) <=> UpTo(u, y.uids)
      BY <2>2
    <3> QED
      BY <3>1, <3>2, <3>3
  <2>7. ASSUME NEW f \in FetchesOf(q, q.key), f.reply = "ok"
        PROVE  /\ Behind(S, U, Uids(f.got.mails))
               /\ \A b \in Continuing(q) : Behind(S, b.uids, Uids(f.got.mails))
    <3>1. f.kind = "list" /\ f.list = o.key /\ (f = d \/ f \in FetchesOf(o, o.key))
      BY <1>1, <1>2 DEF FetchesOf
    <3>2. CASE f = d
      <4>1. \A u \in S : UpTo(u, Uids(f.got.mails))
        BY <1>2, <2>1, <2>7, <3>1, <3>2 DEF Suits
      <4> QED
        BY <4>1 DEF Behind
    <3>3. CASE f \in FetchesOf(o, o.key)
      <4>1. /\ Behind(S, U, Uids(f.got.mails))
            /\ \A b \in Continuing(o) : Behind(S, b.uids, Uids(f.got.mails))
        BY <2>2, <2>7, <3>3
      <4>2. ASSUME NEW b \in Continuing(q) PROVE Behind(S, b.uids, Uids(f.got.mails))
        <5>1. PICK a \in Continuing(o) : a.uids = b.uids
          BY <2>3
        <5> QED
          BY <4>1, <5>1
      <4> QED
        BY <4>1, <4>2
    <3> QED
      BY <3>1, <3>2, <3>3
  <2> QED
    BY <1>1, <2>1, <2>2, <2>5, <2>6, <2>7 DEF RowsSkipNone
<1> QED
  BY <1>1, <1>4, <1>5 DEF SkipsNone

LEMMA ServedIs ==
    ASSUME ServerTyped
    PROVE  Served(box, top)
BY DEF ServerTyped, Served, Given

LEMMA ClientsList ==
    ASSUME NEW l \in Places, l[1] \in Accounts
    PROVE  l \in Lists
BY ListIs DEF Places

\* A request is answered, with what concerns none but itself.
LEMMA AnsweredKeeps ==
    ASSUME PageInv, NEW c \in page.calls, NEW reply \in {"ok", "refused"}, NEW got \in Entries,
           Answered(c, reply, got), UNCHANGED clients, ServerTyped',
           \E slips \in SUBSET SlipKinds : past' = [past EXCEPT !.slips = @ \cup slips],
           c.kind = "read" /\ reply = "ok" => c.list \in Lists,
           c.kind = "add" => reply # "ok",
           c.kind \in {"list", "more"} => Of(c.list, got.mails),
           past'.slips = {} /\ SkipsNone(page, box, top) => SkipsNone(page, box', top'),
           past'.slips = {} /\ reply = "ok" => Suits(page, c, got, box', top')
    PROVE  PageInv'
<1>1. PICK o, q, d, C : /\ o = page /\ q = page' /\ d = [c EXCEPT !.reply = reply, !.got = got]
                        /\ C = (o.calls \ {c}) \cup {d}
  OBVIOUS
<1>2. o \in Pages /\ c \in Calls /\ c \in o.calls /\ InOrder(o, past)
  BY <1>1 DEF PageInv, InOrder, PageTyped, Pages
<1>3. d \in Calls
  BY <1>1, <1>2 DEF Calls
<1>4. /\ d.id = c.id /\ d.kind = c.kind /\ d.list = c.list /\ d.uids = c.uids
      /\ d.load = c.load /\ d.quiet = c.quiet /\ d.current = c.current
      /\ d.before = c.before
      /\ d.reply = reply /\ d.got = got
  BY <1>1, <1>2 DEF Calls
<1>5. C \in SUBSET Calls
  BY <1>1, <1>2, <1>3 DEF Pages
<1>6. q = [o EXCEPT !.calls = C]
  BY <1>1 DEF Answered
<1>7. Replied(o, q, c, d)
  <2>1. q \in Pages /\ SameView(o, q) /\ q.calls = C
    BY <1>2, <1>5, <1>6, WithCalls
  <2> QED
    BY <1>1, <1>3, <1>4, <2>1 DEF Replied
<1>8. /\ PastTyped' /\ past'.ids = past.ids /\ past.slips \subseteq past'.slips
      /\ past'.search = past.search /\ past'.missed = past.missed
  <2>1. PICK slips \in SUBSET SlipKinds : past' = [past EXCEPT !.slips = @ \cup slips]
    OBVIOUS
  <2>2. PICK S : S = past.slips \cup slips
    OBVIOUS
  <2>3. past' = [past EXCEPT !.slips = S]
    BY <2>1, <2>2
  <2>4. S \in SUBSET SlipKinds /\ PastTyped
    BY <2>2 DEF PageInv, PastTyped
  <2> QED
    BY <2>2, <2>3, <2>4 DEF PastTyped
<1>9. InOrder(q, past')
  BY <1>2, <1>4, <1>7, <1>8, RepliedInOrder, ZenonT(60)
<1>10. ASSUME past'.slips = {} PROVE SkipsNone(q, box', top')
  <2>1. SkipsNone(o, box', top') /\ d.reply # "none"
    BY <1>1, <1>4, <1>8, <1>10 DEF PageInv
  <2>2. d.reply = "ok" => Suits(o, c, d.got, box', top')
    BY <1>1, <1>4, <1>10
  <2> QED
    BY <1>2, <1>7, <2>1, <2>2, RepliedSpares
<1> QED
  BY <1>1, <1>8, <1>9, <1>10 DEF PageInv

LEMMA NoSlip ==
    ASSUME PageInv, UNCHANGED past
    PROVE  \E slips \in SUBSET SlipKinds : past' = [past EXCEPT !.slips = @ \cup slips]
<1>1. past' = [past EXCEPT !.slips = @ \cup {}]
  BY DEF PageInv, PastTyped
<1> QED
  BY <1>1

LEMMA NoticedIs ==
    ASSUME ServerTyped, NEW S, Noticed(S)
    PROVE  version' \in [Accounts -> Nat]
<1>1. \A a \in Accounts : version[a] + (IF <<a, Inbox>> \in S THEN 1 ELSE 0) \in Nat
  BY DEF ServerTyped
<1> QED
  BY <1>1 DEF Noticed

\* The mails change at the server.
LEMMA LaterStays ==
    ASSUME PageInv, ServerTyped', past.slips = {},
           \A l \in Lists : top[l] <= top'[l] /\ \A u \in box'[l] : u \in box[l] \/ u > top[l]
    PROVE  SkipsNone(page, box', top')
<1>1. PICK C, N : C = box' /\ N = top'
  OBVIOUS
<1>2. Served(box, top) /\ PageTyped(page) /\ SkipsNone(page, box, top)
  BY ServedIs DEF PageInv, InOrder
<1>3. Served(C, N)
  BY <1>1 DEF ServerTyped, Served, Given
<1>4. \A l \in Lists : top[l] <= N[l] /\ \A u \in C[l] : u \in box[l] \/ u > top[l]
  BY <1>1
<1> QED
  BY <1>1, <1>2, <1>3, <1>4, LaterSkipsNone

LEMMA ArriveKeeps ==
    ASSUME PageInv, NEW l \in Lists, Arrive(l)
    PROVE  PageInv'
<1>1. ServerTyped /\ version' \in [Accounts -> Nat]
  BY NoticedIs DEF PageInv, Arrive
<1>2. top[l] \in Nat /\ IsFiniteSet(box[l]) /\ box[l] \in SUBSET Nat
  BY <1>1 DEF ServerTyped
<1>3. PICK S, n : S = box[l] \cup {top[l] + 1} /\ n = top[l] + 1
  OBVIOUS
<1>4. n \in Nat /\ S \in SUBSET Nat /\ IsFiniteSet(S) /\ \A u \in S : u <= n
  BY <1>1, <1>2, <1>3, FS_AddElement DEF ServerTyped
<1>5. box' = [box EXCEPT ![l] = S] /\ top' = [top EXCEPT ![l] = n]
  BY <1>3 DEF Arrive
<1>6. ServerTyped'
  BY <1>1, <1>4, <1>5 DEF ServerTyped, Arrive
<1>7. \A k \in Lists : top[k] <= top'[k] /\ \A u \in box'[k] : u \in box[k] \/ u > top[k]
  BY <1>1, <1>2, <1>3, <1>5 DEF ServerTyped
<1>8. past.slips = {} => SkipsNone(page, box', top')
  BY <1>1, <1>6, <1>7, LaterStays
<1> QED
  BY <1>6, <1>8 DEF PageInv, PastTyped, Arrive

LEMMA ExpungeKeeps ==
    ASSUME PageInv, NEW l \in Lists, NEW u \in box[l], Expunge(l, u)
    PROVE  PageInv'
<1>1. ServerTyped /\ version' \in [Accounts -> Nat]
  BY NoticedIs DEF PageInv, Expunge
<1>2. PICK S : S = box[l] \ {u}
  OBVIOUS
<1>3. IsFiniteSet(S) /\ S \in SUBSET Nat /\ S \subseteq box[l]
  BY <1>1, <1>2, FS_Subset DEF ServerTyped
<1>4. box' = [box EXCEPT ![l] = S] /\ top' = top
  BY <1>2 DEF Expunge
<1>5. ServerTyped'
  BY <1>1, <1>3, <1>4 DEF ServerTyped, Expunge
<1>6. \A k \in Lists : top[k] <= top'[k] /\ \A v \in box'[k] : v \in box[k] \/ v > top[k]
  BY <1>1, <1>3, <1>4 DEF ServerTyped
<1>7. past.slips = {} => SkipsNone(page, box', top')
  BY <1>1, <1>5, <1>6, LaterStays
<1> QED
  BY <1>5, <1>7 DEF PageInv, PastTyped, Expunge

\* A request the bridge answers is about a list of an account it has.
LEMMA AnswerableIs ==
    ASSUME PageInv, NEW c \in page.calls, c.kind # "poll", c.list[1] \in clients
    PROVE  /\ c.list \in Lists /\ c.list[1] \in Accounts /\ box[c.list] \in SUBSET Nat
           /\ IsFiniteSet(box[c.list]) /\ version[c.list[1]] \in Nat
<1>1. c.list \in Places /\ c.list[1] \in Accounts
  BY DEF PageInv, ServerTyped, InOrder, PageTyped, CallFits
<1> QED
  BY <1>1, ClientsList DEF PageInv, ServerTyped

LEMMA AnswerMailsKeeps ==
    ASSUME PageInv, NEW c \in page.calls, AnswerMails(c)
    PROVE  PageInv'
<1>1. c.list[1] \in clients /\ c.kind \in {"list", "more"}
  BY DEF AnswerMails
<1>2. PICK l, total, last, first, S, oldest :
         /\ l = c.list /\ total = Cardinality(box[l])
         /\ last = (IF c.before > 0 THEN c.before - 1 ELSE total)
         /\ first = Max({1, last - PageSize + 1})
         /\ S = {u \in box[l] : Rank(l, u) \in first .. last}
         /\ oldest = (IF S = {} THEN 0 ELSE first)
  OBVIOUS
<1>3. /\ l \in Lists /\ box[l] \in SUBSET Nat /\ IsFiniteSet(box[l]) /\ version[l[1]] \in Nat
  BY <1>1, <1>2, AnswerableIs
<1>4. total \in Nat
  BY <1>2, <1>3, FS_CardinalityType
<1>5. c \in Calls
  BY DEF PageInv, InOrder, PageTyped, Pages
<1>6. PICK n \in Int : n = last - PageSize + 1
  <2>1. last \in Int
    BY <1>2, <1>4, <1>5 DEF Calls
  <2> QED
    BY <2>1, BridgePageAssumption
<1>7. first \in Nat
  <2>1. first = CHOOSE x \in {1, n} : \A y \in {1, n} : x >= y
    BY <1>2, <1>6 DEF Max
  <2>2. \E x \in {1, n} : \A y \in {1, n} : x >= y
    OBVIOUS
  <2>3. first \in {1, n} /\ \A y \in {1, n} : first >= y
    BY <2>1, <2>2
  <2> QED
    BY <2>3
<1>8. S \in SUBSET Nat /\ IsFiniteSet(S) /\ oldest \in Nat
  BY <1>2, <1>3, <1>7, FS_Subset
<1>9. PICK more \in BOOLEAN : more = (total > 0 /\ first > 1)
  OBVIOUS
<1>10. PICK e : e = Entry(l, S, more, oldest, total, version[l[1]])
  OBVIOUS
<1>11. e \in Entries /\ Of(l, e.mails)
  BY <1>3, <1>4, <1>8, <1>9, <1>10, EntryIs
<1>12. Answered(c, "ok", e)
  BY <1>2, <1>9, <1>10 DEF AnswerMails
<1>13. UNCHANGED <<past, clients>> /\ ServerTyped' /\ box' = box /\ top' = top
  BY DEF AnswerMails, PageInv, ServerTyped
<1>14. ASSUME past.slips = {} PROVE Suits(page, c, e, box, top)
  <2>1. PICK B, t : B = box[l] /\ t = top[l]
    OBVIOUS
  <2>2. /\ Uids(e.mails) = S /\ (e.mails = << >> <=> S = {}) /\ e.more = more /\ e.oldest = oldest
    <3>1. PICK at : e = Entry(l, S, more, oldest, total, at)
      BY <1>10
    <3>2. PICK f : f = Entry(l, S, more, oldest, total, at)
      OBVIOUS
    <3>3. /\ Uids(f.mails) = S /\ (f.mails = << >> <=> S = {}) /\ f.more = more
          /\ f.oldest = oldest
      BY <1>8, <3>2, EntryHas
    <3> QED
      BY <3>1, <3>2, <3>3
  <2>3. S = {u \in B : Place(B, u) \in first .. last}
    BY <1>2, <2>1 DEF Rank, Place
  <2>4. B \in SUBSET Nat /\ IsFiniteSet(B) /\ t \in Nat /\ Given(B, t) /\ total = Cardinality(B)
        /\ last \in Int
    BY <1>2, <1>3, <1>4, <1>5, <2>1 DEF PageInv, ServerTyped, Given, Calls
  <2>5. ASSUME NEW u \in B, Place(B, u) <= last, u \notin S
        PROVE  /\ \A m \in S : u < m
               /\ more /\ (S # {} => Place(B, u) < oldest) /\ (last = total => S # {})
    <3>1. /\ first > 1 /\ Place(B, u) < first /\ total > 0 /\ \A m \in S : u < m
          /\ last = total => S # {}
      <4>1. first = Max({1, last - PageSize + 1})
        BY <1>2
      <4>2. first > 1 /\ Place(B, u) < first /\ Cardinality(B) > 0
        BY <2>3, <2>4, <2>5, <4>1, PageOfList
      <4>4. \A m \in S : u < m
        BY <2>3, <2>4, <2>5, <4>1, PageOfList
      <4>3. last = Cardinality(B) => S # {}
        BY <2>3, <2>4, <2>5, <4>1, PageOfList
      <4> QED
        BY <2>4, <4>2, <4>3, <4>4
    <3> QED
      BY <1>2, <1>9, <3>1
  <2>6. SkipsNone(page, box, top) /\ PageTyped(page) /\ InPlace(page) /\ c.reply = "none"
    BY <1>14 DEF PageInv, InOrder, AnswerMails
  <2>7. ASSUME c.kind = "list"
        PROVE  Whole(e, B, t) /\ \A u \in B : UpTo(u, Uids(e.mails))
    <3>1. last = total
      BY <1>2, <2>6, <2>7 DEF SkipsNone, AnswerFits
    <3>2. ASSUME NEW u \in B PROVE Place(B, u) <= last
      <4>1. Place(B, u) \in 1 .. Cardinality(B)
        BY <2>4, PlacesGrow
      <4> QED
        BY <1>4, <2>4, <3>1, <4>1
    <3>3. Given(S, t) /\ Skipless(B, S, more, oldest)
      BY <2>3, <2>4, <2>5, <3>1, <3>2 DEF Given, Skipless
    <3>4. ASSUME NEW u \in B PROVE UpTo(u, S)
      <4>1. CASE u \in S
        <5>1. u <= u
          BY <2>4
        <5> QED
          BY <4>1, <5>1 DEF UpTo
      <4>2. CASE u \notin S
        <5>1. S # {} /\ \A m \in S : u < m
          BY <2>5, <3>1, <3>2, <4>2
        <5>2. PICK m \in S : u < m
          BY <5>1
        <5>3. u \in Nat
          BY <2>4
        <5>4. m \in Nat
          BY <1>8, Zenon
        <5>5. u <= m
          BY <5>2, <5>3, <5>4
        <5> QED
          BY <5>5 DEF UpTo
      <4> QED
        BY <4>1, <4>2
    <3> QED
      BY <2>2, <3>3, <3>4 DEF Whole
  <2>8. ASSUME c.kind = "more", c.current, Shown(page), NEW u \in box[page.key],
               u \notin Uids(page.cache), UpTo(u, c.uids), u \notin S
        PROVE  /\ \A m \in S : u < m
               /\ more /\ (S # {} => Place(box[page.key], u) < oldest)
    <3>1. page.key = l /\ c \in Continuing(page)
      BY <1>2, <2>6, <2>8 DEF InPlace, Continued, Continuing
    <3>2. RowsSkipNone(page, B, t)
      BY <2>1, <2>6, <2>8, <3>1 DEF SkipsNone
    <3>3. Place(B, u) < c.before
      BY <2>1, <2>6, <2>8, <3>1, <3>2 DEF RowsSkipNone, Continues
    <3>4. Place(B, u) \in Nat /\ c.before \in Nat
      BY <1>5, <2>4, <2>1, <2>8, <3>1, PlacesGrow DEF Calls
    <3>5. Place(B, u) <= last
      BY <1>2, <3>3, <3>4
    <3> QED
      BY <2>1, <2>5, <2>8, <3>1, <3>5
  <2> QED
    BY <1>1, <1>2, <2>1, <2>2, <2>7, <2>8 DEF Suits
<1>15. /\ SkipsNone(page, box, top) => SkipsNone(page, box', top')
       /\ past'.slips = {} => Suits(page, c, e, box', top')
  BY <1>13, <1>14
<1> QED
  BY <1>1, <1>2, <1>11, <1>12, <1>13, <1>15, NoSlip, AnsweredKeeps

LEMMA AnswerSearchKeeps ==
    ASSUME PageInv, NEW c \in page.calls, AnswerSearch(c)
    PROVE  PageInv'
<1>1. c.list[1] \in clients /\ c.kind = "search"
  BY DEF AnswerSearch
<1>2. PICK l, hits, S : /\ l = c.list /\ hits = box[l] \cap Found
                        /\ S = {u \in hits : Cardinality({v \in hits : v <= u}) <= PageSize}
  OBVIOUS
<1>3. l \in Lists /\ box[l] \in SUBSET Nat /\ IsFiniteSet(box[l])
  BY <1>1, <1>2, AnswerableIs
<1>4. S \in SUBSET Nat /\ IsFiniteSet(S)
  BY <1>2, <1>3, FS_Subset
<1>5. PICK e : e = Entry(l, S, FALSE, 0, 0, 0)
  OBVIOUS
<1>6. e \in Entries
  BY <1>3, <1>4, <1>5, EntryIs
<1>7. Answered(c, "ok", e)
  BY <1>2, <1>5 DEF AnswerSearch
<1>8. /\ UNCHANGED <<past, clients>> /\ ServerTyped'
      /\ SkipsNone(page, box, top) => SkipsNone(page, box', top')
  BY DEF AnswerSearch, PageInv, ServerTyped
<1>9. Suits(page, c, e, box', top')
  BY <1>1 DEF Suits
<1> QED
  BY <1>1, <1>6, <1>7, <1>8, <1>9, NoSlip, AnsweredKeeps

LEMMA AnswerMailKeeps ==
    ASSUME PageInv, NEW c \in page.calls, AnswerMail(c)
    PROVE  PageInv'
<1>1. c.list[1] \in clients /\ c.kind \in {"read", "flag", "batchFlag"}
  BY DEF AnswerMail
<1>2. c.list \in Lists
  BY <1>1, AnswerableIs
<1>3. \E reply \in {"ok", "refused"} : Answered(c, reply, Nothing)
  BY DEF AnswerMail
<1>4. /\ UNCHANGED <<past, clients>> /\ ServerTyped'
      /\ SkipsNone(page, box, top) => SkipsNone(page, box', top')
  BY DEF AnswerMail, PageInv, ServerTyped
<1>5. Suits(page, c, Nothing, box', top')
  BY <1>1 DEF Suits
<1> QED
  BY <1>1, <1>2, <1>3, <1>4, <1>5, NothingIs, NoSlip, AnsweredKeeps

LEMMA AnswerRemovalKeeps ==
    ASSUME PageInv, NEW c \in page.calls, AnswerRemoval(c)
    PROVE  PageInv'
<1>1. c.list[1] \in clients /\ c.kind \in {"delete", "move", "batchDelete"}
  BY DEF AnswerRemoval
<1>2. PICK gone, new, t : /\ gone = c.uids \cap box[c.list] /\ t = c.target
                          /\ new = (IF t = None \/ gone = {} THEN {} ELSE {top[t] + 1})
  OBVIOUS
<1>3. /\ box' = [l \in Lists |-> (IF l = c.list THEN box[l] \ gone ELSE box[l])
                                 \cup (IF l = t THEN new ELSE {})]
      /\ top' = [l \in Lists |-> Max({top[l]} \cup (IF l = t THEN new ELSE {}))]
      /\ \E S : Noticed(S)
  BY <1>2 DEF AnswerRemoval
<1>4. ServerTyped /\ version' \in [Accounts -> Nat]
  BY <1>3, NoticedIs DEF PageInv
<1>5. c \in Calls /\ t \in Lists \cup {None}
  BY <1>2 DEF PageInv, InOrder, PageTyped, Pages, Calls
<1>6. new \in SUBSET Nat /\ IsFiniteSet(new)
  <2>1. CASE t = None \/ gone = {}
    BY <1>2, <2>1, FS_EmptySet
  <2>2. CASE ~(t = None \/ gone = {})
    <3>1. top[t] + 1 \in Nat
      BY <1>4, <1>5, <2>2 DEF ServerTyped
    <3> QED
      BY <1>2, <2>2, <3>1, FS_Singleton
  <2> QED
    BY <2>1, <2>2
<1>7. ASSUME NEW l \in Lists
      PROVE  /\ box'[l] \in SUBSET Nat /\ IsFiniteSet(box'[l]) /\ top'[l] \in Nat
             /\ \A u \in box'[l] : u <= top'[l]
             /\ top[l] <= top'[l] /\ \A u \in box'[l] : u \in box[l] \/ u > top[l]
             /\ l = c.list => \A u \in box'[l] : u \notin c.uids \/ u > top[l]
  <2>1. PICK old, came : /\ old = (IF l = c.list THEN box[l] \ gone ELSE box[l])
                         /\ came = (IF l = t THEN new ELSE {})
    OBVIOUS
  <2>2. /\ old \in SUBSET box[l] /\ box[l] \in SUBSET Nat /\ IsFiniteSet(box[l])
        /\ top[l] \in Nat /\ \A u \in box[l] : u <= top[l]
    BY <1>4, <2>1 DEF ServerTyped
  <2>3. came \in SUBSET Nat /\ IsFiniteSet(came)
    BY <1>6, <2>1, FS_EmptySet
  <2>4. IsFiniteSet(old) /\ IsFiniteSet({top[l]})
    BY <2>2, FS_Subset, FS_Singleton
  <2>5. IsFiniteSet(old \cup came) /\ IsFiniteSet({top[l]} \cup came)
    BY <2>3, <2>4, FS_Union
  <2>6. PICK T : T = {top[l]} \cup came
    OBVIOUS
  <2>7. T \in SUBSET Nat /\ T # {} /\ IsFiniteSet(T)
    BY <2>2, <2>3, <2>5, <2>6
  <2>8. Max(T) \in Nat /\ \A i \in T : i <= Max(T)
    BY <2>7, MaxExists
  <2>9. box'[l] = old \cup came /\ top'[l] = Max(T)
    BY <1>3, <2>1, <2>6
  <2>10. top[l] <= Max(T) /\ \A i \in came : i <= Max(T)
    BY <2>6, <2>8
  <2>11. \A u \in old : u <= Max(T)
    BY <2>2, <2>8, <2>10
  <2>12. old \cup came \in SUBSET Nat /\ \A u \in old \cup came : u <= Max(T)
    BY <2>2, <2>3, <2>10, <2>11
  <2>13. \A u \in came : u > top[l]
    BY <1>2, <2>1, <2>2
  <2>14. l = c.list => \A u \in old : u \notin c.uids
    BY <1>2, <2>1
  <2> QED
    BY <2>2, <2>5, <2>8, <2>9, <2>10, <2>12, <2>13, <2>14
<1>8. box' \in [Lists -> SUBSET Nat] /\ top' \in [Lists -> Nat]
  <2>1. \A l \in Lists : box'[l] \in SUBSET Nat /\ top'[l] \in Nat
    BY <1>7
  <2>2. box' = [l \in Lists |-> box'[l]] /\ top' = [l \in Lists |-> top'[l]]
    BY <1>3
  <2> QED
    BY <2>1, <2>2
<1>9. ServerTyped'
  BY <1>4, <1>7, <1>8 DEF ServerTyped, AnswerRemoval
<1>10. PICK slips : slips = IF \E u \in c.uids : u > top[c.list] THEN {"foreign"} ELSE {}
  OBVIOUS
<1>11. slips \in SUBSET SlipKinds
  BY <1>10 DEF SlipKinds
<1>12. /\ Answered(c, "ok", Nothing) /\ UNCHANGED clients
       /\ past' = [past EXCEPT !.slips = @ \cup slips]
  BY <1>10 DEF AnswerRemoval
<1>13. ASSUME past'.slips = {}
       PROVE  SkipsNone(page, box', top') /\ Suits(page, c, Nothing, box', top')
  <2>1. past.slips = {} /\ slips = {}
    BY <1>12, <1>13 DEF PageInv, PastTyped
  <2>2. \A l \in Lists : top[l] <= top'[l] /\ \A u \in box'[l] : u \in box[l] \/ u > top[l]
    BY <1>7
  <2>3. SkipsNone(page, box', top')
    BY <1>9, <2>1, <2>2, LaterStays
  <2>4. PICK l : l = c.list
    OBVIOUS
  <2>5. l \in Lists /\ top[l] \in Nat /\ top'[l] \in Nat /\ c.uids \in SUBSET Nat
    BY <1>1, <1>4, <1>5, <1>8, <2>4, AnswerableIs DEF ServerTyped, Calls
  <2>6. \A u \in c.uids : u <= top[l]
    BY <1>10, <2>1, <2>4, <2>5
  <2>7. top[l] <= top'[l] /\ \A u \in box'[l] : u \notin c.uids \/ u > top[l]
    BY <1>7, <2>4, <2>5
  <2>8. Given(c.uids, top'[l]) /\ box'[l] \cap c.uids = {}
    BY <2>5, <2>6, <2>7 DEF Given
  <2> QED
    BY <1>1, <2>3, <2>4, <2>5, <2>8 DEF Suits
<1> QED
  BY <1>1, <1>9, <1>11, <1>12, <1>13, NothingIs, AnsweredKeeps

LEMMA CallIs ==
    ASSUME PageInv, NEW c \in page.calls
    PROVE  page \in Pages /\ c \in Calls /\ InOrder(page, past) /\ CallFits(c)
BY DEF PageInv, InOrder, PageTyped, Pages

LEMMA AnswerPollKeeps ==
    ASSUME PageInv, NEW c \in page.calls, AnswerPoll(c)
    PROVE  PageInv'
<1>1. PICK o, q, seen, d, C :
         /\ o = page /\ q = page'
         /\ seen = [a \in Accounts |-> IF a \in clients THEN version[a] ELSE -1]
         /\ d = [c EXCEPT !.reply = "ok", !.seen = seen] /\ C = (o.calls \ {c}) \cup {d}
  OBVIOUS
<1>2. o \in Pages /\ c \in Calls /\ c \in o.calls /\ InOrder(o, past) /\ c.kind = "poll"
  BY <1>1, CallIs DEF AnswerPoll
<1>3. seen \in Seen
  BY <1>1 DEF PageInv, ServerTyped, Seen
<1>4. d \in Calls
  BY <1>1, <1>2, <1>3 DEF Calls
<1>5. /\ d.id = c.id /\ d.kind = c.kind /\ d.list = c.list /\ d.uids = c.uids
      /\ d.load = c.load /\ d.quiet = c.quiet /\ d.current = c.current
      /\ d.before = c.before
  BY <1>1, <1>2 DEF Calls
<1>6. C \in SUBSET Calls
  BY <1>1, <1>2, <1>4 DEF Pages
<1>7. q = [o EXCEPT !.calls = C]
  BY <1>1 DEF AnswerPoll
<1>8. Replied(o, q, c, d)
  <2>1. q \in Pages /\ SameView(o, q) /\ q.calls = C
    BY <1>2, <1>6, <1>7, WithCalls
  <2> QED
    BY <1>1, <1>4, <1>5, <2>1 DEF Replied
<1>9. InOrder(q, past)
  BY <1>2, <1>8, RepliedInOrder
<1>10. past.slips = {} => SkipsNone(q, box, top)
  <2>1. Suits(o, c, d.got, box, top) /\ d.reply # "none"
    BY <1>1, <1>2 DEF Suits, Calls
  <2> QED
    BY <1>1, <1>2, <1>8, <2>1, RepliedSpares DEF PageInv
<1> QED
  BY <1>1, <1>9, <1>10 DEF PageInv, PastTyped, ServerTyped, AnswerPoll

LEMMA AnswerAccountKeeps ==
    ASSUME PageInv, NEW c \in page.calls, AnswerAccount(c)
    PROVE  PageInv'
<1>1. PICK o, q, reply, d, C, s :
         /\ o = page /\ q = page' /\ s = past'
         /\ reply = (IF c.list[1] \in clients' \cup (IF c.kind = "remove" THEN clients ELSE {})
                     THEN "ok" ELSE "refused")
         /\ d = [c EXCEPT !.reply = reply, !.got = Nothing] /\ C = (o.calls \ {c}) \cup {d}
  OBVIOUS
<1>2. /\ o \in Pages /\ c \in Calls /\ c \in o.calls /\ InOrder(o, past) /\ CallFits(c)
      /\ c.kind \in {"remove", "add", "opening"}
  BY <1>1, CallIs DEF AnswerAccount
<1>3. d \in Calls
  BY <1>1, <1>2, NothingIs DEF Calls
<1>4. /\ d.id = c.id /\ d.kind = c.kind /\ d.list = c.list /\ d.uids = c.uids
      /\ d.load = c.load /\ d.quiet = c.quiet /\ d.current = c.current
      /\ d.before = c.before
      /\ d.reply = reply /\ d.got = Nothing
  BY <1>1, <1>2 DEF Calls
<1>5. C \in SUBSET Calls
  BY <1>1, <1>2, <1>3 DEF Pages
<1>6. q = [o EXCEPT !.calls = C]
  BY <1>1 DEF AnswerAccount, Answered
<1>7. Replied(o, q, c, d)
  <2>1. q \in Pages /\ SameView(o, q) /\ q.calls = C
    BY <1>2, <1>5, <1>6, WithCalls
  <2> QED
    BY <1>1, <1>3, <1>4, <2>1 DEF Replied
<1>8. clients' \subseteq Accounts
  <2>1. c.kind = "add" => c.list[1] \in Accounts
    BY <1>2 DEF CallFits
  <2>2. clients \subseteq Accounts
    BY DEF PageInv, ServerTyped
  <2> QED
    BY <2>1, <2>2 DEF AnswerAccount
<1>9. PICK ids : ids = past.ids \cup clients'
  OBVIOUS
<1>10. past' = [past EXCEPT !.ids = ids] /\ past \in [picked : SUBSET Mails, missed : SUBSET Accounts,
           search : BOOLEAN, slips : SUBSET SlipKinds, ids : SUBSET Accounts]
  BY <1>9 DEF AnswerAccount, PageInv, PastTyped
<1>11. ids \in SUBSET Accounts
  BY <1>8, <1>9, <1>10
<1>12. /\ PastTyped' /\ s.ids = ids /\ s.slips = past.slips /\ s.search = past.search
       /\ s.missed = past.missed
  BY <1>1, <1>10, <1>11 DEF PastTyped
<1>13. c.kind = "add" /\ reply = "ok" => c.list[1] \in ids
  BY <1>1, <1>9
<1>14. past.ids \subseteq ids
  BY <1>9
<1>15. InOrder(q, s)
  BY <1>2, <1>4, <1>7, <1>12, <1>13, <1>14, RepliedInOrder
<1>16. ServerTyped' /\ clients' \subseteq past'.ids
  BY <1>1, <1>8, <1>9, <1>12 DEF PageInv, ServerTyped, AnswerAccount
<1>17. past.slips = {} => SkipsNone(q, box, top)
  <2>1. Suits(o, c, d.got, box, top) /\ d.reply # "none"
    BY <1>1, <1>2, <1>4 DEF Suits
  <2> QED
    BY <1>1, <1>2, <1>7, <2>1, RepliedSpares, ZenonT(60) DEF PageInv
<1>18. past'.slips = {} => SkipsNone(page', box', top')
  BY <1>1, <1>12, <1>17 DEF AnswerAccount
<1> QED
  BY <1>1, <1>12, <1>15, <1>16, <1>18 DEF PageInv

LEMMA RefuseUnknownKeeps ==
    ASSUME PageInv, NEW c \in page.calls, RefuseUnknown(c)
    PROVE  PageInv'
<1>1. /\ Answered(c, "refused", Nothing) /\ UNCHANGED <<past, clients>> /\ ServerTyped'
      /\ SkipsNone(page, box, top) => SkipsNone(page, box', top')
  BY DEF RefuseUnknown, PageInv, ServerTyped
<1> QED
  BY <1>1, NothingIs, NoSlip, AnsweredKeeps

LEMMA FailKeeps ==
    ASSUME PageInv, NEW c \in page.calls, Fail(c)
    PROVE  PageInv'
<1>1. /\ Answered(c, "refused", Nothing) /\ UNCHANGED <<past, clients>> /\ ServerTyped'
      /\ SkipsNone(page, box, top) => SkipsNone(page, box', top')
  BY DEF Fail, PageInv, ServerTyped
<1> QED
  BY <1>1, NothingIs, NoSlip, AnsweredKeeps

(***************************************************************************)
(* The user acts                                                           *)
(***************************************************************************)
\* No mail of the lists as they are is skipped.
SparesNow(q) == past.slips = {} => SkipsNone(q, box, top)

LEMMA SparedNow ==
    ASSUME PageInv, NEW q, Spares(page, q)
    PROVE  SparesNow(q)
<1>1. Served(box, top)
  BY ServedIs DEF PageInv
<1> QED
  BY <1>1 DEF PageInv, Spares, SparesNow

LEMMA StaysKeeps ==
    ASSUME PageInv, ServerIdle, NEW q, Stays(q), Kept(page, q)
    PROVE  PageInv'
<1>1. InOrder(q, past)
  BY KeptInOrder DEF PageInv
<1>2. SparesNow(q)
  BY SparedNow DEF Kept
<1> QED
  BY <1>1, <1>2 DEF PageInv, ServerTyped, PastTyped, Stays, ServerIdle, SparesNow

LEMMA PicksKeeps ==
    ASSUME PageInv, ServerIdle, Kept(page, page'), NEW P \in SUBSET Mails,
           past' = [past EXCEPT !.picked = P]
    PROVE  PageInv'
<1>1. PICK q, s : q = page' /\ s = past'
  OBVIOUS
<1>2. /\ PastTyped' /\ s.ids = past.ids /\ s.slips = past.slips /\ s.search = past.search
      /\ s.missed = past.missed
  BY <1>1 DEF PageInv, PastTyped
<1>3. InOrder(q, past)
  BY <1>1, KeptInOrder DEF PageInv
<1>4. InOrder(q, s)
  BY <1>2, <1>3 DEF InOrder
<1>5. SparesNow(q)
  BY <1>1, SparedNow DEF Kept
<1> QED
  BY <1>1, <1>2, <1>4, <1>5 DEF PageInv, ServerTyped, ServerIdle, SparesNow

\* What a list that is chosen needs.
Chosen(p, q, r) ==
    /\ PageTyped(q) /\ Named(q, r.ids) /\ InStep(q) /\ (InPlace(p) => InPlace(q))
    /\ Spares(p, q) /\ \A A : Listed(p, A) => Listed(q, A)

LEMMA ChoosesKeeps ==
    ASSUME PageInv, ServerIdle, NEW q, Chooses(q), Chosen(page, q, past)
    PROVE  PageInv'
<1>1. PICK s : s = past' /\ past' = [past EXCEPT !.search = FALSE]
  BY DEF Chooses
<1>2. /\ PastTyped' /\ s.ids = past.ids /\ s.slips = past.slips /\ ~s.search
      /\ s.missed = past.missed
  BY <1>1 DEF PageInv, PastTyped
<1>3. InOrder(q, s)
  BY <1>2 DEF PageInv, InOrder, Chosen
<1>4. SparesNow(q)
  BY SparedNow DEF Chosen
<1> QED
  BY <1>1, <1>2, <1>3, <1>4 DEF PageInv, ServerTyped, ServerIdle, Chooses, SparesNow

LEMMA SelectIs ==
    ASSUME NEW p, NEW r, InOrder(p, r), NEW a \in Accounts, NEW f, <<a, f>> \in Lists, Names(p, a)
    PROVE  Chosen(p, SelectList(p, a, f), r)
<1>1. PICK d : d = [p EXCEPT !.account = a, !.folder = f, !.uid = 0, !.visible = FALSE]
  OBVIOUS
<1>2. f \in Folders /\ p \in Pages /\ a \in r.ids /\ a # None
  BY ListIs DEF InOrder, PageTyped, Named
<1>3. /\ d \in Pages /\ d.account = a /\ d.folder = f /\ d.key = p.key
      /\ d.lists = p.lists /\ d.known = p.known /\ d.ahead = p.ahead
      /\ d.versions = p.versions /\ d.calls = p.calls
  BY <1>1, <1>2 DEF Pages
<1>4. PageTyped(d)
  BY <1>3 DEF InOrder, PageTyped, Active, Distinct
<1>5. Named(d, r.ids)
  <2>1. \A b : Names(d, b) => Names(p, b)
    BY <1>3 DEF Names
  <2> QED
    BY <1>3, <2>1 DEF InOrder, Named
<1>6. (Stored(p) => Stored(d)) /\ \A A : Listed(p, A) => Listed(d, A)
  BY <1>3 DEF Stored, Listed, FetchesOf
<1>7. SelectList(p, a, f) = LoadMails(d, -1) /\ -1 \in Nat \cup {-1}
  BY <1>1 DEF SelectList
<1>8. Twin(p, d)
  BY <1>2, <1>3 DEF Twin
<1> QED
  BY <1>4, <1>5, <1>6, <1>7, <1>8, LoadKeeps DEF Chosen, InPlace

LEMMA SelectAccountKeeps ==
    ASSUME PageInv, NEW a \in Accounts, SelectAccount(a)
    PROVE  PageInv'
<1>1. Names(page, a) /\ <<a, Inbox>> \in Lists
  BY ListIs DEF SelectAccount, Names
<1>2. Chosen(page, SelectList(page, a, Inbox), past)
  BY <1>1, SelectIs DEF PageInv
<1>3. ServerIdle /\ Chooses(SelectList(page, a, Inbox))
  BY DEF SelectAccount, Click
<1> QED
  BY <1>2, <1>3, ChoosesKeeps

LEMMA SelectFolderKeeps ==
    ASSUME PageInv, NEW f \in Folders, SelectFolder(f)
    PROVE  PageInv'
<1>1. PICK a : a = page.account
  OBVIOUS
<1>2. Names(page, a) /\ <<a, f>> \in Lists /\ a \in Accounts
  BY <1>1 DEF SelectFolder, Names, PageInv, InOrder, PageTyped, Pages
<1>3. Chosen(page, SelectList(page, a, f), past)
  BY <1>2, SelectIs DEF PageInv
<1>4. ServerIdle /\ Chooses(SelectList(page, a, f))
  BY <1>1 DEF SelectFolder, Click
<1> QED
  BY <1>3, <1>4, ChoosesKeeps

LEMMA RefreshMailsKeeps ==
    ASSUME PageInv, RefreshMails
    PROVE  PageInv'
<1>1. PICK o, p, q, t : /\ o = page /\ p = [o EXCEPT !.index = 0] /\ q = LoadMails(p, -1)
                        /\ t = ResetMailDetail(q)
  OBVIOUS
<1>2. PageTyped(o) /\ Named(o, past.ids)
  BY <1>1 DEF PageInv, InOrder
<1>3. Beside(o, p)
  BY <1>1, <1>2 DEF Beside, SameView, PageTyped, Pages
<1>4. /\ PageTyped(p) /\ Named(p, past.ids) /\ (Stored(o) => Stored(p))
      /\ \A A : Listed(o, A) => Listed(p, A)
  BY <1>2, <1>3, BesideKeeps
<1>5. -1 \in Nat \cup {-1}
  OBVIOUS
<1>6. /\ PageTyped(q) /\ Named(q, past.ids) /\ InStep(q) /\ (Stored(p) => InPlace(q))
      /\ (\A A : Listed(p, A) => Listed(q, A)) /\ \A h : Twin(h, p) => Spares(h, q)
  BY <1>1, <1>4, <1>5, LoadKeeps
<1>7. Kept(q, t)
  BY <1>1, <1>6, ResetIsKept
<1>10. Twin(o, p)
  BY <1>2, <1>3 DEF Twin, Beside, SameView, PageTyped
<1>11. Spares(o, t)
  BY <1>6, <1>7, <1>10, SparesTwice DEF Kept
<1>8. Chosen(o, t, past)
  BY <1>4, <1>6, <1>7, <1>11 DEF Chosen, Kept, Steady, InPlace
<1>9. ServerIdle /\ Chooses(t)
  BY <1>1 DEF RefreshMails, Click
<1> QED
  BY <1>1, <1>8, <1>9, ChoosesKeeps

\* A request with something else filled in.
LEMMA FilledIs ==
    ASSUME NEW p, PageTyped(p), NEW d, Sendable(p, d), NEW e \in Calls,
           e.kind = d.kind, e.list = d.list, e.uids = d.uids, e.reply = d.reply, e.got = d.got,
           e.load = d.load,
           e.kind = "more" => e.uids = Uids(p.cache) /\ p.cache # << >> /\ p.more
                              /\ e.before = p.oldest
    PROVE  Kept(p, Send(p, e))
<1>1. Sendable(p, e)
  BY DEF Sendable
<1> QED
  BY <1>1, SendIsKept

LEMMA PageIs ==
    ASSUME PageInv
    PROVE  /\ PageTyped(page) /\ page \in Pages /\ InStep(page) /\ PastTyped
           /\ \A i \in 1 .. Len(page.cache) :
                 /\ page.cache[i] \in Mails /\ {page.cache[i].uid} \in SUBSET Nat
                 /\ page.cache[i].uid \in Nat /\ i \in Nat
<1>1. PageTyped(page) /\ page \in Pages /\ InStep(page) /\ PastTyped
  BY DEF PageInv, InOrder, PageTyped
<1>2. \A i \in 1 .. Len(page.cache) : i \in Nat
  BY <1>1 DEF Pages
<1> QED
  BY <1>1, <1>2, RowIs

LEMMA LoadMoreMailsKeeps ==
    ASSUME PageInv, LoadMoreMails
    PROVE  PageInv'
<1>1. PICK U, d, n, e : /\ U = {m.uid : m \in ToSet(page.cache)} /\ d = Request(page, "more", U)
                        /\ n = page.oldest /\ e = [d EXCEPT !.before = n]
  OBVIOUS
<1>2. "more" \in Kinds \ {"list", "add", "opening"} /\ U \in SUBSET Nat
  BY <1>1, PageIs DEF Kinds, ToSet, Pages, Mails
<1>3. Sendable(page, d) /\ d \in Calls
  <2>1. PICK kind \in Kinds \ {"list", "add", "opening"} : kind = "more"
    BY <1>2
  <2>2. Sendable(page, Request(page, kind, U))
    BY <1>2, <2>1, PageIs, RequestIs
  <2> QED
    BY <1>1, <2>1, <2>2 DEF Sendable
<1>9. d.kind = "more" /\ d.uids = U
  <2>1. PICK kind \in Kinds \ {"list", "add", "opening"} : kind = "more"
    BY <1>2
  <2>2. Request(page, kind, U).kind = kind /\ Request(page, kind, U).uids = U
    BY <1>2, <2>1, PageIs, RequestIs
  <2> QED
    BY <1>1, <2>1, <2>2
<1>4. n \in Nat
  BY <1>1, PageIs DEF Pages
<1>10. U = Uids(page.cache)
  BY <1>1 DEF ToSet, Uids
<1>5. e \in Calls
  BY <1>1, <1>3, <1>4 DEF Calls
<1>6. /\ e.kind = d.kind /\ e.list = d.list /\ e.uids = d.uids /\ e.reply = d.reply
      /\ e.got = d.got /\ e.load = d.load /\ e.before = page.oldest
  BY <1>1, <1>3 DEF Calls
<1>11. page.more /\ page.cache # << >>
  BY DEF LoadMoreMails
<1>7. Kept(page, Send(page, e))
  BY <1>3, <1>5, <1>6, <1>9, <1>10, <1>11, PageIs, FilledIs
<1>8. ServerIdle /\ Stays(Send(page, e))
  BY <1>1 DEF LoadMoreMails, Click
<1> QED
  BY <1>7, <1>8, StaysKeeps

LEMMA DoSearchKeeps ==
    ASSUME PageInv, DoSearch
    PROVE  PageInv'
<1>1. PICK o, p, q : /\ o = page /\ p = [o EXCEPT !.visible = FALSE, !.drawn = FALSE]
                     /\ q = Send(p, Request(p, "search", {}))
  OBVIOUS
<1>2. PageTyped(o)
  BY <1>1, PageIs
<1>3. Beside(o, p)
  BY <1>1, <1>2 DEF Beside, SameView, PageTyped, Pages
<1>4. Kept(o, p) /\ PageTyped(p)
  BY <1>2, <1>3, BesideIsKept DEF Kept, Steady
<1>5. "search" \in Kinds \ {"list", "add", "opening"} /\ {} \in SUBSET Nat
  BY DEF Kinds
<1>6. Kept(p, q)
  <2>1. Sendable(p, Request(p, "search", {})) /\ Request(p, "search", {}).kind = "search"
    BY <1>4, <1>5, RequestIs
  <2> QED
    BY <1>1, <1>4, <2>1, SendIsKept
<1>7. Kept(o, q)
  BY <1>4, <1>6, KeptTwice
<1>8. Request(o, "search", {}) = Request(p, "search", {})
  BY <1>3 DEF Beside, SameView, Request, Active
<1>9. ServerIdle /\ Stays(q)
  BY <1>1, <1>8 DEF DoSearch, Click
<1> QED
  BY <1>1, <1>7, <1>9, StaysKeeps

LEMMA OpenMailKeeps ==
    ASSUME PageInv, NEW i, OpenMail(i)
    PROVE  PageInv'
<1>1. Kept(page, ReadMail(page, i))
  BY PageIs, ReadIsKept
<1>2. ServerIdle /\ Stays(ReadMail(page, i))
  BY DEF OpenMail, Click
<1> QED
  BY <1>1, <1>2, StaysKeeps

LEMMA HighlightKeeps ==
    ASSUME PageInv, NEW down \in BOOLEAN, Highlight(down)
    PROVE  PageInv'
<1>1. PICK o, i, n : /\ o = page /\ i = page.index /\ n = Len(page.cache)
  OBVIOUS
<1>2. PageTyped(o) /\ i \in Nat /\ n \in Nat
  BY <1>1, PageIs DEF Pages
<1>3. PICK k : k = IF down THEN Min({i + 1, n}) ELSE Max({i - 1, 1})
  OBVIOUS
<1>4. Min({i + 1, n}) \in Nat
  <2>1. \E x \in {i + 1, n} : \A y \in {i + 1, n} : x <= y
    BY <1>2
  <2> QED
    BY <1>2, <2>1 DEF Min
<1>5. Max({i - 1, 1}) \in Nat
  <2>1. \E x \in {i - 1, 1} : \A y \in {i - 1, 1} : x >= y
    BY <1>2
  <2>2. PICK x : x = CHOOSE m \in {i - 1, 1} : \A y \in {i - 1, 1} : m >= y
    OBVIOUS
  <2>3. x \in {i - 1, 1} /\ x >= 1
    BY <2>1, <2>2
  <2> QED
    BY <1>2, <2>2, <2>3 DEF Max
<1>6. PICK q : q = [o EXCEPT !.index = k]
  OBVIOUS
<1>7. Beside(o, q)
  BY <1>2, <1>3, <1>4, <1>5, <1>6 DEF Beside, SameView, PageTyped, Pages
<1>8. Kept(o, q)
  BY <1>2, <1>7, BesideIsKept
<1>9. ServerIdle /\ Stays(q)
  BY <1>1, <1>3, <1>6 DEF Highlight, Click
<1> QED
  BY <1>1, <1>8, <1>9, StaysKeeps

LEMMA ToggleStarKeeps ==
    ASSUME PageInv, NEW i, ToggleStarInList(i)
    PROVE  PageInv'
<1>1. PICK u : u = page.cache[i].uid
  OBVIOUS
<1>2. i \in 1 .. Len(page.cache)
  BY DEF ToggleStarInList
<1>3. {u} \in SUBSET Nat
  BY <1>1, <1>2, PageIs
<1>4. "flag" \in Kinds \ {"list", "add", "opening"}
  BY DEF Kinds
<1>5. Kept(page, Send(page, Request(page, "flag", {u})))
  <2>1. Sendable(page, Request(page, "flag", {u})) /\ Request(page, "flag", {u}).kind = "flag"
    BY <1>3, <1>4, PageIs, RequestIs
  <2> QED
    BY <2>1, PageIs, SendIsKept
<1>6. ServerIdle /\ Stays(Send(page, Request(page, "flag", {u})))
  BY <1>1, SMTT(60) DEF ToggleStarInList, Click
<1> QED
  BY <1>5, <1>6, StaysKeeps

\* A request about the mail that is selected
LEMMA SelectedIs ==
    ASSUME PageInv, DetailActs, NEW kind \in {"flag", "delete", "move"}
    PROVE  LET d == Request(page, kind, {page.cache[page.index].uid})
           IN Sendable(page, d) /\ d \in Calls /\ d.kind = kind
<1>1. PICK u, i : i = page.index /\ u = page.cache[i].uid
  OBVIOUS
<1>2. i \in 1 .. Len(page.cache)
  BY <1>1 DEF DetailActs, Selected
<1>3. {u} \in SUBSET Nat
  BY <1>1, <1>2, PageIs
<1>4. kind \in Kinds \ {"list", "add", "opening"} /\ kind # "read"
  BY DEF Kinds
<1>5. Sendable(page, Request(page, kind, {u})) /\ Request(page, kind, {u}).kind = kind
  BY <1>3, <1>4, PageIs, RequestIs
<1> QED
  BY <1>1, <1>5 DEF Sendable

LEMMA ToggleReadKeeps ==
    ASSUME PageInv, ToggleReadDetail
    PROVE  PageInv'
<1>1. PICK d, e : /\ d = Request(page, "flag", {page.cache[page.index].uid})
                  /\ e = [d EXCEPT !.opt = TRUE]
  OBVIOUS
<1>2. DetailActs
  BY DEF ToggleReadDetail
<1>3. Sendable(page, d) /\ d \in Calls /\ d.kind # "more"
  BY <1>1, <1>2, SelectedIs
<1>4. e \in Calls
  BY <1>1, <1>3 DEF Calls
<1>5. /\ e.kind = d.kind /\ e.list = d.list /\ e.uids = d.uids /\ e.reply = d.reply
      /\ e.got = d.got /\ e.load = d.load /\ e.kind # "more"
  BY <1>1, <1>3 DEF Calls
<1>6. Kept(page, Send(page, e))
  BY <1>3, <1>4, <1>5, PageIs, FilledIs
<1>7. ServerIdle /\ Stays(Send(page, e))
  BY <1>1 DEF ToggleReadDetail, Click
<1> QED
  BY <1>6, <1>7, StaysKeeps

LEMMA DeleteMailKeeps ==
    ASSUME PageInv, DeleteMailDetail
    PROVE  PageInv'
<1>1. PICK d : d = Request(page, "delete", {page.cache[page.index].uid})
  OBVIOUS
<1>2. DetailActs
  BY DEF DeleteMailDetail
<1>3. Kept(page, Send(page, d))
  <2>1. Sendable(page, d) /\ d.kind = "delete"
    BY <1>1, <1>2, SelectedIs
  <2> QED
    BY <2>1, PageIs, SendIsKept
<1>4. ServerIdle /\ Stays(Send(page, d))
  BY <1>1 DEF DeleteMailDetail, Click
<1> QED
  BY <1>3, <1>4, StaysKeeps

LEMMA MoveMailKeeps ==
    ASSUME PageInv, NEW f, MoveMailDetail(f)
    PROVE  PageInv'
<1>1. PICK d, l, e : /\ d = Request(page, "move", {page.cache[page.index].uid})
                     /\ l = <<page.account, f>> /\ e = [d EXCEPT !.target = l]
  OBVIOUS
<1>2. DetailActs /\ l \in Lists
  BY <1>1 DEF MoveMailDetail
<1>3. Sendable(page, d) /\ d \in Calls /\ d.kind # "more"
  BY <1>1, <1>2, SelectedIs
<1>4. e \in Calls
  BY <1>1, <1>2, <1>3 DEF Calls
<1>5. /\ e.kind = d.kind /\ e.list = d.list /\ e.uids = d.uids /\ e.reply = d.reply
      /\ e.got = d.got /\ e.load = d.load /\ e.kind # "more"
  BY <1>1, <1>3 DEF Calls
<1>6. Kept(page, Send(page, e))
  BY <1>3, <1>4, <1>5, PageIs, FilledIs
<1>7. ServerIdle /\ Stays(Send(page, e))
  BY <1>1 DEF MoveMailDetail, Click
<1> QED
  BY <1>6, <1>7, StaysKeeps

\* The rows are the same ones, drawn again.
LEMMA RedrawIsKept ==
    ASSUME NEW p, NEW d, PageTyped(p), InStep(p), d \in Pages, Rowed(p, d), d.cache = p.cache,
           d.more = p.more, d.oldest = p.oldest
    PROVE  Kept(p, RenderMailList(d))
<1>1. InPlace(p) => (Shown(p) => Of(p.key, d.cache))
  BY DEF InPlace, Continued
<1>2. Spares(p, RenderMailList(d))
  <2>1. \A B, T : Served(B, T) /\ SkipsNone(p, B, T) => SkipsNone(RenderMailList(d), B, T)
    BY FewerKeeps
  <2> QED
    BY <2>1 DEF Spares
<1> QED
  BY <1>1, <1>2, RedrawIsSteady DEF Kept

LEMMA ToggleSelectModeKeeps ==
    ASSUME PageInv, ToggleSelectMode
    PROVE  PageInv'
<1>1. PICK o : o = page
  OBVIOUS
<1>2. o \in Pages /\ PageTyped(o) /\ InStep(o)
  BY <1>1, PageIs
<1>3. PICK b \in BOOLEAN : b = ~o.selecting
  OBVIOUS
<1>4. PICK d : d = [o EXCEPT !.selecting = b, !.chosen = {}]
  OBVIOUS
<1>5. d \in Pages /\ Rowed(o, d) /\ d.cache = o.cache /\ d.more = o.more /\ d.oldest = o.oldest
  BY <1>2, <1>4 DEF Rowed, Pages
<1>6. Kept(o, RenderMailList(d))
  BY <1>2, <1>5, RedrawIsKept
<1>7. d = [o EXCEPT !.selecting = ~@, !.chosen = {}]
  BY <1>3, <1>4
<1>8. page' = RenderMailList(d) /\ ServerIdle /\ past' = [past EXCEPT !.picked = {}]
  BY <1>1, <1>7 DEF ToggleSelectMode, Click
<1> QED
  BY <1>1, <1>6, <1>8, PicksKeeps

LEMMA ToggleMailSelectKeeps ==
    ASSUME PageInv, NEW i, ToggleMailSelect(i)
    PROVE  PageInv'
<1>1. PICK o, m : o = page /\ m = page.cache[i]
  OBVIOUS
<1>2. i \in 1 .. Len(page.cache) /\ ServerIdle
  BY DEF ToggleMailSelect, Tap
<1>3. o \in Pages /\ PageTyped(o) /\ m \in Mails /\ m.uid \in Nat /\ PastTyped
  BY <1>1, <1>2, PageIs
<1>4. \A C \in SUBSET Nat : Kept(o, [o EXCEPT !.chosen = C])
  <2>1. SUFFICES ASSUME NEW C \in SUBSET Nat PROVE Kept(o, [o EXCEPT !.chosen = C])
    OBVIOUS
  <2>2. PICK q : q = [o EXCEPT !.chosen = C]
    OBVIOUS
  <2>3. Beside(o, q)
    BY <1>3, <2>1, <2>2 DEF Beside, SameView, Pages
  <2> QED
    BY <1>3, <2>2, <2>3, BesideIsKept
<1>5. o.chosen \in SUBSET Nat /\ past.picked \in SUBSET Mails
  BY <1>3 DEF Pages, PastTyped
<1>6. CASE m.uid \in page.chosen
  <2>1. PICK C, P : C = o.chosen \ {m.uid} /\ P = {n \in past.picked : n.uid # m.uid}
    OBVIOUS
  <2>2. C \in SUBSET Nat /\ P \in SUBSET Mails
    BY <1>5, <2>1
  <2>3. page' = [o EXCEPT !.chosen = C] /\ past' = [past EXCEPT !.picked = P]
    BY <1>1, <1>6, <2>1 DEF ToggleMailSelect
  <2> QED
    BY <1>1, <1>2, <1>4, <2>2, <2>3, PicksKeeps
<1>7. CASE m.uid \notin page.chosen
  <2>1. PICK C, P : C = o.chosen \cup {m.uid} /\ P = past.picked \cup {m}
    OBVIOUS
  <2>2. C \in SUBSET Nat /\ P \in SUBSET Mails
    BY <1>3, <1>5, <2>1
  <2>3. page' = [o EXCEPT !.chosen = C] /\ past' = [past EXCEPT !.picked = P]
    BY <1>1, <1>7, <2>1 DEF ToggleMailSelect
  <2> QED
    BY <1>1, <1>2, <1>4, <2>2, <2>3, PicksKeeps
<1> QED
  BY <1>6, <1>7

LEMMA BatchSelectAllKeeps ==
    ASSUME PageInv, BatchSelectAll
    PROVE  PageInv'
<1>1. PICK o, M, C, P, d : /\ o = page /\ M = ToSet(page.cache) /\ C = o.chosen \cup {m.uid : m \in M}
                           /\ P = past.picked \cup M /\ d = [o EXCEPT !.chosen = C]
  OBVIOUS
<1>2. o \in Pages /\ PageTyped(o) /\ InStep(o) /\ PastTyped
  BY <1>1, PageIs
<1>3. M \subseteq Mails /\ \A m \in M : m.uid \in Nat
  <2>1. PICK s \in Seq(Mails) : s = page.cache
    BY <1>1, <1>2 DEF Pages
  <2>2. \A i \in DOMAIN s : s[i] \in Mails
    BY <2>1
  <2>3. M \subseteq Mails
    BY <1>1, <2>1, <2>2 DEF ToSet
  <2> QED
    BY <2>3 DEF Mails
<1>4. C \in SUBSET Nat /\ P \in SUBSET Mails
  BY <1>1, <1>2, <1>3 DEF Pages, PastTyped
<1>5. d \in Pages /\ Rowed(o, d) /\ d.cache = o.cache /\ d.more = o.more /\ d.oldest = o.oldest
  BY <1>1, <1>2, <1>4 DEF Rowed, Pages
<1>6. Kept(o, RenderMailList(d))
  BY <1>2, <1>5, RedrawIsKept
<1>7. page' = RenderMailList(d) /\ ServerIdle /\ past' = [past EXCEPT !.picked = P]
  BY <1>1 DEF BatchSelectAll, Tap
<1> QED
  BY <1>1, <1>4, <1>6, <1>7, PicksKeeps

LEMMA BatchDeselectAllKeeps ==
    ASSUME PageInv, BatchDeselectAll
    PROVE  PageInv'
<1>1. PICK o, d : o = page /\ d = [o EXCEPT !.chosen = {}]
  OBVIOUS
<1>2. o \in Pages /\ PageTyped(o) /\ InStep(o)
  BY <1>1, PageIs
<1>3. d \in Pages /\ Rowed(o, d) /\ d.cache = o.cache /\ d.more = o.more /\ d.oldest = o.oldest
  BY <1>1, <1>2 DEF Rowed, Pages
<1>4. Kept(o, RenderMailList(d))
  BY <1>2, <1>3, RedrawIsKept
<1>5. page' = RenderMailList(d) /\ ServerIdle /\ past' = [past EXCEPT !.picked = {}]
  BY <1>1 DEF BatchDeselectAll, Tap
<1> QED
  BY <1>1, <1>4, <1>5, PicksKeeps

LEMMA DoBatchActionKeeps ==
    ASSUME PageInv, NEW kind \in {"batchDelete", "batchFlag"}, DoBatchAction(kind)
    PROVE  PageInv'
<1>1. page.chosen \in SUBSET Nat
  BY PageIs DEF Pages
<1>2. kind \in Kinds \ {"list", "add", "opening"} /\ kind # "read"
  BY DEF Kinds
<1>3. Kept(page, Send(page, Request(page, kind, page.chosen)))
  <2>1. /\ Sendable(page, Request(page, kind, page.chosen))
        /\ Request(page, kind, page.chosen).kind = kind
    BY <1>1, <1>2, PageIs, RequestIs
  <2> QED
    BY <2>1, PageIs, SendIsKept
<1>4. ServerIdle /\ Stays(Send(page, Request(page, kind, page.chosen)))
  BY DEF DoBatchAction, Click
<1> QED
  BY <1>3, <1>4, StaysKeeps

LEMMA CloseDetailKeeps ==
    ASSUME PageInv, CloseDetail
    PROVE  PageInv'
<1>1. PICK o, p, q : o = page /\ p = [o EXCEPT !.index = 0] /\ q = ResetMailDetail(p)
  OBVIOUS
<1>2. PageTyped(o)
  BY <1>1, PageIs
<1>3. Beside(o, p)
  BY <1>1, <1>2 DEF Beside, SameView, PageTyped, Pages
<1>4. Kept(o, p) /\ PageTyped(p)
  BY <1>2, <1>3, BesideIsKept DEF Kept, Steady
<1>5. Kept(p, q)
  BY <1>1, <1>4, ResetIsKept
<1>6. Kept(o, q)
  BY <1>4, <1>5, KeptTwice
<1>7. ServerIdle /\ Stays(q)
  BY <1>1 DEF CloseDetail, Click
<1> QED
  BY <1>1, <1>6, <1>7, StaysKeeps

LEMMA ShowMailListKeeps ==
    ASSUME PageInv, ShowMailListView
    PROVE  PageInv'
<1>1. PICK o, q : o = page /\ q = [o EXCEPT !.visible = FALSE, !.uid = 0]
  OBVIOUS
<1>2. PageTyped(o)
  BY <1>1, PageIs
<1>3. Beside(o, q)
  BY <1>1, <1>2 DEF Beside, SameView, PageTyped, Pages
<1>4. Kept(o, q)
  BY <1>2, <1>3, BesideIsKept
<1>5. ServerIdle /\ Stays(q)
  BY <1>1 DEF ShowMailListView, Click
<1> QED
  BY <1>1, <1>4, <1>5, StaysKeeps

\* A request that is about an account
AccountCall(kind, a) == [NoCall EXCEPT !.kind = kind, !.list = <<a, Inbox>>]

LEMMA AccountCallIs ==
    ASSUME NEW kind \in {"remove", "add"}, NEW a \in Accounts
    PROVE  LET d == AccountCall(kind, a)
           IN /\ d \in Calls /\ d.kind = kind /\ d.list = <<a, Inbox>> /\ d.reply = "none"
              /\ d.got = Nothing /\ ~d.load
<1>1. PICK l, d : l = <<a, Inbox>> /\ d = [NoCall EXCEPT !.kind = kind, !.list = l]
  OBVIOUS
<1>2. l \in Places /\ kind \in Kinds
  BY <1>1, ListIs DEF Kinds
<1>3. d \in Calls
  BY <1>1, <1>2, NoCallIs DEF Calls
<1>4. /\ d.kind = kind /\ d.list = l /\ d.reply = NoCall.reply /\ d.got = NoCall.got
      /\ d.load = NoCall.load
  BY <1>1, NoCallIs DEF Calls
<1>5. d = AccountCall(kind, a)
  BY <1>1 DEF AccountCall
<1> QED
  BY <1>1, <1>3, <1>4, <1>5, NoCallIs

LEMMA RemoveAccountKeeps ==
    ASSUME PageInv, NEW a \in Accounts, RemoveAccount(a)
    PROVE  PageInv'
<1>1. PICK d : d = AccountCall("remove", a)
  OBVIOUS
<1>2. /\ d \in Calls /\ d.kind = "remove" /\ d.list = <<a, Inbox>> /\ d.reply = "none"
      /\ d.got = Nothing /\ ~d.load
  BY <1>1, AccountCallIs
<1>3. Sendable(page, d)
  BY <1>2, ListIs DEF Sendable
<1>4. Kept(page, Send(page, d))
  BY <1>2, <1>3, PageIs, SendIsKept
<1>5. ServerIdle /\ Stays(Send(page, d))
  BY <1>1 DEF RemoveAccount, Click, AccountCall
<1> QED
  BY <1>4, <1>5, StaysKeeps

\* The name of the account that is added is a new one.
LEMMA DoAddAccountKeeps ==
    ASSUME PageInv, NEW a \in Accounts, DoAddAccount(a)
    PROVE  PageInv'
<1>1. PICK d : d = AccountCall("add", a)
  OBVIOUS
<1>2. /\ d \in Calls /\ d.kind = "add" /\ d.list = <<a, Inbox>> /\ d.reply = "none"
      /\ d.got = Nothing /\ ~d.load
  BY <1>1, AccountCallIs
<1>3. a \notin past.ids /\ \A c \in page.calls : c.kind # "add"
  BY DEF DoAddAccount
<1>4. ~Names(page, a)
  BY <1>3 DEF PageInv, InOrder, Named
<1>5. Sendable(page, d)
  BY <1>2, <1>3, <1>4, ListIs DEF Sendable
<1>6. Kept(page, Send(page, d))
  BY <1>2, <1>5, PageIs, SendIsKept
<1>7. ServerIdle /\ Stays(Send(page, d))
  BY <1>1 DEF DoAddAccount, Click, AccountCall
<1> QED
  BY <1>6, <1>7, StaysKeeps

LEMMA PollChangesKeeps ==
    ASSUME PageInv, PollChanges
    PROVE  PageInv'
<1>1. PICK d : d = [NoCall EXCEPT !.kind = "poll"]
  OBVIOUS
<1>2. d \in Calls
  BY <1>1, NoCallIs DEF Calls, Kinds
<1>3. d.kind = "poll" /\ d.reply = NoCall.reply /\ d.got = NoCall.got /\ d.load = NoCall.load
  BY <1>1, NoCallIs DEF Calls
<1>4. Sendable(page, d)
  BY <1>2, <1>3, NoCallIs DEF Sendable
<1>5. Kept(page, Send(page, d))
  BY <1>3, <1>4, PageIs, SendIsKept
<1>6. ServerIdle /\ Stays(Send(page, d))
  BY <1>1 DEF PollChanges, Tick
<1> QED
  BY <1>5, <1>6, StaysKeeps

\* One account less to prefetch
LEMMA AheadIsKept ==
    ASSUME NEW p, PageTyped(p), NEW D, D \subseteq p.ahead
    PROVE  Kept(p, [p EXCEPT !.ahead = D])
<1>1. PICK q : q = [p EXCEPT !.ahead = D]
  OBVIOUS
<1>2. p \in Pages
  BY DEF PageTyped
<1>3. D \in SUBSET Accounts
  BY <1>2 DEF Pages
<1>4. q \in Pages
  BY <1>1, <1>2, <1>3 DEF Pages
<1>5. /\ q.account = p.account /\ q.folder = p.folder /\ q.key = p.key /\ q.cache = p.cache
      /\ q.at = p.at /\ q.lists = p.lists /\ q.known = p.known /\ q.versions = p.versions
      /\ q.calls = p.calls /\ q.ahead = D /\ q.more = p.more /\ q.oldest = p.oldest
  BY <1>1, <1>2 DEF Pages
<1>6. Active(q) = Active(p) /\ (Shown(q) <=> Shown(p))
  BY <1>5 DEF Active, Shown
<1>7. PageTyped(q)
  BY <1>4, <1>5, <1>6 DEF PageTyped, Distinct
<1>8. \A a : Names(q, a) => Names(p, a)
  BY <1>5 DEF Names
<1>9. \A I : Named(p, I) => Named(q, I)
  BY <1>5, <1>8 DEF Named
<1>10. \A l : FetchesOf(q, l) = FetchesOf(p, l)
  BY <1>5 DEF FetchesOf
<1>11. (InStep(p) => InStep(q)) /\ (Searched(p) => Searched(q))
  BY <1>5, <1>6, <1>10 DEF InStep, SameAge, Searched
<1>12. \A A : Listed(p, A) => Listed(q, A)
  BY <1>5, <1>10 DEF Listed
<1>13. InPlace(p) => InPlace(q)
  BY <1>5, <1>6 DEF InPlace, Stored, Continued
<1>14. Spares(p, q)
  <2>1. \A d \in p.calls : Like(d, d)
    BY DEF Like
  <2>2. Narrows(p, q)
    BY <1>5, <1>6, <2>1 DEF Narrows
  <2> QED
    BY <1>2, <2>2, NarrowsSpares
<1> QED
  BY <1>1, <1>7, <1>9, <1>11, <1>12, <1>13, <1>14 DEF Kept, Steady

\* What fetchMailList makes of the requests under way
Merged(C, W) ==
    LET under(asked) == {c \in C : c.kind = "list" /\ c.list = asked.list}
    IN (C \ UNION {under(asked) : asked \in W})
       \cup (UNION {{Shared(c, asked) : c \in under(asked)} : asked \in W})
       \cup {asked \in W : under(asked) = {}}

LEMMA FetchMerges ==
    ASSUME NEW p, NEW W
    PROVE  FetchMailLists(p, W) = [p EXCEPT !.calls = Merged(p.calls, W)]
BY DEF FetchMailLists, FetchesOf, Merged

LEMMA PrefetchKeeps ==
    ASSUME PageInv, NEW a \in Accounts, PrefetchOtherAccounts(a)
    PROVE  PageInv'
<1>1. PICK l, D, o, p : /\ l = <<a, Inbox>> /\ D = page.ahead \ {a} /\ o = page
                        /\ p = [o EXCEPT !.ahead = D]
  OBVIOUS
<1>2. PageTyped(o) /\ o \in Pages /\ l \in Lists /\ l[1] = a
  BY <1>1, PageIs, ListIs
<1>3. /\ a \in o.ahead /\ a # o.account /\ ServerIdle
      /\ Stays(IF l \in DOMAIN o.lists THEN p ELSE FetchMailList(p, PlainCall(l)))
  BY <1>1 DEF PrefetchOtherAccounts, PlainCall
<1>4. CASE l \in DOMAIN o.lists
  <2>1. Kept(o, p)
    BY <1>1, <1>2, AheadIsKept
  <2> QED
    BY <1>1, <1>3, <1>4, <2>1, StaysKeeps
<1>5. CASE l \notin DOMAIN o.lists
  <2>1. PICK w, W, q : w = PlainCall(l) /\ W = {w} /\ q = FetchMailLists(o, W)
    OBVIOUS
  <2>2. Names(o, l[1])
    BY <1>2, <1>3 DEF Names
  <2>3. Asked(o, w) /\ w.list = l /\ ~w.load
    BY <1>2, <2>1, <2>2, PlainAsked
  <2>4. IsFiniteSet(W) /\ (\A v \in W : Asked(o, v)) /\ \A u, v \in W : u.list = v.list => u = v
    BY <2>1, <2>3, FS_Singleton
  <2>5. Shown(o) => w.list # o.key
    BY <1>2, <1>3, <2>3 DEF Shown, Active
  <2>6. Kept(o, q)
    <3>1. /\ PageTyped(q) /\ (\A I : Named(o, I) => Named(q, I)) /\ SameView(o, q)
          /\ (Stored(o) => Stored(q)) /\ (Continued(o) => Continued(q))
          /\ (InStep(o) /\ (Shown(o) => \A v \in W : v.list = o.key => v.load \/ v.quiet)
                => InStep(q))
          /\ (Searched(o) /\ (\A v \in W : ~v.load) => Searched(q))
          /\ \A A : Listed(o, A) => Listed(q, A)
      BY <1>2, <2>1, <2>4, FetchKeeps
    <3>2. Spares(o, q)
      BY <1>2, <2>1, <2>4, FetchSpares
    <3> QED
      BY <2>1, <2>3, <2>5, <3>1, <3>2 DEF Kept, Steady, InPlace
  <2>7. SameView(o, q)
    BY <1>2, <2>1, <2>4, FetchKeeps
  <2>8. PICK r : r = [q EXCEPT !.ahead = D]
    OBVIOUS
  <2>9. Kept(q, r)
    BY <1>1, <2>6, <2>7, <2>8, AheadIsKept DEF Kept, Steady, SameView
  <2>10. r = FetchMailLists(p, W)
    <3>1. PICK C : C = Merged(o.calls, W)
      OBVIOUS
    <3>2. p.calls = o.calls
      BY <1>1, <1>2 DEF Pages
    <3>3. FetchMailLists(p, W) = [p EXCEPT !.calls = C] /\ q = [o EXCEPT !.calls = C]
      BY <2>1, <3>1, <3>2, FetchMerges
    <3> QED
      BY <1>1, <1>2, <2>8, <3>3 DEF Pages
  <2>11. Kept(o, r)
    BY <2>6, <2>9, KeptTwice
  <2>12. Stays(r)
    BY <1>3, <1>5, <2>1, <2>10 DEF FetchMailList
  <2> QED
    BY <1>1, <1>3, <2>11, <2>12, StaysKeeps
<1> QED
  BY <1>4, <1>5

(***************************************************************************)
(* A page is opened                                                        *)
(***************************************************************************)
\* The cached lists skip none; a page with them that shows no list skips none.
Wholes(lists, B, T) == \A l \in DOMAIN lists : Whole(lists[l], B[l], T[l])
Spared(lists, q)    == \A B, T : Served(B, T) /\ Wholes(lists, B, T) => SkipsNone(q, B, T)

LEMMA FreshIs ==
    ASSUME NEW p \in Pages, p.key = None, p.calls = {}, p.versions = [a \in Accounts |-> -1],
           p.account # None => Active(p) \in Lists,
           NEW I, p.known \subseteq I, p.ahead \subseteq I, p.account # None => p.account \in I,
           \A l \in DOMAIN p.lists : l[1] \in I
    PROVE  /\ PageTyped(p) /\ Named(p, I) /\ InStep(p) /\ (\A A : Listed(p, A))
           /\ ((\A l \in DOMAIN p.lists : Of(l, p.lists[l].mails)) => InPlace(p))
           /\ Spared(p.lists, p)
<1>1. PageTyped(p)
  BY FS_EmptySet DEF PageTyped, Distinct
<1>2. Named(p, I)
  <2>1. \A a \in Accounts : Names(p, a) => a \in I
    BY ListIs DEF Names
  <2> QED
    BY <2>1 DEF Named
<1>3. ~Shown(p)
  BY DEF Shown
<1>4. \A A : Listed(p, A)
  <2>1. SUFFICES ASSUME NEW a \in Accounts, NEW l, l = <<a, Inbox>>, l \in DOMAIN p.lists
                 PROVE  p.lists[l].at >= p.versions[a]
    BY DEF Listed
  <2>2. p.lists[l] \in Entries
    BY <2>1, CacheIs DEF Pages
  <2>3. p.lists[l].at \in Nat /\ p.versions[a] = -1
    BY <2>1, <2>2 DEF Entries
  <2> QED
    BY <2>3
<1>5. (\A l \in DOMAIN p.lists : Of(l, p.lists[l].mails)) => InPlace(p)
  BY <1>3 DEF InPlace, Stored, Continued
<1>6. Spared(p.lists, p)
  BY <1>3 DEF Spared, Wholes, SkipsNone
<1> QED
  BY <1>1, <1>2, <1>3, <1>4, <1>5, <1>6, HiddenIs

LEMMA OpenedIs ==
    ASSUME NEW view \in [account : Accounts \cup {None}, folder : Folders, uid : Nat],
           view.account # None => <<view.account, view.folder>> \in Lists,
           NEW lists \in Caches, NEW I, clients \subseteq Accounts, clients \subseteq I,
           \A l \in DOMAIN lists : l[1] \in I
    PROVE  LET q == Opened(view, lists) IN
           /\ PageTyped(q) /\ Named(q, I) /\ InStep(q) /\ (\A A : Listed(q, A))
           /\ ((\A l \in DOMAIN lists : Of(l, lists[l].mails)) => InPlace(q))
           /\ Spared(lists, q)
<1> DEFINE Fresh ==
              [account |-> None, folder |-> Inbox, key |-> None, cache |-> <<>>, index |-> 0,
               more |-> FALSE, oldest |-> 0, at |-> 0, lists |-> lists, known |-> clients,
               selecting |-> FALSE, chosen |-> {}, visible |-> FALSE, detail |-> None,
               drawn |-> FALSE, uid |-> 0, versions |-> [a \in Accounts |-> -1],
               polling |-> FALSE, ahead |-> clients, calls |-> {}]
           Is(p) == /\ p \in Pages /\ p.key = None /\ p.calls = {} /\ p.lists = lists
                    /\ p.versions = [a \in Accounts |-> -1] /\ p.known = clients
                    /\ p.ahead = clients
<1>1. Inbox \in Folders
  <2>1. PICK l \in Lists : TRUE
    BY DEF Folders
  <2>2. <<l[1], Inbox>> \in Lists
    BY <2>1, ListIs
  <2> QED
    BY <2>2 DEF Folders
<1>2. Is(Fresh) /\ Fresh.account = None
  <2>1. PICK none : none = [a \in Accounts |-> -1]
    OBVIOUS
  <2>2. none \in Seen
    BY <2>1 DEF Seen
  <2>3. Fresh \in Pages
    BY <1>1, <2>1, <2>2 DEF Pages
  <2> QED
    BY <2>3
<1>3. ASSUME NEW p, Is(p),
             p.account # None => p.account \in clients /\ Active(p) \in Lists
      PROVE  /\ PageTyped(p) /\ Named(p, I) /\ InStep(p) /\ (\A A : Listed(p, A))
             /\ ((\A l \in DOMAIN lists : Of(l, lists[l].mails)) => InPlace(p))
             /\ Spared(lists, p)
  BY <1>3, FreshIs
<1>4. CASE view.account \notin clients
  <2>1. PICK o : o = Fresh
    OBVIOUS
  <2>2. PICK p : p = [o EXCEPT !.polling = TRUE]
    OBVIOUS
  <2>3. Opened(view, lists) = p
    BY <1>4, <2>1, <2>2 DEF Opened
  <2>4. Is(o) /\ o.account = None
    BY <1>2, <2>1
  <2> HIDE DEF Fresh
  <2>5. Is(p) /\ p.account = None
    BY <2>2, <2>4 DEF Pages
  <2> HIDE DEF Is
  <2> QED
    BY <1>3, <2>3, <2>5
<1>5. CASE view.account \in clients
  <2>1. PICK o : o = Fresh
    OBVIOUS
  <2>2. PICK p : p = [o EXCEPT !.account = view.account, !.folder = view.folder]
    OBVIOUS
  <2>3. Opened(view, lists) = LoadMails(p, view.uid)
    BY <1>5, <2>1, <2>2 DEF Opened
  <2>4. Is(o)
    BY <1>2, <2>1
  <2>5. /\ view.account \in Accounts /\ view.account # None /\ view.folder \in Folders
        /\ view.uid \in Nat \cup {-1}
    BY <1>5, ListIs
  <2>6. Is(p) /\ p.account = view.account /\ p.folder = view.folder
    <3> HIDE DEF Fresh
    <3> QED
      BY <2>2, <2>4, <2>5 DEF Pages
  <2> HIDE DEF Fresh, Is
  <2>7. /\ PageTyped(p) /\ Named(p, I) /\ InStep(p) /\ (\A A : Listed(p, A))
        /\ ((\A l \in DOMAIN lists : Of(l, lists[l].mails)) => InPlace(p))
        /\ Spared(lists, p)
    BY <1>3, <1>5, <2>5, <2>6 DEF Active
  <2>8. PICK q : q = LoadMails(p, view.uid)
    OBVIOUS
  <2>9. /\ PageTyped(q) /\ Named(q, I) /\ InStep(q) /\ (Stored(p) => InPlace(q))
        /\ (\A A : Listed(p, A) => Listed(q, A)) /\ \A h : Twin(h, p) => Spares(h, q)
    BY <2>5, <2>7, <2>8, LoadKeeps
  <2>10. Spares(p, q)
    BY <2>7, <2>9 DEF Twin, PageTyped
  <2>11. Spared(lists, q)
    BY <2>7, <2>10 DEF Spared, Spares
  <2> QED
    BY <2>3, <2>7, <2>8, <2>9, <2>11 DEF InPlace
<1> QED
  BY <1>4, <1>5

LEMMA ReloadKeeps ==
    ASSUME PageInv, Reload
    PROVE  PageInv'
<1>1. PICK o, view, lists, q, s : /\ o = page /\ lists = o.lists /\ q = page' /\ s = past'
                                  /\ view = [account |-> o.account, folder |-> o.folder, uid |-> o.uid]
  OBVIOUS
<1>2. /\ PageTyped(o) /\ o \in Pages /\ InOrder(o, past) /\ PastTyped
      /\ clients \subseteq Accounts /\ clients \subseteq past.ids
  BY <1>1, PageIs DEF PageInv, ServerTyped
<1>3. /\ view \in [account : Accounts \cup {None}, folder : Folders, uid : Nat]
      /\ view.account = o.account /\ view.folder = o.folder /\ lists \in Caches
  BY <1>1, <1>2 DEF Pages
<1>4. view.account # None => <<view.account, view.folder>> \in Lists
  BY <1>2, <1>3 DEF PageTyped, Active
<1>5. \A l \in DOMAIN lists : l[1] \in past.ids
  <2>1. SUFFICES ASSUME NEW l \in DOMAIN lists PROVE l[1] \in past.ids
    OBVIOUS
  <2>2. l \in Lists
    BY <1>3, CacheIs
  <2>3. Names(o, l[1]) /\ l[1] \in Accounts
    BY <1>1, <2>2, ListIs DEF Names
  <2> QED
    BY <1>2, <2>3 DEF InOrder, Named
<1>6. q = Opened(view, lists) /\ s = [past EXCEPT !.picked = {}, !.search = FALSE] /\ ServerIdle
  BY <1>1 DEF Reload, Tick
<1>7. /\ PageTyped(q) /\ Named(q, past.ids) /\ InStep(q) /\ (\A A : Listed(q, A))
      /\ ((\A l \in DOMAIN lists : Of(l, lists[l].mails)) => InPlace(q)) /\ Spared(lists, q)
  BY <1>2, <1>3, <1>4, <1>5, <1>6, OpenedIs
<1>8. "stray" \in past.slips \/ InPlace(q)
  BY <1>1, <1>2, <1>7 DEF InOrder, InPlace, Stored
<1>9. /\ PastTyped' /\ s.ids = past.ids /\ s.slips = past.slips /\ ~s.search
      /\ s.missed = past.missed
  BY <1>1, <1>2, <1>6 DEF PastTyped
<1>10. InOrder(q, s)
  BY <1>7, <1>8, <1>9 DEF InOrder
<1>11. ASSUME past.slips = {} PROVE SkipsNone(q, box, top)
  <2>1. Served(box, top) /\ SkipsNone(o, box, top)
    BY <1>1, <1>11, ServedIs DEF PageInv
  <2>2. Wholes(lists, box, top)
    BY <1>1, <2>1 DEF Wholes, SkipsNone
  <2> QED
    BY <1>7, <2>1, <2>2 DEF Spared
<1> QED
  BY <1>1, <1>6, <1>9, <1>10, <1>11 DEF PageInv, ServerTyped, ServerIdle

LEMMA InitIs ==
    ASSUME Init
    PROVE  PageInv
<1>1. ServerTyped
  <2>1. \A l \in Lists : /\ Contents[l] \cup {0} \in SUBSET Nat /\ IsFiniteSet(Contents[l] \cup {0})
                         /\ Contents[l] \in SUBSET Nat /\ IsFiniteSet(Contents[l])
    BY FS_AddElement, BridgePageAssumption
  <2>2. \A l \in Lists : /\ Max(Contents[l] \cup {0}) \in Nat
                         /\ \A u \in Contents[l] : u <= Max(Contents[l] \cup {0})
    BY <2>1, MaxExists
  <2>3. box \in [Lists -> SUBSET Nat] /\ top \in [Lists -> Nat]
    BY <2>1, <2>2, BridgePageAssumption DEF Init
  <2>4. \A l \in Lists : IsFiniteSet(box[l]) /\ \A u \in box[l] : u <= top[l]
    BY <2>1, <2>2 DEF Init
  <2> QED
    BY <2>3, <2>4, BridgePageAssumption DEF Init, ServerTyped
<1>2. /\ PastTyped /\ past.ids = Connected /\ past.missed = {} /\ ~past.search
      /\ clients = Connected /\ Connected \subseteq Accounts
  BY BridgePageAssumption DEF Init, PastTyped
<1>3. PICK lists : lists = [l \in {} |-> Nothing]
  OBVIOUS
<1>4. PICK view \in Views : page = Opened(view, lists)
  BY <1>3 DEF Init
<1>5. lists \in Caches /\ DOMAIN lists = {}
  BY <1>3, CacheIs
<1>6. /\ view \in [account : Accounts \cup {None}, folder : Folders, uid : Nat]
      /\ view.account # None => <<view.account, view.folder>> \in Lists
  BY BridgePageAssumption
<1>7. /\ PageTyped(page) /\ Named(page, past.ids) /\ InStep(page) /\ (\A A : Listed(page, A))
      /\ ((\A l \in DOMAIN lists : Of(l, lists[l].mails)) => InPlace(page)) /\ Spared(lists, page)
  BY <1>2, <1>4, <1>5, <1>6, OpenedIs
<1>8. InOrder(page, past)
  BY <1>2, <1>5, <1>7 DEF InOrder
<1>9. SkipsNone(page, box, top)
  BY <1>1, <1>5, <1>7, ServedIs DEF Spared, Wholes
<1> QED
  BY <1>1, <1>2, <1>8, <1>9 DEF PageInv

(***************************************************************************)
(* Every step                                                              *)
(***************************************************************************)
LEMMA UserActsKeep ==
    ASSUME PageInv, UserActs
    PROVE  PageInv'
<1>1. ASSUME NEW a \in Accounts, SelectAccount(a) \/ RemoveAccount(a) \/ DoAddAccount(a)
      PROVE  PageInv'
  BY <1>1, SelectAccountKeeps, RemoveAccountKeeps, DoAddAccountKeeps
<1>2. ASSUME NEW f \in Folders, SelectFolder(f) \/ MoveMailDetail(f)
      PROVE  PageInv'
  BY <1>2, SelectFolderKeeps, MoveMailKeeps
<1>3. ASSUME NEW i \in 1 .. Len(page.cache), OpenMail(i) \/ ToggleStarInList(i) \/ ToggleMailSelect(i)
      PROVE  PageInv'
  BY <1>3, OpenMailKeeps, ToggleStarKeeps, ToggleMailSelectKeeps
<1>4. ASSUME NEW down \in BOOLEAN, Highlight(down)
      PROVE  PageInv'
  BY <1>4, HighlightKeeps
<1>5. ASSUME NEW kind \in {"batchDelete", "batchFlag"}, DoBatchAction(kind)
      PROVE  PageInv'
  BY <1>5, DoBatchActionKeeps
<1>6. CASE RefreshMails \/ LoadMoreMails \/ DoSearch
  BY <1>6, RefreshMailsKeeps, LoadMoreMailsKeeps, DoSearchKeeps
<1>7. CASE ToggleReadDetail \/ DeleteMailDetail \/ CloseDetail \/ ShowMailListView
  BY <1>7, ToggleReadKeeps, DeleteMailKeeps, CloseDetailKeeps, ShowMailListKeeps
<1>8. CASE ToggleSelectMode \/ BatchSelectAll \/ BatchDeselectAll
  BY <1>8, ToggleSelectModeKeeps, BatchSelectAllKeeps, BatchDeselectAllKeeps
<1> QED
  BY <1>1, <1>2, <1>3, <1>4, <1>5, <1>6, <1>7, <1>8 DEF UserActs

LEMMA NextKeeps ==
    ASSUME PageInv, [Next]_vars
    PROVE  PageInv'
<1>1. ASSUME NEW l \in Lists, Arrive(l)
      PROVE  PageInv'
  BY <1>1, ArriveKeeps
<1>2. ASSUME NEW l \in Lists, NEW u \in box[l], Expunge(l, u)
      PROVE  PageInv'
  BY <1>2, ExpungeKeeps
<1>3. ASSUME NEW c \in page.calls, AnswerMails(c) \/ AnswerSearch(c) \/ AnswerMail(c) \/ AnswerRemoval(c)
      PROVE  PageInv'
  BY <1>3, AnswerMailsKeeps, AnswerSearchKeeps, AnswerMailKeeps, AnswerRemovalKeeps
<1>4. ASSUME NEW c \in page.calls, AnswerPoll(c) \/ AnswerAccount(c) \/ RefuseUnknown(c) \/ Fail(c)
      PROVE  PageInv'
  BY <1>4, AnswerPollKeeps, AnswerAccountKeeps, RefuseUnknownKeeps, FailKeeps
<1>5. ASSUME NEW c \in page.calls, Deliver(c)
      PROVE  PageInv'
  BY <1>5, DeliverKeeps
<1>6. CASE UserActs
  BY <1>6, UserActsKeep
<1>7. CASE PollChanges \/ Reload
  BY <1>7, PollChangesKeeps, ReloadKeeps
<1>8. ASSUME NEW a \in Accounts, PrefetchOtherAccounts(a)
      PROVE  PageInv'
  BY <1>8, PrefetchKeeps
<1>9. CASE UNCHANGED vars
  BY <1>9 DEF vars, PageInv, ServerTyped, PastTyped
<1> QED
  BY <1>1, <1>2, <1>3, <1>4, <1>5, <1>6, <1>7, <1>8, <1>9 DEF Next

\* PageInv is inductive: whatever the page asks for, and whatever comes back.
THEOREM PageInvariantHolds == Spec => []PageInv
<1>1. Init => PageInv
  BY InitIs
<1>2. PageInv /\ [Next]_vars => PageInv'
  BY NextKeeps
<1> QED
  BY <1>1, <1>2, PTL DEF Spec

\* The page keeps its types, and never fetches the same list twice at a time.
THEOREM PageIsTyped == Spec => []TypeOK
<1>1. PageInv => TypeOK
  <2> SUFFICES ASSUME PageInv PROVE TypeOK
    OBVIOUS
  <2>1. PICK o : o = page
    OBVIOUS
  <2>2. o \in Pages /\ PageTyped(o) /\ PastTyped /\ ServerTyped /\ clients \subseteq past.ids
    BY <2>1, PageIs DEF PageInv
  <2>3. /\ box \in [Lists -> SUBSET Nat] /\ \A l \in Lists : \A u \in box[l] : u <= top[l]
        /\ version \in [Accounts -> Nat] /\ clients \subseteq Accounts
    BY <2>2 DEF ServerTyped
  <2>4. /\ o.account \in Accounts \cup {None} /\ o.folder \in Folders /\ o.key \in Lists \cup {None}
        /\ o.cache \in Seq(Mails) /\ o.index \in Nat /\ o.detail \in Mails \cup {None}
        /\ {o.more, o.selecting, o.visible, o.drawn, o.polling} \subseteq BOOLEAN
    BY <2>2 DEF Pages
  <2>5. \A l \in DOMAIN o.lists : l \in Lists /\ o.lists[l].mails \in Seq(Mails)
    BY <2>2, CacheIs DEF Pages, Entries
  <2>6. \A c \in o.calls : c.kind \in Kinds /\ (c.kind = "poll" \/ c.list[2] \in Folders)
    BY <2>2, ListIs DEF Pages, Calls, PageTyped, CallFits, Places
  <2>7. /\ \A c, d \in o.calls : c.id = d.id /\ c.kind # "list" => c = d
        /\ \A c, d \in o.calls : c.kind = "list" /\ d.kind = "list" /\ c.list = d.list => c = d
    BY <2>2 DEF PageTyped, Distinct
  <2>8. /\ past.picked \subseteq Mails /\ past.missed \subseteq Accounts
        /\ past.slips \subseteq SlipKinds /\ past.search \in BOOLEAN
    BY <2>2 DEF PastTyped
  <2> QED
    BY <2>1, <2>2, <2>3, <2>4, <2>5, <2>6, <2>7, <2>8 DEF TypeOK
<1> QED
  BY <1>1, PageInvariantHolds, PTL

\* No reply puts mails of one list into another one's entry of listCache, whatever
\* was clicked since it was asked for (app.js, loadMails and its callers), unless
\* a "load more" was answered late.
THEOREM MailsStay == Spec => []MailsStayInTheirList
<1>1. PageInv => MailsStayInTheirList
  BY DEF PageInv, InOrder, InPlace, Stored, Of, MailsStayInTheirList
<1> QED
  BY <1>1, PageInvariantHolds, PTL

\* A change the page was told of by a poll ends up in the cached inbox
\* (app.js, pollChanges and onInboxChanged), the named exceptions aside.
THEOREM ChangesGetListed == Spec => []ChangesAreListed
<1>1. PageInv => ChangesAreListed
  BY DEF PageInv, InOrder, Listed, ChangesAreListed
<1> QED
  BY <1>1, PageInvariantHolds, PTL

\* A mail of a list that is not in the cached list is newer than all that are, or
\* "load more" still gets to it: no refresh, reply, deletion or reload makes the
\* page go past it (app.js, loadMails, loadMoreMails, refreshListQuietly and deleteMailDetail),
\* unless one of the slips has happened.
THEOREM NoMailGetsSkipped == Spec => []NoMailIsSkipped
<1>1. PageInv => NoMailIsSkipped
  <2> SUFFICES ASSUME PageInv, past.slips = {}, NEW l \in DOMAIN page.lists, NEW e, e = page.lists[l],
                      NEW U, U = {m.uid : m \in ToSet(e.mails)}, NEW u \in box[l]
               PROVE  \/ u \in U
                      \/ \A v \in U : v < u
                      \/ (\A v \in U : u < v) /\ e.more /\ Rank(l, u) < e.oldest
    BY DEF NoMailIsSkipped
  <2>1. SkipsNone(page, box, top)
    BY DEF PageInv
  <2>2. Skipless(box[l], Uids(e.mails), e.more, e.oldest)
    BY <2>1 DEF SkipsNone, Whole
  <2>3. U = Uids(e.mails) /\ Rank(l, u) = Place(box[l], u)
    BY DEF ToSet, Uids, Rank, Place
  <2> QED
    BY <2>2, <2>3 DEF Skipless
<1> QED
  BY <1>1, PageInvariantHolds, PTL

\* Search results stay until a list is chosen (app.js, doSearch and loadSeq).
THEOREM SearchResultsStand == Spec => []SearchStands
<1>1. PageInv => SearchStands
  BY DEF PageInv, InOrder, Searched, SearchStands
<1> QED
  BY <1>1, PageInvariantHolds, PTL
=============================================================================
