-------------------------- MODULE GetWindow_proofs --------------------------
(***************************************************************************)
(* The GETs of a page under a window that moves: no GET waits beside a     *)
(* free place, none that waits is passed, and none goes out past the       *)
(* window, for any number of blocks and any window.                        *)
(***************************************************************************)
EXTENDS GetWindow, FiniteSetTheorems, SequenceTheorems, TLAPS

(* The queue holds each GET without a place, once. *)
Single(h) ==
  /\ \A i, j \in 1 .. Len(h.queue) : h.queue[i] = h.queue[j] => i = j
  /\ \A b \in Blocks : b \in ToSet(h.queue) <=> h.st[b] \in InQueue

Sound(h) == h \in Gets /\ Single(h)

(* The places are filled. *)
Filled(h) == h.queue # <<>> => Full(h)

GetInv == TypeOK /\ Sound(g) /\ Filled(g)

----------------------------------------------------------------------------
(* Sequences without repetition. *)

LEMMA ConcatIs ==
  ASSUME NEW S, NEW u \in Seq(S), NEW v \in Seq(S)
  PROVE  /\ u \o v \in Seq(S) /\ Len(u) \in Nat /\ Len(v) \in Nat
         /\ Len(u \o v) = Len(u) + Len(v)
         /\ \A i \in 1 .. Len(u) + Len(v) :
              (u \o v)[i] = IF i <= Len(u) THEN u[i] ELSE v[i - Len(u)]
OBVIOUS

LEMMA RemoveOnce ==
  ASSUME NEW S, NEW s \in Seq(S), NEW e,
         \A i, j \in 1 .. Len(s) : s[i] = s[j] => i = j
  PROVE  LET t == RemoveFirst(s, e)
         IN  /\ t \in Seq(S)
             /\ \A i, j \in 1 .. Len(t) : t[i] = t[j] => i = j
             /\ ToSet(t) = ToSet(s) \ {e}
             /\ \A b, c : Before(t, b, c) => Before(s, b, c)
<1> DEFINE t == RemoveFirst(s, e)
<1>1. CASE ~\E i \in 1 .. Len(s) : s[i] = e
  <2>1. t = s
    BY <1>1 DEF RemoveFirst
  <2>2. QED
    BY <2>1, <1>1 DEF ToSet
<1>2. CASE \E i \in 1 .. Len(s) : s[i] = e
  <2>1. PICK k \in 1 .. Len(s) : s[k] = e
    BY <1>2
  <2>2. {i \in 1 .. Len(s) : s[i] = e} = {k}
    BY <2>1
  <2>3. Min({k}) = k
    BY <2>1 DEF Min
  <2>4. t = SubSeq(s, 1, k - 1) \o SubSeq(s, k + 1, Len(s))
    BY <1>2, <2>2, <2>3 DEF RemoveFirst, RemoveAt, SelectInSeq
  <2>5. /\ t \in Seq(S) /\ Len(t) = Len(s) - 1
        /\ \A i \in 1 .. Len(t) : t[i] = IF i < k THEN s[i] ELSE s[i + 1]
    <3> DEFINE u == SubSeq(s, 1, k - 1)
               v == SubSeq(s, k + 1, Len(s))
    <3>1. Len(s) \in Nat /\ \A i \in 1 .. Len(s) : s[i] \in S
      BY LenProperties, ElementOfSeq
    <3>2. u \in Seq(S) /\ Len(u) = k - 1 /\ \A i \in 1 .. k - 1 : u[i] = s[i]
      <4>1. \A i \in 1 .. k - 1 : s[i] \in S
        BY <3>1, <2>1
      <4>2. QED
        BY <4>1, <2>1, <3>1, SubSeqProperties
    <3>3. v \in Seq(S) /\ Len(v) = Len(s) - k /\ \A i \in 1 .. Len(s) - k : v[i] = s[k + i]
      <4>1. \A i \in k + 1 .. Len(s) : s[i] \in S
        BY <3>1, <2>1
      <4>2. /\ v \in Seq(S) /\ Len(v) = (IF k + 1 <= Len(s) THEN Len(s) - (k + 1) + 1 ELSE 0)
            /\ \A i \in 1 .. Len(s) - (k + 1) + 1 : v[i] = s[k + 1 + i - 1]
        BY <4>1, <2>1, <3>1, SubSeqProperties
      <4> HIDE DEF v
      <4>3. ASSUME NEW i \in 1 .. Len(s) - k PROVE v[i] = s[k + i]
        <5>1. i \in 1 .. Len(s) - (k + 1) + 1 /\ k + 1 + i - 1 = k + i
          BY <2>1, <3>1
        <5>2. QED
          BY <4>2, <5>1
      <4>4. Len(v) = Len(s) - k
        BY <4>2, <2>1, <3>1
      <4>5. QED
        BY <4>2, <4>3, <4>4
    <3> HIDE DEF u, v
    <3>4. /\ u \o v \in Seq(S) /\ Len(u \o v) = Len(u) + Len(v)
          /\ \A i \in 1 .. Len(u) + Len(v) :
               (u \o v)[i] = IF i <= Len(u) THEN u[i] ELSE v[i - Len(u)]
      <4>1. u \in Seq(S) /\ v \in Seq(S)
        BY <3>2, <3>3
      <4>2. QED
        BY <4>1, ConcatIs
    <3>5. t = u \o v
      BY <2>4 DEF u, v
    <3> HIDE DEF t
    <3>6. t \in Seq(S) /\ Len(t) = Len(s) - 1
      BY <3>5, <3>4, <3>3, <3>2, <2>1, <3>1
    <3>7. ASSUME NEW i \in 1 .. Len(t) PROVE t[i] = IF i < k THEN s[i] ELSE s[i + 1]
      <4>1. i \in 1 .. Len(u) + Len(v) /\ i \in 1 .. Len(s) - 1
        BY <3>6, <3>5, <3>4, <3>2, <3>3
      <4>2. CASE i < k
        BY <4>1, <4>2, <3>1, <3>2, <3>4, <3>5, <2>1
      <4>3. CASE ~(i < k)
        <5>1. t[i] = v[i - (k - 1)]
          BY <4>1, <4>3, <3>1, <3>2, <3>4, <3>5, <2>1
        <5>2. i - (k - 1) \in 1 .. Len(s) - k /\ k + (i - (k - 1)) = i + 1
          BY <4>1, <4>3, <3>1, <2>1
        <5>3. QED
          BY <5>1, <5>2, <3>3, <4>3
      <4>4. QED
        BY <4>2, <4>3
    <3>8. QED
      BY <3>6, <3>7
  <2> HIDE DEF t
  <2>6. \A i, j \in 1 .. Len(t) : t[i] = t[j] => i = j
    BY <2>1, <2>5
  <2>7. ToSet(t) \subseteq ToSet(s) \ {e}
    BY <2>1, <2>5 DEF ToSet
  <2>8. ASSUME NEW x \in ToSet(s) \ {e} PROVE x \in ToSet(t)
    <3>1. PICK i \in 1 .. Len(s) : s[i] = x /\ i # k
      BY <2>1 DEF ToSet
    <3>2. CASE i < k
      BY <3>1, <3>2, <2>1, <2>5 DEF ToSet
    <3>3. CASE i > k
      <4>1. i - 1 \in 1 .. Len(t) /\ t[i - 1] = x
        BY <3>1, <3>3, <2>1, <2>5
      <4>2. QED
        BY <4>1, <2>5 DEF ToSet
    <3>4. QED
      BY <3>1, <3>2, <3>3, <2>1
  <2>9. ASSUME NEW b, NEW c, Before(t, b, c) PROVE Before(s, b, c)
    <3>1. PICK i, j \in 1 .. Len(t) : i < j /\ t[i] = b /\ t[j] = c
      BY <2>9, <2>5 DEF Before
    <3> DEFINE up(n) == IF n < k THEN n ELSE n + 1
    <3>2. up(i) \in 1 .. Len(s) /\ up(j) \in 1 .. Len(s) /\ up(i) < up(j)
      BY <3>1, <2>1, <2>5
    <3>3. s[up(i)] = b /\ s[up(j)] = c
      BY <3>1, <2>5
    <3>4. QED
      BY <3>2, <3>3 DEF Before
  <2>10. QED
    BY <2>5, <2>6, <2>7, <2>8, <2>9 DEF t
<1>3. QED
  BY <1>1, <1>2

----------------------------------------------------------------------------
(* What fills the free places. *)

LEMMA InFlightFinite ==
  ASSUME NEW h
  PROVE  IsFiniteSet(InFlight(h)) /\ Cardinality(InFlight(h)) \in Nat
<1>1. InFlight(h) \in SUBSET Blocks
  BY DEF InFlight
<1>2. QED
  BY <1>1, FS_Subset, FS_CardinalityType, TableAssumption

LEMMA RoomOK ==
  ASSUME NEW h, Sound(h)
  PROVE  /\ Room(h) \in 0 .. Len(h.queue)
         /\ Full(h) => Room(h) = 0
         /\ ~Full(h) => Room(h) <= h.window - Cardinality(InFlight(h))
         /\ Room(h) = Len(h.queue) \/ Full(h) \/ Room(h) = h.window - Cardinality(InFlight(h))
<1>1. h.queue \in Seq(Blocks) /\ h.window \in Nat
  BY DEF Sound, Gets
<1>2. Cardinality(InFlight(h)) \in Nat
  BY InFlightFinite
<1>3. Len(h.queue) \in Nat
  BY <1>1, LenProperties
<1>4. QED
  BY <1>1, <1>2, <1>3 DEF Room, Full

LEMMA GoingOK ==
  ASSUME NEW h, Sound(h)
  PROVE  /\ Going(h) \subseteq Blocks /\ IsFiniteSet(Going(h))
         /\ Cardinality(Going(h)) = Room(h)
         /\ Going(h) \cap InFlight(h) = {}
<1> DEFINE n == Room(h)
           f == [i \in 1 .. n |-> h.queue[i]]
<1>1. n \in Nat /\ 1 .. n \subseteq 1 .. Len(h.queue) /\ h.queue \in Seq(Blocks)
  BY RoomOK, LenProperties DEF Sound, Gets
<1>2. \A i \in 1 .. n : h.queue[i] \in Blocks
  BY <1>1, ElementOfSeq
<1>3. f \in Bijection(1 .. n, Going(h))
  BY <1>1 DEF Bijection, Injection, Surjection, IsInjective, Going, Sound, Single
<1>4. ExistsBijection(1 .. n, Going(h))
  BY <1>3 DEF ExistsBijection
<1>5. Cardinality(Going(h)) = n
  BY <1>1, <1>4, FS_CountingElements
<1>6. Going(h) \in SUBSET Blocks
  BY <1>2 DEF Going
<1>7. IsFiniteSet(Going(h))
  BY <1>6, FS_Subset, TableAssumption
<1>8. \A b \in Going(h) : b \in ToSet(h.queue)
  BY <1>1 DEF Going, ToSet
<1>9. Going(h) \cap InFlight(h) = {}
  BY <1>6, <1>8 DEF Sound, Single, InFlight, InQueue
<1>10. QED
  BY <1>5, <1>6, <1>7, <1>9

LEMMA PlaceOK ==
  ASSUME NEW h \in Gets, NEW bs \in SUBSET Blocks
  PROVE  /\ Place(h, bs) \in Gets /\ Place(h, bs).window = h.window /\ Place(h, bs).queue = h.queue
         /\ InFlight(Place(h, bs)) = InFlight(h) \cup bs
         /\ \A b \in Blocks : Place(h, bs).st[b] = IF b \in bs THEN "wire" ELSE h.st[b]
<1>1. \A b \in Blocks : h.asked[b] < MaxAsked => h.asked[b] + 1 \in 0 .. MaxAsked
  BY TableAssumption DEF Gets
<1>2. QED
  BY <1>1 DEF Place, Gets, GetStates, InFlight

LEMMA FillOK ==
  ASSUME NEW h, Sound(h)
  PROVE  LET k == Fill(h)
         IN  /\ Sound(k) /\ Filled(k) /\ k.window = h.window
             /\ InFlight(k) = InFlight(h) \cup Going(h)
             /\ Going(h) # {} => Cardinality(InFlight(k)) <= k.window
             /\ \A b \in Going(h), c \in ToSet(k.queue) : Before(h.queue, b, c)
             /\ ToSet(k.queue) \subseteq ToSet(h.queue)
<1> DEFINE n == Room(h)
           q == SubSeq(h.queue, n + 1, Len(h.queue))
           m == [h EXCEPT !.queue = q]
           k == Fill(h)
<1>1. h.queue \in Seq(Blocks) /\ Len(h.queue) \in Nat /\ n \in 0 .. Len(h.queue)
  BY RoomOK, LenProperties DEF Sound, Gets
<1>2. /\ q \in Seq(Blocks) /\ Len(q) = Len(h.queue) - n
      /\ \A i \in 1 .. Len(q) : q[i] = h.queue[i + n]
  BY <1>1
<1>3. m \in Gets /\ InFlight(m) = InFlight(h) /\ m.st = h.st /\ m.window = h.window /\ m.queue = q
  BY <1>2 DEF Sound, Gets, InFlight
<1>4. /\ k = Place(m, Going(h)) /\ k \in Gets /\ k.window = h.window /\ k.queue = q
      /\ InFlight(k) = InFlight(h) \cup Going(h)
      /\ \A b \in Blocks : k.st[b] = IF b \in Going(h) THEN "wire" ELSE h.st[b]
  <2>1. Going(h) \in SUBSET Blocks
    BY GoingOK
  <2>2. k = Place(m, Going(h))
    BY DEF Fill
  <2> HIDE DEF k, m, q, n
  <2>3. QED
    BY <1>3, <2>1, <2>2, PlaceOK
<1> HIDE DEF k, m, q, n
<1>5. \A i, j \in 1 .. Len(q) : q[i] = q[j] => i = j
  <2>1. SUFFICES ASSUME NEW i \in 1 .. Len(q), NEW j \in 1 .. Len(q), q[i] = q[j] PROVE i = j
    OBVIOUS
  <2>2. /\ i + n \in 1 .. Len(h.queue) /\ j + n \in 1 .. Len(h.queue)
        /\ h.queue[i + n] = h.queue[j + n]
    BY <2>1, <1>1, <1>2
  <2>3. i + n = j + n
    BY <2>2 DEF Sound, Single
  <2>4. QED
    BY <2>3, <1>1, <1>2
<1>6. ASSUME NEW b \in Blocks
      PROVE  b \in ToSet(q) <=> k.st[b] \in InQueue
  <2>1. b \in ToSet(h.queue) <=> h.st[b] \in InQueue
    BY DEF Sound, Single
  <2>2. ToSet(q) \subseteq ToSet(h.queue)
    BY <1>1, <1>2 DEF ToSet
  <2>3. CASE b \in Going(h)
    <3>1. PICK i \in 1 .. n : h.queue[i] = b
      BY <2>3 DEF Going, n
    <3>2. ASSUME NEW j \in 1 .. Len(q), q[j] = b PROVE FALSE
      <4>1. h.queue[j + n] = h.queue[i] /\ j + n \in 1 .. Len(h.queue) /\ i \in 1 .. Len(h.queue)
        BY <3>1, <3>2, <1>1, <1>2
      <4>2. j + n = i
        BY <4>1 DEF Sound, Single
      <4>3. QED
        BY <4>2, <1>1, <1>2
    <3>3. b \notin ToSet(q)
      BY <3>2, <1>2 DEF ToSet
    <3>4. QED
      BY <3>3, <2>3, <1>4 DEF InQueue
  <2>4. CASE b \notin Going(h)
    <3>1. b \in ToSet(h.queue) => b \in ToSet(q)
      <4>1. SUFFICES ASSUME b \in ToSet(h.queue) PROVE b \in ToSet(q)
        OBVIOUS
      <4>2. PICK i \in 1 .. Len(h.queue) : h.queue[i] = b
        BY <4>1, <1>1 DEF ToSet
      <4>3. i > n
        BY <4>2, <2>4, <1>1 DEF Going, n
      <4>4. i - n \in 1 .. Len(q) /\ q[i - n] = b
        BY <4>2, <4>3, <1>1, <1>2
      <4>5. QED
        BY <4>4, <1>2 DEF ToSet
    <3>2. QED
      BY <3>1, <2>1, <2>2, <2>4, <1>4
  <2>5. QED
    BY <2>3, <2>4
<1>7. Sound(k)
  BY <1>4, <1>5, <1>6 DEF Sound, Single
<1>8. /\ Cardinality(InFlight(h)) \in Nat /\ h.window \in Nat
      /\ Cardinality(InFlight(k)) = Cardinality(InFlight(h)) + n
  <2>1. IsFiniteSet(InFlight(h)) /\ Cardinality(InFlight(h)) \in Nat
    BY InFlightFinite
  <2>2. /\ IsFiniteSet(Going(h)) /\ Cardinality(Going(h)) = n /\ InFlight(h) \cap Going(h) = {}
    BY GoingOK DEF n
  <2>3. Cardinality(InFlight(h) \cup Going(h)) = Cardinality(InFlight(h)) + n - 0
    BY <2>1, <2>2, FS_Union, FS_EmptySet
  <2>4. QED
    BY <2>1, <2>3, <1>1, <1>4 DEF Sound, Gets
<1>9. Filled(k)
  <2>1. SUFFICES ASSUME q # <<>> PROVE Cardinality(InFlight(k)) >= h.window
    BY <1>4 DEF Filled, Full
  <2>2. Len(q) # 0
    BY <2>1, <1>2, EmptySeq
  <2>3. n # Len(h.queue)
    BY <2>2, <1>1, <1>2
  <2>4. Full(h) \/ n = h.window - Cardinality(InFlight(h))
    BY <2>3, RoomOK DEF n
  <2>5. QED
    BY <2>4, <1>1, <1>8 DEF Full
<1>10. Going(h) # {} => Cardinality(InFlight(k)) <= k.window
  <2>1. SUFFICES ASSUME Going(h) # {} PROVE Cardinality(InFlight(k)) <= h.window
    BY <1>4
  <2>2. n # 0
    BY <2>1, <1>1 DEF Going, n
  <2>3. ~Full(h)
    BY <2>2, RoomOK DEF n
  <2>4. QED
    BY <2>3, RoomOK, <1>1, <1>8 DEF n
<1>11. ASSUME NEW b \in Going(h), NEW c \in ToSet(q) PROVE Before(h.queue, b, c)
  <2>1. PICK i \in 1 .. n : h.queue[i] = b
    BY DEF Going, n
  <2>2. PICK j \in 1 .. Len(q) : q[j] = c
    BY <1>2 DEF ToSet
  <2>3. i \in 1 .. Len(h.queue) /\ j + n \in 1 .. Len(h.queue) /\ i < j + n /\ h.queue[j + n] = c
    BY <2>1, <2>2, <1>1, <1>2
  <2>4. QED
    BY <2>1, <2>3, <1>1 DEF Before
<1>12. ToSet(q) \subseteq ToSet(h.queue)
  <2>1. SUFFICES ASSUME NEW i \in 1 .. Len(q) PROVE q[i] \in ToSet(h.queue)
    BY <1>2 DEF ToSet
  <2>2. i + n \in 1 .. Len(h.queue) /\ q[i] = h.queue[i + n]
    BY <1>1, <1>2
  <2>3. QED
    BY <2>2, <1>1 DEF ToSet
<1>13. QED
  BY <1>4, <1>7, <1>9, <1>10, <1>11, <1>12 DEF k

----------------------------------------------------------------------------
(* What one operation of the table does: its invariant, and what may be     *)
(* said of the GETs it sends.                                               *)

Orderly(h, k, out) ==
  /\ \A b \in out, c \in ToSet(h.queue) \cap ToSet(k.queue) : Before(h.queue, b, c)
  /\ out # {} => Cardinality(InFlight(k)) <= k.window

Kept(h, k) == Sound(k) /\ Filled(k) /\ Orderly(h, k, InFlight(k) \ InFlight(h))

LEMMA EmptyToSet ==
  ASSUME NEW S, NEW s \in Seq(S), NEW c, c \in ToSet(s)
  PROVE  s # <<>>
BY DEF ToSet

LEMMA EndOK ==
  ASSUME NEW h, Sound(h), NEW b \in Blocks
  PROVE  LET k == End(h, b)
         IN  /\ Sound(k) /\ k.window = h.window /\ k.asked = h.asked /\ k.st[b] = "none"
             /\ InFlight(k) = InFlight(h) \ {b}
             /\ ToSet(k.queue) = ToSet(h.queue) \ {b}
             /\ \A c, d : Before(k.queue, c, d) => Before(h.queue, c, d)
<1> DEFINE k == End(h, b)
           q == RemoveFirst(h.queue, b)
<1>1. h \in Gets /\ h.queue \in Seq(Blocks) /\ h.st \in [Blocks -> GetStates]
  BY DEF Sound, Gets
<1>2. /\ q \in Seq(Blocks) /\ \A i, j \in 1 .. Len(q) : q[i] = q[j] => i = j
      /\ ToSet(q) = ToSet(h.queue) \ {b}
      /\ \A c, d : Before(q, c, d) => Before(h.queue, c, d)
  BY <1>1, RemoveOnce DEF Sound, Single
<1>3. /\ k.queue = q /\ k.window = h.window /\ k.asked = h.asked
      /\ k.st = [h.st EXCEPT ![b] = "none"]
  BY <1>1 DEF End, Gets
<1>4. k \in Gets
  <2> HIDE DEF q
  <2>1. [h.st EXCEPT ![b] = "none"] \in [Blocks -> GetStates]
    BY <1>1 DEF GetStates
  <2>2. k = [h EXCEPT !.st = [h.st EXCEPT ![b] = "none"], !.queue = q]
    BY <1>1 DEF End, Gets, q
  <2>3. QED
    BY <1>1, <1>2, <2>1, <2>2 DEF Gets
<1> HIDE DEF k, q
<1>5. \A c \in Blocks : k.st[c] = IF c = b THEN "none" ELSE h.st[c]
  BY <1>1, <1>3
<1>6. Sound(k)
  BY <1>2, <1>3, <1>4, <1>5 DEF Sound, Single, InQueue
<1>7. InFlight(k) = InFlight(h) \ {b}
  BY <1>5 DEF InFlight
<1>8. QED
  BY <1>2, <1>3, <1>5, <1>6, <1>7 DEF k

LEMMA WindowOK ==
  ASSUME NEW h, Sound(h), NEW n \in Nat \ {0}
  PROVE  LET k == [h EXCEPT !.window = n]
         IN  Sound(k) /\ InFlight(k) = InFlight(h) /\ k.queue = h.queue /\ k.window = n /\ k.st = h.st
BY DEF Sound, Single, Gets, InFlight

(* The places freed and the window set, the queue fills them. *)
LEMMA FillKept ==
  ASSUME NEW h, NEW m, Sound(h), Sound(m), InFlight(m) \subseteq InFlight(h),
         ToSet(m.queue) \subseteq ToSet(h.queue),
         \A c, d : Before(m.queue, c, d) => Before(h.queue, c, d)
  PROVE  Kept(h, Fill(m))
<1> DEFINE k == Fill(m)
           out == InFlight(k) \ InFlight(h)
<1>1. /\ Sound(k) /\ Filled(k) /\ InFlight(k) = InFlight(m) \cup Going(m)
      /\ Going(m) # {} => Cardinality(InFlight(k)) <= k.window
      /\ \A b \in Going(m), c \in ToSet(k.queue) : Before(m.queue, b, c)
  BY FillOK
<1>2. out \subseteq Going(m)
  BY <1>1
<1> HIDE DEF k
<1>3. Orderly(h, k, out)
  BY <1>1, <1>2 DEF Orderly
<1>4. QED
  BY <1>1, <1>3 DEF Kept, k

LEMMA EndKept ==
  ASSUME NEW h, Sound(h), Filled(h), NEW b \in Blocks, h.st[b] # "wire"
  PROVE  Kept(h, End(h, b))
<1> DEFINE k == End(h, b)
<1>1. /\ Sound(k) /\ k.window = h.window /\ InFlight(k) = InFlight(h) \ {b}
      /\ ToSet(k.queue) \subseteq ToSet(h.queue)
  BY EndOK
<1>2. InFlight(k) = InFlight(h)
  BY <1>1 DEF InFlight
<1>3. Filled(k)
  <2>1. SUFFICES ASSUME k.queue # <<>> PROVE Full(k)
    BY DEF Filled
  <2>2. k.queue \in Seq(Blocks) /\ h.queue \in Seq(Blocks)
    BY <1>1 DEF Sound, Gets
  <2>3. k.queue[1] \in ToSet(k.queue)
    BY <2>1, <2>2 DEF ToSet
  <2>4. h.queue # <<>>
    BY <2>2, <2>3, <1>1, EmptyToSet
  <2>5. QED
    BY <2>4, <1>1, <1>2 DEF Filled, Full
<1>4. Orderly(h, k, InFlight(k) \ InFlight(h))
  BY <1>2 DEF Orderly
<1>5. QED
  BY <1>1, <1>3, <1>4 DEF Kept

LEMMA DropKept ==
  ASSUME NEW h, Sound(h), Filled(h), NEW b \in Blocks
  PROVE  Kept(h, Drop(h, b)) /\ Drop(h, b).window = h.window
<1>1. CASE h.st[b] = "wire"
  <2>1. /\ Sound(End(h, b)) /\ InFlight(End(h, b)) \subseteq InFlight(h) /\ End(h, b).window = h.window
        /\ ToSet(End(h, b).queue) \subseteq ToSet(h.queue)
        /\ \A c, d : Before(End(h, b).queue, c, d) => Before(h.queue, c, d)
    BY EndOK
  <2>2. Drop(h, b) = Fill(End(h, b))
    BY <1>1 DEF Drop
  <2>3. Fill(End(h, b)).window = h.window
    BY <2>1, FillOK
  <2>4. QED
    BY <2>1, <2>2, <2>3, FillKept
<1>2. CASE h.st[b] # "wire"
  BY <1>2, EndKept, EndOK DEF Drop
<1>3. QED
  BY <1>1, <1>2

LEMMA AnsweredKept ==
  ASSUME NEW h, Sound(h), Filled(h), NEW b \in Blocks, NEW n \in Nat \ {0}
  PROVE  LET k == Answered(h, b, n)
         IN  Kept(h, k) /\ k.window \in {n, h.window} /\ k.st[b] = "none"
<1> DEFINE m == End(h, b)
           w == [m EXCEPT !.window = n]
<1>1. /\ Sound(m) /\ InFlight(m) \subseteq InFlight(h) /\ m.window = h.window
      /\ ToSet(m.queue) = ToSet(h.queue) \ {b} /\ m.st[b] = "none"
      /\ \A c, d : Before(m.queue, c, d) => Before(h.queue, c, d)
  BY EndOK
<1> HIDE DEF m
<1>2. CASE h.st[b] = "wire"
  <2>1. Sound(w) /\ InFlight(w) = InFlight(m) /\ w.queue = m.queue /\ w.window = n /\ w.st = m.st
    BY <1>1, WindowOK
  <2>2. Answered(h, b, n) = Fill(w)
    BY <1>2 DEF Answered, m
  <2> HIDE DEF w
  <2>3. Kept(h, Fill(w))
    BY <1>1, <2>1, FillKept
  <2>4. Fill(w).window = n
    BY <2>1, FillOK
  <2>5. Sound(Fill(w)) /\ InFlight(Fill(w)) = InFlight(w) \cup Going(w) /\ ToSet(Fill(w).queue) \subseteq ToSet(w.queue)
    BY <2>1, FillOK
  <2>6. b \notin Going(w)
    <3>1. b \notin ToSet(w.queue)
      BY <1>1, <2>1
    <3>2. w.queue \in Seq(Blocks) /\ Room(w) \in 0 .. Len(w.queue)
      BY <2>1, RoomOK DEF Sound, Gets
    <3>3. QED
      BY <3>1, <3>2 DEF Going, ToSet
  <2>7. Fill(w).st[b] = "none"
    <3>1. [w EXCEPT !.queue = SubSeq(w.queue, Room(w) + 1, Len(w.queue))].st = w.st
      BY <2>1 DEF Sound, Gets
    <3>2. QED
      BY <3>1, <2>6, <2>1, <1>1 DEF Fill, Place, Sound, Gets
  <2>8. QED
    BY <2>2, <2>3, <2>4, <2>7
<1>3. CASE h.st[b] # "wire"
  <2>1. Answered(h, b, n) = m
    BY <1>3 DEF Answered, m
  <2>2. Kept(h, m)
    BY <1>3, EndKept DEF m
  <2>3. QED
    BY <2>1, <2>2, <1>1
<1>4. QED
  BY <1>2, <1>3

LEMMA ParkKept ==
  ASSUME NEW h, NEW k, Kept(h, k), NEW b \in Blocks, k.st[b] = "none"
  PROVE  Kept(h, Park(k, b)) /\ Park(k, b).window = k.window
<1> DEFINE p == Park(k, b)
<1>1. Sound(k) /\ k \in Gets /\ k.st \in [Blocks -> GetStates]
  BY DEF Kept, Sound, Gets
<1>2. /\ p \in Gets /\ p.queue = k.queue /\ p.window = k.window
      /\ \A c \in Blocks : p.st[c] = IF c = b THEN "parked" ELSE k.st[c]
  BY <1>1 DEF Park, Gets, GetStates
<1> HIDE DEF p
<1>3. InFlight(p) = InFlight(k)
  BY <1>2 DEF InFlight
<1>4. Sound(p)
  BY <1>1, <1>2 DEF Sound, Single, InQueue
<1>5. Filled(p)
  BY <1>2, <1>3 DEF Kept, Filled, Full
<1>6. Orderly(h, p, InFlight(p) \ InFlight(h))
  BY <1>2, <1>3 DEF Kept, Orderly
<1>7. QED
  BY <1>2, <1>4, <1>5, <1>6 DEF Kept, p

LEMMA SendKept ==
  ASSUME NEW h, Sound(h), Filled(h), NEW b \in Blocks, h.st[b] = "none"
  PROVE  Kept(h, Send(h, b)) /\ Send(h, b).window = h.window
<1>1. h \in Gets /\ h.queue \in Seq(Blocks) /\ h.window \in Nat
  BY DEF Sound, Gets
<1>2. CASE Full(h)
  <2> DEFINE k == Queue(h, b)
             q == Append(h.queue, b)
  <2>1. /\ q \in Seq(Blocks) /\ Len(q) = Len(h.queue) + 1 /\ Len(h.queue) \in Nat
        /\ \A i \in 1 .. Len(q) : q[i] = IF i <= Len(h.queue) THEN h.queue[i] ELSE b
    BY <1>1
  <2>2. /\ k.queue = q /\ k.window = h.window
        /\ \A c \in Blocks : k.st[c] = IF c = b THEN "queued" ELSE h.st[c]
    BY <1>1 DEF Queue, Gets
  <2>3. k \in Gets
    <3> HIDE DEF q
    <3>1. [h.st EXCEPT ![b] = "queued"] \in [Blocks -> GetStates]
      BY <1>1 DEF Gets, GetStates
    <3>2. k = [h EXCEPT !.st = [h.st EXCEPT ![b] = "queued"], !.queue = q]
      BY <1>1 DEF Queue, Gets, q
    <3>3. QED
      BY <1>1, <2>1, <3>1, <3>2 DEF Gets
  <2> HIDE DEF k, q
  <2>4. b \notin ToSet(h.queue)
    BY DEF Sound, Single, InQueue
  <2>5. \A i \in 1 .. Len(h.queue) : h.queue[i] # b
    BY <2>4, <1>1 DEF ToSet
  <2>6. \A i, j \in 1 .. Len(q) : q[i] = q[j] => i = j
    BY <2>1, <2>5 DEF Sound, Single
  <2>7. ToSet(q) = ToSet(h.queue) \cup {b}
    <3>1. ToSet(q) \subseteq ToSet(h.queue) \cup {b}
      BY <2>1, <1>1 DEF ToSet
    <3>2. q[Len(q)] = b /\ Len(q) \in 1 .. Len(q)
      BY <2>1
    <3>3. \A i \in 1 .. Len(h.queue) : i \in 1 .. Len(q) /\ q[i] = h.queue[i]
      BY <2>1
    <3>4. ToSet(h.queue) \cup {b} \subseteq ToSet(q)
      BY <2>1, <3>2, <3>3, <1>1 DEF ToSet
    <3>5. QED
      BY <3>1, <3>4
  <2>8. Sound(k)
    BY <2>2, <2>3, <2>6, <2>7 DEF Sound, Single, InQueue
  <2>9. InFlight(k) = InFlight(h)
    BY <2>2 DEF InFlight
  <2>10. Filled(k) /\ Orderly(h, k, InFlight(k) \ InFlight(h))
    BY <1>2, <2>2, <2>9 DEF Filled, Full, Orderly
  <2>11. QED
    BY <1>2, <2>2, <2>8, <2>10 DEF Kept, Send, k
<1>3. CASE ~Full(h)
  <2> DEFINE k == Place(h, {b})
  <2>1. /\ k \in Gets /\ k.window = h.window /\ k.queue = h.queue
        /\ InFlight(k) = InFlight(h) \cup {b}
        /\ \A c \in Blocks : k.st[c] = IF c \in {b} THEN "wire" ELSE h.st[c]
    BY <1>1, PlaceOK
  <2> HIDE DEF k
  <2>2. h.queue = <<>>
    BY <1>3 DEF Filled
  <2>3. Sound(k)
    BY <2>1 DEF Sound, Single, InQueue
  <2>4. ToSet(h.queue) = {}
    BY <2>2 DEF ToSet
  <2>5. Cardinality(InFlight(k)) <= k.window
    <3>1. IsFiniteSet(InFlight(h)) /\ Cardinality(InFlight(h)) \in Nat
      BY InFlightFinite
    <3>2. Cardinality(InFlight(k)) <= Cardinality(InFlight(h)) + 1
      <4>1. Cardinality(InFlight(h) \cup {b}) =
              IF b \in InFlight(h) THEN Cardinality(InFlight(h)) ELSE Cardinality(InFlight(h)) + 1
        BY <3>1, FS_AddElement, Zenon
      <4>2. Cardinality(InFlight(h) \cup {b}) <= Cardinality(InFlight(h)) + 1
        BY <4>1, <3>1
      <4>3. QED
        BY <4>2, <2>1
    <3>3. Cardinality(InFlight(k)) \in Nat
      BY InFlightFinite
    <3>4. QED
      BY <3>1, <3>2, <3>3, <1>1, <1>3, <2>1 DEF Full
  <2>6. Filled(k) /\ Orderly(h, k, InFlight(k) \ InFlight(h))
    BY <2>1, <2>2, <2>4, <2>5 DEF Filled, Orderly
  <2>7. QED
    BY <1>3, <2>1, <2>3, <2>6 DEF Kept, Send, k
<1>4. QED
  BY <1>2, <1>3

LEMMA NodeKept ==
  ASSUME NEW h, Sound(h), Filled(h), NEW b \in Blocks, h.asked[b] > 0
  PROVE  LET k == NodeAnswers(h, b)
         IN  Sound(k) /\ Filled(k) /\ k.queue = h.queue /\ k.window = h.window
             /\ InFlight(k) = InFlight(h) /\ k.st = h.st
<1> DEFINE k == NodeAnswers(h, b)
<1>1. h \in Gets /\ h.asked[b] - 1 \in 0 .. MaxAsked
  BY TableAssumption DEF Sound, Gets
<1>2. k \in Gets /\ k.queue = h.queue /\ k.window = h.window /\ k.st = h.st
  BY <1>1 DEF NodeAnswers, Gets
<1> HIDE DEF k
<1>3. QED
  BY <1>2 DEF Sound, Single, Filled, Full, InFlight, k

(* What a tick puts in the queue is behind what waits there. *)
LEMMA RequeueOK ==
  ASSUME NEW h, Sound(h), NEW bs \in SUBSET Blocks,
         \A b \in bs : h.st[b] \in {"wire", "parked"},
         NEW order \in Orders(bs)
  PROVE  LET k == Requeue(h, order)
         IN  /\ Sound(k) /\ k.window = h.window
             /\ \A b : \A c \in ToSet(h.queue) :
                  Before(k.queue, b, c) => Before(h.queue, b, c)
<1> DEFINE k == Requeue(h, order)
           q == h.queue \o order
           n == Len(h.queue)
           m == Len(order)
<1>1. h \in Gets /\ h.queue \in Seq(Blocks)
  BY DEF Sound, Gets
<1>2. order \in Seq(Blocks)
  <2>1. IsFiniteSet(bs)
    BY FS_Subset, TableAssumption
  <2>2. Cardinality(bs) \in Nat
    BY <2>1, FS_CardinalityType
  <2>3. order \in [1 .. Cardinality(bs) -> Blocks]
    BY DEF Orders
  <2>4. QED
    BY <2>2, <2>3, IsASeq
<1>3. /\ ToSet(order) = bs /\ \A i, j \in 1 .. m : order[i] = order[j] => i = j
      /\ \A i \in 1 .. m : order[i] \in bs
  <2>1. /\ ToSet(order) = bs /\ \A i, j \in DOMAIN order : order[i] = order[j] => i = j
        /\ order \in [1 .. Cardinality(bs) -> bs]
    BY Zenon DEF Orders, IsInjective
  <2>2. DOMAIN order = 1 .. m
    BY <1>2
  <2> HIDE DEF m
  <2>3. QED
    BY <2>1, <2>2
<1>4. /\ q \in Seq(Blocks) /\ n \in Nat /\ m \in Nat /\ Len(q) = n + m
      /\ \A i \in 1 .. n + m : q[i] = IF i <= n THEN h.queue[i] ELSE order[i - n]
  BY <1>1, <1>2, ConcatIs
<1>5. /\ k.queue = q /\ k.window = h.window
      /\ \A b \in Blocks : k.st[b] = IF b \in bs THEN "lost" ELSE h.st[b]
  BY <1>1, <1>3 DEF Requeue, Gets
<1>6. k \in Gets
  <2> DEFINE st == [b \in Blocks |-> IF b \in bs THEN "lost" ELSE h.st[b]]
  <2>1. st \in [Blocks -> GetStates]
    BY <1>1 DEF Gets, GetStates
  <2>2. k = [h EXCEPT !.st = st, !.queue = q]
    BY <1>1, <1>3 DEF Requeue, Gets
  <2> HIDE DEF st, q
  <2>3. QED
    BY <1>1, <1>4, <2>1, <2>2 DEF Gets
<1> HIDE DEF k, q, n, m
<1>7. \A i \in 1 .. n : h.queue[i] \in ToSet(h.queue) /\ h.queue[i] \notin bs
  <2>1. SUFFICES ASSUME NEW i \in 1 .. n PROVE h.queue[i] \in ToSet(h.queue) /\ h.queue[i] \notin bs
    OBVIOUS
  <2>2. h.queue[i] \in ToSet(h.queue) /\ h.queue[i] \in Blocks
    BY <1>1 DEF ToSet, n
  <2>3. h.st[h.queue[i]] \in InQueue
    BY <2>2 DEF Sound, Single
  <2>4. QED
    BY <2>2, <2>3 DEF InQueue
<1>8. \A i, j \in 1 .. Len(q) : q[i] = q[j] => i = j
  <2>1. SUFFICES ASSUME NEW i \in 1 .. n + m, NEW j \in 1 .. n + m, q[i] = q[j] PROVE i = j
    BY <1>4
  <2>2. CASE i <= n /\ j <= n
    BY <2>1, <2>2, <1>4 DEF Sound, Single, n
  <2>3. CASE i > n /\ j > n
    <3>1. i - n \in 1 .. m /\ j - n \in 1 .. m /\ order[i - n] = order[j - n]
      BY <2>1, <2>3, <1>4
    <3>2. i - n = j - n
      BY <3>1, <1>3
    <3>3. QED
      BY <3>2, <1>4
  <2>4. CASE i <= n /\ j > n
    <3>1. i \in 1 .. n /\ j - n \in 1 .. m /\ q[i] = h.queue[i] /\ q[j] = order[j - n]
      BY <2>1, <2>4, <1>4
    <3>2. QED
      BY <3>1, <2>1, <1>3, <1>7
  <2>5. CASE i > n /\ j <= n
    <3>1. j \in 1 .. n /\ i - n \in 1 .. m /\ q[j] = h.queue[j] /\ q[i] = order[i - n]
      BY <2>1, <2>5, <1>4
    <3>2. QED
      BY <3>1, <2>1, <1>3, <1>7
  <2>6. QED
    BY <2>2, <2>3, <2>4, <2>5, <1>4
<1>9. ToSet(q) = ToSet(h.queue) \cup bs
  <2>1. \A i \in 1 .. n : i \in 1 .. Len(q) /\ q[i] = h.queue[i]
    BY <1>4
  <2>2. ToSet(h.queue) \subseteq ToSet(q)
    BY <2>1, <1>1, <1>4 DEF ToSet, n
  <2>3. ASSUME NEW b \in bs PROVE b \in ToSet(q)
    <3>1. PICK i \in 1 .. m : order[i] = b
      BY <1>2, <1>3 DEF ToSet, m
    <3>2. i + n \in 1 .. Len(q) /\ ~(i + n <= n) /\ (i + n) - n = i
      BY <1>4
    <3>3. q[i + n] = b
      BY <3>1, <3>2, <1>4
    <3>4. QED
      BY <3>2, <3>3, <1>4 DEF ToSet
  <2>4. ASSUME NEW i \in 1 .. Len(q) PROVE q[i] \in ToSet(h.queue) \cup bs
    <3>1. CASE i <= n
      BY <3>1, <1>4, <1>7
    <3>2. CASE ~(i <= n)
      <4>1. i - n \in 1 .. m /\ q[i] = order[i - n]
        BY <3>2, <1>4
      <4>2. QED
        BY <4>1, <1>3
    <3>3. QED
      BY <3>1, <3>2
  <2>5. ToSet(q) \subseteq ToSet(h.queue) \cup bs
    BY <2>4, <1>4 DEF ToSet
  <2>6. QED
    BY <2>2, <2>3, <2>5
<1>10. Sound(k)
  <2>1. ASSUME NEW b \in Blocks PROVE b \in ToSet(q) <=> k.st[b] \in InQueue
    BY <1>5, <1>9 DEF Sound, Single, InQueue
  <2>2. QED
    BY <2>1, <1>5, <1>6, <1>8 DEF Sound, Single
<1>11. ASSUME NEW b, NEW c \in ToSet(h.queue), Before(q, b, c)
       PROVE  Before(h.queue, b, c)
  <2>1. PICK i, j \in 1 .. Len(q) : i < j /\ q[i] = b /\ q[j] = c
    BY <1>11, <1>4 DEF Before
  <2>2. j <= n
    <3>1. SUFFICES ASSUME ~(j <= n) PROVE FALSE
      OBVIOUS
    <3>2. j - n \in 1 .. m /\ q[j] = order[j - n]
      BY <3>1, <1>4
    <3>3. c \in bs
      BY <3>2, <2>1, <1>3
    <3>4. PICK l \in 1 .. n : h.queue[l] = c
      BY <1>1 DEF ToSet, n
    <3>5. QED
      BY <3>3, <3>4, <1>7
  <2>3. i \in 1 .. n /\ j \in 1 .. n /\ h.queue[i] = b /\ h.queue[j] = c
    BY <2>1, <2>2, <1>4
  <2>4. QED
    BY <2>1, <2>3, <1>1 DEF Before, n
<1>12. QED
  BY <1>5, <1>10, <1>11 DEF k

----------------------------------------------------------------------------
(* One operation, from GetInv. *)

Passes == \/ Reconnect
          \/ \A b \in sent', c \in ToSet(g.queue) \cap ToSet(g'.queue) : Before(g.queue, b, c)

Paces == Reconnect \/ (sent' # {} => Cardinality(InFlight(g')) <= g'.window)

LEMMA FromKept ==
  ASSUME GetInv, NEW h, h.queue = g.queue, NEW k, Kept(h, k), Goes(h, k),
         k.window \in WindowFloor .. MaxWindow, halved' \in BOOLEAN
  PROVE  GetInv' /\ Passes /\ Paces
<1>1. g' = k /\ sent' = InFlight(k) \ InFlight(h)
  BY DEF Goes
<1>2. sent' \in SUBSET Blocks
  BY <1>1 DEF InFlight
<1>3. Sound(g') /\ Filled(g') /\ Orderly(h, k, InFlight(k) \ InFlight(h))
  BY <1>1 DEF Kept
<1>4. TypeOK'
  BY <1>1, <1>2, <1>3 DEF TypeOK, Sound
<1>5. GetInv'
  BY <1>1, <1>3, <1>4 DEF GetInv, Sound, Single, Filled, Full, InFlight
<1>6. Passes /\ Paces
  BY <1>1, <1>3 DEF Orderly, Passes, Paces
<1>7. QED
  BY <1>5, <1>6

LEMMA FetchKeeps ==
  ASSUME GetInv, NEW b \in Blocks, Fetch(b)
  PROVE  GetInv' /\ Passes /\ Paces
<1>1. Kept(g, Send(g, b)) /\ Send(g, b).window = g.window
  BY SendKept DEF GetInv, Fetch
<1>2. QED
  BY <1>1, FromKept DEF GetInv, TypeOK, Fetch

LEMMA WithdrawKeeps ==
  ASSUME GetInv, NEW b \in Blocks, Withdraw(b)
  PROVE  GetInv' /\ Passes /\ Paces
<1>1. Kept(g, Drop(g, b)) /\ Drop(g, b).window = g.window
  BY DropKept DEF GetInv
<1>2. QED
  BY <1>1, FromKept DEF GetInv, TypeOK, Withdraw

LEMMA AnswerKeeps ==
  ASSUME GetInv, NEW b \in Blocks, NEW park \in BOOLEAN, Answer(b, park)
  PROVE  GetInv' /\ Passes /\ Paces
<1> DEFINE h == NodeAnswers(g, b)
<1>1. Sound(h) /\ Filled(h) /\ h.queue = g.queue /\ h.window = g.window
  BY NodeKept DEF GetInv, Answer
<1>2. halved' \in BOOLEAN /\ g.window \in WindowFloor .. MaxWindow
  BY DEF GetInv, TypeOK, Answer
<1> HIDE DEF h
<1>3. CASE TakesAnswer(g, b)
  <2>1. PICK n \in Opened : LET k == Answered(h, b, n) IN Goes(h, IF park THEN Park(k, b) ELSE k)
    BY <1>3 DEF Answer, h
  <2> DEFINE k == Answered(h, b, n)
  <2>2. n \in WindowFloor .. MaxWindow /\ n \in Nat \ {0}
    BY <1>2, WindowAssumption DEF Opened
  <2>3. Kept(h, k) /\ k.window \in WindowFloor .. MaxWindow /\ k.st[b] = "none"
    BY <1>1, <1>2, <2>2, AnsweredKept
  <2> HIDE DEF k
  <2>4. Kept(h, Park(k, b)) /\ Park(k, b).window = k.window
    BY <2>3, ParkKept
  <2>5. CASE park
    BY <1>1, <1>2, <2>1, <2>3, <2>4, <2>5, FromKept DEF k
  <2>6. CASE ~park
    BY <1>1, <1>2, <2>1, <2>3, <2>6, FromKept DEF k
  <2>7. QED
    BY <2>5, <2>6
<1>4. CASE ~TakesAnswer(g, b)
  <2>1. Goes(h, h)
    BY <1>4 DEF Answer, h
  <2>2. Kept(h, h)
    BY <1>1 DEF Kept, Orderly
  <2>3. QED
    BY <1>1, <1>2, <2>1, <2>2, FromKept
<1>5. QED
  BY <1>3, <1>4

LEMMA TickKeeps ==
  ASSUME GetInv, NEW lost \in SUBSET InFlight(g), NEW over \in SUBSET Parked,
         NEW due \in SUBSET (Parked \ over), Tick(lost, over, due)
  PROVE  GetInv' /\ Passes /\ Paces
<1> DEFINE e1(n) == [g EXCEPT !.st = [b \in Blocks |-> IF b \in over THEN "none" ELSE g.st[b]], !.window = n]
           w(halve) == IF halve THEN Half ELSE g.window
<1>1. PICK halve \in BOOLEAN, order \in Orders(lost \cup due) :
        LET h == Requeue(e1(w(halve)), order) IN halved' = (halved \/ halve) /\ Goes(h, Fill(h))
  BY DEF Tick
<1> DEFINE n == w(halve)
           e == e1(n)
           h == Requeue(e, order)
<1>2. n \in WindowFloor .. MaxWindow /\ n \in Nat \ {0}
  <2>1. g.window \in WindowFloor .. MaxWindow
    BY DEF GetInv, TypeOK
  <2>2. g.window \div 2 \in Nat /\ g.window \div 2 <= g.window
    BY <2>1, WindowAssumption
  <2>3. QED
    BY <2>1, <2>2, WindowAssumption DEF Half
<1> HIDE DEF n
<1>3. g \in Gets
  BY DEF GetInv, Sound
<1>4. /\ e.queue = g.queue /\ e.window = n
      /\ \A b \in Blocks : e.st[b] = IF b \in over THEN "none" ELSE g.st[b]
  BY <1>3 DEF Gets
<1>5. e \in Gets
  <2> DEFINE st == [b \in Blocks |-> IF b \in over THEN "none" ELSE g.st[b]]
  <2>1. st \in [Blocks -> GetStates]
    BY <1>3 DEF Gets, GetStates
  <2>2. e = [g EXCEPT !.st = st, !.window = n]
    OBVIOUS
  <2> HIDE DEF st
  <2>3. QED
    BY <1>2, <1>3, <2>1, <2>2 DEF Gets
<1> HIDE DEF e
<1>6. Sound(e)
  BY <1>4, <1>5 DEF GetInv, Sound, Single, InQueue, Parked
<1>7. lost \cup due \in SUBSET Blocks /\ \A b \in lost \cup due : e.st[b] \in {"wire", "parked"}
  BY <1>4 DEF InFlight, Parked
<1>8. /\ Sound(h) /\ h.window = n
      /\ \A b : \A c \in ToSet(g.queue) : Before(h.queue, b, c) => Before(g.queue, b, c)
  BY <1>4, <1>6, <1>7, RequeueOK
<1>9. halved' = (halved \/ halve) /\ g' = Fill(h) /\ sent' = InFlight(Fill(h)) \ InFlight(h)
  BY <1>1 DEF Goes, e, n
<1> HIDE DEF h
<1>10. /\ Sound(g') /\ Filled(g') /\ g'.window = n
       /\ InFlight(g') = InFlight(h) \cup Going(h)
       /\ Going(h) # {} => Cardinality(InFlight(g')) <= g'.window
       /\ \A b \in Going(h), c \in ToSet(g'.queue) : Before(h.queue, b, c)
  <2> DEFINE k == Fill(h)
  <2>1. /\ Sound(k) /\ Filled(k) /\ k.window = h.window
        /\ InFlight(k) = InFlight(h) \cup Going(h)
        /\ Going(h) # {} => Cardinality(InFlight(k)) <= k.window
        /\ \A b \in Going(h), c \in ToSet(k.queue) : Before(h.queue, b, c)
    BY <1>8, FillOK
  <2> HIDE DEF k
  <2>2. g' = k
    BY <1>9 DEF k
  <2>3. QED
    BY <2>1, <2>2, <1>8
<1>11. sent' \subseteq Going(h)
  BY <1>9, <1>10
<1>12. Passes /\ Paces
  BY <1>8, <1>10, <1>11 DEF Passes, Paces
<1>13. TypeOK'
  <2>1. halved' \in BOOLEAN
    BY <1>9 DEF GetInv, TypeOK
  <2>2. sent' \in SUBSET Blocks
    BY <1>9 DEF InFlight
  <2>3. QED
    BY <1>2, <1>10, <2>1, <2>2 DEF TypeOK, Sound
<1>14. QED
  BY <1>10, <1>12, <1>13 DEF GetInv, Sound, Single, Filled, Full, InFlight

LEMMA ReconnectKeeps ==
  ASSUME GetInv, Reconnect
  PROVE  GetInv' /\ Passes /\ Paces
<1>1. g \in Gets
  BY DEF GetInv, Sound
<1>2. g' \in Gets /\ g'.st = g.st /\ g'.queue = g.queue /\ g'.window = g.window
  <2> DEFINE a == [b \in Blocks |-> IF g.st[b] = "wire" THEN 1 ELSE 0]
  <2>1. a \in [Blocks -> 0 .. MaxAsked]
    <3>1. 1 \in 0 .. MaxAsked /\ 0 \in 0 .. MaxAsked
      BY TableAssumption
    <3>2. QED
      BY <3>1
  <2>2. g' = [g EXCEPT !.asked = a]
    BY DEF Reconnect
  <2> HIDE DEF a
  <2>3. QED
    BY <1>1, <2>1, <2>2 DEF Gets
<1>3. sent' \in SUBSET Blocks /\ halved' = halved
  BY DEF Reconnect, InFlight
<1>4. TypeOK'
  BY <1>2, <1>3 DEF GetInv, TypeOK
<1>5. QED
  BY <1>2, <1>4 DEF GetInv, Sound, Single, Filled, Full, InFlight, Passes, Paces

LEMMA NextKeeps ==
  ASSUME GetInv, Next
  PROVE  GetInv' /\ Passes /\ Paces
<1>1. CASE \E b \in Blocks : Fetch(b) \/ Withdraw(b) \/ Got(b) \/ Missed(b)
  BY <1>1, FetchKeeps, WithdrawKeeps, AnswerKeeps DEF Got, Missed
<1>2. CASE \E lost \in SUBSET InFlight(g), over \in SUBSET Parked :
             \E due \in SUBSET (Parked \ over) : Tick(lost, over, due)
  BY <1>2, TickKeeps
<1>3. CASE Reconnect
  BY <1>3, ReconnectKeeps
<1>4. QED
  BY <1>1, <1>2, <1>3 DEF Next

LEMMA InitGets == Init => GetInv
<1> SUFFICES ASSUME Init PROVE GetInv
  OBVIOUS
<1>1. g = NoGets(WindowInitial) /\ sent = {} /\ halved = FALSE
  BY DEF Init
<1>2. /\ g \in Gets /\ g.queue = <<>> /\ g.window = WindowInitial
      /\ \A b \in Blocks : g.st[b] = "none"
  BY <1>1, WindowAssumption, TableAssumption DEF NoGets, Gets, GetStates
<1>3. ToSet(g.queue) = {} /\ Len(g.queue) = 0
  BY <1>2 DEF ToSet
<1>4. QED
  <2>1. TypeOK
    <3>1. g.window \in WindowFloor .. MaxWindow
      BY <1>2, WindowAssumption
    <3>2. halved \in BOOLEAN /\ sent \in SUBSET Blocks
      BY <1>1
    <3>3. QED
      BY <1>2, <3>1, <3>2 DEF TypeOK
  <2>2. Sound(g)
    <3>1. \A i, j \in 1 .. Len(g.queue) : g.queue[i] = g.queue[j] => i = j
      BY <1>3
    <3>2. QED
      BY <1>2, <1>3, <3>1 DEF Sound, Single, InQueue
  <2>3. Filled(g)
    BY <1>2 DEF Filled
  <2>4. QED
    BY <2>1, <2>2, <2>3 DEF GetInv

LEMMA StutterKeeps == GetInv /\ UNCHANGED vars => GetInv'
BY DEF GetInv, TypeOK, Sound, Single, Filled, Full, InFlight, vars

LEMMA GetsHold == Spec => []GetInv
<1>1. GetInv /\ [Next]_vars => GetInv'
  BY NextKeeps, StutterKeeps
<1>2. QED
  BY <1>1, InitGets, PTL DEF Spec

(* The table, its window and its queue are of their types: the window stays *)
(* between its floor and its bound.                                         *)
THEOREM TypeCorrect == Spec => []TypeOK
<1>1. GetInv => TypeOK
  BY DEF GetInv
<1>2. QED
  BY <1>1, GetsHold, PTL

(* No GET waits for a place while one is free, whatever the window did.     *)
THEOREM MovesCorrect == Spec => []QueueMoves
<1>1. GetInv => QueueMoves
  BY DEF GetInv, Filled, QueueMoves
<1>2. QED
  BY <1>1, GetsHold, PTL

(* A GET that waits for a place is never passed by one behind it, nor by a  *)
(* new one or a re-send.                                                    *)
THEOREM OvertakingCorrect == Spec => NoOvertaking
<1>1. GetInv /\ [Next]_vars =>
        [Reconnect \/ \A b \in sent', c \in ToSet(g.queue) \cap ToSet(g'.queue) :
                        Before(g.queue, b, c)]_vars
  BY NextKeeps DEF Passes
<1>2. QED
  BY <1>1, GetsHold, PTL DEF Spec, NoOvertaking

(* What goes out finds a place within the window.                           *)
THEOREM PacedCorrect == Spec => PacedByWindow
<1>1. GetInv /\ [Next]_vars =>
        [Reconnect \/ (sent' # {} => Cardinality(InFlight(g')) <= g'.window)]_vars
  BY NextKeeps DEF Paces
<1>2. QED
  BY <1>1, GetsHold, PTL DEF Spec, PacedByWindow
=============================================================================
