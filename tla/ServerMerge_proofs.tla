------------------------- MODULE ServerMerge_proofs -------------------------
(***************************************************************************)
(* The page and its Server, displaced by another device: types, that a     *)
(* merge never writes blindly over what the winner changed, that the       *)
(* page's own writes are published in the order they were made, and that   *)
(* the first displacement loses no published value untold, for any keys,   *)
(* values and writes; the first two for any number of displacements, the   *)
(* others until the other device's second head.                            *)
(***************************************************************************)
EXTENDS ServerMerge, FiniteSetTheorems, WellFoundedInduction, NaturalsInduction, TLAPS

(* The types. *)
HeadSet  == [seq : Nat \cup {-1}, tree : Trees]
EntrySet ==
  {e \in [n : Nat, round : Nat, index : Nat, sets : Edits, reads : Premise,
           warm : BOOLEAN, tries : 0..MaxTries] : DOMAIN e.sets \subseteq DOMAIN e.reads}
KeptSet  ==
  {w \in [n : Nat, sets : Edits, reads : Premise] : DOMAIN w.sets \subseteq DOMAIN w.reads}
TipSet   == [head : HeadSet, base : HeadSet, writes : Seq(KeptSet)]
MergeSet ==
  [phase : {"none", "delta", "sent"}, winner : HeadSet, from : HeadSet, writes : Seq(KeptSet),
   next : Nat, tree : Trees, theirs : [Keys -> Held \cup {AnyValue}],
   dropped : SUBSET (Nat \X Keys), sent : SUBSET Nat, landed : SUBSET Nat, fell : SUBSET Nat,
   at : HeadSet]
ProbeSet ==
  [writes : Seq(KeptSet), tree : Trees, pending : SUBSET Keys, superseded : SUBSET Keys]
StateSet ==
  [pub : HeadSet, prev : HeadSet, line : Seq(HeadSet), beaten : SUBSET HeadSet,
   queue : Seq(EntrySet), made : 0..Len(Writes), commit : [n : Nat, head : HeadSet],
   cut : SUBSET (Nat \X Nat), held : BOOLEAN, seen : HeadSet, tip : TipSet, merge : MergeSet,
   probe : ProbeSet, rounds : Nat, foreign : Nat, own : Nat \ {0}]

(* The queue. *)
OneId(q)     == \A i, j \in DOMAIN q : Id(q[i]) = Id(q[j]) => i = j
WarmFirst(q) == \A i, j \in DOMAIN q : i < j /\ q[j].warm => q[i].warm
Replays(tree, q) ==
  \A i \in DOMAIN q : q[i].warm => Holds(PutAll(tree, SubSeq(q, 1, i - 1)), q[i])

QueueOK(t) ==
  /\ WarmFirst(t.queue) /\ Replays(t.pub.tree, t.queue) /\ OneId(t.queue)
  /\ \A i \in DOMAIN t.queue : t.queue[i].round = 0 => t.queue[i].n <= t.made

(* The commit in flight is the front of the queue. *)
CommitOK(t) ==
  /\ t.commit.n <= Len(t.queue) /\ t.commit.n <= MaxCommit
  /\ t.commit.n = 0 => t.commit = NoCommit
  /\ t.commit.n > 0 =>
       /\ ~t.held
       /\ t.queue[t.commit.n].warm
       /\ t.commit.head = [seq |-> t.pub.seq + 1,
                           tree |-> PutAll(t.pub.tree, SubSeq(t.queue, 1, t.commit.n))]

LineOK(t) ==
  /\ t.pub.seq > 0 /\ t.line # <<>> /\ t.line[Len(t.line)] = t.pub

(* The writes of a merge that are queued: in front of every other, each    *)
(* one still to be judged, and without a key it would write blindly over   *)
(* the winner.                                                             *)
MergesFirst(q) == \A i, j \in DOMAIN q : i < j /\ q[j].round > 0 => q[i].round > 0
OneIndex(q) ==
  \A i, j \in DOMAIN q : q[i].round > 0 /\ q[j].round > 0 /\ q[i].index = q[j].index => i = j
Remerged(t, e) ==
  /\ t.merge.phase = "sent" /\ t.tip = NoTip
  /\ e.round = t.rounds /\ e.index \in t.merge.sent \ (t.merge.landed \cup t.merge.fell)
  /\ e.sets # <<>> /\ \A k \in DOMAIN e.sets : Forced(e, k) => t.merge.theirs[k] = AnyValue
EntriesOK(t) ==
  /\ MergesFirst(t.queue) /\ OneIndex(t.queue)
  /\ \A i \in DOMAIN t.queue : t.queue[i].round > 0 => Remerged(t, t.queue[i])

(* What a merge knows of the winner, while the winner is published. *)
Spared(t, k) == t.merge.theirs[k] = AnyValue => t.pub.tree[k] = t.merge.from.tree[k]
WinnerOK(t) ==
  /\ t.merge.phase # "none" =>
       /\ t.merge.winner \in ToSet(t.line) \cup t.beaten /\ t.merge.winner.seq <= t.pub.seq
       /\ t.rounds > 0
  /\ t.merge.phase = "delta" =>
       /\ t.tip = NoTip /\ t.merge.fell = {}
       /\ t.pub = t.merge.winner =>
            t.merge.tree = t.pub.tree /\ \A k \in 1..(t.merge.next - 1) : k \in Keys => Spared(t, k)
  /\ t.merge.phase = "sent" /\ t.pub = t.merge.winner => \A k \in Keys : Spared(t, k)

(* Writes judged are the client's own, each once, and left the queue. *)
OwnWrites(t, ws) ==
  /\ \A i, j \in DOMAIN ws : ws[i].n = ws[j].n => i = j
  /\ \A i \in DOMAIN ws :
       /\ ws[i].n <= t.made
       /\ \A j \in DOMAIN t.queue : t.queue[j].round = 0 => t.queue[j].n # ws[i].n
JudgedOK(t) ==
  /\ OwnWrites(t, t.tip.writes) /\ OwnWrites(t, t.merge.writes)
  /\ t.tip.head.seq <= t.pub.seq /\ t.merge.at.seq <= t.pub.seq

HoldOK(t) == (t.held <=> t.merge.phase = "delta") /\ t.seen = t.pub

(* Between the calls, and within one before it settles. *)
Ready(t) ==
  /\ t \in StateSet
  /\ LineOK(t) /\ QueueOK(t) /\ CommitOK(t)
  /\ EntriesOK(t) /\ WinnerOK(t) /\ JudgedOK(t)
  /\ t.merge.phase = "delta" => t.held
MergeInv == Ready(s) /\ HoldOK(s)

----------------------------------------------------------------------------
(* Numbers: the least and the greatest. *)

LEMMA LeastOf ==
  ASSUME NEW T \in SUBSET Nat, T # {}
  PROVE  \E x \in T : \A y \in T : x <= y
<1>1. PICK x \in T : \A y \in T : ~(<<y, x>> \in OpToRel(<, Nat))
  BY NatLessThanWellFounded, WFMin, Zenon
<1>2. \A y \in T : x <= y
  <2> SUFFICES ASSUME NEW y \in T
               PROVE  ~(y < x)
    OBVIOUS
  <2> DEFINE yx == <<y, x>>
  <2>1. SUFFICES ASSUME y < x
                 PROVE  yx \in OpToRel(<, Nat)
    BY <1>1 DEF yx
  <2>2. yx \in Nat \X Nat /\ yx[1] < yx[2]
    BY <2>1
  <2> HIDE DEF yx
  <2>3. QED
    BY <2>2, Zenon DEF OpToRel
<1>3. QED
  BY <1>2

LEMMA GreatestOf ==
  ASSUME NEW n \in Nat, NEW T \in SUBSET (1..n), T # {}
  PROVE  \E x \in T : \A y \in T : y <= x
<1> DEFINE U == {m \in Nat : n - m \in T}
<1>1. PICK x \in T : TRUE
  OBVIOUS
<1>2. n - x \in U
  OBVIOUS
<1>3. PICK m \in U : \A k \in U : m <= k
  BY <1>2, LeastOf
<1>4. \A y \in T : n - y \in U
  OBVIOUS
<1>5. \A y \in T : y <= n - m
  BY <1>3, <1>4
<1>6. QED
  BY <1>3, <1>5

----------------------------------------------------------------------------
(* A part of a sequence, in order. *)

LEMMA CountTo ==
  ASSUME NEW n \in Nat, NEW K \in SUBSET (1..n)
  PROVE  /\ IsFiniteSet(K) /\ Cardinality(K) \in Nat
         /\ \A i \in Nat : IsFiniteSet(K \cap (1..i)) /\ Cardinality(K \cap (1..i)) \in Nat
         /\ Cardinality(K \cap (1..0)) = 0 /\ Cardinality(K \cap (1..n)) = Cardinality(K)
         /\ \A i \in Nat \ {0} : Cardinality(K \cap (1..i)) =
              Cardinality(K \cap (1..(i - 1))) + (IF i \in K THEN 1 ELSE 0)
<1>a. IsFiniteSet(1..n)
  BY FS_Interval
<1>1. IsFiniteSet(K)
  BY <1>a, FS_Subset
<1>2. \A i \in Nat : IsFiniteSet(K \cap (1..i))
  BY <1>1, FS_Subset
<1>3. Cardinality(K \cap (1..0)) = 0
  BY FS_EmptySet
<1>4. K \cap (1..n) = K
  OBVIOUS
<1>5. ASSUME NEW i \in Nat \ {0}
      PROVE  Cardinality(K \cap (1..i)) =
               Cardinality(K \cap (1..(i - 1))) + (IF i \in K THEN 1 ELSE 0)
  <2>1. i - 1 \in Nat /\ IsFiniteSet(K \cap (1..(i - 1)))
    BY <1>2
  <2>2. CASE i \in K
    <3>1. K \cap (1..i) = (K \cap (1..(i - 1))) \cup {i}
      BY <2>2
    <3>2. i \notin K \cap (1..(i - 1))
      OBVIOUS
    <3>3. QED
      BY <2>1, <2>2, <3>1, <3>2, FS_AddElement
  <2>3. CASE i \notin K
    <3>1. K \cap (1..i) = K \cap (1..(i - 1))
      BY <2>3
    <3>2. Cardinality(K \cap (1..(i - 1))) \in Nat
      BY <2>1, FS_CardinalityType
    <3>3. QED
      BY <2>3, <3>1, <3>2
  <2>4. QED
    BY <2>2, <2>3
<1>6. QED
  BY <1>1, <1>2, <1>3, <1>4, <1>5, FS_CardinalityType

(* The count never falls, and grows at every place of K. *)
LEMMA CountGrows ==
  ASSUME NEW n \in Nat, NEW K \in SUBSET (1..n), NEW i \in Nat, NEW j \in Nat, i <= j
  PROVE  /\ Cardinality(K \cap (1..i)) <= Cardinality(K \cap (1..j))
         /\ i < j /\ j \in K => Cardinality(K \cap (1..i)) < Cardinality(K \cap (1..j))
<1>a. \A m \in Nat : IsFiniteSet(K \cap (1..m)) /\ Cardinality(K \cap (1..m)) \in Nat
  BY CountTo
<1>b. K \cap (1..i) \subseteq K \cap (1..j)
  OBVIOUS
<1>1. /\ IsFiniteSet(K \cap (1..j)) /\ K \cap (1..i) \subseteq K \cap (1..j)
      /\ Cardinality(K \cap (1..i)) \in Nat /\ Cardinality(K \cap (1..j)) \in Nat
  BY <1>a, <1>b
<1>2. Cardinality(K \cap (1..i)) <= Cardinality(K \cap (1..j))
  BY <1>1, FS_Subset
<1>3. ASSUME i < j, j \in K
      PROVE  Cardinality(K \cap (1..i)) # Cardinality(K \cap (1..j))
  <2>1. j \in K \cap (1..j) /\ j \notin K \cap (1..i)
    BY <1>3
  <2>2. QED
    BY <1>1, <2>1, FS_Subset
<1>4. QED
  BY <1>1, <1>2, <1>3

(* Every count up to that of K is reached at a place of K. *)
LEMMA CountReached ==
  ASSUME NEW n \in Nat, NEW K \in SUBSET (1..n), NEW j \in 1..Cardinality(K)
  PROVE  \E k \in K : Cardinality(K \cap (1..k)) = j
<1> DEFINE c(i) == Cardinality(K \cap (1..i))
           T    == {i \in Nat : c(i) >= j}
<1>a. /\ c(0) = 0 /\ c(n) = Cardinality(K) /\ Cardinality(K) \in Nat
      /\ \A i \in Nat : c(i) \in Nat
      /\ \A i \in Nat \ {0} : c(i) = c(i - 1) + (IF i \in K THEN 1 ELSE 0)
  BY CountTo
<1> HIDE DEF c
<1>1. n \in T
  BY <1>a
<1>2. PICK k \in T : \A i \in T : k <= i
  BY <1>1, LeastOf
<1>3. k # 0
  BY <1>2, <1>a
<1>4. k - 1 \in Nat /\ k - 1 \notin T
  BY <1>2, <1>3
<1>5. c(k - 1) < j /\ c(k) >= j /\ c(k) \in Nat /\ c(k - 1) \in Nat
  BY <1>2, <1>4, <1>a
<1>6. c(k) = c(k - 1) + (IF k \in K THEN 1 ELSE 0)
  BY <1>2, <1>3, <1>a
<1>7. k \in K /\ c(k) = j
  BY <1>5, <1>6
<1>8. QED
  BY <1>7 DEF c

(* The elements at the places K: an increasing walk of K. *)
Walks(e, K) ==
  /\ e \in [1..Cardinality(K) -> K]
  /\ \A i, j \in 1..Cardinality(K) : i < j => e[i] < e[j]
  /\ \A k \in K : \E j \in 1..Cardinality(K) : e[j] = k

LEMMA OnlyIs ==
  ASSUME NEW S, NEW q \in Seq(S), NEW K \in SUBSET DOMAIN q
  PROVE  /\ Only(q, K) \in Seq(S) /\ Len(Only(q, K)) = Cardinality(K) /\ Cardinality(K) \in Nat
         /\ DOMAIN Only(q, K) = 1..Cardinality(K)
         /\ \E e : Walks(e, K) /\ \A j \in 1..Cardinality(K) : Only(q, K)[j] = q[e[j]]
<1> DEFINE n    == Len(q)
           c(i) == Cardinality(K \cap (1..i))
           e    == [j \in 1..Cardinality(K) |-> CHOOSE i \in K : c(i) = j]
<1>0. n \in Nat /\ K \in SUBSET (1..n)
  OBVIOUS
<1>1. n \in Nat /\ K \in SUBSET (1..n) /\ Cardinality(K) \in Nat
  BY <1>0, CountTo
<1>a. \A i \in Nat : c(i) \in Nat
  BY <1>1, CountTo
<1>b. c(0) = 0 /\ c(n) = Cardinality(K)
  BY <1>1, CountTo
<1>c. \A i, j \in Nat : i <= j => c(i) <= c(j) /\ (i < j /\ j \in K => c(i) < c(j))
  <2> SUFFICES ASSUME NEW i \in Nat, NEW j \in Nat, i <= j
               PROVE  c(i) <= c(j) /\ (i < j /\ j \in K => c(i) < c(j))
    OBVIOUS
  <2>1. QED
    BY <1>1, CountGrows
<1>d. \A j \in 1..Cardinality(K) : \E i \in K : c(i) = j
  BY <1>1, CountReached
<1>e. \A j \in 1..Cardinality(K) : Only(q, K)[j] = q[e[j]]
  BY DEF Only
<1>f. Only(q, K) = [j \in 1..Cardinality(K) |-> q[e[j]]]
  BY DEF Only
<1> HIDE DEF c
<1>2. \A j \in 1..Cardinality(K) : e[j] \in K /\ c(e[j]) = j
  BY <1>d
<1>g. e \in [1..Cardinality(K) -> K]
  BY <1>d
<1> HIDE DEF e
<1>3. ASSUME NEW i \in 1..Cardinality(K), NEW j \in 1..Cardinality(K), i < j
      PROVE  e[i] < e[j]
  <2>1. e[i] \in Nat /\ e[j] \in Nat /\ c(e[i]) = i /\ c(e[j]) = j
    BY <1>1, <1>2
  <2>2. QED
    BY <1>1, <1>3, <1>c, <2>1
<1>4. ASSUME NEW k \in K
      PROVE  \E j \in 1..Cardinality(K) : e[j] = k
  <2>1. k \in Nat /\ k <= n /\ k > 0
    BY <1>1
  <2>2. c(k) \in Nat /\ c(k) > 0 /\ c(k) <= Cardinality(K)
    BY <1>1, <1>a, <1>b, <1>c, <2>1
  <2>3. c(k) \in 1..Cardinality(K)
    BY <1>1, <2>2
  <2>4. e[c(k)] \in K /\ c(e[c(k)]) = c(k) /\ e[c(k)] \in Nat
    BY <1>1, <1>2, <2>3
  <2>5. ~ (e[c(k)] < k) /\ ~ (k < e[c(k)])
    BY <1>c, <2>1, <2>2, <2>4
  <2>6. e[c(k)] = k
    BY <2>1, <2>4, <2>5
  <2>7. QED
    BY <2>3, <2>6
<1>5. Walks(e, K)
  BY <1>3, <1>4, <1>g DEF Walks
<1>6. \A j \in 1..Cardinality(K) : q[e[j]] \in S
  BY <1>1, <1>2
<1>7. Only(q, K) \in [1..Cardinality(K) -> S]
  BY <1>6, <1>f
<1>8. Only(q, K) \in Seq(S) /\ Len(Only(q, K)) = Cardinality(K)
  BY <1>1, <1>7
<1>9. QED
  BY <1>1, <1>5, <1>7, <1>8, <1>e

(* A front and a back of a sequence. *)
LEMMA OnlyRun ==
  ASSUME NEW S, NEW q \in Seq(S), NEW m \in Nat, NEW r \in Nat, m <= r, r <= Len(q)
  PROVE  Only(q, (m + 1)..r) = SubSeq(q, m + 1, r)
<1> DEFINE K    == (m + 1)..r
           c(i) == Cardinality(K \cap (1..i))
<1>1. Cardinality(K) = r - m
  <2>1. m + 1 \in Int /\ r \in Int
    OBVIOUS
  <2>2. Cardinality(K) = IF m + 1 > r THEN 0 ELSE r - (m + 1) + 1
    BY <2>1, FS_Interval
  <2>3. QED
    BY <2>2
<1>2. ASSUME NEW i \in K
      PROVE  c(i) = i - m
  <2>1. K \cap (1..i) = (m + 1)..i
    OBVIOUS
  <2>2. m + 1 \in Int /\ i \in Int /\ m + 1 <= i
    OBVIOUS
  <2>3. c(i) = IF m + 1 > i THEN 0 ELSE i - (m + 1) + 1
    BY <2>1, <2>2, FS_Interval
  <2>4. QED
    BY <2>2, <2>3
<1>3. ASSUME NEW j \in 1..(r - m)
      PROVE  (CHOOSE i \in K : c(i) = j) = j + m
  <2>1. j + m \in K
    OBVIOUS
  <2> HIDE DEF c
  <2>2. c(j + m) = j
    BY <1>2, <2>1
  <2>3. \A i \in K : c(i) = j => i = j + m
    BY <1>2
  <2>4. QED
    BY <2>1, <2>2, <2>3
<1>4. Only(q, K) = [j \in 1..(r - m) |-> q[CHOOSE i \in K : c(i) = j]]
  BY <1>1 DEF Only
<1> HIDE DEF c
<1>5. \A j \in 1..(r - m) : Only(q, K)[j] = q[j + m]
  BY <1>3, <1>4
<1>6. Only(q, K) = [j \in 1..(r - m) |-> q[j + m]]
  BY <1>4, <1>5
<1>7. SubSeq(q, m + 1, r) = [j \in 1..(r - m) |-> q[j + m]]
  <2>1. Len(SubSeq(q, m + 1, r)) = r - m
    OBVIOUS
  <2>2. DOMAIN SubSeq(q, m + 1, r) = 1..(r - m)
    OBVIOUS
  <2>3. \A j \in 1..(r - m) : SubSeq(q, m + 1, r)[j] = q[j + m]
    OBVIOUS
  <2>4. QED
    BY <2>2, <2>3
<1>8. QED
  BY <1>6, <1>7

----------------------------------------------------------------------------
(* What a run of writes leaves. *)

LEMMA LastIs ==
  ASSUME NEW ws, NEW n \in Nat, DOMAIN ws = 1..n, NEW k \in Written(ws)
  PROVE  /\ LastWriter(ws, k) \in 1..n /\ k \in DOMAIN ws[LastWriter(ws, k)].sets
         /\ \A j \in 1..n : k \in DOMAIN ws[j].sets => j <= LastWriter(ws, k)
<1> DEFINE T == {i \in 1..n : k \in DOMAIN ws[i].sets}
<1>1. T \in SUBSET (1..n) /\ T # {}
  BY DEF Written
<1>2. PICK x \in T : \A y \in T : y <= x
  BY <1>1, GreatestOf
<1>3. \E i \in DOMAIN ws : k \in DOMAIN ws[i].sets /\ \A j \in DOMAIN ws : k \in DOMAIN ws[j].sets => j <= i
  BY <1>2
<1>4. LastWriter(ws, k) \in DOMAIN ws /\ k \in DOMAIN ws[LastWriter(ws, k)].sets
        /\ \A j \in DOMAIN ws : k \in DOMAIN ws[j].sets => j <= LastWriter(ws, k)
  BY <1>3, Zenon DEF LastWriter
<1>5. QED
  BY <1>4

(* The last of them to write k, however it is named. *)
LEMMA LastOnly ==
  ASSUME NEW ws, NEW n \in Nat, DOMAIN ws = 1..n, NEW k, NEW i \in 1..n,
         k \in DOMAIN ws[i].sets, \A j \in 1..n : k \in DOMAIN ws[j].sets => j <= i
  PROVE  k \in Written(ws) /\ LastWriter(ws, k) = i /\ LeftAt(ws, k) = ws[i].sets[k]
<1>1. k \in Written(ws)
  BY DEF Written
<1>a. /\ LastWriter(ws, k) \in 1..n /\ k \in DOMAIN ws[LastWriter(ws, k)].sets
      /\ \A j \in 1..n : k \in DOMAIN ws[j].sets => j <= LastWriter(ws, k)
  BY <1>1, LastIs
<1> DEFINE l == LastWriter(ws, k)
<1> HIDE DEF l
<1>2. l = i
  BY <1>a DEF l
<1>3. QED
  BY <1>1, <1>2 DEF LeftAt, l

LEMMA WrittenIs ==
  ASSUME NEW ws, NEW k
  PROVE  k \in Written(ws) <=> \E i \in DOMAIN ws : k \in DOMAIN ws[i].sets
BY DEF Written

(* What they leave is decided by what each sets. *)
LEMMA SameSets ==
  ASSUME NEW tree, NEW ws, NEW vs, NEW n \in Nat, DOMAIN ws = 1..n, DOMAIN vs = 1..n,
         \A i \in 1..n : ws[i].sets = vs[i].sets
  PROVE  PutAll(tree, ws) = PutAll(tree, vs)
<1>1. \A k : k \in Written(ws) <=> k \in Written(vs)
  BY WrittenIs
<1>2. ASSUME NEW k \in Written(ws)
      PROVE  LeftAt(ws, k) = LeftAt(vs, k)
  <2>1. /\ LastWriter(ws, k) \in 1..n /\ k \in DOMAIN ws[LastWriter(ws, k)].sets
        /\ \A j \in 1..n : k \in DOMAIN ws[j].sets => j <= LastWriter(ws, k)
    BY LastIs
  <2>2. LeftAt(vs, k) = vs[LastWriter(ws, k)].sets[k]
    BY <2>1, LastOnly
  <2>3. QED
    BY <2>1, <2>2 DEF LeftAt
<1>3. \A k \in Keys : (IF k \in Written(ws) THEN LeftAt(ws, k) ELSE tree[k])
                    = (IF k \in Written(vs) THEN LeftAt(vs, k) ELSE tree[k])
  BY <1>1, <1>2
<1>4. QED
  BY <1>3 DEF PutAll

(* Some of them and then the others. *)
Parted(ws, a, b, n, m) ==
  /\ n \in Nat /\ m \in 0..n
  /\ DOMAIN ws = 1..n /\ DOMAIN a = 1..m /\ DOMAIN b = 1..(n - m)
  /\ \A i \in 1..m : a[i].sets = ws[i].sets
  /\ \A i \in 1..(n - m) : b[i].sets = ws[i + m].sets

LEMMA PutsJoin ==
  ASSUME NEW tree, NEW ws, NEW a, NEW b, NEW n, NEW m, Parted(ws, a, b, n, m)
  PROVE  PutAll(PutAll(tree, a), b) = PutAll(tree, ws)
<1>0. /\ n \in Nat /\ m \in 0..n
      /\ DOMAIN ws = 1..n /\ DOMAIN a = 1..m /\ DOMAIN b = 1..(n - m)
      /\ \A i \in 1..m : a[i].sets = ws[i].sets
      /\ \A i \in 1..(n - m) : b[i].sets = ws[i + m].sets
  BY DEF Parted
<1>1. SUFFICES ASSUME NEW k \in Keys
               PROVE  PutAll(PutAll(tree, a), b)[k] = PutAll(tree, ws)[k]
  BY DEF PutAll
<1>2. CASE k \in Written(b)
  <2> DEFINE l == LastWriter(b, k)
  <2>1. l \in 1..(n - m) /\ k \in DOMAIN b[l].sets /\ \A j \in 1..(n - m) : k \in DOMAIN b[j].sets => j <= l
    BY <1>0, <1>2, LastIs
  <2> HIDE DEF l
  <2>2. l + m \in 1..n /\ k \in DOMAIN ws[l + m].sets /\ ws[l + m].sets[k] = b[l].sets[k]
    BY <1>0, <2>1
  <2>3. ASSUME NEW j \in 1..n, k \in DOMAIN ws[j].sets
        PROVE  j <= l + m
    <3>1. CASE j <= m
      BY <1>0, <3>1, <2>1
    <3>2. CASE j > m
      <4>1. j - m \in 1..(n - m) /\ (j - m) + m = j
        BY <1>0, <3>2
      <4>2. k \in DOMAIN b[j - m].sets
        BY <1>0, <2>3, <4>1
      <4>3. QED
        BY <1>0, <2>1, <4>1, <4>2
    <3>3. QED
      BY <1>0, <3>1, <3>2
  <2>4. k \in Written(ws) /\ LeftAt(ws, k) = ws[l + m].sets[k]
    BY <1>0, <2>2, <2>3, LastOnly
  <2>5. LeftAt(b, k) = b[l].sets[k]
    BY DEF LeftAt, l
  <2>6. QED
    BY <1>0, <1>2, <2>2, <2>4, <2>5 DEF PutAll
<1>3. CASE k \notin Written(b) /\ k \in Written(a)
  <2> DEFINE l == LastWriter(a, k)
  <2>1. l \in 1..m /\ k \in DOMAIN a[l].sets /\ \A j \in 1..m : k \in DOMAIN a[j].sets => j <= l
    BY <1>0, <1>3, LastIs
  <2> HIDE DEF l
  <2>2. l \in 1..n /\ k \in DOMAIN ws[l].sets /\ ws[l].sets[k] = a[l].sets[k]
    BY <1>0, <2>1
  <2>3. ASSUME NEW j \in 1..n, k \in DOMAIN ws[j].sets
        PROVE  j <= l
    <3>1. CASE j <= m
      BY <1>0, <2>1, <2>3, <3>1
    <3>2. CASE j > m
      <4>1. j - m \in 1..(n - m) /\ (j - m) + m = j
        BY <1>0, <3>2
      <4>2. k \in DOMAIN b[j - m].sets
        BY <1>0, <2>3, <4>1
      <4>3. QED
        BY <1>0, <1>3, <4>1, <4>2, WrittenIs
    <3>3. QED
      BY <1>0, <3>1, <3>2
  <2>4. k \in Written(ws) /\ LeftAt(ws, k) = ws[l].sets[k]
    <3>1. DOMAIN ws = 1..n /\ l \in 1..n /\ k \in DOMAIN ws[l].sets
      BY <1>0, <2>2
    <3>2. QED
      BY <1>0, <2>3, <3>1, LastOnly
  <2>5. LeftAt(a, k) = a[l].sets[k]
    BY DEF LeftAt, l
  <2>6. QED
    BY <1>0, <1>3, <2>2, <2>4, <2>5 DEF PutAll
<1>4. CASE k \notin Written(b) /\ k \notin Written(a)
  <2>1. ASSUME NEW j \in 1..n, k \in DOMAIN ws[j].sets
        PROVE  FALSE
    <3>1. CASE j <= m
      BY <1>0, <1>4, <2>1, <3>1, WrittenIs
    <3>2. CASE j > m
      <4>1. j - m \in 1..(n - m) /\ (j - m) + m = j
        BY <1>0, <3>2
      <4>2. k \in DOMAIN b[j - m].sets
        BY <1>0, <2>1, <4>1
      <4>3. QED
        BY <1>0, <1>4, <4>1, <4>2, WrittenIs
    <3>3. QED
      BY <1>0, <3>1, <3>2
  <2>2. k \notin Written(ws)
    BY <1>0, <2>1, WrittenIs
  <2>3. QED
    BY <1>0, <1>4, <2>2 DEF PutAll
<1>5. QED
  BY <1>0, <1>2, <1>3, <1>4

----------------------------------------------------------------------------
(* The cut judged again, write by write. *)

JudgeStart(t) ==
  [taken |-> <<>>, dropped |-> <<>>, tree |-> t.pub.tree, noop |-> TRUE, full |-> FALSE]
Judges(t, q, m, g) ==
  g = [i \in 0..m |-> IF i = 0 THEN JudgeStart(t) ELSE Judge(g[i - 1], q[i])]

LEMMA JudgesExist ==
  ASSUME NEW t, NEW q, NEW n \in Nat
  PROVE  \E g : Judges(t, q, n, g)
<1> DEFINE T == {m \in Nat : ~ \E g : Judges(t, q, m, g)}
<1>1. SUFFICES ASSUME T # {} PROVE FALSE
  OBVIOUS
<1>2. PICK m \in T : \A k \in T : m <= k
  BY <1>1, LeastOf
<1>3. m # 0
  <2> DEFINE g == [i \in 0..0 |-> JudgeStart(t)]
  <2>1. Judges(t, q, 0, g)
    BY DEF Judges
  <2>2. QED
    BY <1>2, <2>1
<1>4. m - 1 \in Nat /\ m - 1 \notin T
  BY <1>2, <1>3
<1>5. PICK g : Judges(t, q, m - 1, g)
  BY <1>4
<1> DEFINE h == [i \in 0..m |-> IF i = m THEN Judge(g[m - 1], q[m]) ELSE g[i]]
<1>6. \A i \in 0..m : h[i] = IF i = 0 THEN JudgeStart(t) ELSE Judge(h[i - 1], q[i])
  <2> SUFFICES ASSUME NEW i \in 0..m
               PROVE  h[i] = IF i = 0 THEN JudgeStart(t) ELSE Judge(h[i - 1], q[i])
    OBVIOUS
  <2>1. \A j \in 0..(m - 1) : g[j] = IF j = 0 THEN JudgeStart(t) ELSE Judge(g[j - 1], q[j])
    BY <1>5 DEF Judges
  <2>2. CASE i = m
    <3>1. h[m - 1] = g[m - 1]
      BY <1>3, <1>4
    <3>2. QED
      BY <1>3, <2>2, <3>1
  <2>3. CASE i # m
    <3>1. h[i] = g[i] /\ i \in 0..(m - 1)
      BY <2>3
    <3>2. CASE i = 0
      BY <2>1, <3>1, <3>2
    <3>3. CASE i # 0
      <4>1. h[i - 1] = g[i - 1]
        BY <2>3, <3>3
      <4>2. QED
        BY <2>1, <3>1, <3>3, <4>1
    <3>4. QED
      BY <3>2, <3>3
  <2>4. QED
    BY <2>2, <2>3
<1>7. DOMAIN h = 0..m /\ h = [i \in 0..m |-> h[i]]
  OBVIOUS
<1> HIDE DEF h
<1>8. Judges(t, q, m, h)
  BY <1>6, <1>7 DEF Judges
<1>9. QED
  BY <1>2, <1>8

LEMMA JudgedIs ==
  ASSUME NEW t, NEW q, Len(q) \in Nat
  PROVE  \E g : Judges(t, q, Len(q), g) /\ Judged(t, q) = g[Len(q)]
<1> DEFINE f == CHOOSE g : Judges(t, q, Len(q), g)
<1>1. Judges(t, q, Len(q), f)
  BY JudgesExist
<1>2. Judged(t, q) = f[Len(q)]
  BY DEF Judged, Judges, JudgeStart
<1>3. QED
  BY <1>1, <1>2

LEMMA PutOne ==
  ASSUME NEW tree, NEW e
  PROVE  PutAll(tree, <<e>>) = Put(tree, e.sets)
<1> DEFINE ws == <<e>>
<1>1. DOMAIN ws = 1..1 /\ ws[1] = e
  OBVIOUS
<1> HIDE DEF ws
<1>2. \A k : k \in Written(ws) <=> k \in DOMAIN e.sets
  BY <1>1, WrittenIs
<1>3. ASSUME NEW k \in DOMAIN e.sets
      PROVE  LeftAt(ws, k) = e.sets[k]
  <2>1. PICK n \in Nat : n = 1
    OBVIOUS
  <2>2. DOMAIN ws = 1..n /\ n \in 1..n /\ k \in DOMAIN ws[n].sets /\ \A j \in 1..n : j <= n
    BY <1>1, <2>1
  <2>3. LeftAt(ws, k) = ws[n].sets[k]
    BY <2>2, LastOnly
  <2>4. QED
    BY <1>1, <2>1, <2>3
<1>4. \A k \in Keys : (IF k \in Written(ws) THEN LeftAt(ws, k) ELSE tree[k])
                    = (IF k \in DOMAIN e.sets THEN e.sets[k] ELSE tree[k])
  BY <1>2, <1>3
<1>5. PutAll(tree, ws) = Put(tree, e.sets)
  BY <1>4 DEF PutAll, Put
<1>6. QED
  BY <1>5 DEF ws

(* The last of them is put upon what the others leave. *)
LEMMA PutLast ==
  ASSUME NEW tree, NEW ws, NEW n \in Nat \ {0}, DOMAIN ws = 1..n,
         NEW a, DOMAIN a = 1..(n - 1), \A i \in 1..(n - 1) : a[i].sets = ws[i].sets
  PROVE  PutAll(tree, ws) = Put(PutAll(tree, a), ws[n].sets)
<1> DEFINE b == <<ws[n]>>
<1>1. DOMAIN b = 1..1 /\ b[1] = ws[n]
  OBVIOUS
<1>2. PICK m \in 0..n : m = n - 1
  OBVIOUS
<1> HIDE DEF b
<1>3. n - m = 1 /\ n \in Nat
  BY <1>2
<1>4. DOMAIN b = 1..(n - m) /\ \A i \in 1..(n - m) : b[i].sets = ws[i + m].sets
  <2>1. \A i \in 1..(n - m) : i = 1 /\ i + m = n
    BY <1>2, <1>3
  <2>2. QED
    BY <1>1, <1>3, <2>1
<1>5. DOMAIN a = 1..m /\ \A i \in 1..m : a[i].sets = ws[i].sets
  BY <1>2
<1>p. Parted(ws, a, b, n, m)
  BY <1>3, <1>4, <1>5 DEF Parted
<1>6. PutAll(PutAll(tree, a), b) = PutAll(tree, ws)
  BY <1>p, PutsJoin
<1>7. PutAll(PutAll(tree, a), b) = Put(PutAll(tree, a), ws[n].sets)
  BY PutOne DEF b
<1>8. QED
  BY <1>6, <1>7

LEMMA PutNext ==
  ASSUME NEW tree, NEW S, NEW q \in Seq(S), NEW i \in 1..Len(q)
  PROVE  PutAll(tree, SubSeq(q, 1, i)) = Put(PutAll(tree, SubSeq(q, 1, i - 1)), q[i].sets)
<1> DEFINE ws == SubSeq(q, 1, i)
           a  == SubSeq(q, 1, i - 1)
<1>1. i \in Nat \ {0} /\ i - 1 \in Nat
  OBVIOUS
<1>2. DOMAIN ws = 1..i /\ ws[i] = q[i]
  OBVIOUS
<1>3. DOMAIN a = 1..(i - 1)
  BY <1>1
<1>4. \A j \in 1..(i - 1) : a[j].sets = ws[j].sets
  BY <1>1
<1> HIDE DEF ws, a
<1>5. PutAll(tree, ws) = Put(PutAll(tree, a), ws[i].sets)
  BY <1>1, <1>2, <1>3, <1>4, PutLast
<1>6. QED
  BY <1>2, <1>5 DEF ws, a

LEMMA PutNone ==
  ASSUME NEW tree \in Trees
  PROVE  PutAll(tree, <<>>) = tree
<1>1. \A k : k \notin Written(<<>>)
  BY DEF Written
<1>2. QED
  BY <1>1 DEF PutAll, Trees

LEMMA PutAllTree ==
  ASSUME NEW tree \in Trees, NEW ws, NEW n \in Nat, DOMAIN ws = 1..n,
         \A i \in 1..n : ws[i].sets \in Edits
  PROVE  PutAll(tree, ws) \in Trees
<1>1. \A k \in Written(ws) : LeftAt(ws, k) \in Held
  <2> SUFFICES ASSUME NEW k \in Written(ws) PROVE LeftAt(ws, k) \in Held
    OBVIOUS
  <2>1. LastWriter(ws, k) \in 1..n /\ k \in DOMAIN ws[LastWriter(ws, k)].sets
    BY LastIs
  <2>2. QED
    BY <2>1 DEF LeftAt, Edits
<1>2. QED
  BY <1>1 DEF PutAll, Trees

Judgement(w, u, nb, f) == [taken |-> w, dropped |-> <<>>, tree |-> u, noop |-> nb, full |-> f]
LEMMA JudgementHas ==
  ASSUME NEW w, NEW u, NEW nb, NEW f, NEW a, a = Judgement(w, u, nb, f)
  PROVE  a.dropped = <<>> /\ a.taken = w /\ a.tree = u
BY DEF Judgement

(* Writes that hold one after the other are taken as far as there is room, *)
(* and none drops out.                                                     *)
Room(i) == IF i <= MaxCommit THEN i ELSE MaxCommit

LEMMA InOrderTaken ==
  ASSUME NEW t, t.pub.tree \in Trees, NEW q \in Seq(EntrySet),
         \A i \in 1..Len(q) : Holds(PutAll(t.pub.tree, SubSeq(q, 1, i - 1)), q[i])
  PROVE  LET a == Judged(t, q)
         IN  /\ a.dropped = <<>> /\ a.taken = SubSeq(q, 1, Room(Len(q)))
             /\ a.tree = PutAll(t.pub.tree, SubSeq(q, 1, Room(Len(q))))
             /\ a.noop => a.tree = t.pub.tree
             /\ a.noop \in BOOLEAN
<1> DEFINE n    == Len(q)
           P(i) == PutAll(t.pub.tree, SubSeq(q, 1, i))
           A(i, nb) == [taken |-> SubSeq(q, 1, Room(i)), dropped |-> <<>>, tree |-> P(Room(i)),
                        noop |-> nb, full |-> i > MaxCommit]
<1>1. PICK g : Judges(t, q, n, g) /\ Judged(t, q) = g[n]
  BY JudgedIs
<1>2. MaxCommit \in Nat /\ MaxCommit > 0 /\ n \in Nat
  BY MergeAssumption
<1>3. \A i \in 0..n : g[i] = IF i = 0 THEN JudgeStart(t) ELSE Judge(g[i - 1], q[i])
  BY <1>1 DEF Judges
<1>4. P(0) = t.pub.tree
  <2>1. SubSeq(q, 1, 0) = <<>>
    OBVIOUS
  <2>2. QED
    BY <2>1, PutNone
<1>5. \A i \in 1..n : P(i) = Put(P(i - 1), q[i].sets)
  BY PutNext
<1>6. \A i \in 1..n : SubSeq(q, 1, i) = Append(SubSeq(q, 1, i - 1), q[i])
  OBVIOUS
<1>7. \A i \in 0..n : Len(SubSeq(q, 1, i)) = i
  OBVIOUS
<1>8. \A i \in 1..n : Holds(P(i - 1), q[i])
  OBVIOUS
<1>9. SubSeq(q, 1, 0) = <<>>
  OBVIOUS
<1> DEFINE Ok(i) == \E nb \in BOOLEAN : g[i] = A(i, nb) /\ (nb => P(Room(i)) = t.pub.tree)
           T     == {i \in Nat : i <= n /\ ~Ok(i)}
<1> HIDE DEF P, Ok
<1>10. T = {}
  <2> SUFFICES ASSUME T # {} PROVE FALSE
    OBVIOUS
  <2>1. PICK i \in T : \A k \in T : i <= k
    BY LeastOf
  <2>2. i # 0
    <3>1. g[0] = JudgeStart(t)
      BY <1>2, <1>3
    <3>2. Room(0) = 0 /\ ~(0 > MaxCommit)
      BY <1>2 DEF Room
    <3> HIDE DEF A
    <3>a. SubSeq(q, 1, Room(0)) = <<>> /\ P(Room(0)) = t.pub.tree
      BY <1>4, <1>9, <3>2
    <3>b. (0 > MaxCommit) = FALSE
      BY <3>2
    <3>c. A(0, TRUE) = JudgeStart(t)
      BY <3>a, <3>b, Zenon DEF JudgeStart, A
    <3>3. g[0] = A(0, TRUE) /\ P(Room(0)) = t.pub.tree
      BY <3>1, <3>a, <3>c
    <3>4. Ok(0)
      BY <3>3 DEF Ok
    <3>5. QED
      BY <2>1, <3>4
  <2>3. i \in 1..n /\ i - 1 \in 0..n /\ i - 1 \notin T
    BY <2>1, <2>2
  <2>a. Ok(i - 1)
    BY <2>3
  <2>4. PICK nb \in BOOLEAN : g[i - 1] = A(i - 1, nb) /\ (nb => P(Room(i - 1)) = t.pub.tree)
    BY <2>a DEF Ok
  <2>5. g[i] = Judge(A(i - 1, nb), q[i])
    BY <1>3, <2>3, <2>4
  <2>6. CASE i - 1 > MaxCommit
    <3>1. Room(i) = MaxCommit /\ Room(i - 1) = MaxCommit /\ i > MaxCommit
      BY <1>2, <2>3, <2>6 DEF Room
    <3>2. g[i] = A(i, nb)
      BY <2>5, <2>6, <3>1 DEF Judge
    <3>8. Ok(i)
      BY <2>4, <3>1, <3>2 DEF Ok
    <3>9. QED
      BY <2>1, <3>8
  <2>7. CASE i - 1 = MaxCommit
    <3>1. Room(i) = MaxCommit /\ Room(i - 1) = MaxCommit /\ i > MaxCommit /\ ~(i - 1 > MaxCommit)
      BY <1>2, <2>3, <2>7 DEF Room
    <3>2. Holds(P(MaxCommit), q[i]) /\ Len(SubSeq(q, 1, MaxCommit)) = MaxCommit
      BY <1>7, <1>8, <2>3, <2>7
    <3>3. g[i] = [A(i - 1, nb) EXCEPT !.full = TRUE]
      BY <2>5, <3>1, <3>2 DEF Judge
    <3>4. g[i] = A(i, nb)
      BY <3>1, <3>3
    <3>8. Ok(i)
      BY <2>4, <3>1, <3>4 DEF Ok
    <3>9. QED
      BY <2>1, <3>8
  <2>8. CASE i - 1 < MaxCommit
    <3>1. Room(i) = i /\ Room(i - 1) = i - 1 /\ ~(i > MaxCommit) /\ ~(i - 1 > MaxCommit)
      BY <1>2, <2>3, <2>8 DEF Room
    <3>2. Holds(P(i - 1), q[i]) /\ Len(SubSeq(q, 1, i - 1)) = i - 1 /\ i - 1 # MaxCommit
      BY <1>7, <1>8, <2>3, <2>8
    <3>3. g[i] = [A(i - 1, nb) EXCEPT !.taken = Append(@, q[i]), !.tree = Put(@, q[i].sets),
                                      !.noop = @ /\ Put(P(i - 1), q[i].sets) = P(i - 1)]
      BY <2>5, <3>1, <3>2 DEF Judge
    <3>c. A(i - 1, nb) = [taken |-> SubSeq(q, 1, i - 1), dropped |-> <<>>, tree |-> P(i - 1),
                          noop |-> nb, full |-> (i - 1 > MaxCommit)]
      BY <3>1
    <3> DEFINE mb == nb /\ P(i) = P(i - 1)
    <3>a. g[i] = [taken |-> Append(SubSeq(q, 1, i - 1), q[i]), dropped |-> <<>>,
                  tree |-> Put(P(i - 1), q[i].sets), noop |-> (nb /\ Put(P(i - 1), q[i].sets) = P(i - 1)),
                  full |-> (i - 1 > MaxCommit)]
      BY <3>3, <3>c
    <3>b. (i - 1 > MaxCommit) = (i > MaxCommit)
      BY <3>1
    <3>4. g[i] = A(i, mb)
      BY <1>5, <1>6, <2>3, <3>1, <3>a, <3>b, Zenon
    <3>5. mb => P(Room(i)) = t.pub.tree
      BY <2>4, <3>1
    <3>6. mb \in BOOLEAN
      BY <2>4
    <3>7. Ok(i)
      BY <3>4, <3>5, <3>6 DEF Ok
    <3>8. QED
      BY <2>1, <3>7
  <2>9. QED
    BY <1>2, <2>3, <2>6, <2>7, <2>8
<1>11. Ok(n)
  BY <1>2, <1>10
<1>12. PICK nb \in BOOLEAN : g[n] = A(n, nb) /\ (nb => P(Room(n)) = t.pub.tree)
  BY <1>11 DEF Ok
<1>a. g[n].dropped = <<>> /\ g[n].taken = SubSeq(q, 1, Room(n)) /\ g[n].tree = P(Room(n))
  <2> DEFINE a == g[n]
             w == SubSeq(q, 1, Room(n))
             u == P(Room(n))
  <2>1. \E v, f : a = Judgement(w, u, v, f)
    BY <1>12, Zenon DEF Judgement
  <2> HIDE DEF a, w, u
  <2>2. PICK v, f : a = Judgement(w, u, v, f)
    BY <2>1, Zenon
  <2>3. a.dropped = <<>> /\ a.taken = w /\ a.tree = u
    BY <2>2, JudgementHas
  <2>4. QED
    BY <2>3, Zenon DEF a, w, u
<1>b. g[n].noop \in BOOLEAN /\ (g[n].noop => P(Room(n)) = t.pub.tree)
  <2>1. CASE nb = TRUE
    <3>1. g[n] = A(n, TRUE) /\ P(Room(n)) = t.pub.tree
      BY <1>12, <2>1, Zenon
    <3>2. g[n].noop = TRUE
      BY <3>1
    <3>3. QED
      BY <3>1, <3>2
  <2>2. CASE nb = FALSE
    <3>1. g[n] = A(n, FALSE)
      BY <1>12, <2>2, Zenon
    <3>2. g[n].noop = FALSE
      BY <3>1
    <3>3. QED
      BY <3>2
  <2>3. QED
    BY <2>1, <2>2
<1>14. QED
  BY <1>1, <1>a, <1>b DEF P

----------------------------------------------------------------------------
(* What each part of the invariant looks at. *)

LEMMA LineSame ==
  ASSUME NEW t, NEW u, u.pub = t.pub, u.line = t.line, LineOK(t)
  PROVE  LineOK(u)
BY DEF LineOK

LEMMA QueueSame ==
  ASSUME NEW t, NEW u, u.queue = t.queue, u.pub = t.pub, u.made = t.made, QueueOK(t)
  PROVE  QueueOK(u)
BY DEF QueueOK

LEMMA CommitSame ==
  ASSUME NEW t, NEW u, u.queue = t.queue, u.pub = t.pub, u.commit = t.commit,
         t.held \in BOOLEAN, u.held \in BOOLEAN, u.held => t.held, CommitOK(t)
  PROVE  CommitOK(u)
BY DEF CommitOK

LEMMA EntriesSame ==
  ASSUME NEW t, NEW u, u.queue = t.queue, u.merge = t.merge, u.tip = t.tip, u.rounds = t.rounds,
         EntriesOK(t)
  PROVE  EntriesOK(u)
BY DEF EntriesOK, Remerged

LEMMA WinnerSame ==
  ASSUME NEW t, NEW u, u.merge = t.merge, u.tip = t.tip, u.rounds = t.rounds, u.pub = t.pub,
         u.line = t.line, u.beaten = t.beaten, WinnerOK(t)
  PROVE  WinnerOK(u)
BY DEF WinnerOK, Spared

LEMMA OwnSame ==
  ASSUME NEW t, NEW u, u.queue = t.queue, u.made = t.made, NEW ws, OwnWrites(t, ws)
  PROVE  OwnWrites(u, ws)
BY DEF OwnWrites

LEMMA JudgedSame ==
  ASSUME NEW t, NEW u, u.queue = t.queue, u.made = t.made, u.tip = t.tip, u.merge = t.merge,
         u.pub = t.pub, JudgedOK(t)
  PROVE  JudgedOK(u)
BY DEF JudgedOK, OwnWrites

(* None of the page's queue, its line, its tip and its merge touched. *)
LEMMA ReadySame ==
  ASSUME NEW t, NEW u \in StateSet, Ready(t),
         u.pub = t.pub, u.line = t.line, u.beaten = t.beaten, u.queue = t.queue, u.made = t.made,
         u.commit = t.commit, u.tip = t.tip, u.merge = t.merge, u.rounds = t.rounds,
         u.held => t.held, u.merge.phase = "delta" => u.held
  PROVE  Ready(u)
<1>1. t \in StateSet /\ t.held \in BOOLEAN /\ u.held \in BOOLEAN
  BY DEF Ready, StateSet
<1>2. LineOK(u) /\ QueueOK(u) /\ EntriesOK(u) /\ WinnerOK(u) /\ JudgedOK(u)
  BY LineSame, QueueSame, EntriesSame, WinnerSame, JudgedSame, Zenon DEF Ready
<1>3. CommitOK(u)
  BY <1>1, CommitSame DEF Ready
<1>4. QED
  BY <1>2, <1>3 DEF Ready

(* No entry of a merge is queued. *)
NoEntry(t) == \A i \in DOMAIN t.queue : t.queue[i].round = 0
LEMMA NoEntryOK ==
  ASSUME NEW t, t.queue \in Seq(EntrySet), NoEntry(t)
  PROVE  EntriesOK(t)
BY DEF NoEntry, EntriesOK, MergesFirst, OneIndex

LEMMA OwnPart ==
  ASSUME NEW t, NEW S, NEW ws \in Seq(S), NEW K \in SUBSET DOMAIN ws, OwnWrites(t, ws)
  PROVE  OwnWrites(t, Only(ws, K))
<1>1. PICK e : Walks(e, K) /\ \A j \in 1..Cardinality(K) : Only(ws, K)[j] = ws[e[j]]
  BY OnlyIs
<1>2. DOMAIN Only(ws, K) = 1..Cardinality(K) /\ Cardinality(K) \in Nat
  BY OnlyIs
<1>3. \A i \in 1..Cardinality(K) : e[i] \in DOMAIN ws /\ e[i] \in Nat
  BY <1>1 DEF Walks
<1> DEFINE n == Cardinality(K)
           v == Only(ws, K)
<1>4. \A i, j \in 1..n : e[i] = e[j] => i = j
  <2> SUFFICES ASSUME NEW i \in 1..Cardinality(K), NEW j \in 1..Cardinality(K), e[i] = e[j], i # j
               PROVE  FALSE
    OBVIOUS
  <2>1. i < j \/ j < i
    BY <1>2
  <2>2. e[i] < e[j] \/ e[j] < e[i]
    BY <1>1, <2>1 DEF Walks
  <2>3. QED
    BY <1>3, <2>2
<1>5. DOMAIN v = 1..n /\ \A j \in 1..n : v[j] = ws[e[j]] /\ e[j] \in DOMAIN ws
  BY <1>1, <1>2, <1>3
<1> HIDE DEF n, v
<1>6. \A i, j \in DOMAIN v : v[i].n = v[j].n => i = j
  BY <1>4, <1>5 DEF OwnWrites
<1>7. \A i \in DOMAIN v :
        /\ v[i].n <= t.made
        /\ \A j \in DOMAIN t.queue : t.queue[j].round = 0 => t.queue[j].n # v[i].n
  BY <1>5 DEF OwnWrites
<1>8. QED
  BY <1>6, <1>7 DEF OwnWrites, v

----------------------------------------------------------------------------
(* The end of a call. *)

LEMMA Nones ==
  /\ Empty \in Trees /\ NoHead \in HeadSet /\ NoTip \in TipSet /\ NoMerge \in MergeSet /\ NoProbe \in ProbeSet
  /\ 0 \in Held /\ Held \subseteq Nat /\ <<>> \in Seq(KeptSet)
<1>1. 0 \in Held /\ Held \subseteq Nat
  BY MergeAssumption DEF Held, Absent
<1>2. Empty \in Trees
  BY <1>1 DEF Empty, Trees, Absent
<1>3. NoHead \in HeadSet
  BY <1>2 DEF NoHead, HeadSet
<1>4. <<>> \in Seq(KeptSet)
  OBVIOUS
<1> DEFINE none == <<>>
<1>a. none \in Seq(KeptSet)
  BY <1>4
<1> HIDE DEF none
<1>5. NoTip \in TipSet
  <2>1. NoTip = [head |-> NoHead, base |-> NoHead, writes |-> none]
    BY DEF NoTip, none
  <2>2. QED
    BY <2>1, <1>3, <1>a DEF TipSet
<1>6. NoMerge \in MergeSet
  <2> DEFINE any == [k \in Keys |-> AnyValue]
  <2>1. any \in [Keys -> Held \cup {AnyValue}]
    OBVIOUS
  <2>2. NoMerge = [phase |-> "none", winner |-> NoHead, from |-> NoHead, writes |-> none,
             next |-> 1, tree |-> Empty, theirs |-> any,
             dropped |-> {}, sent |-> {}, landed |-> {}, fell |-> {}, at |-> NoHead]
    BY DEF NoMerge, none
  <2> HIDE DEF any
  <2>3. QED
    BY <1>2, <1>3, <1>a, <2>1, <2>2 DEF MergeSet
<1>7. NoProbe \in ProbeSet
  BY <1>2, <1>a DEF NoProbe, ProbeSet, none
<1>8. QED
  BY <1>1, <1>2, <1>3, <1>4, <1>5, <1>6, <1>7

LEMMA SeenReady ==
  ASSUME NEW t, Ready(t)
  PROVE  LET u == [t EXCEPT !.seen = t.pub] IN Ready(u) /\ u.seen = u.pub
<1> DEFINE u == [t EXCEPT !.seen = t.pub]
<1>1. t \in StateSet
  BY DEF Ready
<1>2. /\ u \in StateSet /\ u.seen = u.pub
      /\ u.pub = t.pub /\ u.line = t.line /\ u.beaten = t.beaten /\ u.queue = t.queue /\ u.made = t.made
      /\ u.commit = t.commit /\ u.tip = t.tip /\ u.merge = t.merge /\ u.rounds = t.rounds /\ u.held = t.held
  BY <1>1 DEF StateSet
<1>3. t.merge.phase = "delta" => t.held
  BY DEF Ready
<1> HIDE DEF u
<1>4. Ready(u)
  BY <1>2, <1>3, ReadySame
<1>5. QED
  BY <1>2, <1>4 DEF u

LEMMA FinishedReady ==
  ASSUME NEW t, Ready(t)
  PROVE  LET u == Finished(t) IN Ready(u) /\ u.seen = t.seen /\ u.pub = t.pub
<1> DEFINE m  == t.merge
           ws == LandedWrites(m)
           ti == IF m.at = NoHead THEN t.tip ELSE [head |-> m.at, base |-> m.winner, writes |-> ws]
           u  == [t EXCEPT !.merge = NoMerge, !.tip = ti]
<1>1. t \in StateSet /\ m \in MergeSet
  BY DEF Ready, StateSet
<1>2. CASE ~MergeDone(m)
  BY <1>2 DEF Finished
<1>3. CASE MergeDone(m)
  <2>1. Finished(t) = u
    BY <1>1, <1>3 DEF Finished, FinishMerge, StateSet
  <2>2. m.writes \in Seq(KeptSet) /\ m.at \in HeadSet /\ m.winner \in HeadSet
    BY <1>1 DEF MergeSet
  <2>3. ws \in Seq(KeptSet) /\ OwnWrites(t, ws)
    <3>1. DOMAIN m.writes \ (DOMAIN m.writes \ m.landed) \in SUBSET DOMAIN m.writes
      OBVIOUS
    <3>2. OwnWrites(t, m.writes)
      BY DEF Ready, JudgedOK
    <3>3. QED
      BY <2>2, <3>1, <3>2, OnlyIs, OwnPart DEF LandedWrites, Without
  <2> HIDE DEF ws
  <2>4. ti \in TipSet
    BY <1>1, <2>2, <2>3 DEF TipSet, StateSet
  <2>5. OwnWrites(t, ti.writes) /\ ti.head.seq <= t.pub.seq
    BY <2>3 DEF Ready, JudgedOK
  <2> HIDE DEF ti
  <2>6. /\ u \in StateSet /\ u.merge = NoMerge /\ u.tip = ti /\ u.seen = t.seen
        /\ u.pub = t.pub /\ u.line = t.line /\ u.beaten = t.beaten /\ u.queue = t.queue /\ u.made = t.made
        /\ u.commit = t.commit /\ u.rounds = t.rounds /\ u.held = t.held
    BY <1>1, <2>4, Nones DEF StateSet
  <2>7. NoEntry(t)
    <3>1. t.queue \in Seq(EntrySet) /\ \A i \in DOMAIN t.queue : t.queue[i].round \in Nat
      BY <1>1 DEF StateSet, EntrySet
    <3>2. m.sent \ (m.landed \cup m.fell) = {}
      BY <1>3 DEF MergeDone
    <3>3. \A i \in DOMAIN t.queue : ~(t.queue[i].round > 0)
      BY <3>2 DEF Ready, EntriesOK, Remerged
    <3>4. QED
      BY <3>1, <3>3 DEF NoEntry
  <2>8. NoMerge.phase = "none" /\ NoMerge.writes = <<>> /\ NoMerge.at.seq = -1
    BY DEF NoMerge, NoHead
  <2> HIDE DEF u, m
  <2>9. LineOK(u) /\ QueueOK(u) /\ CommitOK(u)
    <3>1. t.held \in BOOLEAN
      BY <1>1 DEF StateSet
    <3>2. QED
      BY <2>6, <3>1, LineSame, QueueSame, CommitSame DEF Ready
  <2>10. EntriesOK(u)
    BY <1>1, <2>6, <2>7, NoEntryOK DEF NoEntry, StateSet
  <2>11. WinnerOK(u)
    BY <2>6, <2>8 DEF WinnerOK
  <2>12. JudgedOK(u)
    <3>1. t.pub.seq > 0 /\ t.pub.seq \in Int
      BY <1>1 DEF Ready, LineOK, StateSet, HeadSet
    <3>2. OwnWrites(u, ti.writes)
      BY <2>5, <2>6, OwnSame
    <3>3. OwnWrites(u, NoMerge.writes)
      BY <2>8 DEF OwnWrites
    <3>4. QED
      BY <2>5, <2>6, <2>8, <3>1, <3>2, <3>3 DEF JudgedOK
  <2>13. Ready(u)
    BY <2>6, <2>8, <2>9, <2>10, <2>11, <2>12 DEF Ready
  <2>14. QED
    BY <2>1, <2>6, <2>13
<1>4. QED
  BY <1>2, <1>3

LEMMA SettledReady ==
  ASSUME NEW t, Ready(t)
  PROVE  Ready(Settled(t)) /\ HoldOK(Settled(t))
<1> DEFINE a == [t EXCEPT !.seen = t.pub]
           b == Finished(a)
           c == ReleaseHold(b)
           d == FinishProbe(c)
<1>1. Ready(a) /\ a.seen = a.pub
  BY SeenReady
<1> HIDE DEF a
<1>2. Ready(b) /\ b.seen = b.pub
  BY <1>1, FinishedReady
<1> HIDE DEF b
<1>3. b \in StateSet /\ (b.merge.phase = "delta" => b.held)
  BY <1>2 DEF Ready
<1>4. c \in StateSet /\ (c.held <=> b.held /\ b.merge.phase = "delta")
  BY <1>3 DEF ReleaseHold, StateSet
<1>5. /\ c.pub = b.pub /\ c.line = b.line /\ c.beaten = b.beaten /\ c.queue = b.queue /\ c.made = b.made
      /\ c.commit = b.commit /\ c.tip = b.tip /\ c.merge = b.merge /\ c.rounds = b.rounds
      /\ c.seen = b.seen
  BY <1>3 DEF ReleaseHold, StateSet
<1> HIDE DEF c
<1>6. Ready(c)
  BY <1>2, <1>3, <1>4, <1>5, ReadySame
<1>7. d \in StateSet
  BY <1>4, Nones DEF FinishProbe, StateSet
<1>8. /\ d.pub = c.pub /\ d.line = c.line /\ d.beaten = c.beaten /\ d.queue = c.queue /\ d.made = c.made
      /\ d.commit = c.commit /\ d.tip = c.tip /\ d.merge = c.merge /\ d.rounds = c.rounds
      /\ d.seen = c.seen /\ d.held = c.held
  BY <1>4 DEF FinishProbe, StateSet
<1> HIDE DEF d
<1>9. Ready(d)
  BY <1>3, <1>4, <1>5, <1>6, <1>7, <1>8, ReadySame
<1>10. HoldOK(d)
  BY <1>2, <1>3, <1>4, <1>5, <1>8 DEF HoldOK
<1>11. Settled(t) = d
  BY DEF Settled, a, b, c, d
<1>12. QED
  BY <1>9, <1>10, <1>11

----------------------------------------------------------------------------
(* A call's verdicts, and the Server's judgement. *)

(* The entries still queued are none of these. *)
Off(t, out) == \A i \in DOMAIN t.queue : t.queue[i].round > 0 => t.queue[i].index \notin out

LEMMA VerdictsReady ==
  ASSUME NEW t, Ready(t), NEW p, NEW e, Mine(t, p) \subseteq Nat, Mine(t, e) \subseteq Nat,
         Off(t, Mine(t, p) \cup Mine(t, e))
  PROVE  LET u == MergeVerdicts(t, p, e)
         IN  /\ Ready(u) /\ u.queue = t.queue /\ u.pub = t.pub /\ u.tip = t.tip /\ u.made = t.made
             /\ u.seen = t.seen /\ u.held = t.held /\ u.merge.phase = t.merge.phase
             /\ u.prev = t.prev /\ u.commit = t.commit
<1> DEFINE A  == Mine(t, p)
           B  == Mine(t, e)
           at == IF A = {} THEN t.merge.at ELSE t.pub
           m  == [t.merge EXCEPT !.landed = @ \cup A, !.fell = @ \cup B, !.at = at]
           u  == [t EXCEPT !.merge = m]
<1>1. t \in StateSet /\ t.merge \in MergeSet /\ t.pub \in HeadSet
  BY DEF Ready, StateSet
<1>2. CASE t.merge.phase # "sent"
  BY <1>2 DEF MergeVerdicts
<1>3. CASE t.merge.phase = "sent"
  <2>1. MergeVerdicts(t, p, e) = u
    BY <1>1, <1>3 DEF MergeVerdicts, StateSet, MergeSet
  <2>2. A \subseteq Nat /\ B \subseteq Nat /\ Off(t, A \cup B)
    OBVIOUS
  <2> HIDE DEF A, B
  <2>3. at \in HeadSet /\ at.seq <= t.pub.seq
    <3>1. t.pub.seq \in Int
      BY <1>1 DEF HeadSet
    <3>2. t.merge.at.seq <= t.pub.seq
      BY DEF Ready, JudgedOK
    <3>3. QED
      BY <1>1, <3>1, <3>2 DEF MergeSet
  <2> HIDE DEF at
  <2>4. /\ m \in MergeSet
        /\ m.phase = t.merge.phase /\ m.winner = t.merge.winner /\ m.from = t.merge.from
        /\ m.writes = t.merge.writes /\ m.next = t.merge.next /\ m.tree = t.merge.tree
        /\ m.theirs = t.merge.theirs /\ m.sent = t.merge.sent
        /\ m.landed = t.merge.landed \cup A /\ m.fell = t.merge.fell \cup B /\ m.at = at
    BY <1>1, <2>2, <2>3 DEF MergeSet
  <2> HIDE DEF m
  <2>5. /\ u \in StateSet /\ u.merge = m /\ u.tip = t.tip /\ u.seen = t.seen /\ u.prev = t.prev
        /\ u.pub = t.pub /\ u.line = t.line /\ u.beaten = t.beaten /\ u.queue = t.queue /\ u.made = t.made
        /\ u.commit = t.commit /\ u.rounds = t.rounds /\ u.held = t.held
    BY <1>1, <2>4 DEF StateSet
  <2> HIDE DEF u
  <2>6. LineOK(u) /\ QueueOK(u) /\ CommitOK(u)
    <3>1. t.held \in BOOLEAN
      BY <1>1 DEF StateSet
    <3>2. QED
      BY <2>5, <3>1, LineSame, QueueSame, CommitSame DEF Ready
  <2>7. EntriesOK(u)
    <3>1. MergesFirst(u.queue) /\ OneIndex(u.queue)
      BY <2>5 DEF Ready, EntriesOK
    <3>2. ASSUME NEW i \in DOMAIN u.queue, u.queue[i].round > 0
          PROVE  Remerged(u, u.queue[i])
      <4>1. Remerged(t, u.queue[i])
        BY <2>5, <3>2 DEF Ready, EntriesOK
      <4>2. u.queue[i].index \notin A \cup B
        BY <2>2, <2>5, <3>2 DEF Off
      <4>3. QED
        BY <2>4, <2>5, <4>1, <4>2 DEF Remerged
    <3>3. QED
      BY <3>1, <3>2 DEF EntriesOK
  <2>8. WinnerOK(u)
    BY <1>3, <2>4, <2>5 DEF Ready, WinnerOK, Spared
  <2>9. JudgedOK(u)
    BY <2>3, <2>4, <2>5 DEF Ready, JudgedOK, OwnWrites
  <2>10. Ready(u)
    BY <1>3, <2>4, <2>5, <2>6, <2>7, <2>8, <2>9 DEF Ready
  <2>11. QED
    BY <2>1, <2>4, <2>5, <2>10
<1>4. QED
  BY <1>2, <1>3

(* Writes of a client's that may join the tip. *)
Joins(t, q) ==
  /\ q \in Seq(EntrySet) /\ OwnWrites(t, q)
  /\ \A i \in DOMAIN q, j \in DOMAIN t.tip.writes : q[i].n # t.tip.writes[j].n
  /\ q # <<>> => NoEntry(t) /\ t.merge.phase # "delta"

LEMMA JoinReady ==
  ASSUME NEW t, Ready(t), NEW q, Joins(t, q)
  PROVE  Ready(JoinTip(t, q)) /\ (q = <<>> => JoinTip(t, q) = t)
<1> DEFINE ws == [i \in DOMAIN q |-> TipWrite(q[i])]
           tw == IF t.tip.head = t.pub THEN t.tip.writes \o ws ELSE ws
           ba == IF t.tip.head = t.pub THEN t.tip.base ELSE t.prev
           ti == [head |-> t.pub, base |-> ba, writes |-> tw]
           u  == [t EXCEPT !.tip = ti]
<1>1. t \in StateSet /\ t.tip \in TipSet /\ t.pub \in HeadSet /\ t.prev \in HeadSet
  BY DEF Ready, StateSet
<1>2. CASE q = <<>>
  BY <1>2 DEF JoinTip
<1>3. CASE q # <<>>
  <2>a. JoinTip(t, q) = IF t.tip.head = t.pub THEN [t EXCEPT !.tip.writes = @ \o ws]
                        ELSE [t EXCEPT !.tip = [head |-> t.pub, base |-> t.prev, writes |-> ws]]
    BY <1>3 DEF JoinTip
  <2>1. JoinTip(t, q) = u
    <3> HIDE DEF ws
    <3>1. CASE t.tip.head = t.pub
      <4> DEFINE w == t.tip.writes \o ws
      <4>1. JoinTip(t, q) = [t EXCEPT !.tip.writes = w] /\ tw = w /\ ba = t.tip.base
        BY <2>a, <3>1
      <4> HIDE DEF w, tw, ba
      <4>2. [t.tip EXCEPT !.writes = w] = [head |-> t.pub, base |-> ba, writes |-> tw]
        BY <1>1, <3>1, <4>1 DEF TipSet
      <4>3. [t EXCEPT !.tip.writes = w] = [t EXCEPT !.tip = [t.tip EXCEPT !.writes = w]]
        BY <1>1 DEF StateSet
      <4>4. QED
        BY <4>1, <4>2, <4>3
    <3>2. CASE t.tip.head # t.pub
      BY <2>a, <3>2
    <3>3. QED
      BY <3>1, <3>2
  <2>2. /\ ws \in Seq(KeptSet) /\ DOMAIN ws = DOMAIN q /\ DOMAIN q = 1..Len(q) /\ Len(q) \in Nat
        /\ \A i \in DOMAIN q : ws[i].n = q[i].n
    <3>1. q \in Seq(EntrySet)
      BY DEF Joins
    <3>2. \A i \in DOMAIN q : TipWrite(q[i]) \in KeptSet /\ TipWrite(q[i]).n = q[i].n
      BY <3>1 DEF TipWrite, KeptSet, EntrySet
    <3>3. QED
      BY <3>1, <3>2
  <2>3. OwnWrites(t, ws)
    BY <2>2 DEF Joins, OwnWrites
  <2>4. \A i \in DOMAIN ws, j \in DOMAIN t.tip.writes : ws[i].n # t.tip.writes[j].n
    BY <2>2 DEF Joins
  <2> HIDE DEF ws
  <2>5. t.tip.writes \in Seq(KeptSet) /\ t.tip.base \in HeadSet /\ OwnWrites(t, t.tip.writes)
    BY <1>1 DEF TipSet, Ready, JudgedOK
  <2>6. tw \in Seq(KeptSet) /\ OwnWrites(t, tw)
    <3>1. CASE t.tip.head = t.pub
      <4> DEFINE a == t.tip.writes
                 b == a \o ws
      <4>1. /\ b \in Seq(KeptSet) /\ DOMAIN a = 1..Len(a) /\ DOMAIN ws = 1..Len(ws)
            /\ DOMAIN b = 1..(Len(a) + Len(ws)) /\ Len(a) \in Nat /\ Len(ws) \in Nat
            /\ \A i \in DOMAIN b : b[i] = IF i <= Len(a) THEN a[i] ELSE ws[i - Len(a)]
        BY <2>2, <2>5
      <4>a. \A i \in DOMAIN b : i <= Len(a) => i \in DOMAIN a
        BY <4>1
      <4>b. \A i \in DOMAIN b : ~(i <= Len(a)) => i - Len(a) \in DOMAIN ws
        BY <4>1
      <4>c. OwnWrites(t, a) /\ OwnWrites(t, ws) /\ \A i \in DOMAIN ws, j \in DOMAIN a : ws[i].n # a[j].n
        BY <2>3, <2>4, <2>5
      <4> HIDE DEF a, b
      <4>2. \A i, j \in DOMAIN b : b[i].n = b[j].n => i = j
        <5> SUFFICES ASSUME NEW i \in DOMAIN b, NEW j \in DOMAIN b, b[i].n = b[j].n
                     PROVE  i = j
          OBVIOUS
        <5>1. CASE i <= Len(a) /\ j <= Len(a)
          BY <4>1, <4>a, <4>c, <5>1 DEF OwnWrites
        <5>2. CASE ~(i <= Len(a)) /\ ~(j <= Len(a))
          <6>1. i - Len(a) = j - Len(a)
            BY <4>1, <4>b, <4>c, <5>2 DEF OwnWrites
          <6>2. QED
            BY <4>1, <6>1
        <5>3. CASE i <= Len(a) /\ ~(j <= Len(a))
          BY <4>1, <4>a, <4>b, <4>c, <5>3
        <5>4. CASE ~(i <= Len(a)) /\ j <= Len(a)
          BY <4>1, <4>a, <4>b, <4>c, <5>4
        <5>5. QED
          BY <5>1, <5>2, <5>3, <5>4
      <4>3. \A i \in DOMAIN b :
              /\ b[i].n <= t.made
              /\ \A j \in DOMAIN t.queue : t.queue[j].round = 0 => t.queue[j].n # b[i].n
        BY <4>1, <4>a, <4>b, <4>c DEF OwnWrites
      <4>4. OwnWrites(t, b)
        BY <4>2, <4>3 DEF OwnWrites
      <4>5. QED
        BY <3>1, <4>1, <4>4 DEF a, b
    <3>2. CASE t.tip.head # t.pub
      BY <2>2, <2>3, <3>2
    <3>3. QED
      BY <3>1, <3>2
  <2> HIDE DEF tw
  <2>7. ti \in TipSet /\ ti.head = t.pub /\ ti.writes = tw
    BY <1>1, <2>5, <2>6 DEF TipSet
  <2> HIDE DEF ti
  <2>8. /\ u \in StateSet /\ u.merge = t.merge /\ u.tip = ti
        /\ u.pub = t.pub /\ u.line = t.line /\ u.beaten = t.beaten /\ u.queue = t.queue /\ u.made = t.made
        /\ u.commit = t.commit /\ u.rounds = t.rounds /\ u.held = t.held
    BY <1>1, <2>7 DEF StateSet
  <2> HIDE DEF u
  <2>9. LineOK(u) /\ QueueOK(u) /\ CommitOK(u)
    <3>1. t.held \in BOOLEAN
      BY <1>1 DEF StateSet
    <3>2. QED
      BY <2>8, <3>1, LineSame, QueueSame, CommitSame DEF Ready
  <2>10. EntriesOK(u)
    BY <1>1, <1>3, <2>8, NoEntryOK DEF Joins, NoEntry, StateSet
  <2>11. WinnerOK(u)
    BY <1>3, <2>8 DEF Ready, WinnerOK, Joins, Spared
  <2>12. JudgedOK(u)
    <3>1. t.pub.seq \in Int
      BY <1>1 DEF HeadSet
    <3>2. OwnWrites(u, ti.writes) /\ OwnWrites(u, t.merge.writes)
      BY <2>6, <2>7, <2>8, OwnSame DEF Ready, JudgedOK
    <3>3. QED
      BY <2>7, <2>8, <3>1, <3>2 DEF JudgedOK, Ready
  <2>13. Ready(u)
    BY <2>8, <2>9, <2>10, <2>11, <2>12 DEF Ready
  <2>14. QED
    BY <1>3, <2>1, <2>13
<1>4. QED
  BY <1>2, <1>3

LEMMA WrittenKeys ==
  ASSUME NEW ws \in Seq(KeptSet)
  PROVE  Written(ws) \in SUBSET Keys
<1>1. \A i \in DOMAIN ws : DOMAIN ws[i].sets \subseteq Keys
  <2> SUFFICES ASSUME NEW i \in DOMAIN ws PROVE DOMAIN ws[i].sets \subseteq Keys
    OBVIOUS
  <2>1. ws[i].sets \in Edits
    BY DEF KeptSet
  <2>2. QED
    BY <2>1 DEF Edits
<1>2. QED
  BY <1>1 DEF Written

Probed(t, ws, ti, m) == [StartProbe(t, ws) EXCEPT !.tip = ti, !.merge = m]
LEMMA ProbedIs ==
  ASSUME NEW t \in StateSet, NEW ws \in Seq(KeptSet), NEW ti \in TipSet, NEW m \in MergeSet
  PROVE  LET u == Probed(t, ws, ti, m)
         IN  /\ u \in StateSet /\ u.tip = ti /\ u.merge = m
             /\ u.pub = t.pub /\ u.line = t.line /\ u.beaten = t.beaten /\ u.queue = t.queue /\ u.made = t.made
             /\ u.commit = t.commit /\ u.rounds = t.rounds /\ u.held = t.held /\ u.seen = t.seen
             /\ u.foreign = t.foreign /\ u.probe.writes = ws
             /\ u.probe.pending = Written(ws) /\ u.probe.superseded = {}
<1> DEFINE pr == [writes |-> ws, tree |-> t.pub.tree, pending |-> Written(ws), superseded |-> {}]
<1>1. pr \in ProbeSet
  <2>1. t.pub.tree \in Trees
    BY DEF StateSet, HeadSet
  <2>2. QED
    BY <2>1, WrittenKeys DEF ProbeSet
<1>2. StartProbe(t, ws) = [t EXCEPT !.probe = pr]
  BY DEF StartProbe
<1>a. pr.writes = ws /\ pr.pending = Written(ws) /\ pr.superseded = {}
  OBVIOUS
<1> HIDE DEF pr
<1>3. QED
  BY <1>1, <1>2, <1>a DEF StateSet, Probed

(* A head that displaces the tip's at its seq has the queue held. *)
Moved(t) == t.pub = t.seen \/ (t.tip # NoTip /\ t.pub.seq = t.tip.head.seq => t.held)

LEMMA DisplacedReady ==
  ASSUME NEW t, Ready(t), NEW ours, ours \/ Moved(t)
  PROVE  Ready(Displaced(t, ours))
<1>1. /\ t \in StateSet /\ t.tip \in TipSet /\ t.pub \in HeadSet /\ t.merge \in MergeSet
      /\ t.rounds \in Nat /\ t.held \in BOOLEAN /\ t.queue \in Seq(EntrySet)
  BY DEF Ready, StateSet
<1>2. t.tip.head \in HeadSet /\ t.tip.base \in HeadSet /\ t.tip.writes \in Seq(KeptSet)
  BY <1>1 DEF TipSet
<1>a. /\ NoTip.writes = <<>> /\ NoTip.head.seq = -1 /\ t.pub.seq > 0 /\ t.pub.seq \in Int
  BY <1>1 DEF NoTip, NoHead, HeadSet, Ready, LineOK
<1>b. \A u : OwnWrites(u, NoTip.writes)
  BY <1>a DEF OwnWrites
<1>3. CASE ours \/ t.pub = t.seen \/ t.tip = NoTip \/ t.pub = t.tip.head \/ t.pub.seq < t.tip.head.seq
  <2>1. Displaced(t, ours) = t
    BY <1>3 DEF Displaced
  <2>2. QED
    BY <2>1
<1>4. CASE /\ ~ours /\ t.pub # t.seen /\ t.tip # NoTip /\ t.pub # t.tip.head /\ ~(t.pub.seq < t.tip.head.seq)
  <2>1. NoEntry(t) /\ t.merge.phase # "delta"
    <3>1. \A i \in DOMAIN t.queue : t.queue[i].round \in Nat
      BY <1>1 DEF EntrySet
    <3>2. \A i \in DOMAIN t.queue : ~(t.queue[i].round > 0)
      BY <1>4 DEF Ready, EntriesOK, Remerged
    <3>3. QED
      BY <1>4, <3>1, <3>2 DEF NoEntry, Ready, WinnerOK
  <2>2. CASE t.prev = t.tip.head
    <3> DEFINE u == [t EXCEPT !.tip = NoTip]
    <3>1. /\ u \in StateSet /\ u.tip = NoTip /\ u.merge = t.merge
          /\ u.pub = t.pub /\ u.line = t.line /\ u.beaten = t.beaten /\ u.queue = t.queue /\ u.made = t.made
          /\ u.commit = t.commit /\ u.rounds = t.rounds /\ u.held = t.held
      BY <1>1, Nones DEF StateSet
    <3>2. Displaced(t, ours) = u
      BY <1>4, <2>2 DEF Displaced
    <3> HIDE DEF u
    <3>3. LineOK(u) /\ QueueOK(u) /\ CommitOK(u)
      BY <1>1, <3>1, LineSame, QueueSame, CommitSame DEF Ready
    <3>4. EntriesOK(u)
      BY <1>1, <2>1, <3>1, NoEntryOK DEF NoEntry
    <3>5. WinnerOK(u)
      BY <2>1, <3>1 DEF Ready, WinnerOK, Spared
    <3>6. JudgedOK(u)
      BY <1>a, <1>b, <3>1, OwnSame DEF Ready, JudgedOK
    <3>7. QED
      BY <2>1, <3>1, <3>2, <3>3, <3>4, <3>5, <3>6 DEF Ready
  <2>3. CASE t.prev # t.tip.head /\ t.prev # NoHead /\ t.prev = t.tip.base /\ t.pub.seq = t.tip.head.seq
    <3> DEFINE m == [NoMerge EXCEPT !.phase = "delta", !.winner = t.pub, !.from = t.tip.base,
                                    !.writes = t.tip.writes, !.tree = t.pub.tree]
               r == t.rounds + 1
               u == [t EXCEPT !.merge = m, !.tip = NoTip, !.rounds = r]
    <3>1. /\ m \in MergeSet /\ m.phase = "delta" /\ m.winner = t.pub /\ m.tree = t.pub.tree
          /\ m.writes = t.tip.writes /\ m.next = 1 /\ m.at.seq = -1 /\ m.fell = {}
      <4>1. t.pub.tree \in Trees
        BY <1>1 DEF HeadSet
      <4>2. NoMerge \in MergeSet /\ NoMerge.next = 1 /\ NoMerge.at.seq = -1 /\ NoMerge.fell = {}
        BY Nones DEF NoMerge, NoHead
      <4>3. QED
        BY <1>1, <1>2, <4>1, <4>2 DEF MergeSet
    <3>a. r \in Nat /\ r > 0
      BY <1>1
    <3>b. Displaced(t, ours) = u
      BY <1>1, <1>4, <2>3 DEF Displaced, StartMerge, StateSet
    <3> HIDE DEF m, r
    <3>2. /\ u \in StateSet /\ u.tip = NoTip /\ u.merge = m
          /\ u.pub = t.pub /\ u.line = t.line /\ u.beaten = t.beaten /\ u.queue = t.queue /\ u.made = t.made
          /\ u.commit = t.commit /\ u.rounds = r /\ u.held = t.held
      BY <1>1, <3>1, <3>a, Nones DEF StateSet
    <3>3. Displaced(t, ours) = u
      BY <3>b
    <3> HIDE DEF u
    <3>4. LineOK(u) /\ QueueOK(u) /\ CommitOK(u)
      BY <1>1, <3>2, LineSame, QueueSame, CommitSame DEF Ready
    <3>5. EntriesOK(u)
      BY <1>1, <2>1, <3>2, NoEntryOK DEF NoEntry
    <3>6. WinnerOK(u)
      <4>1. t.pub \in ToSet(t.line)
        <5>1. t.line \in Seq(HeadSet) /\ t.line # <<>> /\ t.line[Len(t.line)] = t.pub
          BY <1>1 DEF Ready, LineOK, StateSet
        <5>2. Len(t.line) \in DOMAIN t.line
          BY <5>1
        <5>3. QED
          BY <5>1, <5>2 DEF ToSet
      <4>2. QED
        BY <1>1, <1>a, <3>1, <3>2, <3>a, <4>1 DEF WinnerOK
    <3>7. JudgedOK(u)
      BY <1>a, <1>b, <3>1, <3>2, OwnSame DEF Ready, JudgedOK
    <3>8. u.held
      BY <1>4, <2>3, <3>2 DEF Moved
    <3>9. QED
      BY <3>2, <3>3, <3>4, <3>5, <3>6, <3>7, <3>8 DEF Ready
  <2>4. CASE /\ t.prev # t.tip.head
             /\ ~(t.prev # NoHead /\ t.prev = t.tip.base /\ t.pub.seq = t.tip.head.seq)
    <3> DEFINE u == Probed(t, t.tip.writes, NoTip, t.merge)
    <3>1. /\ u \in StateSet /\ u.tip = NoTip /\ u.merge = t.merge
          /\ u.pub = t.pub /\ u.line = t.line /\ u.beaten = t.beaten /\ u.queue = t.queue /\ u.made = t.made
          /\ u.commit = t.commit /\ u.rounds = t.rounds /\ u.held = t.held
      BY <1>1, <1>2, Nones, ProbedIs
    <3>2. Displaced(t, ours) = u
      <4>1. Displaced(t, ours) = [StartProbe(t, t.tip.writes) EXCEPT !.tip = NoTip]
        BY <1>4, <2>4 DEF Displaced
      <4>2. QED
        BY <1>1, <4>1 DEF StartProbe, Probed, StateSet
    <3> HIDE DEF u
    <3>3. LineOK(u) /\ QueueOK(u) /\ CommitOK(u)
      BY <1>1, <3>1, LineSame, QueueSame, CommitSame DEF Ready
    <3>4. EntriesOK(u)
      BY <1>1, <2>1, <3>1, NoEntryOK DEF NoEntry
    <3>5. WinnerOK(u)
      BY <2>1, <3>1 DEF Ready, WinnerOK, Spared
    <3>6. JudgedOK(u)
      BY <1>a, <1>b, <3>1, OwnSame DEF Ready, JudgedOK
    <3>7. QED
      BY <2>1, <3>1, <3>2, <3>3, <3>4, <3>5, <3>6 DEF Ready
  <2>5. QED
    BY <2>2, <2>3, <2>4
<1>5. QED
  BY <1>3, <1>4

(* What a call has done before it ends: its writes are off the queue. *)
Ends(t, p, e) ==
  /\ Ready(t) /\ p \in Seq(EntrySet)
  /\ Mine(t, p) \subseteq Nat /\ Mine(t, e) \subseteq Nat
  /\ Off(t, Mine(t, p) \cup Mine(t, e))
  /\ Joins(t, ClientsOf(p))
  /\ p # <<>> \/ Moved(t)

LEMMA CallReady ==
  ASSUME NEW t, NEW p, NEW e, Ends(t, p, e)
  PROVE  Ready(SameIdentity(t, p, e))
<1> DEFINE a  == MergeVerdicts(t, p, e)
           cs == ClientsOf(p)
           b  == JoinTip(a, cs)
<1>1. /\ Ready(t) /\ Mine(t, p) \subseteq Nat /\ Mine(t, e) \subseteq Nat
      /\ Off(t, Mine(t, p) \cup Mine(t, e)) /\ Joins(t, cs) /\ (p # <<>> \/ Moved(t))
  BY DEF Ends
<1>2. /\ Ready(a) /\ a.queue = t.queue /\ a.pub = t.pub /\ a.tip = t.tip /\ a.made = t.made
      /\ a.seen = t.seen /\ a.held = t.held /\ a.merge.phase = t.merge.phase
  BY <1>1, VerdictsReady
<1>3. p = <<>> => cs = <<>>
  <2>1. ASSUME p = <<>>
        PROVE  {i \in DOMAIN p : p[i].round = 0} = {}
    BY <2>1
  <2>2. Cardinality({}) = 0
    BY FS_EmptySet
  <2>3. \A q : Only(q, {}) = <<>>
    BY <2>2 DEF Only
  <2>4. QED
    BY <2>1, <2>3 DEF ClientsOf
<1> HIDE DEF a, cs
<1>4. Joins(a, cs)
  BY <1>1, <1>2 DEF Joins, OwnWrites, NoEntry
<1>5. Ready(b) /\ (cs = <<>> => b = a)
  BY <1>2, <1>4, JoinReady
<1>6. p = <<>> => Moved(b)
  BY <1>1, <1>2, <1>3, <1>5 DEF Moved
<1> HIDE DEF b
<1> DEFINE ours == p # <<>>
<1>7. ours \/ Moved(b)
  BY <1>6
<1>8. Ready(Displaced(b, ours))
  <2> HIDE DEF ours
  <2>1. QED
    BY <1>5, <1>7, DisplacedReady
<1>9. QED
  BY <1>8 DEF SameIdentity, a, b, cs

----------------------------------------------------------------------------
(* Entries that stay in the queue, and entries that leave it. *)

Same(x, y) == x.n = y.n /\ x.round = y.round /\ x.index = y.index /\ x.sets = y.sets /\ x.reads = y.reads
Places(e, p, q, K) ==
  /\ K \subseteq DOMAIN q /\ e \in [DOMAIN p -> K]
  /\ \A i, j \in DOMAIN p : i < j => e[i] < e[j]
  /\ \A j \in DOMAIN p : Same(p[j], q[e[j]])
(* p is what q has at places of K, in order; tries and warmth aside. *)
PartAt(p, q, K) == \E e : Places(e, p, q, K)

LEMMA OnlyPart ==
  ASSUME NEW S, NEW q \in Seq(S), NEW K \in SUBSET DOMAIN q
  PROVE  PartAt(Only(q, K), q, K)
<1> DEFINE p == Only(q, K)
           c == Cardinality(K)
<1>1. DOMAIN p = 1..c
  BY OnlyIs
<1>2. PICK e : Walks(e, K) /\ \A j \in 1..c : p[j] = q[e[j]]
  BY OnlyIs
<1>3. Places(e, p, q, K)
  <2> HIDE DEF p
  <2>1. e \in [1..c -> K] /\ \A i, j \in 1..c : i < j => e[i] < e[j]
    BY <1>2 DEF Walks
  <2> HIDE DEF c
  <2>2. QED
    BY <1>1, <1>2, <2>1 DEF Places, Same
<1>4. QED
  BY <1>3 DEF PartAt

LEMMA RunPart ==
  ASSUME NEW S, NEW q \in Seq(S), NEW m \in Nat, NEW r \in Nat, m <= r, r <= Len(q)
  PROVE  PartAt(SubSeq(q, m + 1, r), q, (m + 1)..r)
<1>1. (m + 1)..r \in SUBSET DOMAIN q
  OBVIOUS
<1>2. QED
  BY <1>1, OnlyRun, OnlyPart

LEMMA AllPart ==
  ASSUME NEW S, NEW q \in Seq(S), NEW p, DOMAIN p = DOMAIN q, \A i \in DOMAIN q : Same(p[i], q[i])
  PROVE  PartAt(p, q, DOMAIN q)
<1> DEFINE e == [i \in DOMAIN p |-> i]
<1>1. \A i, j \in DOMAIN p : i < j => e[i] < e[j]
  OBVIOUS
<1>2. e \in [DOMAIN p -> DOMAIN q] /\ \A i \in DOMAIN p : e[i] = i
  OBVIOUS
<1> HIDE DEF e
<1>3. Places(e, p, q, DOMAIN q)
  BY <1>1, <1>2 DEF Places
<1>4. QED
  BY <1>3 DEF PartAt

LEMMA PartPart ==
  ASSUME NEW S, NEW q \in Seq(S), NEW r, NEW T, r \in Seq(T), NEW p, NEW K, NEW J,
         PartAt(r, q, K), PartAt(p, r, J)
  PROVE  PartAt(p, q, K)
<1>1. PICK e : Places(e, r, q, K)
  BY DEF PartAt
<1>2. PICK d : Places(d, p, r, J)
  BY DEF PartAt
<1> DEFINE f == [i \in DOMAIN p |-> e[d[i]]]
<1>3. \A i \in DOMAIN p : d[i] \in DOMAIN r
  BY <1>2 DEF Places
<1>4. f \in [DOMAIN p -> K] /\ \A i \in DOMAIN p : f[i] = e[d[i]]
  BY <1>1, <1>3 DEF Places
<1> HIDE DEF f
<1>5. Places(f, p, q, K)
  <2>1. \A i, j \in DOMAIN p : i < j => f[i] < f[j]
    <3> SUFFICES ASSUME NEW i \in DOMAIN p, NEW j \in DOMAIN p, i < j
                 PROVE  f[i] < f[j]
      OBVIOUS
    <3>1. d[i] \in DOMAIN r /\ d[j] \in DOMAIN r /\ d[i] < d[j]
      BY <1>2, <1>3 DEF Places
    <3>2. QED
      BY <1>1, <1>4, <3>1 DEF Places
  <2>2. \A i \in DOMAIN p : Same(p[i], q[f[i]])
    BY <1>1, <1>2, <1>3, <1>4 DEF Places, Same
  <2>3. QED
    BY <1>1, <1>4, <2>1, <2>2 DEF Places
<1>6. QED
  BY <1>5 DEF PartAt

(* A part with other tries or warmth. *)
LEMMA SamePart ==
  ASSUME NEW r, NEW q, NEW K, PartAt(r, q, K), NEW p, DOMAIN p = DOMAIN r, \A i \in DOMAIN r : Same(p[i], r[i])
  PROVE  PartAt(p, q, K)
<1>1. PICK e : Places(e, r, q, K)
  BY DEF PartAt
<1>2. Places(e, p, q, K)
  BY <1>1 DEF Places, Same
<1>3. QED
  BY <1>2 DEF PartAt

LEMMA PlacesOnce ==
  ASSUME NEW S, NEW q \in Seq(S), NEW T, NEW p \in Seq(T), NEW K, NEW e, Places(e, p, q, K)
  PROVE  \A i, j \in DOMAIN p : e[i] = e[j] => i = j
<1> SUFFICES ASSUME NEW i \in DOMAIN p, NEW j \in DOMAIN p, e[i] = e[j], i # j
             PROVE  FALSE
  OBVIOUS
<1>1. i < j \/ j < i
  OBVIOUS
<1>2. e[i] \in Int /\ e[j] \in Int
  BY DEF Places
<1>3. QED
  BY <1>1, <1>2 DEF Places

(* What stays keeps what the invariant says of the queue's entries. *)
LEMMA StayOK ==
  ASSUME NEW t, Ready(t), NEW u, u.queue \in Seq(EntrySet), NEW K, PartAt(u.queue, t.queue, K),
         u.merge = t.merge, u.tip = t.tip, u.rounds = t.rounds, u.made = t.made,
         u.pub.seq \in Int, t.pub.seq <= u.pub.seq
  PROVE  /\ EntriesOK(u) /\ JudgedOK(u) /\ OneId(u.queue)
         /\ \A i \in DOMAIN u.queue : u.queue[i].round = 0 => u.queue[i].n <= u.made
<1>1. PICK e : Places(e, u.queue, t.queue, K)
  BY DEF PartAt
<1>2. t \in StateSet /\ t.queue \in Seq(EntrySet) /\ t.tip \in TipSet /\ t.merge \in MergeSet /\ t.pub \in HeadSet
  BY DEF Ready, StateSet
<1>3. \A i, j \in DOMAIN u.queue : e[i] = e[j] => i = j
  BY <1>1, <1>2, PlacesOnce
<1>4. \A i \in DOMAIN u.queue : e[i] \in DOMAIN t.queue /\ Same(u.queue[i], t.queue[e[i]])
  BY <1>1 DEF Places
<1>5. OneId(u.queue)
  <2>1. \A i \in DOMAIN u.queue : Id(u.queue[i]) = Id(t.queue[e[i]])
    BY <1>4 DEF Same, Id
  <2>2. QED
    BY <1>3, <1>4, <2>1 DEF OneId, Ready, QueueOK
<1>6. \A i \in DOMAIN u.queue : u.queue[i].round = 0 => u.queue[i].n <= u.made
  BY <1>4 DEF Ready, QueueOK, Same
<1>7. EntriesOK(u)
  <2>1. MergesFirst(u.queue)
    BY <1>1, <1>4 DEF Places, MergesFirst, Ready, EntriesOK, Same
  <2>2. OneIndex(u.queue)
    BY <1>3, <1>4 DEF OneIndex, Ready, EntriesOK, Same
  <2>3. \A i \in DOMAIN u.queue : u.queue[i].round > 0 => Remerged(u, u.queue[i])
    <3> SUFFICES ASSUME NEW i \in DOMAIN u.queue, u.queue[i].round > 0
                 PROVE  Remerged(u, u.queue[i])
      OBVIOUS
    <3>1. Remerged(t, t.queue[e[i]])
      BY <1>4 DEF Ready, EntriesOK, Same
    <3>2. Same(u.queue[i], t.queue[e[i]])
      BY <1>4
    <3>3. QED
      BY <3>1, <3>2 DEF Remerged, Same, Forced
  <2>4. QED
    BY <2>1, <2>2, <2>3 DEF EntriesOK
<1>8. JudgedOK(u)
  <2>1. \A ws : OwnWrites(t, ws) => OwnWrites(u, ws)
    BY <1>4 DEF OwnWrites, Same
  <2>2. OwnWrites(t, t.tip.writes) /\ OwnWrites(t, t.merge.writes)
           /\ t.tip.head.seq <= t.pub.seq /\ t.merge.at.seq <= t.pub.seq
    BY DEF Ready, JudgedOK
  <2>3. t.tip.head.seq \in Int /\ t.merge.at.seq \in Int /\ t.pub.seq \in Int
    BY <1>2 DEF TipSet, MergeSet, HeadSet
  <2>4. QED
    BY <2>1, <2>2, <2>3 DEF JudgedOK
<1>9. QED
  BY <1>5, <1>6, <1>7, <1>8

(* Of what leaves, none stays. *)
LEMMA LeftOff ==
  ASSUME NEW t, Ready(t), NEW u, u.queue \in Seq(EntrySet), u.rounds = t.rounds,
         NEW K, PartAt(u.queue, t.queue, K), NEW p, NEW L, PartAt(p, t.queue, L), K \cap L = {}
  PROVE  Mine(u, p) \subseteq Nat /\ Off(u, Mine(u, p))
<1>1. PICK e : Places(e, u.queue, t.queue, K)
  BY DEF PartAt
<1>2. PICK d : Places(d, p, t.queue, L)
  BY DEF PartAt
<1>3. t.queue \in Seq(EntrySet)
  BY DEF Ready, StateSet
<1>4. \A i \in DOMAIN t.queue : t.queue[i].index \in Nat
  BY <1>3 DEF EntrySet
<1>5. \A j \in DOMAIN p : d[j] \in DOMAIN t.queue /\ d[j] \in L /\ Same(p[j], t.queue[d[j]])
  BY <1>2 DEF Places
<1>6. Mine(u, p) \subseteq Nat
  BY <1>4, <1>5 DEF Mine, Same
<1>7. ASSUME NEW i \in DOMAIN u.queue, u.queue[i].round > 0, u.queue[i].index \in Mine(u, p)
      PROVE  FALSE
  <2>1. PICK j \in DOMAIN p : p[j].round > 0 /\ p[j].index = u.queue[i].index
    BY <1>7 DEF Mine
  <2>2. e[i] \in DOMAIN t.queue /\ e[i] \in K /\ Same(u.queue[i], t.queue[e[i]])
    BY <1>1 DEF Places
  <2>3. /\ t.queue[e[i]].round > 0 /\ t.queue[d[j]].round > 0
        /\ t.queue[e[i]].index = t.queue[d[j]].index
    BY <1>5, <1>7, <2>1, <2>2 DEF Same
  <2>4. e[i] = d[j]
    BY <1>5, <2>2, <2>3 DEF Ready, EntriesOK, OneIndex
  <2>5. QED
    BY <1>5, <2>2, <2>4
<1>8. QED
  BY <1>6, <1>7 DEF Off

LEMMA MineNone ==
  ASSUME NEW t
  PROVE  Mine(t, <<>>) = {}
BY DEF Mine

(* The client's writes that leave from the front join the tip. *)
LEMMA LeftJoins ==
  ASSUME NEW t, Ready(t), NEW u, u.queue \in Seq(EntrySet), u.made = t.made, u.tip = t.tip, u.merge = t.merge,
         NEW K, PartAt(u.queue, t.queue, K), NEW p \in Seq(EntrySet), NEW L, PartAt(p, t.queue, L),
         \A x \in K, y \in L : y < x, p # <<>> => t.merge.phase # "delta"
  PROVE  Joins(u, ClientsOf(p))
<1> DEFINE C == {i \in DOMAIN p : p[i].round = 0}
           q == ClientsOf(p)
<1>a. C \in SUBSET DOMAIN p
  OBVIOUS
<1>1. q \in Seq(EntrySet) /\ PartAt(q, p, C)
  BY <1>a, OnlyIs, OnlyPart DEF ClientsOf
<1>2. t.queue \in Seq(EntrySet) /\ t.tip \in TipSet
  BY DEF Ready, StateSet
<1>b. \A i \in DOMAIN q : q[i].round = 0
  <2>1. PICK e : Places(e, q, p, C)
    BY <1>1 DEF PartAt
  <2> HIDE DEF q
  <2>2. QED
    BY <2>1 DEF Places, Same
<1>c. q # <<>> => p # <<>>
  <2>1. SUFFICES ASSUME p = <<>> PROVE q = <<>>
    OBVIOUS
  <2>2. C = {}
    BY <2>1
  <2>3. Cardinality({}) = 0
    BY FS_EmptySet
  <2>4. Only(p, {}) = <<>>
    BY <2>3 DEF Only
  <2>5. QED
    BY <2>2, <2>4 DEF ClientsOf
<1>d. PartAt(q, t.queue, L)
  BY <1>1, <1>2, PartPart
<1> HIDE DEF q
<1>3. PICK d : Places(d, q, t.queue, L)
  BY <1>d DEF PartAt
<1>4. PICK e : Places(e, u.queue, t.queue, K)
  BY DEF PartAt
<1>5. \A i, j \in DOMAIN q : d[i] = d[j] => i = j
  BY <1>1, <1>2, <1>3, PlacesOnce
<1>6. \A i \in DOMAIN q : /\ d[i] \in DOMAIN t.queue /\ d[i] \in L /\ q[i].n = t.queue[d[i]].n
                          /\ t.queue[d[i]].round = 0
  BY <1>b, <1>3 DEF Places, Same
<1>7. \A i \in DOMAIN u.queue : /\ e[i] \in DOMAIN t.queue /\ e[i] \in K /\ u.queue[i].n = t.queue[e[i]].n
                                /\ u.queue[i].round = t.queue[e[i]].round
  BY <1>4 DEF Places, Same
<1>8. \A i, j \in DOMAIN t.queue : t.queue[i].round = 0 /\ t.queue[j].round = 0 /\ t.queue[i].n = t.queue[j].n => i = j
  BY DEF Ready, QueueOK, OneId, Id
<1>e. \A i \in DOMAIN u.queue, j \in DOMAIN q : d[j] < e[i] /\ e[i] # d[j]
  BY <1>2, <1>6, <1>7
<1>9. OwnWrites(u, q)
  <2>1. \A i, j \in DOMAIN q : q[i].n = q[j].n => i = j
    BY <1>5, <1>6, <1>8
  <2>2. \A i \in DOMAIN q : q[i].n <= u.made
    BY <1>6 DEF Ready, QueueOK
  <2>3. \A i \in DOMAIN q, j \in DOMAIN u.queue : u.queue[j].round = 0 => u.queue[j].n # q[i].n
    BY <1>6, <1>7, <1>8, <1>e
  <2>4. QED
    BY <2>1, <2>2, <2>3 DEF OwnWrites
<1>10. \A i \in DOMAIN q, j \in DOMAIN u.tip.writes : q[i].n # u.tip.writes[j].n
  BY <1>6 DEF Ready, JudgedOK, OwnWrites
<1>11. ASSUME q # <<>>
       PROVE  NoEntry(u)
  <2>1. 1 \in DOMAIN q
    BY <1>1, <1>11
  <2>2. \A i \in DOMAIN u.queue : u.queue[i].round \in Nat
    BY DEF EntrySet
  <2>3. ASSUME NEW i \in DOMAIN u.queue, u.queue[i].round > 0
        PROVE  FALSE
    <3>1. d[1] < e[i] /\ t.queue[e[i]].round > 0 /\ d[1] \in DOMAIN t.queue /\ e[i] \in DOMAIN t.queue
      BY <1>6, <1>7, <1>e, <2>1, <2>3
    <3>2. t.queue[d[1]].round > 0
      BY <3>1 DEF Ready, EntriesOK, MergesFirst
    <3>3. QED
      BY <1>6, <2>1, <3>2
  <2>4. QED
    BY <2>2, <2>3 DEF NoEntry
<1>12. Joins(u, q)
  BY <1>1, <1>9, <1>10, <1>11, <1>c DEF Joins
<1>13. QED
  BY <1>12 DEF q

----------------------------------------------------------------------------
(* The front of the queue. *)

LEMMA PrefixIs ==
  ASSUME NEW n \in Nat, NEW I \in SUBSET (1..n), \A i \in I : \A j \in 1..i : j \in I
  PROVE  \E m \in 0..n : I = 1..m
<1>1. CASE I = {}
  <2>1. I = 1..0 /\ 0 \in 0..n
    BY <1>1
  <2>2. QED
    BY <2>1
<1>2. CASE I # {}
  <2>1. PICK m \in I : \A y \in I : y <= m
    BY <1>2, GreatestOf
  <2>2. m \in 1..n /\ \A i \in I : i \in 1..m
    BY <2>1
  <2>3. \A i \in 1..m : i \in I
    OBVIOUS
  <2>4. I = 1..m
    BY <2>2, <2>3
  <2>5. QED
    BY <2>2, <2>4
<1>3. QED
  BY <1>1, <1>2

LEMMA FrontIs ==
  ASSUME NEW S, NEW q \in Seq(S), NEW m \in 0..Len(q)
  PROVE  Only(q, 1..m) = SubSeq(q, 1, m)
<1>1. PICK z \in Nat : z = 0
  OBVIOUS
<1>2. z + 1 = 1 /\ m \in Nat /\ z <= m /\ m <= Len(q)
  BY <1>1
<1>3. Only(q, (z + 1)..m) = SubSeq(q, z + 1, m)
  BY <1>2, OnlyRun
<1>4. QED
  BY <1>2, <1>3

LEMMA FrontPart ==
  ASSUME NEW S, NEW q \in Seq(S), NEW m \in 0..Len(q)
  PROVE  PartAt(SubSeq(q, 1, m), q, 1..m)
<1>1. 1..m \in SUBSET DOMAIN q
  OBVIOUS
<1>2. QED
  BY <1>1, FrontIs, OnlyPart

(* A front and the rest. *)
LEMMA FrontBack ==
  ASSUME NEW S, NEW q \in Seq(S), NEW m \in 0..Len(q)
  PROVE  /\ SubSeq(q, 1, m) \in Seq(S) /\ Len(SubSeq(q, 1, m)) = m /\ DOMAIN SubSeq(q, 1, m) = 1..m
         /\ \A i \in 1..m : SubSeq(q, 1, m)[i] = q[i]
         /\ SubSeq(q, m + 1, Len(q)) \in Seq(S) /\ Len(SubSeq(q, m + 1, Len(q))) = Len(q) - m
         /\ DOMAIN SubSeq(q, m + 1, Len(q)) = 1..(Len(q) - m)
         /\ \A i \in 1..(Len(q) - m) : SubSeq(q, m + 1, Len(q))[i] = q[i + m]
<1>1. SubSeq(q, 1, m) \in Seq(S) /\ Len(SubSeq(q, 1, m)) = m
  OBVIOUS
<1>2. SubSeq(q, m + 1, Len(q)) \in Seq(S) /\ Len(SubSeq(q, m + 1, Len(q))) = Len(q) - m
  OBVIOUS
<1>3. \A i \in 1..m : SubSeq(q, 1, m)[i] = q[i]
  OBVIOUS
<1>4. \A i \in 1..(Len(q) - m) : SubSeq(q, m + 1, Len(q))[i] = q[i + m]
  OBVIOUS
<1> DEFINE a == SubSeq(q, 1, m)
           b == SubSeq(q, m + 1, Len(q))
<1>5. a \in Seq(S) /\ Len(a) = m /\ b \in Seq(S) /\ Len(b) = Len(q) - m
  BY <1>1, <1>2
<1> HIDE DEF a, b
<1>6. DOMAIN a = 1..m /\ DOMAIN b = 1..(Len(q) - m)
  BY <1>5
<1>7. QED
  BY <1>1, <1>2, <1>3, <1>4, <1>6 DEF a, b

LEMMA BackPart ==
  ASSUME NEW S, NEW q \in Seq(S), NEW m \in 0..Len(q)
  PROVE  PartAt(SubSeq(q, m + 1, Len(q)), q, (m + 1)..Len(q))
<1>1. m \in Nat /\ Len(q) \in Nat /\ m <= Len(q)
  OBVIOUS
<1>2. QED
  BY <1>1, RunPart

(* Writes that set the same leave the same. *)
LEMMA SameFronts ==
  ASSUME NEW tree, NEW S, NEW p \in Seq(S), NEW q \in Seq(S), NEW m \in 0..Len(p), m <= Len(q),
         \A i \in 1..m : Same(p[i], q[i])
  PROVE  PutAll(tree, SubSeq(p, 1, m)) = PutAll(tree, SubSeq(q, 1, m))
<1> DEFINE a == SubSeq(p, 1, m)
           b == SubSeq(q, 1, m)
<1>0. m \in 0..Len(q) /\ m \in Nat
  OBVIOUS
<1>1. DOMAIN a = 1..m /\ \A i \in 1..m : a[i] = p[i]
  BY FrontBack
<1>2. DOMAIN b = 1..m /\ \A i \in 1..m : b[i] = q[i]
  BY <1>0, FrontBack
<1> HIDE DEF a, b
<1>3. \A i \in 1..m : a[i].sets = b[i].sets
  BY <1>1, <1>2 DEF Same
<1>4. PutAll(tree, a) = PutAll(tree, b)
  BY <1>0, <1>1, <1>2, <1>3, SameSets
<1>5. QED
  BY <1>4 DEF a, b

LEMMA HoldsSame ==
  ASSUME NEW tree, NEW x, NEW y, Same(x, y)
  PROVE  Holds(tree, x) <=> Holds(tree, y)
<1>1. x.reads = y.reads /\ x.sets = y.sets
  BY DEF Same
<1>2. QED
  BY <1>1 DEF Holds, Leaves

(* The rest of the queue, on what its front leaves. *)
LEMMA BackReplays ==
  ASSUME NEW tree, NEW q \in Seq(EntrySet), NEW m \in 0..Len(q), WarmFirst(q), Replays(tree, q)
  PROVE  /\ WarmFirst(SubSeq(q, m + 1, Len(q)))
         /\ Replays(PutAll(tree, SubSeq(q, 1, m)), SubSeq(q, m + 1, Len(q)))
<1> DEFINE r == SubSeq(q, m + 1, Len(q))
           a == SubSeq(q, 1, m)
<1>1. DOMAIN r = 1..(Len(q) - m) /\ \A i \in 1..(Len(q) - m) : r[i] = q[i + m]
  BY FrontBack
<1>2. DOMAIN a = 1..m /\ \A i \in 1..m : a[i] = q[i]
  BY FrontBack
<1>3. r \in Seq(EntrySet) /\ Len(r) = Len(q) - m
  BY FrontBack
<1> HIDE DEF r, a
<1>4. \A i \in 1..(Len(q) - m) : i + m \in DOMAIN q
  OBVIOUS
<1>5. WarmFirst(r)
  <2> SUFFICES ASSUME NEW i \in DOMAIN r, NEW j \in DOMAIN r, i < j, r[j].warm
               PROVE  r[i].warm
    BY DEF WarmFirst
  <2>1. i + m \in DOMAIN q /\ j + m \in DOMAIN q /\ i + m < j + m /\ q[j + m].warm
    BY <1>1, <1>4
  <2>2. QED
    BY <1>1, <2>1 DEF WarmFirst
<1>6. Replays(PutAll(tree, a), r)
  <2> SUFFICES ASSUME NEW i \in DOMAIN r, r[i].warm
               PROVE  Holds(PutAll(PutAll(tree, a), SubSeq(r, 1, i - 1)), r[i])
    BY DEF Replays
  <2>1. i + m \in DOMAIN q /\ q[i + m].warm /\ r[i] = q[i + m] /\ i \in 1..(Len(q) - m)
    BY <1>1, <1>4
  <2>2. Holds(PutAll(tree, SubSeq(q, 1, (i + m) - 1)), q[i + m])
    BY <2>1 DEF Replays
  <2>3. PICK k \in Nat : k = (i + m) - 1
    BY <2>1
  <2>4. k \in 0..Len(q) /\ m \in 0..k /\ i - 1 \in 0..Len(r) /\ k - m = i - 1
    <3>1. Len(q) \in Nat /\ Len(r) \in Nat /\ m \in Nat /\ i \in Nat /\ i >= 1 /\ i <= Len(r)
      OBVIOUS
    <3>2. i <= Len(q) - m
      BY <2>1
    <3>3. QED
      BY <2>3, <3>1, <3>2
  <2> DEFINE w == SubSeq(q, 1, k)
             b == SubSeq(r, 1, i - 1)
  <2>5. DOMAIN w = 1..k /\ \A j \in 1..k : w[j] = q[j]
    BY <2>4, FrontBack
  <2>6. DOMAIN b = 1..(i - 1) /\ \A j \in 1..(i - 1) : b[j] = r[j]
    BY <1>3, <2>4, FrontBack
  <2> HIDE DEF w, b
  <2>7. Parted(w, a, b, k, m)
    <3>1. \A j \in 1..m : j \in 1..k /\ a[j] = w[j]
      BY <1>2, <2>4, <2>5
    <3>2. \A j \in 1..(k - m) : j + m \in 1..k /\ b[j] = w[j + m]
      <4> SUFFICES ASSUME NEW j \in 1..(k - m) PROVE j + m \in 1..k /\ b[j] = w[j + m]
        OBVIOUS
      <4>1. j + m \in 1..k /\ j \in 1..(i - 1) /\ j \in 1..(Len(q) - m)
        BY <2>1, <2>4
      <4>2. b[j] = r[j] /\ r[j] = q[j + m] /\ w[j + m] = q[j + m]
        BY <1>1, <2>5, <2>6, <4>1
      <4>3. QED
        BY <4>1, <4>2
    <3>3. DOMAIN b = 1..(k - m)
      BY <2>4, <2>6
    <3>4. QED
      BY <1>2, <2>4, <2>5, <3>1, <3>2, <3>3 DEF Parted
  <2>8. PutAll(PutAll(tree, a), b) = PutAll(tree, w)
    BY <2>7, PutsJoin
  <2>9. QED
    BY <2>1, <2>2, <2>3, <2>8 DEF w, b
<1>7. QED
  BY <1>5, <1>6 DEF r, a

Cooled(e) == [e EXCEPT !.warm = FALSE]
LEMMA CooledIs ==
  ASSUME NEW e \in EntrySet
  PROVE  Cooled(e) \in EntrySet /\ Same(Cooled(e), e) /\ ~Cooled(e).warm
BY DEF EntrySet, Same, Cooled

LEMMA ColdIs ==
  ASSUME NEW q \in Seq(EntrySet)
  PROVE  /\ Cold(q) \in Seq(EntrySet) /\ DOMAIN Cold(q) = DOMAIN q /\ Len(Cold(q)) = Len(q)
         /\ \A i \in DOMAIN q : Same(Cold(q)[i], q[i]) /\ ~Cold(q)[i].warm
         /\ WarmFirst(Cold(q)) /\ \A tree : Replays(tree, Cold(q))
<1>1. \A i \in DOMAIN q : q[i] \in EntrySet
  OBVIOUS
<1>2. Cold(q) = [i \in DOMAIN q |-> Cooled(q[i])]
  BY DEF Cold, Cooled
<1>3. /\ DOMAIN Cold(q) = DOMAIN q /\ DOMAIN q = 1..Len(q) /\ Len(q) \in Nat
      /\ \A i \in DOMAIN q : Cold(q)[i] \in EntrySet /\ Same(Cold(q)[i], q[i]) /\ ~Cold(q)[i].warm
  BY <1>1, <1>2, CooledIs
<1> DEFINE c == Cold(q)
<1>a. c = [i \in 1..Len(q) |-> c[i]]
  BY <1>2, <1>3
<1> HIDE DEF c
<1>4. c \in Seq(EntrySet) /\ Len(c) = Len(q)
  BY <1>3, <1>a DEF c
<1>5. WarmFirst(c) /\ \A tree : Replays(tree, c)
  BY <1>3 DEF WarmFirst, Replays, c
<1>6. QED
  BY <1>3, <1>4, <1>5 DEF c

LEMMA ColdPart ==
  ASSUME NEW q \in Seq(EntrySet), NEW r, NEW K, PartAt(q, r, K)
  PROVE  PartAt(Cold(q), r, K)
BY ColdIs, SamePart

(* What is applied is a front of the queue. *)
LEMMA WarmIs ==
  ASSUME NEW q \in Seq(EntrySet), WarmFirst(q)
  PROVE  \E m \in 0..Len(q) :
           /\ Warm(q) = SubSeq(q, 1, m) /\ \A i \in DOMAIN q : q[i].warm <=> i <= m
           /\ (\E i \in DOMAIN q : ~q[i].warm) => FirstCold(q) = m + 1 /\ m + 1 \in DOMAIN q
<1> DEFINE I == {i \in DOMAIN q : q[i].warm}
<1>1. I \in SUBSET (1..Len(q)) /\ Len(q) \in Nat /\ DOMAIN q = 1..Len(q)
  OBVIOUS
<1>2. \A i \in I : \A j \in 1..i : j \in I
  <2> SUFFICES ASSUME NEW i \in I, NEW j \in 1..i PROVE j \in I
    OBVIOUS
  <2>1. j \in DOMAIN q /\ (j = i \/ j < i)
    OBVIOUS
  <2>2. QED
    BY <2>1 DEF WarmFirst
<1>3. PICK m \in 0..Len(q) : I = 1..m
  BY <1>1, <1>2, PrefixIs
<1>4. Warm(q) = SubSeq(q, 1, m)
  BY <1>3, FrontIs DEF Warm
<1>5. \A i \in DOMAIN q : q[i].warm <=> i <= m
  <2> SUFFICES ASSUME NEW i \in DOMAIN q PROVE q[i].warm <=> i <= m
    OBVIOUS
  <2>1. q[i].warm <=> i \in I
    OBVIOUS
  <2>2. i \in I <=> i <= m
    BY <1>1, <1>3
  <2>3. QED
    BY <2>1, <2>2
<1> HIDE DEF I
<1>6. ASSUME NEW i \in DOMAIN q, ~q[i].warm
      PROVE  FirstCold(q) = m + 1 /\ m + 1 \in DOMAIN q
  <2>1. m + 1 \in DOMAIN q
    BY <1>1, <1>5, <1>6
  <2>2. ~q[m + 1].warm /\ \A j \in 1..((m + 1) - 1) : q[j].warm
    BY <1>1, <1>5, <2>1
  <2>3. ASSUME NEW k \in DOMAIN q, ~q[k].warm, \A j \in 1..(k - 1) : q[j].warm
        PROVE  k = m + 1
    <3>1. k > m /\ k \in Nat
      BY <1>1, <1>5, <2>3
    <3>2. k > m + 1 => m + 1 \in 1..(k - 1)
      BY <3>1
    <3>3. QED
      BY <2>2, <2>3, <3>1, <3>2
  <2>4. QED
    BY <2>1, <2>2, <2>3 DEF FirstCold
<1>7. QED
  BY <1>4, <1>5, <1>6

----------------------------------------------------------------------------
(* The calls. *)

(* The cut closed, or kept. *)
LEMMA CloseIs ==
  ASSUME NEW t, t \in StateSet
  PROVE  LET u == CloseCut(t)
         IN  /\ u \in StateSet
             /\ u.pub = t.pub /\ u.line = t.line /\ u.beaten = t.beaten /\ u.queue = t.queue /\ u.made = t.made
             /\ u.commit = t.commit /\ u.tip = t.tip /\ u.merge = t.merge /\ u.rounds = t.rounds
             /\ u.held = t.held /\ u.seen = t.seen /\ u.probe = t.probe /\ u.foreign = t.foreign /\ u.prev = t.prev
<1> DEFINE c == IF t.cut \cap Ids(t.queue) = {} THEN {} ELSE t.cut
<1>1. CloseCut(t) = [t EXCEPT !.cut = c]
  BY DEF CloseCut, StateSet
<1>2. c \in SUBSET (Nat \X Nat)
  BY DEF StateSet
<1> HIDE DEF c
<1>3. QED
  BY <1>1, <1>2 DEF StateSet

LEMMA CloseEnds ==
  ASSUME NEW t, NEW p, NEW e, Ends(t, p, e)
  PROVE  Ends(CloseCut(t), p, e)
<1> DEFINE u == CloseCut(t)
<1>1. Ready(t) /\ t \in StateSet
  BY DEF Ends, Ready
<1>2. /\ u \in StateSet
      /\ u.pub = t.pub /\ u.line = t.line /\ u.beaten = t.beaten /\ u.queue = t.queue /\ u.made = t.made
      /\ u.commit = t.commit /\ u.tip = t.tip /\ u.merge = t.merge /\ u.rounds = t.rounds
      /\ u.held = t.held /\ u.seen = t.seen
  BY <1>1, CloseIs
<1> HIDE DEF u
<1>3. Ready(u)
  BY <1>1, <1>2, ReadySame DEF Ready
<1>4. \A q : Mine(u, q) = Mine(t, q)
  BY <1>2 DEF Mine
<1>5. \A out : Off(t, out) => Off(u, out)
  BY <1>2 DEF Off
<1>6. \A q : Joins(t, q) => Joins(u, q)
  BY <1>2 DEF Joins, OwnWrites, NoEntry
<1>7. Moved(t) => Moved(u)
  BY <1>2 DEF Moved
<1>8. Ends(u, p, e)
  <2>1. /\ p \in Seq(EntrySet) /\ Mine(t, p) \subseteq Nat /\ Mine(t, e) \subseteq Nat
        /\ Off(t, Mine(t, p) \cup Mine(t, e)) /\ Joins(t, ClientsOf(p)) /\ (p # <<>> \/ Moved(t))
    BY DEF Ends
  <2>2. Off(u, Mine(t, p) \cup Mine(t, e)) /\ Joins(u, ClientsOf(p))
    BY <1>5, <1>6, <2>1
  <2>3. Mine(u, p) = Mine(t, p) /\ Mine(u, e) = Mine(t, e)
    BY <1>4
  <2>4. QED
    BY <1>3, <1>7, <2>1, <2>2, <2>3 DEF Ends
<1>9. QED
  BY <1>8 DEF u

----------------------------------------------------------------------------
(* The order in which the page's values are published. *)

(* What a client takes as published, a write of ws left, or nothing. *)
Taken(ws, c, k) == c[k] = 0 \/ \E i \in DOMAIN ws : ws[i].n = c[k]
Earlier(q, n)   == \A i \in DOMAIN q : q[i].round = 0 => n < q[i].n
InTurn(q)       == \A i, j \in DOMAIN q : i < j /\ q[i].round = 0 /\ q[j].round = 0 => q[i].n < q[j].n
Ahead(t, ws)    == \A i \in DOMAIN ws : Earlier(t.queue, ws[i].n) /\ ws[i].n <= t.made
Entered(t, e) ==
  /\ e.index \in DOMAIN t.merge.writes /\ e.n = t.merge.writes[e.index].n
  /\ DOMAIN e.sets \subseteq DOMAIN t.merge.writes[e.index].sets

(* A client's queued writes are in the order they were made, and later than *)
(* all that was published or is judged; and, until the other device's       *)
(* second head, what is published of a merge's keys is of its own writes.   *)
TurnOK(t, c) ==
  /\ c \in [Keys -> 0..t.made]
  /\ InTurn(t.queue) /\ Earlier(t.queue, 0) /\ \A k \in Keys : Earlier(t.queue, c[k])
  /\ Ahead(t, t.tip.writes) /\ Ahead(t, t.merge.writes) /\ Ahead(t, t.probe.writes)
  /\ t.probe.pending \cup t.probe.superseded \subseteq Written(t.probe.writes)
RegroupOK(t, c) ==
  /\ \A i \in DOMAIN t.queue : t.queue[i].round > 0 => Entered(t, t.queue[i])
  /\ t.foreign = 0 => t.merge.phase = "none"
  /\ t.foreign <= 1 /\ t.merge.phase = "delta" =>
       \A k \in Written(t.merge.writes) : Taken(t.merge.writes, c, k)
  /\ t.foreign <= 1 =>
       \A i \in DOMAIN t.queue : t.queue[i].round > 0 =>
         \A k \in DOMAIN t.queue[i].sets : Taken(t.merge.writes, c, k)
OrderOK(t, c) == TurnOK(t, c) /\ RegroupOK(t, c)
TipOK(t, c)   == \A k \in Written(t.tip.writes) : Taken(t.tip.writes, c, k)
OrderInv      == OrderOK(s, claim) /\ (s.foreign = 0 => TipOK(s, claim))

(* A state that differs in nothing of this. *)
LEMMA OrderSame ==
  ASSUME NEW t, NEW c, OrderOK(t, c), NEW u, u.queue = t.queue, u.made = t.made, u.probe = t.probe,
         u.foreign = t.foreign, u.tip.writes = t.tip.writes, u.merge.writes = t.merge.writes,
         u.merge.phase = t.merge.phase
  PROVE  OrderOK(u, c) /\ (TipOK(t, c) => TipOK(u, c))
BY DEF OrderOK, TurnOK, RegroupOK, TipOK, Ahead, Entered

(* Claims that are given up. *)
Given(d, c, t) == d \in [Keys -> 0..t.made] /\ \A k \in Keys : d[k] \in {0, c[k]}
LEMMA OrderGiven ==
  ASSUME NEW t, NEW c, OrderOK(t, c), NEW d, Given(d, c, t),
         t.merge.writes \in Seq(KeptSet), t.queue \in Seq(EntrySet)
  PROVE  OrderOK(t, d)
<1>1. \A ws : \A k \in Keys : Taken(ws, c, k) => Taken(ws, d, k)
  BY DEF Given, Taken
<1>2. Written(t.merge.writes) \subseteq Keys
  BY WrittenKeys
<1>3. \A i \in DOMAIN t.queue : DOMAIN t.queue[i].sets \subseteq Keys
  BY DEF EntrySet, Edits
<1>4. TurnOK(t, d)
  BY DEF Given, OrderOK, TurnOK
<1>5. RegroupOK(t, d)
  BY <1>1, <1>2, <1>3 DEF OrderOK, RegroupOK
<1>6. QED
  BY <1>4, <1>5 DEF OrderOK

LEMMA TipGiven ==
  ASSUME NEW t, NEW c, TipOK(t, c), NEW d, Given(d, c, t), t.tip.writes \in Seq(KeptSet)
  PROVE  TipOK(t, d)
<1>1. Written(t.tip.writes) \subseteq Keys
  BY WrittenKeys
<1>2. QED
  BY <1>1 DEF Given, TipOK, Taken

(* Told, and what the other device overwrote, give claims up. *)
LEMMA ToldGiven ==
  ASSUME NEW t, t.made \in Nat, NEW c \in [Keys -> 0..t.made], NEW ws, NEW keys
  PROVE  Given(Told(c, ws, keys), c, t)
BY DEF Told, Given

LEMMA GivenTwice ==
  ASSUME NEW t, NEW c, NEW d, NEW e, Given(d, c, t), Given(e, d, t)
  PROVE  Given(e, c, t)
BY DEF Given

(* A queue that kept a part of what it had. *)
LEMMA PartOrder ==
  ASSUME NEW t, NEW c, OrderOK(t, c), NEW u, NEW K, PartAt(u.queue, t.queue, K),
         t.queue \in Seq(EntrySet), u.queue \in Seq(EntrySet), t.foreign \in Nat, u.foreign \in Nat,
         u.made = t.made, u.probe = t.probe, t.foreign <= u.foreign,
         u.tip.writes = t.tip.writes, u.merge = t.merge
  PROVE  OrderOK(u, c)
<1>1. PICK e : Places(e, u.queue, t.queue, K)
  BY DEF PartAt
<1>2. \A i \in DOMAIN u.queue : e[i] \in DOMAIN t.queue /\ Same(u.queue[i], t.queue[e[i]])
  BY <1>1 DEF Places
<1>3. \A n : Earlier(t.queue, n) => Earlier(u.queue, n)
  <2> SUFFICES ASSUME NEW n, Earlier(t.queue, n), NEW i \in DOMAIN u.queue, u.queue[i].round = 0
               PROVE  n < u.queue[i].n
    BY DEF Earlier
  <2>1. e[i] \in DOMAIN t.queue /\ t.queue[e[i]].round = 0 /\ t.queue[e[i]].n = u.queue[i].n
    BY <1>2 DEF Same
  <2>2. QED
    BY <2>1 DEF Earlier
<1>4. InTurn(u.queue)
  <2> SUFFICES ASSUME NEW i \in DOMAIN u.queue, NEW j \in DOMAIN u.queue, i < j,
                      u.queue[i].round = 0, u.queue[j].round = 0
               PROVE  u.queue[i].n < u.queue[j].n
    BY DEF InTurn
  <2>1. e[i] < e[j]
    BY <1>1 DEF Places
  <2>2. InTurn(t.queue)
    BY DEF OrderOK, TurnOK
  <2>3. /\ e[i] \in DOMAIN t.queue /\ t.queue[e[i]].round = 0 /\ t.queue[e[i]].n = u.queue[i].n
        /\ e[j] \in DOMAIN t.queue /\ t.queue[e[j]].round = 0 /\ t.queue[e[j]].n = u.queue[j].n
    BY <1>2 DEF Same
  <2>4. t.queue[e[i]].n < t.queue[e[j]].n
    BY <2>1, <2>2, <2>3 DEF InTurn
  <2>5. QED
    BY <2>3, <2>4
<1>5. TurnOK(u, c)
  BY <1>3, <1>4 DEF OrderOK, TurnOK, Ahead
<1>6. \A i \in DOMAIN u.queue : u.queue[i].round > 0 => Entered(u, u.queue[i])
  BY <1>2 DEF OrderOK, RegroupOK, Entered, Same
<1>7. (u.foreign = 0 => t.foreign = 0) /\ (u.foreign <= 1 => t.foreign <= 1)
  OBVIOUS
<1>8. RegroupOK(u, c)
  BY <1>2, <1>6, <1>7 DEF OrderOK, RegroupOK, Same
<1>9. QED
  BY <1>5, <1>8 DEF OrderOK

(* A call that publishes. *)
LEMMA GreatestTo ==
  ASSUME NEW b \in Nat, NEW T \in SUBSET (0..b), T # {}
  PROVE  Max(T) \in T /\ \A y \in T : y <= Max(T)
<1> DEFINE U == {y + 1 : y \in T}
<1>1. U \in SUBSET (1..(b + 1)) /\ U # {} /\ b + 1 \in Nat
  OBVIOUS
<1>2. PICK z \in U : \A y \in U : y <= z
  BY <1>1, GreatestOf
<1>3. PICK x \in T : z = x + 1
  OBVIOUS
<1>4. \A y \in T : x >= y
  <2> SUFFICES ASSUME NEW y \in T PROVE x >= y
    OBVIOUS
  <2>1. y + 1 \in U
    OBVIOUS
  <2>2. y + 1 <= x + 1
    BY <1>2, <1>3, <2>1
  <2>3. QED
    BY <2>2
<1>5. Max(T) \in T /\ \A y \in T : Max(T) >= y
  BY <1>4 DEF Max
<1>6. QED
  BY <1>5

(* What a client claims once these are published. *)
LEMMA ClaimedIs ==
  ASSUME NEW b \in Nat, NEW c \in [Keys -> 0..b], NEW p \in Seq(EntrySet), \A i \in DOMAIN p : p[i].n <= b
  PROVE  LET d == Claimed(c, p)
         IN  /\ d \in [Keys -> 0..b]
             /\ \A k \in Keys : d[k] = c[k] \/ \E i \in DOMAIN p : k \in DOMAIN p[i].sets /\ d[k] = p[i].n
             /\ \A k \in Keys : c[k] <= d[k]
             /\ \A k \in Keys, i \in DOMAIN p : k \in DOMAIN p[i].sets => p[i].n <= d[k]
<1> DEFINE N(k) == {p[i].n : i \in {j \in DOMAIN p : k \in DOMAIN p[j].sets}}
           T(k) == {c[k]} \cup N(k)
           d    == [k \in Keys |-> Max(T(k))]
<1>1. \A i \in DOMAIN p : p[i].n \in 0..b
  BY DEF EntrySet
<1>2. \A k \in Keys : T(k) \in SUBSET (0..b) /\ T(k) # {}
  BY <1>1
<1>3. \A k \in Keys : Max(T(k)) \in T(k) /\ \A y \in T(k) : y <= Max(T(k))
  <2> HIDE DEF T
  <2>1. QED
    BY <1>2, GreatestTo
<1>4. \A k \in Keys : d[k] \in T(k) /\ \A y \in T(k) : y <= d[k]
  <2> HIDE DEF T
  <2>1. QED
    BY <1>3
<1>5. d = Claimed(c, p)
  BY DEF Claimed
<1>6. d \in [Keys -> 0..b]
  <2>1. \A k \in Keys : d[k] \in 0..b
    <3> HIDE DEF d, T
    <3>1. QED
      BY <1>2, <1>4
  <2> HIDE DEF T
  <2>2. QED
    BY <2>1
<1> HIDE DEF d
<1>7. \A k \in Keys : d[k] = c[k] \/ \E i \in DOMAIN p : k \in DOMAIN p[i].sets /\ d[k] = p[i].n
  BY <1>4
<1>8. \A k \in Keys : c[k] <= d[k]
  BY <1>4
<1>9. \A k \in Keys, i \in DOMAIN p : k \in DOMAIN p[i].sets => p[i].n <= d[k]
  BY <1>4
<1>10. QED
  BY <1>5, <1>6, <1>7, <1>8, <1>9

(* What joins the tip is earlier than what is queued; and what the tip is   *)
(* claimed to hold then, it holds.                                          *)
Joined(t, q, c) ==
  /\ \A k \in Written(q) : Taken(q, c, k)
  /\ \A k \in Written(t.tip.writes) : Taken(t.tip.writes, c, k) \/ Taken(q, c, k)

LEMMA PublishOrder ==
  ASSUME NEW t, NEW c, Ready(t), OrderOK(t, c), t.merge.phase # "delta",
         NEW u, u.queue \in Seq(EntrySet), NEW K, PartAt(u.queue, t.queue, K),
         NEW p \in Seq(EntrySet), NEW L, PartAt(p, t.queue, L), \A x \in K, y \in L : y < x,
         u.made = t.made, u.probe = t.probe, u.foreign \in Nat, t.foreign <= u.foreign,
         u.tip.writes = t.tip.writes, u.merge = t.merge
  PROVE  /\ OrderOK(u, Claimed(c, p)) /\ Ahead(u, ClientsOf(p))
         /\ t.foreign = 0 /\ TipOK(t, c) => Joined(u, ClientsOf(p), Claimed(c, p))
<1> DEFINE d == Claimed(c, p)
           q == ClientsOf(p)
<1>1. /\ t.queue \in Seq(EntrySet) /\ t.made \in Nat /\ t.foreign \in Nat /\ c \in [Keys -> 0..t.made]
      /\ t.merge.writes \in Seq(KeptSet) /\ t.tip.writes \in Seq(KeptSet)
  BY MergeAssumption DEF Ready, StateSet, OrderOK, TurnOK, MergeSet, TipSet
<1>2. PICK e : Places(e, u.queue, t.queue, K)
  BY DEF PartAt
<1>3. PICK f : Places(f, p, t.queue, L)
  BY DEF PartAt
<1>4. \A i \in DOMAIN u.queue : e[i] \in DOMAIN t.queue /\ e[i] \in K /\ Same(u.queue[i], t.queue[e[i]])
  BY <1>2 DEF Places
<1>5. \A i \in DOMAIN p : f[i] \in DOMAIN t.queue /\ f[i] \in L /\ Same(p[i], t.queue[f[i]])
  BY <1>3 DEF Places
<1>6. \A i \in DOMAIN p : p[i].n \in Nat /\ p[i].round \in Nat /\ DOMAIN p[i].sets \subseteq Keys
  BY DEF EntrySet, Edits
<1>7. \A i \in DOMAIN p : p[i].round > 0 => Entered(t, p[i])
  BY <1>5 DEF OrderOK, RegroupOK, Entered, Same
<1>8. \A i \in DOMAIN p : Earlier(u.queue, p[i].n) /\ p[i].n <= t.made
  <2> SUFFICES ASSUME NEW i \in DOMAIN p PROVE Earlier(u.queue, p[i].n) /\ p[i].n <= t.made
    OBVIOUS
  <2>1. CASE p[i].round = 0
    <3>1. p[i].n <= t.made
      BY <1>5, <2>1 DEF Ready, QueueOK, Same
    <3>2. InTurn(t.queue)
      BY DEF OrderOK, TurnOK
    <3>3. ASSUME NEW j \in DOMAIN u.queue, u.queue[j].round = 0
          PROVE  p[i].n < u.queue[j].n
      <4>1. f[i] < e[j]
        BY <1>4, <1>5
      <4>2. QED
        BY <1>4, <1>5, <2>1, <3>2, <3>3, <4>1 DEF InTurn, Same
    <3>4. QED
      BY <3>1, <3>3 DEF Earlier
  <2>2. CASE p[i].round > 0
    <3>1. Entered(t, p[i]) /\ Ahead(t, t.merge.writes)
      BY <1>7, <2>2 DEF OrderOK, TurnOK
    <3>2. Earlier(t.queue, p[i].n) /\ p[i].n <= t.made
      BY <3>1 DEF Entered, Ahead
    <3>3. QED
      BY <1>4, <3>2 DEF Earlier, Same
  <2>3. QED
    BY <1>6, <2>1, <2>2
<1>9. /\ d \in [Keys -> 0..t.made]
      /\ \A k \in Keys : d[k] = c[k] \/ \E i \in DOMAIN p : k \in DOMAIN p[i].sets /\ d[k] = p[i].n
      /\ \A k \in Keys, i \in DOMAIN p : k \in DOMAIN p[i].sets => p[i].n <= d[k]
  <2>1. \A i \in DOMAIN p : p[i].n <= t.made
    BY <1>8
  <2> HIDE DEF d
  <2>2. QED
    BY <1>1, <2>1, ClaimedIs DEF d
<1>10. OrderOK(u, c)
  BY <1>1, PartOrder
<1> HIDE DEF d
<1>11. TurnOK(u, d)
  <2>1. \A k \in Keys : Earlier(u.queue, d[k])
    BY <1>8, <1>9, <1>10 DEF OrderOK, TurnOK
  <2>2. QED
    BY <1>9, <1>10, <2>1 DEF OrderOK, TurnOK
<1>12. RegroupOK(u, d)
  <2>1. ASSUME NEW i \in DOMAIN u.queue, u.queue[i].round > 0, NEW k \in DOMAIN u.queue[i].sets, u.foreign <= 1
        PROVE  Taken(u.merge.writes, d, k)
    <3>1. Taken(t.merge.writes, c, k)
      BY <1>10, <2>1 DEF OrderOK, RegroupOK
    <3>2. \A j \in DOMAIN p : p[j].round > 0
      <4> SUFFICES ASSUME NEW j \in DOMAIN p PROVE p[j].round > 0
        OBVIOUS
      <4>1. f[j] < e[i] /\ t.queue[e[i]].round > 0
        BY <1>4, <1>5, <2>1 DEF Same
      <4>2. MergesFirst(t.queue)
        BY DEF Ready, EntriesOK
      <4>3. QED
        BY <1>4, <1>5, <2>1, <4>1, <4>2 DEF MergesFirst, Same
    <3>3. k \in Keys
      BY <2>1 DEF EntrySet, Edits
    <3>4. CASE d[k] = c[k]
      BY <3>1, <3>4 DEF Taken
    <3>5. CASE \E j \in DOMAIN p : d[k] = p[j].n
      BY <1>7, <3>2, <3>5 DEF Taken, Entered
    <3>6. QED
      BY <1>9, <3>3, <3>4, <3>5
  <2>2. QED
    BY <1>10, <2>1 DEF OrderOK, RegroupOK
<1> DEFINE C == {i \in DOMAIN p : p[i].round = 0}
<1>a. C \in SUBSET DOMAIN p
  OBVIOUS
<1>e. \A i \in DOMAIN p : i \in C <=> p[i].round = 0
  OBVIOUS
<1>b. q = Only(p, C)
  BY DEF ClientsOf
<1> DEFINE m == Cardinality(C)
<1> HIDE DEF C
<1>13. DOMAIN Only(p, C) = 1..m /\ \E w : Walks(w, C) /\ \A j \in 1..m : Only(p, C)[j] = p[w[j]]
  BY <1>a, OnlyIs
<1>14. PICK w : Walks(w, C) /\ \A j \in 1..m : Only(p, C)[j] = p[w[j]]
  BY <1>13
<1>c. DOMAIN q = 1..m /\ \A j \in 1..m : q[j] = p[w[j]]
  BY <1>b, <1>13, <1>14
<1>d. (\A j \in 1..m : w[j] \in C) /\ \A i \in C : \E j \in 1..m : w[j] = i
  BY <1>14 DEF Walks
<1> HIDE DEF m
<1>f. C \subseteq DOMAIN p /\ \A j \in 1..m : w[j] \in DOMAIN p
  BY <1>a, <1>d
<1> HIDE DEF q
<1>15. /\ \A j \in DOMAIN q : w[j] \in DOMAIN p /\ p[w[j]].round = 0 /\ q[j] = p[w[j]]
       /\ \A i \in DOMAIN p : p[i].round = 0 => \E j \in DOMAIN q : q[j] = p[i]
  BY <1>c, <1>d, <1>e, <1>f
<1>16. Ahead(u, q)
  BY <1>8, <1>15 DEF Ahead
<1>17. ASSUME t.foreign = 0, TipOK(t, c)
       PROVE  Joined(u, q, d)
  <2>1. \A i \in DOMAIN p : p[i].round = 0
    <3>1. t.merge.phase = "none"
      BY <1>17 DEF OrderOK, RegroupOK
    <3>2. \A i \in DOMAIN t.queue : ~(t.queue[i].round > 0)
      BY <3>1 DEF Ready, EntriesOK, Remerged
    <3>3. QED
      BY <1>5, <1>6, <3>2 DEF Same
  <2>2. \A k \in Keys : (\E i \in DOMAIN p : d[k] = p[i].n) => Taken(q, d, k)
    BY <1>15, <2>1 DEF Taken
  <2>3. ASSUME NEW k \in Written(q)
        PROVE  Taken(q, d, k)
    <3>1. PICK j \in DOMAIN q : k \in DOMAIN q[j].sets
      BY <2>3 DEF Written
    <3>2. PICK i \in DOMAIN p : q[j] = p[i] /\ p[i].round = 0
      BY <1>15
    <3>3. k \in Keys
      BY <1>6, <3>1, <3>2
    <3>4. c[k] < p[i].n
      <4>1. Earlier(t.queue, c[k])
        BY <3>3 DEF OrderOK, TurnOK
      <4>2. QED
        BY <1>5, <3>2, <4>1 DEF Earlier, Same
    <3>5. p[i].n <= d[k] /\ p[i].n \in Nat /\ c[k] \in Nat /\ d[k] \in Nat
      BY <1>1, <1>6, <1>9, <3>1, <3>2, <3>3
    <3>6. d[k] # c[k]
      BY <3>4, <3>5
    <3>7. QED
      BY <1>9, <2>2, <3>3, <3>6
  <2>4. ASSUME NEW k \in Written(u.tip.writes)
        PROVE  Taken(u.tip.writes, d, k) \/ Taken(q, d, k)
    <3>1. k \in Keys /\ Taken(t.tip.writes, c, k)
      BY <1>1, <1>17, <2>4, WrittenKeys DEF TipOK
    <3>2. CASE d[k] = c[k]
      BY <3>1, <3>2 DEF Taken
    <3>3. QED
      BY <1>9, <2>2, <3>1, <3>2
  <2>5. QED
    BY <2>3, <2>4 DEF Joined
<1>18. QED
  BY <1>11, <1>12, <1>16, <1>17 DEF OrderOK, d, q

(* The end of a call: verdicts, the tip, a displacement, and what settles. *)
LEMMA WrittenTo ==
  ASSUME NEW S, NEW v \in Seq(S), NEW w \in Seq(S)
  PROVE  /\ \A k : k \in Written(v \o w) <=> k \in Written(v) \/ k \in Written(w)
         /\ \A c, k : Taken(v \o w, c, k) <=> Taken(v, c, k) \/ Taken(w, c, k)
         /\ \A t : Ahead(t, v \o w) <=> Ahead(t, v) /\ Ahead(t, w)
<1> DEFINE x == v \o w
           m == Len(v)
<1>1. /\ x \in Seq(S) /\ DOMAIN x = 1..(m + Len(w)) /\ DOMAIN v = 1..m /\ DOMAIN w = 1..Len(w)
      /\ m \in Nat /\ Len(w) \in Nat
      /\ \A i \in DOMAIN x : IF i <= m THEN x[i] = v[i] ELSE x[i] = w[i - m]
  OBVIOUS
<1> HIDE DEF x, m
<1>2. \A i \in DOMAIN x : (i \in DOMAIN v /\ x[i] = v[i]) \/ \E j \in DOMAIN w : x[i] = w[j]
  <2> SUFFICES ASSUME NEW i \in DOMAIN x
               PROVE  (i \in DOMAIN v /\ x[i] = v[i]) \/ \E j \in DOMAIN w : x[i] = w[j]
    OBVIOUS
  <2>1. CASE i <= m
    BY <1>1, <2>1
  <2>2. CASE ~(i <= m)
    <3>1. i - m \in DOMAIN w
      BY <1>1, <2>2
    <3>2. QED
      BY <1>1, <2>2, <3>1
  <2>3. QED
    BY <2>1, <2>2
<1>3. \A i \in DOMAIN v : i \in DOMAIN x /\ x[i] = v[i]
  BY <1>1
<1>4. \A j \in DOMAIN w : \E i \in DOMAIN x : x[i] = w[j]
  <2> SUFFICES ASSUME NEW j \in DOMAIN w PROVE \E i \in DOMAIN x : x[i] = w[j]
    OBVIOUS
  <2>1. j + m \in DOMAIN x /\ ~(j + m <= m) /\ (j + m) - m = j
    BY <1>1
  <2>2. QED
    BY <1>1, <2>1
<1>5. \A k : k \in Written(x) <=> k \in Written(v) \/ k \in Written(w)
  BY <1>2, <1>3, <1>4, WrittenIs
<1>6. \A c, k : Taken(x, c, k) <=> Taken(v, c, k) \/ Taken(w, c, k)
  BY <1>2, <1>3, <1>4 DEF Taken
<1>7. \A t : Ahead(t, x) <=> Ahead(t, v) /\ Ahead(t, w)
  <2>1. ASSUME NEW t, Ahead(t, x)
        PROVE  Ahead(t, v) /\ Ahead(t, w)
    BY <1>3, <1>4, <2>1 DEF Ahead
  <2>2. ASSUME NEW t, Ahead(t, v), Ahead(t, w)
        PROVE  Ahead(t, x)
    BY <1>2, <2>2 DEF Ahead
  <2>3. QED
    BY <2>1, <2>2
<1>8. QED
  BY <1>5, <1>6, <1>7 DEF x

LEMMA JoinOrder ==
  ASSUME NEW t, t \in StateSet, NEW c, OrderOK(t, c), NEW q \in Seq(EntrySet), Ahead(t, q)
  PROVE  LET u == JoinTip(t, q)
         IN  /\ OrderOK(u, c) /\ (Joined(t, q, c) => TipOK(u, c))
             /\ u.foreign = t.foreign /\ u.pub = t.pub /\ u.seen = t.seen /\ u.probe = t.probe
             /\ u.merge = t.merge
<1> DEFINE ws == [i \in DOMAIN q |-> TipWrite(q[i])]
           u  == JoinTip(t, q)
<1>1. t.tip \in TipSet /\ t.tip.writes \in Seq(KeptSet)
  BY DEF StateSet, TipSet
<1>2. /\ ws \in Seq(KeptSet) /\ DOMAIN ws = DOMAIN q
      /\ \A i \in DOMAIN q : ws[i].n = q[i].n /\ ws[i].sets = q[i].sets
  <2>1. \A i \in DOMAIN q : TipWrite(q[i]) \in KeptSet /\ TipWrite(q[i]).n = q[i].n /\ TipWrite(q[i]).sets = q[i].sets
    BY DEF TipWrite, KeptSet, EntrySet
  <2>2. QED
    BY <2>1
<1>3. CASE q = <<>>
  <2>1. u = t
    BY <1>3 DEF JoinTip
  <2>2. Joined(t, q, c) => TipOK(t, c)
    BY <1>3 DEF Joined, TipOK, Taken
  <2>3. QED
    BY <2>1, <2>2
<1>4. CASE q # <<>>
  <2> HIDE DEF ws
  <2>1. PICK tw : /\ tw \in {t.tip.writes \o ws, ws} /\ u.tip.writes = tw
                  /\ u.queue = t.queue /\ u.made = t.made /\ u.probe = t.probe /\ u.merge = t.merge
                  /\ u.foreign = t.foreign /\ u.pub = t.pub /\ u.seen = t.seen
    <3>1. CASE t.tip.head = t.pub
      <4> DEFINE tw == t.tip.writes \o ws
      <4>1. u = [t EXCEPT !.tip.writes = tw]
        BY <1>4, <3>1 DEF JoinTip, ws
      <4> HIDE DEF tw, u
      <4>2. /\ u.tip.writes = tw
            /\ u.queue = t.queue /\ u.made = t.made /\ u.probe = t.probe /\ u.merge = t.merge
            /\ u.foreign = t.foreign /\ u.pub = t.pub /\ u.seen = t.seen
        BY <1>1, <4>1 DEF StateSet, TipSet
      <4>3. QED
        BY <4>2 DEF tw
    <3>2. CASE t.tip.head # t.pub
      <4>1. u = [t EXCEPT !.tip = [head |-> t.pub, base |-> t.prev, writes |-> ws]]
        BY <1>4, <3>2 DEF JoinTip, ws
      <4> HIDE DEF u
      <4>2. /\ u.tip.writes = ws
            /\ u.queue = t.queue /\ u.made = t.made /\ u.probe = t.probe /\ u.merge = t.merge
            /\ u.foreign = t.foreign /\ u.pub = t.pub /\ u.seen = t.seen
        BY <1>1, <4>1 DEF StateSet
      <4>3. QED
        BY <4>2
    <3>3. QED
      BY <3>1, <3>2
  <2> HIDE DEF u
  <2>2. Ahead(t, ws) /\ Ahead(t, t.tip.writes)
    BY <1>2 DEF Ahead, OrderOK, TurnOK
  <2>3. /\ \A k : k \in Written(q) <=> k \in Written(ws)
        /\ \A k : Taken(q, c, k) <=> Taken(ws, c, k)
    BY <1>2 DEF Written, Taken
  <2>a. LET v == t.tip.writes
        IN  /\ \A k : k \in Written(v \o ws) <=> k \in Written(v) \/ k \in Written(ws)
            /\ \A k : Taken(v \o ws, c, k) <=> Taken(v, c, k) \/ Taken(ws, c, k)
            /\ Ahead(t, v \o ws) <=> Ahead(t, v) /\ Ahead(t, ws)
    <3> DEFINE v == t.tip.writes
    <3>1. v \in Seq(KeptSet)
      BY <1>1
    <3> HIDE DEF v
    <3>2. /\ \A k : k \in Written(v \o ws) <=> k \in Written(v) \/ k \in Written(ws)
          /\ \A k : Taken(v \o ws, c, k) <=> Taken(v, c, k) \/ Taken(ws, c, k)
          /\ Ahead(t, v \o ws) <=> Ahead(t, v) /\ Ahead(t, ws)
      BY <1>2, <3>1, WrittenTo
    <3>3. QED
      BY <3>2 DEF v
  <2>4. Ahead(t, tw)
    BY <2>1, <2>2, <2>a
  <2>5. Joined(t, q, c) => \A k \in Written(tw) : Taken(tw, c, k)
    <3>1. CASE tw = ws
      BY <2>3, <3>1 DEF Joined
    <3>2. CASE tw = t.tip.writes \o ws
      BY <2>3, <2>a, <3>2 DEF Joined
    <3>3. QED
      BY <2>1, <3>1, <3>2
  <2>6. TurnOK(u, c)
    BY <2>1, <2>4 DEF OrderOK, TurnOK, Ahead
  <2>7. RegroupOK(u, c)
    BY <2>1 DEF OrderOK, RegroupOK, Entered
  <2>8. QED
    BY <2>1, <2>5, <2>6, <2>7 DEF OrderOK, TipOK, u
<1>5. QED
  BY <1>3, <1>4

LEMMA EmptyWritten ==
  ASSUME NEW ws, ws = <<>>
  PROVE  Written(ws) = {} /\ (\A t : Ahead(t, ws)) /\ \A t, c : TipOK(t, c) => Joined(t, ws, c)
BY DEF Written, Ahead, TipOK, Joined

LEMMA DisplacedOrder ==
  ASSUME NEW t, Ready(t), NEW c, OrderOK(t, c), NEW ours,
         t.foreign = 0 => ours \/ t.pub = t.seen,
         ours \/ t.pub = t.seen \/ t.foreign > 1 \/ TipOK(t, c)
  PROVE  LET u == Displaced(t, ours)
         IN  OrderOK(u, c) /\ u.foreign = t.foreign /\ u.made = t.made /\ (t.foreign = 0 => u = t)
<1>1. /\ t \in StateSet /\ t.tip \in TipSet /\ t.rounds \in Nat /\ t.queue \in Seq(EntrySet)
      /\ t.tip.writes \in Seq(KeptSet) /\ t.foreign \in Nat
  BY DEF Ready, StateSet, TipSet
<1>2. CASE ours \/ t.pub = t.seen \/ t.tip = NoTip \/ t.pub = t.tip.head \/ t.pub.seq < t.tip.head.seq
  <2>1. Displaced(t, ours) = t
    BY <1>2 DEF Displaced
  <2>2. QED
    BY <2>1
<1>3. CASE ~ours /\ t.pub # t.seen /\ t.tip # NoTip /\ t.pub # t.tip.head /\ ~(t.pub.seq < t.tip.head.seq)
  <2>1. /\ NoEntry(t) /\ t.foreign # 0 /\ (t.foreign <= 1 => TipOK(t, c))
        /\ NoTip.writes = <<>> /\ Ahead(t, t.tip.writes) /\ \A u : Ahead(u, NoTip.writes)
    <3>1. \A i \in DOMAIN t.queue : t.queue[i].round \in Nat
      BY <1>1 DEF EntrySet
    <3>2. \A i \in DOMAIN t.queue : ~(t.queue[i].round > 0)
      BY <1>3 DEF Ready, EntriesOK, Remerged
    <3>3. NoTip.writes = <<>>
      BY DEF NoTip
    <3>4. QED
      BY <1>1, <1>3, <3>1, <3>2, <3>3, EmptyWritten DEF NoEntry, OrderOK, TurnOK
  <2>2. CASE t.prev = t.tip.head
    <3> DEFINE u == [t EXCEPT !.tip = NoTip]
    <3>1. /\ u.tip = NoTip /\ u.merge = t.merge /\ u.queue = t.queue /\ u.made = t.made
          /\ u.probe = t.probe /\ u.foreign = t.foreign
      BY <1>1 DEF StateSet
    <3>2. Displaced(t, ours) = u
      BY <1>3, <2>2 DEF Displaced
    <3> HIDE DEF u
    <3>3. OrderOK(u, c)
      BY <2>1, <3>1 DEF OrderOK, TurnOK, RegroupOK, Ahead, Entered
    <3>4. QED
      BY <2>1, <3>1, <3>2, <3>3
  <2>3. CASE t.prev # t.tip.head /\ t.prev # NoHead /\ t.prev = t.tip.base /\ t.pub.seq = t.tip.head.seq
    <3> DEFINE u == StartMerge(t)
    <3>1. /\ u.tip = NoTip /\ u.merge.writes = t.tip.writes /\ u.merge.phase = "delta" /\ u.queue = t.queue
          /\ u.made = t.made /\ u.probe = t.probe /\ u.foreign = t.foreign
      BY <1>1 DEF StateSet, StartMerge, NoMerge
    <3>2. Displaced(t, ours) = u
      BY <1>3, <2>3 DEF Displaced
    <3> HIDE DEF u
    <3>3. TurnOK(u, c)
      BY <2>1, <3>1 DEF OrderOK, TurnOK, Ahead
    <3>4. RegroupOK(u, c)
      <4>1. \A i \in DOMAIN u.queue : ~(u.queue[i].round > 0)
        BY <2>1, <3>1 DEF NoEntry
      <4>2. QED
        BY <2>1, <3>1, <4>1 DEF RegroupOK, TipOK
    <3>5. QED
      BY <2>1, <3>1, <3>2, <3>3, <3>4 DEF OrderOK
  <2>4. CASE /\ t.prev # t.tip.head
             /\ ~(t.prev # NoHead /\ t.prev = t.tip.base /\ t.pub.seq = t.tip.head.seq)
    <3> DEFINE u == [StartProbe(t, t.tip.writes) EXCEPT !.tip = NoTip]
    <3>1. /\ u.tip = NoTip /\ u.merge = t.merge /\ u.queue = t.queue
          /\ u.made = t.made /\ u.foreign = t.foreign /\ u.probe.writes = t.tip.writes
          /\ u.probe.pending = Written(t.tip.writes) /\ u.probe.superseded = {}
      BY <1>1 DEF StateSet, StartProbe
    <3>2. Displaced(t, ours) = u
      BY <1>3, <2>4 DEF Displaced
    <3> HIDE DEF u
    <3>3. OrderOK(u, c)
      BY <2>1, <3>1 DEF OrderOK, TurnOK, RegroupOK, Ahead, Entered
    <3>4. QED
      BY <2>1, <3>1, <3>2, <3>3
  <2>5. QED
    BY <2>2, <2>3, <2>4
<1>4. QED
  BY <1>2, <1>3

(* A merge that is over leaves what landed of it as the tip. *)
LEMMA FinishedOrder ==
  ASSUME NEW t, Ready(t), NEW c, OrderOK(t, c)
  PROVE  LET u == Finished(t)
         IN  /\ OrderOK(u, c) /\ u.foreign = t.foreign /\ u.made = t.made
             /\ t.foreign = 0 => u = t
<1> DEFINE m == t.merge
           u == Finished(t)
<1>1. t \in StateSet /\ m \in MergeSet /\ m.writes \in Seq(KeptSet) /\ t.queue \in Seq(EntrySet)
  BY DEF Ready, StateSet, MergeSet
<1>2. CASE ~MergeDone(m)
  BY <1>2 DEF Finished
<1>3. CASE MergeDone(m)
  <2> DEFINE ws == LandedWrites(m)
             J  == DOMAIN m.writes \ (DOMAIN m.writes \ m.landed)
  <2>1. PICK tw : /\ tw \in {ws, t.tip.writes} /\ u.tip.writes = tw
                  /\ u.merge = NoMerge /\ u.queue = t.queue /\ u.made = t.made /\ u.probe = t.probe
                  /\ u.foreign = t.foreign
    <3>1. u = FinishMerge(t)
      BY <1>3 DEF Finished
    <3> HIDE DEF ws, u, m
    <3>2. QED
      BY <1>1, <3>1 DEF FinishMerge, StateSet, m, ws
  <2>2. J \in SUBSET DOMAIN m.writes /\ ws = Only(m.writes, J)
    BY DEF LandedWrites, Without
  <2>3. Ahead(t, m.writes) /\ Ahead(t, t.tip.writes)
    BY DEF OrderOK, TurnOK
  <2> HIDE DEF J
  <2> DEFINE l == Cardinality(J)
  <2>4. DOMAIN Only(m.writes, J) = 1..l /\ \E w : Walks(w, J) /\ \A j \in 1..l : Only(m.writes, J)[j] = m.writes[w[j]]
    BY <1>1, <2>2, OnlyIs
  <2>5. PICK w : Walks(w, J) /\ \A j \in 1..l : Only(m.writes, J)[j] = m.writes[w[j]]
    BY <2>4
  <2>6. \A j \in 1..l : w[j] \in DOMAIN m.writes
    BY <2>2, <2>5 DEF Walks
  <2> HIDE DEF ws, l, u
  <2>7. Ahead(t, ws)
    BY <2>2, <2>3, <2>4, <2>5, <2>6 DEF Ahead
  <2>8. Ahead(t, tw)
    BY <2>1, <2>3, <2>7
  <2>9. NoMerge.writes = <<>> /\ NoMerge.phase = "none" /\ \A v : Ahead(v, NoMerge.writes)
    <3>1. NoMerge.writes = <<>> /\ NoMerge.phase = "none"
      BY DEF NoMerge
    <3>2. QED
      BY <3>1, EmptyWritten
  <2>10. \A i \in DOMAIN t.queue : ~(t.queue[i].round > 0)
    <3>1. m.sent \ (m.landed \cup m.fell) = {}
      BY <1>3 DEF MergeDone
    <3>2. QED
      BY <3>1 DEF Ready, EntriesOK, Remerged
  <2>11. TurnOK(u, c)
    BY <2>1, <2>8, <2>9 DEF OrderOK, TurnOK, Ahead
  <2>12. RegroupOK(u, c)
    BY <2>1, <2>9, <2>10 DEF RegroupOK
  <2>13. t.foreign # 0
    BY <1>3 DEF OrderOK, RegroupOK, MergeDone
  <2>14. QED
    BY <2>1, <2>11, <2>12, <2>13 DEF OrderOK, u
<1>4. QED
  BY <1>2, <1>3

LEMMA SettledOrder ==
  ASSUME NEW t, Ready(t), NEW c, OrderOK(t, c), t.foreign = 0 => TipOK(t, c)
  PROVE  LET u == Settled(t)
             d == ProbeTells(t.probe, MergeTells(t.merge, c))
         IN  OrderOK(u, d) /\ (u.foreign = 0 => TipOK(u, d))
<1> DEFINE d == ProbeTells(t.probe, MergeTells(t.merge, c))
           x == [t EXCEPT !.seen = t.pub]
           y == Finished(x)
           z == ReleaseHold(y)
           v == FinishProbe(z)
<1>1. t \in StateSet /\ t.made \in Nat /\ t.queue \in Seq(EntrySet) /\ c \in [Keys -> 0..t.made]
        /\ t.merge.writes \in Seq(KeptSet) /\ t.tip.writes \in Seq(KeptSet)
  BY MergeAssumption DEF Ready, StateSet, MergeSet, TipSet, OrderOK, TurnOK
<1>2. Given(d, c, t)
  <2> DEFINE m == MergeTells(t.merge, c)
  <2>1. Given(m, c, t)
    <3>1. Given(c, c, t)
      BY <1>1 DEF Given
    <3>2. QED
      BY <1>1, <3>1, ToldGiven DEF MergeTells
  <2> HIDE DEF m
  <2>2. Given(ProbeTells(t.probe, m), m, t)
    <3>1. m \in [Keys -> 0..t.made]
      BY <2>1 DEF Given
    <3>2. Given(m, m, t)
      BY <3>1 DEF Given
    <3>3. QED
      BY <1>1, <3>1, <3>2, ToldGiven DEF ProbeTells
  <2>3. QED
    BY <2>1, <2>2, GivenTwice DEF m
<1> HIDE DEF d
<1>3. OrderOK(t, d) /\ (t.foreign = 0 => TipOK(t, d))
  BY <1>1, <1>2, OrderGiven, TipGiven
<1>4. /\ Ready(x) /\ x.queue = t.queue /\ x.made = t.made /\ x.probe = t.probe /\ x.foreign = t.foreign
      /\ x.tip = t.tip /\ x.merge = t.merge
  BY <1>1, SeenReady DEF StateSet
<1> HIDE DEF x
<1>5. OrderOK(x, d) /\ (x.foreign = 0 => TipOK(x, d))
  BY <1>3, <1>4, OrderSame
<1>6. Ready(y) /\ OrderOK(y, d) /\ (y.foreign = 0 => TipOK(y, d))
  BY <1>4, <1>5, FinishedReady, FinishedOrder
<1> HIDE DEF y
<1>7. /\ z \in StateSet /\ z.queue = y.queue /\ z.made = y.made /\ z.probe = y.probe
      /\ z.foreign = y.foreign /\ z.tip = y.tip /\ z.merge = y.merge
  BY <1>6 DEF Ready, StateSet, ReleaseHold
<1> HIDE DEF z
<1>8. OrderOK(z, d) /\ (z.foreign = 0 => TipOK(z, d))
  BY <1>6, <1>7, OrderSame
<1>9. OrderOK(v, d) /\ (v.foreign = 0 => TipOK(v, d))
  <2>1. CASE z.probe.pending # {}
    BY <1>8, <2>1 DEF FinishProbe
  <2>2. CASE z.probe.pending = {}
    <3>1. v = [z EXCEPT !.probe = NoProbe]
      BY <2>2 DEF FinishProbe
    <3> HIDE DEF v
    <3>2. /\ v.queue = z.queue /\ v.made = z.made /\ v.probe = NoProbe
          /\ v.foreign = z.foreign /\ v.tip = z.tip /\ v.merge = z.merge
      BY <1>7, <3>1 DEF StateSet
    <3>3. Ahead(v, NoProbe.writes) /\ NoProbe.pending \cup NoProbe.superseded \subseteq Written(NoProbe.writes)
      BY EmptyWritten DEF NoProbe
    <3>4. TurnOK(v, d)
      BY <1>8, <3>2, <3>3 DEF OrderOK, TurnOK, Ahead
    <3>5. RegroupOK(v, d)
      BY <1>8, <3>2 DEF OrderOK, RegroupOK, Entered
    <3>6. v.foreign = 0 => TipOK(v, d)
      BY <1>8, <3>2 DEF TipOK
    <3>7. QED
      BY <3>4, <3>5, <3>6 DEF OrderOK
  <2>3. QED
    BY <2>1, <2>2
<1>10. Settled(t) = v
  BY DEF Settled, v, z, y, x
<1> HIDE DEF v
<1>11. QED
  BY <1>9, <1>10 DEF d

LEMMA EndOrder ==
  ASSUME NEW t, Ready(t), NEW c, OrderOK(t, c), t.foreign = 0 => TipOK(t, c), EndCall(t, c)
  PROVE  OrderInv'
<1> DEFINE u == Settled(t)
           d == ProbeTells(t.probe, MergeTells(t.merge, c))
<1>1. OrderOK(u, d) /\ (u.foreign = 0 => TipOK(u, d))
  BY SettledOrder
<1>2. s' = u /\ claim' = d
  BY DEF EndCall
<1> HIDE DEF u, d
<1>3. OrderOK(s', claim') /\ (s'.foreign = 0 => TipOK(s', claim'))
  BY <1>1, <1>2
<1>4. QED
  BY <1>3 DEF OrderInv

LEMMA CallOrder ==
  ASSUME NEW t, NEW p, NEW e, Ends(t, p, e), NEW c, OrderOK(t, c), Ahead(t, ClientsOf(p)),
         t.foreign = 0 => (p # <<>> \/ t.pub = t.seen) /\ Joined(t, ClientsOf(p), c),
         p # <<>> \/ t.pub = t.seen \/ t.foreign > 1 \/ TipOK(t, c),
         NEW w \in {t, CloseCut(t)}, EndCall(SameIdentity(w, p, e), c)
  PROVE  OrderInv'
<1> DEFINE a  == MergeVerdicts(w, p, e)
           cs == ClientsOf(p)
           b  == JoinTip(a, cs)
           ours == p # <<>>
           v  == SameIdentity(w, p, e)
<1>0. /\ Ends(w, p, e) /\ w \in StateSet /\ w.queue = t.queue /\ w.made = t.made /\ w.probe = t.probe
      /\ w.foreign = t.foreign /\ w.tip = t.tip /\ w.merge = t.merge /\ w.pub = t.pub /\ w.seen = t.seen
  <2>1. t \in StateSet
    BY DEF Ends, Ready
  <2>2. Ends(w, p, e)
    BY CloseEnds
  <2>3. QED
    BY <2>1, <2>2 DEF Ends, Ready, StateSet, CloseCut
<1>1. /\ Ready(w) /\ Mine(w, p) \subseteq Nat /\ Mine(w, e) \subseteq Nat
      /\ Off(w, Mine(w, p) \cup Mine(w, e)) /\ Joins(w, cs)
  BY <1>0 DEF Ends
<1>2. OrderOK(w, c) /\ (TipOK(t, c) => TipOK(w, c))
  BY <1>0, OrderSame
<1>3. /\ Ready(a) /\ a.queue = w.queue /\ a.pub = w.pub /\ a.tip = w.tip /\ a.made = w.made
      /\ a.seen = w.seen /\ a.held = w.held /\ a.merge.phase = w.merge.phase
      /\ a.probe = w.probe /\ a.foreign = w.foreign /\ a.merge.writes = w.merge.writes
  <2>1. /\ a.probe = w.probe /\ a.foreign = w.foreign /\ a.merge.writes = w.merge.writes
    BY <1>0 DEF MergeVerdicts, StateSet, MergeSet
  <2>2. QED
    BY <1>1, <2>1, VerdictsReady
<1>4. OrderOK(a, c) /\ (TipOK(t, c) => TipOK(a, c))
  BY <1>2, <1>3, OrderSame
<1> HIDE DEF a
<1>5. cs \in Seq(EntrySet) /\ Ahead(a, cs) /\ a \in StateSet
  BY <1>0, <1>1, <1>3 DEF Joins, Ahead, Ready
<1>6. p = <<>> => cs = <<>>
  <2>1. ASSUME p = <<>>
        PROVE  {i \in DOMAIN p : p[i].round = 0} = {}
    BY <2>1
  <2>2. Cardinality({}) = 0
    BY FS_EmptySet
  <2>3. \A q : Only(q, {}) = <<>>
    BY <2>2 DEF Only
  <2>4. QED
    BY <2>1, <2>3 DEF ClientsOf
<1>7. Joins(a, cs)
  BY <1>0, <1>1, <1>3 DEF Joins, OwnWrites, NoEntry
<1>8. Joined(t, cs, c) => Joined(a, cs, c)
  BY <1>0, <1>3 DEF Joined
<1> HIDE DEF cs
<1>9. Ready(b) /\ (cs = <<>> => b = a)
  BY <1>3, <1>7, JoinReady
<1>10. /\ OrderOK(b, c) /\ (Joined(a, cs, c) => TipOK(b, c))
       /\ b.foreign = a.foreign /\ b.pub = a.pub /\ b.seen = a.seen
  BY <1>4, <1>5, JoinOrder
<1> HIDE DEF b
<1>11. /\ b.foreign = 0 => (ours \/ b.pub = b.seen) /\ TipOK(b, c)
       /\ ours \/ b.pub = b.seen \/ b.foreign > 1 \/ TipOK(b, c)
  BY <1>0, <1>3, <1>4, <1>6, <1>8, <1>9, <1>10 DEF cs
<1>12. Moved(b) \/ ours
  BY <1>0, <1>3, <1>6, <1>9 DEF Ends, Moved
<1> HIDE DEF ours
<1>13. /\ OrderOK(Displaced(b, ours), c) /\ (b.foreign = 0 => Displaced(b, ours) = b)
       /\ Displaced(b, ours).foreign = b.foreign
  BY <1>9, <1>10, <1>11, DisplacedOrder
<1>14. v = Displaced(b, ours)
  BY DEF SameIdentity, v, a, b, cs, ours
<1>15. Ready(v)
  BY <1>0, CallReady
<1> HIDE DEF v
<1>16. OrderOK(v, c) /\ (v.foreign = 0 => TipOK(v, c))
  BY <1>11, <1>13, <1>14
<1>17. QED
  BY <1>15, <1>16, EndOrder DEF v

(* A call that publishes nothing. *)
LEMMA QuietOrder ==
  ASSUME NEW t, NEW e, Ends(t, <<>>, e), NEW c, OrderOK(t, c),
         t.foreign = 0 => t.pub = t.seen /\ TipOK(t, c), t.pub = t.seen \/ t.foreign > 1 \/ TipOK(t, c),
         NEW w \in {t, CloseCut(t)}, EndCall(SameIdentity(w, <<>>, e), c)
  PROVE  OrderInv'
<1> DEFINE z == <<>>
           q == ClientsOf(z)
<1>1. q = <<>>
  <2>1. {i \in DOMAIN z : z[i].round = 0} = {}
    OBVIOUS
  <2>2. Cardinality({}) = 0
    BY FS_EmptySet
  <2>3. Only(z, {}) = <<>>
    BY <2>2 DEF Only
  <2> HIDE DEF z
  <2>4. QED
    BY <2>1, <2>3 DEF ClientsOf
<1>2. Ahead(t, q) /\ (TipOK(t, c) => Joined(t, q, c))
  BY <1>1, EmptyWritten
<1> HIDE DEF q
<1>3. /\ t.foreign = 0 => t.pub = t.seen /\ Joined(t, q, c)
      /\ t.pub = t.seen \/ t.foreign > 1 \/ TipOK(t, c)
  BY <1>2
<1>4. Ends(t, z, e) /\ EndCall(SameIdentity(w, z, e), c)
  OBVIOUS
<1> HIDE DEF z
<1>5. QED
  BY <1>2, <1>3, <1>4, CallOrder DEF q

(* A client's write is queued behind what is there. *)
LEMMA AppendOrder ==
  ASSUME NEW t, t \in StateSet, QueueOK(t), NEW c, OrderOK(t, c),
         NEW x \in EntrySet, x.round = 0, x.n = t.made + 1,
         NEW u, u.queue = Append(t.queue, x), u.made = t.made + 1, u.probe = t.probe,
         u.foreign = t.foreign, u.tip = t.tip, u.merge = t.merge
  PROVE  OrderOK(u, c) /\ (TipOK(t, c) => TipOK(u, c))
<1> DEFINE q == t.queue
           r == Append(q, x)
           l == Len(q) + 1
<1>1. /\ q \in Seq(EntrySet) /\ t.made \in Nat /\ t.tip.writes \in Seq(KeptSet)
      /\ t.merge.writes \in Seq(KeptSet) /\ t.probe.writes \in Seq(KeptSet)
  BY MergeAssumption DEF StateSet, TipSet, MergeSet, ProbeSet
<1>2. /\ l \in Int /\ DOMAIN r = DOMAIN q \cup {l} /\ r[l] = x
      /\ \A i \in DOMAIN q : r[i] = q[i] /\ i < l /\ i \in Int
  BY <1>1
<1>3. \A i \in DOMAIN q : q[i].round = 0 => q[i].n <= t.made /\ q[i].n \in Nat
  BY <1>1 DEF QueueOK, EntrySet
<1>4. u.queue = r
  OBVIOUS
<1> HIDE DEF r, l
<1>5. \A n \in Nat : Earlier(q, n) /\ n <= t.made => Earlier(r, n)
  <2> SUFFICES ASSUME NEW n \in Nat, Earlier(q, n), n <= t.made, NEW i \in DOMAIN r, r[i].round = 0
               PROVE  n < r[i].n
    BY DEF Earlier
  <2>1. CASE i = l
    BY <1>1, <1>2, <2>1
  <2>2. CASE i # l
    BY <1>2, <2>2 DEF Earlier
  <2>3. QED
    BY <2>1, <2>2
<1>6. InTurn(r)
  <2> SUFFICES ASSUME NEW i \in DOMAIN r, NEW j \in DOMAIN r, i < j, r[i].round = 0, r[j].round = 0
               PROVE  r[i].n < r[j].n
    BY DEF InTurn
  <2>0. InTurn(q)
    BY DEF OrderOK, TurnOK
  <2>1. i \in DOMAIN q
    BY <1>2
  <2>2. CASE j = l
    BY <1>1, <1>2, <1>3, <2>1, <2>2
  <2>3. CASE j # l
    BY <1>2, <2>0, <2>1, <2>3 DEF InTurn
  <2>4. QED
    BY <2>2, <2>3
<1>7. ASSUME NEW ws \in Seq(KeptSet), Ahead(t, ws)
      PROVE  Ahead(u, ws)
  <2>1. \A i \in DOMAIN ws : ws[i].n \in Nat
    BY DEF KeptSet
  <2>2. \A i \in DOMAIN ws : Earlier(q, ws[i].n) /\ ws[i].n <= t.made
    BY <1>7 DEF Ahead
  <2>3. QED
    BY <1>1, <1>4, <1>5, <2>1, <2>2 DEF Ahead
<1>8. TurnOK(u, c)
  <2>1. TurnOK(t, c)
    BY DEF OrderOK
  <2>2. c \in [Keys -> 0..t.made] /\ c \in [Keys -> 0..u.made]
    BY <1>1, <2>1 DEF TurnOK
  <2>3. Earlier(r, 0) /\ \A k \in Keys : Earlier(r, c[k])
    BY <1>1, <1>5, <2>1, <2>2 DEF TurnOK
  <2>4. Ahead(u, u.tip.writes) /\ Ahead(u, u.merge.writes) /\ Ahead(u, u.probe.writes)
    BY <1>1, <1>7, <2>1 DEF TurnOK
  <2>5. QED
    BY <1>4, <1>6, <2>1, <2>2, <2>3, <2>4 DEF TurnOK
<1>9. RegroupOK(u, c)
  <2>1. \A i \in DOMAIN r : r[i].round > 0 => i \in DOMAIN q /\ r[i] = q[i]
    BY <1>2
  <2>2. QED
    BY <1>4, <2>1 DEF OrderOK, RegroupOK, Entered
<1>10. QED
  BY <1>8, <1>9 DEF OrderOK, TipOK

(* The front of the queue leaves it, published or not. *)
LEMMA FrontOrder ==
  ASSUME NEW t, Ready(t), NEW c, OrderOK(t, c), NEW m \in 0..Len(t.queue), NEW u,
         \/ u.queue = SubSeq(t.queue, m + 1, Len(t.queue))
         \/ u.queue = Cold(SubSeq(t.queue, m + 1, Len(t.queue))),
         u.queue \in Seq(EntrySet), u.made = t.made, u.probe = t.probe, u.foreign \in Nat,
         t.foreign <= u.foreign, u.tip = t.tip, u.merge = t.merge
  PROVE  LET done == SubSeq(t.queue, 1, m)
         IN  /\ OrderOK(u, c)
             /\ t.merge.phase # "delta" =>
                  /\ OrderOK(u, Claimed(c, done)) /\ Ahead(u, ClientsOf(done))
                  /\ t.foreign = 0 /\ TipOK(t, c) => Joined(u, ClientsOf(done), Claimed(c, done))
<1> DEFINE q    == t.queue
           done == SubSeq(q, 1, m)
           rest == SubSeq(q, m + 1, Len(q))
           K    == (m + 1)..Len(q)
           L    == 1..m
<1>1. q \in Seq(EntrySet) /\ Len(q) \in Nat /\ m \in Nat /\ t.foreign \in Nat
  BY DEF Ready, StateSet
<1>2. done \in Seq(EntrySet) /\ rest \in Seq(EntrySet)
  BY <1>1, FrontBack
<1>3. PartAt(done, q, L) /\ PartAt(rest, q, K)
  BY <1>1, FrontPart, BackPart
<1>4. \A x \in K, y \in L : y < x
  BY <1>1
<1>5. u.queue = rest \/ u.queue = Cold(rest)
  OBVIOUS
<1> HIDE DEF done, rest, K, L
<1>6. PartAt(u.queue, q, K)
  <2>1. CASE u.queue = rest
    BY <1>3, <2>1
  <2>2. CASE u.queue = Cold(rest)
    BY <1>2, <1>3, <2>2, ColdPart
  <2>3. QED
    BY <1>5, <2>1, <2>2
<1>7. OrderOK(u, c)
  BY <1>1, <1>6, PartOrder
<1>8. t.merge.phase # "delta" =>
        /\ OrderOK(u, Claimed(c, done)) /\ Ahead(u, ClientsOf(done))
        /\ t.foreign = 0 /\ TipOK(t, c) => Joined(u, ClientsOf(done), Claimed(c, done))
  BY <1>2, <1>3, <1>4, <1>6, PublishOrder
<1>9. QED
  BY <1>7, <1>8 DEF done, q

LEMMA SettledSame ==
  ASSUME NEW t, Ready(t)
  PROVE  Settled(t).pub = t.pub /\ Settled(t).foreign = t.foreign
<1> DEFINE x == [t EXCEPT !.seen = t.pub]
           y == Finished(x)
           z == ReleaseHold(y)
           v == FinishProbe(z)
<1>1. t \in StateSet
  BY DEF Ready
<1>2. Ready(x) /\ x \in StateSet /\ x.pub = t.pub /\ x.foreign = t.foreign
  BY <1>1, SeenReady DEF StateSet, Ready
<1> HIDE DEF x
<1>3. y \in StateSet /\ y.pub = x.pub /\ y.foreign = x.foreign
  <2>1. y \in StateSet
    BY <1>2, FinishedReady DEF Ready
  <2>2. y.pub = x.pub /\ y.foreign = x.foreign
    BY <1>2 DEF Finished, FinishMerge, StateSet
  <2>3. QED
    BY <2>1, <2>2
<1> HIDE DEF y
<1>4. z \in StateSet /\ z.pub = y.pub /\ z.foreign = y.foreign
  BY <1>3 DEF StateSet, ReleaseHold
<1> HIDE DEF z
<1>5. v.pub = z.pub /\ v.foreign = z.foreign
  BY <1>4 DEF StateSet, FinishProbe
<1>6. Settled(t) = v
  BY DEF Settled, v, z, y, x
<1> HIDE DEF v
<1>7. QED
  BY <1>2, <1>3, <1>4, <1>5, <1>6

LEMMA CallSame ==
  ASSUME NEW t, NEW p, NEW e, Ends(t, p, e)
  PROVE  LET u == SameIdentity(t, p, e)
         IN  /\ u.pub = t.pub /\ u.foreign = t.foreign
             /\ p # <<>> => u.probe = t.probe /\ u.merge.writes = t.merge.writes
<1> DEFINE a  == MergeVerdicts(t, p, e)
           cs == ClientsOf(p)
           b  == JoinTip(a, cs)
           ours == p # <<>>
           u  == SameIdentity(t, p, e)
<1>1. Ready(t) /\ t \in StateSet /\ Joins(t, cs)
  BY DEF Ends, Ready
<1>2. /\ Ready(a) /\ a.queue = t.queue /\ a.pub = t.pub /\ a.tip = t.tip /\ a.made = t.made
      /\ a.merge.phase = t.merge.phase
  BY VerdictsReady DEF Ends
<1>3. a.foreign = t.foreign /\ a.probe = t.probe /\ a.merge.writes = t.merge.writes
  BY <1>1 DEF MergeVerdicts, StateSet, MergeSet
<1> HIDE DEF a
<1>4. Joins(a, cs)
  BY <1>1, <1>2, <1>3 DEF Joins, OwnWrites, NoEntry
<1>5. Ready(b) /\ b \in StateSet /\ a \in StateSet
  BY <1>2, <1>4, JoinReady DEF Ready
<1>6. b.pub = a.pub /\ b.foreign = a.foreign /\ b.probe = a.probe /\ b.merge = a.merge
  BY <1>5 DEF JoinTip, StateSet
<1> HIDE DEF b, cs, ours
<1>7. u = Displaced(b, ours)
  BY DEF SameIdentity, u, a, b, cs, ours
<1> HIDE DEF u
<1>8. u.pub = b.pub /\ u.foreign = b.foreign
  BY <1>5, <1>7 DEF Displaced, StartMerge, StartProbe, StateSet
<1>9. ours => u = b
  BY <1>7 DEF Displaced
<1>10. QED
  BY <1>2, <1>3, <1>6, <1>8, <1>9 DEF ours, u

(* What every call keeps. *)
LEMMA EndKeeps ==
  ASSUME NEW t, Ready(t), NEW c, EndCall(t, c)
  PROVE  /\ MergeInv' /\ s'.pub = t.pub /\ s'.foreign = t.foreign
         /\ OrderOK(t, c) /\ (t.foreign = 0 => TipOK(t, c)) => OrderInv'
<1>1. Ready(Settled(t)) /\ HoldOK(Settled(t)) /\ Settled(t).pub = t.pub /\ Settled(t).foreign = t.foreign
  BY SettledReady, SettledSame
<1>2. s' = Settled(t)
  BY DEF EndCall
<1>3. Ready(s') /\ HoldOK(s') /\ s'.pub = t.pub /\ s'.foreign = t.foreign
  BY <1>1, <1>2
<1>4. MergeInv'
  BY <1>3 DEF MergeInv
<1>5. OrderOK(t, c) /\ (t.foreign = 0 => TipOK(t, c)) => OrderInv'
  BY EndOrder
<1>6. QED
  BY <1>3, <1>4, <1>5

LEMMA CallKeeps ==
  ASSUME NEW t, NEW p, NEW e, Ends(t, p, e), NEW w \in {t, CloseCut(t)}, NEW c,
         EndCall(SameIdentity(w, p, e), c)
  PROVE  MergeInv' /\ s'.pub = t.pub /\ s'.foreign = t.foreign
<1>1. Ends(w, p, e)
  BY CloseEnds
<1>2. Ready(SameIdentity(w, p, e))
  BY <1>1, CallReady
<1>3. SameIdentity(w, p, e).pub = w.pub /\ SameIdentity(w, p, e).foreign = w.foreign
  BY <1>1, CallSame
<1>4. w.pub = t.pub /\ w.foreign = t.foreign
  <2>1. t \in StateSet
    BY DEF Ends, Ready
  <2>2. QED
    BY <2>1 DEF StateSet, CloseCut
<1> DEFINE v == SameIdentity(w, p, e)
<1>5. Ready(v) /\ v.pub = t.pub /\ v.foreign = t.foreign /\ EndCall(v, c)
  BY <1>2, <1>3, <1>4
<1> HIDE DEF v
<1>6. QED
  BY <1>5, EndKeeps

----------------------------------------------------------------------------
(* What s is between calls. *)
LEMMA StateIs ==
  ASSUME MergeInv
  PROVE  /\ Ready(s) /\ s \in StateSet /\ s.queue \in Seq(EntrySet) /\ s.pub \in HeadSet /\ s.line \in Seq(HeadSet)
         /\ s.merge \in MergeSet /\ s.tip \in TipSet /\ s.commit.n \in Nat /\ s.commit.head \in HeadSet
         /\ s.commit \in [n : Nat, head : HeadSet]
         /\ s.held \in BOOLEAN /\ s.made \in 0..Len(Writes) /\ s.rounds \in Nat /\ s.foreign \in Nat
         /\ s.pub.seq \in Nat /\ s.pub.seq > 0 /\ s.pub.tree \in Trees
         /\ s.seen = s.pub /\ (s.held <=> s.merge.phase = "delta")
         /\ WarmFirst(s.queue) /\ Replays(s.pub.tree, s.queue)
<1>1. Ready(s) /\ s \in StateSet /\ HoldOK(s)
  BY DEF MergeInv, Ready
<1>2. /\ s.queue \in Seq(EntrySet) /\ s.pub \in HeadSet /\ s.line \in Seq(HeadSet)
      /\ s.merge \in MergeSet /\ s.tip \in TipSet
      /\ s.commit \in [n : Nat, head : HeadSet]
      /\ s.held \in BOOLEAN /\ s.made \in 0..Len(Writes) /\ s.rounds \in Nat /\ s.foreign \in Nat
  BY <1>1 DEF StateSet
<1>3. s.pub.seq \in Nat /\ s.pub.seq > 0 /\ s.pub.tree \in Trees
  BY <1>1, <1>2 DEF HeadSet, Ready, LineOK
<1>4. s.commit.n \in Nat /\ s.commit.head \in HeadSet
  BY <1>2
<1>5. s.seen = s.pub /\ (s.held <=> s.merge.phase = "delta")
  BY <1>1 DEF HoldOK
<1>6. WarmFirst(s.queue) /\ Replays(s.pub.tree, s.queue)
  BY <1>1 DEF Ready, QueueOK
<1>7. QED
  BY <1>1, <1>2, <1>3, <1>4, <1>5, <1>6

(* u is t with another queue, cut or commit. *)
Beside(u, t) ==
  /\ u.made = t.made /\ u.probe = t.probe /\ u.foreign = t.foreign /\ u.tip = t.tip
  /\ u.merge = t.merge /\ u.pub = t.pub /\ u.seen = t.seen
  /\ u.own = t.own /\ u.line = t.line /\ u.prev = t.prev

LEMMA StayOrder ==
  ASSUME MergeInv, OrderInv, NEW u, Beside(u, s), NEW K, PartAt(u.queue, s.queue, K),
         u.queue \in Seq(EntrySet)
  PROVE  /\ OrderOK(u, claim) /\ (u.foreign = 0 => TipOK(u, claim))
         /\ u.pub = u.seen
<1>1. s.queue \in Seq(EntrySet) /\ s.foreign \in Nat /\ s.seen = s.pub
  BY StateIs
<1>2. OrderOK(s, claim) /\ (s.foreign = 0 => TipOK(s, claim))
  BY DEF OrderInv
<1>3. /\ u.foreign \in Nat /\ s.foreign <= u.foreign /\ u.tip.writes = s.tip.writes
      /\ u.made = s.made /\ u.probe = s.probe /\ u.merge = s.merge
  BY <1>1 DEF Beside
<1>4. OrderOK(u, claim)
  BY <1>1, <1>2, <1>3, PartOrder
<1>5. QED
  BY <1>1, <1>2, <1>4 DEF Beside, TipOK

Queued(n) ==
  [n |-> n, round |-> 0, index |-> 0, sets |-> Writes[n].sets, reads |-> Writes[n].reads,
   warm |-> FALSE, tries |-> 0]

LEMMA AcceptKeeps ==
  ASSUME MergeInv, Accept
  PROVE  MergeInv' /\ s'.pub = s.pub /\ (OrderInv => OrderInv')
<1> DEFINE n == s.made + 1
           q == s.queue
           x == Queued(n)
           r == Append(q, x)
           u == [s EXCEPT !.made = n, !.queue = r]
<1>1. /\ Ready(s) /\ s \in StateSet /\ q \in Seq(EntrySet) /\ s.made \in 0..Len(Writes)
      /\ s.commit.n \in Nat /\ WarmFirst(q) /\ Replays(s.pub.tree, q)
  BY StateIs
<1>2. s.made < Len(Writes) /\ Len(Writes) \in Nat /\ DOMAIN Writes = 1..Len(Writes)
  BY MergeAssumption DEF Accept
<1>3. n \in DOMAIN Writes /\ n \in 0..Len(Writes) /\ n \in Nat /\ s.made \in Nat /\ s.made < n
  BY <1>1, <1>2
<1>4. x \in EntrySet /\ x.round = 0 /\ x.n = n /\ ~x.warm
  <2>1. /\ Writes[n].sets \in Edits /\ Writes[n].reads \in Premise
        /\ DOMAIN Writes[n].sets \subseteq DOMAIN Writes[n].reads /\ 0 \in 0..MaxTries
    BY <1>3, MergeAssumption
  <2>2. QED
    BY <1>3, <2>1 DEF EntrySet, Queued
<1>5. s' = u /\ claim' = claim
  BY DEF Accept, Queued
<1>f. n = s.made + 1 /\ r = Append(s.queue, x)
  OBVIOUS
<1> HIDE DEF x, n
<1>6. /\ r \in Seq(EntrySet) /\ Len(r) = Len(q) + 1 /\ DOMAIN r = 1..(Len(q) + 1) /\ DOMAIN q = 1..Len(q)
      /\ Len(q) \in Nat /\ r[Len(q) + 1] = x
      /\ \A i \in 1..Len(q) : r[i] = q[i]
  BY <1>1, <1>4
<1> DEFINE l == Len(q) + 1
<1>e. /\ l \in Int /\ DOMAIN r = DOMAIN q \cup {l} /\ r[l] = x
      /\ \A i \in DOMAIN q : r[i] = q[i] /\ i < l /\ i \in Int
  BY <1>6
<1> HIDE DEF r, l
<1>7. /\ u \in StateSet /\ u.queue = r /\ u.made = n
      /\ u.pub = s.pub /\ u.line = s.line /\ u.beaten = s.beaten
      /\ u.commit = s.commit /\ u.tip = s.tip /\ u.merge = s.merge /\ u.rounds = s.rounds
      /\ u.held = s.held /\ u.seen = s.seen /\ u.probe = s.probe /\ u.foreign = s.foreign
  BY <1>1, <1>3, <1>6 DEF StateSet
<1> HIDE DEF u
<1>8. LineOK(u) /\ WinnerOK(u)
  BY <1>1, <1>7, LineSame, WinnerSame DEF Ready
<1>9. QueueOK(u)
  <2>1. WarmFirst(r)
    BY <1>1, <1>4, <1>e DEF WarmFirst
  <2>2. Replays(s.pub.tree, r)
    <3> SUFFICES ASSUME NEW i \in DOMAIN r, r[i].warm
                 PROVE  Holds(PutAll(s.pub.tree, SubSeq(r, 1, i - 1)), r[i])
      BY DEF Replays
    <3>1. i \in DOMAIN q /\ r[i] = q[i]
      BY <1>4, <1>6
    <3>2. Holds(PutAll(s.pub.tree, SubSeq(q, 1, i - 1)), q[i])
      BY <1>1, <3>1 DEF Replays
    <3>3. PICK k \in Nat : k = i - 1
      BY <1>6, <3>1
    <3>4. k \in 0..Len(r) /\ k <= Len(q) /\ \A j \in 1..k : Same(r[j], q[j])
      BY <1>6, <3>1, <3>3 DEF Same
    <3>5. PutAll(s.pub.tree, SubSeq(r, 1, k)) = PutAll(s.pub.tree, SubSeq(q, 1, k))
      BY <1>1, <1>6, <3>4, SameFronts
    <3>6. QED
      BY <3>1, <3>2, <3>3, <3>5
  <2>3. OneId(r) /\ \A i \in DOMAIN r : r[i].round = 0 => r[i].n <= n
    <3>1. \A i \in DOMAIN q : q[i].round = 0 => q[i].n <= s.made
      BY <1>1 DEF Ready, QueueOK
    <3>2. \A i \in DOMAIN q : q[i].n \in Nat /\ q[i].round \in Nat
      <4>1. q \in Seq(EntrySet)
        BY <1>1
      <4>2. \A i \in DOMAIN q : q[i] \in EntrySet
        BY <4>1
      <4>3. QED
        BY <4>2 DEF EntrySet
    <3>3. \A i \in DOMAIN q : Id(q[i]) # Id(x)
      BY <1>3, <1>4, <3>1, <3>2 DEF Id
    <3>4. OneId(q)
      BY <1>1 DEF Ready, QueueOK
    <3>5. QED
      BY <1>3, <1>4, <1>e, <3>1, <3>2, <3>3, <3>4 DEF OneId
  <2>4. QED
    BY <1>7, <2>1, <2>2, <2>3 DEF QueueOK
<1>10. CommitOK(u)
  <2>1. CommitOK(s)
    BY <1>1 DEF Ready
  <2>2. s.commit.n \in 0..Len(r) /\ s.commit.n <= Len(q) /\ \A i \in 1..s.commit.n : Same(r[i], q[i])
    <3>1. s.commit.n <= Len(q)
      BY <2>1 DEF CommitOK
    <3>2. s.commit.n \in 0..Len(r) /\ \A i \in 1..s.commit.n : i \in 1..Len(q)
      BY <1>1, <1>6, <3>1
    <3>3. QED
      BY <1>6, <3>1, <3>2 DEF Same
  <2>3. PutAll(s.pub.tree, SubSeq(r, 1, s.commit.n)) = PutAll(s.pub.tree, SubSeq(q, 1, s.commit.n))
    <3>1. PICK k \in Nat : k = s.commit.n
      BY <1>1
    <3>2. k \in 0..Len(r) /\ k <= Len(q) /\ \A i \in 1..k : Same(r[i], q[i])
      BY <2>2, <3>1
    <3>3. PutAll(s.pub.tree, SubSeq(r, 1, k)) = PutAll(s.pub.tree, SubSeq(q, 1, k))
      BY <1>1, <1>6, <3>2, SameFronts
    <3>4. QED
      BY <3>1, <3>3
  <2>4. s.commit.n > 0 => r[s.commit.n] = q[s.commit.n]
    BY <1>6, <2>2
  <2>5. QED
    BY <1>7, <2>1, <2>2, <2>3, <2>4 DEF CommitOK
<1>11. EntriesOK(u)
  <2>1. EntriesOK(s)
    BY <1>1 DEF Ready
  <2>2. MergesFirst(r) /\ OneIndex(r)
    BY <1>4, <1>e, <2>1 DEF EntriesOK, MergesFirst, OneIndex
  <2>3. \A i \in DOMAIN r : r[i].round > 0 => Remerged(u, r[i])
    BY <1>4, <1>e, <1>7, <2>1 DEF EntriesOK, Remerged
  <2>4. QED
    BY <1>7, <2>2, <2>3 DEF EntriesOK
<1>12. JudgedOK(u)
  <2>1. ASSUME NEW ws \in Seq(KeptSet), OwnWrites(s, ws)
        PROVE  OwnWrites(u, ws)
    <3>1. \A i \in DOMAIN ws : ws[i].n \in Nat
      BY DEF KeptSet
    <3>2. \A i \in DOMAIN ws : ws[i].n <= s.made /\ ws[i].n < n
      BY <1>3, <2>1, <3>1 DEF OwnWrites
    <3>3. QED
      <4>1. \A i \in DOMAIN ws : ws[i].n <= u.made
        BY <1>3, <1>7, <3>1, <3>2
      <4>2. \A i \in DOMAIN ws, j \in DOMAIN u.queue : u.queue[j].round = 0 => u.queue[j].n # ws[i].n
        BY <1>3, <1>4, <1>e, <1>7, <2>1, <3>1, <3>2 DEF OwnWrites
      <4>3. QED
        BY <2>1, <4>1, <4>2 DEF OwnWrites
  <2>2. s.tip.writes \in Seq(KeptSet) /\ s.merge.writes \in Seq(KeptSet)
    BY <1>1 DEF StateSet, TipSet, MergeSet
  <2>3. QED
    BY <1>1, <1>7, <2>1, <2>2 DEF Ready, JudgedOK
<1>13. Ready(u) /\ HoldOK(u)
  BY <1>7, <1>8, <1>9, <1>10, <1>11, <1>12 DEF Ready, MergeInv, HoldOK
<1>14. ASSUME OrderInv
       PROVE  OrderInv'
  <2>1. OrderOK(s, claim) /\ (s.foreign = 0 => TipOK(s, claim)) /\ QueueOK(s)
    BY <1>1, <1>14 DEF OrderInv, Ready
  <2>2. u.queue = Append(s.queue, x) /\ u.made = s.made + 1 /\ x.n = s.made + 1
    BY <1>4, <1>7, <1>f
  <2>3. OrderOK(u, claim) /\ (TipOK(s, claim) => TipOK(u, claim))
    BY <1>1, <1>4, <1>7, <2>1, <2>2, AppendOrder
  <2>4. OrderOK(s', claim') /\ (s'.foreign = 0 => TipOK(s', claim'))
    BY <1>5, <1>7, <2>1, <2>3
  <2>5. QED
    BY <2>4 DEF OrderInv
<1>15. QED
  BY <1>5, <1>7, <1>13, <1>14 DEF MergeInv

(* A queue with the same front. *)
LEMMA FrontReplays ==
  ASSUME NEW tree, NEW p \in Seq(EntrySet), NEW q \in Seq(EntrySet), NEW m \in 0..Len(q), m <= Len(p),
         \A i \in 1..m : Same(p[i], q[i]), Replays(tree, q), NEW i \in 1..m, q[i].warm
  PROVE  Holds(PutAll(tree, SubSeq(p, 1, i - 1)), p[i])
<1>1. PICK k \in Nat : k = i - 1
  OBVIOUS
<1>2. k \in 0..Len(p) /\ k <= Len(q) /\ i \in DOMAIN q /\ \A j \in 1..k : Same(p[j], q[j])
  BY <1>1
<1>3. PutAll(tree, SubSeq(p, 1, k)) = PutAll(tree, SubSeq(q, 1, k))
  BY <1>2, SameFronts
<1>4. Holds(PutAll(tree, SubSeq(q, 1, k)), q[i])
  BY <1>1, <1>2 DEF Replays
<1>5. Same(p[i], q[i])
  OBVIOUS
<1>6. Holds(PutAll(tree, SubSeq(p, 1, k)), p[i])
  BY <1>3, <1>4, <1>5, HoldsSame
<1>7. QED
  BY <1>1, <1>6

LEMMA FrontCommit ==
  ASSUME NEW t, CommitOK(t), t.commit.n \in Nat, NEW u, u.commit = t.commit, u.pub = t.pub, u.held = t.held,
         u.queue \in Seq(EntrySet), t.queue \in Seq(EntrySet),
         NEW m \in 0..Len(t.queue), m <= Len(u.queue), \A i \in DOMAIN t.queue : t.queue[i].warm => i <= m,
         \A i \in 1..m : Same(u.queue[i], t.queue[i]) /\ (t.queue[i].warm => u.queue[i].warm)
  PROVE  CommitOK(u)
<1> DEFINE n == t.commit.n
           p == u.queue
           q == t.queue
<1>1. n <= m /\ n \in 0..Len(p) /\ n <= Len(q) /\ (n > 0 => n \in 1..m /\ q[n].warm)
  <2>1. n \in Nat /\ n <= Len(q) /\ (n > 0 => q[n].warm)
    BY DEF CommitOK
  <2>2. n > 0 => n \in DOMAIN q
    BY <2>1
  <2>3. n <= m
    BY <2>1, <2>2
  <2>4. QED
    BY <2>1, <2>3
<1>2. \A i \in 1..n : Same(p[i], q[i])
  BY <1>1
<1>3. PICK k \in Nat : k = n
  OBVIOUS
<1>4. PutAll(t.pub.tree, SubSeq(p, 1, k)) = PutAll(t.pub.tree, SubSeq(q, 1, k))
  <2>1. k \in 0..Len(p) /\ k <= Len(q)
    BY <1>1, <1>3
  <2>2. \A i \in 1..k : Same(p[i], q[i])
    BY <1>2, <1>3
  <2>3. p \in Seq(EntrySet) /\ q \in Seq(EntrySet)
    OBVIOUS
  <2> HIDE DEF n, p, q
  <2>4. QED
    BY <2>1, <2>2, <2>3, SameFronts
<1>5. n > 0 => p[n].warm
  BY <1>1
<1>6. QED
  BY <1>1, <1>3, <1>4, <1>5 DEF CommitOK

(* A state with another queue. *)
LEMMA QueueIs ==
  ASSUME NEW t \in StateSet, NEW p \in Seq(EntrySet)
  PROVE  LET u == [t EXCEPT !.queue = p]
         IN  /\ u \in StateSet /\ u.queue = p
             /\ u.pub = t.pub /\ u.line = t.line /\ u.beaten = t.beaten /\ u.made = t.made
             /\ u.commit = t.commit /\ u.tip = t.tip /\ u.merge = t.merge /\ u.rounds = t.rounds
             /\ u.held = t.held /\ u.seen = t.seen /\ Beside(u, t)
BY DEF StateSet, Beside

Warmed(e) == [e EXCEPT !.warm = TRUE]
LEMMA WarmedIs ==
  ASSUME NEW e \in EntrySet
  PROVE  Warmed(e) \in EntrySet /\ Same(Warmed(e), e) /\ Warmed(e).warm
BY DEF EntrySet, Same, Warmed

(* The first cold write applied. *)
LEMMA ApplyWarms ==
  ASSUME MergeInv, NEW m \in 0..Len(s.queue), m + 1 \in DOMAIN s.queue,
         \A i \in DOMAIN s.queue : s.queue[i].warm <=> i <= m,
         Holds(PutAll(s.pub.tree, SubSeq(s.queue, 1, m)), s.queue[m + 1])
  PROVE  LET u == [s EXCEPT !.queue[m + 1].warm = TRUE]
         IN  /\ Ready(u) /\ Beside(u, s)
             /\ u.queue \in Seq(EntrySet) /\ PartAt(u.queue, s.queue, DOMAIN s.queue)
<1> DEFINE q == s.queue
           p == [q EXCEPT ![m + 1] = Warmed(@)]
           u == [s EXCEPT !.queue = p]
<1>1. /\ Ready(s) /\ s \in StateSet /\ q \in Seq(EntrySet) /\ WarmFirst(q) /\ Replays(s.pub.tree, q)
      /\ s.commit.n \in Nat /\ s.pub.seq \in Nat
  BY StateIs
<1>2. [s EXCEPT !.queue[m + 1].warm = TRUE] = u
  BY <1>1 DEF StateSet, Warmed
<1>3. q[m + 1] \in EntrySet
  BY <1>1
<1>4. /\ p \in Seq(EntrySet) /\ Len(p) = Len(q) /\ DOMAIN p = DOMAIN q /\ m \in 0..Len(q) /\ Len(q) \in Nat
      /\ DOMAIN q = 1..Len(q) /\ p[m + 1] = Warmed(q[m + 1]) /\ \A i \in DOMAIN q : i # m + 1 => p[i] = q[i]
  BY <1>1, <1>3, WarmedIs
<1> HIDE DEF p
<1>5. \A i \in DOMAIN q : Same(p[i], q[i]) /\ (p[i].warm <=> i <= m + 1)
  <2> SUFFICES ASSUME NEW i \in DOMAIN q
               PROVE  Same(p[i], q[i]) /\ (p[i].warm <=> i <= m + 1)
    OBVIOUS
  <2>1. CASE i = m + 1
    BY <1>3, <1>4, <2>1, WarmedIs
  <2>2. CASE i # m + 1
    <3>1. p[i] = q[i] /\ (q[i].warm <=> i <= m) /\ i \in Nat
      BY <1>4, <2>2
    <3>2. QED
      BY <2>2, <3>1 DEF Same
  <2>3. QED
    BY <2>1, <2>2
<1>6. /\ u \in StateSet /\ u.queue = p
      /\ u.pub = s.pub /\ u.line = s.line /\ u.beaten = s.beaten /\ u.made = s.made
      /\ u.commit = s.commit /\ u.tip = s.tip /\ u.merge = s.merge /\ u.rounds = s.rounds
      /\ u.held = s.held /\ u.seen = s.seen /\ Beside(u, s)
  BY <1>1, <1>4, QueueIs
<1> HIDE DEF u
<1>7. PartAt(p, q, DOMAIN q)
  BY <1>1, <1>4, <1>5, AllPart
<1>a. /\ u.queue \in Seq(EntrySet) /\ PartAt(u.queue, s.queue, DOMAIN s.queue)
      /\ u.pub.seq \in Int /\ s.pub.seq <= u.pub.seq
  BY <1>1, <1>4, <1>6, <1>7
<1>b. m <= Len(p) /\ \A i \in 1..m : i \in DOMAIN q /\ q[i].warm /\ Same(p[i], q[i]) /\ p[i].warm
  BY <1>4, <1>5
<1>8. /\ EntriesOK(u) /\ JudgedOK(u) /\ OneId(p)
      /\ \A i \in DOMAIN p : p[i].round = 0 => p[i].n <= u.made
  <2>1. /\ EntriesOK(u) /\ JudgedOK(u) /\ OneId(u.queue)
        /\ \A i \in DOMAIN u.queue : u.queue[i].round = 0 => u.queue[i].n <= u.made
    BY <1>1, <1>6, <1>a, StayOK
  <2>2. QED
    BY <1>6, <2>1
<1>9. QueueOK(u)
  <2>1. WarmFirst(p)
    BY <1>4, <1>5 DEF WarmFirst
  <2>2. Replays(s.pub.tree, p)
    <3> SUFFICES ASSUME NEW i \in DOMAIN p, p[i].warm
                 PROVE  Holds(PutAll(s.pub.tree, SubSeq(p, 1, i - 1)), p[i])
      BY DEF Replays
    <3>1. \A j \in 1..m : j \in DOMAIN q /\ q[j].warm
      BY <1>4
    <3>2. CASE i <= m
      <4>1. i \in 1..m /\ q[i].warm
        BY <1>4, <3>1, <3>2
      <4>2. QED
        BY <1>1, <1>4, <1>b, <4>1, FrontReplays
    <3>3. CASE i = m + 1
      <4>a. \A j \in 1..m : Same(p[j], q[j])
        BY <1>b
      <4>1. i - 1 = m /\ m <= Len(p)
        BY <1>4, <3>3
      <4>2. PutAll(s.pub.tree, SubSeq(p, 1, m)) = PutAll(s.pub.tree, SubSeq(q, 1, m))
        BY <1>1, <1>4, <4>a, <4>1, SameFronts
      <4>3. Same(p[i], q[m + 1])
        BY <1>5, <3>3
      <4>4. QED
        BY <4>1, <4>2, <4>3, HoldsSame
    <3>4. QED
      BY <1>4, <1>5, <3>2, <3>3
  <2>3. QED
    BY <1>6, <1>8, <2>1, <2>2 DEF QueueOK
<1>10. CommitOK(u)
  <2>1. CommitOK(s)
    BY <1>1 DEF Ready
  <2>2. /\ u.queue \in Seq(EntrySet) /\ s.queue \in Seq(EntrySet) /\ m \in 0..Len(s.queue)
        /\ m <= Len(u.queue) /\ \A i \in DOMAIN s.queue : s.queue[i].warm => i <= m
        /\ \A i \in 1..m : Same(u.queue[i], s.queue[i]) /\ (s.queue[i].warm => u.queue[i].warm)
    BY <1>1, <1>4, <1>6, <1>b
  <2>3. QED
    BY <1>1, <1>6, <2>1, <2>2, FrontCommit
<1>11. LineOK(u) /\ WinnerOK(u) /\ (u.merge.phase = "delta" => u.held)
  BY <1>1, <1>6, LineSame, WinnerSame DEF Ready
<1>12. Ready(u)
  BY <1>6, <1>8, <1>9, <1>10, <1>11 DEF Ready
<1>13. QED
  BY <1>2, <1>6, <1>12, <1>a

(* A call that ends writes and publishes none, or the reverse. *)
LEMMA EndsEnded ==
  ASSUME NEW u, NEW e, Ready(u), Mine(u, e) \subseteq Nat, Off(u, Mine(u, e)), Moved(u)
  PROVE  Ends(u, <<>>, e)
<1> DEFINE z == <<>>
<1>1. z \in Seq(EntrySet) /\ DOMAIN z = {}
  OBVIOUS
<1>2. Mine(u, z) = {}
  BY MineNone
<1>3. ClientsOf(z) = <<>>
  <2>1. {i \in DOMAIN z : z[i].round = 0} = {}
    BY <1>1
  <2>2. Cardinality({}) = 0
    BY FS_EmptySet
  <2>3. Only(z, {}) = <<>>
    BY <2>2 DEF Only
  <2> HIDE DEF z
  <2>4. QED
    BY <2>1, <2>3 DEF ClientsOf
<1>4. Joins(u, <<>>)
  BY DEF Joins, OwnWrites
<1>5. Mine(u, z) \cup Mine(u, e) = Mine(u, e)
  BY <1>2
<1> HIDE DEF z
<1>6. Ends(u, z, e)
  BY <1>1, <1>2, <1>3, <1>4, <1>5 DEF Ends
<1>7. QED
  BY <1>6 DEF z

LEMMA EndsPublished ==
  ASSUME NEW u, NEW p \in Seq(EntrySet), Ready(u), Mine(u, p) \subseteq Nat, Off(u, Mine(u, p)),
         Joins(u, ClientsOf(p)), p # <<>> \/ Moved(u)
  PROVE  Ends(u, p, <<>>)
<1>1. Mine(u, <<>>) = {}
  BY MineNone
<1>2. Mine(u, p) \cup Mine(u, <<>>) = Mine(u, p)
  BY <1>1
<1>3. QED
  BY <1>1, <1>2 DEF Ends

(* A part of a sequence that has its front. *)
LEMMA OnlyFront ==
  ASSUME NEW S, NEW q \in Seq(S), NEW K \in SUBSET DOMAIN q, NEW m \in 0..Len(q), 1..m \subseteq K
  PROVE  /\ m <= Len(Only(q, K)) /\ \A j \in 1..m : Only(q, K)[j] = q[j]
         /\ \A j \in DOMAIN Only(q, K) : j > m => \E k \in K : k > m /\ Only(q, K)[j] = q[k]
<1> DEFINE n    == Len(q)
           l    == Cardinality(K)
           c(i) == Cardinality(K \cap (1..i))
           p    == Only(q, K)
<1>1. n \in Nat /\ K \in SUBSET (1..n) /\ m \in Nat /\ m <= n
  OBVIOUS
<1>2. l \in Nat /\ DOMAIN p = 1..l /\ Len(p) = l
  BY <1>1, OnlyIs
<1>3. \A j \in 1..l : p[j] = q[CHOOSE i \in K : c(i) = j]
  BY <1>2 DEF Only
<1>4. \A j \in 1..l : \E k \in K : c(k) = j
  BY <1>1, CountReached
<1>5. \A i, j \in Nat : i <= j => c(i) <= c(j) /\ (i < j /\ j \in K => c(i) < c(j))
  <2> SUFFICES ASSUME NEW i \in Nat, NEW j \in Nat, i <= j
               PROVE  c(i) <= c(j) /\ (i < j /\ j \in K => c(i) < c(j))
    OBVIOUS
  <2>1. QED
    BY <1>1, CountGrows
<1>6. \A i \in 1..m : c(i) = i
  <2> SUFFICES ASSUME NEW i \in 1..m PROVE c(i) = i
    OBVIOUS
  <2>1. K \cap (1..i) = 1..i
    OBVIOUS
  <2>2. 1 \in Int /\ i \in Int /\ 1 <= i
    OBVIOUS
  <2>3. Cardinality(1..i) = i
    BY <2>2, FS_Interval
  <2>4. QED
    BY <2>1, <2>3
<1>7. \A i \in Nat : c(i) \in Nat
  BY <1>1, CountTo
<1>8. c(n) = l /\ c(0) = 0
  BY <1>1, CountTo
<1> HIDE DEF c, l, p
<1>9. m <= l
  <2>1. CASE m = 0
    BY <1>2, <2>1
  <2>2. CASE m # 0
    <3>1. m \in 1..m /\ c(m) <= c(n)
      BY <1>1, <1>5, <2>2
    <3>2. QED
      BY <1>6, <1>8, <3>1
  <2>3. QED
    BY <2>1, <2>2
<1>10. \A i, j \in K : c(i) = c(j) => i = j
  <2> SUFFICES ASSUME NEW i \in K, NEW j \in K, c(i) = c(j), i # j PROVE FALSE
    OBVIOUS
  <2>1. i \in Nat /\ j \in Nat /\ (i < j \/ j < i)
    BY <1>1
  <2>2. c(i) < c(j) \/ c(j) < c(i)
    BY <1>5, <2>1
  <2>3. QED
    BY <1>7, <2>1, <2>2
<1>11. \A j \in 1..m : p[j] = q[j]
  <2> SUFFICES ASSUME NEW j \in 1..m PROVE p[j] = q[j]
    OBVIOUS
  <2>1. j \in K /\ c(j) = j /\ j \in 1..l
    BY <1>1, <1>2, <1>6, <1>9
  <2>2. (CHOOSE i \in K : c(i) = j) = j
    BY <1>10, <2>1
  <2>3. QED
    BY <1>3, <2>1, <2>2
<1>12. \A j \in 1..l : j > m => \E k \in K : k > m /\ p[j] = q[k]
  <2> SUFFICES ASSUME NEW j \in 1..l, j > m PROVE \E k \in K : k > m /\ p[j] = q[k]
    OBVIOUS
  <2> DEFINE k == CHOOSE i \in K : c(i) = j
  <2>1. k \in K /\ c(k) = j
    BY <1>4
  <2>2. p[j] = q[k]
    BY <1>3
  <2> HIDE DEF k
  <2>3. k \in Nat /\ k > 0
    BY <1>1, <2>1
  <2>4. k > m
    <3>1. SUFFICES ASSUME k <= m PROVE FALSE
      BY <1>1, <2>3
    <3>2. k \in 1..m
      BY <1>1, <2>3, <3>1
    <3>3. QED
      BY <1>6, <2>1, <3>1, <3>2
  <2>5. QED
    BY <2>1, <2>2, <2>4
<1>13. QED
  BY <1>2, <1>9, <1>11, <1>12 DEF p

LEMMA ApplyDrops ==
  ASSUME MergeInv, NEW m \in 0..Len(s.queue), m + 1 \in DOMAIN s.queue,
         \A i \in DOMAIN s.queue : s.queue[i].warm <=> i <= m
  PROVE  LET u == [s EXCEPT !.queue = Without(s.queue, {m + 1})]
         IN  /\ Ends(u, <<>>, <<s.queue[m + 1]>>) /\ Beside(u, s)
             /\ u.queue \in Seq(EntrySet) /\ \E K : PartAt(u.queue, s.queue, K)
<1> DEFINE q == s.queue
           K == DOMAIN q \ {m + 1}
           p == Without(q, {m + 1})
           u == [s EXCEPT !.queue = p]
           e == <<q[m + 1]>>
<1>1. /\ Ready(s) /\ s \in StateSet /\ q \in Seq(EntrySet) /\ WarmFirst(q) /\ Replays(s.pub.tree, q)
      /\ s.commit.n \in Nat /\ s.pub.seq \in Nat /\ s.seen = s.pub
  BY StateIs
<1>2. K \in SUBSET DOMAIN q /\ p = Only(q, K) /\ 1..m \subseteq K
  BY <1>1 DEF Without
<1>3. p \in Seq(EntrySet) /\ PartAt(p, q, K)
  BY <1>1, <1>2, OnlyIs, OnlyPart
<1>4. /\ m <= Len(p) /\ \A j \in 1..m : p[j] = q[j]
      /\ \A j \in DOMAIN p : j > m => \E k \in K : k > m /\ p[j] = q[k]
  <2>1. /\ m <= Len(Only(q, K)) /\ \A j \in 1..m : Only(q, K)[j] = q[j]
        /\ \A j \in DOMAIN Only(q, K) : j > m => \E k \in K : k > m /\ Only(q, K)[j] = q[k]
    <3>1. m \in 0..Len(q) /\ q \in Seq(EntrySet) /\ K \in SUBSET DOMAIN q /\ 1..m \subseteq K
      BY <1>1, <1>2
    <3> HIDE DEF q, K
    <3>2. QED
      BY <3>1, OnlyFront
  <2>2. p = Only(q, K)
    BY <1>2
  <2> HIDE DEF p
  <2>3. QED
    BY <2>1, <2>2
<1>5. PartAt(e, q, {m + 1})
  <2> DEFINE d == [i \in 1..1 |-> m + 1]
  <2>1. DOMAIN e = 1..1 /\ e[1] = q[m + 1]
    OBVIOUS
  <2>2. \A i \in 1..1 : d[i] = m + 1
    OBVIOUS
  <2>3. d \in [1..1 -> {m + 1}]
    OBVIOUS
  <2>4. \A i, j \in 1..1 : ~(i < j)
    OBVIOUS
  <2> HIDE DEF d, e
  <2>5. Places(d, e, q, {m + 1})
    BY <2>1, <2>2, <2>3, <2>4 DEF Places, Same
  <2>6. QED
    BY <2>5 DEF PartAt
<1> HIDE DEF p, e
<1>6. /\ u \in StateSet /\ u.queue = p
      /\ u.pub = s.pub /\ u.line = s.line /\ u.beaten = s.beaten /\ u.made = s.made
      /\ u.commit = s.commit /\ u.tip = s.tip /\ u.merge = s.merge /\ u.rounds = s.rounds
      /\ u.held = s.held /\ u.seen = s.seen /\ Beside(u, s)
  BY <1>1, <1>3, QueueIs
<1> HIDE DEF u
<1>a. /\ u.queue \in Seq(EntrySet) /\ PartAt(u.queue, s.queue, K) /\ K \cap {m + 1} = {}
      /\ u.pub.seq \in Int /\ s.pub.seq <= u.pub.seq
  BY <1>1, <1>3, <1>6
<1> HIDE DEF K
<1>7. /\ EntriesOK(u) /\ JudgedOK(u) /\ OneId(u.queue)
      /\ \A i \in DOMAIN u.queue : u.queue[i].round = 0 => u.queue[i].n <= u.made
  BY <1>1, <1>6, <1>a, StayOK
<1>8. Mine(u, e) \subseteq Nat /\ Off(u, Mine(u, e))
  BY <1>1, <1>5, <1>6, <1>a, LeftOff
<1>9. \A i \in DOMAIN p : p[i].warm => i <= m
  <2> SUFFICES ASSUME NEW i \in DOMAIN p, p[i].warm PROVE i <= m
    OBVIOUS
  <2>1. CASE i > m
    <3>1. PICK k \in K : k > m /\ p[i] = q[k]
      BY <1>4, <2>1
    <3>2. k \in DOMAIN q
      BY <1>2, <3>1
    <3>3. QED
      BY <3>1, <3>2
  <2>2. QED
    BY <1>3, <2>1
<1>b. \A i \in 1..m : i \in DOMAIN q /\ q[i].warm /\ i \in DOMAIN p
  BY <1>1, <1>3, <1>4
<1>10. QueueOK(u)
  <2>1. WarmFirst(p)
    <3> SUFFICES ASSUME NEW i \in DOMAIN p, NEW j \in DOMAIN p, i < j, p[j].warm PROVE p[i].warm
      BY DEF WarmFirst
    <3>1. j <= m /\ i \in 1..m
      BY <1>3, <1>9
    <3>2. QED
      BY <1>4, <1>b, <3>1
  <2>2. Replays(s.pub.tree, p)
    <3> SUFFICES ASSUME NEW i \in DOMAIN p, p[i].warm
                 PROVE  Holds(PutAll(s.pub.tree, SubSeq(p, 1, i - 1)), p[i])
      BY DEF Replays
    <3>1. i \in 1..m /\ q[i].warm
      BY <1>3, <1>9, <1>b
    <3>2. \A j \in 1..m : Same(p[j], q[j])
      BY <1>4 DEF Same
    <3>3. QED
      BY <1>1, <1>3, <1>4, <3>1, <3>2, FrontReplays
  <2>3. QED
    BY <1>6, <1>7, <2>1, <2>2 DEF QueueOK
<1>11. CommitOK(u)
  <2>1. CommitOK(s)
    BY <1>1 DEF Ready
  <2>2. /\ u.queue \in Seq(EntrySet) /\ s.queue \in Seq(EntrySet) /\ m \in 0..Len(s.queue)
        /\ m <= Len(u.queue) /\ \A i \in DOMAIN s.queue : s.queue[i].warm => i <= m
        /\ \A i \in 1..m : Same(u.queue[i], s.queue[i]) /\ (s.queue[i].warm => u.queue[i].warm)
    BY <1>1, <1>3, <1>4, <1>6 DEF Same
  <2>3. QED
    BY <1>1, <1>6, <2>1, <2>2, FrontCommit
<1>12. LineOK(u) /\ WinnerOK(u) /\ (u.merge.phase = "delta" => u.held)
  BY <1>1, <1>6, LineSame, WinnerSame DEF Ready
<1>13. Ready(u) /\ Moved(u)
  BY <1>1, <1>6, <1>7, <1>10, <1>11, <1>12 DEF Ready, Moved
<1>14. Ends(u, <<>>, e)
  BY <1>8, <1>13, EndsEnded
<1>15. Ends(u, <<>>, e) /\ Beside(u, s) /\ u.queue \in Seq(EntrySet) /\ \E X : PartAt(u.queue, s.queue, X)
  BY <1>6, <1>14, <1>a
<1>16. QED
  BY <1>15 DEF u, p, e

(* The head stays, and the queue keeps a part of what it has: nothing is    *)
(* Published.                                                               *)
Quits(u, ended) ==
  /\ Beside(u, s) /\ u.queue \in Seq(EntrySet) /\ \E K : PartAt(u.queue, s.queue, K)
  /\ Ends(u, <<>>, ended)
  /\ \E w \in {u, CloseCut(u)} : EndCall(SameIdentity(w, <<>>, ended), claim)

LEMMA QuitsKeeps ==
  ASSUME MergeInv, NEW u, NEW done, Quits(u, done)
  PROVE  MergeInv' /\ s'.pub = s.pub /\ (OrderInv => OrderInv')
<1> DEFINE z == <<>>
<1>c. z = <<>>
  OBVIOUS
<1> HIDE DEF z
<1>1. PICK w \in {u, CloseCut(u)} : EndCall(SameIdentity(w, z, done), claim)
  BY <1>c DEF Quits
<1>2. Ends(u, z, done) /\ Beside(u, s) /\ u.queue \in Seq(EntrySet) /\ \E K : PartAt(u.queue, s.queue, K)
  BY <1>c DEF Quits
<1>3. MergeInv' /\ s'.pub = u.pub
  BY <1>1, <1>2, CallKeeps
<1>4. OrderInv => OrderInv'
  <2>1. OrderInv => OrderOK(u, claim) /\ (u.foreign = 0 => TipOK(u, claim)) /\ u.pub = u.seen
    BY <1>2, StayOrder
  <2>2. QED
    BY <1>1, <1>2, <1>c, <2>1, QuietOrder
<1>5. QED
  BY <1>2, <1>3, <1>4 DEF Beside

Warms(u) ==
  /\ Ready(u) /\ Beside(u, s) /\ u.queue \in Seq(EntrySet)
  /\ PartAt(u.queue, s.queue, DOMAIN s.queue) /\ EndCall(u, claim)

LEMMA ApplyCall ==
  ASSUME MergeInv, Apply
  PROVE  \/ \E u : Warms(u)
         \/ \E u, done : Quits(u, done)
<1>1. s \in StateSet /\ s.queue \in Seq(EntrySet) /\ WarmFirst(s.queue)
  BY StateIs
<1>2. PICK m \in 0..Len(s.queue) :
        /\ Warm(s.queue) = SubSeq(s.queue, 1, m) /\ \A i \in DOMAIN s.queue : s.queue[i].warm <=> i <= m
        /\ (\E i \in DOMAIN s.queue : ~s.queue[i].warm) => FirstCold(s.queue) = m + 1 /\ m + 1 \in DOMAIN s.queue
  BY <1>1, WarmIs
<1>3. FirstCold(s.queue) = m + 1 /\ m + 1 \in DOMAIN s.queue
  BY <1>2 DEF Apply, CanApply
<1> DEFINE x == s.queue[m + 1]
<1>4. CASE Holds(WarmTree(s), x)
  <2> DEFINE u == [s EXCEPT !.queue[m + 1].warm = TRUE]
  <2>1. Holds(PutAll(s.pub.tree, SubSeq(s.queue, 1, m)), x)
    BY <1>2, <1>4 DEF WarmTree
  <2>2. /\ Ready(u) /\ Beside(u, s) /\ u.queue \in Seq(EntrySet)
        /\ PartAt(u.queue, s.queue, DOMAIN s.queue)
    BY <1>2, <1>3, <2>1, ApplyWarms
  <2>3. EndCall(u, claim)
    BY <1>3, <1>4 DEF Apply
  <2> HIDE DEF u
  <2>4. Warms(u)
    BY <2>2, <2>3 DEF Warms
  <2>5. QED
    BY <2>4
<1>5. CASE ~Holds(WarmTree(s), x)
  <2> DEFINE u == [s EXCEPT !.queue = Without(s.queue, {m + 1})]
             z == <<>>
             e == <<x>>
  <2>1. Ends(u, z, e) /\ Beside(u, s) /\ u.queue \in Seq(EntrySet) /\ \E K : PartAt(u.queue, s.queue, K)
    BY <1>2, <1>3, ApplyDrops
  <2>2. EndCall(SameIdentity(CloseCut(u), z, e), claim)
    BY <1>1, <1>3, <1>5 DEF Apply
  <2>a. z = <<>>
    OBVIOUS
  <2> HIDE DEF u, z, e
  <2>3. Quits(u, e)
    BY <2>1, <2>2, <2>a DEF Quits
  <2>4. QED
    BY <2>3
<1>6. QED
  BY <1>4, <1>5

LEMMA ApplyKeeps ==
  ASSUME MergeInv, Apply
  PROVE  MergeInv' /\ s'.pub = s.pub /\ (OrderInv => OrderInv')
<1>1. CASE \E u : Warms(u)
  <2>1. PICK u : Warms(u)
    BY <1>1
  <2>2. /\ Ready(u) /\ Beside(u, s) /\ u.queue \in Seq(EntrySet)
        /\ PartAt(u.queue, s.queue, DOMAIN s.queue) /\ EndCall(u, claim)
    BY <2>1 DEF Warms
  <2>3. OrderInv => OrderOK(u, claim) /\ (u.foreign = 0 => TipOK(u, claim))
    BY <2>2, StayOrder
  <2>4. QED
    BY <2>2, <2>3, EndKeeps DEF Beside
<1>2. CASE \E u, done : Quits(u, done)
  BY <1>2, QuitsKeeps
<1>3. QED
  BY <1>1, <1>2, ApplyCall

(* The front of the queue leaves it; the rest stays, cold or as it was. *)
LEMMA FrontLeaves ==
  ASSUME NEW t, Ready(t), NEW m \in 0..Len(t.queue), NEW u, u.queue \in Seq(EntrySet),
         \/ u.queue = SubSeq(t.queue, m + 1, Len(t.queue))
         \/ u.queue = Cold(SubSeq(t.queue, m + 1, Len(t.queue))),
         u.merge = t.merge, u.tip = t.tip, u.rounds = t.rounds, u.made = t.made,
         u.pub.seq \in Int, t.pub.seq <= u.pub.seq
  PROVE  LET done == SubSeq(t.queue, 1, m)
         IN  /\ EntriesOK(u) /\ JudgedOK(u) /\ OneId(u.queue)
             /\ \A i \in DOMAIN u.queue : u.queue[i].round = 0 => u.queue[i].n <= u.made
             /\ done \in Seq(EntrySet) /\ Mine(u, done) \subseteq Nat /\ Off(u, Mine(u, done))
             /\ t.merge.phase # "delta" => Joins(u, ClientsOf(done))
<1> DEFINE q    == t.queue
           done == SubSeq(q, 1, m)
           rest == SubSeq(q, m + 1, Len(q))
           K    == (m + 1)..Len(q)
           L    == 1..m
<1>1. q \in Seq(EntrySet) /\ Len(q) \in Nat /\ m \in Nat
  BY DEF Ready, StateSet
<1>2. done \in Seq(EntrySet) /\ rest \in Seq(EntrySet)
  BY <1>1, FrontBack
<1>3. PartAt(done, q, L)
  BY <1>1, FrontPart
<1>4. PartAt(rest, q, K)
  BY <1>1, BackPart
<1>5. K \cap L = {} /\ \A x \in K, y \in L : y < x
  BY <1>1
<1> HIDE DEF done, rest
<1>6. PartAt(u.queue, q, K)
  <2>1. CASE u.queue = rest
    BY <1>4, <2>1
  <2>2. CASE u.queue = Cold(rest)
    BY <1>2, <1>4, <2>2, ColdPart
  <2>3. QED
    BY <2>1, <2>2 DEF rest
<1> HIDE DEF K, L, q
<1>a. PartAt(u.queue, t.queue, K) /\ PartAt(done, t.queue, L)
  BY <1>3, <1>6 DEF q
<1>7. /\ EntriesOK(u) /\ JudgedOK(u) /\ OneId(u.queue)
      /\ \A i \in DOMAIN u.queue : u.queue[i].round = 0 => u.queue[i].n <= u.made
  BY <1>a, StayOK
<1>8. Mine(u, done) \subseteq Nat /\ Off(u, Mine(u, done))
  BY <1>a, <1>5, LeftOff
<1>9. t.merge.phase # "delta" => Joins(u, ClientsOf(done))
  <2>1. SUFFICES ASSUME t.merge.phase # "delta" PROVE Joins(u, ClientsOf(done))
    OBVIOUS
  <2>2. done # <<>> => t.merge.phase # "delta"
    BY <2>1
  <2>3. QED
    BY <1>2, <1>5, <1>a, <2>2, LeftJoins
<1>10. QED
  BY <1>2, <1>7, <1>8, <1>9 DEF done, q

LEMMA NoCommitOK ==
  ASSUME NEW u, u.commit = NoCommit, u.queue \in Seq(EntrySet)
  PROVE  CommitOK(u)
BY MergeAssumption DEF NoCommit, CommitOK

(* A commit in flight has writes, and no hold is set. *)
LEMMA FlightIs ==
  ASSUME MergeInv, s.commit # NoCommit
  PROVE  /\ s.commit.n > 0 /\ s.commit.n \in 0..Len(s.queue) /\ ~s.held /\ s.merge.phase # "delta"
         /\ s.commit.head.seq = s.pub.seq + 1
         /\ s.commit.head.tree = PutAll(s.pub.tree, SubSeq(s.queue, 1, s.commit.n))
<1>1. /\ CommitOK(s) /\ s.commit.n \in Nat /\ s.queue \in Seq(EntrySet) /\ (s.held <=> s.merge.phase = "delta")
  BY StateIs DEF Ready
<1>2. s.commit.n > 0 /\ s.commit.n \in 0..Len(s.queue)
  BY <1>1 DEF CommitOK
<1>3. ~s.held /\ s.commit.head = [seq |-> s.pub.seq + 1,
                                 tree |-> PutAll(s.pub.tree, SubSeq(s.queue, 1, s.commit.n))]
  BY <1>1, <1>2 DEF CommitOK
<1>4. QED
  BY <1>1, <1>2, <1>3

(* The front of the queue leaves it, published. *)
LEMMA FrontPublishes ==
  ASSUME MergeInv, OrderInv, s.merge.phase # "delta", NEW m \in 0..Len(s.queue), NEW u,
         \/ u.queue = SubSeq(s.queue, m + 1, Len(s.queue))
         \/ u.queue = Cold(SubSeq(s.queue, m + 1, Len(s.queue))),
         u.queue \in Seq(EntrySet), u.made = s.made, u.probe = s.probe, u.foreign \in Nat,
         s.foreign <= u.foreign, u.tip = s.tip, u.merge = s.merge,
         NEW p, p = SubSeq(s.queue, 1, m), p # <<>>, Ends(u, p, <<>>),
         NEW d, \/ d = Claimed(claim, p)
                \/ u.foreign > 0 /\ Given(d, Claimed(claim, p), u),
         NEW w \in {u, CloseCut(u)}, EndCall(SameIdentity(w, p, <<>>), d)
  PROVE  OrderInv'
<1> DEFINE c == Claimed(claim, p)
           q == ClientsOf(p)
<1>1. Ready(s) /\ s.merge \in MergeSet /\ s.foreign \in Nat
  BY StateIs
<1>2. OrderOK(s, claim) /\ (s.foreign = 0 => TipOK(s, claim))
  BY DEF OrderInv
<1>3. OrderOK(u, c) /\ Ahead(u, q) /\ (s.foreign = 0 /\ TipOK(s, claim) => Joined(u, q, c))
  BY <1>1, <1>2, FrontOrder
<1>4. u.foreign = 0 => s.foreign = 0
  BY <1>1
<1> HIDE DEF c, q
<1>5. OrderOK(u, d)
  <2>1. u.merge.writes \in Seq(KeptSet)
    BY <1>1 DEF MergeSet
  <2>2. CASE d = c
    BY <1>3, <2>2
  <2>3. CASE Given(d, c, u)
    BY <1>3, <2>1, <2>3, OrderGiven
  <2>4. QED
    BY <2>2, <2>3 DEF c
<1>6. u.foreign = 0 => Joined(u, q, d)
  BY <1>2, <1>3, <1>4 DEF c
<1>7. QED
  BY <1>3, <1>5, <1>6, CallOrder DEF q

(* The calls that end a commit, each as what it leaves and what it answers: *)
(* the first r writes of the queue are Published, on the head or on one     *)
(* more.                                                                    *)
Carries(u, done, r) ==
  /\ r \in 0..Len(s.queue) /\ s.merge.phase # "delta"
  /\ u.queue = SubSeq(s.queue, r + 1, Len(s.queue)) /\ u.queue \in Seq(EntrySet)
  /\ u.pub.tree = PutAll(s.pub.tree, done)
  /\ done = SubSeq(s.queue, 1, r) /\ done # <<>> /\ done \in Seq(EntrySet)
Publishes(u, done, r) ==
  /\ Carries(u, done, r)
  /\ u.made = s.made /\ u.tip = s.tip /\ u.merge = s.merge /\ u.rounds = s.rounds
  /\ u.probe = s.probe /\ u.foreign = s.foreign /\ u.own = s.own
  /\ \/ u.pub = s.pub /\ u.prev = s.prev /\ u.line = s.line
     \/ u.pub.seq = s.pub.seq + 1 /\ u.prev = s.pub /\ u.line = Append(s.line, u.pub)
  /\ Ends(u, done, <<>>) /\ EndCall(SameIdentity(CloseCut(u), done, <<>>), Claimed(claim, done))

LEMMA LandCall ==
  ASSUME MergeInv, Land
  PROVE  \E u, done : Publishes(u, done, s.commit.n) /\ u.pub = s.commit.head
<1> DEFINE q    == s.queue
           m    == s.commit.n
           done == SubSeq(q, 1, m)
           rest == SubSeq(q, m + 1, Len(q))
           h    == s.commit.head
           l    == Append(s.line, h)
           u    == [s EXCEPT !.pub = h, !.prev = s.pub, !.line = l, !.commit = NoCommit, !.queue = rest]
           z    == <<>>
<1>1. /\ Ready(s) /\ s \in StateSet /\ q \in Seq(EntrySet) /\ WarmFirst(q) /\ Replays(s.pub.tree, q)
      /\ h \in HeadSet /\ s.line \in Seq(HeadSet) /\ s.pub \in HeadSet /\ s.pub.seq \in Nat /\ s.pub.seq > 0
      /\ s.merge \in MergeSet /\ s.foreign \in Nat
  BY StateIs
<1>2. /\ m > 0 /\ m \in 0..Len(q) /\ s.merge.phase # "delta" /\ h.seq = s.pub.seq + 1
      /\ h.tree = PutAll(s.pub.tree, done)
  BY FlightIs DEF Land
<1>3. EndCall(SameIdentity(CloseCut(u), done, z), Claimed(claim, done))
  BY DEF Land
<1>4. rest \in Seq(EntrySet) /\ done \in Seq(EntrySet) /\ Len(done) = m
  BY <1>1, <1>2, FrontBack
<1>5. done # <<>>
  BY <1>2, <1>4
<1>6. /\ l \in Seq(HeadSet) /\ l # <<>> /\ l[Len(l)] = h /\ ToSet(s.line) \subseteq ToSet(l)
  <2>1. /\ l \in Seq(HeadSet) /\ l # <<>> /\ Len(l) = Len(s.line) + 1 /\ l[Len(s.line) + 1] = h
        /\ \A i \in DOMAIN s.line : l[i] = s.line[i] /\ i \in DOMAIN l
    BY <1>1
  <2> HIDE DEF l
  <2>2. QED
    BY <2>1 DEF ToSet
<1>7. WarmFirst(rest) /\ Replays(h.tree, rest)
  BY <1>1, <1>2, BackReplays
<1>8. NoCommit \in [n : Nat, head : HeadSet]
  BY Nones DEF NoCommit
<1> HIDE DEF l
<1>a. u.queue = rest
  BY <1>1 DEF StateSet
<1>b. rest = SubSeq(s.queue, m + 1, Len(s.queue)) /\ done = SubSeq(s.queue, 1, m)
  OBVIOUS
<1>c. z = <<>>
  OBVIOUS
<1> HIDE DEF rest, done, z
<1>9. /\ u \in StateSet /\ u.pub = h /\ u.line = l /\ u.queue = rest /\ u.commit = NoCommit
      /\ u.beaten = s.beaten /\ u.made = s.made /\ u.tip = s.tip /\ u.merge = s.merge
      /\ u.rounds = s.rounds /\ u.held = s.held /\ u.probe = s.probe /\ u.foreign = s.foreign
      /\ u.prev = s.pub /\ u.own = s.own /\ u.line = Append(s.line, h)
  BY <1>1, <1>4, <1>6, <1>8 DEF StateSet, l
<1> HIDE DEF u
<1>10. u.queue \in Seq(EntrySet) /\ u.pub.seq \in Int /\ s.pub.seq <= u.pub.seq
  BY <1>1, <1>2, <1>4, <1>9
<1>11. /\ EntriesOK(u) /\ JudgedOK(u) /\ OneId(u.queue)
       /\ \A i \in DOMAIN u.queue : u.queue[i].round = 0 => u.queue[i].n <= u.made
       /\ Mine(u, done) \subseteq Nat /\ Off(u, Mine(u, done)) /\ Joins(u, ClientsOf(done))
  BY <1>1, <1>2, <1>9, <1>10, <1>b, FrontLeaves
<1>12. LineOK(u) /\ QueueOK(u) /\ CommitOK(u)
  <2>1. LineOK(u)
    BY <1>1, <1>2, <1>6, <1>9 DEF LineOK
  <2>2. QueueOK(u)
    BY <1>7, <1>9, <1>11 DEF QueueOK
  <2>3. CommitOK(u)
    BY <1>9, <1>10, NoCommitOK
  <2>4. QED
    BY <2>1, <2>2, <2>3
<1>13. WinnerOK(u)
  <2>1. WinnerOK(s)
    BY <1>1 DEF Ready
  <2>2. s.merge.winner.seq \in Int
    BY <1>1 DEF MergeSet, HeadSet
  <2>3. s.merge.phase # "none" => s.merge.winner.seq <= s.pub.seq /\ s.rounds > 0 /\ s.merge.winner \in ToSet(s.line) \cup s.beaten
    BY <2>1 DEF WinnerOK
  <2>4. s.merge.phase # "none" => s.merge.winner.seq < h.seq
    BY <1>1, <1>2, <2>2, <2>3
  <2>5. s.merge.phase # "none" => u.pub # s.merge.winner
    BY <1>9, <2>2, <2>4
  <2>6. QED
    BY <1>1, <1>2, <1>6, <1>9, <2>2, <2>3, <2>4, <2>5 DEF WinnerOK
<1>14. Ready(u)
  BY <1>2, <1>9, <1>11, <1>12, <1>13 DEF Ready
<1>15. Ends(u, done, z)
  BY <1>4, <1>5, <1>11, <1>14, <1>c, EndsPublished
<1>16. Publishes(u, done, s.commit.n)
  BY <1>2, <1>3, <1>4, <1>5, <1>9, <1>10, <1>15, <1>b, <1>c DEF Publishes, Carries
<1>17. QED
  BY <1>9, <1>16

LEMMA LandKeeps ==
  ASSUME MergeInv, Land
  PROVE  /\ MergeInv' /\ s'.foreign = s.foreign /\ (OrderInv => OrderInv')
         /\ s'.pub = s.commit.head
         /\ \E m : /\ m.writes = s.merge.writes
                   /\ claim' =
                        ProbeTells(s.probe, MergeTells(m, Claimed(claim, SubSeq(s.queue, 1, s.commit.n))))
<1>1. PICK u, done : Publishes(u, done, s.commit.n) /\ u.pub = s.commit.head
  BY LandCall
<1> DEFINE z == <<>>
<1>c. z = <<>>
  OBVIOUS
<1> HIDE DEF z
<1>2. /\ s.commit.n \in 0..Len(s.queue) /\ s.merge.phase # "delta" /\ s.foreign \in Nat
  BY <1>1, StateIs DEF Publishes, Carries
<1>3. Ends(u, done, z) /\ EndCall(SameIdentity(CloseCut(u), done, z), Claimed(claim, done)) /\ done # z
  BY <1>1, <1>c DEF Publishes, Carries
<1>16. MergeInv' /\ s'.foreign = u.foreign /\ s'.pub = u.pub
  BY <1>3, CallKeeps
<1>a. /\ u.queue = SubSeq(s.queue, s.commit.n + 1, Len(s.queue)) /\ u.queue \in Seq(EntrySet)
      /\ u.made = s.made /\ u.probe = s.probe /\ u.foreign = s.foreign /\ u.tip = s.tip /\ u.merge = s.merge
      /\ done = SubSeq(s.queue, 1, s.commit.n) /\ done # <<>> /\ done \in Seq(EntrySet) /\ u.pub = s.commit.head
  BY <1>1 DEF Publishes, Carries
<1>17. OrderInv => OrderInv'
  <2>1. u.foreign \in Nat /\ s.foreign <= u.foreign
    BY <1>2, <1>a
  <2>2. QED
    BY <1>2, <1>3, <1>a, <1>c, <2>1, FrontPublishes
<1> DEFINE w == CloseCut(u)
           v == SameIdentity(w, done, z)
<1>18. v.probe = s.probe /\ v.merge.writes = s.merge.writes
  <2>1. w.probe = u.probe /\ w.merge = u.merge
    BY <1>3, CloseIs DEF Ends, Ready
  <2>2. Ends(w, done, z)
    BY <1>3, CloseEnds
  <2>3. done # <<>> /\ u.probe = s.probe /\ u.merge = s.merge
    BY <1>a
  <2> HIDE DEF w
  <2>4. QED
    BY <2>1, <2>2, <2>3, CallSame
<1>19. claim' = ProbeTells(v.probe, MergeTells(v.merge, Claimed(claim, done)))
  BY <1>3 DEF EndCall
<1> HIDE DEF v
<1>20. QED
  BY <1>a, <1>16, <1>17, <1>18, <1>19

LEMMA FailCall ==
  ASSUME MergeInv, Fail
  PROVE  \E u, done : Quits(u, done)
<1> DEFINE q    == s.queue
           m    == s.commit.n
           done == SubSeq(q, 1, m)
           back == SubSeq(q, m + 1, Len(q))
           rest == Cold(back)
           u    == [s EXCEPT !.commit = NoCommit, !.queue = rest]
           z    == <<>>
<1>1. /\ Ready(s) /\ s \in StateSet /\ q \in Seq(EntrySet) /\ s.pub.seq \in Nat /\ s.seen = s.pub
  BY StateIs
<1>2. m > 0 /\ m \in 0..Len(q) /\ s.merge.phase # "delta"
  BY FlightIs DEF Fail
<1>3. EndCall(SameIdentity(CloseCut(u), z, done), claim)
  BY DEF Fail
<1>4. back \in Seq(EntrySet) /\ PartAt(back, q, (m + 1)..Len(q))
  BY <1>1, <1>2, FrontBack, BackPart
<1>b. rest = Cold(SubSeq(s.queue, m + 1, Len(s.queue))) /\ done = SubSeq(s.queue, 1, m)
  OBVIOUS
<1> HIDE DEF back
<1>5. /\ rest \in Seq(EntrySet) /\ WarmFirst(rest) /\ Replays(s.pub.tree, rest)
      /\ PartAt(rest, q, (m + 1)..Len(q))
  BY <1>4, ColdIs, ColdPart
<1>8. NoCommit \in [n : Nat, head : HeadSet]
  BY Nones DEF NoCommit
<1>c. z = <<>>
  OBVIOUS
<1> HIDE DEF rest, done, z
<1>9. /\ u \in StateSet /\ u.queue = rest /\ u.commit = NoCommit
      /\ u.pub = s.pub /\ u.line = s.line /\ u.beaten = s.beaten /\ u.made = s.made /\ u.tip = s.tip
      /\ u.merge = s.merge /\ u.rounds = s.rounds /\ u.held = s.held /\ u.seen = s.seen
      /\ Beside(u, s)
  BY <1>1, <1>5, <1>8 DEF StateSet, Beside
<1> HIDE DEF u
<1>10. u.queue \in Seq(EntrySet) /\ u.pub.seq \in Int /\ s.pub.seq <= u.pub.seq
  BY <1>1, <1>5, <1>9
<1>11. /\ EntriesOK(u) /\ JudgedOK(u) /\ OneId(u.queue)
       /\ \A i \in DOMAIN u.queue : u.queue[i].round = 0 => u.queue[i].n <= u.made
       /\ Mine(u, done) \subseteq Nat /\ Off(u, Mine(u, done))
  BY <1>1, <1>2, <1>9, <1>10, <1>b, FrontLeaves
<1>12. LineOK(u) /\ QueueOK(u) /\ CommitOK(u) /\ WinnerOK(u)
  <2>1. LineOK(u) /\ WinnerOK(u)
    BY <1>1, <1>9, LineSame, WinnerSame DEF Ready
  <2>2. QueueOK(u)
    BY <1>5, <1>9, <1>11 DEF QueueOK
  <2>3. CommitOK(u)
    BY <1>9, <1>10, NoCommitOK
  <2>4. QED
    BY <2>1, <2>2, <2>3
<1>14. Ready(u) /\ Moved(u)
  BY <1>1, <1>2, <1>9, <1>11, <1>12 DEF Ready, Moved
<1>15. Ends(u, z, done)
  BY <1>11, <1>14, <1>c, EndsEnded
<1>16. Quits(u, done)
  BY <1>3, <1>5, <1>9, <1>10, <1>15, <1>c DEF Quits
<1>17. QED
  BY <1>16

LEMMA FailKeeps ==
  ASSUME MergeInv, Fail
  PROVE  MergeInv' /\ s'.pub = s.pub /\ (OrderInv => OrderInv')
BY FailCall, QuitsKeeps

(* The cut is a front of the queue, applied; none of it drops out. *)
LEMMA CutIs ==
  ASSUME NEW t, t.queue \in Seq(EntrySet), t.pub.tree \in Trees, Replays(t.pub.tree, t.queue)
  PROVE  \E m \in 0..Len(t.queue) :
           /\ CutOf(t) = SubSeq(t.queue, 1, m)
           /\ LET a == Judged(t, CutOf(t))
              IN  /\ a.dropped = <<>> /\ a.taken = SubSeq(t.queue, 1, Room(m))
                  /\ a.tree = PutAll(t.pub.tree, SubSeq(t.queue, 1, Room(m)))
                  /\ a.noop => a.tree = t.pub.tree
                  /\ a.noop \in BOOLEAN
           /\ \A i \in 1..m : t.queue[i].warm
<1> DEFINE q == t.queue
           I == {i \in DOMAIN q : \A j \in 1..i : InCut(t, q[j])}
<1>1. I \in SUBSET (1..Len(q)) /\ Len(q) \in Nat /\ DOMAIN q = 1..Len(q)
  OBVIOUS
<1>2. \A i \in I : \A j \in 1..i : j \in I
  <2> SUFFICES ASSUME NEW i \in I, NEW j \in 1..i PROVE j \in I
    OBVIOUS
  <2>1. j \in DOMAIN q /\ \A k \in 1..j : k \in 1..i
    OBVIOUS
  <2>2. QED
    BY <2>1
<1>3. PICK m \in 0..Len(q) : I = 1..m
  BY <1>1, <1>2, PrefixIs
<1> DEFINE p == SubSeq(q, 1, m)
<1>4. CutOf(t) = p
  BY <1>3, FrontIs DEF CutOf
<1>5. \A i \in 1..m : q[i].warm
  <2> SUFFICES ASSUME NEW i \in 1..m PROVE q[i].warm
    OBVIOUS
  <2>1. i \in I
    BY <1>3
  <2>2. i \in 1..i /\ InCut(t, q[i])
    BY <2>1
  <2>3. QED
    BY <2>2 DEF InCut
<1>6. p \in Seq(EntrySet) /\ Len(p) = m /\ \A i \in 1..m : p[i] = q[i]
  BY FrontBack
<1> HIDE DEF I, p
<1>7. \A i \in 1..Len(p) : Holds(PutAll(t.pub.tree, SubSeq(p, 1, i - 1)), p[i])
  <2> SUFFICES ASSUME NEW i \in 1..Len(p)
               PROVE  Holds(PutAll(t.pub.tree, SubSeq(p, 1, i - 1)), p[i])
    OBVIOUS
  <2>1. i \in 1..m /\ q[i].warm /\ m <= Len(p) /\ \A j \in 1..m : Same(p[j], q[j])
    BY <1>5, <1>6 DEF Same
  <2>2. QED
    BY <1>6, <2>1, FrontReplays
<1>8. LET a == Judged(t, p)
      IN  /\ a.dropped = <<>> /\ a.taken = SubSeq(p, 1, Room(m))
          /\ a.tree = PutAll(t.pub.tree, SubSeq(p, 1, Room(m)))
          /\ a.noop => a.tree = t.pub.tree
          /\ a.noop \in BOOLEAN
  <2>1. LET a == Judged(t, p)
        IN  /\ a.dropped = <<>> /\ a.taken = SubSeq(p, 1, Room(Len(p)))
            /\ a.tree = PutAll(t.pub.tree, SubSeq(p, 1, Room(Len(p))))
            /\ a.noop => a.tree = t.pub.tree
            /\ a.noop \in BOOLEAN
    BY <1>6, <1>7, InOrderTaken
  <2>2. QED
    BY <1>6, <2>1
<1>9. SubSeq(p, 1, Room(m)) = SubSeq(q, 1, Room(m))
  <2>1. PICK r \in Nat : r = Room(m)
    BY MergeAssumption DEF Room
  <2>2. r \in 0..m
    BY <2>1, MergeAssumption DEF Room
  <2> DEFINE a == SubSeq(p, 1, r)
             b == SubSeq(q, 1, r)
  <2>3. a \in Seq(EntrySet) /\ Len(a) = r /\ \A i \in 1..r : a[i] = q[i]
    <3>1. r \in 0..Len(p)
      BY <1>6, <2>2
    <3>2. a \in Seq(EntrySet) /\ Len(a) = r /\ \A i \in 1..r : a[i] = p[i]
      BY <1>6, <3>1, FrontBack
    <3>3. \A i \in 1..r : i \in 1..m
      BY <2>2
    <3>4. QED
      BY <1>6, <3>2, <3>3
  <2>4. b \in Seq(EntrySet) /\ Len(b) = r /\ \A i \in 1..r : b[i] = q[i]
    BY <2>2, FrontBack
  <2> HIDE DEF a, b
  <2>5. a = b
    BY <2>3, <2>4
  <2>6. QED
    BY <2>1, <2>5 DEF a, b
<1> DEFINE v == Judged(t, CutOf(t))
           w == SubSeq(q, 1, Room(m))
<1>10. /\ v.dropped = <<>> /\ v.taken = w /\ v.tree = PutAll(t.pub.tree, w)
       /\ (v.noop => v.tree = t.pub.tree) /\ v.noop \in BOOLEAN
  <2>1. v = Judged(t, p)
    BY <1>4
  <2>2. SubSeq(p, 1, Room(m)) = w
    BY <1>9
  <2> HIDE DEF v, w
  <2>3. QED
    BY <1>8, <2>1, <2>2, Zenon
<1> HIDE DEF v, w
<1>11. CutOf(t) = SubSeq(t.queue, 1, m) /\ w = SubSeq(t.queue, 1, Room(m)) /\ v = Judged(t, CutOf(t))
  BY <1>4 DEF p, v, w
<1>12. QED
  BY <1>5, <1>10, <1>11, Zenon

LEMMA RestIs ==
  ASSUME NEW q \in Seq(EntrySet), OneId(q), NEW r \in 0..Len(q), NEW a, a.dropped = <<>>, a.taken = SubSeq(q, 1, r)
  PROVE  Rest(q, a) = SubSeq(q, r + 1, Len(q))
<1> DEFINE K == {i \in DOMAIN q : Id(q[i]) \notin Ids(a.taken) \cup Ids(a.dropped)}
<1>1. Ids(a.dropped) = {}
  BY DEF Ids
<1>2. DOMAIN a.taken = 1..r /\ \A i \in 1..r : a.taken[i] = q[i]
  BY FrontBack
<1>3. Ids(a.taken) = {Id(q[i]) : i \in 1..r}
  BY <1>2 DEF Ids
<1>4. \A i \in DOMAIN q : Id(q[i]) \in {Id(q[j]) : j \in 1..r} <=> i \in 1..r
  <2>1. 1..r \subseteq DOMAIN q
    OBVIOUS
  <2>2. QED
    BY <2>1 DEF OneId
<1>5. K = DOMAIN q \ (1..r)
  BY <1>1, <1>3, <1>4
<1>6. K = (r + 1)..Len(q)
  BY <1>5
<1>7. r \in Nat /\ Len(q) \in Nat /\ r <= Len(q) /\ Len(q) <= Len(q)
  OBVIOUS
<1>8. Only(q, (r + 1)..Len(q)) = SubSeq(q, r + 1, Len(q))
  BY <1>7, OnlyRun
<1>9. QED
  BY <1>6, <1>8 DEF Rest

LEMMA FrontAndBack ==
  ASSUME NEW S, NEW q \in Seq(S), NEW r \in 0..Len(q)
  PROVE  SubSeq(q, 1, r) \o SubSeq(q, r + 1, Len(q)) = q
<1> DEFINE a == SubSeq(q, 1, r)
           b == SubSeq(q, r + 1, Len(q))
           c == a \o b
<1>1. a \in Seq(S) /\ Len(a) = r /\ \A i \in 1..r : a[i] = q[i]
  BY FrontBack
<1>2. b \in Seq(S) /\ Len(b) = Len(q) - r /\ \A i \in 1..(Len(q) - r) : b[i] = q[i + r]
  BY FrontBack
<1> HIDE DEF a, b
<1>3. c \in Seq(S) /\ Len(c) = Len(q)
  <2>1. a \in Seq(S) /\ b \in Seq(S)
    BY <1>1, <1>2
  <2>2. c \in Seq(S)
    BY <2>1
  <2>3. Len(c) = Len(a) + Len(b)
    BY <2>1
  <2>4. Len(a) = r /\ Len(b) = Len(q) - r
    BY <1>1, <1>2
  <2>5. QED
    BY <2>2, <2>3, <2>4
<1>4. \A i \in 1..Len(q) : c[i] = q[i]
  <2> SUFFICES ASSUME NEW i \in 1..Len(q) PROVE c[i] = q[i]
    OBVIOUS
  <2>1. CASE i <= r
    BY <1>1, <1>2, <2>1
  <2>2. CASE i > r
    <3>1. i - r \in 1..(Len(q) - r) /\ (i - r) + r = i
      BY <2>2
    <3>2. b[i - r] = q[i]
      BY <1>2, <3>1
    <3>3. c[i] = b[i - r]
      BY <1>1, <1>2, <2>2
    <3>4. QED
      BY <3>2, <3>3
  <2>3. i \in Int /\ r \in Int
    OBVIOUS
  <2> HIDE DEF c
  <2>4. QED
    BY <2>1, <2>2, <2>3
<1> HIDE DEF c
<1>5. c = q
  BY <1>3, <1>4
<1>6. QED
  BY <1>5 DEF c, a, b

LEMMA IdsIn ==
  ASSUME NEW q \in Seq(EntrySet)
  PROVE  Ids(q) \in SUBSET (Nat \X Nat)
BY DEF Ids, Id, EntrySet

LEMMA CutCall ==
  ASSUME MergeInv, Cut
  PROVE  \/ \E u, done, r : Publishes(u, done, r) /\ u.pub = s.pub
         \/ \E u, done : Quits(u, done)
<1> DEFINE q == s.queue
           a == Judged(s, CutOf(s))
           z == <<>>
<1>1. /\ Ready(s) /\ s \in StateSet /\ q \in Seq(EntrySet) /\ WarmFirst(q) /\ Replays(s.pub.tree, q)
      /\ s.pub \in HeadSet /\ s.pub.seq \in Nat /\ s.pub.seq > 0 /\ s.pub.tree \in Trees
      /\ s.seen = s.pub /\ (s.held <=> s.merge.phase = "delta") /\ s.foreign \in Nat
  BY StateIs
<1>2. PICK m \in 0..Len(q) :
        /\ CutOf(s) = SubSeq(q, 1, m)
        /\ a.dropped = <<>> /\ a.taken = SubSeq(q, 1, Room(m))
        /\ a.tree = PutAll(s.pub.tree, SubSeq(q, 1, Room(m)))
        /\ a.noop => a.tree = s.pub.tree
        /\ a.noop \in BOOLEAN
        /\ \A i \in 1..m : q[i].warm
  BY <1>1, CutIs
<1>a. ~s.held /\ s.commit = NoCommit /\ CutOf(s) # <<>> /\ CutFront(a)
  BY DEF Cut, CanCut
<1> HIDE DEF a
<1>3. m > 0
  <2>1. CASE m = 0
    <3>1. Len(CutOf(s)) = 0 /\ CutOf(s) \in Seq(EntrySet)
      BY <1>1, <1>2, <2>1, FrontBack
    <3>2. QED
      BY <1>a, <3>1
  <2>2. QED
    BY <2>1
<1>4. PICK r \in 1..m : r = Room(m) /\ r <= MaxCommit
  BY <1>3, MergeAssumption DEF Room
<1> DEFINE done == SubSeq(q, 1, r)
           rest == SubSeq(q, r + 1, Len(q))
           c    == CutIds(s)
<1>5. r \in 0..Len(q) /\ r \in Nat /\ r > 0 /\ q[r].warm
  BY <1>2, <1>4
<1>6. a.dropped = z /\ a.taken = done /\ a.tree = PutAll(s.pub.tree, done) /\ (a.noop => a.tree = s.pub.tree)
  BY <1>2, <1>4
<1>7. Rest(q, a) = rest
  <2>1. OneId(q)
    BY <1>1 DEF Ready, QueueOK
  <2>2. QED
    BY <1>1, <1>5, <1>6, <2>1, RestIs
<1>8. RestAfter(s, a) = rest
  BY <1>6, <1>7 DEF RestAfter
<1>9. c \in SUBSET (Nat \X Nat)
  <2>1. CutOf(s) \in Seq(EntrySet)
    BY <1>1, <1>2, FrontBack
  <2>2. Ids(CutOf(s)) \in SUBSET (Nat \X Nat)
    BY <2>1, IdsIn
  <2>3. s.cut \in SUBSET (Nat \X Nat)
    BY <1>1 DEF StateSet
  <2>4. QED
    BY <2>2, <2>3 DEF CutIds
<1>10. rest \in Seq(EntrySet) /\ done \in Seq(EntrySet) /\ Len(done) = r
  <2>1. q \in Seq(EntrySet) /\ r \in 0..Len(q)
    BY <1>1, <1>5
  <2>2. SubSeq(q, 1, r) \in Seq(EntrySet) /\ Len(SubSeq(q, 1, r)) = r
    BY <2>1, FrontBack
  <2>3. SubSeq(q, r + 1, Len(q)) \in Seq(EntrySet)
    BY <2>1, FrontBack
  <2>4. QED
    BY <2>2, <2>3
<1>11. done # <<>>
  BY <1>5, <1>10
<1>12. s.merge.phase # "delta"
  BY <1>1, <1>a
<1> HIDE DEF c
<1>13. CASE a.noop /\ CutEnds(a)
  <2> DEFINE u == [s EXCEPT !.queue = rest, !.cut = c]
  <2>1. EndCall(SameIdentity(CloseCut(u), done, z), Claimed(claim, done))
    BY <1>6, <1>8, <1>13 DEF CutEnds, c
  <2>2. WarmFirst(rest) /\ Replays(s.pub.tree, rest)
    <3>1. WarmFirst(rest) /\ Replays(PutAll(s.pub.tree, done), rest)
      BY <1>1, <1>5, BackReplays
    <3>2. PutAll(s.pub.tree, done) = s.pub.tree
      BY <1>6, <1>13
    <3>3. QED
      BY <3>1, <3>2
  <2>b. rest = SubSeq(s.queue, r + 1, Len(s.queue)) /\ done = SubSeq(s.queue, 1, r)
    OBVIOUS
  <2>c. z = <<>>
    OBVIOUS
  <2> HIDE DEF rest, done, z
  <2>3. /\ u \in StateSet /\ u.queue = rest /\ u.commit = s.commit
        /\ u.pub = s.pub /\ u.line = s.line /\ u.beaten = s.beaten /\ u.made = s.made /\ u.tip = s.tip
        /\ u.merge = s.merge /\ u.rounds = s.rounds /\ u.held = s.held
        /\ u.probe = s.probe /\ u.foreign = s.foreign
        /\ u.own = s.own /\ u.prev = s.prev
    BY <1>1, <1>9, <1>10 DEF StateSet
  <2> HIDE DEF u
  <2>4. u.queue \in Seq(EntrySet) /\ u.pub.seq \in Int /\ s.pub.seq <= u.pub.seq
    BY <1>1, <1>10, <2>3
  <2>5. /\ EntriesOK(u) /\ JudgedOK(u) /\ OneId(u.queue)
        /\ \A i \in DOMAIN u.queue : u.queue[i].round = 0 => u.queue[i].n <= u.made
        /\ Mine(u, done) \subseteq Nat /\ Off(u, Mine(u, done)) /\ Joins(u, ClientsOf(done))
    BY <1>1, <1>5, <1>12, <2>3, <2>4, <2>b, FrontLeaves
  <2>6. LineOK(u) /\ WinnerOK(u)
    BY <1>1, <2>3, LineSame, WinnerSame DEF Ready
  <2>7. QueueOK(u) /\ CommitOK(u)
    BY <1>a, <2>2, <2>3, <2>4, <2>5, NoCommitOK DEF QueueOK
  <2>8. Ready(u)
    BY <1>12, <2>3, <2>5, <2>6, <2>7 DEF Ready
  <2>9. Ends(u, done, z)
    BY <1>10, <1>11, <2>5, <2>8, <2>c, EndsPublished
  <2>10. Publishes(u, done, r)
    <3>1. u.pub.tree = PutAll(s.pub.tree, done)
      BY <1>6, <1>13, <2>3
    <3>2. Ends(u, done, <<>>) /\ EndCall(SameIdentity(CloseCut(u), done, <<>>), Claimed(claim, done))
      BY <2>1, <2>9, <2>c
    <3>3. done # <<>> /\ done \in Seq(EntrySet) /\ r \in 0..Len(s.queue)
      BY <1>5, <1>10, <1>11, <2>c
    <3>4. /\ u.queue = SubSeq(s.queue, r + 1, Len(s.queue)) /\ u.queue \in Seq(EntrySet)
          /\ done = SubSeq(s.queue, 1, r)
      BY <2>3, <2>4, <2>b
    <3>5. QED
      BY <1>12, <2>3, <3>1, <3>2, <3>3, <3>4 DEF Publishes, Carries
  <2>11. QED
    BY <2>3, <2>10
<1>14. CASE ~a.noop /\ CutCommits(a)
  <2> DEFINE h == [seq |-> s.pub.seq + 1, tree |-> a.tree]
             f == [n |-> r, head |-> h]
             u == [s EXCEPT !.queue = q, !.cut = c, !.commit = f]
  <2>1. done \o rest = q
    BY <1>1, <1>5, FrontAndBack
  <2>2. EndCall(SameIdentity(u, z, z), claim)
    <3> HIDE DEF rest, done, z
    <3>1. a.taken \o RestAfter(s, a) = q /\ Len(a.taken) = r /\ a.dropped = z
      BY <1>6, <1>8, <1>10, <2>1
    <3>2. QED
      BY <1>14, <3>1 DEF CutCommits, c, z
  <2>3. h \in HeadSet /\ f \in [n : Nat, head : HeadSet]
    <3>1. a.tree \in Trees
      <4>1. DOMAIN done = 1..r /\ \A i \in 1..r : done[i].sets \in Edits
        <5> HIDE DEF done
        <5>1. done \in Seq(EntrySet) /\ DOMAIN done = 1..r
          BY <1>10
        <5>2. QED
          BY <5>1 DEF EntrySet
      <4> HIDE DEF done
      <4>2. QED
        BY <1>1, <1>5, <1>6, <4>1, PutAllTree
    <3>2. s.pub.seq + 1 \in Nat
      BY <1>1
    <3>3. h \in HeadSet
      BY <3>1, <3>2 DEF HeadSet
    <3>4. QED
      BY <1>5, <3>3
  <2>4. f.n = r /\ f.head = [seq |-> s.pub.seq + 1, tree |-> PutAll(s.pub.tree, SubSeq(s.queue, 1, r))]
    BY <1>6
  <2> HIDE DEF f
  <2>5. /\ u \in StateSet /\ u.queue = s.queue /\ u.commit = f
        /\ u.pub = s.pub /\ u.line = s.line /\ u.beaten = s.beaten /\ u.made = s.made /\ u.tip = s.tip
        /\ u.merge = s.merge /\ u.rounds = s.rounds /\ u.held = s.held /\ u.seen = s.seen
        /\ u.probe = s.probe /\ u.foreign = s.foreign /\ Beside(u, s)
    BY <1>1, <1>9, <2>3 DEF StateSet, Beside
  <2> HIDE DEF u
  <2>6. /\ LineOK(u) /\ QueueOK(u) /\ EntriesOK(u) /\ WinnerOK(u) /\ JudgedOK(u)
    BY <1>1, <2>5, LineSame, QueueSame, EntriesSame, WinnerSame, JudgedSame DEF Ready
  <2>7. CommitOK(u)
    <3>1. u.queue[r].warm /\ r <= Len(u.queue) /\ r <= MaxCommit /\ ~u.held
      BY <1>4, <1>5, <1>a, <2>5
    <3>2. QED
      BY <1>5, <2>4, <2>5, <3>1 DEF CommitOK
  <2>8. Ready(u) /\ Moved(u)
    BY <1>1, <1>12, <2>5, <2>6, <2>7 DEF Ready, Moved
  <2>9. Mine(u, z) = {}
    BY MineNone
  <2>10. Ends(u, <<>>, z)
    <3>1. Mine(u, z) \subseteq Nat /\ Off(u, Mine(u, z))
      BY <2>9 DEF Off
    <3> HIDE DEF z
    <3>2. QED
      BY <2>8, <3>1, EndsEnded
  <2>c. z = <<>>
    OBVIOUS
  <2> HIDE DEF z
  <2>11. \A i \in DOMAIN s.queue : Same(s.queue[i], s.queue[i])
    BY DEF Same
  <2>12. PartAt(u.queue, s.queue, DOMAIN s.queue) /\ u.queue \in Seq(EntrySet)
    BY <1>1, <2>5, <2>11, AllPart
  <2>13. Quits(u, z)
    BY <2>2, <2>5, <2>10, <2>12, <2>c DEF Quits
  <2>14. QED
    BY <2>13
<1>15. QED
  BY <1>a, <1>13, <1>14 DEF CutFront

LEMMA CutKeeps ==
  ASSUME MergeInv, Cut
  PROVE  MergeInv' /\ s'.pub = s.pub /\ (OrderInv => OrderInv')
<1> DEFINE z == <<>>
<1>c. z = <<>>
  OBVIOUS
<1> HIDE DEF z
<1>1. CASE \E u, done, r : Publishes(u, done, r) /\ u.pub = s.pub
  <2>1. PICK u, done, r : Publishes(u, done, r) /\ u.pub = s.pub
    BY <1>1
  <2>2. Ends(u, done, z) /\ EndCall(SameIdentity(CloseCut(u), done, z), Claimed(claim, done)) /\ done # z
    BY <2>1, <1>c DEF Publishes, Carries
  <2>3. MergeInv' /\ s'.pub = u.pub
    BY <2>2, CallKeeps
  <2>4. OrderInv => OrderInv'
    <3>1. /\ r \in 0..Len(s.queue) /\ s.merge.phase # "delta"
          /\ u.queue = SubSeq(s.queue, r + 1, Len(s.queue)) /\ u.queue \in Seq(EntrySet)
          /\ u.made = s.made /\ u.probe = s.probe /\ u.foreign = s.foreign /\ u.tip = s.tip
          /\ u.merge = s.merge /\ done = SubSeq(s.queue, 1, r) /\ done # <<>>
      BY <2>1 DEF Publishes, Carries
    <3>2. u.foreign \in Nat /\ s.foreign <= u.foreign
      BY <3>1, StateIs
    <3>3. QED
      BY <1>c, <2>2, <3>1, <3>2, FrontPublishes
  <2>5. QED
    BY <2>1, <2>3, <2>4
<1>2. CASE \E u, done : Quits(u, done)
  BY <1>2, QuitsKeeps
<1>3. QED
  BY <1>1, <1>2, CutCall

----------------------------------------------------------------------------
(* The other device's heads. *)

LEMMA OnlyIn ==
  ASSUME NEW S, NEW q \in Seq(S), NEW K \in SUBSET DOMAIN q, NEW T, \A k \in K : q[k] \in T
  PROVE  Only(q, K) \in Seq(T)
<1> DEFINE p == Only(q, K)
           n == Cardinality(K)
<1>1. n \in Nat /\ DOMAIN p = 1..n
  BY OnlyIs
<1>2. PICK e : Walks(e, K) /\ \A j \in 1..n : p[j] = q[e[j]]
  BY OnlyIs
<1>3. p = [j \in 1..n |-> p[j]]
  BY <1>1 DEF Only
<1> HIDE DEF p
<1>4. \A j \in 1..n : e[j] \in K
  BY <1>2 DEF Walks
<1> HIDE DEF n
<1>5. \A j \in 1..n : p[j] \in T
  BY <1>2, <1>4
<1>6. p \in Seq(T)
  BY <1>1, <1>3, <1>5
<1>7. QED
  BY <1>6 DEF p

LEMMA PartSame ==
  ASSUME NEW p, NEW q, NEW r, NEW K, PartAt(p, q, K), DOMAIN q = DOMAIN r, \A i \in DOMAIN q : Same(q[i], r[i])
  PROVE  PartAt(p, r, K)
<1>1. PICK e : Places(e, p, q, K)
  BY DEF PartAt
<1>2. \A j \in DOMAIN p : e[j] \in DOMAIN q
  BY <1>1 DEF Places
<1>3. Places(e, p, r, K)
  BY <1>1, <1>2 DEF Places, Same
<1>4. QED
  BY <1>3 DEF PartAt

(* The line with a head put on the part of it up to f. *)
LineOn(line, f, h) == Append(Only(line, {i \in DOMAIN line : line[i].seq <= f.seq}), h)

LEMMA LineOnIs ==
  ASSUME NEW line \in Seq(HeadSet), NEW f \in HeadSet, NEW h \in HeadSet
  PROVE  LET l == LineOn(line, f, h)
         IN  /\ l \in Seq(HeadSet) /\ l # <<>> /\ l[Len(l)] = h
             /\ \A g \in ToSet(line) : g.seq <= f.seq => g \in ToSet(l)
             /\ Cardinality({i \in DOMAIN line : line[i].seq <= f.seq}) \in Nat
<1> DEFINE K == {i \in DOMAIN line : line[i].seq <= f.seq}
           p == Only(line, K)
           n == Cardinality(K)
           l == Append(p, h)
<1>1. K \in SUBSET DOMAIN line
  OBVIOUS
<1> HIDE DEF K
<1>2. p \in Seq(HeadSet) /\ Len(p) = n /\ n \in Nat /\ DOMAIN p = 1..n
  BY <1>1, OnlyIs
<1>3. PICK e : Walks(e, K) /\ \A j \in 1..n : p[j] = line[e[j]]
  BY <1>1, OnlyIs
<1>4. \A k \in K : \E j \in 1..n : p[j] = line[k]
  BY <1>3 DEF Walks
<1> HIDE DEF p, n
<1>5. /\ l \in Seq(HeadSet) /\ l # <<>> /\ Len(l) = n + 1 /\ l[n + 1] = h
      /\ \A j \in 1..n : l[j] = p[j] /\ j \in DOMAIN l
  <2>1. h \in HeadSet /\ p \in Seq(HeadSet) /\ Len(p) = n /\ n \in Nat
    BY <1>2
  <2>2. l \in Seq(HeadSet) /\ Len(l) = n + 1 /\ l[n + 1] = h /\ l # <<>>
    BY <2>1
  <2>3. \A j \in 1..n : l[j] = p[j]
    BY <2>1
  <2> HIDE DEF l
  <2>4. \A j \in 1..n : j \in DOMAIN l
    BY <2>1, <2>2
  <2>5. QED
    BY <2>2, <2>3, <2>4
<1> HIDE DEF l
<1>6. ASSUME NEW g \in ToSet(line), g.seq <= f.seq
      PROVE  g \in ToSet(l)
  <2>1. PICK k \in DOMAIN line : line[k] = g
    BY DEF ToSet
  <2>2. k \in K
    BY <1>6, <2>1 DEF K
  <2>3. PICK j \in 1..n : p[j] = line[k]
    BY <1>4, <2>2
  <2>4. QED
    BY <1>5, <2>1, <2>3 DEF ToSet
<1>7. l = LineOn(line, f, h)
  BY DEF l, p, K, LineOn
<1>8. n \in Nat /\ n = Cardinality({i \in DOMAIN line : line[i].seq <= f.seq})
  BY <1>2 DEF n, K
<1>9. QED
  BY <1>5, <1>6, <1>7, <1>8

(* A head adopted in place of the commit in flight. *)
(* The page knows a head more of the other device's. *)
Adopts(t, h, prev) ==
  /\ t.pub = h /\ t.prev = prev /\ t.seen = s.seen
  /\ t.queue \in Seq(EntrySet) /\ t.made = s.made /\ t.probe = s.probe /\ t.tip = s.tip
  /\ t.merge = s.merge /\ t.foreign = s.foreign + 1

LEMMA AdoptedReady ==
  ASSUME MergeInv, NEW f \in HeadSet, NEW h \in HeadSet, NEW prev \in HeadSet,
         h.seq >= s.pub.seq, h \notin ToSet(s.line) \cup s.beaten,
         NEW p \in Seq(EntrySet), NEW K, PartAt(p, s.queue, K), WarmFirst(p), \A tree : Replays(tree, p)
  PROVE  LET u == [Adopted(f, h, prev) EXCEPT !.queue = p, !.commit = NoCommit]
         IN  /\ Ready(u) /\ Moved(u) /\ u.queue = p /\ u.merge = s.merge /\ u.tip = s.tip
             /\ u.rounds = s.rounds /\ u.made = s.made
             /\ u.pub.seq \in Int /\ s.pub.seq <= u.pub.seq /\ Adopts(u, h, prev)
<1> DEFINE l  == LineOn(s.line, f, h)
           b  == s.beaten \cup {g \in ToSet(s.line) : g.seq > f.seq}
           hd == s.held \/ h.seq = s.pub.seq
           o  == Cardinality({i \in DOMAIN s.line : s.line[i].seq <= f.seq}) + 1
           fo == s.foreign + 1
           u  == [s EXCEPT !.pub = h, !.prev = prev, !.foreign = fo, !.line = l, !.own = o,
                           !.beaten = b, !.held = hd, !.queue = p, !.commit = NoCommit]
<1>1. /\ Ready(s) /\ s \in StateSet /\ s.line \in Seq(HeadSet) /\ s.pub \in HeadSet /\ s.pub.seq \in Nat /\ s.pub.seq > 0
      /\ s.merge \in MergeSet /\ s.tip \in TipSet /\ s.foreign \in Nat /\ s.held \in BOOLEAN
      /\ (s.held <=> s.merge.phase = "delta")
  BY StateIs
<1>2. [Adopted(f, h, prev) EXCEPT !.queue = p, !.commit = NoCommit] = u
  BY <1>1 DEF Adopted, LineOn, StateSet
<1>3. /\ l \in Seq(HeadSet) /\ l # <<>> /\ l[Len(l)] = h
      /\ \A g \in ToSet(s.line) : g.seq <= f.seq => g \in ToSet(l)
      /\ o \in Nat \ {0}
  <2>1. LET x == LineOn(s.line, f, h)
        IN  /\ x \in Seq(HeadSet) /\ x # <<>> /\ x[Len(x)] = h
            /\ \A g \in ToSet(s.line) : g.seq <= f.seq => g \in ToSet(x)
            /\ Cardinality({i \in DOMAIN s.line : s.line[i].seq <= f.seq}) \in Nat
    BY <1>1, LineOnIs
  <2> DEFINE c == Cardinality({i \in DOMAIN s.line : s.line[i].seq <= f.seq})
  <2>2. c \in Nat
    BY <2>1
  <2> HIDE DEF c
  <2>3. c + 1 \in Nat \ {0}
    BY <2>2
  <2>4. QED
    BY <2>1, <2>3 DEF c
<1>4. b \in SUBSET HeadSet
  <2>1. ToSet(s.line) \subseteq HeadSet
    BY <1>1 DEF ToSet
  <2>2. s.beaten \in SUBSET HeadSet
    BY <1>1 DEF StateSet
  <2>3. QED
    BY <2>1, <2>2
<1>5. \A g \in ToSet(s.line) \cup s.beaten : g \in ToSet(l) \cup b
  <2> SUFFICES ASSUME NEW g \in ToSet(s.line) PROVE g \in ToSet(l) \cup b
    OBVIOUS
  <2>1. g \in HeadSet
    BY <1>1 DEF ToSet
  <2>2. g.seq \in Int /\ f.seq \in Int
    BY <2>1 DEF HeadSet
  <2>3. g.seq <= f.seq \/ g.seq > f.seq
    BY <2>2
  <2>4. QED
    BY <1>3, <2>3
<1>6. hd \in BOOLEAN /\ (s.held => hd) /\ (h.seq = s.pub.seq => hd)
  BY <1>1
<1>7. NoCommit \in [n : Nat, head : HeadSet]
  BY Nones DEF NoCommit
<1>8. fo \in Nat
  BY <1>1
<1>a. fo = s.foreign + 1
  OBVIOUS
<1> HIDE DEF l, b, hd, o, fo
<1>9. /\ u \in StateSet /\ u.queue = p /\ u.commit = NoCommit /\ u.pub = h /\ u.line = l /\ u.beaten = b
      /\ u.made = s.made /\ u.tip = s.tip /\ u.merge = s.merge /\ u.rounds = s.rounds /\ u.held = hd
      /\ u.seen = s.seen /\ u.probe = s.probe /\ u.foreign = fo /\ u.prev = prev
  BY <1>1, <1>3, <1>4, <1>6, <1>7, <1>8 DEF StateSet
<1> HIDE DEF u
<1>10. h.seq \in Int /\ s.pub.seq <= h.seq /\ h.seq > 0
  BY <1>1 DEF HeadSet
<1>11. u.queue \in Seq(EntrySet) /\ PartAt(u.queue, s.queue, K) /\ u.pub.seq \in Int /\ s.pub.seq <= u.pub.seq
  BY <1>9, <1>10
<1>12. /\ EntriesOK(u) /\ JudgedOK(u) /\ OneId(u.queue)
       /\ \A i \in DOMAIN u.queue : u.queue[i].round = 0 => u.queue[i].n <= u.made
  BY <1>1, <1>9, <1>11, StayOK
<1>13. LineOK(u) /\ QueueOK(u) /\ CommitOK(u)
  BY <1>3, <1>9, <1>10, <1>11, <1>12, NoCommitOK DEF LineOK, QueueOK
<1>14. WinnerOK(u)
  <2>1. WinnerOK(s)
    BY <1>1 DEF Ready
  <2>2. s.merge.winner \in HeadSet
    BY <1>1 DEF MergeSet
  <2>3. s.merge.winner.seq \in Int
    BY <2>2 DEF HeadSet
  <2>4. s.merge.phase # "none" => /\ s.merge.winner \in ToSet(s.line) \cup s.beaten
                                  /\ s.merge.winner.seq <= s.pub.seq /\ s.rounds > 0
    BY <2>1 DEF WinnerOK
  <2>5. s.merge.phase # "none" => u.pub # s.merge.winner /\ s.merge.winner.seq <= h.seq
    BY <1>1, <1>9, <1>10, <2>3, <2>4
  <2>6. s.merge.phase # "none" => s.merge.winner \in ToSet(l) \cup b
    BY <1>5, <2>4
  <2>7. s.merge.phase = "delta" => s.tip = NoTip /\ s.merge.fell = {}
    BY <2>1 DEF WinnerOK
  <2>8. QED
    BY <1>9, <2>4, <2>5, <2>6, <2>7 DEF WinnerOK
<1>15. Ready(u)
  BY <1>1, <1>6, <1>9, <1>12, <1>13, <1>14 DEF Ready
<1>16. Moved(u)
  <2>1. s.tip.head.seq <= s.pub.seq
    BY <1>1 DEF Ready, JudgedOK
  <2>2. s.tip.head.seq \in Int
    BY <1>1 DEF TipSet, HeadSet
  <2>3. h.seq = s.tip.head.seq => h.seq = s.pub.seq
    BY <1>1, <1>10, <2>1, <2>2
  <2>4. QED
    BY <1>6, <1>9, <2>3 DEF Moved
<1>17. Adopts(u, h, prev)
  BY <1>9, <1>11, <1>a DEF Adopts
<1>18. QED
  BY <1>2, <1>9, <1>11, <1>15, <1>16, <1>17

AdoptedOver(f, h, prev, p) == [Adopted(f, h, prev) EXCEPT !.queue = p, !.commit = NoCommit]

(* The commit's writes leave the queue, landed or of unknown fate. *)
LEMMA GoneEnds ==
  ASSUME MergeInv, NEW f \in HeadSet, NEW h \in HeadSet, NEW prev \in HeadSet,
         h.seq >= s.pub.seq, h \notin ToSet(s.line) \cup s.beaten, s.commit # NoCommit
  PROVE  LET t == Gone(Adopted(f, h, prev))
         IN  /\ Ends(t, Carried, <<>>) /\ Ends(t, <<>>, Carried) /\ Adopts(t, h, prev)
             /\ t.queue = Cold(SubSeq(s.queue, s.commit.n + 1, Len(s.queue)))
             /\ Carried # <<>> /\ Carried \in Seq(EntrySet)
             /\ \E K : PartAt(t.queue, s.queue, K)
<1> DEFINE q    == s.queue
           m    == s.commit.n
           done == SubSeq(q, 1, m)
           back == SubSeq(q, m + 1, Len(q))
           p    == Cold(back)
           K    == (m + 1)..Len(q)
           u    == AdoptedOver(f, h, prev, p)
<1>1. Ready(s) /\ s \in StateSet /\ q \in Seq(EntrySet)
  BY StateIs
<1>2. m > 0 /\ m \in 0..Len(q) /\ s.merge.phase # "delta"
  BY FlightIs
<1>3. back \in Seq(EntrySet) /\ PartAt(back, q, K)
  BY <1>1, <1>2, FrontBack, BackPart
<1>4. p = Cold(SubSeq(s.queue, m + 1, Len(s.queue))) /\ done = SubSeq(s.queue, 1, m)
  OBVIOUS
<1>5. Gone(Adopted(f, h, prev)) = CloseCut(u)
  <2>1. Adopted(f, h, prev).queue = q
    BY <1>1 DEF Adopted, StateSet
  <2>2. QED
    BY <2>1 DEF Gone, AdoptedOver
<1>6. done # <<>>
  <2>1. done \in Seq(EntrySet) /\ Len(done) = m
    BY <1>1, <1>2, FrontBack
  <2>2. QED
    BY <1>2, <2>1
<1> HIDE DEF back
<1>7. p \in Seq(EntrySet) /\ PartAt(p, s.queue, K) /\ WarmFirst(p) /\ \A tree : Replays(tree, p)
  BY <1>3, ColdIs, ColdPart
<1> HIDE DEF p, done, K
<1>8. /\ Ready(u) /\ Moved(u) /\ u.queue = p /\ u.merge = s.merge /\ u.tip = s.tip
      /\ u.rounds = s.rounds /\ u.made = s.made
      /\ u.pub.seq \in Int /\ s.pub.seq <= u.pub.seq /\ Adopts(u, h, prev)
  BY <1>7, AdoptedReady DEF AdoptedOver
<1> HIDE DEF u
<1>9. u.queue \in Seq(EntrySet) /\ u.queue = Cold(SubSeq(s.queue, m + 1, Len(s.queue)))
  BY <1>4, <1>7, <1>8
<1>10. /\ done \in Seq(EntrySet) /\ Mine(u, done) \subseteq Nat /\ Off(u, Mine(u, done))
       /\ Joins(u, ClientsOf(done))
  BY <1>1, <1>2, <1>4, <1>8, <1>9, FrontLeaves
<1>11. Ends(u, done, <<>>)
  BY <1>6, <1>8, <1>10, EndsPublished
<1>12. Ends(u, <<>>, done)
  BY <1>8, <1>10, EndsEnded
<1>13. Carried = done
  BY DEF Carried, done
<1> DEFINE t == CloseCut(u)
<1>14. t.queue = u.queue /\ Adopts(t, h, prev)
  <2>1. u \in StateSet
    BY <1>8 DEF Ready
  <2>2. /\ t.queue = u.queue /\ t.made = u.made /\ t.probe = u.probe /\ t.tip = u.tip
        /\ t.merge = u.merge /\ t.foreign = u.foreign
        /\ t.pub = u.pub /\ t.prev = u.prev /\ t.seen = u.seen
    BY <2>1, CloseIs
  <2> HIDE DEF t
  <2>3. QED
    BY <1>8, <2>2 DEF Adopts
<1>15. PartAt(u.queue, s.queue, K)
  BY <1>7, <1>8
<1>16. Ends(t, done, <<>>) /\ Ends(t, <<>>, done)
  BY <1>11, <1>12, CloseEnds
<1>17. t.queue = Cold(SubSeq(s.queue, s.commit.n + 1, Len(s.queue)))
  BY <1>9, <1>14
<1> HIDE DEF t
<1>18. QED
  BY <1>5, <1>6, <1>10, <1>13, <1>14, <1>15, <1>16, <1>17 DEF t

(* A dead commit's writes go again, but for those that are lost. *)
Wide ==
  {e \in [n : Nat, round : Nat, index : Nat, sets : Edits, reads : Premise, warm : BOOLEAN, tries : Nat] :
     DOMAIN e.sets \subseteq DOMAIN e.reads}

LEMMA AgainIs ==
  ASSUME NEW t, t.queue \in Seq(EntrySet), t.commit.n \in 0..Len(t.queue), NEW spend
  PROVE  LET q == Again(t, spend)
         IN  /\ q \in Seq(Wide) /\ DOMAIN q = DOMAIN t.queue
             /\ \A i \in DOMAIN q : Same(q[i], t.queue[i])
             /\ Lost(t, q) \in SUBSET DOMAIN q
             /\ \A i \in DOMAIN q : i \notin Lost(t, q) => q[i] \in EntrySet
<1> DEFINE q == Again(t, spend)
           n == t.commit.n
<1>1. \A e \in EntrySet : e \in Wide /\ e.tries \in 0..MaxTries
  BY MergeAssumption DEF EntrySet, Wide
<1> DEFINE Spent(e) == [e EXCEPT !.tries = @ + 1]
<1>2. \A e \in EntrySet : /\ Spent(e) \in Wide /\ Same(Spent(e), e)
                          /\ ~(Spent(e).tries > MaxTries) => Spent(e) \in EntrySet
  <2> SUFFICES ASSUME NEW e \in EntrySet
               PROVE  /\ Spent(e) \in Wide /\ Same(Spent(e), e)
                      /\ ~(Spent(e).tries > MaxTries) => Spent(e) \in EntrySet
    OBVIOUS
  <2>1. PICK k \in Nat : k = e.tries + 1
    BY <1>1
  <2>2. Spent(e) = [e EXCEPT !.tries = k]
    BY <2>1 DEF EntrySet
  <2>3. k <= MaxTries => k \in 0..MaxTries
    BY MergeAssumption
  <2> HIDE DEF Spent
  <2>4. Spent(e) \in Wide /\ Same(Spent(e), e) /\ Spent(e).tries = k
    BY <2>2 DEF EntrySet, Wide, Same
  <2>5. k <= MaxTries => Spent(e) \in EntrySet
    BY <2>2, <2>3 DEF EntrySet
  <2>6. QED
    BY <2>4, <2>5, MergeAssumption
<1>3. \A i \in DOMAIN t.queue : q[i] = IF i <= n /\ spend THEN Spent(t.queue[i]) ELSE t.queue[i]
  BY DEF Again
<1>4. DOMAIN q = DOMAIN t.queue /\ DOMAIN t.queue = 1..Len(t.queue) /\ Len(t.queue) \in Nat
      /\ q = [i \in 1..Len(t.queue) |-> q[i]]
  BY DEF Again
<1>5. \A i \in DOMAIN t.queue : t.queue[i] \in EntrySet
  OBVIOUS
<1> HIDE DEF q, Spent
<1>6. ASSUME NEW i \in DOMAIN q
      PROVE  q[i] \in Wide /\ Same(q[i], t.queue[i])
  <2>1. t.queue[i] \in EntrySet /\ q[i] = IF i <= n /\ spend THEN Spent(t.queue[i]) ELSE t.queue[i]
    BY <1>3, <1>4, <1>5
  <2>2. q[i] \in {Spent(t.queue[i]), t.queue[i]}
    BY <2>1, Zenon
  <2>3. Same(t.queue[i], t.queue[i])
    BY DEF Same
  <2>4. QED
    BY <1>1, <1>2, <2>1, <2>2, <2>3
<1>7. q \in Seq(Wide)
  BY <1>4, <1>6
<1>8. Lost(t, q) \in SUBSET DOMAIN q
  BY <1>4 DEF Lost
<1>9. ASSUME NEW i \in DOMAIN q, i \notin Lost(t, q)
      PROVE  q[i] \in EntrySet
  <2>1. CASE i <= n /\ spend
    <3>1. i \in 1..n
      BY <1>4, <2>1
    <3>2. ~(q[i].tries > MaxTries)
      BY <1>9, <3>1 DEF Lost
    <3>3. QED
      BY <1>2, <1>3, <1>4, <1>5, <2>1, <3>2
  <2>2. CASE ~(i <= n /\ spend)
    BY <1>3, <1>4, <1>5, <2>2
  <2>3. QED
    BY <2>1, <2>2
<1>10. QED
  BY <1>4, <1>6, <1>7, <1>8, <1>9 DEF q

LEMMA DeadEnds ==
  ASSUME MergeInv, NEW f \in HeadSet, NEW h \in HeadSet, NEW prev \in HeadSet,
         h.seq >= s.pub.seq, h \notin ToSet(s.line) \cup s.beaten, NEW spend
  PROVE  LET q == Again(s, spend)
             t == DeadFront(Adopted(f, h, prev), q, Lost(s, q))
         IN  /\ Ends(t, <<>>, Without(q, DOMAIN q \ Lost(s, q))) /\ Adopts(t, h, prev)
             /\ \E K : PartAt(t.queue, s.queue, K)
<1> DEFINE q == Again(s, spend)
           L == Lost(s, q)
           K == DOMAIN q \ L
           r == Without(q, L)
           p == Cold(r)
           e == Without(q, DOMAIN q \ L)
           u == AdoptedOver(f, h, prev, p)
<1>1. Ready(s) /\ s.queue \in Seq(EntrySet) /\ s.commit.n \in Nat
  BY StateIs
<1>2. s.commit.n \in 0..Len(s.queue)
  BY <1>1 DEF Ready, CommitOK
<1>3. /\ q \in Seq(Wide) /\ DOMAIN q = DOMAIN s.queue /\ \A i \in DOMAIN q : Same(q[i], s.queue[i])
      /\ L \in SUBSET DOMAIN q /\ \A i \in DOMAIN q : i \notin L => q[i] \in EntrySet
  BY <1>1, <1>2, AgainIs
<1>4. DeadFront(Adopted(f, h, prev), q, L) = CloseCut(u)
  BY DEF DeadFront, AdoptedOver
<1> HIDE DEF q, L
<1>5. r = Only(q, K) /\ e = Only(q, L) /\ K \in SUBSET DOMAIN q /\ K \cap L = {}
  <2>1. DOMAIN q \ (DOMAIN q \ L) = L
    BY <1>3
  <2>2. QED
    BY <2>1 DEF Without
<1>6. r \in Seq(EntrySet)
  BY <1>3, <1>5, OnlyIn
<1>7. PartAt(r, q, K) /\ PartAt(e, q, L)
  BY <1>3, <1>5, OnlyPart
<1> HIDE DEF r, e, K
<1>8. PartAt(r, s.queue, K) /\ PartAt(e, s.queue, L)
  BY <1>3, <1>7, PartSame
<1>9. p \in Seq(EntrySet) /\ PartAt(p, s.queue, K) /\ WarmFirst(p) /\ \A tree : Replays(tree, p)
  BY <1>6, <1>8, ColdIs, ColdPart
<1> HIDE DEF p
<1>10. /\ Ready(u) /\ Moved(u) /\ u.queue = p /\ u.merge = s.merge /\ u.tip = s.tip
       /\ u.rounds = s.rounds /\ u.made = s.made
       /\ u.pub.seq \in Int /\ s.pub.seq <= u.pub.seq /\ Adopts(u, h, prev)
  BY <1>9, AdoptedReady DEF AdoptedOver
<1> HIDE DEF u
<1>11. u.queue \in Seq(EntrySet) /\ PartAt(u.queue, s.queue, K)
  BY <1>9, <1>10
<1>12. Mine(u, e) \subseteq Nat /\ Off(u, Mine(u, e))
  BY <1>1, <1>5, <1>8, <1>10, <1>11, LeftOff
<1>13. Ends(u, <<>>, e)
  BY <1>10, <1>12, EndsEnded
<1> DEFINE t == CloseCut(u)
<1>14. Ends(t, <<>>, e)
  BY <1>13, CloseEnds
<1>15. t.queue = u.queue /\ Adopts(t, h, prev)
  <2>1. u \in StateSet
    BY <1>10 DEF Ready
  <2>2. /\ t.queue = u.queue /\ t.made = u.made /\ t.probe = u.probe /\ t.tip = u.tip
        /\ t.merge = u.merge /\ t.foreign = u.foreign
        /\ t.pub = u.pub /\ t.prev = u.prev /\ t.seen = u.seen
    BY <2>1, CloseIs
  <2> HIDE DEF t
  <2>3. QED
    BY <1>10, <2>2 DEF Adopts
<1>16. PartAt(t.queue, s.queue, K)
  BY <1>11, <1>15
<1> HIDE DEF t
<1>17. Ends(t, <<>>, e) /\ Adopts(t, h, prev) /\ \E X : PartAt(t.queue, s.queue, X)
  BY <1>14, <1>15, <1>16
<1>18. QED
  BY <1>4, <1>17 DEF e, q, L, t

(* What the page claimed and gives up is earlier than its queue still. *)
LEMMA AdoptsQuiet ==
  ASSUME MergeInv, OrderInv, NEW t, NEW h, NEW prev, Adopts(t, h, prev), NEW K, PartAt(t.queue, s.queue, K),
         NEW e, Ends(t, <<>>, e), NEW d, Given(d, claim, s), EndCall(SameIdentity(t, <<>>, e), d)
  PROVE  OrderInv'
<1>1. /\ s.queue \in Seq(EntrySet) /\ s.foreign \in Nat /\ s.merge.writes \in Seq(KeptSet)
      /\ s.tip.writes \in Seq(KeptSet)
  BY StateIs DEF MergeSet, TipSet
<1>2. OrderOK(s, claim) /\ (s.foreign = 0 => TipOK(s, claim))
  BY DEF OrderInv
<1>3. /\ t.queue \in Seq(EntrySet) /\ t.made = s.made /\ t.probe = s.probe /\ t.tip = s.tip
      /\ t.merge = s.merge /\ t.foreign = s.foreign + 1 /\ t.foreign \in Nat /\ s.foreign <= t.foreign
  BY <1>1 DEF Adopts
<1>4. OrderOK(t, claim)
  BY <1>1, <1>2, <1>3, PartOrder
<1>5. Given(d, claim, t)
  BY <1>3 DEF Given
<1>6. OrderOK(t, d)
  BY <1>1, <1>3, <1>4, <1>5, OrderGiven
<1>7. t.foreign > 1 \/ TipOK(t, d)
  <2>1. CASE s.foreign = 0
    <3>1. TipOK(t, claim)
      BY <1>2, <1>3, <2>1 DEF TipOK
    <3>2. QED
      BY <1>1, <1>3, <1>5, <3>1, TipGiven
  <2>2. CASE s.foreign # 0
    BY <1>1, <1>3, <2>2
  <2>3. QED
    BY <2>1, <2>2
<1>8. t.foreign # 0
  BY <1>1, <1>3
<1>9. QED
  BY <1>6, <1>7, <1>8, QuietOrder

LEMMA ReleasedGiven ==
  ASSUME NEW t, t.made \in Nat, NEW c, NEW d \in [Keys -> 0..t.made], Given(d, c, t), NEW f, NEW h
  PROVE  Given(Released(d, f, h), c, t)
BY DEF Released, Given

(* What the other device publishes, of its types. *)
LEMMA ForeignIs ==
  ASSUME MergeInv, Foreign
  PROVE  \E f \in Heard, h \in HeadSet, prev \in HeadSet, headed \in BOOLEAN, readable \in BOOLEAN :
           /\ f \in HeadSet /\ prev \in {f, NoHead}
           /\ h.seq >= s.pub.seq /\ h \notin ToSet(s.line) \cup s.beaten
           /\ headed => s.commit # NoCommit
           /\ Fate(f, h, prev, headed, readable)
<1>1. PICK f \in Heard, k \in Keys, v \in Values, d \in 1..2, headed \in BOOLEAN, readable \in BOOLEAN :
        LET h == [seq |-> f.seq + d, tree |-> [f.tree EXCEPT ![k] = v]]
        IN /\ h.seq >= s.pub.seq /\ h \notin (ToSet(s.line) \cup s.beaten \cup {s.commit.head})
           /\ headed => s.commit # NoCommit
           /\ Fate(f, h, IF readable /\ d = 1 THEN f ELSE NoHead, headed, readable)
  BY DEF Foreign
<1> DEFINE h    == [seq |-> f.seq + d, tree |-> [f.tree EXCEPT ![k] = v]]
           prev == IF readable /\ d = 1 THEN f ELSE NoHead
<1>2. /\ h.seq >= s.pub.seq /\ h \notin ToSet(s.line) \cup s.beaten
      /\ headed => s.commit # NoCommit
      /\ Fate(f, h, prev, headed, readable)
  BY <1>1
<1>3. /\ s \in StateSet /\ s.line \in Seq(HeadSet) /\ s.commit.head \in HeadSet
  BY StateIs
<1>4. f \in HeadSet
  <2>1. s.own \in Nat \ {0}
    BY <1>3 DEF StateSet
  <2>2. \A j \in s.own..Len(s.line) : s.line[j] \in HeadSet
    BY <1>3, <2>1
  <2>3. QED
    BY <1>3, <2>2 DEF Heard
<1>5. h \in HeadSet
  <2>1. f.seq \in Int /\ f.seq >= -1 /\ f.tree \in Trees
    BY <1>4 DEF HeadSet
  <2>2. f.seq + d \in Nat
    BY <2>1
  <2>3. [f.tree EXCEPT ![k] = v] \in Trees
    <3>1. v \in Held
      BY DEF Held
    <3>2. QED
      BY <2>1, <3>1 DEF Trees
  <2>4. QED
    BY <2>2, <2>3 DEF HeadSet
<1>6. prev \in HeadSet /\ prev \in {f, NoHead}
  BY <1>4, Nones
<1> HIDE DEF h, prev
<1>7. QED
  BY <1>2, <1>4, <1>5, <1>6

LEMMA ForeignKeeps ==
  ASSUME MergeInv, Foreign
  PROVE  MergeInv' /\ s'.foreign # s.foreign /\ (OrderInv => OrderInv')
<1>1. PICK f \in Heard, h \in HeadSet, prev \in HeadSet, headed \in BOOLEAN, readable \in BOOLEAN :
        /\ f \in HeadSet /\ prev \in {f, NoHead}
        /\ h.seq >= s.pub.seq /\ h \notin ToSet(s.line) \cup s.beaten
        /\ headed => s.commit # NoCommit
        /\ Fate(f, h, prev, headed, readable)
  BY ForeignIs
<1>2. /\ h.seq >= s.pub.seq /\ h \notin ToSet(s.line) \cup s.beaten
      /\ headed => s.commit # NoCommit
      /\ Fate(f, h, prev, headed, readable)
  BY <1>1
<1>4. f \in HeadSet
  BY <1>1
<1>5. h \in HeadSet
  OBVIOUS
<1>6. prev \in HeadSet
  BY <1>1
<1>a. s.foreign \in Nat /\ s.made \in Nat /\ s.queue \in Seq(EntrySet)
  BY StateIs, MergeAssumption
<1>b. OrderInv => claim \in [Keys -> 0..s.made] /\ OrderOK(s, claim)
  BY DEF OrderInv, OrderOK, TurnOK
<1> DEFINE g == Gone(Adopted(f, h, prev))
           z == <<>>
           p == Carried
<1>c. headed => /\ Ends(g, p, z) /\ Ends(g, z, p) /\ Adopts(g, h, prev)
                /\ g.queue = Cold(SubSeq(s.queue, s.commit.n + 1, Len(s.queue)))
                /\ p # <<>> /\ p \in Seq(EntrySet) /\ \E K : PartAt(g.queue, s.queue, K)
  BY <1>2, <1>4, <1>5, <1>6, GoneEnds
<1>d. z = <<>> /\ p = SubSeq(s.queue, 1, s.commit.n)
  BY DEF Carried
<1>7. CASE Unheard(f, h, prev) /\ headed
  <2> DEFINE now == Released(Overwritten(f), f, h)
  <2>2. EndCall(SameIdentity(g, z, p), now)
    BY <1>7 DEF Unheard
  <2> HIDE DEF g, z, p
  <2>3. MergeInv' /\ s'.foreign = g.foreign
    BY <1>7, <1>c, <2>2, CallKeeps
  <2>4. ASSUME OrderInv
        PROVE  OrderInv'
    <3>1. Overwritten(f) \in [Keys -> 0..s.made] /\ Given(Overwritten(f), claim, s)
      BY <1>a, <1>b, <2>4 DEF Overwritten, Given
    <3>2. Given(now, claim, s)
      BY <1>a, <3>1, ReleasedGiven
    <3> HIDE DEF now
    <3>3. QED
      BY <1>7, <1>c, <1>d, <2>2, <2>4, <3>2, AdoptsQuiet
  <2>5. s'.foreign # s.foreign
    BY <1>7, <1>a, <1>c, <2>3 DEF Adopts
  <2>6. QED
    BY <2>3, <2>4, <2>5
<1>8. CASE Witnessed(f, h, prev) /\ headed
  <2> DEFINE c   == Claimed(claim, p)
             now == Released(c, f, h)
  <2>2. EndCall(SameIdentity(g, p, z), now)
    BY <1>8 DEF Witnessed
  <2> HIDE DEF g, z, p
  <2>3. MergeInv' /\ s'.foreign = g.foreign
    BY <1>8, <1>c, <2>2, CallKeeps
  <2>4. ASSUME OrderInv
        PROVE  OrderInv'
    <3>1. /\ g.queue \in Seq(EntrySet) /\ g.made = s.made /\ g.probe = s.probe /\ g.tip = s.tip
          /\ g.merge = s.merge /\ g.foreign \in Nat /\ s.foreign <= g.foreign /\ g.foreign > 0
      BY <1>8, <1>a, <1>c DEF Adopts
    <3>2. s.merge.phase # "delta" /\ s.commit.n \in 0..Len(s.queue)
      BY <1>2, <1>8, FlightIs
    <3>3. c \in [Keys -> 0..s.made]
      <4>1. Ready(s) /\ OrderOK(s, claim)
        BY <1>b, <2>4, StateIs
      <4>2. OrderOK(g, c)
        BY <1>8, <1>c, <1>d, <3>1, <3>2, <4>1, FrontOrder
      <4>3. QED
        BY <3>1, <4>2 DEF OrderOK, TurnOK
    <3> HIDE DEF c
    <3>4. Given(c, c, g)
      BY <3>1, <3>3 DEF Given
    <3>5. Given(now, c, g)
      BY <1>a, <3>1, <3>3, <3>4, ReleasedGiven
    <3> HIDE DEF now
    <3>6. QED
      BY <1>8, <1>c, <1>d, <2>2, <2>4, <3>1, <3>2, <3>5, FrontPublishes DEF c
  <2>5. s'.foreign # s.foreign
    BY <1>8, <1>a, <1>c, <2>3 DEF Adopts
  <2>6. QED
    BY <2>3, <2>4, <2>5
<1>9. CASE Dead(f, h, prev, Again(s, headed))
  <2> DEFINE q   == Again(s, headed)
             t   == DeadFront(Adopted(f, h, prev), q, Lost(s, q))
             e   == Without(q, DOMAIN q \ Lost(s, q))
             now == Released(claim, f, h)
  <2>1. Ends(t, <<>>, e) /\ Adopts(t, h, prev) /\ \E K : PartAt(t.queue, s.queue, K)
    BY <1>2, <1>4, <1>5, <1>6, DeadEnds
  <2>2. EndCall(SameIdentity(t, z, e), now)
    BY <1>9 DEF Dead
  <2> HIDE DEF t, e, z
  <2>3. MergeInv' /\ s'.foreign = t.foreign
    BY <1>d, <2>1, <2>2, CallKeeps
  <2>4. ASSUME OrderInv
        PROVE  OrderInv'
    <3>1. Given(claim, claim, s)
      BY <1>b, <2>4 DEF Given
    <3>2. Given(now, claim, s)
      BY <1>a, <1>b, <2>4, <3>1, ReleasedGiven
    <3> HIDE DEF now
    <3>3. QED
      BY <1>d, <2>1, <2>2, <2>4, <3>2, AdoptsQuiet
  <2>5. s'.foreign # s.foreign
    BY <1>a, <2>1, <2>3 DEF Adopts
  <2>6. QED
    BY <2>3, <2>4, <2>5
<1>10. QED
  BY <1>2, <1>7, <1>8, <1>9 DEF Fate

----------------------------------------------------------------------------
(* The Server's reads. *)

LEMMA ProbeKeeps ==
  ASSUME MergeInv, ProbeAnswers
  PROVE  MergeInv' /\ s'.pub = s.pub /\ (OrderInv => OrderInv')
<1>1. Ready(s) /\ s \in StateSet /\ (s.held <=> s.merge.phase = "delta")
  BY StateIs
<1>2. PICK pe, su : /\ pe \in SUBSET Keys /\ su \in SUBSET Keys
                    /\ pe \cup su \subseteq s.probe.pending \cup s.probe.superseded
                    /\ EndCall([s EXCEPT !.probe.pending = pe, !.probe.superseded = su], claim)
  <2>1. PICK k \in s.probe.pending, read \in BOOLEAN :
          EndCall([s EXCEPT !.probe.pending = @ \ {k},
                            !.probe.superseded = IF read /\ s.probe.tree[k] = LeftAt(s.probe.writes, k)
                                                 THEN @ ELSE @ \cup {k}], claim)
    BY DEF ProbeAnswers
  <2>2. s.probe.pending \in SUBSET Keys /\ s.probe.superseded \in SUBSET Keys
    BY <1>1 DEF StateSet, ProbeSet
  <2> DEFINE su == IF read /\ s.probe.tree[k] = LeftAt(s.probe.writes, k)
                   THEN s.probe.superseded ELSE s.probe.superseded \cup {k}
             pe == s.probe.pending \ {k}
  <2>3. /\ pe \in SUBSET Keys /\ su \in SUBSET Keys
        /\ pe \cup su \subseteq s.probe.pending \cup s.probe.superseded
    BY <2>2
  <2>4. EndCall([s EXCEPT !.probe.pending = pe, !.probe.superseded = su], claim)
    BY <2>1
  <2>5. QED
    BY <2>3, <2>4
<1> DEFINE u == [s EXCEPT !.probe.pending = pe, !.probe.superseded = su]
<1>3. /\ u \in StateSet
      /\ u.pub = s.pub /\ u.line = s.line /\ u.beaten = s.beaten /\ u.queue = s.queue /\ u.made = s.made
      /\ u.commit = s.commit /\ u.tip = s.tip /\ u.merge = s.merge /\ u.rounds = s.rounds
      /\ u.held = s.held /\ u.foreign = s.foreign
      /\ u.probe.writes = s.probe.writes /\ u.probe.pending = pe /\ u.probe.superseded = su
  BY <1>1, <1>2 DEF StateSet, ProbeSet
<1>4. EndCall(u, claim)
  BY <1>2
<1> HIDE DEF u
<1>5. Ready(u)
  BY <1>1, <1>3, ReadySame
<1>6. OrderInv => OrderOK(u, claim) /\ (u.foreign = 0 => TipOK(u, claim))
  <2>1. ASSUME OrderInv
        PROVE  OrderOK(s, claim) /\ (s.foreign = 0 => TipOK(s, claim))
    BY <2>1 DEF OrderInv
  <2>2. ASSUME OrderInv
        PROVE  OrderOK(u, claim) /\ (u.foreign = 0 => TipOK(u, claim))
    BY <1>2, <1>3, <2>1, <2>2 DEF OrderOK, TurnOK, RegroupOK, TipOK, Ahead, Entered
  <2>3. QED
    BY <2>2
<1>7. QED
  BY <1>3, <1>4, <1>5, <1>6, EndKeeps

(* While a merge waits for its delta nothing of the page's is under way. *)
LEMMA DeltaIs ==
  ASSUME MergeInv, s.merge.phase = "delta"
  PROVE  /\ s.held /\ s.commit = NoCommit /\ s.tip = NoTip /\ NoEntry(s) /\ s.rounds > 0
         /\ s.merge.fell = {} /\ OwnWrites(s, s.merge.writes)
         /\ s.merge.winner \in ToSet(s.line) \cup s.beaten /\ s.merge.winner.seq <= s.pub.seq
         /\ s.merge.at.seq <= s.pub.seq
         /\ s.pub = s.merge.winner =>
              s.merge.tree = s.pub.tree /\ \A k \in 1..(s.merge.next - 1) : k \in Keys => Spared(s, k)
<1>1. Ready(s) /\ s \in StateSet /\ s.held /\ s.commit.n \in Nat /\ s.queue \in Seq(EntrySet)
  BY StateIs
<1>2. s.commit = NoCommit
  BY <1>1 DEF Ready, CommitOK
<1>3. NoEntry(s)
  <2>1. \A i \in DOMAIN s.queue : s.queue[i].round \in Nat
    BY <1>1 DEF EntrySet
  <2>2. \A i \in DOMAIN s.queue : ~(s.queue[i].round > 0)
    BY <1>1 DEF Ready, EntriesOK, Remerged
  <2>3. QED
    BY <2>1, <2>2 DEF NoEntry
<1>4. QED
  BY <1>1, <1>2, <1>3 DEF Ready, WinnerOK, JudgedOK

LEMMA FailsKeeps ==
  ASSUME MergeInv, DeltaFails
  PROVE  MergeInv' /\ s'.pub = s.pub /\ (OrderInv => OrderInv')
<1> DEFINE m == s.merge
           u == Probed(s, m.writes, NoTip, NoMerge)
<1>1. Ready(s) /\ s \in StateSet /\ s.queue \in Seq(EntrySet) /\ s.held \in BOOLEAN /\ m \in MergeSet
      /\ s.pub.seq \in Nat /\ s.pub.seq > 0
  BY StateIs
<1>2. m.phase = "delta"
  BY DEF DeltaFails
<1>3. s.tip = NoTip /\ NoEntry(s) /\ s.commit = NoCommit
  BY <1>2, DeltaIs
<1>4. EndCall(u, claim)
  <2>1. [StartProbe(s, m.writes) EXCEPT !.tip = NoTip, !.merge = NoMerge]
          = [StartProbe(s, m.writes) EXCEPT !.merge = NoMerge]
    BY <1>1, <1>3 DEF StartProbe, StateSet
  <2>2. QED
    BY <2>1 DEF DeltaFails, Probed
<1>5. m.writes \in Seq(KeptSet)
  BY <1>1 DEF MergeSet
<1>6. /\ u \in StateSet /\ u.tip = NoTip /\ u.merge = NoMerge
      /\ u.pub = s.pub /\ u.line = s.line /\ u.beaten = s.beaten /\ u.queue = s.queue /\ u.made = s.made
      /\ u.commit = s.commit /\ u.rounds = s.rounds /\ u.held = s.held
      /\ u.foreign = s.foreign /\ u.probe.writes = m.writes
      /\ u.probe.pending = Written(m.writes) /\ u.probe.superseded = {}
  BY <1>1, <1>5, Nones, ProbedIs
<1>7. NoMerge.phase = "none" /\ NoMerge.writes = <<>> /\ NoMerge.at.seq = -1
      /\ NoTip.writes = <<>> /\ NoTip.head.seq = -1
  BY DEF NoMerge, NoHead, NoTip
<1>a. m = s.merge
  OBVIOUS
<1> HIDE DEF u, m
<1>8. LineOK(u) /\ QueueOK(u) /\ CommitOK(u)
  BY <1>1, <1>6, LineSame, QueueSame, CommitSame DEF Ready
<1>9. EntriesOK(u)
  BY <1>1, <1>3, <1>6, NoEntryOK DEF NoEntry
<1>10. WinnerOK(u)
  BY <1>6, <1>7 DEF WinnerOK
<1>11. JudgedOK(u)
  BY <1>1, <1>6, <1>7 DEF JudgedOK, OwnWrites
<1>12. Ready(u)
  BY <1>6, <1>7, <1>8, <1>9, <1>10, <1>11 DEF Ready
<1>13. ASSUME OrderInv
       PROVE  OrderOK(u, claim) /\ u.foreign # 0
  <2>1. OrderOK(s, claim) /\ u.foreign # 0
    BY <1>2, <1>6, <1>13, <1>a DEF OrderInv, OrderOK, RegroupOK
  <2>2. \A i \in DOMAIN u.queue : ~(u.queue[i].round > 0)
    BY <1>3, <1>6 DEF NoEntry
  <2>3. Ahead(s, m.writes) /\ \A x : Ahead(x, NoMerge.writes) /\ Ahead(x, NoTip.writes)
    BY <1>7, <1>a, <2>1, EmptyWritten DEF OrderOK, TurnOK
  <2>4. TurnOK(u, claim)
    BY <1>6, <2>1, <2>3 DEF OrderOK, TurnOK, Ahead
  <2>5. RegroupOK(u, claim)
    BY <1>6, <1>7, <2>2 DEF RegroupOK
  <2>6. QED
    BY <2>1, <2>4, <2>5 DEF OrderOK
<1>14. QED
  BY <1>4, <1>6, <1>12, <1>13, EndKeeps

(* What a read of the winner's changes leaves. *)
LEMMA ReadToIs ==
  ASSUME NEW m \in MergeSet, NEW c \in Nat
  PROVE  LET r == ReadTo(m, c)
         IN  /\ r \in MergeSet
             /\ r.phase = m.phase /\ r.winner = m.winner /\ r.from = m.from /\ r.writes = m.writes
             /\ r.tree = m.tree /\ r.fell = m.fell /\ r.at = m.at /\ r.next = c + 1
             /\ \A k \in Keys :
                  r.theirs[k] = IF k \in m.next..c /\ m.tree[k] # m.from.tree[k]
                                THEN m.tree[k] ELSE m.theirs[k]
<1> DEFINE th == [k \in Keys |-> IF k \in m.next..c /\ m.tree[k] # m.from.tree[k]
                                 THEN m.tree[k] ELSE m.theirs[k]]
<1>1. th \in [Keys -> Held \cup {AnyValue}]
  BY DEF MergeSet, Trees
<1>2. ReadTo(m, c) = [m EXCEPT !.theirs = th, !.next = c + 1]
  BY DEF ReadTo, MergeSet
<1>3. \A k \in Keys : th[k] = IF k \in m.next..c /\ m.tree[k] # m.from.tree[k]
                                 THEN m.tree[k] ELSE m.theirs[k]
  OBVIOUS
<1> HIDE DEF th
<1>4. PICK n \in Nat : n = c + 1
  OBVIOUS
<1>5. ReadTo(m, c) = [m EXCEPT !.theirs = th, !.next = n]
  BY <1>2, <1>4
<1>6. LET r == ReadTo(m, c)
      IN  /\ r \in MergeSet
          /\ r.phase = m.phase /\ r.winner = m.winner /\ r.from = m.from /\ r.writes = m.writes
          /\ r.tree = m.tree /\ r.fell = m.fell /\ r.at = m.at /\ r.next = n /\ r.theirs = th
  BY <1>1, <1>5 DEF MergeSet
<1>7. QED
  BY <1>3, <1>4, <1>6

LEMMA SparedTo ==
  ASSUME MergeInv, s.merge.phase = "delta", NEW c \in s.merge.next..NumKeys, s.pub = s.merge.winner,
         NEW u, u.pub = s.pub, u.merge.from = s.merge.from, u.merge.theirs = ReadTo(s.merge, c).theirs
  PROVE  \A k \in 1..c : k \in Keys => Spared(u, k)
<1> DEFINE m == s.merge
<1>a. m \in MergeSet /\ Held \subseteq Nat /\ NumKeys \in Nat
  BY StateIs, Nones, MergeAssumption
<1>b. m.next \in Nat /\ m.tree \in Trees
  BY <1>a DEF MergeSet
<1>c. c \in Nat
  <2> HIDE DEF m
  <2>1. c \in m.next..NumKeys
    BY DEF m
  <2>2. QED
    BY <1>a, <1>b, <2>1
<1>1. /\ m \in MergeSet /\ m.next \in Nat /\ c \in Nat /\ m.tree \in Trees /\ Held \subseteq Nat
      /\ s.merge.phase = "delta"
  BY <1>a, <1>b, <1>c
<1>2. m.tree = s.pub.tree /\ \A k \in 1..(m.next - 1) : k \in Keys => Spared(s, k)
  BY DeltaIs
<1>3. \A k \in Keys : u.merge.theirs[k] = IF k \in m.next..c /\ m.tree[k] # m.from.tree[k]
                                 THEN m.tree[k] ELSE m.theirs[k]
  <2> DEFINE th == ReadTo(m, c).theirs
  <2>1. \A k \in Keys : th[k] = IF k \in m.next..c /\ m.tree[k] # m.from.tree[k]
                                 THEN m.tree[k] ELSE m.theirs[k]
    BY <1>1, ReadToIs
  <2>2. u.merge.theirs = th
    OBVIOUS
  <2> HIDE DEF th
  <2>3. QED
    BY <2>1, <2>2
<1> SUFFICES ASSUME NEW k \in 1..c, k \in Keys, u.merge.theirs[k] = AnyValue
             PROVE  u.pub.tree[k] = u.merge.from.tree[k]
  BY DEF Spared
<1>4. CASE k \in m.next..c
  <2>1. m.tree[k] # AnyValue
    BY <1>1 DEF Trees, AnyValue
  <2>2. m.tree[k] = m.from.tree[k]
    BY <1>3, <1>4, <2>1
  <2>3. QED
    BY <1>2, <2>2
<1>5. CASE k \notin m.next..c
  <2>1. k \in 1..(m.next - 1)
    BY <1>1, <1>5
  <2>2. m.theirs[k] = AnyValue
    BY <1>3, <1>5
  <2>3. QED
    BY <1>2, <2>1, <2>2 DEF Spared
<1>6. QED
  BY <1>4, <1>5

LEMMA MergeIs ==
  ASSUME NEW t \in StateSet, NEW m \in MergeSet
  PROVE  LET u == [t EXCEPT !.merge = m]
         IN  /\ u \in StateSet /\ u.merge = m /\ u.tip = t.tip
             /\ u.pub = t.pub /\ u.line = t.line /\ u.beaten = t.beaten /\ u.queue = t.queue /\ u.made = t.made
             /\ u.commit = t.commit /\ u.rounds = t.rounds /\ u.held = t.held
             /\ u.probe = t.probe /\ u.foreign = t.foreign
BY DEF StateSet

(* The merge with more of the delta, nothing else of the page touched. *)
LEMMA MergedReady ==
  ASSUME MergeInv, s.merge.phase = "delta", NEW m \in MergeSet,
         m.writes = s.merge.writes, m.at = s.merge.at,
         NEW u, u = [s EXCEPT !.merge = m], WinnerOK(u)
  PROVE  Ready(u)
<1>1. Ready(s) /\ s \in StateSet /\ s.queue \in Seq(EntrySet) /\ s.held \in BOOLEAN
  BY StateIs
<1>2. s.held /\ NoEntry(s)
  BY DeltaIs
<1>3. /\ u \in StateSet /\ u.merge = m /\ u.tip = s.tip
      /\ u.pub = s.pub /\ u.line = s.line /\ u.beaten = s.beaten /\ u.queue = s.queue /\ u.made = s.made
      /\ u.commit = s.commit /\ u.rounds = s.rounds /\ u.held = s.held
  BY <1>1, MergeIs
<1>4. LineOK(u) /\ QueueOK(u) /\ CommitOK(u)
  BY <1>1, <1>3, LineSame, QueueSame, CommitSame DEF Ready
<1>5. EntriesOK(u)
  BY <1>1, <1>2, <1>3, NoEntryOK DEF NoEntry
<1>6. JudgedOK(u)
  BY <1>1, <1>3 DEF Ready, JudgedOK, OwnWrites
<1>7. QED
  BY <1>2, <1>3, <1>4, <1>5, <1>6 DEF Ready

LEMMA ResumeKeeps ==
  ASSUME MergeInv, s.merge.phase = "delta", NEW c \in s.merge.next..NumKeys,
         EndCall([s EXCEPT !.merge = [ReadTo(@, c) EXCEPT !.tree = s.pub.tree]], claim)
  PROVE  MergeInv' /\ s'.pub = s.pub /\ (OrderInv => OrderInv')
<1> DEFINE r == ReadTo(s.merge, c)
           m == [r EXCEPT !.tree = s.pub.tree]
           u == [s EXCEPT !.merge = m]
<1>a. s.merge \in MergeSet /\ s.pub.tree \in Trees /\ s \in StateSet /\ NumKeys \in Nat
  BY StateIs, MergeAssumption
<1>b. s.merge.next \in Nat
  BY <1>a DEF MergeSet
<1>1. s.merge \in MergeSet /\ c \in Nat /\ s.pub.tree \in Trees /\ s.merge.next \in Nat /\ s \in StateSet
  BY <1>a, <1>b
<1>2. /\ r \in MergeSet
      /\ r.phase = s.merge.phase /\ r.winner = s.merge.winner /\ r.from = s.merge.from /\ r.writes = s.merge.writes
      /\ r.fell = s.merge.fell /\ r.at = s.merge.at /\ r.next = c + 1
  BY <1>1, ReadToIs
<1>3. r.theirs = ReadTo(s.merge, c).theirs
  OBVIOUS
<1> HIDE DEF r
<1>4. /\ m \in MergeSet /\ m.tree = s.pub.tree
      /\ m.phase = s.merge.phase /\ m.winner = s.merge.winner /\ m.from = s.merge.from /\ m.writes = s.merge.writes
      /\ m.fell = s.merge.fell /\ m.at = s.merge.at /\ m.next = c + 1
      /\ m.theirs = ReadTo(s.merge, c).theirs
  BY <1>1, <1>2, <1>3 DEF MergeSet
<1>5. EndCall(u, claim)
  BY <1>1 DEF r, StateSet
<1> HIDE DEF m
<1>6. /\ u.merge = m /\ u.tip = s.tip /\ u.pub = s.pub /\ u.line = s.line /\ u.beaten = s.beaten
      /\ u.rounds = s.rounds /\ u.queue = s.queue /\ u.made = s.made /\ u.probe = s.probe /\ u.foreign = s.foreign
  BY <1>1, <1>4, MergeIs
<1>7. u = [s EXCEPT !.merge = m]
  OBVIOUS
<1> HIDE DEF u
<1>8. WinnerOK(u)
  <2>1. s.tip = NoTip /\ s.rounds > 0 /\ s.merge.fell = {}
        /\ s.merge.winner \in ToSet(s.line) \cup s.beaten /\ s.merge.winner.seq <= s.pub.seq
    BY DeltaIs
  <2>2. s.pub = s.merge.winner => \A k \in 1..c : k \in Keys => Spared(u, k)
    BY <1>4, <1>6, SparedTo
  <2>3. 1..(u.merge.next - 1) = 1..c
    BY <1>1, <1>4, <1>6
  <2>4. u.merge.phase = "delta"
    BY <1>4, <1>6
  <2>5. QED
    BY <1>4, <1>6, <2>1, <2>2, <2>3, <2>4 DEF WinnerOK
<1>9. Ready(u)
  BY <1>4, <1>7, <1>8, MergedReady
<1>10. ASSUME OrderInv
       PROVE  OrderOK(u, claim) /\ (u.foreign = 0 => TipOK(u, claim))
  <2>1. OrderOK(s, claim) /\ (s.foreign = 0 => TipOK(s, claim))
    BY <1>10 DEF OrderInv
  <2>2. u.tip.writes = s.tip.writes /\ u.merge.writes = s.merge.writes /\ u.merge.phase = s.merge.phase
    BY <1>4, <1>6
  <2>3. QED
    BY <1>6, <2>1, <2>2, OrderSame
<1>11. QED
  BY <1>5, <1>6, <1>9, <1>10, EndKeeps

(* The merge once its delta is complete. *)
SentMerge(m) ==
  [m EXCEPT !.phase = "sent", !.sent = Goes(m), !.landed = DOMAIN m.writes \ Goes(m),
            !.dropped = UNION {{<<i, k>> : k \in DOMAIN m.writes[i].sets \ Keeps(m, i)} : i \in DOMAIN m.writes}]
LEMMA SentIs ==
  ASSUME NEW m \in MergeSet
  PROVE  LET r == SentMerge(m)
         IN  /\ r \in MergeSet /\ r.phase = "sent"
             /\ r.winner = m.winner /\ r.from = m.from /\ r.writes = m.writes /\ r.theirs = m.theirs
             /\ r.tree = m.tree /\ r.fell = m.fell /\ r.at = m.at
             /\ r.sent = Goes(m) /\ r.landed = DOMAIN m.writes \ Goes(m)
<1> DEFINE dr == UNION {{<<i, k>> : k \in DOMAIN m.writes[i].sets \ Keeps(m, i)} : i \in DOMAIN m.writes}
           go == Goes(m)
           la == DOMAIN m.writes \ go
<1>1. m.writes \in Seq(KeptSet)
  BY DEF MergeSet
<1>2. \A i \in DOMAIN m.writes : DOMAIN m.writes[i].sets \in SUBSET Keys /\ i \in Nat
  <2>1. \A x \in Edits : DOMAIN x \in SUBSET Keys
    BY DEF Edits
  <2>2. \A i \in DOMAIN m.writes : m.writes[i].sets \in Edits
    BY <1>1 DEF KeptSet
  <2>3. QED
    BY <1>1, <2>1, <2>2
<1>3. dr \in SUBSET (Nat \X Keys)
  BY <1>2
<1>4. go \in SUBSET Nat /\ la \in SUBSET Nat
  BY <1>1 DEF Goes
<1>5. SentMerge(m) = [m EXCEPT !.phase = "sent", !.sent = go, !.landed = la, !.dropped = dr]
  BY DEF SentMerge
<1> HIDE DEF dr, la
<1>6. LET r == SentMerge(m)
         IN  /\ r \in MergeSet /\ r.phase = "sent"
             /\ r.winner = m.winner /\ r.from = m.from /\ r.writes = m.writes /\ r.theirs = m.theirs
             /\ r.tree = m.tree /\ r.fell = m.fell /\ r.at = m.at
             /\ r.sent = go /\ r.landed = la
  BY <1>3, <1>4, <1>5 DEF MergeSet
<1>7. QED
  BY <1>6 DEF la

(* The winner's changes, all of them read. *)
LEMMA SentWinner ==
  ASSUME MergeInv, s.merge.phase = "delta", NumKeys \in s.merge.next..NumKeys,
         NEW u, u.pub = s.pub, u.line = s.line, u.beaten = s.beaten, u.rounds = s.rounds,
         u.merge.phase = "sent", u.merge.winner = s.merge.winner, u.merge.from = s.merge.from,
         u.merge.theirs = ReadTo(s.merge, NumKeys).theirs
  PROVE  WinnerOK(u)
<1>1. s.rounds > 0 /\ s.merge.winner \in ToSet(s.line) \cup s.beaten /\ s.merge.winner.seq <= s.pub.seq
  BY DeltaIs
<1>2. s.pub = s.merge.winner => \A k \in 1..NumKeys : k \in Keys => Spared(u, k)
  BY SparedTo
<1>3. QED
  BY <1>1, <1>2 DEF WinnerOK, Keys

(* The tip's i-th write, re-applied. *)
LEMMA MergeWriteIs ==
  ASSUME NEW m \in MergeSet, NEW i \in DOMAIN m.writes, NEW t, t.rounds \in Nat
  PROVE  LET e == MergeWrite(t, m, i)
         IN  /\ e \in EntrySet /\ e.n = m.writes[i].n /\ e.round = t.rounds /\ e.index = i
             /\ DOMAIN e.sets = Keeps(m, i)
             /\ \A k \in DOMAIN e.sets : Forced(e, k) => m.theirs[k] = AnyValue
             /\ \A k \in DOMAIN e.sets : e.sets[k] = m.writes[i].sets[k]
<1> DEFINE w == m.writes[i]
           K == Keeps(m, i)
           P == Premises(m, i)
           a == [k \in K |-> w.sets[k]]
           b == [k \in P |-> w.reads[k]]
<1>1. m.writes \in Seq(KeptSet) /\ i \in Nat
  BY DEF MergeSet
<1>2. w \in KeptSet
  BY <1>1
<1>3. w.n \in Nat /\ w.sets \in Edits /\ w.reads \in Premise /\ DOMAIN w.sets \subseteq DOMAIN w.reads
  BY <1>2 DEF KeptSet
<1>4. DOMAIN w.sets \in SUBSET Keys /\ \A k \in DOMAIN w.sets : w.sets[k] \in Held
  BY <1>3 DEF Edits
<1>5. DOMAIN w.reads \in SUBSET Keys /\ \A k \in DOMAIN w.reads : w.reads[k] \in Held \cup {AnyValue}
  BY <1>3 DEF Premise
<1>6. K \subseteq DOMAIN w.sets /\ P \subseteq DOMAIN w.reads /\ K \subseteq P
  BY <1>3 DEF Keeps, Premises
<1>7. a \in Edits /\ DOMAIN a = K /\ \A k \in K : a[k] = w.sets[k]
  <2>1. a \in [K -> Held] /\ K \in SUBSET Keys
    BY <1>4, <1>6
  <2>2. QED
    BY <2>1 DEF Edits
<1>8. b \in Premise /\ DOMAIN b = P /\ \A k \in P : b[k] = w.reads[k]
  <2>1. b \in [P -> Held \cup {AnyValue}] /\ P \in SUBSET Keys
    BY <1>5, <1>6
  <2>2. QED
    BY <2>1 DEF Premise
<1>9. MergeWrite(t, m, i) = [n |-> w.n, round |-> t.rounds, index |-> i, sets |-> a, reads |-> b,
                             warm |-> FALSE, tries |-> 0]
  BY DEF MergeWrite
<1>10. \A k \in K : b[k] = AnyValue => m.theirs[k] = AnyValue
  BY <1>6, <1>8 DEF Keeps, Forced
<1>a. 0 \in 0..MaxTries
  BY MergeAssumption
<1> HIDE DEF a, b, K, P, w
<1>11. PICK e : e = MergeWrite(t, m, i)
  OBVIOUS
<1>12. e.n = w.n /\ e.round = t.rounds /\ e.index = i /\ e.sets = a /\ e.reads = b
  BY <1>9, <1>11
<1>13. e \in EntrySet
  <2>1. DOMAIN a \subseteq DOMAIN b
    BY <1>6, <1>7, <1>8
  <2>2. QED
    BY <1>1, <1>3, <1>7, <1>8, <1>9, <1>11, <1>a, <2>1 DEF EntrySet
<1>14. /\ DOMAIN e.sets = K /\ \A k \in DOMAIN e.sets : Forced(e, k) => m.theirs[k] = AnyValue
       /\ \A k \in DOMAIN e.sets : e.sets[k] = w.sets[k]
  BY <1>7, <1>10, <1>12 DEF Forced
<1>15. QED
  BY <1>11, <1>12, <1>13, <1>14 DEF w, K

(* A merge's writes, put in front of the queue. *)
Reapplied(m, e) ==
  /\ e.round = s.rounds /\ e.index \in m.sent \ (m.landed \cup m.fell)
  /\ e.index \in DOMAIN m.writes /\ e.n = m.writes[e.index].n
  /\ DOMAIN e.sets \subseteq DOMAIN m.writes[e.index].sets
  /\ e.sets # <<>> /\ \A k \in DOMAIN e.sets : Forced(e, k) => m.theirs[k] = AnyValue

LEMMA FrontIsNew ==
  ASSUME MergeInv, s.merge.phase = "delta", NEW m, NEW ws \in Seq(EntrySet),
         \A j \in DOMAIN ws : Reapplied(m, ws[j]), OneId(ws),
         \A i, j \in DOMAIN ws : ws[i].index = ws[j].index => i = j
  PROVE  LET p == Cold(ws \o s.queue)
         IN  /\ p \in Seq(EntrySet) /\ WarmFirst(p) /\ \A tree : Replays(tree, p)
             /\ OneId(p) /\ MergesFirst(p) /\ OneIndex(p)
             /\ \A i \in DOMAIN p : \/ p[i].round > 0 /\ Reapplied(m, p[i])
                                    \/ p[i].round = 0 /\ \E j \in DOMAIN s.queue : Same(p[i], s.queue[j])
             /\ InTurn(s.queue) => InTurn(p)
             /\ \A i \in DOMAIN p : p[i].round > 0 => i \in DOMAIN ws /\ Same(p[i], ws[i])
<1> DEFINE q == s.queue
           a == Len(ws)
           r == ws \o q
           p == Cold(r)
<1>1. q \in Seq(EntrySet) /\ a \in Nat /\ Len(q) \in Nat /\ OneId(q)
  BY StateIs DEF Ready, QueueOK
<1>2. NoEntry(s) /\ s.rounds > 0
  BY DeltaIs
<1>3. /\ r \in Seq(EntrySet) /\ DOMAIN r = 1..(a + Len(q))
      /\ \A i \in DOMAIN r : IF i <= a THEN i \in DOMAIN ws /\ r[i] = ws[i]
                                       ELSE i - a \in DOMAIN q /\ r[i] = q[i - a]
  BY <1>1
<1> HIDE DEF r
<1>4. /\ p \in Seq(EntrySet) /\ DOMAIN p = DOMAIN r /\ WarmFirst(p) /\ \A tree : Replays(tree, p)
      /\ \A i \in DOMAIN r : Same(p[i], r[i])
  BY <1>3, ColdIs
<1> HIDE DEF p
<1>5. ASSUME NEW i \in DOMAIN p, i <= a
      PROVE  i \in DOMAIN ws /\ Same(p[i], ws[i]) /\ p[i].round > 0 /\ p[i].round = s.rounds /\ Reapplied(m, p[i])
  <2>1. i \in DOMAIN ws /\ Same(p[i], ws[i])
    BY <1>3, <1>4, <1>5
  <2>2. Reapplied(m, ws[i])
    BY <2>1
  <2>3. Reapplied(m, p[i])
    BY <2>1, <2>2 DEF Reapplied, Same, Forced
  <2>4. QED
    BY <1>2, <2>1, <2>3 DEF Reapplied
<1>6. ASSUME NEW i \in DOMAIN p, ~(i <= a)
      PROVE  i - a \in DOMAIN q /\ Same(p[i], q[i - a]) /\ p[i].round = 0
  <2>1. i - a \in DOMAIN q /\ Same(p[i], q[i - a])
    BY <1>3, <1>4, <1>6
  <2>2. QED
    BY <1>2, <2>1 DEF NoEntry, Same
<1>7. OneId(p)
  <2> SUFFICES ASSUME NEW i \in DOMAIN p, NEW j \in DOMAIN p, p[i].n = p[j].n, p[i].round = p[j].round
               PROVE  i = j
    BY DEF OneId, Id
  <2>1. CASE i <= a /\ j <= a
    BY <1>5, <2>1 DEF OneId, Id, Same
  <2>2. CASE ~(i <= a) /\ ~(j <= a)
    <3>1. PICK x \in DOMAIN q : x = i - a /\ Same(p[i], q[x])
      BY <1>6, <2>2
    <3>2. PICK y \in DOMAIN q : y = j - a /\ Same(p[j], q[y])
      BY <1>6, <2>2
    <3>3. x = y
      BY <1>1, <3>1, <3>2 DEF OneId, Id, Same
    <3>4. QED
      BY <1>1, <1>3, <1>4, <3>1, <3>2, <3>3
  <2>3. CASE i <= a /\ ~(j <= a)
    BY <1>5, <1>6, <2>3
  <2>4. CASE ~(i <= a) /\ j <= a
    BY <1>5, <1>6, <2>4
  <2>5. QED
    BY <2>1, <2>2, <2>3, <2>4
<1>8. MergesFirst(p)
  <2> SUFFICES ASSUME NEW i \in DOMAIN p, NEW j \in DOMAIN p, i < j, p[j].round > 0
               PROVE  p[i].round > 0
    BY DEF MergesFirst
  <2>1. j <= a
    BY <1>6
  <2>2. i <= a
    BY <1>1, <1>3, <1>4, <2>1
  <2>3. QED
    BY <1>5, <2>2
<1>9. OneIndex(p)
  <2> SUFFICES ASSUME NEW i \in DOMAIN p, NEW j \in DOMAIN p, p[i].round > 0, p[j].round > 0,
                      p[i].index = p[j].index
               PROVE  i = j
    BY DEF OneIndex
  <2>1. i <= a /\ j <= a
    BY <1>6
  <2>2. QED
    BY <1>5, <2>1 DEF Same
<1>10. \A i \in DOMAIN p : \/ p[i].round > 0 /\ Reapplied(m, p[i])
                           \/ p[i].round = 0 /\ \E j \in DOMAIN q : Same(p[i], q[j])
  BY <1>5, <1>6
<1>11. ASSUME InTurn(q)
       PROVE  InTurn(p)
  <2> SUFFICES ASSUME NEW i \in DOMAIN p, NEW j \in DOMAIN p, i < j, p[i].round = 0, p[j].round = 0
               PROVE  p[i].n < p[j].n
    BY DEF InTurn
  <2>1. ~(i <= a) /\ ~(j <= a)
    BY <1>5
  <2>2. PICK x \in DOMAIN q : x = i - a /\ Same(p[i], q[x])
    BY <1>6, <2>1
  <2>3. PICK y \in DOMAIN q : y = j - a /\ Same(p[j], q[y])
    BY <1>6, <2>1
  <2>4. x < y
    BY <1>1, <1>3, <1>4, <2>2, <2>3
  <2>5. q[x].round = 0 /\ q[y].round = 0 /\ p[i].n = q[x].n /\ p[j].n = q[y].n
    BY <2>2, <2>3 DEF Same
  <2>6. QED
    BY <1>11, <2>4, <2>5 DEF InTurn
<1>12. \A i \in DOMAIN p : p[i].round > 0 => i \in DOMAIN ws /\ Same(p[i], ws[i])
  BY <1>5, <1>6
<1>13. QED
  BY <1>4, <1>7, <1>8, <1>9, <1>10, <1>11, <1>12 DEF p, r

LEMMA FrontedReady ==
  ASSUME MergeInv, s.merge.phase = "delta", NEW m \in MergeSet, m.phase = "sent",
         m.writes = s.merge.writes, m.at = s.merge.at, NEW p \in Seq(EntrySet),
         WarmFirst(p), \A tree : Replays(tree, p), OneId(p), MergesFirst(p), OneIndex(p),
         \A i \in DOMAIN p : \/ p[i].round > 0 /\ Reapplied(m, p[i])
                             \/ p[i].round = 0 /\ \E j \in DOMAIN s.queue : Same(p[i], s.queue[j]),
         NEW u, u = [s EXCEPT !.merge = m, !.held = FALSE, !.cut = {}, !.queue = p], WinnerOK(u)
  PROVE  Ready(u)
<1>1. Ready(s) /\ s \in StateSet /\ s.queue \in Seq(EntrySet) /\ s.pub.seq \in Nat
  BY StateIs
<1>2. s.tip = NoTip /\ s.commit = NoCommit /\ NoEntry(s) /\ OwnWrites(s, s.merge.writes) /\ s.merge.at.seq <= s.pub.seq
  BY DeltaIs
<1>3. {} \in SUBSET (Nat \X Nat)
  OBVIOUS
<1>4. /\ u \in StateSet /\ u.merge = m /\ u.tip = NoTip /\ u.queue = p
      /\ u.pub = s.pub /\ u.line = s.line /\ u.made = s.made /\ u.commit = NoCommit /\ u.rounds = s.rounds
  BY <1>1, <1>2, <1>3 DEF StateSet
<1>5. LineOK(u) /\ CommitOK(u)
  BY <1>1, <1>4, LineSame, NoCommitOK DEF Ready
<1>6. \A i \in DOMAIN p : p[i].round = 0 => \E j \in DOMAIN s.queue : s.queue[j].round = 0 /\ p[i].n = s.queue[j].n
  BY <1>2 DEF NoEntry, Same
<1>7. QueueOK(u)
  BY <1>1, <1>4, <1>6 DEF Ready, QueueOK
<1>8. EntriesOK(u)
  BY <1>4 DEF EntriesOK, Remerged, Reapplied
<1>9. JudgedOK(u)
  <2>1. OwnWrites(u, m.writes)
    BY <1>2, <1>4, <1>6 DEF OwnWrites
  <2>2. NoTip.writes = <<>> /\ NoTip.head.seq = -1
    BY DEF NoTip, NoHead
  <2>3. QED
    BY <1>1, <1>2, <1>4, <2>1, <2>2 DEF JudgedOK, OwnWrites
<1>10. QED
  BY <1>4, <1>5, <1>7, <1>8, <1>9 DEF Ready

(* Its own writes go before all that the clients wrote since. *)
LEMMA FrontedOrder ==
  ASSUME MergeInv, OrderInv, s.merge.phase = "delta", NEW m, m.phase = "sent", m.writes = s.merge.writes,
         NEW p, InTurn(s.queue) => InTurn(p),
         \A i \in DOMAIN p : \/ p[i].round > 0 /\ Reapplied(m, p[i])
                             \/ p[i].round = 0 /\ \E j \in DOMAIN s.queue : Same(p[i], s.queue[j]),
         NEW u, u.merge = m, u.queue = p, u.tip = s.tip, u.made = s.made, u.probe = s.probe, u.foreign = s.foreign
  PROVE  OrderOK(u, claim) /\ u.foreign # 0
<1>1. OrderOK(s, claim) /\ u.foreign # 0
  BY DEF OrderInv, OrderOK, RegroupOK
<1>2. \A n : Earlier(s.queue, n) => Earlier(p, n)
  BY DEF Earlier, Same
<1>3. TurnOK(u, claim)
  BY <1>1, <1>2 DEF OrderOK, TurnOK, Ahead
<1>4. \A i \in DOMAIN p : p[i].round > 0 => Entered(u, p[i])
  BY DEF Reapplied, Entered
<1>5. ASSUME u.foreign <= 1, NEW i \in DOMAIN p, p[i].round > 0, NEW k \in DOMAIN p[i].sets
      PROVE  Taken(m.writes, claim, k)
  <2>1. p[i].index \in DOMAIN m.writes /\ k \in DOMAIN m.writes[p[i].index].sets
    BY <1>5 DEF Reapplied
  <2>2. k \in Written(s.merge.writes)
    BY <2>1, WrittenIs
  <2>3. QED
    BY <1>1, <1>5, <2>2 DEF OrderOK, RegroupOK
<1>6. RegroupOK(u, claim)
  BY <1>1, <1>4, <1>5 DEF RegroupOK
<1>7. QED
  BY <1>1, <1>3, <1>6 DEF OrderOK

(* The tip's writes that have something left to land, in their order and    *)
(* each with all the keys it keeps.                                         *)
Whole(m, e) ==
  /\ e.index \in DOMAIN m.writes /\ DOMAIN e.sets = Keeps(m, e.index)
  /\ \A k \in DOMAIN e.sets : e.sets[k] = m.writes[e.index].sets[k]
LEMMA GoingIs ==
  ASSUME MergeInv, s.merge.phase = "delta", NEW m \in MergeSet, m.writes = s.merge.writes,
         NEW r, r.sent = Goes(m), r.landed = DOMAIN m.writes \ Goes(m), r.fell = {}, r.theirs = m.theirs,
         r.writes = m.writes
  PROVE  LET ws == Without([i \in DOMAIN m.writes |-> MergeWrite(s, m, i)], DOMAIN m.writes \ Goes(m))
         IN  /\ ws \in Seq(EntrySet) /\ OneId(ws)
             /\ \A j \in DOMAIN ws : Reapplied(r, ws[j]) /\ Whole(m, ws[j])
             /\ \A i, j \in DOMAIN ws : ws[i].index = ws[j].index => i = j
             /\ \A i, j \in DOMAIN ws : i < j => ws[i].index < ws[j].index
<1> DEFINE n  == Len(m.writes)
           v  == [i \in DOMAIN m.writes |-> MergeWrite(s, m, i)]
           G  == Goes(m)
           ws == Only(v, G)
<1>1. m.writes \in Seq(KeptSet) /\ s.rounds \in Nat
  BY StateIs DEF MergeSet
<1>2. \A i \in DOMAIN m.writes :
        /\ v[i] \in EntrySet /\ v[i].n = m.writes[i].n /\ v[i].round = s.rounds /\ v[i].index = i
        /\ DOMAIN v[i].sets = Keeps(m, i)
        /\ \A k \in DOMAIN v[i].sets : Forced(v[i], k) => m.theirs[k] = AnyValue
        /\ \A k \in DOMAIN v[i].sets : v[i].sets[k] = m.writes[i].sets[k]
  BY <1>1, MergeWriteIs
<1>3. DOMAIN v = DOMAIN m.writes /\ DOMAIN m.writes = 1..n /\ n \in Nat
      /\ v = [i \in 1..n |-> v[i]]
  BY <1>1
<1>4. G \subseteq DOMAIN m.writes /\ \A i \in G : Keeps(m, i) # {}
  BY DEF Goes
<1>5. Without(v, DOMAIN m.writes \ G) = ws
  <2>1. DOMAIN v \ (DOMAIN m.writes \ G) = G
    BY <1>3, <1>4
  <2>2. QED
    BY <2>1 DEF Without
<1>6. r.sent = G /\ r.landed = DOMAIN m.writes \ G /\ r.writes = m.writes
  OBVIOUS
<1> HIDE DEF v, G
<1>7. v \in Seq(EntrySet)
  <2>1. \A i \in 1..n : v[i] \in EntrySet
    BY <1>2, <1>3
  <2>2. n \in Nat /\ v = [i \in 1..n |-> v[i]]
    BY <1>3
  <2> HIDE DEF n
  <2>3. QED
    BY <2>1, <2>2
<1>8. G \in SUBSET DOMAIN v
  BY <1>3, <1>4
<1>9. /\ ws \in Seq(EntrySet) /\ DOMAIN ws = 1..Cardinality(G)
      /\ \E e : Walks(e, G) /\ \A j \in 1..Cardinality(G) : ws[j] = v[e[j]]
  BY <1>7, <1>8, OnlyIs
<1>10. PICK e : Walks(e, G) /\ \A j \in DOMAIN ws : ws[j] = v[e[j]]
  BY <1>9
<1>11. \A j \in DOMAIN ws : e[j] \in G /\ e[j] \in DOMAIN m.writes
  BY <1>4, <1>9, <1>10 DEF Walks
<1>12. \A i, j \in DOMAIN ws : i < j => e[i] < e[j]
  BY <1>9, <1>10 DEF Walks
<1>a. Len(ws) \in Nat /\ DOMAIN ws = 1..Len(ws)
  BY <1>9
<1> HIDE DEF ws
<1>13. \A i, j \in DOMAIN ws : e[i] = e[j] => i = j
  <2> SUFFICES ASSUME NEW i \in DOMAIN ws, NEW j \in DOMAIN ws, e[i] = e[j], i # j
               PROVE  FALSE
    OBVIOUS
  <2>1. i < j \/ j < i
    BY <1>a
  <2>2. e[i] \in Int /\ e[j] \in Int
    BY <1>3, <1>11
  <2>3. QED
    BY <1>12, <2>1, <2>2
<1>14. \A i, j \in DOMAIN ws : ws[i].index = ws[j].index => i = j
  BY <1>2, <1>10, <1>11, <1>13
<1>15. OneId(ws)
  <2> SUFFICES ASSUME NEW i \in DOMAIN ws, NEW j \in DOMAIN ws, ws[i].n = ws[j].n
               PROVE  i = j
    BY DEF OneId, Id
  <2>1. m.writes[e[i]].n = m.writes[e[j]].n
    BY <1>2, <1>10, <1>11
  <2>2. OwnWrites(s, m.writes)
    BY DeltaIs
  <2>3. QED
    BY <1>11, <1>13, <2>1, <2>2 DEF OwnWrites
<1>16. ASSUME NEW j \in DOMAIN ws
       PROVE  Reapplied(r, ws[j]) /\ Whole(m, ws[j])
  <2>1. PICK i \in G : i = e[j] /\ ws[j] = v[i] /\ i \in DOMAIN m.writes
    BY <1>10, <1>11
  <2>2. /\ ws[j].round = s.rounds /\ ws[j].index = i /\ DOMAIN ws[j].sets = Keeps(m, i)
        /\ \A k \in DOMAIN ws[j].sets : Forced(ws[j], k) => m.theirs[k] = AnyValue
        /\ \A k \in DOMAIN ws[j].sets : ws[j].sets[k] = m.writes[i].sets[k]
    BY <1>2, <2>1
  <2>3. ws[j].sets # <<>>
    <3>1. DOMAIN ws[j].sets # {}
      BY <1>4, <2>2
    <3>2. QED
      BY <3>1
  <2>4. ws[j].n = m.writes[i].n /\ Keeps(m, i) \subseteq DOMAIN m.writes[i].sets
    BY <1>2, <2>1 DEF Keeps
  <2>5. Whole(m, ws[j])
    BY <2>1, <2>2 DEF Whole
  <2>6. QED
    BY <1>6, <2>1, <2>2, <2>3, <2>4, <2>5 DEF Reapplied
<1>17. \A i, j \in DOMAIN ws : i < j => ws[i].index < ws[j].index
  BY <1>2, <1>10, <1>11, <1>12
<1>18. QED
  BY <1>5, <1>9, <1>14, <1>15, <1>16, <1>17 DEF v, G, ws

LEMMA SendKeeps ==
  ASSUME MergeInv, s.merge.phase = "delta", NumKeys \in s.merge.next..NumKeys,
         EndCall(SendMerge(s, ReadTo(s.merge, NumKeys)), claim)
  PROVE  MergeInv' /\ s'.pub = s.pub /\ (OrderInv => OrderInv')
<1> DEFINE r  == ReadTo(s.merge, NumKeys)
           m  == SentMerge(r)
           ws == Without([i \in DOMAIN r.writes |-> MergeWrite(s, r, i)], DOMAIN r.writes \ Goes(r))
           p  == Cold(ws \o s.queue)
           u  == [s EXCEPT !.merge = m]
           w  == [s EXCEPT !.merge = m, !.held = FALSE, !.cut = {}, !.queue = p]
           x  == SendMerge(s, r)
<1>1. s.merge \in MergeSet /\ NumKeys \in Nat /\ s \in StateSet
  BY StateIs, MergeAssumption
<1>2. /\ r \in MergeSet /\ r.winner = s.merge.winner /\ r.from = s.merge.from /\ r.writes = s.merge.writes
      /\ r.fell = s.merge.fell /\ r.at = s.merge.at
  BY <1>1, ReadToIs
<1>3. EndCall(x, claim)
  OBVIOUS
<1>4. x = IF Goes(r) = {} THEN u ELSE MergeFront(u, ws)
  BY DEF SendMerge, SentMerge
<1>5. r.theirs = ReadTo(s.merge, NumKeys).theirs
  OBVIOUS
<1> HIDE DEF r, x
<1>6. /\ m \in MergeSet /\ m.phase = "sent"
      /\ m.winner = s.merge.winner /\ m.from = s.merge.from /\ m.writes = s.merge.writes
      /\ m.fell = {} /\ m.at = s.merge.at /\ m.theirs = ReadTo(s.merge, NumKeys).theirs
      /\ m.sent = Goes(r) /\ m.landed = DOMAIN r.writes \ Goes(r) /\ m.theirs = r.theirs
      /\ m.writes = r.writes
  BY <1>2, <1>5, SentIs, DeltaIs
<1> HIDE DEF m
<1>7. CASE Goes(r) = {}
  <2>1. /\ u.merge = m /\ u.pub = s.pub /\ u.line = s.line /\ u.beaten = s.beaten /\ u.rounds = s.rounds
        /\ u.queue = s.queue /\ u.tip = s.tip /\ u.made = s.made /\ u.probe = s.probe /\ u.foreign = s.foreign
    BY <1>1, <1>6, MergeIs
  <2>2. u = [s EXCEPT !.merge = m]
    OBVIOUS
  <2> HIDE DEF u
  <2>3. WinnerOK(u)
    BY <1>6, <2>1, SentWinner
  <2>4. Ready(u)
    BY <1>6, <2>2, <2>3, MergedReady
  <2>5. \A i \in DOMAIN s.queue : s.queue[i].round = 0 /\ \E j \in DOMAIN s.queue : Same(s.queue[i], s.queue[j])
    BY DeltaIs DEF NoEntry, Same
  <2>6. OrderInv => OrderOK(u, claim) /\ u.foreign # 0
    BY <1>6, <2>1, <2>5, FrontedOrder
  <2>7. QED
    BY <1>3, <1>4, <1>7, <2>1, <2>4, <2>6, EndKeeps
<1>8. CASE Goes(r) # {}
  <2>1. ws \in Seq(EntrySet) /\ OneId(ws) /\ (\A j \in DOMAIN ws : Reapplied(m, ws[j]))
        /\ \A i, j \in DOMAIN ws : ws[i].index = ws[j].index => i = j
    BY <1>2, <1>6, GoingIs
  <2>2. x = w
    BY <1>1, <1>4, <1>8 DEF MergeFront, StateSet
  <2> HIDE DEF ws
  <2>3. /\ p \in Seq(EntrySet) /\ WarmFirst(p) /\ \A tree : Replays(tree, p)
        /\ OneId(p) /\ MergesFirst(p) /\ OneIndex(p)
        /\ \A i \in DOMAIN p : \/ p[i].round > 0 /\ Reapplied(m, p[i])
                               \/ p[i].round = 0 /\ \E j \in DOMAIN s.queue : Same(p[i], s.queue[j])
        /\ InTurn(s.queue) => InTurn(p)
    BY <2>1, FrontIsNew
  <2> HIDE DEF p
  <2>4. w = [s EXCEPT !.merge = m, !.held = FALSE, !.cut = {}, !.queue = p]
    OBVIOUS
  <2>5. /\ w.merge = m /\ w.pub = s.pub /\ w.line = s.line /\ w.beaten = s.beaten /\ w.rounds = s.rounds
        /\ w.queue = p /\ w.tip = s.tip /\ w.made = s.made /\ w.probe = s.probe /\ w.foreign = s.foreign
    BY <1>1 DEF StateSet
  <2> HIDE DEF w
  <2>6. WinnerOK(w)
    BY <1>6, <2>5, SentWinner
  <2>7. Ready(w)
    BY <1>6, <2>3, <2>4, <2>6, FrontedReady
  <2>8. OrderInv => OrderOK(w, claim) /\ w.foreign # 0
    BY <1>6, <2>3, <2>5, FrontedOrder
  <2>9. QED
    BY <1>3, <2>2, <2>5, <2>7, <2>8, EndKeeps
<1>9. QED
  BY <1>7, <1>8

LEMMA AnswersKeeps ==
  ASSUME MergeInv, DeltaAnswers
  PROVE  MergeInv' /\ s'.pub = s.pub /\ (OrderInv => OrderInv')
<1>1. s.merge.phase = "delta"
  BY DEF DeltaAnswers
<1>2. PICK c \in s.merge.next..NumKeys :
        IF c = NumKeys THEN EndCall(SendMerge(s, ReadTo(s.merge, c)), claim)
        ELSE EndCall([s EXCEPT !.merge = [ReadTo(@, c) EXCEPT !.tree = s.pub.tree]], claim)
  BY DEF DeltaAnswers
<1>3. CASE c = NumKeys
  <2>1. NumKeys \in s.merge.next..NumKeys
    BY <1>3
  <2>2. EndCall(SendMerge(s, ReadTo(s.merge, NumKeys)), claim)
    BY <1>2, <1>3
  <2>3. QED
    BY <1>1, <2>1, <2>2, SendKeeps
<1>4. CASE c # NumKeys
  <2>1. EndCall([s EXCEPT !.merge = [ReadTo(@, c) EXCEPT !.tree = s.pub.tree]], claim)
    BY <1>2, <1>4
  <2>2. QED
    BY <1>1, <2>1, ResumeKeeps
<1>5. QED
  BY <1>3, <1>4

----------------------------------------------------------------------------
(* The whole. *)

LEMMA InitInv ==
  ASSUME Init
  PROVE  MergeInv
<1> DEFINE g == [seq |-> 1, tree |-> Empty]
           l == <<g>>
           z == <<>>
           cu == {}
<1>1. /\ NoHead \in HeadSet /\ NoTip \in TipSet /\ NoMerge \in MergeSet /\ NoProbe \in ProbeSet
  BY Nones
<1>2. g \in HeadSet /\ g.seq = 1
  BY Nones DEF HeadSet
<1>3. s = [pub |-> g, prev |-> NoHead, line |-> l, beaten |-> cu,
           queue |-> z, made |-> 0, commit |-> NoCommit, cut |-> cu, held |-> FALSE,
           seen |-> g, tip |-> NoTip, merge |-> NoMerge, probe |-> NoProbe, rounds |-> 0, foreign |-> 0, own |-> 1]
  BY DEF Init
<1> HIDE DEF g
<1>4. l \in Seq(HeadSet) /\ l # <<>> /\ l[Len(l)] = g
  BY <1>2
<1>5. z \in Seq(EntrySet) /\ DOMAIN z = {} /\ Len(z) = 0
  OBVIOUS
<1>6. cu \in SUBSET HeadSet /\ cu \in SUBSET (Nat \X Nat)
  OBVIOUS
<1>7. NoCommit \in [n : Nat, head : HeadSet] /\ 0 \in 0..Len(Writes)
  BY <1>1, MergeAssumption DEF NoCommit
<1> HIDE DEF l, z, cu
<1>8. s \in StateSet
  BY <1>1, <1>2, <1>3, <1>4, <1>5, <1>6, <1>7 DEF StateSet
<1>9. LineOK(s)
  BY <1>2, <1>3, <1>4 DEF LineOK
<1>10. QueueOK(s)
  BY <1>3, <1>5 DEF QueueOK, WarmFirst, Replays, OneId
<1>11. CommitOK(s)
  BY <1>3, <1>5, NoCommitOK
<1>12. EntriesOK(s)
  BY <1>3, <1>5 DEF EntriesOK, MergesFirst, OneIndex
<1>13. /\ NoMerge.phase = "none" /\ NoMerge.writes = <<>> /\ NoMerge.at.seq = -1
       /\ NoTip.writes = <<>> /\ NoTip.head.seq = -1
  BY DEF NoMerge, NoHead, NoTip
<1>14. WinnerOK(s)
  BY <1>3, <1>13 DEF WinnerOK
<1>15. JudgedOK(s)
  BY <1>2, <1>3, <1>13 DEF JudgedOK, OwnWrites
<1>16. HoldOK(s)
  BY <1>3, <1>13 DEF HoldOK
<1>17. QED
  BY <1>3, <1>8, <1>9, <1>10, <1>11, <1>12, <1>13, <1>14, <1>15, <1>16 DEF MergeInv, Ready

LEMMA NextInv ==
  ASSUME MergeInv, [Next]_vars
  PROVE  MergeInv' /\ (OrderInv => OrderInv')
<1>1. CASE Accept
  BY <1>1, AcceptKeeps
<1>2. CASE Apply
  BY <1>2, ApplyKeeps
<1>3. CASE Cut
  BY <1>3, CutKeeps
<1>4. CASE Land
  BY <1>4, LandKeeps
<1>5. CASE Fail
  BY <1>5, FailKeeps
<1>6. CASE Foreign
  BY <1>6, ForeignKeeps
<1>7. CASE DeltaAnswers
  BY <1>7, AnswersKeeps
<1>8. CASE DeltaFails
  BY <1>8, FailsKeeps
<1>9. CASE ProbeAnswers
  BY <1>9, ProbeKeeps
<1>10. CASE UNCHANGED vars
  <2>1. s' = s /\ claim' = claim
    BY <1>10 DEF vars
  <2>2. QED
    BY <2>1 DEF MergeInv, OrderInv
<1>11. QED
  BY <1>1, <1>2, <1>3, <1>4, <1>5, <1>6, <1>7, <1>8, <1>9, <1>10 DEF Next

(* The invariant above, of every state. *)
LEMMA MergeAlways == Spec => []MergeInv
<1>1. Init => MergeInv
  BY InitInv
<1>2. MergeInv /\ [Next]_vars => MergeInv'
  BY NextInv
<1>3. QED
  BY <1>1, <1>2, PTL DEF Spec

LEMMA TypeOf ==
  ASSUME MergeInv
  PROVE  TypeOK
<1>1. /\ Ready(s) /\ s \in StateSet /\ s.queue \in Seq(EntrySet) /\ s.commit.n \in Nat
      /\ s.held \in BOOLEAN /\ s.made \in 0..Len(Writes) /\ s.pub.tree \in Trees
      /\ (s.held <=> s.merge.phase = "delta") /\ WarmFirst(s.queue) /\ Replays(s.pub.tree, s.queue)
  BY StateIs
<1>2. CommitOK(s) /\ LineOK(s) /\ EntriesOK(s)
  BY <1>1 DEF Ready
<1>3. s.commit.n \in 0..Len(s.queue) /\ s.commit.n <= MaxCommit
  BY <1>1, <1>2 DEF CommitOK
<1>4. \A i \in DOMAIN s.queue : s.queue[i].tries \in 0..MaxTries
  BY <1>1 DEF EntrySet
<1>5. \A i \in DOMAIN s.queue : s.queue[i].round > 0 => s.queue[i].sets # <<>>
  BY <1>2 DEF EntriesOK, Remerged
<1>6. s.held => s.commit = NoCommit
  BY DeltaIs, <1>1
<1>7. \A i \in 1..s.commit.n : s.queue[i].warm
  <2> SUFFICES ASSUME NEW i \in 1..s.commit.n
               PROVE  s.queue[i].warm
    OBVIOUS
  <2>1. s.commit.n > 0 /\ i \in DOMAIN s.queue /\ s.commit.n \in DOMAIN s.queue
    BY <1>1, <1>3
  <2>2. s.queue[s.commit.n].warm
    BY <1>2, <2>1 DEF CommitOK
  <2>3. i < s.commit.n \/ i = s.commit.n
    BY <1>1
  <2>4. QED
    BY <1>1, <2>1, <2>2, <2>3 DEF WarmFirst
<1>8. Judged(s, CutOf(s)).dropped = <<>>
  BY <1>1, CutIs
<1>9. s.line[Len(s.line)] = s.pub
  BY <1>2 DEF LineOK
<1>10. QED
  BY <1>1, <1>3, <1>4, <1>5, <1>6, <1>7, <1>8, <1>9 DEF TypeOK

LEMMA NeverBlindOf ==
  ASSUME MergeInv
  PROVE  NeverBlind
<1>1. EntriesOK(s) /\ WinnerOK(s) /\ s.queue \in Seq(EntrySet)
  BY StateIs DEF Ready
<1> SUFFICES ASSUME s.pub = s.merge.winner, NEW i \in DOMAIN s.queue, s.queue[i].round > 0,
                    NEW k \in DOMAIN s.queue[i].sets, Forced(s.queue[i], k)
             PROVE  s.pub.tree[k] = s.merge.from.tree[k]
  BY DEF NeverBlind
<1>2. s.merge.phase = "sent" /\ s.merge.theirs[k] = AnyValue
  BY <1>1 DEF EntriesOK, Remerged
<1>3. k \in Keys
  <2>1. s.queue[i].sets \in Edits
    BY <1>1 DEF EntrySet
  <2>2. QED
    BY <2>1 DEF Edits
<1>4. QED
  BY <1>1, <1>2, <1>3 DEF WinnerOK, Spared

(* A claim that no write of these made stays. *)
LEMMA ToldStays ==
  ASSUME NEW ws \in Seq(KeptSet), NEW keys \in SUBSET Written(ws), NEW c, NEW k \in Keys,
         \A i \in DOMAIN ws : ws[i].n # c[k]
  PROVE  Told(c, ws, keys)[k] = c[k]
<1>1. k \in keys => LastWriter(ws, k) \in DOMAIN ws
  BY LastIs
<1>2. QED
  BY <1>1 DEF Told

(* A commit that lands: of a key it writes, a client claims a later write   *)
(* from then on, or the write was the merge's own.                          *)
LEMMA LandOrder ==
  ASSUME MergeInv, OrderInv, Land, s.foreign <= 1, NEW k \in Keys, claim[k] # 0
  PROVE  s'.pub.tree[k] = s.pub.tree[k] \/ claim'[k] > claim[k] \/ Regrouped(claim[k])
<1> DEFINE m    == s.commit.n
           done == SubSeq(s.queue, 1, m)
           c    == Claimed(claim, done)
<1>1. /\ s.queue \in Seq(EntrySet) /\ s.made \in Nat /\ Ready(s)
      /\ s.merge.writes \in Seq(KeptSet) /\ s.probe.writes \in Seq(KeptSet)
  BY StateIs, MergeAssumption DEF StateSet, MergeSet, ProbeSet
<1>2. m \in 0..Len(s.queue) /\ s.commit.head.tree = PutAll(s.pub.tree, done)
  BY FlightIs DEF Land
<1>3. PICK g : /\ s'.pub = s.commit.head /\ g.writes = s.merge.writes
               /\ claim' = ProbeTells(s.probe, MergeTells(g, c))
  BY LandKeeps
<1>4. /\ TurnOK(s, claim) /\ RegroupOK(s, claim) /\ claim \in [Keys -> 0..s.made]
  BY DEF OrderInv, OrderOK, TurnOK
<1>5. /\ done \in Seq(EntrySet) /\ \A i \in DOMAIN done : i \in DOMAIN s.queue /\ done[i] = s.queue[i]
  <2>1. done \in Seq(EntrySet) /\ Len(done) = m
    BY <1>1, <1>2, FrontBack
  <2>2. QED
    BY <1>1, <1>2, <2>1
<1> HIDE DEF done
<1>6. CASE k \notin Written(done)
  BY <1>2, <1>3, <1>6 DEF PutAll
<1>7. CASE \E i \in DOMAIN done : k \in DOMAIN done[i].sets /\ done[i].round > 0
  <2>1. PICK i \in DOMAIN s.queue : k \in DOMAIN s.queue[i].sets /\ s.queue[i].round > 0
    BY <1>5, <1>7
  <2>2. Taken(s.merge.writes, claim, k)
    BY <1>4, <2>1 DEF RegroupOK
  <2>3. QED
    BY <2>2 DEF Taken, Regrouped
<1>8. CASE k \in Written(done) /\ \A i \in DOMAIN done : k \in DOMAIN done[i].sets => ~(done[i].round > 0)
  <2>1. \A i \in DOMAIN done : k \in DOMAIN done[i].sets =>
          /\ done[i].round = 0 /\ done[i].n \in Nat /\ done[i].n > claim[k] /\ done[i].n <= s.made
          /\ \A j \in DOMAIN s.merge.writes : done[i].n > s.merge.writes[j].n
          /\ \A j \in DOMAIN s.probe.writes : done[i].n > s.probe.writes[j].n
    <3> SUFFICES ASSUME NEW i \in DOMAIN done, k \in DOMAIN done[i].sets
                 PROVE  /\ done[i].round = 0 /\ done[i].n \in Nat /\ done[i].n > claim[k] /\ done[i].n <= s.made
                        /\ \A j \in DOMAIN s.merge.writes : done[i].n > s.merge.writes[j].n
                        /\ \A j \in DOMAIN s.probe.writes : done[i].n > s.probe.writes[j].n
      OBVIOUS
    <3>1. done[i].round = 0 /\ done[i].n \in Nat
      BY <1>5, <1>8 DEF EntrySet
    <3>2. i \in DOMAIN s.queue /\ done[i] = s.queue[i]
      BY <1>5
    <3>3. \A n : Earlier(s.queue, n) => n < done[i].n
      BY <3>1, <3>2 DEF Earlier
    <3>4. claim[k] \in Nat /\ \A j \in DOMAIN s.merge.writes : s.merge.writes[j].n \in Nat
      BY <1>1, <1>4 DEF KeptSet
    <3>5. \A j \in DOMAIN s.probe.writes : s.probe.writes[j].n \in Nat
      BY <1>1 DEF KeptSet
    <3>6. claim[k] < done[i].n
      BY <1>4, <3>3 DEF TurnOK
    <3>7. /\ \A j \in DOMAIN s.merge.writes : s.merge.writes[j].n < done[i].n
          /\ \A j \in DOMAIN s.probe.writes : s.probe.writes[j].n < done[i].n
      BY <1>4, <3>3 DEF TurnOK, Ahead
    <3>8. done[i].n <= s.made
      BY <1>1, <3>1, <3>2 DEF Ready, QueueOK
    <3>9. QED
      BY <3>1, <3>4, <3>5, <3>6, <3>7, <3>8
  <2>2. PICK i \in DOMAIN done : k \in DOMAIN done[i].sets /\ c[k] = done[i].n
    <3>1. /\ \A x \in Keys : c[x] = claim[x] \/ \E i \in DOMAIN done : x \in DOMAIN done[i].sets /\ c[x] = done[i].n
          /\ \A x \in Keys, i \in DOMAIN done : x \in DOMAIN done[i].sets => done[i].n <= c[x]
      <4>1. ASSUME NEW i \in DOMAIN done
            PROVE  done[i].n <= s.made
        <5>1. i \in DOMAIN s.queue /\ done[i] = s.queue[i] /\ done[i].round \in Nat
          BY <1>5 DEF EntrySet
        <5>2. CASE done[i].round = 0
          BY <1>1, <5>1, <5>2 DEF Ready, QueueOK
        <5>3. CASE done[i].round > 0
          <6>1. Entered(s, done[i])
            BY <1>4, <5>1, <5>3 DEF RegroupOK
          <6>2. QED
            BY <1>4, <6>1 DEF Entered, TurnOK, Ahead
        <5>4. QED
          BY <5>1, <5>2, <5>3
      <4>2. QED
        BY <1>1, <1>4, <1>5, <4>1, ClaimedIs
    <3>2. PICK i \in DOMAIN done : k \in DOMAIN done[i].sets
      BY <1>8, WrittenIs
    <3>3. done[i].n <= c[k] /\ done[i].n > claim[k] /\ done[i].n \in Nat /\ claim[k] \in Nat
      BY <1>4, <2>1, <3>1, <3>2
    <3>4. c[k] # claim[k]
      BY <3>3
    <3>5. QED
      BY <3>1, <3>4
  <2> HIDE DEF c
  <2>3. c[k] \in Nat /\ c[k] > claim[k]
    BY <2>1, <2>2
  <2>4. MergeTells(g, c)[k] = c[k]
    <3>1. \A j \in DOMAIN g.writes : g.writes[j].n # c[k]
      <4>1. \A j \in DOMAIN s.merge.writes : s.merge.writes[j].n \in Nat
        BY <1>1 DEF KeptSet
      <4>2. QED
        BY <1>3, <2>1, <2>2, <4>1
    <3>2. MergeSuperseded(g) \in SUBSET Written(g.writes)
      BY DEF MergeSuperseded
    <3>3. g.writes \in Seq(KeptSet)
      BY <1>1, <1>3
    <3>4. QED
      BY <3>1, <3>2, <3>3, ToldStays DEF MergeTells
  <2>5. claim'[k] = c[k]
    <3> DEFINE d == MergeTells(g, c)
    <3>1. \A j \in DOMAIN s.probe.writes : s.probe.writes[j].n # d[k]
      <4>1. \A j \in DOMAIN s.probe.writes : s.probe.writes[j].n \in Nat
        BY <1>1 DEF KeptSet
      <4>2. QED
        BY <2>1, <2>2, <2>4, <4>1
    <3>2. s.probe.superseded \in SUBSET Written(s.probe.writes)
      BY <1>4 DEF TurnOK
    <3>3. d[k] = c[k] /\ claim' = ProbeTells(s.probe, d)
      BY <1>3, <2>4
    <3> HIDE DEF d
    <3>4. QED
      BY <1>1, <3>1, <3>2, <3>3, ToldStays DEF ProbeTells
  <2>6. QED
    BY <2>3, <2>5
<1>9. QED
  BY <1>6, <1>7, <1>8

(* What a step keeps of the order of publication. *)
OrderStep ==
  s'.foreign = s.foreign /\ s.foreign <= 1 =>
    \A k \in Keys :
      claim[k] # 0 /\ s.pub.tree[k] = Value(claim[k], k) =>
        \/ s'.pub.tree[k] = s.pub.tree[k]
        \/ claim'[k] > claim[k]
        \/ Regrouped(claim[k])

LEMMA StepOrder ==
  ASSUME MergeInv, OrderInv, [Next]_vars
  PROVE  OrderStep
<1>1. CASE s'.pub = s.pub
  BY <1>1 DEF OrderStep
<1>2. CASE s'.foreign # s.foreign
  BY <1>2 DEF OrderStep
<1>3. CASE Land
  BY <1>3, LandOrder DEF OrderStep
<1>4. Accept \/ Apply \/ Cut \/ Fail \/ DeltaAnswers \/ DeltaFails \/ ProbeAnswers => s'.pub = s.pub
  BY AcceptKeeps, ApplyKeeps, CutKeeps, FailKeeps, AnswersKeeps, FailsKeeps, ProbeKeeps
<1>5. Foreign => s'.foreign # s.foreign
  BY ForeignKeeps
<1>6. UNCHANGED vars => s'.pub = s.pub
  BY DEF vars
<1>7. QED
  BY <1>1, <1>2, <1>3, <1>4, <1>5, <1>6 DEF Next

LEMMA InitOrder ==
  ASSUME Init
  PROVE  OrderInv
<1>1. /\ s.queue = <<>> /\ s.made = 0 /\ s.tip = NoTip /\ s.merge = NoMerge /\ s.probe = NoProbe
      /\ claim = [k \in Keys |-> 0]
  BY DEF Init
<1>2. /\ NoTip.writes = <<>> /\ NoMerge.writes = <<>> /\ NoProbe.writes = <<>> /\ NoMerge.phase = "none"
      /\ NoProbe.pending = {} /\ NoProbe.superseded = {}
  BY DEF NoTip, NoMerge, NoProbe
<1>3. s.tip.writes = <<>> /\ s.merge.writes = <<>> /\ s.probe.writes = <<>>
  BY <1>1, <1>2
<1>4. TurnOK(s, claim)
  BY <1>1, <1>2, <1>3, EmptyWritten DEF TurnOK, InTurn, Earlier
<1>5. RegroupOK(s, claim)
  BY <1>1, <1>2 DEF RegroupOK
<1>6. TipOK(s, claim)
  BY <1>3, EmptyWritten DEF TipOK
<1>7. QED
  BY <1>4, <1>5, <1>6 DEF OrderInv, OrderOK

(* For any keys, values and writes and any number of displacements: the    *)
(* types; the queue is held and no commit is in flight exactly while a      *)
(* merge waits for its delta, so its writes go in front of everything       *)
(* (merge_front); a commit in flight is what the warm root has applied;     *)
(* and a cut rebuilds that root, no write dropping out of it                *)
(* (commit_front's invariant 4).                                            *)
THEOREM TypeCorrect == Spec => []TypeOK
<1>1. MergeInv => TypeOK
  BY TypeOf
<1>2. QED
  BY <1>1, MergeAlways, PTL

(* A write a merge re-applied leaves the queue before another merge begins:  *)
(* of the queued ones, all are of the merge that runs and wait for its       *)
(* verdict.  So what a call publishes is a client's write or one of that     *)
(* merge, the two that set `published_here` in same_identity                 *)
(* (page/src/server.rs), after any number of the other device's heads.       *)
OneMerge ==
  \A i \in DOMAIN s.queue :
    s.queue[i].round > 0 =>
      /\ s.merge.phase = "sent" /\ s.queue[i].round = s.rounds
      /\ s.queue[i].index \in s.merge.sent \ (s.merge.landed \cup s.merge.fell)

THEOREM OneMergeAtATime == Spec => []OneMerge
<1>1. MergeInv => OneMerge
  BY DEF MergeInv, Ready, EntriesOK, Remerged, OneMerge
<1>2. QED
  BY <1>1, MergeAlways, PTL

(* A merge's forced write is never queued to go onto the winner over a      *)
(* value the winner changed from their common base, whatever came between   *)
(* the delta's pages and however often the merge's commit died.             *)
THEOREM BlindCorrect == Spec => []NeverBlind
<1>1. MergeInv => NeverBlind
  BY NeverBlindOf
<1>2. QED
  BY <1>1, MergeAlways, PTL

(* Until a second head of the other device, the page's own commits replace  *)
(* a value a client takes as published by a later write of the client only, *)
(* but for the keys of a displaced group while that group lands again: what *)
(* a merge re-applies stands in front of every write that came after it.    *)
THEOREM OrderKept == Spec => OwnOrder
<1>1. Init => MergeInv /\ OrderInv
  BY InitInv, InitOrder
<1>2. MergeInv /\ OrderInv /\ [Next]_vars => MergeInv' /\ OrderInv'
  BY NextInv
<1>3. MergeInv /\ OrderInv /\ [Next]_vars => [OrderStep]_vars
  BY StepOrder
<1>4. QED
  BY <1>1, <1>2, <1>3, PTL DEF Spec, OwnOrder, OrderStep

----------------------------------------------------------------------------
(* What a client is told of its published values. *)

(* Writes that are the clients' own, and in the order they were made; what  *)
(* a client takes as published of k is of the last of them to write it.     *)
Own(w)          == w.n \in DOMAIN Writes /\ w.sets = Writes[w.n].sets /\ w.reads = Writes[w.n].reads
AllOwn(ws)      == \A i \in DOMAIN ws : Own(ws[i])
Rising(ws)      == \A i, j \in DOMAIN ws : i < j => ws[i].n < ws[j].n
Lasts(ws, c, k) == k \in Written(ws) /\ c[k] = ws[LastWriter(ws, k)].n
OwnOK(t) ==
  /\ AllOwn(t.tip.writes) /\ AllOwn(t.merge.writes) /\ AllOwn(t.probe.writes)
  /\ \A i \in DOMAIN t.queue : t.queue[i].round = 0 => Own(t.queue[i])

(* A published value is in the published tree, or its key is being read at  *)
(* the head that displaced it.                                              *)
Stands(t, c, k) == c[k] # 0 => t.pub.tree[k] = Value(c[k], k)
Asked(t, c, k) ==
  /\ k \in t.probe.pending \cup t.probe.superseded /\ Lasts(t.probe.writes, c, k)
  /\ t.pub.tree[k] = t.probe.tree[k]

(* Before the other device published anything: the tip is what the head has *)
(* on its base, and every published value stands.                           *)
AloneOK(t, c) ==
  /\ t.merge.phase = "none" /\ t.probe.writes = <<>> /\ t.own = 1
  /\ t.tip # NoTip => t.tip.head = t.pub /\ t.tip.base = t.prev
  /\ t.tip = NoTip => t.prev = NoHead
  /\ Len(t.line) > 1 => t.tip # NoTip /\ t.line[Len(t.line) - 1] = t.prev
  /\ t.pub.tree = PutAll(t.tip.base.tree, t.tip.writes) /\ Rising(t.tip.writes)
  /\ \A k \in Written(t.tip.writes) : Lasts(t.tip.writes, c, k)
  /\ \A k \in Keys : Stands(t, c, k)

(* A merge that waits for its delta: what it read is what the winner has.   *)
DeltaOK(t, c) ==
  /\ t.pub = t.merge.winner
  /\ \A k \in Keys : t.merge.theirs[k] \in {AnyValue, t.pub.tree[k]}
  /\ \A k \in Written(t.merge.writes) : c[k] = 0 \/ Lasts(t.merge.writes, c, k)

(* A merge that was sent: its writes are queued in their order, each with   *)
(* the keys it keeps, later than those that landed; and a key that its last *)
(* writer left again, or that every writer leaves to the winner, is as the  *)
(* merge has it.                                                            *)
Lined(q) == \A i, j \in DOMAIN q : i < j /\ q[j].round > 0 => q[i].index < q[j].index
Kept(t, e) ==
  /\ e.index \in DOMAIN t.merge.writes /\ e.n = t.merge.writes[e.index].n
  /\ DOMAIN e.sets = Keeps(t.merge, e.index)
  /\ \A k \in DOMAIN e.sets : e.sets[k] = t.merge.writes[e.index].sets[k]
  /\ \A i \in t.merge.landed : i < e.index \/ Keeps(t.merge, i) = {}
Open(t, c, e) == \A k \in DOMAIN e.sets : c[k] < e.n \/ Lasts(t.merge.writes, c, k)
LeavesOK(m) ==
  \A i \in DOMAIN m.writes : \A k \in DOMAIN m.writes[i].sets :
    <<i, k>> \in m.dropped <=> k \notin Keeps(m, i)
Restored(t, c, k) ==
  LET m == t.merge
      l == LastWriter(m.writes, k)
  IN  Lasts(m.writes, c, k) =>
        /\ k \notin Keeps(m, l) => t.pub.tree[k] = m.theirs[k]
        /\ k \in Keeps(m, l) /\ l \in m.landed => t.pub.tree[k] = LeftAt(m.writes, k)
SentOK(t, c) ==
  /\ Lined(t.queue) /\ LeavesOK(t.merge)
  /\ \A i \in DOMAIN t.queue : t.queue[i].round > 0 => Kept(t, t.queue[i]) /\ Open(t, c, t.queue[i])
  /\ \A k \in Keys : OneWay(k) => Restored(t, c, k)

TellOK(t, c) ==
  /\ Rising(t.merge.writes)
  /\ t.merge.phase = "none" \/ t.probe.writes = <<>>
  /\ t.merge.phase = "delta" => DeltaOK(t, c)
  /\ t.merge.phase = "sent" => SentOK(t, c)
  /\ \A k \in Keys : OneWay(k) =>
       \/ Stands(t, c, k) \/ Asked(t, c, k)
       \/ t.merge.phase # "none" /\ Lasts(t.merge.writes, c, k)

AllTold(t, c) ==
  OwnOK(t) /\ (t.foreign = 0 => AloneOK(t, c)) /\ (t.foreign <= 1 => TellOK(t, c))
ToldInv == AllTold(s, claim)

LEMMA DisplacedToldOf ==
  ASSUME MergeInv, ToldInv, OrderInv
  PROVE  DisplacedIsTold
<1> SUFFICES ASSUME s.foreign <= 1, NEW k \in Keys, claim[k] # 0, OneWay(k)
             PROVE  s.pub.tree[k] = Value(claim[k], k) \/ BeingJudged(k)
  BY DEF DisplacedIsTold
<1>1. TellOK(s, claim)
  BY DEF ToldInv, AllTold
<1>2. QED
  BY <1>1 DEF TellOK, Stands, Asked, Lasts, BeingJudged

(* What a call's end leaves. *)
LEMMA EndIs ==
  ASSUME NEW t, t \in StateSet, NEW c, EndCall(t, c)
  PROVE  LET m == t.merge
         IN  /\ s'.pub = t.pub /\ s'.queue = t.queue /\ s'.foreign = t.foreign /\ s'.own = t.own
             /\ s'.line = t.line /\ s'.prev = t.prev
             /\ MergeDone(m) => s'.merge = NoMerge
             /\ ~MergeDone(m) => s'.merge = m /\ s'.tip = t.tip
             /\ s'.tip.writes = t.tip.writes \/ s'.tip.writes = LandedWrites(m)
             /\ t.probe.pending = {} => s'.probe = NoProbe
             /\ t.probe.pending # {} => s'.probe = t.probe
             /\ claim' = ProbeTells(t.probe, MergeTells(m, c))
BY DEF StateSet, EndCall, Settled, Finished, FinishMerge, ReleaseHold, FinishProbe

LEMMA OwnIn ==
  ASSUME NEW S, NEW ws \in Seq(S), AllOwn(ws), NEW K \in SUBSET DOMAIN ws
  PROVE  AllOwn(Only(ws, K))
<1>1. PICK e : Walks(e, K) /\ \A j \in 1..Cardinality(K) : Only(ws, K)[j] = ws[e[j]]
  BY OnlyIs
<1>2. DOMAIN Only(ws, K) = 1..Cardinality(K)
  BY OnlyIs
<1>3. \A j \in 1..Cardinality(K) : e[j] \in K
  BY <1>1 DEF Walks
<1>4. QED
  BY <1>1, <1>2, <1>3 DEF AllOwn

LEMMA NoneOwn == AllOwn(<<>>) /\ Rising(<<>>) /\ Written(<<>>) = {}
BY DEF AllOwn, Rising, Written

LEMMA EndOwn ==
  ASSUME NEW t, t \in StateSet, NEW c, EndCall(t, c), OwnOK(t)
  PROVE  OwnOK(s')
<1>1. t.merge.writes \in Seq(KeptSet)
  BY DEF StateSet, MergeSet
<1>2. AllOwn(LandedWrites(t.merge))
  BY <1>1, OwnIn DEF OwnOK, LandedWrites, Without
<1>3. /\ s'.queue = t.queue
      /\ s'.merge = NoMerge \/ s'.merge = t.merge
      /\ s'.tip.writes = t.tip.writes \/ s'.tip.writes = LandedWrites(t.merge)
      /\ s'.probe = NoProbe \/ s'.probe = t.probe
  BY EndIs
<1>4. NoMerge.writes = <<>> /\ NoProbe.writes = <<>>
  BY DEF NoMerge, NoProbe
<1>5. QED
  BY <1>2, <1>3, <1>4, NoneOwn DEF OwnOK

(* A probe of nothing tells nothing. *)
LEMMA NoneTold ==
  ASSUME NEW S, NEW c \in [Keys -> S], NEW p, p.superseded \subseteq Written(p.writes), p.writes = <<>>
  PROVE  ProbeTells(p, c) = c
<1>1. p.superseded = {}
  BY NoneOwn
<1>2. QED
  BY <1>1 DEF ProbeTells, Told

LEMMA LastIn ==
  ASSUME NEW ws \in Seq(KeptSet), NEW k \in Written(ws)
  PROVE  /\ k \in Keys /\ LastWriter(ws, k) \in DOMAIN ws
         /\ k \in DOMAIN ws[LastWriter(ws, k)].sets
         /\ \A j \in DOMAIN ws : k \in DOMAIN ws[j].sets => j <= LastWriter(ws, k)
<1>1. DOMAIN ws = 1..Len(ws) /\ Len(ws) \in Nat
  OBVIOUS
<1>2. k \in Keys
  BY WrittenKeys
<1>3. QED
  BY <1>1, <1>2, LastIs

(* The last writer's value is the value its client takes as published. *)
LEMMA LastValue ==
  ASSUME NEW ws \in Seq(KeptSet), AllOwn(ws), NEW c, NEW k, Lasts(ws, c, k)
  PROVE  /\ LeftAt(ws, k) = Value(c[k], k) /\ c[k] \in DOMAIN Writes /\ c[k] # 0
         /\ k \in DOMAIN Writes[c[k]].sets
<1>1. LastWriter(ws, k) \in DOMAIN ws /\ k \in DOMAIN ws[LastWriter(ws, k)].sets
  BY LastIn DEF Lasts
<1>2. QED
  BY <1>1, MergeAssumption DEF Lasts, AllOwn, Own, LeftAt, Value

LEMMA SentSame ==
  ASSUME NEW t, NEW c, SentOK(t, c), NEW u, u.queue = t.queue, u.merge = t.merge, u.pub = t.pub
  PROVE  SentOK(u, c)
<1>1. \A e : (Kept(t, e) => Kept(u, e)) /\ (Open(t, c, e) => Open(u, c, e))
  BY DEF Kept, Open
<1>2. \A k : Restored(t, c, k) => Restored(u, c, k)
  BY DEF Restored
<1>3. QED
  BY <1>1, <1>2 DEF SentOK

LEMMA EndTold ==
  ASSUME NEW t, t \in StateSet, NEW c \in [Keys -> 0..t.made], EndCall(t, c), AllTold(t, c),
         t.probe.pending \cup t.probe.superseded \subseteq Written(t.probe.writes)
  PROVE  ToldInv'
<1> DEFINE m == t.merge
           p == t.probe
           d == MergeTells(m, c)
<1>1. /\ s'.pub = t.pub /\ s'.queue = t.queue /\ s'.foreign = t.foreign /\ s'.own = t.own
      /\ s'.line = t.line /\ s'.prev = t.prev
      /\ MergeDone(m) => s'.merge = NoMerge
      /\ ~MergeDone(m) => s'.merge = m /\ s'.tip = t.tip
      /\ p.pending = {} => s'.probe = NoProbe
      /\ p.pending # {} => s'.probe = p
      /\ claim' = ProbeTells(p, d)
  BY EndIs
<1>2. OwnOK(s') /\ OwnOK(t)
  BY EndOwn DEF AllTold
<1>3. m.writes \in Seq(KeptSet) /\ p.writes \in Seq(KeptSet) /\ AllOwn(m.writes) /\ AllOwn(p.writes) /\ t.foreign \in Nat
  BY <1>2, MergeAssumption DEF StateSet, MergeSet, ProbeSet, OwnOK
<1>4. /\ NoMerge.writes = <<>> /\ NoMerge.phase = "none" /\ NoProbe.writes = <<>>
      /\ NoProbe.pending = {} /\ NoProbe.superseded = {}
  BY DEF NoMerge, NoProbe
<1>5. d \in [Keys -> 0..t.made] /\ (~MergeDone(m) => d = c)
      /\ \A k \in Keys : d[k] \in {0, c[k]} /\ (MergeDone(m) /\ k \in MergeSuperseded(m) /\ Lasts(m.writes, c, k) => d[k] = 0)
  <2>1. t.made \in Nat
    BY MergeAssumption DEF StateSet
  <2>2. QED
    BY <2>1 DEF MergeTells, Told, Lasts
<1>6. p.writes = <<>> => claim' = d /\ s'.probe.writes = <<>>
  BY <1>1, <1>4, <1>5, NoneTold
<1> HIDE DEF m, p, d
<1>7. ASSUME t.foreign = 0
      PROVE  AloneOK(s', claim')
  <2>1. AloneOK(t, c)
    BY <1>7 DEF AllTold
  <2>2. ~MergeDone(m) /\ p.writes = <<>>
    BY <2>1 DEF AloneOK, MergeDone, m, p
  <2>3. claim' = c /\ s'.probe.writes = <<>> /\ s'.merge = m /\ s'.tip = t.tip
    BY <1>1, <1>5, <1>6, <2>2
  <2>4. QED
    BY <1>1, <2>1, <2>3 DEF AloneOK, Stands, m
<1>8. ASSUME t.foreign <= 1
      PROVE  TellOK(s', claim')
  <2>1. TellOK(t, c)
    BY <1>8 DEF AllTold
  <2>2. CASE MergeDone(m)
    <3>1. m.phase = "sent" /\ SentOK(t, c)
      BY <2>1, <2>2 DEF MergeDone, TellOK, m
    <3>2. p.writes = <<>>
      BY <2>1, <3>1 DEF TellOK, m, p
    <3>3. claim' = d /\ s'.merge = NoMerge
      BY <1>1, <1>6, <2>2, <3>2
    <3>4. ASSUME NEW k \in Keys, OneWay(k), d[k] # 0
          PROVE  t.pub.tree[k] = Value(d[k], k)
      <4>1. d[k] = c[k]
        BY <1>5, <3>4
      <4>2. CASE Stands(t, c, k)
        BY <3>4, <4>1, <4>2 DEF Stands
      <4>3. CASE Asked(t, c, k)
        BY <3>2, <4>3, NoneOwn DEF Asked, Lasts, p
      <4>4. CASE Lasts(m.writes, c, k)
        <5> DEFINE l == LastWriter(m.writes, k)
        <5>1. k \notin MergeSuperseded(m)
          BY <1>5, <2>2, <3>4, <4>4
        <5>2. k \in Written(m.writes) /\ l \in DOMAIN m.writes /\ k \in DOMAIN m.writes[l].sets
          BY <1>3, <4>4, LastIn DEF Lasts
        <5>3. l \in m.landed /\ (<<l, k>> \notin m.dropped \/ m.theirs[k] = LeftAt(m.writes, k))
          BY <5>1, <5>2 DEF MergeSuperseded
        <5>4. <<l, k>> \in m.dropped <=> k \notin Keeps(m, l)
          BY <3>1, <5>2 DEF SentOK, LeavesOK, m
        <5>5. /\ k \notin Keeps(m, l) => t.pub.tree[k] = m.theirs[k]
              /\ k \in Keeps(m, l) /\ l \in m.landed => t.pub.tree[k] = LeftAt(m.writes, k)
          BY <3>1, <3>4, <4>4 DEF SentOK, Restored, m
        <5>6. t.pub.tree[k] = LeftAt(m.writes, k)
          BY <5>3, <5>4, <5>5
        <5>7. QED
          BY <1>3, <4>1, <4>4, <5>6, LastValue
      <4>5. QED
        BY <2>1, <3>4, <4>2, <4>3, <4>4 DEF TellOK, m
    <3>5. \A k \in Keys : OneWay(k) => Stands(s', claim', k)
      BY <1>1, <3>3, <3>4 DEF Stands
    <3>6. QED
      BY <1>4, <3>3, <3>5, NoneOwn DEF TellOK
  <2>3. CASE ~MergeDone(m) /\ p.writes = <<>>
    <3>1. claim' = c /\ s'.merge = m /\ s'.probe.writes = <<>> /\ s'.pub = t.pub /\ s'.queue = t.queue
      BY <1>1, <1>5, <1>6, <2>3
    <3>2. DeltaOK(t, c) => DeltaOK(s', claim')
      BY <3>1 DEF DeltaOK, m
    <3>3. SentOK(t, c) => SentOK(s', claim')
      BY <3>1, SentSame DEF m
    <3>4. \A k \in Keys : ~Asked(t, c, k)
      BY <2>3, NoneOwn DEF Asked, Lasts, p
    <3>5. \A k \in Keys : Stands(t, c, k) => Stands(s', claim', k)
      BY <3>1 DEF Stands
    <3>6. QED
      BY <2>1, <3>1, <3>2, <3>3, <3>4, <3>5 DEF TellOK, m
  <2>4. CASE ~MergeDone(m) /\ p.writes # <<>>
    <3>1. m.phase = "none" /\ s'.merge = m /\ d = c
      BY <1>1, <1>5, <2>1, <2>4 DEF TellOK, m, p
    <3>2. ASSUME NEW k \in Keys, OneWay(k)
          PROVE  Stands(s', claim', k) \/ Asked(s', claim', k)
      <4>1. Stands(t, c, k) \/ Asked(t, c, k)
        BY <2>1, <3>1, <3>2 DEF TellOK, m
      <4>2. CASE p.pending # {}
        <5>1. claim' = c /\ s'.probe = p /\ s'.pub = t.pub
          BY <1>1, <3>1, <4>2 DEF ProbeTells
        <5>2. QED
          BY <4>1, <5>1 DEF Stands, Asked, p
      <4>3. CASE p.pending = {}
        <5>1. claim'[k] = IF k \in p.superseded /\ c[k] = p.writes[LastWriter(p.writes, k)].n THEN 0 ELSE c[k]
          BY <1>1, <3>1, <4>3 DEF ProbeTells, Told
        <5>2. Asked(t, c, k) => claim'[k] = 0
          BY <4>3, <5>1 DEF Asked, Lasts, p
        <5>3. QED
          BY <1>1, <4>1, <5>1, <5>2 DEF Stands
      <4>4. QED
        BY <4>2, <4>3
    <3>3. QED
      BY <2>1, <3>1, <3>2 DEF TellOK, m
  <2>5. QED
    BY <2>2, <2>3, <2>4
<1>9. s'.foreign = t.foreign
  BY <1>1
<1>10. QED
  BY <1>2, <1>7, <1>8, <1>9 DEF ToldInv, AllTold

(* The stages of a call: verdicts, then the tip, then the displacement. *)
Beheld(v, t) ==
  /\ v.pub = t.pub /\ v.queue = t.queue /\ v.foreign = t.foreign /\ v.own = t.own /\ v.line = t.line
  /\ v.prev = t.prev /\ v.seen = t.seen /\ v.made = t.made /\ v.probe = t.probe
Judging(v, t) ==
  /\ v.merge.phase = t.merge.phase /\ v.merge.winner = t.merge.winner /\ v.merge.writes = t.merge.writes
  /\ v.merge.theirs = t.merge.theirs /\ v.merge.dropped = t.merge.dropped

LEMMA NoClients == ClientsOf(<<>>) = <<>>
<1> DEFINE z == <<>>
<1>1. {i \in DOMAIN z : z[i].round = 0} = {}
  OBVIOUS
<1>2. Cardinality({}) = 0
  BY FS_EmptySet
<1>3. Only(z, {}) = <<>>
  BY <1>2 DEF Only
<1> HIDE DEF z
<1>4. ClientsOf(z) = <<>>
  BY <1>1, <1>3 DEF ClientsOf, z
<1>5. QED
  BY <1>4 DEF z

LEMMA StagesIs ==
  ASSUME NEW t, NEW p, NEW e, Ends(t, p, e), NEW w \in {t, CloseCut(t)}
  PROVE  \E v, b :
           /\ Ready(v) /\ Beheld(v, t) /\ Judging(v, t) /\ v.tip = t.tip
           /\ t.merge.phase = "sent" => v.merge.landed = t.merge.landed \cup Mine(t, p)
           /\ t.merge.phase # "sent" => v.merge = t.merge
           /\ b = JoinTip(v, ClientsOf(p)) /\ Ready(b) /\ Beheld(b, t) /\ b.merge = v.merge
           /\ p = <<>> => b = v
           /\ SameIdentity(w, p, e) = Displaced(b, p # <<>>) /\ Ready(SameIdentity(w, p, e))
<1> DEFINE cs == ClientsOf(p)
           v  == MergeVerdicts(w, p, e)
           b  == JoinTip(v, cs)
<1>1. t \in StateSet /\ t.merge \in MergeSet
  BY DEF Ends, Ready, StateSet
<1>2. /\ Ends(w, p, e) /\ w \in StateSet /\ Beheld(w, t) /\ w.merge = t.merge /\ w.tip = t.tip
      /\ w.rounds = t.rounds
  <2>1. Ends(w, p, e)
    BY CloseEnds
  <2>2. w \in StateSet
    BY <2>1 DEF Ends, Ready
  <2>3. Beheld(w, t) /\ w.merge = t.merge /\ w.tip = t.tip /\ w.rounds = t.rounds
    BY <1>1 DEF StateSet, CloseCut, Beheld
  <2>4. QED
    BY <2>1, <2>2, <2>3
<1>3. Mine(w, p) = Mine(t, p)
  BY <1>2 DEF Mine
<1>4. Beheld(v, w) /\ Judging(v, w) /\ v.tip = w.tip
  BY <1>1, <1>2 DEF MergeVerdicts, StateSet, MergeSet, Beheld, Judging
<1>5. /\ w.merge.phase = "sent" => v.merge.landed = w.merge.landed \cup Mine(w, p)
      /\ w.merge.phase # "sent" => v.merge = w.merge
  BY <1>1, <1>2 DEF MergeVerdicts, StateSet, MergeSet
<1>6. Ready(v)
  BY <1>2, VerdictsReady DEF Ends
<1> HIDE DEF v
<1>7. Joins(v, cs)
  <2>1. Joins(w, cs)
    BY <1>2 DEF Ends
  <2>2. QED
    BY <1>4, <2>1 DEF Joins, OwnWrites, NoEntry, Beheld, Judging
<1>8. p = <<>> => cs = <<>>
  BY NoClients
<1> HIDE DEF cs
<1>9. Ready(b) /\ (cs = <<>> => b = v)
  BY <1>6, <1>7, JoinReady
<1>10. Beheld(b, v) /\ b.merge = v.merge
  BY <1>6 DEF JoinTip, Beheld, Ready, StateSet
<1> HIDE DEF b
<1>11. SameIdentity(w, p, e) = Displaced(b, p # <<>>)
  BY DEF SameIdentity, b, v, cs
<1>12. Ready(SameIdentity(w, p, e))
  BY <1>2, CallReady
<1>13. Beheld(v, t) /\ Judging(v, t) /\ v.tip = t.tip /\ Beheld(b, t)
  BY <1>2, <1>4, <1>10 DEF Beheld, Judging
<1>14. /\ t.merge.phase = "sent" => v.merge.landed = t.merge.landed \cup Mine(t, p)
       /\ t.merge.phase # "sent" => v.merge = t.merge
  BY <1>2, <1>3, <1>5
<1>15. b = JoinTip(v, ClientsOf(p))
  BY DEF b, cs
<1>16. QED
  BY <1>6, <1>8, <1>9, <1>10, <1>11, <1>12, <1>13, <1>14, <1>15

(* What a call that published joins the tip with is the clients' own. *)
Fresh(p) == \A i \in DOMAIN p : p[i].round = 0 => Own(p[i])
LEMMA ClientsOwn ==
  ASSUME NEW p \in Seq(EntrySet), Fresh(p)
  PROVE  LET q == ClientsOf(p)
         IN  AllOwn([i \in DOMAIN q |-> TipWrite(q[i])]) /\ q \in Seq(EntrySet)
<1> DEFINE K == {i \in DOMAIN p : p[i].round = 0}
           q == ClientsOf(p)
<1>1. q = Only(p, K) /\ K \in SUBSET DOMAIN p
  BY DEF ClientsOf
<1>a. \A i \in K : i \in DOMAIN p /\ p[i].round = 0
  OBVIOUS
<1> HIDE DEF K
<1>2. PICK e : Walks(e, K) /\ \A j \in 1..Cardinality(K) : Only(p, K)[j] = p[e[j]]
  BY <1>1, OnlyIs
<1>3. DOMAIN q = 1..Cardinality(K) /\ q \in Seq(EntrySet)
  BY <1>1, OnlyIs
<1>4. \A j \in DOMAIN q : e[j] \in K /\ q[j] = p[e[j]]
  BY <1>1, <1>2, <1>3 DEF Walks
<1>5. \A j \in DOMAIN q : Own(q[j])
  BY <1>4, <1>a DEF Fresh
<1> HIDE DEF q
<1>6. QED
  BY <1>3, <1>5 DEF AllOwn, Own, TipWrite, q

LEMMA CatOwn ==
  ASSUME NEW S, NEW v \in Seq(S), NEW w \in Seq(S), AllOwn(v), AllOwn(w)
  PROVE  AllOwn(v \o w)
<1> SUFFICES ASSUME NEW i \in 1..(Len(v) + Len(w)) PROVE Own((v \o w)[i])
  BY DEF AllOwn
<1>1. CASE i <= Len(v)
  BY <1>1 DEF AllOwn
<1>2. CASE i > Len(v)
  <2>1. i - Len(v) \in DOMAIN w /\ (v \o w)[i] = w[i - Len(v)]
    BY <1>2
  <2>2. QED
    BY <2>1 DEF AllOwn
<1>3. QED
  BY <1>1, <1>2

LEMMA JoinOwn ==
  ASSUME NEW v, Ready(v), OwnOK(v), NEW p \in Seq(EntrySet), Fresh(p)
  PROVE  OwnOK(JoinTip(v, ClientsOf(p)))
<1> DEFINE q  == ClientsOf(p)
           ws == [i \in DOMAIN q |-> TipWrite(q[i])]
<1>1. AllOwn(ws) /\ q \in Seq(EntrySet)
  BY ClientsOwn
<1>2. ws \in Seq(KeptSet)
  <2>1. \A i \in DOMAIN q : q[i] \in EntrySet
    BY <1>1
  <2>2. \A i \in DOMAIN q : TipWrite(q[i]) \in KeptSet
    BY <2>1 DEF EntrySet, KeptSet, TipWrite
  <2> HIDE DEF q
  <2>3. QED
    BY <1>1, <2>2
<1>3. v.tip.writes \in Seq(KeptSet) /\ v \in StateSet
  BY DEF Ready, StateSet, TipSet
<1> HIDE DEF ws, q
<1>4. AllOwn(v.tip.writes \o ws)
  BY <1>1, <1>2, <1>3, CatOwn DEF OwnOK
<1> DEFINE b == JoinTip(v, q)
<1>5. /\ b.queue = v.queue /\ b.merge = v.merge /\ b.probe = v.probe
      /\ b.tip.writes \in {v.tip.writes, v.tip.writes \o ws, ws}
  BY <1>3 DEF JoinTip, StateSet, TipSet, ws
<1>6. AllOwn(b.tip.writes)
  BY <1>1, <1>4, <1>5 DEF OwnOK
<1> HIDE DEF b
<1>7. OwnOK(b)
  BY <1>5, <1>6 DEF OwnOK
<1>8. QED
  BY <1>7 DEF b, q

LEMMA DisplacedOwn ==
  ASSUME NEW b, Ready(b), OwnOK(b), NEW ours
  PROVE  OwnOK(Displaced(b, ours))
<1>1. b \in StateSet
  BY DEF Ready
<1>2. NoTip.writes = <<>>
  BY DEF NoTip
<1> DEFINE x == Displaced(b, ours)
<1>3. /\ x.queue = b.queue /\ x.tip.writes \in {b.tip.writes, <<>>}
      /\ x.merge.writes \in {b.merge.writes, b.tip.writes}
      /\ x.probe.writes \in {b.probe.writes, b.tip.writes}
  BY <1>1, <1>2 DEF Displaced, StartMerge, StartProbe, NoMerge, StateSet
<1> HIDE DEF x
<1>4. OwnOK(x)
  BY <1>3, NoneOwn DEF OwnOK
<1>5. QED
  BY <1>4 DEF x

LEMMA CallOwn ==
  ASSUME NEW t, NEW p, NEW e, Ends(t, p, e), NEW w \in {t, CloseCut(t)}, OwnOK(t), Fresh(p),
         NEW c, EndCall(SameIdentity(w, p, e), c)
  PROVE  OwnOK(s')
<1>1. PICK v, b : /\ Ready(v) /\ Beheld(v, t) /\ Judging(v, t) /\ v.tip = t.tip
                  /\ b = JoinTip(v, ClientsOf(p)) /\ Ready(b)
                  /\ SameIdentity(w, p, e) = Displaced(b, p # <<>>) /\ Ready(SameIdentity(w, p, e))
  BY StagesIs
<1>2. OwnOK(v)
  BY <1>1 DEF OwnOK, Beheld, Judging
<1>3. p \in Seq(EntrySet)
  BY DEF Ends
<1>4. OwnOK(b)
  BY <1>1, <1>2, <1>3, JoinOwn
<1> DEFINE x == SameIdentity(w, p, e)
           ours == p # <<>>
<1>5. x = Displaced(b, ours) /\ EndCall(x, c) /\ Ready(x)
  BY <1>1
<1> HIDE DEF x, ours
<1>6. OwnOK(x) /\ x \in StateSet
  BY <1>1, <1>4, <1>5, DisplacedOwn DEF Ready
<1>7. QED
  BY <1>5, <1>6, EndOwn

(* What is told is so of a state that has less of the queue, in its order. *)
Alike(u, t) ==
  /\ u.pub = t.pub /\ u.foreign = t.foreign /\ u.own = t.own /\ u.line = t.line
  /\ u.prev = t.prev /\ u.probe = t.probe /\ u.tip = t.tip
  /\ Judging(u, t) /\ (t.merge.phase = "sent" => u.merge.landed = t.merge.landed)

LEMMA PartTold ==
  ASSUME NEW t, NEW c, AllTold(t, c), NEW u, Alike(u, t), NEW K, PartAt(u.queue, t.queue, K),
         NEW S, u.queue \in Seq(S), NEW T, t.queue \in Seq(T)
  PROVE  AllTold(u, c)
<1>1. PICK e : Places(e, u.queue, t.queue, K)
  BY DEF PartAt
<1>2. /\ K \subseteq DOMAIN t.queue /\ e \in [DOMAIN u.queue -> K]
      /\ \A i, j \in DOMAIN u.queue : i < j => e[i] < e[j]
      /\ \A j \in DOMAIN u.queue : e[j] \in DOMAIN t.queue /\ Same(u.queue[j], t.queue[e[j]])
  BY <1>1 DEF Places
<1>3. OwnOK(u)
  <2>1. OwnOK(t)
    BY DEF AllTold
  <2>2. ASSUME NEW j \in DOMAIN u.queue, u.queue[j].round = 0
        PROVE  Own(u.queue[j])
    <3>1. e[j] \in DOMAIN t.queue /\ Same(u.queue[j], t.queue[e[j]])
      BY <1>2
    <3>2. Own(t.queue[e[j]])
      BY <2>1, <2>2, <3>1 DEF OwnOK, Same
    <3>3. QED
      BY <3>1, <3>2 DEF Own, Same
  <2>3. u.tip = t.tip /\ u.merge.writes = t.merge.writes /\ u.probe = t.probe
    BY DEF Alike, Judging
  <2>4. QED
    BY <2>1, <2>2, <2>3 DEF OwnOK
<1>4. t.foreign = 0 => AloneOK(u, c)
  BY DEF AllTold, AloneOK, Alike, Judging, Stands
<1>5. ASSUME t.foreign <= 1
      PROVE  TellOK(u, c)
  <2>1. TellOK(t, c)
    BY <1>5 DEF AllTold
  <2>2. ASSUME t.merge.phase = "sent"
        PROVE  SentOK(u, c)
    <3>1. SentOK(t, c)
      BY <2>1, <2>2 DEF TellOK
    <3>2. Lined(u.queue)
      BY <1>2, <3>1 DEF SentOK, Lined, Same
    <3>3. LeavesOK(u.merge)
      BY <3>1 DEF SentOK, LeavesOK, Alike, Judging, Keeps
    <3>4. ASSUME NEW i \in DOMAIN u.queue, u.queue[i].round > 0
          PROVE  Kept(u, u.queue[i]) /\ Open(u, c, u.queue[i])
      <4>1. PICK x \in DOMAIN t.queue : Same(u.queue[i], t.queue[x])
        BY <1>2
      <4> DEFINE y == t.queue[x]
                 z == u.queue[i]
      <4>2. Kept(t, y) /\ Open(t, c, y) /\ z.n = y.n /\ z.index = y.index /\ z.sets = y.sets
        BY <3>1, <3>4, <4>1 DEF SentOK, Same
      <4> HIDE DEF y, z
      <4>3. Kept(t, z) /\ Open(t, c, z)
        BY <4>2 DEF Kept, Open
      <4>a. /\ u.merge.writes = t.merge.writes /\ u.merge.theirs = t.merge.theirs
            /\ u.merge.landed = t.merge.landed
        BY <2>2 DEF Alike, Judging
      <4>4. Kept(u, z) /\ Open(u, c, z)
        BY <4>a, <4>3 DEF Kept, Open, Keeps
      <4>5. QED
        BY <4>4 DEF z
    <3>5. \A k \in Keys : OneWay(k) => Restored(u, c, k)
      BY <2>2, <3>1 DEF SentOK, Restored, Alike, Judging, Keeps
    <3>6. QED
      BY <3>2, <3>3, <3>4, <3>5 DEF SentOK
  <2>3. DeltaOK(t, c) => DeltaOK(u, c)
    BY DEF DeltaOK, Alike, Judging
  <2>4. QED
    BY <2>1, <2>2, <2>3 DEF TellOK, Alike, Judging, Stands, Asked
<1>6. QED
  BY <1>3, <1>4, <1>5 DEF AllTold, Alike

LEMMA SameTold ==
  ASSUME NEW t, NEW c, AllTold(t, c), NEW u, Alike(u, t), u.queue = t.queue, t.queue \in Seq(EntrySet)
  PROVE  AllTold(u, c)
<1>1. PartAt(u.queue, t.queue, DOMAIN t.queue)
  BY AllPart DEF Same
<1>2. QED
  BY <1>1, PartTold

(* A call that published nothing, under a head it knew. *)
LEMMA QuietTold ==
  ASSUME NEW t, NEW e, Ends(t, <<>>, e), NEW c \in [Keys -> 0..t.made], AllTold(t, c), t.pub = t.seen,
         t.probe.pending \cup t.probe.superseded \subseteq Written(t.probe.writes),
         NEW w \in {t, CloseCut(t)}, EndCall(SameIdentity(w, <<>>, e), c)
  PROVE  ToldInv'
<1>1. PICK v, b : /\ Ready(v) /\ Beheld(v, t) /\ Judging(v, t) /\ v.tip = t.tip
                  /\ t.merge.phase = "sent" => v.merge.landed = t.merge.landed \cup Mine(t, <<>>)
                  /\ b = v /\ SameIdentity(w, <<>>, e) = Displaced(b, <<>> # <<>>)
  BY StagesIs
<1>2. Mine(t, <<>>) = {}
  BY MineNone
<1>3. Alike(v, t) /\ v.queue = t.queue
  BY <1>1, <1>2 DEF Alike, Beheld
<1>4. SameIdentity(w, <<>>, e) = v
  BY <1>1 DEF Displaced, Beheld
<1>5. t.queue \in Seq(EntrySet) /\ v \in StateSet
  BY <1>1 DEF Ends, Ready, StateSet
<1>6. AllTold(v, c)
  BY <1>3, <1>5, SameTold
<1>7. v.made = t.made /\ v.probe = t.probe
  BY <1>1 DEF Beheld
<1>8. EndCall(v, c)
  BY <1>4
<1>9. QED
  BY <1>5, <1>6, <1>7, <1>8, EndTold

LEMMA BesideTold ==
  ASSUME MergeInv, OrderInv, ToldInv, NEW u, Beside(u, s), u.queue \in Seq(EntrySet), NEW K, PartAt(u.queue, s.queue, K)
  PROVE  /\ AllTold(u, claim) /\ claim \in [Keys -> 0..u.made] /\ u.pub = u.seen
         /\ u.probe.pending \cup u.probe.superseded \subseteq Written(u.probe.writes)
<1>1. s.queue \in Seq(EntrySet) /\ s.seen = s.pub
  BY StateIs
<1>2. TurnOK(s, claim)
  BY DEF OrderInv, OrderOK
<1>3. Alike(u, s)
  BY DEF Beside, Alike, Judging
<1>4. AllTold(u, claim)
  BY <1>1, <1>3, PartTold DEF ToldInv
<1>5. QED
  BY <1>1, <1>2, <1>4 DEF TurnOK, Beside

LEMMA QuitsTold ==
  ASSUME MergeInv, OrderInv, ToldInv, NEW u, NEW done, Quits(u, done)
  PROVE  ToldInv'
<1> DEFINE z == <<>>
<1>c. z = <<>>
  OBVIOUS
<1> HIDE DEF z
<1>1. PICK w \in {u, CloseCut(u)} : EndCall(SameIdentity(w, z, done), claim)
  BY <1>c DEF Quits
<1>2. Ends(u, z, done) /\ Beside(u, s) /\ u.queue \in Seq(EntrySet) /\ \E K : PartAt(u.queue, s.queue, K)
  BY <1>c DEF Quits
<1>3. /\ AllTold(u, claim) /\ claim \in [Keys -> 0..u.made] /\ u.pub = u.seen
      /\ u.probe.pending \cup u.probe.superseded \subseteq Written(u.probe.writes)
  BY <1>2, BesideTold
<1>4. QED
  BY <1>1, <1>2, <1>3, <1>c, QuietTold

LEMMA WarmsTold ==
  ASSUME MergeInv, OrderInv, ToldInv, NEW u, Warms(u)
  PROVE  ToldInv'
<1>1. /\ Ready(u) /\ Beside(u, s) /\ u.queue \in Seq(EntrySet)
      /\ PartAt(u.queue, s.queue, DOMAIN s.queue) /\ EndCall(u, claim)
  BY DEF Warms
<1>2. /\ AllTold(u, claim) /\ claim \in [Keys -> 0..u.made]
      /\ u.probe.pending \cup u.probe.superseded \subseteq Written(u.probe.writes)
  BY <1>1, BesideTold
<1>3. u \in StateSet
  BY <1>1 DEF Ready
<1>4. QED
  BY <1>1, <1>2, <1>3, EndTold

(* A client's write is taken, behind what is there. *)
LEMMA AcceptTold ==
  ASSUME MergeInv, ToldInv, Accept
  PROVE  ToldInv'
<1> DEFINE n == s.made + 1
           q == s.queue
           x == Queued(n)
           r == Append(q, x)
<1>1. s \in StateSet /\ q \in Seq(EntrySet) /\ s.made \in 0..Len(Writes)
  BY StateIs
<1>2. n \in DOMAIN Writes
  BY <1>1, MergeAssumption DEF Accept
<1>3. x.round = 0 /\ Own(x)
  BY <1>2 DEF Queued, Own
<1>4. /\ s'.queue = r /\ s'.pub = s.pub /\ s'.foreign = s.foreign /\ s'.own = s.own /\ s'.line = s.line
      /\ s'.prev = s.prev /\ s'.probe = s.probe /\ s'.tip = s.tip /\ s'.merge = s.merge /\ claim' = claim
  BY <1>1 DEF Accept, Queued, StateSet
<1>5. /\ DOMAIN r = 1..(Len(q) + 1) /\ DOMAIN q = 1..Len(q) /\ Len(q) \in Nat /\ r[Len(q) + 1] = x
      /\ \A i \in 1..Len(q) : r[i] = q[i]
  BY <1>1
<1> HIDE DEF x, n, r, q
<1>6. /\ \A i \in DOMAIN r : i \in Nat /\ ((r[i].round = 0 /\ Own(r[i])) \/ (i \in DOMAIN q /\ r[i] = q[i]))
      /\ \A i, j \in DOMAIN r : i < j /\ j \in DOMAIN q => i \in DOMAIN q
  <2>1. ASSUME NEW i \in DOMAIN r
        PROVE  i \in Nat /\ (r[i] = x \/ (i \in DOMAIN q /\ r[i] = q[i]))
    <3>1. i \in 1..(Len(q) + 1)
      BY <1>5
    <3>2. i \in 1..Len(q) \/ i = Len(q) + 1
      BY <1>5, <3>1
    <3>3. CASE i \in 1..Len(q)
      <4>1. r[i] = q[i]
        BY <1>5, <3>3
      <4>2. i \in DOMAIN q /\ i \in Nat
        BY <1>5, <3>3
      <4>3. QED
        BY <4>1, <4>2
    <3>4. CASE i = Len(q) + 1
      <4>1. r[i] = x
        BY <1>5, <3>4, Zenon
      <4>2. i \in Nat
        BY <1>5, <3>4
      <4>3. QED
        BY <4>1, <4>2
    <3>5. QED
      BY <3>2, <3>3, <3>4
  <2>2. \A i, j \in DOMAIN r : i < j /\ j \in DOMAIN q => i \in DOMAIN q
    BY <1>5
  <2>3. QED
    BY <1>3, <2>1, <2>2
<1>7. AllTold(s, claim)
  BY DEF ToldInv
<1>8. OwnOK(s')
  BY <1>4, <1>6, <1>7 DEF AllTold, OwnOK, q
<1>9. s.foreign = 0 => AloneOK(s', claim')
  BY <1>4, <1>7 DEF AllTold, AloneOK, Stands
<1>10. ASSUME s.foreign <= 1
       PROVE  TellOK(s', claim')
  <2>1. TellOK(s, claim)
    BY <1>7, <1>10 DEF AllTold
  <2>2. ASSUME SentOK(s, claim)
        PROVE  SentOK(s', claim')
    <3>1. \A i \in DOMAIN r : r[i].round # 0 => i \in DOMAIN q /\ r[i] = q[i]
      BY <1>6
    <3>2. Lined(r)
      <4> SUFFICES ASSUME NEW i \in DOMAIN r, NEW j \in DOMAIN r, i < j, r[j].round > 0
                   PROVE  r[i].index < r[j].index
        BY DEF Lined
      <4>1. j \in DOMAIN q /\ r[j] = q[j] /\ i \in DOMAIN q
        BY <1>3, <1>5, <1>6, <3>1
      <4>2. r[i] = q[i]
        BY <1>5, <4>1 DEF r
      <4>3. QED
        BY <2>2, <4>1, <4>2 DEF SentOK, Lined, q
    <3>3. \A i \in DOMAIN r : r[i].round > 0 => Kept(s, r[i]) /\ Open(s, claim, r[i])
      BY <2>2, <3>1 DEF SentOK, q
    <3>4. \A i \in DOMAIN r : r[i].round > 0 => Kept(s', r[i]) /\ Open(s', claim', r[i])
      BY <1>4, <3>3 DEF Kept, Open
    <3>5. \A k \in Keys : OneWay(k) => Restored(s', claim', k)
      BY <1>4, <2>2 DEF SentOK, Restored
    <3>6. QED
      BY <1>4, <2>2, <3>2, <3>4, <3>5 DEF SentOK
  <2>3. DeltaOK(s, claim) => DeltaOK(s', claim')
    BY <1>4 DEF DeltaOK
  <2>4. QED
    BY <1>4, <2>1, <2>2, <2>3 DEF TellOK, Stands, Asked
<1>11. QED
  BY <1>4, <1>8, <1>9, <1>10 DEF ToldInv, AllTold

(* What the writes that are Published are of the queue they were in. *)
LEMMA DoneIs ==
  ASSUME MergeInv, NEW u, NEW done, NEW r, Carries(u, done, r)
  PROVE  /\ r \in Nat /\ done \in Seq(EntrySet) /\ DOMAIN done = 1..r /\ DOMAIN s.queue = 1..Len(s.queue)
         /\ \A i \in 1..r : i \in DOMAIN s.queue /\ done[i] = s.queue[i]
         /\ \A i \in DOMAIN s.queue :
              /\ i \in Nat /\ s.queue[i] \in EntrySet /\ s.queue[i].n \in Nat /\ s.queue[i].round \in Nat
              /\ s.queue[i].index \in Nat /\ DOMAIN s.queue[i].sets \subseteq Keys
         /\ u.queue \in Seq(EntrySet)
         /\ \A i \in DOMAIN u.queue : i + r \in DOMAIN s.queue /\ i + r > r /\ u.queue[i] = s.queue[i + r]
<1>1. s.queue \in Seq(EntrySet) /\ DOMAIN s.queue = 1..Len(s.queue)
  BY StateIs
<1>2. /\ r \in 0..Len(s.queue) /\ done = SubSeq(s.queue, 1, r) /\ u.queue = SubSeq(s.queue, r + 1, Len(s.queue))
      /\ u.queue \in Seq(EntrySet) /\ done \in Seq(EntrySet)
  BY DEF Carries
<1>3. /\ DOMAIN done = 1..r /\ \A i \in 1..r : done[i] = s.queue[i]
      /\ DOMAIN u.queue = 1..(Len(s.queue) - r) /\ \A i \in 1..(Len(s.queue) - r) : u.queue[i] = s.queue[i + r]
  BY <1>1, <1>2, FrontBack
<1>4. \A i \in DOMAIN s.queue : s.queue[i] \in EntrySet /\ i \in Nat
  BY <1>1
<1>5. \A i \in DOMAIN s.queue :
        /\ s.queue[i].n \in Nat /\ s.queue[i].round \in Nat
        /\ s.queue[i].index \in Nat /\ DOMAIN s.queue[i].sets \subseteq Keys
  BY <1>4 DEF EntrySet, Edits
<1>6. r \in Nat /\ Len(s.queue) \in Nat /\ \A i \in 1..r : i \in DOMAIN s.queue
  BY <1>1, <1>2
<1>7. \A i \in DOMAIN u.queue : i + r \in DOMAIN s.queue /\ i + r > r
  BY <1>1, <1>3, <1>6
<1>8. QED
  BY <1>1, <1>2, <1>3, <1>4, <1>5, <1>6, <1>7

(* What a commit does to a key is what its last writer there did. *)
DoneLast(u, done, r, k, l) ==
  /\ l \in 1..r /\ l \in DOMAIN s.queue /\ k \in DOMAIN s.queue[l].sets
  /\ \A i \in 1..r : k \in DOMAIN s.queue[i].sets => i <= l
  /\ u.pub.tree[k] = s.queue[l].sets[k]

LEMMA DoneKey ==
  ASSUME MergeInv, NEW u, NEW done, NEW r, Carries(u, done, r), OrderInv, NEW k \in Keys
  PROVE  LET d == Claimed(claim, done)
         IN  /\ k \notin Written(done) => d[k] = claim[k] /\ u.pub.tree[k] = s.pub.tree[k]
             /\ k \in Written(done) => \E l : DoneLast(u, done, r, k, l)
             /\ \A i \in 1..r : k \in DOMAIN s.queue[i].sets => k \in Written(done) /\ s.queue[i].n <= d[k]
             /\ claim[k] <= d[k] /\ claim[k] \in Nat /\ d[k] \in Nat
             /\ d[k] = claim[k] \/ \E i \in 1..r : k \in DOMAIN s.queue[i].sets /\ d[k] = s.queue[i].n
             /\ d \in [Keys -> 0..s.made]
<1> DEFINE d == Claimed(claim, done)
<1>1. /\ r \in Nat /\ done \in Seq(EntrySet) /\ DOMAIN done = 1..r
      /\ \A i \in 1..r : i \in DOMAIN s.queue /\ done[i] = s.queue[i]
  BY DoneIs
<1>2. u.pub.tree = PutAll(s.pub.tree, done)
  BY DEF Carries
<1>3. claim \in [Keys -> 0..s.made] /\ s.made \in Nat
  BY StateIs, MergeAssumption DEF OrderInv, OrderOK, TurnOK
<1>4. \A i \in DOMAIN done : done[i].n <= s.made
  <2> SUFFICES ASSUME NEW i \in 1..r PROVE s.queue[i].n <= s.made
    BY <1>1
  <2>1. s.queue[i].round = 0 => s.queue[i].n <= s.made
    BY <1>1, StateIs DEF Ready, QueueOK
  <2>2. s.queue[i].round > 0 => s.queue[i].n <= s.made
    BY <1>1 DEF OrderInv, OrderOK, RegroupOK, TurnOK, Ahead, Entered
  <2>3. s.queue[i].round \in Nat
    BY <1>1, DoneIs
  <2>4. QED
    BY <2>1, <2>2, <2>3
<1>5. /\ d \in [Keys -> 0..s.made]
      /\ d[k] = claim[k] \/ \E i \in DOMAIN done : k \in DOMAIN done[i].sets /\ d[k] = done[i].n
      /\ claim[k] <= d[k] /\ \A i \in DOMAIN done : k \in DOMAIN done[i].sets => done[i].n <= d[k]
  BY <1>1, <1>3, <1>4, ClaimedIs
<1> HIDE DEF d
<1>6. k \notin Written(done) => d[k] = claim[k] /\ u.pub.tree[k] = s.pub.tree[k]
  BY <1>2, <1>5, WrittenIs DEF PutAll
<1>7. ASSUME k \in Written(done)
      PROVE  \E l : DoneLast(u, done, r, k, l)
  <2> DEFINE l == LastWriter(done, k)
  <2>1. l \in 1..r /\ k \in DOMAIN done[l].sets /\ \A j \in 1..r : k \in DOMAIN done[j].sets => j <= l
    BY <1>1, <1>7, LastIs
  <2>2. u.pub.tree[k] = done[l].sets[k]
    BY <1>2, <1>7 DEF PutAll, LeftAt
  <2> HIDE DEF l
  <2>3. DoneLast(u, done, r, k, l)
    BY <1>1, <2>1, <2>2 DEF DoneLast
  <2>4. QED
    BY <2>3
<1>8. \A i \in 1..r : k \in DOMAIN s.queue[i].sets => k \in Written(done) /\ s.queue[i].n <= d[k]
  BY <1>1, <1>5, WrittenIs
<1>9. claim[k] \in Nat /\ d[k] \in Nat
  BY <1>3, <1>5
<1>10. d[k] = claim[k] \/ \E i \in 1..r : k \in DOMAIN s.queue[i].sets /\ d[k] = s.queue[i].n
  BY <1>1, <1>5
<1>11. QED
  BY <1>5, <1>6, <1>7, <1>8, <1>9, <1>10 DEF d

(* A client's own write, last of the commit to write the key: it is what    *)
(* the key's client takes as published, and later than all that is judged.  *)
LEMMA DoneClient ==
  ASSUME MergeInv, OrderInv, ToldInv, NEW u, NEW done, NEW r, Carries(u, done, r), NEW k \in Keys,
         NEW l, DoneLast(u, done, r, k, l), s.queue[l].round = 0
  PROVE  LET d == Claimed(claim, done)
         IN  /\ d[k] = s.queue[l].n /\ u.pub.tree[k] = Value(d[k], k)
             /\ \A ws \in {s.merge.writes, s.probe.writes} : ~Lasts(ws, d, k)
<1> DEFINE d == Claimed(claim, done)
           e == s.queue[l]
<1>1. /\ l \in 1..r /\ l \in DOMAIN s.queue /\ k \in DOMAIN e.sets /\ u.pub.tree[k] = e.sets[k]
      /\ \A i \in 1..r : k \in DOMAIN s.queue[i].sets => i <= l
  BY DEF DoneLast
<1>2. /\ claim[k] <= d[k] /\ claim[k] \in Nat /\ d[k] \in Nat /\ e.n <= d[k]
      /\ d[k] = claim[k] \/ \E i \in 1..r : k \in DOMAIN s.queue[i].sets /\ d[k] = s.queue[i].n
  BY <1>1, DoneKey
<1>3. /\ r \in Nat /\ \A i \in 1..r : i \in DOMAIN s.queue
      /\ \A i \in DOMAIN s.queue : i \in Nat /\ s.queue[i].n \in Nat /\ s.queue[i].round \in Nat
  BY DoneIs
<1>4. /\ InTurn(s.queue) /\ Earlier(s.queue, claim[k])
      /\ Ahead(s, s.merge.writes) /\ Ahead(s, s.probe.writes)
      /\ \A i \in DOMAIN s.queue : s.queue[i].round > 0 => Entered(s, s.queue[i])
  BY DEF OrderInv, OrderOK, TurnOK, RegroupOK
<1>5. Own(e)
  BY <1>1 DEF ToldInv, AllTold, OwnOK
<1> HIDE DEF d
<1>6. claim[k] < e.n
  BY <1>1, <1>4 DEF Earlier
<1>7. ASSUME NEW i \in 1..r, k \in DOMAIN s.queue[i].sets
      PROVE  s.queue[i].n <= e.n
  <2>1. i <= l /\ i \in DOMAIN s.queue /\ i \in Nat /\ l \in Nat
    BY <1>1, <1>3, <1>7
  <2>2. CASE i = l
    BY <1>1, <1>3, <2>2
  <2>3. CASE i # l /\ s.queue[i].round = 0
    BY <1>1, <1>3, <1>4, <2>1, <2>3 DEF InTurn
  <2>4. CASE s.queue[i].round > 0
    BY <1>1, <1>3, <1>4, <2>1, <2>4 DEF Ahead, Earlier, Entered
  <2>5. QED
    BY <1>3, <2>1, <2>2, <2>3, <2>4
<1>8. d[k] = e.n
  BY <1>1, <1>2, <1>3, <1>6, <1>7
<1>9. u.pub.tree[k] = Value(d[k], k)
  BY <1>1, <1>5, <1>8 DEF Own, Value
<1>10. ASSUME NEW ws \in {s.merge.writes, s.probe.writes}, Lasts(ws, d, k)
       PROVE  FALSE
  <2>1. ws \in Seq(KeptSet)
    BY StateIs DEF StateSet, MergeSet, ProbeSet
  <2>2. LastWriter(ws, k) \in DOMAIN ws /\ d[k] = ws[LastWriter(ws, k)].n
    BY <1>10, <2>1, LastIn DEF Lasts
  <2>3. Ahead(s, ws)
    BY <1>4, <1>10
  <2>4. d[k] < e.n
    BY <1>1, <2>2, <2>3 DEF Ahead, Earlier
  <2>5. QED
    BY <1>2, <1>8, <2>4
<1>11. QED
  BY <1>8, <1>9, <1>10 DEF d

(* A write that lands again is one of the merge's. *)
LEMMA AgainIn ==
  ASSUME MergeInv, ToldInv, OrderInv, s.foreign <= 1, NEW i \in DOMAIN s.queue, s.queue[i].round > 0
  PROVE  LET e  == s.queue[i]
             ws == s.merge.writes
         IN  /\ s.merge.phase = "sent" /\ SentOK(s, claim) /\ Rising(ws) /\ AllOwn(ws) /\ ws \in Seq(KeptSet)
             /\ Kept(s, e) /\ Open(s, claim, e) /\ e.round = s.rounds
             /\ e.index \in DOMAIN ws /\ e.n = ws[e.index].n /\ Own(ws[e.index])
             /\ \A k \in DOMAIN e.sets : k \in DOMAIN ws[e.index].sets /\ e.sets[k] = ws[e.index].sets[k]
<1>1. s.merge.phase = "sent" /\ s.queue[i].round = s.rounds
  BY StateIs DEF Ready, EntriesOK, Remerged
<1>2. TellOK(s, claim) /\ OwnOK(s)
  BY DEF ToldInv, AllTold
<1>3. s.merge.writes \in Seq(KeptSet)
  BY StateIs DEF MergeSet
<1>4. SentOK(s, claim) /\ Rising(s.merge.writes) /\ AllOwn(s.merge.writes)
  BY <1>1, <1>2 DEF TellOK, OwnOK
<1>5. Kept(s, s.queue[i]) /\ Open(s, claim, s.queue[i])
  BY <1>4 DEF SentOK
<1>6. QED
  BY <1>1, <1>3, <1>4, <1>5 DEF Kept, Keeps, AllOwn

LEMMA DoneAgain ==
  ASSUME MergeInv, OrderInv, ToldInv, s.foreign <= 1, NEW u, NEW done, NEW r, Publishes(u, done, r), NEW k \in Keys,
         NEW l, DoneLast(u, done, r, k, l), s.queue[l].round > 0
  PROVE  LET d  == Claimed(claim, done)
             e  == s.queue[l]
             ws == s.merge.writes
         IN  \/ Lasts(ws, claim, k) /\ Lasts(ws, d, k)
             \/ d[k] = e.n /\ u.pub.tree[k] = Value(d[k], k)
<1> DEFINE d == Claimed(claim, done)
           e == s.queue[l]
           ws == s.merge.writes
<1>p. Carries(u, done, r)
  BY DEF Publishes
<1>1. /\ l \in 1..r /\ l \in DOMAIN s.queue /\ k \in DOMAIN e.sets /\ u.pub.tree[k] = e.sets[k]
      /\ \A i \in 1..r : k \in DOMAIN s.queue[i].sets => i <= l
  BY DEF DoneLast
<1>2. /\ claim[k] <= d[k] /\ claim[k] \in Nat /\ d[k] \in Nat /\ e.n <= d[k]
      /\ d[k] = claim[k] \/ \E i \in 1..r : k \in DOMAIN s.queue[i].sets /\ d[k] = s.queue[i].n
  BY <1>1, <1>p, DoneKey
<1>3. /\ r \in Nat /\ \A i \in 1..r : i \in DOMAIN s.queue
      /\ \A i \in DOMAIN s.queue : i \in Nat /\ s.queue[i].n \in Nat /\ s.queue[i].round \in Nat
  BY <1>p, DoneIs
<1>4. /\ SentOK(s, claim) /\ Rising(ws) /\ Open(s, claim, e) /\ ws \in Seq(KeptSet)
      /\ e.index \in DOMAIN ws /\ e.n = ws[e.index].n /\ Own(ws[e.index])
      /\ k \in DOMAIN ws[e.index].sets /\ e.sets[k] = ws[e.index].sets[k]
  BY <1>1, AgainIn
<1>e. e.index \in DOMAIN ws /\ e.n = ws[e.index].n /\ ws \in Seq(KeptSet) /\ Rising(ws)
  BY <1>4
<1>5. \A i \in DOMAIN ws : i \in Nat /\ ws[i].n \in Nat
  <2>1. \A i \in DOMAIN ws : ws[i] \in KeptSet /\ i \in Nat
    BY <1>e
  <2>2. QED
    BY <2>1 DEF KeptSet
<1> HIDE DEF d
<1>6. ASSUME NEW i \in 1..r, k \in DOMAIN s.queue[i].sets
      PROVE  s.queue[i].n <= e.n
  <2>1. i <= l /\ i \in DOMAIN s.queue /\ i \in Nat /\ l \in Nat
    BY <1>1, <1>3, <1>6
  <2>2. CASE i = l
    BY <1>1, <1>3, <2>2
  <2>3. CASE i < l
    <3>1. MergesFirst(s.queue)
      BY StateIs DEF Ready, EntriesOK
    <3>2. s.queue[i].round > 0
      BY <1>1, <2>1, <2>3, <3>1 DEF MergesFirst
    <3>3. s.queue[i].index \in DOMAIN ws /\ s.queue[i].n = ws[s.queue[i].index].n
      BY <2>1, <3>2, AgainIn
    <3>4. s.queue[i].index < e.index
      BY <1>1, <1>4, <2>1, <2>3 DEF SentOK, Lined
    <3>5. ws[s.queue[i].index].n < ws[e.index].n
      BY <1>4, <3>3, <3>4 DEF Rising
    <3>6. s.queue[i].n < e.n
      BY <1>4, <3>3, <3>5, Zenon
    <3>7. s.queue[i].n \in Nat /\ e.n \in Nat
      BY <1>1, <1>3, <2>1
    <3>8. QED
      BY <3>6, <3>7
  <2>4. QED
    BY <2>1, <2>2, <2>3
<1>7. claim[k] < e.n \/ Lasts(ws, claim, k)
  BY <1>1, <1>4 DEF Open
<1>8. CASE Lasts(ws, claim, k)
  <2> DEFINE m == LastWriter(ws, k)
  <2>1. k \in Written(ws) /\ claim[k] = ws[m].n /\ m \in DOMAIN ws /\ e.index <= m
    BY <1>4, <1>8, LastIn DEF Lasts
  <2> HIDE DEF m
  <2>2. e.n <= claim[k]
    <3>1. CASE e.index = m
      BY <1>2, <1>4, <2>1, <3>1
    <3>2. CASE e.index # m
      <4>a. e.index \in Nat /\ m \in Nat /\ ws[e.index].n \in Nat /\ ws[m].n \in Nat
        BY <1>e, <1>5, <2>1
      <4>1. e.index < m
        BY <2>1, <3>2, <4>a
      <4>2. ws[e.index].n < ws[m].n
        BY <1>e, <2>1, <4>1 DEF Rising
      <4>3. ws[e.index].n <= ws[m].n
        BY <4>2, <4>a
      <4>4. QED
        BY <1>e, <2>1, <4>3, Zenon
    <3>3. QED
      BY <3>1, <3>2
  <2>3. d[k] = claim[k]
    <3>1. \A i \in 1..r : k \in DOMAIN s.queue[i].sets => s.queue[i].n <= claim[k]
      BY <1>1, <1>2, <1>3, <1>6, <2>2
    <3>2. QED
      BY <1>2, <1>3, <3>1
  <2>4. QED
    BY <1>8, <2>3 DEF Lasts, d
<1>9. CASE claim[k] < e.n
  <2>1. d[k] = e.n
    BY <1>1, <1>2, <1>3, <1>6, <1>9
  <2>2. u.pub.tree[k] = Value(d[k], k)
    BY <1>1, <1>4, <2>1 DEF Own, Value
  <2>3. QED
    BY <2>1, <2>2 DEF d
<1>10. QED
  BY <1>7, <1>8, <1>9

(* What a commit of the page's leaves of a key: it stands, or what was      *)
(* being read or judged there still is.                                     *)
LEMMA PublishKey ==
  ASSUME MergeInv, OrderInv, ToldInv, s.foreign <= 1, NEW u, NEW done, NEW r, Publishes(u, done, r), NEW k \in Keys
  PROVE  LET d  == Claimed(claim, done)
             ws == s.merge.writes
         IN  /\ k \notin Written(done) => d[k] = claim[k] /\ u.pub.tree[k] = s.pub.tree[k]
             /\ k \in Written(done) =>
                  \/ Stands(u, d, k)
                  \/ s.merge.phase = "sent" /\ Lasts(ws, d, k) /\ Lasts(ws, claim, k)
<1> DEFINE d  == Claimed(claim, done)
           ws == s.merge.writes
<1>p. Carries(u, done, r)
  BY DEF Publishes
<1>1. ASSUME k \in Written(done)
      PROVE  Stands(u, d, k) \/ (s.merge.phase = "sent" /\ Lasts(ws, d, k) /\ Lasts(ws, claim, k))
  <2>1. PICK l : DoneLast(u, done, r, k, l)
    BY <1>1, <1>p, DoneKey
  <2>2. l \in DOMAIN s.queue /\ s.queue[l].round \in Nat
    BY <2>1, <1>p, DoneIs DEF DoneLast
  <2>3. CASE s.queue[l].round = 0
    <3>1. u.pub.tree[k] = Value(d[k], k)
      BY <2>1, <2>3, <1>p, DoneClient
    <3>2. QED
      BY <3>1 DEF Stands
  <2>4. CASE s.queue[l].round > 0
    <3>1. s.merge.phase = "sent"
      BY <2>2, <2>4, AgainIn
    <3>2. (Lasts(ws, claim, k) /\ Lasts(ws, d, k)) \/ u.pub.tree[k] = Value(d[k], k)
      BY <2>1, <2>4, DoneAgain
    <3>3. QED
      BY <3>1, <3>2 DEF Stands
  <2>5. QED
    BY <2>2, <2>3, <2>4
<1>2. QED
  BY <1>1, <1>p, DoneKey

(* The entries that are left come after those that landed. *)
LEMMA PublishLeaves ==
  ASSUME MergeInv, OrderInv, ToldInv, s.foreign <= 1, NEW u, NEW done, NEW r, Publishes(u, done, r),
         NEW i \in DOMAIN u.queue, u.queue[i].round > 0
  PROVE  LET e  == u.queue[i]
             d  == Claimed(claim, done)
             ws == s.merge.writes
         IN  /\ Kept(s, e) /\ \A x \in Mine(u, done) : x < e.index
             /\ \A k \in DOMAIN e.sets : d[k] < e.n \/ Lasts(ws, d, k)
<1> DEFINE e  == s.queue[i + r]
           d  == Claimed(claim, done)
           ws == s.merge.writes
<1>p. Carries(u, done, r)
  BY DEF Publishes
<1>1. /\ i + r \in DOMAIN s.queue /\ i + r > r /\ u.queue[i] = e
      /\ r \in Nat /\ DOMAIN done = 1..r /\ \A x \in 1..r : x \in DOMAIN s.queue /\ done[x] = s.queue[x]
      /\ \A x \in DOMAIN s.queue : x \in Nat /\ s.queue[x].n \in Nat /\ s.queue[x].round \in Nat
      /\ e.sets = u.queue[i].sets /\ DOMAIN e.sets \subseteq Keys
  BY <1>p, DoneIs
<1>2. e.round > 0
  BY <1>1
<1>3. /\ SentOK(s, claim) /\ Rising(ws) /\ Kept(s, e) /\ Open(s, claim, e) /\ ws \in Seq(KeptSet)
      /\ e.index \in DOMAIN ws /\ e.n = ws[e.index].n
  BY <1>1, <1>2, AgainIn
<1>4. ASSUME NEW x \in 1..r
      PROVE  s.queue[x].index < e.index /\ s.queue[x].n < e.n /\ x \in DOMAIN s.queue
  <2>1. x \in DOMAIN s.queue /\ x < i + r
    BY <1>1
  <2>2. MergesFirst(s.queue) /\ Lined(s.queue)
    BY <1>3, StateIs DEF Ready, EntriesOK, SentOK
  <2>3. s.queue[x].round > 0
    BY <1>1, <1>2, <2>1, <2>2 DEF MergesFirst
  <2>4. s.queue[x].index < e.index
    BY <1>1, <1>2, <2>1, <2>2 DEF Lined
  <2>5. s.queue[x].index \in DOMAIN ws /\ s.queue[x].n = ws[s.queue[x].index].n
    BY <2>1, <2>3, AgainIn
  <2>6. ws[s.queue[x].index].n < ws[e.index].n
    BY <1>3, <2>4, <2>5 DEF Rising
  <2>7. s.queue[x].n < e.n
    BY <1>3, <2>5, <2>6, Zenon
  <2>8. QED
    BY <2>1, <2>4, <2>7
<1>5. \A x \in Mine(u, done) : x < e.index
  <2>1. \A j \in DOMAIN done : done[j].index < e.index
    BY <1>1, <1>4
  <2>2. QED
    BY <2>1 DEF Mine
<1>6. ASSUME NEW k \in DOMAIN e.sets
      PROVE  d[k] < e.n \/ Lasts(ws, d, k)
  <2>1. k \in Keys
    BY <1>1
  <2>2. d[k] = claim[k] \/ \E x \in 1..r : k \in DOMAIN s.queue[x].sets /\ d[k] = s.queue[x].n
    BY <2>1, <1>p, DoneKey
  <2>3. claim[k] < e.n \/ Lasts(ws, claim, k)
    BY <1>3 DEF Open
  <2>4. \A x \in 1..r : s.queue[x].n < e.n
    BY <1>4
  <2>5. CASE d[k] = claim[k]
    BY <2>3, <2>5 DEF Lasts
  <2>6. CASE d[k] # claim[k]
    BY <2>2, <2>4, <2>6
  <2>7. QED
    BY <2>5, <2>6
<1>7. QED
  BY <1>1, <1>3, <1>5, <1>6

(* A key the merge's last writer left, landed again or left to the winner. *)
LEMMA PublishRestores ==
  ASSUME MergeInv, OrderInv, ToldInv, s.foreign <= 1, NEW u, NEW done, NEW r, Publishes(u, done, r),
         s.merge.phase = "sent", NEW k \in Keys, OneWay(k), Lasts(s.merge.writes, Claimed(claim, done), k)
  PROVE  LET m == s.merge
             l == LastWriter(m.writes, k)
         IN  /\ k \notin Keeps(m, l) => u.pub.tree[k] = m.theirs[k]
             /\ k \in Keeps(m, l) /\ l \in m.landed \cup Mine(u, done) => u.pub.tree[k] = LeftAt(m.writes, k)
<1> DEFINE m  == s.merge
           ws == s.merge.writes
           d  == Claimed(claim, done)
           l  == LastWriter(ws, k)
<1>p. Carries(u, done, r)
  BY DEF Publishes
<1>1. /\ r \in Nat /\ DOMAIN done = 1..r /\ \A x \in 1..r : x \in DOMAIN s.queue /\ done[x] = s.queue[x]
      /\ \A x \in DOMAIN s.queue : x \in Nat /\ s.queue[x].n \in Nat /\ s.queue[x].round \in Nat /\ s.queue[x].index \in Nat
  BY <1>p, DoneIs
<1>2. TellOK(s, claim) /\ OwnOK(s)
  BY DEF ToldInv, AllTold
<1>3. SentOK(s, claim) /\ AllOwn(ws) /\ Rising(ws)
  BY <1>2 DEF TellOK, OwnOK
<1>4. ws \in Seq(KeptSet)
  BY StateIs DEF MergeSet
<1>5. /\ l \in DOMAIN ws /\ k \in DOMAIN ws[l].sets /\ l \in Nat
      /\ \A j \in DOMAIN ws : k \in DOMAIN ws[j].sets => j <= l
  BY <1>4, LastIn DEF Lasts
<1>6. \A x \in Mine(u, done) : \E j \in 1..r : done[j].index = x /\ done[j].round > 0
  BY <1>1 DEF Mine
<1>7. CASE k \notin Written(done)
  <2>1. d[k] = claim[k] /\ u.pub.tree[k] = s.pub.tree[k]
    BY <1>7, PublishKey
  <2>2. Restored(s, claim, k) /\ Lasts(ws, claim, k)
    BY <1>3, <2>1 DEF SentOK, Lasts
  <2>3. ASSUME k \in Keeps(m, l), l \in Mine(u, done)
        PROVE  FALSE
    <3>1. PICK j \in 1..r : done[j].index = l /\ done[j].round > 0
      BY <1>6, <2>3
    <3>2. j \in DOMAIN s.queue /\ s.queue[j].round > 0 /\ s.queue[j].index = l
      BY <1>1, <3>1
    <3>3. Kept(s, s.queue[j])
      BY <3>2, AgainIn
    <3>4. k \in DOMAIN s.queue[j].sets
      BY <2>3, <3>2, <3>3 DEF Kept
    <3>5. QED
      BY <1>7, <3>4, <1>p, DoneKey
  <2>4. QED
    BY <2>1, <2>2, <2>3 DEF Restored
<1>8. CASE k \in Written(done)
  <2>1. PICK x : DoneLast(u, done, r, k, x)
    BY <1>8, <1>p, DoneKey
  <2> DEFINE e == s.queue[x]
  <2>2. /\ x \in 1..r /\ x \in DOMAIN s.queue /\ k \in DOMAIN e.sets /\ u.pub.tree[k] = e.sets[k]
        /\ \A i \in 1..r : k \in DOMAIN s.queue[i].sets => i <= x
    BY <2>1 DEF DoneLast
  <2>3. e.round > 0
    <3>1. CASE e.round = 0
      BY <2>1, <3>1, <1>p, DoneClient
    <3>2. QED
      BY <1>1, <2>2, <3>1
  <2>4. /\ Kept(s, e) /\ e.index \in DOMAIN ws /\ k \in DOMAIN ws[e.index].sets /\ e.sets[k] = ws[e.index].sets[k]
    BY <2>2, <2>3, AgainIn
  <2>5. k \in Keeps(m, e.index) /\ e.index <= l
    BY <1>5, <2>2, <2>4 DEF Kept
  <2>6. k \in Keeps(m, l)
    <3>1. Forced(ws[l], k) <=> Forced(ws[e.index], k)
      <4>1. Own(ws[l]) /\ Own(ws[e.index])
        BY <1>3, <1>5, <2>4 DEF AllOwn
      <4>2. ws[l].n \in Setters(k) /\ ws[e.index].n \in Setters(k)
        BY <1>5, <2>4, <4>1 DEF Own, Setters
      <4>3. Forced(Writes[ws[l].n], k) <=> Forced(Writes[ws[e.index].n], k)
        BY <4>2 DEF OneWay
      <4>4. QED
        BY <4>1, <4>3 DEF Own, Forced
    <3>2. QED
      BY <1>5, <2>5, <3>1 DEF Keeps
  <2>7. ASSUME l \in m.landed
        PROVE  FALSE
    <3>1. l < e.index \/ Keeps(m, l) = {}
      BY <2>4, <2>7 DEF Kept
    <3>2. e.index \in Nat
      BY <1>1, <2>2
    <3>3. QED
      BY <1>5, <2>5, <2>6, <3>1, <3>2
  <2>8. ASSUME l \in Mine(u, done)
        PROVE  u.pub.tree[k] = LeftAt(ws, k)
    <3>1. PICK j \in 1..r : done[j].index = l /\ done[j].round > 0
      BY <1>6, <2>8
    <3>2. j \in DOMAIN s.queue /\ s.queue[j].round > 0 /\ s.queue[j].index = l
      BY <1>1, <3>1
    <3>3. Kept(s, s.queue[j])
      BY <3>2, AgainIn
    <3>4. k \in DOMAIN s.queue[j].sets
      BY <2>6, <3>2, <3>3 DEF Kept
    <3>5. j <= x
      BY <2>2, <3>4
    <3>6. j < x => l < e.index
      BY <1>3, <2>2, <2>3, <3>2 DEF SentOK, Lined
    <3>7. j = x
      <4>1. j \in Nat /\ x \in Nat /\ e.index \in Nat
        BY <1>1, <2>2, <3>2
      <4>2. QED
        BY <1>5, <2>5, <3>5, <3>6, <4>1
    <3>8. QED
      BY <2>2, <2>4, <3>2, <3>7 DEF LeftAt
  <2>9. QED
    BY <2>6, <2>7, <2>8
<1>9. QED
  BY <1>7, <1>8

LEMMA PublishTells ==
  ASSUME MergeInv, OrderInv, ToldInv, s.foreign <= 1, NEW u, NEW done, NEW r, Publishes(u, done, r),
         NEW b, Beheld(b, u), Judging(b, u),
         u.merge.phase = "sent" => b.merge.landed = u.merge.landed \cup Mine(u, done)
  PROVE  TellOK(b, Claimed(claim, done))
<1> DEFINE d  == Claimed(claim, done)
           ws == s.merge.writes
<1>p. Carries(u, done, r)
  BY DEF Publishes
<1>1. /\ u.merge = s.merge /\ u.probe = s.probe /\ s.merge.phase # "delta"
  BY DEF Publishes, Carries
<1>2. /\ b.pub = u.pub /\ b.queue = u.queue /\ b.probe = s.probe
      /\ b.merge.phase = s.merge.phase /\ b.merge.writes = ws /\ b.merge.theirs = s.merge.theirs
      /\ b.merge.dropped = s.merge.dropped
  BY <1>1 DEF Beheld, Judging
<1>3. TellOK(s, claim)
  BY DEF ToldInv, AllTold
<1>4. ASSUME s.merge.phase = "sent"
      PROVE  SentOK(b, d)
  <2>1. SentOK(s, claim)
    BY <1>3, <1>4 DEF TellOK
  <2>2. b.merge.landed = s.merge.landed \cup Mine(u, done)
    BY <1>1, <1>4
  <2>3. Lined(b.queue)
    <3>1. \A i \in DOMAIN u.queue : i + r \in DOMAIN s.queue /\ u.queue[i] = s.queue[i + r] /\ i \in Nat /\ r \in Nat
      BY <1>p, DoneIs
    <3>2. QED
      BY <1>2, <2>1, <3>1 DEF SentOK, Lined
  <2>4. LeavesOK(b.merge)
    BY <1>2, <2>1 DEF SentOK, LeavesOK, Keeps
  <2>5. ASSUME NEW i \in DOMAIN b.queue, b.queue[i].round > 0
        PROVE  Kept(b, b.queue[i]) /\ Open(b, d, b.queue[i])
    <3> DEFINE e == b.queue[i]
    <3>1. /\ Kept(s, e) /\ \A x \in Mine(u, done) : x < e.index
          /\ \A k \in DOMAIN e.sets : d[k] < e.n \/ Lasts(ws, d, k)
      BY <1>2, <2>5, PublishLeaves
    <3> HIDE DEF e, d
    <3>2. Kept(b, e)
      BY <1>2, <2>2, <3>1 DEF Kept, Keeps
    <3>3. Open(b, d, e)
      BY <1>2, <3>1 DEF Open
    <3>4. QED
      BY <3>2, <3>3 DEF e
  <2>6. ASSUME NEW k \in Keys, OneWay(k)
        PROVE  Restored(b, d, k)
    <3>1. Lasts(ws, d, k) =>
            LET l == LastWriter(ws, k)
            IN  /\ k \notin Keeps(s.merge, l) => u.pub.tree[k] = s.merge.theirs[k]
                /\ k \in Keeps(s.merge, l) /\ l \in s.merge.landed \cup Mine(u, done) => u.pub.tree[k] = LeftAt(ws, k)
      BY <1>4, <2>6, PublishRestores
    <3> HIDE DEF d
    <3>2. QED
      BY <1>2, <2>2, <3>1 DEF Restored, Keeps
  <2>7. QED
    BY <2>3, <2>4, <2>5, <2>6 DEF SentOK
<1>5. ASSUME NEW k \in Keys, OneWay(k)
      PROVE  Stands(b, d, k) \/ Asked(b, d, k) \/ (s.merge.phase # "none" /\ Lasts(ws, d, k))
  <2>1. /\ k \notin Written(done) => d[k] = claim[k] /\ u.pub.tree[k] = s.pub.tree[k]
        /\ k \in Written(done) => Stands(u, d, k) \/ (s.merge.phase = "sent" /\ Lasts(ws, d, k) /\ Lasts(ws, claim, k))
    BY PublishKey
  <2> HIDE DEF d
  <2>2. Stands(u, d, k) => Stands(b, d, k)
    BY <1>2 DEF Stands
  <2>3. Stands(s, claim, k) \/ Asked(s, claim, k) \/ (s.merge.phase # "none" /\ Lasts(ws, claim, k))
    BY <1>3, <1>5 DEF TellOK
  <2>4. QED
    BY <1>2, <2>1, <2>2, <2>3 DEF Stands, Asked, Lasts
<1> HIDE DEF d
<1>6. Rising(b.merge.writes) /\ (b.merge.phase = "none" \/ b.probe.writes = <<>>)
  BY <1>2, <1>3 DEF TellOK
<1>7. QED
  BY <1>1, <1>2, <1>4, <1>5, <1>6 DEF TellOK, d

(* Before the other device published anything: the tip is the head's own    *)
(* writes, whether the commit joins it or begins the next.                  *)
LEMMA AloneDone ==
  ASSUME MergeInv, OrderInv, ToldInv, s.foreign = 0, NEW u, NEW done, NEW r, Carries(u, done, r)
  PROVE  /\ ClientsOf(done) = done /\ AloneOK(s, claim) /\ Rising(done)
         /\ \A i \in 1..r : s.queue[i].round = 0
         /\ \A k \in Keys : Stands(u, Claimed(claim, done), k)
         /\ \A k \in Written(done) : Lasts(done, Claimed(claim, done), k)
         /\ \A k \in Keys : k \notin Written(done) => Claimed(claim, done)[k] = claim[k]
<1> DEFINE d == Claimed(claim, done)
<1>1. /\ r \in Nat /\ done \in Seq(EntrySet) /\ DOMAIN done = 1..r
      /\ \A i \in 1..r : i \in DOMAIN s.queue /\ done[i] = s.queue[i]
      /\ \A i \in DOMAIN s.queue : s.queue[i].round \in Nat
  BY DoneIs
<1>2. AloneOK(s, claim)
  BY DEF ToldInv, AllTold
<1>3. \A i \in DOMAIN s.queue : s.queue[i].round = 0
  <2>1. \A i \in DOMAIN s.queue : ~(s.queue[i].round > 0)
    BY <1>2, StateIs DEF Ready, EntriesOK, Remerged, AloneOK
  <2>2. QED
    BY <1>1, <2>1
<1>4. ClientsOf(done) = done
  <2>1. {i \in DOMAIN done : done[i].round = 0} = 1..r
    BY <1>1, <1>3
  <2>2. r \in 0..Len(done) /\ r = Len(done)
    BY <1>1
  <2>3. Only(done, 1..r) = SubSeq(done, 1, r)
    BY <1>1, <2>2, FrontIs
  <2>4. SubSeq(done, 1, r) = done
    BY <1>1, <2>2
  <2>5. QED
    BY <2>1, <2>3, <2>4 DEF ClientsOf
<1>5. Rising(done)
  <2>1. InTurn(s.queue)
    BY DEF OrderInv, OrderOK, TurnOK
  <2>2. QED
    BY <1>1, <1>3, <2>1 DEF InTurn, Rising
<1>6. ASSUME NEW k \in Keys, k \in Written(done)
      PROVE  Stands(u, d, k) /\ Lasts(done, d, k)
  <2>1. PICK l : DoneLast(u, done, r, k, l)
    BY <1>6, DoneKey
  <2>2. d[k] = s.queue[l].n /\ u.pub.tree[k] = Value(d[k], k)
    BY <1>3, <2>1, DoneClient DEF DoneLast
  <2>3. LastWriter(done, k) = l
    <3>1. l \in 1..r /\ k \in DOMAIN done[l].sets /\ \A j \in 1..r : k \in DOMAIN done[j].sets => j <= l
      BY <1>1, <2>1 DEF DoneLast
    <3>2. r \in Nat /\ DOMAIN done = 1..r
      BY <1>1
    <3>3. QED
      BY <3>1, <3>2, LastOnly
  <2> HIDE DEF d
  <2>4. QED
    BY <1>1, <1>6, <2>1, <2>2, <2>3 DEF Stands, Lasts, DoneLast
<1>7. ASSUME NEW k \in Keys, k \notin Written(done)
      PROVE  Stands(u, d, k) /\ d[k] = claim[k]
  <2>1. d[k] = claim[k] /\ u.pub.tree[k] = s.pub.tree[k]
    BY <1>7, DoneKey
  <2>2. Stands(s, claim, k)
    BY <1>2 DEF AloneOK
  <2> HIDE DEF d
  <2>3. QED
    BY <2>1, <2>2 DEF Stands
<1>8. Written(done) \subseteq Keys
  BY <1>1 DEF Written, EntrySet, Edits
<1>9. QED
  BY <1>1, <1>2, <1>3, <1>4, <1>5, <1>6, <1>7, <1>8

LEMMA TipSame ==
  ASSUME NEW q \in Seq(EntrySet)
  PROVE  LET ws == [i \in DOMAIN q |-> TipWrite(q[i])]
         IN  /\ ws \in Seq(KeptSet) /\ Written(ws) = Written(q) /\ (Rising(q) => Rising(ws)) /\ Len(ws) = Len(q)
             /\ \A tree : PutAll(tree, ws) = PutAll(tree, q)
             /\ \A c, k : Lasts(q, c, k) => Lasts(ws, c, k)
<1> DEFINE ws == [i \in DOMAIN q |-> TipWrite(q[i])]
<1>1. DOMAIN q = 1..Len(q) /\ Len(q) \in Nat
  OBVIOUS
<1>2. DOMAIN ws = DOMAIN q /\ \A i \in DOMAIN q : ws[i].n = q[i].n /\ ws[i].sets = q[i].sets
  BY DEF TipWrite
<1>3. ws \in Seq(KeptSet)
  <2>1. \A i \in DOMAIN q : q[i] \in EntrySet
    OBVIOUS
  <2>2. \A i \in DOMAIN q : TipWrite(q[i]) \in KeptSet
    BY <2>1 DEF EntrySet, KeptSet, TipWrite
  <2>3. QED
    BY <1>1, <2>2
<1> HIDE DEF ws
<1>4. Written(ws) = Written(q) /\ (Rising(q) => Rising(ws))
  BY <1>2 DEF Written, Rising
<1>5. \A tree : PutAll(tree, ws) = PutAll(tree, q)
  BY <1>1, <1>2, SameSets
<1>6. ASSUME NEW c, NEW k, Lasts(q, c, k)
      PROVE  Lasts(ws, c, k)
  <2> DEFINE l == LastWriter(q, k)
  <2>1. l \in 1..Len(q) /\ k \in DOMAIN q[l].sets /\ \A j \in 1..Len(q) : k \in DOMAIN q[j].sets => j <= l
    BY <1>1, <1>6, LastIs DEF Lasts
  <2>2. c[k] = q[l].n
    BY <1>6 DEF Lasts
  <2> HIDE DEF l
  <2>3. /\ l \in 1..Len(q) /\ k \in DOMAIN ws[l].sets /\ \A j \in 1..Len(q) : k \in DOMAIN ws[j].sets => j <= l
        /\ DOMAIN ws = 1..Len(q) /\ Len(q) \in Nat
    BY <1>1, <1>2, <2>1
  <2>4. LastWriter(ws, k) = l /\ k \in Written(ws)
    BY <2>3, LastOnly
  <2>5. QED
    BY <1>1, <1>2, <2>1, <2>2, <2>4 DEF Lasts
<1>7. Len(ws) = Len(q)
  BY <1>1, <1>2, <1>3
<1>8. QED
  BY <1>3, <1>4, <1>5, <1>6, <1>7 DEF ws

LEMMA JoinLasts ==
  ASSUME NEW v \in Seq(KeptSet), NEW w \in Seq(KeptSet), NEW c, NEW k,
         \/ Lasts(w, c, k)
         \/ k \notin Written(w) /\ Lasts(v, c, k)
  PROVE  Lasts(v \o w, c, k)
<1> DEFINE z == v \o w
           a == Len(v)
<1>1. /\ DOMAIN z = 1..(a + Len(w)) /\ a \in Nat /\ Len(w) \in Nat /\ DOMAIN v = 1..a /\ DOMAIN w = 1..Len(w)
      /\ \A i \in 1..a : z[i] = v[i]
      /\ \A i \in 1..Len(w) : z[i + a] = w[i]
  OBVIOUS
<1>2. ASSUME NEW j \in 1..(a + Len(w))
      PROVE  j \in 1..a \/ (j - a \in 1..Len(w) /\ z[j] = w[j - a] /\ j = (j - a) + a)
  <2>1. CASE j <= a
    BY <1>1, <2>1
  <2>2. CASE j > a
    <3>1. j - a \in 1..Len(w) /\ j = (j - a) + a
      BY <1>1, <2>2
    <3>2. z[(j - a) + a] = w[j - a]
      BY <1>1, <3>1
    <3>3. QED
      BY <3>1, <3>2
  <2>3. QED
    BY <1>1, <2>1, <2>2
<1> HIDE DEF z, a
<1>3. CASE Lasts(w, c, k)
  <2> DEFINE l == LastWriter(w, k)
  <2>1. /\ l \in 1..Len(w) /\ k \in DOMAIN w[l].sets /\ c[k] = w[l].n
        /\ \A j \in 1..Len(w) : k \in DOMAIN w[j].sets => j <= l
    BY <1>1, <1>3, LastIs DEF Lasts
  <2> HIDE DEF l
  <2>2. l + a \in 1..(a + Len(w)) /\ z[l + a] = w[l]
    BY <1>1, <2>1
  <2>3. ASSUME NEW j \in 1..(a + Len(w)), k \in DOMAIN z[j].sets
        PROVE  j <= l + a
    <3>1. CASE j \in 1..a
      BY <1>1, <2>1, <3>1
    <3>2. CASE j - a \in 1..Len(w) /\ z[j] = w[j - a]
      <4>1. j - a <= l
        BY <2>1, <2>3, <3>2
      <4>2. QED
        BY <1>1, <2>1, <4>1
    <3>3. QED
      BY <1>2, <3>1, <3>2
  <2>4. k \in DOMAIN z[l + a].sets /\ a + Len(w) \in Nat
    BY <1>1, <2>1, <2>2
  <2> DEFINE n == a + Len(w)
             m == l + a
  <2>n. /\ n \in Nat /\ DOMAIN z = 1..n /\ m \in 1..n /\ k \in DOMAIN z[m].sets
        /\ \A j \in 1..n : k \in DOMAIN z[j].sets => j <= m
    BY <1>1, <2>2, <2>3, <2>4
  <2> HIDE DEF n, m
  <2>o. LastWriter(z, k) = m /\ k \in Written(z)
    BY <2>n, LastOnly
  <2>5. LastWriter(z, k) = l + a /\ k \in Written(z)
    BY <2>o DEF m
  <2>6. QED
    BY <2>1, <2>2, <2>5 DEF Lasts, z
<1>4. CASE k \notin Written(w) /\ Lasts(v, c, k)
  <2> DEFINE l == LastWriter(v, k)
  <2>1. /\ l \in 1..a /\ k \in DOMAIN v[l].sets /\ c[k] = v[l].n
        /\ \A j \in 1..a : k \in DOMAIN v[j].sets => j <= l
    BY <1>1, <1>4, LastIs DEF Lasts
  <2> HIDE DEF l
  <2>2. l \in 1..(a + Len(w)) /\ z[l] = v[l]
    BY <1>1, <2>1
  <2>3. ASSUME NEW j \in 1..(a + Len(w)), k \in DOMAIN z[j].sets
        PROVE  j <= l
    <3>1. CASE j \in 1..a
      BY <1>1, <2>1, <2>3, <3>1
    <3>2. CASE j - a \in 1..Len(w) /\ z[j] = w[j - a]
      BY <1>1, <1>4, <2>3, <3>2, WrittenIs
    <3>3. QED
      BY <1>2, <3>1, <3>2
  <2>4. k \in DOMAIN z[l].sets /\ a + Len(w) \in Nat
    BY <1>1, <2>1, <2>2
  <2> DEFINE n == a + Len(w)
  <2>n. /\ n \in Nat /\ DOMAIN z = 1..n /\ l \in 1..n /\ k \in DOMAIN z[l].sets
        /\ \A j \in 1..n : k \in DOMAIN z[j].sets => j <= l
    BY <1>1, <2>2, <2>3, <2>4
  <2> HIDE DEF n
  <2>5. LastWriter(z, k) = l /\ k \in Written(z)
    BY <2>n, LastOnly
  <2>6. QED
    BY <2>1, <2>2, <2>5 DEF Lasts, z
<1>5. QED
  BY <1>3, <1>4

LEMMA JoinRises ==
  ASSUME NEW v \in Seq(KeptSet), NEW w \in Seq(KeptSet)
  PROVE  /\ \A tree : PutAll(PutAll(tree, v), w) = PutAll(tree, v \o w)
         /\ Rising(v) /\ Rising(w) /\ (\A i \in DOMAIN v, j \in DOMAIN w : v[i].n < w[j].n) => Rising(v \o w)
         /\ v \o w \in Seq(KeptSet) /\ \A k \in Written(v \o w) : k \in Written(v) \/ k \in Written(w)
<1> DEFINE z == v \o w
           a == Len(v)
           n == a + Len(w)
<1>1. /\ DOMAIN z = 1..n /\ a \in Nat /\ Len(w) \in Nat /\ DOMAIN v = 1..a /\ DOMAIN w = 1..Len(w)
      /\ \A i \in 1..a : z[i] = v[i]
      /\ \A i \in 1..Len(w) : z[i + a] = w[i]
      /\ z \in Seq(KeptSet)
  OBVIOUS
<1> HIDE DEF z
<1>2. n \in Nat /\ a \in 0..n /\ n - a = Len(w)
  BY <1>1
<1>3. Parted(z, v, w, n, a)
  BY <1>1, <1>2 DEF Parted
<1>4. \A tree : PutAll(PutAll(tree, v), w) = PutAll(tree, z)
  BY <1>3, PutsJoin
<1>5. ASSUME Rising(v), Rising(w), \A i \in DOMAIN v, j \in DOMAIN w : v[i].n < w[j].n
      PROVE  Rising(z)
  <2> SUFFICES ASSUME NEW i \in 1..n, NEW j \in 1..n, i < j
               PROVE  z[i].n < z[j].n
    BY <1>1 DEF Rising
  <2>1. CASE j <= a
    <3>1. i \in 1..a /\ j \in 1..a /\ z[i] = v[i] /\ z[j] = v[j]
      BY <1>1, <1>2, <2>1
    <3>2. QED
      BY <1>1, <1>5, <3>1 DEF Rising
  <2>2. CASE i <= a /\ j > a
    <3>1. j - a \in 1..Len(w) /\ (j - a) + a = j /\ i \in 1..a
      BY <1>1, <1>2, <2>2
    <3>2. z[i] = v[i] /\ z[(j - a) + a] = w[j - a]
      BY <1>1, <3>1
    <3>3. z[j] = w[j - a]
      BY <3>1, <3>2
    <3>4. QED
      BY <1>1, <1>5, <3>1, <3>2, <3>3
  <2>3. CASE i > a
    <3>a. i \in Int /\ j \in Int /\ j <= a + Len(w) /\ i < j /\ a < i
      BY <1>1, <1>2, <2>3
    <3>1. /\ j - a \in 1..Len(w) /\ (j - a) + a = j /\ i - a \in 1..Len(w) /\ (i - a) + a = i /\ i - a < j - a
      BY <1>1, <3>a
    <3>2. z[(i - a) + a] = w[i - a] /\ z[(j - a) + a] = w[j - a]
      BY <1>1, <3>1
    <3>3. z[i] = w[i - a] /\ z[j] = w[j - a]
      BY <3>1, <3>2
    <3>4. QED
      BY <1>1, <1>5, <3>1, <3>3 DEF Rising
  <2>4. QED
    BY <1>1, <1>2, <2>1, <2>2, <2>3
<1>6. \A k \in Written(z) : k \in Written(v) \/ k \in Written(w)
  BY WrittenTo DEF z
<1>7. QED
  BY <1>1, <1>4, <1>5, <1>6 DEF z

LEMMA PublishAlone ==
  ASSUME MergeInv, OrderInv, ToldInv, s.foreign = 0, NEW u, NEW done, NEW r, Publishes(u, done, r),
         NEW v, Beheld(v, u), v.tip = s.tip, v.merge = s.merge, v \in StateSet
  PROVE  AloneOK(JoinTip(v, ClientsOf(done)), Claimed(claim, done))
<1> DEFINE d  == Claimed(claim, done)
           ts == [i \in DOMAIN done |-> TipWrite(done[i])]
           b  == JoinTip(v, done)
           ws == s.tip.writes
<1>p. Carries(u, done, r)
  BY DEF Publishes
<1>1. /\ ClientsOf(done) = done /\ AloneOK(s, claim) /\ Rising(done)
      /\ \A k \in Keys : Stands(u, d, k)
      /\ \A k \in Written(done) : Lasts(done, d, k)
      /\ \A k \in Keys : k \notin Written(done) => d[k] = claim[k]
  BY <1>p, AloneDone
<1>2. /\ r \in Nat /\ done \in Seq(EntrySet) /\ DOMAIN done = 1..r
      /\ \A i \in 1..r : i \in DOMAIN s.queue /\ done[i] = s.queue[i]
      /\ \A i \in 1..r : s.queue[i].round = 0
  BY <1>p, AloneDone, DoneIs
<1>3. /\ ts \in Seq(KeptSet) /\ Written(ts) = Written(done) /\ Rising(ts) /\ Len(ts) = Len(done)
      /\ \A tree : PutAll(tree, ts) = PutAll(tree, done)
      /\ \A k \in Written(done) : Lasts(ts, d, k)
  BY <1>1, <1>2, TipSame
<1>4. /\ done # <<>> /\ u.pub.tree = PutAll(s.pub.tree, done)
      /\ u.probe = s.probe /\ u.own = s.own
      /\ \/ u.pub = s.pub /\ u.prev = s.prev /\ u.line = s.line
         \/ u.pub.seq = s.pub.seq + 1 /\ u.prev = s.pub /\ u.line = Append(s.line, u.pub)
  BY DEF Publishes, Carries
<1>5. /\ v.pub = u.pub /\ v.prev = u.prev /\ v.line = u.line /\ v.own = s.own /\ v.probe = s.probe
      /\ v.merge = s.merge /\ v.tip = s.tip
  BY <1>4 DEF Beheld
<1>6. /\ s.tip \in TipSet /\ ws \in Seq(KeptSet) /\ s.pub.seq \in Nat /\ s.pub.seq > 0
      /\ s.tip.head.seq <= s.pub.seq /\ s.line \in Seq(HeadSet) /\ s.line # <<>> /\ s.line[Len(s.line)] = s.pub
  BY StateIs DEF Ready, LineOK, JudgedOK, TipSet
<1> HIDE DEF d, ts
<1>7. CASE s.tip.head = u.pub
  <2>1. u.pub = s.pub /\ u.prev = s.prev /\ u.line = s.line
    BY <1>4, <1>6, <1>7
  <2>2. b = [v EXCEPT !.tip.writes = @ \o ts]
    BY <1>4, <1>5, <1>7 DEF JoinTip, ts
  <2>3. /\ b.merge = s.merge /\ b.probe = s.probe /\ b.own = s.own /\ b.pub = s.pub /\ b.line = s.line /\ b.prev = s.prev
        /\ b.tip = [s.tip EXCEPT !.writes = ws \o ts]
    BY <1>5, <2>1, <2>2 DEF StateSet
  <2>a. b.tip.head = s.tip.head /\ b.tip.base = s.tip.base /\ b.tip.writes = ws \o ts
    BY <1>6, <2>3 DEF TipSet
  <2> HIDE DEF b
  <2>4. b.tip # NoTip /\ s.tip # NoTip
    BY <1>6, <1>7, <2>1, <2>3, <2>a DEF NoTip, NoHead
  <2>5. b.pub.tree = PutAll(b.tip.base.tree, b.tip.writes)
    <3>1. s.pub.tree = PutAll(s.tip.base.tree, ws)
      BY <1>1 DEF AloneOK
    <3>2. u.pub.tree = PutAll(s.pub.tree, ts)
      BY <1>3, <1>4
    <3>3. PutAll(PutAll(s.tip.base.tree, ws), ts) = PutAll(s.tip.base.tree, ws \o ts)
      BY <1>3, <1>6, JoinRises
    <3>4. QED
      BY <2>1, <2>3, <2>a, <3>1, <3>2, <3>3
  <2>6. Rising(b.tip.writes)
    <3>1. Ahead(s, ws)
      BY DEF OrderInv, OrderOK, TurnOK
    <3>2. \A i \in DOMAIN ws, j \in DOMAIN ts : ws[i].n < ts[j].n
      BY <1>2, <3>1 DEF Ahead, Earlier, ts, TipWrite
    <3>3. Rising(ws)
      BY <1>1 DEF AloneOK
    <3>4. QED
      BY <1>3, <1>6, <2>3, <2>a, <3>2, <3>3, JoinRises
  <2>7. ASSUME NEW k \in Written(b.tip.writes)
        PROVE  Lasts(b.tip.writes, d, k)
    <3>1. k \in Written(ws) \/ k \in Written(ts)
      BY <1>3, <1>6, <2>3, <2>a, JoinRises
    <3>2. CASE k \in Written(ts)
      BY <1>3, <1>6, <2>3, <2>a, <3>2, JoinLasts
    <3>3. CASE k \notin Written(ts)
      <4>1. Lasts(ws, claim, k) /\ k \in Keys
        BY <1>1, <1>6, <3>1, <3>3, WrittenKeys DEF AloneOK
      <4>2. Lasts(ws, d, k)
        BY <1>1, <1>3, <3>3, <4>1 DEF Lasts
      <4>3. QED
        BY <1>3, <1>6, <2>3, <2>a, <3>3, <4>2, JoinLasts
    <3>4. QED
      BY <3>2, <3>3
  <2>8. AloneOK(b, d)
    BY <1>1, <1>7, <2>1, <2>3, <2>a, <2>4, <2>5, <2>6, <2>7 DEF AloneOK, Stands
  <2>9. QED
    BY <1>1, <2>8 DEF b, d
<1>8. CASE s.tip.head # u.pub
  <2>1. b = [v EXCEPT !.tip = [head |-> u.pub, base |-> u.prev, writes |-> ts]]
    BY <1>4, <1>5, <1>8 DEF JoinTip, ts
  <2>2. /\ b.merge = s.merge /\ b.probe = s.probe /\ b.own = s.own /\ b.pub = u.pub /\ b.line = u.line /\ b.prev = u.prev
        /\ b.tip.head = u.pub /\ b.tip.base = u.prev /\ b.tip.writes = ts
    BY <1>5, <2>1 DEF StateSet
  <2> HIDE DEF b
  <2>3. b.tip # NoTip
    <3>1. u.pub.seq > 0
      BY <1>4, <1>6
    <3>2. QED
      BY <2>2, <3>1 DEF NoTip, NoHead
  <2>4. u.pub.tree = PutAll(u.prev.tree, ts) /\ (Len(u.line) > 1 => u.line[Len(u.line) - 1] = u.prev)
    <3>1. CASE u.pub = s.pub /\ u.prev = s.prev /\ u.line = s.line
      <4>1. s.tip = NoTip
        BY <1>1, <1>8, <3>1 DEF AloneOK
      <4>2. s.prev = NoHead /\ ~(Len(s.line) > 1) /\ s.pub.tree = PutAll(Empty, <<>>)
        BY <1>1, <4>1 DEF AloneOK, NoTip, NoHead
      <4>3. s.pub.tree = NoHead.tree
        BY <4>2, Nones, PutNone DEF NoHead
      <4>4. QED
        BY <1>3, <1>4, <3>1, <4>2, <4>3
    <3>2. CASE u.prev = s.pub /\ u.line = Append(s.line, u.pub)
      <4>1. Len(u.line) = Len(s.line) + 1 /\ u.line[Len(s.line)] = s.pub /\ Len(s.line) \in Nat
        BY <1>6, <3>2
      <4>2. QED
        BY <1>3, <1>4, <3>2, <4>1
    <3>3. QED
      BY <1>4, <3>1, <3>2
  <2>5. AloneOK(b, d)
    BY <1>1, <1>3, <2>2, <2>3, <2>4 DEF AloneOK, Stands
  <2>6. QED
    BY <1>1, <2>5 DEF b, d
<1>9. QED
  BY <1>7, <1>8

(* The page's own commit is Published: on its own head, or on the other     *)
(* device's.                                                                *)
LEMMA PublishTold ==
  ASSUME MergeInv, OrderInv, ToldInv, NEW u, NEW done, NEW r, Publishes(u, done, r)
  PROVE  ToldInv'
<1> DEFINE z == <<>>
           d == Claimed(claim, done)
           w == CloseCut(u)
<1>c. z = <<>>
  OBVIOUS
<1> HIDE DEF z
<1>p. Carries(u, done, r)
  BY DEF Publishes
<1>1. /\ Ends(u, done, z) /\ EndCall(SameIdentity(w, done, z), d) /\ done # z
      /\ u.made = s.made /\ u.tip = s.tip /\ u.merge = s.merge /\ u.probe = s.probe /\ u.foreign = s.foreign
  BY <1>c DEF Publishes, Carries
<1>2. /\ r \in Nat /\ done \in Seq(EntrySet) /\ DOMAIN done = 1..r
      /\ \A i \in 1..r : i \in DOMAIN s.queue /\ done[i] = s.queue[i]
      /\ u.queue \in Seq(EntrySet)
      /\ \A i \in DOMAIN u.queue : i + r \in DOMAIN s.queue /\ u.queue[i] = s.queue[i + r]
  BY <1>p, DoneIs
<1>3. OwnOK(s)
  BY DEF ToldInv, AllTold
<1>4. Fresh(done) /\ OwnOK(u)
  BY <1>1, <1>2, <1>3 DEF Fresh, OwnOK
<1>5. PICK v, b : /\ Ready(v) /\ Beheld(v, u) /\ Judging(v, u) /\ v.tip = u.tip
                  /\ u.merge.phase = "sent" => v.merge.landed = u.merge.landed \cup Mine(u, done)
                  /\ u.merge.phase # "sent" => v.merge = u.merge
                  /\ b = JoinTip(v, ClientsOf(done)) /\ Ready(b) /\ Beheld(b, u) /\ b.merge = v.merge
                  /\ SameIdentity(w, done, z) = Displaced(b, done # z)
  <2>1. w \in {u, CloseCut(u)} /\ Ends(u, done, z)
    BY <1>1
  <2> HIDE DEF w, d
  <2>2. \E v, b : /\ Ready(v) /\ Beheld(v, u) /\ Judging(v, u) /\ v.tip = u.tip
                  /\ u.merge.phase = "sent" => v.merge.landed = u.merge.landed \cup Mine(u, done)
                  /\ u.merge.phase # "sent" => v.merge = u.merge
                  /\ b = JoinTip(v, ClientsOf(done)) /\ Ready(b) /\ Beheld(b, u) /\ b.merge = v.merge
                  /\ SameIdentity(w, done, z) = Displaced(b, done # <<>>)
    BY <2>1, StagesIs
  <2>3. QED
    BY <1>c, <2>2, Zenon
<1>6. EndCall(b, d)
  <2>1. SameIdentity(w, done, z) = b
    BY <1>1, <1>5 DEF Displaced
  <2>2. QED
    BY <1>1, <2>1
<1>7. v \in StateSet /\ b \in StateSet /\ Judging(b, u)
      /\ b.made = s.made /\ b.probe = s.probe /\ b.foreign = s.foreign
  BY <1>1, <1>5 DEF Ready, Beheld, Judging
<1>8. OwnOK(b)
  <2>1. OwnOK(v)
    BY <1>4, <1>5 DEF OwnOK, Beheld, Judging
  <2>2. QED
    BY <1>2, <1>4, <1>5, <2>1, JoinOwn
<1>9. s.foreign = 0 => AloneOK(b, d)
  <2>1. s.foreign = 0 => s.merge.phase = "none"
    BY DEF ToldInv, AllTold, AloneOK
  <2>2. s.foreign = 0 => v.merge = s.merge
    BY <1>1, <1>5, <2>1
  <2>3. QED
    BY <1>1, <1>5, <1>7, <2>2, PublishAlone
<1>10. s.foreign <= 1 => TellOK(b, d)
  BY <1>5, <1>7, PublishTells
<1>11. d \in [Keys -> 0..s.made]
  <2>1. 1 \in Keys
    BY MergeAssumption DEF Keys
  <2>2. QED
    BY <2>1, <1>p, DoneKey
<1>12. TurnOK(s, claim)
  BY DEF OrderInv, OrderOK
<1> HIDE DEF d
<1>13. AllTold(b, d)
  BY <1>7, <1>8, <1>9, <1>10 DEF AllTold
<1>14. QED
  BY <1>6, <1>7, <1>11, <1>12, <1>13, EndTold DEF TurnOK

LEMMA LandTold ==
  ASSUME MergeInv, OrderInv, ToldInv, Land
  PROVE  ToldInv'
BY LandCall, PublishTold

LEMMA FailTold ==
  ASSUME MergeInv, OrderInv, ToldInv, Fail
  PROVE  ToldInv'
BY FailCall, QuitsTold

LEMMA CutTold ==
  ASSUME MergeInv, OrderInv, ToldInv, Cut
  PROVE  ToldInv'
<1>1. CASE \E u, done, r : Publishes(u, done, r) /\ u.pub = s.pub
  BY <1>1, PublishTold
<1>2. CASE \E u, done : Quits(u, done)
  BY <1>2, QuitsTold
<1>3. QED
  BY <1>1, <1>2, CutCall

LEMMA ApplyTold ==
  ASSUME MergeInv, OrderInv, ToldInv, Apply
  PROVE  ToldInv'
BY ApplyCall, QuitsTold, WarmsTold

(* A key is read at the winner: what its client has is there still, or the  *)
(* client is told.                                                          *)
LEMMA ProbeTold ==
  ASSUME MergeInv, OrderInv, ToldInv, ProbeAnswers
  PROVE  ToldInv'
<1> DEFINE p == s.probe
<1>1. s \in StateSet /\ p.writes \in Seq(KeptSet) /\ p.pending \in SUBSET Keys /\ p.superseded \in SUBSET Keys
  BY StateIs DEF StateSet, ProbeSet
<1>2. PICK x \in p.pending, read \in BOOLEAN :
        EndCall([s EXCEPT !.probe.pending = @ \ {x},
                          !.probe.superseded = IF read /\ s.probe.tree[x] = LeftAt(s.probe.writes, x)
                                               THEN @ ELSE @ \cup {x}], claim)
  BY DEF ProbeAnswers
<1> DEFINE su == IF read /\ p.tree[x] = LeftAt(p.writes, x) THEN p.superseded ELSE p.superseded \cup {x}
           pe == p.pending \ {x}
           u  == [s EXCEPT !.probe.pending = pe, !.probe.superseded = su]
<1>3. EndCall(u, claim)
  BY <1>2
<1>4. /\ su \in SUBSET Keys /\ pe \in SUBSET Keys /\ pe \cup su \subseteq p.pending \cup p.superseded
      /\ x \in su \/ p.tree[x] = LeftAt(p.writes, x)
      /\ p.pending \cup p.superseded \subseteq pe \cup su \cup {x}
  BY <1>1
<1> HIDE DEF su, pe
<1>5. /\ u \in StateSet /\ u.queue = s.queue /\ u.pub = s.pub /\ u.tip = s.tip /\ u.merge = s.merge
      /\ u.foreign = s.foreign /\ u.own = s.own /\ u.line = s.line /\ u.prev = s.prev /\ u.made = s.made
      /\ u.probe.writes = p.writes /\ u.probe.tree = p.tree /\ u.probe.pending = pe /\ u.probe.superseded = su
  BY <1>1, <1>4 DEF StateSet, ProbeSet
<1> HIDE DEF u
<1>6. OwnOK(u) /\ (u.foreign = 0 => AloneOK(u, claim))
  BY <1>5 DEF ToldInv, AllTold, OwnOK, AloneOK, Stands
<1>7. ASSUME NEW k \in Keys, Asked(s, claim, k)
      PROVE  Asked(u, claim, k) \/ Stands(u, claim, k)
  <2>1. CASE k \in pe \cup su
    BY <1>5, <1>7, <2>1 DEF Asked
  <2>2. CASE k \notin pe \cup su
    <3>1. k = x /\ p.tree[k] = LeftAt(p.writes, k)
      BY <1>4, <1>7, <2>2 DEF Asked
    <3>2. LeftAt(p.writes, k) = Value(claim[k], k)
      <4>1. AllOwn(p.writes) /\ Lasts(p.writes, claim, k)
        BY <1>7 DEF ToldInv, AllTold, OwnOK, Asked
      <4>2. QED
        BY <1>1, <4>1, LastValue
    <3>3. s.pub.tree[k] = p.tree[k]
      BY <1>7 DEF Asked
    <3>4. QED
      BY <1>5, <3>1, <3>2, <3>3 DEF Stands
  <2>3. QED
    BY <2>1, <2>2
<1>8. ASSUME u.foreign <= 1
      PROVE  TellOK(u, claim)
  <2>1. TellOK(s, claim)
    BY <1>5, <1>8 DEF ToldInv, AllTold
  <2>2. DeltaOK(s, claim) => DeltaOK(u, claim)
    BY <1>5 DEF DeltaOK
  <2>3. SentOK(s, claim) => SentOK(u, claim)
    BY <1>5, SentSame
  <2>4. \A k \in Keys : Stands(s, claim, k) => Stands(u, claim, k)
    BY <1>5 DEF Stands
  <2>5. QED
    BY <1>5, <1>7, <2>1, <2>2, <2>3, <2>4 DEF TellOK
<1>9. AllTold(u, claim)
  BY <1>6, <1>8 DEF AllTold
<1>10. claim \in [Keys -> 0..u.made] /\ u.probe.pending \cup u.probe.superseded \subseteq Written(u.probe.writes)
  <2>1. TurnOK(s, claim)
    BY DEF OrderInv, OrderOK
  <2>2. p.pending \cup p.superseded \subseteq Written(p.writes) /\ claim \in [Keys -> 0..s.made]
    BY <2>1 DEF TurnOK
  <2>3. QED
    BY <1>4, <1>5, <2>2
<1>11. QED
  BY <1>3, <1>5, <1>9, <1>10, EndTold

(* The delta cannot be known: the merge's keys are read at the winner.      *)
LEMMA DeltaFailsTold ==
  ASSUME MergeInv, OrderInv, ToldInv, DeltaFails
  PROVE  ToldInv'
<1> DEFINE m == s.merge
           u == Probed(s, m.writes, NoTip, NoMerge)
<1>1. s \in StateSet /\ m \in MergeSet
  BY StateIs
<1>2. m.phase = "delta" /\ s.foreign # 0
  <2>1. m.phase = "delta"
    BY DEF DeltaFails
  <2>2. QED
    BY <2>1 DEF OrderInv, OrderOK, RegroupOK
<1>3. s.tip = NoTip
  BY <1>2, DeltaIs
<1>4. EndCall(u, claim)
  <2>1. [StartProbe(s, m.writes) EXCEPT !.tip = NoTip, !.merge = NoMerge]
          = [StartProbe(s, m.writes) EXCEPT !.merge = NoMerge]
    BY <1>1, <1>3 DEF StartProbe, StateSet
  <2>2. QED
    BY <2>1 DEF DeltaFails, Probed
<1>5. m.writes \in Seq(KeptSet)
  BY <1>1 DEF MergeSet
<1>6. /\ u \in StateSet /\ u.tip = NoTip /\ u.merge = NoMerge
      /\ u.pub = s.pub /\ u.queue = s.queue /\ u.made = s.made
      /\ u.foreign = s.foreign /\ u.probe.writes = m.writes
      /\ u.probe.pending = Written(m.writes) /\ u.probe.superseded = {}
  BY <1>1, <1>5, Nones, ProbedIs
<1>7. u.probe.tree = s.pub.tree
  BY <1>1 DEF Probed, StartProbe, StateSet
<1>8. NoMerge.phase = "none" /\ NoMerge.writes = <<>> /\ NoTip.writes = <<>>
  BY DEF NoMerge, NoTip
<1>9. m = s.merge
  OBVIOUS
<1> HIDE DEF u, m
<1>10. OwnOK(u)
  BY <1>6, <1>8, <1>9, NoneOwn DEF ToldInv, AllTold, OwnOK
<1>11. ASSUME u.foreign <= 1
       PROVE  TellOK(u, claim)
  <2>1. TellOK(s, claim)
    BY <1>6, <1>11 DEF ToldInv, AllTold
  <2>2. s.probe.writes = <<>>
    BY <1>2, <1>9, <2>1 DEF TellOK
  <2>3. ASSUME NEW k \in Keys, OneWay(k)
        PROVE  Stands(u, claim, k) \/ Asked(u, claim, k)
    <3>1. ~Asked(s, claim, k)
      BY <2>2, NoneOwn DEF Asked, Lasts
    <3>2. Stands(s, claim, k) \/ Lasts(m.writes, claim, k)
      BY <1>9, <2>1, <2>3, <3>1 DEF TellOK
    <3>3. Lasts(m.writes, claim, k) => Asked(u, claim, k)
      BY <1>6, <1>7 DEF Asked, Lasts
    <3>4. QED
      BY <1>6, <3>2, <3>3 DEF Stands
  <2>4. QED
    BY <1>6, <1>8, <2>3, NoneOwn DEF TellOK
<1>12. AllTold(u, claim)
  BY <1>2, <1>6, <1>10, <1>11 DEF AllTold
<1>13. claim \in [Keys -> 0..u.made]
  BY <1>6 DEF OrderInv, OrderOK, TurnOK
<1>14. QED
  BY <1>4, <1>6, <1>12, <1>13, EndTold

(* What the winner changed, read further: still what the winner has. *)
LEMMA ReadDelta ==
  ASSUME MergeInv, s.merge.phase = "delta", DeltaOK(s, claim), NEW c \in s.merge.next..NumKeys, NEW k \in Keys
  PROVE  ReadTo(s.merge, c).theirs[k] \in {AnyValue, s.pub.tree[k]}
<1> DEFINE m == s.merge
<1>1. m \in MergeSet /\ NumKeys \in Nat
  BY StateIs, MergeAssumption
<1>2. m.next \in Nat
  BY <1>1 DEF MergeSet
<1>3. c \in Nat
  BY <1>1, <1>2
<1>4. s.pub = m.winner /\ m.theirs[k] \in {AnyValue, s.pub.tree[k]}
  BY DEF DeltaOK
<1>5. m.tree = s.pub.tree
  BY <1>4, DeltaIs
<1>6. ReadTo(m, c).theirs[k] = IF k \in m.next..c /\ m.tree[k] # m.from.tree[k] THEN m.tree[k] ELSE m.theirs[k]
  BY <1>1, <1>3, ReadToIs
<1>7. QED
  BY <1>4, <1>5, <1>6

LEMMA ResumeTold ==
  ASSUME MergeInv, OrderInv, ToldInv, s.merge.phase = "delta", NEW c \in s.merge.next..NumKeys,
         EndCall([s EXCEPT !.merge = [ReadTo(@, c) EXCEPT !.tree = s.pub.tree]], claim)
  PROVE  ToldInv'
<1> DEFINE r == ReadTo(s.merge, c)
           m == [r EXCEPT !.tree = s.pub.tree]
           u == [s EXCEPT !.merge = m]
<1>1. s.merge \in MergeSet /\ s.pub.tree \in Trees /\ s \in StateSet /\ NumKeys \in Nat
  BY StateIs, MergeAssumption
<1>2. s.merge.next \in Nat
  BY <1>1 DEF MergeSet
<1>3. c \in Nat
  BY <1>1, <1>2
<1>4. r \in MergeSet /\ r.phase = s.merge.phase /\ r.winner = s.merge.winner /\ r.writes = s.merge.writes
  BY <1>1, <1>3, ReadToIs
<1>5. DeltaOK(s, claim) => \A k \in Keys : r.theirs[k] \in {AnyValue, s.pub.tree[k]}
  BY ReadDelta
<1> HIDE DEF r
<1>6. /\ m \in MergeSet /\ m.phase = s.merge.phase /\ m.winner = s.merge.winner /\ m.writes = s.merge.writes
      /\ m.theirs = r.theirs
  BY <1>1, <1>4 DEF MergeSet
<1>7. EndCall(u, claim)
  BY <1>1 DEF r, StateSet
<1> HIDE DEF m
<1>8. /\ u \in StateSet /\ u.merge = m /\ u.tip = s.tip /\ u.pub = s.pub /\ u.queue = s.queue
      /\ u.made = s.made /\ u.probe = s.probe /\ u.foreign = s.foreign
  BY <1>1, <1>6, MergeIs
<1> HIDE DEF u
<1>9. u.foreign # 0
  BY <1>8 DEF OrderInv, OrderOK, RegroupOK
<1>10. OwnOK(u)
  BY <1>6, <1>8 DEF ToldInv, AllTold, OwnOK
<1>11. ASSUME u.foreign <= 1
       PROVE  TellOK(u, claim)
  <2>1. TellOK(s, claim)
    BY <1>8, <1>11 DEF ToldInv, AllTold
  <2>2. DeltaOK(u, claim)
    BY <1>5, <1>6, <1>8, <2>1 DEF TellOK, DeltaOK
  <2>3. u.merge.phase = "delta"
    BY <1>6, <1>8
  <2>4. QED
    BY <1>6, <1>8, <2>1, <2>2, <2>3 DEF TellOK, Stands, Asked
<1>12. AllTold(u, claim)
  BY <1>9, <1>10, <1>11 DEF AllTold
<1>13. claim \in [Keys -> 0..u.made] /\ u.probe.pending \cup u.probe.superseded \subseteq Written(u.probe.writes)
  BY <1>8 DEF OrderInv, OrderOK, TurnOK
<1>14. QED
  BY <1>7, <1>8, <1>12, <1>13, EndTold

(* The group is queued: its writes in their order, each without the keys it *)
(* leaves to the winner.                                                    *)
LEMMA SentTold ==
  ASSUME MergeInv, OrderInv, ToldInv, s.merge.phase = "delta",
         NEW r \in MergeSet, r.writes = s.merge.writes,
         DeltaOK(s, claim) => \A k \in Keys : r.theirs[k] \in {AnyValue, s.pub.tree[k]},
         NEW u, u \in StateSet, u.merge = SentMerge(r),
         u.pub = s.pub, u.tip = s.tip, u.made = s.made, u.probe = s.probe, u.foreign = s.foreign,
         Lined(u.queue),
         \A i \in DOMAIN u.queue :
           \/ u.queue[i].round > 0 /\ Whole(r, u.queue[i]) /\ u.queue[i].n = r.writes[u.queue[i].index].n
           \/ u.queue[i].round = 0 /\ \E j \in DOMAIN s.queue : Same(u.queue[i], s.queue[j]),
         EndCall(u, claim)
  PROVE  ToldInv'
<1> DEFINE m == SentMerge(r)
<1>1. /\ m.phase = "sent" /\ m.writes = r.writes /\ m.theirs = r.theirs /\ m.landed = DOMAIN r.writes \ Goes(r)
  BY SentIs
<1>2. m.dropped = UNION {{<<i, k>> : k \in DOMAIN r.writes[i].sets \ Keeps(r, i)} : i \in DOMAIN r.writes}
  BY DEF SentMerge, MergeSet
<1>3. m.writes \in Seq(KeptSet) /\ u.merge = m /\ m.writes = s.merge.writes
  BY <1>1 DEF MergeSet
<1> HIDE DEF m
<1>4. \A i : Keeps(m, i) = Keeps(r, i)
  BY <1>1 DEF Keeps
<1>5. u.foreign # 0
  BY DEF OrderInv, OrderOK, RegroupOK
<1>6. OwnOK(s)
  BY DEF ToldInv, AllTold
<1>7. OwnOK(u)
  <2>1. \A i \in DOMAIN u.queue : u.queue[i].round = 0 => Own(u.queue[i])
    BY <1>6 DEF OwnOK, Own, Same
  <2>2. QED
    BY <1>3, <1>6, <2>1 DEF OwnOK
<1>8. ASSUME u.foreign <= 1
      PROVE  TellOK(u, claim)
  <2>1. TellOK(s, claim)
    BY <1>8 DEF ToldInv, AllTold
  <2>2. /\ s.probe.writes = <<>> /\ Rising(m.writes)
        /\ \A k \in Keys : m.theirs[k] \in {AnyValue, s.pub.tree[k]}
        /\ \A k \in Written(m.writes) : claim[k] = 0 \/ Lasts(m.writes, claim, k)
    BY <1>1, <1>3, <2>1 DEF TellOK, DeltaOK
  <2>3. LeavesOK(m)
    BY <1>1, <1>2, <1>4 DEF LeavesOK
  <2>4. ASSUME NEW i \in DOMAIN u.queue, u.queue[i].round > 0
        PROVE  Kept(u, u.queue[i]) /\ Open(u, claim, u.queue[i])
    <3> DEFINE e == u.queue[i]
    <3>1. Whole(r, e) /\ e.n = r.writes[e.index].n
      BY <2>4
    <3> HIDE DEF e
    <3>2. Kept(u, e)
      BY <1>1, <1>3, <1>4, <3>1 DEF Whole, Kept, Goes
    <3>3. e.index \in DOMAIN m.writes /\ DOMAIN e.sets \subseteq DOMAIN m.writes[e.index].sets
      BY <1>1, <3>1 DEF Whole, Keeps
    <3>4. e.n \in DOMAIN Writes
      BY <1>1, <1>3, <1>6, <3>1, <3>3 DEF OwnOK, AllOwn, Own
    <3>5. 0 < e.n
      BY <3>4, MergeAssumption
    <3>6. ASSUME NEW k \in DOMAIN e.sets
          PROVE  claim[k] < e.n \/ Lasts(m.writes, claim, k)
      <4>1. k \in Written(m.writes)
        BY <3>3, WrittenIs
      <4>2. QED
        BY <2>2, <3>5, <4>1
    <3>7. QED
      BY <1>3, <3>2, <3>6 DEF Open, e
  <2>5. ASSUME NEW k \in Keys
        PROVE  Restored(u, claim, k)
    <3> DEFINE l == LastWriter(m.writes, k)
    <3> SUFFICES ASSUME Lasts(m.writes, claim, k)
                 PROVE  /\ k \notin Keeps(m, l) => u.pub.tree[k] = m.theirs[k]
                        /\ ~(k \in Keeps(m, l) /\ l \in m.landed)
      BY <1>3 DEF Restored
    <3>1. l \in DOMAIN m.writes /\ k \in DOMAIN m.writes[l].sets
      BY <1>3, LastIn DEF Lasts
    <3> HIDE DEF l
    <3>2. k \notin Keeps(m, l) => u.pub.tree[k] = m.theirs[k]
      BY <2>2, <3>1 DEF Keeps
    <3>3. l \in m.landed => Keeps(m, l) = {}
      BY <1>1, <1>4 DEF Goes
    <3>4. QED
      BY <3>2, <3>3
  <2>6. SentOK(u, claim)
    BY <1>3, <2>3, <2>4, <2>5 DEF SentOK
  <2>7. ASSUME NEW k \in Keys, OneWay(k)
        PROVE  Stands(u, claim, k) \/ Lasts(m.writes, claim, k)
    <3>1. ~Asked(s, claim, k)
      BY <2>2, NoneOwn DEF Asked, Lasts
    <3>2. Stands(s, claim, k) \/ Lasts(m.writes, claim, k)
      BY <1>3, <2>1, <2>7, <3>1 DEF TellOK
    <3>3. QED
      BY <3>2 DEF Stands
  <2>8. QED
    BY <1>1, <1>3, <2>2, <2>6, <2>7 DEF TellOK
<1>9. AllTold(u, claim)
  BY <1>5, <1>7, <1>8 DEF AllTold
<1>10. claim \in [Keys -> 0..u.made] /\ u.probe.pending \cup u.probe.superseded \subseteq Written(u.probe.writes)
  BY DEF OrderInv, OrderOK, TurnOK
<1>11. QED
  BY <1>9, <1>10, EndTold

LEMMA SendTold ==
  ASSUME MergeInv, OrderInv, ToldInv, s.merge.phase = "delta", NumKeys \in s.merge.next..NumKeys,
         EndCall(SendMerge(s, ReadTo(s.merge, NumKeys)), claim)
  PROVE  ToldInv'
<1> DEFINE r  == ReadTo(s.merge, NumKeys)
           m  == SentMerge(r)
           ws == Without([i \in DOMAIN r.writes |-> MergeWrite(s, r, i)], DOMAIN r.writes \ Goes(r))
           p  == Cold(ws \o s.queue)
           u  == [s EXCEPT !.merge = m]
           w  == [s EXCEPT !.merge = m, !.held = FALSE, !.cut = {}, !.queue = p]
           x  == SendMerge(s, r)
<1>1. s.merge \in MergeSet /\ NumKeys \in Nat /\ s \in StateSet
  BY StateIs, MergeAssumption
<1>2. r \in MergeSet /\ r.writes = s.merge.writes /\ r.fell = s.merge.fell
  BY <1>1, ReadToIs
<1>3. EndCall(x, claim)
  OBVIOUS
<1>4. x = IF Goes(r) = {} THEN u ELSE MergeFront(u, ws)
  BY DEF SendMerge, SentMerge
<1>5. DeltaOK(s, claim) => \A k \in Keys : r.theirs[k] \in {AnyValue, s.pub.tree[k]}
  BY ReadDelta
<1> HIDE DEF r, x
<1>6. /\ m \in MergeSet /\ m.fell = {} /\ m.sent = Goes(r) /\ m.landed = DOMAIN r.writes \ Goes(r)
      /\ m.theirs = r.theirs /\ m.writes = r.writes
  BY <1>2, SentIs, DeltaIs
<1>7. m = SentMerge(r)
  OBVIOUS
<1> HIDE DEF m
<1>8. CASE Goes(r) = {}
  <2>1. /\ u \in StateSet /\ u.merge = m /\ u.pub = s.pub /\ u.queue = s.queue /\ u.tip = s.tip
        /\ u.made = s.made /\ u.probe = s.probe /\ u.foreign = s.foreign
    BY <1>1, <1>6, MergeIs
  <2> HIDE DEF u
  <2>2. \A i \in DOMAIN s.queue : s.queue[i].round = 0 /\ \E j \in DOMAIN s.queue : Same(s.queue[i], s.queue[j])
    BY DeltaIs DEF NoEntry, Same
  <2>3. Lined(u.queue)
    BY <2>1, <2>2 DEF Lined
  <2>4. x = u
    BY <1>4, <1>8
  <2>5. QED
    BY <1>2, <1>3, <1>5, <1>7, <2>1, <2>2, <2>3, <2>4, SentTold
<1>9. CASE Goes(r) # {}
  <2>1. /\ ws \in Seq(EntrySet) /\ OneId(ws)
        /\ \A j \in DOMAIN ws : Reapplied(m, ws[j]) /\ Whole(r, ws[j])
        /\ \A i, j \in DOMAIN ws : ws[i].index = ws[j].index => i = j
        /\ \A i, j \in DOMAIN ws : i < j => ws[i].index < ws[j].index
    BY <1>2, <1>6, GoingIs
  <2>2. x = w
    BY <1>1, <1>4, <1>9 DEF MergeFront, StateSet
  <2> HIDE DEF ws
  <2>3. /\ p \in Seq(EntrySet) /\ MergesFirst(p)
        /\ \A i \in DOMAIN p : \/ p[i].round > 0 /\ Reapplied(m, p[i])
                               \/ p[i].round = 0 /\ \E j \in DOMAIN s.queue : Same(p[i], s.queue[j])
        /\ \A i \in DOMAIN p : p[i].round > 0 => i \in DOMAIN ws /\ Same(p[i], ws[i])
    BY <2>1, FrontIsNew
  <2> HIDE DEF p
  <2>4. /\ w \in StateSet /\ w.merge = m /\ w.pub = s.pub /\ w.queue = p /\ w.tip = s.tip
        /\ w.made = s.made /\ w.probe = s.probe /\ w.foreign = s.foreign
    <3>1. {} \in SUBSET (Nat \X Nat)
      OBVIOUS
    <3>2. QED
      BY <1>1, <1>6, <2>3, <3>1 DEF StateSet
  <2> HIDE DEF w
  <2>5. Lined(p)
    BY <2>1, <2>3 DEF Lined, MergesFirst, Same
  <2>6. ASSUME NEW i \in DOMAIN p
        PROVE  \/ p[i].round > 0 /\ Whole(r, p[i]) /\ p[i].n = r.writes[p[i].index].n
               \/ p[i].round = 0 /\ \E j \in DOMAIN s.queue : Same(p[i], s.queue[j])
    <3>1. CASE p[i].round > 0
      <4>1. Whole(r, ws[i]) /\ Same(p[i], ws[i]) /\ Reapplied(m, ws[i])
        BY <2>1, <2>3, <3>1
      <4>2. Whole(r, p[i]) /\ p[i].n = r.writes[p[i].index].n
        BY <1>6, <4>1 DEF Whole, Same, Reapplied
      <4>3. QED
        BY <3>1, <4>2
    <3>2. CASE ~(p[i].round > 0)
      BY <2>3, <3>2
    <3>3. QED
      BY <3>1, <3>2
  <2>7. QED
    BY <1>2, <1>3, <1>5, <1>7, <2>2, <2>4, <2>5, <2>6, SentTold
<1>10. QED
  BY <1>8, <1>9

LEMMA AnswersTold ==
  ASSUME MergeInv, OrderInv, ToldInv, DeltaAnswers
  PROVE  ToldInv'
<1>1. s.merge.phase = "delta"
  BY DEF DeltaAnswers
<1>2. PICK c \in s.merge.next..NumKeys :
        IF c = NumKeys THEN EndCall(SendMerge(s, ReadTo(s.merge, c)), claim)
        ELSE EndCall([s EXCEPT !.merge = [ReadTo(@, c) EXCEPT !.tree = s.pub.tree]], claim)
  BY DEF DeltaAnswers
<1>3. CASE c = NumKeys
  BY <1>1, <1>2, <1>3, SendTold
<1>4. CASE c # NumKeys
  BY <1>1, <1>2, <1>4, ResumeTold
<1>5. QED
  BY <1>3, <1>4

(* The other device's head. *)

(* What of the page's claims stands in a head; what stands in the head it   *)
(* published on, and is not released, stands in the head it published.      *)
In(h, c, k) == c[k] # 0 => h.tree[k] = Value(c[k], k)

LEMMA ReleasedStands ==
  ASSUME NEW c, NEW f, NEW h, NEW k \in Keys
  PROVE  /\ Released(c, f, h)[k] \in {0, c[k]}
         /\ In(f, c, k) => In(h, Released(c, f, h), k)
<1>1. Released(c, f, h)[k] = IF c[k] # 0 /\ h.tree[k] # f.tree[k] /\ f.tree[k] = Value(c[k], k) THEN 0 ELSE c[k]
  BY DEF Released, Value
<1>2. QED
  BY <1>1 DEF In

LEMMA AdoptsOwn ==
  ASSUME ToldInv, NEW t, NEW h, NEW prev, Adopts(t, h, prev), NEW K, PartAt(t.queue, s.queue, K)
  PROVE  OwnOK(t)
<1>1. PICK e : Places(e, t.queue, s.queue, K)
  BY DEF PartAt
<1>2. \A j \in DOMAIN t.queue : e[j] \in DOMAIN s.queue /\ Same(t.queue[j], s.queue[e[j]])
  BY <1>1 DEF Places
<1>3. OwnOK(s)
  BY DEF ToldInv, AllTold
<1>4. t.tip = s.tip /\ t.merge = s.merge /\ t.probe = s.probe
  BY DEF Adopts
<1>5. QED
  BY <1>2, <1>3, <1>4 DEF OwnOK, Own, Same

(* Its second: only what the writes are is still so. *)
LEMMA AdoptsLate ==
  ASSUME MergeInv, ToldInv, s.foreign # 0, NEW t, NEW h, NEW prev, Adopts(t, h, prev),
         NEW K, PartAt(t.queue, s.queue, K), NEW p, NEW e, Ends(t, p, e), Fresh(p),
         NEW c, EndCall(SameIdentity(t, p, e), c)
  PROVE  ToldInv'
<1>1. OwnOK(t)
  BY AdoptsOwn
<1>2. OwnOK(s')
  BY <1>1, CallOwn
<1>3. s'.foreign = t.foreign
  BY CallKeeps
<1>4. t.foreign = s.foreign + 1 /\ s.foreign \in Nat
  BY StateIs DEF Adopts
<1>5. ~(s'.foreign <= 1) /\ s'.foreign # 0
  BY <1>3, <1>4
<1>6. QED
  BY <1>2, <1>5 DEF ToldInv, AllTold

(* What it published on, of what this page did: the head in flight, the     *)
(* page's own head, or the base of it.                                      *)
LEMMA HeardIs ==
  ASSUME Behind <= 1, MergeInv, AloneOK(s, claim), NEW f \in Heard, f # s.commit.head
  PROVE  f = s.pub \/ (s.tip # NoTip /\ f = s.tip.base)
<1>1. /\ s.line \in Seq(HeadSet) /\ s.line # <<>> /\ s.line[Len(s.line)] = s.pub /\ s.own = 1
      /\ Len(s.line) > 1 => s.tip # NoTip /\ s.line[Len(s.line) - 1] = s.prev
      /\ s.tip # NoTip => s.tip.base = s.prev
  BY StateIs DEF Ready, LineOK, AloneOK
<1>2. PICK i \in s.own..Len(s.line) : Len(s.line) - i <= Behind /\ f = s.line[i]
  BY DEF Heard
<1>3. Behind \in Nat /\ Len(s.line) \in Nat /\ i \in 1..Len(s.line)
  BY <1>1, <1>2, MergeAssumption
<1>4. i = Len(s.line) \/ (i = Len(s.line) - 1 /\ Len(s.line) > 1)
  BY <1>2, <1>3
<1>5. QED
  BY <1>1, <1>2, <1>4

(* What the first head it displaces the page with leaves of the claims.     *)
Left(h, prev, d) ==
  /\ \A k \in Keys : d[k] \in {0, claim[k]}
  /\ \A k \in Keys : In(h, d, k) \/ k \in Written(s.tip.writes)
  /\ prev = s.pub => \A k \in Keys : In(h, d, k)

LEMMA StartsIs ==
  ASSUME NEW v \in StateSet
  PROVE  /\ LET x == StartMerge(v)
            IN  /\ x.merge.phase = "delta" /\ x.merge.winner = v.pub /\ x.merge.writes = v.tip.writes
                /\ x.probe = v.probe /\ x.merge.theirs = [k \in Keys |-> AnyValue]
         /\ \A ws :
              LET x == [StartProbe(v, ws) EXCEPT !.tip = NoTip]
              IN  /\ x.merge = v.merge /\ x.probe.writes = ws /\ x.probe.tree = v.pub.tree
                  /\ x.probe.pending = Written(ws) /\ x.probe.superseded = {}
BY DEF StartMerge, StartProbe, NoMerge, StateSet

LEMMA DisplacedBeside ==
  ASSUME NEW v \in StateSet, NEW ours
  PROVE  LET x == Displaced(v, ours)
         IN  x.foreign = v.foreign /\ x.made = v.made /\ x.pub = v.pub
BY DEF Displaced, StartMerge, StartProbe, StateSet

LEMMA FirstTells ==
  ASSUME MergeInv, ToldInv, OrderInv, s.foreign = 0, NEW h \in HeadSet, NEW prev, h # s.pub, h.seq >= s.pub.seq,
         NEW v \in StateSet, v.pub = h, v.prev = prev, v.seen = s.seen, v.tip = s.tip, v.merge = s.merge,
         v.probe = s.probe, NEW d, Left(h, prev, d)
  PROVE  LET x == Displaced(v, FALSE)
         IN  /\ TellOK(x, d) /\ x.probe.pending \cup x.probe.superseded \subseteq Written(x.probe.writes)
             /\ x.foreign = v.foreign /\ x.made = v.made
<1> DEFINE x  == Displaced(v, FALSE)
           ws == s.tip.writes
<1>1. /\ s.pub.seq \in Nat /\ s.pub.seq > 0 /\ h.seq \in Int /\ s.seen = s.pub /\ s.merge \in MergeSet
  BY StateIs DEF HeadSet
<1>2. /\ s.merge.phase = "none" /\ s.probe.writes = <<>> /\ Rising(ws)
      /\ s.tip # NoTip => s.tip.head = s.pub /\ s.tip.base = s.prev
      /\ \A k \in Written(ws) : Lasts(ws, claim, k)
      /\ Rising(s.merge.writes)
  BY MergeAssumption DEF ToldInv, AllTold, AloneOK, TellOK
<1>3. s.tip = NoTip => ws = <<>>
  BY DEF NoTip
<1>4. /\ \A k \in Keys : Stands(v, d, k) <=> In(h, d, k)
      /\ \A k \in Written(ws) : k \in Keys => d[k] = 0 \/ Lasts(ws, d, k)
  BY <1>2 DEF Stands, In, Left, Lasts
<1>5. s.probe.pending \cup s.probe.superseded \subseteq Written(s.probe.writes)
  BY DEF OrderInv, OrderOK, TurnOK
<1>6. /\ x.foreign = v.foreign /\ x.made = v.made /\ x.pub = h
      /\ \/ s.tip = NoTip /\ x = v
         \/ prev = s.pub /\ x.merge = s.merge /\ x.probe = s.probe
         \/ s.tip # NoTip /\ x = StartMerge(v)
         \/ s.tip # NoTip /\ x = [StartProbe(v, ws) EXCEPT !.tip = NoTip]
  <2>1. v.pub # v.seen /\ (v.tip # NoTip => v.tip.head = s.pub /\ v.pub # v.tip.head /\ ~(v.pub.seq < v.tip.head.seq))
    BY <1>1, <1>2
  <2>2. CASE v.tip = NoTip
    BY <2>2 DEF Displaced
  <2>3. CASE v.tip # NoTip /\ v.prev = v.tip.head
    <3>1. x = [v EXCEPT !.tip = NoTip]
      BY <2>1, <2>3 DEF Displaced
    <3>2. QED
      BY <2>1, <2>3, <3>1 DEF StateSet
  <2>4. CASE v.tip # NoTip /\ v.prev # v.tip.head
    <3>1. x = StartMerge(v) \/ x = [StartProbe(v, ws) EXCEPT !.tip = NoTip]
      BY <2>1, <2>4 DEF Displaced
    <3>2. x.foreign = v.foreign /\ x.made = v.made /\ x.pub = h
      BY DisplacedBeside
    <3>3. QED
      BY <2>4, <3>1, <3>2
  <2>5. QED
    BY <2>2, <2>3, <2>4
<1>7. ASSUME x.merge = s.merge, x.probe = s.probe, \A k \in Keys : In(h, d, k)
      PROVE  TellOK(x, d) /\ x.probe.pending \cup x.probe.superseded \subseteq Written(x.probe.writes)
  <2>1. \A k \in Keys : Stands(x, d, k)
    BY <1>6, <1>7 DEF Stands, In
  <2> HIDE DEF x
  <2>2. QED
    BY <1>2, <1>5, <1>7, <2>1 DEF TellOK
<1>8. CASE s.tip = NoTip /\ x = v
  <2>1. \A k \in Keys : In(h, d, k)
    BY <1>3, <1>8, NoneOwn DEF Left
  <2>2. QED
    BY <1>6, <1>7, <1>8, <2>1
<1>9. CASE prev = s.pub /\ x.merge = s.merge /\ x.probe = s.probe
  <2>1. \A k \in Keys : In(h, d, k)
    BY <1>9 DEF Left
  <2>2. QED
    BY <1>6, <1>7, <1>9, <2>1
<1>10. CASE s.tip # NoTip /\ x = StartMerge(v)
  <2>1. /\ x.merge.phase = "delta" /\ x.merge.winner = h /\ x.merge.writes = ws /\ x.probe = s.probe
        /\ x.merge.theirs = [k \in Keys |-> AnyValue]
    BY <1>10, StartsIs
  <2> HIDE DEF x
  <2>2. DeltaOK(x, d)
    <3>1. Written(ws) \subseteq Keys
      BY StateIs, WrittenKeys DEF TipSet
    <3>2. QED
      BY <1>4, <1>6, <2>1, <3>1 DEF DeltaOK
  <2>3. \A k \in Keys : Stands(x, d, k) \/ Lasts(ws, d, k)
    BY <1>4, <1>6 DEF Left, Stands, In
  <2>4. TellOK(x, d)
    BY <1>2, <2>1, <2>2, <2>3 DEF TellOK
  <2>5. QED
    BY <1>5, <1>6, <2>1, <2>4 DEF x
<1>11. CASE s.tip # NoTip /\ x = [StartProbe(v, ws) EXCEPT !.tip = NoTip]
  <2> DEFINE y == [StartProbe(v, ws) EXCEPT !.tip = NoTip]
  <2>a. /\ y.merge = v.merge /\ y.probe.writes = ws /\ y.probe.tree = v.pub.tree
        /\ y.probe.pending = Written(ws) /\ y.probe.superseded = {}
    BY StartsIs, Zenon
  <2>b. x = y
    BY <1>11
  <2> HIDE DEF y
  <2>1. /\ x.merge = s.merge /\ x.probe.writes = ws /\ x.probe.tree = h.tree
        /\ x.probe.pending = Written(ws) /\ x.probe.superseded = {}
    BY <2>a, <2>b
  <2> HIDE DEF x
  <2>2. ASSUME NEW k \in Keys
        PROVE  Stands(x, d, k) \/ Asked(x, d, k)
    BY <1>4, <1>6, <2>1 DEF Left, Stands, In, Asked
  <2>3. TellOK(x, d)
    BY <1>2, <2>1, <2>2 DEF TellOK
  <2>4. x.probe.pending \cup x.probe.superseded \subseteq Written(x.probe.writes)
    BY <2>1
  <2>5. QED
    BY <1>6, <2>3, <2>4 DEF x
<1>12. QED
  BY <1>6, <1>8, <1>9, <1>10, <1>11

(* The commit in flight, if any, published nothing. *)
LEMMA AdoptsFirst ==
  ASSUME MergeInv, OrderInv, ToldInv, s.foreign = 0,
         NEW h \in HeadSet, NEW prev, h # s.pub, h.seq >= s.pub.seq, NEW t, Adopts(t, h, prev),
         NEW K, PartAt(t.queue, s.queue, K), NEW e, Ends(t, <<>>, e),
         NEW d \in [Keys -> 0..s.made], Left(h, prev, d), EndCall(SameIdentity(t, <<>>, e), d)
  PROVE  ToldInv'
<1>1. PICK v : /\ Ready(v) /\ Beheld(v, t) /\ Judging(v, t) /\ v.tip = t.tip
               /\ t.merge.phase # "sent" => v.merge = t.merge
               /\ SameIdentity(t, <<>>, e) = Displaced(v, <<>> # <<>>) /\ Ready(SameIdentity(t, <<>>, e))
  <2>1. t \in {t, CloseCut(t)}
    OBVIOUS
  <2>2. QED
    BY <2>1, StagesIs
<1> DEFINE x == Displaced(v, FALSE)
<1>2. EndCall(x, d) /\ x \in StateSet
  BY <1>1 DEF Ready
<1>3. /\ t.tip = s.tip /\ t.merge = s.merge /\ t.probe = s.probe /\ t.pub = h /\ t.prev = prev
      /\ t.seen = s.seen /\ t.made = s.made /\ t.foreign = 1
  BY DEF Adopts
<1>4. s.merge.phase = "none"
  BY DEF ToldInv, AllTold, AloneOK
<1>5. /\ v \in StateSet /\ v.pub = h /\ v.prev = prev /\ v.seen = s.seen /\ v.tip = s.tip
      /\ v.merge = s.merge /\ v.probe = s.probe /\ v.foreign = 1 /\ v.made = s.made
  BY <1>1, <1>3, <1>4 DEF Ready, Beheld
<1>6. /\ TellOK(x, d) /\ x.probe.pending \cup x.probe.superseded \subseteq Written(x.probe.writes)
      /\ x.foreign = 1 /\ x.made = s.made
  BY <1>5, FirstTells
<1>7. OwnOK(x)
  <2>1. OwnOK(t)
    BY AdoptsOwn
  <2>2. OwnOK(v)
    BY <1>1, <2>1 DEF OwnOK, Beheld, Judging
  <2>3. QED
    BY <1>1, <2>2, DisplacedOwn
<1> HIDE DEF x
<1>8. AllTold(x, d)
  BY <1>6, <1>7 DEF AllTold
<1>9. QED
  BY <1>2, <1>6, <1>8, EndTold

(* The commit in flight landed under it: the ledger witnessed it. *)
LEMMA AdoptsPublished ==
  ASSUME MergeInv, OrderInv, ToldInv, s.foreign = 0, NEW h, NEW prev, NEW t, Adopts(t, h, prev),
         NEW K, PartAt(t.queue, s.queue, K), NEW p, NEW z, z = <<>>, p # z, Ends(t, p, z), Fresh(p),
         NEW d \in [Keys -> 0..s.made], \A k \in Keys : In(h, d, k), EndCall(SameIdentity(t, p, z), d)
  PROVE  ToldInv'
<1>1. PICK v, b : /\ Ready(v) /\ Beheld(v, t) /\ Judging(v, t) /\ v.tip = t.tip
                  /\ t.merge.phase # "sent" => v.merge = t.merge
                  /\ b = JoinTip(v, ClientsOf(p)) /\ Ready(b) /\ Beheld(b, t) /\ b.merge = v.merge
                  /\ SameIdentity(t, p, z) = Displaced(b, p # z)
  <2>1. t \in {t, CloseCut(t)}
    OBVIOUS
  <2>2. \E v, b : /\ Ready(v) /\ Beheld(v, t) /\ Judging(v, t) /\ v.tip = t.tip
                  /\ t.merge.phase # "sent" => v.merge = t.merge
                  /\ b = JoinTip(v, ClientsOf(p)) /\ Ready(b) /\ Beheld(b, t) /\ b.merge = v.merge
                  /\ SameIdentity(t, p, z) = Displaced(b, p # <<>>)
    BY <2>1, StagesIs
  <2>3. QED
    BY <2>2, Zenon
<1>2. EndCall(b, d) /\ b \in StateSet
  BY <1>1 DEF Displaced, Ready
<1>3. /\ t.tip = s.tip /\ t.merge = s.merge /\ t.probe = s.probe /\ t.pub = h /\ t.made = s.made /\ t.foreign = 1
  BY DEF Adopts
<1>4. s.merge.phase = "none" /\ s.probe.writes = <<>> /\ Rising(s.merge.writes)
  BY MergeAssumption DEF ToldInv, AllTold, AloneOK, TellOK
<1>5. b.merge = s.merge /\ b.probe = s.probe /\ b.pub = h /\ b.made = s.made /\ b.foreign = 1
  BY <1>1, <1>3, <1>4 DEF Beheld
<1>6. OwnOK(b)
  <2>1. OwnOK(t)
    BY AdoptsOwn
  <2>2. OwnOK(v)
    BY <1>1, <2>1 DEF OwnOK, Beheld, Judging
  <2>3. p \in Seq(EntrySet)
    BY DEF Ends
  <2>4. QED
    BY <1>1, <2>2, <2>3, JoinOwn
<1>7. TellOK(b, d)
  BY <1>4, <1>5 DEF TellOK, Stands, In
<1>8. s.probe.pending \cup s.probe.superseded \subseteq Written(s.probe.writes)
  BY DEF OrderInv, OrderOK, TurnOK
<1>9. AllTold(b, d)
  BY <1>5, <1>6, <1>7 DEF AllTold
<1>10. QED
  BY <1>2, <1>5, <1>8, <1>9, EndTold

LEMMA CarriedIs ==
  ASSUME MergeInv, s.commit # NoCommit
  PROVE  Carries([pub |-> s.commit.head, queue |-> SubSeq(s.queue, s.commit.n + 1, Len(s.queue))],
                 Carried, s.commit.n)
<1> DEFINE n == s.commit.n
           u == [pub |-> s.commit.head, queue |-> SubSeq(s.queue, n + 1, Len(s.queue))]
<1>1. n > 0 /\ n \in 0..Len(s.queue) /\ s.merge.phase # "delta" /\ s.queue \in Seq(EntrySet)
      /\ s.commit.head.tree = PutAll(s.pub.tree, SubSeq(s.queue, 1, n))
  BY FlightIs, StateIs
<1>2. u.pub = s.commit.head /\ u.queue = SubSeq(s.queue, n + 1, Len(s.queue))
  OBVIOUS
<1>3. /\ SubSeq(s.queue, 1, n) \in Seq(EntrySet) /\ Len(SubSeq(s.queue, 1, n)) = n
      /\ SubSeq(s.queue, n + 1, Len(s.queue)) \in Seq(EntrySet)
  BY <1>1, FrontBack
<1>4. SubSeq(s.queue, 1, n) # <<>>
  BY <1>1, <1>3
<1> HIDE DEF u, n
<1>5. Carries(u, Carried, n)
  BY <1>1, <1>2, <1>3, <1>4 DEF Carries, Carried, n
<1>6. QED
  BY <1>5 DEF u, n

LEMMA FirstLeaves ==
  ASSUME Behind <= 1, MergeInv, OrderInv, ToldInv, s.foreign = 0,
         NEW f \in Heard, NEW h, NEW prev \in {f, NoHead}
  PROVE  /\ f # s.commit.head => Left(h, prev, Released(claim, f, h))
         /\ s.commit # NoCommit => Left(h, prev, Released(Overwritten(f), f, h))
         /\ s.commit # NoCommit /\ f = s.commit.head =>
              \A k \in Keys : In(h, Released(Claimed(claim, Carried), f, h), k)
<1> DEFINE ws == s.tip.writes
<1>1. AloneOK(s, claim) /\ s.pub # NoHead
  BY StateIs DEF ToldInv, AllTold, NoHead
<1>2. \A k \in Keys : In(s.pub, claim, k)
  BY <1>1 DEF AloneOK, Stands, In
<1>3. ASSUME f # s.commit.head
      PROVE  /\ \A k \in Keys : In(f, claim, k) \/ k \in Written(ws)
             /\ prev = s.pub => \A k \in Keys : In(f, claim, k)
  <2>1. f = s.pub \/ f = s.tip.base
    BY <1>1, <1>3, HeardIs
  <2>2. ASSUME NEW k \in Keys, k \notin Written(ws)
        PROVE  s.pub.tree[k] = s.tip.base.tree[k]
    BY <1>1, <2>2 DEF AloneOK, PutAll
  <2>3. \A k \in Keys : In(f, claim, k) \/ k \in Written(ws)
    BY <1>2, <2>1, <2>2 DEF In
  <2>4. prev = s.pub => f = s.pub
    BY <1>1
  <2>5. QED
    BY <1>2, <2>3, <2>4
<1>4. f # s.commit.head => Left(h, prev, Released(claim, f, h))
  BY <1>3, ReleasedStands DEF Left
<1>5. ASSUME s.commit # NoCommit, f = s.commit.head, NEW k \in Keys
      PROVE  Overwritten(f)[k] \in {0, claim[k]} /\ In(f, Overwritten(f), k)
  <2>1. Overwritten(f)[k] = IF k \in Written(Carried) THEN 0 ELSE claim[k]
    BY <1>5 DEF Overwritten
  <2>2. k \notin Written(Carried) => f.tree[k] = s.pub.tree[k]
    BY <1>5, FlightIs DEF Carried, PutAll
  <2>3. QED
    BY <1>2, <2>1, <2>2 DEF In
<1>6. ASSUME s.commit # NoCommit
      PROVE  Left(h, prev, Released(Overwritten(f), f, h))
  <2>1. CASE f = s.commit.head
    <3> DEFINE c == Overwritten(f)
    <3>1. \A k \in Keys : c[k] \in {0, claim[k]} /\ In(f, c, k)
      BY <1>5, <1>6, <2>1
    <3> HIDE DEF c
    <3>2. \A k \in Keys : Released(c, f, h)[k] \in {0, claim[k]} /\ In(h, Released(c, f, h), k)
      BY <3>1, ReleasedStands
    <3>3. QED
      BY <3>2 DEF Left, c
  <2>2. CASE f # s.commit.head
    <3>1. \A k \in Keys : Overwritten(f)[k] = claim[k]
      BY <2>2 DEF Overwritten
    <3>2. Released(Overwritten(f), f, h) = Released(claim, f, h)
      BY <3>1 DEF Released
    <3>3. QED
      BY <1>4, <2>2, <3>2
  <2>3. QED
    BY <2>1, <2>2
<1>7. ASSUME s.commit # NoCommit, f = s.commit.head, NEW k \in Keys
      PROVE  In(h, Released(Claimed(claim, Carried), f, h), k)
  <2> DEFINE u == [pub |-> s.commit.head, queue |-> SubSeq(s.queue, s.commit.n + 1, Len(s.queue))]
  <2>1. Carries(u, Carried, s.commit.n)
    BY <1>7, CarriedIs
  <2>2. u.pub = f
    BY <1>7
  <2> HIDE DEF u
  <2>3. Stands(u, Claimed(claim, Carried), k)
    BY <2>1, AloneDone
  <2>4. In(f, Claimed(claim, Carried), k)
    BY <2>2, <2>3 DEF Stands, In
  <2>5. QED
    BY <2>4, ReleasedStands
<1>8. QED
  BY <1>4, <1>6, <1>7

LEMMA ReleasedIn ==
  ASSUME NEW n \in Nat, NEW c \in [Keys -> 0..n], NEW f, NEW h
  PROVE  Released(c, f, h) \in [Keys -> 0..n]
BY DEF Released

(* The claims a foreign head leaves are numbers of writes. *)
LEMMA LeavesIn ==
  ASSUME MergeInv, OrderInv, NEW f, NEW h
  PROVE  /\ Released(claim, f, h) \in [Keys -> 0..s.made]
         /\ Released(Overwritten(f), f, h) \in [Keys -> 0..s.made]
         /\ s.commit # NoCommit => Released(Claimed(claim, Carried), f, h) \in [Keys -> 0..s.made]
<1>1. s.made \in Nat /\ claim \in [Keys -> 0..s.made]
  BY StateIs, MergeAssumption DEF OrderInv, OrderOK, TurnOK
<1>2. Overwritten(f) \in [Keys -> 0..s.made]
  BY <1>1 DEF Overwritten
<1>3. s.commit # NoCommit => Claimed(claim, Carried) \in [Keys -> 0..s.made]
  <2>1. 1 \in Keys
    BY MergeAssumption DEF Keys
  <2>2. QED
    BY <2>1, CarriedIs, DoneKey
<1>4. QED
  BY <1>1, <1>2, <1>3, ReleasedIn

LEMMA CarriedFresh ==
  ASSUME MergeInv, ToldInv, s.commit # NoCommit
  PROVE  Fresh(Carried)
<1> DEFINE u == [pub |-> s.commit.head, queue |-> SubSeq(s.queue, s.commit.n + 1, Len(s.queue))]
           n == s.commit.n
<1>1. Carries(u, Carried, n)
  BY CarriedIs
<1> HIDE DEF u, n
<1>2. DOMAIN Carried = 1..n /\ \A i \in 1..n : i \in DOMAIN s.queue /\ Carried[i] = s.queue[i]
  BY <1>1, DoneIs
<1>3. OwnOK(s)
  BY DEF ToldInv, AllTold
<1>4. QED
  BY <1>2, <1>3 DEF Fresh, OwnOK

LEMMA ForeignTold ==
  ASSUME Behind <= 1, MergeInv, OrderInv, ToldInv, Foreign
  PROVE  ToldInv'
<1>1. PICK f \in Heard, h \in HeadSet, prev \in HeadSet, headed \in BOOLEAN, readable \in BOOLEAN :
        /\ f \in HeadSet /\ prev \in {f, NoHead}
        /\ h.seq >= s.pub.seq /\ h \notin ToSet(s.line) \cup s.beaten
        /\ headed => s.commit # NoCommit
        /\ Fate(f, h, prev, headed, readable)
  BY ForeignIs
<1>2. h # s.pub
  <2>1. s.line \in Seq(HeadSet) /\ s.line # <<>> /\ s.line[Len(s.line)] = s.pub
    BY StateIs DEF Ready, LineOK
  <2>2. Len(s.line) \in DOMAIN s.line
    BY <2>1
  <2>3. s.pub \in ToSet(s.line)
    BY <2>1, <2>2 DEF ToSet
  <2>4. QED
    BY <1>1, <2>3
<1> DEFINE g == Gone(Adopted(f, h, prev))
           z == <<>>
           p == Carried
<1>c. z = <<>> /\ Fresh(z)
  BY DEF Fresh
<1>d. headed => /\ Ends(g, p, z) /\ Ends(g, z, p) /\ Adopts(g, h, prev) /\ p # z
                /\ Fresh(p) /\ \E K : PartAt(g.queue, s.queue, K)
  BY <1>1, GoneEnds, CarriedFresh
<1>3. CASE Unheard(f, h, prev) /\ headed
  <2> DEFINE d == Released(Overwritten(f), f, h)
  <2>1. EndCall(SameIdentity(g, z, p), d)
    BY <1>3 DEF Unheard
  <2>2. d \in [Keys -> 0..s.made] /\ (s.foreign = 0 => Left(h, prev, d))
    BY <1>1, <1>3, LeavesIn, FirstLeaves
  <2> HIDE DEF g, z, p, d
  <2>3. CASE s.foreign # 0
    BY <1>3, <1>c, <1>d, <2>1, <2>3, AdoptsLate
  <2>4. CASE s.foreign = 0
    BY <1>1, <1>2, <1>3, <1>c, <1>d, <2>1, <2>2, <2>4, AdoptsFirst
  <2>5. QED
    BY <2>3, <2>4
<1>4. CASE Witnessed(f, h, prev) /\ headed /\ f = s.commit.head
  <2> DEFINE d == Released(Claimed(claim, p), f, h)
  <2>1. EndCall(SameIdentity(g, p, z), d)
    BY <1>4 DEF Witnessed
  <2>2. d \in [Keys -> 0..s.made] /\ (s.foreign = 0 => \A k \in Keys : In(h, d, k))
    BY <1>1, <1>4, LeavesIn, FirstLeaves
  <2> HIDE DEF g, z, p, d
  <2>3. CASE s.foreign # 0
    BY <1>4, <1>d, <2>1, <2>3, AdoptsLate
  <2>4. CASE s.foreign = 0
    BY <1>4, <1>c, <1>d, <2>1, <2>2, <2>4, AdoptsPublished
  <2>5. QED
    BY <2>3, <2>4
<1>5. CASE Dead(f, h, prev, Again(s, headed)) /\ f # s.commit.head
  <2> DEFINE q == Again(s, headed)
             t == DeadFront(Adopted(f, h, prev), q, Lost(s, q))
             e == Without(q, DOMAIN q \ Lost(s, q))
             d == Released(claim, f, h)
  <2>1. Ends(t, <<>>, e) /\ Adopts(t, h, prev) /\ \E K : PartAt(t.queue, s.queue, K)
    BY <1>1, DeadEnds
  <2>2. EndCall(SameIdentity(t, z, e), d)
    BY <1>5 DEF Dead
  <2>3. d \in [Keys -> 0..s.made] /\ (s.foreign = 0 => Left(h, prev, d))
    BY <1>1, <1>5, LeavesIn, FirstLeaves
  <2> HIDE DEF t, e, z, d
  <2>4. Ends(t, z, e)
    BY <1>c, <2>1
  <2>5. CASE s.foreign # 0
    BY <1>c, <2>1, <2>2, <2>4, <2>5, AdoptsLate
  <2>6. CASE s.foreign = 0
    BY <1>1, <1>2, <1>c, <2>1, <2>2, <2>3, <2>6, AdoptsFirst
  <2>7. QED
    BY <2>5, <2>6
<1>6. QED
  BY <1>1, <1>3, <1>4, <1>5 DEF Fate

LEMMA InitTold ==
  ASSUME Init
  PROVE  ToldInv
<1> DEFINE g == [seq |-> 1, tree |-> Empty]
           l == <<g>>
<1>1. /\ s.queue = <<>> /\ s.tip = NoTip /\ s.merge = NoMerge /\ s.probe = NoProbe /\ s.pub = g
      /\ s.line = l /\ s.prev = NoHead /\ s.own = 1 /\ s.foreign = 0 /\ claim = [k \in Keys |-> 0]
  BY DEF Init
<1>2. /\ NoTip.writes = <<>> /\ NoTip.base = NoHead /\ NoHead.tree = Empty /\ g.tree = Empty
      /\ NoMerge.writes = <<>> /\ NoProbe.writes = <<>> /\ NoMerge.phase = "none"
  BY DEF NoTip, NoMerge, NoProbe, NoHead
<1>3. Len(l) = 1
  OBVIOUS
<1> HIDE DEF g, l
<1>4. OwnOK(s)
  BY <1>1, <1>2, NoneOwn DEF OwnOK
<1>5. \A k \in Keys : Stands(s, claim, k)
  BY <1>1 DEF Stands
<1>6. PutAll(Empty, <<>>) = Empty
  BY Nones, PutNone
<1>7. AloneOK(s, claim)
  <2>1. s.pub.tree = PutAll(s.tip.base.tree, s.tip.writes)
    BY <1>1, <1>2, <1>6
  <2>2. ~(Len(s.line) > 1)
    BY <1>1, <1>3
  <2>3. QED
    BY <1>1, <1>2, <1>5, <2>1, <2>2, NoneOwn DEF AloneOK
<1>8. TellOK(s, claim)
  BY <1>1, <1>2, <1>5, NoneOwn DEF TellOK
<1>9. QED
  BY <1>4, <1>7, <1>8 DEF ToldInv, AllTold

LEMMA NextTold ==
  ASSUME Behind <= 1, MergeInv, OrderInv, ToldInv, [Next]_vars
  PROVE  ToldInv'
<1>1. CASE UNCHANGED vars
  <2>1. s' = s /\ claim' = claim
    BY <1>1 DEF vars
  <2>2. QED
    BY <2>1 DEF ToldInv
<1>2. CASE Next
  BY <1>2, AcceptTold, ApplyTold, CutTold, LandTold, FailTold, ForeignTold, AnswersTold,
     DeltaFailsTold, ProbeTold DEF Next
<1>3. QED
  BY <1>1, <1>2

(* While the other device has published one head, and knows at least all    *)
(* but the last of this page's own: a value a client was told Published is  *)
(* in the published tree, or being judged, or its client was told           *)
(* Superseded, or the other device overwrote it having it; for any keys,    *)
(* values and writes, and wherever between the page's calls that head came. *)
THEOREM ToldCorrect ==
  ASSUME Behind <= 1
  PROVE  Spec => []DisplacedIsTold
<1>1. Init => MergeInv /\ OrderInv /\ ToldInv
  BY InitInv, InitOrder, InitTold
<1>2. MergeInv /\ OrderInv /\ ToldInv /\ [Next]_vars => MergeInv' /\ OrderInv' /\ ToldInv'
  BY NextInv, NextTold
<1>3. MergeInv /\ OrderInv /\ ToldInv => DisplacedIsTold
  BY DisplacedToldOf
<1>4. QED
  BY <1>1, <1>2, <1>3, PTL DEF Spec
=============================================================================
