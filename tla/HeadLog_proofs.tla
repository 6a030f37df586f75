--------------------------- MODULE HeadLog_proofs ---------------------------
(***************************************************************************)
(* One node, whose signer refuses nothing for good, and pages that hear    *)
(* register answers as they are sent: the list of pages in a head is true  *)
(* of its tree, a page learns from it what became of its commit, and the   *)
(* pages implement the log of HeadLog.                                     *)
(***************************************************************************)
EXTENDS HeadTruth_proofs, FiniteSetTheorems

USE DEF Pair, Roots

OneNode == \A m, n \in Nodes : m = n
OneLog  == OneNode /\ Sleepy = {} /\ "Final" \notin SignOutcomes

----------------------------------------------------------------------------
(* The list. *)

(* A list without q, full of entries no older than the seq `at`. *)
FullSince(through, q, at) ==
  /\ q \notin Listed(through) /\ Cardinality(Listed(through)) >= ThroughMax
  /\ WrittenSince(through, at)

LEMMA EvictedList ==
  ASSUME NEW t \in [Pages -> Entry], IsFiniteSet(Listed(t))
  PROVE  /\ Evicted(t) \in [Pages -> Entry]
         /\ \A q \in Pages : Evicted(t)[q] \in {t[q], NoEntry}
         /\ Listed(Evicted(t)) \subseteq Listed(t) /\ IsFiniteSet(Listed(Evicted(t)))
         /\ Cardinality(Listed(t)) >= ThroughMax => Cardinality(Listed(Evicted(t))) >= ThroughMax
         /\ Listed(Evicted(t)) # Listed(t) => Cardinality(Listed(Evicted(t))) >= ThroughMax
<1> DEFINE L == Listed(t)
<1>1. Cardinality(L) \in Nat /\ ThroughMax \in Nat /\ NoEntry \in Entry
  BY FS_CardinalityType, PageAssumption DEF NoEntry, Entry
<1>2. CASE Cardinality(L) > ThroughMax
  <2>1. L # {}
    BY <1>1, <1>2, FS_EmptySet
  <2>2. Eldest(t) \in L
    BY <2>1, EldestIsLeast
  <2>3. Evicted(t) = [t EXCEPT ![Eldest(t)] = NoEntry]
    BY <1>2 DEF Evicted
  <2>4. \A q \in Pages : Evicted(t)[q] = IF q = Eldest(t) THEN NoEntry ELSE t[q]
    BY <2>3
  <2>5. Listed(Evicted(t)) = L \ {Eldest(t)}
    BY <2>2, <2>4 DEF Listed
  <2>6. IsFiniteSet(L \ {Eldest(t)}) /\ Cardinality(L \ {Eldest(t)}) = Cardinality(L) - 1
    BY <2>2, FS_RemoveElement
  <2>7. Evicted(t) \in [Pages -> Entry]
    BY <1>1, <2>3
  <2>8. \A q \in Pages : Evicted(t)[q] \in {t[q], NoEntry}
    BY <2>4
  <2>9. Cardinality(L \ {Eldest(t)}) >= ThroughMax
    BY <1>1, <1>2, <2>6
  <2> HIDE DEF L
  <2>10. QED
    BY <2>5, <2>6, <2>7, <2>8, <2>9 DEF L
<1>3. CASE ~(Cardinality(L) > ThroughMax)
  BY <1>1, <1>3 DEF Evicted
<1>4. QED
  BY <1>2, <1>3

(* The one that writes last stays. *)
LEMMA YoungestStays ==
  ASSUME NEW t \in [Pages -> Entry], IsFiniteSet(Listed(t)), NEW p \in Listed(t),
         \A q \in Listed(t) \ {p} : t[q].last < t[p].last
  PROVE  Evicted(t)[p] = t[p]
<1> DEFINE L == Listed(t)
<1>1. CASE Cardinality(L) > ThroughMax
  <2>1. PICK q \in L : q # p
    <3>1. SUFFICES ASSUME L = {p} PROVE FALSE
      OBVIOUS
    <3>2. Cardinality(L) = 1
      BY <3>1, FS_Singleton
    <3>3. QED
      BY <1>1, <3>2, PageAssumption
  <2>2. Eldest(t) \in L /\ t[Eldest(t)].last <= t[q].last
    BY <2>1, EldestIsLeast
  <2>3. t[q].last < t[p].last /\ t[q].last \in Nat /\ t[p].last \in Nat /\ t[Eldest(t)].last \in Nat
    BY <2>1, <2>2 DEF Listed, Entry
  <2>4. Eldest(t) # p
    BY <2>2, <2>3
  <2>5. QED
    BY <2>4 DEF Evicted, Listed
<1>2. CASE ~(Cardinality(L) > ThroughMax)
  BY <1>2 DEF Evicted
<1>3. QED
  BY <1>1, <1>2

(* Whom it lost, it has no room for, and holds nothing older than. *)
LEMMA LostIsFull ==
  ASSUME NEW t \in [Pages -> Entry], IsFiniteSet(Listed(t)),
         NEW q \in Listed(t) \ Listed(Evicted(t)), NEW at \in Nat, at <= t[q].last
  PROVE  FullSince(Evicted(t), q, at)
<1>1. WrittenSince(Evicted(t), t[q].last)
  BY EvictedWroteFirst
<1>2. Cardinality(Listed(Evicted(t))) >= ThroughMax /\ Evicted(t) \in [Pages -> Entry]
  BY EvictedList
<1>3. t[q].last \in Nat /\ \A r \in Listed(Evicted(t)) : Evicted(t)[r].last \in Nat
  BY <1>2 DEF Listed, Entry
<1>4. QED
  BY <1>1, <1>2, <1>3 DEF FullSince, WrittenSince

----------------------------------------------------------------------------
(* A head is one page's commit on the head it names. *)

Entered(through, p, t, at) == [through EXCEPT ![p] = [seq |-> t, last |-> at]]

(* The writes `cut` of the page p, the last of them t, come after all of   *)
(* its writes in the tree of g, and h adds them.                           *)
BuiltBy(p, cut, t, g, h) ==
  /\ h.prev = PairOf(g) /\ h.seq = g.seq + 1
  /\ h.root = g.root \cup ({p} \X cut)
  /\ t \in cut
  /\ \A i \in cut : i <= t /\ \A k \in Arrivals : <<p, k>> \in g.root => k < i
  /\ h.through = Evicted(Entered(g.through, p, t, h.seq))

Built(h, n) ==
  \E g \in Trusted(n), p \in Pages :
    \E cut \in SUBSET Arrivals : \E t \in Arrivals : BuiltBy(p, cut, t, g, h)

(* The list of a head is of its tree, and no younger than the head. *)
LedgerOK(h) ==
  /\ IsFiniteSet(Listed(h.through))
  /\ \A q \in Pages : /\ h.through[q].last <= h.seq
                      /\ h.through[q].seq > 0 => <<q, h.through[q].seq>> \in h.root

(* The list of h still tells what the head a was to tell of the page q, or *)
(* shows that it lost it.                                                  *)
Recalls(h, a, q) ==
  \/ h.through[q].seq >= a.through[q].seq /\ h.through[q].last >= a.seq
  \/ FullSince(h.through, q, a.seq)

(* u is the list of g with the entry of p, before it is kept to its bound. *)
ListsAlso(u, p, t, g, h) ==
  /\ u \in [Pages -> Entry] /\ h.through = Evicted(u)
  /\ \A q \in Pages \ {p} : u[q] = g.through[q] /\ u[q].last < h.seq
  /\ Listed(u) = Listed(g.through) \cup {p} /\ IsFiniteSet(Listed(u))
  /\ u[p] = [seq |-> t, last |-> h.seq] /\ u[p].seq = t /\ u[p].last = h.seq
  /\ t > 0 /\ t \in Nat
  /\ h.through[p] = u[p]

LEMMA EnteredIs ==
  ASSUME NEW g \in Head, NEW h \in Head, LedgerOK(g), NEW p \in Pages,
         NEW cut \in SUBSET Arrivals, NEW t \in Arrivals, BuiltBy(p, cut, t, g, h)
  PROVE  ListsAlso(Entered(g.through, p, t, h.seq), p, t, g, h)
<1> DEFINE own == [seq |-> t, last |-> h.seq]
           u == Entered(g.through, p, t, h.seq)
<1>1. /\ t \in Nat /\ t > 0 /\ h.seq \in Nat /\ g.seq \in Nat /\ h.seq = g.seq + 1
      /\ g.through \in [Pages -> Entry] /\ h.through = Evicted(u)
  BY WritesAssumption DEF Arrivals, Head, BuiltBy
<1>2. own \in Entry /\ own # NoEntry /\ own.seq = t /\ own.last = h.seq
  BY <1>1 DEF Entry, NoEntry
<1>3. u = [g.through EXCEPT ![p] = own]
  BY DEF Entered
<1> HIDE DEF own, u
<1>4. u \in [Pages -> Entry] /\ \A q \in Pages : u[q] = IF q = p THEN own ELSE g.through[q]
  BY <1>1, <1>2, <1>3
<1>5. Listed(u) = Listed(g.through) \cup {p}
  BY <1>2, <1>4 DEF Listed
<1>6. IsFiniteSet(Listed(u))
  BY <1>5, FS_AddElement DEF LedgerOK
<1>7. \A q \in Pages \ {p} : u[q].last < h.seq
  <2>1. ASSUME NEW q \in Pages \ {p} PROVE u[q].last < h.seq
    <3>1. u[q].last = g.through[q].last /\ g.through[q].last \in Nat /\ g.through[q].last <= g.seq
      BY <1>1, <1>4 DEF LedgerOK, Entry
    <3>2. QED
      BY <1>1, <3>1
  <2>2. QED
    BY <2>1
<1>8. Evicted(u)[p] = u[p]
  <2>1. p \in Listed(u) /\ u[p].last = h.seq /\ \A q \in Listed(u) \ {p} : u[q].last < u[p].last
    BY <1>2, <1>4, <1>5, <1>7 DEF Listed
  <2>2. QED
    BY <1>4, <1>6, <2>1, YoungestStays
<1>9. QED
  BY <1>1, <1>2, <1>4, <1>5, <1>6, <1>7, <1>8 DEF own, u, ListsAlso

LEMMA BuiltLedger ==
  ASSUME NEW g \in Head, NEW h \in Head, LedgerOK(g), NEW p \in Pages,
         NEW cut \in SUBSET Arrivals, NEW t \in Arrivals, BuiltBy(p, cut, t, g, h)
  PROVE  LedgerOK(h)
<1> DEFINE u == Entered(g.through, p, t, h.seq)
<1>1. ListsAlso(u, p, t, g, h)
  BY EnteredIs
<1> HIDE DEF u
<1>2. IsFiniteSet(Listed(h.through)) /\ \A q \in Pages : h.through[q] \in {u[q], NoEntry}
  BY <1>1, EvictedList DEF ListsAlso
<1>3. /\ h.seq \in Nat /\ NoEntry.seq = 0 /\ NoEntry.last = 0
      /\ h.root = g.root \cup ({p} \X cut) /\ t \in cut
  BY DEF Head, NoEntry, BuiltBy
<1>4. ASSUME NEW q \in Pages
      PROVE  u[q].last <= h.seq /\ (u[q].seq > 0 => <<q, u[q].seq>> \in h.root)
  <2>1. CASE q = p
    BY <1>1, <1>3, <2>1 DEF ListsAlso
  <2>2. CASE q # p
    <3>1. u[q] = g.through[q] /\ u[q].last < h.seq /\ u[q].last \in Nat
      BY <1>1, <2>2 DEF Entry, ListsAlso
    <3>2. g.through[q].seq > 0 => <<q, g.through[q].seq>> \in g.root
      BY DEF LedgerOK
    <3>3. QED
      BY <1>3, <3>1, <3>2
  <2>3. QED
    BY <2>1, <2>2
<1>5. QED
  BY <1>2, <1>3, <1>4 DEF LedgerOK

LEMMA BuiltRecalls ==
  ASSUME NEW g \in Head, NEW h \in Head, LedgerOK(g), NEW p \in Pages,
         NEW cut \in SUBSET Arrivals, NEW t \in Arrivals, BuiltBy(p, cut, t, g, h),
         NEW q \in Pages, NEW a, a.seq \in Nat, a.seq <= g.seq, a.through[q].seq \in Nat,
         a.through[q].seq > 0 => <<q, a.through[q].seq>> \in g.root, Recalls(g, a, q)
  PROVE  Recalls(h, a, q)
<1> DEFINE u == Entered(g.through, p, t, h.seq)
           at == a.seq
<1>1. ListsAlso(u, p, t, g, h)
  BY EnteredIs
<1> HIDE DEF u
<1>2. /\ u \in [Pages -> Entry] /\ h.through = Evicted(u)
      /\ Listed(u) = Listed(g.through) \cup {p}
      /\ IsFiniteSet(Listed(u)) /\ u[p].seq = t /\ u[p].last = h.seq /\ t \in Nat
      /\ h.through[p] = u[p]
      /\ \A r \in Pages : r # p => u[r] = g.through[r]
  BY <1>1 DEF ListsAlso
<1>3. /\ at \in Nat /\ g.seq \in Nat /\ h.seq \in Nat /\ h.seq = g.seq + 1 /\ at <= h.seq
      /\ \A r \in Pages : g.through[r].seq \in Nat /\ g.through[r].last \in Nat
  BY DEF Head, Entry, BuiltBy
<1>4. ASSUME q = p
      PROVE  a.through[p].seq <= t
  <2>1. CASE a.through[p].seq > 0
    <3>1. <<p, a.through[p].seq>> \in g.root /\ g.root \subseteq Pages \X Arrivals
      BY <1>4, <2>1 DEF Head, Writes
    <3>2. a.through[p].seq \in Arrivals
      BY <3>1
    <3>3. a.through[p].seq < t
      BY <3>1, <3>2 DEF BuiltBy, Arrivals
    <3>4. QED
      BY <1>2, <1>4, <3>3
  <2>2. CASE ~(a.through[p].seq > 0)
    BY <1>2, <1>4, <2>2
  <2>3. QED
    BY <2>1, <2>2
<1>5. CASE q = p
  <2>1. a.through[p].seq <= t
    BY <1>4, <1>5
  <2>2. QED
    BY <1>2, <1>3, <1>5, <2>1 DEF Recalls
<1>6. CASE q # p /\ FullSince(g.through, q, at)
  <2>1. /\ q \notin Listed(u) /\ Listed(g.through) \subseteq Listed(u)
        /\ Cardinality(Listed(g.through)) >= ThroughMax /\ WrittenSince(g.through, at)
    BY <1>2, <1>6 DEF FullSince
  <2>2. \A r \in Listed(u) : u[r].last >= at
    <3>1. ASSUME NEW r \in Listed(u) PROVE u[r].last >= at
      <4>1. CASE r = p
        BY <1>2, <1>3, <4>1
      <4>2. CASE r # p
        BY <1>2, <2>1, <4>2 DEF WrittenSince, Listed
      <4>3. QED
        BY <4>1, <4>2
    <3>2. QED
      BY <3>1
  <2>3. Cardinality(Listed(u)) >= ThroughMax
    <3>1. Cardinality(Listed(g.through)) <= Cardinality(Listed(u))
      BY <1>2, <2>1, FS_Subset
    <3>2. IsFiniteSet(Listed(g.through))
      BY DEF LedgerOK
    <3>3. Cardinality(Listed(u)) \in Nat /\ Cardinality(Listed(g.through)) \in Nat
      BY <1>2, <3>2, FS_CardinalityType
    <3>4. QED
      BY <2>1, <3>1, <3>3, PageAssumption
  <2>4. /\ Listed(Evicted(u)) \subseteq Listed(u) /\ Cardinality(Listed(Evicted(u))) >= ThroughMax
        /\ \A r \in Pages : Evicted(u)[r] \in {u[r], NoEntry}
    BY <1>2, <2>3, EvictedList
  <2>5. \A r \in Listed(Evicted(u)) : r \in Listed(u) /\ Evicted(u)[r] = u[r]
    BY <2>4 DEF Listed
  <2>6. FullSince(Evicted(u), q, at)
    BY <2>1, <2>2, <2>4, <2>5 DEF FullSince, WrittenSince
  <2>7. QED
    BY <1>2, <2>6 DEF Recalls
<1>7. CASE q # p /\ g.through[q].seq >= a.through[q].seq /\ g.through[q].last >= at
  <2>1. u[q] = g.through[q]
    BY <1>2, <1>7
  <2>2. CASE h.through[q] = u[q]
    BY <1>7, <2>1, <2>2 DEF Recalls
  <2>3. CASE h.through[q] # u[q]
    <3>1. h.through[q] = NoEntry /\ u[q] # NoEntry
      BY <1>2, <2>3, EvictedList
    <3>2. q \in Listed(u) \ Listed(Evicted(u)) /\ at <= u[q].last
      BY <1>2, <1>3, <1>7, <2>1, <3>1 DEF Listed
    <3>3. FullSince(Evicted(u), q, at)
      BY <1>2, <1>3, <3>2, LostIsFull
    <3>4. QED
      BY <1>2, <3>3 DEF Recalls
  <2>4. QED
    BY <2>2, <2>3
<1>8. QED
  BY <1>5, <1>6, <1>7 DEF Recalls

----------------------------------------------------------------------------
(* What a page waits for, and what it was told of its writes.              *)

(* A page that may still hear of its writes. *)
Alive(s) == s.up # "Gone" \/ Committing(s)

(* The page waits for the head h to land. *)
Sends(s, h) == s.commit.stage = "Heading" /\ s.commit.seq = h.seq /\ s.commit.root = h.root

(* What h would add to the tree still waits, at a page that waits for h.   *)
AwaitedAt(h, q, s) ==
  \A i \in Arrivals :
    <<q, i>> \in h.root /\ <<q, i>> \notin h.prev.root =>
      s.told[i] = "Queued" /\ (Alive(s) => Sends(s, h))

Awaited(h) == \A q \in Pages : AwaitedAt(h, q, page[q])

(* The heads that may still be signed, and those that may still land. *)
Pending(n) ==
  {h \in asked[n] : h.prev.seq >= Top(n)} \cup {h \in sigs[n] : h.seq > reg[n].seq}

(* The commit of p in flight was signed. *)
Landed(p, n) == \E b \in sigs[n] : b.seq = page[p].commit.seq /\ b.root = page[p].commit.root

LedgerInv ==
  \A n \in Nodes :
    /\ \A h \in sigs[n] : Built(h, n)
    /\ \A h \in asked[n] : h.prev.seq >= Top(n) => Built(h, n)
    /\ \A h \in Pending(n) : Awaited(h)
    /\ \A h \in Trusted(n) : LedgerOK(h)
    /\ \A a, h \in Trusted(n) : a.seq <= h.seq =>
         \A q \in Pages : a.through[q].last = a.seq => Recalls(h, a, q)

FateOK(p) ==
  LET s == page[p]
      c == page[p].commit
      n == NodeOf[p]
  IN  /\ \A i \in Arrivals : s.told[i] \in {"Lost", "Failed", "Conflict"} =>
           \A a \in Trusted(n) : <<p, i>> \notin a.root
      /\ Alive(s) => \A i \in Arrivals : s.told[i] = "Queued" =>
           \A a \in Trusted(n) : <<p, i>> \in a.root =>
             c.stage = "Heading" /\ i \in c.cut /\ Landed(p, n)
      /\ Committing(s) =>
           \A k \in Arrivals : <<p, k>> \in c.base => \A i \in c.cut : k < i

FateInv == \A p \in Pages : FateOK(p)

OneBase == Base /\ LogInv /\ ChainInv /\ LedgerInv /\ FateInv

LEMMA OneBaseInit == Init => LedgerInv /\ FateInv
<1> SUFFICES ASSUME Init PROVE LedgerInv /\ FateInv
  OBVIOUS
<1>1. ASSUME NEW n \in Nodes
      PROVE  Trusted(n) = {NoHead} /\ asked[n] = {} /\ sigs[n] = {}
  BY DEF Init, Trusted
<1>2. /\ NoHead.root = {} /\ NoHead.seq = 0 /\ Listed(NoHead.through) = {}
      /\ \A q \in Pages : NoHead.through[q].seq = 0 /\ NoHead.through[q].last = 0
  BY DEF NoHead, NoThrough, NoEntry, Listed
<1>3. LedgerOK(NoHead)
  BY <1>2, FS_EmptySet DEF LedgerOK
<1>4. \A q \in Pages : Recalls(NoHead, NoHead, q)
  BY <1>2 DEF Recalls
<1>5. LedgerInv
  BY <1>1, <1>3, <1>4 DEF LedgerInv, Pending
<1>6. \A p \in Pages : /\ NodeOf[p] \in Nodes /\ page[p].commit.stage = "Idle"
                       /\ \A i \in Arrivals : page[p].told[i] = "None"
  BY NodesAssumption DEF Init, InitPage, NoCommit
<1>7. FateInv
  BY <1>1, <1>2, <1>6 DEF FateInv, FateOK, Committing
<1>8. QED
  BY <1>5, <1>7

(* With one node, the heads of a seq are one, wherever they are.           *)
LEMMA OneHead ==
  ASSUME Base, ChainInv, NEW n \in Nodes, NEW a \in Trusted(n) \cup held[n],
         NEW b \in Trusted(n) \cup held[n]
  PROVE  /\ a \in Trusted(n) /\ a \in Head /\ a.seq \in Nat /\ a.seq <= Top(n) /\ Top(n) \in Nat
         /\ a.seq = b.seq => a = b
         /\ a.seq <= b.seq => a.root \subseteq b.root
BY TrustedBelow, TopIs DEF ChainInv, Base

(* The head a page's commit builds on. *)
LEMMA BuildsOn ==
  ASSUME Base, LogInv, ChainInv, NEW p \in Pages, Committing(page[p])
  PROVE  LET c == page[p].commit
         IN  /\ c \in Commit /\ c.seq \in Nat /\ c.through \in c.cut /\ c.cut \subseteq Arrivals
             /\ c.root = c.base \cup ({p} \X c.cut) /\ \A i \in c.cut : i <= c.through
             /\ c.through \in Nat /\ c.through > 0
             /\ c.cut \subseteq Queue(page[p])
             /\ \E g \in held[NodeOf[p]] : g.seq + 1 = c.seq /\ g.root = c.base
<1> DEFINE s == page[p]
           c == page[p].commit
           n == NodeOf[p]
<1>1. /\ s \in PageState /\ OK(s) /\ Known(s.pub, held[n]) /\ held[n] \subseteq Head
      /\ Tidy(Scene(p, s, FALSE), s)
  BY GoodPage DEF Base, SoundInv, SoundPage, Sane, Good, Grounded, World
<1>2. c \in Commit /\ c.seq = s.pub.seq + 1 /\ c.base = s.pub.root
  BY <1>1 DEF OK, LaneOK, PageState
<1>3. Formed(p)
  BY DEF LogInv
<1>4. PICK g \in held[n] : s.pub = PairOf(g)
  BY <1>1 DEF Known
<1>5. g.seq + 1 = c.seq /\ g.root = c.base /\ g.seq \in Nat
  BY <1>1, <1>2, <1>4 DEF PairOf, Head
<1>6. c.cut \subseteq Arrivals /\ c.cut \subseteq Nat /\ c.through \in c.cut
  BY <1>2, <1>3, WritesAssumption DEF Commit, Arrivals, Formed
<1>7. c.through > 0 /\ c.cut \subseteq Queue(s)
  BY <1>1 DEF Tidy
<1>8. QED
  BY <1>2, <1>3, <1>5, <1>6, <1>7 DEF Formed

(* A write a page waits for is in the tree from the head of its commit on. *)
LEMMA LandedIs ==
  ASSUME OneBase, NEW p \in Pages, Committing(page[p]), NEW b \in sigs[NodeOf[p]],
         b.seq = page[p].commit.seq, b.root = page[p].commit.root
  PROVE  b.through[p].seq = page[p].commit.through /\ b.through[p].last = b.seq
<1> DEFINE c == page[p].commit
           n == NodeOf[p]
<1>1. /\ c \in Commit /\ c.seq \in Nat /\ c.through \in c.cut /\ c.cut \subseteq Arrivals
      /\ c.root = c.base \cup ({p} \X c.cut) /\ \A i \in c.cut : i <= c.through
      /\ c.through \in Nat
  BY BuildsOn DEF OneBase
<1>2. PICK k \in held[n] : k.seq + 1 = c.seq /\ k.root = c.base
  BY BuildsOn DEF OneBase
<1>3. n \in Nodes /\ Built(b, n)
  BY NodesAssumption DEF OneBase, LedgerInv
<1>4. PICK g \in Trusted(n), q \in Pages :
        \E cut \in SUBSET Arrivals : \E t \in Arrivals : BuiltBy(q, cut, t, g, b)
  BY <1>3 DEF Built
<1>5. PICK cut \in SUBSET Arrivals, t \in Arrivals : BuiltBy(q, cut, t, g, b)
  BY <1>4
<1>6. /\ k \in Trusted(n) /\ k.seq \in Nat /\ g.seq \in Nat /\ g \in Head /\ (k.seq = g.seq => k = g)
      /\ b \in Trusted(n) /\ b \in Head
  <2>1. b \in Trusted(n) \cup held[n] /\ k \in Trusted(n) \cup held[n] /\ g \in Trusted(n) \cup held[n]
    BY DEF Trusted
  <2>2. QED
    BY <1>3, <2>1, OneHead DEF OneBase
<1>7. k = g
  BY <1>2, <1>5, <1>6 DEF BuiltBy
<1>8. /\ b.root = g.root \cup ({q} \X cut) /\ b.root = g.root \cup ({p} \X c.cut)
      /\ \A i \in cut : <<q, i>> \notin g.root
      /\ \A i \in c.cut : <<p, i>> \notin g.root
  <2>0. \A i \in Arrivals : ~(i < i)
    BY WritesAssumption DEF Arrivals
  <2>1. \A i \in cut : <<q, i>> \notin g.root
    BY <1>5, <2>0 DEF BuiltBy
  <2>2. \A i \in c.cut : <<p, i>> \notin g.root
    <3>1. \A j \in Arrivals : <<p, j>> \in c.base => \A i \in c.cut : j < i
      BY DEF OneBase, FateInv, FateOK
    <3>2. QED
      BY <1>1, <1>2, <1>7, <2>0, <3>1
  <2>3. QED
    BY <1>1, <1>2, <1>5, <1>7, <2>1, <2>2 DEF BuiltBy
<1>9. q = p /\ cut \subseteq c.cut /\ c.cut \subseteq cut
  <2>1. ASSUME NEW i \in cut PROVE q = p /\ i \in c.cut
    <3>1. <<q, i>> \in g.root \cup ({p} \X c.cut) /\ <<q, i>> \notin g.root
      BY <1>8
    <3>2. QED
      BY <3>1
  <2>2. ASSUME NEW i \in c.cut PROVE i \in cut
    <3>1. <<p, i>> \in g.root \cup ({q} \X cut) /\ <<p, i>> \notin g.root
      BY <1>8
    <3>2. QED
      BY <3>1
  <2>3. QED
    BY <1>1, <2>1, <2>2
<1>10. t = c.through
  <2>1. t \in cut /\ \A i \in cut : i <= t
    BY <1>5 DEF BuiltBy
  <2>2. t <= c.through /\ c.through <= t /\ t \in Nat
    BY <1>1, <1>9, <2>1, WritesAssumption DEF Arrivals
  <2>3. QED
    BY <1>1, <2>2
<1>11. ListsAlso(Entered(g.through, p, t, b.seq), p, t, g, b)
  <2>1. LedgerOK(g)
    BY <1>3 DEF OneBase, LedgerInv
  <2>2. BuiltBy(p, cut, t, g, b)
    BY <1>5, <1>9
  <2>3. QED
    BY <1>6, <2>1, <2>2, EnteredIs
<1>12. QED
  BY <1>10, <1>11 DEF ListsAlso

(* A head that is signed now was asked for, and builds on the truth. *)
LEMMA NewlySigned ==
  ASSUME OneBase, Base', [Next]_vars, NEW n \in Nodes, NEW h \in sigs'[n], h \notin sigs[n]
  PROVE  /\ h \in asked[n] /\ h \in Pending(n) /\ h \in Head /\ h.seq = Top(n) + 1
         /\ \E g \in Trusted(n), p \in Pages :
              \E cut \in SUBSET Arrivals : \E t \in Arrivals :
                BuiltBy(p, cut, t, g, h) /\ g.seq = Top(n)
<1>1. Top(n) \in Nat /\ sigs'[n] \subseteq Head
  BY TopIs, TypeNext DEF OneBase, Base
<1>2. h \in asked[n] /\ h.prev.seq = Top(n)
  BY HeadsNext DEF OneBase
<1>3. Built(h, n)
  BY <1>1, <1>2 DEF OneBase, LedgerInv
<1>4. \E g \in Trusted(n), p \in Pages :
        \E cut \in SUBSET Arrivals : \E t \in Arrivals :
          BuiltBy(p, cut, t, g, h) /\ g.seq = Top(n)
  BY <1>2, <1>3 DEF Built, BuiltBy, PairOf
<1>5. h.seq = Top(n) + 1
  BY <1>4 DEF BuiltBy
<1>6. QED
  BY <1>1, <1>2, <1>4, <1>5 DEF Pending

(* A step that changes no page's commit or tale, and asks nothing: the     *)
(* signer signs, the Register moves.                                       *)
QuietStep ==
  /\ UNCHANGED asked
  /\ \A q \in Pages : /\ page'[q].told = page[q].told /\ page'[q].commit = page[q].commit
                      /\ page'[q].up = page[q].up
  /\ \A n \in Nodes : reg[n].seq <= reg'[n].seq

LEMMA QuietLedger ==
  ASSUME OneBase, Base', ChainInv', [Next]_vars, QuietStep
  PROVE  LedgerInv'
<1>1. ASSUME NEW n \in Nodes
      PROVE  /\ Trusted(n) \subseteq Trusted(n)' /\ Top(n) \in Nat /\ Top(n)' \in Nat
             /\ Top(n) <= Top(n)' /\ reg[n].seq \in Nat /\ reg'[n].seq \in Nat
             /\ Trusted(n) \subseteq Head /\ sigs[n] \subseteq Head /\ asked[n] \subseteq Head
  <2>1. Trusted(n) \subseteq Head
    BY OneHead DEF OneBase
  <2>2. reg[n] \in Head /\ reg'[n] \in Head /\ sigs[n] \subseteq Head /\ asked[n] \subseteq Head
    BY TypeInvPages, TypeNext DEF OneBase, Base
  <2>3. QED
    BY <2>1, <2>2, Growing DEF OneBase, Base, Head
<1>2. \A n \in Nodes : \A h : Built(h, n) => Built(h, n)'
  BY <1>1 DEF Built
<1>3. \A h : Awaited(h) => Awaited(h)'
  BY DEF QuietStep, Awaited, AwaitedAt, Alive, Committing, Sends
<1>4. ASSUME NEW n \in Nodes, NEW h \in sigs'[n]
      PROVE  Built(h, n)
  <2>1. CASE h \in sigs[n]
    BY <2>1 DEF OneBase, LedgerInv
  <2>2. CASE h \notin sigs[n]
    BY <2>2, NewlySigned DEF Built
  <2>3. QED
    BY <2>1, <2>2
<1>5. ASSUME NEW n \in Nodes, NEW h \in asked[n], h.prev.seq >= Top(n)'
      PROVE  h.prev.seq >= Top(n)
  <2>1. h.prev.seq \in Nat
    BY <1>1 DEF Head
  <2>2. QED
    BY <1>1, <1>5, <2>1
<1>6. ASSUME NEW n \in Nodes, NEW h \in Pending(n)'
      PROVE  h \in Pending(n)
  <2>1. CASE h \in asked'[n] /\ h.prev.seq >= Top(n)'
    BY <1>5, <2>1 DEF Pending, QuietStep
  <2>2. CASE h \in sigs'[n] /\ h.seq > reg'[n].seq
    <3>1. CASE h \in sigs[n]
      <4>1. h.seq \in Nat
        BY <1>1, <3>1 DEF Head
      <4>2. reg[n].seq <= reg'[n].seq
        BY DEF QuietStep
      <4>3. QED
        BY <1>1, <2>2, <3>1, <4>1, <4>2 DEF Pending
    <3>2. CASE h \notin sigs[n]
      BY <2>2, <3>2, NewlySigned
    <3>3. QED
      BY <3>1, <3>2
  <2>3. QED
    BY <2>1, <2>2 DEF Pending
<1>7. ASSUME NEW n \in Nodes, NEW h \in Trusted(n)'
      PROVE  LedgerOK(h)
  <2>1. CASE h \in Trusted(n)
    BY <2>1 DEF OneBase, LedgerInv
  <2>2. CASE h \notin Trusted(n)
    <3>1. h \in sigs'[n] /\ h \notin sigs[n]
      BY <2>2 DEF Trusted
    <3>2. PICK g \in Trusted(n), p \in Pages :
            \E cut \in SUBSET Arrivals : \E t \in Arrivals : BuiltBy(p, cut, t, g, h)
      BY <3>1, NewlySigned
    <3>3. g \in Head /\ h \in Head /\ LedgerOK(g)
      BY <1>1, <3>1, NewlySigned DEF OneBase, LedgerInv
    <3>4. QED
      BY <3>2, <3>3, BuiltLedger
  <2>3. QED
    BY <2>1, <2>2
<1>8. ASSUME NEW n \in Nodes, NEW a \in Trusted(n)', NEW h \in Trusted(n)', a.seq <= h.seq,
             NEW q \in Pages, a.through[q].last = a.seq
      PROVE  Recalls(h, a, q)
  <2>1. \A x \in Trusted(n) : x \in Head /\ x.seq \in Nat /\ x.seq <= Top(n)
    BY OneHead DEF OneBase
  <2>2. \A x \in Trusted(n)' : x \notin Trusted(n) =>
          x \in sigs'[n] /\ x \notin sigs[n] /\ x.seq = Top(n) + 1 /\ x \in Head
    BY NewlySigned DEF Trusted
  <2>3. CASE h \in Trusted(n)
    <3>1. a \in Trusted(n)
      BY <1>1, <1>8, <2>1, <2>2, <2>3
    <3>2. QED
      BY <1>8, <2>3, <3>1 DEF OneBase, LedgerInv
  <2>4. CASE h \notin Trusted(n) /\ a \in Trusted(n)
    <3>1. PICK g \in Trusted(n), p \in Pages :
            \E cut \in SUBSET Arrivals : \E t \in Arrivals :
              BuiltBy(p, cut, t, g, h) /\ g.seq = Top(n)
      BY <2>2, <2>4, NewlySigned
    <3>2. g \in Head /\ h \in Head /\ LedgerOK(g) /\ a \in Head /\ a.seq <= g.seq /\ a.seq \in Nat
      BY <2>1, <2>2, <2>4, <3>1 DEF OneBase, LedgerInv
    <3>3. Recalls(g, a, q)
      BY <1>8, <2>4, <3>1, <3>2 DEF OneBase, LedgerInv
    <3>4. a.through[q].seq \in Nat /\ (a.through[q].seq > 0 => <<q, a.through[q].seq>> \in g.root)
      <4>1. a.root \subseteq g.root
        BY <2>4, <3>1, <3>2, OneHead DEF OneBase
      <4>2. LedgerOK(a)
        BY <2>4 DEF OneBase, LedgerInv
      <4>3. QED
        BY <3>2, <4>1, <4>2 DEF LedgerOK, Head, Entry
    <3>5. QED
      BY <3>1, <3>2, <3>3, <3>4, BuiltRecalls
  <2>5. CASE h \notin Trusted(n) /\ a \notin Trusted(n)
    <3>1. a = h
      BY <2>2, <2>5 DEF ChainInv
    <3>2. h.through[q].seq \in Nat /\ h.seq \in Nat
      BY <2>2, <2>5 DEF Head, Entry
    <3>3. QED
      BY <1>8, <3>1, <3>2 DEF Recalls
  <2>6. QED
    BY <2>3, <2>4, <2>5
<1>9. QED
  <2>1. ASSUME NEW n \in Nodes
        PROVE  /\ \A h \in sigs'[n] : Built(h, n)'
               /\ \A h \in asked'[n] : h.prev.seq >= Top(n)' => Built(h, n)'
               /\ \A h \in Pending(n)' : Awaited(h)'
               /\ \A h \in Trusted(n)' : LedgerOK(h)
               /\ \A a, h \in Trusted(n)' : a.seq <= h.seq =>
                    \A q \in Pages : a.through[q].last = a.seq => Recalls(h, a, q)
    <3>1. \A h \in asked'[n] : h.prev.seq >= Top(n)' => Built(h, n)
      BY <1>5 DEF QuietStep, OneBase, LedgerInv
    <3>2. \A h \in Pending(n)' : Awaited(h)
      BY <1>6 DEF OneBase, LedgerInv
    <3>3. QED
      BY <1>2, <1>3, <1>4, <1>7, <1>8, <3>1, <3>2
  <2>2. QED
    BY <2>1 DEF LedgerInv

LEMMA QuietFate ==
  ASSUME OneBase, Base', [Next]_vars, QuietStep
  PROVE  FateInv'
<1> SUFFICES ASSUME NEW p \in Pages PROVE FateOK(p)'
  BY DEF FateInv
<1> DEFINE s == page[p]
           c == page[p].commit
           n == NodeOf[p]
<1>1. /\ n \in Nodes /\ page'[p].told = s.told /\ page'[p].commit = c /\ page'[p].up = s.up
      /\ Trusted(n) \subseteq Trusted(n)' /\ FateOK(p)
  BY NodesAssumption, Growing DEF QuietStep, OneBase, Base, FateInv
<1>2. ASSUME NEW a \in Trusted(n)', a \notin Trusted(n), NEW i \in Arrivals, <<p, i>> \in a.root
      PROVE  \/ \E g \in Trusted(n) : <<p, i>> \in g.root
             \/ /\ s.told[i] = "Queued"
                /\ Alive(s) => c.stage = "Heading" /\ i \in c.cut /\ c.seq = a.seq /\ c.root = a.root
  <2>1. a \in sigs'[n] /\ a \notin sigs[n]
    BY <1>2 DEF Trusted
  <2>2. a \in Pending(n) /\ a.seq = Top(n) + 1 /\ Top(n) \in Nat
    BY <1>1, <2>1, NewlySigned, TopIs DEF OneBase, Base
  <2>3. PICK g \in Trusted(n) : a.prev = PairOf(g) /\ g.seq = Top(n)
    BY <1>1, <2>1, NewlySigned DEF BuiltBy
  <2>4. CASE <<p, i>> \in g.root
    BY <2>4
  <2>5. CASE <<p, i>> \notin g.root
    <3>1. Awaited(a) /\ a.prev.root = g.root
      BY <1>1, <2>2, <2>3 DEF OneBase, LedgerInv, PairOf
    <3>2. s.told[i] = "Queued" /\ (Alive(s) => Sends(s, a))
      BY <1>2, <2>5, <3>1 DEF Awaited, AwaitedAt
    <3>3. ASSUME Alive(s)
          PROVE  c.stage = "Heading" /\ i \in c.cut /\ c.seq = a.seq /\ c.root = a.root
      <4>1. c.stage = "Heading" /\ c.seq = a.seq /\ c.root = a.root /\ Committing(s)
        BY <3>2, <3>3 DEF Sends, Committing
      <4>2. PICK k \in held[n] : k.seq + 1 = c.seq /\ k.root = c.base
        BY <4>1, BuildsOn DEF OneBase
      <4>3. k = g
        <5>1. k.seq \in Nat /\ (k.seq = g.seq => k = g)
          BY <1>1, OneHead DEF OneBase
        <5>2. QED
          BY <2>2, <2>3, <4>1, <4>2, <5>1
      <4>4. c.root = g.root \cup ({p} \X c.cut)
        BY <4>1, <4>2, <4>3, BuildsOn DEF OneBase
      <4>5. QED
        BY <1>2, <2>5, <4>1, <4>4
    <3>4. QED
      BY <3>2, <3>3
  <2>6. QED
    BY <2>4, <2>5
<1>3. ASSUME NEW i \in Arrivals, s.told[i] \in {"Lost", "Failed", "Conflict"}, NEW a \in Trusted(n)'
      PROVE  <<p, i>> \notin a.root
  BY <1>1, <1>2, <1>3 DEF FateOK
<1>4. ASSUME Alive(s), NEW i \in Arrivals, s.told[i] = "Queued", NEW a \in Trusted(n)', <<p, i>> \in a.root
      PROVE  c.stage = "Heading" /\ i \in c.cut
             /\ \E b \in sigs'[n] : b.seq = c.seq /\ b.root = c.root
  <2>1. CASE \E g \in Trusted(n) : <<p, i>> \in g.root
    <3>1. c.stage = "Heading" /\ i \in c.cut /\ Landed(p, n)
      BY <1>1, <1>4, <2>1 DEF FateOK
    <3>2. PICK b \in sigs[n] : b.seq = c.seq /\ b.root = c.root
      BY <3>1 DEF Landed
    <3>3. b \in sigs'[n] \/ b.seq = 0
      BY <1>1 DEF Trusted, NoHead
    <3>4. b.seq # 0
      <4>1. b.seq = b.prev.seq + 1 /\ b \in Head
        BY <1>1, TypeInvPages DEF OneBase, Base, SoundInv
      <4>2. QED
        BY <4>1 DEF Head
    <3>5. QED
      BY <3>1, <3>2, <3>3, <3>4
  <2>2. CASE ~\E g \in Trusted(n) : <<p, i>> \in g.root
    <3>1. a \notin Trusted(n)
      BY <1>4, <2>2
    <3>2. a \in sigs'[n]
      BY <1>1, <3>1 DEF Trusted
    <3>3. QED
      BY <1>2, <1>4, <2>2, <3>1, <3>2
  <2>3. QED
    BY <2>1, <2>2
<1>5. QED
  BY <1>1, <1>3, <1>4 DEF FateOK, Landed, Alive, Committing

(* The head h tells the page of a commit that was signed, if it is not     *)
(* older: that it landed, or that it has lost sight of it.                 *)
LEMMA WitnessKnows ==
  ASSUME OneBase, NEW p \in Pages, Committing(page[p]), Landed(p, NodeOf[p]),
         NEW h \in Trusted(NodeOf[p]), page[p].commit.seq <= h.seq
  PROVE  LET c == page[p].commit
             w == WitnessOf(p, h, c.seq)
         IN  (w.kind = "Through" /\ w.seq >= c.through) \/ w.kind = "Unknown"
<1> DEFINE c == page[p].commit
           n == NodeOf[p]
           w == WitnessOf(p, h, c.seq)
<1>1. PICK b \in sigs[n] : b.seq = c.seq /\ b.root = c.root
  BY DEF Landed
<1>2. b.through[p].seq = c.through /\ b.through[p].last = b.seq
  BY <1>1, LandedIs
<1>3. n \in Nodes /\ b \in Trusted(n) /\ LedgerOK(h) /\ h \in Head
  <2>1. n \in Nodes /\ b \in Trusted(n)
    BY NodesAssumption DEF Trusted
  <2>2. QED
    BY <2>1, OneHead DEF OneBase, LedgerInv
<1>4. Recalls(h, b, p)
  BY <1>1, <1>2, <1>3 DEF OneBase, LedgerInv
<1>5. c.seq \in Nat /\ c.through \in Nat /\ c.through > 0
  BY BuildsOn DEF OneBase
<1>6. /\ \A k : Through(k).kind = "Through" /\ Through(k).seq = k
      /\ Unwitnessed.kind = "Unknown"
  BY DEF Through, Unwitnessed
<1>7. CASE h.through[p].seq >= c.through
  <2>1. p \in Listed(h.through)
    BY <1>3, <1>5, <1>7 DEF Listed, NoEntry
  <2>2. w = Through(h.through[p].seq)
    BY <2>1 DEF WitnessOf
  <2>3. QED
    BY <1>6, <1>7, <2>2
<1>8. CASE FullSince(h.through, p, c.seq)
  <2>1. /\ p \notin Listed(h.through) /\ Cardinality(Listed(h.through)) >= ThroughMax
        /\ \A q \in Listed(h.through) : h.through[q].last >= c.seq
    BY <1>8 DEF FullSince, WrittenSince
  <2>2. Cardinality(Listed(h.through)) \in Nat /\ ThroughMax \in Nat
    BY <1>3, FS_CardinalityType, PageAssumption DEF LedgerOK
  <2>3. ~(Cardinality(Listed(h.through)) < ThroughMax)
    BY <2>1, <2>2
  <2>4. \A q \in Listed(h.through) : ~(h.through[q].last < c.seq)
    <3>1. \A q \in Listed(h.through) : h.through[q].last \in Nat
      BY <1>3 DEF Listed, Head, Entry
    <3>2. QED
      BY <1>5, <2>1, <3>1
  <2>5. w = Unwitnessed
    BY <2>1, <2>3, <2>4 DEF WitnessOf
  <2>6. QED
    BY <1>6, <2>5
<1>9. QED
  BY <1>1, <1>2, <1>4, <1>7, <1>8 DEF Recalls

(* A commit whose head was sent ends only when the Register is past it; if *)
(* it was signed, then as one that landed, or that nobody can tell of.     *)
LEMMA EndsPast ==
  ASSUME OneBase, OneLog, NEW p \in Pages, NEW e, Moves(p, e), Committing(e.was),
         Concludes(p, e, page'[p].told), page[p].commit.stage = "Heading"
  PROVE  /\ page[p].commit.seq <= reg[NodeOf[p]].seq
         /\ Landed(p, NodeOf[p]) =>
              \A i \in page[p].commit.cut : page'[p].told[i] \in {"Published", "Unknown"}
<1> DEFINE c == page[p].commit
           n == NodeOf[p]
           f == e.was.lastHead
           told == page'[p].told
<1>1. /\ n \in Nodes /\ page[p] \in PageState /\ e.was.commit = c /\ e.was.pub = page[p].pub
      /\ e.was.ans = page[p].ans /\ e.H = held[n] /\ e.T = Top(n) /\ e.was \in PageState
      /\ f \in held[n] /\ Known(page[p].pub, held[n]) /\ Committing(page[p]) /\ ~e.final
      /\ c.cut \subseteq Arrivals /\ c.seq \in Nat
  <2>1. At(p, e) /\ Setting(e) /\ Meets(e.was, page[p])
    BY DEF Moves, Track
  <2>2. n \in Nodes /\ page[p] \in PageState /\ Known(page[p].pub, held[n]) /\ Committing(page[p])
    BY GoodPage DEF OneBase, Base, Good, Grounded, Committing
  <2>3. e.was \in PageState /\ f \in e.H
    BY <2>1 DEF Setting, Sane, Good, OK, Tidy
  <2>4. e.H = held[n] /\ e.T = Top(n) /\ ~e.final
    BY <2>1, SceneIs DEF OneLog
  <2>5. c.cut \subseteq Arrivals /\ c.seq \in Nat
    BY <2>2, BuildsOn DEF OneBase
  <2>6. QED
    BY <2>1, <2>2, <2>3, <2>4, <2>5 DEF Meets
<1>2. f \in Trusted(n) /\ f.seq \in Nat /\ f.seq <= reg[n].seq /\ reg[n].seq \in Nat /\ f \in Head
  <2>1. f \in Trusted(n) /\ f.seq \in Nat /\ f \in Head
    BY <1>1, OneHead DEF OneBase
  <2>2. f.seq <= reg[n].seq /\ reg[n].seq \in Nat
    BY <1>1, TypeInvPages DEF OneBase, Base, GroundInv, Head
  <2>3. QED
    BY <2>1, <2>2
<1>3. ASSUME Passed(e) PROVE c.seq <= f.seq
  <2>1. CASE f.seq >= c.seq
    BY <1>1, <1>2, <2>1
  <2>2. CASE f.seq = page[p].pub.seq /\ PairOf(f) # page[p].pub
    <3>1. PICK k \in held[n] : page[p].pub = PairOf(k)
      BY <1>1 DEF Known
    <3>2. f.seq = k.seq
      BY <2>2, <3>1 DEF PairOf
    <3>3. f = k
      BY <1>1, <3>2, OneHead DEF OneBase
    <3>4. QED
      BY <2>2, <3>1, <3>3
  <2>3. QED
    BY <1>1, <1>3, <2>1, <2>2 DEF Passed
<1>4. ASSUME NEW ws, NEW fate, told = Tell(e.was, ws, fate).told
      PROVE  \A i \in Arrivals : i \in ws => told[i] = fate
  <2>1. told = [i \in Arrivals |-> IF i \in ws THEN fate ELSE e.was.told[i]]
    BY <1>1, <1>4, TellTold
  <2>2. QED
    BY <2>1
<1>5. CASE PairOf(f) = [seq |-> c.seq, root |-> c.root] /\ told = Tell(e.was, c.cut, "Published").told
  <2>1. f.seq = c.seq
    BY <1>5 DEF PairOf
  <2>2. QED
    BY <1>1, <1>2, <1>4, <1>5, <2>1
<1>6. CASE Passed(e) /\ told = Tell(e.was, c.cut, "Published").told
  BY <1>1, <1>2, <1>3, <1>4, <1>6
<1>7. CASE Passed(e) /\ told = Tell(e.was, c.cut, "Unknown").told
  BY <1>1, <1>2, <1>3, <1>4, <1>7
<1>8. CASE Passed(e) /\ ~Shown(p, e) /\ ~Blind(p, e)
  <2>1. c.seq <= f.seq
    BY <1>3, <1>8
  <2>2. SUFFICES ASSUME Landed(p, n) PROVE FALSE
    BY <1>1, <1>2, <2>1
  <2>3. \/ WitnessOf(p, f, c.seq).kind = "Through" /\ WitnessOf(p, f, c.seq).seq >= c.through
        \/ WitnessOf(p, f, c.seq).kind = "Unknown"
    BY <1>1, <1>2, <2>1, <2>2, WitnessKnows
  <2>4. QED
    BY <1>1, <1>8, <2>3 DEF Shown, Blind
<1>9. CASE \/ c.stage = "Racing" \/ e.was.ans.kind = "Final"
           \/ e.heard /\ e.T > f.seq + 1
  <2>1. e.was.ans.kind # "Final"
    BY <1>1 DEF Moves, Track, Setting, Sane, Lands
  <2>2. e.heard => f = reg[n]
    BY DEF Moves, OneLog
  <2>3. Top(n) <= reg[n].seq + 1
    <3>1. rec[n].seq <= reg[n].seq + 1 /\ Top(n) \in {rec[n].seq, reg[n].seq}
      BY <1>1, TopIs DEF OneBase, Base, SignerInv, RegisterNeverTwoBehind
    <3>2. QED
      BY <1>2, <3>1
  <2>4. Top(n) \in Nat
    BY <1>1, TopIs DEF OneBase, Base
  <2>5. QED
    BY <1>1, <1>2, <1>9, <2>1, <2>2, <2>3, <2>4
<1>10. QED
  <2>1. \/ PairOf(f) = [seq |-> c.seq, root |-> c.root] /\ told = Tell(e.was, c.cut, "Published").told
        \/ Passed(e) /\ told = Tell(e.was, c.cut, "Published").told
        \/ Passed(e) /\ told = Tell(e.was, c.cut, "Unknown").told
        \/ Passed(e) /\ ~Shown(p, e) /\ ~Blind(p, e)
        \/ c.stage = "Racing" \/ e.was.ans.kind = "Final"
        \/ e.heard /\ e.T > f.seq + 1
    BY <1>1, Zenon DEF Concludes
  <2>2. QED
    BY <1>5, <1>6, <1>7, <1>8, <1>9, <2>1

(* What a page asks for that is not behind the truth is built on it. *)
LEMMA AskBuilt ==
  ASSUME OneBase, OneLog, NEW p \in Pages, NEW e, Moves(p, e), NEW h \in Head,
         AskOf(p, e, e.was.commit, h), h.prev.seq >= Top(NodeOf[p])
  PROVE  /\ Built(h, NodeOf[p])
         /\ h.root = h.prev.root \cup ({p} \X page[p].commit.cut)
<1> DEFINE c == page[p].commit
           n == NodeOf[p]
<1>1. /\ e.H = held[n] /\ n \in Nodes /\ page[p] \in PageState /\ c \in Commit /\ e.now
      /\ held[n] \subseteq Head
  <2>1. page[p] \in PageState /\ n \in Nodes /\ held[n] \subseteq Head
    BY GoodPage DEF OneBase, Base, World
  <2>2. e.H = held[n] /\ e.now = (p \notin Sleepy)
    BY SceneIs DEF Moves
  <2>3. QED
    BY <2>1, <2>2 DEF OneLog, PageState
<1>2. /\ e.was.commit.seq = c.seq /\ e.was.commit.root = c.root /\ e.was.commit.base = c.base
      /\ e.was.commit.through = c.through /\ Committing(page[p])
  BY <1>1 DEF Moves, Meets, AskOf, Commit, Committing
<1>3. /\ h.seq = c.seq /\ h.root = c.root /\ h.prev = [seq |-> c.seq - 1, root |-> c.base]
      /\ Known(h.prev, held[n])
  BY <1>1, <1>2 DEF AskOf
<1>4. PICK g \in held[n] :
        /\ h.through = Evicted([(IF PairOf(g) = h.prev THEN g.through ELSE NoThrough)
                                  EXCEPT ![p] = [seq |-> c.through, last |-> c.seq]])
        /\ h.prev.seq <= g.seq
  BY <1>1, <1>2 DEF AskOf
<1>5. PICK k \in held[n] : h.prev = PairOf(k)
  BY <1>3 DEF Known
<1>6. h.prev = PairOf(g) /\ g \in Trusted(n)
  <2>1. k.seq = h.prev.seq
    BY <1>5 DEF PairOf
  <2>2. /\ g \in Trusted(n) /\ g.seq <= Top(n) /\ g.seq \in Nat /\ k.seq \in Nat /\ Top(n) \in Nat
        /\ (k.seq = g.seq => k = g)
    BY <1>1, OneHead DEF OneBase
  <2>3. k.seq = g.seq
    BY <1>4, <2>1, <2>2
  <2>4. QED
    BY <1>5, <2>2, <2>3
<1>7. /\ c.seq \in Nat /\ c.through \in c.cut /\ c.cut \subseteq Arrivals
      /\ c.root = c.base \cup ({p} \X c.cut) /\ \A i \in c.cut : i <= c.through
  BY <1>2, BuildsOn DEF OneBase
<1>8. \A i \in Arrivals : <<p, i>> \in c.base => \A j \in c.cut : i < j
  BY <1>2 DEF OneBase, FateInv, FateOK
<1>9. h.prev.root = c.base /\ g.root = c.base /\ h.seq = g.seq + 1
  <2>1. h.prev.root = c.base /\ h.prev.seq = c.seq - 1
    BY <1>3
  <2>2. g.root = h.prev.root /\ g.seq = h.prev.seq
    BY <1>6 DEF PairOf
  <2>3. QED
    BY <1>3, <1>7, <2>1, <2>2
<1>10. h.through = Evicted(Entered(g.through, p, c.through, h.seq))
  BY <1>3, <1>4, <1>6 DEF Entered
<1>11. BuiltBy(p, c.cut, c.through, g, h)
  BY <1>3, <1>6, <1>7, <1>8, <1>9, <1>10 DEF BuiltBy
<1>12. Built(h, n)
  BY <1>6, <1>7, <1>11 DEF Built
<1>13. QED
  BY <1>3, <1>7, <1>9, <1>12

(* A step of one page, that signs nothing and moves no Register. *)
LEMMA StepFate ==
  ASSUME OneBase, NEW p \in Pages, UNCHANGED <<rec, reg, sigs>>,
         \A q \in Pages : q # p => page'[q] = page[q],
         FateOK(p)', \A n \in Nodes : \A h \in Pending(n) : AwaitedAt(h, p, page'[p]),
         \A n \in Nodes : \A h \in asked'[n] :
           h \in asked[n] \/ ~(h.prev.seq >= Top(n)) \/ (Built(h, n) /\ Awaited(h)')
  PROVE  LedgerInv' /\ FateInv'
<1>1. \A n \in Nodes : Trusted(n)' = Trusted(n) /\ Top(n)' = Top(n)
  BY DEF Trusted, Top
<1>2. \A n \in Nodes : \A h : Built(h, n) => Built(h, n)'
  BY <1>1 DEF Built
<1>3. ASSUME NEW n \in Nodes, NEW h \in Pending(n) PROVE Awaited(h)'
  <2>1. Awaited(h)
    BY DEF OneBase, LedgerInv
  <2>2. \A q \in Pages : AwaitedAt(h, q, page'[q])
    BY <1>3, <2>1 DEF Awaited
  <2>3. QED
    BY <2>2 DEF Awaited
<1>4. ASSUME NEW n \in Nodes, NEW h \in Pending(n)' PROVE Awaited(h)'
  <2>1. CASE h \in asked'[n] /\ h.prev.seq >= Top(n)
    <3>1. h \in asked[n] \/ Awaited(h)'
      BY <2>1
    <3>2. h \in asked[n] => h \in Pending(n)
      BY <2>1 DEF Pending
    <3>3. QED
      BY <1>3, <3>1, <3>2
  <2>2. CASE h \in sigs[n] /\ h.seq > reg[n].seq
    <3>1. h \in Pending(n)
      BY <2>2 DEF Pending
    <3>2. QED
      BY <1>3, <3>1
  <2>3. QED
    BY <1>1, <2>1, <2>2 DEF Pending
<1>5. LedgerInv'
  <2>1. ASSUME NEW n \in Nodes
        PROVE  /\ \A h \in sigs'[n] : Built(h, n)'
               /\ \A h \in asked'[n] : h.prev.seq >= Top(n)' => Built(h, n)'
    BY <1>1, <1>2 DEF OneBase, LedgerInv
  <2>2. \A n \in Nodes :
          /\ \A h \in Trusted(n)' : LedgerOK(h)
          /\ \A a, h \in Trusted(n)' : a.seq <= h.seq =>
               \A q \in Pages : a.through[q].last = a.seq => Recalls(h, a, q)
    BY <1>1 DEF OneBase, LedgerInv
  <2>3. QED
    BY <1>4, <2>1, <2>2 DEF LedgerInv
<1>6. ASSUME NEW q \in Pages PROVE FateOK(q)'
  <2>1. CASE q = p
    BY <2>1
  <2>2. CASE q # p
    <3>1. page'[q] = page[q] /\ FateOK(q) /\ Trusted(NodeOf[q])' = Trusted(NodeOf[q]) /\ sigs' = sigs
      BY <1>1, <2>2, NodesAssumption DEF OneBase, FateInv
    <3>2. QED
      BY <3>1 DEF FateOK, Landed
  <2>3. QED
    BY <2>1, <2>2
<1>7. QED
  BY <1>5, <1>6 DEF FateInv

(* What a page tells of its writes, and where its commit goes, in a step. *)
LEMMA GoesOrEnds ==
  ASSUME OneBase, NEW p \in Pages, NEW e, Moves(p, e)
  PROVE  LET s == page[p]
             t == page'[p]
         IN  /\ \A i \in Arrivals :
                  \/ t.told[i] = s.told[i]
                  \/ /\ Committing(e.was) /\ Concludes(p, e, t.told) /\ i \in s.commit.cut
                     /\ s.told[i] = "Queued" /\ t.told[i] \in {"Published", "Unknown", "Lost", "Failed"}
             /\ \/ t.commit = e.was.commit /\ t.told = s.told
                \/ Committing(e.was) /\ t.commit = NoCommit /\ Concludes(p, e, t.told)
             /\ s.commit.stage = "Heading" => e.was.commit = s.commit
             /\ e.was.commit.cut = s.commit.cut /\ e.was.commit.base = s.commit.base
             /\ Committing(e.was) <=> Committing(s)
<1> DEFINE s == page[p]
           t == page'[p]
<1>1. Track(p, e, t) /\ Meets(e.was, s) /\ s \in PageState /\ s.commit \in Commit
  BY GoodPage DEF Moves, OneBase, Base, PageState
<1>2. e.was.told = s.told
  BY <1>1 DEF Meets
<1>3. /\ s.commit.stage = "Heading" => e.was.commit = s.commit
      /\ e.was.commit.cut = s.commit.cut /\ e.was.commit.base = s.commit.base
      /\ Committing(e.was) <=> Committing(s)
  BY <1>1 DEF Meets, Commit, Committing
<1>4. \/ t.commit = e.was.commit /\ t.told = s.told
      \/ Committing(e.was) /\ t.commit = NoCommit /\ Concludes(p, e, t.told)
  BY <1>1, <1>2 DEF Track, Follows
<1>5. ASSUME NEW i \in Arrivals
      PROVE  \/ t.told[i] = s.told[i]
             \/ /\ Committing(e.was) /\ Concludes(p, e, t.told) /\ i \in s.commit.cut
                /\ s.told[i] = "Queued" /\ t.told[i] \in {"Published", "Unknown", "Lost", "Failed"}
  <2>1. \/ t.told[i] = e.was.told[i]
        \/ /\ Committing(e.was) /\ Concludes(p, e, t.told) /\ i \in e.was.commit.cut
           /\ e.was.told[i] = "Queued" /\ t.told[i] \in {"Published", "Unknown", "Lost", "Failed"}
    <3>1. ASSUME t.told[i] # e.was.told[i]
          PROVE  /\ Committing(e.was) /\ Concludes(p, e, t.told) /\ i \in e.was.commit.cut
                 /\ e.was.told[i] = "Queued" /\ t.told[i] \in {"Published", "Unknown", "Lost", "Failed"}
                 /\ t.told[i] = "Published" =>
                      \/ PairOf(e.was.lastHead) = [seq |-> e.was.commit.seq, root |-> e.was.commit.root]
                      \/ Shown(p, e)
      BY <1>1, <3>1, ToldIs
    <3>2. QED
      BY <3>1
  <2>2. QED
    BY <1>2, <1>3, <2>1
<1>6. QED
  BY <1>3, <1>4, <1>5

(* A head that may still be signed or land is past the Register. *)
LEMMA PendingIs ==
  ASSUME OneBase, NEW n \in Nodes, NEW h \in Pending(n)
  PROVE  h \in Head /\ h.seq \in Nat /\ h.seq > reg[n].seq /\ Built(h, n)
<1>1. /\ Top(n) \in Nat /\ reg[n].seq <= Top(n) /\ reg[n].seq \in Nat
      /\ asked[n] \subseteq Head /\ sigs[n] \subseteq Head
  BY TopIs DEF OneBase, Base, TypeInv, TypeOK, Head
<1>2. h \in Head /\ h.seq \in Nat /\ h.prev.seq \in Nat
  BY <1>1 DEF Pending, Head
<1>3. CASE h \in asked[n] /\ h.prev.seq >= Top(n)
  <2>1. Built(h, n)
    BY <1>3 DEF OneBase, LedgerInv
  <2>2. PICK g \in Trusted(n) : h.prev = PairOf(g) /\ h.seq = g.seq + 1
    BY <2>1 DEF Built, BuiltBy
  <2>3. h.seq = h.prev.seq + 1
    BY <2>2 DEF PairOf
  <2>4. QED
    BY <1>1, <1>2, <1>3, <2>1, <2>3
<1>4. CASE h \in sigs[n] /\ h.seq > reg[n].seq
  BY <1>2, <1>4 DEF OneBase, LedgerInv
<1>5. QED
  BY <1>3, <1>4 DEF Pending

(* A page's step keeps what it was told true. *)
LEMMA MovesTold ==
  ASSUME OneBase, OneLog, NEW p \in Pages, NEW e, Moves(p, e), Alive(page[p])
  PROVE  FateOK(p)'
<1> DEFINE s == page[p]
           t == page'[p]
           c == page[p].commit
           n == NodeOf[p]
<1>1. /\ Trusted(n)' = Trusted(n) /\ sigs' = sigs /\ FateOK(p)
  BY DEF Moves, OneBase, FateInv, Trusted
<1>2. /\ \A i \in Arrivals :
           \/ t.told[i] = s.told[i]
           \/ /\ Committing(e.was) /\ Concludes(p, e, t.told) /\ i \in s.commit.cut
              /\ s.told[i] = "Queued" /\ t.told[i] \in {"Published", "Unknown", "Lost", "Failed"}
      /\ \/ t.commit = e.was.commit /\ t.told = s.told
         \/ Committing(e.was) /\ t.commit = NoCommit /\ Concludes(p, e, t.told)
      /\ c.stage = "Heading" => e.was.commit = c
      /\ e.was.commit.cut = c.cut /\ e.was.commit.base = c.base
      /\ Committing(e.was) <=> Committing(s)
  BY GoesOrEnds
<1>3. ASSUME Committing(e.was), Concludes(p, e, t.told), c.stage = "Heading", Landed(p, n),
             NEW i \in c.cut
      PROVE  t.told[i] \in {"Published", "Unknown"}
  BY <1>3, EndsPast
<1>4. ASSUME NEW i \in Arrivals, t.told[i] \in {"Lost", "Failed", "Conflict"}, NEW a \in Trusted(n)
      PROVE  <<p, i>> \notin a.root
  <2>1. CASE t.told[i] = s.told[i]
    BY <1>1, <1>4, <2>1 DEF FateOK
  <2>2. CASE t.told[i] # s.told[i]
    <3>1. Committing(e.was) /\ Concludes(p, e, t.told) /\ i \in c.cut /\ s.told[i] = "Queued"
      BY <1>2, <2>2
    <3>2. SUFFICES ASSUME <<p, i>> \in a.root PROVE FALSE
      OBVIOUS
    <3>3. c.stage = "Heading" /\ Landed(p, n)
      BY <1>1, <3>1, <3>2 DEF FateOK
    <3>4. t.told[i] \in {"Published", "Unknown"}
      BY <1>3, <3>1, <3>3
    <3>5. QED
      BY <1>4, <3>4
  <2>3. QED
    BY <2>1, <2>2
<1>5. ASSUME NEW i \in Arrivals, t.told[i] = "Queued", NEW a \in Trusted(n), <<p, i>> \in a.root
      PROVE  t.commit.stage = "Heading" /\ i \in t.commit.cut /\ Landed(p, n)'
  <2>1. s.told[i] = "Queued"
    BY <1>2, <1>5
  <2>2. c.stage = "Heading" /\ i \in c.cut /\ Landed(p, n)
    BY <1>1, <1>5, <2>1 DEF FateOK
  <2>3. ~(Committing(e.was) /\ Concludes(p, e, t.told))
    BY <1>3, <1>5, <2>2
  <2>4. t.commit = c
    BY <1>2, <2>2, <2>3
  <2>5. QED
    BY <1>1, <2>2, <2>4 DEF Landed
<1>6. ASSUME Committing(t), NEW k \in Arrivals, <<p, k>> \in t.commit.base, NEW i \in t.commit.cut
      PROVE  k < i
  <2>1. NoCommit.stage = "Idle"
    BY DEF NoCommit
  <2>2. t.commit = e.was.commit
    BY <1>2, <1>6, <2>1 DEF Committing
  <2>3. Committing(s) /\ <<p, k>> \in c.base /\ i \in c.cut
    BY <1>2, <1>6, <2>2 DEF Committing
  <2>4. QED
    BY <1>1, <2>3 DEF FateOK
<1>7. QED
  BY <1>1, <1>4, <1>5, <1>6 DEF FateOK

(* The heads it waits for it goes on to wait for. *)
LEMMA MovesAwaits ==
  ASSUME OneBase, OneLog, NEW p \in Pages, NEW e, Moves(p, e), Alive(page[p]),
         NEW m \in Nodes, NEW h \in Pending(m)
  PROVE  AwaitedAt(h, p, page'[p])
<1> DEFINE s == page[p]
           t == page'[p]
           c == page[p].commit
           n == NodeOf[p]
<1>1. m = n /\ n \in Nodes
  BY NodesAssumption DEF OneLog, OneNode
<1>2. h.seq > reg[n].seq /\ h.seq \in Nat /\ reg[n].seq \in Nat
  BY <1>1, PendingIs DEF OneBase, Base, TypeInv, TypeOK, Head
<1>3. AwaitedAt(h, p, s)
  BY DEF OneBase, LedgerInv, Awaited
<1>4. /\ \/ t.commit = e.was.commit /\ t.told = s.told
         \/ Committing(e.was) /\ t.commit = NoCommit /\ Concludes(p, e, t.told)
      /\ c.stage = "Heading" => e.was.commit = c
  BY GoesOrEnds
<1>5. ASSUME NEW i \in Arrivals, <<p, i>> \in h.root, <<p, i>> \notin h.prev.root
      PROVE  t.told[i] = "Queued" /\ Sends(t, h)
  <2>1. s.told[i] = "Queued" /\ c.stage = "Heading" /\ c.seq = h.seq /\ c.root = h.root
    BY <1>3, <1>5 DEF AwaitedAt, Sends
  <2>2. ~(Committing(e.was) /\ Concludes(p, e, t.told))
    <3>1. SUFFICES ASSUME Committing(e.was), Concludes(p, e, t.told) PROVE FALSE
      OBVIOUS
    <3>2. c.seq <= reg[n].seq
      BY <2>1, <3>1, EndsPast
    <3>3. QED
      BY <1>2, <2>1, <3>2
  <2>3. t.commit = c /\ t.told = s.told
    BY <1>4, <2>1, <2>2
  <2>4. QED
    BY <2>1, <2>3 DEF Sends
<1>6. QED
  BY <1>5 DEF AwaitedAt

(* And what it asks for, it waits for. *)
LEMMA MovesAsks ==
  ASSUME OneBase, OneLog, TypeInv', NEW p \in Pages, NEW e, Moves(p, e),
         NEW m \in Nodes, NEW h \in asked'[m], h \notin asked[m], h.prev.seq >= Top(m)
  PROVE  Built(h, m) /\ Awaited(h)'
<1> DEFINE t == page'[p]
           c == page[p].commit
           n == NodeOf[p]
<1>1. /\ Track(p, e, t) /\ Meets(e.was, page[p]) /\ Step(p, t) /\ e.T = Top(n) /\ n \in Nodes
      /\ m = n /\ page[p] \in PageState /\ c \in Commit /\ t \in PageState
  BY SceneIs, GoodPage, NodesAssumption, TypeNext DEF Moves, OneBase, Base, OneLog, OneNode, PageState
<1>2. h = t.sign /\ h # NoHead
  BY <1>1, StepAsks DEF OneBase
<1>3. h # e.was.sign
  <2>1. page[p].sign \in asked[n] \cup {NoHead}
    BY DEF OneBase, Base, SoundInv
  <2>2. QED
    BY <1>1, <1>2, <2>1 DEF Meets
<1>4. AskOf(p, e, e.was.commit, h)
  <2>1. h \in Head /\ Top(n) \in Nat
    BY <1>1, <1>2, TopIs DEF PageState, OneBase, Base
  <2>2. ~(h.prev.seq < e.T)
    BY <1>1, <2>1 DEF Head
  <2>3. QED
    BY <1>1, <1>2, <1>3, <2>2 DEF Track, Follows
<1>5. h \in Head
  BY <1>1, <1>2 DEF PageState
<1>6. Built(h, n) /\ h.root = h.prev.root \cup ({p} \X c.cut)
  BY <1>1, <1>4, <1>5, AskBuilt
<1>7. t.commit.stage = "Heading" /\ Tidy(e, t)
  <2>1. Tidy(e, t) /\ LaneOK(t)
    BY <1>1 DEF Track, Sane, Good, OK
  <2>2. Owes(t)
    BY <1>2, <2>1 DEF Tidy
  <2>3. QED
    BY <2>1, <2>2 DEF LaneOK
<1>8. t.commit = e.was.commit
  <2>1. NoCommit.stage = "Idle"
    BY DEF NoCommit
  <2>2. QED
    BY <1>1, <1>7, <2>1 DEF Track, Follows
<1>9. t.commit.cut = c.cut /\ t.commit.seq = h.seq /\ t.commit.root = h.root
  BY <1>1, <1>4, <1>8 DEF Meets, AskOf, Commit
<1>10. ASSUME NEW q \in Pages, NEW i \in Arrivals, <<q, i>> \in h.root, <<q, i>> \notin h.prev.root
       PROVE  q = p /\ t.told[i] = "Queued" /\ Sends(t, h)
  <2>1. q = p /\ i \in c.cut
    BY <1>6, <1>10
  <2>2. t.told[i] = "Queued"
    BY <1>7, <1>9, <2>1 DEF Tidy, Queue, Committing
  <2>3. QED
    BY <1>7, <1>9, <2>1, <2>2 DEF Sends
<1>11. QED
  BY <1>1, <1>6, <1>10 DEF Awaited, AwaitedAt

LEMMA MovesFate ==
  ASSUME OneBase, OneLog, TypeInv', NEW p \in Pages, NEW e, Moves(p, e), Alive(page[p])
  PROVE  LedgerInv' /\ FateInv'
<1>1. UNCHANGED <<rec, reg, sigs>> /\ page' = [page EXCEPT ![p] = page'[p]]
  BY StepAsks DEF Moves, OneBase
<1>2. \A q \in Pages : q # p => page'[q] = page[q]
  BY <1>1, TypeNext DEF OneBase, Base, TypeInv, TypeOK
<1>3. FateOK(p)'
  BY MovesTold
<1>4. \A m \in Nodes : \A h \in Pending(m) : AwaitedAt(h, p, page'[p])
  BY MovesAwaits
<1>5. \A m \in Nodes : \A h \in asked'[m] :
        h \in asked[m] \/ ~(h.prev.seq >= Top(m)) \/ (Built(h, m) /\ Awaited(h)')
  BY MovesAsks
<1>6. QED
  BY <1>1, <1>2, <1>3, <1>4, <1>5, StepFate

LEMMA AcceptFate ==
  ASSUME OneBase, TypeInv', NEW p \in Pages, Accept(p)
  PROVE  LedgerInv' /\ FateInv'
<1> DEFINE s == page[p]
           t == page'[p]
           n == NodeOf[p]
<1>1. PICK i \in 1 .. Accepts[p] : s.told[i] = "None" /\ PageStep(p, Tell(s, {i}, "Queued"))
  BY DEF Accept
<1>2. s \in PageState /\ page \in [Pages -> PageState] /\ n \in Nodes
  BY GoodPage, TypeInvPages DEF OneBase, Base
<1>3. t = Tell(s, {i}, "Queued") /\ Step(p, t) /\ UNCHANGED <<rec, reg, sigs>>
  BY <1>1, <1>2 DEF PageStep, Step
<1>4. /\ \A k \in Arrivals : t.told[k] = IF k = i THEN "Queued" ELSE s.told[k]
      /\ t.commit = s.commit /\ t.sign = s.sign /\ t.up = s.up
  BY <1>2, <1>3 DEF Tell, PageState
<1>5. \A q \in Pages : q # p => page'[q] = page[q]
  BY <1>2, <1>3 DEF Step
<1>6. \A m \in Nodes : \A h \in asked'[m] : h \in asked[m]
  <2>1. ASSUME NEW m \in Nodes, NEW h \in asked'[m] PROVE h \in asked[m]
    <3>1. /\ h \in asked[m] \/ (m = n /\ h = t.sign)
          /\ NoHead \in asked'[n] => NoHead \in asked[n]
      BY <1>3, <2>1, StepAsks DEF OneBase
    <3>2. s.sign \in asked[n] \cup {NoHead}
      BY DEF OneBase, Base, SoundInv
    <3>3. QED
      BY <1>4, <2>1, <3>1, <3>2
  <2>2. QED
    BY <2>1
<1>7. \A m \in Nodes : \A h \in Pending(m) : AwaitedAt(h, p, t)
  <2>1. ASSUME NEW m \in Nodes, NEW h \in Pending(m) PROVE AwaitedAt(h, p, t)
    <3>1. AwaitedAt(h, p, s)
      BY DEF OneBase, LedgerInv, Awaited
    <3>2. QED
      BY <1>4, <3>1 DEF AwaitedAt, Sends, Alive, Committing
  <2>2. QED
    BY <2>1
<1>8. \A a \in Trusted(n) : \A k \in Arrivals : <<p, k>> \in a.root => s.told[k] # "None"
  <2>1. NoHead.root = {}
    BY DEF NoHead
  <2>2. \A a \in sigs[n] : Ordered(a.root, p, s.told)
    BY <1>2 DEF OneBase, LogInv, Kept
  <2>3. QED
    BY <2>1, <2>2 DEF Trusted, Ordered
<1>9. FateOK(p)'
  <2>1. FateOK(p) /\ Trusted(n)' = Trusted(n) /\ sigs' = sigs
    BY <1>3 DEF OneBase, FateInv, Trusted
  <2>2. ASSUME NEW k \in Arrivals, NEW a \in Trusted(n), <<p, k>> \in a.root
        PROVE  t.told[k] = s.told[k]
    BY <1>1, <1>4, <1>8, <2>2
  <2>3. \A k \in Arrivals : t.told[k] \in {"Lost", "Failed", "Conflict"} =>
          s.told[k] \in {"Lost", "Failed", "Conflict"}
    BY <1>4
  <2>4. \A k \in Arrivals : t.told[k] \in {"Lost", "Failed", "Conflict"} =>
          \A a \in Trusted(n) : <<p, k>> \notin a.root
    BY <2>1, <2>3 DEF FateOK
  <2>5. Alive(t) => \A k \in Arrivals : t.told[k] = "Queued" =>
          \A a \in Trusted(n) : <<p, k>> \in a.root =>
            t.commit.stage = "Heading" /\ k \in t.commit.cut /\ Landed(p, n)'
    <3>1. Landed(p, n)' <=> Landed(p, n)
      BY <1>4, <2>1 DEF Landed
    <3>2. Alive(t) <=> Alive(s)
      BY <1>4 DEF Alive, Committing
    <3>3. QED
      BY <1>4, <2>1, <2>2, <3>1, <3>2 DEF FateOK
  <2>6. Committing(t) => \A k \in Arrivals : <<p, k>> \in t.commit.base => \A j \in t.commit.cut : k < j
    BY <1>4, <2>1 DEF FateOK, Committing
  <2>7. QED
    BY <2>1, <2>4, <2>5, <2>6 DEF FateOK
<1>10. QED
  BY <1>3, <1>5, <1>6, <1>7, <1>9, StepFate

(* What waits while no commit is in flight is in no tree, so that what is  *)
(* cut is new to the tree it is cut for.                                   *)
LEMMA IdleFresh ==
  ASSUME OneBase, NEW p \in Pages, On(p), ~Committing(page[p]), NEW i \in Queue(page[p]),
         NEW g \in Trusted(NodeOf[p])
  PROVE  /\ <<p, i>> \notin g.root
         /\ \A k \in Arrivals : <<p, k>> \in g.root => k < i
<1> DEFINE s == page[p]
           n == NodeOf[p]
<1>1. i \in Arrivals /\ s.told[i] = "Queued" /\ Alive(s) /\ s.commit.stage # "Heading" /\ Arrivals \subseteq Nat
  BY WritesAssumption DEF Queue, Alive, On, Committing, Arrivals
<1>2. <<p, i>> \notin g.root
  BY <1>1 DEF OneBase, FateInv, FateOK
<1>3. ASSUME NEW k \in Arrivals, <<p, k>> \in g.root PROVE k < i
  <2>1. g \in sigs[n] /\ n \in Nodes
    BY <1>3, NodesAssumption DEF Trusted, NoHead
  <2>2. \A j \in 1 .. (k - 1) : s.told[j] = "Queued" => <<p, j>> \in g.root
    BY <1>3, <2>1 DEF OneBase, LogInv, Kept, Ordered
  <2>3. i \notin 1 .. (k - 1) /\ k # i
    BY <1>1, <1>2, <1>3, <2>2
  <2>4. i \in Nat /\ k \in Nat /\ i >= 1
    BY <1>1 DEF Arrivals
  <2>5. QED
    BY <2>3, <2>4
<1>4. QED
  BY <1>2, <1>3

LEMMA CutNowTells ==
  ASSUME OneBase, NEW p \in Pages, CutNow(p)
  PROVE  LET s == page[p]
             u == page'[p]
         IN  /\ PageStep(p, u) /\ On(p) /\ ~Committing(s) /\ u.sign = s.sign
             /\ \A i \in Arrivals : \/ u.told[i] = s.told[i]
                                    \/ i \in Queue(s) /\ u.told[i] = "Conflict"
             /\ \/ u.commit = s.commit
                \/ /\ u.commit.base = s.pub.root /\ u.commit.cut \subseteq Queue(s)
                   /\ u.commit.stage = "Racing"
<1> DEFINE s == page[p]
           u == page'[p]
           n == NodeOf[p]
<1>1. PICK k \in Arrivals, last \in Nat, failed \in SUBSET Queue(s) :
        /\ failed \subseteq {i \in Queue(s) : i <= k}
        /\ u = Cut(p, s, {i \in Queue(s) : i <= k}, last, failed) /\ PageStep(p, u) /\ ~Committing(s)
  BY CutNowIs DEF OneBase, MayConflict
<1> DEFINE t == {i \in Queue(s) : i <= k}
           fresh == t \ failed
           root == s.pub.root \cup ({p} \X fresh)
<1>2. s \in PageState /\ On(p)
  BY GoodPage DEF OneBase, Base, CutNow
<1>3. t \in SUBSET Queue(s) /\ failed \subseteq t /\ fresh = t \ failed /\ Queue(s) \subseteq Arrivals
  BY <1>1 DEF Queue
<1>4. u.sign = s.sign
  BY <1>1, <1>2, CutKeeps
<1>5. PICK g \in held[n] : s.pub.root = g.root
  <2>1. Known(s.pub, held[n])
    BY DEF OneBase, Base, GroundInv, Grounded
  <2>2. QED
    BY <2>1 DEF Known, PairOf
<1>6. g \in Trusted(n)
  BY <1>5, NodesAssumption DEF OneBase, ChainInv
<1>7. \A i \in t : <<p, i>> \notin s.pub.root
  BY <1>1, <1>2, <1>3, <1>5, <1>6, IdleFresh
<1>8. CutLeft(p, s, u, fresh, failed)
  BY <1>1, <1>2, <1>3, CutIs
<1> HIDE DEF t, fresh
<1>9. root = s.pub.root => fresh = {}
  BY <1>3, <1>7
<1>10. \A i \in Arrivals : u.told[i] = s.told[i] \/ (i \in failed /\ u.told[i] = "Conflict")
  BY <1>8, <1>9 DEF CutLeft
<1>11. \/ u.commit = s.commit
       \/ u.commit.stage = "Racing" /\ u.commit.base = s.pub.root /\ u.commit.cut = fresh
  BY <1>8 DEF CutLeft
<1>12. QED
  BY <1>1, <1>2, <1>3, <1>4, <1>10, <1>11

LEMMA CutNowFate ==
  ASSUME OneBase, TypeInv', NEW p \in Pages, CutNow(p)
  PROVE  LedgerInv' /\ FateInv'
<1> DEFINE s == page[p]
           t == page'[p]
           n == NodeOf[p]
<1>1. /\ PageStep(p, t) /\ On(p) /\ ~Committing(s) /\ t.sign = s.sign
      /\ \A i \in Arrivals : \/ t.told[i] = s.told[i]
                             \/ i \in Queue(s) /\ t.told[i] = "Conflict"
      /\ \/ t.commit = s.commit
         \/ /\ t.commit.base = s.pub.root /\ t.commit.cut \subseteq Queue(s)
            /\ t.commit.stage = "Racing"
  BY CutNowTells
<1>2. Step(p, t) /\ UNCHANGED <<rec, reg, sigs>> /\ page \in [Pages -> PageState] /\ n \in Nodes
  BY <1>1, TypeInvPages, NodesAssumption DEF PageStep, OneBase, Base
<1>3. \A q \in Pages : q # p => page'[q] = page[q]
  BY <1>2 DEF Step
<1>4. \A m \in Nodes : \A h \in asked'[m] : h \in asked[m]
  <2>1. ASSUME NEW m \in Nodes, NEW h \in asked'[m] PROVE h \in asked[m]
    <3>1. /\ h \in asked[m] \/ (m = n /\ h = t.sign)
          /\ NoHead \in asked'[n] => NoHead \in asked[n]
      BY <1>2, <2>1, StepAsks DEF OneBase
    <3>2. s.sign \in asked[n] \cup {NoHead}
      BY DEF OneBase, Base, SoundInv
    <3>3. QED
      BY <1>1, <2>1, <3>1, <3>2
  <2>2. QED
    BY <2>1
<1>5. \A m \in Nodes : \A h \in Pending(m) : AwaitedAt(h, p, t)
  <2>1. ASSUME NEW m \in Nodes, NEW h \in Pending(m) PROVE AwaitedAt(h, p, t)
    <3>1. AwaitedAt(h, p, s)
      BY DEF OneBase, LedgerInv, Awaited
    <3>2. Alive(s) /\ ~Sends(s, h)
      BY <1>1 DEF Alive, On, Sends, Committing
    <3>3. QED
      BY <3>1, <3>2 DEF AwaitedAt
  <2>2. QED
    BY <2>1
<1>6. FateOK(p)'
  <2>1. FateOK(p) /\ Trusted(n)' = Trusted(n)
    BY <1>2 DEF OneBase, FateInv, Trusted
  <2>2. \A k \in Arrivals : t.told[k] \in {"Lost", "Failed", "Conflict"} =>
          \A a \in Trusted(n) : <<p, k>> \notin a.root
    <3>1. \A k \in Arrivals : s.told[k] \in {"Lost", "Failed", "Conflict"} =>
            \A a \in Trusted(n) : <<p, k>> \notin a.root
      BY <2>1 DEF FateOK
    <3>2. \A k \in Queue(s) : \A a \in Trusted(n) : <<p, k>> \notin a.root
      BY <1>1, IdleFresh
    <3>3. QED
      BY <1>1, <3>1, <3>2
  <2>3. \A k \in Arrivals : t.told[k] = "Queued" => \A a \in Trusted(n) : <<p, k>> \notin a.root
    BY <1>1, IdleFresh DEF Queue
  <2>4. Committing(t) => \A k \in Arrivals : <<p, k>> \in t.commit.base => \A i \in t.commit.cut : k < i
    <3>1. SUFFICES ASSUME Committing(t), NEW k \in Arrivals, <<p, k>> \in t.commit.base,
                          NEW i \in t.commit.cut
                   PROVE  k < i
      OBVIOUS
    <3>2. t.commit.base = s.pub.root /\ i \in Queue(s)
      BY <1>1, <3>1 DEF Committing
    <3>3. PICK g \in held[n] : s.pub.root = g.root
      <4>1. Known(s.pub, held[n])
        BY DEF OneBase, Base, GroundInv, Grounded
      <4>2. QED
        BY <4>1 DEF Known, PairOf
    <3>4. g \in Trusted(n) /\ <<p, k>> \in g.root
      BY <1>2, <3>1, <3>2, <3>3 DEF OneBase, ChainInv
    <3>5. QED
      BY <1>1, <3>2, <3>4, IdleFresh
  <2>5. QED
    BY <2>1, <2>2, <2>3, <2>4 DEF FateOK
<1>7. QED
  BY <1>2, <1>3, <1>4, <1>5, <1>6, StepFate

LEMMA CloseFate ==
  ASSUME OneBase, TypeInv', NEW p \in Pages, Close(p)
  PROVE  LedgerInv' /\ FateInv'
<1> DEFINE s == page[p]
           t == [InitPage EXCEPT !.up = "Gone", !.told = page[p].told]
           n == NodeOf[p]
<1>1. /\ page' = [page EXCEPT ![p] = t] /\ UNCHANGED <<asked, rec, reg, sigs>>
      /\ page \in [Pages -> PageState] /\ n \in Nodes
  BY TypeInvPages, NodesAssumption DEF Close, OneBase, Base
<1>2. t.told = s.told /\ t.commit = NoCommit /\ t.up = "Gone" /\ NoCommit.stage = "Idle"
  BY DEF InitPage, NoCommit
<1> HIDE DEF t
<1>3. page'[p] = t /\ \A q \in Pages : q # p => page'[q] = page[q]
  BY <1>1
<1>4. ~Alive(t) /\ ~Committing(t)
  BY <1>2 DEF Alive, Committing
<1>5. \A m \in Nodes : \A h \in Pending(m) : AwaitedAt(h, p, t)
  <2>1. ASSUME NEW m \in Nodes, NEW h \in Pending(m) PROVE AwaitedAt(h, p, t)
    <3>1. AwaitedAt(h, p, s)
      BY DEF OneBase, LedgerInv, Awaited
    <3>2. QED
      BY <1>2, <1>4, <3>1 DEF AwaitedAt
  <2>2. QED
    BY <2>1
<1>6. FateOK(p)'
  <2>1. FateOK(p) /\ Trusted(n)' = Trusted(n)
    BY <1>1 DEF OneBase, FateInv, Trusted
  <2>2. \A k \in Arrivals : t.told[k] \in {"Lost", "Failed", "Conflict"} =>
          \A a \in Trusted(n) : <<p, k>> \notin a.root
    BY <1>2, <2>1 DEF FateOK
  <2>3. QED
    BY <1>3, <1>4, <2>1, <2>2 DEF FateOK
<1>7. QED
  BY <1>1, <1>3, <1>5, <1>6, StepFate

(* The signer's steps and the Register's. *)
LEMMA NodeFate ==
  ASSUME OneBase, OneLog, Base', ChainInv', [Next]_vars,
         \/ \E p \in Pages : TakeRead(p) \/ SignerAnswers(p)
         \/ \E n \in Nodes : SignerServesStale(n) \/ UpdateApplies(n)
         \/ \E n, m \in Nodes : Sync(n, m)
         \/ UNCHANGED vars
  PROVE  LedgerInv' /\ FateInv'
<1>1. SUFFICES QuietStep
  BY QuietLedger, QuietFate
<1>2. page \in [Pages -> PageState] /\ reg \in [Nodes -> Head] /\ \A n \in Nodes : reg[n].seq \in Nat
  BY TypeInvPages DEF OneBase, Base, TypeInv, TypeOK, Head
<1>3. CASE UNCHANGED <<page, reg, asked>>
  BY <1>2, <1>3 DEF QuietStep
<1>4. ASSUME NEW p \in Pages, SignerAnswers(p)
      PROVE  QuietStep
  <2>1. /\ \E a : page' = [page EXCEPT ![p].ans = a]
        /\ UNCHANGED <<reg, asked>>
    BY <1>4 DEF SignerAnswers
  <2>2. \A q \in Pages : /\ page'[q].told = page[q].told /\ page'[q].commit = page[q].commit
                         /\ page'[q].up = page[q].up
    BY <1>2, <2>1 DEF PageState
  <2>3. QED
    BY <1>2, <2>1, <2>2 DEF QuietStep
<1>5. ASSUME NEW n \in Nodes, UpdateApplies(n)
      PROVE  QuietStep
  <2>1. PICK h \in sent[n] : Apply(n, h)
    BY <1>5 DEF UpdateApplies
  <2>2. h \in Head
    BY DEF OneBase, Base, TypeInv, TypeOK
  <2>3. UNCHANGED <<page, asked>> /\ reg' = [reg EXCEPT ![n] = Merge(reg[n], h)]
    BY <2>1 DEF Apply
  <2>4. reg[n].seq <= Merge(reg[n], h).seq
    BY <1>2, <2>2 DEF Merge, Displaces, Head
  <2>5. \A m \in Nodes : reg[m].seq <= reg'[m].seq
    BY <1>2, <2>3, <2>4
  <2>6. QED
    BY <2>3, <2>5 DEF QuietStep
<1>6. ASSUME NEW n \in Nodes, NEW m \in Nodes, Sync(n, m)
      PROVE  FALSE
  BY <1>6 DEF Sync, OneLog, OneNode
<1>7. QED
  BY <1>3, <1>4, <1>5, <1>6 DEF TakeRead, SignerServesStale, vars

LEMMA OneBaseStep ==
  ASSUME OneLog
  PROVE  OneBase /\ [Next]_vars => OneBase'
<1> SUFFICES ASSUME OneBase, [Next]_vars PROVE OneBase'
  OBVIOUS
<1>1. Base' /\ LogInv'
  BY BaseStep, LogInvStep DEF OneBase, Base
<1>2. ChainInv'
  <2>1. \A m, n \in Nodes : m = n
    BY DEF OneLog, OneNode
  <2>2. Base /\ LogInv /\ ChainInv /\ Base' /\ [Next]_vars => ChainInv'
    BY <2>1, ChainInvStep
  <2>3. QED
    BY <1>1, <2>2 DEF OneBase
<1>3. ASSUME NEW p \in Pages,
             \/ Start(p) \/ RaceReady(p) \/ BlockRejected(p) \/ AskHead(p) \/ HearSigner(p)
             \/ SignLost(p) \/ HearUpdated(p) \/ Due(p) \/ Backstop(p) \/ Reconnected(p)
             \/ HeadHinted(p) \/ HearHead(p) \/ HearLate(p) \/ HeadPushed(p)
      PROVE  LedgerInv' /\ FateInv'
  <2>1. Alive(page[p])
    BY <1>3 DEF Start, RaceReady, BlockRejected, AskHead, HearSigner, SignLost, HearUpdated, Due, Backstop,
                Reconnected, HeadHinted, HearHead, HearLate, HeadPushed, On, Alive
  <2>2. PICK e : Moves(p, e)
    BY <1>3, PageMoves DEF OneBase
  <2>3. QED
    BY <1>1, <2>1, <2>2, MovesFate DEF Base
<1>4. ASSUME NEW p \in Pages, Accept(p) \/ CutNow(p) \/ Close(p)
      PROVE  LedgerInv' /\ FateInv'
  BY <1>1, <1>4, AcceptFate, CutNowFate, CloseFate DEF Base
<1>5. LedgerInv' /\ FateInv'
  BY <1>1, <1>2, <1>3, <1>4, NodeFate DEF Next
<1>6. QED
  BY <1>1, <1>2, <1>5 DEF OneBase

LEMMA OneBaseAlways ==
  ASSUME OneLog
  PROVE  Spec => []OneBase
<1>1. Init => OneBase
  BY BaseInit, LogInvInit, ChainInvInit, OneBaseInit DEF OneBase
<1>2. OneBase /\ [Next]_vars => OneBase'
  BY OneBaseStep
<1>3. QED
  BY <1>1, <1>2, PTL DEF Spec

----------------------------------------------------------------------------
(* What follows from it. *)

(* With one node whose signer refuses nothing for good, a write told Lost, *)
(* Failed or Conflict is not in the tree and never will be: no head that   *)
(* was signed holds it, whatever died, was retried, closed or adopted      *)
(* (`Lost` and `Failed` in engine/src/lib.rs: the edit is taken back).     *)
THEOREM RefusedCorrect ==
  ASSUME NEW CONSTANT n, Nodes = {n}, Sleepy = {}, "Final" \notin SignOutcomes
  PROVE  Spec => []RefusedNotInTree
<1>1. OneLog
  BY DEF OneLog, OneNode
<1>2. OneBase => RefusedNotInTree
  <2> SUFFICES ASSUME OneBase, NEW p \in Pages, NEW i \in Arrivals,
                      page[p].told[i] \in {"Lost", "Failed", "Conflict"}
               PROVE  <<p, i>> \notin reg[NodeOf[p]].root
    BY DEF RefusedNotInTree
  <2>1. reg[NodeOf[p]] \in Trusted(NodeOf[p])
    BY GoodPage DEF OneBase, Base, ChainInv
  <2>2. QED
    BY <2>1 DEF OneBase, FateInv, FateOK
<1>3. Spec => []OneBase
  BY <1>1, OneBaseAlways
<1>4. QED
  BY <1>2, <1>3, PTL

(* And the list in the Register's head tells a page the truth of the       *)
(* commit it waits on, for any bound of the list: what it lists has        *)
(* landed, and a commit that landed it lists or admits to have lost        *)
(* (`witness_of` in page/src/lib.rs).                                      *)
THEOREM WitnessCorrect ==
  ASSUME NEW CONSTANT n, Nodes = {n}, Sleepy = {}, "Final" \notin SignOutcomes
  PROVE  Spec => []WitnessIsTrue
<1>1. OneLog
  BY DEF OneLog, OneNode
<1>2. ASSUME OneBase, NEW p \in Pages, page[p].commit.stage = "Heading",
             WitnessOf(p, reg[NodeOf[p]], page[p].commit.seq).kind # "Unknown"
      PROVE  LET c == page[p].commit
                 h == reg[NodeOf[p]]
                 w == WitnessOf(p, h, c.seq)
             IN  {p} \X c.cut \subseteq h.root <=> w.kind = "Through" /\ w.seq >= c.through
  <2> DEFINE s == page[p]
             c == page[p].commit
             m == NodeOf[p]
             h == reg[NodeOf[p]]
             w == WitnessOf(p, h, c.seq)
  <2>1. /\ h \in held[m] /\ h \in Trusted(m) /\ m \in Nodes /\ Committing(s)
    BY <1>2, GoodPage DEF OneBase, Base, ChainInv, Committing
  <2>2. /\ c.seq \in Nat /\ c.through \in c.cut /\ c.cut \subseteq Arrivals
        /\ \A i \in c.cut : i <= c.through
        /\ c.through \in Nat /\ c.cut \subseteq Queue(s)
    BY <1>2, <2>1, BuildsOn DEF OneBase
  <2>3. PICK k \in held[m] : k.seq + 1 = c.seq /\ k.root = c.base
    BY <1>2, <2>1, BuildsOn DEF OneBase
  <2>4. ASSUME w.kind = "Through", w.seq >= c.through
        PROVE  {p} \X c.cut \subseteq h.root
    <3>1. w.seq = h.through[p].seq
      BY <2>4 DEF WitnessOf, Through, NotThere, Unwitnessed
    <3>2. Carried(h, p, s.told)
      BY <1>2, <2>1 DEF OneBase, LogInv, Kept
    <3>3. h.through[p].seq \in Nat
      BY <1>2, <2>1 DEF OneBase, Base, TypeInv, TypeOK, Head, Entry
    <3>4. ASSUME NEW i \in c.cut PROVE <<p, i>> \in h.root
      <4>1. i \in Arrivals /\ s.told[i] = "Queued" /\ i <= c.through /\ i \in Nat
        BY <2>2, WritesAssumption DEF Queue, Arrivals
      <4>2. i <= h.through[p].seq
        BY <2>2, <2>4, <3>1, <3>3, <4>1
      <4>3. QED
        BY <3>2, <4>1, <4>2 DEF Carried
    <3>5. QED
      BY <3>4
  <2>5. ASSUME {p} \X c.cut \subseteq h.root
        PROVE  w.kind = "Through" /\ w.seq >= c.through
    <3>1. <<p, c.through>> \in h.root /\ s.told[c.through] = "Queued" /\ c.through \in Arrivals
      BY <2>2, <2>5 DEF Queue
    <3>2. Landed(p, m)
      BY <1>2, <2>1, <3>1 DEF OneBase, FateInv, FateOK, Alive
    <3>3. c.seq <= h.seq
      <4>1. SUFFICES ASSUME ~(c.seq <= h.seq) PROVE FALSE
        OBVIOUS
      <4>2. h.seq \in Nat /\ k.seq \in Nat
        BY <1>2, <2>1, OneHead DEF OneBase
      <4>3. h.seq <= k.seq
        BY <2>2, <2>3, <4>1, <4>2
      <4>4. h.root \subseteq k.root
        BY <1>2, <2>1, <4>3, OneHead DEF OneBase
      <4>5. <<p, c.through>> \in c.base
        BY <2>3, <3>1, <4>4
      <4>6. c.through < c.through
        BY <1>2, <2>1, <2>2, <3>1, <4>5 DEF OneBase, FateInv, FateOK
      <4>7. QED
        BY <2>2, <4>6
    <3>4. (w.kind = "Through" /\ w.seq >= c.through) \/ w.kind = "Unknown"
      BY <1>2, <2>1, <3>2, <3>3, WitnessKnows
    <3>5. QED
      BY <1>2, <3>4
  <2>6. QED
    BY <2>4, <2>5
<1>3. OneBase => WitnessIsTrue
  BY <1>2 DEF WitnessIsTrue
<1>4. Spec => []OneBase
  BY <1>1, OneBaseAlways
<1>5. QED
  BY <1>3, <1>4, PTL

----------------------------------------------------------------------------
(* The log: its head is the Register's, its fates what the pages tell.     *)

TheHead == PairOf(TheReg)
TheFate == [w \in Writes |-> page[w[1]].told[w[2]]]

LEMMA LogWrites == Log!Writes = Writes
BY DEF Log!Writes, Log!Arrivals, Writes, Arrivals

LEMMA LogRests ==
  ASSUME TheHead' = TheHead, TheFate' = TheFate
  PROVE  UNCHANGED Log!logVars
BY LogWrites DEF Log!logVars, TheHead, TheFate

LEMMA TheRegIs ==
  ASSUME OneLog, NEW n \in Nodes
  PROVE  TheReg = reg[n] /\ TheReg' = reg'[n]
<1>1. (CHOOSE m \in Nodes : TRUE) = n
  BY DEF OneLog, OneNode
<1>2. QED
  BY <1>1 DEF TheReg

LEMMA FateIs ==
  ASSUME NEW w \in Writes
  PROVE  /\ w[1] \in Pages /\ w[2] \in Arrivals /\ w = <<w[1], w[2]>>
         /\ TheFate[w] = page[w[1]].told[w[2]]
         /\ TheFate'[w] = page'[w[1]].told[w[2]]
BY DEF TheFate, Writes

LEMMA TellsNothing ==
  ASSUME \A q \in Pages : \A i \in Arrivals : page'[q].told[i] = page[q].told[i]
  PROVE  TheFate' = TheFate
<1>1. \A w \in Writes : page'[w[1]].told[w[2]] = page[w[1]].told[w[2]]
  BY DEF Writes
<1>2. QED
  BY <1>1 DEF TheFate

LEMMA HeadRests ==
  ASSUME OneLog, NEW n \in Nodes, reg'[n] = reg[n]
  PROVE  TheHead' = TheHead
BY TheRegIs DEF TheHead

(* A step that tells no page anything, and leaves the Register. *)
LEMMA RestsLog ==
  ASSUME OneLog, NEW n \in Nodes, reg' = reg,
         \A q \in Pages : \A i \in Arrivals : page'[q].told[i] = page[q].told[i]
  PROVE  UNCHANGED Log!logVars
BY LogRests, HeadRests, TellsNothing

(* A write taken. *)
LEMMA AcceptSubmits ==
  ASSUME OneBase, OneLog, NEW n \in Nodes, NEW p \in Pages, Accept(p)
  PROVE  Log!LogNext
<1>1. PICK i \in 1 .. Accepts[p] : page[p].told[i] = "None" /\ PageStep(p, Tell(page[p], {i}, "Queued"))
  BY DEF Accept
<1>2. page[p] \in PageState /\ page \in [Pages -> PageState] /\ i \in Arrivals
  BY GoodPage, TypeInvPages, NodesAssumption, WritesAssumption DEF OneBase, Base, Arrivals
<1> DEFINE w == <<p, i>>
           t == Tell(page[p], {i}, "Queued")
<1>3. page' = [page EXCEPT ![p] = t] /\ reg' = reg
  BY <1>1 DEF PageStep, Step
<1>4. \A k \in Arrivals : t.told[k] = IF k = i THEN "Queued" ELSE page[p].told[k]
  BY <1>2 DEF Tell, PageState
<1> HIDE DEF t
<1>5. page'[p] = t /\ \A q \in Pages : q # p => page'[q] = page[q]
  BY <1>2, <1>3
<1>6. w \in Writes /\ w[1] = p /\ w[2] = i
  BY <1>2 DEF Writes
<1>7. TheFate[w] = "None"
  BY <1>1, <1>6, FateIs
<1>8. \A v \in Writes : TheFate'[v] = IF v = w THEN "Queued" ELSE TheFate[v]
  <2>1. ASSUME NEW v \in Writes PROVE TheFate'[v] = IF v = w THEN "Queued" ELSE TheFate[v]
    <3>1. /\ v[1] \in Pages /\ v[2] \in Arrivals /\ v = <<v[1], v[2]>>
          /\ TheFate[v] = page[v[1]].told[v[2]] /\ TheFate'[v] = page'[v[1]].told[v[2]]
      BY FateIs
    <3>2. CASE v[1] = p
      BY <1>4, <1>5, <3>1, <3>2
    <3>3. CASE v[1] # p
      BY <1>5, <1>6, <3>1, <3>3
    <3>4. QED
      BY <3>2, <3>3
  <2>2. QED
    BY <2>1
<1>9. TheFate' = [TheFate EXCEPT ![w] = "Queued"]
  <2>1. TheFate = [v \in Writes |-> TheFate[v]] /\ TheFate' = [v \in Writes |-> TheFate'[v]]
    BY DEF TheFate
  <2>2. QED
    BY <1>8, <2>1
<1>10. TheHead' = TheHead
  BY <1>3, HeadRests
<1>11. Log!Submit(w)
  BY <1>7, <1>9, <1>10, LogWrites DEF Log!Submit, TheHead, TheFate
<1>12. QED
  BY <1>6, <1>11, LogWrites DEF Log!LogNext

(* A page answers writes: at the end of its commit, or at the cut. *)
LEMMA AnswersConclude ==
  ASSUME OneBase, OneLog, NEW n \in Nodes, RefusedNotInTree', PublishedIsDurable',
         NEW p \in Pages, Step(p, page'[p]), reg' = reg,
         \A i \in Arrivals : page'[p].told[i] # page[p].told[i] =>
           /\ page[p].told[i] = "Queued"
           /\ page'[p].told[i] \in {"Published", "Unknown", "Lost", "Failed", "Conflict"}
  PROVE  [Log!LogNext]_(Log!logVars)
<1> DEFINE s == page[p]
           t == page'[p]
           ws == {w \in Writes : w[1] = p /\ t.told[w[2]] # s.told[w[2]]}
           answer == [w \in ws |-> t.told[w[2]]]
<1>1. reg' = reg /\ \A q \in Pages : q # p => page'[q] = page[q]
  BY TypeInvPages DEF Step, OneBase, Base
<1>2. NodeOf[p] = n
  BY NodesAssumption DEF OneLog, OneNode
<1>3. \A i \in Arrivals : t.told[i] # s.told[i] =>
        /\ s.told[i] = "Queued"
        /\ t.told[i] \in {"Published", "Unknown", "Lost", "Failed", "Conflict"}
  OBVIOUS
<1>4. ASSUME NEW w \in ws
      PROVE  /\ w \in Writes /\ w = <<p, w[2]>> /\ w[2] \in Arrivals
             /\ s.told[w[2]] = "Queued" /\ answer[w] = t.told[w[2]]
             /\ answer[w] \in {"Published", "Unknown", "Lost", "Failed", "Conflict"}
  BY <1>3, FateIs
<1>5. ASSUME NEW w \in ws, answer[w] # "Unknown"
      PROVE  w \in TheHead.root <=> answer[w] = "Published"
  <2>1. TheHead.root = reg[n].root
    BY TheRegIs DEF TheHead, PairOf
  <2>2. CASE answer[w] = "Published"
    <3>1. t.told[w[2]] = "Published" /\ w[2] \in Arrivals /\ w = <<p, w[2]>>
      BY <1>4, <2>2
    <3>2. <<p, w[2]>> \in reg'[n].root
      BY <1>2, <3>1 DEF PublishedIsDurable
    <3>3. QED
      BY <1>1, <2>1, <2>2, <3>1, <3>2
  <2>3. CASE answer[w] # "Published"
    <3>1. t.told[w[2]] \in {"Lost", "Failed", "Conflict"} /\ w[2] \in Arrivals /\ w = <<p, w[2]>>
      BY <1>4, <1>5, <2>3
    <3>2. <<p, w[2]>> \notin reg'[n].root
      BY <1>2, <3>1 DEF RefusedNotInTree
    <3>3. QED
      BY <1>1, <2>1, <2>3, <3>1, <3>2
  <2>4. QED
    BY <2>2, <2>3
<1>6. \A w \in ws : TheFate[w] = "Queued"
  <2>1. ASSUME NEW w \in ws PROVE TheFate[w] = "Queued"
    <3>1. w \in Writes /\ w[1] = p /\ s.told[w[2]] = "Queued"
      BY <1>4
    <3>2. QED
      BY <3>1, FateIs
  <2>2. QED
    BY <2>1
<1>7. ASSUME NEW w \in Writes
      PROVE  TheFate'[w] = IF w \in ws THEN answer[w] ELSE TheFate[w]
  <2>1. /\ w[1] \in Pages /\ w[2] \in Arrivals
        /\ TheFate[w] = page[w[1]].told[w[2]] /\ TheFate'[w] = page'[w[1]].told[w[2]]
    BY FateIs
  <2>2. CASE w \in ws
    BY <2>1, <2>2
  <2>3. CASE w \notin ws
    <3>1. w[1] # p \/ t.told[w[2]] = s.told[w[2]]
      BY <2>3
    <3>2. QED
      BY <1>1, <2>1, <2>3, <3>1
  <2>4. QED
    BY <2>2, <2>3
<1>8. answer \in [ws -> Log!Refusal \cup {"Published", "Unknown"}]
  BY <1>4 DEF Log!Refusal
<1> HIDE DEF answer
<1>9. TheFate' = [w \in Writes |-> IF w \in ws THEN answer[w] ELSE TheFate[w]]
  <2>1. TheFate' = [w \in Writes |-> TheFate'[w]]
    BY DEF TheFate
  <2>2. QED
    BY <1>7, <2>1
<1>10. ws \in SUBSET Writes
  OBVIOUS
<1> HIDE DEF ws
<1>11. TheHead' = TheHead
  BY <1>1, HeadRests
<1>12. CASE ws = {}
  <2>1. TheFate = [w \in Writes |-> TheFate[w]]
    BY DEF TheFate
  <2>2. TheFate' = TheFate
    BY <1>9, <1>12, <2>1
  <2>3. QED
    BY <1>11, <2>2, LogRests
<1>13. CASE ws # {}
  <2>1. \E a \in [ws -> Log!Refusal \cup {"Published", "Unknown"}] :
          /\ \A w \in ws : a[w] # "Unknown" => (w \in TheHead.root <=> a[w] = "Published")
          /\ TheFate' = [w \in Log!Writes |-> IF w \in ws THEN a[w] ELSE TheFate[w]]
    <3>1. TheFate' = [w \in Log!Writes |-> IF w \in ws THEN answer[w] ELSE TheFate[w]]
      BY <1>9, LogWrites
    <3>2. WITNESS answer \in [ws -> Log!Refusal \cup {"Published", "Unknown"}]
    <3>3. QED
      BY <1>5, <3>1
  <2>2. PICK x \in SUBSET Writes : x = ws
    BY <1>10
  <2>3. /\ x # {} /\ \A w \in x : TheFate[w] = "Queued"
        /\ \E a \in [x -> Log!Refusal \cup {"Published", "Unknown"}] :
             /\ \A w \in x : a[w] # "Unknown" => (w \in TheHead.root <=> a[w] = "Published")
             /\ TheFate' = [w \in Log!Writes |-> IF w \in x THEN a[w] ELSE TheFate[w]]
    BY <1>6, <1>13, <2>1, <2>2
  <2>4. Log!Conclude(x)
    BY <1>11, <2>3 DEF Log!Conclude, TheHead, TheFate
  <2>5. Log!LogNext
    BY <2>4, LogWrites DEF Log!LogNext
  <2>6. QED
    BY <2>5
<1>14. QED
  BY <1>12, <1>13

LEMMA MovesConclude ==
  ASSUME OneBase, OneLog, NEW n \in Nodes, RefusedNotInTree', PublishedIsDurable',
         NEW p \in Pages, NEW e, Moves(p, e)
  PROVE  [Log!LogNext]_(Log!logVars)
<1>1. \A i \in Arrivals : page'[p].told[i] # page[p].told[i] =>
        /\ page[p].told[i] = "Queued"
        /\ page'[p].told[i] \in {"Published", "Unknown", "Lost", "Failed"}
  BY GoesOrEnds
<1>2. Step(p, page'[p]) /\ reg' = reg
  BY DEF Moves
<1>3. QED
  BY <1>1, <1>2, AnswersConclude

(* The Register takes the next head. *)
LEMMA UpdateExtends ==
  ASSUME OneBase, OneLog, NEW n \in Nodes, UpdateApplies(n)
  PROVE  Log!LogNext
<1>1. PICK h \in sent[n] : Displaces(h, reg[n]) /\ Apply(n, h)
  BY DEF UpdateApplies
<1>2. /\ h \in sigs[n] /\ h \in Trusted(n) /\ reg[n] \in Trusted(n) /\ h \in Head /\ reg[n] \in Head
      /\ h.seq \in Nat /\ reg[n].seq \in Nat
  BY DEF OneBase, Base, GroundInv, ChainInv, Trusted, TypeInv, TypeOK, Head
<1>3. h.seq > reg[n].seq
  <2>1. h.seq = reg[n].seq => h = reg[n]
    BY <1>2 DEF OneBase, ChainInv
  <2>2. QED
    BY <1>1, <1>2, <2>1 DEF Displaces
<1>4. Awaited(h)
  BY <1>2, <1>3 DEF Pending, OneBase, LedgerInv
<1>5. Built(h, n)
  BY <1>2 DEF OneBase, LedgerInv
<1>6. PICK g \in Trusted(n), q \in Pages :
        \E cut \in SUBSET Arrivals : \E t \in Arrivals : BuiltBy(q, cut, t, g, h)
  BY <1>5 DEF Built
<1>7. PICK cut \in SUBSET Arrivals, t \in Arrivals : BuiltBy(q, cut, t, g, h)
  BY <1>6
<1>8. h.seq <= reg[n].seq + 1
  <2>1. h.seq <= Top(n)
    BY <1>2, TrustedBelow DEF OneBase
  <2>2. rec[n].seq <= reg[n].seq + 1 /\ Top(n) \in {rec[n].seq, reg[n].seq} /\ Top(n) \in Nat
    BY TopIs DEF OneBase, Base, SignerInv, RegisterNeverTwoBehind
  <2>3. rec[n].seq \in Nat
    BY DEF OneBase, Base, TypeInv, TypeOK, Head
  <2>4. QED
    BY <1>2, <2>1, <2>2, <2>3
<1>9. g = reg[n]
  <2>1. g.seq \in Nat /\ h.seq = g.seq + 1
    BY <1>7, TrustedBelow DEF OneBase, BuiltBy
  <2>2. g.seq = reg[n].seq
    BY <1>2, <1>3, <1>8, <2>1
  <2>3. QED
    BY <1>2, <2>2 DEF OneBase, ChainInv
<1> DEFINE ws == {q} \X cut
<1>10. /\ h.prev.root = reg[n].root /\ h.seq = reg[n].seq + 1 /\ h.root = reg[n].root \cup ws
       /\ t \in cut /\ \A i \in cut : \A k \in Arrivals : <<q, k>> \in reg[n].root => k < i
  BY <1>7, <1>9 DEF BuiltBy, PairOf
<1>11. ws \in SUBSET Writes /\ ws # {}
  <2>1. <<q, t>> \in ws
    BY <1>10
  <2>2. QED
    BY <2>1 DEF Writes
<1>12. \A i \in cut : <<q, i>> \notin reg[n].root
  <2>1. \A i \in Arrivals : ~(i < i)
    BY WritesAssumption DEF Arrivals
  <2>2. QED
    BY <1>10, <2>1
<1>13. \A w \in ws : TheFate[w] = "Queued"
  <2>1. ASSUME NEW w \in ws PROVE TheFate[w] = "Queued"
    <3>1. w \in Writes /\ w = <<q, w[2]>> /\ w[1] = q /\ w[2] \in cut
      BY <1>11, <2>1
    <3>2. <<q, w[2]>> \in h.root /\ <<q, w[2]>> \notin h.prev.root
      BY <1>10, <1>12, <2>1, <3>1
    <3>3. page[q].told[w[2]] = "Queued"
      BY <1>4, <3>1, <3>2 DEF Awaited, AwaitedAt
    <3>4. QED
      BY <3>1, <3>3, FateIs
  <2>2. QED
    BY <2>1
<1>14. UNCHANGED page /\ reg'[n] = h
  <2>1. reg' = [reg EXCEPT ![n] = Merge(reg[n], h)] /\ reg \in [Nodes -> Head]
    BY <1>1 DEF Apply, OneBase, Base, TypeInv, TypeOK
  <2>2. Merge(reg[n], h) = h
    BY <1>1 DEF Merge
  <2>3. QED
    BY <1>1, <2>1, <2>2 DEF Apply
<1>15. TheHead = PairOf(reg[n]) /\ TheHead' = PairOf(h)
  BY <1>14, TheRegIs DEF TheHead
<1>16. TheHead.seq = reg[n].seq /\ TheHead.root = reg[n].root
  BY <1>15 DEF PairOf
<1>17. TheHead' = [seq |-> TheHead.seq + 1, root |-> TheHead.root \cup ws]
  BY <1>10, <1>15, <1>16 DEF PairOf
<1>18. ws \cap TheHead.root = {}
  BY <1>12, <1>16
<1>19. TheFate' = TheFate
  BY <1>14, TellsNothing
<1> HIDE DEF ws
<1>20. Log!Extend(ws)
  BY <1>11, <1>13, <1>17, <1>18, <1>19, LogWrites DEF Log!Extend, TheHead, TheFate
<1>21. QED
  BY <1>11, <1>20, LogWrites DEF Log!LogNext

LEMMA LogStep ==
  ASSUME OneBase, OneLog, NEW n \in Nodes, RefusedNotInTree', PublishedIsDurable', [Next]_vars
  PROVE  [Log!LogNext]_(Log!logVars)
<1>1. page \in [Pages -> PageState] /\ \A m \in Nodes : m = n
  BY TypeInvPages DEF OneBase, Base, OneLog, OneNode
<1>2. ASSUME NEW p \in Pages,
             \/ Start(p) \/ RaceReady(p) \/ BlockRejected(p) \/ AskHead(p) \/ HearSigner(p)
             \/ SignLost(p) \/ HearUpdated(p) \/ Due(p) \/ Backstop(p) \/ Reconnected(p)
             \/ HeadHinted(p) \/ HearHead(p) \/ HearLate(p) \/ HeadPushed(p)
      PROVE  [Log!LogNext]_(Log!logVars)
  <2>1. PICK e : Moves(p, e)
    BY <1>2, PageMoves DEF OneBase
  <2>2. QED
    BY <2>1, MovesConclude
<1>3. ASSUME NEW p \in Pages, CutNow(p)
      PROVE  [Log!LogNext]_(Log!logVars)
  <2>1. /\ PageStep(p, page'[p])
        /\ \A i \in Arrivals : \/ page'[p].told[i] = page[p].told[i]
                               \/ i \in Queue(page[p]) /\ page'[p].told[i] = "Conflict"
    BY <1>3, CutNowTells
  <2>2. \A i \in Arrivals : page'[p].told[i] # page[p].told[i] =>
          page[p].told[i] = "Queued" /\ page'[p].told[i] = "Conflict"
    BY <2>1 DEF Queue
  <2>3. Step(p, page'[p]) /\ reg' = reg
    BY <2>1 DEF PageStep
  <2>4. QED
    BY <2>2, <2>3, AnswersConclude
<1>4. ASSUME NEW p \in Pages, Close(p)
      PROVE  UNCHANGED Log!logVars
  <2> DEFINE t == [InitPage EXCEPT !.up = "Gone", !.told = page[p].told]
  <2>1. page' = [page EXCEPT ![p] = t] /\ reg' = reg
    BY <1>4 DEF Close
  <2>2. t.told = page[p].told
    BY DEF InitPage
  <2> HIDE DEF t
  <2>3. page'[p] = t /\ \A q \in Pages : q # p => page'[q] = page[q]
    BY <1>1, <2>1
  <2>4. QED
    BY <2>1, <2>2, <2>3, RestsLog
<1>5. ASSUME NEW p \in Pages, SignerAnswers(p)
      PROVE  UNCHANGED Log!logVars
  <2>1. /\ \E a : page' = [page EXCEPT ![p].ans = a]
        /\ reg' = reg
    BY <1>5 DEF SignerAnswers
  <2>2. \A q \in Pages : page'[q].told = page[q].told
    BY <1>1, <2>1 DEF PageState
  <2>3. QED
    BY <2>1, <2>2, RestsLog
<1>6. ASSUME UNCHANGED <<page, reg>>
      PROVE  UNCHANGED Log!logVars
  BY <1>6, RestsLog
<1>7. ASSUME NEW p \in Pages, TakeRead(p)
      PROVE  UNCHANGED <<page, reg>>
  BY <1>7 DEF TakeRead
<1>8. ASSUME NEW m \in Nodes, SignerServesStale(m)
      PROVE  UNCHANGED <<page, reg>>
  BY <1>8 DEF SignerServesStale
<1>9. ASSUME NEW m \in Nodes, NEW k \in Nodes
      PROVE  ~Sync(m, k)
  BY <1>1 DEF Sync
<1>10. QED
  BY <1>1, <1>2, <1>3, <1>4, <1>5, <1>6, <1>7, <1>8, <1>9, AcceptSubmits, UpdateExtends DEF Next, vars

(* The pages of one node implement the log: the head of the Register only  *)
(* grows, head by head, by whole writes that wait for an answer, and each  *)
(* write is answered once, by what the head holds then and for good        *)
(* (invariants 1-4 of page/src/lib.rs), for any pages, writes, list bound, *)
(* tries and closes.                                                       *)
THEOREM LogCorrect ==
  ASSUME NEW CONSTANT n, Nodes = {n}, Sleepy = {}, "Final" \notin SignOutcomes
  PROVE  Spec => ImplementsLog
<1>1. OneLog /\ n \in Nodes
  BY DEF OneLog, OneNode
<1>2. Init => Log!LogInit
  <2> SUFFICES ASSUME Init PROVE Log!LogInit
    OBVIOUS
  <2>1. TheReg = NoHead
    BY <1>1, TheRegIs DEF Init
  <2>2. TheHead = Genesis
    BY <2>1 DEF TheHead, PairOf, NoHead, Genesis
  <2>3. \A w \in Writes : page[w[1]].told[w[2]] = "None"
    BY DEF Init, InitPage, Writes
  <2>4. TheFate = [w \in Writes |-> "None"]
    BY <2>3 DEF TheFate
  <2>5. QED
    BY <2>2, <2>4, LogWrites DEF Log!LogInit, Log!Genesis, Genesis, TheHead, TheFate
<1>3. OneBase /\ RefusedNotInTree' /\ PublishedIsDurable' /\ [Next]_vars => [Log!LogNext]_(Log!logVars)
  BY <1>1, LogStep
<1>4. Spec => []OneBase
  BY <1>1, OneBaseAlways
<1>5. Spec => []RefusedNotInTree
  BY RefusedCorrect
<1>6. Spec => []PublishedIsDurable
  BY DurableCorrect
<1>7. QED
  BY <1>2, <1>3, <1>4, <1>5, <1>6, PTL DEF Spec, ImplementsLog, Log!LogSpec
=============================================================================
