-------------------------- MODULE AppPublish_proofs --------------------------
(***************************************************************************)
(* The theorems about AppPublish, for any apps, pieces, builds and doors:  *)
(* what each event of the table keeps, then the system.                    *)
(***************************************************************************)
EXTENDS AppPublish, FiniteSetTheorems, TLAPS

Io == [app : [Apps -> App], put : [Pieces -> Puts], route : [Apps -> SUBSET Pieces],
       site : [Apps -> Sites]]

(* One publish, where the node holds the pieces h: it counts answers of    *)
(* its own pieces, acknowledged ones are there, its site was sent with     *)
(* enough of them, and it is backed up with all.                           *)
AppOK(a, h) ==
  /\ a \in App
  /\ a.acked \cup a.refused \subseteq a.build.pieces
  /\ a.acked \subseteq h
  /\ a.st \in {"Siting", "Published"} => Rebuildable(a)
  /\ a.st = "BackedUp" => a.build.pieces \subseteq h

(* All of them: what a publish owes is pending and routed to it, and only  *)
(* pieces of its build are routed to it.                                   *)
IoOK(s, h) ==
  /\ s \in Io
  /\ \A x \in Apps : /\ AppOK(s.app[x], h)
                     /\ s.route[x] \subseteq s.app[x].build.pieces
                     /\ \A k \in Owes(s.app[x]) : s.put[k] = "Pending" /\ k \in s.route[x]

AppInv == IoOK(io, has) /\ left \in [Apps -> Nat] /\ sent \subseteq Pieces /\ has \subseteq Pieces

----------------------------------------------------------------------------
LEMMA BuildIs ==
  ASSUME NEW b \in Builds
  PROVE  b.pieces \subseteq Pieces /\ IsFiniteSet(b.pieces) /\ Cardinality(b.pieces) \in Nat /\ b.k \in Nat
<1>1. b.pieces \subseteq Pieces /\ IsFiniteSet(b.pieces) /\ b.k \in 1 .. Cardinality(b.pieces)
  BY AppAssumption
<1>2. Cardinality(b.pieces) \in Nat
  BY <1>1, FS_CardinalityType
<1>3. QED
  BY <1>1, <1>2

LEMMA OverIs ==
  ASSUME NEW a \in App, NEW st \in Stages
  PROVE  /\ Over(a, st) \in App /\ Over(a, st).st = st /\ Over(a, st).build = a.build
         /\ Over(a, st).acked = {} /\ Over(a, st).refused = {}
BY DEF Over, App

(* A publish that ended: it counts nothing, owes nothing, and is backed up *)
(* only when that is so.                                                   *)
Ends == Stages \ {"Pieces", "Siting", "Published"}

LEMMA OverOK ==
  ASSUME NEW a \in App, NEW st \in Ends, NEW h, st = "BackedUp" => a.build.pieces \subseteq h
  PROVE  AppOK(Over(a, st), h) /\ Owes(Over(a, st)) = {} /\ Over(a, st).build = a.build
BY OverIs DEF AppOK, Owes, Tracks, InFlight, Ends

(* What the effects do, one by one. *)
LEMMA WithdrawIs ==
  ASSUME NEW s \in Io, NEW xs, NEW ks
  PROVE  /\ Withdraw(s, xs, ks) \in Io
         /\ Withdraw(s, xs, ks).app = s.app /\ Withdraw(s, xs, ks).route = s.route
         /\ Withdraw(s, xs, ks).site = s.site
         /\ \A k \in Pieces : Withdraw(s, xs, ks).put[k] =
              IF k \in ks /\ s.put[k] = "Pending" /\ ~OwedElsewhere(s, k, xs) THEN "Cancelled" ELSE s.put[k]
<1> DEFINE p == [k \in Pieces |-> IF k \in ks /\ s.put[k] = "Pending" /\ ~OwedElsewhere(s, k, xs)
                                    THEN "Cancelled" ELSE s.put[k]]
<1>1. s.put \in [Pieces -> Puts]
  BY DEF Io
<1>2. p \in [Pieces -> Puts]
  <2>1. ASSUME NEW k \in Pieces
        PROVE  (IF k \in ks /\ s.put[k] = "Pending" /\ ~OwedElsewhere(s, k, xs)
                  THEN "Cancelled" ELSE s.put[k]) \in Puts
    BY <1>1 DEF Puts
  <2>2. QED
    BY <2>1
<1>3. \A k \in Pieces : p[k] = IF k \in ks /\ s.put[k] = "Pending" /\ ~OwedElsewhere(s, k, xs)
                                 THEN "Cancelled" ELSE s.put[k]
  OBVIOUS
<1>4. Withdraw(s, xs, ks) = [s EXCEPT !.put = p]
  BY DEF Withdraw
<1> HIDE DEF p
<1>5. QED
  BY <1>2, <1>3, <1>4 DEF Io

LEMMA UnrouteIs ==
  ASSUME NEW s \in Io, NEW x \in Apps
  PROVE  /\ Unroute(s, x) \in Io
         /\ Unroute(s, x).app = s.app /\ Unroute(s, x).put = s.put /\ Unroute(s, x).site = s.site
         /\ \A y \in Apps : Unroute(s, x).route[y] = IF y = x THEN {} ELSE s.route[y]
BY DEF Unroute, Io

LEMMA BecomesIs ==
  ASSUME NEW s \in Io, NEW x \in Apps, NEW a \in App
  PROVE  /\ Becomes(s, x, a) \in Io
         /\ Becomes(s, x, a).put = s.put /\ Becomes(s, x, a).route = s.route
         /\ Becomes(s, x, a).site = s.site
         /\ \A y \in Apps : Becomes(s, x, a).app[y] = IF y = x THEN a ELSE s.app[y]
<1> DEFINE f == [s.app EXCEPT ![x] = a]
<1>1. s.app \in [Apps -> App]
  BY DEF Io
<1>2. f \in [Apps -> App] /\ \A y \in Apps : f[y] = IF y = x THEN a ELSE s.app[y]
  BY <1>1
<1>3. Becomes(s, x, a) = [s EXCEPT !.app = f]
  BY DEF Becomes
<1> HIDE DEF f
<1>4. QED
  BY <1>2, <1>3 DEF Io

LEMMA SiteOnly ==
  ASSUME NEW s \in Io, NEW x \in Apps, NEW v \in Sites
  PROVE  /\ [s EXCEPT !.site[x] = v] \in Io
         /\ [s EXCEPT !.site[x] = v].app = s.app /\ [s EXCEPT !.site[x] = v].put = s.put
         /\ [s EXCEPT !.site[x] = v].route = s.route
BY DEF Io

(* x's publish ends as st. *)
LEMMA EndAsOK ==
  ASSUME NEW h, NEW s, IoOK(s, h), NEW x \in Apps, NEW a \in App, a.build = s.app[x].build,
         NEW st \in Ends, st = "BackedUp" => a.build.pieces \subseteq h
  PROVE  IoOK(EndAs(s, x, a, st), h)
<1> DEFINE o == Over(a, st)
           b == Becomes(s, x, o)
           w == Withdraw(b, {x}, Pending(a))
           t == Unroute(w, x)
<1>1. s \in Io /\ s.app \in [Apps -> App] /\ s.put \in [Pieces -> Puts]
  BY DEF IoOK, Io
<1>2. o \in App /\ AppOK(o, h) /\ Owes(o) = {} /\ o.build = a.build
  BY OverIs, OverOK DEF Ends
<1>3. EndAs(s, x, a, st) = t
  BY DEF EndAs
<1> HIDE DEF o
<1>4. /\ b \in Io /\ b.put = s.put /\ b.route = s.route
      /\ \A y \in Apps : b.app[y] = IF y = x THEN o ELSE s.app[y]
  BY <1>1, <1>2, BecomesIs
<1> HIDE DEF b
<1>5. /\ w \in Io /\ w.app = b.app /\ w.route = b.route
      /\ \A k \in Pieces : w.put[k] = IF k \in Pending(a) /\ b.put[k] = "Pending" /\ ~OwedElsewhere(b, k, {x})
                                        THEN "Cancelled" ELSE b.put[k]
  BY <1>4, WithdrawIs
<1> HIDE DEF w
<1>6. /\ t \in Io /\ t.app = w.app /\ t.put = w.put
      /\ \A y \in Apps : t.route[y] = IF y = x THEN {} ELSE w.route[y]
  BY <1>5, UnrouteIs
<1> HIDE DEF t
<1>7. ASSUME NEW y \in Apps
      PROVE  /\ AppOK(t.app[y], h)
             /\ t.route[y] \subseteq t.app[y].build.pieces
             /\ \A k \in Owes(t.app[y]) : t.put[k] = "Pending" /\ k \in t.route[y]
  <2>1. CASE y = x
    BY <1>2, <1>4, <1>5, <1>6, <2>1
  <2>2. CASE y # x
    <3>1. t.app[y] = s.app[y] /\ t.route[y] = s.route[y] /\ b.app[y] = s.app[y] /\ b.route[y] = s.route[y]
      BY <1>4, <1>5, <1>6, <2>2
    <3>2. ASSUME NEW k \in Owes(s.app[y])
          PROVE  t.put[k] = "Pending" /\ k \in t.route[y]
      <4>1. s.put[k] = "Pending" /\ k \in s.route[y] /\ k \in Pieces
        BY <1>1 DEF IoOK, Io
      <4>2. OwedElsewhere(b, k, {x})
        BY <2>2, <3>1, <3>2, <4>1 DEF OwedElsewhere
      <4>3. QED
        BY <1>4, <1>5, <1>6, <3>1, <4>1, <4>2
    <3>3. QED
      BY <3>1, <3>2 DEF IoOK
  <2>3. QED
    BY <2>1, <2>2
<1>8. IoOK(t, h)
  BY <1>6, <1>7 DEF IoOK
<1>9. QED
  BY <1>3, <1>8

----------------------------------------------------------------------------
(* What the node holds only grows. *)
LEMMA HeldMore ==
  ASSUME NEW h, NEW g, h \subseteq g, NEW a, AppOK(a, h)
  PROVE  AppOK(a, g)
BY DEF AppOK

(* A piece more acknowledged leaves a rebuildable publish rebuildable. *)
LEMMA RebuildableMore ==
  ASSUME NEW a \in App, NEW m \in App, a.acked \subseteq m.acked, m.acked \subseteq m.build.pieces,
         m.build = a.build, Rebuildable(a)
  PROVE  Rebuildable(m)
<1>1. a.build \in Builds /\ IsFiniteSet(a.build.pieces) /\ a.build.k \in Nat
  BY BuildIs DEF App
<1>2. IsFiniteSet(m.acked)
  BY <1>1, FS_Subset
<1>3. IsFiniteSet(a.acked) /\ Cardinality(a.acked) <= Cardinality(m.acked)
  BY <1>2, FS_Subset
<1>4. Cardinality(a.acked) \in Nat /\ Cardinality(m.acked) \in Nat
  BY <1>2, <1>3, FS_CardinalityType
<1>5. QED
  BY <1>1, <1>3, <1>4 DEF Rebuildable

LEMMA OnAckedOK ==
  ASSUME NEW h, NEW a, AppOK(a, h), NEW k \in a.build.pieces
  PROVE  /\ AppOK(OnAcked(a, k), h \cup {k})
         /\ OnAcked(a, k).build = a.build
         /\ Owes(OnAcked(a, k)) \subseteq Owes(a) \ {k}
<1> DEFINE m == [a EXCEPT !.acked = @ \cup {k}]
           n == OnAcked(a, k)
<1>1. a \in App /\ a.build \in Builds /\ k \in Pieces
  BY BuildIs DEF AppOK, App
<1>2. m \in App /\ m.st = a.st /\ m.build = a.build /\ m.acked = a.acked \cup {k} /\ m.refused = a.refused
  BY <1>1 DEF App
<1>3. Rebuildable(a) => Rebuildable(m)
  BY <1>1, <1>2, RebuildableMore DEF AppOK
<1>4. n = IF a.st = "Pieces" /\ Rebuildable(m) THEN [m EXCEPT !.st = "Siting"]
          ELSE IF a.st = "Published" /\ Whole(m) THEN Over(m, "BackedUp")
          ELSE IF Tracks(a) THEN m ELSE a
  BY DEF OnAcked
<1> HIDE DEF m, n
<1>5. CASE a.st = "Pieces" /\ Rebuildable(m)
  <2>1. /\ n \in App /\ n.st = "Siting" /\ n.build = m.build /\ n.acked = m.acked
        /\ n.refused = m.refused
    BY <1>2, <1>4, <1>5 DEF App, Stages
  <2>2. Rebuildable(n)
    BY <1>5, <2>1 DEF Rebuildable
  <2>3. Owes(n) \subseteq Owes(a) \ {k}
    BY <1>2, <1>5, <2>1 DEF Owes, Tracks, InFlight, Pending
  <2>4. QED
    BY <1>2, <2>1, <2>2, <2>3 DEF AppOK, n
<1>6. CASE ~(a.st = "Pieces" /\ Rebuildable(m)) /\ a.st = "Published" /\ Whole(m)
  <2>1. n = Over(m, "BackedUp")
    BY <1>4, <1>6
  <2>2. m.build.pieces \subseteq h \cup {k}
    BY <1>2, <1>6 DEF Whole, AppOK
  <2>3. "BackedUp" \in Ends
    BY DEF Ends, Stages
  <2>4. QED
    BY <1>2, <2>1, <2>2, <2>3, OverOK DEF n
<1>7. CASE ~(a.st = "Pieces" /\ Rebuildable(m)) /\ ~(a.st = "Published" /\ Whole(m)) /\ Tracks(a)
  <2>1. n = m
    BY <1>4, <1>7
  <2>2. AppOK(m, h \cup {k})
    BY <1>1, <1>2, <1>3, <1>7 DEF AppOK, Tracks, InFlight
  <2>3. Owes(m) \subseteq Owes(a) \ {k}
    BY <1>2, <1>7 DEF Owes, Tracks, InFlight, Pending
  <2>4. QED
    BY <1>2, <2>1, <2>2, <2>3 DEF n
<1>8. CASE ~(a.st = "Pieces" /\ Rebuildable(m)) /\ ~(a.st = "Published" /\ Whole(m)) /\ ~Tracks(a)
  <2>1. n = a
    BY <1>4, <1>8
  <2>2. Owes(a) = {}
    BY <1>8 DEF Owes
  <2>3. QED
    BY <2>1, <2>2, HeldMore DEF n
<1>9. QED
  BY <1>5, <1>6, <1>7, <1>8

LEMMA OnPieceRefusedOK ==
  ASSUME NEW h, NEW a, AppOK(a, h), NEW k \in a.build.pieces
  PROVE  /\ AppOK(OnPieceRefused(a, k), h)
         /\ OnPieceRefused(a, k).build = a.build
         /\ Owes(OnPieceRefused(a, k)) \subseteq Owes(a) \ {k}
<1> DEFINE m == [a EXCEPT !.refused = @ \cup {k}]
           n == OnPieceRefused(a, k)
<1>1. a \in App /\ a.build \in Builds /\ k \in Pieces
  BY BuildIs DEF AppOK, App
<1>2. m \in App /\ m.st = a.st /\ m.build = a.build /\ m.acked = a.acked /\ m.refused = a.refused \cup {k}
  BY <1>1 DEF App
<1>3. n = IF a.st = "Pieces" /\ Lost(m) THEN Over(m, "Refused")
          ELSE IF Tracks(a) THEN m ELSE a
  BY DEF OnPieceRefused
<1> HIDE DEF m, n
<1>4. CASE a.st = "Pieces" /\ Lost(m)
  <2>1. n = Over(m, "Refused")
    BY <1>3, <1>4
  <2>2. "Refused" \in Ends
    BY DEF Ends, Stages
  <2>3. QED
    BY <1>2, <2>1, <2>2, OverOK DEF n
<1>5. CASE ~(a.st = "Pieces" /\ Lost(m)) /\ Tracks(a)
  <2>1. n = m
    BY <1>3, <1>5
  <2>2. AppOK(m, h)
    BY <1>1, <1>2, <1>5 DEF AppOK, Rebuildable
  <2>3. Owes(m) \subseteq Owes(a) \ {k}
    BY <1>2, <1>5 DEF Owes, Tracks, InFlight, Pending
  <2>4. QED
    BY <1>2, <2>1, <2>2, <2>3 DEF n
<1>6. CASE ~(a.st = "Pieces" /\ Lost(m)) /\ ~Tracks(a)
  <2>1. n = a
    BY <1>3, <1>6
  <2>2. Owes(a) = {}
    BY <1>6 DEF Owes
  <2>3. QED
    BY <2>1, <2>2 DEF n
<1>7. QED
  BY <1>4, <1>5, <1>6

(* A piece's answer, heard by all it is routed to at once: who ends lets   *)
(* its pieces go, and none of them is a piece another publish still owes.  *)
LEMMA PieceAnsweredOK ==
  ASSUME NEW h, NEW s, IoOK(s, h), NEW k \in Pieces
  PROVE  IoOK(PieceAnswered(s, k), IF k \in Bad THEN h ELSE h \cup {k})
<1> DEFINE g    == IF k \in Bad THEN h ELSE h \cup {k}
           hear(x) == IF k \notin s.route[x] THEN s.app[x]
                      ELSE IF k \in Bad THEN OnPieceRefused(s.app[x], k)
                      ELSE OnAcked(s.app[x], k)
           app  == [x \in Apps |-> hear(x)]
           over == {x \in Apps : Tracks(s.app[x]) /\ ~Tracks(app[x])}
           site == {x \in Apps : app[x].st = "Siting" /\ s.app[x].st = "Pieces"}
           put  == [s.put EXCEPT ![k] = IF @ # "Pending" THEN @ ELSE IF k \in Bad THEN "Refused" ELSE "Put"]
           route == [x \in Apps |-> IF x \in over THEN {} ELSE s.route[x]]
           sites == [x \in Apps |-> IF x \in site THEN "Publishing" ELSE s.site[x]]
           heard == [app |-> app, put |-> put, route |-> route, site |-> sites]
           gone == UNION {Pending(s.app[x]) : x \in over}
           t == Withdraw(heard, over, gone)
<1>1. /\ s.app \in [Apps -> App] /\ s.put \in [Pieces -> Puts] /\ s.route \in [Apps -> SUBSET Pieces]
      /\ s.site \in [Apps -> Sites]
  BY DEF IoOK, Io
<1>2. PieceAnswered(s, k) = t
  BY DEF PieceAnswered
<1>3. \A x \in Apps : /\ AppOK(hear(x), g) /\ hear(x).build = s.app[x].build
                      /\ Owes(hear(x)) \subseteq Owes(s.app[x]) \ {k}
  <2>1. SUFFICES ASSUME NEW x \in Apps
                 PROVE  /\ AppOK(hear(x), g) /\ hear(x).build = s.app[x].build
                        /\ Owes(hear(x)) \subseteq Owes(s.app[x]) \ {k}
    OBVIOUS
  <2>2. /\ AppOK(s.app[x], h) /\ s.route[x] \subseteq s.app[x].build.pieces
        /\ Owes(s.app[x]) \subseteq s.route[x]
    BY DEF IoOK
  <2>3. CASE k \notin s.route[x]
    <3>1. hear(x) = s.app[x] /\ h \subseteq g
      BY <2>3
    <3> HIDE DEF hear, g
    <3>2. QED
      BY <2>2, <2>3, <3>1, HeldMore
  <2>4. CASE k \in s.route[x] /\ k \in Bad
    <3>1. hear(x) = OnPieceRefused(s.app[x], k) /\ g = h
      BY <2>4
    <3> HIDE DEF hear, g
    <3>2. QED
      BY <2>2, <2>4, <3>1, OnPieceRefusedOK
  <2>5. CASE k \in s.route[x] /\ k \notin Bad
    <3>1. hear(x) = OnAcked(s.app[x], k) /\ g = h \cup {k}
      BY <2>5
    <3> HIDE DEF hear, g
    <3>2. k \in s.app[x].build.pieces
      BY <2>2, <2>5
    <3>3. /\ AppOK(OnAcked(s.app[x], k), h \cup {k}) /\ OnAcked(s.app[x], k).build = s.app[x].build
          /\ Owes(OnAcked(s.app[x], k)) \subseteq Owes(s.app[x]) \ {k}
      BY <2>2, <3>2, OnAckedOK
    <3>4. QED
      BY <3>1, <3>3
  <2>6. QED
    BY <2>3, <2>4, <2>5
<1> HIDE DEF hear, g
<1>4. app \in [Apps -> App] /\ \A x \in Apps : app[x] = hear(x)
  BY <1>3 DEF AppOK
<1> HIDE DEF app
<1>5. over \subseteq Apps /\ \A x \in Apps : x \in over <=> Tracks(s.app[x]) /\ ~Tracks(app[x])
  OBVIOUS
<1> HIDE DEF over
<1>6. put \in [Pieces -> Puts] /\ \A j \in Pieces \ {k} : put[j] = s.put[j]
  BY <1>1 DEF Puts
<1>7. route \in [Apps -> SUBSET Pieces] /\ \A x \in Apps : route[x] = IF x \in over THEN {} ELSE s.route[x]
  BY <1>1
<1>8. sites \in [Apps -> Sites]
  BY <1>1 DEF Sites
<1> HIDE DEF put, route, sites, site
<1>9. heard \in Io /\ heard.app = app /\ heard.put = put /\ heard.route = route
  BY <1>4, <1>6, <1>7, <1>8 DEF Io
<1> HIDE DEF heard, gone
<1>10. /\ t \in Io /\ t.app = app /\ t.route = route
       /\ \A j \in Pieces : t.put[j] = IF j \in gone /\ put[j] = "Pending" /\ ~OwedElsewhere(heard, j, over)
                                         THEN "Cancelled" ELSE put[j]
  BY <1>9, WithdrawIs
<1> HIDE DEF t
<1>11. ASSUME NEW y \in Apps
       PROVE  /\ AppOK(t.app[y], g)
              /\ t.route[y] \subseteq t.app[y].build.pieces
              /\ \A j \in Owes(t.app[y]) : t.put[j] = "Pending" /\ j \in t.route[y]
  <2>1. t.app[y] = hear(y) /\ app[y] = hear(y)
    BY <1>4, <1>10
  <2>2. t.route[y] \subseteq s.route[y] /\ s.route[y] \subseteq s.app[y].build.pieces
    BY <1>7, <1>10 DEF IoOK
  <2>3. ASSUME NEW j \in Owes(hear(y))
        PROVE  t.put[j] = "Pending" /\ j \in t.route[y]
    <3>1. j \in Owes(s.app[y]) /\ j # k
      BY <1>3, <2>3
    <3>2. s.put[j] = "Pending" /\ j \in s.route[y] /\ j \in Pieces
      BY <1>1, <3>1 DEF IoOK
    <3>3. y \notin over
      BY <1>5, <2>1, <2>3 DEF Owes
    <3>4. OwedElsewhere(heard, j, over)
      BY <1>7, <1>9, <2>1, <2>3, <3>2, <3>3 DEF OwedElsewhere
    <3>5. QED
      BY <1>6, <1>7, <1>10, <3>1, <3>2, <3>3, <3>4
  <2>4. QED
    BY <1>3, <2>1, <2>2, <2>3
<1>12. IoOK(t, g)
  BY <1>10, <1>11 DEF IoOK
<1>13. QED
  BY <1>2, <1>12 DEF g

(* The other doors. *)
LEMMA SiteOnlyOK ==
  ASSUME NEW h, NEW s, IoOK(s, h), NEW x \in Apps, NEW v \in Sites
  PROVE  IoOK([s EXCEPT !.site[x] = v], h) /\ [s EXCEPT !.site[x] = v].app = s.app
<1>1. s \in Io
  BY DEF IoOK
<1> DEFINE t == [s EXCEPT !.site[x] = v]
<1>2. t \in Io /\ t.app = s.app /\ t.put = s.put /\ t.route = s.route
  BY <1>1, SiteOnly
<1> HIDE DEF t
<1>3. IoOK(t, h)
  BY <1>2 DEF IoOK
<1>4. QED
  BY <1>2, <1>3 DEF t

LEMMA CancelPageOK ==
  ASSUME NEW h, NEW s, IoOK(s, h), NEW x \in Apps
  PROVE  IoOK(CancelPage(s, x), h) /\ CancelPage(s, x).app = s.app
<1>1. s.site \in [Apps -> Sites]
  BY DEF IoOK, Io
<1> DEFINE v == IF s.site[x] = "Publishing" THEN "Cancelled" ELSE s.site[x]
<1>2. v \in Sites /\ CancelPage(s, x) = [s EXCEPT !.site[x] = v]
  BY <1>1 DEF CancelPage, Sites
<1> HIDE DEF v
<1>3. QED
  BY <1>2, SiteOnlyOK

LEMMA OnSiteOK ==
  ASSUME NEW h, NEW s, IoOK(s, h), NEW x \in Apps, NEW how \in SiteEnds
  PROVE  IoOK(OnSite(s, x, how), h)
<1> DEFINE a == s.app[x]
<1>1. s \in Io /\ a \in App /\ AppOK(a, h)
  BY DEF IoOK, Io
<1>2. CASE a.st # "Siting"
  BY <1>2 DEF OnSite
<1>3. CASE a.st = "Siting" /\ how # "Published"
  <2>1. how \in Ends
    BY <1>3 DEF SiteEnds, Ends, Stages
  <2>2. how # "BackedUp"
    BY DEF SiteEnds
  <2>3. OnSite(s, x, how) = EndAs(s, x, a, how)
    BY <1>3 DEF OnSite
  <2> HIDE DEF a
  <2>4. a.build = s.app[x].build
    BY DEF a
  <2>5. IoOK(EndAs(s, x, a, how), h)
    BY <1>1, <2>1, <2>2, <2>4, EndAsOK
  <2>6. QED
    BY <2>3, <2>5
<1>4. CASE a.st = "Siting" /\ how = "Published" /\ Whole(a)
  <2>1. "BackedUp" \in Ends
    BY DEF Ends, Stages
  <2>2. a.build.pieces \subseteq h
    BY <1>1, <1>4 DEF AppOK, Whole
  <2>3. OnSite(s, x, how) = EndAs(s, x, a, "BackedUp")
    BY <1>4 DEF OnSite
  <2> HIDE DEF a
  <2>4. a.build = s.app[x].build
    BY DEF a
  <2>5. IoOK(EndAs(s, x, a, "BackedUp"), h)
    BY <1>1, <2>1, <2>2, <2>4, EndAsOK
  <2>6. QED
    BY <2>3, <2>5
<1>5. CASE a.st = "Siting" /\ how = "Published" /\ ~Whole(a)
  <2> DEFINE m == [a EXCEPT !.st = "Published"]
             t == Becomes(s, x, m)
  <2>1. OnSite(s, x, how) = t
    BY <1>5 DEF OnSite
  <2>2. /\ m \in App /\ m.st = "Published" /\ m.build = a.build /\ m.acked = a.acked
        /\ m.refused = a.refused
    BY <1>1 DEF App, Stages
  <2> HIDE DEF m
  <2>3. AppOK(m, h) /\ Owes(m) = Owes(a)
    BY <1>1, <1>5, <2>2 DEF AppOK, Rebuildable, Owes, Tracks, InFlight, Pending
  <2>4. /\ t \in Io /\ t.put = s.put /\ t.route = s.route
        /\ \A y \in Apps : t.app[y] = IF y = x THEN m ELSE s.app[y]
    BY <1>1, <2>2, BecomesIs
  <2> HIDE DEF t
  <2>5. IoOK(t, h)
    BY <2>2, <2>3, <2>4 DEF IoOK
  <2>6. QED
    BY <2>1, <2>5
<1>6. QED
  BY <1>2, <1>3, <1>4, <1>5

LEMMA OnCancelOK ==
  ASSUME NEW h, NEW s, IoOK(s, h), NEW x \in Apps
  PROVE  IoOK(OnCancel(s, x), h)
<1> DEFINE a == s.app[x]
           c == CancelPage(s, x)
<1>1. a \in App
  BY DEF IoOK, Io
<1>2. {"Cancelled", "BackupAbandoned"} \subseteq Ends
  BY DEF Ends, Stages
<1>3. IoOK(c, h) /\ c.app = s.app
  BY CancelPageOK
<1>4. OnCancel(s, x) \in {EndAs(s, x, a, "Cancelled"), EndAs(c, x, a, "Cancelled"),
                          EndAs(s, x, a, "BackupAbandoned"), s}
  BY DEF OnCancel
<1> HIDE DEF a, c
<1>5. a.build = s.app[x].build /\ a.build = c.app[x].build
  BY <1>3 DEF a
<1>6. IoOK(EndAs(s, x, a, "Cancelled"), h)
  BY <1>1, <1>2, <1>5, EndAsOK
<1>7. IoOK(EndAs(c, x, a, "Cancelled"), h)
  BY <1>1, <1>2, <1>3, <1>5, EndAsOK
<1>8. IoOK(EndAs(s, x, a, "BackupAbandoned"), h)
  BY <1>1, <1>2, <1>5, EndAsOK
<1>9. QED
  BY <1>4, <1>6, <1>7, <1>8

(* A publish replaced: what it lets go is nobody else's, what it needs is  *)
(* pending again.                                                          *)
LEMMA OnPublishOK ==
  ASSUME NEW h, NEW s, IoOK(s, h), NEW x \in Apps, NEW b \in Builds
  PROVE  IoOK(OnPublish(s, x, b), h)
<1> DEFINE o  == Started(s.app[x], b)
           ks == Owes(s.app[x]) \ b.pieces
           w  == Withdraw(s, {x}, ks)
           u  == Unroute(w, x)
           m  == Becomes(u, x, o)
           r  == [m EXCEPT !.route[x] = b.pieces]
           t  == Put(r, b.pieces)
<1>1. s \in Io /\ s.put \in [Pieces -> Puts] /\ b.pieces \subseteq Pieces
  BY BuildIs DEF IoOK, Io
<1>2. OnPublish(s, x, b) = t
  BY DEF OnPublish
<1>3. o \in App /\ AppOK(o, h) /\ o.build = b /\ Owes(o) = b.pieces
  BY DEF Started, App, Stages, AppOK, Owes, Tracks, InFlight, Pending
<1> HIDE DEF o, ks
<1>4. /\ w \in Io /\ w.app = s.app /\ w.route = s.route
      /\ \A k \in Pieces : w.put[k] = IF k \in ks /\ s.put[k] = "Pending" /\ ~OwedElsewhere(s, k, {x})
                                        THEN "Cancelled" ELSE s.put[k]
  BY <1>1, WithdrawIs
<1> HIDE DEF w
<1>5. /\ u \in Io /\ u.app = w.app /\ u.put = w.put
      /\ \A y \in Apps : u.route[y] = IF y = x THEN {} ELSE w.route[y]
  BY <1>4, UnrouteIs
<1> HIDE DEF u
<1>6. /\ m \in Io /\ m.put = u.put /\ m.route = u.route
      /\ \A y \in Apps : m.app[y] = IF y = x THEN o ELSE u.app[y]
  BY <1>3, <1>5, BecomesIs
<1> HIDE DEF m
<1>7. /\ r \in Io /\ r.put = m.put /\ r.app = m.app
      /\ \A y \in Apps : r.route[y] = IF y = x THEN b.pieces ELSE m.route[y]
  BY <1>1, <1>6 DEF Io
<1> HIDE DEF r
<1>8. /\ t \in Io /\ t.app = r.app /\ t.route = r.route
      /\ \A k \in Pieces : t.put[k] = IF k \in b.pieces THEN "Pending" ELSE r.put[k]
  <2> DEFINE p == [k \in Pieces |-> IF k \in b.pieces THEN "Pending" ELSE r.put[k]]
  <2>1. p \in [Pieces -> Puts] /\ \A k \in Pieces : p[k] = IF k \in b.pieces THEN "Pending" ELSE r.put[k]
    BY <1>7 DEF Io, Puts
  <2>2. t = [r EXCEPT !.put = p]
    BY DEF Put
  <2> HIDE DEF p
  <2>3. QED
    BY <1>7, <2>1, <2>2 DEF Io
<1> HIDE DEF t
<1>9. ASSUME NEW y \in Apps
      PROVE  /\ AppOK(t.app[y], h)
             /\ t.route[y] \subseteq t.app[y].build.pieces
             /\ \A k \in Owes(t.app[y]) : t.put[k] = "Pending" /\ k \in t.route[y]
  <2>1. CASE y = x
    <3>1. t.app[y] = o /\ t.route[y] = b.pieces
      BY <1>6, <1>7, <1>8, <2>1
    <3>2. QED
      BY <1>1, <1>3, <1>8, <3>1
  <2>2. CASE y # x
    <3>1. t.app[y] = s.app[y] /\ t.route[y] = s.route[y]
      BY <1>4, <1>5, <1>6, <1>7, <1>8, <2>2
    <3>2. ASSUME NEW k \in Owes(s.app[y])
          PROVE  t.put[k] = "Pending" /\ k \in t.route[y]
      <4>1. s.put[k] = "Pending" /\ k \in s.route[y] /\ k \in Pieces
        BY <1>1 DEF IoOK, Io
      <4>2. OwedElsewhere(s, k, {x})
        BY <2>2, <3>2, <4>1 DEF OwedElsewhere
      <4>3. QED
        BY <1>4, <1>5, <1>6, <1>7, <1>8, <3>1, <4>1, <4>2
    <3>3. QED
      BY <3>1, <3>2 DEF IoOK
  <2>3. QED
    BY <2>1, <2>2
<1>10. IoOK(t, h)
  BY <1>8, <1>9 DEF IoOK
<1>11. QED
  BY <1>2, <1>10

----------------------------------------------------------------------------
(* The system. *)

LEMMA AppInvInit == Init => AppInv
<1>1. SUFFICES ASSUME Init PROVE AppInv
  OBVIOUS
<1>2. PICK b \in Builds : b = CHOOSE c \in Builds : TRUE
  BY AppAssumption
<1>3. /\ NoApp.st = "None" /\ NoApp.build = b /\ NoApp.acked = {} /\ NoApp.refused = {}
      /\ NoApp \in App
  BY <1>2 DEF NoApp, App, Stages
<1>4. AppOK(NoApp, {}) /\ Owes(NoApp) = {}
  BY <1>3 DEF AppOK, Owes, Tracks, InFlight
<1> DEFINE app   == [x \in Apps |-> NoApp]
           put   == [k \in Pieces |-> "None"]
           route == [x \in Apps |-> {}]
           site  == [x \in Apps |-> "None"]
<1>5. app \in [Apps -> App] /\ \A x \in Apps : app[x] = NoApp
  BY <1>3
<1>6. route \in [Apps -> SUBSET Pieces] /\ \A x \in Apps : route[x] = {}
  OBVIOUS
<1>7. put \in [Pieces -> Puts] /\ site \in [Apps -> Sites]
  BY DEF Puts, Sites
<1>8. io = [app |-> app, put |-> put, route |-> route, site |-> site]
  BY <1>1 DEF Init
<1> HIDE DEF app, put, route, site
<1>9. io \in Io /\ io.app = app /\ io.route = route
  BY <1>5, <1>6, <1>7, <1>8 DEF Io
<1>10. left \in [Apps -> Nat] /\ sent \subseteq Pieces /\ has = {}
  BY <1>1, AppAssumption DEF Init
<1>11. IoOK(io, {})
  BY <1>4, <1>5, <1>6, <1>9 DEF IoOK
<1>12. QED
  BY <1>10, <1>11 DEF AppInv

LEMMA Moved ==
  ASSUME AppInv, NEW s, Step(s), IoOK(s, has'), left' \in [Apps -> Nat], has' \subseteq Pieces
  PROVE  AppInv'
BY DEF AppInv, Step, OnWire

LEMMA AppInvStep == AppInv /\ [Next]_vars => AppInv'
<1>1. SUFFICES ASSUME AppInv, [Next]_vars PROVE AppInv'
  OBVIOUS
<1> USE <1>1
<1>2. IoOK(io, has) /\ left \in [Apps -> Nat] /\ has \subseteq Pieces
  BY DEF AppInv
<1>3. ASSUME NEW x \in Apps, PublishApp(x) PROVE AppInv'
  <2>1. PICK b \in Builds : Step(OnPublish(io, x, b))
    BY <1>3 DEF PublishApp
  <2>2. IoOK(OnPublish(io, x, b), has)
    BY <1>2, OnPublishOK
  <2>3. has' = has /\ left' \in [Apps -> Nat]
    BY <1>2, <1>3 DEF PublishApp
  <2>4. QED
    BY <1>2, <2>1, <2>2, <2>3, Moved
<1>4. ASSUME NEW x \in Apps, SiteDoor(x) PROVE AppInv'
  <2>1. Step(SendSite(io, x)) /\ has' = has /\ left' = left
    BY <1>4 DEF SiteDoor
  <2>2. IoOK(SendSite(io, x), has)
    BY <1>2, SiteOnlyOK DEF SendSite, Sites
  <2>3. QED
    BY <1>2, <2>1, <2>2, Moved
<1>5. ASSUME NEW x \in Apps, CancelApp(x) PROVE AppInv'
  <2>1. Step(OnCancel(io, x)) /\ has' = has /\ left' = left
    BY <1>5 DEF CancelApp
  <2>2. IoOK(OnCancel(io, x), has)
    BY <1>2, OnCancelOK
  <2>3. QED
    BY <1>2, <2>1, <2>2, Moved
<1>6. ASSUME NEW x \in Apps, CancelSite(x) PROVE AppInv'
  <2> DEFINE c == CancelPage(io, x)
             s == IF c.app[x].st = "Siting" THEN OnCancel(c, x) ELSE c
  <2>1. Step(s) /\ has' = has /\ left' = left
    BY <1>6 DEF CancelSite
  <2>2. IoOK(c, has)
    BY <1>2, CancelPageOK
  <2> HIDE DEF c
  <2>3. IoOK(OnCancel(c, x), has)
    BY <2>2, OnCancelOK
  <2>4. IoOK(s, has)
    BY <2>2, <2>3
  <2>5. QED
    BY <1>2, <2>1, <2>4, Moved
<1>7. ASSUME NEW x \in Apps, NEW how \in SiteEnds, SiteEnd(x, how) PROVE AppInv'
  <2> DEFINE c == [io EXCEPT !.site[x] = how]
  <2>1. Step(OnSite(c, x, how)) /\ has' = has /\ left' = left
    BY <1>7 DEF SiteEnd
  <2>2. IoOK(c, has)
    BY <1>2, SiteOnlyOK DEF Sites
  <2> HIDE DEF c
  <2>3. IoOK(OnSite(c, x, how), has)
    BY <2>2, OnSiteOK
  <2>4. QED
    BY <1>2, <2>1, <2>3, Moved
<1>8. ASSUME NEW k \in Pieces, NodeAnswers(k) PROVE AppInv'
  <2>1. Step(PieceAnswered(io, k)) /\ left' = left /\ has' = IF k \in Bad THEN has ELSE has \cup {k}
    BY <1>8 DEF NodeAnswers
  <2>2. IoOK(PieceAnswered(io, k), has')
    BY <1>2, <2>1, PieceAnsweredOK
  <2>3. has' \subseteq Pieces
    BY <1>2, <2>1
  <2>4. QED
    BY <1>2, <2>1, <2>2, <2>3, Moved
<1>9. CASE UNCHANGED vars
  BY <1>9 DEF vars, AppInv, IoOK
<1>10. QED
  BY <1>1, <1>3, <1>4, <1>5, <1>6, <1>7, <1>8, <1>9 DEF Next

(* Type correctness of the system. *)
THEOREM TypeCorrect == Spec => []TypeOK
<1>1. AppInv => TypeOK
  BY DEF AppInv, IoOK, Io, AppOK, TypeOK
<1>2. QED
  BY <1>1, AppInvInit, AppInvStep, PTL DEF Spec

(* A site in flight or published can be rebuilt from what the node holds.  *)
THEOREM RebuildableCorrect == Spec => []SiteIsRebuildable
<1>1. ASSUME AppInv PROVE SiteIsRebuildable
  <2>1. SUFFICES ASSUME NEW x \in Apps, io.app[x].st \in {"Siting", "Published"}
                 PROVE  Cardinality(has \cap io.app[x].build.pieces) >= io.app[x].build.k
    BY DEF SiteIsRebuildable
  <2> DEFINE a == io.app[x]
             held == has \cap a.build.pieces
  <2>2. AppOK(a, has) /\ Rebuildable(a)
    BY <1>1, <2>1 DEF AppInv, IoOK, AppOK
  <2>3. a.build \in Builds /\ IsFiniteSet(a.build.pieces) /\ a.build.k \in Nat
    BY <2>2, BuildIs DEF AppOK, App
  <2>4. a.acked \subseteq held
    BY <2>2 DEF AppOK
  <2>5. IsFiniteSet(held)
    BY <2>3, FS_Subset
  <2> HIDE DEF held
  <2>6. IsFiniteSet(a.acked) /\ Cardinality(a.acked) <= Cardinality(held)
    BY <2>4, <2>5, FS_Subset
  <2>7. Cardinality(a.acked) \in Nat /\ Cardinality(held) \in Nat
    BY <2>5, <2>6, FS_CardinalityType
  <2>8. Cardinality(held) >= a.build.k
    BY <2>2, <2>3, <2>6, <2>7 DEF Rebuildable
  <2>9. QED
    BY <2>8 DEF held
<1>2. QED
  BY <1>1, AppInvInit, AppInvStep, PTL DEF Spec

(* An app said to be backed up has every piece on the node.                *)
THEOREM BackedUpCorrect == Spec => []BackedUpIsWhole
<1>1. AppInv => BackedUpIsWhole
  BY DEF AppInv, IoOK, AppOK, BackedUpIsWhole
<1>2. QED
  BY <1>1, AppInvInit, AppInvStep, PTL DEF Spec

(* A piece owed is pending and its answer routed to who owes it. *)
THEOREM OwedCorrect == Spec => []OwedIsPending
<1>1. AppInv => OwedIsPending
  BY DEF AppInv, IoOK, OwedIsPending
<1>2. QED
  BY <1>1, AppInvInit, AppInvStep, PTL DEF Spec

=============================================================================
