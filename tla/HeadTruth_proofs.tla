-------------------------- MODULE HeadTruth_proofs --------------------------
(***************************************************************************)
(* What the events of PageHead_proofs add up to in HeadPublish: what a     *)
(* page waits for stays behind or at the truth its signer goes by, writes  *)
(* land in order, and what a page is told of them stays true.              *)
(***************************************************************************)
EXTENDS HeadPublish_proofs

USE DEF Pair, Roots

----------------------------------------------------------------------------
(* The events of a page, in the system.                                    *)

(* The seq of the later of the signer's record and the Register. *)
Top(n) == IF rec[n].seq > reg[n].seq THEN rec[n].seq ELSE reg[n].seq

(* One event at page p, which is `was` as it meets it. *)
Scene(p, was, heard) ==
  [was |-> was, H |-> held[NodeOf[p]], S |-> Trusted(NodeOf[p]), T |-> Top(NodeOf[p]),
   now |-> p \notin Sleepy, heard |-> heard, final |-> "Final" \in SignOutcomes]

SoundPage(p) == Sane(Scene(p, page[p], FALSE), page[p])

SoundInv ==
  /\ \A p \in Pages : /\ SoundPage(p)
                      /\ page[p].sign \in asked[NodeOf[p]] \cup {NoHead}
                      /\ p \notin Sleepy => late[p] = {}
  /\ \A n \in Nodes : \A h \in sigs[n] : h.seq = h.prev.seq + 1

Base == TypeInv /\ GroundInv /\ SignerInv /\ SoundInv

(* The circumstances e are those of page p. *)
At(p, e) == e = Scene(p, e.was, e.heard) /\ e.heard \in BOOLEAN

LEMMA SceneIs ==
  ASSUME NEW p, NEW e, At(p, e)
  PROVE  /\ e.H = held[NodeOf[p]] /\ e.S = Trusted(NodeOf[p]) /\ e.T = Top(NodeOf[p])
         /\ e.now = (p \notin Sleepy) /\ e.heard \in BOOLEAN
         /\ e.final = ("Final" \in SignOutcomes)
BY DEF Scene, At

LEMMA TopIs ==
  ASSUME TypeInv, NEW n \in Nodes
  PROVE  /\ Top(n) \in Nat /\ rec[n].seq <= Top(n) /\ reg[n].seq <= Top(n)
         /\ Top(n) \in {rec[n].seq, reg[n].seq}
<1>1. rec[n].seq \in Nat /\ reg[n].seq \in Nat
  BY TypeInvPages DEF Head
<1>2. QED
  BY <1>1 DEF Top

(* The state of a page is as sane as its circumstances allow, and they     *)
(* only grow.                                                              *)
LEMMA SaneGrows ==
  ASSUME NEW e, NEW f, NEW s, Sane(e, s), e.H \subseteq f.H, e.S \subseteq f.S,
         e.T \in Nat, f.T \in Nat, e.T <= f.T, f.now => e.now, e.final => f.final,
         World(f.H, f.S)
  PROVE  Sane(f, s)
<1>1. Good(s, f.H, f.S) /\ s \in PageState
  BY GroundGrows DEF Sane, Good, OK
<1>2. Tidy(f, s)
  BY DEF Sane, Tidy
<1>3. /\ s.ans.current.seq \in Nat /\ s.life.named.seq \in Nat /\ s.sign.prev.seq \in Nat
      /\ s.life.from.seq \in Nat
  BY <1>1 DEF PageState, Answer, Life, Head
<1>4. Lands(f, s)
  BY <1>3 DEF Sane, Lands
<1>5. f.now => Stands(f, s)
  BY DEF Sane, Stands
<1>6. QED
  BY <1>1, <1>2, <1>4, <1>5 DEF Sane

(* The page meets the event as w: itself, but for a head just read and the *)
(* commit whose head now leaves.                                           *)
Meets(w, s) ==
  /\ w.told = s.told /\ w.pub = s.pub /\ w.sign = s.sign /\ w.ans = s.ans
  /\ w.life = s.life /\ w.mine = s.mine
  /\ \/ w.commit = s.commit
     \/ s.commit.stage = "Racing" /\ w.commit = [s.commit EXCEPT !.stage = "Heading"]

(* The event e takes page p where it goes. *)
Moves(p, e) ==
  /\ At(p, e) /\ Meets(e.was, page[p])
  /\ Track(p, e, page'[p])
  /\ Step(p, page'[p]) /\ UNCHANGED <<rec, reg, held, sigs>>
  /\ \A q \in Pages : late'[q] \subseteq late[q]
  /\ e.heard => p \in Sleepy \/ e.was.lastHead = reg[NodeOf[p]]

LEMMA SceneSetting ==
  ASSUME Base, NEW p \in Pages, NEW e, At(p, e), Sane(e, e.was)
  PROVE  Setting(e)
<1> DEFINE n == NodeOf[p]
<1>1. n \in Nodes /\ World(held[n], Trusted(n)) /\ Top(n) \in Nat
  BY WorldOf, TopIs, NodesAssumption DEF Base
<1>2. \A m \in Trusted(n) : m.seq = 0 => m = NoHead
  <2>1. ASSUME NEW m \in sigs[n] PROVE m.seq # 0
    BY <1>1, TypeInvPages DEF Base, SoundInv, Head
  <2>2. QED
    BY <2>1 DEF Trusted
<1>3. QED
  BY <1>1, <1>2, SceneIs DEF Setting

(* A page that meets an event as itself. *)
LEMMA AsItself ==
  ASSUME Base, NEW p \in Pages
  PROVE  LET e == Scene(p, page[p], FALSE)
         IN  At(p, e) /\ Setting(e) /\ e.was = page[p] /\ ~e.heard /\ Track(p, e, page[p])
<1> DEFINE e == Scene(p, page[p], FALSE)
<1>1. At(p, e) /\ e.was = page[p] /\ ~e.heard /\ Sane(e, page[p])
  BY DEF Scene, At, Base, SoundInv, SoundPage
<1> HIDE DEF e
<1>2. Setting(e)
  BY <1>1, SceneSetting
<1>3. Track(p, e, page[p])
  BY <1>1, <1>2, StartTrack
<1>4. QED
  BY <1>1, <1>2, <1>3 DEF e

(* A page that has just read the head h, and waits for the reads given. *)
Reader(s, h, reads) == [s EXCEPT !.lastHead = h, !.reads = reads]

LEMMA AsReader ==
  ASSUME Base, NEW p \in Pages, NEW h \in held[NodeOf[p]],
         p \in Sleepy \/ h = reg[NodeOf[p]], NEW reads \in SUBSET Waits,
         NEW e, At(p, e), e.was = Reader(page[p], h, reads)
  PROVE  /\ Setting(e) /\ e.was.lastHead = h /\ e.was.mine = page[p].mine
         /\ Meets(e.was, page[p])
<1> DEFINE s == page[p]
           f == Scene(p, s, FALSE)
           was == e.was
           n == NodeOf[p]
<1>1. /\ Sane(f, s) /\ f.H = held[n] /\ f.S = Trusted(n) /\ f.T = Top(n)
      /\ f.now = (p \notin Sleepy) /\ f.final = ("Final" \in SignOutcomes)
  <2>1. At(p, f)
    BY DEF At, Scene
  <2>2. Sane(f, s)
    BY DEF Base, SoundInv, SoundPage
  <2> HIDE DEF f
  <2>3. QED
    BY <2>1, <2>2, SceneIs
<1>2. /\ e.H = held[n] /\ e.S = Trusted(n) /\ e.T = Top(n) /\ e.now = (p \notin Sleepy)
      /\ e.final = ("Final" \in SignOutcomes)
  BY SceneIs
<1>3. s \in PageState /\ h \in Head /\ World(f.H, f.S) /\ h.seq \in Nat /\ n \in Nodes
  <2>1. s \in PageState /\ n \in Nodes /\ World(held[n], Trusted(n))
    BY GoodPage DEF Base
  <2>2. h \in Head
    BY <2>1 DEF World
  <2> HIDE DEF f
  <2>3. QED
    BY <1>1, <2>1, <2>2 DEF Head
<1>4. /\ was \in PageState /\ was.lastHead = h
      /\ was.told = s.told /\ was.pub = s.pub /\ was.sign = s.sign /\ was.ans = s.ans
      /\ was.life = s.life /\ was.mine = s.mine /\ was.commit = s.commit /\ was.upd = s.upd
  BY <1>3 DEF PageState, Reader
<1> HIDE DEF f
<1>5. Good(was, e.H, e.S)
  BY <1>1, <1>2, <1>3, <1>4, SameGood DEF Sane
<1>6. Tidy(e, was) /\ Lands(e, was)
  BY <1>1, <1>2, <1>4 DEF Sane, Tidy, Lands, Owes, Committing, Queue, IsVerifying
<1>7. ASSUME e.now PROVE Stands(e, was)
  <2>1. h = reg[n] /\ s.lastHead \in held[n] /\ s.pub \in Pair /\ s.lastHead \in Head
    BY <1>1, <1>2, <1>3, <1>7 DEF Sane, Tidy, PageState
  <2>2. s.lastHead.seq <= h.seq /\ s.lastHead.seq \in Nat /\ s.pub.seq \in Nat
    BY <1>3, <2>1 DEF Base, GroundInv, Head
  <2>3. Stands(f, s)
    BY <1>1, <1>2, <1>7 DEF Sane
  <2>4. s.pub.seq <= s.lastHead.seq
    BY <2>3 DEF Stands
  <2>5. s.pub.seq <= h.seq
    BY <1>3, <2>2, <2>4
  <2>6. QED
    BY <1>1, <1>2, <1>4, <2>3, <2>5 DEF Stands
<1>8. Sane(e, was)
  BY <1>5, <1>6, <1>7 DEF Sane
<1>9. QED
  BY <1>4, <1>8, SceneSetting DEF Meets

(* Where a page's own step, other than a write taken or a cut, leads. *)
LEMMA Moved ==
  ASSUME NEW p \in Pages, NEW e, At(p, e), Meets(e.was, page[p]), NEW s, Track(p, e, s),
         PageStep(p, s), page \in [Pages -> PageState],
         e.heard => p \in Sleepy \/ e.was.lastHead = reg[NodeOf[p]]
  PROVE  Moves(p, e)
BY DEF Moves, PageStep, Step

LEMMA ItselfMoves ==
  ASSUME Base, NEW p \in Pages, NEW s, Track(p, Scene(p, page[p], FALSE), s), PageStep(p, s)
  PROVE  \E e : Moves(p, e)
<1> DEFINE e == Scene(p, page[p], FALSE)
<1>1. At(p, e) /\ e.was = page[p] /\ ~e.heard /\ Track(p, e, s)
  BY AsItself
<1> HIDE DEF e
<1>2. Meets(e.was, page[p]) /\ page \in [Pages -> PageState]
  BY <1>1, TypeInvPages DEF Meets, Base
<1>3. QED
  BY <1>1, <1>2, Moved

LEMMA StartMoves ==
  ASSUME Base, NEW p \in Pages, Start(p)
  PROVE  \E e : Moves(p, e)
<1> DEFINE s == page[p]
           t == [s EXCEPT !.up = "On"]
           e == Scene(p, s, FALSE)
<1>1. Track(p, e, s)
  BY AsItself
<1>2. s \in PageState
  BY GoodPage DEF Base
<1>3. /\ t \in PageState /\ t.commit = s.commit /\ t.pub = s.pub /\ t.life = s.life
      /\ t.sign = s.sign /\ t.upd = s.upd /\ t.ans = s.ans /\ t.mine = s.mine
      /\ t.lastHead = s.lastHead /\ t.told = s.told
  BY <1>2 DEF PageState
<1> HIDE DEF t, e
<1>4. Good(t, e.H, e.S)
  BY <1>1, <1>3, TrackType, SameGood
<1>5. Track(p, e, t)
  BY <1>1, <1>3, <1>4, SameTrack
<1>6. Track(p, e, Read(t, "Recover"))
  BY <1>5, ReadTrack DEF Waits
<1>7. QED
  BY <1>6, ItselfMoves DEF Start, t, e

LEMMA RaceReadyMoves ==
  ASSUME Base, NEW p \in Pages, RaceReady(p)
  PROVE  \E e : Moves(p, e)
<1> DEFINE s == page[p]
           c == [s.commit EXCEPT !.stage = "Heading"]
           t == [s EXCEPT !.commit = c]
           e == Scene(p, t, FALSE)
           f == Scene(p, s, FALSE)
<1>1. /\ s.commit.stage = "Racing" /\ PageStep(p, SendHead(p, s))
  BY DEF RaceReady
<1>2. /\ Sane(f, s) /\ s \in PageState /\ s.commit \in Commit
      /\ At(p, e) /\ At(p, f) /\ e.was = t /\ e.H = f.H /\ e.S = f.S /\ e.T = f.T /\ e.now = f.now
      /\ e.final = f.final /\ ~e.heard
  BY AsItself, GoodPage DEF Base, SoundInv, SoundPage, Scene, At, PageState
<1>3. c \in Commit /\ c.stage = "Heading" /\ c.seq = s.commit.seq /\ c.base = s.commit.base
      /\ c.through = s.commit.through /\ c.cut = s.commit.cut
  BY <1>2 DEF Commit
<1>4. SendHead(p, s) = Owe(p, t)
  BY DEF SendHead, c, t
<1> HIDE DEF c, e, f
<1>5. /\ t \in PageState /\ t.commit = c /\ t.pub = s.pub /\ t.sign = s.sign
      /\ t.life = s.life /\ t.upd = s.upd /\ t.ans = s.ans /\ t.mine = s.mine
      /\ t.lastHead = s.lastHead /\ t.told = s.told
  BY <1>2, <1>3 DEF PageState
<1> HIDE DEF t
<1>6. OK(s) /\ ~Owes(s) /\ Committing(s) /\ Grounded(s, f.H, f.S)
  BY <1>1, <1>2 DEF Sane, Good, OK, LaneOK, Committing
<1>7. OK(t)
  BY <1>3, <1>5, <1>6 DEF OK, LaneOK, Owes
<1>8. World(f.H, f.S)
  BY <1>2, SceneIs, GoodPage DEF Base
<1>9. Good(t, e.H, e.S)
  BY <1>2, <1>5, <1>6, <1>7, <1>8, SameGround DEF Good
<1>10. Tidy(e, t) /\ Lands(e, t) /\ (e.now => Stands(e, t))
  BY <1>2, <1>3, <1>5, <1>6 DEF Sane, Tidy, Lands, Stands, Owes, Committing, Queue, IsVerifying
<1>11. Sane(e, t)
  BY <1>9, <1>10 DEF Sane
<1>12. Track(p, e, t)
  BY <1>2, <1>11, SceneSetting, StartTrack
<1>13. Track(p, e, Owe(p, t))
  BY <1>3, <1>5, <1>12, OweTrack
<1>14. Meets(e.was, s)
  BY <1>1, <1>2, <1>5 DEF Meets, c
<1>15. QED
  BY <1>1, <1>2, <1>4, <1>13, <1>14, Moved, TypeInvPages DEF Base

LEMMA HeadPushedMoves ==
  ASSUME Base, NEW p \in Pages, HeadPushed(p)
  PROVE  \E e : Moves(p, e)
<1> DEFINE s == page[p]
           h == reg[NodeOf[p]]
           was == [s EXCEPT !.lastHead = h]
           e == Scene(p, was, TRUE)
<1>1. PageStep(p, OnPushed(p, s, h)) /\ s \in PageState /\ h \in held[NodeOf[p]]
  BY GoodPage DEF HeadPushed, Base
<1>2. CASE OnPushed(p, s, h) = ReadBack(p, was, h, Judge(h, s.mine))
  <2>1. At(p, e) /\ e.was = was
    BY DEF At, Scene
  <2>2. was = Reader(s, h, s.reads) /\ s.reads \in SUBSET Waits
    BY <1>1 DEF PageState, Reader
  <2> HIDE DEF e, was
  <2>3. Setting(e) /\ e.was.lastHead = h /\ e.was.mine = s.mine /\ Meets(e.was, s)
    BY <1>1, <2>1, <2>2, AsReader
  <2>4. Track(p, e, ReadBack(p, was, h, Judge(h, s.mine)))
    BY <2>1, <2>3, PushedTrack DEF was
  <2>5. QED
    BY <1>1, <1>2, <2>1, <2>3, <2>4, Moved, TypeInvPages DEF Base
<1>3. CASE OnPushed(p, s, h) # ReadBack(p, was, h, Judge(h, s.mine))
  <2>1. OnPushed(p, s, h) \in {s, OnHint(s)}
    BY <1>3, Zenon DEF OnPushed
  <2>2. Track(p, Scene(p, s, FALSE), s)
    BY AsItself
  <2>3. Track(p, Scene(p, s, FALSE), OnHint(s))
    BY <2>2, OnHintTrack
  <2>4. QED
    BY <1>1, <2>1, <2>2, <2>3, ItselfMoves
<1>4. QED
  BY <1>2, <1>3

LEMMA HearsMoves ==
  ASSUME Base, NEW p \in Pages, NEW h \in held[NodeOf[p]], p \in Sleepy \/ h = reg[NodeOf[p]],
         Step(p, OnHead(p, page[p], h)), UNCHANGED <<rec, reg, held, sigs>>,
         \A q \in Pages : late'[q] \subseteq late[q]
  PROVE  \E e : Moves(p, e)
<1> DEFINE s == page[p]
           reads == s.reads \ {"Warm"}
           was == [s EXCEPT !.lastHead = h, !.reads = @ \ {"Warm"}]
           e == Scene(p, was, TRUE)
<1>1. At(p, e) /\ e.was = was /\ e.heard
  BY DEF At, Scene
<1>2. s \in PageState /\ reads \in SUBSET Waits /\ was = Reader(s, h, reads)
  BY GoodPage DEF Base, PageState, Reader
<1> HIDE DEF e, was, reads
<1>3. Setting(e) /\ e.was.lastHead = h /\ e.was.mine = s.mine /\ Meets(e.was, s)
  <2>1. e.was = Reader(page[p], h, reads)
    BY <1>1, <1>2
  <2>2. QED
    BY <1>1, <1>2, <2>1, AsReader
<1>4. Track(p, e, OnHead(p, s, h))
  BY <1>1, <1>3, OnHeadTrack DEF was
<1>5. page'[p] = OnHead(p, s, h)
  BY <1>2, TypeInvPages DEF Base, Step
<1>6. QED
  BY <1>1, <1>3, <1>4, <1>5 DEF Moves

(* Every step of a page but Accept, CutNow, Close and TakeRead. *)
LEMMA PageMoves ==
  ASSUME Base, NEW p \in Pages,
         \/ Start(p) \/ RaceReady(p) \/ BlockRejected(p) \/ AskHead(p) \/ HearSigner(p)
         \/ SignLost(p) \/ HearUpdated(p) \/ Due(p) \/ Backstop(p) \/ Reconnected(p)
         \/ HeadHinted(p) \/ HearHead(p) \/ HearLate(p) \/ HeadPushed(p)
  PROVE  \E e : Moves(p, e)
<1> DEFINE e == Scene(p, page[p], FALSE)
<1>1. Setting(e) /\ e.was = page[p] /\ ~e.heard /\ Track(p, e, page[p])
  BY AsItself
<1> HIDE DEF e
<1>2. CASE Start(p) \/ RaceReady(p) \/ HeadPushed(p)
  BY <1>2, StartMoves, RaceReadyMoves, HeadPushedMoves
<1>3. CASE BlockRejected(p)
  <2>1. Track(p, e, Rejected(e.was))
    BY <1>1, <1>3, RejectedTrack DEF BlockRejected
  <2>2. QED
    BY <1>1, <1>3, <2>1, ItselfMoves DEF BlockRejected, e
<1>4. CASE HearSigner(p)
  <2>1. Track(p, e, OnSigner(p, e.was))
    BY <1>1, <1>4, OnSignerTrack DEF HearSigner
  <2>2. QED
    BY <1>1, <1>4, <2>1, ItselfMoves DEF HearSigner, e
<1>5. CASE AskHead(p) \/ Backstop(p) \/ Reconnected(p)
  <2>1. \A w \in Waits : Track(p, e, Read(page[p], w))
    BY <1>1, ReadTrack
  <2>2. QED
    BY <1>5, <2>1, ItselfMoves DEF AskHead, Backstop, Reconnected, Waits, e
<1>6. CASE SignLost(p)
  BY <1>1, <1>6, OnSignLostTrack, ItselfMoves DEF SignLost, e
<1>7. CASE HearUpdated(p)
  BY <1>1, <1>7, OnUpdatedTrack, ItselfMoves DEF HearUpdated, e
<1>8. CASE Due(p)
  BY <1>1, <1>8, OnDueTrack, ItselfMoves DEF Due, e
<1>9. CASE HeadHinted(p)
  BY <1>1, <1>9, OnHintTrack, ItselfMoves DEF HeadHinted, e
<1>10. CASE HearHead(p)
  <2>1. reg[NodeOf[p]] \in held[NodeOf[p]]
    BY GoodPage DEF Base
  <2>2. QED
    BY <1>10, <2>1, HearsMoves DEF HearHead, PageStep
<1>11. CASE HearLate(p)
  <2>1. PICK h \in late[p] : /\ Step(p, OnHead(p, page[p], h))
                             /\ late' = [late EXCEPT ![p] = @ \ {h}]
    BY <1>11 DEF HearLate
  <2>2. h \in held[NodeOf[p]] /\ p \in Sleepy /\ \A q \in Pages : late'[q] \subseteq late[q]
    BY <2>1, TypeInvPages DEF Base, GroundInv, SoundInv
  <2>3. QED
    BY <1>11, <2>1, <2>2, HearsMoves DEF HearLate
<1>12. QED
  BY <1>2, <1>3, <1>4, <1>5, <1>6, <1>7, <1>8, <1>9, <1>10, <1>11

----------------------------------------------------------------------------
(* Every page stays sound. *)

LEMMA TypeNext ==
  ASSUME TypeInv'
  PROVE  /\ page' \in [Pages -> PageState] /\ rec' \in [Nodes -> Head] /\ reg' \in [Nodes -> Head]
         /\ held' \in [Nodes -> SUBSET Head] /\ sigs' \in [Nodes -> SUBSET Head]
BY DEF TypeInv, TypeOK

(* What is held, signed and known as the truth only grows. *)
LEMMA Growing ==
  ASSUME Base, TypeInv', [Next]_vars, NEW n \in Nodes
  PROVE  /\ held[n] \subseteq held'[n] /\ Trusted(n) \subseteq Trusted(n)'
         /\ Top(n) <= Top(n)' /\ Top(n) \in Nat /\ Top(n)' \in Nat
         /\ \A h \in sigs'[n] : h.seq = h.prev.seq + 1
<1>1. held[n] \subseteq held'[n]
  <2>1. ASSUME NEW m \in Nodes, NEW h, Apply(m, h) PROVE held[n] \subseteq held'[n]
    BY <2>1, TypeInvPages DEF Apply, Base
  <2>2. CASE UNCHANGED held
    BY <2>2
  <2>3. CASE held' # held
    <3>1. \E m \in Nodes : UpdateApplies(m) \/ \E k \in Nodes : Sync(m, k)
      BY <2>3 DEF Next, vars, Start, Close, Accept, CutNow, RaceReady, BlockRejected, AskHead, HearSigner,
         SignLost, HearUpdated, Due, Backstop, Reconnected, HeadHinted, HearHead, HearLate,
         HeadPushed, TakeRead, PageStep, SignerAnswers, SignerServesStale
    <3>2. QED
      BY <2>1, <3>1 DEF UpdateApplies, Sync
  <2>4. QED
    BY <2>2, <2>3
<1>2. /\ rec[n].seq \in Nat /\ reg[n].seq \in Nat /\ rec'[n].seq \in Nat /\ reg'[n].seq \in Nat
      /\ sigs[n] \subseteq Head
  BY TypeInvPages, TypeNext DEF Head, Base
<1>3. \A h \in sigs[n] : h.seq = h.prev.seq + 1
  BY DEF Base, SoundInv
<1>4. CASE UNCHANGED <<rec, reg, sigs>>
  BY <1>1, <1>2, <1>3, <1>4 DEF Trusted, Top
<1>5. ASSUME NEW m \in Nodes, Merges(m)
      PROVE  sigs' = sigs /\ rec' = rec /\ reg[n].seq <= reg'[n].seq
  BY <1>2, <1>5, TypeInvPages DEF Merges, Base
<1>6. ASSUME NEW m \in Nodes, NEW h \in Head, Signs(m, h)
      PROVE  /\ sigs[n] \subseteq sigs'[n] /\ sigs'[n] \subseteq sigs[n] \cup {h} /\ reg' = reg
             /\ rec[n].seq <= rec'[n].seq /\ h.seq = h.prev.seq + 1
  <2>1. h.seq = h.prev.seq + 1 /\ rec[m].seq <= h.prev.seq /\ h.prev.seq \in Nat /\ rec[m].seq \in Nat
    BY <1>6, TypeInvPages, SignedOnTruth DEF Signs, Base, Head
  <2>2. rec' = [rec EXCEPT ![m] = h] /\ sigs' = [sigs EXCEPT ![m] = @ \cup {h}] /\ reg' = reg
    BY <1>6 DEF Signs
  <2>3. QED
    BY <1>2, <2>1, <2>2, TypeInvPages DEF Base
<1>7. CASE \E m \in Nodes : Merges(m)
  BY <1>1, <1>2, <1>3, <1>5, <1>7 DEF Trusted, Top
<1>8. CASE \E m \in Nodes, h \in Head : Signs(m, h)
  BY <1>1, <1>2, <1>3, <1>6, <1>8 DEF Trusted, Top
<1>9. QED
  BY <1>4, <1>7, <1>8, NextKinds DEF Base

(* A page that ends in a sane state is sound. *)
LEMMA NextSound ==
  ASSUME Base, TypeInv', GroundInv', [Next]_vars, NEW p \in Pages,
         NEW e, At(p, e), Sane(e, page'[p])
  PROVE  SoundPage(p)'
<1> DEFINE f == Scene(p, page[p], FALSE)'
           n == NodeOf[p]
<1>1. n \in Nodes
  BY NodesAssumption
<1>2. /\ f.H = held'[n] /\ f.S = Trusted(n)' /\ f.T = Top(n)' /\ f.now = (p \notin Sleepy)
      /\ f.final = ("Final" \in SignOutcomes)
  BY DEF Scene
<1>3. World(held'[n], Trusted(n)')
  BY <1>1, TypeNext, Constants DEF GroundInv, World, Trusted
<1> HIDE DEF f
<1>4. /\ e.H \subseteq f.H /\ e.S \subseteq f.S /\ e.T \in Nat /\ f.T \in Nat /\ e.T <= f.T
      /\ f.now => e.now
      /\ e.final => f.final
  BY <1>1, <1>2, Growing, SceneIs
<1>5. Sane(f, page'[p])
  BY <1>2, <1>3, <1>4, SaneGrows
<1>6. QED
  BY <1>5 DEF SoundPage, f

LEMMA RestSound ==
  ASSUME Base, TypeInv', GroundInv', [Next]_vars, NEW p \in Pages, page'[p] = page[p]
  PROVE  SoundPage(p)'
<1>1. At(p, Scene(p, page[p], FALSE)) /\ Sane(Scene(p, page[p], FALSE), page'[p])
  BY DEF At, Scene, Base, SoundInv, SoundPage
<1>2. QED
  BY <1>1, NextSound

LEMMA SoundNext ==
  ASSUME Base, TypeInv', GroundInv', [Next]_vars,
         \A p \in Pages : /\ page'[p] = page[p] \/ SoundPage(p)'
                          /\ page'[p].sign \in asked'[NodeOf[p]] \cup {NoHead}
                          /\ p \notin Sleepy => late'[p] = {}
  PROVE  SoundInv'
<1>1. \A p \in Pages : SoundPage(p)'
  BY RestSound
<1>2. \A n \in Nodes : \A h \in sigs'[n] : h.seq = h.prev.seq + 1
  BY Growing
<1>3. QED
  BY <1>1, <1>2 DEF SoundInv

(* One page moves. *)
LEMMA StepSound ==
  ASSUME Base, TypeInv', GroundInv', [Next]_vars, NEW p \in Pages,
         Step(p, page'[p]), NEW e, At(p, e), Sane(e, page'[p]),
         \A q \in Pages : late'[q] \subseteq late[q]
  PROVE  SoundInv'
<1>1. SoundPage(p)'
  BY NextSound
<1>2. ASSUME NEW q \in Pages, q # p
      PROVE  page'[q] = page[q] /\ asked[NodeOf[q]] \subseteq asked'[NodeOf[q]]
  BY <1>2, NodesAssumption, TypeInvPages DEF Step, Base
<1>3. page'[p].sign \in asked'[NodeOf[p]] \cup {NoHead}
  BY NodesAssumption, TypeInvPages DEF Step, Base
<1>4. \A q \in Pages : q \notin Sleepy => late'[q] = {}
  BY DEF Base, SoundInv
<1>5. \A q \in Pages : page'[q].sign \in asked'[NodeOf[q]] \cup {NoHead}
  <2>1. \A q \in Pages : page[q].sign \in asked[NodeOf[q]] \cup {NoHead}
    BY DEF Base, SoundInv
  <2>2. QED
    BY <1>2, <1>3, <2>1
<1>6. QED
  BY <1>1, <1>2, <1>4, <1>5, SoundNext

LEMMA AcceptSane ==
  ASSUME Base, NEW p \in Pages, Accept(p)
  PROVE  Sane(Scene(p, page[p], FALSE), page'[p])
<1> DEFINE s == page[p]
           e == Scene(p, s, FALSE)
<1>1. PICK i \in 1 .. Accepts[p] : s.told[i] = "None" /\ PageStep(p, Tell(s, {i}, "Queued"))
  BY DEF Accept
<1> DEFINE t == Tell(s, {i}, "Queued")
<1>2. /\ s \in PageState /\ Sane(e, s) /\ World(e.H, e.S) /\ page \in [Pages -> PageState]
  <2>1. At(p, e) /\ Sane(e, s)
    BY DEF At, Scene, Base, SoundInv, SoundPage
  <2> HIDE DEF e
  <2>2. QED
    BY <2>1, GoodPage, SceneIs, TypeInvPages DEF Base
<1>3. page'[p] = t
  BY <1>1, <1>2 DEF PageStep, Step
<1>4. /\ t \in PageState /\ t.commit = s.commit /\ t.pub = s.pub /\ t.life = s.life
      /\ t.sign = s.sign /\ t.upd = s.upd /\ t.ans = s.ans /\ t.mine = s.mine
      /\ t.lastHead = s.lastHead /\ t.told = [k \in Arrivals |-> IF k \in {i} THEN "Queued" ELSE s.told[k]]
  BY <1>2, TellType DEF Fates, Tell, PageState
<1> HIDE DEF t, e
<1>5. Good(t, e.H, e.S)
  BY <1>2, <1>4, SameGood DEF Sane
<1>6. Queue(s) \subseteq Queue(t)
  BY <1>4 DEF Queue
<1>7. Sane(e, t)
  BY <1>2, <1>4, <1>5, <1>6 DEF Sane, Tidy, Lands, Stands, Owes, Committing, IsVerifying
<1>8. QED
  BY <1>3, <1>7 DEF e

(* What a cut leaves: no commit, or one whose writes wait for it. *)
CutLeft(p, s, u, fresh, failed) ==
  LET root == s.pub.root \cup ({p} \X fresh)
  IN  \/ /\ root = s.pub.root /\ u.commit = s.commit
         /\ \A i \in Arrivals : u.told[i] = IF i \in fresh THEN "Published"
                                            ELSE IF i \in failed THEN "Conflict" ELSE s.told[i]
      \/ /\ fresh # {} /\ root # s.pub.root /\ u.commit.stage = "Racing" /\ u.commit.root = root
         /\ u.commit.base = s.pub.root /\ u.commit.seq = s.pub.seq + 1
         /\ u.commit.cut = fresh /\ u.commit.through = Max(fresh)
         /\ \A i \in Arrivals : u.told[i] = IF i \in failed THEN "Conflict" ELSE s.told[i]

LEMMA CutIs ==
  ASSUME NEW p \in Pages, NEW s \in PageState, ~Committing(s), NEW t, t \subseteq Queue(s),
         NEW last, NEW failed, failed \subseteq t
  PROVE  CutLeft(p, s, Cut(p, s, t, last, failed), t \ failed, failed)
<1> DEFINE u      == Cut(p, s, t, last, failed)
           fresh  == t \ failed
           root   == s.pub.root \cup ({p} \X fresh)
           told   == Tell(s, failed, "Conflict")
           judged == [told EXCEPT !.until = last]
           c == [stage |-> "Racing", seq |-> s.pub.seq + 1, root |-> root,
                 base |-> s.pub.root, cut |-> fresh, through |-> Max(fresh)]
<1>1. fresh \subseteq t /\ failed \cap fresh = {}
  OBVIOUS
<1>2. /\ told.commit = s.commit /\ told \in PageState
      /\ told.told = [i \in Arrivals |-> IF i \in failed THEN "Conflict" ELSE s.told[i]]
  BY TellType DEF Tell, PageState, Fates
<1> HIDE DEF told
<1>3. /\ judged.commit = s.commit /\ judged.told = told.told
      /\ DOMAIN judged = DOMAIN told
  BY <1>2 DEF PageState
<1>4. CASE root = s.pub.root
  <2>1. u = Tell(judged, fresh, "Published")
    BY <1>4, Zenon DEF Cut, judged, told
  <2>2. /\ u.commit = judged.commit
        /\ u.told = [i \in Arrivals |-> IF i \in fresh THEN "Published" ELSE judged.told[i]]
    BY <2>1, <1>2 DEF Tell, PageState
  <2> HIDE DEF judged, fresh
  <2>3. QED
    BY <1>1, <1>2, <1>3, <1>4, <2>2 DEF fresh, CutLeft
<1>5. CASE root # s.pub.root
  <2>1. fresh # {}
    BY <1>5
  <2>2. u = [judged EXCEPT !.commit = c]
    BY <1>5, Zenon DEF Cut, judged, told
  <2>3. u.commit = c /\ u.told = judged.told
    BY <2>2, <1>2 DEF PageState
  <2> HIDE DEF judged
  <2>4. QED
    BY <1>2, <1>3, <1>5, <2>1, <2>3 DEF CutLeft
<1>6. QED
  BY <1>4, <1>5

LEMMA CutNowIs ==
  ASSUME Base, NEW p \in Pages, CutNow(p)
  PROVE  \E t \in Arrivals, last \in Nat :
           LET taken == {i \in Queue(page[p]) : i <= t}
           IN  \E failed \in SUBSET MayConflict(p, taken) :
                 /\ page'[p] = Cut(p, page[p], taken, last, failed)
                 /\ PageStep(p, page'[p]) /\ ~Committing(page[p])
<1> DEFINE s == page[p]
<1>1. PICK last \in Cuttable(s), t \in Cuttable(s) :
        \E failed \in SUBSET MayConflict(p, {i \in Cuttable(s) : i <= t}) :
          PageStep(p, Cut(p, s, {i \in Cuttable(s) : i <= t}, IF CutOpen(s) THEN s.until ELSE last, failed))
  BY DEF CutNow
<1> DEFINE taken == {i \in Queue(s) : i <= t}
<1>3. s \in PageState /\ page \in [Pages -> PageState]
  BY GoodPage, TypeInvPages DEF Base
<1>4. Queue(s) \subseteq Arrivals /\ Arrivals \subseteq Nat /\ s.until \in Nat
  BY <1>3, WritesAssumption DEF Queue, Arrivals, PageState
<1>5. Cuttable(s) \subseteq Queue(s) /\ (\A i \in Queue(s) : i <= t => i \in Cuttable(s))
  <2>1. CASE CutOpen(s)
    <3>1. Cuttable(s) = {i \in Queue(s) : i <= s.until}
      BY <2>1 DEF Cuttable
    <3>2. t \in Queue(s) /\ t <= s.until
      BY <1>1, <3>1
    <3>3. ASSUME NEW i \in Queue(s), i <= t PROVE i <= s.until
      <4>1. i \in Nat /\ t \in Nat /\ s.until \in Nat
        BY <1>4, <3>2
      <4>2. i <= t /\ t <= s.until
        BY <3>2, <3>3
      <4>3. QED
        BY <4>1, <4>2
    <3>4. QED
      BY <3>1, <3>3
  <2>2. CASE ~CutOpen(s)
    BY <2>2 DEF Cuttable
  <2>3. QED
    BY <2>1, <2>2
<1>6. {i \in Cuttable(s) : i <= t} = {i \in Queue(s) : i <= t}
  BY <1>5
<1>7. PICK w \in Nat : w = IF CutOpen(s) THEN s.until ELSE last
  BY <1>4, <1>5
<1>8. PICK failed \in SUBSET MayConflict(p, taken) : PageStep(p, Cut(p, s, taken, w, failed))
  BY <1>1, <1>6, <1>7
<1>9. page'[p] = Cut(p, s, taken, w, failed)
  BY <1>3, <1>8 DEF PageStep, Step
<1>10. t \in Arrivals /\ w \in Nat
  BY <1>4, <1>5
<1>11. QED
  BY <1>8, <1>9, <1>10 DEF CutNow

LEMMA CutNowSane ==
  ASSUME Base, NEW p \in Pages, CutNow(p)
  PROVE  Sane(Scene(p, page[p], FALSE), page'[p])
<1> DEFINE s == page[p]
           e == Scene(p, s, FALSE)
<1>1. PICK k \in Arrivals, last \in Nat, failed \in SUBSET Queue(s) :
        /\ failed \subseteq {i \in Queue(s) : i <= k}
        /\ page'[p] = Cut(p, s, {i \in Queue(s) : i <= k}, last, failed) /\ ~Committing(s)
  BY CutNowIs DEF MayConflict
<1> DEFINE t == {i \in Queue(s) : i <= k}
           u == Cut(p, s, t, last, failed)
           fresh == t \ failed
<1>2. /\ s \in PageState /\ Sane(e, s) /\ World(e.H, e.S)
  <2>1. At(p, e) /\ Sane(e, s)
    BY DEF At, Scene, Base, SoundInv, SoundPage
  <2> HIDE DEF e
  <2>2. QED
    BY <2>1, GoodPage, SceneIs DEF Base
<1> HIDE DEF e
<1>3. t \in SUBSET Arrivals /\ t \subseteq Queue(s) /\ failed \subseteq t /\ fresh = t \ failed /\ Arrivals \subseteq Nat
  BY <1>1, WritesAssumption DEF Queue, Arrivals
<1>4. Good(u, e.H, e.S)
  BY <1>1, <1>2, <1>3, CutGood DEF Sane
<1>5. /\ u.pub = s.pub /\ u.sign = s.sign /\ u.life = s.life /\ u.upd = s.upd
      /\ u.ans = s.ans /\ u.mine = s.mine /\ u.lastHead = s.lastHead
  BY <1>2, CutKeeps
<1>6. CutLeft(p, s, u, fresh, failed)
  BY <1>1, <1>2, <1>3, CutIs
<1> HIDE DEF t, u, fresh
<1>7. ~Owes(s)
  BY <1>1, <1>2 DEF Sane, Good, OK, LaneOK, Committing
<1>8. Committing(u) => u.commit.through > 0 /\ u.commit.cut \subseteq Queue(u)
  <2>1. CASE u.commit = s.commit
    BY <1>1, <2>1 DEF Committing
  <2>2. CASE u.commit # s.commit
    <3>1. u.commit.through \in Arrivals
      BY <1>3, <1>6, <2>2, LastArrival DEF CutLeft
    <3>2. \A i \in fresh : i \in Arrivals /\ u.told[i] = "Queued"
      BY <1>3, <1>6, <2>2 DEF Queue, CutLeft
    <3>3. QED
      BY <1>6, <2>2, <3>1, <3>2 DEF Queue, Arrivals, CutLeft
  <2>3. QED
    BY <2>1, <2>2
<1>9. Sane(e, u)
  BY <1>2, <1>4, <1>5, <1>7, <1>8 DEF Sane, Tidy, Lands, Stands, Owes, IsVerifying
<1>10. QED
  BY <1>1, <1>9 DEF e, u, t

LEMMA CloseSane ==
  ASSUME Base, NEW p \in Pages, Close(p)
  PROVE  Sane(Scene(p, page[p], FALSE), page'[p])
<1> DEFINE e == Scene(p, page[p], FALSE)
           t == [InitPage EXCEPT !.up = "Gone", !.told = page[p].told]
<1>1. At(p, e) /\ page'[p] = t /\ page[p] \in PageState
  BY GoodPage, TypeInvPages DEF At, Scene, Close, Base
<1> HIDE DEF e
<1>2. World(e.H, e.S) /\ e.T \in Nat /\ Good(InitPage, e.H, e.S) /\ InitPage \in PageState
  BY <1>1, GoodPage, SceneIs, TopIs, ConstantsGround, NodesAssumption DEF Base, Good, OK
<1>3. /\ t \in PageState /\ t.pub = Genesis /\ t.life = IdleLife /\ t.sign = NoHead
      /\ t.upd = InitPage.upd /\ t.ans = NoAnswer /\ t.mine = {} /\ t.commit = NoCommit
      /\ t.lastHead = NoHead /\ t.mine = InitPage.mine /\ t.commit = InitPage.commit
      /\ t.pub = InitPage.pub /\ t.life = InitPage.life /\ t.sign = InitPage.sign /\ t.ans = InitPage.ans
  BY <1>1, <1>2 DEF PageState, InitPage
<1> HIDE DEF t
<1>4. Good(t, e.H, e.S)
  BY <1>2, <1>3, SameGood
<1>5. /\ NoHead \in e.H /\ PairOf(NoHead) = Genesis /\ Genesis.seq = 0 /\ NoHead.seq = 0
      /\ NoAnswer.kind = "None" /\ NoAnswer.current = Genesis /\ IdleLife.st = "Idle"
      /\ NoCommit.stage = "Idle"
  BY <1>2 DEF World, PairOf, NoHead, Genesis, NoAnswer, IdleLife, NoCommit
<1>6. Tidy(e, t) /\ Lands(e, t)
  BY <1>2, <1>3, <1>5 DEF Tidy, Lands, Owes, Committing, IsVerifying
<1>7. Winning(NoHead, t.mine) = {}
  BY <1>3 DEF Winning
<1>8. Stands(e, t)
  BY <1>3, <1>5, <1>7 DEF Stands
<1>9. QED
  BY <1>1, <1>4, <1>6, <1>8 DEF Sane, e

(* The signer's answer is the truth it goes by, or behind it. *)
LEMMA AnswerIs ==
  ASSUME TypeInv, NEW n \in Nodes, NEW h \in Head, NEW outcome \in {"Signed", "Retry", "Final"}
  PROVE  LET a == Served(n, h, outcome)
         IN  /\ a.current.seq <= Top(n)
             /\ a.kind = "NotNext" => a.current.seq >= 1
             /\ a.kind = "Signed" => a.head = h /\ h.seq = h.prev.seq + 1 /\ h.prev.seq = Top(n)
             /\ a.kind = "AlreadySigned" => a.head = rec[n] /\ rec[n] # NoHead /\ rec[n].prev = h.prev
             /\ a.kind # "None"
             /\ a.kind = "Final" => outcome = "Final" \/ h.seq # h.prev.seq + 1
<1> DEFINE a == Served(n, h, outcome)
           truth == Truth(rec[n], reg[n])
<1>1. rec[n] \in Head /\ reg[n] \in Head /\ Top(n) \in Nat
  BY TypeInvPages, TopIs
<1>2. truth.seq = Top(n)
  <2>1. NoHead.seq = 0
    BY DEF NoHead
  <2>2. QED
    BY <1>1, <2>1 DEF Truth, Top, PairOf, Head
<1>3. /\ Signed(h).kind = "Signed" /\ Signed(h).head = h /\ Signed(h).current = Genesis
      /\ AlreadySigned(rec[n]).kind = "AlreadySigned" /\ AlreadySigned(rec[n]).head = rec[n]
      /\ AlreadySigned(rec[n]).current = Genesis
      /\ NotNext(truth).kind = "NotNext" /\ NotNext(truth).current = truth
  BY DEF Signed, AlreadySigned, NotNext, NoAnswer
<1>4. \A w \in {"Final", "Retry", "HeadUnknown"} : Refused(w).kind = w /\ Refused(w).current = Genesis
  BY DEF Refused, NoAnswer
<1>5. Genesis.seq = 0
  BY DEF Genesis
<1>6. \/ a = Refused("Final") /\ (outcome = "Final" \/ h.seq # h.prev.seq + 1)
      \/ a \in {Refused("Retry"), Refused("HeadUnknown")}
      \/ a = AlreadySigned(rec[n]) /\ rec[n] # NoHead /\ rec[n].prev = h.prev
      \/ a = NotNext(truth) /\ truth.seq > 0
      \/ a = Signed(h) /\ h.seq = h.prev.seq + 1
         /\ (truth.seq > 0 => truth = h.prev) /\ (truth.seq = 0 => h.prev.seq = 0)
  <2> DEFINE d == Decide(rec[n], reg[n], h)
  <2>1. \/ a = Refused("Final") /\ outcome = "Final"
        \/ a \in {Refused("Retry"), d}
    BY DEF Served
  <2>2. \/ d = Refused("Final") /\ h.seq # h.prev.seq + 1
        \/ d = Refused("HeadUnknown")
        \/ d = AlreadySigned(rec[n]) /\ rec[n] # NoHead /\ rec[n].prev = h.prev
        \/ d = NotNext(truth) /\ truth.seq > 0
        \/ d = Signed(h) /\ h.seq = h.prev.seq + 1
           /\ (truth.seq > 0 => truth = h.prev) /\ (truth.seq = 0 => h.prev.seq = 0)
    BY DEF Decide
  <2> HIDE DEF a, d
  <2>3. QED
    BY <2>1, <2>2
<1> HIDE DEF a, truth
<1>7. CASE \/ a = Refused("Final") /\ (outcome = "Final" \/ h.seq # h.prev.seq + 1)
           \/ a \in {Refused("Retry"), Refused("HeadUnknown")}
  BY <1>1, <1>4, <1>5, <1>7 DEF a
<1>8. CASE a = AlreadySigned(rec[n]) /\ rec[n] # NoHead /\ rec[n].prev = h.prev
  BY <1>1, <1>3, <1>5, <1>8 DEF a
<1>9. CASE a = NotNext(truth) /\ truth.seq > 0
  BY <1>1, <1>2, <1>3, <1>9 DEF a
<1>10. CASE /\ a = Signed(h) /\ h.seq = h.prev.seq + 1
            /\ (truth.seq > 0 => truth = h.prev) /\ (truth.seq = 0 => h.prev.seq = 0)
  BY <1>1, <1>2, <1>3, <1>5, <1>10 DEF a
<1>11. QED
  BY <1>6, <1>7, <1>8, <1>9, <1>10

LEMMA SignerAnswersSound ==
  ASSUME Base, TypeInv', GroundInv', [Next]_vars, NEW p \in Pages, SignerAnswers(p)
  PROVE  SoundInv'
<1> DEFINE n == NodeOf[p]
           s == page[p]
           h == s.sign
           e == Scene(p, s, FALSE)
           f == Scene(p, page[p], FALSE)'
<1>1. PICK outcome \in SignOutcomes :
        /\ Serve(n, Served(n, h, outcome)) /\ page' = [page EXCEPT ![p].ans = Served(n, h, outcome)]
  BY DEF SignerAnswers
<1> DEFINE a == Served(n, h, outcome)
           t == [s EXCEPT !.ans = a]
<1>2. /\ n \in Nodes /\ s \in PageState /\ h \in Head /\ outcome \in {"Signed", "Retry", "Final"}
      /\ page \in [Pages -> PageState] /\ a \in Answer
  BY GoodPage, TypeInvPages, ServedType, NodesAssumption DEF Base, PageState
<1>3. /\ a.current.seq <= Top(n)
      /\ a.kind = "NotNext" => a.current.seq >= 1
      /\ a.kind = "Signed" => a.head = h /\ h.seq = h.prev.seq + 1
      /\ a.kind = "AlreadySigned" => a.head = rec[n] /\ rec[n] # NoHead /\ rec[n].prev = h.prev
      /\ a.kind # "None"
      /\ a.kind = "Final" => outcome = "Final" \/ h.seq # h.prev.seq + 1
  BY <1>2, AnswerIs DEF Base
<1>4. \A q \in Pages : page'[q] = IF q = p THEN t ELSE page[q]
  BY <1>1, <1>2
<1>5. h # NoHead /\ UNCHANGED <<reg, asked, sent, late, held>>
  BY DEF SignerAnswers
<1>6. Sane(e, s) /\ At(p, e) /\ e.now = (p \notin Sleepy) /\ e.T = Top(n) /\ e.H = held[n]
  BY DEF At, Scene, Base, SoundInv, SoundPage
<1> HIDE DEF a
<1>7. /\ t.pub = s.pub /\ t.life = s.life /\ t.sign = h /\ t.upd = s.upd /\ t.ans = a
      /\ t.mine = s.mine /\ t.commit = s.commit /\ t.lastHead = s.lastHead /\ t.told = s.told
  BY <1>2 DEF PageState
<1>8. /\ f.H = held'[n] /\ f.S = Trusted(n)' /\ f.T = Top(n)' /\ f.now = (p \notin Sleepy)
      /\ World(f.H, f.S) /\ f.final = ("Final" \in SignOutcomes)
  <2>1. /\ f.H = held'[n] /\ f.S = Trusted(n)' /\ f.T = Top(n)' /\ f.now = (p \notin Sleepy)
        /\ f.final = ("Final" \in SignOutcomes)
    BY DEF Scene
  <2> HIDE DEF f
  <2>2. QED
    BY <1>2, <2>1, TypeNext, Constants DEF GroundInv, World, Trusted
<1>9. /\ Top(n) <= Top(n)' /\ Top(n) \in Nat /\ Top(n)' \in Nat /\ held'[n] = held[n]
  BY <1>2, <1>5, Growing
<1> HIDE DEF e, f, t
<1>10. Good(t, f.H, f.S)
  <2>1. t = page'[p]
    BY <1>4
  <2>2. OK(t) /\ Grounded(t, f.H, f.S)
    BY <1>8, <2>1 DEF GroundInv, TypeInv, TypeOK, LaneInv, OK
  <2>3. QED
    BY <2>2 DEF Good
<1>11. Sane(e, s) /\ Tidy(e, s) /\ Lands(e, s)
  BY <1>6 DEF Sane
<1>12. Owes(s)
  BY <1>5, <1>11 DEF Tidy
<1>13. Tidy(f, t)
  BY <1>6, <1>7, <1>8, <1>9, <1>11, <1>12 DEF Tidy, Owes, Committing, Queue
<1>14. /\ s.life.named.seq \in Nat /\ h.prev.seq \in Nat /\ s.life.from.seq \in Nat /\ a.current.seq \in Nat
       /\ a.head.seq \in Nat /\ s.pub.seq \in Nat
  BY <1>2 DEF PageState, Answer, Life, Head
<1>15. Lands(f, t)
  <2>1. h.seq = h.prev.seq + 1
    BY <1>5, <1>11 DEF Lands
  <2>2. /\ t.ans.kind = "None" => t.ans = NoAnswer
        /\ t.ans.kind = "Final" => f.final
        /\ t.sign.seq = t.sign.prev.seq + 1
    BY <1>1, <1>3, <1>7, <1>8, <2>1
  <2>3. QED
    BY <1>3, <1>6, <1>7, <1>8, <1>9, <1>11, <1>14, <2>2 DEF Lands, IsVerifying
<1>16. ASSUME f.now PROVE Stands(f, t)
  <2>1. Stands(e, s)
    BY <1>6, <1>8, <1>11, <1>16 DEF Sane
  <2>2. s.pub.seq <= h.prev.seq
    BY <1>5, <2>1 DEF Stands
  <2>3. a.kind \in {"Signed", "AlreadySigned"} => s.pub.seq < a.head.seq
    <3>1. rec[n] # NoHead => rec[n].seq = rec[n].prev.seq + 1
      BY <1>2 DEF Base, GroundInv, Trusted, SoundInv
    <3>2. QED
      BY <1>3, <1>14, <2>2, <3>1
  <2>4. QED
    BY <1>6, <1>7, <1>8, <1>9, <2>1, <2>3 DEF Stands
<1>17. SoundPage(p)'
  <2>1. Sane(f, t)
    BY <1>10, <1>13, <1>15, <1>16 DEF Sane
  <2>2. QED
    BY <1>4, <2>1 DEF SoundPage, f
<1>18. \A q \in Pages : /\ page'[q].sign \in asked'[NodeOf[q]] \cup {NoHead}
                        /\ q \notin Sleepy => late'[q] = {}
  BY <1>4, <1>5, <1>7 DEF Base, SoundInv
<1>19. QED
  BY <1>4, <1>17, <1>18, SoundNext

LEMMA SoundInvStep == Base /\ TypeInv' /\ GroundInv' /\ [Next]_vars => SoundInv'
<1> SUFFICES ASSUME Base, TypeInv', GroundInv', [Next]_vars
             PROVE  SoundInv'
  OBVIOUS
<1>1. ASSUME NEW p \in Pages, NEW e, Moves(p, e)
      PROVE  SoundInv'
  BY <1>1, StepSound DEF Moves, Track
<1>2. ASSUME NEW p \in Pages, Accept(p) \/ CutNow(p)
      PROVE  SoundInv'
  <2> DEFINE e == Scene(p, page[p], FALSE)
  <2>1. At(p, e) /\ Sane(e, page'[p])
    BY <1>2, AcceptSane, CutNowSane DEF At, Scene
  <2> HIDE DEF e
  <2>2. Step(p, page'[p]) /\ UNCHANGED late
    BY <1>2, GoodPage, TypeInvPages DEF Base, Accept, CutNow, PageStep, Step
  <2>3. QED
    BY <2>1, <2>2, StepSound
<1>3. ASSUME NEW p \in Pages, Close(p)
      PROVE  SoundInv'
  <2> DEFINE e == Scene(p, page[p], FALSE)
  <2>1. At(p, e) /\ Sane(e, page'[p])
    BY <1>3, CloseSane DEF At, Scene
  <2> HIDE DEF e
  <2>2. SoundPage(p)'
    BY <2>1, NextSound
  <2>3. /\ page' = [page EXCEPT ![p] = [InitPage EXCEPT !.up = "Gone", !.told = page[p].told]]
        /\ late' = [late EXCEPT ![p] = {}] /\ asked' = asked
    BY <1>3 DEF Close
  <2>4. ASSUME NEW q \in Pages
        PROVE  /\ page'[q] = page[q] \/ SoundPage(q)'
               /\ page'[q].sign \in asked'[NodeOf[q]] \cup {NoHead}
               /\ q \notin Sleepy => late'[q] = {}
    <3>1. page[q].sign \in asked[NodeOf[q]] \cup {NoHead} /\ (q \notin Sleepy => late[q] = {})
      BY DEF Base, SoundInv
    <3>2. CASE q = p
      BY <2>2, <2>3, <3>1, <3>2, TypeInvPages DEF Base, InitPage
    <3>3. CASE q # p
      BY <2>3, <3>1, <3>3, TypeInvPages DEF Base
    <3>4. QED
      BY <3>2, <3>3
  <2>5. QED
    BY <2>4, SoundNext
<1>4. ASSUME UNCHANGED <<page, asked>>,
             \A p \in Pages : late'[p] \subseteq IF p \in Sleepy THEN Head ELSE late[p]
      PROVE  SoundInv'
  BY <1>4, SoundNext DEF Base, SoundInv
<1>5. ASSUME NEW p \in Pages, TakeRead(p)
      PROVE  SoundInv'
  <2>1. /\ UNCHANGED <<page, asked>> /\ p \in Sleepy /\ late' = [late EXCEPT ![p] = @ \cup {reg[NodeOf[p]]}]
    BY <1>5 DEF TakeRead
  <2>2. late \in [Pages -> SUBSET Head] /\ reg[NodeOf[p]] \in Head
    BY TypeInvPages, NodesAssumption DEF Base
  <2>3. \A q \in Pages : late'[q] \subseteq IF q \in Sleepy THEN Head ELSE late[q]
    BY <2>1, <2>2
  <2>4. QED
    BY <1>4, <2>1, <2>3
<1>6. CASE UNCHANGED <<page, asked, late>>
  <2>1. \A q \in Pages : late'[q] \subseteq IF q \in Sleepy THEN Head ELSE late[q]
    BY <1>6, TypeInvPages DEF Base
  <2>2. QED
    BY <1>4, <1>6, <2>1
<1>7. ASSUME NEW n \in Nodes, SignerServesStale(n) \/ UpdateApplies(n) \/ \E m \in Nodes : Sync(n, m)
      PROVE  SoundInv'
  BY <1>6, <1>7 DEF SignerServesStale, UpdateApplies, Sync, Apply
<1>8. QED
  BY <1>1, <1>2, <1>3, <1>5, <1>6, <1>7, PageMoves, SignerAnswersSound DEF Next, vars

LEMMA SoundInvInit == Init => SoundInv
<1> SUFFICES ASSUME Init PROVE SoundInv
  OBVIOUS
<1>1. TypeInv /\ GroundInv
  BY TypeInvInit, GroundInvInit
<1>2. ASSUME NEW p \in Pages
      PROVE  SoundPage(p)
  <2> DEFINE e == Scene(p, page[p], FALSE)
  <2>1. At(p, e)
    BY DEF At, Scene
  <2> HIDE DEF e
  <2>2. /\ page[p] = InitPage /\ Good(InitPage, e.H, e.S) /\ World(e.H, e.S) /\ e.T \in Nat
    <3>1. page[p] = InitPage /\ NodeOf[p] \in Nodes
      BY NodesAssumption DEF Init
    <3>2. /\ e.H = held[NodeOf[p]] /\ e.S = Trusted(NodeOf[p]) /\ e.T = Top(NodeOf[p])
      BY <2>1, SceneIs
    <3>3. Good(page[p], e.H, e.S) /\ World(e.H, e.S)
      BY <1>1, <3>2, GoodPage
    <3>4. e.T \in Nat
      BY <1>1, <3>1, <3>2, TopIs
    <3>5. QED
      BY <3>1, <3>3, <3>4
  <2>3. /\ InitPage.pub = Genesis /\ InitPage.life = IdleLife /\ InitPage.sign = NoHead
        /\ InitPage.ans = NoAnswer /\ InitPage.mine = {} /\ InitPage.commit = NoCommit
        /\ InitPage.lastHead = NoHead
    BY DEF InitPage
  <2>4. /\ NoHead \in e.H /\ PairOf(NoHead) = Genesis /\ Genesis.seq = 0 /\ NoHead.seq = 0
        /\ NoAnswer.kind = "None" /\ NoAnswer.current = Genesis /\ IdleLife.st = "Idle"
        /\ NoCommit.stage = "Idle"
    BY <2>2 DEF World, PairOf, NoHead, Genesis, NoAnswer, IdleLife, NoCommit
  <2> HIDE DEF InitPage
  <2>5. Tidy(e, InitPage) /\ Lands(e, InitPage)
    BY <2>2, <2>3, <2>4 DEF Tidy, Lands, Owes, Committing, IsVerifying
  <2>6. Winning(NoHead, {}) = {}
    BY DEF Winning
  <2>7. Stands(e, InitPage)
    BY <2>3, <2>4, <2>6 DEF Stands
  <2>8. QED
    BY <2>2, <2>5, <2>7 DEF Sane, SoundPage, e
<1>3. \A p \in Pages : page[p].sign = NoHead /\ late[p] = {}
  BY DEF Init, InitPage
<1>4. QED
  BY <1>2, <1>3, NodesAssumption DEF Init, SoundInv

LEMMA BaseInit == Init => Base
  BY TypeInvInit, GroundInvInit, SignerInvInit, SoundInvInit DEF Base

LEMMA BaseStep == Base /\ [Next]_vars => Base'
  BY TypeInvStep, GroundInvStep, SignerInvStep, SoundInvStep DEF Base

(* A landing asks the signer only for a head whose successor it has signed *)
(* or its Register has passed, so that it is handed the record the signer  *)
(* has and no head is signed that no commit built (E5, land_missing): for  *)
(* any pages, nodes and bounds, with answers of any age.                   *)
THEOREM LandingCorrect == Spec => []LandingNeverMints
<1>1. Base => LandingNeverMints
  <2> SUFFICES ASSUME Base, NEW p \in Pages, page[p].life.st = "Landing", page[p].sign # NoHead,
                      Decide(rec[NodeOf[p]], reg[NodeOf[p]], page[p].sign).kind = "Signed"
               PROVE  FALSE
    BY DEF LandingNeverMints
  <2> DEFINE n == NodeOf[p]
             s == page[p]
             e == Scene(p, s, FALSE)
  <2>1. n \in Nodes /\ s \in PageState /\ s.sign \in Head /\ rec[n] \in Head /\ reg[n] \in Head
    BY GoodPage, TypeInvPages DEF Base, PageState
  <2>2. Served(n, s.sign, "Signed") = Decide(rec[n], reg[n], s.sign)
    BY Zenon DEF Served
  <2>3. s.sign.prev.seq = Top(n)
    <3> DEFINE w == "Signed"
    <3>1. w \in {"Signed", "Retry", "Final"}
      OBVIOUS
    <3>2. Served(n, s.sign, w).kind = "Signed"
      BY <2>2
    <3> HIDE DEF w
    <3>3. QED
      BY <2>1, <3>1, <3>2, AnswerIs DEF Base
  <2>4. Lands(e, s) /\ e.T = Top(n)
    BY DEF Base, SoundInv, SoundPage, Sane, Scene
  <2> HIDE DEF e
  <2>5. s.sign.prev.seq < Top(n)
    BY <2>4 DEF Lands, IsVerifying
  <2>6. Top(n) \in Nat
    BY <2>1, TopIs DEF Base
  <2>7. QED
    BY <2>3, <2>5, <2>6
<1>2. QED
  BY <1>1, BaseInit, BaseStep, PTL DEF Spec

(* With register answers read when they are sent, a page never stands on a *)
(* head that a record it holds itself beats at that seq, whichever read    *)
(* led to it: the one judgement (page/src/judge.rs).                       *)
THEOREM JudgedCorrect ==
  ASSUME Sleepy = {}
  PROVE  Spec => []AdoptedNotBeaten
<1>1. Base => AdoptedNotBeaten
  <2> SUFFICES ASSUME Base, NEW p \in Pages
               PROVE  \E h \in held[NodeOf[p]] : page[p].pub = PairOf(h) /\ Winning(h, page[p].mine) = {}
    BY DEF AdoptedNotBeaten
  <2> DEFINE e == Scene(p, page[p], FALSE)
  <2>1. Sane(e, page[p])
    BY DEF Base, SoundInv, SoundPage
  <2>2. e.H = held[NodeOf[p]] /\ e.now
    BY DEF Scene
  <2> HIDE DEF e
  <2>3. QED
    BY <2>1, <2>2 DEF Sane, Stands
<1>2. QED
  BY <1>1, BaseInit, BaseStep, PTL DEF Spec

----------------------------------------------------------------------------
(* The order of the log: whose writes a tree carries.                      *)

(* A page tells of its writes in their order. *)
Contiguous(told) == \A k \in Arrivals : told[k] # "None" => \A i \in 1 .. (k - 1) : told[i] # "None"

(* A tree carries no write of q ahead of an earlier one that still waits. *)
Ordered(R, q, told) ==
  \A k \in Arrivals : <<q, k>> \in R =>
    told[k] # "None" /\ \A i \in 1 .. (k - 1) : told[i] = "Queued" => <<q, i>> \in R

(* Nor does its ledger list it as carried: an entry is a last arrival. *)
Carried(h, q, told) ==
  \A i \in Arrivals : i <= h.through[q].seq =>
    told[i] # "None" /\ (told[i] = "Queued" => <<q, i>> \in h.root)

Kept(h) == \A q \in Pages : Ordered(h.root, q, page[q].told) /\ Carried(h, q, page[q].told)

(* What a head asked for adds to the head it names, which was held. *)
Grown(h, n) == h.prev.root \subseteq h.root /\ Known(h.prev, held[n])

(* A commit is the head it builds on and the writes cut for it, of which   *)
(* it knows the last.                                                      *)
Formed(p) ==
  LET c == page[p].commit
  IN  /\ c.root = c.base \cup ({p} \X c.cut)
      /\ c.through \in c.cut /\ \A i \in c.cut : c.through >= i
      /\ \A q \in Pages : Ordered(c.root, q, page[q].told)

LogInv ==
  /\ \A p \in Pages : /\ Contiguous(page[p].told)
                      /\ Committing(page[p]) => Formed(p)
                      /\ \A i \in Arrivals : page[p].told[i] = "Published" =>
                           \E h \in held[NodeOf[p]] : <<p, i>> \in h.root
  /\ \A n \in Nodes : /\ \A h \in held[n] \cup sigs[n] : Kept(h)
                      /\ \A h \in sigs[n] : Grown(h, n)
                      /\ \A h \in asked[n] : h.prev.seq < Top(n) \/ (Grown(h, n) /\ Kept(h))

(* What a page is told goes on from `old` to `new`: no write waits again,  *)
(* and none is untold.                                                     *)
Onward(old, new) ==
  \A i \in Arrivals : /\ new[i] = "Queued" => old[i] \in {"Queued", "None"}
                      /\ old[i] # "None" => new[i] # "None"

LEMMA OrderedOnward ==
  ASSUME NEW old, NEW new, Contiguous(old), Onward(old, new), NEW R, NEW q, Ordered(R, q, old)
  PROVE  Ordered(R, q, new)
<1> SUFFICES ASSUME NEW k \in Arrivals, <<q, k>> \in R
             PROVE  new[k] # "None" /\ \A i \in 1 .. (k - 1) : new[i] = "Queued" => <<q, i>> \in R
  BY DEF Ordered
<1>1. old[k] # "None" /\ \A i \in 1 .. (k - 1) : old[i] # "None"
  BY DEF Ordered, Contiguous
<1>2. \A i \in 1 .. (k - 1) : i \in Arrivals
  BY WritesAssumption DEF Arrivals
<1>3. QED
  BY <1>1, <1>2 DEF Onward, Ordered

LEMMA CarriedOnward ==
  ASSUME NEW old, NEW new, Onward(old, new), NEW h, NEW q, Carried(h, q, old)
  PROVE  Carried(h, q, new)
BY DEF Carried, Onward

(* All that is kept stays kept while every page's tale goes on. *)
LEMMA KeptOnward ==
  ASSUME LogInv, \A q \in Pages : Onward(page[q].told, page'[q].told), NEW h, Kept(h)
  PROVE  Kept(h)'
<1>1. \A q \in Pages : Contiguous(page[q].told)
  BY DEF LogInv
<1>2. QED
  BY <1>1, OrderedOnward, CarriedOnward DEF Kept

(* The heads held and signed next are those held, signed or asked for now. *)
LEMMA HeadsNext ==
  ASSUME Base, [Next]_vars, NEW n \in Nodes
  PROVE  /\ \A h \in held'[n] : h \in sigs[n] \/ \E m \in Nodes : h \in held[m]
         /\ \A h \in sigs'[n] : h \in sigs[n] \/ (h \in asked[n] /\ h.prev.seq = Top(n))
<1>1. \A h \in held'[n] : h \in sigs[n] \/ \E m \in Nodes : h \in held[m]
  <2>1. ASSUME NEW m \in Nodes, NEW h, Displaces(h, reg[m]), Apply(m, h)
        PROVE  held'[n] \subseteq held[n] \cup (IF m = n THEN {h} ELSE {})
    BY <2>1, TypeInvPages DEF Apply, Base, Merge
  <2>2. CASE UNCHANGED held
    BY <2>2
  <2>3. CASE held' # held
    <3>1. PICK m \in Nodes : UpdateApplies(m) \/ \E k \in Nodes : Sync(m, k)
      BY <2>3 DEF Next, vars, Start, Close, Accept, CutNow, RaceReady, BlockRejected, AskHead, HearSigner,
         SignLost, HearUpdated, Due, Backstop, Reconnected, HeadHinted, HearHead, HearLate,
         HeadPushed, TakeRead, PageStep, SignerAnswers, SignerServesStale
    <3>2. CASE UpdateApplies(m)
      BY <2>1, <3>2 DEF UpdateApplies, Base, GroundInv
    <3>3. CASE \E k \in Nodes : Sync(m, k)
      BY <2>1, <3>3 DEF Sync, Base, GroundInv
    <3>4. QED
      BY <3>1, <3>2, <3>3
  <2>4. QED
    BY <2>2, <2>3
<1>2. ASSUME NEW m \in Nodes, NEW h \in asked[m], NEW outcome \in {"Signed", "Retry", "Final"},
             Serve(m, Served(m, h, outcome))
      PROVE  \A g \in sigs'[n] : g \in sigs[n] \/ (g \in asked[n] /\ g.prev.seq = Top(n))
  <2> DEFINE a == Served(m, h, outcome)
  <2>1. a.kind = "Signed" => a.head = h /\ h.prev.seq = Top(m)
    BY TypeInvPages, AnswerIs DEF Base
  <2>2. a.kind # "Signed" => sigs' = sigs
    BY <1>2 DEF Serve
  <2>3. a.kind = "Signed" => sigs' = [sigs EXCEPT ![m] = @ \cup {a.head}]
    BY <1>2 DEF Serve
  <2> HIDE DEF a
  <2>4. QED
    BY <2>1, <2>2, <2>3, TypeInvPages DEF Base
<1>3. ASSUME NEW p \in Pages, SignerAnswers(p)
      PROVE  \A g \in sigs'[n] : g \in sigs[n] \/ (g \in asked[n] /\ g.prev.seq = Top(n))
  <2>1. PICK outcome \in SignOutcomes : Serve(NodeOf[p], Served(NodeOf[p], page[p].sign, outcome))
    BY <1>3 DEF SignerAnswers
  <2>2. /\ NodeOf[p] \in Nodes /\ outcome \in {"Signed", "Retry", "Final"}
        /\ page[p].sign \in asked[NodeOf[p]]
    BY <1>3, NodesAssumption DEF Base, SoundInv, SignerAnswers
  <2>3. QED
    BY <1>2, <2>1, <2>2
<1>4. ASSUME NEW m \in Nodes, SignerServesStale(m)
      PROVE  \A g \in sigs'[n] : g \in sigs[n] \/ (g \in asked[n] /\ g.prev.seq = Top(n))
  <2>1. PICK h \in asked[m] : Serve(m, Served(m, h, "Signed"))
    BY <1>4 DEF SignerServesStale
  <2> DEFINE w == "Signed"
  <2>2. w \in {"Signed", "Retry", "Final"} /\ Serve(m, Served(m, h, w))
    BY <2>1
  <2> HIDE DEF w
  <2>3. QED
    BY <1>2, <2>2
<1>5. CASE UNCHANGED sigs
  BY <1>1, <1>5
<1>6. CASE sigs' # sigs
  <2>1. (\E p \in Pages : SignerAnswers(p)) \/ (\E m \in Nodes : SignerServesStale(m))
    BY <1>6 DEF Next, vars, Start, Close, Accept, CutNow, RaceReady, BlockRejected, AskHead, HearSigner,
       SignLost, HearUpdated, Due, Backstop, Reconnected, HeadHinted, HearHead, HearLate,
       HeadPushed, TakeRead, PageStep, UpdateApplies, Sync, Apply
  <2>2. QED
    BY <1>1, <1>3, <1>4, <2>1
<1>7. QED
  BY <1>5, <1>6

LEMMA EvictedIs ==
  ASSUME NEW t \in [Pages -> Entry], NEW q \in Pages
  PROVE  Evicted(t)[q] \in {t[q], NoEntry}
BY DEF Evicted

(* What a page newly asks for keeps the log. *)
LEMMA AskKept ==
  ASSUME Base, LogInv, NEW p \in Pages, NEW e, Moves(p, e), NEW h \in Head,
         AskOf(p, e, e.was.commit, h)
  PROVE  Grown(h, NodeOf[p]) /\ Kept(h)
<1> DEFINE c == page[p].commit
           n == NodeOf[p]
<1>1. /\ e.H = held[n] /\ n \in Nodes /\ page[p] \in PageState /\ c \in Commit
      /\ held[n] \subseteq Head
  BY SceneIs, GoodPage DEF Moves, Base, PageState, World
<1>2. /\ e.was.commit.seq = c.seq /\ e.was.commit.root = c.root /\ e.was.commit.base = c.base
      /\ e.was.commit.through = c.through /\ c.stage # "Idle"
  BY <1>1 DEF Moves, Meets, AskOf, Commit
<1>3. /\ h.root = c.root /\ h.prev = [seq |-> c.seq - 1, root |-> c.base] /\ Known(h.prev, held[n])
  BY <1>1, <1>2 DEF AskOf
<1>4. Formed(p)
  BY <1>2 DEF LogInv, Committing
<1>5. h.prev.root = c.base /\ c.base \subseteq c.root
  BY <1>3, <1>4 DEF Formed
<1>6. PICK g \in held[n] :
        h.through = Evicted([(IF PairOf(g) = h.prev THEN g.through ELSE NoThrough)
                               EXCEPT ![p] = [seq |-> c.through, last |-> c.seq]])
  BY <1>1, <1>2 DEF AskOf
<1> DEFINE copied == IF PairOf(g) = h.prev THEN g.through ELSE NoThrough
           own == [seq |-> c.through, last |-> c.seq]
           t == [copied EXCEPT ![p] = own]
<1>7. copied \in [Pages -> Entry] /\ own \in Entry
  BY <1>1, Constants DEF Head, Entry, Commit
<1>8. ASSUME NEW q \in Pages
      PROVE  Ordered(h.root, q, page[q].told) /\ Carried(h, q, page[q].told)
  <2>1. Ordered(c.root, q, page[q].told)
    BY <1>4 DEF Formed
  <2>2. h.through[q] \in {t[q], NoEntry}
    <3>1. t \in [Pages -> Entry]
      BY <1>7
    <3> HIDE DEF t
    <3>2. QED
      BY <1>6, <3>1, EvictedIs DEF t
  <2>3. t[q] = IF q = p THEN own ELSE copied[q]
    BY <1>7
  <2>4. NoEntry.seq = 0 /\ own.seq = c.through
    BY DEF NoEntry
  <2>5. ASSUME NEW i \in Arrivals, i <= h.through[q].seq
        PROVE  page[q].told[i] # "None" /\ (page[q].told[i] = "Queued" => <<q, i>> \in h.root)
    <3>1. i >= 1 /\ i \in Nat
      BY WritesAssumption DEF Arrivals
    <3>2. h.through[q] = t[q]
      BY <2>2, <2>4, <2>5, <3>1
    <3>3. CASE q = p
      <4>1. i <= c.through /\ c.through \in c.cut /\ <<p, c.through>> \in c.root
        BY <1>4, <2>3, <2>4, <2>5, <3>2, <3>3 DEF Formed
      <4>2. c.through \in Arrivals /\ c.through \in Nat
        BY <1>1, <4>1 DEF Commit
      <4>3. page[p].told[c.through] # "None"
        BY <2>1, <3>3, <4>1, <4>2 DEF Ordered
      <4>4. CASE i = c.through
        BY <1>3, <3>3, <4>1, <4>3, <4>4
      <4>5. CASE i # c.through
        <5>1. i \in 1 .. (c.through - 1)
          BY <3>1, <4>1, <4>2, <4>5
        <5>2. page[p].told[i] # "None"
          BY <4>2, <4>3, <5>1 DEF LogInv, Contiguous
        <5>3. page[p].told[i] = "Queued" => <<p, i>> \in c.root
          BY <2>1, <3>3, <4>1, <4>2, <5>1 DEF Ordered
        <5>4. QED
          BY <1>3, <3>3, <5>2, <5>3
      <4>6. QED
        BY <4>4, <4>5
    <3>4. CASE q # p
      <4>1. h.through[q] = copied[q]
        BY <2>3, <3>2, <3>4
      <4>2. CASE PairOf(g) = h.prev
        <5>1. g.root = c.base /\ copied[q] = g.through[q]
          BY <1>5, <4>2 DEF PairOf
        <5>2. Carried(g, q, page[q].told)
          BY <1>1 DEF LogInv, Kept
        <5>3. QED
          BY <1>3, <1>5, <2>5, <4>1, <5>1, <5>2 DEF Carried
      <4>3. CASE PairOf(g) # h.prev
        BY <2>4, <2>5, <3>1, <4>1, <4>3 DEF NoThrough
      <4>4. QED
        BY <4>2, <4>3
    <3>5. QED
      BY <3>3, <3>4
  <2>6. QED
    BY <1>3, <2>1, <2>5 DEF Carried
<1>9. QED
  BY <1>3, <1>5, <1>8 DEF Grown, Kept

(* The commit of q in flight goes on. *)
GoesOn(q) ==
  LET c == page[q].commit
      d == page'[q].commit
  IN  Committing(page[q]) /\ d.root = c.root /\ d.base = c.base /\ d.cut = c.cut /\ d.through = c.through

LEMMA LogNext ==
  ASSUME Base, LogInv, TypeInv', [Next]_vars,
         \A q \in Pages : /\ Onward(page[q].told, page'[q].told) /\ Contiguous(page'[q].told)
                          /\ Committing(page'[q]) => GoesOn(q) \/ Formed(q)'
                          /\ \A i \in Arrivals : page'[q].told[i] = "Published" =>
                               \/ page[q].told[i] = "Published"
                               \/ \E h \in held[NodeOf[q]] : <<q, i>> \in h.root,
         \A n \in Nodes : \A h \in asked'[n] :
           h \in asked[n] \/ h.prev.seq < Top(n) \/ (Grown(h, n) /\ Kept(h))
  PROVE  LogInv'
<1>1. \A q \in Pages : Committing(page'[q]) => Formed(q)'
  <2>1. ASSUME NEW q \in Pages, GoesOn(q)
        PROVE  Formed(q)'
    <3>1. Formed(q)
      BY <2>1 DEF LogInv, GoesOn
    <3>2. \A r \in Pages : Ordered(page[q].commit.root, r, page'[r].told)
      BY <3>1, OrderedOnward DEF Formed, LogInv
    <3>3. QED
      BY <2>1, <3>1, <3>2 DEF Formed, GoesOn
  <2>2. QED
    BY <2>1
<1>2. ASSUME NEW q \in Pages, NEW i \in Arrivals, page'[q].told[i] = "Published"
      PROVE  \E h \in held'[NodeOf[q]] : <<q, i>> \in h.root
  <2>1. \E h \in held[NodeOf[q]] : <<q, i>> \in h.root
    BY <1>2 DEF LogInv
  <2>2. held[NodeOf[q]] \subseteq held'[NodeOf[q]]
    BY Growing, NodesAssumption
  <2>3. QED
    BY <2>1, <2>2
<1>3. ASSUME NEW n \in Nodes
      PROVE  /\ \A h \in held'[n] \cup sigs'[n] : Kept(h)'
             /\ \A h \in sigs'[n] : Grown(h, n)'
             /\ \A h \in asked'[n] : h.prev.seq < Top(n)' \/ (Grown(h, n) /\ Kept(h))'
  <2>1. \A h : Kept(h) => Kept(h)'
    BY KeptOnward
  <2>2. \A h : Grown(h, n) => Grown(h, n)'
    <3>1. held[n] \subseteq held'[n]
      BY Growing
    <3>2. QED
      BY <3>1 DEF Grown, Known
  <2>3. \A h \in sigs'[n] : Kept(h) /\ Grown(h, n)
    <3>1. Top(n) \in Nat
      BY Growing
    <3>2. \A h \in sigs'[n] : h \in sigs[n] \/ (h \in asked[n] /\ h.prev.seq = Top(n))
      BY HeadsNext
    <3>3. QED
      BY <3>1, <3>2 DEF LogInv
  <2>4. \A h \in held'[n] : Kept(h)
    BY HeadsNext DEF LogInv
  <2>5. \A h \in asked'[n] : h.prev.seq < Top(n) \/ (Grown(h, n) /\ Kept(h))
    BY DEF LogInv
  <2>6. \A h \in asked'[n] : h.prev.seq < Top(n) => h.prev.seq < Top(n)'
    <3>1. asked'[n] \subseteq Head
      BY DEF TypeInv, TypeOK
    <3>2. Top(n) \in Nat /\ Top(n)' \in Nat /\ Top(n) <= Top(n)'
      BY Growing
    <3>3. \A h \in asked'[n] : h.prev.seq \in Nat
      BY <3>1 DEF Head
    <3>4. QED
      BY <3>2, <3>3
  <2>7. QED
    BY <2>1, <2>2, <2>3, <2>4, <2>5, <2>6
<1>4. QED
  BY <1>1, <1>2, <1>3 DEF LogInv

(* A step that changes no page's commit or tale, and asks nothing. *)
LEMMA QuietLog ==
  ASSUME Base, LogInv, TypeInv', [Next]_vars, UNCHANGED asked,
         \A q \in Pages : page'[q].told = page[q].told /\ page'[q].commit = page[q].commit
  PROVE  LogInv'
<1>1. \A q \in Pages : /\ Onward(page[q].told, page'[q].told) /\ Contiguous(page'[q].told)
                       /\ Committing(page'[q]) => GoesOn(q)
  BY DEF Onward, LogInv, GoesOn, Committing
<1>2. QED
  BY <1>1, LogNext

(* A step of one page. *)
LEMMA StepLog ==
  ASSUME Base, LogInv, TypeInv', [Next]_vars, NEW p \in Pages,
         page' = [page EXCEPT ![p] = page'[p]],
         Onward(page[p].told, page'[p].told), Contiguous(page'[p].told),
         Committing(page'[p]) => GoesOn(p) \/ Formed(p)',
         \A i \in Arrivals : page'[p].told[i] = "Published" =>
           page[p].told[i] = "Published" \/ \E h \in held[NodeOf[p]] : <<p, i>> \in h.root,
         \A n \in Nodes : \A h \in asked'[n] :
           h \in asked[n] \/ (n = NodeOf[p] /\ h = page'[p].sign),
         LET h == page'[p].sign
         IN  \/ h \in {NoHead, page[p].sign} \/ h.prev.seq < Top(NodeOf[p])
             \/ (Grown(h, NodeOf[p]) /\ Kept(h)),
         NoHead \in asked'[NodeOf[p]] => NoHead \in asked[NodeOf[p]]
  PROVE  LogInv'
<1>1. \A q \in Pages : q # p => page'[q] = page[q]
  BY TypeInvPages DEF Base
<1>2. \A q \in Pages : /\ Onward(page[q].told, page'[q].told) /\ Contiguous(page'[q].told)
                       /\ Committing(page'[q]) => GoesOn(q) \/ Formed(q)'
                       /\ \A i \in Arrivals : page'[q].told[i] = "Published" =>
                            \/ page[q].told[i] = "Published"
                            \/ \E h \in held[NodeOf[q]] : <<q, i>> \in h.root
  <2>1. ASSUME NEW q \in Pages, q # p
        PROVE  /\ Onward(page[q].told, page'[q].told) /\ Contiguous(page'[q].told)
               /\ Committing(page'[q]) => GoesOn(q)
               /\ page'[q].told = page[q].told
    BY <1>1, <2>1 DEF Onward, LogInv, GoesOn, Committing
  <2>2. QED
    BY <2>1
<1>3. page[p].sign \in asked[NodeOf[p]] \cup {NoHead}
  BY DEF Base, SoundInv
<1>4. \A n \in Nodes : \A h \in asked'[n] :
        h \in asked[n] \/ h.prev.seq < Top(n) \/ (Grown(h, n) /\ Kept(h))
  BY <1>3
<1>5. QED
  BY <1>2, <1>4, LogNext

(* The wire of one page's step. *)
LEMMA StepAsks ==
  ASSUME Base, NEW p \in Pages, Step(p, page'[p])
  PROVE  /\ page' = [page EXCEPT ![p] = page'[p]]
         /\ \A n \in Nodes : \A h \in asked'[n] :
              h \in asked[n] \/ (n = NodeOf[p] /\ h = page'[p].sign)
         /\ NoHead \in asked'[NodeOf[p]] => NoHead \in asked[NodeOf[p]]
<1>1. NodeOf[p] \in Nodes /\ asked \in [Nodes -> SUBSET Head]
  BY NodesAssumption, TypeInvPages DEF Base
<1>2. page' = [page EXCEPT ![p] = page'[p]]
  BY DEF Step
<1>3. asked' = [asked EXCEPT ![NodeOf[p]] = @ \cup ({page'[p].sign} \ {NoHead})]
  BY DEF Step
<1>4. QED
  BY <1>1, <1>2, <1>3

(* What the writes of a commit are told as it ends. *)
LEMMA ToldIs ==
  ASSUME NEW p, NEW e, NEW s, Track(p, e, s), NEW i \in Arrivals
  PROVE  \/ s.told[i] = e.was.told[i]
         \/ /\ Committing(e.was) /\ Concludes(p, e, s.told) /\ i \in e.was.commit.cut
            /\ e.was.told[i] = "Queued" /\ s.told[i] \in {"Published", "Unknown", "Lost", "Failed"}
            /\ s.told[i] = "Published" =>
                 \/ PairOf(e.was.lastHead) = [seq |-> e.was.commit.seq, root |-> e.was.commit.root]
                 \/ Shown(p, e)
<1> SUFFICES ASSUME s.told[i] # e.was.told[i]
             PROVE  /\ Committing(e.was) /\ Concludes(p, e, s.told) /\ i \in e.was.commit.cut
                    /\ e.was.told[i] = "Queued" /\ s.told[i] \in {"Published", "Unknown", "Lost", "Failed"}
                    /\ s.told[i] = "Published" =>
                         \/ PairOf(e.was.lastHead) = [seq |-> e.was.commit.seq, root |-> e.was.commit.root]
                         \/ Shown(p, e)
  OBVIOUS
<1> DEFINE c == e.was.commit
           f == e.was.lastHead
<1>1. Committing(e.was) /\ Concludes(p, e, s.told)
  BY DEF Track, Follows
<1>2. e.was \in PageState /\ c.cut \subseteq Queue(e.was)
  BY <1>1 DEF Track, Setting, Sane, Good, OK, Tidy
<1>3. PICK ws \in SUBSET c.cut, fate \in {"Published", "Unknown", "Lost", "Failed"} :
        /\ s.told = Tell(e.was, ws, fate).told
        /\ fate = "Published" => PairOf(f) = [seq |-> c.seq, root |-> c.root] \/ Shown(p, e)
  BY <1>1, Zenon DEF Concludes
<1>4. s.told = [k \in Arrivals |-> IF k \in ws THEN fate ELSE e.was.told[k]]
  BY <1>2, <1>3, TellTold
<1>5. i \in ws /\ s.told[i] = fate
  BY <1>4
<1>6. QED
  BY <1>1, <1>2, <1>3, <1>5 DEF Queue

(* A write that is in a commit the head read shows is in that head. *)
LEMMA ShownIs ==
  ASSUME Base, LogInv, NEW p \in Pages, NEW e, Moves(p, e), NEW i \in e.was.commit.cut,
         Committing(e.was), e.was.told[i] = "Queued",
         \/ PairOf(e.was.lastHead) = [seq |-> e.was.commit.seq, root |-> e.was.commit.root]
         \/ Shown(p, e)
  PROVE  e.was.lastHead \in held[NodeOf[p]] /\ <<p, i>> \in e.was.lastHead.root
<1> DEFINE c == page[p].commit
           n == NodeOf[p]
           f == e.was.lastHead
<1>1. /\ e.H = held[n] /\ n \in Nodes /\ page[p] \in PageState /\ c \in Commit /\ f \in held[n]
      /\ held[n] \subseteq Head
  BY SceneIs, GoodPage DEF Moves, Base, PageState, World, Track, Setting, Sane, Tidy
<1>2. /\ e.was.commit.seq = c.seq /\ e.was.commit.root = c.root /\ e.was.commit.cut = c.cut
      /\ e.was.commit.through = c.through /\ Committing(page[p]) /\ e.was.told = page[p].told
  BY <1>1 DEF Moves, Meets, Commit, Committing
<1>3. /\ c.root = c.base \cup ({p} \X c.cut) /\ c.through \in c.cut /\ \A k \in c.cut : c.through >= k
      /\ c.cut \subseteq Arrivals /\ c.cut \subseteq Nat
  <2>1. c.cut \subseteq Arrivals
    BY <1>1 DEF Commit
  <2>2. QED
    BY <1>2, <2>1, WritesAssumption DEF LogInv, Formed, Arrivals
<1>4. CASE PairOf(f) = [seq |-> c.seq, root |-> c.root]
  <2>1. f.root = c.root
    BY <1>4 DEF PairOf
  <2>2. QED
    BY <1>1, <1>2, <1>3, <2>1
<1>5. CASE Shown(p, e)
  <2>1. WitnessOf(p, f, c.seq).kind = "Through" /\ WitnessOf(p, f, c.seq).seq >= c.through
    BY <1>2, <1>5 DEF Shown
  <2>2. f.through[p].seq >= c.through
    BY <2>1 DEF WitnessOf, Through, NotThere, Unwitnessed
  <2>3. i \in Arrivals /\ i <= f.through[p].seq
    <3>1. f.through[p].seq \in Nat
      BY <1>1 DEF Head, Entry
    <3>2. QED
      BY <1>2, <1>3, <2>2, <3>1
  <2>4. Carried(f, p, page[p].told)
    BY <1>1 DEF LogInv, Kept
  <2>5. QED
    BY <1>1, <1>2, <2>3, <2>4 DEF Carried
<1>6. QED
  BY <1>2, <1>4, <1>5

LEMMA MovesLog ==
  ASSUME Base, LogInv, TypeInv', [Next]_vars, NEW p \in Pages, NEW e, Moves(p, e)
  PROVE  LogInv'
<1> DEFINE n == NodeOf[p]
           s == page'[p]
           told == page[p].told
<1>1. /\ Track(p, e, s) /\ Step(p, s) /\ e.was.told = told /\ e.was.sign = page[p].sign
      /\ e.H = held[n] /\ e.T = Top(n) /\ n \in Nodes /\ s \in PageState /\ page[p] \in PageState
  BY SceneIs, GoodPage, TypeNext DEF Moves, Meets, Base
<1>2. ASSUME NEW i \in Arrivals
      PROVE  \/ s.told[i] = told[i]
             \/ /\ told[i] = "Queued" /\ s.told[i] \in {"Published", "Unknown", "Lost", "Failed"}
                /\ s.told[i] = "Published" => \E h \in held[n] : <<p, i>> \in h.root
  <2>1. CASE s.told[i] = e.was.told[i]
    BY <1>1, <2>1
  <2>2. CASE s.told[i] # e.was.told[i]
    <3>1. /\ Committing(e.was) /\ i \in e.was.commit.cut
          /\ e.was.told[i] = "Queued" /\ s.told[i] \in {"Published", "Unknown", "Lost", "Failed"}
          /\ s.told[i] = "Published" =>
               \/ PairOf(e.was.lastHead) = [seq |-> e.was.commit.seq, root |-> e.was.commit.root]
               \/ Shown(p, e)
      BY <1>1, <2>2, ToldIs
    <3>2. s.told[i] = "Published" => \E h \in held[n] : <<p, i>> \in h.root
      BY <3>1, ShownIs
    <3>3. QED
      BY <1>1, <3>1, <3>2
  <2>3. QED
    BY <2>1, <2>2
<1>3. Onward(told, s.told)
  BY <1>2 DEF Onward
<1>4. Contiguous(s.told)
  <2>1. ASSUME NEW k \in Arrivals, s.told[k] # "None", NEW i \in 1 .. (k - 1)
        PROVE  s.told[i] # "None"
    <3>1. i \in Arrivals
      BY WritesAssumption DEF Arrivals
    <3>2. told[k] # "None"
      BY <1>2, <2>1
    <3>3. told[i] # "None"
      BY <3>2 DEF LogInv, Contiguous
    <3>4. QED
      BY <1>2, <3>1, <3>3
  <2>2. QED
    BY <2>1 DEF Contiguous
<1>5. Committing(s) => GoesOn(p)
  <2>1. ASSUME Committing(s) PROVE GoesOn(p)
    <3>1. s.commit = e.was.commit /\ Committing(e.was)
      BY <1>1, <2>1, InFlight
    <3>2. page[p].commit \in Commit
      BY <1>1 DEF PageState
    <3>3. QED
      BY <3>1, <3>2 DEF Moves, Meets, GoesOn, Commit, Committing
  <2>2. QED
    BY <2>1
<1>6. \/ s.sign \in {NoHead, page[p].sign} \/ s.sign.prev.seq < Top(n)
      \/ (Grown(s.sign, n) /\ Kept(s.sign))
  <2>1. \/ s.sign \in {NoHead, page[p].sign} \/ s.sign.prev.seq < Top(n)
        \/ AskOf(p, e, e.was.commit, s.sign)
    BY <1>1 DEF Track, Follows
  <2>2. s.sign \in Head
    BY <1>1 DEF PageState
  <2>3. QED
    BY <2>1, <2>2, AskKept
<1>7. /\ page' = [page EXCEPT ![p] = s]
      /\ \A m \in Nodes : \A h \in asked'[m] : h \in asked[m] \/ (m = n /\ h = s.sign)
      /\ NoHead \in asked'[n] => NoHead \in asked[n]
  BY <1>1, StepAsks
<1>8. \A i \in Arrivals : s.told[i] = "Published" =>
        told[i] = "Published" \/ \E h \in held[n] : <<p, i>> \in h.root
  BY <1>2
<1>9. QED
  BY <1>3, <1>4, <1>5, <1>6, <1>7, <1>8, StepLog

LEMMA AcceptLog ==
  ASSUME Base, LogInv, TypeInv', [Next]_vars, NEW p \in Pages, Accept(p)
  PROVE  LogInv'
<1> DEFINE s == page[p]
           t == page'[p]
<1>1. PICK i \in 1 .. Accepts[p] : /\ s.told[i] = "None"
                                   /\ \A k \in 1 .. (i - 1) : s.told[k] # "None"
                                   /\ PageStep(p, Tell(s, {i}, "Queued"))
  BY DEF Accept
<1>2. s \in PageState /\ page \in [Pages -> PageState] /\ i \in Arrivals /\ i \in Nat
  BY GoodPage, TypeInvPages, NodesAssumption, WritesAssumption DEF Base, Arrivals
<1>3. t = Tell(s, {i}, "Queued") /\ Step(p, t)
  BY <1>1, <1>2 DEF PageStep, Step
<1>4. /\ t.told = [k \in Arrivals |-> IF k \in {i} THEN "Queued" ELSE s.told[k]]
      /\ t.commit = s.commit /\ t.sign = s.sign
  BY <1>2, <1>3 DEF Tell, PageState
<1>5. Onward(s.told, t.told)
  BY <1>1, <1>4 DEF Onward
<1>6. Contiguous(t.told)
  <2>1. ASSUME NEW k \in Arrivals, t.told[k] # "None", NEW j \in 1 .. (k - 1)
        PROVE  t.told[j] # "None"
    <3>1. j \in Arrivals
      BY WritesAssumption DEF Arrivals
    <3>2. s.told[j] # "None" \/ j = i
      <4>1. CASE k = i
        BY <1>1, <4>1
      <4>2. CASE k # i
        BY <1>4, <2>1, <4>2 DEF LogInv, Contiguous
      <4>3. QED
        BY <4>1, <4>2
    <3>3. QED
      BY <1>4, <3>1, <3>2
  <2>2. QED
    BY <2>1 DEF Contiguous
<1>7. /\ page' = [page EXCEPT ![p] = t]
      /\ \A m \in Nodes : \A h \in asked'[m] : h \in asked[m] \/ (m = NodeOf[p] /\ h = t.sign)
      /\ NoHead \in asked'[NodeOf[p]] => NoHead \in asked[NodeOf[p]]
  BY <1>3, StepAsks
<1>8. Committing(t) => GoesOn(p)
  BY <1>4 DEF GoesOn, Committing
<1>9. \A k \in Arrivals : t.told[k] = "Published" => s.told[k] = "Published"
  BY <1>4
<1>10. QED
  BY <1>4, <1>5, <1>6, <1>7, <1>8, <1>9, StepLog

LEMMA CutNowLog ==
  ASSUME Base, LogInv, TypeInv', [Next]_vars, NEW p \in Pages, CutNow(p)
  PROVE  LogInv'
<1> DEFINE s == page[p]
           u == page'[p]
<1>1. PICK k \in Arrivals, last \in Nat, failed \in SUBSET Queue(s) :
        /\ failed \subseteq {i \in Queue(s) : i <= k}
        /\ u = Cut(p, s, {i \in Queue(s) : i <= k}, last, failed) /\ PageStep(p, u) /\ ~Committing(s)
  BY CutNowIs DEF MayConflict
<1> DEFINE t == {i \in Queue(s) : i <= k}
           fresh == t \ failed
           root == s.pub.root \cup ({p} \X fresh)
<1>2. s \in PageState /\ Step(p, u)
  BY <1>1, GoodPage DEF Base, PageStep
<1>3. t \in SUBSET Queue(s) /\ failed \subseteq t /\ fresh = t \ failed
      /\ Arrivals \subseteq Nat /\ Queue(s) \subseteq Arrivals
  BY <1>1, WritesAssumption DEF Queue, Arrivals
<1>4. CutLeft(p, s, u, fresh, failed)
  BY <1>1, <1>2, <1>3, CutIs
<1>5. u.sign = s.sign
  BY <1>1, <1>2, CutKeeps
<1>6. \A i \in t : i \in Arrivals /\ s.told[i] = "Queued"
  BY DEF Queue
<1>7. \A i \in Arrivals : i \in Queue(s) /\ i <= k => i \in t
  OBVIOUS
<1>8. PICK g \in held[NodeOf[p]] : s.pub.root = g.root
  <2>1. Known(s.pub, held[NodeOf[p]])
    BY DEF Base, GroundInv, Grounded
  <2>2. QED
    BY <2>1 DEF Known, PairOf
<1>9. \A q \in Pages : Ordered(s.pub.root, q, page[q].told) /\ Contiguous(page[q].told)
  <2>1. Kept(g)
    BY <1>8, NodesAssumption DEF LogInv
  <2>2. QED
    BY <1>8, <2>1 DEF Kept, LogInv
<1>10. \A i \in t : i <= k
  OBVIOUS
<1> HIDE DEF t, fresh
<1>11. \A i \in Arrivals : \/ u.told[i] = s.told[i]
                           \/ i \in t /\ u.told[i] \in {"Published", "Conflict"}
  BY <1>3, <1>4 DEF CutLeft
<1>12. Onward(s.told, u.told)
  BY <1>6, <1>11 DEF Onward
<1>13. Contiguous(u.told)
  <2>1. ASSUME NEW m \in Arrivals, u.told[m] # "None", NEW j \in 1 .. (m - 1)
        PROVE  u.told[j] # "None"
    <3>1. j \in Arrivals
      BY WritesAssumption DEF Arrivals
    <3>2. s.told[m] # "None"
      BY <1>6, <1>11, <2>1
    <3>3. s.told[j] # "None"
      BY <1>9, <3>2 DEF Contiguous
    <3>4. QED
      BY <1>11, <3>1, <3>3
  <2>2. QED
    BY <2>1 DEF Contiguous
<1>14. ASSUME NEW i \in Arrivals, u.told[i] = "Published", s.told[i] # "Published"
       PROVE  <<p, i>> \in g.root
  <2>1. root = s.pub.root /\ i \in fresh
    BY <1>3, <1>4, <1>14 DEF CutLeft
  <2>2. <<p, i>> \in root
    BY <2>1
  <2>3. QED
    BY <1>8, <2>1, <2>2
<1>15. Committing(u) => Formed(p)'
  <2>1. SUFFICES ASSUME Committing(u) PROVE Formed(p)'
    OBVIOUS
  <2>2. /\ fresh # {} /\ u.commit.root = root
        /\ u.commit.base = s.pub.root /\ u.commit.cut = fresh /\ u.commit.through = Max(fresh)
    BY <1>1, <1>4, <2>1 DEF Committing, CutLeft
  <2>3. fresh \in SUBSET Arrivals
    BY <1>3
  <2>4. Max(fresh) \in fresh /\ \A i \in fresh : Max(fresh) >= i
    BY <2>2, <2>3, LastArrival
  <2>5. \A q \in Pages : Onward(page[q].told, page'[q].told)
    <3>1. \A q \in Pages : q # p => page'[q] = page[q]
      BY <1>2, TypeInvPages DEF Base, Step
    <3>2. \A q \in Pages : q # p => Onward(page[q].told, page'[q].told)
      BY <3>1 DEF Onward
    <3>3. QED
      BY <1>12, <3>2
  <2>6. \A q \in Pages : Ordered(s.pub.root, q, page'[q].told)
    BY <1>9, <2>5, OrderedOnward
  <2>7. ASSUME NEW q \in Pages PROVE Ordered(root, q, page'[q].told)
    <3>1. ASSUME NEW m \in Arrivals, <<q, m>> \in root
          PROVE  /\ page'[q].told[m] # "None"
                 /\ \A j \in 1 .. (m - 1) : page'[q].told[j] = "Queued" => <<q, j>> \in root
      <4>1. CASE <<q, m>> \in s.pub.root
        BY <2>6, <4>1 DEF Ordered
      <4>2. CASE <<q, m>> \notin s.pub.root
        <5>1. q = p /\ m \in fresh
          BY <3>1, <4>2
        <5>2. m \in t /\ m <= k /\ s.told[m] = "Queued" /\ m \in Nat /\ k \in Nat
          BY <1>3, <1>6, <1>10, <5>1
        <5>3. u.told[m] # "None"
          BY <1>3, <1>11, <5>2
        <5>4. ASSUME NEW j \in 1 .. (m - 1), u.told[j] = "Queued" PROVE <<p, j>> \in root
          <6>1. j \in Arrivals /\ j <= k
            BY <5>2, WritesAssumption DEF Arrivals
          <6>2. s.told[j] = "Queued"
            BY <1>11, <5>4, <6>1
          <6>3. j \in t
            BY <1>7, <6>1, <6>2 DEF Queue
          <6>4. j \notin failed
            BY <1>1, <1>4, <2>1, <5>4, <6>1 DEF Committing, CutLeft
          <6>5. QED
            BY <1>3, <6>3, <6>4
        <5>5. QED
          BY <5>1, <5>3, <5>4
      <4>3. QED
        BY <4>1, <4>2
    <3> HIDE DEF root
    <3>2. QED
      BY <3>1 DEF Ordered
  <2>8. QED
    BY <2>2, <2>4, <2>7 DEF Formed
<1>16. /\ page' = [page EXCEPT ![p] = u]
       /\ \A m \in Nodes : \A h \in asked'[m] : h \in asked[m] \/ (m = NodeOf[p] /\ h = u.sign)
       /\ NoHead \in asked'[NodeOf[p]] => NoHead \in asked[NodeOf[p]]
  BY <1>2, StepAsks
<1>17. QED
  BY <1>5, <1>12, <1>13, <1>14, <1>15, <1>16, StepLog

LEMMA LogInvStep == Base /\ LogInv /\ TypeInv' /\ [Next]_vars => LogInv'
<1> SUFFICES ASSUME Base, LogInv, TypeInv', [Next]_vars
             PROVE  LogInv'
  OBVIOUS
<1>1. ASSUME NEW p \in Pages, Close(p)
      PROVE  LogInv'
  <2> DEFINE t == [InitPage EXCEPT !.up = "Gone", !.told = page[p].told]
  <2>1. /\ page' = [page EXCEPT ![p] = t] /\ asked' = asked /\ page \in [Pages -> PageState]
    BY <1>1, TypeInvPages DEF Close, Base
  <2>2. /\ t.told = page[p].told /\ t.sign = NoHead /\ t.commit = NoCommit
    BY DEF InitPage
  <2>3. NoCommit.stage = "Idle"
    BY DEF NoCommit
  <2> HIDE DEF t
  <2>4. page'[p] = t
    BY <2>1
  <2>5. Onward(page[p].told, t.told) /\ Contiguous(t.told) /\ ~Committing(t)
    BY <2>2, <2>3 DEF Onward, LogInv, Committing
  <2>6. QED
    BY <2>1, <2>2, <2>4, <2>5, StepLog
<1>2. ASSUME NEW p \in Pages, SignerAnswers(p)
      PROVE  LogInv'
  <2>1. /\ \E a : page' = [page EXCEPT ![p].ans = a]
        /\ UNCHANGED asked
    BY <1>2 DEF SignerAnswers
  <2>2. \A q \in Pages : page'[q].told = page[q].told /\ page'[q].commit = page[q].commit
    BY <2>1, TypeInvPages DEF Base, PageState
  <2>3. QED
    BY <2>1, <2>2, QuietLog
<1>3. CASE UNCHANGED <<page, asked>>
  BY <1>3, QuietLog
<1>4. ASSUME NEW n \in Nodes, SignerServesStale(n) \/ UpdateApplies(n) \/ \E m \in Nodes : Sync(n, m)
      PROVE  UNCHANGED <<page, asked>>
  BY <1>4 DEF SignerServesStale, UpdateApplies, Sync, Apply
<1>5. ASSUME NEW p \in Pages, TakeRead(p)
      PROVE  UNCHANGED <<page, asked>>
  BY <1>5 DEF TakeRead
<1>6. QED
  BY <1>1, <1>2, <1>3, <1>4, <1>5, PageMoves, MovesLog, AcceptLog, CutNowLog DEF Next, vars

LEMMA LogInvInit == Init => LogInv
<1> SUFFICES ASSUME Init PROVE LogInv
  OBVIOUS
<1>1. \A p \in Pages : /\ page[p].commit.stage = "Idle"
                       /\ \A i \in Arrivals : page[p].told[i] = "None"
  BY DEF Init, InitPage, NoCommit
<1>2. Kept(NoHead)
  <2>1. NoHead.root = {} /\ \A q \in Pages : NoHead.through[q].seq = 0
    BY DEF NoHead, NoThrough, NoEntry
  <2>2. \A q \in Pages : Ordered(NoHead.root, q, page[q].told)
    BY <2>1 DEF Ordered
  <2>3. \A q \in Pages : Carried(NoHead, q, page[q].told)
    BY <2>1, WritesAssumption DEF Carried, Arrivals
  <2>4. QED
    BY <2>2, <2>3 DEF Kept
<1>3. \A p \in Pages : Contiguous(page[p].told)
  <2>1. ASSUME NEW p \in Pages PROVE Contiguous(page[p].told)
    BY <1>1 DEF Contiguous
  <2>2. QED
    BY <2>1
<1>4. \A n \in Nodes : held[n] = {NoHead} /\ sigs[n] = {} /\ asked[n] = {}
  BY DEF Init
<1>5. QED
  BY <1>1, <1>2, <1>3, <1>4 DEF LogInv, Committing

LEMMA LogBase == Spec => [](Base /\ LogInv)
<1>1. Base /\ LogInv /\ [Next]_vars => (Base /\ LogInv)'
  BY BaseStep, LogInvStep DEF Base
<1>2. QED
  BY <1>1, BaseInit, LogInvInit, PTL DEF Spec

(* The writes of a page land in the order it took them, whatever dies, is  *)
(* retried, grouped anew or adopted in between: for any pages, nodes and   *)
(* bounds, with answers of any age.                                        *)
THEOREM OrderCorrect == Spec => []InOrder
<1>1. Base /\ LogInv => InOrder
  <2> SUFFICES ASSUME Base, LogInv, NEW p \in Pages, NEW i \in Arrivals, NEW k \in Arrivals,
                      i < k, <<p, k>> \in reg[NodeOf[p]].root, page[p].told[i] = "Queued"
               PROVE  <<p, i>> \in reg[NodeOf[p]].root
    BY DEF InOrder
  <2>1. Kept(reg[NodeOf[p]])
    BY GoodPage DEF LogInv, Base
  <2>2. i \in 1 .. (k - 1)
    BY WritesAssumption DEF Arrivals
  <2>3. QED
    BY <2>1, <2>2 DEF Kept, Ordered
<1>2. QED
  BY <1>1, LogBase, PTL

----------------------------------------------------------------------------
(* One node: its Register holds what its signer signed, one head on the    *)
(* other.                                                                  *)

ChainInv ==
  \A n \in Nodes :
    /\ held[n] \subseteq Trusted(n)
    /\ \A a, b \in Trusted(n) : a.seq <= b.seq => a.root \subseteq b.root
    /\ \A a, b \in Trusted(n) : a.seq = b.seq => a = b

LEMMA TrustedBelow ==
  ASSUME Base, NEW n \in Nodes, NEW a \in Trusted(n)
  PROVE  a \in Head /\ a.seq \in Nat /\ a.seq <= Top(n) /\ (a \in sigs[n] => a.seq = a.prev.seq + 1)
<1>1. rec[n].seq <= Top(n) /\ Top(n) \in Nat /\ rec[n].seq \in Nat
  BY TopIs, TypeInvPages DEF Base, Head
<1>2. CASE a = NoHead
  BY <1>1, <1>2, Constants, TypeInvPages DEF NoHead, Base, SoundInv
<1>3. CASE a \in sigs[n]
  <2>1. a \in Head /\ a.seq = a.prev.seq + 1 /\ a.prev.seq < rec[n].seq
    BY <1>3, TypeInvPages DEF Base, SoundInv, SignerInv, RecordLeads
  <2>2. a.seq \in Nat /\ a.prev.seq \in Nat
    BY <2>1 DEF Head
  <2>3. QED
    BY <1>1, <2>1, <2>2
<1>4. QED
  BY <1>2, <1>3 DEF Trusted

LEMMA ChainInvStep ==
  ASSUME \A m, n \in Nodes : m = n
  PROVE  Base /\ LogInv /\ ChainInv /\ Base' /\ [Next]_vars => ChainInv'
<1> SUFFICES ASSUME Base, LogInv, ChainInv, Base', [Next]_vars, NEW n \in Nodes
             PROVE  /\ held'[n] \subseteq Trusted(n)'
                    /\ \A a, b \in Trusted(n)' : a.seq <= b.seq => a.root \subseteq b.root
                    /\ \A a, b \in Trusted(n)' : a.seq = b.seq => a = b
  BY DEF ChainInv
<1>1. Trusted(n) \subseteq Trusted(n)' /\ Top(n) \in Nat
  BY Growing DEF Base
<1>2. held'[n] \subseteq Trusted(n)'
  <2>1. \A h \in held'[n] : h \in sigs[n] \/ h \in held[n]
    BY HeadsNext
  <2>2. QED
    BY <1>1, <2>1 DEF ChainInv, Trusted
<1>3. ASSUME NEW h \in Trusted(n)', h \notin Trusted(n)
      PROVE  /\ h \in sigs'[n] /\ h.seq = Top(n) + 1
             /\ \E g \in Trusted(n) : h.prev = PairOf(g) /\ g.seq = Top(n) /\ g.root \subseteq h.root
  <2>1. h \in sigs'[n] /\ h \in asked[n] /\ h.prev.seq = Top(n)
    BY <1>3, HeadsNext DEF Trusted
  <2>2. Grown(h, n)
    BY <1>1, <2>1 DEF LogInv
  <2>3. PICK g \in held[n] : h.prev = PairOf(g)
    BY <2>2 DEF Grown, Known
  <2>4. h.seq = Top(n) + 1
    BY <2>1 DEF Base, SoundInv
  <2>5. QED
    BY <2>1, <2>2, <2>3, <2>4 DEF Grown, PairOf, ChainInv
<1>4. ASSUME NEW a \in Trusted(n)', NEW b \in Trusted(n)', a.seq <= b.seq
      PROVE  a.root \subseteq b.root
  <2>1. \A x \in Trusted(n) : x.seq \in Nat /\ x.seq <= Top(n)
    BY TrustedBelow
  <2>2. CASE a \in Trusted(n) /\ b \in Trusted(n)
    BY <1>4, <2>2 DEF ChainInv
  <2>3. CASE a \in Trusted(n) /\ b \notin Trusted(n)
    <3>1. PICK g \in Trusted(n) : g.seq = Top(n) /\ g.root \subseteq b.root
      BY <1>3, <2>3
    <3>2. a.root \subseteq g.root
      BY <2>1, <2>3, <3>1 DEF ChainInv
    <3>3. QED
      BY <3>1, <3>2
  <2>4. CASE a \notin Trusted(n) /\ b \in Trusted(n)
    <3>1. a.seq = Top(n) + 1 /\ b.seq <= Top(n) /\ b.seq \in Nat
      BY <1>3, <2>1, <2>4
    <3>2. QED
      BY <1>1, <1>4, <3>1
  <2>5. CASE a \notin Trusted(n) /\ b \notin Trusted(n)
    <3>1. PICK g \in Trusted(n) : a.prev = PairOf(g) /\ g.seq = Top(n)
      BY <1>3, <2>5
    <3>2. PICK k \in Trusted(n) : b.prev = PairOf(k) /\ k.seq = Top(n)
      BY <1>3, <2>5
    <3>3. a.prev = b.prev
      BY <3>1, <3>2 DEF ChainInv
    <3>4. a = b
      BY <1>3, <2>5, <3>3 DEF Base, SignerInv, OneSignaturePerPrev
    <3>5. QED
      BY <3>4
  <2>6. QED
    BY <2>2, <2>3, <2>4, <2>5
<1>5. ASSUME NEW a \in Trusted(n)', NEW b \in Trusted(n)', a.seq = b.seq
      PROVE  a = b
  <2>1. \A x \in Trusted(n) : x.seq \in Nat /\ x.seq <= Top(n)
    BY TrustedBelow
  <2>2. CASE a \in Trusted(n) /\ b \in Trusted(n)
    BY <1>5, <2>2 DEF ChainInv
  <2>3. CASE a \in Trusted(n) <=> b \notin Trusted(n)
    BY <1>1, <1>3, <1>5, <2>1, <2>3
  <2>4. CASE a \notin Trusted(n) /\ b \notin Trusted(n)
    <3>1. PICK g \in Trusted(n) : a.prev = PairOf(g) /\ g.seq = Top(n)
      BY <1>3, <2>4
    <3>2. PICK k \in Trusted(n) : b.prev = PairOf(k) /\ k.seq = Top(n)
      BY <1>3, <2>4
    <3>3. a.prev = b.prev
      BY <3>1, <3>2 DEF ChainInv
    <3>4. QED
      BY <1>3, <2>4, <3>3 DEF Base, SignerInv, OneSignaturePerPrev
  <2>5. QED
    BY <2>2, <2>3, <2>4
<1>6. QED
  BY <1>2, <1>4, <1>5

LEMMA ChainInvInit == Init => ChainInv
BY DEF Init, ChainInv, Trusted

(* With one node, a write told Published is in the Register, and stays     *)
(* there: for any pages and bounds, with answers of any age.               *)
THEOREM DurableCorrect ==
  ASSUME NEW CONSTANT n, Nodes = {n}
  PROVE  Spec => []PublishedIsDurable
<1>1. Base /\ LogInv /\ ChainInv => PublishedIsDurable
  <2> SUFFICES ASSUME Base, LogInv, ChainInv, NEW p \in Pages, NEW i \in Arrivals,
                      page[p].told[i] = "Published"
               PROVE  <<p, i>> \in reg[NodeOf[p]].root
    BY DEF PublishedIsDurable
  <2> DEFINE m == NodeOf[p]
  <2>1. PICK h \in held[m] : <<p, i>> \in h.root
    BY DEF LogInv
  <2>2. m \in Nodes /\ reg[m] \in held[m] /\ h.seq <= reg[m].seq
    BY GoodPage DEF Base, GroundInv
  <2>3. h.root \subseteq reg[m].root
    BY <2>1, <2>2 DEF ChainInv
  <2>4. QED
    BY <2>1, <2>3
<1>2. Base /\ LogInv /\ ChainInv /\ [Next]_vars => (Base /\ LogInv /\ ChainInv)'
  <2>1. \A m, k \in Nodes : m = k
    OBVIOUS
  <2>2. Base /\ LogInv /\ ChainInv /\ Base' /\ [Next]_vars => ChainInv'
    BY <2>1, ChainInvStep
  <2>3. QED
    BY <2>2, BaseStep, LogInvStep DEF Base
<1>3. QED
  BY <1>1, <1>2, BaseInit, LogInvInit, ChainInvInit, PTL DEF Spec
=============================================================================
