-------------------------- MODULE PageHead_proofs --------------------------
(***************************************************************************)
(* What every transition of a page (PageHead) preserves, for any page      *)
(* state: its type and LaneOK, where its knowledge comes from (Grounded),  *)
(* and then which heads it asks the signer for, how its commit ends and    *)
(* what its writes are told, and that a landing never asks for more than   *)
(* the truth shows.                                                        *)
(***************************************************************************)
EXTENDS PageHead, WellFoundedInduction, NaturalsInduction, TLAPS

OK(s) == s \in PageState /\ LaneOK(s)

USE DEF Pair, Roots

----------------------------------------------------------------------------
LEMMA Constants ==
  /\ Genesis \in Pair /\ NoThrough \in [Pages -> Entry] /\ NoHead \in Head
  /\ NoAnswer \in Answer /\ IdleLife \in Life /\ NoCommit \in Commit
BY DEF Genesis, NoEntry, Entry, NoThrough, NoHead, Head, NoAnswer, Answer, AnswerKinds, IdleLife, Life,
       Stages, Owed, NoCommit, Commit

LEMMA PairOfType ==
  ASSUME NEW h \in Head
  PROVE  PairOf(h) \in Pair
BY DEF PairOf, Head

LEMMA InitPageOK == OK(InitPage)
<1>1. InitPage \in PageState
  BY Constants DEF InitPage, PageState, Fates
<1>2. LaneOK(InitPage)
  BY DEF InitPage, LaneOK, Committing, Owes, NoCommit, IdleLife
<1>3. QED
  BY <1>1, <1>2 DEF OK

(* What leaves the commit, the published head and the life's owed head     *)
(* alone keeps OK.                                                         *)
LEMMA SameLane ==
  ASSUME NEW s, OK(s), NEW t \in PageState,
         t.commit = s.commit, t.pub = s.pub,
         \/ t.life.st = "Idle"
         \/ s.life.st # "Idle" /\ t.life.owed = s.life.owed
  PROVE  OK(t)
BY DEF OK, LaneOK, Committing, Owes, OwedOf

LEMMA ReadOK ==
  ASSUME NEW s, OK(s), NEW w \in Waits
  PROVE  OK(Read(s, w))
<1>1. Read(s, w) \in PageState
  BY DEF OK, Read, PageState
<1>2. QED
  BY <1>1, SameLane DEF OK, Read, PageState

LEMMA UpdateOK ==
  ASSUME NEW s, OK(s), NEW h \in Head
  PROVE  OK(Update(s, h))
<1>1. Update(s, h) \in PageState
  BY DEF OK, Update, PageState
<1>2. QED
  BY <1>1, SameLane DEF OK, Update, PageState

LEMMA EndWaitsOK ==
  ASSUME NEW s, OK(s)
  PROVE  OK(EndWaits(s)) /\ EndWaits(s).life = s.life
<1>1. EndWaits(s) \in PageState /\ EndWaits(s).life = s.life
  BY Constants DEF OK, EndWaits, PageState
<1>2. QED
  BY <1>1, SameLane DEF OK, EndWaits, PageState

LEMMA IdleOK ==
  ASSUME NEW s, OK(s)
  PROVE  OK(Idle(s)) /\ ~Owes(Idle(s))
<1>1. Idle(s) \in PageState
  BY Constants DEF OK, Idle, PageState
<1>2. QED
  BY <1>1, SameLane DEF OK, Idle, PageState, Owes, IdleLife

LEMMA TellType ==
  ASSUME NEW s \in PageState, NEW ws, NEW f \in Fates
  PROVE  /\ Tell(s, ws, f) \in PageState
         /\ Tell(s, ws, f) = [s EXCEPT !.told = Tell(s, ws, f).told]
BY DEF Tell, PageState

----------------------------------------------------------------------------
(* The acts. *)

(* The list kept to its bound is a list of entries. *)
LEMMA EvictedType ==
  ASSUME NEW t \in [Pages -> Entry]
  PROVE  Evicted(t) \in [Pages -> Entry]
BY DEF Evicted, NoEntry, Entry

LEMMA LedgerOfType ==
  ASSUME NEW p \in Pages, NEW s \in PageState, NEW prev \in Pair
  PROVE  LedgerOf(p, s, prev) \in [Pages -> Entry]
<1> DEFINE copied == IF PairOf(s.lastHead) = prev THEN s.lastHead.through ELSE NoThrough
           own    == [copied EXCEPT ![p] = [seq |-> s.commit.through, last |-> prev.seq + 1]]
<1>1. s.lastHead.through \in [Pages -> Entry] /\ s.commit.through \in Nat
  BY DEF PageState, Head, Commit
<1>2. copied \in [Pages -> Entry]
  BY <1>1, Constants
<1>3. [seq |-> s.commit.through, last |-> prev.seq + 1] \in Entry
  BY <1>1 DEF Entry
<1>4. own \in [Pages -> Entry]
  BY <1>2, <1>3
<1>5. Evicted(own) \in [Pages -> Entry]
  BY <1>4, EvictedType
<1>6. QED
  BY <1>2, <1>5, Zenon DEF LedgerOf

LEMMA AskSignOK ==
  ASSUME NEW p \in Pages, NEW s, OK(s), NEW prev \in Pair, NEW root \in Roots
  PROVE  OK(AskSign(p, s, prev, root))
<1>1. LedgerOf(p, s, prev) \in [Pages -> Entry]
  BY LedgerOfType DEF OK
<1> DEFINE h == [seq |-> prev.seq + 1, root |-> root, prev |-> prev,
                 through |-> LedgerOf(p, s, prev)]
<1>2. h \in Head
  BY <1>1 DEF Head
<1>3. AskSign(p, s, prev, root) = [s EXCEPT !.sign = h, !.ans = NoAnswer]
  BY DEF AskSign
<1> HIDE DEF h
<1>4. AskSign(p, s, prev, root) \in PageState
  BY <1>2, <1>3, Constants DEF OK, PageState
<1>5. QED
  BY <1>3, <1>4, SameLane DEF OK, PageState

LEMMA SignOwedOK ==
  ASSUME NEW p \in Pages, NEW s, OK(s), Owes(s)
  PROVE  OK(SignOwed(p, s))
<1>1. /\ s.life.owed.seq - 1 \in Nat
      /\ s.life.owed.root \in Roots /\ s.life.owed.base \in Roots
  BY DEF OK, LaneOK, Committing, Owes, OwedOf, PageState, Life, Owed
<1>2. [seq |-> s.life.owed.seq - 1, root |-> s.life.owed.base] \in Pair
  BY <1>1
<1>3. QED
  BY <1>1, <1>2, AskSignOK DEF SignOwed

LEMMA OweOK ==
  ASSUME NEW p \in Pages, NEW s, OK(s), s.commit.stage = "Heading"
  PROVE  OK(Owe(p, s))
<1> DEFINE owing == [IdleLife EXCEPT !.st = "Signing", !.owed = OwedOf(s.commit)]
           t == [EndWaits(s) EXCEPT !.life = owing]
<1>1. owing \in Life /\ owing.st = "Signing" /\ owing.owed = OwedOf(s.commit)
  BY DEF OK, PageState, Commit, Life, Stages, Owed, OwedOf, IdleLife, Genesis, NoHead, Head, NoThrough, NoEntry, Entry
<1>2. OK(EndWaits(s)) /\ EndWaits(s).commit = s.commit /\ EndWaits(s).pub = s.pub
  BY EndWaitsOK DEF EndWaits, OK, PageState
<1> HIDE DEF owing
<1>3. /\ t \in PageState /\ t.life = owing
      /\ t.commit = s.commit /\ t.pub = s.pub
  BY <1>1, <1>2 DEF OK, PageState
<1> HIDE DEF t
<1>4. OK(t) /\ Owes(t)
  BY <1>1, <1>3 DEF OK, LaneOK, Owes, Committing
<1>5. Owe(p, s) = s \/ Owe(p, s) = SignOwed(p, t)
  BY DEF Owe, t, owing
<1>6. QED
  BY <1>4, <1>5, SignOwedOK

LEMMA HeadNotLandedOK ==
  ASSUME NEW p \in Pages, NEW s, OK(s)
  PROVE  OK(HeadNotLanded(p, s))
BY OweOK DEF HeadNotLanded

(* Once the lane is idle, an owed head is dropped iff it is dead. *)
LEMMA DropDeadHeadOK ==
  ASSUME NEW s \in PageState, LaneOK(s) \/ ~Committing(s),
         Owes(s) /\ ~Committing(s) => s.life.owed.seq <= s.pub.seq
                 \/ [seq |-> s.life.owed.seq - 1, root |-> s.life.owed.base] # s.pub
  PROVE  OK(DropDeadHead(s))
<1>1. CASE LaneOK(s)
  BY <1>1, EndWaitsOK, IdleOK DEF DropDeadHead, OK
<1>2. CASE ~Committing(s) /\ ~Owes(s)
  BY <1>2 DEF DropDeadHead, OK, LaneOK, Committing, Owes
<1>3. CASE ~Committing(s) /\ Owes(s)
  <2>1. DropDeadHead(s) = Idle(EndWaits(s))
    BY <1>3 DEF DropDeadHead
  <2>2. EndWaits(s) \in PageState /\ EndWaits(s).commit = s.commit
    BY Constants DEF EndWaits, PageState
  <2>3. /\ Idle(EndWaits(s)) \in PageState
        /\ Idle(EndWaits(s)).commit = s.commit /\ Idle(EndWaits(s)).life = IdleLife
    BY <2>2, Constants DEF Idle, PageState
  <2>4. QED
    BY <1>3, <2>1, <2>3 DEF OK, LaneOK, Committing, Owes, IdleLife
<1>4. QED
  BY <1>1, <1>2, <1>3

----------------------------------------------------------------------------
(* The ends of a commit. *)

LEMMA PublishType ==
  ASSUME NEW s \in PageState
  PROVE  /\ Publish(s) \in PageState /\ ~Committing(Publish(s))
         /\ Publish(s).pub = [seq |-> s.commit.seq, root |-> s.commit.root]
         /\ Publish(s).life = s.life
<1> DEFINE t == Tell(s, s.commit.cut, "Published")
           pub == [seq |-> s.commit.seq, root |-> s.commit.root]
<1>1. t \in PageState /\ t.life = s.life
  BY TellType DEF Tell, PageState, Fates
<1>2. pub \in Pair
  BY DEF PageState, Commit
<1>3. Publish(s) = [t EXCEPT !.pub = pub, !.commit = NoCommit]
  BY DEF Publish
<1> HIDE DEF t, pub
<1>4. /\ Publish(s) \in PageState /\ Publish(s).pub = pub
      /\ Publish(s).commit = NoCommit /\ Publish(s).life = s.life
  BY <1>1, <1>2, <1>3, Constants DEF PageState
<1>5. QED
  BY <1>4 DEF Committing, NoCommit, pub

LEMMA EndFailedOK ==
  ASSUME NEW s, OK(s), ~Owes(s)
  PROVE  OK(EndFailed(s))
<1> DEFINE t == Tell(s, s.commit.cut, "Failed")
<1>1. t \in PageState /\ t.life = s.life
  BY TellType DEF Tell, PageState, Fates, OK
<1>2. EndFailed(s) = [t EXCEPT !.commit = NoCommit]
  BY DEF EndFailed
<1> HIDE DEF t
<1>3. EndFailed(s) \in PageState /\ EndFailed(s).life = s.life /\ EndFailed(s).commit = NoCommit
  BY <1>1, <1>2, Constants DEF PageState
<1>4. QED
  BY <1>3 DEF OK, LaneOK, Committing, Owes, NoCommit

LEMMA EndDeadType ==
  ASSUME NEW p \in Pages, NEW s \in PageState, NEW pair \in Pair
  PROVE  /\ EndDead(p, s, pair) \in PageState /\ ~Committing(EndDead(p, s, pair))
         /\ EndDead(p, s, pair).pub = pair /\ EndDead(p, s, pair).life = s.life
<1> DEFINE headed == s.commit.stage = "Heading"
           spent(i) == s.tries[i] + (IF headed THEN 1 ELSE 0)
           lost == {i \in s.commit.cut : <<p, i>> \in Forced \/ spent(i) > MaxTries}
           tries == [i \in Arrivals |-> IF i \in s.commit.cut THEN spent(i) ELSE s.tries[i]]
           published == Tell(s, s.commit.cut, "Published")
           unknown == Tell(s, s.commit.cut, "Unknown")
           again == [Tell(s, lost, "Lost") EXCEPT !.tries = tries]
<1>1. /\ published \in PageState /\ published.life = s.life
      /\ unknown \in PageState /\ unknown.life = s.life
  BY TellType DEF Tell, PageState, Fates
<1>2. \A i \in Arrivals : s.tries[i] \in Nat /\ spent(i) \in Nat
  BY DEF PageState
<1>3. tries \in [Arrivals -> Nat]
  BY <1>2
<1>4. Tell(s, lost, "Lost") \in PageState /\ Tell(s, lost, "Lost").life = s.life
  BY TellType DEF Tell, PageState, Fates
<1>5. Tell(s, lost, "Lost").tries = s.tries
  BY DEF Tell, PageState
<1>6. PICK after \in {published, unknown, again} :
        EndDead(p, s, pair) = [after EXCEPT !.pub = pair, !.commit = NoCommit]
  BY <1>5, Zenon DEF EndDead
<1> HIDE DEF tries, published, unknown, lost
<1>7. again \in PageState /\ again.life = s.life
  BY <1>3, <1>4 DEF PageState
<1> HIDE DEF again
<1>8. after \in PageState /\ after.life = s.life
  BY <1>1, <1>7
<1>9. /\ EndDead(p, s, pair) \in PageState /\ EndDead(p, s, pair).pub = pair
      /\ EndDead(p, s, pair).commit = NoCommit /\ EndDead(p, s, pair).life = s.life
  BY <1>6, <1>8, Constants DEF PageState
<1>10. QED
  BY <1>9 DEF Committing, NoCommit

----------------------------------------------------------------------------
(* The engine's events, each with its consequence on the owed head. *)

LEMMA EngineConflictOK ==
  ASSUME NEW p \in Pages, NEW s, OK(s), NEW pair \in Pair
  PROVE  OK(HeadConflict(p, s, pair))
<1> DEFINE displaced == pair.seq = s.pub.seq /\ pair # s.pub
           t == EngineConflict(p, s, pair)
<1>1. CASE Committing(s) /\ pair.seq < s.commit.seq /\ ~displaced
  <2>1. t = HeadNotLanded(p, s)
    BY <1>1 DEF EngineConflict
  <2>2. OK(t)
    BY <2>1, HeadNotLandedOK
  <2>3. QED
    BY <2>2, DropDeadHeadOK DEF OK, HeadConflict, LaneOK, Committing, Owes
<1>2. CASE Committing(s) /\ ~(pair.seq < s.commit.seq /\ ~displaced)
  <2>1. t = EndDead(p, s, pair)
    BY <1>2 DEF EngineConflict
  <2>2. t \in PageState /\ ~Committing(t) /\ t.pub = pair /\ t.life = s.life
    BY <2>1, EndDeadType DEF OK
  <2>3. Owes(t) => t.life.owed = OwedOf(s.commit)
    BY <2>2 DEF OK, LaneOK, Owes
  <2>4. /\ s.commit.seq = s.pub.seq + 1 /\ s.commit.base = s.pub.root
        /\ s.commit.seq \in Nat /\ s.pub \in Pair
    BY <1>2 DEF OK, LaneOK, PageState, Commit
  <2>5. Owes(t) => t.life.owed.seq <= t.pub.seq
          \/ [seq |-> t.life.owed.seq - 1, root |-> t.life.owed.base] # t.pub
    BY <1>2, <2>2, <2>3, <2>4 DEF OwedOf
  <2>6. QED
    BY <2>2, <2>5, DropDeadHeadOK DEF HeadConflict
<1>3. CASE ~Committing(s)
  <2>1. t = [s EXCEPT !.pub = pair] /\ ~Owes(s)
    BY <1>3 DEF EngineConflict, OK, LaneOK, Committing
  <2>2. t \in PageState /\ ~Committing(t) /\ ~Owes(t)
    BY <1>3, <2>1 DEF OK, PageState, Committing, Owes
  <2>3. QED
    BY <2>2, DropDeadHeadOK DEF HeadConflict
<1>4. QED
  BY <1>1, <1>2, <1>3

(* A commit that is Published leaves its own owed head dead. *)
LEMMA PublishOK ==
  ASSUME NEW s, OK(s), Committing(s)
  PROVE  OK(DropDeadHead(Publish(s)))
<1> DEFINE t == Publish(s)
<1>1. /\ t \in PageState /\ ~Committing(t) /\ t.life = s.life
      /\ t.pub = [seq |-> s.commit.seq, root |-> s.commit.root]
  BY PublishType, Zenon DEF OK
<1>2. t.pub.seq = s.commit.seq /\ s.commit.seq \in Nat
  BY <1>1 DEF OK, PageState, Commit
<1>3. Owes(t) => t.life.owed.seq = s.commit.seq
  BY <1>1 DEF OK, LaneOK, Owes, OwedOf
<1> HIDE DEF t
<1>4. Owes(t) => t.life.owed.seq <= t.pub.seq
  BY <1>2, <1>3
<1>5. OK(DropDeadHead(t))
  BY <1>1, <1>4, DropDeadHeadOK
<1>6. QED
  BY <1>5 DEF t

LEMMA DropOK ==
  ASSUME NEW s, OK(s)
  PROVE  OK(DropDeadHead(s))
BY DropDeadHeadOK DEF OK, LaneOK, Owes, Committing

LEMMA HeadConfirmedOK ==
  ASSUME NEW s, OK(s), NEW seq
  PROVE  OK(HeadConfirmed(s, seq))
BY PublishOK, DropOK DEF HeadConfirmed

LEMMA HeadRefusedOK ==
  ASSUME NEW s, OK(s), ~Owes(s), NEW seq
  PROVE  OK(HeadRefused(s, seq))
<1>1. OK(EndFailed(s))
  BY EndFailedOK
<1>2. QED
  BY <1>1, DropOK DEF HeadRefused

LEMMA HasOK ==
  ASSUME NEW s, OK(s)
  PROVE  OK([s EXCEPT !.has = TRUE])
<1>1. [s EXCEPT !.has = TRUE] \in PageState
  BY DEF OK, PageState
<1>2. QED
  BY <1>1, SameLane DEF OK, PageState

LEMMA HeadReadOK ==
  ASSUME NEW p \in Pages, NEW s, OK(s), NEW pair \in Pair
  PROVE  OK(HeadRead(p, s, pair))
<1> DEFINE c == s.commit
           moved == IF ~Committing(s) THEN [s EXCEPT !.pub = pair]
                    ELSE IF pair.seq = c.seq /\ pair.root = c.root THEN Publish(s)
                    ELSE IF pair.seq < c.seq THEN HeadNotLanded(p, s)
                    ELSE EngineConflict(p, s, pair)
<1>1. OK(DropDeadHead(moved))
  <2>1. CASE ~Committing(s)
    BY <2>1, EngineConflictOK DEF HeadConflict, EngineConflict
  <2>2. CASE Committing(s) /\ pair.seq = c.seq /\ pair.root = c.root
    BY <2>2, PublishOK
  <2>3. CASE Committing(s) /\ ~(pair.seq = c.seq /\ pair.root = c.root) /\ pair.seq < c.seq
    BY <2>3, HeadNotLandedOK, DropOK
  <2>4. CASE Committing(s) /\ ~(pair.seq = c.seq /\ pair.root = c.root) /\ ~(pair.seq < c.seq)
    BY <2>4, EngineConflictOK DEF HeadConflict
  <2>5. QED
    BY <2>1, <2>2, <2>3, <2>4
<1>2. HeadRead(p, s, pair) = [DropDeadHead(moved) EXCEPT !.has = TRUE]
  BY DEF HeadRead
<1>3. QED
  BY <1>1, <1>2, HasOK

LEMMA HeadMissingOK ==
  ASSUME NEW p \in Pages, NEW s, OK(s)
  PROVE  OK(HeadMissing(p, s))
<1> DEFINE moved == IF Committing(s) THEN HeadNotLanded(p, s) ELSE [s EXCEPT !.pub = Genesis]
<1>1. OK(DropDeadHead(moved))
  <2>1. CASE Committing(s)
    BY <2>1, HeadNotLandedOK, DropOK
  <2>2. CASE ~Committing(s)
    BY <2>2, EngineConflictOK, Constants DEF HeadConflict, EngineConflict
  <2>3. QED
    BY <2>1, <2>2
<1>2. HeadMissing(p, s) = [DropDeadHead(moved) EXCEPT !.has = TRUE]
  BY DEF HeadMissing
<1>3. QED
  BY <1>1, <1>2, HasOK

----------------------------------------------------------------------------
(* The head's table, by event. *)

LEMMA JudgeType ==
  ASSUME NEW h, NEW mine \in SUBSET Head
  PROVE  Judge(h, mine) \in Judged
<1>1. Winning(h, mine) \subseteq Head
  BY DEF Winning
<1>2. Winning(h, mine) # {} => (CHOOSE m \in Winning(h, mine) : TRUE) \in Head
  BY <1>1
<1>3. QED
  BY <1>2, Constants DEF Judge, Judged, Verdicts

LEMMA RefuseOK ==
  ASSUME NEW s, OK(s)
  PROVE  OK(Refuse(s))
BY EndWaitsOK, IdleOK, HeadRefusedOK DEF Refuse

LEMMA HeadConflictIdleOK ==
  ASSUME NEW p \in Pages, NEW s, OK(s), NEW h \in Head
  PROVE  /\ OK(AdoptForeign(p, s, h))
         /\ OK(HeadConflict(p, Idle(s), PairOf(h)))
<1>1. OK(Idle(s)) /\ OK(Idle(EndWaits(s)))
  BY EndWaitsOK, IdleOK
<1>2. PairOf(h) \in Pair
  BY PairOfType
<1>3. QED
  BY <1>1, <1>2, EngineConflictOK DEF AdoptForeign

(* A life that keeps the head it owes. *)
LEMMA LifeOK ==
  ASSUME NEW s, OK(s), Owes(s), NEW l \in Life, l.owed = s.life.owed
  PROVE  OK([s EXCEPT !.life = l])
<1>1. [s EXCEPT !.life = l] \in PageState
  BY DEF OK, PageState
<1>2. QED
  BY <1>1, SameLane DEF OK, PageState, Owes

LEMMA LivesType ==
  ASSUME NEW o \in Owed, NEW st \in Stages, NEW named \in Pair, NEW timer \in BOOLEAN,
         NEW asks \in BOOLEAN, NEW from \in Pair, NEW h \in Head
  PROVE  /\ [IdleLife EXCEPT !.st = st, !.owed = o] \in Life
         /\ [IdleLife EXCEPT !.st = st, !.owed = o, !.record = h] \in Life
         /\ [IdleLife EXCEPT !.st = st, !.owed = o, !.named = named] \in Life
         /\ [IdleLife EXCEPT !.st = st, !.owed = o, !.named = named, !.timer = timer] \in Life
         /\ [IdleLife EXCEPT !.st = st, !.owed = o, !.named = named, !.asks = asks,
                             !.from = from] \in Life
BY Constants DEF Life, IdleLife

LEMMA VerifyingType ==
  ASSUME NEW o \in Owed, NEW named \in Pair
  PROVE  /\ [IdleLife EXCEPT !.st = "Verifying", !.owed = o, !.named = named,
                             !.timer = TRUE] \in Life
         /\ [IdleLife EXCEPT !.st = "Verifying", !.owed = o, !.named = named,
                             !.timer = TRUE].owed = o
BY Constants DEF Life, IdleLife, Stages

LEMMA MineOK ==
  ASSUME NEW s, OK(s), NEW h \in Head
  PROVE  OK([s EXCEPT !.mine = Noted(h, @), !.upd = h])
<1>1. Noted(h, s.mine) \in SUBSET Head
  BY DEF Noted, OK, PageState
<1>2. [s EXCEPT !.mine = Noted(h, @), !.upd = h] \in PageState
  BY <1>1 DEF OK, PageState
<1>3. QED
  BY <1>2, SameLane DEF OK, PageState

LEMMA SignerOnCommitOK ==
  ASSUME NEW p \in Pages, NEW s, OK(s), Owes(s), NEW a \in Answer
  PROVE  OK(SignerOnCommit(p, s, a))
<1> DEFINE o == s.life.owed
<1>1. o \in Owed /\ a.head \in Head /\ a.current \in Pair
  BY DEF OK, PageState, Life, Answer
<1>2. CASE a.kind \in {"Signed", "AlreadySigned"}
  <2> DEFINE t == [s EXCEPT !.mine = Noted(a.head, @), !.upd = a.head]
             l == [IdleLife EXCEPT !.st = "Written", !.owed = o, !.record = a.head]
  <2>0. "Written" \in Stages
    BY DEF Stages
  <2>1. OK(t) /\ Owes(t) /\ t.life = s.life
    BY <1>1, MineOK DEF OK, PageState, Owes
  <2>2. l \in Life /\ l.owed = o
    BY <1>1, <2>0, Constants DEF IdleLife, Life
  <2>3. SignerOnCommit(p, s, a) = [t EXCEPT !.life = l]
    BY <1>2 DEF SignerOnCommit, OK, PageState
  <2> HIDE DEF t, l
  <2>4. QED
    BY <2>1, <2>2, <2>3, LifeOK
<1>3. CASE a.kind = "NotNext"
  <2> DEFINE l == [IdleLife EXCEPT !.st = "Verifying", !.owed = o, !.named = a.current]
  <2>1. l \in Life /\ l.owed = o
    BY <1>1, LivesType, Constants DEF Stages, IdleLife
  <2>2. OK([s EXCEPT !.life = l])
    BY <2>1, LifeOK
  <2>3. SignerOnCommit(p, s, a) = Read([s EXCEPT !.life = l], "Verify")
    BY <1>3 DEF SignerOnCommit, VerifyNamed
  <2>4. QED
    BY <2>2, <2>3, ReadOK DEF Waits
<1>4. CASE a.kind \in {"Retry", "HeadUnknown"}
  <2> DEFINE t == [s EXCEPT !.reads = IF a.kind = "HeadUnknown" THEN @ \cup {"Warm"} ELSE @]
             l == [IdleLife EXCEPT !.st = "BackingOff", !.owed = o]
  <2>1. t \in PageState /\ t.commit = s.commit /\ t.pub = s.pub /\ t.life = s.life
    BY DEF OK, PageState, Waits
  <2>2. OK(t) /\ Owes(t)
    BY <2>1, SameLane DEF Owes
  <2>3. l \in Life /\ l.owed = o
    BY <1>1, LivesType, Constants DEF Stages, IdleLife
  <2>4. SignerOnCommit(p, s, a) = [t EXCEPT !.life = l]
    BY <1>4 DEF SignerOnCommit, OK, PageState
  <2> HIDE DEF t, l
  <2>5. QED
    BY <2>1, <2>2, <2>3, <2>4, LifeOK
<1>5. CASE a.kind \in {"None", "Final"}
  BY <1>5, RefuseOK DEF SignerOnCommit
<1>6. QED
  BY <1>2, <1>3, <1>4, <1>5 DEF Answer, AnswerKinds

LEMMA SignerOnLandingOK ==
  ASSUME NEW p \in Pages, NEW s, OK(s), Owes(s), NEW a \in Answer
  PROVE  OK(SignerOnLanding(p, s, a))
<1> DEFINE o == s.life.owed
           l(named) == [IdleLife EXCEPT !.st = "Verifying", !.owed = o, !.named = named,
                                        !.timer = TRUE]
           later == [seq |-> IF s.life.named.seq > a.current.seq
                               THEN s.life.named.seq ELSE a.current.seq,
                     root |-> a.current.root]
<1>1. /\ o \in Owed /\ a.head \in Head /\ a.current \in Pair
      /\ s.life.named \in Pair
  BY DEF OK, PageState, Life, Answer
<1>2. later \in Pair
  BY <1>1
<1>3. ASSUME NEW named \in Pair
      PROVE  OK([s EXCEPT !.life = l(named)])
  <2>1. l(named) \in Life /\ l(named).owed = o
    BY <1>1, VerifyingType
  <2> HIDE DEF l
  <2>2. QED
    BY <2>1, LifeOK
<1>4. CASE a.kind \in {"Signed", "AlreadySigned"}
  BY <1>1, <1>4, MineOK DEF SignerOnLanding
<1>5. CASE a.kind = "NotNext"
  <2>1. SignerOnLanding(p, s, a) = [s EXCEPT !.life = l(later)]
    BY <1>5 DEF SignerOnLanding
  <2>2. QED
    BY <1>2, <1>3, <2>1
<1>6. CASE a.kind \in {"Retry", "HeadUnknown"}
  <2>1. SignerOnLanding(p, s, a) = [s EXCEPT !.life = l(s.life.named)]
    BY <1>6 DEF SignerOnLanding
  <2>2. QED
    BY <1>1, <1>3, <2>1
<1>7. CASE a.kind \in {"None", "Final"}
  BY <1>7, RefuseOK DEF SignerOnLanding
<1>8. QED
  BY <1>4, <1>5, <1>6, <1>7 DEF Answer, AnswerKinds

LEMMA OnSignerOK ==
  ASSUME NEW p \in Pages, NEW s, OK(s)
  PROVE  OK(OnSigner(p, s))
<1> DEFINE heard == [s EXCEPT !.sign = NoHead, !.ans = NoAnswer]
<1>1. heard \in PageState /\ heard.commit = s.commit /\ heard.pub = s.pub /\ heard.life = s.life
  BY Constants DEF OK, PageState
<1>2. OK(heard) /\ s.ans \in Answer
  BY <1>1, SameLane DEF OK, PageState
<1>3. s.life.st \in {"Signing", "Landing"} => Owes(heard)
  BY <1>1 DEF Owes
<1>4. OnSigner(p, s) \in {heard, SignerOnCommit(p, heard, s.ans), SignerOnLanding(p, heard, s.ans)}
        /\ (OnSigner(p, s) = heard \/ s.life.st \in {"Signing", "Landing"})
  BY DEF OnSigner
<1> HIDE DEF heard
<1>5. QED
  BY <1>2, <1>3, <1>4, SignerOnCommitOK, SignerOnLandingOK

LEMMA OnUpdatedOK ==
  ASSUME NEW s, OK(s)
  PROVE  OK(OnUpdated(s))
<1>1. OK([s EXCEPT !.upd = NoHead])
  BY Constants, UpdateOK DEF Update
<1>2. QED
  BY <1>1, ReadOK DEF OnUpdated, Waits

LEMMA OnSignLostOK ==
  ASSUME NEW p \in Pages, NEW s, OK(s)
  PROVE  OK(OnSignLost(p, s))
<1> DEFINE lost == [s EXCEPT !.sign = NoHead, !.ans = NoAnswer]
<1>1. lost \in PageState /\ lost.commit = s.commit /\ lost.pub = s.pub /\ lost.life = s.life
  BY Constants DEF OK, PageState
<1>2. OK(lost) /\ s.life.from \in Pair /\ s.life.named.root \in Roots
  BY <1>1, SameLane DEF OK, PageState, Life
<1>3. \/ OnSignLost(p, s) = lost
      \/ Owes(lost) /\ OnSignLost(p, s) = SignOwed(p, lost)
      \/ OnSignLost(p, s) = AskSign(p, lost, s.life.from, s.life.named.root)
  BY <1>1 DEF OnSignLost, Owes
<1> HIDE DEF lost
<1>4. QED
  BY <1>2, <1>3, SignOwedOK, AskSignOK

(* A life in the same stage but for a counter, a timer or a stage that     *)
(* owes too.                                                               *)
LEMMA LifeFieldsOK ==
  ASSUME NEW s, OK(s), Owes(s), NEW n \in Nat
  PROVE  /\ OK([s EXCEPT !.life.st = "Signing"]) /\ Owes([s EXCEPT !.life.st = "Signing"])
         /\ OK([s EXCEPT !.life.timer = FALSE])
         /\ OK([s EXCEPT !.life.stale = n])
<1> DEFINE l1 == [s.life EXCEPT !.st = "Signing"]
           l2 == [s.life EXCEPT !.timer = FALSE]
           l3 == [s.life EXCEPT !.stale = n]
<1>1. s.life \in Life
  BY DEF OK, PageState
<1>2. /\ l1 \in Life /\ l1.owed = s.life.owed /\ l1.st = "Signing"
      /\ l2 \in Life /\ l2.owed = s.life.owed
      /\ l3 \in Life /\ l3.owed = s.life.owed
  BY <1>1 DEF Life, Stages
<1>3. /\ [s EXCEPT !.life.st = "Signing"] = [s EXCEPT !.life = l1]
      /\ [s EXCEPT !.life.timer = FALSE] = [s EXCEPT !.life = l2]
      /\ [s EXCEPT !.life.stale = n] = [s EXCEPT !.life = l3]
  BY DEF OK, PageState
<1>4. [s EXCEPT !.life = l1].life = l1
  BY DEF OK, PageState
<1> HIDE DEF l1, l2, l3
<1>5. QED
  BY <1>2, <1>3, <1>4, LifeOK DEF Owes

LEMMA OnDueOK ==
  ASSUME NEW p \in Pages, NEW s, OK(s)
  PROVE  OK(OnDue(p, s))
<1>1. CASE s.life.st = "BackingOff"
  BY <1>1, LifeFieldsOK, SignOwedOK DEF OnDue, Owes
<1>2. CASE s.life.st = "Verifying"
  BY <1>2, LifeFieldsOK, ReadOK DEF OnDue, Owes, Waits
<1>3. CASE s.life.st \notin {"BackingOff", "Verifying"}
  BY <1>3, ReadOK DEF OnDue, Waits
<1>4. QED
  BY <1>1, <1>2, <1>3

LEMMA StaleOK ==
  ASSUME NEW s, OK(s), Owes(s)
  PROVE  OK(Stale(s))
<1>1. s.life.stale + 1 \in Nat /\ s.life.record \in Head
  BY DEF OK, PageState, Life
<1>2. OK([s EXCEPT !.life.stale = 0]) /\ OK([s EXCEPT !.life.stale = s.life.stale + 1])
  BY <1>1, LifeFieldsOK
<1>3. Stale(s) \in {Update([s EXCEPT !.life.stale = 0], s.life.record),
                    [s EXCEPT !.life.stale = s.life.stale + 1]}
  BY DEF Stale
<1>4. QED
  BY <1>1, <1>2, <1>3, UpdateOK

LEMMA ReadBackOK ==
  ASSUME NEW p \in Pages, NEW s, OK(s), NEW h \in Head, NEW j
  PROVE  OK(ReadBack(p, s, h, j))
<1>1. s.life.record \in Head
  BY DEF OK, PageState, Life
<1>2. \/ ReadBack(p, s, h, j) = HeadConfirmed(s, h.seq)
      \/ ReadBack(p, s, h, j) = s
      \/ ReadBack(p, s, h, j) = Update(s, s.life.record)
      \/ ReadBack(p, s, h, j) = AdoptForeign(p, s, h)
      \/ Owes(s) /\ ReadBack(p, s, h, j) = Stale(s)
  BY DEF ReadBack, Owes
<1>3. QED
  BY <1>1, <1>2, HeadConfirmedOK, UpdateOK, HeadConflictIdleOK, StaleOK

LEMMA VerifyOK ==
  ASSUME NEW p \in Pages, NEW s, OK(s), NEW h \in Head, NEW j \in Judged
  PROVE  OK(Verify(p, s, h, j))
<1> DEFINE l == s.life
           land(asks, from) == [IdleLife EXCEPT !.st = "Landing", !.owed = l.owed,
                                  !.named = l.named, !.asks = asks, !.from = from]
           mineFrom == IF l.st = "Landing" THEN l.from ELSE Genesis
           mineAsks == l.st = "Landing" /\ l.asks
           mine == land(mineAsks, mineFrom)
           prev == LandFrom(s, h, j)
           again == [IdleLife EXCEPT !.st = "Verifying", !.owed = l.owed,
                                     !.named = l.named, !.timer = TRUE]
<1>1. /\ l \in Life /\ l.owed \in Owed /\ l.named \in Pair /\ l.named.root \in Roots
      /\ mineFrom \in Pair /\ mineAsks \in BOOLEAN /\ s.pub.root \in Roots /\ j.mine \in Head
  BY Constants DEF OK, PageState, Life, Judged
<1>2. prev \in Pair
  BY <1>1, PairOfType DEF LandFrom
<1>3. CASE ~IsVerifying(s)
  BY <1>3 DEF Verify
<1>4. CASE IsVerifying(s)
  <2>1. Owes(s)
    BY <1>4 DEF IsVerifying, Owes
  <2> HIDE DEF mineFrom, mineAsks, prev
  <2>2. /\ mine \in Life /\ mine.owed = l.owed
        /\ land(TRUE, prev) \in Life /\ land(TRUE, prev).owed = l.owed
        /\ again \in Life /\ again.owed = l.owed
    BY <1>1, <1>2, Constants DEF Life, IdleLife, Stages
  <2> HIDE DEF mine, again, l, land
  <2>3. /\ OK([s EXCEPT !.life = mine]) /\ OK([s EXCEPT !.life = land(TRUE, prev)])
        /\ OK([s EXCEPT !.life = again])
    BY <2>1, <2>2, LifeOK DEF l
  <2>4. Verify(p, s, h, j) \in
          {LandMine([s EXCEPT !.life = mine], j), AdoptForeign(p, s, h), Refuse(s),
           [s EXCEPT !.life = again],
           AskSign(p, [s EXCEPT !.life = land(TRUE, prev)], prev, l.named.root)}
    BY <1>4, Zenon DEF Verify, mine, again, l, land, prev, mineFrom, mineAsks
  <2>5. OK(LandMine([s EXCEPT !.life = mine], j))
    BY <1>1, <2>3, UpdateOK DEF LandMine
  <2>6. OK(AskSign(p, [s EXCEPT !.life = land(TRUE, prev)], prev, l.named.root))
    BY <1>1, <1>2, <2>3, AskSignOK
  <2>7. QED
    BY <2>3, <2>4, <2>5, <2>6, HeadConflictIdleOK, RefuseOK
<1>5. QED
  BY <1>3, <1>4

LEMMA HintOK ==
  ASSUME NEW p \in Pages, NEW s, OK(s), NEW h \in Head, NEW j \in Judged
  PROVE  OK(Hint(p, s, h, j))
<1>1. j.mine \in Head
  BY DEF Judged
<1>2. Hint(p, s, h, j) \in
        {s, ReadBack(p, s, h, j), LandMine(s, j), HeadConflict(p, Idle(s), PairOf(h)),
         HeadConflict(p, Idle(EndWaits(s)), PairOf(h))}
  BY DEF Hint
<1>3. QED
  BY <1>1, <1>2, ReadBackOK, UpdateOK, EndWaitsOK, HeadConflictIdleOK DEF LandMine

LEMMA RecoverOK ==
  ASSUME NEW p \in Pages, NEW s, OK(s), NEW h \in Head, NEW j
  PROVE  OK(Recover(p, s, h, j))
BY PairOfType, HeadMissingOK, ReadOK, HeadReadOK DEF Recover, Waits

LEMMA EndedOK ==
  ASSUME NEW s, OK(s), NEW w
  PROVE  OK(Ended(s, w))
<1>1. Ended(s, w) \in PageState
  BY DEF OK, Ended, PageState
<1>2. QED
  BY <1>1, SameLane DEF OK, Ended, PageState

LEMMA HeardOK ==
  ASSUME NEW s, OK(s), NEW h \in Head
  PROVE  /\ OK([s EXCEPT !.lastHead = h])
         /\ OK([s EXCEPT !.lastHead = h, !.reads = @ \ {"Warm"}])
<1> DEFINE t1 == [s EXCEPT !.lastHead = h]
           t2 == [s EXCEPT !.lastHead = h, !.reads = @ \ {"Warm"}]
<1>1. /\ t1 \in PageState /\ t1.commit = s.commit /\ t1.pub = s.pub /\ t1.life = s.life
      /\ t2 \in PageState /\ t2.commit = s.commit /\ t2.pub = s.pub /\ t2.life = s.life
  BY DEF OK, PageState
<1>2. QED
  BY <1>1, SameLane

(* A register answer, whatever it shows and whichever reads it ends. *)
LEMMA OnHeadOK ==
  ASSUME NEW p \in Pages, NEW s, OK(s), NEW h \in Head
  PROVE  OK(OnHead(p, s, h))
<1> DEFINE j  == Judge(h, s.mine)
           s0 == [s EXCEPT !.lastHead = h, !.reads = @ \ {"Warm"}]
           s1 == IF "Recover" \in s0.reads THEN Recover(p, Ended(s0, "Recover"), h, j) ELSE s0
           s2 == IF "ReadBack" \in s1.reads THEN ReadBack(p, Ended(s1, "ReadBack"), h, j) ELSE s1
           s3 == IF "Verify" \in s2.reads THEN Verify(p, Ended(s2, "Verify"), h, j) ELSE s2
<1>1. j \in Judged
  BY JudgeType DEF OK, PageState
<1>2. OK(s0)
  BY HeardOK
<1> HIDE DEF j, s0
<1>3. OK(s1)
  BY <1>2, EndedOK, RecoverOK
<1> HIDE DEF s1
<1>4. OK(s2)
  BY <1>3, EndedOK, ReadBackOK
<1> HIDE DEF s2
<1>5. OK(s3)
  BY <1>1, <1>4, EndedOK, VerifyOK
<1> HIDE DEF s3
<1>6. OK(IF "Hint" \in s3.reads THEN Hint(p, Ended(s3, "Hint"), h, j) ELSE s3)
  BY <1>1, <1>5, EndedOK, HintOK
<1>7. QED
  BY <1>6 DEF OnHead, j, s0, s1, s2, s3

LEMMA OnHintOK ==
  ASSUME NEW s, OK(s)
  PROVE  OK(OnHint(s))
BY ReadOK DEF OnHint, Waits

LEMMA OnPushedOK ==
  ASSUME NEW p \in Pages, NEW s, OK(s), NEW h \in Head
  PROVE  OK(OnPushed(p, s, h))
BY HeardOK, ReadBackOK, OnHintOK DEF OnPushed

----------------------------------------------------------------------------
(* The engine's cut. *)

(* A set of numbers that is not empty has a least. *)
LEMMA LeastOf ==
  ASSUME NEW S \in SUBSET Nat, S # {}
  PROVE  \E n \in S : \A m \in S : n <= m
<1>1. PICK n \in S : \A m \in S : ~(<<m, n>> \in OpToRel(<, Nat))
  BY NatLessThanWellFounded, WFMin, Zenon
<1>2. \A m \in S : n <= m
  <2> SUFFICES ASSUME NEW m \in S
               PROVE  ~(m < n)
    OBVIOUS
  <2> DEFINE mn == <<m, n>>
  <2>1. SUFFICES ASSUME m < n
                 PROVE  mn \in OpToRel(<, Nat)
    BY <1>1 DEF mn
  <2>2. mn \in Nat \X Nat /\ mn[1] < mn[2]
    BY <2>1
  <2> HIDE DEF mn
  <2>3. QED
    BY <2>2, Zenon DEF OpToRel
<1>3. QED
  BY <1>2

(* A set of arrivals has a last one. *)
LEMMA LastArrival ==
  ASSUME NEW S \in SUBSET Arrivals, S # {}
  PROVE  Max(S) \in S /\ \A k \in S : Max(S) >= k
<1> DEFINE Back == {MaxWrites - i : i \in S}
<1>0. \A i \in S : MaxWrites - i \in Nat
  BY WritesAssumption DEF Arrivals
<1>1. Back \subseteq Nat /\ Back # {}
  BY <1>0, Zenon
<1> HIDE DEF Back
<1>2. PICK n \in Back : \A m \in Back : n <= m
  BY <1>1, LeastOf
<1>3. PICK i \in S : n = MaxWrites - i
  BY DEF Back
<1>4. \A k \in S : MaxWrites - k \in Back
  BY DEF Back
<1>5. \A k \in S : i >= k
  BY <1>2, <1>3, <1>4, WritesAssumption DEF Arrivals
<1>6. QED
  BY <1>5, Zenon DEF Max

LEMMA CutOK ==
  ASSUME NEW p \in Pages, NEW s, OK(s), ~Committing(s),
         NEW taken \in SUBSET Arrivals, NEW last \in Nat, NEW failed \in SUBSET taken
  PROVE  OK(Cut(p, s, taken, last, failed))
<1> DEFINE fresh  == taken \ failed
           told == Tell(s, failed, "Conflict")
           judged == [told EXCEPT !.until = last]
           root   == s.pub.root \cup ({p} \X fresh)
           c == [stage |-> "Racing", seq |-> s.pub.seq + 1, root |-> root,
                 base |-> s.pub.root, cut |-> fresh, through |-> Max(fresh)]
<1>1. fresh \in SUBSET Arrivals /\ Arrivals \subseteq Nat
  <2>1. fresh \in SUBSET Arrivals
    OBVIOUS
  <2>2. Arrivals \subseteq Nat
    BY WritesAssumption DEF Arrivals
  <2>3. QED
    BY <2>1, <2>2
<1>2. /\ told \in PageState /\ told.commit = s.commit /\ told.pub = s.pub
      /\ told.life = s.life
  BY TellType DEF Tell, PageState, Fates, OK
<1> HIDE DEF told
<1>3. /\ judged \in PageState /\ judged.commit = s.commit /\ judged.pub = s.pub
      /\ judged.life = s.life
  BY <1>1, <1>2 DEF PageState
<1> HIDE DEF judged
<1>4. OK(judged) /\ ~Owes(s)
  BY <1>3, SameLane DEF OK, LaneOK, Committing
<1>5. CASE root = s.pub.root
  <2> DEFINE t == Tell(judged, fresh, "Published")
  <2>1. /\ t \in PageState /\ t.commit = s.commit /\ t.pub = s.pub /\ t.life = s.life
    BY <1>3, TellType DEF Tell, PageState, Fates
  <2>2. Cut(p, s, taken, last, failed) = t
    BY <1>5, Zenon DEF Cut, judged, told
  <2> HIDE DEF t
  <2>3. QED
    BY <2>1, <2>2, SameLane
<1>6. CASE root # s.pub.root
  <2>1. fresh # {}
    BY <1>6
  <2>2. Max(fresh) \in Nat
    BY <1>1, <2>1, LastArrival
  <2>3. s.pub \in Pair
    BY DEF OK, PageState
  <2>4. root \in Roots
    BY <1>1, <2>3 DEF Writes
  <2> HIDE DEF root, fresh
  <2>5. c \in Commit
    BY <1>1, <2>2, <2>3, <2>4 DEF Commit
  <2>6. c.seq = s.pub.seq + 1 /\ c.base = s.pub.root
    OBVIOUS
  <2>7. Cut(p, s, taken, last, failed) = [judged EXCEPT !.commit = c]
    BY <1>6, Zenon DEF Cut, judged, told, root, fresh
  <2> HIDE DEF c
  <2>8. [judged EXCEPT !.commit = c] \in PageState
    BY <1>3, <2>5 DEF PageState
  <2>9. LaneOK([judged EXCEPT !.commit = c])
    BY <1>3, <1>4, <2>6 DEF LaneOK, Owes, PageState
  <2>10. QED
    BY <2>7, <2>8, <2>9 DEF OK
<1>7. QED
  BY <1>5, <1>6

LEMMA SendHeadOK ==
  ASSUME NEW p \in Pages, NEW s, OK(s), s.commit.stage = "Racing"
  PROVE  OK(SendHead(p, s))
<1> DEFINE c == [s.commit EXCEPT !.stage = "Heading"]
           t == [s EXCEPT !.commit = c]
<1>1. c \in Commit /\ c.stage = "Heading" /\ c.seq = s.commit.seq /\ c.base = s.commit.base
  BY DEF OK, PageState, Commit
<1> HIDE DEF c
<1>2. t \in PageState /\ t.commit = c /\ t.life = s.life /\ t.pub = s.pub
  BY <1>1 DEF OK, PageState
<1>3. ~Owes(s) /\ Committing(s)
  BY DEF OK, LaneOK, Committing
<1>4. OK(t)
  BY <1>1, <1>2, <1>3 DEF OK, LaneOK, Owes
<1>5. SendHead(p, s) = Owe(p, t)
  BY DEF SendHead, c, OK, PageState
<1>6. QED
  BY <1>1, <1>2, <1>4, <1>5, OweOK

LEMMA RejectedOK ==
  ASSUME NEW s, OK(s), s.commit.stage = "Racing"
  PROVE  OK(Rejected(s))
<1>1. ~Owes(s)
  BY DEF OK, LaneOK
<1>2. QED
  BY <1>1, EndFailedOK, DropOK DEF Rejected

----------------------------------------------------------------------------
(* The bounded list of a head's ledger. *)

(* Nothing in the list was written before the head at seq `at`. *)
WrittenSince(through, at) == \A r \in Listed(through) : through[r].last >= at

LEMMA EldestIsLeast ==
  ASSUME NEW t \in [Pages -> Entry], Listed(t) # {}
  PROVE  /\ Eldest(t) \in Listed(t)
         /\ \A q \in Listed(t) : t[Eldest(t)].last <= t[q].last
<1> DEFINE Lasts == {t[q].last : q \in Listed(t)}
<1>1. Lasts \subseteq Nat /\ Lasts # {}
  BY DEF Listed, Entry
<1> HIDE DEF Lasts
<1>2. PICK n \in Lasts : \A m \in Lasts : n <= m
  BY <1>1, LeastOf
<1>3. PICK p \in Listed(t) : t[p].last = n
  BY DEF Lasts
<1>4. \A q \in Listed(t) : t[q].last \in Lasts
  BY DEF Lasts
<1>5. \A q \in Listed(t) : t[p].last <= t[q].last
  BY <1>2, <1>3, <1>4
<1>6. QED
  BY <1>3, <1>5, Zenon DEF Eldest

(* normalise: an entry that leaves a full list was written no later than    *)
(* every entry that stays.  With it, an entry older than a commit that is   *)
(* still listed shows that the commit's own was not evicted (witness_of).   *)
LEMMA EvictedWroteFirst ==
  ASSUME NEW t \in [Pages -> Entry], NEW p \in Listed(t) \ Listed(Evicted(t))
  PROVE  WrittenSince(Evicted(t), t[p].last)
<1>1. Evicted(t) = [t EXCEPT ![Eldest(t)] = NoEntry]
  BY DEF Evicted
<1>2. \A q \in Pages : q # Eldest(t) => Evicted(t)[q] = t[q]
  BY <1>1
<1>3. p = Eldest(t)
  BY <1>2 DEF Listed
<1>4. Eldest(t) \in Pages /\ Evicted(t)[Eldest(t)] = NoEntry
  BY <1>1, <1>3 DEF Listed
<1>5. \A r \in Listed(Evicted(t)) : r # Eldest(t) /\ r \in Listed(t) /\ Evicted(t)[r] = t[r]
  BY <1>2, <1>4 DEF Listed
<1>6. \A r \in Listed(t) : t[p].last <= t[r].last /\ t[r].last \in Nat
  BY <1>3, EldestIsLeast DEF Listed, Entry
<1>7. t[p].last \in Nat
  BY <1>6
<1>8. QED
  BY <1>5, <1>6, <1>7 DEF WrittenSince

(* sign_ledger_of: and it stays so in every head signed on that one, and on *)
(* the heads after it.  So once a commit at `at` was evicted, no list       *)
(* built on its head holds an entry from before it, and a page is never     *)
(* told NotThere of a commit that landed and was evicted.                   *)
THEOREM WrittenSinceIsKept ==
  ASSUME NEW p \in Pages, NEW s \in PageState, NEW at \in Nat,
         WrittenSince(s.lastHead.through, at), at <= s.lastHead.seq + 1
  PROVE  WrittenSince(LedgerOf(p, s, PairOf(s.lastHead)), at)
<1> DEFINE from == s.lastHead.through
           new  == [seq |-> s.commit.through, last |-> s.lastHead.seq + 1]
           own  == [from EXCEPT ![p] = new]
<1>1. from \in [Pages -> Entry] /\ s.lastHead.seq \in Nat /\ s.commit.through \in Nat
  BY DEF PageState, Head, Commit
<1>2. new \in Entry /\ new.last >= at
  BY <1>1 DEF Entry
<1> HIDE DEF new, from
<1>3. own \in [Pages -> Entry]
  BY <1>1, <1>2
<1>4. WrittenSince(own, at)
  <2>1. \A r \in Pages : own[r] = IF r = p THEN new ELSE from[r]
    BY <1>1
  <2>2. WrittenSince(from, at)
    BY DEF from
  <2>3. QED
    BY <1>2, <2>1, <2>2 DEF WrittenSince, Listed
<1> HIDE DEF own
<1>5. WrittenSince(Evicted(own), at)
  <2>1. CASE Evicted(own) = own
    BY <1>4, <2>1
  <2>2. CASE Evicted(own) = [own EXCEPT ![Eldest(own)] = NoEntry]
    <3>1. \A r \in Pages : Evicted(own)[r] = IF r = Eldest(own) THEN NoEntry ELSE own[r]
      BY <1>3, <2>2
    <3>2. \A r \in Listed(Evicted(own)) : r \in Listed(own) /\ Evicted(own)[r] = own[r]
      BY <3>1 DEF Listed
    <3>3. QED
      BY <1>4, <3>2 DEF WrittenSince
  <2>3. QED
    BY <2>1, <2>2 DEF Evicted
<1>6. PairOf(s.lastHead).seq = s.lastHead.seq
  BY DEF PairOf
<1>7. LedgerOf(p, s, PairOf(s.lastHead)) \in {Evicted(own), from}
  BY <1>6, Zenon DEF LedgerOf, own, new, from
<1>8. QED
  BY <1>5, <1>7 DEF from

----------------------------------------------------------------------------
(* Grounding: what every transition preserves of where a page's knowledge   *)
(* comes from, for any heads the Register held and any records the signer   *)
(* signed.                                                                  *)

(* What a page may know at one moment: `H`, the heads held; `S`, the       *)
(* records signed.                                                         *)
World(H, S) == /\ H \subseteq Head /\ NoHead \in H
               /\ S \subseteq Head /\ NoHead \in S

(* OK and Grounded, the page's whole invariant. *)
Good(s, H, S) == OK(s) /\ Grounded(s, H, S)

----------------------------------------------------------------------------
LEMMA KnownReached ==
  ASSUME NEW H, NEW S, World(H, S), NEW q, Known(q, H)
  PROVE  Reached(q, H) /\ q \in Pair
<1>1. PICK h \in H : q = PairOf(h)
  BY DEF Known
<1>2. q.seq = h.seq /\ q \in Pair
  BY <1>1, PairOfType DEF World, PairOf
<1>3. h.seq <= h.seq
  BY DEF World, Head
<1>4. QED
  BY <1>2, <1>3 DEF Reached

LEMMA ZeroReached ==
  ASSUME NEW H, NEW S, World(H, S), NEW q, q.seq = 0
  PROVE  Reached(q, H)
<1>1. NoHead \in H /\ NoHead.seq = 0
  BY DEF World, NoHead
<1>2. QED
  BY <1>1 DEF Reached

(* The first states, and the constants a transition resets to. *)
LEMMA ConstantsGround ==
  ASSUME NEW H, NEW S, World(H, S)
  PROVE  /\ Known(Genesis, H) /\ Reached(Genesis, H) /\ Reached(NoHead.prev, H)
         /\ Reached(IdleLife.from, H) /\ IdleLife.record \in S /\ NoAnswer.head \in S
         /\ Good(InitPage, H, S)
<1>1. PairOf(NoHead) = Genesis /\ Genesis.seq = 0 /\ NoHead.prev = Genesis
  BY DEF PairOf, NoHead, Genesis
<1>2. Known(Genesis, H)
  BY <1>1 DEF Known, World
<1>3. Reached(Genesis, H)
  BY <1>1, ZeroReached
<1>4. IdleLife.from = Genesis /\ IdleLife.record = NoHead /\ NoAnswer.head = NoHead
  BY DEF IdleLife, NoAnswer
<1>5. Grounded(InitPage, H, S)
  BY <1>1, <1>2, <1>3, <1>4 DEF Grounded, InitPage, World
<1>6. QED
  BY <1>1, <1>2, <1>3, <1>4, <1>5, InitPageOK DEF World, Good

(* What touches none of the fields Grounded reads, or resets them. *)
LEMMA SameGround ==
  ASSUME NEW H, NEW S, World(H, S), NEW s, Grounded(s, H, S), NEW t,
         t.pub = s.pub,
         t.sign \in {s.sign, NoHead}, t.life.from \in {s.life.from, Genesis},
         t.upd \in {s.upd, NoHead}, t.life.record \in {s.life.record, NoHead},
         t.ans.head \in {s.ans.head, NoHead}, t.mine = s.mine
  PROVE  Grounded(t, H, S)
<1>1. Reached(NoHead.prev, H) /\ Reached(Genesis, H) /\ NoHead \in S
  BY ConstantsGround DEF World
<1>2. Reached(t.sign.prev, H) /\ Reached(t.life.from, H)
  BY <1>1 DEF Grounded
<1>3. QED
  BY <1>1, <1>2 DEF Grounded

LEMMA ReadGood ==
  ASSUME NEW H, NEW S, World(H, S), NEW s, Good(s, H, S), NEW w \in Waits
  PROVE  Good(Read(s, w), H, S)
<1>1. OK(Read(s, w))
  BY ReadOK DEF Good
<1>2. Grounded(Read(s, w), H, S)
  BY SameGround DEF Good, OK, Read, PageState
<1>3. QED
  BY <1>1, <1>2 DEF Good

LEMMA UpdateGood ==
  ASSUME NEW H, NEW S, World(H, S), NEW s, Good(s, H, S), NEW h \in S
  PROVE  Good(Update(s, h), H, S)
<1>1. OK(Update(s, h))
  BY UpdateOK DEF Good, World
<1>2. Grounded(Update(s, h), H, S)
  BY DEF Good, OK, Update, PageState, Grounded
<1>3. QED
  BY <1>1, <1>2 DEF Good

LEMMA EndWaitsGood ==
  ASSUME NEW H, NEW S, World(H, S), NEW s, Good(s, H, S)
  PROVE  Good(EndWaits(s), H, S)
<1>1. OK(EndWaits(s))
  BY EndWaitsOK DEF Good
<1>2. NoAnswer.head = NoHead
  BY DEF NoAnswer
<1>3. Grounded(EndWaits(s), H, S)
  BY <1>2, SameGround DEF Good, OK, EndWaits, PageState
<1>4. QED
  BY <1>1, <1>3 DEF Good

LEMMA IdleGood ==
  ASSUME NEW H, NEW S, World(H, S), NEW s, Good(s, H, S)
  PROVE  Good(Idle(s), H, S)
<1>1. OK(Idle(s))
  BY IdleOK DEF Good
<1>2. IdleLife.from = Genesis /\ IdleLife.record = NoHead
  BY DEF IdleLife
<1>3. Grounded(Idle(s), H, S)
  BY <1>2, SameGround DEF Good, OK, Idle, PageState
<1>4. QED
  BY <1>1, <1>3 DEF Good

LEMMA AskSignGood ==
  ASSUME NEW H, NEW S, World(H, S), NEW p \in Pages, NEW s, Good(s, H, S),
         NEW prev \in Pair, Reached(prev, H), NEW root \in Roots
  PROVE  Good(AskSign(p, s, prev, root), H, S)
<1> DEFINE t == AskSign(p, s, prev, root)
<1>1. OK(t)
  BY AskSignOK DEF Good
<1>2. /\ t.sign.prev = prev /\ t.ans = NoAnswer /\ t.pub = s.pub /\ t.life = s.life
      /\ t.upd = s.upd /\ t.mine = s.mine
  BY DEF Good, OK, PageState, AskSign
<1>3. NoAnswer.head \in S
  BY ConstantsGround
<1>4. Grounded(t, H, S)
  BY <1>2, <1>3 DEF Good, Grounded
<1>5. QED
  BY <1>1, <1>4 DEF Good

(* An owed head builds on the published one, so its Sign does. *)
LEMMA SignOwedGood ==
  ASSUME NEW H, NEW S, World(H, S), NEW p \in Pages, NEW s, Good(s, H, S), Owes(s)
  PROVE  Good(SignOwed(p, s), H, S)
<1> DEFINE prev == [seq |-> s.life.owed.seq - 1, root |-> s.life.owed.base]
<1>1. /\ s.life.owed.seq = s.pub.seq + 1 /\ s.life.owed.base = s.pub.root
      /\ s.pub \in Pair /\ s.life.owed.root \in Roots
  BY DEF Good, OK, LaneOK, Committing, Owes, OwedOf, PageState, Life, Owed
<1>2. prev = s.pub
  <2>1. s.pub = [seq |-> s.pub.seq, root |-> s.pub.root] /\ s.pub.seq \in Nat
    BY <1>1
  <2>2. s.life.owed.seq - 1 = s.pub.seq
    BY <1>1, <2>1
  <2>3. QED
    BY <1>1, <2>1, <2>2
<1>3. Reached(s.pub, H)
  BY KnownReached DEF Good, Grounded
<1>4. Good(AskSign(p, s, s.pub, s.life.owed.root), H, S)
  BY <1>1, <1>3, AskSignGood
<1>5. QED
  BY <1>2, <1>4 DEF SignOwed

LEMMA OweGood ==
  ASSUME NEW H, NEW S, World(H, S), NEW p \in Pages, NEW s, Good(s, H, S),
         s.commit.stage = "Heading"
  PROVE  Good(Owe(p, s), H, S)
<1> DEFINE owing == [IdleLife EXCEPT !.st = "Signing", !.owed = OwedOf(s.commit)]
           t == [EndWaits(s) EXCEPT !.life = owing]
<1>0. owing.from = Genesis /\ owing.record = NoHead
  BY DEF IdleLife
<1>1. owing \in Life /\ owing.st = "Signing" /\ owing.owed = OwedOf(s.commit)
  BY DEF Good, OK, PageState, Commit, Life, Stages, Owed, OwedOf, IdleLife, Genesis, NoHead, Head, NoThrough, NoEntry, Entry
<1>2. /\ Good(EndWaits(s), H, S) /\ EndWaits(s) \in PageState
      /\ EndWaits(s).commit = s.commit /\ EndWaits(s).pub = s.pub
  BY EndWaitsGood DEF EndWaits, Good, OK, PageState
<1> HIDE DEF owing
<1>3. /\ t \in PageState /\ t.life = owing
      /\ t.commit = s.commit /\ t.pub = s.pub
      /\ t.sign = EndWaits(s).sign /\ t.upd = EndWaits(s).upd
      /\ t.ans = EndWaits(s).ans /\ t.mine = EndWaits(s).mine
  BY <1>1, <1>2 DEF OK, PageState
<1> HIDE DEF t
<1>4. OK(t) /\ Owes(t)
  BY <1>1, <1>3 DEF Good, OK, LaneOK, Owes, Committing
<1>5. Grounded(t, H, S)
  BY <1>0, <1>2, <1>3, SameGround DEF Good
<1>6. Owe(p, s) = s \/ Owe(p, s) = SignOwed(p, t)
  BY DEF Owe, t, owing
<1>7. QED
  BY <1>4, <1>5, <1>6, SignOwedGood DEF Good

LEMMA HeadNotLandedGood ==
  ASSUME NEW H, NEW S, World(H, S), NEW p \in Pages, NEW s, Good(s, H, S)
  PROVE  Good(HeadNotLanded(p, s), H, S)
BY OweGood DEF HeadNotLanded

(* DropDeadHead only ends waits and the life: it grounds no less. *)
LEMMA DropDeadHeadGround ==
  ASSUME NEW H, NEW S, World(H, S), NEW s \in PageState, Grounded(s, H, S)
  PROVE  Grounded(DropDeadHead(s), H, S)
<1> DEFINE t == Idle(EndWaits(s))
<1>1. EndWaits(s) \in PageState
  BY Constants DEF EndWaits, PageState
<1>2. /\ t.pub = s.pub /\ t.sign = NoHead /\ t.ans = NoAnswer /\ t.upd = NoHead
      /\ t.mine = s.mine /\ t.life = IdleLife
  BY <1>1 DEF Idle, EndWaits, PageState
<1>3. IdleLife.from = Genesis /\ IdleLife.record = NoHead /\ NoAnswer.head = NoHead
  BY DEF IdleLife, NoAnswer
<1> HIDE DEF t
<1>4. Grounded(t, H, S)
  BY <1>2, <1>3, SameGround
<1>5. QED
  BY <1>4 DEF DropDeadHead, t

(* A page that publishes another head the Register held. *)
LEMMA PubGround ==
  ASSUME NEW H, NEW S, World(H, S), NEW s, Grounded(s, H, S), NEW t, Known(t.pub, H),
         t.sign = s.sign, t.life = s.life, t.upd = s.upd, t.ans = s.ans, t.mine = s.mine
  PROVE  Grounded(t, H, S)
BY DEF Grounded

LEMMA PublishGood ==
  ASSUME NEW H, NEW S, World(H, S), NEW s, Good(s, H, S), Committing(s),
         Known([seq |-> s.commit.seq, root |-> s.commit.root], H)
  PROVE  Good(DropDeadHead(Publish(s)), H, S)
<1> DEFINE t == Tell(s, s.commit.cut, "Published")
           pub == [seq |-> s.commit.seq, root |-> s.commit.root]
<1>1. /\ t \in PageState /\ t.sign = s.sign /\ t.life = s.life /\ t.upd = s.upd
      /\ t.ans = s.ans /\ t.mine = s.mine
  BY TellType DEF Tell, PageState, Fates, Good, OK
<1>2. Publish(s) = [t EXCEPT !.pub = pub, !.commit = NoCommit]
  BY DEF Publish
<1> HIDE DEF t, pub
<1>3. /\ Publish(s).pub = pub /\ Publish(s).sign = s.sign /\ Publish(s).life = s.life
      /\ Publish(s).upd = s.upd /\ Publish(s).ans = s.ans /\ Publish(s).mine = s.mine
  BY <1>1, <1>2 DEF PageState
<1>4. Grounded(Publish(s), H, S) /\ Publish(s) \in PageState
  BY <1>3, PubGround, PublishType DEF Good, OK, pub
<1>5. QED
  BY <1>4, DropDeadHeadGround, PublishOK DEF Good

LEMMA EndFailedGood ==
  ASSUME NEW H, NEW S, World(H, S), NEW s, Good(s, H, S), ~Owes(s)
  PROVE  Good(EndFailed(s), H, S)
<1>1. OK(EndFailed(s))
  BY EndFailedOK DEF Good
<1>2. /\ EndFailed(s).pub = s.pub /\ EndFailed(s).sign = s.sign
      /\ EndFailed(s).life = s.life /\ EndFailed(s).upd = s.upd
      /\ EndFailed(s).ans = s.ans /\ EndFailed(s).mine = s.mine
  BY DEF EndFailed, Tell, Good, OK, PageState
<1>3. QED
  BY <1>1, <1>2, SameGround DEF Good

LEMMA DropGood ==
  ASSUME NEW H, NEW S, World(H, S), NEW s, Good(s, H, S)
  PROVE  Good(DropDeadHead(s), H, S)
BY DropOK, DropDeadHeadGround DEF Good, OK

LEMMA EndDeadGround ==
  ASSUME NEW H, NEW S, World(H, S), NEW p \in Pages, NEW s, Good(s, H, S),
         NEW pair, Known(pair, H)
  PROVE  Grounded(EndDead(p, s, pair), H, S)
<1>1. pair \in Pair
  BY KnownReached
<1>2. /\ EndDead(p, s, pair).pub = pair /\ EndDead(p, s, pair).sign = s.sign
      /\ EndDead(p, s, pair).life = s.life /\ EndDead(p, s, pair).upd = s.upd
      /\ EndDead(p, s, pair).ans = s.ans /\ EndDead(p, s, pair).mine = s.mine
  BY DEF EndDead, Tell, Good, OK, PageState
<1>3. QED
  BY <1>2, PubGround DEF Good

----------------------------------------------------------------------------
(* The engine's events. *)

LEMMA EngineConflictGround ==
  ASSUME NEW H, NEW S, World(H, S), NEW p \in Pages, NEW s, Good(s, H, S),
         NEW pair, Known(pair, H)
  PROVE  EngineConflict(p, s, pair) \in PageState /\ Grounded(EngineConflict(p, s, pair), H, S)
<1>1. pair \in Pair
  BY KnownReached
<1> DEFINE t == [s EXCEPT !.pub = pair]
<1>2. /\ t.pub = pair /\ t.sign = s.sign /\ t.life = s.life /\ t.upd = s.upd
      /\ t.ans = s.ans /\ t.mine = s.mine /\ t \in PageState
  BY <1>1 DEF Good, OK, PageState
<1> HIDE DEF t
<1>3. Grounded(t, H, S)
  BY <1>2, PubGround DEF Good
<1>4. \/ EngineConflict(p, s, pair) = HeadNotLanded(p, s)
      \/ EngineConflict(p, s, pair) = EndDead(p, s, pair)
      \/ EngineConflict(p, s, pair) = t
  BY DEF EngineConflict, t
<1>5. QED
  BY <1>1, <1>2, <1>3, <1>4, HeadNotLandedGood, EndDeadGround, EndDeadType DEF Good, OK

(* Grounded looks at neither the engine's `has` nor what a read shows. *)
LEMMA HasGood ==
  ASSUME NEW H, NEW S, World(H, S), NEW s, Good(s, H, S)
  PROVE  Good([s EXCEPT !.has = TRUE], H, S)
<1>1. OK([s EXCEPT !.has = TRUE])
  BY HasOK DEF Good
<1>2. QED
  BY <1>1, SameGround DEF Good, OK, PageState

LEMMA HeadConflictGood ==
  ASSUME NEW H, NEW S, World(H, S), NEW p \in Pages, NEW s, Good(s, H, S),
         NEW pair, Known(pair, H)
  PROVE  Good(HeadConflict(p, s, pair), H, S)
<1>1. OK(HeadConflict(p, s, pair))
  BY KnownReached, EngineConflictOK DEF Good
<1>2. QED
  BY <1>1, EngineConflictGround, DropDeadHeadGround DEF Good, HeadConflict

LEMMA HeadReadGood ==
  ASSUME NEW H, NEW S, World(H, S), NEW p \in Pages, NEW s, Good(s, H, S),
         NEW pair, Known(pair, H)
  PROVE  Good(HeadRead(p, s, pair), H, S)
<1> DEFINE c == s.commit
           moved == IF ~Committing(s) THEN [s EXCEPT !.pub = pair]
                    ELSE IF pair.seq = c.seq /\ pair.root = c.root THEN Publish(s)
                    ELSE IF pair.seq < c.seq THEN HeadNotLanded(p, s)
                    ELSE EngineConflict(p, s, pair)
<1>1. Good(DropDeadHead(moved), H, S)
  <2>1. CASE ~Committing(s)
    BY <2>1, HeadConflictGood DEF HeadConflict, EngineConflict
  <2>2. CASE Committing(s) /\ pair.seq = c.seq /\ pair.root = c.root
    <3>1. pair = [seq |-> pair.seq, root |-> pair.root]
      BY KnownReached
    <3>2. [seq |-> c.seq, root |-> c.root] = pair
      BY <2>2, <3>1
    <3>3. QED
      BY <2>2, <3>2, PublishGood
  <2>3. CASE Committing(s) /\ ~(pair.seq = c.seq /\ pair.root = c.root) /\ pair.seq < c.seq
    BY <2>3, HeadNotLandedGood, DropGood
  <2>4. CASE Committing(s) /\ ~(pair.seq = c.seq /\ pair.root = c.root) /\ ~(pair.seq < c.seq)
    BY <2>4, HeadConflictGood DEF HeadConflict
  <2>5. QED
    BY <2>1, <2>2, <2>3, <2>4
<1>2. HeadRead(p, s, pair) = [DropDeadHead(moved) EXCEPT !.has = TRUE]
  BY DEF HeadRead
<1>3. QED
  BY <1>1, <1>2, HasGood

LEMMA HeadMissingGood ==
  ASSUME NEW H, NEW S, World(H, S), NEW p \in Pages, NEW s, Good(s, H, S)
  PROVE  Good(HeadMissing(p, s), H, S)
<1> DEFINE moved == IF Committing(s) THEN HeadNotLanded(p, s) ELSE [s EXCEPT !.pub = Genesis]
<1>1. Good(DropDeadHead(moved), H, S)
  <2>1. CASE Committing(s)
    BY <2>1, HeadNotLandedGood, DropGood
  <2>2. CASE ~Committing(s)
    BY <2>2, HeadConflictGood, ConstantsGround DEF HeadConflict, EngineConflict
  <2>3. QED
    BY <2>1, <2>2
<1>2. HeadMissing(p, s) = [DropDeadHead(moved) EXCEPT !.has = TRUE]
  BY DEF HeadMissing
<1>3. QED
  BY <1>1, <1>2, HasGood

LEMMA RefuseGood ==
  ASSUME NEW H, NEW S, World(H, S), NEW s, Good(s, H, S)
  PROVE  Good(Refuse(s), H, S)
<1>1. Good(Idle(EndWaits(s)), H, S) /\ ~Owes(Idle(EndWaits(s)))
  BY EndWaitsGood, IdleGood, IdleOK DEF Good
<1>2. QED
  BY <1>1, EndFailedGood, DropGood DEF Refuse, HeadRefused

LEMMA AdoptForeignGood ==
  ASSUME NEW H, NEW S, World(H, S), NEW p \in Pages, NEW s, Good(s, H, S), NEW h \in H
  PROVE  Good(AdoptForeign(p, s, h), H, S)
<1>1. Known(PairOf(h), H)
  BY DEF Known
<1>2. QED
  BY <1>1, EndWaitsGood, IdleGood, HeadConflictGood DEF AdoptForeign

(* A read that confirms shows the head of the very commit in flight, or    *)
(* confirms none: a head this page owes is its commit's, and a head it     *)
(* publishes is below its commit's.                                        *)
LEMMA ConfirmedGood ==
  ASSUME NEW H, NEW S, World(H, S), NEW s, Good(s, H, S), NEW h \in H, Confirms(s, h)
  PROVE  Good(HeadConfirmed(s, h.seq), H, S)
<1>1. CASE Committing(s) /\ s.commit.seq = h.seq
  <2>1. s.commit.seq = s.pub.seq + 1 /\ s.pub \in Pair /\ PairOf(h).seq = h.seq
    BY <1>1 DEF Good, OK, LaneOK, PageState, PairOf
  <2>2. s.life.st = "Written"
    <3>1. SUFFICES ASSUME s.life.st # "Written"
                   PROVE  FALSE
      OBVIOUS
    <3>2. s.life.st = "Idle"
      BY <3>1, Zenon DEF Confirms
    <3>3. PairOf(h) = s.pub
      BY <3>2, Zenon DEF Confirms
    <3>4. QED
      BY <1>1, <2>1, <3>3
  <2>3. /\ s.life.owed = OwedOf(s.commit)
        /\ PairOf(h) = [seq |-> s.life.owed.seq, root |-> s.life.owed.root]
    BY <2>2 DEF Confirms, Good, OK, LaneOK, Owes
  <2>4. PairOf(h) = [seq |-> s.commit.seq, root |-> s.commit.root]
    BY <2>3 DEF OwedOf
  <2>5. QED
    BY <1>1, <2>4, PublishGood DEF Known, HeadConfirmed
<1>2. CASE ~(Committing(s) /\ s.commit.seq = h.seq)
  BY <1>2, DropGood DEF HeadConfirmed
<1>3. QED
  BY <1>1, <1>2

----------------------------------------------------------------------------
(* The head's table, by event. *)

(* A life that keeps the head it owes, asks from a seq reached and holds a *)
(* signed record. *)
LEMMA LifeGood ==
  ASSUME NEW H, NEW S, World(H, S), NEW s, Good(s, H, S), Owes(s),
         NEW l \in Life, l.owed = s.life.owed, Reached(l.from, H), l.record \in S
  PROVE  Good([s EXCEPT !.life = l], H, S)
<1> DEFINE t == [s EXCEPT !.life = l]
<1>1. OK(t)
  BY LifeOK DEF Good
<1>2. /\ t.life = l /\ t.pub = s.pub /\ t.sign = s.sign /\ t.upd = s.upd
      /\ t.ans = s.ans /\ t.mine = s.mine
  BY DEF Good, OK, PageState
<1> HIDE DEF t
<1>3. QED
  BY <1>1, <1>2 DEF Good, Grounded, t

(* A signed record is noted and sent. *)
LEMMA MineGood ==
  ASSUME NEW H, NEW S, World(H, S), NEW s, Good(s, H, S), NEW h \in S
  PROVE  Good([s EXCEPT !.mine = Noted(h, @), !.upd = h], H, S)
<1> DEFINE t == [s EXCEPT !.mine = Noted(h, @), !.upd = h]
<1>1. OK(t)
  BY MineOK DEF Good, World
<1>2. /\ t.life = s.life /\ t.pub = s.pub /\ t.sign = s.sign /\ t.upd = h
      /\ t.ans = s.ans /\ t.mine \subseteq s.mine \cup {h}
  BY DEF Good, OK, PageState, Noted
<1> HIDE DEF t
<1>3. QED
  BY <1>1, <1>2 DEF Good, Grounded, t

LEMMA SignerOnCommitGood ==
  ASSUME NEW H, NEW S, World(H, S), NEW p \in Pages, NEW s, Good(s, H, S), Owes(s),
         NEW a \in Answer, a.head \in S
  PROVE  Good(SignerOnCommit(p, s, a), H, S)
<1> DEFINE o == s.life.owed
<1>1. o \in Owed /\ a.head \in Head /\ a.current \in Pair
  BY DEF Good, OK, PageState, Life, Answer
<1>2. IdleLife.from = Genesis /\ IdleLife.record = NoHead /\ Reached(Genesis, H)
      /\ NoHead \in S
  BY ConstantsGround DEF IdleLife, World
<1>3. CASE a.kind \in {"Signed", "AlreadySigned"}
  <2> DEFINE t == [s EXCEPT !.mine = Noted(a.head, @), !.upd = a.head]
             l == [IdleLife EXCEPT !.st = "Written", !.owed = o, !.record = a.head]
  <2>0. "Written" \in Stages
    BY DEF Stages
  <2>1. Good(t, H, S) /\ Owes(t) /\ t.life = s.life
    <3>1. Good(t, H, S)
      BY MineGood
    <3>2. t.life = s.life
      BY DEF Good, OK, PageState
    <3> HIDE DEF t
    <3>3. QED
      BY <3>1, <3>2 DEF Owes
  <2>2. l \in Life /\ l.owed = o
    BY <1>1, <2>0, Constants DEF IdleLife, Life
  <2>3. l.from = Genesis /\ l.record = a.head
    BY <1>2, Constants DEF Life
  <2>4. SignerOnCommit(p, s, a) = [t EXCEPT !.life = l]
    BY <1>3 DEF SignerOnCommit, Good, OK, PageState
  <2> HIDE DEF t, l
  <2>5. QED
    BY <1>2, <2>1, <2>2, <2>3, <2>4, LifeGood
<1>4. CASE a.kind = "NotNext"
  <2> DEFINE l == [IdleLife EXCEPT !.st = "Verifying", !.owed = o, !.named = a.current]
  <2>1. l \in Life /\ l.owed = o
    BY <1>1, LivesType, Constants DEF Stages, IdleLife
  <2>2. l.from = Genesis /\ l.record = NoHead
    BY <1>2, Constants DEF Life
  <2> HIDE DEF l
  <2>3. Good([s EXCEPT !.life = l], H, S)
    BY <1>2, <2>1, <2>2, LifeGood
  <2>4. SignerOnCommit(p, s, a) = Read([s EXCEPT !.life = l], "Verify")
    BY <1>4 DEF SignerOnCommit, VerifyNamed, l
  <2>5. QED
    BY <2>3, <2>4, ReadGood DEF Waits
<1>5. CASE a.kind \in {"Retry", "HeadUnknown"}
  <2> DEFINE t == [s EXCEPT !.reads = IF a.kind = "HeadUnknown" THEN @ \cup {"Warm"} ELSE @]
             l == [IdleLife EXCEPT !.st = "BackingOff", !.owed = o]
  <2>1. Good(t, H, S) /\ Owes(t) /\ t.life = s.life
    <3>1. a.kind = "HeadUnknown" => t = Read(s, "Warm")
      BY DEF Read
    <3>2. a.kind # "HeadUnknown" => t = s
      BY DEF Good, OK, PageState
    <3>3. t.life = s.life
      BY DEF Good, OK, PageState
    <3> HIDE DEF t
    <3>4. Good(Read(s, "Warm"), H, S)
      BY ReadGood DEF Waits
    <3>5. Good(t, H, S)
      BY <3>1, <3>2, <3>4
    <3>6. QED
      BY <3>3, <3>5 DEF Owes
  <2>2. l \in Life /\ l.owed = o
    BY <1>1, LivesType, Constants DEF Stages, IdleLife
  <2>3. l.from = Genesis /\ l.record = NoHead
    BY <1>2, Constants DEF Life
  <2>4. SignerOnCommit(p, s, a) = [t EXCEPT !.life = l]
    BY <1>5 DEF SignerOnCommit, Good, OK, PageState
  <2> HIDE DEF t, l
  <2>5. QED
    BY <1>2, <2>1, <2>2, <2>3, <2>4, LifeGood
<1>6. CASE a.kind \in {"None", "Final"}
  BY <1>6, RefuseGood DEF SignerOnCommit
<1>7. QED
  BY <1>3, <1>4, <1>5, <1>6 DEF Answer, AnswerKinds

LEMMA SignerOnLandingGood ==
  ASSUME NEW H, NEW S, World(H, S), NEW p \in Pages, NEW s, Good(s, H, S), Owes(s),
         NEW a \in Answer, a.head \in S
  PROVE  Good(SignerOnLanding(p, s, a), H, S)
<1> DEFINE o == s.life.owed
           l(named) == [IdleLife EXCEPT !.st = "Verifying", !.owed = o, !.named = named,
                                        !.timer = TRUE]
           later == [seq |-> IF s.life.named.seq > a.current.seq
                               THEN s.life.named.seq ELSE a.current.seq,
                     root |-> a.current.root]
<1>1. /\ o \in Owed /\ a.head \in Head /\ a.current \in Pair
      /\ s.life.named \in Pair
  BY DEF Good, OK, PageState, Life, Answer
<1>2. later \in Pair
  BY <1>1
<1>3. IdleLife.from = Genesis /\ IdleLife.record = NoHead /\ Reached(Genesis, H)
      /\ NoHead \in S
  BY ConstantsGround DEF IdleLife, World
<1>4. ASSUME NEW named \in Pair
      PROVE  Good([s EXCEPT !.life = l(named)], H, S)
  <2>1. l(named) \in Life /\ l(named).owed = o
    BY <1>1, VerifyingType
  <2>2. l(named).from = Genesis /\ l(named).record = NoHead
    BY <1>3, Constants DEF Life
  <2> HIDE DEF l
  <2>3. QED
    BY <1>3, <2>1, <2>2, LifeGood
<1>5. CASE a.kind \in {"Signed", "AlreadySigned"}
  BY <1>5, MineGood DEF SignerOnLanding
<1>6. CASE a.kind = "NotNext"
  <2>1. SignerOnLanding(p, s, a) = [s EXCEPT !.life = l(later)]
    BY <1>6 DEF SignerOnLanding
  <2>2. QED
    BY <1>2, <1>4, <2>1
<1>7. CASE a.kind \in {"Retry", "HeadUnknown"}
  <2>1. SignerOnLanding(p, s, a) = [s EXCEPT !.life = l(s.life.named)]
    BY <1>7 DEF SignerOnLanding
  <2>2. QED
    BY <1>1, <1>4, <2>1
<1>8. CASE a.kind \in {"None", "Final"}
  BY <1>8, RefuseGood DEF SignerOnLanding
<1>9. QED
  BY <1>5, <1>6, <1>7, <1>8 DEF Answer, AnswerKinds

(* The Sign in flight has ended, whatever its answer. *)
LEMMA HeardGood ==
  ASSUME NEW H, NEW S, World(H, S), NEW s, Good(s, H, S)
  PROVE  /\ Good([s EXCEPT !.sign = NoHead, !.ans = NoAnswer], H, S)
         /\ [s EXCEPT !.sign = NoHead, !.ans = NoAnswer].life = s.life
<1> DEFINE t == [s EXCEPT !.sign = NoHead, !.ans = NoAnswer]
<1>1. /\ t \in PageState /\ t.commit = s.commit /\ t.pub = s.pub /\ t.life = s.life
      /\ t.sign = NoHead /\ t.ans = NoAnswer /\ t.upd = s.upd /\ t.mine = s.mine
  BY Constants DEF Good, OK, PageState
<1> HIDE DEF t
<1>2. OK(t)
  BY <1>1, SameLane DEF Good
<1>3. NoAnswer.head = NoHead
  BY DEF NoAnswer
<1>4. Grounded(t, H, S)
  BY <1>1, <1>3, SameGround DEF Good
<1>5. QED
  BY <1>1, <1>2, <1>4 DEF Good, t

LEMMA OnSignerGood ==
  ASSUME NEW H, NEW S, World(H, S), NEW p \in Pages, NEW s, Good(s, H, S)
  PROVE  Good(OnSigner(p, s), H, S)
<1> DEFINE heard == [s EXCEPT !.sign = NoHead, !.ans = NoAnswer]
<1>1. Good(heard, H, S) /\ heard.life = s.life
  BY HeardGood
<1>2. s.ans \in Answer /\ s.ans.head \in S
  BY DEF Good, OK, PageState, Grounded
<1>3. \/ OnSigner(p, s) = heard
      \/ Owes(s) /\ OnSigner(p, s) = SignerOnCommit(p, heard, s.ans)
      \/ Owes(s) /\ OnSigner(p, s) = SignerOnLanding(p, heard, s.ans)
  BY DEF OnSigner, Owes
<1> HIDE DEF heard
<1>4. QED
  BY <1>1, <1>2, <1>3, SignerOnCommitGood, SignerOnLandingGood DEF Owes

LEMMA OnUpdatedGood ==
  ASSUME NEW H, NEW S, World(H, S), NEW s, Good(s, H, S)
  PROVE  Good(OnUpdated(s), H, S)
<1>1. Good([s EXCEPT !.upd = NoHead], H, S)
  BY UpdateGood DEF Update, World
<1>2. QED
  BY <1>1, ReadGood DEF OnUpdated, Waits

LEMMA OnSignLostGood ==
  ASSUME NEW H, NEW S, World(H, S), NEW p \in Pages, NEW s, Good(s, H, S)
  PROVE  Good(OnSignLost(p, s), H, S)
<1> DEFINE lost == [s EXCEPT !.sign = NoHead, !.ans = NoAnswer]
<1>1. Good(lost, H, S) /\ lost.life = s.life
  BY HeardGood
<1>2. s.life.from \in Pair /\ Reached(s.life.from, H) /\ s.life.named.root \in Roots
  BY DEF Good, OK, PageState, Life, Grounded
<1>3. \/ OnSignLost(p, s) = lost
      \/ Owes(lost) /\ OnSignLost(p, s) = SignOwed(p, lost)
      \/ OnSignLost(p, s) = AskSign(p, lost, s.life.from, s.life.named.root)
  BY <1>1 DEF OnSignLost, Owes
<1> HIDE DEF lost
<1>4. QED
  BY <1>1, <1>2, <1>3, SignOwedGood, AskSignGood

(* A life in the same stage but for a counter, a timer or the stage.       *)
LEMMA LifeFieldsGood ==
  ASSUME NEW H, NEW S, World(H, S), NEW s, Good(s, H, S), Owes(s), NEW n \in Nat
  PROVE  /\ Good([s EXCEPT !.life.st = "Signing"], H, S)
         /\ Good([s EXCEPT !.life.timer = FALSE], H, S)
         /\ Good([s EXCEPT !.life.stale = n], H, S)
<1> DEFINE l1 == [s.life EXCEPT !.st = "Signing"]
           l2 == [s.life EXCEPT !.timer = FALSE]
           l3 == [s.life EXCEPT !.stale = n]
<1>1. s.life \in Life /\ Reached(s.life.from, H) /\ s.life.record \in S
  BY DEF Good, OK, PageState, Grounded
<1>2. /\ l1 \in Life /\ l1.owed = s.life.owed
      /\ l1.from = s.life.from /\ l1.record = s.life.record
      /\ l2 \in Life /\ l2.owed = s.life.owed
      /\ l2.from = s.life.from /\ l2.record = s.life.record
      /\ l3 \in Life /\ l3.owed = s.life.owed
      /\ l3.from = s.life.from /\ l3.record = s.life.record
  BY <1>1 DEF Life, Stages
<1>3. /\ [s EXCEPT !.life.st = "Signing"] = [s EXCEPT !.life = l1]
      /\ [s EXCEPT !.life.timer = FALSE] = [s EXCEPT !.life = l2]
      /\ [s EXCEPT !.life.stale = n] = [s EXCEPT !.life = l3]
  BY DEF Good, OK, PageState
<1> HIDE DEF l1, l2, l3
<1>4. QED
  BY <1>1, <1>2, <1>3, LifeGood

LEMMA OnDueGood ==
  ASSUME NEW H, NEW S, World(H, S), NEW p \in Pages, NEW s, Good(s, H, S)
  PROVE  Good(OnDue(p, s), H, S)
<1>1. CASE s.life.st = "BackingOff"
  <2>1. Good([s EXCEPT !.life.st = "Signing"], H, S) /\ Owes([s EXCEPT !.life.st = "Signing"])
    BY <1>1, LifeFieldsGood, LifeFieldsOK DEF Owes, Good
  <2>2. QED
    BY <1>1, <2>1, SignOwedGood DEF OnDue
<1>2. CASE s.life.st = "Verifying"
  BY <1>2, LifeFieldsGood, ReadGood DEF OnDue, Owes, Waits
<1>3. CASE s.life.st \notin {"BackingOff", "Verifying"}
  BY <1>3, ReadGood DEF OnDue, Waits
<1>4. QED
  BY <1>1, <1>2, <1>3

LEMMA StaleGood ==
  ASSUME NEW H, NEW S, World(H, S), NEW s, Good(s, H, S), Owes(s)
  PROVE  Good(Stale(s), H, S)
<1>1. s.life.stale + 1 \in Nat /\ s.life.record \in S
  BY DEF Good, OK, PageState, Life, Grounded
<1>2. Good([s EXCEPT !.life.stale = 0], H, S) /\ Good([s EXCEPT !.life.stale = s.life.stale + 1], H, S)
  BY <1>1, LifeFieldsGood
<1>3. Stale(s) \in {Update([s EXCEPT !.life.stale = 0], s.life.record),
                    [s EXCEPT !.life.stale = s.life.stale + 1]}
  BY DEF Stale
<1>4. QED
  BY <1>1, <1>2, <1>3, UpdateGood

LEMMA ReadBackGood ==
  ASSUME NEW H, NEW S, World(H, S), NEW p \in Pages, NEW s, Good(s, H, S), NEW h \in H, NEW j
  PROVE  Good(ReadBack(p, s, h, j), H, S)
<1>1. s.life.record \in S
  BY DEF Good, Grounded
<1>2. \/ Confirms(s, h) /\ ReadBack(p, s, h, j) = HeadConfirmed(s, h.seq)
      \/ ReadBack(p, s, h, j) = s
      \/ ReadBack(p, s, h, j) = Update(s, s.life.record)
      \/ ReadBack(p, s, h, j) = AdoptForeign(p, s, h)
      \/ Owes(s) /\ ReadBack(p, s, h, j) = Stale(s)
  BY DEF ReadBack, Owes
<1>3. QED
  BY <1>1, <1>2, ConfirmedGood, UpdateGood, AdoptForeignGood, StaleGood

(* The record a judgement finds winning is one of the page's own. *)
LEMMA JudgeMine ==
  ASSUME NEW H, NEW S, World(H, S), NEW s, Good(s, H, S), NEW h
  PROVE  Judge(h, s.mine) \in Judged /\ Judge(h, s.mine).mine \in S
<1>1. Winning(h, s.mine) \subseteq S
  BY DEF Winning, Good, Grounded
<1>2. Winning(h, s.mine) # {} => (CHOOSE m \in Winning(h, s.mine) : TRUE) \in S
  BY <1>1
<1>3. QED
  BY <1>2, JudgeType DEF Judge, World, Good, OK, PageState

LEMMA VerifyGood ==
  ASSUME NEW H, NEW S, World(H, S), NEW p \in Pages, NEW s, Good(s, H, S),
         NEW h \in H, NEW j \in Judged, j.mine \in S
  PROVE  Good(Verify(p, s, h, j), H, S)
<1> DEFINE l == s.life
           land(asks, from) == [IdleLife EXCEPT !.st = "Landing", !.owed = l.owed,
                                  !.named = l.named, !.asks = asks, !.from = from]
           mineFrom == IF l.st = "Landing" THEN l.from ELSE Genesis
           mineAsks == l.st = "Landing" /\ l.asks
           mine == land(mineAsks, mineFrom)
           prev == LandFrom(s, h, j)
           again == [IdleLife EXCEPT !.st = "Verifying", !.owed = l.owed,
                                     !.named = l.named, !.timer = TRUE]
<1>1. /\ l \in Life /\ l.owed \in Owed /\ l.named \in Pair /\ l.named.root \in Roots
      /\ mineFrom \in Pair /\ mineAsks \in BOOLEAN /\ s.pub.root \in Roots
  BY Constants DEF Good, OK, PageState, Life
<1>2. h \in Head /\ Known(PairOf(h), H)
  BY DEF World, Known
<1>3. IdleLife.record = NoHead /\ IdleLife.from = Genesis /\ Reached(Genesis, H) /\ NoHead \in S
  BY ConstantsGround DEF IdleLife, World
<1>4. Reached(mineFrom, H)
  BY <1>3 DEF Good, Grounded
<1>5. prev \in Pair /\ Reached(prev, H)
  <2>1. CASE j.kind = "NoHead"
    <3>1. prev = [seq |-> 0, root |-> s.pub.root]
      BY <2>1 DEF LandFrom
    <3>2. prev.seq = 0 /\ prev \in Pair
      BY <1>1, <3>1
    <3>3. QED
      BY <3>2, ZeroReached
  <2>2. CASE j.kind # "NoHead"
    BY <1>2, <2>2, KnownReached DEF LandFrom
  <2>3. QED
    BY <2>1, <2>2
<1>6. CASE ~IsVerifying(s)
  BY <1>6 DEF Verify
<1>7. CASE IsVerifying(s)
  <2>1. Owes(s)
    BY <1>7 DEF IsVerifying, Owes
  <2> HIDE DEF mineFrom, mineAsks, prev
  <2>2. /\ mine \in Life /\ mine.owed = l.owed /\ mine.from = mineFrom
        /\ mine.record = NoHead
        /\ land(TRUE, prev) \in Life /\ land(TRUE, prev).owed = l.owed
        /\ land(TRUE, prev).from = prev /\ land(TRUE, prev).record = NoHead
        /\ again \in Life /\ again.owed = l.owed
        /\ again.from = Genesis /\ again.record = NoHead
    BY <1>1, <1>3, <1>5, Constants DEF Life, IdleLife, Stages
  <2> HIDE DEF mine, again, l, land
  <2>3. Good([s EXCEPT !.life = mine], H, S)
    BY <1>3, <1>4, <2>1, <2>2, LifeGood DEF l
  <2>4. Good([s EXCEPT !.life = land(TRUE, prev)], H, S)
    BY <1>3, <1>5, <2>1, <2>2, LifeGood DEF l
  <2>5. Good([s EXCEPT !.life = again], H, S)
    BY <1>3, <2>1, <2>2, LifeGood DEF l
  <2>6. Verify(p, s, h, j) \in
          {LandMine([s EXCEPT !.life = mine], j), AdoptForeign(p, s, h), Refuse(s),
           [s EXCEPT !.life = again],
           AskSign(p, [s EXCEPT !.life = land(TRUE, prev)], prev, l.named.root)}
    BY <1>7, Zenon DEF Verify, mine, again, l, land, prev, mineFrom, mineAsks
  <2>7. Good(LandMine([s EXCEPT !.life = mine], j), H, S)
    BY <2>3, UpdateGood DEF LandMine
  <2>8. Good(AskSign(p, [s EXCEPT !.life = land(TRUE, prev)], prev, l.named.root), H, S)
    BY <1>1, <1>5, <2>4, AskSignGood
  <2>9. QED
    BY <2>5, <2>6, <2>7, <2>8, AdoptForeignGood, RefuseGood
<1>8. QED
  BY <1>6, <1>7

LEMMA HintGood ==
  ASSUME NEW H, NEW S, World(H, S), NEW p \in Pages, NEW s, Good(s, H, S),
         NEW h \in H, NEW j, j.mine \in S
  PROVE  Good(Hint(p, s, h, j), H, S)
<1>1. Known(PairOf(h), H)
  BY DEF Known
<1>2. Hint(p, s, h, j) \in
        {s, ReadBack(p, s, h, j), LandMine(s, j), HeadConflict(p, Idle(s), PairOf(h)),
         HeadConflict(p, Idle(EndWaits(s)), PairOf(h))}
  BY DEF Hint
<1>3. Good(Idle(s), H, S) /\ Good(Idle(EndWaits(s)), H, S)
  BY EndWaitsGood, IdleGood
<1>4. QED
  BY <1>1, <1>2, <1>3, ReadBackGood, UpdateGood, HeadConflictGood DEF LandMine

LEMMA RecoverGood ==
  ASSUME NEW H, NEW S, World(H, S), NEW p \in Pages, NEW s, Good(s, H, S),
         NEW h \in H, NEW j
  PROVE  Good(Recover(p, s, h, j), H, S)
<1>1. Known(PairOf(h), H)
  BY DEF Known
<1>2. QED
  BY <1>1, HeadMissingGood, ReadGood, HeadReadGood DEF Recover, Waits

LEMMA EndedGood ==
  ASSUME NEW H, NEW S, World(H, S), NEW s, Good(s, H, S), NEW w
  PROVE  Good(Ended(s, w), H, S)
<1>1. OK(Ended(s, w))
  BY EndedOK DEF Good
<1>2. QED
  BY <1>1, SameGround DEF Good, OK, Ended, PageState

LEMMA LastHeadGood ==
  ASSUME NEW H, NEW S, World(H, S), NEW s, Good(s, H, S), NEW h \in H
  PROVE  /\ Good([s EXCEPT !.lastHead = h], H, S)
         /\ Good([s EXCEPT !.lastHead = h, !.reads = @ \ {"Warm"}], H, S)
         /\ [s EXCEPT !.lastHead = h, !.reads = @ \ {"Warm"}].mine = s.mine
<1>1. h \in Head
  BY DEF World
<1>2. OK([s EXCEPT !.lastHead = h]) /\ OK([s EXCEPT !.lastHead = h, !.reads = @ \ {"Warm"}])
  BY <1>1, HeardOK DEF Good
<1>3. Grounded([s EXCEPT !.lastHead = h], H, S)
  BY SameGround DEF Good, OK, PageState
<1>4. Grounded([s EXCEPT !.lastHead = h, !.reads = @ \ {"Warm"}], H, S)
  BY SameGround DEF Good, OK, PageState
<1>5. QED
  BY <1>2, <1>3, <1>4 DEF Good, OK, PageState

LEMMA OnHeadGood ==
  ASSUME NEW H, NEW S, World(H, S), NEW p \in Pages, NEW s, Good(s, H, S), NEW h \in H
  PROVE  Good(OnHead(p, s, h), H, S)
<1> DEFINE j  == Judge(h, s.mine)
           s0 == [s EXCEPT !.lastHead = h, !.reads = @ \ {"Warm"}]
           s1 == IF "Recover" \in s0.reads THEN Recover(p, Ended(s0, "Recover"), h, j) ELSE s0
           s2 == IF "ReadBack" \in s1.reads THEN ReadBack(p, Ended(s1, "ReadBack"), h, j) ELSE s1
           s3 == IF "Verify" \in s2.reads THEN Verify(p, Ended(s2, "Verify"), h, j) ELSE s2
<1>1. j \in Judged /\ j.mine \in S
  BY JudgeMine
<1>2. Good(s0, H, S)
  BY LastHeadGood
<1> HIDE DEF j, s0
<1>3. Good(s1, H, S)
  BY <1>2, EndedGood, RecoverGood
<1> HIDE DEF s1
<1>4. Good(s2, H, S)
  BY <1>3, EndedGood, ReadBackGood
<1> HIDE DEF s2
<1>5. Good(s3, H, S)
  BY <1>1, <1>4, EndedGood, VerifyGood
<1> HIDE DEF s3
<1>6. Good(IF "Hint" \in s3.reads THEN Hint(p, Ended(s3, "Hint"), h, j) ELSE s3, H, S)
  BY <1>1, <1>5, EndedGood, HintGood
<1>7. QED
  BY <1>6 DEF OnHead, j, s0, s1, s2, s3

LEMMA OnHintGood ==
  ASSUME NEW H, NEW S, World(H, S), NEW s, Good(s, H, S)
  PROVE  Good(OnHint(s), H, S)
BY ReadGood DEF OnHint, Waits

LEMMA OnPushedGood ==
  ASSUME NEW H, NEW S, World(H, S), NEW p \in Pages, NEW s, Good(s, H, S), NEW h \in H
  PROVE  Good(OnPushed(p, s, h), H, S)
BY LastHeadGood, ReadBackGood, OnHintGood DEF OnPushed

----------------------------------------------------------------------------
(* The engine's cut, and what follows it. *)

LEMMA CutKeeps ==
  ASSUME NEW p \in Pages, NEW s \in PageState, NEW taken, NEW last, NEW failed
  PROVE  LET u == Cut(p, s, taken, last, failed)
         IN  /\ u.pub = s.pub /\ u.sign = s.sign /\ u.life = s.life /\ u.upd = s.upd
             /\ u.ans = s.ans /\ u.mine = s.mine /\ u.lastHead = s.lastHead
<1> DEFINE u      == Cut(p, s, taken, last, failed)
           fresh  == taken \ failed
           judged == [Tell(s, failed, "Conflict") EXCEPT !.until = last]
           root   == s.pub.root \cup ({p} \X fresh)
           c == [stage |-> "Racing", seq |-> s.pub.seq + 1, root |-> root,
                 base |-> s.pub.root, cut |-> fresh, through |-> Max(fresh)]
           told == [i \in Arrivals |-> IF i \in fresh THEN "Published" ELSE judged.told[i]]
<1>1. u = [judged EXCEPT !.told = told] \/ u = [judged EXCEPT !.commit = c]
  BY Zenon DEF Cut, Tell
<1> HIDE DEF c, told, fresh
<1>2. \A x : x \in {"pub", "sign", "life", "upd", "ans", "mine", "lastHead"} =>
        x \in DOMAIN judged /\ judged[x] = s[x]
  BY DEF Tell, PageState
<1> HIDE DEF judged, u
<1>3. \A x : x \in {"pub", "sign", "life", "upd", "ans", "mine", "lastHead"} => u[x] = s[x]
  BY <1>1, <1>2
<1>4. QED
  BY <1>3 DEF u

LEMMA CutGood ==
  ASSUME NEW H, NEW S, World(H, S), NEW p \in Pages, NEW s, Good(s, H, S), ~Committing(s),
         NEW taken \in SUBSET Arrivals, NEW last \in Nat, NEW failed \in SUBSET taken
  PROVE  Good(Cut(p, s, taken, last, failed), H, S)
<1> DEFINE t == Cut(p, s, taken, last, failed)
<1>1. OK(t)
  BY CutOK DEF Good
<1>2. /\ t.pub = s.pub /\ t.sign = s.sign /\ t.life = s.life /\ t.upd = s.upd
      /\ t.ans = s.ans /\ t.mine = s.mine
  BY CutKeeps DEF Good, OK
<1> HIDE DEF t
<1>3. QED
  BY <1>1, <1>2, SameGround DEF Good, t

LEMMA SendHeadGood ==
  ASSUME NEW H, NEW S, World(H, S), NEW p \in Pages, NEW s, Good(s, H, S),
         s.commit.stage = "Racing"
  PROVE  Good(SendHead(p, s), H, S)
<1> DEFINE c == [s.commit EXCEPT !.stage = "Heading"]
           t == [s EXCEPT !.commit = c]
<1>1. c \in Commit /\ c.stage = "Heading" /\ c.seq = s.commit.seq /\ c.base = s.commit.base
  BY DEF Good, OK, PageState, Commit
<1> HIDE DEF c
<1>2. /\ t \in PageState /\ t.commit = c /\ t.pub = s.pub /\ t.sign = s.sign
      /\ t.life = s.life /\ t.upd = s.upd /\ t.ans = s.ans /\ t.mine = s.mine
  BY <1>1 DEF Good, OK, PageState
<1>3. ~Owes(s) /\ Committing(s)
  BY DEF Good, OK, LaneOK, Committing
<1> HIDE DEF t
<1>4. OK(t)
  BY <1>1, <1>2, <1>3 DEF Good, OK, LaneOK, Owes
<1>5. SendHead(p, s) = Owe(p, t)
  BY DEF SendHead, c, t, Good, OK, PageState
<1>6. Good(t, H, S)
  BY <1>2, <1>4, SameGround DEF Good
<1>7. QED
  BY <1>1, <1>2, <1>5, <1>6, OweGood

LEMMA RejectedGood ==
  ASSUME NEW H, NEW S, World(H, S), NEW s, Good(s, H, S), s.commit.stage = "Racing"
  PROVE  Good(Rejected(s), H, S)
<1>1. ~Owes(s)
  BY DEF Good, OK, LaneOK
<1>2. QED
  BY <1>1, EndFailedGood, DropGood DEF Rejected

(* What was held stays held and what was signed stays signed. *)
LEMMA GroundGrows ==
  ASSUME NEW H, NEW S, NEW H2, NEW S2, H \subseteq H2, S \subseteq S2,
         NEW s, Grounded(s, H, S)
  PROVE  Grounded(s, H2, S2)
BY DEF Grounded, Known, Reached

----------------------------------------------------------------------------
(* The circumstances e of one event: `was`, the page as it meets it, with  *)
(* the head just read; `H`, the heads held; `S`, the records signed; `T`,  *)
(* the seq of the later of the signer's record and the Register; `now`,    *)
(* this page's reads are current; `heard`, the event is a head read;       *)
(* `final`, its signer may refuse for good.                                *)

(* The head last read was held.  With nothing owed no Sign is out.  A      *)
(* commit carries writes that wait for it.                                 *)
Tidy(e, s) ==
  /\ s.lastHead \in e.H
  /\ ~Owes(s) => s.sign = NoHead /\ s.ans = NoAnswer
  /\ Committing(s) => s.commit.through > 0 /\ s.commit.cut \subseteq Queue(s)

(* The signer names the truth, or a head behind it, and one that is there, *)
(* and refuses for good only if it may: a Sign asks for its prev's next.   *)
(* A landing asks from a head behind the one named.                        *)
Lands(e, s) ==
  /\ s.ans.current.seq <= e.T
  /\ s.ans.kind = "NotNext" => s.ans.current.seq >= 1
  /\ s.ans.kind = "None" => s.ans = NoAnswer
  /\ s.ans.kind = "Final" => e.final
  /\ s.sign = NoHead \/ s.sign.seq = s.sign.prev.seq + 1
  /\ IsVerifying(s) =>
       /\ 1 <= s.life.named.seq /\ s.life.named.seq <= e.T
       /\ s.sign = NoHead \/ s.sign.prev.seq < e.T
       /\ s.life.st = "Landing" /\ s.life.asks => s.life.from.seq < e.T

(* The head published is at most the one last read and no record of the    *)
(* page's own beats it; what is asked and answered lies past it.           *)
Stands(e, s) ==
  /\ s.pub.seq <= s.lastHead.seq
  /\ \E h \in e.H : s.pub = PairOf(h) /\ Winning(h, s.mine) = {}
  /\ s.sign = NoHead \/ s.pub.seq <= s.sign.prev.seq
  /\ s.life.st = "Landing" /\ s.life.asks => s.pub.seq <= s.life.from.seq
  /\ s.ans.kind \in {"Signed", "AlreadySigned"} => s.pub.seq < s.ans.head.seq

Sane(e, s) ==
  /\ Good(s, e.H, e.S)
  /\ Tidy(e, s)
  /\ Lands(e, s)
  /\ e.now => Stands(e, s)

(* The head h is the one the commit c asks for, its ledger copied from the *)
(* head g this page last read.                                             *)
AskOf(p, e, c, h) ==
  /\ c.stage # "Idle"
  /\ h.seq = c.seq /\ h.root = c.root /\ h.prev = [seq |-> c.seq - 1, root |-> c.base]
  /\ Known(h.prev, e.H)
  /\ \E g \in e.H :
       /\ h.through = Evicted([(IF PairOf(g) = h.prev THEN g.through ELSE NoThrough)
                                 EXCEPT ![p] = [seq |-> c.through, last |-> c.seq]])
       /\ e.now => h.prev.seq <= g.seq

(* The head read is past the published one's commit, or displaces it. *)
Passed(e) ==
  \/ e.was.lastHead.seq >= e.was.commit.seq
  \/ e.was.lastHead.seq = e.was.pub.seq /\ PairOf(e.was.lastHead) # e.was.pub

(* The witness of the head read: the commit is in it, or may be. *)
Shown(p, e) ==
  LET c == e.was.commit
      w == WitnessOf(p, e.was.lastHead, c.seq)
  IN  c.stage = "Heading" /\ w.kind = "Through" /\ w.seq >= c.through
Blind(p, e) ==
  e.was.commit.stage = "Heading" /\ WitnessOf(p, e.was.lastHead, e.was.commit.seq).kind = "Unknown"

(* The ways a commit ends, by what its writes are told. *)
Concludes(p, e, told) ==
  LET c == e.was.commit
      f == e.was.lastHead
      Tells(ws, fate) == told = Tell(e.was, ws, fate).told
  IN  \/ PairOf(f) = [seq |-> c.seq, root |-> c.root] /\ Tells(c.cut, "Published")
      \/ Passed(e) /\ Shown(p, e) /\ Tells(c.cut, "Published")
      \/ Passed(e) /\ Blind(p, e) /\ Tells(c.cut, "Unknown")
      \/ /\ Passed(e) /\ ~Shown(p, e) /\ ~Blind(p, e)
         /\ \E ws \in SUBSET c.cut : Tells(ws, "Lost")
      \/ /\ Tells(c.cut, "Failed")
         /\ \/ c.stage = "Racing"
            \/ e.was.ans.kind = "Final"
            \/ e.heard /\ e.T > f.seq + 1

(* From the page as it met the event to the page s: its commit goes on or  *)
(* has ended, and a Sign it asks for is its commit's or behind the truth.  *)
Follows(p, e, s) ==
  /\ s.lastHead = e.was.lastHead
  /\ e.heard => s.mine = e.was.mine
  /\ s.sign \in {NoHead, e.was.sign} \/ s.sign.prev.seq < e.T \/ AskOf(p, e, e.was.commit, s.sign)
  /\ \/ s.commit = e.was.commit /\ s.told = e.was.told
     \/ Committing(e.was) /\ s.commit = NoCommit /\ Concludes(p, e, s.told)

Setting(e) ==
  /\ World(e.H, e.S)
  /\ e.T \in Nat /\ e.now \in BOOLEAN /\ e.heard \in BOOLEAN
  /\ \A m \in e.S : m.seq = 0 => m = NoHead
  /\ Sane(e, e.was)

Track(p, e, s) == Setting(e) /\ Sane(e, s) /\ Follows(p, e, s)

----------------------------------------------------------------------------
(* What a step that is one assignment keeps. *)

LEMMA StartTrack ==
  ASSUME NEW p, NEW e, Setting(e)
  PROVE  Track(p, e, e.was)
BY DEF Setting, Track, Follows

LEMMA TrackType ==
  ASSUME NEW p, NEW e, NEW s, Track(p, e, s)
  PROVE  /\ World(e.H, e.S) /\ e.T \in Nat /\ Good(s, e.H, e.S) /\ s \in PageState /\ OK(s)
         /\ s.life \in Life /\ s.pub \in Pair /\ s.commit \in Commit
         /\ s.lastHead \in Head /\ s.lastHead \in e.H
BY DEF Track, Setting, Sane, Tidy, Good, OK, PageState, World

(* What this invariant reads is left alone. *)
LEMMA SameTrack ==
  ASSUME NEW p, NEW e, NEW s, Track(p, e, s), NEW t, Good(t, e.H, e.S),
         t.life = s.life, t.sign = s.sign, t.ans = s.ans, t.lastHead = s.lastHead,
         t.mine = s.mine, t.pub = s.pub, t.commit = s.commit, t.told = s.told
  PROVE  Track(p, e, t)
<1>1. Tidy(e, t)
  BY DEF Track, Sane, Tidy, Owes, Committing, Queue
<1>2. Lands(e, t)
  BY DEF Track, Sane, Lands, IsVerifying
<1>3. e.now => Stands(e, t)
  BY DEF Track, Sane, Stands
<1>4. Follows(p, e, t)
  BY DEF Track, Follows
<1>5. QED
  BY <1>1, <1>2, <1>3, <1>4 DEF Track, Sane

LEMMA ReadTrack ==
  ASSUME NEW p, NEW e, NEW s, Track(p, e, s), NEW w \in Waits
  PROVE  Track(p, e, Read(s, w))
<1>1. Good(Read(s, w), e.H, e.S)
  BY TrackType, ReadGood
<1>2. QED
  BY <1>1, TrackType, SameTrack DEF Read, PageState

LEMMA UpdateTrack ==
  ASSUME NEW p, NEW e, NEW s, Track(p, e, s), NEW h \in e.S
  PROVE  Track(p, e, Update(s, h))
<1>1. Good(Update(s, h), e.H, e.S)
  BY TrackType, UpdateGood
<1>2. QED
  BY <1>1, TrackType, SameTrack DEF Update, PageState

LEMMA EndedTrack ==
  ASSUME NEW p, NEW e, NEW s, Track(p, e, s), NEW w
  PROVE  Track(p, e, Ended(s, w))
<1>1. Good(Ended(s, w), e.H, e.S)
  BY TrackType, EndedGood
<1>2. QED
  BY <1>1, TrackType, SameTrack DEF Ended, PageState

LEMMA HasTrack ==
  ASSUME NEW p, NEW e, NEW s, Track(p, e, s)
  PROVE  Track(p, e, [s EXCEPT !.has = TRUE])
<1>1. Good([s EXCEPT !.has = TRUE], e.H, e.S)
  BY TrackType, HasGood
<1>2. QED
  BY <1>1, TrackType, SameTrack DEF PageState

(* The owed head is let go, and every wait for it: also when a step has    *)
(* ended the commit and moved the published head (`t`), as it may then.    *)
LEMMA QuietTrack ==
  ASSUME NEW p, NEW e, NEW s, Track(p, e, s), NEW t, Good(t, e.H, e.S),
         t.life = IdleLife, t.sign = NoHead, t.ans = NoAnswer, t.lastHead = s.lastHead,
         t.mine = s.mine, t.pub = s.pub, t.commit = s.commit, t.told = s.told
  PROVE  Track(p, e, t)
<1>1. IdleLife.st = "Idle" /\ NoAnswer.kind = "None" /\ NoAnswer.current.seq = 0
  BY DEF IdleLife, NoAnswer, Genesis
<1>2. Tidy(e, t)
  BY DEF Track, Sane, Tidy, Committing, Queue
<1>3. Lands(e, t)
  BY <1>1, TrackType DEF Lands, IsVerifying
<1>4. e.now => Stands(e, t)
  BY <1>1 DEF Track, Sane, Stands
<1>5. Follows(p, e, t)
  BY DEF Track, Follows
<1>6. QED
  BY <1>2, <1>3, <1>4, <1>5 DEF Track, Sane

LEMMA IdleTrack ==
  ASSUME NEW p, NEW e, NEW s, Track(p, e, s)
  PROVE  /\ Track(p, e, Idle(EndWaits(s))) /\ ~Owes(Idle(EndWaits(s)))
         /\ ~Owes(s) => Track(p, e, Idle(s)) /\ ~Owes(Idle(s))
<1>1. Good(Idle(EndWaits(s)), e.H, e.S) /\ Good(Idle(s), e.H, e.S) /\ EndWaits(s) \in PageState
  BY TrackType, EndWaitsGood, IdleGood DEF Good, OK
<1>2. /\ Idle(EndWaits(s)).life = IdleLife /\ Idle(EndWaits(s)).sign = NoHead
      /\ Idle(EndWaits(s)).ans = NoAnswer /\ Idle(EndWaits(s)).lastHead = s.lastHead
      /\ Idle(EndWaits(s)).mine = s.mine /\ Idle(EndWaits(s)).pub = s.pub
      /\ Idle(EndWaits(s)).commit = s.commit /\ Idle(EndWaits(s)).told = s.told
  BY <1>1, TrackType DEF Idle, EndWaits, PageState
<1>3. /\ Idle(s).life = IdleLife /\ Idle(s).sign = s.sign
      /\ Idle(s).ans = s.ans /\ Idle(s).lastHead = s.lastHead
      /\ Idle(s).mine = s.mine /\ Idle(s).pub = s.pub
      /\ Idle(s).commit = s.commit /\ Idle(s).told = s.told
  BY TrackType DEF Idle, PageState
<1>4. ~Owes(s) => s.sign = NoHead /\ s.ans = NoAnswer
  BY DEF Track, Sane, Tidy
<1>5. IdleLife.st = "Idle"
  BY DEF IdleLife
<1>6. QED
  BY <1>1, <1>2, <1>3, <1>4, <1>5, QuietTrack DEF Owes

(* A page that owes nothing publishes the head it read, its commit going   *)
(* on or ended.                                                            *)
LEMMA MovedTrack ==
  ASSUME NEW p, NEW e, NEW s, Track(p, e, s), NEW t, Good(t, e.H, e.S),
         ~Owes(t), t.sign = NoHead, t.ans = NoAnswer, t.lastHead = s.lastHead,
         t.mine = s.mine,
         \/ t.pub = s.pub
         \/ t.pub = PairOf(s.lastHead) /\ (e.now => Winning(s.lastHead, s.mine) = {}),
         \/ t.commit = s.commit /\ t.told = s.told
         \/ Committing(s) /\ t.commit = NoCommit /\ Concludes(p, e, t.told)
  PROVE  Track(p, e, t)
<1>1. NoAnswer.kind = "None" /\ NoAnswer.current.seq = 0 /\ NoCommit.stage = "Idle"
  BY DEF NoAnswer, Genesis, NoCommit
<1>2. Tidy(e, t)
  BY <1>1 DEF Track, Sane, Tidy, Committing, Queue
<1>3. Lands(e, t)
  BY <1>1, TrackType DEF Lands, IsVerifying, Owes
<1>4. e.now => Stands(e, t)
  <2> SUFFICES ASSUME e.now
               PROVE  Stands(e, t)
    OBVIOUS
  <2>1. Stands(e, s)
    BY DEF Track, Sane
  <2>2. t.life.st = "Idle"
    BY DEF Owes
  <2>3. CASE t.pub = s.pub
    BY <1>1, <2>1, <2>2, <2>3 DEF Stands
  <2>4. CASE t.pub = PairOf(s.lastHead) /\ Winning(s.lastHead, s.mine) = {}
    <3>1. t.pub.seq = t.lastHead.seq /\ t.lastHead.seq \in Nat /\ s.lastHead \in e.H
      BY <2>4, TrackType DEF PairOf, Head
    <3>2. QED
      BY <1>1, <2>2, <2>4, <3>1 DEF Stands
  <2>5. QED
    BY <2>3, <2>4
<1>5. Follows(p, e, t)
  BY <1>1 DEF Track, Follows, Committing
<1>6. QED
  BY <1>2, <1>3, <1>4, <1>5 DEF Track, Sane

(* A life that goes on: what it names is the truth's, or behind it.        *)
LEMMA LifeTrack ==
  ASSUME NEW p, NEW e, NEW s, Track(p, e, s), NEW t, Good(t, e.H, e.S), Owes(t),
         t.sign \in {s.sign, NoHead}, t.ans = s.ans, t.lastHead = s.lastHead,
         t.mine = s.mine, t.pub = s.pub, t.commit = s.commit, t.told = s.told,
         IsVerifying(t) => /\ 1 <= t.life.named.seq /\ t.life.named.seq <= e.T
                           /\ t.sign = NoHead \/ IsVerifying(s),
         t.life.st = "Landing" /\ t.life.asks =>
           t.life.from.seq < e.T /\ (e.now => s.pub.seq <= t.life.from.seq)
  PROVE  Track(p, e, t)
<1>1. Tidy(e, t)
  BY DEF Track, Sane, Tidy, Committing, Queue
<1>2. Lands(e, t)
  BY DEF Track, Sane, Lands, IsVerifying
<1>3. e.now => Stands(e, t)
  BY DEF Track, Sane, Stands
<1>4. Follows(p, e, t)
  BY DEF Track, Follows
<1>5. QED
  BY <1>1, <1>2, <1>3, <1>4 DEF Track, Sane

(* A Sign goes out: behind the truth, or for the commit.                   *)
LEMMA AskSignTrack ==
  ASSUME NEW p \in Pages, NEW e, NEW s, Track(p, e, s), Owes(s),
         NEW prev \in Pair, Reached(prev, e.H), NEW root \in Roots,
         \/ prev.seq < e.T
         \/ ~IsVerifying(s) /\ AskOf(p, e, e.was.commit, AskSign(p, s, prev, root).sign),
         e.now => s.pub.seq <= prev.seq
  PROVE  Track(p, e, AskSign(p, s, prev, root))
<1> DEFINE t == AskSign(p, s, prev, root)
<1>1. Good(t, e.H, e.S)
  BY TrackType, AskSignGood
<1>2. /\ t.sign.prev = prev /\ t.sign.seq = prev.seq + 1 /\ t.ans = NoAnswer /\ t.pub = s.pub /\ t.life = s.life
      /\ t.mine = s.mine /\ t.lastHead = s.lastHead /\ t.commit = s.commit /\ t.told = s.told
  BY TrackType DEF PageState, AskSign
<1>3. NoAnswer.kind = "None" /\ NoAnswer.current.seq = 0
  BY DEF NoAnswer, Genesis
<1> HIDE DEF t
<1>4. Tidy(e, t)
  BY <1>2 DEF Track, Sane, Tidy, Committing, Queue, Owes
<1>5. Lands(e, t)
  BY <1>2, <1>3, TrackType DEF Track, Sane, Lands, IsVerifying
<1>6. e.now => Stands(e, t)
  BY <1>2, <1>3 DEF Track, Sane, Stands
<1>7. Follows(p, e, t)
  BY <1>2 DEF Track, Follows, t
<1>8. QED
  BY <1>1, <1>4, <1>5, <1>6, <1>7 DEF Track, Sane, t

(* The head a commit owes is asked on the head published, with the ledger  *)
(* of the head last read.                                                  *)
LEMMA SignOwedTrack ==
  ASSUME NEW p \in Pages, NEW e, NEW s, Track(p, e, s), Owes(s), ~IsVerifying(s)
  PROVE  Track(p, e, SignOwed(p, s))
<1> DEFINE prev == [seq |-> s.life.owed.seq - 1, root |-> s.life.owed.base]
           c == s.commit
           h == AskSign(p, s, s.pub, c.root).sign
           copied == IF PairOf(s.lastHead) = s.pub THEN s.lastHead.through ELSE NoThrough
<1>1. /\ c.stage = "Heading" /\ s.life.owed = OwedOf(c) /\ c \in Commit
      /\ c.seq = s.pub.seq + 1 /\ c.base = s.pub.root /\ s.pub \in Pair
      /\ Committing(s) /\ c.through > 0
  BY TrackType DEF OK, LaneOK, Owes, Committing, Track, Sane, Tidy
<1>2. /\ s.life.owed.seq = c.seq /\ s.life.owed.base = c.base /\ s.life.owed.root = c.root
  BY <1>1 DEF OwedOf
<1>3. prev = s.pub
  <2>1. s.pub = [seq |-> s.pub.seq, root |-> s.pub.root] /\ s.pub.seq \in Nat
    BY <1>1
  <2>2. s.life.owed.seq - 1 = s.pub.seq
    BY <1>1, <1>2, <2>1
  <2>3. QED
    BY <1>1, <1>2, <2>1, <2>2
<1>4. SignOwed(p, s) = AskSign(p, s, s.pub, c.root)
  BY <1>2, <1>3 DEF SignOwed
<1>5. c = e.was.commit
  BY <1>1 DEF Track, Follows, NoCommit
<1>6. h = [seq |-> s.pub.seq + 1, root |-> c.root, prev |-> s.pub, through |-> LedgerOf(p, s, s.pub)]
  BY TrackType DEF AskSign, PageState
<1>7. Known(s.pub, e.H) /\ Reached(s.pub, e.H)
  BY KnownReached, TrackType DEF Good, Grounded
<1>8. e.now => s.pub.seq <= s.lastHead.seq
  BY DEF Track, Sane, Stands
<1>9. LedgerOf(p, s, s.pub) = Evicted([copied EXCEPT ![p] = [seq |-> c.through, last |-> c.seq]])
  BY <1>1 DEF LedgerOf
<1>10. AskOf(p, e, c, h)
  <2>1. h.seq = c.seq /\ h.root = c.root /\ h.prev = s.pub /\ h.through = LedgerOf(p, s, s.pub)
    BY <1>1, <1>6
  <2>2. s.pub = [seq |-> c.seq - 1, root |-> c.base]
    BY <1>1, <1>2, <1>3
  <2>3. /\ h.through = Evicted([(IF PairOf(s.lastHead) = h.prev THEN s.lastHead.through ELSE NoThrough)
                                  EXCEPT ![p] = [seq |-> c.through, last |-> c.seq]])
        /\ e.now => h.prev.seq <= s.lastHead.seq
    BY <1>8, <1>9, <2>1
  <2> HIDE DEF h
  <2>4. s.lastHead \in e.H
    BY TrackType
  <2>5. Known(h.prev, e.H)
    BY <1>7, <2>1
  <2>6. c.stage # "Idle"
    BY <1>1
  <2>7. h.prev = [seq |-> c.seq - 1, root |-> c.base]
    BY <2>1, <2>2
  <2>8. QED
    BY <2>1, <2>3, <2>4, <2>5, <2>6, <2>7 DEF AskOf
<1>11. c.root \in Roots /\ s.pub.seq <= s.pub.seq
  BY <1>1 DEF Commit
<1>12. QED
  BY <1>1, <1>4, <1>5, <1>7, <1>10, <1>11, AskSignTrack

LEMMA OweTrack ==
  ASSUME NEW p \in Pages, NEW e, NEW s, Track(p, e, s), s.commit.stage = "Heading"
  PROVE  Track(p, e, Owe(p, s))
<1> DEFINE owing == [IdleLife EXCEPT !.st = "Signing", !.owed = OwedOf(s.commit)]
           u == Idle(EndWaits(s))
           t == [EndWaits(s) EXCEPT !.life = owing]
<1>1. owing \in Life /\ owing.st = "Signing" /\ owing.owed = OwedOf(s.commit)
      /\ owing.from = Genesis /\ owing.record = NoHead
  BY TrackType DEF Commit, Life, Stages, Owed, OwedOf, IdleLife, Genesis, NoHead, Head, NoThrough, NoEntry, Entry
<1>2. Track(p, e, u) /\ ~Owes(u)
  BY IdleTrack
<1>3. EndWaits(s) \in PageState /\ Good(EndWaits(s), e.H, e.S)
  BY TrackType, EndWaitsGood DEF Good, OK
<1>4. /\ EndWaits(s).commit = s.commit /\ EndWaits(s).pub = s.pub
      /\ EndWaits(s).sign = NoHead /\ EndWaits(s).ans = NoAnswer
      /\ EndWaits(s).lastHead = s.lastHead /\ EndWaits(s).mine = s.mine
      /\ EndWaits(s).told = s.told
  BY TrackType DEF EndWaits, PageState
<1> HIDE DEF owing
<1>5. /\ t \in PageState /\ t.life = owing
      /\ t.commit = s.commit /\ t.pub = s.pub /\ t.told = s.told
      /\ t.sign = NoHead /\ t.ans = NoAnswer /\ t.upd = EndWaits(s).upd
      /\ t.mine = s.mine /\ t.lastHead = s.lastHead
  BY <1>1, <1>3, <1>4 DEF PageState
<1>6. /\ u.commit = s.commit /\ u.pub = s.pub /\ u.told = s.told
      /\ u.sign = NoHead /\ u.ans = NoAnswer
      /\ u.mine = s.mine /\ u.lastHead = s.lastHead
  BY <1>3, <1>4 DEF PageState, Idle
<1> HIDE DEF t, u
<1>7. Owes(t) /\ ~IsVerifying(t) /\ OK(t)
  BY <1>1, <1>5, TrackType DEF OK, LaneOK, Owes, Committing, IsVerifying
<1>8. Grounded(t, e.H, e.S)
  BY <1>1, <1>3, <1>4, <1>5, SameGround, TrackType DEF Good
<1>9. Track(p, e, t)
  BY <1>1, <1>2, <1>5, <1>6, <1>7, <1>8, LifeTrack DEF Good, IsVerifying
<1>10. Owe(p, s) = s \/ Owe(p, s) = SignOwed(p, t)
  BY DEF Owe, t, owing
<1>11. QED
  BY <1>7, <1>9, <1>10, SignOwedTrack

LEMMA HeadNotLandedTrack ==
  ASSUME NEW p \in Pages, NEW e, NEW s, Track(p, e, s)
  PROVE  Track(p, e, HeadNotLanded(p, s))
BY OweTrack DEF HeadNotLanded

LEMMA DropTrack ==
  ASSUME NEW p, NEW e, NEW s, Track(p, e, s)
  PROVE  Track(p, e, DropDeadHead(s))
BY IdleTrack DEF DropDeadHead

(* A commit has ended in the state u: nothing is owed after, so every wait *)
(* for an owed head has ended.                                             *)
LEMMA DropEnded ==
  ASSUME NEW p, NEW e, NEW s, Track(p, e, s), NEW u \in PageState,
         u.life = s.life, u.sign = s.sign, u.ans = s.ans, u.commit = NoCommit,
         OK(DropDeadHead(u)), NEW t, t = DropDeadHead(u)
  PROVE  /\ ~Owes(t) /\ t.sign = NoHead /\ t.ans = NoAnswer /\ t.pub = u.pub
         /\ t.commit = NoCommit /\ t.told = u.told /\ t.lastHead = u.lastHead /\ t.mine = u.mine
<1>1. EndWaits(u) \in PageState
  BY Constants DEF EndWaits, PageState
<1>2. LET v == Idle(EndWaits(u))
      IN  /\ v.life = IdleLife /\ v.sign = NoHead /\ v.ans = NoAnswer /\ v.pub = u.pub
          /\ v.commit = NoCommit /\ v.told = u.told /\ v.lastHead = u.lastHead /\ v.mine = u.mine
  BY <1>1 DEF Idle, EndWaits, PageState
<1>3. t = u \/ t = Idle(EndWaits(u))
  BY DEF DropDeadHead
<1>4. t.commit = NoCommit /\ LaneOK(t)
  BY <1>2, <1>3 DEF OK
<1>5. ~Owes(t)
  BY <1>4 DEF LaneOK, NoCommit
<1>6. ~Owes(s) => s.sign = NoHead /\ s.ans = NoAnswer
  BY DEF Track, Sane, Tidy
<1>7. QED
  BY <1>2, <1>3, <1>5, <1>6 DEF Owes

----------------------------------------------------------------------------
(* The ends of the commit. *)

(* While a commit goes on, nothing of it has changed since the event came. *)
LEMMA InFlight ==
  ASSUME NEW p, NEW e, NEW s, Track(p, e, s), Committing(s)
  PROVE  /\ Committing(e.was) /\ s.commit = e.was.commit /\ s.told = e.was.told
         /\ s.pub = e.was.pub /\ s.lastHead = e.was.lastHead
         /\ e.was.told \in [Arrivals -> Fates]
<1>1. s.commit = e.was.commit /\ s.told = e.was.told /\ s.lastHead = e.was.lastHead
  BY DEF Track, Follows, Committing, NoCommit
<1>2. OK(s) /\ OK(e.was) /\ s \in PageState /\ e.was \in PageState
  BY DEF Track, Setting, Sane, Good, OK
<1>3. s.pub \in Pair /\ e.was.pub \in Pair /\ e.was.told \in [Arrivals -> Fates]
  BY <1>2 DEF PageState
<1>4. /\ s.commit.seq = s.pub.seq + 1 /\ s.commit.base = s.pub.root
      /\ s.commit.seq = e.was.pub.seq + 1 /\ s.commit.base = e.was.pub.root
  BY <1>1, <1>2 DEF OK, LaneOK, Committing
<1>5. s.pub.seq = e.was.pub.seq
  BY <1>3, <1>4
<1>6. s.pub = e.was.pub
  <2>1. /\ s.pub = [seq |-> s.pub.seq, root |-> s.pub.root]
        /\ e.was.pub = [seq |-> e.was.pub.seq, root |-> e.was.pub.root]
    BY <1>3
  <2>2. s.pub.root = e.was.pub.root
    BY <1>4
  <2>3. QED
    BY <1>5, <2>1, <2>2
<1>7. QED
  BY <1>1, <1>3, <1>6 DEF Committing

LEMMA TellTold ==
  ASSUME NEW s \in PageState, NEW ws, NEW fate
  PROVE  /\ Tell(s, ws, fate).told = [i \in Arrivals |-> IF i \in ws THEN fate ELSE s.told[i]]
         /\ Tell(s, ws, fate).life = s.life /\ Tell(s, ws, fate).sign = s.sign
         /\ Tell(s, ws, fate).ans = s.ans /\ Tell(s, ws, fate).lastHead = s.lastHead
         /\ Tell(s, ws, fate).mine = s.mine
BY DEF Tell, PageState

(* What a commit in flight tells its writes is what it would have told     *)
(* them when the event came.                                               *)
LEMMA TellWas ==
  ASSUME NEW p, NEW e, NEW s, Track(p, e, s), Committing(s), NEW fate
  PROVE  /\ Tell(s, s.commit.cut, fate).told = Tell(e.was, e.was.commit.cut, fate).told
         /\ \A ws : Tell(s, ws, fate).told = Tell(e.was, ws, fate).told
<1>1. s \in PageState /\ e.was \in PageState
  BY DEF Track, Setting, Sane, Good, OK
<1>2. s.commit = e.was.commit /\ s.told = e.was.told
  BY InFlight
<1>3. ASSUME NEW ws
      PROVE  Tell(s, ws, fate).told = Tell(e.was, ws, fate).told
  <2>1. /\ Tell(s, ws, fate).told = [i \in Arrivals |-> IF i \in ws THEN fate ELSE s.told[i]]
        /\ Tell(e.was, ws, fate).told = [i \in Arrivals |-> IF i \in ws THEN fate ELSE e.was.told[i]]
    BY <1>1, TellTold
  <2>2. QED
    BY <1>2, <2>1
<1>4. QED
  BY <1>2, <1>3

LEMMA PublishTrack ==
  ASSUME NEW p, NEW e, NEW s, Track(p, e, s), Committing(s),
         PairOf(s.lastHead) = [seq |-> s.commit.seq, root |-> s.commit.root],
         e.now => Winning(s.lastHead, s.mine) = {}
  PROVE  Track(p, e, DropDeadHead(Publish(s)))
<1> DEFINE v == Tell(s, s.commit.cut, "Published")
           u == Publish(s)
           t == DropDeadHead(u)
<1>1. Known([seq |-> s.commit.seq, root |-> s.commit.root], e.H)
  BY TrackType DEF Known
<1>2. Good(t, e.H, e.S)
  BY <1>1, TrackType, PublishGood
<1>3. v \in PageState /\ u \in PageState
  BY TellType, PublishType, TrackType DEF Fates
<1>4. /\ v.told = Tell(e.was, e.was.commit.cut, "Published").told
      /\ v.life = s.life /\ v.sign = s.sign /\ v.ans = s.ans /\ v.lastHead = s.lastHead
      /\ v.mine = s.mine
  <2>1. v.told = Tell(e.was, e.was.commit.cut, "Published").told
    BY TellWas
  <2>2. QED
    BY <2>1, TrackType DEF Tell, PageState
<1>5. u = [v EXCEPT !.pub = [seq |-> s.commit.seq, root |-> s.commit.root], !.commit = NoCommit]
  BY DEF Publish
<1> HIDE DEF v, u
<1>6. /\ u.told = Tell(e.was, e.was.commit.cut, "Published").told
      /\ u.pub = PairOf(s.lastHead) /\ u.commit = NoCommit
      /\ u.life = s.life /\ u.sign = s.sign /\ u.ans = s.ans /\ u.lastHead = s.lastHead
      /\ u.mine = s.mine
  BY <1>3, <1>4, <1>5 DEF PageState
<1>7. Concludes(p, e, u.told)
  BY <1>6, InFlight DEF Concludes
<1> HIDE DEF t
<1>8. /\ ~Owes(t) /\ t.sign = NoHead /\ t.ans = NoAnswer /\ t.pub = u.pub
      /\ t.commit = NoCommit /\ t.told = u.told /\ t.lastHead = u.lastHead /\ t.mine = u.mine
  BY <1>2, <1>3, <1>6, DropEnded DEF Good, t
<1>9. QED
  BY <1>2, <1>6, <1>7, <1>8, MovedTrack DEF t, u

LEMMA EndFailedTrack ==
  ASSUME NEW p, NEW e, NEW s, Track(p, e, s), Committing(s), ~Owes(s),
         \/ e.was.commit.stage = "Racing"
         \/ e.was.ans.kind = "Final"
         \/ e.heard /\ e.T > e.was.lastHead.seq + 1
  PROVE  Track(p, e, DropDeadHead(EndFailed(s)))
<1> DEFINE v == Tell(s, s.commit.cut, "Failed")
           t == EndFailed(s)
<1>1. Good(t, e.H, e.S)
  BY TrackType, EndFailedGood
<1>2. v \in PageState /\ e.was \in PageState
  BY TellType, TrackType DEF Fates, Track, Setting, Sane, Good, OK
<1>3. /\ v.told = Tell(e.was, e.was.commit.cut, "Failed").told
      /\ v.life = s.life /\ v.sign = s.sign /\ v.ans = s.ans /\ v.lastHead = s.lastHead
      /\ v.mine = s.mine /\ v.pub = s.pub
  <2>1. v.told = Tell(e.was, e.was.commit.cut, "Failed").told
    BY TellWas
  <2>2. QED
    BY <2>1, TrackType DEF Tell, PageState
<1>4. t = [v EXCEPT !.commit = NoCommit]
  BY DEF EndFailed
<1> HIDE DEF v, t
<1>5. /\ t.told = Tell(e.was, e.was.commit.cut, "Failed").told
      /\ t.pub = s.pub /\ t.commit = NoCommit
      /\ t.life = s.life /\ t.sign = s.sign /\ t.ans = s.ans /\ t.lastHead = s.lastHead
      /\ t.mine = s.mine
  BY <1>2, <1>3, <1>4 DEF PageState
<1>6. Concludes(p, e, t.told)
  BY <1>5 DEF Concludes
<1>7. s.sign = NoHead /\ s.ans = NoAnswer
  BY DEF Track, Sane, Tidy
<1>8. Track(p, e, t)
  BY <1>1, <1>5, <1>6, <1>7, MovedTrack DEF Owes
<1>9. QED
  BY <1>8, DropTrack DEF t

(* A head read past the commit ends it as the witness says. *)
LEMMA EndDeadTrack ==
  ASSUME NEW p \in Pages, NEW e, NEW s, Track(p, e, s), Committing(s), Passed(e),
         e.now => Winning(s.lastHead, s.mine) = {},
         NEW t, t = DropDeadHead(EndDead(p, s, PairOf(s.lastHead))), Good(t, e.H, e.S)
  PROVE  Track(p, e, t)
<1> DEFINE c == s.commit
           f == s.lastHead
           pair == PairOf(f)
           headed == c.stage = "Heading"
           w == Witness(p, s, pair)
           landed == headed /\ c.through > 0 /\ w.kind = "Through" /\ w.seq >= c.through
           unknown == headed /\ w.kind = "Unknown"
           spent(i) == s.tries[i] + (IF headed THEN 1 ELSE 0)
           lost == {i \in c.cut : <<p, i>> \in Forced \/ spent(i) > MaxTries}
           tries == [i \in Arrivals |-> IF i \in c.cut THEN spent(i) ELSE s.tries[i]]
           again == [Tell(s, lost, "Lost") EXCEPT !.tries = tries]
           after == IF landed THEN Tell(s, c.cut, "Published")
                    ELSE IF unknown THEN Tell(s, c.cut, "Unknown") ELSE again
           u == EndDead(p, s, pair)
<1>1. /\ c = e.was.commit /\ s.told = e.was.told /\ f = e.was.lastHead
      /\ e.was \in PageState /\ s \in PageState /\ c.through > 0
  BY InFlight, TrackType DEF Track, Setting, Sane, Good, OK, Tidy
<1>2. w = WitnessOf(p, f, c.seq)
  BY DEF Witness
<1>3. (landed <=> Shown(p, e)) /\ (unknown <=> Blind(p, e))
  BY <1>1, <1>2 DEF Shown, Blind
<1>4. u \in PageState /\ pair \in Pair
  BY TrackType, EndDeadType, PairOfType
<1>5. Tell(s, lost, "Lost") \in PageState
  BY <1>1, TellType DEF Fates
<1>6. u = [after EXCEPT !.pub = pair, !.commit = NoCommit]
  BY <1>1, <1>5 DEF EndDead, Tell, PageState
<1>7. /\ Tell(s, c.cut, "Published") \in PageState /\ Tell(s, c.cut, "Unknown") \in PageState
  BY <1>1, TellType DEF Fates, Commit, PageState
<1> HIDE DEF landed, unknown, lost, tries, w
<1>8. /\ again.told = Tell(s, lost, "Lost").told /\ again.life = s.life
      /\ again.sign = s.sign /\ again.ans = s.ans /\ again.lastHead = f /\ again.mine = s.mine
  <2>1. /\ Tell(s, lost, "Lost").life = s.life /\ Tell(s, lost, "Lost").sign = s.sign
        /\ Tell(s, lost, "Lost").ans = s.ans /\ Tell(s, lost, "Lost").lastHead = f
        /\ Tell(s, lost, "Lost").mine = s.mine
    BY <1>1 DEF Tell, PageState
  <2> DEFINE v == Tell(s, lost, "Lost")
  <2>2. again = [v EXCEPT !.tries = tries]
    OBVIOUS
  <2> HIDE DEF v, again
  <2>3. QED
    BY <1>5, <2>1, <2>2 DEF v, PageState
<1> HIDE DEF again
<1>9. /\ after.life = s.life /\ after.sign = s.sign /\ after.ans = s.ans
      /\ after.lastHead = f /\ after.mine = s.mine
      /\ after.told = IF landed THEN Tell(s, c.cut, "Published").told
                      ELSE IF unknown THEN Tell(s, c.cut, "Unknown").told
                      ELSE Tell(s, lost, "Lost").told
  <2>1. CASE landed
    BY <1>1, <2>1 DEF Tell, PageState
  <2>2. CASE ~landed /\ unknown
    BY <1>1, <2>2 DEF Tell, PageState
  <2>3. CASE ~landed /\ ~unknown
    BY <1>8, <2>3
  <2>4. QED
    BY <2>1, <2>2, <2>3
<1> HIDE DEF after, u
<1>10. /\ u.life = after.life /\ u.sign = after.sign /\ u.ans = after.ans /\ u.told = after.told
       /\ u.lastHead = after.lastHead /\ u.mine = after.mine /\ u.pub = pair /\ u.commit = NoCommit
  BY <1>4, <1>6 DEF PageState
<1>11. ASSUME NEW ws, NEW fate
       PROVE  Tell(s, ws, fate).told = Tell(e.was, ws, fate).told
  BY TellWas
<1>12. lost \in SUBSET c.cut
  BY DEF lost
<1>13. Concludes(p, e, u.told)
  <2>1. CASE Shown(p, e)
    BY <1>1, <1>3, <1>9, <1>10, <1>11, <2>1 DEF Concludes
  <2>2. CASE ~Shown(p, e) /\ Blind(p, e)
    BY <1>1, <1>3, <1>9, <1>10, <1>11, <2>2 DEF Concludes
  <2>3. CASE ~Shown(p, e) /\ ~Blind(p, e)
    <3>1. u.told = Tell(e.was, lost, "Lost").told
      BY <1>3, <1>9, <1>10, <1>11, <2>3
    <3>2. QED
      BY <1>1, <1>12, <2>3, <3>1 DEF Concludes
  <2>4. QED
    BY <2>1, <2>2, <2>3
<1>14. /\ ~Owes(t) /\ t.sign = NoHead /\ t.ans = NoAnswer /\ t.pub = u.pub
       /\ t.commit = NoCommit /\ t.told = u.told /\ t.lastHead = u.lastHead /\ t.mine = u.mine
  BY <1>4, <1>9, <1>10, DropEnded DEF Good, u
<1>15. QED
  BY <1>9, <1>10, <1>13, <1>14, MovedTrack

----------------------------------------------------------------------------
(* The engine's events. *)

LEMMA HeadConflictTrack ==
  ASSUME NEW p \in Pages, NEW e, NEW s, Track(p, e, s),
         e.now => Winning(s.lastHead, s.mine) = {}
  PROVE  Track(p, e, HeadConflict(p, s, PairOf(s.lastHead)))
<1> DEFINE f == s.lastHead
           pair == PairOf(f)
           t == HeadConflict(p, s, pair)
           displaced == pair.seq = s.pub.seq /\ pair # s.pub
<1>1. Known(pair, e.H) /\ pair \in Pair /\ pair.seq = f.seq
  BY TrackType, PairOfType DEF Known, PairOf
<1>2. Good(t, e.H, e.S)
  BY <1>1, TrackType, HeadConflictGood
<1>3. CASE Committing(s) /\ pair.seq < s.commit.seq /\ ~displaced
  <2>1. t = DropDeadHead(HeadNotLanded(p, s))
    BY <1>3 DEF HeadConflict, EngineConflict
  <2>2. QED
    BY <2>1, HeadNotLandedTrack, DropTrack
<1>4. CASE Committing(s) /\ ~(pair.seq < s.commit.seq /\ ~displaced)
  <2>1. t = DropDeadHead(EndDead(p, s, pair))
    BY <1>4 DEF HeadConflict, EngineConflict
  <2>2. pair.seq >= s.commit.seq \/ displaced
    BY <1>1, <1>4, TrackType DEF Commit
  <2>3. Passed(e)
    BY <1>1, <1>4, <2>2, InFlight DEF Passed
  <2>4. QED
    BY <1>2, <1>4, <2>1, <2>3, EndDeadTrack
<1>5. CASE ~Committing(s)
  <2> DEFINE u == [s EXCEPT !.pub = pair]
  <2>1. /\ u \in PageState /\ u.pub = pair /\ u.sign = s.sign /\ u.ans = s.ans /\ u.life = s.life
        /\ u.mine = s.mine /\ u.lastHead = s.lastHead /\ u.commit = s.commit /\ u.told = s.told
    BY <1>1, TrackType DEF PageState
  <2>2. t = DropDeadHead(u)
    BY <1>5 DEF HeadConflict, EngineConflict
  <2> HIDE DEF u, t
  <2>3. ~Owes(s) /\ s.sign = NoHead /\ s.ans = NoAnswer
    BY <1>5, TrackType DEF OK, LaneOK, Committing, Track, Sane, Tidy
  <2>4. ~Owes(u) /\ t = u
    BY <2>1, <2>2, <2>3 DEF Owes, DropDeadHead
  <2>5. QED
    BY <1>2, <2>1, <2>3, <2>4, MovedTrack DEF t
<1>6. QED
  BY <1>3, <1>4, <1>5

LEMMA HeadReadTrack ==
  ASSUME NEW p \in Pages, NEW e, NEW s, Track(p, e, s),
         e.now => Winning(s.lastHead, s.mine) = {}
  PROVE  Track(p, e, HeadRead(p, s, PairOf(s.lastHead)))
<1> DEFINE c == s.commit
           pair == PairOf(s.lastHead)
           moved == IF ~Committing(s) THEN [s EXCEPT !.pub = pair]
                    ELSE IF pair.seq = c.seq /\ pair.root = c.root THEN Publish(s)
                    ELSE IF pair.seq < c.seq THEN HeadNotLanded(p, s)
                    ELSE EngineConflict(p, s, pair)
<1>1. Track(p, e, DropDeadHead(moved))
  <2>1. CASE ~Committing(s)
    BY <2>1, HeadConflictTrack DEF HeadConflict, EngineConflict
  <2>2. CASE Committing(s) /\ pair.seq = c.seq /\ pair.root = c.root
    <3>1. pair = [seq |-> c.seq, root |-> c.root]
      BY <2>2 DEF PairOf
    <3>2. QED
      BY <2>2, <3>1, PublishTrack
  <2>3. CASE Committing(s) /\ ~(pair.seq = c.seq /\ pair.root = c.root) /\ pair.seq < c.seq
    BY <2>3, HeadNotLandedTrack, DropTrack
  <2>4. CASE Committing(s) /\ ~(pair.seq = c.seq /\ pair.root = c.root) /\ ~(pair.seq < c.seq)
    BY <2>4, HeadConflictTrack DEF HeadConflict
  <2>5. QED
    BY <2>1, <2>2, <2>3, <2>4
<1>2. HeadRead(p, s, pair) = [DropDeadHead(moved) EXCEPT !.has = TRUE]
  BY DEF HeadRead
<1> HIDE DEF moved
<1>3. QED
  BY <1>1, <1>2, HasTrack

LEMMA HeadMissingTrack ==
  ASSUME NEW p \in Pages, NEW e, NEW s, Track(p, e, s), s.lastHead = NoHead
  PROVE  Track(p, e, HeadMissing(p, s))
<1> DEFINE moved == IF Committing(s) THEN HeadNotLanded(p, s) ELSE [s EXCEPT !.pub = Genesis]
<1>1. Winning(NoHead, s.mine) = {}
  <2>1. s.mine \subseteq e.S /\ \A m \in e.S : m.seq = 0 => m = NoHead
    BY DEF Track, Setting, Sane, Good, Grounded
  <2>2. QED
    BY <2>1 DEF Winning, NoHead
<1>2. Track(p, e, DropDeadHead(moved))
  <2>1. CASE Committing(s)
    BY <2>1, HeadNotLandedTrack, DropTrack
  <2>2. CASE ~Committing(s)
    <3>1. PairOf(s.lastHead) = Genesis
      BY DEF PairOf, NoHead, Genesis
    <3>2. QED
      BY <1>1, <2>2, <3>1, HeadConflictTrack DEF HeadConflict, EngineConflict
  <2>3. QED
    BY <2>1, <2>2
<1>3. HeadMissing(p, s) = [DropDeadHead(moved) EXCEPT !.has = TRUE]
  BY DEF HeadMissing
<1> HIDE DEF moved
<1>4. QED
  BY <1>2, <1>3, HasTrack

LEMMA RefuseTrack ==
  ASSUME NEW p, NEW e, NEW s, Track(p, e, s),
         \/ e.was.ans.kind = "Final"
         \/ e.heard /\ e.T > e.was.lastHead.seq + 1
  PROVE  Track(p, e, Refuse(s))
<1> DEFINE u == Idle(EndWaits(s))
<1>1. Track(p, e, u) /\ ~Owes(u)
  BY IdleTrack
<1> HIDE DEF u
<1>2. \/ Refuse(s) = DropDeadHead(u)
      \/ Committing(u) /\ Refuse(s) = DropDeadHead(EndFailed(u))
  BY DEF Refuse, HeadRefused, u
<1>3. QED
  BY <1>1, <1>2, DropTrack, EndFailedTrack

LEMMA AdoptForeignTrack ==
  ASSUME NEW p \in Pages, NEW e, NEW s, Track(p, e, s),
         e.now => Winning(s.lastHead, s.mine) = {}
  PROVE  Track(p, e, AdoptForeign(p, s, s.lastHead))
<1>1. Track(p, e, Idle(EndWaits(s)))
  BY IdleTrack
<1>2. Idle(EndWaits(s)).lastHead = s.lastHead /\ Idle(EndWaits(s)).mine = s.mine
  BY TrackType DEF Idle, EndWaits, PageState
<1>3. QED
  BY <1>1, <1>2, HeadConflictTrack DEF AdoptForeign

LEMMA ConfirmedTrack ==
  ASSUME NEW p, NEW e, NEW s, Track(p, e, s), Confirms(s, s.lastHead),
         e.now => Winning(s.lastHead, s.mine) = {}
  PROVE  Track(p, e, HeadConfirmed(s, s.lastHead.seq))
<1> DEFINE h == s.lastHead
<1>1. CASE Committing(s) /\ s.commit.seq = h.seq
  <2>1. s.commit.seq = s.pub.seq + 1 /\ s.pub \in Pair /\ PairOf(h).seq = h.seq
    BY <1>1, TrackType DEF OK, LaneOK, PairOf
  <2>2. s.life.st = "Written"
    <3>1. SUFFICES ASSUME s.life.st # "Written"
                   PROVE  FALSE
      OBVIOUS
    <3>2. s.life.st = "Idle"
      BY <3>1, Zenon DEF Confirms
    <3>3. PairOf(h) = s.pub
      BY <3>2, Zenon DEF Confirms
    <3>4. QED
      BY <1>1, <2>1, <3>3
  <2>3. /\ s.life.owed = OwedOf(s.commit)
        /\ PairOf(h) = [seq |-> s.life.owed.seq, root |-> s.life.owed.root]
    BY <2>2, TrackType DEF Confirms, OK, LaneOK, Owes
  <2>4. PairOf(h) = [seq |-> s.commit.seq, root |-> s.commit.root]
    BY <2>3 DEF OwedOf
  <2>5. QED
    BY <1>1, <2>4, PublishTrack DEF HeadConfirmed
<1>2. CASE ~(Committing(s) /\ s.commit.seq = h.seq)
  BY <1>2, DropTrack DEF HeadConfirmed
<1>3. QED
  BY <1>1, <1>2

----------------------------------------------------------------------------
(* The head's table, by event. *)

LEMMA LifeSetTrack ==
  ASSUME NEW p, NEW e, NEW s, Track(p, e, s), Owes(s),
         NEW l \in Life, l.st # "Idle", l.owed = s.life.owed, Reached(l.from, e.H), l.record \in e.S,
         l.st \in {"Verifying", "Landing"} =>
           /\ 1 <= l.named.seq /\ l.named.seq <= e.T
           /\ s.sign = NoHead \/ IsVerifying(s),
         l.st = "Landing" /\ l.asks =>
           l.from.seq < e.T /\ (e.now => s.pub.seq <= l.from.seq)
  PROVE  Track(p, e, [s EXCEPT !.life = l])
<1> DEFINE t == [s EXCEPT !.life = l]
<1>1. Good(t, e.H, e.S)
  BY TrackType, LifeGood
<1>2. /\ t.life = l /\ t.sign = s.sign /\ t.ans = s.ans /\ t.lastHead = s.lastHead
      /\ t.mine = s.mine /\ t.pub = s.pub /\ t.commit = s.commit /\ t.told = s.told
  BY TrackType DEF PageState
<1> HIDE DEF t
<1>3. QED
  BY <1>1, <1>2, LifeTrack DEF Owes, IsVerifying, t

(* A signed record, past the published head, is noted and sent.            *)
LEMMA NotedTrack ==
  ASSUME NEW p, NEW e, NEW s, Track(p, e, s), ~e.heard, NEW h \in e.S,
         e.now => s.pub.seq < h.seq
  PROVE  Track(p, e, [s EXCEPT !.mine = Noted(h, @), !.upd = h])
<1> DEFINE t == [s EXCEPT !.mine = Noted(h, @), !.upd = h]
<1>1. Good(t, e.H, e.S)
  BY TrackType, MineGood
<1>2. /\ t.life = s.life /\ t.sign = s.sign /\ t.ans = s.ans /\ t.lastHead = s.lastHead
      /\ t.mine = Noted(h, s.mine) /\ t.pub = s.pub /\ t.commit = s.commit /\ t.told = s.told
  BY TrackType DEF PageState
<1> HIDE DEF t
<1>3. Tidy(e, t)
  BY <1>2 DEF Track, Sane, Tidy, Owes, Committing, Queue
<1>4. Lands(e, t)
  BY <1>2 DEF Track, Sane, Lands, IsVerifying
<1>5. e.now => Stands(e, t)
  <2> SUFFICES ASSUME e.now
               PROVE  Stands(e, t)
    OBVIOUS
  <2>1. Stands(e, s) /\ s.pub.seq < h.seq
    BY DEF Track, Sane
  <2>2. PICK g \in e.H : s.pub = PairOf(g) /\ Winning(g, s.mine) = {}
    BY <2>1 DEF Stands
  <2>3. g.seq = s.pub.seq /\ s.pub.seq \in Nat /\ h.seq \in Nat
    BY <2>2, TrackType DEF PairOf, World, Head
  <2>4. Winning(g, t.mine) = {}
    BY <1>2, <2>1, <2>2, <2>3 DEF Winning, Noted
  <2>5. QED
    BY <1>2, <2>1, <2>2, <2>4 DEF Stands
<1>6. Follows(p, e, t)
  BY <1>2 DEF Track, Follows
<1>7. QED
  BY <1>1, <1>3, <1>4, <1>5, <1>6 DEF Track, Sane, t

(* The lives the table sets. *)
WrittenLife(o, r) == [IdleLife EXCEPT !.st = "Written", !.owed = o, !.record = r]
BackingLife(o)    == [IdleLife EXCEPT !.st = "BackingOff", !.owed = o]
NamingLife(o, named) == [IdleLife EXCEPT !.st = "Verifying", !.owed = o, !.named = named]
TimedLife(o, named)  == [IdleLife EXCEPT !.st = "Verifying", !.owed = o, !.named = named,
                                         !.timer = TRUE]
LandingLife(o, named, asks, from) ==
  [IdleLife EXCEPT !.st = "Landing", !.owed = o, !.named = named, !.asks = asks, !.from = from]

LEMMA WrittenIs ==
  ASSUME NEW o \in Owed, NEW r \in Head
  PROVE  /\ WrittenLife(o, r) \in Life /\ WrittenLife(o, r).st = "Written"
         /\ WrittenLife(o, r).owed = o /\ WrittenLife(o, r).record = r
         /\ WrittenLife(o, r).from = Genesis
BY Constants DEF Life, IdleLife, Stages, WrittenLife

LEMMA BackingIs ==
  ASSUME NEW o \in Owed
  PROVE  /\ BackingLife(o) \in Life /\ BackingLife(o).st = "BackingOff"
         /\ BackingLife(o).owed = o /\ BackingLife(o).record = NoHead
         /\ BackingLife(o).from = Genesis
BY Constants DEF Life, IdleLife, Stages, BackingLife

LEMMA NamingIs ==
  ASSUME NEW o \in Owed, NEW named \in Pair
  PROVE  /\ NamingLife(o, named) \in Life /\ NamingLife(o, named).st = "Verifying"
         /\ NamingLife(o, named).owed = o /\ NamingLife(o, named).record = NoHead
         /\ NamingLife(o, named).from = Genesis /\ NamingLife(o, named).named = named
BY Constants DEF Life, IdleLife, Stages, NamingLife

LEMMA TimedIs ==
  ASSUME NEW o \in Owed, NEW named \in Pair
  PROVE  /\ TimedLife(o, named) \in Life /\ TimedLife(o, named).st = "Verifying"
         /\ TimedLife(o, named).owed = o /\ TimedLife(o, named).record = NoHead
         /\ TimedLife(o, named).from = Genesis /\ TimedLife(o, named).named = named
BY Constants DEF Life, IdleLife, Stages, TimedLife

(* The answer to the Sign of the page as it met the event. *)
Answering(e, s) ==
  /\ ~e.heard /\ Owes(s) /\ s.sign = NoHead /\ s.ans = NoAnswer
  /\ s.pub = e.was.pub /\ s.life = e.was.life /\ e.was.ans # NoAnswer

LEMMA AnswerFacts ==
  ASSUME NEW e, Setting(e), NEW a, a = e.was.ans
  PROVE  /\ a \in Answer /\ a.head \in e.S /\ a.head \in Head /\ a.current \in Pair
         /\ a.current.seq <= e.T /\ (a.kind = "NotNext" => a.current.seq >= 1)
         /\ a.kind = "None" => a = NoAnswer
         /\ e.now /\ a.kind \in {"Signed", "AlreadySigned"} => e.was.pub.seq < a.head.seq
<1>1. a \in Answer /\ a.head \in e.S
  BY DEF Setting, Sane, Good, OK, PageState, Grounded
<1>2. a.head \in Head /\ a.current \in Pair
  BY <1>1 DEF Answer
<1>3. QED
  BY <1>1, <1>2 DEF Setting, Sane, Lands, Stands

LEMMA SignerOnCommitTrack ==
  ASSUME NEW p \in Pages, NEW e, NEW s, Track(p, e, s), Answering(e, s), NEW a, a = e.was.ans
  PROVE  Track(p, e, SignerOnCommit(p, s, a))
<1> DEFINE o == s.life.owed
<1>1. o \in Owed /\ Setting(e) /\ Owes(s)
  BY TrackType DEF Life, Track, Answering
<1>2. /\ a \in Answer /\ a.head \in e.S /\ a.head \in Head /\ a.current \in Pair
      /\ a.current.seq <= e.T /\ (a.kind = "NotNext" => a.current.seq >= 1)
      /\ e.now /\ a.kind \in {"Signed", "AlreadySigned"} => s.pub.seq < a.head.seq
  BY <1>1, AnswerFacts DEF Answering
<1>3. Reached(Genesis, e.H) /\ NoHead \in e.S
  BY TrackType, ConstantsGround DEF World
<1>4. CASE a.kind \in {"Signed", "AlreadySigned"}
  <2> DEFINE t == [s EXCEPT !.mine = Noted(a.head, @), !.upd = a.head]
             l == WrittenLife(o, a.head)
  <2>1. Track(p, e, t)
    BY <1>2, <1>4, NotedTrack DEF Answering
  <2>2. t.life = s.life
    BY TrackType DEF PageState
  <2>3. l \in Life /\ l.st = "Written" /\ l.owed = o /\ l.record = a.head /\ l.from = Genesis
    BY <1>1, <1>2, WrittenIs
  <2>4. SignerOnCommit(p, s, a) = [t EXCEPT !.life = l]
    BY <1>4, TrackType DEF SignerOnCommit, PageState, WrittenLife
  <2> HIDE DEF t, l
  <2>5. QED
    BY <1>1, <1>2, <1>3, <2>1, <2>2, <2>3, <2>4, LifeSetTrack DEF Owes
<1>5. CASE a.kind = "NotNext"
  <2> DEFINE l == NamingLife(o, a.current)
  <2>1. /\ l \in Life /\ l.st = "Verifying" /\ l.owed = o /\ l.record = NoHead /\ l.from = Genesis
        /\ l.named = a.current
    BY <1>1, <1>2, NamingIs
  <2>2. SignerOnCommit(p, s, a) = Read([s EXCEPT !.life = l], "Verify")
    BY <1>5 DEF SignerOnCommit, VerifyNamed, NamingLife
  <2> HIDE DEF l
  <2>3. Track(p, e, [s EXCEPT !.life = l])
    BY <1>1, <1>2, <1>3, <1>5, <2>1, LifeSetTrack DEF Answering
  <2>4. QED
    BY <2>2, <2>3, ReadTrack DEF Waits
<1>6. CASE a.kind \in {"Retry", "HeadUnknown"}
  <2> DEFINE t == IF a.kind = "HeadUnknown" THEN Read(s, "Warm") ELSE s
             l == BackingLife(o)
  <2>1. Track(p, e, t) /\ t.life = s.life
    <3>1. Track(p, e, Read(s, "Warm"))
      BY ReadTrack DEF Waits
    <3>3. Read(s, "Warm").life = s.life
      BY TrackType DEF Read, PageState
    <3>2. QED
      BY <3>1, <3>3
  <2>2. l \in Life /\ l.st = "BackingOff" /\ l.owed = o /\ l.record = NoHead /\ l.from = Genesis
    BY <1>1, BackingIs
  <2>3. SignerOnCommit(p, s, a) = [t EXCEPT !.life = l]
    BY <1>6, TrackType DEF SignerOnCommit, PageState, Read, BackingLife
  <2> HIDE DEF t, l
  <2>4. QED
    BY <1>1, <1>3, <2>1, <2>2, <2>3, LifeSetTrack DEF Owes
<1>7. CASE a.kind = "Final"
  BY <1>7, RefuseTrack DEF SignerOnCommit
<1>8. a.kind # "None"
  BY <1>1, AnswerFacts DEF Answering
<1>9. QED
  BY <1>2, <1>4, <1>5, <1>6, <1>7, <1>8 DEF Answer, AnswerKinds

LEMMA SignerOnLandingTrack ==
  ASSUME NEW p \in Pages, NEW e, NEW s, Track(p, e, s), Answering(e, s), IsVerifying(s),
         NEW a, a = e.was.ans
  PROVE  Track(p, e, SignerOnLanding(p, s, a))
<1> DEFINE o == s.life.owed
           l(named) == TimedLife(o, named)
           later == [seq |-> IF s.life.named.seq > a.current.seq
                               THEN s.life.named.seq ELSE a.current.seq,
                     root |-> a.current.root]
<1>1. o \in Owed /\ Setting(e) /\ Owes(s) /\ s.life.named \in Pair /\ e.T \in Nat
  BY TrackType DEF Life, Track, Answering
<1>2. /\ a \in Answer /\ a.head \in e.S /\ a.head \in Head /\ a.current \in Pair
      /\ a.current.seq <= e.T
      /\ e.now /\ a.kind \in {"Signed", "AlreadySigned"} => s.pub.seq < a.head.seq
  BY <1>1, AnswerFacts DEF Answering
<1>3. Reached(Genesis, e.H) /\ NoHead \in e.S
  BY TrackType, ConstantsGround DEF World
<1>4. 1 <= s.life.named.seq /\ s.life.named.seq <= e.T
  BY DEF Track, Sane, Lands
<1>5. ASSUME NEW named \in Pair, 1 <= named.seq, named.seq <= e.T
      PROVE  Track(p, e, [s EXCEPT !.life = l(named)])
  <2>1. /\ l(named) \in Life /\ l(named).st = "Verifying" /\ l(named).owed = o
        /\ l(named).record = NoHead /\ l(named).from = Genesis /\ l(named).named = named
    BY <1>1, <1>5, TimedIs
  <2> HIDE DEF l
  <2>2. QED
    BY <1>1, <1>3, <1>5, <2>1, LifeSetTrack DEF Answering
<1>6. later \in Pair /\ 1 <= later.seq /\ later.seq <= e.T
  BY <1>1, <1>2, <1>4
<1>7. CASE a.kind \in {"Signed", "AlreadySigned"}
  BY <1>2, <1>7, NotedTrack DEF SignerOnLanding, Answering
<1>8. CASE a.kind = "NotNext"
  <2>1. SignerOnLanding(p, s, a) = [s EXCEPT !.life = l(later)]
    BY <1>8 DEF SignerOnLanding, TimedLife
  <2> HIDE DEF l, later
  <2>2. QED
    BY <1>5, <1>6, <2>1
<1>9. CASE a.kind \in {"Retry", "HeadUnknown"}
  <2>1. SignerOnLanding(p, s, a) = [s EXCEPT !.life = l(s.life.named)]
    BY <1>9 DEF SignerOnLanding, TimedLife
  <2>2. QED
    BY <1>1, <1>4, <1>5, <2>1
<1>10. CASE a.kind = "Final"
  BY <1>10, RefuseTrack DEF SignerOnLanding
<1>11. a.kind # "None"
  BY <1>1, AnswerFacts DEF Answering
<1>12. QED
  BY <1>2, <1>7, <1>8, <1>9, <1>10, <1>11 DEF Answer, AnswerKinds

(* The Sign in flight has ended, whatever its answer. *)
LEMMA HeardTrack ==
  ASSUME NEW p, NEW e, NEW s, Track(p, e, s)
  PROVE  LET t == [s EXCEPT !.sign = NoHead, !.ans = NoAnswer]
         IN  /\ Track(p, e, t) /\ t.life = s.life /\ t.sign = NoHead /\ t.ans = NoAnswer
             /\ t.pub = s.pub
<1> DEFINE t == [s EXCEPT !.sign = NoHead, !.ans = NoAnswer]
<1>1. Good(t, e.H, e.S)
  BY TrackType, HeardGood
<1>2. /\ t.life = s.life /\ t.sign = NoHead /\ t.ans = NoAnswer /\ t.lastHead = s.lastHead
      /\ t.mine = s.mine /\ t.pub = s.pub /\ t.commit = s.commit /\ t.told = s.told
  BY TrackType DEF PageState
<1> HIDE DEF t
<1>3. NoAnswer.kind = "None" /\ NoAnswer.current.seq = 0
  BY DEF NoAnswer, Genesis
<1>4. Tidy(e, t)
  BY <1>2 DEF Track, Sane, Tidy, Committing, Queue
<1>5. Lands(e, t)
  BY <1>2, <1>3, TrackType DEF Track, Sane, Lands, IsVerifying
<1>6. e.now => Stands(e, t)
  BY <1>2, <1>3 DEF Track, Sane, Stands
<1>7. Follows(p, e, t)
  BY <1>2 DEF Track, Follows
<1>8. QED
  BY <1>1, <1>2, <1>4, <1>5, <1>6, <1>7 DEF Track, Sane, t

LEMMA OnSignerTrack ==
  ASSUME NEW p \in Pages, NEW e, Setting(e), ~e.heard, e.was.ans # NoAnswer
  PROVE  Track(p, e, OnSigner(p, e.was))
<1> DEFINE s == e.was
           t == [s EXCEPT !.sign = NoHead, !.ans = NoAnswer]
<1>1. /\ Track(p, e, t) /\ t.life = s.life /\ t.sign = NoHead /\ t.ans = NoAnswer /\ t.pub = s.pub
  BY StartTrack, HeardTrack
<1>2. \/ OnSigner(p, s) = t
      \/ s.life.st = "Signing" /\ OnSigner(p, s) = SignerOnCommit(p, t, s.ans)
      \/ s.life.st = "Landing" /\ OnSigner(p, s) = SignerOnLanding(p, t, s.ans)
  BY DEF OnSigner
<1> HIDE DEF t
<1>3. Owes(s) => Answering(e, t)
  BY <1>1 DEF Answering, Owes
<1>4. QED
  BY <1>1, <1>2, <1>3, SignerOnCommitTrack, SignerOnLandingTrack DEF Owes, IsVerifying

LEMMA OnUpdatedTrack ==
  ASSUME NEW p, NEW e, NEW s, Track(p, e, s)
  PROVE  Track(p, e, OnUpdated(s))
<1>1. Track(p, e, [s EXCEPT !.upd = NoHead])
  BY UpdateTrack, TrackType DEF Update, World
<1>2. QED
  BY <1>1, ReadTrack DEF OnUpdated, Waits

LEMMA OnSignLostTrack ==
  ASSUME NEW p \in Pages, NEW e, NEW s, Track(p, e, s)
  PROVE  Track(p, e, OnSignLost(p, s))
<1> DEFINE l == s.life
           t == [s EXCEPT !.sign = NoHead, !.ans = NoAnswer]
<1>1. Track(p, e, t) /\ t.life = l /\ t.pub = s.pub
  BY HeardTrack
<1>2. l.from \in Pair /\ Reached(l.from, e.H) /\ l.named.root \in Roots
  BY TrackType DEF Life, Good, Grounded
<1>3. \/ OnSignLost(p, s) = t
      \/ l.st = "Signing" /\ OnSignLost(p, s) = SignOwed(p, t)
      \/ l.st = "Landing" /\ l.asks /\ OnSignLost(p, s) = AskSign(p, t, l.from, l.named.root)
  BY DEF OnSignLost
<1>4. l.st = "Landing" /\ l.asks => l.from.seq < e.T /\ (e.now => s.pub.seq <= l.from.seq)
  BY DEF Track, Sane, Lands, Stands, IsVerifying
<1> HIDE DEF t
<1>5. CASE l.st = "Landing" /\ l.asks /\ OnSignLost(p, s) = AskSign(p, t, l.from, l.named.root)
  BY <1>1, <1>2, <1>4, <1>5, AskSignTrack DEF Owes
<1>6. QED
  BY <1>1, <1>3, <1>5, SignOwedTrack DEF Owes, IsVerifying

(* A life in the same stage but for a counter or a timer, or in Signing.   *)
LEMMA LifeFieldsTrack ==
  ASSUME NEW p, NEW e, NEW s, Track(p, e, s), Owes(s), NEW n \in Nat
  PROVE  /\ ~IsVerifying(s) => /\ Track(p, e, [s EXCEPT !.life.st = "Signing"])
                               /\ Owes([s EXCEPT !.life.st = "Signing"])
                               /\ ~IsVerifying([s EXCEPT !.life.st = "Signing"])
         /\ Track(p, e, [s EXCEPT !.life.timer = FALSE])
         /\ Track(p, e, [s EXCEPT !.life.stale = n])
<1> DEFINE l1 == [s.life EXCEPT !.st = "Signing"]
           l2 == [s.life EXCEPT !.timer = FALSE]
           l3 == [s.life EXCEPT !.stale = n]
<1>1. /\ s.life \in Life /\ Reached(s.life.from, e.H) /\ s.life.record \in e.S /\ s \in PageState
  BY TrackType DEF Good, Grounded
<1>2. /\ l1 \in Life /\ l1.owed = s.life.owed /\ l1.st = "Signing"
      /\ l1.from = s.life.from /\ l1.record = s.life.record
      /\ l2 \in Life /\ l2.owed = s.life.owed /\ l2.st = s.life.st /\ l2.named = s.life.named
      /\ l2.from = s.life.from /\ l2.record = s.life.record /\ l2.asks = s.life.asks
      /\ l3 \in Life /\ l3.owed = s.life.owed /\ l3.st = s.life.st /\ l3.named = s.life.named
      /\ l3.from = s.life.from /\ l3.record = s.life.record /\ l3.asks = s.life.asks
  BY <1>1 DEF Life, Stages
<1>3. /\ [s EXCEPT !.life.st = "Signing"] = [s EXCEPT !.life = l1]
      /\ [s EXCEPT !.life.timer = FALSE] = [s EXCEPT !.life = l2]
      /\ [s EXCEPT !.life.stale = n] = [s EXCEPT !.life = l3]
  BY <1>1 DEF PageState
<1>4. /\ IsVerifying(s) => 1 <= s.life.named.seq /\ s.life.named.seq <= e.T
      /\ s.life.st = "Landing" /\ s.life.asks =>
           s.life.from.seq < e.T /\ (e.now => s.pub.seq <= s.life.from.seq)
  BY DEF Track, Sane, Lands, Stands, IsVerifying
<1>5. [s EXCEPT !.life = l1].life = l1
  BY <1>1 DEF PageState
<1> HIDE DEF l1, l2, l3
<1>6. Track(p, e, [s EXCEPT !.life = l1])
  BY <1>1, <1>2, LifeSetTrack
<1>7. Track(p, e, [s EXCEPT !.life = l2])
  BY <1>1, <1>2, <1>4, LifeSetTrack DEF Owes, IsVerifying
<1>8. Track(p, e, [s EXCEPT !.life = l3])
  BY <1>1, <1>2, <1>4, LifeSetTrack DEF Owes, IsVerifying
<1>9. QED
  BY <1>2, <1>3, <1>5, <1>6, <1>7, <1>8 DEF Owes, IsVerifying

LEMMA OnDueTrack ==
  ASSUME NEW p \in Pages, NEW e, NEW s, Track(p, e, s)
  PROVE  Track(p, e, OnDue(p, s))
<1>1. CASE s.life.st = "BackingOff"
  BY <1>1, LifeFieldsTrack, SignOwedTrack DEF OnDue, Owes, IsVerifying
<1>2. CASE s.life.st = "Verifying"
  BY <1>2, LifeFieldsTrack, ReadTrack DEF OnDue, Owes, Waits
<1>3. CASE s.life.st \notin {"BackingOff", "Verifying"}
  BY <1>3, ReadTrack DEF OnDue, Waits
<1>4. QED
  BY <1>1, <1>2, <1>3

LEMMA StaleTrack ==
  ASSUME NEW p, NEW e, NEW s, Track(p, e, s), Owes(s)
  PROVE  Track(p, e, Stale(s))
<1>1. s.life.stale + 1 \in Nat /\ s.life.record \in e.S
  BY TrackType DEF Life, Good, Grounded
<1>2. Track(p, e, [s EXCEPT !.life.stale = 0]) /\ Track(p, e, [s EXCEPT !.life.stale = s.life.stale + 1])
  BY <1>1, LifeFieldsTrack
<1>3. Stale(s) \in {Update([s EXCEPT !.life.stale = 0], s.life.record),
                    [s EXCEPT !.life.stale = s.life.stale + 1]}
  BY DEF Stale
<1>4. QED
  BY <1>1, <1>2, <1>3, UpdateTrack

(* What the one judgement says of the head last read. *)
LEMMA JudgeIs ==
  ASSUME NEW p, NEW e, NEW s, Track(p, e, s), NEW j, j = Judge(s.lastHead, s.mine)
  PROVE  /\ j \in Judged /\ j.mine \in e.S
         /\ j.kind = "Head" => Winning(s.lastHead, s.mine) = {}
         /\ j.kind = "NoHead" <=> s.lastHead = NoHead
<1>1. j \in Judged /\ j.mine \in e.S
  BY TrackType, JudgeMine
<1>2. QED
  BY <1>1 DEF Judge

LEMMA ReadBackTrack ==
  ASSUME NEW p \in Pages, NEW e, NEW s, Track(p, e, s), NEW h, h = s.lastHead,
         NEW j, j = Judge(h, s.mine)
  PROVE  Track(p, e, ReadBack(p, s, h, j))
<1>1. s.life.record \in e.S
  BY TrackType DEF Good, Grounded
<1>2. j.kind \in Verdicts /\ (j.kind = "Head" => Winning(h, s.mine) = {})
  BY JudgeIs DEF Judged
<1>3. \/ j.kind = "Head" /\ Confirms(s, h) /\ ReadBack(p, s, h, j) = HeadConfirmed(s, h.seq)
      \/ ReadBack(p, s, h, j) = s
      \/ ReadBack(p, s, h, j) = Update(s, s.life.record)
      \/ j.kind = "Head" /\ ReadBack(p, s, h, j) = AdoptForeign(p, s, h)
      \/ Owes(s) /\ ReadBack(p, s, h, j) = Stale(s)
  BY <1>2 DEF ReadBack, Owes, Verdicts
<1>4. QED
  BY <1>1, <1>2, <1>3, ConfirmedTrack, UpdateTrack, AdoptForeignTrack, StaleTrack

LEMMA VerifyTrack ==
  ASSUME NEW p \in Pages, NEW e, NEW s, Track(p, e, s), e.heard, NEW h, h = s.lastHead,
         NEW j, j = Judge(h, s.mine)
  PROVE  Track(p, e, Verify(p, s, h, j))
<1> DEFINE l == s.life
           mineFrom == IF l.st = "Landing" THEN l.from ELSE Genesis
           mineAsks == l.st = "Landing" /\ l.asks
           mine == LandingLife(l.owed, l.named, mineAsks, mineFrom)
           prev == LandFrom(s, h, j)
           landing == LandingLife(l.owed, l.named, TRUE, prev)
           again == TimedLife(l.owed, l.named)
<1>1. /\ l \in Life /\ l.owed \in Owed /\ l.named \in Pair /\ l.named.root \in Roots
      /\ mineFrom \in Pair /\ mineAsks \in BOOLEAN /\ s.pub \in Pair /\ e.T \in Nat
  BY TrackType, Constants DEF Life
<1>2. /\ j \in Judged /\ j.mine \in e.S /\ j.kind \in Verdicts
      /\ j.kind = "Head" => Winning(h, s.mine) = {}
      /\ j.kind = "NoHead" <=> h = NoHead
  BY JudgeIs DEF Judged
<1>3. h \in Head /\ h \in e.H /\ Known(PairOf(h), e.H) /\ h = e.was.lastHead
  BY TrackType DEF Known, Track, Follows
<1>4. Reached(Genesis, e.H) /\ NoHead \in e.S /\ Reached(mineFrom, e.H)
  BY TrackType, ConstantsGround DEF World, Good, Grounded
<1>5. prev \in Pair /\ Reached(prev, e.H) /\ prev.seq = h.seq
  <2>1. CASE j.kind = "NoHead"
    <3>1. prev = [seq |-> 0, root |-> s.pub.root] /\ h.seq = 0
      BY <1>2, <2>1 DEF LandFrom, NoHead
    <3>2. prev.seq = 0 /\ prev \in Pair
      BY <1>1, <3>1
    <3>3. QED
      BY <3>1, <3>2, ZeroReached, TrackType
  <2>2. CASE j.kind # "NoHead"
    BY <1>3, <2>2, KnownReached, TrackType DEF LandFrom, PairOf
  <2>3. QED
    BY <2>1, <2>2
<1>6. CASE ~IsVerifying(s)
  BY <1>6 DEF Verify
<1>7. CASE IsVerifying(s)
  <2>1. Owes(s)
    BY <1>7 DEF IsVerifying, Owes
  <2>2. /\ 1 <= l.named.seq /\ l.named.seq <= e.T
        /\ l.st = "Landing" /\ l.asks => l.from.seq < e.T /\ (e.now => s.pub.seq <= l.from.seq)
    BY <1>7 DEF Track, Sane, Lands, Stands
  <2>3. e.now => s.pub.seq <= h.seq
    BY DEF Track, Sane, Stands
  <2> HIDE DEF prev, mineFrom, mineAsks
  <2>4. /\ mine \in Life /\ mine.st = "Landing" /\ mine.owed = l.owed /\ mine.from = mineFrom
        /\ mine.record = NoHead /\ mine.named = l.named /\ mine.asks = mineAsks
    BY <1>1, Constants DEF LandingLife, Life, IdleLife, Stages
  <2>5. /\ landing \in Life /\ landing.st = "Landing" /\ landing.owed = l.owed /\ landing.from = prev
        /\ landing.record = NoHead /\ landing.named = l.named /\ landing.asks = TRUE
    BY <1>1, <1>5, Constants DEF LandingLife, Life, IdleLife, Stages
  <2>6. /\ again \in Life /\ again.st = "Verifying" /\ again.owed = l.owed /\ again.from = Genesis
        /\ again.record = NoHead /\ again.named = l.named
    BY <1>1, TimedIs
  <2> HIDE DEF mine, landing, again
  <2>7. Track(p, e, [s EXCEPT !.life = mine])
    BY <1>4, <1>7, <2>1, <2>2, <2>4, LifeSetTrack DEF mineFrom, mineAsks
  <2>8. Track(p, e, [s EXCEPT !.life = again])
    BY <1>4, <1>7, <2>1, <2>2, <2>6, LifeSetTrack
  <2>9. \/ Verify(p, s, h, j) = LandMine([s EXCEPT !.life = mine], j)
        \/ j.kind = "Head" /\ Verify(p, s, h, j) = AdoptForeign(p, s, h)
        \/ l.named.seq > h.seq + 1 /\ Verify(p, s, h, j) = Refuse(s)
        \/ Verify(p, s, h, j) = [s EXCEPT !.life = again]
        \/ /\ Verify(p, s, h, j) = AskSign(p, [s EXCEPT !.life = landing], prev, l.named.root)
           /\ ~NamedReached(s, h) \/ j.kind = "NoHead"
           /\ j.kind = "NoHead" => s.pub.seq = 0
    BY <1>2, <1>7, Zenon DEF Verify, Verdicts, mine, again, landing, prev, mineFrom, mineAsks,
             LandingLife, TimedLife
  <2>10. CASE Verify(p, s, h, j) = LandMine([s EXCEPT !.life = mine], j)
    BY <1>2, <2>7, <2>10, UpdateTrack DEF LandMine
  <2>11. CASE j.kind = "Head" /\ Verify(p, s, h, j) = AdoptForeign(p, s, h)
    BY <1>2, <2>11, AdoptForeignTrack
  <2>12. CASE l.named.seq > h.seq + 1 /\ Verify(p, s, h, j) = Refuse(s)
    <3>1. e.T > e.was.lastHead.seq + 1
      BY <1>1, <1>3, <2>2, <2>12 DEF Head
    <3>2. QED
      BY <2>12, <3>1, RefuseTrack
  <2>13. CASE /\ Verify(p, s, h, j) = AskSign(p, [s EXCEPT !.life = landing], prev, l.named.root)
              /\ ~NamedReached(s, h) \/ j.kind = "NoHead"
    <3>1. prev.seq < l.named.seq /\ prev.seq < e.T
      BY <1>1, <1>2, <1>3, <1>5, <2>2, <2>13 DEF NamedReached, NoHead, Head
    <3>2. e.now => s.pub.seq <= prev.seq
      BY <1>5, <2>3
    <3> DEFINE t == [s EXCEPT !.life = landing]
    <3>3. Track(p, e, t)
      BY <1>4, <1>5, <1>7, <2>1, <2>2, <2>5, <3>1, <3>2, LifeSetTrack
    <3>4. t.life = landing /\ t.pub = s.pub
      BY TrackType DEF PageState
    <3> HIDE DEF t
    <3>5. Owes(t) /\ (e.now => t.pub.seq <= prev.seq)
      BY <2>5, <3>2, <3>4 DEF Owes
    <3>6. Track(p, e, AskSign(p, t, prev, l.named.root))
      BY <1>1, <1>5, <3>1, <3>3, <3>5, AskSignTrack
    <3>7. QED
      BY <2>13, <3>6 DEF t
  <2>14. QED
    BY <2>8, <2>9, <2>10, <2>11, <2>12, <2>13
<1>8. QED
  BY <1>6, <1>7

LEMMA HintTrack ==
  ASSUME NEW p \in Pages, NEW e, NEW s, Track(p, e, s), NEW h, h = s.lastHead,
         NEW j, j = Judge(h, s.mine)
  PROVE  Track(p, e, Hint(p, s, h, j))
<1> DEFINE u == IF Owes(s) THEN EndWaits(s) ELSE s
<1>1. /\ j.kind \in Verdicts /\ j.mine \in e.S
      /\ j.kind = "Head" => Winning(h, s.mine) = {}
  BY JudgeIs DEF Judged
<1>2. \/ Hint(p, s, h, j) \in {s, ReadBack(p, s, h, j), LandMine(s, j)}
      \/ j.kind = "Head" /\ Hint(p, s, h, j) = HeadConflict(p, Idle(u), PairOf(h))
  BY <1>1 DEF Hint, Verdicts
<1>3. Track(p, e, Idle(u))
  BY IdleTrack
<1>4. Idle(u).lastHead = h /\ Idle(u).mine = s.mine
  BY TrackType DEF Idle, EndWaits, PageState
<1> HIDE DEF u
<1>5. CASE j.kind = "Head" /\ Hint(p, s, h, j) = HeadConflict(p, Idle(u), PairOf(h))
  BY <1>1, <1>3, <1>4, <1>5, HeadConflictTrack
<1>6. CASE Hint(p, s, h, j) \in {s, ReadBack(p, s, h, j), LandMine(s, j)}
  BY <1>1, <1>6, ReadBackTrack, UpdateTrack DEF LandMine
<1>7. QED
  BY <1>2, <1>5, <1>6

LEMMA RecoverTrack ==
  ASSUME NEW p \in Pages, NEW e, NEW s, Track(p, e, s), NEW h, h = s.lastHead,
         NEW j, j = Judge(h, s.mine)
  PROVE  Track(p, e, Recover(p, s, h, j))
<1>1. /\ j.kind \in Verdicts
      /\ j.kind = "Head" => Winning(h, s.mine) = {}
      /\ j.kind = "NoHead" => h = NoHead
  BY JudgeIs DEF Judged
<1>2. \/ j.kind = "NoHead" /\ Recover(p, s, h, j) = HeadMissing(p, s)
      \/ Recover(p, s, h, j) = Read(s, "Recover")
      \/ j.kind = "Head" /\ Recover(p, s, h, j) = HeadRead(p, s, PairOf(h))
  BY <1>1 DEF Recover, Verdicts
<1>3. QED
  BY <1>1, <1>2, HeadMissingTrack, ReadTrack, HeadReadTrack DEF Waits

(* A head read that keeps the records keeps the judgement of it.           *)
LEMMA EndedSame ==
  ASSUME NEW p, NEW e, NEW s, Track(p, e, s), e.heard, NEW w
  PROVE  /\ Track(p, e, Ended(s, w)) /\ Ended(s, w).lastHead = e.was.lastHead
         /\ Ended(s, w).mine = e.was.mine
<1>1. Track(p, e, Ended(s, w))
  BY EndedTrack
<1>2. QED
  BY <1>1 DEF Track, Follows

(* The event e: the head e.was.lastHead is heard.                          *)
LEMMA OnHeadTrack ==
  ASSUME NEW p \in Pages, NEW e, Setting(e), e.heard, NEW s, NEW h,
         e.was = [s EXCEPT !.lastHead = h, !.reads = @ \ {"Warm"}],
         e.was.lastHead = h, e.was.mine = s.mine
  PROVE  Track(p, e, OnHead(p, s, h))
<1> DEFINE j  == Judge(h, s.mine)
           s0 == [s EXCEPT !.lastHead = h, !.reads = @ \ {"Warm"}]
           s1 == IF "Recover" \in s0.reads THEN Recover(p, Ended(s0, "Recover"), h, j) ELSE s0
           s2 == IF "ReadBack" \in s1.reads THEN ReadBack(p, Ended(s1, "ReadBack"), h, j) ELSE s1
           s3 == IF "Verify" \in s2.reads THEN Verify(p, Ended(s2, "Verify"), h, j) ELSE s2
<1>1. Track(p, e, s0)
  BY StartTrack
<1>2. j = Judge(h, e.was.mine)
  OBVIOUS
<1> HIDE DEF j, s0
<1>3. Track(p, e, s1)
  <2> DEFINE w == "Recover"
            t == Ended(s0, w)
  <2>1. Track(p, e, t) /\ h = t.lastHead /\ j = Judge(h, t.mine)
    <3> HIDE DEF w
    <3>1. Track(p, e, t) /\ t.lastHead = e.was.lastHead /\ t.mine = e.was.mine
      BY <1>1, EndedSame
    <3>2. QED
      BY <1>2, <3>1
  <2> HIDE DEF t
  <2>2. Track(p, e, Recover(p, t, h, j))
    BY <2>1, RecoverTrack
  <2>3. QED
    BY <1>1, <2>2 DEF t, s1
<1> HIDE DEF s1
<1>4. Track(p, e, s2)
  <2> DEFINE w == "ReadBack"
            t == Ended(s1, w)
  <2>1. Track(p, e, t) /\ h = t.lastHead /\ j = Judge(h, t.mine)
    <3> HIDE DEF w
    <3>1. Track(p, e, t) /\ t.lastHead = e.was.lastHead /\ t.mine = e.was.mine
      BY <1>3, EndedSame
    <3>2. QED
      BY <1>2, <3>1
  <2> HIDE DEF t
  <2>2. Track(p, e, ReadBack(p, t, h, j))
    BY <2>1, ReadBackTrack
  <2>3. QED
    BY <1>3, <2>2 DEF t, s2
<1> HIDE DEF s2
<1>5. Track(p, e, s3)
  <2> DEFINE w == "Verify"
            t == Ended(s2, w)
  <2>1. Track(p, e, t) /\ h = t.lastHead /\ j = Judge(h, t.mine)
    <3> HIDE DEF w
    <3>1. Track(p, e, t) /\ t.lastHead = e.was.lastHead /\ t.mine = e.was.mine
      BY <1>4, EndedSame
    <3>2. QED
      BY <1>2, <3>1
  <2> HIDE DEF t
  <2>2. Track(p, e, Verify(p, t, h, j))
    BY <2>1, VerifyTrack
  <2>3. QED
    BY <1>4, <2>2 DEF t, s3
<1> HIDE DEF s3
<1>6. Track(p, e, Hint(p, Ended(s3, "Hint"), h, j))
  <2> DEFINE w == "Hint"
            t == Ended(s3, w)
  <2>1. Track(p, e, t) /\ h = t.lastHead /\ j = Judge(h, t.mine)
    <3> HIDE DEF w
    <3>1. Track(p, e, t) /\ t.lastHead = e.was.lastHead /\ t.mine = e.was.mine
      BY <1>5, EndedSame
    <3>2. QED
      BY <1>2, <3>1
  <2> HIDE DEF t
  <2>2. Track(p, e, Hint(p, t, h, j))
    BY <2>1, HintTrack
  <2>3. QED
    BY <2>2 DEF t
<1>7. QED
  BY <1>5, <1>6 DEF OnHead, j, s0, s1, s2, s3

LEMMA OnHintTrack ==
  ASSUME NEW p, NEW e, NEW s, Track(p, e, s)
  PROVE  Track(p, e, OnHint(s))
BY ReadTrack DEF OnHint, Waits

(* A push that confirms is a head read; any other is a hint.               *)
LEMMA PushedTrack ==
  ASSUME NEW p \in Pages, NEW e, Setting(e), NEW s, NEW h,
         e.was = [s EXCEPT !.lastHead = h], e.was.lastHead = h, e.was.mine = s.mine
  PROVE  Track(p, e, ReadBack(p, [s EXCEPT !.lastHead = h], h, Judge(h, s.mine)))
BY StartTrack, ReadBackTrack

LEMMA RejectedTrack ==
  ASSUME NEW p, NEW e, Setting(e), e.was.commit.stage = "Racing"
  PROVE  Track(p, e, Rejected(e.was))
<1>1. Track(p, e, e.was)
  BY StartTrack
<1>2. ~Owes(e.was) /\ Committing(e.was)
  BY <1>1, TrackType DEF OK, LaneOK, Committing
<1>3. QED
  BY <1>1, <1>2, EndFailedTrack DEF Rejected
=============================================================================
