------------------------------ MODULE PageHead ------------------------------
(***************************************************************************)
(* One page's publication of the head: the state a page keeps for it and   *)
(* every transition of it, as functions from a page state to the next.     *)
(* It joins the table of page/src/publication.rs (`Life::on`), the page    *)
(* that carries its acts out (page/src/lib.rs), and the part of the engine *)
(* those acts reach (engine/src/lib.rs, engine/src/commit.rs): the commit  *)
(* in flight, its ends, and what each write is told.                       *)
(*                                                                         *)
(* A wait is the field that holds what is out: `sign`, `upd`, `reads`.     *)
(* Re-sends that change no state, backoff lengths and the counters that    *)
(* only pace them are left out; so are the old signer (`OldSigner`), the   *)
(* head floor of a read-only view and the Server's merge of a displaced    *)
(* group.                                                                  *)
(***************************************************************************)
EXTENDS Signer, FiniteSetsExt

CONSTANTS
  Forced,        \* the writes submitted past their reads (`Expect::Any`)
  Contended,     \* the writes with a read that may no longer hold when they are cut
  MaxTries,      \* how often a write may be re-applied before it is Lost
  HeadReads,     \* stale read-backs before the UPDATE is sent again
  ThroughMax     \* entries a head's ledger has room for (THROUGH_MAX)

ASSUME PageAssumption ==
  /\ Forced \subseteq Writes
  /\ Contended \subseteq Writes \ Forced
  /\ MaxTries \in Nat
  /\ HeadReads \in Nat \ {0}
  /\ ThroughMax \in Nat \ {0}

Waits == {"Recover", "ReadBack", "Verify", "Hint", "Warm"}
Fates == {"None", "Queued", "Published", "Lost", "Failed", "Conflict", "Unknown"}

Stages == {"Idle", "Signing", "BackingOff", "Written", "Verifying", "Landing"}

Owed == [seq : Nat, root : Roots, base : Roots]

Life == [st    : Stages,
         owed  : Owed,
         record : Head,          \* Written: the signer's bytes
         stale : Nat,            \* Written: stale read-backs so far
         named : Pair,           \* Verifying, Landing: the head the signer named
         asks  : BOOLEAN,        \* Landing: by a Sign (else this page's own record)
         from  : Pair,           \* Landing by a Sign: the head it asks from
         timer : BOOLEAN]        \* Verifying: the next read waits for the clock

IdleLife == [st |-> "Idle", owed |-> [seq |-> 0, root |-> {}, base |-> {}],
             record |-> NoHead, stale |-> 0, named |-> Genesis,
             asks |-> FALSE, from |-> Genesis, timer |-> FALSE]

(* The engine's one commit in flight (CommitLife). *)
Commit == [stage : {"Idle", "Racing", "Heading"}, seq : Nat, root : Roots,
           base : Roots, cut : SUBSET Arrivals, through : Nat]

NoCommit == [stage |-> "Idle", seq |-> 0, root |-> {}, base |-> {}, cut |-> {},
             through |-> 0]

PageState ==
  [up    : {"Off", "On", "Gone"},
   life  : Life,
   sign  : Head,                  \* the Sign on the wire, as the head it asks for
   ans   : Answer,                \* the signer's answer to it, on its way
   upd   : Head,                  \* the UPDATE on the wire
   reads : SUBSET Waits,          \* the register reads waited for
   lastHead : Head,               \* the register as last read
   mine  : SUBSET Head,           \* the records the signer returned, by seq
   has   : BOOLEAN,               \* the engine was told a head (engine_has_head)
   pub   : Pair,                  \* the head the engine publishes
   commit : Commit,
   until : Nat,                   \* cut_until: a dead cut goes again as one
   tries : [Arrivals -> Nat],
   told  : [Arrivals -> Fates]]

InitPage ==
  [up |-> "Off", life |-> IdleLife, sign |-> NoHead, ans |-> NoAnswer,
   upd |-> NoHead, reads |-> {}, lastHead |-> NoHead, mine |-> {},
   has |-> FALSE, pub |-> Genesis, commit |-> NoCommit, until |-> 0,
   tries |-> [i \in Arrivals |-> 0], told |-> [i \in Arrivals |-> "None"]]

Committing(s) == s.commit.stage # "Idle"
Owes(s)       == s.life.st # "Idle"
IsVerifying(s) == s.life.st \in {"Verifying", "Landing"}
Queue(s)      == {i \in Arrivals : s.told[i] = "Queued"}

Tell(s, ws, fate) ==
  [s EXCEPT !.told = [i \in Arrivals |-> IF i \in ws THEN fate ELSE @[i]]]

----------------------------------------------------------------------------
(* The acts the page carries out.                                          *)

(* Every wait of the label ends; the engine's own read, a hint's and a     *)
(* warm read do not.                                                       *)
EndWaits(s) ==
  [s EXCEPT !.sign = NoHead, !.ans = NoAnswer, !.upd = NoHead,
            !.reads = @ \ {"ReadBack", "Verify"}]

Idle(s)      == [s EXCEPT !.life = IdleLife]
Read(s, w)   == [s EXCEPT !.reads = @ \cup {w}]
Update(s, r) == [s EXCEPT !.upd = r]

(* Past its bound the list loses the entry of the page that wrote least    *)
(* recently.                                                               *)
Eldest(through) ==
  CHOOSE p \in Listed(through) : \A q \in Listed(through) : through[p].last <= through[q].last
Evicted(through) ==
  IF Cardinality(Listed(through)) > ThroughMax
    THEN [through EXCEPT ![Eldest(through)] = NoEntry] ELSE through

(* Mutant: the ledger of prev is not copied forward. *)
LedgerOfOwn(p, s, prev) ==
  IF Committing(s)
    THEN [NoThrough EXCEPT ![p] = [seq |-> s.commit.through, last |-> prev.seq + 1]]
    ELSE NoThrough

(* The ledger of a head this page signs: every entry of its prev copied    *)
(* forward IF the head last read is that prev, its own set to the last     *)
(* arrival its commit carries, the list kept to its bound.                 *)
LedgerOf(p, s, prev) ==
  LET copied == IF PairOf(s.lastHead) = prev THEN s.lastHead.through ELSE NoThrough
  IN  IF Committing(s) /\ s.commit.through > 0
        THEN Evicted([copied EXCEPT ![p] = [seq |-> s.commit.through, last |-> prev.seq + 1]])
        ELSE copied

AskSign(p, s, prev, root) ==
  [s EXCEPT !.sign = [seq |-> prev.seq + 1, root |-> root, prev |-> prev,
                      through |-> LedgerOf(p, s, prev)],
            !.ans = NoAnswer]

(* Mutant: the prev off by one. *)
SignOwedTooFar(p, s) ==
  LET o == s.life.owed
  IN  AskSign(p, s, [seq |-> o.seq - 2, root |-> o.base], o.root)

SignOwed(p, s) ==
  LET o == s.life.owed
  IN  AskSign(p, s, [seq |-> o.seq - 1, root |-> o.base], o.root)

(* Mutant: a dead head goes on being owed. *)
DropDeadHeadNever(s) == s

(* E11: an owed head the engine published, or no longer builds on, is dead. *)
DropDeadHead(s) ==
  LET o == s.life.owed
  IN  IF Owes(s) /\ (o.seq <= s.pub.seq \/ [seq |-> o.seq - 1, root |-> o.base] # s.pub)
        THEN Idle(EndWaits(s))
        ELSE s

OwedOf(c) == [seq |-> c.seq, root |-> c.root, base |-> c.base]

(* A released UpdateHead: E1, unless its commit is dead already. *)
Owe(p, s) ==
  LET c == s.commit
      owing == [IdleLife EXCEPT !.st = "Signing", !.owed = OwedOf(c)]
  IN  IF c.seq > s.pub.seq /\ [seq |-> c.seq - 1, root |-> c.base] = s.pub
        THEN SignOwed(p, [EndWaits(s) EXCEPT !.life = owing])
        ELSE s

----------------------------------------------------------------------------
(* The engine: the ends of the commit in flight.                           *)

(* Mutant: the first read that does not show the head fails the commit. *)
HeadNotLandedFails(p, s) ==
  IF s.commit.stage = "Heading"
    THEN [Tell(Idle(EndWaits(s)), s.commit.cut, "Failed") EXCEPT !.commit = NoCommit]
    ELSE s

(* The head read back does not show the commit's: a Heading commit issues  *)
(* it again, a Racing one does nothing.                                    *)
HeadNotLanded(p, s) == IF s.commit.stage = "Heading" THEN Owe(p, s) ELSE s

Publish(s) ==
  [Tell(s, s.commit.cut, "Published") EXCEPT
     !.pub = [seq |-> s.commit.seq, root |-> s.commit.root], !.commit = NoCommit]

EndFailed(s) == [Tell(s, s.commit.cut, "Failed") EXCEPT !.commit = NoCommit]

(* What a head shows of page p's commit that would have landed at seq `at`: *)
(* its entry; with none, "NotThere" if the list has room, or if an entry    *)
(* older than `at` shows that p's was never evicted; else nothing is known. *)
Through(n) == [kind |-> "Through", seq |-> n]
NotThere   == [kind |-> "NotThere", seq |-> 0]
Unwitnessed == [kind |-> "Unknown", seq |-> 0]

(* Mutant: an entry that is absent was never there. *)
WitnessOfAbsent(p, h, at) ==
  IF p \in Listed(h.through) THEN Through(h.through[p].seq) ELSE NotThere

WitnessOf(p, h, at) ==
  IF p \in Listed(h.through) THEN Through(h.through[p].seq)
  ELSE IF \/ Cardinality(Listed(h.through)) < ThroughMax
          \/ \E q \in Listed(h.through) : h.through[q].last < at
    THEN NotThere
  ELSE Unwitnessed

(* Mutant: nobody reads the witness. *)
WitnessUnread(p, s, pair) == NotThere

(* What the head about to be adopted witnesses of the commit in flight; a  *)
(* head that was not read witnesses nothing.                               *)
Witness(p, s, pair) ==
  IF PairOf(s.lastHead) = pair THEN WitnessOf(p, s.lastHead, s.commit.seq) ELSE NotThere

(* A foreign head ends the commit.  A Heading commit the witness shows     *)
(* landed is Published, and one it cannot tell is Unknown; otherwise its   *)
(* writes go again from the front, a try spent if its head had left, and   *)
(* one out of tries or forced is Lost.                                     *)
EndDead(p, s, pair) ==
  LET c       == s.commit
      headed  == c.stage = "Heading"
      w       == Witness(p, s, pair)
      landed  == headed /\ c.through > 0 /\ w.kind = "Through" /\ w.seq >= c.through
      unknown == headed /\ w.kind = "Unknown"
      spent(i) == s.tries[i] + (IF headed THEN 1 ELSE 0)
      lost   == {i \in c.cut : <<p, i>> \in Forced \/ spent(i) > MaxTries}
      after  == IF landed THEN Tell(s, c.cut, "Published")
                ELSE IF unknown THEN Tell(s, c.cut, "Unknown")
                ELSE [Tell(s, lost, "Lost") EXCEPT
                        !.tries = [i \in Arrivals |-> IF i \in c.cut THEN spent(i) ELSE @[i]]]
  IN  [after EXCEPT !.pub = pair, !.commit = NoCommit]

EngineConflict(p, s, pair) ==
  LET displaced == pair.seq = s.pub.seq /\ pair # s.pub
  IN  IF Committing(s) /\ pair.seq < s.commit.seq /\ ~displaced THEN HeadNotLanded(p, s)
      ELSE IF Committing(s) THEN EndDead(p, s, pair)
      ELSE [s EXCEPT !.pub = pair]

(* Each engine event, and the one consequence of it on the owed head.      *)
HeadConflict(p, s, pair) == DropDeadHead(EngineConflict(p, s, pair))

HeadConfirmed(s, seq) ==
  DropDeadHead(IF Committing(s) /\ s.commit.seq = seq THEN Publish(s) ELSE s)

HeadRefused(s, seq) ==
  DropDeadHead(IF Committing(s) /\ s.commit.seq = seq THEN EndFailed(s) ELSE s)

HeadRead(p, s, pair) ==
  LET c == s.commit
      moved == IF ~Committing(s) THEN [s EXCEPT !.pub = pair]
               ELSE IF pair.seq = c.seq /\ pair.root = c.root THEN Publish(s)
               ELSE IF pair.seq < c.seq THEN HeadNotLanded(p, s)
               ELSE EngineConflict(p, s, pair)
  IN  [DropDeadHead(moved) EXCEPT !.has = TRUE]

HeadMissing(p, s) ==
  LET moved == IF Committing(s) THEN HeadNotLanded(p, s) ELSE [s EXCEPT !.pub = Genesis]
  IN  [DropDeadHead(moved) EXCEPT !.has = TRUE]

----------------------------------------------------------------------------
(* The head's table, by event.                                             *)

(* Mutant: the final refusal never reaches the engine. *)
RefuseQuietly(s) == Idle(EndWaits(s))

(* E8, and a record 2+ ahead of the register: the owed commit fails. *)
Refuse(s) == HeadRefused(Idle(EndWaits(s)), s.life.owed.seq)

AdoptForeign(p, s, h) == HeadConflict(p, Idle(EndWaits(s)), PairOf(h))

(* Mutant: a head the signer names is adopted unread. *)
VerifyNamedAdopts(p, s, named) == HeadConflict(p, Idle(EndWaits(s)), named)

(* E5: not adopted yet (invariant 1b): the register is read first. *)
VerifyNamed(p, s, named) ==
  Read([s EXCEPT !.life = [IdleLife EXCEPT !.st = "Verifying", !.owed = s.life.owed,
                                           !.named = named]], "Verify")

SignerOnCommit(p, s, a) ==
  CASE a.kind \in {"Signed", "AlreadySigned"} ->
         [s EXCEPT !.mine = Noted(a.head, @), !.upd = a.head,
                   !.life = [IdleLife EXCEPT !.st = "Written", !.owed = s.life.owed,
                                             !.record = a.head]]
    [] a.kind = "NotNext" -> VerifyNamed(p, s, a.current)
    [] a.kind \in {"Retry", "HeadUnknown"} ->
         [s EXCEPT !.reads = IF a.kind = "HeadUnknown" THEN @ \cup {"Warm"} ELSE @,
                   !.life = [IdleLife EXCEPT !.st = "BackingOff", !.owed = s.life.owed]]
    [] OTHER -> Refuse(s)

SignerOnLanding(p, s, a) ==
  LET again(named) == [s EXCEPT !.life = [IdleLife EXCEPT
                         !.st = "Verifying", !.owed = s.life.owed, !.named = named, !.timer = TRUE]]
      named == s.life.named
  IN  CASE a.kind \in {"Signed", "AlreadySigned"} ->
             [s EXCEPT !.mine = Noted(a.head, @), !.upd = a.head]
        [] a.kind = "NotNext" ->
             again([seq |-> IF named.seq > a.current.seq THEN named.seq ELSE a.current.seq,
                    root |-> a.current.root])
        [] a.kind \in {"Retry", "HeadUnknown"} -> again(named)
        [] OTHER -> Refuse(s)

(* E3-E8: the answer under the id of the Sign in flight. *)
OnSigner(p, s) ==
  LET a == s.ans
      heard == [s EXCEPT !.sign = NoHead, !.ans = NoAnswer]
  IN  CASE s.life.st = "Signing" -> SignerOnCommit(p, heard, a)
        [] s.life.st = "Landing" -> SignerOnLanding(p, heard, a)
        [] OTHER -> heard

OnUpdated(s) ==
  LET heard == [s EXCEPT !.upd = NoHead]
  IN  CASE s.life.st = "Written" -> Read(heard, "ReadBack")
        [] s.life.st = "Landing" -> Read(heard, "Verify")
        [] OTHER -> heard

(* A lost Sign is rebuilt from the state: its ledger may be another now. *)
OnSignLost(p, s) ==
  LET l == s.life
      lost == [s EXCEPT !.sign = NoHead, !.ans = NoAnswer]
  IN  CASE l.st = "Signing" -> SignOwed(p, lost)
        [] l.st = "Landing" /\ l.asks -> AskSign(p, lost, l.from, l.named.root)
        [] OTHER -> lost

(* E10: the clock. *)
DueNow(s) ==
  \/ s.life.st = "BackingOff"
  \/ s.life.st = "Verifying" /\ s.life.timer
  \/ s.life.st = "Written" /\ s.life.stale > 0 /\ "ReadBack" \notin s.reads

OnDue(p, s) ==
  CASE s.life.st = "BackingOff" -> SignOwed(p, [s EXCEPT !.life.st = "Signing"])
    [] s.life.st = "Verifying" -> Read([s EXCEPT !.life.timer = FALSE], "Verify")
    [] OTHER -> Read(s, "ReadBack")

(* Mutant: the owed seq alone confirms. *)
ConfirmsSeq(s, h) ==
  CASE s.life.st = "Written" -> h.seq = s.life.owed.seq
    [] s.life.st = "Idle" -> PairOf(h) = s.pub /\ h \in s.mine
    [] OTHER -> FALSE

(* Does a read confirm this page's commit?  Exactly the owed head's        *)
(* (seq, root) once signed; with nothing owed, the published head as this  *)
(* page's own record, whole.                                               *)
Confirms(s, h) ==
  CASE s.life.st = "Written" -> PairOf(h) = [seq |-> s.life.owed.seq, root |-> s.life.owed.root]
    [] s.life.st = "Idle" -> PairOf(h) = s.pub /\ h \in s.mine
    [] OTHER -> FALSE

(* A stale read of a written record: counted, and after HeadReads the      *)
(* UPDATE goes again.                                                      *)
Stale(s) ==
  IF s.life.stale + 1 >= HeadReads
    THEN Update([s EXCEPT !.life.stale = 0], s.life.record)
    ELSE [s EXCEPT !.life.stale = @ + 1]

ReadBack(p, s, h, j) ==
  IF j.kind = "Head" /\ Confirms(s, h) THEN HeadConfirmed(s, h.seq)
  ELSE IF s.life.st # "Written" THEN s
  ELSE IF j.kind = "NoHead" THEN Update(s, s.life.record)
  ELSE IF j.kind = "MineWins" \/ h.seq < s.life.owed.seq THEN Stale(s)
  ELSE AdoptForeign(p, s, h)

(* A landing of this page's own winning record. *)
LandMine(s, j) == Update(s, j.mine)

(* Mutants: a head read at the very seq named is not yet there; a landing  *)
(* asks from the head the signer named.                                    *)
NamedPassed(s, h) == h.seq > s.life.named.seq
LandFromNamed(s, h, j) == s.life.named

(* The register shows the head the signer named, or one past it. *)
NamedReached(s, h) == h.seq >= s.life.named.seq

(* The head a landing asks from: the register's own, or the genesis. *)
LandFrom(s, h, j) ==
  IF j.kind = "NoHead" THEN [seq |-> 0, root |-> s.pub.root] ELSE PairOf(h)

(* 1b's read of the head the signer named. *)
Verify(p, s, h, j) ==
  LET l == s.life
      landing == l.st = "Landing"
      land(asks, from) == [IdleLife EXCEPT !.st = "Landing", !.owed = l.owed,
                             !.named = l.named, !.asks = asks, !.from = from]
      prev == LandFrom(s, h, j)
  IN  IF ~IsVerifying(s) THEN s
      ELSE IF j.kind = "MineWins" /\ NamedReached(s, h)
        THEN LandMine([s EXCEPT !.life = land(landing /\ l.asks, IF landing THEN l.from ELSE Genesis)], j)
      ELSE IF j.kind = "Head" /\ NamedReached(s, h) THEN AdoptForeign(p, s, h)
      ELSE IF l.named.seq > h.seq + 1 THEN Refuse(s)
      ELSE IF j.kind = "NoHead" /\ s.pub.seq # 0
        THEN [s EXCEPT !.life = [IdleLife EXCEPT !.st = "Verifying", !.owed = l.owed,
                                                 !.named = l.named, !.timer = TRUE]]
      ELSE AskSign(p, [s EXCEPT !.life = land(TRUE, prev)], prev, l.named.root)

(* A hint's read: the reload trigger. *)
Hint(p, s, h, j) ==
  IF j.kind = "NoHead" \/ ~s.has \/ IsVerifying(s) \/ PairOf(h) = s.pub \/ h.seq < s.pub.seq THEN s
  ELSE IF s.life.st = "Written" /\ s.life.owed.seq = h.seq THEN ReadBack(p, s, h, j)
  ELSE IF j.kind = "MineWins" THEN LandMine(s, j)
  ELSE HeadConflict(p, Idle(IF Owes(s) THEN EndWaits(s) ELSE s), PairOf(h))

(* Mutant: the judgement is not asked on this path. *)
RecoverAdopts(p, s, h, j) ==
  IF j.kind = "NoHead" THEN HeadMissing(p, s) ELSE HeadRead(p, s, PairOf(h))

(* The engine's own read: its recovery, or its question about a head it    *)
(* sent.  A head this page's record beats is parked and asked again.       *)
Recover(p, s, h, j) ==
  CASE j.kind = "NoHead"   -> HeadMissing(p, s)
    [] j.kind = "MineWins" -> Read(s, "Recover")
    [] OTHER          -> HeadRead(p, s, PairOf(h))

(* One register answer ends every read that waits, in this order, each     *)
(* judged by the ONE judgement.                                            *)
Ended(s, w) == [s EXCEPT !.reads = @ \ {w}]

OnHead(p, s, h) ==
  LET j  == Judge(h, s.mine)
      s0 == [s EXCEPT !.lastHead = h, !.reads = @ \ {"Warm"}]
      s1 == IF "Recover" \in s0.reads THEN Recover(p, Ended(s0, "Recover"), h, j) ELSE s0
      s2 == IF "ReadBack" \in s1.reads THEN ReadBack(p, Ended(s1, "ReadBack"), h, j) ELSE s1
      s3 == IF "Verify" \in s2.reads THEN Verify(p, Ended(s2, "Verify"), h, j) ELSE s2
  IN  IF "Hint" \in s3.reads THEN Hint(p, Ended(s3, "Hint"), h, j) ELSE s3

(* The node's bare hint that the head changed. *)
OnHint(s) ==
  IF IsVerifying(s) \/ s.life.st = "Written" THEN s ELSE Read(s, "Hint")

(* A pushed full state: it can only confirm this page's own commit. *)
OnPushed(p, s, h) ==
  IF ~IsVerifying(s) /\ Confirms(s, h)
    THEN ReadBack(p, [s EXCEPT !.lastHead = h], h, Judge(h, s.mine))
  ELSE IF h = s.lastHead /\ PairOf(h) = s.pub THEN s
  ELSE OnHint(s)

----------------------------------------------------------------------------
(* The engine's cut (commit_front): the writes of `taken`, in arrival      *)
(* order, judged against the published tree.  A write whose reads no       *)
(* longer hold is a Conflict; what changes nothing is Published at once.   *)
(* `last` is the last arrival of the writes ready when the cut was made.   *)

(* A read of a key the write itself writes is satisfied, too, when the tree *)
(* holds the write's own edit there; a read of any other key that moved is  *)
(* not (check_reads).  Which of the contended fail is the keys' to say: any *)
(* of them.                                                                 *)
MayConflict(p, taken) == {i \in taken : <<p, i>> \in Contended}

Cut(p, s, taken, last, failed) ==
  LET fresh  == taken \ failed
      judged == [Tell(s, failed, "Conflict") EXCEPT !.until = last]
      root   == s.pub.root \cup ({p} \X fresh)
  IN  IF root = s.pub.root
        THEN Tell(judged, fresh, "Published")
        ELSE [judged EXCEPT
               !.commit = [stage |-> "Racing", seq |-> s.pub.seq + 1, root |-> root,
                           base |-> s.pub.root, cut |-> fresh, through |-> Max(fresh)]]

(* A cut whose commit died goes again as one group: while a write of it is *)
(* still queued, no later write joins.                                     *)
CutOpen(s) == \E i \in Queue(s) : i <= s.until
Cuttable(s) == IF CutOpen(s) THEN {i \in Queue(s) : i <= s.until} ELSE Queue(s)

(* Racing -> Heading: the blocks the race rule counts are on the node, so  *)
(* the head leaves.                                                        *)
SendHead(p, s) == Owe(p, [s EXCEPT !.commit.stage = "Heading"])

(* The node's Block contract rejected a block of a Racing commit. *)
Rejected(s) == DropDeadHead(EndFailed(s))

----------------------------------------------------------------------------
(* What holds of a page whatever it hears: its one commit is the successor *)
(* of the head it publishes, and the head it owes is that commit's, which  *)
(* is past its race.                                                       *)
LaneOK(s) ==
  /\ Committing(s) => s.commit.seq = s.pub.seq + 1 /\ s.commit.base = s.pub.root
  /\ Owes(s) => s.commit.stage = "Heading" /\ s.life.owed = OwedOf(s.commit)

(* And where a page's knowledge comes from: the head it publishes is one   *)
(* the Register held, a Sign builds on a seq the Register reached, and     *)
(* every record it keeps or sends is one the signer signed.                *)
Known(q, heads)   == \E h \in heads : q = PairOf(h)
Reached(q, heads) == \E h \in heads : q.seq <= h.seq

Grounded(s, heads, signed) ==
  /\ Known(s.pub, heads)
  /\ Reached(s.sign.prev, heads) /\ Reached(s.life.from, heads)
  /\ {s.upd, s.life.record, s.ans.head} \cup s.mine \subseteq signed

=============================================================================
