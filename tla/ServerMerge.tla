----------------------------- MODULE ServerMerge -----------------------------
(* THE SERVER AND A HEAD THAT DISPLACES ITS OWN.  Two devices of one        *)
(* identity may each publish a head at one seq; the register keeps one.  A  *)
(* page whose head was beaten this way has already told its clients         *)
(* Published, so its Server judges the displaced commit (the tip): it is    *)
(* merged onto the winner through the engine's queue, or its keys are read  *)
(* at the winner, and a key the winner replaced is told Superseded.         *)
(*                                                                          *)
(* One page: its queue of writes, the commit in flight, the hold a          *)
(* displacement sets, and the Server's tip, merge and probe (s).  Another   *)
(* device publishes heads of its own (Foreign).  A tree is a function from  *)
(* keys to values, and equal trees have equal roots.                        *)
EXTENDS Integers, Sequences, FiniteSets, SequencesExt

CONSTANTS
  NumKeys,      \* keys are 1..NumKeys, in the tree's order
  Values,       \* what a key may hold
  Writes,       \* the client's writes, in the order they are made
  MaxForeign,   \* heads the other device publishes
  Behind,       \* heads of this page's it may not have heard when it builds one
  MaxTries,     \* re-runs a write has (max_write_tries)
  MaxCommit     \* writes one commit has room for (max_commit_blocks)

Absent   == 0   \* no value
AnyValue == -1  \* a read that states no premise (Expect::Any); in a delta, unchanged
Keys   == 1..NumKeys
Held   == Values \cup {Absent}
Trees  == [Keys -> Held]
Edits   == UNION {[K -> Held] : K \in SUBSET Keys}                    \* what a write sets
Premise == UNION {[K -> Held \cup {AnyValue}] : K \in SUBSET Keys}   \* what it read
Empty  == [k \in Keys |-> Absent]

ASSUME MergeAssumption ==
  /\ NumKeys \in Nat \ {0} /\ Values \subseteq Nat \ {0}
  /\ MaxForeign \in Nat /\ Behind \in Nat /\ MaxTries \in Nat /\ MaxCommit \in Nat \ {0}
  /\ DOMAIN Writes = 1..Len(Writes) /\ Len(Writes) \in Nat
  /\ \A n \in DOMAIN Writes :
       /\ Writes[n].sets \in Edits /\ Writes[n].reads \in Premise
       /\ DOMAIN Writes[n].sets \subseteq DOMAIN Writes[n].reads

VARIABLES s,      \* the page and its Server
          claim   \* history: per key, the write whose value its client may take as published (0: none)
vars == <<s, claim>>

-----------------------------------------------------------------------------
(* Writes and trees *)

Put(tree, sets) == [k \in Keys |-> IF k \in DOMAIN sets THEN sets[k] ELSE tree[k]]

(* The elements of q at the places K, in order. *)
Only(q, K) ==
  [j \in 1..Cardinality(K) |-> q[CHOOSE i \in K : Cardinality(K \cap (1..i)) = j]]
Without(q, out) == Only(q, DOMAIN q \ out)

(* A write's premises hold on a tree: what it read is there still, or what  *)
(* it would leave is there already.                                         *)
Leaves(w, k)   == IF k \in DOMAIN w.sets THEN {w.sets[k]} ELSE {}
Holds(tree, w) ==
  \A k \in DOMAIN w.reads : w.reads[k] = AnyValue \/ tree[k] \in {w.reads[k]} \cup Leaves(w, k)
Forced(w, k)   == w.reads[k] = AnyValue
IsForced(w)    == \E k \in DOMAIN w.reads : Forced(w, k)

(* What a commit's writes left, and which of them wrote a key last. *)
Written(ws)       == UNION {DOMAIN ws[i].sets : i \in DOMAIN ws}
LastWriter(ws, k) == CHOOSE i \in DOMAIN ws :
  /\ k \in DOMAIN ws[i].sets
  /\ \A j \in DOMAIN ws : k \in DOMAIN ws[j].sets => j <= i
LeftAt(ws, k)     == ws[LastWriter(ws, k)].sets[k]
PutAll(tree, ws)  == [k \in Keys |-> IF k \in Written(ws) THEN LeftAt(ws, k) ELSE tree[k]]

NoHead   == [seq |-> -1, tree |-> Empty]
NoCommit == [n |-> 0, head |-> NoHead]
NoTip    == [head |-> NoHead, base |-> NoHead, writes |-> <<>>]
NoMerge  == [phase |-> "none", winner |-> NoHead, from |-> NoHead, writes |-> <<>>,
             next |-> 1, tree |-> Empty, theirs |-> [k \in Keys |-> AnyValue],
             dropped |-> {}, sent |-> {}, landed |-> {}, fell |-> {}, at |-> NoHead]
NoProbe  == [writes |-> <<>>, tree |-> Empty, pending |-> {}, superseded |-> {}]

Init ==
  /\ s = [pub |-> [seq |-> 1, tree |-> Empty], prev |-> NoHead,
          line |-> <<[seq |-> 1, tree |-> Empty]>>, beaten |-> {},
          queue |-> <<>>, made |-> 0, commit |-> NoCommit, cut |-> {}, held |-> FALSE,
          seen |-> [seq |-> 1, tree |-> Empty],
          tip |-> NoTip, merge |-> NoMerge, probe |-> NoProbe, rounds |-> 0, foreign |-> 0, own |-> 1]
  /\ claim = [k \in Keys |-> 0]

-----------------------------------------------------------------------------
(* The engine's queue.  An entry is a client's write, or (round > 0) the    *)
(* re-application of the tip's index-th write by the round-th merge.        *)

Id(e)   == <<e.n, e.round>>
Ids(q)  == {Id(q[i]) : i \in DOMAIN q}
Cold(q) == [i \in DOMAIN q |-> [q[i] EXCEPT !.warm = FALSE]]
Warm(q) == Only(q, {i \in DOMAIN q : q[i].warm})
WarmTree(t) == PutAll(t.pub.tree, Warm(t.queue))

(* The cut is over once none of its writes is queued. *)
CloseCut(t) == [t EXCEPT !.cut = IF t.cut \cap Ids(t.queue) = {} THEN {} ELSE @]

(* A dead commit's writes, a try spent of each; those that do not go again. *)
Again(t, spend) ==
  [i \in DOMAIN t.queue |-> IF i <= t.commit.n /\ spend
                            THEN [t.queue[i] EXCEPT !.tries = @ + 1] ELSE t.queue[i]]
Lost(t, q) ==
  {i \in 1..t.commit.n : IsForced(q[i]) \/ q[i].tries > MaxTries}
DeadFront(t, q, out) ==
  CloseCut([t EXCEPT !.queue = Cold(Without(q, out)), !.commit = NoCommit])

(* The commit's writes judged again in order on the published tree: a       *)
(* premise that moved drops out, and the first past the limit stops it.     *)
Judge(a, e) ==
  IF a.full THEN a
  ELSE IF ~Holds(a.tree, e) THEN [a EXCEPT !.dropped = Append(@, e)]
  ELSE IF Len(a.taken) = MaxCommit THEN [a EXCEPT !.full = TRUE]
  ELSE [a EXCEPT !.taken = Append(@, e), !.tree = Put(@, e.sets),
                 !.noop = @ /\ Put(a.tree, e.sets) = a.tree]
Judged(t, q) ==
  LET judged[i \in 0..Len(q)] ==
        IF i = 0 THEN [taken |-> <<>>, dropped |-> <<>>, tree |-> t.pub.tree, noop |-> TRUE, full |-> FALSE]
        ELSE Judge(judged[i - 1], q[i])
  IN  judged[Len(q)]

(* The cut: the applied prefix of the queue, no further than the cut being  *)
(* shipped, or re-sent, reaches.                                            *)
InCut(t, e) == e.warm /\ (t.cut = {} \/ Id(e) \in t.cut)
CutOf(t) ==
  Only(t.queue, {i \in DOMAIN t.queue : \A j \in 1..i : InCut(t, t.queue[j])})
CutIds(t) == IF t.cut = {} THEN Ids(CutOf(t)) ELSE t.cut
Rest(q, a) ==
  Only(q, {i \in DOMAIN q : Id(q[i]) \notin Ids(a.taken) \cup Ids(a.dropped)})
RestAfter(t, a) == IF a.dropped = <<>> THEN Rest(t.queue, a) ELSE Cold(Rest(t.queue, a))

-----------------------------------------------------------------------------
(* The Server's judgements *)

(* Told Superseded: the client no longer takes those keys as published. *)
Told(c, ws, keys) ==
  [k \in Keys |-> IF k \in keys /\ c[k] = ws[LastWriter(ws, k)].n THEN 0 ELSE c[k]]

StartMerge(t) ==
  [t EXCEPT !.merge = [NoMerge EXCEPT !.phase = "delta", !.winner = t.pub, !.from = t.tip.base,
                                      !.writes = t.tip.writes, !.tree = t.pub.tree],
            !.tip = NoTip, !.rounds = @ + 1]

StartProbe(t, ws) ==
  [t EXCEPT !.probe = [writes |-> ws, tree |-> t.pub.tree, pending |-> Written(ws), superseded |-> {}]]

(* Mutant: a key that went without is nobody's loss. *)
FellAlone(m) == {k \in Written(m.writes) : LastWriter(m.writes, k) \notin m.landed}

(* The keys of the merge whose last writer did not land again, or did       *)
(* without that key while the winner holds another value there.             *)
MergeSuperseded(m) ==
  {k \in Written(m.writes) :
     \/ LastWriter(m.writes, k) \notin m.landed
     \/ /\ <<LastWriter(m.writes, k), k>> \in m.dropped
        /\ m.theirs[k] # LeftAt(m.writes, k)}
LandedWrites(m) ==
  Without(m.writes, DOMAIN m.writes \ m.landed)
FinishMerge(t) ==
  [t EXCEPT !.merge = NoMerge,
            !.tip = IF t.merge.at = NoHead THEN @
                    ELSE [head |-> t.merge.at, base |-> t.merge.winner, writes |-> LandedWrites(t.merge)]]
MergeDone(m) == m.phase = "sent" /\ m.sent \subseteq m.landed \cup m.fell

(* The tip's writes that these entries re-apply. *)
Mine(t, q) == {q[i].index : i \in {j \in DOMAIN q : q[j].round = t.rounds /\ q[j].round > 0}}

(* A verdict on the merge's own writes. *)
MergeVerdicts(t, published, ended) ==
  IF t.merge.phase # "sent" THEN t
  ELSE [t EXCEPT !.merge.landed = @ \cup Mine(t, published), !.merge.fell = @ \cup Mine(t, ended),
                 !.merge.at = IF Mine(t, published) = {} THEN @ ELSE t.pub]

(* A client's writes that published join the tip at this head, or begin it. *)
ClientsOf(q) == Only(q, {i \in DOMAIN q : q[i].round = 0})
TipWrite(e)  == [n |-> e.n, sets |-> e.sets, reads |-> e.reads]
JoinTip(t, q) ==
  IF q = <<>> THEN t
  ELSE IF t.tip.head = t.pub
  THEN [t EXCEPT !.tip.writes = @ \o [i \in DOMAIN q |-> TipWrite(q[i])]]
  ELSE [t EXCEPT !.tip = [head |-> t.pub, base |-> t.prev, writes |-> [i \in DOMAIN q |-> TipWrite(q[i])]]]

(* The published head moved by no commit of this page: what became of the   *)
(* tip.  Built on it: nothing was displaced.  A race from one base: merged. *)
(* Anything else: its keys are read at the winner.                          *)
Displaced(t, ours) ==
  IF ours \/ t.pub = t.seen \/ t.tip = NoTip \/ t.pub = t.tip.head \/ t.pub.seq < t.tip.head.seq THEN t
  ELSE IF t.prev = t.tip.head THEN [t EXCEPT !.tip = NoTip]
  ELSE IF t.prev # NoHead /\ t.prev = t.tip.base /\ t.pub.seq = t.tip.head.seq THEN StartMerge(t)
  ELSE [StartProbe(t, t.tip.writes) EXCEPT !.tip = NoTip]

(* Mutant: every call that ends lets the queue go on. *)
ReleaseAlways(t) == [t EXCEPT !.held = FALSE]

(* Held only while a merge waits for its delta. *)
ReleaseHold(t) == [t EXCEPT !.held = @ /\ t.merge.phase = "delta"]

(* Mutant: a probe that found nothing replaced is kept. *)
FinishTold(t) == IF t.probe.pending = {} /\ t.probe.superseded # {} THEN [t EXCEPT !.probe = NoProbe] ELSE t

(* Every key answered, the probe is over. *)
FinishProbe(t) == IF t.probe.pending = {} THEN [t EXCEPT !.probe = NoProbe] ELSE t

(* What a call tells of the keys it judged. *)
MergeTells(m, c) == IF MergeDone(m) THEN Told(c, m.writes, MergeSuperseded(m)) ELSE c
ProbeTells(p, c) == IF p.pending = {} THEN Told(c, p.writes, p.superseded) ELSE c
Claimed(c, published) ==
  [k \in Keys |-> Max({c[k]} \cup {published[i].n : i \in {j \in DOMAIN published : k \in DOMAIN published[j].sets}})]

(* THE SAME IDENTITY, DISPLACED (same_identity): the end of every call.     *)
(* What it published is a client's write or one of the merge that runs      *)
(* (`published_here`): no re-applied write outlives its merge.              *)
Finished(t) == IF MergeDone(t.merge) THEN FinishMerge(t) ELSE t
Settled(t)  == FinishProbe(ReleaseHold(Finished([t EXCEPT !.seen = t.pub])))
SameIdentity(t, published, ended) ==
  Displaced(JoinTip(MergeVerdicts(t, published, ended), ClientsOf(published)), published # <<>>)
EndCall(t, c) ==
  /\ s' = Settled(t)
  /\ claim' = ProbeTells(t.probe, MergeTells(t.merge, c))

-----------------------------------------------------------------------------
(* The page's calls *)

(* A client's write is taken: it is queued, behind what is there. *)
Accept ==
  /\ s.made < Len(Writes)
  /\ s' = [s EXCEPT !.made = @ + 1,
             !.queue = Append(@, [n |-> s.made + 1, round |-> 0, index |-> 0,
                                  sets |-> Writes[s.made + 1].sets, reads |-> Writes[s.made + 1].reads,
                                  warm |-> FALSE, tries |-> 0])]
  /\ UNCHANGED claim

(* The first write not yet in the warm root is applied, or ends in Conflict *)
(* (its path is at hand: a page does not hold the blocks of a tree it did   *)
(* not make, so this is a call of its own).                                 *)
FirstCold(q) == CHOOSE i \in DOMAIN q : ~q[i].warm /\ \A j \in 1..(i - 1) : q[j].warm
CanApply == ~s.held /\ \E i \in DOMAIN s.queue : ~s.queue[i].warm
Apply ==
  /\ CanApply
  /\ LET i == FirstCold(s.queue)
     IN IF Holds(WarmTree(s), s.queue[i])
        THEN EndCall([s EXCEPT !.queue[i].warm = TRUE], claim)
        ELSE EndCall(SameIdentity(CloseCut([s EXCEPT !.queue = Without(@, {i})]), <<>>, <<s.queue[i]>>), claim)

(* The commit lane is idle: the cut is committed.  A group that changes     *)
(* nothing, or all of which dropped out, ends at once: what is left of it   *)
(* is Published.                                                            *)
CutEnds(a) ==
  EndCall(SameIdentity(CloseCut([s EXCEPT !.queue = RestAfter(s, a), !.cut = CutIds(s)]), a.taken, a.dropped),
          Claimed(claim, a.taken))
CutCommits(a) ==
  EndCall(SameIdentity([s EXCEPT !.queue = a.taken \o RestAfter(s, a), !.cut = CutIds(s),
                                 !.commit = [n |-> Len(a.taken), head |-> [seq |-> s.pub.seq + 1, tree |-> a.tree]]],
                       <<>>, a.dropped), claim)
CutFront(a) ==
  \/ a.noop  /\ CutEnds(a)
  \/ ~a.noop /\ CutCommits(a)
CanCut == ~s.held /\ s.commit = NoCommit /\ CutOf(s) # <<>>
Cut == CanCut /\ CutFront(Judged(s, CutOf(s)))

(* The commit's head is the register's: its writes are Published. *)
Land ==
  /\ s.commit # NoCommit
  /\ LET done == SubSeq(s.queue, 1, s.commit.n)
     IN EndCall(SameIdentity(CloseCut([s EXCEPT !.pub = s.commit.head, !.prev = s.pub,
                                                !.line = Append(@, s.commit.head), !.commit = NoCommit,
                                                !.queue = SubSeq(@, s.commit.n + 1, Len(@))]), done, <<>>),
                Claimed(claim, done))

(* The commit is refused for good: its writes are Failed, the rest go on. *)
Fail ==
  /\ s.commit # NoCommit
  /\ EndCall(SameIdentity(CloseCut([s EXCEPT !.commit = NoCommit,
                                             !.queue = Cold(SubSeq(@, s.commit.n + 1, Len(@)))]),
                          <<>>, SubSeq(s.queue, 1, s.commit.n)), claim)

(* The other device published h, one or two commits on f, changing one key. *)
(* f is a head of this page's line, or its commit in flight, landed         *)
(* unheard.  h beats what it meets at its seq, for good, and displaces the  *)
(* page's own: the queue is held.                                           *)
Adopted(f, h, prev) ==
  [s EXCEPT !.pub = h, !.prev = prev, !.foreign = @ + 1,
            !.line = Append(Only(@, {i \in DOMAIN s.line : s.line[i].seq <= f.seq}), h),
            !.own = Cardinality({i \in DOMAIN s.line : s.line[i].seq <= f.seq}) + 1,
            !.beaten = @ \cup {g \in ToSet(s.line) : g.seq > f.seq},
            !.held = @ \/ h.seq = s.pub.seq]
(* What another device overwrote, having it, is not this page's to defend. *)
Released(c, f, h) ==
  [k \in Keys |-> IF c[k] # 0 /\ h.tree[k] # f.tree[k] /\ f.tree[k] = Writes[c[k]].sets[k]
                  THEN 0 ELSE c[k]]

(* The commit in flight is dead: it did not land.  Its writes go again from *)
(* the front, a try spent if its head had left (headed); a forced one, or   *)
(* one out of tries, is Lost.                                               *)
Dead(f, h, prev, q) ==
  EndCall(SameIdentity(DeadFront(Adopted(f, h, prev), q, Lost(s, q)), <<>>, Without(q, DOMAIN q \ Lost(s, q))),
          Released(claim, f, h))
(* It left the queue with its writes: the ledger says they landed, or       *)
(* cannot be read, and their fate is Unknown.                               *)
Gone(t) == CloseCut([t EXCEPT !.queue = Cold(SubSeq(@, s.commit.n + 1, Len(@))), !.commit = NoCommit])
Carried == SubSeq(s.queue, 1, s.commit.n)
Witnessed(f, h, prev) ==
  EndCall(SameIdentity(Gone(Adopted(f, h, prev)), Carried, <<>>), Released(Claimed(claim, Carried), f, h))
Overwritten(f) ==
  [k \in Keys |-> IF f = s.commit.head /\ k \in Written(Carried) THEN 0 ELSE claim[k]]
Unheard(f, h, prev) ==
  EndCall(SameIdentity(Gone(Adopted(f, h, prev)), <<>>, Carried), Released(Overwritten(f), f, h))
Fate(f, h, prev, headed, readable) ==
  \/ headed /\ ~readable /\ Unheard(f, h, prev)
  \/ headed /\ readable /\ f = s.commit.head /\ Witnessed(f, h, prev)
  \/ (headed => readable) /\ f # s.commit.head /\ Dead(f, h, prev, Again(s, headed))

(* The other device knows its own heads, and all but the last Behind of     *)
(* this page's.                                                             *)
Heard == ({s.commit.head} \ {NoHead}) \cup
         {s.line[i] : i \in {j \in s.own..Len(s.line) : Len(s.line) - j <= Behind}}
Foreign ==
  /\ s.foreign < MaxForeign
  /\ \E f \in Heard, k \in Keys, v \in Values, d \in 1..2, headed \in BOOLEAN, readable \in BOOLEAN :
       LET h == [seq |-> f.seq + d, tree |-> [f.tree EXCEPT ![k] = v]]
       IN /\ h.seq >= s.pub.seq /\ h \notin (ToSet(s.line) \cup s.beaten \cup {s.commit.head})
          /\ v # f.tree[k] \/ d = 2
          /\ headed => s.commit # NoCommit
          /\ f = s.commit.head => headed
          /\ Fate(f, h, IF readable /\ d = 1 THEN f ELSE NoHead, headed, readable)

-----------------------------------------------------------------------------
(* The Server's own reads.  A read is answered from the tree published when *)
(* it was asked.                                                            *)

(* Mutant: a forced write goes again whole. *)
KeepsAll(m, i) == DOMAIN m.writes[i].sets

(* The group goes again, each write without the keys it forces and the      *)
(* winner changed, at the front of the queue.                               *)
Keeps(m, i)   == {k \in DOMAIN m.writes[i].sets : ~(Forced(m.writes[i], k) /\ m.theirs[k] # AnyValue)}
Premises(m, i) == {k \in DOMAIN m.writes[i].reads : k \in Keeps(m, i) \/ ~Forced(m.writes[i], k)}
MergeWrite(t, m, i) ==
  [n |-> m.writes[i].n, round |-> t.rounds, index |-> i,
   sets |-> [k \in Keeps(m, i) |-> m.writes[i].sets[k]],
   reads |-> [k \in Premises(m, i) |-> m.writes[i].reads[k]], warm |-> FALSE, tries |-> 0]
Goes(m) == {i \in DOMAIN m.writes : Keeps(m, i) # {}}
(* Mutant: queued like any other write. *)
MergeBack(t, ws) == [t EXCEPT !.held = FALSE, !.cut = {}, !.queue = Cold(@ \o ws)]

MergeFront(t, ws) == [t EXCEPT !.held = FALSE, !.cut = {}, !.queue = Cold(ws \o @)]
SendMerge(t, m) ==
  LET sent == [t EXCEPT !.merge = [m EXCEPT !.phase = "sent", !.sent = Goes(m),
                !.landed = DOMAIN m.writes \ Goes(m),
                !.dropped = UNION {{<<i, k>> : k \in DOMAIN m.writes[i].sets \ Keeps(m, i)} : i \in DOMAIN m.writes}]]
  IN IF Goes(m) = {} THEN sent
     ELSE MergeFront(sent, Without([i \in DOMAIN m.writes |-> MergeWrite(t, m, i)], DOMAIN m.writes \ Goes(m)))

(* What the winner changed, read as far as key c: cut there and resumed     *)
(* from the head published now, or complete.                                *)
ReadTo(m, c) ==
  [m EXCEPT !.theirs = [k \in Keys |-> IF k \in m.next..c /\ m.tree[k] # m.from.tree[k]
                                       THEN m.tree[k] ELSE @[k]],
            !.next = c + 1]
DeltaAnswers ==
  /\ s.merge.phase = "delta"
  /\ \E c \in s.merge.next..NumKeys :
       IF c = NumKeys THEN EndCall(SendMerge(s, ReadTo(s.merge, c)), claim)
       ELSE EndCall([s EXCEPT !.merge = [ReadTo(@, c) EXCEPT !.tree = s.pub.tree]], claim)
(* The delta cannot be known: the keys are read at the winner instead. *)
DeltaFails ==
  /\ s.merge.phase = "delta"
  /\ EndCall([StartProbe(s, s.merge.writes) EXCEPT !.merge = NoMerge], claim)

(* A probe's key: what it holds there, or the read could not be answered. *)
ProbeAnswers ==
  \E k \in s.probe.pending, read \in BOOLEAN :
    EndCall([s EXCEPT !.probe.pending = @ \ {k},
                      !.probe.superseded = IF read /\ s.probe.tree[k] = LeftAt(s.probe.writes, k)
                                           THEN @ ELSE @ \cup {k}], claim)

Next ==
  \/ Accept \/ Apply \/ Cut \/ Land \/ Fail \/ Foreign
  \/ DeltaAnswers \/ DeltaFails \/ ProbeAnswers
Spec == Init /\ [][Next]_vars

(* The page's own steps are taken once they can be: blocks come, the signer *)
(* answers, the register takes a head, and every read ends.  (Weak fairness *)
(* of each, its guard in place of ENABLED.)                                 *)
Fairness ==
  /\ <>[]CanApply                    => []<><<Apply>>_vars
  /\ <>[]CanCut                      => []<><<Cut>>_vars
  /\ <>[](s.commit # NoCommit)       => []<><<Land>>_vars
  /\ <>[](s.merge.phase = "delta")   => []<><<DeltaAnswers \/ DeltaFails>>_vars
  /\ <>[](s.probe.pending # {})      => []<><<ProbeAnswers>>_vars
FairSpec == Spec /\ Fairness

-----------------------------------------------------------------------------
(* Properties *)

Value(n, k) == Writes[n].sets[k]

(* Types; a merge that waits for its delta has the queue held and no commit *)
(* in flight, so its writes go in front of everything (merge_front counts   *)
(* anything else as impossible); and a cut rebuilds what the warm root has, *)
(* nothing dropping out of it (commit_front's invariant 4).                 *)
TypeOK ==
  /\ s.pub.tree \in Trees /\ s.made \in 0..Len(Writes) /\ s.held \in BOOLEAN
  /\ s.commit.n \in 0..Len(s.queue) /\ s.commit.n <= MaxCommit
  /\ \A i \in DOMAIN s.queue : s.queue[i].tries \in 0..MaxTries
  /\ \A i \in DOMAIN s.queue : s.queue[i].round > 0 => s.queue[i].sets # <<>>
  /\ s.line[Len(s.line)] = s.pub
  /\ s.held <=> s.merge.phase = "delta"
  /\ s.held => s.commit = NoCommit
  /\ \A i \in 1..s.commit.n : s.queue[i].warm
  /\ s.commit = NoCommit => Judged(s, CutOf(s)).dropped = <<>>

(* THE FIRST DISPLACEMENT LOSES NOTHING UNTOLD.  While the other device has *)
(* published one head, a value a client was told Published is in the        *)
(* published tree, or is being judged, or its client was told Superseded,   *)
(* or the other device overwrote it having it.  (A second head before or    *)
(* after the first is judged may lose one silently, and so may a key that   *)
(* one write forces and another depends on: see the README.)                *)
BeingJudged(k) == k \in Written(s.merge.writes) \/ k \in Written(s.probe.writes)
Setters(k) == {n \in DOMAIN Writes : k \in DOMAIN Writes[n].sets}
OneWay(k)  == \A m, n \in Setters(k) : Forced(Writes[m], k) <=> Forced(Writes[n], k)
DisplacedIsTold ==
  s.foreign <= 1 =>
    \A k \in Keys : claim[k] # 0 /\ OneWay(k) =>
                      s.pub.tree[k] = Value(claim[k], k) \/ BeingJudged(k)

(* OWN ORDER.  Until a second head of the other device, the page's own      *)
(* commits replace one of its published values by a later write of its own  *)
(* only: a displaced write lands again before the writes that came after    *)
(* it, never over them.  (While a displaced group lands again, a key goes   *)
(* through the values of the group's own writes once more.)                 *)
Regrouped(n) == \E i \in DOMAIN s.merge.writes : s.merge.writes[i].n = n
OwnOrder ==
  [][s'.foreign = s.foreign /\ s.foreign <= 1 =>
       \A k \in Keys :
         claim[k] # 0 /\ s.pub.tree[k] = Value(claim[k], k) =>
           \/ s'.pub.tree[k] = s.pub.tree[k]
           \/ claim'[k] > claim[k]
           \/ Regrouped(claim[k])]_vars

(* NEVER BLIND.  A merge's forced write never goes onto the winner over a   *)
(* value the winner changed from their common base.                         *)
NeverBlind ==
  s.pub = s.merge.winner =>
    \A i \in DOMAIN s.queue : s.queue[i].round > 0 =>
      \A k \in DOMAIN s.queue[i].sets :
        Forced(s.queue[i], k) => s.pub.tree[k] = s.merge.from.tree[k]

(* Every displaced commit is judged to the end. *)
JudgementsEnd ==
  (s.merge # NoMerge \/ s.probe # NoProbe) ~> (s.merge = NoMerge /\ s.probe = NoProbe)
=============================================================================
