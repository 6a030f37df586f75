-------------------------------- MODULE Reads --------------------------------
(***************************************************************************)
(* Reading the tree over a node that forgets: the engine's parked reads,   *)
(* races, repairs from parity, the parked write and the audits             *)
(* (engine/src/lib.rs, race_get.rs, repair.rs, read.rs), and the page that *)
(* carries out what the engine asks (page/src/lib.rs).                     *)
(*                                                                         *)
(* A call of the page is one action: the engine's step for the event, its  *)
(* effects in their order, every step those effects make in turn, and the  *)
(* eviction that ends the call.  The page's state is one record s; the     *)
(* operators below are the handlers, each taking the state and giving the  *)
(* state it leaves, the effects it emitted appended to s.fx.               *)
(*                                                                         *)
(* One tree, its shape in the constants.  Left out: packs, preload,        *)
(* subscriptions, the caps on GETs of a round and of a request, the        *)
(* established prefix of a delta and its stall rule, contexts.             *)
(***************************************************************************)
EXTENDS GetTable, FiniteSetsExt    \* the blocks and the GETs

CONSTANTS
  Values,        \* the blocks that are no nodes
  Above,         \* Above[b]: the nodes on the way from the root to b
  Group,         \* Group[b]: the slots of b's sibling group, k members then parity
  NumReads,
  ReadWant,      \* ReadWant[q]: what read q wants, and the blocks on its way
  WritePath,     \* the blocks the write reads on its way, from the root
  Passes,        \* the assets audit's passes
  Audited,       \* the blocks they ask for
  RaceGet,       \* Params::race_get
  RepairPass,    \* REPAIR mode: the parity slots of a race are watched
  PutBack,       \* a rebuilt block goes back to the node
  Unsolvable,    \* groups whose rebuild does not verify
  Window,        \* GETs on the wire at once: the window's floor
  MaxParked,     \* Params::max_parked_reads
  MaxRounds,     \* Params::max_apply_rounds
  InitHeld,      \* the blocks the page holds when it starts
  Garbled,       \* bound: blocks the node may answer wrong
  Gone,          \* the blocks the node has lost
  Evictable, MaxEvicted    \* bounds: blocks that leave the page, and how often

ReadIds     == 1 .. NumReads
WatchPass   == "REPAIR_PASS"
None        == "none"

INSTANCE Wanted WITH Reads <- ReadIds, Passes <- Passes \cup {WatchPass}

Nodes       == Blocks \ Values
Slots(m)    == Group[m].slots
SlotsIn(m, b) == {i \in DOMAIN Slots(m) : Slots(m)[i] = b}
IsParity(m, b) == \E i \in SlotsIn(m, b) : i > Group[m].k
Members(p)  == LET m == CHOOSE m \in Blocks : IsParity(m, p)
               IN  {Slots(m)[i] : i \in 1 .. Group[m].k}

ASSUME ReadsAssumption ==
  /\ Values \subseteq Blocks /\ Unsolvable \subseteq Blocks
  /\ Above \in [Blocks -> SUBSET Blocks]
  /\ \A m \in Blocks : Len(Slots(m)) > 0 => Group[m].k \in 1 .. Len(Slots(m)) - 1
  /\ ReadWant \in [ReadIds -> [kind : {"get", "scan", "delta"}, path : Seq(Blocks)]]
  /\ WritePath \in Seq(Nodes)
  /\ Window \in Nat \ {0} /\ MaxParked \in Nat /\ MaxRounds \in Nat /\ MaxEvicted \in Nat

-----------------------------------------------------------------------------
(* The state of the page and its engine. *)

Repairs == [on : BOOLEAN, missed : BOOLEAN,
            have : SUBSET (1 .. 4), asked : SUBSET (1 .. 4), dropped : SUBSET (1 .. 4)]
NoRepair == [on |-> FALSE, missed |-> FALSE, have |-> {}, asked |-> {}, dropped |-> {}]
NoPark   == [on |-> FALSE, rounds |-> 0, held |-> {}]

Effects == {"fetch", "keep", "putback", "unwanted"} \X Blocks

Verdicts == (Passes \cup {WatchPass}) \X Blocks \X {"present", "absent", "dropped"}

Pages ==
  [recovered : BOOLEAN,
   before   : Seq(ReadIds),                    \* the reads that wait for the head
   read     : [ReadIds -> {"new", "before", "parked", "answered", "gave_up", "superseded"}],
   frontier : [ReadIds -> Blocks \cup {None}],
   held     : [ReadIds -> SUBSET Blocks],      \* pinned for a parked read
   arrived  : [ReadIds -> BOOLEAN],
   w        : Wants,
   repairs  : [Blocks -> Repairs],             \* by the block rebuilt
   write    : {"new", "parked", "applied", "failed"},
   pw       : [on : BOOLEAN, rounds : Nat, held : SUBSET Blocks],
   watch    : SUBSET Blocks,                   \* parity_watch
   owed     : SUBSET Blocks,                   \* parity_owed
   src      : SUBSET Blocks,                   \* the page's blocks
   g        : Gets,
   puts     : SUBSET Blocks,                   \* repair_puts on the wire
   fx       : Seq(Effects), landing : Seq(Blocks),   \* of the step under way
   dropped  : SUBSET Blocks, here : SUBSET Blocks, told : SUBSET Verdicts]

Source(s) == s.src \cup s.here

Emit(s, e, bs) == [s EXCEPT !.fx = @ \o [i \in DOMAIN bs |-> <<e, bs[i]>>]]

(* drop_reader: the blocks whose last reader leaves may be Unwanted. *)
Leave(s, w) == [s EXCEPT !.w = w, !.dropped = @ \cup Left(s.w, w)]

-----------------------------------------------------------------------------
(* Repairs. *)

EndRepair(s, m) == Leave([s EXCEPT !.repairs[m] = NoRepair], DropSlots(s.w, m))

(* What verifies is kept, put back when a read or the write waits on it,    *)
(* and lands like an arrival.                                               *)
Rebuilt(s, m, waits) ==
  LET out == IF PutBack /\ waits THEN <<"keep", "putback">> ELSE <<"keep">>
  IN  [s EXCEPT !.fx = @ \o [i \in DOMAIN out |-> <<out[i], m>>], !.landing = Append(@, m)]

(* With k of the group here, rebuild and verify. *)
TryRepair(s, m) ==
  IF ~s.repairs[m].on \/ Cardinality(s.repairs[m].have) < Group[m].k THEN s
  ELSE IF m \in Unsolvable THEN EndRepair(s, m)
  ELSE Rebuilt(EndRepair(s, m), m, s.w.reads[m] # {} \/ m \in s.w.needs)

(* The slots ixs are asked, one ask for a block nobody waits for yet. *)
AskSlots(s, m, ixs) ==
  LET bs == SelectSeq(Slots(m), LAMBDA b : SlotsIn(m, b) \cap ixs # {})
      t  == [s EXCEPT !.repairs[m].asked = @ \cup ixs, !.w = WantSlots(@, ToSet(bs), m)]
  IN  Emit(t, "fetch", SelectSeq(bs, LAMBDA b : ~Wanted(s.w, b)))

StartRepair(s, m, missed) ==
  LET ixs  == DOMAIN Slots(m) \ SlotsIn(m, m)
      have == {i \in ixs : Slots(m)[i] \in Source(s)}
      r    == [NoRepair EXCEPT !.on = TRUE, !.missed = missed, !.have = have]
  IN  TryRepair(AskSlots([s EXCEPT !.repairs[m] = r], m, ixs \ have), m)

(* find_group: a held node lists b, under the root the read stands on. *)
GroupKnown(s, b) == Len(Slots(b)) > 0 /\ Above[b] \subseteq Source(s)

(* Mutant: the slots the race dropped stay dropped. *)
RaceMissedQuietly(s, m) == [s EXCEPT !.repairs[m].missed = s.repairs[m].on]

(* The race for b is a repair now: the slots it dropped are asked again. *)
RaceMissed(s, m) ==
  LET t == [s EXCEPT !.repairs[m].missed = TRUE, !.repairs[m].dropped = {}]
  IN  IF ~s.repairs[m].on \/ s.repairs[m].missed THEN s
      ELSE AskSlots(t, m, s.repairs[m].dropped)

AuditWant(s, b, x) ==
  LET t == [s EXCEPT !.w = WantAudit(@, b, x)]
  IN  IF Wanted(s.w, b) THEN t ELSE Emit(t, "fetch", <<b>>)

(* In REPAIR mode a race also watches its group's parity, until the node   *)
(* itself has answered for it.                                             *)
WatchParity(s, m) ==
  IF ~RepairPass THEN s ELSE
  FoldLeft(LAMBDA t, p : IF p \in t.src \cup t.watch \cup t.owed THEN t
                         ELSE AuditWant([t EXCEPT !.watch = @ \cup {p}], p, WatchPass),
           s, SubSeq(Slots(m), Group[m].k + 1, Len(Slots(m))))

Race(s, b) ==
  IF ~RaceGet \/ s.repairs[b].on \/ ~GroupKnown(s, b) THEN s
  ELSE WatchParity(StartRepair(s, b, FALSE), b)

(* What a slot's answer means to one repair.  acc.still: asked again. *)
RepairHears(acc, m, b, how) ==
  LET s    == acc.s
      r    == s.repairs[m]
      ixs  == SlotsIn(m, b)
      good == how = "good"
      r2   == IF good THEN [r EXCEPT !.have = @ \cup ixs, !.asked = @ \ ixs]
              ELSE IF r.missed THEN [r EXCEPT !.asked = @ \cup ixs]
              ELSE [r EXCEPT !.asked = @ \ ixs, !.dropped = @ \cup ixs]
      lost == IF how = "absent" /\ IsParity(m, b) THEN {b} ELSE {}
  IN  IF ~r.on THEN acc
      ELSE IF ~Wanted(s.w, m) THEN [acc EXCEPT !.s = EndRepair(s, m)]
      ELSE [s |-> TryRepair([s EXCEPT !.repairs[m] = r2, !.owed = @ \cup lost], m),
            still |-> acc.still \/ (~good /\ r.missed)]

(* A repair that needs the slot no more leaves it; one a repair still waits *)
(* for is asked again.                                                      *)
AskStill(acc, b) ==
  LET t     == acc.s
      spent == {m \in t.w.slots[b] :
                  ~(t.repairs[m].on /\ SlotsIn(m, b) \cap t.repairs[m].asked # {})}
  IN  IF ~acc.still THEN Leave(t, DropSpent(t.w, b, spent))
      ELSE IF t.w.slots[b] # {} THEN Emit(t, "fetch", <<b>>)
      ELSE t

OnRepairBlock(s, b, how) ==
  AskStill(FoldSet(LAMBDA m, acc : RepairHears(acc, m, b, how), [s |-> s, still |-> FALSE],
                   s.w.slots[b]), b)

-----------------------------------------------------------------------------
(* Parked reads. *)

(* What read q still needs of what is here (read::attempt). *)
Needs(s, q) ==
  LET path == ReadWant[q].path
      miss == SelectSeq(path, LAMBDA b : b \notin Source(s))
      from == IF s.frontier[q] = None THEN miss
              ELSE SelectSeq(miss, LAMBDA b : s.frontier[q] \in Above[b] \cup {b})
      open == SelectSeq(miss, LAMBDA b : b \in Nodes /\ Above[b] \subseteq Source(s))
  IN  IF ReadWant[q].kind = "get" THEN SubSeq(from, 1, IF from = <<>> THEN 0 ELSE 1)
      ELSE IF open # <<>> THEN open
      ELSE miss

Unpark(s, q, how) ==
  Leave([s EXCEPT !.read[q] = how, !.held[q] = {}, !.frontier[q] = None],
        DropRead(s.w, q))

(* A block a race asked already answers this read too; otherwise the first  *)
(* read to want it asks it, and races the rest of its group.                *)
AskFor(s, q, b) ==
  LET t     == [s EXCEPT !.w = WantRead(@, b, q)]
      raced == s.w.slots[b] # {}
  IN  IF raced \/ s.w.reads[b] = {}
      THEN Race(IF raced THEN t ELSE Emit(t, "fetch", <<b>>), b)
      ELSE t

(* It answers, or waits for what it needs. *)
AnswerOrAsk(s, q, need) ==
  LET t == IF ReadWant[q].kind = "get" /\ need # <<>> /\ Head(need) \in Nodes
           THEN [s EXCEPT !.frontier[q] = Head(need)] ELSE s
  IN  IF need = <<>> THEN Unpark(s, q, "answered")
      ELSE FoldLeft(LAMBDA u, b : AskFor(u, q, b), t, need)

Drive(s, q) == IF s.read[q] # "parked" THEN s ELSE AnswerOrAsk(s, q, Needs(s, q))

Parked(s) == {q \in ReadIds : s.read[q] = "parked"}

(* Over the cap the newcomer gives up, and the effects of its attempt with it. *)
Cap(s, q, fx) ==
  IF Cardinality(Parked(s)) > MaxParked /\ q \in Parked(s)
  THEN [Unpark(s, q, "gave_up") EXCEPT !.fx = fx]
  ELSE s

OnRead(s, q) ==
  Cap(Drive([s EXCEPT !.read[q] = "parked", !.held[q] = {Head(ReadWant[q].path)}], q), q, s.fx)

ReadOrWait(s, q) ==
  IF s.recovered THEN OnRead(s, q)
  ELSE IF Len(s.before) >= MaxParked THEN [s EXCEPT !.read[q] = "gave_up"]
  ELSE [s EXCEPT !.read[q] = "before", !.before = Append(@, q)]

ReleaseBeforeHead(s) ==
  FoldLeft(OnRead, [s EXCEPT !.recovered = TRUE, !.before = <<>>], s.before)

-----------------------------------------------------------------------------
(* The parked write. *)

ReleaseWrite(s, how) ==
  Leave([s EXCEPT !.pw = NoPark, !.write = how], ReleaseNeeds(s.w))

ParkWrite(s, needs) ==
  LET t   == Leave(s, ReleaseNeeds(s.w))
      u   == [t EXCEPT !.w = WantWrite(@, ToSet(needs)), !.write = "parked",
                       !.pw = [on |-> TRUE, rounds |-> s.pw.rounds + 1, held |-> s.pw.held]]
  IN  IF s.pw.rounds + 1 > MaxRounds THEN ReleaseWrite(s, "failed")
      ELSE Emit(u, "fetch", SelectSeq(needs, LAMBDA b : ~Wanted(t.w, b)))

(* The write applies, or parks on the first block of its path not here. *)
Advance(s) ==
  LET need == SelectSeq(WritePath, LAMBDA b : b \notin Source(s))
  IN  IF need = <<>> THEN ReleaseWrite(s, "applied") ELSE ParkWrite(s, <<Head(need)>>)

ResumeWrite(s, b) ==
  LET t == [Leave(s, DropNeed(s.w, b)) EXCEPT !.pw.held = @ \cup {b}]
  IN  IF b \notin s.w.needs THEN s
      ELSE IF t.w.needs # {} THEN t
      ELSE Advance(t)

(* Its client asks after it: a new chain. *)
AskWrite(s) ==
  LET t == [s EXCEPT !.pw.held = {}]
  IN  IF s.w.needs # {} THEN Emit(t, "fetch", SetToSeq(s.w.needs)) ELSE Advance(t)

-----------------------------------------------------------------------------
(* Answers. *)

RepairFor(s, b) ==
  IF s.repairs[b].on \/ ~GroupKnown(s, b) THEN s ELSE StartRepair(s, b, TRUE)

OnMissedWrite(s, b) ==
  IF b \in s.w.needs THEN RepairFor(ParkWrite(s, SetToSeq(s.w.needs)), b) ELSE s

(* Its reads wait on: asked again, and repaired. *)
AskMissed(s, b) ==
  IF s.w.reads[b] = {} THEN s
  ELSE IF s.repairs[b].on THEN RaceMissed(Emit(s, "fetch", <<b>>), b)
  ELSE RepairFor(Emit(s, "fetch", <<b>>), b)

OnMissedRead(s, b) ==
  AskMissed(FoldSet(LAMBDA q, t : Unpark(t, q, "gave_up"), s,
                    {q \in s.w.reads[b] : ReadWant[q].kind = "delta"}), b)

Verdict(s, b, xs, v) == [s EXCEPT !.told = @ \cup (xs \X {b} \X {v})]

AuditsMiss(s, b) ==
  Verdict(Leave([s EXCEPT !.watch = @ \ {b}, !.owed = IF b \in s.watch THEN @ \cup {b} ELSE @],
                MissedAudits(s.w, b)), b, s.w.audits[b], "absent")

SlotsHear(s, b, how) == IF s.w.slots[b] # {} THEN OnRepairBlock(s, b, how) ELSE s

(* b answered NotFound: the audits have their verdict, all others wait on. *)
OnMissed(s, b) == OnMissedRead(OnMissedWrite(SlotsHear(AuditsMiss(s, b), b, "absent"), b), b)

(* b's readers are taken; the reads go on, then the write. *)
Deliver(s, b, byNode) ==
  LET reqs == s.w.reads[b]
      t    == [Verdict(s, b, IF byNode THEN s.w.audits[b] ELSE {}, "present") EXCEPT
                 !.w = Served(@, b, byNode), !.here = @ \cup {b},
                 !.arrived = [q \in ReadIds |-> @[q] \/ q \in reqs],
                 !.held    = [q \in ReadIds |-> IF q \in reqs THEN @[q] \cup {b} ELSE @[q]]]
      u    == FoldLeft(LAMBDA v, q : IF q \in reqs THEN Drive(v, q) ELSE v, t,
                       [q \in ReadIds |-> q])
  IN  [ResumeWrite(u, b) EXCEPT !.here = {}]

(* b is here: its own repair ends. *)
Land(s, b, byNode) ==
  Deliver(IF s.repairs[b].on THEN EndRepair(s, b) ELSE s, b, byNode)

(* Mutant: a slot is the repairs' alone, whoever reads it. *)
RepairsHearAlone(s, b, good, byNode, slot) ==
  IF slot THEN s ELSE IF good THEN Land(s, b, byNode) ELSE OnMissed(s, b)

ReadersHear(s, b, good, byNode, slot) ==
  IF slot /\ s.w.reads[b] = {} /\ ~(byNode /\ s.w.audits[b] # {}) THEN s
  ELSE IF good THEN Land(s, b, byNode)
  ELSE OnMissed(s, b)

(* byNode: the node answered a GET; otherwise b landed here.  A slot that  *)
(* no read waits on, and no audit the node answers, is the repairs' alone. *)
OnArrived(s, b, good, byNode) ==
  ReadersHear(SlotsHear(IF byNode THEN [s EXCEPT !.watch = @ \ {b}] ELSE s, b,
                        IF good THEN "good" ELSE "wrong"),
              b, good, byNode, s.w.slots[b] # {})

-----------------------------------------------------------------------------
(* The end of a step, and the page carrying out its effects. *)

(* Mutant: what is rebuilt waits for the next step. *)
LandLater(s, landed) == s

(* Every block rebuilt in the step lands, once. *)
RECURSIVE LandRebuilt(_, _)
LandRebuilt(s, landed) ==
  LET b == Head(s.landing)
      t == [s EXCEPT !.landing = Tail(@)]
  IN  IF s.landing = <<>> THEN s
      ELSE IF b \in landed THEN LandRebuilt(t, landed)
      ELSE LandRebuilt(OnArrived(t, b, TRUE, FALSE), landed \cup {b})

(* A parity block the node lacks goes back once the page holds its members. *)
PutOwedParity(s) ==
  LET due == {p \in s.owed : PutBack /\ Members(p) \subseteq s.src}
  IN  Emit([s EXCEPT !.owed = @ \ due], "putback", SetToSeq(due))

(* Mutant: whoever wants the block again within the step. *)
SettleAll(s) == Emit([s EXCEPT !.dropped = {}], "unwanted", SetToSeq(s.dropped \ s.src))

SettleUnwanted(s) ==
  LET out == {b \in s.dropped \ s.src : ~Wanted(s.w, b)}
  IN  Emit([s EXCEPT !.dropped = {}], "unwanted", SetToSeq(out))

OneAskEach(s) ==
  [s EXCEPT !.fx = FoldLeft(LAMBDA a, e : IF e[1] = "fetch" /\ e \in ToSet(a) THEN a
                                         ELSE Append(a, e), <<>>, @)]

EndStep(s) ==
  OneAskEach(SettleUnwanted(PutOwedParity(LandRebuilt(s, {}))))

RECURSIVE CarryOut(_)

Landed(s, b) == CarryOut(EndStep(OnArrived(s, b, TRUE, FALSE)))

(* Held here, b is served from memory; an audit asks the node all the same. *)
AskNode(s, b, held) ==
  IF (held => s.w.audits[b] # {}) /\ s.g.st[b] = "none" THEN [s EXCEPT !.g = Send(@, b)] ELSE s

Fetch(s, b) == AskNode(IF b \in s.src THEN Landed(s, b) ELSE s, b, b \in s.src)

Carry(s, e) ==
  LET b == e[2]
  IN  CASE e[1] = "fetch"    -> Fetch(s, b)
        [] e[1] = "keep"     -> [s EXCEPT !.src = @ \cup {b}]
        [] e[1] = "unwanted" -> [s EXCEPT !.g = Drop(@, b)]
        [] e[1] = "putback"  -> [s EXCEPT !.src = @ \cup {b}, !.puts = @ \cup {b}]

(* A held block's GET ends, its readers served from the held bytes. *)
EndGet(s, b) ==
  LET t == [s EXCEPT !.g = Drop(@, b)]
  IN  IF Wanted(t.w, b) /\ b \in t.src THEN Landed(t, b) ELSE t

EndUnneededGets(s) ==
  FoldSet(LAMBDA b, t : EndGet(t, b), s,
          {b \in s.src : s.g.st[b] # "none" /\ s.w.audits[b] = {}})

CarryOut(s) == EndUnneededGets(FoldLeft(Carry, [s EXCEPT !.fx = <<>>], s.fx))

(* The blocks that may leave the page at the end of a call. *)
Pinned(s) ==
  UNION {s.held[q] : q \in ReadIds} \cup UNION {WaitedBy(s.w, q) : q \in ReadIds}
    \cup s.pw.held \cup s.w.needs

-----------------------------------------------------------------------------
VARIABLES
  page,
  has,           \* the blocks the node has
  told,          \* the verdicts of the last call
  evicted        \* bound

vars == <<page, has, told, evicted>>

InitPage(held) ==
  [recovered |-> FALSE, before |-> <<>>,
   read |-> [q \in ReadIds |-> "new"], frontier |-> [q \in ReadIds |-> None],
   held |-> [q \in ReadIds |-> {}], arrived |-> [q \in ReadIds |-> FALSE],
   w |-> NoWants, repairs |-> [b \in Blocks |-> NoRepair], write |-> "new", pw |-> NoPark,
   watch |-> {}, owed |-> {},
   src |-> held, g |-> NoGets(Window), puts |-> {},
   fx |-> <<>>, landing |-> <<>>, dropped |-> {}, here |-> {}, told |-> {}]

Init ==
  /\ page = InitPage(InitHeld) /\ has = Blocks \ Gone /\ told = {} /\ evicted = 0

(* A call of the page: its step ends, and blocks nothing pins may leave. *)
EndCall(s) ==
  \E out \in SUBSET ((s.src \cap Evictable) \ Pinned(s)) :
    /\ evicted + Cardinality(out) <= MaxEvicted
    /\ evicted' = evicted + Cardinality(out)
    /\ page' = [s EXCEPT !.src = @ \ out, !.told = {}] /\ told' = s.told

Call(s) == EndCall(CarryOut(EndStep(s)))

(* What the app does. *)
Read(q) ==
  /\ page.read[q] = "new"
  /\ Call(ReadOrWait(page, q))
  /\ UNCHANGED has

Recover ==
  /\ ~page.recovered
  /\ Call(ReleaseBeforeHead(page))
  /\ UNCHANGED has

(* Bound: one write, and one that parks; one that finds its path here       *)
(* applies and changes nothing else of this state.                          *)
Write ==
  /\ page.recovered /\ page.write = "new" /\ ~(ToSet(WritePath) \subseteq page.src)
  /\ Call(Advance(page))
  /\ UNCHANGED has

AskAfterWrite ==
  /\ page.pw.on
  /\ Call(AskWrite(page))
  /\ UNCHANGED has

(* Its client silent for long, the parked write ends. *)
ReleaseSilent ==
  /\ page.pw.on
  /\ Call(ReleaseWrite(page, "failed"))
  /\ UNCHANGED has

(* A head moved past the read's root and nothing arrived for it: forgotten, *)
(* the repair of a block only it waited on ends with it.                    *)
Supersede(q) ==
  LET bs == WaitedBy(page.w, q)
      s  == Unpark(page, q, "superseded")
      t  == FoldSet(LAMBDA b, u : IF Wanted(s.w, b) \/ ~u.repairs[b].on THEN u
                                  ELSE EndRepair(u, b), s, bs)
  IN  /\ page.read[q] = "parked" /\ ~page.arrived[q] /\ bs # {}
      /\ page' = CarryOut(SettleUnwanted(t))
      /\ told' = {} /\ UNCHANGED <<has, evicted>>

Audit(x, b) ==
  /\ b \in Audited /\ x \notin page.w.audits[b]
  /\ Call(AuditWant(page, b, x))
  /\ UNCHANGED has

AuditDrop(x, b) ==
  /\ x \in page.w.audits[b]
  /\ Call(Verdict(Leave(page, DropAudit(page.w, b, x)), b, {x}, "dropped"))
  /\ UNCHANGED has

(* The node's answers; one nobody waits for is ignored. *)
Answered(b) == [page EXCEPT !.g = Drop(NodeAnswers(@, b), b)]
Ignored(b)  == /\ page' = [page EXCEPT !.g = NodeAnswers(@, b)]
               /\ told' = {} /\ UNCHANGED evicted

Got(b) ==
  /\ page.g.asked[b] > 0 /\ b \in has
  /\ IF TakesAnswer(page.g, b)
     THEN Call(OnArrived([Answered(b) EXCEPT !.src = @ \cup {b}], b, TRUE, TRUE))
     ELSE Ignored(b)
  /\ UNCHANGED has

GotWrong(b) ==
  /\ b \in Garbled /\ page.g.asked[b] > 0
  /\ IF TakesAnswer(page.g, b)
     THEN Call(OnArrived([Answered(b) EXCEPT !.g = Park(@, b)], b, FALSE, TRUE))
     ELSE Ignored(b)
  /\ UNCHANGED has

Missed(b) ==
  /\ page.g.asked[b] > 0
  /\ IF TakesAnswer(page.g, b)
     THEN Call(OnMissed([Answered(b) EXCEPT !.g = Park(@, b)], b))
     ELSE Ignored(b)
  /\ UNCHANGED has

(* The page's clock. *)
Lose(b) ==
  /\ page.g.st[b] = "wire"
  /\ Call([page EXCEPT !.g = Resend(@, b)])
  /\ UNCHANGED has

Due(b) ==
  /\ page.g.st[b] = "parked"
  /\ Call([page EXCEPT !.g =
             IF (b \in page.src /\ page.w.audits[b] = {}) \/ ~Wanted(page.w, b)
             THEN Drop(@, b) ELSE Resend(@, b)])
  /\ UNCHANGED has

(* The node's answer to a PUT of a rebuilt block. *)
PutOk(b) ==
  /\ b \in page.puts
  /\ page' = [page EXCEPT !.puts = @ \ {b}]
  /\ has' = has \cup {b}
  /\ told' = {} /\ UNCHANGED evicted

PutRefused(b) ==
  /\ b \in page.puts
  /\ page' = [page EXCEPT !.puts = @ \ {b}]
  /\ told' = {} /\ UNCHANGED <<has, evicted>>

Next ==
  \/ Recover \/ Write \/ AskAfterWrite \/ ReleaseSilent
  \/ \E q \in ReadIds : Read(q) \/ Supersede(q)
  \/ \E b \in Blocks : \/ Got(b) \/ GotWrong(b) \/ Missed(b) \/ Lose(b) \/ Due(b)
                       \/ PutOk(b) \/ PutRefused(b)
                       \/ \E x \in Passes : Audit(x, b) \/ AuditDrop(x, b)

Spec == Init /\ [][Next]_vars

(* The head comes, the node ends every GET it was given, and the page's     *)
(* clock goes on: a parked GET comes due, one on the wire is lost.  A block *)
(* the node has and is asked for again and again it gives in the end.  The  *)
(* weak and the strong fairness of Lose and Got, with their guards.         *)
Fairness ==
  /\ <>page.recovered
  /\ \A b \in Blocks :
       /\ []<>(page.g.asked[b] = 0)
       /\ []<>(page.g.st[b] # "parked")
       /\ []<>(page.g.st[b] # "wire") \/ []<><<Lose(b)>>_vars
       /\ <>[]~(page.g.asked[b] > 0 /\ b \in has) \/ []<><<Got(b)>>_vars

FairSpec == Spec /\ Fairness

-----------------------------------------------------------------------------
(* Every state of the page is one of Pages; between calls no effect and no  *)
(* landing of a step is left over.                                          *)
TypeOK ==
  /\ page.fx = <<>> /\ page.landing = <<>> /\ page.dropped = {} /\ page.here = {}
  /\ page \in Pages /\ has \subseteq Blocks /\ told \subseteq Verdicts
  /\ evicted \in 0 .. MaxEvicted

(* A block that is wanted, and not here or wanted of the node itself, has a *)
(* GET.                                                                     *)
WantedIsAsked ==
  \A b \in Blocks :
    Wanted(page.w, b) /\ (b \notin page.src \/ page.w.audits[b] # {}) => page.g.st[b] # "none"

(* No parked read waits on a block the page holds. *)
HeldIsServed == \A b \in page.src : page.w.reads[b] = {}

(* An audit is told "present" by the node's own answer, never by a block    *)
(* held, landed or rebuilt here; and one that asks is told in the end only  *)
(* by a call that gives its verdict.                                        *)
AuditByNode ==
  [][\A x \in Passes, b \in Blocks :
       /\ <<x, b, "present">> \in told' => Got(b)
       /\ x \in page.w.audits[b] \ page'.w.audits[b] => \E v \in told' : v[1] = x /\ v[2] = b]_vars

(* A read ends while the node can give what it needs. *)
ReadsEnd == \A q \in ReadIds : page.read[q] \in {"before", "parked"} ~>
                                page.read[q] \notin {"before", "parked"}
=============================================================================
