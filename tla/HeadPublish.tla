---------------------------- MODULE HeadPublish ----------------------------
(***************************************************************************)
(* Pages of one person publish the head of one tree.  Each page talks to   *)
(* one node; a node holds a signer, with its one record, and a copy of the *)
(* head Register; pages of one node share its signer, and nodes bring      *)
(* their copies together by the Register's merge.                          *)
(*                                                                         *)
(* Any op may be lost (never served), served twice or late: the requests   *)
(* and UPDATEs a page ever sent stay serveable.  A register answer is a    *)
(* copy of the Register as it was when the node took it, and may arrive    *)
(* after the Register moved; answers overtake one another.  A page may be  *)
(* closed at any point and never comes back (a reload is another page).    *)
(***************************************************************************)
EXTENDS PageHead

CONSTANTS
  Nodes,
  NodeOf,        \* the node a page is connected to
  SignOutcomes,  \* what may become of a request: signed, not saved, or refused
                 \* for good (a signer with no key, or that cannot sign)
  Refusable,     \* the pages whose Signs may be refused for good (a signer
                 \* also refuses a page it does not sign for)
  Closable,      \* the pages that may be closed
  Rejecting,     \* the pages whose node may reject a block of theirs
  Sleepy,        \* the pages whose register answers may arrive late
  Subscribed,    \* the pages the node tells of a changed head
  Accepts,       \* bound: how many writes each page takes
  MaxSeq,        \* bound: no commit is cut past this head
  MaxLate        \* bound: register answers on their way to one page

ASSUME NodesAssumption ==
  /\ NodeOf \in [Pages -> Nodes]
  /\ SignOutcomes \subseteq {"Signed", "Retry", "Final"}
  /\ Refusable \cup Closable \cup Rejecting \cup Sleepy \cup Subscribed \subseteq Pages
  /\ Accepts \in [Pages -> 0 .. MaxWrites]
  /\ MaxSeq \in Nat
  /\ MaxLate \in Nat

VARIABLES
  page,    \* each page's own state
  rec,     \* each signer's record: the last head it signed
  reg,     \* each node's copy of the Register
  asked,   \* the Signs that ever reached the wire of a node
  sent,    \* the UPDATEs that ever reached the wire of a node
  late,    \* register answers on their way to a page
  held,    \* ghost: the heads each node's Register has held
  sigs     \* ghost: every head each signer has signed

vars == <<page, rec, reg, asked, sent, late, held, sigs>>

Init ==
  /\ page = [p \in Pages |-> InitPage]
  /\ rec = [n \in Nodes |-> NoHead]
  /\ reg = [n \in Nodes |-> NoHead]
  /\ asked = [n \in Nodes |-> {}]
  /\ sent = [n \in Nodes |-> {}]
  /\ late = [p \in Pages |-> {}]
  /\ held = [n \in Nodes |-> {NoHead}]
  /\ sigs = [n \in Nodes |-> {}]

On(p) == page[p].up = "On"

(* Page p moves to state s; the ops it waits for reach its node's wire. *)
Step(p, s) ==
  /\ page' = [page EXCEPT ![p] = s]
  /\ asked' = [asked EXCEPT ![NodeOf[p]] = @ \cup ({s.sign} \ {NoHead})]
  /\ sent' = [sent EXCEPT ![NodeOf[p]] = @ \cup ({s.upd} \ {NoHead})]

PageStep(p, s) == Step(p, s) /\ UNCHANGED <<rec, reg, late, held, sigs>>

----------------------------------------------------------------------------
(* The page.                                                               *)

(* The engine starts by reading the head (on_start). *)
Start(p) ==
  /\ page[p].up = "Off"
  /\ PageStep(p, Read([page[p] EXCEPT !.up = "On"], "Recover"))

Close(p) ==
  /\ On(p) /\ p \in Closable
  /\ page' = [page EXCEPT ![p] = [InitPage EXCEPT !.up = "Gone", !.told = page[p].told]]
  /\ late' = [late EXCEPT ![p] = {}]
  /\ UNCHANGED <<rec, reg, asked, sent, held, sigs>>

(* A write is taken at any time, before the head is known too. *)
Accept(p) ==
  /\ On(p)
  /\ \E i \in 1 .. Accepts[p] :
       /\ page[p].told[i] = "None"
       /\ \A k \in 1 .. (i - 1) : page[p].told[k] # "None"
       /\ PageStep(p, Tell(page[p], {i}, "Queued"))

(* Mutant: any write of the queue is cut, not its front. *)
CutNowAny(p) ==
  LET s == page[p] IN
  /\ On(p) /\ s.has /\ ~Committing(s) /\ s.pub.seq < MaxSeq
  /\ \E i \in Cuttable(s) : PageStep(p, Cut(p, s, {i}, i, {}))

(* The lane idle and the head known, the ready front of the queue is cut: *)
(* ready, the writes up to `last`; taken, those up to `t` (the commit's   *)
(* limit); `failed`, those of them a read of which no longer holds.       *)
CutNow(p) ==
  LET s == page[p] IN
  /\ On(p) /\ s.has /\ ~Committing(s) /\ s.pub.seq < MaxSeq
  /\ \E last \in Cuttable(s) : \E t \in {i \in Cuttable(s) : i <= last} :
       LET taken == {i \in Cuttable(s) : i <= t}
       IN  \E failed \in SUBSET MayConflict(p, taken) :
             PageStep(p, Cut(p, s, taken, IF CutOpen(s) THEN s.until ELSE last, failed))

RaceReady(p) ==
  /\ On(p) /\ page[p].commit.stage = "Racing"
  /\ PageStep(p, SendHead(p, page[p]))

BlockRejected(p) ==
  /\ On(p) /\ p \in Rejecting /\ page[p].commit.stage = "Racing"
  /\ PageStep(p, Rejected(page[p]))

(* A Heading commit that has heard nothing asks for the head (ask_head). *)
AskHead(p) ==
  /\ On(p) /\ page[p].commit.stage = "Heading"
  /\ PageStep(p, Read(page[p], "Recover"))

HearSigner(p) ==
  /\ On(p) /\ page[p].ans # NoAnswer
  /\ PageStep(p, OnSigner(p, page[p]))

SignLost(p) ==
  /\ On(p) /\ page[p].sign # NoHead
  /\ PageStep(p, OnSignLost(p, page[p]))

(* The UPDATE's answer: merged, or lost with its answer sent all the same. *)
HearUpdated(p) ==
  /\ On(p) /\ page[p].upd # NoHead
  /\ PageStep(p, OnUpdated(page[p]))

Due(p) ==
  /\ On(p) /\ DueNow(page[p])
  /\ PageStep(p, OnDue(p, page[p]))

(* THE BACKSTOP, and a replaced socket: with no head read out, one goes. *)
Backstop(p) ==
  /\ On(p) /\ page[p].has /\ page[p].reads = {} /\ ~IsVerifying(page[p])
  /\ PageStep(p, Read(page[p], "Hint"))

Reconnected(p) ==
  /\ On(p) /\ page[p].has /\ page[p].reads = {}
  /\ PageStep(p, Read(page[p], "Hint"))

HeadHinted(p) ==
  /\ On(p) /\ p \in Subscribed /\ reg[NodeOf[p]] # NoHead
  /\ PageStep(p, OnHint(page[p]))

(* A register answer: read now, or taken earlier and arriving only now. *)
HearHead(p) ==
  /\ On(p) /\ page[p].reads # {}
  /\ PageStep(p, OnHead(p, page[p], reg[NodeOf[p]]))

HearLate(p) ==
  /\ On(p)
  /\ \E h \in late[p] :
       /\ Step(p, OnHead(p, page[p], h))
       /\ late' = [late EXCEPT ![p] = @ \ {h}]
  /\ UNCHANGED <<rec, reg, held, sigs>>

HeadPushed(p) ==
  /\ On(p) /\ p \in Subscribed /\ reg[NodeOf[p]] # NoHead
  /\ PageStep(p, OnPushed(p, page[p], reg[NodeOf[p]]))

----------------------------------------------------------------------------
(* The node.                                                               *)

(* The node answers a read of the Register; the answer is under way. *)
TakeRead(p) ==
  /\ On(p) /\ p \in Sleepy /\ page[p].reads # {} /\ Cardinality(late[p]) < MaxLate
  /\ late' = [late EXCEPT ![p] = @ \cup {reg[NodeOf[p]]}]
  /\ UNCHANGED <<page, rec, reg, asked, sent, held, sigs>>

(* The signer serves a request: with no key it refuses at once; the record *)
(* is saved before the answer leaves, and a record not saved is no         *)
(* signature.                                                              *)
Served(n, h, outcome) ==
  LET a == Decide(rec[n], reg[n], h)
  IN  IF outcome = "Final" THEN Refused("Final")
      ELSE IF a.kind = "Signed" /\ outcome # "Signed" THEN Refused(outcome)
      ELSE a

(* Mutant: the answer leaves, the record is not saved. *)
ServeUnsaved(n, a) ==
  /\ UNCHANGED rec
  /\ sigs' = [sigs EXCEPT ![n] = IF a.kind = "Signed" THEN @ \cup {a.head} ELSE @]

Serve(n, a) ==
  IF a.kind = "Signed"
    THEN rec' = [rec EXCEPT ![n] = a.head] /\ sigs' = [sigs EXCEPT ![n] = @ \cup {a.head}]
    ELSE UNCHANGED <<rec, sigs>>

(* The request of the Sign a page waits for: its answer is on its way. *)
SignerAnswers(p) ==
  /\ On(p) /\ page[p].sign # NoHead /\ page[p].ans = NoAnswer
  /\ \E outcome \in SignOutcomes :
       /\ outcome = "Final" => p \in Refusable
       /\ LET a == Served(NodeOf[p], page[p].sign, outcome)
          IN  Serve(NodeOf[p], a) /\ page' = [page EXCEPT ![p].ans = a]
  /\ UNCHANGED <<reg, asked, sent, late, held>>

(* A request under an id nobody waits for any more, or served twice: the   *)
(* signer serves it all the same, and the answer is for nobody.            *)
SignerServesStale(n) ==
  /\ \E h \in asked[n] :
       LET a == Served(n, h, "Signed")
       IN  a.kind = "Signed" /\ Serve(n, a)
  /\ UNCHANGED <<page, reg, asked, sent, late, held>>

(* An UPDATE, first sent or late, reaches the Register's merge. *)
Apply(n, h) ==
  /\ reg' = [reg EXCEPT ![n] = Merge(reg[n], h)]
  /\ held' = [held EXCEPT ![n] = @ \cup {Merge(reg[n], h)}]
  /\ UNCHANGED <<page, rec, asked, sent, late, sigs>>

UpdateApplies(n) == \E h \in sent[n] : Displaces(h, reg[n]) /\ Apply(n, h)

(* Two nodes' copies meet. *)
Sync(n, m) == n # m /\ Displaces(reg[m], reg[n]) /\ Apply(n, reg[m])

----------------------------------------------------------------------------
Next ==
  \/ \E p \in Pages :
       \/ Start(p) \/ Close(p) \/ Accept(p) \/ CutNow(p) \/ RaceReady(p)
       \/ BlockRejected(p) \/ AskHead(p) \/ HearSigner(p) \/ SignLost(p)
       \/ HearUpdated(p) \/ Due(p) \/ Backstop(p) \/ Reconnected(p)
       \/ HeadHinted(p) \/ HearHead(p) \/ HearLate(p) \/ HeadPushed(p)
       \/ TakeRead(p) \/ SignerAnswers(p)
  \/ \E n \in Nodes : SignerServesStale(n) \/ UpdateApplies(n)
  \/ \E n, m \in Nodes : Sync(n, m)

Spec == Init /\ [][Next]_vars

----------------------------------------------------------------------------
(* Fairness: the page's own steps are its clock's and its socket's; an op  *)
(* asked again and again is served once in a while, and the UPDATE a page  *)
(* waits on, sent again and again, reaches the Register.                   *)

UpdateArrives(p) ==
  /\ page[p].upd # NoHead /\ Displaces(page[p].upd, reg[NodeOf[p]])
  /\ Apply(NodeOf[p], page[p].upd)

SignerSigns(p) ==
  /\ SignerAnswers(p)
  /\ page'[p].ans.kind # "Retry"

(* WF_vars(HearHead(p)) and SF_vars(HearSigner(p)), with ENABLED written    *)
(* out: an answer always ends its wait, but one that only parks the        *)
(* engine's read again.                                                    *)
HeadWaits(p) ==
  /\ On(p) /\ page[p].reads # {}
  /\ page[p].reads # {"Recover"} \/ Winning(reg[NodeOf[p]], page[p].mine) = {}
AnswerWaits(p) == On(p) /\ page[p].ans # NoAnswer

PageFair(p) ==
  /\ WF_vars(Start(p)) /\ WF_vars(CutNow(p)) /\ WF_vars(RaceReady(p))
  /\ WF_vars(AskHead(p)) /\ WF_vars(Due(p))
  /\ WF_vars(HearUpdated(p)) /\ WF_vars(Backstop(p))
  /\ []<>~HeadWaits(p) \/ []<><<HearHead(p)>>_vars
  /\ <>[]~AnswerWaits(p) \/ []<><<HearSigner(p)>>_vars
  /\ SF_vars(SignerSigns(p)) /\ SF_vars(UpdateArrives(p))

FairSpec == Spec /\ \A p \in Pages : PageFair(p)

----------------------------------------------------------------------------
(* Properties.                                                             *)

(* Types.  A seq is a number, so a Sign never names a prev below zero and  *)
(* no life, commit or answer takes a form the code's enums do not have.    *)
TypeOK ==
  /\ page \in [Pages -> PageState]
  /\ rec \in [Nodes -> Head]
  /\ reg \in [Nodes -> Head]
  /\ asked \in [Nodes -> SUBSET Head]
  /\ sent \in [Nodes -> SUBSET Head]
  /\ late \in [Pages -> SUBSET Head]
  /\ held \in [Nodes -> SUBSET Head]
  /\ sigs \in [Nodes -> SUBSET Head]

(* One lane: whatever a page hears, its commit in flight is the successor  *)
(* of the head its engine publishes, and the head it owes is that commit's *)
(* (a dead commit's head never goes on being signed, E11).                 *)
LaneInv == \A p \in Pages : LaneOK(page[p])

(* The records the signer of n signed, and the empty record. *)
Trusted(n) == sigs[n] \cup {NoHead}

(* What pages and nodes know comes from somewhere: a page publishes a head *)
(* its Register held, asks from a seq its Register reached, and keeps and  *)
(* sends records its signer signed; a Register never goes down.            *)
GroundInv ==
  /\ \A p \in Pages : /\ Grounded(page[p], held[NodeOf[p]], Trusted(NodeOf[p]))
                      /\ late[p] \subseteq held[NodeOf[p]]
  /\ \A n \in Nodes :
       /\ NoHead \in held[n] /\ reg[n] \in held[n]
       /\ \A h \in held[n] : h.seq <= reg[n].seq
       /\ \A h \in asked[n] : Reached(h.prev, held[n])
       /\ sent[n] \subseteq sigs[n] /\ rec[n] \in Trusted(n)

(* 1b: a page publishes only a head that was in the Register; one the      *)
(* signer merely named is landed and read back first.                      *)
AdoptedWasHeld ==
  \A p \in Pages : \E h \in held[NodeOf[p]] : page[p].pub = PairOf(h)

(* The one judgement: a page never stands on a head that a record it holds *)
(* itself beats at that seq, on whichever path it read it.                 *)
AdoptedNotBeaten ==
  \A p \in Pages : \E h \in held[NodeOf[p]] :
    page[p].pub = PairOf(h) /\ Winning(h, page[p].mine) = {}

(* A signer's one record is at most one past its Register, so the head     *)
(* that would be lost with it (2+ behind: "unrecoverable") is unreachable. *)
RegisterNeverTwoBehind == \A n \in Nodes : rec[n].seq <= reg[n].seq + 1

(* Only the signer's own bytes are ever sent to the Register. *)
UpdatesAreSigned == \A n \in Nodes : sent[n] \subseteq sigs[n]

(* A signer never signs two heads on one prev, whoever asks and however    *)
(* often a request is repeated: the tree does not fork.                    *)
OneSignaturePerPrev ==
  \A n \in Nodes : \A a, b \in sigs[n] : a.prev = b.prev => a = b

(* A write told Published is in the Register, and stays there. *)
PublishedIsDurable ==
  \A p \in Pages, i \in Arrivals :
    page[p].told[i] = "Published" => <<p, i>> \in reg[NodeOf[p]].root

(* A write told Lost, Failed or Conflict is not in the tree and never will *)
(* be: the application takes the edit back.                                *)
RefusedNotInTree ==
  \A p \in Pages, i \in Arrivals :
    page[p].told[i] \in {"Lost", "Failed", "Conflict"} => <<p, i>> \notin reg[NodeOf[p]].root

(* Between two nodes the same holds but for one way back: a refused write  *)
(* that is in the tree came there in a head its own signer signed on one   *)
(* that another node's head had displaced (the late UPDATE of a commit     *)
(* that lost its ground).                                                  *)
DisplacedAt(n, pair) ==
  \E g, d \in held[n] : PairOf(d) = pair /\ g.seq = d.seq /\ Displaces(g, d)

RefusedUnlessDisplaced ==
  \A p \in Pages, i \in Arrivals :
    LET n == NodeOf[p] IN
    page[p].told[i] \in {"Lost", "Failed", "Conflict"} /\ <<p, i>> \in reg[n].root =>
      \E h \in held[n] \cap sigs[n] : <<p, i>> \in h.root /\ DisplacedAt(n, h.prev)

(* The head of the Register tells a page the truth of the commit it waits  *)
(* on: whether it landed, or that this cannot be known.  Entries are       *)
(* copied from head to head, and the list is full and evicts.              *)
WitnessIsTrue ==
  \A p \in Pages :
    LET c == page[p].commit
        h == reg[NodeOf[p]]
        w == WitnessOf(p, h, c.seq)
    IN  c.stage = "Heading" /\ w.kind # "Unknown" =>
          ({p} \X c.cut \subseteq h.root <=> w.kind = "Through" /\ w.seq >= c.through)

(* A landing asks the signer for a record it has; it never makes the       *)
(* signer sign a head nobody committed.                                    *)
LandingNeverMints ==
  \A p \in Pages : LET s == page[p] IN
    s.life.st = "Landing" /\ s.sign # NoHead =>
      Decide(rec[NodeOf[p]], reg[NodeOf[p]], s.sign).kind # "Signed"

(* The writes of a page land in the order it took them: re-applied after a *)
(* foreign head, retried or grouped, none is overtaken by a later one.     *)
InOrder ==
  \A p \in Pages, i, k \in Arrivals :
    LET root == reg[NodeOf[p]].root IN
    i < k /\ <<p, k>> \in root /\ page[p].told[i] = "Queued" => <<p, i>> \in root

(* Every write a live page took is answered in the end: invariant 4 of     *)
(* page/src/lib.rs, with other pages publishing and closing.               *)
WritesEnd == []<>(\A p \in Pages : On(p) => Queue(page[p]) = {})

(* On one node, the pages implement the log: the head only grows by whole  *)
(* writes, each once, and every answer is true of it for good.             *)
TheReg == reg[CHOOSE n \in Nodes : TRUE]

Log == INSTANCE HeadLog WITH
  head <- PairOf(TheReg),
  fate <- [w \in Writes |-> page[w[1]].told[w[2]]]

ImplementsLog == Log!LogSpec

============================================================================
