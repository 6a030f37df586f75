------------------------ MODULE HeadPublish_proofs ------------------------
(***************************************************************************)
(* Theorems of HeadPublish, for any pages, nodes, writes and bounds.       *)
(***************************************************************************)
EXTENDS HeadPublish, PageHead_proofs

(* The inductive invariant of TypeCorrect and LaneCorrect: a head owed and *)
(* a commit in flight are numbers above zero only because of LaneInv, so   *)
(* neither part is inductive without the other.                            *)
TypeInv == TypeOK /\ LaneInv

LEMMA TypeInvPages ==
  TypeInv <=> /\ page \in [Pages -> PageState]
              /\ \A p \in Pages : OK(page[p])
              /\ rec \in [Nodes -> Head] /\ reg \in [Nodes -> Head]
              /\ asked \in [Nodes -> SUBSET Head] /\ sent \in [Nodes -> SUBSET Head]
              /\ late \in [Pages -> SUBSET Head]
              /\ held \in [Nodes -> SUBSET Head] /\ sigs \in [Nodes -> SUBSET Head]
BY DEF TypeInv, TypeOK, LaneInv, OK

(* One page moves to an OK state; the wire is the page's own ops. *)
LEMMA StepInv ==
  ASSUME TypeInv, NEW p \in Pages, NEW s, OK(s), Step(p, s),
         UNCHANGED <<rec, reg, held, sigs>>, late' \in [Pages -> SUBSET Head]
  PROVE  TypeInv'
<1>1. s \in PageState /\ s.sign \in Head /\ s.upd \in Head
  BY DEF OK, PageState
<1>2. NodeOf[p] \in Nodes
  BY NodesAssumption
<1>3. page' \in [Pages -> PageState] /\ \A q \in Pages : OK(page'[q])
  BY <1>1, TypeInvPages DEF Step
<1>4. asked' \in [Nodes -> SUBSET Head] /\ sent' \in [Nodes -> SUBSET Head]
  BY <1>1, <1>2, TypeInvPages DEF Step
<1>5. QED
  BY <1>3, <1>4, TypeInvPages DEF TypeInv, TypeOK, LaneInv, OK

LEMMA PageStepInv ==
  ASSUME TypeInv, NEW p \in Pages, NEW s, OK(s), PageStep(p, s)
  PROVE  TypeInv'
<1>1. Step(p, s) /\ UNCHANGED <<rec, reg, held, sigs>> /\ late' \in [Pages -> SUBSET Head]
  BY TypeInvPages DEF PageStep
<1>2. QED
  BY <1>1, StepInv

LEMMA DecideType ==
  ASSUME NEW record \in Head, NEW read \in Head, NEW h \in Head
  PROVE  Decide(record, read, h) \in Answer
<1>1. \A t \in Pair : NotNext(t) \in Answer
  BY Constants DEF NotNext, NoAnswer, Answer, AnswerKinds
<1>2. Signed(h) \in Answer /\ AlreadySigned(record) \in Answer
  BY Constants DEF Signed, AlreadySigned, NoAnswer, Answer, AnswerKinds
<1>3. Refused("Final") \in Answer /\ Refused("HeadUnknown") \in Answer
  BY Constants DEF Refused, NoAnswer, Answer, AnswerKinds
<1>4. Truth(record, read) \in Pair
  BY PairOfType DEF Truth
<1>5. QED
  BY <1>1, <1>2, <1>3, <1>4 DEF Decide

LEMMA ServedType ==
  ASSUME TypeInv, NEW n \in Nodes, NEW h \in Head, NEW outcome \in {"Signed", "Retry", "Final"}
  PROVE  Served(n, h, outcome) \in Answer
<1>1. Decide(rec[n], reg[n], h) \in Answer
  BY DecideType, TypeInvPages
<1>2. Refused("Final") \in Answer /\ Refused("Retry") \in Answer
  BY Constants DEF Refused, NoAnswer, Answer, AnswerKinds
<1>3. QED
  BY <1>1, <1>2 DEF Served

LEMMA ServeType ==
  ASSUME TypeInv, NEW n \in Nodes, NEW a \in Answer, Serve(n, a)
  PROVE  rec' \in [Nodes -> Head] /\ sigs' \in [Nodes -> SUBSET Head]
<1>1. a.head \in Head
  BY DEF Answer
<1>2. QED
  BY <1>1, TypeInvPages DEF Serve

LEMMA ApplyInv ==
  ASSUME TypeInv, NEW n \in Nodes, NEW h \in Head, Apply(n, h)
  PROVE  TypeInv'
<1>1. Merge(reg[n], h) \in Head
  BY TypeInvPages DEF Merge
<1>2. reg' \in [Nodes -> Head] /\ held' \in [Nodes -> SUBSET Head]
  BY <1>1, TypeInvPages DEF Apply
<1>3. QED
  BY <1>2, TypeInvPages DEF Apply, TypeInv, TypeOK, LaneInv, OK

(* Every step of a page is one of PageHead's transitions from an OK state. *)
LEMMA PageActionInv ==
  ASSUME TypeInv, NEW p \in Pages,
         \/ Start(p) \/ Accept(p) \/ CutNow(p) \/ RaceReady(p) \/ BlockRejected(p)
         \/ AskHead(p) \/ HearSigner(p) \/ SignLost(p) \/ HearUpdated(p) \/ Due(p)
         \/ Backstop(p) \/ Reconnected(p) \/ HeadHinted(p) \/ HearHead(p) \/ HeadPushed(p)
  PROVE  TypeInv'
<1> DEFINE s == page[p]
<1>1. OK(s) /\ s \in PageState /\ reg[NodeOf[p]] \in Head
  BY TypeInvPages, NodesAssumption DEF OK
<1>2. CASE Start(p)
  <2> DEFINE t == [s EXCEPT !.up = "On"]
  <2>1. t \in PageState /\ t.commit = s.commit /\ t.pub = s.pub /\ t.life = s.life
    BY <1>1 DEF PageState
  <2>2. OK(t)
    BY <1>1, <2>1, SameLane
  <2> HIDE DEF t
  <2>3. OK(Read(t, "Recover"))
    BY <2>2, ReadOK DEF Waits
  <2>4. QED
    BY <1>2, <2>3, PageStepInv DEF Start, t
<1>3. CASE Accept(p)
  <2>1. PICK i \in 1 .. Accepts[p] : PageStep(p, Tell(s, {i}, "Queued"))
    BY <1>3 DEF Accept
  <2> DEFINE t == Tell(s, {i}, "Queued")
  <2>2. t \in PageState /\ t.commit = s.commit /\ t.pub = s.pub /\ t.life = s.life
    BY <1>1, TellType DEF Fates, Tell, PageState
  <2>3. OK(t)
    BY <1>1, <2>2, SameLane
  <2>4. QED
    BY <2>1, <2>3, PageStepInv
<1>4. CASE CutNow(p)
  <2>1. PICK last \in Cuttable(s), t \in Cuttable(s), failed \in SUBSET Cuttable(s) :
          /\ failed \subseteq {i \in Cuttable(s) : i <= t}
          /\ PageStep(p, Cut(p, s, {i \in Cuttable(s) : i <= t},
                             IF CutOpen(s) THEN s.until ELSE last, failed))
    BY <1>4 DEF CutNow, MayConflict
  <2>2. Cuttable(s) \subseteq Arrivals /\ ~Committing(s)
    BY <1>4 DEF Cuttable, Queue, CutNow
  <2>3. last \in Nat /\ s.until \in Nat
    BY <1>1, <2>2 DEF Arrivals, PageState
  <2>4. OK(Cut(p, s, {i \in Cuttable(s) : i <= t}, IF CutOpen(s) THEN s.until ELSE last, failed))
    <3>1. failed \in SUBSET {i \in Cuttable(s) : i <= t}
      BY <2>1
    <3>2. QED
      BY <1>1, <2>2, <2>3, <3>1, CutOK
  <2>5. QED
    BY <2>1, <2>4, PageStepInv
<1>5. CASE RaceReady(p)
  BY <1>1, <1>5, SendHeadOK, PageStepInv DEF RaceReady
<1>6. CASE BlockRejected(p)
  BY <1>1, <1>6, RejectedOK, PageStepInv DEF BlockRejected
<1>7. CASE AskHead(p)
  BY <1>1, <1>7, ReadOK, PageStepInv DEF AskHead, Waits
<1>8. CASE HearSigner(p)
  BY <1>1, <1>8, OnSignerOK, PageStepInv DEF HearSigner
<1>9. CASE SignLost(p)
  BY <1>1, <1>9, OnSignLostOK, PageStepInv DEF SignLost
<1>10. CASE HearUpdated(p)
  BY <1>1, <1>10, OnUpdatedOK, PageStepInv DEF HearUpdated
<1>11. CASE Due(p)
  BY <1>1, <1>11, OnDueOK, PageStepInv DEF Due
<1>12. CASE Backstop(p) \/ Reconnected(p)
  BY <1>1, <1>12, ReadOK, PageStepInv DEF Backstop, Reconnected, Waits
<1>13. CASE HeadHinted(p)
  BY <1>1, <1>13, OnHintOK, PageStepInv DEF HeadHinted
<1>14. CASE HearHead(p)
  BY <1>1, <1>14, OnHeadOK, PageStepInv DEF HearHead
<1>15. CASE HeadPushed(p)
  BY <1>1, <1>15, OnPushedOK, PageStepInv DEF HeadPushed
<1>16. QED
  BY <1>2, <1>3, <1>4, <1>5, <1>6, <1>7, <1>8, <1>9, <1>10, <1>11, <1>12, <1>13,
     <1>14, <1>15

LEMMA TypeInvStep == TypeInv /\ [Next]_vars => TypeInv'
<1> SUFFICES ASSUME TypeInv, [Next]_vars
             PROVE  TypeInv'
  OBVIOUS
<1>1. ASSUME NEW p \in Pages, Close(p)
      PROVE  TypeInv'
  <2> DEFINE t == [InitPage EXCEPT !.up = "Gone", !.told = page[p].told]
  <2>1. /\ t \in PageState /\ t.commit = InitPage.commit /\ t.pub = InitPage.pub
        /\ t.life = InitPage.life
    BY TypeInvPages, InitPageOK DEF PageState, OK
  <2>2. OK(t)
    BY <2>1, InitPageOK, SameLane DEF InitPage, IdleLife
  <2> HIDE DEF t
  <2>3. /\ page' \in [Pages -> PageState] /\ \A q \in Pages : OK(page'[q])
        /\ late' \in [Pages -> SUBSET Head]
    BY <1>1, <2>2, TypeInvPages DEF Close, t, OK
  <2>4. QED
    BY <1>1, <2>3, TypeInvPages DEF Close, TypeInv, TypeOK, LaneInv, OK
<1>2. ASSUME NEW p \in Pages, HearLate(p)
      PROVE  TypeInv'
  <2>1. PICK h \in late[p] : /\ Step(p, OnHead(p, page[p], h))
                             /\ late' = [late EXCEPT ![p] = @ \ {h}]
    BY <1>2 DEF HearLate
  <2>2. h \in Head /\ OK(page[p]) /\ late' \in [Pages -> SUBSET Head]
    BY <2>1, TypeInvPages
  <2>3. OK(OnHead(p, page[p], h))
    BY <2>2, OnHeadOK
  <2>4. QED
    BY <1>2, <2>1, <2>2, <2>3, StepInv DEF HearLate
<1>3. ASSUME NEW p \in Pages, TakeRead(p)
      PROVE  TypeInv'
  <2>1. late' \in [Pages -> SUBSET Head]
    BY <1>3, TypeInvPages, NodesAssumption DEF TakeRead
  <2>2. QED
    BY <1>3, <2>1, TypeInvPages DEF TakeRead, TypeInv, TypeOK, LaneInv, OK
<1>4. ASSUME NEW p \in Pages, SignerAnswers(p)
      PROVE  TypeInv'
  <2>1. PICK outcome \in SignOutcomes :
          /\ Serve(NodeOf[p], Served(NodeOf[p], page[p].sign, outcome))
          /\ page' = [page EXCEPT ![p].ans = Served(NodeOf[p], page[p].sign, outcome)]
    BY <1>4 DEF SignerAnswers
  <2> DEFINE a == Served(NodeOf[p], page[p].sign, outcome)
             t == [page[p] EXCEPT !.ans = a]
  <2>2. OK(page[p]) /\ page[p] \in PageState /\ page[p].sign \in Head /\ NodeOf[p] \in Nodes
    BY TypeInvPages, NodesAssumption DEF PageState
  <2>3. a \in Answer
    BY <2>2, ServedType, NodesAssumption
  <2> HIDE DEF a
  <2>4. t \in PageState /\ t.commit = page[p].commit /\ t.pub = page[p].pub
        /\ t.life = page[p].life
    BY <2>2, <2>3 DEF PageState
  <2>5. OK(t)
    BY <2>2, <2>4, SameLane
  <2>6. page' = [page EXCEPT ![p] = t]
    BY <2>1, TypeInvPages DEF a
  <2> HIDE DEF t
  <2>7. page' \in [Pages -> PageState] /\ \A q \in Pages : OK(page'[q])
    BY <2>5, <2>6, TypeInvPages DEF OK
  <2>8. rec' \in [Nodes -> Head] /\ sigs' \in [Nodes -> SUBSET Head]
    BY <2>1, <2>2, <2>3, ServeType DEF a
  <2>9. QED
    BY <1>4, <2>7, <2>8, TypeInvPages DEF SignerAnswers, TypeInv, TypeOK, LaneInv, OK
<1>5. ASSUME NEW n \in Nodes, SignerServesStale(n)
      PROVE  TypeInv'
  <2>1. PICK h \in asked[n] : Serve(n, Served(n, h, "Signed"))
    BY <1>5 DEF SignerServesStale
  <2>2. h \in Head
    BY TypeInvPages
  <2>3. Served(n, h, "Signed") \in Answer
    BY <2>2, ServedType
  <2>4. rec' \in [Nodes -> Head] /\ sigs' \in [Nodes -> SUBSET Head]
    BY <2>1, <2>3, ServeType
  <2>5. QED
    BY <1>5, <2>4, TypeInvPages DEF SignerServesStale, TypeInv, TypeOK, LaneInv, OK
<1>6. ASSUME NEW n \in Nodes, UpdateApplies(n)
      PROVE  TypeInv'
  BY <1>6, ApplyInv, TypeInvPages DEF UpdateApplies
<1>7. ASSUME NEW n \in Nodes, NEW m \in Nodes, Sync(n, m)
      PROVE  TypeInv'
  BY <1>7, ApplyInv, TypeInvPages DEF Sync
<1>8. CASE UNCHANGED vars
  BY <1>8 DEF vars, TypeInv, TypeOK, LaneInv
<1>9. QED
  BY <1>1, <1>2, <1>3, <1>4, <1>5, <1>6, <1>7, <1>8, PageActionInv DEF Next

LEMMA TypeInvInit == Init => TypeInv
<1> SUFFICES ASSUME Init PROVE TypeInv
  OBVIOUS
<1>1. OK(InitPage) /\ InitPage \in PageState
  BY InitPageOK DEF OK
<1>2. QED
  BY <1>1, Constants DEF Init, TypeInv, TypeOK, LaneInv, OK

(* Every variable keeps its type: the transitions of PageHead never leave  *)
(* the page states the code has (page/src/lib.rs, publication.rs).         *)
THEOREM TypeCorrect == Spec => []TypeOK
<1>1. TypeInv => TypeOK
  BY DEF TypeInv
<1>2. QED
  BY <1>1, TypeInvInit, TypeInvStep, PTL DEF Spec

(* The commit in flight is the successor of the head the engine publishes, *)
(* and the head a page owes is that commit's, whatever answers arrive and  *)
(* in whatever order.                                                      *)
THEOREM LaneCorrect == Spec => []LaneInv
<1>1. TypeInv => LaneInv
  BY DEF TypeInv
<1>2. QED
  BY <1>1, TypeInvInit, TypeInvStep, PTL DEF Spec


----------------------------------------------------------------------------
(* What is published, kept and signed, with answers of any age.            *)

USE DEF Pair, Roots

LEMMA WorldOf ==
  ASSUME TypeInv, GroundInv, NEW n \in Nodes
  PROVE  World(held[n], Trusted(n))
BY TypeInvPages, Constants DEF GroundInv, World, Trusted

LEMMA GoodPage ==
  ASSUME TypeInv, GroundInv, NEW p \in Pages
  PROVE  /\ Good(page[p], held[NodeOf[p]], Trusted(NodeOf[p]))
         /\ World(held[NodeOf[p]], Trusted(NodeOf[p]))
         /\ NodeOf[p] \in Nodes /\ page[p] \in PageState
         /\ reg[NodeOf[p]] \in held[NodeOf[p]]
<1>1. NodeOf[p] \in Nodes
  BY NodesAssumption
<1>2. QED
  BY <1>1, WorldOf, TypeInvPages DEF GroundInv, Good

(* One page moves to a grounded state. *)
LEMMA StepGround ==
  ASSUME TypeInv, GroundInv, NEW p \in Pages, NEW s,
         Good(s, held[NodeOf[p]], Trusted(NodeOf[p])),
         Step(p, s), UNCHANGED <<rec, reg, held, sigs>>,
         \A q \in Pages : late'[q] \subseteq held[NodeOf[q]]
  PROVE  GroundInv'
<1> DEFINE n == NodeOf[p]
<1>1. n \in Nodes
  BY NodesAssumption
<1>2. Reached(s.sign.prev, held[n]) /\ s.upd \in Trusted(n)
  BY DEF Good, Grounded
<1>3. \A q \in Pages : page'[q] = IF q = p THEN s ELSE page[q]
  BY TypeInvPages DEF Step
<1>4. \A m \in Nodes :
        /\ asked'[m] \subseteq asked[m] \cup (IF m = n THEN {s.sign} ELSE {})
        /\ sent'[m] \subseteq sent[m] \cup (IF m = n THEN {s.upd} \ {NoHead} ELSE {})
  BY TypeInvPages DEF Step
<1>5. \A q \in Pages : Grounded(page'[q], held[NodeOf[q]], Trusted(NodeOf[q]))
  BY <1>3 DEF Good, GroundInv
<1>6. \A m \in Nodes : /\ \A h \in asked'[m] : Reached(h.prev, held[m])
                       /\ sent'[m] \subseteq sigs[m]
  BY <1>1, <1>2, <1>4 DEF GroundInv, Trusted
<1>7. QED
  BY <1>5, <1>6 DEF GroundInv, Trusted

LEMMA PageStepGround ==
  ASSUME TypeInv, GroundInv, NEW p \in Pages, NEW s,
         Good(s, held[NodeOf[p]], Trusted(NodeOf[p])), PageStep(p, s)
  PROVE  GroundInv'
<1>1. Step(p, s) /\ UNCHANGED <<rec, reg, held, sigs>>
  BY DEF PageStep
<1>2. \A q \in Pages : late'[q] \subseteq held[NodeOf[q]]
  BY DEF PageStep, GroundInv
<1>3. QED
  BY <1>1, <1>2, StepGround

(* A page state that differs only in fields Good ignores. *)
LEMMA SameGood ==
  ASSUME NEW H, NEW S, World(H, S), NEW s, Good(s, H, S), NEW t \in PageState,
         t.commit = s.commit, t.pub = s.pub, t.life = s.life, t.sign = s.sign,
         t.upd = s.upd, t.ans = s.ans, t.mine = s.mine
  PROVE  Good(t, H, S)
<1>1. OK(t)
  BY SameLane DEF Good, OK, LaneOK
<1>2. QED
  BY <1>1, SameGround DEF Good

LEMMA PageActionGround ==
  ASSUME TypeInv, GroundInv, NEW p \in Pages,
         \/ Start(p) \/ Accept(p) \/ CutNow(p) \/ RaceReady(p) \/ BlockRejected(p)
         \/ AskHead(p) \/ HearSigner(p) \/ SignLost(p) \/ HearUpdated(p) \/ Due(p)
         \/ Backstop(p) \/ Reconnected(p) \/ HeadHinted(p) \/ HearHead(p) \/ HeadPushed(p)
  PROVE  GroundInv'
<1> DEFINE s == page[p]
           H == held[NodeOf[p]]
           S == Trusted(NodeOf[p])
<1>1. Good(s, H, S) /\ World(H, S) /\ s \in PageState /\ reg[NodeOf[p]] \in H
  BY GoodPage
<1> HIDE DEF H, S
<1>2. CASE Start(p)
  <2> DEFINE t == [s EXCEPT !.up = "On"]
  <2>1. /\ t \in PageState /\ t.commit = s.commit /\ t.pub = s.pub /\ t.life = s.life
        /\ t.sign = s.sign /\ t.upd = s.upd /\ t.ans = s.ans /\ t.mine = s.mine
    BY <1>1 DEF PageState
  <2> HIDE DEF t
  <2>2. Good(t, H, S)
    BY <1>1, <2>1, SameGood
  <2>3. Good(Read(t, "Recover"), H, S)
    BY <1>1, <2>2, ReadGood DEF Waits
  <2>4. QED
    BY <1>2, <2>3, PageStepGround DEF Start, t, H, S
<1>3. CASE Accept(p)
  <2>1. PICK i \in 1 .. Accepts[p] : PageStep(p, Tell(s, {i}, "Queued"))
    BY <1>3 DEF Accept
  <2> DEFINE t == Tell(s, {i}, "Queued")
  <2>2. /\ t \in PageState /\ t.commit = s.commit /\ t.pub = s.pub /\ t.life = s.life
        /\ t.sign = s.sign /\ t.upd = s.upd /\ t.ans = s.ans /\ t.mine = s.mine
    BY <1>1, TellType DEF Fates, Tell, PageState
  <2> HIDE DEF t
  <2>3. Good(t, H, S)
    BY <1>1, <2>2, SameGood
  <2>4. QED
    BY <2>1, <2>3, PageStepGround DEF t, H, S
<1>4. CASE CutNow(p)
  <2>1. PICK last \in Cuttable(s), t \in Cuttable(s), failed \in SUBSET Cuttable(s) :
          /\ failed \subseteq {i \in Cuttable(s) : i <= t}
          /\ PageStep(p, Cut(p, s, {i \in Cuttable(s) : i <= t},
                             IF CutOpen(s) THEN s.until ELSE last, failed))
    BY <1>4 DEF CutNow, MayConflict
  <2>2. Cuttable(s) \subseteq Arrivals /\ ~Committing(s)
    BY <1>4 DEF Cuttable, Queue, CutNow
  <2>3. last \in Nat /\ s.until \in Nat
    BY <1>1, <2>2 DEF Arrivals, PageState
  <2>4. Good(Cut(p, s, {i \in Cuttable(s) : i <= t}, IF CutOpen(s) THEN s.until ELSE last, failed), H, S)
    <3>1. failed \in SUBSET {i \in Cuttable(s) : i <= t}
      BY <2>1
    <3>2. QED
      BY <1>1, <2>2, <2>3, <3>1, CutGood
  <2>5. QED
    BY <2>1, <2>4, PageStepGround DEF H, S
<1>5. CASE RaceReady(p)
  BY <1>1, <1>5, SendHeadGood, PageStepGround DEF RaceReady, H, S
<1>6. CASE BlockRejected(p)
  BY <1>1, <1>6, RejectedGood, PageStepGround DEF BlockRejected, H, S
<1>7. CASE AskHead(p)
  BY <1>1, <1>7, ReadGood, PageStepGround DEF AskHead, Waits, H, S
<1>8. CASE HearSigner(p)
  BY <1>1, <1>8, OnSignerGood, PageStepGround DEF HearSigner, H, S
<1>9. CASE SignLost(p)
  BY <1>1, <1>9, OnSignLostGood, PageStepGround DEF SignLost, H, S
<1>10. CASE HearUpdated(p)
  BY <1>1, <1>10, OnUpdatedGood, PageStepGround DEF HearUpdated, H, S
<1>11. CASE Due(p)
  BY <1>1, <1>11, OnDueGood, PageStepGround DEF Due, H, S
<1>12. CASE Backstop(p) \/ Reconnected(p)
  BY <1>1, <1>12, ReadGood, PageStepGround DEF Backstop, Reconnected, Waits, H, S
<1>13. CASE HeadHinted(p)
  BY <1>1, <1>13, OnHintGood, PageStepGround DEF HeadHinted, H, S
<1>14. CASE HearHead(p)
  BY <1>1, <1>14, OnHeadGood, PageStepGround DEF HearHead, H, S
<1>15. CASE HeadPushed(p)
  BY <1>1, <1>15, OnPushedGood, PageStepGround DEF HeadPushed, H, S
<1>16. QED
  BY <1>2, <1>3, <1>4, <1>5, <1>6, <1>7, <1>8, <1>9, <1>10, <1>11, <1>12, <1>13,
     <1>14, <1>15

(* What the signer's answer is made of: a head it has signed, now or       *)
(* before.                                                                 *)
LEMMA ServeGround ==
  ASSUME TypeInv, GroundInv, NEW n \in Nodes, NEW h \in Head, NEW outcome \in {"Signed", "Retry", "Final"},
         Serve(n, Served(n, h, outcome))
  PROVE  /\ Served(n, h, outcome).head \in Trusted(n)'
         /\ rec'[n] \in Trusted(n)'
         /\ \A m \in Nodes : sigs[m] \subseteq sigs'[m] /\ (m # n => rec'[m] = rec[m])
<1> DEFINE a == Served(n, h, outcome)
<1>1. \/ a.kind = "Signed" /\ a.head = h
      \/ a.kind # "Signed" /\ a.head = rec[n]
      \/ a.kind # "Signed" /\ a.head = NoHead
  <2>1. \A t : NotNext(t).kind = "NotNext" /\ NotNext(t).head = NoHead
    BY DEF NotNext, NoAnswer
  <2>2. /\ Signed(h).kind = "Signed" /\ Signed(h).head = h
        /\ AlreadySigned(rec[n]).kind = "AlreadySigned" /\ AlreadySigned(rec[n]).head = rec[n]
    BY DEF Signed, AlreadySigned, NoAnswer
  <2>3. \A why \in {"Final", "Retry", "HeadUnknown"} :
          Refused(why).kind = why /\ Refused(why).head = NoHead
    BY DEF Refused, NoAnswer
  <2>4. CASE a \in {Refused("Final"), Refused("Retry")}
    BY <2>3, <2>4
  <2>5. CASE a = Decide(rec[n], reg[n], h)
    <3>1. \/ a = Refused("Final") \/ a = Refused("HeadUnknown") \/ a = AlreadySigned(rec[n])
          \/ a = NotNext(Truth(rec[n], reg[n])) \/ a = Signed(h)
      BY <2>5 DEF Decide
    <3> HIDE DEF a
    <3>2. QED
      BY <2>1, <2>2, <2>3, <3>1
  <2>6. a \in {Refused("Final"), Refused("Retry"), Decide(rec[n], reg[n], h)}
    BY DEF Served
  <2>7. QED
    BY <2>4, <2>5, <2>6
<1> HIDE DEF a
<1>2. CASE a.kind = "Signed"
  BY <1>1, <1>2, TypeInvPages DEF Serve, Trusted, a
<1>3. CASE a.kind # "Signed"
  BY <1>1, <1>3 DEF Serve, Trusted, GroundInv, a
<1>4. QED
  BY <1>2, <1>3 DEF a

(* The signer answers: nothing a page holds is ungrounded by it. *)
LEMMA SignsGround ==
  ASSUME TypeInv, GroundInv, NEW n \in Nodes,
         \A m \in Nodes : sigs[m] \subseteq sigs'[m] /\ (m # n => rec'[m] = rec[m]),
         rec'[n] \in Trusted(n)', UNCHANGED <<reg, asked, sent, late, held>>,
         \A p \in Pages : Grounded(page'[p], held[NodeOf[p]], Trusted(NodeOf[p])')
  PROVE  GroundInv'
<1>1. \A m \in Nodes : rec'[m] \in Trusted(m)'
  BY DEF GroundInv, Trusted
<1>2. QED
  BY <1>1 DEF GroundInv, Trusted

LEMMA ApplyGround ==
  ASSUME TypeInv, GroundInv, NEW n \in Nodes, NEW h \in Head, Displaces(h, reg[n]), Apply(n, h)
  PROVE  GroundInv'
<1>1. Merge(reg[n], h) = h /\ reg[n] \in Head
  BY TypeInvPages DEF Merge
<1>2. /\ reg' = [reg EXCEPT ![n] = h]
      /\ held' = [held EXCEPT ![n] = @ \cup {h}]
      /\ UNCHANGED <<page, rec, asked, sent, late, sigs>>
  BY <1>1 DEF Apply
<1>3. reg[n].seq <= h.seq
  BY <1>1 DEF Displaces, Head
<1>4. \A m \in Nodes : /\ held[m] \subseteq held'[m] /\ reg'[m] \in held'[m]
                       /\ \A x \in held'[m] : x.seq <= reg'[m].seq
  <2>1. ASSUME NEW m \in Nodes
        PROVE  /\ held[m] \subseteq held'[m] /\ reg'[m] \in held'[m]
               /\ \A x \in held'[m] : x.seq <= reg'[m].seq
    <3>1. CASE m = n
      <4>1. held'[m] = held[n] \cup {h} /\ reg'[m] = h
        BY <1>2, <3>1, TypeInvPages
      <4>2. \A x \in held[n] : x \in Head /\ x.seq <= reg[n].seq
        BY TypeInvPages DEF GroundInv
      <4>3. QED
        BY <1>1, <1>3, <3>1, <4>1, <4>2 DEF Head
    <3>2. CASE m # n
      BY <1>2, <3>2, TypeInvPages DEF GroundInv
    <3>3. QED
      BY <3>1, <3>2
  <2>2. QED
    BY <2>1
<1>5. \A p \in Pages : Grounded(page'[p], held'[NodeOf[p]], Trusted(NodeOf[p])')
  <2>1. ASSUME NEW p \in Pages
        PROVE  Grounded(page[p], held'[NodeOf[p]], Trusted(NodeOf[p]))
    <3>1. held[NodeOf[p]] \subseteq held'[NodeOf[p]]
      BY <1>4, NodesAssumption
    <3>2. Grounded(page[p], held[NodeOf[p]], Trusted(NodeOf[p]))
      BY DEF GroundInv
    <3>3. QED
      BY <3>1, <3>2, GroundGrows
  <2>2. QED
    BY <1>2, <2>1 DEF Trusted
<1>6. \A p \in Pages : late'[p] \subseteq held'[NodeOf[p]]
  BY <1>2, <1>4, NodesAssumption DEF GroundInv
<1>7. \A m \in Nodes : \A x \in asked'[m] : Reached(x.prev, held'[m])
  BY <1>2, <1>4 DEF GroundInv, Reached
<1>8. \A m \in Nodes : NoHead \in held'[m] /\ sent'[m] \subseteq sigs'[m] /\ rec'[m] \in Trusted(m)'
  BY <1>2, <1>4 DEF GroundInv, Trusted
<1>9. QED
  BY <1>4, <1>5, <1>6, <1>7, <1>8 DEF GroundInv

LEMMA GroundInvStep == TypeInv /\ GroundInv /\ [Next]_vars => GroundInv'
<1> SUFFICES ASSUME TypeInv, GroundInv, [Next]_vars
             PROVE  GroundInv'
  OBVIOUS
<1>1. ASSUME NEW p \in Pages, Close(p)
      PROVE  GroundInv'
  <2> DEFINE t == [InitPage EXCEPT !.up = "Gone", !.told = page[p].told]
             H == held[NodeOf[p]]
             S == Trusted(NodeOf[p])
  <2>1. World(H, S)
    BY GoodPage
  <2>2. Good(InitPage, H, S)
    BY <2>1, ConstantsGround
  <2>3. /\ t.pub = InitPage.pub /\ t.life = InitPage.life /\ t.sign = InitPage.sign
        /\ t.upd = InitPage.upd /\ t.ans = InitPage.ans /\ t.mine = InitPage.mine
    BY DEF InitPage
  <2> HIDE DEF t, H, S
  <2>4. Grounded(t, H, S)
    BY <2>1, <2>2, <2>3, SameGround DEF Good
  <2>5. \A q \in Pages : page'[q] = IF q = p THEN t ELSE page[q]
    BY <1>1, TypeInvPages DEF Close, t
  <2>6. \A q \in Pages : late'[q] \subseteq late[q]
    BY <1>1, TypeInvPages DEF Close
  <2>7. UNCHANGED <<rec, reg, asked, sent, held, sigs>>
    BY <1>1 DEF Close
  <2>8. \A q \in Pages : Grounded(page'[q], held[NodeOf[q]], Trusted(NodeOf[q]))
    BY <2>4, <2>5 DEF GroundInv, H, S
  <2>9. \A q \in Pages : late'[q] \subseteq held[NodeOf[q]]
    BY <2>6 DEF GroundInv
  <2>10. QED
    BY <2>7, <2>8, <2>9 DEF GroundInv, Trusted
<1>2. ASSUME NEW p \in Pages, HearLate(p)
      PROVE  GroundInv'
  <2>1. PICK h \in late[p] : /\ Step(p, OnHead(p, page[p], h))
                             /\ late' = [late EXCEPT ![p] = @ \ {h}]
    BY <1>2 DEF HearLate
  <2>2. h \in held[NodeOf[p]]
    BY <2>1 DEF GroundInv
  <2>3. Good(OnHead(p, page[p], h), held[NodeOf[p]], Trusted(NodeOf[p]))
    BY <2>2, GoodPage, OnHeadGood
  <2>4. \A q \in Pages : late'[q] \subseteq held[NodeOf[q]]
    BY <2>1, TypeInvPages DEF GroundInv
  <2>5. QED
    BY <1>2, <2>1, <2>3, <2>4, StepGround DEF HearLate
<1>3. ASSUME NEW p \in Pages, TakeRead(p)
      PROVE  GroundInv'
  <2>1. \A q \in Pages : late'[q] \subseteq late[q] \cup {reg[NodeOf[q]]}
    BY <1>3, TypeInvPages DEF TakeRead
  <2>2. \A q \in Pages : late'[q] \subseteq held[NodeOf[q]]
    BY <2>1, NodesAssumption DEF GroundInv
  <2>3. UNCHANGED <<page, rec, reg, asked, sent, held, sigs>>
    BY <1>3 DEF TakeRead
  <2>4. QED
    BY <2>2, <2>3 DEF GroundInv, Trusted
<1>4. ASSUME NEW p \in Pages, SignerAnswers(p)
      PROVE  GroundInv'
  <2> DEFINE n == NodeOf[p]
  <2>1. PICK outcome \in SignOutcomes :
          /\ Serve(n, Served(n, page[p].sign, outcome))
          /\ page' = [page EXCEPT ![p].ans = Served(n, page[p].sign, outcome)]
    BY <1>4 DEF SignerAnswers
  <2> DEFINE a == Served(n, page[p].sign, outcome)
             t == [page[p] EXCEPT !.ans = a]
  <2>2. /\ n \in Nodes /\ outcome \in {"Signed", "Retry", "Final"}
        /\ page[p] \in PageState /\ page[p].sign \in Head
    BY TypeInvPages, NodesAssumption DEF PageState
  <2>3. /\ a.head \in Trusted(n)' /\ rec'[n] \in Trusted(n)'
        /\ \A m \in Nodes : sigs[m] \subseteq sigs'[m] /\ (m # n => rec'[m] = rec[m])
    BY <2>1, <2>2, ServeGround
  <2>4. UNCHANGED <<reg, asked, sent, late, held>>
    BY <1>4 DEF SignerAnswers
  <2>5. \A q \in Pages : page'[q] = IF q = p THEN t ELSE page[q]
    BY <2>1, TypeInvPages
  <2>6. \A q \in Pages : Grounded(page[q], held[NodeOf[q]], Trusted(NodeOf[q])')
    <3>1. ASSUME NEW q \in Pages
          PROVE  Grounded(page[q], held[NodeOf[q]], Trusted(NodeOf[q])')
      <4>1. Grounded(page[q], held[NodeOf[q]], Trusted(NodeOf[q]))
        BY DEF GroundInv
      <4>2. Trusted(NodeOf[q]) \subseteq Trusted(NodeOf[q])'
        BY <2>3, NodesAssumption DEF Trusted
      <4>3. QED
        BY <4>1, <4>2, GroundGrows
    <3>2. QED
      BY <3>1
  <2> HIDE DEF a
  <2>7. /\ t.pub = page[p].pub /\ t.life = page[p].life /\ t.sign = page[p].sign
        /\ t.upd = page[p].upd /\ t.ans = a /\ t.mine = page[p].mine
    BY <2>2 DEF PageState
  <2> HIDE DEF t
  <2>8. Grounded(t, held[n], Trusted(n)')
    BY <2>3, <2>6, <2>7 DEF Grounded
  <2>9. \A q \in Pages : Grounded(page'[q], held[NodeOf[q]], Trusted(NodeOf[q])')
    BY <2>5, <2>6, <2>8
  <2>10. QED
    BY <2>2, <2>3, <2>4, <2>9, SignsGround
<1>5. ASSUME NEW n \in Nodes, SignerServesStale(n)
      PROVE  GroundInv'
  <2>1. PICK h \in asked[n] : Serve(n, Served(n, h, "Signed"))
    BY <1>5 DEF SignerServesStale
  <2>2. h \in Head /\ UNCHANGED <<page, reg, asked, sent, late, held>>
    BY <1>5, TypeInvPages DEF SignerServesStale
  <2>3. /\ rec'[n] \in Trusted(n)'
        /\ \A m \in Nodes : sigs[m] \subseteq sigs'[m] /\ (m # n => rec'[m] = rec[m])
    BY <2>1, <2>2, ServeGround
  <2>4. ASSUME NEW q \in Pages
        PROVE  Grounded(page'[q], held[NodeOf[q]], Trusted(NodeOf[q])')
    <3>1. Grounded(page[q], held[NodeOf[q]], Trusted(NodeOf[q]))
      BY DEF GroundInv
    <3>2. Trusted(NodeOf[q]) \subseteq Trusted(NodeOf[q])'
      BY <2>3, NodesAssumption DEF Trusted
    <3>3. QED
      BY <2>2, <3>1, <3>2, GroundGrows
  <2>5. QED
    BY <2>2, <2>3, <2>4, SignsGround
<1>6. ASSUME NEW n \in Nodes, UpdateApplies(n)
      PROVE  GroundInv'
  BY <1>6, ApplyGround, TypeInvPages DEF UpdateApplies
<1>7. ASSUME NEW n \in Nodes, NEW m \in Nodes, Sync(n, m)
      PROVE  GroundInv'
  BY <1>7, ApplyGround, TypeInvPages DEF Sync
<1>8. CASE UNCHANGED vars
  BY <1>8 DEF vars, GroundInv, Trusted
<1>9. QED
  BY <1>1, <1>2, <1>3, <1>4, <1>5, <1>6, <1>7, <1>8, PageActionGround DEF Next

LEMMA GroundInvInit == Init => GroundInv
<1> SUFFICES ASSUME Init PROVE GroundInv
  OBVIOUS
<1>1. ASSUME NEW n \in Nodes
      PROVE  World(held[n], Trusted(n))
  BY Constants DEF Init, World, Trusted
<1>2. \A p \in Pages : Grounded(page[p], held[NodeOf[p]], Trusted(NodeOf[p]))
  BY <1>1, ConstantsGround, NodesAssumption DEF Init, Good
<1>3. NoHead.seq <= NoHead.seq
  BY DEF NoHead
<1>4. QED
  BY <1>2, <1>3 DEF Init, GroundInv, Trusted

(* What every page waits for, keeps or has on a wire was signed by its own *)
(* node's signer or held by its own node's Register: the invariant the     *)
(* theorems below rest on.                                                 *)
THEOREM GroundCorrect == Spec => []GroundInv
  BY TypeInvInit, TypeInvStep, GroundInvInit, GroundInvStep, PTL DEF Spec

(* A page publishes only a head the Register of its node has held: never   *)
(* its own guess, a record that did not land or half a commit.             *)
THEOREM AdoptedCorrect == Spec => []AdoptedWasHeld
<1>1. GroundInv => AdoptedWasHeld
  BY DEF GroundInv, Grounded, Known, AdoptedWasHeld
<1>2. QED
  BY <1>1, TypeInvInit, TypeInvStep, GroundInvInit, GroundInvStep, PTL DEF Spec

(* Every UPDATE a page ever sends carries a record the signer of its node  *)
(* signed.                                                                 *)
THEOREM UpdatesCorrect == Spec => []UpdatesAreSigned
<1>1. GroundInv => UpdatesAreSigned
  BY DEF GroundInv, UpdatesAreSigned
<1>2. QED
  BY <1>1, TypeInvInit, TypeInvStep, GroundInvInit, GroundInvStep, PTL DEF Spec

----------------------------------------------------------------------------
(* The signer: what one more signature, or one more merge, does.           *)

(* The signer of n signs h, whose prev its Register reached. *)
Signs(n, h) ==
  /\ h \in Head /\ Reached(h.prev, held[n])
  /\ Decide(rec[n], reg[n], h).kind = "Signed"
  /\ rec' = [rec EXCEPT ![n] = h] /\ sigs' = [sigs EXCEPT ![n] = @ \cup {h}]
  /\ UNCHANGED reg

(* The Register of n moves up. *)
Merges(n) ==
  /\ \E h \in Head : reg[n].seq <= h.seq /\ reg' = [reg EXCEPT ![n] = h]
  /\ UNCHANGED <<rec, sigs>>

LEMMA ServeSigns ==
  ASSUME TypeInv, NEW n \in Nodes, NEW h \in Head, NEW outcome \in {"Signed", "Retry", "Final"},
         Serve(n, Served(n, h, outcome)), Reached(h.prev, held[n]), UNCHANGED reg
  PROVE  Signs(n, h) \/ UNCHANGED <<rec, reg, sigs>>
<1> DEFINE a == Served(n, h, outcome)
           d == Decide(rec[n], reg[n], h)
<1>1. CASE a.kind = "Signed"
  <2>1. Refused("Final").kind = "Final" /\ Refused(outcome).kind = outcome
    BY DEF Refused, NoAnswer
  <2>2. a = d
    BY <1>1, <2>1 DEF Served
  <2>3. d = Signed(h)
    <3>1. \A t : NotNext(t).kind = "NotNext"
      BY DEF NotNext, NoAnswer
    <3>2. AlreadySigned(rec[n]).kind = "AlreadySigned" /\ Refused("HeadUnknown").kind = "HeadUnknown"
      BY DEF AlreadySigned, Refused, NoAnswer
    <3>3. \/ d = Refused("Final") \/ d = Refused("HeadUnknown") \/ d = AlreadySigned(rec[n])
          \/ d = NotNext(Truth(rec[n], reg[n])) \/ d = Signed(h)
      BY DEF Decide
    <3> HIDE DEF d, a
    <3>4. QED
      BY <1>1, <2>1, <2>2, <3>1, <3>2, <3>3
  <2>4. a.head = h
    BY <2>2, <2>3 DEF Signed, NoAnswer
  <2> HIDE DEF a
  <2>5. QED
    BY <1>1, <2>2, <2>4 DEF Serve, Signs, a
<1>2. CASE a.kind # "Signed"
  BY <1>2 DEF Serve
<1>3. QED
  BY <1>1, <1>2

(* A signature, a merge, or neither: no other step touches a signer's      *)
(* record or a Register.                                                   *)
LEMMA NextKinds ==
  ASSUME TypeInv, GroundInv, [Next]_vars
  PROVE  \/ UNCHANGED <<rec, reg, sigs>>
         \/ \E n \in Nodes : Merges(n)
         \/ \E n \in Nodes, h \in Head : Signs(n, h)
<1>1. ASSUME NEW p \in Pages,
             \/ Start(p) \/ Close(p) \/ Accept(p) \/ CutNow(p) \/ RaceReady(p)
             \/ BlockRejected(p) \/ AskHead(p) \/ HearSigner(p) \/ SignLost(p)
             \/ HearUpdated(p) \/ Due(p) \/ Backstop(p) \/ Reconnected(p)
             \/ HeadHinted(p) \/ HearHead(p) \/ HearLate(p) \/ HeadPushed(p) \/ TakeRead(p)
      PROVE  UNCHANGED <<rec, reg, sigs>>
  BY <1>1 DEF Start, Close, Accept, CutNow, RaceReady, BlockRejected, AskHead, HearSigner,
     SignLost, HearUpdated, Due, Backstop, Reconnected, HeadHinted, HearHead, HearLate,
     HeadPushed, TakeRead, PageStep
<1>2. ASSUME NEW p \in Pages, SignerAnswers(p)
      PROVE  UNCHANGED <<rec, reg, sigs>> \/ \E n \in Nodes, h \in Head : Signs(n, h)
  <2>1. PICK outcome \in SignOutcomes :
          Serve(NodeOf[p], Served(NodeOf[p], page[p].sign, outcome))
    BY <1>2 DEF SignerAnswers
  <2>2. /\ NodeOf[p] \in Nodes /\ outcome \in {"Signed", "Retry", "Final"} /\ page[p].sign \in Head
    BY TypeInvPages, NodesAssumption DEF PageState
  <2>3. Reached(page[p].sign.prev, held[NodeOf[p]]) /\ UNCHANGED reg
    BY <1>2 DEF GroundInv, Grounded, SignerAnswers
  <2>4. QED
    BY <2>1, <2>2, <2>3, ServeSigns
<1>3. ASSUME NEW n \in Nodes, SignerServesStale(n)
      PROVE  UNCHANGED <<rec, reg, sigs>> \/ \E h \in Head : Signs(n, h)
  <2>1. PICK h \in asked[n] : Serve(n, Served(n, h, "Signed"))
    BY <1>3 DEF SignerServesStale
  <2>2. h \in Head /\ Reached(h.prev, held[n]) /\ UNCHANGED reg
    BY <1>3, TypeInvPages DEF GroundInv, SignerServesStale
  <2>3. QED
    BY <2>1, <2>2, ServeSigns
<1>4. ASSUME NEW n \in Nodes, NEW h \in Head, Displaces(h, reg[n]), Apply(n, h)
      PROVE  Merges(n)
  <2>1. reg[n].seq <= h.seq
    BY <1>4, TypeInvPages DEF Displaces, Head
  <2>2. reg' = [reg EXCEPT ![n] = h] /\ UNCHANGED <<rec, sigs>>
    BY <1>4 DEF Apply, Merge
  <2>3. QED
    BY <2>1, <2>2 DEF Merges
<1>5. ASSUME NEW n \in Nodes, UpdateApplies(n)
      PROVE  Merges(n)
  BY <1>4, <1>5, TypeInvPages DEF UpdateApplies
<1>6. ASSUME NEW n \in Nodes, NEW m \in Nodes, Sync(n, m)
      PROVE  Merges(n)
  BY <1>4, <1>6, TypeInvPages DEF Sync
<1>7. QED
  BY <1>1, <1>2, <1>3, <1>5, <1>6 DEF Next, vars

(* A head is signed on the truth the signer knows, which is no older than  *)
(* its record and no other than what its Register shows.                   *)
LEMMA SignedOnTruth ==
  ASSUME NEW record \in Head, NEW read \in Head, NEW h \in Head,
         Decide(record, read, h).kind = "Signed"
  PROVE  h.seq = h.prev.seq + 1 /\ record.seq <= h.prev.seq
<1> DEFINE truth == Truth(record, read)
<1>1. /\ Refused("Final").kind = "Final" /\ Refused("HeadUnknown").kind = "HeadUnknown"
      /\ AlreadySigned(record).kind = "AlreadySigned" /\ NotNext(truth).kind = "NotNext"
  BY DEF Refused, AlreadySigned, NotNext, NoAnswer
<1>2. truth \in Pair /\ record.seq <= truth.seq
  BY PairOfType DEF Truth, PairOf, NoHead, Head
<1>3. h.prev \in Pair /\ h.seq = h.prev.seq + 1
  BY <1>1 DEF Decide, Head
<1>4. (truth.seq > 0 => truth = h.prev) /\ (truth.seq = 0 => h.prev.seq = 0)
  BY <1>1 DEF Decide
<1> HIDE DEF truth
<1>5. h.prev.seq = truth.seq
  BY <1>2, <1>4
<1>6. QED
  BY <1>2, <1>3, <1>5

(* Every signature's prev is below the record that followed it. *)
RecordLeads == \A n \in Nodes : \A a \in sigs[n] : a.prev.seq < rec[n].seq

SignerInv == RegisterNeverTwoBehind /\ RecordLeads /\ OneSignaturePerPrev

LEMMA SignerInvStep == TypeInv /\ GroundInv /\ SignerInv /\ [Next]_vars => SignerInv'
<1> SUFFICES ASSUME TypeInv, GroundInv, SignerInv, [Next]_vars
             PROVE  SignerInv'
  OBVIOUS
<1>1. CASE UNCHANGED <<rec, reg, sigs>>
  BY <1>1 DEF SignerInv, RegisterNeverTwoBehind, RecordLeads, OneSignaturePerPrev
<1>2. ASSUME NEW n \in Nodes, Merges(n)
      PROVE  SignerInv'
  <2>1. \A m \in Nodes : reg[m].seq <= reg'[m].seq /\ reg[m] \in Head /\ reg'[m] \in Head
    BY <1>2, TypeInvPages DEF Merges, Head
  <2>2. UNCHANGED <<rec, sigs>> /\ \A m \in Nodes : rec[m] \in Head
    BY <1>2, TypeInvPages DEF Merges
  <2>3. RegisterNeverTwoBehind'
    BY <2>1, <2>2 DEF SignerInv, RegisterNeverTwoBehind, Head
  <2>4. QED
    BY <2>2, <2>3 DEF SignerInv, RecordLeads, OneSignaturePerPrev
<1>3. ASSUME NEW n \in Nodes, NEW h \in Head, Signs(n, h)
      PROVE  SignerInv'
  <2>1. /\ rec[n] \in Head /\ reg[n] \in Head /\ h.prev \in Pair /\ h.seq \in Nat
        /\ sigs[n] \subseteq Head
    BY TypeInvPages DEF Head
  <2>2. h.seq = h.prev.seq + 1 /\ rec[n].seq <= h.prev.seq
    BY <1>3, <2>1, SignedOnTruth DEF Signs
  <2>3. /\ \A m \in Nodes : /\ rec'[m] = IF m = n THEN h ELSE rec[m]
                            /\ sigs'[m] = IF m = n THEN sigs[n] \cup {h} ELSE sigs[m]
        /\ reg' = reg
    BY <1>3, TypeInvPages DEF Signs
  <2>4. h.prev.seq <= reg[n].seq
    <3>1. PICK x \in held[n] : h.prev.seq <= x.seq
      BY <1>3 DEF Signs, Reached
    <3>2. x \in Head /\ x.seq <= reg[n].seq
      BY <3>1, TypeInvPages DEF GroundInv
    <3>3. QED
      BY <2>1, <3>1, <3>2 DEF Head
  <2>5. RegisterNeverTwoBehind'
    BY <2>1, <2>2, <2>3, <2>4 DEF SignerInv, RegisterNeverTwoBehind, Head
  <2>6. \A a \in sigs[n] : a.prev.seq < h.prev.seq /\ a.prev.seq \in Nat
    BY <2>1, <2>2 DEF SignerInv, RecordLeads, Head
  <2>7. RecordLeads'
    <3>1. \A a \in sigs[n] \cup {h} : a.prev.seq < h.seq
      BY <2>1, <2>2, <2>6
    <3>2. QED
      BY <2>3, <3>1 DEF SignerInv, RecordLeads
  <2>8. OneSignaturePerPrev'
    <3>1. \A a \in sigs[n] : a.prev # h.prev
      BY <2>1, <2>6
    <3>2. QED
      BY <2>3, <3>1 DEF SignerInv, OneSignaturePerPrev
  <2>9. QED
    BY <2>5, <2>7, <2>8 DEF SignerInv
<1>4. QED
  BY <1>1, <1>2, <1>3, NextKinds

LEMMA SignerInvInit == Init => SignerInv
<1>1. NoHead.seq <= NoHead.seq + 1
  BY DEF NoHead
<1>2. QED
  BY <1>1 DEF Init, SignerInv, RegisterNeverTwoBehind, RecordLeads, OneSignaturePerPrev

(* The case the page fails a commit on, a signer's record two or more past *)
(* its Register, is never reached (page/src/lib.rs "unreachable by 1b").   *)
THEOREM RegisterFollows == Spec => []RegisterNeverTwoBehind
<1>1. SignerInv => RegisterNeverTwoBehind
  BY DEF SignerInv
<1>2. QED
  BY <1>1, TypeInvInit, TypeInvStep, GroundInvInit, GroundInvStep, SignerInvInit,
     SignerInvStep, PTL DEF Spec

(* One prev, one signature, for good: two pages never hold two signed      *)
(* heads built on the same head of one node's tree.                        *)
THEOREM OneSuccessor == Spec => []OneSignaturePerPrev
<1>1. SignerInv => OneSignaturePerPrev
  BY DEF SignerInv
<1>2. QED
  BY <1>1, TypeInvInit, TypeInvStep, GroundInvInit, GroundInvStep, SignerInvInit,
     SignerInvStep, PTL DEF Spec
=============================================================================
