-------------------------- MODULE SitePublication --------------------------
(***************************************************************************)
(* The publications of one app's site: the site's table of                 *)
(* page/src/publication.rs, the page and page-io that carry its acts out,  *)
(* the signer's rule for a site's label, and the nodes' copies of the site *)
(* contract, which merge as the head's Register does.                      *)
(*                                                                         *)
(* To the signer and the Register a site's record is a head whose root is  *)
(* the hash of the site's bundle, so their rules are those of Signer.      *)
(*                                                                         *)
(* Ops are lost, repeated and late as in HeadPublish.  A register answer   *)
(* to a page in Sleepy may be any copy a node has held: taken earlier, or  *)
(* by a node behind the others.                                            *)
(***************************************************************************)
EXTENDS Integers, FiniteSets

CONSTANTS
  Pages,         \* the pages that publish the site
  Nodes,
  NodeOf,        \* the node a page is connected to
  Bundles,       \* the web parts, by their hash
  Lower(_, _),   \* the tie-break: the order of two bundles' hashes
  Sleepy,        \* the pages whose register answers may be stale
  Refusing,      \* the pages whose node may refuse an op for good
  Closable,      \* the pages that may be reloaded
  Cancelling,    \* the pages whose person may cancel
  SignOutcomes,  \* what may become of a request: signed, not saved, or refused
                 \* for good (no key, a page that a node serves: FromApp)
  HeadReads,     \* stale read-backs before the write goes again
  Publishes,     \* bound: how often each page is asked to publish
  MaxLost        \* bound: no Sign past this version is lost, or served for nobody

ASSUME SiteAssumption ==
  /\ NodeOf \in [Pages -> Nodes]
  /\ Sleepy \cup Refusing \cup Closable \cup Cancelling \subseteq Pages
  /\ SignOutcomes \subseteq {"Signed", "Retry", "Final"}
  /\ HeadReads \in Nat \ {0}
  /\ Publishes \in [Pages -> Nat]
  /\ MaxLost \in Nat

(* A strict order: the bundles' hashes compared, byte by byte. *)
ASSUME LowerAssumption ==
  /\ \A a \in Bundles : ~Lower(a, a)
  /\ \A a, b, c \in Bundles : Lower(a, b) /\ Lower(b, c) => Lower(a, c)
  /\ \A a, b \in Bundles : a # b => Lower(a, b) \/ Lower(b, a)

BeatsSite(a, b) == Lower(a.root, b.root)

Label == INSTANCE Signer WITH Pages <- {}, MaxWrites <- 0, Beats <- BeatsSite

(* No site yet; its value is the genesis'. *)
NoRecord == Label!NoHead
NoBundle == NoRecord.root
PairOf(h) == Label!PairOf(h)

Pair   == [seq : Nat, root : Bundles \cup {NoBundle}]
Record == [seq : Nat, root : Bundles \cup {NoBundle}, prev : Pair, through : {NoRecord.through}]

Stages == {"Idle", "Reading", "Signing", "BackingOff", "Written", "Ended"}
Ends   == {"None", "Published", "Superseded", "Refused", "Cancelled"}

Site ==
  [st      : Stages,
   root    : Bundles \cup {NoBundle},   \* the bundle owed
   prev    : Pair,                      \* what its version follows
   record  : Record,                    \* Written: the signer's bytes
   stale   : Nat,                       \* Written: stale read-backs so far
   how     : Ends, version : Nat,       \* Ended: how, and at which version
   sign    : Record,                    \* the Sign on the wire, as the record it asks for
   ans     : [kind : Label!AnswerKinds, head : Record, current : Pair],
   upd     : Record,                    \* the PUT on the wire
   reads   : BOOLEAN,                   \* a read of the site is waited for
   web     : Bundles \cup {NoBundle}]   \* the bundle page-io holds and frames

InitSite ==
  [st |-> "Idle", root |-> NoBundle, prev |-> Label!Genesis, record |-> NoRecord,
   stale |-> 0, how |-> "None", version |-> 0, sign |-> NoRecord,
   ans |-> Label!NoAnswer, upd |-> NoRecord, reads |-> FALSE, web |-> NoBundle]

Publishing(s) == s.st \notin {"Idle", "Ended"}

----------------------------------------------------------------------------
(* The acts.                                                               *)

EndWaits(s) ==
  [s EXCEPT !.sign = NoRecord, !.ans = Label!NoAnswer, !.upd = NoRecord, !.reads = FALSE]

(* An end: the waits end, and page-io drops the bundle. *)
End(s, how, version) ==
  EndWaits([InitSite EXCEPT !.st = "Ended", !.how = how, !.version = version])

(* Mutant: from the version before prev. *)
AskSignTooFar(s) ==
  [s EXCEPT !.sign = [NoRecord EXCEPT !.seq = s.prev.seq, !.root = s.root,
                                      !.prev = [s.prev EXCEPT !.seq = @ - 1]],
            !.ans = Label!NoAnswer]

AskSign(s) ==
  [s EXCEPT !.sign = [NoRecord EXCEPT !.seq = s.prev.seq + 1, !.root = s.root, !.prev = s.prev],
            !.ans = Label!NoAnswer]

(* The owed bundle as the version after prev. *)
Rebase(s, prev) == AskSign([s EXCEPT !.st = "Signing", !.prev = prev])

(* Exactly the signer's bytes are written. *)
Write(s, record) ==
  [s EXCEPT !.st = "Written", !.record = record, !.stale = 0, !.upd = record]

----------------------------------------------------------------------------
(* The site's table, by event.                                             *)

(* Publishing again, at any point, starts over with the new bundle: the    *)
(* site is read first.                                                     *)
OnPublish(s, bundle) ==
  [InitSite EXCEPT !.st = "Reading", !.root = bundle, !.web = bundle, !.reads = TRUE]

OnCancel(s) == IF Publishing(s) THEN End(s, "Cancelled", 0) ELSE s
OnRefused(s) == IF Publishing(s) THEN End(s, "Refused", 0) ELSE s

(* Mutant: whatever record the signer returns is written. *)
OnAlreadySignedWrites(s, record) == Write(s, record)

(* The signer's own record on that prev: this bundle's, or one to follow.  *)
OnAlreadySigned(s, record) ==
  IF record.root = s.root THEN Write(s, record) ELSE Rebase(s, PairOf(record))

OnSigner(s) ==
  LET a == s.ans
      heard == [s EXCEPT !.sign = NoRecord, !.ans = Label!NoAnswer]
  IN  IF s.st # "Signing" THEN heard
      ELSE CASE a.kind = "Signed"        -> Write(heard, a.head)
             [] a.kind = "AlreadySigned" -> OnAlreadySigned(heard, a.head)
             [] a.kind = "NotNext"       -> Rebase(heard, a.current)
             [] a.kind \in {"Retry", "HeadUnknown"} -> [heard EXCEPT !.st = "BackingOff"]
             [] OTHER                    -> End(heard, "Refused", 0)

OnUpdated(s) == [s EXCEPT !.upd = NoRecord, !.reads = @ \/ s.st = "Written"]

DueNow(s) ==
  \/ s.st = "BackingOff"
  \/ s.st = "Written" /\ s.stale > 0 /\ ~s.reads

OnDue(s) ==
  IF s.st = "BackingOff" THEN Rebase(s, s.prev) ELSE [s EXCEPT !.reads = TRUE]

(* Mutants: the version alone; the version without the tie-break; the      *)
(* count never asks for another write.                                     *)
JudgeSiteByVersion(s, h) ==
  IF h.seq = s.record.seq THEN "Mine" ELSE IF h.seq > s.record.seq THEN "Superseded" ELSE "NotYet"
JudgeSiteUntied(s, h) ==
  IF PairOf(h) = PairOf(s.record) THEN "Mine" ELSE IF h.seq >= s.record.seq THEN "Superseded" ELSE "NotYet"
StaleUnwritten(s) == [s EXCEPT !.stale = 1]

(* What a read of the site is to the record this page has written. *)
JudgeSite(s, h) ==
  IF PairOf(h) = PairOf(s.record) THEN "Mine"
  ELSE IF h.seq > s.record.seq \/ (h.seq = s.record.seq /\ ~Lower(s.record.root, h.root))
    THEN "Superseded"
  ELSE "NotYet"

(* A stale read of the written record: counted, and at HeadReads the PUT   *)
(* goes again.                                                             *)
Stale(s) ==
  IF s.stale + 1 >= HeadReads THEN [s EXCEPT !.stale = 0, !.upd = s.record]
  ELSE [s EXCEPT !.stale = @ + 1]

(* Mutant: a site that holds anything is current. *)
HoldsAny(s, h) == h # NoRecord

HoldsOwn(s, h) == h # NoRecord /\ h.root = s.root

(* A read before the sign says what to follow, or that the site holds this *)
(* bundle already; one after the write is judged.                          *)
OnRead(s, h) ==
  LET heard == [s EXCEPT !.reads = FALSE]
      v == JudgeSite(s, h)
  IN  CASE s.st = "Reading" /\ HoldsOwn(s, h)  -> End(s, "Published", h.seq)
        [] s.st = "Reading" /\ ~HoldsOwn(s, h) -> Rebase(heard, PairOf(h))
        [] s.st = "Written" /\ v = "Mine"       -> End(s, "Published", s.record.seq)
        [] s.st = "Written" /\ v = "Superseded" -> End(s, "Superseded", h.seq)
        [] s.st = "Written" /\ v = "NotYet"     -> Stale(heard)
        [] OTHER                                -> heard

----------------------------------------------------------------------------
VARIABLES
  page,     \* each page's publication
  left,     \* how often each page may still be asked to publish
  rec,      \* each signer's record for this label
  reg,      \* each node's copy of the site
  asked,    \* the Signs that ever reached the wire of a node
  sent,     \* the PUTs that ever reached the wire of a node
  held,     \* ghost: the records any node's copy has held
  want,     \* ghost: the bundle each page was last asked to publish
  wrote,    \* ghost: the record its publication last wrote
  since     \* ghost: what its node's copy has held since it was asked

vars == <<page, left, rec, reg, asked, sent, held, want, wrote, since>>
node == <<rec, reg, held, since>>
world == <<rec, reg, asked, sent, held, since>>

Init ==
  /\ page = [p \in Pages |-> InitSite]
  /\ left = Publishes
  /\ rec = [n \in Nodes |-> NoRecord] /\ reg = [n \in Nodes |-> NoRecord]
  /\ asked = [n \in Nodes |-> {}] /\ sent = [n \in Nodes |-> {}]
  /\ held = {NoRecord}
  /\ want = [p \in Pages |-> NoBundle] /\ wrote = [p \in Pages |-> NoRecord]
  /\ since = [p \in Pages |-> {}]

(* Page p moves to s; the ops it waits for reach its node's wire. *)
Step(p, s) ==
  /\ page' = [page EXCEPT ![p] = s]
  /\ asked' = [asked EXCEPT ![NodeOf[p]] = @ \cup ({s.sign} \ {NoRecord})]
  /\ sent' = [sent EXCEPT ![NodeOf[p]] = @ \cup ({s.upd} \ {NoRecord})]
  /\ wrote' = IF s.upd = NoRecord THEN wrote ELSE [wrote EXCEPT ![p] = s.upd]

PageStep(p, s) == Step(p, s) /\ UNCHANGED <<left, want, node>>

Publish(p) ==
  /\ left[p] > 0
  /\ \E b \in Bundles :
       /\ page' = [page EXCEPT ![p] = OnPublish(page[p], b)]
       /\ want' = [want EXCEPT ![p] = b]
  /\ left' = [left EXCEPT ![p] = @ - 1]
  /\ wrote' = [wrote EXCEPT ![p] = NoRecord]
  /\ since' = [since EXCEPT ![p] = {reg[NodeOf[p]]}]
  /\ UNCHANGED <<rec, reg, asked, sent, held>>

Cancel(p) ==
  /\ p \in Cancelling /\ Publishing(page[p])
  /\ PageStep(p, OnCancel(page[p]))

(* A reload: another page, with the same signer and node. *)
Reload(p) ==
  /\ p \in Closable /\ page[p] # InitSite
  /\ page' = [page EXCEPT ![p] = InitSite]
  /\ UNCHANGED <<left, want, wrote, world>>

(* The contract refuses the PUT in its validation words, or the site is    *)
(* too large to be read.                                                   *)
NodeRefuses(p) ==
  /\ p \in Refusing /\ (page[p].upd # NoRecord \/ page[p].reads)
  /\ PageStep(p, OnRefused(page[p]))

HearRead(p, h) == page[p].reads /\ PageStep(p, OnRead(page[p], h))

HearSigner(p) == page[p].ans # Label!NoAnswer /\ PageStep(p, OnSigner(page[p]))

(* A lost Sign is rebuilt from the state. *)
SignLost(p) ==
  /\ page[p].sign # NoRecord /\ page[p].sign.seq <= MaxLost
  /\ PageStep(p, AskSign(page[p]))

(* The PUT's answer: merged, or lost with its answer sent all the same. *)
HearUpdated(p) == page[p].upd # NoRecord /\ PageStep(p, OnUpdated(page[p]))

Due(p) == DueNow(page[p]) /\ PageStep(p, OnDue(page[p]))

----------------------------------------------------------------------------
(* The node.                                                               *)

(* The signer's answer: a final refusal at once; else the one rule, over   *)
(* this label's record and the site as the node holds it.                  *)
Served(n, h, outcome) ==
  LET a == Label!Decide(rec[n], reg[n], h)
  IN  IF outcome = "Final" THEN Label!Refused("Final")
      ELSE IF a.kind = "Signed" /\ outcome # "Signed" THEN Label!Refused(outcome)
      ELSE a

(* Mutant: the answer leaves, the record is not saved. *)
ServeUnsaved(n, a) == UNCHANGED rec

Serve(n, a) == rec' = IF a.kind = "Signed" THEN [rec EXCEPT ![n] = a.head] ELSE rec

SignerAnswers(p) ==
  /\ page[p].sign # NoRecord /\ page[p].ans = Label!NoAnswer
  /\ \E outcome \in SignOutcomes :
       LET a == Served(NodeOf[p], page[p].sign, outcome)
       IN  Serve(NodeOf[p], a) /\ page' = [page EXCEPT ![p].ans = a]
  /\ UNCHANGED <<left, want, wrote, reg, asked, sent, held, since>>

(* A request nobody waits for any more, or served twice. *)
SignerServesStale(n) ==
  /\ \E h \in asked[n] :
       LET a == Served(n, h, "Signed")
       IN  a.kind = "Signed" /\ h.seq <= MaxLost /\ Serve(n, a)
  /\ UNCHANGED <<page, left, want, wrote, reg, asked, sent, held, since>>

(* A PUT, first sent or late, or another node's copy, is merged. *)
Apply(n, h) ==
  LET merged == Label!Merge(reg[n], h) IN
  /\ reg' = [reg EXCEPT ![n] = merged]
  /\ held' = held \cup {merged}
  /\ since' = [p \in Pages |-> IF NodeOf[p] = n THEN since[p] \cup {merged} ELSE since[p]]
  /\ UNCHANGED <<page, left, want, wrote, rec, asked, sent>>

UpdateApplies(n) == \E h \in sent[n] : Label!Displaces(h, reg[n]) /\ Apply(n, h)
Sync(n, m) == n # m /\ Label!Displaces(reg[m], reg[n]) /\ Apply(n, reg[m])

----------------------------------------------------------------------------
(* What a read of the site may answer. *)
Answers(p) == IF p \in Sleepy THEN held ELSE {reg[NodeOf[p]]}

Next ==
  \/ \E p \in Pages :
       \/ Publish(p) \/ Cancel(p) \/ Reload(p) \/ NodeRefuses(p)
       \/ HearSigner(p) \/ SignLost(p) \/ HearUpdated(p) \/ Due(p) \/ SignerAnswers(p)
       \/ \E h \in Answers(p) : HearRead(p, h)
  \/ \E n \in Nodes : SignerServesStale(n) \/ UpdateApplies(n)
  \/ \E n, m \in Nodes : Sync(n, m)

Spec == Init /\ [][Next]_vars

(* Fairness: the page's steps are its clock's and its socket's; an op      *)
(* asked again and again is served once in a while, a read by a copy that  *)
(* is current there, and nodes bring their copies together.                *)
UpdateArrives(p) ==
  /\ page[p].upd # NoRecord /\ Label!Displaces(page[p].upd, reg[NodeOf[p]])
  /\ Apply(NodeOf[p], page[p].upd)

SignerSigns(p) == SignerAnswers(p) /\ page'[p].ans.kind # "Retry"

FairSpec ==
  /\ Spec
  /\ \A p \in Pages :
       /\ WF_vars(Due(p)) /\ WF_vars(HearUpdated(p))
       /\ SF_vars(HearRead(p, reg[NodeOf[p]])) /\ SF_vars(HearSigner(p))
       /\ SF_vars(SignerSigns(p)) /\ SF_vars(UpdateArrives(p))
  /\ \A n, m \in Nodes : SF_vars(Sync(n, m))

----------------------------------------------------------------------------
(* Properties.                                                             *)

(* Types: a version is a number, and a publication takes no form its enum  *)
(* does not have.                                                          *)
TypeOK ==
  /\ page \in [Pages -> Site]
  /\ rec \in [Nodes -> Record] /\ reg \in [Nodes -> Record]
  /\ asked \in [Nodes -> SUBSET Record] /\ sent \in [Nodes -> SUBSET Record]
  /\ held \subseteq Record

(* A publication told Published at a version is live there: after it was   *)
(* asked for, the page's own node held that version with that bundle.      *)
PublishedIsLive ==
  \A p \in Pages : page[p].how = "Published" =>
    \E h \in since[p] : h.seq = page[p].version /\ h.root = want[p]

(* A publication told Superseded is over for good: a record that displaces *)
(* its own is at the version it was told, and one is held from then on, so *)
(* no merge of the copies comes back to it.                                *)
SupersededIsOver ==
  \A p \in Pages : page[p].how = "Superseded" =>
    /\ \E h \in held : h.seq = page[p].version /\ Label!Displaces(h, wrote[p])
    /\ \E n \in Nodes : Label!Displaces(reg[n], wrote[p])

(* The record on the wire signs the very bundle it is framed around: a     *)
(* publish started over, or answered with another's record, never puts one *)
(* bundle's signature on another's bytes.                                  *)
OwnBundle ==
  \A p \in Pages : page[p].upd # NoRecord => page[p].upd.root = page[p].web

(* On one node, two pages told Published at one version published one      *)
(* bundle.                                                                 *)
OneBundlePerVersion ==
  \A p, q \in Pages :
    /\ page[p].how = "Published" /\ page[q].how = "Published"
    /\ page[p].version = page[q].version
    => want[p] = want[q]

(* Every publication ends, and a page's silence or a lost write is not an  *)
(* end.                                                                    *)
PublicationsEnd == \A p \in Pages : Publishing(page[p]) ~> ~Publishing(page[p])

=============================================================================
