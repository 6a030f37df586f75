----------------------- MODULE SitePublication_proofs -----------------------
(***************************************************************************)
(* The theorems about SitePublication, for any pages, nodes, bundles and   *)
(* bounds: the page's part first, by operation of the site's table, then   *)
(* the signer and the nodes, then the theorems.                            *)
(***************************************************************************)
EXTENDS SitePublication, TLAPS

----------------------------------------------------------------------------
(* Constants.                                                              *)

(* A site's record as a signer can have signed it: of a version, and a     *)
(* bundle's; or none.                                                      *)
Sound == {h \in Record : h # NoRecord => h.seq > 0 /\ h.root \in Bundles}

Ans == [kind : Label!AnswerKinds, head : Record, current : Pair]

LEMMA NoRecordIs ==
  /\ NoRecord \in Sound /\ NoRecord \in Record
  /\ NoRecord.seq = 0 /\ NoRecord.root = NoBundle /\ NoRecord.prev = Label!Genesis
  /\ NoRecord = [seq |-> 0, root |-> NoBundle, prev |-> Label!Genesis, through |-> NoRecord.through]
  /\ Label!Genesis \in Pair /\ Label!Genesis.seq = 0
BY DEF NoRecord, NoBundle, Record, Pair, Sound, Label!NoHead, Label!Genesis

LEMMA NoAnswerIs ==
  /\ Label!NoAnswer \in Ans /\ Label!NoAnswer.kind = "None" /\ Label!NoAnswer.head = NoRecord
  /\ Label!NoAnswer.current = Label!Genesis
BY NoRecordIs DEF Ans, Label!NoAnswer, Label!AnswerKinds, NoRecord

LEMMA PairOfIs ==
  ASSUME NEW h \in Record
  PROVE  PairOf(h) \in Pair /\ PairOf(h) = [seq |-> h.seq, root |-> h.root]
BY DEF PairOf, Label!PairOf, Record, Pair

LEMMA InitSiteIs ==
  /\ InitSite \in Site
  /\ InitSite = [st |-> "Idle", root |-> NoBundle, prev |-> Label!Genesis, record |-> NoRecord,
       stale |-> 0, how |-> "None", version |-> 0, sign |-> NoRecord,
       ans |-> Label!NoAnswer, upd |-> NoRecord, reads |-> FALSE, web |-> NoBundle]
BY NoRecordIs, NoAnswerIs DEF InitSite, Site, Stages, Ends, Ans

----------------------------------------------------------------------------
(* One page.                                                               *)

(* A publication signs and writes its own bundle, waits for nothing once   *)
(* it is over, and has a record exactly while that is written.             *)
SiteOK(s) ==
  /\ s \in Site
  /\ s.web = s.root
  /\ {s.record, s.sign, s.upd, s.ans.head} \subseteq Sound
  /\ s.how # "None" => s.st = "Ended"
  /\ IF Publishing(s) THEN s.root \in Bundles
     ELSE s.sign = NoRecord /\ s.ans = Label!NoAnswer /\ s.upd = NoRecord /\ ~s.reads
  /\ s.sign # NoRecord => s.st = "Signing" /\ s.sign.root = s.root
  /\ s.ans.kind = "Signed" => s.ans.head # NoRecord /\ s.ans.head.root = s.root
  /\ s.ans.kind = "AlreadySigned" => s.ans.head # NoRecord
  /\ s.st = "Written" => s.record # NoRecord /\ s.record.root = s.root
  /\ s.upd # NoRecord => s.st = "Written" /\ s.upd = s.record

LEMMA InitSiteOK == SiteOK(InitSite)
BY InitSiteIs, NoRecordIs, NoAnswerIs DEF SiteOK, Publishing, Sound

LEMMA EndOK ==
  ASSUME NEW how \in Ends, NEW version \in Nat, NEW s
  PROVE  /\ SiteOK(End(s, how, version))
         /\ End(s, how, version).st = "Ended" /\ End(s, how, version).how = how
         /\ End(s, how, version).version = version /\ End(s, how, version).upd = NoRecord
<1> DEFINE t == End(s, how, version)
<1>1. /\ t \in Site /\ t.st = "Ended" /\ t.how = how /\ t.version = version
      /\ t.root = NoBundle /\ t.web = NoBundle /\ t.record = NoRecord /\ t.sign = NoRecord
      /\ t.ans = Label!NoAnswer /\ t.upd = NoRecord /\ t.reads = FALSE
  BY NoRecordIs, NoAnswerIs DEF End, EndWaits, InitSite, Site, Stages, Ans
<1> HIDE DEF t
<1>2. QED
  BY <1>1, NoRecordIs, NoAnswerIs DEF SiteOK, Publishing, t

(* Asking the signer to put the owed bundle after prev.                    *)
LEMMA RebaseOK ==
  ASSUME NEW s, SiteOK(s), NEW prev \in Pair, s.st \in {"Reading", "Signing", "BackingOff"}
  PROVE  SiteOK(Rebase(s, prev)) /\ Rebase(s, prev).how = s.how /\ Rebase(s, prev).root = s.root
         /\ Rebase(s, prev).st = "Signing" /\ Rebase(s, prev).upd = NoRecord
<1> DEFINE t == Rebase(s, prev)
           h == [NoRecord EXCEPT !.seq = prev.seq + 1, !.root = s.root, !.prev = prev]
<1>1. s \in Site /\ Publishing(s) /\ s.root \in Bundles /\ s.upd = NoRecord
  BY DEF SiteOK, Publishing
<1>2. t = [s EXCEPT !.st = "Signing", !.prev = prev, !.sign = h, !.ans = Label!NoAnswer]
  BY <1>1 DEF Rebase, AskSign, Site
<1>3. h \in Record /\ h.seq = prev.seq + 1 /\ h.root = s.root /\ prev.seq \in Nat
  <2>1. prev.seq \in Nat /\ prev.seq + 1 \in Nat
    BY DEF Pair
  <2>2. PICK r \in Record : r = NoRecord
    BY NoRecordIs
  <2>3. h = [r EXCEPT !.seq = prev.seq + 1, !.root = s.root, !.prev = prev]
    BY <2>2
  <2>4. QED
    BY <1>1, <2>1, <2>3 DEF Record
<1> HIDE DEF h
<1>4. h \in Sound
  BY <1>1, <1>3 DEF Sound
<1>5. /\ t \in Site /\ t.st = "Signing" /\ t.prev = prev /\ t.sign = h /\ t.ans = Label!NoAnswer
      /\ t.root = s.root /\ t.record = s.record /\ t.how = s.how /\ t.version = s.version
      /\ t.upd = s.upd /\ t.reads = s.reads /\ t.web = s.web
  BY <1>1, <1>2, <1>3, NoAnswerIs DEF Site, Stages, Ans
<1> HIDE DEF t
<1>6. QED
  BY <1>1, <1>3, <1>4, <1>5, NoRecordIs, NoAnswerIs DEF SiteOK, Publishing, t

(* What a step of the page makes of its publication s, given the answers   *)
(* it may have read: it goes on with the same bundle, it has the record it *)
(* had or the one the signer answered, and it is told Published or         *)
(* Superseded by what it read.                                             *)
Follows(s, t, answers) ==
  /\ SiteOK(t)
  /\ Publishing(t) => t.root = s.root
  /\ t.ans \in {s.ans, Label!NoAnswer}
  /\ t.st = "Written" => \/ s.st = "Written" /\ t.record = s.record
                         \/ /\ s.ans.kind \in {"Signed", "AlreadySigned"}
                            /\ t.record = s.ans.head /\ t.upd = t.record
  /\ t.how = "Published" =>
       \E h \in answers : h # NoRecord /\ h.seq = t.version /\ h.root = s.root
  /\ t.how = "Superseded" =>
       \E h \in answers : h.seq = t.version /\ s.st = "Written" /\ JudgeSite(s, h) = "Superseded"

(* An end that is no verdict on a record. *)
LEMMA EndFollows ==
  ASSUME NEW s, NEW how \in {"Refused", "Cancelled"}, NEW answers
  PROVE  Follows(s, End(s, how, 0), answers)
<1>1. how \in Ends /\ how \notin {"Published", "Superseded"}
  BY DEF Ends
<1>2. SiteOK(End(s, how, 0)) /\ End(s, how, 0).st = "Ended" /\ End(s, how, 0).how = how
  BY <1>1, EndOK
<1>3. End(s, how, 0).ans = Label!NoAnswer
  BY <1>2 DEF SiteOK, Publishing
<1>4. QED
  BY <1>1, <1>2, <1>3 DEF Follows, Publishing

LEMMA RebaseFollows ==
  ASSUME NEW s, SiteOK(s), NEW prev \in Pair, s.st \in {"Reading", "Signing", "BackingOff"},
         NEW answers
  PROVE  Follows(s, Rebase(s, prev), answers)
<1>1. SiteOK(Rebase(s, prev)) /\ Rebase(s, prev).how = s.how /\ Rebase(s, prev).root = s.root
      /\ Rebase(s, prev).st = "Signing"
  BY RebaseOK
<1>2. Rebase(s, prev).ans = Label!NoAnswer
  BY DEF Rebase, AskSign, SiteOK, Site
<1>3. s.how = "None"
  BY DEF SiteOK, Site, Ends
<1>4. QED
  BY <1>1, <1>2, <1>3 DEF Follows

(* The signer's answer is off the wire. *)
HeardSigner(s) == [s EXCEPT !.sign = NoRecord, !.ans = Label!NoAnswer]

LEMMA HeardSignerOK ==
  ASSUME NEW s, SiteOK(s)
  PROVE  /\ SiteOK(HeardSigner(s))
         /\ HeardSigner(s).st = s.st /\ HeardSigner(s).root = s.root
         /\ HeardSigner(s).record = s.record /\ HeardSigner(s).how = s.how
         /\ HeardSigner(s).ans = Label!NoAnswer
<1> DEFINE t == HeardSigner(s)
<1>1. /\ t \in Site /\ t.st = s.st /\ t.prev = s.prev /\ t.sign = NoRecord /\ t.ans = Label!NoAnswer
      /\ t.root = s.root /\ t.record = s.record /\ t.how = s.how /\ t.version = s.version
      /\ t.upd = s.upd /\ t.reads = s.reads /\ t.web = s.web
  BY NoRecordIs, NoAnswerIs DEF HeardSigner, SiteOK, Site, Ans
<1> HIDE DEF t
<1>2. SiteOK(t)
  BY <1>1, NoRecordIs, NoAnswerIs DEF SiteOK, Publishing
<1>3. QED
  BY <1>1, <1>2 DEF t

(* The record the signer answered is this bundle's: it is written.         *)
LEMMA WriteFollows ==
  ASSUME NEW s, SiteOK(s), s.st = "Signing", s.ans.kind \in {"Signed", "AlreadySigned"},
         s.ans.head.root = s.root, NEW answers
  PROVE  Follows(s, Write(HeardSigner(s), s.ans.head), answers)
<1> DEFINE u == HeardSigner(s)
           h == s.ans.head
           t == Write(u, h)
<1>1. /\ SiteOK(u) /\ u.st = s.st /\ u.root = s.root /\ u.how = s.how /\ u.ans = Label!NoAnswer
      /\ u.sign = NoRecord
  BY HeardSignerOK DEF HeardSigner, SiteOK, Site
<1>2. h \in Sound /\ h \in Record /\ h # NoRecord /\ h.root = s.root /\ s.how = "None"
  BY DEF SiteOK, Sound, Site, Ends
<1> HIDE DEF u, h
<1>3. /\ t \in Site /\ t.st = "Written" /\ t.prev = u.prev /\ t.sign = u.sign /\ t.ans = u.ans
      /\ t.root = u.root /\ t.record = h /\ t.how = u.how /\ t.version = u.version
      /\ t.upd = h /\ t.reads = u.reads /\ t.web = u.web
  BY <1>1, <1>2 DEF Write, SiteOK, Site, Stages
<1> HIDE DEF t
<1>4. SiteOK(t)
  BY <1>1, <1>2, <1>3, NoRecordIs, NoAnswerIs DEF SiteOK, Publishing
<1>5. Follows(s, t, answers)
  BY <1>1, <1>2, <1>3, <1>4 DEF Follows, h
<1>6. QED
  BY <1>5 DEF t, u, h

LEMMA OnSignerFollows ==
  ASSUME NEW s, SiteOK(s), Publishing(s), NEW answers
  PROVE  Follows(s, OnSigner(s), answers)
<1> DEFINE u == HeardSigner(s)
           a == s.ans
<1>1. /\ SiteOK(u) /\ u.st = s.st /\ u.root = s.root /\ u.record = s.record /\ u.how = s.how
      /\ u.ans = Label!NoAnswer
  BY HeardSignerOK
<1>2. OnSigner(s) =
        IF s.st # "Signing" THEN u
        ELSE CASE a.kind = "Signed"        -> Write(u, a.head)
               [] a.kind = "AlreadySigned" -> OnAlreadySigned(u, a.head)
               [] a.kind = "NotNext"       -> Rebase(u, a.current)
               [] a.kind \in {"Retry", "HeadUnknown"} -> [u EXCEPT !.st = "BackingOff"]
               [] OTHER                    -> End(u, "Refused", 0)
  BY DEF OnSigner, HeardSigner
<1> HIDE DEF u
<1>3. /\ a.kind \in Label!AnswerKinds /\ a.current \in Pair /\ a.head \in Record
      /\ PairOf(a.head) \in Pair /\ s.how = "None"
  BY PairOfIs DEF SiteOK, Site, Publishing, Ends
<1>4. \A prev \in Pair : s.st = "Signing" => Follows(s, Rebase(u, prev), answers)
  <2> SUFFICES ASSUME NEW prev \in Pair, s.st = "Signing"
               PROVE  Follows(s, Rebase(u, prev), answers)
    OBVIOUS
  <2>1. Follows(u, Rebase(u, prev), answers)
    BY <1>1, RebaseFollows
  <2>2. Rebase(u, prev).st = "Signing" /\ Rebase(u, prev).how = s.how
    BY <1>1, RebaseOK
  <2>3. QED
    BY <1>1, <1>3, <2>1, <2>2 DEF Follows
<1>5. CASE s.st # "Signing"
  <2>1. Follows(s, u, answers)
    BY <1>1, <1>3, <1>5 DEF Follows
  <2>2. QED
    BY <1>2, <1>5, <2>1
<1>6. CASE s.st = "Signing" /\ a.kind = "Signed"
  <2>1. a.head.root = s.root
    BY <1>6 DEF SiteOK
  <2>2. QED
    BY <1>2, <1>6, <2>1, WriteFollows DEF u
<1>7. CASE s.st = "Signing" /\ a.kind = "AlreadySigned"
  <2>1. OnSigner(s) = IF a.head.root = s.root THEN Write(u, a.head) ELSE Rebase(u, PairOf(a.head))
    BY <1>1, <1>2, <1>7 DEF OnAlreadySigned
  <2>2. QED
    BY <1>3, <1>4, <1>7, <2>1, WriteFollows DEF u
<1>8. CASE s.st = "Signing" /\ a.kind = "NotNext"
  BY <1>2, <1>3, <1>4, <1>8
<1>9. CASE s.st = "Signing" /\ a.kind \in {"Retry", "HeadUnknown"}
  <2> DEFINE t == [u EXCEPT !.st = "BackingOff"]
  <2>1. /\ t \in Site /\ t.st = "BackingOff" /\ t.sign = u.sign /\ t.ans = u.ans
        /\ t.root = u.root /\ t.record = u.record /\ t.how = u.how /\ t.upd = u.upd
        /\ t.web = u.web
    BY <1>1 DEF SiteOK, Site, Stages
  <2>2. u.sign = NoRecord /\ u.upd = NoRecord /\ u.root \in Bundles
    BY <1>1, <1>9 DEF u, HeardSigner, SiteOK, Site, Publishing
  <2> HIDE DEF t
  <2>3. SiteOK(t)
    BY <1>1, <1>9, <2>1, <2>2, NoRecordIs, NoAnswerIs DEF SiteOK, Publishing
  <2>4. Follows(s, t, answers)
    BY <1>1, <1>3, <2>1, <2>3 DEF Follows
  <2>5. QED
    BY <1>2, <1>9, <2>4 DEF t
<1>10. CASE s.st = "Signing" /\ a.kind \in {"None", "Final"}
  <2>1. OnSigner(s) = End(u, "Refused", 0)
    BY <1>2, <1>10
  <2>2. End(u, "Refused", 0) = End(s, "Refused", 0)
    BY DEF End
  <2>3. QED
    BY <2>1, <2>2, EndFollows
<1>11. QED
  BY <1>3, <1>5, <1>6, <1>7, <1>8, <1>9, <1>10 DEF Label!AnswerKinds

(* What leaves the publication's stage, record and waits on the signer     *)
(* alone, and sends nothing or the written record.                         *)
LEMMA SameFollows ==
  ASSUME NEW s, SiteOK(s), Publishing(s), NEW t \in Site, NEW answers,
         t.st = s.st, t.root = s.root, t.web = s.web, t.record = s.record, t.how = s.how,
         t.sign = s.sign, t.ans = s.ans,
         t.upd = NoRecord \/ t.upd = s.upd \/ (s.st = "Written" /\ t.upd = s.record)
  PROVE  Follows(s, t, answers)
<1>1. s.how = "None"
  BY DEF SiteOK, Site, Publishing, Ends
<1>2. SiteOK(t)
  BY NoRecordIs DEF SiteOK, Publishing
<1>3. QED
  BY <1>1, <1>2 DEF Follows

LEMMA OnUpdatedFollows ==
  ASSUME NEW s, SiteOK(s), Publishing(s), NEW answers
  PROVE  Follows(s, OnUpdated(s), answers)
<1> DEFINE t == OnUpdated(s)
<1>1. /\ t \in Site /\ t.st = s.st /\ t.root = s.root /\ t.web = s.web /\ t.record = s.record
      /\ t.how = s.how /\ t.sign = s.sign /\ t.ans = s.ans /\ t.upd = NoRecord
  BY NoRecordIs DEF OnUpdated, SiteOK, Site
<1> HIDE DEF t
<1>2. QED
  BY <1>1, SameFollows DEF t

LEMMA OnDueFollows ==
  ASSUME NEW s, SiteOK(s), DueNow(s), NEW answers
  PROVE  Follows(s, OnDue(s), answers)
<1>1. Publishing(s)
  BY DEF DueNow, Publishing
<1>2. CASE s.st = "BackingOff"
  BY <1>2, RebaseFollows DEF OnDue, SiteOK, Site
<1>3. CASE s.st # "BackingOff"
  <2> DEFINE t == [s EXCEPT !.reads = TRUE]
  <2>1. /\ t \in Site /\ t.st = s.st /\ t.root = s.root /\ t.web = s.web /\ t.record = s.record
        /\ t.how = s.how /\ t.sign = s.sign /\ t.ans = s.ans /\ t.upd = s.upd
    BY DEF SiteOK, Site
  <2> HIDE DEF t
  <2>2. Follows(s, t, answers)
    BY <1>1, <2>1, SameFollows
  <2>3. QED
    BY <1>3, <2>2 DEF OnDue, t
<1>4. QED
  BY <1>2, <1>3

(* A lost Sign is asked again. *)
LEMMA AskSignFollows ==
  ASSUME NEW s, SiteOK(s), s.sign # NoRecord, NEW answers
  PROVE  Follows(s, AskSign(s), answers)
<1>1. s \in Site /\ s.st = "Signing" /\ s.prev \in Pair
  BY DEF SiteOK, Site
<1>2. [s EXCEPT !.st = "Signing", !.prev = s.prev] = s
  BY <1>1 DEF Site
<1>3. Rebase(s, s.prev) = AskSign(s)
  BY <1>2 DEF Rebase
<1>4. QED
  BY <1>1, <1>3, RebaseFollows

(* A read that is no verdict. *)
LEMMA HeardReadFollows ==
  ASSUME NEW s, SiteOK(s), Publishing(s), NEW answers
  PROVE  /\ Follows(s, [s EXCEPT !.reads = FALSE], answers)
         /\ s.st = "Written" => Follows(s, Stale([s EXCEPT !.reads = FALSE]), answers)
<1> DEFINE u == [s EXCEPT !.reads = FALSE]
           t == Stale(u)
<1>1. /\ u \in Site /\ u.st = s.st /\ u.root = s.root /\ u.web = s.web /\ u.record = s.record
      /\ u.how = s.how /\ u.sign = s.sign /\ u.ans = s.ans /\ u.upd = s.upd
  BY DEF SiteOK, Site
<1> HIDE DEF u
<1>2. Follows(s, u, answers)
  BY <1>1, SameFollows
<1>3. u.stale \in Nat /\ u.stale + 1 \in Nat
  BY <1>1 DEF Site
<1>4. /\ t \in Site /\ t.st = s.st /\ t.root = s.root /\ t.web = s.web /\ t.record = s.record
      /\ t.how = s.how /\ t.sign = s.sign /\ t.ans = s.ans /\ (t.upd = s.record \/ t.upd = s.upd)
  <2>1. CASE u.stale + 1 >= HeadReads
    <3>1. t = [u EXCEPT !.stale = 0, !.upd = u.record]
      BY <2>1 DEF Stale
    <3> HIDE DEF t
    <3>2. u.record \in Record /\ 0 \in Nat
      BY <1>1 DEF Site
    <3>3. QED
      BY <1>1, <3>1, <3>2 DEF Site
  <2>2. CASE ~(u.stale + 1 >= HeadReads)
    <3>1. t = [u EXCEPT !.stale = u.stale + 1]
      BY <2>2 DEF Stale
    <3>2. QED
      BY <1>1, <1>3, <3>1 DEF Site
  <2>3. QED
    BY <2>1, <2>2
<1> HIDE DEF t
<1>5. s.st = "Written" => Follows(s, t, answers)
  BY <1>4, SameFollows
<1>6. QED
  BY <1>2, <1>5 DEF t, u

LEMMA OnReadFollows ==
  ASSUME NEW s, SiteOK(s), Publishing(s), NEW h \in Sound
  PROVE  Follows(s, OnRead(s, h), {h})
<1> DEFINE u == [s EXCEPT !.reads = FALSE]
           t == OnRead(s, h)
<1>1. /\ Follows(s, u, {h}) /\ (s.st = "Written" => Follows(s, Stale(u), {h}))
      /\ u.st = s.st /\ u.root = s.root /\ u.how = s.how /\ u.ans = s.ans
  BY HeardReadFollows DEF SiteOK, Site
<1>2. /\ h \in Record /\ h.seq \in Nat /\ PairOf(h) \in Pair
      /\ s.st \in Stages /\ s.record \in Record /\ s.record.seq \in Nat /\ s.how = "None"
  BY PairOfIs DEF Sound, Record, SiteOK, Site, Publishing, Ends
<1> HIDE DEF u
<1>3. CASE s.st = "Reading" /\ HoldsOwn(s, h)
  <2>1. t = End(s, "Published", h.seq)
    BY <1>3 DEF OnRead
  <2>2. /\ SiteOK(t) /\ t.st = "Ended" /\ t.how = "Published" /\ t.version = h.seq
    BY <1>2, <2>1, EndOK DEF Ends
  <2>3. t.ans = Label!NoAnswer
    BY <2>2 DEF SiteOK, Publishing
  <2>4. QED
    BY <1>3, <2>2, <2>3 DEF Follows, Publishing, HoldsOwn
<1>4. CASE s.st = "Reading" /\ ~HoldsOwn(s, h)
  <2>1. t = Rebase(u, PairOf(h))
    BY <1>4 DEF OnRead, u
  <2>2. SiteOK(u)
    BY <1>1 DEF Follows
  <2>3. Follows(u, t, {h})
    BY <1>1, <1>2, <1>4, <2>1, <2>2, RebaseFollows
  <2>4. t.st = "Signing" /\ t.how = s.how
    BY <1>1, <1>2, <1>4, <2>1, <2>2, RebaseOK
  <2>5. QED
    BY <1>1, <1>2, <2>3, <2>4 DEF Follows
<1>5. CASE s.st = "Written" /\ JudgeSite(s, h) = "Mine"
  <2>1. t = End(s, "Published", s.record.seq)
    BY <1>5 DEF OnRead
  <2>2. /\ SiteOK(t) /\ t.st = "Ended" /\ t.how = "Published" /\ t.version = s.record.seq
    BY <1>2, <2>1, EndOK DEF Ends
  <2>3. t.ans = Label!NoAnswer
    BY <2>2 DEF SiteOK, Publishing
  <2>4. PairOf(h) = PairOf(s.record)
    BY <1>5 DEF JudgeSite
  <2>5. h.seq = s.record.seq /\ h.root = s.record.root
    BY <1>2, <2>4 DEF PairOf, Label!PairOf
  <2>6. s.record # NoRecord /\ s.record.root = s.root /\ s.record \in Sound
    BY <1>5 DEF SiteOK
  <2>7. s.record.seq > 0
    BY <2>6 DEF Sound
  <2>8. h # NoRecord
    BY <1>2, <2>5, <2>7, NoRecordIs
  <2>9. QED
    BY <2>2, <2>3, <2>5, <2>6, <2>8 DEF Follows, Publishing
<1>6. CASE s.st = "Written" /\ JudgeSite(s, h) = "Superseded"
  <2>1. t = End(s, "Superseded", h.seq)
    BY <1>6 DEF OnRead
  <2>2. /\ SiteOK(t) /\ t.st = "Ended" /\ t.how = "Superseded" /\ t.version = h.seq
    BY <1>2, <2>1, EndOK DEF Ends
  <2>3. t.ans = Label!NoAnswer
    BY <2>2 DEF SiteOK, Publishing
  <2>4. QED
    BY <1>6, <2>2, <2>3 DEF Follows, Publishing
<1>7. CASE s.st = "Written" /\ JudgeSite(s, h) = "NotYet"
  <2>1. t = Stale(u)
    BY <1>7 DEF OnRead, u
  <2>2. QED
    BY <1>1, <1>7, <2>1
<1>8. CASE s.st \notin {"Reading", "Written"}
  <2>1. t = u
    BY <1>8 DEF OnRead, u
  <2>2. QED
    BY <1>1, <2>1
<1>9. JudgeSite(s, h) \in {"Mine", "Superseded", "NotYet"}
  BY DEF JudgeSite
<1>10. QED
  BY <1>3, <1>4, <1>5, <1>6, <1>7, <1>8, <1>9

LEMMA OnPublishOK ==
  ASSUME NEW s, NEW bundle \in Bundles
  PROVE  /\ SiteOK(OnPublish(s, bundle)) /\ OnPublish(s, bundle).st = "Reading"
         /\ OnPublish(s, bundle).root = bundle
<1> DEFINE t == OnPublish(s, bundle)
<1>1. /\ t \in Site /\ t.st = "Reading" /\ t.how = "None" /\ t.root = bundle /\ t.web = bundle
      /\ t.record = NoRecord /\ t.sign = NoRecord /\ t.ans = Label!NoAnswer /\ t.upd = NoRecord
  BY NoRecordIs, NoAnswerIs DEF OnPublish, InitSite, Site, Stages, Ends, Ans
<1> HIDE DEF t
<1>2. QED
  BY <1>1, NoRecordIs, NoAnswerIs DEF SiteOK, Publishing, t

----------------------------------------------------------------------------
(* The signer and the nodes.                                               *)

(* What the one rule answers, and that it signs only past its record.      *)
LEMMA DecideIs ==
  ASSUME NEW record \in Sound, NEW read \in Sound, NEW next \in Sound
  PROVE  LET a == Label!Decide(record, read, next) IN
         /\ a \in Ans
         /\ a.kind = "Signed" => a.head = next /\ record.seq < next.seq
         /\ a.kind = "AlreadySigned" => a.head = record /\ record # NoRecord
         /\ a.kind \notin {"Signed", "AlreadySigned"} => a.head = NoRecord
<1> DEFINE a == Label!Decide(record, read, next)
           truth == Label!Truth(record, read)
<1>1. /\ record \in Record /\ read \in Record /\ next \in Record
      /\ record.seq \in Nat /\ read.seq \in Nat /\ next.seq \in Nat /\ next.prev.seq \in Nat
      /\ record = NoRecord => record.seq = 0
  BY NoRecordIs DEF Sound, Record, Pair
<1>2. truth \in Pair /\ truth.seq \in Nat /\ record.seq <= truth.seq
  <2>1. CASE record # NoRecord /\ read.seq < record.seq
    <3>1. truth = PairOf(record)
      BY <2>1 DEF Label!Truth, NoRecord, PairOf
    <3>2. QED
      BY <1>1, <3>1, PairOfIs
  <2>2. CASE ~(record # NoRecord /\ read.seq < record.seq)
    <3>1. truth = PairOf(read)
      BY <2>2 DEF Label!Truth, NoRecord, PairOf
    <3>2. QED
      BY <1>1, <2>2, <3>1, PairOfIs
  <2>3. QED
    BY <2>1, <2>2
<1> HIDE DEF truth
<1>3. \A why \in Label!AnswerKinds :
        /\ Label!Refused(why) \in Ans /\ Label!Refused(why).kind = why
        /\ Label!Refused(why).head = NoRecord
  BY NoAnswerIs DEF Label!Refused, Ans
<1>4. /\ Label!Signed(next) \in Ans /\ Label!Signed(next).kind = "Signed"
      /\ Label!Signed(next).head = next
      /\ Label!AlreadySigned(record) \in Ans /\ Label!AlreadySigned(record).kind = "AlreadySigned"
      /\ Label!AlreadySigned(record).head = record
  BY <1>1, NoAnswerIs DEF Label!Signed, Label!AlreadySigned, Label!AnswerKinds, Ans
<1>5. /\ Label!NotNext(truth) \in Ans /\ Label!NotNext(truth).kind = "NotNext"
      /\ Label!NotNext(truth).head = NoRecord
  BY <1>2, NoAnswerIs DEF Label!NotNext, Label!AnswerKinds, Ans
<1>6. \/ a = Label!Refused("Final")
      \/ a = Label!AlreadySigned(record) /\ record # NoRecord
      \/ a = Label!NotNext(truth)
      \/ a = Label!Refused("HeadUnknown")
      \/ /\ a = Label!Signed(next) /\ next.seq = next.prev.seq + 1
         /\ ~(truth.seq > 0 /\ truth # next.prev)
  BY DEF Label!Decide, truth, NoRecord
<1> HIDE DEF a
<1>7. next.seq = next.prev.seq + 1 /\ ~(truth.seq > 0 /\ truth # next.prev) => record.seq < next.seq
  BY <1>1, <1>2
<1>8. /\ a \in Ans
      /\ a.kind = "Signed" => a.head = next /\ record.seq < next.seq
      /\ a.kind = "AlreadySigned" => a.head = record /\ record # NoRecord
      /\ a.kind \notin {"Signed", "AlreadySigned"} => a.head = NoRecord
  BY <1>3, <1>4, <1>5, <1>6, <1>7 DEF Label!AnswerKinds
<1>9. QED
  BY <1>8 DEF a

(* A merge keeps one of the two copies. *)
LEMMA MergeIs ==
  ASSUME NEW old, NEW new
  PROVE  Label!Merge(old, new) = IF Label!Displaces(new, old) THEN new ELSE old
BY DEF Label!Merge

----------------------------------------------------------------------------
(* The types, and that every record known anywhere is sound: the invariant *)
(* the others are relative to.                                             *)
SiteInv ==
  /\ TypeOK
  /\ want \in [Pages -> Bundles \cup {NoBundle}] /\ wrote \in [Pages -> Record]
  /\ since \in [Pages -> SUBSET Record]
  /\ \A p \in Pages : SiteOK(page[p])
  /\ \A n \in Nodes : /\ rec[n] \in Sound /\ reg[n] \in held
                      /\ asked[n] \subseteq Sound /\ sent[n] \subseteq Sound
  /\ held \subseteq Sound /\ NoRecord \in held

LEMMA ServedIs ==
  ASSUME SiteInv, NEW n \in Nodes, NEW h \in Sound, NEW outcome \in {"Signed", "Retry", "Final"}
  PROVE  LET a == Served(n, h, outcome) IN
         /\ a \in Ans
         /\ a.kind = "Signed" => a.head = h /\ rec[n].seq < h.seq
         /\ a.kind = "AlreadySigned" => a.head = rec[n] /\ rec[n] # NoRecord
         /\ a.kind \notin {"Signed", "AlreadySigned"} => a.head = NoRecord
<1> DEFINE d == Label!Decide(rec[n], reg[n], h)
           a == Served(n, h, outcome)
<1>1. rec[n] \in Sound /\ reg[n] \in Sound
  BY DEF SiteInv
<1>2. /\ d \in Ans
      /\ d.kind = "Signed" => d.head = h /\ rec[n].seq < h.seq
      /\ d.kind = "AlreadySigned" => d.head = rec[n] /\ rec[n] # NoRecord
      /\ d.kind \notin {"Signed", "AlreadySigned"} => d.head = NoRecord
  BY <1>1, DecideIs
<1>3. \A why \in {"Retry", "Final"} :
        /\ Label!Refused(why) \in Ans /\ Label!Refused(why).kind = why
        /\ Label!Refused(why).head = NoRecord
  BY NoAnswerIs DEF Label!Refused, Ans, Label!AnswerKinds
<1>4. a = d \/ \E why \in {"Retry", "Final"} : a = Label!Refused(why)
  BY DEF Served
<1> HIDE DEF a, d
<1>5. /\ a \in Ans
      /\ a.kind = "Signed" => a.head = h /\ rec[n].seq < h.seq
      /\ a.kind = "AlreadySigned" => a.head = rec[n] /\ rec[n] # NoRecord
      /\ a.kind \notin {"Signed", "AlreadySigned"} => a.head = NoRecord
  BY <1>2, <1>3, <1>4
<1>6. QED
  BY <1>5 DEF a

LEMMA FollowsMore ==
  ASSUME NEW s, NEW t, NEW A, NEW B, A \subseteq B, Follows(s, t, A)
  PROVE  Follows(s, t, B)
BY DEF Follows

(* A publication in flight moves. *)
Moves(p) ==
  /\ Publishing(page[p])
  /\ \E t : Follows(page[p], t, Answers(p)) /\ PageStep(p, t)

(* The signer of n answers the request h, for a page or for nobody. *)
Answered(n, h, a) ==
  /\ a \in Ans
  /\ a.kind = "Signed" => a.head = h /\ rec[n].seq < h.seq
  /\ a.kind = "AlreadySigned" => a.head = rec[n] /\ rec[n] # NoRecord
  /\ a.kind \notin {"Signed", "AlreadySigned"} => a.head = NoRecord
  /\ Serve(n, a)

AnswersPage(p) ==
  /\ page[p].sign # NoRecord
  /\ \E a : /\ Answered(NodeOf[p], page[p].sign, a)
            /\ page' = [page EXCEPT ![p].ans = a]
  /\ UNCHANGED <<left, want, wrote, reg, asked, sent, held, since>>

AnswersNobody(n) ==
  /\ \E h \in asked[n] : \E a : Answered(n, h, a)
  /\ UNCHANGED <<page, left, want, wrote, reg, asked, sent, held, since>>

(* A copy is replaced by one that displaces it. *)
Copies(n) ==
  \E h : /\ h \in sent[n] \/ \E m \in Nodes : h = reg[m]
         /\ Label!Displaces(h, reg[n]) /\ Apply(n, h)

LEMMA AnswersSound ==
  ASSUME SiteInv, NEW p \in Pages
  PROVE  NodeOf[p] \in Nodes /\ reg[NodeOf[p]] \in held /\ Answers(p) \subseteq held
         /\ held \subseteq Sound
BY SiteAssumption DEF SiteInv, Answers

LEMMA PageMoves ==
  ASSUME SiteInv, NEW p \in Pages,
         \/ Cancel(p) \/ NodeRefuses(p) \/ HearSigner(p) \/ SignLost(p) \/ HearUpdated(p)
         \/ Due(p) \/ \E h \in Answers(p) : HearRead(p, h)
  PROVE  Moves(p)
<1> DEFINE s == page[p]
<1>1. SiteOK(s)
  BY DEF SiteInv
<1>2. Answers(p) \subseteq Sound
  BY AnswersSound
<1>3. CASE Cancel(p)
  <2>1. Publishing(s) /\ PageStep(p, End(s, "Cancelled", 0))
    BY <1>3 DEF Cancel, OnCancel
  <2>2. QED
    BY <2>1, EndFollows DEF Moves
<1>4. CASE NodeRefuses(p)
  <2>1. Publishing(s)
    BY <1>1, <1>4 DEF NodeRefuses, SiteOK
  <2>2. PageStep(p, End(s, "Refused", 0))
    BY <1>4, <2>1 DEF NodeRefuses, OnRefused
  <2>3. QED
    BY <2>1, <2>2, EndFollows DEF Moves
<1>5. CASE HearSigner(p)
  <2>1. Publishing(s)
    BY <1>1, <1>5 DEF HearSigner, SiteOK
  <2>2. QED
    BY <1>1, <1>5, <2>1, OnSignerFollows DEF Moves, HearSigner
<1>6. CASE SignLost(p)
  <2>1. Publishing(s)
    BY <1>1, <1>6 DEF SignLost, SiteOK
  <2>2. QED
    BY <1>1, <1>6, <2>1, AskSignFollows DEF Moves, SignLost
<1>7. CASE HearUpdated(p)
  <2>1. Publishing(s)
    BY <1>1, <1>7 DEF HearUpdated, SiteOK
  <2>2. QED
    BY <1>1, <1>7, <2>1, OnUpdatedFollows DEF Moves, HearUpdated
<1>8. CASE Due(p)
  <2>1. Publishing(s)
    BY <1>8 DEF Due, DueNow, Publishing
  <2>2. QED
    BY <1>1, <1>8, <2>1, OnDueFollows DEF Moves, Due
<1>9. ASSUME NEW h \in Answers(p), HearRead(p, h)
      PROVE  Moves(p)
  <2>1. Publishing(s)
    BY <1>1, <1>9 DEF HearRead, SiteOK
  <2>2. Follows(s, OnRead(s, h), {h})
    BY <1>1, <1>2, <2>1, OnReadFollows
  <2>3. Follows(s, OnRead(s, h), Answers(p))
    BY <2>2, FollowsMore
  <2>4. QED
    BY <1>9, <2>1, <2>3 DEF Moves, HearRead
<1>10. QED
  BY <1>3, <1>4, <1>5, <1>6, <1>7, <1>8, <1>9

(* Every step of the system is one of these. *)
LEMMA Steps ==
  ASSUME SiteInv, [Next]_vars
  PROVE  \/ \E p \in Pages : Moves(p) \/ Publish(p) \/ Reload(p) \/ AnswersPage(p)
         \/ \E n \in Nodes : AnswersNobody(n) \/ Copies(n)
         \/ UNCHANGED vars
<1>1. ASSUME NEW p \in Pages, SignerAnswers(p)
      PROVE  AnswersPage(p)
  <2>1. PICK outcome \in SignOutcomes :
          /\ Serve(NodeOf[p], Served(NodeOf[p], page[p].sign, outcome))
          /\ page' = [page EXCEPT ![p].ans = Served(NodeOf[p], page[p].sign, outcome)]
    BY <1>1 DEF SignerAnswers
  <2>2. NodeOf[p] \in Nodes /\ page[p].sign \in Sound /\ outcome \in {"Signed", "Retry", "Final"}
    BY SiteAssumption DEF SiteInv, SiteOK
  <2>3. Answered(NodeOf[p], page[p].sign, Served(NodeOf[p], page[p].sign, outcome))
    BY <2>1, <2>2, ServedIs DEF Answered
  <2>4. QED
    BY <1>1, <2>1, <2>3 DEF SignerAnswers, AnswersPage
<1>2. ASSUME NEW n \in Nodes, SignerServesStale(n)
      PROVE  AnswersNobody(n)
  <2>1. PICK h \in asked[n] : Serve(n, Served(n, h, "Signed"))
    BY <1>2 DEF SignerServesStale
  <2>2. Answered(n, h, Served(n, h, "Signed"))
    BY <2>1, ServedIs DEF Answered, SiteInv
  <2>3. QED
    BY <1>2, <2>2 DEF SignerServesStale, AnswersNobody
<1>3. ASSUME NEW n \in Nodes, UpdateApplies(n)
      PROVE  Copies(n)
  BY <1>3 DEF UpdateApplies, Copies
<1>4. ASSUME NEW n \in Nodes, NEW m \in Nodes, Sync(n, m)
      PROVE  Copies(n)
  BY <1>4 DEF Sync, Copies
<1>5. QED
  BY <1>1, <1>2, <1>3, <1>4, PageMoves DEF Next

(* What the pages and the wires hold after a publication moved. *)
LEMMA MovedTo ==
  ASSUME SiteInv, NEW p \in Pages, NEW t, Follows(page[p], t, Answers(p)), PageStep(p, t)
  PROVE  /\ \A q \in Pages : page'[q] = IF q = p THEN t ELSE page[q]
         /\ page' \in [Pages -> Site]
         /\ \A n \in Nodes : /\ asked'[n] \subseteq asked[n] \cup {t.sign}
                             /\ sent'[n] \subseteq sent[n] \cup ({t.upd} \ {NoRecord})
         /\ asked' \in [Nodes -> SUBSET Record] /\ sent' \in [Nodes -> SUBSET Record]
         /\ \A q \in Pages :
              wrote'[q] = IF q = p /\ t.upd # NoRecord THEN t.upd ELSE wrote[q]
         /\ wrote' \in [Pages -> Record]
         /\ UNCHANGED <<left, want, rec, reg, held, since>>
<1>1. t \in Site /\ t.sign \in Record /\ t.upd \in Record
  BY DEF Follows, SiteOK, Site
<1>2. /\ page \in [Pages -> Site] /\ asked \in [Nodes -> SUBSET Record]
      /\ sent \in [Nodes -> SUBSET Record] /\ wrote \in [Pages -> Record] /\ NodeOf[p] \in Nodes
  BY SiteAssumption DEF SiteInv, TypeOK
<1>3. /\ page' = [page EXCEPT ![p] = t]
      /\ asked' = [asked EXCEPT ![NodeOf[p]] = asked[NodeOf[p]] \cup ({t.sign} \ {NoRecord})]
      /\ sent' = [sent EXCEPT ![NodeOf[p]] = sent[NodeOf[p]] \cup ({t.upd} \ {NoRecord})]
      /\ wrote' = IF t.upd = NoRecord THEN wrote ELSE [wrote EXCEPT ![p] = t.upd]
      /\ UNCHANGED <<left, want, rec, reg, held, since>>
  BY DEF PageStep, Step, node
<1>4. QED
  BY <1>1, <1>2, <1>3

LEMMA SiteInvStep == SiteInv /\ [Next]_vars => SiteInv'
<1> SUFFICES ASSUME SiteInv, [Next]_vars
             PROVE  SiteInv'
  OBVIOUS
<1> USE DEF SiteInv, TypeOK
<1>1. ASSUME NEW p \in Pages, Moves(p)
      PROVE  SiteInv'
  <2>1. PICK t : Follows(page[p], t, Answers(p)) /\ PageStep(p, t)
    BY <1>1 DEF Moves
  <2>2. SiteOK(t) /\ t.sign \in Sound /\ t.upd \in Sound
    BY <2>1 DEF Follows, SiteOK
  <2>3. /\ \A q \in Pages : page'[q] = IF q = p THEN t ELSE page[q]
        /\ page' \in [Pages -> Site]
        /\ \A n \in Nodes : /\ asked'[n] \subseteq asked[n] \cup {t.sign}
                            /\ sent'[n] \subseteq sent[n] \cup ({t.upd} \ {NoRecord})
        /\ asked' \in [Nodes -> SUBSET Record] /\ sent' \in [Nodes -> SUBSET Record]
        /\ wrote' \in [Pages -> Record]
        /\ UNCHANGED <<want, rec, reg, held, since>>
    BY <2>1, MovedTo
  <2>4. QED
    BY <2>2, <2>3
<1>2. ASSUME NEW p \in Pages, Publish(p)
      PROVE  SiteInv'
  <2>1. PICK b \in Bundles : page' = [page EXCEPT ![p] = OnPublish(page[p], b)]
                            /\ want' = [want EXCEPT ![p] = b]
    BY <1>2 DEF Publish
  <2>2. SiteOK(OnPublish(page[p], b)) /\ OnPublish(page[p], b) \in Site
    BY OnPublishOK DEF SiteOK
  <2>3. page' \in [Pages -> Site] /\ \A q \in Pages : SiteOK(page'[q])
    BY <2>1, <2>2
  <2>4. /\ wrote' = [wrote EXCEPT ![p] = NoRecord] /\ since' = [since EXCEPT ![p] = {reg[NodeOf[p]]}]
        /\ UNCHANGED <<rec, reg, asked, sent, held>>
    BY <1>2 DEF Publish
  <2>5. NodeOf[p] \in Nodes /\ NoRecord \in Record
    BY SiteAssumption, NoRecordIs
  <2>6. wrote' \in [Pages -> Record] /\ since' \in [Pages -> SUBSET Record]
        /\ want' \in [Pages -> Bundles \cup {NoBundle}]
    BY <2>1, <2>4, <2>5
  <2>7. QED
    BY <2>3, <2>4, <2>6
<1>3. ASSUME NEW p \in Pages, Reload(p)
      PROVE  SiteInv'
  <2>1. page' = [page EXCEPT ![p] = InitSite] /\ UNCHANGED <<want, wrote, rec, reg, asked, sent, held, since>>
    BY <1>3 DEF Reload, world
  <2>2. SiteOK(InitSite) /\ InitSite \in Site
    BY InitSiteOK, InitSiteIs
  <2>3. page' \in [Pages -> Site] /\ \A q \in Pages : SiteOK(page'[q])
    BY <2>1, <2>2
  <2>4. QED
    BY <2>1, <2>3
<1>4. ASSUME NEW n \in Nodes, NEW h \in Sound, NEW a, Answered(n, h, a)
      PROVE  /\ a \in Ans /\ a.head \in Sound
             /\ rec' \in [Nodes -> Record] /\ \A m \in Nodes : rec'[m] \in Sound
  <2>1. a \in Ans /\ a.head \in Sound
    BY <1>4, NoRecordIs DEF Answered
  <2>2. rec' = IF a.kind = "Signed" THEN [rec EXCEPT ![n] = a.head] ELSE rec
    BY <1>4 DEF Answered, Serve
  <2>3. QED
    BY <2>1, <2>2 DEF Sound
<1>5. ASSUME NEW p \in Pages, AnswersPage(p)
      PROVE  SiteInv'
  <2>1. PICK a : Answered(NodeOf[p], page[p].sign, a) /\ page' = [page EXCEPT ![p].ans = a]
    BY <1>5 DEF AnswersPage
  <2>2. /\ NodeOf[p] \in Nodes /\ page[p].sign \in Sound /\ page[p].sign # NoRecord
        /\ page[p].st = "Signing" /\ page[p].sign.root = page[p].root
    BY <1>5, SiteAssumption DEF AnswersPage, SiteOK
  <2>3. /\ a \in Ans /\ a.head \in Sound
        /\ rec' \in [Nodes -> Record] /\ \A m \in Nodes : rec'[m] \in Sound
    BY <1>4, <2>1, <2>2
  <2>4. /\ a.kind = "Signed" => a.head = page[p].sign
        /\ a.kind = "AlreadySigned" => a.head # NoRecord
    BY <2>1 DEF Answered
  <2> DEFINE t == [page[p] EXCEPT !.ans = a]
  <2>5. SiteOK(page[p]) /\ page[p] \in Site
    OBVIOUS
  <2>6. /\ t \in Site /\ t.st = page[p].st /\ t.root = page[p].root /\ t.web = page[p].web
        /\ t.record = page[p].record /\ t.how = page[p].how /\ t.sign = page[p].sign
        /\ t.upd = page[p].upd /\ t.ans = a
    BY <2>3, <2>5 DEF Site, Ans
  <2>7. page' = [page EXCEPT ![p] = t]
    BY <2>1
  <2> HIDE DEF t
  <2>8. SiteOK(t)
    BY <2>2, <2>3, <2>4, <2>5, <2>6 DEF SiteOK, Publishing
  <2>9. page' \in [Pages -> Site] /\ \A q \in Pages : SiteOK(page'[q])
    BY <2>6, <2>7, <2>8
  <2>10. UNCHANGED <<want, wrote, reg, asked, sent, held, since>>
    BY <1>5 DEF AnswersPage
  <2>11. QED
    BY <2>3, <2>9, <2>10
<1>6. ASSUME NEW n \in Nodes, AnswersNobody(n)
      PROVE  SiteInv'
  <2>0. PICK h \in asked[n] : \E a : Answered(n, h, a)
    BY <1>6 DEF AnswersNobody
  <2>1. PICK a : Answered(n, h, a)
    BY <2>0
  <2>2. rec' \in [Nodes -> Record] /\ \A m \in Nodes : rec'[m] \in Sound
    BY <1>4, <2>1
  <2>3. UNCHANGED <<page, want, wrote, reg, asked, sent, held, since>>
    BY <1>6 DEF AnswersNobody
  <2>4. QED
    BY <2>2, <2>3
<1>7. ASSUME NEW n \in Nodes, Copies(n)
      PROVE  SiteInv'
  <2>1. PICK h \in Sound : Label!Displaces(h, reg[n]) /\ Apply(n, h)
    BY <1>7 DEF Copies
  <2>2. h \in Record /\ Label!Merge(reg[n], h) = h
    BY <2>1, MergeIs DEF Sound
  <2>3. /\ reg' = [reg EXCEPT ![n] = h] /\ held' = held \cup {h}
        /\ since' = [q \in Pages |-> IF NodeOf[q] = n THEN since[q] \cup {h} ELSE since[q]]
        /\ UNCHANGED <<page, want, wrote, rec, asked, sent>>
    BY <2>1, <2>2 DEF Apply
  <2>4. since' \in [Pages -> SUBSET Record]
    BY <2>2, <2>3
  <2>5. QED
    BY <2>2, <2>3, <2>4
<1>8. CASE UNCHANGED vars
  BY <1>8 DEF vars
<1>9. QED
  BY <1>1, <1>2, <1>3, <1>5, <1>6, <1>7, <1>8, Steps

LEMMA SiteInvInit == Init => SiteInv
<1> SUFFICES ASSUME Init PROVE SiteInv
  OBVIOUS
<1>1. page \in [Pages -> Site] /\ \A p \in Pages : SiteOK(page[p])
  BY InitSiteOK, InitSiteIs DEF Init
<1>2. /\ rec \in [Nodes -> Record] /\ reg \in [Nodes -> Record]
      /\ \A n \in Nodes : rec[n] \in Sound /\ reg[n] \in held
      /\ held \subseteq Sound /\ held \subseteq Record /\ NoRecord \in held
  BY NoRecordIs DEF Init
<1>3. /\ asked \in [Nodes -> SUBSET Record] /\ sent \in [Nodes -> SUBSET Record]
      /\ \A n \in Nodes : asked[n] \subseteq Sound /\ sent[n] \subseteq Sound
  BY DEF Init
<1>4. /\ want \in [Pages -> Bundles \cup {NoBundle}] /\ wrote \in [Pages -> Record]
      /\ since \in [Pages -> SUBSET Record]
  BY NoRecordIs DEF Init
<1>5. QED
  BY <1>1, <1>2, <1>3, <1>4 DEF SiteInv, TypeOK

(* Types, of the whole system. *)
THEOREM TypeCorrect == Spec => []TypeOK
<1>1. SiteInv => TypeOK
  BY DEF SiteInv
<1>2. QED
  BY <1>1, SiteInvInit, SiteInvStep, PTL DEF Spec

(* No publication ever puts one bundle's signature on another's bytes.     *)
THEOREM OwnBundleCorrect == Spec => []OwnBundle
<1>1. SiteInv => OwnBundle
  BY DEF SiteInv, SiteOK, OwnBundle
<1>2. QED
  BY <1>1, SiteInvInit, SiteInvStep, PTL DEF Spec

----------------------------------------------------------------------------
(* What the ghosts say of a publication: it is of the bundle last asked    *)
(* for, its record is the one it wrote, and its node's copy is among those *)
(* held since.  An end Published is of a record that was held, and, of a   *)
(* page whose reads are fresh, held since it was asked.                    *)
History(p) ==
  /\ Publishing(page[p]) => want[p] = page[p].root /\ reg[NodeOf[p]] \in since[p]
  /\ page[p].st = "Written" => wrote[p] = page[p].record
  /\ page[p].how = "Published" =>
       \E h \in IF p \in Sleepy THEN held ELSE since[p] :
         h # NoRecord /\ h.seq = page[p].version /\ h.root = want[p]

HistoryInv ==
  /\ \A p \in Pages : since[p] \subseteq held
  /\ \A p \in Pages : History(p)

LEMMA SinceGrows ==
  ASSUME NEW p \in Pages, History(p), UNCHANGED <<page, want, wrote>>,
         since[p] \subseteq since'[p], held \subseteq held',
         reg'[NodeOf[p]] = reg[NodeOf[p]] \/ reg'[NodeOf[p]] \in since'[p]
  PROVE  History(p)'
BY DEF History

LEMMA HistoryInvStep == SiteInv /\ HistoryInv /\ [Next]_vars => HistoryInv'
<1> SUFFICES ASSUME SiteInv, HistoryInv, [Next]_vars
             PROVE  HistoryInv'
  OBVIOUS
<1>1. ASSUME NEW p \in Pages, Moves(p)
      PROVE  HistoryInv'
  <2>1. PICK t : Follows(page[p], t, Answers(p)) /\ PageStep(p, t)
    BY <1>1 DEF Moves
  <2>2. /\ \A q \in Pages : page'[q] = IF q = p THEN t ELSE page[q]
        /\ \A q \in Pages :
             wrote'[q] = IF q = p /\ t.upd # NoRecord THEN t.upd ELSE wrote[q]
        /\ UNCHANGED <<want, rec, reg, held, since>>
    BY <2>1, MovedTo
  <2>3. Publishing(page[p])
    BY <1>1 DEF Moves
  <2>4. want[p] = page[p].root /\ reg[NodeOf[p]] \in since[p]
    BY <2>3 DEF HistoryInv, History
  <2>5. t.st = "Written" => wrote'[p] = t.record
    <3>1. CASE t.upd # NoRecord
      BY <2>1, <2>2, <3>1 DEF Follows, SiteOK
    <3>2. CASE t.upd = NoRecord /\ t.st = "Written"
      <4>1. t.record # NoRecord
        BY <2>1, <3>2 DEF Follows, SiteOK
      <4>2. page[p].st = "Written" /\ t.record = page[p].record
        BY <2>1, <3>2, <4>1 DEF Follows
      <4>3. QED
        BY <2>2, <3>2, <4>2 DEF HistoryInv, History
    <3>3. QED
      BY <3>1, <3>2
  <2>6. t.how = "Published" =>
          \E h \in IF p \in Sleepy THEN held ELSE since[p] :
            h # NoRecord /\ h.seq = t.version /\ h.root = want[p]
    BY <2>1, <2>4 DEF Follows, Answers
  <2>7. Publishing(t) => want[p] = t.root
    BY <2>1, <2>4 DEF Follows
  <2>8. ASSUME NEW q \in Pages
        PROVE  History(q)'
    <3>1. CASE q = p
      BY <2>2, <2>4, <2>5, <2>6, <2>7, <3>1 DEF History
    <3>2. CASE q # p
      BY <2>2, <3>2 DEF HistoryInv, History
    <3>3. QED
      BY <3>1, <3>2
  <2>9. QED
    BY <2>2, <2>8 DEF HistoryInv
<1>2. ASSUME NEW p \in Pages, Publish(p)
      PROVE  HistoryInv'
  <2>1. PICK b \in Bundles : page' = [page EXCEPT ![p] = OnPublish(page[p], b)]
                            /\ want' = [want EXCEPT ![p] = b]
    BY <1>2 DEF Publish
  <2>2. /\ OnPublish(page[p], b).st = "Reading" /\ OnPublish(page[p], b).root = b
        /\ OnPublish(page[p], b).how = "None"
    BY OnPublishOK DEF SiteOK, Site, Ends
  <2>3. /\ wrote' = [wrote EXCEPT ![p] = NoRecord] /\ since' = [since EXCEPT ![p] = {reg[NodeOf[p]]}]
        /\ UNCHANGED <<rec, reg, asked, sent, held>>
    BY <1>2 DEF Publish
  <2>4. \A q \in Pages : since'[q] \subseteq held'
    BY <2>3, AnswersSound DEF HistoryInv, SiteInv
  <2>5. ASSUME NEW q \in Pages
        PROVE  History(q)'
    <3>1. CASE q = p
      <4>1. /\ page'[p] = OnPublish(page[p], b) /\ want'[p] = b /\ since'[p] = {reg[NodeOf[p]]}
        BY <2>1, <2>3 DEF SiteInv, TypeOK
      <4>2. QED
        BY <2>2, <2>3, <3>1, <4>1 DEF History
    <3>2. CASE q # p
      <4>1. /\ page'[q] = page[q] /\ want'[q] = want[q] /\ since'[q] = since[q]
            /\ wrote'[q] = wrote[q] /\ reg' = reg /\ held' = held
        BY <2>1, <2>3, <3>2 DEF SiteInv, TypeOK
      <4>2. QED
        BY <4>1 DEF HistoryInv, History
    <3>3. QED
      BY <3>1, <3>2
  <2>6. QED
    BY <2>4, <2>5 DEF HistoryInv
<1>3. ASSUME NEW p \in Pages, Reload(p)
      PROVE  HistoryInv'
  <2>1. page' = [page EXCEPT ![p] = InitSite] /\ UNCHANGED <<want, wrote, reg, held, since>>
    BY <1>3 DEF Reload, world
  <2>2. \A q \in Pages : page'[q] = IF q = p THEN InitSite ELSE page[q]
    BY <2>1 DEF SiteInv, TypeOK
  <2>3. ~Publishing(InitSite) /\ InitSite.st # "Written" /\ InitSite.how # "Published"
    BY InitSiteIs DEF Publishing
  <2>4. QED
    BY <2>1, <2>2, <2>3 DEF HistoryInv, History
<1>4. ASSUME NEW p \in Pages, AnswersPage(p)
      PROVE  HistoryInv'
  <2>1. PICK a : page' = [page EXCEPT ![p].ans = a]
    BY <1>4 DEF AnswersPage
  <2>2. UNCHANGED <<want, wrote, reg, held, since>>
    BY <1>4 DEF AnswersPage
  <2>3. \A q \in Pages : /\ page'[q].st = page[q].st /\ page'[q].root = page[q].root
                         /\ page'[q].record = page[q].record /\ page'[q].how = page[q].how
                         /\ page'[q].version = page[q].version
    BY <2>1 DEF SiteInv, TypeOK, Site
  <2>4. QED
    BY <2>2, <2>3 DEF HistoryInv, History, Publishing
<1>5. ASSUME NEW n \in Nodes, AnswersNobody(n)
      PROVE  HistoryInv'
  BY <1>5 DEF AnswersNobody, HistoryInv, History
<1>6. ASSUME NEW n \in Nodes, Copies(n)
      PROVE  HistoryInv'
  <2>1. PICK h : Label!Displaces(h, reg[n]) /\ Apply(n, h)
    BY <1>6 DEF Copies
  <2>2. /\ reg' = [reg EXCEPT ![n] = h] /\ held' = held \cup {h}
        /\ since' = [q \in Pages |-> IF NodeOf[q] = n THEN since[q] \cup {h} ELSE since[q]]
        /\ UNCHANGED <<page, want, wrote>>
    BY <2>1, MergeIs DEF Apply
  <2>3. ASSUME NEW q \in Pages
        PROVE  History(q)' /\ since'[q] \subseteq held'
    <3>1. since[q] \subseteq since'[q] /\ since'[q] \subseteq since[q] \cup {h}
      BY <2>2
    <3>2. reg'[NodeOf[q]] = reg[NodeOf[q]] \/ reg'[NodeOf[q]] \in since'[q]
      BY <2>2, SiteAssumption DEF SiteInv, TypeOK
    <3>3. History(q)'
      BY <2>2, <3>1, <3>2, SinceGrows DEF HistoryInv
    <3>4. QED
      BY <2>2, <3>1, <3>3 DEF HistoryInv
  <2>4. QED
    BY <2>3 DEF HistoryInv
<1>7. CASE UNCHANGED vars
  BY <1>7 DEF vars, HistoryInv, History
<1>8. QED
  BY <1>1, <1>2, <1>3, <1>4, <1>5, <1>6, <1>7, Steps

LEMMA HistoryInvInit == Init => HistoryInv
BY InitSiteIs DEF Init, HistoryInv, History, Publishing

(* Where no read of the site is stale, a publication told Published at a   *)
(* version was live there on its own node after it was asked for.  With a  *)
(* stale read this is false: run site_stale.                               *)
THEOREM LiveCorrect ==
  ASSUME Sleepy = {}
  PROVE  Spec => []PublishedIsLive
<1>1. HistoryInv => PublishedIsLive
  BY DEF HistoryInv, History, PublishedIsLive
<1>2. QED
  BY <1>1, SiteInvInit, SiteInvStep, HistoryInvInit, HistoryInvStep, PTL DEF Spec

----------------------------------------------------------------------------
(* The merge is an order on the records: what is displaced once stays so.  *)
LEMMA DisplacesIs ==
  ASSUME NEW a, NEW b
  PROVE  Label!Displaces(a, b) <=> a.seq > b.seq \/ (a.seq = b.seq /\ a # b /\ Lower(a.root, b.root))
BY DEF Label!Displaces, BeatsSite

LEMMA SoundIs ==
  ASSUME NEW h \in Sound
  PROVE  h.seq \in Nat /\ (h = NoRecord <=> h.seq = 0) /\ (h.seq # 0 => h.root \in Bundles)
BY NoRecordIs DEF Sound, Record

LEMMA DisplacesTransitive ==
  ASSUME NEW a \in Sound, NEW b \in Sound, NEW c \in Sound,
         Label!Displaces(a, b), Label!Displaces(b, c)
  PROVE  Label!Displaces(a, c)
<1>1. a.seq \in Nat /\ b.seq \in Nat /\ c.seq \in Nat
  BY SoundIs
<1>2. CASE a.seq > c.seq
  BY <1>2, DisplacesIs
<1>3. CASE ~(a.seq > c.seq)
  <2>1. a.seq = b.seq /\ b.seq = c.seq /\ a # b /\ Lower(a.root, b.root) /\ Lower(b.root, c.root)
    BY <1>1, <1>3, DisplacesIs
  <2>2. a.root \in Bundles /\ b.root \in Bundles /\ c.root \in Bundles
    BY <2>1, SoundIs
  <2>3. Lower(a.root, c.root) /\ ~Lower(a.root, a.root)
    BY <2>1, <2>2, LowerAssumption
  <2>4. QED
    BY <2>1, <2>3, DisplacesIs
<1>4. QED
  BY <1>2, <1>3

(* A record judged to supersede the page's own displaces it. *)
LEMMA SupersedingDisplaces ==
  ASSUME NEW s, SiteOK(s), s.st = "Written", NEW h \in Sound, JudgeSite(s, h) = "Superseded"
  PROVE  Label!Displaces(h, s.record) /\ s.record \in Sound
<1>1. s.record \in Sound /\ s.record # NoRecord
  BY DEF SiteOK
<1>2. h.seq \in Nat /\ s.record.seq \in Nat /\ s.record.seq # 0 /\ s.record.root \in Bundles
      /\ h \in Record /\ s.record \in Record
  BY <1>1, SoundIs DEF Sound
<1>3. /\ PairOf(h) # PairOf(s.record)
      /\ h.seq > s.record.seq \/ (h.seq = s.record.seq /\ ~Lower(s.record.root, h.root))
  BY DEF JudgeSite
<1>4. CASE h.seq > s.record.seq
  BY <1>1, <1>4, DisplacesIs
<1>5. CASE h.seq = s.record.seq /\ ~Lower(s.record.root, h.root)
  <2>1. h.root # s.record.root
    BY <1>2, <1>3, <1>5, PairOfIs
  <2>2. h.root \in Bundles
    BY <1>2, <1>5, SoundIs
  <2>3. Lower(h.root, s.record.root)
    BY <1>2, <1>5, <2>1, <2>2, LowerAssumption
  <2>4. QED
    BY <1>1, <1>5, <2>1, <2>3, DisplacesIs
<1>6. QED
  BY <1>3, <1>4, <1>5

(* A publication told Superseded wrote a record that one held displaces,   *)
(* and some copy is at, or past, every record ever held.                   *)
OverOf(p) ==
  page[p].how = "Superseded" =>
    /\ wrote[p] \in Sound
    /\ \E h \in held : h.seq = page[p].version /\ Label!Displaces(h, wrote[p])

OverInv ==
  \A p \in Pages :
    /\ OverOf(p)
    /\ \A h \in held : \E n \in Nodes : reg[n] = h \/ Label!Displaces(reg[n], h)

LEMMA OverInvStep == SiteInv /\ HistoryInv /\ OverInv /\ [Next]_vars => OverInv'
<1> SUFFICES ASSUME SiteInv, HistoryInv, OverInv, [Next]_vars
             PROVE  OverInv'
  OBVIOUS
<1>1. ASSUME NEW p \in Pages, Moves(p)
      PROVE  OverInv'
  <2>1. PICK t : Follows(page[p], t, Answers(p)) /\ PageStep(p, t)
    BY <1>1 DEF Moves
  <2>2. /\ \A q \in Pages : page'[q] = IF q = p THEN t ELSE page[q]
        /\ \A q \in Pages :
             wrote'[q] = IF q = p /\ t.upd # NoRecord THEN t.upd ELSE wrote[q]
        /\ UNCHANGED <<reg, held>>
    BY <2>1, MovedTo
  <2>3. ASSUME t.how = "Superseded"
        PROVE  /\ wrote'[p] \in Sound
               /\ \E h \in held : h.seq = t.version /\ Label!Displaces(h, wrote'[p])
    <3>1. t.upd = NoRecord
      BY <2>1, <2>3 DEF Follows, SiteOK
    <3>2. PICK h \in Answers(p) : /\ h.seq = t.version /\ page[p].st = "Written"
                                  /\ JudgeSite(page[p], h) = "Superseded"
      BY <2>1, <2>3 DEF Follows
    <3>3. wrote'[p] = page[p].record
      BY <2>2, <3>1, <3>2 DEF HistoryInv, History
    <3>4. h \in held /\ h \in Sound /\ SiteOK(page[p])
      BY AnswersSound DEF SiteInv
    <3>5. QED
      BY <3>2, <3>3, <3>4, SupersedingDisplaces
  <2>4. \A q \in Pages : OverOf(q)'
    BY <2>2, <2>3 DEF OverInv, OverOf
  <2>5. QED
    BY <2>2, <2>4 DEF OverInv
<1>2. ASSUME NEW p \in Pages, Publish(p)
      PROVE  OverInv'
  <2>1. PICK b \in Bundles : page' = [page EXCEPT ![p] = OnPublish(page[p], b)]
    BY <1>2 DEF Publish
  <2>2. OnPublish(page[p], b).how # "Superseded"
    BY OnPublishOK DEF SiteOK, Site, Ends
  <2>3. wrote' = [wrote EXCEPT ![p] = NoRecord] /\ UNCHANGED <<reg, held>>
    BY <1>2 DEF Publish
  <2>4. \A q \in Pages : OverOf(q)'
    BY <2>1, <2>2, <2>3 DEF OverInv, OverOf, SiteInv, TypeOK
  <2>5. QED
    BY <2>3, <2>4 DEF OverInv
<1>3. ASSUME NEW p \in Pages, Reload(p)
      PROVE  OverInv'
  <2>1. page' = [page EXCEPT ![p] = InitSite] /\ UNCHANGED <<wrote, reg, held>>
    BY <1>3 DEF Reload, world
  <2>2. InitSite.how # "Superseded"
    BY InitSiteIs
  <2>3. QED
    BY <2>1, <2>2 DEF OverInv, OverOf, SiteInv, TypeOK
<1>4. ASSUME NEW p \in Pages, AnswersPage(p)
      PROVE  OverInv'
  <2>1. PICK a : page' = [page EXCEPT ![p].ans = a]
    BY <1>4 DEF AnswersPage
  <2>2. UNCHANGED <<wrote, reg, held>>
    BY <1>4 DEF AnswersPage
  <2>3. \A q \in Pages : page'[q].how = page[q].how /\ page'[q].version = page[q].version
    BY <2>1 DEF SiteInv, TypeOK, Site
  <2>4. QED
    BY <2>2, <2>3 DEF OverInv, OverOf
<1>5. ASSUME NEW n \in Nodes, AnswersNobody(n)
      PROVE  OverInv'
  BY <1>5 DEF AnswersNobody, OverInv, OverOf
<1>6. ASSUME NEW n \in Nodes, Copies(n)
      PROVE  OverInv'
  <2>1. PICK h \in Sound : Label!Displaces(h, reg[n]) /\ Apply(n, h)
    BY <1>6 DEF Copies, SiteInv
  <2>2. /\ reg' = [reg EXCEPT ![n] = h] /\ held' = held \cup {h} /\ UNCHANGED <<page, wrote>>
    BY <2>1, MergeIs DEF Apply
  <2>3. /\ reg'[n] = h /\ reg[n] \in Sound
        /\ \A m \in Nodes \ {n} : reg'[m] = reg[m]
    BY <2>2 DEF SiteInv, TypeOK
  <2>4. ASSUME NEW p \in Pages, NEW k \in held'
        PROVE  \E m \in Nodes : reg'[m] = k \/ Label!Displaces(reg'[m], k)
    <3>1. CASE k = h
      BY <2>3, <3>1
    <3>2. CASE k \in held
      <4>1. PICK m \in Nodes : reg[m] = k \/ Label!Displaces(reg[m], k)
        BY <3>2 DEF OverInv
      <4>2. CASE m # n
        BY <2>3, <4>1, <4>2
      <4>3. CASE m = n
        <5>1. k \in Sound
          BY <3>2 DEF SiteInv
        <5>2. Label!Displaces(h, k)
          BY <2>1, <2>3, <4>1, <4>3, <5>1, DisplacesTransitive
        <5>3. QED
          BY <2>3, <5>2
      <4>4. QED
        BY <4>2, <4>3
    <3>3. QED
      BY <2>2, <3>1, <3>2
  <2>5. \A p \in Pages : OverOf(p)'
    BY <2>2 DEF OverInv, OverOf
  <2>6. QED
    BY <2>4, <2>5 DEF OverInv
<1>7. CASE UNCHANGED vars
  BY <1>7 DEF vars, OverInv, OverOf
<1>8. QED
  BY <1>1, <1>2, <1>3, <1>4, <1>5, <1>6, <1>7, Steps

LEMMA OverInvInit == Init => OverInv
BY InitSiteIs, SiteAssumption DEF Init, OverInv, OverOf

(* A publication told Superseded is over for good, however many nodes      *)
(* there are and however stale the read that told it: some copy is past    *)
(* its record, and no merge comes back to it.                              *)
THEOREM SupersededCorrect == Spec => []SupersededIsOver
<1>1. SiteInv /\ OverInv => SupersededIsOver
  <2> SUFFICES ASSUME SiteInv, OverInv, NEW p \in Pages, page[p].how = "Superseded"
               PROVE  /\ \E h \in held : h.seq = page[p].version /\ Label!Displaces(h, wrote[p])
                      /\ \E n \in Nodes : Label!Displaces(reg[n], wrote[p])
    BY DEF SupersededIsOver
  <2>1. wrote[p] \in Sound
    BY DEF OverInv, OverOf
  <2>2. PICK h \in held : h.seq = page[p].version /\ Label!Displaces(h, wrote[p])
    BY DEF OverInv, OverOf
  <2>3. PICK n \in Nodes : reg[n] = h \/ Label!Displaces(reg[n], h)
    BY DEF OverInv
  <2>4. reg[n] \in Sound /\ h \in Sound
    BY DEF SiteInv
  <2>5. Label!Displaces(reg[n], wrote[p])
    BY <2>1, <2>2, <2>3, <2>4, DisplacesTransitive
  <2>6. QED
    BY <2>2, <2>5
<1>2. QED
  BY <1>1, SiteInvInit, SiteInvStep, HistoryInvInit, HistoryInvStep, OverInvInit, OverInvStep, PTL
     DEF Spec

----------------------------------------------------------------------------
(* One node, so one signer: no two records known anywhere are of one       *)
(* version, and none is past the signer's.                                 *)
Known ==
  {h \in Sound :
     \/ h \in held
     \/ \E n \in Nodes : h = rec[n] \/ h \in sent[n]
     \/ \E p \in Pages : h = page[p].ans.head \/ (page[p].st = "Written" /\ h = page[p].record)}

OneOfEach(known, last) ==
  \A a \in known : a.seq <= last /\ \A b \in known : a.seq = b.seq => a = b

SingleInv == \A n \in Nodes : OneOfEach(Known, rec[n].seq)

LEMMA KnownIs ==
  ASSUME SiteInv
  PROVE  /\ Known \subseteq Sound
         /\ \A p \in Pages : /\ page[p].ans.head \in Known
                             /\ page[p].st = "Written" => page[p].record \in Known
         /\ \A n \in Nodes : rec[n] \in Known /\ reg[n] \in Known /\ sent[n] \subseteq Known
         /\ NoRecord \in Known /\ held \subseteq Known
BY NoRecordIs DEF SiteInv, SiteOK, Known

(* Nothing new is known. *)
LEMMA SameKnown ==
  ASSUME SingleInv, Known' \subseteq Known, UNCHANGED rec
  PROVE  SingleInv'
BY DEF SingleInv, OneOfEach

(* The only signer's answer: a record past all that is known, or none. *)
LEMMA OneMore ==
  ASSUME SiteInv, SingleInv, NEW n, Nodes = {n}, NEW h \in Sound, NEW a, Answered(n, h, a)
  PROVE  /\ a.kind = "Signed" => rec'[n] = a.head /\ OneOfEach(Known \cup {a.head}, rec'[n].seq)
         /\ a.kind # "Signed" => rec' = rec /\ a.head \in Known
<1>1. n \in Nodes /\ rec[n].seq \in Nat /\ h.seq \in Nat
  BY SoundIs DEF SiteInv
<1>2. CASE a.kind = "Signed"
  <2>1. rec'[n] = h /\ a.head = h /\ rec[n].seq < h.seq
    BY <1>1, <1>2 DEF Answered, Serve, SiteInv, TypeOK
  <2>2. \A b \in Known : b.seq \in Nat /\ b.seq < h.seq
    <3> SUFFICES ASSUME NEW b \in Known PROVE b.seq \in Nat /\ b.seq < h.seq
      OBVIOUS
    <3>1. b.seq \in Nat /\ b.seq <= rec[n].seq
      BY <1>1, KnownIs, SoundIs DEF SingleInv, OneOfEach
    <3>2. QED
      BY <1>1, <2>1, <3>1
  <2>3. \A b, c \in Known : b.seq = c.seq => b = c
    BY <1>1 DEF SingleInv, OneOfEach
  <2>4. OneOfEach(Known \cup {h}, h.seq)
    BY <1>1, <2>2, <2>3 DEF OneOfEach
  <2>5. QED
    BY <1>2, <2>1, <2>4
<1>3. CASE a.kind # "Signed"
  BY <1>1, <1>3, KnownIs DEF Answered, Serve
<1>4. QED
  BY <1>2, <1>3

LEMMA SingleInvStep ==
  ASSUME NEW n, Nodes = {n}
  PROVE  SiteInv /\ SingleInv /\ [Next]_vars => SingleInv'
<1> SUFFICES ASSUME SiteInv, SingleInv, [Next]_vars
             PROVE  SingleInv'
  OBVIOUS
<1>1. ASSUME NEW p \in Pages, Moves(p)
      PROVE  SingleInv'
  <2>1. PICK t : Follows(page[p], t, Answers(p)) /\ PageStep(p, t)
    BY <1>1 DEF Moves
  <2>2. /\ \A q \in Pages : page'[q] = IF q = p THEN t ELSE page[q]
        /\ \A m \in Nodes : sent'[m] \subseteq sent[m] \cup ({t.upd} \ {NoRecord})
        /\ UNCHANGED <<rec, held>>
    BY <2>1, MovedTo
  <2>3. t.st = "Written" => t.record \in Known
    BY <2>1, KnownIs DEF Follows
  <2>4. t.ans.head \in Known
    BY <2>1, KnownIs, NoAnswerIs DEF Follows
  <2>5. t.upd # NoRecord => t.upd \in Known
    BY <2>1, <2>3 DEF Follows, SiteOK
  <2>6. \A m \in Nodes : sent'[m] \subseteq Known
    BY <2>2, <2>5, KnownIs
  <2>7. \A q \in Pages : /\ page'[q].ans.head \in Known
                         /\ page'[q].st = "Written" => page'[q].record \in Known
    BY <2>2, <2>3, <2>4, KnownIs
  <2>8. held' \subseteq Known /\ \A m \in Nodes : rec'[m] \in Known
    BY <2>2, KnownIs
  <2>9. Known' \subseteq Known
    BY <2>6, <2>7, <2>8 DEF Known
  <2>10. QED
    BY <2>2, <2>9, SameKnown
<1>2. ASSUME NEW p \in Pages, NEW s, SiteOK(s), s.st # "Written", s.ans = Label!NoAnswer,
             page' = [page EXCEPT ![p] = s], UNCHANGED <<rec, held, sent>>
      PROVE  SingleInv'
  <2>1. \A q \in Pages : page'[q] = IF q = p THEN s ELSE page[q]
    BY <1>2 DEF SiteInv, TypeOK
  <2>2. \A q \in Pages : /\ page'[q].ans.head \in Known
                         /\ page'[q].st = "Written" => page'[q].record \in Known
    BY <1>2, <2>1, KnownIs, NoAnswerIs
  <2>3. Known' \subseteq Known
    BY <1>2, <2>2 DEF Known
  <2>4. QED
    BY <1>2, <2>3, SameKnown
<1>3. ASSUME NEW p \in Pages, Publish(p)
      PROVE  SingleInv'
  <2>1. PICK b \in Bundles : page' = [page EXCEPT ![p] = OnPublish(page[p], b)]
    BY <1>3 DEF Publish
  <2>2. SiteOK(OnPublish(page[p], b)) /\ OnPublish(page[p], b).st = "Reading"
    BY OnPublishOK
  <2>3. OnPublish(page[p], b).ans = Label!NoAnswer
    BY InitSiteIs DEF OnPublish, InitSite
  <2>4. UNCHANGED <<rec, held, sent>>
    BY <1>3 DEF Publish
  <2>5. QED
    BY <1>2, <2>1, <2>2, <2>3, <2>4
<1>4. ASSUME NEW p \in Pages, Reload(p)
      PROVE  SingleInv'
  <2>1. page' = [page EXCEPT ![p] = InitSite] /\ UNCHANGED <<rec, held, sent>>
    BY <1>4 DEF Reload, world
  <2>2. SiteOK(InitSite) /\ InitSite.st # "Written" /\ InitSite.ans = Label!NoAnswer
    BY InitSiteOK, InitSiteIs
  <2>3. QED
    BY <1>2, <2>1, <2>2
<1>5. ASSUME NEW h \in Sound, NEW a, Answered(n, h, a), Known' \subseteq Known \cup {a.head, rec'[n]}
      PROVE  SingleInv'
  <2>1. /\ a.kind = "Signed" => rec'[n] = a.head /\ OneOfEach(Known \cup {a.head}, rec'[n].seq)
        /\ a.kind # "Signed" => rec' = rec /\ a.head \in Known
    BY <1>5, OneMore
  <2>2. CASE a.kind = "Signed"
    <3>1. Known' \subseteq Known \cup {a.head}
      BY <1>5, <2>1, <2>2
    <3>2. OneOfEach(Known', rec'[n].seq)
      BY <2>1, <2>2, <3>1 DEF OneOfEach
    <3>3. QED
      BY <3>2 DEF SingleInv
  <2>3. CASE a.kind # "Signed"
    <3>1. Known' \subseteq Known
      BY <1>5, <2>1, <2>3, KnownIs
    <3>2. QED
      BY <2>1, <2>3, <3>1, SameKnown
  <2>4. QED
    BY <2>2, <2>3
<1>6. ASSUME NEW p \in Pages, AnswersPage(p)
      PROVE  SingleInv'
  <2>1. PICK a : Answered(n, page[p].sign, a) /\ page' = [page EXCEPT ![p].ans = a]
    BY <1>6, SiteAssumption DEF AnswersPage
  <2>2. UNCHANGED <<reg, sent, held>> /\ page[p].sign \in Sound
    BY <1>6 DEF AnswersPage, SiteInv, SiteOK
  <2>3. \A q \in Pages : /\ page'[q].st = page[q].st /\ page'[q].record = page[q].record
                         /\ page'[q].ans = IF q = p THEN a ELSE page[q].ans
    BY <2>1 DEF SiteInv, TypeOK, Site
  <2>4. Known' \subseteq Known \cup {a.head, rec'[n]}
    BY <2>2, <2>3 DEF Known
  <2>5. QED
    BY <1>5, <2>1, <2>2, <2>4
<1>7. ASSUME NEW m \in Nodes, AnswersNobody(m)
      PROVE  SingleInv'
  <2>0. PICK h \in asked[n] : \E a : Answered(n, h, a)
    BY <1>7 DEF AnswersNobody
  <2>1. PICK a : Answered(n, h, a)
    BY <2>0
  <2>2. UNCHANGED <<page, reg, sent, held>> /\ h \in Sound
    BY <1>7, <2>1 DEF AnswersNobody, SiteInv
  <2>3. Known' \subseteq Known \cup {a.head, rec'[n]}
    BY <2>2 DEF Known
  <2>4. QED
    BY <1>5, <2>1, <2>2, <2>3
<1>8. ASSUME NEW m \in Nodes, Copies(m)
      PROVE  SingleInv'
  <2>1. PICK h : /\ h \in sent[m] \/ \E k \in Nodes : h = reg[k]
                 /\ Label!Displaces(h, reg[m]) /\ Apply(m, h)
    BY <1>8 DEF Copies
  <2>2. held' = held \cup {h} /\ UNCHANGED <<page, rec, sent>>
    BY <2>1, MergeIs DEF Apply
  <2>3. h \in Known
    BY <2>1, KnownIs
  <2>4. Known' \subseteq Known
    BY <2>2, <2>3 DEF Known
  <2>5. QED
    BY <2>2, <2>4, SameKnown
<1>9. CASE UNCHANGED vars
  BY <1>9 DEF vars, SingleInv, OneOfEach, Known
<1>10. QED
  BY <1>1, <1>3, <1>4, <1>6, <1>7, <1>8, <1>9, Steps

LEMMA SingleInvInit == Init => SingleInv
<1> SUFFICES ASSUME Init PROVE SingleInv
  OBVIOUS
<1>1. Known \subseteq {NoRecord}
  BY InitSiteIs, NoAnswerIs DEF Init, Known
<1>2. QED
  BY <1>1, NoRecordIs DEF Init, SingleInv, OneOfEach

(* On one node, however stale its answers, two pages told Published at one *)
(* version published one bundle: its signer signs each version once.       *)
THEOREM OneBundleCorrect ==
  ASSUME NEW n, Nodes = {n}
  PROVE  Spec => []OneBundlePerVersion
<1>1. SiteInv /\ HistoryInv /\ SingleInv => OneBundlePerVersion
  <2> SUFFICES ASSUME SiteInv, HistoryInv, SingleInv, NEW p \in Pages, NEW q \in Pages,
                      page[p].how = "Published", page[q].how = "Published",
                      page[p].version = page[q].version
               PROVE  want[p] = want[q]
    BY DEF OneBundlePerVersion
  <2>1. PICK h \in held : h.seq = page[p].version /\ h.root = want[p]
    BY DEF HistoryInv, History
  <2>2. PICK k \in held : k.seq = page[q].version /\ k.root = want[q]
    BY DEF HistoryInv, History
  <2>3. n \in Nodes /\ h \in Known /\ k \in Known
    BY KnownIs
  <2>4. h = k
    BY <2>1, <2>2, <2>3 DEF SingleInv, OneOfEach
  <2>5. QED
    BY <2>1, <2>2, <2>4
<1>2. SiteInv /\ SingleInv /\ [Next]_vars => SingleInv'
  BY SingleInvStep
<1>3. QED
  BY <1>1, <1>2, SiteInvInit, SiteInvStep, HistoryInvInit, HistoryInvStep, SingleInvInit, PTL DEF Spec

=============================================================================
