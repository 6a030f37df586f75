------------------------------- MODULE Signer -------------------------------
(***************************************************************************)
(* The signer's rule, pure (signer/src/lib.rs `decide`): the one delegate  *)
(* that holds the key, with ONE record, the last head it signed.           *)
(***************************************************************************)
EXTENDS Heads

(* What the signer can answer.  `Retry` stands for the retryable refusals  *)
(* RootNotHeld and RecordNotSaved, `Final` for every final one.            *)
AnswerKinds ==
  {"None", "Signed", "AlreadySigned", "NotNext", "HeadUnknown", "Retry", "Final"}

Answer == [kind : AnswerKinds, head : Head, current : Pair]

NoAnswer == [kind |-> "None", head |-> NoHead, current |-> Genesis]
Signed(h)        == [NoAnswer EXCEPT !.kind = "Signed", !.head = h]
AlreadySigned(h) == [NoAnswer EXCEPT !.kind = "AlreadySigned", !.head = h]
NotNext(t)       == [NoAnswer EXCEPT !.kind = "NotNext", !.current = t]
Refused(why)     == [NoAnswer EXCEPT !.kind = why]

(* (c) TRUTH: the later of the record and the head read locally, by seq,   *)
(* and at an equal seq the Register's.                                     *)
Truth(record, read) ==
  IF record # NoHead /\ read.seq < record.seq THEN PairOf(record) ELSE PairOf(read)

(* Mutant: a prev signed once is only refused, its record not given back.  *)
DecideForgetful(record, read, next) ==
  LET truth == Truth(record, read) IN
  IF next.seq # next.prev.seq + 1 THEN Refused("Final")
  ELSE IF truth.seq > 0 /\ truth # next.prev THEN NotNext(truth)
  ELSE IF truth.seq = 0 /\ next.prev.seq # 0 THEN Refused("HeadUnknown")
  ELSE Signed(next)

(* THE RULE for a request to sign `next` (whose ledger names its prev).    *)
(* "Sign" leaves the outcome to the host: the root block held or not, the  *)
(* record saved or not.                                                    *)
Decide(record, read, next) ==
  LET truth == Truth(record, read) IN
  IF next.seq # next.prev.seq + 1
    THEN Refused("Final")
  ELSE IF record # NoHead /\ record.prev = next.prev
    THEN AlreadySigned(record)
  ELSE IF truth.seq > 0 /\ truth # next.prev
    THEN NotNext(truth)
  ELSE IF truth.seq = 0 /\ next.prev.seq # 0
    THEN Refused("HeadUnknown")
  ELSE Signed(next)

=============================================================================
