--------------------------- MODULE MCHeadPublish ---------------------------
EXTENDS HeadPublish, TLC

CONSTANTS p1, p2, n1, n2

OnePage  == {p1}
TwoPages == {p1, p2}
OneNode  == {n1}
TwoNodes == {n1, n2}

SameNode  == [p \in Pages |-> n1]
OwnNode   == [p \in Pages |-> IF p = p1 THEN n1 ELSE n2]

EachTakesAll == [p \in Pages |-> MaxWrites]
OneAndTwo    == [p \in Pages |-> IF p = p1 THEN 1 ELSE 2]

(* One signer signs one value a seq: the tie-break is never asked. *)
NoTies(a, b) == FALSE

(* Two signers at one seq: a strict order on the values, total on those    *)
(* the instance reaches (at one seq, a root and a ledger apart).  Neither  *)
(* page always wins: p1's write beats p2's first and loses to p2's two.    *)
Weight(w)     == IF w[1] = p1 THEN 5 ^ w[2] ELSE 4 ^ w[2]
Code(root)    == MapThenSumSet(Weight, root)
Rank(h)       == h.through[p1].seq + 4 * h.through[p2].seq + 16 * h.through[p1].last
                 + 64 * h.through[p2].last + 256 * Code(h.prev.root) + 16384 * Code(h.root)
HigherWins(a, b) == Rank(a) > Rank(b)

SignedOnly == {"Signed"}
MaySave    == {"Signed", "Retry"}
MayRefuse  == {"Signed", "Final"}
None       == {}
WriteTwo   == {<<p2, 2>>}
NotForced  == Writes \ WriteTwo

(* One page at last alone: p2 has everything but the answers to reads that *)
(* the clock makes it ask again, and p1 is done.  Its verify reads are     *)
(* heard for themselves too, not each time together with the engine's own  *)
(* read, which ends them: that one doubles its pace (`reask_after`), while *)
(* a verify's is capped (RTO_MAX).                                         *)
VerifyHeard(p) == HearHead(p) /\ "Verify" \in page[p].reads /\ "Recover" \notin page[p].reads

LandingSpec ==
  /\ Spec /\ PageFair(p2) /\ <>[](Queue(page[p1]) = {})
  /\ <>[]~IsVerifying(page[p2]) \/ []<><<VerifyHeard(p2)>>_vars
============================================================================
