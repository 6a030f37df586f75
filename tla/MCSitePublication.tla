------------------------- MODULE MCSitePublication -------------------------
EXTENDS SitePublication, TLC

CONSTANTS p1, p2, n1, n2, b1, b2

TwoPages == {p1, p2}
OneNode  == {n1}
TwoNodes == {n1, n2}
TwoBundles == {b1, b2}

SameNode == [p \in Pages |-> n1]
OwnNode  == [p \in Pages |-> IF p = p1 THEN n1 ELSE n2]

(* The hash of b1 is the lower. *)
FirstLower(x, y) == x = b1 /\ y = b2

TwoAndOne == [p \in Pages |-> IF p = p1 THEN 2 ELSE 1]
OneEach   == [p \in Pages |-> 1]

SignedOnly == {"Signed"}
MaySave    == {"Signed", "Retry", "Final"}
None       == {}
JustOne    == {p1}
============================================================================
