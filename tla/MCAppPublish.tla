---------------------------- MODULE MCAppPublish ----------------------------
EXTENDS AppPublish, TLC

CONSTANTS x1, x2, k1, k2, k3

TwoApps     == {x1, x2}
ThreePieces == {k1, k2, k3}

(* Builds of one platform share pieces.  The one refused ends the third,   *)
(* leaves the second without its backup and is not in the first.           *)
SharedBuilds ==
  {[pieces |-> {k1, k2}, k |-> 1], [pieces |-> {k1, k2, k3}, k |-> 2], [pieces |-> {k3}, k |-> 1]}

OneBad    == {k3}
TwoAndOne == [x \in Apps |-> IF x = x1 THEN 2 ELSE 1]

SomeDoors ==
  [x \in Apps |-> IF x = x1 THEN {"cancelApp"} ELSE {"site", "cancelApp", "cancelSite"}]
=============================================================================
