---------------------------- MODULE MCServerMerge ----------------------------
EXTENDS ServerMerge

(* A row written over whatever is there, a second row written, the second  *)
(* one deleted as long as the first is what it was, and the first written   *)
(* over again.                                                              *)
OverAndDepends == <<
  [sets |-> (2 :> 1), reads |-> (2 :> AnyValue)],
  [sets |-> (1 :> 1), reads |-> (1 :> Absent)],
  [sets |-> (1 :> Absent), reads |-> (1 :> 1) @@ (2 :> 1)],
  [sets |-> (2 :> 2), reads |-> (2 :> AnyValue)]>>
TwoValues == 1..2
=============================================================================
