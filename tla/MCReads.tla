------------------------------ MODULE MCReads ------------------------------
EXTENDS Reads

(* The root, a leaf, refers to the values v (twice) and w; q is the parity  *)
(* of their group.                                                          *)
LeafBlocks == {"r", "v", "w", "q"}
LeafValues == {"v", "w", "q"}
LeafAbove  == [x \in LeafBlocks |-> IF x = "r" THEN {} ELSE {"r"}]
LeafGroups == [x \in LeafBlocks |->
  IF x \in {"v", "w"} THEN [slots |-> <<"v", "v", "w", "q">>, k |-> 3]
  ELSE [slots |-> <<>>, k |-> 1]]
GetAndDelta == <<[kind |-> "get", path |-> <<"r", "w">>],
                 [kind |-> "delta", path |-> <<"r", "v", "w">>]>>
RootPath == <<"r">>
JustV    == {"v"}
JustW    == {"w"}
OnePass  == {"audit"}
NoBlocks == {}
=============================================================================
