------------------------------ MODULE HeadLog ------------------------------
(***************************************************************************)
(* What the pages of one person, on one node, promise together: ONE log of *)
(* heads, each built on the one before it, and for every write one answer  *)
(* that is true of the log for good.                                       *)
(*                                                                         *)
(* page/src/lib.rs (invariants 1-4) and engine/src/lib.rs (the table of    *)
(* `State`): Published only while the tree holds the edit; a refusal says  *)
(* that the edit is not in the tree and never will be.                     *)
(***************************************************************************)
EXTENDS Heads

VARIABLES
  head,   \* the head of the tree
  fate    \* what each write was told

logVars == <<head, fate>>

Open    == {"None", "Queued"}
Refusal == {"Lost", "Failed", "Conflict"}

LogInit ==
  /\ head = Genesis
  /\ fate = [w \in Writes |-> "None"]

(* A page takes a write. *)
Submit(w) ==
  /\ fate[w] = "None"
  /\ fate' = [fate EXCEPT ![w] = "Queued"]
  /\ UNCHANGED head

(* The next head keeps every write of the one before it and adds writes    *)
(* that were taken and never refused, and none a second time.              *)
Extend(ws) ==
  /\ ws # {} /\ ws \cap head.root = {}
  /\ \A w \in ws : fate[w] = "Queued"
  /\ head' = [seq |-> head.seq + 1, root |-> head.root \cup ws]
  /\ UNCHANGED fate

(* Writes are answered, each once: Published when the head holds it, and   *)
(* refused when it does not -- and then no later head may hold it.  One    *)
(* that is told Unknown is not added later either.                         *)
Conclude(ws) ==
  /\ ws # {} /\ \A w \in ws : fate[w] = "Queued"
  /\ \E answer \in [ws -> Refusal \cup {"Published", "Unknown"}] :
       /\ \A w \in ws : answer[w] # "Unknown" => (w \in head.root <=> answer[w] = "Published")
       /\ fate' = [w \in Writes |-> IF w \in ws THEN answer[w] ELSE fate[w]]
  /\ UNCHANGED head

LogNext ==
  \/ \E w \in Writes : Submit(w)
  \/ \E ws \in SUBSET Writes : Extend(ws) \/ Conclude(ws)

LogSpec == LogInit /\ [][LogNext]_logVars

=============================================================================
