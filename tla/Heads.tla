------------------------------- MODULE Heads -------------------------------
(***************************************************************************)
(* The head of a person's tree, as the signer signs it, the Register       *)
(* keeps it and a page judges it (signer-proto/src/head.rs, page/src/      *)
(* judge.rs, page/src/lib.rs).                                             *)
(*                                                                         *)
(* A tree's root is abstracted to the set of writes the tree holds: what a *)
(* commit adds to its base.  A head's value is its root and its ledger:    *)
(* the head it was signed from and a list with an entry per page (one page *)
(* load is one device id): the last arrival number of that page's writes   *)
(* in the tree, and the seq of the head that wrote it.                     *)
(***************************************************************************)
EXTENDS Integers, FiniteSets

CONSTANTS
  Pages,         \* page loads: each has a device id and arrival numbers of its own
  MaxWrites,     \* bound: writes one page load accepts
  Beats(_, _)    \* the Register's order on two values at one seq (lower BLAKE3 wins)

ASSUME WritesAssumption == MaxWrites \in Nat

Arrivals == 1 .. MaxWrites
Writes   == Pages \X Arrivals
Roots    == SUBSET Writes
Pair     == [seq : Nat, root : Roots]
Genesis  == [seq |-> 0, root |-> {}]

Entry     == [seq : Nat, last : Nat]
NoEntry   == [seq |-> 0, last |-> 0]
NoThrough == [p \in Pages |-> NoEntry]

Head == [seq : Nat, root : Roots, prev : Pair, through : [Pages -> Entry]]

(* The pages the list has an entry of. *)
Listed(through) == {p \in Pages : through[p] # NoEntry}

(* No head: a Register that holds no record, a page that read none. *)
NoHead == [seq |-> 0, root |-> {}, prev |-> Genesis, through |-> NoThrough]

PairOf(h) == [seq |-> h.seq, root |-> h.root]

(* The Register's merge: the higher seq, and at one seq the value that     *)
(* wins the tie-break.  A losing UPDATE changes nothing.                   *)
Displaces(new, old) ==
  \/ new.seq > old.seq
  \/ new.seq = old.seq /\ new # old /\ Beats(new, old)

Merge(old, new) == IF Displaces(new, old) THEN new ELSE old

----------------------------------------------------------------------------
(* THE ONE HEAD-JUDGEMENT: what a register answer is to a page whose own   *)
(* signed records are `mine`.  A head that the page's own record at that   *)
(* seq beats is never one the page may adopt.                              *)

(* The page's own records that win the tie-break against what was read.    *)
Winning(read, mine) ==
  {m \in mine : m.seq = read.seq /\ m.root # read.root /\ Beats(m, read)}

Verdicts == {"NoHead", "Head", "MineWins"}
Judged   == [kind : Verdicts, mine : Head]

Judge(read, mine) ==
  IF read = NoHead THEN [kind |-> "NoHead", mine |-> NoHead]
  ELSE IF Winning(read, mine) # {}
    THEN [kind |-> "MineWins", mine |-> CHOOSE m \in Winning(read, mine) : TRUE]
  ELSE [kind |-> "Head", mine |-> NoHead]

(* A record the signer returned is kept by its seq, the later in place of  *)
(* the earlier.                                                            *)
Noted(record, mine) == {m \in mine : m.seq # record.seq} \cup {record}

=============================================================================
