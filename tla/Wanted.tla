------------------------------- MODULE Wanted -------------------------------
(***************************************************************************)
(* Who wants a block (engine/src/wanted.rs): the parked reads that wait on *)
(* it, the repairs it is a slot of (a repair is named by the block it      *)
(* rebuilds), the parked write's needs and the audit passes.  One value w  *)
(* holds the four indexes; the transitions below are its only writers.     *)
(***************************************************************************)
EXTENDS Integers, FiniteSets

CONSTANTS Blocks, Reads, Passes

Wants == [reads  : [Blocks -> SUBSET Reads],  slots  : [Blocks -> SUBSET Blocks],
          audits : [Blocks -> SUBSET Passes], needs  : SUBSET Blocks]

NoWants == [reads  |-> [b \in Blocks |-> {}], slots |-> [b \in Blocks |-> {}],
            audits |-> [b \in Blocks |-> {}], needs |-> {}]

Wanted(w, b) == w.reads[b] # {} \/ w.slots[b] # {} \/ w.audits[b] # {} \/ b \in w.needs

(* The blocks whose last reader left between w and v. *)
Left(w, v) == {b \in Blocks : Wanted(w, b) /\ ~Wanted(v, b)}

WantRead(w, b, q)    == [w EXCEPT !.reads[b]  = @ \cup {q}]
WantAudit(w, b, x)   == [w EXCEPT !.audits[b] = @ \cup {x}]
WantWrite(w, bs)     == [w EXCEPT !.needs     = @ \cup bs]
WantSlots(w, bs, m)  ==
  [w EXCEPT !.slots = [b \in Blocks |-> IF b \in bs THEN @[b] \cup {m} ELSE @[b]]]

DropRead(w, q)       == [w EXCEPT !.reads = [b \in Blocks |-> @[b] \ {q}]]
DropSlots(w, m)      == [w EXCEPT !.slots = [b \in Blocks |-> @[b] \ {m}]]
DropSpent(w, b, ms)  == [w EXCEPT !.slots[b]  = @ \ ms]
DropAudit(w, b, x)   == [w EXCEPT !.audits[b] = @ \ {x}]
DropNeed(w, b)       == [w EXCEPT !.needs     = @ \ {b}]
ReleaseNeeds(w)      == [w EXCEPT !.needs     = {}]

(* Mutant: a block that landed here answers the audits too. *)
ServedAnyhow(w, b, byNode) == [w EXCEPT !.reads[b] = {}, !.audits[b] = {}]

(* b arrived: its reads are taken, and the audits when the node answered.  *)
Served(w, b, byNode) == [w EXCEPT !.reads[b] = {}, !.audits[b] = IF byNode THEN {} ELSE @]

MissedAudits(w, b) == [w EXCEPT !.audits[b] = {}]

WaitedBy(w, q) == {b \in Blocks : q \in w.reads[b]}
=============================================================================
