------------------------------ MODULE GetTable ------------------------------
(***************************************************************************)
(* The page's block GETs (page/src/lib.rs): at most one for a block, at    *)
(* most a window of them on the wire, the rest queued for a place.  A GET  *)
(* nobody answers keeps its place until the node's own fetch is over; then *)
(* it is lost and its re-send queues like a new one.  A GET answered       *)
(* without its block is parked and sent again at its backoff.              *)
(*                                                                         *)
(* Clocks are abstracted to the order in which deadlines come due.  The    *)
(* background lane is empty in the code (lane_of) and left out.            *)
(***************************************************************************)
EXTENDS Integers, FiniteSets, Sequences, SequencesExt

CONSTANTS
  Blocks,
  MaxAsked       \* bound: GETs of one block the node works on at once

ASSUME TableAssumption == IsFiniteSet(Blocks) /\ MaxAsked \in Nat \ {0}

(* "queued": never sent.  "lost": in the queue too, for its re-send.       *)
GetStates == {"none", "queued", "lost", "wire", "parked"}
InQueue   == {"queued", "lost"}

(* queue: the order of the GETs without a place.  asked: the node's own    *)
(* GETs of each block, which it ends with an answer; a page's GET that     *)
(* ends does not end them.  window: how many GETs may be on the wire.      *)
Gets == [st : [Blocks -> GetStates], queue : Seq(Blocks), asked : [Blocks -> 0 .. MaxAsked],
         window : Nat \ {0}]

NoGets(n) == [st |-> [b \in Blocks |-> "none"], queue |-> <<>>,
              asked |-> [b \in Blocks |-> 0], window |-> n]

InFlight(g) == {b \in Blocks : g.st[b] = "wire"}

(* Mutant: the comparison is off by one. *)
FullOverOne(g) == Cardinality(InFlight(g)) > g.window

Full(g) == Cardinality(InFlight(g)) >= g.window

Queue(g, b) == [g EXCEPT !.st[b] = "queued", !.queue = Append(@, b)]

Place(g, bs) ==
  [g EXCEPT !.st    = [b \in Blocks |-> IF b \in bs THEN "wire" ELSE @[b]],
            !.asked = [b \in Blocks |-> IF b \in bs /\ @[b] < MaxAsked THEN @[b] + 1 ELSE @[b]]]

(* A GET goes out when there is a place for it, and waits for one if not. *)
Send(g, b) == IF Full(g) THEN Queue(g, b) ELSE Place(g, {b})

(* The GETs that wait and have a place now: the first of the queue. *)
Room(g) ==
  LET free == g.window - Cardinality(InFlight(g))
  IN  IF Full(g) THEN 0 ELSE IF free < Len(g.queue) THEN free ELSE Len(g.queue)

Going(g) == {g.queue[i] : i \in 1 .. Room(g)}

(* Mutant: a place that is free stays free until the next answer. *)
FillNone(g) == g

(* The queue takes the places that are free, in its order. *)
Fill(g) == Place([g EXCEPT !.queue = SubSeq(@, Room(g) + 1, Len(@))], Going(g))

(* A GET leaves every holder it has. *)
End(g, b) == [g EXCEPT !.st[b] = "none", !.queue = RemoveFirst(@, b)]

(* A GET ends wherever it is; the place it held goes to the next. *)
Drop(g, b) == IF g.st[b] = "wire" THEN Fill(End(g, b)) ELSE End(g, b)

(* An answer is taken by a GET that was sent, a lost one included. *)
TakesAnswer(g, b) == g.st[b] \in {"wire", "lost", "parked"}

Park(g, b) == [g EXCEPT !.st[b] = "parked"]

(* Mutant: a re-send goes before the GETs already waiting. *)
RequeueFirst(g, order) ==
  [g EXCEPT !.st    = [b \in Blocks |-> IF b \in ToSet(order) THEN "lost" ELSE @[b]],
            !.queue = order \o @]

(* Lost, or parked and due: queued for their re-sends. *)
Requeue(g, order) ==
  [g EXCEPT !.st    = [b \in Blocks |-> IF b \in ToSet(order) THEN "lost" ELSE @[b]],
            !.queue = @ \o order]

Resend(g, b) == Fill(Requeue(g, <<b>>))

NodeAnswers(g, b) == [g EXCEPT !.asked[b] = @ - 1]
=============================================================================
