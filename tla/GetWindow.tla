----------------------------- MODULE GetWindow -----------------------------
(***************************************************************************)
(* The GETs of a page under a window that moves (page/src/lib.rs and       *)
(* rto.rs), for any engine above them and any node below: an action is an  *)
(* operation of the table, called in any order.                            *)
(*                                                                         *)
(* The window is its floor in whole GETs: it grows by one with an answer,  *)
(* and from its first halving on by a fraction of one.  Which loss begins  *)
(* a loss episode (attempts, send times) is left open: a tick that lost a  *)
(* GET halves the window or not.                                           *)
(***************************************************************************)
EXTENDS GetTable

CONSTANTS
  WindowInitial, WindowFloor,
  MaxWindow                     \* bound: the window grows no further

ASSUME WindowAssumption ==
  /\ WindowFloor \in Nat \ {0} /\ WindowInitial \in Nat /\ MaxWindow \in Nat
  /\ WindowFloor <= WindowInitial /\ WindowInitial <= MaxWindow

VARIABLES
  g,             \* the table
  halved,        \* the window has been halved: ssthresh is set
  sent           \* the GETs that the last operation put on the wire

vars == <<g, halved, sent>>

Init == g = NoGets(WindowInitial) /\ halved = FALSE /\ sent = {}

(* The table goes from h to k, h what the places freed leave. *)
Goes(h, k) == g' = k /\ sent' = InFlight(k) \ InFlight(h)

(* Window::opened, in whole GETs. *)
Opened == {n \in {g.window, g.window + 1} :
             n <= MaxWindow /\ (n = g.window => halved \/ n = MaxWindow)}

(* Mutant: half the window, and no floor. *)
HalfBare == g.window \div 2

Half == IF g.window \div 2 < WindowFloor THEN WindowFloor ELSE g.window \div 2

(* A block is fetched that has no GET; one that has is joined. *)
Fetch(b) ==
  /\ g.st[b] = "none"
  /\ Goes(g, Send(g, b))
  /\ UNCHANGED halved

(* Nobody wants the block any more, or the page holds it. *)
Withdraw(b) ==
  /\ g.st[b] # "none"
  /\ Goes(g, Drop(g, b))
  /\ UNCHANGED halved

(* The answer ends the GET; of one on the wire it opens the window, and the *)
(* queue takes the places there are.                                        *)
Answered(h, b, n) ==
  IF h.st[b] = "wire" THEN Fill([End(h, b) EXCEPT !.window = n]) ELSE End(h, b)

(* park: it came without the block. *)
Answer(b, park) ==
  LET h == NodeAnswers(g, b)
  IN  /\ g.asked[b] > 0
      /\ IF TakesAnswer(g, b)
         THEN \E n \in Opened :
                LET k == Answered(h, b, n) IN Goes(h, IF park THEN Park(k, b) ELSE k)
         ELSE Goes(h, h)
      /\ UNCHANGED halved

Got(b)    == Answer(b, FALSE)
Missed(b) == Answer(b, TRUE)

(* The clock: GETs on the wire are lost and parked ones come due, all       *)
(* queued in some order; a due one that nobody needs ends.                  *)
Parked == {b \in Blocks : g.st[b] = "parked"}

Orders(bs) == {s \in [1 .. Cardinality(bs) -> bs] : ToSet(s) = bs /\ IsInjective(s)}

Tick(lost, over, due) ==
  \E halve \in BOOLEAN, order \in Orders(lost \cup due) :
    LET ended == [g EXCEPT !.st     = [b \in Blocks |-> IF b \in over THEN "none" ELSE @[b]],
                           !.window = IF halve THEN Half ELSE @]
        h     == Requeue(ended, order)
    IN  /\ halve => lost # {}
        /\ halved' = (halved \/ halve)
        /\ Goes(h, Fill(h))

(* The socket was replaced: every GET on the wire goes again at once and    *)
(* keeps its place; what the node works on for the old one is not heard.    *)
Reconnect ==
  /\ g' = [g EXCEPT !.asked = [b \in Blocks |-> IF g.st[b] = "wire" THEN 1 ELSE 0]]
  /\ sent' = InFlight(g)
  /\ UNCHANGED halved

Next ==
  \/ \E b \in Blocks : Fetch(b) \/ Withdraw(b) \/ Got(b) \/ Missed(b)
  \/ \E lost \in SUBSET InFlight(g), over \in SUBSET Parked :
       \E due \in SUBSET (Parked \ over) : Tick(lost, over, due)
  \/ Reconnect

Spec == Init /\ [][Next]_vars

(* A GET on the wire is answered, withdrawn or lost in the end: the page's  *)
(* clock passes every deadline.                                             *)
Late(b)  == \E lost \in SUBSET InFlight(g) : b \in lost /\ Tick(lost, {}, {})
Fairness == \A b \in Blocks : WF_vars(Late(b))

FairSpec == Spec /\ Fairness

-----------------------------------------------------------------------------
TypeOK ==
  /\ g \in Gets /\ g.window \in WindowFloor .. MaxWindow
  /\ halved \in BOOLEAN /\ sent \in SUBSET Blocks

(* No GET waits for a place while one is free (sdk#321): every operation    *)
(* that frees a place or widens the window fills it, whichever it is.       *)
QueueMoves == g.queue # <<>> => Full(g)

(* q1 is before q2 in the queue. *)
Before(queue, q1, q2) ==
  \E i, j \in DOMAIN queue : i < j /\ queue[i] = q1 /\ queue[j] = q2

(* A GET that waits for a place is never passed: what goes out while it     *)
(* waits on stood before it in the queue.  A replaced socket's re-sends     *)
(* keep the places they have.                                               *)
NoOvertaking ==
  [][Reconnect \/ \A b \in sent', c \in ToSet(g.queue) \cap ToSet(g'.queue) :
                    Before(g.queue, b, c)]_vars

(* What goes out finds a place: it never fills the wire past the window,    *)
(* which may be narrower than what is on the wire already (rule 9).         *)
PacedByWindow ==
  [][Reconnect \/ (sent' # {} => Cardinality(InFlight(g')) <= g'.window)]_vars

(* A GET that waits for a place gets it, or ends. *)
QueuedGoOut == \A b \in Blocks : b \in ToSet(g.queue) ~> b \notin ToSet(g.queue)
=============================================================================
