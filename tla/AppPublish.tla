----------------------------- MODULE AppPublish -----------------------------
(***************************************************************************)
(* Publishing apps: page-io's table (page-io/src/app_publish.rs) and what  *)
(* carries its effects out (page-io/src/lib.rs, the app PUTs of            *)
(* page/src/lib.rs).  The pieces of an app's build are PUT; once k of them *)
(* are on the node the site is published; apps of one build share pieces.  *)
(*                                                                         *)
(* How a site's publication ends is SitePublication's: here it ends in any *)
(* of its ways.  The node answers a piece any number of times, also one    *)
(* that was withdrawn.                                                     *)
(***************************************************************************)
EXTENDS Integers, FiniteSets

CONSTANTS
  Apps,
  Pieces,        \* the pieces, by their contract key
  Builds,        \* what an app may be published with: its pieces, and k of them
  Bad,           \* the pieces the node's contract refuses as invalid
  Doors,         \* the doors a person may use on each app, beside publishing it
  Publishes      \* bound: how often each app is published

ASSUME AppAssumption ==
  /\ Builds # {}
  /\ \A b \in Builds : /\ b.pieces \subseteq Pieces /\ IsFiniteSet(b.pieces)
                       /\ b.k \in 1 .. Cardinality(b.pieces)
  /\ Bad \subseteq Pieces
  /\ Doors \in [Apps -> SUBSET {"site", "cancelApp", "cancelSite"}]
  /\ Publishes \in [Apps -> Nat]

Stages == {"None", "Pieces", "Siting", "Published", "BackedUp", "BackupAbandoned",
           "Refused", "Superseded", "Cancelled"}
Puts   == {"None", "Pending", "Put", "Refused", "Cancelled"}
SiteEnds == {"Published", "Superseded", "Refused"}
Sites  == SiteEnds \cup {"None", "Publishing", "Cancelled"}

(* One app's publish.  One that ended counts no answers any more; its      *)
(* build is the one it was published with.                                 *)
App == [st : Stages, build : Builds, acked : SUBSET Pieces, refused : SUBSET Pieces]

(* Mutants: a piece answered at all counts as there. *)
RebuildableAnswered(a) == Cardinality(a.acked \cup a.refused) >= a.build.k
WholeAnswered(a)       == a.build.pieces \subseteq a.acked \cup a.refused

Rebuildable(a) == Cardinality(a.acked) >= a.build.k
Lost(a)        == Cardinality(a.refused) > Cardinality(a.build.pieces) - a.build.k
Whole(a)       == a.build.pieces \subseteq a.acked
Pending(a)     == a.build.pieces \ (a.acked \cup a.refused)

InFlight(a) == a.st \in {"Pieces", "Siting"}
Tracks(a)   == InFlight(a) \/ a.st = "Published"
Owes(a)     == IF Tracks(a) THEN Pending(a) ELSE {}

VARIABLES
  io,       \* page-io and its page: each app's publish, the pieces' PUTs, the
            \* routing of answers, and each site's publication
  left,     \* how often each app may still be published
  sent,     \* the pieces whose PUT ever reached the wire
  has       \* ghost: the pieces the node holds

vars == <<io, left, sent, has>>

NoApp == [st |-> "None", build |-> CHOOSE b \in Builds : TRUE, acked |-> {}, refused |-> {}]

Init ==
  /\ io = [app   |-> [x \in Apps |-> NoApp],
           put   |-> [k \in Pieces |-> "None"],
           route |-> [x \in Apps |-> {}],
           site  |-> [x \in Apps |-> "None"]]
  /\ left = Publishes
  /\ sent = {} /\ has = {}

----------------------------------------------------------------------------
(* Effects, on the state s of page-io.                                     *)

(* Mutants: a withdrawal asks nobody; a piece's PUT that ended is not      *)
(* started over.                                                           *)
WithdrawAll(s, xs, ks) ==
  [s EXCEPT !.put = [k \in Pieces |-> IF k \in ks /\ @[k] = "Pending" THEN "Cancelled" ELSE @[k]]]
PutOnce(s, ks) ==
  [s EXCEPT !.put = [k \in Pieces |-> IF k \in ks /\ @[k] = "None" THEN "Pending" ELSE @[k]]]

OwedElsewhere(s, k, xs) == \E y \in Apps \ xs : k \in s.route[y] /\ k \in Owes(s.app[y])

(* The publishes xs let the pieces ks go: a shared piece is withdrawn only *)
(* when no other publish owes it.                                          *)
Withdraw(s, xs, ks) ==
  [s EXCEPT !.put = [k \in Pieces |->
     IF k \in ks /\ @[k] = "Pending" /\ ~OwedElsewhere(s, k, xs) THEN "Cancelled" ELSE @[k]]]

(* A PUT that ended starts over; one still pending is left alone. *)
Put(s, ks) ==
  [s EXCEPT !.put = [k \in Pieces |-> IF k \in ks THEN "Pending" ELSE @[k]]]

CancelPage(s, x) == [s EXCEPT !.site[x] = IF @ = "Publishing" THEN "Cancelled" ELSE @]
SendSite(s, x)   == [s EXCEPT !.site[x] = "Publishing"]

Unroute(s, x) == [s EXCEPT !.route[x] = {}]

Becomes(s, x, a) == [s EXCEPT !.app[x] = a]

(* x's publish a ends: the pieces it owes are withdrawn and its routing    *)
(* goes.                                                                   *)
Over(a, st) == [a EXCEPT !.st = st, !.acked = {}, !.refused = {}]
EndAs(s, x, a, st) == Unroute(Withdraw(Becomes(s, x, Over(a, st)), {x}, Pending(a)), x)

----------------------------------------------------------------------------
(* The table, by event.                                                    *)

OnAcked(a, k) ==
  LET m == [a EXCEPT !.acked = @ \cup {k}] IN
  IF a.st = "Pieces" /\ Rebuildable(m) THEN [m EXCEPT !.st = "Siting"]
  ELSE IF a.st = "Published" /\ Whole(m) THEN Over(m, "BackedUp")
  ELSE IF Tracks(a) THEN m
  ELSE a

OnPieceRefused(a, k) ==
  LET m == [a EXCEPT !.refused = @ \cup {k}] IN
  IF a.st = "Pieces" /\ Lost(m) THEN Over(m, "Refused")
  ELSE IF Tracks(a) THEN m
  ELSE a

(* How the site ended, heard while it is in flight. *)
OnSite(s, x, how) ==
  LET a == s.app[x] IN
  IF a.st # "Siting" THEN s
  ELSE IF how # "Published" THEN EndAs(s, x, a, how)
  ELSE IF Whole(a) THEN EndAs(s, x, a, "BackedUp")
  ELSE Becomes(s, x, [a EXCEPT !.st = "Published"])

(* A person stops the publish: before PUBLISHED it is withdrawn whole,     *)
(* after it only the backup is given up.                                   *)
OnCancel(s, x) ==
  LET a == s.app[x] IN
  CASE a.st = "Pieces"    -> EndAs(s, x, a, "Cancelled")
    [] a.st = "Siting"    -> EndAs(CancelPage(s, x), x, a, "Cancelled")
    [] a.st = "Published" -> EndAs(s, x, a, "BackupAbandoned")
    [] OTHER              -> s

(* Mutant: what the publish it replaces was answered is kept. *)
StartedOver(a, b) == [a EXCEPT !.st = "Pieces", !.build = b]

Started(a, b) == [st |-> "Pieces", build |-> b, acked |-> {}, refused |-> {}]

(* A publish that is over, or published and still owed pieces, is          *)
(* replaced: of its owed pieces those nobody owes now are withdrawn.       *)
OnPublish(s, x, b) ==
  LET freed == Unroute(Withdraw(s, {x}, Owes(s.app[x]) \ b.pieces), x)
  IN  Put([Becomes(freed, x, Started(s.app[x], b)) EXCEPT !.route[x] = b.pieces], b.pieces)

(* A piece's answer reaches every publish it is routed to, one after the   *)
(* other; their order is left out, for it changes nothing: a piece that    *)
(* several of them let go is withdrawn by the last.                        *)
PieceAnswered(s, k) ==
  LET bad  == k \in Bad
      app  == [x \in Apps |-> IF k \notin s.route[x] THEN s.app[x]
                              ELSE IF bad THEN OnPieceRefused(s.app[x], k)
                              ELSE OnAcked(s.app[x], k)]
      over == {x \in Apps : Tracks(s.app[x]) /\ ~Tracks(app[x])}
      site == {x \in Apps : app[x].st = "Siting" /\ s.app[x].st = "Pieces"}
      heard ==
        [app   |-> app,
         put   |-> [s.put EXCEPT ![k] = IF @ # "Pending" THEN @ ELSE IF bad THEN "Refused" ELSE "Put"],
         route |-> [x \in Apps |-> IF x \in over THEN {} ELSE s.route[x]],
         site  |-> [x \in Apps |-> IF x \in site THEN "Publishing" ELSE s.site[x]]]
  IN  Withdraw(heard, over, UNION {Pending(s.app[x]) : x \in over})

----------------------------------------------------------------------------
OnWire(s) == {k \in Pieces : s.put[k] = "Pending"}

(* page-io moves to s; the PUTs it waits for reach the wire. *)
Step(s) == io' = s /\ sent' = sent \cup OnWire(s)

PublishApp(x) ==
  /\ left[x] > 0 /\ ~InFlight(io.app[x])
  /\ \E b \in Builds : Step(OnPublish(io, x, b))
  /\ left' = [left EXCEPT ![x] = @ - 1]
  /\ UNCHANGED has

(* The site's publication ends, and the publish that waits for it hears.   *)
SiteEnd(x, how) ==
  /\ io.site[x] = "Publishing"
  /\ Step(OnSite([io EXCEPT !.site[x] = how], x, how))
  /\ UNCHANGED <<left, has>>

(* The site published by itself: refused while the app's publish needs it. *)
SiteDoor(x) ==
  /\ "site" \in Doors[x] /\ ~InFlight(io.app[x]) /\ io.site[x] # "Publishing"
  /\ Step(SendSite(io, x))
  /\ UNCHANGED <<left, has>>

CancelApp(x) ==
  /\ "cancelApp" \in Doors[x] /\ Tracks(io.app[x])
  /\ Step(OnCancel(io, x))
  /\ UNCHANGED <<left, has>>

(* A cancelled site ends the publish that waits for it too. *)
CancelSite(x) ==
  /\ "cancelSite" \in Doors[x] /\ io.site[x] = "Publishing"
  /\ LET s == CancelPage(io, x)
     IN  Step(IF s.app[x].st = "Siting" THEN OnCancel(s, x) ELSE s)
  /\ UNCHANGED <<left, has>>

NodeAnswers(k) ==
  /\ k \in sent
  /\ Step(PieceAnswered(io, k))
  /\ has' = IF k \in Bad THEN has ELSE has \cup {k}
  /\ UNCHANGED left

Next ==
  \/ \E x \in Apps :
       \/ PublishApp(x) \/ SiteDoor(x) \/ CancelApp(x) \/ CancelSite(x)
       \/ \E how \in SiteEnds : SiteEnd(x, how)
  \/ \E k \in Pieces : NodeAnswers(k)

Spec == Init /\ [][Next]_vars

(* Fairness: a PUT on the wire, re-sent until it is answered, is answered, *)
(* and a site's publication ends (SitePublication's PublicationsEnd).      *)
FairSpec ==
  /\ Spec
  /\ \A k \in Pieces : WF_vars(io.put[k] = "Pending" /\ NodeAnswers(k))
  /\ \A x \in Apps : WF_vars(\E how \in SiteEnds : SiteEnd(x, how))

----------------------------------------------------------------------------
(* Properties.                                                             *)

(* Types: no publish, PUT or site takes a form its enum does not have, and *)
(* a publish counts answers of its own pieces only.                        *)
TypeOK ==
  /\ io.app \in [Apps -> App]
  /\ \A x \in Apps : io.app[x].acked \cup io.app[x].refused \subseteq io.app[x].build.pieces
  /\ io.put \in [Pieces -> Puts]
  /\ io.route \in [Apps -> SUBSET Pieces]
  /\ io.site \in [Apps -> Sites]
  /\ left \in [Apps -> Nat] /\ sent \subseteq Pieces /\ has \subseteq Pieces

(* P1: a site is sent, and stays published, only with enough of its pieces *)
(* on the node to rebuild the app, whoever PUT them and whatever was       *)
(* withdrawn meanwhile.                                                    *)
SiteIsRebuildable ==
  \A x \in Apps : LET a == io.app[x] IN
    a.st \in {"Siting", "Published"} => Cardinality(has \cap a.build.pieces) >= a.build.k

(* P3: BACKED_UP says every piece is on the node. *)
BackedUpIsWhole ==
  \A x \in Apps : io.app[x].st = "BackedUp" => io.app[x].build.pieces \subseteq has

(* R1: a piece a publish owes is on the wire and its answer is routed to   *)
(* it, whatever the other apps of the build withdraw, end or start over.   *)
OwedIsPending ==
  \A x \in Apps : \A k \in Owes(io.app[x]) : io.put[k] = "Pending" /\ k \in io.route[x]

(* A publish in flight ends: it never waits for an answer that cannot come *)
(* and never blocks the app's next publish.                                *)
PublishesEnd == \A x \in Apps : InFlight(io.app[x]) ~> ~InFlight(io.app[x])

=============================================================================
