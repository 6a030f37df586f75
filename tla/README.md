# A TLA+ model of the craftworks SDK

The SDK keeps a person's data in a prolly tree whose root, the **head**, is a signed record in a
Register contract. Every page load runs the whole engine; a signer delegate on the page's node
holds the one key. Nothing serialises the pages but the signer's rule and the Register's merge.
This directory models that machine, checks it with TLC on small instances and proves parts of it
with TLAPS for every instance.

## 1. Inventory: the system's parts

| part (source) | state it keeps | operations | what is hard | what makes it correct |
|---|---|---|---|---|
| signer (`signer/`, `signer-proto/`) | one record per label: the prev, the head signed, its bytes | `decide`, `sign`; provision, held, register | requests lost, repeated, late, from several pages; the host fails to save | one signature per prev; a record is saved before the signature leaves |
| head value and ledger (`signer-proto/src/head.rs`) | root, prev, one `through` entry per page load | read, write, merge | the list is bounded and evicts | what a page learns from a later head about its group is true |
| head judgement (`page/src/judge.rs`) | none | `judge`, `judge_site` | five read paths | a head the page's own record beats is never adopted |
| head publication (`page/src/publication.rs`) | `Life`: nine states | events E1–E12 | every event in every state | a commit is Published only when read back; a dead head is never signed |
| site publication (`page/src/publication.rs`, `page-io/src/lib.rs`) | a `Life` per app; page-io holds the bundle | publish, cancel, read, sign, write, judge | other pages publish the same site; a node's copy is behind; publishing again at any point | what it is told at its end is true of the site; a signature never frames another bundle |
| app publish (`page-io/src/app_publish.rs`, `page-io/src/lib.rs`) | per app: pieces acked and refused, the stage; the routing of answers | publish, piece answers, the site's end, cancels | pieces shared between apps; replaced publishes; late answers | no site below k pieces (P1); BACKED_UP is whole (P3); an owed piece is on its way (R1) |
| page executor (`page/src/lib.rs`) | ops on the wire with deadlines, the last head read, own records, blocks | `tick`, `answer`, hints, pushes, reconnect | answers late, overtaking, lost; one answer ends several waits | 1b: only a head that was read is adopted |
| block traffic (`page/src/lib.rs`, `page/src/rto.rs`) | deadlines, lanes, RTO, congestion window, evictable store | PUT, Held, GET, re-send | retransmission ambiguity, starvation of a lane, eviction of what is still needed | every needed op is asked until answered; pinned blocks stay |
| commit life (`engine/src/commit.rs`) | Idle / Racing / Heading, Backing sets | start, send_head, end, supersede | a block rejected, superseded or acked late | one commit in flight; BACKED_UP never lies |
| write queue (`engine/src/lib.rs`) | queue in arrival order, warm root, parked write | `on_write`, `advance`, `commit_front`, `dead_front` | foreign heads, retries, groups | every write answered once, truly, in order |
| reads, wants, repair (`engine/src/{read,wanted,repair,race_get,asks}.rs`) | who waits on which block, repairs in progress | want, serve, miss, race, rebuild | a block wanted for several reasons ends for one | a fetch lives exactly as long as someone wants it |
| subscriptions (`engine/src/subs.rs`) | ranges per client | add, remove, touched | a head moves while blocks are cold | a change in a range is told at least once |
| page server (`page/src/server.rs`, `fates.rs`) | sessions, fates, the merge in progress | client frames, `same_identity` | a displaced group, fates read late | a published group displaced at its seq is put back |
| page-io, the rest (`page-io/`) | sockets, frames, the opening of a tree | framing, opening | order of first answers | opening ends once |
| wire (`wire/`) | chunk streams | reassemble, encode | bounded memory | a whole stream or nothing |
| protocol (`protocol/`) | session sequence numbers | encode | — | — |
| SDK (`src/`) | open writes, conflicts, tick gate, db | write, tick, read | fates against roll-backs | each open write ends once |
| pieces, tail (`pieces/`, `tail/`) | none / a signed tail | cut, join / prepare, commit | — | any k pieces rebuild |
| web, js (`web/`, `js/`) | session, connection | open, reconnect | replaced sockets | — |

**How they interact.** The SDK sends a write to the page's server, which hands it to the engine.
The engine queues it, cuts a group, puts the group's blocks and, once enough are on the node, emits
`UpdateHead`. The page owes that head: it asks the signer for a signature, UPDATEs the Register with
the signer's bytes, reads the Register back and tells the engine `HeadConfirmed`. Any head read may
instead show another writer's head; the engine then ends its commit and applies the queue again.
Pages meet only in the signer's record and in the Register.

An app's site goes the same way with a shorter table: page-io hands the page the hash of a bundle, the
page reads the site, asks the signer for a record that names the bundle and PUTs the record with the
bundle; nothing is adopted. Publishing an app puts the pieces of its build first and hands page-io's
own site publication the site once enough of them are on the node.

## 2. Modules

| module | models |
|---|---|
| `Heads` | heads and their ledger, the Register's merge, the one judgement |
| `Signer` | the signer's rule (`decide`) |
| `PageHead` | one page: the head's publication table, the page that carries its acts out and the part of the engine they reach, as functions from a page state to the next |
| `HeadPublish` | several pages, signers, Register copies and the wires between them: the state machine |
| `HeadLog` | the abstract promise: one log of heads and one true answer per write |
| `SitePublication` | the publications of one app's site: pages, signers (through `Signer`), the site's copies |
| `AppPublish` | apps published by one page-io: pieces, their PUTs, routing and withdrawing, the person's doors |
| `Wanted` | who wants a block: the engine's four indexes of waiting readers and their transitions |
| `GetTable` | the page's block GETs, as functions: one per block, the places on the wire, the queue, parking |
| `GetWindow` | the same GETs as a state machine, for any caller: the window that opens and halves, the clock, replaced sockets |
| `Reads` | reading a tree over a node that forgets: parked reads, races, repairs, the parked write, audits, and the page carrying it out |
| `ServerMerge` | what becomes of a published commit that another device's head displaced |
| `MCHeadPublish`, `MCSitePublication`, `MCAppPublish`, `MCReads`, `MCGetWindow`, `MCServerMerge` | values for the constants |
| `PageHead_proofs` | lemmas: each page function keeps the page's part of the invariants |
| `HeadPublish_proofs`, `HeadTruth_proofs`, `HeadLog_proofs` | the theorems about heads, about writes, and about one node's log |
| `SitePublication_proofs`, `AppPublish_proofs` | the theorems about the two other publications |
| `ServerMerge_proofs` | the theorems about a displaced commit's merge |
| `GetWindow_proofs` | the theorems about GETs |

`PageHead` is written as functions because the code is: an event goes through the table, the table
returns acts, each act may step the engine, and each engine step may end the owed head
(`drop_dead_head`). One register answer ends up to five waits in a fixed order (`OnHead`:
recovery, read-back, verify, hint), each with all its consequences before the next. A step of
`HeadPublish` is one such handler, whole. `Reads` is built the same way: an engine step appends
effects to `s.fx`, the page carries them out in order, and an effect may run further steps.

### State

| model | code |
|---|---|
| `life` | `Life` of the head's label (`OldSigner` left out) |
| `sign`, `ans` | the Sign op on the wire and the answer under its id |
| `upd` | the UPDATE op on the wire |
| `reads` | `deadlines` of the head waits: `RecoverHead`, `ReadBack`, `Verify`, `Hint`, `Warm` |
| `lastHead`, `mine`, `has` | `last_head`, `my_records`, `engine_has_head` |
| `pub` | the engine's `(published_seq, published_root)` |
| `commit` | `CommitLife` with the `Commit` fields the head depends on |
| `until`, `tries`, `told` | `cut_until`, `Queued::tries`, the last `State` each write was told |
| `rec`, `reg` | the signer's secret `signer_record`; the node's Register state |
| `asked`, `sent` | every Sign and UPDATE that reached a wire: it may be served again or late |
| `late` | register answers taken by the node and not yet heard |
| `held`, `sigs` | ghosts: what each Register has held, what each signer has signed |

`SitePublication` keeps per page the site's `Life` (`st`, `root` and `prev` of what is owed, `record`,
`stale`), the ops on the wire (`sign`, `ans`, `upd`, `reads`), page-io's bundle (`web`) and how the
publication ended (`how`, `version`: `Publication`). The signer's rule and the Register's merge are
those of `Signer` and `Heads`, instantiated: a site's record is a head whose root is the bundle's hash.
`want`, `wrote` and `since` are ghosts: the bundle asked for, the record last written, and what the
page's own node has held since.

`AppPublish` keeps page-io's `publishes` (`app`), `publish_of_key` (`route`), the page's `app_puts`
(`put`) and the page's `Publication` of each app (`site`); `sent` is what reached the wire and `has`,
a ghost, what the node holds. A site's publication there ends in any of its ways: how is
`SitePublication`'s, and `PublicationsEnd` is the fairness assumed of it.

`Reads` keeps the page as one record `s`: `w` is the engine's `Wanted`, `g` the page's GETs, `repairs`
the `Repair` of each block, `read`, `frontier` and `held` the `ParkedRead` of each read, `pw` the
`ParkedWrite`, `watch` and `owed` the parity a repair pass watches and owes, `src` the page's blocks and
`puts` the rebuilt blocks on their way to the node. `has` is what the node has, `told` the verdicts the
last call gave the audits, `evicted` a bound.

`ServerMerge` keeps the page and its Server as one record `s`: the published head and its line, the
queue with the commit in flight (`commit`), the cut being shipped and whether it is held, then the
Server's `tip`, `merge`, `probe` and `seen`. `claim` is a history: per key, the write whose value its
client may still take as published.

The head's `through` is a function from pages to entries (`seq`, `last`), at most `ThroughMax` of them
real, as `LedgerOf` and `Evicted` keep it: when the list is full the entry written longest ago leaves.
`Witness` is what a page reads of its own commit in another's head: `Through`, `NotThere`, or
`Unknown`, when its own entry is absent and nothing in a full list is older than the commit.

### Data abstracted

* A tree is the set of writes in it; each write has a key of its own. A write whose edit is already in
  the base changes nothing; a group of such writes is `Published` at once (the no-op group). A read of
  the key it writes is satisfied there by its own edit, a read of another key is not (`check_reads`), so
  a write may be a `Conflict` when it is cut: `Contended` says which writes may be, and any of them then may.
* A head's value is its root, its prev and `through`. BLAKE3's order on values at one seq is the
  constant `Beats`.
* Re-sends that change no state, back-off lengths and the counters that pace them are left out. A
  lost op is one that is never served; a duplicate is one served again from `asked` or `sent`.
* A cut (`CutNow`) is an action of its own and not the tail of the step that freed the lane: between
  the two the code waits for the blocks its apply needs (`warm_apply`, `park_applying`). How many
  writes the cut takes is free, as the block limit of a commit is.
* A bundle is its hash; a build is a set of pieces and its k, as page-io takes one set per publish. The
  checks a publish makes of its arguments (an app id, the size of the site, the pieces' addresses) only
  refuse it, and are left out.
* A read of the site that is stale (`Sleepy`) shows any copy a node has held, which is also what a
  node that does not hold the site answers: nothing.
* In `Reads` a tree is its shape: the nodes above each block and the sibling group that rebuilds it. A
  GET's deadlines are the order in which they come due; the number of places is fixed. A node's answers
  come in any order, and one the page no longer waits for is ignored.
* In `GetWindow` the window is its floor: an answer opens it by one GET, and after its first halving by one or none
  (`rto.rs` adds `1/w`). Which GETs are lost at a tick and whether that begins a loss episode is any choice; a silent GET
  is one on the wire. The background lane, empty in the code (`lane_of`), is left out.
* In `ServerMerge` a tree is a function from keys to values, so equal trees are one root. An apply, a cut
  and the rest of a drain are calls of their own: a page does not hold the blocks of a tree it did not
  make, and waits for them in between. The other device knows its own heads and all but the last `Behind`
  of this page's; its head beats what it meets at its seq. Whether the ledger can be read is free.
* `Refused` answers are `Retry` (`RootNotHeld`, `RecordNotSaved`), `HeadUnknown` or `Final`; a signer
  with no key, and one that serves a page it does not sign for, refuse as `Final`.

### Not modelled here

`OldSigner` and `Forked` (an upgrade path), the obs label and audits of a site, the subscription that
hints a site's read, the reload of page-io in the middle of an app's publish (it forgets the publish),
the head floor of read-only views, ops that could not be sent, the re-PUT of a root, the zero device id,
epochs other than the current one, `u64::MAX`; refused ledgers in `PageHead`, and the merge of two ledgers,
which nothing in the page calls. A rejection in Heading is left out: the blocks the head waited for
were accepted by the same contract.

Of reading: packs, preload, the pace of asks (`asks.rs`), the caps on GETs of a round and of a request, a
delta's stall rule and its established prefix, contexts. Of the Server: fates, replies, `Expect::Present`,
byte bounds, deferred writes, the count of adoptions, backed-up keys.

## 3. Runs

The runs of `HeadPublish` have deadlock checking on: a live page always has its clock. Publications,
publishes, reads and judgements may all be over, so those of the other modules have it off.

| run | instance | what it shows |
|---|---|---|
| `one_node` | 2 pages, 1 node, 1 write each, tried twice, one page may close, its blocks may be rejected, reads may no longer hold, a record may not be saved, 2 stale read-backs, heads to seq 3 | `PublishedIsDurable`, `WitnessIsTrue`, `WritesEnd`, and the refinement `ImplementsLog` |
| `stale` | one late register answer on its way to one page, which may close, and whose Signs may be refused for good; each write tried once, heads to seq 2 | `AdoptedWasHeld`, `RegisterNeverTwoBehind`, `OneSignaturePerPrev`, `LaneInv`, `WritesEnd` |
| `two_nodes` | 2 nodes, 2 signers of one key, 1 + 2 writes, the last forced, a total tie-break that either node may win, blocks rejected, reads that no longer hold | `AdoptedNotBeaten`, `RefusedUnlessDisplaced`, `LandingNeverMints`; `InOrder` with groups, retries and re-application |
| `site` | 2 pages of one node, 2 bundles, one page publishes twice, may be reloaded, cancelled or refused by the node; a record may not be saved, a Sign may be refused for good | `PublishedIsLive`, `OneBundlePerVersion`, `OwnBundle` |
| `site_nodes` | 2 nodes and signers, 2 bundles, one page's reads are stale | `SupersededIsOver`, `PublicationsEnd` |
| `app` | 2 apps, 3 builds of 3 pieces, one piece refused, one app published twice and cancelled, the other with every door | `SiteIsRebuildable`, `BackedUpIsWhole`, `OwedIsPending`, `PublishesEnd` |
| `reads` | a root over a sibling group of four slots, one block in two of them; a read of one block, a delta, a write, an audit and REPAIR's own watch; the node lost one block and may answer another wrong; two GETs on the wire, one block that may be evicted | `WantedIsAsked`, `HeldIsServed`, `AuditByNode`, `ReadsEnd` |
| `gets` | 3 blocks, fetched and given up by anybody at any time; a window of 2 that may open to 3 and halve to 1; a node that answers, misses or is silent; sockets replaced | `QueueMoves`, `NoOvertaking`, `PacedByWindow`, `QueuedGoOut` |
| `server` | four writes of two keys: one key written over whatever is there, the second written, the second deleted as long as both are what they were, the first written over again; two heads of another device at any point, racing or built deeper, readable or not | `DisplacedIsTold`, `NeverBlind`, `OwnOrder`, `JudgementsEnd` |
| `stale_refused`, `two_nodes_live`, `site_stale` | see Findings | a violation each |

**Bounds.** Two pages are enough for every race over a prev, and a page that closes is replaced by
the other. `MaxSeq` 3 leaves room for a head, a head that displaces or follows it and one built on
that; a landing and the "2+ behind" arm both need no more. One late answer suffices to judge a page
on an older Register. `two_nodes` has two writes on one page so that a commit is in flight when the
other node's head of the same seq arrives, and its order (`HigherWins`) lets either node win: a head beats, and is
beaten, and the second write is built on a head that is displaced under it. In `one_node` and `stale` one page has no
subscription, so that it is neither hinted nor pushed anything and learns by its own reads only. `PublishedIsDurable` is not claimed for two nodes: a group
published at a seq the other node also signed can be displaced, and what becomes of it then is
`ServerMerge`'s. `ThroughMax` is 1 in `one_node` and `stale`, so that two pages evict each other and `Unknown` is
read, and 2 elsewhere. `stale` tries a write once (`MaxTries` 0): a page displaced tells it `Lost` and the late answers stay few; trying
again is `one_node`'s and `two_nodes`'. `Refusable` is the same page there: an origin may be one the signer does not sign for (`FromApp`), and
the other page's Signs are signed. `UpdatesAreSigned` and `GroundInv` are proved
(section 5) and no run repeats them. The branch of `WitnessOf` in which a full list still holds an older entry needs three
pages and is not reached; its argument is proved (`WrittenSinceIsKept` and the lemma under it). `MaxLost` bounds the versions at which a Sign may be lost or served for
nobody, which is how a signer's record runs ahead of its node's copy; without a bound lost Signs count
versions up for ever. `Publishes` bounds how often a page or an app is
asked to publish: twice for one of them, so that a publish replaces an earlier one with its ops still
out. The builds of `app` share pieces, which is what R1 is about; of the three, the one refused piece
ends one, takes only the backup of another and is not in the third. In `reads` a value fills two slots of
its group, so that one answer means two slots; with k = 3 of 4 a lost block can be rebuilt and two lost
cannot, and two places for GETs make a queue. `MaxParked` is 2 for two reads: the cap is not reached
there (see Findings). In `gets` three blocks and a window between 1 and 3 give a queue of two behind a full wire,
a wire with more on it than the window, and two re-sends in either order; the node works on one GET of a block at once (`MaxAsked`).
`server` has two foreign heads, so that a merge or a probe meets a second displacement, and
`Behind` 1, the most this page can be ahead of what the other device heard before a displacement is deeper
than the tip.

**Fairness** (`FairSpec`). Each page's own steps are weakly fair: its clock, its tick, its executor.
Answers are heard: an answer to a head read, infinitely often while one is waited for (`HeadWaits`
is `ENABLED` of a hearing step that changes the state, written out); a signer's answer, strongly,
because a re-sent Sign withdraws the earlier one. A Sign re-asked for ever is served in the end and
the UPDATE a page waits on reaches the Register in the end (strong: the page re-sends on its RTO for
as long as it takes, `page/src/lib.rs`). Nothing is assumed of hints, pushes, closing pages or
stale deliveries. In `SitePublication` a read asked again and again is answered once in a while by a
copy that is current at the page's node, and nodes bring their copies together: without the second, a
signer whose record is ahead of its node answers `HeadUnknown` for ever, which the page waits out by
design (`page/src/lib.rs`, `WAITING_FOR_SITE`). In `AppPublish` a PUT that is pending is re-sent until
it is answered, and a site's publication ends. In `Reads` the head comes, the node ends every GET it was
given, a parked GET comes due, one on the wire is given up in the end, and a block the node has and is asked
for again and again is given once in a while; the conditions are written out in `Fairness`. In `GetWindow` a GET on the wire
that nothing else ends is lost in the end: the page's clock passes its deadline, and a socket is not replaced for ever before it does; nothing is assumed
of the node. In `ServerMerge`
applies, cuts, landings and the Server's own reads are weakly fair, which is that blocks come and reads end;
nothing is assumed of the other device.

`two_nodes_live` is checked under `LandingSpec`: one page is done in the end, and the other has all that `FairSpec` gives
a page. Its verify reads are heard for themselves too, not each time in one step with the engine's own head read, which
would end them: the pace of that read doubles (`reask_after` in `engine/src/lib.rs`), a verify's is capped (`RTO_MAX`).

## 4. Findings

* **`stale_refused`.** `verify` treats a Register two behind the signer's record as unrecoverable
  and fails the write. A register answer taken before this page's own UPDATE merged, and heard after it,
  makes the Register look that old once another page has had the next head signed: the write is told `Failed`
  while the tree holds it.
* **`two_nodes_live`.** With two signers of one key, a page's retried write meets its signer's record of an
  earlier commit, built on a head that the other node's displaced. The signer answers each landing of it
  `NotNext`; verify and landing alternate and the write is never answered.
* **Between two nodes** a write told `Lost` may be in the tree: its commit was built on a head, the other node's
  head displaced that one and the page told the writes of both, and then the commit's own UPDATE, sent before, lands over
  the head that displaced its ground. `engine/src/lib.rs` says of a `Lost` write that it is not in the tree and
  never will be. TLC shows it with `RefusedNotInTree` as an invariant of `two_nodes`; that run's
  `RefusedUnlessDisplaced` says that there is no other way.
* **`site_stale`.** A publication of a bundle that an older copy of the site holds ends `Published` at
  the older version, on that copy's word alone: nothing is signed and the bundle is not live.

`stale_refused` needs a register answer that is late; `page/tests/model.rs` answers reads at the moment
they are served and cannot show it. `two_nodes_live` needs two nodes, which that test does not have.

Some properties are claimed only where they hold. `WitnessIsTrue` needs fresh reads: a head signed after
an older copy was read carries an empty `through`, where `page/src/lib.rs` (`witness_of`) says that the list
never shrinks on a chain. `ImplementsLog`, and `RefusedNotInTree` which it rests on, are claimed for one node and a signer
whose answers are signatures and refusals it gets over (`one_node`); section 5 says what a final refusal changes. `OwedIsPending` leaves out one door, the cancel of a
single PUT by its key (`Session::cancel_put`): it withdraws a piece a publish owes and no publish is
told, so that publish stays at `pieces` until the person cancels it too.

Reading has three such limits, met while modelling:

* A block that arrives as a repair's slot and that no read waits on ends in `on_repair_block`
  (`engine/src/lib.rs`, the early return of `on_arrived`): a parked write that needs it is not resumed, and
  waits until its client asks after it. The comment of `park_write` says a need rides such a GET. No property
  says that the write goes on.
* The read that meets the cap (`on_read_at`) is answered and its effects are dropped, the fetches of a race's
  slots among them, while the repair goes on wanting those slots; a later read of one of them counts on a GET
  that was never sent. `reads` has room for both its reads, and `WantedIsAsked` is claimed there.
* A fetch carried out for a block that is held lands it, in a step of its own, before the fetches behind it go
  out. When that landing ends the repair the others were for, their GETs go out with nobody waiting
  (`carry_out` in `page/src/lib.rs`), and while the node is silent they are sent again: `tick` ends only a
  parked GET that nobody wants. The comment in `carry_out` says that no GET the engine stopped needing
  outlives the call that stopped needing it. It needs a slot that left the page while another stayed;
  `Reads` has no property that every GET is wanted.

The Server judges one displacement well. `DisplacedIsTold` is claimed until the other device's second head
(`s.foreign <= 1`), and with `Behind` 1, because beyond that a published value can be lost with nobody told:

* a second displacement's probe replaces the first one's that is still waiting (`start_probe`): the keys left
  of the first are never told, where the comment above `same_identity`'s call says each is;
* a merge that finishes takes the place of a tip that the same drain built for a client's own write
  (`finish_merge`), which the next displacement then does not judge;
* a second head adopted while the delta or a probe is read is not what those reads are answered from: the
  merge drops the keys the first winner changed, the probe finds the value at the first winner only;
* the page is displaced deeper than its tip: only the tip is judged (`Behind` 2), as the field's comment says
  that only the tip can be displaced;
* a key that one write of the group forces and another depends on: the forced writes go again without it, the
  write between them that depends on it lands, and `finish_merge` compares what the *last* writer would have left
  with the winner's value in the delta. They may be equal though the tree by now holds the middle write's value:
  the key is not told, and the tree does not hold what the client takes as published. `DisplacedIsTold` is claimed
  of the keys whose writers all force them or all depend on them (`OneWay`);
* read in the code and not in a run: an adoption in the same drain as a Published of this page's is taken for
  its own commit (`published_here`), and a merge whose group lands in two commits keeps one head for both.

`OwnOrder` is bounded the same way. After a second head, the tip a merge leaves takes the place of a later one
(the second item above), and an earlier write is judged, and lands again, over a later one. Before it, the one
exception is a displaced group that lands again in more than one commit: a key the group wrote twice is first
what its earlier write made it (`Regrouped`).

`SameIdentity` tells a published write as the tip's by what it wrote, not by its merge. That is enough for any number of
foreign heads: no re-applied write outlives the merge that queued it, since a merge is over only when its writes have
left the queue and none starts before. That is `OneMergeAtATime` (section 5).

## 5. Proofs

The theorems hold for every set of pages, nodes, bundles, apps and builds, every bound and every order
`Beats`, from the named assumptions of the modules only: `WritesAssumption`, `PageAssumption`,
`NodesAssumption`, `SiteAssumption`, `LowerAssumption` (`Lower` is irreflexive and decides between any
two hashes), `AppAssumption`, `TableAssumption` and `WindowAssumption`. Some theorems have hypotheses more, given in the table: that reads are current (`Sleepy = {}`),
that there is one node, that its signer refuses nothing for good (`"Final" \notin SignOutcomes`), that a page is at
most one commit ahead of what the other device heard (`Behind <= 1`).

| module | theorem | statement | only if |
|---|---|---|---|
| `HeadPublish_proofs` | `TypeCorrect` | `Spec => []TypeOK` | |
| | `LaneCorrect` | `Spec => []LaneInv` | |
| | `GroundCorrect` | `Spec => []GroundInv` | |
| | `AdoptedCorrect` | `Spec => []AdoptedWasHeld` | |
| | `UpdatesCorrect` | `Spec => []UpdatesAreSigned` | |
| | `RegisterFollows` | `Spec => []RegisterNeverTwoBehind` | |
| | `OneSuccessor` | `Spec => []OneSignaturePerPrev` | |
| `HeadTruth_proofs` | `LandingCorrect` | `Spec => []LandingNeverMints` | |
| | `JudgedCorrect` | `Spec => []AdoptedNotBeaten` | reads are current |
| | `OrderCorrect` | `Spec => []InOrder` | |
| | `DurableCorrect` | `Spec => []PublishedIsDurable` | one node |
| `HeadLog_proofs` | `RefusedCorrect` | `Spec => []RefusedNotInTree` | one node, reads are current, no final refusal |
| | `WitnessCorrect` | `Spec => []WitnessIsTrue` | the same |
| | `LogCorrect` | `Spec => ImplementsLog` | the same |
| `PageHead_proofs` | `WrittenSinceIsKept` | a list with nothing written before a seq keeps to that in every head signed on it | |
| `SitePublication_proofs` | `TypeCorrect` | `Spec => []TypeOK` | |
| | `OwnBundleCorrect` | `Spec => []OwnBundle` | |
| | `LiveCorrect` | `Spec => []PublishedIsLive` | reads are current |
| | `SupersededCorrect` | `Spec => []SupersededIsOver` | |
| | `OneBundleCorrect` | `Spec => []OneBundlePerVersion` | one node |
| `AppPublish_proofs` | `TypeCorrect` | `Spec => []TypeOK` | |
| | `RebuildableCorrect` | `Spec => []SiteIsRebuildable` | |
| | `BackedUpCorrect` | `Spec => []BackedUpIsWhole` | |
| | `OwedCorrect` | `Spec => []OwedIsPending` | |
| `ServerMerge_proofs` | `TypeCorrect` | `Spec => []TypeOK` | |
| | `BlindCorrect` | `Spec => []NeverBlind` | |
| | `OneMergeAtATime` | the re-applied writes in the queue are all of the merge under way | |
| | `OrderKept` | `Spec => OwnOrder` | |
| | `ToldCorrect` | `Spec => []DisplacedIsTold` | `Behind` is at most 1 |
| `GetWindow_proofs` | `TypeCorrect` | `Spec => []TypeOK` | |
| | `MovesCorrect` | `Spec => []QueueMoves` | |
| | `OvertakingCorrect` | `Spec => NoOvertaking` | |
| | `PacedCorrect` | `Spec => PacedByWindow` | |

The hypotheses are needed. With a stale read `PublishedIsLive` is false (`site_stale`), and a head
adopted from one is beaten by what its page already holds of the other node; with two nodes two signers sign one version
each, and a group published on one is displaced by the other's. With a register answer that is late a
write told `Failed` is in the tree already (`stale_refused`), and the list of a head signed after one is empty. With a
signer that may refuse one Sign for good and still sign the same head when asked by a copy of it, a page
tells its writes `Failed` while an earlier Sign is on its way, and the head lands (TLC shows it on `one_node` with
`SignOutcomes` `MayRefuse`). The code's final refusals are of a request that is malformed or a signer that has no key or cannot
read its record (`decide` and `sign` in `signer/src/lib.rs`), none of which changes between two copies of a request unless the host's
storage fails in between. With `Behind` 2 the head built two commits below the page's own leaves the first of the
two unjudged, and `DisplacedIsTold` is false (TLC shows it on `server` with that bound). `WitnessCorrect` excludes
final refusals for the sake of its proof: TLC finds no state of `one_node` with final refusals where `WitnessIsTrue` fails.

**Heads: types and ground.** `TypeOK` alone is not inductive: a Sign's prev is `owed.seq - 1`, a number only because the owed head
is a commit's and a commit's seq is one past the published one. So types are proved together with
`LaneInv`. `AdoptedWasHeld` and `RegisterNeverTwoBehind` rest on `GroundInv`: what a page publishes
was held, what it asks from was reached, what it keeps and sends was signed. The Register follows
because the signer signs only on a prev that its own record or the Register shows, and each is then
at most one ahead. `OneSignaturePerPrev` needs its own strengthening (`SignerInv`): every head the
signer signed has a seq at most its record's, the seq of a head is its prev's plus one, and so a prev
signed once is either the record's prev (given back) or behind the truth (`NotNext`).

**Heads: what a page knows.** `SoundInv` says of each page that it is `Sane` (`PageHead_proofs`): the head it last read was
held; with nothing owed no Sign is out; a commit in flight carries writes that wait for it; the signer
names no head past the later of its record and its Register, and a landing asks on a head below that.
The last is `LandingNeverMints`: the signer's
answer then is its own record or `NotNext`. Where reads are current `Sane` also says that no record of
the page's own beats the head it stands on, which is `AdoptedNotBeaten`, and that what is asked and answered lies
past that head. A lemma per page
function says that it keeps `Sane` and how it may end the commit and tell its writes (`Follows`), whatever the page meets; a lemma about the surroundings
(`SaneGrows`) that a page stays `Sane` while others move.

**Writes.** `LogInv` is about what trees hold. A tree carries no write of a page ahead of an earlier
one that still waits (`Ordered`), a ledger lists none so (`Carried`); a commit is its base and the
writes cut for it (`Formed`); what a signer is asked to sign grows from a head that was held, or is
already behind what the signer has reached and will not be signed (`Grown`). `InOrder` follows for every number of
nodes. `ChainInv` adds, with one node, that any two heads of it are one inside the
other, and equal at one seq: the Register never goes back and its signer signs each prev once. A
write told `Published` is in a head that was held, and so in the Register (`PublishedIsDurable`).

**One node: the list and the answers.** A page whose head was overtaken learns from the list of pages in the new
head whether its own commit is under it. `OneBase` (`HeadLog_proofs`) adds two parts to the
invariants above. `LedgerInv` is about heads: every signed head, and every one that may still be signed,
is one page's commit on the head it names, with its entry put in the list and the list kept to its bound
(`Built`); an entry is of a write in the tree (`LedgerOK`); of two heads the later one's list still tells
what the earlier was to tell of its own writer, or is full of entries as young (`Recalls`); and what
may still be signed, or is signed and has not landed, carries only writes that wait at their page in the
commit it asks for (`Awaited`). `FateInv` is about answers: a refused write is in no signed head, and a
queued write in a tree is of the commit in flight, whose head was signed. Neither is inductive alone. A step
that ends a commit (`EndsPast`) keeps `FateInv` because a head that the signer is past is never signed and
because the list, read in a current head, tells the commit's own fate (`WitnessKnows`, from `Recalls`
and `WrittenSinceIsKept`); a step of the signer keeps `LedgerInv` because the writes it signs still wait. `RefusedNotInTree`
is then a conjunct, and `WitnessIsTrue` follows from `Recalls` at the Register's head.

**One node: the log.** The abstract head is the Register's and the abstract fate of a write is what its
page was told. `LogStep` gives each action its step: `Accept` is `Submit`; a page's step that ends a
commit is `Conclude`, because all it tells is one answer to the writes of one commit, and which
one is true by `PublishedIsDurable` and `RefusedNotInTree` in the next state; an UPDATE that moves the Register is
`Extend`, because what it lands is `Built` on the head it replaces and `Awaited`; every other step
changes neither. A cut that tells writes `Conflict` is a `Conclude` too (`AnswersConclude`).

**The list.** `WrittenSinceIsKept` is about the operators of the list, for every `ThroughMax`. With the lemma under it (`EvictedWroteFirst`) it is
the argument of `witness_of`: once a commit's entry has been evicted every entry left is as young, and stays so in what is
signed on that head, so an older entry in a full list shows that the commit's own was never there.

**Sites.** `OwnBundle` is inductive with the types (`SiteInv`): a signature is kept only with the root that asked for it.
For the three others the invariant speaks of the ways a publication can still end: what a page's
own node has held since it was asked (`HistoryInv`), what some copy is past (`OverInv`, for any
nodes and reads), and on one node that each version has one signed record (`Known`).

**Apps.** `AppInv` relates the three tables: a piece is acked in a publish only if the node holds it, is
owed only if its PUT is pending and its answer is routed to the publish that waits, and a site is at the page only if k of its
build's pieces are acked. An answer serves the publishes that owe the piece one after the other; as each of them
changes only its own entry and its own site, and withdrawing is decided by the tables left at the end, the model states the step at
once (`PieceAnswered`), and the proof takes the apps one by one.

**A displaced commit.** A call of the page runs through several stages (verdicts, the tip, the displacement, the
merge's end, the hold), so the invariant comes in two: `Ready` holds between the stages too, and `HoldOK` once a call
has settled; `MergeInv` is both. For `TypeOK` it says what the queue is: the applied writes are a
front of it, and each of them holds on the tree its predecessors leave (`Replays`), so a rebuild from the published tree
meets what the warm root met; the commit in flight is its front, and the head that left is that front put on the
published tree (`CommitOK`). That survives a landing because the same writes that left the queue are now in the
published tree (`FrontReplays`), and a displacement because every write turns cold. For `NeverBlind` it says where a
merge's writes can be: in front of every other, at most one per write of the tip, of the last round, each
one still to be judged (`EntriesOK`, of which `OneMergeAtATime` is a part), and that a key the delta called unchanged is unchanged at the winner while the winner is
published (`WinnerOK`); a later head is not the winner, for a head that was beaten, or was in the line, is not published again.
For `OwnOrder` there is a second invariant, `OrderInv`, on top. The clients' own writes are queued in the order they were
made, and each is later than every value a client takes as published, than the tip's writes and than those judged
by a merge or a probe (`TurnOK`): so a client's write that lands replaces an earlier one. A merge's write may replace
a value only of its own group: until the other device's second head, what is taken as published of the keys its queued
writes set is of the merge's own writes (`RegroupOK`), because it was so of the tip that was displaced (`TipOK`), a landing
since then would have ended the hold, and a landing of the group itself takes only the group's values.
For `DisplacedIsTold` there is a third, `ToldInv`, on top of the two. Before the other device's first head it says that the
tip is the published head put on its base by the tip's writes, in their order, and that every claimed value stands
(`AloneOK`): so of a head built on the base, a key the tip wrote is claimed of the tip's last writer there, and any other
claimed value is in that head, too (`FirstLeaves`; this is where `Behind <= 1` is used). From there on each claimed value
stands in the published tree, or is asked for by the probe at the head that displaced it (`Asked`), or is of the last writer
of the merge (`TellOK`). While the delta is read, what the merge knows of the winner is what is published (`DeltaOK`).
Once it was sent, its writes are queued in their order, each with exactly the keys it keeps and later in the group than any that landed; and
a key whose last writer leaves it to the winner holds what the delta said, one whose last writer landed holds what it wrote
(`SentOK`). Those two are what `finish_merge` compares, so a key it does not call superseded stands. It is the second that
needs `OneWay`: where one write of the group forces the key and another depends on it, the middle write lands and
the tree no longer holds what the delta said.
The lemmas about `Only` (a part of a queue, in order) are the ones every action needs: an entry that stays is the entry it
was, tries and warmth aside (`PartAt`).

**GETs.** `GetInv` adds two parts to the types: the queue holds each GET without a place once (`Single`, in `Sound`), and
places are filled (`Filled`, which is `QueueMoves`). Filling takes just as many as there are places because no GET is queued twice,
so `Single` is what makes `Filled` inductive and what keeps a GET that goes out within the window (`PacedByWindow`); the wire may
hold more than the window after a halving, and then nothing goes out. `NoOvertaking` follows from how an operation changes the queue: it loses
its front, or one GET wherever it is, or gets more at its end, none of which puts one GET before another that it stood behind. Each operation's
lemma is built from those of `End`, `Fill`, `Park` and `Requeue` (`EndKept`, `FillKept`, ...). Only what an answer takes
of a place it frees is decided before the answered GET is parked, which is how the code orders it.

The lemmas follow the functions of `PageHead` bottom up: for each act, for each engine event, for
each cell of the table, that types, lane and grounding and
then soundness are kept (`PageHead_proofs`); the theorems then have one case per action.

**Only model-checked.**

* `RefusedUnlessDisplaced` between two nodes: what is lost there is decided by the order `Beats` gives two heads of one seq, and
  the list of a head says nothing of the branch it displaced; the run `two_nodes` checks it.
* `Reads` (with `Wanted`; of its GETs the theorems of `GetWindow` tell): it lands what a step rebuilds and carries out effects by RECURSIVE operators,
  which no theorem can rest on.
* Liveness under fairness: out of the prover's reach.

## 6. Plan

In this order; the parts nearest the writes a person makes come first.

| module | models | properties | composed with |
|---|---|---|---|
| `CommitRace` | `engine/src/commit.rs`: the race of a commit's blocks, Backing, supersede, BACKED_UP | BACKED_UP never lies; no block is withdrawn that a Backing or the commit counts on; every Backing ends | refines `CutNow`, `RaceReady`, `BlockRejected` of `HeadPublish` |
| `WriteQueue` | the engine's queue: warm root, parked and deferred writes, `QueueFull`, `queue_blocked` | order under the byte bound; a parked write is answered once | `PageHead`'s `Accept`, `CutNow` |
| `Asks` | the pace of asks, the caps on GETs and the stall rule of a delta (`engine/src/asks.rs`, `engine/src/read.rs`) | no ask faster than its pace; a capped read goes on | `Reads` |
| `Subs` | subscriptions over ranges | a change in a range is told at least once | the engine's head and its reads |
| `PagePuts` | the page's block PUTs, lanes, RTO, Held batches | an op is asked until answered; no lane starves | `CommitRace`, `GetTable` |
| `Writes`, `TickGate` | the SDK's open writes, fates and roll-backs; the tick gate | each open write ends once; the gate neither shuts for good nor lets two ticks out | `HeadLog` as the server |
| `Fates` | `page/src/fates.rs`, the replies of the Server | fates are bounded and drained once | `ServerMerge` |
| `Opening` | page-io's opening of a tree, provisioning of the signer | opening ends once, whatever the order of first answers | `PageHead`'s `Start` |
| `Reassembler`, `Pieces`, `Tail` | bounded chunk streams; cutting and joining; the signed tail | a whole stream or nothing; any k pieces rebuild; a tail never forks | — |
| `Connection` | `js/connection.js`, `web/src/session.rs`: replaced sockets, back off | an answer of a replaced socket changes nothing | `Opening` |

**Abstract specifications.** `HeadLog` is implemented by `HeadPublish` on one node (`ImplementsLog`, proved).
Next: a set of blocks with owners that `CommitRace`, `Reads` and `PagePuts` implement; a queue of
writes, each answered once, for `WriteQueue` and `Writes`.

**Runs.** Two or three blocks, two commits and two readers are enough for every race over one block; each
run stays under a minute.

**Theorems.** In order of worth: `WitnessIsTrue` with final
refusals; that no Backing of `CommitRace` lies; order in `WriteQueue`. Liveness stays with TLC.
