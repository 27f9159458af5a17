# A formal model of circular

circular is a Core Lightning plugin that moves liquidity between the channels
of one node by paying itself over circular routes. This directory holds TLA+
models of the plugin, the TLC configurations that check them on small
instances, and proofs of their main theorems for TLAPS. Paths below are
relative to `src/`.

- [The system](#the-system)
- [Modules](#modules)
- [Runs](#runs)
- [Fairness](#fairness)
- [Proofs](#proofs)
- [Disagreements between the code and what is said of it](#disagreements-between-the-code-and-what-is-said-of-it)
- [What is not modelled](#what-is-not-modelled)
- [Plan](#plan)

## The system

One process serves RPC calls of `lightningd`, hooks, notifications, cron jobs
and an optional WebSocket server. Each call, hook, notification and cron run is
a goroutine of its own; they share the structs `Node` and `Graph`.

| Component | State | Operations | Hard behaviour |
|---|---|---|---|
| Parallel rebalance `rebalance/parallel` | deque of candidates, `AmountRebalanced`, `InFlightAmount`, attempts, an unbuffered channel of results | `circular-pull`, `circular-push`: `Call`, `FindCandidates`, `FireCandidates`, `WaitForResult` | accounts kept by one goroutine about work done by others; candidates that return to the queue; leaving the loop too early or too late |
| Single rebalance `rebalance/rebalance.go`, `byscid.go`, `bynode.go` | attempt and hop counters | `circular`, `circular-node`: `Setup`, `Run`, `runAttempt`, `tryRoute` | which error ends the loop, raises the hop limit or counts as an attempt; the stop flag |
| Stop and resume `node/control.go` | `Node.stopped` | `circular-stop`, `circular-resume` | read by all runs while they run |
| Payment and preimage store `node/payment.go`, `node/preimage.go`, `node/db.go`, `cmd/circular/hooks.go` | keys of the Badger database: preimages, timeout markers, stats | `SendPay`, `htlc_accepted`, `sendpay_success`, `sendpay_failure`, `circular-delete-stats` | timeouts racing hooks and notifications, crashes, HTLCs pending for days |
| Liquidity updates `node/liquidity.go` | `LiquidityUpdateChan`, 16 slots | enqueued by failures | nobody reads it |
| Peer table `node/peers.go`, `node/cron.go` | `Peers`: connection and balances | `refreshPeers`, `OnConnect`, `OnDisconnect`, `UpdateChannelBalance`, lookups | answers and results that are late relative to each other; unsigned arithmetic |
| Locks | `PeersLock`, `channelsLock`, `adjacencyListLock`, `aliasesLock` | every operation above and below | order, recursion, maps accessed without their lock |
| Graph store `graph/graph.go` | `Channels`, `Inbound`, `Aliases`, believed liquidity | refresh, prune, lookups, liquidity aging | two maps describing the same channels |
| Graph file `node/file.go` | `graph.json`, `.old`, `.tmp` | save, load | crashes, failing writes, saves that overlap |
| Path finding and route `graph/pathfinder.go`, `graph/route.go`, `rebalance/route.go` | distances, hops, priority queue | `GetRoute`, `Prepend`, `Append` | hops overwritten while the search goes on; limits on hops; fees upon fees |
| WebSocket server `node/websocket.go` | active sockets | requests, broadcast of every attempt | a lock that is held while sending |
| Plugin set-up, statistics, formatting | none of their own | registration, listings, text | none |

How they meet: a parallel rebalance starts single rebalances as goroutines and
changes the peer table with their results. A single rebalance reads the peer
table and the stop flag, stores a preimage, asks the path finder for a route
over the graph, and hands the payment to `lightningd`. `lightningd` answers
three times, independently: to `WaitSendPay`, to the hook when the HTLC is back
at the node, and by a notification. Cron jobs replace the peer table and the
graph under all of this, and save the graph.

What makes each correct:

- **Parallel rebalance**: the total is never exceeded, a channel is used by no more
  parts at once than it was listed, channels are depleted or filled up to the
  threshold and beyond it only by single parts and what the table does not show,
  the call returns and leaves nothing behind.
- **Single rebalance**: HTLCs, hops and preimages are bounded by the parameters;
  the report counts what was fired; a call that starts after a stop fires nothing;
  a call ends.
- **Payment**: the preimage is there while its HTLC may come in and is gone when
  it was used or given up, whatever RPC calls fail; payments of others are left
  alone; nothing blocks for ever on an HTLC that does; successes are recorded and
  timeout markers consumed.
- **Peer table**: while nothing interferes balances err by what the table cannot
  know and by the fees it ignores, by nothing else, and they become right again
  whatever interfered.
- **Locks**: one order, no deadlock, no map written while another goroutine
  accesses it. (`FindCandidates` breaks the first two, `validatePeers` the last.)
- **Graph file**: a start always finds a whole graph, never an older one than a
  start before it.
- **Graph store**: the map and the adjacency list hold the same channels; the
  graph follows what `lightningd` knows, late answers and restarts
  notwithstanding; beliefs are forgotten in the end.
- **WebSocket server**: who is served is registered, once; broadcasts reach
  everybody in one order and none after the end of its run; no client that reads
  holds up a payment for ever.
- **Path finding**: the hops form one path, a circle through the node, that pays
  every fee; without a binding limit it is the cheapest; the search ends.

## Modules

| Module | What it is |
|---|---|
| `RebalanceBudget` | abstract: an amount spent in equal parts that are reserved, then settled or released |
| `ParallelRebalance` | the handler and goroutines that pull and push share; implements `RebalanceBudget` |
| `PullPush` | `circular-pull` and `circular-push`: `ParallelRebalance` with the candidates each finds, the thresholds, and the table and the balances behind them |
| `ParallelRebalance_proofs` | theorems about both |
| `RebalanceRun` | the attempt loop of `Run`, and the stop flag, for several runs at once |
| `RebalanceRun_proofs` | theorems about it |
| `Payment` | attempts, hook, notifications, database, failing calls, crashes |
| `Payment_proofs` | theorems about it |
| `PeerTable` | balances and connections against `lightningd`'s |
| `PeerTable_proofs` | theorems about it |
| `Locks` | the four read-write locks and the maps behind them |
| `Locks_proofs` | theorems about it |
| `DurableGraph` | abstract: one stored graph, replaced at once by newer ones |
| `GraphFile` | the save over three file names, the load, crashes; implements `DurableGraph` |
| `GraphStore` | the channels in memory and their adjacency list: refresh, prune, save, start, beliefs |
| `GraphStore_proofs` | theorems about it |
| `WebSockets` | clients, their handlers, broadcasts, and the runs that wait for them |
| `WebSockets_proofs` | theorems about it |
| `Pathfinder` | the search and the route made of its result |
| `Graph_proofs` | theorems about `GraphFile` and `Pathfinder`, the package `graph` but its store |
| `MC*` | instances for TLC |

An operator that no action uses, standing before the one it resembles
(`AddAll` before `AddSuccess`), is a faulty variant of the code:
exchanging the two makes a named property fail. Each property has one; they
document what the property guards against.

### How the models stand for the code

**ParallelRebalance.** `pc` is the place of the handler: `fire` is the loop of
`FireCandidates`, `wait` the loop of `WaitForResult`. The variables with capital
names are fields of `AbstractRebalance`; amounts are in msat, as in the code, and
the report in sats. `SkipCandidate` and `FireCandidate` are the two ends of
`GetNextCandidate`: whether a popped candidate is usable depends on a peer table
that others change, so both are always possible. `FindCandidates` yields any
list of `CandidateLists`; pull and push differ only in what they look for there
(`PullPush`) and share everything else. `ReceiveResult` is one turn of the loop of
`WaitForResult`: the report, the re-enqueueing and the account, in one action
because only the handler's goroutine touches them. A worker blocks in `sending`
until it is received, which is what the unbuffered channel means. `Worker` are
slots for goroutines; the code has no such limit.

**PullPush.** Extends `ParallelRebalance`: every action is one of its actions
with more conditions and with the table, so that the specification implies
`ParallelRebalance!Spec` with no mapping. `setDefaults`, `OutPPM`,
`GetCandidatesList`, `FindCandidates` and `CanUseChannel` are the functions of
`pull.go`, `push.go` and `candidates.go`. A part settles in `lightningd` (`toUs`)
when its goroutine succeeds, and in the table (`Peers`) when the handler
receives the result; a part that failed by timeout may settle later
(`SettleLate`) without the table. `Settle` is both: the outgoing channel pays the
part and the fees of the route, which are the candidate's in a pull (`Cost`), and
`UpdateChannelBalance` moves the part alone. `hidden` is a history variable: by how
much the table came to show more of a channel than is left and parts that await
their account explain. Three things add to it: the fees, an answer from before a
part that was already accounted for, and a balance of the table that left the
numbers of 64 bits, or the capacity. Balances and fees are in sats.

**RebalanceRun.** `i` and `maxHops` are the variables of the loop of `Run`.
`search` lies between the check of the flag and the end of the path search,
`fire` before `SendPay`, `waiting` inside it. Every error that `runAttempt` may
return is an action: `NoRoute` raises the limit, `TryAgain`
(`ErrTemporaryFailure`) counts an attempt, the others end the run. `begun` is a
history variable: the calls that started while circular was stopped and that no
`circular-resume` has freed since.

**Payment.** One payment per preimage. Each database transaction is one step,
since Badger's are; code between them interleaves: `manageTimeout` is
`DeletePreimage` then `MarkTimeout`, `deleteIfOurs` is `LookupPreimage`,
`LookupTimeout`, `DeleteKey`. `htlc` and `hook` are `lightningd`'s side. A
crash loses goroutines and the channel and keeps the database. After a crash a
payment is not attempted again: `killed`. `SendPay` may return an error though
`lightningd` has the payment (the call timed out), and `WaitSendPay` an error
that says nothing of it. A key expires 14 days after it was stored, which is
later than its goroutine and its HTLC can last (`Unused`).

**PeerTable.** `real` is `lightningd`'s truth, `Peers` the plugin's copy,
`snapshot` an answer of `ListPeers` that is not stored yet. An HTLC has a life of
its own (`htlc`), which may be longer than that of the goroutine that waits for
it (`stage`). `Settle` takes the part and its fees from the outgoing channel,
`UpdateChannelBalance` the part; `unseen` is a history variable, the fees that
left each channel so far. Subtraction wraps at `Word`, which stands for 2^64.

**Locks.** Every operation is a script of lock operations and map accesses, read
off its code. Between two operations a goroutine holds no lock, so processes
that choose a script again and again cover all goroutines. `ValidatePeers` is the
one script that reads a map (`Peers`) without a lock. `RWMutex` is modelled
as Go documents it: a writer that waits keeps new readers out, its `Unlock` lets
in those that wait.

**GraphFile.** Names refer to inodes. A graph is its age. `Torn` is an empty or
partly written file. A crash may come between any two calls and while the
encoding is written. `CreateTmp` comes before the lock is taken, as in the code.

**GraphStore.** A channel has the time of its last update and the time at which
something was learned of its liquidity, `Half` when nothing was. A job is one
run of `refreshGraph`; it holds `lock` (`channelsLock`) through the loop of
`RefreshChannels` and through that of `PruneChannels`, and its answer may be
older than that of a job that overtook it. The file is replaced at once, which
`GraphFile` shows of one save at a time; when two jobs save at once finding 3 is what
happens, and this model does not have it. `Files` are graphs that an earlier version left,
with beliefs of its own: this one learns nothing (see below). `remove`
moves the last element into the gap, hence `Remove` on sequences.

**WebSockets.** `handler` is the goroutine of a connection, `waiter` that of a
request to rebalance, `run` the single rebalance it asked for. A broadcaster
is a run (its attempts) or a request (its result); `step` says whether it waits
for `activeWebSocketsLock` or holds it. Sending takes one step per socket, in the
order of the list. `conn` tells a client that closes (the handler reads
`io.EOF`) from a connection that breaks (the handler reads another error, for
ever, and the socket stays). `heard` and `cut` are history variables.

**Pathfinder.** One step treats one item of the heap. Neighbours come in the
random order of Go maps and the heap breaks ties as it likes: both are free
choices. The search runs from the destination to the source. `Recompute` is what
`Prepend` and `Append` do to the amounts. `BestUpTo` is a reference defined from
paths, without a queue.

## Runs

| Run | Instance | What it shows |
|---|---|---|
| `PullPushCalls` | 2 peers with a channel each (cheap or dear), routes that cost 1 sat, or 2, which `maxppm` refuses, 2 worker slots, totals of two and four parts and one that does not divide, splits -1, 1 and 2, no list, lists that name a peer twice, a list with strangers, channels above the threshold or between it and a part, 1 refresh, 1 late HTLC, disconnections | Under every order of results, successes and failures: `InFlightAmount` is the amount of the goroutines alive, the total is never exceeded, `splits` holds, the report agrees with the account; a candidate never multiplies; thresholds are missed by a part per listing and by what the table shows too much, at most; the call implements `RebalanceBudget`; it returns |
| `PullPushThreshold` | the same without fees, refreshes and late HTLCs, channels of 250000 and 300000 | Finding 2 |
| `RunAttempts` | 2 runs, attempts -1, 0 (default 1) and 2, hop limits 2, 3 and 5, stop and resume at any time | The counters bound HTLCs, hops and preimages; the report counts the HTLCs; a call that starts while circular is stopped fires nothing; every run ends |
| `PaymentFaults` | 1 payment of circular, 1 foreign, 2 crashes, a channel of 1 that may be full, failing RPC calls, expiry | The hook refuses only what timed out; a preimage deleted by a timeout is not given out later; what was recorded cannot be paid out again; every attempt ends though HTLCs may hang; successes are recorded though nobody reads the channel, but when their notification falls between the two transactions of `manageTimeout`; a timeout marker that is there when its notification comes is consumed |
| `PeersConverge` | the target and one other channel, two pulls and a push, 3 parts of size 3 with a fee of 1, 1 refresh job, 1 foreign payment, 1 disconnection | Until something interferes the table errs by parts it does not know of and by fees alone; it is right again whenever the channels rest |
| `LocksOrdered` | 3 goroutines, all scripts but `FindCandidates` | No deadlock, one order, everyone proceeds; `validatePeers` alone races, on the map of peers |
| `LocksCandidates` | 2 goroutines | Finding 1 |
| `FileSafety` | 1 save at a time, 3 versions, 3 crashes | A start always finds a whole graph; saving implements `DurableGraph` |
| `FileOverlap` | 2 saves, 1 crash | Finding 3 |
| `GraphKept` | 2 channels of one edge, 2 overlapping refreshes, 1 crash, 2 ticks of the clock, no file or one with a belief | Map and adjacency list agree; closed channels go and updated ones stay, late answers notwithstanding; beliefs are forgotten |
| `ClientsServed` | 2 clients with a request each, 1 run of 2 attempts, buffers of 1 | Served clients are registered once; broadcasts keep one order and miss nobody until a send fails; nothing is heard after the end of a run; runs, requests and handlers end |
| `PathSearch` | every graph over 7 links of 4 nodes, and our own node | Hops form paths, the route is a circle that pays its fees, it is the cheapest when neither the limit nor a minimum HTLC size binds, only channels of the same peer make `Prepend` panic, the search ends |

Why the bounds are enough:

- *PullPush*: with the default part of 100000 sats the totals are four parts (the
  default) and two, and 250000, which does not divide, is refused. `splits` 2 is as many as
  there are slots, and the theorems on the account hold for any number of slots, so
  that one too many is not hidden by the bound there. A channel of 1000000 is used
  above 200000, so 300000 allows one part and 150000 none; a channel that is
  listed twice (a list that names its peer twice) may be used by two parts that
  each saw 300000. A fee of 1 sat is what `maxppm` 10 allows for a part; it shows in
  every later balance. Refresh, late HTLC and disconnections may fall anywhere. `Word` is
  far above every sum of balances and yet below a balance that wrapped.
- *Hop limits* lie below, at and above the shortest route of three; attempts
  include the values that get the default.
- *Payment*: payments share nothing but the channel of updates. It starts with
  any number of updates of earlier payments, which stands for them; a
  buffer of 1 instead of 16 is empty or full. The foreign payment meets the hook
  and the notifications as ours does. Two crashes may hit the payment at two
  places, with a restart between them. `Payment_proofs` covers any number of
  payments and crashes.
- *Locks* needs three goroutines: a reader, a writer that asks in between, and
  the holder of another lock. Every script is available to each.
- *GraphFile*: four inodes suffice for three names and an open file. Three
  versions and three crashes allow a save to be interrupted, a second one to be
  interrupted on top of what the first left, and a third to succeed.
- *PeerTable*: a part of 3 and a fee of 1 cannot be mistaken for one another, nor
  can their sums. `Word` 17 is more than twice `Total` 8, so that a balance below
  zero is a number no channel has. Three parts overlap on the same two channels,
  in one or both directions: enough for a part that was given up and others that
  take out again what it brought, which is where a balance leaves the numbers of
  64 bits without any refresh. With one switch a channel disconnects and does not
  come back, so that two connection events of one channel are not reordered.
- *GraphStore*: two channels of one edge are what removal by swapping needs. With
  `PRUNING_INTERVAL` and `LiquidityRefresh` of 0 a channel is old, and a belief is
  forgotten, a tick after it was seen; the clock has two ticks, so there are
  channels older than, as old as, and younger than the limit. Two jobs overtake
  one another once.
- *WebSockets*: one run has two broadcasters that compete for the lock, its own
  and that of its request; one client may be sent to while the other waits,
  leaves, breaks or joins. A buffer of 1 is full after one message.
- *Pathfinder*: a link may be missing, free, dear (its fee makes a detour
  cheaper), or, next to the destination, thin (carries the amount but no
  fee on top) or double. The limits allow one, two and three channels between
  the peers; with three no simple path is excluded. Our own node has free
  channels to both ends, which the search must not use. Minimum HTLC sizes do
  not bind in these graphs, and `MaxDistance` is above every fee, as 2^31 msat
  is.

Symmetry is used in `FileOverlap` only, over files, without temporal properties.

Types are checked where a theorem needs them: `TypeCorrect` of
`ParallelRebalance`, `RebalanceRun`, `Payment` and `GraphFile`, and `Shape` in
the proofs of the others.

## Fairness

Only what the code's scheduling gives:

- Goroutines that can take a step take it (`WF`). It covers the handler of a
  parallel rebalance once it was called, `Run`, hook and notification handlers.
- A `Run` ends: its attempts are counted and each waits at most the 120 seconds
  of `SendpayTimeout`. In `ParallelRebalance` this is an assumption
  (`WF(WorkerFinish)`); `RebalanceRun` shows it for the loop
  (`EveryRunEnds`) and `Payment` for `SendPay` (`EveryAttemptEnds`).
- Cron calls `refreshPeers` and `refreshGraph` again and again and their RPC calls
  return in the end (`PeerTable`, `GraphStore`); a plugin that died is started again
  and time passes (`GraphStore`). That `refreshPeers` gets `PeersLock` in the end sets
  finding 1 aside: after that deadlock the table is never right again.
- Clients of the WebSocket server read what they are sent, or close or lose their
  connections (`WF(Read)`): `Send` has no timeout, and without this one client stops
  every payment (`BroadcastsEnd` says so).
- A goroutine that asks for a write lock gets it in the end (`SF` on `Asks`),
  since `sync.Mutex`, which `RWMutex` uses among writers, hands itself to the
  longest waiter once it starves. The same holds of the handlers and broadcasts
  that share `activeWebSocketsLock`, and of the jobs that share `channelsLock`.

Nothing is assumed of HTLCs, payments of others, crashes, restarts, users or
connections. No call is assumed to be made. `TableConverges` speaks of
behaviours in which foreign payments and reconnections stop, by their bounds.

## Proofs

All are checked by TLAPS for every value of the constants that meets the named
assumptions of the modules; those say that arguments are numbers, sets are
disjoint from their "none" values, and, for workers, finite.

**`ParallelRebalance_proofs`.** `IInv` adds to the properties what they need: the
amount and the account of what was moved are whole numbers of parts
(`ValidGenericParameters` makes the total one), `splitAmount` is positive
once the call was accepted, and the report keeps pace with the account. The
heart is `RoomForOneMore`: when the parts moved and reserved are fewer than the
parts of the total, one more fits; without divisibility the loop condition
`AmountRebalanced + InFlightAmount < amount` would overshoot. Theorems:
`TypeCorrect` (unsigned amounts never go below zero), `InFlightCorrect`,
`NoOvershoot`, `BoundedSplits`, `NothingAbandoned`, `ReportCorrect` (the report
in sats agrees with the account in msat), `CandidatesUsedExclusively`, `NoCopyIsMade`, and `CallImplementsBudget`, the
refinement of `RebalanceBudget`. `CandidatesUsedExclusively` assumes
`DistinctCandidates`: the lists that `FindCandidates` may build name no channel
twice, which holds unless the user repeats a peer. It needs a second invariant,
that queue and running parts are disjoint, and two lemmas about pushing to and
popping from a queue without repetitions. `NoCopyIsMade` is without that
assumption: it counts the copies of a channel in the queue (`Queued`) and in use
(`Users`), of which firing moves one and a result gives one back or loses it.

`PullPushIsParallelRebalance` says that a pull or push, with its lists, prices,
thresholds and the table behind them, is a `ParallelRebalance`: each step is one
of its steps or leaves its variables alone. So every theorem above holds of both
commands; `PullPushNeverOvershoots` states the first of them.

`ThresholdsMissedByParts` is `MissesByAPart` for any channels, lists, thresholds,
refreshes and late HTLCs. `AInv` keeps three accounts per channel. A copy that
was listed is queued, is with a part that may still settle (running, or given up
and late), or is spent: the parts that the table does not know of are among the
spent ones (`CopiesAccounted`). The table shows at most what is left in
`lightningd`, a part for each spent copy, and what is `hidden` by it
(`TableAccounted`), which is all that is needed when a candidate is checked. And
what is left is at least the threshold less `hidden` and a part for each copy that
is not with such a part (`ThresholdKept`), so that each of those may take one more.
A part that settles takes its fee from what is left and adds it to `hidden`
(`SettleMoves`). Each action moves a copy from one place to the next, and one lemma
says what it does to the accounts (`FireAccount`, `RunAccount`, `LateAccount`,
`ReceiveAccount`, `RefreshAccount`). The proof showed why a wrapped balance is part
of `hidden`: in a push over a channel that was listed twice, a part that a refresh
has counted may be counted again by its result; the balance in the table then
exceeds the capacity, `Total - balance` wraps, and the full channel looks empty.

**`RebalanceRun_proofs`.** `CallInv` relates the counters at each place of the
loop: at its head `fired = i - 1`, and the preimages stored are the attempts
counted plus the limits raised; `HeldInv` says that a call that started while
circular was stopped has not passed the check. Theorems: `TypeCorrect`, `AttemptsRespected`,
`HopsRespected`, `ReportCorrect`, `FewPreimages`, `StopCorrect`.

**`Graph_proofs`**, on the file. The theorems assume `AtMostOneJob`; finding 3
shows why. The invariant follows the inodes: the three names differ, the file
and the old one are whole, and from the end of an encoding until its publication
the temporary file is whole and not older than what a start would load. Theorems:
`TypeCorrect`, `GraphAlwaysLoadable`, and `SavingIsAtomic`, the refinement of
`DurableGraph`: a save is a single `Save` step, at `Publish`, and every other
step, `KeepOldFile` included, leaves what a start would load as it was.

**`Graph_proofs`**, on the search, for any nodes, channels, fees and limits. What
could go wrong is that hops are stored per node and overwritten while other
nodes rely on them. `SearchInv` says why they do not: a node is settled when
no item of the queue costs less than its distance; what is settled keeps its
distance (an item costs at least what it came from: fees are not negative), and
the channel of every node that was reached leads to a settled node, which is
reached for the amount that the hop forwards. Free channels make distances equal
along a way, so distances alone do not exclude a cycle: `Depths` says that the
nodes can be numbered by how many channels they are from the destination, each
one more than the node it goes on to, and none beyond the limit. From these numbers the walk
of the hops is shown, by induction over its length, to end at the destination
and to meet no node twice. `RouteInv` adds what `getRoute` makes of it.
Theorems: `HopsAlwaysFormPaths`, `RouteIsAlwaysCircle`, `FeesAreAlwaysCovered`,
and `PanicNeedsSamePeer`, that `Prepend` meets a route without hops only when
both channels lead to the same peer.

`RouteIsCheapest` is `CheapestWithoutLimit`: what the search finds costs what
`BestUpTo`, defined over all paths without a queue, gives. It needs that a node
without an open item was expanded with its last distance (`Closed`), and an
induction over the length of paths: at the end of the search every path costs at least the
distance of its first node. The proof needs `MinimumsMet`, that no channel asks
for more than the amount. A channel that does is closed to a node that is
reached for less than its minimum and open to one that is reached at a
greater cost: the cheaper way of a node may close a channel into it that a
dearer way would have opened, so that the search may miss the cheapest route, or
the only one, and the property would be false without the precondition.

Assumptions of `Pathfinder`: nodes and graphs are finite, our channels begin and
end at our node, amounts and fees are numbers, the amount to be moved, and
`MaxDistance`, are not zero, and hop limits are at least three.

**`Locks_proofs`.** For any number of goroutines and any choice of sections. `Scripted` says
that what a goroutine has left to do can be run from what it holds to
holding nothing, each step being allowed: it releases only what it has, reads a
map under the lock that keeps it (`Keeper`), writes it only under that
lock held for writing, and takes locks in the order; or that it is
what is left of `ValidatePeers`, and holds nothing (`Going`). It is checked once per
script (`DijkstraRuns` and the lemmas beside it) and kept by every step, since a step does
what the head of the script says. `WriterAlone` and `WaitForWriter` are about
`RWMutex` itself. Theorems: `OneSectionRaces` (no map is accessed while another
goroutine writes it, but the peers by `validatePeers`), `NoMapRaced` (without
`validatePeers`), `LocksTakenInOrder` (without `FindCandidates`; finding 1 shows
why) and `NothingLeftLocked`.

**`Payment_proofs`.** For any payments, capacity and number of crashes. The
invariant says where the preimage is: stored from before the HTLC may exist until
it is over (`PreimageKept`), unless the timeout took it, and then never again
(`PreimageGone`); and that `lightningd` knows nothing before `SendPay`
(`LightningdFollows`). Theorems: `TypeCorrect`, `RefusalCorrect`,
`SettledCorrect`, `TimeoutCorrect` (an action property), `ForeignCorrect`, and
`RecordCorrect`, the second half of `SuccessesRecorded`: a success of ours is
ignored only while `manageTimeout` is between its two transactions, or died there.
It needs `Findable`: the notification finds the preimage, or the marker once the
timeout is complete.

**`PeerTable_proofs`.** `TableIsExact`, for any number of channels and
of parts that overlap. `Account` is the real balance plus the fees and the parts that
left without the table, less the parts that arrived without it. Every step of an HTLC leaves
it as it is (`CreditKeepsAccount`, `SettleKeepsAccount`), a result moves it and
the table by the same part (`ResultMovesAccount`, `PlusPlus` for the arithmetic
modulo 2^64). It needs that a part without HTLC is in no set of the account and
that its two channels differ.

**`GraphStore_proofs`.** `MapAndListAgree`: `ViewsAgree` for any number of channels,
edges, jobs, crashes and files. The property speaks of the channels already
loaded, which makes it inductive through a start; `Shape` adds that nothing else
runs meanwhile. `RemoveIs` says what removal by swapping returns.

**`WebSockets_proofs`.** `ListOfSockets` (`RegisteredWhileServed`) and `EndIsLast`
(`NothingAfterTheEnd`), for any number of clients, runs and requests. The latter
needs what is being broadcast: the attempt of a run that waits for it
(`BroadcastOfRun`), an end only of a run that is over, and that a run asked for by
a client was asked for once and has not begun (`AskedOnce`).

`BroadcastsInOrder` is `HeardInOrder`, for any number of broadcasts that interleave
with clients that come and go. Its invariant `HInv` says that one broadcast sends
at a time and owes each socket at most one message (`Senders`); that no message
is broadcast twice (`Numbered`: attempts are numbered, a request is answered
once), so that a message has one place in what a client heard, and the one
being sent has the last (`HeardOnce`); and that what a client heard, with the message it is
owed (`Complete`), is the end of what an older client heard.

Every safety property that a run checks is stated by a theorem. Only checked by
TLC is every liveness property (`Returns`, `EveryRunEnds`, `EveryAttemptEnds`,
`SuccessesRecorded`, in its first half, `MarkersConsumed`, `SectionsEnd`,
`PeersRefreshed`, `TableConverges`,
`GraphConverges`, `BeliefsForgotten`, `BroadcastsEnd`, `SearchEnds`), since
fairness and `ENABLED` are out of the proof system's reach.

The provers in use have no rule of induction over sequences or sets. Where
a proof needs one, the hypothesis is made a set of numbers and its least
counterexample is contradicted (`LeastNumber`, `SetInduction`, from the well-foundedness of
the numbers). This is how the walk of the hops and `BestUpTo` are reasoned
about; the latter, a recursive function, is unfolded once it is shown that a
function with its equations exists.

## Disagreements between the code and what is said of it

1. **`LocksCandidates`** (`rebalance/parallel/candidates.go:11`).
   `FindCandidates` holds `PeersLock` for reading while `IsGoodCandidate` reaches
   `GetChannelPeerFromScid`, which takes it for reading again
   (`node/peers.go:46`). If `refreshPeers` asks for the lock in between, the
   second `RLock` waits for the writer and the writer for the first: the peer
   list, which `node/cron.go:24` says is refreshed every 30 seconds, never is
   again.
2. **`PullPushThreshold`** (`rebalance/parallel/pull.go:92`). `CanUseChannel` compares
   the balance before the part with the threshold. A part of 100000 sats is pulled
   out of a channel of 250000 whose threshold is 200000: 150000 are left, where
   `README.md:103` says of its example that "at least 1000000 sats will be left in
   that channel". How far below a channel may go is `MissesByAPart`.
3. **`FileOverlap`** (`node/file.go:75`). Cron starts a refresh of the graph though
   the last one still runs. `os.Create` truncates the temporary file before the
   lock is taken, so one save may publish the file another is still writing; a
   crash then leaves a file that ends every later start.

Other statements of the documentation that the code does not keep, without a run of
their own:

- `README.md:23` says that `circular-stop` stops circular "from firing new htlcs".
  The flag is read before the search (`rebalance/rebalance.go:116`), so that each
  run that has read it still fires the HTLC it prepares. What holds is what
  `node/control.go:22` says, that new commands fire none (`NewCommandsFireNothing`).
- With two channels of the same peer the search ends at once and without hops, and
  `Prepend` reads the first hop, which panics (`graph/route.go:44`). `circular-node`
  says "validate that the nodes are not the same" and refuses this
  (`rebalance/bynode.go:81-84`); `circular` does not. That nothing else leads there is
  `OnlySamePeerPanics`.
- `README.md:117` says that `minoutppm` is ignored when an `inlist` is given.
  `push.go:52` sets it to 0, which `push.go:136-138` replaces by the default of 50.
- `README.md:124-125` gives 0.2 and 1000000 as defaults of `filluptopercent` and
  `filluptoamount`; the code has 0.8 and 10000000.

Seen while modelling, and stated by nothing in the repository, so that no run
claims them:

- `manageTimeout` and the hook are not ordered: a hook that read the preimage
  just before it was deleted completes a payment that was reported as timed out.
- A notification, of a failure or of a success, that arrives between the two writes of
  `manageTimeout` is taken for a foreign one and not recorded, and the marker that is
  written next has lost its consumer. A handler that found the preimage just before
  it was deleted leaves the marker behind too.
- `UpdateChannelBalance` subtracts the amount of a part and not its fees
  (`node/peers.go:107`), which the outgoing channel pays (`graph/route.go:53-62`): after
  each success the table shows too much of it until the next refresh.
- `UpdateLiquidity` is started nowhere: after sixteen failures the handlers of
  further ones block for ever. Successes do not use the channel.
- The stop flag is read and written without a lock.
- A channel is checked to carry the amount without its own fee.
- With a binding hop limit the search, which keeps one way per node, may miss the
  only route within the limit.
- The success of a part that a refresh has already counted takes an unsigned
  balance below zero until the next refresh. So does, without a refresh, a part
  that was given up and arrived and two that took its amount out again.
- A socket whose connection was reset stays in the list, since only `io.EOF` takes
  it out, and its handler reads the same error again and again. Every broadcast ends there: the
  clients that registered later hear nothing any more (`websocket.go:253`).
- The map of a request is reused for the next one on the same connection
  (`websocket.go:89-92`), so that keys the next one omits keep their values.
- `rebalancefailed` may be broadcast while the run goes on, when the call of
  `circular-scid` gave up before it.
- Nothing learns liquidity, since `UpdateLiquidity` never runs; beliefs come only
  from files of earlier versions.
- Peers that `lightningd` no longer lists are never removed from the table
  (`cron.go:90`).
- `validatePeers` (`rebalance/bynode.go:75,88,91`) reads the map of peers without its lock;
  Go ends a program in which `refreshPeers` writes it meanwhile.

## What is not modelled

- Errors of the database: each transaction takes place. The code logs an error of most of
  them and goes on (`node/payment.go:59-61, 65-67`), so that a preimage whose deletion failed
  stays.
- Saves of the graph that overlap, in `GraphStore` (finding 3 shows what they do).
- Connection events of one channel that are handled in another order than they came.
- What a goroutine of a pull or push does is its outcome in `ParallelRebalance`; how
  attempts, routes and payments lead to it is in `RebalanceRun`, `Pathfinder`
  and `Payment`, each on its own.
- Width of integers, except for balances in `PeerTable` and `PullPush`.
- Go's memory model for the stop flag: a read returns the last write.
- A file system that loses what was written: the code does not call `fsync`, and
  nothing in the repository promises to survive a loss of power.
- Peers that appear while parts run; channels may become unusable or leave the
  graph. Aliases, capacities and fees that gossip changes.
- Requests of the WebSocket server that only ask something are one kind; their
  answers are not told apart.
- Plugin registration, statistics, text and formatting (no state of their own).

## Plan

Written, in this order, most important first: `RebalanceBudget`,
`ParallelRebalance` and its proofs; `Payment`; `Locks`; `RebalanceRun` and its
proofs; `DurableGraph`, `GraphFile` and its proofs; `Pathfinder`; `PeerTable`;
`Payment_proofs`; `GraphStore`, `WebSockets` and `PullPush` with their proofs;
`PeerTable_proofs`; `Locks_proofs`, the proofs about `Pathfinder` (with those of
`GraphFile` in `Graph_proofs`), and those of `HeardInOrder`, `CandidatesNeverMultiply`
and `MissesByAPart`.

To come:

1. A composition of `ParallelRebalance`, `RebalanceRun` and `Payment`: the
   outcome of a worker is the result of a run whose attempts are payments. Its
   question: by how much may late HTLCs make the sum of what moved exceed the
   amount?
2. Proofs of what needs no fairness in the liveness properties: variants, such
   as that each step of a search lowers a distance or takes an item out.

The number of runs is kept to a dozen: later modules take the place of, or
join, runs whose question they answer more generally.
