# A verification project for wenay-common2

TLA+ modules, TLC configurations and TLAPS proofs for the parts of `wenay-common2`
(3.3.2, TypeScript) that decide whether replicated state, commands and owned resources
are right. Every definition is translated from the source; `PROJECT.json` maps each one
to the lines it stands for. Paths below are relative to `src/src/` unless they begin with
`doc/`, which is relative to `src/`.

Contents: 1 the system, 2 the modules, 3 the runs, 4 bounds and fairness, 5 the proofs,
6 disagreements found, 7 limits and not modelled, 8 what could come next.

## 1. The system

The library runs in one JavaScript thread per process, so there is no preemption. Its
concurrency comes from three places, and the models interleave exactly there:

- **awaits**: between a call and its continuation anything else may run;
- **callbacks**: user code is called synchronously and may call back into the component
  that is calling it, before that component has finished its own step;
- **other processes** behind a transport that drops, storage that fails, and timers.

### Components that are modelled

| Component (source) | State it keeps | Operations | Module |
|---|---|---|---|
| Replay line (`Common/events/replay-listen.ts`) | head number, bounded journal, current-state provider | emit, bulks, since, frame, keyframe, age and count eviction | `ReplayLine`, `ReplayJournal` |
| Replay subscriber (`replay-wire.ts`) | last delivered number, generation of the catch-up, queues | subscribe, catch-up, live tap, disconnect, reconnect, off | `ReplaySubscribe` |
| Replay route (`replay-route.ts`) | slots, active and pending slot, chain of switches | switch, time out, off | `ReplayRoute` |
| Conflation gate (`replay-conflate.ts`) | episode, last event of each key | forward, absorb, recover, poll | `ReplayConflate` |
| Durable store and its log (`Common/Observe/store-durable.ts`, `server/fsReplayStorage.ts`, `events/replay-history.ts`) | undrained writes, batches, head, log | write, drain, persist, keyframe, prune, restore, close | `DurableStore` |
| Spill journal (`server/fsSpillJournal.ts`) | memory window, two segments and their index | spill, rotate, read, close | `SpillJournal` |
| Replicated map, follower (`Common/Observe/replicated-map.ts`) | line followed, number, content, checkpoint | negotiate, catch up, reset, checkpoint, resume | `MapFollower` |
| Store replica set (`Common/Observe/store-replica-set.ts`) | offers, sessions, descriptors, role, authority, route | refresh, reconcile, follow, promote, close | `StoreReplicaSet` |
| Command host (`Common/command/`) | receipts per account, their line | execute, adopt, close, eviction | `CommandHost` |
| Scale authority and control line (`Common/scale/scale-authority.ts`, `scale-control.ts`) | role acted upon, control line, roster, receipts, node links | follow, take over, give back, revoke, execute, serve links | `ScaleAuthority` |
| Resource scope (`Common/async/resource-scope.ts`) | entries in the order of admission | own, acquire, release, close | `ResourceScope` |
| Reconciler and its queue (`Common/async/reconciler.ts`, `waitRun.ts`) | pending request, drain, retry timers | request, retry, pass, close | `Reconciler` |
| File job host (`Common/resource/file-job-host.ts`) | files, jobs, per-account views | upload, confirm, run, report, cancel, close | `FileJobHost` |
| Resource session (`service/resource-session.ts`) | identity, rights, opened resources | open, close, refresh, suspend, expire | `ResourceSession` |
| RPC client and server, calls (`Common/rcp/rpc-client.ts`, `rpc-server.ts`, `Common/id-pool.ts`) | ids, pending requests, callbacks, shared subscription | call, subscribe, answer, end, drop, dispose | `RpcCalls` |
| RPC flow credit (`Common/rcp/rpc-flow.ts` and both ends) | credit, watermark, stream queue | push, acknowledge, poll, drop, respond | `RpcFlow` |
| Artifact host (`Common/artifact/artifact-host.ts`) | records, private keys, removals, passes of reap | register, revoke, expire, reap, close | `ArtifactHost` |
| Offline store (`Common/Observe/store-offline.ts`) | record on disk, unsaved changes, chain of flushes, generation of the reconnect | load, write, flush, reconnect, close | `OfflineStore` |
| Byte cache (`Common/artifact/artifact-cache.ts`) | entries by use, trips under way, generation | get, evict, clear | `ByteCache` |

What is not modelled, and why, is in section 7; `PROJECT.json` lists every component.

### How they interact

A **store** is exposed as a **replay line** of patches; a follower is a **replay
subscriber** that folds them into a mirror. The line may be wrapped: a **pre-commit
journal** or a **durable log** stores before it publishes, a **spill journal** extends the
window, a **conflation gate** sends a slow client less. A **replay route** lets a follower
change the line without a gap. The **replica set** reads the descriptors of the offered
peers and either leads its own line or keeps one route to the best authority. The **scale
authority** follows the role of the replica set: on promotion its **control line** goes on
as an owned one and its receipts are adopted by the **command host**, on demotion both are
let go. The **resource scope** owns what the reconciler, hosts and sessions have opened.
Everything remote goes through **RPC** calls and streams.

### What is hard, and what makes each component right

- *Replay line and subscriber.* The live line is tapped before the missed tail is asked
  for, so events overtake answers; a disconnect makes the answer under way obsolete but does
  not stop its continuation; the callback may emit, disconnect or unsubscribe inside the
  delivery loop; the journal may expire in between. Right: the consumer's state is a
  gap-free run, never goes back, nothing is lost once live, a strict consumer is never given
  a keyframe for events it missed, and every catch-up ends.
- *Route.* Two lines with different lags and journals overlap during a switch, share one
  delivery loop, and either may fail, time out or be answered late. Right: as above, across
  every switch, and every switch ends.
- *Offline store.* A write fails, or the process dies in it, while other flushes wait and a
  reconnect supersedes the one before. Right: the record shows the event whose number it
  has, a flush that resolves has saved, only the last reconnect has a subscription, and an
  open store is saved in the end.
- *Wrappings.* The process may die, or storage refuse, between any two steps. Right: a
  number means the same event for ever, what is published is stored and the reverse, a
  reader gets the exact tail or a refusal, nothing the gate dropped is forgotten.
- *Replica set.* A reconciliation awaits a hand-off while sessions fail, offers come and go,
  descriptors are pushed and `promote()` awaits an election. Right: role, route and
  published authority agree at rest, a leader steps down for a better authority only, an
  election outranks everything observed, and in the end the node sits at the best reachable
  authority with a live line.
- *Command host and scale authority.* Commands commit after awaits, when the host may have
  stepped down; the authority learns of its role later than the replica set takes it. Right:
  a recorded commit is not executed again, the line is the index, bounds never cost a run in
  flight its receipt, roster and receipts belong to the line of the role, and denials
  survive every change of hands.
- *Owners of resources.* An acquisition, a factory, a storage or a runner answers after the
  close, the cancellation, or under other rights. Right: a settled close has disposed of
  everything, nothing finished changes, what can be called was opened under the rights of
  now, and the bytes of what is over are removed.
- *Calls.* Ids are used again while old packets are under way. Right: an id has one owner, a
  call is settled by its own response, the window holds and nobody waits for ever.

Every hazard is listed in `PROJECT.json` at the line where it bites, with the properties
that catch it.

## 2. The modules

One module per component; its variables are the component's fields plus the messages,
continuations and calls under way, and a few observers that only properties read (they are
marked in the declarations). Comments name what an action stands for; `PROJECT.json` has
the lines.

### `ReplayLine` (producer)

`head` and `oldest` are the number of the last event and the left end of the journal; the
payload of an event is its number. `Emit` is `commitJournalEvent` with its count eviction
(`OldestAfterEmit`), `Expire` the lazy age eviction, `JournalHas`, `TailAfter`,
`FrameAnswers` and `FrameAfter` are `journalSince` and `frame`. Age eviction is any prefix
at any moment, a superset of what clocks produce.

### `ReplaySubscribe` (one consumer over a dropping transport), EXTENDS `ReplayLine`

| Model | Code (`replay-wire.ts`) |
|---|---|
| `last`, `replaying`, `gen`, `queue` | `lastDelivered`, `replaying`, `recoveryGeneration`, `liveQueue` |
| `deliveryQueue`, `calling` | the queue of `deliver` and the event whose callback is on the stack |
| `stage`, `stageGen` | how far the running `catchUp` is, and its generation |
| `calls` | catch-up RPCs: asked, or answered and not yet resumed |
| `wire`, `subscribed`, `up` | the ordered transport and the server's side of it |
| `seen`, `foreign`, `byKeyframe` | the state behind the consumer's callback (observer) |
| `ServerSubscribes`, `ServerAnswers` | the live subscription and the answer to `since`, `frame` or `keyframe` |
| `LiveTap` | `liveTap`: queue while replaying, deliver otherwise; also from inside a callback |
| `SkipDelivered`, `CallbackStarts`, `CallbackReturns`, `DeliveryFails` | `deliver`, `deliverOne`: drop duplicates, call, commit the number after the call returned; a gap or an exception is terminal |
| `ResumeAnswered`, `ResumeMissing`, `ResumeFails`, `ResumeStale` | the continuation of `catchUp` after its await, with the reset of a first attach (`ResetPoint`) |
| `TailDelivered`, `DrainQueue`, `GoLive` | the rest of `catchUp`, synchronous except for the callbacks in it |
| `Disconnect`, `Connect`, `LineEnds`, `Off` | lifecycle handlers, end of the line, `off` |

`Settled` holds between two turns of the event loop; `Callable` adds "inside the
consumer's callback". They are where the code can be re-entered.

### `ReplicaView` (abstract)

What any consumer is promised, whatever its route: its view grows at the end, event by
event without a hole, or is replaced by the whole state at some number that does not lose
anything; without keyframes alone may it start in the middle. `ReplaySubscribe` implements
it (`KeepsPromise`, with `head` for `produced` and `seen` for `view`), and so do the route,
from its first ready slot on, and every other consumer of the run. One moment is excepted
(`Ahead`): while a reset to an older keyframe is under way, or was thrown at, the route's
number is behind what its consumer has, and the view shows nothing.

### `ReplayRoute`

Several routes carry one line, each with its own lag (`heads`) and window.

| Model | Code (`replay-route.ts`) |
|---|---|
| `slot`, `attached`, `active`, `pending`, `outcome` | the slots of `attachLine`, `active`, the slot whose `ready` is awaited and how it was settled |
| `chain` | `switchChain`: the switches that wait for their turn |
| `last`, `deliveryQueue`, `calling`, `owner` | `lastDelivered`, the shared queue of `deliver`, the slot whose call of `deliver` runs the loop |
| `working`, `rest` | the continuation of a catch-up that is on the stack, and what it has still to deliver |
| `AttachLiveLine`, `RemoteAnswers`, `ResumeAnswered`, `ResumeMissing`, `DeliverNext`, `GoLive` | `catchUp` of one slot |
| `Switch`, `DoSwitch`, `TimeoutFires`, `SwitchEnds` | `switchTo`, `doSwitch`, its time limit and its continuation |
| `LineFails`, `CallFails`, `CallbackFails`, `Off` | `failLine`, a rejected call, a throwing callback, `off` |

### `ReplayConflate`

`held` is the episode's map by last touch, or `Dropped` when the limit or an event without a
key has reduced it to a keyframe; `sent`, `flushed` and `other` are the outgoing buffer, of
which only the part not flushed counts against the thresholds. The client is that of
`ReplaySubscribe`, reduced to what the gate can be judged by: a number, a state, a queue
while it catches up past the gate.

### `DurableStore`

Each write sets a path of its own, so a state is the set of the writes in it. `undrained`
are writes the store has not drained, `ready` the batches of a drain without a number,
`pc` where the synchronous drain is: `Persist`, `Commit`, `BurstPublished`,
`TakeKeyframe` are separate because the process may die, or storage refuse
(`PersistFails`, `PruneFails`, `KeyframeFails`), at each of them. `Restart` restores the
last keyframe and the events after it and goes on with the numbering. The mirror
(`Subscribe`, `Answer`, `Deliver`, `Disconnect`) lives through restarts. `lost` and
`numbered` are observers.

### `SpillJournal` and `ReplayJournal`

`SpillJournal`: the memory window (`ramOldest`), the two segments as the index sees them and
as the files are, torn lines included; every disk operation of `Spill` may be refused, and a
file that was given up may remain (`stale`). `GetSince` is a reader at any moment.
`ReplayJournal`: `emitBatchJournaled` with its queue of re-entrant bulks; `Store` and
`StoreFails` are the two kinds of pre-commit journal (`atomic` or event by event), `Commit`
the publication, from within which listeners emit (`EmitInside`).

### `MapFollower`

A line has an identity and numbers; the producer may come back with another line
(`Outside`). `stage` is where the start or the catch-up of the follower is: describe,
prepare, reset, ask, live. `shows` is the content as "line and number", or `Mixed` when a
tail was applied to something it does not continue. `Save` and `Reopen` are the user's
checkpoint and its resumption; with `Orderly` the checkpoint is taken of an open follower and
not from inside its callbacks.

### `OfflineStore`

`shown` and `noted` are the event the mirror shows and persist's `seq`; `queue` is the chain of
flushes, its first element under way once `saving` holds the record being written; `runs`
are the `runReconnect` calls that have not ended and what they await, `subs` their
subscriptions. `content` and the `owed` of each flush are observers: how far what had been
reported then is saved. A write of the application is reported by the drain that comes after
it. A store opens again when the writes and reconnects of the one before have ended: the
storage is taken to complete the operations on one key in order.

### `StoreReplicaSet` (one controller)

The peers are the environment: `remote[o]` is the descriptor peer `o` would report now. The
controller is `entry` (session, generation, descriptor, retry), `refresh` (the
`refreshEntry` under way, with the generation it was started in), `op` (the `follow` under
way and everything it saved), `active`, `sub`, `role`, `auth`, `maxEpoch`, `timer`,
`elections`. An authority is an epoch and the rank of its leader. Every await of
`refreshEntry`, `follow` and `promote` is a separation between two actions:
`ReconcileFollows`, `FrameArrives`/`FrameFails`, `RouteReady`/`RouteFails`,
`FollowSucceeds`/`FollowRestores`/`FollowAfterClose` are one `follow`; `Promote` or
`TimerFires`, then `ElectionGranted` or `ElectionDeclined` are one `promote`. The route is
modelled by the calls the set makes on it: `Abandoned` is what `off()` does to a pending
switch (`replay-route.ts:306-313`), `sub.blames` is the entry the route's error handler was
created for.

### `CommandHost`

| Model | Code (`command-host.ts`) |
|---|---|
| `order`, `receipts`, `total` | the two insertion-ordered Maps and `totalReceipts` |
| `line`, `attached` | the records on the receipts line, and whether this host publishes there |
| `running`, `entered` | commands that have not settled, and those still on the call stack |
| `Reserve`, `RateLimited`, `Duplicate` | `execute` up to the call of the command |
| `Entered` | what `execute` does when the command has returned its promise: `sweep`, `compact` |
| `Commit`, `Fail` | the continuation of `runCommandOnce`, the catch of `execute` |
| `Detach`, `Adopt` | `adopt(null)`, `adopt(line)` |
| `OtherCommits`, `Crash` | another authority writing the line, a restart |
| `published` | history: every receipt that was ever published |

The receipts of all accounts are one set, each receipt with its place among the inserted, and the
index is transformed as a whole: what a loop takes from the front of a Map is the set of what
leaves (`Swept`, the front in `DrainDeparted`), and a turn of the eviction loop is `EvictOnce`,
of which `Compact` makes as many as the code allows itself. Whatever leaves the index and is on
the line leaves the line (`Unpublished`). A result is the number of the execution that
produced it; the rate window is a refusal that may happen at any new request.

### `ScaleAuthority`

One process of the authority tier; the other authority is the environment (`upstream`).

| Model | Code (`scale-authority.ts`, `scale-control.ts`) |
|---|---|
| `role`, `reign` | `replica.control.canWrite()`, the epoch: what the replica set has decided |
| `announced` | `announcedRole`: what this process has acted upon |
| `control` | the control line: owner, follower or idle, the health of what is followed, its facts |
| `roster`, `host` | the owner facets, and the command host's line and index; "stale" when their line was let go |
| `link`, `follows` | the upstream in use, and the continuations of `attachUpstream` |
| `Elected`, `Demoted` | a decision of the replica set; `MayLead` is the `elect` seam |
| `RoleDrained`, `PromoteReturns` | `syncRole`, when the status store drains or an operator's promote returns |
| `BecomeLeader`, `BecomeStandby` | the functions of the same names, whole |
| `Hears`, `FollowedEnds` | a keyframe or patches of the followed line, its end |
| `Execute`, `CommandEnds`, `Revoke`, `Login`, `ServeLink`, `LinkWrites`, `Start`, `Close` | what the authority serves |

### `ResourceScope`, `Reconciler`, `FileJobHost`, `ResourceSession`

`ResourceScope`: an entry is admitted with a disposer or before its resource is open;
`batch` is what `finish` has left, of which the entry admitted last is awaited. `Reconciler`:
`news` and `seen` count notifications and those a snapshot has shown; `drain` is the state
of the task on the queue; the three awaits of a pass are `Read`, `PassEnds`/`PassFails` and
`TaskEnds`. `FileJobHost`: `begun`, `verifying`, `asked`, `running` are calls the storage
and the runner have not answered; `changed` is what the store has not drained to the views.
`ResourceSession`: each resource has its factory's answer, its exposure, its disposal and
two time limits; `refresh` compares account and rights with `signature` and shuts what
was opened under others.

### `RpcCalls` and `RpcFlow`

`RpcCalls`: `pool` is the stack of `createIdPool`; requests and callbacks take their ids
from it. `toServer` and `toClient` are the two directions of an ordered transport that a
disconnect cuts; `served` is the server's side. Calls carry a number that is not on the wire
and lets the properties say whose response an answer was. `RpcFlow`: the server's credit and
watermark, the client's stream queue with a synchronous or a slow consumer, acknowledgements
and the response that waits for the frames.

### `ArtifactHost` and `ByteCache`

`ArtifactHost`: `record`, `keys`, `stored` are the store, the private keys and the
storage; `removing` the removals under way, each of a caller or of a pass of `reap`, whose
position is `reaping`. `RemovalFails` may have removed the bytes or not. `ByteCache`:
`trips` are the fetches with the generation they began in; `Arrives` verifies, counts and
evicts, `ClearInflight` is the separate microtask that takes a trip off the record.

### Composite modules, configurations and mutants

Four modules run several components, **one of them chosen in the initial state** (`part`,
`consumer`), the others staying as they start: `MCReplayConsumers` (the subscription with
three policies, the route and the offline
store), `MCReplayLines` (durable, gate, spill, journal, map),
`MCAuthority` (two replica sets, command host, scale authority) and `MCResources` (scope,
worker, files, session, calls, flow, artifacts, cache). Each state graph is the disjoint
union of the parts' own graphs; no part restricts another. Fairness is stated per part as
`WF_partVars(part = "x" /\ A)`. A property of a composite is the conjunction of what its parts
state, or of one part's alone. `MCStoreReplicaSet`, `MCDurableStore`, `MCMapFollower`,
`MCRpcCalls` and `MCScaleAuthority` serve single configurations.

Definitions commented `Mutant:` are plausible bugs that no action uses. `PROJECT.json`
pairs each property of each passing run with mutants that break it, one for each component
that a composite property speaks of where that is possible.

## 3. The runs

| Run | Question | Answer |
|---|---|---|
| `consumers` | a subscription with the default policies and a journal of one event, one with `gapPolicy: 'error'` and tail catch-up, one over a line without keyframes and a throwing callback, a route that is switched, and an offline store: no hole, nothing lost while live, no step back, the abstract view of `ReplicaView`, strict gaps are terminal, everyone catches up, every switch ends; records show the event of their number, flushes save, one subscription | holds |
| `lines` | a durable store with its mirror through crashes and refusals, a gate, a spill journal, a pre-commit journal, a map's follower: numbers keep their meaning, archive and mirror hold everything, a tail or a refusal, published is stored, the gate forgets nothing, clients catch up | holds |
| `authority` | an electable candidate, a leader that cannot be elected, a command host under two bounds, an authority process: role, route, roster and receipts agree; leadership is rightful; at most once; facts survive changes of hands | holds |
| `replicaset_converges` | one peer, probing: descriptors converge, and the node ends at the best reachable authority with a live line | holds |
| `resources` | scope, reconciler, files and jobs, session, calls, flow, artifacts, cache: settled means gone, order of disposal, nothing unheard, ids have one owner, window and order of frames, finished stays finished, everything settles | holds |
| `replicaset_failed_handoff`, `replicaset_promotion`, `replicaset_starved`, `durable_prune`, `map_checkpoint`, `rpc_ids`, `scale_gap` | statements of the documentation or of comments | violated, see section 6 |

No run checks deadlock: all of these systems may come to rest (a closed subscription, an
exhausted bound).

Where a violation run and a passing one check related formulas, the passing one excludes
exactly the scenario of the violation: the replica sets of `authority` have no election
beside a hand-off, the log of `lines` does not go on after a failed rewrite
(`PruneRetried`), checkpoints there are `Orderly`, `AnsweredByItsOwn` speaks of
connections on which no client was disposed of, and `ReceiptsAnswer` of a leader that has
acted upon its role. A pass therefore says what does hold around the defect.

## 4. Bounds and fairness

**Subscriptions** (`consumers`): 3 or 4 events, 2 disconnects, journals capped at one or two
events or by age alone. A hole needs one event missed between two that are seen; a stale
answer needs one disconnect, and a stale answer that meets a newer catch-up two. A journal of
one event makes every longer absence cross its left end. The safety results of the
subscriber do not depend on the bounds: they are proved for all of them (section 5).

**Route**: two routes, one of which lags by one event, two events, one switch in each
direction of lag. Callbacks throw or re-emit, in separate initial states.

**Offline store**: one event, and two of: writes, flushes, reconnects, ends of the store and
faults; the record found may be of another line or of an older kind. With three such turns
(alone: 871 thousand states) nothing is violated either.

**Wrappings** (`lines`): 3 writes, batches of one, a keyframe every second event, one fault
and two restarts (a crash before and one after a fault); gate: 3 events over two keys and
unkeyed ones, map limits 0, 1 and 2, thresholds 1 and 0, one drop; spill: 8 events, segments
of two, two faults, so that each segment is rotated away twice; journal: four bulks of up to
two events, two faults; map: two lines, three events, a window of one, two drops and two
lives.

**Replica sets**: two offers (a hand-off needs an old and a new route), epochs up to 1 or 2
(lower, equal with rank, higher), one fault and up to two changes, one election at a time.
`MaxChanges` counts what peers, prices and offers may do, `MaxFaults` failures of sessions,
lines and calls. What needs two faults the run does not reach; its safety properties do not
depend on the bounds, as they are proved for all of them (section 5). The liveness of
`replicaset_converges` and the three counterexamples are what these bounds are for.

**Command host**: two accounts, two requests, three executions, one clock tick, call depth
two (a command that calls its own host); bounds of one receipt, which reach accounts that
hold only runs in flight in front of those that can be evicted, and bounds nothing meets.

**Scale authority**: epochs up to two (lead, lose, lead again), one upstream, one account,
one request, one node link. With two upstreams (a link replaced while its follow is under
way) the module was checked alone: 1.3 million states, no violation.

**Resources**: scope of three entries; two retry keys, four notifications; two files and one
job with one report; two accounts, two resources, two changes of identity or rights; two
calls and one drop or disposal (with three calls, alone: 3.2 million states); the session's accounts are alike, and the first of which anything
is said is taken as the first (`FirstOwnerFirst`, a symmetry reduction); a window and
acknowledgements of two, thresholds 2 and 1, two pushes at a time, four frames, so that the
window closes and opens again; two artifacts and one pass of reap beside the callers' own
removals (with two passes at a time, alone: 123 thousand states); contents of sizes 1, 2 and
4 under a budget of 3, three trips and one clear: the third trip is the one that a wrong
record would let start twice.

**Fairness.** In `ReplaySubscribe` and `ReplayRoute`: the event loop runs every continuation
and callback to its end, the transport delivers and answers while it is up, and comes back
after a drop; the time limit of a switch fires (strongly fair: its guard comes and goes).
Nothing obliges the producer to emit or anyone to close. In `ReplayConflate`: the poll timer
fires, the client reads, and what else fills the buffer leaves it again and again
(`[]<>(gother = 0)`): without that the gate is right to conflate for ever. In
`StoreReplicaSet`: calls over a live session are answered or fail, scheduled reconciliations
run, timers fire; retries and probes have strong fairness because their guard comes and goes
with the controller's own work. In `OfflineStore`: the debounce timer fires, writes end, the
remote answers. Scope, reconciler, session: opens, disposers, passes and
time limits come to an end. `RpcCalls` and `RpcFlow`: packets of a live connection are
handled, consumers settle, the watermark poll fires. `ArtifactHost`: reap is called time and
again, removals are answered, and the storage does not fail for ever (strong fairness of
success); without that bytes may stay, and must. Neither peers, owners, election policies nor
callers are obliged to anything. A call that hangs for ever is outside, except where the code
has a time limit.

## 5. The proofs

`ReplaySubscribe_proofs` proves, for every value of the constants that satisfies
`LineAssumption` and `SubscribeAssumption` (any journal, any policy, any number of
events and disconnects, callbacks that throw or not):

| Theorem | Property |
|---|---|
| `TypeCorrect` | `TypeOK`: types, and the journal is a window at the head within its cap |
| `NeverAHole` | `NoHole` |
| `NothingLostWhileLive` | `LiveIsComplete` |
| `NeverGoesBack` | `NeverBackwards` |
| `Invariant` | `IInv`, the inductive invariant behind them |
| `PromiseKept` | `KeepsPromise`: the subscription implements `ReplicaView` |
| `StrictAdvancesByOne` | with a tail catch-up and gaps refused, a place in the line moves by one number a step, never by a keyframe |

The assumptions only give the constants their types and place `ForeignSince` beyond every
number of this lifetime, as "a resume point from the future" means.

**The argument.** Neither `NoHole` nor `LiveIsComplete` is inductive: both speak of the
consumer and say nothing of what is on its way. Let `Base` be the number up to which
everything was sent before what is now queued or on the wire, and `DeliveryEnd` the number
at which the delivery under way will end. `IInv` adds to `TypeOK` and `NoHole`:

- `WireInv`: queue and wire together are the run of consecutive events from `Base + 1` to
  the head; both are empty when the server does not have the subscription.
- `CallsInv`: the current generation has at most one call, made from the present resume
  point while nothing of the subscriber runs, and its answer reaches from that point to
  `Base` or beyond. This is where the order "tap, then ask" is used: the server answers
  after it has subscribed.
- `DeliveryInv`: what is being delivered is a run in which only the first envelope may be a
  keyframe, and which starts no later than the event after the position.
- `CoverInv`: while live, or once the answer is being delivered, the delivery ends at `Base`
  or beyond; `LiveIsComplete` is what remains of it when nothing is left to deliver.
- `ForeignInv`: a consumer of another lifetime is in its first catch-up, at its foreign
  resume point or about to be given a keyframe.

A step that only empties things (a disconnect, a failure, `Off`) preserves them because
the current generation has no call afterwards; a step that moves an event from one place to
the next preserves them by lemmas about consecutive sequences (`TailFacts`, `AppendFacts`,
`ConsecutiveTail`, `ConsecutiveAppend`). `NeverBackwards` needs in addition that a running
callback works on an event above `last` (`CallingAhead`). There is one step per action of
`Next` in each preservation proof. `IInv` was checked with TLC, as an invariant of the configurations
of the subscriber and of further ones, before it was proved.

The other modules prove every safety property of the runs `consumers`, `lines`, `authority` and
`resources`, for every value of the constants. Of the constants they need the named
assumptions of the components only: types, the order of low and high water, and that there is a
window, a batch, a follower, an epoch above 0 and a reign at all.

| Theorem | Says | By |
|---|---|---|
| `ReplayRoute_proofs`: `TypeCorrect` | `TypeOK` of the route | `Structure`, `Contents` |
| `NoHoleHolds`, `LiveIsCompleteHolds` | `NoHole`, `LiveIsComplete` of the route | these and `Flow` |
| `PromiseKept` | `KeepsPromise`: the route implements `ReplicaView`, **if the line keeps keyframes** | these and `Flow` |
| `Consumers_proofs`: `OthersAreCompleteHolds`, `GapsAreTerminalHolds` | `OthersAreComplete`; `GapsAreTerminal`, an action property | the parts', and `MirrorInv` |
| `EveryoneKeepsPromiseHolds` | `EveryoneKeepsPromise`, a refinement of every consumer, **if the line keeps keyframes** | the parts' |
| `FrameSubscribes` | the run's specification implements `ReplaySubscribe`'s | |
| `Resources_proofs`: `NothingStaysUnheard` | `NothingUnheard` | `HeardInv` |
| `OneDrainAtATime` | `TypeOK` of the reconciler | `HeardInv` |
| `HandlesAreReleasedOnce` | `TypeOK` of the session | `SessionInv` |
| `Resources_proofs`: `ResourcesTypeOKAlways`, `SettledMeansGoneAlways`, `ListedAreCurrentAlways`, `FilesAgreeAlways`, `CallsKeepTheirIdsAlways`, `ListenersAreFedAlways`, `WindowHoldsAlways`, `FramesBeforeResponseAlways`, `DisposalInOrderAlways`, `FinalStaysAlways` | every safety property of `resources`, two of them action properties | `ResourcesInv`, the conjunction of the parts'; of the flow `FlowInv`, `ServedInv` |
| `ReplayConflate_proofs`: `NothingForgottenAlways`, `BufferBoundedAlways` | the gate's two | `GateInv` |
| `Lines_proofs`: `PublishedAsStoredAlways`, `SpillIsHonestAlways`, `NothingForgottenAlways` | the properties of `lines` of the journal, the spill journal and the gate | `LinesInv` |
| `ArchiveHoldsAlways`, `NumbersKeepTheirMeaningAlways`, `MirrorFollowsAlways`, `CloseLosesNothingAlways`, `LinesTypeOKAlways` | the rest of the safety of `lines`, one an action property, **if `PruneRetried = FALSE`** | `DurableInv`, `LinesInv` |
| `Authority_proofs`: `LineIsIndexHolds` | `LineIsIndex` | `HostInv` |
| `InFlightKeepsItsReceiptHolds`, `BoundsRestoredHolds` | `InFlightKeepsItsReceipt`, `BoundsRestored`, action properties | `HostInv` |
| `AtMostOnceHolds` | `AtMostOnce`, of the host and of the authority, an action property | `HostInv`, `ScaleInv` |
| `OwnerIsWholeHolds`, `OneLeaderRowHolds` | the authority's parts of `RoleIsWhole` | `ScaleInv` |
| `FactsSurviveHolds` | `FactsSurvive`, an action property | `ScaleInv` |
| `LeadsAfterFollowingHolds` | `LeadsAfterFollowing`, a part of `LeadershipIsRightful` | `HeardFirst` |
| `RoleIsWholeHolds` | `RoleIsWhole` | `ScaleInv`, `RolesInv` |
| `LeadershipIsRightfulHolds` | `LeadershipIsRightful`, action properties | `ReplicaInv`, `StepsHeld`, `HeardFirst` |
| `AuthorityTypeOKHolds` | `AuthorityTypeOK` | `HostInv`, `ScaleInv`, `ReplicaInv` |
| `StoreReplicaSet_proofs`: `TypeOKHolds` | `TypeOK` of a replica set | `ReplicaInv` |
| `RoleMatchesRouteHolds` | `RoleMatchesRoute` | `RolesInv` |
| `PromotionOutranksHolds` | `PromotionOutranks`, an action property | `ReplicaInv` |
| `StepsDownForBetterHolds` | `StepsDownForBetter`, an action property, **of a node without elections** | `StepsHeld` |

`PruneRetried = FALSE` says that a process goes down with a rewrite of its log that failed.
The code does not: the run `durable_prune` is the counterexample, and what the theorems say is
that this is the only way to it.

`HasKeyframe` in two theorems says that the line has a keyframe to give to a consumer that
cannot be given events. Without one the documented behaviour is to go on behind the hole; the
run has a consumer of such a line, whose own view is part of `EveryoneKeepsPromise` whatever
the hypothesis.

**Invariants, by component.**

- *Route*. `Structure` is which slots there are: only the active and the pending one are open,
  no call is away but the pending one's, and the continuation that is on the stack is the
  pending one's. `Contents`: the wire and the queue of a slot are one run of consecutive events
  that ends at the head of its route, an answer is a keyframe or a tail that reaches to where
  that run begins, and all that waits was produced. `Flow` is the argument against holes: two
  slots put their events into one `deliveryQueue`, in any order and with duplicates, so the
  queue is not a run; but it is *chained*, each event behind one that was delivered or waits
  before it (`Chained`), and the run of a live slot begins no further than what waits reaches.
  Duplicates fall to `ev.seq <= lastDelivered`. A callback that throws empties the queue; as
  callbacks that throw do not re-enter here (section 6 says why), the position then covers every
  other live slot's run, which `Covered` says.
- *Offline store*. `Debts`: what is not saved is being saved or has made the store dirty, and
  the record that is being written covers what the first flush of the chain owed when it was
  asked for; hence a flush that is told "saved" was (`FlushMeansSaved`). `Numbered`: an open
  store shows the event it has noted, and so does each record. `Connected`: one subscription, of
  the last reconnect.
- *Reconciler*. `HeardInv` adds that a drain is scheduled while anything is pending; with the
  count of `TypeOK` that is why `idle()` cannot be true while something is pending.
- *Flow*. An open window exceeds its credit by the pushes that wait and only by those, a closed
  one by as many as ever waited; no acknowledgement exceeds what was finished with.
  `WindowHolds` alone is not inductive without the acknowledgements. `ServedInv` counts: each
  frame sent is on the wire, queued, or finished with, and the response stands behind them all.
- *Session*. `Sound` of an entry by itself (exactly an active one is listed, only a listed one
  exposed), `Current` of an entry and the session: what is listed has the signature of now.
  `open`, `expose` and `refresh` go through the same lemma `RefreshedIsCurrent`. `CloseInv`
  says where a handle may still be while the close is under way.
- *Scope*. While `finish` is under way every entry of the open scope that is left is in its
  batch, and what somebody held is released only after everything later is gone.
- *Files and jobs*. The storage is asked once at a time, by the confirmation that is admitted
  (`Confirming`); what runs is not over unless cancelled; a view without a policy differs from
  the projection only in what changed since the last drain (`OwnerAgrees`).
- *Calls*. An id is free, a request's, a callback's or a cancelled callback's, and only one of
  these (`IdsHeld`). That a response settles its own call needs more (`AnswersFit`): the id that
  a message or the server gives is not free and nobody else's, and no two of them give the same
  one. It holds until a client is replaced on the socket, which is where the exception of
  `AnsweredByItsOwn` begins.
- *Artifacts and cache*. Bytes have a key or a removal under way; a trip of this generation that
  is not over is the one on record, and while it is away its content is not held. That a sum of
  sizes changes by what is added or removed is proved by induction over lengths, stated with a
  set and the well-foundedness of `<` (an induction theorem that takes a predicate cannot be
  instantiated).
- *Gate*. The property speaks of a client at rest; the invariant of every number `Floor` from
  which the client will go on: what is on its way takes it, in order, to some number `Done`
  (`Made`), what the episode holds makes up for everything above that (`Waiting`), and comes
  after it (`Above`). "Made up for" is where conflation is used: an event is absolute for its
  key, so a later one of the same key stands for it. `AnswerInv` is the answer of the line on
  its way to a client that reconnects: what is before it, it covers.
- *Spill journal*. The index is the run of numbers that ends below the memory, and a journal
  that never gave up a file has exactly these lines in its files.
- *Journal*. What is stored is bulks in order, for an atomic journal to their ends; what is left
  of the bulk under way continues it, the waiting ones come after it, and a bulk that is not
  gone is stored, under way or waiting (`Accounted`).
- *Map*. Between a descriptor's answer and the catch-up it leads to the checkpoint does not
  move; outside a reset the map is what its number says. Checkpoints are `Orderly`, as in the
  run (`map_checkpoint` is the other case).
- *Durable store*. `LogInv`: the log begins with a keyframe, its numbers have no hole, its end
  is the head or, between `Persist` and `Commit`, one above; **a number stands for one event**,
  whether it is in the file or was in an earlier life. `StoreInv`: every state (store, mirror,
  keyframe) is made of writes that are known, that wait or that were lost in a crash.
  `WireInv`: the wire continues what the mirror has. Neither part is inductive without the
  others: a restart rebuilds the store from the log, and the mirror is compared with that.
- *Command host*. `HostInv`: the index is `Sound` (no account twice, every receipt's account
  listed, one receipt for a request, the total their number), the line has one record for a
  request (`LineKeyed`), what has the number of a run in flight is its own pending reservation
  (`RunsKnown`), and with bounds that evict nothing a commit that has not expired is answered
  from the line (`CommitsAnswered`). Most of the proof is about the index. Every transformation
  keeps it sound, and the eviction loop is judged by a measure (`Near`): what can be evicted, and
  the accounts it has not found empty of that since the last eviction. A turn lowers it by one,
  as it evicts or moves an account that has only runs in flight to the end, and the turns that
  the code allows itself, accounts plus receipts, are at least the measure at the start. The
  turns are counted by induction with a set, as the sums of the cache are.
- *Scale authority*. `ScaleInv` says what a process holds by the role it has *acted upon*
  (`RoleHeld`), also through a demotion it has not heard of, when followers, commands and a
  second election may come in between. `OwnerIsWhole` speaks only of the moments when role and
  announced role agree, so it is not inductive. `HeardFirst` adds that a follow that has settled
  over the present link was settled by something heard on it.
- *Replica set*. `ReplicaInv`: every epoch that the node holds, follows, would go back to or could
  follow is at most `maxEpoch`, which is why an answer of `elect()` above `maxEpoch` is above
  everything observed, however long it took; and what still runs for a closed entry, or after
  `close()`, is of an older generation, so that it opens nothing. `RolesInv` is what
  `RoleMatchesRoute` needs while a hand-off is under way, when it says nothing itself: what the
  hand-off goes back to is a role that agrees with its route (`HandoffHeld`), and a subscription
  that the hand-off did not create was a follower's; what awaits its route has a subscription, so
  whatever closes that ends the wait (`LineHeld`). `StepsHeld`, of a node without elections: a leader
  that reads a keyframe reads it for a better authority, and a node whose route is being switched
  does not lead. With elections the second half is false, which is the run `replicaset_promotion`.

**From a part to its run.** A composite's step is a step of one part and leaves the others alone
(`EachSteps`), so a part's invariant holds in the composite once every step of the part
preserves it. Where a part's proofs have a module of their own, the composite instantiates it
(`GateP`, `StrictP`, `BareP`, `RouteP`, `LeaderP`); its operators are then those of the component
instantiated there, and short lemmas (`GateFits`, `SameEnvelopes`, `SameRouteNext`, `SameLeader`) say that the
two instances agree. In `consumers` the behaviours are split by the consumer they have, which no
step changes: with the strict one, say, the composition's specification implies the
subscription's (`StrictSubscribes`), whose theorems follow, and the abstract view is the
strict consumer's. The constants of the instances satisfy the components' assumptions
because those of the run do (`StrictFits`, `BareFits`, `RouteFits`).

Each inductive invariant was checked with TLC, as an invariant of the run's configuration,
before it was proved. `Resources_proofs` takes about twelve minutes, `Consumers_proofs`,
`ReplayRoute_proofs` and `Lines_proofs` six each, `Authority_proofs` five,
`ReplayConflate_proofs` four.

**Model-checked only.**

- Liveness (`CatchesUp`, `EverythingSettles` and the other properties with `<>`), which is out
  of the prover's reach.
- The properties of `lines` about the durable store without the hypothesis `PruneRetried = FALSE`,
  where they are false.

## 6. Disagreements between the code and what is said of it

Each is a run that TLC ends with a counterexample; the quotations are in `PROJECT.json`.

1. `replicaset_failed_handoff`: a hand-off that fails is charged to the entry the route was
   first created for, so the healthy route is closed and the broken one kept.
2. `replicaset_promotion`: the continuation of `follow` overwrites a leadership that was won
   while it awaited its route.
3. `replicaset_starved`: removing the old offer during a hand-off leaves a follower with no
   subscription, and no reconciliation repairs it.
4. `durable_prune`: a prune that fails after a successful append makes the append throw; the
   batch is retried under the same numbers and the archive no longer opens.
5. `map_checkpoint`: a checkpoint taken while a follower changes lines has the new line's
   identity with the old line's number and content.
6. `rpc_ids`: the end of a callback that arrives after its call was answered takes the
   callback of the call that has the id now.
7. `scale_gap`: a standby executes a command whose receipt it has, when the command comes
   between its election and its acting upon it.

Smaller ones, met while modelling, that have no run of their own:

- *Replica set*: a descriptor pushed during a refresh of the same entry
  (`store-replica-set.ts:565`) is neither read nor scheduled, against 549-550 "any other
  change takes the full read"; without probing the node keeps the older one.
- *Subscriber*: with the frame catch-up (the default) a consumer with `gapPolicy: 'error'`
  whose resume point lies beyond the head is reset to a keyframe on its first attach
  (`replay-wire.ts:285`), against `doc/wenay-common2-rare.md:1821`; `GapsAreTerminal` speaks
  of the tail catch-up. A callback of the drain that drops the transport does not keep
  `catchUp` from going live (468-470), until the next connection.
- *Route*: a callback that throws at the keyframe of a reset leaves `lastDelivered` below what
  the consumer has folded in (`replay-route.ts:106-111`, 91-95); a later switch may then replace
  its state by an older keyframe. TLC finds it with three events and three switches; it is the
  exception `Ahead` of the route's view.
- *Route*: an event of another live slot that was accepted from inside a callback is dropped
  when the callback throws (`replay-route.ts:100-104`), only the delivering slot fails,
  against 318 "without exposing gaps"; a remote with neither frame nor keyframe continues
  silently over a missing tail (225-227).
- *Command host*: `compact` rotates accounts that were not used (`command-host.ts:172-176`),
  so the first account is not always the longest-idle one, which 92-94 says; the bounds are
  enforced when a command is entered and not when it commits (253-256).
- *Durable store*: a keyframe may show writes that are not drained; after a crash they have
  no number and a mirror keeps them (`MirrorAgrees` excepts `lost`), against
  `replay-history.ts:4-5`.
- *Gate*: the recovery stops the poll and ends the episode before it asks for the keyframe;
  if that provider throws or has none, deltas resume over a hole.
- *Spill journal*: with a file that could not be removed the window still advertises records
  that cannot be read back, against the comment at `fsSpillJournal.ts:133`.
- *Pre-commit journal*: a re-entrant emit that has returned normally is given up when a later
  store is refused (`replay-listen.ts:443`).
- *Scope*: a value that arrives after the close is released at once, beside entries admitted
  later (`resource-scope.ts:83`), against `doc/ASYNC-OWNERSHIP.md:39-40`; `DependentsFirst`
  excludes it.
- *Reconciler*: `cancelRetry` after a pass that left its notifications to the retry drops
  them (`excused`).
- *File jobs*: under a policy a change of membership is not seen by the views until the next
  change of the store (`stale`).
- *Map*: if the transport drops between the answer of prepare and the reset, the follower
  keeps the new line's identity with the old number (`replicated-map.ts:877-885`).
- *Calls*: after a disposal and a successor on the same socket, a late end releases an id of
  the dead client, and a call of the new one is answered by another's response
  (`AnsweredByItsOwn` excepts it), against `oracle/PASSED.md:17`.
- *Flow*: the end of a callback drops frames queued for a slow consumer although the response
  waits for them (`rpc-client.ts:649-651, 752-755`); a synchronous consumer sends one
  acknowledgement per frame (591-596) against the comment at 551-552.
- *Scale authority*: `followedOnce` is also set by a follow that ended in an error
  (`scale-authority.ts:367-370` against 191-192); re-election before the demotion was noticed
  leaves a leader whose control line is followed, with a stale roster (`slipped` in
  `OwnerIsWhole`); the first of two overlapping operator promotes to end clears
  `forcePromote` for both (627).
- *Offline store*: a local write is reported in a microtask after the drain, so `flush()`
  called in the same turn resolves without having saved it (`FlushMeansSaved` speaks of what
  was reported); a reconnect does not reset `stale` (`store-offline.ts:342`); a load that fails
  opens with `initial`, and the next save overwrites the record that could not be read.
- *Artifacts*: `doc/ARTIFACT-RUNTIME.md:79-80` says a later revoke can reconcile storage, but
  revoking an expired artifact returns before the removal (`artifact-host.ts:231`); only reap
  retries. `reap` is not guarded by `closed`, and one failing removal ends the pass.

## 7. Limits and not modelled

Inside the modelled components:

- *Replay line*: byte budget and metering. A line that restarts with numbers that overlap the
  consumer's; only a resume point beyond the head, which the line can tell, is modelled.
- *Subscriber*: `prepareCatchUp` and `recoverGap` (external snapshots), the staleness watchdog.
- *Route*: a switch that gives its own resume point or reset, a schema that is not ready.
- *Durable store*: `compact()` by hand, a line torn inside one append.
- *Replica set*: one controller. Line identities, sequence numbers, costs and path vectors
  are abstracted (any best route may be chosen; `sound` stands for cycle and proof checks),
  conflicts and store-identity mismatches are left out. A hand-off whose remote never
  answers and never fails blocks the chained reconciliations (948), and an `elect` that
  always answers a stale epoch keeps the node electing (865): nothing in the code bounds them.
- *Command host*: the weights of the rate window, receipts under the old key format; a
  successor sees the line without replication lag.
- *Scale authority*: identity and sessions, the liveness sweep of the roster, the audience
  blocks, a durable control archive, the projection line, external succession.
- *Map*: a lost reset; key operations of the producer are one event.
- *Session*: a factory or observer that calls the session back.
- *RPC*: authorization, batches, shapes, limits, pipes, replacement of a server generation,
  the hub, flows without waiting, a flow reopened on an ended callback.
- *Artifacts*: views (those of the file job host), openings, the mirror; `onEvict` calling
  the cache.

Hazards the models do not reach: the unbounded live queue of a catch-up that never ends
(`replay-wire.ts:341`), a keyframe provider that fails inside the gate
(`replay-conflate.ts:107`), a route whose remote has neither frame nor keyframe
(`replay-route.ts:226`).

Components that are not modelled: the reactive core and the patch and binary codecs (their
behaviour is in the data, which tests reach directly); media, HTTPS, HTTP and MCP facades
(devices, files and request translation); command tokens and playback (no concurrency); the
scale client, route coordinator, lazy line, peers and packet mesh, AI and
conversation hosts, contract runtime, dynamic modules and service leader (each is a protocol
of its own, and the cores they rest on, lines, receipts, scopes and calls, are modelled). The
built copies under `lib/`, experiments, demos and benchmarks are not the implementation.

## 8. What could come next

1. Several replica sets: descriptors over a lossy network, path vectors, two candidates.
   Abstract specification: at most one leader per epoch, followers on its line.
2. The replica set over `ReplayRoute` itself instead of the calls it makes on it.
3. RPC authorization (overlapping HELLOs, revocation epochs) and the hub.
4. Route coordinator, packet mesh, service leader.
5. The liveness of the single components at larger bounds; it is out of the prover's reach.
