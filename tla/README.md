# Verification project for smc_v1

TLA+ models of the data and signal pipeline of this repository, the TLC runs
that check them on small instances, and TLAPS proofs of the theorems that
matter most. Paths below are relative to `src/`.

## 1. The system

One asyncio process (`app/main.py`, `run_pipeline`) runs a handful of tasks that
talk through Redis and through shared Python objects; there are no locks but
`UnifiedDataStore._mtx`, so everything between two `await`s is atomic and
every `await` is a point where another task may run.

| Component | Code | State it keeps | Operations | Talks to |
|---|---|---|---|---|
| Unified data store | `data/unified_store.py` | RAM layer (TTL, LRU, byte and symbol quotas), last bar per key in Redis, snapshot file per key, write-behind queue | `put_bars`, `get_df`, `warmup`, `enforce_tail_limit`, maintenance loop with sweep and drain | Redis, executor threads, disk |
| Bar ingestor | `data/fxcm_ingestor.py` | last live and last finalised bar per series | validate, verify HMAC, gate on status, finalise live bars, `put_bars` | Redis pub/sub, store, feed status |
| Feed status | `data/fxcm_status_listener.py` | one global `FxcmFeedState` | apply status message, note bar close, refresh lag | Redis pub/sub, read by ingestor, producer, UI |
| Price stream | `data/fxcm_price_stream.py` and the tick cache of the store | last tick per symbol | `update_price_tick`, `get_price_tick` (stale, drop) | Redis pub/sub, store |
| History state and warm-up requester | `app/fxcm_history_state.py`, `app/fxcm_warmup_requester.py` | cooldowns and active issues per (symbol, tf) | classify history, request warm-up or back-fill | store (reads), Redis command channel |
| SMC producer | `app/smc_producer.py`, `app/smc_state_manager.py` | state per symbol, cycle counter, pipeline metadata | select symbols, gate, run the engine in batches, publish | store, engine, publisher |
| Publisher | `UI/publish_smc_state.py` | sequence number, snapshot in Redis | SET, EXPIRE, PUBLISH | Redis |
| SMC engine | `smc_core`, `smc_structure`, `smc_liquidity`, `smc_zones` | event history per series (in memory); otherwise pure | swings, legs, BOS/CHOCH, ranges, liquidity pools, zones | called by the producer, synchronously after its reads |
| Viewer pipeline | `UI_v2/smc_viewer_broadcaster.py`, `viewer_state_builder.py`, `viewer_state_store.py`, `viewer_state_ws_server.py`, `fxcm_ohlcv_ws_server.py`, `viewer_state_server.py` | viewer state and builder cache per symbol, WebSocket sessions | build viewer states, persist, fan out | Redis pub/sub, browsers |
| Runners | `app/main.py`, `app/runtime.py` | tasks and their ends, retries per server | start, gather, retry a port, cancel, exit | all of the above |
| Console viewers, web client, tools, deployment | `UI/*viewer*.py`, `UI_v2/web_client`, `tools`, `tmp`, `deploy` | presentation | drawing and formatting | Redis, HTTP |


What interacts with what: the connector (another program) publishes bars, status
and prices; the ingestor puts bars into the store and notes their close in the feed
state; the status listener writes the feed state; the requester reads the store and
asks the connector for history; the producer reads the feed state and the store, runs
the engine and publishes; the broadcaster turns publications into viewer states and the
WebSocket servers hand those on.

### What is hard about it

- **Interleaving at awaits.** `get_df` takes no lock; `put_bars` holds `_mtx` over
  its Redis await; the drain pops, awaits a thread and puts back; the producer's batches
  share one state manager; the status listener changes what the ingestor's gate reads.
- **Failure and restart.** A save that raises, a temporary file that vanishes, a Redis
  that answers nothing, a process killed between two steps, a shutdown during a save.
- **Lost and partial messages.** Redis pub/sub forgets what nobody hears; status messages
  carry only some fields; live bars (`complete=false`) are repeated, superseded and
  sometimes never completed.
- **Time.** TTLs over a weekend, cooldowns, stale tails, a clock read once per cycle.
- **Limits.** RAM quotas, an adaptive batch limit, symbols per cycle.

What makes each component correct is the list of its properties in section 4; the
hazards behind them are listed, line by line, in `PROJECT.json`.

## 2. Plan

In order of importance; a module later in the list uses the ones before it.

| | Modules | Status |
|---|---|---|
| A | `WriteBehind` (abstract), `UnifiedStore`, `UnifiedStoreProofs`; `LossyCache` (abstract), `RamLayer`, `RamLayerProofs` | modelled, both refinements and all safety proved |
| B | `FxcmStatus`; `FxcmIngestor`, which extends it: both tasks interleave on one feed state; `FxcmIngestorProofs` for both | modelled, safety proved |
| C | `WarmupRequester` with the history states, `WarmupRequesterProofs` | modelled, safety proved |
| D | `SmcProducer` with the state manager and the S2 problem, `SmcProducerProofs` | modelled, one step per publication, safety proved |
| E | `ViewerPipeline`: publisher, broadcaster with the builder's cache, snapshot in Redis, a WebSocket session; `ViewerPipelineProofs` | modelled, safety proved |
| F | `Runners`: start, gather, servers with their retries, Ctrl-C, `asyncio.run`'s cancellation; `RunnersProofs` | modelled, safety proved |
| G | Price stream and tick cache | left out (section 7) |
| H | `SmcStructure`, `SmcLiquidity`, `SmcZones`: one window's computation as operators; `SmcEngine`, which drives them with bars and keeps the event history; `SmcEngineProofs` | modelled, safety proved but for `CyclesSettle` |

Worth doing next: properties of `SmcZones` (the active filter, the order of the blocks) with the theorems about them, and the
price stream.

## 3. Modules and the code they model

`PROJECT.json` maps every definition to its lines. An action is the code from one await
(or lock) to the next, so TLC explores every order in which asyncio may run the tasks.

**`UnifiedStore`** (`data/unified_store.py`, start and exit from `app/runtime.py`,
`app/main.py`). State: `ram`, `redis`, `disk` (with the number of the snapshot it holds),
`flush_pending` and `flush_q`, the lock `mtx`, what each reader has in hand, the drain's
remaining iterations `batch`, the `write` in the executor and an `orphan` write that
outlived its task, and `accepted`, a history variable that numbers what `put_bars` queued.
`PutBars`/`EnforceTailLimit` run up to the Redis await and `FinishWrite` after it; `GetDf`,
`ReadRedis`, `ReadDisk`, `CacheResult` are the stations of a read; `StartDrain`,
`DrainNext`, `FlushDone`, `FlushFailed` those of the drain; `Stop`, `OrphanEnds`, `Exit`,
`Crash`, `Start` are shutdown and restart. A frame is a function from open times to
contents. `Faults` names what may go wrong in a run.

**`RamLayer`** models the RAM layer method by method with ages, bytes, LRU list and
priorities. `UnifiedStore` sees it through `LossyCache` (its `RamDrop`): the refinement
`Lossy` is what justifies that.

**`FxcmStatus`** (`data/fxcm_status_listener.py`): the loop that subscribes, receives,
loses the connection and backs off, with sticky labels and the session. `truth` and
`missed` are history variables: what the connector last reported, and which of it was lost.

**`FxcmIngestor`** (`data/fxcm_ingestor.py`) extends it with payloads, signature, gate,
live-bar bookkeeping and the awaited `put_bars` (`putting`). Bar t closes at time t;
contents are how far it was traded. `seen`, `completed` and `announced` are histories.

**`WarmupRequester`** (`app/fxcm_warmup_requester.py`, `app/fxcm_history_state.py`): `StartCycle` reads the
clock, `Assess` classifies one series and decides, `Publish`/`PublishFails` end the await.
Times are ages that stop growing where the code cannot tell them apart any more.

**`SmcProducer`** (`app/smc_producer.py`, `app/smc_state_manager.py`): `StartCycle` (refresh and gate),
`Classify`/`ClassifyFails` per symbol, `Read`, `Compute`, `Raise` per batch, `Finish`, `Publish`. `hist` is the
history state each symbol was given in this cycle and `problem` what the S2 metadata make of them all. The order
in which `list(set)` yields symbols and the one in which `sorted()` has them are parameters (`ListOf`, `First`).

**`SmcStructure`, `SmcLiquidity`, `SmcZones`** (`smc_structure`, `smc_liquidity`, `smc_zones`) hold what the engine computes from
a window of bars: swings, legs, trend, BOS and CHOCH, bias, range, OTE zones, pools, swing failures, wick clusters,
magnets, AMD phase, order blocks, breakers, the active filter, and the update of the event history. Prices are integers in
units in which every average of the instance is exact, so no comparison depends on rounding; a fraction is a pair.

**`SmcEngine`** (`smc_core/engine.py`) has the state around them: the window `get_df` returns, the event history of
`event_history.py` and the last hint. `NewBar`, `MissedCycle`, `SkippedBar`, `LateBar` are what the feed does to the window,
`ProcessSnapshot` the engine, `Restart` the loss of what it holds in memory.

**`Runners`** (`app/main.py`, `app/runtime.py`, the servers' `run`): `main` is where `run_pipeline` or `asyncio.run` is, `task` and `how`
the state and end of every task, `asked` the cancellations not yet seen. `Bootstrap`, `NoSymbols`, `Launch`, `CtrlC`, `GatherEnds`,
`AsyncioRunCancels`, `Exit` are the pipeline; `Bind`, `Refused`, `BindFails`, `TryAgain` a server's retries; `Cancelled`,
`CancelledAgain`, `Drained`, `Closed` the way down; `Raises` a task of the core that fails.

**`ViewerPipeline`** (`UI/publish_smc_state.py`, `UI_v2/smc_viewer_broadcaster.py`, `viewer_state_builder.py`,
`viewer_state_store.py`, `viewer_state_ws_server.py`): a publication is the number of the producer's state
it was built from (`Content` says what each has of a symbol), a viewer state that number and the one its
events and zones come from. `BeginPublication`, `SetSnapshot`, `Publish` are the publisher; `Load`,
`Subscribe`, `Receive`, `Save`, `Send`, `Lose` the broadcaster; `Connect`, `SendInitial`, `Stream`, `Update`,
`Miss`, `Disconnect` a session. Every command to Redis may fail. `Restart` forgets all but the keys in Redis.
`setFailed` and `ownSnap` are histories.

The `MC*` modules hold nothing but values for the constants.

## 4. What the runs check

Every property has a mutant of the code that violates it.

| Run | Bounds | What it shows |
|---|---|---|
| `store_life` | two keys, two open times, one reader, two puts per process, Redis errors, RAM loss, restart; symmetric keys | no snapshot waits without a queue entry (`PendingIsQueued`), the newest accepted snapshot is waiting, being written or on disk (`NewestKept`), a graceful exit leaves everything on disk (`ExitIsDurable`) |
| `store_flush` | two keys, rival reports of one bar, failing saves, vanishing temporary files, cancellation during a save; fair | snapshots stay in order whatever fails, a shutdown leaves nothing half way (`FlushInv`, `DiskNeverRegresses`), within one process no bar of the disk is missing from what is queued (`HistorySurvives`) or rewritten (`BarsStable`), the store implements `WriteBehind` (`AbstractSpec`), and every queued key is written (`EventuallyFlushed`) |
| `store_race`, `store_restart` | as above, smallest | violations, section 6 |
| `ram_keys` | two symbols × two intervals, one never living past a tick, sizes 1 and 2, limit 4, one hot symbol, three priorities | store, LRU list, byte account and limit agree (`RamInv`), what was just put is there (`PutStays`), and the refinement `Lossy` |
| `status` | two labels, three values in all, inbox of two, two session times; fair | labels follow the last report (`FollowsStatus`), the countdown that of the session shown (`OpenFollowsSession`), and the state catches up (`CatchesUp`) |
| `ingest` | one series, three bars of two stages, market opening and closing, history answers, losses, failing puts, bad payloads and signatures | no accepted live bar is lost or stored older than it was seen (`LiveBarsKept`), a complete bar wins over its approximations (`CompleteWins`), the bar being traded stays out (`IngestInv`) |
| `warmup` | one five-minute series, limit of two bars, cooldown of five ticks, poll of two, cycles of at most one tick; lost requests, failing publishes, a store that forgets; fair | requests of a kind keep their distance (`NeverTooOften`), a relapse is asked for at once (`PromptOnce`), the history arrives (`HistoryArrives`) |
| `producer` | two symbols with different thresholds, three selectors (one empty), five feed states, batches of one symbol running concurrently; fair | the publication lists the universe (`ShownInv`), LIVE means every symbol LIVE and no problem named (`LiveMeansLive`), signal and local state agree (`SignalAgrees`), hints stay (`HintStays`), every selected symbol is processed (`Screened`) |
| `viewer` | three versions of the producer's state, two symbols, one of them watched by a session that comes and goes, one message in flight to each subscriber, failing commands, lost connections, an expiring snapshot, one restart; fair | `SessionForward`, `NoFlicker`, `SnapshotForward`, `ViewersCatchUp` |
| `engine` | a window of six bars, two warm histories, six shapes of bars, four further bars, one upset (missing bar, missed cycle or restart), histories of two events and 35 minutes | no swing is repainted (`SwingsHold`), a CHOCH is exactly a break against the event before it (`ChochTurns`), the history forgets only what is old or crowded out (`HistoryRemembers`), OTE zones lie within their legs on the right side (`OteWithLeg`), magnets are disjoint (`MagnetsOrdered`), a cycle without news changes nothing (`CyclesSettle`) |
| `runners` | two servers that can differ in port, address and clients, one task that may raise, one listener, the maintenance loop; fair | Ctrl-C ends the process (`ShutdownEnds`), so does a failure of the core (`CoreFailureStops`), nothing a server meets does (`ServersAreHarmless`), and a server comes up once its port is free (`ServersRecover`) |

**Why the bounds are enough.** Two keys let one key's failure delay another and let the
queue hold both; two puts let a snapshot overtake one being written, and two open times let a
merge lose or keep a bar. `FlushBatchMax = 1` with the tier `<<2, 3>>` makes the batch limit both smaller
and larger than the backlog. Three bars let the live bookkeeping have a predecessor, a current
bar and a successor, and two stages tell an early report from the last one. A cooldown longer
than two polls lets an issue end and come back before it is over. Two symbols in batches of one
interleave at every await, and the one with the lower threshold tells the minimum from the target.
Three versions let one have events, the next none, and a restart bring a third;
one message in flight is enough for a session to read a snapshot newer than what waits for it.
With one bar on each side a swing needs three, so six bars hold several swings, legs of both directions and a break of
each kind, and four more push the first of them out of the window; a history of two events overflows.
Two servers let one wait for its port while the other has clients.
What the bounds do not reach: batches of several symbols, more symbols than
`MaxPerCycle`, and more than one series in the requester (its series share only the clock), a subscriber more than one message behind and several
sessions (which share nothing but what they read), and in the engine everything that needs a long window: the ATR over
14 bars, many clusters of pools, breakers (section 6). The theorems of section 5 hold for every value of these constants.

**Fairness.** asyncio runs every ready task, so each loop's own steps are weakly fair; in `Runners` these are the pipeline's
steps, each task's way down, each server's retries and the cancellation of connection handlers, while Ctrl-C,
failures, ports and clients are left free.
Strong fairness is assumed only of what the environment must do now and then: a save that is
tried again and again succeeds (`FlushDone`), a status message sent again and again is received
(`Repeat`: the connector repeats its status), a
request published again and again gets through and is answered (`Publish`, `Answer`), a command
or an update of the viewer's that is sent again and again gets through (the producer publishes in every cycle). Without
these the system may wait for ever on a dead disk, connection or connector, and rightly so.
`HistoryArrives` has the further premise that the market stays open, since the gate
drops answers while it is closed. `ViewersCatchUp` has the premise
that the subscription finally holds (`Listening`): a subscriber can be away at exactly the moments of
publication, and pub/sub keeps nothing for it. `ServersRecover` has the premise that the port stays free while the pipeline runs.

Deadlock is checked except where the system may really stop: `store_flush`, `store_race` and `runners` (the process is down), and
`engine` (no bars are left within the bound).

## 5. What is proved

Each theorem holds for every value of the constants allowed by the named assumptions of its module, and unless it says
otherwise for every combination of faults.

| Module | Theorem | States |
|---|---|---|
| `UnifiedStoreProofs` | `TypeCorrect` | `TypeOK` and that the drain never pops an empty queue, which are inductive together |
| | `FlushSafe` | the inductive invariant `FlushInv`, and with it `PendingIsQueued` |
| | `DiskOnlyAdvances` | the action property `DiskNeverRegresses`, from `FlushInv` |
| | `NothingForgotten` | `NewestKept`, where saves do not fail (`SavesSucceed`) |
| | `GracefulExit` | `ExitIsDurable`, where moreover no save is cut short (`NothingCutShort`) |
| | `Implements` | every behaviour of `UnifiedStore` is one of `WriteBehind` |
| | `QueuedHistorySurvives`, `DiskBarsAreStable` | `HistorySurvives` and `BarsStable`, where RAM keeps what it was given (`RamKeeps`) |
| `RamLayerProofs` | `LayerIsLossy` | every behaviour of `RamLayer` is one of `LossyCache` |
| | `LayerIsAccounted`, `PutIsKept` | `RamInv`, `PutStays` |
| `FxcmIngestorProofs` | `StatusFollows`, `OpenIsTheSessions` | `FollowsStatus`, `OpenFollowsSession` |
| | `FeedOfTheWhole`, `FeedFollows` | the composition with the ingestor implements `StatusSpec`, so it has `FollowsStatus` too |
| | `OpenBarIsNotStored`, `LiveBarsAreKept`, `CompleteBarsWin` | `IngestInv`, `LiveBarsKept`, `CompleteWins`, from the inductive `IInv` (`IngestSafe`) |
| `WarmupRequesterProofs` | `RequestsKeepApart`, `AsksPromptly` | `NeverTooOften`, `PromptOnce` |
| `SmcProducerProofs` | `UniverseListed`, `LiveIsLive`, `SignalsAgree`, `HintsAreKept` | `ShownInv`, `LiveMeansLive`, `SignalAgrees`, `HintStays` |
| `ViewerPipelineProofs` | `SessionsGoForward`, `EventsDoNotFlicker`, `SnapshotsGoForward` | `SessionForward`, `NoFlicker`, `SnapshotForward` |
| `RunnersProofs` | `GatherIsTheCores` | `ServersAreHarmless` |
| `SmcEngineProofs` | `EngineHolds` | the inductive invariant `EngineInv`: bars, history and the frame of the last hint |
| | `EventsTurn`, `HistoryIsKept` | `ChochTurns`, `HistoryRemembers` |
| | `ZonesGoWithLegs`, `SwingsStay`, `MagnetsStayApart` | `OteWithLeg`, `SwingsHold`, `MagnetsOrdered` |

(`PendingIsAlwaysQueued` states the part of `FlushSafe` that concerns the queue by itself.) Every
inductive invariant below was first checked with TLC on the instance of the run.

**The store.** `PendingIsQueued`, the order of snapshots and the completeness of a shutdown are not inductive one by
one. A failed flush restores a snapshot older than the waiting one, so its order against
the disk must be known: for each key disk < write < waiting. An orphan write is older than
both, which holds because orphans exist only while the process is stopping; and nobody is
between the two halves of `put_bars` then, because the lock is free once the process stops.
That the drain never pops an empty queue bounds `batch` by the queue's length.
`FlushInv` is the conjunction of these facts with the types. The premises of `NothingForgotten` and `GracefulExit` are
necessary: section 6 and the first two deviations show what happens without them.

`HistoryNested` is about the bars themselves: of each key the snapshot on disk, the orphan, the write and the waiting snapshot
are each part of the next that exists, and all are part of RAM. A merge extends what it merges into, so `put_bars` keeps the
chain; a failed flush puts the write where the waiting snapshot was, which only shortens it. The chain breaks wherever RAM
forgets, and `RamKeeps` names these: a dropped entry, a restart, `enforce_tail_limit` and a reader that puts back an older view. The
runs `store_restart` and `store_race` show the violations by a restart and by a reader.

**The RAM layer.** For the refinement all that is needed is that the layer holds frames: `delete`, and with it expiry and both quotas, turns some
of them into nothing (`QuotasStore`), so every method but `put` only loses, and `put` adds one frame that its own quotas may take.
`RamInv` relates the layer to the LRU list and to a sum over the keys. That a key moved to the end is listed once, and a deleted one no more, is
proved along the list (`WithoutIs`, `TouchedIs`); that the sum splits into parts and grows by what is put, along finite sets (`BytesSum`,
`BytesSplit`, `BytesGrow`); and that the byte quota ends within its limit, because deleting the whole list would leave nothing (`RamQuota`). `PutStays`
follows because the key just put is the last of the list: the others go before it, and without them its own frame fits (`LastIsNoHotVictim`, `LastIsNoRamVictim`).

**The feed status.** `FollowsStatus` looks at the inbox as a whole; inductive is the stronger `TruthInReach`: the *last*
valid message in the inbox that speaks of a label, or the feed state if there is none, has what the connector last reported.

**The ingestor.** What a payload does to the last live bar depends on what is still queued behind it. `IInv` therefore orders
the reports of a pair along last live bar, queue and bar being traded (`QueueInv`, `LiveInv`): a live bar that is rolled out
is older than all that follows. `SeenInv` says of each live report that it is in the store, in the `put_bars` under way or still the last
live bar, no older than it was seen; `CompletedInv` the same of complete bars. Since a payload is a sequence, what it does
is first described by the least facts later steps need (`HandledWork`, `TakeEffect`). `ClosesCover` is assumed: a bar that closes can
be noted by the feed state. `FeedOfTheWhole` shows that the ingestor touches the feed state only as `FxcmStatus` allows.

**The requester.** The cooldown is measured from the start of a cycle, the distance from the publish. `AgesAgree` says the two differ
by a cycle at most, `HeldIsDue` that what a cycle is about to send is due, and `OkIsClear` that a series seen ok has no
cooldown, which is what makes it ask at once.

**The producer.** The three accounts of a symbol come from different reads. They agree because the universe repeats no symbol, so that
a classification never overwrites an earlier one (`Classifying`); because what was counted is at most what a later read finds
(`CountsAreRead`), so a batch cannot find less than the target of a symbol counted full (`Processing`); and
because the publication is built without an await (`Publishing`).

**The viewer.** Versions only grow along publisher, inbox, builder memory, snapshot, session inbox and screen, and none of
these is ever ahead of the producer: `InOrder`, `NothingNewer`, `BatchNewest`, `SessionInOrder`, `EventsInOrder` and `SnapshotNewest` say
so for each link, and `Begun` what each program counter implies.

**The runners.** Before Ctrl-C nothing is cancelled, so a task that is not a server is up or over (`Quiet`), and a gather
that is complete was completed by the core (`Blamed`); `finally: return` makes a server's end a plain return, which completes nothing.

**The engine.** `EngineInv` is small: the bars of the store rise strictly in time, the history repeats no event, and the last hint is the computation
of a frame of which the store has changed no bar and lost none from its first bar on. The
properties then are facts about the computation for *every* frame of bars whose high and low enclose them, and they are proved as such:

- The code's loops are folds. `FoldReaches` replaces a fold by the sequence of its intermediate results, whose last one it is, and
  what holds of each of them follows by induction on their number. So are obtained what stable sorting (`SortedIs`), choosing
  (`ChosenIs`), detecting swings (`DetectSwingsIs`) and the upsert of events (`UpsertKeeps`) return.
- `EventsTurn`: along the legs the bias is the direction of the last event (`ApplyLegTells`), and the first event finds none.
- `HistoryIsKept`: an upsert keeps keys distinct and finds every earlier key again; pruning takes away what is too old, and a sorted
  history that is cut has only events at least as new as the one cut, as many as the limit (`PruneKeeps`).
- `ZonesGoWithLegs`: the label of a leg compares its end with the last earlier swing of the same kind, its side with its own start.
  They agree because a swing is a peak among its neighbours and between two consecutive swings there is no other: were the end of an HH leg
  no higher than its start, the highest bar on the way would be a swing in between (`PeakBetween`, `LegGoesItsWay`).
- `SwingsStay`: two frames of which the newer extends the older show a swing of either the same neighbours, shifted (`FramesAlign`, `MeetAlike`).
  `Inner` is a set of bars of the prepared window, the one the engine looks at.
- `MagnetsStayApart`: over sorted levels only the last cluster can grow, since a level out of reach of an average stays out of reach when the level rises
  (`FartherIsBeyond`) and the clusters before the last are complete (`ClusterStacks`); every pool has a natural number as its level, averages that are not exact being rounded down (`LiquidityIs`).

Assumed are `SmcStructureAssumption` and `SmcEngineAssumption`: positive limits, fractions with a positive denominator, bars with
`low <= open, close <= high`, and a warm history that is not empty.

**Induction over data.** The library's induction theorems take an operator as a parameter, which the provers cannot instantiate.
These proofs use first-order forms: a set of numbers that has 0 and every successor is all of `Nat` (`NatSetInduction`,
by a least counterexample), a nonempty set of numbers has a least element, and a set of subsets that grows by one element has every finite one.
A fold is unfolded by its definition in the community modules. `SelectSeq` cannot be unfolded, so a filter the proofs depend on is written
`Chosen`, a fold.

**Only model-checked.** Liveness, whose fairness and ENABLED are beyond the prover: `EventuallyFlushed`, `CatchesUp`, `HistoryArrives`, `Screened`,
`ViewersCatchUp`, `ShutdownEnds`, `CoreFailureStops`, `ServersRecover`. And `CyclesSettle`, which does not hold for every value: when several events of the same
minute are at the cut of a full history, the stable sort of a second upsert can keep others of them than the first. The run shows
that it holds on its instance.

## 6. Findings

Runs that TLC finds violated by what the code does:

- `store_race`: `get_df` puts its older view back over bars `put_bars` stored during its awaits (`data/unified_store.py:1147`).
- `store_restart`: after a restart the first put replaces the snapshot on disk by the new bars alone (`data/unified_store.py:1174`).

### Deviations without a run

Each can be reproduced by the change named, or follows from the lines.

Store
- Saves that fail: adding `"save_error"` to `Faults` in `UnifiedStore_life.cfg` violates `ExitIsDurable`, and `NewestKept` alone as well. `_flush_pending[key] = df` after a failed save overwrites a newer snapshot queued during the await (`data/unified_store.py:1342`).
- Shutdown during a save: adding `"cancel_midflush"` there violates `ExitIsDurable`. The frame already popped is not put back before the final drain (`data/unified_store.py:1280`).
- `put_bars` holds `_mtx` while Redis is retried with back-off, so one slow Redis delays every writer (1182).
- The hot quota counts symbols but evicts keys (347), and the byte quota takes the oldest key of any priority, ALERT included (353).

Feed
- A warm-up answer or a late complete bar cannot replace a bar finalised from a partial live report (`data/fxcm_ingestor.py:446`), against `docs/fxcm_integration.md:52`; `CompleteWins` therefore speaks of what is stored after the complete bar was accepted.
- Warm-up answers that arrive while the market is closed are dropped by the ingestor's gate.
- `lag_seconds` is refreshed only when a message or a bar arrives, so it stands still while the feed is silent (`data/fxcm_status_listener.py:258`); a late or historical payload moves the last close back (314).
- A dropped tick leaves its statistics published with the age they had (`app/smc_state_manager.py:44`, `UI/publish_smc_state.py:149`, against `docs/fxcm_integration.md:145`), and `current_price` is overwritten by the last close while `price_source` still says `price_stream`.

Requester and producer
- With a contract beyond the limit of `get_df` (the configuration has one of 20160 minutes) a series that returns to ok keeps its request and its cooldown (`app/fxcm_warmup_requester.py:189`, against `docs/uds_smc_update_2025-12-13.md:69`): a contract above `Desired` makes `PromptOnce` without its premise fail.
- `compute_history_status` is not guarded in the requester's cycle, so a snapshot file that cannot be read ends the requester and with it the process, although the comment at `app/fxcm_warmup_requester.py:167` says it must not block the system; building a publication is not guarded either.
- An idle publication says `"pipeline_state": "IDLE"` and then spreads `pipeline_meta_last` over it, which has that key too (`app/smc_producer.py:619`); `SmcProducer.Publish` shows the old state. It repeats the S2 metadata as well, whose symbol may have left the universe; hence the premise of `LiveMeansLive`.
- Symbols beyond `SMC_MAX_ASSETS_PER_CYCLE` are never selected: the slice starts at the front of an order that does not rotate (`app/smc_producer.py:274`).

Engine
- Breakers never appear: an order block's `origin_time` is always in 1970 (`smc_zones/orderblock_detector.py:497`), so every one is too old for `breaker_detector.py`, against `docs/smc_zones_stage4.md:8` and `docs/breaker_v1_status.md:18`. `SmcZones` models the detector as it is, and no run of it finds a breaker.
- The gap detector looks for the bars where the snapshot does not have them and returns nothing (`smc_zones/fvg_detector.py:150`).
- With BOS events and no CHOCH the bias follows the trend, against `docs/smc_structure.md:104` (`smc_structure/__init__.py:157`).
- An order block can refer to the signature of a leg that is no longer there (`smc_zones/orderblock_detector.py:347`, against `docs/roadmap.md:96`); HL legs make LONG order blocks.
- DISTRIBUTION is unreachable once there are `min_range_bars` bars (`smc_liquidity/amd_state.py:70`).
- `eq_tolerance_pct` is called a percentage and used as a ratio; the filter of active zones never filters by time; swing failures count bars from before the level existed; `ote_zones` are LONG then SHORT, not in order of time.
- As the window slides an event can change from CHOCH to BOS; both then stay in the history, since the type is part of the key.

Viewer
- The viewer's cache dies with the process: after a restart a session that was shown the old snapshot's events can get an update without any (`UI_v2/viewer_state_builder.py:332`), which is why `NoFlicker` speaks of states of this process; symbols that have no state yet leave the snapshot at the first save. A symbol removed from the universe, on the other hand, stays in it until then (`UI_v2/smc_viewer_broadcaster.py:261`).
- `SnapshotForward` needs its premise: a SET that failed leaves an older producer snapshot for the next start, and the broadcaster then overwrites a newer viewer snapshot with it (`UI/publish_smc_state.py:263`).
- `load_initial_snapshot` builds outside its `try`, and `_run_ui_v2_broadcaster` does not retry (`app/main.py:337`): JSON that is not an object in the snapshot key would end the broadcaster.

Runners
- With no fast symbols, or with Redis down at the start, `run_pipeline` returns and the exit code is 0, so a service manager does not see a failure (`app/main.py:126`).
- An address that cannot be bound ends a server silently; SIGTERM has no handler, so a service stop is a crash to the store.
- The tasks `run_pipeline` cancels are not awaited (227); `asyncio.run` cancels them a second time while they close their connections (`CancelledAgain`).

## 7. Not modelled, and why

- In the store: the write-through branch (the configuration uses write-behind), the `is_closed`
  branch of the deduplication (the ingestor strips that column), metrics, and the selector helpers beyond
  what `SmcProducer` reads.
- The tick cache: one value per symbol with an age that nothing modelled reads; the price listener is a task of `Runners`.
- In the requester: lookback arithmetic and the console snapshot. In the producer: prices in
  `stats`, the counters and ages of the S2 summary, capacity counters, and the awaits inside a publication (`ViewerPipeline` has those).
- In the engine: strengths, confidences and identifiers, session pools (no caller supplies the previous day's levels), the gap detector
  (it returns nothing) and the metrics that only describe a hint.
- In the viewer: the normalisation of prices and the contents of a viewer state, the cached FXCM block, the HTTP server and the OHLCV
  stream (they read or relay what `ViewerPipeline` models; their life as tasks is in `Runners`), and the client's own skipping of
  overlays with an equal sequence number.
- In the runners: the debug viewer's window, the lengths of back-offs, telemetry.
- HMAC is the three outcomes good, bad and none; parsing, formatting, logging and telemetry are left out.
- Console viewers, the web client, tools and deployment only present or move data.
