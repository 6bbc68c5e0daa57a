# Verification of bybit-crypto-monitor-telegram

TLA+ modules for the monitor in `src/`, the TLC runs that check them, and
theorems about them that TLAPS proves for all values of the constants. Line
numbers are those of the sources; `PROJECT.json` maps each definition to its lines.

## 1. The system

One asyncio process, one SQLite connection, two WebSockets, REST polling, one
Telegram chat. All tasks share one event loop, so code between two `await`s is
atomic; nearly everything hard here is what may happen at an `await`, or when the
process dies between two transactions.

```
 Bybit REST --> discovery --> registry --> listing tracker --> outbox --> dispatcher --> Telegram
     |              |                                            ^
     |              v                                            |
     |        sync_subscriptions                           alert service
     v              v                                            ^
 Bybit WS  --> ticker streams --> price engine --> momentum --> coins
                                                     ^
                                  SQLite: price_samples
 health monitor: reads them all --> SQLite kv row --> container healthcheck
```

| Component | State | Operations | Correct when |
|---|---|---|---|
| Alert service (`alerts/state_machine.py`, `alerts/service.py`) | `alert_state` row, outbox rows | one cycle: classify, debounce, composition, hourly; commit state and message, or suppress | state and message commit together; a transition is debounced and written once per episode; an hour has one owner; composition messages are spaced |
| Outbox dispatcher (`alerts/dispatcher.py`) | `outgoing_notifications`, listing flags, two events, failure count | expire, fetch, deliver, confirm, retry, back off, stop | every row is settled; no unexplained copy; no lost wake-up; settled rows are final |
| Listing pipeline (`market/discovery.py`, `market/listing.py`) | `instruments`, `listing_events`, `first_run` | fetch, reconcile, record, queue, repair at startup | a launch is announced, once; the first run is silent; events and rows stay paired |
| Ticker streams (`bybit/websocket.py`) | desired, confirmed and pending topics, lock, socket | connect, subscribe, ACK, watchdogs, sync with the registry | no topic is asked for twice, reported wrongly or forgotten |
| Price feed (`market/price_engine.py`) | latest tickers | snapshot, delta, poll | the engine shows the exchange's ticker |
| Momentum and history (`market/momentum.py`, `market/deduplication.py`) | `price_samples`, last sample times | record, find anchor, prune; group by coin | after an hour there is an anchor, the best one |
| Database connection (`persistence/database.py`) | lock, transaction owner, statement queue of the thread | transaction, read, cancellation | transactions are atomic and isolated; everybody gets the lock |
| Repositories (`persistence/repository.py`) | tables | single statements | modelled inside the actions that use them |
| Health monitor and check (`health/monitor.py`, `scripts/container_healthcheck.py`) | grace windows, last verdict, kv row | sample, classify, persist; check | no alarm before its window; no failure unnoticed; alarms end |
| Lifecycle (`main.py`), migrations (`persistence/migrations.py`) | tasks, stop event, services, connection, schema version | migrate, start, loops, callbacks, shutdown | the schema is whole; nothing works on a closed database; the backlog is delivered; shutdown ends |
| Telegram client (`telegram/client.py`) | chunk and attempt of a call | post, retry, give up | chunks arrive in order; a message that passes for sent has no hole |
| REST client (`bybit/rest.py`) | cursor and attempt of a fetch | page, retry, give up | a fetch that ends well is complete |
| Formatter, normalizer, models, settings, logging, soak scripts | none, or read once | pure functions, startup | not modelled, section 8 |

What is hard: three transactions where one would be needed (listings); a row read
before the transaction that replaces it (alerts); a batch read before it is
delivered (dispatcher); set objects replaced while another task awaits
(subscriptions); cancellation inside a transaction (database); two feeds writing
one store (prices); a worker that outlives the tasks around it and a shutdown that
waits for it (lifecycle); lost answers, restarts, retries and timeouts everywhere. The
hazards are listed line by line in `PROJECT.json`.

## 2. Plan

Order: what decides and delivers alerts first, then what feeds it, then what
watches it.

1. `AlertStateMachine` (operators), `AlertService` (the cycle). Done, proved.
2. `NotificationDelivery` (abstract promise), `AlertDispatcher` (refines it). Done, proved.
3. `ListingPipeline`: composes discovery, tracker and outbox. Done, proved.
4. `SubscriptionClient`: one stream with its two tasks. Done, proved.
5. `DatabaseConnection`: lock and statement queue. Done, proved.
6. `HealthMonitor`, `SpotHistory`: done, proved. `PriceFeed`: done; what it promises is
   liveness.
7. `QualifyingCoins` (operators) and `MomentumEvaluator`, which composes them with
   `SpotHistory`: what the alert policy is given. Done, proved.
8. `TelegramClient` (chunks, retries) and `RestClient` (pagination, retries). Done.
9. `Lifecycle`: processes from migration to shutdown, signals, failed starts, kills;
   composes 8 with the outbox worker. Done, proved.
10. An abstract `SerialStore` that `DatabaseConnection` implements without
    cancellation, and an abstract `ListingOnce` for the pipeline. Open.

Theorems: every invariant and every step property of the runs is one (section 6); what
is left to prove are `WritesAreOwned` and `LiveFieldsAreExact`, lemmas of what the runs
check, the type correctness of the lifecycle and of the feed, and the two refinements of
item 10.

## 3. Modules and code

**AlertStateMachine, AlertService.** `NextAlertState`, `LiveTransition`,
`CompositionUpdate` and `HourlyUpdate` are `AlertStateMachine.evaluate`; `AlertKind`
is the precedence in `process`. A cycle is two steps, because `process` awaits in
between: `Evaluate` (read market and row, decide, compute the key, which may raise)
and one of `Commit`, `Suppress` (the unique index refuses the key),
`TransactionFails`. `Restart` keeps the tables and empties the price engine.
A coin is a model value, a fingerprint a set. `episode` and `announced` are
history. The coins that qualify are an input (`MarketMove`).

**NotificationDelivery, AlertDispatcher.** `worker` is the place of the worker
task in `_run`/`_iteration`; `batch` the rows fetched and not yet dealt with; `wake`
and `stop` the two events. A producer's `Insert` and its `Wake` are two steps.
`Send` is a whole `send_message`: accepted, refused for good, or transient with an
optional `retry_after`; a copy may be taken although its answer is lost (`lost`).
`StopCalled`/`StopReturns`/`StopTimesOut` are `stop()`. `NotificationDelivery` says
what a producer may rely on: at least one copy before a row counts as delivered,
nothing before submission or after settlement; `ImplementsDelivery` maps
`pending` and `retry` to `queued` and `dead` to `dropped`.

**ListingPipeline.** Discovery is one step per REST call and per transaction:
spot, linear `Trading`, linear `PreLaunch`, `Upsert` and `MarkRemoved`, then one
`Record` and one `Enqueue` per event; announcements do the last two concurrently.
`Boot`, `ReconcileOne`, `ReconcileEnds` are startup. `Settle` is the dispatcher
seen from outside. `RestFails`, `DiscoveryFails`, `AnnouncementsFail`, `Crash` may
strike between any two steps. `cut`, `unpaired`, `left`, `gone` are history.

**SubscriptionClient.** The `run` task (connect, subscribe, REST poll, listen) and
the `sync` task (load, set, drop, subscribe, unsubscribe) share `lock`. Frames
travel in `c2s` and `s2c`; `sending` is a frame between `send()` and its return.
`previous` records that the code holds a set *object*, which is either the live
`_subscribed` (`Alias`) or one that a reconnect has replaced. Time is only whether a
request is older than the ACK window (`late`).

**DatabaseConnection.** `Acquire`/`Leave` are the lock (FIFO, as asyncio's is),
`Resume`/`Raise` continue a task with an answer, `Thread` runs the head of the
statement queue, `Cancel` throws into a task at its `await` while its statement
stays in the queue. Each transaction has two writes that belong together.

**HealthMonitor.** `Probe`, `Collect`, `Persist` are one pass of `run_forever`,
`PassFails` the exception of `depth()`, `load_all()` or `kv_set_json`.
`Tracked` is `_critical_since`; `check_health` is the container's script. Clocks
are ages with a cap, so the state space is finite without a last instant. REST
discovery and sockets are the same kind of dimension (age of the last success
against a threshold).

**SpotHistory.** One market's part of the market loop: `CycleStarts` (the one
clock reading of `evaluate_all`), `Record`, `FindAnchor`, the rest of the cycle,
`Prune` (a second clock reading). A sample is its timestamp.

**PriceFeed.** One market with several fields; a value is the number of times the
field has changed at the exchange. `Receive` is `message_handler`, `Merged`
`update_from_delta`, `Apply` `update_tickers`. The poll of a new connection must
end before its first frame is read.

**QualifyingCoins, MomentumEvaluator.** A market is a record of its instrument and its
prices; a change is a pair of prices, compared with the threshold and with other
changes as a fraction, which is what the code's decimals do up to the final rounding
to a float. `SortsBefore` is the sort key, `aggregate_qualifying` the grouping. In
`MomentumEvaluator` the market of `SpotHistory` is one of a coin's markets:
`evaluate_all` ends where the history has found, or not found, its anchor, and the
values are there until the policy is done. `PreferredTo` states the documented order
on its own, without `_tie_break_rank`. The coin's other markets, linear and spot, come
with their price of an hour ago as an input. `sorted` is the sequence that the key allows
(`Sorted`); that there is one is proved.

**TelegramClient.** `call` is where `_send_chunk` is, with chunk, failed attempts, and
the ticks its post or sleep still lasts. Which outcome is tried again here
(`PostFails`), which is left to the dispatcher (`PostUnclear`) and which is final
(`PostRefused`) is the code's; `taken` counts the copies of each chunk at Telegram, an
answer lost on the way included.

**RestClient.** `fetch` is the loop of `_fetch_instruments` around that of `_request`.
The exchange's list moves between pages (`Relist`). That a page starts behind the
cursor's symbol is an assumption about Bybit, named in the module.

**Lifecycle.** `stage` is the place of the main task in `run()`; `tasks` are `_tasks`, of
which the `Loops` write to the database and the `Sockets` do not; `worker` is the
outbox worker, which is no member of `_tasks`. The worker's database errors, its
backoff and expiry are `AlertDispatcher`'s; here a send is a call of `TelegramClient`
(`T`) and the first discovery a fetch of `RestClient` (`R`), both with their own
variables. `writer` is the loop in a transaction; it excludes the worker's
transactions, as the lock does. A kill (`Crash`) and `StartFails` may come anywhere;
`Volatile` is what a process loses. `stuck` is a shutdown that raised: `wait_for`
timed out, or the last commit failed; the connection stays open then, and its thread
keeps the process (`main.py:88-90` says that of the thread). Time passes only while a
message is sent, which makes the stop timeout comparable with what a delivery takes.
`whole` and `doubt` are history: the rows whose message Telegram has in full, and those
of them whose answer, or whose process, was lost (`Cut`: the process is killed or the stop
timeout cancels the worker in the middle of a delivery, whose last post may still arrive).

The `MC*` modules only add symmetry sets and values that a cfg cannot write.
Operators named `Mut...` are deliberately broken variants of the definition that
follows them; with one in place its property must fail, which shows that the
property depends on the code.

## 4. Runs

One passing run per component, with its safety and its liveness properties under
`FairSpec`. The alert service has two, because its dedupe keys collide and its cycles
raise only without debounce and cooldown.

| Run | Question | Bounds, and why they suffice |
|---|---|---|
| Alert | row, observations and outbox in step; transitions debounced, hours owned once, compositions spaced; pending resolves, the row catches up | two coins with `MinCoins = MaxCoins = 1` reach all three ranges and two compositions; 4 instants with debounce 1, cooldown 2, hour 3 hold two debounces, a whole cooldown and an hour's edge; one restart, one failure |
| AlertInstant | one announcement per process | as Alert, with debounce and cooldown 0: several episodes in one second, keys taken (`Suppress`), cycles that raise (`LoopError`) |
| Dispatcher | copies, flags, snapshot, wake-up, refinement; rows settle | one alert and one listing row (different ages, and order of two); clock 0..2 with ages 0 and 1 and delays 1 and 2: the alert expires before its retry, the listing row is retried and then expires; allowed failures 0, so that one fault makes the worker unhealthy; one crash, one stop |
| Listing | pairing, silence of the seed, no resend; registry catches up | one symbol of each kind (with one alone every discovery that finds it would be the first), both values of the switch at each start, an announcement for a known symbol, two exchange moves, one failure or one crash (`MaxTroubles`: of both together, one) |
| Subscription | requests and confirmations; the stream carries the registry's topics | three topics in batches of two: two batches, one partly filled; one registry change, one fault |
| Database | atomicity, isolation; everybody is answered | three tasks, two calls each: an owner and two waiters, one of which is cancelled; one refused statement |
| Health | alarms neither early nor late, and they end | two windowed dimensions and the database; grace 3, interval 1, heartbeat 2 have the order of the defaults (180, 30, 120) without their ratio; a window spans several passes; two connection failures, one restart; ages are capped, time is not |
| Momentum | an anchor when there must be one, the best one; each coin over the threshold by its preferred market, its others behind | constants at equality in every inequality of `HistoryAssumption`; 16 instants, hour 6: pruning runs for half of them; one error, one restart; a USDT and a USDC market and two spot markets of one coin, quoted in a stablecoin and in another coin, with prices at the threshold, over it, equal and apart, the second spot market warm or not, and a second coin that settles in an enabled coin or in another |
| Feed | engine equals exchange | two fields with two changes (a delta of one field keeps the other), two connections, two failing polls |
| Lifecycle | order of start and stop, schema, rows against deliveries, backlog, chunks, pages, end of shutdown | migrations of two and one statements, so that a file may be new, old or current; two rows: one is sent while the other waits; two chunks, one retry, posts and sleeps of one tick: a call takes at most six, and the stop timeout is three, which is the order of the program's 30 s and the 74 s that four posts of 15 s and sleeps of 2, 4 and 8 s take for a chunk: a smooth delivery ends in time, one that is tried again may be cut; two symbols, pages of one, one change of the list; two processes, two faults: one more than the retry of a page or a chunk absorbs |

Two runs are expected to find a violation (section 7): AlertRestart and
ListingFetchRace.

Each module has its `TypeOK`; it holds in the runs above (add `INVARIANT TypeOK` to a
cfg), and it is a theorem for all but the feed, the lifecycle and the two clients in it.
`DecisionInTime` and `SettledIsFinal` are theorems only. `WorkerRecovers`,
`WritesAreOwned` and `LiveFieldsAreExact` hold in the same way: they are lemmas of what
the runs check (`EventuallySettled`, `AllOrNothing`, `EngineCatchesUp`). `SeedIsSilent`
and `EnqueueNeverClashes` are conjuncts of `LaunchesAreRecorded` and `EventsArePaired`.

Deadlock is checked except where the model really stops: the dispatcher after
`stop()` at the clock's end, the database when all calls are done, the history at
the clock's end, the lifecycle when no process is left to start.

## 5. Fairness

AlertInstant and Momentum have no liveness property and use a specification without
fairness, as do the runs that look for a violation. The others use `FairSpec`:

* weak fairness of the steps of a task: the event loop resumes a task whose
  awaited event has happened, and each wait in these loops has a timeout
  (`wait_for(stop_event.wait(), ...)`, `dispatcher_poll_seconds`, `asyncio.wait_for` on
  receive);
* weak fairness of `Tick`: time passes;
* strong fairness of taking the subscription lock, weak fairness with an explicit
  queue for the database lock: asyncio.Lock serves waiters in order;
* answers of Bybit and Telegram that are not failures arrive; failures are bounded
  faults;
* a dead process is started again (`restart: unless-stopped`) in HealthMonitor and
  Lifecycle;
* in Lifecycle, start, shutdown and worker are one task each, so each has one weak
  fairness condition; a cancelled task ends (`TaskEnds`), a transaction that was begun is
  committed (`LoopCommits`), and the clock reaches `next_attempt_at` (`RetryDue`).

Nothing is assumed of crashes, market moves, faults, cancellations, signals or the
socket, nor that a loop begins a transaction.

## 6. Proofs

One module per component, `<Module>Proofs`: alert service, dispatcher, listing pipeline,
subscriptions, database connection, health monitor, momentum (history, evaluator and
coins) and lifecycle (with both clients); all checked by tlapm to the last leaf. Nearly
all have one shape: `Inv` is a conjunction of named parts, `Init => Inv`, one lemma per
action for `Inv'`, and the properties follow from `Inv`.

*Assumptions.* Types of the constants, and in addition: `SettingsAssumption` is what
`Settings` validates (a cooldown or a debounce of zero is allowed); `HistoryAssumption`
says that the intervals fit each other (no hole between samples, a retention that covers
the hour and the tolerance); `LifecycleAssumption` that migrations are not empty and that
the exchange numbers finitely many symbols; `QualifyingAssumption` that the universes
switched on are spot, USDT and USDC, the three flags there are; `EvaluatorAssumption` that
no two markets of a cycle share category and symbol, the registry's key. `None`, `Missing`
and `Alias` are no value they could be taken for. The clock of the alert service, the
dispatcher and the history does not run backwards; that is in `Tick`, and the theorems
hold only as far as it does.

*Alert service.* `RowsMatchState`, `CompositionSpacing`, `HourlyOwnsBucket` and
`DebouncedTransition` are not inductive: nothing in them says that the decision in
flight was made on the row still stored, or that its time is not older than the
outbox. `StateFollowsEpisode` supplies the first (and that a pending debounce began
with the episode and nothing was announced since), `DecisionInTime` the second (and
that the remembered hour covers each message that owns one). Their conjunction with
`TypeOK` is preserved by each action; the action properties follow from it one
step later. `OneAnnouncementPerRun` needs more: `Settled` says that an announced
market still in range is seen so by the observation in flight, and that an
observation overtaken by the market's leaving cannot announce again.

*Dispatcher.* `BatchStillDue` carries the argument: a row of the snapshot is unsent
and due, because only the worker changes rows that exist and time only makes rows
more due. With it a step on the current row cannot touch a settled one
(`SettledIsFinal`), every copy has its reason (`CopiesAccountedFor`) and flags follow
rows (`ListingFlagConsistent`). `NoLostWakeup` needs the producer's half-way state
`waking`. `Refinement` shows that each step is a step of `NotificationDelivery` or a
stutter; `CopiesAccountedFor` gives `Confirm` its copy, `BatchStillDue` gives
`Transmit` and `Drop` their queued row.

*Listing pipeline.* `EventsArePaired` speaks of a running process, but what it says is
decided at startup: `Pairing` carries it through the reconciliation, where every event
without a row is still in `todo`, and `Hands` says that what a producer is about to queue
is recorded and in no other hand, so that an insert cannot meet the unique key.
`LaunchesAreRecorded` speaks of the time between discoveries; inside one, a launch that
the registry has seen may be neither recorded nor lost, but found (`Seed`). That a symbol
of the first run is never announced rests on what the exchange does: a symbol that trades
does not go back to `PreLaunch` (`Forward`), and only what was removed becomes new again
(`Known`). `RestartsNeverResend` is the action property that follows: each action that
writes the outbox writes an unused row or settles a queued one.

*Subscriptions.* The three properties hold each other up. `Once` puts every symbol in at
most one of confirmed, pending and the lock holder's list, and so a request cannot meet
another; `Leaving` keeps what is being unsubscribed out of the first two. `Requested`
is `DesiredIsRequested` inside a sync. `ConfirmedIsStreamed` looks at Bybit's side, so the
invariant must follow the frames: a subscribe frame on its way is that of a pending
request, none behind it takes its symbols (`Wire`), an ACK on its way may only confirm
what is streamed (`Streamed`), and an unsubscribe frame only takes what is no longer
counted. `Locking` and `Connected` say who may be in the middle of what, the case of a
sender that comes back to a connection other than its own included.

*Database connection.* A cancelled task leaves statements behind, so neither property can
be read off the lock. `Queued` describes the thread's queue: only the holder's statement
is awaited, it is the last, and what cancelled tasks have left before it is at most a
write or a COMMIT with its ROLLBACK right behind. `Store` then says which writes are open
when the statement at the head runs, or once the queue is empty. A read is handed over
only by a holder of the lock, behind any ROLLBACK; `ReadsAreCommitted` and `AllOrNothing`
follow.

*Health monitor.* `GraceRespected` compares the verdict with how long a dimension has not
been found good, `FailuresAreNoticed` the check with how long one has been bad. Between
them are the windows: no older than the first (`Windows`), and behind the second by
less than an interval while the process lives (`Watched`), from which the verdict and then
the row follow (`Reported`). `Silence` covers the row that a dead monitor leaves.

*History and coins.* `EvaluatorIsHistory` is a refinement: whatever markets a cycle meets,
it does to the history of one of them what `SpotHistory` says, so the invariant is that of
`SpotHistory`. `Unbroken` is its heart: up to the newest sample of an unbroken run every
moment has a sample within the tolerance, and that sample is not old; one more cycle
extends it because of `SampleEvery + Poll + Lag <= 2 * Tolerance + 2`. `Pruned` says that
what is deleted is out of reach of this cycle and the next ones although both clock
readings differ. `BestMarketIsShown` rests on lemmas about the operators: changes compare
as the fractions they are (`AboveOrders`, by products of naturals), the sort key is a strict
total order on markets told apart by category and symbol (`KeyOrders`), a finite set has a
sorted sequence (`SortedExists`, a smallest set without one would have a first element),
and the key agrees with the documented preference (`KeyIsPreference`), spot against spot
included. The rest of the sequence are the coin's other markets (`EntryIsBest`).

*Lifecycle.* Five invariants, for any number of processes, kills and failures.
`NothingOutlivesDatabase` says nothing of the stage, so `Order` adds
what each stage may rely on: `stop()` waits for a worker only while the connection is
open, and from there on no loop is left. `SchemaFollowsVersion` needs only that the
version is one that exists. `Message` says of a `send_message` call that the chunks before
the current one are taken, those after it are not, and the current one at most as often as
it was posted; `ChunksInOrder` follows, and so does that Telegram takes a chunk at most
`telegram_max_retries` + 1 times. `RowsMatchDeliveries` needs both ends of a delivery:
`Deliveries` adds that the worker holds pending rows only, that it knows of the current
one's complete message, and that a message complete and not in doubt is in the worker's
hands only with its answer (`accepted`), so that what `Settle` writes is what happened.
`Message` supplies that an accepted call is complete, and that a cut one completes at its
last post only (`CompleteCall`). `Pages` says that whatever
was listed all the while is among the results or after the cursor; its step over a good
answer is `PageReachesCursor`: a page holds everything after the old cursor up to the new
one.

*Induction.* Where a proof needs a least number or a smallest set (the first row of a
batch, the greatest symbol of a page, the closest sample, a sorted sequence), it takes a
minimal element of a well-founded order: the induction theorems themselves take an
operator, which the provers cannot instantiate.

*Model-checked only.* The liveness properties (fairness and ENABLED are beyond the
prover), hence all that is said of `PriceFeed`, and the lemmas `WorkerRecovers`,
`WritesAreOwned` and `LiveFieldsAreExact`.

## 7. Findings

Each is a sentence of the repository that the code does not keep, with a run that
shows how; `PROJECT.json` quotes it.

| Run | Property | What happens |
|---|---|---|
| AlertRestart | `AnnouncedOnce` | the price engine starts empty, the first cycle resets the state, and the same market is announced again |
| ListingFetchRace | `LaunchIsAnnounced` | a launch between two REST calls is never announced |

Side experiments ask narrower questions. They are not among the runs, but their
configurations are kept, and each ends in a counterexample
(`tlc -config <name>.cfg <module>`):

| Configuration, module | Property | What happens |
|---|---|---|
| AlertHourlyLost, MCAlertService | `ConsumedHourHasMessage` | a composition update hides the hourly message and still consumes the hour (`service.py:63-68`, `SPEC.md:35`) |
| AlertZeroCooldown, MCAlertService | `NoCycleRaises` | a cooldown of 0 passes the validators and is divided by (`service.py:116`) |
| DispatcherStopDue, MCAlertDispatcher | `StopDeliversDue` | `stop()` does not try everything that is due (`dispatcher.py:121`, `:208`) |
| DispatcherStopTimeout, MCAlertDispatcher | `StopReturnsNormally` | a slow delivery turns `stop()` into a TimeoutError, and the rest of the shutdown is skipped (`dispatcher.py:212`, `main.py:88-106`) |
| ListingCrash, MCListingPipeline | `LaunchIsAnnounced` | a launch is lost between the registry's commit and the event's (`discovery.py:127`, `listing.py:126`) |
| SubscriptionTimeout, MCSubscriptionClient | `TimeoutMeansMissing` | an ACK that has arrived but is not read yet counts as missing (`websocket.py:226-229`) |
| SubscriptionRestOutage, MCSubscriptionClient | `EventuallyStreaming` | while REST is down each new WebSocket is closed again (`websocket.py:209-210`) |
| DatabaseCancelledBegin, MCDatabaseConnection | `TransactionsStartClean` | cancelling BEGIN leaves a transaction without an owner, and the next BEGIN is refused (`database.py:120`) |
| DatabaseCancelledCommit, MCDatabaseConnection | `RaisedIsRolledBack` | cancelling COMMIT raises although the writes stay (`database.py:123`) |
| LifecycleExit, MCLifecycle | `CleanupGuaranteed` | with a stop timeout that a call may exceed, shutdown stops half way and the database stays open (`main.py:88-90`, `:206`; 30 s against 74 s and more) |
| HealthDatabase, MCHealthMonitor | `DatabaseCriticalAtOnce` | a database failure ends the pass that should report it (`monitor.py:160`, `:245-246`) |
| HealthReconnects, MCHealthMonitor | `ShortReconnectsTolerated` | passes that fail in between join two short outages into a long one (`monitor.py:238-240`) |
| FeedLatePoll, MCPriceFeed | `WebSocketIsPrimary` | a late REST answer replaces a newer socket price (`price_engine.py:77-88`, `:199-204`) |

## 8. Not modelled

* Formatting, normalisation, models, logging: pure functions without state.
* Settings: what is validated appears as assumptions on the constants.
* What `RestClient` leaves out: the calls of a single page (tickers, announcements, spot
  instruments) are one step in their callers, and `get_server_time` and
  `get_inverse_instruments` have no caller.
* The rounding of a change to a float after the exact division.
* How a text is cut into chunks; `retry_after` is in `AlertDispatcher` only.
* Heartbeat pings, the length of reconnect backoffs, the subscriptions of a second stream.
* In HealthMonitor, that a reconnect resets `_last_ticker_at` (`websocket.py:202`): a
  socket turns bad by age only. A dimension that turns bad at once is the dispatcher's,
  whose health is free to change at any time.
* That `_on_ws_reconnect` polls only once the poller exists (`main.py:282`): the first
  connection may come up before it does, and goes on without the poll.
* The age of a ticker: nothing in the program limits it.
* Clock steps backwards, and files damaged or unreadable.
* A batch cut short by `LIMIT` is in the model (`BatchLimit`) and in the theorems, but the
  run's limit is its number of rows, so starvation beyond a limit is not checked.
* Soak and staging scripts are operator tools around the program.
