# Verification of polymarket_conditional_arb

A TLA+ model of the paper-trading runner in `src/polymarket_conditional_arb`, checked by
TLC on small instances, with theorems about it for every instance proved by TLAPS.

The program watches binary prediction markets and, whenever one YES and one NO share can
be bought for less than what the pair redeems for, executes that purchase against a
simulated portfolio. No order is ever sent. What makes it hard is not the arithmetic of
one trade but what happens around it: a plan is executed as a persisted sequence of
steps, the process can die or fail to save between any two of them, other handlers
(settlement, inventory management) work on the same portfolio, limits may have been
changed before the restart, two runners may be started on one directory, and the order
books the decisions rest on are assembled from two unordered sources. Even which markets
there are is read page by page from a list that changes meanwhile.

## 1. The system

| part | code | state | operations | talks to |
| --- | --- | --- | --- | --- |
| paper portfolio | `paper.py` | one JSON file (cash, result, inventory with cost bases, executions, settlements, book fingerprints, active execution) and its copy in memory | load, recover, start / continue / finalize / abort a stepped execution, execute once, complete a missing leg, reconcile settlements, reset, save | event log, scanner |
| fill simulation | `paper.py` 561-889, 1640-2400, 2418-2821 | none | size a plan against two ask books, the budget and the thresholds | portfolio, order book |
| portfolio lock | `portfolio_lock.py` | one lock file per portfolio | acquire, release | every command that owns the portfolio |
| event log | `event_log.py` | append-only JSONL | append | portfolio, scanner |
| market data cache | `market_data.py` 84-631 | books per token and side, readiness, generations, recent evidence | seed asks by REST, apply snapshot / delta / print / tick / resolution, mark stale, remove | websocket workers, scanner |
| websocket manager | `market_data.py` 685-897 | workers, their token sets, tasks | start, update tokens, stop; connect, receive, reconnect | cache, scanner callbacks |
| scanner | `scan_bot.py` | universe, dirty tokens, refresh / reconcile / backfill tasks | evaluate dirty batches, backfill, refresh, reconcile, settle | everything |
| runtime status | `runtime_status.py` | one JSON status file | start, update, heartbeat thread, stop | scanner, dashboard |
| universe cache | `market_universe_cache.py` | one JSON file | write, load if fresh | scanner |
| fetcher, network | `fetcher.py`, `network.py` | HTTP sessions | pages of events, markets by id, books by batch with fallback; retries | scanner |
| arbitrage strategy | `arb_strategy.py`, `arb_models.py`, `order_book.py` | none | depth of one market; linear program over a negative-risk event | tests only |
| latency probe, configuration | `latency.py`, `config.py` | none | percentiles; parse the environment | scanner |

What makes each part correct:

* *portfolio*: memory equals file between handlers; every execution is recorded exactly
  once; money is neither made nor lost; every cent of the realized result is in one
  record; no step spends the reserve or lowers cash; what was traded of a pair of books is
  not traded again under the same settings; a started execution is closed eventually; a token is settled once.
* *lock*: one owner; only stale locks are removed; a start ends.
* *event log*: never ahead of the portfolio.
* *cache*: a book that counts as ready is what the exchange sent since the last snapshot;
  a lost connection leaves nothing ready.
* *manager*: after an update every token is subscribed by exactly one live worker.
* *scanner*: a dirty token is evaluated or scheduled for backfill, never forgotten; at
  most one refresh, one reconcile and one backfill run at a time.
* *fill simulation*: quantities pair up, costs add up, the budget is kept.
* *universe, universe cache*: what is called the full listing misses no market that was
  there to be read; coverage becomes full; a market with unmatched shares is looked up
  until it is settled.
* *fetcher*: a book is filed under the token it belongs to, however short the answer.
* *strategy*: it sees what the runner would trade, and what it claims for an event is
  paid whichever outcome wins.

The hazards, each at its line and with the properties that cover it, are listed in
`PROJECT.json`.

## 2. The modules

| module | what it is |
| --- | --- |
| `PaperPortfolio` | the portfolio, its runner process, the file, crashes and failed saves; one action per handler |
| `PaperAccounting` | sums over the portfolio: conservation, explained result, and the refinement mapping |
| `PaperLedger` | the abstract specification: a ledger moving by whole transactions |
| `MCPaper` | instances for TLC |
| `PaperPortfolioProofs` | type correctness, memory = file, log within file, cash never falls; executions recorded once, books traded once, tokens settled once, steps keep the reserve |
| `PaperAccountingProofs` | sums over the portfolio, and the refinement of the ledger |
| `FiniteSums` | lemmas on sums over finite sets, for the accounting and the events |
| `PortfolioLock` | the lock file, one action per system call |
| `MCLock` | instances for TLC |
| `PortfolioLockProofs` | exclusion and what may be removed |
| `MarketDataCache` | the order-book cache, one operator per locked method |
| `BookFetch` | how one chunk of books is read over REST, as operators |
| `MarketFeed` | the exchange, the websocket workers, their manager and the REST seeds around that cache |
| `MCFeed` | instances for TLC |
| `MarketFeedProofs` | workers, subscriptions and reads; the cached asks follow the exchange |
| `ScanLoop` | the asyncio main loop of the scanner, its dirty tokens and its background tasks |
| `MCScan` | instances for TLC |
| `ScanLoopProofs` | nothing due is forgotten, what a refresh adds is looked at |
| `MarketUniverse` | which markets the runner knows: pages, cache file, REST cycles, slices, refreshes, settlement look-ups, restarts |
| `MCUniverse` | instances for TLC |
| `MarketUniverseProofs` | what is called full misses nothing |
| `PairedTranches` | the arithmetic on two ask books, as functions |
| `FillEvaluation` | how a signal becomes an execution or a remembered failure |
| `ArbStrategy` | the two evaluators of the arbitrage strategy, beside the fill evaluation |
| `MCFill` | instances for TLC |
| `FillEvaluationProofs` | the best plan, the second look, what an execution rests on and earns; the strategy against the runner, and its events |

Three modules compose others by `EXTENDS`: `MarketFeed` drives `MarketDataCache` and reads
with `BookFetch`; `FillEvaluation` uses `PairedTranches`; `ArbStrategy` adds the strategy to
`FillEvaluation`, so that both see the same books. `PaperAccounting` maps `PaperPortfolio`
to `PaperLedger` by `INSTANCE ... WITH`. The remaining seams are abstracted from both
sides: a plan that `FillEvaluation` accepts is a member of `Plans` in `PaperPortfolio`; a
ready ask side of `MarketFeed` is a member of `fresh` in `ScanLoop`; the universe that
`MarketUniverse` adopts from a refresh is the one `ScanLoop`'s refresh seeds and
`MarketFeed`'s `StartUpdate` hands to the manager; `leftover` in `MarketUniverse` is the
unmatched inventory that `PaperPortfolio` settles when a pass shows it the market.

### PaperPortfolio

`disk` is the state file, `mem` is `PaperPortfolio.state`, `pc` is where the single runner
process is: `down`, `boot` (loaded, not recovered), `idle` (between two handlers), `step`
(inside `_continue_stepped_execution`, between two saves) and `settle` (inside
`reconcile_public_markets`, between two rows). A handler that saves once is one action, as
nothing can interleave with it but a crash: it computes its working copy as a function of
the portfolio (`FilledBook`, `ClosedBook`, `LegBook`, ...) and hands it to `Save`, which
is `_save_state` with both of its ends: the file is replaced atomically (temporary file,
fsync, rename) and then memory, or the save raises and memory is reloaded from the file.
The event append that follows a save may fail, or be lost in a crash. `Crash` may happen
in every state but `down`; a save that fails during recovery ends the start-up and is the
same transition as a crash there.

| action | code |
| --- | --- |
| `Boot`, `Recover` | `load`, `recover_completed_active_execution` |
| `StartExecution`, `ResumeExecution`, `FillStep`, `FinalizeExecution`, `AbortExecution` | `execute_binary_complete_set`, `_start_`, `_continue_`, `_finalize_`, `_abort_stepped_execution` |
| `ExecuteOnce` | `_execute_binary_complete_set_once` (a start with zero friction: step limit 0) |
| `CompleteLeg` | `complete_missing_leg_if_profitable` |
| `BeginReconcile`, `SettleToken`, `EndReconcile` | `reconcile_public_markets` |
| `Shutdown`, `Reset` | `_save_portfolio_on_shutdown`, `reset` |
| `Resolve`, `Crash` | the environment |

Abstractions, and why they lose nothing the properties are about:

* Money and shares are integers and the EPSILON comparisons exact. Averages per share
  stand for the level-by-level fills: `_build_step_execution` scales the plan's totals by
  filled over planned, so a step costs its quantity times the plan's averages.
* A plan is any member of `Plans` that `PlanAccepted` lets through: unknown fingerprint,
  minimum size, marginal cost below payout, budget, threshold. How the plan was found in
  the books is the fill simulation, a component of its own. `sized` is what the sizing
  took a pair to cost, so that fees and slippage counted later may differ from it.
* The floor a step is checked against is the plan's effective threshold. In the code the
  state-dependent part of the threshold (the recent partial-failure rate) applies when the
  plan is evaluated; plans that would fail it are not in `Plans`. `FillEvaluation` has it.
* A fingerprint is what `book_pair_fingerprint` hashes (`FingerprintOf`): the books, which
  stand for levels and revisions; the quantity, which says how many of the levels the
  tranches take, and which cash and ceiling bound; and the step plan, of which
  `max_step_count` may differ between two runs, 0 standing for the missing step plan of the
  zero-friction path. An active execution keeps the fingerprint it was started with. The
  signal of a stepped run is compared as well, without a step plan, but it hashes the books
  it saw, which need not be those of the fill: that comparison is left out, so that more
  executions start in the model than in the code.
* A leg fingerprint is one value, `LegFp`; no property compares two of them.
* `Clears` compares the profit with the floor; the second threshold, `net_return_bps`
  (`paper.py:556`), would refuse more, and is left out.
* Risk limits are left open: an execution may always not be started, and `CompleteLeg` is
  not restricted to the market's own re-entry refusal.
* A settlement pass looks only at markets with inventory and may know less than is
  public: a market may be missing, open, resolved without a winner, or resolved with a
  winner named by token or by outcome (`News`).
* A pass that changed nothing may still save, because valuations carry timestamps.
* Negative-risk markets are never traded and their settlement stays pending.
* `simulation_failures` is left out here: no handler of this module reads it. The plan
  evaluation does, and `FillEvaluation` models it.

`SavedBooks` are the files an earlier version may have left. `WellKept` is what is asked of
them: executions numbered the way `execution_count + 1` numbers them, and an active
execution that has a number of its own, or that is recorded and complete. A start chooses
its step limit from `StepLimits`, and 0 is a start with zero friction, which executes whole
plans. A file with an active execution is not opened that way (a conjunct of `Boot`): the
code does not refuse it (`paper.py:3530`), and there a one-shot execution would take the
active execution's number.

### PaperLedger

The promise of the file to whoever reads it: one open execution at most; it is filled by
whole transactions, enters the history once when it closes, and may leave without trace
only if it traded nothing or is in the history already; every transaction keeps `money +
basis = capital + result` and never lowers the money. `PaperAccounting!Ledger` maps the
portfolio to it and `ImplementsLedger` says that every save is one transaction and that
crashes, failed saves and restarts are none.

### PortfolioLock

One action per system call of `acquire` and `release`: exclusive create, read, judge,
confirm, unlink, write. A member of `Procs` is one process from start to end, so it stands
for its token and its file. `Host` and `Pid` are functions: a pid may be reused once its
process is over, and processes of another host share the directory. `Overlap` allows two
processes to be acquiring at once, `Faults` allows crashes and denied unlinks.

### MarketDataCache, BookFetch, MarketFeed

Each method of the cache holds its lock throughout and is one operator. A side of a book is
the set of prices it lists, or `NoBook`. `MarketFeed` is one asyncio thread, cut at its
awaits, and an external exchange. The exchange sends a token's book on subscription, then
every change, and answers a REST read with the books of that moment. Messages keep their
order on one connection, and on no two; `RestRead` and `Seed` are a request and its answer,
which anything may overtake.

| action | code |
| --- | --- |
| `Connect`, `Receive`, `ConnectionLost` | `_MarketWebSocketWorker.run`: subscribe under the worker's lock, the read loop, the `finally` block |
| `StartUpdate`, `AssignTokens`, `SendUpdates`, `SendFails`, `AddWorkers` | `MarketWebSocketManager.update_tokens` and the worker's, up to and after the await that sends |
| `ApplyBookSnapshot`, `ApplyPriceChange`, `SeedAskBooks`, `MarkTokensStale` | the cache's methods |
| `BookChanges`, `Break`, `RestRead`, `Seed` | the environment, and the scanner's seeding |

`position`, `disturbed` and `lost` are history: the newest change taken off a wire, the
tokens whose book was overwritten by an older one, the tokens whose connection broke and
for which nothing has vouched since. Sizes, generations, the recent evidence and the
heartbeat are left out. The universe only grows (`_priority_merged_universe`), so the
branches for removed tokens and for fewer workers are unreachable in the code, and absent.

`BookFetch` is what lies between the request and its answer: a batch that may come short,
out of step or unusable, the names its rows carry or do not, and the single requests for
what is missing. `RestRead` takes any answer it can come to (`Reads`). A request that fails
after its retries is an answer without rows, and the books of one chunk are read at one
moment, single requests included; a row that is an object can be parsed. The variant
`fetch_ask_books_with_evidence` asks for the same books in the same order and adds records
of the requests; it is not a definition of its own.

### ScanLoop

`pc` is where `_run_market_ws_forever` is. The coroutine awaits in `Awaits`; only there may
a callback, a signal or a task move. The other places are passed in one go and are separate
actions only for legibility. A background task is a pass: a phase, the tokens left to
request and those seeded. `due` is history: the markets whose books changed since they were
last evaluated.

| action | code |
| --- | --- |
| `BootChunk`, `BootFails` | the incremental bootstrap and its evaluation |
| `WsMessage`, `Disconnected`, `BookAges`, `StopRequested` | callbacks, `ws_stale_seconds`, signals |
| `BackfillStarts`, `BackfillChunk`; `ReconcileChunk`; `RefreshFetched`, `RefreshChunk`, `RefreshDone`, `RefreshFails` | the three tasks |
| `LoopTop`, `WakesUp`, `TimesOut`, `TakeBatch`, `CollectAgain`, `Evaluate`, `EvaluateStops`, `RefreshTimer`, `ReconcileTimer`, `LoopEnds` | the loop body, from top to bottom |

`Mark`, `TakeNowait` are the accumulator; `Ready` and `Hit` the split of a batch;
`Schedule` is `_schedule_targeted_backfill`. `begin_`, `finish_`, `fail_full_reconcile` and
`mark_full_universe` have no caller and are absent. What an evaluated market does to the
portfolio is `PaperPortfolio`'s; here its evaluation only clears `due`.

### MarketUniverse

`listing` is Gamma's list of active events, which grows at either end and loses a row when a
market closes; `fetch` is a walk over its pages, `universe` what the process works with,
`full` what it takes it for, `file` the cache. `asof` is history: the markets that were
listed when the walk behind a universe began, less those that slid from a page that was
still to be read into one that had been. `heard` is the part of the websocket cache that
outlives a market: the resolution messages that came.

| action | code |
| --- | --- |
| `ListMarket`, `ResolveMarket`, `CacheAges` | Gamma, its message to a subscriber, and time |
| `StartFull`, `FetchPage`, `Store`, `RestEvaluate`, `CycleFails`, `RestStarved` | a cycle of the polling mode: `fetch_active_events`, the cache write, the books, the evaluation and its settlement pass |
| `LoadCache`, `StartSlice`, `WsSeeded`, `WsStarved`, `WsEvaluate` | a start of the websocket mode on the cached universe or on the events with the largest volume, and the evaluations of its loop |
| `RefreshStart`, `RefreshPage`, `RefreshSeeded`, `RefreshStored`, `RefreshUnlogged`, `RefreshFails`, `RefreshStarved`, `Adopt` | `_refresh_market_universe` and `_finish_refresh_task_if_ready` |
| `Boot`, `ProcessEnds` | a start in either mode, and an end of any kind |

Abstractions: an event has one market, which is closed and resolved in one step;
`market_limit` is unset; the message about a resolution names the market the way the
portfolio does; a universe is a set. The order in which books are seeded is `ScanLoop`'s.
A pass either gets its answers about markets outside the universe or none of them.

### PairedTranches, FillEvaluation

A book is the nondecreasing sequence of its shares' prices and a level is a run of equal
prices. Shares are integers; money is multiplied by `Base`, so that rates in parts of `Base`
leave no remainder. `SimulatePairedTranches` is the code's loop, level by level: the code
keeps an index and a rest for each book, and here both follow from the quantity taken so
far, as `Depth` counts the equal prices that are left from its place on. `Taken` is what
one pass through the loop adds. `SupportedQuantity`, `ScaleDepth`, `WithSupport` and
`AdverseAdjust` say what the helpers of those names compute; `Among` keeps the shares at
given places of a book in their order.

`Signal` is an accepted optimistic evaluation, `Evaluate` the look at the market at fill
time that follows it (`evaluate_binary_paper_execution`, `_execute_paper_step`) up to
`executed`, `partial` or `other`. A look is a pair of fill-time books, a tape for each leg
(levels that shrank, trades, levels that grew: whatever the cache still holds up to the
fill time, from before the signal too) and a condition. Failures go through the
window of `_recent_partial_failure_rate` into the next thresholds.

Abstractions: `usable` merges the failures that end an evaluation before any book is read
(error, unready, missing, stale, timeout, the opted-in submit, accept and fill failures).
Random draws, latency and calibrated slippage are choices. The caps on what one risk may
add to a threshold are left out: the weights stand for the capped sums. `optIn` is chosen
per look, as settings may change at a restart. The fingerprint check and the stepped
execution of the plan belong to `PaperPortfolio`.

### ArbStrategy

The module adds to `FillEvaluation` the two evaluators of `arb_strategy.py`. Nothing in the
runner calls them, and its tests do; they are modelled for what they say about the same
books. `PairedDepthCandidates` and `LargestQualifying` are `evaluate_binary_arbitrage`: the
candidates, a list of growing quantities in the code, are a set, of which the largest that
qualifies is the last of the list.
`Feasible` and `GroupDecisions` are the linear program of `evaluate_neg_risk_event_group`:
what is bought of each market, how much NO is converted into the YES of the other markets
or merged with YES, how many complete sets are redeemed. Quantities are whole shares, and
the solver is external: it returns one of the best points, and which one is left open. The
checks of flags, tokens and ages of books are one boolean. A behaviour of `StrategySpec` is
one of `FillEvaluation` or one decision on an event, as the two share no state.

## 3. The runs

| run | what it asks |
| --- | --- |
| `paper_stepped` | all safety properties and the refinement, with starts in stepped mode and with zero friction |
| `paper_growing` | liveness: growing steps, one merge cost per execution; with winnerless settlement, a negative-risk market and re-entry allowed |
| `lock_serial` | exclusion, what is removed, and that a start ends, when starts do not overlap |
| `feed` | the cached asks follow the exchange; workers, subscriptions and universe agree, with breaks, re-chunking, and REST answers that are late, short or damaged |
| `scan` | no due market is forgotten, and what a refresh adds is looked at, over every interleaving of the three tasks |
| `scan_live` | a due market is evaluated, and a stop ends the loop |
| `universe` | a full universe misses nothing, coverage becomes full, unmatched shares are settled; with a list that moves under the pages, failures and restarts in both modes |
| `fill` | the tranche loop against all quantities, the evaluators against each other, what an execution rests on and that it pays; the program over an event against all purchases |
| `paper_ceiling`, `lock_overlap`, `lock_pid_reuse`, `feed_moved` | the four disagreements of section 5 |

Bounds. `MaxExecutions` (2, in the liveness run 1) stops new executions once that many are
recorded: two are enough for ids to collide, for a fingerprint to be traded twice, and for an
inventory buy to come between the start and the end of an execution. `StepLimits` has 0
(zero friction), a limit below and one at the number of steps a plan needs, so that a
restart changes which of target and limit ends the execution, and gives a plan another
fingerprint. The plans are 5 pairs in steps of 2 (the rest is below the minimum size), 2
pairs of the same books, as less cash would buy, 4 pairs in 2 steps, and 5 dear pairs that
pay for one merge but not for one in every step (it is started and aborted). So the same
books are traded again in this run, with another quantity and with another step limit, and
only the repeated fingerprint is refused. Cash, ceiling and reserve are such that a second
execution is affordable or not depending on what happened before. The saved files hold a
balanced pair; unmatched shares next to a pair, cheap enough for an execution of the other
market to be started before they are completed; and an execution that is recorded and still
active next to unmatched shares that have taken most of the cash above the reserve. The
lock has three processes on one host and one elsewhere with a pid that is in use here, and
2 for `LOCK_UNLINK_ATTEMPTS` (one retry and the last one).

The feed has two tokens and one token per connection, and the refresh may find the first
token after the second: the second then moves to another connection, the smallest case in
which a token changes workers. One price is enough, as books are sets of listed prices and
a missed change shows as a price too many or too few. Two changes, one break, one REST read
and two refreshes let a refresh fail half way and be followed by another.

The scan loop has two markets with interleaved tokens (1, 3 and 2, 4) and requests of two
books, so that every request splits both pairs and a pair needs two. `MaxEvents` counts
messages, lost connections, books that age and books a request does not bring; two of them
suffice to make a token dirty during the task that would have cleaned it, and to break that
task. `scan` has one refresh; `scan_live` none, as the product with the liveness automaton
is the limit there, and a refresh adds markets to the loop but no other way to wait.

The universe run has three markets, pages of two, a slice of one, one fault and one restart:
m1 and m2 are listed, so that the first page is full and a second one is asked for, m1 has
unmatched shares, and m3 comes later and never has a book. A row can slide over the page
boundary, a refresh can fail and be followed by one that does not, and a cached universe
can be older than the listing. One market may be listed and resolved behind a restart.

The fill run has five kinds of book (deep, dear behind cheap, stepped, dear from the second
share), six pairs of tapes and ten conditions, two amounts of cash of which one makes the
budget bind, and a window of 2 failures. Events have three markets, the least for which
converting differs from merging, with three kinds of books each, and a capital that binds
and one that does not; converted, merged and capital-bound entries all occur. Level
boundaries of the two books coincide in some pairs and cross in others.

Distinct states: `feed` 1.8M, `scan` 1.4M, `universe` 394K, `paper_stepped` 1.3M, `fill` 25K,
`paper_growing` 14K.

Deadlock is checked in every run but the lock's: the portfolio's environment can always
crash or restart, the feed may stop only when `Exhausted` (bounds used up, nothing on the
way), the scan loop only when `stopped`, and a fill evaluation is always followed by a
signal; the universe's Gamma, REST cycles and passes always have a step. The lock's processes end, so it is not checked there.

Fairness. `paper_growing` assumes that a stopped runner is started again, that the market
of the active execution keeps being evaluated (`ResumeExecution`; the scanner evaluates
every standard market of its universe on start-up and at each REST reconciliation), that a
save that is tried again and again succeeds (strong fairness of the successful outcome:
the code neither retries nor gives up, every evaluation tries again), and that a
settlement pass ends (a loop over a finite list). Without the second assumption the
property does not hold: an active execution whose market has left the universe is never
resumed, and all other markets are refused until it is. Nor does it hold while the health
gate stays paused (section 5), as a paused scanner evaluates no market. `lock_serial` assumes that a
process in `acquire` keeps running. `scan_live` assumes weak fairness of the main loop and
of the bootstrap (asyncio runs what can run), strong fairness of a request of the backfill
and of the reconcile (a task moves only while the main coroutine awaits, which it does
again and again, and the retry policy is finite), and of the reconcile timer (time passes
while the loop goes round). Messages are bounded by `MaxEvents`, so `scan_live` does not say
what a feed without a pause does to the reconcile: with tokens dirty when its time has come
(`scan_bot.py:1632`) they go first and the loop starts over. As nothing is awaited between
the batch of a turn and that test, this takes a wait that times out just as a message
comes, in every turn. Nothing is assumed of the exchange: messages may stop, and the
books a request does not bring are bounded by `MaxEvents`, which says that the service
recovers in the end. `universe` assumes that a stopped runner is started again, that a start
and a cycle go on (each request of them is answered or fails, and failures are bounded by
`MaxFaults`), that the loop keeps evaluating (REST reconciliation makes it, without any
message), and that the refresh task is started by its timer and goes on. Two cases are
excepted by name, because the code does not get out of them: `Overlooked`, a market whose
resolution message was missed while the loop's universe shows it as it was when it was
listed, and `Starved`, a universe, or an addition to it, none of whose tokens has a book.

Every property of a passing run has a mutant, a defined variant of one definition the way
a bug would change it, under which TLC finds the property violated.

## 4. The proofs

The theorems hold for all constants that satisfy the assumptions of their modules, which
TLC evaluates on every run: `ConstantsAssumption` (types of plans and settings),
`LockAssumption`, `NoBookAssumption`, `FeedAssumption`, `UniverseAssumption` and
`ScanAssumption` give the constants their types. `ArithmeticAssumption` says that prices lie
between nothing and what a pair pays and that rates, costs and limits are not negative,
`FillAssumption` that floors, weights and moves are not, and that the failure window has a
length; `StrategyAssumption` that an event has at least two markets and that finitely many
events are looked at. `SavedAssumption` and
`SavedSumsAssumption` ask of a portfolio file left by an earlier run what the theorems say
of those it leaves itself: numbered executions, settled tokens without shares, sums in
balance. Every safety and action property that a passing run checks is a theorem.

Each proof goes the same way. An invariant that is stronger than the property holds at the
start, is kept by every action (one step of the proof for each, as each has a lemma of its
own where it is not short) and implies the property; an action property follows from the
invariant and one step.

**Portfolio.** `Inv` is `TypeOK`, `MemoryIsDurable`, `LoggedIsDurable` and, during a
settlement pass, that the working copy is a successor of memory: it is a portfolio, has at
least as much cash, and has every execution memory has. That last part makes the others
inductive, because the pass is saved many steps after it copied the portfolio. Each handler
has a lemma that its working copy is a successor (`FilledBookSucceeds`,
`LegBookSucceeds`, ...); `SavingKeepsInv` says that saving a successor keeps the invariant
whether the save succeeds or not. That cash never falls rests on the profitability check of
every step (`PayingFill`: a fill redeems at least what it bought, and that pays for it).

The second half of the module argues about the file alone, as memory is what the file holds.
`RecordedOnce` is not inductive: an id is fixed when an execution starts and recorded later,
and inventory buys lengthen the list in between. `IdsInv` adds the numbering: a pair's
number rises along the list and does not exceed its position, an inventory buy's number is
its position, and the active execution's number is ahead of every recorded pair. Only a
file that has not been recovered yet may break the last part. `FileInv` does the same for
fingerprints (the one on file is that of the market's last execution; the active execution
has that of its plan under the step limit it was started with, and differs from it) and for settled tokens; `PassInv` says what a settlement pass has done to
its working copy so far, by market. `StepsKeepReserve` is the one theorem with hypotheses
of its own: that a pair costs what it was sized with, and that the saved files can afford
what they have open. A plan is held against the budget with what sizing took a pair to
cost, and its steps pay what a pair does cost, so that the first hypothesis ties the two.
What was affordable stays so because no saved change lowers the cash.

`PaperAccountingProofs` is about sums. `SoundInv` says that the file, and the working copy
of a pass, are in balance and explained. A sum is a fold over the subsets of a finite set;
what it comes to when one summand changes or is added is proved by `SubsetInduction`, which
names the set of subsets the claim holds of, so that well-foundedness can be cited without
an operator as a parameter. Each handler then has a lemma on what it adds to cash, cost
basis and result. `FileIsLedger` is the refinement: every action is one of the ledger's
transactions on what is durable, or leaves it alone.

**Lock.** `LockInv` ties the file to the program counters; exclusion and
`OnlyStaleRemoved` are proved under `Benign`: starts do not overlap, or nothing fails. With
both, `lock_overlap` shows them false.

**Feed.** `FeedInv` says what the manager and its workers have in the middle of an update:
the workers in front of it have their chunk of the new universe, those behind it the old
(`Updating`), and what a worker has still to send makes of its subscription what it is
assigned (`Sending`). `SubscribedIsAssigned` and `OneWorkerPerToken` follow for any number
of workers and any chunk size. `ReadsOwnBook` is a fact about `BookFetch` alone: how the
rows of an answer and the requests for what is missing are put together. The induction over
the rows is `CountingUp`, again with a set in place of a predicate.

`CachedAsksFollow` needs history. `Follows(h)` gives every token the sequence of its ask
sides, one for each version; a message tells one version, a REST answer is one, and a cached
side mixes them: each price is listed as it was at some version between the last one taken
off a wire and the present (`Mixes`). A REST seed makes that mixture necessary, as it is
ahead of the wire, so that the changes still under way are applied to a book that has them
already. `Continues` says that the messages on a wire go on from where the last one
received ended and, if the connection carries the token, lead to the present. When nothing
is under way for a token the mixture has one version, which is the property.

**Scan loop.** `ScanInv` is the types; that event and dirty set agree, that a batch is in
hand only between taking and evaluating it, and that a backfill which has ended has nothing
left (`QueueInv`); and that a refresh reads tokens of new markets only and, once done, is
found at a place where what it seeded is dirty or in the batch (`RefreshInv`).
`NothingForgotten` is then one lemma for each action that moves tokens. That a chunk of a
nonempty pass is not empty (`ChunkNotEmpty`, by the least token) is what makes the backfill
move on.

**Universe.** `WalkInv`: every market a walk has to find is in what it has got or still
listed behind the pages read, and what was fetched has them all. Rows that slide over the
offset are taken from `asof` by `Slid`, so that `FullMissesNothing` needs no bound on the
listing or the page.

**Fill evaluation.** `FillInv` is the types and that the offer which waits was accepted and
would be again (`Accepted`): it is the plan for its books and its cash, and it clears the
thresholds of now, as no failure comes between a signal and its look. What is claimed of
the last look (`LastIsSound`) is set by one step from there.

That the plan is the best one is about the loop. The loop is a recursive function, and what
such a function returns for every input cannot be proved by induction with these provers;
what it does for one pair of books can. `WalkExists` builds the table of the loop's results
backwards from the shorter book, over the quantities taken so far (`CountingUp`, with a set
in place of a predicate, as in the feed), so that the function has its defining equation.
`WalkEnds` is the loop's invariant in the same form: from a quantity whose cost is known,
and up to which every pair pays, it ends at a larger one of that kind, at which one of the
exits holds (`PlanStops`: a book is used up, the next pair costs what it pays, the budget
has no room for one more, or the target is met). A further pair adds what it pays less what
it costs (`ProfitOfOneMore`) and books rise, so that profit grows up to where pairs stop
paying and falls from there (`ProfitTurns`). `PlanIsBest` follows.

A second look computes its plan on the books that the support, the queue and the adverse
move make of those it finds. They are ask books again (`AmongKeeps`, `SupportMakesBook`,
`DearerRises`: each picks something that has to exist, and existence is the lemma), so that
the same loop has the same properties. `ExecutionPays` takes profit and floor from the
check after the cut, and the budget from the plan before the cut; `SlipAdds` is what a
higher slippage adds. `ExecutionIsPublic` follows a positive supported quantity back to the
first share of the book or the tape. For `SameBooksSameFill` the support, the queue and
the move are shown to leave the books as they are and the look to add no risk
(`NothingChanged`), and a plan sized again up to its own quantity is the same plan
(`PlanIsConfirmed`).

**Strategy.** `StrategyIsFill` is the refinement: a decision on an event is a stutter of the
fill evaluation, and what is proved there holds here. For `StrategyNeverBehind` the loops of
the two files (`CandidatesWalk` is the strategy's) are followed together: they take the same
tranches as long as the runner's has not stopped, so that the plan is a candidate
(`PlanIsCandidate`), and it passes the strategy's thresholds, which are the least the
runner's can be (`AcceptedQualifies`). The largest one that qualifies is no smaller, and
earns no more, because the plan was the best.

`GroupIsArbitrage` compares the linear program with purchases that know nothing of it. What
a point redeems and merges is no more than its purchase pays whoever wins
(`CollateralIsCovered`). Take the outcome that pays least; the balance of that market bounds
the redeemed sets by its own YES and what the other markets convert, and what these convert
or merge they have bought. The other way round every purchase worth its price is a point
that converts all its NO (`PurchaseIsPoint`). So a best point claims exactly the worst
outcome, as the same purchase would otherwise be a better point (`BestPointIs`), and a
program without points, or whose best point redeems nothing, leaves no purchase that earns
anything. No more than that: with a floor and a gas cost of zero the
program may skip an event although some purchase breaks even.

Only model-checked: the liveness properties (`DueEvaluated`, `StopsEventually`,
`ActiveEventuallyClosed`, `StartDecides`, `LeftoverSettled`, `CoverageBecomesFull`), as the
provers reason neither about fairness nor about ENABLED. And that the solver's optimum is
over whole shares is an assumption of the model, not a result: the code solves in real
numbers.

## 5. Where code and documents disagree

* `paper_ceiling`: the README's "per-execution maximum capital spend" is exceeded, because
  the plan is sized with one merge cost and every step pays one.
* `lock_overlap`: two runners that find the same stale lock can both end up owning the
  portfolio, because the token is confirmed and the path unlinked in two steps.
* `lock_pid_reuse`: a process that has its dead predecessor's pid (a restarted container)
  takes the lock for its own living one and is refused each time.
* `feed_moved`: README:87 says that losing a connection clears the readiness of its books.
  `run` marks the tokens the worker has when it notices. If a refresh has replaced them by
  then, and its send on the broken socket raises, a token that should move to another
  worker stays ready in the cache with no connection behind it.

Also seen while modelling, without a run:

* The health gate (`scan_bot.py:650`) compares counters that never fall with limits named
  per minute (README:160, `COND_ARB_HEALTH_MAX_WS_RECONNECTS_PER_MINUTE`);
  `HEALTH_WINDOW_SECONDS` (line 50) is not used. A long run passes the limits and then
  stays paused. It is one comparison and needs no model.
* A paused evaluation skips its markets and forgets that they were dirty; they come back
  with their next message or with the next REST reconciliation.
* The heartbeat of the runtime file is a thread of its own (`runtime_status.py:311`): it
  stays fresh while the main loop hangs.
* The dirty-backlog gate sees the backlog after the batch was taken, which is mostly empty.
* With `allow_deterministic_fill_fallback` off and both books supported in public, but no
  tape rows at the planned prices, the deterministic partial-fill draw is still applied
  (`paper.py:843`), where README:69 calls the deterministic fallback opt-in.
* A level at a planned price that only grew counts as public evidence with a quantity of
  zero (`paper.py:2372`), so the look ends as a zero fill, and as a partial failure.
* The unchanged-book guard compares all that is hashed. After a restart with another
  `max_step_count`, from stepped to zero friction, or once cash or ceiling allow another
  quantity of a plan they had cut, the same untouched books have another fingerprint
  (`paper.py:184`, `paper.py:734`) and are traded again. The tests
  (`test_capped_deep_book_fingerprint_prevents_duplicate_execution`) keep the settings.
* The recent partial-failure rate is a share of the failures, not of the attempts, and a
  success does not lower it: after partial pairs alone the thresholds stay raised.
* The supported quantity of a leg must be positive, but does not limit what is filled.
* A pair of which one token has no order book is backfilled again without a pause for as
  long as its other token is brought.
* A REST answer that was overtaken by a delta overwrites the newer book (`AskAgrees` is
  stated outside that case). Closed markets never leave the universe.
* README:69 says that a signal is "rechecked at the simulated fill timestamp". The fill
  time is computed, not waited for: the books are read again at once, and the recent
  evidence is asked for up to the fill time but from no first moment (`scan_bot.py:2169`),
  so that changes from before the signal count as support. A trade and the shrinking level
  it causes both count towards the quantity at the queue (`paper.py:2377`).
* README:71 has unmatched inventory settled when its market resolves. In websocket mode the
  universe shows a market as it was listed, so that a missed `market_resolved` leaves it
  unsettled until a restart finds it gone from the list (`Overlooked`).
* Universes only grow and are written to the cache as "full": closed markets stay in the
  file while each refresh renews it (README:77, README:101). A universe cut off by
  `market_limit` is labelled full as well.
* Gamma is read by offset: a row that is removed during the walk hides another one
  (`Slid`). The next refresh finds it.
* An addition none of whose tokens has a book makes every refresh fail, and with it the
  markets that come after (`Starved`).
* `evaluate_binary_arbitrage` looks at the ends of tranches only, so that an opportunity
  whose best quantity lies inside a tranche is judged by its end. The group passed to
  `evaluate_neg_risk_event_group` is taken for the whole event; nothing checks that it is.
* Failures are kept in memory and reach the file with the next save of something else
  (`paper.py:3002`): a crash forgets them, and with them the raised thresholds.

## 6. Plan

Done: the portfolio with its ledger; the lock; the feed with the fetching of books; the
scan loop; the universe with its cache; the fill evaluation with the strategy. The safety
and action properties of all of them are proved.

Next, if the code grows there: the status file, if its heartbeat thread, the replaced file
and the stop are worth a module (the property would be that a stopped runner's last status
says so); the event of the strategy in real numbers, for which the proofs of
`GroupIsArbitrage` would need a purchase that is best to exist.

## 7. Not modelled

* Latency probe, configuration parsing, dashboard, DNS, headers and backoff of one HTTP
  request: I/O and formatting without state that another part changes. What the
  configuration sets are the CONSTANTS.
* The execution health gates: comparisons of a few counters (section 5 says what the
  counters do).
* Runtime status: updates are serialised by one lock, every write replaces the whole file,
  and only the dashboard reads it; a failed write is tried again and then dropped. The
  copy in memory is what the health gates read their counters from.
* Bids, sizes of levels and the recent evidence in the cache; order acceptance and all else
  that is drawn at random, which are choices of the models.
* Event kinds other than executions, stop reasons and the status report of the portfolio.
