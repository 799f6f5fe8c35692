------------------------------ MODULE ScanLoop ------------------------------
(***************************************************************************)
(* The websocket mode of scan_bot.py: _run_market_ws_forever with the dirty- *)
(* token accumulator and the tasks it starts, for the targeted backfill, the *)
(* periodic reconcile and the refresh of the market universe.                *)
(*                                                                          *)
(* Everything runs on one asyncio loop: between two awaits the main          *)
(* coroutine is not interrupted.  It awaits where pc is in Awaits; the other *)
(* values of pc are places it passes in one go, while no task moves.         *)
(***************************************************************************)
EXTENDS Naturals, FiniteSets

CONSTANTS
    Markets,        \* the standard binary markets there are
    Pair,           \* the YES and NO token of each market
    Universes,      \* the sets of markets Gamma may return
    Coverage,       \* whether the startup universe is complete: values of coverage_complete
    ChunkSize,      \* batch_book_limit
    MaxEvents,      \* bound: messages, broken connections, books that age, books not brought
    MaxRefreshes    \* bound: market refreshes

Tokens == UNION {Pair[m] : m \in Markets}
TokensOf(M) == UNION {Pair[m] : m \in M}
MarketsOf(T) == {m \in Markets : Pair[m] \cap T # {}}

ASSUME ScanAssumption ==
    /\ IsFiniteSet(Markets) /\ Tokens \subseteq Nat
    /\ \A m \in Markets : Cardinality(Pair[m]) = 2
    /\ \A m, n \in Markets : m # n => Pair[m] \cap Pair[n] = {}
    /\ {} \notin Universes /\ Universes \subseteq SUBSET Markets
    /\ Coverage \subseteq BOOLEAN /\ ChunkSize \in Nat \ {0}
    /\ {MaxEvents, MaxRefreshes} \subseteq Nat

VARIABLES
    complete,    \* startup_selection.coverage_complete: if not, a refresh follows at once
    online,      \* the executor has evaluated a market, or has nothing to
    pc,          \* where _run_market_ws_forever is
    running,     \* not yet asked to stop
    universe,    \* the main loop's universe
    subscribed,  \* the markets whose tokens a connection may carry
    fresh,       \* tokens _cached_ask_book_is_ready holds for
    dirty,       \* _DirtyTokenAccumulator._tokens
    event,       \* _DirtyTokenAccumulator._event
    batch,       \* the dirty batch in hand, {} for None
    targeted,    \* targeted_backfill_tokens
    boot, backfill, reconcile, refresh,  \* the seeding passes
    target,      \* the universe the refresh is bringing in
    events,      \* messages, broken connections, aged books and short answers so far
    refreshes,   \* refreshes so far
    due          \* history: markets to evaluate that have not been since

control == <<pc, running, batch, online, complete>>
accumulator == <<dirty, event>>
tasks == <<boot, backfill, reconcile, refresh, targeted, target>>
bounds == <<events, refreshes>>
vars == <<control, universe, subscribed, fresh, accumulator, tasks, bounds, due>>

Awaits == {"bootstrap", "waiting", "debounce"}
Places == Awaits \cup {"top", "collect", "evaluate", "refresh", "reconcile", "reevaluate",
                         "stopped"}
Phases == {"none", "running", "fetching", "subscribing", "done", "failed"}

\* A pass of _seed_rest_books_incrementally_async: what is left, what was seeded.
Pass(phase, todo) == [phase |-> phase, todo |-> todo, seeded |-> {}]
NoPass == Pass("none", {})

Chunk(todo) == {t \in todo : Cardinality({u \in todo : u =< t}) =< ChunkSize}

Busy(p) == p.phase \in {"running", "fetching", "subscribing"}

AnEvent == events < MaxEvents /\ events' = events + 1

\* What a request for the books of a chunk brings: all of them, or all but one, or none.
Brings(p, got) ==
    \/ got = Chunk(p.todo) /\ UNCHANGED events
    \/ got = {} /\ AnEvent
    \/ (\E t \in Chunk(p.todo) : got = Chunk(p.todo) \ {t}) /\ AnEvent

TypeOK ==
    /\ pc \in Places /\ {running, online, complete, event} \subseteq BOOLEAN
    /\ universe \subseteq Markets /\ subscribed \subseteq Markets /\ target \subseteq Markets
    /\ fresh \cup dirty \cup batch \cup targeted \subseteq Tokens
    /\ \A p \in {boot, backfill, reconcile, refresh} :
           p.phase \in Phases /\ p.todo \cup p.seeded \subseteq Tokens
    /\ dirty # {} <=> event
    /\ universe \subseteq subscribed
    /\ due \subseteq Markets

\* The universe is selected and manager.start has returned.
Init ==
    /\ pc = "bootstrap" /\ running = TRUE /\ batch = {} /\ online = FALSE
    /\ complete \in Coverage
    /\ universe \in Universes /\ subscribed = universe
    /\ fresh = {} /\ dirty = {} /\ event = FALSE
    /\ boot = Pass("running", TokensOf(universe))
    /\ backfill = NoPass /\ reconcile = NoPass /\ refresh = NoPass
    /\ targeted = {} /\ target = {}
    /\ events = 0 /\ refreshes = 0 /\ due = {}

-----------------------------------------------------------------------------
(* The accumulator.  begin_, finish_ and fail_full_reconcile and             *)
(* mark_full_universe have no caller, so a batch is always a set of tokens.  *)

Mark(T) ==
    /\ dirty' = dirty \cup T
    /\ event' = (event \/ T # {})

\* Mutant of the next: the event stays set.
TakeUncleared ==
    /\ batch' = dirty /\ dirty' = {} /\ event' = event

TakeNowait ==
    /\ batch' = dirty /\ dirty' = {} /\ event' = FALSE

-----------------------------------------------------------------------------
(* Callbacks of the websocket workers, and time *)

\* A message: it may be a book or a change that leaves the asks current, or not.
WsMessage(t) ==
    /\ pc \in Awaits /\ t \in TokensOf(subscribed) /\ AnEvent
    /\ fresh' \in {fresh, fresh \cup {t}}
    /\ Mark({t})
    /\ due' = due \cup MarketsOf({t})
    /\ UNCHANGED <<refreshes, control, universe, subscribed, tasks>>

\* _mark_disconnected_stale: one connection carries all tokens, as long as they fit.
Disconnected ==
    /\ pc \in Awaits /\ AnEvent
    /\ fresh' = fresh \ TokensOf(subscribed)
    /\ Mark(TokensOf(subscribed))
    /\ due' = due \cup subscribed
    /\ UNCHANGED <<refreshes, control, universe, subscribed, tasks>>

\* A book becomes older than ws_stale_seconds; nobody is told.
BookAges(t) ==
    /\ pc \in Awaits /\ t \in fresh /\ AnEvent
    /\ fresh' = fresh \ {t}
    /\ UNCHANGED <<refreshes, control, universe, subscribed, accumulator, tasks, due>>

\* SIGINT or SIGTERM.
StopRequested ==
    /\ pc \in Awaits /\ running
    /\ running' = FALSE
    /\ UNCHANGED <<pc, batch, online, complete, universe, subscribed, fresh, accumulator, tasks,
                   bounds, due>>

-----------------------------------------------------------------------------
(* Evaluation, and the seeding passes *)

\* _split_ready_and_backfill_dirty_tokens: over the loop's own universe, with the
\* books F current.
Hit(T) == MarketsOf(T) \cap universe
Ready(T, F) == {m \in Hit(T) : Pair[m] \subseteq F}

\* Mutant of the next: a task that has ended but was not collected yet counts as running.
ScheduleUnlessTask(T) ==
    /\ targeted' = targeted \cup T
    /\ backfill' = IF T # {} /\ backfill = NoPass THEN Pass("running", {}) ELSE backfill

\* _schedule_targeted_backfill: one task at a time, which takes all there is.
Schedule(T) ==
    /\ targeted' = targeted \cup T
    /\ backfill' = IF T # {} /\ ~ Busy(backfill) THEN Pass("running", {}) ELSE backfill

\* Some of a chunk's books arrive, none if its retries are used up.  A pass that
\* seeds nothing at all fails.
AfterChunk(p, got) ==
    LET left == p.todo \ Chunk(p.todo)
        seeded == p.seeded \cup got
    IN  [phase |-> IF left # {} THEN "running" ELSE IF seeded = {} THEN "failed" ELSE "done",
         todo |-> left, seeded |-> seeded]
Bare(p) == IF p.phase = "done" THEN Pass("done", {}) ELSE p  \* its result is not used

\* _start_refresh_task: one at a time.
StartRefresh ==
    /\ ~ Busy(refresh) /\ refreshes < MaxRefreshes
    /\ refresh' = Pass("fetching", {}) /\ refreshes' = refreshes + 1

Stopped == \* finally: the tasks are cancelled and the manager is stopped
    /\ pc' = "stopped"
    /\ boot' = NoPass /\ backfill' = NoPass /\ reconcile' = NoPass /\ refresh' = NoPass
    /\ UNCHANGED <<running, batch, online, complete, universe, subscribed, fresh, accumulator,
                   targeted, target, bounds, due>>

-----------------------------------------------------------------------------
(* The bootstrap: each chunk is evaluated by the main coroutine as it comes *)

BootChunk(got) ==
    LET after == AfterChunk(boot, got)
        current == fresh \cup got
        ready == Ready(got, current)
        all == after.phase = "done" /\ ~ online /\ ready = {}
    IN  /\ pc = "bootstrap" /\ running /\ Brings(boot, got)
        /\ after.phase # "failed"
        /\ fresh' = current /\ boot' = Bare(after)
        /\ due' = (due \cup MarketsOf(got)) \ (IF all THEN Ready(Tokens, current) ELSE ready)
        /\ Schedule(TokensOf(Hit(got) \ ready))
        /\ online' = (online \/ ready # {} \/ all)
        /\ IF ~ complete /\ refreshes = 0 /\ (online' \/ after.phase = "done")
           THEN StartRefresh ELSE UNCHANGED <<refresh, refreshes>>
        /\ pc' = IF after.phase = "done" THEN "top" ELSE pc
        /\ UNCHANGED <<running, batch, complete, universe, subscribed, accumulator, reconcile,
                       target>>

\* Nothing could be seeded, or the scanner was stopped.
BootFails ==
    /\ pc = "bootstrap"
    /\ ~ running \/ (AfterChunk(boot, {}).phase = "failed" /\ events < MaxEvents)
    /\ Stopped

-----------------------------------------------------------------------------
(* The tasks *)

BackfillStarts ==
    /\ pc \in Awaits /\ running /\ backfill = Pass("running", {})
    /\ backfill' = Pass(IF targeted = {} THEN "done" ELSE "running", targeted)
    /\ targeted' = {}
    /\ UNCHANGED <<control, universe, subscribed, fresh, accumulator, boot, reconcile, refresh,
                   target, bounds, due>>

\* What was added to the targets meanwhile is taken by the same task; not if it fails.
BackfillChunk(got) ==
    LET after == AfterChunk(backfill, got) IN
    /\ pc \in Awaits /\ running /\ backfill.phase = "running" /\ backfill.todo # {}
    /\ Brings(backfill, got)
    /\ fresh' = fresh \cup got
    /\ Mark(got)
    /\ due' = due \cup MarketsOf(got)
    /\ IF after.phase = "done" /\ targeted # {}
       THEN backfill' = Pass("running", targeted) /\ targeted' = {}
       ELSE backfill' = Bare(after) /\ UNCHANGED targeted
    /\ UNCHANGED <<control, universe, subscribed, boot, reconcile, refresh, target, refreshes>>

\* Mutant of the next: marks nothing.
ReconcileSilently(got) ==
    /\ pc \in Awaits /\ running /\ reconcile.phase = "running"
    /\ Brings(reconcile, got)
    /\ reconcile' = Bare(AfterChunk(reconcile, got))
    /\ fresh' = fresh \cup got
    /\ due' = due \cup MarketsOf(got)
    /\ UNCHANGED <<control, universe, subscribed, accumulator, boot, backfill, refresh, targeted,
                   target, refreshes>>

\* _seed_rest_reconcile_and_schedule_next
ReconcileChunk(got) ==
    /\ pc \in Awaits /\ running /\ reconcile.phase = "running"
    /\ Brings(reconcile, got)
    /\ reconcile' = Bare(AfterChunk(reconcile, got))
    /\ fresh' = fresh \cup got
    /\ Mark(got)
    /\ due' = due \cup MarketsOf(got)
    /\ UNCHANGED <<control, universe, subscribed, boot, backfill, refresh, targeted, target,
                   refreshes>>

\* _refresh_market_universe.  Merging keeps every market there was.
RefreshFetched(found) ==
    LET added == TokensOf(found \ universe) IN
    /\ pc \in Awaits /\ running /\ refresh.phase = "fetching"
    /\ target' = universe \cup found
    /\ refresh' = IF added = {} THEN Pass("subscribing", {}) ELSE Pass("running", added)
    /\ subscribed' = IF added = {} THEN subscribed \cup target' ELSE subscribed
    /\ UNCHANGED <<control, universe, fresh, accumulator, boot, backfill, reconcile, targeted,
                   bounds, due>>

RefreshChunk(got) ==
    LET after == AfterChunk(refresh, got) IN
    /\ pc \in Awaits /\ running /\ refresh.phase = "running"
    /\ Brings(refresh, got)
    /\ refresh' = IF after.phase = "done" THEN [after EXCEPT !.phase = "subscribing"] ELSE after
    /\ subscribed' = IF after.phase = "done" THEN subscribed \cup target ELSE subscribed
    /\ fresh' = fresh \cup got
    /\ due' = due \cup MarketsOf(got)
    /\ UNCHANGED <<control, universe, accumulator, boot, backfill, reconcile, targeted, target,
                   refreshes>>

\* manager.update_tokens has returned: what was seeded becomes dirty at the very end.
RefreshDone ==
    /\ pc \in Awaits /\ running /\ refresh.phase = "subscribing"
    /\ refresh' = [refresh EXCEPT !.phase = "done"]
    /\ Mark(refresh.seeded)
    /\ UNCHANGED <<control, universe, subscribed, fresh, boot, backfill, reconcile, targeted,
                   target, bounds, due>>

\* Gamma does not answer, or a subscription cannot be sent.
RefreshFails ==
    /\ pc \in Awaits /\ running /\ refresh.phase \in {"fetching", "subscribing"}
    /\ refresh' = [refresh EXCEPT !.phase = "failed"]
    /\ UNCHANGED <<control, universe, subscribed, fresh, accumulator, boot, backfill, reconcile,
                   targeted, target, bounds, due>>

-----------------------------------------------------------------------------
(* The main loop *)

Collected(p) == IF p.phase \in {"done", "failed"} THEN NoPass ELSE p

CollectBackfill == backfill' = Collected(backfill)

CollectRefresh ==
    /\ refresh' = Collected(refresh)
    /\ universe' = IF refresh.phase = "done" THEN target ELSE universe

\* The top of the loop, up to the first await of dirty_updates.wait.
LoopTop ==
    /\ pc = "top" /\ running
    /\ CollectBackfill /\ CollectRefresh
    /\ reconcile' = Collected(reconcile)
    /\ pc' = IF dirty # {} THEN "debounce" ELSE "waiting"
    /\ UNCHANGED <<running, batch, online, complete, subscribed, fresh, accumulator, boot,
                   targeted, target, bounds, due>>

LoopEnds == pc = "top" /\ ~ running /\ Stopped

WakesUp ==
    /\ pc = "waiting" /\ event
    /\ pc' = "debounce"
    /\ UNCHANGED <<running, batch, online, complete, universe, subscribed, fresh, accumulator,
                   tasks, bounds, due>>

\* Mutant of the next: waits without a timeout.
NeverTimesOut ==
    /\ pc = "waiting" /\ event
    /\ pc' = "collect" /\ batch' = {}
    /\ UNCHANGED <<running, online, complete, universe, subscribed, fresh, accumulator, tasks,
                   bounds, due>>

\* At the latest after a second.
TimesOut ==
    /\ pc = "waiting"
    /\ pc' = "collect" /\ batch' = {}
    /\ UNCHANGED <<running, online, complete, universe, subscribed, fresh, accumulator, tasks,
                   bounds, due>>

TakeBatch ==
    /\ pc = "debounce"
    /\ pc' = "collect"
    /\ TakeNowait
    /\ UNCHANGED <<running, online, complete, universe, subscribed, fresh, tasks, bounds, due>>

\* Mutant of the next: the refreshed universe is taken up at the top of the loop only.
CollectBackfillAgain ==
    /\ pc = "collect"
    /\ pc' = "evaluate"
    /\ CollectBackfill
    /\ UNCHANGED <<running, batch, online, complete, universe, subscribed, fresh, accumulator,
                   boot, reconcile, refresh, targeted, target, bounds, due>>

CollectAgain ==
    /\ pc = "collect"
    /\ pc' = "evaluate"
    /\ CollectBackfill /\ CollectRefresh
    /\ UNCHANGED <<running, batch, online, complete, subscribed, fresh, accumulator, boot,
                   reconcile, targeted, target, bounds, due>>

\* _evaluate_dirty_batch
Evaluate ==
    LET ready == Ready(batch, fresh) IN
    /\ pc \in {"evaluate", "reevaluate"}
    /\ running \/ ready = {}
    /\ due' = due \ ready
    /\ Schedule(TokensOf(Hit(batch) \ ready))
    /\ batch' = {}
    /\ pc' = IF pc = "evaluate" THEN "refresh" ELSE "top"
    /\ UNCHANGED <<running, online, complete, universe, subscribed, fresh, accumulator, boot,
                   reconcile, refresh, target, bounds>>

\* _ensure_running raises before the first market.
EvaluateStops ==
    /\ pc \in {"evaluate", "reevaluate"} /\ ~ running
    /\ Ready(batch, fresh) # {}
    /\ Stopped

NoRefreshYet ==
    /\ pc = "refresh"
    /\ pc' = "reconcile"
    /\ UNCHANGED <<running, batch, online, complete, universe, subscribed, fresh, accumulator,
                   tasks, bounds, due>>

\* next_refresh has passed.
RefreshTimer ==
    /\ pc = "refresh" /\ StartRefresh
    /\ pc' = "reconcile"
    /\ UNCHANGED <<running, batch, online, complete, universe, subscribed, fresh, accumulator,
                   boot, backfill, reconcile, targeted, target, events, due>>

NoReconcileYet ==
    /\ pc = "reconcile"
    /\ pc' = "top"
    /\ UNCHANGED <<running, batch, online, complete, universe, subscribed, fresh, accumulator,
                   tasks, bounds, due>>

\* next_reconcile has passed: what is dirty goes first, else the task starts.
ReconcileTimer ==
    /\ pc = "reconcile" /\ reconcile = NoPass
    /\ IF dirty # {}
       THEN TakeNowait /\ pc' = "reevaluate" /\ UNCHANGED reconcile
       ELSE /\ reconcile' = Pass("running", TokensOf(universe)) /\ pc' = "top"
            /\ UNCHANGED <<accumulator, batch>>
    /\ UNCHANGED <<running, online, complete, universe, subscribed, fresh, boot, backfill,
                   refresh, targeted, target, bounds, due>>

-----------------------------------------------------------------------------
MainLoop ==
    \/ LoopTop \/ LoopEnds \/ WakesUp \/ TimesOut \/ TakeBatch \/ CollectAgain
    \/ Evaluate \/ EvaluateStops \/ NoRefreshYet \/ RefreshTimer
    \/ NoReconcileYet \/ ReconcileTimer

AnyChunk ==
    \E got \in SUBSET Tokens :
        BootChunk(got) \/ BackfillChunk(got) \/ ReconcileChunk(got) \/ RefreshChunk(got)

Next ==
    \/ \E t \in Tokens : WsMessage(t) \/ BookAges(t)
    \/ Disconnected \/ StopRequested
    \/ AnyChunk \/ BootFails \/ BackfillStarts
    \/ \E found \in Universes : RefreshFetched(found)
    \/ RefreshDone \/ RefreshFails
    \/ MainLoop
    \/ pc = "stopped" /\ UNCHANGED vars

\* The asyncio loop runs what can run; a task moves only where the main coroutine awaits,
\* which it does again and again.  A finite retry policy ends every request, and the timer
\* of the reconcile comes round.
Fairness ==
    /\ WF_vars(MainLoop) /\ WF_vars(BootFails)
    /\ WF_vars(\E got \in SUBSET Tokens : BootChunk(got))
    /\ SF_vars(BackfillStarts \/ \E got \in SUBSET Tokens : BackfillChunk(got))
    /\ SF_vars(\E got \in SUBSET Tokens : ReconcileChunk(got))
    /\ SF_vars(ReconcileTimer)

Spec == Init /\ [][Next]_vars /\ Fairness

-----------------------------------------------------------------------------
(* Properties *)

\* Where a market that is due is kept until it is evaluated.
Covered(m) ==
    Pair[m] \cap (dirty \cup batch \cup backfill.todo
                   \cup IF Busy(backfill) THEN targeted ELSE {}) # {}

\* Only the books just asked for stood for the market.
OnlyInChunk(m) ==
    Pair[m] \cap (dirty \cup batch \cup targeted \cup (backfill.todo \ Chunk(backfill.todo))) = {}

\* A market that is due, and will be looked at again, stays so in every step: it is
\* in the accumulator, the batch in hand or the backfill, until it is evaluated.  It
\* is let go only when the backfill comes back without its books or fails, or when
\* the scanner stops.
\* Code: mark and take_nowait around the awaits of wait, _schedule_targeted_backfill and the
\* two places that collect an ended backfill task.
NothingForgotten ==
    [][\A m \in universe :
           m \in due' /\ (Covered(m) \/ m \notin due)
           => \/ Covered(m)'
              \/ OnlyInChunk(m) /\ backfill' # backfill
              \/ backfill'.phase = "failed"
              \/ pc' = "stopped"]_vars

\* When the loop takes up a refreshed universe, every added market that was seeded is
\* dirty or in the batch in hand: marked any earlier, it would be evaluated against
\* the old universe, that is, dropped.
\* Code: the order of seeding, update_tokens and mark in _refresh_market_universe, and the
\* two calls of _finish_refresh_task_if_ready.
AddedMarketsDirty ==
    [][\A m \in universe' \ universe :
           Pair[m] \cap refresh.seeded # {} => Pair[m] \cap (dirty' \cup batch') # {}]_vars

\* A market of the universe whose book changed is evaluated in the end, whatever
\* was lost on the way: the reconcile marks what the backfill could not.
\* Code: the main loop with its three tasks.
DueEvaluated ==
    \A m \in Markets :
        m \in due /\ m \in universe ~> m \notin due \/ ~ running \/ pc = "stopped"

\* Asked to stop, the scanner leaves its loop, though nothing may happen any more.
\* Code: the timeout of dirty_updates.wait, and _ensure_running.
StopsEventually == ~ running ~> pc = "stopped"
=============================================================================
