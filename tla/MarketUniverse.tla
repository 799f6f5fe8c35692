--------------------------- MODULE MarketUniverse ---------------------------
(***************************************************************************)
(* Which markets the runner knows about.  Gamma serves the active events in *)
(* pages while the list keeps changing; what was fetched becomes the        *)
(* universe of a REST cycle, or is merged by a background refresh into the  *)
(* universe of the websocket loop, and is written to a cache file that the  *)
(* next start may use instead of a fetch.  The settlement of unmatched      *)
(* shares looks its markets up in that universe first.                      *)
(*                                                                         *)
(* An event has one market, a market is closed and resolved in one step,    *)
(* and market_limit is unset.                                              *)
(***************************************************************************)
EXTENDS Naturals, Sequences, FiniteSets, SequencesExt

CONSTANTS
    Markets,        \* markets Gamma may list
    Bookless,       \* markets for which the CLOB never has a book
    Leftovers,      \* markets with unmatched shares when the model starts
    FirstListing,   \* the active events when the model starts
    PageSize,       \* rows of a page of Gamma's /events
    SliceLimit,     \* fast_start_event_limit
    MaxFaults,      \* bound: failed requests, writes and sends
    MaxRestarts,    \* bound: times the process ends and is started again
    NoFile          \* model value: no universe cache file

ASSUME UniverseAssumption ==
    /\ Bookless \subseteq Markets /\ Leftovers \subseteq Markets
    /\ FirstListing \in Seq(Markets) /\ IsInjective(FirstListing)
    /\ {PageSize, SliceLimit} \subseteq Nat \ {0}
    /\ {MaxFaults, MaxRestarts} \subseteq Nat

VARIABLES
    listing,    \* Gamma's active events, in the order of the pages
    resolved,   \* markets that were closed and resolved
    heard,      \* markets whose market_resolved message is in the process's cache
    leftover,   \* markets with unmatched shares in the portfolio
    file,       \* the universe cache file, always labelled full_active_events
    mode,       \* market_ws_enabled of the running process: "rest" or "ws"
    pc,         \* where the foreground is: see PCs
    first,      \* no REST cycle has succeeded yet
    refresh,    \* where the refresh task of the websocket loop is
    fetch,      \* the fetch in progress, or the one just completed
    universe,   \* the markets the process works with
    full,       \* whether it takes them for the full listing (coverage_complete)
    asof,       \* history: what the fetch behind them had to find
    faults, restarts

vars == <<listing, resolved, heard, leftover, file, mode, pc, first, refresh, fetch,
          universe, full, asof, faults, restarts>>

gamma == <<listing, resolved>>
bounds == <<faults, restarts>>

PCs == {"down", "start", "fetch", "store", "seed", "loop"}
Refreshes == {"none", "fetch", "seed", "store", "done"}

\* asof: the markets listed when the fetch began, less those that slid over a page
\* boundary while it ran.
Fetches == [offset : Nat, got : SUBSET Markets, asof : SUBSET Markets]
NoFetch == [offset |-> 0, got |-> {}, asof |-> {}]
NewFetch == [NoFetch EXCEPT !.asof = Range(listing)]

Files == [markets : SUBSET Markets, asof : SUBSET Markets, fresh : BOOLEAN]

Fault == faults < MaxFaults /\ faults' = faults + 1
NoFault == faults' = faults

-----------------------------------------------------------------------------
(* Gamma *)

Init ==
    /\ listing = FirstListing /\ resolved = {}
    /\ leftover = Leftovers /\ heard = {}
    /\ file = NoFile
    /\ mode = "rest" /\ pc = "down" /\ first = FALSE
    /\ refresh = "none" /\ fetch = NoFetch
    /\ universe = {} /\ full = FALSE /\ asof = {}
    /\ faults = 0 /\ restarts = 0

Others == UNCHANGED <<leftover, file, mode, pc, first, refresh, universe, full, asof, bounds>>

ListMarket(m) ==
    /\ m \notin Range(listing) \cup resolved
    /\ listing' \in {<<m>> \o listing, Append(listing, m)}
    /\ UNCHANGED <<resolved, heard, fetch>>
    /\ Others

\* The pages behind a removed row move up: the first row of the next page slides into
\* a page that was read already.
Slid(i) == IF i <= fetch.offset /\ fetch.offset < Len(listing)
           THEN {listing[fetch.offset + 1]} ELSE {}

\* The workers are started before the books are seeded.
Subscribed(m) == mode = "ws" /\ pc \in {"seed", "loop"} /\ m \in universe

\* A subscribed process is told, unless the message is lost with its connection.
ResolveMarket(i) ==
    /\ resolved' = resolved \cup {listing[i]}
    /\ listing' = RemoveAt(listing, i)
    /\ heard' \in {heard} \cup
           IF Subscribed(listing[i]) THEN {heard \cup {listing[i]}} ELSE {}
    /\ fetch' = [fetch EXCEPT !.asof = @ \ Slid(i)]
    /\ Others

-----------------------------------------------------------------------------
(* Reading the pages: fetch_active_events.  A failure gives up what was read; *)
(* the caller begins again.                                                   *)

\* Mutant: a full page is taken for the last one.
LastPageWhenFull(rows) == Len(rows) <= PageSize

LastPage(rows) == Len(rows) < PageSize

Page == LET end == fetch.offset + PageSize
        IN  SubSeq(listing, fetch.offset + 1, IF end < Len(listing) THEN end ELSE Len(listing))

\* The walk itself; last says whether it is over.
ReadPage(last) ==
    /\ last = LastPage(Page)
    /\ fetch' = [fetch EXCEPT !.got = @ \cup Range(Page),
                              !.offset = IF last THEN 0 ELSE @ + PageSize]

-----------------------------------------------------------------------------
(* Start-up and the REST cycles *)

World == UNCHANGED <<gamma, restarts>>

Boot ==
    /\ pc = "down"
    /\ mode' \in {"rest", "ws"}
    /\ pc' = "start" /\ first' = TRUE
    /\ UNCHANGED <<heard, leftover, file, refresh, fetch, universe, full, asof, faults>>
    /\ World

Use(markets, history) ==
    universe' = markets /\ full' = TRUE /\ asof' = history

\* _load_cached_market_universe: a file that is missing, too old or unreadable is no file.
CacheUsable == file # NoFile /\ file.fresh

LoadCache ==
    /\ pc = "start" /\ first /\ CacheUsable
    /\ Use(file.markets, file.asof)
    /\ pc' = "seed"
    /\ UNCHANGED <<heard, leftover, file, mode, first, refresh, fetch, faults>>
    /\ World

\* Later REST cycles begin here too: they do not look at the cache.
StartFull ==
    /\ pc = "start" /\ mode = "rest" /\ (first => ~CacheUsable)
    /\ fetch' = NewFetch
    /\ pc' = "fetch"
    /\ UNCHANGED <<heard, leftover, file, mode, first, refresh, universe, full, asof, faults>>
    /\ World

Slices == {S \in SUBSET Range(listing) :
               Cardinality(S) = IF Len(listing) < SliceLimit THEN Len(listing) ELSE SliceLimit}

\* One request for the events with the largest volume; which those are is left open.
StartSlice ==
    /\ pc = "start" /\ mode = "ws" /\ ~CacheUsable
    /\ universe' \in Slices /\ full' = FALSE
    /\ pc' = "seed"
    /\ UNCHANGED <<heard, leftover, file, mode, first, refresh, fetch, asof, faults>>
    /\ World

FetchPage(last) ==
    /\ pc = "fetch"
    /\ ReadPage(last)
    /\ IF ~last THEN UNCHANGED <<pc, universe, full, asof>>
       ELSE IF first THEN pc' = "store" /\ UNCHANGED <<universe, full, asof>>
       ELSE pc' = "seed" /\ Use(fetch'.got, fetch.asof)
    /\ UNCHANGED <<heard, leftover, file, mode, first, refresh, faults>>
    /\ World

Cached(markets) == [markets |-> markets, asof |-> fetch.asof, fresh |-> TRUE]

\* The first cycle insists on its cache file.
Store ==
    /\ pc = "store"
    /\ file' = Cached(fetch.got)
    /\ Use(fetch.got, fetch.asof)
    /\ pc' = "seed"
    /\ UNCHANGED <<heard, leftover, mode, first, refresh, fetch, faults>>
    /\ World

\* The universe of a REST cycle is its own.
CycleEnds ==
    /\ pc' = "start"
    /\ universe' = {} /\ full' = FALSE /\ asof' = {} /\ fetch' = NoFetch
    /\ UNCHANGED <<heard, file, mode, refresh>>
    /\ World

\* A failed request or write ends the cycle, retried or not; the next one begins where
\* this one began.
CycleFails ==
    /\ pc \in {"fetch", "store", "seed"} /\ mode = "rest"
    /\ Fault
    /\ CycleEnds
    /\ UNCHANGED <<leftover, first>>

-----------------------------------------------------------------------------
(* Seeding books and evaluating, which ends in a settlement pass *)

\* _seed_rest_books_incrementally raises when none of the tokens has a book.
Starved(markets) == markets # {} /\ markets \subseteq Bookless

\* Mutant: only the universe is looked at, no market is asked for by its id.
ShownToUniverseOnly(m, answered) == m \in universe /\ m \in heard

\* _reconcile_paper_settlements: a market of the universe is shown as it was when it was
\* listed, so that only a message tells; any other is asked for by its id.
ShownResolved(m, answered) ==
    IF m \in universe THEN m \in heard ELSE answered /\ m \in resolved

SettlementPass ==
    \E answered \in BOOLEAN :
        /\ leftover' = {m \in leftover : ~ShownResolved(m, answered)}
        /\ IF answered THEN NoFault ELSE Fault

RestEvaluate ==
    /\ pc = "seed" /\ mode = "rest" /\ ~Starved(universe)
    /\ SettlementPass
    /\ first' = FALSE
    /\ CycleEnds

RestStarved ==
    /\ pc = "seed" /\ mode = "rest" /\ Starved(universe)
    /\ CycleEnds
    /\ UNCHANGED <<leftover, first, faults>>

\* The websocket mode seeds once and then stays in its loop.
WsSeeded ==
    /\ pc = "seed" /\ mode = "ws" /\ ~Starved(universe)
    /\ SettlementPass
    /\ pc' = "loop"
    /\ UNCHANGED <<heard, file, mode, first, refresh, fetch, universe, full, asof>>
    /\ World

WsEvaluate ==
    /\ pc = "loop"
    /\ SettlementPass
    /\ UNCHANGED <<heard, file, mode, pc, first, refresh, fetch, universe, full, asof>>
    /\ World

-----------------------------------------------------------------------------
(* The refresh task: _refresh_market_universe beside the loop *)

Loop == UNCHANGED <<heard, leftover, mode, pc, first>> /\ World

\* Mutant: a start on a slice is never followed by a refresh.
RefreshStartWhenFull ==
    /\ pc = "loop" /\ refresh = "none" /\ full
    /\ fetch' = NewFetch
    /\ refresh' = "fetch"
    /\ UNCHANGED <<file, universe, full, asof, faults>>
    /\ Loop

\* After a start on a slice, and every market_refresh_interval_seconds.
RefreshStart ==
    /\ pc = "loop" /\ refresh = "none"
    /\ fetch' = NewFetch
    /\ refresh' = "fetch"
    /\ UNCHANGED <<file, universe, full, asof, faults>>
    /\ Loop

RefreshPage(last) ==
    /\ refresh = "fetch"
    /\ ReadPage(last)
    /\ refresh' = IF last THEN "seed" ELSE refresh
    /\ UNCHANGED <<file, universe, full, asof, faults>>
    /\ Loop

RefreshSeeded ==
    /\ refresh = "seed" /\ ~Starved(fetch.got \ universe)
    /\ refresh' = "store"
    /\ UNCHANGED <<fetch, file, universe, full, asof, faults>>
    /\ Loop

RefreshGivesUp ==
    /\ refresh' = "none" /\ fetch' = NoFetch
    /\ UNCHANGED <<universe, full, asof>>
    /\ Loop

RefreshStarved ==
    /\ refresh = "seed" /\ Starved(fetch.got \ universe)
    /\ RefreshGivesUp
    /\ UNCHANGED <<file, faults>>

\* A failed request, or a send on a broken socket while the workers are updated.
RefreshFails ==
    /\ refresh \in {"fetch", "seed", "store"}
    /\ Fault
    /\ RefreshGivesUp
    /\ UNCHANGED file

\* The merged universe is cached; a failed write is only logged.
RefreshStored ==
    /\ refresh = "store"
    /\ \/ file' = Cached(universe \cup fetch.got) /\ NoFault
       \/ file' = file /\ Fault
    /\ refresh' = "done"
    /\ UNCHANGED <<fetch, universe, full, asof>>
    /\ Loop

\* The event append after the write raises: the loop keeps its universe.
RefreshUnlogged ==
    /\ refresh = "store"
    /\ Fault
    /\ file' = Cached(universe \cup fetch.got)
    /\ RefreshGivesUp

\* _finish_refresh_task_if_ready; merging keeps every market there was.
Adopt ==
    /\ refresh = "done"
    /\ refresh' = "none" /\ fetch' = NoFetch
    /\ Use(universe \cup fetch.got, fetch.asof)
    /\ UNCHANGED <<file, faults>>
    /\ Loop

-----------------------------------------------------------------------------
(* Time and restarts *)

CacheAges ==
    /\ file # NoFile /\ file.fresh
    /\ file' = [file EXCEPT !.fresh = FALSE]
    /\ UNCHANGED <<gamma, heard, leftover, mode, pc, first, refresh, fetch, universe, full,
                   asof, bounds>>

\* Mutant: the refresh task is not cancelled with the loop.
ProcessGoneTaskLeft ==
    /\ pc' = "down" /\ mode' = "rest" /\ first' = FALSE
    /\ UNCHANGED <<refresh, fetch>>
    /\ universe' = {} /\ full' = FALSE /\ asof' = {} /\ heard' = {}
    /\ UNCHANGED <<gamma, leftover, file, faults>>

\* Everything but the two files is gone.
ProcessGone ==
    /\ pc' = "down" /\ mode' = "rest" /\ first' = FALSE
    /\ refresh' = "none" /\ fetch' = NoFetch
    /\ universe' = {} /\ full' = FALSE /\ asof' = {} /\ heard' = {}
    /\ UNCHANGED <<gamma, leftover, file, faults>>

\* A stop, a crash, or an exception that the websocket mode does not survive.
ProcessEnds ==
    /\ pc # "down" /\ restarts < MaxRestarts
    /\ restarts' = restarts + 1
    /\ ProcessGone

WsStarved ==
    /\ pc = "seed" /\ mode = "ws" /\ Starved(universe)
    /\ UNCHANGED restarts
    /\ ProcessGone

RestCycle ==
    \/ StartFull \/ \E last \in BOOLEAN : FetchPage(last)
    \/ Store \/ CycleFails \/ RestEvaluate \/ RestStarved

WsStart == StartSlice \/ WsSeeded \/ WsStarved

RefreshTask ==
    \/ RefreshStart \/ \E last \in BOOLEAN : RefreshPage(last)
    \/ RefreshSeeded \/ RefreshStarved \/ RefreshFails
    \/ RefreshStored \/ RefreshUnlogged \/ Adopt

Next ==
    \/ \E m \in Markets : ListMarket(m)
    \/ \E i \in DOMAIN listing : ResolveMarket(i)
    \/ Boot \/ LoadCache \/ RestCycle \/ WsStart \/ WsEvaluate \/ RefreshTask
    \/ CacheAges \/ ProcessEnds

\* A stopped runner is started again; the loop, its timers and the feed keep it
\* evaluating and refreshing.
Fairness ==
    /\ WF_vars(Boot) /\ WF_vars(LoadCache \/ RestCycle \/ WsStart)
    /\ WF_vars(WsEvaluate) /\ WF_vars(RefreshTask)

Spec == Init /\ [][Next]_vars /\ Fairness

-----------------------------------------------------------------------------
(* Properties *)

\* Every variable has its type, and each task is where its process can have it.
TypeOK ==
    /\ listing \in Seq(Markets) /\ IsInjective(listing)
    /\ {resolved, heard, leftover, universe, asof} \subseteq SUBSET Markets
    /\ file \in Files \cup {NoFile}
    /\ mode \in {"rest", "ws"} /\ pc \in PCs /\ refresh \in Refreshes
    /\ {first, full} \subseteq BOOLEAN
    /\ fetch \in Fetches
    /\ faults \in 0 .. MaxFaults /\ restarts \in 0 .. MaxRestarts
    /\ refresh # "none" => pc = "loop"
    /\ pc = "loop" => mode = "ws"

\* What is called full is full: a universe with coverage "full", or loaded from the cache
\* file, has every market that was listed when the fetch behind it began, is not resolved
\* since, and did not slide over a page boundary; through failed refreshes, restarts and
\* starts on a slice in between.
FullHasAll ==
    /\ full => asof \ resolved \subseteq universe
    /\ file # NoFile => file.asof \ resolved \subseteq file.markets

\* The one look-up that fails for good: the loop's universe shows the market as it was
\* when it was listed, and the message about its end was missed.
Overlooked(m) == pc = "loop" /\ m \in universe \ heard

\* README: unmatched shares of a resolved market are settled, across failed look-ups and
\* restarts; unless the market is overlooked, or no book at all comes for the universe.
LeftoverSettled ==
    \A m \in Leftovers :
        m \in leftover \cap resolved
            ~> m \notin leftover \/ Overlooked(m) \/ Starved(universe)

\* README: coverage is priority until the background refresh completes, then full; unless
\* nothing new but markets without a book keeps the refresh from completing.
CoverageBecomesFull ==
    pc = "loop" ~> full \/ pc = "down" \/ Starved(fetch.got \ universe)

=============================================================================
