---------------------------- MODULE MarketFeed ----------------------------
(***************************************************************************)
(* How the cache follows the exchange: the websocket workers and their       *)
(* manager (market_data.py) and the REST seeds of the scanner (scan_bot.py). *)
(* Each worker reads its connection in order; connections are not ordered    *)
(* with each other, nor with REST answers.  The exchange is external: it     *)
(* sends a token's book when the token is subscribed, every change of the    *)
(* book after it, and answers a REST request with the book of that moment.   *)
(*                                                                          *)
(* Asyncio runs a worker, the market refresh and the seeding tasks as one    *)
(* thread; an action is what runs between two awaits.                        *)
(***************************************************************************)
EXTENDS MarketDataCache, BookFetch, Naturals, Sequences, FiniteSets, SequencesExt

CONSTANTS
    ChunkSize,   \* market_ws_max_assets_per_connection
    Universes,   \* the token sets a market refresh may find
    MaxChanges,  \* bound: book changes on the exchange
    MaxBreaks,   \* bound: connections that break
    MaxFetches,  \* bound: REST reads
    MaxUpdates   \* bound: market refreshes that reach the manager

ASSUME FeedAssumption ==
    /\ Tokens \subseteq Nat /\ IsFiniteSet(Tokens)
    /\ Universes \subseteq SUBSET Tokens
    /\ ChunkSize \in Nat \ {0}
    /\ {MaxChanges, MaxBreaks, MaxFetches, MaxUpdates} \subseteq Nat

VARIABLES
    book,      \* the exchange's books
    version,   \* how many changes each token's book has had
    assets,    \* asset_ids of each worker; DOMAIN is all worker slots
    link,      \* where each worker's run() is
    streamed,  \* the tokens the exchange streams on each connection
    wire,      \* the messages on each connection that run() has not read
    universe,  \* the token set the scanner and its workers were last given
    update,    \* where manager.update_tokens is
    fetches,   \* REST answers on their way
    position,  \* history: the newest version of each token taken off a wire
    disturbed, \* history: tokens whose cached book was replaced by an older one
    lost,      \* history: tokens whose connection broke, not vouched for since
    budget     \* what is left of the bounds

exchangeVars == <<book, version>>
workerVars == <<assets, link, streamed, wire>>
managerVars == <<universe, update>>
history == <<position, disturbed, lost>>
vars == <<cacheVars, exchangeVars, workerVars, managerVars, fetches, history, budget>>

\* chunk_asset_ids: the i-th run of ChunkSize tokens in ascending order.
Rank(t, U) == Cardinality({u \in U : u =< t})
Chunk(U, i) == {t \in U : (Rank(t, U) - 1) \div ChunkSize = i - 1}
ChunkCount(U) == (Cardinality(U) + ChunkSize - 1) \div ChunkSize

Workers == 1 .. ChunkCount(Tokens)

\* "none": no such worker.  "down": between connections.  "up": reading.
\* "broken": the peer is gone and run() has not noticed.
Links == {"none", "down", "up", "broken"}
Idle == [step |-> "idle"]
AtRest == update.step \in {"idle", "failed"}

Running(w) == link[w] # "none"
Spend(what) == budget[what] > 0 /\ budget' = [budget EXCEPT ![what] = @ - 1]

Snapshot(t) == [kind |-> "book", token |-> t, book |-> book[t], version |-> version[t]]
Snapshots(T) == LET s == SetToSeq(T) IN [i \in DOMAIN s |-> Snapshot(s[i])]

TypeOK ==
    /\ CacheTypeOK
    /\ book \in [Tokens -> Book] /\ version \in [Tokens -> 0 .. MaxChanges]
    /\ assets \in [Workers -> SUBSET Tokens]
    /\ link \in [Workers -> Links]
    /\ streamed \in [Workers -> SUBSET Tokens]
    /\ \A w \in Workers : link[w] \in {"none", "down"} => streamed[w] = {} /\ wire[w] = <<>>
    /\ \A w \in Workers : \A i \in DOMAIN wire[w] :
           wire[w][i].kind \in {"book", "price_change"} /\ wire[w][i].token \in Tokens
    /\ universe \subseteq Tokens
    /\ position \in [Tokens -> 0 .. MaxChanges]
    /\ disturbed \subseteq Tokens /\ lost \subseteq Tokens
    /\ update.step \in {"idle", "failed", "assign", "send"}
    /\ \A f \in fetches : DOMAIN f.asks \subseteq Tokens

\* manager.start has made one worker per chunk; none has connected.
Init ==
    /\ CacheInit
    /\ book \in [Tokens -> {[s \in Sides |-> {}]}]
    /\ version = [t \in Tokens |-> 0]
    /\ universe \in Universes
    /\ assets = [w \in Workers |-> Chunk(universe, w)]
    /\ link = [w \in Workers |-> IF w =< ChunkCount(universe) THEN "down" ELSE "none"]
    /\ streamed = [w \in Workers |-> {}] /\ wire = [w \in Workers |-> <<>>]
    /\ update = Idle /\ fetches = {}
    /\ position = [t \in Tokens |-> 0] /\ disturbed = {} /\ lost = {}
    /\ budget = [changes |-> MaxChanges, breaks |-> MaxBreaks,
                 fetches |-> MaxFetches, updates |-> MaxUpdates]

-----------------------------------------------------------------------------
(* The exchange *)

\* A level appears or goes, and every connection that streams the token hears.
BookChanges(t, s, p) ==
    LET c == [token |-> t, side |-> s, price |-> p, listed |-> p \notin book[t][s]]
        message == [kind |-> "price_change", token |-> t, change |-> c,
                    version |-> version[t] + 1]
    IN  /\ Spend("changes")
        /\ book' = [book EXCEPT ![t][s] = WithChange(@, c)]
        /\ version' = [version EXCEPT ![t] = @ + 1]
        /\ wire' = [w \in Workers |-> IF t \in streamed[w] THEN Append(wire[w], message)
                                                           ELSE wire[w]]
        /\ UNCHANGED <<cacheVars, assets, link, streamed, managerVars, fetches, history>>

\* What was sent last may never arrive.
Break(w) ==
    /\ link[w] = "up" /\ Spend("breaks")
    /\ link' = [link EXCEPT ![w] = "broken"]
    /\ \E n \in 0 .. Len(wire[w]) : wire' = [wire EXCEPT ![w] = SubSeq(@, 1, n)]
    /\ streamed' = [streamed EXCEPT ![w] = {}]
    /\ lost' = lost \cup {t \in streamed[w] : \A v \in Workers \ {w} : t \notin streamed[v]}
    /\ UNCHANGED <<cacheVars, exchangeVars, assets, managerVars, fetches, position, disturbed>>

-----------------------------------------------------------------------------
(* _MarketWebSocketWorker.run *)

\* Under the worker's lock: the socket is published and all of asset_ids subscribed.
Connect(w) ==
    /\ link[w] = "down"
    /\ link' = [link EXCEPT ![w] = "up"]
    /\ streamed' = [streamed EXCEPT ![w] = assets[w]]
    /\ wire' = [wire EXCEPT ![w] = Snapshots(assets[w])]
    /\ UNCHANGED <<cacheVars, exchangeVars, assets, managerVars, fetches, history, budget>>

\* A newer book than any message read so far is a fresh start; an older one is not.
Vouch(t, v) ==
    /\ position' = [position EXCEPT ![t] = IF v > @ THEN v ELSE @]
    /\ disturbed' = IF v >= position[t] THEN disturbed \ {t} ELSE disturbed \cup {t}
    /\ lost' = lost \ {t}

ReceiveBook(w) ==
    LET m == Head(wire[w]) IN
    /\ m.kind = "book"
    /\ ApplyBookSnapshot(m.token, m.book)
    /\ Vouch(m.token, m.version)

ReceivePriceChange(w) ==
    LET m == Head(wire[w]) IN
    /\ m.kind = "price_change"
    /\ ApplyPriceChange(m.change)
    /\ position' = [position EXCEPT ![m.token] = IF m.version > @ THEN m.version ELSE @]
    /\ disturbed' = IF m.version < position[m.token] THEN disturbed \cup {m.token} ELSE disturbed
    /\ UNCHANGED lost

\* The loop over the socket: what had arrived before a break is still delivered.
Receive(w) ==
    /\ link[w] \in {"up", "broken"} /\ wire[w] # <<>>
    /\ ReceiveBook(w) \/ ReceivePriceChange(w)
    /\ wire' = [wire EXCEPT ![w] = Tail(@)]
    /\ UNCHANGED <<exchangeVars, assets, link, streamed, managerVars, fetches, budget>>

\* Mutant: run() leaves its loop before it has read what had arrived.
LostUnread(w) ==
    /\ link[w] = "broken"
    /\ link' = [link EXCEPT ![w] = "down"]
    /\ MarkTokensStale(assets[w])
    /\ UNCHANGED <<exchangeVars, assets, streamed, wire, managerVars, fetches, history, budget>>

\* finally: the tokens the worker has by then are marked stale.
ConnectionLost(w) ==
    /\ link[w] = "broken" /\ wire[w] = <<>>
    /\ link' = [link EXCEPT ![w] = "down"]
    /\ MarkTokensStale(assets[w])
    /\ UNCHANGED <<exchangeVars, assets, streamed, wire, managerVars, fetches, history, budget>>

-----------------------------------------------------------------------------
(* MarketWebSocketManager.update_tokens, as _refresh_market_universe calls it *)

\* _priority_merged_universe keeps every market there was: a universe only grows.
StartUpdate(found) ==
    /\ AtRest /\ Spend("updates")
    /\ update' = [step |-> "assign", to |-> universe \cup found, worker |-> 1]
    /\ UNCHANGED <<cacheVars, exchangeVars, workerVars, universe, fetches, history>>

WorkerCount == Cardinality({w \in Workers : Running(w)})
SharedWorkers == {w \in Workers : Running(w) /\ w =< ChunkCount(update.to)}

\* Worker.update_tokens up to its lock: asset_ids is replaced at once ...
AssignTokens(w) ==
    LET new == Chunk(update.to, w) IN
    /\ update.step = "assign" /\ w = update.worker /\ w \in SharedWorkers
    /\ assets' = [assets EXCEPT ![w] = new]
    /\ update' = [step |-> "send", to |-> update.to, worker |-> w,
                  added |-> new \ assets[w], removed |-> assets[w] \ new]
    /\ UNCHANGED <<cacheVars, exchangeVars, link, streamed, wire, universe, fetches, history,
                   budget>>

NextWorker(w) == [step |-> "assign", to |-> update.to, worker |-> w + 1]

\* Mutant: what the worker no longer has is not unsubscribed.
SendOnlyAdded(w) ==
    /\ update.step = "send" /\ w = update.worker
    /\ link[w] \in {"down", "up"} \/ (link[w] = "broken" /\ update.added = {})
    /\ IF link[w] = "up"
       THEN /\ streamed' = [streamed EXCEPT ![w] = @ \cup update.added]
            /\ wire' = [wire EXCEPT ![w] = @ \o Snapshots(update.added)]
       ELSE UNCHANGED <<streamed, wire>>
    /\ update' = NextWorker(w)
    /\ UNCHANGED <<cacheVars, exchangeVars, assets, link, universe, fetches, history, budget>>

\* ... and what changed is sent if there is a socket by then.
SendUpdates(w) ==
    /\ update.step = "send" /\ w = update.worker
    /\ link[w] \in {"down", "up"} \/ (link[w] = "broken" /\ update.added \cup update.removed = {})
    /\ IF link[w] = "up"
       THEN /\ streamed' = [streamed EXCEPT ![w] = (@ \cup update.added) \ update.removed]
            /\ wire' = [wire EXCEPT ![w] = @ \o Snapshots(update.added)]
       ELSE UNCHANGED <<streamed, wire>>
    /\ update' = NextWorker(w)
    /\ UNCHANGED <<cacheVars, exchangeVars, assets, link, universe, fetches, history, budget>>

\* Sending on a socket whose peer is gone raises: the refresh is given up there.
SendFails(w) ==
    /\ update.step = "send" /\ w = update.worker
    /\ link[w] = "broken" /\ update.added \cup update.removed # {}
    /\ update' = [step |-> "failed"]
    /\ UNCHANGED <<cacheVars, exchangeVars, workerVars, universe, fetches, history, budget>>

\* Mutant: the chunks of the new workers are taken one too early.
AddWorkersOneEarly ==
    /\ update.step = "assign" /\ update.worker \notin SharedWorkers
    /\ LET new == WorkerCount + 1 .. ChunkCount(update.to) IN
       /\ assets' = [w \in Workers |-> IF w \in new THEN Chunk(update.to, w - 1) ELSE assets[w]]
       /\ link' = [w \in Workers |-> IF w \in new THEN "down" ELSE link[w]]
    /\ universe' = update.to /\ update' = Idle
    /\ UNCHANGED <<cacheVars, exchangeVars, streamed, wire, fetches, history, budget>>

\* The workers there were have their chunks: new ones take the rest, and the
\* refresh, which has nothing to remove, hands its universe on.
AddWorkers ==
    /\ update.step = "assign" /\ update.worker \notin SharedWorkers
    /\ LET new == WorkerCount + 1 .. ChunkCount(update.to) IN
       /\ assets' = [w \in Workers |-> IF w \in new THEN Chunk(update.to, w) ELSE assets[w]]
       /\ link' = [w \in Workers |-> IF w \in new THEN "down" ELSE link[w]]
    /\ universe' = update.to /\ update' = Idle
    /\ UNCHANGED <<cacheVars, exchangeVars, streamed, wire, fetches, history, budget>>

-----------------------------------------------------------------------------
(* The REST seeds: bootstrap, backfill, reconcile and refresh alike *)

Wanted == universe \cup (IF AtRest THEN {} ELSE update.to)

\* What reading the tokens of a chunk may bring, as BookFetch has it; alone are those
\* whose own request would be answered.
Reads ==
    UNION {{[asked |-> T, alone |-> alone, read |-> FetchAskBooks(SetToSeq(T), rows, alone)] :
                rows \in Answers(SetToSeq(T)), alone \in SUBSET T} : T \in SUBSET Tokens}

\* A read that brings nothing is counted as failed and seeds nothing.
RestRead(r) ==
    /\ r.asked \subseteq Wanted /\ r.asked # {}
    /\ Spend("fetches")
    /\ LET asks == [t \in DOMAIN r.read |-> book[r.read[t]]["ask"]]
           of   == [t \in DOMAIN r.read |-> version[r.read[t]]]
       IN  fetches' = IF asks = << >> THEN fetches
                      ELSE fetches \cup {[asks |-> asks, version |-> of]}
    /\ UNCHANGED <<cacheVars, exchangeVars, workerVars, managerVars, history>>

Seed(f) ==
    /\ fetches' = fetches \ {f}
    /\ SeedAskBooks(f.asks)
    /\ disturbed' = (disturbed \ DOMAIN f.asks)
                        \cup {t \in DOMAIN f.asks : f.version[t] < position[t]}
    /\ lost' = lost \ DOMAIN f.asks
    /\ UNCHANGED <<exchangeVars, workerVars, managerVars, position, budget>>

-----------------------------------------------------------------------------
\* The bounds are used up and all is quiet: anything else that stops is a deadlock.
Exhausted ==
    /\ \A k \in DOMAIN budget : budget[k] = 0
    /\ AtRest /\ fetches = {}
    /\ \A w \in Workers : link[w] \in {"none", "up"} /\ wire[w] = <<>>
    /\ UNCHANGED vars

Next ==
    \/ Exhausted
    \/ \E t \in Tokens, s \in Sides, p \in Prices : BookChanges(t, s, p)
    \/ \E w \in Workers : \/ Break(w) \/ Connect(w) \/ Receive(w) \/ ConnectionLost(w)
                         \/ AssignTokens(w) \/ SendUpdates(w) \/ SendFails(w)
    \/ \E found \in Universes : StartUpdate(found)
    \/ AddWorkers
    \/ \E r \in Reads : RestRead(r)
    \/ \E f \in fetches : Seed(f)

Spec == Init /\ [][Next]_vars

-----------------------------------------------------------------------------
(* Properties *)

\* What a message makes of the ask side of t.
Heard(t, levels, m) ==
    IF m.token # t THEN levels
    ELSE IF m.kind = "book" THEN m.book["ask"]
    ELSE IF m.change.side = "ask" THEN WithChange(levels, m.change) ELSE levels

\* What the ask side of t becomes once run() has read the messages ahead.
Replayed(t, w) ==
    LET after[n \in 0 .. Len(wire[w])] ==
            IF n = 0 THEN books[t]["ask"] ELSE Heard(t, after[n - 1], wire[w][n])
    IN  after[Len(wire[w])]

\* The cached asks of a ready token are what the exchange lists, but for the messages that
\* a connection which carries the token has yet to deliver; only an older book or change
\* arriving late, from REST or from a token's other connection, may undo that
\* (apply_payload, seed_ask_books, mark_tokens_stale).
AskAgrees ==
    \A t \in ready \ disturbed, w \in Workers :
        t \in streamed[w] => Replayed(t, w) = book[t]["ask"]

\* However the answer of a batch is damaged - rows that are missing, that do not name their
\* token, or no answer - a token gets no book but its own, and it gets that book if its own
\* request is answered: a bad row costs no other token.
\* Code: fetch_order_books_batch and the fallback of fetch_ask_books.
ReadsOwnBook ==
    \A r \in Reads : r.asked \subseteq Wanted =>
        r.alone \subseteq DOMAIN r.read /\ \A t \in DOMAIN r.read : r.read[t] = t

\* A worker that is connected and not in the middle of update_tokens has
\* subscribed exactly its asset_ids, however connecting and updating interleave.
SubscribedIsAssigned ==
    \A w \in Workers :
        (link[w] = "up" /\ ~ (update.step = "send" /\ update.worker = w))
            => streamed[w] = assets[w]

\* Unless a refresh was given up half way, every token of the universe has one
\* worker, and workers have no other tokens.
OneWorkerPerToken ==
    update.step = "idle" =>
        /\ \A t \in universe : Cardinality({w \in Workers : Running(w) /\ t \in assets[w]}) = 1
        /\ \A w \in Workers : Running(w) => assets[w] \subseteq universe

\* README: "Disconnect/stale marking clears snapshot readiness".  A token whose
\* connection broke is not ready again before a book vouches for it, except
\* while a worker has yet to notice (run, update_tokens, _mark_disconnected_stale).
DisconnectClears ==
    AtRest => \A t \in lost \cap ready \cap universe :
                  \E w \in Workers : link[w] = "broken"
=============================================================================
