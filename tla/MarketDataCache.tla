-------------------------- MODULE MarketDataCache --------------------------
(***************************************************************************)
(* The order-book cache of market_data.py.  A side of a book is the set of   *)
(* prices it lists, or NoBook.  Every method holds the cache's lock from its *)
(* first access to its last, so a method is one step.  The ask side is what  *)
(* the scanner trades on; REST seeds replace it alone.                       *)
(***************************************************************************)
CONSTANTS
    Tokens,  \* the outcome tokens of the exchange
    Prices,  \* the prices a book can list
    NoBook   \* a side the cache has nothing for

VARIABLES
    books,   \* _books: what is cached for each token and side
    ready    \* _ready_tokens

cacheVars == <<books, ready>>

Sides == {"bid", "ask"}
Levels == SUBSET Prices

ASSUME NoBookAssumption == \A levels \in Levels : levels # NoBook

Book == [Sides -> Levels]
NothingCached == [s \in Sides |-> NoBook]

\* A price_change entry: the level at a price is now listed, or no longer is.
Change == [token : Tokens, side : Sides, price : Prices, listed : BOOLEAN]

WithChange(levels, c) ==
    IF c.listed THEN levels \cup {c.price} ELSE levels \ {c.price}

CacheTypeOK ==
    /\ books \in [Tokens -> [Sides -> Levels \cup {NoBook}]]
    /\ ready \subseteq Tokens

CacheInit ==
    /\ books = [t \in Tokens |-> NothingCached]
    /\ ready = {}

\* Mutant: a snapshot does not replace the book of a token that is ready.
SnapshotOfReadyIgnored(t, book) ==
    /\ books' = IF t \in ready THEN books ELSE [books EXCEPT ![t] = book]
    /\ ready' = ready \cup {t}

ApplyBookSnapshot(t, book) ==
    /\ books' = [books EXCEPT ![t] = book]
    /\ ready' = ready \cup {t}

\* A change is skipped for a side that is not cached or a token not ready.
AppliesTo(c) == c.token \in ready /\ books[c.token][c.side] # NoBook

ApplyPriceChange(c) ==
    /\ books' = IF AppliesTo(c)
                THEN [books EXCEPT ![c.token][c.side] = WithChange(@, c)]
                ELSE books
    /\ UNCHANGED ready

\* asks: the ask levels read for each token of its domain.
SeedAskBooks(asks) ==
    /\ books' = [t \in Tokens |-> IF t \in DOMAIN asks
                                  THEN [books[t] EXCEPT !["ask"] = asks[t]]
                                  ELSE books[t]]
    /\ ready' = ready \cup DOMAIN asks

\* The levels stay in the cache; only readiness goes.
MarkTokensStale(T) ==
    /\ ready' = ready \ T
    /\ UNCHANGED books
=============================================================================
