----------------------------- MODULE BookFetch -----------------------------
(***************************************************************************)
(* How one chunk of tokens is read over REST (fetcher.py): one request for   *)
(* all their books, then a request of its own for every token the first one  *)
(* did not bring.  A row shows the book of a token and may or may not say    *)
(* whose it is.  What is read is a function from tokens to the token whose   *)
(* book was taken for theirs; a chunk that raises is as one without books.   *)
(* Retries of one HTTP request end in its answer or in its failure, and any   *)
(* row that is an object can be parsed (order_book.py).                      *)
(***************************************************************************)
EXTENDS Naturals, Sequences, SequencesExt

\* The service is external: it has a book for some of the tokens, keeps the order of the
\* request, and names the token in some rows.  A request that fails is as one without rows.
KeepsOrder(request, rows) ==
    \E at \in [DOMAIN rows -> DOMAIN request] :
        /\ \A i \in DOMAIN rows : rows[i].token = request[at[i]]
        /\ \A i, j \in DOMAIN rows : i < j => at[i] < at[j]

Row(request) == [token : ToSet(request), named : BOOLEAN]

Answers(request) ==
    {rows \in UNION {[1 .. n -> Row(request)] : n \in 0 .. Len(request)} :
        KeepsOrder(request, rows)}

\* Mutant: rows without a name are taken by their position in short answers too.
UnusableNever(request, rows) == FALSE

\* fetch_order_books_batch raises over a short answer with a row without a name.
Unusable(request, rows) ==
    Len(rows) # Len(request) /\ \E i \in DOMAIN rows : ~ rows[i].named

\* A row without a name stands for the token at its position; the last row of a token wins.
FiledUnder(request, rows, i) == IF rows[i].named THEN rows[i].token ELSE request[i]

FetchOrderBooksBatch(request, rows) ==
    IF Unusable(request, rows) THEN << >>
    ELSE LET at(t) == {i \in DOMAIN rows : FiledUnder(request, rows, i) = t}
         IN  [t \in {u \in ToSet(request) : at(u) # {}} |->
                 rows[CHOOSE i \in at(t) : \A j \in at(t) : j <= i].token]

\* Mutant: only an answer that is unusable as a whole is made up for.
NothingMissing(request, rows) == IF Unusable(request, rows) THEN ToSet(request) ELSE {}

\* The tokens that are asked for again, one by one.
FallbackTokens(request, rows) ==
    ToSet(request) \ DOMAIN FetchOrderBooksBatch(request, rows)

\* alone: the tokens whose own request is answered.  fetch_ask_books.
FetchAskBooks(request, rows, alone) ==
    LET batch == FetchOrderBooksBatch(request, rows)
        again == FallbackTokens(request, rows) \cap alone
    IN  [t \in DOMAIN batch \cup again |-> IF t \in again THEN t ELSE batch[t]]
=============================================================================
