-------------------------- MODULE MarketFeedProofs --------------------------
(***************************************************************************)
(* The feed for any number of tokens, connections, changes and breaks: a     *)
(* read gives each token its own book, every token has one worker and is     *)
(* subscribed where it is assigned, all variables keep their types, and the  *)
(* cached asks follow the exchange.                                          *)
(***************************************************************************)
EXTENDS MarketFeed, FiniteSetTheorems, SequenceTheorems, WellFoundedInduction, TLAPS

-----------------------------------------------------------------------------
(* Numbers *)

\* Induction over 0 .. n, stated for sets.
LEMMA CountingUp ==
    ASSUME NEW n \in Nat, NEW S, 0 \in S, \A k \in 0 .. n - 1 : k \in S => k + 1 \in S
    PROVE  0 .. n \subseteq S
<1> DEFINE B == {k \in 0 .. n : k \notin S}
           R == OpToRel(<, Nat)
<1> SUFFICES ASSUME B # {} PROVE FALSE
  OBVIOUS
<1>1. PICK k \in B : \A j \in B : <<j, k>> \notin R
  <2>1. IsWellFoundedOn(R, Nat)
    BY NatLessThanWellFounded
  <2>2. B \subseteq Nat
    OBVIOUS
  <2> HIDE DEF R, B
  <2> QED
    BY <2>1, <2>2, WFMin
<1>2. k # 0 /\ k \in 0 .. n /\ k \notin S
  OBVIOUS
<1>3. k - 1 \in 0 .. n - 1 /\ (k - 1) + 1 = k
  BY <1>2
<1>4. k - 1 \in S
  <2>1. SUFFICES ASSUME k - 1 \notin S PROVE FALSE
    OBVIOUS
  <2>2. k - 1 \in B
    BY <1>3, <2>1
  <2>3. <<k - 1, k>> \in R
    BY <1>2, <1>3 DEF OpToRel
  <2> QED
    BY <1>1, <2>2, <2>3
<1> QED
  BY <1>2, <1>3, <1>4

\* A non-empty set of numbers up to n has a largest one.
LEMMA LargestExists ==
    ASSUME NEW n \in Nat, NEW T \in SUBSET (1 .. n), T # {}
    PROVE  \E i \in T : \A j \in T : j <= i
<1> DEFINE S == {k \in 0 .. n : (\E i \in T : \A j \in T : j <= i)
                                    \/ \A j \in T : j <= n - k}
<1>1. 0 \in S
  OBVIOUS
<1>2. ASSUME NEW k \in 0 .. n - 1, k \in S
      PROVE  k + 1 \in S
  <2>1. CASE \E i \in T : \A j \in T : j <= i
    BY <2>1
  <2>2. CASE \A j \in T : j <= n - k
    <3>1. CASE n - k \in T
      BY <2>2, <3>1
    <3>2. CASE n - k \notin T
      <4>1. \A j \in T : j <= n - (k + 1)
        BY <2>2, <3>2
      <4> QED
        BY <4>1
    <3> QED
      BY <3>1, <3>2
  <2> QED
    BY <1>2, <2>1, <2>2
<1>3. n \in S
  <2> HIDE DEF S
  <2> QED
    BY <1>1, <1>2, CountingUp
<1>4. ~ \A j \in T : j <= n - n
  <2>1. PICK j \in T : TRUE
    OBVIOUS
  <2> QED
    BY <2>1
<1> QED
  BY <1>3, <1>4

\* Whole quotients.
LEMMA QuotientBounds ==
    ASSUME NEW a \in Nat, NEW b \in Nat \ {0}
    PROVE  /\ a \div b \in Nat
           /\ b * (a \div b) <= a
           /\ a < b * (a \div b) + b
  OBVIOUS

\* A sequence of numbers that rises within 1 .. n and is as long as that counts it.
LEMMA RisingIsIdentity ==
    ASSUME NEW n \in Nat, NEW at \in [1 .. n -> 1 .. n],
           \A i, j \in 1 .. n : i < j => at[i] < at[j]
    PROVE  \A i \in 1 .. n : at[i] = i
<1>1. ASSUME NEW i \in 1 .. n PROVE at[i] >= i
  <2> DEFINE S == {k \in 0 .. n : k = 0 \/ at[k] >= k}
  <2>1. 0 \in S
    OBVIOUS
  <2>2. ASSUME NEW k \in 0 .. n - 1, k \in S
        PROVE  k + 1 \in S
    <3>1. CASE k = 0
      BY <3>1
    <3>2. CASE k # 0
      <4>1. at[k] >= k /\ at[k] < at[k + 1] /\ at[k] \in Int /\ at[k + 1] \in Int
        BY <2>2, <3>2
      <4> QED
        BY <4>1
    <3> QED
      BY <3>1, <3>2
  <2>3. i \in S
    <3>1. 0 .. n \subseteq S
      <4>1. \A k \in 0 .. n - 1 : k \in S => k + 1 \in S
        BY <2>2
      <4> HIDE DEF S
      <4> QED
        BY <2>1, <4>1, CountingUp
    <3>2. i \in 0 .. n
      OBVIOUS
    <3> HIDE DEF S
    <3> QED
      BY <3>1, <3>2
  <2> QED
    BY <2>3
<1>2. ASSUME NEW i \in 1 .. n PROVE at[i] <= i
  <2> DEFINE S == {k \in 0 .. n : k = n \/ at[n - k] <= n - k}
  <2>1. 0 \in S
    BY <1>2
  <2>2. ASSUME NEW k \in 0 .. n - 1, k \in S
        PROVE  k + 1 \in S
    <3>1. CASE k + 1 = n
      BY <3>1
    <3>2. CASE k + 1 # n
      <4>1. n - k \in 1 .. n /\ n - (k + 1) \in 1 .. n /\ n - (k + 1) < n - k
        BY <3>2
      <4>2. at[n - k] <= n - k
        BY <2>2, <3>2
      <4>3. at[n - (k + 1)] < at[n - k] /\ at[n - (k + 1)] \in Int /\ at[n - k] \in Int
        BY <4>1
      <4> QED
        BY <4>2, <4>3
    <3> QED
      BY <3>1, <3>2
  <2>3. n - i \in S
    <3>1. 0 .. n \subseteq S
      <4>1. \A k \in 0 .. n - 1 : k \in S => k + 1 \in S
        BY <2>2
      <4> HIDE DEF S
      <4> QED
        BY <2>1, <4>1, CountingUp
    <3>2. n - i \in 0 .. n
      OBVIOUS
    <3> HIDE DEF S
    <3> QED
      BY <3>1, <3>2
  <2> QED
    BY <2>3
<1>3. \A i \in 1 .. n : at[i] \in Int
  OBVIOUS
<1> QED
  BY <1>1, <1>2, <1>3

-----------------------------------------------------------------------------
(* A read gives each token its own book *)

\* SetToSeq puts the members of a finite set in some order, each at one place.
LEMMA InSomeOrder ==
    ASSUME NEW T, IsFiniteSet(T)
    PROVE  /\ SetToSeq(T) \in Seq(T) /\ Len(SetToSeq(T)) \in Nat
           /\ \A i, j \in 1 .. Len(SetToSeq(T)) :
                  SetToSeq(T)[i] = SetToSeq(T)[j] => i = j
           /\ \A t \in T : \E i \in 1 .. Len(SetToSeq(T)) : SetToSeq(T)[i] = t
           /\ ToSet(SetToSeq(T)) = T
<1> DEFINE n == Cardinality(T)
           s == SetToSeq(T)
<1>1. n \in Nat /\ \E f \in [1 .. n -> T] : IsInjective(f)
  BY FS_CardinalityType DEF ExistsBijection, Bijection, Injection
<1>2. s \in [1 .. n -> T] /\ IsInjective(s)
  BY <1>1 DEF SetToSeq
<1>3. s \in Surjection(1 .. n, T)
  <2>1. s \in Injection(1 .. n, T)
    BY <1>2 DEF Injection
  <2>2. Cardinality(1 .. n) = n
    BY <1>1, FS_Interval
  <2> HIDE DEF s
  <2> QED
    BY <2>1, <2>2, FS_Injection
<1>4. \A t \in T : \E i \in 1 .. n : s[i] = t
  BY <1>3 DEF Surjection
<1> HIDE DEF s, n
<1>5. s \in Seq(T) /\ Len(s) = n /\ DOMAIN s = 1 .. n
  BY <1>1, <1>2
<1>6. \A i, j \in 1 .. n : s[i] = s[j] => i = j
  BY <1>2, <1>5 DEF IsInjective
<1>7. ToSet(s) = T
  BY <1>2, <1>4, <1>5 DEF ToSet
<1> QED
  BY <1>1, <1>4, <1>5, <1>6, <1>7 DEF s

\* rows has n rows that show tokens of T, in the order of the request.
HasRows(T, rows, n) ==
    /\ DOMAIN rows = 1 .. n /\ Len(rows) = n
    /\ \A i \in 1 .. n : rows[i].token \in T /\ rows[i].named \in BOOLEAN
    /\ \E at \in [1 .. n -> 1 .. Len(SetToSeq(T))] :
           /\ \A i \in 1 .. n : rows[i].token = SetToSeq(T)[at[i]]
           /\ \A i, j \in 1 .. n : i < j => at[i] < at[j]

\* Every answer has such rows.
LEMMA RowsOfAnswer ==
    ASSUME NEW T, IsFiniteSet(T), NEW rows \in Answers(SetToSeq(T))
    PROVE  \E n \in 0 .. Len(SetToSeq(T)) : HasRows(T, rows, n)
<1> DEFINE request == SetToSeq(T)
<1>1. request \in Seq(T) /\ Len(request) \in Nat /\ ToSet(request) = T
  BY InSomeOrder
<1> HIDE DEF request
<1>2. PICK n \in 0 .. Len(request) : rows \in [1 .. n -> Row(request)]
  BY DEF Answers, request
<1>3. KeepsOrder(request, rows)
  BY DEF Answers, request
<1>4. DOMAIN rows = 1 .. n /\ DOMAIN request = 1 .. Len(request)
  BY <1>1, <1>2
<1>5. n \in Nat /\ Len(rows) = n
  BY <1>1, <1>2
<1>6. \A i \in 1 .. n : rows[i].token \in T /\ rows[i].named \in BOOLEAN
  BY <1>1, <1>2 DEF Row
<1>7. \E at \in [1 .. n -> 1 .. Len(request)] :
          /\ \A i \in 1 .. n : rows[i].token = request[at[i]]
          /\ \A i, j \in 1 .. n : i < j => at[i] < at[j]
  BY <1>3, <1>4 DEF KeepsOrder
<1> QED
  BY <1>4, <1>5, <1>6, <1>7 DEF request, HasRows

\* In an answer that is used every row is filed under the token it shows: a short one names
\* them all, and one that is not short has them at their places.
LEMMA RowsFiledAsShown ==
    ASSUME NEW T, IsFiniteSet(T), NEW rows \in Answers(SetToSeq(T)),
           ~ Unusable(SetToSeq(T), rows), NEW i \in DOMAIN rows
    PROVE  rows[i].token \in T /\ FiledUnder(SetToSeq(T), rows, i) = rows[i].token
<1> DEFINE request == SetToSeq(T)
<1>1. Len(request) \in Nat
  BY InSomeOrder
<1>2. PICK n \in 0 .. Len(request) : HasRows(T, rows, n)
  BY RowsOfAnswer
<1>3. ~ Unusable(request, rows)
  OBVIOUS
<1> HIDE DEF request
<1>4. CASE rows[i].named
  BY <1>2, <1>4 DEF HasRows, FiledUnder
<1>5. CASE ~ rows[i].named
  <2>1. n = Len(request)
    BY <1>2, <1>3, <1>5 DEF HasRows, Unusable
  <2>2. PICK at \in [1 .. n -> 1 .. Len(request)] :
            /\ \A k \in 1 .. n : rows[k].token = request[at[k]]
            /\ \A k, l \in 1 .. n : k < l => at[k] < at[l]
    BY <1>2 DEF HasRows, request
  <2>3. n \in Nat /\ at \in [1 .. n -> 1 .. n]
    BY <1>1, <2>1, <2>2
  <2>4. at[i] = i
    <3>1. \A k \in 1 .. n : at[k] = k
      BY <2>2, <2>3, RisingIsIdentity
    <3> QED
      BY <1>2, <3>1 DEF HasRows
  <2>5. rows[i].token = request[i] /\ rows[i].token \in T
    BY <1>2, <2>2, <2>4 DEF HasRows
  <2> QED
    BY <1>5, <2>5 DEF FiledUnder, request
<1> QED
  BY <1>4, <1>5

\* A batch gives a token no book but its own.
LEMMA BatchReadsOwn ==
    ASSUME NEW T, IsFiniteSet(T), NEW rows \in Answers(SetToSeq(T))
    PROVE  LET batch == FetchOrderBooksBatch(SetToSeq(T), rows)
           IN  DOMAIN batch \subseteq T /\ \A t \in DOMAIN batch : batch[t] = t
<1> DEFINE request == SetToSeq(T)
           batch == FetchOrderBooksBatch(request, rows)
           at(t) == {i \in DOMAIN rows : FiledUnder(request, rows, i) = t}
<1>1. ToSet(request) = T
  BY InSomeOrder
<1>2. CASE Unusable(request, rows)
  <2>1. batch = << >>
    BY <1>2 DEF FetchOrderBooksBatch
  <2>2. DOMAIN << >> = {}
    OBVIOUS
  <2> QED
    BY <2>1, <2>2
<1>3. CASE ~ Unusable(request, rows)
  <2>1. batch = [t \in {u \in ToSet(request) : at(u) # {}} |->
                    rows[CHOOSE i \in at(t) : \A j \in at(t) : j <= i].token]
    BY <1>3 DEF FetchOrderBooksBatch
  <2>2. ASSUME NEW t \in T, at(t) # {}
        PROVE  rows[CHOOSE i \in at(t) : \A j \in at(t) : j <= i].token = t
    <3>1. PICK n \in Nat : DOMAIN rows = 1 .. n
      BY RowsOfAnswer, InSomeOrder DEF HasRows
    <3>2. at(t) \in SUBSET (1 .. n)
      BY <3>1
    <3>3. \E i \in at(t) : \A j \in at(t) : j <= i
      <4> HIDE DEF at
      <4> QED
        BY <2>2, <3>2, LargestExists
    <3> DEFINE i == CHOOSE k \in at(t) : \A j \in at(t) : j <= k
    <3>4. i \in at(t)
      <4> HIDE DEF at
      <4> QED
        BY <3>3
    <3> HIDE DEF i
    <3>5. i \in DOMAIN rows /\ FiledUnder(request, rows, i) = t
      BY <3>4
    <3>6. rows[i].token = t
      BY <1>3, <3>5, RowsFiledAsShown
    <3> QED
      BY <3>6 DEF i
  <2>3. DOMAIN batch = {u \in T : at(u) # {}}
    BY <1>1, <2>1
  <2>4. ASSUME NEW t \in DOMAIN batch PROVE batch[t] = t
    <3>1. t \in T /\ at(t) # {}
      BY <2>3
    <3>2. batch[t] = rows[CHOOSE i \in at(t) : \A j \in at(t) : j <= i].token
      BY <1>1, <2>1, <3>1
    <3> QED
      BY <2>2, <3>1, <3>2
  <2> QED
    BY <2>3, <2>4
<1> QED
  BY <1>2, <1>3

\* So does a read of a chunk, and it has every token whose own request is answered.
LEMMA ChunkReadsOwn ==
    ASSUME NEW T, IsFiniteSet(T), NEW rows \in Answers(SetToSeq(T)), NEW alone \in SUBSET T
    PROVE  LET read == FetchAskBooks(SetToSeq(T), rows, alone)
           IN  /\ DOMAIN read \subseteq T /\ alone \subseteq DOMAIN read
               /\ \A t \in DOMAIN read : read[t] = t
<1> DEFINE request == SetToSeq(T)
           batch == FetchOrderBooksBatch(request, rows)
           again == FallbackTokens(request, rows) \cap alone
<1>1. DOMAIN batch \subseteq T /\ \A t \in DOMAIN batch : batch[t] = t
  BY BatchReadsOwn
<1>2. FallbackTokens(request, rows) = T \ DOMAIN batch
  BY InSomeOrder DEF FallbackTokens
<1>3. FetchAskBooks(request, rows, alone) =
          [t \in DOMAIN batch \cup again |-> IF t \in again THEN t ELSE batch[t]]
  BY DEF FetchAskBooks
<1> HIDE DEF batch, request
<1> QED
  BY <1>1, <1>2, <1>3 DEF request

-----------------------------------------------------------------------------
(* Chunks *)

\* A larger product of the same factor has a larger other factor.
LEMMA FactorBelow ==
    ASSUME NEW s \in Nat \ {0}, NEW p \in Nat, NEW q \in Nat, s * p < s * q + s
    PROVE  p <= q
<1> SUFFICES ASSUME p >= q + 1 PROVE FALSE
  OBVIOUS
<1>1. PICK d \in Nat : p = q + 1 + d
  <2>1. p - (q + 1) \in Nat /\ p = q + 1 + (p - (q + 1))
    OBVIOUS
  <2> QED
    BY <2>1
<1>2. s * p = s * q + s + s * d /\ s * d \in Nat /\ s * q \in Nat
  BY <1>1
<1> QED
  BY <1>2

\* A set of tokens is finite, and has no more chunks than a larger one.
LEMMA ChunkCounts ==
    ASSUME NEW V \in SUBSET Tokens, NEW U \in SUBSET V
    PROVE  /\ IsFiniteSet(U) /\ Cardinality(U) \in Nat
           /\ ChunkCount(U) \in Nat /\ ChunkCount(V) \in Nat
           /\ ChunkCount(U) <= ChunkCount(V)
<1> DEFINE u == Cardinality(U) + ChunkSize - 1
           v == Cardinality(V) + ChunkSize - 1
<1>1. ChunkSize \in Nat \ {0} /\ IsFiniteSet(Tokens)
  BY FeedAssumption
<1>2. /\ IsFiniteSet(V) /\ IsFiniteSet(U)
      /\ Cardinality(U) \in Nat /\ Cardinality(V) \in Nat
      /\ Cardinality(U) <= Cardinality(V)
  <2>1. IsFiniteSet(V)
    BY <1>1, FS_Subset
  <2>2. IsFiniteSet(U) /\ Cardinality(U) <= Cardinality(V)
    BY <2>1, FS_Subset
  <2> QED
    BY <2>1, <2>2, FS_CardinalityType
<1>3. u \in Nat /\ v \in Nat /\ u <= v
  BY <1>1, <1>2
<1>4. ChunkCount(U) = u \div ChunkSize /\ ChunkCount(V) = v \div ChunkSize
  BY DEF ChunkCount
<1> HIDE DEF u, v
<1>5. /\ u \div ChunkSize \in Nat /\ ChunkSize * (u \div ChunkSize) <= u
      /\ v \div ChunkSize \in Nat
      /\ v < ChunkSize * (v \div ChunkSize) + ChunkSize
  BY <1>1, <1>3, QuotientBounds
<1> DEFINE p == u \div ChunkSize
           q == v \div ChunkSize
<1>6. p \in Nat /\ q \in Nat
  BY <1>5
<1>7. ChunkSize * p < ChunkSize * q + ChunkSize
  <2>1. ChunkSize * p <= u /\ v < ChunkSize * q + ChunkSize
    BY <1>5
  <2>2. ChunkSize * p \in Nat /\ ChunkSize * q \in Nat
    BY <1>1, <1>6
  <2> HIDE DEF p, q
  <2> QED
    BY <1>1, <1>3, <2>1, <2>2
<1>8. p <= q
  <2> HIDE DEF p, q
  <2> QED
    BY <1>1, <1>6, <1>7, FactorBelow
<1> QED
  BY <1>2, <1>4, <1>5, <1>8

\* Every token of a universe is in one chunk of it, and that is one of the counted ones.
LEMMA OneChunk ==
    ASSUME NEW U \in SUBSET Tokens, NEW t \in U
    PROVE  \E i \in 1 .. ChunkCount(U) : \A j \in Nat : t \in Chunk(U, j) <=> j = i
<1> DEFINE low == {u \in U : u =< t}
           r == Rank(t, U) - 1
           n == Cardinality(U) + ChunkSize - 1
           q == r \div ChunkSize
           c == n \div ChunkSize
<1>1. ChunkSize \in Nat \ {0} /\ Tokens \subseteq Nat
  BY FeedAssumption
<1>2. IsFiniteSet(U) /\ Cardinality(U) \in Nat /\ ChunkCount(U) \in Nat
  BY ChunkCounts
<1>3. Rank(t, U) \in 1 .. Cardinality(U)
  <2>1. low \in SUBSET U
    OBVIOUS
  <2>2. IsFiniteSet(low) /\ Cardinality(low) <= Cardinality(U) /\ Cardinality(low) \in Nat
    <3> HIDE DEF low
    <3> QED
      BY <1>2, <2>1, FS_Subset, FS_CardinalityType
  <2>3. low # {}
    BY <1>1
  <2>4. Cardinality(low) # 0
    <3> HIDE DEF low
    <3> QED
      BY <2>2, <2>3, FS_EmptySet
  <2>5. Rank(t, U) = Cardinality(low)
    BY DEF Rank
  <2> HIDE DEF low
  <2> QED
    BY <1>2, <2>2, <2>4, <2>5
<1>4. r \in Nat /\ n \in Nat /\ r + ChunkSize <= n
  BY <1>1, <1>2, <1>3
<1>5. /\ q \in Nat /\ ChunkSize * q <= r
      /\ c \in Nat /\ n < ChunkSize * c + ChunkSize
  <2> HIDE DEF r, n
  <2> QED
    BY <1>1, <1>4, QuotientBounds
<1>6. ChunkCount(U) = c
  BY DEF ChunkCount
<1>7. \A j \in Nat : t \in Chunk(U, j) <=> q = j - 1
  BY DEF Chunk
<1> HIDE DEF q, c, r, n
<1>8. q + 1 <= c
  <2>1. ChunkSize * (q + 1) = ChunkSize * q + ChunkSize
    BY <1>1, <1>5
  <2>2. ChunkSize * q \in Nat /\ ChunkSize * c \in Nat /\ ChunkSize * (q + 1) \in Nat
    BY <1>1, <1>5
  <2>3. ChunkSize * (q + 1) < ChunkSize * c + ChunkSize
    BY <1>1, <1>4, <1>5, <2>1, <2>2
  <2>4. q + 1 \in Nat
    BY <1>5
  <2> QED
    BY <1>1, <1>5, <2>3, <2>4, FactorBelow
<1>9. q + 1 \in 1 .. ChunkCount(U) /\ \A j \in Nat : t \in Chunk(U, j) <=> j = q + 1
  BY <1>5, <1>6, <1>7, <1>8
<1> QED
  BY <1>9

\* A chunk has tokens of its universe only.
LEMMA ChunkWithin ==
    ASSUME NEW U, NEW i
    PROVE  Chunk(U, i) \subseteq U
  BY DEF Chunk

-----------------------------------------------------------------------------
(* The inductive invariant *)

BookMessages == [kind : {"book"}, token : Tokens, book : Book, version : 0 .. MaxChanges]
ChangeMessages ==
    [kind : {"price_change"}, token : Tokens, change : Change, version : 0 .. MaxChanges]
Messages == BookMessages \cup {m \in ChangeMessages : m.change.token = m.token}

Budgets == [{"changes", "breaks", "fetches", "updates"} -> Nat]

\* A book that was read over REST and is not seeded yet.
FetchType(f) ==
    /\ DOMAIN f.asks \subseteq Tokens
    /\ f.asks \in [DOMAIN f.asks -> Levels]
    /\ f.version \in [DOMAIN f.asks -> 0 .. MaxChanges]

\* Every change of a book was paid for; only a connection that is up is streamed on.
TypeInv ==
    /\ CacheTypeOK
    /\ book \in [Tokens -> Book] /\ version \in [Tokens -> Nat]
    /\ budget \in Budgets
    /\ \A t \in Tokens : version[t] + budget["changes"] <= MaxChanges
    /\ assets \in [Workers -> SUBSET Tokens]
    /\ link \in [Workers -> Links]
    /\ streamed \in [Workers -> SUBSET Tokens]
    /\ wire \in [Workers -> Seq(Messages)]
    /\ \A w \in Workers : link[w] # "up" => streamed[w] = {}
    /\ \A w \in Workers : link[w] \in {"none", "down"} => wire[w] = <<>>
    /\ universe \subseteq Tokens
    /\ position \in [Tokens -> 0 .. MaxChanges]
    /\ disturbed \subseteq Tokens /\ lost \subseteq Tokens
    /\ \A f \in fetches : FetchType(f)

\* What update_tokens has to do still when it has come to a worker: those in front have
\* their chunks of the new universe.
Updating ==
    /\ update.to \subseteq Tokens /\ universe \subseteq update.to
    /\ update.worker \in 1 .. ChunkCount(universe) + 1
    /\ \A w \in Workers : w < update.worker => assets[w] = Chunk(update.to, w)

\* Between its two halves a worker has its chunk.  What is to be sent subscribes some of
\* it and unsubscribes none, and makes of what is streamed what is assigned.
Sending ==
    /\ update.worker =< ChunkCount(universe)
    /\ assets[update.worker] = Chunk(update.to, update.worker)
    /\ update.added \in SUBSET assets[update.worker]
    /\ update.removed \in SUBSET (Tokens \ assets[update.worker])
    /\ link[update.worker] = "up" =>
           (streamed[update.worker] \cup update.added) \ update.removed
               = assets[update.worker]

UpdateInv ==
    /\ update.step \in {"idle", "failed", "assign", "send"}
    /\ update.step \in {"assign", "send"} => Updating
    /\ update.step = "send" => Sending

\* The workers are numbered without a gap, and have the chunks of the universe unless an
\* update was given up or is on its way.
WorkersInv ==
    /\ \A w \in Workers : Running(w) <=> w =< ChunkCount(universe)
    /\ update.step = "idle" =>
           \A w \in Workers : w =< ChunkCount(universe) => assets[w] = Chunk(universe, w)

FeedInv == TypeInv /\ UpdateInv /\ WorkersInv /\ SubscribedIsAssigned

-----------------------------------------------------------------------------
(* Types *)

\* No book changes more often than the bound says.
LEMMA VersionsBounded ==
    ASSUME TypeInv, NEW t \in Tokens
    PROVE  version[t] \in 0 .. MaxChanges
<1>1. version[t] \in Nat /\ version[t] + budget["changes"] <= MaxChanges
  BY DEF TypeInv
<1>2. budget["changes"] \in Nat /\ MaxChanges \in Nat
  BY FeedAssumption DEF TypeInv, Budgets
<1> QED
  BY <1>1, <1>2

\* One snapshot of each token, in some order.
LEMMA SnapshotsOf ==
    ASSUME TypeInv, NEW T \in SUBSET Tokens
    PROVE  /\ Snapshots(T) \in Seq(Messages)
           /\ \A i \in 1 .. Len(Snapshots(T)) : \E t \in T : Snapshots(T)[i] = Snapshot(t)
           /\ \A t \in T : \E i \in 1 .. Len(Snapshots(T)) : Snapshots(T)[i] = Snapshot(t)
<1> DEFINE s == SetToSeq(T)
<1>1. IsFiniteSet(T)
  BY FeedAssumption, FS_Subset
<1>2. /\ s \in Seq(T) /\ Len(s) \in Nat
      /\ \A t \in T : \E i \in 1 .. Len(s) : s[i] = t
  BY <1>1, InSomeOrder
<1>3. Snapshots(T) = [i \in DOMAIN s |-> Snapshot(s[i])]
  BY DEF Snapshots
<1> HIDE DEF s
<1>4. DOMAIN s = 1 .. Len(s) /\ \A i \in 1 .. Len(s) : s[i] \in T
  BY <1>2
<1>5. \A t \in T : Snapshot(t) \in Messages
  <2>1. ASSUME NEW t \in T PROVE Snapshot(t) \in BookMessages
    <3>1. book[t] \in Book /\ version[t] \in 0 .. MaxChanges /\ t \in Tokens
      BY FeedAssumption DEF TypeInv, Budgets
    <3> QED
      BY <3>1 DEF Snapshot, BookMessages
  <2> QED
    BY <2>1 DEF Messages
<1>6. /\ DOMAIN Snapshots(T) = 1 .. Len(s)
      /\ \A i \in 1 .. Len(s) : Snapshots(T)[i] = Snapshot(s[i])
  BY <1>3, <1>4
<1>7. Snapshots(T) \in Seq(Messages)
  <2>1. \A i \in 1 .. Len(s) : Snapshot(s[i]) \in Messages
    BY <1>4, <1>5
  <2> QED
    BY <1>2, <1>3, <1>4, <2>1
<1>8. Len(Snapshots(T)) = Len(s)
  BY <1>2, <1>6, <1>7
<1> QED
  BY <1>2, <1>4, <1>6, <1>7, <1>8

\* Spending leaves budgets.
LEMMA Spent ==
    ASSUME TypeInv, NEW what \in {"changes", "breaks", "fetches", "updates"}, Spend(what)
    PROVE  /\ budget' \in Budgets
           /\ what = "changes" => budget["changes"] > 0
                                  /\ budget'["changes"] = budget["changes"] - 1
           /\ what # "changes" => budget'["changes"] = budget["changes"]
<1>1. budget \in Budgets /\ budget[what] \in Nat /\ budget[what] > 0
  BY DEF TypeInv, Budgets, Spend
<1>2. budget' = [budget EXCEPT ![what] = budget[what] - 1]
  BY DEF Spend
<1> QED
  BY <1>1, <1>2 DEF Budgets

\* A change of one level of one side of one token's book.
LEMMA BookChangesTypes ==
    ASSUME TypeInv, NEW t \in Tokens, NEW s \in Sides, NEW p \in Prices, BookChanges(t, s, p)
    PROVE  TypeInv'
<1> DEFINE c == [token |-> t, side |-> s, price |-> p, listed |-> p \notin book[t][s]]
           message == [kind |-> "price_change", token |-> t, change |-> c,
                       version |-> version[t] + 1]
<1>1. /\ budget' \in Budgets /\ budget["changes"] > 0
      /\ budget'["changes"] = budget["changes"] - 1
  BY Spent DEF BookChanges
<1>2. version[t] \in Nat /\ budget["changes"] \in Nat /\ version[t] + 1 \in 0 .. MaxChanges
  <2>1. /\ version \in [Tokens -> Nat] /\ budget \in Budgets
        /\ version[t] + budget["changes"] <= MaxChanges
    BY DEF TypeInv
  <2>2. version[t] \in Nat /\ budget["changes"] \in Nat
    BY <2>1 DEF Budgets
  <2>3. MaxChanges \in Nat
    BY FeedAssumption
  <2> QED
    BY <1>1, <2>1, <2>2, <2>3
<1>3. c \in Change /\ c.token = t
  BY DEF Change
<1>4. message \in Messages
  <2> HIDE DEF c
  <2>1. message \in ChangeMessages /\ message.change = c /\ message.token = t
    BY <1>2, <1>3 DEF ChangeMessages
  <2> QED
    BY <1>3, <2>1 DEF Messages
<1>5. wire' \in [Workers -> Seq(Messages)]
      /\ \A w \in Workers : t \notin streamed[w] => wire'[w] = wire[w]
  <2>1. wire' = [w \in Workers |-> IF t \in streamed[w] THEN Append(wire[w], message)
                                                        ELSE wire[w]]
    BY DEF BookChanges
  <2>2. \A w \in Workers : Append(wire[w], message) \in Seq(Messages)
    <3> HIDE DEF message
    <3> QED
      BY <1>4, AppendProperties DEF TypeInv
  <2> HIDE DEF message
  <2> QED
    BY <2>1, <2>2 DEF TypeInv
<1>6. book' \in [Tokens -> Book]
  <2>1. WithChange(book[t][s], c) \in Levels
    BY DEF TypeInv, Book, WithChange, Levels
  <2>2. book' = [book EXCEPT ![t][s] = WithChange(book[t][s], c)]
    BY DEF BookChanges
  <2> HIDE DEF c
  <2> QED
    BY <2>1, <2>2 DEF TypeInv, Book
<1>7. /\ version' \in [Tokens -> Nat]
      /\ \A u \in Tokens : version'[u] + budget'["changes"] <= MaxChanges
  <2>1. version' = [version EXCEPT ![t] = version[t] + 1]
    BY DEF BookChanges
  <2>2. /\ version' \in [Tokens -> Nat]
        /\ \A u \in Tokens : version'[u] \in Nat /\ version'[u] <= version[u] + 1
    BY <1>2, <2>1 DEF TypeInv
  <2>3. \A u \in Tokens : version[u] \in Nat /\ version[u] + budget["changes"] <= MaxChanges
    BY DEF TypeInv
  <2>4. MaxChanges \in Nat
    BY FeedAssumption
  <2> QED
    BY <1>1, <1>2, <2>2, <2>3, <2>4
<1>8. \A w \in Workers : link[w] \in {"none", "down"} => wire'[w] = <<>>
  BY <1>5 DEF TypeInv
<1> HIDE DEF message, c
<1> QED
  BY <1>1, <1>5, <1>6, <1>7, <1>8
     DEF BookChanges, TypeInv, CacheTypeOK, cacheVars, managerVars, history

\* A connection breaks: what it carried last may be missing from its wire.
LEMMA BreakTypes ==
    ASSUME TypeInv, NEW w \in Workers, Break(w)
    PROVE  TypeInv'
<1>1. budget' \in Budgets /\ budget'["changes"] = budget["changes"]
  BY Spent DEF Break
<1>2. wire' \in [Workers -> Seq(Messages)]
      /\ \A v \in Workers : v # w => wire'[v] = wire[v]
  <2>1. PICK n \in 0 .. Len(wire[w]) : wire' = [wire EXCEPT ![w] = SubSeq(@, 1, n)]
    BY DEF Break
  <2>2. wire[w] \in Seq(Messages)
    BY DEF TypeInv
  <2>3. SubSeq(wire[w], 1, n) \in Seq(Messages)
    BY <2>2, SubSeqProperties
  <2> QED
    BY <2>1, <2>3 DEF TypeInv
<1>3. link' = [link EXCEPT ![w] = "broken"] /\ streamed' = [streamed EXCEPT ![w] = {}]
  BY DEF Break
<1>4. link' \in [Workers -> Links] /\ streamed' \in [Workers -> SUBSET Tokens]
  BY <1>3 DEF TypeInv, Links
<1>5. /\ \A v \in Workers : link'[v] # "up" => streamed'[v] = {}
      /\ \A v \in Workers : link'[v] \in {"none", "down"} => wire'[v] = <<>>
  BY <1>2, <1>3 DEF TypeInv
<1>6. lost' \subseteq Tokens
  BY DEF Break, TypeInv
<1> QED
  BY <1>1, <1>2, <1>4, <1>5, <1>6
     DEF Break, TypeInv, CacheTypeOK, cacheVars, exchangeVars, managerVars

\* A connection opens, with a snapshot of each token it subscribed.
LEMMA ConnectTypes ==
    ASSUME TypeInv, NEW w \in Workers, Connect(w)
    PROVE  TypeInv'
<1>1. /\ link' = [link EXCEPT ![w] = "up"] /\ streamed' = [streamed EXCEPT ![w] = assets[w]]
      /\ wire' = [wire EXCEPT ![w] = Snapshots(assets[w])]
  BY DEF Connect
<1>2. assets[w] \in SUBSET Tokens
  BY DEF TypeInv
<1>3. Snapshots(assets[w]) \in Seq(Messages)
  BY <1>2, SnapshotsOf
<1>4. /\ link' \in [Workers -> Links] /\ streamed' \in [Workers -> SUBSET Tokens]
      /\ wire' \in [Workers -> Seq(Messages)]
      /\ \A v \in Workers : link'[v] # "up" => streamed'[v] = {}
      /\ \A v \in Workers : link'[v] \in {"none", "down"} => wire'[v] = <<>>
  BY <1>1, <1>2, <1>3 DEF TypeInv, Links
<1> QED
  BY <1>4 DEF Connect, TypeInv, CacheTypeOK, cacheVars, exchangeVars, managerVars, history

\* run() takes one message off its wire and applies it to the cache.
LEMMA ReceiveTypes ==
    ASSUME TypeInv, NEW w \in Workers, Receive(w)
    PROVE  TypeInv'
<1> DEFINE m == Head(wire[w])
<1>1. /\ wire[w] \in Seq(Messages) /\ wire[w] # <<>>
      /\ wire' = [wire EXCEPT ![w] = Tail(wire[w])]
  BY DEF TypeInv, Receive
<1>2. m \in Messages /\ Tail(wire[w]) \in Seq(Messages)
  BY <1>1
<1>3. /\ wire' \in [Workers -> Seq(Messages)]
      /\ \A v \in Workers : link[v] \in {"none", "down"} => wire'[v] = <<>>
  BY <1>1, <1>2 DEF TypeInv, Receive
<1>4. m.token \in Tokens /\ m.version \in 0 .. MaxChanges
  BY <1>2 DEF Messages, BookMessages, ChangeMessages
<1>5. position' \in [Tokens -> 0 .. MaxChanges]
  BY <1>4 DEF Receive, ReceiveBook, Vouch, ReceivePriceChange, TypeInv
<1>6. disturbed' \subseteq Tokens /\ lost' \subseteq Tokens
  BY <1>4 DEF Receive, ReceiveBook, Vouch, ReceivePriceChange, TypeInv
<1>7. CacheTypeOK'
  <2>1. CASE ReceiveBook(w)
    <3>1. m.book \in Book
      BY <1>2, <2>1 DEF ReceiveBook, Messages, BookMessages, ChangeMessages
    <3>2. /\ books' = [books EXCEPT ![m.token] = m.book]
          /\ ready' = ready \cup {m.token}
      BY <2>1 DEF ReceiveBook, ApplyBookSnapshot
    <3> HIDE DEF m
    <3> QED
      BY <1>4, <3>1, <3>2 DEF TypeInv, CacheTypeOK, Book
  <2>2. CASE ReceivePriceChange(w)
    <3> DEFINE c == m.change
    <3>1. c \in Change /\ c.token = m.token
      BY <1>2, <2>2 DEF ReceivePriceChange, Messages, BookMessages, ChangeMessages
    <3>2. ready' = ready /\ books' = IF AppliesTo(c)
                THEN [books EXCEPT ![c.token][c.side] = WithChange(books[c.token][c.side], c)]
                ELSE books
      BY <2>2 DEF ReceivePriceChange, ApplyPriceChange
    <3> HIDE DEF m, c
    <3>3. c.token \in Tokens /\ c.side \in Sides /\ c.price \in Prices
      BY <3>1 DEF Change
    <3>4. AppliesTo(c) => WithChange(books[c.token][c.side], c) \in Levels
      BY <3>3 DEF AppliesTo, WithChange, TypeInv, CacheTypeOK, Levels
    <3> QED
      BY <3>2, <3>3, <3>4 DEF TypeInv, CacheTypeOK
  <2> QED
    BY <2>1, <2>2 DEF Receive
<1> HIDE DEF m
<1> QED
  BY <1>3, <1>5, <1>6, <1>7 DEF Receive, TypeInv, exchangeVars, managerVars

\* run() leaves its loop and marks the worker's tokens stale.
LEMMA ConnectionLostTypes ==
    ASSUME TypeInv, NEW w \in Workers, ConnectionLost(w)
    PROVE  TypeInv'
<1>1. link' = [link EXCEPT ![w] = "down"] /\ link[w] = "broken" /\ wire[w] = <<>>
  BY DEF ConnectionLost
<1>2. /\ link' \in [Workers -> Links]
      /\ \A v \in Workers : link'[v] # "up" => streamed[v] = {}
      /\ \A v \in Workers : link'[v] \in {"none", "down"} => wire[v] = <<>>
  BY <1>1 DEF TypeInv, Links
<1>3. CacheTypeOK'
  BY DEF ConnectionLost, MarkTokensStale, TypeInv, CacheTypeOK
<1> QED
  BY <1>2, <1>3 DEF ConnectionLost, TypeInv, exchangeVars, managerVars, history

\* A market refresh comes to the manager.
LEMMA StartUpdateTypes ==
    ASSUME TypeInv, NEW found \in Universes, StartUpdate(found)
    PROVE  TypeInv'
<1>1. budget' \in Budgets /\ budget'["changes"] = budget["changes"]
  BY Spent DEF StartUpdate
<1> QED
  BY <1>1 DEF StartUpdate, TypeInv, CacheTypeOK, cacheVars, exchangeVars, workerVars, history

\* A worker is given its chunk.
LEMMA AssignTypes ==
    ASSUME TypeInv, UpdateInv, NEW w \in Workers, AssignTokens(w)
    PROVE  TypeInv'
<1>1. Chunk(update.to, w) \in SUBSET Tokens
  BY ChunkWithin DEF AssignTokens, UpdateInv, Updating
<1>2. assets' \in [Workers -> SUBSET Tokens]
  BY <1>1 DEF AssignTokens, TypeInv
<1> QED
  BY <1>2 DEF AssignTokens, TypeInv, CacheTypeOK, cacheVars, exchangeVars, history

\* A worker sends what changed, if it has a socket.
LEMMA SendTypes ==
    ASSUME TypeInv, UpdateInv, NEW w \in Workers, SendUpdates(w)
    PROVE  TypeInv'
<1>1. update.added \in SUBSET Tokens
  BY DEF SendUpdates, UpdateInv, Sending, TypeInv
<1>2. CASE link[w] = "up"
  <2>1. Snapshots(update.added) \in Seq(Messages)
    BY <1>1, SnapshotsOf
  <2>2. wire[w] \o Snapshots(update.added) \in Seq(Messages)
    BY <2>1, ConcatProperties DEF TypeInv
  <2>3. /\ wire' = [wire EXCEPT ![w] = wire[w] \o Snapshots(update.added)]
        /\ streamed' = [streamed EXCEPT ![w] = (streamed[w] \cup update.added)
                                                  \ update.removed]
    BY <1>2 DEF SendUpdates
  <2>4. /\ wire' \in [Workers -> Seq(Messages)]
        /\ streamed' \in [Workers -> SUBSET Tokens]
        /\ \A v \in Workers : link[v] # "up" => streamed'[v] = {}
        /\ \A v \in Workers : link[v] \in {"none", "down"} => wire'[v] = <<>>
    BY <1>1, <1>2, <2>2, <2>3 DEF TypeInv
  <2> QED
    BY <2>4 DEF SendUpdates, TypeInv, CacheTypeOK, cacheVars, exchangeVars, history
<1>3. CASE link[w] # "up"
  BY <1>3 DEF SendUpdates, TypeInv, CacheTypeOK, cacheVars, exchangeVars, history
<1> QED
  BY <1>2, <1>3

\* Sending fails: only the update is given up.
LEMMA SendFailsTypes ==
    ASSUME TypeInv, NEW w \in Workers, SendFails(w)
    PROVE  TypeInv'
  BY DEF SendFails, TypeInv, CacheTypeOK, cacheVars, exchangeVars, workerVars, history

\* The workers are those there were, one for each chunk of the universe; none is missing
\* from the count.
LEMMA RunningWorkers ==
    ASSUME TypeInv, WorkersInv
    PROVE  /\ ChunkCount(universe) \in Nat
           /\ ChunkCount(universe) <= ChunkCount(Tokens)
           /\ WorkerCount = ChunkCount(universe)
           /\ {w \in Workers : Running(w)} = 1 .. ChunkCount(universe)
<1>1. /\ ChunkCount(universe) \in Nat /\ ChunkCount(Tokens) \in Nat
      /\ ChunkCount(universe) <= ChunkCount(Tokens)
  BY ChunkCounts DEF TypeInv
<1>2. {w \in Workers : Running(w)} = 1 .. ChunkCount(universe)
  BY <1>1 DEF WorkersInv, Workers
<1>3. Cardinality(1 .. ChunkCount(universe)) = ChunkCount(universe)
  BY <1>1, FS_Interval
<1> QED
  BY <1>1, <1>2, <1>3 DEF WorkerCount

\* The manager makes a worker for each chunk that has none.
LEMMA AddWorkersTypes ==
    ASSUME TypeInv, UpdateInv, WorkersInv, AddWorkers
    PROVE  TypeInv'
<1> DEFINE new == WorkerCount + 1 .. ChunkCount(update.to)
<1>1. /\ update.to \in SUBSET Tokens
      /\ \A w \in Workers : Chunk(update.to, w) \in SUBSET Tokens
  BY ChunkWithin DEF AddWorkers, UpdateInv, Updating
<1>2. /\ assets' = [w \in Workers |-> IF w \in new THEN Chunk(update.to, w) ELSE assets[w]]
      /\ link' = [w \in Workers |-> IF w \in new THEN "down" ELSE link[w]]
      /\ universe' = update.to
  BY DEF AddWorkers
<1>3. \A w \in Workers : w \in new => link[w] = "none"
  BY RunningWorkers DEF Running, WorkersInv, Workers
<1> HIDE DEF new
<1>4. assets' \in [Workers -> SUBSET Tokens]
  BY <1>1, <1>2 DEF TypeInv
<1>5. /\ link' \in [Workers -> Links]
      /\ \A w \in Workers : link'[w] # "up" => streamed[w] = {}
      /\ \A w \in Workers : link'[w] \in {"none", "down"} => wire[w] = <<>>
  BY <1>2, <1>3 DEF TypeInv, Links
<1>6. universe' \subseteq Tokens
  BY <1>1, <1>2
<1> QED
  BY <1>4, <1>5, <1>6 DEF AddWorkers, TypeInv, CacheTypeOK, cacheVars, exchangeVars, history

\* A read brings each token the ask side of its own book, as it is at that moment.
LEMMA ReadBrings ==
    ASSUME NEW r \in Reads
    PROVE  /\ r.alone \subseteq DOMAIN r.read /\ DOMAIN r.read \subseteq Tokens
           /\ \A t \in DOMAIN r.read : r.read[t] = t
<1>1. PICK T \in SUBSET Tokens :
          \E rows \in Answers(SetToSeq(T)), alone \in SUBSET T :
              r = [asked |-> T, alone |-> alone,
                   read |-> FetchAskBooks(SetToSeq(T), rows, alone)]
  BY DEF Reads
<1>2. PICK rows \in Answers(SetToSeq(T)), alone \in SUBSET T :
          r = [asked |-> T, alone |-> alone,
               read |-> FetchAskBooks(SetToSeq(T), rows, alone)]
  BY <1>1
<1>3. IsFiniteSet(T)
  BY FeedAssumption, FS_Subset
<1>4. r.alone = alone /\ r.read = FetchAskBooks(SetToSeq(T), rows, alone)
  BY <1>2
<1> QED
  BY <1>3, <1>4, ChunkReadsOwn

\* A REST read files the ask sides of the moment.
LEMMA RestReadTypes ==
    ASSUME TypeInv, UpdateInv, NEW r \in Reads, RestRead(r)
    PROVE  TypeInv'
<1> DEFINE asks == [t \in DOMAIN r.read |-> book[r.read[t]]["ask"]]
           of == [t \in DOMAIN r.read |-> version[r.read[t]]]
           f == [asks |-> asks, version |-> of]
<1>1. budget' \in Budgets /\ budget'["changes"] = budget["changes"]
  BY Spent DEF RestRead
<1>2. DOMAIN r.read \subseteq Tokens /\ \A t \in DOMAIN r.read : r.read[t] = t
  BY ReadBrings DEF RestRead
<1>3. /\ asks \in [DOMAIN r.read -> Levels] /\ DOMAIN asks = DOMAIN r.read
      /\ of \in [DOMAIN r.read -> 0 .. MaxChanges]
  <2>1. \A t \in Tokens : book[t]["ask"] \in Levels
    BY DEF TypeInv, Book, Sides
  <2>2. \A t \in Tokens : version[t] \in 0 .. MaxChanges
    BY VersionsBounded
  <2> QED
    BY <1>2, <2>1, <2>2
<1>4. fetches' \subseteq fetches \cup {f}
  BY DEF RestRead
<1>5. FetchType(f)
  <2> HIDE DEF asks, of
  <2> QED
    BY <1>2, <1>3 DEF FetchType
<1> HIDE DEF f
<1>6. \A g \in fetches' : FetchType(g)
  BY <1>4, <1>5 DEF TypeInv
<1> QED
  BY <1>1, <1>6
     DEF RestRead, TypeInv, CacheTypeOK, cacheVars, exchangeVars, workerVars, managerVars,
         history

\* A REST read is seeded into the cache.
LEMMA SeedTypes ==
    ASSUME TypeInv, NEW f \in fetches, Seed(f)
    PROVE  TypeInv'
<1>1. FetchType(f)
  BY DEF TypeInv
<1>2. CacheTypeOK'
  <2>1. \A t \in Tokens : t \in DOMAIN f.asks => f.asks[t] \in Levels
    BY <1>1 DEF FetchType
  <2>2. books \in [Tokens -> [Sides -> Levels \cup {NoBook}]]
    BY DEF TypeInv, CacheTypeOK
  <2>3. books' = [t \in Tokens |-> IF t \in DOMAIN f.asks
                                   THEN [books[t] EXCEPT !["ask"] = f.asks[t]]
                                   ELSE books[t]]
    BY DEF Seed, SeedAskBooks
  <2>4. books' \in [Tokens -> [Sides -> Levels \cup {NoBook}]]
    BY <2>1, <2>2, <2>3
  <2>5. ready' \subseteq Tokens
    BY <1>1 DEF Seed, SeedAskBooks, TypeInv, CacheTypeOK, FetchType
  <2> QED
    BY <2>4, <2>5 DEF CacheTypeOK
<1>3. disturbed' \subseteq Tokens /\ lost' \subseteq Tokens
  BY <1>1 DEF Seed, TypeInv, FetchType
<1>4. \A g \in fetches' : FetchType(g)
  BY DEF Seed, TypeInv
<1> QED
  BY <1>2, <1>3, <1>4 DEF Seed, TypeInv, exchangeVars, workerVars, managerVars

-----------------------------------------------------------------------------
(* The manager and its workers *)

\* What the manager's part of the invariant reads.
Managed == <<assets, link, streamed, universe, update>>

\* What leaves the managed variables alone leaves the manager's invariant alone.
LEMMA ManagedUnchanged ==
    ASSUME FeedInv, UNCHANGED Managed
    PROVE  UpdateInv' /\ WorkersInv' /\ SubscribedIsAssigned'
  BY DEF FeedInv, UpdateInv, Updating, Sending, WorkersInv, SubscribedIsAssigned, Running,
         Managed

\* A broken connection streams nothing, and its worker has the tokens it had.
LEMMA BreakManaged ==
    ASSUME FeedInv, NEW w \in Workers, Break(w)
    PROVE  UpdateInv' /\ WorkersInv' /\ SubscribedIsAssigned'
<1>1. /\ link' = [link EXCEPT ![w] = "broken"] /\ link[w] = "up"
      /\ streamed' = [streamed EXCEPT ![w] = {}]
      /\ UNCHANGED <<assets, universe, update>>
  BY DEF Break, managerVars
<1>2. link \in [Workers -> Links] /\ streamed \in [Workers -> SUBSET Tokens]
  BY DEF FeedInv, TypeInv
<1>3. \A v \in Workers : link'[v] = "up" => link[v] = "up" /\ streamed'[v] = streamed[v]
  BY <1>1, <1>2
<1>4. \A v \in Workers : Running(v)' <=> Running(v)
  BY <1>1, <1>2 DEF Running
<1>5. UpdateInv'
  <2>1. update.step = "send" => update.worker \in Workers
    BY ChunkCounts DEF FeedInv, TypeInv, UpdateInv, Updating, Sending, Workers
  <2> QED
    BY <1>1, <1>3, <2>1 DEF FeedInv, UpdateInv, Updating, Sending
<1>6. WorkersInv'
  BY <1>1, <1>4 DEF FeedInv, WorkersInv
<1>7. SubscribedIsAssigned'
  BY <1>1, <1>3 DEF FeedInv, SubscribedIsAssigned
<1> QED
  BY <1>5, <1>6, <1>7

\* A worker between connections has the tokens it had.
LEMMA ConnectionLostManaged ==
    ASSUME FeedInv, NEW w \in Workers, ConnectionLost(w)
    PROVE  UpdateInv' /\ WorkersInv' /\ SubscribedIsAssigned'
<1>1. /\ link' = [link EXCEPT ![w] = "down"] /\ link[w] = "broken"
      /\ UNCHANGED <<assets, streamed, universe, update>>
  BY DEF ConnectionLost, managerVars
<1>2. link \in [Workers -> Links]
  BY DEF FeedInv, TypeInv
<1>3. \A v \in Workers : link'[v] = "up" => link[v] = "up"
  BY <1>1, <1>2
<1>4. \A v \in Workers : Running(v)' <=> Running(v)
  BY <1>1, <1>2 DEF Running
<1>5. UpdateInv'
  <2>1. update.step = "send" => update.worker \in Workers
    BY ChunkCounts DEF FeedInv, TypeInv, UpdateInv, Updating, Sending, Workers
  <2> QED
    BY <1>1, <1>3, <2>1 DEF FeedInv, UpdateInv, Updating, Sending
<1>6. WorkersInv'
  BY <1>1, <1>4 DEF FeedInv, WorkersInv
<1>7. SubscribedIsAssigned'
  BY <1>1, <1>3 DEF FeedInv, SubscribedIsAssigned
<1> QED
  BY <1>5, <1>6, <1>7

\* A worker that connects while an update has assigned it tokens subscribes those: what
\* is sent afterwards adds what it has, and removes what it has not.
LEMMA ConnectManaged ==
    ASSUME FeedInv, NEW w \in Workers, Connect(w)
    PROVE  UpdateInv' /\ WorkersInv' /\ SubscribedIsAssigned'
<1>1. /\ link' = [link EXCEPT ![w] = "up"] /\ link[w] = "down"
      /\ streamed' = [streamed EXCEPT ![w] = assets[w]]
      /\ UNCHANGED <<assets, universe, update>>
  BY DEF Connect, managerVars
<1>2. link \in [Workers -> Links] /\ streamed \in [Workers -> SUBSET Tokens]
  BY DEF FeedInv, TypeInv
<1>3. \A v \in Workers : Running(v)' <=> Running(v)
  BY <1>1, <1>2 DEF Running
<1>4. UpdateInv'
  <2>1. CASE update.step = "send"
    <3>1. update.worker \in Workers
      BY <2>1, ChunkCounts DEF FeedInv, TypeInv, UpdateInv, Updating, Sending, Workers
    <3>2. CASE update.worker = w
      <4>1. (assets[w] \cup update.added) \ update.removed = assets[w]
        BY <2>1, <3>2 DEF FeedInv, UpdateInv, Sending
      <4> QED
        BY <1>1, <1>2, <2>1, <3>1, <3>2, <4>1 DEF FeedInv, UpdateInv, Updating, Sending
    <3>3. CASE update.worker # w
      BY <1>1, <1>2, <2>1, <3>1, <3>3 DEF FeedInv, UpdateInv, Updating, Sending
    <3> QED
      BY <3>2, <3>3
  <2>2. CASE update.step # "send"
    BY <1>1, <2>2 DEF FeedInv, UpdateInv, Updating
  <2> QED
    BY <2>1, <2>2
<1>5. WorkersInv'
  BY <1>1, <1>3 DEF FeedInv, WorkersInv
<1>6. SubscribedIsAssigned'
  BY <1>1, <1>2 DEF FeedInv, SubscribedIsAssigned
<1> QED
  BY <1>4, <1>5, <1>6

\* The universe that is handed to the manager keeps the tokens there were.
LEMMA StartUpdateManaged ==
    ASSUME FeedInv, NEW found \in Universes, StartUpdate(found)
    PROVE  UpdateInv' /\ WorkersInv' /\ SubscribedIsAssigned'
<1>1. /\ update' = [step |-> "assign", to |-> universe \cup found, worker |-> 1]
      /\ UNCHANGED <<assets, link, streamed, universe>>
      /\ update.step # "send"
  BY DEF StartUpdate, workerVars, AtRest
<1>2. universe \cup found \subseteq Tokens
  BY FeedAssumption DEF FeedInv, TypeInv
<1>3. UpdateInv'
  <2>1. 1 \in 1 .. ChunkCount(universe) + 1 /\ \A v \in Workers : ~ (v < 1)
    BY ChunkCounts DEF FeedInv, TypeInv, Workers
  <2>2. /\ update'.step = "assign" /\ update'.to = universe \cup found
        /\ update'.worker = 1
    BY <1>1
  <2>3. Updating'
    BY <1>1, <1>2, <2>1, <2>2 DEF Updating
  <2> QED
    BY <2>2, <2>3 DEF UpdateInv
<1>4. WorkersInv'
  BY <1>1 DEF FeedInv, WorkersInv, Running
<1>5. SubscribedIsAssigned'
  BY <1>1 DEF FeedInv, SubscribedIsAssigned
<1> QED
  BY <1>3, <1>4, <1>5

\* A worker gets its chunk of the new universe.
LEMMA AssignManaged ==
    ASSUME FeedInv, NEW w \in Workers, AssignTokens(w)
    PROVE  UpdateInv' /\ WorkersInv' /\ SubscribedIsAssigned'
<1> DEFINE new == Chunk(update.to, w)
<1>1. /\ update.step = "assign" /\ update.worker = w /\ w \in SharedWorkers
      /\ assets' = [assets EXCEPT ![w] = new]
      /\ update' = [step |-> "send", to |-> update.to, worker |-> w,
                    added |-> new \ assets[w], removed |-> assets[w] \ new]
      /\ UNCHANGED <<link, streamed, universe>>
  BY DEF AssignTokens
<1>2. assets \in [Workers -> SUBSET Tokens] /\ new \in SUBSET Tokens /\ Updating
  BY <1>1, ChunkWithin DEF FeedInv, TypeInv, UpdateInv, Updating
<1>3. Running(w) /\ w =< ChunkCount(universe) /\ w \in Nat /\ ChunkCount(universe) \in Nat
  BY <1>1, ChunkCounts DEF SharedWorkers, FeedInv, TypeInv, WorkersInv, Workers
<1>4. /\ update'.step = "send" /\ update'.to = update.to /\ update'.worker = w
      /\ update'.added = new \ assets[w] /\ update'.removed = assets[w] \ new
  BY <1>1
<1>5. assets'[w] = new /\ \A v \in Workers : v # w => assets'[v] = assets[v]
  BY <1>1, <1>2
<1>6. link[w] = "up" => streamed[w] = assets[w]
  BY <1>1 DEF FeedInv, SubscribedIsAssigned
<1> HIDE DEF new
<1>7. Updating'
  BY <1>1, <1>2, <1>4, <1>5 DEF Updating, Workers
<1>8. Sending'
  <2>1. assets'[w] = Chunk(update.to, w)
    BY <1>5 DEF new
  <2> QED
    BY <1>1, <1>2, <1>3, <1>4, <1>5, <1>6, <2>1 DEF Sending
<1>9. UpdateInv'
  BY <1>4, <1>7, <1>8 DEF UpdateInv
<1>10. WorkersInv'
  BY <1>1, <1>4 DEF FeedInv, WorkersInv, Running
<1>11. SubscribedIsAssigned'
  BY <1>1, <1>4, <1>5 DEF FeedInv, SubscribedIsAssigned
<1> QED
  BY <1>9, <1>10, <1>11

\* What is streamed becomes what is assigned, and the next worker is due.
LEMMA SendManaged ==
    ASSUME FeedInv, NEW w \in Workers, SendUpdates(w)
    PROVE  UpdateInv' /\ WorkersInv' /\ SubscribedIsAssigned'
<1>1. /\ update.step = "send" /\ update.worker = w /\ update' = NextWorker(w)
      /\ UNCHANGED <<assets, link, universe>>
  BY DEF SendUpdates
<1>2. Updating /\ Sending
  BY <1>1 DEF FeedInv, UpdateInv
<1>3. update'.step = "assign" /\ update'.to = update.to /\ update'.worker = w + 1
  BY <1>1 DEF NextWorker
<1>4. /\ streamed \in [Workers -> SUBSET Tokens] /\ assets \in [Workers -> SUBSET Tokens]
      /\ ChunkCount(universe) \in Nat /\ w \in Nat \ {0}
  BY ChunkCounts DEF FeedInv, TypeInv, Workers
<1>5. UpdateInv'
  <2>1. w + 1 \in 1 .. ChunkCount(universe) + 1
    BY <1>1, <1>2, <1>4 DEF Sending
  <2>2. \A v \in Workers : v < w + 1 => assets[v] = Chunk(update.to, v)
    BY <1>1, <1>2, <1>4 DEF Sending, Updating, Workers
  <2>3. Updating'
    BY <1>1, <1>2, <1>3, <2>1, <2>2 DEF Updating
  <2> QED
    BY <1>3, <2>3 DEF UpdateInv
<1>6. WorkersInv'
  BY <1>1, <1>3 DEF FeedInv, WorkersInv, Running
<1>7. /\ link[w] = "up" => streamed'[w] = (streamed[w] \cup update.added) \ update.removed
      /\ \A v \in Workers : v # w => streamed'[v] = streamed[v]
  BY <1>4 DEF SendUpdates
<1>8. SubscribedIsAssigned'
  <2>1. link[w] = "up" => streamed'[w] = assets[w]
    BY <1>1, <1>2, <1>7 DEF Sending
  <2>2. \A v \in Workers : v # w /\ link[v] = "up" => streamed[v] = assets[v]
    BY <1>1 DEF FeedInv, SubscribedIsAssigned
  <2> QED
    BY <1>1, <1>7, <2>1, <2>2 DEF SubscribedIsAssigned
<1> QED
  BY <1>5, <1>6, <1>8

\* Giving up leaves the universe as it was; no connection is up that was to be sent to.
LEMMA SendFailsManaged ==
    ASSUME FeedInv, NEW w \in Workers, SendFails(w)
    PROVE  UpdateInv' /\ WorkersInv' /\ SubscribedIsAssigned'
<1>1. /\ update.step = "send" /\ update.worker = w /\ link[w] = "broken"
      /\ update'.step = "failed"
      /\ UNCHANGED <<assets, link, streamed, universe>>
  BY DEF SendFails, workerVars
<1> QED
  BY <1>1 DEF FeedInv, UpdateInv, WorkersInv, Running, SubscribedIsAssigned

\* All workers there were have their chunks; the new ones take the rest.
LEMMA AddWorkersManaged ==
    ASSUME FeedInv, AddWorkers
    PROVE  UpdateInv' /\ WorkersInv' /\ SubscribedIsAssigned'
<1> DEFINE k == ChunkCount(universe)
           n == ChunkCount(update.to)
<1>1. /\ assets' = [w \in Workers |-> IF w \in WorkerCount + 1 .. n
                                      THEN Chunk(update.to, w) ELSE assets[w]]
      /\ link' = [w \in Workers |-> IF w \in WorkerCount + 1 .. n THEN "down" ELSE link[w]]
      /\ update.step = "assign" /\ update.worker \notin SharedWorkers
      /\ universe' = update.to /\ update' = Idle /\ UNCHANGED streamed
  BY DEF AddWorkers
<1>2. Updating
  BY <1>1 DEF FeedInv, UpdateInv
<1>3. /\ k \in Nat /\ n \in Nat /\ k <= n /\ n <= ChunkCount(Tokens)
      /\ ChunkCount(Tokens) \in Nat
  BY <1>2, ChunkCounts DEF Updating
<1>4. WorkerCount = k /\ {w \in Workers : Running(w)} = 1 .. k
  BY RunningWorkers DEF FeedInv
<1>5. update.worker = k + 1
  <2>1. SharedWorkers = 1 .. k
    BY <1>3, <1>4 DEF SharedWorkers, Workers
  <2> QED
    BY <1>1, <1>2, <1>3, <2>1 DEF Updating
<1> HIDE DEF k, n
<1>6. \A w \in Workers : w =< k => assets[w] = Chunk(update.to, w)
  BY <1>2, <1>3, <1>5 DEF Updating, Workers
<1>7. \A w \in Workers : w =< n => assets'[w] = Chunk(update.to, w)
  BY <1>1, <1>3, <1>4, <1>6 DEF Workers
<1>8. ASSUME NEW w \in Workers
      PROVE  Running(w)' <=> w =< n
  <2>1. w \in Nat /\ w >= 1
    BY DEF Workers
  <2>2. Running(w) <=> w =< k
    BY <1>4, <2>1
  <2>3. CASE w \in k + 1 .. n
    BY <1>1, <1>3, <1>4, <2>1, <2>3 DEF Running
  <2>4. CASE w \notin k + 1 .. n
    <3>1. link'[w] = link[w]
      BY <1>1, <1>4, <2>4
    <3> QED
      BY <1>3, <2>1, <2>2, <2>4, <3>1 DEF Running
  <2> QED
    BY <2>3, <2>4
<1>9. update'.step = "idle"
  BY <1>1 DEF Idle
<1>10. WorkersInv'
  <2>1. ChunkCount(universe)' = n
    BY <1>1 DEF n
  <2> QED
    BY <1>1, <1>7, <1>8, <2>1 DEF WorkersInv
<1>11. UpdateInv'
  BY <1>9 DEF UpdateInv
<1>12. SubscribedIsAssigned'
  <2>1. ASSUME NEW w \in Workers, link'[w] = "up"
        PROVE  assets'[w] = assets[w] /\ link[w] = "up"
    BY <1>1, <2>1
  <2> QED
    BY <1>1, <2>1 DEF FeedInv, SubscribedIsAssigned
<1> QED
  BY <1>10, <1>11, <1>12

-----------------------------------------------------------------------------
(* Theorems *)

\* At the start there is one worker for each chunk, and nothing has been sent.
LEMMA FeedInitially ==
    ASSUME Init
    PROVE  FeedInv
<1>1. universe \in SUBSET Tokens
  BY FeedAssumption DEF Init
<1>2. \A w \in Workers : Chunk(universe, w) \in SUBSET Tokens
  BY <1>1, ChunkWithin
<1>3. CacheTypeOK
  BY DEF Init, CacheInit, CacheTypeOK, NothingCached
<1>4. /\ budget \in Budgets /\ budget["changes"] = MaxChanges /\ MaxChanges \in Nat
  BY FeedAssumption DEF Init, Budgets
<1>5. book \in [Tokens -> Book]
  BY DEF Init, Book, Levels
<1>6. /\ assets \in [Workers -> SUBSET Tokens] /\ link \in [Workers -> Links]
      /\ streamed \in [Workers -> SUBSET Tokens] /\ wire \in [Workers -> Seq(Messages)]
  BY <1>2 DEF Init, Links
<1>7. /\ \A w \in Workers : link[w] # "up" /\ streamed[w] = {} /\ wire[w] = <<>>
      /\ \A w \in Workers : Running(w) <=> w =< ChunkCount(universe)
  BY DEF Init, Running
<1>8. TypeInv
  <2>1. version \in [Tokens -> Nat] /\ \A t \in Tokens : version[t] = 0
    BY DEF Init
  <2>2. position \in [Tokens -> 0 .. MaxChanges]
    BY <1>4 DEF Init
  <2>3. \A t \in Tokens : version[t] + budget["changes"] <= MaxChanges
    <3> TAKE t \in Tokens
    <3>1. version[t] = 0
      BY <2>1
    <3>2. budget["changes"] = MaxChanges /\ MaxChanges \in Nat
      BY <1>4
    <3>3. 0 + MaxChanges <= MaxChanges
      BY <3>2
    <3> QED
      BY <3>1, <3>2, <3>3
  <2>4. disturbed \subseteq Tokens /\ lost \subseteq Tokens /\ fetches = {}
    BY DEF Init
  <2> QED
    BY <1>1, <1>3, <1>4, <1>5, <1>6, <1>7, <2>1, <2>2, <2>3, <2>4 DEF TypeInv
<1>9. UpdateInv
  BY DEF Init, Idle, UpdateInv
<1>10. WorkersInv
  BY <1>7 DEF Init, WorkersInv
<1>11. SubscribedIsAssigned
  BY <1>7 DEF SubscribedIsAssigned
<1> QED
  BY <1>8, <1>9, <1>10, <1>11 DEF FeedInv

\* Every step keeps the invariant.
LEMMA FeedStep ==
    ASSUME FeedInv, [Next]_vars
    PROVE  FeedInv'
<1> USE DEF FeedInv
<1>1. CASE Exhausted \/ UNCHANGED vars
  <2>1. UNCHANGED vars
    BY <1>1 DEF Exhausted
  <2>2. UNCHANGED Managed
    BY <2>1 DEF vars, Managed, workerVars, managerVars
  <2>3. TypeInv'
    BY <2>1 DEF vars, TypeInv, CacheTypeOK, cacheVars, exchangeVars, workerVars,
                managerVars, history
  <2> QED
    BY <2>2, <2>3, ManagedUnchanged
<1>2. CASE \E t \in Tokens, s \in Sides, p \in Prices : BookChanges(t, s, p)
  <2>1. UNCHANGED Managed
    BY <1>2 DEF BookChanges, Managed, managerVars
  <2> QED
    BY <1>2, <2>1, BookChangesTypes, ManagedUnchanged
<1>3. ASSUME NEW w \in Workers, Break(w) PROVE FeedInv'
  BY <1>3, BreakTypes, BreakManaged
<1>4. ASSUME NEW w \in Workers, Connect(w) PROVE FeedInv'
  BY <1>4, ConnectTypes, ConnectManaged
<1>5. ASSUME NEW w \in Workers, Receive(w) PROVE FeedInv'
  <2>1. UNCHANGED Managed
    BY <1>5 DEF Receive, Managed, managerVars
  <2> QED
    BY <1>5, <2>1, ReceiveTypes, ManagedUnchanged
<1>6. ASSUME NEW w \in Workers, ConnectionLost(w) PROVE FeedInv'
  BY <1>6, ConnectionLostTypes, ConnectionLostManaged
<1>7. ASSUME NEW w \in Workers, AssignTokens(w) PROVE FeedInv'
  BY <1>7, AssignTypes, AssignManaged
<1>8. ASSUME NEW w \in Workers, SendUpdates(w) PROVE FeedInv'
  BY <1>8, SendTypes, SendManaged
<1>9. ASSUME NEW w \in Workers, SendFails(w) PROVE FeedInv'
  BY <1>9, SendFailsTypes, SendFailsManaged
<1>10. CASE \E found \in Universes : StartUpdate(found)
  BY <1>10, StartUpdateTypes, StartUpdateManaged
<1>11. CASE AddWorkers
  BY <1>11, AddWorkersTypes, AddWorkersManaged
<1>12. ASSUME NEW r \in Reads, RestRead(r) PROVE FeedInv'
  <2>1. UNCHANGED Managed
    BY <1>12 DEF RestRead, Managed, workerVars, managerVars
  <2> QED
    BY <1>12, <2>1, RestReadTypes, ManagedUnchanged
<1>13. ASSUME NEW f \in fetches, Seed(f) PROVE FeedInv'
  <2>1. UNCHANGED Managed
    BY <1>13 DEF Seed, Managed, workerVars, managerVars
  <2> QED
    BY <1>13, <2>1, SeedTypes, ManagedUnchanged
<1> QED
  BY <1>1, <1>2, <1>3, <1>4, <1>5, <1>6, <1>7, <1>8, <1>9, <1>10, <1>11, <1>12, <1>13
     DEF Next

\* The inductive invariant holds in every behaviour.
LEMMA FeedInvariant == Spec => []FeedInv
BY FeedInitially, FeedStep, PTL DEF Spec

\* Each variable has its type, and no message waits on a connection that is down, for any
\* number of tokens and connections (_MarketWebSocketWorker.run, update_tokens).
THEOREM FeedTypeCorrect == Spec => []TypeOK
<1>1. FeedInv => TypeOK
  <2> SUFFICES ASSUME FeedInv PROVE TypeOK
    OBVIOUS
  <2>1. version \in [Tokens -> 0 .. MaxChanges]
    BY VersionsBounded DEF FeedInv, TypeInv
  <2>2. ASSUME NEW w \in Workers, NEW i \in DOMAIN wire[w]
        PROVE  wire[w][i].kind \in {"book", "price_change"} /\ wire[w][i].token \in Tokens
    <3>1. wire[w][i] \in Messages
      BY DEF FeedInv, TypeInv
    <3> QED
      BY <3>1 DEF Messages, BookMessages, ChangeMessages
  <2> QED
    BY <2>1, <2>2 DEF FeedInv, TypeInv, UpdateInv, FetchType, TypeOK
<1> QED
  BY <1>1, FeedInvariant, PTL

\* A connected worker that is not being updated has subscribed exactly what it is
\* assigned, however connecting, breaking and updating interleave (update_tokens, run).
THEOREM SubscribedAsAssigned == Spec => []SubscribedIsAssigned
BY FeedInvariant, PTL DEF FeedInv

\* Every token of the universe has one worker, whatever the size of a chunk and wherever
\* earlier updates were given up (chunk_asset_ids, MarketWebSocketManager.update_tokens).
THEOREM TokensHaveOneWorker == Spec => []OneWorkerPerToken
<1>1. FeedInv => OneWorkerPerToken
  <2> SUFFICES ASSUME FeedInv, update.step = "idle"
               PROVE  /\ \A t \in universe :
                             Cardinality({w \in Workers : Running(w) /\ t \in assets[w]}) = 1
                      /\ \A w \in Workers : Running(w) => assets[w] \subseteq universe
    BY DEF OneWorkerPerToken
  <2>1. /\ universe \in SUBSET Tokens /\ ChunkCount(universe) \in Nat
        /\ ChunkCount(universe) <= ChunkCount(Tokens) /\ ChunkCount(Tokens) \in Nat
    BY ChunkCounts DEF FeedInv, TypeInv
  <2>2. \A w \in Workers : Running(w) =>
            w =< ChunkCount(universe) /\ assets[w] = Chunk(universe, w)
    BY DEF FeedInv, WorkersInv
  <2>3. ASSUME NEW t \in universe
        PROVE  Cardinality({w \in Workers : Running(w) /\ t \in assets[w]}) = 1
    <3>1. PICK i \in 1 .. ChunkCount(universe) :
              \A j \in Nat : t \in Chunk(universe, j) <=> j = i
      BY <2>1, OneChunk
    <3>2. i \in Workers /\ i \in Nat /\ Running(i) /\ Workers \subseteq Nat
      BY <2>1 DEF FeedInv, WorkersInv, Workers
    <3>3. {w \in Workers : Running(w) /\ t \in assets[w]} = {i}
      BY <2>2, <3>1, <3>2
    <3> QED
      BY <3>3, FS_Singleton
  <2> QED
    BY <2>2, <2>3, ChunkWithin
<1> QED
  BY <1>1, FeedInvariant, PTL

\* However the answer of a batch is damaged, a token gets no book but its own, and a bad
\* row costs no other token (fetch_order_books_batch, fetch_ask_books).
THEOREM ReadsBringOwnBooks == Spec => []ReadsOwnBook
<1>1. ReadsOwnBook
  BY ReadBrings DEF ReadsOwnBook
<1> QED
  BY <1>1, PTL

-----------------------------------------------------------------------------
(***************************************************************************)
(* That the cached asks follow the exchange (AskAgrees), for any number of   *)
(* tokens, prices, connections and changes.  The proof gives every token the *)
(* history of its ask side, one entry for each version, and says of every    *)
(* message, REST answer and cached side which versions it shows.  A cached   *)
(* side may mix versions - a seed is ahead of the wire - but each price is   *)
(* listed as it was at some version that the wire has come to or passed.     *)
(***************************************************************************)

\* h[t][n] is the ask side of t after n changes.
Histories == [Tokens -> [Nat -> Levels]]

\* A message shows the version it bears, and that version has come.
Tells(h, m) ==
    /\ m.version <= version[m.token]
    /\ m.kind = "price_change" => m.version > 0
    /\ h[m.token][m.version] = Heard(m.token, h[m.token][m.version - 1], m)

\* Each price is listed as it was at one of the versions from .. to.
Mixes(levels, past, from, to) ==
    \A p \in Prices : \E n \in from .. to : p \in levels <=> p \in past[n]

Follows(h) ==
    /\ \A t \in Tokens : h[t][version[t]] = book[t]["ask"]
    /\ \A t \in Tokens : position[t] <= version[t]
    /\ \A w \in Workers : \A i \in 1 .. Len(wire[w]) : Tells(h, wire[w][i])
    /\ \A f \in fetches : \A t \in DOMAIN f.asks :
           f.version[t] <= version[t] /\ f.asks[t] = h[t][f.version[t]]
    /\ \A t \in ready : books[t]["ask"] \in Levels
    /\ \A t \in ready \ disturbed :
           Mixes(books[t]["ask"], h[t], position[t], version[t])

\* r[i] is the version of t that the first i messages lead to: no change is left out.
Leads(t, messages, r) ==
    /\ r \in [0 .. Len(messages) -> Nat]
    /\ \A i \in 1 .. Len(messages) :
           /\ r[i] = IF messages[i].token = t THEN messages[i].version ELSE r[i - 1]
           /\ messages[i].token = t /\ messages[i].kind = "price_change"
                  => messages[i].version = r[i - 1] + 1

\* What is on the wire of w continues what was taken off it, up to the present if
\* the connection carries t.
Continues(w, t, r) ==
    /\ Leads(t, wire[w], r)
    /\ r[0] <= position[t]
    /\ t \in streamed[w] => r[Len(wire[w])] = version[t]

WireInv == \A w \in Workers, t \in Tokens : \E r : Continues(w, t, r)

BookInv == (\E h \in Histories : Follows(h)) /\ WireInv

-----------------------------------------------------------------------------
(* Histories and wires *)

\* A change of one price leads from one version to the next in whatever mixes the first.
LEMMA ChangeMixes ==
    ASSUME NEW L, NEW past, NEW c, NEW from \in Nat, NEW to \in Nat, NEW v \in Nat,
           from <= v, v <= from + 1, 0 < v, v <= to,
           past[v] = WithChange(past[v - 1], c),
           Mixes(L, past, from, to)
    PROVE  Mixes(WithChange(L, c), past, v, to)
<1> SUFFICES ASSUME NEW p \in Prices
             PROVE  \E n \in v .. to : p \in WithChange(L, c) <=> p \in past[n]
  BY DEF Mixes
<1>1. CASE p = c.price
  <2>1. p \in WithChange(L, c) <=> p \in past[v]
    BY <1>1 DEF WithChange
  <2> QED
    BY <2>1
<1>2. CASE p # c.price
  <2>1. p \in WithChange(L, c) <=> p \in L
    BY <1>2 DEF WithChange
  <2>2. p \in past[v] <=> p \in past[v - 1]
    BY <1>2 DEF WithChange
  <2>3. PICK n \in from .. to : p \in L <=> p \in past[n]
    BY DEF Mixes
  <2>4. CASE n >= v
    BY <2>1, <2>3, <2>4
  <2>5. CASE n < v
    <3>1. n = v - 1
      BY <2>5
    <3>2. p \in L <=> p \in past[v]
      BY <2>2, <2>3, <3>1
    <3> QED
      BY <2>1, <3>2
  <2> QED
    BY <2>4, <2>5
<1> QED
  BY <1>1, <1>2

\* A version that is as the one before it.
LEMMA SameMixes ==
    ASSUME NEW L, NEW past, NEW from \in Nat, NEW to \in Nat, NEW v \in Nat,
           from <= v, v <= from + 1, 0 < v, v <= to,
           past[v] = past[v - 1],
           Mixes(L, past, from, to)
    PROVE  Mixes(L, past, v, to)
<1> SUFFICES ASSUME NEW p \in Prices
             PROVE  \E n \in v .. to : p \in L <=> p \in past[n]
  BY DEF Mixes
<1>1. PICK n \in from .. to : p \in L <=> p \in past[n]
  BY DEF Mixes
<1>2. CASE n >= v
  BY <1>1, <1>2
<1>3. CASE n < v
  <2>1. n = v - 1
    BY <1>3
  <2> QED
    BY <1>1, <2>1
<1> QED
  BY <1>2, <1>3

\* What a message about t makes of levels that mix the versions from .. to mixes those from
\* the version of the message on.
LEMMA HeardMixes ==
    ASSUME NEW h \in Histories, NEW t \in Tokens, NEW m \in Messages, m.token = t,
           Tells(h, m), NEW L, NEW from \in Nat, version[t] \in Nat,
           m.kind = "price_change" => from <= m.version /\ m.version <= from + 1,
           Mixes(L, h[t], from, version[t])
    PROVE  Mixes(Heard(t, L, m), h[t], m.version, version[t])
<1> DEFINE v == m.version
<1>1. v \in Nat /\ v <= version[t] /\ h[t][v] = Heard(t, h[t][v - 1], m)
  BY FeedAssumption DEF Tells, Messages, BookMessages, ChangeMessages
<1>2. CASE m.kind = "book"
  <2>1. Heard(t, L, m) = h[t][v]
    BY <1>1, <1>2 DEF Heard
  <2> QED
    BY <1>1, <2>1 DEF Mixes
<1>3. CASE m.kind # "book"
  <2>1. m.kind = "price_change" /\ 0 < v /\ from <= v /\ v <= from + 1
    BY <1>3 DEF Messages, BookMessages, ChangeMessages, Tells
  <2>2. CASE m.change.side = "ask"
    <3>1. /\ Heard(t, L, m) = WithChange(L, m.change)
          /\ h[t][v] = WithChange(h[t][v - 1], m.change)
      BY <1>1, <1>3, <2>2 DEF Heard
    <3> QED
      BY <1>1, <2>1, <3>1, ChangeMixes
  <2>3. CASE m.change.side # "ask"
    <3>1. Heard(t, L, m) = L /\ h[t][v] = h[t][v - 1]
      BY <1>1, <1>3, <2>3 DEF Heard
    <3> QED
      BY <1>1, <2>1, <3>1, SameMixes
  <2> QED
    BY <2>2, <2>3
<1> QED
  BY <1>2, <1>3

\* after[i] is what the asks of t are once the first i of n messages have been read.
IsReplay(t, w, n, after) ==
    \A i \in 0 .. n :
        after[i] = IF i = 0 THEN books[t]["ask"] ELSE Heard(t, after[i - 1], wire[w][i])

\* The recursive function of Replayed exists: each message needs only the one before it.
LEMMA ReplayExists ==
    ASSUME NEW t, NEW w, Len(wire[w]) \in Nat
    PROVE  \E after : /\ IsReplay(t, w, Len(wire[w]), after)
                      /\ Replayed(t, w) = after[Len(wire[w])]
<1> DEFINE N == Len(wire[w])
           def(after, n) ==
               IF n = 0 THEN books[t]["ask"] ELSE Heard(t, after[n - 1], wire[w][n])
           F == CHOOSE g : g = [n \in 0 .. N |-> def(g, n)]
           S == {k \in 0 .. N : \E g : IsReplay(t, w, k, g)}
<1>1. Replayed(t, w) = F[N]
  BY DEF Replayed
<1>2. 0 \in S
  <2>1. IsReplay(t, w, 0, [i \in {0} |-> books[t]["ask"]])
    BY DEF IsReplay
  <2> QED
    BY <2>1
<1>3. ASSUME NEW k \in 0 .. N - 1, k \in S PROVE k + 1 \in S
  <2>1. PICK g : IsReplay(t, w, k, g)
    BY <1>3
  <2> DEFINE x == Heard(t, g[k], wire[w][k + 1])
             g1 == [i \in 0 .. k + 1 |-> IF i = k + 1 THEN x ELSE g[i]]
  <2>2. g1[k + 1] = x /\ \A i \in 0 .. k : g1[i] = g[i]
    <3> HIDE DEF x
    <3> QED
      OBVIOUS
  <2>3. \A i \in 1 .. k + 1 : g1[i - 1] = g[i - 1]
    <3> HIDE DEF g1
    <3> QED
      BY <2>2
  <2> HIDE DEF g1
  <2>4. IsReplay(t, w, k + 1, g1)
    <3> SUFFICES ASSUME NEW i \in 0 .. k + 1
                 PROVE  g1[i] = IF i = 0 THEN books[t]["ask"]
                                ELSE Heard(t, g1[i - 1], wire[w][i])
      BY DEF IsReplay
    <3>1. CASE i = k + 1
      <4>1. i # 0 /\ i - 1 = k /\ g1[k] = g[k]
        BY <2>2, <3>1
      <4> QED
        BY <2>2, <3>1, <4>1
    <3>2. CASE i # k + 1
      <4>1. i \in 0 .. k
        BY <3>2
      <4>2. g1[i] = g[i]
        BY <2>2, <4>1
      <4>3. CASE i = 0
        BY <2>1, <4>1, <4>2, <4>3 DEF IsReplay
      <4>4. CASE i # 0
        <5>1. g1[i - 1] = g[i - 1]
          BY <2>3, <4>1, <4>4
        <5> QED
          BY <2>1, <4>1, <4>2, <4>4, <5>1 DEF IsReplay
      <4> QED
        BY <4>3, <4>4
    <3> QED
      BY <3>1, <3>2
  <2> QED
    BY <2>4
<1>4. \A k \in 0 .. N - 1 : k \in S => k + 1 \in S
  BY <1>3
<1>5. N \in S
  <2> HIDE DEF S, N
  <2>1. N \in Nat /\ N \in 0 .. N
    BY DEF N
  <2>2. 0 .. N \subseteq S
    BY <1>2, <1>4, <2>1, CountingUp
  <2> QED
    BY <2>1, <2>2
<1>6. PICK g : IsReplay(t, w, N, g)
  BY <1>5
<1> DEFINE G == [n \in 0 .. N |-> g[n]]
<1>7. \A n \in 0 .. N : def(G, n) = def(g, n)
  OBVIOUS
<1>8. G = [n \in 0 .. N |-> def(G, n)]
  BY <1>6, <1>7 DEF IsReplay
<1>9. F = [n \in 0 .. N |-> def(F, n)]
  <2> HIDE DEF def, G
  <2> QED
    BY <1>8
<1>10. IsReplay(t, w, N, F)
  <2> DEFINE a == F
  <2> HIDE DEF F
  <2> QED
    BY <1>9 DEF IsReplay
<1> QED
  BY <1>1, <1>10

\* What leads somewhere stays in the range of the versions that have come.
LEMMA LeadsWithin ==
    ASSUME TypeInv, NEW h \in Histories, Follows(h), NEW w \in Workers, NEW t \in Tokens,
           NEW r, Leads(t, wire[w], r), r[0] <= version[t]
    PROVE  \A i \in 0 .. Len(wire[w]) : r[i] \in Nat /\ r[i] <= version[t]
<1> DEFINE N == Len(wire[w])
           S == {k \in 0 .. N : r[k] <= version[t]}
<1>1. N \in Nat /\ r \in [0 .. N -> Nat] /\ 0 \in S
  BY DEF TypeInv, Leads
<1>2. ASSUME NEW k \in 0 .. N - 1, k \in S PROVE k + 1 \in S
  <2> DEFINE m == wire[w][k + 1]
  <2>1. k + 1 \in 1 .. N /\ k + 1 \in 0 .. N /\ (k + 1) - 1 = k
    BY <1>1
  <2>2. Tells(h, m)
    BY <2>1 DEF Follows
  <2>3. r[k + 1] = IF m.token = t THEN m.version ELSE r[k]
    BY <2>1 DEF Leads
  <2>4. r[k] <= version[t]
    BY <1>2
  <2> HIDE DEF m
  <2>5. r[k + 1] <= version[t]
    BY <2>2, <2>3, <2>4 DEF Tells
  <2> QED
    BY <2>1, <2>5
<1>3. \A k \in 0 .. N - 1 : k \in S => k + 1 \in S
  BY <1>2
<1>4. 0 .. N \subseteq S
  <2> HIDE DEF S, N
  <2> QED
    BY <1>1, <1>3, CountingUp
<1> QED
  BY <1>1, <1>4

\* After each message of its wire, the asks of a ready token mix the versions from where
\* the wire has led on.
LEMMA ReplayMixes ==
    ASSUME TypeInv, NEW h \in Histories, Follows(h), NEW w \in Workers,
           NEW t \in ready \ disturbed, NEW r, Leads(t, wire[w], r), r[0] <= position[t],
           NEW after, IsReplay(t, w, Len(wire[w]), after)
    PROVE  /\ after[Len(wire[w])] \in Levels
           /\ Mixes(after[Len(wire[w])], h[t], r[Len(wire[w])], version[t])
<1> DEFINE N == Len(wire[w])
           Good(k) == after[k] \in Levels /\ Mixes(after[k], h[t], r[k], version[t])
           S == {k \in 0 .. N : Good(k)}
<1>0. t \in Tokens /\ version[t] \in Nat /\ position[t] \in Nat /\ position[t] <= version[t]
  BY FeedAssumption DEF TypeInv, CacheTypeOK, Follows
<1>1. N \in Nat /\ r \in [0 .. N -> Nat] /\ wire[w] \in Seq(Messages)
  BY DEF TypeInv, Leads
<1>2. \A i \in 0 .. N : r[i] \in Nat /\ r[i] <= version[t]
  <2>1. r[0] <= version[t]
    BY <1>0, <1>1
  <2> QED
    BY <1>0, <2>1, LeadsWithin
<1>3. 0 \in S
  <2>1. after[0] = books[t]["ask"] /\ after[0] \in Levels
    BY <1>1 DEF IsReplay, Follows
  <2>2. Mixes(after[0], h[t], position[t], version[t])
    BY <2>1 DEF Follows
  <2>3. Mixes(after[0], h[t], r[0], version[t])
    BY <1>0, <1>1, <2>2 DEF Mixes
  <2> QED
    BY <1>1, <2>1, <2>3
<1>4. ASSUME NEW k \in 0 .. N - 1, k \in S PROVE k + 1 \in S
  <2> DEFINE m == wire[w][k + 1]
  <2>1. k + 1 \in 1 .. N /\ k + 1 \in 0 .. N /\ (k + 1) - 1 = k /\ k + 1 # 0 /\ k \in 0 .. N
    BY <1>1
  <2>2. Tells(h, m) /\ m \in Messages
    BY <1>1, <2>1 DEF Follows
  <2>3. /\ r[k + 1] = IF m.token = t THEN m.version ELSE r[k]
        /\ m.token = t /\ m.kind = "price_change" => m.version = r[k] + 1
    BY <2>1 DEF Leads
  <2>4. after[k + 1] = Heard(t, after[k], m)
    BY <2>1 DEF IsReplay
  <2>5. Good(k)
    BY <1>4
  <2>6. r[k] \in Nat
    BY <1>2, <2>1
  <2> HIDE DEF m
  <2>7. CASE m.token # t
    <3>1. after[k + 1] = after[k] /\ r[k + 1] = r[k]
      BY <2>3, <2>4, <2>7 DEF Heard
    <3> QED
      BY <2>1, <2>5, <3>1
  <2>8. CASE m.token = t
    <3>1. r[k + 1] = m.version
      BY <2>3, <2>8
    <3>2. m.kind = "price_change" => r[k] <= m.version /\ m.version <= r[k] + 1
      BY <2>3, <2>6, <2>8
    <3>3. Mixes(after[k + 1], h[t], m.version, version[t])
      BY <1>0, <2>2, <2>4, <2>5, <2>6, <2>8, <3>2, HeardMixes
    <3>4. after[k + 1] \in Levels
      BY <2>2, <2>4, <2>5
         DEF Heard, WithChange, Levels, Messages, BookMessages, ChangeMessages, Book, Change,
             Sides
    <3> QED
      BY <2>1, <3>1, <3>3, <3>4
  <2> QED
    BY <2>7, <2>8
<1>5. \A k \in 0 .. N - 1 : k \in S => k + 1 \in S
  BY <1>4
<1>6. 0 .. N \subseteq S
  <2> HIDE DEF S, N
  <2> QED
    BY <1>1, <1>3, <1>5, CountingUp
<1>7. N \in S
  BY <1>1, <1>6
<1> QED
  BY <1>7

\* The invariant implies the property: at the end of the wire only one version is left.
LEMMA FollowingAgrees ==
    ASSUME TypeInv, BookInv
    PROVE  AskAgrees
<1> SUFFICES ASSUME NEW t \in ready \ disturbed, NEW w \in Workers, t \in streamed[w]
             PROVE  Replayed(t, w) = book[t]["ask"]
  BY DEF AskAgrees
<1>1. PICK h \in Histories : Follows(h)
  BY DEF BookInv
<1>2. t \in Tokens /\ version[t] \in Nat /\ book[t]["ask"] \in Levels
  BY DEF TypeInv, CacheTypeOK, Book, Sides
<1>3. PICK r : Continues(w, t, r)
  BY <1>2 DEF BookInv, WireInv
<1>4. PICK after : /\ IsReplay(t, w, Len(wire[w]), after)
                   /\ Replayed(t, w) = after[Len(wire[w])]
  <2>1. Len(wire[w]) \in Nat
    BY DEF TypeInv
  <2> QED
    BY <2>1, ReplayExists
<1>5. Leads(t, wire[w], r) /\ r[0] <= position[t] /\ r[Len(wire[w])] = version[t]
  BY <1>3 DEF Continues
<1>6. /\ Replayed(t, w) \in Levels
      /\ Mixes(Replayed(t, w), h[t], version[t], version[t])
  BY <1>1, <1>4, <1>5, ReplayMixes
<1>7. h[t][version[t]] = book[t]["ask"]
  BY <1>1, <1>2 DEF Follows
<1>8. \A p \in Prices : p \in Replayed(t, w) <=> p \in book[t]["ask"]
  BY <1>2, <1>6, <1>7 DEF Mixes
<1> QED
  BY <1>2, <1>6, <1>8 DEF Levels

-----------------------------------------------------------------------------
(* Every step continues the histories *)

\* A snapshot of the present shows the last version.
LEMMA SnapshotTells ==
    ASSUME TypeInv, NEW h \in Histories, Follows(h), NEW t \in Tokens
    PROVE  Tells(h, Snapshot(t))
<1>1. version[t] \in Nat /\ h[t][version[t]] = book[t]["ask"]
  BY DEF Follows, TypeInv
<1>2. /\ Snapshot(t).kind = "book" /\ Snapshot(t).token = t
      /\ Snapshot(t).book = book[t] /\ Snapshot(t).version = version[t]
  BY DEF Snapshot
<1> QED
  BY <1>1, <1>2 DEF Tells, Heard

\* Messages that go, snapshots that come and tokens that turn stale change no history.
LEMMA QuietFollows ==
    ASSUME TypeInv, NEW h \in Histories, Follows(h),
           UNCHANGED <<books, exchangeVars, fetches, position, disturbed>>, ready' \subseteq ready,
           \A w \in Workers : \A i \in 1 .. Len(wire'[w]) :
               \/ \E j \in 1 .. Len(wire[w]) : wire'[w][i] = wire[w][j]
               \/ \E t \in Tokens : wire'[w][i] = Snapshot(t)
    PROVE  Follows(h)'
<1>1. books' = books /\ book' = book /\ version' = version /\ fetches' = fetches
      /\ position' = position /\ disturbed' = disturbed
  BY DEF exchangeVars
<1>2. ASSUME NEW w \in Workers, NEW i \in 1 .. Len(wire'[w])
      PROVE  Tells(h, wire[w][i])'
  <2>1. CASE \E j \in 1 .. Len(wire[w]) : wire'[w][i] = wire[w][j]
    <3>1. PICK j \in 1 .. Len(wire[w]) : wire'[w][i] = wire[w][j]
      BY <2>1
    <3>2. Tells(h, wire[w][j])
      BY DEF Follows
    <3> QED
      BY <1>1, <3>1, <3>2 DEF Tells, Heard
  <2>2. CASE \E t \in Tokens : wire'[w][i] = Snapshot(t)
    <3>1. PICK t \in Tokens : wire'[w][i] = Snapshot(t)
      BY <2>2
    <3>2. Tells(h, Snapshot(t))
      BY SnapshotTells
    <3> QED
      BY <1>1, <3>1, <3>2 DEF Tells, Heard
  <2> QED
    BY <2>1, <2>2
<1> QED
  BY <1>1, <1>2 DEF Follows, Mixes

\* A message that ends in the newest book or in the change after it is applied so.
LEMMA ReceiveFollows ==
    ASSUME TypeInv, NEW h \in Histories, Follows(h), WireInv, NEW w \in Workers, Receive(w)
    PROVE  Follows(h)'
<1> DEFINE m == Head(wire[w])
           t == m.token
<1>1. /\ wire[w] \in Seq(Messages) /\ wire[w] # <<>> /\ m = wire[w][1]
      /\ wire' = [wire EXCEPT ![w] = Tail(wire[w])]
      /\ 1 \in 1 .. Len(wire[w])
  BY DEF TypeInv, Receive
<1>2. m \in Messages /\ t \in Tokens /\ m.version \in Nat
  <2>1. m \in Messages
    BY <1>1
  <2> QED
    BY <2>1, FeedAssumption DEF Messages, BookMessages, ChangeMessages
<1>3. Tells(h, m)
  BY <1>1 DEF Follows
<1>4. /\ book' = book /\ version' = version /\ fetches' = fetches
      /\ \A u \in Tokens : version[u] \in Nat /\ position[u] \in Nat /\ position[u] <= version[u]
  BY FeedAssumption DEF Receive, exchangeVars, TypeInv, Follows
<1>5. m.kind = "price_change" => m.version <= position[t] + 1
  <2>1. PICK r : Continues(w, t, r)
    BY <1>2 DEF WireInv
  <2> QED
    BY <1>1, <1>2, <1>4, <2>1 DEF Continues, Leads
<1>6. \A u \in Tokens : position'[u] = IF u = t /\ m.version > position[u] THEN m.version
                                                                          ELSE position[u]
  BY <1>2 DEF Receive, ReceiveBook, Vouch, ReceivePriceChange, TypeInv
<1>7. \A u \in Tokens : position'[u] <= version'[u]
  BY <1>2, <1>3, <1>4, <1>6 DEF Tells
<1>8. ASSUME NEW v \in Workers, NEW i \in 1 .. Len(wire'[v])
      PROVE  Tells(h, wire[v][i])'
  <2>1. \E j \in 1 .. Len(wire[v]) : wire'[v][i] = wire[v][j]
    <3>1. CASE v = w
      <4>1. wire'[w] = Tail(wire[w])
        BY <1>1 DEF TypeInv
      <4>2. Len(wire'[w]) = Len(wire[w]) - 1 /\ Len(wire[w]) \in Nat
        <5>1. Len(Tail(wire[w])) = Len(wire[w]) - 1 /\ Len(wire[w]) \in Nat
          BY <1>1, HeadTailProperties
        <5> QED
          BY <4>1, <5>1
      <4>3. i + 1 \in 1 .. Len(wire[w])
        BY <3>1, <4>2
      <4>4. Tail(wire[w])[i] = wire[w][i + 1]
        BY <1>1, <3>1, <4>1, <4>2, HeadTailProperties
      <4> QED
        BY <3>1, <4>1, <4>3, <4>4
    <3>2. CASE v # w
      BY <1>1, <3>2 DEF TypeInv
    <3> QED
      BY <3>1, <3>2
  <2>2. PICK j \in 1 .. Len(wire[v]) : wire'[v][i] = wire[v][j]
    BY <2>1
  <2>3. Tells(h, wire[v][j])
    BY DEF Follows
  <2> QED
    BY <1>4, <2>2, <2>3 DEF Tells, Heard
<1> HIDE DEF m
\* Nothing happens to the other tokens.
<1>9. ASSUME NEW u \in Tokens, u # t
      PROVE  /\ books'[u] = books[u] /\ (u \in ready' <=> u \in ready)
             /\ (u \in disturbed' <=> u \in disturbed) /\ position'[u] = position[u]
  <2>1. CASE ReceiveBook(w)
    BY <1>2, <1>9, <2>1 DEF ReceiveBook, ApplyBookSnapshot, Vouch, TypeInv, CacheTypeOK, m
  <2>2. CASE ReceivePriceChange(w)
    <3>1. m.change.token = t
      BY <1>2, <2>2 DEF ReceivePriceChange, Messages, BookMessages, ChangeMessages, m
    <3>2. books' = books \/ books' = [books EXCEPT ![t] = books'[t]]
      BY <2>2, <3>1 DEF ReceivePriceChange, ApplyPriceChange, TypeInv, CacheTypeOK, m
    <3> QED
      BY <1>2, <1>9, <2>2, <3>2 DEF ReceivePriceChange, ApplyPriceChange, TypeInv, CacheTypeOK, m
  <2> QED
    BY <2>1, <2>2 DEF Receive
<1>10. t \in ready' =>
           /\ books'[t]["ask"] \in Levels
           /\ t \notin disturbed' => Mixes(books'[t]["ask"], h[t], position'[t], version'[t])
  <2>1. CASE ReceiveBook(w)
    <3>1. m.kind = "book" /\ m.book \in Book
      BY <1>2, <2>1 DEF ReceiveBook, Messages, BookMessages, ChangeMessages, m
    <3>2. books'[t] = m.book /\ books'[t]["ask"] \in Levels
      BY <1>2, <2>1, <3>1
         DEF ReceiveBook, ApplyBookSnapshot, TypeInv, CacheTypeOK, Book, Sides, m
    <3>3. h[t][m.version] = m.book["ask"] /\ m.version <= version[t]
      BY <1>3, <3>1 DEF Tells, Heard
    <3>4. t \notin disturbed' => position'[t] = m.version
      <4>1. disturbed' = IF m.version >= position[t] THEN disturbed \ {t}
                                                    ELSE disturbed \cup {t}
        BY <2>1 DEF ReceiveBook, Vouch, m
      <4> QED
        BY <1>2, <1>4, <1>6, <4>1
    <3> QED
      BY <1>2, <1>4, <3>2, <3>3, <3>4 DEF Mixes
  <2>2. CASE ReceivePriceChange(w)
    <3> SUFFICES ASSUME t \in ready'
                 PROVE  /\ books'[t]["ask"] \in Levels
                        /\ t \notin disturbed' =>
                               Mixes(books'[t]["ask"], h[t], position'[t], version'[t])
      OBVIOUS
    <3> DEFINE c == m.change
    <3>1. m.kind = "price_change" /\ c \in Change /\ c.token = t
      BY <1>2, <2>2 DEF ReceivePriceChange, Messages, BookMessages, ChangeMessages, m
    <3>2. ready' = ready
      BY <2>2 DEF ReceivePriceChange, ApplyPriceChange
    <3>3. books[t]["ask"] \in Levels /\ books[t]["ask"] # NoBook
      BY <3>2, NoBookAssumption DEF Follows
    <3>4. books'[t]["ask"] = Heard(t, books[t]["ask"], m)
      <4>1. /\ books' = IF AppliesTo(c)
                        THEN [books EXCEPT ![t][c.side] = WithChange(books[t][c.side], c)]
                        ELSE books
            /\ AppliesTo(c) <=> books[t][c.side] # NoBook
        BY <2>2, <3>1, <3>2 DEF ReceivePriceChange, ApplyPriceChange, AppliesTo, m
      <4>2. Heard(t, books[t]["ask"], m) =
                IF c.side = "ask" THEN WithChange(books[t]["ask"], c) ELSE books[t]["ask"]
        BY <3>1 DEF Heard
      <4>3. books \in [Tokens -> [Sides -> Levels \cup {NoBook}]]
        BY DEF TypeInv, CacheTypeOK
      <4>4. c.side \in Sides
        BY <3>1 DEF Change
      <4> HIDE DEF c
      <4>5. CASE c.side = "ask"
        BY <1>2, <3>3, <4>1, <4>2, <4>3, <4>5 DEF Sides
      <4>6. CASE c.side # "ask"
        BY <1>2, <4>1, <4>2, <4>3, <4>4, <4>6 DEF Sides
      <4> QED
        BY <4>5, <4>6
    <3>5. books'[t]["ask"] \in Levels
      BY <3>1, <3>3, <3>4 DEF Heard, WithChange, Levels, Change
    <3>6. ASSUME t \notin disturbed'
          PROVE  Mixes(books'[t]["ask"], h[t], position'[t], version'[t])
      <4>1. t \notin disturbed /\ m.version >= position[t]
        BY <1>2, <1>4, <2>2, <3>6 DEF ReceivePriceChange, m
      <4>2. position'[t] = m.version
        BY <1>2, <1>4, <1>6, <4>1
      <4>3. Mixes(books[t]["ask"], h[t], position[t], version[t])
        BY <3>2, <4>1 DEF Follows
      <4>4. Mixes(Heard(t, books[t]["ask"], m), h[t], m.version, version[t])
        BY <1>2, <1>3, <1>4, <1>5, <3>1, <4>1, <4>3, HeardMixes
      <4> QED
        BY <1>4, <3>4, <4>2, <4>4
    <3> QED
      BY <3>5, <3>6
  <2> QED
    BY <2>1, <2>2 DEF Receive
<1>11. ready \subseteq Tokens /\ ready' \subseteq Tokens
  BY ReceiveTypes DEF TypeInv, CacheTypeOK
<1> HIDE DEF t
<1>12. ASSUME NEW u \in ready'
       PROVE  /\ books'[u]["ask"] \in Levels
              /\ u \notin disturbed' => Mixes(books'[u]["ask"], h[u], position'[u], version'[u])
  <2>1. CASE u = t
    BY <1>10, <2>1
  <2>2. CASE u # t
    BY <1>4, <1>9, <1>11, <2>2 DEF Follows
  <2> QED
    BY <2>1, <2>2
<1> QED
  BY <1>4, <1>7, <1>8, <1>12 DEF Follows, Mixes

\* A REST answer shows the present.
LEMMA RestReadFollows ==
    ASSUME TypeInv, NEW h \in Histories, Follows(h), NEW r \in Reads, RestRead(r)
    PROVE  Follows(h)'
<1> DEFINE asks == [t \in DOMAIN r.read |-> book[r.read[t]]["ask"]]
           of == [t \in DOMAIN r.read |-> version[r.read[t]]]
           f == [asks |-> asks, version |-> of]
<1>1. DOMAIN r.read \subseteq Tokens /\ \A t \in DOMAIN r.read : r.read[t] = t
  BY ReadBrings
<1>2. fetches' \subseteq fetches \cup {f}
  BY DEF RestRead
<1>3. \A t \in DOMAIN f.asks : f.version[t] <= version[t] /\ f.asks[t] = h[t][f.version[t]]
  <2>1. f.asks = asks /\ f.version = of
    OBVIOUS
  <2>2. ASSUME NEW t \in DOMAIN r.read
        PROVE  of[t] <= version[t] /\ asks[t] = h[t][of[t]]
    <3>1. asks[t] = book[t]["ask"] /\ of[t] = version[t] /\ t \in Tokens
      BY <1>1
    <3>2. version[t] \in Nat /\ h[t][version[t]] = book[t]["ask"]
      BY <3>1 DEF Follows, TypeInv
    <3> HIDE DEF asks, of
    <3> QED
      BY <3>1, <3>2
  <2>3. DOMAIN asks = DOMAIN r.read
    OBVIOUS
  <2> HIDE DEF f, asks, of
  <2> QED
    BY <2>1, <2>2, <2>3
<1>4. /\ books' = books /\ ready' = ready /\ book' = book /\ version' = version
      /\ wire' = wire /\ position' = position /\ disturbed' = disturbed
  BY DEF RestRead, cacheVars, exchangeVars, workerVars, history
<1> HIDE DEF f
<1> QED
  BY <1>2, <1>3, <1>4 DEF Follows, Mixes, Tells, Heard

\* A seed shows one version, and an older one than the wire has come to disturbs.
LEMMA SeedFollows ==
    ASSUME TypeInv, NEW h \in Histories, Follows(h), NEW f \in fetches, Seed(f)
    PROVE  Follows(h)'
<1>1. /\ book' = book /\ version' = version /\ wire' = wire /\ position' = position
      /\ fetches' \subseteq fetches /\ ready' = ready \cup DOMAIN f.asks
      /\ disturbed' = (disturbed \ DOMAIN f.asks)
                          \cup {t \in DOMAIN f.asks : f.version[t] < position[t]}
  BY DEF Seed, SeedAskBooks, exchangeVars, workerVars
<1>2. /\ FetchType(f) /\ ready \subseteq Tokens
      /\ books \in [Tokens -> [Sides -> Levels \cup {NoBook}]]
  BY DEF TypeInv, CacheTypeOK
<1>3. ASSUME NEW t \in Tokens
      PROVE  books'[t]["ask"] = IF t \in DOMAIN f.asks THEN f.asks[t] ELSE books[t]["ask"]
  <2>1. books' = [u \in Tokens |-> IF u \in DOMAIN f.asks
                                   THEN [books[u] EXCEPT !["ask"] = f.asks[u]] ELSE books[u]]
    BY DEF Seed, SeedAskBooks
  <2>2. books[t] \in [Sides -> Levels \cup {NoBook}]
    BY <1>2
  <2> QED
    BY <2>1, <2>2 DEF Sides
<1>4. ASSUME NEW t \in ready' PROVE books'[t]["ask"] \in Levels
  BY <1>1, <1>2, <1>3 DEF FetchType, Follows
<1>5. ASSUME NEW t \in ready' \ disturbed'
      PROVE  Mixes(books'[t]["ask"], h[t], position[t], version[t])
  <2>1. t \in Tokens
    BY <1>1, <1>2 DEF FetchType
  <2>2. CASE t \in DOMAIN f.asks
    <3>1. books'[t]["ask"] = h[t][f.version[t]] /\ f.version[t] <= version[t]
      BY <1>3, <2>1, <2>2 DEF Follows
    <3>2. f.version[t] \in Nat /\ position[t] \in Nat /\ version[t] \in Nat
      BY <1>2, <2>1, <2>2, FeedAssumption DEF FetchType, TypeInv
    <3>3. position[t] <= f.version[t]
      BY <1>1, <1>5, <2>2, <3>2
    <3> QED
      BY <3>1, <3>2, <3>3 DEF Mixes
  <2>3. CASE t \notin DOMAIN f.asks
    <3>1. t \in ready \ disturbed /\ books'[t]["ask"] = books[t]["ask"]
      BY <1>1, <1>3, <1>5, <2>1, <2>3
    <3> QED
      BY <3>1 DEF Follows
  <2> QED
    BY <2>2, <2>3
<1> QED
  BY <1>1, <1>4, <1>5 DEF Follows, Mixes, Tells, Heard

\* A change makes the next version.
LEMMA BookChangesFollows ==
    ASSUME TypeInv, NEW h \in Histories, Follows(h),
           NEW t \in Tokens, NEW s \in Sides, NEW p \in Prices, BookChanges(t, s, p)
    PROVE  \E g \in Histories : Follows(g)'
<1> DEFINE c == [token |-> t, side |-> s, price |-> p, listed |-> p \notin book[t][s]]
           n == version[t] + 1
<1>0. PICK message : message = [kind |-> "price_change", token |-> t, change |-> c,
                                version |-> n]
  OBVIOUS
<1> DEFINE next == Heard(t, book[t]["ask"], message)
<1>1. /\ \A u \in Tokens : version[u] \in Nat /\ position[u] \in Nat
      /\ n \in Nat /\ n > 0 /\ n - 1 = version[t]
  BY FeedAssumption DEF TypeInv
<1>2. /\ version' = [version EXCEPT ![t] = n]
      /\ wire' = [w \in Workers |-> IF t \in streamed[w] THEN Append(wire[w], message)
                                                        ELSE wire[w]]
      /\ book' = [book EXCEPT ![t][s] = WithChange(book[t][s], c)]
      /\ UNCHANGED <<books, ready, fetches, position, disturbed>>
  BY <1>0 DEF BookChanges, cacheVars, history
<1>3. c.side = s /\ c.price = p /\ message.kind = "price_change" /\ message.token = t
      /\ message.change = c /\ message.version = n
  BY <1>0
<1>4. /\ book'[t]["ask"] = next /\ next \in Levels
      /\ \A u \in Tokens : u # t => book'[u] = book[u]
  <2>1. book \in [Tokens -> [Sides -> Levels]]
    BY DEF TypeInv, Book
  <2>2. next = IF s = "ask" THEN WithChange(book[t]["ask"], c) ELSE book[t]["ask"]
    <3> HIDE DEF c
    <3> QED
      BY <1>3 DEF Heard
  <2>3. WithChange(book[t]["ask"], c) \in Levels
    <3> HIDE DEF c
    <3> QED
      BY <1>3, <2>1 DEF WithChange, Levels, Sides
  <2> HIDE DEF c, next
  <2> QED
    BY <1>2, <2>1, <2>2, <2>3 DEF Sides
<1>5. \A u \in Tokens : version'[u] = IF u = t THEN n ELSE version[u]
  BY <1>2 DEF TypeInv
<1>6. PICK g : g = [h EXCEPT ![t] = [h[t] EXCEPT ![n] = next]]
  OBVIOUS
<1> HIDE DEF n, next
<1>7. /\ g \in Histories
      /\ g[t][n] = next
      /\ \A u \in Tokens, k \in Nat : u # t \/ k # n => g[u][k] = h[u][k]
  BY <1>1, <1>4, <1>6 DEF Histories
<1>8. \A u \in Tokens, k \in Nat : k <= version[u] => g[u][k] = h[u][k]
  BY <1>1, <1>7
<1> HIDE DEF c
<1>9. \A u \in Tokens : g[u][version'[u]] = book'[u]["ask"]
  BY <1>1, <1>4, <1>5, <1>7, <1>8 DEF Follows
<1>10. ASSUME NEW m \in Messages, Tells(h, m)
       PROVE  Tells(g, m)'
  <2>1. m.token \in Tokens /\ m.version \in Nat
    BY FeedAssumption DEF Messages, BookMessages, ChangeMessages
  <2>2. /\ m.version <= version[m.token] /\ m.version <= version'[m.token]
        /\ m.kind = "price_change" => m.version > 0
    BY <1>1, <1>5, <1>10, <2>1 DEF Tells
  <2>3. g[m.token][m.version] = h[m.token][m.version]
    BY <1>8, <2>1, <2>2
  <2>4. h[m.token][m.version] = Heard(m.token, h[m.token][m.version - 1], m)
    BY <1>10 DEF Tells
  <2>5. CASE m.kind = "book"
    BY <2>2, <2>3, <2>4, <2>5 DEF Tells, Heard
  <2>6. CASE m.kind # "book"
    <3>1. m.version - 1 \in Nat /\ m.version - 1 <= version[m.token]
      BY <1>1, <2>1, <2>2, <2>6 DEF Messages, BookMessages, ChangeMessages
    <3>2. g[m.token][m.version - 1] = h[m.token][m.version - 1]
      BY <1>8, <2>1, <3>1
    <3> QED
      BY <2>2, <2>3, <2>4, <3>2 DEF Tells, Heard
  <2> QED
    BY <2>5, <2>6
<1>11. Tells(g, message)'
  <2>1. g[t][n - 1] = book[t]["ask"] /\ g[t][n] = Heard(t, book[t]["ask"], message)
    BY <1>1, <1>7, <1>8 DEF Follows, next
  <2>2. version'[t] = n
    BY <1>5
  <2>3. message.version <= version'[t] /\ message.version > 0
    BY <1>1, <1>3, <2>2
  <2>4. g[t][n] = Heard(t, g[t][n - 1], message)
    BY <2>1
  <2> QED
    BY <1>3, <2>3, <2>4 DEF Tells, Heard
<1>12. ASSUME NEW w \in Workers, NEW i \in 1 .. Len(wire'[w])
       PROVE  Tells(g, wire[w][i])'
  <2>1. wire[w] \in Seq(Messages) /\ Len(wire[w]) \in Nat
    BY DEF TypeInv
  <2>2. wire'[w] = IF t \in streamed[w] THEN Append(wire[w], message) ELSE wire[w]
    BY <1>2
  <2>3. wire'[w][i] = message \/ (i \in 1 .. Len(wire[w]) /\ wire'[w][i] = wire[w][i])
    BY <2>1, <2>2
  <2>4. CASE i \in 1 .. Len(wire[w]) /\ wire'[w][i] = wire[w][i]
    <3>1. PICK m : m = wire[w][i]
      OBVIOUS
    <3>2. m \in Messages /\ Tells(h, m)
      BY <2>1, <2>4, <3>1 DEF Follows
    <3>3. Tells(g, m)'
      BY <1>10, <3>2
    <3> QED
      BY <2>4, <3>1, <3>3 DEF Tells, Heard
  <2>5. CASE wire'[w][i] = message
    BY <1>11, <2>5 DEF Tells, Heard
  <2> QED
    BY <2>3, <2>4, <2>5
<1>13. \A u \in Tokens : version[u] <= version'[u]
  BY <1>1, <1>5
<1>14. ASSUME NEW f \in fetches, NEW u \in DOMAIN f.asks
       PROVE  f.version[u] <= version'[u] /\ f.asks[u] = g[u][f.version[u]]
  <2>1. u \in Tokens /\ f.version[u] \in Nat
    BY FeedAssumption DEF TypeInv, FetchType
  <2>2. f.version[u] <= version[u] /\ f.asks[u] = h[u][f.version[u]]
    BY DEF Follows
  <2> QED
    BY <1>1, <1>5, <1>8, <1>13, <2>1, <2>2
<1>15. ASSUME NEW u \in ready \ disturbed
       PROVE  Mixes(books[u]["ask"], g[u], position[u], version'[u])
  <2>1. u \in Tokens
    BY DEF TypeInv, CacheTypeOK
  <2>2. SUFFICES ASSUME NEW q \in Prices
                 PROVE  \E k \in position[u] .. version'[u] :
                            q \in books[u]["ask"] <=> q \in g[u][k]
    BY DEF Mixes
  <2>3. PICK k \in position[u] .. version[u] : q \in books[u]["ask"] <=> q \in h[u][k]
    BY DEF Follows, Mixes
  <2>4. k \in Nat /\ k <= version[u] /\ k \in position[u] .. version'[u]
    BY <1>1, <1>5, <2>1, <2>3
  <2> QED
    BY <1>8, <2>1, <2>3, <2>4
<1>16. \A u \in Tokens : position[u] <= version'[u]
  BY <1>1, <1>5 DEF Follows
<1>17. \A u \in ready : books[u]["ask"] \in Levels
  BY DEF Follows
<1> QED
  BY <1>2, <1>7, <1>9, <1>12, <1>14, <1>15, <1>16, <1>17 DEF Follows, Mixes

-----------------------------------------------------------------------------
(* Every step continues the wires *)

\* What is appended to a wire stands behind what was on it.
LEMMA AppendedBehind ==
    ASSUME NEW S, NEW old \in Seq(S), NEW new \in Seq(S), NEW both, both = old \o new
    PROVE  /\ Len(old) \in Nat /\ Len(new) \in Nat /\ Len(both) = Len(old) + Len(new)
           /\ \A k \in 1 .. Len(old) : both[k] = old[k]
           /\ \A k \in 1 .. Len(new) : both[Len(old) + k] = new[k]
<1>1. Len(old) \in Nat /\ Len(new) \in Nat
  OBVIOUS
<1>2. /\ Len(both) = Len(old) + Len(new)
      /\ \A i \in 1 .. Len(old) + Len(new) :
             both[i] = IF i <= Len(old) THEN old[i] ELSE new[i - Len(old)]
  BY ConcatProperties
<1>3. ASSUME NEW k \in 1 .. Len(old) PROVE both[k] = old[k]
  <2>1. k \in 1 .. Len(old) + Len(new) /\ k <= Len(old)
    BY <1>1
  <2> QED
    BY <1>2, <2>1
<1>4. ASSUME NEW k \in 1 .. Len(new) PROVE both[Len(old) + k] = new[k]
  <2>1. /\ Len(old) + k \in 1 .. Len(old) + Len(new)
        /\ ~ (Len(old) + k <= Len(old)) /\ (Len(old) + k) - Len(old) = k
    BY <1>1
  <2> QED
    BY <1>2, <2>1
<1> QED
  BY <1>1, <1>2, <1>3, <1>4

\* A wire that stays as it is, and is not streamed a version it does not have.
LEMMA WireStays ==
    ASSUME TypeInv, NEW w \in Workers, NEW t \in Tokens, \E r : Continues(w, t, r),
           wire'[w] = wire[w], position[t] <= position'[t], position'[t] \in Nat,
           t \in streamed'[w] => t \in streamed[w] /\ version'[t] = version[t]
    PROVE  \E r : Continues(w, t, r)'
<1>1. PICK r : Continues(w, t, r)
  OBVIOUS
<1>2. Len(wire[w]) \in Nat /\ position[t] \in Nat
  BY FeedAssumption DEF TypeInv
<1>3. r[0] \in Nat
  BY <1>1, <1>2 DEF Continues, Leads
<1>4. Continues(w, t, r)'
  BY <1>1, <1>2, <1>3 DEF Continues, Leads
<1> QED
  BY <1>4

\* What a connection subscribes anew is streamed from its snapshot on.
LEMMA SnapshotsContinue ==
    ASSUME TypeInv, NEW w \in Workers, NEW t \in Tokens, \E r : Continues(w, t, r),
           NEW T \in SUBSET Tokens, wire'[w] = wire[w] \o Snapshots(T),
           streamed'[w] \subseteq streamed[w] \cup T,
           UNCHANGED <<position, version>>
    PROVE  \E r : Continues(w, t, r)'
<1> DEFINE N == Len(wire[w])
           s == Snapshots(T)
<1>1. PICK r : Continues(w, t, r)
  OBVIOUS
<1>2. /\ wire[w] \in Seq(Messages) /\ N \in Nat
      /\ s \in Seq(Messages) /\ Len(s) \in Nat
      /\ \A i \in 1 .. Len(s) : \E u \in T : s[i] = Snapshot(u)
      /\ \A u \in T : \E i \in 1 .. Len(s) : s[i] = Snapshot(u)
  BY SnapshotsOf DEF TypeInv
<1>3. PICK last \in Nat : last = version[t]
  BY DEF TypeInv
<1>4. PICK ms : ms = wire'[w]
  OBVIOUS
<1>5. PICK M \in Nat : M = N
  BY <1>2
<1> DEFINE Seen(i) == \E j \in M + 1 .. i : ms[j].token = t
<1>6. PICK q : q = [i \in 0 .. Len(ms) |-> IF i <= M THEN r[i]
                                           ELSE IF Seen(i) THEN last ELSE r[M]]
  OBVIOUS
<1> HIDE DEF s, N
<1>7. /\ Len(ms) = M + Len(s)
      /\ \A i \in 1 .. M : ms[i] = wire[w][i]
      /\ \A i \in 1 .. Len(s) : ms[M + i] = s[i]
  BY <1>2, <1>4, <1>5, AppendedBehind DEF N, s
<1>8. /\ r \in [0 .. M -> Nat] /\ r[0] <= position[t]
      /\ t \in streamed[w] => r[M] = last
      /\ \A i \in 1 .. M :
           /\ r[i] = IF ms[i].token = t THEN ms[i].version ELSE r[i - 1]
           /\ ms[i].token = t /\ ms[i].kind = "price_change" => ms[i].version = r[i - 1] + 1
  BY <1>1, <1>3, <1>5, <1>7 DEF Continues, Leads, N
<1>9. Len(ms) \in Nat /\ M <= Len(ms)
  BY <1>2, <1>7
<1>10. q \in [0 .. Len(ms) -> Nat]
  <2> HIDE DEF Seen
  <2> QED
    BY <1>6, <1>8, <1>9
<1>11. \A i \in 0 .. M : q[i] = r[i]
  BY <1>6, <1>9
<1>12. ASSUME NEW i \in M + 1 .. Len(ms)
       PROVE  /\ ms[i].kind = "book" /\ (ms[i].token = t => ms[i].version = last)
              /\ q[i] = IF ms[i].token = t THEN ms[i].version ELSE q[i - 1]
  <2>1. i - M \in 1 .. Len(s) /\ M + (i - M) = i
    BY <1>2, <1>7
  <2>2. PICK u \in T : ms[i] = Snapshot(u)
    BY <1>2, <1>7, <2>1
  <2>3. ms[i].kind = "book" /\ ms[i].token = u /\ ms[i].version = version[u]
    BY <2>2 DEF Snapshot
  <2>4. q[i] = IF Seen(i) THEN last ELSE r[M]
    BY <1>6, <1>9
  <2>5. CASE u = t
    <3>1. Seen(i)
      BY <2>3, <2>5
    <3> HIDE DEF Seen
    <3> QED
      BY <1>3, <2>3, <2>4, <2>5, <3>1
  <2>6. CASE u # t
    <3>1. CASE i = M + 1
      <4>1. ~ Seen(i)
        BY <2>3, <2>6, <3>1
      <4>2. q[i - 1] = r[M]
        BY <1>9, <1>11, <3>1
      <4> HIDE DEF Seen
      <4> QED
        BY <2>3, <2>4, <2>6, <4>1, <4>2
    <3>2. CASE i # M + 1
      <4>1. i - 1 \in M + 1 .. Len(ms) /\ i - 1 \in 0 .. Len(ms) /\ ~ (i - 1 <= M)
        BY <1>9, <3>2
      <4>2. Seen(i - 1) <=> Seen(i)
        BY <1>9, <2>3, <2>6, <4>1
      <4>3. q[i - 1] = IF Seen(i - 1) THEN last ELSE r[M]
        BY <1>6, <4>1
      <4> HIDE DEF Seen
      <4> QED
        BY <2>3, <2>4, <2>6, <4>2, <4>3
    <3> QED
      BY <3>1, <3>2
  <2> QED
    BY <2>5, <2>6
<1>13. ASSUME NEW i \in 1 .. Len(ms)
       PROVE  /\ q[i] = IF ms[i].token = t THEN ms[i].version ELSE q[i - 1]
              /\ ms[i].token = t /\ ms[i].kind = "price_change" => ms[i].version = q[i - 1] + 1
  <2>1. CASE i \in 1 .. M
    <3>1. q[i] = r[i] /\ q[i - 1] = r[i - 1]
      BY <1>11, <2>1
    <3> QED
      BY <1>8, <2>1, <3>1
  <2>2. CASE i \in M + 1 .. Len(ms)
    <3>1. ms[i].kind # "price_change"
      BY <1>12, <2>2
    <3> QED
      BY <1>12, <2>2, <3>1
  <2> QED
    BY <1>9, <2>1, <2>2
<1>14. ASSUME t \in streamed'[w] PROVE q[Len(ms)] = last
  <2>1. CASE t \in T
    <3>1. PICK i \in 1 .. Len(s) : s[i] = Snapshot(t)
      BY <1>2, <2>1
    <3>2. M + i \in M + 1 .. Len(ms) /\ ms[M + i].token = t
      BY <1>2, <1>7, <3>1 DEF Snapshot
    <3>3. Seen(Len(ms)) /\ ~ (Len(ms) <= M)
      BY <1>9, <3>2
    <3> HIDE DEF Seen
    <3> QED
      BY <1>6, <1>9, <3>3
  <2>2. CASE t \notin T
    <3>1. r[M] = last
      BY <1>8, <1>14, <2>2
    <3> HIDE DEF Seen
    <3> QED
      BY <1>6, <1>9, <3>1
  <2> QED
    BY <2>1, <2>2
<1>15. q[0] <= position'[t]
  BY <1>8, <1>11
<1>16. Leads(t, wire[w], q)'
  BY <1>4, <1>10, <1>13 DEF Leads
<1>17. Continues(w, t, q)'
  BY <1>3, <1>4, <1>14, <1>15, <1>16 DEF Continues
<1> QED
  BY <1>17

\* What is left of a wire leads where the whole of it led, up to its end.
LEMMA BreakContinues ==
    ASSUME TypeInv, NEW w \in Workers, NEW t \in Tokens, \E r : Continues(w, t, r),
           NEW n \in 0 .. Len(wire[w]), wire'[w] = SubSeq(wire[w], 1, n),
           streamed'[w] = {}, UNCHANGED position
    PROVE  \E r : Continues(w, t, r)'
<1>1. PICK r : Continues(w, t, r)
  OBVIOUS
<1>2. wire[w] \in Seq(Messages) /\ Len(wire[w]) \in Nat /\ n \in Nat
  BY DEF TypeInv
<1>3. Len(wire'[w]) = n /\ \A i \in 1 .. n : wire'[w][i] = wire[w][i]
  BY <1>2, SubSeqProperties
<1>4. PICK q : q = [i \in 0 .. n |-> r[i]]
  OBVIOUS
<1>5. r \in [0 .. Len(wire[w]) -> Nat] /\ r[0] <= position[t]
  BY <1>1 DEF Continues, Leads
<1>6. q \in [0 .. n -> Nat] /\ \A i \in 0 .. n : q[i] = r[i]
  BY <1>2, <1>4, <1>5
<1>7. ASSUME NEW i \in 1 .. n
      PROVE  /\ q[i] = IF wire'[w][i].token = t THEN wire'[w][i].version ELSE q[i - 1]
             /\ wire'[w][i].token = t /\ wire'[w][i].kind = "price_change"
                    => wire'[w][i].version = q[i - 1] + 1
  <2>1. i \in 1 .. Len(wire[w]) /\ i \in 0 .. n /\ i - 1 \in 0 .. n
    BY <1>2
  <2>2. q[i] = r[i] /\ q[i - 1] = r[i - 1] /\ wire'[w][i] = wire[w][i]
    BY <1>3, <1>6, <2>1
  <2> QED
    BY <1>1, <2>1, <2>2 DEF Continues, Leads
<1>8. Leads(t, wire[w], q)'
  BY <1>3, <1>6, <1>7 DEF Leads
<1>9. q[0] <= position'[t]
  BY <1>2, <1>5, <1>6
<1>10. Continues(w, t, q)'
  BY <1>8, <1>9 DEF Continues
<1> QED
  BY <1>10

\* The message that is taken off a wire is the first step of where it leads.
LEMMA ReceiveContinues ==
    ASSUME TypeInv, NEW w \in Workers, NEW t \in Tokens, \E r : Continues(w, t, r), Receive(w)
    PROVE  \E r : Continues(w, t, r)'
<1> DEFINE m == Head(wire[w])
<1>1. PICK r : Continues(w, t, r)
  OBVIOUS
<1>2. /\ wire[w] \in Seq(Messages) /\ wire[w] # <<>> /\ m = wire[w][1]
      /\ wire'[w] = Tail(wire[w]) /\ 1 \in 1 .. Len(wire[w]) /\ Len(wire[w]) \in Nat
  BY DEF TypeInv, Receive
<1>3. PICK n \in Nat : n = Len(wire[w]) - 1
  BY <1>2
<1>4. Len(wire'[w]) = n /\ \A i \in 1 .. n : wire'[w][i] = wire[w][i + 1]
  BY <1>2, <1>3, HeadTailProperties
<1>5. PICK q : q = [i \in 0 .. n |-> r[i + 1]]
  OBVIOUS
<1>6. r \in [0 .. n + 1 -> Nat] /\ r[0] <= position[t] /\ n + 1 = Len(wire[w])
  BY <1>1, <1>3, <1>2 DEF Continues, Leads
<1>7. q \in [0 .. n -> Nat] /\ \A i \in 0 .. n : q[i] = r[i + 1]
  BY <1>5, <1>6
<1>8. ASSUME NEW i \in 1 .. n
      PROVE  /\ q[i] = IF wire'[w][i].token = t THEN wire'[w][i].version ELSE q[i - 1]
             /\ wire'[w][i].token = t /\ wire'[w][i].kind = "price_change"
                    => wire'[w][i].version = q[i - 1] + 1
  <2>1. i + 1 \in 1 .. Len(wire[w]) /\ i \in 0 .. n /\ i - 1 \in 0 .. n
        /\ (i - 1) + 1 = i /\ (i + 1) - 1 = i
    BY <1>6
  <2>2. q[i] = r[i + 1] /\ q[i - 1] = r[i] /\ wire'[w][i] = wire[w][i + 1]
    BY <1>4, <1>7, <2>1
  <2>3. /\ r[i + 1] = IF wire[w][i + 1].token = t THEN wire[w][i + 1].version ELSE r[i]
        /\ wire[w][i + 1].token = t /\ wire[w][i + 1].kind = "price_change"
               => wire[w][i + 1].version = r[i] + 1
    BY <1>1, <2>1 DEF Continues, Leads
  <2> QED
    BY <2>2, <2>3
<1>9. Leads(t, wire[w], q)'
  BY <1>4, <1>7, <1>8 DEF Leads
<1>10. q[0] <= position'[t]
  <2>1. q[0] = r[1] /\ r[1] = IF m.token = t THEN m.version ELSE r[0]
    BY <1>1, <1>2, <1>6, <1>7 DEF Continues, Leads
  <2>2. position[t] \in Nat /\ r[0] \in Nat /\ m.version \in Nat /\ m.token \in Tokens
    <3>1. m \in Messages
      BY <1>2
    <3> HIDE DEF m
    <3>2. m.version \in Nat /\ m.token \in Tokens
      BY <3>1, FeedAssumption DEF Messages, BookMessages, ChangeMessages
    <3>3. position[t] \in Nat /\ r[0] \in Nat
      BY <1>6, FeedAssumption DEF TypeInv
    <3> QED
      BY <3>2, <3>3
  <2>3. position'[t] = IF m.token = t /\ m.version > position[t] THEN m.version ELSE position[t]
    BY <2>2 DEF Receive, ReceiveBook, Vouch, ReceivePriceChange, TypeInv
  <2> QED
    BY <1>6, <2>1, <2>2, <2>3
<1>11. t \in streamed'[w] => q[Len(wire'[w])] = version'[t]
  <2>1. streamed' = streamed /\ version' = version
    BY DEF Receive, exchangeVars
  <2>2. q[n] = r[Len(wire[w])]
    BY <1>6, <1>7
  <2> QED
    BY <1>1, <1>4, <2>1, <2>2 DEF Continues
<1>12. Continues(w, t, q)'
  BY <1>9, <1>10, <1>11 DEF Continues
<1> QED
  BY <1>12

\* Who carries a token is told of its change, which follows what it was told before.
LEMMA BookChangesContinue ==
    ASSUME TypeInv, NEW w \in Workers, NEW t \in Tokens, \E r : Continues(w, t, r),
           NEW u \in Tokens, NEW s \in Sides, NEW p \in Prices, BookChanges(u, s, p)
    PROVE  \E r : Continues(w, t, r)'
<1> DEFINE c == [token |-> u, side |-> s, price |-> p, listed |-> p \notin book[u][s]]
<1>0. PICK m : m = [kind |-> "price_change", token |-> u, change |-> c,
                    version |-> version[u] + 1]
  OBVIOUS
<1>1. /\ wire'[w] = IF u \in streamed[w] THEN Append(wire[w], m) ELSE wire[w]
      /\ version' = [version EXCEPT ![u] = version[u] + 1]
      /\ position' = position /\ streamed' = streamed
      /\ position[t] \in Nat
  BY <1>0, FeedAssumption DEF BookChanges, history, TypeInv
<1>2. m.kind = "price_change" /\ m.token = u /\ m.version = version[u] + 1
  BY <1>0
<1>3. /\ wire[w] \in Seq(Messages) /\ Len(wire[w]) \in Nat
      /\ version[u] \in Nat /\ version[t] \in Nat
      /\ version'[t] = IF t = u THEN version[u] + 1 ELSE version[t]
  BY <1>1 DEF TypeInv
<1>4. CASE u \notin streamed[w]
  BY <1>1, <1>3, <1>4, WireStays
<1>5. CASE u \in streamed[w]
  <2>1. PICK r : Continues(w, t, r)
    OBVIOUS
  <2>2. PICK n \in Nat : n = Len(wire[w])
    BY <1>3
  <2>3. PICK x : x = IF t = u THEN version[u] + 1 ELSE r[n]
    OBVIOUS
  <2>4. PICK q : q = [i \in 0 .. n + 1 |-> IF i = n + 1 THEN x ELSE r[i]]
    OBVIOUS
  <2>5. /\ Len(wire'[w]) = n + 1 /\ wire'[w][n + 1] = m
        /\ \A i \in 1 .. n : wire'[w][i] = wire[w][i]
    BY <1>1, <1>3, <1>5, <2>2, AppendProperties
  <2>6. /\ r \in [0 .. n -> Nat] /\ r[0] <= position[t]
        /\ t \in streamed[w] => r[n] = version[t]
    BY <2>1, <2>2 DEF Continues, Leads
  <2>7. x \in Nat
    BY <1>3, <2>3, <2>6
  <2>8. /\ q \in [0 .. n + 1 -> Nat] /\ q[n + 1] = x
        /\ \A i \in 0 .. n : q[i] = r[i]
    BY <2>4, <2>6, <2>7
  <2>9. ASSUME NEW i \in 1 .. n + 1
        PROVE  /\ q[i] = IF wire'[w][i].token = t THEN wire'[w][i].version ELSE q[i - 1]
               /\ wire'[w][i].token = t /\ wire'[w][i].kind = "price_change"
                      => wire'[w][i].version = q[i - 1] + 1
    <3>1. CASE i = n + 1
      <4>1. wire'[w][i] = m /\ q[i] = x /\ q[i - 1] = r[n]
        BY <2>5, <2>8, <3>1
      <4>2. CASE t = u
        <5>1. r[n] = version[u]
          BY <1>5, <2>6, <4>2
        <5> QED
          BY <1>2, <2>3, <4>1, <4>2, <5>1
      <4>3. CASE t # u
        BY <1>2, <2>3, <4>1, <4>3
      <4> QED
        BY <4>2, <4>3
    <3>2. CASE i # n + 1
      <4>1. i \in 1 .. n /\ i \in 0 .. n /\ i - 1 \in 0 .. n
        BY <3>2
      <4>2. q[i] = r[i] /\ q[i - 1] = r[i - 1] /\ wire'[w][i] = wire[w][i]
        BY <2>5, <2>8, <4>1
      <4> QED
        BY <2>1, <2>2, <4>1, <4>2 DEF Continues, Leads
    <3> QED
      BY <3>1, <3>2
  <2>10. Leads(t, wire[w], q)'
    BY <2>5, <2>8, <2>9 DEF Leads
  <2>11. q[0] <= position'[t]
    BY <1>1, <2>6, <2>8
  <2>12. t \in streamed'[w] => q[Len(wire'[w])] = version'[t]
    BY <1>1, <1>3, <2>3, <2>5, <2>6, <2>8
  <2>13. Continues(w, t, q)'
    BY <2>10, <2>11, <2>12 DEF Continues
  <2> QED
    BY <2>13
<1> QED
  BY <1>4, <1>5

-----------------------------------------------------------------------------
(* The invariant *)

\* At the start no book has changed and no wire has a message.
LEMMA BookInitially ==
    ASSUME Init
    PROVE  BookInv
<1> DEFINE h == [t \in Tokens |-> [n \in Nat |-> {}]]
           r == [i \in 0 .. 0 |-> 0]
<1>1. h \in Histories
  BY DEF Histories, Levels
<1>2. /\ \A t \in Tokens : book[t]["ask"] = {} /\ version[t] = 0 /\ position[t] = 0
      /\ ready = {} /\ fetches = {}
      /\ \A w \in Workers : wire[w] = <<>> /\ streamed[w] = {}
  BY DEF Init, CacheInit, Sides
<1>3. Follows(h)
  <2>1. \A t \in Tokens : h[t][0] = {}
    OBVIOUS
  <2> HIDE DEF h
  <2>2. ASSUME NEW t \in Tokens
        PROVE  h[t][version[t]] = book[t]["ask"] /\ position[t] <= version[t]
    <3>1. version[t] = 0 /\ position[t] = 0 /\ book[t]["ask"] = {}
      BY <1>2
    <3>2. h[t][0] = {} /\ 0 <= 0
      BY <2>1
    <3> QED
      BY <3>1, <3>2
  <2>3. \A w \in Workers : 1 .. Len(wire[w]) = {}
    BY <1>2
  <2> QED
    BY <1>2, <2>2, <2>3 DEF Follows
<1>4. ASSUME NEW w \in Workers, NEW t \in Tokens PROVE Continues(w, t, r)
  <2>1. r \in [0 .. 0 -> Nat] /\ r[0] = 0
    OBVIOUS
  <2> HIDE DEF r
  <2>2. Len(wire[w]) = 0 /\ 1 .. Len(wire[w]) = {}
    BY <1>2
  <2>3. Leads(t, wire[w], r)
    BY <2>1, <2>2 DEF Leads
  <2>4. r[0] <= position[t] /\ t \notin streamed[w]
    BY <1>2, <2>1
  <2> QED
    BY <2>3, <2>4 DEF Continues
<1> QED
  BY <1>1, <1>3, <1>4 DEF BookInv, WireInv

\* A step that leaves wires and the cache alone, but for tokens that turn stale.
LEMMA StillStep ==
    ASSUME TypeInv, BookInv, UNCHANGED <<books, exchangeVars, wire, fetches, position, disturbed>>,
           streamed' = streamed, ready' \subseteq ready
    PROVE  BookInv'
<1>1. PICK h \in Histories : Follows(h)
  BY DEF BookInv
<1>2. wire' = wire /\ version' = version /\ position' = position
  BY DEF exchangeVars
<1>3. Follows(h)'
  BY <1>1, <1>2, QuietFollows
<1>4. ASSUME NEW w \in Workers, NEW t \in Tokens PROVE \E r : Continues(w, t, r)'
  <2>1. position[t] \in Nat
    BY FeedAssumption DEF TypeInv
  <2>2. \E r : Continues(w, t, r)
    BY DEF BookInv, WireInv
  <2> QED
    BY <1>2, <2>1, <2>2, WireStays
<1> QED
  BY <1>3, <1>4 DEF BookInv, WireInv

\* A step that subscribes T on the connection of w, and unsubscribes nothing of it.
LEMMA SubscribeStep ==
    ASSUME TypeInv, BookInv, NEW w \in Workers, NEW T \in SUBSET Tokens,
           UNCHANGED <<cacheVars, exchangeVars, fetches, history>>,
           wire' = [wire EXCEPT ![w] = wire[w] \o Snapshots(T)],
           \A v \in Workers : v # w => streamed'[v] = streamed[v],
           streamed'[w] \subseteq streamed[w] \cup T
    PROVE  BookInv'
<1>1. PICK h \in Histories : Follows(h)
  BY DEF BookInv
<1>2. /\ books' = books /\ ready' = ready /\ position' = position /\ disturbed' = disturbed
      /\ version' = version
  BY DEF cacheVars, history, exchangeVars
<1>3. /\ wire'[w] = wire[w] \o Snapshots(T)
      /\ \A v \in Workers : v # w => wire'[v] = wire[v]
  BY DEF TypeInv
<1>4. ASSUME NEW v \in Workers, NEW i \in 1 .. Len(wire'[v])
      PROVE  \/ \E j \in 1 .. Len(wire[v]) : wire'[v][i] = wire[v][j]
             \/ \E t \in Tokens : wire'[v][i] = Snapshot(t)
  <2>1. CASE v # w
    BY <1>3, <2>1
  <2>2. CASE v = w
    <3> DEFINE s == Snapshots(T)
    <3>1. /\ wire[w] \in Seq(Messages) /\ s \in Seq(Messages)
          /\ \A k \in 1 .. Len(s) : \E t \in T : s[k] = Snapshot(t)
      BY SnapshotsOf DEF TypeInv
    <3>2. PICK both : both = wire'[w] /\ both = wire[w] \o s
      BY <1>3
    <3> HIDE DEF s
    <3>3. both = wire[w] \o s
      BY <3>2
    <3>4. /\ Len(wire[w]) \in Nat /\ Len(s) \in Nat /\ Len(both) = Len(wire[w]) + Len(s)
          /\ \A k \in 1 .. Len(wire[w]) : both[k] = wire[w][k]
          /\ \A k \in 1 .. Len(s) : both[Len(wire[w]) + k] = s[k]
      BY ONLY <3>1, <3>3, AppendedBehind
    <3>5. CASE i <= Len(wire[w])
      BY <2>2, <3>4, <3>5, <3>2
    <3>6. CASE ~ (i <= Len(wire[w]))
      <4>1. i - Len(wire[w]) \in 1 .. Len(s) /\ Len(wire[w]) + (i - Len(wire[w])) = i
        BY <2>2, <3>4, <3>6, <3>2
      <4>2. wire'[w][i] = s[i - Len(wire[w])]
        BY <3>4, <3>2, <4>1
      <4> QED
        BY <2>2, <3>1, <4>1, <4>2
    <3> QED
      BY <3>5, <3>6
  <2> QED
    BY <2>1, <2>2
<1>5. Follows(h)'
  BY <1>1, <1>2, <1>4, QuietFollows
<1>6. ASSUME NEW v \in Workers, NEW t \in Tokens PROVE \E r : Continues(v, t, r)'
  <2>1. position[t] \in Nat
    BY FeedAssumption DEF TypeInv
  <2>2. \E r : Continues(v, t, r)
    BY DEF BookInv, WireInv
  <2>3. CASE v = w
    BY <1>2, <1>3, <2>2, <2>3, SnapshotsContinue
  <2>4. CASE v # w
    BY <1>2, <1>3, <2>1, <2>2, <2>4, WireStays
  <2> QED
    BY <2>3, <2>4
<1> QED
  BY <1>5, <1>6 DEF BookInv, WireInv

\* The step that loses the end of a wire.
LEMMA BreakStep ==
    ASSUME TypeInv, BookInv, NEW w \in Workers, Break(w)
    PROVE  BookInv'
<1>1. PICK h \in Histories : Follows(h)
  BY DEF BookInv
<1>2. PICK n \in 0 .. Len(wire[w]) : wire' = [wire EXCEPT ![w] = SubSeq(wire[w], 1, n)]
  BY DEF Break
<1>3. /\ wire'[w] = SubSeq(wire[w], 1, n) /\ streamed'[w] = {}
      /\ \A v \in Workers : v # w => wire'[v] = wire[v] /\ streamed'[v] = streamed[v]
  BY <1>2 DEF Break, TypeInv
<1>4. /\ UNCHANGED <<books, exchangeVars, fetches, position, disturbed>> /\ ready' = ready
      /\ version' = version /\ position' = position
  BY DEF Break, cacheVars, exchangeVars
<1>5. ASSUME NEW v \in Workers, NEW i \in 1 .. Len(wire'[v])
      PROVE  \E j \in 1 .. Len(wire[v]) : wire'[v][i] = wire[v][j]
  <2>1. CASE v # w
    BY <1>3, <2>1
  <2>2. CASE v = w
    <3>1. wire[w] \in Seq(Messages) /\ Len(wire[w]) \in Nat /\ n \in Nat
      BY DEF TypeInv
    <3>2. Len(wire'[w]) = n /\ \A k \in 1 .. n : wire'[w][k] = wire[w][k]
      BY <1>3, <3>1, SubSeqProperties
    <3> QED
      BY <2>2, <3>1, <3>2
  <2> QED
    BY <2>1, <2>2
<1>6. Follows(h)'
  BY <1>1, <1>4, <1>5, QuietFollows
<1>7. ASSUME NEW v \in Workers, NEW t \in Tokens PROVE \E r : Continues(v, t, r)'
  <2>1. position[t] \in Nat
    BY FeedAssumption DEF TypeInv
  <2>2. \E r : Continues(v, t, r)
    BY DEF BookInv, WireInv
  <2>3. CASE v = w
    BY <1>3, <1>4, <2>2, <2>3, BreakContinues
  <2>4. CASE v # w
    BY <1>3, <1>4, <2>1, <2>2, <2>4, WireStays
  <2> QED
    BY <2>3, <2>4
<1> QED
  BY <1>6, <1>7 DEF BookInv, WireInv

\* The step that applies a message.
LEMMA ReceiveStep ==
    ASSUME TypeInv, TypeInv', BookInv, NEW w \in Workers, Receive(w)
    PROVE  BookInv'
<1>1. PICK h \in Histories : Follows(h)
  BY DEF BookInv
<1>2. Follows(h)'
  BY <1>1, ReceiveFollows DEF BookInv
<1>3. /\ \A v \in Workers : v # w => wire'[v] = wire[v]
      /\ version' = version /\ streamed' = streamed
  BY DEF Receive, exchangeVars, TypeInv
<1>4. ASSUME NEW v \in Workers, NEW t \in Tokens PROVE \E r : Continues(v, t, r)'
  <2>1. \E r : Continues(v, t, r)
    BY DEF BookInv, WireInv
  <2>2. CASE v = w
    BY <2>1, <2>2, ReceiveContinues
  <2>3. CASE v # w
    <3>1. position[t] \in Nat /\ position'[t] \in Nat
      BY FeedAssumption DEF TypeInv
    <3>2. PICK m : m = Head(wire[w])
      OBVIOUS
    <3>3. m.token \in Tokens /\ m.version \in Nat
      <4>1. wire[w] \in Seq(Messages) /\ wire[w] # <<>>
        BY DEF TypeInv, Receive
      <4>2. m \in Messages
        BY <3>2, <4>1, HeadTailProperties
      <4> QED
        BY <4>2, FeedAssumption DEF Messages, BookMessages, ChangeMessages
    <3>4. position' = [position EXCEPT ![m.token] = IF m.version > position[m.token]
                                                    THEN m.version ELSE position[m.token]]
      BY <3>2 DEF Receive, ReceiveBook, Vouch, ReceivePriceChange
    <3>5. position[t] <= position'[t]
      BY <3>1, <3>3, <3>4 DEF TypeInv
    <3> QED
      BY <1>3, <2>1, <2>3, <3>1, <3>5, WireStays
  <2> QED
    BY <2>2, <2>3
<1> QED
  BY <1>2, <1>4 DEF BookInv, WireInv

\* Every step continues what is cached, what is on the wires and what was read.
LEMMA BookStep ==
    ASSUME FeedInv, FeedInv', BookInv, [Next]_vars
    PROVE  BookInv'
<1>1. TypeInv /\ TypeInv' /\ UpdateInv
  BY DEF FeedInv
<1>2. CASE Exhausted \/ UNCHANGED vars
  BY <1>1, <1>2, StillStep DEF Exhausted, vars, cacheVars, workerVars, history
<1>3. ASSUME NEW t \in Tokens, NEW s \in Sides, NEW p \in Prices, BookChanges(t, s, p)
      PROVE  BookInv'
  <2>1. PICK h \in Histories : Follows(h)
    BY DEF BookInv
  <2>2. \E g \in Histories : Follows(g)'
    BY <1>1, <1>3, <2>1, BookChangesFollows
  <2>3. \A w \in Workers, u \in Tokens : \E r : Continues(w, u, r)'
    BY <1>1, <1>3, BookChangesContinue DEF BookInv, WireInv
  <2> QED
    BY <2>2, <2>3 DEF BookInv, WireInv
<1>4. ASSUME NEW w \in Workers, Break(w) PROVE BookInv'
  BY <1>1, <1>4, BreakStep
<1>5. ASSUME NEW w \in Workers, Connect(w) PROVE BookInv'
  <2>1. assets[w] \in SUBSET Tokens /\ wire[w] = <<>>
    BY <1>1, <1>5 DEF Connect, TypeInv
  <2>2. Snapshots(assets[w]) \in Seq(Messages)
    BY <1>1, <2>1, SnapshotsOf
  <2>3. wire' = [wire EXCEPT ![w] = wire[w] \o Snapshots(assets[w])]
    <3>1. <<>> \o Snapshots(assets[w]) = Snapshots(assets[w])
      BY <2>2, ConcatEmptySeq
    <3> QED
      BY <1>5, <2>1, <3>1 DEF Connect
  <2>4. \A v \in Workers : v # w => streamed'[v] = streamed[v]
    BY <1>1, <1>5 DEF Connect, TypeInv
  <2>5. streamed'[w] \subseteq streamed[w] \cup assets[w]
    BY <1>1, <1>5 DEF Connect, TypeInv
  <2>6. UNCHANGED <<cacheVars, exchangeVars, fetches, history>>
    BY <1>5 DEF Connect
  <2> QED
    BY <1>1, <2>1, <2>3, <2>4, <2>5, <2>6, SubscribeStep
<1>6. ASSUME NEW w \in Workers, Receive(w) PROVE BookInv'
  BY <1>1, <1>6, ReceiveStep
<1>7. ASSUME NEW w \in Workers, ConnectionLost(w) PROVE BookInv'
  BY <1>1, <1>7, StillStep DEF ConnectionLost, MarkTokensStale, history
<1>8. ASSUME NEW w \in Workers, AssignTokens(w) PROVE BookInv'
  BY <1>1, <1>8, StillStep DEF AssignTokens, cacheVars, history
<1>9. ASSUME NEW w \in Workers, SendUpdates(w) PROVE BookInv'
  <2>1. UNCHANGED <<cacheVars, exchangeVars, fetches, history>>
    BY <1>9 DEF SendUpdates
  <2>2. CASE link[w] = "up"
    <3>1. update.added \in SUBSET Tokens
      BY <1>1, <1>9 DEF SendUpdates, UpdateInv, Sending, TypeInv
    <3>2. /\ streamed' = [streamed EXCEPT ![w] = (streamed[w] \cup update.added)
                                                     \ update.removed]
          /\ wire' = [wire EXCEPT ![w] = wire[w] \o Snapshots(update.added)]
      BY <1>9, <2>2 DEF SendUpdates
    <3>3. /\ streamed'[w] \subseteq streamed[w] \cup update.added
          /\ \A v \in Workers : v # w => streamed'[v] = streamed[v]
      BY <1>1, <3>2 DEF TypeInv
    <3> QED
      BY <1>1, <2>1, <3>1, <3>2, <3>3, SubscribeStep
  <2>3. CASE link[w] # "up"
    <3>1. UNCHANGED <<streamed, wire>>
      BY <1>9, <2>3 DEF SendUpdates
    <3> QED
      BY <1>1, <2>1, <3>1, StillStep DEF cacheVars, history
  <2> QED
    BY <2>2, <2>3
<1>10. ASSUME NEW w \in Workers, SendFails(w) PROVE BookInv'
  BY <1>1, <1>10, StillStep DEF SendFails, cacheVars, workerVars, history
<1>11. ASSUME NEW found \in Universes, StartUpdate(found) PROVE BookInv'
  BY <1>1, <1>11, StillStep DEF StartUpdate, cacheVars, workerVars, history
<1>12. CASE AddWorkers
  BY <1>1, <1>12, StillStep DEF AddWorkers, cacheVars, history
<1>13. ASSUME NEW r \in Reads, RestRead(r) PROVE BookInv'
  <2>1. PICK h \in Histories : Follows(h)
    BY DEF BookInv
  <2>2. Follows(h)'
    BY <1>1, <1>13, <2>1, RestReadFollows
  <2>3. /\ wire' = wire /\ streamed' = streamed /\ version' = version
        /\ position' = position /\ position \in [Tokens -> Nat]
    BY <1>1, <1>13, FeedAssumption DEF RestRead, workerVars, exchangeVars, history, TypeInv
  <2>4. \A w \in Workers, t \in Tokens : \E r2 : Continues(w, t, r2)'
    BY <1>1, <2>3, WireStays DEF BookInv, WireInv
  <2> QED
    BY <2>2, <2>4 DEF BookInv, WireInv
<1>14. ASSUME NEW f \in fetches, Seed(f) PROVE BookInv'
  <2>1. PICK h \in Histories : Follows(h)
    BY DEF BookInv
  <2>2. Follows(h)'
    BY <1>1, <1>14, <2>1, SeedFollows
  <2>3. /\ wire' = wire /\ streamed' = streamed /\ version' = version
        /\ position' = position /\ position \in [Tokens -> Nat]
    BY <1>1, <1>14, FeedAssumption DEF Seed, workerVars, exchangeVars, TypeInv
  <2>4. \A w \in Workers, t \in Tokens : \E r : Continues(w, t, r)'
    BY <1>1, <2>3, WireStays DEF BookInv, WireInv
  <2> QED
    BY <2>2, <2>4 DEF BookInv, WireInv
<1> QED
  BY <1>2, <1>3, <1>4, <1>5, <1>6, <1>7, <1>8, <1>9, <1>10, <1>11, <1>12, <1>13, <1>14 DEF Next

\* The cached asks of a ready token are what the exchange lists, but for the messages that a
\* connection carrying the token has yet to deliver and for what an older book or change that
\* came late has undone (apply_payload, seed_ask_books, mark_tokens_stale, run).
THEOREM CachedAsksFollow == Spec => []AskAgrees
<1>1. Init => FeedInv /\ BookInv
  BY FeedInitially, BookInitially
<1>2. (FeedInv /\ BookInv) /\ [Next]_vars => (FeedInv /\ BookInv)'
  BY FeedStep, BookStep
<1>3. FeedInv /\ BookInv => AskAgrees
  BY FollowingAgrees DEF FeedInv
<1> QED
  BY <1>1, <1>2, <1>3, PTL DEF Spec

=============================================================================
