------------------------ MODULE FillEvaluationProofs ------------------------
(***************************************************************************)
(* The evaluation of a fill for any books, prices, rates, budgets, evidence  *)
(* and thresholds: the plan of a signal is the best one, a second look at    *)
(* the same books confirms it, and an execution rests on public depth, pays  *)
(* and fits the budget.  Most of it is about the loop over the levels of two *)
(* books: where it stops, and why a pair beyond is dear or out of budget.    *)
(***************************************************************************)
EXTENDS ArbStrategy, FiniteSums, FiniteSetTheorems, SequenceTheorems, WellFoundedInduction, TLAPS

-----------------------------------------------------------------------------
(* Numbers *)

\* Induction over 0 .. n, stated for sets.
LEMMA CountingUp ==
    ASSUME NEW n \in Nat, NEW S, 0 \in S, \A k \in 0 .. n - 1 : k \in S => k + 1 \in S
    PROVE  0 .. n \subseteq S
<1> DEFINE B == {k \in 0 .. n : k \notin S}
           R == OpToRel(<, Nat)
<1> SUFFICES ASSUME B # {} PROVE FALSE
  OBVIOUS
<1>1. PICK k \in B : \A j \in B : <<j, k>> \notin R
  <2>1. IsWellFoundedOn(R, Nat)
    BY NatLessThanWellFounded
  <2>2. B \subseteq Nat
    OBVIOUS
  <2> HIDE DEF R, B
  <2> QED
    BY <2>1, <2>2, WFMin
<1>2. k # 0 /\ k \in 0 .. n /\ k \notin S
  OBVIOUS
<1>3. k - 1 \in 0 .. n - 1 /\ (k - 1) + 1 = k
  BY <1>2
<1>4. k - 1 \in S
  <2>1. SUFFICES ASSUME k - 1 \notin S PROVE FALSE
    OBVIOUS
  <2>2. k - 1 \in B
    BY <1>3, <2>1
  <2>3. <<k - 1, k>> \in R
    BY <1>2, <1>3 DEF OpToRel
  <2> QED
    BY <1>1, <2>2, <2>3
<1> QED
  BY <1>2, <1>3, <1>4

\* A product grows with its factor.
LEMMA TimesGrows ==
    ASSUME NEW a \in Int, NEW b \in Int, NEW c \in Nat, a <= b
    PROVE  a * c <= b * c
<1>1. b - a \in Nat
  OBVIOUS
<1>2. (b - a) * c \in Nat
  BY <1>1
<1>3. (b - a) * c = b * c - a * c
  OBVIOUS
<1>4. a * c \in Int /\ b * c \in Int
  OBVIOUS
<1> QED
  BY <1>2, <1>3, <1>4

\* A whole number is within a quotient if so many divisors are within the dividend.
LEMMA WithinQuotient ==
    ASSUME NEW a \in Int, NEW d \in Nat \ {0}, NEW s \in Int
    PROVE  a \div d \in Int /\ (s <= a \div d <=> s * d <= a)
<1> DEFINE q == a \div d
<1>1. q \in Int /\ q * d <= a /\ a < q * d + d
  OBVIOUS
<1> HIDE DEF q
<1>2. s * d \in Int /\ q * d \in Int /\ (q + 1) * d = q * d + d
  BY <1>1
<1>3. ASSUME s <= q PROVE s * d <= a
  BY <1>1, <1>2, <1>3, TimesGrows
<1>4. ASSUME ~(s <= q) PROVE ~(s * d <= a)
  <2>1. (q + 1) * d <= s * d
    BY <1>1, <1>4, TimesGrows
  <2> QED
    BY <1>1, <1>2, <2>1
<1> QED
  BY <1>1, <1>3, <1>4 DEF q

-----------------------------------------------------------------------------
(* Books and what they cost *)

\* What the constants of the arithmetic are.
LEMMA Constant ==
    /\ Prices # {} /\ \A p \in Prices : p \in Nat /\ p > 0 /\ p < Payout
    /\ Payout \in Nat /\ Payout > 0 /\ Base \in Nat /\ Base > 0
    /\ Slip \in Nat /\ Fee \in Nat /\ Merge \in Nat /\ Ceiling \in Nat /\ Reserve \in Nat
  BY ArithmeticAssumption

\* A book lists its shares by price, not only neighbours.
LEMMA BookRises ==
    ASSUME NEW b \in Books
    PROVE  /\ b \in Seq(Prices) /\ Len(b) \in Nat /\ DOMAIN b = 1 .. Len(b)
           /\ \A k \in 1 .. Len(b) : b[k] \in Prices /\ b[k] \in Nat /\ b[k] > 0
           /\ \A i, j \in 1 .. Len(b) : i <= j => b[i] <= b[j]
<1>1. b \in Seq(Prices) /\ Len(b) \in Nat /\ DOMAIN b = 1 .. Len(b)
  BY DEF Books
<1>2. ASSUME NEW k \in 1 .. Len(b) PROVE b[k] \in Prices /\ b[k] \in Nat /\ b[k] > 0
  <2>1. b[k] \in Prices
    BY <1>1
  <2> QED
    BY <2>1, Constant
<1>3. ASSUME NEW i \in 1 .. Len(b)
      PROVE  \A j \in 1 .. Len(b) : i <= j => b[i] <= b[j]
  <2> DEFINE S == {n \in 0 .. Len(b) - i : b[i] <= b[i + n]}
  <2>1. Len(b) - i \in Nat
    BY <1>1
  <2>2. 0 \in S
    BY <1>1, <1>2
  <2>3. \A n \in 0 .. (Len(b) - i) - 1 : n \in S => n + 1 \in S
    <3> SUFFICES ASSUME NEW n \in 0 .. (Len(b) - i) - 1, b[i] <= b[i + n]
                 PROVE  n + 1 \in 0 .. Len(b) - i /\ b[i] <= b[i + (n + 1)]
      OBVIOUS
    <3>1. i + (n + 1) \in 2 .. Len(b) /\ (i + (n + 1)) - 1 = i + n /\ i + n \in 1 .. Len(b)
      BY <1>1
    <3>2. b[(i + (n + 1)) - 1] <= b[i + (n + 1)]
      BY <3>1 DEF Books
    <3>3. b[i] \in Nat /\ b[i + n] \in Nat /\ b[i + (n + 1)] \in Nat
      BY <1>2, <3>1
    <3> QED
      BY <1>1, <3>1, <3>2, <3>3
  <2> HIDE DEF S
  <2>4. 0 .. Len(b) - i \subseteq S
    BY <2>1, <2>2, <2>3, CountingUp
  <2> USE DEF S
  <2>5. ASSUME NEW j \in 1 .. Len(b), i <= j PROVE b[i] <= b[j]
    <3>1. j - i \in 0 .. Len(b) - i /\ i + (j - i) = j
      BY <1>1, <2>5
    <3> QED
      BY <2>4, <3>1
  <2> QED
    BY <2>5
<1> QED
  BY <1>1, <1>2, <1>3

\* The running cost that FillCost names exists.
LEMMA CostsExist ==
    ASSUME NEW b \in Books
    PROVE  \E s \in [0 .. Len(b) -> Nat] :
               \A k \in 0 .. Len(b) : s[k] = IF k = 0 THEN 0 ELSE s[k - 1] + b[k]
<1> DEFINE S == {n \in 0 .. Len(b) : \E s \in [0 .. Len(b) -> Nat] :
                   \A k \in 0 .. n : s[k] = IF k = 0 THEN 0 ELSE s[k - 1] + b[k]}
<1>1. Len(b) \in Nat
  BY BookRises
<1>2. 0 \in S
  <2> DEFINE z == [k \in 0 .. Len(b) |-> 0]
  <2>1. z \in [0 .. Len(b) -> Nat] /\ 0 \in 0 .. Len(b)
    BY <1>1
  <2>2. \A k \in 0 .. 0 : z[k] = IF k = 0 THEN 0 ELSE z[k - 1] + b[k]
    BY <2>1
  <2> HIDE DEF z
  <2> QED
    BY <2>1, <2>2
<1>3. \A n \in 0 .. Len(b) - 1 : n \in S => n + 1 \in S
  <2> SUFFICES ASSUME NEW n \in 0 .. Len(b) - 1, n \in S PROVE n + 1 \in S
    OBVIOUS
  <2>1. PICK s \in [0 .. Len(b) -> Nat] :
                 \A k \in 0 .. n : s[k] = IF k = 0 THEN 0 ELSE s[k - 1] + b[k]
    OBVIOUS
  <2> DEFINE r == [s EXCEPT ![n + 1] = s[n] + b[n + 1]]
  <2>2. n + 1 \in 1 .. Len(b) /\ n \in 0 .. Len(b) /\ b[n + 1] \in Nat
    BY <1>1, BookRises
  <2>3. r \in [0 .. Len(b) -> Nat]
    BY <2>2
  <2>4. ASSUME NEW k \in 0 .. n + 1
        PROVE  r[k] = IF k = 0 THEN 0 ELSE r[k - 1] + b[k]
    BY <1>1, <2>1, <2>2
  <2>5. n + 1 \in 0 .. Len(b)
    BY <2>2
  <2> HIDE DEF r
  <2> QED
    BY <2>3, <2>4, <2>5
<1> HIDE DEF S
<1>4. 0 .. Len(b) \subseteq S
  BY <1>1, <1>2, <1>3, CountingUp
<1>5. Len(b) \in S
  BY <1>1, <1>4
<1> QED
  BY <1>5 DEF S

\* FillCost adds the price of one share after the other.
LEMMA CostOfOneMore ==
    ASSUME NEW b \in Books
    PROVE  /\ FillCost(b, 0) = 0
           /\ \A q \in 0 .. Len(b) : FillCost(b, q) \in Nat
           /\ \A q \in 1 .. Len(b) : FillCost(b, q) = FillCost(b, q - 1) + b[q]
<1> DEFINE R(s) == s = [k \in 0 .. Len(b) |-> IF k = 0 THEN 0 ELSE s[k - 1] + b[k]]
           c == CHOOSE s : R(s)
<1>1. PICK s \in [0 .. Len(b) -> Nat] :
               \A k \in 0 .. Len(b) : s[k] = IF k = 0 THEN 0 ELSE s[k - 1] + b[k]
  BY CostsExist
<1>2. R(s)
  BY <1>1
<1>3. R(c)
  BY <1>2
<1>4. \A q : FillCost(b, q) = c[q]
  BY DEF FillCost
<1>5. Len(b) \in Nat /\ \A k \in 1 .. Len(b) : b[k] \in Nat
  BY BookRises
<1> DEFINE S == {n \in 0 .. Len(b) : c[n] \in Nat}
<1>6. c[0] = 0 /\ \A q \in 1 .. Len(b) : c[q] = c[q - 1] + b[q]
  <2> HIDE DEF c
  <2> QED
    BY <1>3, <1>5
<1> HIDE DEF c
<1>7. 0 \in S /\ \A n \in 0 .. Len(b) - 1 : n \in S => n + 1 \in S
  BY <1>5, <1>6
<1> HIDE DEF S
<1>8. 0 .. Len(b) \subseteq S
  BY <1>5, <1>7, CountingUp
<1> QED
  BY <1>4, <1>6, <1>8 DEF S

\* Capital is proportional to the gross cost.
LEMMA CapitalIsLinear ==
    ASSUME NEW slip \in Nat
    PROVE  /\ \A g \in Nat : Capital(g, slip) \in Nat /\ (g > 0 => Capital(g, slip) > 0)
           /\ \A g, h \in Nat : Capital(g + h, slip) = Capital(g, slip) + Capital(h, slip)
           /\ \A g, h \in Nat : g <= h => Capital(g, slip) <= Capital(h, slip)
           /\ \A s, p \in Nat : Capital(s * p, slip) = s * Capital(p, slip)
<1> DEFINE r == Base + slip + Fee
<1>1. r \in Nat /\ r > 0 /\ \A g : Capital(g, slip) = g * r
  BY Constant DEF Capital
<1> HIDE DEF r
<1>2. ASSUME NEW g \in Nat PROVE g * r \in Nat /\ (g > 0 => g * r > 0)
  <2>1. g * r \in Nat
    BY <1>1
  <2>2. ASSUME g > 0 PROVE g * r > 0
    <3>1. 1 * r <= g * r
      BY <1>1, <2>2, TimesGrows
    <3> QED
      BY <1>1, <2>1, <3>1
  <2> QED
    BY <2>1, <2>2
<1>3. ASSUME NEW g \in Nat, NEW h \in Nat PROVE (g + h) * r = g * r + h * r
  BY <1>1
<1>4. ASSUME NEW g \in Nat, NEW h \in Nat, g <= h PROVE g * r <= h * r
  BY <1>1, <1>4, TimesGrows
<1>5. ASSUME NEW s \in Nat, NEW p \in Nat PROVE (s * p) * r = s * (p * r)
  BY <1>1
<1> QED
  BY <1>1, <1>2, <1>3, <1>4, <1>5

\* The prices and the cost of the pairs of two books.
LEMMA PairsOfBooks ==
    ASSUME NEW book \in [Legs -> Books]
    PROVE  /\ Pairs(book) \in Nat
           /\ \A l \in Legs : book[l] \in Books /\ Pairs(book) <= Len(book[l])
           /\ \A k \in 1 .. Pairs(book) : PairPrice(book, k) \in Nat /\ PairPrice(book, k) > 0
           /\ \A i, j \in 1 .. Pairs(book) : i <= j => PairPrice(book, i) <= PairPrice(book, j)
           /\ GrossOf(book, 0) = 0
           /\ \A q \in 0 .. Pairs(book) : GrossOf(book, q) \in Nat
           /\ \A q \in 1 .. Pairs(book) :
                  GrossOf(book, q) = GrossOf(book, q - 1) + PairPrice(book, q)
<1> DEFINE y == book["yes"]
           n == book["no"]
<1>1. y \in Books /\ n \in Books /\ Legs = {"yes", "no"}
  BY DEF Legs
<1>2. Len(y) \in Nat /\ Len(n) \in Nat
  BY <1>1, BookRises
<1> HIDE DEF y, n
<1>3. Pairs(book) \in Nat /\ Pairs(book) <= Len(y) /\ Pairs(book) <= Len(n)
  BY <1>2 DEF Pairs, MinOf, y, n
<1>4. \A l \in Legs : book[l] \in Books /\ Pairs(book) <= Len(book[l])
  BY <1>1, <1>3 DEF y, n
<1>5. ASSUME NEW k \in 1 .. Pairs(book)
      PROVE  /\ k \in 1 .. Len(y) /\ k \in 1 .. Len(n)
             /\ y[k] \in Nat /\ y[k] > 0 /\ n[k] \in Nat /\ n[k] > 0
             /\ PairPrice(book, k) = y[k] + n[k]
  <2>1. k \in 1 .. Len(y) /\ k \in 1 .. Len(n)
    BY <1>2, <1>3
  <2>2. y[k] \in Nat /\ y[k] > 0
    BY <1>1, <2>1, BookRises
  <2>3. n[k] \in Nat /\ n[k] > 0
    BY <1>1, <2>1, BookRises
  <2> QED
    BY <2>1, <2>2, <2>3 DEF PairPrice, y, n
<1>6. \A k \in 1 .. Pairs(book) : PairPrice(book, k) \in Nat /\ PairPrice(book, k) > 0
  BY <1>5
<1>7. ASSUME NEW i \in 1 .. Pairs(book), NEW j \in 1 .. Pairs(book), i <= j
      PROVE  PairPrice(book, i) <= PairPrice(book, j)
  <2>1. y[i] <= y[j]
    BY <1>1, <1>5, <1>7, BookRises
  <2>2. n[i] <= n[j]
    BY <1>1, <1>5, <1>7, BookRises
  <2> QED
    BY <1>5, <2>1, <2>2
<1>8. \A q : GrossOf(book, q) = FillCost(y, q) + FillCost(n, q)
  BY DEF GrossOf, y, n
<1>9. GrossOf(book, 0) = 0
  BY <1>1, <1>8, CostOfOneMore
<1>10. ASSUME NEW q \in 0 .. Pairs(book)
       PROVE  FillCost(y, q) \in Nat /\ FillCost(n, q) \in Nat
  <2>1. q \in 0 .. Len(y) /\ q \in 0 .. Len(n)
    BY <1>2, <1>3
  <2> QED
    BY <1>1, <2>1, CostOfOneMore
<1>11. ASSUME NEW q \in 1 .. Pairs(book)
       PROVE  GrossOf(book, q) = GrossOf(book, q - 1) + PairPrice(book, q)
  <2>1. FillCost(y, q) = FillCost(y, q - 1) + y[q]
    BY <1>1, <1>5, CostOfOneMore
  <2>2. FillCost(n, q) = FillCost(n, q - 1) + n[q]
    BY <1>1, <1>5, CostOfOneMore
  <2>3. FillCost(y, q - 1) \in Nat /\ FillCost(n, q - 1) \in Nat
    BY <1>3, <1>10
  <2> QED
    BY <1>5, <1>8, <2>1, <2>2, <2>3
<1> QED
  BY <1>3, <1>4, <1>6, <1>7, <1>8, <1>9, <1>10, <1>11

\* More pairs cost more.
LEMMA GrossGrows ==
    ASSUME NEW book \in [Legs -> Books], NEW i \in 0 .. Pairs(book), NEW j \in 0 .. Pairs(book),
           i <= j
    PROVE  GrossOf(book, i) <= GrossOf(book, j)
<1> DEFINE S == {n \in 0 .. Pairs(book) - i : GrossOf(book, i) <= GrossOf(book, i + n)}
<1>1. Pairs(book) \in Nat /\ Pairs(book) - i \in Nat /\ GrossOf(book, i) \in Nat
  BY PairsOfBooks
<1>2. 0 \in S
  BY <1>1
<1>3. \A n \in 0 .. (Pairs(book) - i) - 1 : n \in S => n + 1 \in S
  <2> SUFFICES ASSUME NEW n \in 0 .. (Pairs(book) - i) - 1, GrossOf(book, i) <= GrossOf(book, i + n)
               PROVE  n + 1 \in 0 .. Pairs(book) - i
                      /\ GrossOf(book, i) <= GrossOf(book, i + (n + 1))
    OBVIOUS
  <2>1. i + (n + 1) \in 1 .. Pairs(book) /\ (i + (n + 1)) - 1 = i + n /\ i + n \in 0 .. Pairs(book)
    BY <1>1
  <2>2. GrossOf(book, i + (n + 1)) = GrossOf(book, i + n) + PairPrice(book, i + (n + 1))
    BY <2>1, PairsOfBooks
  <2>3. GrossOf(book, i + n) \in Nat /\ PairPrice(book, i + (n + 1)) \in Nat
    BY <2>1, PairsOfBooks
  <2> QED
    BY <1>1, <2>1, <2>2, <2>3
<1> HIDE DEF S
<1>4. 0 .. Pairs(book) - i \subseteq S
  BY <1>1, <1>2, <1>3, CountingUp
<1>5. j - i \in 0 .. Pairs(book) - i /\ i + (j - i) = j
  BY <1>1
<1> QED
  BY <1>4, <1>5 DEF S

-----------------------------------------------------------------------------
(* Tranches *)

\* The next so many shares of a book cost the same.
LEMMA LevelAhead ==
    ASSUME NEW b \in Books, NEW k \in 1 .. Len(b)
    PROVE  /\ LevelFrom(b, k) \in 1 .. Len(b) - k + 1
           /\ \A j \in k .. k + LevelFrom(b, k) - 1 : b[j] = b[k]
<1> DEFINE E == {j \in k .. Len(b) : b[j] = b[k]}
           D == {n \in 0 .. Len(b) - k : k + n \in E}
<1>1. Len(b) \in Nat /\ k \in Nat /\ k <= Len(b)
  BY BookRises
<1>2. \A j \in 1 .. Len(b) : b[j] \in Nat
  BY BookRises
<1>3. PICK m \in E : \A j \in E : j <= m
  <2> DEFINE S == {n \in 0 .. Len(b) - k : \E m \in E : \A j \in E : j <= k + n => j <= m}
  <2>1. Len(b) - k \in Nat /\ k \in E /\ E \subseteq k .. Len(b)
    BY <1>1
  <2> HIDE DEF E
  <2>2. 0 \in S
    BY <1>1, <2>1
  <2>3. \A n \in 0 .. (Len(b) - k) - 1 : n \in S => n + 1 \in S
    <3> SUFFICES ASSUME NEW n \in 0 .. (Len(b) - k) - 1, n \in S PROVE n + 1 \in S
      OBVIOUS
    <3>1. PICK m \in E : \A j \in E : j <= k + n => j <= m
      OBVIOUS
    <3>2. n + 1 \in 0 .. Len(b) - k
      BY <2>1
    <3>3. CASE k + (n + 1) \in E
      <4>1. \A j \in E : j <= k + (n + 1) => j <= k + (n + 1)
        OBVIOUS
      <4> QED
        BY <3>2, <3>3, <4>1
    <3>4. CASE k + (n + 1) \notin E
      <4>1. ASSUME NEW j \in E, j <= k + (n + 1) PROVE j <= m
        <5>1. j # k + (n + 1) /\ j \in Int /\ m \in Int
          BY <1>1, <2>1, <3>4
        <5>2. j <= k + n
          BY <1>1, <4>1, <5>1
        <5> QED
          BY <3>1, <5>2
      <4> QED
        BY <3>2, <4>1
    <3> QED
      BY <3>3, <3>4
  <2> HIDE DEF S
  <2>4. 0 .. Len(b) - k \subseteq S
    BY <2>1, <2>2, <2>3, CountingUp
  <2>5. Len(b) - k \in S
    BY <2>1, <2>4
  <2>6. PICK m \in E : \A j \in E : j <= k + (Len(b) - k) => j <= m
    BY <2>5 DEF S
  <2>7. \A j \in E : j <= k + (Len(b) - k)
    BY <1>1, <2>1
  <2> QED
    BY <2>6, <2>7
<1>4. m \in k .. Len(b) /\ b[m] = b[k]
  OBVIOUS
<1>5. \A j \in k .. m : b[j] = b[k]
  <2> SUFFICES ASSUME NEW j \in k .. m PROVE b[j] = b[k]
    OBVIOUS
  <2>1. j \in 1 .. Len(b) /\ m \in 1 .. Len(b)
    BY <1>1, <1>4
  <2>2. b[k] <= b[j] /\ b[j] <= b[m]
    BY <1>1, <2>1, BookRises
  <2> QED
    BY <1>2, <1>4, <2>1, <2>2
<1>6. E = k .. m
  BY <1>1, <1>3, <1>4, <1>5
<1>7. LevelFrom(b, k) = Cardinality(k .. m)
  BY <1>6 DEF LevelFrom
<1>8. LevelFrom(b, k) = m - k + 1
  BY <1>1, <1>4, <1>7, FS_Interval
<1> QED
  BY <1>1, <1>4, <1>5, <1>8

\* A state of the walk over two books.
Places(book) == [qty : 0 .. Pairs(book), gross : Nat]

\* Within a tranche all pairs cost the same.
LEMMA TrancheAhead ==
    ASSUME NEW book \in [Legs -> Books], NEW w \in Places(book), w.qty < Pairs(book)
    PROVE  /\ w.qty + 1 \in 1 .. Pairs(book)
           /\ Depth(book, w) \in 1 .. Pairs(book) - w.qty
           /\ \A j \in w.qty + 1 .. w.qty + Depth(book, w) :
                  PairPrice(book, j) = PairPrice(book, w.qty + 1)
<1> DEFINE k == w.qty + 1
           y == book["yes"]
           n == book["no"]
<1>1. y \in Books /\ n \in Books
  BY DEF Legs
<1>2. Len(y) \in Nat /\ Len(n) \in Nat
  BY <1>1, BookRises
<1>3. Pairs(book) = MinOf(Len(y), Len(n)) /\ w.qty \in 0 .. Pairs(book)
  BY DEF Pairs, Places
<1>4. k \in 1 .. Len(y) /\ k \in 1 .. Len(n) /\ k \in 1 .. Pairs(book)
  BY <1>2, <1>3 DEF MinOf
<1>5. Depth(book, w) = MinOf(LevelFrom(y, k), LevelFrom(n, k))
  BY DEF Depth
<1>6. \A j : PairPrice(book, j) = y[j] + n[j]
  BY DEF PairPrice
<1> DEFINE q == w.qty
           ly == LevelFrom(y, k)
           ln == LevelFrom(n, k)
           d == Depth(book, w)
<1>7. ly \in 1 .. Len(y) - k + 1
  <2> HIDE DEF k, y, n
  <2> QED
    BY <1>1, <1>4, LevelAhead
<1>8. ln \in 1 .. Len(n) - k + 1
  <2> HIDE DEF k, y, n
  <2> QED
    BY <1>1, <1>4, LevelAhead
<1>9. (\A j \in k .. k + ly - 1 : y[j] = y[k]) /\ \A j \in k .. k + ln - 1 : n[j] = n[k]
  <2> HIDE DEF k, y, n
  <2> QED
    BY <1>1, <1>4, LevelAhead
<1>10. q \in Nat /\ k = q + 1 /\ d = MinOf(ly, ln)
  BY <1>3, <1>5
<1> HIDE DEF q, k, y, n, ly, ln, d
<1>11. k \in Nat
  BY <1>10
<1>12. ly \in Nat /\ ly > 0 /\ ly <= Len(y) - k + 1
  BY <1>2, <1>7, <1>11
<1>13. ln \in Nat /\ ln > 0 /\ ln <= Len(n) - k + 1
  BY <1>2, <1>8, <1>11
<1>14. d \in Nat /\ d > 0 /\ d <= ly /\ d <= ln
  BY <1>10, <1>12, <1>13 DEF MinOf
<1>15. Pairs(book) \in Nat /\ (Pairs(book) = Len(y) \/ Pairs(book) = Len(n))
  BY <1>2, <1>3 DEF MinOf
<1>16. d <= Pairs(book) - q
  <2>1. CASE Pairs(book) = Len(y)
    BY <1>10, <1>12, <1>14, <1>15, <2>1
  <2>2. CASE Pairs(book) = Len(n)
    BY <1>10, <1>13, <1>14, <1>15, <2>2
  <2> QED
    BY <1>15, <2>1, <2>2
<1>17. d \in 1 .. Pairs(book) - q
  BY <1>10, <1>14, <1>15, <1>16
<1>18. ASSUME NEW j \in k .. q + d PROVE PairPrice(book, j) = PairPrice(book, k)
  <2>1. j \in Int /\ k <= j /\ j <= q + d
    BY <1>10, <1>11, <1>14
  <2>2. j <= k + ly - 1 /\ j <= k + ln - 1
    BY <1>10, <1>11, <1>12, <1>13, <1>14, <2>1
  <2>3. j \in k .. k + ly - 1 /\ j \in k .. k + ln - 1
    BY <1>10, <1>11, <1>12, <1>13, <2>1, <2>2
  <2> QED
    BY <1>6, <1>9, <2>3
<1> QED
  BY <1>4, <1>10, <1>17, <1>18 DEF q, d

\* What a part of a tranche adds to the cost.
LEMMA TrancheCosts ==
    ASSUME NEW book \in [Legs -> Books], NEW w \in Places(book), w.qty < Pairs(book),
           NEW s \in 0 .. Depth(book, w)
    PROVE  GrossOf(book, w.qty + s) = GrossOf(book, w.qty) + s * PairPrice(book, w.qty + 1)
<1> DEFINE d == Depth(book, w)
           q == w.qty
           p == PairPrice(book, w.qty + 1)
           S == {n \in 0 .. d : GrossOf(book, q + n) = GrossOf(book, q) + n * p}
<1>1. q \in 0 .. Pairs(book) /\ Pairs(book) \in Nat
  BY PairsOfBooks DEF Places
<1>2. d \in 1 .. Pairs(book) - q /\ \A j \in q + 1 .. q + d : PairPrice(book, j) = p
  BY TrancheAhead
<1>3. p \in Nat
  BY TrancheAhead, PairsOfBooks
<1> HIDE DEF d, q, p
<1>4. GrossOf(book, q) \in Nat /\ d \in Nat
  BY <1>1, <1>2, PairsOfBooks
<1>5. 0 \in S
  BY <1>1, <1>3, <1>4
<1>6. \A n \in 0 .. d - 1 : n \in S => n + 1 \in S
  <2> SUFFICES ASSUME NEW n \in 0 .. d - 1, GrossOf(book, q + n) = GrossOf(book, q) + n * p
               PROVE  /\ n + 1 \in 0 .. d
                      /\ GrossOf(book, q + (n + 1)) = GrossOf(book, q) + (n + 1) * p
    OBVIOUS
  <2>1. /\ q + (n + 1) \in 1 .. Pairs(book) /\ (q + (n + 1)) - 1 = q + n
        /\ q + (n + 1) \in q + 1 .. q + d
    BY <1>1, <1>2
  <2>2. GrossOf(book, q + (n + 1)) = GrossOf(book, q + n) + p
    BY <1>2, <2>1, PairsOfBooks
  <2>3. (n + 1) * p = n * p + p /\ n * p \in Int /\ n + 1 \in 0 .. d
    BY <1>3, <1>4
  <2> QED
    BY <1>3, <1>4, <2>2, <2>3
<1> HIDE DEF S
<1>7. 0 .. d \subseteq S
  BY <1>4, <1>5, <1>6, CountingUp
<1> QED
  BY <1>7 DEF S, d, q, p

\* A tranche leads to a further place of the walk.
LEMMA TrancheLeadsOn ==
    ASSUME NEW book \in [Legs -> Books], NEW w \in Places(book), w.qty < Pairs(book),
           NEW s \in 1 .. Depth(book, w)
    PROVE  /\ Taken(book, w, s) \in Places(book)
           /\ Taken(book, w, s).qty = w.qty + s
           /\ Taken(book, w, s).gross = w.gross + s * PairPrice(book, w.qty + 1)
<1> DEFINE q == w.qty
           g == w.gross
           p == PairPrice(book, w.qty + 1)
           d == Depth(book, w)
<1>1. q \in 0 .. Pairs(book) /\ g \in Nat /\ Pairs(book) \in Nat
  BY PairsOfBooks DEF Places
<1>2. d \in 1 .. Pairs(book) - q /\ p \in Nat
  BY TrancheAhead, PairsOfBooks
<1>3. Taken(book, w, s) = [qty |-> q + s, gross |-> g + s * p]
  BY DEF Taken
<1> HIDE DEF q, g, p, d
<1>4. s \in 1 .. d
  BY DEF d
<1>5. q + s \in 0 .. Pairs(book)
  BY <1>1, <1>2, <1>4
<1>6. s * p \in Nat /\ g + s * p \in Nat
  BY <1>1, <1>2, <1>4
<1> QED
  BY <1>3, <1>5, <1>6 DEF Places, q, g, p

\* The size of the tranche after w.
Step(book, limit, target, w) ==
    MinOf(Depth(book, w), MinOf(target - w.qty, Buys(book, limit, w)))

\* What is bought is within the budget and the target, and one more pair than the step
\* is beyond what limits it.
LEMMA StepWithin ==
    ASSUME NEW book \in [Legs -> Books], NEW w \in Places(book), w.qty < Pairs(book),
           NEW limit \in Int, NEW target \in Int
    PROVE  LET step == Step(book, limit, target, w)
               unit == Capital(PairPrice(book, w.qty + 1), Slip)
               rest == limit - Capital(w.gross, Slip)
           IN  /\ step \in Int /\ step <= Depth(book, w) /\ w.qty + step <= target
               /\ unit \in Nat /\ rest \in Int /\ step * unit <= rest
               /\ step = Depth(book, w) \/ w.qty + step = target \/ (step + 1) * unit > rest
<1> DEFINE q == w.qty
           unit == Capital(PairPrice(book, w.qty + 1), Slip)
           rest == limit - Capital(w.gross, Slip)
           d == Depth(book, w)
           n == rest \div unit
           step == Step(book, limit, target, w)
<1>1. q \in Nat /\ w.gross \in Nat
  BY PairsOfBooks DEF Places
<1>2. PairPrice(book, w.qty + 1) \in Nat /\ PairPrice(book, w.qty + 1) > 0
  BY TrancheAhead, PairsOfBooks
<1>3. unit \in Nat /\ unit > 0 /\ Capital(w.gross, Slip) \in Nat
  BY <1>1, <1>2, Constant, CapitalIsLinear
<1>4. rest \in Int
  BY <1>3
<1>5. d \in Nat
  <2>1. Pairs(book) - w.qty \in Int /\ d \in 1 .. Pairs(book) - w.qty
    BY <1>1, PairsOfBooks, TrancheAhead
  <2> HIDE DEF d
  <2> QED
    BY <2>1
<1>6. step = MinOf(d, MinOf(target - q, n))
  BY DEF Step, Buys
<1> HIDE DEF q, unit, rest, d, n, step
<1>7. n \in Int /\ \A s \in Int : s <= n <=> s * unit <= rest
  BY <1>3, <1>4, WithinQuotient DEF n
<1>8. step \in Int /\ step <= d /\ q + step <= target /\ step <= n
  BY <1>1, <1>5, <1>6, <1>7 DEF MinOf
<1>9. step = d \/ q + step = target \/ step + 1 > n
  BY <1>1, <1>5, <1>6, <1>7 DEF MinOf
<1>10. step * unit <= rest
  BY <1>7, <1>8
<1>11. step + 1 > n => (step + 1) * unit > rest
  <2>1. step + 1 \in Int /\ (step + 1) * unit \in Int
    BY <1>3, <1>8
  <2> QED
    BY <1>4, <1>7, <2>1
<1> QED
  BY <1>3, <1>4, <1>8, <1>9, <1>10, <1>11 DEF q, unit, rest, d, step

\* The walk from w on, if s says where it comes to from the places behind.
Onward(book, limit, target, s, w) ==
    IF w.qty = Pairs(book) \/ ~Edge(PairPrice(book, w.qty + 1)) THEN w
    ELSE IF Step(book, limit, target, w) <= 0 THEN w
    ELSE IF Step(book, limit, target, w) < Depth(book, w)
         THEN Taken(book, w, Step(book, limit, target, w))
    ELSE s[Taken(book, w, Step(book, limit, target, w))]

\* Only the places behind count.
LEMMA OnwardLooksAhead ==
    ASSUME NEW book \in [Legs -> Books], NEW w \in Places(book), NEW limit \in Int,
           NEW target \in Int, NEW s, NEW r,
           \A v \in Places(book) : v.qty > w.qty => s[v] = r[v]
    PROVE  Onward(book, limit, target, s, w) = Onward(book, limit, target, r, w)
<1> DEFINE step == Step(book, limit, target, w)
<1>1. CASE w.qty = Pairs(book) \/ ~Edge(PairPrice(book, w.qty + 1)) \/ step <= 0
           \/ step < Depth(book, w)
  <2> HIDE DEF step
  <2> QED
    BY <1>1, Zenon DEF Onward, step
<1>2. CASE w.qty # Pairs(book) /\ ~(step <= 0) /\ ~(step < Depth(book, w))
  <2>1. w.qty \in Int /\ Pairs(book) \in Int /\ w.qty < Pairs(book)
    BY <1>2, PairsOfBooks DEF Places
  <2>2. step \in Int /\ step <= Depth(book, w)
    BY <2>1, StepWithin
  <2>3. step \in 1 .. Depth(book, w)
    <3>1. Depth(book, w) \in 1 .. Pairs(book) - w.qty
      BY <2>1, TrancheAhead
    <3> HIDE DEF step
    <3> QED
      BY <1>2, <2>1, <2>2, <3>1
  <2> HIDE DEF step
  <2>4. Taken(book, w, step) \in Places(book) /\ Taken(book, w, step).qty = w.qty + step
    BY <2>1, <2>3, TrancheLeadsOn
  <2>5. w.qty + step > w.qty
    BY <1>2, <2>1, <2>2
  <2>6. s[Taken(book, w, step)] = r[Taken(book, w, step)]
    BY <2>4, <2>5
  <2> QED
    BY <1>2, <2>6 DEF Onward, step
<1> QED
  BY <1>1, <1>2

\* The function that SimulatePairedTranches names exists.
LEMMA WalkExists ==
    ASSUME NEW book \in [Legs -> Books], NEW limit \in Int, NEW target \in Int
    PROVE  \E s : s = [w \in Places(book) |-> Onward(book, limit, target, s, w)]
<1> DEFINE N == Pairs(book)
           D == Places(book)
           F(s) == [w \in D |-> Onward(book, limit, target, s, w)]
           S == {n \in 0 .. N : \E s : \A w \in D : w.qty >= N - n => s[w] = F(s)[w]}
<1>1. N \in Nat /\ \A w \in D : w.qty \in 0 .. N
  BY PairsOfBooks DEF Places
<1>2. 0 \in S
  <2> DEFINE z == [w \in D |-> w]
  <2>1. ASSUME NEW w \in D, w.qty >= N - 0 PROVE z[w] = F(z)[w]
    <3>1. w.qty = N
      BY <1>1, <2>1
    <3> QED
      BY <3>1 DEF Onward
  <2>2. 0 \in 0 .. N
    BY <1>1
  <2> HIDE DEF F, z, D, N
  <2> QED
    BY <2>1, <2>2
<1>3. \A n \in 0 .. N - 1 : n \in S => n + 1 \in S
  <2> SUFFICES ASSUME NEW n \in 0 .. N - 1, n \in S PROVE n + 1 \in S
    OBVIOUS
  <2>1. PICK s : \A w \in D : w.qty >= N - n => s[w] = F(s)[w]
    OBVIOUS
  <2> DEFINE r == F(s)
  <2>2. ASSUME NEW w \in D, w.qty >= N - (n + 1) PROVE r[w] = F(r)[w]
    <3>1. ASSUME NEW v \in D, v.qty > w.qty PROVE s[v] = r[v]
      <4>1. v.qty >= N - n
        BY <1>1, <2>2, <3>1
      <4> HIDE DEF F
      <4> QED
        BY <2>1, <4>1
    <3> HIDE DEF r
    <3>2. Onward(book, limit, target, s, w) = Onward(book, limit, target, r, w)
      BY <3>1, OnwardLooksAhead
    <3> QED
      BY <3>2 DEF r
  <2>3. n + 1 \in 0 .. N
    BY <1>1
  <2> HIDE DEF F, r, D, N
  <2> QED
    BY <2>2, <2>3
<1> HIDE DEF S
<1>4. 0 .. N \subseteq S
  BY <1>1, <1>2, <1>3, CountingUp
<1>5. N \in S
  BY <1>1, <1>4
<1> USE DEF S
<1>6. PICK s : \A w \in D : w.qty >= N - N => s[w] = F(s)[w]
  <2> HIDE DEF F, D, N
  <2> QED
    BY <1>5
<1>7. \A w \in D : s[w] = F(s)[w]
  <2>1. \A w \in D : w.qty >= N - N
    BY <1>1
  <2> HIDE DEF F, D, N
  <2> QED
    BY <1>6, <2>1
<1> DEFINE r == F(s)
<1>8. ASSUME NEW w \in D PROVE Onward(book, limit, target, s, w) = Onward(book, limit, target, r, w)
  <2>1. \A v \in D : s[v] = r[v]
    <3> HIDE DEF F, D
    <3> QED
      BY <1>7 DEF r
  <2> HIDE DEF r
  <2> QED
    BY <2>1, OnwardLooksAhead
<1>9. r = F(r)
  <2> HIDE DEF r
  <2> QED
    BY <1>8 DEF r
<1> HIDE DEF r
<1> QED
  BY <1>9

Start == [qty |-> 0, gross |-> 0]

LimitOf(cash) == SpendLimit(cash) - Merge * Base

\* SimulatePairedTranches follows the walk.
LEMMA SimulationWalks ==
    ASSUME NEW book \in [Legs -> Books], NEW cash, NEW target \in Int, LimitOf(cash) \in Int
    PROVE  \E s : /\ \A w \in Places(book) : s[w] = Onward(book, LimitOf(cash), target, s, w)
                  /\ SimulatePairedTranches(book, cash, target) = s[Start]
<1> DEFINE R(s) == s = [w \in Places(book) |-> Onward(book, LimitOf(cash), target, s, w)]
           c == CHOOSE s : R(s)
<1>1. \E s : R(s)
  BY WalkExists
<1>2. R(c)
  <2> HIDE DEF R
  <2> QED
    BY <1>1
<1>3. SimulatePairedTranches(book, cash, target) = c[Start]
  BY DEF SimulatePairedTranches, Onward, Step, Places, LimitOf, Start
<1> HIDE DEF c
<1>4. \A w \in Places(book) : c[w] = Onward(book, LimitOf(cash), target, c, w)
  BY <1>2
<1> QED
  BY <1>3, <1>4

\* What holds of the pairs taken so far.
OnTheWay(book, limit, target, w) ==
    /\ w.gross = GrossOf(book, w.qty)
    /\ w.qty > 0 => w.qty <= target /\ Capital(w.gross, Slip) <= limit
    /\ \A k \in 1 .. w.qty : Edge(PairPrice(book, k))

\* Why no further pair is taken.
Stops(book, limit, target, w) ==
    \/ w.qty = Pairs(book)
    \/ w.qty >= target
    \/ ~Edge(PairPrice(book, w.qty + 1))
    \/ Capital(GrossOf(book, w.qty + 1), Slip) > limit

\* A tranche keeps to the budget, the target and the edge.
LEMMA TrancheKeeps ==
    ASSUME NEW book \in [Legs -> Books], NEW limit \in Int, NEW target \in Int,
           NEW w \in Places(book), w.qty < Pairs(book), OnTheWay(book, limit, target, w),
           Edge(PairPrice(book, w.qty + 1)), NEW s \in 1 .. Depth(book, w),
           w.qty + s <= target,
           s * Capital(PairPrice(book, w.qty + 1), Slip) <= limit - Capital(w.gross, Slip)
    PROVE  OnTheWay(book, limit, target, Taken(book, w, s))
<1> DEFINE t == Taken(book, w, s)
           p == PairPrice(book, w.qty + 1)
<1>1. t \in Places(book) /\ t.qty = w.qty + s /\ t.gross = w.gross + s * p
  BY TrancheLeadsOn
<1>2. Depth(book, w) \in 1 .. Pairs(book) - w.qty
  BY TrancheAhead
<1>3. w.gross \in Nat /\ w.qty \in Nat /\ p \in Nat /\ Pairs(book) \in Nat
  BY TrancheAhead, PairsOfBooks DEF Places
<1>4. s \in Nat /\ s > 0 /\ s \in 0 .. Depth(book, w)
  BY <1>2, <1>3
<1>5. t.gross = GrossOf(book, t.qty)
  BY <1>1, <1>4, TrancheCosts DEF OnTheWay
<1>6. Capital(t.gross, Slip) = Capital(w.gross, Slip) + s * Capital(p, Slip)
  <2>1. s * p \in Nat
    BY <1>3, <1>4
  <2> HIDE DEF t, p
  <2>2. Capital(w.gross + s * p, Slip) = Capital(w.gross, Slip) + Capital(s * p, Slip)
    BY <1>3, <2>1, Constant, CapitalIsLinear
  <2>3. Capital(s * p, Slip) = s * Capital(p, Slip)
    BY <1>3, <1>4, Constant, CapitalIsLinear
  <2> QED
    BY <1>1, <2>2, <2>3
<1>7. Capital(w.gross, Slip) \in Nat /\ Capital(p, Slip) \in Nat
  BY <1>3, Constant, CapitalIsLinear
<1>8. Capital(t.gross, Slip) <= limit
  <2> DEFINE a == Capital(w.gross, Slip)
             b == s * Capital(p, Slip)
  <2>1. a \in Int /\ b \in Int /\ b <= limit - a
    BY <1>4, <1>7
  <2>2. Capital(t.gross, Slip) = a + b
    BY <1>6
  <2> HIDE DEF a, b, t
  <2> QED
    BY <2>1, <2>2
<1>9. ASSUME NEW k \in 1 .. t.qty PROVE Edge(PairPrice(book, k))
  <2>1. CASE k <= w.qty
    <3>1. k \in 1 .. w.qty
      BY <1>1, <1>3, <1>4, <2>1
    <3> QED
      BY <3>1 DEF OnTheWay
  <2>2. CASE ~(k <= w.qty)
    <3>1. k \in w.qty + 1 .. w.qty + Depth(book, w)
      <4> DEFINE q == w.qty
                 d == Depth(book, w)
      <4>1. d \in Int /\ s <= d /\ q \in Nat /\ t.qty = q + s
        BY <1>1, <1>2, <1>3
      <4>2. k \in Int /\ k <= t.qty /\ ~(k <= q)
        BY <1>3, <1>4, <2>2, <4>1
      <4> HIDE DEF q, d, t
      <4>3. k \in q + 1 .. q + d
        BY <1>4, <4>1, <4>2
      <4> QED
        BY <4>3 DEF q, d
    <3> QED
      BY <3>1, TrancheAhead
  <2> QED
    BY <2>1, <2>2
<1> HIDE DEF t
<1>10. t.qty > 0 => t.qty <= target /\ Capital(t.gross, Slip) <= limit
  BY <1>1, <1>8
<1> QED
  BY <1>5, <1>9, <1>10 DEF OnTheWay, t

\* A step of nothing, or one that leaves something of both levels, is the last.
LEMMA ShortStepStops ==
    ASSUME NEW book \in [Legs -> Books], NEW limit \in Int, NEW target \in Int,
           NEW w \in Places(book), w.qty < Pairs(book), OnTheWay(book, limit, target, w)
    PROVE  LET step == Step(book, limit, target, w)
           IN  /\ step <= 0 => Stops(book, limit, target, w)
               /\ step > 0 /\ step < Depth(book, w)
                    => Stops(book, limit, target, Taken(book, w, step))
<1> DEFINE step == Step(book, limit, target, w)
           d == Depth(book, w)
           q == w.qty
           p == PairPrice(book, w.qty + 1)
           unit == Capital(p, Slip)
           held == Capital(w.gross, Slip)
<1>1. /\ step \in Int /\ step <= d /\ q + step <= target
      /\ step = d \/ q + step = target \/ (step + 1) * unit > limit - held
  BY StepWithin
<1>2. /\ q + 1 \in 1 .. Pairs(book) /\ d \in 1 .. Pairs(book) - q
      /\ \A j \in q + 1 .. q + d : PairPrice(book, j) = p
  BY TrancheAhead
<1>3. Pairs(book) \in Nat /\ q \in Nat /\ w.gross \in Nat /\ p \in Nat
  BY <1>2, PairsOfBooks DEF Places
<1>4. unit \in Nat /\ held \in Nat
  BY <1>3, Constant, CapitalIsLinear
<1>5. w.gross = GrossOf(book, q)
  BY DEF OnTheWay
<1>6. \A s \in 0 .. d : GrossOf(book, q + s) = w.gross + s * p
  BY <1>5, TrancheCosts
<1> HIDE DEF step, d, q, p, unit, held
<1>7. d \in Nat /\ d > 0
  BY <1>2, <1>3
<1>8. ASSUME NEW s \in 1 .. d PROVE Capital(GrossOf(book, q + s), Slip) = held + s * unit
  <2>1. s \in Nat /\ s \in 0 .. d /\ s * p \in Nat
    BY <1>3, <1>7
  <2>2. Capital(w.gross + s * p, Slip) = Capital(w.gross, Slip) + Capital(s * p, Slip)
    BY <1>3, <2>1, Constant, CapitalIsLinear
  <2>3. Capital(s * p, Slip) = s * Capital(p, Slip)
    BY <1>3, <2>1, Constant, CapitalIsLinear
  <2> QED
    BY <1>6, <2>1, <2>2, <2>3 DEF unit, held
<1>9. ASSUME step <= 0 PROVE Stops(book, limit, target, w)
  <2>1. CASE q + step = target
    <3>1. q >= target
      BY <1>1, <1>3, <1>9, <2>1
    <3> QED
      BY <3>1 DEF Stops, q
  <2>2. CASE (step + 1) * unit > limit - held
    <3>1. (step + 1) * unit <= 1 * unit
      <4>1. step + 1 \in Int /\ step + 1 <= 1
        BY <1>1, <1>9
      <4> QED
        BY <1>4, <4>1, TimesGrows
    <3>2. (step + 1) * unit \in Int
      BY <1>1, <1>4
    <3>3. held + unit > limit
      BY <1>4, <2>2, <3>1, <3>2
    <3>4. Capital(GrossOf(book, q + 1), Slip) = held + 1 * unit
      BY <1>7, <1>8
    <3> QED
      BY <1>4, <3>3, <3>4 DEF Stops, q
  <2> QED
    BY <1>1, <1>7, <1>9, <2>1, <2>2
<1>10. ASSUME step > 0, step < d PROVE Stops(book, limit, target, Taken(book, w, step))
  <2>1. step \in 1 .. Depth(book, w)
    BY <1>1, <1>7, <1>10 DEF d
  <2>2. Taken(book, w, step).qty = q + step
    BY <2>1, TrancheLeadsOn DEF q
  <2>3. CASE q + step = target
    <3>1. q + step >= target
      BY <1>1, <1>3, <2>3
    <3> QED
      BY <2>2, <3>1 DEF Stops
  <2>4. CASE (step + 1) * unit > limit - held
    <3>1. step + 1 \in 1 .. d /\ q + (step + 1) = (q + step) + 1
      BY <1>1, <1>3, <1>7, <1>10
    <3>2. Capital(GrossOf(book, (q + step) + 1), Slip) = held + (step + 1) * unit
      BY <1>8, <3>1
    <3>3. (step + 1) * unit \in Int
      BY <1>1, <1>4
    <3>4. held + (step + 1) * unit > limit
      BY <1>4, <2>4, <3>3
    <3> QED
      BY <2>2, <3>2, <3>4 DEF Stops
  <2> QED
    BY <1>1, <1>7, <1>10, <2>3, <2>4
<1> QED
  BY <1>9, <1>10 DEF step, d

\* The walk comes to a place where it has reason to stop.
LEMMA WalkEnds ==
    ASSUME NEW book \in [Legs -> Books], NEW limit \in Int, NEW target \in Int, NEW s,
           \A w \in Places(book) : s[w] = Onward(book, limit, target, s, w)
    PROVE  \A w \in Places(book) : OnTheWay(book, limit, target, w) =>
               /\ s[w] \in Places(book)
               /\ OnTheWay(book, limit, target, s[w])
               /\ Stops(book, limit, target, s[w])
<1> DEFINE N == Pairs(book)
           D == Places(book)
           Good(w) == OnTheWay(book, limit, target, w)
           Ends(w) == w \in D /\ Good(w) /\ Stops(book, limit, target, w)
           S == {n \in 0 .. N : \A w \in D : w.qty >= N - n /\ Good(w) => Ends(s[w])}
<1>1. N \in Nat /\ \A w \in D : w.qty \in 0 .. N
  BY PairsOfBooks DEF Places
<1>2. ASSUME NEW w \in D, Good(w), w.qty = N \/ ~Edge(PairPrice(book, w.qty + 1))
      PROVE  Ends(s[w])
  <2>1. s[w] = w
    BY <1>2 DEF Onward
  <2>2. Stops(book, limit, target, w)
    BY <1>2 DEF Stops
  <2> QED
    BY <1>2, <2>1, <2>2
<1>3. ASSUME NEW w \in D, Good(w), w.qty < N, Edge(PairPrice(book, w.qty + 1)),
             \A v \in D : v.qty > w.qty /\ Good(v) => Ends(s[v])
      PROVE  Ends(s[w])
  <2> DEFINE step == Step(book, limit, target, w)
             t == Taken(book, w, step)
  <2>1. /\ step \in Int /\ step <= Depth(book, w) /\ w.qty + step <= target
        /\ step * Capital(PairPrice(book, w.qty + 1), Slip) <= limit - Capital(w.gross, Slip)
    BY <1>3, StepWithin
  <2>2. /\ step <= 0 => Stops(book, limit, target, w)
        /\ step > 0 /\ step < Depth(book, w) => Stops(book, limit, target, t)
    BY <1>3, ShortStepStops
  <2>3. ~(w.qty = N)
    BY <1>1, <1>3
  <2>4. s[w] = IF step <= 0 THEN w ELSE IF step < Depth(book, w) THEN t ELSE s[t]
    <3>1. s[w] = Onward(book, limit, target, s, w)
      OBVIOUS
    <3> HIDE DEF N
    <3> QED
      BY <1>3, <2>3, <3>1, Zenon DEF Onward, N
  <2>5. Depth(book, w) \in 1 .. Pairs(book) - w.qty
    BY <1>3, TrancheAhead
  <2>6. Depth(book, w) \in Nat
    BY <1>1, <2>5
  <2> HIDE DEF step
  <2>7. CASE step <= 0
    BY <1>3, <2>2, <2>4, <2>7
  <2>8. CASE step > 0
    <3>1. step \in 1 .. Depth(book, w) /\ ~(step <= 0)
      BY <2>1, <2>6, <2>8
    <3>2. t \in D /\ t.qty = w.qty + step
      BY <1>3, <3>1, TrancheLeadsOn
    <3>3. Good(t)
      BY <1>3, <2>1, <3>1, TrancheKeeps
    <3>4. t.qty > w.qty
      BY <1>1, <2>1, <2>8, <3>2
    <3>5. CASE step < Depth(book, w)
      <4>1. s[w] = t
        BY <2>4, <3>1, <3>5
      <4> QED
        BY <2>2, <2>8, <3>2, <3>3, <3>5, <4>1
    <3>6. CASE ~(step < Depth(book, w))
      <4>1. s[w] = s[t]
        BY <2>4, <3>1, <3>6
      <4>2. Ends(s[t])
        <5> HIDE DEF t, Ends, Good, D
        <5> QED
          BY <1>3, <3>2, <3>3, <3>4
      <4> QED
        BY <4>1, <4>2
    <3> QED
      BY <3>5, <3>6
  <2> QED
    BY <2>1, <2>7, <2>8
<1> HIDE DEF Good, Ends, N, D
<1>4. \A w \in D : Good(w) => w.qty = N \/ ~Edge(PairPrice(book, w.qty + 1)) \/
                               (w.qty < N /\ Edge(PairPrice(book, w.qty + 1)))
  BY <1>1
<1>5. 0 \in S
  BY <1>1, <1>2
<1>6. \A n \in 0 .. N - 1 : n \in S => n + 1 \in S
  <2> SUFFICES ASSUME NEW n \in 0 .. N - 1, n \in S PROVE n + 1 \in S
    OBVIOUS
  <2>1. \A w \in D : w.qty >= N - n /\ Good(w) => Ends(s[w])
    OBVIOUS
  <2>2. ASSUME NEW w \in D, w.qty >= N - (n + 1), Good(w) PROVE Ends(s[w])
    <3>1. \A v \in D : v.qty > w.qty /\ Good(v) => Ends(s[v])
      <4> SUFFICES ASSUME NEW v \in D, v.qty > w.qty, Good(v) PROVE Ends(s[v])
        OBVIOUS
      <4>1. v.qty >= N - n
        BY <1>1, <2>2
      <4> QED
        BY <2>1, <4>1
    <3> QED
      BY <1>2, <1>3, <1>4, <2>2, <3>1
  <2>3. n + 1 \in 0 .. N
    BY <1>1
  <2> QED
    BY <2>2, <2>3
<1> HIDE DEF S
<1>7. 0 .. N \subseteq S
  BY <1>1, <1>5, <1>6, CountingUp
<1>8. N \in S
  BY <1>1, <1>7
<1> USE DEF S
<1>9. ASSUME NEW w \in D, Good(w) PROVE Ends(s[w])
  <2>1. w.qty >= N - N
    BY <1>1
  <2> QED
    BY <1>8, <1>9, <2>1
<1> QED
  BY <1>9 DEF Ends, Good, D

-----------------------------------------------------------------------------
(* Plans *)

\* The budget is a number.
LEMMA LimitType ==
    ASSUME NEW cash \in Nat
    PROVE  /\ SpendLimit(cash) \in Nat /\ Merge * Base \in Nat /\ LimitOf(cash) \in Int
           /\ \A c \in Int : c <= LimitOf(cash) <=> c + Merge * Base <= SpendLimit(cash)
<1>1. MinOf(MaxOf(0, cash - Reserve), Ceiling) \in Nat
  BY Constant DEF MinOf, MaxOf
<1>2. SpendLimit(cash) \in Nat /\ Merge * Base \in Nat
  BY <1>1, Constant DEF SpendLimit
<1> QED
  BY <1>2 DEF LimitOf

\* A plan has reason to stop where it does.
LEMMA PlanStops ==
    ASSUME NEW book \in [Legs -> Books], NEW cash \in Nat, NEW target \in Nat
    PROVE  LET plan == SimulatePairedTranches(book, cash, target)
           IN  /\ plan \in Places(book) /\ plan.qty <= target
               /\ OnTheWay(book, LimitOf(cash), target, plan)
               /\ Stops(book, LimitOf(cash), target, plan)
<1>1. LimitOf(cash) \in Int
  BY LimitType
<1>2. PICK s : /\ \A w \in Places(book) : s[w] = Onward(book, LimitOf(cash), target, s, w)
               /\ SimulatePairedTranches(book, cash, target) = s[Start]
  BY <1>1, SimulationWalks
<1>3. Start \in Places(book) /\ Start.qty = 0 /\ Start.gross = 0
  BY PairsOfBooks DEF Start, Places
<1>4. OnTheWay(book, LimitOf(cash), target, Start)
  BY <1>3, PairsOfBooks DEF OnTheWay
<1>5. /\ s[Start] \in Places(book)
      /\ OnTheWay(book, LimitOf(cash), target, s[Start])
      /\ Stops(book, LimitOf(cash), target, s[Start])
  <2> HIDE DEF OnTheWay, Stops
  <2> QED
    BY <1>1, <1>2, <1>3, <1>4, WalkEnds
<1>6. s[Start].qty <= target
  BY <1>5, PairsOfBooks DEF OnTheWay, Places
<1> QED
  BY <1>2, <1>5, <1>6

\* What one more pair earns.
LEMMA ProfitOfOneMore ==
    ASSUME NEW book \in [Legs -> Books]
    PROVE  /\ \A q \in 0 .. Pairs(book) : ProfitOf(book, q) \in Int
           /\ \A q \in 1 .. Pairs(book) :
                  /\ Edge(PairPrice(book, q)) => ProfitOf(book, q - 1) <= ProfitOf(book, q)
                  /\ ~Edge(PairPrice(book, q)) => ProfitOf(book, q) <= ProfitOf(book, q - 1)
<1> DEFINE u == Payout * Base
<1>1. u \in Nat
  BY Constant
<1>2. \A q \in Int : q * Payout * Base = q * u
  BY Constant
<1>3. Pairs(book) \in Nat
  BY PairsOfBooks
<1>4. ASSUME NEW q \in 0 .. Pairs(book)
      PROVE  Capital(GrossOf(book, q), Slip) \in Nat /\ q * u \in Int
             /\ ProfitOf(book, q) = q * u - Capital(GrossOf(book, q), Slip)
  <2>1. GrossOf(book, q) \in Nat
    BY PairsOfBooks
  <2>2. Capital(GrossOf(book, q), Slip) \in Nat
    BY <2>1, Constant, CapitalIsLinear
  <2>3. ProfitOf(book, q) = q * u - Capital(GrossOf(book, q), Slip)
    BY <1>2, <1>3 DEF ProfitOf
  <2> QED
    BY <1>1, <1>3, <2>2, <2>3
<1> HIDE DEF u
<1>5. ASSUME NEW q \in 1 .. Pairs(book)
      PROVE  /\ Edge(PairPrice(book, q)) => ProfitOf(book, q - 1) <= ProfitOf(book, q)
             /\ ~Edge(PairPrice(book, q)) => ProfitOf(book, q) <= ProfitOf(book, q - 1)
  <2> DEFINE c == Capital(PairPrice(book, q), Slip)
             a == Capital(GrossOf(book, q - 1), Slip)
             b == Capital(GrossOf(book, q), Slip)
  <2>1. q - 1 \in 0 .. Pairs(book) /\ q \in 0 .. Pairs(book) /\ q \in Int
    BY <1>3
  <2>2. GrossOf(book, q - 1) \in Nat /\ PairPrice(book, q) \in Nat
        /\ GrossOf(book, q) = GrossOf(book, q - 1) + PairPrice(book, q)
    BY <2>1, PairsOfBooks
  <2>3. b = a + c
    BY <2>2, Constant, CapitalIsLinear
  <2>4. a \in Nat /\ c \in Nat
    BY <2>2, Constant, CapitalIsLinear
  <2>5. (q - 1) * u = q * u - u /\ q * u \in Int
    BY <1>1, <2>1
  <2>6. ProfitOf(book, q - 1) = (q - 1) * u - a /\ ProfitOf(book, q) = q * u - b
    BY <1>4, <2>1
  <2>7. Edge(PairPrice(book, q)) <=> c < u
    BY DEF Edge, u
  <2> HIDE DEF a, b, c
  <2> QED
    BY <1>1, <2>3, <2>4, <2>5, <2>6, <2>7
<1> QED
  BY <1>3, <1>4, <1>5

\* Pairs with an edge add to the profit, pairs without one do not.
LEMMA ProfitTurns ==
    ASSUME NEW book \in [Legs -> Books], NEW i \in 0 .. Pairs(book), NEW j \in 0 .. Pairs(book),
           i <= j
    PROVE  /\ (\A k \in i + 1 .. j : Edge(PairPrice(book, k)))
                  => ProfitOf(book, i) <= ProfitOf(book, j)
           /\ (\A k \in i + 1 .. j : ~Edge(PairPrice(book, k)))
                  => ProfitOf(book, j) <= ProfitOf(book, i)
<1> DEFINE S == {n \in 0 .. j - i :
                   /\ (\A k \in i + 1 .. j : Edge(PairPrice(book, k)))
                          => ProfitOf(book, i) <= ProfitOf(book, i + n)
                   /\ (\A k \in i + 1 .. j : ~Edge(PairPrice(book, k)))
                          => ProfitOf(book, i + n) <= ProfitOf(book, i)}
<1>1. Pairs(book) \in Nat /\ i \in Nat /\ j \in Nat /\ j - i \in Nat
  BY PairsOfBooks
<1>2. 0 \in S
  BY <1>1, ProfitOfOneMore
<1>3. \A n \in 0 .. (j - i) - 1 : n \in S => n + 1 \in S
  <2> SUFFICES ASSUME NEW n \in 0 .. (j - i) - 1, n \in S PROVE n + 1 \in S
    OBVIOUS
  <2> DEFINE m == i + (n + 1)
  <2>1. m \in 1 .. Pairs(book) /\ m \in i + 1 .. j /\ m - 1 = i + n /\ n + 1 \in 0 .. j - i
        /\ i + n \in 0 .. Pairs(book) /\ m \in 0 .. Pairs(book)
    BY <1>1
  <2>2. /\ Edge(PairPrice(book, m)) => ProfitOf(book, i + n) <= ProfitOf(book, m)
        /\ ~Edge(PairPrice(book, m)) => ProfitOf(book, m) <= ProfitOf(book, i + n)
    <3> HIDE DEF m
    <3> QED
      BY <2>1, ProfitOfOneMore
  <2>3. ProfitOf(book, i) \in Int /\ ProfitOf(book, i + n) \in Int /\ ProfitOf(book, m) \in Int
    BY <2>1, ProfitOfOneMore
  <2> QED
    BY <2>1, <2>2, <2>3
<1> HIDE DEF S
<1>4. 0 .. j - i \subseteq S
  BY <1>1, <1>2, <1>3, CountingUp
<1>5. j - i \in 0 .. j - i /\ i + (j - i) = j
  BY <1>1
<1> QED
  BY <1>4, <1>5 DEF S

\* A plan that is not held back by its target earns the most.
LEMMA PlanIsBest ==
    ASSUME NEW book \in [Legs -> Books], NEW limit \in Int, NEW target \in Int,
           NEW w \in Places(book), OnTheWay(book, limit, target, w), Stops(book, limit, target, w),
           w.qty >= target => w.qty = Pairs(book),
           NEW n \in 0 .. Pairs(book), Capital(GrossOf(book, n), Slip) <= limit
    PROVE  ProfitOf(book, n) <= ProfitOf(book, w.qty)
<1> DEFINE q == w.qty
<1>1. q \in 0 .. Pairs(book) /\ Pairs(book) \in Nat /\ n \in Nat /\ q \in Nat
  BY PairsOfBooks DEF Places
<1>2. \A k \in 1 .. q : Edge(PairPrice(book, k))
  BY DEF OnTheWay
<1>3. \/ q = Pairs(book) \/ ~Edge(PairPrice(book, q + 1))
      \/ Capital(GrossOf(book, q + 1), Slip) > limit
  BY DEF Stops
<1> HIDE DEF q
<1>4. CASE n <= q
  <2>1. \A k \in n + 1 .. q : Edge(PairPrice(book, k))
    BY <1>1, <1>2
  <2>2. ProfitOf(book, n) <= ProfitOf(book, q)
    BY <1>1, <1>4, <2>1, ProfitTurns
  <2> QED
    BY <2>2 DEF q
<1>5. CASE n > q
  <2>1. q + 1 \in 1 .. Pairs(book) /\ q + 1 <= n /\ q # Pairs(book) /\ q + 1 \in 0 .. Pairs(book)
    BY <1>1, <1>5
  <2>2. ~(Capital(GrossOf(book, q + 1), Slip) > limit)
    <3>1. GrossOf(book, q + 1) <= GrossOf(book, n)
      BY <2>1, GrossGrows
    <3>2. GrossOf(book, q + 1) \in Nat /\ GrossOf(book, n) \in Nat
      BY <2>1, PairsOfBooks
    <3>3. Capital(GrossOf(book, q + 1), Slip) <= Capital(GrossOf(book, n), Slip)
      BY <3>1, <3>2, Constant, CapitalIsLinear
    <3>4. Capital(GrossOf(book, q + 1), Slip) \in Nat /\ Capital(GrossOf(book, n), Slip) \in Nat
      BY <3>2, Constant, CapitalIsLinear
    <3> QED
      BY <3>3, <3>4
  <2>3. ~Edge(PairPrice(book, q + 1))
    BY <1>3, <2>1, <2>2
  <2>4. ASSUME NEW k \in q + 1 .. n PROVE ~Edge(PairPrice(book, k))
    <3>1. k \in 1 .. Pairs(book) /\ q + 1 <= k
      BY <1>1, <1>5
    <3>2. PairPrice(book, q + 1) <= PairPrice(book, k)
          /\ PairPrice(book, q + 1) \in Nat /\ PairPrice(book, k) \in Nat
      BY <2>1, <3>1, PairsOfBooks
    <3> DEFINE a == Capital(PairPrice(book, q + 1), Slip)
               b == Capital(PairPrice(book, k), Slip)
    <3>3. a <= b /\ a \in Nat /\ b \in Nat
      BY <3>2, Constant, CapitalIsLinear
    <3>4. Payout * Base \in Nat
      BY Constant
    <3>5. ~(a < Payout * Base)
      BY <2>3 DEF Edge
    <3>6. ~(b < Payout * Base)
      <4> HIDE DEF a, b
      <4> QED
        BY <3>3, <3>4, <3>5
    <3> QED
      BY <3>6 DEF Edge
  <2>5. ProfitOf(book, n) <= ProfitOf(book, q)
    BY <1>1, <1>5, <2>4, ProfitTurns
  <2> QED
    BY <2>5 DEF q
<1> QED
  BY <1>1, <1>4, <1>5

\* A walk over the same books with a target that an earlier one reached ends where that did.
LEMMA PlanIsConfirmed ==
    ASSUME NEW book \in [Legs -> Books], NEW limit \in Int, NEW target \in Int,
           NEW w \in Places(book), OnTheWay(book, limit, target, w), w.qty > 0,
           NEW v \in Places(book), OnTheWay(book, limit, w.qty, v), Stops(book, limit, w.qty, v)
    PROVE  v = w
<1> DEFINE q == w.qty
           r == v.qty
<1>1. q \in 0 .. Pairs(book) /\ r \in 0 .. Pairs(book) /\ Pairs(book) \in Nat
  BY PairsOfBooks DEF Places
<1>2. q > 0 /\ (r > 0 => r <= q)
  BY DEF OnTheWay
<1>3. /\ \A k \in 1 .. q : Edge(PairPrice(book, k))
      /\ Capital(GrossOf(book, q), Slip) <= limit
  BY DEF OnTheWay
<1>4. \/ r = Pairs(book) \/ r >= q \/ ~Edge(PairPrice(book, r + 1))
      \/ Capital(GrossOf(book, r + 1), Slip) > limit
  BY DEF Stops
<1> HIDE DEF q, r
<1>5. r = q
  <2> SUFFICES ASSUME r # q PROVE FALSE
    OBVIOUS
  <2>1. r < q
    BY <1>1, <1>2
  <2>2. r + 1 \in 1 .. q /\ r + 1 \in 0 .. Pairs(book) /\ r + 1 <= q /\ r # Pairs(book) /\ ~(r >= q)
    BY <1>1, <2>1
  <2>3. GrossOf(book, r + 1) <= GrossOf(book, q)
        /\ GrossOf(book, r + 1) \in Nat /\ GrossOf(book, q) \in Nat
    BY <1>1, <2>2, GrossGrows, PairsOfBooks
  <2> DEFINE a == Capital(GrossOf(book, r + 1), Slip)
             b == Capital(GrossOf(book, q), Slip)
  <2>4. a <= b /\ a \in Nat /\ b \in Nat
    BY <2>3, Constant, CapitalIsLinear
  <2>5. b <= limit /\ a > limit
    BY <1>3, <1>4, <2>2
  <2> HIDE DEF a, b
  <2> QED
    BY <2>4, <2>5
<1>6. v.gross = w.gross
  BY <1>5 DEF OnTheWay, q, r
<1>7. v.qty = w.qty
  BY <1>5 DEF q, r
<1> QED
  BY <1>6, <1>7 DEF Places

-----------------------------------------------------------------------------
(* Books made of books *)

\* A set of numbers has a least one.
LEMMA LeastExists ==
    ASSUME NEW T \in SUBSET Nat, T # {}
    PROVE  \E i \in T : \A j \in T : i <= j
<1> DEFINE R == OpToRel(<, Nat)
<1>1. PICK i \in T : \A j \in T : <<j, i>> \notin R
  <2>1. IsWellFoundedOn(R, Nat)
    BY NatLessThanWellFounded
  <2> HIDE DEF R
  <2> QED
    BY <2>1, WFMin
<1>2. \A j \in T : ~(j < i)
  BY <1>1 DEF OpToRel
<1> QED
  BY <1>2

\* A set of numbers with a bound has a largest one.
LEMMA LargestExists ==
    ASSUME NEW T \in SUBSET Nat, T # {}, NEW n \in Nat, \A j \in T : j <= n
    PROVE  \E i \in T : \A j \in T : j <= i
<1> DEFINE U == {m \in Nat : \A j \in T : j <= m}
<1>1. PICK m \in U : \A k \in U : m <= k
  <2>1. U \in SUBSET Nat /\ n \in U
    OBVIOUS
  <2> HIDE DEF U
  <2> QED
    BY <2>1, LeastExists
<1>2. m \in Nat /\ \A j \in T : j <= m
  OBVIOUS
<1>3. m \in T
  <2> SUFFICES ASSUME m \notin T PROVE FALSE
    OBVIOUS
  <2>1. PICK j \in T : TRUE
    OBVIOUS
  <2>2. m > 0
    BY <1>2, <2>1
  <2>3. m - 1 \in Nat
    BY <1>2, <2>2
  <2>4. ASSUME NEW i \in T PROVE i <= m - 1
    <3>1. i <= m /\ i # m /\ i \in Nat
      BY <1>2
    <3> QED
      BY <1>2, <3>1
  <2>5. m - 1 \in U
    BY <2>3, <2>4
  <2>6. m <= m - 1
    BY <1>1, <2>5
  <2> QED
    BY <1>2, <2>6
<1> QED
  BY <1>2, <1>3

\* How many of the numbers in K are at most i.
UpTo(K, i) == Cardinality({j \in K : j <= i})

\* Counting the places in K up to i.
LEMMA PlacesCounted ==
    ASSUME NEW m \in Nat, NEW K \in SUBSET (1 .. m)
    PROVE  /\ \A i \in Nat : UpTo(K, i) \in Nat
           /\ \A i, j \in Nat : i <= j => UpTo(K, i) <= UpTo(K, j)
           /\ UpTo(K, 0) = 0 /\ UpTo(K, m) = Cardinality(K)
           /\ \A i \in Nat : UpTo(K, i + 1) = IF i + 1 \in K THEN UpTo(K, i) + 1 ELSE UpTo(K, i)
<1> DEFINE C(i) == {j \in K : j <= i}
<1>0. \A j \in K : j \in Nat /\ j > 0 /\ j <= m
  OBVIOUS
<1>1. IsFiniteSet(1 .. m)
  BY FS_Interval
<1>2. IsFiniteSet(K)
  BY <1>1, FS_Subset
<1>3. ASSUME NEW i \in Nat PROVE IsFiniteSet(C(i)) /\ UpTo(K, i) = Cardinality(C(i))
                                /\ UpTo(K, i) \in Nat
  <2>1. C(i) \in SUBSET K
    OBVIOUS
  <2>2. IsFiniteSet(C(i))
    BY <1>2, <2>1, FS_Subset
  <2>3. Cardinality(C(i)) \in Nat
    BY <2>2, FS_CardinalityType
  <2> QED
    BY <2>2, <2>3 DEF UpTo
<1>4. ASSUME NEW i \in Nat, NEW j \in Nat, i <= j PROVE UpTo(K, i) <= UpTo(K, j)
  <2>1. C(i) \in SUBSET C(j)
    <3>1. \A k \in K : k <= i => k <= j
      BY <1>0, <1>4
    <3> QED
      BY <3>1
  <2>2. Cardinality(C(i)) <= Cardinality(C(j))
    <3> HIDE DEF C
    <3> QED
      BY <1>3, <2>1, FS_Subset
  <2>3. UpTo(K, i) = Cardinality(C(i)) /\ UpTo(K, j) = Cardinality(C(j))
    BY DEF UpTo
  <2> HIDE DEF C
  <2> QED
    BY <2>2, <2>3
<1>5. UpTo(K, 0) = 0
  <2>1. \A j \in K : ~(j <= 0)
    BY <1>0
  <2>2. C(0) = {} /\ UpTo(K, 0) = Cardinality(C(0))
    BY <2>1 DEF UpTo
  <2> HIDE DEF C
  <2> QED
    BY <2>2, FS_EmptySet
<1>6. UpTo(K, m) = Cardinality(K)
  <2>1. C(m) = K
    BY <1>0
  <2> QED
    BY <2>1 DEF UpTo
<1>7. ASSUME NEW i \in Nat
      PROVE  UpTo(K, i + 1) = IF i + 1 \in K THEN UpTo(K, i) + 1 ELSE UpTo(K, i)
  <2>1. CASE i + 1 \in K
    <3>1. C(i + 1) = C(i) \cup {i + 1} /\ i + 1 \notin C(i)
      <4>1. ASSUME NEW j \in K PROVE j <= i + 1 <=> j <= i \/ j = i + 1
        BY <1>0
      <4>2. ~(i + 1 <= i)
        OBVIOUS
      <4> QED
        BY <2>1, <4>1, <4>2
    <3>2. Cardinality(C(i) \cup {i + 1}) = Cardinality(C(i)) + 1
      <4> HIDE DEF C
      <4> QED
        BY <1>3, <3>1, FS_AddElement
    <3> QED
      BY <1>3, <2>1, <3>1, <3>2
  <2>2. CASE i + 1 \notin K
    <3>1. C(i + 1) = C(i)
      <4>1. ASSUME NEW j \in K PROVE j <= i + 1 <=> j <= i
        <5>1. j # i + 1
          BY <2>2
        <5> QED
          BY <1>0, <5>1
      <4> QED
        BY <4>1
    <3>2. UpTo(K, i) = Cardinality(C(i)) /\ UpTo(K, i + 1) = Cardinality(C(i + 1))
      BY DEF UpTo
    <3> HIDE DEF C
    <3> QED
      BY <2>2, <3>1, <3>2
  <2> QED
    BY <2>1, <2>2
<1> QED
  BY <1>3, <1>4, <1>5, <1>6, <1>7

\* There is an n-th place.
LEMMA NthExists ==
    ASSUME NEW m \in Nat, NEW K \in SUBSET (1 .. m), NEW n \in 1 .. Cardinality(K)
    PROVE  \E k \in K : UpTo(K, k) = n
<1> DEFINE S == {i \in 0 .. m : n <= UpTo(K, i) => \E k \in K : UpTo(K, k) = n}
<1>1. n \in Nat /\ n > 0 /\ n <= UpTo(K, m)
  <2>1. Cardinality(K) \in Nat /\ UpTo(K, m) = Cardinality(K)
    BY PlacesCounted
  <2> QED
    BY <2>1
<1>2. 0 \in S
  BY <1>1, PlacesCounted
<1>3. \A i \in 0 .. m - 1 : i \in S => i + 1 \in S
  <2> SUFFICES ASSUME NEW i \in 0 .. m - 1, i \in S, n <= UpTo(K, i + 1)
               PROVE  i + 1 \in 0 .. m /\ \E k \in K : UpTo(K, k) = n
    OBVIOUS
  <2>1. i + 1 \in 0 .. m /\ i \in Nat /\ i + 1 \in Nat
    OBVIOUS
  <2>2. CASE n <= UpTo(K, i)
    BY <2>1, <2>2
  <2>3. CASE ~(n <= UpTo(K, i))
    <3>1. UpTo(K, i) \in Nat /\ UpTo(K, i + 1) \in Nat
      BY <2>1, PlacesCounted
    <3>2. UpTo(K, i + 1) # UpTo(K, i)
      BY <2>3
    <3>3. i + 1 \in K /\ UpTo(K, i + 1) = UpTo(K, i) + 1
      BY <2>1, <3>2, PlacesCounted
    <3>4. UpTo(K, i + 1) = n
      BY <1>1, <2>3, <3>1, <3>3
    <3> QED
      BY <2>1, <3>3, <3>4
  <2> QED
    BY <2>2, <2>3
<1> HIDE DEF S
<1>4. 0 .. m \subseteq S
  BY <1>2, <1>3, CountingUp
<1>5. m \in S
  BY <1>4
<1> QED
  BY <1>1, <1>5 DEF S

\* Among keeps the shares at the places named, and the order of a book.
LEMMA AmongKeeps ==
    ASSUME NEW b \in Seq(Prices), NEW K \in SUBSET DOMAIN b
    PROVE  /\ Among(b, K) \in Seq(Prices)
           /\ Len(Among(b, K)) = Cardinality(K) /\ Cardinality(K) \in Nat
           /\ \A n \in 1 .. Cardinality(K) : \E k \in K : Among(b, K)[n] = b[k]
           /\ b \in Books => Among(b, K) \in Books
<1> DEFINE a == Among(b, K)
           at(n) == CHOOSE k \in K : UpTo(K, k) = n
           c == Cardinality(K)
<1>1. Len(b) \in Nat /\ DOMAIN b = 1 .. Len(b)
  OBVIOUS
<1>2. c \in Nat
  BY <1>1, PlacesCounted
<1>3. ASSUME NEW n \in 1 .. c PROVE at(n) \in K /\ UpTo(K, at(n)) = n
  BY <1>1, NthExists
<1>4. a = [n \in 1 .. c |-> b[at(n)]]
  BY DEF Among, UpTo
<1> HIDE DEF a, at, c
<1>5. ASSUME NEW n \in 1 .. c PROVE a[n] = b[at(n)] /\ a[n] \in Prices
  <2>1. at(n) \in DOMAIN b /\ a[n] = b[at(n)]
    BY <1>3, <1>4
  <2> QED
    BY <1>1, <2>1
<1>6. a \in Seq(Prices) /\ Len(a) = c
  BY <1>2, <1>4, <1>5
<1>7. ASSUME b \in Books PROVE a \in Books
  <2> SUFFICES ASSUME NEW n \in 2 .. Len(a) PROVE a[n - 1] <= a[n]
    BY <1>6 DEF Books
  <2>1. n \in 1 .. c /\ n - 1 \in 1 .. c
    BY <1>2, <1>6
  <2>2. /\ at(n - 1) \in 1 .. Len(b) /\ UpTo(K, at(n - 1)) = n - 1
        /\ at(n) \in 1 .. Len(b) /\ UpTo(K, at(n)) = n
    BY <1>1, <1>3, <2>1
  <2>3. at(n - 1) <= at(n)
    <3> SUFFICES ASSUME ~(at(n - 1) <= at(n)) PROVE FALSE
      OBVIOUS
    <3>1. at(n) \in Nat /\ at(n - 1) \in Nat /\ at(n) <= at(n - 1)
      BY <1>1, <2>2
    <3>2. UpTo(K, at(n)) <= UpTo(K, at(n - 1))
      BY <1>1, <3>1, PlacesCounted
    <3> QED
      BY <1>2, <2>1, <2>2, <3>2
  <2>4. b[at(n - 1)] <= b[at(n)]
    BY <1>7, <2>2, <2>3, BookRises
  <2> QED
    BY <1>5, <2>1, <2>4
<1> QED
  BY <1>2, <1>3, <1>5, <1>6, <1>7 DEF a, c

\* The shares of s that cost at most p.
Within(s, p) == {k \in DOMAIN s : s[k] <= p}

\* More shares are within a higher price, and all are within the highest.
LEMMA SharesWithin ==
    ASSUME NEW s \in Seq(Prices)
    PROVE  /\ \A p \in Prices : /\ IsFiniteSet(Within(s, p)) /\ Within(s, p) \subseteq 1 .. Len(s)
                                /\ Cardinality(Within(s, p)) \in Nat
           /\ \E p \in Prices : Within(s, p) = 1 .. Len(s)
<1>1. Len(s) \in Nat /\ DOMAIN s = 1 .. Len(s)
  OBVIOUS
<1>2. IsFiniteSet(1 .. Len(s))
  BY <1>1, FS_Interval
<1>3. ASSUME NEW p \in Prices
      PROVE  /\ IsFiniteSet(Within(s, p)) /\ Within(s, p) \subseteq 1 .. Len(s)
             /\ Cardinality(Within(s, p)) \in Nat
  <2>1. Within(s, p) \in SUBSET (1 .. Len(s))
    BY <1>1 DEF Within
  <2>2. IsFiniteSet(Within(s, p))
    BY <1>2, <2>1, FS_Subset
  <2> QED
    BY <2>1, <2>2, FS_CardinalityType
<1>4. PICK p \in Prices : \A q \in Prices : q <= p
  <2>1. Prices \in SUBSET Nat /\ Prices # {} /\ Payout \in Nat /\ \A q \in Prices : q <= Payout
    BY Constant
  <2> QED
    BY <2>1, LargestExists
<1>5. \A k \in 1 .. Len(s) : s[k] <= p
  BY <1>1, <1>4
<1>6. Within(s, p) = 1 .. Len(s)
  BY <1>1, <1>5 DEF Within
<1> QED
  BY <1>3, <1>6

\* The least price that k shares of s do not exceed.
Ranked(s, k, p) ==
    /\ p \in Prices /\ k <= Cardinality(Within(s, p))
    /\ \A q \in Prices : k <= Cardinality(Within(s, q)) => p <= q

\* The k-th share has such a price.
LEMMA RankedExists ==
    ASSUME NEW s \in Seq(Prices), NEW k \in 1 .. Len(s)
    PROVE  \E p \in Prices : Ranked(s, k, p)
<1> DEFINE T == {p \in Prices : k <= Cardinality(Within(s, p))}
<1>1. Len(s) \in Nat
  OBVIOUS
<1>2. PICK p \in Prices : Within(s, p) = 1 .. Len(s)
  BY SharesWithin
<1>3. Cardinality(1 .. Len(s)) = Len(s)
  BY <1>1, FS_Interval
<1>4. p \in T
  BY <1>1, <1>2, <1>3
<1>5. T \in SUBSET Nat
  BY Constant
<1>6. PICK i \in T : \A j \in T : i <= j
  <2> HIDE DEF T
  <2> QED
    BY <1>4, <1>5, LeastExists
<1> QED
  BY <1>6 DEF Ranked

\* Adding shares makes a book of them all, whose first share is one of them.
LEMMA SupportMakesBook ==
    ASSUME NEW b \in Seq(Prices), NEW added \in Seq(Prices)
    PROVE  /\ WithSupport(b, added) \in Books
           /\ Len(WithSupport(b, added)) = Len(b) + Len(added)
           /\ WithSupport(b, added) # <<>> =>
                  \E j \in 1 .. Len(b \o added) : WithSupport(b, added)[1] = (b \o added)[j]
<1> DEFINE s == b \o added
           w == WithSupport(b, added)
           f(k) == CHOOSE p \in Prices : k <= Cardinality(Within(s, p))
                       /\ \A q \in Prices : k <= Cardinality(Within(s, q)) => p <= q
<1>1. s \in Seq(Prices) /\ Len(s) = Len(b) + Len(added)
  BY ConcatProperties
<1>2. w = [k \in DOMAIN s |-> f(k)]
  BY DEF WithSupport, Within
<1> HIDE DEF w, s
<1>3. Len(s) \in Nat /\ DOMAIN s = 1 .. Len(s)
  BY <1>1
<1>4. ASSUME NEW k \in 1 .. Len(s) PROVE Ranked(s, k, f(k)) /\ f(k) \in Prices
  <2>1. \E p \in Prices : Ranked(s, k, p)
    BY <1>1, RankedExists
  <2> QED
    BY <2>1 DEF Ranked
<1> HIDE DEF f
<1>5. w \in Seq(Prices) /\ Len(w) = Len(s)
  BY <1>2, <1>3, <1>4
<1>6. \A k \in 1 .. Len(s) : w[k] = f(k)
  BY <1>2, <1>3
<1>7. w \in Books
  <2> SUFFICES ASSUME NEW k \in 2 .. Len(w) PROVE w[k - 1] <= w[k]
    BY <1>5 DEF Books
  <2>1. k \in 1 .. Len(s) /\ k - 1 \in 1 .. Len(s)
    BY <1>3, <1>5
  <2>2. Ranked(s, k, f(k)) /\ Ranked(s, k - 1, f(k - 1)) /\ f(k) \in Prices
    BY <1>4, <2>1
  <2>3. k - 1 <= Cardinality(Within(s, f(k)))
    <3>1. Cardinality(Within(s, f(k))) \in Nat /\ k <= Cardinality(Within(s, f(k)))
      BY <1>1, <2>2, SharesWithin DEF Ranked
    <3> QED
      BY <2>1, <3>1
  <2> QED
    BY <1>6, <2>1, <2>2, <2>3 DEF Ranked
<1>8. ASSUME w # <<>> PROVE \E j \in 1 .. Len(s) : w[1] = s[j]
  <2>1. 1 \in 1 .. Len(s)
    BY <1>3, <1>5, <1>8
  <2> DEFINE p == f(1)
  <2>2. Ranked(s, 1, p) /\ p \in Prices
    BY <1>4, <2>1
  <2> HIDE DEF p
  <2>3. 1 <= Cardinality(Within(s, p)) /\ IsFiniteSet(Within(s, p))
    BY <1>1, <2>2, SharesWithin DEF Ranked
  <2>4. Within(s, p) # {}
    BY <2>3, FS_EmptySet
  <2>5. PICK j \in 1 .. Len(s) : s[j] <= p
    BY <1>3, <2>4 DEF Within
  <2>6. s[j] \in Prices
    BY <1>1
  <2>7. j \in Within(s, s[j])
    BY <1>3, <2>6, Constant DEF Within
  <2>8. 1 <= Cardinality(Within(s, s[j]))
    <3>1. IsFiniteSet(Within(s, s[j])) /\ Cardinality(Within(s, s[j])) \in Nat
      BY <1>1, <2>6, SharesWithin
    <3>2. Cardinality(Within(s, s[j])) # 0
      BY <2>7, <3>1, FS_EmptySet
    <3> QED
      BY <3>1, <3>2
  <2>9. p <= s[j]
    BY <2>2, <2>6, <2>8 DEF Ranked
  <2>10. p = s[j]
    BY <2>2, <2>5, <2>6, <2>9, Constant
  <2> QED
    BY <1>6, <2>1, <2>10 DEF p
<1> QED
  BY <1>1, <1>5, <1>7, <1>8 DEF w, s

\* A book to which nothing is added stays as it is.
LEMMA NoSupportNoChange ==
    ASSUME NEW b \in Books
    PROVE  WithSupport(b, <<>>) = b
<1> DEFINE w == WithSupport(b, <<>>)
           f(k) == CHOOSE p \in Prices : k <= Cardinality(Within(b, p))
                       /\ \A q \in Prices : k <= Cardinality(Within(b, q)) => p <= q
<1>1. b \in Seq(Prices) /\ Len(b) \in Nat /\ DOMAIN b = 1 .. Len(b)
  BY BookRises
<1>2. b \o <<>> = b
  BY <1>1, ConcatEmptySeq
<1>3. w = [k \in DOMAIN b |-> f(k)]
  BY <1>2 DEF WithSupport, Within
<1>4. ASSUME NEW k \in 1 .. Len(b), NEW p \in Prices
      PROVE  k <= Cardinality(Within(b, p)) <=> b[k] <= p
  <2>1. IsFiniteSet(Within(b, p)) /\ Cardinality(Within(b, p)) \in Nat
    BY <1>1, SharesWithin
  <2>2. b[k] \in Nat /\ p \in Nat
    BY BookRises, Constant
  <2>3. ASSUME b[k] <= p PROVE k <= Cardinality(Within(b, p))
    <3>1. 1 .. k \in SUBSET Within(b, p)
      <4> SUFFICES ASSUME NEW j \in 1 .. k PROVE j \in 1 .. Len(b) /\ b[j] <= p
        BY <1>1 DEF Within
      <4>1. j \in 1 .. Len(b) /\ j <= k
        BY <1>1
      <4>2. b[j] <= b[k] /\ b[j] \in Nat
        BY <4>1, BookRises
      <4> QED
        BY <2>2, <2>3, <4>1, <4>2
    <3>2. Cardinality(1 .. k) <= Cardinality(Within(b, p))
      BY <2>1, <3>1, FS_Subset
    <3>3. Cardinality(1 .. k) = k
      BY FS_Interval
    <3> QED
      BY <3>2, <3>3
  <2>4. ASSUME ~(b[k] <= p) PROVE ~(k <= Cardinality(Within(b, p)))
    <3>1. Within(b, p) \in SUBSET (1 .. k - 1)
      <4> SUFFICES ASSUME NEW j \in 1 .. Len(b), b[j] <= p PROVE j \in 1 .. k - 1
        BY <1>1 DEF Within
      <4>1. ~(k <= j)
        <5> SUFFICES ASSUME k <= j PROVE FALSE
          OBVIOUS
        <5>1. b[k] <= b[j] /\ b[j] \in Nat
          BY BookRises
        <5> QED
          BY <2>2, <2>4, <5>1
      <4> QED
        BY <1>1, <4>1
    <3>2. IsFiniteSet(1 .. k - 1) /\ Cardinality(1 .. k - 1) = k - 1
      <4>1. k - 1 \in Int /\ (1 > k - 1 => k - 1 = 0)
        OBVIOUS
      <4> QED
        BY <4>1, FS_Interval
    <3>3. Cardinality(Within(b, p)) <= k - 1
      BY <3>1, <3>2, FS_Subset
    <3> QED
      BY <2>1, <3>3
  <2> QED
    BY <2>3, <2>4
<1> HIDE DEF w
<1>5. ASSUME NEW k \in 1 .. Len(b) PROVE f(k) = b[k]
  <2>1. b[k] \in Prices
    BY BookRises
  <2>2. k <= Cardinality(Within(b, b[k])) /\
        \A q \in Prices : k <= Cardinality(Within(b, q)) => b[k] <= q
    BY <1>4, <2>1, Constant
  <2>3. ASSUME NEW p \in Prices, k <= Cardinality(Within(b, p)),
               \A q \in Prices : k <= Cardinality(Within(b, q)) => p <= q
        PROVE  p = b[k]
    <3>1. p <= b[k] /\ b[k] <= p
      BY <1>4, <2>1, <2>2, <2>3
    <3> QED
      BY <2>1, <3>1, Constant
  <2> QED
    BY <2>1, <2>2, <2>3
<1> HIDE DEF f
<1>6. w = [k \in 1 .. Len(b) |-> b[k]]
  BY <1>1, <1>3, <1>5
<1>7. b = [k \in 1 .. Len(b) |-> b[k]]
  BY <1>1
<1> QED
  BY <1>6, <1>7 DEF w

\* The price after an adverse move exists, and keeps the order of prices.
LEMMA DearerRises ==
    ASSUME NEW move \in Nat, NEW p \in Prices, NEW q \in Prices, p <= q
    PROVE  Dearer(p, move) \in Prices /\ Dearer(p, move) <= Dearer(q, move)
<1> DEFINE Hit(r, x) == /\ r * Base >= x * (Base + move)
                        /\ \A s \in Prices : s < r => s * Base < x * (Base + move)
           Top(r, x) == \A s \in Prices : s <= r /\ s * Base < x * (Base + move)
<1>1. \A r \in Prices : r \in Nat /\ r * Base \in Nat
  BY Constant
<1>2. \A x \in Prices : x \in Nat /\ x * (Base + move) \in Nat
  BY Constant
<1>3. ASSUME NEW x \in Prices
      PROVE  Dearer(x, move) \in Prices /\ (Hit(Dearer(x, move), x) \/ Top(Dearer(x, move), x))
  <2> DEFINE U == {r \in Prices : r * Base >= x * (Base + move)}
  <2>1. \E r \in Prices : Hit(r, x) \/ Top(r, x)
    <3>1. CASE U = {}
      <4>1. PICK r \in Prices : \A s \in Prices : s <= r
        <5>1. /\ Prices \in SUBSET Nat /\ Prices # {} /\ Payout \in Nat
              /\ \A s \in Prices : s <= Payout
          BY Constant
        <5> QED
          BY <5>1, LargestExists
      <4>2. \A s \in Prices : s * Base < x * (Base + move)
        BY <1>1, <1>2, <3>1
      <4> QED
        BY <4>1, <4>2
    <3>2. CASE U # {}
      <4>1. U \in SUBSET Nat
        BY <1>1
      <4>2. PICK r \in U : \A s \in U : r <= s
        <5> HIDE DEF U
        <5> QED
          BY <3>2, <4>1, LeastExists
      <4>3. ASSUME NEW s \in Prices, s < r PROVE s * Base < x * (Base + move)
        <5>1. s \notin U
          BY <1>1, <4>2, <4>3
        <5> QED
          BY <1>1, <1>2, <5>1
      <4> QED
        BY <4>2, <4>3
    <3> QED
      BY <3>1, <3>2
  <2>2. Dearer(x, move) = CHOOSE r \in Prices : Hit(r, x) \/ Top(r, x)
    BY DEF Dearer
  <2> HIDE DEF Hit, Top
  <2> QED
    BY <2>1, <2>2
<1>4. p * (Base + move) <= q * (Base + move)
  BY <1>2, Constant, TimesGrows
<1> DEFINE a == Dearer(p, move)
           b == Dearer(q, move)
<1>5. /\ a \in Prices /\ (Hit(a, p) \/ Top(a, p))
      /\ b \in Prices /\ (Hit(b, q) \/ Top(b, q))
  BY <1>3
<1> HIDE DEF a, b
<1>6. a <= b
  <2>1. CASE Top(b, q)
    BY <1>5, <2>1
  <2>2. CASE Hit(b, q)
    <3> SUFFICES ASSUME ~(a <= b) PROVE FALSE
      OBVIOUS
    <3>1. b < a
      BY <1>1, <1>5
    <3>2. b * Base < p * (Base + move)
      BY <1>5, <3>1
    <3> QED
      BY <1>1, <1>2, <1>4, <1>5, <2>2, <3>2
  <2> QED
    BY <1>5, <2>1, <2>2
<1> QED
  BY <1>5, <1>6 DEF a, b

\* What is assumed of a book without public support is a book too.
LEMMA AssumedBooks ==
    ASSUME NEW b \in Books
    PROVE  /\ \A ratio : ScaleDepth(b, ratio) \in Books
           /\ \A removal : \A move \in Nat : AdverseAdjust(b, removal, move) \in Books
<1>1. ASSUME NEW ratio PROVE ScaleDepth(b, ratio) \in Books
  <2> DEFINE K == {k \in DOMAIN b :
                     Cardinality({j \in 1..k : b[j] = b[k]}) * Base <= LevelSize(b, b[k]) * ratio}
  <2>1. K \in SUBSET DOMAIN b /\ b \in Seq(Prices)
    BY BookRises
  <2>2. ScaleDepth(b, ratio) = Among(b, K)
    BY DEF ScaleDepth
  <2> HIDE DEF K
  <2> QED
    BY <2>1, <2>2, AmongKeeps
<1>2. ASSUME NEW removal, NEW move \in Nat PROVE AdverseAdjust(b, removal, move) \in Books
  <2> DEFINE left == ScaleDepth(b, Base - removal)
             a == AdverseAdjust(b, removal, move)
  <2>1. left \in Books
    BY <1>1
  <2>2. a = [k \in DOMAIN left |-> Dearer(left[k], move)]
    BY DEF AdverseAdjust
  <2> HIDE DEF left, a
  <2>3. Len(left) \in Nat /\ DOMAIN left = 1 .. Len(left)
        /\ \A k \in 1 .. Len(left) : left[k] \in Prices
    BY <2>1, BookRises
  <2>4. \A k \in 1 .. Len(left) : Dearer(left[k], move) \in Prices
    BY <2>3, Constant, DearerRises
  <2>5. a \in Seq(Prices) /\ Len(a) = Len(left)
    BY <2>2, <2>3, <2>4
  <2>6. \A k \in 1 .. Len(left) : a[k] = Dearer(left[k], move)
    BY <2>2, <2>3
  <2>7. ASSUME NEW k \in 2 .. Len(a) PROVE a[k - 1] <= a[k]
    <3>1. k \in 1 .. Len(left) /\ k - 1 \in 1 .. Len(left) /\ k - 1 <= k
      BY <2>3, <2>5
    <3>2. left[k - 1] <= left[k]
      BY <2>1, <3>1, BookRises
    <3> QED
      BY <2>3, <2>6, <3>1, <3>2, DearerRises
  <2> QED
    BY <2>5, <2>7 DEF Books, a
<1> QED
  BY <1>1, <1>2

-----------------------------------------------------------------------------
(* What an evaluation computes *)

\* What the constants of the evaluation are.
LEMMA Given ==
    /\ AskBooks \subseteq Books /\ Signals \subseteq [Legs -> Books]
    /\ Conditions \subseteq TypeOfConditions /\ TapePairs \subseteq [Legs -> TypeOfTapes]
    /\ Floor["profit"] \in Nat /\ Floor["return"] \in Nat
    /\ \A k \in Measures : /\ Floor[k] \in Nat
                           /\ \A r \in Risks \cup {"partial"} : Weights[k][r] \in Nat
    /\ MinSize \in Nat /\ MinSize > 0 /\ Window \in Nat /\ Window > 0 /\ Cashes \subseteq Nat
    /\ MaxMove \in Nat /\ AdverseMove \in Nat /\ SlipCap \in Nat
    /\ Throttle \in 0 .. Base
<1>1. AskBooks \subseteq Books /\ Signals \subseteq [Legs -> Books]
  BY FillAssumption
<1>2. Conditions \subseteq TypeOfConditions /\ TapePairs \subseteq [Legs -> TypeOfTapes]
  BY FillAssumption
<1>3. Floor["profit"] \in Nat /\ Floor["return"] \in Nat
  BY FillAssumption DEF Measures
<1>4. ASSUME NEW k \in Measures
      PROVE  Floor[k] \in Nat /\ \A r \in Risks \cup {"partial"} : Weights[k][r] \in Nat
  BY FillAssumption
<1>5. MinSize \in Nat /\ MinSize > 0 /\ Window \in Nat /\ Window > 0 /\ Cashes \subseteq Nat
  BY FillAssumption
<1>6. MaxMove \in Nat /\ AdverseMove \in Nat /\ SlipCap \in Nat /\ Throttle \in 0 .. Base
  BY FillAssumption
<1> QED
  BY <1>1, <1>2, <1>3, <1>4, <1>5, <1>6

\* What a look at the market consists of.
LEMMA LookType ==
    ASSUME NEW look \in Looks
    PROVE  /\ look.book \in [Legs -> Books]
           /\ \A l \in Legs : /\ look.tape[l].shrunk \in Seq(Prices)
                              /\ look.tape[l].traded \in Seq(Prices)
           /\ look.at.slip \in Nat /\ EffectiveSlip(look.at.slip) \in Nat
           /\ \A l \in Legs : look.at.draw[l] \in 0 .. Base
<1>1. look.book \in [Legs -> AskBooks] /\ look.tape \in TapePairs /\ look.at \in Conditions
  BY DEF Looks
<1>2. look.book \in [Legs -> Books]
  BY <1>1, Given
<1>3. look.tape \in [Legs -> TypeOfTapes]
  BY <1>1, Given
<1>4. ASSUME NEW l \in Legs
      PROVE  look.tape[l].shrunk \in Seq(Prices) /\ look.tape[l].traded \in Seq(Prices)
  <2>1. look.tape[l] \in TypeOfTapes
    BY <1>3
  <2> QED
    BY <2>1 DEF TypeOfTapes
<1>5. look.at \in TypeOfConditions
  BY <1>1, Given
<1>6. look.at.slip \in Nat /\ look.at.draw \in [Legs -> 0 .. Base]
  BY <1>5 DEF TypeOfConditions
<1>7. EffectiveSlip(look.at.slip) \in Nat
  BY <1>6, Constant, Given DEF EffectiveSlip, MinOf, MaxOf
<1> QED
  BY <1>2, <1>4, <1>6, <1>7

\* The parts of Outcome.
PublicOf(o, look) == [l \in Legs |-> PublicBook(o, look, l)]
Supported(o, look) == PublicSupport(o, look, PublicOf(o, look))
BookAt(o, look) ==
    IF Supported(o, look) THEN PublicOf(o, look)
    ELSE [l \in Legs |-> WorkingBook(look, PublicOf(o, look)[l])]
PlanAt(o, look) == SimulatePairedTranches(BookAt(o, look), o.cash, Target(o, look))
FilledAt(o, look) ==
    [l \in Legs |-> Filled(o, look, Supported(o, look), PlanAt(o, look).qty, l)]
GrossAt(o, look) ==
    FillCost(BookAt(o, look)["yes"], FilledAt(o, look)["yes"])
      + FillCost(BookAt(o, look)["no"], FilledAt(o, look)["no"])
ClearsAt(o, look, qty, gross) ==
    Clears(qty, gross, EffectiveSlip(look.at.slip), FillRisks(o, look))
Failure(fate) == [fate |-> fate, qty |-> 0, gross |-> 0]

\* Outcome in terms of its parts.
LEMMA OutcomeIs ==
    ASSUME NEW o, NEW look
    PROVE  Outcome(o, look) =
             IF \/ ~Admitted(o, look, Supported(o, look))
                \/ ~Attempted(o, look, PlanAt(o, look)) THEN Failure("other")
             ELSE IF \/ FilledAt(o, look)["yes"] # FilledAt(o, look)["no"]
                     \/ FilledAt(o, look)["yes"] < MinSize THEN Failure("partial")
             ELSE IF ~ClearsAt(o, look, FilledAt(o, look)["yes"], GrossAt(o, look))
                  THEN Failure("other")
             ELSE [fate |-> "executed", qty |-> FilledAt(o, look)["yes"],
                   gross |-> GrossAt(o, look)]
  BY DEF Outcome, PublicOf, Supported, BookAt, PlanAt, FilledAt, GrossAt, ClearsAt, Failure

\* What the tape shows at the planned prices.
LEMMA SharesAtIntended ==
    ASSUME NEW o, NEW l, NEW shares \in Seq(Prices)
    PROVE  /\ AtIntended(o, l, shares) \in Seq(Prices)
           /\ Len(AtIntended(o, l, shares)) \in Nat
           /\ \A n \in 1 .. Len(AtIntended(o, l, shares)) :
                  \E k \in DOMAIN shares : /\ AtIntended(o, l, shares)[n] = shares[k]
                                           /\ shares[k] \in IntendedPrices(o, l)
<1> DEFINE K == {k \in DOMAIN shares : shares[k] \in IntendedPrices(o, l)}
<1>1. AtIntended(o, l, shares) = Among(shares, K)
  BY DEF AtIntended
<1>2. K \in SUBSET DOMAIN shares
  OBVIOUS
<1>3. /\ Among(shares, K) \in Seq(Prices)
      /\ Len(Among(shares, K)) = Cardinality(K) /\ Cardinality(K) \in Nat
      /\ \A n \in 1 .. Cardinality(K) : \E k \in K : Among(shares, K)[n] = shares[k]
  <2> HIDE DEF K
  <2> QED
    BY <1>2, AmongKeeps
<1> QED
  BY <1>1, <1>3

\* The books of an evaluation are books.
LEMMA EvaluatedBooks ==
    ASSUME NEW o \in Offers, NEW look \in Looks
    PROVE  /\ PublicOf(o, look) \in [Legs -> Books]
           /\ BookAt(o, look) \in [Legs -> Books]
           /\ \A l \in Legs : QueueFill(o, look, l) \in Nat /\ QueueFill(o, look, l) <= o.qty
           /\ Target(o, look) \in Nat /\ Target(o, look) <= o.qty
           /\ o.book \in [Legs -> Books] /\ o.cash \in Nat /\ o.qty \in Nat /\ o.qty > 0
<1>1. o.book \in [Legs -> Books] /\ o.cash \in Nat /\ o.qty \in Nat /\ o.qty > 0
  BY DEF Offers
<1>2. ASSUME NEW l \in Legs
      PROVE  /\ Shrunk(o, look, l) \in Seq(Prices) /\ Len(Shrunk(o, look, l)) \in Nat
             /\ Traded(o, look, l) \in Seq(Prices) /\ Len(Traded(o, look, l)) \in Nat
  BY LookType, SharesAtIntended DEF Shrunk, Traded
<1>3. ASSUME NEW l \in Legs PROVE PublicBook(o, look, l) \in Books
  <2> DEFINE t == IF PrintsCount(o, look, l) THEN Traded(o, look, l) ELSE <<>>
             added == Shrunk(o, look, l) \o t
  <2>1. t \in Seq(Prices)
    BY <1>2
  <2> HIDE DEF t
  <2>2. added \in Seq(Prices)
    BY <1>2, <2>1, ConcatProperties
  <2>3. look.book[l] \in Seq(Prices)
    BY LookType DEF Books
  <2>4. PublicBook(o, look, l) = WithSupport(look.book[l], added)
    BY DEF PublicBook, t
  <2> HIDE DEF added
  <2> QED
    BY <2>2, <2>3, <2>4, SupportMakesBook
<1>4. PublicOf(o, look) \in [Legs -> Books]
  BY <1>3 DEF PublicOf
<1>5. ASSUME NEW b \in Books PROVE WorkingBook(look, b) \in Books
  <2> DEFINE queued == IF QueueRatio > 0 THEN ScaleDepth(b, QueueRatio) ELSE b
  <2>1. queued \in Books
    BY AssumedBooks
  <2>2. WorkingBook(look, b) = IF look.at.adverse THEN AdverseAdjust(queued, Removal, AdverseMove)
                               ELSE queued
    BY DEF WorkingBook
  <2> HIDE DEF queued
  <2> QED
    BY <2>1, <2>2, Given, AssumedBooks
<1>6. BookAt(o, look) \in [Legs -> Books]
  <2>1. \A l \in Legs : PublicOf(o, look)[l] \in Books
    BY <1>4
  <2>2. [l \in Legs |-> WorkingBook(look, PublicOf(o, look)[l])] \in [Legs -> Books]
    BY <1>5, <2>1
  <2> QED
    BY <1>4, <2>2 DEF BookAt
<1>7. ASSUME NEW l \in Legs PROVE QueueFill(o, look, l) \in Nat /\ QueueFill(o, look, l) <= o.qty
  BY <1>1, <1>2 DEF QueueFill, MinOf
<1>8. Target(o, look) \in Nat /\ Target(o, look) <= o.qty
  <2>1. (o.qty * Throttle) \div Base \in Nat /\ (o.qty * Throttle) \div Base <= o.qty
    <3> DEFINE a == o.qty * Throttle
    <3>1. Throttle \in Nat /\ Throttle <= Base /\ Base \in Nat /\ Base > 0
      BY Given, Constant
    <3>2. a \in Nat
      BY <1>1, <3>1
    <3>3. a <= o.qty * Base
      BY <1>1, <3>1, TimesGrows
    <3> HIDE DEF a
    <3>4. a \div Base \in Int /\ \A s \in Int : s <= a \div Base <=> s * Base <= a
      BY <3>1, <3>2, WithinQuotient
    <3>5. 0 <= a \div Base
      BY <3>1, <3>2, <3>4
    <3>6. a \div Base <= o.qty
      <4> DEFINE n == a \div Base
      <4>1. n \in Int /\ n * Base <= a
        BY <3>4
      <4> HIDE DEF n
      <4>2. ~(o.qty + 1 <= n)
        <5> SUFFICES ASSUME o.qty + 1 <= n PROVE FALSE
          OBVIOUS
        <5>1. (o.qty + 1) * Base <= n * Base
          BY <1>1, <3>1, <4>1, TimesGrows
        <5>2. (o.qty + 1) * Base = o.qty * Base + Base /\ o.qty * Base \in Nat /\ n * Base \in Int
          BY <1>1, <3>1, <4>1
        <5> QED
          BY <3>1, <3>2, <3>3, <4>1, <5>1, <5>2
      <4>3. n <= o.qty
        BY <1>1, <4>1, <4>2
      <4> QED
        BY <4>3 DEF n
    <3> QED
      BY <3>4, <3>5, <3>6 DEF a
  <2> QED
    BY <1>1, <2>1 DEF Target
<1> QED
  BY <1>1, <1>4, <1>6, <1>7, <1>8

\* What is filled is part of the plan.
LEMMA FilledWithin ==
    ASSUME NEW o \in Offers, NEW look \in Looks, NEW supported, NEW qty \in Nat, NEW l \in Legs
    PROVE  Filled(o, look, supported, qty, l) \in 0 .. qty
<1>1. QueueFill(o, look, l) \in Nat
  BY EvaluatedBooks
<1>2. MinOf(qty, QueueFill(o, look, l)) \in 0 .. qty
  BY <1>1 DEF MinOf
<1>3. (qty * look.at.draw[l]) \div Base \in 0 .. qty
  <2> DEFINE d == look.at.draw[l]
             a == qty * d
             n == a \div Base
  <2>1. d \in Nat /\ d <= Base /\ Base \in Nat /\ Base > 0
    <3>1. d \in 0 .. Base
      BY LookType
    <3> HIDE DEF d
    <3> QED
      BY <3>1, Constant
  <2> HIDE DEF d
  <2>2. a \in Nat /\ a <= qty * Base /\ qty * Base \in Nat
    <3>1. d * qty <= Base * qty
      BY <2>1, TimesGrows
    <3> QED
      BY <2>1, <3>1
  <2> HIDE DEF a
  <2>3. n \in Int /\ n * Base <= a /\ 0 <= n
    <3>1. n \in Int /\ \A s \in Int : s <= n <=> s * Base <= a
      BY <2>1, <2>2, WithinQuotient
    <3>2. 0 * Base <= a
      BY <2>1, <2>2
    <3> HIDE DEF n
    <3> QED
      BY <3>1, <3>2
  <2> HIDE DEF n
  <2>4. n <= qty
    <3> SUFFICES ASSUME ~(n <= qty) PROVE FALSE
      OBVIOUS
    <3>1. qty + 1 <= n
      BY <2>3
    <3>2. (qty + 1) * Base <= n * Base
      BY <2>1, <2>3, <3>1, TimesGrows
    <3>3. (qty + 1) * Base = qty * Base + Base /\ n * Base \in Int
      BY <2>1, <2>3
    <3> QED
      BY <2>1, <2>2, <2>3, <3>2, <3>3
  <2> QED
    BY <2>3, <2>4 DEF n, a, d
<1> QED
  BY <1>2, <1>3 DEF Filled

\* The risks are numbers.
LEMMA RisksType ==
    /\ SignalRisks \in [Risks -> Nat]
    /\ \A o : \A look \in Looks : FillRisks(o, look) \in [Risks -> Nat]
<1>1. SignalRisks \in [Risks -> Nat]
  BY DEF SignalRisks
<1>2. ASSUME NEW o, NEW look \in Looks PROVE FillRisks(o, look) \in [Risks -> Nat]
  <2> DEFINE T == {l \in Legs : look.book[l] # o.book[l]}
             c == Cardinality(T)
             f == IF look.at.fallback THEN 1 ELSE 0
             e == IF look.at.late THEN 1 ELSE 0
             s == MaxOf(0, EffectiveSlip(look.at.slip) - Slip)
  <2>1. c \in Nat
    <3>1. IsFiniteSet({"yes"}) /\ IsFiniteSet({"no"})
      BY FS_Singleton
    <3>2. IsFiniteSet({"yes"} \cup {"no"})
      BY <3>1, FS_Union
    <3>3. Legs = {"yes"} \cup {"no"}
      BY DEF Legs
    <3>4. IsFiniteSet(Legs)
      BY <3>2, <3>3
    <3>5. T \in SUBSET Legs
      OBVIOUS
    <3> HIDE DEF T
    <3>6. IsFiniteSet(T)
      BY <3>4, <3>5, FS_Subset
    <3> QED
      BY <3>6, FS_CardinalityType
  <2>2. f \in Nat /\ e \in Nat
    OBVIOUS
  <2>3. s \in Nat
    BY LookType, Constant DEF MaxOf
  <2>4. FillRisks(o, look) = [SignalRisks EXCEPT !["changed"] = c, !["fallback"] = f,
                                                 !["late"] = e, !["slip"] = s]
    BY DEF FillRisks
  <2> HIDE DEF c, f, e, s
  <2> QED
    BY <1>1, <2>1, <2>2, <2>3, <2>4
<1> QED
  BY <1>1, <1>2

\* A threshold is a number, and never below the static one.
LEMMA ThresholdType ==
    ASSUME TypeOK, NEW k \in Measures, NEW risk \in [Risks -> Nat]
    PROVE  Threshold(k, risk) \in Nat /\ Threshold(k, risk) >= Floor[k]
<1> DEFINE add(r) == Weights[k][r] * risk[r]
           p == PartialRisk(Weights[k]["partial"])
           sum == add("changed") + add("fallback") + add("late") + add("slip") + p
<1>1. Floor[k] \in Nat /\ \A r \in Risks \cup {"partial"} : Weights[k][r] \in Nat
  BY Given
<1>2. ASSUME NEW r \in Risks PROVE add(r) \in Nat
  BY <1>1
<1>3. p \in Nat
  <2> DEFINE w == Weights[k]["partial"]
             T == {n \in DOMAIN failures : failures[n] = "partial"}
             c == Cardinality(T)
             m == Len(failures)
  <2>1. w \in Nat
    BY <1>1
  <2>2. failures \in Seq({"partial", "other"})
    BY DEF TypeOK
  <2>3. m \in Nat /\ DOMAIN failures = 1 .. m /\ (failures # <<>> => m > 0)
    BY <2>2
  <2>4. c \in Nat
    <3>1. IsFiniteSet(1 .. m)
      BY <2>3, FS_Interval
    <3>2. T \in SUBSET (1 .. m)
      BY <2>3
    <3> HIDE DEF T
    <3>3. IsFiniteSet(T)
      BY <3>1, <3>2, FS_Subset
    <3> QED
      BY <3>3, FS_CardinalityType
  <2>5. PartialRisk(w) = IF failures = <<>> THEN 0 ELSE (w * c) \div m
    BY DEF PartialRisk
  <2> HIDE DEF w, c, m
  <2>6. ASSUME failures # <<>> PROVE (w * c) \div m \in Nat
    <3>1. w * c \in Nat /\ m \in Nat /\ m > 0
      BY <2>1, <2>3, <2>4, <2>6
    <3> DEFINE a == w * c
               n == a \div m
    <3> HIDE DEF a
    <3>2. n \in Int /\ \A s \in Int : s <= n <=> s * m <= a
      BY <3>1, WithinQuotient DEF a
    <3>3. 0 * m <= a
      BY <3>1 DEF a
    <3> HIDE DEF n
    <3>4. n \in Nat
      BY <3>2, <3>3
    <3> QED
      BY <3>4 DEF n, a
  <2>7. PartialRisk(w) \in Nat
    BY <2>5, <2>6
  <2> QED
    BY <2>7 DEF w
<1>4. sum \in Nat
  <2>1. /\ add("changed") \in Nat /\ add("fallback") \in Nat
        /\ add("late") \in Nat /\ add("slip") \in Nat
    BY <1>2 DEF Risks
  <2> HIDE DEF add, p
  <2> QED
    BY <1>3, <2>1
<1>5. Threshold(k, risk) = MaxOf(Floor[k], sum)
  BY DEF Threshold
<1> HIDE DEF sum
<1> QED
  BY <1>1, <1>4, <1>5 DEF MaxOf

\* What an execution went through.
LEMMA ExecutionIs ==
    ASSUME NEW o \in Offers, NEW look \in Looks, Outcome(o, look).fate = "executed"
    PROVE  /\ Admitted(o, look, Supported(o, look))
           /\ Attempted(o, look, PlanAt(o, look))
           /\ Outcome(o, look).qty = FilledAt(o, look)["yes"]
           /\ Outcome(o, look).gross = GrossAt(o, look)
           /\ FilledAt(o, look)["yes"] = FilledAt(o, look)["no"]
           /\ ~(FilledAt(o, look)["yes"] < MinSize)
           /\ ClearsAt(o, look, FilledAt(o, look)["yes"], GrossAt(o, look))
<1>1. Failure("other").fate # "executed" /\ Failure("partial").fate # "executed"
  BY DEF Failure
<1> DEFINE out == Outcome(o, look)
           rest == ~(~Admitted(o, look, Supported(o, look))
                      \/ ~Attempted(o, look, PlanAt(o, look)))
           even == ~(FilledAt(o, look)["yes"] # FilledAt(o, look)["no"]
                      \/ FilledAt(o, look)["yes"] < MinSize)
           good == ClearsAt(o, look, FilledAt(o, look)["yes"], GrossAt(o, look))
           done == [fate |-> "executed", qty |-> FilledAt(o, look)["yes"],
                    gross |-> GrossAt(o, look)]
<1>2. out = IF ~rest THEN Failure("other") ELSE IF ~even THEN Failure("partial")
            ELSE IF ~good THEN Failure("other") ELSE done
  BY OutcomeIs
<1>3. rest /\ even /\ good /\ out = done
  <2> HIDE DEF out, rest, even, good, done
  <2> QED
    BY <1>1, <1>2 DEF out
<1> QED
  BY <1>3

\* Every outcome has its type.
LEMMA OutcomeType ==
    ASSUME NEW o \in Offers, NEW look \in Looks
    PROVE  /\ Outcome(o, look).fate \in {"executed", "partial", "other"}
           /\ Outcome(o, look).qty \in Nat /\ Outcome(o, look).gross \in Nat
           /\ PlanAt(o, look) \in Places(BookAt(o, look)) /\ PlanAt(o, look).qty <= Target(o, look)
           /\ \A l \in Legs : FilledAt(o, look)[l] \in 0 .. PlanAt(o, look).qty
<1>1. BookAt(o, look) \in [Legs -> Books] /\ o.cash \in Nat /\ Target(o, look) \in Nat
  BY EvaluatedBooks
<1>2. PlanAt(o, look) \in Places(BookAt(o, look)) /\ PlanAt(o, look).qty <= Target(o, look)
  BY <1>1, PlanStops DEF PlanAt
<1>3. PlanAt(o, look).qty \in 0 .. Pairs(BookAt(o, look)) /\ Pairs(BookAt(o, look)) \in Nat
  BY <1>1, <1>2, PairsOfBooks DEF Places
<1>4. PlanAt(o, look).qty \in Nat
  BY <1>3
<1>5. \A l \in Legs : FilledAt(o, look)[l] \in 0 .. PlanAt(o, look).qty
  BY <1>4, FilledWithin DEF FilledAt
<1>6. ASSUME NEW l \in Legs PROVE FillCost(BookAt(o, look)[l], FilledAt(o, look)[l]) \in Nat
  <2>1. BookAt(o, look)[l] \in Books /\ Pairs(BookAt(o, look)) <= Len(BookAt(o, look)[l])
    BY <1>1, PairsOfBooks
  <2> DEFINE b == BookAt(o, look)[l]
             f == FilledAt(o, look)[l]
             m == PlanAt(o, look).qty
             n == Pairs(BookAt(o, look))
  <2>2. f \in 0 .. m /\ m \in 0 .. n /\ n \in Nat /\ n <= Len(b) /\ b \in Books
    BY <1>3, <1>5, <2>1
  <2> HIDE DEF b, f, m, n
  <2>3. f \in 0 .. Len(b)
    BY <2>2, BookRises
  <2> QED
    BY <2>2, <2>3, CostOfOneMore DEF b, f
<1>7. GrossAt(o, look) \in Nat
  BY <1>6 DEF GrossAt, Legs
<1>8. FilledAt(o, look)["yes"] \in Nat
  <2>1. FilledAt(o, look)["yes"] \in 0 .. PlanAt(o, look).qty
    BY <1>5 DEF Legs
  <2> QED
    BY <1>4, <2>1
<1>9. CASE Outcome(o, look).fate = "executed"
  BY <1>2, <1>5, <1>7, <1>8, <1>9, ExecutionIs
<1>10. CASE Outcome(o, look).fate # "executed"
  <2>1. Outcome(o, look) = Failure("other") \/ Outcome(o, look) = Failure("partial")
    <3> DEFINE done == [fate |-> "executed", qty |-> FilledAt(o, look)["yes"],
                        gross |-> GrossAt(o, look)]
    <3>1. done.fate = "executed"
      OBVIOUS
    <3>2. Outcome(o, look) \in {Failure("other"), Failure("partial"), done}
      BY OutcomeIs
    <3> HIDE DEF done
    <3> QED
      BY <1>10, <3>1, <3>2
  <2>2. \A x \in {Failure("other"), Failure("partial")} :
            x.fate \in {"partial", "other"} /\ x.qty = 0 /\ x.gross = 0
    BY DEF Failure
  <2>3. Outcome(o, look).fate \in {"partial", "other"} /\ Outcome(o, look).qty = 0
        /\ Outcome(o, look).gross = 0
    BY <2>1, <2>2
  <2> QED
    BY <1>2, <1>5, <2>3
<1> QED
  BY <1>9, <1>10

-----------------------------------------------------------------------------
(* What holds of an execution *)

\* The slippage that was found adds at most its excess to the capital.
LEMMA SlipAdds ==
    ASSUME NEW gross \in Nat, NEW slip \in Nat
    PROVE  Capital(gross, slip) <= Capital(gross, Slip) + gross * MaxOf(0, slip - Slip)
<1> DEFINE r == Base + Slip + Fee
           e == MaxOf(0, slip - Slip)
<1>1. r \in Nat /\ e \in Nat /\ Base + slip + Fee <= r + e /\ Base + slip + Fee \in Nat
  BY Constant DEF MaxOf
<1>2. Capital(gross, slip) = gross * (Base + slip + Fee) /\ Capital(gross, Slip) = gross * r
  BY DEF Capital
<1> DEFINE t == Base + slip + Fee
<1> HIDE DEF r, e, t
<1>3. t \in Nat /\ r \in Nat /\ e \in Nat /\ t <= r + e
  BY <1>1 DEF t
<1>4. t * gross <= (r + e) * gross
  BY <1>3, TimesGrows
<1>5. (r + e) * gross = gross * r + gross * e /\ t * gross = gross * t
  BY <1>3
<1> QED
  BY <1>2, <1>4, <1>5 DEF e, t

\* An execution earns the static profit and costs no more than its budget.
LEMMA ExecutionPays ==
    ASSUME TypeOK, NEW o \in Offers, NEW look \in Looks, Outcome(o, look).fate = "executed"
    PROVE  LET out     == Outcome(o, look)
               slip    == EffectiveSlip(look.at.slip)
               capital == Costs(out.gross, slip)
           IN  /\ out.qty * Payout * Base - capital >= MaxOf(1, Floor["profit"])
               /\ capital <= SpendLimit(o.cash) + out.gross * MaxOf(0, slip - Slip)
               /\ out.qty \in MinSize .. o.qty
<1> DEFINE out == Outcome(o, look)
           slip == EffectiveSlip(look.at.slip)
           capital == Costs(out.gross, slip)
           book == BookAt(o, look)
           plan == PlanAt(o, look)
           f == FilledAt(o, look)["yes"]
<1>1. /\ out.qty = f /\ out.gross = GrossAt(o, look) /\ f = FilledAt(o, look)["no"]
      /\ ~(f < MinSize) /\ Attempted(o, look, plan) /\ ClearsAt(o, look, f, GrossAt(o, look))
  BY ExecutionIs
<1>2. /\ out.qty \in Nat /\ out.gross \in Nat /\ f \in 0 .. plan.qty
      /\ plan \in Places(book) /\ plan.qty <= Target(o, look)
  BY OutcomeType DEF Legs
<1>3. book \in [Legs -> Books] /\ o.cash \in Nat /\ o.qty \in Nat
      /\ Target(o, look) \in Nat /\ Target(o, look) <= o.qty
  BY EvaluatedBooks
<1>4. slip \in Nat
  BY LookType
<1>5. plan.qty \in 0 .. Pairs(book) /\ plan.gross \in Nat /\ Pairs(book) \in Nat
  BY <1>2, <1>3, PairsOfBooks DEF Places
<1>6. plan.qty >= MinSize /\ MinSize \in Nat /\ MinSize > 0
  BY <1>1, Given DEF Attempted
<1>7. OnTheWay(book, LimitOf(o.cash), Target(o, look), plan)
  BY <1>3, PlanStops DEF PlanAt
<1>8. plan.gross = GrossOf(book, plan.qty) /\ Capital(plan.gross, Slip) <= LimitOf(o.cash)
  <2>1. plan.qty > 0
    BY <1>5, <1>6
  <2> QED
    BY <1>7, <2>1 DEF OnTheWay
<1>9. out.gross = GrossOf(book, f)
  BY <1>1 DEF GrossAt, GrossOf
<1> HIDE DEF out, slip, capital, book, plan, f
<1>10. f \in Nat /\ f <= plan.qty /\ plan.qty \in Nat /\ plan.qty <= Pairs(book)
  BY <1>2, <1>5
<1>11. out.gross <= plan.gross
  <2>1. f \in 0 .. Pairs(book)
    BY <1>5, <1>10
  <2> QED
    BY <1>3, <1>5, <1>8, <1>9, <1>10, <2>1, GrossGrows
<1>12. Capital(out.gross, Slip) <= Capital(plan.gross, Slip)
       /\ Capital(out.gross, Slip) \in Nat /\ Capital(plan.gross, Slip) \in Nat
       /\ Capital(out.gross, slip) \in Nat
  BY <1>2, <1>4, <1>5, <1>11, Constant, CapitalIsLinear
<1>13. capital = Capital(out.gross, slip) + Merge * Base
  BY DEF capital, Costs
<1>14. capital <= SpendLimit(o.cash) + out.gross * MaxOf(0, slip - Slip)
  <2> DEFINE a == Capital(out.gross, slip)
             b == Capital(out.gross, Slip)
             c == Capital(plan.gross, Slip)
             e == out.gross * MaxOf(0, slip - Slip)
             m == Merge * Base
             s == SpendLimit(o.cash)
  <2>1. a <= b + e
    BY <1>2, <1>4, SlipAdds
  <2>2. s \in Nat /\ m \in Nat /\ c + m <= s
    BY <1>3, <1>8, <1>12, LimitType
  <2>3. b <= c /\ a \in Nat /\ b \in Nat /\ c \in Nat
    BY <1>12
  <2>4. e \in Nat
    <3>1. MaxOf(0, slip - Slip) \in Nat
      BY <1>4, Constant DEF MaxOf
    <3> QED
      BY <1>2, <3>1
  <2>5. capital = a + m
    BY <1>13
  <2> HIDE DEF a, b, c, e, m, s
  <2>6. capital <= s + e
    BY <2>1, <2>2, <2>3, <2>4, <2>5
  <2> QED
    BY <2>6 DEF s, e
<1>15. out.qty * Payout * Base - capital >= MaxOf(1, Floor["profit"])
  <2> DEFINE net == f * Payout * Base - Costs(out.gross, slip)
             t == Threshold("profit", FillRisks(o, look))
  <2>1. net > 0 /\ net >= t
    BY <1>1 DEF ClearsAt, Clears, slip
  <2>2. t \in Nat /\ t >= Floor["profit"]
    BY RisksType, ThresholdType DEF Measures
  <2>3. net \in Int
    <3>1. f * Payout * Base \in Int
      BY <1>10, Constant
    <3>2. Merge * Base \in Nat
      BY <1>3, LimitType
    <3> QED
      BY <1>12, <1>13, <3>1, <3>2 DEF capital
  <2>4. Floor["profit"] \in Nat
    BY Given
  <2>5. net = out.qty * Payout * Base - capital
    BY <1>1 DEF capital
  <2> HIDE DEF net, t
  <2>6. net >= MaxOf(1, Floor["profit"])
    BY <2>1, <2>2, <2>3, <2>4 DEF MaxOf
  <2> QED
    BY <2>5, <2>6
<1>16. out.qty \in MinSize .. o.qty
  <2>1. f <= o.qty /\ f >= MinSize
    <3>1. plan.qty \in Nat /\ plan.qty <= Target(o, look)
      BY <1>2, <1>10
    <3> QED
      BY <1>1, <1>3, <1>6, <1>10, <3>1
  <2> QED
    BY <1>1, <1>3, <1>6, <1>10, <2>1
<1> QED
  BY <1>14, <1>15, <1>16 DEF out, slip, capital

\* The supported quantity is one that its definition describes.
LEMMA SupportedIs ==
    ASSUME NEW b \in Books, NEW plan \in Books, NEW target \in Nat, target <= Len(plan)
    PROVE  LET n == MinOf(target, Len(b))
               q == SupportedQuantity(b, plan, target)
           IN  /\ q \in 0 .. n /\ n \in Nat /\ n <= target /\ n <= Len(b)
               /\ \A k \in 1 .. q : b[k] <= plan[k]
               /\ q < n => b[q + 1] > plan[q + 1]
<1> DEFINE n == MinOf(target, Len(b))
           B == {k \in Nat : k < n /\ b[k + 1] > plan[k + 1]}
           P(q) == /\ \A k \in 1 .. q : b[k] <= plan[k]
                   /\ q < n => b[q + 1] > plan[q + 1]
<1>1. n \in Nat /\ n <= target /\ n <= Len(b) /\ Len(b) \in Nat /\ Len(plan) \in Nat
  BY BookRises DEF MinOf
<1> HIDE DEF n
<1>2. \A k \in 1 .. n : b[k] \in Nat /\ plan[k] \in Nat
  <2> SUFFICES ASSUME NEW k \in 1 .. n PROVE b[k] \in Nat /\ plan[k] \in Nat
    OBVIOUS
  <2>1. k \in 1 .. Len(b) /\ k \in 1 .. Len(plan)
    BY <1>1
  <2> QED
    BY <2>1, BookRises
<1>3. \E q \in 0 .. n : P(q)
  <2>1. CASE B = {}
    <3>1. ASSUME NEW k \in 1 .. n PROVE b[k] <= plan[k]
      <4>1. k - 1 \in Nat /\ k - 1 < n /\ (k - 1) + 1 = k
        BY <1>1
      <4>2. k - 1 \notin B
        BY <2>1
      <4> QED
        BY <1>2, <4>1, <4>2
    <3>2. n \in 0 .. n /\ ~(n < n)
      BY <1>1
    <3> QED
      BY <3>1, <3>2
  <2>2. CASE B # {}
    <3>1. PICK q \in B : \A k \in B : q <= k
      <4>1. B \in SUBSET Nat
        OBVIOUS
      <4> HIDE DEF B
      <4> QED
        BY <2>2, <4>1, LeastExists
    <3>2. q \in Nat /\ q < n /\ b[q + 1] > plan[q + 1]
      OBVIOUS
    <3>3. ASSUME NEW k \in 1 .. q PROVE b[k] <= plan[k]
      <4>1. k - 1 \in Nat /\ k - 1 < n /\ (k - 1) + 1 = k /\ k \in 1 .. n /\ ~(q <= k - 1)
        BY <1>1, <3>2
      <4>2. k - 1 \notin B
        BY <3>1, <4>1
      <4> QED
        BY <1>2, <4>1, <4>2
    <3>4. q \in 0 .. n
      BY <1>1, <3>2
    <3> QED
      BY <3>2, <3>3, <3>4
  <2> QED
    BY <2>1, <2>2
<1>4. SupportedQuantity(b, plan, target) = CHOOSE q \in 0 .. n : P(q)
  BY DEF SupportedQuantity, n
<1> HIDE DEF P
<1>5. SupportedQuantity(b, plan, target) \in 0 .. n /\ P(SupportedQuantity(b, plan, target))
  BY <1>3, <1>4
<1> QED
  BY <1>1, <1>5 DEF P, n

\* The shares of a concatenation are those of its parts.
LEMMA PricesOfBoth ==
    ASSUME NEW s \in Seq(Prices), NEW t \in Seq(Prices)
    PROVE  /\ \A k \in 1 .. Len(s) : s[k] \in PricesIn(s \o t)
           /\ \A k \in 1 .. Len(t) : t[k] \in PricesIn(s \o t)
           /\ \A j \in 1 .. Len(s \o t) : \/ \E k \in 1 .. Len(s) : (s \o t)[j] = s[k]
                                          \/ \E k \in 1 .. Len(t) : (s \o t)[j] = t[k]
<1> DEFINE u == s \o t
<1>1. Len(s) \in Nat /\ Len(t) \in Nat
  OBVIOUS
<1>2. /\ u \in Seq(Prices) /\ Len(u) = Len(s) + Len(t)
      /\ \A i \in 1 .. Len(s) + Len(t) :
             u[i] = IF i <= Len(s) THEN s[i] ELSE t[i - Len(s)]
  BY ConcatProperties
<1> HIDE DEF u
<1>3. DOMAIN u = 1 .. Len(s) + Len(t)
  BY <1>2
<1>4. ASSUME NEW k \in 1 .. Len(s) PROVE s[k] \in PricesIn(u)
  <2>1. k \in DOMAIN u /\ u[k] = s[k]
    BY <1>1, <1>2, <1>3
  <2> QED
    BY <2>1 DEF PricesIn
<1>5. ASSUME NEW k \in 1 .. Len(t) PROVE t[k] \in PricesIn(u)
  <2>1. Len(s) + k \in 1 .. Len(s) + Len(t) /\ ~(Len(s) + k <= Len(s)) /\ (Len(s) + k) - Len(s) = k
    BY <1>1
  <2>2. Len(s) + k \in DOMAIN u /\ u[Len(s) + k] = t[k]
    BY <1>2, <1>3, <2>1
  <2> QED
    BY <2>2 DEF PricesIn
<1>6. ASSUME NEW j \in 1 .. Len(u)
      PROVE  \/ \E k \in 1 .. Len(s) : u[j] = s[k]
             \/ \E k \in 1 .. Len(t) : u[j] = t[k]
  <2>1. j \in 1 .. Len(s) + Len(t)
    BY <1>2
  <2>2. CASE j <= Len(s)
    <3>1. u[j] = s[j] /\ j \in 1 .. Len(s)
      BY <1>1, <1>2, <2>1, <2>2
    <3> QED
      BY <3>1
  <2>3. CASE ~(j <= Len(s))
    <3>1. u[j] = t[j - Len(s)] /\ j - Len(s) \in 1 .. Len(t)
      BY <1>1, <1>2, <2>1, <2>3
    <3> QED
      BY <3>1
  <2> QED
    BY <2>2, <2>3
<1> QED
  BY <1>4, <1>5, <1>6 DEF u

\* Without an opt-in an execution had a look, and for each leg that look showed a share, or
\* a level that shrank, within the plan's prices.
LEMMA ExecutionIsPublic ==
    ASSUME NEW o \in Offers, o.qty <= Pairs(o.book), NEW look \in Looks,
           Outcome(o, look).fate = "executed", ~look.at.optIn
    PROVE  /\ ~look.at.fallback
           /\ \A l \in Legs : \E p \in PricesIn(look.book[l] \o look.tape[l].shrunk) :
                                  p <= o.book[l][o.qty]
<1>1. Supported(o, look)
  <2>1. Admitted(o, look, Supported(o, look))
    BY ExecutionIs
  <2> QED
    BY <2>1 DEF Admitted
<1>2. /\ ~look.at.fallback
      /\ \A l \in Legs : SupportedQuantity(PublicOf(o, look)[l], o.book[l], Target(o, look)) > 0
  BY <1>1 DEF Supported, PublicSupport
<1>3. SUFFICES ASSUME NEW l \in Legs
               PROVE  \E p \in PricesIn(look.book[l] \o look.tape[l].shrunk) :
                          p <= o.book[l][o.qty]
  BY <1>2
<1> DEFINE b == look.book[l]
           plan == o.book[l]
           s == look.tape[l].shrunk
           shrunk == Shrunk(o, look, l)
           t == IF PrintsCount(o, look, l) THEN Traded(o, look, l) ELSE <<>>
           public == WithSupport(b, shrunk \o t)
           target == Target(o, look)
           Shown == \E p \in PricesIn(b \o s) : p <= plan[o.qty]
<1>4. /\ b \in Books /\ b \in Seq(Prices) /\ s \in Seq(Prices) /\ plan \in Books
      /\ look.tape[l].traded \in Seq(Prices)
  BY LookType, EvaluatedBooks DEF Books
<1>5. o.qty \in Nat /\ o.qty > 0 /\ o.qty <= Len(plan) /\ target \in Nat /\ target <= o.qty
      /\ Len(plan) \in Nat
  <2>1. o.qty \in Nat /\ o.qty > 0 /\ target \in Nat /\ target <= o.qty
        /\ o.book \in [Legs -> Books]
    BY EvaluatedBooks
  <2>2. Pairs(o.book) \in Nat /\ Pairs(o.book) <= Len(plan) /\ Len(plan) \in Nat
    BY <1>4, <2>1, PairsOfBooks, BookRises
  <2> HIDE DEF plan, target
  <2> QED
    BY <2>1, <2>2
<1>6. /\ shrunk \in Seq(Prices) /\ t \in Seq(Prices)
      /\ \A n \in 1 .. Len(shrunk) : \E k \in DOMAIN s : /\ shrunk[n] = s[k]
                                                         /\ s[k] \in IntendedPrices(o, l)
  <2>1. Traded(o, look, l) \in Seq(Prices)
    BY <1>4, SharesAtIntended DEF Traded
  <2> QED
    BY <1>4, <2>1, SharesAtIntended DEF Shrunk
<1>7. PublicOf(o, look)[l] = public
  BY DEF PublicOf, PublicBook
<1>8. IntendedPrices(o, l) = {plan[k] : k \in 1 .. o.qty}
  BY DEF IntendedPrices
<1>9. SupportedQuantity(public, plan, target) > 0
  BY <1>2, <1>7
<1>10. PrintsCount(o, look, l) => SupportedQuantity(b, plan, target) > 0 \/ shrunk # <<>>
  BY DEF PrintsCount
<1>11. shrunk \o t \in Seq(Prices)
  BY <1>6, ConcatProperties
<1>12. /\ public \in Books
       /\ public # <<>> => \E j \in 1 .. Len(b \o (shrunk \o t)) :
                               public[1] = (b \o (shrunk \o t))[j]
  <2> HIDE DEF b, shrunk, t
  <2> QED
    BY <1>4, <1>11, SupportMakesBook DEF public
<1>13. t # <<>> => PrintsCount(o, look, l)
  OBVIOUS
<1> HIDE DEF b, plan, s, shrunk, t, public, target
<1>14. plan[1] <= plan[o.qty] /\ plan[1] \in Nat /\ plan[o.qty] \in Nat
  <2>1. 1 \in 1 .. Len(plan) /\ o.qty \in 1 .. Len(plan)
    BY <1>5
  <2> QED
    BY <1>4, <1>5, <2>1, BookRises
<1>15. ASSUME NEW c \in Books, SupportedQuantity(c, plan, target) > 0
       PROVE  1 \in 1 .. Len(c) /\ c[1] <= plan[1] /\ c[1] \in Nat
  <2> DEFINE q == SupportedQuantity(c, plan, target)
             n == MinOf(target, Len(c))
  <2>1. q \in 0 .. n /\ n \in Nat /\ n <= Len(c) /\ \A k \in 1 .. q : c[k] <= plan[k]
    <3>1. target <= Len(plan)
      BY <1>5
    <3> QED
      BY <1>4, <1>5, <3>1, SupportedIs
  <2>2. q > 0
    BY <1>15
  <2> HIDE DEF q, n
  <2>3. 1 \in 1 .. q /\ 1 \in 1 .. Len(c)
    BY <2>1, <2>2, BookRises
  <2> QED
    BY <2>1, <2>3, BookRises
<1>16. ASSUME NEW k \in 1 .. Len(b), b[k] <= plan[1] PROVE Shown
  <2>1. b[k] \in PricesIn(b \o s) /\ b[k] \in Nat
    BY <1>4, PricesOfBoth, BookRises
  <2>2. b[k] <= plan[o.qty]
    BY <1>14, <1>16, <2>1
  <2> QED
    BY <2>1, <2>2
<1>17. ASSUME NEW n \in 1 .. Len(shrunk) PROVE Shown
  <2>1. PICK k \in DOMAIN s : s[k] \in IntendedPrices(o, l)
    BY <1>6
  <2>2. s[k] \in PricesIn(b \o s)
    <3>1. k \in 1 .. Len(s)
      BY <1>4
    <3> QED
      BY <1>4, <3>1, PricesOfBoth
  <2>3. PICK i \in 1 .. o.qty : s[k] = plan[i]
    BY <1>8, <2>1
  <2>4. plan[i] <= plan[o.qty]
    <3>1. i \in 1 .. Len(plan) /\ o.qty \in 1 .. Len(plan) /\ i <= o.qty
      BY <1>5
    <3> QED
      BY <1>4, <3>1, BookRises
  <2> QED
    BY <2>2, <2>3, <2>4
<1>18. shrunk # <<>> => Shown
  <2>1. shrunk # <<>> => 1 \in 1 .. Len(shrunk)
    BY <1>6
  <2> HIDE DEF Shown
  <2> QED
    BY <1>17, <2>1
<1>19. SupportedQuantity(b, plan, target) > 0 => Shown
  <2> HIDE DEF Shown
  <2> QED
    BY <1>4, <1>15, <1>16
<1>20. 1 \in 1 .. Len(public) /\ public[1] <= plan[1] /\ public[1] \in Nat
  BY <1>9, <1>12, <1>15
<1>21. PICK j \in 1 .. Len(b \o (shrunk \o t)) : public[1] = (b \o (shrunk \o t))[j]
  <2>1. public # <<>>
    BY <1>12, <1>20 DEF Books
  <2> QED
    BY <1>12, <2>1
<1>22. CASE \E k \in 1 .. Len(b) : public[1] = b[k]
  <2> HIDE DEF Shown
  <2>1. Shown
    BY <1>16, <1>20, <1>22
  <2> QED
    BY <2>1 DEF Shown, b, plan, s
<1>23. CASE \E k \in 1 .. Len(shrunk \o t) : public[1] = (shrunk \o t)[k]
  <2> HIDE DEF Shown
  <2>1. CASE shrunk # <<>>
    BY <1>18, <2>1 DEF Shown, b, plan, s
  <2>2. CASE shrunk = <<>>
    <3>1. PICK k \in 1 .. Len(shrunk \o t) : TRUE
      BY <1>23
    <3>2. t # <<>>
      BY <1>6, <2>2, <3>1
    <3>3. Shown
      BY <1>10, <1>13, <1>19, <2>2, <3>2
    <3> QED
      BY <3>3 DEF Shown, b, plan, s
  <2> QED
    BY <2>1, <2>2
<1>24. \/ \E k \in 1 .. Len(b) : public[1] = b[k]
       \/ \E k \in 1 .. Len(shrunk \o t) : public[1] = (shrunk \o t)[k]
  <2> DEFINE r == shrunk \o t
  <2>1. r \in Seq(Prices) /\ j \in 1 .. Len(b \o r) /\ public[1] = (b \o r)[j]
    BY <1>11, <1>21
  <2> HIDE DEF r
  <2>2. \/ \E k \in 1 .. Len(b) : (b \o r)[j] = b[k]
        \/ \E k \in 1 .. Len(r) : (b \o r)[j] = r[k]
    BY <1>4, <2>1, PricesOfBoth
  <2>3. \/ \E k \in 1 .. Len(b) : public[1] = b[k]
        \/ \E k \in 1 .. Len(r) : public[1] = r[k]
    BY <2>1, <2>2, Zenon
  <2> QED
    BY <2>3 DEF r
<1> QED
  BY <1>22, <1>23, <1>24

-----------------------------------------------------------------------------
(* The plan of a signal, and the second look at its books *)

PlanOf(o) == [qty |-> o.qty, gross |-> o.gross]

\* The plan that Signal sizes on these books with this cash.
SizedOn(book, cash) == SimulatePairedTranches(book, cash, Len(book["yes"]))

\* What is known of an offer that waits for its fill: it is the plan for its books and its
\* cash, and it clears the thresholds of now.
Accepted(o) ==
    /\ o \in Offers
    /\ o.qty >= MinSize
    /\ PlanOf(o) = SizedOn(o.book, o.cash)
    /\ Clears(o.qty, o.gross, Slip, SignalRisks)

\* The parts of an accepted offer.
LEMMA AcceptedIs ==
    ASSUME NEW o, Accepted(o)
    PROVE  /\ o.book \in [Legs -> Books] /\ o.cash \in Nat /\ o.qty \in Nat /\ o.qty > 0
           /\ Pairs(o.book) \in Nat /\ o.qty <= Pairs(o.book) /\ o.gross \in Nat
           /\ o.gross = GrossOf(o.book, o.qty)
           /\ PlanOf(o).qty = o.qty /\ PlanOf(o).gross = o.gross
           /\ Capital(o.gross, Slip) <= LimitOf(o.cash)
           /\ LimitOf(o.cash) \in Int
           /\ PlanOf(o) \in Places(o.book)
           /\ OnTheWay(o.book, LimitOf(o.cash), Len(o.book["yes"]), PlanOf(o))
           /\ Stops(o.book, LimitOf(o.cash), Len(o.book["yes"]), PlanOf(o))
<1>1. o.book \in [Legs -> Books] /\ o.cash \in Nat /\ o.qty \in Nat /\ o.qty > 0
      /\ o.gross \in Nat
  BY DEF Accepted, Offers
<1>2. PlanOf(o).qty = o.qty /\ PlanOf(o).gross = o.gross
  BY DEF PlanOf
<1>3. Pairs(o.book) \in Nat /\ LimitOf(o.cash) \in Int
  BY <1>1, PairsOfBooks, LimitType
<1>4. /\ PlanOf(o) \in Places(o.book)
      /\ OnTheWay(o.book, LimitOf(o.cash), Len(o.book["yes"]), PlanOf(o))
      /\ Stops(o.book, LimitOf(o.cash), Len(o.book["yes"]), PlanOf(o))
  <2>1. Len(o.book["yes"]) \in Nat
    BY <1>1, BookRises DEF Legs
  <2>2. PlanOf(o) = SimulatePairedTranches(o.book, o.cash, Len(o.book["yes"]))
    BY DEF Accepted, SizedOn
  <2> QED
    BY <1>1, <2>1, <2>2, PlanStops
<1>5. o.qty <= Pairs(o.book)
  <2>1. PlanOf(o).qty \in 0 .. Pairs(o.book)
    BY <1>4 DEF Places
  <2> QED
    BY <1>2, <1>3, <2>1
<1>6. o.gross = GrossOf(o.book, o.qty) /\ Capital(o.gross, Slip) <= LimitOf(o.cash)
  BY <1>1, <1>2, <1>4 DEF OnTheWay
<1> QED
  BY <1>1, <1>2, <1>3, <1>4, <1>5, <1>6

\* With an empty tape the public books are those of the look.
LEMMA EmptyTape ==
    ASSUME NEW o \in Offers, NEW look \in Looks, Unseen(look)
    PROVE  ~RowsSeen(o, look) /\ PublicOf(o, look) = look.book
<1>1. ASSUME NEW l \in Legs
      PROVE  /\ look.tape[l].shrunk = <<>> /\ look.tape[l].traded = <<>>
             /\ look.tape[l].grown = {}
  BY DEF Unseen
<1>2. ASSUME NEW l \in Legs PROVE AtIntended(o, l, <<>>) = <<>>
  <2> DEFINE e == <<>>
             K == {k \in DOMAIN e : e[k] \in IntendedPrices(o, l)}
             a == Among(e, K)
  <2>1. e \in Seq(Prices) /\ DOMAIN e = {}
    OBVIOUS
  <2>2. K = {}
    BY <2>1
  <2>3. a \in Seq(Prices) /\ Len(a) = Cardinality({})
    <3>1. {} \in SUBSET DOMAIN e
      OBVIOUS
    <3> HIDE DEF e, K
    <3> QED
      BY <2>1, <2>2, <3>1, AmongKeeps DEF a
  <2>4. Len(a) = 0
    BY <2>3, FS_EmptySet
  <2>5. AtIntended(o, l, <<>>) = a
    BY DEF AtIntended
  <2> HIDE DEF a, e, K
  <2> QED
    BY <2>3, <2>4, <2>5
<1>4. ASSUME NEW l \in Legs PROVE Shrunk(o, look, l) = <<>> /\ Traded(o, look, l) = <<>>
  BY <1>1, <1>2 DEF Shrunk, Traded
<1>5. ~RowsSeen(o, look)
  BY <1>1, <1>4 DEF RowsSeen
<1>6. look.book \in [Legs -> Books]
  BY LookType
<1>7. ASSUME NEW l \in Legs PROVE PublicBook(o, look, l) = look.book[l]
  <2> DEFINE t == IF PrintsCount(o, look, l) THEN Traded(o, look, l) ELSE <<>>
  <2>1. t = <<>>
    BY <1>4
  <2>2. Shrunk(o, look, l) \o t = <<>>
    BY <1>4, <2>1
  <2>3. PublicBook(o, look, l) = WithSupport(look.book[l], <<>>)
    BY <2>2 DEF PublicBook
  <2> QED
    BY <1>6, <2>3, NoSupportNoChange
<1> QED
  BY <1>5, <1>6, <1>7 DEF PublicOf

\* A look that differs in nothing from the signal has no risk.
LEMMA NothingChanged ==
    ASSUME NEW o, NEW look, look.book = o.book, ~look.at.fallback, ~look.at.late,
           EffectiveSlip(look.at.slip) = Slip
    PROVE  FillRisks(o, look) = SignalRisks
<1>1. {l \in Legs : look.book[l] # o.book[l]} = {}
  OBVIOUS
<1>2. Cardinality({l \in Legs : look.book[l] # o.book[l]}) = 0
  BY <1>1, FS_EmptySet
<1>3. MaxOf(0, EffectiveSlip(look.at.slip) - Slip) = 0
  BY Constant DEF MaxOf
<1> DEFINE c == Cardinality({l \in Legs : look.book[l] # o.book[l]})
           s == MaxOf(0, EffectiveSlip(look.at.slip) - Slip)
<1>4. FillRisks(o, look) = [SignalRisks EXCEPT
          !["changed"] = c,
          !["fallback"] = IF look.at.fallback THEN 1 ELSE 0,
          !["late"] = IF look.at.late THEN 1 ELSE 0,
          !["slip"] = s]
  BY DEF FillRisks
<1>5. c = 0 /\ s = 0
  BY <1>2, <1>3
<1> HIDE DEF c, s
<1> QED
  BY <1>4, <1>5 DEF SignalRisks

\* A look that finds the signal's books, an empty tape and no trouble executes the plan.
LEMMA SameLookSameFill ==
    ASSUME TypeOK, NEW o, Accepted(o), NEW look \in Looks, look.book = o.book, Unseen(look),
           look.at.usable, ~look.at.fallback, ~look.at.pressed, ~look.at.late,
           EffectiveSlip(look.at.slip) = Slip, \A l \in Legs : look.at.draw[l] = Base
    PROVE  Outcome(o, look) = [fate |-> "executed", qty |-> o.qty, gross |-> o.gross]
<1>1. /\ o \in Offers /\ o.qty >= MinSize /\ PlanOf(o) \in Places(o.book)
      /\ OnTheWay(o.book, LimitOf(o.cash), Len(o.book["yes"]), PlanOf(o))
      /\ Clears(o.qty, o.gross, Slip, SignalRisks)
  BY AcceptedIs DEF Accepted
<1>2. /\ o.book \in [Legs -> Books] /\ o.cash \in Nat /\ o.qty \in Nat /\ o.qty > 0
      /\ Pairs(o.book) \in Nat /\ o.qty <= Pairs(o.book) /\ o.gross \in Nat
      /\ o.gross = GrossOf(o.book, o.qty)
      /\ PlanOf(o).qty = o.qty /\ PlanOf(o).gross = o.gross
      /\ LimitOf(o.cash) \in Int
  BY AcceptedIs
<1>3. ~RowsSeen(o, look) /\ PublicOf(o, look) = o.book
  BY <1>1, EmptyTape
<1>4. Target(o, look) = o.qty
  BY DEF Target
<1>5. Supported(o, look)
  <2> SUFFICES ASSUME NEW l \in Legs PROVE SupportedQuantity(o.book[l], o.book[l], o.qty) > 0
    BY <1>3, <1>4 DEF Supported, PublicSupport
  <2> DEFINE b == o.book[l]
             n == MinOf(o.qty, Len(b))
             q == SupportedQuantity(b, b, o.qty)
  <2>1. b \in Books /\ Pairs(o.book) <= Len(b) /\ Len(b) \in Nat
    BY <1>2, PairsOfBooks, BookRises
  <2> HIDE DEF b
  <2>2. o.qty <= Len(b)
    BY <1>2, <2>1
  <2>3. q \in 0 .. n /\ n \in Nat /\ n <= Len(b) /\ (q < n => b[q + 1] > b[q + 1])
    BY <1>2, <2>1, <2>2, SupportedIs
  <2>4. n = o.qty
    BY <1>2, <2>1, <2>2 DEF MinOf
  <2> HIDE DEF q, n
  <2>5. ~(q < n)
    <3> SUFFICES ASSUME q < n PROVE FALSE
      OBVIOUS
    <3>1. q + 1 \in 1 .. Len(b)
      BY <2>1, <2>3
    <3>2. b[q + 1] \in Nat
      BY <2>1, <3>1, BookRises
    <3> QED
      BY <2>3, <3>2
  <2>6. q > 0
    BY <1>2, <2>3, <2>4, <2>5
  <2> QED
    BY <2>6 DEF q, b
<1>6. BookAt(o, look) = o.book
  BY <1>3, <1>5 DEF BookAt
<1>7. SimulatePairedTranches(o.book, o.cash, o.qty) = PlanOf(o)
  <2> DEFINE v == SimulatePairedTranches(o.book, o.cash, o.qty)
  <2>1. /\ v \in Places(o.book)
        /\ OnTheWay(o.book, LimitOf(o.cash), o.qty, v)
        /\ Stops(o.book, LimitOf(o.cash), o.qty, v)
    BY <1>2, PlanStops
  <2>2. Len(o.book["yes"]) \in Int
    BY <1>2, BookRises DEF Legs
  <2> HIDE DEF v
  <2>3. v = PlanOf(o)
    <3> DEFINE w == PlanOf(o)
    <3>1. w \in Places(o.book) /\ OnTheWay(o.book, LimitOf(o.cash), Len(o.book["yes"]), w)
          /\ w.qty > 0 /\ w.qty = o.qty
      BY <1>1, <1>2
    <3> HIDE DEF w
    <3> QED
      BY <1>2, <2>1, <2>2, <3>1, PlanIsConfirmed DEF w
  <2> QED
    BY <2>3 DEF v
<1>8. PlanAt(o, look) = PlanOf(o)
  BY <1>4, <1>6, <1>7 DEF PlanAt
<1>9. ~Moved(o, o.qty, o.gross)
  <2> DEFINE a == o.gross * o.qty
             m == MaxMove * o.gross * o.qty
  <2>1. a \in Nat /\ m \in Nat
    <3>1. MaxMove \in Nat
      BY Given
    <3> QED
      BY <1>2, <3>1
  <2>2. Base \in Nat
    BY Constant
  <2>3. Moved(o, o.qty, o.gross) => (a - a) * Base > m
    BY DEF Moved
  <2> HIDE DEF a, m
  <2>4. (a - a) * Base = 0
    BY <2>1, <2>2
  <2> QED
    BY <2>1, <2>3, <2>4
<1>10. Admitted(o, look, Supported(o, look))
  BY <1>2, <1>3, <1>5, <1>7, <1>9 DEF Admitted
<1>11. FillRisks(o, look) = SignalRisks
  BY NothingChanged
<1>12. ClearsAt(o, look, o.qty, o.gross)
  BY <1>1, <1>11 DEF ClearsAt
<1>13. Attempted(o, look, PlanAt(o, look))
  BY <1>1, <1>2, <1>8, <1>9, <1>12 DEF Attempted, ClearsAt
<1>14. ASSUME NEW l \in Legs PROVE FilledAt(o, look)[l] = o.qty
  <2>1. FilledAt(o, look)[l] = (o.qty * look.at.draw[l]) \div Base
    BY <1>2, <1>3, <1>8 DEF FilledAt, Filled
  <2>2. look.at.draw[l] = Base /\ Base \in Nat /\ Base > 0
    BY Constant
  <2>3. (o.qty * Base) \div Base = o.qty
    <3> DEFINE q == o.qty
               n == (q * Base) \div Base
    <3>1. q \in Nat /\ q * Base \in Int
      BY <1>2, <2>2
    <3> HIDE DEF q
    <3>2. /\ n \in Int /\ (q <= n <=> q * Base <= q * Base)
          /\ (q + 1 <= n <=> (q + 1) * Base <= q * Base)
      BY <2>2, <3>1, WithinQuotient
    <3>3. (q + 1) * Base = q * Base + Base
      BY <2>2, <3>1
    <3> HIDE DEF n
    <3>4. n = q
      BY <2>2, <3>1, <3>2, <3>3
    <3> QED
      BY <3>4 DEF n, q
  <2> QED
    BY <2>1, <2>2, <2>3
<1>15. GrossAt(o, look) = o.gross
  BY <1>2, <1>6, <1>14 DEF GrossAt, GrossOf, Legs
<1>16. FilledAt(o, look)["yes"] = o.qty /\ FilledAt(o, look)["no"] = o.qty
  BY <1>14 DEF Legs
<1>17. ~(o.qty < MinSize)
  BY <1>1, <1>2, Given
<1> DEFINE rest == ~(~Admitted(o, look, Supported(o, look))
                      \/ ~Attempted(o, look, PlanAt(o, look)))
           even == ~(FilledAt(o, look)["yes"] # FilledAt(o, look)["no"]
                      \/ FilledAt(o, look)["yes"] < MinSize)
           good == ClearsAt(o, look, FilledAt(o, look)["yes"], GrossAt(o, look))
           done == [fate |-> "executed", qty |-> FilledAt(o, look)["yes"],
                    gross |-> GrossAt(o, look)]
<1>18. Outcome(o, look) = IF ~rest THEN Failure("other") ELSE IF ~even THEN Failure("partial")
                          ELSE IF ~good THEN Failure("other") ELSE done
  BY OutcomeIs
<1>19. rest /\ even /\ good
  BY <1>10, <1>12, <1>13, <1>15, <1>16, <1>17
<1>20. Outcome(o, look) = done
  <2> HIDE DEF rest, even, good, done
  <2> QED
    BY <1>18, <1>19
<1> QED
  BY <1>15, <1>16, <1>20

-----------------------------------------------------------------------------
(* The steps *)

\* What Signal leaves behind.
LEMMA SignalIs ==
    ASSUME Signal
    PROVE  \E book \in [Legs -> Books], cash \in Nat :
               LET plan == SizedOn(book, cash)
                   o    == [book |-> book, cash |-> cash, qty |-> plan.qty, gross |-> plan.gross]
               IN  offer' = o /\ Accepted(o) /\ failures' = failures /\ last' = NoOutcome
<1>1. PICK book \in Signals, cash \in Cashes :
               /\ SizedOn(book, cash).qty >= MinSize
               /\ Clears(SizedOn(book, cash).qty, SizedOn(book, cash).gross, Slip, SignalRisks)
               /\ offer' = [book |-> book, cash |-> cash, qty |-> SizedOn(book, cash).qty,
                            gross |-> SizedOn(book, cash).gross]
  BY DEF Signal, SizedOn
<1>2. last' = NoOutcome /\ failures' = failures
  BY DEF Signal
<1>3. book \in [Legs -> Books] /\ cash \in Nat /\ Len(book["yes"]) \in Nat
  <2>1. book \in [Legs -> Books] /\ cash \in Nat
    BY Given
  <2>2. book["yes"] \in Books
    BY <2>1 DEF Legs
  <2> QED
    BY <2>1, <2>2, BookRises
<1> DEFINE plan == SizedOn(book, cash)
           o == [book |-> book, cash |-> cash, qty |-> plan.qty, gross |-> plan.gross]
<1>4. plan \in Places(book) /\ plan = SizedOn(book, cash)
  BY <1>3, PlanStops DEF SizedOn
<1>5. Pairs(book) \in Nat
  BY <1>3, PairsOfBooks
<1>6. MinSize \in Nat /\ MinSize > 0
  BY Given
<1>7. /\ plan.qty >= MinSize /\ Clears(plan.qty, plan.gross, Slip, SignalRisks)
      /\ offer' = o
  BY <1>1
<1> HIDE DEF plan
<1>8. plan.qty \in Nat \ {0} /\ plan.gross \in Nat
      /\ [qty |-> plan.qty, gross |-> plan.gross] = plan
  <2>1. plan.qty \in Int /\ plan.qty > 0 /\ plan.gross \in Nat
    BY <1>4, <1>5, <1>6, <1>7 DEF Places
  <2>2. [qty |-> plan.qty, gross |-> plan.gross] = plan
    BY <1>4 DEF Places
  <2> QED
    BY <2>1, <2>2
<1>9. o.book = book /\ o.cash = cash /\ o.qty = plan.qty /\ o.gross = plan.gross
      /\ PlanOf(o) = plan /\ o \in Offers
  BY <1>3, <1>8 DEF PlanOf, Offers
<1> HIDE DEF o
<1>10. Accepted(o)
  BY <1>4, <1>7, <1>9 DEF Accepted
<1> QED
  BY <1>2, <1>3, <1>7, <1>10 DEF o, plan

\* What Evaluate leaves behind.
LEMMA EvaluateIs ==
    ASSUME Evaluate
    PROVE  \E look \in Looks :
               /\ last' = [offer |-> offer, look |-> look, outcome |-> Outcome(offer, look)]
               /\ IF Outcome(offer, look).fate = "executed" THEN failures' = failures
                  ELSE Remember(Outcome(offer, look).fate)
               /\ offer # NoOffer /\ offer' = NoOffer
  BY DEF Evaluate

\* The list of failures keeps its type.
LEMMA RememberKeeps ==
    ASSUME NEW fate \in {"partial", "other"}, Remember(fate),
           failures \in Seq({"partial", "other"}), Len(failures) <= Window
    PROVE  failures' \in Seq({"partial", "other"}) /\ Len(failures') <= Window
<1> DEFINE all == Append(failures, fate)
<1>1. all \in Seq({"partial", "other"}) /\ Len(all) = Len(failures) + 1
  OBVIOUS
<1>2. failures' = IF Len(all) > Window THEN Tail(all) ELSE all
  BY DEF Remember
<1>3. Window \in Nat /\ Len(failures) \in Nat
  BY Given
<1> HIDE DEF all
<1>4. CASE Len(all) > Window
  <2>1. failures' = Tail(all) /\ all # <<>>
    BY <1>1, <1>2, <1>3, <1>4
  <2>2. Tail(all) \in Seq({"partial", "other"}) /\ Len(Tail(all)) = Len(all) - 1
    BY <1>1, <2>1
  <2> QED
    BY <1>1, <1>3, <2>1, <2>2
<1>5. CASE ~(Len(all) > Window)
  BY <1>1, <1>2, <1>3, <1>5
<1> QED
  BY <1>4, <1>5

\* An offer that waits was accepted, and would be again.
WaitingIsAccepted == offer # NoOffer => Accepted(offer)

FillInv == TypeOK /\ WaitingIsAccepted

\* The initial state satisfies the invariant.
LEMMA FillInvInit ==
    ASSUME Init
    PROVE  FillInv
  BY Given DEF Init, FillInv, TypeOK, WaitingIsAccepted

\* Every step keeps it: Signal accepts, and between it and Evaluate no failure is remembered
\* that would raise the thresholds.
LEMMA FillInvStep ==
    ASSUME FillInv, [Next]_vars
    PROVE  FillInv'
<1>1. TypeOK /\ (offer # NoOffer => Accepted(offer))
  BY DEF FillInv, WaitingIsAccepted
<1>2. failures \in Seq({"partial", "other"}) /\ Len(failures) <= Window
  BY <1>1 DEF TypeOK
<1>3. CASE Signal
  <2>1. PICK book \in [Legs -> Books], cash \in Nat :
                 LET plan == SizedOn(book, cash)
                     o    == [book |-> book, cash |-> cash, qty |-> plan.qty, gross |-> plan.gross]
                 IN  offer' = o /\ Accepted(o) /\ failures' = failures /\ last' = NoOutcome
    BY <1>3, SignalIs
  <2> DEFINE plan == SizedOn(book, cash)
             o == [book |-> book, cash |-> cash, qty |-> plan.qty, gross |-> plan.gross]
  <2>2. offer' = o /\ Accepted(o) /\ failures' = failures /\ last' = NoOutcome
    BY <2>1
  <2> HIDE DEF o
  <2>3. o \in Offers
    BY <2>2 DEF Accepted
  <2>4. TypeOK'
    BY <1>2, <2>2, <2>3 DEF TypeOK
  <2>5. Clears(o.qty, o.gross, Slip, SignalRisks)'
    <3>1. Clears(o.qty, o.gross, Slip, SignalRisks)
      BY <2>2 DEF Accepted
    <3> QED
      BY <2>2, <3>1 DEF Clears, Threshold, PartialRisk
  <2>6. Accepted(o)'
    BY <2>2, <2>5 DEF Accepted
  <2>7. WaitingIsAccepted'
    BY <2>2, <2>6 DEF WaitingIsAccepted
  <2> QED
    BY <2>4, <2>7 DEF FillInv
<1>4. CASE Evaluate
  <2>1. PICK look \in Looks :
            /\ last' = [offer |-> offer, look |-> look, outcome |-> Outcome(offer, look)]
            /\ IF Outcome(offer, look).fate = "executed" THEN failures' = failures
               ELSE Remember(Outcome(offer, look).fate)
            /\ offer # NoOffer /\ offer' = NoOffer
    BY <1>4, EvaluateIs
  <2>2. offer \in Offers
    BY <1>1, <2>1 DEF Accepted
  <2> DEFINE out == Outcome(offer, look)
  <2>3. out.fate \in {"executed", "partial", "other"} /\ out.qty \in Nat /\ out.gross \in Nat
    BY <2>2, OutcomeType
  <2>4. last' = [offer |-> offer, look |-> look, outcome |-> out]
        /\ IF out.fate = "executed" THEN failures' = failures ELSE Remember(out.fate)
    BY <2>1
  <2> HIDE DEF out
  <2>5. failures' \in Seq({"partial", "other"}) /\ Len(failures') <= Window
    <3>1. CASE out.fate = "executed"
      BY <1>2, <2>4, <3>1
    <3>2. CASE out.fate # "executed"
      <4>1. out.fate \in {"partial", "other"} /\ Remember(out.fate)
        BY <2>3, <2>4, <3>2
      <4> DEFINE fate == out.fate
      <4>2. fate \in {"partial", "other"} /\ Remember(fate)
        BY <4>1
      <4> HIDE DEF fate
      <4> QED
        BY <1>2, <4>2, RememberKeeps
    <3> QED
      BY <3>1, <3>2
  <2>6. TypeOK'
    BY <2>1, <2>2, <2>3, <2>4, <2>5 DEF TypeOK
  <2>7. WaitingIsAccepted'
    BY <2>1 DEF WaitingIsAccepted
  <2> QED
    BY <2>6, <2>7 DEF FillInv
<1>5. CASE UNCHANGED vars
  <2>1. offer' = offer /\ failures' = failures /\ last' = last
    BY <1>5 DEF vars
  <2>2. TypeOK'
    BY <1>1, <2>1 DEF TypeOK
  <2>3. Accepted(offer) => Accepted(offer)'
    <3>1. Clears(offer.qty, offer.gross, Slip, SignalRisks)
              => Clears(offer.qty, offer.gross, Slip, SignalRisks)'
      BY <2>1 DEF Clears, Threshold, PartialRisk
    <3> QED
      BY <2>1, <3>1 DEF Accepted
  <2> QED
    BY <1>1, <2>1, <2>2, <2>3 DEF FillInv, WaitingIsAccepted
<1> QED
  BY <1>3, <1>4, <1>5 DEF Next

\* An accepted plan is the best one.
LEMMA AcceptedIsBest ==
    ASSUME FillInv
    PROVE  BestPlan
<1> SUFFICES ASSUME offer # NoOffer
             PROVE  /\ offer.gross = GrossOf(offer.book, offer.qty)
                    /\ Affordable(offer, offer.qty)
                    /\ \A q \in 1 .. Pairs(offer.book) :
                           Affordable(offer, q)
                             => ProfitOf(offer.book, q) <= ProfitOf(offer.book, offer.qty)
  BY DEF BestPlan, Pairs
<1> DEFINE o == offer
           w == PlanOf(o)
           limit == LimitOf(o.cash)
           target == Len(o.book["yes"])
<1>1. Accepted(o)
  BY DEF FillInv, WaitingIsAccepted
<1>2. /\ o.book \in [Legs -> Books] /\ o.cash \in Nat /\ o.qty \in Nat /\ o.qty > 0
      /\ Pairs(o.book) \in Nat /\ o.qty <= Pairs(o.book) /\ o.gross \in Nat
      /\ o.gross = GrossOf(o.book, o.qty)
      /\ w.qty = o.qty /\ w.gross = o.gross
      /\ Capital(o.gross, Slip) <= limit /\ limit \in Int
  <2> HIDE DEF o
  <2> QED
    BY <1>1, AcceptedIs
<1>3. w \in Places(o.book) /\ OnTheWay(o.book, limit, target, w)
      /\ Stops(o.book, limit, target, w)
  <2> HIDE DEF o
  <2> QED
    BY <1>1, AcceptedIs
<1> HIDE DEF o, w, limit
<1>4. target \in Nat /\ Pairs(o.book) <= target
  <2>1. o.book["yes"] \in Books /\ Pairs(o.book) <= Len(o.book["yes"])
    BY <1>2, PairsOfBooks DEF Legs
  <2> QED
    BY <2>1, BookRises
<1> HIDE DEF target
<1>5. \A q \in 0 .. Pairs(o.book) :
          Affordable(o, q) <=> Capital(GrossOf(o.book, q), Slip) <= limit
  <2> SUFFICES ASSUME NEW q \in 0 .. Pairs(o.book)
               PROVE  Affordable(o, q) <=> Capital(GrossOf(o.book, q), Slip) <= limit
    OBVIOUS
  <2> DEFINE c == Capital(GrossOf(o.book, q), Slip)
  <2>1. GrossOf(o.book, q) \in Nat
    BY <1>2, PairsOfBooks
  <2>2. c \in Int
    BY <2>1, Constant, CapitalIsLinear
  <2>3. Affordable(o, q) <=> c + Merge * Base <= SpendLimit(o.cash)
    BY DEF Affordable, Costs
  <2> HIDE DEF c
  <2>4. c <= limit <=> c + Merge * Base <= SpendLimit(o.cash)
    BY <1>2, <2>2, LimitType DEF limit
  <2> QED
    BY <2>3, <2>4 DEF c
<1>6. Affordable(o, o.qty)
  <2>1. o.qty \in 0 .. Pairs(o.book)
    BY <1>2
  <2> QED
    BY <1>2, <1>5, <2>1
<1>7. ASSUME NEW q \in 1 .. Pairs(o.book), Affordable(o, q)
      PROVE  ProfitOf(o.book, q) <= ProfitOf(o.book, o.qty)
  <2>1. q \in 0 .. Pairs(o.book)
    BY <1>2
  <2>2. Capital(GrossOf(o.book, q), Slip) <= limit
    BY <1>5, <1>7, <2>1
  <2>3. w.qty >= target => w.qty = Pairs(o.book)
    BY <1>2, <1>4
  <2>4. ProfitOf(o.book, q) <= ProfitOf(o.book, w.qty)
    BY <1>2, <1>3, <1>4, <2>1, <2>2, <2>3, PlanIsBest
  <2> QED
    BY <1>2, <2>4
<1> QED
  BY <1>2, <1>6, <1>7 DEF o

\* What Evaluate leaves behind, or nothing to say of it.
LEMMA LastIs ==
    ASSUME FillInv, Next
    PROVE  \/ last' = NoOutcome
           \/ \E o \in Offers, look \in Looks :
                  /\ last' = [offer |-> o, look |-> look, outcome |-> Outcome(o, look)]
                  /\ Accepted(o)
<1>1. CASE Signal
  BY <1>1 DEF Signal
<1>2. CASE Evaluate
  <2>1. PICK look \in Looks :
            /\ last' = [offer |-> offer, look |-> look, outcome |-> Outcome(offer, look)]
            /\ offer # NoOffer
    BY <1>2, EvaluateIs
  <2>2. Accepted(offer) /\ offer \in Offers
    BY <2>1 DEF FillInv, WaitingIsAccepted, Accepted
  <2> QED
    BY <2>1, <2>2
<1> QED
  BY <1>1, <1>2 DEF Next

\* What is claimed of the last evaluation.
LastIsSound == SameBooksSameFill /\ RestsOnPublicDepth /\ FillsPayAndFit

\* Every step keeps it.
LEMMA LastIsSoundStep ==
    ASSUME FillInv, LastIsSound, [Next]_vars
    PROVE  LastIsSound'
<1>1. CASE UNCHANGED vars
  BY <1>1 DEF vars, LastIsSound, SameBooksSameFill, RestsOnPublicDepth, FillsPayAndFit, Executed
<1>2. CASE last' = NoOutcome
  BY <1>2 DEF LastIsSound, SameBooksSameFill, RestsOnPublicDepth, FillsPayAndFit, Executed
<1>3. ASSUME NEW o \in Offers, NEW look \in Looks,
             last' = [offer |-> o, look |-> look, outcome |-> Outcome(o, look)], Accepted(o)
      PROVE  LastIsSound'
  <2> DEFINE out == Outcome(o, look)
  <2>1. TypeOK
    BY DEF FillInv
  <2>2. last'.offer = o /\ last'.look = look /\ last'.outcome = out
    BY <1>3
  <2>3. o.qty <= Pairs(o.book)
    BY <1>3, AcceptedIs
  <2>4. /\ look.book = o.book /\ Unseen(look)
        /\ look.at.usable /\ ~look.at.fallback /\ ~look.at.pressed /\ ~look.at.late
        /\ EffectiveSlip(look.at.slip) = Slip
        /\ \A l \in Legs : look.at.draw[l] = Base
        => out.fate = "executed" /\ out.qty = o.qty /\ out.gross = o.gross
    BY <1>3, <2>1, SameLookSameFill
  <2>5. out.fate = "executed" /\ ~look.at.optIn =>
            /\ ~look.at.fallback
            /\ \A l \in Legs : \E p \in PricesIn(look.book[l] \o look.tape[l].shrunk) :
                                   p <= o.book[l][o.qty]
    BY <2>3, ExecutionIsPublic
  <2>6. out.fate = "executed" =>
            LET slip    == EffectiveSlip(look.at.slip)
                capital == Costs(out.gross, slip)
            IN  /\ out.qty * Payout * Base - capital >= MaxOf(1, Floor["profit"])
                /\ capital <= SpendLimit(o.cash) + out.gross * MaxOf(0, slip - Slip)
                /\ out.qty \in MinSize .. o.qty
    BY <2>1, ExecutionPays
  <2> HIDE DEF out
  <2>7. SameBooksSameFill'
    BY <2>2, <2>4, Zenon DEF SameBooksSameFill, Executed
  <2>8. RestsOnPublicDepth'
    BY <2>2, <2>5, Zenon DEF RestsOnPublicDepth, Executed
  <2>9. FillsPayAndFit'
    BY <2>2, <2>6, Zenon DEF FillsPayAndFit, Executed
  <2> QED
    BY <2>7, <2>8, <2>9 DEF LastIsSound
<1> QED
  BY <1>1, <1>2, <1>3, LastIs

-----------------------------------------------------------------------------
(* The theorems *)

\* The invariant, and what it says of the last evaluation, hold in every reachable state.
LEMMA FillInvariant == Spec => [](FillInv /\ LastIsSound)
<1>1. Init => FillInv /\ LastIsSound
  <2>1. Init => LastIsSound
    BY DEF Init, LastIsSound, SameBooksSameFill, RestsOnPublicDepth, FillsPayAndFit, Executed
  <2> QED
    BY <2>1, FillInvInit
<1>2. FillInv /\ LastIsSound /\ [Next]_vars => (FillInv /\ LastIsSound)'
  BY FillInvStep, LastIsSoundStep
<1> QED
  BY <1>1, <1>2, PTL DEF Spec

\* The waiting plan and the list of failures keep their types, whatever the looks are.
THEOREM FillTypeCorrect == Spec => []TypeOK
BY FillInvariant, PTL DEF FillInv

\* The plan of a signal costs what its shares cost, is within the budget and earns the most
\* of all quantities that are, for any two books (_simulate_paired_tranches).
THEOREM PlanEarnsMost == Spec => []BestPlan
BY FillInvariant, AcceptedIsBest, PTL

\* The two evaluators agree: a second look that finds the same books, no tape and no trouble
\* executes the plan of the signal (evaluate_binary_paper_execution, _execute_paper_step).
THEOREM SecondLookAgrees == Spec => []SameBooksSameFill
BY FillInvariant, PTL DEF LastIsSound

\* Without the opt-in an execution rests on depth that was public within the plan's prices,
\* whatever trades the tape shows (public_support_available, trade_print_support_applied).
THEOREM ExecutionsArePublic == Spec => []RestsOnPublicDepth
BY FillInvariant, PTL DEF LastIsSound

\* An execution earns the static profit after all costs and fits the budget, whatever was
\* cut, added or assumed on the way (_execute_paper_step).
THEOREM ExecutionsPay == Spec => []FillsPayAndFit
BY FillInvariant, PTL DEF LastIsSound

-----------------------------------------------------------------------------
(* The strategy's candidates *)

\* A behaviour of the strategy is one of the evaluation, or leaves it alone.
THEOREM StrategyIsFill == StrategySpec => Spec
<1>1. StrategyInit => Init
  BY DEF StrategyInit, EventInit, Init
<1>2. [StrategyNext]_allVars => [Next]_vars
  BY DEF StrategyNext, Decide, Decided, allVars, vars
<1> QED
  BY <1>1, <1>2, PTL DEF StrategySpec, Spec

\* The places ahead of w where a tranche ends, given those ahead of the places behind.
AheadOf(book, limit, g, w) ==
    IF w.qty = Pairs(book) THEN {}
    ELSE LET step == MinOf(Depth(book, w), Buys(book, limit, w))
         IN  IF step <= 0 THEN {}
             ELSE {Taken(book, w, step)}
                    \cup IF step < Depth(book, w) THEN {} ELSE g[Taken(book, w, step)]

\* A target that both books cannot reach limits no tranche.
LEMMA TargetBeyond ==
    ASSUME NEW book \in [Legs -> Books], NEW w \in Places(book), w.qty < Pairs(book),
           NEW limit \in Int, NEW target \in Int, Pairs(book) <= target
    PROVE  Step(book, limit, target, w) = MinOf(Depth(book, w), Buys(book, limit, w))
<1> DEFINE d == Depth(book, w)
           b == Buys(book, limit, w)
           q == w.qty
<1>1. d \in 1 .. Pairs(book) - q
  BY TrancheAhead
<1>2. q \in 0 .. Pairs(book) /\ Pairs(book) \in Nat /\ w.gross \in Nat
  BY PairsOfBooks DEF Places
<1>3. b \in Int
  <2> DEFINE p == PairPrice(book, w.qty + 1)
             u == Capital(p, Slip)
             c == Capital(w.gross, Slip)
  <2>1. p \in Nat /\ p > 0
    BY TrancheAhead, PairsOfBooks
  <2>2. u \in Nat \ {0}
    <3> HIDE DEF p
    <3>1. u \in Nat /\ u > 0
      BY <2>1, Constant, CapitalIsLinear
    <3> QED
      BY <3>1
  <2>3. c \in Nat
    BY <1>2, Constant, CapitalIsLinear
  <2>4. b = (limit - c) \div u
    BY DEF Buys
  <2> HIDE DEF u, c, b
  <2>5. (limit - c) \div u \in Int
    BY <2>2, <2>3, WithinQuotient
  <2> QED
    BY <2>4, <2>5
<1>4. Step(book, limit, target, w) = MinOf(d, MinOf(target - q, b))
  BY DEF Step
<1> HIDE DEF d, b, q
<1>5. d <= target - q /\ d \in Int /\ target - q \in Int
  BY <1>1, <1>2
<1>6. MinOf(d, MinOf(target - q, b)) = MinOf(d, b)
  BY <1>3, <1>5 DEF MinOf
<1> QED
  BY <1>4, <1>6 DEF d, b

\* Where the next tranche ends, if it takes anything.
LEMMA FreeStep ==
    ASSUME NEW book \in [Legs -> Books], NEW w \in Places(book), w.qty # Pairs(book),
           NEW limit \in Int
    PROVE  LET step == MinOf(Depth(book, w), Buys(book, limit, w))
           IN  /\ w.qty < Pairs(book) /\ step = Step(book, limit, Pairs(book), w)
               /\ step \in Int /\ step <= Depth(book, w) /\ Depth(book, w) \in Nat
               /\ step * Capital(PairPrice(book, w.qty + 1), Slip) <= limit - Capital(w.gross, Slip)
               /\ step > 0 => /\ step \in 1 .. Depth(book, w)
                              /\ Taken(book, w, step) \in Places(book)
                              /\ Taken(book, w, step).qty = w.qty + step
                              /\ Taken(book, w, step).qty > w.qty
<1> DEFINE step == MinOf(Depth(book, w), Buys(book, limit, w))
<1>1. w.qty < Pairs(book) /\ w.qty \in Nat /\ Pairs(book) \in Int
  BY PairsOfBooks DEF Places
<1>2. step = Step(book, limit, Pairs(book), w)
  BY <1>1, TargetBeyond
<1>3. /\ step \in Int /\ step <= Depth(book, w)
      /\ step * Capital(PairPrice(book, w.qty + 1), Slip) <= limit - Capital(w.gross, Slip)
  BY <1>1, <1>2, StepWithin
<1>4. Depth(book, w) \in Nat
  <2>1. Depth(book, w) \in 1 .. Pairs(book) - w.qty
    BY <1>1, TrancheAhead
  <2> QED
    BY <1>1, <2>1
<1> HIDE DEF step
<1>5. ASSUME step > 0
      PROVE  /\ step \in 1 .. Depth(book, w)
             /\ Taken(book, w, step) \in Places(book)
             /\ Taken(book, w, step).qty = w.qty + step
             /\ Taken(book, w, step).qty > w.qty
  <2>1. step \in 1 .. Depth(book, w)
    BY <1>3, <1>4, <1>5
  <2>2. Taken(book, w, step) \in Places(book) /\ Taken(book, w, step).qty = w.qty + step
    BY <1>1, <2>1, TrancheLeadsOn
  <2> QED
    BY <1>1, <1>3, <1>5, <2>1, <2>2
<1> QED
  BY <1>1, <1>2, <1>3, <1>4, <1>5 DEF step

\* Only the places behind count.
LEMMA AheadLooksAhead ==
    ASSUME NEW book \in [Legs -> Books], NEW w \in Places(book), NEW limit \in Int,
           NEW g, NEW h, \A v \in Places(book) : v.qty > w.qty => g[v] = h[v]
    PROVE  AheadOf(book, limit, g, w) = AheadOf(book, limit, h, w)
<1> DEFINE step == MinOf(Depth(book, w), Buys(book, limit, w))
<1>1. CASE w.qty = Pairs(book) \/ step <= 0 \/ step < Depth(book, w)
  <2>1. \A f : AheadOf(book, limit, f, w) =
                 IF w.qty = Pairs(book) THEN {} ELSE IF step <= 0 THEN {}
                 ELSE {Taken(book, w, step)}
                        \cup IF step < Depth(book, w) THEN {} ELSE f[Taken(book, w, step)]
    BY DEF AheadOf
  <2> HIDE DEF step
  <2> QED
    BY <1>1, <2>1
<1>2. CASE w.qty # Pairs(book) /\ ~(step <= 0) /\ ~(step < Depth(book, w))
  <2>1. step > 0 => /\ Taken(book, w, step) \in Places(book)
                    /\ Taken(book, w, step).qty > w.qty
    BY <1>2, FreeStep
  <2>2. step \in Int
    BY <1>2, FreeStep
  <2> HIDE DEF step
  <2>3. g[Taken(book, w, step)] = h[Taken(book, w, step)]
    BY <1>2, <2>1, <2>2
  <2> QED
    BY <1>2, <2>3, Zenon DEF AheadOf, step
<1> QED
  BY <1>1, <1>2

\* The function that PairedDepthCandidates names exists.
LEMMA AheadExists ==
    ASSUME NEW book \in [Legs -> Books], NEW limit \in Int
    PROVE  \E g : g = [w \in Places(book) |-> AheadOf(book, limit, g, w)]
<1> DEFINE N == Pairs(book)
           D == Places(book)
           F(g) == [w \in D |-> AheadOf(book, limit, g, w)]
           S == {n \in 0 .. N : \E g : \A w \in D : w.qty >= N - n => g[w] = F(g)[w]}
<1>1. N \in Nat /\ \A w \in D : w.qty \in 0 .. N
  BY PairsOfBooks DEF Places
<1>2. 0 \in S
  <2> DEFINE z == [w \in D |-> {}]
  <2>1. ASSUME NEW w \in D, w.qty >= N - 0 PROVE z[w] = F(z)[w]
    <3>1. w.qty = N
      BY <1>1, <2>1
    <3> QED
      BY <3>1 DEF AheadOf
  <2>2. 0 \in 0 .. N
    BY <1>1
  <2> HIDE DEF F, z, D, N
  <2> QED
    BY <2>1, <2>2
<1>3. \A n \in 0 .. N - 1 : n \in S => n + 1 \in S
  <2> SUFFICES ASSUME NEW n \in 0 .. N - 1, n \in S PROVE n + 1 \in S
    OBVIOUS
  <2>1. PICK g : \A w \in D : w.qty >= N - n => g[w] = F(g)[w]
    OBVIOUS
  <2> DEFINE h == F(g)
  <2>2. ASSUME NEW w \in D, w.qty >= N - (n + 1) PROVE h[w] = F(h)[w]
    <3>1. ASSUME NEW v \in D, v.qty > w.qty PROVE g[v] = h[v]
      <4>1. v.qty >= N - n
        BY <1>1, <2>2, <3>1
      <4> HIDE DEF F
      <4> QED
        BY <2>1, <4>1
    <3> HIDE DEF h
    <3>2. AheadOf(book, limit, g, w) = AheadOf(book, limit, h, w)
      BY <3>1, AheadLooksAhead
    <3> QED
      BY <3>2 DEF h
  <2>3. n + 1 \in 0 .. N
    BY <1>1
  <2> HIDE DEF F, h, D, N
  <2> QED
    BY <2>2, <2>3
<1> HIDE DEF S
<1>4. 0 .. N \subseteq S
  BY <1>1, <1>2, <1>3, CountingUp
<1>5. N \in S
  BY <1>1, <1>4
<1> USE DEF S
<1>6. PICK g : \A w \in D : w.qty >= N - N => g[w] = F(g)[w]
  <2> HIDE DEF F, D, N
  <2> QED
    BY <1>5
<1>7. \A w \in D : g[w] = F(g)[w]
  <2>1. \A w \in D : w.qty >= N - N
    BY <1>1
  <2> HIDE DEF F, D, N
  <2> QED
    BY <1>6, <2>1
<1> DEFINE h == F(g)
<1>8. ASSUME NEW w \in D PROVE AheadOf(book, limit, g, w) = AheadOf(book, limit, h, w)
  <2>1. \A v \in D : g[v] = h[v]
    <3> HIDE DEF F, D
    <3> QED
      BY <1>7 DEF h
  <2> HIDE DEF h
  <2> QED
    BY <2>1, AheadLooksAhead
<1>9. h = F(h)
  <2> HIDE DEF h
  <2> QED
    BY <1>8 DEF h
<1> HIDE DEF h
<1> QED
  BY <1>9

\* PairedDepthCandidates follows the walk.
LEMMA CandidatesWalk ==
    ASSUME NEW book \in [Legs -> Books], NEW capital \in Nat, NEW limit \in Int,
           limit = (capital - Merge) * Base
    PROVE  \E g : /\ \A w \in Places(book) : g[w] = AheadOf(book, limit, g, w)
                  /\ PairedDepthCandidates(book, capital) = g[Start]
<1> DEFINE R(g) == g = [w \in Places(book) |-> AheadOf(book, limit, g, w)]
           c == CHOOSE g : R(g)
<1>1. \E g : R(g)
  BY AheadExists
<1>2. R(c)
  <2> HIDE DEF R
  <2> QED
    BY <1>1
<1>3. PairedDepthCandidates(book, capital) = c[Start]
  BY DEF PairedDepthCandidates, AheadOf, Places, Start
<1> HIDE DEF c
<1>4. \A w \in Places(book) : c[w] = AheadOf(book, limit, c, w)
  BY <1>2
<1> QED
  BY <1>3, <1>4

\* What is ahead of a place where a tranche is taken.
LEMMA AheadIs ==
    ASSUME NEW book \in [Legs -> Books], NEW limit \in Int, NEW g,
           NEW w \in Places(book), g[w] = AheadOf(book, limit, g, w)
    PROVE  LET step == MinOf(Depth(book, w), Buys(book, limit, w))
               t    == Taken(book, w, step)
           IN  /\ w.qty = Pairs(book) \/ step <= 0 => g[w] = {}
               /\ w.qty # Pairs(book) /\ ~(step <= 0) => t \in g[w]
               /\ w.qty # Pairs(book) /\ ~(step <= 0) /\ ~(step < Depth(book, w))
                    => g[w] = {t} \cup g[t]
               /\ \A c \in g[w] : c = t \/ (~(step < Depth(book, w)) /\ c \in g[t])
<1> DEFINE step == MinOf(Depth(book, w), Buys(book, limit, w))
           t == Taken(book, w, step)
<1>1. g[w] = IF w.qty = Pairs(book) THEN {} ELSE IF step <= 0 THEN {}
             ELSE {t} \cup IF step < Depth(book, w) THEN {} ELSE g[t]
  BY DEF AheadOf
<1> HIDE DEF step, t
<1> QED
  BY <1>1 DEF step, t

\* What every candidate costs, and that the budget pays for it.
Payable(book, limit, c) ==
    /\ c \in Places(book) /\ c.gross = GrossOf(book, c.qty)
    /\ Capital(c.gross, Slip) <= limit

\* A candidate costs what its shares cost, and is within the budget.
LEMMA CandidatesPayable ==
    ASSUME NEW book \in [Legs -> Books], NEW limit \in Int, NEW g,
           \A w \in Places(book) : g[w] = AheadOf(book, limit, g, w)
    PROVE  \A w \in Places(book) : w.gross = GrossOf(book, w.qty) =>
               \A c \in g[w] : Payable(book, limit, c)
<1> DEFINE N == Pairs(book)
           D == Places(book)
           Good(w) == w.gross = GrossOf(book, w.qty)
           S == {n \in 0 .. N : \A w \in D : w.qty >= N - n /\ Good(w) =>
                                    \A c \in g[w] : Payable(book, limit, c)}
<1>1. N \in Nat /\ \A w \in D : w.qty \in 0 .. N
  BY PairsOfBooks DEF Places
<1>2. ASSUME NEW w \in D, Good(w), w.qty # N, NEW c \in g[w],
             \A v \in D : v.qty > w.qty /\ Good(v) => \A d \in g[v] : Payable(book, limit, d)
      PROVE  Payable(book, limit, c)
  <2> DEFINE step == MinOf(Depth(book, w), Buys(book, limit, w))
             t == Taken(book, w, step)
             p == PairPrice(book, w.qty + 1)
  <2>1. /\ w.qty = N \/ step <= 0 => g[w] = {}
        /\ c = t \/ c \in g[t]
    BY AheadIs
  <2>2. /\ w.qty < N /\ step \in Int /\ Depth(book, w) \in Nat
        /\ step * Capital(p, Slip) <= limit - Capital(w.gross, Slip)
        /\ step > 0 => /\ step \in 1 .. Depth(book, w)
                       /\ t \in D /\ t.qty = w.qty + step /\ t.qty > w.qty
    BY <1>2, FreeStep
  <2> HIDE DEF step
  <2>3. step > 0
    BY <1>2, <2>1, <2>2
  <2>4. step \in 1 .. Depth(book, w) /\ t \in D /\ t.qty = w.qty + step /\ t.qty > w.qty
    BY <2>2, <2>3
  <2>5. step \in 0 .. Depth(book, w)
    BY <2>2, <2>4
  <2>6. t.gross = w.gross + step * p
    BY <2>2, <2>4, TrancheLeadsOn
  <2>7. Good(t)
    BY <1>2, <2>2, <2>4, <2>5, <2>6, TrancheCosts
  <2>8. Capital(t.gross, Slip) <= limit
    <3> DEFINE q == w.gross
               a == Capital(q, Slip)
               b == Capital(p, Slip)
    <3>1. p \in Nat
      BY <2>2, TrancheAhead, PairsOfBooks
    <3>2. q \in Nat /\ step \in Nat
      BY <2>2, <2>3 DEF Places
    <3> HIDE DEF p, q
    <3>3. step * p \in Nat
      BY <3>1, <3>2
    <3>4. Capital(q + step * p, Slip) = a + step * b /\ a \in Nat /\ b \in Nat
      <4> DEFINE n == step * p
      <4>1. n \in Nat /\ Slip \in Nat
        BY <3>3, Constant
      <4>2. Capital(n, Slip) = step * b /\ a \in Nat /\ b \in Nat
        BY <3>1, <3>2, <4>1, CapitalIsLinear
      <4> HIDE DEF n, a, b
      <4>3. Capital(q + n, Slip) = Capital(q, Slip) + Capital(n, Slip)
        BY <3>2, <4>1, CapitalIsLinear
      <4> QED
        BY <4>2, <4>3 DEF a, n
    <3>5. step * b <= limit - a
      BY <2>2 DEF q
    <3> HIDE DEF a, b
    <3>6. step * b \in Nat
      BY <3>2, <3>4
    <3>7. a + step * b <= limit
      BY <3>4, <3>5, <3>6
    <3> QED
      BY <2>6, <3>4, <3>7 DEF q
  <2>9. Payable(book, limit, t)
    BY <2>4, <2>7, <2>8 DEF Payable
  <2> QED
    BY <1>2, <2>1, <2>4, <2>7, <2>9
<1>3. ASSUME NEW w \in D, w.qty = N PROVE g[w] = {}
  BY <1>3, AheadIs
<1> HIDE DEF Good, N, D
<1>4. 0 \in S
  BY <1>1, <1>3
<1>5. \A n \in 0 .. N - 1 : n \in S => n + 1 \in S
  <2> SUFFICES ASSUME NEW n \in 0 .. N - 1, n \in S PROVE n + 1 \in S
    OBVIOUS
  <2>1. \A w \in D : w.qty >= N - n /\ Good(w) => \A c \in g[w] : Payable(book, limit, c)
    OBVIOUS
  <2>2. ASSUME NEW w \in D, w.qty >= N - (n + 1), Good(w), NEW c \in g[w]
        PROVE  Payable(book, limit, c)
    <3>1. w.qty # N
      BY <1>3, <2>2
    <3>2. ASSUME NEW v \in D, v.qty > w.qty, Good(v)
          PROVE  \A d \in g[v] : Payable(book, limit, d)
      <4>1. v.qty >= N - n
        BY <1>1, <2>2, <3>2
      <4> QED
        BY <2>1, <3>2, <4>1
    <3> QED
      BY <1>2, <2>2, <3>1, <3>2
  <2>3. n + 1 \in 0 .. N
    BY <1>1
  <2> QED
    BY <2>2, <2>3
<1> HIDE DEF S
<1>6. 0 .. N \subseteq S
  BY <1>1, <1>4, <1>5, CountingUp
<1>7. N \in S
  BY <1>1, <1>6
<1> USE DEF S
<1>8. ASSUME NEW w \in D, Good(w) PROVE \A c \in g[w] : Payable(book, limit, c)
  <2>1. w.qty >= N - N
    BY <1>1
  <2> QED
    BY <1>7, <1>8, <2>1
<1> QED
  BY <1>8 DEF Good, D

\* Where the loop of a plan comes to, a tranche of the strategy ends.
LEMMA PlanIsCandidate ==
    ASSUME NEW book \in [Legs -> Books], NEW limit \in Int, NEW target \in Int,
           Pairs(book) <= target, NEW s, NEW g,
           \A w \in Places(book) : s[w] = Onward(book, limit, target, s, w),
           \A w \in Places(book) : g[w] = AheadOf(book, limit, g, w)
    PROVE  \A w \in Places(book) : s[w] = w \/ s[w] \in g[w]
<1> DEFINE N == Pairs(book)
           D == Places(book)
           Met(w) == s[w] = w \/ s[w] \in g[w]
           S == {n \in 0 .. N : \A w \in D : w.qty >= N - n => Met(w)}
<1>1. N \in Nat /\ \A w \in D : w.qty \in 0 .. N
  BY PairsOfBooks DEF Places
<1>2. ASSUME NEW w \in D, w.qty = N \/ ~Edge(PairPrice(book, w.qty + 1)) PROVE Met(w)
  BY <1>2 DEF Onward
<1>3. ASSUME NEW w \in D, w.qty # N, Edge(PairPrice(book, w.qty + 1)),
             \A v \in D : v.qty > w.qty => Met(v)
      PROVE  Met(w)
  <2> DEFINE step == MinOf(Depth(book, w), Buys(book, limit, w))
             t == Taken(book, w, step)
  <2>1. /\ w.qty < N /\ step \in Int /\ step <= Depth(book, w) /\ Depth(book, w) \in Nat
        /\ step > 0 => t \in D /\ t.qty > w.qty
    BY <1>3, FreeStep
  <2>2. Step(book, limit, target, w) = step
    BY <2>1, TargetBeyond
  <2>3. s[w] = IF step <= 0 THEN w ELSE IF step < Depth(book, w) THEN t ELSE s[t]
    <3>1. s[w] = Onward(book, limit, target, s, w)
      OBVIOUS
    <3> HIDE DEF N, step
    <3> QED
      BY <1>3, <2>2, <3>1, Zenon DEF Onward, N
  <2>4. /\ w.qty # N /\ ~(step <= 0) => t \in g[w]
        /\ w.qty # N /\ ~(step <= 0) /\ ~(step < Depth(book, w)) => g[w] = {t} \cup g[t]
    BY AheadIs
  <2> HIDE DEF step, t
  <2>5. CASE step <= 0
    BY <2>3, <2>5
  <2>6. CASE ~(step <= 0) /\ step < Depth(book, w)
    BY <1>3, <2>3, <2>4, <2>6
  <2>7. CASE ~(step <= 0) /\ ~(step < Depth(book, w))
    <3>1. s[w] = s[t] /\ g[w] = {t} \cup g[t]
      BY <1>3, <2>3, <2>4, <2>7
    <3>2. s[t] = t \/ s[t] \in g[t]
      <4>1. t \in D /\ t.qty > w.qty
        BY <2>1, <2>7
      <4> QED
        BY <1>3, <4>1
    <3> QED
      BY <3>1, <3>2
  <2> QED
    BY <2>5, <2>6, <2>7
<1> HIDE DEF Met, N, D
<1>4. 0 \in S
  <2>1. \A w \in D : w.qty >= N - 0 => w.qty = N
    BY <1>1
  <2> QED
    BY <1>1, <1>2, <2>1
<1>5. \A n \in 0 .. N - 1 : n \in S => n + 1 \in S
  <2> SUFFICES ASSUME NEW n \in 0 .. N - 1, n \in S PROVE n + 1 \in S
    OBVIOUS
  <2>1. \A w \in D : w.qty >= N - n => Met(w)
    OBVIOUS
  <2>2. ASSUME NEW w \in D, w.qty >= N - (n + 1) PROVE Met(w)
    <3>1. ASSUME NEW v \in D, v.qty > w.qty PROVE Met(v)
      <4>1. v.qty >= N - n
        BY <1>1, <2>2, <3>1
      <4> QED
        BY <2>1, <4>1
    <3> QED
      BY <1>2, <1>3, <2>2, <3>1
  <2>3. n + 1 \in 0 .. N
    BY <1>1
  <2> QED
    BY <2>2, <2>3
<1> HIDE DEF S
<1>6. 0 .. N \subseteq S
  BY <1>1, <1>4, <1>5, CountingUp
<1>7. N \in S
  BY <1>1, <1>6
<1> USE DEF S
<1>8. ASSUME NEW w \in D PROVE Met(w)
  <2>1. w.qty >= N - N
    BY <1>1
  <2> QED
    BY <1>7, <2>1
<1> QED
  BY <1>8 DEF Met, D

\* The budget of a plan as the strategy is given it.
LEMMA SameBudget ==
    ASSUME NEW cash \in Nat
    PROVE  /\ SpendLimit(cash) \div Base \in Nat
           /\ LimitOf(cash) = (SpendLimit(cash) \div Base - Merge) * Base
<1> DEFINE m == MinOf(MaxOf(0, cash - Reserve), Ceiling)
           n == SpendLimit(cash) \div Base
<1>1. m \in Nat /\ Base \in Nat \ {0} /\ Merge \in Nat
  BY Constant DEF MinOf, MaxOf
<1>2. SpendLimit(cash) = m * Base
  BY DEF SpendLimit
<1> HIDE DEF m
<1>3. m * Base \in Int /\ (m + 1) * Base = m * Base + Base
  BY <1>1
<1>4. /\ n \in Int /\ (m <= n <=> m * Base <= m * Base)
      /\ (m + 1 <= n <=> (m + 1) * Base <= m * Base)
  BY <1>1, <1>2, <1>3, WithinQuotient
<1> HIDE DEF n
<1>5. n = m
  BY <1>1, <1>3, <1>4
<1>6. (m - Merge) * Base = m * Base - Merge * Base
  BY <1>1
<1> QED
  BY <1>1, <1>2, <1>5, <1>6 DEF LimitOf, n

\* What an accepted plan comes to satisfies the strategy's thresholds.
LEMMA AcceptedQualifies ==
    ASSUME TypeOK, NEW o, Accepted(o)
    PROVE  Qualifying(PlanOf(o))
<1> DEFINE capital == Costs(o.gross, Slip)
           net == o.qty * Payout * Base - capital
           a == Threshold("profit", SignalRisks)
           b == Threshold("return", SignalRisks)
<1>1. /\ o.qty \in Nat /\ o.gross \in Nat /\ o.cash \in Nat
      /\ PlanOf(o).qty = o.qty /\ PlanOf(o).gross = o.gross
  BY AcceptedIs
<1>2. o.qty >= MinSize /\ net >= a /\ net * Base >= b * capital
  BY DEF Accepted, Clears
<1>3. a \in Nat /\ a >= Floor["profit"] /\ b \in Nat /\ b >= Floor["return"]
      /\ Floor["profit"] \in Nat /\ Floor["return"] \in Nat
  BY RisksType, ThresholdType, Given DEF Measures
<1>4. capital \in Nat
  <2> DEFINE c == Capital(o.gross, Slip)
             m == Merge * Base
  <2>1. c \in Nat /\ m \in Nat
    BY <1>1, Constant, CapitalIsLinear, LimitType
  <2>2. capital = c + m
    BY DEF Costs
  <2> HIDE DEF c, m, capital
  <2> QED
    BY <2>1, <2>2
<1>5. net \in Int /\ net * Base \in Int
  <2>1. o.qty * Payout * Base \in Int /\ Base \in Nat
    BY <1>1, Constant
  <2> HIDE DEF capital
  <2>2. net \in Int
    BY <1>4, <2>1
  <2> HIDE DEF net
  <2> QED
    BY <2>1, <2>2
<1>6. Qualifying(PlanOf(o)) <=> /\ o.qty >= MinSize
                                /\ net >= Floor["profit"]
                                /\ net * Base >= Floor["return"] * capital
  BY <1>1 DEF Qualifying, PassesThresholds
<1> HIDE DEF capital, net, a, b
<1>7. net >= Floor["profit"]
  BY <1>2, <1>3, <1>5
<1>8. net * Base >= Floor["return"] * capital
  <2> DEFINE f == Floor["return"]
  <2>1. f * capital <= b * capital
    BY <1>3, <1>4, TimesGrows
  <2>2. f * capital \in Int /\ b * capital \in Int
    BY <1>3, <1>4
  <2> HIDE DEF f
  <2>3. net * Base >= f * capital
    BY <1>2, <1>5, <2>1, <2>2
  <2> QED
    BY <2>3 DEF f
<1> QED
  BY <1>2, <1>6, <1>7, <1>8

\* On the books and the budget of an accepted plan the strategy finds its largest depth that
\* qualifies, which is no smaller and earns no more.
LEMMA LargestIsFound ==
    ASSUME TypeOK, NEW o, Accepted(o)
    PROVE  \E found \in LargestQualifying(o.book, SpendLimit(o.cash) \div Base) :
               /\ found.qty >= o.qty
               /\ Net(found.qty, found.gross) <= Net(o.qty, o.gross)
<1> DEFINE book == o.book
           capital == SpendLimit(o.cash) \div Base
           limit == LimitOf(o.cash)
           target == Len(o.book["yes"])
           plan == PlanOf(o)
           all == {c \in PairedDepthCandidates(book, capital) : Qualifying(c)}
<1>1. /\ book \in [Legs -> Books] /\ o.cash \in Nat /\ o.qty \in Nat /\ o.qty > 0
      /\ Pairs(book) \in Nat /\ o.qty <= Pairs(book) /\ o.gross \in Nat
      /\ o.gross = GrossOf(book, o.qty)
      /\ plan.qty = o.qty /\ plan.gross = o.gross
      /\ limit \in Int
      /\ plan \in Places(book) /\ OnTheWay(book, limit, target, plan)
      /\ Stops(book, limit, target, plan)
  BY AcceptedIs
<1>2. target \in Nat /\ Pairs(book) <= target
  <2>1. book["yes"] \in Books /\ Pairs(book) <= Len(book["yes"])
    BY <1>1, PairsOfBooks DEF Legs
  <2> QED
    BY <2>1, BookRises
<1>3. capital \in Nat /\ limit = (capital - Merge) * Base
  BY <1>1, SameBudget
<1>4. plan = SimulatePairedTranches(book, o.cash, target)
  BY DEF Accepted, SizedOn
<1>5. Qualifying(plan)
  BY AcceptedQualifies
<1> HIDE DEF book, capital, limit, target, plan
<1>6. PICK s : /\ \A w \in Places(book) : s[w] = Onward(book, limit, target, s, w)
               /\ plan = s[Start]
  BY <1>1, <1>2, <1>4, SimulationWalks DEF limit
<1>7. PICK g : /\ \A w \in Places(book) : g[w] = AheadOf(book, limit, g, w)
               /\ PairedDepthCandidates(book, capital) = g[Start]
  BY <1>1, <1>3, CandidatesWalk
<1>8. Start \in Places(book) /\ Start.qty = 0 /\ Start.gross = 0
  BY <1>1 DEF Start, Places
<1>9. plan \in g[Start]
  <2>1. s[Start] = Start \/ s[Start] \in g[Start]
    BY <1>1, <1>2, <1>6, <1>7, <1>8, PlanIsCandidate
  <2>2. s[Start] # Start
    BY <1>1, <1>6, <1>8
  <2> QED
    BY <1>6, <2>1, <2>2
<1>10. \A c \in g[Start] : Payable(book, limit, c)
  <2>1. Start.gross = GrossOf(book, Start.qty)
    BY <1>1, <1>8, PairsOfBooks
  <2> QED
    BY <1>1, <1>7, <1>8, <2>1, CandidatesPayable
<1>11. plan \in all
  BY <1>5, <1>7, <1>9
<1>12. \A c \in all : Payable(book, limit, c)
  BY <1>7, <1>10
<1>13. LargestQualifying(book, capital) = {c \in all : \A d \in all : d.qty <= c.qty}
  BY DEF LargestQualifying
<1> HIDE DEF all
<1>14. PICK found \in all : \A d \in all : d.qty <= found.qty
  <2> DEFINE T == {c.qty : c \in all}
  <2>1. \A c \in all : c.qty \in Nat /\ c.qty <= Pairs(book)
    <3> SUFFICES ASSUME NEW c \in all PROVE c.qty \in Nat /\ c.qty <= Pairs(book)
      OBVIOUS
    <3>1. c \in Places(book)
      BY <1>12 DEF Payable
    <3>2. c.qty \in 0 .. Pairs(book)
      BY <3>1 DEF Places
    <3> QED
      BY <1>1, <3>2
  <2>2. T \in SUBSET Nat /\ T # {} /\ \A j \in T : j <= Pairs(book)
    BY <1>11, <2>1
  <2> HIDE DEF T
  <2>3. PICK i \in T : \A j \in T : j <= i
    BY <1>1, <2>2, LargestExists
  <2> QED
    BY <2>3 DEF T
<1>15. found \in LargestQualifying(book, capital)
  BY <1>13, <1>14
<1>16. found.qty >= o.qty
  <2>1. plan.qty <= found.qty
    BY <1>11, <1>14
  <2>2. found.qty \in Int
    BY <1>1, <1>12 DEF Payable, Places
  <2> QED
    BY <1>1, <2>1, <2>2
<1>17. /\ found \in Places(book) /\ found.gross = GrossOf(book, found.qty)
       /\ Capital(found.gross, Slip) <= limit
  BY <1>12 DEF Payable
<1>18. found.qty \in 0 .. Pairs(book) /\ o.qty \in 0 .. Pairs(book)
  BY <1>1, <1>17 DEF Places
<1>19. ProfitOf(book, found.qty) <= ProfitOf(book, o.qty)
  <2>1. Capital(GrossOf(book, found.qty), Slip) <= limit
    BY <1>17
  <2>2. plan.qty >= target => plan.qty = Pairs(book)
    BY <1>1, <1>2
  <2>3. ProfitOf(book, found.qty) <= ProfitOf(book, plan.qty)
    BY <1>1, <1>2, <1>18, <2>1, <2>2, PlanIsBest
  <2> QED
    BY <1>1, <2>3
<1>20. ASSUME NEW q \in 0 .. Pairs(book)
       PROVE  Net(q, GrossOf(book, q)) = ProfitOf(book, q) - Merge * Base
              /\ ProfitOf(book, q) \in Int /\ Merge * Base \in Int
  <2> DEFINE c == Capital(GrossOf(book, q), Slip)
             m == Merge * Base
             v == q * Payout * Base
  <2>1. GrossOf(book, q) \in Nat
    BY <1>1, PairsOfBooks
  <2>2. c \in Nat
    BY <2>1, Constant, CapitalIsLinear
  <2>3. q \in Nat /\ m \in Nat
    BY <1>1, LimitType
  <2>4. v \in Int
    BY <2>3, Constant
  <2>5. Net(q, GrossOf(book, q)) = v - (c + m) /\ ProfitOf(book, q) = v - c
    BY DEF Net, Costs, ProfitOf
  <2> HIDE DEF c, m, v
  <2>6. Net(q, GrossOf(book, q)) = ProfitOf(book, q) - m
        /\ ProfitOf(book, q) \in Int /\ m \in Int
    BY <2>2, <2>3, <2>4, <2>5
  <2> QED
    BY <2>6 DEF m
<1>21. Net(found.qty, found.gross) <= Net(o.qty, o.gross)
  <2> DEFINE m == Merge * Base
             a == ProfitOf(book, found.qty)
             b == ProfitOf(book, o.qty)
  <2>1. Net(found.qty, found.gross) = a - m /\ a \in Int /\ m \in Int
    BY <1>17, <1>18, <1>20
  <2>2. Net(o.qty, o.gross) = b - m /\ b \in Int
    BY <1>1, <1>18, <1>20
  <2> HIDE DEF a, b, m
  <2>3. a <= b
    BY <1>19 DEF a, b
  <2> QED
    BY <2>1, <2>2, <2>3
<1> QED
  BY <1>15, <1>16, <1>21 DEF book, capital

\* What the runner trades the strategy would have entered, with no fewer shares and no higher
\* profit, for any books, budget and thresholds (evaluate_binary_arbitrage against
\* _simulate_paired_tranches).
THEOREM StrategySeesPlans == StrategySpec => []StrategyNeverBehind
<1>1. FillInv => StrategyNeverBehind
  BY LargestIsFound DEF FillInv, WaitingIsAccepted, StrategyNeverBehind
<1> QED
  BY <1>1, StrategyIsFill, FillInvariant, PTL

-----------------------------------------------------------------------------
(* The event: sums over its markets *)

\* What the constants of an event are.
LEMMA EventsAre ==
    /\ IsFiniteSet(Markets) /\ Cardinality(Markets) \in Nat /\ Cardinality(Markets) > 1
    /\ Markets # {} /\ IsFiniteSet(Events) /\ Capitals \subseteq Nat
    /\ \A e \in Events : \A m \in Markets : \A l \in Legs : e[m][l] \in Books
<1>1. IsFiniteSet(Markets) /\ Cardinality(Markets) > 1 /\ IsFiniteSet(Events)
      /\ Capitals \subseteq Nat /\ Events \subseteq [Markets -> [Legs -> Books]]
  BY StrategyAssumption
<1>2. Cardinality(Markets) \in Nat
  BY <1>1, FS_CardinalityType
<1>3. Markets # {}
  BY <1>1, FS_EmptySet
<1>4. ASSUME NEW e \in Events, NEW m \in Markets, NEW l \in Legs PROVE e[m][l] \in Books
  <2>1. e \in [Markets -> [Legs -> Books]]
    BY <1>1
  <2>2. e[m] \in [Legs -> Books]
    BY <2>1
  <2> QED
    BY <2>2
<1> QED
  BY <1>1, <1>2, <1>3, <1>4

\* No book of an event has more than MaxShares.
LEMMA SharesBounded ==
    /\ MaxShares \in Nat
    /\ \A e \in Events : \A m \in Markets : \A l \in Legs :
           Len(e[m][l]) \in Nat /\ Len(e[m][l]) <= MaxShares
<1> DEFINE lengths == {Len(e[m][l]) : e \in Events, m \in Markets, l \in Legs}
           per(e) == [m \in Markets |-> Len(e[m]["yes"]) + Len(e[m]["no"])]
           all == [e \in Events |-> SumFunctionOnSet(per(e), Markets)]
           n == SumFunctionOnSet(all, Events)
<1>1. \A e \in Events : \A m \in Markets : \A l \in Legs : Len(e[m][l]) \in Nat
  BY EventsAre, BookRises
<1>2. ASSUME NEW e \in Events
      PROVE  all[e] \in Nat /\ \A m \in Markets : per(e)[m] <= all[e]
  <2> DEFINE f == per(e)
  <2>1. ASSUME NEW m \in Markets PROVE f[m] \in Nat
    <3> DEFINE y == Len(e[m]["yes"])
               z == Len(e[m]["no"])
    <3>1. y \in Nat /\ z \in Nat
      BY <1>1 DEF Legs
    <3>2. f[m] = y + z
      OBVIOUS
    <3> HIDE DEF f, y, z
    <3> QED
      BY <3>1, <3>2
  <2>2. all[e] = SumFunctionOnSet(f, Markets)
    OBVIOUS
  <2> HIDE DEF f, all
  <2>3. all[e] \in Nat /\ \A m \in Markets : f[m] <= all[e]
    BY <2>1, <2>2, EventsAre, SumCovers
  <2> QED
    BY <2>3 DEF f
<1>3. n \in Nat /\ \A e \in Events : all[e] <= n
  <2> HIDE DEF all
  <2> QED
    BY <1>2, EventsAre, SumCovers
<1>4. ASSUME NEW e \in Events, NEW m \in Markets, NEW l \in Legs PROVE Len(e[m][l]) <= n
  <2> DEFINE y == Len(e[m]["yes"])
             z == Len(e[m]["no"])
             t == all[e]
  <2>1. y \in Nat /\ z \in Nat
    BY <1>1 DEF Legs
  <2>2. per(e)[m] = y + z
    OBVIOUS
  <2>3. y + z <= t /\ t \in Nat /\ t <= n /\ n \in Nat
    BY <1>2, <1>3, <2>2
  <2>4. Len(e[m][l]) = y \/ Len(e[m][l]) = z
    BY DEF Legs
  <2> HIDE DEF y, z, t, n, all
  <2> QED
    BY <2>1, <2>3, <2>4
<1> DEFINE T == lengths \cup {0}
<1>5. T \in SUBSET Nat /\ T # {} /\ \A j \in T : j <= n
  <2>1. \A j \in lengths : j \in Nat /\ j <= n
    <3> HIDE DEF n
    <3> QED
      BY <1>1, <1>4
  <2> HIDE DEF n, lengths
  <2> QED
    BY <1>3, <2>1
<1>6. MaxShares = CHOOSE x \in T : \A y \in T : x >= y
  BY DEF MaxShares, Max
<1>7. MaxShares \in T /\ \A y \in T : MaxShares >= y
  <2> HIDE DEF T, n
  <2>1. PICK i \in T : \A j \in T : j <= i
    BY <1>3, <1>5, LargestExists
  <2>2. \A y \in T : i >= y
    BY <1>5, <2>1
  <2> QED
    BY <1>6, <2>2
<1>8. ASSUME NEW e \in Events, NEW m \in Markets, NEW l \in Legs
      PROVE  Len(e[m][l]) \in Nat /\ Len(e[m][l]) <= MaxShares
  <2>1. Len(e[m][l]) \in T
    OBVIOUS
  <2> HIDE DEF T
  <2> QED
    BY <1>1, <1>5, <1>7, <2>1
<1>9. MaxShares \in Nat
  <2> HIDE DEF T
  <2> QED
    BY <1>5, <1>7
<1> QED
  BY <1>8, <1>9

\* A sum over some markets is a number.
LEMMA MarketSums ==
    ASSUME NEW f, \A m \in Markets : f[m] \in Nat, NEW S \in SUBSET Markets
    PROVE  IsFiniteSet(S) /\ SumFunctionOnSet(f, S) \in Nat
<1>1. IsFiniteSet(S)
  BY EventsAre, FS_Subset
<1> QED
  BY <1>1, SumCovers

\* What a purchase on offer costs.
LEMMA GroupGrossType ==
    ASSUME NEW books \in Events, NEW bought,
           \A m \in Markets : bought[m].yes \in Nat /\ bought[m].no \in Nat,
           OnOffer(books, bought)
    PROVE  GroupGross(books, bought) \in Nat
<1> DEFINE f == [m \in Markets |-> FillCost(books[m]["yes"], bought[m].yes)
                                     + FillCost(books[m]["no"], bought[m].no)]
<1>1. ASSUME NEW m \in Markets PROVE f[m] \in Nat
  <2> DEFINE y == books[m]["yes"]
             n == books[m]["no"]
  <2>1. y \in Books /\ n \in Books
    BY EventsAre DEF Legs
  <2>2. bought[m].yes <= Len(y) /\ bought[m].no <= Len(n)
    BY DEF OnOffer
  <2>3. f[m] = FillCost(y, bought[m].yes) + FillCost(n, bought[m].no)
    OBVIOUS
  <2> HIDE DEF y, n, f
  <2>4. bought[m].yes \in 0 .. Len(y) /\ bought[m].no \in 0 .. Len(n)
    BY <2>1, <2>2, BookRises
  <2>5. FillCost(y, bought[m].yes) \in Nat /\ FillCost(n, bought[m].no) \in Nat
    BY <2>1, <2>4, CostOfOneMore
  <2> QED
    BY <2>3, <2>5
<1>2. GroupGross(books, bought) = SumFunctionOnSet(f, Markets)
  BY DEF GroupGross
<1> HIDE DEF f
<1> QED
  BY <1>1, <1>2, MarketSums

\* What a purchase pays in the worst case: no outcome pays less, one pays just that.
LEMMA GuaranteedIs ==
    ASSUME NEW b \in Purchases
    PROVE  /\ Guaranteed(b) \in Nat /\ Guaranteed(b) <= MaxShares * Cardinality(Markets)
           /\ \A w \in Markets : /\ HeldNo(b, Markets \ {w}) \in Nat
                                 /\ Guaranteed(b) <= b[w].yes + HeldNo(b, Markets \ {w})
           /\ \E w \in Markets : Guaranteed(b) = b[w].yes + HeldNo(b, Markets \ {w})
<1> DEFINE f == [m \in Markets |-> b[m].no]
           pays(w) == b[w].yes + HeldNo(b, Markets \ {w})
           V == {pays(w) : w \in Markets}
<1>1. ASSUME NEW m \in Markets
      PROVE  /\ b[m].yes \in Nat /\ b[m].yes <= MaxShares
             /\ b[m].no \in Nat /\ b[m].no <= MaxShares
  <2>1. b[m].yes \in 0 .. MaxShares /\ b[m].no \in 0 .. MaxShares
    BY DEF Purchases
  <2> QED
    BY <2>1, SharesBounded
<1>2. \A m \in Markets : f[m] \in Nat /\ f[m] <= MaxShares
  BY <1>1
<1>3. \A S : HeldNo(b, S) = SumFunctionOnSet(f, S)
  BY DEF HeldNo
<1> HIDE DEF f
<1>4. ASSUME NEW w \in Markets
      PROVE  /\ HeldNo(b, Markets \ {w}) \in Nat /\ pays(w) \in Nat
             /\ pays(w) <= MaxShares * Cardinality(Markets)
  <2> DEFINE R == Markets \ {w}
             h == HeldNo(b, R)
             n == Cardinality(R)
  <2>1. R \in SUBSET Markets /\ IsFiniteSet(R)
    BY EventsAre, FS_Subset
  <2>2. n = Cardinality(Markets) - 1 /\ Cardinality(Markets) \in Nat
        /\ Cardinality(Markets) > 1
    BY EventsAre, FS_RemoveElement
  <2>3. h \in Nat
    BY <1>2, <1>3, <2>1, MarketSums
  <2>4. h <= MaxShares * n
    <3>1. MaxShares \in Nat /\ \A x \in R : f[x] \in Int /\ f[x] <= MaxShares
      BY <1>2, SharesBounded
    <3> QED
      BY <1>3, <2>1, <3>1, SumWithin
  <2> HIDE DEF h, n
  <2>5. MaxShares * Cardinality(Markets) = MaxShares * n + MaxShares /\ MaxShares \in Nat
        /\ MaxShares * n \in Int
    BY <2>2, SharesBounded
  <2>6. b[w].yes \in Nat /\ b[w].yes <= MaxShares
    BY <1>1
  <2>7. pays(w) = b[w].yes + h
    BY DEF h
  <2>8. pays(w) \in Nat /\ pays(w) <= MaxShares * Cardinality(Markets)
    <3> HIDE DEF pays
    <3> QED
      BY <2>3, <2>4, <2>5, <2>6, <2>7
  <2> QED
    BY <2>3, <2>8 DEF h
<1>5. Guaranteed(b) = CHOOSE x \in V : \A y \in V : x <= y
  BY DEF Guaranteed, Min
<1>6. V \in SUBSET Nat /\ V # {}
  <2> HIDE DEF pays
  <2> QED
    BY <1>4, EventsAre
<1>7. Guaranteed(b) \in V /\ \A y \in V : Guaranteed(b) <= y
  <2> HIDE DEF V
  <2>1. \E x \in V : \A y \in V : x <= y
    BY <1>6, LeastExists
  <2> QED
    BY <1>5, <2>1
<1>8. PICK w \in Markets : Guaranteed(b) = pays(w)
  BY <1>7
<1>9. Guaranteed(b) \in Nat /\ Guaranteed(b) <= MaxShares * Cardinality(Markets)
  <2> HIDE DEF pays
  <2> QED
    BY <1>4, <1>8
<1>10. \A v \in Markets : Guaranteed(b) <= pays(v)
  BY <1>7
<1> QED
  BY <1>4, <1>8, <1>9, <1>10

\* With the same purchase a higher collateral earns more, and passes if the lower one did.
LEMMA NetGrows ==
    ASSUME NEW c \in Nat, NEW d \in Nat, NEW g \in Nat
    PROVE  /\ Net(c, g) \in Int /\ Net(d, g) \in Int /\ d * Payout * Base \in Nat
           /\ c <= d => Net(c, g) <= Net(d, g) /\ Net(c, g) <= d * Payout * Base
           /\ c < d => Net(c, g) < Net(d, g)
           /\ PassesThresholds(c, g) => Net(c, g) \in Nat
           /\ PassesThresholds(c, g) /\ c <= d => PassesThresholds(d, g)
<1> DEFINE u == Payout * Base
           k == Costs(g, Slip)
<1>1. u \in Nat /\ u > 0
  BY Constant
<1>2. k \in Nat
  <2>1. Capital(g, Slip) \in Nat
    BY Constant, CapitalIsLinear
  <2>2. Merge * Base \in Nat
    BY Constant
  <2> QED
    BY <2>1, <2>2 DEF Costs
<1>3. \A n \in Nat : n * Payout * Base = n * u
  BY Constant
<1>4. \A n \in Nat : Net(n, g) = n * u - k
  BY <1>3 DEF Net
<1>5. \A n \in Nat : PassesThresholds(n, g)
          <=> n * u - k >= Floor["profit"] /\ (n * u - k) * Base >= Floor["return"] * k
  BY <1>3 DEF PassesThresholds
<1>6. Floor["profit"] \in Nat
  BY FillAssumption DEF Measures
<1> HIDE DEF u, k
<1>7. c * u \in Nat /\ d * u \in Nat
  BY <1>1
<1>8. c <= d => c * u <= d * u
  BY <1>1
<1>9. c < d => c * u < d * u
  BY <1>1
<1> DEFINE x == c * u
           y == d * u
<1>10. Net(c, g) = x - k /\ Net(d, g) = y - k /\ d * Payout * Base = y
  BY <1>3, <1>4
<1>11. PassesThresholds(c, g) => x - k >= Floor["profit"]
  BY <1>5
<1>12. ASSUME PassesThresholds(c, g), c <= d PROVE PassesThresholds(d, g)
  <2> DEFINE r == Floor["return"] * k
  <2>1. x - k >= Floor["profit"] /\ (x - k) * Base >= r
    BY <1>5, <1>12
  <2>2. x - k <= y - k /\ x - k \in Int /\ y - k \in Int
    BY <1>2, <1>7, <1>8, <1>12
  <2>3. r \in Int
    BY <1>2, FillAssumption DEF Measures
  <2>4. (x - k) * Base <= (y - k) * Base
    <3> DEFINE v == x - k
               w == y - k
    <3>1. v \in Int /\ w \in Int /\ v <= w
      BY <2>2
    <3> HIDE DEF v, w
    <3>2. v * Base <= w * Base
      BY <3>1, Constant
    <3> QED
      BY <3>2 DEF v, w
  <2>5. (x - k) * Base \in Int /\ (y - k) * Base \in Int
    <3> HIDE DEF x, y
    <3> QED
      BY <2>2, Constant
  <2>6. y - k >= Floor["profit"] /\ (y - k) * Base >= r
    <3> DEFINE v == (x - k) * Base
               w == (y - k) * Base
    <3>1. v \in Int /\ w \in Int /\ v <= w /\ v >= r
      BY <2>1, <2>4, <2>5
    <3> HIDE DEF v, w, r, x, y
    <3>2. w >= r
      BY <2>3, <3>1
    <3>3. y - k >= Floor["profit"]
      BY <1>6, <2>1, <2>2
    <3> QED
      BY <3>2, <3>3 DEF w
  <2> QED
    BY <1>5, <2>6
<1> HIDE DEF x, y
<1>13. x \in Nat /\ y \in Nat /\ (c <= d => x <= y) /\ (c < d => x < y)
  BY <1>7, <1>8, <1>9 DEF x, y
<1> QED
  BY <1>2, <1>6, <1>10, <1>11, <1>12, <1>13

\* What is bought at a point of the program.
BoughtOf(use) == [m \in Markets |-> [yes |-> use[m].yes, no |-> use[m].no]]

\* A point uses no more of a NO than it buys.
LEMMA UsesAre ==
    ASSUME NEW use \in [Markets -> Uses], NEW m \in Markets
    PROVE  /\ use[m].yes \in 0 .. MaxShares /\ use[m].no \in 0 .. MaxShares
           /\ use[m].yes \in Nat /\ use[m].no \in Nat
           /\ use[m].convert \in Nat /\ use[m].merge \in Nat
           /\ use[m].convert + use[m].merge <= use[m].no
<1>1. use[m] \in Uses
  OBVIOUS
<1>2. /\ use[m].yes \in 0 .. MaxShares /\ use[m].no \in 0 .. MaxShares
      /\ use[m].convert \in 0 .. MaxShares /\ use[m].merge \in 0 .. MaxShares
      /\ use[m].convert + use[m].merge <= use[m].no
  BY <1>1 DEF Uses
<1> QED
  BY <1>2, SharesBounded

\* What a point buys is a purchase, as far on offer and for the same price.
LEMMA BoughtIsUsed ==
    ASSUME NEW books \in Events, NEW use \in [Markets -> Uses], OnOffer(books, use)
    PROVE  /\ BoughtOf(use) \in Purchases /\ OnOffer(books, BoughtOf(use))
           /\ GroupGross(books, use) \in Nat
           /\ GroupGross(books, BoughtOf(use)) = GroupGross(books, use)
<1> DEFINE b == BoughtOf(use)
           f == [m \in Markets |-> FillCost(books[m]["yes"], use[m].yes)
                                     + FillCost(books[m]["no"], use[m].no)]
           g == [m \in Markets |-> FillCost(books[m]["yes"], b[m].yes)
                                     + FillCost(books[m]["no"], b[m].no)]
<1>1. \A m \in Markets : b[m].yes = use[m].yes /\ b[m].no = use[m].no
  BY DEF BoughtOf
<1>2. b \in Purchases
  <2>1. ASSUME NEW m \in Markets
        PROVE  [yes |-> use[m].yes, no |-> use[m].no]
                   \in [yes : 0 .. MaxShares, no : 0 .. MaxShares]
    BY UsesAre
  <2> QED
    BY <2>1 DEF BoughtOf, Purchases
<1>3. OnOffer(books, b)
  BY <1>1 DEF OnOffer
<1>4. GroupGross(books, use) = SumFunctionOnSet(f, Markets)
      /\ GroupGross(books, b) = SumFunctionOnSet(g, Markets)
  BY DEF GroupGross
<1> HIDE DEF b
<1>5. \A m \in Markets : f[m] = g[m]
  BY <1>1
<1> HIDE DEF f, g
<1>6. GroupGross(books, b) = GroupGross(books, use)
  BY <1>4, <1>5, EventsAre, SumSame
<1>7. GroupGross(books, use) \in Nat
  BY UsesAre, GroupGrossType
<1> QED
  BY <1>2, <1>3, <1>6, <1>7 DEF b

\* What conversions, merges and redemptions bring is no more than the shares bought pay,
\* whoever wins: a NO that is converted or merged no longer pays by itself.
LEMMA CollateralIsCovered ==
    ASSUME NEW use \in [Markets -> Uses], NEW redeem \in Redemptions,
           \A m \in Markets : use[m].merge + redeem <= YesAtHand(use, m)
    PROVE  /\ Collateral(use, redeem) \in Nat
           /\ Collateral(use, redeem) <= Guaranteed(BoughtOf(use))
<1> DEFINE b == BoughtOf(use)
           convert == [m \in Markets |-> use[m].convert]
           merge == [m \in Markets |-> use[m].merge]
           both == [m \in Markets |-> use[m].convert + use[m].merge]
           no == [m \in Markets |-> b[m].no]
<1>1. b \in Purchases
  <2>1. ASSUME NEW m \in Markets
        PROVE  [yes |-> use[m].yes, no |-> use[m].no]
                   \in [yes : 0 .. MaxShares, no : 0 .. MaxShares]
    BY UsesAre
  <2> QED
    BY <2>1 DEF BoughtOf, Purchases
<1>2. PICK w \in Markets : Guaranteed(b) = b[w].yes + HeldNo(b, Markets \ {w})
  BY <1>1, GuaranteedIs
<1> DEFINE R == Markets \ {w}
<1>3. \A m \in Markets : b[m].yes = use[m].yes /\ b[m].no = use[m].no
  BY DEF BoughtOf
<1> HIDE DEF b
<1>4. redeem \in Nat
  BY EventsAre, SharesBounded DEF Redemptions
<1>5. R \in SUBSET Markets /\ IsFiniteSet(R) /\ IsFiniteSet(Markets)
  BY EventsAre, FS_Subset
<1>6. ASSUME NEW m \in Markets
      PROVE  /\ convert[m] \in Nat /\ merge[m] \in Nat /\ both[m] \in Nat /\ no[m] \in Nat
             /\ both[m] = convert[m] + merge[m] /\ both[m] <= no[m]
  <2> DEFINE c == use[m].convert
             g == use[m].merge
             n == use[m].no
  <2>1. c \in Nat /\ g \in Nat /\ n \in Nat /\ c + g <= n
    BY UsesAre
  <2>2. convert[m] = c /\ merge[m] = g /\ both[m] = c + g /\ no[m] = n
    BY <1>3
  <2> HIDE DEF c, g, n
  <2> QED
    BY <2>1, <2>2
<1>7. /\ Converted(use, R) = SumFunctionOnSet(convert, R)
      /\ Merged(use, R) = SumFunctionOnSet(merge, R)
      /\ Merged(use, Markets) = SumFunctionOnSet(merge, Markets)
      /\ HeldNo(b, R) = SumFunctionOnSet(no, R)
  BY DEF Converted, Merged, HeldNo
<1>8. merge[w] = use[w].merge
  OBVIOUS
<1> HIDE DEF convert, merge, both, no
<1>9. Merged(use, Markets) = merge[w] + Merged(use, R)
  <2>1. Markets \in SUBSET Markets
    OBVIOUS
  <2>2. \A m \in Markets : merge[m] \in Int
    BY <1>6
  <2> QED
    BY <1>5, <1>7, <2>1, <2>2, SumWithout
<1>10. Converted(use, R) + Merged(use, R) <= HeldNo(b, R)
  <2>1. SumFunctionOnSet(both, R) = SumFunctionOnSet(convert, R) + SumFunctionOnSet(merge, R)
    <3>1. \A m \in R : convert[m] \in Int /\ merge[m] \in Int /\ both[m] = convert[m] + merge[m]
      BY <1>6
    <3> QED
      BY <1>5, <3>1, SumOfBoth
  <2>2. SumFunctionOnSet(both, R) <= SumFunctionOnSet(no, R)
    <3>1. \A m \in R : both[m] \in Int /\ no[m] \in Int /\ both[m] <= no[m]
      BY <1>6
    <3> QED
      BY <1>5, <3>1, SumGrows
  <2> QED
    BY <1>7, <2>1, <2>2
<1>11. /\ Converted(use, R) \in Nat /\ Merged(use, R) \in Nat /\ HeldNo(b, R) \in Nat
       /\ merge[w] \in Nat
  BY <1>5, <1>6, <1>7, MarketSums
<1>12. merge[w] + redeem <= use[w].yes + Converted(use, R)
  BY <1>8 DEF YesAtHand
<1>13. Collateral(use, redeem) = redeem + (merge[w] + Merged(use, R))
  BY <1>9 DEF Collateral
<1>14. Guaranteed(b) = use[w].yes + HeldNo(b, R) /\ use[w].yes \in Nat
  BY <1>2, <1>3, UsesAre
<1> DEFINE c == Converted(use, R)
           g == Merged(use, R)
           h == HeldNo(b, R)
           y == use[w].yes
<1> HIDE DEF c, g, h, y, R
<1>15. redeem + (merge[w] + g) \in Nat /\ redeem + (merge[w] + g) <= y + h
  BY <1>4, <1>10, <1>11, <1>12, <1>14 DEF c, g, h, y
<1> QED
  BY <1>13, <1>14, <1>15 DEF b, g, h, y

\* A purchase worth buying is a point: all of its NO converted, and as many complete sets
\* redeemed as the worst outcome pays.
LEMMA PurchaseIsPoint ==
    ASSUME NEW books \in Events, NEW capital \in Capitals, NEW b \in WorthBuying(books, capital)
    PROVE  \E x \in Feasible(books, capital) :
               /\ Collateral(x.use, x.redeem) = Guaranteed(b)
               /\ GroupGross(books, x.use) = GroupGross(books, b)
<1> DEFINE use == [m \in Markets |-> [yes |-> b[m].yes, no |-> b[m].no,
                                      convert |-> b[m].no, merge |-> 0]]
           redeem == Guaranteed(b)
           x == [use |-> use, redeem |-> redeem]
           bought == BoughtOf(use)
<1>1. /\ b \in Purchases /\ OnOffer(books, b)
      /\ WithinCapital(GroupGross(books, b), capital)
      /\ PassesThresholds(Guaranteed(b), GroupGross(books, b))
  BY DEF WorthBuying
<1>2. ASSUME NEW m \in Markets
      PROVE  b[m].yes \in 0 .. MaxShares /\ b[m].no \in 0 .. MaxShares
  BY <1>1 DEF Purchases
<1>3. ASSUME NEW m \in Markets
      PROVE  /\ use[m].yes = b[m].yes /\ use[m].no = b[m].no
             /\ use[m].convert = b[m].no /\ use[m].merge = 0
  OBVIOUS
<1>4. use \in [Markets -> Uses]
  <2>1. ASSUME NEW m \in Markets
        PROVE  [yes |-> b[m].yes, no |-> b[m].no, convert |-> b[m].no, merge |-> 0] \in Uses
    <3>1. 0 \in 0 .. MaxShares /\ b[m].no + 0 <= b[m].no
      BY <1>2, SharesBounded
    <3> QED
      BY <1>2, <3>1 DEF Uses
  <2> QED
    BY <2>1
<1> HIDE DEF use
<1>5. OnOffer(books, use)
  BY <1>1, <1>3 DEF OnOffer
<1>6. GroupGross(books, use) = GroupGross(books, b)
  <2> DEFINE f == [m \in Markets |-> FillCost(books[m]["yes"], use[m].yes)
                                       + FillCost(books[m]["no"], use[m].no)]
             g == [m \in Markets |-> FillCost(books[m]["yes"], b[m].yes)
                                       + FillCost(books[m]["no"], b[m].no)]
  <2>1. GroupGross(books, use) = SumFunctionOnSet(f, Markets)
        /\ GroupGross(books, b) = SumFunctionOnSet(g, Markets)
    BY DEF GroupGross
  <2>2. \A m \in Markets : f[m] = g[m]
    BY <1>3
  <2> HIDE DEF f, g
  <2> QED
    BY <2>1, <2>2, EventsAre, SumSame
<1>7. Collateral(use, redeem) = redeem
  <2> DEFINE f == [m \in Markets |-> use[m].merge]
  <2>1. Merged(use, Markets) = SumFunctionOnSet(f, Markets)
    BY DEF Merged
  <2>2. \A m \in Markets : f[m] = 0
    BY <1>3
  <2> HIDE DEF f
  <2>3. Merged(use, Markets) = 0
    BY <2>1, <2>2, EventsAre, SumZero
  <2>4. redeem \in Nat
    BY <1>1, GuaranteedIs
  <2> HIDE DEF redeem
  <2> QED
    BY <2>3, <2>4 DEF Collateral
<1>8. redeem \in Redemptions
  <2>1. redeem \in Nat /\ redeem <= MaxShares * Cardinality(Markets)
    BY <1>1, GuaranteedIs
  <2>2. MaxShares * Cardinality(Markets) \in Nat
    BY SharesBounded, EventsAre
  <2> HIDE DEF redeem
  <2> QED
    BY <2>1, <2>2 DEF Redemptions
<1>9. ASSUME NEW m \in Markets PROVE use[m].merge + redeem <= YesAtHand(use, m)
  <2> DEFINE R == Markets \ {m}
             f == [n \in Markets |-> use[n].convert]
             g == [n \in Markets |-> b[n].no]
  <2>1. R \in SUBSET Markets /\ IsFiniteSet(R)
    BY EventsAre, FS_Subset
  <2>2. Converted(use, R) = SumFunctionOnSet(f, R) /\ HeldNo(b, R) = SumFunctionOnSet(g, R)
    BY DEF Converted, HeldNo
  <2>3. \A n \in Markets : f[n] = g[n]
    BY <1>3
  <2> HIDE DEF f, g
  <2>4. Converted(use, R) = HeldNo(b, R)
    BY <2>1, <2>2, <2>3, SumSame
  <2>5. redeem \in Nat /\ redeem <= b[m].yes + HeldNo(b, R)
    BY <1>1, GuaranteedIs
  <2>6. YesAtHand(use, m) = b[m].yes + HeldNo(b, R)
    BY <1>3, <2>4 DEF YesAtHand
  <2> HIDE DEF redeem, R
  <2> QED
    BY <1>3, <2>5, <2>6
<1>10. x \in Feasible(books, capital)
  <2> HIDE DEF redeem
  <2>1. /\ use \in {u \in [Markets -> Uses] : /\ OnOffer(books, u)
                                              /\ WithinCapital(GroupGross(books, u), capital)}
        /\ redeem \in Redemptions
    BY <1>1, <1>4, <1>5, <1>6, <1>8
  <2>2. x.use = use /\ x.redeem = redeem
    OBVIOUS
  <2>3. PassesThresholds(Collateral(x.use, x.redeem), GroupGross(books, x.use))
    BY <1>1, <1>6, <1>7, <2>2 DEF redeem
  <2>4. \A m \in Markets : x.use[m].merge + x.redeem <= YesAtHand(x.use, m)
    BY <1>9, <2>2
  <2> QED
    BY <2>1, <2>3, <2>4 DEF Feasible
<1>11. x.use = use /\ x.redeem = redeem
  OBVIOUS
<1> HIDE DEF x, redeem
<1> QED
  BY <1>6, <1>7, <1>10, <1>11 DEF redeem

\* What a point of the program claims is worth no more than what its purchase pays, which is
\* worth buying.
LEMMA PointIsPurchase ==
    ASSUME NEW books \in Events, NEW capital \in Capitals, NEW x \in Feasible(books, capital)
    PROVE  LET b == BoughtOf(x.use)
               c == Collateral(x.use, x.redeem)
               g == GroupGross(books, x.use)
           IN  /\ b \in WorthBuying(books, capital) /\ GroupGross(books, b) = g
               /\ c \in Nat /\ g \in Nat /\ Guaranteed(b) \in Nat /\ c <= Guaranteed(b)
               /\ Guaranteed(b) <= MaxShares * Cardinality(Markets)
               /\ Net(c, g) \in Nat
<1> DEFINE b == BoughtOf(x.use)
           c == Collateral(x.use, x.redeem)
           g == GroupGross(books, x.use)
<1>1. /\ x.use \in [Markets -> Uses] /\ x.redeem \in Redemptions /\ OnOffer(books, x.use)
      /\ WithinCapital(g, capital) /\ PassesThresholds(c, g)
      /\ \A m \in Markets : x.use[m].merge + x.redeem <= YesAtHand(x.use, m)
  BY DEF Feasible
<1>2. /\ b \in Purchases /\ OnOffer(books, b) /\ g \in Nat /\ GroupGross(books, b) = g
  BY <1>1, BoughtIsUsed
<1>3. c \in Nat /\ c <= Guaranteed(b)
  BY <1>1, CollateralIsCovered
<1>4. Guaranteed(b) \in Nat /\ Guaranteed(b) <= MaxShares * Cardinality(Markets)
  BY <1>2, GuaranteedIs
<1>5. PassesThresholds(Guaranteed(b), g) /\ Net(c, g) \in Nat
  <2> HIDE DEF b, c, g
  <2> QED
    BY <1>1, <1>2, <1>3, <1>4, NetGrows
<1>6. b \in WorthBuying(books, capital)
  <2> HIDE DEF b, c, g
  <2> QED
    BY <1>1, <1>2, <1>5 DEF WorthBuying
<1> HIDE DEF b, c, g
<1> QED
  BY <1>2, <1>3, <1>4, <1>5, <1>6 DEF b, c, g

\* The points as decisions, and what they earn.
EnterAt(books, x) ==
    [fate |-> "enter", bought |-> BoughtOf(x.use), gross |-> GroupGross(books, x.use),
     collateral |-> Collateral(x.use, x.redeem)]
Points(books, capital) == {EnterAt(books, x) : x \in Feasible(books, capital)}
Earned(points) == {Net(x.collateral, x.gross) : x \in points}

\* A best point earns as much as any other and is no number short of its worst outcome.
LEMMA BestPointIs ==
    ASSUME NEW books \in Events, NEW capital \in Capitals,
           NEW d \in Points(books, capital),
           Net(d.collateral, d.gross) = Max(Earned(Points(books, capital)))
    PROVE  /\ d.bought \in WorthBuying(books, capital)
           /\ d.collateral = Guaranteed(d.bought) /\ d.collateral \in Nat /\ d.gross \in Nat
           /\ \A b \in WorthBuying(books, capital) :
                  Net(Guaranteed(b), GroupGross(books, b)) <= Net(d.collateral, d.gross)
<1> DEFINE P == Points(books, capital)
           F == Feasible(books, capital)
           nets == Earned(P)
           n == MaxShares * Cardinality(Markets)
           top == n * Payout * Base
<1>1. ASSUME NEW x \in F
      PROVE  /\ EnterAt(books, x) \in P
             /\ EnterAt(books, x).collateral = Collateral(x.use, x.redeem)
             /\ EnterAt(books, x).gross = GroupGross(books, x.use)
             /\ EnterAt(books, x).bought = BoughtOf(x.use)
  BY DEF Points, EnterAt
<1>2. n \in Nat
  BY SharesBounded, EventsAre
<1>3. top \in Nat
  <2> HIDE DEF n
  <2> QED
    BY <1>2, Constant
<1>4. ASSUME NEW x \in F
      PROVE  /\ Net(Collateral(x.use, x.redeem), GroupGross(books, x.use)) \in Nat
             /\ Net(Collateral(x.use, x.redeem), GroupGross(books, x.use)) <= top
  <2> DEFINE c == Collateral(x.use, x.redeem)
             g == GroupGross(books, x.use)
             s == Guaranteed(BoughtOf(x.use))
  <2>1. c \in Nat /\ g \in Nat /\ s \in Nat /\ c <= s /\ s <= n /\ Net(c, g) \in Nat
    BY PointIsPurchase
  <2> HIDE DEF c, g, s, n
  <2>2. c <= n
    BY <1>2, <2>1
  <2>3. Net(c, g) <= n * Payout * Base
    BY <1>2, <2>1, <2>2, NetGrows
  <2> QED
    BY <2>1, <2>3 DEF c, g
<1>5. \A p \in P : \E x \in F : p = EnterAt(books, x)
  BY DEF Points
<1>6. PICK x \in F : d = EnterAt(books, x)
  BY <1>5
<1> DEFINE c == Collateral(x.use, x.redeem)
           g == GroupGross(books, x.use)
           b == BoughtOf(x.use)
<1>7. d.collateral = c /\ d.gross = g /\ d.bought = b
  BY <1>1, <1>6
<1>8. nets \in SUBSET Nat /\ nets # {} /\ \A v \in nets : v <= top
  <2>1. ASSUME NEW p \in P
        PROVE  Net(p.collateral, p.gross) \in Nat /\ Net(p.collateral, p.gross) <= top
    <3>1. PICK y \in F : p = EnterAt(books, y)
      BY <1>5
    <3>2. p.collateral = Collateral(y.use, y.redeem) /\ p.gross = GroupGross(books, y.use)
      BY <1>1, <3>1
    <3> QED
      BY <1>4, <3>2
  <2> HIDE DEF P, top
  <2>2. d \in P
    BY DEF P
  <2> QED
    BY <2>1, <2>2 DEF Earned
<1>9. \A v \in nets : v <= Net(d.collateral, d.gross)
  <2>1. Net(d.collateral, d.gross) = CHOOSE v \in nets : \A w \in nets : v >= w
    BY DEF Max
  <2> HIDE DEF nets, top
  <2>2. PICK v \in nets : \A w \in nets : w <= v
    BY <1>3, <1>8, LargestExists
  <2>3. \A w \in nets : v >= w
    BY <1>8, <2>2
  <2>4. Net(d.collateral, d.gross) \in nets
        /\ \A w \in nets : Net(d.collateral, d.gross) >= w
    BY <2>1, <2>3
  <2> QED
    BY <1>8, <2>4
<1>10. ASSUME NEW a \in WorthBuying(books, capital)
       PROVE  Net(Guaranteed(a), GroupGross(books, a)) <= Net(d.collateral, d.gross)
  <2>1. PICK y \in F : /\ Collateral(y.use, y.redeem) = Guaranteed(a)
                       /\ GroupGross(books, y.use) = GroupGross(books, a)
    BY PurchaseIsPoint
  <2> DEFINE p == EnterAt(books, y)
  <2>2. p \in P /\ p.collateral = Guaranteed(a) /\ p.gross = GroupGross(books, a)
    BY <1>1, <2>1
  <2> HIDE DEF p
  <2>3. Net(p.collateral, p.gross) \in nets
    BY <2>2 DEF Earned
  <2> QED
    BY <1>9, <2>2, <2>3
<1>11. /\ b \in WorthBuying(books, capital) /\ GroupGross(books, b) = g
       /\ c \in Nat /\ g \in Nat /\ Guaranteed(b) \in Nat /\ c <= Guaranteed(b)
  BY PointIsPurchase
<1>12. c = Guaranteed(b)
  <2>1. Net(Guaranteed(b), g) <= Net(c, g)
    BY <1>7, <1>10, <1>11
  <2> HIDE DEF b, c, g
  <2>2. ~(c < Guaranteed(b))
    <3>1. SUFFICES ASSUME c < Guaranteed(b) PROVE FALSE
      OBVIOUS
    <3>2. Net(c, g) < Net(Guaranteed(b), g)
          /\ Net(c, g) \in Int /\ Net(Guaranteed(b), g) \in Int
      BY <1>11, <3>1, NetGrows
    <3> QED
      BY <2>1, <3>2
  <2> QED
    BY <1>11, <2>2
<1> HIDE DEF b, c, g
<1> QED
  BY <1>7, <1>10, <1>11, <1>12

\* A purchase that redeems nothing in its worst outcome earns nothing.
LEMMA NothingForNothing ==
    ASSUME NEW g \in Nat
    PROVE  Net(0, g) <= 0
<1>1. Capital(g, Slip) \in Nat
  BY Constant, CapitalIsLinear
<1>2. Merge * Base \in Nat
  BY Constant
<1>3. Costs(g, Slip) \in Nat
  BY <1>1, <1>2 DEF Costs
<1>4. 0 * Payout * Base = 0
  BY Constant
<1> HIDE DEF Costs
<1>5. Net(0, g) = 0 - Costs(g, Slip)
  BY <1>4 DEF Net
<1> QED
  BY <1>3, <1>5

\* What a decision on an event says of it.
GroupSound(books, capital, d) ==
    LET worth == WorthBuying(books, capital)
    IN  IF d = Skip
        THEN \A b \in worth : Net(Guaranteed(b), GroupGross(books, b)) <= 0
        ELSE /\ d.collateral = Guaranteed(d.bought)
             /\ d.bought \in worth
             /\ \A b \in worth : Net(Guaranteed(b), GroupGross(books, b))
                                   <= Net(d.collateral, d.gross)

\* Every decision the program comes to is sound.
LEMMA DecisionsAreSound ==
    ASSUME NEW books \in Events, NEW capital \in Capitals,
           NEW d \in GroupDecisions(books, capital)
    PROVE  GroupSound(books, capital, d)
<1> DEFINE P == Points(books, capital)
           worth == WorthBuying(books, capital)
<1>1. GroupDecisions(books, capital) =
          IF P = {} THEN {Skip}
          ELSE {IF x.collateral = 0 THEN Skip ELSE x :
                    x \in {y \in P : Net(y.collateral, y.gross) = Max(Earned(P))}}
  BY DEF GroupDecisions, Points, EnterAt, BoughtOf, Earned
<1>2. CASE P = {}
  <2>1. d = Skip
    BY <1>1, <1>2
  <2>2. worth = {}
    <3>1. SUFFICES ASSUME NEW b \in worth PROVE FALSE
      OBVIOUS
    <3>2. PICK x \in Feasible(books, capital) : Collateral(x.use, x.redeem) = Guaranteed(b)
      BY PurchaseIsPoint
    <3> QED
      BY <1>2, <3>2 DEF Points
  <2> QED
    BY <2>1, <2>2 DEF GroupSound
<1>3. CASE P # {}
  <2>1. PICK x \in P : /\ Net(x.collateral, x.gross) = Max(Earned(P))
                       /\ d = IF x.collateral = 0 THEN Skip ELSE x
    <3> HIDE DEF P
    <3> QED
      BY <1>1, <1>3
  <2>2. /\ x.bought \in worth /\ x.collateral = Guaranteed(x.bought)
        /\ x.collateral \in Nat /\ x.gross \in Nat
        /\ \A b \in worth :
               Net(Guaranteed(b), GroupGross(books, b)) <= Net(x.collateral, x.gross)
    BY <2>1, BestPointIs
  <2>3. x # Skip
    <3>1. PICK p \in Feasible(books, capital) : x = EnterAt(books, p)
      BY DEF Points
    <3>2. x.fate = "enter"
      BY <3>1 DEF EnterAt
    <3> QED
      BY <3>2 DEF Skip
  <2>4. CASE x.collateral = 0
    <3>1. d = Skip
      BY <2>1, <2>4
    <3>2. ASSUME NEW b \in worth PROVE Net(Guaranteed(b), GroupGross(books, b)) <= 0
      <4>1. Net(x.collateral, x.gross) <= 0 /\ Net(x.collateral, x.gross) \in Int
        BY <2>2, <2>4, NothingForNothing, NetGrows
      <4>2. Net(Guaranteed(b), GroupGross(books, b)) <= Net(x.collateral, x.gross)
        BY <2>2
      <4>3. Net(Guaranteed(b), GroupGross(books, b)) \in Int
        <5>1. b \in Purchases /\ OnOffer(books, b)
          BY DEF WorthBuying
        <5>2. Guaranteed(b) \in Nat
          BY <5>1, GuaranteedIs
        <5>3. \A m \in Markets : b[m].yes \in Nat /\ b[m].no \in Nat
          <6>1. ASSUME NEW m \in Markets PROVE b[m].yes \in Nat /\ b[m].no \in Nat
            <7>1. b[m].yes \in 0 .. MaxShares /\ b[m].no \in 0 .. MaxShares
              BY <5>1 DEF Purchases
            <7> QED
              BY <7>1, SharesBounded
          <6> QED
            BY <6>1
        <5>4. GroupGross(books, b) \in Nat
          BY <5>1, <5>3, GroupGrossType
        <5> QED
          BY <5>2, <5>4, NetGrows
      <4> DEFINE u == Net(x.collateral, x.gross)
                 v == Net(Guaranteed(b), GroupGross(books, b))
      <4> HIDE DEF u, v
      <4> QED
        BY <4>1, <4>2, <4>3 DEF u, v
    <3> HIDE DEF worth
    <3> QED
      BY <3>1, <3>2 DEF GroupSound, worth
  <2>5. CASE x.collateral # 0
    <3>1. d = x
      BY <2>1, <2>5
    <3> QED
      BY <2>2, <2>3, <3>1 DEF GroupSound
  <2> QED
    BY <2>4, <2>5
<1> QED
  BY <1>2, <1>3

\* An event is of the kind Events lists, and nothing changes it.
EventType ==
    event # NoEvent =>
        /\ event.books \in Events /\ event.capital \in Capitals /\ event.fit \in BOOLEAN

\* A decision is on an event.
DecisionOnEvent == decision # NoDecision => event # NoEvent

GroupInv == EventType /\ DecisionOnEvent /\ GroupPaysWhoeverWins

\* GroupPaysWhoeverWins is GroupSound of the decision made.
LEMMA GroupPays ==
    GroupPaysWhoeverWins <=>
        ((decision # NoDecision /\ event.fit) =>
            GroupSound(event.books, event.capital, decision))
  BY DEF GroupPaysWhoeverWins, GroupSound

\* An opportunity on an event is an arbitrage: what it claims is what the bought shares pay
\* in the worst outcome, no purchase within the capital promises more, and an event is
\* skipped only if no purchase earns anything (evaluate_neg_risk_event_group).
THEOREM GroupIsArbitrage == StrategySpec => []GroupPaysWhoeverWins
<1>1. StrategyInit => GroupInv
  <2> SUFFICES ASSUME StrategyInit PROVE GroupInv
    OBVIOUS
  <2>1. decision = NoDecision
    BY DEF StrategyInit
  <2>2. EventType
    <3>1. CASE EventInit
      BY <3>1 DEF EventInit, EventType
    <3>2. CASE event = NoEvent
      BY <3>2 DEF EventType
    <3> QED
      BY <3>1, <3>2 DEF StrategyInit
  <2> QED
    BY <2>1, <2>2 DEF GroupInv, DecisionOnEvent, GroupPaysWhoeverWins
<1>2. GroupInv /\ [StrategyNext]_allVars => GroupInv'
  <2> SUFFICES ASSUME GroupInv, [StrategyNext]_allVars PROVE GroupInv'
    OBVIOUS
  <2>1. ASSUME UNCHANGED strategyVars PROVE GroupInv'
    BY <2>1 DEF strategyVars, GroupInv, EventType, DecisionOnEvent, GroupPaysWhoeverWins
  <2>2. CASE Decide
    <3>1. /\ event # NoEvent /\ event' = event
          /\ decision' \in IF event.fit THEN GroupDecisions(event.books, event.capital)
                           ELSE {Skip}
      BY <2>2 DEF Decide
    <3>2. EventType' /\ DecisionOnEvent'
      BY <3>1 DEF GroupInv, EventType, DecisionOnEvent
    <3>3. ASSUME event.fit PROVE GroupSound(event.books, event.capital, decision')
      <4>1. event.books \in Events /\ event.capital \in Capitals
        BY <3>1 DEF GroupInv, EventType
      <4>2. decision' \in GroupDecisions(event.books, event.capital)
        BY <3>1, <3>3
      <4> QED
        BY <4>1, <4>2, DecisionsAreSound
    <3>4. GroupPaysWhoeverWins'
      <4>1. (decision' # NoDecision /\ event'.fit) =>
                GroupSound(event'.books, event'.capital, decision')
        BY <3>1, <3>3
      <4> QED
        BY <4>1 DEF GroupPaysWhoeverWins, GroupSound
    <3> QED
      BY <3>2, <3>4 DEF GroupInv
  <2>3. CASE event = NoEvent /\ Next /\ UNCHANGED strategyVars
    BY <2>1, <2>3
  <2>4. CASE Decided
    BY <2>1, <2>4 DEF Decided, allVars, strategyVars
  <2>5. CASE UNCHANGED allVars
    BY <2>1, <2>5 DEF allVars, strategyVars
  <2> QED
    BY <2>2, <2>3, <2>4, <2>5 DEF StrategyNext
<1>3. GroupInv => GroupPaysWhoeverWins
  BY DEF GroupInv
<1> QED
  BY <1>1, <1>2, <1>3, PTL DEF StrategySpec

=============================================================================
