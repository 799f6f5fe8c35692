--------------------------- MODULE PairedTranches ---------------------------
(***************************************************************************)
(* The arithmetic of paper.py on two ask books: how many YES+NO pairs a      *)
(* budget buys, what they cost, and how many shares of one leg were on offer  *)
(* at the prices they were planned at.  Shares are integers; amounts of money *)
(* with a rate in them are multiplied by Base, so that nothing is rounded.    *)
(***************************************************************************)
EXTENDS Integers, Sequences, FiniteSets

CONSTANTS
    Prices,    \* the prices a book may list
    Payout,    \* what one redeemed pair pays
    Base,      \* rates and ratios are given in parts of Base
    Slip,      \* slippage_buffer_bps
    Fee,       \* taker_fee and tax together
    Merge,     \* merge_cost_usd
    Ceiling,   \* trade_ceiling_usd
    Reserve    \* min_cash_reserve_usd

ASSUME ArithmeticAssumption ==
    /\ Prices \subseteq 1..(Payout - 1) /\ Prices # {}
    /\ {Payout, Base} \subseteq Nat \ {0}
    /\ {Slip, Fee, Merge, Ceiling, Reserve} \subseteq Nat

MinOf(a, b) == IF a <= b THEN a ELSE b
MaxOf(a, b) == IF a >= b THEN a ELSE b

\* An ask book is the sequence of the prices of its shares, cheapest first; a level is
\* a run of equal prices.
Legs == {"yes", "no"}
Books == {b \in Seq(Prices) : \A k \in 2..Len(b) : b[k - 1] <= b[k]}
LevelSize(b, p) == Cardinality({k \in DOMAIN b : b[k] = p})

\* The shares of b at the places in K.
Among(b, K) ==
    [n \in 1..Cardinality(K) |-> b[CHOOSE k \in K : Cardinality({j \in K : j <= k}) = n]]

\* The cost of the q cheapest shares, level by level.
FillCost(b, q) ==
    LET Sum[k \in 0..Len(b)] == IF k = 0 THEN 0 ELSE Sum[k - 1] + b[k]
    IN  Sum[q]

Capital(gross, slip) == gross * (Base + slip + Fee)

SpendLimit(cash) == MinOf(MaxOf(0, cash - Reserve), Ceiling) * Base

\* Mutant: the edge before slippage and fees.
GrossEdge(price) == price < Payout

\* A further pair at this price pays for itself.
Edge(price) == Capital(price, Slip) < Payout * Base

-----------------------------------------------------------------------------
(* A tranche after w, the quantity and cost of those before it *)

Pairs(book) == MinOf(Len(book["yes"]), Len(book["no"]))
PairPrice(book, k) == book["yes"][k] + book["no"][k]

\* What is left of the level of the k-th share, from this share on.
LevelFrom(b, k) == Cardinality({j \in k..Len(b) : b[j] = b[k]})
Depth(book, w) == MinOf(LevelFrom(book["yes"], w.qty + 1), LevelFrom(book["no"], w.qty + 1))

Buys(book, limit, w) ==
    (limit - Capital(w.gross, Slip)) \div Capital(PairPrice(book, w.qty + 1), Slip)

Taken(book, w, step) ==
    [qty |-> w.qty + step, gross |-> w.gross + step * PairPrice(book, w.qty + 1)]

\* The loop over the levels of both books: a tranche takes as much as both best levels have,
\* the budget still buys and the target still wants; a level that is used up gives way to
\* the next one, and a tranche that leaves something of both is the last.
SimulatePairedTranches(book, cash, target) ==
    LET limit == SpendLimit(cash) - Merge * Base
        Walk[w \in [qty : 0..Pairs(book), gross : Nat]] ==
            IF w.qty = Pairs(book) \/ ~Edge(PairPrice(book, w.qty + 1)) THEN w
            ELSE LET step == MinOf(Depth(book, w), MinOf(target - w.qty, Buys(book, limit, w)))
                 IN  IF step <= 0 THEN w
                     ELSE IF step < Depth(book, w) THEN Taken(book, w, step)
                     ELSE Walk[Taken(book, w, step)]
    IN  Walk[[qty |-> 0, gross |-> 0]]

-----------------------------------------------------------------------------
(* Support *)

\* Mutant: a share offered at the planned price does not count.
SupportedQuantityBelow(b, plan, target) ==
    CHOOSE q \in 0..MinOf(target, Len(b)) :
        /\ \A k \in 1..q : b[k] < plan[k]
        /\ q < MinOf(target, Len(b)) => b[q + 1] >= plan[q + 1]

\* How many of the planned shares were on offer: the k-th costs no more than it was
\* planned at, tranche by tranche, and the first that does ends the count.
SupportedQuantity(b, plan, target) ==
    CHOOSE q \in 0..MinOf(target, Len(b)) :
        /\ \A k \in 1..q : b[k] <= plan[k]
        /\ q < MinOf(target, Len(b)) => b[q + 1] > plan[q + 1]

\* Shares added to a book take their places by price: the k-th costs the least price that
\* k shares do not exceed.
WithSupport(b, added) ==
    LET all     == b \o added
        Upto(p) == Cardinality({k \in DOMAIN all : all[k] <= p})
    IN  [k \in DOMAIN all |->
             CHOOSE p \in Prices : k <= Upto(p) /\ \A q \in Prices : k <= Upto(q) => p <= q]

\* depth_ratio of the queue: of every level the first shares are left.
ScaleDepth(b, ratio) ==
    Among(b, {k \in DOMAIN b :
                  Cardinality({j \in 1..k : b[j] = b[k]}) * Base <= LevelSize(b, b[k]) * ratio})

\* The adverse move: prices rise to the next listed one, the dearest standing for
\* 0.999999, and part of the depth goes.
Dearer(p, move) ==
    CHOOSE r \in Prices :
        \/ /\ r * Base >= p * (Base + move)
           /\ \A s \in Prices : s < r => s * Base < p * (Base + move)
        \/ \A s \in Prices : s <= r /\ s * Base < p * (Base + move)

AdverseAdjust(b, removal, move) ==
    LET left == ScaleDepth(b, Base - removal)
    IN  [k \in DOMAIN left |-> Dearer(left[k], move)]
=============================================================================
