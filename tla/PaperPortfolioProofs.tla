----------------------- MODULE PaperPortfolioProofs -----------------------
(***************************************************************************)
(* What holds of the paper portfolio for every set of markets, plans, saved *)
(* files and simulation settings: first its type, and how memory, the file  *)
(* and the log relate; then what no sequence of steps, settlements,         *)
(* inventory buys, crashes and restarts does to the file: record an         *)
(* execution twice or not at all, trade one fingerprint twice, settle a     *)
(* token twice, or fill a step that its cash does not allow.                *)
(*                                                                         *)
(* The second part argues about the file alone: memory is what the file     *)
(* holds (MemoryAlwaysDurable), so that every handler turns what is on file *)
(* into the next book, or leaves it alone (FileSteps).                      *)
(***************************************************************************)
EXTENDS PaperPortfolio, TLAPS

-----------------------------------------------------------------------------
(* The operators on books keep the type, and what each of them leaves alone *)

\* A share of a row's cost basis is never more than the row carries: the max(0.0, ...)
\* clamps of _redeem_completed_pairs_with_cost_from_state never hide a loss.
LEMMA DivBound ==
  ASSUME NEW c \in Nat, NEW q \in Nat, NEW n \in Nat \ {0}, q <= n
  PROVE  (c * q) \div n \in 0 .. c
<1> DEFINE r == (c * q) \div n
<1>0. c * q \in Nat
  OBVIOUS
<1>1. r \in Nat /\ n * r <= c * q
  BY <1>0
<1>2. c * q <= c * n
  OBVIOUS
<1>3. n * r <= n * c
  BY <1>1, <1>2
<1>4. r <= c
  <2>1. SUFFICES ASSUME r >= c + 1 PROVE FALSE
    BY <1>1
  <2>2. n * r >= n * (c + 1)
    BY <1>1, <2>1
  <2>3. n * (c + 1) = n * c + n
    OBVIOUS
  <2>. QED
    BY <1>1, <1>3, <2>2, <2>3
<1>. QED
  BY <1>1, <1>4

LEMMA CostShareBound ==
  ASSUME NEW b \in Books, NEW t \in Tokens, NEW q \in Nat, q <= b.qty[t]
  PROVE  CostShare(b, t, q) \in 0 .. b.cost[t]
<1> DEFINE n == b.qty[t]
           c == b.cost[t]
<1>1. n \in Nat /\ c \in Nat /\ q <= n
  BY DEF Books
<1>2. CostShare(b, t, q) = IF n = 0 THEN 0 ELSE (c * q) \div n
  BY DEF CostShare
<1> HIDE DEF n, c
<1>3. n # 0 => (c * q) \div n \in 0 .. c
  BY <1>1, DivBound
<1>4. CostShare(b, t, q) \in 0 .. c
  BY <1>1, <1>2, <1>3
<1>. QED
  BY <1>4 DEF c

LEMMA TokensOf ==
  ASSUME NEW m \in Markets
  PROVE  Yes(m) \in Tokens /\ No(m) \in Tokens /\ Yes(m) # No(m)
  BY DEF Yes, No, Tokens, Outcomes

Fills == [yes : Nat, no : Nat, yesCost : Nat, noCost : Nat, merge : Nat]

Posted(r, b, cash, gain, qty, cost) ==
    /\ r \in Books
    /\ r.cash = b.cash + cash /\ r.pnl = b.pnl + gain
    /\ r.qty = qty /\ r.cost = cost
    /\ r.executions = b.executions /\ r.settled = b.settled
    /\ r.fp = b.fp /\ r.active = b.active /\ r.normalized = b.normalized

LEMMA PostBook ==
  ASSUME NEW b \in Books, NEW cash \in Int, NEW gain \in Int,
         NEW qty \in [Tokens -> Nat], NEW cost \in [Tokens -> Nat]
  PROVE  Posted(Post(b, cash, gain, qty, cost), b, cash, gain, qty, cost)
<1>1. b.cash + cash \in Int /\ b.pnl + gain \in Int
  BY DEF Books
<1> DEFINE b1 == [b EXCEPT !.cash = b.cash + cash]
           b2 == [b1 EXCEPT !.pnl = b.pnl + gain]
           b3 == [b2 EXCEPT !.qty = qty]
           b4 == [b3 EXCEPT !.cost = cost]
<1>2. b1 \in Books
  BY <1>1, Zenon DEF Books
<1>3. b1 \in Books => b2 \in Books
  <2> HIDE DEF b1
  <2>. QED
    BY <1>1, Zenon DEF Books
<1>4. b2 \in Books => b3 \in Books
  <2> HIDE DEF b2
  <2>. QED
    BY Zenon DEF Books
<1>5. b3 \in Books => b4 \in Books
  <2> HIDE DEF b3
  <2>. QED
    BY Zenon DEF Books
<1>6. b4 = Post(b, cash, gain, qty, cost)
  BY Zenon DEF Post, Books
<1>7. /\ b4.cash = b.cash + cash /\ b4.pnl = b.pnl + gain
      /\ b4.qty = qty /\ b4.cost = cost
      /\ b4.executions = b.executions /\ b4.settled = b.settled
      /\ b4.fp = b.fp /\ b4.active = b.active /\ b4.normalized = b.normalized
  BY Zenon DEF Books
<1> HIDE DEF b1, b2, b3, b4
<1>. QED
  BY <1>2, <1>3, <1>4, <1>5, <1>6, <1>7, Zenon DEF Posted

LEMMA ChangeType ==
  ASSUME NEW f \in [Tokens -> Nat], NEW m \in Markets, NEW yes \in Int, NEW no \in Int,
         f[Yes(m)] + yes >= 0, f[No(m)] + no >= 0
  PROVE  /\ Change(f, m, yes, no) \in [Tokens -> Nat]
         /\ Change(f, m, yes, no)[Yes(m)] = f[Yes(m)] + yes
         /\ Change(f, m, yes, no)[No(m)] = f[No(m)] + no
         /\ \A t \in Tokens : t[1] # m => Change(f, m, yes, no)[t] = f[t]
<1>1. \A t \in Tokens : t[1] # m => t # Yes(m) /\ t # No(m)
  BY DEF Yes, No
<1>. QED
  BY <1>1, TokensOf DEF Change

LEMMA HoldingsType ==
  ASSUME NEW b \in Books, NEW m \in Markets
  PROVE  /\ b.qty \in [Tokens -> Nat] /\ b.cost \in [Tokens -> Nat]
         /\ b.qty[Yes(m)] \in Nat /\ b.qty[No(m)] \in Nat
         /\ b.cost[Yes(m)] \in Nat /\ b.cost[No(m)] \in Nat
         /\ b.cash \in Int /\ b.pnl \in Int /\ b.normalized \in Int
         /\ Matched(b, m) \in Nat
         /\ Matched(b, m) <= b.qty[Yes(m)] /\ Matched(b, m) <= b.qty[No(m)]
<1>1. /\ b.qty \in [Tokens -> Nat] /\ b.cost \in [Tokens -> Nat]
      /\ b.cash \in Int /\ b.pnl \in Int /\ b.normalized \in Int
  BY DEF Books
<1>. QED
  BY <1>1, TokensOf DEF Matched, MinOf

\* Redeeming the pairs of a market pays for them, leaves no pair behind and no other
\* part of the portfolio changed.
LEMMA RedeemPairsBook ==
  ASSUME NEW b \in Books, NEW m \in Markets
  PROVE  LET r == RedeemPairs(b, m)
         IN  /\ r \in Books
             /\ r.cash = b.cash + Matched(b, m) * Payout
             /\ r.qty[Yes(m)] = b.qty[Yes(m)] - Matched(b, m)
             /\ r.qty[No(m)] = b.qty[No(m)] - Matched(b, m)
             /\ \A t \in Tokens : t[1] # m => r.qty[t] = b.qty[t]
             /\ r.executions = b.executions /\ r.settled = b.settled
             /\ r.fp = b.fp /\ r.active = b.active /\ r.normalized = b.normalized
<1> DEFINE q == Matched(b, m)
           y == CostShare(b, Yes(m), q)
           n == CostShare(b, No(m), q)
           qty == Change(b.qty, m, -q, -q)
           cost == Change(b.cost, m, -y, -n)
           value == q * Payout
           gain == value - (y + n)
<1>1. /\ b.qty[Yes(m)] \in Nat /\ b.qty[No(m)] \in Nat
      /\ b.cost[Yes(m)] \in Nat /\ b.cost[No(m)] \in Nat
      /\ q \in Nat /\ q <= b.qty[Yes(m)] /\ q <= b.qty[No(m)]
  BY HoldingsType
<1>2. y \in 0 .. b.cost[Yes(m)] /\ n \in 0 .. b.cost[No(m)]
  BY <1>1, TokensOf, CostShareBound
<1>3. value \in Int /\ gain \in Int
  BY <1>1, <1>2, ConstantsAssumption
<1>4. RedeemPairs(b, m) = Post(b, value, gain, qty, cost)
  BY DEF RedeemPairs
<1> HIDE DEF q, y, n, value, gain
<1>5. /\ qty \in [Tokens -> Nat]
      /\ qty[Yes(m)] = b.qty[Yes(m)] - q /\ qty[No(m)] = b.qty[No(m)] - q
      /\ \A t \in Tokens : t[1] # m => qty[t] = b.qty[t]
  BY <1>1, HoldingsType, ChangeType
<1>6. cost \in [Tokens -> Nat]
  BY <1>1, <1>2, HoldingsType, ChangeType
<1> HIDE DEF qty, cost
<1>7. Posted(Post(b, value, gain, qty, cost), b, value, gain, qty, cost)
  BY <1>3, <1>5, <1>6, PostBook
<1>. QED
  <2> DEFINE r == RedeemPairs(b, m)
  <2>1. /\ r \in Books
        /\ r.cash = b.cash + value /\ r.qty = qty
        /\ r.executions = b.executions /\ r.settled = b.settled
        /\ r.fp = b.fp /\ r.active = b.active /\ r.normalized = b.normalized
    BY <1>4, <1>7, Zenon DEF Posted
  <2> HIDE DEF r
  <2>2. /\ r.cash = b.cash + value
        /\ r.qty[Yes(m)] = b.qty[Yes(m)] - q
        /\ r.qty[No(m)] = b.qty[No(m)] - q
        /\ \A t \in Tokens : t[1] # m => r.qty[t] = b.qty[t]
    BY <1>5, <2>1
  <2>. QED
    BY <2>1, <2>2, Zenon DEF q, r, value

LEMMA NormalizeBook ==
  ASSUME NEW b \in Books, NEW m \in Markets
  PROVE  LET r == Normalize(b, m)
         IN  /\ r \in Books
             /\ r.cash = b.cash + Matched(b, m) * Payout
             /\ r.qty[Yes(m)] = b.qty[Yes(m)] - Matched(b, m)
             /\ r.qty[No(m)] = b.qty[No(m)] - Matched(b, m)
             /\ \A t \in Tokens : t[1] # m => r.qty[t] = b.qty[t]
             /\ r.executions = b.executions /\ r.settled = b.settled
             /\ r.fp = b.fp /\ r.active = b.active
<1> DEFINE r == RedeemPairs(b, m)
           x == r.normalized + (r.pnl - b.pnl)
           w == [r EXCEPT !.normalized = x]
<1>1. /\ r \in Books
      /\ r.cash = b.cash + Matched(b, m) * Payout
      /\ r.qty[Yes(m)] = b.qty[Yes(m)] - Matched(b, m)
      /\ r.qty[No(m)] = b.qty[No(m)] - Matched(b, m)
      /\ \A t \in Tokens : t[1] # m => r.qty[t] = b.qty[t]
      /\ r.executions = b.executions /\ r.settled = b.settled
      /\ r.fp = b.fp /\ r.active = b.active
  BY RedeemPairsBook
<1>2. Normalize(b, m) = w
  BY DEF Normalize
<1> HIDE DEF r
<1>3. x \in Int
  BY <1>1, HoldingsType DEF Books
<1> HIDE DEF x
<1>4. w \in Books
  BY <1>1, <1>3, Zenon DEF Books
<1>5. /\ w.cash = r.cash /\ w.qty = r.qty /\ w.executions = r.executions
      /\ w.settled = r.settled /\ w.fp = r.fp /\ w.active = r.active
  BY <1>1, Zenon DEF Books
<1> HIDE DEF w
<1>. QED
  BY <1>1, <1>2, <1>4, <1>5, Zenon

LEMMA AddInventoryBook ==
  ASSUME NEW b \in Books, NEW m \in Markets, NEW f \in Fills
  PROVE  LET r == AddInventory(b, m, f)
         IN  /\ r \in Books /\ Spend(f) \in Nat
             /\ r.cash = b.cash - Spend(f)
             /\ r.qty[Yes(m)] = b.qty[Yes(m)] + f.yes
             /\ r.qty[No(m)] = b.qty[No(m)] + f.no
             /\ \A t \in Tokens : t[1] # m => r.qty[t] = b.qty[t]
             /\ r.executions = b.executions /\ r.settled = b.settled
             /\ r.fp = b.fp /\ r.active = b.active
<1> DEFINE qty == Change(b.qty, m, f.yes, f.no)
           cost == Change(b.cost, m, f.yesCost, f.noCost)
           cash == -Spend(f)
           gain == -f.merge
<1>1. /\ f.yes \in Nat /\ f.no \in Nat /\ f.yesCost \in Nat /\ f.noCost \in Nat
      /\ f.merge \in Nat
  BY DEF Fills
<1>2. Spend(f) \in Nat /\ cash \in Int /\ gain \in Int
  BY <1>1 DEF Spend
<1>3. /\ qty \in [Tokens -> Nat]
      /\ qty[Yes(m)] = b.qty[Yes(m)] + f.yes /\ qty[No(m)] = b.qty[No(m)] + f.no
      /\ \A t \in Tokens : t[1] # m => qty[t] = b.qty[t]
  BY <1>1, HoldingsType, ChangeType
<1>4. cost \in [Tokens -> Nat]
  BY <1>1, HoldingsType, ChangeType
<1>5. AddInventory(b, m, f) = Post(b, cash, gain, qty, cost)
  BY DEF AddInventory
<1>6. b.cash + cash = b.cash - Spend(f)
  BY <1>2, HoldingsType
<1> HIDE DEF qty, cost, cash, gain
<1>7. Posted(Post(b, cash, gain, qty, cost), b, cash, gain, qty, cost)
  BY <1>2, <1>3, <1>4, PostBook
<1>. QED
  BY <1>2, <1>3, <1>5, <1>6, <1>7, Zenon DEF Posted

\* The shares of m that an execution f redeems.
Redeemed(b, m, f) == Matched(AddInventory(Normalize(b, m), m, f), m)

\* An execution changes nothing but money and holdings, and pays for the pairs it
\* completes; pairs held before pay as well.
LEMMA ApplyExecutionBook ==
  ASSUME NEW b \in Books, NEW m \in Markets, NEW f \in Fills
  PROVE  LET r == ApplyExecution(b, m, f)
         IN  /\ r \in Books /\ Spend(f) \in Nat
             /\ Redeemed(b, m, f) \in Nat /\ Matched(b, m) \in Nat
             /\ r.cash = b.cash + Matched(b, m) * Payout - Spend(f)
                            + Redeemed(b, m, f) * Payout
             /\ r.executions = b.executions /\ r.settled = b.settled
             /\ r.fp = b.fp /\ r.active = b.active
             /\ NetProfit(b, m, f) \in Int
<1> DEFINE n == Normalize(b, m)
           a == AddInventory(n, m, f)
           r == RedeemPairs(a, m)
<1>1. /\ n \in Books /\ n.cash = b.cash + Matched(b, m) * Payout
      /\ n.executions = b.executions /\ n.settled = b.settled
      /\ n.fp = b.fp /\ n.active = b.active
  BY NormalizeBook
<1>2. ApplyExecution(b, m, f) = r /\ Redeemed(b, m, f) = Matched(a, m)
      /\ NetProfit(b, m, f) = r.pnl - n.pnl
  BY DEF ApplyExecution, Redeemed, NetProfit
<1> HIDE DEF n
<1>3. /\ a \in Books /\ Spend(f) \in Nat /\ a.cash = n.cash - Spend(f)
      /\ a.executions = n.executions /\ a.settled = n.settled
      /\ a.fp = n.fp /\ a.active = n.active
  BY <1>1, AddInventoryBook
<1> HIDE DEF a
<1>4. /\ r \in Books /\ r.cash = a.cash + Matched(a, m) * Payout
      /\ r.executions = a.executions /\ r.settled = a.settled
      /\ r.fp = a.fp /\ r.active = a.active
  BY <1>3, RedeemPairsBook
<1> HIDE DEF r
<1>5. Matched(a, m) \in Nat /\ Matched(b, m) \in Nat /\ r.pnl - n.pnl \in Int
  BY <1>1, <1>3, <1>4, HoldingsType
<1> DEFINE p1 == Matched(b, m) * Payout
           p2 == Matched(a, m) * Payout
<1>6. p1 \in Int /\ p2 \in Int /\ b.cash \in Int
  BY <1>5, HoldingsType, ConstantsAssumption
<1>7. r.cash = b.cash + p1 - Spend(f) + p2
  <2> HIDE DEF p1, p2
  <2>1. n.cash = b.cash + p1 /\ a.cash = n.cash - Spend(f) /\ r.cash = a.cash + p2
    BY <1>1, <1>3, <1>4 DEF p1, p2
  <2>. QED
    BY <2>1, <1>6, <1>3
<1>8. r.cash = b.cash + Matched(b, m) * Payout - Spend(f) + Matched(a, m) * Payout
  BY <1>7
<1>. QED
  BY <1>1, <1>2, <1>3, <1>4, <1>5, <1>8, Zenon

LEMMA WithActiveBook ==
  ASSUME NEW b \in Books, NEW a \in Actives \cup {NoActive}
  PROVE  LET r == WithActive(b, a)
         IN  /\ r \in Books /\ r.active = a
             /\ r.cash = b.cash /\ r.executions = b.executions /\ r.fp = b.fp
             /\ r.settled = b.settled /\ r.qty = b.qty
  BY Zenon DEF WithActive, Books

LEMMA RecordBook ==
  ASSUME NEW b \in Books, NEW e \in Executions
  PROVE  LET r == Record(b, e)
         IN  /\ r \in Books /\ r.executions = Append(b.executions, e)
             /\ r.cash = b.cash /\ r.active = b.active
             /\ r.settled = b.settled /\ r.qty = b.qty
             /\ r.fp = [b.fp EXCEPT ![e.id.market] = e.id.fp]
<1> DEFINE E == Append(b.executions, e)
           F == [b.fp EXCEPT ![e.id.market] = e.id.fp]
           b1 == [b EXCEPT !.executions = E]
           b2 == [b1 EXCEPT !.fp = F]
<1>1. E \in Seq(Executions)
  BY DEF Books
<1>2. F \in [Markets -> AnyFp \cup {NoFp}]
  BY DEF Books, Executions, Ids
<1>3. Record(b, e) = b2
  BY Zenon DEF Record, Books
<1> HIDE DEF E, F
<1>4. b1 \in Books
  BY <1>1, Zenon DEF Books
<1>5. b1 \in Books => b2 \in Books
  <2> HIDE DEF b1
  <2>. QED
    BY <1>2, Zenon DEF Books
<1>6. /\ b2.executions = E /\ b2.cash = b.cash /\ b2.active = b.active
      /\ b2.settled = b.settled /\ b2.qty = b.qty /\ b2.fp = F
  BY Zenon DEF Books
<1> HIDE DEF b1, b2
<1>. QED
  BY <1>3, <1>4, <1>5, <1>6, Zenon DEF E, F

LEMMA AddSettlementBook ==
  ASSUME NEW b \in Books, NEW x \in Settlements
  PROVE  LET r == AddSettlement(b, x)
         IN  /\ r \in Books /\ r.cash = b.cash /\ r.executions = b.executions
             /\ r.active = b.active /\ r.settled = b.settled \cup {x}
             /\ r.qty = b.qty /\ r.cost = b.cost /\ r.fp = b.fp /\ r.pnl = b.pnl
             /\ r.normalized = b.normalized
<1> DEFINE S == b.settled \cup {x}
           r == [b EXCEPT !.settled = S]
<1>1. S \in SUBSET Settlements
  BY DEF Books
<1>2. AddSettlement(b, x) = r
  BY DEF AddSettlement
<1> HIDE DEF S
<1>3. /\ r \in Books /\ r.cash = b.cash /\ r.executions = b.executions
      /\ r.active = b.active /\ r.settled = S /\ r.qty = b.qty /\ r.cost = b.cost
      /\ r.fp = b.fp /\ r.pnl = b.pnl /\ r.normalized = b.normalized
  BY <1>1, Zenon DEF Books
<1>. QED
  BY <1>2, <1>3, Zenon DEF S

-----------------------------------------------------------------------------
(* Fills *)

LEMMA Numbers ==
  /\ Payout \in Nat \ {0} /\ MinSize \in Nat \ {0} /\ StepQty \in Nat \ {0}
  /\ Starting \in Nat /\ Reserve \in Nat /\ Ceiling \in Nat /\ Merge \in Nat
  /\ MinProfit \in Nat /\ MaxExecutions \in Nat
  /\ StepLimits \subseteq Nat /\ LegPrices \subseteq Nat
  /\ Plans \subseteq PlanRecords
  BY ConstantsAssumption

LEMMA FillType ==
  ASSUME NEW p \in PlanRecords, NEW q \in Nat, NEW merge \in Nat
  PROVE  /\ FillOf(p, q, merge) \in Fills
         /\ FillOf(p, q, merge).yes = q /\ FillOf(p, q, merge).no = q
<1>1. q * p.yes \in Nat /\ q * p.no \in Nat
  BY DEF PlanRecords
<1>. QED
  BY <1>1 DEF FillOf, Fills

LEMMA LegFillType ==
  ASSUME NEW b \in Books, NEW m \in Markets, NEW price \in Nat
  PROVE  /\ Missing(b, m) \in Nat
         /\ LegFill(b, m, price) \in Fills
<1>1. Missing(b, m) \in Nat
  BY HoldingsType DEF Missing, Heavy, Other, Yes, No
<1> DEFINE q == Missing(b, m)
<1>2. q * price \in Nat
  BY <1>1
<1> HIDE DEF q
<1>. QED
  BY <1>1, <1>2, Numbers DEF LegFill, Fills, q

\* A matched fill redeems at least the pairs it bought.
LEMMA MatchedFillRedeems ==
  ASSUME NEW b \in Books, NEW m \in Markets, NEW f \in Fills,
         NEW q \in Nat, f.yes >= q, f.no >= q
  PROVE  Redeemed(b, m, f) >= q
<1> DEFINE n == Normalize(b, m)
<1>1. n \in Books
  BY NormalizeBook
<1>2. n.qty[Yes(m)] \in Nat /\ n.qty[No(m)] \in Nat
  BY <1>1, HoldingsType
<1>3. f.yes \in Nat /\ f.no \in Nat
  BY DEF Fills
<1> HIDE DEF n
<1> DEFINE a == AddInventory(n, m, f)
<1>4. a.qty[Yes(m)] = n.qty[Yes(m)] + f.yes /\ a.qty[No(m)] = n.qty[No(m)] + f.no
  BY <1>1, AddInventoryBook
<1> HIDE DEF a
<1>5. Matched(a, m) >= q
  BY <1>2, <1>3, <1>4 DEF Matched, MinOf
<1>. QED
  BY <1>5 DEF Redeemed, a, n

\* Buying the missing leg redeems all the shares that were missing it.
LEMMA LegFillRedeems ==
  ASSUME NEW b \in Books, NEW m \in Markets, NEW price \in Nat
  PROVE  Redeemed(b, m, LegFill(b, m, price)) >= Missing(b, m)
<1> DEFINE n == Normalize(b, m)
           f == LegFill(b, m, price)
           y == b.qty[Yes(m)]
           o == b.qty[No(m)]
<1>1. n \in Books /\ n.qty[Yes(m)] = y - Matched(b, m)
      /\ n.qty[No(m)] = o - Matched(b, m)
  BY NormalizeBook
<1>2. y \in Nat /\ o \in Nat
  BY HoldingsType
<1>3. Matched(b, m) = IF y <= o THEN y ELSE o
  BY DEF Matched, MinOf
<1>4. Missing(b, m) = IF y > o THEN y - o ELSE o - y
  BY DEF Missing, Heavy, Other, Yes, No
<1>5. f.yes = (IF y > o THEN 0 ELSE o - y) /\ f.no = (IF y > o THEN y - o ELSE 0)
  BY <1>4 DEF LegFill, Heavy, Yes, No
<1>6. f \in Fills
  BY LegFillType
<1> HIDE DEF n, f, y, o
<1> DEFINE a == AddInventory(n, m, f)
<1>7. a.qty[Yes(m)] = n.qty[Yes(m)] + f.yes /\ a.qty[No(m)] = n.qty[No(m)] + f.no
  BY <1>1, <1>6, AddInventoryBook
<1> HIDE DEF a
<1>8. a.qty[Yes(m)] >= Missing(b, m) /\ a.qty[No(m)] >= Missing(b, m)
  BY <1>1, <1>2, <1>3, <1>4, <1>5, <1>7
<1>9. Matched(a, m) >= Missing(b, m)
  BY <1>8 DEF Matched, MinOf
<1>. QED
  BY <1>9 DEF Redeemed, a, n, f

\* If the pairs a fill redeems pay for it, the cash does not fall.
LEMMA PayingFill ==
  ASSUME NEW b \in Books, NEW m \in Markets, NEW f \in Fills,
         NEW q \in Nat, Redeemed(b, m, f) >= q, q * Payout >= Spend(f)
  PROVE  ApplyExecution(b, m, f).cash >= b.cash
<1> DEFINE k == Redeemed(b, m, f)
           h == Matched(b, m)
           r == ApplyExecution(b, m, f)
           c == Spend(f)
<1>1. /\ r.cash = b.cash + h * Payout - c + k * Payout
      /\ k \in Nat /\ h \in Nat /\ c \in Nat
  BY ApplyExecutionBook
<1>2. b.cash \in Int /\ Payout \in Nat
  BY HoldingsType, Numbers
<1>3. k >= q /\ q * Payout >= c
  OBVIOUS
<1> HIDE DEF k, h, r, c
<1>4. k * Payout >= q * Payout /\ h * Payout >= 0
  BY <1>1, <1>2, <1>3
<1>5. k * Payout \in Int /\ q * Payout \in Int /\ h * Payout \in Int
  BY <1>1, <1>2
<1>6. r.cash >= b.cash
  BY <1>1, <1>2, <1>3, <1>4, <1>5
<1>. QED
  BY <1>6 DEF r

-----------------------------------------------------------------------------
(* What each handler saves *)

\* A book that may replace b: it has the type, no less cash, every execution of b and
\* those with the given ids.
Successor(r, b, ids) ==
    /\ r \in Books
    /\ r.cash >= b.cash
    /\ \A id \in Ids : Recorded(b, id) \/ id \in ids => Recorded(r, id)

LEMMA SuccessorOf ==
  ASSUME NEW b \in Books, NEW r \in Books, r.cash >= b.cash, r.executions = b.executions
  PROVE  Successor(r, b, {})
  BY DEF Successor, Recorded

LEMMA SuccessorTransitive ==
  ASSUME NEW a, NEW b, NEW c, a.cash \in Int, b.cash \in Int, c.cash \in Int,
         NEW ids, Successor(b, a, {}), Successor(c, b, ids)
  PROVE  Successor(c, a, ids)
  BY DEF Successor

\* Recording an execution keeps the earlier ones.
LEMMA RecordSucceeds ==
  ASSUME NEW b \in Books, NEW e \in Executions
  PROVE  Successor(Record(b, e), b, {e.id})
<1> DEFINE r == Record(b, e)
           E == b.executions
<1>1. r \in Books /\ r.executions = Append(E, e) /\ r.cash = b.cash
  BY RecordBook
<1>2. E \in Seq(Executions) /\ b.cash \in Int
  BY DEF Books
<1> HIDE DEF r
<1>3. /\ \A i \in DOMAIN E : i \in DOMAIN r.executions /\ r.executions[i] = E[i]
      /\ Len(E) + 1 \in DOMAIN r.executions /\ r.executions[Len(E) + 1] = e
  <2> HIDE DEF E
  <2>. QED
    BY <1>1, <1>2
<1>4. \A id : Recorded(b, id) \/ id = e.id => Recorded(r, id)
  BY <1>3, Zenon DEF Recorded, E
<1>5. Successor(r, b, {e.id})
  BY <1>1, <1>2, <1>4 DEF Successor
<1>. QED
  BY <1>5 DEF r

LEMMA ActiveParts ==
  ASSUME NEW a \in Actives
  PROVE  /\ a.id \in Ids /\ a.plan \in PlanRecords /\ a.plan.market \in Markets
         /\ a.plan.qty \in Nat \ {0} /\ a.steps \in Nat /\ a.filled \in Nat
         /\ a.current \in Nat /\ a.spent \in Int /\ a.profit \in Int
         /\ a.maxSteps \in Nat \ {0} /\ a.plan.floor \in Nat
  BY DEF Actives, PlanRecords

LEMMA StepFillType ==
  ASSUME NEW a \in Actives, ~StepsOver(a), limit \in Nat
  PROVE  /\ StepQuantity(a) \in Nat /\ StepQuantity(a) <= a.plan.qty - a.filled
         /\ StepFill(a) \in Fills
         /\ StepFill(a).yes = StepQuantity(a) /\ StepFill(a).no = StepQuantity(a)
<1>1. a.filled < a.plan.qty
  BY ActiveParts DEF StepsOver
<1>2. StepQuantity(a) \in Nat /\ StepQuantity(a) <= a.plan.qty - a.filled
  BY <1>1, ActiveParts, Numbers DEF StepQuantity, MinOf
<1>3. StepMerge(a) \in Nat
  BY Numbers DEF StepMerge
<1>. QED
  BY <1>2, <1>3, ActiveParts, FillType DEF StepFill

LEMMA StepTakenType ==
  ASSUME NEW a \in Actives, ~StepsOver(a), limit \in Nat, NEW profit \in Int
  PROVE  StepTaken(a, profit) \in Actives
<1> DEFINE s == StepQuantity(a)
           steps == a.steps + 1
           filled == a.filled + s
           current == IF Grow THEN MinOf(a.plan.qty - a.filled - s, 2 * s) ELSE s
           spent == a.spent + Spend(StepFill(a))
           gain == a.profit + profit
           a1 == [a EXCEPT !.steps = steps]
           a2 == [a1 EXCEPT !.filled = filled]
           a3 == [a2 EXCEPT !.current = current]
           a4 == [a3 EXCEPT !.spent = spent]
           a5 == [a4 EXCEPT !.profit = gain]
<1>1. s \in Nat /\ s <= a.plan.qty - a.filled /\ StepFill(a) \in Fills
  BY StepFillType
<1>2. Spend(StepFill(a)) \in Nat
  BY <1>1 DEF Spend, Fills
<1>3. steps \in Nat /\ filled \in Nat /\ current \in Nat /\ spent \in Int /\ gain \in Int
  <2> HIDE DEF s
  <2>. QED
    BY <1>1, <1>2, ActiveParts DEF MinOf
<1>4. StepTaken(a, profit) = a5
  BY Zenon DEF StepTaken, Actives
<1> HIDE DEF s, steps, filled, current, spent, gain
<1>5. a1 \in Actives
  BY <1>3, Zenon DEF Actives
<1>6. a1 \in Actives => a2 \in Actives
  <2> HIDE DEF a1
  <2>. QED
    BY <1>3, Zenon DEF Actives
<1>7. a2 \in Actives => a3 \in Actives
  <2> HIDE DEF a2
  <2>. QED
    BY <1>3, Zenon DEF Actives
<1>8. a3 \in Actives => a4 \in Actives
  <2> HIDE DEF a3
  <2>. QED
    BY <1>3, Zenon DEF Actives
<1>9. a4 \in Actives => a5 \in Actives
  <2> HIDE DEF a4
  <2>. QED
    BY <1>3, Zenon DEF Actives
<1> HIDE DEF a1, a2, a3, a4, a5
<1>. QED
  BY <1>4, <1>5, <1>6, <1>7, <1>8, <1>9, Zenon

\* A filled step is a successor: _execution_pair_is_valid demands a positive margin of
\* the step itself, so the pairs it redeems pay for it.
LEMMA FilledBookSucceeds ==
  ASSUME NEW b \in Books, b.active \in Actives, limit \in Nat,
         ~StepsOver(b.active), StepValid(b.active)
  PROVE  Successor(FilledBook(b), b, {}) /\ FilledBook(b).active \in Actives
<1> DEFINE a == b.active
           m == a.plan.market
           f == StepFill(a)
           q == StepQuantity(a)
           x == ApplyExecution(b, m, f)
           g == NetProfit(b, m, f)
           t == StepTaken(a, g)
           r == WithActive(x, t)
<1>1. FilledBook(b) = r
  BY DEF FilledBook
<1>2. a \in Actives /\ m \in Markets
  BY ActiveParts
<1>3. q \in Nat /\ f \in Fills /\ f.yes = q /\ f.no = q
  BY StepFillType
<1>4. q * Payout - Spend(f) > 0
  BY DEF StepValid, Clears
<1>5. q * Payout >= Spend(f)
  <2>1. q * Payout \in Int /\ Spend(f) \in Int
    BY <1>3, Numbers DEF Spend, Fills
  <2>. QED
    BY <1>4, <2>1
<1>6. ~StepsOver(a)
  OBVIOUS
<1> HIDE DEF a, m, f, q
<1>7. /\ x \in Books /\ x.executions = b.executions /\ g \in Int
  BY <1>2, <1>3, ApplyExecutionBook
<1>8. x.cash >= b.cash
  <2>1. Redeemed(b, m, f) >= q
    BY <1>2, <1>3, MatchedFillRedeems
  <2>. QED
    BY <1>2, <1>3, <1>5, <2>1, PayingFill
<1> HIDE DEF x, g
<1>9. t \in Actives
  BY <1>2, <1>6, <1>7, StepTakenType
<1> HIDE DEF t
<1>10. r \in Books /\ r.active = t /\ r.cash = x.cash /\ r.executions = x.executions
  BY <1>7, <1>9, WithActiveBook
<1> HIDE DEF r
<1>11. Successor(r, b, {})
  BY <1>7, <1>8, <1>10, SuccessorOf
<1>. QED
  BY <1>1, <1>9, <1>10, <1>11

\* A plan has one of the fingerprints that pairs have.
LEMMA FingerprintType ==
  ASSUME NEW p \in Plans, limit \in StepLimits
  PROVE  FingerprintOf(p, limit) \in AnyFp
  BY Numbers DEF FingerprintOf, Fingerprints, AnyFp, PlanRecords

LEMMA NewActiveType ==
  ASSUME NEW b \in Books, NEW p \in Plans, limit \in StepLimits, ~ZeroFriction
  PROVE  NewActive(b, p) \in Actives
<1>1. p \in PlanRecords /\ p.market \in Markets /\ FingerprintOf(p, limit) \in AnyFp
  BY Numbers, FingerprintType DEF PlanRecords
<1>2. Len(b.executions) \in Nat
  BY DEF Books
<1>3. NewId(b, p.market, FingerprintOf(p, limit), "pair") \in Ids
  BY <1>1, <1>2 DEF NewId, Ids
<1>4. limit \in Nat \ {0} /\ StepQty \in Nat
  BY Numbers DEF ZeroFriction
<1>. QED
  BY <1>1, <1>3, <1>4 DEF NewActive, Actives

LEMMA NewIdType ==
  ASSUME NEW b \in Books, NEW m \in Markets, NEW fp \in AnyFp, NEW kind \in {"pair", "inventory"}
  PROVE  NewId(b, m, fp, kind) \in Ids
  BY DEF NewId, Ids, Books

LEMMA AggregateType ==
  ASSUME NEW a \in Actives
  PROVE  Aggregate(a) \in Executions /\ Aggregate(a).id = a.id
<1> DEFINE f == FillOf(a.plan, a.plan.qty, Merge)
           value == a.plan.qty * Payout
<1>1. f \in Fills
  BY ActiveParts, FillType, Numbers
<1>2. Spend(f) \in Int
  BY <1>1 DEF Spend, Fills
<1>3. value \in Int
  BY ActiveParts, Numbers
<1>4. value - Spend(f) \in Int
  <2> HIDE DEF value, f
  <2>. QED
    BY <1>2, <1>3
<1> DEFINE planned == [id |-> a.id, qty |-> a.plan.qty, spent |-> Spend(f),
                       profit |-> value - Spend(f)]
           summed == [id |-> a.id, qty |-> a.filled, spent |-> a.spent,
                      profit |-> a.profit]
<1>5. Aggregate(a) = IF a.steps = 0 THEN planned ELSE summed
  BY DEF Aggregate
<1>6. planned \in Executions /\ planned.id = a.id
  <2> HIDE DEF value, f
  <2>. QED
    BY <1>2, <1>4, ActiveParts DEF Executions
<1>7. summed \in Executions /\ summed.id = a.id
  BY ActiveParts DEF Executions
<1> HIDE DEF planned, summed
<1>. QED
  BY <1>5, <1>6, <1>7

\* Closing an active execution records it; the money was moved by its steps.
LEMMA ClosedBookSucceeds ==
  ASSUME NEW b \in Books, b.active \in Actives
  PROVE  Successor(ClosedBook(b), b, {b.active.id})
<1> DEFINE e == Aggregate(b.active)
           r == Record(b, e)
           c == WithActive(r, NoActive)
<1>1. ClosedBook(b) = c
  BY DEF ClosedBook
<1>2. e \in Executions /\ e.id = b.active.id
  BY AggregateType
<1> HIDE DEF e
<1>3. Successor(r, b, {b.active.id}) /\ r \in Books /\ r.cash = b.cash
  BY <1>2, RecordSucceeds, RecordBook
<1> HIDE DEF r
<1>4. c \in Books /\ c.cash = r.cash /\ c.executions = r.executions
  BY <1>3, WithActiveBook
<1> HIDE DEF c
<1>5. Successor(c, b, {b.active.id})
  BY <1>3, <1>4 DEF Successor, Recorded
<1>. QED
  BY <1>1, <1>5

LEMMA WithActiveSucceeds ==
  ASSUME NEW b \in Books, NEW a \in Actives \cup {NoActive}
  PROVE  Successor(WithActive(b, a), b, {}) /\ WithActive(b, a).active = a
<1>1. b.cash \in Int
  BY DEF Books
<1> DEFINE r == WithActive(b, a)
<1>2. r \in Books /\ r.cash = b.cash /\ r.executions = b.executions /\ r.active = a
  BY WithActiveBook
<1> HIDE DEF r
<1>3. Successor(r, b, {})
  BY <1>1, <1>2, SuccessorOf
<1>. QED
  BY <1>2, <1>3 DEF r

\* Recovery leaves the execution recorded, whether it was recorded before or not.
LEMMA RecoveredBookSucceeds ==
  ASSUME NEW b \in Books, b.active \in Actives
  PROVE  Successor(RecoveredBook(b), b, {b.active.id})
<1>1. CASE Recorded(b, b.active.id)
  <2> DEFINE r == AbortedBook(b)
  <2>1. RecoveredBook(b) = r
    BY <1>1 DEF RecoveredBook
  <2>2. Successor(r, b, {})
    BY WithActiveSucceeds DEF AbortedBook
  <2> HIDE DEF r
  <2>3. b.active.id \in Ids
    BY ActiveParts
  <2>. QED
    BY <1>1, <2>1, <2>2, <2>3 DEF Successor
<1>2. CASE ~Recorded(b, b.active.id)
  BY <1>2, ClosedBookSucceeds DEF RecoveredBook
<1>. QED
  BY <1>1, <1>2

\* An execution that is applied and recorded at once is a successor if the pairs it
\* redeems pay for it.
LEMMA AppliedAndRecorded ==
  ASSUME NEW b \in Books, NEW m \in Markets, NEW f \in Fills, NEW q \in Nat,
         Redeemed(b, m, f) >= q, q * Payout >= Spend(f), NEW e \in Executions
  PROVE  Successor(Record(ApplyExecution(b, m, f), e), b, {e.id})
<1> DEFINE x == ApplyExecution(b, m, f)
<1>1. x \in Books /\ x.executions = b.executions
  BY ApplyExecutionBook
<1>2. x.cash >= b.cash
  BY PayingFill
<1> HIDE DEF x
<1>3. Successor(x, b, {})
  BY <1>1, <1>2, SuccessorOf
<1> DEFINE r == Record(x, e)
<1>4. Successor(r, x, {e.id}) /\ r \in Books
  BY <1>1, RecordSucceeds, RecordBook
<1> HIDE DEF r
<1>5. r.cash \in Int /\ x.cash \in Int /\ b.cash \in Int
  BY <1>1, <1>4, HoldingsType DEF Books
<1>6. Successor(r, b, {e.id})
  BY <1>3, <1>4, <1>5, SuccessorTransitive
<1>. QED
  BY <1>6 DEF r, x

LEMMA ExecutedBookSucceeds ==
  ASSUME NEW b \in Books, NEW p \in Plans, PlanAccepted(b, p), limit \in StepLimits
  PROVE  Successor(ExecutedBook(b, p), b, {NewId(b, p.market, FingerprintOf(p, limit), "pair")})
<1> DEFINE q == p.qty
           m == p.market
           f == FillOf(p, q, Merge)
           id == NewId(b, m, FingerprintOf(p, limit), "pair")
           e == [id |-> id, qty |-> q, spent |-> Spend(f), profit |-> NetProfit(b, m, f)]
           r == Record(ApplyExecution(b, m, f), e)
<1>1. /\ p \in PlanRecords /\ m \in Markets /\ FingerprintOf(p, limit) \in AnyFp /\ q \in Nat
      /\ p.yes \in Nat /\ p.no \in Nat
  BY Numbers, FingerprintType DEF PlanRecords
<1>2. f \in Fills /\ f.yes = q /\ f.no = q
  BY <1>1, FillType, Numbers
<1>3. id \in Ids
  BY <1>1, NewIdType
<1>4. q * Payout >= Spend(f)
  <2>1. q * (Payout - p.yes - p.no) - Merge > 0
    BY DEF PlanAccepted, Clears
  <2>2. q * (Payout - p.yes - p.no) = q * Payout - q * p.yes - q * p.no
    BY <1>1, Numbers
  <2>3. Spend(f) = q * p.yes + q * p.no + Merge
    BY DEF Spend, FillOf
  <2>4. q * Payout \in Int /\ q * p.yes \in Int /\ q * p.no \in Int /\ Merge \in Int
    BY <1>1, Numbers
  <2> DEFINE u == q * Payout
             v == q * p.yes
             w == q * p.no
  <2>5. u - v - w - Merge > 0 /\ Spend(f) = v + w + Merge
    BY <2>1, <2>2, <2>3
  <2> HIDE DEF u, v, w, f
  <2>6. u \in Int /\ v \in Int /\ w \in Int
    BY <2>4 DEF u, v, w
  <2>7. u >= Spend(f)
    BY <2>4, <2>5, <2>6
  <2>. QED
    BY <2>7 DEF u
<1>5. ExecutedBook(b, p) = r
  BY DEF ExecutedBook
<1> HIDE DEF q, m, f, id
<1>6. Redeemed(b, m, f) >= q
  BY <1>1, <1>2, MatchedFillRedeems
<1>7. Spend(f) \in Int /\ NetProfit(b, m, f) \in Int
  BY <1>1, <1>2, ApplyExecutionBook
<1>8. e \in Executions /\ e.id = id
  BY <1>1, <1>3, <1>7 DEF Executions
<1> HIDE DEF e
<1>9. Successor(r, b, {e.id})
  BY <1>1, <1>2, <1>4, <1>6, <1>8, AppliedAndRecorded
<1>. QED
  BY <1>5, <1>8, <1>9 DEF id, m

LEMMA LegBookSucceeds ==
  ASSUME NEW b \in Books, NEW m \in Markets, NEW price \in LegPrices,
         LegAccepted(b, m, price)
  PROVE  Successor(LegBook(b, m, price), b, {NewId(b, m, LegFp, "inventory")})
<1> DEFINE q == Missing(b, m)
           f == LegFill(b, m, price)
           h == Heavy(b, m)
           share == CostShare(b, h, q)
           id == NewId(b, m, LegFp, "inventory")
           e == [id |-> id, qty |-> q, spent |-> Spend(f), profit |-> NetProfit(b, m, f)]
           r == Record(ApplyExecution(b, m, f), e)
<1>1. price \in Nat
  BY Numbers
<1>2. q \in Nat /\ f \in Fills /\ Redeemed(b, m, f) >= q
  BY <1>1, LegFillType, LegFillRedeems
<1>3. id \in Ids
  BY NewIdType DEF AnyFp
<1>4. share \in Nat
  <2>1. h \in Tokens /\ q <= b.qty[h]
    BY HoldingsType, TokensOf DEF Heavy, Missing, Other, Yes, No
  <2> HIDE DEF q, h
  <2>2. b.cost[h] \in Nat
    BY <2>1 DEF Books
  <2>. QED
    BY <1>2, <2>1, <2>2, CostShareBound
<1>5. q * Payout - share - Spend(f) > 0
  BY DEF LegAccepted, LegProfit, Clears
<1>6. LegBook(b, m, price) = r
  BY DEF LegBook
<1> HIDE DEF q, f, h, share, id
<1>7. Spend(f) \in Int /\ NetProfit(b, m, f) \in Int
  BY <1>2, ApplyExecutionBook
<1>8. q * Payout >= Spend(f)
  <2>1. q * Payout \in Int
    BY <1>2, Numbers
  <2>. QED
    BY <1>4, <1>5, <1>7, <2>1
<1>9. e \in Executions /\ e.id = id
  BY <1>2, <1>3, <1>7 DEF Executions
<1> HIDE DEF e
<1>10. Successor(r, b, {e.id})
  BY <1>2, <1>8, <1>9, AppliedAndRecorded
<1>. QED
  BY <1>6, <1>9, <1>10 DEF id

LEMMA InitialBookType == InitialBook \in Books
<1>1. <<>> \in Seq(Executions) /\ Starting \in Int
  BY Numbers
<1>. QED
  BY <1>1 DEF InitialBook, Books

\* Settling a row pays at least nothing for it, and records no execution.
LEMMA SettledBookSucceeds ==
  ASSUME NEW b \in Books, NEW t \in Tokens, view \in Views
  PROVE  Successor(SettledBook(b, t), b, {})
<1> DEFINE form == WinnerForm(t)
           value == IF view[t[1]].verdict = t[2] THEN b.qty[t] * Payout ELSE 0
           gain == value - b.cost[t]
           s == [token |-> t, form |-> form, gain |-> gain]
           qty == [b.qty EXCEPT ![t] = 0]
           cost == [b.cost EXCEPT ![t] = 0]
<1>1. form \in Forms
  BY DEF WinnerForm, Forms, Views, Tokens
<1>2. b.qty[t] \in Nat /\ b.cost[t] \in Nat /\ b.cash \in Int
  BY DEF Books
<1>3. value \in Nat
  BY <1>2, Numbers
<1>4. gain \in Int
  <2> HIDE DEF value
  <2>. QED
    BY <1>2, <1>3
<1>5. qty \in [Tokens -> Nat] /\ cost \in [Tokens -> Nat]
  BY DEF Books
<1>6. SettledBook(b, t) = IF Settled(b, t, form) THEN DropRow(b, t, 0, 0)
                          ELSE AddSettlement(DropRow(b, t, value, gain), s)
  BY DEF SettledBook
<1>7. \A c, g : DropRow(b, t, c, g) = Post(b, c, g, qty, cost)
  BY DEF DropRow
<1> HIDE DEF form, value, gain, qty, cost
<1>8. s \in Settlements
  BY <1>1, <1>4 DEF Settlements
<1> HIDE DEF s
<1>9. ASSUME NEW c \in Nat, NEW g \in Int
      PROVE  /\ DropRow(b, t, c, g) \in Books
             /\ DropRow(b, t, c, g).cash >= b.cash
             /\ DropRow(b, t, c, g).executions = b.executions
  <2>1. Posted(Post(b, c, g, qty, cost), b, c, g, qty, cost)
    BY <1>5, PostBook
  <2> DEFINE r == DropRow(b, t, c, g)
  <2>2. r \in Books /\ r.cash = b.cash + c /\ r.executions = b.executions
    BY <1>7, <2>1, Zenon DEF Posted
  <2> HIDE DEF r
  <2>3. r.cash >= b.cash
    BY <1>2, <2>2
  <2>. QED
    BY <2>2, <2>3 DEF r
<1>10. CASE Settled(b, t, form)
  <2> DEFINE r == DropRow(b, t, 0, 0)
  <2>1. r \in Books /\ r.cash >= b.cash /\ r.executions = b.executions
    BY <1>9
  <2> HIDE DEF r
  <2>2. Successor(r, b, {})
    BY <2>1, SuccessorOf
  <2>. QED
    BY <1>6, <1>10, <2>2 DEF r
<1>11. CASE ~Settled(b, t, form)
  <2> DEFINE d == DropRow(b, t, value, gain)
             r == AddSettlement(d, s)
  <2>1. d \in Books /\ d.cash >= b.cash /\ d.executions = b.executions
    BY <1>3, <1>4, <1>9
  <2> HIDE DEF d
  <2>2. r \in Books /\ r.cash = d.cash /\ r.executions = d.executions
    BY <1>8, <2>1, AddSettlementBook
  <2> HIDE DEF r
  <2>3. Successor(r, b, {})
    BY <2>1, <2>2, SuccessorOf
  <2>. QED
    BY <1>6, <1>11, <2>3 DEF r, d
<1>. QED
  BY <1>10, <1>11

-----------------------------------------------------------------------------
(* The inductive invariant.  The settlement pass works on a copy of the portfolio; *)
(* until it is saved the copy is a successor of what memory and the file hold.     *)

Inv ==
    /\ TypeOK
    /\ MemoryIsDurable
    /\ LoggedIsDurable
    /\ pc = "settle" => Successor(work, mem, {})

\* What a step promises about the file.
NoCashLost == disk \in Books /\ disk' # InitialBook => disk'.cash >= disk.cash

LEMMA DurableType ==
  ASSUME disk \in Books \cup {NoFile}
  PROVE  Durable \in Books /\ (disk \in Books => Durable = disk)
  BY InitialBookType, ConstantsAssumption DEF Durable

\* Between two handlers a process holds a book, and it is the one on file.
LEMMA RunningBook ==
  ASSUME Inv, pc # "down"
  PROVE  mem \in Books /\ mem = Durable /\ limit \in Nat
  BY Numbers DEF Inv, TypeOK, MemoryIsDurable, Running, PCs

\* Saving a successor of the portfolio keeps the invariant, whether the save succeeds
\* or not, and whatever becomes of the event log.
LEMMA SavingKeepsInv ==
  ASSUME Inv, pc # "down", NEW r, NEW next \in {"idle", "step"}, NEW ids \in SUBSET Ids,
         Successor(r, mem, ids), next = "step" => r.active # NoActive,
         Save(r, next, ids), limit' = limit, resolution' = resolution,
         work' \in Books \cup {NoBook}, todo' \subseteq Tokens, view' \in Views
  PROVE  Inv' /\ NoCashLost
<1>1. mem \in Books /\ mem = Durable /\ (disk \in Books => Durable = disk)
  BY RunningBook, DurableType DEF Inv, TypeOK
<1>2. r \in Books /\ r # NoBook /\ r # NoFile
  BY ConstantsAssumption DEF Successor
<1>3. CASE Commit(r, next, ids)
  <2>1. disk' = r /\ mem' = r /\ pc' = next /\ logged' \subseteq logged \cup ids
    BY <1>3 DEF Commit
  <2>2. Durable' = r
    BY <1>2, <2>1 DEF Durable
  <2>3. TypeOK'
    BY <1>2, <2>1 DEF Inv, TypeOK, PCs
  <2>4. MemoryIsDurable'
    BY <2>1, <2>2 DEF MemoryIsDurable
  <2>5. LoggedIsDurable'
    <3>1. \A id \in logged \cup ids : Recorded(r, id)
      BY <1>1 DEF Inv, TypeOK, LoggedIsDurable, Successor
    <3>. QED
      BY <2>1, <2>2, <3>1 DEF LoggedIsDurable, Recorded
  <2>6. NoCashLost
    BY <1>1, <2>1 DEF NoCashLost, Successor
  <2>. QED
    BY <2>1, <2>3, <2>4, <2>5, <2>6 DEF Inv
<1>4. CASE SaveFails(r)
  <2>1. disk' = disk /\ pc' = "idle" /\ logged' = logged
        /\ mem' = IF disk = NoFile THEN mem ELSE disk
    BY <1>4 DEF SaveFails
  <2>2. Durable' = Durable /\ mem' = Durable
    BY <1>1, <2>1 DEF Durable
  <2>3. TypeOK'
    BY <1>1, <2>1, <2>2, ConstantsAssumption DEF Inv, TypeOK, PCs
  <2>4. MemoryIsDurable' /\ LoggedIsDurable'
    BY <2>1, <2>2 DEF Inv, MemoryIsDurable, LoggedIsDurable, Recorded
  <2>5. NoCashLost
    BY <2>1 DEF NoCashLost, Books
  <2>. QED
    BY <2>1, <2>3, <2>4, <2>5 DEF Inv
<1>. QED
  BY <1>3, <1>4 DEF Save

LEMMA InitInv == Init => Inv
<1> SUFFICES ASSUME Init PROVE Inv
  OBVIOUS
<1>1. NoNews \in Views /\ NoNews \in Views
  BY DEF NoNews, Views, Resolutions
<1>2. TypeOK
  BY <1>1, ConstantsAssumption DEF Init, TypeOK, PCs, Resolutions
<1>3. MemoryIsDurable /\ LoggedIsDurable
  BY DEF Init, MemoryIsDurable, Running, LoggedIsDurable
<1>. QED
  BY <1>2, <1>3 DEF Init, Inv

LEMMA NextInv == Inv /\ [Next]_vars => Inv' /\ (NoCashLost \/ UNCHANGED vars)
<1> SUFFICES ASSUME Inv, [Next]_vars PROVE Inv' /\ (NoCashLost \/ UNCHANGED vars)
  OBVIOUS
<1> DEFINE Goal == Inv' /\ NoCashLost
<1>a. TypeOK
  BY DEF Inv
<1>b. NoNews \in Views
  BY DEF NoNews, Views, Resolutions
<1>c. Durable \in Books /\ (disk \in Books => Durable = disk)
  BY <1>a, DurableType DEF TypeOK
<1>0. ASSUME disk' = disk PROVE NoCashLost /\ Durable' = Durable
  BY <1>0 DEF NoCashLost, Books, Durable
<1>1. CASE UNCHANGED vars
  <2>1. /\ disk' = disk /\ mem' = mem /\ pc' = pc /\ limit' = limit /\ work' = work
        /\ todo' = todo /\ view' = view /\ resolution' = resolution /\ logged' = logged
    BY <1>1 DEF vars
  <2>. QED
    BY <1>1, <2>1 DEF Inv, TypeOK, MemoryIsDurable, LoggedIsDurable, Running, Durable,
                      Recorded, Successor
<1>2. CASE Boot
  <2>1. Durable' = Durable /\ NoCashLost
    BY <1>0, <1>2 DEF Boot
  <2>2. mem' = Durable /\ pc' = "boot"
    BY <1>2 DEF Boot, Durable
  <2>3. TypeOK'
    BY <1>2, <1>a, <1>c, <2>2, ConstantsAssumption DEF Boot, TypeOK, PCs, NotSettling
  <2>4. MemoryIsDurable' /\ LoggedIsDurable'
    BY <1>2, <2>1, <2>2 DEF Boot, Inv, MemoryIsDurable, LoggedIsDurable, Recorded
  <2>. QED
    BY <2>1, <2>2, <2>3, <2>4 DEF Inv
<1>3. CASE Recover
  <2>0. pc = "boot"
    BY <1>3 DEF Recover
  <2>1. mem \in Books /\ mem = Durable
    BY <2>0, RunningBook
  <2>2. CASE mem.active # NoActive /\ Completed(mem.active)
    <3>1. mem.active \in Actives
      BY <2>1, <2>2 DEF Books
    <3>2. Successor(RecoveredBook(mem), mem, {mem.active.id})
      BY <2>1, <3>1, RecoveredBookSucceeds
    <3>3. Commit(RecoveredBook(mem), "idle", {mem.active.id})
      BY <1>3, <2>2 DEF Recover
    <3>4. {mem.active.id} \in SUBSET Ids
      BY <3>1, ActiveParts
    <3>. QED
      BY <1>3, <1>a, <2>0, <3>2, <3>3, <3>4, SavingKeepsInv
         DEF Recover, Save, World, NotSettling, TypeOK
  <2>3. CASE ~(mem.active # NoActive /\ Completed(mem.active))
    <3>1. pc' = "idle" /\ UNCHANGED <<disk, mem, logged>>
      BY <1>3, <2>3 DEF Recover
    <3>2. Durable' = Durable /\ NoCashLost
      BY <1>0, <3>1
    <3>3. TypeOK'
      BY <1>3, <1>a, <2>0, <3>1 DEF Recover, World, NotSettling, TypeOK, PCs
    <3>4. MemoryIsDurable' /\ LoggedIsDurable'
      BY <2>1, <3>1, <3>2 DEF Inv, MemoryIsDurable, LoggedIsDurable, Recorded
    <3>. QED
      BY <3>1, <3>2, <3>3, <3>4 DEF Inv
  <2>. QED
    BY <2>2, <2>3
<1>4. ASSUME NEW p \in Plans, StartExecution(p) PROVE Goal
  <2>0. pc = "idle" /\ ~ZeroFriction
    BY <1>4 DEF StartExecution
  <2>1. mem \in Books
    BY <2>0, RunningBook
  <2>2. NewActive(mem, p) \in Actives
    BY <1>a, <2>0, <2>1, NewActiveType DEF TypeOK
  <2> DEFINE r == WithActive(mem, NewActive(mem, p))
  <2>3. Successor(r, mem, {}) /\ r.active # NoActive
    BY <2>1, <2>2, WithActiveSucceeds, ConstantsAssumption
  <2>4. Save(r, "step", {})
    BY <1>4 DEF StartExecution
  <2> HIDE DEF r
  <2>. QED
    BY <1>4, <1>a, <2>0, <2>3, <2>4, SavingKeepsInv
       DEF StartExecution, World, NotSettling, TypeOK
<1>5. ASSUME NEW p \in Plans, ExecuteOnce(p) PROVE Goal
  <2>0. pc = "idle" /\ PlanAccepted(mem, p) /\ limit \in StepLimits
    BY <1>a, <1>5 DEF ExecuteOnce, TypeOK
  <2>1. mem \in Books
    BY <2>0, RunningBook
  <2> DEFINE id == NewId(mem, p.market, FingerprintOf(p, limit), "pair")
  <2>2. Successor(ExecutedBook(mem, p), mem, {id})
    BY <2>0, <2>1, ExecutedBookSucceeds
  <2>3. {id} \in SUBSET Ids
    <3>1. p.market \in Markets /\ FingerprintOf(p, limit) \in AnyFp
      BY <2>0, Numbers, FingerprintType DEF PlanRecords
    <3>. QED
      BY <2>1, <3>1, NewIdType
  <2>4. Save(ExecutedBook(mem, p), "idle", {id})
    BY <1>5 DEF ExecuteOnce
  <2> HIDE DEF id
  <2>. QED
    BY <1>5, <1>a, <2>0, <2>2, <2>3, <2>4, SavingKeepsInv
       DEF ExecuteOnce, World, NotSettling, TypeOK
<1>6. CASE ResumeExecution
  <2>1. pc = "idle" /\ mem.active # NoActive /\ pc' = "step" /\ UNCHANGED <<disk, mem, logged>>
    BY <1>6 DEF ResumeExecution
  <2>2. Durable' = Durable /\ NoCashLost /\ mem = Durable
    BY <1>0, <2>1, RunningBook
  <2>3. TypeOK'
    BY <1>6, <1>a, <2>1 DEF ResumeExecution, World, NotSettling, TypeOK, PCs
  <2>4. MemoryIsDurable' /\ LoggedIsDurable'
    BY <2>1, <2>2 DEF Inv, MemoryIsDurable, LoggedIsDurable, Recorded
  <2>. QED
    BY <2>1, <2>2, <2>3, <2>4 DEF Inv
<1>7. CASE FillStep
  <2>0. pc = "step" /\ ~StepsOver(mem.active) /\ StepValid(mem.active)
    BY <1>7 DEF FillStep
  <2>1. mem \in Books /\ mem.active \in Actives /\ limit \in Nat
    BY <1>a, <2>0, RunningBook DEF TypeOK, Books
  <2>2. Successor(FilledBook(mem), mem, {}) /\ FilledBook(mem).active # NoActive
    BY <2>0, <2>1, FilledBookSucceeds, ConstantsAssumption
  <2>3. Save(FilledBook(mem), "step", {})
    BY <1>7 DEF FillStep
  <2>. QED
    BY <1>7, <1>a, <2>0, <2>2, <2>3, SavingKeepsInv
       DEF FillStep, World, NotSettling, TypeOK
<1>8. CASE FinalizeExecution
  <2>0. pc = "step"
    BY <1>8 DEF FinalizeExecution
  <2>1. mem \in Books /\ mem.active \in Actives
    BY <1>a, <2>0, RunningBook DEF TypeOK, Books
  <2>2. Successor(ClosedBook(mem), mem, {mem.active.id}) /\ {mem.active.id} \in SUBSET Ids
    BY <2>1, ClosedBookSucceeds, ActiveParts
  <2>3. Save(ClosedBook(mem), "idle", {mem.active.id})
    BY <1>8 DEF FinalizeExecution
  <2>. QED
    BY <1>8, <1>a, <2>0, <2>2, <2>3, SavingKeepsInv
       DEF FinalizeExecution, World, NotSettling, TypeOK
<1>9. CASE AbortExecution
  <2>0. pc = "step"
    BY <1>9 DEF AbortExecution
  <2>1. mem \in Books
    BY <2>0, RunningBook
  <2>2. Successor(AbortedBook(mem), mem, {})
    BY <2>1, WithActiveSucceeds DEF AbortedBook
  <2>3. Save(AbortedBook(mem), "idle", {})
    BY <1>9 DEF AbortExecution
  <2>. QED
    BY <1>9, <1>a, <2>0, <2>2, <2>3, SavingKeepsInv
       DEF AbortExecution, World, NotSettling, TypeOK
<1>10. ASSUME NEW m \in Markets, NEW price \in LegPrices, CompleteLeg(m, price) PROVE Goal
  <2>0. pc = "idle" /\ LegAccepted(mem, m, price)
    BY <1>10 DEF CompleteLeg
  <2>1. mem \in Books
    BY <2>0, RunningBook
  <2> DEFINE id == NewId(mem, m, LegFp, "inventory")
  <2>2. Successor(LegBook(mem, m, price), mem, {id})
    BY <2>0, <2>1, LegBookSucceeds
  <2>3. {id} \in SUBSET Ids
    BY <2>1, NewIdType DEF AnyFp
  <2>4. Save(LegBook(mem, m, price), "idle", {id})
    BY <1>10 DEF CompleteLeg
  <2> HIDE DEF id
  <2>. QED
    BY <1>10, <1>a, <2>0, <2>2, <2>3, <2>4, SavingKeepsInv
       DEF CompleteLeg, World, NotSettling, TypeOK
<1>11. CASE BeginReconcile
  <2>1. /\ pc = "idle" /\ pc' = "settle" /\ work' = mem /\ view' \in Views
        /\ todo' \subseteq Tokens /\ UNCHANGED <<disk, mem, logged>>
    BY <1>11 DEF BeginReconcile
  <2>2. Durable' = Durable /\ NoCashLost /\ mem = Durable /\ mem \in Books
    BY <1>0, <2>1, RunningBook
  <2>3. TypeOK'
    BY <1>11, <1>a, <2>1, <2>2 DEF BeginReconcile, World, TypeOK, PCs
  <2>4. MemoryIsDurable' /\ LoggedIsDurable'
    BY <2>1, <2>2 DEF Inv, MemoryIsDurable, LoggedIsDurable, Recorded
  <2>5. Successor(work', mem', {})
    BY <2>1, <2>2, HoldingsType DEF Successor, Books
  <2>. QED
    BY <2>2, <2>3, <2>4, <2>5 DEF Inv, Successor, Recorded
<1>12. CASE EndReconcile
  <2>0. pc = "settle" /\ Successor(work, mem, {})
    BY <1>12 DEF EndReconcile, Inv
  <2>1. CASE Save(work, "idle", {})
    BY <1>12, <1>a, <1>b, <2>0, <2>1, SavingKeepsInv DEF EndReconcile, World, TypeOK
  <2>2. CASE pc' = "idle" /\ UNCHANGED <<disk, mem, logged>>
    <3>1. Durable' = Durable /\ NoCashLost /\ mem = Durable
      BY <1>0, <2>0, <2>2, RunningBook
    <3>2. TypeOK'
      BY <1>12, <1>a, <1>b, <2>0, <2>2 DEF EndReconcile, World, TypeOK, PCs
    <3>3. MemoryIsDurable' /\ LoggedIsDurable'
      BY <2>2, <3>1 DEF Inv, MemoryIsDurable, LoggedIsDurable, Recorded
    <3>. QED
      BY <2>2, <3>1, <3>2, <3>3 DEF Inv
  <2>. QED
    BY <1>12, <2>1, <2>2 DEF EndReconcile
<1>13. ASSUME NEW t \in Tokens, SettleToken(t) PROVE Goal
  <2>1. /\ pc = "settle" /\ pc' = "settle" /\ UNCHANGED <<disk, mem, view, logged>>
        /\ todo' \subseteq Tokens
        /\ work' = IF Pending(t) THEN work ELSE SettledBook(work, t)
    BY <1>13, <1>a DEF SettleToken, TypeOK
  <2>2. Durable' = Durable /\ NoCashLost /\ mem = Durable /\ mem \in Books
    BY <1>0, <2>1, RunningBook
  <2>3. Successor(work, mem, {}) /\ work \in Books
    BY <2>1 DEF Inv, Successor
  <2>4. Successor(work', mem, {}) /\ work' \in Books
    <3> DEFINE r == SettledBook(work, t)
    <3>1. Successor(r, work, {}) /\ r \in Books
      BY <1>a, <2>3, SettledBookSucceeds DEF TypeOK, Successor
    <3>2. work' = work \/ work' = r
      BY <2>1
    <3> HIDE DEF r
    <3>3. r.cash \in Int /\ work.cash \in Int /\ mem.cash \in Int
      BY <2>2, <2>3, <3>1 DEF Books
    <3>4. Successor(r, mem, {})
      BY <2>3, <3>1, <3>3, SuccessorTransitive
    <3>. QED
      BY <2>3, <3>1, <3>2, <3>4
  <2>5. TypeOK'
    BY <1>13, <1>a, <2>1, <2>4 DEF SettleToken, World, TypeOK, PCs
  <2>6. MemoryIsDurable' /\ LoggedIsDurable'
    BY <2>1, <2>2 DEF Inv, MemoryIsDurable, LoggedIsDurable, Recorded
  <2>. QED
    BY <2>1, <2>2, <2>4, <2>5, <2>6 DEF Inv, Successor, Recorded
<1>14. ASSUME NEW m \in Markets, NEW x \in Resolutions, Resolve(m, x) PROVE Goal
  <2>1. UNCHANGED <<disk, mem, pc, limit, work, todo, view, logged>>
    BY <1>14 DEF Resolve
  <2>2. Durable' = Durable /\ NoCashLost
    BY <1>0, <2>1
  <2>3. resolution' \in [Markets -> Resolutions]
    BY <1>14, <1>a DEF Resolve, TypeOK
  <2>4. TypeOK'
    BY <1>a, <2>1, <2>3 DEF TypeOK
  <2>5. MemoryIsDurable' /\ LoggedIsDurable'
    BY <2>1, <2>2 DEF Inv, MemoryIsDurable, LoggedIsDurable, Recorded, Running
  <2>. QED
    BY <2>1, <2>2, <2>4, <2>5 DEF Inv, Successor, Recorded
<1>15. ASSUME ProcessGone, disk' \in {disk, mem}, disk' = mem => pc # "down" PROVE Goal
  <2>1. pc' = "down" /\ mem' = NoBook /\ work' = NoBook /\ todo' = {} /\ view' = NoNews
        /\ logged' = logged /\ limit' = limit /\ resolution' = resolution
    BY <1>15 DEF ProcessGone, World
  <2>2. Durable' = Durable /\ NoCashLost /\ disk' \in Books \cup {NoFile}
    <3>1. CASE disk' = disk
      BY <1>0, <1>a, <3>1 DEF TypeOK
    <3>2. CASE disk' = mem
      <4>1. mem \in Books /\ mem = Durable
        BY <1>15, <3>2, RunningBook
      <4>2. mem # NoFile
        BY <4>1, ConstantsAssumption
      <4>3. Durable' = Durable
        BY <3>2, <4>1, <4>2 DEF Durable
      <4>4. NoCashLost
        BY <1>c, <3>2, <4>1 DEF NoCashLost, Books
      <4>. QED
        BY <3>2, <4>1, <4>3, <4>4
    <3>. QED
      BY <1>15, <3>1, <3>2
  <2>3. TypeOK'
    BY <1>a, <1>b, <2>1, <2>2 DEF TypeOK, PCs
  <2>4. MemoryIsDurable' /\ LoggedIsDurable'
    BY <2>1, <2>2 DEF Inv, MemoryIsDurable, Running, LoggedIsDurable, Recorded
  <2>. QED
    BY <2>1, <2>2, <2>3, <2>4 DEF Inv
<1>16. CASE Shutdown
  BY <1>15, <1>16 DEF Shutdown
<1>17. CASE Crash
  BY <1>15, <1>17 DEF Crash
<1>18. CASE Reset
  <2>1. pc = "down" /\ disk' = InitialBook /\ logged' = {}
        /\ UNCHANGED <<mem, pc, work, todo, view, limit, resolution>>
    BY <1>18 DEF Reset, World
  <2>2. NoCashLost
    BY <2>1 DEF NoCashLost
  <2>3. TypeOK'
    BY <1>a, <2>1, InitialBookType DEF TypeOK
  <2>4. MemoryIsDurable' /\ LoggedIsDurable'
    BY <2>1 DEF MemoryIsDurable, Running, LoggedIsDurable
  <2>. QED
    BY <2>1, <2>2, <2>3, <2>4 DEF Inv
<1>. QED
  <2>1. CASE Next
    BY <2>1, <1>2, <1>3, <1>4, <1>5, <1>6, <1>7, <1>8, <1>9, <1>10, <1>11, <1>12,
       <1>13, <1>14, <1>16, <1>17, <1>18 DEF Next
  <2>. QED
    BY <1>1, <2>1

-----------------------------------------------------------------------------
(* The theorems *)

LEMMA InvAlways == Spec => []Inv
  BY InitInv, NextInv, PTL DEF Spec

\* Every book the runner keeps, saves or settles is a book: no share count, cost basis
\* or step quantity ever becomes negative, so none of the clamps in paper.py acts.
THEOREM PaperTypeCorrect == Spec => []TypeOK
  BY InvAlways, PTL DEF Inv

\* Memory and file agree between any two handlers of a running process, whatever save
\* failed before (PaperPortfolio._save_state, _reload_after_failed_save).
THEOREM MemoryAlwaysDurable == Spec => []MemoryIsDurable
  BY InvAlways, PTL DEF Inv

\* The event log never names an execution that the file does not hold: a crash or a
\* failed save between the save and the append can lose an event, never invent one.
THEOREM LogNeverAhead == Spec => []LoggedIsDurable
  BY InvAlways, PTL DEF Inv

\* No handler but reset ever saves a portfolio with less cash: complete sets are bought
\* and redeemed in one saved step, and every such step pays for itself.
THEOREM CashMonotone == Spec => CashNeverFalls
<1>1. Inv /\ [Next]_vars
      => [(disk \in Books /\ disk' # InitialBook) => (disk'.cash >= disk.cash)]_vars
  BY NextInv DEF NoCashLost
<1>. QED
  BY <1>1, InvAlways, PTL DEF Spec, CashNeverFalls

-----------------------------------------------------------------------------
(* Executions.  An id has the number that comes after the length of the      *)
(* list when the execution starts; other executions may have lengthened the  *)
(* list before the one that carries the number is recorded.                  *)

\* What a handler may save: a well-kept book whose active execution is not recorded.
Kept(b) ==
    /\ WellKept(b)
    /\ b.active # NoActive => ~Recorded(b, b.active.id)

\* Recovery is the only handler that may meet an active execution that is recorded.
IdsInv ==
    /\ WellKept(Durable)
    /\ pc \in {"idle", "step", "settle"} => Kept(Durable)
    /\ pc = "settle" => work.executions = mem.executions /\ work.active = mem.active
    /\ pc # "down" /\ ZeroFriction => Durable.active = NoActive

-----------------------------------------------------------------------------
(* What each handler does to the list of executions and to the active one *)

LEMMA FilledBookRecords ==
  ASSUME NEW b \in Books, b.active \in Actives, limit \in Nat,
         ~StepsOver(b.active), StepValid(b.active)
  PROVE  /\ FilledBook(b).executions = b.executions
         /\ FilledBook(b).active.id = b.active.id
<1> DEFINE a == b.active
           m == a.plan.market
           f == StepFill(a)
           x == ApplyExecution(b, m, f)
           g == NetProfit(b, m, f)
           t == StepTaken(a, g)
           r == WithActive(x, t)
<1>1. FilledBook(b) = r
  BY DEF FilledBook
<1>2. a \in Actives /\ m \in Markets /\ f \in Fills /\ ~StepsOver(a)
  BY ActiveParts, StepFillType
<1> HIDE DEF a, m, f
<1>3. x \in Books /\ x.executions = b.executions /\ g \in Int
  BY <1>2, ApplyExecutionBook
<1> HIDE DEF x, g
<1>4. t \in Actives
  BY <1>2, <1>3, StepTakenType
<1>5. t.id = a.id
  BY <1>2, Zenon DEF StepTaken, Actives
<1> HIDE DEF t
<1>6. r.active = t /\ r.executions = x.executions
  BY <1>3, <1>4, WithActiveBook
<1> HIDE DEF r
<1>. QED
  BY <1>1, <1>3, <1>5, <1>6 DEF a

LEMMA ClosedBookRecords ==
  ASSUME NEW b \in Books, b.active \in Actives
  PROVE  /\ ClosedBook(b).executions = Append(b.executions, Aggregate(b.active))
         /\ ClosedBook(b).active = NoActive
<1> DEFINE e == Aggregate(b.active)
           r == Record(b, e)
<1>1. e \in Executions
  BY AggregateType
<1>2. ClosedBook(b) = WithActive(r, NoActive)
  BY DEF ClosedBook
<1> HIDE DEF e
<1>3. r \in Books /\ r.executions = Append(b.executions, e)
  BY <1>1, RecordBook
<1> HIDE DEF r
<1>4. /\ WithActive(r, NoActive).executions = r.executions
      /\ WithActive(r, NoActive).active = NoActive
  BY <1>3, WithActiveBook
<1>. QED
  BY <1>2, <1>3, <1>4 DEF e

LEMMA AppliedRecords ==
  ASSUME NEW b \in Books, NEW m \in Markets, NEW f \in Fills, NEW e \in Executions
  PROVE  /\ Record(ApplyExecution(b, m, f), e).executions = Append(b.executions, e)
         /\ Record(ApplyExecution(b, m, f), e).active = b.active
<1> DEFINE x == ApplyExecution(b, m, f)
<1>1. x \in Books /\ x.executions = b.executions /\ x.active = b.active
  BY ApplyExecutionBook
<1> HIDE DEF x
<1>2. Record(x, e).executions = Append(x.executions, e) /\ Record(x, e).active = x.active
  BY <1>1, RecordBook
<1>. QED
  BY <1>1, <1>2 DEF x

LEMMA ExecutedBookRecords ==
  ASSUME NEW b \in Books, NEW p \in Plans, limit \in StepLimits
  PROVE  \E e \in Executions :
            /\ e.id = NewId(b, p.market, FingerprintOf(p, limit), "pair")
            /\ ExecutedBook(b, p).executions = Append(b.executions, e)
            /\ ExecutedBook(b, p).active = b.active
<1> DEFINE m == p.market
           f == FillOf(p, p.qty, Merge)
           id == NewId(b, m, FingerprintOf(p, limit), "pair")
           e == [id |-> id, qty |-> p.qty, spent |-> Spend(f), profit |-> NetProfit(b, m, f)]
<1>1. p \in PlanRecords /\ m \in Markets /\ FingerprintOf(p, limit) \in AnyFp /\ p.qty \in Nat
  BY Numbers, FingerprintType DEF PlanRecords
<1>2. f \in Fills
  BY <1>1, FillType, Numbers
<1>3. id \in Ids
  BY <1>1, NewIdType
<1>4. ExecutedBook(b, p) = Record(ApplyExecution(b, m, f), e)
  BY DEF ExecutedBook
<1> HIDE DEF m, f, id
<1>5. Spend(f) \in Int /\ NetProfit(b, m, f) \in Int
  BY <1>1, <1>2, ApplyExecutionBook
<1>6. e \in Executions /\ e.id = id
  BY <1>1, <1>3, <1>5 DEF Executions
<1> HIDE DEF e
<1>. QED
  BY <1>1, <1>2, <1>4, <1>6, AppliedRecords DEF id, m

LEMMA LegBookRecords ==
  ASSUME NEW b \in Books, NEW m \in Markets, NEW price \in LegPrices
  PROVE  \E e \in Executions :
            /\ e.id = NewId(b, m, LegFp, "inventory")
            /\ LegBook(b, m, price).executions = Append(b.executions, e)
            /\ LegBook(b, m, price).active = b.active
<1> DEFINE q == Missing(b, m)
           f == LegFill(b, m, price)
           id == NewId(b, m, LegFp, "inventory")
           e == [id |-> id, qty |-> q, spent |-> Spend(f), profit |-> NetProfit(b, m, f)]
<1>1. q \in Nat /\ f \in Fills
  BY Numbers, LegFillType
<1>2. id \in Ids
  BY NewIdType DEF AnyFp
<1>3. LegBook(b, m, price) = Record(ApplyExecution(b, m, f), e)
  BY DEF LegBook
<1> HIDE DEF q, f, id
<1>4. Spend(f) \in Int /\ NetProfit(b, m, f) \in Int
  BY <1>1, ApplyExecutionBook
<1>5. e \in Executions /\ e.id = id
  BY <1>1, <1>2, <1>4 DEF Executions
<1> HIDE DEF e
<1>. QED
  BY <1>1, <1>3, <1>5, AppliedRecords DEF id

LEMMA SettledBookRecords ==
  ASSUME NEW b \in Books, NEW t \in Tokens, view \in Views
  PROVE  /\ SettledBook(b, t).executions = b.executions
         /\ SettledBook(b, t).active = b.active
<1> DEFINE value == IF view[t[1]].verdict = t[2] THEN b.qty[t] * Payout ELSE 0
           gain == value - b.cost[t]
           s == [token |-> t, form |-> WinnerForm(t), gain |-> gain]
           qty == [b.qty EXCEPT ![t] = 0]
           cost == [b.cost EXCEPT ![t] = 0]
<1>1. b.qty[t] \in Nat /\ b.cost[t] \in Nat
  BY DEF Books
<1>2. value \in Nat
  BY <1>1, Numbers
<1>3. gain \in Int
  <2> HIDE DEF value
  <2>. QED
    BY <1>1, <1>2
<1>4. qty \in [Tokens -> Nat] /\ cost \in [Tokens -> Nat]
  BY DEF Books
<1>5. WinnerForm(t) \in Forms
  BY DEF WinnerForm, Forms, Views, Tokens
<1>6. \/ SettledBook(b, t) = DropRow(b, t, 0, 0)
      \/ SettledBook(b, t) = AddSettlement(DropRow(b, t, value, gain), s)
  BY DEF SettledBook
<1>7. \A c, g : DropRow(b, t, c, g) = Post(b, c, g, qty, cost)
  BY DEF DropRow
<1> HIDE DEF value, gain, qty, cost
<1>8. s \in Settlements
  BY <1>3, <1>5 DEF Settlements
<1> HIDE DEF s
<1>9. ASSUME NEW c \in Nat, NEW g \in Int
      PROVE  /\ DropRow(b, t, c, g) \in Books
             /\ DropRow(b, t, c, g).executions = b.executions
             /\ DropRow(b, t, c, g).active = b.active
  <2>1. Posted(Post(b, c, g, qty, cost), b, c, g, qty, cost)
    BY <1>4, PostBook
  <2>. QED
    BY <1>7, <2>1, Zenon DEF Posted
<1> DEFINE d == DropRow(b, t, value, gain)
<1>10. d \in Books /\ d.executions = b.executions /\ d.active = b.active
  BY <1>2, <1>3, <1>9
<1>11. /\ DropRow(b, t, 0, 0).executions = b.executions
       /\ DropRow(b, t, 0, 0).active = b.active
  BY <1>9
<1> HIDE DEF d
<1>12. /\ AddSettlement(d, s).executions = d.executions
       /\ AddSettlement(d, s).active = d.active
  BY <1>8, <1>10, AddSettlementBook
<1>. QED
  BY <1>6, <1>10, <1>11, <1>12 DEF d

-----------------------------------------------------------------------------
(* Numbering *)

\* A number that is ahead of every recorded pair is not recorded.
LEMMA AheadUnrecorded ==
  ASSUME NEW b \in Books, NEW id \in Ids, Ahead(id, b.executions)
  PROVE  ~Recorded(b, id)
<1>1. id.n \in Nat /\ id.kind = "pair"
  BY DEF Ids, Ahead
<1>2. ASSUME NEW i \in DOMAIN b.executions, b.executions[i].id = id PROVE FALSE
  <2>1. id.n < id.n
    BY <1>1, <1>2, Zenon DEF Ahead
  <2>. QED
    BY <1>1, <2>1
<1>. QED
  BY <1>2 DEF Recorded

\* Appending an inventory buy under the next number, or a pair that is ahead, keeps the
\* list numbered.
LEMMA NumberedAppend ==
  ASSUME NEW E \in Seq(Executions), Numbered(E), NEW e \in Executions,
         \/ e.id.kind = "inventory" /\ e.id.n = Len(E) + 1
         \/ Ahead(e.id, E)
  PROVE  Numbered(Append(E, e))
<1> DEFINE F == Append(E, e)
<1>1. /\ Len(E) \in Nat /\ DOMAIN E = 1 .. Len(E) /\ DOMAIN F = 1 .. Len(E) + 1
      /\ \A i \in DOMAIN E : F[i] = E[i] /\ E[i] \in Executions
      /\ F[Len(E) + 1] = e
  OBVIOUS
<1>2. e.id.n \in Nat
  BY DEF Executions, Ids
<1>3. \A i \in DOMAIN E : E[i].id.n \in Nat
  BY <1>1 DEF Executions, Ids
<1> HIDE DEF F
<1>4. ASSUME NEW i \in DOMAIN F
      PROVE  F[i].id.n <= i /\ (F[i].id.kind = "inventory" => F[i].id.n = i)
  <2>1. CASE i \in DOMAIN E
    BY <1>1, <2>1 DEF Numbered
  <2>2. CASE i = Len(E) + 1
    BY <1>1, <1>2, <2>2 DEF Ahead
  <2>. QED
    BY <1>1, <2>1, <2>2
<1>5. ASSUME NEW i \in DOMAIN F, NEW j \in DOMAIN F, i < j,
             F[i].id.kind = "pair", F[j].id.kind = "pair"
      PROVE  F[i].id.n < F[j].id.n
  <2>1. i \in DOMAIN E
    BY <1>1, <1>5
  <2>2. CASE j \in DOMAIN E
    BY <1>1, <1>5, <2>1, <2>2 DEF Numbered
  <2>3. CASE j = Len(E) + 1
    BY <1>1, <1>5, <2>1, <2>3 DEF Ahead
  <2>. QED
    BY <1>1, <2>2, <2>3
<1>6. Numbered(F)
  BY <1>4, <1>5 DEF Numbered
<1>. QED
  BY <1>6 DEF F

LEMMA AheadAppend ==
  ASSUME NEW E \in Seq(Executions), NEW e \in Executions, NEW id \in Ids,
         Ahead(id, E), e.id.kind = "inventory"
  PROVE  Ahead(id, Append(E, e))
<1> DEFINE F == Append(E, e)
<1>1. /\ Len(E) \in Nat /\ DOMAIN E = 1 .. Len(E) /\ DOMAIN F = 1 .. Len(E) + 1
      /\ \A i \in DOMAIN E : F[i] = E[i]
      /\ F[Len(E) + 1] = e /\ Len(F) = Len(E) + 1
  OBVIOUS
<1>2. id.n \in Nat
  BY DEF Ids
<1> HIDE DEF F
<1>3. Ahead(id, F)
  BY <1>1, <1>2 DEF Ahead
<1>. QED
  BY <1>3 DEF F

\* An active execution that is ahead of the list is kept.
LEMMA KeptWhenAhead ==
  ASSUME NEW b \in Books, Numbered(b.executions),
         b.active # NoActive => Ahead(b.active.id, b.executions)
  PROVE  Kept(b)
<1>1. ASSUME b.active # NoActive PROVE ~Recorded(b, b.active.id)
  <2>1. b.active.id \in Ids
    BY <1>1, ActiveParts DEF Books
  <2>. QED
    BY <1>1, <2>1, AheadUnrecorded
<1>. QED
  BY <1>1, Zenon DEF Kept, WellKept

\* ... and the converse: what a handler finds.
LEMMA KeptIsAhead ==
  ASSUME NEW b \in Books, Kept(b)
  PROVE  /\ Numbered(b.executions)
         /\ b.active # NoActive => Ahead(b.active.id, b.executions)
  BY DEF Kept, WellKept

\* The next number is ahead of every recorded one.
LEMMA NewIdAhead ==
  ASSUME NEW b \in Books, Numbered(b.executions), NEW m \in Markets, NEW fp \in AnyFp
  PROVE  Ahead(NewId(b, m, fp, "pair"), b.executions)
<1> DEFINE E == b.executions
<1>1. E \in Seq(Executions)
  BY DEF Books
<1> HIDE DEF E
<1>2. Len(E) \in Nat /\ \A i \in DOMAIN E : i \in 1 .. Len(E) /\ E[i] \in Executions
  BY <1>1
<1>3. ASSUME NEW i \in DOMAIN E PROVE E[i].id.n < Len(E) + 1
  <2>1. E[i].id.n \in Nat
    BY <1>2 DEF Executions, Ids
  <2>2. E[i].id.n <= i
    BY DEF Numbered, E
  <2>. QED
    BY <1>2, <2>1, <2>2
<1>4. NewId(b, m, fp, "pair").n = Len(E) + 1 /\ NewId(b, m, fp, "pair").kind = "pair"
  BY DEF NewId, E
<1>. QED
  BY <1>2, <1>3, <1>4 DEF Ahead, E

LEMMA NewBookKept ==
  ASSUME NEW b \in Books, NEW r \in Books, Kept(b),
         r.executions = b.executions,
         r.active = NoActive \/ (b.active # NoActive /\ r.active.id = b.active.id)
  PROVE  Kept(r)
  BY KeptIsAhead, KeptWhenAhead

LEMMA ClosedBookKept ==
  ASSUME NEW b \in Books, b.active \in Actives, Numbered(b.executions),
         Ahead(b.active.id, b.executions)
  PROVE  Kept(ClosedBook(b))
<1> DEFINE r == ClosedBook(b)
           e == Aggregate(b.active)
<1>1. r \in Books
  BY ClosedBookSucceeds DEF Successor
<1>2. r.executions = Append(b.executions, e) /\ r.active = NoActive
  BY ClosedBookRecords
<1>3. e \in Executions /\ e.id = b.active.id
  BY AggregateType
<1> HIDE DEF r, e
<1>4. b.executions \in Seq(Executions)
  BY DEF Books
<1>5. Numbered(r.executions)
  BY <1>2, <1>3, <1>4, NumberedAppend
<1>6. Kept(r)
  BY <1>1, <1>2, <1>5, KeptWhenAhead
<1>. QED
  BY <1>6 DEF r

\* A handler that records a pair under a number that is ahead, or an inventory buy under
\* the next number, keeps the book.
LEMMA RecordingKept ==
  ASSUME NEW b \in Books, NEW r \in Books, Kept(b), NEW e \in Executions,
         r.executions = Append(b.executions, e), r.active = b.active,
         \/ e.id.kind = "inventory" /\ e.id.n = Len(b.executions) + 1
         \/ Ahead(e.id, b.executions) /\ b.active = NoActive
  PROVE  Kept(r)
<1> DEFINE E == b.executions
<1>1. E \in Seq(Executions) /\ Numbered(E)
  BY KeptIsAhead DEF Books
<1>2. Numbered(r.executions)
  BY <1>1, NumberedAppend
<1>3. ASSUME r.active # NoActive PROVE Ahead(r.active.id, r.executions)
  <2>1. Ahead(b.active.id, E) /\ e.id.kind = "inventory"
    BY <1>3, KeptIsAhead
  <2>2. b.active.id \in Ids
    BY <1>3, ActiveParts DEF Books
  <2> HIDE DEF E
  <2>3. Ahead(b.active.id, Append(E, e))
    BY <1>1, <2>1, <2>2, AheadAppend
  <2>. QED
    BY <2>1, <2>3 DEF E
<1>. QED
  BY <1>2, <1>3, KeptWhenAhead

LEMMA StartedBookKept ==
  ASSUME NEW b \in Books, Kept(b), NEW p \in Plans, limit \in StepLimits, ~ZeroFriction
  PROVE  /\ WithActive(b, NewActive(b, p)) \in Books
         /\ Kept(WithActive(b, NewActive(b, p)))
<1> DEFINE a == NewActive(b, p)
           r == WithActive(b, a)
<1>1. p.market \in Markets /\ FingerprintOf(p, limit) \in AnyFp
  BY Numbers, FingerprintType DEF PlanRecords
<1>2. Numbered(b.executions)
  BY KeptIsAhead
<1>3. Ahead(NewId(b, p.market, FingerprintOf(p, limit), "pair"), b.executions)
  BY <1>1, <1>2, NewIdAhead
<1>4. a \in Actives /\ a.id = NewId(b, p.market, FingerprintOf(p, limit), "pair")
  BY NewActiveType DEF NewActive
<1> HIDE DEF a
<1>5. r \in Books /\ r.active = a /\ r.executions = b.executions
  BY <1>4, WithActiveBook
<1> HIDE DEF r
<1>6. Kept(r)
  BY <1>2, <1>3, <1>4, <1>5, KeptWhenAhead
<1>. QED
  BY <1>5, <1>6 DEF r, a

LEMMA FilledBookKept ==
  ASSUME NEW b \in Books, Kept(b), b.active \in Actives, limit \in Nat,
         ~StepsOver(b.active), StepValid(b.active)
  PROVE  FilledBook(b) \in Books /\ Kept(FilledBook(b))
<1> DEFINE r == FilledBook(b)
<1>1. r \in Books
  BY FilledBookSucceeds DEF Successor
<1>2. r.executions = b.executions /\ r.active.id = b.active.id
  BY FilledBookRecords
<1>3. b.active # NoActive
  BY ConstantsAssumption
<1> HIDE DEF r
<1>4. Kept(r)
  BY <1>1, <1>2, <1>3, NewBookKept
<1>. QED
  BY <1>1, <1>4 DEF r

LEMMA ExecutedBookKept ==
  ASSUME NEW b \in Books, Kept(b), NEW p \in Plans, limit \in StepLimits, b.active = NoActive,
         ExecutedBook(b, p) \in Books
  PROVE  Kept(ExecutedBook(b, p))
<1> DEFINE r == ExecutedBook(b, p)
<1>1. p.market \in Markets /\ FingerprintOf(p, limit) \in AnyFp
  BY Numbers, FingerprintType DEF PlanRecords
<1>2. Numbered(b.executions) /\ b.active = NoActive
  BY KeptIsAhead
<1>3. PICK e \in Executions :
        /\ e.id = NewId(b, p.market, FingerprintOf(p, limit), "pair")
        /\ r.executions = Append(b.executions, e)
        /\ r.active = b.active
  BY ExecutedBookRecords
<1>4. Ahead(e.id, b.executions)
  BY <1>1, <1>2, <1>3, NewIdAhead
<1> HIDE DEF r
<1>5. Kept(r)
  <2>1. r \in Books
    BY DEF r
  <2>. QED
    BY <1>2, <1>3, <1>4, <2>1, RecordingKept
<1>. QED
  BY <1>5 DEF r

LEMMA LegBookKept ==
  ASSUME NEW b \in Books, Kept(b), NEW m \in Markets, NEW price \in LegPrices,
         LegBook(b, m, price) \in Books
  PROVE  Kept(LegBook(b, m, price))
<1> DEFINE r == LegBook(b, m, price)
<1>1. PICK e \in Executions :
        /\ e.id = NewId(b, m, LegFp, "inventory")
        /\ r.executions = Append(b.executions, e)
        /\ r.active = b.active
  BY LegBookRecords
<1>2. e.id.kind = "inventory" /\ e.id.n = Len(b.executions) + 1
  BY <1>1 DEF NewId
<1>3. r \in Books
  OBVIOUS
<1> HIDE DEF r
<1>4. Kept(r)
  BY <1>1, <1>2, <1>3, RecordingKept
<1>. QED
  BY <1>4 DEF r

LEMMA AbortedIsKept ==
  ASSUME NEW b \in Books, Numbered(b.executions)
  PROVE  AbortedBook(b) \in Books /\ Kept(AbortedBook(b))
<1> DEFINE r == AbortedBook(b)
<1>1. r \in Books /\ r.active = NoActive /\ r.executions = b.executions
  BY WithActiveBook DEF AbortedBook
<1> HIDE DEF r
<1>2. Kept(r)
  BY <1>1, KeptWhenAhead
<1>. QED
  BY <1>1, <1>2 DEF r

\* Recovery: an execution that was recorded before the crash is not recorded again.
LEMMA RecoveredBookKept ==
  ASSUME NEW b \in Books, b.active \in Actives, WellKept(b)
  PROVE  RecoveredBook(b) \in Books /\ Kept(RecoveredBook(b))
<1>1. Numbered(b.executions) /\ b.active # NoActive
  BY ConstantsAssumption DEF WellKept
<1>2. CASE Recorded(b, b.active.id)
  BY <1>1, <1>2, AbortedIsKept DEF RecoveredBook
<1>3. CASE ~Recorded(b, b.active.id)
  <2>1. Ahead(b.active.id, b.executions)
    BY <1>1, <1>3 DEF WellKept
  <2>2. ClosedBook(b) \in Books /\ Kept(ClosedBook(b))
    BY <1>1, <2>1, ClosedBookKept, ClosedBookSucceeds DEF Successor
  <2>. QED
    BY <1>3, <2>2 DEF RecoveredBook
<1>. QED
  BY <1>2, <1>3

-----------------------------------------------------------------------------
(* The inductive invariant *)

\* Whatever becomes of a save, what is on file is well kept.
LEMMA SavingKeepsIds ==
  ASSUME Inv, IdsInv, pc # "down", NEW r \in Books, Kept(r), NEW next \in {"idle", "step"},
         NEW ids, Commit(r, next, ids) \/ (pc # "boot" /\ SaveFails(r)),
         ZeroFriction => r.active = NoActive, limit' = limit
  PROVE  IdsInv'
<1>1. mem = Durable /\ pc \in PCs
  BY RunningBook DEF Inv, TypeOK
<1>2. CASE Commit(r, next, ids)
  <2>1. Durable' = r /\ pc' = next
    BY <1>2, ConstantsAssumption DEF Commit, Durable
  <2>. QED
    BY <2>1 DEF IdsInv, Kept, ZeroFriction
<1>3. CASE pc # "boot" /\ SaveFails(r)
  <2>1. Durable' = Durable /\ pc' = "idle"
    BY <1>3 DEF SaveFails, Durable
  <2>2. Kept(Durable)
    BY <1>1, <1>3 DEF IdsInv, PCs
  <2>. QED
    BY <2>1, <2>2 DEF IdsInv, Kept, ZeroFriction
<1>. QED
  BY <1>2, <1>3

LEMMA InitIds == Init => IdsInv
<1> SUFFICES ASSUME Init PROVE IdsInv
  OBVIOUS
<1>1. WellKept(InitialBook)
  BY DEF WellKept, InitialBook, Numbered
<1>2. WellKept(Durable)
  BY <1>1, SavedAssumption, Zenon DEF Init, Durable
<1>. QED
  BY <1>2 DEF Init, IdsInv

LEMMA NextIds == Inv /\ IdsInv /\ [Next]_vars => IdsInv'
<1> SUFFICES ASSUME Inv, IdsInv, [Next]_vars PROVE IdsInv'
  OBVIOUS
<1>a. limit \in StepLimits /\ StepLimits \subseteq Nat /\ view \in Views
  BY Numbers DEF Inv, TypeOK
<1>b. ASSUME disk' = disk PROVE Durable' = Durable
  BY <1>b DEF Durable
<1>c. ASSUME pc \in {"idle", "step", "settle"}
      PROVE  mem \in Books /\ mem = Durable /\ Kept(mem) /\ pc # "down" /\ pc # "boot"
  BY <1>c, RunningBook DEF IdsInv
<1>d. ASSUME pc \in {"idle", "step", "settle"}, ZeroFriction PROVE mem.active = NoActive
  BY <1>c, <1>d DEF IdsInv
<1>e. pc = "step" => mem.active # NoActive
  BY DEF Inv, TypeOK
<1>1. CASE UNCHANGED vars
  <2>1. disk' = disk /\ pc' = pc /\ work' = work /\ mem' = mem /\ limit' = limit
    BY <1>1 DEF vars
  <2>. QED
    BY <1>b, <2>1 DEF IdsInv, ZeroFriction
<1>2. CASE Boot
  <2>1. Durable' = Durable /\ mem' = Durable /\ pc' = "boot"
    BY <1>b, <1>2 DEF Boot, Durable
  <2>. QED
    BY <1>2, <2>1 DEF Boot, IdsInv, ZeroFriction
<1>3. CASE Recover
  <2>1. /\ pc = "boot" /\ mem \in Books /\ mem = Durable /\ WellKept(mem)
        /\ limit' = limit /\ (ZeroFriction => mem.active = NoActive)
    BY <1>3, RunningBook DEF Recover, IdsInv, World
  <2>2. CASE mem.active # NoActive /\ Completed(mem.active)
    <3>1. mem.active \in Actives
      BY <2>1, <2>2 DEF Books
    <3>2. RecoveredBook(mem) \in Books /\ Kept(RecoveredBook(mem))
      BY <2>1, <3>1, RecoveredBookKept
    <3>3. Commit(RecoveredBook(mem), "idle", {mem.active.id})
      BY <1>3, <2>2 DEF Recover
    <3>4. ~ZeroFriction /\ limit' = limit
      BY <2>1, <2>2
    <3>. QED
      BY <2>1, <3>2, <3>3, <3>4, SavingKeepsIds
  <2>3. CASE ~(mem.active # NoActive /\ Completed(mem.active))
    <3>1. disk' = disk /\ pc' = "idle"
      BY <1>3, <2>3 DEF Recover
    <3>2. Kept(mem)
      BY <2>1, <2>3 DEF WellKept, Kept
    <3>. QED
      BY <1>b, <2>1, <3>1, <3>2 DEF IdsInv, ZeroFriction
  <2>. QED
    BY <2>2, <2>3
<1>4. ASSUME NEW p \in Plans, StartExecution(p) PROVE IdsInv'
  <2> DEFINE r == WithActive(mem, NewActive(mem, p))
  <2>1. pc = "idle" /\ ~ZeroFriction /\ Save(r, "step", {}) /\ limit' = limit
    BY <1>4 DEF StartExecution, World
  <2>2. r \in Books /\ Kept(r)
    BY <1>a, <1>c, <2>1, StartedBookKept
  <2> HIDE DEF r
  <2>. QED
    BY <1>c, <2>1, <2>2, SavingKeepsIds DEF Save
<1>5. ASSUME NEW p \in Plans, ExecuteOnce(p) PROVE IdsInv'
  <2> DEFINE r == ExecutedBook(mem, p)
             id == NewId(mem, p.market, FingerprintOf(p, limit), "pair")
  <2>1. /\ pc = "idle" /\ ZeroFriction /\ PlanAccepted(mem, p) /\ Save(r, "idle", {id})
        /\ limit' = limit /\ mem.active = NoActive
    BY <1>d, <1>5 DEF ExecuteOnce, World
  <2>2. r \in Books
    BY <1>a, <1>c, <2>1, ExecutedBookSucceeds DEF Successor
  <2>3. Kept(r)
    BY <1>a, <1>c, <2>1, <2>2, ExecutedBookKept
  <2>4. r.active = NoActive
    BY <1>a, <1>c, <2>1, ExecutedBookRecords
  <2> HIDE DEF r, id
  <2>. QED
    BY <1>c, <2>1, <2>2, <2>3, <2>4, SavingKeepsIds DEF Save
<1>6. CASE ResumeExecution
  BY <1>b, <1>6 DEF ResumeExecution, World, IdsInv, ZeroFriction
<1>7. CASE FillStep
  <2> DEFINE r == FilledBook(mem)
  <2>1. /\ pc = "step" /\ ~StepsOver(mem.active) /\ StepValid(mem.active)
        /\ Save(r, "step", {}) /\ limit' = limit /\ ~ZeroFriction
    BY <1>d, <1>e, <1>7 DEF FillStep, World
  <2>2. mem.active \in Actives /\ limit \in Nat
    BY <1>a, <1>c, <2>1 DEF Inv, TypeOK, Books
  <2>3. r \in Books /\ Kept(r)
    BY <1>c, <2>1, <2>2, FilledBookKept
  <2> HIDE DEF r
  <2>. QED
    BY <1>c, <2>1, <2>3, SavingKeepsIds DEF Save
<1>8. CASE FinalizeExecution
  <2> DEFINE r == ClosedBook(mem)
  <2>1. pc = "step" /\ Save(r, "idle", {mem.active.id}) /\ limit' = limit /\ ~ZeroFriction
    BY <1>d, <1>e, <1>8 DEF FinalizeExecution, World
  <2>2. mem.active \in Actives /\ mem.active # NoActive
    BY <1>c, <2>1 DEF Inv, TypeOK, Books
  <2>3. Numbered(mem.executions) /\ Ahead(mem.active.id, mem.executions)
    BY <1>c, <2>1, <2>2, KeptIsAhead
  <2>4. r \in Books /\ Kept(r)
    BY <1>c, <2>1, <2>2, <2>3, ClosedBookKept, ClosedBookSucceeds DEF Successor
  <2> HIDE DEF r
  <2>. QED
    BY <1>c, <2>1, <2>4, SavingKeepsIds DEF Save
<1>9. CASE AbortExecution
  <2> DEFINE r == AbortedBook(mem)
  <2>1. pc = "step" /\ Save(r, "idle", {}) /\ limit' = limit /\ ~ZeroFriction
    BY <1>d, <1>e, <1>9 DEF AbortExecution, World
  <2>2. r \in Books /\ Kept(r)
    BY <1>c, <2>1, AbortedIsKept, KeptIsAhead
  <2> HIDE DEF r
  <2>. QED
    BY <1>c, <2>1, <2>2, SavingKeepsIds DEF Save
<1>10. ASSUME NEW m \in Markets, NEW price \in LegPrices, CompleteLeg(m, price)
       PROVE  IdsInv'
  <2> DEFINE r == LegBook(mem, m, price)
             id == NewId(mem, m, LegFp, "inventory")
  <2>1. /\ pc = "idle" /\ LegAccepted(mem, m, price) /\ Save(r, "idle", {id})
        /\ limit' = limit
    BY <1>10 DEF CompleteLeg, World
  <2>2. r \in Books
    BY <1>c, <2>1, LegBookSucceeds DEF Successor
  <2>3. Kept(r)
    BY <1>c, <2>1, <2>2, LegBookKept
  <2>4. r.active = mem.active
    BY <1>c, <2>1, LegBookRecords
  <2> HIDE DEF r, id
  <2>. QED
    BY <1>c, <1>d, <2>1, <2>2, <2>3, <2>4, SavingKeepsIds DEF Save
<1>11. CASE BeginReconcile
  <2>1. pc = "idle" /\ disk' = disk /\ mem' = mem /\ work' = mem /\ limit' = limit
    BY <1>11 DEF BeginReconcile, World
  <2>2. Durable' = Durable /\ Kept(Durable)
    BY <1>b, <1>c, <2>1
  <2>. QED
    BY <2>1, <2>2 DEF IdsInv, Kept, ZeroFriction
<1>12. CASE EndReconcile
  <2>1. pc = "settle" /\ work \in Books /\ limit' = limit
    BY <1>12 DEF EndReconcile, World, Inv, Successor
  <2>2. work.executions = mem.executions /\ work.active = mem.active
    BY <2>1 DEF IdsInv
  <2>3. Kept(work)
    BY <1>c, <2>1, <2>2, Zenon DEF Kept, WellKept, Recorded
  <2>4. CASE Save(work, "idle", {})
    BY <1>c, <1>d, <2>1, <2>2, <2>3, <2>4, SavingKeepsIds DEF Save
  <2>5. CASE pc' = "idle" /\ disk' = disk
    BY <1>b, <1>c, <2>1, <2>5 DEF IdsInv, ZeroFriction
  <2>. QED
    BY <1>12, <2>4, <2>5 DEF EndReconcile
<1>13. ASSUME NEW t \in Tokens, SettleToken(t) PROVE IdsInv'
  <2>1. /\ pc = "settle" /\ pc' = pc /\ disk' = disk /\ mem' = mem /\ limit' = limit
        /\ work' = IF Pending(t) THEN work ELSE SettledBook(work, t)
    BY <1>13 DEF SettleToken, World
  <2>2. /\ work \in Books
        /\ work.executions = mem.executions /\ work.active = mem.active
    BY <2>1 DEF IdsInv, Inv, Successor
  <2>3. /\ SettledBook(work, t).executions = work.executions
        /\ SettledBook(work, t).active = work.active
    BY <1>a, <2>2, SettledBookRecords
  <2>4. work' = work \/ work' = SettledBook(work, t)
    BY <2>1
  <2>5. work'.executions = mem'.executions /\ work'.active = mem'.active
    BY <2>1, <2>2, <2>3, <2>4
  <2>6. Durable' = Durable /\ Kept(Durable)
    BY <1>b, <1>c, <2>1
  <2>. QED
    BY <2>1, <2>5, <2>6 DEF IdsInv, Kept, ZeroFriction
<1>14. ASSUME NEW m \in Markets, NEW x \in Resolutions, Resolve(m, x) PROVE IdsInv'
  <2>1. disk' = disk /\ pc' = pc /\ work' = work /\ mem' = mem /\ limit' = limit
    BY <1>14 DEF Resolve
  <2>. QED
    BY <1>b, <2>1 DEF IdsInv, ZeroFriction
<1>15. ASSUME ProcessGone, disk' = disk \/ (pc = "idle" /\ disk' = mem) PROVE IdsInv'
  <2>1. pc' = "down"
    BY <1>15 DEF ProcessGone
  <2>2. Durable' = Durable
    <3>1. CASE disk' = disk
      BY <1>b, <3>1
    <3>2. CASE pc = "idle" /\ disk' = mem
      BY <1>c, <3>2, ConstantsAssumption DEF Durable
    <3>. QED
      BY <1>15, <3>1, <3>2
  <2>. QED
    BY <2>1, <2>2 DEF IdsInv
<1>16. CASE Shutdown
  BY <1>15, <1>16 DEF Shutdown
<1>17. CASE Crash
  BY <1>15, <1>17 DEF Crash
<1>18. CASE Reset
  <2>1. Durable' = InitialBook /\ pc' = "down"
    BY <1>18, InitialBookType, ConstantsAssumption DEF Reset, Durable
  <2>2. WellKept(InitialBook)
    BY DEF WellKept, InitialBook, Numbered
  <2>. QED
    BY <2>1, <2>2 DEF IdsInv
<1>. QED
  <2>1. CASE Next
    BY <2>1, <1>2, <1>3, <1>4, <1>5, <1>6, <1>7, <1>8, <1>9, <1>10, <1>11, <1>12,
       <1>13, <1>14, <1>16, <1>17, <1>18 DEF Next
  <2>. QED
    BY <1>1, <2>1

\* Two recorded executions with one number are one: pairs rise, and an inventory buy's
\* number is its place, which a pair's does not exceed.
LEMMA NumbersAreUnique ==
  ASSUME NEW E \in Seq(Executions), Numbered(E), NEW i \in DOMAIN E, NEW j \in DOMAIN E,
         E[i].id = E[j].id
  PROVE  i = j
<1>0. i \in Nat /\ j \in Nat /\ E[i] \in Executions /\ E[j] \in Executions
  OBVIOUS
<1>1. /\ i \in Nat /\ j \in Nat /\ E[i].id.n \in Nat /\ E[j].id.n \in Nat
      /\ E[i].id.kind \in {"pair", "inventory"}
  BY <1>0 DEF Executions, Ids
<1>2. CASE E[i].id.kind = "inventory"
  <2>1. E[i].id.n = i /\ E[j].id.n = j
    BY <1>2 DEF Numbered
  <2>. QED
    BY <2>1
<1>3. CASE E[i].id.kind = "pair"
  <2>1. E[j].id.kind = "pair"
    BY <1>3
  <2>2. i < j => E[i].id.n < E[j].id.n
    BY <1>3, <2>1, Zenon DEF Numbered
  <2>3. j < i => E[j].id.n < E[i].id.n
    BY <1>3, <2>1, Zenon DEF Numbered
  <2>4. ~(i < j) /\ ~(j < i)
    BY <1>1, <2>2, <2>3
  <2>. QED
    BY <1>1, <2>4
<1>. QED
  BY <1>1, <1>2, <1>3

LEMMA IdsInvImplies == Inv /\ IdsInv => RecordedOnce
<1> SUFFICES ASSUME Inv, IdsInv PROVE RecordedOnce
  OBVIOUS
<1> DEFINE b == Durable
<1>1. b \in Books /\ b.executions \in Seq(Executions)
  BY DurableType DEF Inv, TypeOK, Books
<1>2. WellKept(b) /\ (pc \in {"idle", "step", "settle"} => Kept(b)) /\ pc \in PCs
  BY DEF IdsInv, Inv, TypeOK
<1> HIDE DEF b
<1>3. \A i, j \in DOMAIN b.executions :
         b.executions[i].id = b.executions[j].id => i = j
  BY <1>1, <1>2, NumbersAreUnique DEF WellKept
<1>4. ASSUME b.active # NoActive, Recorded(b, b.active.id)
      PROVE  pc \in {"down", "boot"} /\ Completed(b.active)
  BY <1>2, <1>4 DEF WellKept, Kept, PCs
<1>. QED
  BY <1>3, <1>4 DEF RecordedOnce, b

\* Every execution is recorded exactly once: across crashes, failed saves, changed step
\* limits and inventory buys in between, no id is recorded twice, and the active
\* execution is recorded only in a file that start-up has still to recover
\* (recover_active_execution, _finalize_active_execution, execution_count).
THEOREM ExecutionsRecordedOnce == Spec => []RecordedOnce
<1>1. Spec => []IdsInv
  BY InitIds, NextIds, InvAlways, PTL DEF Spec
<1>. QED
  BY <1>1, IdsInvImplies, InvAlways, PTL

-----------------------------------------------------------------------------
(* What a step may do to the file *)

FileStep ==
    LET b == Durable
        a == b.active
    IN  \/ Durable' = b
        \/ Durable' = InitialBook
        \/ /\ pc = "boot" /\ a # NoActive /\ Completed(a)
           /\ Durable' = RecoveredBook(b)
        \/ \E p \in Plans :
              /\ pc = "idle" /\ ~ZeroFriction /\ a = NoActive /\ PlanAccepted(b, p)
              /\ Durable' = WithActive(b, NewActive(b, p))
        \/ /\ pc = "step" /\ ~StepsOver(a) /\ StepValid(a)
           /\ Durable' = FilledBook(b)
        \/ /\ pc = "step" /\ (StepsOver(a) \/ a.steps > 0)
           /\ Durable' = ClosedBook(b)
        \/ /\ pc = "step" /\ a.steps = 0
           /\ Durable' = AbortedBook(b)
        \/ \E p \in Plans :
              /\ pc = "idle" /\ a = NoActive /\ PlanAccepted(b, p)
              /\ Durable' = ExecutedBook(b, p)
        \/ \E m \in Markets, price \in LegPrices :
              /\ pc = "idle" /\ LegAccepted(b, m, price)
              /\ Durable' = LegBook(b, m, price)
        \/ pc = "settle" /\ todo = {} /\ Durable' = work

LEMMA SavedFile ==
  ASSUME NEW r \in Books, NEW next, NEW ids, Save(r, next, ids)
  PROVE  Durable' = r \/ Durable' = Durable
<1>1. CASE Commit(r, next, ids)
  BY <1>1, ConstantsAssumption DEF Commit, Durable
<1>2. CASE SaveFails(r)
  BY <1>2 DEF SaveFails, Durable
<1>. QED
  BY <1>1, <1>2 DEF Save

LEMMA FileSteps == Inv /\ IdsInv /\ [Next]_vars => FileStep
<1> SUFFICES ASSUME Inv, IdsInv, [Next]_vars PROVE FileStep
  OBVIOUS
<1>a. ASSUME disk' = disk PROVE FileStep
  BY <1>a DEF Durable, FileStep
<1>b. ASSUME pc \in {"boot", "idle", "step", "settle"} PROVE mem \in Books /\ mem = Durable
  BY <1>b, RunningBook
<1>c. pc \in {"idle", "step", "settle"} /\ ZeroFriction => Durable.active = NoActive
  BY DEF IdsInv
<1>d. limit \in StepLimits /\ StepLimits \subseteq Nat
  BY Numbers DEF Inv, TypeOK
<1>1. CASE UNCHANGED vars
  BY <1>1, <1>a DEF vars
<1>2. CASE Boot
  BY <1>2, <1>a DEF Boot
<1>3. CASE Recover
  <2>1. pc = "boot" /\ mem \in Books /\ mem = Durable
    BY <1>3, <1>b DEF Recover
  <2>2. CASE mem.active # NoActive /\ Completed(mem.active)
    <3>1. Commit(RecoveredBook(mem), "idle", {mem.active.id})
      BY <1>3, <2>2 DEF Recover
    <3>2. mem.active \in Actives
      BY <2>1, <2>2 DEF Books
    <3>3. RecoveredBook(mem) \in Books
      BY <2>1, <3>2, RecoveredBookSucceeds DEF Successor
    <3>4. Durable' = RecoveredBook(Durable)
      BY <2>1, <3>1, <3>3, ConstantsAssumption DEF Commit, Durable
    <3>. QED
      BY <2>1, <2>2, <3>4 DEF FileStep
  <2>3. CASE ~(mem.active # NoActive /\ Completed(mem.active))
    BY <1>3, <1>a, <2>3 DEF Recover
  <2>. QED
    BY <2>2, <2>3
<1>4. ASSUME NEW p \in Plans, StartExecution(p) PROVE FileStep
  <2> DEFINE r == WithActive(mem, NewActive(mem, p))
  <2>1. /\ pc = "idle" /\ ~ZeroFriction /\ mem.active = NoActive /\ PlanAccepted(mem, p)
        /\ Save(r, "step", {})
    BY <1>4 DEF StartExecution
  <2>2. mem \in Books /\ mem = Durable
    BY <1>b, <2>1
  <2>3. NewActive(mem, p) \in Actives
    BY <1>d, <2>1, <2>2, NewActiveType
  <2>4. r \in Books
    BY <2>2, <2>3, WithActiveBook
  <2> HIDE DEF r
  <2>5. Durable' = r \/ Durable' = Durable
    BY <2>1, <2>4, SavedFile
  <2>. QED
    BY <2>1, <2>2, <2>5 DEF FileStep, r
<1>5. ASSUME NEW p \in Plans, ExecuteOnce(p) PROVE FileStep
  <2> DEFINE r == ExecutedBook(mem, p)
             id == NewId(mem, p.market, FingerprintOf(p, limit), "pair")
  <2>1. /\ pc = "idle" /\ ZeroFriction /\ PlanAccepted(mem, p) /\ Save(r, "idle", {id})
    BY <1>5 DEF ExecuteOnce
  <2>2. mem \in Books /\ mem = Durable /\ Durable.active = NoActive
    BY <1>b, <1>c, <2>1
  <2>3. r \in Books
    BY <1>d, <2>1, <2>2, ExecutedBookSucceeds DEF Successor
  <2> HIDE DEF r, id
  <2>4. Durable' = r \/ Durable' = Durable
    BY <2>1, <2>3, SavedFile
  <2>. QED
    BY <2>1, <2>2, <2>4 DEF FileStep, r
<1>6. CASE ResumeExecution
  BY <1>6, <1>a DEF ResumeExecution
<1>7. CASE FillStep
  <2>1. /\ pc = "step" /\ ~StepsOver(mem.active) /\ StepValid(mem.active)
        /\ Save(FilledBook(mem), "step", {})
    BY <1>7 DEF FillStep
  <2>2. mem \in Books /\ mem = Durable /\ mem.active \in Actives
    BY <1>b, <2>1 DEF Inv, TypeOK, Books
  <2>3. FilledBook(mem) \in Books
    BY <1>d, <2>1, <2>2, FilledBookSucceeds DEF Successor
  <2>4. Durable' = FilledBook(mem) \/ Durable' = Durable
    BY <2>1, <2>3, SavedFile
  <2>. QED
    BY <2>1, <2>2, <2>4 DEF FileStep
<1>8. CASE FinalizeExecution
  <2>1. /\ pc = "step" /\ (StepsOver(mem.active) \/ mem.active.steps > 0)
        /\ Save(ClosedBook(mem), "idle", {mem.active.id})
    BY <1>8 DEF FinalizeExecution
  <2>2. mem \in Books /\ mem = Durable /\ mem.active \in Actives
    BY <1>b, <2>1 DEF Inv, TypeOK, Books
  <2>3. ClosedBook(mem) \in Books
    BY <2>2, ClosedBookSucceeds DEF Successor
  <2>4. Durable' = ClosedBook(mem) \/ Durable' = Durable
    BY <2>1, <2>3, SavedFile
  <2>. QED
    BY <2>1, <2>2, <2>4 DEF FileStep
<1>9. CASE AbortExecution
  <2>1. /\ pc = "step" /\ mem.active.steps = 0 /\ Save(AbortedBook(mem), "idle", {})
    BY <1>9 DEF AbortExecution
  <2>2. mem \in Books /\ mem = Durable
    BY <1>b, <2>1
  <2>3. AbortedBook(mem) \in Books
    BY <2>2, WithActiveBook DEF AbortedBook
  <2>4. Durable' = AbortedBook(mem) \/ Durable' = Durable
    BY <2>1, <2>3, SavedFile
  <2>. QED
    BY <2>1, <2>2, <2>4 DEF FileStep
<1>10. ASSUME NEW m \in Markets, NEW price \in LegPrices, CompleteLeg(m, price)
       PROVE  FileStep
  <2> DEFINE r == LegBook(mem, m, price)
             id == NewId(mem, m, LegFp, "inventory")
  <2>1. pc = "idle" /\ LegAccepted(mem, m, price) /\ Save(r, "idle", {id})
    BY <1>10 DEF CompleteLeg
  <2>2. mem \in Books /\ mem = Durable
    BY <1>b, <2>1
  <2>3. r \in Books
    BY <2>1, <2>2, LegBookSucceeds DEF Successor
  <2> HIDE DEF r, id
  <2>4. Durable' = r \/ Durable' = Durable
    BY <2>1, <2>3, SavedFile
  <2>. QED
    BY <2>1, <2>2, <2>4 DEF FileStep, r
<1>11. CASE BeginReconcile
  BY <1>11, <1>a DEF BeginReconcile
<1>12. CASE EndReconcile
  <2>1. pc = "settle" /\ todo = {} /\ work \in Books
    BY <1>12 DEF EndReconcile, Inv, Successor
  <2>2. CASE Save(work, "idle", {})
    BY <2>1, <2>2, SavedFile DEF FileStep
  <2>3. CASE disk' = disk
    BY <1>a, <2>3
  <2>. QED
    BY <1>12, <2>2, <2>3 DEF EndReconcile
<1>13. ASSUME NEW t \in Tokens, SettleToken(t) PROVE FileStep
  BY <1>13, <1>a DEF SettleToken
<1>14. ASSUME NEW m \in Markets, NEW x \in Resolutions, Resolve(m, x) PROVE FileStep
  BY <1>14, <1>a DEF Resolve
<1>15. CASE Shutdown
  <2>1. pc = "idle" /\ (disk' = disk \/ disk' = mem)
    BY <1>15 DEF Shutdown
  <2>2. mem \in Books /\ mem = Durable
    BY <1>b, <2>1
  <2>3. CASE disk' = mem
    BY <2>2, <2>3, ConstantsAssumption DEF Durable, FileStep
  <2>. QED
    BY <1>a, <2>1, <2>3
<1>16. CASE Crash
  BY <1>16, <1>a DEF Crash
<1>17. CASE Reset
  BY <1>17, InitialBookType, ConstantsAssumption DEF Reset, Durable, FileStep
<1>. QED
  <2>1. CASE Next
    BY <2>1, <1>2, <1>3, <1>4, <1>5, <1>6, <1>7, <1>8, <1>9, <1>10, <1>11, <1>12,
       <1>13, <1>14, <1>15, <1>16, <1>17 DEF Next
  <2>. QED
    BY <1>1, <2>1

-----------------------------------------------------------------------------
(* Fingerprints: the unchanged-book guard *)

FpsKept(b) == TradedOnce(b.executions) /\ LastFp(b) /\ ActiveKept(b)

\* Recording an execution with a fingerprint other than that of the market's last
\* execution, or an inventory buy, keeps the guard.
LEMMA RecordingKeepsFps ==
  ASSUME NEW b \in Books, NEW r \in Books, TradedOnce(b.executions), LastFp(b),
         NEW e \in Executions, r.executions = Append(b.executions, e),
         r.fp = [b.fp EXCEPT ![e.id.market] = e.id.fp],
         e.id.fp = LegFp \/ b.fp[e.id.market] # e.id.fp
  PROVE  TradedOnce(r.executions) /\ LastFp(r)
<1> DEFINE E == b.executions
           F == r.executions
           n == Len(E)
           m == e.id.market
<1>1. /\ E \in Seq(Executions) /\ n \in Nat /\ DOMAIN E = 1 .. n
      /\ DOMAIN F = 1 .. n + 1 /\ F[n + 1] = e
      /\ \A i \in 1 .. n : F[i] = E[i] /\ E[i] \in Executions
  BY DEF Books
<1>2. m \in Markets /\ \A i \in 1 .. n : E[i].id.market \in Markets
  BY <1>1 DEF Executions, Ids
<1>3. b.fp \in [Markets -> AnyFp \cup {NoFp}]
  BY DEF Books
<1>4. r.fp[m] = e.id.fp /\ \A x \in Markets : x # m => r.fp[x] = b.fp[x]
  BY <1>2, <1>3
<1>5. \A i \in 1 .. n : \/ \E k \in 1 .. n : k > i /\ E[k].id.market = E[i].id.market
                       \/ b.fp[E[i].id.market] = E[i].id.fp
  BY <1>1 DEF LastFp
<1>6. \A i, j \in 1 .. n :
         i < j /\ E[i].id.market = E[j].id.market
            /\ E[i].id.fp = E[j].id.fp /\ E[i].id.fp # LegFp
         => \E k \in i + 1 .. j - 1 : E[k].id.market = E[i].id.market
  BY <1>1, Zenon DEF TradedOnce
<1>7. e.id.fp = LegFp \/ b.fp[m] # e.id.fp
  OBVIOUS
<1> HIDE DEF E, F, n, m
<1>8. LastFp(r)
  <2> SUFFICES ASSUME NEW i \in 1 .. n + 1
               PROVE  \/ \E k \in 1 .. n + 1 : k > i /\ F[k].id.market = F[i].id.market
                      \/ r.fp[F[i].id.market] = F[i].id.fp
    BY <1>1 DEF LastFp, F
  <2>1. CASE i = n + 1
    BY <1>1, <1>4, <2>1 DEF m
  <2>2. CASE i \in 1 .. n /\ F[i].id.market = m
    BY <1>1, <2>2 DEF m
  <2>3. CASE i \in 1 .. n /\ F[i].id.market # m
    <3>1. CASE \E k \in 1 .. n : k > i /\ E[k].id.market = E[i].id.market
      BY <1>1, <2>3, <3>1
    <3>2. CASE b.fp[E[i].id.market] = E[i].id.fp
      BY <1>1, <1>2, <1>4, <2>3, <3>2
    <3>. QED
      BY <1>5, <2>3, <3>1, <3>2
  <2>. QED
    BY <1>1, <2>1, <2>2, <2>3
<1>9. TradedOnce(F)
  <2> SUFFICES ASSUME NEW i \in 1 .. n + 1, NEW j \in 1 .. n + 1, i < j,
                      F[i].id.market = F[j].id.market,
                      F[i].id.fp = F[j].id.fp, F[i].id.fp # LegFp
               PROVE  \E k \in i + 1 .. j - 1 : F[k].id.market = F[i].id.market
    BY <1>1, Zenon DEF TradedOnce
  <2>0. i \in 1 .. n
    BY <1>1
  <2>1. CASE j \in 1 .. n
    <3>1. PICK k \in i + 1 .. j - 1 : E[k].id.market = E[i].id.market
      BY <1>1, <1>6, <2>0, <2>1
    <3>2. k \in 1 .. n
      BY <1>1, <2>0, <2>1
    <3>. QED
      BY <1>1, <2>0, <3>1, <3>2
  <2>2. CASE j = n + 1
    <3>1. E[i].id.market = m /\ E[i].id.fp = e.id.fp /\ e.id.fp # LegFp
      BY <1>1, <2>0, <2>2 DEF m
    <3>2. PICK k \in 1 .. n : k > i /\ E[k].id.market = E[i].id.market
      BY <1>5, <1>7, <2>0, <3>1
    <3>3. k \in i + 1 .. j - 1
      BY <1>1, <2>0, <2>2, <3>2
    <3>. QED
      BY <1>1, <2>0, <3>2, <3>3
  <2>. QED
    BY <1>1, <2>1, <2>2
<1>. QED
  BY <1>8, <1>9 DEF F

\* A book with the same executions and fingerprints keeps the guard.
LEMMA SameFps ==
  ASSUME NEW b \in Books, NEW r \in Books, TradedOnce(b.executions), LastFp(b),
         r.executions = b.executions, r.fp = b.fp
  PROVE  TradedOnce(r.executions) /\ LastFp(r)
  BY DEF LastFp

LEMMA StartedKeepsFps ==
  ASSUME NEW b \in Books, FpsKept(b), NEW p \in Plans, PlanAccepted(b, p),
         limit \in StepLimits, ~ZeroFriction
  PROVE  FpsKept(WithActive(b, NewActive(b, p)))
<1> DEFINE a == NewActive(b, p)
           r == WithActive(b, a)
<1>1. a \in Actives
  BY NewActiveType
<1>2. /\ a.id.market = p.market /\ a.id.fp = FingerprintOf(p, limit)
      /\ a.plan = p /\ a.maxSteps = limit
      /\ a.filled = 0 /\ a.profit = 0
  BY DEF NewActive, NewId
<1>3. b.fp[p.market] # FingerprintOf(p, limit)
  BY DEF PlanAccepted
<1> HIDE DEF a
<1>4. r \in Books /\ r.active = a /\ r.executions = b.executions /\ r.fp = b.fp
  BY <1>1, WithActiveBook
<1> HIDE DEF r
<1>5. TradedOnce(r.executions) /\ LastFp(r)
  BY <1>4, SameFps DEF FpsKept
<1>6. ActiveKept(r)
  BY <1>2, <1>3, <1>4 DEF ActiveKept
<1>7. FpsKept(r)
  BY <1>5, <1>6 DEF FpsKept
<1>. QED
  BY <1>7 DEF r, a

LEMMA FilledBookParts ==
  ASSUME NEW b \in Books, b.active \in Actives, limit \in Nat,
         ~StepsOver(b.active), StepValid(b.active)
  PROVE  LET a == b.active
             r == FilledBook(b)
             x == ApplyExecution(b, a.plan.market, StepFill(a))
             g == NetProfit(b, a.plan.market, StepFill(a))
         IN  /\ r \in Books /\ x \in Books
             /\ r.cash = x.cash /\ r.qty = x.qty /\ r.cost = x.cost /\ r.pnl = x.pnl
             /\ r.normalized = x.normalized
             /\ r.executions = b.executions /\ r.fp = b.fp /\ r.settled = b.settled
             /\ r.active \in Actives
             /\ r.active.id = a.id /\ r.active.plan = a.plan
             /\ r.active.maxSteps = a.maxSteps
             /\ r.active.steps = a.steps + 1 /\ r.active.profit = a.profit + g
<1> DEFINE a == b.active
           m == a.plan.market
           f == StepFill(a)
           x == ApplyExecution(b, m, f)
           g == NetProfit(b, m, f)
           t == StepTaken(a, g)
           r == WithActive(x, t)
<1>1. FilledBook(b) = r
  BY DEF FilledBook
<1>2. a \in Actives /\ m \in Markets /\ f \in Fills /\ ~StepsOver(a)
  BY ActiveParts, StepFillType
<1> HIDE DEF a, m, f
<1>3. /\ x \in Books /\ x.executions = b.executions /\ g \in Int
      /\ x.fp = b.fp /\ x.settled = b.settled
  BY <1>2, ApplyExecutionBook
<1> HIDE DEF x, g
<1>4. t \in Actives
  BY <1>2, <1>3, StepTakenType
<1>5. /\ t.id = a.id /\ t.plan = a.plan /\ t.steps = a.steps + 1
      /\ t.maxSteps = a.maxSteps /\ t.profit = a.profit + g
  BY <1>2, Zenon DEF StepTaken, Actives
<1> HIDE DEF t
<1>6. /\ r \in Books /\ r.active = t /\ r.executions = x.executions /\ r.fp = x.fp
      /\ r.settled = x.settled /\ r.qty = x.qty /\ r.cash = x.cash
  BY <1>3, <1>4, WithActiveBook
<1>7. r.cost = x.cost /\ r.pnl = x.pnl /\ r.normalized = x.normalized
  BY <1>3, Zenon DEF WithActive, Books
<1> HIDE DEF r
<1>. QED
  BY <1>1, <1>3, <1>4, <1>5, <1>6, <1>7 DEF a, m, f, x, g

LEMMA FilledKeepsFps ==
  ASSUME NEW b \in Books, FpsKept(b), b.active \in Actives, limit \in Nat,
         ~StepsOver(b.active), StepValid(b.active)
  PROVE  FpsKept(FilledBook(b))
<1> DEFINE r == FilledBook(b)
<1>1. /\ r \in Books /\ r.executions = b.executions /\ r.fp = b.fp
      /\ r.active.id = b.active.id /\ r.active.plan = b.active.plan
      /\ r.active.maxSteps = b.active.maxSteps
      /\ r.active.steps = b.active.steps + 1
  BY FilledBookParts
<1>2. b.active.steps \in Nat /\ b.active # NoActive
  BY ActiveParts, ConstantsAssumption
<1> HIDE DEF r
<1>3. TradedOnce(r.executions) /\ LastFp(r)
  BY <1>1, SameFps DEF FpsKept
<1>4. r.active.steps # 0
  BY <1>1, <1>2
<1>5. ActiveKept(r)
  BY <1>1, <1>2, <1>4 DEF FpsKept, ActiveKept, Recorded
<1>6. FpsKept(r)
  BY <1>3, <1>5 DEF FpsKept
<1>. QED
  BY <1>6 DEF r

LEMMA AbortedKeepsFps ==
  ASSUME NEW b \in Books, FpsKept(b)
  PROVE  FpsKept(AbortedBook(b))
<1> DEFINE r == AbortedBook(b)
<1>1. r \in Books /\ r.active = NoActive /\ r.executions = b.executions /\ r.fp = b.fp
  BY WithActiveBook DEF AbortedBook
<1> HIDE DEF r
<1>2. FpsKept(r)
  BY <1>1, SameFps DEF FpsKept, ActiveKept
<1>. QED
  BY <1>2 DEF r

LEMMA ClosedBookParts ==
  ASSUME NEW b \in Books, b.active \in Actives
  PROVE  LET r == ClosedBook(b)
             e == Aggregate(b.active)
         IN  /\ r \in Books /\ e \in Executions /\ e.id = b.active.id
             /\ r.executions = Append(b.executions, e)
             /\ r.fp = [b.fp EXCEPT ![e.id.market] = e.id.fp]
             /\ r.active = NoActive
             /\ r.cash = b.cash /\ r.qty = b.qty /\ r.cost = b.cost /\ r.pnl = b.pnl
             /\ r.normalized = b.normalized /\ r.settled = b.settled
<1> DEFINE e == Aggregate(b.active)
           x == Record(b, e)
           r == WithActive(x, NoActive)
<1>1. ClosedBook(b) = r
  BY DEF ClosedBook
<1>2. e \in Executions /\ e.id = b.active.id
  BY AggregateType
<1> HIDE DEF e
<1>3. /\ x \in Books /\ x.executions = Append(b.executions, e) /\ x.cash = b.cash
      /\ x.settled = b.settled /\ x.qty = b.qty
      /\ x.fp = [b.fp EXCEPT ![e.id.market] = e.id.fp]
  BY <1>2, RecordBook
<1>4. x.cost = b.cost /\ x.pnl = b.pnl /\ x.normalized = b.normalized
  BY Zenon DEF Record, Books
<1> HIDE DEF x
<1>5. /\ r \in Books /\ r.active = NoActive /\ r.executions = x.executions
      /\ r.fp = x.fp /\ r.cash = x.cash /\ r.settled = x.settled /\ r.qty = x.qty
  BY <1>3, WithActiveBook
<1>6. r.cost = x.cost /\ r.pnl = x.pnl /\ r.normalized = x.normalized
  BY <1>3, Zenon DEF WithActive, Books
<1> HIDE DEF r
<1>. QED
  BY <1>1, <1>2, <1>3, <1>4, <1>5, <1>6 DEF e

LEMMA ClosedKeepsFps ==
  ASSUME NEW b \in Books, FpsKept(b), b.active \in Actives, ~Recorded(b, b.active.id)
  PROVE  FpsKept(ClosedBook(b))
<1> DEFINE r == ClosedBook(b)
           e == Aggregate(b.active)
<1>1. /\ r \in Books /\ e \in Executions /\ e.id = b.active.id
      /\ r.executions = Append(b.executions, e)
      /\ r.fp = [b.fp EXCEPT ![e.id.market] = e.id.fp] /\ r.active = NoActive
  BY ClosedBookParts
<1>2. b.active # NoActive
  BY ConstantsAssumption
<1>3. b.fp[e.id.market] # e.id.fp
  BY <1>1, <1>2 DEF FpsKept, ActiveKept
<1> HIDE DEF r, e
<1>4. TradedOnce(r.executions) /\ LastFp(r)
  BY <1>1, <1>3, RecordingKeepsFps DEF FpsKept
<1>5. FpsKept(r)
  BY <1>1, <1>4 DEF FpsKept, ActiveKept
<1>. QED
  BY <1>5 DEF r

\* An execution applied and recorded at once.
AppliedParts(r, b, m, f, e) ==
    LET x == ApplyExecution(b, m, f)
    IN  /\ r \in Books /\ x \in Books
        /\ r.executions = Append(b.executions, e)
        /\ r.fp = [b.fp EXCEPT ![e.id.market] = e.id.fp]
        /\ r.active = b.active /\ r.settled = b.settled
        /\ r.cash = x.cash /\ r.qty = x.qty /\ r.cost = x.cost /\ r.pnl = x.pnl
        /\ r.normalized = x.normalized

LEMMA AppliedBookParts ==
  ASSUME NEW b \in Books, NEW m \in Markets, NEW f \in Fills, NEW e \in Executions
  PROVE  AppliedParts(Record(ApplyExecution(b, m, f), e), b, m, f, e)
<1> DEFINE x == ApplyExecution(b, m, f)
           r == Record(x, e)
<1>1. /\ x \in Books /\ x.executions = b.executions /\ x.active = b.active
      /\ x.fp = b.fp /\ x.settled = b.settled
  BY ApplyExecutionBook
<1> HIDE DEF x
<1>2. /\ r \in Books /\ r.executions = Append(x.executions, e) /\ r.active = x.active
      /\ r.fp = [x.fp EXCEPT ![e.id.market] = e.id.fp]
      /\ r.cash = x.cash /\ r.settled = x.settled /\ r.qty = x.qty
  BY <1>1, RecordBook
<1>3. r.cost = x.cost /\ r.pnl = x.pnl /\ r.normalized = x.normalized
  BY <1>1, Zenon DEF Record, Books
<1> HIDE DEF r
<1>4. AppliedParts(r, b, m, f, e)
  BY <1>1, <1>2, <1>3 DEF AppliedParts, x
<1>. QED
  BY <1>4 DEF r, x

ExecutedFill(p) == FillOf(p, p.qty, Merge)

LEMMA ExecutedBookParts ==
  ASSUME NEW b \in Books, NEW p \in Plans, limit \in StepLimits
  PROVE  \E e \in Executions :
            /\ e.id = NewId(b, p.market, FingerprintOf(p, limit), "pair")
            /\ e.profit = NetProfit(b, p.market, ExecutedFill(p))
            /\ AppliedParts(ExecutedBook(b, p), b, p.market, ExecutedFill(p), e)
<1> DEFINE m == p.market
           f == ExecutedFill(p)
           id == NewId(b, m, FingerprintOf(p, limit), "pair")
           e == [id |-> id, qty |-> p.qty, spent |-> Spend(f), profit |-> NetProfit(b, m, f)]
<1>1. p \in PlanRecords /\ m \in Markets /\ FingerprintOf(p, limit) \in AnyFp /\ p.qty \in Nat
  BY Numbers, FingerprintType DEF PlanRecords
<1>2. f \in Fills
  BY <1>1, FillType, Numbers DEF ExecutedFill
<1>3. id \in Ids
  BY <1>1, NewIdType
<1>4. ExecutedBook(b, p) = Record(ApplyExecution(b, m, f), e)
  BY DEF ExecutedBook, ExecutedFill
<1> HIDE DEF m, f, id
<1>5. Spend(f) \in Int /\ NetProfit(b, m, f) \in Int
  BY <1>1, <1>2, ApplyExecutionBook
<1>6. e \in Executions /\ e.id = id /\ e.profit = NetProfit(b, m, f)
  BY <1>1, <1>3, <1>5 DEF Executions
<1> HIDE DEF e
<1>7. AppliedParts(ExecutedBook(b, p), b, m, f, e)
  BY <1>1, <1>2, <1>4, <1>6, AppliedBookParts
<1>. QED
  BY <1>6, <1>7 DEF id, m, f

LEMMA LegBookParts ==
  ASSUME NEW b \in Books, NEW m \in Markets, NEW price \in LegPrices
  PROVE  \E e \in Executions :
            /\ e.id = NewId(b, m, LegFp, "inventory")
            /\ e.profit = NetProfit(b, m, LegFill(b, m, price))
            /\ AppliedParts(LegBook(b, m, price), b, m, LegFill(b, m, price), e)
<1> DEFINE q == Missing(b, m)
           f == LegFill(b, m, price)
           id == NewId(b, m, LegFp, "inventory")
           e == [id |-> id, qty |-> q, spent |-> Spend(f), profit |-> NetProfit(b, m, f)]
<1>1. q \in Nat /\ f \in Fills
  BY Numbers, LegFillType
<1>2. id \in Ids
  BY NewIdType DEF AnyFp
<1>3. LegBook(b, m, price) = Record(ApplyExecution(b, m, f), e)
  BY DEF LegBook
<1> HIDE DEF q, f, id
<1>4. Spend(f) \in Int /\ NetProfit(b, m, f) \in Int
  BY <1>1, ApplyExecutionBook
<1>5. e \in Executions /\ e.id = id /\ e.profit = NetProfit(b, m, f)
  BY <1>1, <1>2, <1>4 DEF Executions
<1> HIDE DEF e
<1>6. AppliedParts(LegBook(b, m, price), b, m, f, e)
  BY <1>1, <1>3, <1>5, AppliedBookParts
<1>. QED
  BY <1>5, <1>6 DEF id, f

LEMMA ExecutedKeepsFps ==
  ASSUME NEW b \in Books, FpsKept(b), NEW p \in Plans, PlanAccepted(b, p),
         limit \in StepLimits, b.active = NoActive
  PROVE  FpsKept(ExecutedBook(b, p))
<1> DEFINE r == ExecutedBook(b, p)
<1>1. PICK e \in Executions :
        /\ e.id = NewId(b, p.market, FingerprintOf(p, limit), "pair")
        /\ AppliedParts(r, b, p.market, ExecutedFill(p), e)
  BY ExecutedBookParts
<1>2. e.id.market = p.market /\ e.id.fp = FingerprintOf(p, limit)
  BY <1>1 DEF NewId
<1>3. b.fp[p.market] # FingerprintOf(p, limit)
  BY DEF PlanAccepted
<1> HIDE DEF r
<1>4. TradedOnce(r.executions) /\ LastFp(r)
  BY <1>1, <1>2, <1>3, RecordingKeepsFps DEF AppliedParts, FpsKept
<1>5. FpsKept(r)
  BY <1>1, <1>4 DEF FpsKept, ActiveKept, AppliedParts
<1>. QED
  BY <1>5 DEF r

\* An inventory buy leaves the fingerprint of the active execution untraded: its own is
\* not one that pairs have.
LEMMA LegKeepsFps ==
  ASSUME NEW b \in Books, FpsKept(b), NEW m \in Markets, NEW price \in LegPrices
  PROVE  FpsKept(LegBook(b, m, price))
<1> DEFINE r == LegBook(b, m, price)
<1>1. PICK e \in Executions :
        /\ e.id = NewId(b, m, LegFp, "inventory")
        /\ AppliedParts(r, b, m, LegFill(b, m, price), e)
  BY LegBookParts
<1>2. e.id.market = m /\ e.id.fp = LegFp
  BY <1>1 DEF NewId
<1> HIDE DEF r
<1>3. TradedOnce(r.executions) /\ LastFp(r)
  BY <1>1, <1>2, RecordingKeepsFps DEF AppliedParts, FpsKept
<1>4. ASSUME r.active # NoActive PROVE ActiveKept(r)
  <2> DEFINE a == b.active
  <2>1. r.active = a /\ a \in Actives /\ a # NoActive
    BY <1>1, <1>4 DEF AppliedParts, Books
  <2>2. a.id.market \in Markets /\ FingerprintOf(a.plan, a.maxSteps) \in Fingerprints
    BY <2>1, ActiveParts DEF Actives, PlanRecords, Ids, FingerprintOf, Fingerprints
  <2>3. /\ a.id.market = a.plan.market /\ a.id.fp = FingerprintOf(a.plan, a.maxSteps)
        /\ Recorded(b, a.id) \/ b.fp[a.id.market] # a.id.fp
        /\ a.steps = 0 => a.filled = 0 /\ a.profit = 0
    BY <2>1 DEF FpsKept, ActiveKept
  <2>4. a.id.fp # LegFp
    BY <2>2, <2>3, ConstantsAssumption
  <2>5. Recorded(b, a.id) => Recorded(r, a.id)
    <3>1. b.executions \in Seq(Executions) /\ r.executions = Append(b.executions, e)
      BY <1>1 DEF AppliedParts, Books
    <3>2. \A i \in DOMAIN b.executions :
             i \in DOMAIN r.executions /\ r.executions[i] = b.executions[i]
      BY <3>1
    <3>. QED
      BY <3>2, Zenon DEF Recorded
  <2>6. r.fp = [b.fp EXCEPT ![m] = LegFp] /\ b.fp \in [Markets -> AnyFp \cup {NoFp}]
    BY <1>1, <1>2 DEF AppliedParts, Books
  <2>7. b.fp[a.id.market] # a.id.fp => r.fp[a.id.market] # a.id.fp
    BY <2>2, <2>4, <2>6
  <2> HIDE DEF a
  <2>. QED
    BY <2>1, <2>3, <2>5, <2>7 DEF ActiveKept
<1>5. FpsKept(r)
  BY <1>3, <1>4 DEF FpsKept, ActiveKept
<1>. QED
  BY <1>5 DEF r

LEMMA RecoveredKeepsFps ==
  ASSUME NEW b \in Books, FpsKept(b), b.active \in Actives
  PROVE  FpsKept(RecoveredBook(b))
  BY AbortedKeepsFps, ClosedKeepsFps DEF RecoveredBook

-----------------------------------------------------------------------------
(* Settlements: nothing is held of a settled market *)

\* An execution touches the shares of its market only, and leaves none of them if it
\* buys pairs for a market that holds pairs only.
LEMMA ApplyExecutionHoldings ==
  ASSUME NEW b \in Books, NEW m \in Markets, NEW f \in Fills
  PROVE  LET r == ApplyExecution(b, m, f)
         IN  /\ \A t \in Tokens : t[1] # m => r.qty[t] = b.qty[t]
             /\ f.yes = f.no /\ b.qty[Yes(m)] = b.qty[No(m)]
                   => r.qty[Yes(m)] = 0 /\ r.qty[No(m)] = 0
<1> DEFINE n == Normalize(b, m)
           a == AddInventory(n, m, f)
           r == RedeemPairs(a, m)
<1>1. /\ n \in Books
      /\ n.qty[Yes(m)] = b.qty[Yes(m)] - Matched(b, m)
      /\ n.qty[No(m)] = b.qty[No(m)] - Matched(b, m)
      /\ \A t \in Tokens : t[1] # m => n.qty[t] = b.qty[t]
  BY NormalizeBook
<1>2. ApplyExecution(b, m, f) = r
  BY DEF ApplyExecution
<1> HIDE DEF n
<1>3. /\ a \in Books
      /\ a.qty[Yes(m)] = n.qty[Yes(m)] + f.yes /\ a.qty[No(m)] = n.qty[No(m)] + f.no
      /\ \A t \in Tokens : t[1] # m => a.qty[t] = n.qty[t]
  BY <1>1, AddInventoryBook
<1> HIDE DEF a
<1>4. /\ r \in Books
      /\ r.qty[Yes(m)] = a.qty[Yes(m)] - Matched(a, m)
      /\ r.qty[No(m)] = a.qty[No(m)] - Matched(a, m)
      /\ \A t \in Tokens : t[1] # m => r.qty[t] = a.qty[t]
  BY <1>3, RedeemPairsBook
<1> HIDE DEF r
<1>5. \A t \in Tokens : t[1] # m => r.qty[t] = b.qty[t]
  BY <1>1, <1>3, <1>4
<1>6. ASSUME f.yes = f.no, b.qty[Yes(m)] = b.qty[No(m)]
      PROVE  r.qty[Yes(m)] = 0 /\ r.qty[No(m)] = 0
  <2>1. a.qty[Yes(m)] = a.qty[No(m)]
    BY <1>1, <1>3, <1>6
  <2>2. a.qty[Yes(m)] \in Nat /\ Matched(a, m) = a.qty[Yes(m)]
    BY <1>3, <2>1, HoldingsType DEF Matched, MinOf
  <2>. QED
    BY <1>4, <2>1, <2>2
<1>. QED
  BY <1>2, <1>5, <1>6

\* The tokens of a market are two.
LEMMA TokenOfMarket ==
  ASSUME NEW t \in Tokens
  PROVE  t[1] \in Markets /\ (t = Yes(t[1]) \/ t = No(t[1]))
  BY DEF Tokens, Outcomes, Yes, No

LEMMA SameSettlements ==
  ASSUME NEW b, NEW r, SettlementsKept(b), r.settled = b.settled, r.qty = b.qty
  PROVE  SettlementsKept(r)
  BY DEF SettlementsKept

\* A market that was settled holds nothing, so that pairs bought for it are redeemed and
\* no leg is missing.
LEMMA AppliedKeepsSettlements ==
  ASSUME NEW b \in Books, SettlementsKept(b), NEW m \in Markets, NEW f \in Fills,
         f.yes = f.no \/ Unmatched(b, m),
         NEW r, r.settled = b.settled, r.qty = ApplyExecution(b, m, f).qty
  PROVE  SettlementsKept(r)
<1> SUFFICES ASSUME NEW s \in b.settled, NEW t \in Tokens, t[1] = s.token[1]
             PROVE  r.qty[t] = 0
  BY DEF SettlementsKept
<1>1. \A u \in Tokens : u[1] = s.token[1] => b.qty[u] = 0
  BY DEF SettlementsKept
<1>2. CASE t[1] # m
  <2>1. r.qty[t] = b.qty[t]
    BY <1>2, ApplyExecutionHoldings
  <2>. QED
    BY <1>1, <2>1
<1>3. CASE t[1] = m
  <2>1. Yes(m)[1] = m /\ No(m)[1] = m /\ Yes(m) \in Tokens /\ No(m) \in Tokens
    BY TokensOf DEF Yes, No
  <2>2. b.qty[Yes(m)] = 0 /\ b.qty[No(m)] = 0
    BY <1>1, <1>3, <2>1
  <2>3. f.yes = f.no
    BY <2>2 DEF Unmatched
  <2>4. r.qty[Yes(m)] = 0 /\ r.qty[No(m)] = 0
    BY <2>2, <2>3, ApplyExecutionHoldings
  <2>. QED
    BY <1>3, <2>4, TokenOfMarket
<1>. QED
  BY <1>2, <1>3

\* What settling a row with no record yet does: it drops the row, and adds the record.
SettledParts(r, b, t, s) ==
    /\ s.token = t /\ r \in Books /\ r.settled = b.settled \cup {s}
    /\ r.qty = [b.qty EXCEPT ![t] = 0] /\ r.cost = [b.cost EXCEPT ![t] = 0]
    /\ r.cash = b.cash + (s.gain + b.cost[t]) /\ r.pnl = b.pnl + s.gain
    /\ r.fp = b.fp /\ r.executions = b.executions /\ r.active = b.active
    /\ r.normalized = b.normalized

LEMMA SettledBookParts ==
  ASSUME NEW b \in Books, NEW t \in Tokens, view \in Views,
         \A s \in b.settled : s.token # t
  PROVE  \E s \in Settlements : SettledParts(SettledBook(b, t), b, t, s)
<1> DEFINE value == IF view[t[1]].verdict = t[2] THEN b.qty[t] * Payout ELSE 0
           gain == value - b.cost[t]
           s == [token |-> t, form |-> WinnerForm(t), gain |-> gain]
           qty == [b.qty EXCEPT ![t] = 0]
           cost == [b.cost EXCEPT ![t] = 0]
           d == Post(b, value, gain, qty, cost)
           r == AddSettlement(d, s)
<1>1. b.qty[t] \in Nat /\ b.cost[t] \in Nat
  BY DEF Books
<1>2. value \in Nat
  BY <1>1, Numbers
<1>3. gain \in Int
  <2> HIDE DEF value
  <2>. QED
    BY <1>1, <1>2
<1>4. qty \in [Tokens -> Nat] /\ cost \in [Tokens -> Nat]
  BY DEF Books
<1>5. WinnerForm(t) \in Forms
  BY DEF WinnerForm, Forms, Views, Tokens
<1>6. SettledBook(b, t) = r
  BY DEF SettledBook, Settled, DropRow
<1> HIDE DEF qty, cost
<1>7. s \in Settlements /\ s.token = t /\ s.gain = gain
  BY <1>3, <1>5 DEF Settlements
<1>a. value = gain + b.cost[t]
  <2> HIDE DEF value
  <2>. QED
    BY <1>1, <1>2
<1> HIDE DEF s, value, gain
<1>8. Posted(d, b, value, gain, qty, cost)
  BY <1>2, <1>3, <1>4, PostBook
<1> HIDE DEF d
<1>9. d \in Books
  BY <1>8 DEF Posted
<1>10. /\ r \in Books /\ r.cash = d.cash /\ r.executions = d.executions
       /\ r.active = d.active /\ r.settled = d.settled \cup {s}
       /\ r.qty = d.qty /\ r.cost = d.cost /\ r.fp = d.fp /\ r.pnl = d.pnl
       /\ r.normalized = d.normalized
  BY <1>7, <1>9, AddSettlementBook
<1> HIDE DEF r
<1>11. /\ r.cash = b.cash + value /\ r.pnl = b.pnl + gain /\ r.settled = b.settled \cup {s}
       /\ r.qty = qty /\ r.cost = cost /\ r.fp = b.fp /\ r.executions = b.executions
       /\ r.active = b.active /\ r.normalized = b.normalized
  BY <1>8, <1>10 DEF Posted
<1>. QED
  BY <1>6, <1>7, <1>10, <1>11, <1>a DEF SettledParts, qty, cost

\* What a settlement pass keeps true of its working copy: only rows still to visit and
\* pending rows hold shares, and what is held of a market with a record is of neither
\* a pending row nor one that was settled.
PassKept(b) ==
    /\ \A t \in Tokens : b.qty[t] # 0 => t \in todo \/ Pending(t)
    /\ \A t \in todo : b.qty[t] # 0
    /\ \A s \in b.settled :
          /\ \A r \in b.settled : r.token = s.token => r = s
          /\ b.qty[s.token] = 0
          /\ \A t \in Tokens : t[1] = s.token[1] /\ b.qty[t] # 0 => ~Pending(t)

PassInv == pc = "settle" => work.fp = mem.fp /\ PassKept(work)

\* Whether a row is pending depends on its market alone.
LEMMA PendingByMarket ==
  ASSUME NEW t \in Tokens, NEW u \in Tokens, t[1] = u[1]
  PROVE  Pending(t) <=> Pending(u)
  BY DEF Pending

FileInv == FpsKept(Durable) /\ SettlementsKept(Durable)

LEMMA InitFile == Init => FileInv /\ PassInv
<1> SUFFICES ASSUME Init PROVE FileInv /\ PassInv
  OBVIOUS
<1>1. FpsKept(InitialBook) /\ SettlementsKept(InitialBook)
  BY DEF InitialBook, FpsKept, TradedOnce, LastFp, ActiveKept, SettlementsKept
<1>2. Durable = InitialBook \/ Durable \in SavedBooks
  BY DEF Init, Durable
<1>3. FileInv
  BY <1>1, <1>2, SavedAssumption DEF FileInv, FpsKept
<1>. QED
  BY <1>3 DEF Init, PassInv

LEMMA NextFile == Inv /\ IdsInv /\ FileInv /\ PassInv /\ [Next]_vars => FileInv'
<1> SUFFICES ASSUME Inv, IdsInv, FileInv, PassInv, [Next]_vars PROVE FileInv'
  OBVIOUS
<1> DEFINE b == Durable
           Good(r) == FpsKept(r) /\ SettlementsKept(r)
<1>1. FileStep
  BY FileSteps
<1>2. b \in Books /\ Good(b)
  BY DurableType DEF Inv, TypeOK, FileInv
<1>3. limit \in StepLimits /\ limit \in Nat
  BY Numbers DEF Inv, TypeOK
<1>4. pc = "step" => b.active \in Actives
  <2>1. pc = "step" => mem = b /\ mem.active # NoActive
    BY RunningBook DEF Inv, TypeOK
  <2>. QED
    BY <1>2, <2>1 DEF Books
<1>5. pc \in {"idle", "step", "settle"} => Kept(b)
  BY DEF IdsInv
<1>6. SUFFICES Good(Durable')
  BY DEF FileInv, FpsKept, TradedOnce, LastFp, ActiveKept, SettlementsKept, Recorded
<1>7. CASE Durable' = b
  BY <1>2, <1>7
<1>8. CASE Durable' = InitialBook
  BY <1>8 DEF InitialBook, FpsKept, TradedOnce, LastFp, ActiveKept, SettlementsKept
<1>9. CASE b.active # NoActive /\ Durable' = RecoveredBook(b)
  <2>1. b.active \in Actives
    BY <1>2, <1>9 DEF Books
  <2>2. FpsKept(RecoveredBook(b))
    BY <1>2, <2>1, RecoveredKeepsFps
  <2>3. RecoveredBook(b).settled = b.settled /\ RecoveredBook(b).qty = b.qty
    <3>1. AbortedBook(b).settled = b.settled /\ AbortedBook(b).qty = b.qty
      BY <1>2, WithActiveBook DEF AbortedBook
    <3>2. ClosedBook(b).settled = b.settled /\ ClosedBook(b).qty = b.qty
      BY <1>2, <2>1, ClosedBookParts
    <3>. QED
      BY <3>1, <3>2 DEF RecoveredBook
  <2>. QED
    BY <1>2, <1>9, <2>2, <2>3, SameSettlements
<1>10. ASSUME NEW p \in Plans, PlanAccepted(b, p), ~ZeroFriction,
              Durable' = WithActive(b, NewActive(b, p))
       PROVE  Good(Durable')
  <2> DEFINE a == NewActive(b, p)
             r == WithActive(b, a)
  <2>1. FpsKept(r)
    BY <1>2, <1>3, <1>10, StartedKeepsFps
  <2>2. a \in Actives
    BY <1>2, <1>3, <1>10, NewActiveType
  <2> HIDE DEF a
  <2>3. r.settled = b.settled /\ r.qty = b.qty
    BY <1>2, <2>2, WithActiveBook
  <2> HIDE DEF r
  <2>4. Good(r)
    BY <1>2, <2>1, <2>3, SameSettlements
  <2>. QED
    BY <1>10, <2>4 DEF r, a
<1>11. CASE pc = "step" /\ ~StepsOver(b.active) /\ StepValid(b.active)
            /\ Durable' = FilledBook(b)
  <2> DEFINE a == b.active
             m == a.plan.market
             f == StepFill(a)
             r == FilledBook(b)
  <2>1. a \in Actives /\ m \in Markets
    BY <1>4, <1>11, ActiveParts
  <2>2. f \in Fills /\ f.yes = f.no
    BY <1>3, <1>11, <2>1, StepFillType
  <2>3. r.settled = b.settled /\ r.qty = ApplyExecution(b, m, f).qty
    BY <1>2, <1>3, <1>11, <2>1, FilledBookParts
  <2>4. FpsKept(r)
    BY <1>2, <1>3, <1>11, <2>1, FilledKeepsFps
  <2> HIDE DEF a, m, f, r
  <2>5. SettlementsKept(r)
    BY <1>2, <2>1, <2>2, <2>3, AppliedKeepsSettlements
  <2>. QED
    BY <1>11, <2>4, <2>5 DEF r
<1>12. CASE pc = "step" /\ Durable' = ClosedBook(b)
  <2>1. b.active \in Actives /\ b.active # NoActive /\ ~Recorded(b, b.active.id)
    BY <1>4, <1>5, <1>12, ConstantsAssumption DEF Kept
  <2>2. FpsKept(ClosedBook(b))
    BY <1>2, <2>1, ClosedKeepsFps
  <2>3. ClosedBook(b).settled = b.settled /\ ClosedBook(b).qty = b.qty
    BY <1>2, <2>1, ClosedBookParts
  <2>. QED
    BY <1>2, <1>12, <2>2, <2>3, SameSettlements
<1>13. CASE Durable' = AbortedBook(b)
  <2>1. FpsKept(AbortedBook(b))
    BY <1>2, AbortedKeepsFps
  <2>2. AbortedBook(b).settled = b.settled /\ AbortedBook(b).qty = b.qty
    BY <1>2, WithActiveBook DEF AbortedBook
  <2>. QED
    BY <1>2, <1>13, <2>1, <2>2, SameSettlements
<1>14. ASSUME NEW p \in Plans, PlanAccepted(b, p), b.active = NoActive,
              Durable' = ExecutedBook(b, p)
       PROVE  Good(Durable')
  <2> DEFINE r == ExecutedBook(b, p)
             m == p.market
             f == ExecutedFill(p)
  <2>1. FpsKept(r)
    BY <1>2, <1>3, <1>14, ExecutedKeepsFps
  <2>2. p \in PlanRecords /\ m \in Markets /\ p.qty \in Nat
    BY Numbers DEF PlanRecords
  <2>3. f \in Fills /\ f.yes = f.no
    BY <2>2, FillType, Numbers DEF ExecutedFill
  <2>4. r.settled = b.settled /\ r.qty = ApplyExecution(b, m, f).qty
    BY <1>2, <1>3, ExecutedBookParts DEF AppliedParts
  <2> HIDE DEF r, m, f
  <2>5. SettlementsKept(r)
    BY <1>2, <2>2, <2>3, <2>4, AppliedKeepsSettlements
  <2>. QED
    BY <1>14, <2>1, <2>5 DEF r
<1>15. ASSUME NEW m \in Markets, NEW price \in LegPrices, LegAccepted(b, m, price),
              Durable' = LegBook(b, m, price)
       PROVE  Good(Durable')
  <2> DEFINE r == LegBook(b, m, price)
             f == LegFill(b, m, price)
  <2>1. FpsKept(r)
    BY <1>2, LegKeepsFps
  <2>2. Unmatched(b, m)
    BY <1>15 DEF LegAccepted
  <2>3. f \in Fills
    BY <1>2, Numbers, LegFillType
  <2>4. r.settled = b.settled /\ r.qty = ApplyExecution(b, m, f).qty
    BY <1>2, LegBookParts DEF AppliedParts
  <2> HIDE DEF r, f
  <2>5. SettlementsKept(r)
    BY <1>2, <2>2, <2>3, <2>4, AppliedKeepsSettlements
  <2>. QED
    BY <1>15, <2>1, <2>5 DEF r
<1>16. CASE pc = "settle" /\ todo = {} /\ Durable' = work
  <2>1. mem = b /\ work.executions = b.executions /\ work.active = b.active
        /\ work.fp = b.fp
    BY <1>16, RunningBook DEF IdsInv, PassInv
  <2>2. FpsKept(work)
    BY <1>2, <2>1 DEF FpsKept, LastFp, ActiveKept, Recorded
  <2>3. SettlementsKept(work)
    <3> SUFFICES ASSUME NEW s \in work.settled
                 PROVE  /\ \A r \in work.settled : r.token = s.token => r = s
                        /\ \A t \in Tokens : t[1] = s.token[1] => work.qty[t] = 0
      BY DEF SettlementsKept
    <3>. QED
      BY <1>16 DEF PassInv, PassKept
  <2>. QED
    BY <1>16, <2>2, <2>3
<1>. QED
  BY <1>1, <1>7, <1>8, <1>9, <1>10, <1>11, <1>12, <1>13, <1>14, <1>15, <1>16 DEF FileStep

\* Settling a row that is not pending keeps the pass in order.
LEMMA SettledKeepsPass ==
  ASSUME NEW b \in Books, view \in Views, todo \subseteq Tokens, PassKept(b),
         NEW t \in todo, ~Pending(t)
  PROVE  /\ \A s \in b.settled : s.token # t
         /\ SettledBook(b, t).fp = b.fp
         /\ \A u \in Tokens :
               SettledBook(b, t).qty[u] = IF u = t THEN 0 ELSE b.qty[u]
         /\ \A s \in SettledBook(b, t).settled :
               /\ \A r \in SettledBook(b, t).settled : r.token = s.token => r = s
               /\ SettledBook(b, t).qty[s.token] = 0
               /\ \A u \in Tokens :
                     u[1] = s.token[1] /\ SettledBook(b, t).qty[u] # 0 => ~Pending(u)
<1> DEFINE r == SettledBook(b, t)
<1>0. t \in Tokens
  OBVIOUS
<1>1. \A s \in b.settled : s.token # t
  BY DEF PassKept
<1>a. PICK n \in Settlements : SettledParts(r, b, t, n)
  BY <1>0, <1>1, SettledBookParts
<1>2. /\ n.token = t /\ r.settled = b.settled \cup {n}
      /\ r.qty = [b.qty EXCEPT ![t] = 0] /\ r.fp = b.fp
  BY <1>a DEF SettledParts
<1>3. b.qty \in [Tokens -> Nat] /\ \A s \in b.settled : s.token \in Tokens
  BY DEF Books, Settlements
<1> HIDE DEF r
<1>4. \A u \in Tokens : r.qty[u] = IF u = t THEN 0 ELSE b.qty[u]
  BY <1>0, <1>2, <1>3
<1>5. ASSUME NEW s \in r.settled
      PROVE  /\ \A x \in r.settled : x.token = s.token => x = s
             /\ r.qty[s.token] = 0
             /\ \A u \in Tokens : u[1] = s.token[1] /\ r.qty[u] # 0 => ~Pending(u)
  <2>1. CASE s = n
    <3>1. \A x \in r.settled : x.token = s.token => x = s
      BY <1>1, <1>2, <2>1
    <3>2. r.qty[s.token] = 0
      BY <1>0, <1>2, <1>4, <2>1
    <3>3. \A u \in Tokens : u[1] = s.token[1] => ~Pending(u)
      BY <1>0, <1>2, <2>1, PendingByMarket
    <3>. QED
      BY <3>1, <3>2, <3>3
  <2>2. CASE s \in b.settled
    <3>1. \A x \in r.settled : x.token = s.token => x = s
      BY <1>1, <1>2, <2>2 DEF PassKept
    <3>2. r.qty[s.token] = 0
      BY <1>3, <1>4, <2>2 DEF PassKept
    <3>3. \A u \in Tokens : u[1] = s.token[1] /\ r.qty[u] # 0 => ~Pending(u)
      BY <1>4, <2>2 DEF PassKept
    <3>. QED
      BY <3>1, <3>2, <3>3
  <2>. QED
    BY <1>2, <2>1, <2>2
<1>. QED
  BY <1>1, <1>2, <1>4, <1>5 DEF r

LEMMA NextPass == Inv /\ IdsInv /\ FileInv /\ PassInv /\ [Next]_vars => PassInv'
<1> SUFFICES ASSUME Inv, IdsInv, FileInv, PassInv, [Next]_vars, pc' = "settle"
             PROVE  work'.fp = mem'.fp /\ PassKept(work)'
  BY DEF PassInv
<1>a. view \in Views /\ todo \subseteq Tokens
  BY DEF Inv, TypeOK
<1>1. ASSUME work' = work, todo' = todo, view' = view, mem' = mem, pc = "settle"
      PROVE  work'.fp = mem'.fp /\ PassKept(work)'
  BY <1>1 DEF PassInv, PassKept, Pending
<1>2. CASE UNCHANGED vars
  BY <1>1, <1>2 DEF vars
<1>3. ASSUME NEW m \in Markets, NEW x \in Resolutions, Resolve(m, x)
      PROVE  work'.fp = mem'.fp /\ PassKept(work)'
  BY <1>1, <1>3 DEF Resolve
<1>4. CASE BeginReconcile
  <2>1. pc = "idle" /\ work' = mem /\ mem' = mem /\ todo' = {t \in Tokens : mem.qty[t] > 0}
    BY <1>4 DEF BeginReconcile
  <2>2. mem = Durable /\ mem \in Books
    BY <2>1, RunningBook
  <2>3. SettlementsKept(mem) /\ mem.qty \in [Tokens -> Nat]
        /\ \A s \in mem.settled : s.token \in Tokens
    BY <2>2 DEF FileInv, Books, Settlements
  <2>4. \A t \in Tokens : mem.qty[t] # 0 <=> t \in todo'
    BY <2>1, <2>3
  <2>5. \A s \in mem.settled :
           /\ \A r \in mem.settled : r.token = s.token => r = s
           /\ mem.qty[s.token] = 0
           /\ \A t \in Tokens : t[1] = s.token[1] => mem.qty[t] = 0
    BY <2>3 DEF SettlementsKept
  <2>. QED
    BY <2>1, <2>4, <2>5 DEF PassKept
<1>5. ASSUME NEW t \in Tokens, SettleToken(t)
      PROVE  work'.fp = mem'.fp /\ PassKept(work)'
  <2>1. /\ pc = "settle" /\ t \in todo /\ todo' = todo \ {t} /\ view' = view /\ mem' = mem
        /\ work' = IF Pending(t) THEN work ELSE SettledBook(work, t)
    BY <1>5 DEF SettleToken
  <2>2. PassKept(work) /\ work.fp = mem.fp /\ work \in Books
    BY <2>1 DEF PassInv, Inv, Successor
  <2>3. \A u \in Tokens : Pending(u)' <=> Pending(u)
    BY <2>1 DEF Pending
  <2>4. \A s \in work.settled : s.token \in Tokens
    BY <2>2 DEF Books, Settlements
  <2>5. CASE Pending(t)
    BY <1>a, <2>1, <2>2, <2>3, <2>5 DEF PassKept
  <2>6. CASE ~Pending(t)
    <3> DEFINE r == SettledBook(work, t)
    <3>1. /\ r.fp = work.fp
          /\ \A u \in Tokens : r.qty[u] = IF u = t THEN 0 ELSE work.qty[u]
          /\ \A s \in r.settled :
                /\ \A x \in r.settled : x.token = s.token => x = s
                /\ r.qty[s.token] = 0
                /\ \A u \in Tokens : u[1] = s.token[1] /\ r.qty[u] # 0 => ~Pending(u)
      BY <1>a, <2>1, <2>2, <2>6, SettledKeepsPass
    <3>2. work' = r
      BY <2>1, <2>6
    <3> HIDE DEF r
    <3>3. \A u \in Tokens : r.qty[u] # 0 => u \in todo' \/ Pending(u)
      BY <2>1, <2>2, <3>1 DEF PassKept
    <3>4. \A u \in todo' : r.qty[u] # 0
      BY <1>a, <2>1, <2>2, <3>1 DEF PassKept
    <3>. QED
      BY <2>1, <2>2, <2>3, <3>1, <3>2, <3>3, <3>4 DEF PassKept
  <2>. QED
    BY <2>5, <2>6
<1>6. CASE Boot \/ Recover \/ ResumeExecution \/ FillStep \/ FinalizeExecution
           \/ AbortExecution \/ EndReconcile \/ Shutdown \/ Crash \/ Reset
  BY <1>6 DEF Boot, Recover, ResumeExecution, FillStep, FinalizeExecution, AbortExecution,
              EndReconcile, Shutdown, Crash, Reset, ProcessGone, Save, Commit, SaveFails
<1>7. ASSUME NEW p \in Plans, StartExecution(p) \/ ExecuteOnce(p) PROVE FALSE
  BY <1>7 DEF StartExecution, ExecuteOnce, Save, Commit, SaveFails
<1>8. ASSUME NEW m \in Markets, NEW price \in LegPrices, CompleteLeg(m, price) PROVE FALSE
  BY <1>8 DEF CompleteLeg, Save, Commit, SaveFails
<1>. QED
  <2>1. CASE Next
    BY <2>1, <1>3, <1>4, <1>5, <1>6, <1>7, <1>8 DEF Next
  <2>. QED
    BY <1>2, <2>1

SafetyInv == Inv /\ IdsInv /\ FileInv /\ PassInv

LEMMA SafetyAlways == Spec => []SafetyInv
<1>1. Init => SafetyInv
  BY InitInv, InitIds, InitFile DEF SafetyInv
<1>2. SafetyInv /\ [Next]_vars => SafetyInv'
  BY NextInv, NextIds, NextFile, NextPass DEF SafetyInv
<1>. QED
  BY <1>1, <1>2, PTL DEF Spec

\* The unchanged-book guard survives crashes, recovery, inventory buys and restarts: one
\* quantity of a pair of books is not traded twice under one step plan without another
\* execution of the market in between (book_fingerprints, _known_fingerprint).  An
\* execution keeps the fingerprint it was started with, though it be finished under
\* another step limit.
THEOREM BooksTradedOnce == Spec => []SnapshotTradedOnce
<1>1. SafetyInv => SnapshotTradedOnce
  BY DEF SafetyInv, FileInv, FpsKept, SnapshotTradedOnce
<1>. QED
  BY <1>1, SafetyAlways, PTL

\* No token is paid out twice, in whatever form its winner is named, and a settled
\* market holds nothing that a later pass could pay for (reconcile_public_markets).
THEOREM TokensSettledOnce == Spec => []SettledOnce
<1>1. SafetyInv => SettledOnce
  <2> SUFFICES ASSUME SafetyInv, NEW s \in Durable.settled
               PROVE  /\ \A r \in Durable.settled : r.token = s.token => r = s
                      /\ Durable.qty[s.token] = 0
    BY DEF SettledOnce
  <2>1. SettlementsKept(Durable)
    BY DEF SafetyInv, FileInv
  <2>2. s.token \in Tokens
    BY DurableType DEF SafetyInv, Inv, TypeOK, Books, Settlements
  <2>. QED
    BY <2>1, <2>2 DEF SettlementsKept
<1>. QED
  BY <1>1, SafetyAlways, PTL

-----------------------------------------------------------------------------
(* Cash: a resumed execution is never checked against it again *)

\* Slippage, fees and tax were part of the sizing: what a pair costs when it is filled
\* is at most what the plan was sized with.
CostsAsSized(p) == p.yes + p.no <= p.sized

\* The whole of the active execution's plan can be paid without the reserve.
Affordable(b) ==
    b.active # NoActive =>
        LET p == b.active.plan
        IN  CostsAsSized(p) /\ p.qty * p.sized + Merge <= b.cash - Reserve

LEMMA AcceptedIsAffordable ==
  ASSUME NEW b \in Books, NEW p \in Plans, PlanAccepted(b, p)
  PROVE  p.qty * p.sized + Merge <= b.cash - Reserve
<1> DEFINE cost == p.qty * p.sized
           left == b.cash - Reserve
<1>1. p.qty \in Nat \ {0} /\ p.sized \in Nat \ {0}
  BY Numbers DEF PlanRecords
<1>2. cost \in Nat /\ cost > 0
  BY <1>1
<1>3. left \in Int /\ Merge \in Nat /\ Ceiling \in Nat
  BY Numbers DEF Books
<1>4. cost + Merge <= MinOf(Positive(left), Ceiling)
  BY DEF PlanAccepted, Budget
<1> HIDE DEF cost, left
<1>5. cost + Merge <= left
  BY <1>2, <1>3, <1>4 DEF MinOf, Positive
<1>. QED
  BY <1>5 DEF cost, left

\* More cash, or no active execution, leaves it affordable.
LEMMA StaysAffordable ==
  ASSUME NEW b \in Books, NEW r \in Books, Affordable(b), r.cash >= b.cash,
         \/ r.active = NoActive
         \/ b.active # NoActive /\ r.active.plan = b.active.plan
  PROVE  Affordable(r)
<1> SUFFICES ASSUME r.active # NoActive PROVE Affordable(r)
  BY DEF Affordable
<1> DEFINE p == b.active.plan
           cost == p.qty * p.sized
<1>1. b.active \in Actives /\ r.active.plan = p
  BY DEF Books
<1>2. cost \in Int /\ b.cash \in Int /\ r.cash \in Int /\ Reserve \in Nat /\ Merge \in Nat
  BY <1>1, ActiveParts, Numbers DEF PlanRecords, Books
<1>3. CostsAsSized(p) /\ cost + Merge <= b.cash - Reserve
  BY DEF Affordable
<1> HIDE DEF cost
<1>4. cost + Merge <= r.cash - Reserve
  BY <1>2, <1>3
<1>. QED
  BY <1>1, <1>3, <1>4 DEF Affordable, cost

LEMMA NextAffordable ==
  ASSUME \A p \in Plans : CostsAsSized(p)
  PROVE  SafetyInv /\ Affordable(Durable) /\ [Next]_vars => Affordable(Durable)'
<1> SUFFICES ASSUME SafetyInv, Affordable(Durable), [Next]_vars
             PROVE  Affordable(Durable)'
  OBVIOUS
<1> DEFINE b == Durable
<1>1. FileStep
  BY FileSteps DEF SafetyInv
<1>2. b \in Books /\ Affordable(b)
  BY DurableType DEF SafetyInv, Inv, TypeOK
<1>3. limit \in StepLimits /\ limit \in Nat
  BY Numbers DEF SafetyInv, Inv, TypeOK
<1>4. pc = "step" => b.active \in Actives
  <2>1. pc = "step" => mem = b /\ mem.active # NoActive
    BY RunningBook DEF SafetyInv, Inv, TypeOK
  <2>. QED
    BY <1>2, <2>1 DEF Books
<1>5. NoActive \notin Actives
  BY ConstantsAssumption
<1>6. SUFFICES Affordable(Durable')
  BY DEF Affordable
<1>7. CASE Durable' = b
  BY <1>2, <1>7
<1>8. CASE Durable' = InitialBook
  BY <1>8 DEF InitialBook, Affordable
<1>9. CASE b.active # NoActive /\ Durable' = RecoveredBook(b)
  <2>1. b.active \in Actives
    BY <1>2, <1>9 DEF Books
  <2>2. AbortedBook(b).active = NoActive
    BY <1>2, WithActiveBook DEF AbortedBook
  <2>3. ClosedBook(b).active = NoActive
    BY <1>2, <2>1, ClosedBookParts
  <2>. QED
    BY <1>9, <2>2, <2>3 DEF RecoveredBook, Affordable
<1>10. ASSUME NEW p \in Plans, PlanAccepted(b, p), ~ZeroFriction,
              Durable' = WithActive(b, NewActive(b, p))
       PROVE  Affordable(Durable')
  <2> DEFINE a == NewActive(b, p)
             r == WithActive(b, a)
  <2>1. a \in Actives /\ a.plan = p
    BY <1>2, <1>3, <1>10, NewActiveType DEF NewActive
  <2> HIDE DEF a
  <2>2. r.active = a /\ r.cash = b.cash
    BY <1>2, <2>1, WithActiveBook
  <2> HIDE DEF r
  <2>3. CostsAsSized(p) /\ p.qty * p.sized + Merge <= b.cash - Reserve
    BY <1>2, <1>10, AcceptedIsAffordable
  <2>4. Affordable(r)
    BY <2>1, <2>2, <2>3 DEF Affordable
  <2>. QED
    BY <1>10, <2>4 DEF r, a
<1>11. CASE pc = "step" /\ ~StepsOver(b.active) /\ StepValid(b.active)
            /\ Durable' = FilledBook(b)
  <2> DEFINE r == FilledBook(b)
  <2>1. r \in Books /\ r.cash >= b.cash
    BY <1>2, <1>3, <1>4, <1>11, FilledBookSucceeds DEF Successor
  <2>2. r.active.plan = b.active.plan /\ b.active # NoActive
    BY <1>2, <1>3, <1>4, <1>5, <1>11, FilledBookParts
  <2> HIDE DEF r
  <2>3. Affordable(r)
    BY <1>2, <2>1, <2>2, StaysAffordable
  <2>. QED
    BY <1>11, <2>3 DEF r
<1>12. CASE pc = "step" /\ Durable' = ClosedBook(b)
  <2>1. ClosedBook(b).active = NoActive
    BY <1>2, <1>4, <1>12, ClosedBookParts
  <2>. QED
    BY <1>12, <2>1 DEF Affordable
<1>13. CASE Durable' = AbortedBook(b)
  <2>1. AbortedBook(b).active = NoActive
    BY <1>2, WithActiveBook DEF AbortedBook
  <2>. QED
    BY <1>13, <2>1 DEF Affordable
<1>14. ASSUME NEW p \in Plans, b.active = NoActive, Durable' = ExecutedBook(b, p)
       PROVE  Affordable(Durable')
  <2>1. ExecutedBook(b, p).active = NoActive
    BY <1>2, <1>3, <1>14, ExecutedBookParts DEF AppliedParts
  <2>. QED
    BY <1>14, <2>1 DEF Affordable
<1>15. ASSUME NEW m \in Markets, NEW price \in LegPrices, LegAccepted(b, m, price),
              Durable' = LegBook(b, m, price)
       PROVE  Affordable(Durable')
  <2> DEFINE r == LegBook(b, m, price)
  <2>1. r \in Books /\ r.cash >= b.cash
    BY <1>2, <1>15, LegBookSucceeds DEF Successor
  <2>2. r.active = b.active
    BY <1>2, LegBookParts DEF AppliedParts
  <2> HIDE DEF r
  <2>3. Affordable(r)
    BY <1>2, <2>1, <2>2, StaysAffordable
  <2>. QED
    BY <1>15, <2>3 DEF r
<1>16. CASE pc = "settle" /\ todo = {} /\ Durable' = work
  <2>1. /\ mem = b /\ work \in Books /\ work.cash >= b.cash
        /\ work.active = b.active
    BY <1>16, RunningBook DEF SafetyInv, Inv, Successor, IdsInv
  <2>. QED
    BY <1>2, <1>16, <2>1, StaysAffordable
<1>. QED
  BY <1>1, <1>7, <1>8, <1>9, <1>10, <1>11, <1>12, <1>13, <1>14, <1>15, <1>16 DEF FileStep

\* A step is a part of the plan: its pairs are among those that were sized, and it pays
\* for one merge at most.
LEMMA AffordableStep ==
  ASSUME NEW b \in Books, b.active \in Actives, Affordable(b), limit \in Nat,
         ~StepsOver(b.active)
  PROVE  Spend(StepFill(b.active)) <= b.cash - Reserve
<1> DEFINE a == b.active
           p == a.plan
           q == StepQuantity(a)
           cost == p.qty * p.sized
<1>1. a \in Actives /\ a # NoActive /\ p.qty \in Nat /\ a.filled \in Nat
  BY ActiveParts, ConstantsAssumption
<1>2. p.yes \in Nat /\ p.no \in Nat /\ p.sized \in Nat
  BY <1>1, ActiveParts DEF PlanRecords
<1>3. q \in Nat /\ q <= p.qty - a.filled
  BY StepFillType
<1>4. q <= p.qty
  BY <1>1, <1>3
<1>5. p.yes + p.no <= p.sized /\ cost + Merge <= b.cash - Reserve
  BY <1>1 DEF Affordable, CostsAsSized
<1>6. Spend(StepFill(a)) = q * p.yes + q * p.no + StepMerge(a)
  BY DEF Spend, StepFill, FillOf
<1>7. StepMerge(a) \in Nat /\ StepMerge(a) <= Merge /\ Merge \in Nat
  BY Numbers DEF StepMerge
<1>8. b.cash \in Int /\ Reserve \in Nat
  BY Numbers DEF Books
<1>9. q * p.yes + q * p.no <= p.qty * p.sized
  <2> DEFINE y == p.yes
             n == p.no
             z == p.sized
             k == p.qty
  <2>1. y \in Nat /\ n \in Nat /\ z \in Nat /\ k \in Nat /\ y + n <= z /\ q \in Nat /\ q <= k
    BY <1>1, <1>2, <1>3, <1>4, <1>5
  <2> HIDE DEF y, n, z, k, q
  <2>2. q * y + q * n = q * (y + n)
    BY <2>1
  <2>3. q * (y + n) <= q * z
    BY <2>1
  <2>4. q * z <= k * z
    BY <2>1
  <2>5. q * (y + n) \in Int /\ q * z \in Int /\ k * z \in Int
    BY <2>1
  <2>6. q * y + q * n <= k * z
    BY <2>2, <2>3, <2>4, <2>5
  <2>. QED
    BY <2>6 DEF y, n, z, k
<1> DEFINE paid == q * p.yes + q * p.no
<1>10. paid \in Nat /\ cost \in Nat
  BY <1>1, <1>2, <1>3
<1>11. paid <= cost
  BY <1>9
<1> HIDE DEF paid, cost
<1>12. paid + StepMerge(a) <= b.cash - Reserve
  BY <1>5, <1>7, <1>8, <1>10, <1>11
<1>. QED
  BY <1>6, <1>12 DEF paid

\* A step about to be filled leaves the reserve untouched, whatever ran since the
\* execution started, if a pair costs no more than it was sized with: no saved change
\* lowers the cash (CashMonotone), so that what was affordable stays so
\* (_continue_stepped_execution, which looks at no cash).
THEOREM StepsKeepReserve ==
  ASSUME \A p \in Plans : CostsAsSized(p), \A b \in SavedBooks : Affordable(b)
  PROVE  Spec => []StepKeepsReserve
<1>1. Init => Affordable(Durable)
  <2>1. Affordable(InitialBook)
    BY DEF InitialBook, Affordable
  <2>. QED
    BY <2>1 DEF Init, Durable
<1>2. SafetyInv /\ Affordable(Durable) /\ [Next]_vars => Affordable(Durable)'
  BY NextAffordable
<1>3. SafetyInv /\ Affordable(Durable) => StepKeepsReserve
  <2> SUFFICES ASSUME SafetyInv, Affordable(Durable), pc = "step",
                      ~StepsOver(mem.active)
               PROVE  Spend(StepFill(mem.active)) <= mem.cash - Reserve
    BY DEF StepKeepsReserve
  <2>1. mem \in Books /\ mem = Durable /\ mem.active # NoActive
    BY RunningBook DEF SafetyInv, Inv, TypeOK
  <2>2. mem.active \in Actives
    BY <2>1 DEF Books
  <2>3. limit \in Nat
    BY Numbers DEF SafetyInv, Inv, TypeOK
  <2>. QED
    BY <2>1, <2>2, <2>3, AffordableStep
<1>. QED
  BY <1>1, <1>2, <1>3, SafetyAlways, PTL DEF Spec

=============================================================================
