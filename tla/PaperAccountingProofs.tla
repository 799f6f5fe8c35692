----------------------- MODULE PaperAccountingProofs -----------------------
(***************************************************************************)
(* The numbers of the portfolio file, for every set of markets, plans,      *)
(* saved files and simulation settings: no money is made or lost, every     *)
(* cent of the result is explained by a record, and each save is one        *)
(* transaction of the ledger.                                               *)
(***************************************************************************)
EXTENDS PaperAccounting, PaperPortfolioProofs, FiniteSums, FiniteSetTheorems

-----------------------------------------------------------------------------
(* What each operator on books does to the sums *)

LEMMA TokensFinite == IsFiniteSet(Tokens)
<1>1. IsFiniteSet({"YES"})
  BY FS_Singleton
<1>2. IsFiniteSet({"YES"} \cup {"NO"})
  BY <1>1, FS_AddElement
<1>3. {"YES"} \cup {"NO"} = Outcomes
  BY DEF Outcomes
<1>. QED
  BY <1>2, <1>3, FS_Product, SavedSumsAssumption DEF Tokens

CostTotal(f) == SumFunctionOnSet(f, Tokens)

LEMMA CostHeldIs ==
  ASSUME NEW b \in Books
  PROVE  CostHeld(b) = CostTotal(b.cost)
<1>1. DOMAIN b.cost = Tokens
  BY DEF Books
<1>. QED
  BY <1>1 DEF CostHeld, CostTotal, SumFunction

LEMMA CostTotalType ==
  ASSUME NEW f \in [Tokens -> Nat]
  PROVE  CostTotal(f) \in Int
<1>1. \A t \in Tokens : f[t] \in Int
  OBVIOUS
<1>2. \A T \in SUBSET Tokens : SumFunctionOnSet(f, T) \in Int
  BY <1>1, TokensFinite, SumType
<1>. QED
  BY <1>2 DEF CostTotal

LEMMA RowChanged ==
  ASSUME NEW f \in [Tokens -> Nat], NEW g \in [Tokens -> Nat], NEW t \in Tokens,
         \A u \in Tokens : u # t => g[u] = f[u]
  PROVE  CostTotal(g) = CostTotal(f) + (g[t] - f[t])
<1>1. /\ \A u \in Tokens : f[u] \in Int
      /\ g[t] \in Int /\ \A u \in Tokens \ {t} : g[u] = f[u]
  OBVIOUS
<1>. QED
  BY <1>1, TokensFinite, SumChange DEF CostTotal

LEMMA ChangedTotal ==
  ASSUME NEW f \in [Tokens -> Nat], NEW m \in Markets, NEW yes \in Int, NEW no \in Int,
         f[Yes(m)] + yes >= 0, f[No(m)] + no >= 0
  PROVE  CostTotal(Change(f, m, yes, no)) = CostTotal(f) + yes + no
<1> DEFINE y == Yes(m)
           n == No(m)
           g == [f EXCEPT ![y] = f[y] + yes]
           h == Change(f, m, yes, no)
<1>1. y \in Tokens /\ n \in Tokens /\ y # n /\ f[y] \in Nat /\ f[n] \in Nat
  BY TokensOf
<1>2. /\ h \in [Tokens -> Nat] /\ h[y] = f[y] + yes /\ h[n] = f[n] + no
      /\ \A t \in Tokens : t[1] # m => h[t] = f[t]
  BY ChangeType
<1>3. \A t \in Tokens : t[1] = m => t = y \/ t = n
  BY TokenOfMarket
<1> HIDE DEF y, n, h
<1>4. /\ g \in [Tokens -> Nat] /\ g[y] = f[y] + yes
      /\ \A t \in Tokens : t # y => g[t] = f[t]
  BY <1>1, <1>2
<1> HIDE DEF g
<1>5. CostTotal(g) = CostTotal(f) + (g[y] - f[y])
  BY <1>1, <1>4, RowChanged
<1>6. \A t \in Tokens : t # n => h[t] = g[t]
  BY <1>2, <1>3, <1>4
<1>7. CostTotal(h) = CostTotal(g) + (h[n] - g[n])
  BY <1>1, <1>2, <1>4, <1>6, RowChanged
<1>8. CostTotal(f) \in Int /\ CostTotal(g) \in Int /\ CostTotal(h) \in Int
  BY <1>2, <1>4, CostTotalType
<1>9. g[n] = f[n]
  BY <1>1, <1>4
<1>10. CostTotal(h) = CostTotal(f) + yes + no
  BY <1>1, <1>2, <1>4, <1>5, <1>7, <1>8, <1>9
<1>. QED
  BY <1>10 DEF h

\* What the books are worth beyond the result: it never changes.
Net(b) == b.cash + CostHeld(b) - b.pnl

\* The result that normalisations do not explain.
Earned(b) == b.pnl - b.normalized

LEMMA BookNumbers ==
  ASSUME NEW b \in Books
  PROVE  /\ b.cash \in Int /\ b.pnl \in Int /\ b.normalized \in Int
         /\ b.cost \in [Tokens -> Nat] /\ CostHeld(b) \in Int
         /\ Net(b) \in Int /\ Earned(b) \in Int
<1>1. b.cash \in Int /\ b.pnl \in Int /\ b.normalized \in Int /\ b.cost \in [Tokens -> Nat]
  BY DEF Books
<1>2. CostHeld(b) \in Int
  BY <1>1, CostHeldIs, CostTotalType
<1>. QED
  BY <1>1, <1>2 DEF Net, Earned

LEMMA InBalanceIs ==
  ASSUME NEW b \in Books
  PROVE  InBalance(b) <=> Net(b) = Starting
  BY BookNumbers, Numbers DEF InBalance, Net

\* The same money, holdings and normalisations.
LEMMA SameSums ==
  ASSUME NEW b \in Books, NEW r \in Books, r.cash = b.cash, r.cost = b.cost,
         r.pnl = b.pnl, r.normalized = b.normalized
  PROVE  Net(r) = Net(b) /\ Earned(r) = Earned(b)
  BY CostHeldIs DEF Net, Earned

\* Money that moves into holdings or into the result stays in the books.
LEMMA PostSums ==
  ASSUME NEW b \in Books, NEW cash \in Int, NEW gain \in Int,
         NEW qty \in [Tokens -> Nat], NEW cost \in [Tokens -> Nat],
         CostTotal(cost) = CostTotal(b.cost) + (gain - cash)
  PROVE  LET r == Post(b, cash, gain, qty, cost)
         IN  Net(r) = Net(b) /\ Earned(r) = Earned(b) + gain
<1> DEFINE r == Post(b, cash, gain, qty, cost)
<1>1. Posted(r, b, cash, gain, qty, cost)
  BY PostBook
<1> HIDE DEF r
<1>2. /\ r \in Books /\ r.cash = b.cash + cash /\ r.pnl = b.pnl + gain
      /\ r.cost = cost /\ r.normalized = b.normalized
  BY <1>1 DEF Posted
<1>3. CostHeld(r) = CostHeld(b) + (gain - cash)
  BY <1>2, CostHeldIs
<1>4. Net(r) = Net(b) /\ Earned(r) = Earned(b) + gain
  BY <1>2, <1>3, BookNumbers DEF Net, Earned
<1>. QED
  BY <1>4 DEF r

LEMMA RedeemPairsSums ==
  ASSUME NEW b \in Books, NEW m \in Markets
  PROVE  LET r == RedeemPairs(b, m)
         IN  Net(r) = Net(b) /\ Earned(r) = Earned(b) + (r.pnl - b.pnl)
<1> DEFINE q == Matched(b, m)
           y == CostShare(b, Yes(m), q)
           n == CostShare(b, No(m), q)
           qty == Change(b.qty, m, -q, -q)
           cost == Change(b.cost, m, -y, -n)
           value == q * Payout
           gain == value - (y + n)
           r == Post(b, value, gain, qty, cost)
<1>1. /\ b.qty[Yes(m)] \in Nat /\ b.qty[No(m)] \in Nat
      /\ b.cost[Yes(m)] \in Nat /\ b.cost[No(m)] \in Nat
      /\ q \in Nat /\ q <= b.qty[Yes(m)] /\ q <= b.qty[No(m)]
  BY HoldingsType
<1>2. y \in 0 .. b.cost[Yes(m)] /\ n \in 0 .. b.cost[No(m)]
  BY <1>1, TokensOf, CostShareBound
<1>3. value \in Int
  BY <1>1, Numbers
<1>4. RedeemPairs(b, m) = r
  BY DEF RedeemPairs
<1> HIDE DEF q, y, n, value
<1>5. qty \in [Tokens -> Nat]
  BY <1>1, HoldingsType, ChangeType
<1>6. cost \in [Tokens -> Nat] /\ CostTotal(cost) = CostTotal(b.cost) + (-y) + (-n)
  BY <1>1, <1>2, HoldingsType, ChangeType, ChangedTotal
<1> HIDE DEF qty, cost
<1>7. CostTotal(b.cost) \in Int
  BY BookNumbers, CostTotalType
<1>8. gain \in Int /\ CostTotal(cost) = CostTotal(b.cost) + (gain - value)
  BY <1>2, <1>3, <1>6, <1>7
<1> HIDE DEF gain
<1>9. Net(r) = Net(b) /\ Earned(r) = Earned(b) + gain
  BY <1>3, <1>5, <1>6, <1>8, PostSums
<1>a. Posted(r, b, value, gain, qty, cost)
  BY <1>3, <1>5, <1>6, <1>8, PostBook
<1> HIDE DEF r
<1>10. r \in Books /\ r.pnl = b.pnl + gain
  BY <1>a DEF Posted
<1>11. gain = r.pnl - b.pnl
  BY <1>8, <1>10, BookNumbers
<1>. QED
  BY <1>4, <1>9, <1>11

\* The gain of pairs held before is a normalisation, not earned.
LEMMA NormalizeSums ==
  ASSUME NEW b \in Books, NEW m \in Markets
  PROVE  Net(Normalize(b, m)) = Net(b) /\ Earned(Normalize(b, m)) = Earned(b)
<1> DEFINE r == RedeemPairs(b, m)
           x == r.normalized + (r.pnl - b.pnl)
           w == [r EXCEPT !.normalized = x]
<1>1. r \in Books /\ r.normalized = b.normalized
  BY RedeemPairsBook
<1>2. Net(r) = Net(b)
  BY RedeemPairsSums
<1>3. Normalize(b, m) = w /\ w \in Books
  BY NormalizeBook DEF Normalize
<1> HIDE DEF r
<1>4. w.cash = r.cash /\ w.cost = r.cost /\ w.pnl = r.pnl /\ w.normalized = x
  BY <1>1, Zenon DEF Books
<1> HIDE DEF w
<1>5. Net(w) = Net(r)
  BY <1>1, <1>3, <1>4, CostHeldIs DEF Net
<1>6. Earned(w) = Earned(b)
  BY <1>1, <1>4, BookNumbers DEF Earned
<1>. QED
  BY <1>2, <1>3, <1>5, <1>6

LEMMA AddInventorySums ==
  ASSUME NEW b \in Books, NEW m \in Markets, NEW f \in Fills
  PROVE  LET r == AddInventory(b, m, f)
         IN  Net(r) = Net(b) /\ r.normalized = b.normalized
<1> DEFINE qty == Change(b.qty, m, f.yes, f.no)
           cost == Change(b.cost, m, f.yesCost, f.noCost)
           cash == -Spend(f)
           gain == -f.merge
           r == Post(b, cash, gain, qty, cost)
<1>1. /\ f.yes \in Nat /\ f.no \in Nat /\ f.yesCost \in Nat /\ f.noCost \in Nat
      /\ f.merge \in Nat
  BY DEF Fills
<1>2. /\ b.qty[Yes(m)] \in Nat /\ b.qty[No(m)] \in Nat
      /\ b.cost[Yes(m)] \in Nat /\ b.cost[No(m)] \in Nat
  BY HoldingsType
<1>3. qty \in [Tokens -> Nat]
  BY <1>1, <1>2, HoldingsType, ChangeType
<1>4. /\ cost \in [Tokens -> Nat]
      /\ CostTotal(cost) = CostTotal(b.cost) + f.yesCost + f.noCost
  BY <1>1, <1>2, HoldingsType, ChangeType, ChangedTotal
<1>5. AddInventory(b, m, f) = r
  BY DEF AddInventory
<1> HIDE DEF qty, cost
<1>6. CostTotal(b.cost) \in Int
  BY BookNumbers, CostTotalType
<1>7. cash \in Int /\ gain \in Int /\ CostTotal(cost) = CostTotal(b.cost) + (gain - cash)
  BY <1>1, <1>4, <1>6 DEF Spend
<1> HIDE DEF cash, gain
<1>8. Net(r) = Net(b) /\ Earned(r) = Earned(b) + gain
  BY <1>3, <1>4, <1>7, PostSums
<1>a. Posted(r, b, cash, gain, qty, cost)
  BY <1>3, <1>4, <1>7, PostBook
<1> HIDE DEF r
<1>9. r.normalized = b.normalized
  BY <1>a DEF Posted
<1>. QED
  BY <1>5, <1>8, <1>9

\* An execution earns its net profit, and nothing else.
LEMMA ApplyExecutionSums ==
  ASSUME NEW b \in Books, NEW m \in Markets, NEW f \in Fills
  PROVE  LET r == ApplyExecution(b, m, f)
         IN  Net(r) = Net(b) /\ Earned(r) = Earned(b) + NetProfit(b, m, f)
<1> DEFINE n == Normalize(b, m)
           a == AddInventory(n, m, f)
           r == RedeemPairs(a, m)
<1>1. n \in Books /\ Net(n) = Net(b) /\ Earned(n) = Earned(b)
  BY NormalizeBook, NormalizeSums
<1>2. ApplyExecution(b, m, f) = r /\ NetProfit(b, m, f) = r.pnl - n.pnl
  BY DEF ApplyExecution, NetProfit
<1> HIDE DEF n
<1>3. a \in Books /\ Net(a) = Net(n) /\ a.normalized = n.normalized
  BY <1>1, AddInventoryBook, AddInventorySums
<1> HIDE DEF a
<1>4. /\ r \in Books /\ r.normalized = a.normalized
      /\ Net(r) = Net(a)
  BY <1>3, RedeemPairsBook, RedeemPairsSums
<1> HIDE DEF r
<1>5. Earned(r) = Earned(n) + (r.pnl - n.pnl)
  BY <1>1, <1>3, <1>4, BookNumbers DEF Earned
<1>. QED
  BY <1>1, <1>2, <1>3, <1>4, <1>5

-----------------------------------------------------------------------------
(* What the records report *)

\* The books of a portfolio: in balance, and every cent of the result in one record.
Sound(b) == InBalance(b) /\ IsFiniteSet(b.settled) /\ Explained(b)

LEMMA ExecutionProfitsType ==
  ASSUME NEW b \in Books
  PROVE  ExecutionProfits(b) \in Int
<1> DEFINE E == b.executions
           f == [i \in DOMAIN E |-> E[i].profit]
<1>1. E \in Seq(Executions)
  BY DEF Books
<1> HIDE DEF E
<1>2. DOMAIN E = 1 .. Len(E) /\ Len(E) \in Nat /\ \A i \in DOMAIN E : E[i] \in Executions
  BY <1>1
<1>3. IsFiniteSet(DOMAIN E) /\ \A i \in DOMAIN E : f[i] \in Int
  BY <1>2, FS_Interval DEF Executions
<1>4. DOMAIN f \in SUBSET DOMAIN E
  OBVIOUS
<1> HIDE DEF f
<1>5. SumFunctionOnSet(f, DOMAIN f) \in Int
  BY <1>3, <1>4, SumType
<1>. QED
  BY <1>5 DEF ExecutionProfits, SumFunction, f, E

LEMMA AppendedProfits ==
  ASSUME NEW b \in Books, NEW r \in Books, NEW e \in Executions,
         r.executions = Append(b.executions, e)
  PROVE  ExecutionProfits(r) = ExecutionProfits(b) + e.profit
<1> DEFINE E == b.executions
           F == r.executions
           n == Len(E)
           f == [i \in DOMAIN E |-> E[i].profit]
           g == [i \in DOMAIN F |-> F[i].profit]
<1>1. E \in Seq(Executions)
  BY DEF Books
<1>2. F = Append(E, e)
  OBVIOUS
<1>3. ExecutionProfits(b) = SumFunctionOnSet(f, DOMAIN E)
      /\ ExecutionProfits(r) = SumFunctionOnSet(g, DOMAIN F)
  BY DEF ExecutionProfits, SumFunction
<1> HIDE DEF E, F
<1>4. /\ n \in Nat /\ DOMAIN E = 1 .. n /\ DOMAIN F = (1 .. n) \cup {n + 1}
      /\ F[n + 1] = e /\ \A i \in 1 .. n : F[i] = E[i] /\ E[i] \in Executions
  BY <1>1, <1>2
<1> DEFINE D == 1 .. n
           k == n + 1
<1>5. IsFiniteSet(D) /\ k \notin D
  BY <1>4, FS_Interval
<1>6. (\A i \in D : g[i] = f[i]) /\ (\A i \in D : f[i] \in Int)
  BY <1>4 DEF Executions
<1>7. g[k] = e.profit /\ g[k] \in Int
  BY <1>4 DEF Executions
<1>8. DOMAIN E = D /\ DOMAIN F = D \cup {k}
  BY <1>4
<1> DEFINE N == DOMAIN F
<1>a. N = D \cup {k}
  BY <1>8
<1> HIDE DEF f, g, D, k, N
<1>9. SumFunctionOnSet(g, N) = SumFunctionOnSet(f, D) + g[k]
  BY <1>a, <1>5, <1>6, <1>7, SumAdd
<1>. QED
  BY <1>3, <1>7, <1>8, <1>9 DEF N

LEMMA SettlementGainsType ==
  ASSUME NEW b \in Books, IsFiniteSet(b.settled)
  PROVE  SettlementGains(b) \in Int
<1> DEFINE S == b.settled
           f == [s \in S |-> s.gain]
<1>1. \A s \in S : f[s] \in Int
  BY DEF Books, Settlements
<1>2. DOMAIN f \in SUBSET S /\ IsFiniteSet(S)
  OBVIOUS
<1> HIDE DEF f, S
<1>3. SumFunctionOnSet(f, DOMAIN f) \in Int
  BY <1>1, <1>2, SumType
<1>. QED
  BY <1>3 DEF SettlementGains, SumFunction, f, S

LEMMA GainAdded ==
  ASSUME NEW S, IsFiniteSet(S), \A x \in S : x.gain \in Int,
         NEW s, s \notin S, s.gain \in Int, NEW T, T = S \cup {s}
  PROVE  /\ IsFiniteSet(T)
         /\ SumFunction([x \in T |-> x.gain]) = SumFunction([x \in S |-> x.gain]) + s.gain
<1> DEFINE f == [x \in S |-> x.gain]
           g == [x \in T |-> x.gain]
<1>1. \A x \in S : g[x] = f[x]
  OBVIOUS
<1>2. \A x \in S : f[x] \in Int
  OBVIOUS
<1>3. g[s] = s.gain /\ g[s] \in Int
  OBVIOUS
<1>4. SumFunction(f) = SumFunctionOnSet(f, S) /\ SumFunction(g) = SumFunctionOnSet(g, T)
  BY DEF SumFunction
<1> HIDE DEF f, g
<1>5. IsFiniteSet(T) /\ SumFunctionOnSet(g, T) = SumFunctionOnSet(f, S) + g[s]
  BY <1>1, <1>2, <1>3, SumAdd
<1>. QED
  BY <1>3, <1>4, <1>5 DEF f, g

LEMMA AddedGain ==
  ASSUME NEW b \in Books, IsFiniteSet(b.settled), NEW s \in Settlements, s \notin b.settled,
         NEW r, r.settled = b.settled \cup {s}
  PROVE  IsFiniteSet(r.settled) /\ SettlementGains(r) = SettlementGains(b) + s.gain
<1>1. \A x \in b.settled : x.gain \in Int
  BY DEF Books, Settlements
<1>2. s.gain \in Int
  BY DEF Settlements
<1>. QED
  BY <1>1, <1>2, GainAdded DEF SettlementGains

LEMMA OpenProfitType ==
  ASSUME NEW b \in Books
  PROVE  OpenProfit(b) \in Int
  BY ActiveParts DEF OpenProfit, Books

\* What a change of the books must report: what it earned.
LEMMA StaysSound ==
  ASSUME NEW b \in Books, Sound(b), NEW r \in Books, IsFiniteSet(r.settled),
         NEW g \in Int, Net(r) = Net(b), Earned(r) = Earned(b) + g,
         ExecutionProfits(r) + OpenProfit(r) + SettlementGains(r)
            = ExecutionProfits(b) + OpenProfit(b) + SettlementGains(b) + g
  PROVE  Sound(r)
<1>1. InBalance(r)
  BY InBalanceIs DEF Sound
<1>2. /\ ExecutionProfits(b) \in Int /\ OpenProfit(b) \in Int /\ SettlementGains(b) \in Int
      /\ ExecutionProfits(r) \in Int /\ OpenProfit(r) \in Int /\ SettlementGains(r) \in Int
  BY ExecutionProfitsType, OpenProfitType, SettlementGainsType DEF Sound
<1>3. Explained(r)
  BY <1>2, BookNumbers DEF Sound, Explained, Earned
<1>. QED
  BY <1>1, <1>3 DEF Sound

LEMMA SameRecords ==
  ASSUME NEW b, NEW r, r.executions = b.executions, r.settled = b.settled
  PROVE  /\ ExecutionProfits(r) = ExecutionProfits(b)
         /\ SettlementGains(r) = SettlementGains(b)
         /\ \A id : Recorded(r, id) <=> Recorded(b, id)
  BY DEF ExecutionProfits, SettlementGains, Recorded

LEMMA RecordTypes ==
  ASSUME NEW b \in Books, Sound(b)
  PROVE  /\ ExecutionProfits(b) \in Int /\ OpenProfit(b) \in Int
         /\ SettlementGains(b) \in Int /\ IsFiniteSet(b.settled)
  BY ExecutionProfitsType, OpenProfitType, SettlementGainsType DEF Sound

\* Starting or dropping an execution moves no money and reports none.
LEMMA WithActiveSound ==
  ASSUME NEW b \in Books, Sound(b), OpenProfit(b) = 0,
         NEW a \in Actives \cup {NoActive}, a # NoActive => a.profit = 0
  PROVE  Sound(WithActive(b, a))
<1> DEFINE r == WithActive(b, a)
<1>1. /\ r \in Books /\ r.active = a /\ r.executions = b.executions
      /\ r.settled = b.settled /\ r.cash = b.cash
  BY WithActiveBook
<1>2. r.cost = b.cost /\ r.pnl = b.pnl /\ r.normalized = b.normalized
  BY Zenon DEF WithActive, Books
<1> HIDE DEF r
<1>3. Net(r) = Net(b) /\ Earned(r) = Earned(b) + 0
  BY <1>1, <1>2, SameSums, BookNumbers
<1>4. OpenProfit(r) = 0
  BY <1>1 DEF OpenProfit
<1>5. ExecutionProfits(r) + OpenProfit(r) + SettlementGains(r)
         = ExecutionProfits(b) + OpenProfit(b) + SettlementGains(b) + 0
  BY <1>1, <1>4, SameRecords, RecordTypes
<1>6. IsFiniteSet(r.settled)
  BY <1>1, RecordTypes
<1>7. Sound(r)
  BY <1>1, <1>3, <1>5, <1>6, StaysSound
<1>. QED
  BY <1>7 DEF r

LEMMA FilledSound ==
  ASSUME NEW b \in Books, Sound(b), b.active \in Actives, ~Recorded(b, b.active.id),
         limit \in Nat, ~StepsOver(b.active), StepValid(b.active)
  PROVE  Sound(FilledBook(b))
<1> DEFINE a == b.active
           m == a.plan.market
           f == StepFill(a)
           x == ApplyExecution(b, m, f)
           g == NetProfit(b, m, f)
           r == FilledBook(b)
<1>1. m \in Markets /\ f \in Fills
  BY ActiveParts, StepFillType
<1>2. /\ r \in Books /\ x \in Books
      /\ r.cash = x.cash /\ r.cost = x.cost /\ r.pnl = x.pnl
      /\ r.normalized = x.normalized
      /\ r.executions = b.executions /\ r.settled = b.settled
      /\ r.active \in Actives /\ r.active.id = a.id
      /\ r.active.profit = a.profit + g
  BY FilledBookParts
<1>3. g \in Int /\ Net(x) = Net(b) /\ Earned(x) = Earned(b) + g
  BY <1>1, ApplyExecutionBook, ApplyExecutionSums
<1> HIDE DEF m, f, x, g, r
<1>4. Net(r) = Net(b) /\ Earned(r) = Earned(b) + g
  BY <1>2, <1>3, SameSums
<1>5. OpenProfit(b) = a.profit /\ OpenProfit(r) = a.profit + g
  BY <1>2, SameRecords, ConstantsAssumption DEF OpenProfit
<1>6. a.profit \in Int
  BY ActiveParts
<1>7. ExecutionProfits(r) + OpenProfit(r) + SettlementGains(r)
         = ExecutionProfits(b) + OpenProfit(b) + SettlementGains(b) + g
  BY <1>2, <1>3, <1>5, <1>6, SameRecords, RecordTypes
<1>8. IsFiniteSet(r.settled)
  BY <1>2, RecordTypes
<1>9. Sound(r)
  BY <1>2, <1>3, <1>4, <1>7, <1>8, StaysSound
<1>. QED
  BY <1>9 DEF r

\* A closed execution reports what its steps earned.
LEMMA ClosedSound ==
  ASSUME NEW b \in Books, Sound(b), b.active \in Actives, ~Recorded(b, b.active.id),
         b.active.steps > 0
  PROVE  Sound(ClosedBook(b))
<1> DEFINE r == ClosedBook(b)
           e == Aggregate(b.active)
<1>1. /\ r \in Books /\ e \in Executions
      /\ r.executions = Append(b.executions, e) /\ r.active = NoActive
      /\ r.cash = b.cash /\ r.cost = b.cost /\ r.pnl = b.pnl
      /\ r.normalized = b.normalized /\ r.settled = b.settled
  BY ClosedBookParts
<1>2. e.profit = b.active.profit /\ e.profit \in Int
  BY ActiveParts DEF Aggregate
<1> HIDE DEF r, e
<1>3. Net(r) = Net(b) /\ Earned(r) = Earned(b) + 0
  BY <1>1, SameSums, BookNumbers
<1>4. OpenProfit(b) = e.profit /\ OpenProfit(r) = 0
  BY <1>1, <1>2, ConstantsAssumption DEF OpenProfit
<1>5. ExecutionProfits(r) = ExecutionProfits(b) + e.profit
      /\ SettlementGains(r) = SettlementGains(b)
  BY <1>1, AppendedProfits DEF SettlementGains
<1>6. ExecutionProfits(r) + OpenProfit(r) + SettlementGains(r)
         = ExecutionProfits(b) + OpenProfit(b) + SettlementGains(b) + 0
  BY <1>2, <1>4, <1>5, RecordTypes
<1>7. IsFiniteSet(r.settled)
  BY <1>1, RecordTypes
<1>8. Sound(r)
  BY <1>1, <1>3, <1>6, <1>7, StaysSound
<1>. QED
  BY <1>8 DEF r

\* An execution applied and recorded at once leaves the active one's profit as it was.
LEMMA AppliedSound ==
  ASSUME NEW b \in Books, Sound(b), NEW m \in Markets, NEW f \in Fills,
         NEW e \in Executions, e.profit = NetProfit(b, m, f),
         NEW r \in Books, AppliedParts(r, b, m, f, e),
         b.active # NoActive => ~Recorded(b, b.active.id) /\ ~Recorded(r, b.active.id)
  PROVE  Sound(r)
<1> DEFINE x == ApplyExecution(b, m, f)
<1>1. x \in Books /\ Net(x) = Net(b) /\ Earned(x) = Earned(b) + e.profit
  BY ApplyExecutionBook, ApplyExecutionSums
<1>2. /\ r.executions = Append(b.executions, e)
      /\ r.active = b.active /\ r.settled = b.settled
      /\ r.cash = x.cash /\ r.cost = x.cost /\ r.pnl = x.pnl
      /\ r.normalized = x.normalized
  BY DEF AppliedParts
<1> HIDE DEF x
<1>3. e.profit \in Int
  BY DEF Executions
<1>4. Net(r) = Net(b) /\ Earned(r) = Earned(b) + e.profit
  BY <1>1, <1>2, SameSums
<1>5. OpenProfit(r) = OpenProfit(b)
  BY <1>2 DEF OpenProfit
<1>6. ExecutionProfits(r) = ExecutionProfits(b) + e.profit
      /\ SettlementGains(r) = SettlementGains(b)
  BY <1>2, AppendedProfits DEF SettlementGains
<1>7. ExecutionProfits(r) + OpenProfit(r) + SettlementGains(r)
         = ExecutionProfits(b) + OpenProfit(b) + SettlementGains(b) + e.profit
  BY <1>3, <1>5, <1>6, RecordTypes
<1>8. IsFiniteSet(r.settled)
  BY <1>2, RecordTypes
<1>. QED
  BY <1>3, <1>4, <1>7, <1>8, StaysSound

\* A settled row turns its cost basis into money and a result that its record reports.
LEMMA SettledSound ==
  ASSUME NEW b \in Books, Sound(b), NEW t \in Tokens, NEW s \in Settlements,
         \A u \in b.settled : u.token # t, NEW r \in Books, SettledParts(r, b, t, s)
  PROVE  Sound(r)
<1>1. /\ s.token = t /\ r.settled = b.settled \cup {s}
      /\ r.cost = [b.cost EXCEPT ![t] = 0]
      /\ r.cash = b.cash + (s.gain + b.cost[t]) /\ r.pnl = b.pnl + s.gain
      /\ r.executions = b.executions /\ r.active = b.active
      /\ r.normalized = b.normalized
  BY DEF SettledParts
<1>2. s.gain \in Int /\ s \notin b.settled
  BY <1>1 DEF Settlements
<1>3. b.cost \in [Tokens -> Nat] /\ b.cost[t] \in Nat
  BY BookNumbers
<1>4. /\ r.cost \in [Tokens -> Nat] /\ r.cost[t] = 0
      /\ \A u \in Tokens : u # t => r.cost[u] = b.cost[u]
  BY <1>1, <1>3
<1>5. CostHeld(r) = CostHeld(b) + (0 - b.cost[t])
  BY <1>3, <1>4, RowChanged, CostHeldIs
<1>6. Net(r) = Net(b) /\ Earned(r) = Earned(b) + s.gain
  BY <1>1, <1>2, <1>3, <1>5, BookNumbers DEF Net, Earned
<1>7. OpenProfit(r) = OpenProfit(b) /\ ExecutionProfits(r) = ExecutionProfits(b)
  BY <1>1 DEF OpenProfit, ExecutionProfits, Recorded
<1>8. IsFiniteSet(r.settled) /\ SettlementGains(r) = SettlementGains(b) + s.gain
  <2>1. IsFiniteSet(b.settled) /\ s \notin b.settled
    BY <1>2, RecordTypes
  <2>2. r.settled = b.settled \cup {s}
    BY <1>1
  <2>. QED
    BY <2>1, <2>2, AddedGain, Zenon
<1>9. ExecutionProfits(r) + OpenProfit(r) + SettlementGains(r)
         = ExecutionProfits(b) + OpenProfit(b) + SettlementGains(b) + s.gain
  BY <1>2, <1>7, <1>8, RecordTypes
<1>. QED
  BY <1>2, <1>6, <1>8, <1>9, StaysSound

-----------------------------------------------------------------------------
(* The books stay sound *)

\* Those on file, and the working copy of a settlement pass, which may become them.
SoundInv == Sound(Durable) /\ (pc = "settle" => Sound(work))

LEMMA InitialSound == Sound(InitialBook)
<1> DEFINE b == InitialBook
           none == [t \in Tokens |-> 0]
<1>1. /\ b \in Books /\ b.cash = Starting /\ b.pnl = 0 /\ b.normalized = 0
      /\ b.cost = none /\ b.executions = <<>> /\ b.settled = {} /\ b.active = NoActive
  BY InitialBookType DEF InitialBook
<1>2. CostTotal(none) = 0
  <2>1. \A t \in Tokens : none[t] = 0
    OBVIOUS
  <2> HIDE DEF none
  <2>. QED
    BY <2>1, TokensFinite, SumZero DEF CostTotal
<1> HIDE DEF none, b
<1>3. InBalance(b)
  BY <1>1, <1>2, CostHeldIs, Numbers DEF InBalance
<1>4. IsFiniteSet({}) /\ \A f : SumFunctionOnSet(f, {}) = 0
  BY FS_EmptySet, SumStep
<1>5. ExecutionProfits(b) = 0 /\ SettlementGains(b) = 0 /\ OpenProfit(b) = 0
  BY <1>1, <1>4 DEF ExecutionProfits, SettlementGains, OpenProfit, SumFunction
<1>6. Explained(b)
  BY <1>1, <1>5 DEF Explained
<1>. QED
  BY <1>1, <1>3, <1>4, <1>6 DEF Sound, b

LEMMA InitSound == Init => SoundInv
<1> SUFFICES ASSUME Init PROVE SoundInv
  OBVIOUS
<1>1. Durable = InitialBook \/ Durable \in SavedBooks
  BY DEF Init, Durable
<1>2. Sound(Durable)
  BY <1>1, InitialSound, SavedSumsAssumption DEF Sound
<1>. QED
  BY <1>2 DEF Init, SoundInv

\* No execution is finalized before its first step: with a plan of at least one pair and
\* a limit of at least one step, no step is over.
LEMMA FinalizedTookSteps ==
  ASSUME NEW b \in Books, ActiveKept(b), b.active \in Actives, limit \in Nat, limit # 0,
         StepsOver(b.active) \/ b.active.steps > 0
  PROVE  b.active.steps > 0
<1>1. b.active # NoActive /\ b.active.plan.qty \in Nat \ {0} /\ b.active.steps \in Nat
  BY ActiveParts, ConstantsAssumption
<1>2. b.active.steps = 0 => b.active.filled = 0
  BY <1>1 DEF ActiveKept
<1>. QED
  BY <1>1, <1>2 DEF StepsOver

LEMMA AbortedSound ==
  ASSUME NEW b \in Books, Sound(b), ActiveKept(b), b.active \in Actives,
         Recorded(b, b.active.id) \/ b.active.steps = 0
  PROVE  Sound(AbortedBook(b))
<1>1. OpenProfit(b) = 0
  BY ConstantsAssumption DEF OpenProfit, ActiveKept
<1>. QED
  BY <1>1, WithActiveSound DEF AbortedBook

LEMMA NextSoundFile == SafetyInv /\ SoundInv /\ [Next]_vars => Sound(Durable)'
<1> SUFFICES ASSUME SafetyInv, SoundInv, [Next]_vars PROVE Sound(Durable)'
  OBVIOUS
<1> DEFINE b == Durable
<1>1. FileStep
  BY FileSteps DEF SafetyInv
<1>2. b \in Books /\ Sound(b) /\ ActiveKept(b)
  BY DurableType DEF SafetyInv, Inv, TypeOK, FileInv, FpsKept, SoundInv
<1>3. limit \in StepLimits /\ limit \in Nat
  BY Numbers DEF SafetyInv, Inv, TypeOK
<1>4. pc = "step" => b.active \in Actives /\ limit # 0
  <2>1. pc = "step" => mem = b /\ mem.active # NoActive
    BY RunningBook DEF SafetyInv, Inv, TypeOK
  <2>. QED
    BY <1>2, <2>1 DEF SafetyInv, IdsInv, ZeroFriction, Books
<1>5. pc \in {"idle", "step", "settle"} => Kept(b)
  BY DEF SafetyInv, IdsInv
<1>6. pc = "step" => ~Recorded(b, b.active.id)
  BY <1>4, <1>5, ConstantsAssumption DEF Kept
<1>7. SUFFICES Sound(Durable')
  BY DEF Sound, InBalance, Explained, CostHeld, ExecutionProfits, OpenProfit,
         SettlementGains, Recorded
<1>8. CASE Durable' = b
  BY <1>2, <1>8
<1>9. CASE Durable' = InitialBook
  BY <1>9, InitialSound
<1>10. CASE b.active # NoActive /\ Completed(b.active) /\ Durable' = RecoveredBook(b)
  <2>1. b.active \in Actives
    BY <1>2, <1>10 DEF Books
  <2>2. CASE Recorded(b, b.active.id)
    BY <1>2, <1>10, <2>1, <2>2, AbortedSound DEF RecoveredBook
  <2>3. CASE ~Recorded(b, b.active.id)
    <3>1. b.active.steps > 0
      BY <1>10 DEF Completed
    <3>. QED
      BY <1>2, <1>10, <2>1, <2>3, <3>1, ClosedSound DEF RecoveredBook
  <2>. QED
    BY <2>2, <2>3
<1>11. ASSUME NEW p \in Plans, ~ZeroFriction, b.active = NoActive,
              Durable' = WithActive(b, NewActive(b, p))
       PROVE  Sound(Durable')
  <2> DEFINE a == NewActive(b, p)
  <2>1. a \in Actives /\ a.profit = 0
    BY <1>2, <1>3, <1>11, NewActiveType DEF NewActive
  <2>2. OpenProfit(b) = 0
    BY <1>11 DEF OpenProfit
  <2> HIDE DEF a
  <2>3. Sound(WithActive(b, a))
    BY <1>2, <2>1, <2>2, WithActiveSound
  <2>. QED
    BY <1>11, <2>3 DEF a
<1>12. CASE pc = "step" /\ ~StepsOver(b.active) /\ StepValid(b.active)
            /\ Durable' = FilledBook(b)
  BY <1>2, <1>3, <1>4, <1>6, <1>12, FilledSound
<1>13. CASE pc = "step" /\ (StepsOver(b.active) \/ b.active.steps > 0)
            /\ Durable' = ClosedBook(b)
  <2>1. b.active.steps > 0
    BY <1>2, <1>3, <1>4, <1>13, FinalizedTookSteps
  <2>. QED
    BY <1>2, <1>4, <1>6, <1>13, <2>1, ClosedSound
<1>14. CASE pc = "step" /\ b.active.steps = 0 /\ Durable' = AbortedBook(b)
  BY <1>2, <1>4, <1>14, AbortedSound
<1>15. ASSUME NEW p \in Plans, b.active = NoActive, Durable' = ExecutedBook(b, p)
       PROVE  Sound(Durable')
  <2> DEFINE r == ExecutedBook(b, p)
             m == p.market
             f == ExecutedFill(p)
  <2>1. m \in Markets /\ f \in Fills
    BY FillType, Numbers DEF PlanRecords, ExecutedFill
  <2>2. PICK e \in Executions : e.profit = NetProfit(b, m, f) /\ AppliedParts(r, b, m, f, e)
    BY <1>2, <1>3, ExecutedBookParts
  <2>3. r \in Books
    BY <2>2 DEF AppliedParts
  <2> HIDE DEF r, m, f
  <2>4. Sound(r)
    BY <1>2, <1>15, <2>1, <2>2, <2>3, AppliedSound
  <2>. QED
    BY <1>15, <2>4 DEF r
<1>16. ASSUME NEW m \in Markets, NEW price \in LegPrices, pc = "idle",
              Durable' = LegBook(b, m, price)
       PROVE  Sound(Durable')
  <2> DEFINE r == LegBook(b, m, price)
             f == LegFill(b, m, price)
  <2>1. f \in Fills
    BY <1>2, Numbers, LegFillType
  <2>2. PICK e \in Executions : e.profit = NetProfit(b, m, f) /\ AppliedParts(r, b, m, f, e)
    BY <1>2, LegBookParts
  <2>3. r \in Books /\ r.active = b.active
    BY <2>2 DEF AppliedParts
  <2>4. Kept(b) /\ Kept(r)
    BY <1>2, <1>5, <1>16, <2>3, LegBookKept
  <2> HIDE DEF r, f
  <2>5. Sound(r)
    BY <1>2, <2>1, <2>2, <2>3, <2>4, AppliedSound DEF Kept
  <2>. QED
    BY <1>16, <2>5 DEF r
<1>17. CASE pc = "settle" /\ todo = {} /\ Durable' = work
  BY <1>17 DEF SoundInv
<1>. QED
  BY <1>1, <1>8, <1>9, <1>10, <1>11, <1>12, <1>13, <1>14, <1>15, <1>16, <1>17 DEF FileStep

LEMMA NextSoundPass ==
  SafetyInv /\ SoundInv /\ [Next]_vars => (pc' = "settle" => Sound(work)')
<1> SUFFICES ASSUME SafetyInv, SoundInv, [Next]_vars, pc' = "settle" PROVE Sound(work)'
  OBVIOUS
<1>a. SUFFICES Sound(work')
  BY DEF Sound, InBalance, Explained, CostHeld, ExecutionProfits, OpenProfit,
         SettlementGains, Recorded
<1>b. ASSUME work' = work, pc = "settle" PROVE Sound(work')
  BY <1>b DEF SoundInv
<1>1. CASE UNCHANGED vars
  BY <1>1, <1>b DEF vars
<1>2. ASSUME NEW m \in Markets, NEW x \in Resolutions, Resolve(m, x) PROVE Sound(work')
  BY <1>2, <1>b DEF Resolve
<1>3. CASE BeginReconcile
  <2>1. work' = mem /\ mem = Durable
    BY <1>3, RunningBook DEF BeginReconcile, SafetyInv
  <2>. QED
    BY <2>1 DEF SoundInv
<1>4. ASSUME NEW t \in Tokens, SettleToken(t) PROVE Sound(work')
  <2>1. /\ pc = "settle" /\ t \in todo
        /\ work' = IF Pending(t) THEN work ELSE SettledBook(work, t)
    BY <1>4 DEF SettleToken
  <2>2. /\ PassKept(work) /\ work \in Books /\ view \in Views /\ todo \subseteq Tokens
        /\ Sound(work)
    BY <2>1 DEF SafetyInv, PassInv, Inv, TypeOK, Successor, SoundInv
  <2>3. CASE Pending(t)
    BY <2>1, <2>2, <2>3
  <2>4. CASE ~Pending(t)
    <3> DEFINE r == SettledBook(work, t)
    <3>1. \A s \in work.settled : s.token # t
      BY <2>1, <2>2, <2>4, SettledKeepsPass
    <3>2. PICK s \in Settlements : SettledParts(r, work, t, s)
      BY <2>2, <3>1, SettledBookParts
    <3>3. work' = r
      BY <2>1, <2>4
    <3>4. r \in Books
      BY <3>2 DEF SettledParts
    <3> HIDE DEF r
    <3>5. Sound(r)
      BY <2>2, <3>1, <3>2, <3>4, SettledSound
    <3>. QED
      BY <3>3, <3>5
  <2>. QED
    BY <2>3, <2>4
<1>5. CASE Boot \/ Recover \/ ResumeExecution \/ FillStep \/ FinalizeExecution
           \/ AbortExecution \/ EndReconcile \/ Shutdown \/ Crash \/ Reset
  BY <1>5 DEF Boot, Recover, ResumeExecution, FillStep, FinalizeExecution, AbortExecution,
              EndReconcile, Shutdown, Crash, Reset, ProcessGone, Save, Commit, SaveFails
<1>6. ASSUME NEW p \in Plans, StartExecution(p) \/ ExecuteOnce(p) PROVE FALSE
  BY <1>6 DEF StartExecution, ExecuteOnce, Save, Commit, SaveFails
<1>7. ASSUME NEW m \in Markets, NEW price \in LegPrices, CompleteLeg(m, price) PROVE FALSE
  BY <1>7 DEF CompleteLeg, Save, Commit, SaveFails
<1>. QED
  <2>1. CASE Next
    BY <2>1, <1>2, <1>3, <1>4, <1>5, <1>6, <1>7 DEF Next
  <2>. QED
    BY <1>1, <2>1

LEMMA SoundAlways == Spec => [](SafetyInv /\ SoundInv)
<1>1. Init => SoundInv
  BY InitSound
<1>2. SafetyInv /\ SoundInv /\ [Next]_vars => SoundInv'
  BY NextSoundFile, NextSoundPass DEF SoundInv
<1>. QED
  BY <1>1, <1>2, SafetyAlways, PTL DEF Spec

\* Whatever sequence of fills, redemptions, normalisations, settlements, crashes and
\* failed saves led to the file: cash plus the cost basis of what is held is the starting
\* capital plus realized_pnl (_apply_execution_to_state, reconcile_public_markets).
THEOREM BooksBalance == Spec => []Conserved
<1>1. SoundInv => Conserved
  BY DEF SoundInv, Sound, Conserved
<1>. QED
  BY <1>1, SoundAlways, PTL

\* realized_pnl is the sum of what the executions, the filled steps of the active one,
\* the settlements and the normalisations report: none of it is reported twice, or lost
\* (_aggregate_step_executions, _recover_completed_active_execution).
THEOREM ResultIsExplained == Spec => []PnlExplained
<1>1. SoundInv => PnlExplained
  BY DEF SoundInv, Sound, PnlExplained
<1>. QED
  BY <1>1, SoundAlways, PTL

-----------------------------------------------------------------------------
(* The portfolio file is a ledger *)

\* What the ledger shows of a book.
OpenOf(b) == IF b.active = NoActive THEN NoActive ELSE b.active.id
FilledOf(b) == b.active # NoActive /\ b.active.steps > 0
HistoryOf(b) == [i \in DOMAIN b.executions |-> b.executions[i].id]

LEMMA HistoryType ==
  ASSUME NEW b \in Books
  PROVE  /\ HistoryOf(b) \in Seq(Ids) /\ DOMAIN HistoryOf(b) = DOMAIN b.executions
         /\ \A i \in DOMAIN b.executions : HistoryOf(b)[i] = b.executions[i].id
<1> DEFINE E == b.executions
           H == [i \in DOMAIN E |-> E[i].id]
<1>1. E \in Seq(Executions)
  BY DEF Books
<1>2. HistoryOf(b) = H
  BY DEF HistoryOf
<1> HIDE DEF E
<1>a. \A i \in DOMAIN E : E[i] \in Executions
  BY <1>1
<1>3. \A i \in DOMAIN E : E[i].id \in Ids
  BY <1>a DEF Executions
<1>4. H \in Seq(Ids)
  BY <1>1, <1>3
<1>. QED
  BY <1>2, <1>4 DEF E

LEMMA HistoryAppended ==
  ASSUME NEW b \in Books, NEW r \in Books, NEW e \in Executions,
         r.executions = Append(b.executions, e)
  PROVE  /\ HistoryOf(r) = Append(HistoryOf(b), e.id)
         /\ HistoryOf(r) # <<>> /\ HistoryOf(r)[Len(HistoryOf(r))] = e.id
<1> DEFINE E == b.executions
           F == r.executions
           n == Len(E)
           G == HistoryOf(b)
           H == HistoryOf(r)
<1>1. E \in Seq(Executions) /\ F = Append(E, e)
  BY DEF Books
<1>2. /\ G \in Seq(Ids) /\ DOMAIN G = DOMAIN E /\ \A i \in DOMAIN E : G[i] = E[i].id
      /\ H \in Seq(Ids) /\ DOMAIN H = DOMAIN F /\ \A i \in DOMAIN F : H[i] = F[i].id
  BY HistoryType
<1> HIDE DEF E, F, G, H
<1>3. /\ n \in Nat /\ DOMAIN E = 1 .. n /\ DOMAIN F = 1 .. n + 1
      /\ F[n + 1] = e /\ \A i \in 1 .. n : F[i] = E[i]
  BY <1>1
<1>4. Len(G) = n /\ Len(H) = n + 1
  BY <1>2, <1>3
<1>5. H[n + 1] = e.id /\ \A i \in 1 .. n : H[i] = G[i]
  <2>1. n + 1 \in DOMAIN F /\ \A i \in 1 .. n : i \in DOMAIN F /\ i \in DOMAIN E
    BY <1>3
  <2>2. H[n + 1] = F[n + 1].id
    BY <1>2, <2>1
  <2>3. ASSUME NEW i \in 1 .. n PROVE H[i] = F[i].id /\ G[i] = E[i].id
    BY <1>2, <2>1
  <2>. QED
    BY <1>3, <2>2, <2>3
<1>6. e.id \in Ids
  BY DEF Executions
<1>7. H = Append(G, e.id)
  <2>1. Append(G, e.id) \in Seq(Ids) /\ Len(Append(G, e.id)) = n + 1
    BY <1>2, <1>4, <1>6
  <2>2. \A i \in 1 .. n + 1 : H[i] = Append(G, e.id)[i]
    BY <1>2, <1>3, <1>4, <1>5, <1>6
  <2>. QED
    BY <1>2, <1>4, <2>1, <2>2
<1>8. H # <<>>
  BY <1>3, <1>4
<1>. QED
  BY <1>3, <1>4, <1>5, <1>7, <1>8 DEF G, H

LEMMA InHistoryIs ==
  ASSUME NEW b \in Books, NEW id
  PROVE  Recorded(b, id) <=> \E i \in DOMAIN HistoryOf(b) : HistoryOf(b)[i] = id
  BY HistoryType DEF Recorded

\* The next number is that of no recorded execution, nor of the active one.
LEMMA NewIdIsNew ==
  ASSUME NEW b \in Books, Kept(b), NEW m \in Markets, NEW fp \in AnyFp,
         NEW kind \in {"pair", "inventory"}, kind = "inventory" \/ b.active = NoActive
  PROVE  /\ NewId(b, m, fp, kind) \in Ids
         /\ ~Recorded(b, NewId(b, m, fp, kind))
         /\ NewId(b, m, fp, kind) # OpenOf(b) /\ NewId(b, m, fp, kind) # NoActive
<1> DEFINE id == NewId(b, m, fp, kind)
           E == b.executions
<1>1. id \in Ids /\ id.n = Len(E) + 1 /\ id.kind = kind
  BY NewIdType DEF NewId
<1>2. Numbered(E) /\ E \in Seq(Executions)
  BY KeptIsAhead DEF Books
<1>3. ASSUME NEW i \in DOMAIN E, E[i].id = id PROVE FALSE
  <2>1. E[i].id.n <= i
    BY <1>2 DEF Numbered
  <2> HIDE DEF E, id
  <2>2. Len(E) \in Nat /\ i \in 1 .. Len(E)
    BY <1>2
  <2>. QED
    BY <1>1, <1>3, <2>1, <2>2
<1>4. ~Recorded(b, id)
  BY <1>3 DEF Recorded
<1>5. id # NoActive
  BY <1>1, ConstantsAssumption
<1>6. ASSUME b.active # NoActive PROVE id # b.active.id
  <2>1. b.active.id.kind = "pair" /\ kind = "inventory"
    BY <1>6, KeptIsAhead DEF Ahead
  <2>. QED
    BY <1>1, <2>1
<1> HIDE DEF id
<1>7. id # OpenOf(b)
  BY <1>5, <1>6 DEF OpenOf
<1>. QED
  BY <1>1, <1>4, <1>5, <1>7 DEF id

\* A save that moves money is a move of the ledger: cash does not fall, and the books
\* balance afterwards.
LEMMA SavedMove ==
  ASSUME Durable'.cash >= Durable.cash, Sound(Durable')
  PROVE  Ledger!Move
  BY DEF Ledger!Move, Ledger!Balanced, Sound, InBalance, CostHeld

LEMMA SavedHold ==
  ASSUME Durable'.cash = Durable.cash, Durable'.cost = Durable.cost,
         Durable'.pnl = Durable.pnl
  PROVE  Ledger!Hold
  BY DEF Ledger!Hold, CostHeld

\* What is saved of a dropped execution is its absence.
LEMMA AbortedBookParts ==
  ASSUME NEW b \in Books
  PROVE  LET r == AbortedBook(b)
         IN  /\ r \in Books /\ r.active = NoActive /\ r.executions = b.executions
             /\ r.cash = b.cash /\ r.cost = b.cost /\ r.pnl = b.pnl
<1>1. AbortedBook(b).cost = b.cost /\ AbortedBook(b).pnl = b.pnl
  BY Zenon DEF AbortedBook, WithActive, Books
<1>. QED
  BY <1>1, WithActiveBook DEF AbortedBook

LEMMA SavedDrop ==
  ASSUME Durable \in Books, Durable.active # NoActive, Durable' = AbortedBook(Durable),
         Recorded(Durable, Durable.active.id) \/ Durable.active.steps = 0
  PROVE  Ledger!Drop
<1> DEFINE b == Durable
           r == AbortedBook(b)
<1>1. /\ r.active = NoActive /\ r.executions = b.executions
      /\ r.cash = b.cash /\ r.cost = b.cost /\ r.pnl = b.pnl
  BY AbortedBookParts
<1>2. b.active.id # NoActive
  BY ActiveParts, ConstantsAssumption DEF Books
<1>3. Recorded(b, b.active.id) <=> Ledger!InHistory(b.active.id)
  BY InHistoryIs DEF HistoryOf, Ledger!InHistory
<1>4. Ledger!Hold
  BY <1>1, SavedHold
<1>. QED
  BY <1>1, <1>2, <1>3, <1>4 DEF Ledger!Drop

LEMMA SavedClose ==
  ASSUME Durable \in Books, Durable.active \in Actives, Durable' = ClosedBook(Durable),
         ~Recorded(Durable, Durable.active.id), Durable.active.steps > 0
  PROVE  Ledger!Close
<1> DEFINE b == Durable
           r == ClosedBook(b)
           e == Aggregate(b.active)
<1>1. /\ r \in Books /\ e \in Executions /\ e.id = b.active.id
      /\ r.executions = Append(b.executions, e) /\ r.active = NoActive
      /\ r.cash = b.cash /\ r.cost = b.cost /\ r.pnl = b.pnl
  BY ClosedBookParts
<1>2. b.active # NoActive /\ b.active.id # NoActive
  BY ActiveParts, ConstantsAssumption
<1> HIDE DEF e
<1>3. HistoryOf(r) = Append(HistoryOf(b), b.active.id)
  BY <1>1, HistoryAppended
<1>4. ~Ledger!InHistory(b.active.id)
  BY InHistoryIs DEF HistoryOf, Ledger!InHistory
<1>5. Ledger!Hold
  BY <1>1, SavedHold
<1>. QED
  BY <1>1, <1>2, <1>3, <1>4, <1>5 DEF Ledger!Close, HistoryOf

\* An execution that is applied and recorded in one save.
LEMMA SavedTrade ==
  ASSUME Durable \in Books, Durable' \in Books, NEW e \in Executions,
         Durable'.executions = Append(Durable.executions, e),
         Durable'.active = Durable.active,
         ~Recorded(Durable, e.id), e.id # OpenOf(Durable),
         Durable'.cash >= Durable.cash, Sound(Durable')
  PROVE  Ledger!Trade
<1> DEFINE b == Durable
           r == Durable'
<1>1. /\ HistoryOf(r) = Append(HistoryOf(b), e.id)
      /\ HistoryOf(r) # <<>> /\ HistoryOf(r)[Len(HistoryOf(r))] = e.id
  BY HistoryAppended
<1>2. ~Ledger!InHistory(e.id)
  BY InHistoryIs DEF HistoryOf, Ledger!InHistory
<1>3. Ledger!Move
  BY SavedMove
<1>. QED
  BY <1>1, <1>2, <1>3 DEF Ledger!Trade, HistoryOf, OpenOf

LEMMA NextIsTransaction ==
  SafetyInv /\ SoundInv /\ [Next]_vars => [Ledger!LedgerNext]_Ledger!ledger
<1> SUFFICES ASSUME SafetyInv, SoundInv, [Next]_vars
             PROVE  [Ledger!LedgerNext]_Ledger!ledger
  OBVIOUS
<1> DEFINE b == Durable
<1>1. FileStep
  BY FileSteps DEF SafetyInv
<1>2. b \in Books /\ ActiveKept(b)
  BY DurableType DEF SafetyInv, Inv, TypeOK, FileInv, FpsKept
<1>3. limit \in StepLimits /\ limit \in Nat
  BY Numbers DEF SafetyInv, Inv, TypeOK
<1>4. pc = "step" => b.active \in Actives /\ limit # 0
  <2>1. pc = "step" => mem = b /\ mem.active # NoActive
    BY RunningBook DEF SafetyInv, Inv, TypeOK
  <2>. QED
    BY <1>2, <2>1 DEF SafetyInv, IdsInv, ZeroFriction, Books
<1>5. pc \in {"idle", "step", "settle"} => Kept(b)
  BY DEF SafetyInv, IdsInv
<1>6. NoActive \notin Actives
  BY ConstantsAssumption
<1>7. Sound(Durable')
  <2>1. Sound(Durable)'
    BY NextSoundFile
  <2>. QED
    BY <2>1 DEF Sound, InBalance, Explained, CostHeld, ExecutionProfits, OpenProfit,
                SettlementGains, Recorded
<1>8. CASE Durable' = b
  BY <1>8 DEF Ledger!ledger, CostHeld
<1>9. CASE Durable' = InitialBook
  <2>1. InitialBook \in Books /\ InitialBook.cash = Starting /\ InitialBook.pnl = 0
    BY InitialBookType DEF InitialBook
  <2>2. CostHeld(InitialBook) = 0
    BY <1>7, <1>9, <2>1, BookNumbers, Numbers DEF Sound, InBalance
  <2>3. Ledger!Wipe
    BY <1>9, <2>2 DEF Ledger!Wipe, InitialBook
  <2>. QED
    BY <2>3 DEF Ledger!LedgerNext
<1>10. CASE b.active # NoActive /\ Completed(b.active) /\ Durable' = RecoveredBook(b)
  <2>1. b.active \in Actives /\ b.active.steps > 0
    BY <1>2, <1>10 DEF Books, Completed
  <2>2. CASE Recorded(b, b.active.id)
    BY <1>2, <1>10, <2>2, SavedDrop DEF RecoveredBook, Ledger!LedgerNext
  <2>3. CASE ~Recorded(b, b.active.id)
    BY <1>2, <1>10, <2>1, <2>3, SavedClose DEF RecoveredBook, Ledger!LedgerNext
  <2>. QED
    BY <2>2, <2>3
<1>11. ASSUME NEW p \in Plans, pc = "idle", ~ZeroFriction, b.active = NoActive,
              Durable' = WithActive(b, NewActive(b, p))
       PROVE  Ledger!LedgerNext
  <2> DEFINE a == NewActive(b, p)
             r == WithActive(b, a)
  <2>1. p.market \in Markets /\ FingerprintOf(p, limit) \in AnyFp
    BY Numbers, <1>3, FingerprintType DEF PlanRecords
  <2>2. a \in Actives /\ a.id = NewId(b, p.market, FingerprintOf(p, limit), "pair") /\ a.steps = 0
    BY <1>2, <1>3, <1>11, NewActiveType DEF NewActive
  <2>3. ~Recorded(b, a.id) /\ a.id # NoActive
    BY <1>2, <1>5, <1>11, <2>1, <2>2, NewIdIsNew
  <2> HIDE DEF a
  <2>4. /\ r \in Books /\ r.active = a /\ r.executions = b.executions /\ r.cash = b.cash
    BY <1>2, <2>2, WithActiveBook
  <2>5. r.cost = b.cost /\ r.pnl = b.pnl
    BY <1>2, Zenon DEF WithActive, Books
  <2>6. Durable' = r
    BY <1>11 DEF a
  <2> HIDE DEF r
  <2>7. Ledger!Hold
    BY <2>4, <2>5, <2>6, SavedHold
  <2>8. ~Ledger!InHistory(a.id)
    BY <1>2, <2>3, InHistoryIs DEF HistoryOf, Ledger!InHistory
  <2>9. Ledger!Open
    BY <1>6, <1>11, <2>2, <2>3, <2>4, <2>6, <2>7, <2>8 DEF Ledger!Open, Ledger!InHistory
  <2>. QED
    BY <2>9 DEF Ledger!LedgerNext
<1>12. CASE pc = "step" /\ ~StepsOver(b.active) /\ StepValid(b.active)
            /\ Durable' = FilledBook(b)
  <2> DEFINE r == FilledBook(b)
  <2>1. r.cash >= b.cash
    BY <1>2, <1>3, <1>4, <1>12, FilledBookSucceeds DEF Successor
  <2>2. /\ r.executions = b.executions /\ r.active \in Actives
        /\ r.active.id = b.active.id /\ r.active.steps = b.active.steps + 1
    BY <1>2, <1>3, <1>4, <1>12, FilledBookParts
  <2>3. r.active.steps > 0 /\ b.active # NoActive /\ b.active.id # NoActive
    BY <1>4, <1>12, <2>2, ActiveParts, ConstantsAssumption
  <2>4. Durable' = r
    BY <1>12
  <2> HIDE DEF r
  <2>5. Ledger!Move
    BY <1>7, <2>1, <2>4, SavedMove
  <2>6. Ledger!Fill
    BY <1>6, <2>2, <2>3, <2>4, <2>5 DEF Ledger!Fill
  <2>. QED
    BY <2>6 DEF Ledger!LedgerNext
<1>13. CASE pc = "step" /\ (StepsOver(b.active) \/ b.active.steps > 0)
            /\ Durable' = ClosedBook(b)
  <2>1. b.active.steps > 0
    BY <1>2, <1>3, <1>4, <1>13, FinalizedTookSteps
  <2>2. ~Recorded(b, b.active.id)
    BY <1>4, <1>5, <1>6, <1>13 DEF Kept
  <2>. QED
    BY <1>2, <1>4, <1>13, <2>1, <2>2, SavedClose DEF Ledger!LedgerNext
<1>14. CASE pc = "step" /\ b.active.steps = 0 /\ Durable' = AbortedBook(b)
  BY <1>2, <1>4, <1>6, <1>14, SavedDrop DEF Ledger!LedgerNext
<1>15. ASSUME NEW p \in Plans, pc = "idle", b.active = NoActive, PlanAccepted(b, p),
              Durable' = ExecutedBook(b, p)
       PROVE  Ledger!LedgerNext
  <2>1. p.market \in Markets /\ FingerprintOf(p, limit) \in AnyFp
    BY Numbers, <1>3, FingerprintType DEF PlanRecords
  <2>2. PICK e \in Executions :
           /\ e.id = NewId(b, p.market, FingerprintOf(p, limit), "pair")
           /\ AppliedParts(ExecutedBook(b, p), b, p.market, ExecutedFill(p), e)
    BY <1>2, <1>3, ExecutedBookParts
  <2>3. /\ Durable' \in Books /\ Durable'.executions = Append(b.executions, e)
        /\ Durable'.active = b.active
    BY <1>15, <2>2 DEF AppliedParts
  <2>4. ~Recorded(b, e.id) /\ e.id # OpenOf(b)
    BY <1>2, <1>5, <1>15, <2>1, <2>2, NewIdIsNew
  <2>5. Durable'.cash >= b.cash
    BY <1>2, <1>3, <1>15, ExecutedBookSucceeds DEF Successor
  <2>. QED
    BY <1>2, <1>7, <2>3, <2>4, <2>5, SavedTrade DEF Ledger!LedgerNext
<1>16. ASSUME NEW m \in Markets, NEW price \in LegPrices, pc = "idle",
              LegAccepted(b, m, price), Durable' = LegBook(b, m, price)
       PROVE  Ledger!LedgerNext
  <2>1. PICK e \in Executions :
           /\ e.id = NewId(b, m, LegFp, "inventory")
           /\ AppliedParts(LegBook(b, m, price), b, m, LegFill(b, m, price), e)
    BY <1>2, LegBookParts
  <2>2. /\ Durable' \in Books /\ Durable'.executions = Append(b.executions, e)
        /\ Durable'.active = b.active
    BY <1>16, <2>1 DEF AppliedParts
  <2>3. ~Recorded(b, e.id) /\ e.id # OpenOf(b)
    BY <1>2, <1>5, <1>16, <2>1, NewIdIsNew DEF AnyFp
  <2>4. Durable'.cash >= b.cash
    BY <1>2, <1>16, LegBookSucceeds DEF Successor
  <2>. QED
    BY <1>2, <1>7, <2>2, <2>3, <2>4, SavedTrade DEF Ledger!LedgerNext
<1>17. CASE pc = "settle" /\ todo = {} /\ Durable' = work
  <2>1. /\ mem = b /\ work.cash >= b.cash
        /\ work.active = b.active /\ work.executions = b.executions
    BY <1>17, RunningBook DEF SafetyInv, Inv, Successor, IdsInv
  <2>2. Ledger!Move
    BY <1>7, <1>17, <2>1, SavedMove
  <2>3. Ledger!Settle
    BY <1>17, <2>1, <2>2 DEF Ledger!Settle
  <2>. QED
    BY <2>3 DEF Ledger!LedgerNext
<1>. QED
  BY <1>1, <1>8, <1>9, <1>10, <1>11, <1>12, <1>13, <1>14, <1>15, <1>16, <1>17 DEF FileStep

\* The portfolio file implements the ledger: whatever the runner does between two saves,
\* every save is one whole transaction, and crashes, failed saves, restarts and passes
\* that change nothing are none.
THEOREM FileIsLedger == Spec => ImplementsLedger
<1>1. Init => Ledger!LedgerInit
  BY InitSound DEF SoundInv, Sound, InBalance, Ledger!LedgerInit, Ledger!Balanced
<1>2. SafetyInv /\ SoundInv /\ [Next]_vars => [Ledger!LedgerNext]_Ledger!ledger
  BY NextIsTransaction
<1>. QED
  BY <1>1, <1>2, SoundAlways, PTL DEF Spec, ImplementsLedger, Ledger!LedgerSpec

=============================================================================
