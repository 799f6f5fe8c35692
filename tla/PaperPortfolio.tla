--------------------------- MODULE PaperPortfolio ---------------------------
(***************************************************************************)
(* The paper portfolio of polymarket_conditional_arb/paper.py: one runner   *)
(* process that keeps the portfolio in memory, persists every change of it  *)
(* as one atomically replaced JSON file, and can crash or fail to save at   *)
(* any point.  A complete-set execution runs as a persisted sequence of     *)
(* steps; inventory left over from earlier versions is completed, redeemed  *)
(* or settled.                                                              *)
(*                                                                          *)
(* Money is in integer units.  Shares are integers, a plan's costs are      *)
(* per-share averages that include fees, slippage and tax, because          *)
(* _build_step_execution scales the plan's totals by filled / planned.      *)
(***************************************************************************)
EXTENDS Integers, Sequences, FiniteSets

CONSTANTS
    Markets,        \* standard binary markets the runner may meet
    NegRisk,        \* negative-risk markets: not traded, settlement left pending
    Plans,          \* execution plans evaluate_binary_paper_execution may return
    LegPrices,      \* per-share costs at which a missing leg may be offered
    Snapshots,      \* pairs of books, with their revisions, a plan may be made on
    SavedBooks,     \* contents the state file may have when the model starts
    Payout,         \* what one redeemed YES+NO pair, or winning share, pays
    Starting,       \* starting_capital_usd
    Reserve,        \* min_cash_reserve_usd
    Ceiling,        \* trade_ceiling_usd
    Merge,          \* merge_cost_usd
    MinSize,        \* effective_min_order_size
    MinProfit,      \* min_net_profit_usd
    StepQty,        \* simulation.step_quantity_shares
    StepLimits,     \* values of simulation.max_step_count across restarts; 0 stands for
                    \* a start with zero friction, where no execution is stepped
    Grow,           \* simulation.grow_step_size_after_success
    MergePerStep,   \* simulation.merge_cost_per_step
    BlockReentry,   \* simulation.block_unmatched_market_reentry
    ManageUnmatched,\* unmatched_inventory_management = "complete_missing_leg_..."
    RequireWinner,  \* simulation.settlement_require_winner
    MaxExecutions,  \* bound: executions recorded before no new one is started
    LegFp,          \* stands for the fingerprints of inventory-management buys
    NoFile, NoBook, NoActive, NoFp   \* model values

VARIABLES
    disk,       \* paper_portfolio_instance.json, or NoFile
    mem,        \* PaperPortfolio.state, NoBook while no process runs
    pc,         \* where the runner is: see PCs
    limit,      \* params.simulation.max_step_count of the running process
    work,       \* working_state of a settlement pass
    todo,       \* inventory rows the pass has still to visit
    view,       \* what the pass was told about each market
    resolution, \* the public resolution of each market
    logged      \* execution ids in the event log since the last reset

vars == <<disk, mem, pc, limit, work, todo, view, resolution, logged>>

-----------------------------------------------------------------------------
(* Data *)

Outcomes == {"YES", "NO"}
Tokens == Markets \X Outcomes
Yes(m) == <<m, "YES">>
No(m) == <<m, "NO">>
Other(t) == IF t[2] = "YES" THEN No(t[1]) ELSE Yes(t[1])

\* What book_pair_fingerprint hashes: the books, the tranches, which are as many of
\* their levels as qty takes, and the step plan, of which max_step_count may differ
\* between two runs (0: no step plan).
Fingerprints == [books : Snapshots, qty : Nat \ {0}, steps : Nat]
AnyFp == Fingerprints \cup {LegFp}

Ids == [market : Markets, n : Nat \ {0}, fp : AnyFp, kind : {"pair", "inventory"}]
Executions == [id : Ids, qty : Nat, spent : Int, profit : Int]

\* yes, no: cost of one share with its part of the variable costs; sized: the
\* cost of one pair that _simulate_paired_tranches sized the plan with; floor:
\* the effective profit threshold for the plan's evidence.
PlanRecords == [market : Markets, books : Snapshots, qty : Nat \ {0},
                yes : Nat, no : Nat, sized : Nat \ {0}, floor : Nat]

Actives == [id : Ids, plan : PlanRecords, steps : Nat, filled : Nat, current : Nat,
            spent : Int, profit : Int, maxSteps : Nat \ {0}]

Forms == {"token", "outcome", "unknown"}   \* how a settlement names the winner
Settlements == [token : Tokens, form : Forms, gain : Int]
Resolutions == {"open", "unknown", "YES", "NO"}
Views == [Markets -> [verdict : Resolutions \cup {"missing"}, form : {"token", "outcome"}]]

Books == [cash : Int, pnl : Int, normalized : Int,
          qty : [Tokens -> Nat], cost : [Tokens -> Nat],
          executions : Seq(Executions), settled : SUBSET Settlements,
          fp : [Markets -> AnyFp \cup {NoFp}], active : Actives \cup {NoActive}]

NoNews == [m \in Markets |-> [verdict |-> "open", form |-> "token"]]

PCs == {"down", "boot", "idle", "step", "settle"}

ASSUME ConstantsAssumption ==
    /\ NegRisk \subseteq Markets
    /\ Plans \subseteq PlanRecords
    /\ LegPrices \subseteq Nat
    /\ {Payout, MinSize, StepQty} \subseteq Nat \ {0}
    /\ {Starting, Reserve, Ceiling, Merge, MinProfit, MaxExecutions} \subseteq Nat
    /\ StepLimits \subseteq Nat /\ StepLimits # {}
    /\ {Grow, MergePerStep, BlockReentry, ManageUnmatched, RequireWinner} \subseteq BOOLEAN
    /\ LegFp \notin Fingerprints
    /\ NoFp \notin AnyFp
    /\ NoActive \notin Actives \cup Ids
    /\ NoFile \notin Books /\ NoBook \notin Books /\ NoFile # NoBook
    /\ SavedBooks \subseteq Books

\* simulation.is_zero_friction of the running process.
ZeroFriction == limit = 0

MinOf(a, b) == IF a <= b THEN a ELSE b
Positive(a) == IF a >= 0 THEN a ELSE 0

-----------------------------------------------------------------------------
(* The portfolio as a value: what each handler does to its working copy *)

InitialBook ==
    [cash |-> Starting, pnl |-> 0, normalized |-> 0,
     qty |-> [t \in Tokens |-> 0], cost |-> [t \in Tokens |-> 0],
     executions |-> <<>>, settled |-> {}, fp |-> [m \in Markets |-> NoFp],
     active |-> NoActive]

\* Mutant: pairs are counted by the larger of the two holdings.
MatchedByLarger(b, m) ==
    IF b.qty[Yes(m)] >= b.qty[No(m)] THEN b.qty[Yes(m)] ELSE b.qty[No(m)]

Matched(b, m) == MinOf(b.qty[Yes(m)], b.qty[No(m)])
Unmatched(b, m) == b.qty[Yes(m)] # b.qty[No(m)]

\* The part of a row's cost basis that q of its shares carry, rounded down.
CostShare(b, t, q) == IF b.qty[t] = 0 THEN 0 ELSE (b.cost[t] * q) \div b.qty[t]

\* Every change of money is one of cash, result and holdings together.
Post(b, cash, gain, qty, cost) ==
    [b EXCEPT !.cash = @ + cash, !.pnl = @ + gain, !.qty = qty, !.cost = cost]

Change(f, m, yes, no) == [f EXCEPT ![Yes(m)] = @ + yes, ![No(m)] = @ + no]

\* _redeem_completed_pairs_with_cost_from_state, and what its callers book for it.
RedeemPairs(b, m) ==
    LET q == Matched(b, m)
        y == CostShare(b, Yes(m), q)
        n == CostShare(b, No(m), q)
    IN  Post(b, q * Payout, q * Payout - (y + n),
             Change(b.qty, m, -q, -q), Change(b.cost, m, -y, -n))

\* Mutant: the normalisation's gain reaches cash but not realized_pnl.
NormalizeUnbooked(b, m) == [RedeemPairs(b, m) EXCEPT !.pnl = b.pnl]

\* Pairs held before an execution are redeemed as inventory_normalizations, so
\* that their gain is not the execution's.
Normalize(b, m) ==
    LET r == RedeemPairs(b, m) IN [r EXCEPT !.normalized = @ + (r.pnl - b.pnl)]

\* A fill buys yes shares for yesCost and no shares for noCost, and pays merge.
Spend(f) == f.yesCost + f.noCost + f.merge

AddInventory(b, m, f) ==
    Post(b, -Spend(f), -f.merge,
         Change(b.qty, m, f.yes, f.no), Change(b.cost, m, f.yesCost, f.noCost))

\* _apply_execution_to_state without its record_execution/update_fingerprint tail.
ApplyExecution(b, m, f) == RedeemPairs(AddInventory(Normalize(b, m), m, f), m)

\* Mutant: the gain of earlier pairs is counted as the execution's.
NetProfitOfAll(b, m, f) == ApplyExecution(b, m, f).pnl - b.pnl

\* execution["net_profit"] as _apply_execution_to_state recomputes it.
NetProfit(b, m, f) == ApplyExecution(b, m, f).pnl - Normalize(b, m).pnl

\* Mutant: the execution is recorded but its fingerprint is not.
RecordOnly(b, e) == [b EXCEPT !.executions = Append(@, e)]

\* The record_execution/update_fingerprint tail.
Record(b, e) ==
    [b EXCEPT !.executions = Append(@, e), !.fp[e.id.market] = e.id.fp]

NewId(b, m, fp, kind) ==
    [market |-> m, n |-> Len(b.executions) + 1, fp |-> fp, kind |-> kind]

Recorded(b, id) == \E i \in DOMAIN b.executions : b.executions[i].id = id

-----------------------------------------------------------------------------
(* Sizing and thresholds *)

\* Mutant: the cash reserve is forgotten.
BudgetNoReserve(b) == MinOf(Positive(b.cash), Ceiling)

Budget(b) == MinOf(Positive(b.cash - Reserve), Ceiling)

\* The fingerprint of a plan in a run with this max_step_count, or 0: the zero-friction
\* path passes no step plan.
FingerprintOf(p, steps) == [books |-> p.books, qty |-> p.qty, steps |-> steps]

Clears(profit, floor) == profit > 0 /\ profit >= floor

\* What every plan returned by evaluate_binary_paper_execution satisfies.  (The signal is
\* held against the fingerprint on file as well, but that of the books it saw itself.)
PlanAccepted(b, p) ==
    /\ b.fp[p.market] # FingerprintOf(p, limit)
    /\ p.qty >= MinSize
    /\ p.sized < Payout
    /\ p.qty * p.sized + Merge <= Budget(b)
    /\ Clears(p.qty * (Payout - p.yes - p.no) - Merge, p.floor)

\* _evaluation_targets leaves negative-risk markets out.
Evaluated(m) == m \notin NegRisk

\* _unmatched_reentry_skip_reason, the market-level reason.
Blocked(b, m) == BlockReentry /\ Unmatched(b, m)

FillOf(p, q, merge) ==
    [yes |-> q, no |-> q, yesCost |-> q * p.yes, noCost |-> q * p.no, merge |-> merge]

-----------------------------------------------------------------------------
(* Stepped execution *)

WithActive(b, a) == [b EXCEPT !.active = a]

NewActive(b, p) ==
    [id |-> NewId(b, p.market, FingerprintOf(p, limit), "pair"), plan |-> p,
     steps |-> 0, filled |-> 0, current |-> StepQty, spent |-> 0, profit |-> 0,
     maxSteps |-> limit]

StepQuantity(a) ==
    LET wanted == IF a.current > StepQty THEN a.current ELSE StepQty
    IN  MinOf(a.plan.qty - a.filled, wanted)

StepMerge(a) == IF MergePerStep \/ a.steps = 0 THEN Merge ELSE 0

StepFill(a) == FillOf(a.plan, StepQuantity(a), StepMerge(a))

StepsOver(a) == a.filled >= a.plan.qty \/ a.steps >= limit

\* Mutant: the per-step profitability check is gone.
StepValidBySizeOnly(a) == StepQuantity(a) >= MinSize

\* _execution_pair_is_valid
StepValid(a) ==
    /\ StepQuantity(a) >= MinSize
    /\ Clears(StepQuantity(a) * Payout - Spend(StepFill(a)), a.plan.floor)

\* The row of the step's history that the rest of the code reads.
StepTaken(a, profit) ==
    LET s == StepQuantity(a)
    IN  [a EXCEPT !.steps = @ + 1, !.filled = @ + s,
                  !.current = IF Grow THEN MinOf(a.plan.qty - a.filled - s, 2 * s) ELSE s,
                  !.spent = @ + Spend(StepFill(a)), !.profit = @ + profit]

FilledBook(b) ==
    LET a == b.active
        m == a.plan.market
    IN  WithActive(ApplyExecution(b, m, StepFill(a)),
                   StepTaken(a, NetProfit(b, m, StepFill(a))))

\* Mutant: the final record is the plan, not the sum of the steps.
AggregateAsPlanned(a) ==
    [id |-> a.id, qty |-> a.plan.qty,
     spent |-> Spend(FillOf(a.plan, a.plan.qty, Merge)),
     profit |-> a.plan.qty * Payout - Spend(FillOf(a.plan, a.plan.qty, Merge))]

\* _aggregate_step_executions: an execution without steps is reported as planned.
Aggregate(a) ==
    IF a.steps = 0
    THEN [id |-> a.id, qty |-> a.plan.qty,
          spent |-> Spend(FillOf(a.plan, a.plan.qty, Merge)),
          profit |-> a.plan.qty * Payout - Spend(FillOf(a.plan, a.plan.qty, Merge))]
    ELSE [id |-> a.id, qty |-> a.filled, spent |-> a.spent, profit |-> a.profit]

\* Mutant: active_execution is left in place when the execution is finalized.
ClosedBookStillActive(b) == Record(b, Aggregate(b.active))

ClosedBook(b) == WithActive(Record(b, Aggregate(b.active)), NoActive)

\* Mutant: a rejected first step leaves active_execution in the portfolio.
AbortedBookKept(b) == b

AbortedBook(b) == WithActive(b, NoActive)

\* _active_execution_completed, read at bootstrap: the persisted step limit counts.
Completed(a) ==
    /\ a.steps > 0
    /\ a.filled >= a.plan.qty \/ a.steps >= a.maxSteps

\* Mutant: recovery records the execution without looking for its id.
RecoveredBookAgain(b) == ClosedBook(b)

\* Recovery records a completed execution unless its id is recorded already.
RecoveredBook(b) ==
    IF Recorded(b, b.active.id) THEN AbortedBook(b) ELSE ClosedBook(b)

-----------------------------------------------------------------------------
(* What is asked of a file left by an earlier version: what the handlers above *)
(* keep true of every book they are given.                                     *)

\* Its executions are numbered the way execution_count + 1 numbers them, and its active
\* execution has a number of its own, or else is recorded and complete.
Numbered(E) ==
    /\ \A i \in DOMAIN E : E[i].id.n <= i /\ (E[i].id.kind = "inventory" => E[i].id.n = i)
    /\ \A i, j \in DOMAIN E :
           i < j /\ E[i].id.kind = "pair" /\ E[j].id.kind = "pair" => E[i].id.n < E[j].id.n

Ahead(id, E) ==
    /\ id.kind = "pair" /\ id.n <= Len(E) + 1
    /\ \A i \in DOMAIN E : E[i].id.kind = "pair" => E[i].id.n < id.n

WellKept(b) ==
    /\ Numbered(b.executions)
    /\ b.active # NoActive =>
           IF Recorded(b, b.active.id) THEN Completed(b.active)
           ELSE Ahead(b.active.id, b.executions)

\* Between two executions of a market with one fingerprint there is another one of it.
TradedOnce(E) ==
    \A i, j \in DOMAIN E :
        /\ i < j
        /\ E[i].id.market = E[j].id.market
        /\ E[i].id.fp = E[j].id.fp /\ E[i].id.fp # LegFp
        => \E k \in i + 1 .. j - 1 : E[k].id.market = E[i].id.market

\* The last execution of a market left its fingerprint.
LastFp(b) ==
    \A i \in DOMAIN b.executions :
        \/ \E k \in DOMAIN b.executions :
               k > i /\ b.executions[k].id.market = b.executions[i].id.market
        \/ b.fp[b.executions[i].id.market] = b.executions[i].id.fp

\* The active execution is that of its plan, with a fingerprint that is not that of the
\* last execution of its market, and has no result before its first step.
ActiveKept(b) ==
    b.active # NoActive =>
        LET a == b.active
        IN  /\ a.id.market = a.plan.market
            /\ a.id.fp = FingerprintOf(a.plan, a.maxSteps)
            /\ Recorded(b, a.id) \/ b.fp[a.id.market] # a.id.fp
            /\ a.steps = 0 => a.filled = 0 /\ a.profit = 0

\* A token is settled once, and nothing is held of a market that was settled.
SettlementsKept(b) ==
    \A s \in b.settled :
        /\ \A r \in b.settled : r.token = s.token => r = s
        /\ \A t \in Tokens : t[1] = s.token[1] => b.qty[t] = 0

ASSUME SavedAssumption ==
    \A b \in SavedBooks :
        WellKept(b) /\ TradedOnce(b.executions) /\ LastFp(b) /\ ActiveKept(b)
        /\ SettlementsKept(b)

-----------------------------------------------------------------------------
(* Saving: _save_state replaces the file atomically or raises, and the caller *)
(* then reloads what the file holds.                                          *)

\* Mutant: the event is appended before the save, which may then never happen.
CommitLogFirst(b, next, ids) ==
    /\ disk' \in {disk, b}
    /\ mem' = disk'
    /\ pc' = IF disk' = b THEN next ELSE "idle"
    /\ logged' = logged \cup ids

\* The event append after a save may fail, or the process die before it.
Commit(b, next, ids) ==
    /\ disk' = b
    /\ mem' = b
    /\ pc' = next
    /\ logged' \in {logged, logged \cup ids}

\* Mutant: memory keeps the working copy that could not be saved.
SaveFailsKeeping(b) ==
    /\ disk' = disk
    /\ mem' = b
    /\ pc' = "idle"
    /\ logged' = logged

SaveFails(b) ==
    /\ disk' = disk
    /\ mem' = IF disk = NoFile THEN mem ELSE disk
    /\ pc' = "idle"
    /\ logged' = logged

Save(b, next, ids) == Commit(b, next, ids) \/ SaveFails(b)

NotSettling == UNCHANGED <<work, todo, view>>
World == UNCHANGED <<limit, resolution>>

-----------------------------------------------------------------------------
(* Start-up and executions *)

Init ==
    /\ disk \in {NoFile} \cup SavedBooks
    /\ mem = NoBook
    /\ pc = "down"
    /\ limit \in StepLimits
    /\ work = NoBook /\ todo = {} /\ view = NoNews
    /\ resolution = [m \in Markets |-> "open"]
    /\ logged = {}

\* The operator may have changed max_step_count between two runs, or the frictions.
\* Left out: a start with zero friction while an execution is active, which the
\* zero-friction path would neither see nor finish.
Boot ==
    /\ pc = "down"
    /\ limit' \in StepLimits
    /\ mem' = IF disk = NoFile THEN InitialBook ELSE disk
    /\ limit' = 0 => mem'.active = NoActive
    /\ pc' = "boot"
    /\ UNCHANGED <<disk, resolution, logged>>
    /\ NotSettling

\* A save that fails here ends the start-up: that outcome is Crash.
Recover ==
    /\ pc = "boot"
    /\ IF mem.active # NoActive /\ Completed(mem.active)
       THEN Commit(RecoveredBook(mem), "idle", {mem.active.id})
       ELSE pc' = "idle" /\ UNCHANGED <<disk, mem, logged>>
    /\ World /\ NotSettling

Room == Len(mem.executions) < MaxExecutions

StartExecution(p) ==
    /\ pc = "idle" /\ ~ZeroFriction /\ Room
    /\ mem.active = NoActive
    /\ Evaluated(p.market) /\ ~Blocked(mem, p.market)
    /\ PlanAccepted(mem, p)
    /\ Save(WithActive(mem, NewActive(mem, p)), "step", {})
    /\ World /\ NotSettling

\* The market of the active execution is evaluated again.
ResumeExecution ==
    /\ pc = "idle" /\ ~ZeroFriction
    /\ mem.active # NoActive
    /\ Evaluated(mem.active.plan.market) /\ ~Blocked(mem, mem.active.plan.market)
    /\ pc' = "step"
    /\ UNCHANGED <<disk, mem, logged>>
    /\ World /\ NotSettling

FillStep ==
    /\ pc = "step"
    /\ ~StepsOver(mem.active)
    /\ StepValid(mem.active)
    /\ Save(FilledBook(mem), "step", {})
    /\ World /\ NotSettling

FinalizeExecution ==
    /\ pc = "step"
    /\ StepsOver(mem.active) \/ (mem.active.steps > 0 /\ ~StepValid(mem.active))
    /\ Save(ClosedBook(mem), "idle", {mem.active.id})
    /\ World /\ NotSettling

AbortExecution ==
    /\ pc = "step"
    /\ ~StepsOver(mem.active)
    /\ mem.active.steps = 0 /\ ~StepValid(mem.active)
    /\ Save(AbortedBook(mem), "idle", {})
    /\ World /\ NotSettling

\* The zero-friction path: the whole plan is one execution.
ExecutedBook(b, p) ==
    LET f == FillOf(p, p.qty, Merge)
    IN  Record(ApplyExecution(b, p.market, f),
               [id |-> NewId(b, p.market, FingerprintOf(p, limit), "pair"), qty |-> p.qty,
                spent |-> Spend(f), profit |-> NetProfit(b, p.market, f)])

ExecuteOnce(p) ==
    /\ pc = "idle" /\ ZeroFriction /\ Room
    /\ Evaluated(p.market) /\ ~Blocked(mem, p.market)
    /\ PlanAccepted(mem, p)
    /\ Save(ExecutedBook(mem, p), "idle",
            {NewId(mem, p.market, FingerprintOf(p, limit), "pair")})
    /\ World /\ NotSettling

-----------------------------------------------------------------------------
(* Inventory management: buy the missing leg of unmatched shares *)

Heavy(b, m) == IF b.qty[Yes(m)] > b.qty[No(m)] THEN Yes(m) ELSE No(m)
Missing(b, m) == b.qty[Heavy(b, m)] - b.qty[Other(Heavy(b, m))]

LegFill(b, m, price) ==
    LET q == Missing(b, m)
        buyYes == Heavy(b, m) = No(m)
    IN  [yes |-> IF buyYes THEN q ELSE 0, no |-> IF buyYes THEN 0 ELSE q,
         yesCost |-> IF buyYes THEN q * price ELSE 0,
         noCost |-> IF buyYes THEN 0 ELSE q * price, merge |-> Merge]

LegProfit(b, m, price) ==
    LET q == Missing(b, m)
    IN  q * Payout - CostShare(b, Heavy(b, m), q) - Spend(LegFill(b, m, price))

LegAccepted(b, m, price) ==
    /\ Unmatched(b, m)
    /\ Missing(b, m) >= MinSize
    /\ Spend(LegFill(b, m, price)) <= Positive(b.cash - Reserve)
    /\ Clears(LegProfit(b, m, price), MinProfit)

LegBook(b, m, price) ==
    LET f == LegFill(b, m, price)
    IN  Record(ApplyExecution(b, m, f),
               [id |-> NewId(b, m, LegFp, "inventory"), qty |-> Missing(b, m),
                spent |-> Spend(f), profit |-> NetProfit(b, m, f)])

\* Reached when the market's re-entry is refused: for its own unmatched shares, or
\* for a risk limit, which is left open here.
CompleteLeg(m, price) ==
    /\ pc = "idle" /\ ManageUnmatched /\ Room
    /\ Evaluated(m) /\ LegAccepted(mem, m, price)
    /\ Save(LegBook(mem, m, price), "idle", {NewId(mem, m, LegFp, "inventory")})
    /\ World /\ NotSettling

-----------------------------------------------------------------------------
(* Settlement: reconcile_public_markets *)

\* Only markets with inventory are looked up; the pass may know less than is public,
\* and may not find a market at all.
News(b, m) ==
    IF b.qty[Yes(m)] + b.qty[No(m)] = 0 THEN {NoNews[m]}
    ELSE [verdict : {"missing", "open", "unknown"} \cap {"missing", "open", resolution[m]},
          form : {"token"}]
         \cup [verdict : {resolution[m]} \cap Outcomes, form : {"token", "outcome"}]

BeginReconcile ==
    /\ pc = "idle"
    /\ view' \in {v \in Views : \A m \in Markets : v[m] \in News(mem, m)}
    /\ work' = mem
    /\ todo' = {t \in Tokens : mem.qty[t] > 0}
    /\ pc' = "settle"
    /\ UNCHANGED <<disk, mem, logged>>
    /\ World

Pending(t) ==
    \/ t[1] \in NegRisk
    \/ view[t[1]].verdict \in {"missing", "open"}
    \/ view[t[1]].verdict = "unknown" /\ RequireWinner

WinnerForm(t) == IF view[t[1]].verdict = "unknown" THEN "unknown" ELSE view[t[1]].form

DropRow(b, t, cash, gain) ==
    Post(b, cash, gain, [b.qty EXCEPT ![t] = 0], [b.cost EXCEPT ![t] = 0])

Settled(b, t, form) == \E s \in b.settled : s.token = t /\ s.form = form

AddSettlement(b, s) == [b EXCEPT !.settled = @ \cup {s}]

\* Mutant: a settled row stays in the inventory.
SettledBookRowKept(b, t) ==
    LET value == IF view[t[1]].verdict = t[2] THEN b.qty[t] * Payout ELSE 0
        gain == value - b.cost[t]
    IN  AddSettlement(Post(b, value, gain, b.qty, b.cost),
                      [token |-> t, form |-> WinnerForm(t), gain |-> gain])

\* A row whose settlement_key exists is dropped without accounting for it.
SettledBook(b, t) ==
    LET value == IF view[t[1]].verdict = t[2] THEN b.qty[t] * Payout ELSE 0
        gain == value - b.cost[t]
    IN  IF Settled(b, t, WinnerForm(t))
        THEN DropRow(b, t, 0, 0)
        ELSE AddSettlement(DropRow(b, t, value, gain),
                           [token |-> t, form |-> WinnerForm(t), gain |-> gain])

SettleToken(t) ==
    /\ pc = "settle" /\ t \in todo
    /\ todo' = todo \ {t}
    /\ work' = IF Pending(t) THEN work ELSE SettledBook(work, t)
    /\ UNCHANGED <<disk, mem, pc, view, logged>>
    /\ World

\* A pass that only refreshed valuations is saved too; one that changed nothing is not.
EndReconcile ==
    /\ pc = "settle" /\ todo = {}
    /\ \/ Save(work, "idle", {})
       \/ work = mem /\ pc' = "idle" /\ UNCHANGED <<disk, mem, logged>>
    /\ work' = NoBook /\ view' = NoNews
    /\ UNCHANGED todo
    /\ World

-----------------------------------------------------------------------------
(* The environment: resolutions, the operator, crashes *)

Resolve(m, r) ==
    /\ \/ resolution[m] = "open" /\ r \in {"unknown", "YES", "NO"}
       \/ resolution[m] = "unknown" /\ r \in {"YES", "NO"}
    /\ resolution' = [resolution EXCEPT ![m] = r]
    /\ UNCHANGED <<disk, mem, pc, limit, work, todo, view, logged>>

ProcessGone ==
    /\ pc' = "down" /\ mem' = NoBook
    /\ work' = NoBook /\ todo' = {} /\ view' = NoNews
    /\ UNCHANGED logged
    /\ World

\* The runner stops between two handlers and saves once more, if it can.
Shutdown == pc = "idle" /\ disk' \in {disk, mem} /\ ProcessGone

Crash == pc # "down" /\ disk' = disk /\ ProcessGone

\* The reset command, which the portfolio lock keeps apart from the runner.
Reset ==
    /\ pc = "down"
    /\ disk' = InitialBook
    /\ logged' = {}
    /\ UNCHANGED <<mem, pc, work, todo, view>>
    /\ World

Next ==
    \/ Boot \/ Recover
    \/ \E p \in Plans : StartExecution(p) \/ ExecuteOnce(p)
    \/ ResumeExecution \/ FillStep \/ FinalizeExecution \/ AbortExecution
    \/ \E m \in Markets, price \in LegPrices : CompleteLeg(m, price)
    \/ BeginReconcile \/ EndReconcile
    \/ \E t \in Tokens : SettleToken(t)
    \/ \E m \in Markets, r \in Resolutions : Resolve(m, r)
    \/ Shutdown \/ Crash \/ Reset

Spec == Init /\ [][Next]_vars

\* The operator restarts a stopped runner, the market of the active execution keeps
\* being evaluated, and a save that is retried often enough succeeds.
Fairness ==
    /\ WF_vars(Boot) /\ SF_vars(Recover) /\ SF_vars(ResumeExecution)
    /\ SF_vars(FillStep /\ disk' # disk)
    /\ SF_vars(FinalizeExecution /\ disk' # disk)
    /\ SF_vars(AbortExecution /\ disk' # disk)
    /\ WF_vars(EndReconcile)
    /\ \A t \in Tokens : WF_vars(SettleToken(t))

FairSpec == Spec /\ Fairness

-----------------------------------------------------------------------------
(* Properties *)

\* What a restart would load.
Durable == IF disk = NoFile THEN InitialBook ELSE disk

Running == pc \in {"boot", "idle", "step", "settle"}

\* Every variable has its type.  The part that could fail is that step quantities,
\* cost bases and share counts never become negative (paper.py clamps some of them).
TypeOK ==
    /\ disk \in Books \cup {NoFile}
    /\ mem \in Books \cup {NoBook}
    /\ pc \in PCs
    /\ limit \in StepLimits
    /\ work \in Books \cup {NoBook}
    /\ todo \subseteq Tokens
    /\ view \in Views
    /\ resolution \in [Markets -> Resolutions]
    /\ logged \subseteq Ids
    /\ mem = NoBook <=> pc = "down"
    /\ pc = "step" => mem.active # NoActive

\* A running process never knows more, or less, than a restart would load: between
\* two handlers, and between two steps of an execution, memory is what the file holds
\* (_save_state first, then self.state; _reload_after_failed_save).
MemoryIsDurable == Running => mem = Durable

\* No two executions share an id, and an active execution's id is not among the
\* recorded ones unless the file was left by an earlier version and start-up has still
\* to recover it: finalizing and recovering record an execution exactly once.
RecordedOnce ==
    LET b == Durable
    IN  /\ \A i, j \in DOMAIN b.executions :
               b.executions[i].id = b.executions[j].id => i = j
        /\ b.active # NoActive /\ Recorded(b, b.active.id)
               => pc \in {"down", "boot"} /\ Completed(b.active)

\* The unchanged-book guard survives crashes and recovery: what was traded of a pair of
\* books under a step plan is not traded again under the same plan before another
\* execution of that market intervened, whatever was restarted in between.  (Another
\* quantity, step limit or friction setting is another fingerprint, and may be traded.)
SnapshotTradedOnce == TradedOnce(Durable.executions)

\* The audit log never runs ahead of the portfolio: an execution that was logged is
\* in the file, whatever failed or crashed afterwards.
LoggedIsDurable == \A id \in logged : Recorded(Durable, id)

\* A resumed execution is never re-checked against cash: _continue_stepped_execution
\* relies on the cash that was there when it started.  Whatever ran in between, a step
\* about to be filled leaves the reserve untouched, if plans cost what they were sized
\* with.
StepKeepsReserve ==
    pc = "step" /\ ~StepsOver(mem.active) /\ StepValid(mem.active)
        => Spend(StepFill(mem.active)) <= mem.cash - Reserve

\* Shares are paid out once: no token of a market has two settlement records, and one
\* with a record has no shares left to settle.
SettledOnce ==
    LET b == Durable
    IN  \A s \in b.settled :
            /\ \A r \in b.settled : r.token = s.token => r = s
            /\ b.qty[s.token] = 0

\* README: COND_ARB_TRADE_CEILING_USD is a per-execution maximum capital spend.
CeilingPerExecution ==
    \A i \in DOMAIN Durable.executions :
        LET e == Durable.executions[i] IN e.id.kind = "pair" => e.spent <= Ceiling

\* No saved change other than a reset lowers the cash: every fill redeems more than it
\* spends, step by step, even when the plan as a whole would still pay.
CashNeverFalls ==
    [][(disk \in Books /\ disk' # InitialBook) => (disk'.cash >= disk.cash)]_vars

\* A started execution is eventually recorded or dropped, across crashes, failed saves
\* and changed step limits.  (Until then every other market is refused.)
ActiveEventuallyClosed == Durable.active # NoActive ~> Durable.active = NoActive

====
