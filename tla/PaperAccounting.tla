-------------------------- MODULE PaperAccounting --------------------------
(***************************************************************************)
(* What the numbers of the saved portfolio have to do with each other, and  *)
(* the ledger that the portfolio file implements.                           *)
(***************************************************************************)
EXTENDS PaperPortfolio, Functions

CostHeld(b) == SumFunction(b.cost)

ExecutionProfits(b) ==
    SumFunction([i \in DOMAIN b.executions |-> b.executions[i].profit])

SettlementGains(b) == SumFunction([s \in b.settled |-> s.gain])

\* The profit of filled steps that no execution record reports yet.
OpenProfit(b) ==
    IF b.active = NoActive \/ Recorded(b, b.active.id) THEN 0 ELSE b.active.profit

InBalance(b) == b.cash + CostHeld(b) = Starting + b.pnl

Explained(b) ==
    b.pnl = ExecutionProfits(b) + OpenProfit(b) + SettlementGains(b) + b.normalized

\* A file left by an earlier version is in balance, and its result is explained.
ASSUME SavedSumsAssumption ==
    /\ IsFiniteSet(Markets)
    /\ \A b \in SavedBooks : InBalance(b) /\ IsFiniteSet(b.settled) /\ Explained(b)

\* Money is neither made nor lost in the books: whatever sequence of fills,
\* redemptions, normalisations, settlements and crashes led here, cash plus the cost
\* basis still held is the starting capital plus the realized result.
Conserved == InBalance(Durable) /\ (pc = "settle" => InBalance(work))

\* realized_pnl is explained by the records: every cent of it is in exactly one
\* execution (or in the steps of the active one), settlement or normalisation.
PnlExplained == Explained(Durable)

\* The portfolio file implements the ledger: each save is one transaction of it, and a
\* crash, a failed save or a restart is none.
Ledger == INSTANCE PaperLedger WITH
    Capital <- Starting, Nobody <- NoActive,
    money <- Durable.cash, basis <- CostHeld(Durable), result <- Durable.pnl,
    open <- IF Durable.active = NoActive THEN NoActive ELSE Durable.active.id,
    filled <- Durable.active # NoActive /\ Durable.active.steps > 0,
    history <- [i \in DOMAIN Durable.executions |-> Durable.executions[i].id]

ImplementsLedger == Ledger!LedgerSpec

=============================================================================
