------------------------------ MODULE MCPaper ------------------------------
(***************************************************************************)
(* Small instances of the paper portfolio for TLC.                          *)
(***************************************************************************)
EXTENDS PaperAccounting

CONSTANTS m1, m2, f1, f2

MCPayout == 10
MCStarting == 77

\* A plan for qty pairs at yes + no a pair, which clears the given threshold.
PlanAt(m, books, qty, yes, no, floor) ==
    [market |-> m, books |-> books, qty |-> qty, yes |-> yes, no |-> no, sized |-> yes + no,
     floor |-> floor]
Plan(m, books, qty, floor) == PlanAt(m, books, qty, 3, 4, floor)

\* 5 pairs in steps of 2, of which the last is below the minimum size, and what less cash
\* buys of the same books; 4 pairs; and 5 pairs that pay for one merge but not for one in
\* every step.
MCPlans == {Plan(m1, f1, 5, 2), Plan(m1, f1, 2, 2), Plan(m2, f1, 4, 2),
            PlanAt(m1, f2, 5, 4, 5, 2)}

\* What earlier versions may have left: balanced pairs that were never redeemed,
\* unmatched shares, and an execution that was recorded but is still active, where shares
\* have taken most of the cash above the reserve.
Held(m, yes, no, yesCost, noCost) ==
    [InitialBook EXCEPT
        !.cash = @ - yesCost - noCost,
        !.qty = Change(@, m, yes, no), !.cost = Change(@, m, yesCost, noCost)]

Id(m, n, fp) == [market |-> m, n |-> n, fp |-> fp, kind |-> "pair"]

StillActive ==
    LET p == Plan(m1, f1, 2, 2)
        a == [id |-> Id(m1, 1, FingerprintOf(p, 3)), plan |-> p, steps |-> 1,
              filled |-> 2, current |-> 2, spent |-> 17, profit |-> 3, maxSteps |-> 3]
        e == [id |-> a.id, qty |-> 2, spent |-> 17, profit |-> 3]
    IN  [Held(m2, 5, 3, 25, 14) EXCEPT
            !.cash = @ + 3, !.pnl = @ + 3, !.active = a,
            !.executions = <<e>>, !.fp[m1] = a.id.fp]

MCSavedBooks == {Held(m1, 1, 1, 4, 5), Held(m2, 3, 1, 6, 3), StillActive}

\* Seven pairs in growing steps of 2 and 4, the rest below the minimum size; and a plan
\* whose steps do not reach the threshold that the plan clears.
GrowingPlans == {Plan(m1, f1, 7, 2), Plan(m1, f2, 4, 9), Plan(m2, f1, 4, 2)}

GrowingSavedBooks == {Held(m1, 1, 1, 4, 5)}
=============================================================================
