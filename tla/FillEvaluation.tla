--------------------------- MODULE FillEvaluation ---------------------------
(***************************************************************************)
(* How paper.py decides on an execution: a plan is sized on the books of the *)
(* signal, the market is looked at again at the fill time, and the plan is    *)
(* sized, priced, cut to the public evidence and held against the profit      *)
(* thresholds once more.  Failures at the fill time raise the thresholds of   *)
(* the evaluations that follow.  What the portfolio makes of an execution,    *)
(* and the fingerprint of the books traded last, is PaperPortfolio's.         *)
(***************************************************************************)
EXTENDS PairedTranches

CONSTANTS
    Signals,     \* pairs of ask books that may raise a signal
    AskBooks,    \* ask books a leg may have at the fill time
    TapePairs,   \* recent public events of each leg, see TypeOfTapes
    Conditions,  \* everything else about a look at the market: see TypeOfConditions
    Cashes,      \* cash of the portfolio
    MinSize,     \* effective_min_order_size
    Floor,       \* min_net_profit_usd (times Base) and min_net_return (in parts of Base)
    Weights,     \* what each risk adds to the two thresholds
    AllowPrints, \* simulation.allow_trade_print_fill_support
    MaxMove,     \* simulation.max_fill_price_move_bps
    Throttle,    \* simulation.throttle_quantity_ratio
    QueueRatio, Removal, AdverseMove,  \* simulation.queue_depth_ratio, adverse_*
    SlipCap,     \* simulation.slippage_max_bps
    TakeMax,     \* simulation.slippage_combine_mode = "max"
    Window,      \* window of _recent_partial_failure_rate
    NoOffer, NoOutcome

VARIABLES
    offer,     \* the accepted plan of the signal
    failures,  \* simulation_failures: the last Window of them
    last       \* history: the last evaluation that came to the fill time

vars == <<offer, failures, last>>

Measures == {"profit", "return"}
Risks == {"changed", "fallback", "late", "slip"}

\* usable: no error, unready, missing, stale or timed-out book and no submit, accept or fill
\* failure; fallback: there was no public reader; optIn: allow_deterministic_fill_fallback;
\* pressed: the throttle is saturated; late: latency and jitter; slip: calibrated slippage;
\* draw: the legs' shares of the quantity if the partial fill is drawn, in parts of Base.
TypeOfConditions ==
    [usable : BOOLEAN, fallback : BOOLEAN, optIn : BOOLEAN, pressed : BOOLEAN, late : BOOLEAN,
     adverse : BOOLEAN, slip : Nat, draw : [Legs -> 0..Base]]

\* shrunk, traded: shares that ask levels lost, and that were traded, by their prices;
\* grown: prices whose level grew.  A tape is whatever the cache still holds up to the
\* fill time: the reader asks for no first moment, so that it goes back beyond the signal.
TypeOfTapes == [shrunk : Seq(Prices), traded : Seq(Prices), grown : SUBSET Prices]

ASSUME FillAssumption ==
    /\ AskBooks \subseteq Books /\ Signals \subseteq [Legs -> Books]
    /\ Conditions \subseteq TypeOfConditions
    /\ TapePairs \subseteq [Legs -> TypeOfTapes]
    /\ Floor \in [Measures -> Nat] /\ Weights \in [Measures -> [Risks \cup {"partial"} -> Nat]]
    /\ {AllowPrints, TakeMax} \subseteq BOOLEAN
    /\ {MinSize, Window} \subseteq Nat \ {0} /\ Cashes \subseteq Nat
    /\ {MaxMove, AdverseMove, SlipCap} \subseteq Nat
    /\ {Throttle, QueueRatio, Removal} \subseteq 0..Base

Offers == [book : [Legs -> Books], cash : Nat, qty : Nat \ {0}, gross : Nat]
Looks == [book : [Legs -> AskBooks], tape : TapePairs, at : Conditions]

-----------------------------------------------------------------------------
(* Thresholds *)

\* What each risk measures.  At the signal nothing of the fill time is known.
SignalRisks == [r \in Risks |-> 0]

EffectiveSlip(slip) == IF TakeMax THEN MaxOf(Slip, slip) ELSE MinOf(SlipCap, Slip + slip)

FillRisks(o, look) ==
    [SignalRisks EXCEPT
        !["changed"] = Cardinality({l \in Legs : look.book[l] # o.book[l]}),
        !["fallback"] = IF look.at.fallback THEN 1 ELSE 0,
        !["late"] = IF look.at.late THEN 1 ELSE 0,
        !["slip"] = MaxOf(0, EffectiveSlip(look.at.slip) - Slip)]

\* _recent_partial_failure_rate times a weight: of the failures, not of the attempts.
PartialRisk(weight) ==
    IF failures = <<>> THEN 0
    ELSE LET partial == {n \in DOMAIN failures : failures[n] = "partial"}
         IN  (weight * Cardinality(partial)) \div Len(failures)

Threshold(k, risk) ==
    LET add(r) == Weights[k][r] * risk[r]
    IN  MaxOf(Floor[k], add("changed") + add("fallback") + add("late") + add("slip")
                            + PartialRisk(Weights[k]["partial"]))

Costs(gross, slip) == Capital(gross, slip) + Merge * Base

Clears(qty, gross, slip, risk) ==
    LET capital == Costs(gross, slip)
        net     == qty * Payout * Base - capital
    IN  /\ net > 0
        /\ net >= Threshold("profit", risk)
        /\ net * Base >= Threshold("return", risk) * capital

-----------------------------------------------------------------------------
(* The look at the market at the fill time *)

\* The move of the cost of a pair since the signal is beyond the guard.
Moved(o, qty, gross) ==
    /\ MaxMove > 0 /\ qty > 0
    /\ (gross * o.qty - o.gross * qty) * Base > MaxMove * o.gross * qty

Target(o, look) == IF look.at.pressed THEN (o.qty * Throttle) \div Base ELSE o.qty

\* What the tape shows at the prices the plan uses.
IntendedPrices(o, l) == {o.book[l][k] : k \in 1..o.qty}

AtIntended(o, l, shares) ==
    Among(shares, {k \in DOMAIN shares : shares[k] \in IntendedPrices(o, l)})
Shrunk(o, look, l) == AtIntended(o, l, look.tape[l].shrunk)
Traded(o, look, l) == AtIntended(o, l, look.tape[l].traded)

RowsSeen(o, look) ==
    \E l \in Legs : \/ Shrunk(o, look, l) # <<>>
                    \/ Traded(o, look, l) # <<>>
                    \/ look.tape[l].grown \cap IntendedPrices(o, l) # {}

\* Mutant: trades support a leg of which nothing else is known.
PrintsAlways(o, look, l) == AllowPrints

\* A trade alone is no support: there must be depth, or a level that shrank.
PrintsCount(o, look, l) ==
    /\ AllowPrints
    /\ \/ SupportedQuantity(look.book[l], o.book[l], Target(o, look)) > 0
       \/ Shrunk(o, look, l) # <<>>

\* The fill-time book with what the tape says was there at the planned prices.
PublicBook(o, look, l) ==
    WithSupport(look.book[l],
                Shrunk(o, look, l) \o (IF PrintsCount(o, look, l) THEN Traded(o, look, l)
                                       ELSE <<>>))

\* Both legs must be supported by what is public.
PublicSupport(o, look, public) ==
    /\ ~look.at.fallback
    /\ \A l \in Legs : SupportedQuantity(public[l], o.book[l], Target(o, look)) > 0

\* If the tape shows anything at the planned prices, each leg gets what it shows.
QueueFill(o, look, l) == MinOf(o.qty, Len(Shrunk(o, look, l)) + Len(Traded(o, look, l)))

\* Without public support, and if that was opted into, the book is scaled by assumption.
WorkingBook(look, b) ==
    LET queued == IF QueueRatio > 0 THEN ScaleDepth(b, QueueRatio) ELSE b
    IN  IF look.at.adverse THEN AdverseAdjust(queued, Removal, AdverseMove) ELSE queued

-----------------------------------------------------------------------------
(* The decision *)

\* Mutant: the look without public support goes on without an opt-in too.
AdmittedAnyway(o, look, supported) == look.at.usable

\* The exits of evaluate_binary_paper_execution before a fill is tried.
Admitted(o, look, supported) ==
    LET seen == SimulatePairedTranches(look.book, o.cash, o.qty)
    IN  /\ look.at.usable
        /\ look.at.fallback => look.at.optIn
        /\ ~Moved(o, seen.qty, seen.gross)
        /\ look.at.pressed => Target(o, look) >= MinSize
        /\ supported \/ look.at.optIn
        /\ supported /\ RowsSeen(o, look) =>
               \A l \in Legs : QueueFill(o, look, l) \notin 1..(MinSize - 1)

\* _execute_paper_step up to the fill: the plan of now must do if it is filled in full.
Attempted(o, look, plan) ==
    /\ plan.qty >= MinSize
    /\ ~Moved(o, plan.qty, plan.gross)
    /\ Clears(plan.qty, plan.gross, EffectiveSlip(look.at.slip), FillRisks(o, look))

\* Mutant: what the tape shows is not cut to the plan of now.
FilledUncut(o, look, supported, qty, l) ==
    IF supported /\ RowsSeen(o, look) THEN QueueFill(o, look, l)
    ELSE (qty * look.at.draw[l]) \div Base

Filled(o, look, supported, qty, l) ==
    IF supported /\ RowsSeen(o, look) THEN MinOf(qty, QueueFill(o, look, l))
    ELSE (qty * look.at.draw[l]) \div Base

\* The whole evaluation: what it comes to, and the quantity and cost of an execution.  A
\* cut that leaves nothing, unequal legs or less than the minimum is a partial pair.
Outcome(o, look) ==
    LET public    == [l \in Legs |-> PublicBook(o, look, l)]
        supported == PublicSupport(o, look, public)
        book      == IF supported THEN public ELSE [l \in Legs |-> WorkingBook(look, public[l])]
        plan      == SimulatePairedTranches(book, o.cash, Target(o, look))
        filled    == [l \in Legs |-> Filled(o, look, supported, plan.qty, l)]
        gross     == FillCost(book["yes"], filled["yes"]) + FillCost(book["no"], filled["no"])
        failure(fate) == [fate |-> fate, qty |-> 0, gross |-> 0]
    IN  IF ~Admitted(o, look, supported) \/ ~Attempted(o, look, plan) THEN failure("other")
        ELSE IF filled["yes"] # filled["no"] \/ filled["yes"] < MinSize THEN failure("partial")
        ELSE IF ~Clears(filled["yes"], gross, EffectiveSlip(look.at.slip), FillRisks(o, look))
             THEN failure("other")
        ELSE [fate |-> "executed", qty |-> filled["yes"], gross |-> gross]

-----------------------------------------------------------------------------

\* Without a public reader the fill-time books are those of the signal, and there is no
\* tape.
Unseen(look) ==
    \A l \in Legs : look.tape[l] = [shrunk |-> <<>>, traded |-> <<>>, grown |-> {}]
Fits(look) == look.at.fallback => look.book = offer.book /\ Unseen(look)

Init == offer = NoOffer /\ failures = <<>> /\ last = NoOutcome

\* _evaluate_optimistic_binary_paper_execution accepts the books of a signal.  A skip
\* leaves everything as it was.
Signal ==
    /\ offer = NoOffer
    /\ \E book \in Signals, cash \in Cashes :
           LET plan == SimulatePairedTranches(book, cash, Len(book["yes"]))
           IN  /\ plan.qty >= MinSize
               /\ Clears(plan.qty, plan.gross, Slip, SignalRisks)
               /\ offer' = [book |-> book, cash |-> cash, qty |-> plan.qty,
                            gross |-> plan.gross]
    /\ last' = NoOutcome
    /\ UNCHANGED failures

\* Mutant: the list of failures grows.
RememberAll(fate) == failures' = Append(failures, fate)

\* _append_execution_failure_event.
Remember(fate) ==
    failures' = LET all == Append(failures, fate)
                IN  IF Len(all) > Window THEN Tail(all) ELSE all

\* A failure is remembered, an execution is not.
Evaluate ==
    /\ offer # NoOffer
    /\ \E look \in Looks :
           LET outcome == Outcome(offer, look)
           IN  /\ Fits(look)
               /\ last' = [offer |-> offer, look |-> look, outcome |-> outcome]
               /\ IF outcome.fate = "executed" THEN UNCHANGED failures
                  ELSE Remember(outcome.fate)
    /\ offer' = NoOffer

Next == Signal \/ Evaluate

Spec == Init /\ [][Next]_vars

-----------------------------------------------------------------------------
(* Properties *)

\* The variables have their types, and no more failures are kept than the window looks at.
TypeOK ==
    /\ offer \in Offers \cup {NoOffer}
    /\ failures \in Seq({"partial", "other"}) /\ Len(failures) <= Window
    /\ last = NoOutcome \/ /\ last.offer \in Offers
                           /\ last.outcome.fate \in {"executed", "partial", "other"}
                           /\ {last.outcome.qty, last.outcome.gross} \subseteq Nat

GrossOf(book, q) == FillCost(book["yes"], q) + FillCost(book["no"], q)
Affordable(o, q) == Costs(GrossOf(o.book, q), Slip) <= SpendLimit(o.cash)
ProfitOf(book, q) == q * Payout * Base - Capital(GrossOf(book, q), Slip)

\* The plan of a signal costs what its shares cost level by level, the budget pays for it,
\* and no other quantity that both books have and the budget pays for earns more.
\* Code: the loop of _simulate_paired_tranches, its edge, budget and depth exits.
BestPlan ==
    offer # NoOffer =>
        /\ offer.gross = GrossOf(offer.book, offer.qty)
        /\ Affordable(offer, offer.qty)
        /\ \A q \in 1..MinOf(Len(offer.book["yes"]), Len(offer.book["no"])) :
               Affordable(offer, q) => ProfitOf(offer.book, q) <= ProfitOf(offer.book, offer.qty)

PricesIn(b) == {b[k] : k \in DOMAIN b}

Executed == last # NoOutcome /\ last.outcome.fate = "executed"

\* A second look that finds the same two books, an empty tape and no trouble executes exactly
\* the plan of the signal: the two evaluators and the support check agree with each other.
\* Code: _evaluate_optimistic_binary_paper_execution against
\* evaluate_binary_paper_execution and _execute_paper_step.
SameBooksSameFill ==
    (/\ last # NoOutcome
     /\ last.look.book = last.offer.book
     /\ Unseen(last.look)
     /\ last.look.at.usable /\ ~last.look.at.fallback /\ ~last.look.at.pressed
     /\ ~last.look.at.late
     /\ EffectiveSlip(last.look.at.slip) = Slip
     /\ \A l \in Legs : last.look.at.draw[l] = Base)
    => /\ Executed
       /\ last.outcome.qty = last.offer.qty /\ last.outcome.gross = last.offer.gross

\* Without the opt-in an execution rests on what was public: there was a look at the market,
\* and for both legs it showed a share at the price of the plan or a level there that
\* shrank.  Trades, which may have been anyone's, never do alone.
\* Code: fallback_reason, public_support_available and trade_print_support_applied.
RestsOnPublicDepth ==
    Executed /\ ~last.look.at.optIn =>
        /\ ~last.look.at.fallback
        /\ \A l \in Legs :
               \E p \in PricesIn(last.look.book[l] \o last.look.tape[l].shrunk) :
                   p <= last.offer.book[l][last.offer.qty]

\* However the plan was cut or supported on the way, what is executed earns the static
\* profit after all costs, and costs no more than the budget it was sized with, but for
\* the slippage that was found to be higher than what it was sized with.
\* Code: the checks of _execute_paper_step before and after the fill is cut.
FillsPayAndFit ==
    Executed =>
        LET slip    == EffectiveSlip(last.look.at.slip)
            capital == Costs(last.outcome.gross, slip)
        IN  /\ last.outcome.qty * Payout * Base - capital >= MaxOf(1, Floor["profit"])
            /\ capital <= SpendLimit(last.offer.cash) + last.outcome.gross * MaxOf(0, slip - Slip)
            /\ last.outcome.qty \in MinSize..last.offer.qty
=============================================================================
