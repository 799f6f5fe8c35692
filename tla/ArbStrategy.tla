---------------------------- MODULE ArbStrategy ----------------------------
(***************************************************************************)
(* The strategy of arb_strategy.py, beside the evaluation of paper.py that    *)
(* the runner trades on: the depth it takes of one market, and the linear     *)
(* program over the markets of a negative-risk event, where a NO share may be *)
(* converted into a YES share of every other market.  The two files share no  *)
(* state; a behaviour here is one of FillEvaluation or one decision on an     *)
(* event.  A quantity is a number of shares, and scipy's solver is external:  *)
(* it returns one of the best points of the program it is given.              *)
(***************************************************************************)
EXTENDS FillEvaluation, FiniteSetsExt, Functions

CONSTANTS
    Markets,    \* the markets of an event, exactly one of which pays its YES shares
    Events,     \* the ask books of these markets at which a decision is made
    Capitals,   \* max_capital_usd
    NoEvent, NoDecision

ASSUME StrategyAssumption ==
    /\ IsFiniteSet(Markets) /\ Cardinality(Markets) > 1 /\ IsFiniteSet(Events)
    /\ Events \subseteq [Markets -> [Legs -> Books]]
    /\ Capitals \subseteq Nat

VARIABLES
    event,    \* what is decided on: the books, the capital, and if the checks let it pass
    decision  \* what came of it

strategyVars == <<event, decision>>
allVars == <<vars, strategyVars>>

-----------------------------------------------------------------------------
(* One market *)

\* The walk over both books: where each tranche ends, without a look at what it earns.
PairedDepthCandidates(book, capital) ==
    LET limit == (capital - Merge) * Base
        Walk[w \in [qty : 0..Pairs(book), gross : Nat]] ==
            IF w.qty = Pairs(book) THEN {}
            ELSE LET step == MinOf(Depth(book, w), Buys(book, limit, w))
                 IN  IF step <= 0 THEN {}
                     ELSE {Taken(book, w, step)}
                            \cup IF step < Depth(book, w) THEN {} ELSE Walk[Taken(book, w, step)]
    IN  Walk[[qty |-> 0, gross |-> 0]]

\* _passes_thresholds on _profit_for.
PassesThresholds(collateral, gross) ==
    LET net == collateral * Payout * Base - Costs(gross, Slip)
    IN  /\ net >= Floor["profit"]
        /\ net * Base >= Floor["return"] * Costs(gross, Slip)

Qualifying(c) == c.qty >= MinSize /\ PassesThresholds(c.qty, c.gross)

\* Mutant: only the first candidate is looked at.
FirstQualifying(book, capital) ==
    LET all == PairedDepthCandidates(book, capital)
    IN  {c \in all : Qualifying(c) /\ \A d \in all : c.qty <= d.qty}

\* evaluate_binary_arbitrage takes the last and largest, as a set of at most one.
LargestQualifying(book, capital) ==
    LET all == {c \in PairedDepthCandidates(book, capital) : Qualifying(c)}
    IN  {c \in all : \A d \in all : d.qty <= c.qty}

-----------------------------------------------------------------------------
(* A negative-risk event *)

\* A point of the program: what is bought of each market, how much of its NO is converted
\* or merged with its YES, and how many complete sets of YES are redeemed.
MaxShares == LET lengths == {Len(e[m][l]) : e \in Events, m \in Markets, l \in Legs}
             IN  Max(lengths \cup {0})
Uses == {u \in [yes : 0..MaxShares, no : 0..MaxShares, convert : 0..MaxShares,
                merge : 0..MaxShares] : u.convert + u.merge <= u.no}
Redemptions == 0..(MaxShares * Cardinality(Markets))

\* Cheaper shares first, as no best point does otherwise.
GroupGross(books, bought) ==
    SumFunctionOnSet([m \in Markets |-> FillCost(books[m]["yes"], bought[m].yes)
                                         + FillCost(books[m]["no"], bought[m].no)], Markets)

\* What is converted or merged of the NO of the markets in S.
Converted(use, S) == SumFunctionOnSet([m \in Markets |-> use[m].convert], S)
Merged(use, S) == SumFunctionOnSet([m \in Markets |-> use[m].merge], S)

Collateral(use, redeem) == redeem + Merged(use, Markets)

\* Mutant: converting the NO of a market brings a YES of that market too.
YesOfAny(use, m) == use[m].yes + Converted(use, Markets)

YesAtHand(use, m) == use[m].yes + Converted(use, Markets \ {m})

\* The bounds and rows of the program: levels, balances of both tokens, capital, thresholds.
OnOffer(books, bought) ==
    \A m \in Markets : bought[m].yes <= Len(books[m]["yes"]) /\ bought[m].no <= Len(books[m]["no"])

WithinCapital(gross, capital) == Capital(gross, Slip) <= MaxOf(0, capital - Merge) * Base

Feasible(books, capital) ==
    {x \in [use : {use \in [Markets -> Uses] :
                     /\ OnOffer(books, use)
                     /\ WithinCapital(GroupGross(books, use), capital)},
            redeem : Redemptions] :
        /\ \A m \in Markets : x.use[m].merge + x.redeem <= YesAtHand(x.use, m)
        /\ PassesThresholds(Collateral(x.use, x.redeem), GroupGross(books, x.use))}

Net(collateral, gross) == collateral * Payout * Base - Costs(gross, Slip)

Skip == [fate |-> "skip"]

\* evaluate_neg_risk_event_group: the objective is the net profit, and a best point that
\* redeems nothing is no opportunity.
GroupDecisions(books, capital) ==
    LET points == {[fate |-> "enter",
                    bought |-> [m \in Markets |-> [yes |-> x.use[m].yes, no |-> x.use[m].no]],
                    gross |-> GroupGross(books, x.use),
                    collateral |-> Collateral(x.use, x.redeem)] : x \in Feasible(books, capital)}
        nets   == {Net(x.collateral, x.gross) : x \in points}
    IN  IF points = {} THEN {Skip}
        ELSE {IF x.collateral = 0 THEN Skip ELSE x :
                  x \in {y \in points : Net(y.collateral, y.gross) = Max(nets)}}

-----------------------------------------------------------------------------

\* fit: flags, event, tokens and ages of the books are in order for every market.
EventInit ==
    /\ event \in [books : Events, capital : Capitals, fit : BOOLEAN]
    /\ offer = NoOffer /\ failures = <<>> /\ last = NoOutcome

StrategyInit ==
    /\ decision = NoDecision
    /\ EventInit \/ (event = NoEvent /\ Init)

Decide ==
    /\ event # NoEvent /\ decision = NoDecision
    /\ decision' \in IF event.fit THEN GroupDecisions(event.books, event.capital) ELSE {Skip}
    /\ UNCHANGED <<vars, event>>

\* A decision on an event is the end of its behaviour.
Decided == decision # NoDecision /\ UNCHANGED allVars

StrategyNext == (event = NoEvent /\ Next /\ UNCHANGED strategyVars) \/ Decide \/ Decided

StrategySpec == StrategyInit /\ [][StrategyNext]_allVars

-----------------------------------------------------------------------------
(* Properties *)

\* What the runner trades the strategy would have seen: on the books and the budget of a
\* plan that paper.py accepts, it enters too, with no fewer shares and no higher profit,
\* as it takes the largest depth that qualifies and paper.py the one that earns most.
\* Code: evaluate_binary_arbitrage against _simulate_paired_tranches.
StrategyNeverBehind ==
    offer # NoOffer =>
        \E found \in LargestQualifying(offer.book, SpendLimit(offer.cash) \div Base) :
            /\ found.qty >= offer.qty
            /\ Net(found.qty, found.gross) <= Net(offer.qty, offer.gross)

\* The NO shares bought of the markets in S.
HeldNo(bought, S) == SumFunctionOnSet([m \in Markets |-> bought[m].no], S)

\* What a purchase pays whichever market of the event wins.
Guaranteed(bought) ==
    Min({bought[w].yes + HeldNo(bought, Markets \ {w}) : w \in Markets})

Purchases == [Markets -> [yes : 0..MaxShares, no : 0..MaxShares]]

\* Purchases that pay off whoever wins, priced by what they pay in the worst case alone.
WorthBuying(books, capital) ==
    {b \in Purchases :
        /\ OnOffer(books, b) /\ WithinCapital(GroupGross(books, b), capital)
        /\ PassesThresholds(Guaranteed(b), GroupGross(books, b))}

\* An opportunity on an event is an arbitrage: its claimed collateral is what the bought
\* shares pay in the worst outcome, no purchase within the capital promises more, and an
\* event is skipped only if no purchase earns anything.  The outcomes know nothing of
\* conversions, merges and redemptions.  Code: the balances, rows and objective of
\* evaluate_neg_risk_event_group.
GroupPaysWhoeverWins ==
    (decision # NoDecision /\ event.fit) =>
        LET worth == WorthBuying(event.books, event.capital)
        IN  IF decision = Skip
            THEN \A b \in worth : Net(Guaranteed(b), GroupGross(event.books, b)) <= 0
            ELSE /\ decision.collateral = Guaranteed(decision.bought)
                 /\ decision.bought \in worth
                 /\ \A b \in worth : Net(Guaranteed(b), GroupGross(event.books, b))
                                       <= Net(decision.collateral, decision.gross)
=============================================================================
