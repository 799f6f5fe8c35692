------------------------------- MODULE MCFill -------------------------------
(* A small instance of the fill evaluation and of the strategy for TLC. *)
EXTENDS ArbStrategy

MCPayout == 10
MCPrices == {2, 3, 4, 5, 6}

Pair(yes, no) == [l \in Legs |-> IF l = "yes" THEN yes ELSE no]

\* Deep, dear behind cheap, stepped, and dear from the second share.
MCAskBooks == {<<4, 4, 4, 4>>, <<3, 4, 4, 4>>, <<3, 3, 5>>, <<3, 3, 4, 4>>, <<4, 6, 6>>}
MCSignals == {Pair(<<4, 4, 4, 4>>, <<3, 3, 4, 4>>), Pair(<<3, 3, 5>>, <<4, 4, 4, 4>>),
              Pair(<<3, 3, 4, 4>>, <<3, 3, 4, 4>>), Pair(<<4, 4, 4, 4>>, <<4, 6, 6>>)}

\* Nothing, levels that shrank, a level that grew, and trades alone.
Quiet == [shrunk |-> <<>>, traded |-> <<>>, grown |-> {}]
Shrank == [Quiet EXCEPT !.shrunk = <<4, 4, 4>>]
Grew == [Quiet EXCEPT !.grown = {4}]
Trades == [Quiet EXCEPT !.traded = <<3, 3, 4, 4>>]
MCTapePairs == {Pair(Quiet, Quiet), Pair(Shrank, Shrank), Pair(Shrank, Quiet), Pair(Grew, Quiet),
                Pair(Trades, Trades), Pair(Quiet, Trades)}

Full == [l \in Legs |-> 10]
Plain == [usable |-> TRUE, fallback |-> FALSE, optIn |-> FALSE, pressed |-> FALSE,
          late |-> FALSE, adverse |-> FALSE, slip |-> 1, draw |-> Full]

MCConditions ==
    {Plain, [Plain EXCEPT !.usable = FALSE], [Plain EXCEPT !.fallback = TRUE],
     [Plain EXCEPT !.pressed = TRUE, !.late = TRUE], [Plain EXCEPT !.slip = 2],
     [Plain EXCEPT !.draw["no"] = 5], [Plain EXCEPT !.draw = [l \in Legs |-> 5]],
     [Plain EXCEPT !.optIn = TRUE], [Plain EXCEPT !.optIn = TRUE, !.fallback = TRUE],
     [Plain EXCEPT !.optIn = TRUE, !.adverse = TRUE]}

MCFloor == [profit |-> 5, return |-> 0]
MCWeights ==
    [k \in Measures |-> [changed |-> 1, fallback |-> 1, late |-> 2, slip |-> 1,
                         partial |-> IF k = "profit" THEN 20 ELSE 1]]

\* Books of one market of an event: a cheap pair, a cheap side, and one side only.
MCMarketBooks == {Pair(<<4>>, <<3, 5>>), Pair(<<2, 4>>, <<6>>), Pair(<<>>, <<5>>)}
MCEvents == [Markets -> MCMarketBooks]
=============================================================================
