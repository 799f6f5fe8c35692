------------------------------- MODULE MCFeed -------------------------------
(* The feed for TLC: a connection per token, and a refresh that may find a      *)
(* token in front of those there are, so that those move one connection up.     *)
EXTENDS MarketFeed

MCTokens == {1, 2}
MCUniverses == {{2}, {1, 2}}
=============================================================================
