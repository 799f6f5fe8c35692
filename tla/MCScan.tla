------------------------------- MODULE MCScan -------------------------------
(* The scanner loop for TLC: two markets; a chunk holds one token of each. *)
EXTENDS ScanLoop, TLC

CONSTANTS m1, m2

MCMarkets == {m1, m2}
MCPair == (m1 :> {1, 3}) @@ (m2 :> {2, 4})
MCUniverses == {{m1}, {m1, m2}}
=============================================================================
