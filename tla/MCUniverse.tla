----------------------------- MODULE MCUniverse -----------------------------
(* Small instances of the market universe for TLC. *)
EXTENDS MarketUniverse

CONSTANTS m1, m2, m3

\* One page and a half with m3, which is listed later or never.
MCListing == <<m1, m2>>
=============================================================================
