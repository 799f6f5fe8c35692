------------------------------- MODULE MCLock -------------------------------
(***************************************************************************)
(* Small instances of the portfolio lock for TLC.                           *)
(***************************************************************************)
EXTENDS PortfolioLock, TLC

CONSTANTS p1, p2, p3, p4, here, there

\* Three processes on one host, a fourth on another that shares the directory and
\* happens to have a pid in use on the first.
MCHost == (p4 :> there) @@ [p \in Procs |-> here]
MCPid == (p1 :> 1 @@ p2 :> 2 @@ p3 :> 3 @@ p4 :> 1)

\* Every process of a restarted container has the same pid.
SamePid == [p \in Procs |-> 1]

=============================================================================
