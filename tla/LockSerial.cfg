SPECIFICATION FairSpec
CONSTANTS
    p1 = p1  p2 = p2  p3 = p3  p4 = p4
    here = here  there = there
    Procs = {p1, p2, p3, p4}
    Host <- MCHost
    Pid <- MCPid
    MaxAttempts = 2
    Overlap = FALSE
    Faults = TRUE
    NoProc = NoProc
INVARIANTS TypeOK AtMostOneHolder
PROPERTIES OnlyStaleRemoved StartDecides
CHECK_DEADLOCK FALSE
