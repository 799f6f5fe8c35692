SPECIFICATION Spec
CONSTANTS
    p1 = p1  p2 = p2  p3 = p3  p4 = p4
    here = here  there = there
    Procs = {p1, p2, p3}
    Host <- MCHost
    Pid <- MCPid
    MaxAttempts = 2
    Overlap = TRUE
    Faults = TRUE
    NoProc = NoProc
INVARIANT AtMostOneHolder
CHECK_DEADLOCK FALSE
