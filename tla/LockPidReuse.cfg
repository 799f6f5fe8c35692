SPECIFICATION Spec
CONSTANTS
    p1 = p1  p2 = p2  p3 = p3  p4 = p4
    here = here  there = there
    Procs = {p1, p2}
    Host <- MCHost
    Pid <- SamePid
    MaxAttempts = 2
    Overlap = FALSE
    Faults = TRUE
    NoProc = NoProc
PROPERTY DeadOwnerNotRefused
CHECK_DEADLOCK FALSE
