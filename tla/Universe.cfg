SPECIFICATION Spec
CONSTANTS
    m1 = m1  m2 = m2  m3 = m3
    Markets = {m1, m2, m3}
    Bookless = {m3}
    Leftovers = {m1}
    FirstListing <- MCListing
    PageSize = 2
    SliceLimit = 1
    MaxFaults = 1
    MaxRestarts = 1
    NoFile = NoFile
INVARIANTS TypeOK FullHasAll
PROPERTIES LeftoverSettled CoverageBecomesFull
