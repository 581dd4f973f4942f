SPECIFICATION Spec
CONSTANTS
    g1 = g1
    g2 = g2
    a = a
    b = b
    c = c
    None = None
    Groups <- MCGroups
    Addresses <- MCAddresses
    Candidates <- MCCandidates
    Default <- MCDefault
    Selectors = {s1}
    Overlap = FALSE
    MaxRefreshes = 1
    MaxCrashes = 0
PROPERTIES
    WorkingIsKept
CHECK_DEADLOCK FALSE
