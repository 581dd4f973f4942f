SPECIFICATION MCSpec
CONSTANTS
    g1 = g1
    g2 = g2
    a = a
    b = b
    c = c
    None = None
    Groups <- MCGroups
    Addresses <- MCAddresses
    Candidates <- MCCandidates
    Default <- MCDefault
    Selectors = {s1, s2}
    Overlap = FALSE
    MaxRefreshes = 1
    MaxCrashes = 1
    Hosts <- MCHosts
    RuleBooks <- MCRuleBooks
    Hostnames = {"n1", "n2", "n3"}
    NoHost = "none"
    MaxRecords = 2
    Queries <- MCQueries
SYMMETRY Symmetry
INVARIANTS
    SelectorInv
    SavedIsUsed
    RoutesAreRight
    MappedDnsInv
PROPERTIES
    RefreshIsRight
    OnlyPassingChosen
CHECK_DEADLOCK FALSE
