SPECIFICATION Spec
CONSTANTS
    BootModulus <- MCBootModulus
    CountModulus <- MCCountModulus
    MaxParsed <- MCMaxParsed
    FirstCounts <- MCFirstCounts
    VolatileIds = {2, 5}
    MaxBoots <- MCMaxBoots
INVARIANTS
    BootIdsNeverGoBack
    DegradedStaysDegraded
    OnlyFirstWriteIsAtRisk
