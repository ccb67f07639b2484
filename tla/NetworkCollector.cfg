SPECIFICATION FairSpec
CONSTANTS
    Indexes = {1, 2, 3, 9}
    NoIndex = 0
    MaximumLinks = 3
    LinkInputs <- MCLinkInputs
    Paths <- MCPaths
INVARIANTS
    ReportedIsExternal
    CyclesOnly
PROPERTIES
    SearchEnds
