SPECIFICATION Spec
CONSTANTS
    Indexes = {1, 2, 9}
    NoIndex = 0
    MaximumLinks = 2
    LinkInputs <- MCLinkInputs
    Paths <- MCPaths
INVARIANTS
    DisappearanceTemporary
