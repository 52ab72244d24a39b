SPECIFICATION Spec
CONSTANTS
    Sizes = {1, 2, 3, 5, 6}
    MaxBlocks = 4
    Document <- Documents
    ChunkTokens = 4
    OverlapTokens = 2
    MinTokens = 2
    MaxContext = 1
    MaxChunks = 3
    GroupSize = 2
    MaxSummaries = 2
INVARIANTS NothingLost WindowBudget LargeBudget SelectionSpread
