SPECIFICATION FairSpec
CONSTANTS
    Callers = {"j1", "j2"}
    Tenants = {"t1", "t2"}
    Limits = {1}
    MaxRetries = 1
    HasFallback = TRUE
    MaxWindows = 2
    MaxPieces = 1
    Agents <- MCAgents
    ToolRecs <- MCToolRecs
    Works <- MCWorks
    Replies <- MCReplies
    Picks <- MCPicks
    Verdicts <- MCVerdicts
    Rows <- MCRows
    Rows0 <- MCRows0
    RecentLimit = 1
INVARIANTS ProviderCallsBounded PromptsAreRedacted ReplayIsOwn PickedIsOwn
PROPERTY EveryStepEnds
CHECK_DEADLOCK FALSE
