CONSTANTS
    NoDir = NoDir
    NoReport = NoReport
    NoCommit = NoCommit
    NoGit = NoGit
    NoBudget = NoBudget
    c1 = c1
    c2 = c2
    Commits = {c1, c2}
    Disks <- MCDisks
    AllowedRoot <- MCAllowedRoot
    RealPath <- MCRealPath
    SensitivePaths = {}
    AnyPath = FALSE
    Override = NoDir
    MaxWalk = 2
    ReportDirs <- MCReportDirs
    PossibleRows <- MCRows
    Graphs <- MCGraphs
    Matches <- MCMatches
    Budgets <- MCBudgets
    MaxNodes = 2
    MaxDepth = 3
    MaxStarts = 3
    MinBudget = 5
    DefaultBudget = 10
    MaxBudget = 24
    HeaderCost = 3
    LineCost <- MCLineCost
    EdgeHeaderCost = 2
    EdgeCost = 3
    Boost = 20
    Keys = {"x", "y"}
    Sample = 2
    Responses <- MCResponses
    Limits <- MCLimits
    Whitelists <- MCWhitelists
    Sources <- MCSources
    Dollared <- MCDollared
    MaxMoves = 1
SPECIFICATION Spec
INVARIANTS TypeOK StaleMapIsFlagged GraphAnswersAreExact TableKeepsItems VerdictIsEarned ClearStaysInScope
PROPERTY EveryCallAnswered
