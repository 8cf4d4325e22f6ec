SPECIFICATION FairSpec
CONSTANTS
    Conns = {"first", "second"}
    Requests <- MCRequests
    Configs <- MCConfigs
    Capacity <- OneSlot
    AppDeadline = 6
    ReadTimeout = 8
INVARIANT ExecutedIsEntitled
INVARIANT CrossSiteCannotAct
INVARIANT McpIsConsistent
INVARIANT AnswerIsTrue
PROPERTY StallIsContained
