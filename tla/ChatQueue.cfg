CONSTANTS
    TokenBudget = 8
    MaxMessages = 3
    ResultCap = 2
    Turns <- MCTurns
    Scripts <- MCScripts
    Written <- MCWritten
    Outcomes <- MCOutcomes
    MaxFaults = 1
    QueueMax = 1
    MaxLines = 5
    MaxClusters = 3
    MaxMessagesShown = 2
    Texts = {"a", "b"}
    HistoryMax = 2
    TypedMax = 1
    Models <- MCModels
    Files = {1}
    Viewers = {"tui"}
    Followers = {"c1"}
    EventsMax = 3
    ViewThreads <- MCViewThreads
    ViewEdits = 1
    ViewFailures = 0
    FollowThreads <- MCFollowThreads
    FollowEdits = 0
    FollowFailures = 1
SPECIFICATION MCSpec
INVARIANT AnswersAreShown
CHECK_DEADLOCK FALSE
