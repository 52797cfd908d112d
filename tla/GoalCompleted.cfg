CONSTANTS
    Pipelines <- MCPipelines
    Workflows <- MCWorkflows
    Delegations <- MCDelegations
    Plans <- MCPlans
    Lists <- MCLists
    Nodes = {"n1", "n2", "n3", "n4"}
    Callers = {c1, c2}
    MaxStates = 3
    Tasks = {t1, t2}
    MaxParallels = {1, 2, 3}
    Writers = {s1, s2}
    MaxAnswers = 1
    Actions = {"Read", "read", "grep"}
    Keys = {"r", "g"}
    KeyOf <- MCKeyOf
    MaxIterations = 4
    MaxTokens = 9
    TimeLimited = TRUE
    StuckThreshold = 2
    KeyWindow = 3
    ContextWindow = 5
    Responses = {1}
    MaxResponse = 1
    Refine = TRUE
    RefineThreshold = 2
    Scores = {0, 1, 2}
    GenerationGoal = TRUE
    NoAnswer = NoAnswer
SPECIFICATION MCSpec
INVARIANT GoalsAreCompleted
CHECK_DEADLOCK FALSE
