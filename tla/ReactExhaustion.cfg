CONSTANTS
    MaxRetries = 1
    MaxTokens = 2
    TurnTokens = {1}
    SkillStatuses = {"success", "failed", "cancelled"}
    ToolStatuses = {"success", "failed"}
    MaxUses = 2
    MaxFaults = 1
SPECIFICATION MCSpec
INVARIANT ExhaustionIsReported
CHECK_DEADLOCK FALSE
