CONSTANTS
    MaxRetries = 1
    MaxTokens = 2
    TurnTokens = {1}
    SkillStatuses = {"success", "failed", "cancelled"}
    ToolStatuses = {"failed"}
    MaxUses = 2
    MaxFaults = 1
SPECIFICATION MCFairSpec
INVARIANTS
    BreakerIsExact
    LateWorkBounded
    LogIsSound
    ReturnIsFinal
PROPERTIES
    LoopsEnd
CHECK_DEADLOCK FALSE
