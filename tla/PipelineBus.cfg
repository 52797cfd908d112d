CONSTANTS
    Workflows = {w1, w2, w3}
    Plans <- MCPlans
    MaxFaults = 1
SPECIFICATION FairSpec
INVARIANTS
    StepsRunAsPlanned
    PassIsEarned
PROPERTIES
    CallsReturn
CHECK_DEADLOCK FALSE
