CONSTANTS
    Actors = {a1, a2}
    Sessions = {s1, s2}
    Notes = {n1, n2}
    Keys = {key1}
    Values = {v1, v2}
    MaxEvents = 4
    Files = {"f1", "f2"}
    Texts = {"short", "long", "blank"}
    LengthOf <- MCLengths
    Projects <- MCProjects
    Runs = {"r1", "r2"}
    ChunkSize = 3
    Overlap = 1
    k1 = k1
    k2 = k2
    Slugs = {k1, k2}
    SectionOf <- MCSectionOf
    SizeOf <- MCSize
    Share <- MCShare
    TokenBudget = 3
    Weight <- MCWeight
    Bonus <- MCBonus
    Cap <- MCCap
    Penalty <- MCPenalty
    Floor <- MCFloor
    Runners = {r1, r2}
    Batches <- MCBatches
    Threshold = 1
    Copt = TRUE
    MaxObserved = 2
    MaxCycles = 2
    MaxFaults = 1
SPECIFICATION MCMapSpec
INVARIANTS
    MapIsSound
    ChangesAnnounced
PROPERTIES
    PendingProcessed
CHECK_DEADLOCK FALSE
