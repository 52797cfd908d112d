CONSTANTS
    Tasks = {t1, t2}
    MaxBackground = 1
SPECIFICATION FairSpec
INVARIANTS
    NoResultLost
    SlotBound
    CancellationIsHonest
    ListComplete
PROPERTIES
    TasksAndCallsEnd
    ImplementsTaskPool
