CONSTANTS
    Calls = {1, 2, 3}
    Turns <- MCTurns
    MaxHistory = 1
    Budget = 2
    Callers = {1, 2, 3}
    Names = {"p1", "p2", "h1"}
    Sessions = {"s1", "s2"}
    Scenes <- MCScenes
    MaxContainers = 1
    Editors = {1, 2}
SPECIFICATION Spec
INVARIANTS
    CallsAreGuarded
    AnswersAreLogged
    ContainersAreKept
    EditsAreExact
PROPERTIES
    ToolsEnd
