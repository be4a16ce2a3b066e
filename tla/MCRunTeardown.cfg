CONSTANTS
    UserKeys = {"pause", "run", "click_quit"}
    Outcomes = {"retire"}
    Batch = FALSE
    KeyMax = 2
    RunUndoMax = 0
    CodeMax = 4
SPECIFICATION RunLive
PROPERTY Teardown
CHECK_DEADLOCK FALSE
