CONSTANTS
    UserKeys = {"pause", "run", "step"}
    Outcomes = {"retire"}
    Batch = FALSE
    KeyMax = 1
    RunUndoMax = 0
    CodeMax = 4
SPECIFICATION RunSpec
INVARIANT CpuOwned
