SPECIFICATION JobsSpec
CONSTANTS
    NSlots = 2
    BO = {b1}
    MaxJobs = 4
    MaxGen = 1
    CsdStuck = FALSE
INVARIANT ClientsTakeTurns
CHECK_DEADLOCK FALSE
