SPECIFICATION JobsSpec
CONSTANTS
    NSlots = 1
    BO = {b1}
    MaxJobs = 4
    MaxGen = 1
    CsdStuck = FALSE
INVARIANT SeqnoOrder
CHECK_DEADLOCK FALSE
