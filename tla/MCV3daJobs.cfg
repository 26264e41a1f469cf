SPECIFICATION SubjectsSpec
CONSTANTS
    Client = {c1, c2}
    Entry = {s1, s2}
    Name = {n1}
    Fd = {d1, d2}
    Job = {j1, j2}
    Importer = {t1, t2}
    MaxGen = 2
    MaxHandle = 2
    None = None
    Other = s2
    NSlots = 2
    BO = {b1}
    MaxJobs = 4
    CsdStuck = FALSE
INVARIANTS
    SignalledOrOvertaken
    NoLostFence
    NoUseAfterFree
    RefsMatch
    WindowsMatch
    OneImport
PROPERTIES
    FenceNeverRetracted
    JobsDrain
CHECK_DEADLOCK FALSE
