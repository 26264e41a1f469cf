SPECIFICATION ServerSpec
CONSTANTS
    Client = {"c1", "c2"}
    Rid = {1, 2, 3, 4}
    Few = {1, 2, 3}
    Handle = {1}
    Fence = {"f1"}
    Dispatch = {"d1", "d2"}
    Port = {"render", "card1"}
    PortOf <- MCPortOf
    Event = "event"
    NoRid = NoRid
    Chunk = {k1, k2}
    NFrames = 2
    MaxOom = 3
    NoChunk = NoChunk
INVARIANTS
    OwedOnce
    ParkedHasClient
    AnsweredWhereAsked
    NoMissedWait
    TileListsKept
    OneOwner
    OneGrantPerStall
PROPERTIES
    EveryRequestAnswered
    StallEnds
CHECK_DEADLOCK FALSE
