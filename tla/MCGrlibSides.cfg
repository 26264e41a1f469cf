SPECIFICATION SidesSpec
CONSTANTS
    Size = 4
    Byte = {"x", "NL", "CR", "KILL"}
    Junk = {"x"}
    Typed = {"CR", "KILL"}
    Reader = {r1}
    Writer = {w1}
    Ctl = {}
    Hw = hw
    Free = free
    Watermark = 2
    OprocMax = 2
    TabLen = 2
    ReadSize = {2}
    WriteSize = {1, 4}
    DefaultTerm <- Cooked
    Termios <- TxModes
    HwDepth = 2
    LfSize = 4
    MaxPush = 10
    Burst = 5
INVARIANTS
    RxServiced
    NoMissedSpace
    LfInOrder
    LfNoMissedByte
PROPERTIES
    UsesLibtty
    QueueSpec
    RestsWhenQuiet
    CallsEnd
