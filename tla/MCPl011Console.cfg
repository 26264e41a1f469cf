SPECIFICATION FairPl011Spec
CONSTANTS
    Size = 4
    Byte = {"x", "NL", "CR"}
    Junk = {"x"}
    Typed = {"CR"}
    OnLine = {}
    OnKbd = {"CR"}
    Reader = {}
    Writer = {w1}
    Ctl = {}
    Hw = hw
    Free = free
    Watermark = 2
    OprocMax = 2
    TabLen = 2
    ReadSize = {}
    WriteSize = {1, 4}
    DefaultTerm <- CookedOpost
    Termios = {}
    HwDepth = 2
    BatchSize = 2
    KbdMax = 1
    HasFb = TRUE
INVARIANTS
    NothingLost
    AppKeysPrivate
PROPERTIES
    UsesLibtty
    WriteEnds
    KbdHandedOver
