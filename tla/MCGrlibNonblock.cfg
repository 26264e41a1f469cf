SPECIFICATION UartSpec
CONSTANTS
    Size = 4
    Byte = {"x", "NL", "CR"}
    Junk = {"x"}
    Typed = {}
    Reader = {}
    Writer = {w1}
    Ctl = {}
    Hw = hw
    Free = free
    Watermark = 2
    OprocMax = 2
    TabLen = 2
    ReadSize = {}
    WriteSize = {1, 4}
    DefaultTerm <- Cooked
    Termios = {}
    HwDepth = 2
INVARIANT
    TxAnnounced
