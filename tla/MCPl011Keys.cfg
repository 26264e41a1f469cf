SPECIFICATION Pl011Spec
CONSTANTS
    Size = 4
    Byte = {"x", "NL", "CR", "EOF", "ERASE"}
    Junk = {"x"}
    Typed = {"x", "EOF", "ERASE"}
    OnLine = {"x"}
    OnKbd = {"x", "EOF", "ERASE"}
    Reader = {r1}
    Writer = {}
    Ctl = {}
    Hw = hw
    Free = free
    Watermark = 2
    OprocMax = 2
    TabLen = 2
    ReadSize = {2}
    WriteSize = {}
    DefaultTerm <- Cooked
    Termios = {}
    HwDepth = 1
    BatchSize = 1
    KbdMax = 2
    HasFb = FALSE
INVARIANTS
    NoMissedLine
PROPERTY
    UsesLibtty
