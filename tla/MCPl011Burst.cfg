SPECIFICATION Pl011Spec
CONSTANTS
    Size = 4
    Byte = {"x", "NL", "CR"}
    Junk = {"x"}
    Typed = {"x", "NL"}
    OnLine = {"x", "NL"}
    OnKbd = {}
    Reader = {r1}
    Writer = {}
    Ctl = {}
    Hw = hw
    Free = free
    Watermark = 2
    OprocMax = 2
    TabLen = 2
    ReadSize = {2}
    WriteSize = {}
    DefaultTerm <- Cooked
    Termios = {}
    HwDepth = 2
    BatchSize = 1
    KbdMax = 2
    HasFb = FALSE
INVARIANT
    NoMissedLine
