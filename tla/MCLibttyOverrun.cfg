SPECIFICATION Spec
CONSTANTS
    Size = 4
    Byte = {"x", "NL", "CR"}
    Junk = {"x"}
    Typed = {"x", "NL"}
    Reader = {r1}
    Writer = {}
    Ctl = {}
    Hw = hw
    Free = free
    Watermark = 2
    OprocMax = 2
    TabLen = 2
    ReadSize = {4}
    WriteSize = {}
    DefaultTerm <- Cooked
    Termios = {}
INVARIANT
    HaveBreakMeansBreak
