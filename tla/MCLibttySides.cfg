SPECIFICATION SidesSpec
CONSTANTS
    Size = 4
    Byte = {"NL", "CR", "EOL", "KILL", "LNEXT", "INTR"}
    Junk = {"EOL"}
    Typed = {"EOL", "KILL", "LNEXT", "INTR"}
    Reader = {r1, r2}
    Writer = {w1}
    Ctl = {d1}
    Hw = hw
    Free = free
    Watermark = 3
    OprocMax = 3
    TabLen = 3
    ReadSize = {1, 2, 3}
    WriteSize = {1, 3}
    DefaultTerm <- Cooked
    Termios <- SideModes
SYMMETRY Readers
INVARIANTS
    BreakNeverMissed
    NoPhantomBreak
    CanonPopHasByte
PROPERTY
    RawReadsMin
