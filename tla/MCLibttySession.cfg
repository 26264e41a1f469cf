SPECIFICATION SessionSpec
CONSTANTS
    Tty = {t1, t2, t3}
    Pid = {p1, p2}
    First = p1
    None = none
    Reuse = FALSE
SYMMETRY Terminals
INVARIANTS
    AtMostOneCtty
    MarkHasTty
PROPERTY
    TakenOnlyFromDead
