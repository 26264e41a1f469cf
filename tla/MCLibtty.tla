----------------------------- MODULE MCLibtty -----------------------------
(* Instances of Libtty with the most general driver.                       *)
EXTENDS Libtty

Cooked ==
    [icanon |-> TRUE, isig |-> TRUE, iexten |-> TRUE, echo |-> FALSE,
     opost |-> FALSE, igncr |-> FALSE, icrnl |-> TRUE, inlcr |-> FALSE,
     veol |-> FALSE, vmin |-> 1, vtime |-> 0]

CookedVeol == [Cooked EXCEPT !.veol = TRUE]
CookedEcho == [Cooked EXCEPT !.echo = TRUE, !.opost = TRUE]
CookedOpost == [Cooked EXCEPT !.opost = TRUE, !.igncr = TRUE]
Raw == [Cooked EXCEPT !.icanon = FALSE, !.isig = FALSE, !.iexten = FALSE,
                      !.icrnl = FALSE]

RawMin == [Raw EXCEPT !.vmin = 2]
RawTimed == [Raw EXCEPT !.vmin = 2, !.vtime = 1]
RawFirst == [Raw EXCEPT !.vmin = 0, !.vtime = 1]

TxModes == {Cooked, CookedEcho}
LineModes == {Cooked, CookedVeol, Raw}
RawModes == {RawMin, RawTimed, RawFirst}

===========================================================================
