---------------------------- MODULE MCPl011Tty ----------------------------
(* Instances of the Raspberry Pi console with a small libtty.              *)
EXTENDS Pl011Tty, MCLibtty

===========================================================================
