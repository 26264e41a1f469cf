---------------------------- MODULE MCGrlibUart ----------------------------
(* Instances of the driver with a small libtty.                             *)
EXTENDS GrlibUart, MCLibtty

============================================================================
