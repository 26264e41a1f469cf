-------------------------- MODULE MCLibttySession --------------------------
(* Instances of LibttySession.                                             *)
EXTENDS LibttySession, TLC

Terminals == Permutations(Tty)

============================================================================
