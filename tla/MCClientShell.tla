---------------------------- MODULE MCClientShell ----------------------------
(* Instance of ClientShell for TLC. *)
EXTENDS ClientShell

CONSTANT c1
=============================================================================
