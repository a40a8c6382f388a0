------------------------------ MODULE Backend -------------------------------
(* What the components of the backend have in common.                      *)
CONSTANTS
  Users,
  Requests,   \* requests served at the same time
  None        \* no user, no row, no value
=============================================================================
