------------------------------- MODULE Domain -------------------------------
(* What every module of the state layer shares. *)

CONSTANTS
  Trips,   \* trip ids
  NONE     \* Python's None

=============================================================================
