------------------------------ MODULE MCCommands ------------------------------
(* TLC instances of MavlinkCommands: command numbers and timer addresses are *)
(* interchangeable.                                                          *)
EXTENDS MavlinkCommands, TLC

Symmetry == Permutations(Command) \cup Permutations(Timer)
=============================================================================
