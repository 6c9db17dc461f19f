------------------------------- MODULE MCLidar -------------------------------
(* TLC instances of Lidar. *)
EXTENDS Lidar

Users == {"run", "stop", "app"}
Baudrates == {1536}
=============================================================================
