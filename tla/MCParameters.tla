----------------------------- MODULE MCParameters -----------------------------
(* TLC instances of MavlinkParameters: names, user threads and timer addresses *)
(* are interchangeable, and one get is enough beside two sets.                 *)
EXTENDS MavlinkParameters, TLC

MCMaxWork == [set |-> 2, get |-> 1]
Symmetry  == Permutations(Name) \cup Permutations(User) \cup Permutations(Timer)
=============================================================================
