---------------------------- MODULE CommandService ----------------------------
(***************************************************************************)
(* What MAVLinkCommands promises its callers: the callback of every queued *)
(* command is invoked exactly once, in the order the commands were queued, *)
(* with a final result.  MAVLinkParameters promises the same for each of   *)
(* its two queues, and the HTTP loader fetches its files this way.         *)
(***************************************************************************)
EXTENDS Integers, Sequences

CONSTANTS MaxWork, Outcome

VARIABLES
  queued,    \* how many commands have been queued
  results    \* the results reported so far; results[i] answers command i

serviceVars == <<queued, results>>

TypeOK ==
  /\ queued \in 0 .. MaxWork
  /\ results \in Seq(Outcome)
  /\ Len(results) <= queued

Init ==
  /\ queued = 0
  /\ results = <<>>

Submit ==
  /\ queued < MaxWork
  /\ queued' = queued + 1
  /\ UNCHANGED results

Answer(o) ==
  /\ Len(results) < queued
  /\ results' = Append(results, o)
  /\ UNCHANGED queued

Next == Submit \/ \E o \in Outcome: Answer(o)

Spec == Init /\ [][Next]_serviceVars
=============================================================================
