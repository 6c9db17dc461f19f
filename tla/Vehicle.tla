------------------------------- MODULE Vehicle --------------------------------
(***************************************************************************)
(* The autopilot, as far as the flight plugins see it: it is no part of    *)
(* the repository.  A plugin has one command under way at a time; the      *)
(* command sender passes them on one by one and reports a result, success  *)
(* or failure, for each.  A command that times out may have been carried   *)
(* out.  What the vehicle reports arrives in order, unless it is lost.     *)
(***************************************************************************)
EXTENDS Integers, Sequences

CONSTANTS
    Client,   \* the plugins that send commands
    MaxLink   \* bound: messages on their way from the vehicle

Modes == {"hold", "offboard", "mission", "rtl", "takeoff", "land", "follow"}
Commands == Modes \cup {"arm", "disarm", "calibrate", "other"}

VARIABLES
    mode, armed, air,  \* flight mode, motors on, off the ground
    fed,      \* it has had a setpoint within the last half second
    pilot,    \* history: the pilot took over
    pending,  \* per client: its command, or none
    answer,   \* per client: the result of its last command, until it is taken
    link      \* messages on their way from the vehicle, the oldest first

vehicleVars == <<mode, armed, air, fed, pilot>>
commandVars == <<pending, answer>>

VehicleInit ==
    /\ mode = "hold" /\ armed = FALSE /\ air = FALSE /\ fed = FALSE /\ pilot = FALSE
    /\ pending = [c \in Client |-> "none"] /\ answer = [c \in Client |-> "none"]
    /\ link = <<>>

\* for the plugins: send a command, and take its result
Command(c, what) ==
    /\ pending[c] = "none" /\ answer[c] = "none"
    /\ pending' = [pending EXCEPT ![c] = what] /\ answer' = answer
Result(c, r) ==
    /\ answer[c] = r
    /\ answer' = [answer EXCEPT ![c] = "none"] /\ pending' = pending

Answered(c, r) ==
    /\ pending' = [pending EXCEPT ![c] = "none"]
    /\ answer' = [answer EXCEPT ![c] = r]

\* Offboard is refused to who sends no setpoints, taking off to who is not armed.
CanDo(what) ==
    CASE what = "offboard" -> fed
      [] what = "takeoff"  -> armed /\ ~air
      [] what = "arm"      -> ~armed
      [] what = "disarm"   -> ~air
      [] what = "calibrate" -> ~armed
      [] OTHER -> TRUE

Do(what) ==
    /\ mode' = IF what \in Modes THEN what ELSE mode
    /\ armed' = CASE what = "arm" -> TRUE [] what = "disarm" -> FALSE [] OTHER -> armed
    /\ air' = (air \/ what = "takeoff")

Obey(c) ==
    /\ pending[c] # "none" /\ CanDo(pending[c])
    /\ Do(pending[c])
    /\ \E r \in {"success", "failure"} : Answered(c, r)   \* a late success is a failure
    /\ UNCHANGED <<fed, pilot, link>>

Refuse(c) ==
    /\ pending[c] # "none"
    /\ Answered(c, "failure")
    /\ UNCHANGED <<vehicleVars, link>>

Starve ==
    /\ mode = "offboard" /\ ~fed
    /\ mode' = "hold"
    /\ UNCHANGED <<armed, air, fed, pilot, commandVars, link>>

TakeOver ==
    /\ air /\ ~pilot
    /\ mode' = "hold" /\ pilot' = TRUE
    /\ UNCHANGED <<armed, air, fed, commandVars, link>>

TakenOff ==
    /\ mode = "takeoff"
    /\ mode' = "hold"
    /\ UNCHANGED <<armed, air, fed, pilot, commandVars, link>>

TouchDown ==
    /\ mode \in {"rtl", "land"} /\ armed
    /\ air' = FALSE /\ armed' = FALSE
    /\ UNCHANGED <<mode, fed, pilot, commandVars, link>>

Post(messages) == Len(link) + Len(messages) <= MaxLink /\ link' = link \o messages

\* heartbeats and landed states, again and again
Report ==
    /\ link = <<>>   \* bound
    /\ \/ Post(<<[type |-> "heartbeat", value |-> mode, armed |-> armed]>>)
       \/ Post(<<[type |-> "landed", value |-> IF air THEN "air" ELSE "ground"]>>)
       \/ mode \in {"takeoff", "land"} /\ Post(<<[type |-> "landed", value |-> "between"]>>)
    /\ UNCHANGED <<vehicleVars, commandVars>>

Lose == link # <<>> /\ link' = Tail(link) /\ UNCHANGED <<vehicleVars, commandVars>>

Receives(type) == link # <<>> /\ Head(link).type = type /\ link' = Tail(link)

VehicleTypeOK ==
    /\ mode \in Modes /\ {armed, air, fed, pilot} \subseteq BOOLEAN
    /\ pending \in [Client -> Commands \cup {"none"}]
    /\ answer \in [Client -> {"none", "success", "failure"}]
    /\ Len(link) <= MaxLink
===============================================================================
