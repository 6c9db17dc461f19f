----------------------------- MODULE StealthFlight ----------------------------
(***************************************************************************)
(* The flight of offboard_velocity.cpp: arm, take off, fly the mission to  *)
(* its second item, pause it, fly by velocity setpoints, resume the        *)
(* mission to its end, and return to launch.  It composes the program with *)
(* the action, offboard and mission plugins and the vehicle.               *)
(* Its main thread blocks on every command; heartbeats, progress, results  *)
(* and the periodic setpoints come on other threads.  Any error, and the   *)
(* loss of the vehicle, ends the program where it is.                      *)
(***************************************************************************)
EXTENDS Action, Offboard

CONSTANTS
    Last,      \* the number of the mission's last message (they start at 0)
    Second,    \* the number of the first message of its second item
    Setpoints  \* bound: setpoints sent during the offboard part

ASSUME FlightAssumption == Last \in Nat /\ Second \in 1..Last /\ Setpoints \in Nat

VARIABLES
    pc,        \* where main() is
    sent,      \* setpoints sent in this offboard part
    item,      \* the vehicle: the mission message it works on; Last + 1: none is left
    flown,     \* history: the vehicle has worked off the whole mission
    current, reached,  \* MissionImpl: last_current_, last_reached_mavlink_mission_item
    wantToPause,
    unheard     \* history: a message was lost that is not sent again

missionVars == <<item, flown, current, reached, wantToPause, unheard>>
flightVars == <<vehicleVars, commandVars, link, actionVars, offboardVars, pc, sent, missionVars>>

FlightInit ==
    /\ VehicleInit /\ ActionInit /\ OffboardInit
    /\ pc = "upload" /\ sent = 0
    /\ item = 0 /\ flown = FALSE
    /\ \E stale \in {-1, Last} : current = stale /\ reached = stale   \* an earlier mission's
    /\ wantToPause = FALSE /\ unheard = FALSE

Ended == pc \in {"done", "failed", "lost"}

-----------------------------------------------------------------------------
(* main()                                                                  *)

Go(from, to) == pc = from /\ pc' = to

\* handle_mission_err_exit and the like
Outcome(r, to) == pc' = IF r = "success" THEN to ELSE "failed"

\* (faulty: the progress of the mission before is kept)
UploadKeepsProgress ==
    /\ Go("upload", "arm")
    /\ UNCHANGED <<vehicleVars, commandVars, link, actionVars, offboardVars, sent, missionVars>>

\* The acknowledgement of an upload forgets the progress.  A refusal ends the program.  An
\* upload that times out is not reported (see MissionTransfer): main() waits for its
\* promise for ever, while the callbacks go on.
Upload ==
    /\ pc = "upload"
    /\ \/ pc' = "arm" /\ current' = -1 /\ reached' = -1
       \/ pc' \in {"failed", "silent"} /\ UNCHANGED <<current, reached>>
    /\ UNCHANGED <<vehicleVars, commandVars, link, actionVars, offboardVars, sent,
                   item, flown, wantToPause, unheard>>

\* what main() asks of the action plugin, and where it waits for the answer
Asks == [arm |-> "arm", takeoff |-> "takeoff", rtl |-> "return_to_launch"]
Asking == DOMAIN Asks
After == [arm |-> "takeoff", takeoff |-> "start", rtl |-> "disarmed"]

AskAction ==
    /\ pc \in Asking
    /\ Begin(Asks[pc]) \/ Deny(Asks[pc])
    /\ UNCHANGED <<vehicleVars, link, offboardVars, pc, sent, missionVars>>

ActionAnswers ==
    /\ pc \in Asking /\ done # "none"
    /\ Outcome(done, After[pc])
    /\ done' = "none"
    /\ UNCHANGED <<vehicleVars, commandVars, link, known, inAir, operation, step, offboardVars,
                   sent, missionVars>>

\* the modes main() asks for through the mission and the offboard plugin
Sets == [start |-> "mission", pause |-> "hold", offboard |-> "offboard",
         leave |-> "hold", resume |-> "mission"]
Client_(stage) == IF stage \in {"offboard", "leave"} THEN "offboard" ELSE "mission"
Then == [start |-> "wait", pause |-> "setpoint", offboard |-> "fly",
         leave |-> "resume", resume |-> "finish"]
Waits == [start |-> "starting", pause |-> "pausing", offboard |-> "entering",
          leave |-> "leaving", resume |-> "resuming"]

\* OffboardImpl::stop ends the stream before it sends the command
LeaveStops(stage) == IF stage = "leave" THEN StopSending ELSE UNCHANGED offboardVars

SetMode(stage) ==
    /\ Go(stage, Waits[stage])
    /\ stage = "offboard" => frame # "none"
    /\ LeaveStops(stage)
    /\ Command(Client_(stage), Sets[stage])
    /\ UNCHANGED <<vehicleVars, link, actionVars, sent, missionVars>>

\* NO_SETPOINT_SET
NoSetpointSet ==
    /\ frame = "none"
    /\ Go("offboard", "failed")
    /\ UNCHANGED <<vehicleVars, commandVars, link, actionVars, offboardVars, sent, missionVars>>

ModeSet(stage) ==
    /\ pc = Waits[stage]
    /\ \E r \in {"success", "failure"} : Result(Client_(stage), r) /\ Outcome(r, Then[stage])
    /\ UNCHANGED <<vehicleVars, link, actionVars, offboardVars, sent, missionVars>>

WaitToPause ==
    /\ wantToPause /\ Go("wait", "pause")
    /\ UNCHANGED <<vehicleVars, commandVars, link, actionVars, offboardVars, sent, missionVars>>

Setpoint ==
    /\ \/ Go("setpoint", "offboard") /\ sent' = 0
       \/ pc = "fly" /\ sent < Setpoints /\ pc' = pc /\ sent' = sent + 1
    /\ SetVelocity("ned")
    /\ UNCHANGED <<mode, armed, air, pilot, commandVars, link, actionVars, missionVars>>

Leave ==
    /\ sent = Setpoints /\ Go("fly", "leave")
    /\ UNCHANGED <<vehicleVars, commandVars, link, actionVars, offboardVars, sent, missionVars>>

\* (faulty: by the message the vehicle is at, which is 0 again after the last)
FinishedByCurrent == current >= Last

\* is_mission_finished; nothing is said here of missions that return by themselves
MissionFinished == current >= 0 /\ reached = Last

Finish ==
    /\ MissionFinished /\ Go("finish", "rtl")
    /\ UNCHANGED <<vehicleVars, commandVars, link, actionVars, offboardVars, sent, missionVars>>

Disarmed ==
    /\ ~armed /\ Go("disarmed", "done")
    /\ UNCHANGED <<vehicleVars, commandVars, link, actionVars, offboardVars, sent, missionVars>>

\* the callback of register_on_timeout
TimedOut ==
    /\ ~Ended /\ pc' = "lost"
    /\ UNCHANGED <<vehicleVars, commandVars, link, actionVars, offboardVars, sent, missionVars>>

-----------------------------------------------------------------------------
(* The mission: the vehicle's part, and MissionImpl's handlers             *)

\* the vehicle works off a message, says so once, and says where it is now
FlyOn ==
    /\ mode = "mission" /\ item <= Last
    /\ item' = item + 1 /\ flown' = (flown \/ item = Last)
    /\ Post(<<[type |-> "reached", value |-> item],
              [type |-> "current", value |-> IF item = Last THEN 0 ELSE item + 1]>>)
    /\ UNCHANGED <<vehicleVars, commandVars, actionVars, offboardVars, pc, sent,
                   current, reached, wantToPause, unheard>>

Progress(cur, last) ==
    wantToPause' = (wantToPause \/ cur >= Second \/ (cur >= 0 /\ last = Last))

Current ==
    /\ Receives("current")
    /\ current' = Head(link).value /\ reached' = reached
    /\ Progress(current', reached)
    /\ UNCHANGED <<vehicleVars, commandVars, actionVars, offboardVars, pc, sent, item, flown, unheard>>

Reached ==
    /\ Receives("reached")
    /\ reached' = Head(link).value /\ current' = current
    /\ Progress(current, reached')
    /\ UNCHANGED <<vehicleVars, commandVars, actionVars, offboardVars, pc, sent, item, flown, unheard>>

LoseOnLink ==
    /\ Lose
    /\ unheard' = (unheard \/ Head(link).type \in {"reached", "current"})
    /\ UNCHANGED <<actionVars, offboardVars, pc, sent, item, flown, current, reached, wantToPause>>
-----------------------------------------------------------------------------


Elsewhere == UNCHANGED <<pc, sent, missionVars>>

FlightNext ==
    \/ Upload \/ AskAction \/ ActionAnswers
    \/ \E stage \in DOMAIN Sets : SetMode(stage) \/ ModeSet(stage)
    \/ NoSetpointSet \/ WaitToPause \/ Setpoint \/ Leave \/ Finish \/ Disarmed \/ TimedOut
    \/ Report /\ UNCHANGED <<actionVars, offboardVars>> /\ Elsewhere
    \/ Starve /\ UNCHANGED <<actionVars, offboardVars>> /\ Elsewhere
    \/ TakeOver /\ UNCHANGED <<actionVars, offboardVars>> /\ Elsewhere
    \/ TakenOff /\ UNCHANGED <<actionVars, offboardVars>> /\ Elsewhere
    \/ TouchDown /\ UNCHANGED <<actionVars, offboardVars>> /\ Elsewhere
    \/ \E c \in Client : (Obey(c) \/ Refuse(c)) /\ UNCHANGED <<actionVars, offboardVars>> /\ Elsewhere
    \/ Tick /\ UNCHANGED actionVars /\ Elsewhere
    \/ SendVelocity /\ UNCHANGED actionVars /\ Elsewhere
    \/ Silence /\ UNCHANGED actionVars /\ Elsewhere
    \/ Heartbeat /\ UNCHANGED actionVars /\ Elsewhere
    \/ SendStep("action") /\ UNCHANGED offboardVars /\ Elsewhere
    \/ TakeResult("action") /\ UNCHANGED offboardVars /\ Elsewhere
    \/ ExtendedSysState /\ UNCHANGED offboardVars /\ Elsewhere
    \/ FlyOn \/ Current \/ Reached \/ LoseOnLink

FlightSpec == FlightInit /\ [][FlightNext]_flightVars

\* The program and the plugins' threads run; the vehicle answers commands, flies its
\* mission and lands.  It need not report anything periodically.
Main ==
    \/ Upload \/ AskAction \/ ActionAnswers
    \/ \E stage \in DOMAIN Sets : SetMode(stage) \/ ModeSet(stage)
    \/ NoSetpointSet \/ WaitToPause \/ Setpoint \/ Leave \/ Finish \/ Disarmed

Handlers ==
    \/ (Heartbeat /\ UNCHANGED actionVars /\ Elsewhere)
    \/ (ExtendedSysState /\ UNCHANGED offboardVars /\ Elsewhere)
    \/ Current \/ Reached

FlightFairSpec ==
    /\ FlightSpec
    /\ WF_flightVars(Main) /\ WF_flightVars(Handlers) /\ WF_flightVars(FlyOn)
    /\ WF_flightVars(SendStep("action") /\ UNCHANGED offboardVars /\ Elsewhere)
    /\ WF_flightVars(TakeResult("action") /\ UNCHANGED offboardVars /\ Elsewhere)
    /\ \A c \in Client :
          WF_flightVars((Obey(c) \/ Refuse(c)) /\ UNCHANGED <<actionVars, offboardVars>> /\ Elsewhere)
    /\ WF_flightVars(TouchDown /\ UNCHANGED <<actionVars, offboardVars>> /\ Elsewhere)

-----------------------------------------------------------------------------
(* Properties                                                              *)

FlightTypeOK ==
    /\ VehicleTypeOK /\ ActionTypeOK /\ OffboardTypeOK
    /\ pc \in DOMAIN Sets \cup {Waits[stage] : stage \in DOMAIN Sets} \cup Asking
            \cup {"upload", "wait", "setpoint", "fly", "finish", "disarmed", "done", "failed", "lost",
             "silent"}
    /\ sent \in 0..Setpoints /\ item \in 0..(Last + 1)
    /\ current \in -1..Last /\ reached \in -1..Last
    /\ {flown, wantToPause, unheard} \subseteq BOOLEAN

\* The program sends the vehicle home only when the vehicle has flown the mission
\* just uploaded to its end, whatever progress it had heard of before.
RtlAfterMission == pc \in {"rtl", "disarmed", "done"} => flown

\* The flight ends, well or with an error, with three exceptions: the pilot takes over;
\* a mission message is lost, which the vehicle sends only once; the upload of the mission
\* times out, of which main() is not told (offboard_velocity.cpp:377).
UploadIsSilent == pc = "silent"
FlightEnds == <>(Ended \/ pilot \/ unheard \/ UploadIsSilent)

===============================================================================
