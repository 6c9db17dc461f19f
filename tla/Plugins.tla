-------------------------------- MODULE Plugins --------------------------------
(***************************************************************************)
(* The action, offboard, follow-me, calibration and log-files plugins with *)
(* a user who calls one of them in any way, and a vehicle that takes part: *)
(* it obeys or refuses, reports its state, and a pilot may take over.      *)
(***************************************************************************)
EXTENDS Action, Offboard, FollowMe, Calibration, LogFiles

CONSTANT MaxCalls    \* bound: calls to the flight plugins

ASSUME PluginsAssumption == MaxCalls \in Nat /\ "calibration" \in Client

VARIABLES
    user,     \* the plugin that is used
    calls,
    working,  \* the vehicle: calibrations it was told to do
    missed    \* history: the end of a calibration was lost on the way

userVars == <<user, calls, working, missed>>
vars == <<vehicleVars, commandVars, link, actionVars, offboardVars, followVars,
          calibrationVars, logVars, userVars>>

Init ==
    /\ VehicleInit /\ ActionInit /\ OffboardInit /\ FollowInit /\ CalibrationInit /\ LogInit
    /\ user \in {"action", "offboard", "follow", "calibration", "logs"}
    /\ calls = 0 /\ working = 0 /\ missed = FALSE

\* what each step leaves alone
SaveAction == UNCHANGED <<offboardVars, followVars, calibrationVars, logVars, working, missed, user>>
SaveOffboard == UNCHANGED <<actionVars, followVars, calibrationVars, logVars, working, missed, user>>
SaveFollow == UNCHANGED <<actionVars, offboardVars, calibrationVars, logVars, working, missed, user>>
SaveCalibration == UNCHANGED <<actionVars, offboardVars, followVars, logVars, user>>
SaveLogs ==
    UNCHANGED <<vehicleVars, commandVars, link, actionVars, offboardVars, followVars,
                calibrationVars, userVars>>
SaveVehicle ==
    UNCHANGED <<actionVars, offboardVars, followVars, calibrationVars, logVars, userVars>>

Calls(plugin) == user = plugin /\ calls < MaxCalls /\ calls' = calls + 1

-----------------------------------------------------------------------------
(* The action plugin                                                       *)

CallAction ==
    /\ Calls("action")
    /\ \E op \in Operations : Begin(op) \/ Deny(op)
    /\ UNCHANGED <<vehicleVars, link>> /\ SaveAction

ActionReturns ==
    /\ done # "none" /\ done' = "none"
    /\ UNCHANGED <<vehicleVars, commandVars, link, known, inAir, operation, step, calls>>
    /\ SaveAction

ActionWorks ==
    /\ \/ SendStep("action") \/ TakeResult("action") \/ DenyInPassing
    /\ UNCHANGED calls /\ SaveAction

LandedState == ExtendedSysState /\ UNCHANGED calls /\ SaveAction

-----------------------------------------------------------------------------
(* The offboard plugin                                                     *)

CallSetVelocity ==
    /\ Calls("offboard")
    /\ \E f \in Frames : SetVelocity(f)
    /\ UNCHANGED <<mode, armed, air, pilot, commandVars, link>> /\ SaveOffboard

\* without a setpoint: NO_SETPOINT_SET
StartOffboard ==
    /\ Calls("offboard")
    /\ IF frame # "none" THEN Command("offboard", "offboard") ELSE UNCHANGED commandVars
    /\ UNCHANGED <<vehicleVars, link, offboardVars>> /\ SaveOffboard

StopOffboard ==
    /\ Calls("offboard")
    /\ StopSending
    /\ Command("offboard", "hold")
    /\ UNCHANGED <<vehicleVars, link>> /\ SaveOffboard

OffboardReturns ==
    /\ \E r \in {"success", "failure"} : Result("offboard", r)
    /\ UNCHANGED <<vehicleVars, link, offboardVars, calls>> /\ SaveOffboard

OffboardSends == Tick /\ UNCHANGED calls /\ SaveOffboard
OffboardSent == SendVelocity /\ UNCHANGED calls /\ SaveOffboard
OffboardSilence == Silence /\ UNCHANGED calls /\ SaveOffboard

-----------------------------------------------------------------------------
(* The follow-me plugin                                                    *)

CallFollow ==
    /\ Calls("follow") /\ ~starting /\ locating["user"] = "no"
    /\ \/ SetTargetLocation /\ UNCHANGED commandVars
       \/ Starting /\ Command("follow", "follow")
       \/ Stopping /\ Command("follow", "hold")
    /\ UNCHANGED <<vehicleVars, link>> /\ SaveFollow

FollowReturns ==
    /\ \E r \in {"success", "failure"} :
          /\ Result("follow", r)
          /\ IF starting THEN Started(r) ELSE UNCHANGED followVars
    /\ UNCHANGED <<vehicleVars, link, calls>> /\ SaveFollow

FollowTick ==
    /\ TickLocation
    /\ UNCHANGED <<vehicleVars, commandVars, link, calls>> /\ SaveFollow

FollowSends ==
    /\ \E t \in Locators : CheckMode(t) \/ SendLocation(t)
    /\ UNCHANGED <<vehicleVars, commandVars, link, calls>> /\ SaveFollow

-----------------------------------------------------------------------------
(* The calibration plugin                                                  *)

CallCalibrate ==
    /\ Calls("calibration")
    /\ CalibrateArmed \/ CalibrateBusy \/ Calibrate
    /\ UNCHANGED <<vehicleVars, commandVars, link, working, missed>> /\ SaveCalibration

SendCalibrate ==
    /\ commanded # <<>>
    /\ Command("calibration", "calibrate")
    /\ UNCHANGED <<vehicleVars, link, calibrationVars, calls, working, missed>> /\ SaveCalibration

CalibrateResult ==
    /\ \E r \in {"success", "failure"} : Result("calibration", r) /\ CommandResult(r)
    /\ UNCHANGED <<vehicleVars, link, calls, working, missed>> /\ SaveCalibration

\* the vehicle calibrates, also without being seen to have accepted
ObeyCalibrate ==
    /\ Obey("calibration")
    /\ working' = working + 1
    /\ UNCHANGED <<calibrationVars, calls, missed>> /\ SaveCalibration

Calibrated ==
    /\ working > 0
    /\ working' = working - 1
    /\ Post(<<[type |-> "text", value |-> "end"]>>)
    /\ UNCHANGED <<vehicleVars, commandVars, calibrationVars, calls, missed>> /\ SaveCalibration

ProcessStatustext ==
    /\ Receives("text")
    /\ Statustext(Head(link).value)
    /\ UNCHANGED <<vehicleVars, commandVars, calls, working, missed>> /\ SaveCalibration

-----------------------------------------------------------------------------
(* The vehicle                                                             *)

ObeyOrRefuse ==
    /\ \/ \E c \in Client \ {"calibration"} : Obey(c)
       \/ \E c \in Client : Refuse(c)
    /\ SaveVehicle

\* somebody else arms it, between two calibrations; and it disarms itself
Arms ==
    /\ user = "calibration" /\ ~air
    /\ armed' = ~armed
    /\ UNCHANGED <<mode, air, fed, pilot, commandVars, link>> /\ SaveVehicle

\* bound: nothing is reported while logs are read
Reports == user # "logs" /\ Report /\ SaveVehicle
Starves == Starve /\ SaveVehicle
TakesOver == TakeOver /\ SaveVehicle
HasTakenOff == TakenOff /\ SaveVehicle
TouchesDown == TouchDown /\ SaveVehicle

\* a heartbeat is for all of them
HeartbeatForAll ==
    /\ Heartbeat
    /\ FollowHeartbeat(Head(link).value) /\ HeartbeatArmed(Head(link).armed)
    /\ UNCHANGED <<actionVars, logVars, userVars>>

LoseMessage ==
    /\ Lose
    /\ missed' = (missed \/ Head(link).type = "text")
    /\ UNCHANGED <<actionVars, offboardVars, followVars, calibrationVars, logVars, user, calls, working>>

-----------------------------------------------------------------------------

ListLogs == user = "logs" /\ GetEntries /\ SaveLogs
ListTimesOut == (ListEnded \/ ListAgain) /\ SaveLogs
DownloadLog == (\E l \in LogId : Download(l)) /\ SaveLogs
LogsReceived == ReceiveLogs /\ SaveLogs
LogsTimed == SystemThread /\ SaveLogs
LogsLost == LoseMail /\ SaveLogs

Next ==
    \/ CallAction \/ ActionReturns \/ ActionWorks \/ LandedState
    \/ CallSetVelocity \/ StartOffboard \/ StopOffboard \/ OffboardReturns
    \/ OffboardSends \/ OffboardSent \/ OffboardSilence
    \/ CallFollow \/ FollowReturns \/ FollowTick \/ FollowSends
    \/ CallCalibrate \/ SendCalibrate \/ CalibrateResult \/ ObeyCalibrate \/ Calibrated
    \/ ProcessStatustext
    \/ ObeyOrRefuse \/ Arms \/ Reports \/ Starves \/ TakesOver \/ HasTakenOff \/ TouchesDown
    \/ HeartbeatForAll \/ LoseMessage
    \/ ListLogs \/ ListTimesOut \/ DownloadLog \/ LogsReceived \/ LogsTimed \/ LogsLost

Spec == Init /\ [][Next]_vars

\* Threads run, what arrived is handled, and the vehicle answers commands and ends
\* calibrations.  Nobody has to call anything.
FairSpec ==
    /\ Spec
    /\ WF_vars(LandedState \/ HeartbeatForAll \/ ProcessStatustext)
    /\ WF_vars(OffboardSent) /\ WF_vars(FollowSends) /\ WF_vars(FollowReturns)
    /\ WF_vars(SendCalibrate) /\ WF_vars(CalibrateResult)
    /\ WF_vars(ObeyOrRefuse \/ ObeyCalibrate) /\ SF_vars(Calibrated)
    /\ WF_vars(ListTimesOut) /\ WF_vars(LogsReceived) /\ WF_vars(LogsTimed)

-----------------------------------------------------------------------------
(* Properties                                                              *)

TypeOK ==
    /\ VehicleTypeOK /\ ActionTypeOK /\ OffboardTypeOK /\ FollowTypeOK /\ LogTypeOK
    /\ calls \in 0..MaxCalls /\ working \in 0..MaxCalls /\ missed \in BOOLEAN
    /\ ended \subseteq 1..MaxCalls /\ callers \in 0..MaxCalls /\ calibrating \in 0..MaxCalls

\* Once the vehicle has left a mode, and as long as its heartbeats come through, the
\* messages that belong to the mode stop, although their senders check it before
\* they send and although new targets and setpoints are set.
Heard == []<><<HeartbeatForAll>>_vars
SendingEnds ==
    Heard => /\ <>[](mode # "offboard") => <>[](entries = {} /\ sending = "none")
             /\ <>[](mode # "follow") => <>[](\A t \in Locators : locating[t] # "send")

\* A calibration ends for its plugin, so that another can begin, unless the vehicle's
\* last word on it is lost.
CalibrationEnds == calibrating # 0 ~> calibrating = 0 \/ missed

\* It can end because the plugin never waits for something nobody will say: the command
\* is still to be answered, the vehicle calibrates, or its text is on the way, in
\* whatever order the result of the command, the text and the next call come.
Texts == {i \in DOMAIN link : link[i].type = "text"}
CalibrationUnderWay ==
    calibrating # 0 => commanded # <<>> \/ working > 0 \/ Texts # {} \/ missed

\* What a plugin has begun comes to its end: periodic messages when the mode is over,
\* calibrations, and the list and the downloads of log files (see LogFiles).
PluginsEnd == SendingEnds /\ CalibrationEnds /\ ListEnds /\ DownloadEnds
===============================================================================
