------------------------------ MODULE Calibration ------------------------------
(***************************************************************************)
(* CalibrationImpl: one calibration at a time.  It begins with a command,  *)
(* and what becomes of it is read in the vehicle's status texts; both may  *)
(* end it.  Callers are numbered in the order of their calls.              *)
(***************************************************************************)
EXTENDS Vehicle

VARIABLES
    armedSeen,    \* SystemImpl::_armed, from the last heartbeat
    calibrating,  \* the caller in _calibration_callback, 0 for none: _state is not NONE
    callers,      \* history: calls of calibrate_*_async
    ended,        \* history: the callers that were told of an end, or of BUSY
    commanded     \* the callers whose command waits in the command sender, in order

calibrationVars == <<armedSeen, calibrating, callers, ended, commanded>>

CalibrationInit ==
    /\ armedSeen = FALSE /\ calibrating = 0 /\ callers = 0 /\ ended = {} /\ commanded = <<>>

\* calibrate_gyro_async, ..._accelerometer_, ..._magnetometer_, ..._gimbal_accelerometer_.
\* The failure for an armed vehicle goes to the caller whose calibration is under way.
CalibrateArmed ==
    /\ armedSeen
    /\ callers' = callers + 1
    /\ ended' = ended \cup ({calibrating} \ {0})
    /\ UNCHANGED <<armedSeen, calibrating, commanded>>

CalibrateBusy ==
    /\ ~armedSeen /\ calibrating # 0
    /\ callers' = callers + 1
    /\ ended' = ended \cup {callers'}
    /\ UNCHANGED <<armedSeen, calibrating, commanded>>

Calibrate ==
    /\ ~armedSeen /\ calibrating = 0
    /\ callers' = callers + 1
    /\ calibrating' = callers'
    /\ commanded' = Append(commanded, callers')
    /\ UNCHANGED <<armedSeen, ended>>

\* (a faulty variant, for the properties: the callback stays)
EndKeepsCaller ==
    /\ ended' = ended \cup {calibrating}
    /\ UNCHANGED calibrating

End ==
    /\ ended' = ended \cup {calibrating}
    /\ calibrating' = 0

\* command_result_callback: it does not know whose command has the result
CommandResult(r) ==
    /\ commanded' = Tail(commanded)
    /\ IF r = "failure" /\ calibrating # 0 THEN End ELSE UNCHANGED <<calibrating, ended>>
    /\ UNCHANGED <<armedSeen, callers>>

\* process_statustext: done, failed and cancelled end a calibration
Statustext(text) ==
    /\ IF text = "end" /\ calibrating # 0 THEN End ELSE UNCHANGED <<calibrating, ended>>
    /\ UNCHANGED <<armedSeen, callers, commanded>>

HeartbeatArmed(value) ==
    armedSeen' = value /\ UNCHANGED <<calibrating, callers, ended, commanded>>
===============================================================================
