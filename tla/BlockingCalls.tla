----------------------------- MODULE BlockingCalls -----------------------------
(***************************************************************************)
(* Components whose callers wait for an answer, for a lock or for each     *)
(* other: the requests to the camera, the queue of the callback threads,   *)
(* the serial port library and the gRPC backend.  They share no state;     *)
(* "component" says which is looked at.                                    *)
(***************************************************************************)
EXTENDS Camera, WorkQueue, SerialPort, Backend

VARIABLE component

callVars == <<cameraVars, queueVars, serialVars, backendVars, component>>

Init ==
    /\ CameraInit /\ QueueInit /\ SerialInit /\ BackendInit
    /\ component \in {"camera", "queue", "serial", "backend"}
    \* the others are not looked at: one initial state of each is enough
    /\ component # "camera" => cameraTopic = "mode"
    /\ component # "queue" => ~loader
    /\ component # "serial" => platform = [os |-> "unix", any_baud |-> TRUE]

CameraStep ==
    component = "camera" /\ CameraNext /\ UNCHANGED <<queueVars, serialVars, backendVars, component>>
QueueStep ==
    component = "queue" /\ QueueNext /\ UNCHANGED <<cameraVars, serialVars, backendVars, component>>
PortStep ==
    component = "serial" /\ SerialNext /\ UNCHANGED <<cameraVars, queueVars, backendVars, component>>
BackendStep ==
    component = "backend" /\ BackendNext /\ UNCHANGED <<cameraVars, queueVars, serialVars, component>>

Next == CameraStep \/ QueueStep \/ PortStep \/ BackendStep

Spec == Init /\ [][Next]_callVars

\* Threads go on, commands have their results and timers run out: the timeout handler and
\* the threads of the pool serve what is due.  (Steps of one disjunction are never possible
\* at the same time.)
CameraGoesOn ==
    /\ WF_cameraVars(component = "camera" /\ FireTimer)
    /\ WF_cameraVars(component = "camera" /\ (TimedOut \/ StreamTimedOut))
    /\ WF_cameraVars(component = "camera" /\ (CheckStatus \/ StreamResult))
    /\ \A n \in Request :
          WF_cameraVars(component = "camera" /\ (RequestStatus(n) \/ EnterStream(n)))
    /\ WF_cameraVars(component = "camera" /\ (ModeResult \/ StatusResult))
    /\ WF_cameraVars(component = "camera" /\ (StreamStarted \/ StreamStopped \/ WaitOver))
    /\ WF_cameraVars(component = "camera" /\ OtherResult)

\* Threads run, and a command is answered.  Nobody has to submit a job or to stop.
ThreadsGoOn ==
    /\ \A w \in PoolWorkers : WF_queueVars(component = "queue" /\ w \in Threads /\ Work(w))
    /\ WF_queueVars(component = "queue" /\ SubmitResult)
    /\ WF_queueVars(component = "queue" /\ (StopOther \/ Joined))

\* A call of the serial library goes on, with or without bytes.
PortGoesOn ==
    /\ \A t \in PortUsers : WF_serialVars(component = "serial" /\ SerialStep(t))
    /\ WF_serialVars(component = "serial" /\ (SetPortClose \/ SetPortOpen))

\* The vehicle has news of the topics, and the pool calls callbacks in turn.
BackendGoesOn ==
    /\ \A t \in Streams \ TelemetryStreams :
          SF_backendVars(component = "backend" /\ \E w \in PoolThread : Notify(w, t))
    /\ \A w \in PoolThread :
          /\ WF_backendVars(component = "backend" /\ Write(w))
          /\ WF_backendVars(component = "backend" /\ CloseStream(w))
    /\ \A c \in RpcCall :
          WF_backendVars(component = "backend"
                            /\ (StreamReturns(c) \/ UnaryReturns(c)))

FairSpec == Spec /\ CameraGoesOn /\ ThreadsGoOn /\ PortGoesOn /\ BackendGoesOn

-----------------------------------------------------------------------------

TypeOK == CameraTypeOK /\ QueueTypeOK /\ SerialTypeOK /\ BackendTypeOK

\* Everyone who waits goes on in the end: callbacks and threads of the pool, callers of
\* the camera, callers of the serial port, and the threads of remote calls whose client
\* has gone (see WorkQueue, Camera, SerialPort and Backend): again and again, nobody
\* waits at all.
Served == PoolServes /\ RequestsEnd /\ PortCallsReturn /\ StreamsEnd
WaitingEnds == ~Served ~> Served
===============================================================================
