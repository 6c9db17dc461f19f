-------------------------------- MODULE Backend --------------------------------
(***************************************************************************)
(* The gRPC backend: it waits for a system, then serves remote calls.      *)
(* A unary call waits in the plugin, or on a promise that its callback     *)
(* sets.  The mission plugin has one place for the callback of uploads and *)
(* changes of the current item, and does not clear it when it has called   *)
(* it (see MissionTransfer for the messages behind the results).           *)
(* A subscription leaves a callback in the plugin, which has one place per *)
(* topic, and its thread waits on a promise that the callback sets when    *)
(* the client has gone.                                                    *)
(* The callbacks refer to variables of the stack of the call's thread.     *)
(***************************************************************************)
EXTENDS Integers, FiniteSets

CONSTANTS
    RpcCall,     \* remote calls
    Streams,     \* topics that are subscribed
    PoolThread,  \* threads that run user callbacks
    MaxSystems,  \* bound: systems discovered
    MaxResults   \* bound: results for one call

PositionStreams == {"position", "health", "home"}
StateStreams == {"in_air", "armed", "gps_info", "battery", "flight_mode"}
AttitudeStreams == {"quaternion", "euler", "camera_quaternion", "camera_euler"}
LinkStreams == {"ground_speed", "rc_status"}
TelemetryStreams == PositionStreams \cup StateStreams \cup AttitudeStreams \cup LinkStreams

ModeStreams == {"mode"}
VideoStreams == {"video_stream_info"}
CaptureStreams == {"capture_info"}
StatusStreams == {"camera_status"}
SettingStreams == {"current_settings", "possible_setting_options"}
CameraStreams ==
    ModeStreams \cup VideoStreams \cup CaptureStreams \cup StatusStreams \cup SettingStreams

ProgressStreams == {"progress"}

ASSUME BackendAssumption ==
    /\ Streams \subseteq TelemetryStreams \cup CameraStreams \cup ProgressStreams
    /\ MaxSystems \in Nat /\ MaxResults \in Nat
    /\ "no call" \notin RpcCall /\ "free" \notin PoolThread

VARIABLES
    backend,      \* "off", "waiting", "deaf" or "serving"
    systems,      \* discovered
    discovery,    \* how often the discovery promise was set
    rpc,          \* per remote call: its topic, how far, is the client gone, how often
                  \* its promise was set, and is_finished
    place,        \* per topic: the call whose callback the plugin has
    writing,      \* per pool thread: the call whose callback it runs, and how far
    subscribers,  \* the holder of _subscribe_mutex of the camera service
    hasStopped,   \* the telemetry service's stop promise was set
    missionActivity,  \* _activity.state of the mission plugin
    requester,        \* history: the call that set it last
    resultCallback, itemsCallback,  \* the calls whose callbacks the mission plugin keeps
    reports,          \* per call: how often its callback waits to be called by the pool
    again             \* history: the calls whose callback may be called again, see below

missionSlots == <<missionActivity, requester, resultCallback, itemsCallback>>
unaryVars == <<missionSlots, reports, again>>
serviceVars == <<backend, systems, discovery, place, writing, subscribers, hasStopped>>

backendVars ==
    <<backend, systems, discovery, rpc, place, writing, subscribers, hasStopped, unaryVars>>

NoRpc == "no call"
NoWrite == [of |-> NoRpc, step |-> "none"]
NewRpc == [topic |-> "none", step |-> "new", gone |-> FALSE, set |-> 0, finished |-> FALSE]

BackendInit ==
    /\ backend = "off" /\ systems = 0 /\ discovery = 0
    /\ rpc = [c \in RpcCall |-> NewRpc] /\ place = [t \in Streams |-> NoRpc]
    /\ writing = [w \in PoolThread |-> NoWrite] /\ subscribers = "free" /\ hasStopped = FALSE
    /\ missionActivity = "none" /\ requester = NoRpc
    /\ resultCallback = NoRpc /\ itemsCallback = NoRpc
    /\ reports = [c \in RpcCall |-> 0] /\ again = {}

-----------------------------------------------------------------------------
(* Starting: ConnectionInitiator, then GRPCServer.                         *)

\* connect: the result of start is not looked at, so that without a connection the
\* backend waits for ever
Connect ==
    /\ backend = "off"
    /\ backend' \in {"waiting", "deaf"}
    /\ UNCHANGED <<systems, discovery, rpc, place, writing, subscribers, hasStopped, unaryVars>>

\* the callback of register_on_discover, for every system
Discover ==
    /\ backend \in {"waiting", "serving"} /\ systems < MaxSystems
    /\ systems' = systems + 1
    /\ discovery' = IF discovery = 0 THEN 1 ELSE discovery
    /\ UNCHANGED <<backend, rpc, place, writing, subscribers, hasStopped, unaryVars>>

\* startGRPCServer, when wait() has returned
Serve ==
    /\ backend = "waiting" /\ discovery > 0
    /\ backend' = "serving"
    /\ UNCHANGED <<systems, discovery, rpc, place, writing, subscribers, hasStopped, unaryVars>>

-----------------------------------------------------------------------------
(* Unary calls                                                             *)

\* Getters and setters of fields return at once; action and camera wait in the plugin; a
\* mission that is started or paused and a setting of the camera have one result, whose
\* callback is dropped then; the others leave a callback in the mission plugin.
MissionCalls == {"upload", "current", "download"}
UnaryKinds == {"at once", "in plugin", "one result"} \cup MissionCalls

ActivityOf(kind) == CASE kind = "upload" -> "set" [] kind = "current" -> "current" [] OTHER -> "get"

\* a method of the action, camera or mission service
UnaryBegin(c) ==
    /\ backend = "serving" /\ rpc[c].step = "new"
    /\ \E k \in UnaryKinds \ MissionCalls :
          rpc' = [rpc EXCEPT ![c].topic = k, ![c].step = IF k = "at once" THEN "returned"
                                                        ELSE "waiting"]
    /\ UNCHANGED <<serviceVars, unaryVars>>

\* upload_mission_async, set_current_mission_item_async, download_mission_async: they look
\* whether the plugin is busy; if it is, or a message is not sent, the callback is called
\* and not kept
MissionBegin(c) ==
    /\ backend = "serving" /\ rpc[c].step = "new"
    /\ \E k \in MissionCalls, next \in {"checked", "waiting"} :
          /\ next = "checked" => missionActivity = "none"
          /\ rpc' = [rpc EXCEPT ![c].topic = k, ![c].step = next]
          /\ reports' = IF next = "waiting" THEN [reports EXCEPT ![c] = @ + 1] ELSE reports
    /\ UNCHANGED <<serviceVars, missionSlots, again>>

\* the message is sent, then the activity set, then the callback stored
SetActivity(c) ==
    /\ rpc[c].step = "checked"
    /\ rpc' = [rpc EXCEPT ![c].step = "storing"]
    /\ missionActivity' = ActivityOf(rpc[c].topic) /\ requester' = c
    /\ UNCHANGED <<serviceVars, resultCallback, itemsCallback, reports, again>>

StoreCallback(c) ==
    /\ rpc[c].step = "storing"
    /\ rpc' = [rpc EXCEPT ![c].step = "waiting"]
    /\ IF rpc[c].topic = "download"
       THEN itemsCallback' = c /\ UNCHANGED resultCallback
       ELSE resultCallback' = c /\ UNCHANGED itemsCallback
    /\ UNCHANGED <<serviceVars, missionActivity, requester, reports, again>>

\* report_mission_result: a kept callback goes to the pool, if there is one.  It may come
\* again if the activity goes on, or is another call's.
ReportTo(c, goesOn) ==
    /\ c # NoRpc => reports[c] + rpc[c].set < MaxResults
    /\ reports' = [d \in RpcCall |-> IF d = c THEN reports[d] + 1 ELSE reports[d]]
    /\ again' = again \cup (IF c # NoRpc /\ (goesOn \/ c # requester) THEN {c} ELSE {})

\* faulty variant: an acknowledged mission leaves the activity as it is
MissionAckStays(accepted) ==
    /\ missionActivity = "set"
    /\ ReportTo(resultCallback, ~accepted)
    /\ UNCHANGED <<serviceVars, missionSlots, rpc>>

\* process_mission_ack: a refused mission leaves the activity as it is
MissionAck(accepted) ==
    /\ missionActivity = "set"
    /\ missionActivity' = IF accepted THEN "none" ELSE "set"
    /\ ReportTo(resultCallback, ~accepted)
    /\ UNCHANGED <<serviceVars, requester, resultCallback, itemsCallback, rpc>>

\* process_mission_current
CurrentSet ==
    /\ missionActivity = "current"
    /\ missionActivity' = "none"
    /\ ReportTo(resultCallback, FALSE)
    /\ UNCHANGED <<serviceVars, requester, resultCallback, itemsCallback, rpc>>

\* assemble_mission_items (with a first item that is no waypoint it returns early, and
\* neither the callback is called nor the activity ended)
Downloaded ==
    /\ missionActivity = "get"
    /\ missionActivity' = "none"
    /\ ReportTo(itemsCallback, FALSE)
    /\ UNCHANGED <<serviceVars, requester, resultCallback, itemsCallback, rpc>>

\* process_timeout: an upload ends without a result, a download that is given up is
\* reported to the callback kept from the last upload or change of the current item
MissionTimeout ==
    /\ missionActivity \in {"set", "get"}
    /\ missionActivity' = "none"
    /\ IF missionActivity = "get" THEN ReportTo(resultCallback, FALSE)
       ELSE UNCHANGED <<reports, again>>
    /\ UNCHANGED <<serviceVars, requester, resultCallback, itemsCallback, rpc>>

\* the result of a command or of a parameter, which come once (see MavlinkCommands and
\* MavlinkParameters)
OneResult(c) ==
    /\ rpc[c].step = "waiting" /\ rpc[c].topic = "one result"
    /\ reports[c] + rpc[c].set = 0
    /\ reports' = [reports EXCEPT ![c] = @ + 1]
    /\ UNCHANGED <<serviceVars, missionSlots, again, rpc>>

\* a thread of the pool runs the callback, which fills in the response and sets the
\* promise; if the method has returned both are gone (undefined, and counted all the same)
UnaryCallback(c) ==
    /\ reports[c] > 0
    /\ reports' = [reports EXCEPT ![c] = @ - 1]
    /\ rpc' = [rpc EXCEPT ![c].set = @ + 1]
    /\ UNCHANGED <<serviceVars, missionSlots, again>>

\* the method returns, from the plugin or when its promise was set
UnaryReturns(c) ==
    /\ rpc[c].step = "waiting"
    /\ rpc[c].topic = "in plugin" \/ rpc[c].set > 0
    /\ rpc' = [rpc EXCEPT ![c].step = "returned"]
    /\ UNCHANGED <<serviceVars, unaryVars>>

-----------------------------------------------------------------------------
(* Streams                                                                 *)

\* a subscription replaces the one before it, whose thread goes on waiting
SubscribeTopic(c) ==
    /\ backend = "serving" /\ rpc[c].step = "new"
    /\ \E t \in Streams :
          /\ rpc' = [rpc EXCEPT ![c].topic = t, ![c].step = "open"]
          /\ place' = [place EXCEPT ![t] = c]
    /\ UNCHANGED <<backend, systems, discovery, writing, subscribers, hasStopped, unaryVars>>

ClientGone(c) ==
    /\ rpc[c].step = "open" /\ ~rpc[c].gone
    /\ rpc' = [rpc EXCEPT ![c].gone = TRUE]
    /\ UNCHANGED <<backend, systems, discovery, place, writing, subscribers, hasStopped, unaryVars>>

\* the plugin has news: a thread of the pool runs the callback, that of the mission
\* while another may run it too.  A callback whose call has returned uses a stack that
\* is gone: what happens then is undefined, and not followed here
Notify(w, t) ==
    /\ writing[w] = NoWrite /\ place[t] # NoRpc /\ rpc[place[t]].step = "open"
    /\ writing' = [writing EXCEPT ![w] = [of |-> place[t], step |-> "write"]]
    /\ UNCHANGED <<backend, systems, discovery, rpc, place, subscribers, hasStopped, unaryVars>>

NeedsLock(w) == rpc[writing[w].of].topic \in CameraStreams
LockIsFree(w) == NeedsLock(w) => subscribers = "free"

\* the callback writes, and looks whether it failed for the first time; a callback of
\* telemetry does not look
Write(w) ==
    /\ writing[w].step = "write" /\ LockIsFree(w)
    /\ LET c == writing[w].of
           closes == rpc[c].gone /\ ~rpc[c].finished /\ rpc[c].topic \notin TelemetryStreams
       IN  /\ writing' = [writing EXCEPT ![w] = IF closes THEN [@ EXCEPT !.step = "close"]
                                                ELSE NoWrite]
           /\ subscribers' = IF closes /\ NeedsLock(w) THEN w ELSE subscribers
    /\ UNCHANGED <<backend, systems, discovery, rpc, place, hasStopped, unaryVars>>

\* is_finished and the promise, whose thread may go on
CloseStream(w) ==
    /\ writing[w].step = "close"
    /\ rpc' = [rpc EXCEPT ![writing[w].of].finished = TRUE, ![writing[w].of].set = @ + 1]
    /\ writing' = [writing EXCEPT ![w] = NoWrite]
    /\ subscribers' = IF subscribers = w THEN "free" ELSE subscribers
    /\ UNCHANGED <<backend, systems, discovery, place, hasStopped, unaryVars>>

\* the thread of the call: its promise was set, or telemetry's stop promise
StreamReturns(c) ==
    /\ rpc[c].step = "open"
    /\ \/ rpc[c].set > 0
       \/ /\ hasStopped
          /\ rpc[c].topic \in TelemetryStreams
    /\ rpc' = [rpc EXCEPT ![c].step = "returned"]
    /\ UNCHANGED <<backend, systems, discovery, place, writing, subscribers, hasStopped, unaryVars>>

\* TelemetryServiceImpl::stop
StopTelemetry ==
    /\ backend = "serving" /\ ~hasStopped
    /\ hasStopped' = TRUE
    /\ UNCHANGED <<backend, systems, discovery, rpc, place, writing, subscribers, unaryVars>>

BackendNext ==
    \/ Connect \/ Discover \/ Serve \/ StopTelemetry
    \/ (\E accepted \in BOOLEAN : MissionAck(accepted))
    \/ CurrentSet \/ Downloaded \/ MissionTimeout
    \/ \E c \in RpcCall :
          \/ UnaryBegin(c) \/ MissionBegin(c) \/ SetActivity(c) \/ StoreCallback(c)
          \/ OneResult(c) \/ UnaryCallback(c) \/ UnaryReturns(c)
          \/ SubscribeTopic(c) \/ ClientGone(c) \/ StreamReturns(c)
    \/ \E w \in PoolThread : Write(w) \/ CloseStream(w) \/ \E t \in Streams : Notify(w, t)

BackendTypeOK ==
    /\ backend \in {"off", "waiting", "deaf", "serving"} /\ systems \in 0..MaxSystems
    /\ discovery \in 0..MaxSystems /\ hasStopped \in BOOLEAN
    /\ \A t \in Streams : place[t] \in RpcCall \cup {NoRpc}
    /\ \A c \in RpcCall : rpc[c].step \in {"new", "checked", "storing", "waiting", "open", "returned"}
    /\ \A c \in RpcCall : reports[c] + rpc[c].set \in Nat
    /\ missionActivity \in {"none", "set", "get", "current"}
    /\ {requester, resultCallback, itemsCallback} \subseteq RpcCall \cup {NoRpc}
    /\ again \subseteq RpcCall
    /\ \A w \in PoolThread : writing[w].of \in RpcCall \cup {NoRpc}
    /\ subscribers \in PoolThread \cup {"free"}

-----------------------------------------------------------------------------
\* A std::promise may be set once, and not when the method that owns it has returned; a
\* second time throws in a thread of the pool.  It could be set again by the discovery of
\* more systems, by two callbacks that find the client gone at the same time, and by two
\* results for one request.  Left out are the progress of a mission, whose callback has no
\* lock, and the calls whose callback the mission plugin keeps and calls for what is not
\* their (whole) result: after a refused upload, which leaves the activity as it is, and
\* for the download given up, or the early answer, of another call.
PromisesSetOnce ==
    /\ discovery <= 1
    /\ \A c \in RpcCall \ again : rpc[c].topic \notin ProgressStreams => rpc[c].set <= 1

\* A subscription of camera or mission whose client has gone ends, if there is news,
\* unless another subscription took its place.
StreamsEnd ==
    \A c \in RpcCall :
       rpc[c].step = "open" /\ rpc[c].gone /\ rpc[c].topic \notin TelemetryStreams =>
          \A t \in Streams : place[t] # c
===============================================================================
