-------------------------------- MODULE Camera --------------------------------
(***************************************************************************)
(* CameraImpl: the requests for the mode, the status and the video stream, *)
(* each a command and a message that answers it, with one callback, one    *)
(* timer and a mutex per kind, and the commands that are just sent.        *)
(* (CameraSettings has the settings.)                                      *)
(*                                                                         *)
(* A behaviour is about one kind, the topic: they share no state.  The     *)
(* result of a command comes on a thread of the callback pool, so the      *)
(* results of two commands in any order.                                   *)
(***************************************************************************)
EXTENDS Integers, FiniteSets

CONSTANTS
    MaxRequests,     \* bound: requests of the user
    MaxMessages,     \* bound: messages of the camera
    MaxOutstanding   \* bound: commands of one kind without a result when a periodic one is sent

ASSUME CameraAssumption ==
    MaxRequests \in Nat /\ MaxMessages \in Nat /\ MaxOutstanding \in Nat \ {0}

VARIABLES
    cameraTopic,
    requests,     \* requests so far; they are numbered
    callback,     \* the request whose callback is set, or 0
    calls,        \* per request: how often its callback was called with a result
    rejected,     \* those told that another is in progress
    sending,      \* requests on their way: the callback is set, or about to be
    armed,        \* the timers, by request; timers of a periodic request: 0
    cookie,       \* the timer that _timeout_cookie names, or none
    firing,       \* timers that ran out and whose callback was not called yet
    outstanding,  \* per command: how often it was sent without a result
    failed,       \* history: a command failed
    received,     \* received_camera_capture_status, received_storage_information
    periodic,     \* the entries of the plugin in the call-every handler
    named,        \* call_every_cookie names one
    watched,  \* the subscription is set
    wiped,        \* history: requests whose callback was overwritten
    camera,       \* the receive thread: "idle", "check" or "stuck"
    available,    \* _video_stream_info.available
    running,      \* _video_stream_info.info.status
    waiter,       \* the thread in a blocking call: where, and for which request
    photos,       \* _capture.sequence
    heard         \* messages so far

requestVars == <<requests, callback, calls, rejected, sending, wiped>>
cameraTimerVars == <<armed, cookie, firing>>
commandedVars == <<outstanding, failed>>
subscriptionVars == <<periodic, named, watched>>
streamVars == <<available, running, waiter>>
cameraVars == <<cameraTopic, requestVars, cameraTimerVars, commandedVars, received, subscriptionVars,
                camera, streamVars, photos, heard>>

Request == 1..MaxRequests
NoTimer == -1
CameraCommands == {"mode", "capture", "storage", "stream", "start", "stop", "other"}

CameraInit ==
    /\ cameraTopic \in {"mode", "status", "stream", "other"}
    /\ requests = 0 /\ callback = 0 /\ calls = [n \in Request |-> 0]
    /\ rejected = {} /\ sending = {} /\ wiped = {}
    /\ armed = {} /\ cookie = NoTimer /\ firing = {}
    /\ outstanding = [c \in CameraCommands |-> 0] /\ failed = FALSE
    /\ received = {} /\ periodic = 0 /\ named = FALSE /\ watched = FALSE
    /\ camera = "idle" /\ available = FALSE /\ running = FALSE
    /\ waiter = [at |-> "out", n |-> 0] /\ photos = 0 /\ heard = 0

\* the callback of a request is called with a final result
CallBack(n) == calls' = IF n = 0 THEN calls ELSE [calls EXCEPT ![n] = @ + 1]

\* send_command_async
Room(cs) == \A c \in cs : outstanding[c] < MaxOutstanding
SendCommands(cs) ==
    outstanding' = [c \in CameraCommands |-> outstanding[c] + IF c \in cs THEN 1 ELSE 0]
TakeResult(c) ==
    /\ outstanding[c] > 0
    /\ outstanding' = [outstanding EXCEPT ![c] = @ - 1]

\* unregister_timeout_handler: nothing, when the timer has gone
Unregister == armed' = armed \ {cookie} /\ UNCHANGED <<cookie, firing>>
Register(n) == armed' = armed \cup {n} /\ cookie' = n /\ UNCHANGED firing

\* the timers: the entry is erased, then its callback called
FireTimer ==
    /\ \E n \in armed : armed' = armed \ {n} /\ firing' = firing \cup {n}
    /\ UNCHANGED <<cameraTopic, requestVars, cookie, commandedVars, received, subscriptionVars,
                   camera, streamVars, photos, heard>>

NewRequest == requests < MaxRequests /\ requests' = requests + 1

-----------------------------------------------------------------------------
(* The mode                                                                *)

\* get_mode_async, under the mutex
GetMode ==
    /\ cameraTopic = "mode" /\ NewRequest
    /\ IF callback # 0
       THEN /\ rejected' = rejected \cup {requests'}
            /\ UNCHANGED <<callback, cameraTimerVars, outstanding>>
       ELSE /\ callback' = requests'
            /\ SendCommands({"mode"})
            /\ Register(requests')
            /\ UNCHANGED rejected
    /\ UNCHANGED <<cameraTopic, calls, sending, wiped, failed, received, subscriptionVars, camera,
                   streamVars, photos, heard>>

\* receive_get_mode_command_result: after a failure the callback stays
ModeResult ==
    /\ TakeResult("mode")
    /\ \/ UNCHANGED <<calls, cameraTimerVars, failed>>
       \/ CallBack(callback) /\ Unregister /\ failed' = TRUE
    /\ UNCHANGED <<cameraTopic, requests, callback, rejected, sending, wiped, received,
                   subscriptionVars, camera, streamVars, photos, heard>>

\* Faulty variant: the callback is called and kept.
ModeReportedKeepsCallback ==
    /\ cameraTopic = "mode" /\ heard < MaxMessages
    /\ heard' = heard + 1
    /\ IF callback = 0
       THEN UNCHANGED <<calls, cameraTimerVars>>
       ELSE CallBack(callback) /\ Unregister
    /\ UNCHANGED <<cameraTopic, requests, callback, rejected, sending, wiped, commandedVars, received,
                   subscriptionVars, camera, streamVars, photos>>

\* process_camera_settings
ModeReported ==
    /\ cameraTopic = "mode" /\ heard < MaxMessages
    /\ heard' = heard + 1
    /\ IF callback = 0
       THEN UNCHANGED <<callback, calls, cameraTimerVars>>
       ELSE CallBack(callback) /\ callback' = 0 /\ Unregister
    /\ UNCHANGED <<cameraTopic, requests, rejected, sending, wiped, commandedVars, received,
                   subscriptionVars, camera, streamVars, photos>>

-----------------------------------------------------------------------------
(* The status                                                              *)

\* get_status_async up to the end of its block: a callback, or 0 for none, which
\* takes the place of one that is set
SetStatusCallback(n) ==
    IF callback # 0 /\ n # 0
    THEN rejected' = rejected \cup {n} /\ UNCHANGED <<callback, wiped>>
    ELSE /\ callback' = n
         /\ wiped' = wiped \cup ({callback} \ {0})
         /\ UNCHANGED rejected

GetStatus ==
    /\ cameraTopic = "status" /\ NewRequest
    /\ SetStatusCallback(requests')
    /\ sending' = sending \cup ({requests'} \ rejected')
    /\ UNCHANGED <<cameraTopic, calls, cameraTimerVars, commandedVars, received, subscriptionVars,
                   camera, streamVars, photos, heard>>

\* the rest of it
RequestStatus(n) ==
    /\ cameraTopic = "status" /\ n \in sending /\ (n = 0 => Room({"capture", "storage"}))
    /\ sending' = sending \ {n}
    /\ SendCommands({"capture", "storage"})
    /\ IF n # 0 THEN Register(n) ELSE UNCHANGED cameraTimerVars
    /\ UNCHANGED <<cameraTopic, requests, callback, calls, rejected, wiped, failed, received,
                   subscriptionVars, camera, streamVars, photos, heard>>

\* the call-every handler
StatusTick ==
    /\ cameraTopic = "status" /\ periodic > 0 /\ 0 \notin sending
    /\ Room({"capture", "storage"})
    /\ SetStatusCallback(0)
    /\ sending' = sending \cup {0}
    /\ UNCHANGED <<cameraTopic, requests, calls, cameraTimerVars, commandedVars, received,
                   subscriptionVars, camera, streamVars, photos, heard>>

\* receive_camera_capture_status_result, receive_storage_information_result
StatusResult ==
    /\ \E c \in {"capture", "storage"} : TakeResult(c)
    /\ \/ UNCHANGED <<callback, calls, failed>>
       \/ CallBack(callback) /\ callback' = 0 /\ failed' = TRUE
    /\ UNCHANGED <<cameraTopic, requests, rejected, sending, wiped, cameraTimerVars, received,
                   subscriptionVars, camera, streamVars, photos, heard>>

\* process_camera_capture_status, process_storage_information: up to check_status
StatusReported ==
    /\ cameraTopic = "status" /\ camera = "idle" /\ heard < MaxMessages
    /\ heard' = heard + 1
    /\ \E part \in {"capture", "storage"} : received' = received \cup {part}
    /\ camera' = "check"
    /\ UNCHANGED <<cameraTopic, requestVars, cameraTimerVars, commandedVars, subscriptionVars,
                   streamVars, photos>>

\* check_status
CheckStatus ==
    /\ camera = "check" /\ camera' = "idle"
    /\ IF received = {"capture", "storage"} /\ callback # 0
       THEN CallBack(callback) /\ callback' = 0 /\ received' = {} /\ Unregister
       ELSE UNCHANGED <<callback, calls, received, cameraTimerVars>>
    /\ UNCHANGED <<cameraTopic, requests, rejected, sending, wiped, commandedVars, subscriptionVars,
                   streamVars, photos, heard>>

\* get_mode_timeout_happened, status_timeout_happened
TimedOut ==
    /\ cameraTopic \in {"mode", "status"} /\ firing # {}
    /\ \E n \in firing : firing' = firing \ {n}
    /\ CallBack(callback) /\ callback' = 0
    /\ UNCHANGED <<cameraTopic, requests, rejected, sending, wiped, armed, cookie, commandedVars,
                   received, subscriptionVars, camera, streamVars, photos, heard>>

\* subscribe_status, subscribe_video_stream_info: a second subscription adds a second
\* entry, and the first one's cookie is lost
SubscribeCamera(on) ==
    /\ cameraTopic \in {"status", "stream"} /\ camera # "stuck"
    /\ NewRequest
    /\ watched' = on
    /\ periodic' = IF on THEN periodic + 1 ELSE IF named THEN periodic - 1 ELSE periodic
    /\ named' = on
    /\ UNCHANGED <<cameraTopic, callback, calls, rejected, sending, wiped, cameraTimerVars,
                   commandedVars, received, camera, streamVars, photos, heard>>

-----------------------------------------------------------------------------
(* The video stream                                                        *)

\* a thread is about to call get_video_stream_info_async
GetStream ==
    /\ cameraTopic = "stream" /\ NewRequest
    /\ sending' = sending \cup {requests'}
    /\ UNCHANGED <<cameraTopic, callback, calls, rejected, wiped, cameraTimerVars, commandedVars,
                   received, subscriptionVars, camera, streamVars, photos, heard>>

StreamTick ==
    /\ cameraTopic = "stream" /\ periodic > 0 /\ 0 \notin sending
    /\ sending' = sending \cup {0}
    /\ UNCHANGED <<cameraTopic, requests, callback, calls, rejected, wiped, cameraTimerVars,
                   commandedVars, received, subscriptionVars, camera, streamVars, photos, heard>>

\* get_video_stream_info_async, under the mutex
EnterStream(n) ==
    /\ cameraTopic = "stream" /\ n \in sending /\ camera # "stuck" /\ (n = 0 => Room({"stream"}))
    /\ sending' = sending \ {n}
    /\ IF callback # 0
       THEN /\ rejected' = rejected \cup ({n} \ {0})
            /\ UNCHANGED <<callback, outstanding>>
       ELSE callback' = n /\ SendCommands({"stream"}) /\ UNCHANGED rejected
    /\ UNCHANGED <<cameraTopic, requests, calls, wiped, cameraTimerVars, failed, received,
                   subscriptionVars, camera, streamVars, photos, heard>>

\* its result, without the mutex: a failure is told but the callback stays, and a
\* success forgets the callback
StreamResult ==
    /\ TakeResult("stream")
    /\ \/ CallBack(callback) /\ failed' = TRUE /\ UNCHANGED <<callback, wiped, cameraTimerVars>>
       \/ /\ callback' = 0 /\ wiped' = wiped \cup ({callback} \ {0})
          /\ Register(callback)
          /\ UNCHANGED <<calls, failed>>
    /\ UNCHANGED <<cameraTopic, requests, rejected, sending, received, subscriptionVars, camera,
                   streamVars, photos, heard>>

\* process_video_information.  For a subscriber, notify_video_stream_info takes the
\* mutex that the thread holds.
StreamReported ==
    /\ cameraTopic = "stream" /\ camera = "idle" /\ heard < MaxMessages
    /\ heard' = heard + 1
    /\ running' \in BOOLEAN /\ available' = TRUE
    /\ IF callback # 0
       THEN Unregister /\ CallBack(callback) /\ callback' = 0
       ELSE UNCHANGED <<cameraTimerVars, calls, callback>>
    /\ camera' = IF watched THEN "stuck" ELSE "idle"
    /\ UNCHANGED <<cameraTopic, requests, rejected, sending, wiped, commandedVars, received,
                   subscriptionVars, waiter, photos>>

\* get_video_stream_info_timeout
StreamTimedOut ==
    /\ cameraTopic = "stream" /\ camera # "stuck" /\ firing # {}
    /\ \E n \in firing : firing' = firing \ {n}
    /\ available' = FALSE
    /\ CallBack(callback) /\ callback' = 0
    /\ UNCHANGED <<cameraTopic, requests, rejected, sending, wiped, armed, cookie, commandedVars,
                   received, subscriptionVars, camera, running, waiter, photos, heard>>

\* start_video_streaming and stop_video_streaming: the command, which is waited for
BlockStream(op) ==
    /\ cameraTopic = "stream" /\ waiter.at = "out" /\ NewRequest
    /\ op = "start" => ~(available /\ running)
    /\ SendCommands({op})
    /\ waiter' = [at |-> op, n |-> requests']
    /\ UNCHANGED <<cameraTopic, callback, calls, rejected, sending, wiped, cameraTimerVars, failed,
                   received, subscriptionVars, camera, available, running, photos, heard>>

\* the command has its result: a stream that was started is asked about
StreamStarted ==
    /\ waiter.at = "start"
    /\ TakeResult("start")
    /\ \/ waiter' = [waiter EXCEPT !.at = "wait"] /\ sending' = sending \cup {waiter.n}
       \/ waiter' = [at |-> "out", n |-> 0] /\ UNCHANGED sending
    /\ UNCHANGED <<cameraTopic, requests, callback, calls, rejected, wiped, cameraTimerVars, failed, received,
                   subscriptionVars, camera, available, running, photos, heard>>

StreamStopped ==
    /\ waiter.at = "stop" /\ camera # "stuck"
    /\ TakeResult("stop")
    /\ waiter' = [at |-> "out", n |-> 0] /\ running' = FALSE
    /\ UNCHANGED <<cameraTopic, requestVars, cameraTimerVars, failed, received, subscriptionVars,
                   camera, available, photos, heard>>

\* get_video_stream_info: it waits for its callback, but five seconds at most
WaitOver ==
    /\ waiter.at = "wait" /\ waiter.n \notin sending
    /\ waiter' = [at |-> "out", n |-> 0]
    /\ UNCHANGED <<cameraTopic, requestVars, cameraTimerVars, commandedVars, received,
                   subscriptionVars, camera, available, running, photos, heard>>

-----------------------------------------------------------------------------
(* Photos and videos: commands that are just sent                          *)

\* take_photo, start_photo_interval: numbered, and the blocking ones keep the mutex
TakePhoto(blocking) ==
    /\ cameraTopic = "other" /\ waiter.at = "out" /\ NewRequest
    /\ photos' = photos + 1
    /\ SendCommands({"other"})
    /\ waiter' = IF blocking THEN [at |-> "photo", n |-> requests'] ELSE waiter
    /\ UNCHANGED <<cameraTopic, callback, calls, rejected, sending, wiped, cameraTimerVars, failed,
                   received, subscriptionVars, camera, available, running, heard>>

\* stop_photo_interval, start_video, stop_video, format_storage
OtherCommand ==
    /\ cameraTopic = "other" /\ NewRequest
    /\ SendCommands({"other"})
    /\ running' \in {running, FALSE}
    /\ UNCHANGED <<cameraTopic, callback, calls, rejected, sending, wiped, cameraTimerVars, failed,
                   received, subscriptionVars, camera, available, waiter, photos, heard>>

\* receive_command_result
OtherResult ==
    /\ TakeResult("other")
    /\ waiter' = [at |-> "out", n |-> 0] \/ (outstanding'["other"] > 0 /\ UNCHANGED waiter)
    /\ UNCHANGED <<cameraTopic, requestVars, cameraTimerVars, failed, received, subscriptionVars,
                   camera, available, running, photos, heard>>

-----------------------------------------------------------------------------

CameraNext ==
    \/ GetMode \/ ModeResult \/ ModeReported
    \/ GetStatus \/ StatusTick \/ StatusResult \/ StatusReported \/ CheckStatus
    \/ FireTimer \/ TimedOut
    \/ \E on \in BOOLEAN : SubscribeCamera(on)
    \/ GetStream \/ StreamTick \/ StreamResult \/ StreamReported \/ StreamTimedOut
    \/ \E n \in 0..MaxRequests : RequestStatus(n) \/ EnterStream(n)
    \/ \E op \in {"start", "stop"} : BlockStream(op)
    \/ StreamStarted \/ StreamStopped \/ WaitOver
    \/ \E blocking \in BOOLEAN : TakePhoto(blocking)
    \/ OtherCommand \/ OtherResult

-----------------------------------------------------------------------------
(* Properties                                                              *)

CameraTypeOK ==
    /\ requests \in 0..MaxRequests /\ callback \in 0..MaxRequests
    /\ calls \in [Request -> Nat] /\ rejected \subseteq Request /\ wiped \subseteq Request
    /\ sending \subseteq 0..MaxRequests
    /\ armed \cup firing \subseteq 0..MaxRequests /\ cookie \in {NoTimer} \cup 0..MaxRequests
    /\ outstanding \in [CameraCommands -> 0..MaxOutstanding + MaxRequests]
    /\ received \subseteq {"capture", "storage"} /\ periodic \in Nat
    /\ camera \in {"idle", "check", "stuck"} /\ heard \in 0..MaxMessages
    /\ waiter.at \in {"out", "start", "stop", "wait", "photo"} /\ photos \in 0..MaxRequests

\* However requests, results, messages and timeouts meet, a callback has one result,
\* and none after it was told to wait; only a failed command can have it called again,
\* for the mode and the stream.
CalledOnce ==
    /\ \A n \in Request : calls[n] > 1 => failed /\ cameraTopic # "status"
    /\ \A n \in rejected : calls[n] = 0

\* What is waited for is still to come: a callback that is set and was not called has its
\* timer, or is about to have it, although timers are removed by a cookie that a later
\* request overwrites; and who is blocked in a call has a command without a result.
RequestsAreTimed ==
    /\ callback # 0 /\ cameraTopic \in {"mode", "status"} =>
          calls[callback] > 0 \/ callback \in sending \cup armed \cup firing
    /\ waiter.at \in {"start", "stop"} => outstanding[waiter.at] > 0
    /\ waiter.at = "photo" => outstanding["other"] > 0

\* A request for the mode or the status has a result in the end, unless a periodic
\* request takes its place; and whoever waits for a stream returns, unless the receive
\* thread has locked itself out.
RequestsEnd ==
    /\ callback # 0 /\ cameraTopic \in {"mode", "status"} =>
          calls[callback] > 0 \/ callback \in wiped
    /\ waiter.at = "out" \/ camera = "stuck"
===============================================================================
