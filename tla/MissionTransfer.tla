--------------------------- MODULE MissionTransfer ---------------------------
(***************************************************************************)
(* The mission protocol of plugins/mission/mission_impl.cpp: upload,       *)
(* download, setting the current item, and the commands that start and     *)
(* pause a mission, against a vehicle behind a link that can lose          *)
(* messages.  What the messages of a mission are is MissionPlan's subject; *)
(* here they are numbered.                                                 *)
(*                                                                         *)
(* Three threads run the plugin: a user thread calls the operations, "recv"*)
(* runs the message handlers and "sys" the timeout.  The activity and the  *)
(* mission data have a mutex each, and never both are held: a handler      *)
(* checks the activity in one step and acts on it in another.              *)
(***************************************************************************)
EXTENDS Integers, Sequences, SequencesExt

CONSTANTS
  MaxSize,     \* bound: messages in a mission
  MaxRequests, \* bound: operations called by the user
  MaxRetries,  \* MAX_RETRIES, 3 in the code
  MaxLost,     \* bound: messages the link loses
  Ack,         \* the kinds of MISSION_ACK the vehicle sends
  Timer,       \* cookies the TimeoutHandler can hand out
  LateRequests, LateLost  \* these two bounds when answers may come late

NoCookie == "nullptr"

ASSUME TransferAssumption ==
  /\ MaxSize \in Nat \ {0}
  /\ MaxRequests \in Nat /\ MaxRetries \in Nat /\ MaxLost \in Nat
  /\ Ack \subseteq {"ACCEPTED", "NO_SPACE", "ERROR"}
  /\ NoCookie \notin Timer
  /\ LateRequests \in Nat /\ LateLost \in Nat

VARIABLES
  activity,   \* _activity.state
  retries,    \* _mission_data.retries
  outgoing,   \* the mission in mavlink_mission_item_messages
  next, num,  \* next_mission_item_to_download, num_mission_items_to_download
  downloaded, \* mavlink_mission_items_downloaded
  resultCb,   \* the request whose callback is result_callback
  itemsCb,    \* the request whose callback is mission_items_and_result_callback
  timers,     \* this plugin's entries in the TimeoutHandler
  cookie,     \* _timeout_cookie
  user,       \* user thread: where it is in its last request
  accepted,       \* receive thread: the message it has accepted but not acted on
  sys,        \* system thread
  commands,   \* requests whose flight mode command is under way
  toVehicle, toPlugin,  \* messages in flight
  vehicle,    \* the vehicle's end of the protocol
  onboard,    \* the mission the vehicle has
  lost,       \* how many messages are lost so far, and whether one of them announced
              \* an upload to a vehicle that was still waiting for an earlier one
  requests,   \* history: the operations called, by kind
  answers,    \* history: the callbacks invoked
  abandoned,  \* history: why the activity was left to itself, or "no"
  timely      \* schedule: answers come before timeouts, and after their question
              \* has been recorded; fixed in each behaviour

dataVars    == <<retries, outgoing, next, num, downloaded>>
cbVars      == <<resultCb, itemsCb>>
timerVars   == <<timers, cookie>>
linkVars    == <<toVehicle, toPlugin, lost>>
vehicleVars == <<vehicle, onboard>>
historyVars == <<requests, answers, abandoned>>
vars == <<activity, retries, outgoing, next, num, downloaded, resultCb, itemsCb,
          timers, cookie, user, accepted, sys, commands, toVehicle, toPlugin,
          vehicle, onboard, lost, requests, answers, abandoned, timely>>

Kinds      == {"upload", "download", "start", "set_current"}
Activities == {"NONE", "SET_CURRENT", "SET_MISSION", "GET_MISSION", "SEND_COMMAND"}
Transfers  == {"SET_MISSION", "GET_MISSION"}

\* What the activity becomes for each kind of request.
ActivityOf == [upload |-> "SET_MISSION", download |-> "GET_MISSION",
               start  |-> "SEND_COMMAND", set_current |-> "SET_CURRENT"]

\* The mission of request r with n messages: its messages are numbered from 0.
Mission(r, n) == [k \in 1 .. n |-> [req |-> r, seq |-> k - 1]]

Message(type, arg) == [type |-> type, arg |-> arg]
NoMessage == Message("none", 0)
Quiet     == [state |-> "IDLE", count |-> 0, have |-> <<>>]

TransferInit ==
  /\ activity = "NONE"
  /\ retries = 0 /\ outgoing = <<>> /\ next = -1 /\ num = -1 /\ downloaded = <<>>
  /\ resultCb = 0 /\ itemsCb = 0
  /\ timers = {} /\ cookie = NoCookie
  /\ user = "idle" /\ accepted = NoMessage /\ sys = "idle"
  /\ commands = {}
  /\ toVehicle = <<>> /\ toPlugin = <<>>
  /\ lost = [messages |-> 0, announcement |-> FALSE]
  /\ vehicle = Quiet
  /\ onboard = Mission(0, MaxSize)
  /\ requests = <<>> /\ answers = <<>> /\ abandoned = "no"
  /\ timely \in BOOLEAN

-----------------------------------------------------------------------------
(* Services. *)

Request == Len(requests)

\* The callback of request r, unless it is null.
Answer(r, result, got) ==
  answers' = IF r = 0 THEN answers
             ELSE Append(answers, [req |-> r, result |-> result, items |-> got])

Register ==
  \E t \in Timer \ timers: timers' = timers \cup {t} /\ cookie' = t

Unregister == timers' = timers \ {cookie} /\ UNCHANGED cookie

Send(type, arg) == toVehicle' = Append(toVehicle, Message(type, arg))

\* Whether a message can be received now: a timely one overtakes no user thread
\* that has sent its first message but not yet recorded the request, and no
\* running timeout.
Prompt == timely => user \notin {"activity", "callback"} /\ sys = "idle"
-----------------------------------------------------------------------------
(* The user thread. *)

UserUnchanged ==
  UNCHANGED <<retries, next, num, accepted, sys, vehicleVars, toPlugin, lost, timely>>

\* Every operation first checks the activity under its mutex; starting and
\* pausing a mission also set it there.
Call(kind) ==
  /\ user = "idle"
  /\ Len(requests) < IF timely THEN MaxRequests ELSE LateRequests
  /\ requests' = Append(requests, kind)
  /\ \/ /\ activity # "NONE"
        /\ Answer(Request + 1, "BUSY", <<>>)
        /\ UNCHANGED <<activity, user>>
     \/ /\ activity = "NONE"
        /\ activity' = IF kind = "start" THEN "SEND_COMMAND" ELSE activity
        /\ user' = "send"
        /\ UNCHANGED answers
  /\ UNCHANGED <<outgoing, downloaded, cbVars, timerVars, commands, toVehicle, abandoned>>
  /\ UserUnchanged

Sending(kind) == user = "send" /\ requests[Request] = kind

\* Faulty variant: announces one message too few.
SendCountShort(n) ==
  /\ Sending("upload")
  /\ outgoing' = Mission(Request, n)
  /\ Send("COUNT", n - 1)
  /\ Register
  /\ user' = "activity"
  /\ UNCHANGED <<activity, downloaded, cbVars, commands, historyVars>>
  /\ UserUnchanged

\* upload_mission_async: the messages are assembled, their number is sent, and
\* the longer timeout armed.
SendCount(n) ==
  /\ Sending("upload")
  /\ outgoing' = Mission(Request, n)
  /\ Send("COUNT", n)
  /\ Register
  /\ user' = "activity"
  /\ UNCHANGED <<activity, downloaded, cbVars, commands, historyVars>>
  /\ UserUnchanged

\* download_mission_async
SendRequestList ==
  /\ Sending("download")
  /\ Send("REQUEST_LIST", 0)
  /\ Register
  /\ user' = "activity"
  /\ UNCHANGED <<activity, outgoing, downloaded, cbVars, commands, historyVars>>
  /\ UserUnchanged

\* set_current_mission_item_async arms no timeout.
SendSetCurrent ==
  /\ Sending("set_current")
  /\ Send("SET_CURRENT", 0)
  /\ user' = "activity"
  /\ UNCHANGED <<activity, outgoing, downloaded, cbVars, timerVars, commands, historyVars>>
  /\ UserUnchanged

\* start_mission_async and pause_mission_async
SendCommand ==
  /\ Sending("start")
  /\ commands' = commands \cup {Request}
  /\ user' = "idle"
  /\ UNCHANGED <<activity, outgoing, downloaded, cbVars, timerVars, toVehicle, historyVars>>
  /\ UserUnchanged

\* The request is not valid, or the link refuses the first message; by then the
\* messages of an upload are assembled.
SendFails ==
  /\ user = "send"
  /\ requests[Request] # "start"
  /\ \/ UNCHANGED outgoing
     \/ /\ requests[Request] = "upload"
        /\ \E n \in 1 .. MaxSize: outgoing' = Mission(Request, n)
  /\ Answer(Request, "ERROR", <<>>)
  /\ user' = "idle"
  /\ UNCHANGED <<activity, downloaded, cbVars, timerVars, commands,
                 toVehicle, requests, abandoned>>
  /\ UserUnchanged

\* The activity is set only after the message is out and the timeout armed ...
SetActivity ==
  /\ user = "activity"
  /\ activity' = ActivityOf[requests[Request]]
  /\ user' = "callback"
  /\ UNCHANGED <<outgoing, downloaded, cbVars, timerVars, commands, toVehicle, historyVars>>
  /\ UserUnchanged

\* ... and the callback after that.  A download also clears what is left of
\* the one before, but for next and num.
SetCallback ==
  /\ user = "callback"
  /\ IF requests[Request] = "download"
     THEN /\ itemsCb' = Request
          /\ downloaded' = <<>>
          /\ retries' = 0
          /\ UNCHANGED resultCb
     ELSE /\ resultCb' = Request
          /\ UNCHANGED <<itemsCb, downloaded, retries>>
  /\ user' = "idle"
  /\ UNCHANGED <<activity, outgoing, next, num, timerVars, accepted, sys, commands,
                 linkVars, vehicleVars, historyVars, timely>>

\* receive_command_result, when MAVLinkCommands has the final result.
ReceiveCommandResult(r, ok) ==
  /\ r \in commands
  /\ commands' = commands \ {r}
  /\ activity' = IF activity = "SEND_COMMAND" THEN "NONE" ELSE activity
  /\ Unregister
  /\ Answer(r, IF ok THEN "SUCCESS" ELSE "ERROR", <<>>)
  /\ UNCHANGED <<dataVars, cbVars, user, accepted, sys, linkVars, vehicleVars,
                 requests, abandoned, timely>>

-----------------------------------------------------------------------------
(* The receive thread. *)

\* The activity a message needs to be acted on.
Expected == [REQUEST_INT |-> "SET_MISSION", ACK  |-> "SET_MISSION",
             COUNT       |-> "GET_MISSION", ITEM |-> "GET_MISSION",
             CURRENT     |-> "SET_CURRENT"]

RecvUnchanged ==
  UNCHANGED <<outgoing, cbVars, user, sys, commands, vehicleVars, lost, requests, timely>>

\* A handler checks the activity, under its mutex, and returns if it is another.
Receive ==
  /\ accepted = NoMessage /\ Prompt
  /\ toPlugin # <<>>
  /\ Head(toPlugin).type \in DOMAIN Expected
  /\ toPlugin' = Tail(toPlugin)
  /\ accepted' = IF activity = Expected[Head(toPlugin).type] THEN Head(toPlugin) ELSE NoMessage
  /\ UNCHANGED <<activity, retries, next, num, downloaded, timerVars, toVehicle,
                 answers, abandoned>>
  /\ RecvUnchanged

\* process_mission_request: "We only support int, so we nack this".
ReceiveRequest ==
  /\ accepted = NoMessage /\ Prompt
  /\ toPlugin # <<>>
  /\ Head(toPlugin).type = "REQUEST"
  /\ toPlugin' = Tail(toPlugin)
  /\ Send("NACK", 0)
  /\ UNCHANGED <<activity, retries, next, num, downloaded, timerVars, accepted,
                 answers, abandoned>>
  /\ RecvUnchanged

Handle(type) == accepted.type = type /\ accepted' = NoMessage /\ UNCHANGED toPlugin

\* process_mission_request_int and upload_mission_item
UploadItem ==
  /\ Handle("REQUEST_INT")
  /\ retries' = 0
  /\ IF accepted.arg < Len(outgoing) THEN Send("ITEM", outgoing[accepted.arg + 1])
                                 ELSE UNCHANGED toVehicle
  /\ UNCHANGED <<activity, next, num, downloaded, timerVars, answers, abandoned>>
  /\ RecvUnchanged

\* Faulty variant: an accepted upload keeps its timer.
MissionAcceptedKeepsTimer ==
  /\ Handle("ACK")
  /\ accepted.arg = "ACCEPTED"
  /\ activity' = "NONE"
  /\ Answer(resultCb, "SUCCESS", <<>>)
  /\ UNCHANGED <<retries, next, num, downloaded, timerVars, toVehicle, abandoned>>
  /\ RecvUnchanged

\* process_mission_ack: only an accepted mission resets the activity.
MissionAccepted ==
  /\ Handle("ACK")
  /\ accepted.arg = "ACCEPTED"
  /\ Unregister
  /\ activity' = "NONE"
  /\ Answer(resultCb, "SUCCESS", <<>>)
  /\ UNCHANGED <<retries, next, num, downloaded, toVehicle, abandoned>>
  /\ RecvUnchanged

MissionRefused ==
  /\ Handle("ACK")
  /\ accepted.arg # "ACCEPTED"
  /\ Unregister
  /\ Answer(resultCb, IF accepted.arg = "NO_SPACE" THEN "TOO_MANY_MISSION_ITEMS" ELSE "ERROR", <<>>)
  /\ abandoned' = "refused"
  /\ UNCHANGED <<activity, retries, next, num, downloaded, toVehicle>>
  /\ RecvUnchanged

\* process_mission_current: any MISSION_CURRENT is taken for the answer.
CurrentSet ==
  /\ Handle("CURRENT")
  /\ Unregister
  /\ activity' = "NONE"
  /\ Answer(resultCb, "SUCCESS", <<>>)
  /\ UNCHANGED <<retries, next, num, downloaded, toVehicle, abandoned>>
  /\ RecvUnchanged

\* process_mission_count: from here on the items are requested one by one.
CountReceived ==
  /\ Handle("COUNT")
  /\ num' = accepted.arg
  /\ next' = 0
  /\ \E t \in Timer \ (timers \ {cookie}):
       timers' = (timers \ {cookie}) \cup {t} /\ cookie' = t
  /\ Send("REQUEST_INT", 0)
  /\ UNCHANGED <<activity, retries, downloaded, answers, abandoned>>
  /\ RecvUnchanged

\* process_mission_item_int: another item than the one awaited, ...
ItemUnexpected ==
  /\ Handle("ITEM")
  /\ accepted.arg.seq # next
  /\ Send("REQUEST_INT", next)
  /\ UNCHANGED <<activity, retries, next, num, downloaded, timerVars, answers, abandoned>>
  /\ RecvUnchanged

\* ... the one awaited, with more to come, ...
ItemReceived ==
  /\ Handle("ITEM")
  /\ accepted.arg.seq = next
  /\ next + 1 # num
  /\ downloaded' = Append(downloaded, accepted.arg)
  /\ retries' = 0
  /\ next' = next + 1
  /\ Send("REQUEST_INT", next + 1)
  /\ UNCHANGED <<activity, num, timerVars, answers, abandoned>>
  /\ RecvUnchanged

\* ... or the last.  assemble_mission_items does not reset the activity when the
\* first item is not a waypoint, which may be so in any mission.
LastItemReceived(waypointFirst) ==
  /\ Handle("ITEM")
  /\ accepted.arg.seq = next
  /\ next + 1 = num
  /\ downloaded' = Append(downloaded, accepted.arg)
  /\ retries' = 0
  /\ Unregister
  /\ Send("ACK", "ACCEPTED")
  /\ \/ /\ waypointFirst
        /\ Answer(itemsCb, "SUCCESS", downloaded')
        /\ activity' = "NONE"
        /\ UNCHANGED abandoned
     \/ /\ ~waypointFirst
        /\ abandoned' = "unsupported"
        /\ UNCHANGED <<activity, answers>>
  /\ UNCHANGED <<next, num>>
  /\ RecvUnchanged
-----------------------------------------------------------------------------
(* The system thread. *)

SysUnchanged == UNCHANGED <<outgoing, next, num, downloaded, cbVars, user, accepted, commands,
                            toPlugin, lost, vehicleVars, requests, timely>>

\* A timely timeout means that no answer is under way.
FireTimer ==
  /\ sys = "idle"
  /\ Prompt
  /\ timely => toVehicle = <<>> /\ toPlugin = <<>> /\ accepted = NoMessage
  /\ \E t \in timers: timers' = timers \ {t}
  /\ sys' = "timeout"
  /\ UNCHANGED <<activity, retries, cookie, toVehicle, answers, abandoned>>
  /\ SysUnchanged

\* process_timeout: an upload ends without a word to its callback, ...
UploadTimedOut ==
  /\ sys = "timeout"
  /\ activity = "SET_MISSION"
  /\ activity' = "NONE"
  /\ sys' = "idle"
  /\ UNCHANGED <<retries, timerVars, toVehicle, answers, abandoned>>
  /\ SysUnchanged

\* ... a download is retried, ...
DownloadTimedOut ==
  /\ sys = "timeout"
  /\ activity = "GET_MISSION"
  /\ sys' = "retry"
  /\ UNCHANGED <<activity, retries, timerVars, toVehicle, answers, abandoned>>
  /\ SysUnchanged

\* ... and any other timeout is "unknown".
UnknownTimeout ==
  /\ sys = "timeout"
  /\ activity \notin Transfers
  /\ sys' = "idle"
  /\ UNCHANGED <<activity, retries, timerVars, toVehicle, answers, abandoned>>
  /\ SysUnchanged

\* The retry asks for an item, also when it is the list that did not come.
RetryDownload ==
  /\ sys = "retry"
  /\ retries <= MaxRetries
  /\ retries' = retries + 1
  /\ Register
  /\ Send("REQUEST_INT", next)
  /\ sys' = "idle"
  /\ UNCHANGED <<activity, answers, abandoned>>
  /\ SysUnchanged

\* Faulty variant: gives up without resetting the activity.
GiveUpDownloadKeepsActivity ==
  /\ sys = "retry"
  /\ retries > MaxRetries
  /\ retries' = 0
  /\ Answer(resultCb, "TIMEOUT", <<>>)
  /\ sys' = "idle"
  /\ UNCHANGED <<activity, timerVars, toVehicle, abandoned>>
  /\ SysUnchanged

\* Giving up is reported to result_callback, not to the download's callback.
GiveUpDownload ==
  /\ sys = "retry"
  /\ retries > MaxRetries
  /\ retries' = 0
  /\ activity' = "NONE"
  /\ Answer(resultCb, "TIMEOUT", <<>>)
  /\ sys' = "idle"
  /\ UNCHANGED <<timerVars, toVehicle, abandoned>>
  /\ SysUnchanged

\* disable, when the connection is lost: the timer goes, the activity stays.
Disable ==
  /\ sys = "idle" /\ Prompt
  /\ abandoned = "no"
  /\ activity \in Transfers
  /\ Unregister
  /\ abandoned' = "disabled"
  /\ UNCHANGED <<activity, retries, sys, toVehicle, answers>>
  /\ SysUnchanged
-----------------------------------------------------------------------------
(* The vehicle, as the plugin's code expects it, and the link. *)

PluginUnchanged ==
  UNCHANGED <<activity, dataVars, cbVars, timerVars, user, accepted, sys, commands,
              historyVars, timely>>

Reply(type, arg) == toPlugin' = Append(toPlugin, Message(type, arg))

\* A vehicle that is being given a mission asks for the next message; it may
\* first try the older kind of request.
AskFor(seq) == \/ Reply("REQUEST_INT", seq)
               \/ Reply("REQUEST", seq)

VehicleReceives(type) ==
  /\ toVehicle # <<>> /\ Prompt
  /\ vehicle.state # "SILENT"
  /\ Head(toVehicle).type = type
  /\ toVehicle' = Tail(toVehicle)
  /\ UNCHANGED lost
  /\ PluginUnchanged

VehicleCount ==
  /\ VehicleReceives("COUNT")
  /\ vehicle' = [state |-> "GETLIST", count |-> Head(toVehicle).arg, have |-> <<>>]
  /\ AskFor(0)
  /\ UNCHANGED onboard

VehicleItem ==
  /\ VehicleReceives("ITEM")
  /\ LET item == Head(toVehicle).arg
         have == Append(vehicle.have, item)
     IN  \/ /\ vehicle.state # "GETLIST" \/ item.seq # Len(vehicle.have)
            /\ UNCHANGED <<vehicle, onboard, toPlugin>>
         \/ /\ vehicle.state = "GETLIST" /\ item.seq = Len(vehicle.have)
            /\ Len(have) < vehicle.count
            /\ vehicle' = [vehicle EXCEPT !.have = have]
            /\ Reply("REQUEST_INT", Len(have))
            /\ UNCHANGED onboard
         \/ /\ vehicle.state = "GETLIST" /\ item.seq = Len(vehicle.have)
            /\ Len(have) = vehicle.count
            /\ vehicle' = Quiet
            /\ \E a \in Ack:
                 /\ onboard' = IF a = "ACCEPTED" THEN have ELSE onboard
                 /\ Reply("ACK", a)

VehicleNack ==
  /\ VehicleReceives("NACK")
  /\ IF vehicle.state = "GETLIST" THEN Reply("REQUEST_INT", Len(vehicle.have))
                                  ELSE UNCHANGED toPlugin
  /\ UNCHANGED vehicleVars

VehicleList ==
  /\ VehicleReceives("REQUEST_LIST")
  /\ vehicle' = [Quiet EXCEPT !.state = "SENDLIST"]
  /\ Reply("COUNT", Len(onboard))
  /\ UNCHANGED onboard

VehicleSendsItem ==
  /\ VehicleReceives("REQUEST_INT")
  /\ LET seq == Head(toVehicle).arg
     IN  IF vehicle.state = "SENDLIST" /\ seq \in 0 .. Len(onboard) - 1
         THEN Reply("ITEM", [onboard[seq + 1] EXCEPT !.seq = seq])
         ELSE UNCHANGED toPlugin
  /\ UNCHANGED vehicleVars

VehicleAck ==
  /\ VehicleReceives("ACK")
  /\ vehicle' = Quiet
  /\ UNCHANGED <<toPlugin, onboard>>

VehicleSetCurrent ==
  /\ VehicleReceives("SET_CURRENT")
  /\ Reply("CURRENT", 0)
  /\ UNCHANGED vehicleVars

\* The vehicle repeats a request that stays without an answer, or an item that
\* is followed by no request, and broadcasts its current item, when nothing
\* else is on the way.
VehicleRepeats ==
  /\ Prompt
  /\ toPlugin = <<>> /\ toVehicle = <<>> /\ accepted = NoMessage
  /\ \/ vehicle.state = "GETLIST" /\ AskFor(Len(vehicle.have))
     \/ /\ vehicle.state = "SENDLIST"
        /\ \E k \in DOMAIN onboard: Reply("ITEM", [onboard[k] EXCEPT !.seq = k - 1])
     \/ vehicle.state # "SILENT" /\ activity = "SET_CURRENT" /\ Reply("CURRENT", 0)
  /\ UNCHANGED <<toVehicle, lost, vehicleVars>>
  /\ PluginUnchanged

\* The vehicle may fall silent for good, and what is sent to it then is lost.
FallsSilent ==
  /\ vehicle' = [Quiet EXCEPT !.state = "SILENT"]
  /\ UNCHANGED <<onboard, linkVars>>
  /\ PluginUnchanged

Unheard ==
  /\ vehicle.state = "SILENT"
  /\ toVehicle # <<>>
  /\ toVehicle' = <<>>
  /\ UNCHANGED <<toPlugin, lost, vehicleVars>>
  /\ PluginUnchanged

Lose ==
  /\ lost.messages < IF timely THEN MaxLost ELSE LateLost
  /\ \/ /\ toVehicle # <<>>
        /\ toVehicle' = Tail(toVehicle)
        /\ lost' = [messages     |-> lost.messages + 1,
                    announcement |-> \/ lost.announcement
                                     \/ /\ Head(toVehicle).type = "COUNT"
                                        /\ vehicle.state = "GETLIST"]
        /\ UNCHANGED toPlugin
     \/ /\ toPlugin # <<>>
        /\ toPlugin' = Tail(toPlugin)
        /\ lost' = [lost EXCEPT !.messages = @ + 1]
        /\ UNCHANGED toVehicle
  /\ UNCHANGED vehicleVars
  /\ PluginUnchanged
-----------------------------------------------------------------------------

UserThread ==
  \/ \E n \in 1 .. MaxSize: SendCount(n)
  \/ SendRequestList \/ SendSetCurrent \/ SendCommand \/ SendFails
  \/ SetActivity \/ SetCallback

ReceiveThread ==
  \/ Receive \/ ReceiveRequest
  \/ UploadItem \/ MissionAccepted \/ MissionRefused \/ CurrentSet
  \/ CountReceived \/ ItemUnexpected \/ ItemReceived
  \/ \E waypointFirst \in BOOLEAN: LastItemReceived(waypointFirst)

SystemThread ==
  \/ FireTimer \/ UploadTimedOut \/ DownloadTimedOut \/ UnknownTimeout
  \/ RetryDownload \/ GiveUpDownload

Delivery ==
  \/ VehicleCount \/ VehicleItem \/ VehicleNack \/ VehicleList
  \/ VehicleSendsItem \/ VehicleAck \/ VehicleSetCurrent
  \/ Unheard

TransferNext ==
  \/ \E kind \in Kinds: Call(kind)
  \/ UserThread \/ ReceiveThread \/ SystemThread \/ Disable
  \/ \E r \in commands, ok \in BOOLEAN: ReceiveCommandResult(r, ok)
  \/ Delivery \/ VehicleRepeats \/ FallsSilent \/ Lose

\* The threads run, timers expire, and a message in flight arrives or is lost.
\* The vehicle may fall silent, and the user need not call.
Fairness ==
  /\ WF_vars(UserThread) /\ SF_vars(ReceiveThread) /\ SF_vars(SystemThread)
  /\ SF_vars(Delivery)

TransferSpec == TransferInit /\ [][TransferNext]_vars
TransferFairSpec == TransferSpec /\ Fairness
-----------------------------------------------------------------------------
(* Properties. *)

MissionItem == [req: 0 .. MaxRequests, seq: 0 .. MaxSize - 1]
Results == {"SUCCESS", "ERROR", "TOO_MANY_MISSION_ITEMS", "BUSY", "TIMEOUT"}

\* The variables have their types.
TransferTypeOK ==
  /\ activity \in Activities
  /\ retries \in 0 .. MaxRetries + 1
  /\ outgoing \in Seq(MissionItem)
  /\ next \in -1 .. MaxSize - 1 /\ num \in -1 .. MaxSize
  /\ downloaded \in Seq(MissionItem)
  /\ resultCb \in 0 .. MaxRequests /\ itemsCb \in 0 .. MaxRequests
  /\ timers \subseteq Timer /\ cookie \in Timer \cup {NoCookie}
  /\ user \in {"idle", "send", "activity", "callback"}
  /\ accepted.type \in DOMAIN Expected \cup {"none"}
  /\ sys \in {"idle", "timeout", "retry"}
  /\ commands \subseteq 1 .. MaxRequests
  /\ vehicle.state \in {"IDLE", "GETLIST", "SENDLIST", "SILENT"}
  /\ onboard \in Seq(MissionItem)
  /\ lost \in [messages: Nat, announcement: BOOLEAN]
  /\ requests \in Seq(Kinds) /\ Len(requests) <= MaxRequests
  /\ answers \in Seq([req: 1 .. MaxRequests, result: Results, items: Seq(MissionItem)])
  /\ abandoned \in {"no", "refused", "unsupported", "disabled"}
  /\ timely \in BOOLEAN

\* The callback invoked by a step, if any.
Reported(kind, result) ==
  /\ Len(answers') > Len(answers)
  /\ requests'[Last(answers').req] = kind
  /\ Last(answers').result = result

\* An upload that is reported as successful is the mission the vehicle has,
\* complete and in order, at that moment: no answer to an earlier upload, no
\* item asked for late and no lost message makes it a lie
\* (mission_impl.cpp:91-173,314-368).  It takes a vehicle that answers in time, or
\* an operation on its own; and that no announcement of a mission is lost while the
\* vehicle still waits for the mission before: it is not sent again (:1147), and
\* the vehicle fills the earlier mission with the messages of the new one.
UploadStored ==
  [][/\ Reported("upload", "SUCCESS")
     /\ ~lost.announcement
     /\ timely \/ Len(requests) <= 1
     =>
       /\ onboard = outgoing
       /\ \A k \in DOMAIN onboard: onboard[k].req = Last(answers').req]_vars

\* With a timely vehicle, a transfer that waits has a timer that will end it,
\* unless it was abandoned, and a transfer that is over leaves none behind that
\* could end the next one too early, although three threads arm and cancel the
\* one timer without a common lock
\* (mission_impl.cpp:141,247-250,277,357,400,1186).
TimerMatchesTransfer ==
  timely =>
    /\ activity \in Transfers /\ user = "idle" /\ accepted = NoMessage /\ sys = "idle"
         => timers # {} \/ abandoned # "no"
    /\ timers \subseteq {cookie}
    /\ activity \notin Transfers /\ user \in {"idle", "send"} => timers = {}

\* A transfer with a timely vehicle ends even if that falls silent, but for three
\* causes: the vehicle refused the mission, its first item was not a waypoint,
\* or the plugin was disabled in the middle (mission_impl.cpp:165-172,739-744,
\* 61-64); those leave the activity set, and every later request BUSY.
TransferEnds ==
  timely /\ activity \in Transfers ~> (activity \notin Transfers \/ abandoned # "no")

\* "Callback to receive result of this request" (mission.h:99,147,173): however
\* late its answers are, an operation on its own is answered at most once.
AnsweredOnce == Len(requests) <= 1 => Len(answers) <= 1

\* The timer and the answers of the three threads: no timer is missing or left
\* over, and nobody is answered twice.
TransfersTidy == TimerMatchesTransfer /\ AnsweredOnce

=============================================================================
