------------------------------- MODULE Telemetry -------------------------------
(***************************************************************************)
(* TelemetryImpl, and with it InfoImpl: what the vehicle last reported,    *)
(* who is told of it, the rates that were asked for, the remote control's  *)
(* timeout, and the health that is derived from messages and parameters.   *)
(*                                                                         *)
(* Messages are numbered; a field holds the number of the message it was   *)
(* taken from.  One kind of message, the topic, arrives in a behaviour:    *)
(* handlers do not overlap (the registry keeps its mutex), and two kinds   *)
(* share no field.  What has nothing to do with a topic rests then: the    *)
(* plugin is enabled for the remote control and for the health (with the   *)
(* GPS), and rates are set for the position and the battery.               *)
(***************************************************************************)
EXTENDS Integers, Sequences, FiniteSets

CONSTANTS
    Sensors,      \* those whose calibration is asked for: gyro, accel, mag
    RateValues,   \* the rates asked for
    MaxReports,   \* bound: messages of the topic
    MaxChanges,   \* bound: subscriptions and rates that the user sets
    MaxEnables    \* bound: times the plugin is enabled

ASSUME TelemetryAssumption ==
    /\ Sensors \subseteq {"gyro", "accel", "mag"}
    /\ RateValues \subseteq Nat \ {0}
    /\ {MaxReports, MaxChanges, MaxEnables} \subseteq Nat

VARIABLES
    topic,
    stored,      \* the fields: the number of the message
    subscribed,  \* the subscriptions that are set
    informed,    \* per subscription: what its callback was last called with
    steady,      \* history: those that were set when the last message came, and stayed
    recv,        \* what the receive thread has left to do for a message
    content,     \* whether that message reports that all is well
    reports, changes, enables,
    crashed,     \* an empty std::function was called
    remote,      \* _rc_status: [now, once]
    timer,       \* the timeout of the remote control: "none", "armed", "fired"
    ranOut,      \* history: it has, since the plugin was enabled
    enabled,
    health,      \* _health and _hitl_enabled
    queried,     \* parameters that were asked for and not answered
    truth,       \* the vehicle's parameters: calibrated sensors, simulation
    answered,    \* MAVLinkParameters::_cache: those that were answered
    rates,       \* _position_rate_hz and _ground_speed_ned_rate_hz
    ordered,     \* the rates that were sent to the vehicle and not answered
    granted,     \* the rate the vehicle uses
    refused,     \* history: it refused one
    version      \* InfoImpl: what is known of the autopilot

reportVars == <<stored, subscribed, informed, steady, recv, content, reports, crashed>>
remoteVars == <<remote, timer, ranOut>>
healthVars == <<health, queried, answered>>
rateVars == <<rates, ordered, granted, refused>>
telemetryVars == <<topic, reportVars, remoteVars, enabled, enables, changes, healthVars, truth,
                   rateVars, version>>

Parameters == Sensors \cup {"hitl"}

-----------------------------------------------------------------------------
(* The handlers: what they store and whom they tell, in order              *)

Store(field) == [op |-> "store", what |-> field]
Tell(s) == [op |-> "tell", what |-> s]
Do(op) == [op |-> op, what |-> "none"]

\* process_position_velocity_ned, process_global_position_int, process_home_position
PositionMessages ==
    [local  |-> <<Store("local"), Tell("local")>>,
     global |-> <<Store("position"), Store("speed"), Tell("position"), Tell("speed")>>,
     home   |-> <<Store("home"), Do("home"), Tell("home")>>]

\* process_attitude_quaternion, process_mount_orientation
AttitudeMessages ==
    [attitude |-> <<Store("attitude"), Tell("quaternion"), Tell("euler")>>,
     mount    |-> <<Store("mount"), Tell("camera quaternion"), Tell("camera euler")>>]

\* process_gps_raw_int, process_extended_sys_state, process_sys_status
StateMessages ==
    [gps     |-> <<Store("gps"), Do("gps"), Tell("gps")>>,
     landed  |-> <<Store("air"), Tell("air")>>,
     battery |-> <<Store("battery"), Tell("battery")>>]

\* process_heartbeat
HeartbeatMessage ==
    <<Store("armed"), Tell("armed"), Store("mode"), Tell("mode"), Tell("health"), Tell("all ok")>>

\* process_rc_channels
RemoteMessage == <<Store("remote"), Do("remote"), Tell("remote"), Do("refresh")>>

Topics == DOMAIN PositionMessages \cup DOMAIN AttitudeMessages \cup DOMAIN StateMessages
          \cup {"heartbeat", "remote", "version"}

Handler(t) ==
    CASE t \in DOMAIN PositionMessages -> PositionMessages[t]
      [] t \in DOMAIN AttitudeMessages -> AttitudeMessages[t]
      [] t \in DOMAIN StateMessages    -> StateMessages[t]
      [] t = "heartbeat" -> HeartbeatMessage
      [] t = "remote"    -> RemoteMessage
      [] t = "version"   -> <<Do("version")>>

Effects(t, op) == {Handler(t)[i].what : i \in {j \in DOMAIN Handler(t) : Handler(t)[j].op = op}}
StoredFields == UNION {Effects(t, "store") : t \in Topics}
Subscriptions == UNION {Effects(t, "tell") : t \in Topics}

\* what a subscription is told: a field, by the getter the handler calls for it
FieldOf(s) ==
    CASE s \in {"quaternion", "euler"} -> "attitude"
      [] s \in {"camera quaternion", "camera euler"} -> "mount"
      [] OTHER -> s

\* get_health_all_ok
AllOk == \A h \in DOMAIN health \ {"hitl"} : health[h]

\* the getters
Value(s) == IF s \in {"health", "all ok"} THEN IF AllOk THEN 1 ELSE 0 ELSE stored[FieldOf(s)]

-----------------------------------------------------------------------------

TelemetryInit ==
    /\ topic \in Topics
    /\ stored = [f \in StoredFields |-> 0]
    /\ subscribed = {} /\ steady = {} /\ informed = [s \in Subscriptions |-> 0]
    /\ recv = <<>> /\ content = FALSE /\ reports = 0 /\ changes = 0 /\ enables = 0
    /\ crashed = FALSE
    /\ remote = [now |-> FALSE, once |-> FALSE] /\ timer = "none" /\ ranOut = FALSE
    /\ enabled = FALSE
    /\ health = [h \in Parameters \cup {"level", "position", "home"} |-> FALSE]
    /\ queried = <<>> /\ answered = {}
    /\ truth \in IF topic = "gps" THEN SUBSET Parameters ELSE {{}}
    /\ rates = [position |-> -1, speed |-> 0]
    /\ ordered = <<>> /\ granted = 0 /\ refused = FALSE /\ version = "unknown"

\* a message arrives (a heartbeat without a flight mode leaves that part out, and a
\* landed state that is not known is not stored)
Report(full, ok) ==
    /\ recv = <<>> /\ reports < MaxReports /\ ~crashed
    /\ reports' = reports + 1
    /\ content' = ok
    /\ recv' = IF full THEN Handler(topic)
               ELSE SelectSeq(Handler(topic), LAMBDA o : o.what # "mode" /\ o # Store("air"))
    /\ steady' = IF full THEN subscribed ELSE {}
    /\ UNCHANGED <<topic, stored, subscribed, informed, crashed, remoteVars, enabled, enables, changes,
                   healthVars, truth, rateVars, version>>

Next1(op) == recv # <<>> /\ Head(recv).op = op /\ recv' = Tail(recv)

\* the setters
StoreField ==
    /\ Next1("store")
    /\ stored' = [stored EXCEPT ![Head(recv).what] = reports]
    /\ UNCHANGED <<topic, subscribed, informed, steady, content, reports, crashed, remoteVars, enabled,
                   enables, changes, healthVars, truth, rateVars, version>>

\* if (_subscription)
CheckSubscription ==
    /\ recv # <<>> /\ Head(recv).op = "tell"
    /\ recv' = IF Head(recv).what \in subscribed
               THEN <<[Head(recv) EXCEPT !.op = "call"]>> \o Tail(recv)
               ELSE Tail(recv)
    /\ UNCHANGED <<topic, stored, subscribed, informed, steady, content, reports, crashed, remoteVars,
                   enabled, enables, changes, healthVars, truth, rateVars, version>>

\* and the call of it, which throws if the user has taken it back meanwhile
CallSubscription ==
    /\ Next1("call")
    /\ IF Head(recv).what \in subscribed
       THEN informed' = [informed EXCEPT ![Head(recv).what] = Value(Head(recv).what)] /\ UNCHANGED crashed
       ELSE crashed' = TRUE /\ UNCHANGED informed
    /\ UNCHANGED <<topic, stored, subscribed, steady, content, reports, remoteVars, enabled,
                   enables, changes, healthVars, truth, rateVars, version>>

\* set_health_home_position, and the two that follow from the fix of the GPS
SetHealth ==
    /\ Next1("home") \/ Next1("gps")
    /\ health' = IF Head(recv).op = "home" THEN [health EXCEPT !["home"] = TRUE]
                 ELSE [health EXCEPT !["position"] = content]
    /\ UNCHANGED <<topic, stored, subscribed, informed, steady, content, reports, crashed, remoteVars,
                   enabled, enables, changes, queried, answered, truth, rateVars, version>>

\* set_rc_status
RcStatus(available) ==
    remote' = [now |-> available, once |-> remote.once \/ available]

RemoteReported ==
    /\ Next1("remote")
    /\ RcStatus(content)
    /\ UNCHANGED <<topic, stored, subscribed, informed, steady, content, reports, crashed, timer,
                   ranOut, enabled, enables, changes, healthVars, truth, rateVars, version>>

\* Only an entry that is there is refreshed.  When has the link been silent for long
\* enough is not modelled: an armed timer may fire at any moment.
RefreshRemote ==
    /\ Next1("refresh")
    /\ UNCHANGED <<topic, stored, subscribed, informed, steady, content, reports, crashed, remoteVars,
                   enabled, enables, changes, healthVars, truth, rateVars, version>>

\* the timeout: the entry is erased, then receive_rc_channels_timeout is called
FireRemote ==
    /\ timer = "armed"
    /\ timer' = "fired" /\ ranOut' = TRUE
    /\ UNCHANGED <<topic, reportVars, remote, enabled, enables, changes, healthVars, truth,
                   rateVars, version>>

RemoteLost ==
    /\ timer = "fired"
    /\ timer' = "none"
    /\ RcStatus(FALSE)
    /\ UNCHANGED <<topic, reportVars, ranOut, enabled, enables, changes, healthVars, truth,
                   rateVars, version>>

-----------------------------------------------------------------------------
(* Health from parameters                                                  *)

\* set_health_*_calibration
Calibrated(h, p, ok) == [h EXCEPT ![p] = ok \/ h["hitl"]]

\* Faulty variant: the value counts, whether the vehicle is simulated or not.
ReceiveCalibrationAlone(h, p, value) == [h EXCEPT ![p] = value]

\* receive_param_cal_gyro, _accel, _mag
ReceiveCalibration(h, p, value) == Calibrated(h, p, value)

\* receive_param_hitl
ReceiveHitl(h, value) ==
    [x \in DOMAIN h |-> CASE x = "hitl" -> value
                          [] x \in Sensors -> value \/ h[x]
                          [] OTHER -> h[x]]

Received(h, p) ==
    IF p = "hitl" THEN ReceiveHitl(h, p \in truth) ELSE ReceiveCalibration(h, p, p \in truth)

\* the order in which enable() asks
Asking == SelectSeq(<<"gyro", "accel", "mag", "hitl">>, LAMBDA p : p \in Parameters)

\* the health after those that are in the cache were answered at once, hitl the last
FromCache(h) ==
    LET known == [x \in DOMAIN h |-> IF x \in Sensors \cap answered THEN x \in truth \/ h["hitl"] ELSE h[x]]
    IN  IF "hitl" \in answered THEN ReceiveHitl(known, "hitl" \in truth) ELSE known

\* enable(), in the receive thread: between two messages
EnableTelemetry ==
    /\ topic \in {"remote", "gps"} /\ ~enabled /\ recv = <<>> /\ enables < MaxEnables
    /\ timer # "fired"      \* bound: the system thread has left the timer
    /\ enabled' = TRUE /\ enables' = enables + 1
    /\ timer' = "armed" /\ ranOut' = FALSE
    /\ health' = Calibrated(FromCache(health), "level", TRUE)
    /\ queried' = queried \o SelectSeq(Asking, LAMBDA p : p \notin answered)
    /\ UNCHANGED <<topic, reportVars, remote, changes, answered, truth, rateVars, version>>

\* disable(), in the system thread: between two timeouts
DisableTelemetry ==
    /\ enabled /\ timer # "fired"
    /\ enabled' = FALSE /\ timer' = "none"
    /\ UNCHANGED <<topic, reportVars, remote, ranOut, enables, changes, healthVars, truth,
                   rateVars, version>>

\* the parameter client answers, in order; nothing is done about a failure
ParameterAnswered ==
    /\ queried # <<>>
    /\ queried' = Tail(queried)
    /\ health' = Received(health, Head(queried))
    /\ answered' = answered \cup {Head(queried)}
    /\ UNCHANGED <<topic, reportVars, remoteVars, enabled, enables, changes, truth, rateVars, version>>

ParameterFailed ==
    /\ queried # <<>>
    /\ queried' = Tail(queried)
    /\ UNCHANGED <<topic, reportVars, remoteVars, enabled, enables, changes, health, answered, truth,
                   rateVars, version>>

-----------------------------------------------------------------------------
(* The user                                                                *)

Changes == changes < MaxChanges /\ changes' = changes + 1

\* position_async and the others, with a callback or nullptr
Subscribe(s) ==
    /\ Changes /\ s \in Effects(topic, "tell") /\ ~crashed
    /\ subscribed' = IF s \in subscribed THEN subscribed \ {s} ELSE subscribed \cup {s}
    /\ steady' = steady \ {s}
    /\ UNCHANGED <<topic, stored, informed, recv, content, reports, crashed, remoteVars, enabled,
                   enables, healthVars, truth, rateVars, version>>

\* the faster of the two, which come with the same message
Faster(r) == IF r.position > r.speed THEN r.position ELSE r.speed

\* set_rate_position and set_rate_ground_speed_ned, blocking or not
SetRate(which, rate) ==
    /\ topic = "global" /\ Changes
    /\ rates' = [rates EXCEPT ![which] = rate]
    /\ ordered' = Append(ordered, Faster(rates'))
    /\ UNCHANGED <<topic, reportVars, remoteVars, enabled, enables, healthVars, truth, granted,
                   refused, version>>

\* the other set_rate functions ask for what they were given
SetOtherRate(rate) ==
    /\ topic = "battery" /\ Changes
    /\ ordered' = Append(ordered, rate)
    /\ UNCHANGED <<topic, reportVars, remoteVars, enabled, enables, healthVars, truth, rates,
                   granted, refused, version>>

\* the result of a command, and what the vehicle made of it
RateAnswered ==
    /\ ordered # <<>>
    /\ ordered' = Tail(ordered)
    /\ \/ granted' = Head(ordered) /\ UNCHANGED refused
       \/ refused' = TRUE /\ UNCHANGED granted
    /\ UNCHANGED <<topic, reportVars, remoteVars, enabled, enables, changes, healthVars, truth,
                   rates, version>>

-----------------------------------------------------------------------------
(* InfoImpl: process_autopilot_version, and process_heartbeat, which asks for the      *)
(* version again as long as the major number is zero                                   *)

VersionReported ==
    /\ Next1("version")
    /\ version' = IF content THEN "known" ELSE "zero"
    /\ UNCHANGED <<topic, stored, subscribed, informed, steady, content, reports, crashed, remoteVars,
                   enabled, enables, changes, healthVars, truth, rateVars>>

\* the vehicle reports its version only when it is asked
MayReport == topic = "version" => version # "known"

TelemetryNext ==
    \/ \E full, ok \in BOOLEAN : MayReport /\ Report(full, ok)
    \/ StoreField \/ CheckSubscription \/ CallSubscription \/ SetHealth
    \/ RemoteReported \/ RefreshRemote \/ FireRemote \/ RemoteLost
    \/ EnableTelemetry \/ DisableTelemetry \/ ParameterAnswered \/ ParameterFailed
    \/ \E s \in Subscriptions : Subscribe(s)
    \/ \E w \in DOMAIN rates, r \in RateValues : SetRate(w, r)
    \/ \E r \in RateValues : SetOtherRate(r)
    \/ RateAnswered \/ VersionReported

-----------------------------------------------------------------------------
(* Properties                                                              *)

TelemetryTypeOK ==
    /\ topic \in Topics /\ stored \in [StoredFields -> 0..MaxReports]
    /\ steady \subseteq subscribed /\ subscribed \subseteq Subscriptions
    /\ informed \in [Subscriptions -> 0..MaxReports]
    /\ {content, crashed, ranOut, enabled, refused} \subseteq BOOLEAN
    /\ reports \in 0..MaxReports /\ changes \in 0..MaxChanges /\ enables \in 0..MaxEnables
    /\ remote \in [now : BOOLEAN, once : BOOLEAN] /\ timer \in {"none", "armed", "fired"}
    /\ health \in [Parameters \cup {"level", "position", "home"} -> BOOLEAN]
    /\ queried \in Seq(Parameters) /\ answered \subseteq Parameters
    /\ version \in {"unknown", "zero", "known"}

\* A remote control that is reported as available is being watched, from when the
\* plugin is enabled until the timeout has run out once.
RemoteWatched == enabled /\ remote.now /\ ~ranOut => timer = "armed"

\* In whatever order the parameters are answered, and however often the plugin is
\* enabled, a sensor is reported as calibrated just if its parameter said so, or if
\* the vehicle is known to be simulated.
CalibrationKnown ==
    /\ health["hitl"] <=> "hitl" \in answered \cap truth
    /\ \A p \in Sensors : health[p] <=> p \in answered \cap truth \/ health["hitl"]

\* The message with the position and the speed comes often enough for both, once the
\* vehicle has accepted what it was asked for.
RateServesBoth ==
    ordered = <<>> /\ ~refused => \A w \in DOMAIN rates : rates[w] <= granted

\* Who is subscribed all along has been told of the last message, all of them of the
\* same one.
AllTold ==
    recv = <<>> => \A s \in steady \ {"health", "all ok"} : informed[s] = stored[FieldOf(s)]

\* What users rely on: the health and the remote control are what was reported, and
\* subscribers are told of each message, often enough.
TelemetryServed == RemoteWatched /\ CalibrationKnown /\ RateServesBoth /\ AllTold
===============================================================================
