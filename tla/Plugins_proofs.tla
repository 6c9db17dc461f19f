----------------------------- MODULE Plugins_proofs -----------------------------
(***************************************************************************)
(* The safety of the offboard, the log-files and the calibration plugin,   *)
(* for any vehicle, any number of logs and chunks and any bounds: only the *)
(* plugin's own operations, and what the vehicle says, change its          *)
(* variables.  And the safety of the flight that uses the plugins, for     *)
(* missions of any length.                                                 *)
(***************************************************************************)
EXTENDS Plugins, StealthFlight, SequenceTheorems, TLAPS

-----------------------------------------------------------------------------
(* The offboard plugin                                                     *)

\* The operations of the plugin and the heartbeat keep the entry of the present mode, and
\* no other; what else happens leaves the entries alone.
LEMMA OneStreamStep ==
  ASSUME OneStream, [Next]_vars
  PROVE  OneStream'
<1> USE DEF OneStream, offboardVars
<1>1. \A f \in Frames : f # "none"
  BY DEF Frames
<1>2. ASSUME StopSending PROVE OneStream'
  BY <1>2 DEF StopSending
<1>3. CASE CallSetVelocity
  <2> PICK f \in Frames : SetVelocity(f)
    BY <1>3 DEF CallSetVelocity
  <2>1. CASE frame = f
    BY <2>1 DEF SetVelocity
  <2>2. CASE frame # f
    <3>1. entries' = {f} /\ frame' = f /\ cookie' = f
      BY <2>2 DEF SetVelocity
    <3> QED
      BY <1>1, <3>1
  <2> QED
    BY <2>1, <2>2
<1>4. CASE StopOffboard
  BY <1>2, <1>4 DEF StopOffboard
<1>5. CASE HeartbeatForAll
  BY <1>2, <1>5 DEF HeartbeatForAll, Heartbeat
<1>6. CASE OffboardSends \/ OffboardSent \/ OffboardSilence
  BY <1>6 DEF OffboardSends, OffboardSent, OffboardSilence, Tick, SendVelocity, Silence
<1>7. CASE \/ CallAction \/ ActionReturns \/ ActionWorks \/ LandedState
           \/ StartOffboard \/ OffboardReturns
           \/ CallFollow \/ FollowReturns \/ FollowTick \/ FollowSends
  BY <1>7 DEF CallAction, ActionReturns, ActionWorks, LandedState, StartOffboard,
              OffboardReturns, CallFollow, FollowReturns, FollowTick, FollowSends, SaveAction,
              SaveFollow
<1>8. CASE \/ CallCalibrate \/ SendCalibrate \/ CalibrateResult \/ ObeyCalibrate \/ Calibrated
           \/ ProcessStatustext
  BY <1>8 DEF CallCalibrate, SendCalibrate, CalibrateResult, ObeyCalibrate, Calibrated,
              ProcessStatustext, SaveCalibration
<1>9. CASE \/ ObeyOrRefuse \/ Arms \/ Reports \/ Starves \/ TakesOver \/ HasTakenOff
           \/ TouchesDown \/ LoseMessage
  BY <1>9 DEF ObeyOrRefuse, Arms, Reports, Starves, TakesOver, HasTakenOff, TouchesDown,
              LoseMessage, SaveVehicle
<1>10. CASE ListLogs \/ ListTimesOut \/ DownloadLog \/ LogsReceived \/ LogsTimed \/ LogsLost
  BY <1>10 DEF ListLogs, ListTimesOut, DownloadLog, LogsReceived, LogsTimed, LogsLost, SaveLogs
<1>11. CASE UNCHANGED vars
  BY <1>11 DEF vars
<1> QED
  BY <1>3, <1>4, <1>5, <1>6, <1>7, <1>8, <1>9, <1>10, <1>11 DEF Next

\* However calls, heartbeats and the periodic sending interleave, the plugin has the entry
\* of its present mode in the call-every handler, and no other.
THEOREM OneStreamIsSent == Spec => []OneStream
<1>1. Init => OneStream
  BY DEF Init, OffboardInit, OneStream
<1> QED
  BY <1>1, OneStreamStep, PTL DEF Spec

-----------------------------------------------------------------------------
(* The log files                                                           *)

\* Before the first download no chunk is on its way, and nothing was received.
LogsAtRest ==
  downloads = 0 =>
    /\ received = {} /\ ~rerequesting /\ ~reported
    /\ \A m \in mail : m.type = "entry"

\* During the first one, every chunk on its way, or received, is of its log; and
\* whoever writes the file has received all of them.
FirstDownload ==
  downloads <= 1 =>
    /\ \A m \in mail : m.type = "data" => m.log = id
    /\ \A c \in received : bytes[c] = id
    /\ \A t \in Thread : at[t] = "write" => received = Chunk
    /\ reported => \A c \in Chunk : file[c] = id

LogShape ==
  /\ downloads \in Nat /\ received \subseteq Chunk
  /\ bytes \in [Chunk -> LogId \cup {Nothing}]
  /\ at \in [Thread -> {"idle", "expired", "check", "write"}]

LogInv == LogShape /\ LogsAtRest /\ FirstDownload

\* There is a chunk to each log.
LEMMA SomeChunk == Chunk # {}
BY LogAssumption DEF Chunk

LEMMA LogInitInv == LogInit => LogInv
BY SomeChunk DEF LogInit, LogInv, LogShape, LogsAtRest, FirstDownload, Thread

\* The steps of a listing, and a loss: the mail has no new chunk.
LEMMA ListingStep ==
  ASSUME LogInv, GetEntries \/ ProcessLogEntry \/ ListEnded \/ ListAgain \/ LoseMail
  PROVE  LogInv'
<1>1. UNCHANGED dataVars
  BY DEF GetEntries, ProcessLogEntry, ListEnded, ListAgain, ListTimeout, LoseMail
<1>2. \A l \in LogId : Entry(l).type = "entry"
  BY DEF Entry
<1>3. \A m \in mail' : m \in mail \/ m.type = "entry"
  <2>1. CASE GetEntries
    BY <1>2, <2>1 DEF GetEntries
  <2>2. CASE ProcessLogEntry \/ ListEnded \/ LoseMail
    BY <2>2 DEF ProcessLogEntry, ListEnded, LoseMail
  <2>3. CASE ListAgain
    BY <1>2, <2>3 DEF ListAgain
  <2> QED
    BY <2>1, <2>2, <2>3
<1> QED
  BY <1>1, <1>3 DEF dataVars, LogInv, LogShape, LogsAtRest, FirstDownload

\* A download asks for the chunks of its log; the first one starts with nothing else.
LEMMA DownloadStep ==
  ASSUME LogInv, NEW l \in LogId, Download(l)
  PROVE  LogInv'
<1> USE DEF LogInv, LogShape
<1>1. downloads' = downloads + 1 /\ downloads \in Nat
  BY DEF Download
<1>2. LogShape' /\ LogsAtRest'
  BY <1>1 DEF Download, LogsAtRest
<1>3. ASSUME downloads' <= 1 PROVE FirstDownload'
  <2>1. downloads = 0
    BY <1>1, <1>3
  <2>2. received = {} /\ ~reported /\ \A m \in mail : m.type = "entry"
    BY <2>1 DEF LogsAtRest
  <2>3. \A m \in mail' : m.type = "data" => m.log = id'
    BY <2>2 DEF Download, Data
  <2>4. \A t \in Thread : at[t] # "write"
    BY <2>1, <2>2, SomeChunk DEF FirstDownload
  <2> QED
    BY <2>2, <2>3, <2>4 DEF Download, FirstDownload
<1> QED
  BY <1>2, <1>3 DEF FirstDownload

\* A chunk is copied whatever its log.
LEMMA DataStep ==
  ASSUME LogInv, NEW l \in LogId, NEW c \in Chunk, ProcessLogData(l, c)
  PROVE  LogInv'
<1> USE DEF LogInv, LogShape
<1>1. downloads # 0
  BY DEF ProcessLogData, Data, LogsAtRest
<1>2. LogShape' /\ LogsAtRest'
  BY <1>1 DEF ProcessLogData, LogsAtRest, Thread
<1>3. ASSUME downloads <= 1 PROVE FirstDownload'
  <2>1. l = id
    BY <1>3 DEF ProcessLogData, Data, FirstDownload
  <2>2. \A d \in received' : bytes'[d] = id'
    BY <1>3, <2>1 DEF ProcessLogData, FirstDownload
  <2>3. \A t \in Thread : at'[t] = "write" => at[t] = "write"
    BY DEF ProcessLogData
  <2>4. received = Chunk => received' = Chunk
    BY DEF ProcessLogData
  <2>5. \A m \in mail' : m.type = "data" => m.log = id'
    BY <1>3 DEF ProcessLogData, FirstDownload
  <2>6. \A t \in Thread : at'[t] = "write" => received' = Chunk
    BY <1>3, <2>3, <2>4 DEF FirstDownload
  <2>7. reported' => \A d \in Chunk : file'[d] = id'
    BY <1>3 DEF ProcessLogData, FirstDownload
  <2> QED
    BY <2>2, <2>5, <2>6, <2>7 DEF FirstDownload
<1>4. ASSUME ~(downloads <= 1) PROVE FirstDownload'
  <2>1. downloads' = downloads
    BY DEF ProcessLogData
  <2> QED
    BY <1>4, <2>1 DEF FirstDownload
<1> QED
  BY <1>2, <1>3, <1>4

\* The timeout asks again for a chunk of the log that is downloaded.
LEMMA CheckStep ==
  ASSUME LogInv, DataExpired \/ DataTimeout \/ \E t \in Thread : Check(t)
  PROVE  LogInv'
<1> USE DEF LogInv, LogShape
<1>1. CASE DataExpired
  BY <1>1 DEF DataExpired, listVars, LogsAtRest, FirstDownload, Thread
<1>2. CASE DataTimeout
  BY <1>2 DEF DataTimeout, listVars, LogsAtRest, FirstDownload, Thread
<1>3. ASSUME NEW t \in Thread, NotYet(t) PROVE LogInv'
  BY <1>3 DEF NotYet, LogsAtRest, FirstDownload
<1>4. ASSUME NEW t \in Thread, Rerequest(t) PROVE LogInv'
  <2>1. downloads # 0
    BY <1>4 DEF Rerequest, LogsAtRest
  <2>2. LogShape' /\ LogsAtRest'
    BY <1>4, <2>1 DEF Rerequest, LogsAtRest
  <2>3. \A m \in mail' : m \in mail \/ m.log = id
    BY <1>4 DEF Rerequest, Data
  <2> QED
    BY <1>4, <2>2, <2>3 DEF Rerequest, FirstDownload
<1>5. ASSUME NEW t \in Thread, Complete(t) PROVE LogInv'
  BY <1>5 DEF Complete, LogsAtRest, FirstDownload
<1>6. ASSUME NEW t \in Thread, Write(t) PROVE LogInv'
  <2>1. downloads # 0
    BY <1>6, SomeChunk DEF Write, LogsAtRest, FirstDownload
  <2>2. LogShape' /\ LogsAtRest'
    BY <1>6, <2>1 DEF Write, LogsAtRest
  <2>3. downloads <= 1 => \A c \in Chunk : file'[c] = id
    BY <1>6 DEF Write, FirstDownload
  <2> QED
    BY <1>6, <2>2, <2>3 DEF Write, FirstDownload
<1> QED
  BY <1>1, <1>2, <1>3, <1>4, <1>5, <1>6 DEF Check

LEMMA LogStepInv ==
  ASSUME LogInv, LogNext
  PROVE  LogInv'
<1>1. {"receive", "system"} \subseteq Thread
  BY DEF Thread
<1> QED
  BY <1>1, ListingStep, DownloadStep, DataStep, CheckStep DEF LogNext, ReceiveLogs, SystemThread

LEMMA LogUnchanged ==
  ASSUME LogInv, UNCHANGED logVars
  PROVE  LogInv'
BY DEF logVars, dataVars, LogInv, LogShape, LogsAtRest, FirstDownload

\* A step of the plugins is one of the log files, or leaves them alone.
LEMMA LogsAlone ==
  ASSUME [Next]_vars
  PROVE  LogNext \/ UNCHANGED logVars
<1>1. CASE ListLogs \/ ListTimesOut \/ DownloadLog \/ LogsReceived \/ LogsTimed \/ LogsLost
  BY <1>1 DEF ListLogs, ListTimesOut, DownloadLog, LogsReceived, LogsTimed, LogsLost, LogNext
<1>2. CASE \/ CallAction \/ ActionReturns \/ ActionWorks \/ LandedState
           \/ CallSetVelocity \/ StartOffboard \/ StopOffboard \/ OffboardReturns
           \/ OffboardSends \/ OffboardSent \/ OffboardSilence
           \/ CallFollow \/ FollowReturns \/ FollowTick \/ FollowSends
  BY <1>2 DEF CallAction, ActionReturns, ActionWorks, LandedState, CallSetVelocity,
              StartOffboard, StopOffboard, OffboardReturns, OffboardSends, OffboardSent,
              OffboardSilence, CallFollow, FollowReturns, FollowTick, FollowSends, SaveAction,
              SaveOffboard, SaveFollow
<1>3. CASE \/ CallCalibrate \/ SendCalibrate \/ CalibrateResult \/ ObeyCalibrate \/ Calibrated
           \/ ProcessStatustext \/ HeartbeatForAll \/ LoseMessage
  BY <1>3 DEF CallCalibrate, SendCalibrate, CalibrateResult, ObeyCalibrate, Calibrated,
              ProcessStatustext, SaveCalibration, HeartbeatForAll, LoseMessage
<1>4. CASE \/ ObeyOrRefuse \/ Arms \/ Reports \/ Starves \/ TakesOver \/ HasTakenOff
           \/ TouchesDown
  BY <1>4 DEF ObeyOrRefuse, Arms, Reports, Starves, TakesOver, HasTakenOff, TouchesDown,
              SaveVehicle
<1>5. CASE UNCHANGED vars
  BY <1>5 DEF vars
<1> QED
  BY <1>1, <1>2, <1>3, <1>4, <1>5 DEF Next

\* However chunks are lost, repeated and reordered, the file of a first download that is
\* reported as a success is the log, whole.
THEOREM FirstFileIsWhole == Spec => []FirstFileWhole
<1>1. Init => LogInv
  BY LogInitInv DEF Init
<1>2. LogInv /\ [Next]_vars => LogInv'
  BY LogsAlone, LogStepInv, LogUnchanged
<1>3. LogInv => FirstFileWhole
  BY DEF LogInv, LogShape, FirstDownload, FirstFileWhole
<1> QED
  BY <1>1, <1>2, <1>3, PTL DEF Spec

\* Each step leaves a timeout, or a thread on its way to arm it or to report.
LEMMA TimedStep ==
  ASSUME LogInv, LogsAreTimed, dataTimers \in Nat, listTimers \in Nat, LogNext
  PROVE  LogsAreTimed' /\ dataTimers' \in Nat /\ listTimers' \in Nat
<1> USE DEF LogInv, LogShape, LogsAreTimed, Thread, listVars, dataVars
<1>1. CASE GetEntries \/ ProcessLogEntry \/ ListEnded \/ ListAgain
  BY <1>1 DEF GetEntries, ProcessLogEntry, ListEnded, ListAgain, ListTimeout
<1>2. CASE \/ (\E l \in LogId : Download(l)) \/ (\E l \in LogId, c \in Chunk : ProcessLogData(l, c))
           \/ LoseMail
  BY <1>2 DEF Download, ProcessLogData, LoseMail
<1>3. CASE DataExpired \/ DataTimeout
  BY <1>3 DEF DataExpired, DataTimeout
<1>4. ASSUME NEW t \in Thread, Check(t)
      PROVE  LogsAreTimed' /\ dataTimers' \in Nat /\ listTimers' \in Nat
  BY <1>4 DEF Check, NotYet, Rerequest, Complete, Write
<1> QED
  BY <1>1, <1>2, <1>3, <1>4 DEF LogNext, ReceiveLogs, SystemThread

\* A listing that was not answered and a download that was not reported have a timeout, or
\* a thread that is about to arm it or to report, whichever thread completes the download.
THEOREM LogsAreAlwaysTimed == Spec => []LogsAreTimed
<1> DEFINE Inv == LogInv /\ LogsAreTimed /\ dataTimers \in Nat /\ listTimers \in Nat
<1>1. Init => Inv
  BY LogInitInv DEF Init, LogInit, LogsAreTimed
<1>2. Inv /\ [Next]_vars => Inv'
  <2>1. Inv /\ LogNext => Inv'
    BY LogStepInv, TimedStep
  <2>2. Inv /\ UNCHANGED logVars => Inv'
    BY LogUnchanged DEF logVars, listVars, dataVars, LogsAreTimed
  <2> QED
    BY <2>1, <2>2, LogsAlone
<1> QED
  BY <1>1, <1>2, PTL DEF Spec

-----------------------------------------------------------------------------
(* Calibration                                                             *)

\* What is said of a calibration is that it has ended.
Ends(q) ==
  /\ \E S : q \in Seq(S)
  /\ \A i \in 1..Len(q) : q[i].type = "text" => q[i].value = "end"
EndSaid(q) == \E i \in 1..Len(q) : q[i].type = "text"

\* The command sender has a command of the plugin only while one waits.  If the only one
\* that waits has succeeded, the vehicle calibrates or has said that it did: and then
\* that ended whatever was under way, if it was not of an earlier call.
SenderInv ==
  /\ pending = [c \in Client |-> pending[c]] /\ answer = [c \in Client |-> answer[c]]
  /\ commanded = <<>> => pending["calibration"] = "none" /\ answer["calibration"] = "none"
  /\ pending["calibration"] = "none" \/ answer["calibration"] = "none"

EndComes == working > 0 \/ EndSaid(link) \/ missed
CalibrationInv ==
  /\ working \in Nat /\ callers \in Nat /\ commanded \in Seq(Nat)
  /\ Ends(link)
  /\ SenderInv
  /\ calibrating # 0 =>
       \/ EndComes
       \/ commanded # <<>> /\ (Len(commanded) = 1 => answer["calibration"] # "success")

LEMMA CalibrationInitInv == Init => CalibrationInv
<1> SUFFICES ASSUME Init PROVE CalibrationInv
  OBVIOUS
<1> USE PluginsAssumption DEF Init
<1>1. Ends(<<>>)
  <2>1. <<>> \in Seq({}) /\ Len(<<>>) = 0
    OBVIOUS
  <2> QED
    BY <2>1 DEF Ends
<1>2. SenderInv
  BY DEF SenderInv, VehicleInit, Commands, Modes
<1>3. working = 0 /\ callers = 0 /\ commanded = <<>> /\ calibrating = 0 /\ link = <<>>
  BY DEF CalibrationInit, VehicleInit
<1> QED
  BY <1>1, <1>2, <1>3 DEF CalibrationInv

\* What is on its way after a message was received or lost
LEMMA EndsTail ==
  ASSUME NEW q, Ends(q), q # <<>>
  PROVE  /\ Ends(Tail(q))
         /\ EndSaid(q) => EndSaid(Tail(q)) \/ Head(q).type = "text"
         /\ Head(q).type = "text" => Head(q).value = "end"
<1> PICK S : q \in Seq(S)
  BY DEF Ends
<1>1. /\ Len(q) \in Nat /\ Len(q) >= 1 /\ Head(q) = q[1] /\ Tail(q) \in Seq(S)
      /\ Len(Tail(q)) = Len(q) - 1 /\ \A i \in 1..Len(Tail(q)) : Tail(q)[i] = q[i + 1]
  BY HeadTailProperties, LenProperties, EmptySeq
<1>2. \A i \in 1..Len(Tail(q)) : i + 1 \in 1..Len(q)
  BY <1>1
<1>3. 1 \in 1..Len(q)
  BY <1>1
<1>4. Ends(Tail(q))
  BY <1>1, <1>2 DEF Ends
<1>5. ASSUME NEW i \in 1..Len(q), q[i].type = "text", i # 1
      PROVE  EndSaid(Tail(q))
  <2>1. i - 1 \in 1..Len(Tail(q)) /\ Tail(q)[i - 1] = q[i]
    BY <1>1, <1>5
  <2> QED
    BY <1>5, <2>1 DEF EndSaid
<1>6. EndSaid(q) => EndSaid(Tail(q)) \/ Head(q).type = "text"
  BY <1>1, <1>5 DEF EndSaid
<1>7. Head(q).type = "text" => Head(q).value = "end"
  BY <1>1, <1>3 DEF Ends
<1> QED
  BY <1>4, <1>6, <1>7

\* and after one more was sent
LEMMA EndsPost ==
  ASSUME NEW q, Ends(q), NEW m, m.type = "text" => m.value = "end"
  PROVE  /\ Ends(q \o <<m>>)
         /\ EndSaid(q \o <<m>>) <=> EndSaid(q) \/ m.type = "text"
<1> PICK S : q \in Seq(S)
  BY DEF Ends
<1> DEFINE r == q \o <<m>>
           U == S \cup {m}
<1>1. q \in Seq(U)
  <2>1. \A i \in 1..Len(q) : q[i] \in U
    BY ElementOfSeq
  <2> QED
    BY <2>1, LenProperties, SeqDef
<1>2. <<m>> \in Seq(U) /\ Len(<<m>>) = 1 /\ <<m>>[1] = m
  OBVIOUS
<1> HIDE DEF U
<1>3. /\ r \in Seq(U) /\ Len(r) = Len(q) + 1 /\ Len(q) \in Nat
      /\ \A i \in 1..(Len(q) + 1) : r[i] = IF i <= Len(q) THEN q[i] ELSE <<m>>[i - Len(q)]
  BY <1>1, <1>2, ConcatProperties, LenProperties
<1>4. r[Len(q) + 1] = m /\ \A i \in 1..Len(q) : r[i] = q[i]
  BY <1>2, <1>3
<1>5. 1..Len(r) = (1..Len(q)) \cup {Len(q) + 1}
  BY <1>3
<1> HIDE DEF r
<1>6. Ends(r)
  BY <1>3, <1>4, <1>5 DEF Ends
<1>7. EndSaid(r) <=> EndSaid(q) \/ m.type = "text"
  BY <1>4, <1>5, Zenon DEF EndSaid
<1> QED
  BY <1>6, <1>7 DEF r

\* What the vehicle, the command sender and the other plugins do besides
LEMMA BesidesStep ==
  ASSUME CalibrationInv,
         UNCHANGED <<calibrating, commanded, callers, working, missed>>,
         Ends(link'), EndSaid(link) => EndSaid(link'),
         SenderInv', answer'["calibration"] \in {answer["calibration"], "failure"}
  PROVE  CalibrationInv'
BY DEF CalibrationInv, EndComes

LEMMA LinkKeepsEnds ==
  ASSUME CalibrationInv,
         \/ link' = link
         \/ \E type : type # "text" /\ Receives(type)
         \/ Report
  PROVE  Ends(link') /\ (EndSaid(link) => EndSaid(link'))
<1>1. Ends(link)
  BY DEF CalibrationInv
<1>2. CASE link' = link
  BY <1>1, <1>2
<1>3. CASE \E type : type # "text" /\ Receives(type)
  BY <1>1, <1>3, EndsTail DEF Receives
<1>4. CASE Report
  <2> DEFINE beat == [type |-> "heartbeat", value |-> mode, armed |-> armed]
             state(v) == [type |-> "landed", value |-> v]
  <2>1. beat.type # "text" /\ \A v : state(v).type # "text"
    OBVIOUS
  <2>2. \/ link' = link \o <<beat>>
        \/ link' = link \o <<state(IF air THEN "air" ELSE "ground")>>
        \/ link' = link \o <<state("between")>>
    BY <1>4 DEF Report, Post
  <2> HIDE DEF beat, state
  <2> QED
    BY <1>1, <2>1, <2>2, EndsPost
<1> QED
  BY <1>2, <1>3, <1>4

\* A command of another plugin, or its result
LEMMA OthersCommand ==
  ASSUME SenderInv, commanded' = commanded, NEW c, c # "calibration",
         \/ \E what : Command(c, what)
         \/ \E r : Result(c, r)
         \/ UNCHANGED commandVars
         \/ Obey(c) \/ Refuse(c)
  PROVE  SenderInv' /\ answer'["calibration"] = answer["calibration"]
<1>1. pending' = pending \/ \E what : pending' = [pending EXCEPT ![c] = what]
  BY DEF Command, Result, commandVars, Obey, Refuse, Answered
<1>2. answer' = answer \/ \E r : answer' = [answer EXCEPT ![c] = r]
  BY DEF Command, Result, commandVars, Obey, Refuse, Answered
<1> QED
  BY <1>1, <1>2, PluginsAssumption DEF SenderInv

LEMMA OthersStep ==
  ASSUME CalibrationInv,
         \/ CallAction \/ ActionReturns \/ ActionWorks \/ LandedState
         \/ CallSetVelocity \/ StartOffboard \/ StopOffboard \/ OffboardReturns
         \/ OffboardSends \/ OffboardSent \/ OffboardSilence
         \/ CallFollow \/ FollowReturns \/ FollowTick \/ FollowSends
  PROVE  CalibrationInv'
<1>1. UNCHANGED <<calibrating, commanded, callers, working, missed>>
  BY DEF CallAction, ActionReturns, ActionWorks, LandedState, CallSetVelocity, StartOffboard,
         StopOffboard, OffboardReturns, OffboardSends, OffboardSent, OffboardSilence,
         CallFollow, FollowReturns, FollowTick, FollowSends, SaveAction, SaveOffboard, SaveFollow,
         calibrationVars
<1>2. Ends(link') /\ (EndSaid(link) => EndSaid(link'))
  <2>1. link' = link \/ Receives("landed")
    BY DEF CallAction, ActionReturns, ActionWorks, SendStep, TakeResult, DenyInPassing,
           LandedState, ExtendedSysState, CallSetVelocity, StartOffboard, StopOffboard,
           OffboardReturns, OffboardSends, OffboardSent, OffboardSilence, Tick, SendVelocity,
           Silence, CallFollow, FollowReturns, FollowTick, FollowSends
  <2> QED
    BY <2>1, LinkKeepsEnds
<1>3. \E c \in {"action", "offboard", "follow"} :
         \/ \E what : Command(c, what)
         \/ \E r : Result(c, r)
         \/ UNCHANGED commandVars
  <2>1. CASE CallAction \/ ActionReturns \/ LandedState \/ DenyInPassing
    BY <2>1 DEF CallAction, Begin, Deny, ActionReturns, DenyInPassing, LandedState,
                ExtendedSysState, commandVars
  <2>2. CASE SendStep("action") \/ TakeResult("action")
    BY <2>2 DEF SendStep, TakeResult
  <2>3. CASE CallSetVelocity \/ OffboardSends \/ OffboardSent \/ OffboardSilence
    BY <2>3 DEF CallSetVelocity, OffboardSends, OffboardSent, OffboardSilence, Tick, SendVelocity,
                Silence
  <2>4. CASE StartOffboard \/ StopOffboard \/ OffboardReturns
    BY <2>4 DEF StartOffboard, StopOffboard, OffboardReturns
  <2>5. CASE CallFollow \/ FollowReturns \/ FollowTick \/ FollowSends
    BY <2>5 DEF CallFollow, FollowReturns, FollowTick, FollowSends
  <2> QED
    BY <2>1, <2>2, <2>3, <2>4, <2>5 DEF ActionWorks
<1>4. SenderInv' /\ answer'["calibration"] = answer["calibration"]
  BY <1>1, <1>3, OthersCommand DEF CalibrationInv
<1> QED
  BY <1>1, <1>2, <1>4, BesidesStep

LEMMA VehicleStep ==
  ASSUME CalibrationInv,
         \/ ObeyOrRefuse \/ Arms \/ Reports \/ Starves \/ TakesOver \/ HasTakenOff \/ TouchesDown
         \/ HeartbeatForAll
  PROVE  CalibrationInv'
<1>1. UNCHANGED <<calibrating, commanded, callers, working, missed>>
  BY DEF ObeyOrRefuse, Arms, Reports, Starves, TakesOver, HasTakenOff, TouchesDown, SaveVehicle,
         HeartbeatForAll, HeartbeatArmed, calibrationVars, userVars
<1>2. Ends(link') /\ (EndSaid(link) => EndSaid(link'))
  <2>1. link' = link \/ Receives("heartbeat") \/ Report
    BY DEF ObeyOrRefuse, Obey, Refuse, Arms, Reports, Starves, Starve, TakesOver, TakeOver,
           HasTakenOff, TakenOff, TouchesDown, TouchDown, HeartbeatForAll, Heartbeat
  <2> QED
    BY <2>1, LinkKeepsEnds
<1>3. SenderInv' /\ answer'["calibration"] \in {answer["calibration"], "failure"}
  <2>1. CASE Refuse("calibration")
    <3>1. /\ pending["calibration"] # "none"
          /\ pending' = [pending EXCEPT !["calibration"] = "none"]
          /\ answer' = [answer EXCEPT !["calibration"] = "failure"]
      BY <2>1 DEF Refuse, Answered
    <3> QED
      BY <1>1, <3>1, PluginsAssumption DEF SenderInv, CalibrationInv
  <2>2. CASE \E c \in Client \ {"calibration"} : Obey(c) \/ Refuse(c)
    BY <1>1, <2>2, OthersCommand DEF CalibrationInv
  <2>3. CASE UNCHANGED commandVars
    BY <1>1, <2>3 DEF commandVars, SenderInv, CalibrationInv
  <2> QED
    BY <2>1, <2>2, <2>3 DEF ObeyOrRefuse, Arms, Reports, Report, Starves, Starve, TakesOver,
       TakeOver, HasTakenOff, TakenOff, TouchesDown, TouchDown, HeartbeatForAll, Heartbeat,
       commandVars
<1> QED
  BY <1>1, <1>2, <1>3, BesidesStep

\* A call appends its command, the only one if no other waits.
LEMMA CallStep ==
  ASSUME CalibrationInv, CallCalibrate
  PROVE  CalibrationInv'
<1>1. UNCHANGED <<commandVars, link, working, missed>>
  BY DEF CallCalibrate
<1>2. callers' = callers + 1 /\ callers' \in Nat
  BY DEF CallCalibrate, CalibrateArmed, CalibrateBusy, Calibrate, CalibrationInv
<1>3. SenderInv /\ Ends(link')
  BY <1>1 DEF CalibrationInv
<1>4. CASE CalibrateArmed \/ CalibrateBusy
  BY <1>1, <1>2, <1>4 DEF CalibrateArmed, CalibrateBusy, CalibrationInv, EndComes, SenderInv,
                          commandVars
<1>5. CASE Calibrate
  <2>1. commanded' = Append(commanded, callers')
    BY <1>5 DEF Calibrate
  <2>2. commanded' \in Seq(Nat) /\ commanded' # <<>> /\ Len(commanded') = Len(commanded) + 1
    BY <1>2, <2>1 DEF CalibrationInv
  <2>3. Len(commanded') = 1 => answer["calibration"] # "success"
    BY <1>3, <2>2 DEF CalibrationInv, SenderInv
  <2> QED
    BY <1>1, <1>2, <1>3, <2>2, <2>3 DEF CalibrationInv, SenderInv, commandVars
<1> QED
  BY <1>4, <1>5 DEF CallCalibrate

\* The command is sent, the vehicle obeys it, and its result is taken.
LEMMA CommandStep ==
  ASSUME CalibrationInv, SendCalibrate \/ CalibrateResult \/ ObeyCalibrate
  PROVE  CalibrationInv'
<1> USE PluginsAssumption
<1>1. link' = link /\ callers' = callers /\ missed' = missed /\ Ends(link') /\ SenderInv
  BY DEF SendCalibrate, CalibrateResult, CommandResult, ObeyCalibrate, Obey, calibrationVars,
         CalibrationInv
<1>2. CASE SendCalibrate
  <2>1. /\ answer' = answer /\ answer["calibration"] = "none" /\ commanded # <<>>
        /\ pending' = [pending EXCEPT !["calibration"] = "calibrate"]
        /\ UNCHANGED <<calibrating, commanded, working>>
    BY <1>2 DEF SendCalibrate, Command, calibrationVars
  <2>2. SenderInv'
    BY <1>1, <2>1 DEF SenderInv
  <2> QED
    BY <1>1, <2>1, <2>2 DEF CalibrationInv, EndComes
<1>3. CASE ObeyCalibrate
  <2>1. /\ UNCHANGED <<calibrating, commanded>> /\ working' = working + 1
        /\ pending["calibration"] # "none"
        /\ pending' = [pending EXCEPT !["calibration"] = "none"]
        /\ \E r : answer' = [answer EXCEPT !["calibration"] = r]
    BY <1>3 DEF ObeyCalibrate, Obey, Answered, calibrationVars
  <2>2. SenderInv'
    BY <1>1, <2>1 DEF SenderInv
  <2>3. EndComes' /\ working' \in Nat
    BY <2>1 DEF EndComes, CalibrationInv
  <2> QED
    BY <1>1, <2>1, <2>2, <2>3 DEF CalibrationInv
<1>4. CASE CalibrateResult
  <2> PICK r \in {"success", "failure"} : Result("calibration", r) /\ CommandResult(r)
    BY <1>4 DEF CalibrateResult
  <2>1. /\ answer["calibration"] = r /\ pending' = pending
        /\ answer' = [answer EXCEPT !["calibration"] = "none"]
        /\ commanded' = Tail(commanded) /\ working' = working
        /\ r = "failure" /\ calibrating # 0 => calibrating' = 0
        /\ calibrating' # 0 => calibrating' = calibrating
    BY <1>4 DEF Result, CommandResult, End, CalibrateResult
  <2>2. commanded # <<>> /\ pending["calibration"] = "none"
    BY <1>1, <2>1 DEF SenderInv
  <2>3. commanded' \in Seq(Nat) /\ Len(commanded') = Len(commanded) - 1
    BY <2>1, <2>2 DEF CalibrationInv
  <2>4. SenderInv' /\ answer'["calibration"] = "none"
    BY <1>1, <2>1, <2>2 DEF SenderInv
  <2>5. ASSUME calibrating' # 0, ~EndComes' PROVE commanded' # <<>>
    <3>1. calibrating # 0 /\ r = "success" /\ ~EndComes
      BY <1>1, <2>1, <2>5 DEF EndComes
    <3>2. Len(commanded) # 1
      BY <2>1, <3>1 DEF CalibrationInv
    <3> QED
      BY <2>2, <2>3, <3>2 DEF CalibrationInv
  <2> QED
    BY <1>1, <2>1, <2>3, <2>4, <2>5 DEF CalibrationInv
<1> QED
  BY <1>2, <1>3, <1>4

\* The vehicle says that it has calibrated, and the text ends what is under way or is lost.
LEMMA TextStep ==
  ASSUME CalibrationInv, Calibrated \/ ProcessStatustext \/ LoseMessage
  PROVE  CalibrationInv'
<1>1. UNCHANGED <<commandVars, commanded, callers>> /\ Ends(link)
  BY DEF Calibrated, ProcessStatustext, Statustext, LoseMessage, Lose, calibrationVars,
         CalibrationInv
<1>2. SenderInv' /\ answer' = answer
  BY <1>1 DEF CalibrationInv, SenderInv, commandVars
<1>3. CASE Calibrated
  <2> DEFINE m == [type |-> "text", value |-> "end"]
  <2>1. /\ calibrating' = calibrating /\ working > 0 /\ working' = working - 1
        /\ link' = link \o <<m>>
    BY <1>3 DEF Calibrated, Post, calibrationVars
  <2>2. m.type = "text" /\ m.value = "end"
    OBVIOUS
  <2>3. Ends(link') /\ EndSaid(link')
    BY <1>1, <2>1, <2>2, EndsPost
  <2>4. working' \in Nat
    BY <2>1 DEF CalibrationInv
  <2> QED
    BY <1>1, <1>2, <2>3, <2>4 DEF CalibrationInv, EndComes
<1>4. CASE ProcessStatustext
  <2>1. /\ Receives("text") /\ UNCHANGED <<working, missed>>
        /\ Statustext(Head(link).value)
    BY <1>4 DEF ProcessStatustext
  <2>2. Ends(link') /\ Head(link).value = "end"
    BY <1>1, <2>1, EndsTail DEF Receives
  <2>3. calibrating' = 0
    BY <2>1, <2>2 DEF Statustext, End
  <2> QED
    BY <1>1, <1>2, <2>1, <2>2, <2>3 DEF CalibrationInv
<1>5. CASE LoseMessage
  <2>1. /\ link # <<>> /\ link' = Tail(link) /\ missed' = (missed \/ Head(link).type = "text")
        /\ UNCHANGED <<calibrating, working>>
    BY <1>5 DEF LoseMessage, Lose, calibrationVars
  <2>2. Ends(link') /\ (EndSaid(link) => EndSaid(link') \/ missed')
    BY <1>1, <2>1, EndsTail
  <2>3. missed => missed'
    BY <2>1
  <2> QED
    BY <1>1, <1>2, <2>1, <2>2, <2>3 DEF CalibrationInv, EndComes
<1> QED
  BY <1>3, <1>4, <1>5

LEMMA CalibrationStepInv ==
  ASSUME CalibrationInv, [Next]_vars
  PROVE  CalibrationInv'
<1>1. CASE ListLogs \/ ListTimesOut \/ DownloadLog \/ LogsReceived \/ LogsTimed \/ LogsLost
  BY <1>1 DEF ListLogs, ListTimesOut, DownloadLog, LogsReceived, LogsTimed, LogsLost, SaveLogs,
              commandVars, calibrationVars, userVars, CalibrationInv, SenderInv, EndComes
<1>2. CASE UNCHANGED vars
  BY <1>2 DEF vars, commandVars, calibrationVars, userVars, CalibrationInv, SenderInv, EndComes
<1> QED
  BY <1>1, <1>2, OthersStep, VehicleStep, CallStep, CommandStep, TextStep DEF Next

\* Whatever the order in which results, texts, losses and calls come, a calibration that
\* is under way is waiting for something that has been asked for or is on its way.
THEOREM CalibrationIsUnderWay == Spec => []CalibrationUnderWay
<1>1. CalibrationInv => CalibrationUnderWay
  <2> SUFFICES ASSUME CalibrationInv, EndSaid(link) PROVE Texts # {}
    BY DEF CalibrationInv, CalibrationUnderWay, EndComes
  <2>1. DOMAIN link = 1..Len(link)
    BY LenProperties DEF CalibrationInv, Ends
  <2> QED
    BY <2>1 DEF EndSaid, Texts
<1> QED
  BY <1>1, CalibrationInitInv, CalibrationStepInv, PTL DEF Spec

-----------------------------------------------------------------------------
(* The flight                                                              *)

\* What the vehicle says of the last message of the mission, it says after the mission.
Truthful(q, over) ==
  /\ \E S : q \in Seq(S)
  /\ \A i \in 1..Len(q) : q[i].type = "reached" /\ q[i].value = Last => over

FlightInv ==
  /\ Truthful(link, flown)
  /\ pc \notin {"upload", "failed", "lost", "silent"} /\ reached = Last => flown
  /\ RtlAfterMission

LEMMA FlightInitInv == FlightInit => FlightInv
<1> SUFFICES ASSUME FlightInit PROVE FlightInv
  OBVIOUS
<1>1. link = <<>> /\ pc = "upload"
  BY DEF FlightInit, VehicleInit
<1>2. \A over : Truthful(<<>>, over)
  <2>1. <<>> \in Seq({}) /\ Len(<<>>) = 0
    OBVIOUS
  <2> QED
    BY <2>1 DEF Truthful
<1> QED
  BY <1>1, <1>2 DEF FlightInv, RtlAfterMission

\* What is still on its way after a message was received or lost
LEMMA TruthfulTail ==
  ASSUME NEW q, NEW over, Truthful(q, over), q # <<>>
  PROVE  /\ Truthful(Tail(q), over)
         /\ Head(q).type = "reached" /\ Head(q).value = Last => over
<1> PICK S : q \in Seq(S)
  BY DEF Truthful
<1>1. /\ Len(q) \in Nat /\ Len(q) >= 1 /\ Head(q) = q[1] /\ Tail(q) \in Seq(S)
      /\ Len(Tail(q)) = Len(q) - 1 /\ \A i \in 1..Len(Tail(q)) : Tail(q)[i] = q[i + 1]
  BY HeadTailProperties, LenProperties, EmptySeq
<1>2. \A i \in 1..Len(Tail(q)) : i + 1 \in 1..Len(q)
  BY <1>1
<1>3. 1 \in 1..Len(q)
  BY <1>1
<1> QED
  BY <1>1, <1>2, <1>3 DEF Truthful

\* More messages that tell the truth
LEMMA TruthfulPost ==
  ASSUME NEW q, NEW over, Truthful(q, over), NEW ms, Truthful(ms, over)
  PROVE  Truthful(q \o ms, over)
<1> PICK S : q \in Seq(S)
  BY DEF Truthful
<1> PICK T : ms \in Seq(T)
  BY DEF Truthful
<1> DEFINE U == S \cup T
<1>1. q \in Seq(U) /\ ms \in Seq(U)
  <2>1. \A i \in 1..Len(q) : q[i] \in U
    BY ElementOfSeq
  <2>2. \A i \in 1..Len(ms) : ms[i] \in U
    BY ElementOfSeq
  <2> QED
    BY <2>1, <2>2, LenProperties, SeqDef
<1> HIDE DEF U
<1>2. /\ q \o ms \in Seq(U) /\ Len(q \o ms) = Len(q) + Len(ms)
      /\ Len(q) \in Nat /\ Len(ms) \in Nat
      /\ \A i \in 1..(Len(q) + Len(ms)) :
           (q \o ms)[i] = IF i <= Len(q) THEN q[i] ELSE ms[i - Len(q)]
  BY <1>1, ConcatProperties, LenProperties
<1>3. ASSUME NEW i \in 1..Len(q \o ms)
      PROVE  (q \o ms)[i].type = "reached" /\ (q \o ms)[i].value = Last => over
  <2>1. CASE i <= Len(q)
    <3>1. i \in 1..Len(q) /\ (q \o ms)[i] = q[i]
      BY <1>2, <1>3, <2>1
    <3> QED
      BY <3>1 DEF Truthful
  <2>2. CASE ~(i <= Len(q))
    <3>1. i - Len(q) \in 1..Len(ms) /\ (q \o ms)[i] = ms[i - Len(q)]
      BY <1>2, <1>3, <2>2
    <3> QED
      BY <3>1 DEF Truthful
  <2> QED
    BY <2>1, <2>2
<1> QED
  BY <1>2, <1>3 DEF Truthful

\* Heartbeats and landed states say nothing of the mission.
LEMMA TruthfulReport ==
  ASSUME Truthful(link, flown), Report
  PROVE  Truthful(link', flown)
<1>1. ASSUME NEW m, m.type # "reached" PROVE Truthful(<<m>>, flown)
  <2> DEFINE q == <<m>>
  <2>1. q \in Seq({m}) /\ Len(q) = 1 /\ q[1] = m
    OBVIOUS
  <2> HIDE DEF q
  <2>2. Truthful(q, flown)
    BY <1>1, <2>1 DEF Truthful
  <2> QED
    BY <2>2 DEF q
<1>2. PICK m : m.type # "reached" /\ link' = link \o <<m>>
  <2> DEFINE beat == [type |-> "heartbeat", value |-> mode, armed |-> armed]
             state(v) == [type |-> "landed", value |-> v]
  <2>1. beat.type # "reached" /\ \A v : state(v).type # "reached"
    OBVIOUS
  <2>2. \/ link' = link \o <<beat>>
        \/ link' = link \o <<state(IF air THEN "air" ELSE "ground")>>
        \/ link' = link \o <<state("between")>>
    BY DEF Report, Post
  <2> HIDE DEF beat, state
  <2> QED
    BY <2>1, <2>2
<1> QED
  BY <1>1, <1>2, TruthfulPost

\* The vehicle says that it has reached the last message after it has flown the mission.
LEMMA TruthfulFlyOn ==
  ASSUME Truthful(link, flown), FlyOn
  PROVE  Truthful(link', flown') /\ (flown => flown')
<1> DEFINE a == [type |-> "reached", value |-> item]
           b == [type |-> "current", value |-> IF item = Last THEN 0 ELSE item + 1]
           ms == <<a, b>>
<1>1. link' = link \o ms /\ flown' = (flown \/ item = Last)
  BY DEF FlyOn, Post
<1>2. flown => flown'
  BY <1>1
<1>3. Truthful(link, flown')
  BY <1>2 DEF Truthful
<1>4. Truthful(ms, flown')
  <2>1. a.type = "reached" /\ a.value = item /\ b.type = "current"
    OBVIOUS
  <2> HIDE DEF a, b
  <2>2. ms \in Seq({a, b}) /\ Len(ms) = 2 /\ ms[1] = a /\ ms[2] = b
    OBVIOUS
  <2>3. a.value = Last => flown'
    BY <1>1, <2>1
  <2> HIDE DEF ms
  <2>4. \A i \in 1..Len(ms) : i = 1 \/ i = 2
    BY <2>2
  <2>5. \A i \in 1..Len(ms) : ms[i].type = "reached" /\ ms[i].value = Last => flown'
    BY <2>1, <2>2, <2>3, <2>4
  <2> QED
    BY <2>2, <2>5 DEF Truthful
<1> QED
  BY <1>1, <1>2, <1>3, <1>4, TruthfulPost

\* The program goes home when it knows that the mission is over: what it heard of an earlier
\* mission is forgotten by then.
LEMMA MainStep ==
  ASSUME FlightInv, Main \/ TimedOut
  PROVE  FlightInv'
<1>1. UNCHANGED <<link, flown>>
  BY DEF Main, TimedOut, Upload, AskAction, ActionAnswers, SetMode, ModeSet, NoSetpointSet, WaitToPause,
     Setpoint, Leave, Finish, Disarmed, missionVars
<1>2. ASSUME reached' = reached,
             pc \in {"upload", "failed", "lost", "silent"} => pc' \in {"upload", "failed", "lost", "silent"},
             pc' \in {"rtl", "disarmed", "done"} => pc \in {"rtl", "disarmed", "done"}
      PROVE  FlightInv'
  BY <1>1, <1>2 DEF FlightInv, RtlAfterMission
<1>3. CASE Upload
  BY <1>1, <1>3, FlightAssumption DEF Upload, FlightInv, RtlAfterMission
<1>4. CASE AskAction
  BY <1>2, <1>4 DEF AskAction, missionVars
<1>5. CASE ActionAnswers
  <2>1. /\ pc \in {"arm", "takeoff", "rtl"} /\ reached' = reached
        /\ pc' \in {"failed", "takeoff", "start", "disarmed"}
        /\ pc' = "disarmed" => pc = "rtl"
    BY <1>5 DEF ActionAnswers, Asking, Asks, Outcome, After, missionVars
  <2> QED
    BY <1>2, <2>1
<1>6. ASSUME NEW stage \in DOMAIN Sets, SetMode(stage) \/ ModeSet(stage) PROVE FlightInv'
  <2>1. stage \in {"start", "pause", "offboard", "leave", "resume"}
    BY <1>6 DEF Sets
  <2>2. /\ pc \in {"start", "pause", "offboard", "leave", "resume",
                   "starting", "pausing", "entering", "leaving", "resuming"}
        /\ pc' \in {"failed", "wait", "setpoint", "fly", "resume", "finish",
                    "starting", "pausing", "entering", "leaving", "resuming"}
        /\ reached' = reached
    BY <1>6, <2>1 DEF SetMode, ModeSet, Go, Outcome, Waits, Then, missionVars
  <2> QED
    BY <1>2, <2>2
<1>7. CASE NoSetpointSet \/ WaitToPause \/ Setpoint \/ Leave \/ Disarmed \/ TimedOut
  <2>1. /\ pc \in {"upload", "failed", "lost", "silent"} => pc' \in {"upload", "failed", "lost", "silent"}
        /\ pc' \in {"rtl", "disarmed", "done"} => pc \in {"rtl", "disarmed", "done"}
        /\ reached' = reached
    BY <1>7 DEF NoSetpointSet, WaitToPause, Setpoint, Leave, Disarmed, TimedOut, Go, missionVars
  <2> QED
    BY <1>2, <2>1
<1>8. CASE Finish
  BY <1>1, <1>8 DEF Finish, MissionFinished, Go, FlightInv, RtlAfterMission, missionVars
<1> QED
  BY <1>3, <1>4, <1>5, <1>6, <1>7, <1>8 DEF Main

\* Everything else: messages are sent, lost and received, and main() stays where it is.
LEMMA ElsewhereStep ==
  ASSUME FlightInv, UNCHANGED <<pc, reached, flown>>, Truthful(link', flown)
  PROVE  FlightInv'
BY DEF FlightInv, RtlAfterMission

LEMMA LinkStep ==
  ASSUME FlightInv, link # <<>>, link' = Tail(link), UNCHANGED <<pc, flown>>,
         (reached' # reached => Head(link).type = "reached" /\ reached' = Head(link).value)
  PROVE  FlightInv'
<1>1. /\ Truthful(link', flown)
      /\ Head(link).type = "reached" /\ Head(link).value = Last => flown
  BY TruthfulTail DEF FlightInv
<1> QED
  BY <1>1 DEF FlightInv, RtlAfterMission

LEMMA FlightStep ==
  ASSUME FlightInv, [FlightNext]_flightVars
  PROVE  FlightInv'
<1>1. CASE Main \/ TimedOut
  BY <1>1, MainStep
<1>2. CASE Report /\ Elsewhere
  BY <1>2, TruthfulReport, ElsewhereStep DEF Elsewhere, missionVars, FlightInv
<1>3. CASE FlyOn
  <2>1. Truthful(link', flown') /\ (flown => flown') /\ UNCHANGED <<pc, reached>>
    BY <1>3, TruthfulFlyOn DEF FlightInv, FlyOn
  <2> QED
    BY <2>1 DEF FlightInv, RtlAfterMission
<1>4. CASE \/ (Heartbeat \/ ExtendedSysState) /\ Elsewhere
           \/ Current \/ Reached \/ LoseOnLink
  <2>1. /\ link # <<>> /\ link' = Tail(link) /\ UNCHANGED <<pc, flown>>
        /\ (reached' # reached => Head(link).type = "reached" /\ reached' = Head(link).value)
    BY <1>4 DEF Heartbeat, ExtendedSysState, Elsewhere, missionVars, Current, Reached, LoseOnLink,
       Lose, Receives
  <2> QED
    BY <2>1, LinkStep
<1>5. CASE UNCHANGED <<link, pc, reached, flown>>
  BY <1>5, ElsewhereStep DEF FlightInv
<1>6. CASE /\ \/ Starve \/ TakeOver \/ TakenOff \/ TouchDown \/ Tick \/ SendVelocity \/ Silence
              \/ SendStep("action") \/ TakeResult("action")
              \/ \E c \in Client : Obey(c) \/ Refuse(c)
           /\ Elsewhere
  <2>1. UNCHANGED <<link, pc, reached, flown>>
    BY <1>6 DEF Starve, TakeOver, TakenOff, TouchDown, Tick, SendVelocity, Silence, SendStep, TakeResult,
       Obey, Refuse, Elsewhere, missionVars
  <2> QED
    BY <1>5, <2>1
<1>7. CASE UNCHANGED flightVars
  BY <1>5, <1>7 DEF flightVars, missionVars
<1> QED
  BY <1>1, <1>2, <1>3, <1>4, <1>6, <1>7 DEF FlightNext, Main

\* The program sends the vehicle home only when it has flown the mission just uploaded to
\* its end, whatever is lost on the way and whatever was heard of an earlier mission.
THEOREM HomeAfterMission == FlightSpec => []RtlAfterMission
<1>1. FlightInit => FlightInv
  BY FlightInitInv
<1>2. FlightInv /\ [FlightNext]_flightVars => FlightInv'
  BY FlightStep
<1>3. FlightInv => RtlAfterMission
  BY DEF FlightInv
<1> QED
  BY <1>1, <1>2, <1>3, PTL DEF FlightSpec
===============================================================================
