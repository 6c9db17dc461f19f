-------------------------- MODULE BlockingCalls_proofs --------------------------
(***************************************************************************)
(* The safety of the components whose callers wait: the promises of the    *)
(* backend, the transfers and settings of the serial port, the callbacks   *)
(* of the camera, and the jobs of the thread pool, for any threads, calls, *)
(* settings and bounds.                                                    *)
(* A step of BlockingCalls is a step of one component and leaves the       *)
(* variables of the others alone, so each invariant is proved from the     *)
(* steps of its own component.                                             *)
(***************************************************************************)
EXTENDS BlockingCalls, SequenceTheorems, FiniteSetTheorems, TLAPS

-----------------------------------------------------------------------------
(* The backend                                                             *)

Rpc ==
  [topic : {"none"} \cup UnaryKinds \cup Streams,
   step  : {"new", "checked", "storing", "waiting", "open", "returned"},
   gone  : BOOLEAN, set : Nat, finished : BOOLEAN]
Writing == [of : RpcCall \cup {NoRpc}, step : {"none", "write", "close"}]

BackendShape ==
  /\ discovery \in {0, 1}
  /\ rpc \in [RpcCall -> Rpc]
  /\ place \in [Streams -> RpcCall \cup {NoRpc}]
  /\ writing \in [PoolThread -> Writing]
  /\ subscribers \in PoolThread \cup {"free"}

\* How often the promise of a stream was set, by how far the call is: that of a
\* stream of the camera just if the stream is finished.
PromiseOf(r) ==
  /\ r.step = "new" => r.set = 0 /\ ~r.finished
  /\ r.step \in {"checked", "storing"} => r.topic \in MissionCalls
  /\ r.step = "waiting" => r.topic \in UnaryKinds
  /\ r.step = "open" => r.topic \in Streams
  /\ r.step = "returned" => r.topic \in UnaryKinds \cup Streams
  /\ r.topic \in CameraStreams => r.set = IF r.finished THEN 1 ELSE 0
  /\ r.topic \in TelemetryStreams => r.set = 0
PromiseInv == \A c \in RpcCall : PromiseOf(rpc[c])

\* A callback belongs to a stream that was opened; between its failed write to the
\* camera's client and the promise it has _subscribe_mutex, and the stream is not
\* finished yet.
CallbackInv ==
  \A w \in PoolThread :
     /\ writing[w].step # "none" =>
           /\ writing[w].of \in RpcCall
           /\ rpc[writing[w].of].topic \in Streams
           /\ rpc[writing[w].of].step \in {"open", "returned"}
     /\ writing[w].step = "close" => rpc[writing[w].of].topic \notin TelemetryStreams
     /\ writing[w].step = "close" /\ rpc[writing[w].of].topic \in CameraStreams =>
           subscribers = w /\ ~rpc[writing[w].of].finished

BackendInv == BackendShape /\ PromiseInv /\ CallbackInv

UnaryShape ==
  /\ missionActivity \in {"none", "set", "get", "current"}
  /\ {requester, resultCallback, itemsCallback} \subseteq RpcCall \cup {NoRpc}
  /\ reports \in [RpcCall -> Nat]
  /\ again \subseteq RpcCall

\* A callback that is kept, or waits in the pool, is that of a unary call whose method
\* waits or has waited; a download is the request of a call for one.
Answerable(r) == r.topic \in UnaryKinds /\ r.step \in {"waiting", "returned"}
KeptInv ==
  /\ \A c \in RpcCall : reports[c] > 0 => Answerable(rpc[c])
  /\ resultCallback # NoRpc =>
        Answerable(rpc[resultCallback]) /\ rpc[resultCallback].topic \in {"upload", "current"}
  /\ itemsCallback # NoRpc =>
        Answerable(rpc[itemsCallback]) /\ rpc[itemsCallback].topic = "download"
  /\ missionActivity = "get" =>
        /\ requester \in RpcCall /\ rpc[requester].topic = "download"
        /\ rpc[requester].step # "new"

\* Results of a call, those in the pool included: none before its callback is stored, and
\* none as long as the activity is its own.
Unanswered(c) ==
  \/ rpc[c].step \in {"new", "checked", "storing"}
  \/ c = requester /\ c = resultCallback /\ missionActivity \in {"set", "current"}
  \/ c = requester /\ c = itemsCallback /\ missionActivity = "get"
ReportedInv ==
  \A c \in RpcCall \ again :
     /\ Unanswered(c) => reports[c] = 0 /\ rpc[c].set = 0
     /\ rpc[c].topic \in UnaryKinds => reports[c] + rpc[c].set <= 1

UnaryInv == UnaryShape /\ KeptInv /\ ReportedInv

LEMMA BackendInitInv ==
  ASSUME BackendInit
  PROVE  BackendInv /\ UnaryInv
<1>1. NewRpc \in Rpc /\ NoWrite \in Writing
  BY DEF Rpc, Writing, NewRpc, NoWrite
<1>2. PromiseOf(NewRpc)
  BY DEF PromiseOf, NewRpc, UnaryKinds, CameraStreams, ModeStreams, VideoStreams,
         CaptureStreams, StatusStreams, SettingStreams, TelemetryStreams
<1>3. BackendShape
  BY <1>1 DEF BackendInit, BackendShape
<1>4. PromiseInv /\ CallbackInv
  BY <1>2 DEF BackendInit, PromiseInv, CallbackInv, NoWrite
<1>5. UnaryShape
  BY DEF BackendInit, UnaryShape
<1>6. KeptInv
  BY DEF BackendInit, KeptInv
<1>7. ReportedInv
  BY DEF BackendInit, ReportedInv, NewRpc
<1> QED
  BY <1>3, <1>4, <1>5, <1>6, <1>7 DEF BackendInv, UnaryInv

\* The kinds of calls have different topics.
LEMMA Topics ==
  /\ MissionCalls \subseteq UnaryKinds
  /\ UnaryKinds \cap (TelemetryStreams \cup CameraStreams \cup ProgressStreams) = {}
  /\ TelemetryStreams \cap CameraStreams = {}
  /\ ProgressStreams \cap CameraStreams = {}
  /\ ProgressStreams \cap TelemetryStreams = {}
  /\ Streams \subseteq TelemetryStreams \cup CameraStreams \cup ProgressStreams
BY BackendAssumption
   DEF UnaryKinds, MissionCalls, CameraStreams, ModeStreams, VideoStreams, ProgressStreams,
       CaptureStreams, StatusStreams, SettingStreams, TelemetryStreams, PositionStreams,
       StateStreams, AttitudeStreams, LinkStreams

\* A step that changes one call, and keeps the topic of a stream and whether it is
\* finished.
LEMMA RpcStep ==
  ASSUME BackendInv, NEW c \in RpcCall, NEW r \in Rpc,
         rpc' = [rpc EXCEPT ![c] = r], PromiseOf(r),
         rpc[c].topic \in Streams /\ rpc[c].step \in {"open", "returned"} =>
            /\ r.topic = rpc[c].topic /\ r.step \in {"open", "returned"}
            /\ r.finished = rpc[c].finished,
         place' \in [Streams -> RpcCall \cup {NoRpc}],
         UNCHANGED <<discovery, writing, subscribers>>
  PROVE  BackendInv'
<1> USE DEF BackendInv
<1>1. rpc'[c] = r /\ \A d \in RpcCall \ {c} : rpc'[d] = rpc[d]
  BY DEF BackendShape
<1>2. BackendShape'
  BY DEF BackendShape
<1>3. PromiseInv'
  BY <1>1 DEF PromiseInv
<1>4. CallbackInv'
  BY <1>1 DEF CallbackInv
<1> QED
  BY <1>2, <1>3, <1>4

\* A step of the thread w, within a callback.
LEMMA WritingStep ==
  ASSUME BackendInv, NEW w \in PoolThread, NEW x \in Writing,
         writing' = [writing EXCEPT ![w] = x],
         x.step # "none" =>
            /\ x.of \in RpcCall
            /\ rpc[x.of].topic \in Streams /\ rpc[x.of].step \in {"open", "returned"},
         x.step = "close" => rpc[x.of].topic \notin TelemetryStreams,
         x.step = "close" /\ rpc[x.of].topic \in CameraStreams =>
            subscribers = "free" /\ subscribers' = w /\ ~rpc[x.of].finished,
         subscribers' \in {subscribers, w},
         subscribers' = subscribers \/ subscribers = "free",
         UNCHANGED <<discovery, rpc, place>>
  PROVE  BackendInv'
<1> USE BackendAssumption DEF BackendInv
<1>1. writing'[w] = x /\ \A v \in PoolThread \ {w} : writing'[v] = writing[v]
  BY DEF BackendShape
<1>2. BackendShape'
  BY DEF BackendShape
<1>3. PromiseInv'
  BY DEF PromiseInv
<1>4. CallbackInv'
  BY <1>1, ZenonT(30) DEF CallbackInv, BackendShape
<1> QED
  BY <1>2, <1>3, <1>4

\* One more setting of the promise of a call.
LEMMA SetAgain ==
  ASSUME NEW r \in Rpc
  PROVE  r.set + 1 \in Nat /\ (r.set = 0 => r.set + 1 = 1)
<1>1. r.set \in Nat
  BY DEF Rpc
<1> QED
  BY <1>1

\* A step that changes a unary call alone.
LEMMA UnaryRpc ==
  ASSUME BackendInv, NEW c \in RpcCall, NEW r \in Rpc,
         rpc' = [rpc EXCEPT ![c] = r], r.topic \in UnaryKinds,
         r.step \in {"checked", "storing", "waiting", "returned"},
         r.step \in {"checked", "storing"} => r.topic \in MissionCalls,
         rpc[c].step = "new" \/ rpc[c].topic \in UnaryKinds,
         UNCHANGED serviceVars
  PROVE  BackendInv'
<1>1. PromiseOf(r)
  BY Topics DEF PromiseOf
<1>2. ~(rpc[c].topic \in Streams /\ rpc[c].step \in {"open", "returned"})
  BY Topics
<1>3. place' \in [Streams -> RpcCall \cup {NoRpc}] /\ UNCHANGED <<discovery, writing, subscribers>>
  BY DEF serviceVars, BackendInv, BackendShape
<1> QED
  BY <1>1, <1>2, <1>3, RpcStep

LEMMA UnaryStep ==
  ASSUME BackendInv, UnaryInv, NEW c \in RpcCall,
         \/ UnaryBegin(c) \/ MissionBegin(c) \/ SetActivity(c) \/ StoreCallback(c)
         \/ UnaryCallback(c) \/ UnaryReturns(c)
  PROVE  BackendInv'
<1>0. rpc[c] \in Rpc /\ PromiseOf(rpc[c]) /\ rpc \in [RpcCall -> Rpc]
  BY DEF BackendInv, BackendShape, PromiseInv
<1>1. ASSUME NEW k \in UnaryKinds, NEW s \in {"checked", "waiting", "returned"},
             rpc' = [rpc EXCEPT ![c].topic = k, ![c].step = s],
             s = "checked" => k \in MissionCalls,
             rpc[c].step = "new", UNCHANGED serviceVars
      PROVE  BackendInv'
  <2> DEFINE r == [rpc[c] EXCEPT !.topic = k, !.step = s]
  <2>1. rpc' = [rpc EXCEPT ![c] = r]
    BY <1>0, <1>1
  <2>2. r \in Rpc /\ r.topic = k /\ r.step = s
    BY <1>0, <1>1 DEF Rpc
  <2> HIDE DEF r
  <2> QED
    BY <1>1, <2>1, <2>2, UnaryRpc
<1>2. ASSUME NEW s \in {"storing", "waiting", "returned"},
             rpc' = [rpc EXCEPT ![c].step = s],
             rpc[c].step \in {"checked", "storing", "waiting"},
             s = "storing" => rpc[c].step = "checked", UNCHANGED serviceVars
      PROVE  BackendInv'
  <2> DEFINE r == [rpc[c] EXCEPT !.step = s]
  <2>1. rpc' = [rpc EXCEPT ![c] = r]
    BY <1>0, <1>2
  <2>2. r \in Rpc /\ r.topic = rpc[c].topic /\ r.step = s
    BY <1>0, <1>2 DEF Rpc
  <2>3. rpc[c].topic \in UnaryKinds /\ (s = "storing" => rpc[c].topic \in MissionCalls)
    BY <1>0, <1>2 DEF PromiseOf, UnaryKinds
  <2> HIDE DEF r
  <2> QED
    BY <1>2, <2>1, <2>2, <2>3, UnaryRpc
<1>3. CASE UnaryBegin(c)
  <2>1. PICK k \in UnaryKinds \ MissionCalls :
           rpc' = [rpc EXCEPT ![c].topic = k,
                              ![c].step = IF k = "at once" THEN "returned" ELSE "waiting"]
    BY <1>3 DEF UnaryBegin
  <2> QED
    BY <1>1, <1>3, <2>1 DEF UnaryBegin
<1>4. CASE MissionBegin(c)
  <2>1. PICK k \in MissionCalls, s \in {"checked", "waiting"} :
           rpc' = [rpc EXCEPT ![c].topic = k, ![c].step = s]
    BY <1>4 DEF MissionBegin
  <2>2. k \in UnaryKinds
    BY DEF UnaryKinds
  <2> QED
    BY <1>1, <1>4, <2>1, <2>2 DEF MissionBegin
<1>5. CASE SetActivity(c) \/ StoreCallback(c) \/ UnaryReturns(c)
  BY <1>2, <1>5 DEF SetActivity, StoreCallback, UnaryReturns
<1>6. CASE UnaryCallback(c)
  <2> DEFINE r == [rpc[c] EXCEPT !.set = @ + 1]
  <2>1. rpc' = [rpc EXCEPT ![c] = r]
    BY <1>0, <1>6 DEF UnaryCallback
  <2>2. rpc[c].set + 1 \in Nat
    BY <1>0, SetAgain
  <2>3. r \in Rpc /\ r.topic = rpc[c].topic /\ r.step = rpc[c].step
    BY <1>0, <2>2 DEF Rpc
  <2>4. Answerable(rpc[c])
    BY <1>6 DEF UnaryInv, KeptInv, UnaryCallback
  <2> HIDE DEF r
  <2> QED
    BY <1>6, <2>1, <2>3, <2>4, UnaryRpc DEF UnaryCallback, Answerable
<1> QED
  BY <1>3, <1>4, <1>5, <1>6

LEMMA StreamStep ==
  ASSUME BackendInv, NEW c \in RpcCall, SubscribeTopic(c) \/ ClientGone(c) \/ StreamReturns(c)
  PROVE  BackendInv'
<1>0. rpc[c] \in Rpc /\ PromiseOf(rpc[c]) /\ place \in [Streams -> RpcCall \cup {NoRpc}]
  BY DEF BackendInv, BackendShape, PromiseInv
<1>1. CASE SubscribeTopic(c)
  <2>1. PICK t \in Streams :
           /\ rpc' = [rpc EXCEPT ![c].topic = t, ![c].step = "open"]
           /\ place' = [place EXCEPT ![t] = c]
    BY <1>1 DEF SubscribeTopic
  <2> DEFINE r == [rpc[c] EXCEPT !.topic = t, !.step = "open"]
  <2>2. rpc' = [rpc EXCEPT ![c] = r]
    BY <2>1 DEF BackendInv, BackendShape
  <2>3. r \in Rpc
    BY <1>0 DEF Rpc
  <2>4. PromiseOf(r) /\ rpc[c].step = "new"
    BY <1>0, <1>1, Topics DEF PromiseOf, SubscribeTopic, Rpc
  <2>5. place' \in [Streams -> RpcCall \cup {NoRpc}]
    BY <1>0, <2>1
  <2> HIDE DEF r
  <2> QED
    BY <1>1, <2>2, <2>3, <2>4, <2>5, RpcStep DEF SubscribeTopic
<1>2. CASE ClientGone(c)
  <2> DEFINE r == [rpc[c] EXCEPT !.gone = TRUE]
  <2>2. rpc' = [rpc EXCEPT ![c] = r]
    BY <1>2 DEF ClientGone, BackendInv, BackendShape
  <2>3. r \in Rpc
    BY <1>0 DEF Rpc
  <2>4. /\ PromiseOf(r) /\ r.topic = rpc[c].topic /\ r.step = "open"
        /\ r.finished = rpc[c].finished
    BY <1>0, <1>2 DEF PromiseOf, ClientGone, Rpc
  <2> HIDE DEF r
  <2> QED
    BY <1>0, <1>2, <2>2, <2>3, <2>4, RpcStep DEF ClientGone
<1>3. CASE StreamReturns(c)
  <2> DEFINE r == [rpc[c] EXCEPT !.step = "returned"]
  <2>2. rpc' = [rpc EXCEPT ![c] = r]
    BY <1>3 DEF StreamReturns, BackendInv, BackendShape
  <2>3. r \in Rpc
    BY <1>0 DEF Rpc
  <2>4. /\ PromiseOf(r) /\ r.topic = rpc[c].topic /\ r.step = "returned"
        /\ r.finished = rpc[c].finished
    BY <1>0, <1>3 DEF PromiseOf, StreamReturns, Rpc
  <2> HIDE DEF r
  <2> QED
    BY <1>0, <1>3, <2>2, <2>3, <2>4, RpcStep DEF StreamReturns
<1> QED
  BY <1>1, <1>2, <1>3

LEMMA NotifyStep ==
  ASSUME BackendInv, NEW w \in PoolThread, NEW t \in Streams, Notify(w, t)
  PROVE  BackendInv'
<1> DEFINE x == [of |-> place[t], step |-> "write"]
<1>1. x \in Writing /\ place[t] \in RpcCall
  BY DEF Notify, BackendInv, BackendShape, Writing
<1>2. rpc[place[t]].topic \in Streams /\ rpc[place[t]].step = "open"
  BY <1>1 DEF Notify, BackendInv, PromiseInv, PromiseOf
<1>3. writing' = [writing EXCEPT ![w] = x]
  BY DEF Notify
<1> QED
  BY <1>1, <1>2, <1>3, WritingStep DEF Notify

\* The callback looks whether the client has gone, with the mutex if it is the camera's.
LEMMA WriteStep ==
  ASSUME BackendInv, NEW w \in PoolThread, Write(w)
  PROVE  BackendInv'
<1> DEFINE c == writing[w].of
           closes == rpc[c].gone /\ ~rpc[c].finished /\ rpc[c].topic \notin TelemetryStreams
           x == IF closes THEN [writing[w] EXCEPT !.step = "close"] ELSE NoWrite
<1>1. /\ writing[w] \in Writing /\ writing[w].step = "write" /\ c \in RpcCall
      /\ rpc[c].topic \in Streams /\ rpc[c].step \in {"open", "returned"}
  BY DEF Write, BackendInv, BackendShape, CallbackInv
<1>2. writing' = [writing EXCEPT ![w] = x]
  BY DEF Write, BackendInv, BackendShape
<1>3. x \in Writing /\ (x.step # "none" => closes /\ x.of = c /\ x.step = "close")
  BY <1>1 DEF Writing, NoWrite
<1>4. /\ closes /\ rpc[c].topic \in CameraStreams => subscribers = "free" /\ subscribers' = w
      /\ ~(closes /\ rpc[c].topic \in CameraStreams) => subscribers' = subscribers
  BY DEF Write, NeedsLock, LockIsFree
<1> HIDE DEF x
<1> QED
  BY <1>1, <1>2, <1>3, <1>4, WritingStep DEF Write

\* The promise is set: nobody else can be about to set that of a stream of the camera,
\* as this would take the same mutex.
LEMMA CloseStep ==
  ASSUME BackendInv, NEW w \in PoolThread, CloseStream(w)
  PROVE  BackendInv'
<1> DEFINE c == writing[w].of
           r == [rpc[c] EXCEPT !.finished = TRUE, !.set = @ + 1]
<1>1. /\ c \in RpcCall /\ rpc[c] \in Rpc /\ PromiseOf(rpc[c])
      /\ rpc[c].topic \in Streams \ TelemetryStreams
      /\ rpc[c].topic \in CameraStreams => subscribers = w /\ ~rpc[c].finished
  BY DEF CloseStream, BackendInv, BackendShape, CallbackInv, PromiseInv
<1>2. rpc' = [rpc EXCEPT ![c] = r]
  BY <1>1 DEF CloseStream, BackendInv, BackendShape
<1>3. /\ r \in Rpc /\ r.topic = rpc[c].topic /\ r.step = rpc[c].step
      /\ r.finished /\ r.set = rpc[c].set + 1
  <2>1. rpc[c].set + 1 \in Nat
    BY <1>1, SetAgain
  <2> QED
    BY <1>1, <2>1 DEF Rpc
<1> HIDE DEF r
<1>4. PromiseOf(r)
  <2>1. r.step \in {"open", "returned"}
    BY <1>1, <1>3 DEF CloseStream, BackendInv, CallbackInv
  <2>2. r.topic \in Streams /\ r.topic \notin TelemetryStreams /\ r.topic \notin UnaryKinds
    BY <1>1, <1>3, Topics
  <2>3. r.topic \in CameraStreams => r.set = 1
    BY <1>1, <1>3, SetAgain DEF PromiseOf
  <2> QED
    BY <1>3, <2>1, <2>2, <2>3 DEF PromiseOf
<1>5. rpc'[c] = r /\ \A d \in RpcCall \ {c} : rpc'[d] = rpc[d]
  BY <1>1, <1>2 DEF BackendInv, BackendShape
<1>6. writing'[w] = NoWrite /\ \A v \in PoolThread \ {w} : writing'[v] = writing[v]
  BY DEF CloseStream, BackendInv, BackendShape
<1>7. BackendShape'
  <2>1. NoWrite \in Writing
    BY DEF NoWrite, Writing
  <2>2. rpc' \in [RpcCall -> Rpc]
    BY <1>2, <1>3 DEF BackendInv, BackendShape
  <2>3. writing' \in [PoolThread -> Writing] /\ subscribers' \in PoolThread \cup {"free"}
    BY <2>1 DEF CloseStream, BackendInv, BackendShape
  <2> QED
    BY <2>2, <2>3 DEF CloseStream, BackendInv, BackendShape
<1>8. PromiseInv'
  BY <1>4, <1>5 DEF BackendInv, PromiseInv
<1>9. CallbackInv'
  <2>1. ASSUME NEW v \in PoolThread, v # w, writing[v].step # "none"
        PROVE  /\ writing[v].of \in RpcCall
               /\ rpc'[writing[v].of].topic = rpc[writing[v].of].topic
               /\ rpc'[writing[v].of].step = rpc[writing[v].of].step
    BY <1>3, <1>5, <2>1 DEF BackendInv, CallbackInv
  <2>2. ASSUME NEW v \in PoolThread, v # w, writing[v].step = "close",
               rpc[writing[v].of].topic \in CameraStreams
        PROVE  subscribers' = v /\ ~rpc'[writing[v].of].finished
    <3>1. subscribers = v /\ ~rpc[writing[v].of].finished
      BY <2>2 DEF BackendInv, CallbackInv
    <3>2. writing[v].of # c
      BY <1>1, <2>2, <3>1
    <3> QED
      BY <1>5, <2>1, <2>2, <3>1, <3>2 DEF CloseStream
  <2>3. writing'[w].step = "none"
    BY <1>6 DEF NoWrite
  <2>4. ASSUME NEW v \in PoolThread
        PROVE  /\ writing'[v].step # "none" =>
                     /\ writing'[v].of \in RpcCall
                     /\ rpc'[writing'[v].of].topic \in Streams
                     /\ rpc'[writing'[v].of].step \in {"open", "returned"}
               /\ writing'[v].step = "close" =>
                     rpc'[writing'[v].of].topic \notin TelemetryStreams
               /\ writing'[v].step = "close" /\ rpc'[writing'[v].of].topic \in CameraStreams =>
                     subscribers' = v /\ ~rpc'[writing'[v].of].finished
    <3>1. CASE v = w
      BY <2>3, <3>1
    <3>2. CASE v # w
      BY <1>6, <2>1, <2>2, <3>2 DEF BackendInv, CallbackInv
    <3> QED
      BY <3>1, <3>2
  <2> QED
    BY <2>4 DEF CallbackInv
<1> QED
  BY <1>7, <1>8, <1>9 DEF BackendInv

LEMMA BackendStepInv ==
  ASSUME BackendInv, UnaryInv, BackendNext
  PROVE  BackendInv'
<1>1. CASE Connect \/ Serve \/ StopTelemetry \/ Discover
  BY <1>1 DEF Connect, Serve, StopTelemetry, Discover, BackendInv, BackendShape,
              PromiseInv, CallbackInv
<1>2. ASSUME NEW w \in PoolThread, Write(w) \/ CloseStream(w) \/ \E t \in Streams : Notify(w, t)
      PROVE  BackendInv'
  BY <1>2, WriteStep, CloseStep, NotifyStep
<1>3. CASE \/ (\E accepted \in BOOLEAN : MissionAck(accepted))
           \/ CurrentSet \/ Downloaded \/ MissionTimeout \/ \E c \in RpcCall : OneResult(c)
  <2>1. UNCHANGED <<serviceVars, rpc>>
    BY <1>3 DEF MissionAck, CurrentSet, Downloaded, MissionTimeout, OneResult
  <2> QED
    BY <2>1 DEF serviceVars, BackendInv, BackendShape, PromiseInv, CallbackInv
<1> QED
  BY <1>1, <1>2, <1>3, UnaryStep, StreamStep DEF BackendNext

\* The mission plugin's callbacks and the results in the pool are not touched by a step
\* that keeps the kind of a call, and the promise of a unary one.
LEMMA UnaryKept ==
  ASSUME UnaryInv, UNCHANGED unaryVars,
         \A c \in RpcCall :
            /\ rpc[c].step # "new" => rpc'[c].topic = rpc[c].topic /\ rpc'[c].step # "new"
            /\ rpc'[c].topic \in UnaryKinds => rpc'[c].set = rpc[c].set
            /\ Answerable(rpc[c]) => Answerable(rpc'[c])
            /\ rpc'[c].step \in {"new", "checked", "storing"} =>
                  rpc'[c].set = rpc[c].set /\ rpc[c].step \in {"new", "checked", "storing"}
  PROVE  UnaryInv'
<1>1. UnaryShape'
  BY DEF UnaryInv, UnaryShape, unaryVars, missionSlots
<1>2. KeptInv'
  BY BackendAssumption DEF UnaryInv, UnaryShape, KeptInv, Answerable, unaryVars, missionSlots
<1>3. ReportedInv'
  <2> SUFFICES ASSUME NEW c \in RpcCall \ again
               PROVE  /\ Unanswered(c)' => reports[c] = 0 /\ rpc'[c].set = 0
                      /\ rpc'[c].topic \in UnaryKinds => reports[c] + rpc'[c].set <= 1
    BY DEF ReportedInv, unaryVars
  <2>1. Unanswered(c)' => Unanswered(c) /\ rpc'[c].set = rpc[c].set
    <3>1. UNCHANGED <<missionActivity, requester, resultCallback, itemsCallback>>
      BY DEF unaryVars, missionSlots
    <3>2. CASE rpc'[c].step \in {"new", "checked", "storing"}
      BY <3>2 DEF Unanswered
    <3>3. CASE Unanswered(c)' /\ rpc'[c].step \notin {"new", "checked", "storing"}
      <4>1. Unanswered(c) /\ c \in {resultCallback, itemsCallback}
        BY <3>1, <3>3 DEF Unanswered
      <4>2. c # NoRpc
        BY BackendAssumption DEF NoRpc
      <4>3. Answerable(rpc[c])
        BY <4>1, <4>2 DEF UnaryInv, KeptInv
      <4>4. rpc'[c].topic \in UnaryKinds
        BY <4>3 DEF Answerable
      <4> QED
        BY <4>1, <4>4
    <3> QED
      BY <3>2, <3>3
  <2>2. rpc[c].step = "new" => Unanswered(c)
    BY DEF Unanswered
  <2>3. rpc'[c].topic \in UnaryKinds => rpc[c].step = "new" \/ rpc[c].topic \in UnaryKinds
    OBVIOUS
  <2> QED
    BY <2>1, <2>2, <2>3 DEF UnaryInv, ReportedInv
<1> QED
  BY <1>1, <1>2, <1>3 DEF UnaryInv

\* A result goes to a callback that is kept: if the activity ends with it and is that
\* call's own, it is the first.
LEMMA ReportStep ==
  ASSUME BackendInv, UnaryInv, NEW c \in {resultCallback, itemsCallback}, NEW goesOn \in BOOLEAN,
         ReportTo(c, goesOn), UNCHANGED <<rpc, requester, resultCallback, itemsCallback>>,
         c # NoRpc /\ c = requester /\ ~goesOn => Unanswered(c),
         (missionActivity' = missionActivity /\ goesOn) \/ missionActivity' = "none"
  PROVE  UnaryInv'
<1>1. /\ reports' \in [RpcCall -> Nat] /\ again' \subseteq RpcCall /\ again \subseteq again'
      /\ \A d \in RpcCall : reports'[d] = IF d = c THEN reports[d] + 1 ELSE reports[d]
      /\ c # NoRpc /\ c \notin again' => ~goesOn /\ c = requester
  BY DEF ReportTo, UnaryInv, UnaryShape
<1>2. UnaryShape'
  BY <1>1 DEF UnaryInv, UnaryShape
<1>3. KeptInv'
  <2>1. c \in RpcCall => Answerable(rpc[c])
    BY BackendAssumption DEF UnaryInv, KeptInv, NoRpc
  <2> QED
    BY <1>1, <2>1 DEF UnaryInv, KeptInv
<1>4. ReportedInv'
  <2> SUFFICES ASSUME NEW d \in RpcCall \ again'
               PROVE  /\ Unanswered(d)' => reports'[d] = 0 /\ rpc[d].set = 0
                      /\ rpc[d].topic \in UnaryKinds => reports'[d] + rpc[d].set <= 1
    BY DEF ReportedInv
  <2>0. d \notin again
    BY <1>1
  <2>1. CASE d # c
    <3>1. Unanswered(d)' => Unanswered(d)
      BY DEF Unanswered
    <3> QED
      BY <1>1, <2>0, <2>1, <3>1 DEF UnaryInv, ReportedInv
  <2>2. CASE d = c
    <3>1. c # NoRpc /\ c = requester /\ ~goesOn
      BY <1>1, <2>2, BackendAssumption DEF NoRpc
    <3>2. reports[d] = 0 /\ rpc[d].set = 0 /\ reports'[d] = 1
      BY <1>1, <2>0, <2>2, <3>1 DEF UnaryInv, ReportedInv
    <3>3. Answerable(rpc[c]) /\ missionActivity' = "none"
      BY <3>1 DEF UnaryInv, KeptInv
    <3>4. ~Unanswered(d)'
      BY <2>2, <3>3 DEF Unanswered, Answerable
    <3> QED
      BY <3>2, <3>4
  <2> QED
    BY <2>1, <2>2
<1> QED
  BY <1>2, <1>3, <1>4 DEF UnaryInv

LEMMA MissionResultStep ==
  ASSUME BackendInv, UnaryInv,
         \/ (\E accepted \in BOOLEAN : MissionAck(accepted))
         \/ CurrentSet \/ Downloaded \/ MissionTimeout
  PROVE  UnaryInv'
<1>1. ASSUME NEW accepted \in BOOLEAN, MissionAck(accepted) PROVE UnaryInv'
  BY <1>1, ReportStep DEF MissionAck, Unanswered
<1>2. CASE CurrentSet
  BY <1>2, ReportStep DEF CurrentSet, Unanswered
<1>3. CASE Downloaded
  BY <1>3, ReportStep DEF Downloaded, Unanswered
<1>4. CASE MissionTimeout /\ missionActivity = "get"
  <2>1. resultCallback # NoRpc => resultCallback # requester
    BY <1>4 DEF UnaryInv, KeptInv
  <2> QED
    BY <1>4, <2>1, ReportStep DEF MissionTimeout
<1>5. CASE MissionTimeout /\ missionActivity # "get"
  <2>1. /\ missionActivity' = "none"
        /\ UNCHANGED <<rpc, requester, resultCallback, itemsCallback, reports, again>>
    BY <1>5 DEF MissionTimeout
  <2> QED
    BY <2>1 DEF UnaryInv, UnaryShape, KeptInv, ReportedInv, Unanswered
<1> QED
  BY <1>1, <1>2, <1>3, <1>4, <1>5

\* A call whose callback is not kept yet is asked for, or answered.
LEMMA NewMissionStep ==
  ASSUME BackendInv, UnaryInv, NEW c \in RpcCall,
         MissionBegin(c) \/ SetActivity(c) \/ StoreCallback(c) \/ OneResult(c) \/ UnaryCallback(c)
  PROVE  UnaryInv'
<1>0. /\ rpc \in [RpcCall -> Rpc] /\ rpc[c] \in Rpc /\ PromiseOf(rpc[c])
      /\ reports \in [RpcCall -> Nat] /\ c # NoRpc /\ rpc[c].set \in Nat
  BY BackendAssumption
     DEF BackendInv, BackendShape, PromiseInv, UnaryInv, UnaryShape, NoRpc, Rpc
<1>1. CASE MissionBegin(c)
  <2>1. PICK k \in MissionCalls, s \in {"checked", "waiting"} :
           /\ rpc' = [rpc EXCEPT ![c].topic = k, ![c].step = s]
           /\ reports' = IF s = "waiting" THEN [reports EXCEPT ![c] = @ + 1] ELSE reports
    BY <1>1 DEF MissionBegin
  <2>2. rpc[c].step = "new" /\ UNCHANGED <<missionSlots, again>>
    BY <1>1 DEF MissionBegin
  <2>3. /\ rpc'[c].topic = k /\ rpc'[c].step = s /\ rpc'[c].set = rpc[c].set
        /\ \A d \in RpcCall \ {c} : rpc'[d] = rpc[d] /\ reports'[d] = reports[d]
        /\ s = "checked" => reports'[c] = reports[c]
        /\ s = "waiting" => reports'[c] = reports[c] + 1
    BY <1>0, <2>1 DEF Rpc
  <2>4. c # resultCallback /\ c # itemsCallback /\ (missionActivity = "get" => c # requester)
    BY <1>0, <2>2 DEF UnaryInv, KeptInv, Answerable
  <2>5. UnaryShape'
    BY <1>0, <2>1, <2>2 DEF UnaryInv, UnaryShape, missionSlots
  <2>6. KeptInv'
    <3>1. reports[c] = 0
      BY <1>0, <2>2 DEF UnaryInv, KeptInv, Answerable
    <3>2. k \in UnaryKinds
      BY DEF UnaryKinds
    <3> QED
      BY <2>2, <2>3, <2>4, <3>1, <3>2, BackendAssumption
         DEF UnaryInv, UnaryShape, KeptInv, Answerable, missionSlots, NoRpc
  <2>7. ReportedInv'
    <3> SUFFICES ASSUME NEW d \in RpcCall \ again
                 PROVE  /\ Unanswered(d)' => reports'[d] = 0 /\ rpc'[d].set = 0
                        /\ rpc'[d].topic \in UnaryKinds => reports'[d] + rpc'[d].set <= 1
      BY <2>2 DEF ReportedInv
    <3>1. CASE d # c
      BY <2>2, <2>3, <3>1 DEF UnaryInv, ReportedInv, Unanswered, missionSlots
    <3>2. CASE d = c
      <4>1. reports[c] = 0 /\ rpc[c].set = 0
        BY <2>2, <3>2 DEF UnaryInv, ReportedInv, Unanswered
      <4>2. Unanswered(c)' => s = "checked"
        BY <2>2, <2>3, <2>4 DEF Unanswered, missionSlots
      <4> QED
        BY <2>3, <3>2, <4>1, <4>2
    <3> QED
      BY <3>1, <3>2
  <2> QED
    BY <2>5, <2>6, <2>7 DEF UnaryInv
<1>2. CASE SetActivity(c)
  <2>1. /\ rpc[c].step = "checked" /\ rpc' = [rpc EXCEPT ![c].step = "storing"]
        /\ missionActivity' = ActivityOf(rpc[c].topic) /\ requester' = c
        /\ UNCHANGED <<resultCallback, itemsCallback, reports, again>>
    BY <1>2 DEF SetActivity
  <2>2. /\ rpc'[c].topic = rpc[c].topic /\ rpc'[c].step = "storing" /\ rpc'[c].set = rpc[c].set
        /\ \A d \in RpcCall \ {c} : rpc'[d] = rpc[d]
    BY <1>0, <2>1 DEF Rpc
  <2>3. c # resultCallback /\ c # itemsCallback
    BY <1>0, <2>1 DEF UnaryInv, KeptInv, Answerable
  <2>4. UnaryShape'
    BY <2>1 DEF UnaryInv, UnaryShape, ActivityOf
  <2>5. KeptInv'
    <3>1. ~Answerable(rpc[c]) /\ reports[c] = 0
      BY <1>0, <2>1 DEF UnaryInv, KeptInv, Answerable
    <3>2. missionActivity' = "get" => rpc[c].topic = "download"
      <4>1. rpc[c].topic \in MissionCalls
        BY <1>0, <2>1 DEF PromiseOf
      <4> QED
        BY <2>1, <4>1 DEF ActivityOf, MissionCalls
    <3>3. \A d \in RpcCall : Answerable(rpc[d]) =>
             /\ Answerable(rpc'[d]) /\ rpc'[d].topic = rpc[d].topic /\ d # c
      BY <2>2, <3>1
    <3>4. {resultCallback, itemsCallback} \ {NoRpc} \subseteq RpcCall
      BY DEF UnaryInv, UnaryShape
    <3>5. \A d \in RpcCall : reports[d] > 0 => Answerable(rpc'[d])
      BY <3>3 DEF UnaryInv, KeptInv
    <3>6. requester' \in RpcCall /\ rpc'[requester'].step # "new"
      BY <2>1, <2>2
    <3> QED
      BY <2>1, <2>2, <3>2, <3>3, <3>4, <3>5, <3>6 DEF UnaryInv, KeptInv
  <2>6. ReportedInv'
    <3> SUFFICES ASSUME NEW d \in RpcCall \ again
                 PROVE  /\ Unanswered(d)' => reports[d] = 0 /\ rpc'[d].set = 0
                        /\ rpc'[d].topic \in UnaryKinds => reports[d] + rpc'[d].set <= 1
      BY <2>1 DEF ReportedInv
    <3>1. CASE d # c
      <4>1. Unanswered(d)' => Unanswered(d)
        BY <2>1, <2>2, <3>1 DEF Unanswered
      <4> QED
        BY <2>2, <3>1, <4>1 DEF UnaryInv, ReportedInv
    <3>2. CASE d = c
      <4>1. reports[c] = 0 /\ rpc[c].set = 0
        BY <2>1, <3>2 DEF UnaryInv, ReportedInv, Unanswered
      <4> QED
        BY <2>2, <3>2, <4>1
    <3> QED
      BY <3>1, <3>2
  <2> QED
    BY <2>4, <2>5, <2>6 DEF UnaryInv
<1>3. CASE StoreCallback(c)
  <2>1. /\ rpc[c].step = "storing" /\ rpc' = [rpc EXCEPT ![c].step = "waiting"]
        /\ rpc[c].topic = "download" => itemsCallback' = c /\ UNCHANGED resultCallback
        /\ rpc[c].topic # "download" => resultCallback' = c /\ UNCHANGED itemsCallback
        /\ UNCHANGED <<missionActivity, requester, reports, again>>
    BY <1>3 DEF StoreCallback
  <2>2. /\ rpc'[c].topic = rpc[c].topic /\ rpc'[c].step = "waiting" /\ rpc'[c].set = rpc[c].set
        /\ \A d \in RpcCall \ {c} : rpc'[d] = rpc[d]
    BY <1>0, <2>1 DEF Rpc
  <2>3. rpc[c].topic \in UnaryKinds /\ (rpc[c].topic # "download" => rpc[c].topic \in {"upload", "current"})
    <3>1. rpc[c].topic \in MissionCalls
      BY <1>0, <2>1 DEF PromiseOf
    <3> QED
      BY <3>1 DEF MissionCalls, UnaryKinds
  <2>4. UnaryShape'
    BY <2>1 DEF UnaryInv, UnaryShape
  <2>5. Answerable(rpc'[c]) /\ \A d \in RpcCall : Answerable(rpc[d]) => Answerable(rpc'[d])
    BY <2>2, <2>3 DEF Answerable
  <2>6. KeptInv'
    <3>1. \A d \in RpcCall : rpc'[d].topic = rpc[d].topic /\ (rpc[d].step # "new" => rpc'[d].step # "new")
      BY <2>2
    <3>2. {resultCallback, itemsCallback} \ {NoRpc} \subseteq RpcCall
      BY DEF UnaryInv, UnaryShape
    <3>3. \A d \in RpcCall : reports'[d] > 0 => Answerable(rpc'[d])
      BY <2>1, <2>5 DEF UnaryInv, KeptInv
    <3>4. resultCallback' # NoRpc =>
            Answerable(rpc'[resultCallback']) /\ rpc'[resultCallback'].topic \in {"upload", "current"}
      <4>1. CASE rpc[c].topic = "download"
        BY <2>1, <2>5, <3>1, <3>2, <4>1 DEF UnaryInv, KeptInv
      <4>2. CASE rpc[c].topic # "download"
        BY <2>1, <2>2, <2>3, <2>5, <4>2
      <4> QED
        BY <4>1, <4>2
    <3>5. itemsCallback' # NoRpc =>
            Answerable(rpc'[itemsCallback']) /\ rpc'[itemsCallback'].topic = "download"
      <4>1. CASE rpc[c].topic = "download"
        BY <2>1, <2>2, <2>5, <4>1
      <4>2. CASE rpc[c].topic # "download"
        BY <2>1, <2>5, <3>1, <3>2, <4>2 DEF UnaryInv, KeptInv
      <4> QED
        BY <4>1, <4>2
    <3>6. missionActivity' = "get" =>
            requester' \in RpcCall /\ rpc'[requester'].topic = "download" /\ rpc'[requester'].step # "new"
      BY <2>1, <3>1 DEF UnaryInv, KeptInv
    <3> QED
      BY <3>3, <3>4, <3>5, <3>6 DEF KeptInv
  <2>7. ReportedInv'
    <3> SUFFICES ASSUME NEW d \in RpcCall \ again
                 PROVE  /\ Unanswered(d)' => reports[d] = 0 /\ rpc'[d].set = 0
                        /\ rpc'[d].topic \in UnaryKinds => reports[d] + rpc'[d].set <= 1
      BY <2>1 DEF ReportedInv
    <3>1. CASE d # c
      <4>1. Unanswered(d)' => Unanswered(d)
        BY <2>1, <2>2, <3>1 DEF Unanswered
      <4> QED
        BY <2>2, <3>1, <4>1 DEF UnaryInv, ReportedInv
    <3>2. CASE d = c
      <4>1. reports[c] = 0 /\ rpc[c].set = 0
        BY <2>1, <3>2 DEF UnaryInv, ReportedInv, Unanswered
      <4> QED
        BY <2>2, <3>2, <4>1
    <3> QED
      BY <3>1, <3>2
  <2> QED
    BY <2>4, <2>6, <2>7 DEF UnaryInv
<1>4. CASE OneResult(c)
  <2>1. /\ rpc[c].step = "waiting" /\ rpc[c].topic = "one result"
        /\ reports[c] + rpc[c].set = 0 /\ reports' = [reports EXCEPT ![c] = @ + 1]
        /\ UNCHANGED <<missionSlots, again, rpc>>
    BY <1>4 DEF OneResult
  <2>a. reports[c] \in Nat /\ reports[c] + 1 \in Nat
    BY <1>0
  <2>2. /\ reports'[c] = reports[c] + 1 /\ reports' \in [RpcCall -> Nat]
        /\ \A d \in RpcCall \ {c} : reports'[d] = reports[d]
    <3>1. reports' = [reports EXCEPT ![c] = reports[c] + 1]
      BY <2>1
    <3> QED
      BY <1>0, <2>a, <3>1
  <2>3. c # resultCallback /\ c # itemsCallback
    <3>1. rpc[c].topic \notin {"upload", "current", "download"}
      BY <2>1
    <3> QED
      BY <1>0, <3>1 DEF UnaryInv, KeptInv
  <2>4. UnaryShape' /\ KeptInv'
    BY <2>1, <2>2 DEF UnaryInv, UnaryShape, KeptInv, Answerable, UnaryKinds, missionSlots
  <2>5. reports'[c] + rpc[c].set = 1
    <3>1. reports[c] + rpc[c].set = 0
      BY <2>1
    <3> QED
      BY <1>0, <2>a, <2>2, <3>1
  <2>6. \A d \in RpcCall : Unanswered(d)' => Unanswered(d) /\ d # c
    BY <1>0, <2>1, <2>3 DEF Unanswered, missionSlots
  <2>7. ReportedInv'
    <3> SUFFICES ASSUME NEW d \in RpcCall \ again
                 PROVE  /\ Unanswered(d)' => reports'[d] = 0 /\ rpc[d].set = 0
                        /\ rpc[d].topic \in UnaryKinds => reports'[d] + rpc[d].set <= 1
      BY <2>1 DEF ReportedInv
    <3>1. CASE d = c
      BY <2>5, <2>6, <3>1
    <3>2. CASE d # c
      BY <2>2, <2>6, <3>2 DEF UnaryInv, ReportedInv
    <3> QED
      BY <3>1, <3>2
  <2> QED
    BY <2>4, <2>7 DEF UnaryInv
<1>5. CASE UnaryCallback(c)
  <2>1. /\ reports[c] > 0 /\ reports' = [reports EXCEPT ![c] = @ - 1]
        /\ rpc' = [rpc EXCEPT ![c].set = @ + 1] /\ UNCHANGED <<missionSlots, again>>
    BY <1>5 DEF UnaryCallback
  <2>2. /\ reports'[c] = reports[c] - 1 /\ reports' \in [RpcCall -> Nat]
        /\ \A d \in RpcCall \ {c} : reports'[d] = reports[d] /\ rpc'[d] = rpc[d]
        /\ \A d \in RpcCall : rpc'[d].topic = rpc[d].topic /\ rpc'[d].step = rpc[d].step
        /\ rpc'[c].set = rpc[c].set + 1
    BY <1>0, <2>1 DEF Rpc
  <2>3. UnaryShape'
    BY <2>1, <2>2 DEF UnaryInv, UnaryShape, missionSlots
  <2>7. KeptInv'
    <3>1. \A d \in RpcCall : Answerable(rpc'[d]) = Answerable(rpc[d])
      BY <2>2 DEF Answerable
    <3>2. \A d \in RpcCall : reports'[d] > 0 => reports[d] > 0
      BY <2>1, <2>2
    <3>3. {resultCallback, itemsCallback} \ {NoRpc} \subseteq RpcCall
      BY DEF UnaryInv, UnaryShape
    <3>4. UNCHANGED <<missionActivity, requester, resultCallback, itemsCallback>>
      BY <2>1 DEF missionSlots
    <3> QED
      BY <2>2, <3>1, <3>2, <3>3, <3>4 DEF UnaryInv, KeptInv
  <2>4. \A d \in RpcCall : Unanswered(d)' => Unanswered(d)
    BY <2>1, <2>2 DEF Unanswered, missionSlots
  <2>5. reports'[c] + rpc'[c].set = reports[c] + rpc[c].set
    BY <1>0, <2>2
  <2>6. ReportedInv'
    BY <2>1, <2>2, <2>4, <2>5 DEF UnaryInv, ReportedInv
  <2> QED
    BY <2>3, <2>6, <2>7 DEF UnaryInv
<1> QED
  BY <1>1, <1>2, <1>3, <1>4, <1>5

LEMMA BackendUnchanged ==
  ASSUME BackendInv, UnaryInv, UNCHANGED backendVars
  PROVE  BackendInv' /\ UnaryInv'
<1>1. BackendInv'
  BY DEF BackendInv, BackendShape, PromiseInv, CallbackInv, backendVars
<1>2. UnaryInv'
  BY DEF backendVars, unaryVars, missionSlots, UnaryInv, UnaryShape, KeptInv, ReportedInv, Unanswered
<1> QED
  BY <1>1, <1>2

LEMMA UnaryStepInv ==
  ASSUME BackendInv, UnaryInv, BackendNext
  PROVE  UnaryInv'
<1>0. rpc \in [RpcCall -> Rpc]
  BY DEF BackendInv, BackendShape
<1>1. ASSUME UNCHANGED <<rpc, unaryVars>> PROVE UnaryInv'
  BY <1>1, UnaryKept
<1>2. CASE \/ Connect \/ Serve \/ StopTelemetry \/ Discover
           \/ \E w \in PoolThread : Write(w) \/ \E t \in Streams : Notify(w, t)
  BY <1>1, <1>2 DEF Connect, Serve, StopTelemetry, Discover, Write, Notify
<1>3. ASSUME NEW w \in PoolThread, CloseStream(w) PROVE UnaryInv'
  <2> DEFINE c == writing[w].of
  <2>1. /\ c \in RpcCall /\ rpc[c].topic \in Streams /\ rpc[c].step \in {"open", "returned"}
    BY <1>3 DEF CloseStream, BackendInv, CallbackInv
  <2>2. rpc' = [rpc EXCEPT ![c].finished = TRUE, ![c].set = @ + 1] /\ UNCHANGED unaryVars
    BY <1>3 DEF CloseStream
  <2>3. /\ \A d \in RpcCall \ {c} : rpc'[d] = rpc[d]
        /\ rpc'[c].topic = rpc[c].topic /\ rpc'[c].step = rpc[c].step
    BY <1>0, <2>1, <2>2 DEF Rpc
  <2> QED
    BY <2>1, <2>2, <2>3, UnaryKept, Topics DEF Answerable
<1>4. ASSUME NEW c \in RpcCall,
             UnaryBegin(c) \/ UnaryReturns(c) \/ SubscribeTopic(c) \/ ClientGone(c) \/ StreamReturns(c)
      PROVE  UnaryInv'
  <2>1. /\ UNCHANGED unaryVars
        /\ \A d \in RpcCall \ {c} : rpc'[d] = rpc[d]
        /\ rpc'[c].set = rpc[c].set
        /\ rpc[c].step # "new" => rpc'[c].topic = rpc[c].topic
        /\ rpc'[c].step \in {"waiting", "returned", "open"}
        /\ rpc[c].step = "waiting" => rpc'[c].step = "returned"
        /\ rpc[c].step # "returned"
    <3>1. CASE UnaryBegin(c)
      <4>1. /\ rpc[c].step = "new" /\ UNCHANGED unaryVars
            /\ \E k \in UnaryKinds, s \in {"waiting", "returned"} :
                  rpc' = [rpc EXCEPT ![c].topic = k, ![c].step = s]
        BY <3>1 DEF UnaryBegin
      <4>2. PICK k \in UnaryKinds, s \in {"waiting", "returned"} :
              rpc' = [rpc EXCEPT ![c].topic = k, ![c].step = s]
        BY <4>1
      <4> QED
        BY <1>0, <4>1, <4>2 DEF Rpc
    <3>2. CASE UnaryReturns(c)
      BY <1>0, <3>2 DEF UnaryReturns, Rpc
    <3>3. CASE SubscribeTopic(c)
      BY <1>0, <3>3 DEF SubscribeTopic, Rpc
    <3>4. CASE ClientGone(c) \/ StreamReturns(c)
      BY <1>0, <3>4 DEF ClientGone, StreamReturns, Rpc
    <3> QED
      BY <1>4, <3>1, <3>2, <3>3, <3>4
  <2> QED
    BY <2>1, UnaryKept DEF Answerable
<1> QED
  BY <1>2, <1>3, <1>4, MissionResultStep, NewMissionStep DEF BackendNext

\* Promises of the backend are set once at most, whatever the order of results, pool and
\* methods, but those of the mission's progress and of the calls in "again", whose
\* callback the mission plugin keeps and calls for more than their result (see
\* PromisesSetOnce): _subscribe_mutex keeps two callbacks from both finding that the
\* client has gone, and the activity two results from both being a call's own.
THEOREM PromisesAreSetOnce == Spec => []PromisesSetOnce
<1>1. Init => BackendInv /\ UnaryInv
  BY BackendInitInv DEF Init
<1>2. BackendInv /\ UnaryInv /\ [Next]_callVars => BackendInv' /\ UnaryInv'
  BY BackendStepInv, UnaryStepInv, BackendUnchanged
     DEF Next, callVars, CameraStep, QueueStep, PortStep, BackendStep
<1>3. BackendInv /\ UnaryInv => PromisesSetOnce
  <2> SUFFICES ASSUME BackendInv, UnaryInv PROVE PromisesSetOnce
    OBVIOUS
  <2>1. ASSUME NEW c \in RpcCall \ again, rpc[c].topic \notin ProgressStreams
        PROVE  rpc[c].set <= 1
    <3>1. rpc[c] \in Rpc /\ PromiseOf(rpc[c]) /\ reports[c] \in Nat
      BY DEF BackendInv, BackendShape, PromiseInv, UnaryInv, UnaryShape
    <3>2. rpc[c].topic \in UnaryKinds => rpc[c].set <= 1
      <4>1. rpc[c].topic \in UnaryKinds => reports[c] + rpc[c].set <= 1
        BY DEF UnaryInv, ReportedInv
      <4>2. rpc[c].set \in Nat
        BY <3>1 DEF Rpc
      <4> QED
        BY <3>1, <4>1, <4>2
    <3>3. rpc[c].step = "new" \/ rpc[c].topic \in UnaryKinds \cup CameraStreams \cup TelemetryStreams
      BY <2>1, <3>1, Topics DEF PromiseOf, Rpc
    <3> QED
      BY <3>1, <3>2, <3>3 DEF PromiseOf
  <2> QED
    BY <2>1 DEF PromisesSetOnce, BackendInv, BackendShape
<1> QED
  BY <1>1, <1>2, <1>3, PTL DEF Spec

-----------------------------------------------------------------------------
(* Sequences of bytes: those that arrived, and those on the wire           *)

\* The last bytes that arrived.
IsRun(s, last) == \A i \in 1..Len(s) : s[i] = last - Len(s) + i

LEMMA RunTaken ==
  ASSUME NEW a \in Seq(Nat), NEW b \in Seq(Nat), NEW last \in Nat, NEW k \in 0..Len(b),
         IsRun(b, last)
  PROVE  /\ a \o SubSeq(b, 1, k) \in Seq(Nat) /\ SubSeq(b, k + 1, Len(b)) \in Seq(Nat)
         /\ IsRun(SubSeq(b, k + 1, Len(b)), last)
         /\ IsRun(a, last - Len(b)) =>
               IsRun(a \o SubSeq(b, 1, k), last - Len(SubSeq(b, k + 1, Len(b))))
<1> DEFINE p == SubSeq(b, 1, k)
           q == SubSeq(b, k + 1, Len(b))
<1>0. Len(b) \in Nat /\ k \in Nat /\ k <= Len(b) /\ Len(a) \in Nat
  OBVIOUS
<1>1. p \in Seq(Nat) /\ Len(p) = k /\ \A i \in 1..k : p[i] = b[i]
  BY <1>0
<1>2. q \in Seq(Nat) /\ Len(q) = Len(b) - k /\ \A i \in 1..(Len(b) - k) : q[i] = b[k + i]
  BY <1>0
<1> HIDE DEF p, q
<1>3. a \o p \in Seq(Nat) /\ Len(a \o p) = Len(a) + k
  BY <1>1, ConcatProperties
<1>4. \A i \in 1..(Len(a) + k) : (a \o p)[i] = IF i <= Len(a) THEN a[i] ELSE p[i - Len(a)]
  BY <1>0, <1>1, <1>3
<1>5. IsRun(q, last)
  <2> SUFFICES ASSUME NEW i \in 1..(Len(b) - k) PROVE q[i] = last - (Len(b) - k) + i
    BY <1>2 DEF IsRun
  <2>1. k + i \in 1..Len(b)
    BY <1>0
  <2> QED
    BY <1>0, <1>2, <2>1 DEF IsRun
<1>6. ASSUME IsRun(a, last - Len(b)) PROVE IsRun(a \o p, last - Len(q))
  <2> SUFFICES ASSUME NEW i \in 1..(Len(a) + k)
               PROVE  (a \o p)[i] = (last - (Len(b) - k)) - (Len(a) + k) + i
    BY <1>2, <1>3 DEF IsRun
  <2>1. CASE i <= Len(a)
    BY <1>0, <1>4, <1>6, <2>1 DEF IsRun
  <2>2. CASE ~(i <= Len(a))
    <3>1. i - Len(a) \in 1..k /\ i - Len(a) \in 1..Len(b)
      BY <1>0, <2>2
    <3>2. (a \o p)[i] = b[i - Len(a)]
      BY <1>1, <1>4, <2>2, <3>1
    <3> QED
      BY <1>0, <3>1, <3>2 DEF IsRun
  <2> QED
    BY <2>1, <2>2
<1> QED
  BY <1>2, <1>3, <1>5, <1>6 DEF p, q

LEMMA RunEmpty == ASSUME NEW last \in Int PROVE <<>> \in Seq(Nat) /\ IsRun(<<>>, last)
BY DEF IsRun

LEMMA RunTail ==
  ASSUME NEW b \in Seq(Nat), b # <<>>, NEW last \in Nat, IsRun(b, last)
  PROVE  Tail(b) \in Seq(Nat) /\ IsRun(Tail(b), last)
<1>1. Tail(b) \in Seq(Nat) /\ Len(Tail(b)) = Len(b) - 1 /\ Len(b) \in Nat \ {0}
  OBVIOUS
<1>2. ASSUME NEW i \in 1..(Len(b) - 1) PROVE Tail(b)[i] = last - (Len(b) - 1) + i
  <2>1. i + 1 \in 1..Len(b) /\ Tail(b)[i] = b[i + 1]
    BY <1>1
  <2> QED
    BY <1>1, <2>1 DEF IsRun
<1> QED
  BY <1>1, <1>2 DEF IsRun

LEMMA RunAppended ==
  ASSUME NEW b \in Seq(Nat), NEW last \in Nat, IsRun(b, last)
  PROVE  /\ Append(b, last + 1) \in Seq(Nat) /\ IsRun(Append(b, last + 1), last + 1)
         /\ last + 1 - Len(Append(b, last + 1)) = last - Len(b)
<1>1. /\ Append(b, last + 1) \in Seq(Nat) /\ Len(Append(b, last + 1)) = Len(b) + 1
      /\ Len(b) \in Nat
  OBVIOUS
<1>2. ASSUME NEW i \in 1..(Len(b) + 1) PROVE Append(b, last + 1)[i] = last + 1 - (Len(b) + 1) + i
  <2>1. CASE i = Len(b) + 1
    BY <1>1, <2>1
  <2>2. CASE i \in 1..Len(b)
    BY <1>1, <2>2 DEF IsRun
  <2> QED
    BY <1>1, <2>1, <2>2
<1> QED
  BY <1>1, <1>2 DEF IsRun

\* Bytes of a call added to those on the wire
Blocks(s) ==
  \A i, j, k \in 1..Len(s) : i <= j /\ j <= k /\ s[i] = s[k] => s[j] = s[i]

LEMMA BlockAdded ==
  ASSUME NEW s \in Seq(Nat), NEW n \in Nat \ {0}, NEW x, NEW z, Blocks(s),
         \A i \in 1..Len(s) : s[i] = x => s[Len(s)] = x,
         Len(z) = Len(s) + n,
         \A i \in 1..(Len(s) + n) : z[i] = IF i <= Len(s) THEN s[i] ELSE x
  PROVE  Blocks(z)
<1>1. Len(s) \in Nat
  OBVIOUS
<1>2. Len(z) = Len(s) + n
  OBVIOUS
<1>3. \A i \in 1..(Len(s) + n) : z[i] = IF i <= Len(s) THEN s[i] ELSE x
  OBVIOUS
<1>4. ASSUME NEW i \in 1..Len(z), NEW j \in 1..Len(z), NEW k \in 1..Len(z),
             i <= j, j <= k, z[i] = z[k]
      PROVE  z[j] = z[i]
  <2>1. i \in 1..(Len(s) + n) /\ j \in 1..(Len(s) + n) /\ k \in 1..(Len(s) + n)
    BY <1>2
  <2>2. CASE k <= Len(s)
    <3>1. i \in 1..Len(s) /\ k \in 1..Len(s) /\ j \in 1..Len(s)
      BY <1>1, <1>4, <2>1, <2>2
    <3>2. z[i] = s[i] /\ z[k] = s[k] /\ z[j] = s[j]
      BY <1>1, <1>3, <3>1
    <3> QED
      BY <1>4, <3>1, <3>2 DEF Blocks
  <2>3. CASE i > Len(s)
    BY <1>1, <1>3, <1>4, <2>1, <2>3
  <2>4. CASE i <= Len(s) /\ k > Len(s)
    <3>1. i \in 1..Len(s) /\ Len(s) \in 1..Len(s) /\ s[i] = x /\ z[i] = x
      BY <1>1, <1>3, <1>4, <2>1, <2>4
    <3>2. s[Len(s)] = x
      BY <3>1
    <3>3. CASE j <= Len(s)
      BY <1>1, <1>3, <1>4, <2>1, <3>1, <3>2, <3>3 DEF Blocks
    <3>4. CASE ~(j <= Len(s))
      BY <1>3, <2>1, <3>1, <3>4
    <3> QED
      BY <3>3, <3>4
  <2> QED
    BY <1>1, <2>1, <2>2, <2>3, <2>4
<1> QED
  BY <1>4 DEF Blocks

-----------------------------------------------------------------------------
(* The transfers of the serial port                                        *)

CallOp ==
  LineReads \cup {"none", "read", "write", "flush", "flushInput", "flushOutput", "wait", "setPort"}
Locking == {"read lock", "write lock"}
PortCall ==
  [op : CallOp, step : Locking \cup {"none", "work", "loop", "reopen"}, size : Nat,
   got : Seq(Nat), sent : Nat, id : Nat, expired : BOOLEAN, disturbed : BOOLEAN]

SerialShape ==
  /\ call \in [PortUsers -> PortCall]
  /\ holder \in [{"read", "write"} -> PortUsers \cup {Nobody}]
  /\ input \in Seq(Nat) /\ incoming \in Nat /\ on_wire \in Seq(Nat) /\ called \in Nat

\* A lock belongs to the call that has taken it and not returned.
LocksOf(t) ==
  /\ call[t].step = "read lock" => call[t].op \in TakesRead
  /\ call[t].step = "write lock" => call[t].op \in TakesWrite
  /\ holder["read"] = t <=> call[t].op \in TakesRead /\ call[t].step # "read lock"
  /\ holder["write"] = t <=> call[t].op \in TakesWrite /\ call[t].step \notin Locking
LockInv == \A t \in PortUsers : LocksOf(t)

\* Calls have numbers of their own.
IdInv ==
  /\ \A t \in PortUsers :
        call[t].id \in 0..called /\ (call[t].op = "none" <=> call[t].id = 0)
  /\ \A t, u \in PortUsers : t # u /\ call[t].id = call[u].id => call[t].id = 0

\* The buffer has the last bytes that arrived, and a read that was not disturbed the
\* bytes before them; only the read with the lock has any.
ReadInv ==
  /\ IsRun(input, incoming)
  /\ \A t \in PortUsers :
        /\ call[t].got # <<>> => holder["read"] = t
        /\ ~call[t].disturbed => IsRun(call[t].got, incoming - Len(input))

\* The bytes of a write that goes on are the last on the wire.
WireInv ==
  /\ Blocks(on_wire)
  /\ \A i \in 1..Len(on_wire) : on_wire[i] \in 1..called
  /\ \A t \in PortUsers : \A i \in 1..Len(on_wire) :
        on_wire[i] = call[t].id =>
           holder["write"] = t /\ on_wire[Len(on_wire)] = call[t].id

TransferInv == SerialShape /\ LockInv /\ IdInv /\ ReadInv /\ WireInv

LEMMA NoCallType == NoCall \in PortCall
BY DEF NoCall, PortCall, CallOp

LEMMA SerialInitInv ==
  ASSUME SerialInit
  PROVE  TransferInv
<1> USE SerialAssumption
<1>1. \A t \in PortUsers : call[t] = NoCall
  BY DEF SerialInit
<1>2. /\ NoCall.op = "none" /\ NoCall.step = "none" /\ NoCall.id = 0 /\ NoCall.got = <<>>
  BY DEF NoCall
<1>3. Nobody \notin PortUsers
  BY DEF PortUsers, Nobody
<1>4. SerialShape
  BY NoCallType DEF SerialInit, SerialShape
<1>5. LockInv
  BY <1>1, <1>2, <1>3 DEF LockInv, LocksOf, SerialInit, TakesRead, TakesWrite, LineReads
<1>6. IdInv
  BY <1>1, <1>2 DEF IdInv, SerialInit
<1>7. ReadInv
  BY <1>1, <1>2, RunEmpty DEF ReadInv, SerialInit
<1>8. WireInv
  BY DEF WireInv, SerialInit, Blocks
<1> QED
  BY <1>4, <1>5, <1>6, <1>7, <1>8 DEF TransferInv

\* What another thread may see of a step: at most that its read was disturbed.
Same(u) ==
  /\ call'[u].op = call[u].op /\ call'[u].id = call[u].id /\ call'[u].got = call[u].got
  /\ call'[u].step = call[u].step \/ (call[u].step \notin Locking /\ call'[u].step \notin Locking)
  /\ ~call'[u].disturbed => ~call[u].disturbed \/ call[u].got = <<>>

LEMMA LocksKept ==
  ASSUME NEW u \in PortUsers, LocksOf(u), call'[u].op = call[u].op,
         \/ call'[u].step = call[u].step
         \/ call[u].step \notin Locking /\ call'[u].step \notin Locking,
         holder'["read"] = u <=> holder["read"] = u,
         holder'["write"] = u <=> holder["write"] = u
  PROVE  LocksOf(u)'
BY DEF LocksOf, Locking

LEMMA IdsKept ==
  ASSUME IdInv, called' = called,
         \A u \in PortUsers : call'[u].id = call[u].id /\ call'[u].op = call[u].op
  PROVE  IdInv'
BY DEF IdInv

\* The input is left alone, or has become the concern of one thread or of nobody.
LEMMA SameStep ==
  ASSUME TransferInv, call' \in [PortUsers -> PortCall], \A u \in PortUsers : Same(u),
         input' \in Seq(Nat), IsRun(input', incoming),
         \/ input' = input
         \/ \A u \in PortUsers : call[u].got = <<>> \/ call'[u].disturbed,
         called' \in Nat, called' >= called,
         UNCHANGED <<holder, incoming, on_wire>>
  PROVE  TransferInv'
<1> USE DEF TransferInv
<1>1. SerialShape'
  BY DEF SerialShape
<1>2. LockInv'
  BY LocksKept DEF LockInv, Same
<1>3. IdInv'
  <2>1. ASSUME NEW u \in PortUsers
        PROVE  call'[u].id \in 0..called' /\ (call'[u].op = "none" <=> call'[u].id = 0)
    <3>1. call[u].id \in 0..called /\ called \in Nat /\ (call[u].op = "none" <=> call[u].id = 0)
      BY DEF IdInv, SerialShape
    <3> QED
      BY <3>1 DEF Same
  <2>2. \A t, u \in PortUsers : t # u /\ call'[t].id = call'[u].id => call'[t].id = 0
    BY DEF IdInv, Same
  <2> QED
    BY <2>1, <2>2 DEF IdInv
<1>4. ReadInv'
  <2> SUFFICES ASSUME NEW t \in PortUsers, ~call'[t].disturbed
               PROVE  IsRun(call[t].got, incoming - Len(input'))
    BY DEF ReadInv, Same
  <2>1. CASE call[t].got = <<>>
    BY <2>1, RunEmpty DEF SerialShape
  <2>2. CASE call[t].got # <<>>
    BY <2>2 DEF ReadInv, Same
  <2> QED
    BY <2>1, <2>2
<1>5. WireInv'
  <2>1. \A i \in 1..Len(on_wire) : on_wire[i] \in 1..called'
    BY DEF WireInv, SerialShape
  <2> QED
    BY <2>1 DEF WireInv, Same
<1> QED
  BY <1>1, <1>2, <1>3, <1>4, <1>5

\* A call returns, and with the read lock it may have taken input.
LEMMA ReturnStep ==
  ASSUME TransferInv, NEW t \in PortUsers, call' \in [PortUsers -> PortCall],
         call'[t] = NoCall, \A u \in PortUsers \ {t} : Same(u),
         holder' = [l \in DOMAIN holder |-> IF holder[l] = t THEN Nobody ELSE holder[l]],
         input' \in Seq(Nat), IsRun(input', incoming),
         input' = input \/ holder["read"] = t,
         UNCHANGED <<incoming, on_wire, called>>
  PROVE  TransferInv'
<1> USE SerialAssumption DEF TransferInv
<1>1. /\ call'[t].op = "none" /\ call'[t].step = "none" /\ call'[t].id = 0
      /\ call'[t].got = <<>>
  BY DEF NoCall
<1>2. /\ holder'["read"] = IF holder["read"] = t THEN Nobody ELSE holder["read"]
      /\ holder'["write"] = IF holder["write"] = t THEN Nobody ELSE holder["write"]
      /\ holder' \in [{"read", "write"} -> PortUsers \cup {Nobody}]
  BY DEF SerialShape
<1>3. Nobody \notin PortUsers
  BY DEF PortUsers, Nobody
<1>4. SerialShape'
  BY <1>2 DEF SerialShape
<1>5. LockInv'
  <2>1. "none" \notin TakesRead \cup TakesWrite
    BY DEF TakesRead, TakesWrite, LineReads
  <2>2. LocksOf(t)'
    BY <1>1, <1>2, <1>3, <2>1 DEF LocksOf
  <2>3. ASSUME NEW u \in PortUsers \ {t} PROVE LocksOf(u)'
    BY <1>2, <1>3, LocksKept DEF LockInv, Same
  <2> QED
    BY <2>2, <2>3 DEF LockInv
<1>6. IdInv'
  <2>1. ASSUME NEW u \in PortUsers
        PROVE  call'[u].id \in 0..called /\ (call'[u].op = "none" <=> call'[u].id = 0)
    <3>1. called \in Nat
      BY DEF SerialShape
    <3>2. CASE u = t
      BY <1>1, <3>1, <3>2
    <3>3. CASE u # t
      BY <3>3 DEF IdInv, Same
    <3> QED
      BY <3>2, <3>3
  <2>2. ASSUME NEW u \in PortUsers, NEW v \in PortUsers, u # v, call'[u].id = call'[v].id
        PROVE  call'[u].id = 0
    <3>1. CASE u = t \/ v = t
      BY <1>1, <2>2, <3>1
    <3>2. CASE u # t /\ v # t
      BY <2>2, <3>2 DEF IdInv, Same
    <3> QED
      BY <3>1, <3>2
  <2> QED
    BY <2>1, <2>2 DEF IdInv
<1>7. ReadInv'
  <2> SUFFICES ASSUME NEW u \in PortUsers
               PROVE  /\ call'[u].got # <<>> => holder'["read"] = u
                      /\ ~call'[u].disturbed => IsRun(call'[u].got, incoming - Len(input'))
    BY DEF ReadInv
  <2>1. CASE call'[u].got = <<>>
    BY <2>1, RunEmpty DEF SerialShape
  <2>2. CASE call'[u].got # <<>>
    <3>1. u # t /\ call[u].got # <<>> /\ call[u].got = call'[u].got
      BY <1>1, <2>2 DEF Same
    <3>2. holder["read"] = u
      BY <3>1 DEF ReadInv
    <3> QED
      BY <1>2, <3>1, <3>2 DEF ReadInv, Same
  <2> QED
    BY <2>1, <2>2
<1>8. WireInv'
  <2>1. ASSUME NEW u \in PortUsers, NEW i \in 1..Len(on_wire), on_wire[i] = call'[u].id
        PROVE  holder'["write"] = u /\ on_wire[Len(on_wire)] = call'[u].id
    <3>1. u # t
      BY <1>1, <2>1 DEF WireInv, SerialShape
    <3> QED
      BY <1>2, <2>1, <3>1 DEF WireInv, Same
  <2> QED
    BY <2>1 DEF WireInv
<1> QED
  BY <1>4, <1>5, <1>6, <1>7, <1>8

\* A read with the lock takes what is there.
LEMMA TakingStep ==
  ASSUME TransferInv, NEW t \in PortUsers, NEW k \in 0..Len(input), NEW r \in PortCall,
         holder["read"] = t, call[t].step \in {"work", "loop"},
         call' = [call EXCEPT ![t] = r],
         r.op = call[t].op, r.id = call[t].id, r.disturbed = call[t].disturbed,
         r.step = "loop", r.got = call[t].got \o SubSeq(input, 1, k),
         input' = SubSeq(input, k + 1, Len(input)),
         UNCHANGED <<holder, incoming, on_wire, called>>
  PROVE  TransferInv'
<1> USE DEF TransferInv
<1>1. call'[t] = r /\ \A u \in PortUsers \ {t} : call'[u] = call[u]
  BY DEF SerialShape
<1>2. /\ input' \in Seq(Nat) /\ IsRun(input', incoming)
      /\ IsRun(call[t].got, incoming - Len(input)) => IsRun(r.got, incoming - Len(input'))
  BY RunTaken, SMTT(30) DEF SerialShape, PortCall, ReadInv
<1>3. SerialShape'
  BY <1>2 DEF SerialShape
<1>4. LockInv'
  <2>1. ASSUME NEW u \in PortUsers PROVE LocksOf(u)'
    <3>1. /\ call'[u].op = call[u].op
          /\ \/ call'[u].step = call[u].step
             \/ call[u].step \notin Locking /\ call'[u].step \notin Locking
      BY <1>1 DEF Locking
    <3> QED
      BY <3>1, LocksKept DEF LockInv
  <2> QED
    BY <2>1 DEF LockInv
<1>5. IdInv'
  BY <1>1, IdsKept
<1>6. ReadInv'
  <2> SUFFICES ASSUME NEW u \in PortUsers
               PROVE  /\ call'[u].got # <<>> => holder["read"] = u
                      /\ ~call'[u].disturbed => IsRun(call'[u].got, incoming - Len(input'))
    BY <1>2 DEF ReadInv
  <2>1. CASE u = t
    BY <1>1, <1>2, <2>1 DEF ReadInv
  <2>2. CASE u # t
    <3>1. call'[u].got = <<>>
      BY <1>1, <2>2 DEF ReadInv
    <3> QED
      BY <1>2, <3>1, RunEmpty DEF SerialShape
  <2> QED
    BY <2>1, <2>2
<1>7. WireInv'
  <2>1. \A u \in PortUsers : call'[u].id = call[u].id
    BY <1>1
  <2> QED
    BY <2>1 DEF WireInv
<1> QED
  BY <1>3, <1>4, <1>5, <1>6, <1>7

\* A write with the lock puts more of its bytes on the wire.
LEMMA PutStep ==
  ASSUME TransferInv, NEW t \in PortUsers, NEW n \in Nat \ {0}, NEW r \in PortCall,
         holder["write"] = t, call[t].op = "write", call[t].step \in {"work", "loop"},
         call' = [call EXCEPT ![t] = r],
         r.op = call[t].op, r.id = call[t].id, r.disturbed = call[t].disturbed,
         r.step \in {"work", "loop"}, r.got = call[t].got, Put(t, n),
         UNCHANGED <<holder, incoming, input, called>>
  PROVE  TransferInv'
<1> USE DEF TransferInv
<1>1. call'[t] = r /\ \A u \in PortUsers \ {t} : call'[u] = call[u]
  BY DEF SerialShape
<1>2. call[t].id \in Nat /\ call[t].id \in 1..called /\ on_wire \in Seq(Nat) /\ called \in Nat
  BY DEF SerialShape, IdInv
<1>3. /\ on_wire' \in Seq(Nat) /\ on_wire'[Len(on_wire')] = call[t].id /\ Blocks(on_wire')
      /\ \A i \in 1..Len(on_wire') :
            on_wire'[i] = call[t].id \/ (i \in 1..Len(on_wire) /\ on_wire'[i] = on_wire[i])
  <2>1. \A i \in 1..Len(on_wire) :
           on_wire[i] = call[t].id => on_wire[Len(on_wire)] = call[t].id
    BY DEF WireInv
  <2>2. Blocks(on_wire)
    BY DEF WireInv
  <2> DEFINE p == [i \in 1..n |-> call[t].id]
  <2>3. p \in Seq(Nat) /\ Len(p) = n /\ (\A i \in 1..n : p[i] = call[t].id)
    BY <1>2
  <2>4. on_wire' = on_wire \o p
    BY DEF Put
  <2>5. Len(on_wire) \in Nat /\ n > 0
    BY <1>2
  <2> HIDE DEF p
  <2>6. on_wire' \in Seq(Nat) /\ Len(on_wire') = Len(on_wire) + n
    BY <1>2, <2>3, <2>4, ConcatProperties
  <2>7. ASSUME NEW i \in 1..(Len(on_wire) + n)
        PROVE  on_wire'[i] = IF i <= Len(on_wire) THEN on_wire[i] ELSE call[t].id
    <3>1. on_wire'[i] = IF i <= Len(on_wire) THEN on_wire[i] ELSE p[i - Len(on_wire)]
      BY <1>2, <2>3, <2>4, ConcatProperties
    <3>2. i > Len(on_wire) => i - Len(on_wire) \in 1..n
      BY <2>5
    <3> QED
      BY <2>3, <2>5, <3>1, <3>2
  <2>8. Blocks(on_wire')
    BY <1>2, <2>1, <2>2, <2>6, <2>7, BlockAdded
  <2> QED
    BY <2>5, <2>6, <2>7, <2>8
<1>4. SerialShape'
  BY <1>3 DEF SerialShape
<1>5. LockInv'
  <2>1. ASSUME NEW u \in PortUsers PROVE LocksOf(u)'
    <3>1. /\ call'[u].op = call[u].op
          /\ \/ call'[u].step = call[u].step
             \/ call[u].step \notin Locking /\ call'[u].step \notin Locking
      BY <1>1 DEF Locking
    <3> QED
      BY <3>1, LocksKept DEF LockInv
  <2> QED
    BY <2>1 DEF LockInv
<1>6. IdInv'
  BY <1>1, IdsKept
<1>7. ReadInv'
  <2>1. \A u \in PortUsers :
           call'[u].got = call[u].got /\ call'[u].disturbed = call[u].disturbed
    BY <1>1
  <2> QED
    BY <2>1 DEF ReadInv
<1>8. WireInv'
  <2>1. \A i \in 1..Len(on_wire') : on_wire'[i] \in 1..called
    BY <1>2, <1>3 DEF WireInv
  <2>2. ASSUME NEW u \in PortUsers, NEW i \in 1..Len(on_wire'), on_wire'[i] = call'[u].id
        PROVE  u = t
    <3>1. SUFFICES ASSUME u # t PROVE FALSE
      OBVIOUS
    <3>2. call'[u].id = call[u].id /\ call[u].id # call[t].id
      BY <1>1, <1>2, <3>1 DEF IdInv
    <3>3. i \in 1..Len(on_wire) /\ on_wire[i] = call[u].id
      BY <1>3, <2>2, <3>2
    <3> QED
      BY <3>1, <3>3 DEF WireInv
  <2> QED
    BY <1>1, <1>3, <2>1, <2>2 DEF WireInv
<1> QED
  BY <1>4, <1>5, <1>6, <1>7, <1>8

LEMMA CallBegins ==
  ASSUME TransferInv, NEW t \in PortUsers, SerialCall(t)
  PROVE  TransferInv'
<1> USE SerialAssumption DEF TransferInv
<1>1. PICK op \in Operations(t), n \in Sizes :
         call' = [call EXCEPT ![t] =
            [NoCall EXCEPT !.op = op, !.size = n, !.id = called',
                !.step = CASE op \in TakesRead -> "read lock"
                           [] op \in TakesWrite \ TakesRead -> "write lock"
                           [] OTHER -> "work"]]
  BY DEF SerialCall
<1> DEFINE r == [NoCall EXCEPT !.op = op, !.size = n, !.id = called',
                    !.step = CASE op \in TakesRead -> "read lock"
                               [] op \in TakesWrite \ TakesRead -> "write lock"
                               [] OTHER -> "work"]
<1>2. called \in Nat /\ called' = called + 1 /\ n \in Nat
  BY DEF SerialCall, SerialShape
<1>3. op \in CallOp /\ op # "none"
  BY DEF Operations, CallOp, LineReads
<1>4. /\ r \in PortCall /\ r.op = op /\ r.id = called + 1 /\ r.got = <<>>
      /\ op \in TakesRead => r.step = "read lock"
      /\ op \in TakesWrite \ TakesRead => r.step = "write lock"
      /\ op \notin TakesRead \cup TakesWrite => r.step = "work"
  <2>1. called' \in Nat
    BY <1>2
  <2>2. NoCall \in PortCall /\ NoCall.got = <<>>
    BY NoCallType DEF NoCall
  <2>3. r.op = op /\ r.id = called' /\ r.got = <<>>
    BY <2>2 DEF PortCall
  <2>4. r.step = CASE op \in TakesRead -> "read lock"
                   [] op \in TakesWrite \ TakesRead -> "write lock"
                   [] OTHER -> "work"
    BY <2>2 DEF PortCall
  <2>5. r \in PortCall
    BY <1>2, <1>3, <2>1, <2>2 DEF PortCall, Locking
  <2>6. op \in TakesRead => r.step = "read lock"
    BY <2>4
  <2>7. op \in TakesWrite \ TakesRead => r.step = "write lock"
    BY <2>4
  <2>8. op \notin TakesRead \cup TakesWrite => r.step = "work"
    BY <2>4
  <2> QED
    BY <1>2, <2>3, <2>5, <2>6, <2>7, <2>8
<1> HIDE DEF r
<1>5. call'[t] = r /\ \A u \in PortUsers \ {t} : call'[u] = call[u]
  BY <1>1 DEF SerialShape, r
<1>6. call[t].op = "none" /\ call[t].step = "none" /\ call[t].id = 0
  BY DEF SerialCall, NoCall
<1>7. SerialShape'
  BY <1>1, <1>2, <1>4 DEF SerialShape, SerialCall, r
<1>8. LockInv'
  <2>1. holder["read"] # t /\ holder["write"] # t
    BY <1>6 DEF LockInv, LocksOf, TakesRead, TakesWrite, LineReads
  <2>2. holder' = holder
    BY DEF SerialCall
  <2>3. LocksOf(t)'
    BY <1>4, <1>5, <2>1, <2>2 DEF LocksOf, Locking
  <2>4. ASSUME NEW u \in PortUsers \ {t} PROVE LocksOf(u)'
    BY <1>5, <2>2, ZenonT(30) DEF LockInv, LocksOf
  <2> QED
    BY <2>3, <2>4 DEF LockInv
<1>9. IdInv'
  <2>1. \A u \in PortUsers \ {t} :
           /\ call'[u].id \in 0..called /\ (call'[u].op = "none" <=> call'[u].id = 0)
    BY <1>5 DEF IdInv
  <2>2. ASSUME NEW u \in PortUsers
        PROVE  call'[u].id \in 0..called' /\ (call'[u].op = "none" <=> call'[u].id = 0)
    <3>1. CASE u = t
      <4>1. called + 1 \in 0..(called + 1) /\ called + 1 # 0
        BY <1>2
      <4> QED
        BY <1>2, <1>3, <1>4, <1>5, <3>1, <4>1
    <3>2. CASE u # t
      BY <1>2, <2>1, <3>2
    <3> QED
      BY <3>1, <3>2
  <2>3. ASSUME NEW u \in PortUsers, NEW v \in PortUsers, u # v, call'[u].id = call'[v].id
        PROVE  call'[u].id = 0
    <3>1. \A x \in PortUsers \ {t} : call'[x].id # call'[t].id
      <4>1. \A i \in 0..called : i # called + 1
        BY <1>2
      <4> QED
        BY <1>4, <1>5, <2>1, <4>1
    <3>2. u # t /\ v # t
      BY <2>3, <3>1
    <3> QED
      BY <1>5, <2>3, <3>2 DEF IdInv
  <2> QED
    BY <2>2, <2>3 DEF IdInv
<1>10. ReadInv'
  <2> SUFFICES ASSUME NEW u \in PortUsers
               PROVE  /\ call'[u].got # <<>> => holder["read"] = u
                      /\ ~call'[u].disturbed => IsRun(call'[u].got, incoming - Len(input))
    BY DEF ReadInv, SerialCall
  <2>1. CASE u = t
    <3>1. incoming - Len(input) \in Int
      BY DEF SerialShape
    <3> QED
      BY <1>4, <1>5, <2>1, <3>1, RunEmpty
  <2>2. CASE u # t
    BY <1>5, <2>2 DEF ReadInv
  <2> QED
    BY <2>1, <2>2
<1>11. WireInv'
  <2>1. \A i \in 1..Len(on_wire) : on_wire[i] \in 1..called /\ on_wire[i] \in 1..called'
    BY <1>2 DEF WireInv
  <2>2. ASSUME NEW u \in PortUsers, NEW i \in 1..Len(on_wire), on_wire[i] = call'[u].id
        PROVE  u # t
    <3>1. on_wire[i] # called + 1
      BY <1>2, <2>1
    <3> QED
      BY <1>4, <1>5, <2>2, <3>1
  <2> QED
    BY <1>5, <2>1, <2>2 DEF WireInv, SerialCall
<1> QED
  BY <1>7, <1>8, <1>9, <1>10, <1>11

\* A lock is taken.
LEMMA LockTaken ==
  ASSUME TransferInv, NEW t \in PortUsers, TakeReadLock(t) \/ TakeWriteLock(t)
  PROVE  TransferInv'
<1> USE SerialAssumption DEF TransferInv
<1> DEFINE r == [call[t] EXCEPT !.step =
                    IF call[t].step = "read lock" /\ call[t].op \in TakesWrite THEN "write lock"
                    ELSE "work"]
<1>1. /\ r \in PortCall /\ r.op = call[t].op /\ r.id = call[t].id /\ r.got = call[t].got
      /\ r.disturbed = call[t].disturbed
      /\ r.step = IF call[t].step = "read lock" /\ call[t].op \in TakesWrite THEN "write lock"
                  ELSE "work"
  BY ZenonT(30) DEF SerialShape, PortCall, Locking
<1>2. call' = [call EXCEPT ![t] = r]
  BY DEF SerialShape, TakeReadLock, TakeWriteLock
<1> HIDE DEF r
<1>3. call'[t] = r /\ \A u \in PortUsers \ {t} : call'[u] = call[u]
  BY <1>2 DEF SerialShape
<1>4. \A u \in PortUsers :
         /\ call'[u].op = call[u].op /\ call'[u].id = call[u].id /\ call'[u].got = call[u].got
         /\ call'[u].disturbed = call[u].disturbed
  BY <1>1, <1>3
<1>5. Nobody \notin PortUsers
  BY DEF PortUsers, Nobody
<1>6. /\ holder' \in [{"read", "write"} -> PortUsers \cup {Nobody}]
      /\ \/ /\ call[t].step = "read lock" /\ holder["read"] = Nobody
            /\ holder'["read"] = t /\ holder'["write"] = holder["write"]
         \/ /\ call[t].step = "write lock" /\ holder["write"] = Nobody
            /\ holder'["write"] = t /\ holder'["read"] = holder["read"]
  BY DEF SerialShape, TakeReadLock, TakeWriteLock
<1>7. SerialShape'
  BY <1>1, <1>2, <1>6 DEF SerialShape, TakeReadLock, TakeWriteLock
<1>8. LockInv'
  <2>1. LocksOf(t)'
    <3>1. LocksOf(t)
      BY DEF LockInv
    <3>2. CASE call[t].step = "read lock"
      BY <1>1, <1>3, <1>5, <1>6, <3>1, <3>2 DEF LocksOf, Locking
    <3>3. CASE call[t].step = "write lock"
      BY <1>1, <1>3, <1>5, <1>6, <3>1, <3>3 DEF LocksOf, Locking
    <3> QED
      BY <1>6, <3>2, <3>3
  <2>2. ASSUME NEW u \in PortUsers \ {t} PROVE LocksOf(u)'
    <3>1. Same(u)
      BY <1>3 DEF Same
    <3>2. /\ holder'["read"] = u <=> holder["read"] = u
          /\ holder'["write"] = u <=> holder["write"] = u
      <4>1. u # t /\ u # Nobody
        BY <1>5
      <4> QED
        BY <1>6, <4>1
    <3> QED
      BY <3>1, <3>2, LocksKept DEF LockInv, Same
  <2> QED
    BY <2>1, <2>2 DEF LockInv
<1>9. IdInv'
  <2>1. called' = called
    BY DEF TakeReadLock, TakeWriteLock
  <2> QED
    BY <1>4, <2>1, IdsKept
<1>10. ReadInv'
  <2>1. \A u \in PortUsers : holder["read"] = u => holder'["read"] = u
    BY <1>5, <1>6
  <2> QED
    BY <1>4, <2>1 DEF ReadInv, TakeReadLock, TakeWriteLock
<1>11. WireInv'
  <2>1. \A u \in PortUsers : holder["write"] = u => holder'["write"] = u
    BY <1>5, <1>6
  <2>2. UNCHANGED <<on_wire, called>>
    BY DEF TakeReadLock, TakeWriteLock
  <2> QED
    BY <1>4, <2>1, <2>2 DEF WireInv
<1> QED
  BY <1>7, <1>8, <1>9, <1>10, <1>11

\* A byte arrives.
LEMMA ArriveStep ==
  ASSUME TransferInv, Arrive
  PROVE  TransferInv'
<1> USE DEF TransferInv
<1>1. /\ input' \in Seq(Nat) /\ IsRun(input', incoming') /\ incoming' \in Nat
      /\ incoming' - Len(input') = incoming - Len(input)
  BY RunAppended DEF Arrive, SerialShape, ReadInv
<1>2. SerialShape'
  BY <1>1 DEF SerialShape, Arrive
<1>3. ReadInv'
  BY <1>1 DEF ReadInv, Arrive
<1> QED
  BY <1>2, <1>3 DEF LockInv, LocksOf, IdInv, WireInv, Arrive

LEMMA Returned ==
  ASSUME TransferInv, NEW t \in PortUsers, Return(t),
         input' \in Seq(Nat), IsRun(input', incoming),
         input' = input \/ holder["read"] = t,
         UNCHANGED <<incoming, on_wire, called>>
  PROVE  TransferInv'
<1>1. call' \in [PortUsers -> PortCall] /\ call'[t] = NoCall
  BY NoCallType DEF Return, TransferInv, SerialShape
<1>2. \A u \in PortUsers \ {t} : Same(u)
  BY DEF Return, TransferInv, SerialShape, Same
<1>3. holder' = [l \in DOMAIN holder |-> IF holder[l] = t THEN Nobody ELSE holder[l]]
  BY DEF Return
<1> QED
  BY <1>1, <1>2, <1>3, ReturnStep

\* Disturb changes nothing else.
LEMMA Disturbed ==
  ASSUME TransferInv
  PROVE  /\ Disturb \in [PortUsers -> PortCall]
         /\ \A u \in PortUsers :
               /\ Disturb[u].op = call[u].op /\ Disturb[u].id = call[u].id
               /\ Disturb[u].got = call[u].got /\ Disturb[u].step = call[u].step
               /\ ~Disturb[u].disturbed => call[u].got = <<>>
<1>1. ASSUME NEW u \in PortUsers
      PROVE  /\ Disturb[u] \in PortCall
             /\ Disturb[u].op = call[u].op /\ Disturb[u].id = call[u].id
             /\ Disturb[u].got = call[u].got /\ Disturb[u].step = call[u].step
             /\ Disturb[u].disturbed = (call[u].op # "none")
  <2>1. call[u] \in PortCall /\ Disturb[u] = [call[u] EXCEPT !.disturbed = call[u].op # "none"]
    BY DEF TransferInv, SerialShape, Disturb
  <2>2. (call[u].op # "none") \in BOOLEAN
    OBVIOUS
  <2> QED
    BY <2>1, <2>2 DEF PortCall
<1>2. ASSUME NEW u \in PortUsers, call[u].op = "none" PROVE call[u].got = <<>>
  <2>1. holder["read"] # u
    BY <1>2 DEF TransferInv, LockInv, LocksOf, TakesRead, LineReads
  <2> QED
    BY <2>1 DEF TransferInv, ReadInv
<1> QED
  BY <1>1, <1>2 DEF Disturb

LEMMA InputKinds ==
  ASSUME TransferInv
  PROVE  /\ input \in Seq(Nat) /\ IsRun(input, incoming)
         /\ <<>> \in Seq(Nat) /\ IsRun(<<>>, incoming)
         /\ input # <<>> => Tail(input) \in Seq(Nat) /\ IsRun(Tail(input), incoming)
BY RunEmpty, RunTail DEF TransferInv, SerialShape, ReadInv

\* A read works with the read lock, a write with the write lock.
LEMMA WorkLocked ==
  ASSUME TransferInv, NEW t \in PortUsers, call[t].step \in {"work", "loop", "reopen"}
  PROVE  /\ call[t].op \in TakesRead => holder["read"] = t
         /\ call[t].op \in TakesWrite => holder["write"] = t
BY DEF TransferInv, LockInv, LocksOf, Locking

LEMMA TakingKept ==
  ASSUME TransferInv, NEW t \in PortUsers, NEW n \in Nat, Taking(t, n),
         call[t].op \in LineReads \cup {"read"}, call[t].step \in {"work", "loop"},
         UNCHANGED <<holder, incoming, on_wire, called>>
  PROVE  TransferInv'
<1> DEFINE k == Fewer(n, Len(input))
           g == call[t].got \o SubSeq(input, 1, k)
           r == [call[t] EXCEPT !.got = g, !.step = "loop"]
<1>1. holder["read"] = t
  BY WorkLocked DEF TakesRead
<1>2. input \in Seq(Nat) /\ call[t] \in PortCall /\ call[t].got \in Seq(Nat) /\ incoming \in Nat
  BY DEF TransferInv, SerialShape, PortCall
<1>3. k \in 0..Len(input)
  BY <1>2 DEF Fewer
<1>4. call' = [call EXCEPT ![t] = r] /\ input' = SubSeq(input, k + 1, Len(input))
  BY DEF Taking, TransferInv, SerialShape
<1> HIDE DEF k
<1>5. g \in Seq(Nat)
  BY <1>2, <1>3, RunTaken DEF TransferInv, ReadInv
<1> HIDE DEF g
<1>6. /\ r \in PortCall /\ r.op = call[t].op /\ r.id = call[t].id
      /\ r.disturbed = call[t].disturbed /\ r.step = "loop" /\ r.got = g
  BY <1>2, <1>5 DEF PortCall
<1> HIDE DEF r
<1> QED
  BY <1>1, <1>3, <1>4, <1>6, TakingStep DEF g

LEMMA ReadingStep ==
  ASSUME TransferInv, NEW t \in PortUsers,
         UnixReadFirst(t) \/ UnixReadMore(t) \/ ReadByte(t) \/ WindowsRead(t)
  PROVE  TransferInv'
<1>1. call[t].size \in Nat /\ Len(call[t].got) \in Nat
  BY SMTT(30) DEF TransferInv, SerialShape, PortCall
<1>2. CASE UnixReadFirst(t) \/ WindowsRead(t)
  BY <1>1, <1>2, TakingKept DEF UnixReadFirst, WindowsRead, Working
<1>3. CASE UnixReadMore(t)
  <2>1. call[t].size - Len(call[t].got) \in Nat
    BY <1>1, <1>3 DEF UnixReadMore
  <2> QED
    BY <1>3, <2>1, TakingKept DEF UnixReadMore
<1>4. CASE ReadByte(t)
  BY <1>4, TakingKept DEF ReadByte
<1> QED
  BY <1>2, <1>3, <1>4

LEMMA WritingWireStep ==
  ASSUME TransferInv, NEW t \in PortUsers, UnixWriteSome(t) \/ WindowsWrite(t)
  PROVE  TransferInv'
<1>1. call[t] \in PortCall /\ call[t].size \in Nat /\ call[t].sent \in Nat
  BY DEF TransferInv, SerialShape, PortCall
<1>2. call[t].op = "write" /\ call[t].step \in {"work", "loop"} /\ holder["write"] = t
  BY WorkLocked DEF UnixWriteSome, WindowsWrite, Working, TakesWrite
<1>3. CASE UnixWriteSome(t)
  <2>1. PICK n \in 1..(call[t].size - call[t].sent) :
           /\ Put(t, n)
           /\ call' = [call EXCEPT ![t].sent = @ + n, ![t].step = "loop"]
    BY <1>3 DEF UnixWriteSome
  <2>2. n \in Nat \ {0} /\ call[t].sent + n \in Nat
    BY <1>1
  <2> DEFINE r == [call[t] EXCEPT !.sent = @ + n, !.step = "loop"]
  <2>3. call' = [call EXCEPT ![t] = r]
    BY <2>1 DEF TransferInv, SerialShape
  <2>4. /\ r \in PortCall /\ r.op = call[t].op /\ r.id = call[t].id
        /\ r.disturbed = call[t].disturbed /\ r.step = "loop" /\ r.got = call[t].got
    BY <1>1, <2>2 DEF PortCall
  <2> HIDE DEF r
  <2> QED
    BY <1>2, <1>3, <2>1, <2>2, <2>3, <2>4, PutStep DEF UnixWriteSome
<1>4. CASE WindowsWrite(t)
  <2> DEFINE r == [call[t] EXCEPT !.sent = call[t].size]
  <2>1. call' = [call EXCEPT ![t] = r]
    BY <1>4 DEF WindowsWrite, TransferInv, SerialShape
  <2>2. /\ r \in PortCall /\ r.op = call[t].op /\ r.id = call[t].id
        /\ r.disturbed = call[t].disturbed /\ r.step = call[t].step /\ r.got = call[t].got
    BY <1>1 DEF PortCall
  <2> HIDE DEF r
  <2>3. CASE call[t].size # 0
    BY <1>1, <1>2, <1>4, <2>1, <2>2, <2>3, PutStep, ZenonT(30) DEF WindowsWrite
  <2>4. CASE call[t].size = 0
    <3>1. [i \in 1..call[t].size |-> call[t].id] = <<>>
      BY <2>4
    <3>2. on_wire' = on_wire
      BY <1>4, <3>1, ConcatEmptySeq DEF WindowsWrite, Put, TransferInv, SerialShape
    <3>3. call'[t] = r /\ \A u \in PortUsers \ {t} : call'[u] = call[u]
      BY <2>1 DEF TransferInv, SerialShape
    <3>4. \A u \in PortUsers : Same(u)
      BY <2>2, <3>3 DEF Same
    <3>5. call' \in [PortUsers -> PortCall]
      BY <2>1, <2>2 DEF TransferInv, SerialShape
    <3>6. /\ called \in Nat /\ input \in Seq(Nat) /\ IsRun(input, incoming)
          /\ UNCHANGED <<holder, incoming, input, called>>
      BY <1>4, InputKinds DEF WindowsWrite, TransferInv, SerialShape
    <3> QED
      BY <3>2, <3>4, <3>5, <3>6, SameStep
  <2> QED
    BY <2>3, <2>4
<1> QED
  BY <1>3, <1>4

LEMMA ExpireStep ==
  ASSUME TransferInv, NEW t \in PortUsers, Expire(t)
  PROVE  TransferInv'
<1> DEFINE r == [call[t] EXCEPT !.expired = TRUE]
<1>1. call' = [call EXCEPT ![t] = r] /\ call[t] \in PortCall
  BY DEF Expire, TransferInv, SerialShape
<1>2. /\ r \in PortCall /\ r.op = call[t].op /\ r.id = call[t].id
      /\ r.disturbed = call[t].disturbed /\ r.step = call[t].step /\ r.got = call[t].got
  BY <1>1 DEF PortCall
<1> HIDE DEF r
<1>3. call'[t] = r /\ \A u \in PortUsers \ {t} : call'[u] = call[u]
  BY <1>1 DEF TransferInv, SerialShape
<1>4. \A u \in PortUsers : Same(u)
  BY <1>2, <1>3 DEF Same
<1>5. call' \in [PortUsers -> PortCall] /\ called \in Nat
  BY <1>1, <1>2 DEF TransferInv, SerialShape
<1> QED
  BY <1>4, <1>5, InputKinds, SameStep DEF Expire

LEMMA ReturningStep ==
  ASSUME TransferInv, NEW t \in PortUsers,
         \/ ReadClosed(t) \/ ReadReturns(t) \/ LineReturns(t) \/ WindowsByteLate(t)
         \/ WriteReturns(t) \/ Wait(t)
  PROVE  TransferInv'
<1>1. CASE ReadClosed(t) \/ ReadReturns(t) \/ LineReturns(t) \/ WriteReturns(t) \/ Wait(t)
  BY <1>1, InputKinds, Returned DEF ReadClosed, ReadReturns, LineReturns, WriteReturns, Wait
<1>2. CASE WindowsByteLate(t)
  <2>1. holder["read"] = t
    BY <1>2, WorkLocked DEF WindowsByteLate, TakesRead
  <2> QED
    BY <1>2, <2>1, InputKinds, Returned DEF WindowsByteLate, Readable
<1> QED
  BY <1>1, <1>2

LEMMA FlushStep ==
  ASSUME TransferInv, NEW t \in PortUsers, Flush(t)
  PROVE  TransferInv'
<1>1. CASE port.open /\ call[t].op = (IF Unix THEN "flushInput" ELSE "flush")
  <2>1. holder["read"] = t
    BY <1>1, WorkLocked DEF Flush, Working, TakesRead
  <2>2. call' = [Disturb EXCEPT ![t] = NoCall]
    BY <1>1 DEF Flush
  <2>3. call' \in [PortUsers -> PortCall] /\ call'[t] = NoCall
    BY <2>2, Disturbed, NoCallType
  <2>4. \A u \in PortUsers \ {t} : Same(u)
    BY <2>2, Disturbed DEF Same
  <2> QED
    BY <1>1, <2>1, <2>3, <2>4, InputKinds, ReturnStep DEF Flush
<1>2. CASE ~(port.open /\ call[t].op = (IF Unix THEN "flushInput" ELSE "flush"))
  BY <1>2, InputKinds, Returned DEF Flush
<1> QED
  BY <1>1, <1>2

\* The owner opens, closes or sets the port: reads that go on are disturbed, or the input
\* is left alone.
LEMMA OwnerStep ==
  ASSUME TransferInv, OpenPort \/ ClosePort \/ Set
  PROVE  TransferInv'
<1>1. /\ call' = Disturb \/ (call' = call /\ input' = input)
      /\ input' \in {input, <<>>}
      /\ called' = called + 1
      /\ UNCHANGED <<holder, incoming, on_wire>>
  BY DEF OpenPort, ClosePort, Set, Opening, Idle
<1>2. call' \in [PortUsers -> PortCall] /\ called' \in Nat /\ called' >= called
  BY <1>1, Disturbed DEF TransferInv, SerialShape
<1>3. \A u \in PortUsers : Same(u)
  BY <1>1, Disturbed DEF Same
<1>4. \/ input' = input
      \/ \A u \in PortUsers : call[u].got = <<>> \/ call'[u].disturbed
  BY <1>1, Disturbed
<1> QED
  BY <1>1, <1>2, <1>3, <1>4, InputKinds, SameStep

\* setPort has both locks, so that it may drop the input.
LEMMA SetPortStep ==
  ASSUME TransferInv, SetPortClose \/ SetPortOpen
  PROVE  TransferInv'
<1>1. Owner \in PortUsers /\ call[Owner].op = "setPort" /\ call[Owner].step \in {"work", "reopen"}
  BY DEF PortUsers, SetPortClose, SetPortOpen, Working
<1>2. holder["read"] = Owner
  BY <1>1, WorkLocked DEF TakesRead
<1>3. CASE Return(Owner)
  <2>1. input' \in {input, <<>>} /\ UNCHANGED <<incoming, on_wire, called>>
    BY DEF SetPortClose, SetPortOpen, Opening
  <2> QED
    BY <1>1, <1>2, <1>3, <2>1, InputKinds, Returned
<1>4. CASE SetPortClose /\ port.open
  <2> DEFINE r == [Disturb[Owner] EXCEPT !.step = "reopen"]
  <2>1. /\ call' = [Disturb EXCEPT ![Owner] = r]
        /\ input' = <<>> /\ UNCHANGED <<holder, incoming, on_wire, called>>
    BY <1>4, Disturbed DEF SetPortClose
  <2>2. /\ r \in PortCall /\ r.op = Disturb[Owner].op /\ r.id = Disturb[Owner].id
        /\ r.got = Disturb[Owner].got /\ r.disturbed = Disturb[Owner].disturbed
        /\ r.step = "reopen"
    <3>1. Disturb[Owner] \in PortCall
      BY <1>1, Disturbed
    <3> QED
      BY <3>1 DEF PortCall
  <2>3. call[Owner].step = "work"
    BY <1>4 DEF SetPortClose, Working
  <2> HIDE DEF r
  <2>4. call' \in [PortUsers -> PortCall]
    BY <2>1, <2>2, Disturbed
  <2>5. call'[Owner] = r /\ \A u \in PortUsers \ {Owner} : call'[u] = Disturb[u]
    BY <1>1, <2>1, Disturbed
  <2>6. \A u \in PortUsers : Same(u)
    BY <1>1, <2>2, <2>3, <2>5, Disturbed, ZenonT(30) DEF Same, Locking
  <2>7. \A u \in PortUsers : call[u].got = <<>> \/ call'[u].disturbed
    BY <1>1, <2>2, <2>5, Disturbed
  <2>8. called \in Nat
    BY DEF TransferInv, SerialShape
  <2> QED
    BY <2>1, <2>4, <2>6, <2>7, <2>8, InputKinds, SameStep
<1> QED
  BY <1>3, <1>4 DEF SetPortClose, SetPortOpen

LEMMA SerialStepInv ==
  ASSUME TransferInv, SerialNext
  PROVE  TransferInv'
<1>1. ASSUME NEW t \in PortUsers, SerialStep(t) PROVE TransferInv'
  BY <1>1, LockTaken, ReturningStep, ReadingStep, WritingWireStep, FlushStep, ExpireStep
     DEF SerialStep
<1>2. CASE Unplug
  BY <1>2 DEF Unplug, TransferInv, SerialShape, LockInv, LocksOf, IdInv, ReadInv, WireInv
<1> QED
  BY <1>1, <1>2, CallBegins, OwnerStep, SetPortStep, ArriveStep DEF SerialNext

LEMMA SerialUnchanged ==
  ASSUME TransferInv, UNCHANGED serialVars
  PROVE  TransferInv'
BY DEF serialVars, TransferInv, SerialShape, LockInv, LocksOf, IdInv, ReadInv, WireInv

LEMMA TransferAlways == Spec => []TransferInv
<1>1. Init => TransferInv
  BY SerialInitInv DEF Init
<1>2. TransferInv /\ [Next]_callVars => TransferInv'
  BY SerialStepInv, SerialUnchanged
     DEF Next, callVars, CameraStep, QueueStep, PortStep, BackendStep
<1> QED
  BY <1>1, <1>2, PTL DEF Spec

\* A read takes bytes that follow each other unless it was disturbed, and a write puts
\* its bytes on the wire without another's between them: the locks of serial.cpp.
THEOREM TransfersAreWhole == Spec => []WholeTransfers
<1>1. TransferInv => WholeTransfers
  <2> SUFFICES ASSUME TransferInv PROVE WholeReads /\ WholeWrites
    BY DEF WholeTransfers
  <2>1. WholeReads
    <3> SUFFICES ASSUME NEW t \in PortUsers, ~call[t].disturbed,
                        NEW i \in 1..(Len(call[t].got) - 1)
                 PROVE  call[t].got[i + 1] = call[t].got[i] + 1
      BY DEF WholeReads
    <3>1. Len(call[t].got) \in Nat /\ incoming - Len(input) \in Int
      BY DEF TransferInv, SerialShape, PortCall
    <3>2. IsRun(call[t].got, incoming - Len(input))
      BY DEF TransferInv, ReadInv
    <3>3. i \in 1..Len(call[t].got) /\ i + 1 \in 1..Len(call[t].got)
      BY <3>1
    <3> QED
      BY <3>1, <3>2, <3>3, SMTT(30) DEF IsRun
  <2>2. WholeWrites
    <3>1. Len(on_wire) \in Nat /\ Blocks(on_wire)
      BY DEF TransferInv, SerialShape, WireInv
    <3> SUFFICES ASSUME NEW i \in 1..Len(on_wire), NEW k \in 1..Len(on_wire),
                        i < k, on_wire[i] = on_wire[k], NEW j \in i..k
                 PROVE  on_wire[j] = on_wire[i]
      BY DEF WholeWrites
    <3>2. j \in 1..Len(on_wire) /\ i <= j /\ j <= k
      BY <3>1
    <3> QED
      BY <3>1, <3>2 DEF Blocks
  <2> QED
    BY <2>1, <2>2
<1> QED
  BY <1>1, TransferAlways, PTL

\* No calls of the serial library wait for each other in a circle: who has the read lock
\* may wait for the write lock, and who has that waits for none.
THEOREM LocksAreTakenInOrder == Spec => []LocksInOrder
<1>1. TransferInv => LocksInOrder
  <2> SUFFICES ASSUME TransferInv, NEW t \in PortUsers
               PROVE  LockWaitsFor(LockWaitsFor(LockWaitsFor(t))) = Nobody
    BY DEF LocksInOrder
  <2> USE SerialAssumption
  <2>1. /\ Nobody \notin PortUsers /\ LockInv
        /\ holder["read"] \in PortUsers \cup {Nobody}
        /\ holder["write"] \in PortUsers \cup {Nobody}
    BY DEF PortUsers, Nobody, TransferInv, SerialShape
  <2>2. LockWaitsFor(Nobody) = Nobody
    BY <2>1 DEF LockWaitsFor
  \* the lock of the bytes that go out is the last one
  <2>3. LockWaitsFor(holder["write"]) = Nobody
    <3>1. CASE holder["write"] \in PortUsers
      <4>1. call[holder["write"]].step \notin Locking
        BY <2>1, <3>1 DEF LockInv, LocksOf
      <4> QED
        BY <4>1 DEF LockWaitsFor, Locking
    <3> QED
      BY <2>1, <2>2, <3>1
  <2>4. LockWaitsFor(holder["read"]) \in {Nobody, holder["write"]}
    <3>1. CASE holder["read"] \in PortUsers
      <4>1. call[holder["read"]].step # "read lock"
        BY <2>1, <3>1 DEF LockInv, LocksOf
      <4> QED
        BY <4>1 DEF LockWaitsFor
    <3> QED
      BY <2>1, <2>2, <3>1
  <2>5. LockWaitsFor(t) \in {Nobody, holder["read"], holder["write"]}
    BY DEF LockWaitsFor
  <2> QED
    BY <2>2, <2>3, <2>4, <2>5, Zenon
<1> QED
  BY <1>1, TransferAlways, PTL

-----------------------------------------------------------------------------
(* The settings of the serial port                                         *)

Flags == {"PARENB", "PARODD", "CMSPAR", "CSTOPB", "CRTSCTS", "XON"}
Values == {9600, 38400, 8, "none", "one"} \cup {s[2] : s \in Settings}
LineType ==
  [baud : Values, bits : Values, flags : SUBSET Flags, parity : Values, stop : Values,
   flow : Values, gone : BOOLEAN]
PortType ==
  [open : BOOLEAN, fd : {"open", "none"}, agreed : SUBSET Fields, asked : [Fields -> Values]]

RightValue(f, v) ==
  /\ v \in Values
  /\ f = "parity" => v \in {"none", "even", "odd", "space", "mark"}
  /\ f = "stop" => v \in {"one", "onehalf", "two"}
  /\ f = "flow" => v \in {"none", "hardware", "software"}
AskedRight(a) == a \in [Fields -> Values] /\ \A f \in Fields : RightValue(f, a[f])

LineShape ==
  platform \in Platforms /\ line \in LineType /\ port \in PortType /\ AskedRight(port.asked)

\* What the setters for termios do to the settings the line has.
SameParity(l, k) ==
  \A x \in {"PARENB", "PARODD", "CMSPAR"} : x \in l.flags <=> x \in k.flags
SameStop(l, k) == "CSTOPB" \in l.flags <=> "CSTOPB" \in k.flags
SameFlow(l, k) == \A x \in {"CRTSCTS", "XON"} : x \in l.flags <=> x \in k.flags
FlowOf(l) ==
  IF "CRTSCTS" \in l.flags THEN "hardware" ELSE IF "XON" \in l.flags THEN "software" ELSE "none"

LEMMA BitsSet ==
  ASSUME NEW l \in LineType, NEW v \in Values
  PROVE  LET k == TermiosBits(l, v) IN
         /\ k \in LineType /\ k.bits = v /\ k.baud = l.baud /\ k.gone = l.gone
         /\ SameParity(l, k) /\ SameStop(l, k) /\ SameFlow(l, k)
BY DEF TermiosBits, LineType, SameParity, SameStop, SameFlow

LEMMA ParitySet ==
  ASSUME NEW l \in LineType, NEW v \in {"none", "even", "odd", "space", "mark"}
  PROVE  LET k == TermiosParity(l, v) IN
         /\ k \in LineType /\ k.bits = l.bits /\ k.baud = l.baud /\ k.gone = l.gone
         /\ TermiosParityOf(k) = v \/ "CMSPAR" \in k.flags
         /\ "CMSPAR" \in l.flags => "CMSPAR" \in k.flags
         /\ SameStop(l, k) /\ SameFlow(l, k)
<1> DEFINE k == TermiosParity(l, v)
           F == CASE v = "none"  -> l.flags \ {"PARENB"}
                  [] v = "even"  -> (l.flags \ {"PARODD"}) \cup {"PARENB"}
                  [] v = "odd"   -> l.flags \cup {"PARENB", "PARODD"}
                  [] v = "space" -> (l.flags \ {"PARODD"}) \cup {"PARENB", "CMSPAR"}
                  [] v = "mark"  -> l.flags \cup {"PARENB", "PARODD", "CMSPAR"}
<1>1. k = [l EXCEPT !.flags = F]
  BY DEF TermiosParity
<1>2. l.flags \in SUBSET Flags
  BY DEF LineType
<1>3. F \in SUBSET Flags
  BY <1>2 DEF Flags
<1>4. /\ "CSTOPB" \in F <=> "CSTOPB" \in l.flags
      /\ "CRTSCTS" \in F <=> "CRTSCTS" \in l.flags
      /\ "XON" \in F <=> "XON" \in l.flags
      /\ "CMSPAR" \in l.flags => "CMSPAR" \in F
  OBVIOUS
<1>5. \/ v = "none" /\ "PARENB" \notin F
      \/ v = "even" /\ "PARENB" \in F /\ "PARODD" \notin F
      \/ v = "odd" /\ "PARENB" \in F /\ "PARODD" \in F
      \/ "CMSPAR" \in F
  OBVIOUS
<1> HIDE DEF F
<1>6. k \in LineType /\ k.flags = F /\ k.bits = l.bits /\ k.baud = l.baud /\ k.gone = l.gone
  BY <1>1, <1>3 DEF LineType
<1> HIDE DEF k
<1>7. TermiosParityOf(k) = v \/ "CMSPAR" \in k.flags
  BY <1>5, <1>6 DEF TermiosParityOf
<1>8. SameStop(l, k) /\ SameFlow(l, k)
  BY <1>4, <1>6 DEF SameStop, SameFlow
<1> QED
  BY <1>4, <1>6, <1>7, <1>8 DEF k

LEMMA StopSet ==
  ASSUME NEW l \in LineType, NEW v
  PROVE  LET k == TermiosStop(l, v) IN
         /\ k \in LineType /\ k.bits = l.bits /\ k.baud = l.baud /\ k.gone = l.gone
         /\ "CSTOPB" \in k.flags <=> v = "two"
         /\ SameParity(l, k) /\ SameFlow(l, k)
<1> DEFINE k == TermiosStop(l, v)
           F == IF v = "two" THEN l.flags \cup {"CSTOPB"} ELSE l.flags \ {"CSTOPB"}
<1>1. k = [l EXCEPT !.flags = F]
  BY DEF TermiosStop
<1>2. F \in SUBSET Flags
  BY DEF Flags, LineType
<1>3. /\ "CSTOPB" \in F <=> v = "two"
      /\ \A x : x # "CSTOPB" => (x \in F <=> x \in l.flags)
  OBVIOUS
<1> HIDE DEF F
<1>4. k \in LineType /\ k.flags = F /\ k.bits = l.bits /\ k.baud = l.baud /\ k.gone = l.gone
  BY <1>1, <1>2 DEF LineType
<1> HIDE DEF k
<1>5. SameParity(l, k) /\ SameFlow(l, k)
  BY <1>3, <1>4 DEF SameParity, SameFlow
<1> QED
  BY <1>3, <1>4, <1>5 DEF k

LEMMA FlowSet ==
  ASSUME NEW l \in LineType, NEW v \in {"none", "hardware", "software"}
  PROVE  LET k == TermiosFlow(l, v) IN
         /\ k \in LineType /\ k.bits = l.bits /\ k.baud = l.baud /\ k.gone = l.gone
         /\ FlowOf(k) = v
         /\ SameParity(l, k) /\ SameStop(l, k)
<1> DEFINE k == TermiosFlow(l, v)
           F == (l.flags \ {"CRTSCTS", "XON"}) \cup
                   (CASE v = "none" -> {} [] v = "hardware" -> {"CRTSCTS"}
                      [] v = "software" -> {"XON"})
<1>1. k = [l EXCEPT !.flags = F]
  BY DEF TermiosFlow
<1>2. l.flags \in SUBSET Flags
  BY DEF LineType
<1>3. /\ F \in SUBSET Flags
      /\ "CRTSCTS" \in F <=> v = "hardware"
      /\ "XON" \in F <=> v = "software"
      /\ \A x \in {"PARENB", "PARODD", "CMSPAR", "CSTOPB"} : x \in F <=> x \in l.flags
  <2>1. CASE v = "none"
    BY <1>2, <2>1 DEF Flags
  <2>2. CASE v = "hardware"
    BY <1>2, <2>2 DEF Flags
  <2>3. CASE v = "software"
    BY <1>2, <2>3 DEF Flags
  <2> QED
    BY <2>1, <2>2, <2>3
<1> HIDE DEF F
<1>4. k \in LineType /\ k.flags = F /\ k.bits = l.bits /\ k.baud = l.baud /\ k.gone = l.gone
  BY <1>1, <1>3 DEF LineType
<1> HIDE DEF k
<1>5. SameParity(l, k) /\ SameStop(l, k)
  BY <1>3, <1>4 DEF SameParity, SameStop
<1>6. FlowOf(k) = v
  BY <1>3, <1>4 DEF FlowOf
<1> QED
  BY <1>4, <1>5, <1>6 DEF k

LEMMA BaudSet ==
  ASSUME NEW l \in LineType, NEW v \in Values
  PROVE  LET k == TermiosBaud(l, v) IN
         /\ k \in LineType /\ k.bits = l.bits /\ k.gone = l.gone
         /\ k.baud = v \/ ~platform.any_baud
         /\ SameParity(l, k) /\ SameStop(l, k) /\ SameFlow(l, k)
<1> DEFINE k == TermiosBaud(l, v)
           b == IF is_standardbaudrate(v) \/ platform.any_baud THEN v ELSE 38400
<1>1. k = [l EXCEPT !.baud = b]
  BY DEF TermiosBaud
<1>2. b \in Values /\ (b = v \/ ~platform.any_baud)
  BY DEF Values
<1> HIDE DEF b
<1>3. /\ k \in LineType /\ k.baud = b /\ k.flags = l.flags /\ k.bits = l.bits
      /\ k.gone = l.gone
  BY <1>1, <1>2 DEF LineType
<1> HIDE DEF k
<1> QED
  BY <1>2, <1>3 DEF SameParity, SameStop, SameFlow, k

\* A line under termios has a setting, but for the cases of LineAsAsked.
HasIt(l, f, v) ==
  /\ f = "baud" => l.baud = v \/ ~platform.any_baud
  /\ f = "bits" => l.bits = v
  /\ f = "parity" => TermiosParityOf(l) = v \/ "CMSPAR" \in l.flags
  /\ f = "stop" => ("CSTOPB" \in l.flags <=> v = "two")
  /\ f = "flow" => FlowOf(l) = v

SettingInv ==
  /\ LineShape
  /\ port.fd = "open" =>
        \A f \in port.agreed :
           IF Unix THEN HasIt(line, f, port.asked[f]) ELSE line[f] = port.asked[f]

LEMMA SameHas ==
  ASSUME NEW l \in LineType, NEW k \in LineType, NEW v
  PROVE  /\ k.baud = l.baud => (HasIt(l, "baud", v) => HasIt(k, "baud", v))
         /\ k.bits = l.bits => (HasIt(l, "bits", v) => HasIt(k, "bits", v))
         /\ SameParity(l, k) => (HasIt(l, "parity", v) => HasIt(k, "parity", v))
         /\ SameStop(l, k) => (HasIt(l, "stop", v) => HasIt(k, "stop", v))
         /\ SameFlow(l, k) => (HasIt(l, "flow", v) => HasIt(k, "flow", v))
BY DEF HasIt, SameParity, SameStop, SameFlow, FlowOf, TermiosParityOf

\* A setter sets its field and leaves the others.
LEMMA SetterSets ==
  ASSUME NEW l \in LineType, NEW f \in Fields, NEW v, RightValue(f, v)
  PROVE  LET k == TermiosSet(l, f, v) IN
         /\ k \in LineType /\ HasIt(k, f, v)
         /\ \A g \in Fields \ {f} : \A w : HasIt(l, g, w) => HasIt(k, g, w)
<1> DEFINE k == TermiosSet(l, f, v)
<1>1. CASE f = "baud"
  <2>1. k = TermiosBaud(l, v)
    BY <1>1 DEF TermiosSet
  <2>2. /\ k \in LineType /\ k.bits = l.bits /\ (k.baud = v \/ ~platform.any_baud)
        /\ SameParity(l, k) /\ SameStop(l, k) /\ SameFlow(l, k)
    BY <2>1, BaudSet DEF RightValue
  <2> HIDE DEF k
  <2>3. HasIt(k, f, v)
    BY <1>1, <2>2 DEF HasIt
  <2>4. \A g \in Fields \ {f} : \A w : HasIt(l, g, w) => HasIt(k, g, w)
    BY <1>1, <2>2, SameHas DEF Fields
  <2> QED
    BY <2>2, <2>3, <2>4 DEF k
<1>2. CASE f = "bits"
  <2>1. k = TermiosBits(l, v)
    BY <1>2 DEF TermiosSet
  <2>2. /\ k \in LineType /\ k.baud = l.baud /\ k.bits = v
        /\ SameParity(l, k) /\ SameStop(l, k) /\ SameFlow(l, k)
    BY <2>1, BitsSet DEF RightValue
  <2> HIDE DEF k
  <2>3. HasIt(k, f, v)
    BY <1>2, <2>2 DEF HasIt
  <2>4. \A g \in Fields \ {f} : \A w : HasIt(l, g, w) => HasIt(k, g, w)
    BY <1>2, <2>2, SameHas DEF Fields
  <2> QED
    BY <2>2, <2>3, <2>4 DEF k
<1>3. CASE f = "parity"
  <2>1. k = TermiosParity(l, v)
    BY <1>3 DEF TermiosSet
  <2>2. /\ k \in LineType /\ k.baud = l.baud /\ k.bits = l.bits
        /\ TermiosParityOf(k) = v \/ "CMSPAR" \in k.flags
        /\ SameStop(l, k) /\ SameFlow(l, k)
    BY <1>3, <2>1, ParitySet DEF RightValue
  <2> HIDE DEF k
  <2>3. HasIt(k, f, v)
    BY <1>3, <2>2 DEF HasIt
  <2>4. \A g \in Fields \ {f} : \A w : HasIt(l, g, w) => HasIt(k, g, w)
    BY <1>3, <2>2, SameHas DEF Fields
  <2> QED
    BY <2>2, <2>3, <2>4 DEF k
<1>4. CASE f = "stop"
  <2>1. k = TermiosStop(l, v)
    BY <1>4 DEF TermiosSet
  <2>2. /\ k \in LineType /\ k.baud = l.baud /\ k.bits = l.bits
        /\ "CSTOPB" \in k.flags <=> v = "two"
        /\ SameParity(l, k) /\ SameFlow(l, k)
    BY <2>1, StopSet
  <2> HIDE DEF k
  <2>3. HasIt(k, f, v)
    BY <1>4, <2>2 DEF HasIt
  <2>4. \A g \in Fields \ {f} : \A w : HasIt(l, g, w) => HasIt(k, g, w)
    BY <1>4, <2>2, SameHas DEF Fields
  <2> QED
    BY <2>2, <2>3, <2>4 DEF k
<1>5. CASE f = "flow"
  <2>1. k = TermiosFlow(l, v)
    BY <1>5 DEF TermiosSet
  <2>2. /\ k \in LineType /\ k.baud = l.baud /\ k.bits = l.bits /\ FlowOf(k) = v
        /\ SameParity(l, k) /\ SameStop(l, k)
    BY <1>5, <2>1, FlowSet DEF RightValue
  <2> HIDE DEF k
  <2>3. HasIt(k, f, v)
    BY <1>5, <2>2 DEF HasIt
  <2>4. \A g \in Fields \ {f} : \A w : HasIt(l, g, w) => HasIt(k, g, w)
    BY <1>5, <2>2, SameHas DEF Fields
  <2> QED
    BY <2>2, <2>3, <2>4 DEF k
<1> QED
  BY <1>1, <1>2, <1>3, <1>4, <1>5 DEF Fields

\* open() sets every field.
LEMMA AllSet ==
  ASSUME NEW l \in LineType, NEW a, AskedRight(a)
  PROVE  /\ SetAll(l, a) \in LineType
         /\ Unix => \A f \in Fields : HasIt(SetAll(l, a), f, a[f])
         /\ ~Unix => \A f \in Fields : SetAll(l, a)[f] = a[f]
<1>0. {"baud", "bits", "parity", "stop", "flow"} = Fields
  BY DEF Fields
<1>1. CASE Unix
  <2> DEFINE l1 == TermiosBits(l, a["bits"])
             l2 == TermiosParity(l1, a["parity"])
             l3 == TermiosStop(l2, a["stop"])
             l4 == TermiosFlow(l3, a["flow"])
             l5 == TermiosBaud(l4, a["baud"])
  <2>1. l1 = TermiosSet(l, "bits", a["bits"]) /\ l2 = TermiosSet(l1, "parity", a["parity"])
    BY DEF TermiosSet
  <2>2. l3 = TermiosSet(l2, "stop", a["stop"]) /\ l4 = TermiosSet(l3, "flow", a["flow"])
        /\ l5 = TermiosSet(l4, "baud", a["baud"])
    BY DEF TermiosSet
  <2>3. SetAll(l, a) = l5
    BY <1>1 DEF SetAll
  <2> HIDE DEF l1, l2, l3, l4, l5
  <2>4. \A f \in Fields : RightValue(f, a[f])
    BY DEF AskedRight
  <2>5. l1 \in LineType /\ HasIt(l1, "bits", a["bits"])
    BY <1>0, <2>1, <2>4, SetterSets
  <2>6. /\ l2 \in LineType /\ HasIt(l2, "bits", a["bits"]) /\ HasIt(l2, "parity", a["parity"])
    BY <1>0, <2>1, <2>4, <2>5, SetterSets
  <2>7. /\ l3 \in LineType /\ HasIt(l3, "bits", a["bits"]) /\ HasIt(l3, "parity", a["parity"])
        /\ HasIt(l3, "stop", a["stop"])
    BY <1>0, <2>2, <2>4, <2>6, SetterSets
  <2>8. /\ l4 \in LineType /\ HasIt(l4, "bits", a["bits"]) /\ HasIt(l4, "parity", a["parity"])
        /\ HasIt(l4, "stop", a["stop"]) /\ HasIt(l4, "flow", a["flow"])
    BY <1>0, <2>2, <2>4, <2>7, SetterSets
  <2>9. /\ l5 \in LineType /\ HasIt(l5, "bits", a["bits"]) /\ HasIt(l5, "parity", a["parity"])
        /\ HasIt(l5, "stop", a["stop"]) /\ HasIt(l5, "flow", a["flow"])
        /\ HasIt(l5, "baud", a["baud"])
    BY <1>0, <2>2, <2>4, <2>8, SetterSets
  <2> QED
    BY <1>0, <1>1, <2>3, <2>9
<1>2. CASE ~Unix
  <2>1. DOMAIN l = {"baud", "bits", "flags", "parity", "stop", "flow", "gone"}
    BY DEF LineType
  <2>2. SetAll(l, a) = [f \in {"baud", "bits", "flags", "parity", "stop", "flow", "gone"} |->
                           IF f \in Fields THEN a[f] ELSE l[f]]
    BY <1>2, <2>1 DEF SetAll
  <2>3. /\ a["baud"] \in Values /\ a["bits"] \in Values /\ a["parity"] \in Values
        /\ a["stop"] \in Values /\ a["flow"] \in Values
    BY <1>0 DEF AskedRight
  <2>4. l["flags"] \in SUBSET Flags /\ l["gone"] \in BOOLEAN
    BY DEF LineType
  <2>5. SetAll(l, a) \in LineType
    BY <2>2, <2>3, <2>4 DEF LineType, Fields
  <2>6. \A f \in Fields : SetAll(l, a)[f] = a[f]
    BY <2>2 DEF Fields
  <2> QED
    BY <1>2, <2>5, <2>6
<1> QED
  BY <1>1, <1>2
LEMMA LineInit ==
  ASSUME SerialInit
  PROVE  SettingInv
<1>1. line \in LineType
  BY DEF SerialInit, NewLine, LineType, Values, Flags
<1>2. port \in PortType /\ port.fd = "none" /\ AskedRight(port.asked)
  BY DEF SerialInit, NewPort, PortType, AskedRight, RightValue, Values, Fields
<1> QED
  BY <1>1, <1>2 DEF SerialInit, SettingInv, LineShape

\* Opening sets all fields, or leaves none agreed to.
LEMMA OpeningStep ==
  ASSUME SettingInv, Opening, UNCHANGED platform
  PROVE  SettingInv'
<1>1. port \in PortType /\ AskedRight(port.asked) /\ line \in LineType /\ platform \in Platforms
  BY DEF SettingInv, LineShape
<1>2. CASE /\ port' = [port EXCEPT !.open = TRUE, !.fd = "open", !.agreed = Fields]
           /\ line' = SetAll(line, port.asked)
  <2>1. port' \in PortType /\ port'.asked = port.asked /\ port'.agreed = Fields
    BY <1>1, <1>2 DEF PortType
  <2>2. /\ line' \in LineType
        /\ Unix => \A f \in Fields : HasIt(line', f, port.asked[f])
        /\ ~Unix => \A f \in Fields : line'[f] = port.asked[f]
    BY <1>1, <1>2, AllSet
  <2>3. LineShape'
    BY <1>1, <2>1, <2>2 DEF LineShape
  <2>4. Unix' <=> Unix
    BY DEF Unix
  <2>5. ASSUME NEW f \in Fields, Unix PROVE HasIt(line, f, port.asked[f])'
    BY <2>1, <2>2, <2>5 DEF HasIt
  <2> QED
    BY <2>1, <2>2, <2>3, <2>4, <2>5 DEF SettingInv
<1>3. CASE port'.agreed = {} /\ UNCHANGED line /\ port' \in PortType /\ port'.asked = port.asked
  <2>1. LineShape'
    BY <1>1, <1>3 DEF LineShape
  <2> QED
    BY <1>3, <2>1 DEF SettingInv
<1>4. CASE UNCHANGED <<port, line>>
  BY <1>4 DEF SettingInv, LineShape, Unix, HasIt
<1>5. ASSUME \/ port' = [port EXCEPT !.fd = IF Unix THEN "open" ELSE "none", !.agreed = {}]
             \/ port' = [port EXCEPT !.fd = "none", !.agreed = {}]
      PROVE  port'.agreed = {} /\ port' \in PortType /\ port'.asked = port.asked
  BY <1>1, <1>5 DEF PortType
<1> QED
  BY <1>2, <1>3, <1>4, <1>5 DEF Opening

\* A setter that succeeds sets its field, one that fails is remembered as not agreed to.
LEMMA SetStep ==
  ASSUME SettingInv, Set
  PROVE  SettingInv'
<1>1. /\ port \in PortType /\ AskedRight(port.asked) /\ line \in LineType
      /\ platform \in Platforms /\ port.fd = "open"
  BY DEF SettingInv, LineShape, Set
<1>2. PICK s \in Settings, ok \in BOOLEAN :
         /\ port' = [port EXCEPT !.asked[s[1]] = s[2],
                        !.agreed = IF ok THEN @ \cup {s[1]} ELSE @ \ {s[1]}]
         /\ line' = IF ~ok THEN line
                    ELSE IF Unix THEN TermiosSet(line, s[1], s[2]) ELSE DcbSet(line, s[1], s[2])
  BY DEF Set
<1> DEFINE f == s[1]
           v == s[2]
<1>3. f \in Fields /\ RightValue(f, v)
  BY SerialAssumption DEF Fields, RightValue, Values
<1> HIDE DEF f, v
<1>4. /\ port' = [port EXCEPT !.asked[f] = v, !.agreed = IF ok THEN @ \cup {f} ELSE @ \ {f}]
      /\ line' = IF ~ok THEN line
                 ELSE IF Unix THEN TermiosSet(line, f, v) ELSE DcbSet(line, f, v)
  BY <1>2 DEF f, v
<1> DEFINE a == [port.asked EXCEPT ![f] = v]
<1>5. /\ a \in [Fields -> Values] /\ a[f] = v
      /\ \A g \in Fields \ {f} : a[g] = port.asked[g]
  BY <1>1, <1>3 DEF RightValue, AskedRight
<1>6. AskedRight(a)
  BY <1>1, <1>3, <1>5 DEF AskedRight
<1>7. /\ port' \in PortType /\ port'.asked = a /\ port'.fd = "open"
      /\ port'.agreed = IF ok THEN port.agreed \cup {f} ELSE port.agreed \ {f}
  BY <1>1, <1>3, <1>4, <1>5 DEF PortType
<1> HIDE DEF a
<1>8. UNCHANGED platform /\ (Unix' <=> Unix)
  BY DEF Set, Unix
<1>9. CASE Unix
  <2>1. /\ line' \in LineType /\ (ok => HasIt(line', f, v))
        /\ \A g \in Fields \ {f} : \A w : HasIt(line, g, w) => HasIt(line', g, w)
    BY <1>1, <1>3, <1>4, <1>9, SetterSets
  <2>2. ASSUME NEW g \in port'.agreed PROVE HasIt(line', g, a[g])
    <3>1. CASE g = f
      BY <1>5, <1>7, <2>1, <2>2, <3>1
    <3>2. CASE g # f
      <4>1. g \in port.agreed /\ g \in Fields \ {f}
        BY <1>1, <1>7, <2>2, <3>2 DEF PortType
      <4>2. HasIt(line, g, port.asked[g])
        BY <1>1, <1>9, <4>1 DEF SettingInv
      <4> QED
        BY <1>5, <2>1, <4>1, <4>2
    <3> QED
      BY <3>1, <3>2
  <2>3. \A g \in port'.agreed : HasIt(line, g, port.asked[g])'
    BY <1>7, <1>8, <2>2 DEF HasIt
  <2>4. LineShape'
    BY <1>1, <1>6, <1>7, <1>8, <2>1 DEF LineShape, AskedRight, RightValue, Fields
  <2> QED
    BY <1>8, <1>9, <2>3, <2>4 DEF SettingInv
<1>10. CASE ~Unix
  <2>1. line' = IF ~ok THEN line ELSE [line EXCEPT ![f] = v]
    BY <1>4, <1>10 DEF DcbSet
  <2>2. /\ line' \in LineType /\ (ok => line'[f] = v)
        /\ \A g \in Fields \ {f} : line'[g] = line[g]
    BY <1>1, <1>3, <2>1 DEF LineType, Fields, RightValue
  <2>3. ASSUME NEW g \in port'.agreed PROVE line'[g] = a[g]
    <3>1. CASE g = f
      BY <1>5, <1>7, <2>2, <2>3, <3>1
    <3>2. CASE g # f
      <4>1. g \in port.agreed /\ g \in Fields \ {f}
        BY <1>1, <1>7, <2>3, <3>2 DEF PortType
      <4> QED
        BY <1>1, <1>5, <1>10, <2>2, <4>1 DEF SettingInv
    <3> QED
      BY <3>1, <3>2
  <2>4. LineShape'
    BY <1>1, <1>6, <1>7, <1>8, <2>2 DEF LineShape, AskedRight, RightValue, Fields
  <2> QED
    BY <1>7, <1>8, <1>10, <2>3, <2>4 DEF SettingInv
<1> QED
  BY <1>9, <1>10

LEMMA PortClosed ==
  ASSUME SettingInv, UNCHANGED platform, port' = [port EXCEPT !.open = FALSE, !.fd = "none"],
         line' \in LineType
  PROVE  SettingInv'
<1>1. port' \in PortType /\ port'.asked = port.asked /\ port'.fd = "none"
  BY DEF SettingInv, LineShape, PortType
<1> QED
  BY <1>1 DEF SettingInv, LineShape

LEMMA SettingStepInv ==
  ASSUME SettingInv, SerialNext
  PROVE  SettingInv'
<1>1. CASE UNCHANGED <<platform, port, line>>
  BY <1>1 DEF SettingInv, LineShape, Unix, HasIt
<1>2. CASE OpenPort \/ SetPortOpen
  BY <1>2, OpeningStep DEF OpenPort, SetPortOpen
<1>3. CASE ClosePort
  BY <1>3, PortClosed DEF ClosePort, SettingInv, LineShape
<1>4. CASE SetPortClose
  <2>1. [NewLine EXCEPT !.gone = line.gone] \in LineType
    BY DEF SettingInv, LineShape, LineType, NewLine, Values
  <2> QED
    BY <1>1, <1>4, <2>1, PortClosed DEF SetPortClose
<1>5. CASE Unplug
  <2>1. /\ line' \in LineType
        /\ line'.baud = line.baud /\ line'.bits = line.bits /\ line'.flags = line.flags
        /\ \A f \in Fields : line'[f] = line[f]
    BY <1>5 DEF Unplug, SettingInv, LineShape, LineType, Fields
  <2>2. LineShape'
    BY <1>5, <2>1 DEF Unplug, SettingInv, LineShape
  <2>3. \A f : HasIt(line, f, port.asked[f]) => HasIt(line, f, port.asked[f])'
    BY <1>5, <2>1 DEF Unplug, HasIt, TermiosParityOf, FlowOf
  <2>4. port.agreed \subseteq Fields
    BY DEF SettingInv, LineShape, PortType
  <2> QED
    BY <1>5, <2>1, <2>2, <2>3, <2>4 DEF Unplug, SettingInv, Unix
<1>6. ASSUME NEW t \in PortUsers, SerialCall(t) \/ SerialStep(t)
      PROVE  UNCHANGED <<platform, port, line>>
  BY <1>6 DEF SerialCall, SerialStep, TakeReadLock, TakeWriteLock, ReadClosed, UnixReadFirst,
     UnixReadMore, ReadReturns, ReadByte, LineReturns, WindowsByteLate, WindowsRead,
     UnixWriteSome, WindowsWrite, WriteReturns, Wait, Flush, Expire
<1>7. Arrive => UNCHANGED <<platform, port, line>>
  BY DEF Arrive
<1> QED
  BY <1>1, <1>2, <1>3, <1>4, <1>5, <1>6, <1>7, SetStep DEF SerialNext

LEMMA SettingUnchanged ==
  ASSUME SettingInv, UNCHANGED serialVars
  PROVE  SettingInv'
BY DEF serialVars, SettingInv, LineShape, Unix, HasIt

\* After a setter returned true, and after open, the line has the setting asked for, but
\* for the cases in which the Unix code loses it.
THEOREM LineHasSettings == Spec => []LineAsAsked
<1>1. Init => SettingInv
  BY LineInit DEF Init
<1>2. SettingInv /\ [Next]_callVars => SettingInv'
  BY SettingStepInv, SettingUnchanged
     DEF Next, callVars, CameraStep, QueueStep, PortStep, BackendStep
<1>3. SettingInv => LineAsAsked
  <2> SUFFICES ASSUME SettingInv, port.fd = "open", NEW f \in port.agreed
               PROVE  \/ Effective(f) = port.asked[f]
                      \/ Unix /\ f = "stop" /\ port.asked.stop = "onehalf"
                      \/ Unix /\ f = "parity" /\ "CMSPAR" \in line.flags
                      \/ Unix /\ f = "baud" /\ ~platform.any_baud
    BY DEF LineAsAsked
  <2>1. f \in Fields /\ IF Unix THEN HasIt(line, f, port.asked[f]) ELSE line[f] = port.asked[f]
    BY DEF SettingInv, LineShape, PortType
  <2>2. CASE ~Unix
    BY <2>1, <2>2 DEF Effective
  <2>3. CASE Unix /\ f \in {"baud", "bits"}
    BY <2>1, <2>3 DEF Effective, HasIt
  <2>4. CASE Unix /\ f = "parity"
    BY <2>1, <2>4 DEF Effective, HasIt
  <2>5. CASE Unix /\ f = "stop"
    <3>1. RightValue("stop", port.asked["stop"])
      BY <2>1, <2>5 DEF SettingInv, LineShape, AskedRight
    <3> QED
      BY <2>1, <2>5, <3>1 DEF Effective, HasIt, RightValue
  <2>6. CASE Unix /\ f = "flow"
    BY <2>1, <2>6 DEF Effective, HasIt, FlowOf
  <2> QED
    BY <2>1, <2>2, <2>3, <2>4, <2>5, <2>6 DEF Fields
<1> QED
  BY <1>1, <1>2, <1>3, PTL DEF Spec

-----------------------------------------------------------------------------
(* The requests to the camera                                              *)

CameraShape ==
  /\ requests \in 0..MaxRequests /\ callback \in 0..MaxRequests
  /\ calls \in [Request -> Nat] /\ rejected \subseteq Request /\ sending \subseteq 0..MaxRequests
  /\ waiter \in [at : {"out", "start", "stop", "wait", "photo"}, n : 0..MaxRequests]
  /\ outstanding \in [CameraCommands -> Nat]

\* The commands whose failure is told without the callback being forgotten belong to
\* the mode and the stream.
CommandInv ==
  /\ outstanding["mode"] > 0 => cameraTopic = "mode"
  /\ outstanding["stream"] > 0 => cameraTopic = "stream"

\* A request that nothing happened to yet
Untouched(n) == calls[n] = 0 /\ n # callback /\ n \notin rejected

\* Numbers are used once; a thread enters with a request of its own.
EnteringInv ==
  /\ \A n \in Request : n > requests => Untouched(n) /\ n \notin sending /\ n # waiter.n
  /\ cameraTopic = "stream" => \A n \in sending \ {0} : Untouched(n)
  /\ waiter.at = "start" =>
        waiter.n \in Request /\ waiter.n \notin sending /\ Untouched(waiter.n)

RejectedInv == \A n \in rejected : calls[n] = 0 /\ n # callback

OnceInv ==
  ~failed \/ cameraTopic = "status" =>
     \A n \in Request : calls[n] <= 1 /\ (n = callback => calls[n] = 0)

CameraInv == CameraShape /\ CommandInv /\ EnteringInv /\ RejectedInv /\ OnceInv

LEMMA CameraInitInv ==
  ASSUME CameraInit
  PROVE  CameraInv
<1>1. MaxRequests \in Nat
  BY CameraAssumption
<1>2. CameraShape
  BY <1>1 DEF CameraInit, CameraShape, Request
<1>3. CommandInv
  BY DEF CameraInit, CommandInv, CameraCommands
<1>4. EnteringInv
  BY <1>1 DEF CameraInit, EnteringInv, Untouched, Request
<1>5. RejectedInv /\ OnceInv
  BY <1>1 DEF CameraInit, RejectedInv, OnceInv, Request
<1> QED
  BY <1>2, <1>3, <1>4, <1>5 DEF CameraInv

\* Commands sent, and results.
LEMMA Commanded ==
  ASSUME CameraInv, NEW cs, SendCommands(cs)
  PROVE  /\ outstanding' \in [CameraCommands -> Nat]
         /\ \A c \in CameraCommands \ cs : outstanding'[c] = outstanding[c]
<1>1. \A c \in CameraCommands : outstanding[c] \in Nat /\ outstanding[c] + 1 \in Nat /\ outstanding[c] + 0 = outstanding[c]
  BY DEF CameraInv, CameraShape
<1> QED
  BY <1>1 DEF SendCommands

LEMMA Answered ==
  ASSUME CameraInv, NEW c \in CameraCommands, TakeResult(c)
  PROVE  /\ outstanding' \in [CameraCommands -> Nat]
         /\ \A d \in CameraCommands : outstanding'[d] > 0 => outstanding[d] > 0
<1>1. outstanding[c] \in Nat /\ outstanding[c] > 0 /\ outstanding[c] - 1 \in Nat
  BY DEF CameraInv, CameraShape, TakeResult
<1> QED
  BY <1>1 DEF CameraInv, CameraShape, TakeResult

\* A new number is nobody's.
LEMMA Numbered ==
  ASSUME CameraInv, NewRequest
  PROVE  /\ requests' \in Request /\ requests' \in 0..MaxRequests /\ requests' # 0
         /\ Untouched(requests') /\ requests' \notin sending /\ requests' # waiter.n
         /\ \A n \in Request : n > requests' => n > requests /\ n # requests'
<1>1. MaxRequests \in Nat /\ requests \in 0..MaxRequests /\ requests' = requests + 1
      /\ requests < MaxRequests
  BY CameraAssumption DEF CameraInv, CameraShape, NewRequest
<1>2. /\ requests' \in Request /\ requests' \in 0..MaxRequests /\ requests' # 0
      /\ requests' > requests
      /\ \A n \in Request : n > requests' => n > requests /\ n # requests'
  BY <1>1 DEF Request
<1> QED
  BY <1>2 DEF CameraInv, EnteringInv

\* A step that calls back nobody, and leaves requests, callbacks and threads alone.
LEMMA NobodyCalled ==
  ASSUME CameraInv, UNCHANGED <<cameraTopic, calls, rejected, failed>>,
         callback' \in {0, callback},
         requests' \in 0..MaxRequests, requests' >= requests,
         \A n \in sending' : n \in sending \/ n = 0 \/ (n = requests' /\ n > requests),
         waiter' \in [at : {"out", "start", "stop", "wait", "photo"}, n : 0..MaxRequests],
         waiter' = waiter \/ (waiter'.at # "start" /\ waiter'.n \in {0, waiter.n, requests'}),
         outstanding' \in [CameraCommands -> Nat], CommandInv'
  PROVE  CameraInv'
<1> USE DEF CameraInv
<1>0. MaxRequests \in Nat /\ requests \in 0..MaxRequests
  BY CameraAssumption DEF CameraShape
<1>1. CameraShape'
  <2>1. callback' \in 0..MaxRequests
    BY <1>0 DEF CameraShape
  <2>2. ASSUME NEW n \in sending' PROVE n \in 0..MaxRequests
    <3>1. CASE n \in sending
      BY <3>1 DEF CameraShape
    <3>2. CASE n \notin sending
      <4>1. n = 0 \/ n = requests'
        BY <2>2, <3>2
      <4> QED
        BY <1>0, <4>1
    <3> QED
      BY <3>1, <3>2
  <2>3. sending' \subseteq 0..MaxRequests
    BY <2>2
  <2> QED
    BY <2>1, <2>3 DEF CameraShape
<1>2. EnteringInv'
  <2>0. \A n \in Request : n # 0 /\ (Untouched(n) => Untouched(n)')
    BY DEF Request, Untouched
  <2>1. ASSUME NEW n \in Request, n > requests'
        PROVE  Untouched(n)' /\ n \notin sending' /\ n # waiter'.n
    <3>1. n > requests /\ n # requests' /\ n # 0
      BY <1>0, <2>1 DEF Request
    <3>2. n \notin sending'
      BY <3>1 DEF EnteringInv
    <3> QED
      BY <2>0, <3>1, <3>2 DEF EnteringInv
  <2>2. ASSUME cameraTopic' = "stream", NEW n \in sending' \ {0} PROVE Untouched(n)'
    <3>1. n \in 0..MaxRequests /\ n # 0
      BY <1>1, <2>2 DEF CameraShape
    <3>2. n \in Request
      BY <1>0, <3>1 DEF Request
    <3> QED
      BY <2>0, <2>2, <3>2 DEF EnteringInv
  <2>3. waiter'.at = "start" =>
           waiter'.n \in Request /\ waiter'.n \notin sending' /\ Untouched(waiter.n)'
    <3> SUFFICES ASSUME waiter'.at = "start"
                 PROVE  waiter.n \in Request /\ waiter.n \notin sending' /\ Untouched(waiter.n)'
      OBVIOUS
    <3>1. waiter.n \in Request /\ waiter.n \notin sending /\ Untouched(waiter.n)
      BY DEF EnteringInv
    <3>2. ~(waiter.n > requests)
      BY <3>1 DEF EnteringInv
    <3> QED
      BY <2>0, <3>1, <3>2
  <2> QED
    BY <2>1, <2>2, <2>3 DEF EnteringInv, Untouched
<1>3. RejectedInv'
  <2>1. 0 \notin rejected
    BY DEF CameraShape, Request
  <2> QED
    BY <2>1 DEF RejectedInv
<1>4. OnceInv'
  BY DEF OnceInv, Request
<1> QED
  BY <1>1, <1>2, <1>3, <1>4

\* The callback is called, and forgotten, or kept after a failure of a command for
\* the mode or the stream.
LEMMA OneCalled ==
  ASSUME CameraInv, UNCHANGED <<cameraTopic, requests, rejected, sending, waiter>>,
         CallBack(callback),
         callback' = 0 \/ (callback' = callback /\ failed' /\ cameraTopic # "status"),
         failed => failed',
         outstanding' \in [CameraCommands -> Nat], CommandInv'
  PROVE  CameraInv'
<1> USE DEF CameraInv
<1>0. MaxRequests \in Nat /\ calls \in [Request -> Nat] /\ callback \in 0..MaxRequests
  BY CameraAssumption DEF CameraShape
<1>1. /\ calls' \in [Request -> Nat]
      /\ \A n \in Request \ {callback} : calls'[n] = calls[n]
      /\ callback # 0 => callback \in Request /\ calls'[callback] = calls[callback] + 1
  BY <1>0 DEF CallBack, Request
<1>2. callback' \in 0..MaxRequests /\ callback' \in {0, callback}
  BY <1>0
<1>3. CameraShape'
  BY <1>1, <1>2 DEF CameraShape
<1>4. ASSUME NEW n \in Request, Untouched(n) PROVE Untouched(n)'
  BY <1>1, <1>2, <1>4 DEF Untouched, Request
<1>5. EnteringInv'
  <2>1. \A n \in Request : n > requests => Untouched(n)' /\ n \notin sending /\ n # waiter.n
    BY <1>4 DEF EnteringInv
  <2>2. cameraTopic = "stream" => \A n \in sending \ {0} : Untouched(n)'
    <3>1. \A n \in sending \ {0} : n \in Request
      BY <1>0 DEF CameraShape, Request
    <3> QED
      BY <1>4, <3>1 DEF EnteringInv
  <2>3. waiter.at = "start" =>
           waiter.n \in Request /\ waiter.n \notin sending /\ Untouched(waiter.n)'
    BY <1>4 DEF EnteringInv
  <2> QED
    BY <2>1, <2>2, <2>3 DEF EnteringInv, Untouched
<1>6. RejectedInv'
  <2>1. \A n \in rejected : n \in Request /\ n # 0
    BY <1>0 DEF CameraShape, Request
  <2> QED
    BY <1>1, <1>2, <2>1 DEF RejectedInv
<1>7. OnceInv'
  <2> SUFFICES ASSUME ~failed' \/ cameraTopic = "status", NEW n \in Request
               PROVE  calls'[n] <= 1 /\ (n = callback' => calls'[n] = 0)
    BY DEF OnceInv
  <2>1. callback' = 0 /\ n # 0 /\ (~failed \/ cameraTopic = "status")
    BY DEF Request
  <2>2. calls[n] \in Nat /\ calls[n] <= 1 /\ (n = callback => calls[n] = 0)
    BY <1>0, <2>1 DEF OnceInv
  <2> QED
    BY <1>1, <2>1, <2>2
<1> QED
  BY <1>3, <1>5, <1>6, <1>7

\* A request that nothing happened to is told that another is in progress, or has its
\* callback set.
LEMMA Decided ==
  ASSUME CameraInv, NEW n \in Request, Untouched(n),
         UNCHANGED <<cameraTopic, calls, failed, waiter>>,
         requests' \in 0..MaxRequests, requests' >= requests, n <= requests',
         waiter.at = "start" => waiter.n # n,
         sending' \subseteq sending \cup {n},
         cameraTopic = "stream" => n \notin sending',
         \/ callback' = n /\ rejected' = rejected
         \/ callback' = callback /\ rejected' = rejected \cup {n},
         outstanding' \in [CameraCommands -> Nat], CommandInv'
  PROVE  CameraInv'
<1> USE DEF CameraInv
<1>0. MaxRequests \in Nat /\ requests \in 0..MaxRequests /\ n \in 0..MaxRequests /\ n # 0
  BY CameraAssumption DEF CameraShape, Request
<1>1. CameraShape'
  BY <1>0 DEF CameraShape
<1>2. ASSUME NEW m \in Request, Untouched(m), m # n PROVE Untouched(m)'
  BY <1>2 DEF Untouched
<1>3. EnteringInv'
  <2>1. ASSUME NEW m \in Request, m > requests'
        PROVE  Untouched(m)' /\ m \notin sending' /\ m # waiter.n
    <3>1. m > requests /\ m # n
      BY <1>0, <2>1 DEF Request
    <3> QED
      BY <1>2, <3>1 DEF EnteringInv
  <2>2. ASSUME cameraTopic = "stream", NEW m \in sending' \ {0} PROVE Untouched(m)'
    <3>1. m \in sending \ {0} /\ m # n /\ m \in Request
      BY <1>0, <2>2 DEF CameraShape, Request
    <3> QED
      BY <1>2, <2>2, <3>1 DEF EnteringInv
  <2>3. waiter.at = "start" =>
           waiter.n \in Request /\ waiter.n \notin sending' /\ Untouched(waiter.n)'
    BY <1>2 DEF EnteringInv
  <2> QED
    BY <2>1, <2>2, <2>3 DEF EnteringInv, Untouched
<1>4. RejectedInv'
  BY DEF RejectedInv, Untouched
<1>5. OnceInv'
  BY DEF OnceInv, Untouched
<1> QED
  BY <1>1, <1>3, <1>4, <1>5

LEMMA ModeStep ==
  ASSUME CameraInv, GetMode \/ ModeResult \/ ModeReported
  PROVE  CameraInv'
<1>0. MaxRequests \in Nat /\ requests \in 0..MaxRequests /\ callback \in 0..MaxRequests
  BY CameraAssumption DEF CameraInv, CameraShape
<1>1. outstanding \in [CameraCommands -> Nat] /\ CommandInv /\ waiter \in [at : {"out", "start", "stop", "wait", "photo"}, n : 0..MaxRequests]
  BY DEF CameraInv, CameraShape
<1>2. CASE GetMode
  <2>1. /\ requests' \in Request /\ requests' \in 0..MaxRequests /\ requests' > requests
        /\ Untouched(requests') /\ requests' # waiter.n
    BY <1>0, <1>2, Numbered DEF GetMode, NewRequest
  <2>2. outstanding' \in [CameraCommands -> Nat] /\ CommandInv'
    <3>1. CASE UNCHANGED outstanding
      BY <1>1, <1>2, <3>1 DEF GetMode, CommandInv
    <3>2. CASE SendCommands({"mode"})
      <4>1. /\ outstanding' \in [CameraCommands -> Nat]
            /\ \A c \in CameraCommands \ {"mode"} : outstanding'[c] = outstanding[c]
        BY <3>2, Commanded
      <4> QED
        BY <1>1, <1>2, <4>1 DEF GetMode, CommandInv, CameraCommands
    <3> QED
      BY <1>2, <3>1, <3>2 DEF GetMode
  <2>3. sending' = sending /\ UNCHANGED <<cameraTopic, calls, failed, waiter>> /\ cameraTopic = "mode"
    BY <1>2 DEF GetMode, streamVars
  <2>4. \/ callback' = requests' /\ rejected' = rejected
        \/ callback' = callback /\ rejected' = rejected \cup {requests'}
    BY <1>2 DEF GetMode
  <2>5. requests' >= requests /\ requests' <= requests'
    BY <1>0, <2>1
  <2> QED
    BY <2>1, <2>2, <2>3, <2>4, <2>5, Decided
<1>3. CASE ModeResult
  <2>1. /\ outstanding' \in [CameraCommands -> Nat]
        /\ \A d \in CameraCommands : outstanding'[d] > 0 => outstanding[d] > 0
    BY <1>3, Answered DEF ModeResult, CameraCommands
  <2>2. CommandInv' /\ cameraTopic = "mode"
    BY <1>1, <1>3, <2>1 DEF ModeResult, CommandInv, CameraCommands, TakeResult
  <2>3. UNCHANGED <<cameraTopic, requests, callback, rejected, sending, waiter>>
    BY <1>3 DEF ModeResult, streamVars
  <2>4. CASE UNCHANGED <<calls, failed>>
    BY <1>0, <1>1, <2>1, <2>2, <2>3, <2>4, NobodyCalled
  <2>5. CASE CallBack(callback) /\ failed' = TRUE
    BY <2>1, <2>2, <2>3, <2>5, OneCalled
  <2> QED
    BY <1>3, <2>4, <2>5 DEF ModeResult
<1>4. CASE ModeReported
  <2>1. /\ UNCHANGED <<cameraTopic, requests, rejected, sending, waiter, failed, outstanding>>
        /\ callback' = 0
        /\ CallBack(callback)
    BY <1>4 DEF ModeReported, streamVars, commandedVars, CallBack
  <2> QED
    BY <1>1, <2>1, OneCalled DEF CommandInv
<1> QED
  BY <1>2, <1>3, <1>4

\* Steps of the status, that are no concern of the commands of the others
LEMMA StatusStep ==
  ASSUME CameraInv,
         \/ GetStatus \/ StatusTick \/ StatusResult \/ CheckStatus
         \/ \E n \in 0..MaxRequests : RequestStatus(n)
  PROVE  CameraInv'
<1>0. MaxRequests \in Nat /\ requests \in 0..MaxRequests /\ callback \in 0..MaxRequests
  BY CameraAssumption DEF CameraInv, CameraShape
<1>1. /\ outstanding \in [CameraCommands -> Nat] /\ CommandInv
      /\ waiter \in [at : {"out", "start", "stop", "wait", "photo"}, n : 0..MaxRequests]
  BY DEF CameraInv, CameraShape
<1>2. CASE GetStatus
  <2>1. /\ requests' \in Request /\ requests' \in 0..MaxRequests /\ requests' > requests
        /\ requests' # 0 /\ Untouched(requests') /\ requests' # waiter.n
    BY <1>0, <1>2, Numbered DEF GetStatus, NewRequest
  <2>2. /\ UNCHANGED <<cameraTopic, calls, failed, waiter, outstanding>> /\ cameraTopic = "status"
        /\ sending' \subseteq sending \cup {requests'}
    BY <1>2 DEF GetStatus, streamVars, commandedVars
  <2>3. \/ callback' = requests' /\ rejected' = rejected
        \/ callback' = callback /\ rejected' = rejected \cup {requests'}
    BY <1>2 DEF GetStatus, SetStatusCallback
  <2>4. requests' >= requests /\ requests' <= requests'
    BY <1>0, <2>1
  <2> QED
    BY <1>1, <2>1, <2>2, <2>3, <2>4, Decided DEF CommandInv
<1>3. CASE StatusTick
  <2>1. /\ UNCHANGED <<cameraTopic, requests, calls, rejected, failed, waiter, outstanding>>
        /\ callback' = 0 /\ sending' = sending \cup {0}
    BY <1>3 DEF StatusTick, SetStatusCallback, streamVars, commandedVars
  <2> QED
    BY <1>0, <1>1, <2>1, NobodyCalled DEF CommandInv
<1>4. CASE StatusResult
  <2>1. PICK c \in {"capture", "storage"} : TakeResult(c)
    BY <1>4 DEF StatusResult
  <2>2. /\ outstanding' \in [CameraCommands -> Nat]
        /\ \A d \in CameraCommands : outstanding'[d] > 0 => outstanding[d] > 0
    BY <2>1, Answered DEF CameraCommands
  <2>3. /\ CommandInv'
        /\ UNCHANGED <<cameraTopic, requests, rejected, sending, waiter>>
    BY <1>1, <1>4, <2>2 DEF StatusResult, CommandInv, CameraCommands, streamVars
  <2>4. CASE UNCHANGED <<callback, calls, failed>>
    BY <1>0, <1>1, <2>2, <2>3, <2>4, NobodyCalled
  <2>5. CASE CallBack(callback) /\ callback' = 0 /\ failed' = TRUE
    BY <2>2, <2>3, <2>5, OneCalled
  <2> QED
    BY <1>4, <2>4, <2>5 DEF StatusResult
<1>5. CASE CheckStatus
  <2>1. UNCHANGED <<cameraTopic, requests, rejected, sending, waiter, failed, outstanding>>
    BY <1>5 DEF CheckStatus, streamVars, commandedVars
  <2>2. CASE CallBack(callback) /\ callback' = 0
    BY <1>1, <2>1, <2>2, OneCalled DEF CommandInv
  <2>3. CASE UNCHANGED <<callback, calls>>
    BY <1>0, <1>1, <2>1, <2>3, NobodyCalled DEF CommandInv
  <2> QED
    BY <1>5, <2>2, <2>3 DEF CheckStatus
<1>6. ASSUME NEW n \in 0..MaxRequests, RequestStatus(n) PROVE CameraInv'
  <2>1. /\ UNCHANGED <<cameraTopic, requests, callback, calls, rejected, failed, waiter>>
        /\ sending' \subseteq sending
    BY <1>6 DEF RequestStatus, streamVars
  <2>2. /\ outstanding' \in [CameraCommands -> Nat]
        /\ \A c \in CameraCommands \ {"capture", "storage"} : outstanding'[c] = outstanding[c]
    BY <1>6, Commanded DEF RequestStatus
  <2>3. CommandInv'
    BY <1>1, <2>1, <2>2 DEF CommandInv, CameraCommands
  <2> QED
    BY <1>0, <1>1, <2>1, <2>2, <2>3, NobodyCalled
<1> QED
  BY <1>2, <1>3, <1>4, <1>5, <1>6

\* A thread enters with its request.
LEMMA EnterStep ==
  ASSUME CameraInv, NEW n \in 0..MaxRequests, EnterStream(n)
  PROVE  CameraInv'
<1>0. MaxRequests \in Nat /\ requests \in 0..MaxRequests /\ callback \in 0..MaxRequests
  BY CameraAssumption DEF CameraInv, CameraShape
<1>1. /\ outstanding \in [CameraCommands -> Nat] /\ CommandInv
      /\ waiter \in [at : {"out", "start", "stop", "wait", "photo"}, n : 0..MaxRequests]
  BY DEF CameraInv, CameraShape
<1>2. /\ UNCHANGED <<cameraTopic, requests, calls, failed, waiter>> /\ cameraTopic = "stream"
      /\ n \in sending /\ sending' = sending \ {n}
  BY DEF EnterStream, streamVars
<1>3. outstanding' \in [CameraCommands -> Nat] /\ CommandInv'
  <2>1. CASE UNCHANGED outstanding
    BY <1>1, <1>2, <2>1 DEF CommandInv
  <2>2. CASE SendCommands({"stream"})
    <3>1. /\ outstanding' \in [CameraCommands -> Nat]
          /\ \A c \in CameraCommands \ {"stream"} : outstanding'[c] = outstanding[c]
      BY <2>2, Commanded
    <3> QED
      BY <1>1, <1>2, <3>1 DEF CommandInv, CameraCommands
  <2> QED
    BY <2>1, <2>2 DEF EnterStream
<1>4. CASE n = 0
  <2>1. callback' = callback /\ rejected' = rejected
    BY <1>0, <1>4 DEF EnterStream
  <2> QED
    BY <1>0, <1>1, <1>2, <1>3, <2>1, NobodyCalled
<1>5. CASE n # 0
  <2>1. /\ n \in Request /\ Untouched(n) /\ n <= requests
        /\ waiter.at = "start" => waiter.n # n
    BY <1>0, <1>2, <1>5 DEF CameraInv, EnteringInv, Request
  <2>2. \/ callback' = n /\ rejected' = rejected
        \/ callback' = callback /\ rejected' = rejected \cup {n}
    BY <1>5 DEF EnterStream
  <2>3. requests' \in 0..MaxRequests /\ requests' >= requests /\ n <= requests'
    BY <1>0, <1>2, <2>1
  <2> QED
    BY <1>2, <1>3, <2>1, <2>2, <2>3, Decided
<1> QED
  BY <1>4, <1>5

LEMMA StreamCameraStep ==
  ASSUME CameraInv, GetStream \/ StreamTick \/ StreamResult \/ StreamReported
  PROVE  CameraInv'
<1>0. MaxRequests \in Nat /\ requests \in 0..MaxRequests /\ callback \in 0..MaxRequests
  BY CameraAssumption DEF CameraInv, CameraShape
<1>1. /\ outstanding \in [CameraCommands -> Nat] /\ CommandInv
      /\ waiter \in [at : {"out", "start", "stop", "wait", "photo"}, n : 0..MaxRequests]
  BY DEF CameraInv, CameraShape
<1>2. CASE GetStream
  <2>1. /\ requests' \in 0..MaxRequests /\ requests' > requests
    BY <1>0, <1>2, Numbered DEF GetStream, NewRequest
  <2>2. /\ UNCHANGED <<cameraTopic, callback, calls, rejected, failed, waiter, outstanding>>
        /\ sending' = sending \cup {requests'}
    BY <1>2 DEF GetStream, streamVars, commandedVars
  <2> QED
    BY <1>0, <1>1, <2>1, <2>2, NobodyCalled DEF CommandInv
<1>3. CASE StreamTick
  <2>1. /\ UNCHANGED <<cameraTopic, requests, callback, calls, rejected, failed, waiter, outstanding>>
        /\ sending' = sending \cup {0}
    BY <1>3 DEF StreamTick, streamVars, commandedVars
  <2> QED
    BY <1>0, <1>1, <2>1, NobodyCalled DEF CommandInv
<1>4. CASE StreamResult
  <2>1. /\ outstanding' \in [CameraCommands -> Nat]
        /\ \A d \in CameraCommands : outstanding'[d] > 0 => outstanding[d] > 0
    BY <1>4, Answered DEF StreamResult, CameraCommands
  <2>2. CommandInv' /\ cameraTopic = "stream"
    BY <1>1, <1>4, <2>1 DEF StreamResult, CommandInv, CameraCommands, TakeResult
  <2>3. UNCHANGED <<cameraTopic, requests, rejected, sending, waiter>>
    BY <1>4 DEF StreamResult, streamVars
  <2>4. CASE callback' = 0 /\ UNCHANGED <<calls, failed>>
    BY <1>0, <1>1, <2>1, <2>2, <2>3, <2>4, NobodyCalled
  <2>5. CASE CallBack(callback) /\ failed' = TRUE /\ callback' = callback
    BY <2>1, <2>2, <2>3, <2>5, OneCalled
  <2> QED
    BY <1>4, <2>4, <2>5 DEF StreamResult
<1>5. CASE StreamReported
  <2>1. /\ UNCHANGED <<cameraTopic, requests, rejected, sending, waiter, failed, outstanding>>
        /\ callback' = 0 /\ CallBack(callback)
    BY <1>5 DEF StreamReported, streamVars, commandedVars, CallBack
  <2> QED
    BY <1>1, <2>1, OneCalled DEF CommandInv
<1> QED
  BY <1>2, <1>3, <1>4, <1>5

LEMMA TimeoutStep ==
  ASSUME CameraInv, TimedOut \/ StreamTimedOut
  PROVE  CameraInv'
<1>1. /\ UNCHANGED <<cameraTopic, requests, rejected, sending, waiter, failed, outstanding>>
      /\ callback' = 0 /\ CallBack(callback)
  BY DEF TimedOut, StreamTimedOut, streamVars, commandedVars
<1>2. outstanding \in [CameraCommands -> Nat] /\ CommandInv
  BY DEF CameraInv, CameraShape
<1> QED
  BY <1>1, <1>2, OneCalled DEF CommandInv

\* The threads in a blocking call.  One that starts a stream keeps a number that it
\* enters with later.
LEMMA BlockStep ==
  ASSUME CameraInv, NEW op \in {"start", "stop"}, BlockStream(op)
  PROVE  CameraInv'
<1>0. MaxRequests \in Nat /\ requests \in 0..MaxRequests /\ callback \in 0..MaxRequests
  BY CameraAssumption DEF CameraInv, CameraShape
<1>1. /\ requests' \in Request /\ requests' \in 0..MaxRequests /\ requests' > requests
      /\ Untouched(requests') /\ requests' \notin sending
      /\ \A n \in Request : n > requests' => n > requests /\ n # requests'
  BY <1>0, Numbered DEF BlockStream, NewRequest
<1>2. /\ UNCHANGED <<cameraTopic, callback, calls, rejected, sending, failed>>
      /\ waiter' = [at |-> op, n |-> requests']
  BY DEF BlockStream
<1>3. /\ outstanding' \in [CameraCommands -> Nat]
      /\ \A c \in CameraCommands \ {op} : outstanding'[c] = outstanding[c]
  BY Commanded DEF BlockStream
<1>4. CommandInv'
  BY <1>2, <1>3 DEF CameraInv, CommandInv, CameraCommands
<1>5. CameraShape'
  BY <1>1, <1>2, <1>3 DEF CameraInv, CameraShape
<1>6. EnteringInv'
  BY <1>1, <1>2 DEF CameraInv, EnteringInv, Untouched
<1> QED
  BY <1>2, <1>4, <1>5, <1>6 DEF CameraInv, RejectedInv, OnceInv

LEMMA StartedStep ==
  ASSUME CameraInv, StreamStarted
  PROVE  CameraInv'
<1>0. MaxRequests \in Nat /\ requests \in 0..MaxRequests /\ callback \in 0..MaxRequests
  BY CameraAssumption DEF CameraInv, CameraShape
<1>1. UNCHANGED <<cameraTopic, requests, callback, calls, rejected, failed>>
  BY DEF StreamStarted
<1>2. /\ outstanding' \in [CameraCommands -> Nat]
      /\ \A d \in CameraCommands : outstanding'[d] > 0 => outstanding[d] > 0
  BY Answered DEF StreamStarted, CameraCommands
<1>3. CommandInv'
  BY <1>1, <1>2 DEF CameraInv, CommandInv, CameraCommands
<1>4. waiter \in [at : {"out", "start", "stop", "wait", "photo"}, n : 0..MaxRequests]
  BY DEF CameraInv, CameraShape
<1>5. CASE waiter' = [waiter EXCEPT !.at = "wait"] /\ sending' = sending \cup {waiter.n}
  <2>1. /\ waiter.n \in Request /\ Untouched(waiter.n) /\ ~(waiter.n > requests)
    BY DEF StreamStarted, CameraInv, EnteringInv
  <2>2. /\ waiter' \in [at : {"out", "start", "stop", "wait", "photo"}, n : 0..MaxRequests]
        /\ waiter'.at = "wait" /\ waiter'.n = waiter.n
    BY <1>4, <1>5
  <2>3. CameraShape'
    BY <1>1, <1>2, <1>4, <1>5, <2>2 DEF CameraInv, CameraShape
  <2>4. EnteringInv'
    BY <1>1, <1>5, <2>1, <2>2 DEF CameraInv, EnteringInv, Untouched
  <2> QED
    BY <1>1, <1>3, <2>3, <2>4 DEF CameraInv, RejectedInv, OnceInv
<1>6. CASE waiter' = [at |-> "out", n |-> 0] /\ UNCHANGED sending
  BY <1>0, <1>1, <1>2, <1>3, <1>6, NobodyCalled
<1> QED
  BY <1>5, <1>6 DEF StreamStarted

LEMMA ElsewhereStep ==
  ASSUME CameraInv,
         \/ FireTimer \/ StatusReported \/ StreamStopped \/ WaitOver \/ OtherCommand \/ OtherResult
         \/ (\E on \in BOOLEAN : SubscribeCamera(on)) \/ (\E b \in BOOLEAN : TakePhoto(b))
  PROVE  CameraInv'
<1>0. MaxRequests \in Nat /\ requests \in 0..MaxRequests /\ callback \in 0..MaxRequests
  BY CameraAssumption DEF CameraInv, CameraShape
<1>1. /\ outstanding \in [CameraCommands -> Nat] /\ CommandInv
      /\ waiter \in [at : {"out", "start", "stop", "wait", "photo"}, n : 0..MaxRequests]
  BY DEF CameraInv, CameraShape
<1>2. UNCHANGED <<cameraTopic, callback, calls, rejected, sending, failed>>
  BY DEF FireTimer, StatusReported, StreamStopped, WaitOver, OtherCommand, OtherResult,
         SubscribeCamera, TakePhoto, requestVars, commandedVars
<1>3. requests' \in 0..MaxRequests /\ requests' >= requests
  <2>1. requests' = requests \/ NewRequest
    BY DEF FireTimer, StatusReported, StreamStopped, WaitOver, OtherCommand, OtherResult,
           SubscribeCamera, TakePhoto, requestVars
  <2> QED
    BY <1>0, <2>1 DEF NewRequest
<1>4. waiter' \in {waiter, [at |-> "out", n |-> 0], [at |-> "photo", n |-> requests']}
  BY DEF FireTimer, StatusReported, StreamStopped, WaitOver, OtherCommand, OtherResult,
         SubscribeCamera, TakePhoto, streamVars
<1>5. outstanding' \in [CameraCommands -> Nat] /\ CommandInv'
  <2>1. CASE UNCHANGED outstanding
    BY <1>1, <1>2, <2>1 DEF CommandInv
  <2>2. CASE SendCommands({"other"})
    <3>1. /\ outstanding' \in [CameraCommands -> Nat]
          /\ \A c \in CameraCommands \ {"other"} : outstanding'[c] = outstanding[c]
      BY <2>2, Commanded
    <3> QED
      BY <1>1, <1>2, <3>1 DEF CommandInv, CameraCommands
  <2>3. CASE TakeResult("other") \/ TakeResult("stop")
    <3>1. /\ outstanding' \in [CameraCommands -> Nat]
          /\ \A d \in CameraCommands : outstanding'[d] > 0 => outstanding[d] > 0
      BY <2>3, Answered DEF CameraCommands
    <3> QED
      BY <1>1, <1>2, <3>1 DEF CommandInv, CameraCommands
  <2> QED
    BY <2>1, <2>2, <2>3 DEF FireTimer, StatusReported, StreamStopped, WaitOver, OtherCommand,
       OtherResult, SubscribeCamera, TakePhoto, commandedVars
<1>6. /\ waiter' \in [at : {"out", "start", "stop", "wait", "photo"}, n : 0..MaxRequests]
      /\ waiter' = waiter \/ (waiter'.at # "start" /\ waiter'.n \in {0, waiter.n, requests'})
  BY <1>0, <1>1, <1>3, <1>4
<1> QED
  BY <1>2, <1>3, <1>5, <1>6, NobodyCalled

LEMMA CameraStepInv ==
  ASSUME CameraInv, CameraNext
  PROVE  CameraInv'
BY ModeStep, StatusStep, EnterStep, StreamCameraStep, TimeoutStep, BlockStep, StartedStep,
   ElsewhereStep DEF CameraNext

LEMMA CameraUnchanged ==
  ASSUME CameraInv, UNCHANGED cameraVars
  PROVE  CameraInv'
BY DEF cameraVars, requestVars, commandedVars, streamVars, CameraInv, CameraShape, CommandInv,
       EnteringInv, Untouched, RejectedInv, OnceInv

\* A request of the camera has one result and none after it was told to wait; only a failed
\* command for the mode or the stream can call a callback again.
THEOREM CallbacksAreCalledOnce == Spec => []CalledOnce
<1>1. Init => CameraInv
  BY CameraInitInv DEF Init
<1>2. CameraInv /\ [Next]_callVars => CameraInv'
  BY CameraStepInv, CameraUnchanged
     DEF Next, callVars, CameraStep, QueueStep, PortStep, BackendStep
<1>3. CameraInv => CalledOnce
  <2> SUFFICES ASSUME CameraInv PROVE CalledOnce
    OBVIOUS
  <2>1. ASSUME NEW n \in Request, calls[n] > 1 PROVE failed /\ cameraTopic # "status"
    <3>1. calls[n] \in Nat
      BY DEF CameraInv, CameraShape
    <3> QED
      BY <2>1, <3>1 DEF CameraInv, OnceInv
  <2> QED
    BY <2>1 DEF CalledOnce, CameraInv, RejectedInv
<1> QED
  BY <1>1, <1>2, <1>3, PTL DEF Spec

-----------------------------------------------------------------------------
(* What the callers of the camera wait for                                 *)

Timed(n) == calls[n] > 0 \/ n \in sending \cup armed \cup firing
CallbackTimed == callback # 0 /\ cameraTopic \in {"mode", "status"} => Timed(callback)
Awaits ==
  /\ waiter.at \in {"start", "stop"} => outstanding[waiter.at] > 0
  /\ waiter.at = "photo" => outstanding["other"] > 0

\* A callback that stays is called, or keeps its timer.
LEMMA TimedKept ==
  ASSUME CallbackTimed, UNCHANGED cameraTopic, callback' \in {callback, 0},
         callback # 0 => (Timed(callback) => Timed(callback)')
  PROVE  CallbackTimed'
BY DEF CallbackTimed, Timed

LEMMA CalledIsTimed ==
  ASSUME CameraInv, callback # 0, CallBack(callback)
  PROVE  calls'[callback] > 0
<1>1. callback \in Request /\ calls[callback] \in Nat /\ calls' = [calls EXCEPT ![callback] = @ + 1]
  BY CameraAssumption DEF CameraInv, CameraShape, Request, CallBack
<1> QED
  BY <1>1 DEF CameraInv, CameraShape

LEMMA ModeTimed ==
  ASSUME CameraInv, CallbackTimed, GetMode \/ ModeResult \/ ModeReported
  PROVE  CallbackTimed'
<1>1. CASE GetMode
  <2>1. CASE callback # 0
    BY <1>1, <2>1, TimedKept DEF GetMode, cameraTimerVars, Timed
  <2>2. CASE callback = 0
    BY <1>1, <2>2 DEF GetMode, Register, CallbackTimed, Timed
  <2> QED
    BY <2>1, <2>2
<1>2. CASE ModeResult
  <2>1. CASE UNCHANGED <<calls, cameraTimerVars>>
    BY <1>2, <2>1, TimedKept DEF ModeResult, cameraTimerVars, Timed
  <2>2. CASE CallBack(callback)
    BY <1>2, <2>2, CalledIsTimed DEF ModeResult, CallbackTimed, Timed
  <2> QED
    BY <1>2, <2>1, <2>2 DEF ModeResult
<1>3. CASE ModeReported
  BY <1>3 DEF ModeReported, CallbackTimed
<1> QED
  BY <1>1, <1>2, <1>3

LEMMA StatusTimed ==
  ASSUME CameraInv, CallbackTimed,
         \/ GetStatus \/ StatusTick \/ StatusResult \/ StatusReported \/ CheckStatus
         \/ \E n \in 0..MaxRequests : RequestStatus(n)
  PROVE  CallbackTimed'
<1>1. CASE GetStatus
  <2>1. requests' \in Request /\ requests' # 0 /\ requests' \notin rejected
    BY <1>1, Numbered DEF GetStatus, Untouched
  <2>2. CASE callback # 0
    BY <1>1, <2>1, <2>2, TimedKept DEF GetStatus, SetStatusCallback, cameraTimerVars, Timed
  <2>3. CASE callback = 0
    <3>1. callback' = requests' /\ requests' \in sending'
      BY <1>1, <2>1, <2>3 DEF GetStatus, SetStatusCallback
    <3> QED
      BY <3>1 DEF CallbackTimed, Timed
  <2> QED
    BY <2>2, <2>3
<1>2. CASE StatusTick
  BY <1>2 DEF StatusTick, SetStatusCallback, CallbackTimed
<1>3. CASE StatusResult
  <2>1. CASE UNCHANGED <<callback, calls>>
    BY <1>3, <2>1, TimedKept DEF StatusResult, cameraTimerVars, Timed
  <2>2. CASE callback' = 0
    BY <2>2 DEF CallbackTimed
  <2> QED
    BY <1>3, <2>1, <2>2 DEF StatusResult
<1>4. CASE StatusReported
  BY <1>4, TimedKept DEF StatusReported, requestVars, cameraTimerVars, Timed
<1>5. CASE CheckStatus
  <2>1. CASE callback' = 0
    BY <2>1 DEF CallbackTimed
  <2>2. CASE UNCHANGED <<callback, calls, received, cameraTimerVars>>
    BY <1>5, <2>2, TimedKept DEF CheckStatus, cameraTimerVars, Timed
  <2> QED
    BY <1>5, <2>1, <2>2 DEF CheckStatus
<1>6. ASSUME NEW n \in 0..MaxRequests, RequestStatus(n) PROVE CallbackTimed'
  <2>1. UNCHANGED <<callback, calls, cameraTopic>> /\ sending' = sending \ {n}
    BY <1>6 DEF RequestStatus
  <2>2. armed' \cup firing' = armed \cup firing \cup ({n} \ {0})
    BY <1>6 DEF RequestStatus, Register, cameraTimerVars
  <2> QED
    BY <2>1, <2>2, TimedKept DEF Timed
<1> QED
  BY <1>1, <1>2, <1>3, <1>4, <1>5, <1>6

LEMMA TimersTimed ==
  ASSUME CameraInv, CallbackTimed, FireTimer \/ TimedOut
  PROVE  CallbackTimed'
<1>1. CASE FireTimer
  <2>1. armed' \cup firing' = armed \cup firing
    BY <1>1 DEF FireTimer
  <2> QED
    BY <1>1, <2>1, TimedKept DEF FireTimer, requestVars, Timed
<1>2. CASE TimedOut
  BY <1>2 DEF TimedOut, CallbackTimed
<1> QED
  BY <1>1, <1>2

\* The topic of the stream, and commands that are just sent
LEMMA OtherTopicsTimed ==
  ASSUME CameraInv, CallbackTimed,
         \/ GetStream \/ StreamTick \/ StreamResult \/ StreamReported \/ StreamTimedOut
         \/ (\E n \in 0..MaxRequests : EnterStream(n))
         \/ (\E op \in {"start", "stop"} : BlockStream(op))
         \/ StreamStarted \/ StreamStopped \/ WaitOver
         \/ (\E on \in BOOLEAN : SubscribeCamera(on)) \/ (\E b \in BOOLEAN : TakePhoto(b))
         \/ OtherCommand \/ OtherResult
  PROVE  CallbackTimed'
<1>1. CASE \/ GetStream \/ StreamTick \/ StreamReported \/ StreamTimedOut
           \/ (\E n \in 0..MaxRequests : EnterStream(n))
           \/ (\E op \in {"start", "stop"} : BlockStream(op))
  BY <1>1 DEF GetStream, StreamTick, StreamReported, StreamTimedOut, EnterStream, BlockStream,
              CallbackTimed
<1>2. CASE StreamResult
  <2>1. cameraTopic' = "stream"
    BY <1>2 DEF StreamResult, TakeResult, CameraInv, CommandInv
  <2> QED
    BY <2>1 DEF CallbackTimed
<1>3. CASE StreamStarted
  BY <1>3, TimedKept DEF StreamStarted, cameraTimerVars, Timed
<1>4. CASE \/ StreamStopped \/ WaitOver \/ OtherCommand \/ OtherResult
           \/ (\E on \in BOOLEAN : SubscribeCamera(on)) \/ (\E b \in BOOLEAN : TakePhoto(b))
  BY <1>4, TimedKept
     DEF StreamStopped, WaitOver, OtherCommand, OtherResult, SubscribeCamera, TakePhoto,
         requestVars, cameraTimerVars, Timed
<1> QED
  BY <1>1, <1>2, <1>3, <1>4

\* Who is blocked has sent a command, and goes on with its result.
LEMMA AwaitsKept ==
  ASSUME Awaits, waiter' = waiter,
         \A c \in {"start", "stop", "other"} : outstanding[c] > 0 => outstanding'[c] > 0
  PROVE  Awaits'
BY DEF Awaits

\* a command more, or the result of another one
LEMMA SentAwaits ==
  ASSUME CameraInv, NEW cs, SendCommands(cs)
  PROVE  \A c \in CameraCommands :
            (outstanding[c] > 0 => outstanding'[c] > 0) /\ (c \in cs => outstanding'[c] > 0)
<1> SUFFICES ASSUME NEW c \in CameraCommands
             PROVE  (outstanding[c] > 0 => outstanding'[c] > 0) /\ (c \in cs => outstanding'[c] > 0)
  OBVIOUS
<1>1. outstanding[c] \in Nat
  BY DEF CameraInv, CameraShape
<1>2. outstanding'[c] = outstanding[c] + IF c \in cs THEN 1 ELSE 0
  BY DEF SendCommands
<1> QED
  BY <1>1, <1>2

LEMMA AwaitsStep ==
  ASSUME CameraInv, Awaits, CameraNext
  PROVE  Awaits'
<1>0. {"start", "stop", "other"} \subseteq CameraCommands
  BY DEF CameraCommands
<1>w. waiter = [at |-> waiter.at, n |-> waiter.n]
  BY DEF CameraInv, CameraShape
<1>1. CASE UNCHANGED <<waiter, outstanding>>
  BY <1>1, AwaitsKept
<1>2. CASE waiter' = waiter /\ \E cs : SendCommands(cs)
  BY <1>0, <1>2, AwaitsKept, SentAwaits
<1>3. CASE /\ waiter' = waiter
           /\ \E c \in CameraCommands \ {"start", "stop", "other"} : TakeResult(c)
  <2>1. \A c \in {"start", "stop", "other"} : outstanding'[c] = outstanding[c]
    BY <1>0, <1>3 DEF TakeResult, CameraInv, CameraShape
  <2> QED
    BY <1>3, <2>1, AwaitsKept
<1>4. CASE waiter'.at \in {"out", "wait"}
  BY <1>4 DEF Awaits
<1>5. ASSUME NEW op \in {"start", "stop"}, BlockStream(op) PROVE Awaits'
  BY <1>0, <1>5, SentAwaits DEF BlockStream, Awaits
<1>6. ASSUME TakePhoto(TRUE) PROVE Awaits'
  BY <1>0, <1>6, SentAwaits DEF TakePhoto, Awaits
<1>7. CASE OtherResult
  <2>1. CASE outstanding'["other"] > 0 /\ waiter' = waiter
    BY <1>0, <1>7, <2>1, AwaitsKept DEF OtherResult, TakeResult, CameraInv, CameraShape
  <2> QED
    BY <1>4, <1>7, <2>1 DEF OtherResult
<1>8. CASE GetMode \/ ModeResult \/ ModeReported
  BY <1>1, <1>2, <1>3, <1>8 DEF GetMode, ModeResult, ModeReported, streamVars, commandedVars,
                               CameraCommands
<1>9. CASE \/ GetStatus \/ StatusTick \/ StatusResult \/ StatusReported \/ CheckStatus
           \/ FireTimer \/ TimedOut
           \/ \E n \in 0..MaxRequests : RequestStatus(n)
  BY <1>1, <1>2, <1>3, <1>9 DEF GetStatus, StatusTick, StatusResult, StatusReported, CheckStatus,
     FireTimer, TimedOut, RequestStatus, streamVars, commandedVars, CameraCommands
<1>10. CASE \/ GetStream \/ StreamTick \/ StreamResult \/ StreamReported \/ StreamTimedOut
            \/ (\E n \in 0..MaxRequests : EnterStream(n))
            \/ (\E on \in BOOLEAN : SubscribeCamera(on))
  BY <1>1, <1>2, <1>3, <1>10 DEF GetStream, StreamTick, StreamResult, StreamReported,
     StreamTimedOut, EnterStream, SubscribeCamera, streamVars, commandedVars, CameraCommands
<1>11. CASE StreamStarted \/ StreamStopped \/ WaitOver
  BY <1>w, <1>4, <1>11 DEF StreamStarted, StreamStopped, WaitOver
<1>12. CASE OtherCommand \/ TakePhoto(FALSE)
  BY <1>2, <1>12 DEF OtherCommand, TakePhoto
<1> QED
  BY <1>5, <1>6, <1>7, <1>8, <1>9, <1>10, <1>11, <1>12 DEF CameraNext

\* Nobody who calls the camera waits for something that has gone: a callback for the mode
\* or the status has a timer although the timers' cookie is overwritten, and who is blocked
\* has a command without a result.
THEOREM RequestsWaitForSomething == Spec => []RequestsAreTimed
<1> DEFINE Inv == CameraInv /\ CallbackTimed /\ Awaits
<1>1. Init => Inv
  <2> SUFFICES ASSUME Init PROVE Inv
    OBVIOUS
  <2>1. CameraInv /\ callback = 0 /\ waiter.at = "out"
    BY CameraInitInv DEF Init, CameraInit
  <2> QED
    BY <2>1 DEF CallbackTimed, Awaits
<1>2. Inv /\ [Next]_callVars => Inv'
  <2>1. CASE CameraNext
    BY <2>1, CameraStepInv, ModeTimed, StatusTimed, TimersTimed, OtherTopicsTimed, AwaitsStep
       DEF CameraNext
  <2>2. CASE UNCHANGED cameraVars
    BY <2>2, CameraUnchanged DEF cameraVars, requestVars, cameraTimerVars, commandedVars,
       streamVars, CallbackTimed, Timed, Awaits
  <2> QED
    BY <2>1, <2>2 DEF Next, callVars, CameraStep, QueueStep, PortStep, BackendStep
<1>3. Inv => RequestsAreTimed
  BY DEF CallbackTimed, Timed, Awaits, RequestsAreTimed
<1> QED
  BY <1>1, <1>2, <1>3, PTL DEF Spec

-----------------------------------------------------------------------------
(* The queue of the thread pool                                            *)

QueueShape ==
  /\ jobs \in Seq(Job) /\ submitted \in Seq(Kinds) /\ Len(jobs) <= Len(submitted)
  /\ at \in [Threads -> Job \cup {Loop, Take, Asleep, Left}]
  /\ notified \subseteq Sleepers

QueueInv == QueueShape /\ JobsInOrder /\ NoLostWakeUp

LEMMA ThreadsAreFinite == IsFiniteSet(Threads)
<1>1. IsFiniteSet({CHOOSE w \in PoolWorkers : TRUE})
  BY FS_Singleton
<1> QED
  BY <1>1, WorkQueueAssumption DEF Threads

LEMMA OnTheirWayFinite == IsFiniteSet(OnTheirWay) /\ Cardinality(OnTheirWay) \in Nat
BY ThreadsAreFinite, FS_Subset, FS_CardinalityType DEF OnTheirWay

\* One more is not fewer.
LEMMA AddedIsNotFewer ==
  ASSUME NEW S, NEW x, IsFiniteSet(S)
  PROVE  Cardinality(S \cup {x}) \in Nat /\ Cardinality(S) <= Cardinality(S \cup {x})
<1>1. Cardinality(S) \in Nat
  BY FS_CardinalityType
<1>2. Cardinality(S \cup {x}) = IF x \in S THEN Cardinality(S) ELSE Cardinality(S) + 1
  BY FS_AddElement
<1> QED
  BY <1>1, <1>2

LEMMA QueueInitInv == ASSUME QueueInit PROVE QueueInv
<1>1. QueueShape
  BY EmptySeq DEF QueueInit, QueueShape, Sleepers
<1>2. Running = {}
  BY DEF QueueInit, Running, Job, Loop
<1>3. JobsInOrder
  BY <1>2, EmptySeq DEF QueueInit, JobsInOrder
<1>4. Sleepers = {}
  BY DEF QueueInit, Sleepers, Loop, Asleep
<1> QED
  BY <1>1, <1>3, <1>4 DEF QueueInv, NoLostWakeUp

LEMMA EnqueueStep ==
  ASSUME QueueInv, NEW kind \in Kinds, Enqueue(kind)
  PROVE  QueueInv'
<1>1. /\ submitted' \in Seq(Kinds) /\ Len(submitted') = Len(submitted) + 1
      /\ Len(submitted) \in Nat /\ Len(submitted') \in Job
  BY AppendProperties, LenProperties DEF Enqueue, QueueInv, QueueShape, Job
<1>2. /\ jobs' \in Seq(Job) /\ Len(jobs') = Len(jobs) + 1 /\ Len(jobs) \in Nat
      /\ \A i \in 1..Len(jobs) : jobs'[i] = jobs[i]
      /\ jobs'[Len(jobs) + 1] = Len(submitted')
  BY <1>1, AppendProperties, LenProperties DEF Enqueue, QueueInv, QueueShape
<1>3. Threads' = Threads /\ Sleepers' = Sleepers /\ Running' = Running
  BY DEF Enqueue, Threads, Sleepers, Running
<1>4. QueueShape'
  BY <1>1, <1>2, <1>3 DEF Enqueue, QueueInv, QueueShape
<1>5. JobsInOrder'
  <2>1. DOMAIN jobs' = 1..Len(jobs) + 1 /\ DOMAIN jobs = 1..Len(jobs)
    BY <1>2, LenProperties DEF QueueInv, QueueShape
  <2>2. \A i \in DOMAIN jobs' : jobs'[i] = Len(submitted') - Len(jobs') + i
    BY <1>1, <1>2, <2>1 DEF QueueInv, JobsInOrder
  <2>3. Len(submitted') - Len(jobs') = Len(submitted) - Len(jobs)
    BY <1>1, <1>2
  <2> QED
    BY <1>3, <2>2, <2>3 DEF Enqueue, QueueInv, JobsInOrder
<1>6. NoLostWakeUp'
  <2> SUFFICES ASSUME ~mustStop', ~(Sleepers' \subseteq notified')
               PROVE  Len(jobs') <= Cardinality(OnTheirWay')
    BY DEF NoLostWakeUp
  <2>1. PICK w \in Sleepers \ notified : notified' = notified \cup {w}
    BY <1>3 DEF Enqueue
  <2>2. Len(jobs) <= Cardinality(OnTheirWay)
    BY <2>1 DEF Enqueue, QueueInv, NoLostWakeUp
  <2>3. w \notin OnTheirWay /\ OnTheirWay' = OnTheirWay \cup {w}
    BY <1>3, <2>1 DEF Enqueue, OnTheirWay, Sleepers, Loop, Take, Asleep
  <2>4. Cardinality(OnTheirWay') = Cardinality(OnTheirWay) + 1
    BY <2>3, OnTheirWayFinite, FS_AddElement
  <2> QED
    BY <1>2, <2>2, <2>4, OnTheirWayFinite
<1> QED
  BY <1>4, <1>5, <1>6 DEF QueueInv

\* A thread takes the first job.
LEMMA TakeStep ==
  ASSUME QueueInv, NEW w \in Threads, Dequeue(w), jobs # <<>>
  PROVE  QueueInv'
<1> DEFINE n == Len(submitted) - Len(jobs)
<1>0. jobs' = Tail(jobs) /\ jobs \in Seq(Job) /\ Len(jobs) \in Nat \ {0}
  BY EmptySeq DEF Dequeue, QueueInv, QueueShape
<1>1. /\ jobs' \in Seq(Job) /\ Len(jobs) \in Nat \ {0}
      /\ Len(jobs') = Len(jobs) - 1 /\ \A i \in 1..Len(jobs') : jobs'[i] = jobs[i + 1]
  BY <1>0, HeadTailProperties
<1>2. /\ DOMAIN jobs = 1..Len(jobs) /\ DOMAIN jobs' = 1..Len(jobs')
      /\ Len(submitted) \in Nat /\ n \in Nat
  BY <1>1, LenProperties DEF QueueInv, QueueShape
<1>3. Head(jobs) = n + 1
  BY <1>1, <1>2 DEF QueueInv, JobsInOrder
<1>4. at' = [at EXCEPT ![w] = n + 1] /\ at[w] = Take /\ n + 1 \in Job
  <2>1. at' = [at EXCEPT ![w] = Head(jobs)] /\ at[w] = Take
    BY DEF Dequeue
  <2>2. n + 1 \in Job
    <3>1. \A m \in Nat : m + 1 \in Nat \ {0}
      OBVIOUS
    <3>2. n \in Nat
      BY <1>2
    <3> QED
      BY <3>1, <3>2, Zenon DEF Job
  <2> QED
    BY <1>3, <2>1, <2>2
<1>5. Threads' = Threads /\ Sleepers' = Sleepers
  BY <1>4 DEF Dequeue, Threads, Sleepers, QueueInv, QueueShape, Job, Take, Asleep
<1>6. w \notin Running /\ Running' = Running \cup {w}
  BY <1>4, <1>5 DEF Running, QueueInv, QueueShape, Job, Take
<1>7. QueueShape'
  BY <1>1, <1>2, <1>4, <1>5 DEF Dequeue, QueueInv, QueueShape
<1>8. JobsInOrder'
  <2>1. Len(submitted') - Len(jobs') = n + 1
    BY <1>1, <1>2 DEF Dequeue
  <2>2. \A i \in DOMAIN jobs' : jobs'[i] = Len(submitted') - Len(jobs') + i
    <3> TAKE i \in DOMAIN jobs'
    <3>1. i \in 1..Len(jobs') /\ i + 1 \in DOMAIN jobs /\ jobs'[i] = jobs[i + 1]
      BY <1>1, <1>2
    <3>2. jobs[i + 1] = n + (i + 1)
      BY <3>1 DEF QueueInv, JobsInOrder
    <3>3. i \in Nat /\ n \in Nat
      BY <1>1, <1>2, <3>1
    <3> HIDE DEF n
    <3>4. n + (i + 1) = n + 1 + i
      BY <3>3
    <3> QED
      BY <2>1, <3>1, <3>2, <3>4, Zenon
  <2>3. 1..n = ran \cup {at[v] : v \in Running}
    BY DEF QueueInv, JobsInOrder
  <2>4. \A v \in Running : at'[v] = at[v] /\ at[v] # n + 1
    <3> TAKE v \in Running
    <3>1. v # w /\ v \in Threads /\ at[v] \in 1..n
      BY <1>6, <2>3 DEF Running
    <3>2. at[v] # n + 1
      BY <1>2, <3>1
    <3> QED
      BY <1>4, <3>1, <3>2 DEF QueueInv, QueueShape
  <2>5. at'[w] = n + 1 /\ n + 1 \notin ran
    BY <1>2, <1>4, <2>3 DEF QueueInv, QueueShape
  <2>6. {at'[v] : v \in Running'} = {at[v] : v \in Running} \cup {n + 1}
    BY <1>6, <2>4, <2>5
  <2>7. 1..n + 1 = ran' \cup {at'[v] : v \in Running'}
    <3>1. 1..n + 1 = 1..n \cup {n + 1}
      BY <1>2
    <3> QED
      BY <2>3, <2>6, <3>1 DEF Dequeue
  <2>8. \A v \in Running' : at'[v] \notin ran' /\ \A u \in Running' : at'[v] = at'[u] => u = v
    BY <1>6, <2>4, <2>5 DEF Dequeue, QueueInv, JobsInOrder
  <2> QED
    BY <2>1, <2>2, <2>7, <2>8 DEF JobsInOrder
<1>9. NoLostWakeUp'
  <2>1. w \in OnTheirWay /\ w \notin notified
    BY <1>4 DEF OnTheirWay, QueueInv, QueueShape, Sleepers, Take, Asleep
  <2>2. OnTheirWay' = OnTheirWay \ {w}
    BY <1>4, <1>5, <2>1 DEF Dequeue, OnTheirWay, QueueInv, QueueShape, Job, Loop, Take
  <2>3. Cardinality(OnTheirWay') = Cardinality(OnTheirWay) - 1
    BY <2>1, <2>2, OnTheirWayFinite, FS_RemoveElement
  <2> QED
    BY <1>1, <1>5, <2>3, OnTheirWayFinite DEF Dequeue, QueueInv, NoLostWakeUp
<1> QED
  BY <1>7, <1>8, <1>9 DEF QueueInv

\* Steps that leave the jobs and those who run them alone.
LEMMA JobsStay ==
  ASSUME JobsInOrder, UNCHANGED <<jobs, submitted, ran>>, Running' = Running,
         \A v \in Running : at'[v] = at[v]
  PROVE  JobsInOrder'
<1>1. {at'[v] : v \in Running'} = {at[v] : v \in Running}
  OBVIOUS
<1> QED
  BY <1>1 DEF JobsInOrder

\* The queue is empty, and the thread goes to sleep or leaves.
LEMMA EmptyStep ==
  ASSUME QueueInv, NEW w \in Threads, Dequeue(w), jobs = <<>>
  PROVE  QueueInv'
<1>1. /\ at[w] = Take /\ at' = [at EXCEPT ![w] = at'[w]] /\ at'[w] \in {Loop, Asleep}
      /\ UNCHANGED <<loader, jobs, submitted, ran, notified>>
  BY DEF Dequeue, QueueInv, QueueShape
<1>2. Threads' = Threads /\ Running' = Running /\ \A v \in Running : at'[v] = at[v]
  BY <1>1 DEF Threads, Running, QueueInv, QueueShape, Job, Take, Loop, Asleep
<1>3. QueueShape'
  BY <1>1, <1>2 DEF QueueInv, QueueShape, Sleepers, Take, Asleep
<1>4. JobsInOrder'
  BY <1>1, <1>2, JobsStay DEF QueueInv
<1>5. IsFiniteSet(OnTheirWay') /\ Cardinality(OnTheirWay') \in Nat
  BY <1>2, ThreadsAreFinite, FS_Subset, FS_CardinalityType DEF OnTheirWay
<1>6. NoLostWakeUp'
  BY <1>1, <1>5, EmptySeq DEF NoLostWakeUp
<1> QED
  BY <1>3, <1>4, <1>6 DEF QueueInv

LEMMA LoopStep ==
  ASSUME QueueInv, NEW w \in Threads, WorkerLoop(w)
  PROVE  QueueInv'
<1>1. /\ at[w] = Loop /\ at' = [at EXCEPT ![w] = at'[w]]
      /\ at'[w] = IF mustStop THEN Left ELSE Take
      /\ UNCHANGED <<loader, jobs, submitted, ran, notified, mustStop>>
  BY DEF WorkerLoop, QueueInv, QueueShape
<1>2. Threads' = Threads /\ Running' = Running /\ \A v \in Running : at'[v] = at[v]
  BY <1>1 DEF Threads, Running, QueueInv, QueueShape, Job, Take, Loop, Left
<1>3. Sleepers' = Sleepers
  BY <1>1, <1>2 DEF Sleepers, QueueInv, QueueShape, Take, Loop, Left, Asleep
<1>4. QueueShape'
  BY <1>1, <1>2, <1>3 DEF QueueInv, QueueShape
<1>5. JobsInOrder'
  BY <1>1, <1>2, JobsStay DEF QueueInv
<1>6. ~mustStop => OnTheirWay' = OnTheirWay
  BY <1>1, <1>2 DEF OnTheirWay, QueueInv, QueueShape, Take, Loop
<1>7. NoLostWakeUp'
  BY <1>1, <1>3, <1>6 DEF QueueInv, NoLostWakeUp
<1> QED
  BY <1>4, <1>5, <1>7 DEF QueueInv

LEMMA WakeStep ==
  ASSUME QueueInv, NEW w \in Threads, Wake(w)
  PROVE  QueueInv'
<1>1. /\ at[w] = Asleep /\ at' = [at EXCEPT ![w] = Take] /\ at'[w] = Take
      /\ UNCHANGED <<loader, jobs, submitted, ran, mustStop>> /\ notified' = notified \ {w}
  BY DEF Wake, QueueInv, QueueShape
<1>2. Threads' = Threads /\ Running' = Running /\ \A v \in Running : at'[v] = at[v]
  BY <1>1 DEF Threads, Running, QueueInv, QueueShape, Job, Take, Asleep
<1>3. Sleepers' = Sleepers \ {w}
  BY <1>1, <1>2 DEF Sleepers, QueueInv, QueueShape, Take, Asleep
<1>4. QueueShape'
  BY <1>1, <1>2, <1>3 DEF QueueInv, QueueShape
<1>5. JobsInOrder'
  BY <1>1, <1>2, JobsStay DEF QueueInv
<1>6. OnTheirWay' = OnTheirWay \cup {w}
  BY <1>1, <1>2 DEF OnTheirWay, QueueInv, QueueShape, Take, Loop
<1>7. Cardinality(OnTheirWay') \in Nat /\ Cardinality(OnTheirWay) <= Cardinality(OnTheirWay')
  BY <1>6, OnTheirWayFinite, AddedIsNotFewer, Zenon
<1>8. NoLostWakeUp'
  <2>1. Len(jobs) \in Nat
    BY LenProperties DEF QueueInv, QueueShape
  <2> QED
    BY <1>1, <1>3, <1>7, <2>1, OnTheirWayFinite DEF QueueInv, NoLostWakeUp
<1> QED
  BY <1>4, <1>5, <1>8 DEF QueueInv

\* A job returns.
LEMMA FinishStep ==
  ASSUME QueueInv, NEW w \in Threads, Finish(w)
  PROVE  QueueInv'
<1>1. /\ w \in Running /\ at[w] \in Job /\ at' = [at EXCEPT ![w] = Loop] /\ at'[w] = Loop
      /\ UNCHANGED <<loader, jobs, submitted, notified, mustStop>>
      /\ ran' = ran \cup {at[w]}
  BY DEF Finish, QueueInv, QueueShape, Running
<1>2. /\ Threads' = Threads /\ Sleepers' = Sleepers /\ Running' = Running \ {w}
      /\ \A v \in Running' : at'[v] = at[v]
  BY <1>1 DEF Threads, Running, Sleepers, QueueInv, QueueShape, Job, Loop, Asleep
<1>3. QueueShape'
  BY <1>1, <1>2 DEF QueueInv, QueueShape
<1>4. JobsInOrder'
  <2>1. {at[v] : v \in Running} = {at'[v] : v \in Running'} \cup {at[w]}
    BY <1>1, <1>2
  <2>2. \A v \in Running' : at'[v] \notin ran' /\ \A u \in Running' : at'[v] = at'[u] => u = v
    BY <1>1, <1>2 DEF QueueInv, JobsInOrder
  <2> QED
    BY <1>1, <2>1, <2>2 DEF QueueInv, JobsInOrder
<1>5. OnTheirWay' = OnTheirWay \cup {w}
  BY <1>1, <1>2 DEF OnTheirWay, QueueInv, QueueShape, Take, Loop
<1>6. Cardinality(OnTheirWay') \in Nat /\ Cardinality(OnTheirWay) <= Cardinality(OnTheirWay')
  BY <1>5, OnTheirWayFinite, AddedIsNotFewer, Zenon
<1>7. NoLostWakeUp'
  <2>1. Len(jobs) \in Nat
    BY LenProperties DEF QueueInv, QueueShape
  <2> QED
    BY <1>1, <1>2, <1>6, <2>1, OnTheirWayFinite DEF QueueInv, NoLostWakeUp
<1> QED
  BY <1>3, <1>4, <1>7 DEF QueueInv

\* stop() wakes everyone, or sets the flag that ends the loops.
LEMMA StopStep ==
  ASSUME QueueInv, StopQueue \/ StopThreads
  PROVE  QueueInv'
<1>1. UNCHANGED <<loader, jobs, submitted, ran, at>>
  BY DEF StopQueue, StopThreads
<1>2. Threads' = Threads /\ Sleepers' = Sleepers /\ Running' = Running
  BY <1>1 DEF Threads, Sleepers, Running
<1>3. QueueShape'
  BY <1>1, <1>2 DEF StopQueue, StopThreads, QueueInv, QueueShape
<1>4. JobsInOrder'
  BY <1>1, <1>2, JobsStay DEF QueueInv
<1>5. mustStop' \/ Sleepers' \subseteq notified'
  BY <1>2 DEF StopQueue, StopThreads
<1> QED
  BY <1>3, <1>4, <1>5 DEF QueueInv, NoLostWakeUp

LEMMA QueueUnchanged ==
  ASSUME QueueInv, UNCHANGED <<loader, jobs, submitted, ran, at, notified, mustStop>>
  PROVE  QueueInv'
<1>1. Threads' = Threads /\ Sleepers' = Sleepers /\ Running' = Running
  BY DEF Threads, Sleepers, Running
<1>2. OnTheirWay' = OnTheirWay
  BY <1>1 DEF OnTheirWay
<1> QED
  BY <1>1, <1>2 DEF QueueInv, QueueShape, JobsInOrder, NoLostWakeUp

LEMMA QueueStepInv == ASSUME QueueInv, QueueNext PROVE QueueInv'
<1>1. CASE Submit \/ SubmitResult
  BY <1>1, EnqueueStep DEF Submit, SubmitResult, Kinds
<1>2. ASSUME NEW w \in Threads, WorkerLoop(w) \/ Dequeue(w) \/ Wake(w) \/ Finish(w)
      PROVE  QueueInv'
  BY <1>2, LoopStep, TakeStep, EmptyStep, WakeStep, FinishStep
<1>3. CASE Stop \/ StopOther
  BY <1>3, StopStep DEF Stop, StopOther
<1>4. CASE Joined
  BY <1>4, QueueUnchanged DEF Joined
<1> QED
  BY <1>1, <1>2, <1>3, <1>4 DEF QueueNext

\* The threads of a queue share its jobs (safe_queue.h, thread_pool.cpp:43): each job is
\* run once at most and in its turn, and as long as a thread sleeps there are others on
\* their way for every job that waits, for any number of threads and jobs.
THEOREM WorkIsSharedOut == Spec => []WorkIsShared
<1>1. Init => QueueInv
  BY QueueInitInv DEF Init
<1>2. QueueInv /\ [Next]_callVars => QueueInv'
  BY QueueStepInv, QueueUnchanged
     DEF Next, callVars, queueVars, CameraStep, QueueStep, PortStep, BackendStep
<1>3. QueueInv => WorkIsShared
  BY DEF QueueInv, WorkIsShared
<1> QED
  BY <1>1, <1>2, <1>3, PTL DEF Spec

-----------------------------------------------------------------------------
(* The loader: a CommandService                                           *)

\* The loader has one thread, whose job is the last one taken, and asks nobody to wait.
LoaderInv ==
  loader => /\ \A w \in Running : at[w] = Len(submitted) - Len(jobs)
            /\ \A j \in DOMAIN submitted : submitted[j] = "plain"
            /\ Len(submitted) <= MaxJobs

LEMMA OneLoader ==
  ASSUME loader, NEW v \in Threads, NEW w \in Threads PROVE v = w
BY DEF Threads

LEMMA LoaderInit == ASSUME QueueInit PROVE LoaderInv
<1>1. submitted = <<>> /\ Running = {}
  BY DEF QueueInit, Running, Job, Loop
<1>2. DOMAIN submitted = {} /\ Len(submitted) = 0
  BY <1>1
<1> QED
  BY <1>1, <1>2, WorkQueueAssumption DEF LoaderInv

LEMMA LoaderStep ==
  ASSUME QueueInv, LoaderInv, QueueNext PROVE LoaderInv'
<1> SUFFICES ASSUME loader'
             PROVE  /\ \A w \in Running' : at'[w] = Len(submitted') - Len(jobs')
                    /\ \A j \in DOMAIN submitted' : submitted'[j] = "plain"
                    /\ Len(submitted') <= MaxJobs
  BY DEF LoaderInv
<1>0. /\ loader' = loader /\ Threads' = Threads
  BY DEF QueueNext, Submit, SubmitResult, Enqueue, WorkerLoop, Dequeue, Wake, Finish,
     Stop, StopOther, StopQueue, StopThreads, Joined, Threads
<1>1. /\ \A w \in Running : at[w] = Len(submitted) - Len(jobs)
      /\ \A j \in DOMAIN submitted : submitted[j] = "plain"
      /\ Len(submitted) <= MaxJobs
      /\ jobs \in Seq(Job) /\ submitted \in Seq(Kinds) /\ Len(jobs) <= Len(submitted)
      /\ at \in [Threads -> Job \cup {Loop, Take, Asleep, Left}]
  BY <1>0 DEF LoaderInv, QueueInv, QueueShape
<1>2. CASE Submit
  <2>1. Enqueue("plain") /\ Len(submitted) - Cardinality(Results) < MaxJobs
    BY <1>0, <1>2 DEF Submit
  <2>2. Results = {}
    BY <1>1 DEF Results
  <2>3. Cardinality(Results) = 0
    BY <2>2, FS_EmptySet
  <2>4. /\ submitted' \in Seq(Kinds) /\ Len(submitted') = Len(submitted) + 1
        /\ DOMAIN submitted' = 1..Len(submitted) + 1
        /\ \A j \in 1..Len(submitted) : submitted'[j] = submitted[j]
        /\ submitted'[Len(submitted) + 1] = "plain"
        /\ Len(jobs') = Len(jobs) + 1
        /\ Len(submitted) \in Nat /\ Len(jobs) \in Nat
        /\ DOMAIN submitted = 1..Len(submitted)
    BY <1>1, <2>1, AppendProperties, LenProperties DEF Enqueue, Kinds, Job
  <2>5. Running' = Running /\ at' = at
    BY <1>0, <2>1 DEF Enqueue, Running
  <2>6. \A j \in DOMAIN submitted' : submitted'[j] = "plain"
    BY <1>1, <2>4
  <2>7. Len(submitted') - Len(jobs') = Len(submitted) - Len(jobs)
    BY <2>4
  <2>8. Len(submitted') <= MaxJobs
    BY <2>1, <2>3, <2>4, WorkQueueAssumption
  <2> QED
    BY <1>1, <2>5, <2>6, <2>7, <2>8
<1>3. ~SubmitResult
  <2> SUFFICES ASSUME NEW w \in Running, submitted[at[w]] = "waits" PROVE FALSE
    BY DEF SubmitResult
  <2>1. at[w] \in 1..Len(submitted) - Len(jobs)
    BY DEF QueueInv, JobsInOrder
  <2>2. at[w] \in DOMAIN submitted
    BY <1>1, <2>1, LenProperties
  <2> QED
    BY <1>1, <2>2
<1>4. ASSUME NEW w \in Threads, Dequeue(w), jobs # <<>>
      PROVE  /\ \A v \in Running' : at'[v] = Len(submitted') - Len(jobs')
             /\ UNCHANGED submitted
  <2>1. /\ jobs' = Tail(jobs) /\ at' = [at EXCEPT ![w] = Head(jobs)]
        /\ UNCHANGED submitted
    BY <1>4 DEF Dequeue
  <2>2. /\ Len(jobs) \in Nat \ {0} /\ Len(jobs') = Len(jobs) - 1 /\ Head(jobs) = jobs[1]
        /\ 1 \in DOMAIN jobs /\ Len(submitted) \in Nat
    BY <1>1, <1>4, <2>1, HeadTailProperties, LenProperties, EmptySeq
  <2>3. jobs[1] = Len(submitted) - Len(jobs) + 1
    BY <2>2 DEF QueueInv, JobsInOrder
  <2>4. Len(submitted') - Len(jobs') = jobs[1]
    BY <2>1, <2>2, <2>3
  <2>5. \A v \in Running' : v = w /\ at'[v] = Head(jobs)
    BY <1>0, <1>1, <2>1, OneLoader DEF Running
  <2> QED
    BY <2>1, <2>2, <2>4, <2>5
<1>5. ASSUME NEW w \in Threads,
             WorkerLoop(w) \/ Wake(w) \/ Finish(w) \/ (Dequeue(w) /\ jobs = <<>>)
      PROVE  Running' = {} /\ UNCHANGED submitted
  <2>1. /\ at'[w] \in {Loop, Take, Asleep, Left} /\ UNCHANGED submitted
    BY <1>1, <1>5 DEF WorkerLoop, Wake, Finish, Dequeue
  <2> QED
    BY <1>0, <2>1, OneLoader DEF Running, Job, Loop, Take, Asleep, Left
<1>6. CASE Stop \/ StopOther \/ Joined
  <2>1. UNCHANGED <<submitted, jobs, at>>
    BY <1>6 DEF Stop, StopOther, StopQueue, StopThreads, Joined
  <2> QED
    BY <1>0, <1>1, <2>1 DEF Running
<1>7. CASE \E w \in Threads : WorkerLoop(w) \/ Dequeue(w) \/ Wake(w) \/ Finish(w)
  BY <1>1, <1>4, <1>5, <1>7
<1> QED
  BY <1>2, <1>3, <1>6, <1>7 DEF QueueNext

\* The files that have been fetched are the first ones, and the next is the one at work.
LEMMA LoaderHasFetched ==
  ASSUME QueueInv, LoaderInv, loader
  PROVE  \E m \in 0..Len(submitted) :
            ran = 1..m /\ \A w \in Running : at[w] = m + 1 /\ m < Len(submitted)
<1> DEFINE n == Len(submitted) - Len(jobs)
<1>1. /\ Len(submitted) \in Nat /\ Len(jobs) \in Nat /\ Len(jobs) <= Len(submitted)
  BY LenProperties DEF QueueInv, QueueShape
<1>2. /\ 1..n = ran \cup {at[w] : w \in Running} /\ \A w \in Running : at[w] \notin ran
      /\ \A w \in Running : at[w] = n
  BY DEF QueueInv, JobsInOrder, LoaderInv
<1>3. n \in 0..Len(submitted)
  BY <1>1
<1> HIDE DEF n
<1>4. CASE Running = {}
  BY <1>2, <1>3, <1>4
<1>5. CASE Running # {}
  <2>1. PICK w \in Running : TRUE
    BY <1>5
  <2>2. n \in 1..n /\ ran = 1..n \ {n}
    BY <1>2, <2>1
  <2>3. n - 1 \in 0..Len(submitted) /\ ran = 1..n - 1 /\ n = (n - 1) + 1 /\ n - 1 < Len(submitted)
    BY <1>1, <1>3, <2>2
  <2> QED
    BY <1>2, <2>3
<1> QED
  BY <1>4, <1>5

LEMMA NumbersAppend ==
  ASSUME NEW m \in Nat
  PROVE  /\ Len([j \in 1..m |-> j]) = m
         /\ [j \in 1..m + 1 |-> j] = Append([j \in 1..m |-> j], m + 1)
<1> DEFINE s == [j \in 1..m |-> j]
           t == [j \in 1..m + 1 |-> j]
<1>1. s \in Seq(Nat) /\ Len(s) = m /\ t \in Seq(Nat) /\ Len(t) = m + 1
  OBVIOUS
<1>2. Append(s, m + 1) \in Seq(Nat) /\ Len(Append(s, m + 1)) = m + 1
  BY <1>1
<1>3. \A i \in 1..m + 1 : Append(s, m + 1)[i] = t[i]
  BY <1>1
<1> QED
  BY <1>1, <1>2, <1>3, SeqEqual

Fetched == IF loader THEN [j \in ran |-> j] ELSE <<>>
Asked   == IF loader THEN Len(submitted) ELSE 0

LEMMA LoaderImplements ==
  ASSUME QueueInv, LoaderInv, QueueNext
  PROVE  \/ Downloads!Next
         \/ UNCHANGED Downloads!serviceVars
<1> SUFFICES \/ Asked < MaxJobs /\ Asked' = Asked + 1 /\ Fetched' = Fetched
             \/ \E o \in 1..MaxJobs : /\ Len(Fetched) < Asked
                                     /\ Fetched' = Append(Fetched, o) /\ Asked' = Asked
             \/ Asked' = Asked /\ Fetched' = Fetched
  BY DEF Downloads!Next, Downloads!Submit, Downloads!Answer, Downloads!serviceVars,
         Fetched, Asked
<1>0. loader' = loader
  BY DEF QueueNext, Submit, SubmitResult, Enqueue, WorkerLoop, Dequeue, Wake, Finish,
     Stop, StopOther, StopQueue, StopThreads, Joined
<1>1. CASE ~loader
  BY <1>0, <1>1 DEF Fetched, Asked
<1> SUFFICES ASSUME loader
             PROVE  \/ Asked < MaxJobs /\ Asked' = Asked + 1 /\ Fetched' = Fetched
                    \/ \E o \in 1..MaxJobs : /\ Len(Fetched) < Asked
                                            /\ Fetched' = Append(Fetched, o) /\ Asked' = Asked
                    \/ Asked' = Asked /\ Fetched' = Fetched
  BY <1>1
<1>2. /\ Asked = Len(submitted) /\ Asked' = Len(submitted')
      /\ Fetched = [j \in ran |-> j] /\ Fetched' = [j \in ran' |-> j]
  BY <1>0 DEF Asked, Fetched
<1>3. /\ submitted \in Seq(Kinds) /\ Len(submitted) \in Nat
      /\ Len(submitted) <= MaxJobs /\ MaxJobs \in Nat
      /\ \A j \in DOMAIN submitted : submitted[j] = "plain"
  BY WorkQueueAssumption, LenProperties DEF LoaderInv, QueueInv, QueueShape
<1>4. CASE Submit \/ SubmitResult
  <2>1. PICK kind : Enqueue(kind)
    BY <1>4 DEF Submit, SubmitResult
  <2>2. Len(submitted') = Len(submitted) + 1 /\ ran' = ran
    BY <1>3, <2>1, AppendProperties DEF Enqueue
  <2>3. Len(submitted') <= MaxJobs
    BY <1>0, LoaderStep DEF LoaderInv
  <2> QED
    BY <1>2, <1>3, <2>2, <2>3
<1>5. ASSUME NEW w \in Threads, Finish(w)
      PROVE  \E o \in 1..MaxJobs : /\ Len(Fetched) < Asked
                                 /\ Fetched' = Append(Fetched, o) /\ Asked' = Asked
  <2>1. w \in Running /\ ran' = ran \cup {at[w]} /\ submitted' = submitted
    BY <1>5 DEF Finish
  <2>2. PICK m \in 0..Len(submitted) :
             ran = 1..m /\ \A v \in Running : at[v] = m + 1 /\ m < Len(submitted)
    BY LoaderHasFetched
  <2>3. m \in Nat /\ m + 1 \in 1..MaxJobs /\ m < Len(submitted)
    BY <1>3, <2>1, <2>2
  <2>4. ran' = 1..m + 1
    BY <2>1, <2>2, <2>3
  <2>5. Len(Fetched) = m /\ Fetched' = Append(Fetched, m + 1)
    BY <1>2, <2>2, <2>3, <2>4, NumbersAppend
  <2> QED
    BY <1>2, <2>1, <2>3, <2>5
<1>6. CASE \/ Stop \/ StopOther \/ Joined
           \/ \E w \in Threads : WorkerLoop(w) \/ Dequeue(w) \/ Wake(w)
  <2>1. UNCHANGED <<submitted, ran>>
    BY <1>6 DEF WorkerLoop, Dequeue, Wake, Stop, StopOther, StopQueue, StopThreads, Joined
  <2> QED
    BY <1>2, <2>1
<1> QED
  BY <1>4, <1>5, <1>6 DEF QueueNext

\* The loader implements the service of the command sender: each file is fetched once,
\* and in the order in which they were asked for (http_loader.cpp:72-82).
THEOREM LoaderFetchesInOrder == Spec => DownloadsInOrder
<1>1. Init => QueueInv /\ LoaderInv /\ Downloads!Init
  <2> SUFFICES ASSUME Init PROVE QueueInv /\ LoaderInv /\ Downloads!Init
    OBVIOUS
  <2>1. QueueInit
    BY DEF Init
  <2>2. Len(submitted) = 0 /\ [j \in ran |-> j] = <<>>
    BY <2>1, SMTT(30) DEF QueueInit
  <2> QED
    BY <2>1, <2>2, QueueInitInv, LoaderInit DEF Downloads!Init
<1>2. QueueInv /\ LoaderInv /\ [Next]_callVars => QueueInv' /\ LoaderInv'
  <2> SUFFICES ASSUME QueueInv, LoaderInv, [Next]_callVars PROVE QueueInv' /\ LoaderInv'
    OBVIOUS
  <2>1. CASE QueueNext
    BY <2>1, QueueStepInv, LoaderStep
  <2>2. CASE UNCHANGED queueVars
    <3>1. LoaderInv'
      BY <2>2 DEF queueVars, LoaderInv, Running, Threads
    <3> QED
      BY <2>2, <3>1, QueueUnchanged DEF queueVars
  <2> QED
    BY <2>1, <2>2 DEF Next, callVars, CameraStep, QueueStep, PortStep, BackendStep
<1>3. QueueInv /\ LoaderInv /\ [Next]_callVars => [Downloads!Next]_(Downloads!serviceVars)
  <2> SUFFICES ASSUME QueueInv, LoaderInv, [Next]_callVars
               PROVE  Downloads!Next \/ UNCHANGED Downloads!serviceVars
    OBVIOUS
  <2>1. CASE QueueNext
    BY <2>1, LoaderImplements
  <2>2. CASE UNCHANGED queueVars
    BY <2>2 DEF queueVars, Downloads!serviceVars
  <2> QED
    BY <2>1, <2>2 DEF Next, callVars, CameraStep, QueueStep, PortStep, BackendStep
<1> QED
  BY <1>1, <1>2, <1>3, PTL DEF Spec, DownloadsInOrder, Downloads!Spec
===============================================================================
