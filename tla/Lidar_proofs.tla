----------------------------- MODULE Lidar_proofs -----------------------------
(***************************************************************************)
(* What the lidar driver promises its reader and itself, for any device,   *)
(* sizes of the revolution, the batch and the buffers, and bounds: there   *)
(* is one scan thread, and a scan is taken once and whole.                 *)
(***************************************************************************)
EXTENDS Lidar, SequenceTheorems, TLAPS

-----------------------------------------------------------------------------
(* The fields of the records                                               *)

\* The settings are one kind of step
LEMMA AppDoes == AppThread => Setting \/ SettingEnds \/ Reset
BY DEF AppThread, SetScanFrequencyAddMic, SetScanFrequencyDisMic, SetRotationPositive,
   SetRotationInversion, EnableLowerPower, DisableLowerPower, GetMotorState, EnableConstFreq,
   DisableConstFreq, SetSaveLowExposure, SetLowExposureAdd, SetLowExposurerDis,
   SetPointsForOneRingFlag

Shapes ==
  /\ DOMAIN at = Threads /\ DOMAIN phase = Threads
  /\ DOMAIN driver = {"alive", "connected", "scanning", "thread", "model", "rate", "heartbeat"}
  /\ DOMAIN shared = {"buf", "nodes", "event", "lock"}
  /\ DOMAIN scan = {"pc", "batch", "count", "pos", "ring", "synced", "damaged", "torn"}
  /\ DOMAIN device = {"model", "rate", "beat", "spinning", "sent"}
  /\ DOMAIN laser = {"turnedOn", "tried", "healthy", "left", "size", "got", "gotTorn", "wanted"}
  /\ DOMAIN history = {"taken", "torn"}

\* The records have their fields at first ...
LEMMA ShapesStart == LidarInit => Shapes
  BY LidarAssumption DEF LidarInit, DriverInit, Shapes, NoDriver, NewDriver, NewShared, NewScan

\* ... and keep them.
LEMMA ShapesStep == ASSUME Shapes, Next PROVE Shapes'
<1> USE DEF Shapes
<1>1. CASE TopOfLoop \/ CheckHardware \/ CheckComms \/ CheckStatus \/ GetHealth
        \/ GetDeviceInfo \/ InfoMissing
    \/ BaudIsWrong \/ Rebaud \/ NextBaud 
  BY <1>1 DEF TopOfLoop, CheckHardware, CheckComms, CheckStatus, GetHealth, GetDeviceInfo,
     InfoMissing, BaudIsWrong, Rebaud, NextBaud, Go, RunGoes, Connect, NoDriver, NewDriver,
     NewShared, Stopped
<1>2. CASE GetSamplingRate \/ SetSamplingRate \/ GetScanFrequency
    \/ StepScanFrequency \/ SetScanHeartbeat \/ SetLowExposure \/ StartBegin \/ StartStopped
  BY <1>2 DEF GetSamplingRate, SetSamplingRate, Cycled, GetScanFrequency,
     StepScanFrequency, SetScanHeartbeat, SetLowExposure, StartBegin, StartStopped, Go,
     RunGoes, Stopped
<1>3. CASE StartRate \/ StartScan \/ CreateThread \/ StartFlag \/ TurnOn \/ GrabWait
        \/ GrabSize \/ GrabCopy
  BY <1>3 DEF StartRate, StartScan, CreateThread, StartFlag, TurnOn, GrabWait, GrabSize,
     GrabCopy, Go, RunGoes, NewScan
<1>4. CASE StopThread
  BY <1>4 DEF StopThread, Stop, TurnOff, Disconnect, Delete, Joined, Go, Stopped, NoDriver,
     NewDriver
<1>5. CASE AppThread
  BY <1>5, AppDoes DEF Setting, SettingEnds, Reset, Go
<1>6. CASE Driver(ScanThread)
  BY <1>6 DEF Driver, ScanThread, ScanFirst, ScanBatch, ScanTimeout, ScanFails, ScanEnds,
     ScanNode, ScanFirstSync, ScanPublish, ScanBeat, Received, Read, NextNode, NewScan
<1>7. ASSUME NEW t \in Threads, Called(t) PROVE Shapes'
  BY <1>7 DEF Called, Driver, Clear, Join, Crash, NewScan
<1> QED BY <1>1, <1>2, <1>3, <1>4, <1>5, <1>6, <1>7 DEF Next, RunThread

-----------------------------------------------------------------------------
(* One scan thread                                                         *)

\* Where the run thread is from the creation of a scan thread on, when it can only
\* go on to its end: the lidar is being stopped
Creating == {"start.flag", "turnOn", "grab", "size", "copy", "loop", "ended"}

\* A driver that exists knows whether its scan thread may still run.  A driver is
\* deleted before its thread has ended only if the thread was created after the
\* one who deletes it had waited for the former one: then the run thread is on its
\* way out, and no driver is made again.
ThreadInv ==
  /\ at["stop"] \in {"idle", "crashed"} \/ running
  /\ phase["stop"] # "begin" => running
  /\ (phase["run"] = "send" \/ at["run"] \in {"start.rate", "start.scan", "start.create"}) =>
       driver.thread # "live"
  /\ at["run"] = "next" => ~driver.alive
  /\ driver.alive => driver.thread = "live" \/ scan.pc = "exited"
  /\ (driver.thread = "live" /\ phase["stop"] = "send") => at["run"] \in Creating
  /\ (~driver.alive /\ scan.pc # "exited") => running /\ at["run"] \in Creating

\* There is no thread at first ...
LEMMA ThreadStart == LidarInit => ThreadInv
  BY LidarAssumption DEF LidarInit, DriverInit, ThreadInv, NewScan

\* ... and each thread's steps keep to that, whatever the others are in.
LEMMA ThreadStep == ASSUME Shapes, ThreadInv, Next PROVE ThreadInv'
<1> USE LidarAssumption DEF Shapes, ThreadInv, Creating
<1>1. CASE TopOfLoop \/ CheckHardware \/ CheckComms \/ CheckStatus \/ GetHealth
        \/ GetDeviceInfo \/ InfoMissing
    \/ BaudIsWrong \/ Rebaud \/ NextBaud
  <2>1. CASE TopOfLoop
    BY <2>1 DEF TopOfLoop, Go, RunGoes, Run
  <2>2. CASE CheckHardware
    BY <2>2 DEF CheckHardware, Go, RunGoes, Run
  <2>3. CASE CheckComms
    BY <2>3 DEF CheckComms, Go, RunGoes, Run, Connect, NewDriver, NoDriver, NewShared
  <2>4. CASE CheckStatus
    BY <2>4 DEF CheckStatus, Go, RunGoes, Run
  <2>5. CASE GetHealth
    BY <2>5 DEF GetHealth, Go, RunGoes, Run
  <2>6. CASE GetDeviceInfo
    BY <2>6 DEF GetDeviceInfo, Go, RunGoes, Run, AfterInfo
  <2>7. CASE InfoMissing
    BY <2>7 DEF InfoMissing, Go, RunGoes, Run, AfterInfo
  <2>8. CASE BaudIsWrong
    BY <2>8 DEF BaudIsWrong, Go, RunGoes, Run
  <2>9. CASE Rebaud
    BY <2>9 DEF Rebaud, Go, RunGoes, Run, Stopped, NewDriver, NoDriver
  <2>10. CASE NextBaud
    <3>1. /\ Run("next") /\ Connect(NewDriver(FALSE), "health", "loop")
          /\ UNCHANGED <<scan, running>>
      BY <2>10 DEF NextBaud
    <3> QED BY <3>1 DEF Go, RunGoes, Run, Connect, NewDriver
  <2> QED BY <1>1, <2>1, <2>2, <2>3, <2>4, <2>5, <2>6, <2>7, <2>8, <2>9, <2>10
<1>2. CASE GetSamplingRate \/ SetSamplingRate \/ GetScanFrequency
    \/ StepScanFrequency \/ SetScanHeartbeat \/ SetLowExposure \/ StartBegin \/ StartStopped
  BY <1>2 DEF GetSamplingRate, SetSamplingRate, Cycled, GetScanFrequency, AfterRate,
     AfterInfo, StepScanFrequency, SetScanHeartbeat, SetLowExposure, StartBegin,
     StartStopped, Go, RunGoes, Run, Stopped
<1>3. CASE StartRate \/ StartScan \/ CreateThread \/ StartFlag \/ TurnOn \/ GrabWait
        \/ GrabSize \/ GrabCopy
  BY <1>3 DEF StartRate, StartScan, CreateThread, StartFlag, TurnOn, GrabWait, GrabSize,
     GrabCopy, Go, RunGoes, Run, NewScan
<1>4. CASE StopThread
  BY <1>4 DEF StopThread, Stop, TurnOff, Disconnect, Delete, Joined, Go, Stopped, NoDriver,
     NewDriver
<1>5. CASE AppThread
  BY <1>5, AppDoes DEF Setting, SettingEnds, Reset, Go
<1>6. CASE Driver(ScanThread)
  <2>0. UNCHANGED running BY <1>6 DEF Driver
  <2>1. CASE ScanFirst
    BY <2>0, <2>1 DEF ScanFirst, Received
  <2>2. CASE ScanBatch
    BY <2>0, <2>2 DEF ScanBatch, Received, Read
  <2>3. CASE ScanTimeout
    BY <2>0, <2>3 DEF ScanTimeout, Received, Read
  <2>4. CASE ScanFails
    BY <2>0, <2>4 DEF ScanFails, NewScan
  <2>5. CASE ScanEnds
    BY <2>0, <2>5 DEF ScanEnds, NewScan
  <2>6. CASE ScanNode
    BY <2>0, <2>6 DEF ScanNode, NextNode
  <2>7. CASE ScanFirstSync
    BY <2>0, <2>7 DEF ScanFirstSync, NextNode
  <2>8. CASE ScanPublish
    BY <2>0, <2>8 DEF ScanPublish, NextNode
  <2>9. CASE ScanBeat
    BY <2>0, <2>9 DEF ScanBeat
  <2> QED BY <1>6, <2>1, <2>2, <2>3, <2>4, <2>5, <2>6, <2>7, <2>8, <2>9 DEF Driver, ScanThread
<1>7. ASSUME NEW t \in Threads, Called(t) PROVE ThreadInv'
  <2>0. UNCHANGED running BY <1>7 DEF Called, Driver
  <2>1. CASE Clear(t)
    BY <2>0, <2>1 DEF Clear, StopPlaces, RequestPlaces
  <2>2. CASE Join(t)
    BY <2>0, <2>2 DEF Join
  <2>3. CASE Crash(t)
    BY <2>0, <2>3 DEF Crash, NewScan
  <2> QED BY <1>7, <2>1, <2>2, <2>3 DEF Called, Driver
<1> QED BY <1>1, <1>2, <1>3, <1>4, <1>5, <1>6, <1>7 DEF Next, RunThread

-----------------------------------------------------------------------------
(* What the scan thread collects                                           *)

\* The first n of s are of one revolution, from its first sample on, zeros apart
Revolution(s, n) ==
  Sync(s[1]) /\ \A i \in 2..n : s[i] = 0 \/ (s[i] = s[1] + i - 1 /\ ~Sync(s[i]))

\* The number of the sample that the scan thread looks at next
Coming == IF scan.pc = "process" THEN device.sent - scan.count + scan.pos ELSE device.sent + 1

\* The variables of cacheScanData
ScanTypes ==
  /\ scan.pc \in {"exited", "first", "loop", "process", "beat"}
  /\ scan.count \in 0..Batch
  /\ scan.pc = "process" => scan.pos \in 1..scan.count
  /\ scan.batch \in [1..Batch -> Nat]
  /\ scan.ring \in Seq(Nat) /\ Len(scan.ring) < MaxNodes
  /\ device.sent \in Nat

\* A batch that is whole has the last samples of the device
BatchInv ==
  scan.pc = "process" /\ ~scan.damaged =>
    \A i \in 1..scan.count : scan.batch[i] \in {0, device.sent - scan.count + i}

\* A ring that is not torn is the beginning of a revolution, and the next sample
\* follows it, unless the ring is full
RingInv ==
  /\ scan.synced => scan.pc \notin {"exited", "first"}
  /\ (scan.synced /\ ~scan.torn) => Len(scan.ring) >= 1 /\ Revolution(scan.ring, Len(scan.ring))
  /\ (scan.synced /\ ~scan.torn /\ (scan.pc = "process" => ~scan.damaged)) =>
       Coming = scan.ring[1] + Len(scan.ring) \/ Len(scan.ring) = MaxNodes - 1

ScanInv == ScanTypes /\ BatchInv /\ RingInv

\* Steps of others leave it alone,
LEMMA ScanRests ==
  ASSUME ScanInv, UNCHANGED scan, device'.sent = device.sent
  PROVE  ScanInv'
  BY DEF ScanInv, ScanTypes, BatchInv, RingInv, Coming, Revolution

\* and a new thread, or one that has ended, has nothing yet.
LEMMA NewScanStarts ==
  ASSUME device.sent \in Nat, device'.sent = device.sent,
         scan' = NewScan \/ scan' = [NewScan EXCEPT !.pc = "first"]
  PROVE  ScanInv'
<1>1. /\ scan'.pc \in {"exited", "first"} /\ scan'.batch = [i \in 1..Batch |-> 0]
      /\ scan'.count = Batch /\ scan'.ring = <<>> /\ scan'.synced = FALSE
  <2>1. CASE scan' = NewScan
    BY <2>1 DEF NewScan
  <2>2. CASE scan' = [NewScan EXCEPT !.pc = "first"]
    BY <2>2 DEF NewScan
  <2> QED BY <2>1, <2>2
<1>2. scan'.batch \in [1..Batch -> Nat] /\ scan'.count \in 0..Batch
      /\ scan'.ring \in Seq(Nat) /\ Len(scan'.ring) < MaxNodes
  BY <1>1, DriverAssumption
<1> QED BY <1>1, <1>2 DEF ScanInv, ScanTypes, BatchInv, RingInv

\* There is no scan at first.
LEMMA ScanStart == LidarInit => ScanInv
<1> SUFFICES ASSUME LidarInit PROVE ScanInv
  OBVIOUS
<1>1. scan = NewScan /\ device.sent = 0
  BY DEF LidarInit, DriverInit
<1> QED BY <1>1, DriverAssumption DEF NewScan, ScanInv, ScanTypes, BatchInv, RingInv,
   Coming, Revolution

\* The first nodes are not used.
LEMMA FirstStep == ASSUME Shapes, ScanInv, ScanFirst PROVE ScanInv'
<1>0. PICK k \in 0..Smaller(scan.count, Available) : \E d \in Dropped(k) :
        /\ Received(k + d)
        /\ \E count \in {k, scan.count} : scan' = [scan EXCEPT !.pc = "loop", !.count = count]
  BY DEF ScanFirst
<1>1. PICK d \in Dropped(k) :
        /\ Received(k + d)
        /\ \E count \in {k, scan.count} : scan' = [scan EXCEPT !.pc = "loop", !.count = count]
  BY <1>0
<1>2. scan.count \in 0..Batch /\ device.sent \in Nat /\ scan.pc = "first"
  BY DEF ScanInv, ScanTypes, ScanFirst
<1>3. k \in 0..scan.count /\ d \in Nat
  BY <1>2, DriverAssumption DEF Smaller, Dropped, Available
<1>4. device'.sent = device.sent + (k + d)
  BY <1>1 DEF Received, Shapes
<1>5. /\ scan'.pc = "loop" /\ scan'.count \in 0..Batch
      /\ scan'.batch = scan.batch /\ scan'.ring = scan.ring /\ scan'.synced = scan.synced
  <2>1. PICK count \in {k, scan.count} : scan' = [scan EXCEPT !.pc = "loop", !.count = count]
    BY <1>1
  <2>2. count \in 0..Batch
    BY <1>2, <1>3, DriverAssumption
  <2> QED BY <2>1, <2>2 DEF Shapes
<1>6. ScanTypes'
  BY <1>2, <1>3, <1>4, <1>5 DEF ScanInv, ScanTypes
<1> QED BY <1>2, <1>5, <1>6 DEF ScanInv, BatchInv, RingInv

\* What waitScanData leaves in the batch
LEMMA ReadsBatch ==
  ASSUME Shapes, ScanTypes, NEW k \in 0..scan.count, NEW z \in Nat, NEW zero \in BOOLEAN,
         NEW d \in Nat, Read(k, z, zero, d)
  PROVE  /\ scan'.batch \in [1..Batch -> Nat]
         /\ d = 0 => \A i \in 1..k : scan'.batch[i] \in {0, device.sent + i}
         /\ scan'.damaged <=> k < scan.count \/ d # 0
         /\ scan'.pc = "process" /\ scan'.pos = 1 /\ scan'.count = scan.count
         /\ scan'.ring = scan.ring /\ scan'.synced = scan.synced /\ scan'.torn = scan.torn
<1> DEFINE b == [i \in 1..Batch |->
                   IF i > k THEN scan.batch[i]
                   ELSE IF i = z /\ zero THEN 0
                   ELSE device.sent + i + (IF i < z THEN 0 ELSE d)]
<1>1. scan' = [scan EXCEPT !.batch = b, !.pc = "process", !.pos = 1,
                           !.damaged = k < scan.count \/ d # 0]
  BY DEF Read
<1>2. b \in [1..Batch -> Nat] /\ (d = 0 => \A i \in 1..k : b[i] \in {0, device.sent + i})
  <2>1. Batch \in Nat /\ device.sent \in Nat /\ k \in 0..Batch
        /\ \A i \in 1..Batch : scan.batch[i] \in Nat
    BY DriverAssumption DEF ScanTypes
  <2>2. \A i \in 1..Batch : device.sent + i + (IF i < z THEN 0 ELSE d) \in Nat
    BY <2>1
  <2>3. b \in [1..Batch -> Nat]
    BY <2>1, <2>2
  <2>4. ASSUME d = 0, NEW i \in 1..k PROVE b[i] \in {0, device.sent + i}
    <3>1. i \in 1..Batch /\ ~(i > k)
      BY <2>1
    <3>2. device.sent + i + (IF i < z THEN 0 ELSE d) = device.sent + i
      BY <2>1, <2>4
    <3> QED BY <3>1, <3>2
  <2> QED BY <2>3, <2>4
<1> HIDE DEF b
<1> QED BY <1>1, <1>2 DEF Shapes

\* A batch comes whole, or with a corrupt or dropped package, ...
LEMMA BatchStep == ASSUME Shapes, ScanInv, ScanBatch PROVE ScanInv'
<1>0. scan.pc = "loop" /\ scan.count \in Nat \ {0} /\ device.sent \in Nat
  BY DEF ScanBatch, ScanInv, ScanTypes
<1>1. PICK d \in Dropped(scan.count) :
        /\ \/ Read(scan.count, 0, FALSE, 0) /\ d = 0
           \/ \E z \in 1..scan.count, zero \in BOOLEAN : Read(scan.count, z, zero, d)
        /\ Received(scan.count + d)
  BY DEF ScanBatch
<1>2. d \in Nat
  BY DriverAssumption DEF Dropped
<1>3. PICK z \in Nat, zero \in BOOLEAN : Read(scan.count, z, zero, d)
  <2>1. CASE Read(scan.count, 0, FALSE, 0) /\ d = 0
    BY <2>1
  <2>2. CASE \E z \in 1..scan.count, zero \in BOOLEAN : Read(scan.count, z, zero, d)
    BY <1>0, <2>2
  <2> QED BY <1>1, <2>1, <2>2
<1>4. device'.sent = device.sent + scan.count + d
  BY <1>0, <1>1, <1>2 DEF Received, Shapes
<1>5. /\ scan'.batch \in [1..Batch -> Nat]
      /\ d = 0 => \A i \in 1..scan.count : scan'.batch[i] \in {0, device.sent + i}
      /\ scan'.damaged <=> d # 0
      /\ scan'.pc = "process" /\ scan'.pos = 1 /\ scan'.count = scan.count
      /\ scan'.ring = scan.ring /\ scan'.synced = scan.synced /\ scan'.torn = scan.torn
  BY <1>0, <1>2, <1>3, ReadsBatch DEF ScanInv
<1>6. ScanTypes'
  BY <1>0, <1>2, <1>4, <1>5 DEF ScanInv, ScanTypes
<1>7. BatchInv'
  BY <1>0, <1>4, <1>5 DEF ScanInv, ScanTypes, BatchInv
<1>8. RingInv'
  <2>1. ~scan'.damaged => Coming' = Coming
    BY <1>0, <1>4, <1>5 DEF Coming
  <2> QED BY <1>0, <1>5, <2>1 DEF ScanInv, RingInv, Revolution
<1> QED BY <1>6, <1>7, <1>8 DEF ScanInv

\* ... or in part: then its rest is gone through again.
LEMMA TimeoutStep == ASSUME Shapes, ScanInv, ScanTimeout PROVE ScanInv'
<1>1. PICK k \in 0..Smaller(scan.count - 1, Available) : \E d \in Dropped(k) :
        Read(k, 0, FALSE, 0) /\ Received(k + d)
  BY DEF ScanTimeout
<1>2. PICK d \in Nat : Read(k, 0, FALSE, 0) /\ Received(k + d)
  <2>1. \A d \in Dropped(k) : d \in Nat
    BY DriverAssumption DEF Dropped
  <2> QED BY <1>1, <2>1, Zenon
<1>3. k \in 0..(scan.count - 1)
  BY DriverAssumption DEF Smaller, Available, ScanInv, ScanTypes
<1>4. scan.pc = "loop" /\ device'.sent = device.sent + (k + d)
  BY <1>2 DEF ScanTimeout, Received, Shapes
<1>5. /\ scan'.batch \in [1..Batch -> Nat]
      /\ scan'.pc = "process" /\ scan'.pos = 1 /\ scan'.count = scan.count /\ scan'.damaged
      /\ scan'.ring = scan.ring /\ scan'.synced = scan.synced /\ scan'.torn = scan.torn
  <2>1. k \in 0..scan.count /\ k < scan.count
    BY <1>3 DEF ScanInv, ScanTypes
  <2> QED BY <1>2, <2>1, ReadsBatch DEF ScanInv
<1>6. ScanTypes'
  BY <1>3, <1>4, <1>5 DEF ScanInv, ScanTypes
<1>7. BatchInv'
  BY <1>5 DEF BatchInv
<1>8. RingInv'
  BY <1>4, <1>5 DEF ScanInv, RingInv, Revolution
<1> QED BY <1>6, <1>7, <1>8 DEF ScanInv

\* The ring takes a node until it is full.
LEMMA NodeIsAppended ==
  ASSUME NEW ring \in Seq(Nat), Len(ring) < MaxNodes, NEW node \in Nat
  PROVE  /\ AppendNode(ring, node) \in Seq(Nat) /\ Len(AppendNode(ring, node)) < MaxNodes
         /\ \/ /\ AppendNode(ring, node) = Append(ring, node)
               /\ Len(AppendNode(ring, node)) = Len(ring) + 1
            \/ AppendNode(ring, node) = ring /\ Len(ring) = MaxNodes - 1
  BY DriverAssumption DEF AppendNode

\* A revolution goes on with its next sample, or with a corrupt one.
LEMMA RevolutionGrows ==
  ASSUME NEW ring \in Seq(Nat), Len(ring) >= 1, Revolution(ring, Len(ring)),
         NEW node \in Nat, ~Sync(node), node \in {0, ring[1] + Len(ring)}
  PROVE  Revolution(Append(ring, node), Len(ring) + 1)
<1>1. Append(ring, node)[Len(ring) + 1] = node
      /\ \A i \in 1..Len(ring) : Append(ring, node)[i] = ring[i]
  OBVIOUS
<1>2. Append(ring, node)[1] = ring[1]
  BY <1>1
<1>3. ring[1] \in Nat
  OBVIOUS
<1> QED BY <1>1, <1>2, <1>3 DEF Revolution

\* What each node of a batch does, wherever the ring begins
LEMMA TakesNode ==
  ASSUME Shapes, ScanTypes, scan.pc = "process",
         NEW ring \in Seq(Nat), Len(ring) < MaxNodes, NEW torn,
         NextNode(ring, torn), UNCHANGED device
  PROVE  /\ scan.batch[scan.pos] \in Nat
         /\ scan'.ring = AppendNode(ring, scan.batch[scan.pos]) /\ scan'.torn = torn
         /\ scan'.synced <=> (scan.synced \/ Sync(scan.batch[scan.pos]))
         /\ scan'.count = scan.count /\ scan'.batch = scan.batch /\ scan'.damaged = scan.damaged
         /\ scan'.pc \in {"process", "beat", "loop"}
         /\ ScanTypes' /\ Coming' = Coming + 1
<1>1. /\ scan.pos \in 1..scan.count /\ scan.count \in 0..Batch
      /\ scan.batch[scan.pos] \in Nat /\ device.sent \in Nat
  BY DriverAssumption, SMTT(30) DEF ScanTypes
<1>2. /\ scan'.ring = AppendNode(ring, scan.batch[scan.pos]) /\ scan'.torn = torn
      /\ scan'.synced <=> (scan.synced \/ Sync(scan.batch[scan.pos]))
      /\ scan'.count = scan.count /\ scan'.batch = scan.batch /\ scan'.damaged = scan.damaged
  BY DEF NextNode, Shapes
<1>3. \/ scan.pos < scan.count /\ scan'.pc = "process" /\ scan'.pos = scan.pos + 1
      \/ scan.pos = scan.count /\ scan'.pc \in {"beat", "loop"}
  BY <1>1 DEF NextNode, Shapes
<1>4. scan'.ring \in Seq(Nat) /\ Len(scan'.ring) < MaxNodes
  BY <1>1, <1>2, NodeIsAppended
<1>5. ScanTypes'
  BY <1>1, <1>2, <1>3, <1>4 DEF ScanTypes
<1>6. Coming' = Coming + 1
  <2>1. Coming = device.sent - scan.count + scan.pos /\ device'.sent = device.sent
    BY DEF Coming
  <2>2. CASE scan.pos < scan.count /\ scan'.pc = "process" /\ scan'.pos = scan.pos + 1
    <3>1. Coming' = device'.sent - scan'.count + scan'.pos
      BY <2>2 DEF Coming
    <3> QED BY <1>1, <1>2, <2>1, <2>2, <3>1
  <2>3. CASE scan.pos = scan.count /\ scan'.pc \in {"beat", "loop"}
    <3>1. Coming' = device'.sent + 1
      BY <2>3 DEF Coming
    <3> QED BY <1>1, <2>1, <2>3, <3>1
  <2> QED BY <1>3, <2>2, <2>3
<1> QED BY <1>1, <1>2, <1>3, <1>5, <1>6

\* The node looked at is the one that comes, or corrupt.
LEMMA NodeIsComing ==
  ASSUME ScanInv, scan.pc = "process", ~scan.damaged
  PROVE  scan.batch[scan.pos] \in {0, Coming}
  BY DEF ScanInv, ScanTypes, BatchInv, Coming

\* A corrupt node has no sync bit.
LEMMA ZeroIsNoSync == ~Sync(0)
  BY DriverAssumption DEF Sync

\* A node without the sync bit joins the ring.
LEMMA NodeStep == ASSUME Shapes, ScanInv, ScanNode PROVE ScanInv'
<1> DEFINE node == scan.batch[scan.pos]
<1>1. /\ scan.pc = "process" /\ ~Sync(node)
      /\ NextNode(scan.ring, scan.torn \/ scan.damaged) /\ UNCHANGED device
  BY DEF ScanNode
<1>2. /\ node \in Nat
      /\ scan'.ring = AppendNode(scan.ring, node) /\ scan'.torn = (scan.torn \/ scan.damaged)
      /\ scan'.synced <=> (scan.synced \/ Sync(node))
      /\ scan'.count = scan.count /\ scan'.batch = scan.batch /\ scan'.damaged = scan.damaged
      /\ scan'.pc \in {"process", "beat", "loop"}
      /\ ScanTypes' /\ Coming' = Coming + 1
  BY <1>1, TakesNode DEF ScanInv, ScanTypes
<1>3. BatchInv'
  BY <1>1, <1>2 DEF ScanInv, BatchInv
<1>4. ASSUME scan'.synced, ~scan'.torn
      PROVE  /\ Len(scan'.ring) >= 1 /\ Revolution(scan'.ring, Len(scan'.ring))
             /\ Coming' = scan'.ring[1] + Len(scan'.ring) \/ Len(scan'.ring) = MaxNodes - 1
  <2>1. scan.synced /\ ~scan.torn /\ ~scan.damaged
    BY <1>1, <1>2, <1>4
  <2>2. /\ Len(scan.ring) >= 1 /\ Revolution(scan.ring, Len(scan.ring))
        /\ Coming = scan.ring[1] + Len(scan.ring) \/ Len(scan.ring) = MaxNodes - 1
    BY <1>1, <2>1 DEF ScanInv, RingInv
  <2>3. scan.ring \in Seq(Nat) /\ Len(scan.ring) < MaxNodes /\ node \in {0, Coming}
    BY <1>1, <2>1, NodeIsComing DEF ScanInv, ScanTypes
  <2>4. CASE scan'.ring = scan.ring /\ Len(scan.ring) = MaxNodes - 1
    BY <2>2, <2>4
  <2>5. CASE scan'.ring = Append(scan.ring, node) /\ Len(scan.ring) # MaxNodes - 1
    <3>1. Revolution(scan'.ring, Len(scan.ring) + 1)
      BY <1>1, <1>2, <2>2, <2>3, <2>5, RevolutionGrows
    <3>2. /\ Len(scan'.ring) = Len(scan.ring) + 1
          /\ scan'.ring[1] = scan.ring[1] /\ scan.ring[1] \in Nat
      BY <1>2, <2>2, <2>3, <2>5
    <3> QED BY <1>2, <2>2, <2>3, <2>5, <3>1, <3>2
  <2> QED BY <1>2, <2>3, <2>4, <2>5, DriverAssumption DEF AppendNode
<1>5. RingInv'
  BY <1>2, <1>4 DEF RingInv
<1> QED BY <1>2, <1>3, <1>5 DEF ScanInv

\* A node with it begins one.
LEMMA RingStarts ==
  ASSUME Shapes, ScanInv, scan.pc = "process", Sync(scan.batch[scan.pos]),
         NextNode(<<>>, scan.damaged), UNCHANGED device
  PROVE  ScanInv'
<1> DEFINE node == scan.batch[scan.pos]
<1>0. <<>> \in Seq(Nat) /\ Len(<<>>) < MaxNodes
  BY DriverAssumption
<1>1. /\ node \in Nat
      /\ scan'.ring = AppendNode(<<>>, node) /\ scan'.torn = scan.damaged
      /\ scan'.synced
      /\ scan'.count = scan.count /\ scan'.batch = scan.batch /\ scan'.damaged = scan.damaged
      /\ scan'.pc \in {"process", "beat", "loop"}
      /\ ScanTypes' /\ Coming' = Coming + 1
  BY <1>0, TakesNode DEF ScanInv
<1>2. scan'.ring = <<node>> /\ Len(scan'.ring) = 1 /\ scan'.ring[1] = node
  BY <1>1, DriverAssumption DEF AppendNode
<1>3. BatchInv'
  BY <1>1 DEF ScanInv, BatchInv
<1>4. Revolution(scan'.ring, Len(scan'.ring))
  BY <1>2 DEF Revolution
<1>5. ~scan.damaged => Coming' = scan'.ring[1] + Len(scan'.ring)
  BY <1>1, <1>2, NodeIsComing, ZeroIsNoSync
<1>6. RingInv'
  BY <1>1, <1>2, <1>4, <1>5 DEF RingInv
<1> QED BY <1>1, <1>3, <1>6 DEF ScanInv

\* All steps of the scan thread
LEMMA ScanThreadStep == ASSUME Shapes, ScanInv, ScanThread PROVE ScanInv'
<1>1. CASE ScanFirst
  BY <1>1, FirstStep
<1>2. CASE ScanBatch
  BY <1>2, BatchStep
<1>3. CASE ScanTimeout
  BY <1>3, TimeoutStep
<1>4. CASE ScanFails \/ ScanEnds
  <2>1. scan' = NewScan /\ device' = device
    BY <1>4 DEF ScanFails, ScanEnds
  <2> QED BY <2>1, NewScanStarts DEF ScanInv, ScanTypes
<1>5. CASE ScanNode
  BY <1>5, NodeStep
<1>6. CASE ScanFirstSync \/ ScanPublish
  BY <1>6, RingStarts DEF ScanFirstSync, ScanPublish
<1>7. CASE ScanBeat
  BY <1>7 DEF ScanBeat, Shapes, ScanInv, ScanTypes, BatchInv, RingInv, Coming, Revolution
<1> QED BY <1>1, <1>2, <1>3, <1>4, <1>5, <1>6, <1>7 DEF ScanThread

-----------------------------------------------------------------------------
(* What is published                                                       *)

\* What waits to be taken was not taken before, and is a revolution, or fills the
\* reader's array, if it is not torn
BufInv ==
  /\ shared.nodes \in 0..(MaxNodes - 1) /\ shared.buf \in [1..MaxNodes -> Nat]
  /\ shared.nodes # 0 => ~history.taken
  /\ (shared.nodes # 0 /\ ~history.torn) =>
       Revolution(shared.buf, shared.nodes) /\ Smaller(Ring, NodeCount) <= shared.nodes

\* Nothing is published at first.
LEMMA BufStart == LidarInit => BufInv
<1> SUFFICES ASSUME LidarInit PROVE BufInv
  OBVIOUS
<1>1. shared = NewShared
  BY DEF LidarInit, DriverInit
<1> QED BY <1>1, DriverAssumption DEF NewShared, BufInv

\* Steps of others leave the buffer alone,
LEMMA BufRests ==
  ASSUME BufInv, UNCHANGED <<shared.buf, shared.nodes, history>>
  PROVE  BufInv'
  BY DEF BufInv, Revolution

\* and that of a new driver is empty.
LEMMA BufIsNew == ASSUME shared' = NewShared PROVE BufInv'
  BY DriverAssumption DEF BufInv, NewShared

\* The remainder of a division
LEMMA Division ==
  ASSUME NEW R \in Nat \ {0}, NEW n \in Nat
  PROVE  n \div R \in Nat /\ n = R * (n \div R) + (n % R)
  OBVIOUS

\* Between two samples with the sync bit there is a revolution at least, ...
LEMMA NextSync ==
  ASSUME NEW n \in Nat, NEW k \in Nat \ {0}, Sync(n), Sync(n + k)
  PROVE  k >= Ring
<1> DEFINE a == n \div Ring
           b == (n + k) \div Ring
<1>1. a \in Nat /\ b \in Nat /\ n = Ring * a + 1 /\ n + k = Ring * b + 1
  <2>1. n + k \in Nat /\ Ring \in Nat \ {0}
    BY DriverAssumption
  <2> QED BY <2>1, Division DEF Sync
<1> HIDE DEF a, b
<1>2. b > a
  <2> SUFFICES ASSUME b <= a PROVE FALSE
    BY <1>1
  <2>1. PICK d \in Nat : a = b + d
    BY <1>1
  <2>2. Ring * a = Ring * b + Ring * d /\ Ring * d >= 0
    BY <1>1, <2>1, DriverAssumption
  <2> QED BY <1>1, <2>2, DriverAssumption
<1>3. PICK d \in Nat \ {0} : b = a + d
  BY <1>1, <1>2
<1>4. Ring * b = Ring * a + Ring * d /\ Ring * d >= Ring
  BY <1>1, <1>3, DriverAssumption
<1> QED BY <1>1, <1>4, DriverAssumption

\* ... and a revolution later there is one.
LEMMA SyncRecurs ==
  ASSUME NEW n \in Nat, Sync(n)
  PROVE  Sync(n + Ring)
<1> DEFINE a == n \div Ring
           b == (n + Ring) \div Ring
           r == (n + Ring) % Ring
<1>1. /\ a \in Nat /\ b \in Nat /\ r \in 0..(Ring - 1) /\ Ring \in Nat \ {0, 1}
      /\ n = Ring * a + 1 /\ n + Ring = Ring * b + r
  <2>1. n + Ring \in Nat /\ Ring \in Nat \ {0, 1}
    BY DriverAssumption
  <2>2. r \in 0..(Ring - 1)
    BY <2>1
  <2> QED BY <2>1, <2>2, Division DEF Sync
<1>2. r = (n + Ring) % Ring
  OBVIOUS
<1> HIDE DEF a, b, r
<1>3. Ring * (a + 1) + 1 = Ring * b + r
  BY <1>1
<1>4. CASE b = a + 1
  BY <1>1, <1>2, <1>3, <1>4 DEF Sync
<1>5. CASE b > a + 1
  <2>1. PICK d \in Nat \ {0} : b = a + 1 + d
    BY <1>1, <1>5
  <2>2. Ring * b = Ring * (a + 1) + Ring * d /\ Ring * d >= Ring
    BY <1>1, <2>1
  <2> QED BY <1>1, <1>3, <2>2
<1>6. CASE b < a + 1
  <2>1. PICK d \in Nat \ {0} : a + 1 = b + d
    BY <1>1, <1>6
  <2>2. Ring * (a + 1) = Ring * b + Ring * d /\ Ring * d >= Ring
    BY <1>1, <2>1
  <2> QED BY <1>1, <1>3, <2>2
<1> QED BY <1>1, <1>4, <1>5, <1>6

\* What is copied to the buffer is one.
LEMMA PublishStep == ASSUME Shapes, ScanInv, BufInv, ScanPublish PROVE BufInv'
<1>1. /\ scan.pc = "process" /\ Sync(scan.batch[scan.pos]) /\ scan.synced
      /\ shared' = [shared EXCEPT
          !.buf = [i \in 1..MaxNodes |-> IF i <= Len(scan.ring) THEN scan.ring[i] ELSE @[i]],
          !.nodes = Len(scan.ring),
          !.event = TRUE]
      /\ history' = [taken |-> FALSE, torn |-> scan.torn \/ scan.damaged]
  BY DEF ScanPublish
<1>2. scan.ring \in Seq(Nat) /\ Len(scan.ring) \in 0..(MaxNodes - 1)
  BY DriverAssumption DEF ScanInv, ScanTypes
<1>3. /\ shared'.nodes = Len(scan.ring)
      /\ shared'.buf = [i \in 1..MaxNodes |->
                          IF i <= Len(scan.ring) THEN scan.ring[i] ELSE shared.buf[i]]
      /\ ~history'.taken /\ (history'.torn <=> (scan.torn \/ scan.damaged))
  BY <1>1 DEF Shapes
<1>4. shared'.buf \in [1..MaxNodes -> Nat]
  <2>1. shared.buf \in [1..MaxNodes -> Nat] /\ \A i \in 1..Len(scan.ring) : scan.ring[i] \in Nat
    BY <1>2 DEF BufInv
  <2>2. \A i \in 1..MaxNodes : (IF i <= Len(scan.ring) THEN scan.ring[i] ELSE shared.buf[i]) \in Nat
    BY <1>2, <2>1, DriverAssumption
  <2> QED BY <1>3, <2>2
<1>5. ASSUME shared'.nodes # 0, ~history'.torn
      PROVE  Revolution(shared'.buf, shared'.nodes) /\ Smaller(Ring, NodeCount) <= shared'.nodes
  <2>1. ~scan.torn /\ ~scan.damaged
    BY <1>3, <1>5
  <2>2. /\ Len(scan.ring) >= 1 /\ Revolution(scan.ring, Len(scan.ring))
        /\ Coming = scan.ring[1] + Len(scan.ring) \/ Len(scan.ring) = MaxNodes - 1
    BY <1>1, <2>1 DEF ScanInv, RingInv
  <2>3. \A i \in 1..Len(scan.ring) : shared'.buf[i] = scan.ring[i]
    BY <1>2, <1>3, DriverAssumption
  <2>4. Revolution(shared'.buf, shared'.nodes)
    BY <1>2, <1>3, <2>2, <2>3, SMTT(30) DEF Revolution
  <2>5. CASE Coming = scan.ring[1] + Len(scan.ring)
    <3>1. scan.batch[scan.pos] = Coming
      BY <1>1, <2>1, NodeIsComing, ZeroIsNoSync
    <3>2. Sync(scan.ring[1]) /\ Sync(scan.ring[1] + Len(scan.ring)) /\ scan.ring[1] \in Nat
      BY <1>1, <1>2, <2>2, <2>5, <3>1 DEF Revolution
    <3>3. Len(scan.ring) >= Ring
      BY <1>2, <2>2, <3>2, NextSync
    <3> QED BY <1>2, <1>3, <2>4, <3>3, LidarAssumption, DriverAssumption DEF Smaller
  <2>6. CASE Len(scan.ring) = MaxNodes - 1
    BY <1>2, <1>3, <2>4, <2>6, LidarAssumption, DriverAssumption DEF Smaller
  <2> QED BY <2>2, <2>5, <2>6
<1> QED BY <1>2, <1>3, <1>4, <1>5 DEF BufInv

-----------------------------------------------------------------------------
(* What is taken                                                           *)

\* A step that leaves the scan and the buffer alone, and one that leaves what was
\* taken
Quiet == UNCHANGED <<scan, device.sent, shared.buf, shared.nodes, history>>
Untaken == UNCHANGED <<laser.size, laser.got, laser.gotTorn>>

\* Between the look at the count and the copy nothing was taken; and nothing was
\* published, if the copy is prompt
CopyInv ==
  /\ Run("copy") => ~history.taken
  /\ (Prompt /\ Run("copy")) =>
       /\ shared.nodes # 0 /\ laser.size = Smaller(NodeCount, shared.nodes)
       /\ laser.gotTorn = history.torn
  /\ at["run"] \in {"loop", "crashed"} \/ laser.got = <<>>

\* The run thread rests with the scan, empties the buffer with a new driver, or creates
\* the scan thread, or takes a scan.
LEMMA RunThreadDoes ==
  ASSUME Shapes, RunThread
  PROVE  \/ Quiet /\ Untaken /\ at'["run"] # "copy" /\ at["run"] \notin {"loop", "crashed"}
         \/ Quiet /\ laser'.got = <<>> /\ at'["run"] # "copy"
         \/ /\ UNCHANGED <<scan, device.sent, history, laser>> /\ shared' = NewShared
            /\ at'["run"] # "copy" /\ at["run"] \notin {"loop", "crashed"}
         \/ CreateThread \/ GrabSize \/ GrabCopy
<1> DEFINE Away == Quiet /\ Untaken /\ at'["run"] # "copy" /\ at["run"] \notin {"loop", "crashed"}
<1>1. CASE TopOfLoop
  BY <1>1, LidarAssumption DEF TopOfLoop, RunGoes, Go, Shapes, Quiet
<1>2. CASE CheckComms \/ NextBaud
  BY <1>2, LidarAssumption DEF CheckComms, NextBaud, Connect, Go, RunGoes, Run, NewDriver,
     Shapes, Quiet, Untaken
<1>3. ASSUME CheckHardware \/ CheckStatus \/ GetHealth \/ GetDeviceInfo \/ InfoMissing
             \/ BaudIsWrong \/ Rebaud
      PROVE  Away
  <2>1. CASE CheckHardware
    BY <2>1, LidarAssumption DEF CheckHardware, Go, RunGoes, Run, Shapes, Quiet, Untaken
  <2>2. CASE CheckStatus
    BY <2>2, LidarAssumption DEF CheckStatus, Go, RunGoes, Run, Shapes, Quiet, Untaken
  <2>3. CASE GetHealth
    BY <2>3, LidarAssumption DEF GetHealth, Go, RunGoes, Run, Shapes, Quiet, Untaken
  <2>4. CASE GetDeviceInfo
    BY <2>4, LidarAssumption DEF GetDeviceInfo, AfterInfo, Go, RunGoes, Run, Shapes, Quiet,
       Untaken
  <2>5. CASE InfoMissing
    BY <2>5, LidarAssumption DEF InfoMissing, AfterInfo, Go, RunGoes, Run, Shapes, Quiet,
       Untaken
  <2>6. CASE BaudIsWrong
    BY <2>6, LidarAssumption DEF BaudIsWrong, Go, RunGoes, Run, Shapes, Quiet, Untaken
  <2>7. CASE Rebaud
    BY <2>7, LidarAssumption DEF Rebaud, Stopped, Go, RunGoes, Run, Shapes, Quiet, Untaken
  <2> QED BY <1>3, <2>1, <2>2, <2>3, <2>4, <2>5, <2>6, <2>7
<1>4. ASSUME GetSamplingRate \/ SetSamplingRate \/ GetScanFrequency \/ StepScanFrequency
             \/ SetScanHeartbeat \/ SetLowExposure
      PROVE  Away
  BY <1>4, LidarAssumption DEF GetSamplingRate, SetSamplingRate, Cycled, GetScanFrequency,
     AfterRate, AfterInfo, StepScanFrequency, SetScanHeartbeat, SetLowExposure, Go,
     RunGoes, Run, Shapes, Quiet, Untaken
<1>5. ASSUME StartBegin \/ StartStopped \/ StartRate \/ StartScan \/ StartFlag \/ TurnOn \/ GrabWait
      PROVE  Away
  <2>1. CASE StartBegin
    BY <2>1, LidarAssumption DEF StartBegin, Go, RunGoes, Run, Shapes, Quiet, Untaken
  <2>2. CASE StartStopped
    BY <2>2, LidarAssumption DEF StartStopped, Stopped, Go, RunGoes, Run, Shapes, Quiet, Untaken
  <2>3. CASE StartRate
    BY <2>3, LidarAssumption DEF StartRate, Go, RunGoes, Run, Shapes, Quiet, Untaken
  <2>4. CASE StartScan
    BY <2>4, LidarAssumption DEF StartScan, Go, RunGoes, Run, Shapes, Quiet, Untaken
  <2>5. CASE StartFlag
    BY <2>5, LidarAssumption DEF StartFlag, Go, RunGoes, Run, Shapes, Quiet, Untaken
  <2>6. CASE TurnOn
    BY <2>6, LidarAssumption DEF TurnOn, Go, RunGoes, Run, Shapes, Quiet, Untaken
  <2>7. CASE GrabWait
    BY <2>7, LidarAssumption DEF GrabWait, Go, RunGoes, Run, Shapes, Quiet, Untaken
  <2> QED BY <1>5, <2>1, <2>2, <2>3, <2>4, <2>5, <2>6, <2>7
<1> QED BY <1>1, <1>2, <1>3, <1>4, <1>5 DEF RunThread

\* The other threads at most end the scan thread with the process.
LEMMA OthersDo ==
  ASSUME Shapes, StopThread \/ AppThread \/ \E t \in Threads : Called(t)
  PROVE  /\ UNCHANGED <<device.sent, shared.buf, shared.nodes, history>> /\ Untaken
         /\ scan' = scan \/ scan' = NewScan
         /\ at'["run"] = at["run"] \/ at'["run"] = "crashed"
<1> USE LidarAssumption DEF Shapes, Untaken
<1>1. CASE StopThread
  BY <1>1 DEF StopThread, Stop, TurnOff, Disconnect, Delete, Joined, Go, Stopped
<1>2. CASE AppThread
  BY <1>2, AppDoes DEF Setting, SettingEnds, Reset, Go
<1>3. ASSUME NEW t \in Threads, Called(t)
      PROVE  /\ UNCHANGED <<device.sent, shared.buf, shared.nodes, history>> /\ Untaken
             /\ scan' = scan \/ scan' = NewScan
             /\ at'["run"] = at["run"] \/ at'["run"] = "crashed"
  BY <1>3 DEF Called, Driver, Clear, Join, Crash
<1> QED BY <1>1, <1>2, <1>3

\* The scan thread publishes or leaves the buffer alone.
LEMMA ScanThreadDoes ==
  ASSUME Shapes, Driver(ScanThread)
  PROVE  /\ UNCHANGED <<at, laser>>
         /\ UNCHANGED <<shared.buf, shared.nodes, history>> \/ ScanPublish
  BY DEF Shapes, Driver, ScanThread, ScanFirst, ScanBatch, ScanTimeout, ScanFails,
     ScanEnds, ScanNode, ScanFirstSync, ScanPublish, ScanBeat

\* The scan thread's part of the invariant, ...
LEMMA ScanStep == ASSUME Shapes, ScanInv, Next PROVE ScanInv'
<1>0. device.sent \in Nat
  BY DEF ScanInv, ScanTypes
<1>1. CASE RunThread
  <2>1. CASE CreateThread
    BY <1>0, <2>1, NewScanStarts DEF CreateThread
  <2>2. CASE GrabSize \/ GrabCopy
    BY <2>2, ScanRests DEF GrabSize, GrabCopy
  <2> QED BY <1>1, <2>1, <2>2, RunThreadDoes, ScanRests DEF Quiet
<1>2. CASE Driver(ScanThread)
  BY <1>2, ScanThreadStep DEF Driver
<1>3. CASE StopThread \/ AppThread \/ \E t \in Threads : Called(t)
  BY <1>0, <1>3, OthersDo, ScanRests, NewScanStarts
<1> QED BY <1>1, <1>2, <1>3 DEF Next

\* ... the buffer's, ...
LEMMA BufStep == ASSUME Shapes, ScanInv, BufInv, Next PROVE BufInv'
<1>1. CASE RunThread
  <2>1. CASE CreateThread \/ GrabSize
    BY <2>1, BufRests DEF CreateThread, GrabSize
  <2>2. CASE GrabCopy
    <3>1. shared'.nodes = 0 /\ shared'.buf = shared.buf
      BY <2>2 DEF GrabCopy, Shapes
    <3> QED BY <3>1, DriverAssumption DEF BufInv
  <2> QED BY <1>1, <2>1, <2>2, RunThreadDoes, BufRests, BufIsNew DEF Quiet
<1>2. CASE Driver(ScanThread)
  BY <1>2, ScanThreadDoes, PublishStep, BufRests
<1>3. CASE StopThread \/ AppThread \/ \E t \in Threads : Called(t)
  BY <1>3, OthersDo, BufRests
<1> QED BY <1>1, <1>2, <1>3 DEF Next

\* Nothing is being copied at first ...
LEMMA CopyStart == LidarInit => CopyInv
  BY DEF LidarInit, CopyInv, Run

\* ... and the reader's part is kept.
LEMMA CopyStep == ASSUME Shapes, BufInv, CopyInv, Next PROVE CopyInv'
<1>1. CASE RunThread
  <2>1. CASE CreateThread
    BY <2>1, LidarAssumption DEF CreateThread, Shapes, CopyInv, Run, Go, RunGoes
  <2>2. CASE GrabSize
    BY <2>2, LidarAssumption DEF GrabSize, Shapes, BufInv, CopyInv, Run, Go, RunGoes
  <2>3. CASE GrabCopy
    BY <2>3, LidarAssumption DEF GrabCopy, Shapes, CopyInv, Run, Go, RunGoes
  <2> QED BY <1>1, <2>1, <2>2, <2>3, RunThreadDoes DEF Quiet, Untaken, CopyInv, Run
<1>2. CASE Driver(ScanThread)
  <2>1. CASE ScanPublish
    BY <1>2, <2>1, ScanThreadDoes DEF ScanPublish, CopyInv, Run
  <2> QED BY <1>2, <2>1, ScanThreadDoes DEF CopyInv, Run
<1>3. CASE StopThread \/ AppThread \/ \E t \in Threads : Called(t)
  BY <1>3, OthersDo DEF Untaken, CopyInv, Run
<1> QED BY <1>1, <1>2, <1>3 DEF Next

\* What grabScanData copies is a revolution, or as much as the reader has room for.
LEMMA TakenIsWhole == ASSUME Prompt, Shapes, BufInv, CopyInv, GrabCopy PROVE WholeScans'
<1>1. /\ laser'.got = SubSeq(shared.buf, 1, laser.size)
      /\ laser'.gotTorn <=> history.torn
      /\ shared.nodes # 0 /\ laser.size = Smaller(NodeCount, shared.nodes)
  BY DEF GrabCopy, Run, Shapes, CopyInv
<1>2. /\ shared.buf \in Seq(Nat) /\ Len(shared.buf) = MaxNodes
      /\ shared.nodes \in 1..(MaxNodes - 1) /\ laser.size \in 0..shared.nodes
  BY <1>1, LidarAssumption, DriverAssumption, SMTT(30) DEF BufInv, Smaller
<1>3. Len(laser'.got) = laser.size /\ \A i \in 1..laser.size : laser'.got[i] = shared.buf[i]
  BY <1>1, <1>2, DriverAssumption
<1>4. SUFFICES ASSUME laser'.got # <<>>, ~laser'.gotTorn,
                      \A i \in 1..laser.size : shared.buf[i] # 0
      PROVE  /\ Sync(laser'.got[1]) /\ Consecutive(laser'.got)
             /\ Len(laser'.got) = Smaller(Ring, NodeCount)
  BY <1>3 DEF WholeScans
<1>5. Revolution(shared.buf, shared.nodes) /\ Smaller(Ring, NodeCount) <= shared.nodes
  BY <1>1, <1>2, <1>4 DEF BufInv
<1>6. laser.size >= 1
  BY <1>1, <1>2, <1>3, <1>4
<1>7. shared.buf[1] \in Nat /\ Sync(shared.buf[1])
      /\ \A i \in 2..laser.size : shared.buf[i] = shared.buf[1] + i - 1 /\ ~Sync(shared.buf[i])
  BY <1>2, <1>4, <1>5, SMTT(30) DEF Revolution
<1>8. Consecutive(laser'.got)
  <2>1. \A i \in 1..laser.size : shared.buf[i] = shared.buf[1] + i - 1
    BY <1>2, <1>7
  <2>2. ASSUME NEW i \in 1..(Len(laser'.got) - 1)
        PROVE  laser'.got[i + 1] = laser'.got[i] + 1
    <3>1. i \in 1..laser.size /\ i + 1 \in 1..laser.size
      BY <1>2, <1>3
    <3>2. shared.buf[i] = shared.buf[1] + i - 1 /\ shared.buf[i + 1] = shared.buf[1] + (i + 1) - 1
      BY <2>1, <3>1
    <3>3. laser'.got[i] = shared.buf[i] /\ laser'.got[i + 1] = shared.buf[i + 1]
      BY <1>3, <3>1
    <3> QED BY <1>7, <3>2, <3>3
  <2> QED BY <2>2 DEF Consecutive
<1>9. laser.size <= Ring
  <2> SUFFICES ASSUME laser.size > Ring PROVE FALSE
    BY <1>2, DriverAssumption
  <2>1. Ring + 1 \in 2..laser.size
    BY <1>2, DriverAssumption
  <2>2. shared.buf[Ring + 1] = shared.buf[1] + Ring
    BY <1>7, <2>1, DriverAssumption
  <2> QED BY <1>7, <2>1, <2>2, SyncRecurs
<1>10. laser.size = Smaller(Ring, NodeCount)
  BY <1>1, <1>2, <1>5, <1>9, LidarAssumption, DriverAssumption DEF Smaller
<1> QED BY <1>3, <1>6, <1>7, <1>8, <1>10

\* What was taken stays so until the next is.
LEMMA WholeStep == ASSUME Prompt, Shapes, BufInv, CopyInv, WholeScans, Next PROVE WholeScans'
<1>0. UNCHANGED <<laser.got, laser.gotTorn>> => WholeScans'
  BY DEF WholeScans, Consecutive
<1>1. CASE RunThread
  <2>1. CASE CreateThread
    BY <1>0, <2>1 DEF CreateThread
  <2>2. CASE GrabSize
    <3>1. laser'.got = <<>>
      BY <2>2 DEF GrabSize, Run, Shapes, CopyInv
    <3> QED BY <3>1 DEF WholeScans
  <2>3. CASE GrabCopy
    BY <2>3, TakenIsWhole
  <2>4. CASE laser'.got = <<>>
    BY <2>4 DEF WholeScans
  <2> QED BY <1>0, <1>1, <2>1, <2>2, <2>3, <2>4, RunThreadDoes DEF Untaken
<1>2. CASE Driver(ScanThread)
  BY <1>0, <1>2 DEF Driver
<1>3. CASE StopThread \/ AppThread \/ \E t \in Threads : Called(t)
  BY <1>0, <1>3, OthersDo DEF Untaken
<1> QED BY <1>1, <1>2, <1>3 DEF Next

-----------------------------------------------------------------------------
(* The theorems                                                            *)

LidarInv == Shapes /\ ThreadInv /\ ScanInv /\ BufInv /\ CopyInv

\* The invariant holds of every behaviour.
LEMMA LidarInvariant == Spec => []LidarInv
<1>1. LidarInit => LidarInv
  BY ShapesStart, ThreadStart, ScanStart, BufStart, CopyStart DEF LidarInv
<1>2. LidarInv /\ [Next]_vars => LidarInv'
  <2>1. CASE Next
    BY <2>1, ShapesStep, ThreadStep, ScanStep, BufStep, CopyStep DEF LidarInv
  <2>2. CASE UNCHANGED vars
    <3>1. UNCHANGED <<driver, shared, scan, at, phase, device, history, laser, running>>
      BY <2>2 DEF vars, driverVars
    <3>2. (Shapes /\ ThreadInv => Shapes' /\ ThreadInv') /\ (ScanInv => ScanInv')
      BY <3>1, ScanRests DEF Shapes, ThreadInv
    <3>3. (BufInv => BufInv') /\ (CopyInv => CopyInv')
      BY <3>1 DEF BufInv, Revolution, CopyInv, Run
    <3> QED BY <3>2, <3>3 DEF LidarInv
  <2> QED BY <2>1, <2>2
<1> QED BY <1>1, <1>2, PTL DEF Spec

\* Of disableDataGrabbing and createThread: a scan thread is created only when none
\* runs, whatever the thread that stops the lidar does meanwhile.
THEOREM NoTwoScanThreads == Spec => []OneScanThread
<1>1. LidarInv => OneScanThread
  BY DEF LidarInv, ThreadInv, Creating, OneScanThread, Run
<1> QED BY <1>1, LidarInvariant, PTL

\* Of grabScanData: no scan is handed out a second time, however long the reader
\* takes between its steps.
THEOREM NoScanIsTakenTwice == Spec => []NoScanTwice
<1>1. LidarInv => NoScanTwice
  BY DEF LidarInv, CopyInv, NoScanTwice
<1> QED BY <1>1, LidarInvariant, PTL

\* Of cacheScanData and grabScanData: if the reader copies a scan before the device
\* has sent the next, it gets each once, and whole.
THEOREM ScansAreOnceAndWhole == Prompt => (Spec => []ScansOnceAndWhole)
<1> SUFFICES ASSUME Prompt PROVE Spec => []ScansOnceAndWhole
  OBVIOUS
<1>1. LidarInit => WholeScans
  BY DEF LidarInit, WholeScans
<1>2. LidarInv /\ WholeScans /\ [Next]_vars => WholeScans'
  <2>1. CASE Next
    BY <2>1, WholeStep DEF LidarInv
  <2>2. CASE UNCHANGED vars
    BY <2>2 DEF vars, driverVars, WholeScans, Consecutive
  <2> QED BY <2>1, <2>2
<1>3. LidarInv /\ WholeScans => ScansOnceAndWhole
  BY DEF LidarInv, CopyInv, NoScanTwice, ScansOnceAndWhole
<1> QED BY <1>1, <1>2, <1>3, LidarInvariant, PTL DEF Spec
=============================================================================
