-------------------------------- MODULE Lidar --------------------------------
(***************************************************************************)
(* The three users of the lidar driver: the example's thread, which runs   *)
(* Lidar::run and with it CYdLidar (connect, try the baud rates, configure *)
(* the device, start the scan, take scans); the thread that calls          *)
(* Lidar::stop; and a thread of the application that changes a setting of  *)
(* the singleton.                                                          *)
(***************************************************************************)
EXTENDS YdlidarDriver

CONSTANTS
    Bauds,        \* the rates checkStatus tries
    UserBaud,     \* the rate the user asked for
    IntensityBaud,\* 153600, at which the S4 reports intensities
    WantedRates,  \* _samp_rate for m_SampleRate: a rate, or Unknown (keep it)
    WantBeat,     \* m_HeartBeat
    NodeCount,    \* node_counts
    MaxHz,        \* most steps of one hertz that checkScanFrequency makes
    MaxBad,       \* failures of setSamplingRate after which it is given up
    MaxCalls      \* bound: settings the application changes

ASSUME LidarAssumption ==
    /\ Threads = {"run", "stop", "app"}
    /\ UserBaud \in Nat /\ Bauds \subseteq Nat /\ IntensityBaud \in Bauds
    /\ WantBeat \in BOOLEAN
    /\ NodeCount \in Nat /\ NodeCount < MaxNodes /\ MaxHz \in Nat /\ MaxBad \in Nat /\ MaxCalls \in Nat

VARIABLES
    laser,     \* turnedOn: CYdLidar's isScanning; the local variables of run's
               \* calls: rates tried, health answered, what is left of a loop,
               \* size_to_copy; and the scan last taken
    calls

vars == <<driverVars, laser, running, calls>>

LidarInit ==
    /\ DriverInit
    /\ baud = UserBaud
    /\ at = [run |-> "loop", stop |-> "idle", app |-> "idle"]
    /\ phase = [t \in Threads |-> "begin"]
    /\ laser = [turnedOn |-> FALSE, tried |-> {}, healthy |-> FALSE, left |-> 0,
                size |-> 0, got |-> <<>>, gotTorn |-> FALSE, wanted |-> Unknown]
    /\ running = FALSE /\ calls = 0

\* a thread that is within a call of a deleted driver does not come out of it
Unused == \A t \in Threads : phase[t] = "begin"

Run(p) == at["run"] = p
RunGoes(p) == Go("run", p)

-----------------------------------------------------------------------------
(* The run thread: checkHardware                                           *)

TopOfLoopUnchecked ==
    /\ Run("loop")
    /\ RunGoes("hardware")
    /\ laser' = [laser EXCEPT !.tried = {}, !.got = <<>>, !.gotTorn = FALSE]
    /\ UNCHANGED <<driver, baud, shared, scan, device, faults, history, running, calls>>

TopOfLoop ==
    /\ Run("loop")
    /\ RunGoes(IF running THEN "ended" ELSE "hardware")
    /\ laser' = [laser EXCEPT !.tried = {}, !.got = <<>>, !.gotTorn = FALSE]
    /\ UNCHANGED <<driver, baud, shared, scan, device, faults, history, running, calls>>

CheckHardware ==
    /\ Run("hardware")
    /\ RunGoes(IF laser.turnedOn THEN "grab" ELSE "comms")
    /\ UNCHANGED <<driver, baud, shared, scan, device, faults, history, laser, running, calls>>

\* checkCOMMs: a driver is made if there is none, and connected, if it is not
Connect(q, ok, failed) ==
    IF q.connected THEN driver' = q /\ RunGoes(ok) /\ faults' = faults
    ELSE \/ driver' = [q EXCEPT !.connected = TRUE] /\ RunGoes(ok) /\ faults' = faults
         \/ driver' = q /\ RunGoes(failed) /\ Fault

CheckComms ==
    /\ Run("comms") /\ (driver.alive \/ Unused)
    /\ Connect(IF driver.alive THEN driver ELSE NewDriver(FALSE), "status", "loop")
    /\ shared' = IF driver.alive THEN shared ELSE NewShared
    /\ UNCHANGED <<baud, scan, device, history, laser, running, calls>>

CheckStatus ==
    /\ Run("status")
    /\ RunGoes(IF ~driver.alive THEN "loop" ELSE IF driver.scanning THEN "turnOn" ELSE "health")
    /\ laser' = [laser EXCEPT !.tried = {}]
    /\ UNCHANGED <<driver, baud, shared, scan, device, faults, history, running, calls>>

GetHealth ==
    /\ Run("health")
    /\ \/ /\ Answered("run")
          /\ \E good \in BOOLEAN : laser' = [laser EXCEPT !.healthy = good]
       \/ Unanswered("run") /\ laser' = [laser EXCEPT !.healthy = FALSE]
       \/ /\ phase["run"] = "begin" /\ ~driver.alive
          /\ laser' = [laser EXCEPT !.healthy = FALSE]
          /\ UNCHANGED faults
    /\ RunGoes("info")
    /\ UNCHANGED <<driver, baud, shared, scan, device, history, running, calls>>

\* the end of getDeviceInfo: type is an S4 with intensities, or not
AfterInfo(type) == IF type = 4 /\ baud = IntensityBaud THEN "exposure" ELSE "start"

GetDeviceInfo ==
    /\ Run("info") /\ Answered("run")
    /\ driver' = [driver EXCEPT !.model = device.model]
    /\ \E w \in WantedRates \ (IF device.model = 5 THEN {} ELSE {2}) :
          laser' = [laser EXCEPT !.left = IF AfterInfo(device.model) = "exposure" THEN 3 ELSE MaxBad,
                                 !.wanted = w]
    /\ RunGoes(CASE device.model \in {5, 6, 8} -> "rateGet"
                 [] device.model = 9 -> "freqGet"
                 [] OTHER -> AfterInfo(device.model))
    /\ UNCHANGED <<baud, shared, scan, device, history, running, calls>>

NoInfo ==
    \/ Unanswered("run")
    \/ phase["run"] = "begin" /\ ~driver.alive /\ UNCHANGED faults

\* with a good health the type is used that was not read: a variable with any value
InfoMissing ==
    /\ Run("info") /\ NoInfo /\ laser.healthy
    /\ \E type \in Models \cup {4} :
          /\ RunGoes(AfterInfo(type))
          /\ laser' = [laser EXCEPT !.left = 3]
    /\ UNCHANGED <<driver, baud, shared, scan, device, history, running, calls>>

BaudIsWrong ==
    /\ Run("info") /\ NoInfo /\ ~laser.healthy
    /\ laser' = [laser EXCEPT !.tried = @ \cup {baud}]
    /\ RunGoes(IF Bauds \subseteq laser'.tried THEN "loop" ELSE "rebaud")
    /\ UNCHANGED <<driver, baud, shared, scan, device, history, running, calls>>

\* disconnect and done.  The destructor waits for the scan thread as disconnect does
Rebaud ==
    /\ Run("rebaud")
    /\ \/ Stopped("run")
       \/ /\ phase["run"] = "begin" /\ driver.alive /\ ~driver.connected
          /\ driver.thread = "live" => scan.pc = "exited"
          /\ device' = device
    /\ driver' = NoDriver
    /\ RunGoes("next")
    /\ UNCHANGED <<baud, shared, scan, faults, history, laser, running, calls>>

NextBaudUnset ==
    /\ Run("next") /\ Unused
    /\ Connect(NewDriver(FALSE), "health", "loop")
    /\ shared' = NewShared
    /\ UNCHANGED <<baud, scan, device, history, laser, running, calls>>

\* initDriver, and the connection at the least rate not tried
NextBaud ==
    /\ Run("next") /\ Unused
    /\ baud' = CHOOSE b \in Bauds \ laser.tried : \A c \in Bauds \ laser.tried : b <= c
    /\ Connect(NewDriver(FALSE), "health", "loop")
    /\ shared' = NewShared
    /\ UNCHANGED <<scan, device, history, laser, running, calls>>

-----------------------------------------------------------------------------
(* getDeviceInfo, once the model is known                                  *)

AfterRate == IF driver.model = 6 THEN AfterInfo(6) ELSE "freqGet"

GetSamplingRate ==
    /\ Run("rateGet")
    /\ \/ /\ Answered("run")
          /\ driver' = [driver EXCEPT !.rate = device.rate]
          /\ RunGoes(IF laser.wanted \in {Unknown, device.rate} THEN AfterRate ELSE "rateSet")
       \/ Unanswered("run") /\ driver' = driver /\ RunGoes(AfterRate)
    /\ UNCHANGED <<baud, shared, scan, device, history, laser, running, calls>>

\* the device goes to its next rate and answers with it
Cycled == [device EXCEPT !.rate = (@ + 1) % (IF device.model = 5 THEN 3 ELSE 2)]

SetSamplingRate ==
    /\ Run("rateSet")
    /\ \/ /\ Answered("run")
          /\ device' = Cycled /\ driver' = [driver EXCEPT !.rate = Cycled.rate]
          /\ laser' = laser
          /\ RunGoes(IF Cycled.rate = laser.wanted THEN AfterRate ELSE "rateSet")
       \/ /\ Unanswered("run")
          /\ device' \in {device, Cycled} /\ driver' = driver
          /\ laser' = [laser EXCEPT !.left = @ - 1]
          /\ RunGoes(IF laser.left = 0 THEN AfterRate ELSE "rateSet")
    /\ UNCHANGED <<baud, shared, scan, history, running, calls>>

\* the difference to m_ScanFrequency, in hertz
GetScanFrequency ==
    /\ Run("freqGet")
    /\ \/ /\ Answered("run")
          /\ \E hz \in 0..MaxHz :
                /\ laser' = [laser EXCEPT !.left = hz]
                /\ RunGoes(IF hz = 0 THEN "beat" ELSE "freqStep")
       \/ Unanswered("run") /\ laser' = laser /\ RunGoes("beat")
    /\ UNCHANGED <<driver, baud, shared, scan, device, history, running, calls>>

\* setScanFrequencyAdd or Dis, so many times, whatever they return
StepScanFrequency ==
    /\ Run("freqStep") /\ (Answered("run") \/ Unanswered("run"))
    /\ laser' = [laser EXCEPT !.left = @ - 1]
    /\ RunGoes(IF laser.left = 1 THEN "beat" ELSE "freqStep")
    /\ UNCHANGED <<driver, baud, shared, scan, device, history, running, calls>>

\* checkHeartBeat: each call toggles the device's flag and answers with it.  The
\* first answer that is as wanted is toggled away; with the opposite one
\* isHeartbeat is set
SetScanHeartbeat ==
    /\ at["run"] \in {"beat", "beatAgain"}
    /\ \/ /\ Answered("run")
          /\ device' = [device EXCEPT !.beat = ~@]
          /\ IF device'.beat = WantBeat
             THEN /\ RunGoes(IF Run("beat") THEN "beatAgain" ELSE AfterInfo(driver.model))
                  /\ driver' = driver
             ELSE /\ RunGoes(AfterInfo(driver.model))
                  /\ driver' = [driver EXCEPT !.heartbeat = WantBeat]
       \/ /\ Unanswered("run")
          /\ device' \in {device, [device EXCEPT !.beat = ~@]}
          /\ driver' = driver
          /\ RunGoes(AfterInfo(driver.model))
    /\ UNCHANGED <<baud, shared, scan, history, laser, running, calls>>

\* toggled until it answers the opposite of m_Exposure, four times at most
SetLowExposure ==
    /\ Run("exposure")
    /\ \/ /\ Answered("run")
          /\ \E done \in BOOLEAN : RunGoes(IF done \/ laser.left = 0 THEN "start" ELSE "exposure")
          /\ laser' = [laser EXCEPT !.left = @ - 1]
       \/ Unanswered("run") /\ RunGoes("start") /\ laser' = laser
    /\ UNCHANGED <<driver, baud, shared, scan, device, history, running, calls>>

-----------------------------------------------------------------------------
(* startScan: stop, what is slow to ask, the command, the thread           *)

StartBegin ==
    /\ Run("start") /\ driver.alive
    /\ RunGoes(IF ~driver.connected THEN "loop" ELSE IF driver.scanning THEN "turnOn" ELSE "start.stop")
    /\ laser' = [laser EXCEPT !.turnedOn = driver.connected /\ driver.scanning,
                              !.tried = {}, !.healthy = FALSE, !.left = 0, !.wanted = Unknown]
    /\ UNCHANGED <<driver, baud, shared, scan, device, faults, history, running, calls>>

StartStopped ==
    /\ Run("start.stop") /\ Stopped("run")
    /\ RunGoes(IF driver.model \in {5, 8} /\ driver.rate = Unknown THEN "start.rate" ELSE "start.scan")
    /\ UNCHANGED <<driver, baud, shared, scan, faults, history, laser, running, calls>>

\* a rate that was not read is a variable with any value
StartRate ==
    /\ Run("start.rate")
    /\ \/ Answered("run") /\ driver' = [driver EXCEPT !.rate = device.rate]
       \/ Unanswered("run") /\ \E r \in Rates \cup {Unknown} : driver' = [driver EXCEPT !.rate = r]
    /\ RunGoes("start.scan")
    /\ UNCHANGED <<baud, shared, scan, device, history, laser, running, calls>>

\* the command and its answer; _lock is kept.  Without an answer the device may
\* have begun to send
StartScan ==
    /\ Run("start.scan") /\ driver.alive /\ Free
    /\ IF ~driver.connected \/ baud # DeviceBaud
       THEN /\ RunGoes("loop")
            /\ laser' = [laser EXCEPT !.turnedOn = FALSE]
            /\ UNCHANGED <<shared, device, faults>>
       ELSE \/ /\ RunGoes("start.create")
               /\ shared' = [shared EXCEPT !.lock = "run"]
               /\ device' = [device EXCEPT !.spinning = TRUE]
               /\ UNCHANGED <<faults, laser>>
            \/ /\ RunGoes("loop") /\ Fault
               /\ laser' = [laser EXCEPT !.turnedOn = FALSE]
               /\ \E b \in BOOLEAN : device' = [device EXCEPT !.spinning = @ \/ b]
               /\ UNCHANGED shared
    /\ UNCHANGED <<driver, baud, scan, history, running, calls>>

CreateThread ==
    /\ Run("start.create") /\ driver.alive
    /\ driver' = [driver EXCEPT !.thread = "live"]
    /\ scan' = [NewScan EXCEPT !.pc = "first"]
    /\ RunGoes("start.flag")
    /\ UNCHANGED <<baud, shared, device, faults, history, laser, running, calls>>

\* isScanning goes up after the thread was started
StartFlag ==
    /\ Run("start.flag") /\ driver.alive
    /\ driver' = [driver EXCEPT !.scanning = TRUE]
    /\ shared' = [shared EXCEPT !.lock = "free"]
    /\ laser' = [laser EXCEPT !.turnedOn = TRUE]
    /\ RunGoes("turnOn")
    /\ UNCHANGED <<baud, scan, device, faults, history, running, calls>>

\* startMotor, if isScanning: a driver that scans when checkStatus looks leaves
\* the flag as it is
TurnOn ==
    /\ Run("turnOn")
    /\ laser.turnedOn => driver.alive /\ Free
    /\ RunGoes(IF laser.turnedOn THEN "grab" ELSE "loop")
    /\ UNCHANGED <<driver, baud, shared, scan, device, faults, history, laser, running, calls>>

-----------------------------------------------------------------------------
(* grabScanData: the event, the count without the lock, the copy with it   *)

GrabWait ==
    /\ Run("grab") /\ driver.alive
    /\ RunGoes(IF shared.event THEN "size" ELSE "loop")
    /\ shared' = [shared EXCEPT !.event = FALSE]
    /\ UNCHANGED <<driver, baud, scan, device, faults, history, laser, running, calls>>

GrabSize ==
    /\ Run("size") /\ driver.alive
    /\ RunGoes(IF shared.nodes = 0 THEN "loop" ELSE "copy")
    /\ laser' = [laser EXCEPT !.size = Smaller(NodeCount, shared.nodes), !.gotTorn = history.torn]
    /\ UNCHANGED <<driver, baud, shared, scan, device, faults, history, running, calls>>

GrabCopy ==
    /\ Run("copy") /\ driver.alive /\ Free
    /\ laser' = [laser EXCEPT !.got = SubSeq(shared.buf, 1, laser.size), !.size = 0,
                              !.gotTorn = @ \/ history.torn]
    /\ shared' = [shared EXCEPT !.nodes = 0]
    /\ history' = [history EXCEPT !.taken = TRUE]
    /\ RunGoes("loop")
    /\ UNCHANGED <<driver, baud, scan, device, faults, running, calls>>

RunThread ==
    \/ TopOfLoop \/ CheckHardware \/ CheckComms \/ CheckStatus \/ GetHealth \/ GetDeviceInfo \/ InfoMissing
    \/ BaudIsWrong \/ Rebaud \/ NextBaud \/ GetSamplingRate \/ SetSamplingRate \/ GetScanFrequency
    \/ StepScanFrequency \/ SetScanHeartbeat \/ SetLowExposure \/ StartBegin \/ StartStopped
    \/ StartRate \/ StartScan \/ CreateThread \/ StartFlag \/ TurnOn
    \/ GrabWait \/ GrabSize \/ GrabCopy

-----------------------------------------------------------------------------
(* Lidar::stop, and ~CYdLidar after the run thread was joined              *)

Stop ==
    /\ at["stop"] = "idle"
    /\ running' = TRUE
    /\ Go("stop", IF driver.alive THEN "off" ELSE "join")
    /\ UNCHANGED <<driver, baud, shared, scan, device, faults, history, laser, calls>>

TurnOff ==
    /\ at["stop"] = "off" /\ Stopped("stop")
    /\ laser' = [laser EXCEPT !.turnedOn = FALSE]
    /\ Go("stop", "disc")
    /\ UNCHANGED <<driver, baud, shared, scan, faults, history, running, calls>>

Disconnect ==
    /\ at["stop"] = "disc"
    /\ IF (driver.alive /\ driver.connected) \/ phase["stop"] # "begin"
       THEN Stopped("stop") /\ driver' = [driver EXCEPT !.connected = FALSE]
       ELSE UNCHANGED <<device, driver>>
    /\ Go("stop", IF driver.alive THEN "delete" ELSE "join")
    /\ UNCHANGED <<baud, shared, scan, faults, history, laser, running, calls>>

\* the destructor has put isScanning down and joined the thread
Delete ==
    /\ at["stop"] = "delete" /\ phase["stop"] = "send"
    /\ driver' = NoDriver
    /\ Go("stop", "join")
    /\ UNCHANGED <<baud, shared, scan, device, faults, history, laser, running, calls>>

Joined ==
    /\ at["stop"] = "join" /\ Run("ended")
    /\ Go("stop", IF driver.alive THEN "disc" ELSE "gone")
    /\ UNCHANGED <<driver, baud, shared, scan, device, faults, history, laser, running, calls>>

StopThread == Stop \/ TurnOff \/ Disconnect \/ Delete \/ Joined

-----------------------------------------------------------------------------
(* The settings: a request each, begun before the lidar is stopped         *)

Setting ==
    /\ at["app"] = "idle" /\ calls < MaxCalls /\ ~running /\ driver.alive
    /\ calls' = calls + 1
    /\ Go("app", "setting")
    /\ UNCHANGED <<driver, baud, shared, scan, device, faults, history, laser, running>>

SetScanFrequencyAddMic == Setting
SetScanFrequencyDisMic == Setting
SetRotationPositive == Setting
SetRotationInversion == Setting
EnableLowerPower == Setting
DisableLowerPower == Setting
GetMotorState == Setting
EnableConstFreq == Setting
DisableConstFreq == Setting
SetSaveLowExposure == Setting
SetLowExposureAdd == Setting
SetLowExposurerDis == Setting
SetPointsForOneRingFlag == Setting

SettingEnds ==
    /\ at["app"] = "setting" /\ (Answered("app") \/ Unanswered("app"))
    /\ Go("app", "idle")
    /\ UNCHANGED <<driver, baud, shared, scan, device, history, laser, running, calls>>

\* the device restarts and is silent; the scan thread is not told
Reset ==
    /\ at["app"] = "idle" /\ calls < MaxCalls /\ ~running /\ driver.alive /\ Free
    /\ calls' = calls + 1
    /\ device' = [device EXCEPT !.spinning = @ /\ ~(driver.connected /\ baud = DeviceBaud)]
    /\ UNCHANGED <<driver, baud, shared, scan, at, phase, faults, history, laser, running>>

AppThread ==
    \/ SetScanFrequencyAddMic \/ SetScanFrequencyDisMic \/ SetRotationPositive
    \/ SetRotationInversion \/ EnableLowerPower \/ DisableLowerPower
    \/ GetMotorState \/ EnableConstFreq \/ DisableConstFreq
    \/ SetSaveLowExposure \/ SetLowExposureAdd \/ SetLowExposurerDis
    \/ SetPointsForOneRingFlag \/ SettingEnds \/ Reset

-----------------------------------------------------------------------------
Driver(A) == A /\ UNCHANGED <<laser, running, calls>>

\* t uses a driver that another thread has deleted: undefined, the process dies
Crash(t) ==
    /\ ~driver.alive
    /\ \/ phase[t] # "begin"
       \/ at[t] \in RequestPlaces \ {"health", "info"}
       \/ at[t] \in {"rebaud", "start", "start.stop", "start.scan", "start.create", "start.flag",
                    "grab", "size", "copy"}
       \/ at[t] = "turnOn" /\ laser.turnedOn
    /\ at' = [u \in Threads |-> "crashed"] /\ phase' = [u \in Threads |-> "begin"]
    /\ scan' = NewScan
    /\ UNCHANGED <<driver, baud, shared, device, faults, history>>

Crashed == Run("crashed")

\* a step that thread t takes in a call of the driver
Called(t) == Driver(Clear(t)) \/ Driver(Join(t)) \/ Driver(Crash(t))

Next == RunThread \/ StopThread \/ AppThread \/ Driver(ScanThread) \/ \E t \in Threads : Called(t)

Spec == LidarInit /\ [][Next]_vars

\* The threads of a running program are scheduled, and the waits have time limits.
\* Nothing makes the application stop the lidar or change a setting
FairSpec ==
    /\ Spec
    /\ WF_vars(RunThread \/ Called("run"))
    /\ WF_vars((StopThread /\ running) \/ Called("stop"))
    /\ WF_vars(SettingEnds \/ Called("app"))
    /\ WF_vars(Driver(ScanThread))

-----------------------------------------------------------------------------
TypeOK ==
    /\ driver.rate \in Rates \cup {Unknown}
    /\ baud \in Bauds \cup {UserBaud}
    /\ shared.nodes \in 0..MaxNodes /\ shared.lock \in {"free", "run"}
    /\ Len(scan.ring) < MaxNodes /\ scan.count \in 0..Batch /\ scan.pos \in 0..Batch
    /\ \A i \in 1..Batch : scan.batch[i] \in 0..MaxSamples
    /\ laser.size \in 0..NodeCount /\ laser.left \in -1..3 \cup 0..MaxBad \cup 0..MaxHz

\* Of grabScanData: the samples that are handed out were not handed out before,
\* although the event may come again before the scan it told of was taken and
\* the number of nodes is read outside of the lock.
NoScanTwice == Run("copy") => ~history.taken

\* no sample is missing, or twice in it
Consecutive(s) == \A i \in 1..Len(s) - 1 : s[i + 1] = s[i] + 1

\* Of cacheScanData and grabScanData: what the reader gets is one revolution in
\* the order of its samples, unless a package of it was corrupt (the sync bit of
\* the next revolution may have been lost with it), or it has nodes of a batch that
\* was gone through again after a time-out, or in which waitPackage dropped the
\* samples of a package with a bad header.
WholeScans ==
    laser.got # <<>> /\ ~laser.gotTorn /\ (\A i \in 1..Len(laser.got) : laser.got[i] # 0) =>
        Sync(laser.got[1]) /\ Consecutive(laser.got) /\ Len(laser.got) = Smaller(Ring, NodeCount)

\* The reader of a scan gets each of them once, and whole but for these cases
ScansOnceAndWhole == NoScanTwice /\ WholeScans

\* Of disableDataGrabbing and createThread: two scan threads never run at a time.
\* A new one is created when the old one has ended, though isScanning, the join
\* and the creation are not under one lock
OneScanThread == Run("start.create") => scan.pc = "exited"

\* Of Lidar::stop: run returns, whatever call it is in, or the process dies of a
\* driver that was deleted under it
RunEnds == running ~> (Run("ended") \/ Crashed)

Undisturbed == faults = 0 /\ ~running /\ calls = 0

\* Of checkHardware: a lidar that answers is brought from any of the baud rates
\* and models to a scan that is read
FirstScan == <>((laser.got # <<>> /\ ~laser.gotTorn) \/ ~Undisturbed)
=============================================================================
