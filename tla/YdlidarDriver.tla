---------------------------- MODULE YdlidarDriver ----------------------------
(***************************************************************************)
(* YDlidarDriver: the exchange of commands with the lidar, the scan thread *)
(* that collects its samples, and the reader that takes whole revolutions. *)
(* Threads that use the driver are elsewhere; here at[t] says which of     *)
(* its operations thread t is in and phase[t] how far.                     *)
(*                                                                         *)
(* The device numbers its samples; each Ring-th begins a revolution and    *)
(* carries the sync bit.  Sample 0 is what a package with a wrong checksum *)
(* is decoded to: no sync bit and no distance.  A package with a bad       *)
(* header leaves nothing: its samples are missing among the nodes.         *)
(***************************************************************************)
EXTENDS Integers, Sequences

CONSTANTS
    Threads,      \* that use the driver
    DeviceBaud,   \* the baud rate the device speaks
    Models,       \* model numbers the device may have
    DeviceRates,  \* sampling rates, and heartbeat flags, it may have at first
    DeviceBeats,
    Ring,         \* samples in a revolution
    Batch,        \* nodes of one waitScanData, 128 in the code
    MaxNodes,     \* MAX_SCAN_NODES
    MaxSamples,   \* bound: samples of the device before it falls silent
    MaxFaults,    \* bound: lost answers, bad packages, silences
    MaxDropped,   \* bound: samples dropped at a time
    Prompt        \* a thread does a few instructions faster than the device
                  \* fills a batch

ASSUME DriverAssumption ==
    /\ "run" \in Threads
    /\ Ring \in Nat \ {0, 1} /\ Batch \in Nat \ {0} /\ MaxNodes \in Nat \ {0, 1}
    /\ MaxSamples \in Nat /\ MaxFaults \in Nat /\ MaxDropped \in Nat
    /\ DeviceRates \subseteq 0..2 /\ DeviceBeats \subseteq BOOLEAN /\ Prompt \in BOOLEAN

VARIABLES
    driver,   \* the singleton: does it exist, its flags, its thread
    baud,     \* CYdLidar's m_SerialBaudrate, with which the port is opened
    shared,   \* scan_node_buf, scan_node_count, _dataEvent and _lock
    scan,     \* the scan thread and the local variables of cacheScanData
    at, phase,
    device,   \* its model, sampling rate, heartbeat flag, and samples so far
    faults,   \* so far
    history,  \* the published scan was read, has nodes of a damaged batch
    running   \* Lidar::running, TRUE when run should end

driverVars == <<driver, baud, shared, scan, at, phase, device, faults, history>>

Rates == 0..2
Unknown == -1
Sync(n) == n % Ring = 1
Smaller(a, b) == IF a <= b THEN a ELSE b

\* operations that begin with disableDataGrabbing, with or without a connection
StopPlaces == {"off", "disc", "delete", "rebaud", "start.stop"}
RequestPlaces == {"health", "info", "rateGet", "rateSet", "freqGet", "freqStep",
                  "beat", "beatAgain", "exposure", "start.rate", "setting"}

NewDriver(connected) ==
    [alive |-> TRUE, connected |-> connected, scanning |-> FALSE, thread |-> "none",
     model |-> Unknown, rate |-> Unknown, heartbeat |-> FALSE]
NoDriver == [NewDriver(FALSE) EXCEPT !.alive = FALSE]
NewShared == [buf |-> [i \in 1..MaxNodes |-> 0], nodes |-> 0, event |-> FALSE, lock |-> "free"]
NewScan == [pc |-> "exited", batch |-> [i \in 1..Batch |-> 0], count |-> Batch, pos |-> 0,
            ring |-> <<>>, synced |-> FALSE, damaged |-> FALSE, torn |-> FALSE]

DriverInit ==
    /\ driver = NoDriver
    /\ shared = NewShared
    /\ scan = NewScan
    /\ \E m \in Models, r \in DeviceRates, b \in DeviceBeats :
          device = [model |-> m, rate |-> r, beat |-> b, spinning |-> FALSE, sent |-> 0]
    /\ faults = 0
    /\ history = [taken |-> TRUE, torn |-> FALSE]

\* thread t goes on at place p
Go(t, p) ==
    /\ at' = [at EXCEPT ![t] = p]
    /\ phase' = [phase EXCEPT ![t] = "begin"]

\* bound: nothing goes wrong any more once the lidar is being stopped
Fault == faults < MaxFaults /\ ~running /\ faults' = faults + 1
Free == shared.lock = "free"

-----------------------------------------------------------------------------
(* Operations: end the scan thread, then exchange a command and its answer *)
(* under _lock.                                                            *)

\* disableDataGrabbing: isScanning goes down, and the thread is joined.  Requests
\* and startScan return before it if there is no connection, startScan also if
\* the scan is running
Clear(t) ==
    /\ at[t] \in StopPlaces \cup RequestPlaces /\ phase[t] = "begin" /\ driver.alive
    /\ at[t] \in {"off", "delete"} \/ driver.connected
    /\ at[t] = "start.stop" => ~driver.scanning
    /\ driver' = [driver EXCEPT !.scanning = FALSE]
    /\ phase' = [phase EXCEPT ![t] = "join"]
    /\ UNCHANGED <<baud, shared, scan, at, device, faults, history>>

JoinAtOnce(t) ==
    /\ phase[t] = "join" /\ driver.alive
    /\ phase' = [phase EXCEPT ![t] = "send"]
    /\ UNCHANGED <<driver, baud, shared, scan, at, device, faults, history>>

\* the handle is not cleared: to join the same thread a second time is undefined,
\* and returns at once with the C library of the build
Join(t) ==
    /\ phase[t] = "join" /\ driver.alive
    /\ driver.thread = "live" => scan.pc = "exited"
    /\ driver' = [driver EXCEPT !.thread = IF @ = "live" THEN "joined" ELSE @]
    /\ phase' = [phase EXCEPT ![t] = "send"]
    /\ UNCHANGED <<baud, shared, scan, at, device, faults, history>>

\* sendCommand, waitResponseHeader, the checks of type and size, getData
Answered(t) ==
    /\ phase[t] = "send" /\ driver.alive /\ Free
    /\ driver.connected /\ baud = DeviceBaud
    /\ faults' = faults

\* no connection, a device that does not understand, or a lost answer
Unanswered(t) ==
    /\ driver.alive
    /\ \/ phase[t] = "begin" /\ ~driver.connected /\ faults' = faults
       \/ /\ phase[t] = "send" /\ Free
          /\ IF driver.connected /\ baud = DeviceBaud THEN Fault ELSE faults' = faults

\* stop after the join: no answer is awaited
Stopped(t) ==
    /\ phase[t] = "send" /\ driver.alive /\ Free
    /\ device' = [device EXCEPT !.spinning = @ /\ ~(driver.connected /\ baud = DeviceBaud)]

-----------------------------------------------------------------------------
(* The scan thread, cacheScanData                                          *)

\* what the device can still send
Available == IF device.spinning /\ driver.connected THEN MaxSamples - device.sent ELSE 0

\* createThread starts the thread before it sets isScanning
ScanWaits == Prompt => at["run"] # "start.flag"

\* samples are lost, or the device is silent
Silence == IF device.spinning /\ driver.connected THEN Fault ELSE faults' = faults

Received(k) == device' = [device EXCEPT !.sent = @ + k]

\* numbers of samples that waitPackage may drop besides the k it returns: at a byte
\* of the header that cannot be, it looks for the next header and says nothing
Dropped(k) == {d \in 0..MaxDropped : k + d <= Available}

\* waitScanData: k of the count nodes arrive.  At node z, if not 0, a package was
\* bad: zero, its checksum was wrong; dropped, as many samples before it are missing.
\* Both, if the number of samples in its header was wrong.  damaged is history:
\* the batch is not the next count samples
Read(k, z, zero, dropped) ==
    scan' = [scan EXCEPT
        !.batch = [i \in 1..Batch |->
                     IF i > k THEN @[i]
                     ELSE IF i = z /\ zero THEN 0
                     ELSE device.sent + i + (IF i < z THEN 0 ELSE dropped)],
        !.pc = "process", !.pos = 1, !.damaged = k < scan.count \/ dropped # 0]

\* the first call, whose nodes are not used.  Its count shrinks when the time is
\* up, but not with RESULT_TIMEOUT
ScanFirst ==
    /\ scan.pc = "first" /\ ScanWaits
    /\ \E k \in 0..Smaller(scan.count, Available) : \E d \in Dropped(k) :
          /\ Received(k + d)
          /\ IF d = 0 /\ k \in {scan.count, Available} THEN faults' = faults ELSE Fault
          /\ \E count \in {k, scan.count} : scan' = [scan EXCEPT !.pc = "loop", !.count = count]
    /\ UNCHANGED <<driver, baud, shared, at, phase, history>>

ScanBatch ==
    /\ scan.pc = "loop" /\ driver.scanning
    /\ scan.count > 0 /\ scan.count <= Available
    /\ \E d \in Dropped(scan.count) :
          /\ \/ d = 0 /\ faults' = faults /\ Read(scan.count, 0, FALSE, 0)
             \/ /\ Fault
                /\ \E z \in 1..scan.count, zero \in BOOLEAN :
                      (zero \/ d # 0) /\ Read(scan.count, z, zero, d)
          /\ Received(scan.count + d)
    /\ UNCHANGED <<driver, baud, shared, at, phase, history>>

\* RESULT_TIMEOUT leaves count as it was: the nodes of the last batch that were
\* not replaced are gone through again
ScanTimeout ==
    /\ scan.pc = "loop" /\ driver.scanning /\ driver.connected
    /\ Silence
    /\ \E k \in 0..Smaller(scan.count - 1, Available) : \E d \in Dropped(k) :
          Read(k, 0, FALSE, 0) /\ Received(k + d)
    /\ UNCHANGED <<driver, baud, shared, at, phase, history>>

\* RESULT_FAIL, which a count of zero or no connection always gives
ScanFails ==
    /\ scan.pc = "loop" /\ driver.scanning
    /\ IF scan.count = 0 \/ ~driver.connected THEN faults' = faults ELSE Fault
    /\ driver' = [driver EXCEPT !.scanning = FALSE]
    /\ scan' = NewScan
    /\ UNCHANGED <<baud, shared, at, phase, device, history>>

ScanEnds ==
    /\ scan.pc = "loop" /\ ~driver.scanning
    /\ scan' = NewScan
    /\ UNCHANGED <<driver, baud, shared, at, phase, device, faults, history>>

\* local_scan[scan_count++]: the last place is overwritten when it is full
AppendNode(ring, node) == IF Len(ring) + 1 < MaxNodes THEN Append(ring, node) ELSE ring

\* the node at pos joins the ring; torn is history: some node of the ring is of a
\* damaged batch
NextNode(ring, torn) ==
    scan' = [scan EXCEPT
        !.ring = AppendNode(ring, scan.batch[scan.pos]),
        !.torn = torn,
        !.synced = @ \/ Sync(scan.batch[scan.pos]),
        !.pos = IF scan.pos < scan.count THEN scan.pos + 1 ELSE 0,
        !.pc = IF scan.pos < scan.count THEN "process" ELSE IF driver.heartbeat THEN "beat" ELSE "loop"]

ScanNode ==
    /\ scan.pc = "process" /\ ~Sync(scan.batch[scan.pos])
    /\ NextNode(scan.ring, scan.torn \/ scan.damaged)
    /\ UNCHANGED <<driver, baud, shared, at, phase, device, faults, history>>

ScanFirstSyncKeepsNodes ==
    /\ scan.pc = "process" /\ Sync(scan.batch[scan.pos]) /\ ~scan.synced
    /\ NextNode(scan.ring, scan.torn \/ scan.damaged)
    /\ UNCHANGED <<driver, baud, shared, at, phase, device, faults, history>>

\* the first sync node begins a ring; what came before it is dropped
ScanFirstSync ==
    /\ scan.pc = "process" /\ Sync(scan.batch[scan.pos]) /\ ~scan.synced
    /\ NextNode(<<>>, scan.damaged)
    /\ UNCHANGED <<driver, baud, shared, at, phase, device, faults, history>>

\* the others also end a ring, which is copied to scan_node_buf
ScanPublish ==
    /\ scan.pc = "process" /\ Sync(scan.batch[scan.pos]) /\ scan.synced
    /\ Free /\ (Prompt => at["run"] # "copy")
    /\ shared' = [shared EXCEPT
          !.buf = [i \in 1..MaxNodes |-> IF i <= Len(scan.ring) THEN scan.ring[i] ELSE @[i]],
          !.nodes = Len(scan.ring),
          !.event = TRUE]
    /\ NextNode(<<>>, scan.damaged)
    /\ history' = [taken |-> FALSE, torn |-> scan.torn \/ scan.damaged]
    /\ UNCHANGED <<driver, baud, at, phase, device, faults>>

\* sendHeartBeat, if one is due
ScanBeat ==
    /\ scan.pc = "beat" /\ Free
    /\ scan' = [scan EXCEPT !.pc = "loop"]
    /\ UNCHANGED <<driver, baud, shared, at, phase, device, faults, history>>

ScanThread ==
    \/ ScanFirst \/ ScanBatch \/ ScanTimeout \/ ScanFails \/ ScanEnds
    \/ ScanNode \/ ScanFirstSync \/ ScanPublish \/ ScanBeat
=============================================================================
