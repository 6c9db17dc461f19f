# Verification of the DroneCode SDK core and its plugins

This directory holds TLA+ models of the C++ code in this repository: a copy of
the DroneCode SDK (`core/`, `plugins/`, `backend/`), the YDLidar driver
(`src/`) and an obstacle avoidance program on top of both (`example/`).
TLC checks the models on small instances; TLAPS proves the theorems in
`*_proofs.tla` for every value of the constants. Source paths below are
relative to the repository's root.

## 1. The system and its parts

Threads. Each connection has a receive thread that parses messages and calls
the handlers registered for them. Each system has one system thread, which
every few milliseconds runs the periodic calls, the expired timeouts, the
parameter sender and the command sender. User threads call the plugins.
Callbacks to the user run on a thread pool of their own.

| component | state | operations and handlers | what it must get right |
|---|---|---|---|
| command sender, `core/mavlink_commands.cpp`, `core/locked_queue.h` | queue of works, `_state`, `_timeout_cookie`, two mutexes | `queue_command_async`, `receive_command_ack`, `receive_timeout`, `do_work` | one final result per command, in order, in the end; no timer lost; no deadlock |
| system connection, `core/system_impl.cpp` | `_uuid`, `_connected`, heartbeat cookie, plugin list | heartbeat and version handlers, `set_connected`, `set_disconnected`, `heartbeats_timed_out`, `register_plugin`, `unregister_plugin` | discovery and timeout alternate; a lost link is noticed; plugins follow the connection and are left alone once gone |
| mission plugin, `plugins/mission/` | activity, mission data, one timer, two callbacks | upload, download, start, pause, set current, seven message handlers, `process_timeout` | what is reported as uploaded is on board; transfers end; items survive the round trip; progress is right |
| timeouts and periodic calls, `core/timeout_handler.cpp`, `core/call_every_handler.cpp` | maps from cookies to entries | `add`, `refresh`, `remove`, `run_once`; `add`, `change`, `reset`, `remove` | a timeout runs once at most and never after it was removed; no use of an erased entry; passes end and leave no entry waiting |
| parameter client, `core/mavlink_parameters.cpp` | two queues, one `_state`, a cache | `set_param_async`, `get_param_async`, `do_work`, three message handlers, `receive_timeout` | one answer per request, in order, in the end, and never to a request that is still queued; no two threads in one queue |
| system registry, `core/dronecode_sdk_impl.cpp` | map of systems, connections, discovery callback | `add_*_connection`, `receive_message`, `get_system`, `register_on_discover`, destructor | a reference handed out stays the system of its id; every discovery is told |
| connections, `core/*_connection.cpp`, `core/mavlink_channels.cpp` | socket, thread, channel | `start`, `stop`, `receive`, reconnection of TCP | a channel has one owner, as long as its thread runs; `stop` ends |
| action, offboard, follow me | landed state, setpoint stream, mode | `takeoff`, `start`, `stop`, `set_*`, heartbeat handlers | one stream, and it ends when the mode does |
| log files | entries, chunks, two timers | `get_entries_async`, `download_log_file_async`, two message handlers, two timeouts | the file is the log, whole; calls end |
| calibration | state, callback | `calibrate_*_async`, command result, status texts | a calibration ends for its plugin |
| lidar driver, `src/` | scan buffer, scan thread, device state | `doProcessSimple`, `turnOn`, `turnOff`, `disconnecting`, settings, scan thread | a reader gets one whole scan, once; one scan thread; stopping ends |
| lidar and flight example, `example/StealthDrone-Purdue-/` | run flag; place in the flight, progress | `Lidar::run`, `Lidar::stop`; `main` | home only after the mission; the flight ends |
| camera, `plugins/camera/` | one callback and one timer per kind of request, the camera definition, current settings | mode, status, photo and video requests, subscriptions, `set_option`, `get_option`, `refresh_params` | each caller told once; no caller waits for ever; what the subscriber was told last is what is known |
| telemetry and info, `plugins/telemetry/`, `plugins/info/` | last message of each kind, health, rates, subscriptions | 10 message handlers, `set_rate_*`, parameter answers, timeout of the remote control | subscribers miss nothing; health is what was reported |
| thread pool and HTTP loader, `core/thread_pool.cpp`, `core/safe_queue.h`, `core/http_loader.cpp` | work queue, threads, two stop flags | `enqueue`, `dequeue`, `stop`, `download_async`, `upload_async` | no wake-up is lost; `stop` ends |
| serial port library, `src/serial.cpp`, `src/impl/` | descriptor, settings, two locks | `open`, `close`, `read`, `readline`, `write`, `flush`, setters, `waitfordata` on Unix and Windows | transfers are not mixed; the line is as asked; calls return |
| gRPC backend, `backend/src/` | server, subscriptions, promises | `connect`, unary calls, `Subscribe*` | a promise is set once; a stream ends when its client has gone |
| gimbal, logging; obstacle map | | | not modelled |

`PROJECT.json` lists the components with their status, and under `hazards`
what is hard to test in them, each at its line.

How the parts interact: the system thread drives the command sender
(`do_work`) and its timer; plugins queue commands at it and wait for its
callbacks; the mission plugin also sends and receives messages on its own and
arms timers at the same TimeoutHandler; heartbeats drive the connection state,
which enables and disables the plugins. The registry hands each message to its
system, whichever connection it came by. Settings of the camera and health of the
telemetry come through the parameter client; the backend's subscriptions run
on the callbacks of the plugins, and those on the thread pool; the lidar driver
reads and writes through the serial port library. The flight example is a user of the
action, offboard and mission plugins; the lidar example of the lidar driver,
whose scan thread it shares a buffer with. Hard behaviours: handlers on two
threads that overlap between two critical sections, timers that have expired
but not yet run when an answer cancels them, messages lost, repeated or late,
early returns that leave an activity set, locks taken in two orders, objects
deleted under their users, one callback slot for several callers, threads that
wait for each other's callbacks, and a vehicle that changes its mode by itself.

## 2. Modules

| module | models | proofs |
|---|---|---|
| `CommandService` | what the command sender, each queue of the parameter client, and the HTTP loader promise: one final result per request, in queueing order | |
| `MavlinkCommands` | the command sender, one step per stretch between two lock acquisitions | `MavlinkCommands_proofs` |
| `MavlinkParameters` | the parameter client: a set and a get queue and the one state they share | `MavlinkParameters_proofs` |
| `Handlers` | the loops over periodic calls and timeouts, and those who add, refresh and remove entries | `Handlers_proofs` |
| `SystemConnection` | connection state, UUID, heartbeat timeout, plugin life cycle | `Systems_proofs` |
| `MissionPlan` | mission items to messages and back, mission progress | `UserViews_proofs` |
| `MissionTransfer` | the mission protocol against a vehicle and a lossy link | `UserViews_proofs` |
| `SystemRegistry` | the connections with their receive threads, channels and reconnection; the table of systems and its users | `Systems_proofs` |
| `Systems` | `SystemConnection` and `SystemRegistry` side by side | `Systems_proofs` |
| `Vehicle` | the autopilot as the flight plugins see it, and the commands they send it | |
| `Action`, `Offboard`, `FollowMe`, `Calibration` | one plugin each, on top of `Vehicle` | `Plugins_proofs` for `Offboard` and `Calibration` |
| `LogFiles` | listing and downloading logs over a lossy link | `Plugins_proofs` |
| `Plugins` | composes those five with a user and the vehicle | `Plugins_proofs` |
| `StealthFlight` | the flight of the example: composes `Action`, `Offboard`, the progress of the mission plugin, the vehicle and `main` | `Plugins_proofs` |
| `YdlidarDriver` | the driver: exchange of commands, scan thread, buffer | `Lidar_proofs` |
| `Lidar` | its three users: the run thread with `CYdLidar`, the thread that stops it, and one that changes settings | `Lidar_proofs` |
| `CameraSettings` | the camera definition, and setting, getting, refreshing and announcing the settings | `UserViews_proofs` |
| `Telemetry` | the messages with what they store and tell, rates, health, remote control, version | `UserViews_proofs` |
| `UserViews` | `MissionPlan`, `MissionTransfer`, `CameraSettings` and `Telemetry` side by side: what stands between the user and the vehicle | `UserViews_proofs` |
| `Camera` | requests for mode, status, video stream and photos, and subscriptions | `BlockingCalls_proofs` |
| `WorkQueue` | the queue of the thread pool and of the HTTP loader, with its threads | `BlockingCalls_proofs` |
| `SerialPort` | the serial port library on Unix and Windows | `BlockingCalls_proofs` |
| `Backend` | start of the backend, unary calls and streams | `BlockingCalls_proofs` |
| `BlockingCalls` | `Camera`, `WorkQueue`, `SerialPort` and `Backend` side by side: those whose callers wait | `BlockingCalls_proofs` |

`MC...` modules instantiate them for TLC (symmetry, the requests per queue, the
mission items, the camera definitions, the settings of a port, the kinds of
connections); `StealthFlight` needs none.

`Systems`, `UserViews` and `BlockingCalls` put components beside each other that
share no state in the code. A behaviour is about one of them, which the first
state chooses, and the others rest in one initial state; so the states add up
and do not multiply. Their runs say the same as one run for each component.
The other compositions (`Plugins`, `StealthFlight`, `Lidar`) are of components
that do interact.

Operators whose comment says "faulty variant", or that stand in the section of
that name, are no part of a specification: each is the wrong version of an
action that one of the properties has to detect, and `mutants` in
`PROJECT.json` pairs them.

### MavlinkCommands

`works` and `popped` are the queue: items are appended and only removed at the
front, so item `popped + 1` is what `borrow_front` returns. `queueLock` and
`stateLock` are `LockedQueue::_mutex`, which `borrow_front` keeps locked until
`return_front`, and `_state_mutex`. `recv` and `sys` say where the receive
thread is in `receive_command_ack` and the system thread in its loop
(`run_once` of the timers, then `do_work`). A step runs from one lock
acquisition to just before the next; in particular `pop_front` is two steps,
because it returns the queue and locks it again (`locked_queue.h:42-52`).
The TimeoutHandler is the set `timers`; `FireTimer` erases an entry before the
callback runs, as `run_once` does. Time is not modelled: an armed timer may
fire at any moment. `calls` is a history of the callbacks handed to the pool.

With `Serial = TRUE` a handler starts only when the other thread is between
handlers. That is the schedule the authors had in mind, and the one in which
their promise to the callers holds; `Serial = FALSE` has every interleaving.

Acks arrive for any command that was ever transmitted, any number of times.
One receive thread is modelled; a system reachable over two connections has
two, which the lock discipline treats alike.

### MavlinkParameters

The two queues are modelled like the one of the command sender, in functions
over `Kind = {"set", "get"}`; `state` is the kind that is busy. Every handler
holds `stateLock` (`_state_mutex`) from start to end, so the handlers do not
overlap and each step runs up to the next lock of a queue. `push_back` is two
steps, `LockQueue` and `PushBack`: `do_work` gives back the queue it does not
need without having borrowed it, which unlocks a mutex that a user thread may
hold at that moment. `Patient = TRUE` excludes this moment; what a race in the
`std::deque` then does is undefined and not modelled. The run has
`Patient = FALSE`; `Exclusive`, which says that a queue has one user, holds
only with it and is proved there.

Messages with any name and of all three kinds arrive at any time, asked for or
not. Names are model values and values are left out: a name too long for the
protocol is rejected without a change of state. `calls[k]` records the results
given to the callbacks, which run inside the handlers; what they do there is
not modelled, so a callback that uses the client again (and blocks, with the
locks held) is not either. `reset_cache` has no caller.

### Handlers

`entries[h][a]` is the entry of handler `h` at address `a`: the maps are
ordered by address, and the cookie of an entry is its address. Addresses are
used again; entries have numbers, which the code has not, so that the
properties can tell an entry from a later one at the same address. `sys` is the
system thread: which loop it is in, its iterator, and the entry it calls. One
step is one iteration under the mutex, up to the callback or from it; `Locked`
keeps the owners out meanwhile. An owner stands for a thread and for the
callbacks, so everything an owner may do can also happen inside a callback,
and two owners can do it at once. Time is the set of entries that are due, and
`now` those that were due when the pass over the timeouts began, because
`run_once` reads the clock once. `add` writes the cookie after it has left the
mutex (`StoreCookie`), so an entry can run, or be run and replaced, before its
owner knows it; a cookie is not cleared when its entry is gone and can come to
name the entry of another owner, which `Remove` and `Refresh` then hit. Entries
without a callback are left out: nobody in the repository adds one (a timeout
without one would be looked at for ever). In the other modules a timer is
simply armed, fires or is removed; `RunOrRemoved` and `IteratorValid` are what
entitles them to that.

### SystemConnection

`recv` is the receive thread (heartbeats, AUTOPILOT_VERSION and the loop that
enables plugins), `sys` the system thread (the heartbeat timeout and the loop
that disables them), `user[p]` the thread that registers and unregisters
plugin `p`. Sections under `_connection_mutex` are one step;
`_plugin_impls_mutex` is a lock of its own that is held across the calls.
Left out: the armed and HITL flags, the component list, and the timer of the
pending version request, whose flag is read only if
`ENABLE_FALLBACK_TO_SYSTEM_ID` is defined, which no build file does.

### MissionPlan

An item is the set of the parts that are set in it (position, speed, gimbal,
loiter time, camera action); values play no role, and the gimbal flag is the
default one. `AssembleMessages` is `assemble_mavlink_messages`, `AssembleItems`
is `assemble_mission_items`, written as a fold over the messages.
`ItemMessages` puts the six commands an item may need behind each other
(`MessageFor` is one of them, or none), as the six `if`s of the code do.
An upload is taken apart where the code leaves the messages and the progress
at odds: `SetReturnToLaunch` sets the flag at any moment, `Upload` replaces
items and messages before anything is sent, and only `MissionAck` of an
accepted mission resets the progress. In between the vehicle may take or refuse
what it was offered (`VehicleTakes`, `VehicleRefuses`; it keeps its former
mission until then), the upload may time out (`UploadTimeout`), and its answer
may come after that, during the next one. `phase` is `_activity.state`, with
"refused" for the SET_MISSION that a refusal leaves for ever. A download is one
step, which `MissionTransfer` has in detail. `flown` is the mission the vehicle
has; it reports the number of any message of it as current or reached, in any
order. `Settled` says that the last upload has succeeded, the vehicle has it, and
the flag is as it was then; `FinishedMeansReached` is about these states, since in
the others the code compares the progress of one mission with the messages of
another (section 5). `set_current_mission_item_async`, after which
`last_current` becomes -1, is in `MissionTransfer` only.

### MissionTransfer

The user thread's operation is split where it leaves a lock (`Call`, the
message and the timer, `SetActivity`, `SetCallback`); a handler first checks
the activity (`Receive`, `ReceiveRequest`) and acts in a later step, because
the code releases the activity's mutex in between. `vehicle`, `onboard` and
the two channels are the vehicle's side, external to the repository and
written from what the handlers expect of it (the MAVLink mission protocol).
The link loses up to `MaxLost` messages, the vehicle repeats its requests and
may fall silent for good. `lost` also records whether one of the lost messages
announced a mission to a vehicle that still waited for the one before, which
`UploadStored` excepts (section 5). `timely` is chosen at the start of a behaviour: if
true, answers are faster than timeouts, and the threads faster than answers;
otherwise an answer can come at any moment, also before the activity is set,
and the timer properties, which then are about nothing the code tries to
ensure, are not claimed. `abandoned` is a history of the three
returns that leave the activity set for ever: a refused mission, a downloaded
mission with an unsupported first item, and `disable` during a transfer.

### SystemRegistry

`receive_message` keeps `_systems_mutex` from start to end and is one step, in
which `Renamed` is the change of the id 0 and `Make` the new system; a call of
the user is one step for each time it takes the mutex, so `get_system(uuid)` of
an unknown UUID is three. Systems are numbered as they are made, `systems` is
the map, `handed` the references the user has. A system that is deleted while
referenced is the fault `ReferencesStay` looks for. `phase` is where the user
thread is in `start` or `stop` of a connection, `recv` where its thread is in
`receive`. `foreign` are the channels of other SDK objects of the process.
`late` marks a socket that the reconnection opened after `stop` had closed the
former one. Reading from a serial port that fails gives -1, which is taken for
a length (`serial_connection.cpp:293-306`): the process ends there (`Die`), as
it does when a null system is used. `SysId` includes 255, the ground stations
that are ignored.

### Vehicle, Action, Offboard, FollowMe, Calibration and Plugins

`Vehicle` is external and kept as weak as the plugins allow: it obeys a command
it can carry out and answers success or failure, refuses any command, leaves
offboard mode without setpoints, lets a pilot take over, and reports heartbeats
and landed states in order, any of which may be lost. `pending` and `answer`
are what a plugin knows of its command: `MavlinkCommands` shows that there is
one answer to each.

`Action` is a table of the commands of each operation with the checks before
them; `takeoff` goes on when HOLD has failed, and `takeoff_async` when its own
check has (`action_impl.cpp:318-334`). In `Offboard` everything is done under
one mutex, and `Tick` and `SendVelocity` are the two halves of a periodic call,
between which the stream can end. `FollowMe` has the check and the sending of a
location apart, as the code has, and the cookie that is lost by a second
target. `Calibration` numbers the callers, because the code has one callback
and does not know whose result arrives.

In `Plugins` the user picks one plugin and calls it `MaxCalls` times in any
way, while the vehicle does what it wants: what two plugins share is the
vehicle, so one user of one of them at a time shows every interleaving of a
plugin with the vehicle and the threads.

### LogFiles

The chunks of a log and its entries are the units of the link (`mail`), which
loses and reorders. `received`, `bytes` and `rerequesting` are `_data`, whose
flags a second download finds as the first left them. `at` is where each of the
two threads is between the sections under the mutex: a chunk and a timeout can
both find the download complete, and both write the file. The timer that
`data_timeout` arms again after that is never removed.

### StealthFlight

`pc` is where `main` is; each call blocks there until the plugin has its
result. `Upload` has the three outcomes of the mission plugin: taken, refused,
and timed out, of which the plugin tells nobody, so that `main` waits in `get()`
for ever ("silent"). `item` is the vehicle's place in the mission, `current` and `reached`
what `MissionImpl` has heard of it, possibly of the mission before (`Init`).
`Sets` lists the modes that `main` asks for through the mission and the
offboard plugin. Errors and the loss of the connection end the program where it
is, as `exit()` does.

### Camera

A behaviour is about one kind of request (`cameraTopic`): the kinds share no
state. `callback`, `armed` and `cookie` are its slot and its timer; a request is
a command, whose result arrives on a thread of the pool, and a message, and the
two come in any order. `sending` has the requests between their parts:
`get_status_async` leaves the mutex before it sends. A periodic status request
is the request 0, which has no caller: it wipes the slot (`wiped`). `waiter` is
the thread in a call that waits, which is the future of `take_photo` or the video
stream. `camera = "stuck"` is the receive thread that has locked itself out in
`notify_video_stream_info`.

### CameraSettings

`definition` is what `CameraDefinition` has parsed, with the current values and
which of them are unknown; the file itself is the constant `Definition`: options,
what an option excludes, the ranges it leaves to others and the parameters to be
fetched again with it. The two queues of the parameter client are sequences, its
cache is `cached`, and a parameter that is cached is answered at once, as
`get_param_async` does. `actual` is the camera's own value, which it may change
by itself. The plugin takes no lock around any of this, and two threads do it:
the user's, which subscribes, gets options and sets the mode, and the receive
thread with what comes from the camera. `at` is where each of them is: in
`refresh_params`, between two of its calls of `get_param_async`, before
`notify_current_settings` puts the list together (`PutTogether`), or between that
and the call of the subscriber (`TellSettings`). The maps of `CameraDefinition`
themselves are read and written as if one access excluded the other; what a race
inside a `std::map` does is undefined and not modelled. `lapses` records what
makes the plugin not tell its subscriber, or tell it something older: a fetch
that failed, a setting fetched for `get_option_async`, a lost connection, a last
fetch that is answered at once from the cache and tells while one before it still
waits for the camera ("overtaken"), and a list that is told after a newer one of
the other thread ("overlapping").

### Telemetry

The handlers are sequences of `Store` and `Tell`: what is stored, and which
subscriber is told, in the order of the code; a step is one of them, so a
subscription can come or go between (`CheckSubscription` and `CallSubscription`
are the test and the call, and an empty function may be called). `topic` is the
kind of message of a behaviour. Messages are numbered, and a field holds the
number of the message it was taken from. The parameters behind the health are
answered in the order they were asked for, or fail; the rates of the position
and of the speed share one message, and the vehicle may refuse one.

### WorkQueue

A worker's place is `Loop` (before it reads the flag), `Take` (before the
queue's mutex), asleep in the condition variable, in a job, or gone. A job may be
one that waits for the result of a command, which is a job itself and submitted
later: this is what user code does that calls a plugin from a callback. The
HTTP loader has one thread and stops in the other order.

### SerialPort

`serial.cpp` over its two implementations, chosen by `platform`. A call is split
at each system call; the locks of `ScopedReadLock` and `ScopedWriteLock` are
`holder`. Bytes are numbered as they arrive, so that a transfer that lacks some
in the middle, or shares them with another thread, can be told; the numbers of
the calls on the wire do the same for writes. The settings of a termios line
are its flags, as `set_parity` and the others change them, and `Effective` is
what they mean (termios(3)); Windows has fields. Time-outs may run out at any
moment; the device may be unplugged.

### Backend

`place` is the one subscription a plugin has for a topic. `writing` is where a
thread of the pool is in the callback of a subscription: before `Write`, and
between a failed `Write` and the promise. `Streams` are put together in sets
for the service methods that have the same text. Telemetry streams wait for
`stop` alone.

A unary call waits in the plugin, or for a promise that its callback sets. The
call, the report to the callback (`reports`), the thread of the pool that runs it
(`UnaryCallback`) and the return (`UnaryReturns`) are steps of their own, and a
callback can be called after the return. Uploads, downloads and changes of the
current item leave their callback in the mission plugin, which has a place for
each of two types (`resultCallback`, `itemsCallback`), never clears it and sets
the activity before it stores it: `SetActivity` and `StoreCallback`, and
`missionActivity`, which allows `MissionAck`, `CurrentSet`, `Downloaded` and
`MissionTimeout` to report to whatever callback is there. `again` is a history of
the calls to which something was reported that is not their last result: a
refusal, which leaves the activity set, or the result of another call. What is
reported to a callback reaches the pool at once. `MaxResults` bounds the reports
to one callback.

### YdlidarDriver and Lidar

A thread's place is `at`, and `phase` how far it is in an operation of the
driver: `Clear` puts `isScanning` down, `Join` joins the scan thread, and then
the command and its answer are exchanged under `_lock` (`Answered`,
`Unanswered`). The flag, the join and the creation of the thread are not under
one lock, and each is a step. The device numbers its samples, so that a scan
that was put together of two, repeats samples or lacks some can be told. The
scan thread's batch keeps the nodes of the one before, because the code reads
into the same array and goes through all of it after a time-out.

`Lidar` has the run thread from `checkHardware` to `grabScanData`, with the
search for the baud rate, the sampling rate, the frequency and the heartbeat of
the device in order; the thread that calls `Lidar::stop`, which deletes the
driver while the other may be inside it (`Crash`: the process dies); and an
application thread that changes one of thirteen settings, all of which do the
same exchange of another command. `Prompt` says that a few instructions of a
thread are faster than the device fills a batch of 128 nodes; without it the
scan thread may end before `createThread` sets the flag it looks at.

A package can be bad in two ways: its checksum is wrong, and its nodes are 0, or
its header is, and `waitPackage` looks for the next one, by which its samples are
dropped without a sign (`dropped` of `Read`, up to `MaxDropped`). `damaged`
records that a batch is not the next samples of the device, because some were
dropped or because it was gone through again after a time-out, and `torn` that a
scan has nodes of such a batch; `ScansOnceAndWhole` excepts these scans, and
those with a node that is 0.

## 3. Runs

| run | bounds | shows |
|---|---|---|
| `commands_concurrent` | 2 commands, 2 works, 1 retry, 2 timers, every interleaving | at most one timer and the cookie names it, WAITING always has a timer or a running timeout, and the only way to stop for good is the lock-order inversion |
| `commands_serial` | the same with 2 retries, no overlap, fair | WAITING implies a queued command, TIMEOUT only after all retries, refinement of `CommandService`, every command reported unless it is stuck IN_PROGRESS |
| `commands_waiting_empty` | every interleaving | counterexample: WAITING with an empty queue |
| `parameters` | 2 names, 2 user threads, 2 sets, 1 get, 2 timers, fair | the busy request is the sent front of its queue and has a timer, each queue refines `CommandService`, every request answered |
| `handlers` | 2 owners, 2 addresses, 3 entries, fair | the iterator never points to an erased entry, a timeout runs once at most and never after `remove` found it; every pass ends and what is due is called (`ThreadServes`) |
| `systems` | 2 plugins, 2 foreign heartbeats, 4 messages; a TCP and a serial connection, 2 channels, 2 vehicles and a ground station, 2 systems | a connected system always has a timeout coming; notifications alternate; a plugin let go is not called; silence disconnects. Channels have one owner; references stay and every discovery is told; the destructor ends, but for the two cases it names |
| `views` | missions of up to 2 items, with and without positions, 2 uploads, which the vehicle takes, refuses or answers late; transfers of 2 messages, 2 requests with timely answers or 1 with late ones, 1 attempt repeated, 2 lost messages (none when answers come late), 2 timers; a definition of 3 parameters, 3 acts of two threads; 2 messages, 1 change of subscriptions and rates, enabled twice, 1 sensor; fair | round trip, and a settled mission that is finished was reached; successful uploads are on board, one request has at most one answer, a waiting transfer has a timer and no timer is left over (`TransfersTidy`), transfers end; the subscriber was last told what is known; health is what was reported, subscribers are told of each message, a shared rate serves both |
| `settings_untold` | a definition of 2 parameters, 5 acts | counterexample: a setting is fetched and its subscriber not told, though nothing failed |
| `calls` | 2 requests, 2 messages of the camera; 2 threads, 3 jobs; 2 users of the port, 3 calls, 3 bytes, 2 bytes at a time, 4 settings; 2 remote calls, 2 results for each, 3 topics, 2 pool threads, 2 systems | a caller of the camera is told once; transfers are not mixed and the line is as asked; promises are set once, but for those whose callback is kept and called again; everyone who waits goes on |
| `plugins` | 3 calls, 2 messages on the way; 2 logs of 2 chunks, 1 listing, 2 downloads, 1 loss | one setpoint stream; messages of a mode end with it; a first download is whole; streams, calibrations, listings and downloads end (`PluginsEnd`) |
| `stealth` | mission of 4 messages whose second item begins at the third, 2 setpoints | home only after the mission; the flight ends, unless a message was lost, a pilot took over or the upload was never answered |
| `lidar` | revolutions of 2 samples, batches of 2, 6 samples, 1 fault, of which a bad header drops up to 2 samples, 1 setting, 2 baud rates, a G4 | scans are handed out once, and whole if no package of them was bad and no batch gone through again; one scan thread; run ends after stop; a lidar that answers is found and read |

Why the bounds are enough. Two works make the successor of a command, which is
what an ack or a timer that comes too late hits; two timers suffice because
more than one is never armed (proved); one or two retries distinguish the
first, a middle and the last. Two addresses give an iterator a successor that
can go, and three entries an address that is used again. Two plugins give one
that leaves while the loop is at the other; four messages connect, lose and
reconnect a system. Two uploads make the state an earlier mission leaves
behind, two lost messages end one upload and meet the next, and a late answer
needs only one request to come too late for. Two uploads of which the first is
refused or times out are also what sets messages against the progress of
another mission, and what calls a kept callback again. The items of `views` have a
position and another part, or no position; what more kinds of items, messages,
losses and subscriptions would show is proved for any number of them. Two sets
and a get give a queue with a successor and the change from one queue to the
other; the two user threads push at the same time. A TCP and a serial
connection have all that UDP does, and two channels let the third taker fail.
Two vehicles give one that is there when the other is heard of first. Six
samples of two to a revolution are a first partial scan, a whole one and its
successor; a batch of two lets a scan begin in one and end in the next. One
fault at a time, at any place, is what the error paths distinguish. The mission
of the flight has messages before and after its pause, and progress from before
it. Two requests to the camera are one and another that meets its callback or
its timer; two messages, one of them too late. A definition of three parameters
has one that excludes, one that limits and one that is to be fetched again; the
five acts of `Settings.cfg` are what it takes to cache the parameter that is
fetched last and then to lose the one before it. With two messages a subscriber
can come or go between, and a second one races the timeout. Three jobs on two
threads are more than can run at once, and two that wait occupy every thread.
Three calls on a port are two that compete for a lock and a setter beside them;
transfers of two bytes can be split. Three acts on two threads are a refresh, a change beside it and a subscription:
enough for two lists, of which the older is told last. Two remote calls fight for
one topic and for the places of the mission plugin, and
two threads of the pool can run the callback of one. The bounded counters make
the systems stop, which is why the deadlock test is off in most runs; in
`CommandsSerial.cfg` it is on. In `CommandsConcurrent.cfg` it is replaced by
`OnlyInversionStops`. The system thread of `Handlers` never stops, and there it
is on as well.

Fairness. `Fairness` of each module says that threads which have work go on
(the loops of `SystemImpl::system_thread` and of the receive thread never
leave), that an armed timer which is not refreshed expires, and that mutexes do
not starve a thread (strong fairness, where another thread can take the lock
again and again). Nothing is assumed of the user and of the vehicle: commands,
parameters, heartbeats and answers need not come. A vehicle that reports a
parameter as being set for ever keeps it waiting: the refreshed timer need not
expire in the code. `MavlinkParameters` lets it expire all the same, so
`EveryRequestAnswered` supposes that such reports end. In `MissionTransfer` a
message in flight arrives or is lost; in the other views nothing of that is
enabled, so `FairSpec` assumes nothing of them. In `Handlers` the system thread
goes on, and a callback returns; owners and time need not move. The bound on
the entries matters to `DueIsCalled`: a removal ends a pass over the periodic
calls after its first entry, so an owner that adds and removes entries for ever
could keep the later ones waiting. `PassEnds` does not depend on it. In
`SystemRegistry` the receive threads go on, but nothing need arrive or fail; in
`Plugins` and `StealthFlight` what has arrived is handled and the vehicle
answers commands, ends calibrations (strongly fair: its text waits for room on
the link), flies its mission and lands, but need not report periodically:
`SendingEnds` is conditional on heartbeats that are heard again and again. In
`BlockingCalls` the threads of the pool and of the port's users run, a timer
runs out and a command has a result; that the vehicle has news for a stream
whose client has gone is assumed (strongly fair: the pool serves others
between), because the code ends a stream only at its next message.
`WaitingEnds` is one leads-to over the four: from any state somebody waits in,
a state is reached in which nobody does. Since only one component moves, it
says this of each. In `Lidar` the threads run and the waits have limits; nobody
has to stop it.

## 4. Proofs

Each theorem is about the specification that its component's run checks, for
every value of the constants that the assumption of the module allows; where
components stand side by side, a theorem about one of them is carried over to
the composition. The constants that bound a run are arbitrary numbers here.

`MavlinkCommands_proofs`, for any set of commands, any number of works,
retries and timers, from `CommandsAssumption` alone:

* `TypeCorrect`, `TimerIsNamed` and `TimeoutIsNeverLost`, in every
  interleaving. The inductive invariant `IInv` says which thread holds which
  lock at which place (`LockInv`), that a thread that borrowed a work knows
  which (`FrameInv`), what its place says about the state it has set
  (`StateInv`), and that no timer is armed where one is about to be
  (`TimerInv`). The last part is what makes the other two properties hold:
  the cookie is written by three handlers under no common lock, and only the
  protocol of `state` keeps them apart.
* `OnlyInversionBlocks`, in every interleaving. That a thread waits is a
  predicate of the state, `RecvWaits` and `SysWaits`: the lock it has come to is
  taken. By `LockInv` each lock
  is taken by a thread at one of a few places, so when the system thread waits
  and the receive thread waits too, or has nothing to do, the two hold what the
  other one wants, in the order of the two named handlers, and nothing else
  stops them. `SerialNeverBlocks` says that without overlap not even that
  happens.
* `SerialWaitingHasWork`, `SerialAnsweredInOrder` and
  `SerialImplementsService`, when handlers do not overlap. `SerialInv` adds
  that the work a handler holds is the front of the queue and that the
  callbacks so far are exactly those of the removed works. The refinement maps
  the queue to `queued` and the history of callbacks to `results`; only
  `AckCallback` and `SysCallback` are an `Answer`, all else stutters or
  submits.
* `SerialTimeoutMeansRetried`. `RetryInv` counts: the attempts of the work at
  the front are the first one and those its `retries_done` says, from the
  moment it is sent until its result is handed over, so a timeout that gives up
  finds them all made.

`MavlinkParameters_proofs`, for any names, timers and bounds and any finite set
of user threads, from `ParametersAssumption`: `TypeCorrect`,
`BusyRequestIsUnderWay`, `SuccessWasSent` and `ServicesImplemented`, all with
and without `Patient`, and `QueuesAreExclusive` with it. The invariant says who
holds `_state_mutex` (`StateLockInv`), that the queue a handler works on is the
busy one and not empty (`FrontInv`), what the system thread has borrowed
(`BorrowInv`), and that the results so far are those of the removed requests
and of the one about to be removed (`CallsInv`): reporting and removing are two
steps, and it is `_state_mutex` that lets nobody in between. `RequestInv`
bounds the queued and queueing requests together and `QueueLockInv` ties the
lock of a queue to its user; the refinement and the exclusion need them.
`NobodyWaitsInACircle` says whom a thread waits for (`WaitsFor`) and that this
ends after two steps: a handler may wait for a user thread that pushes, and the
other handler for it, but who pushes waits for nobody. It needs no `Patient`;
`HolderInv` says that whoever has the mutex of a queue is inside that queue,
also where another thread has given it back.

`Handlers_proofs`, for any owners, addresses and entries, from
`HandlersAssumption`: `TypeCorrect`, `IteratorsAreValid` and `TimeoutsEndOnce`.
`IteratorValid` allows an erased successor only during a callback and with the
flag up, and is inductive in this form: owners can touch the map only while the
loop is in a callback, and `remove` raises the flag. `RunOrRemoved` rests on
each entry being in one place (`OnePlace`), on no entry being there before it
is added (`Fresh`) and on nothing that has ended being in the map
(`EndedIsGone`), the point of erasing before the call.

`Systems_proofs`, for any plugins, connections, channels, vehicles and bounds,
from `ConnectionAssumption` and `RegistryAssumption`. Of one system:
`TypeCorrect`, `ConnectionTimesOut`, `NotificationsInTurn`, `UuidKept` and
`GoneIsLeftAlone`, which `SystemsHaveConnection` carries over to `Systems`. The
invariant ties the armed timer to the connection and says who is about to
disconnect (`TimerInv`), that the UUID is set once it is announced (`UuidInv`),
and that a thread inside a loop over the plugins holds their lock (`LoopInv`):
the last is why a plugin that has left the list under that lock is not called
again. Of the registry:

* `ChannelsAreOwned`. A channel is a connection's from its checkout until its
  receiver is stopped, and the connection's thread runs within that time
  (`PhaseInv`); nobody else has it, a foreign user of channels included
  (`OwnerInv`).
* `UsersAreServed`. A system that is connected keeps its id (`PresentInv`). As
  long as no dummy was made for a user who asked for an unknown UUID, a system
  is in the table under its own id, the one of id 0 is alone in it, and whoever
  was handed out stays (`ReferenceInv`). That the id-0 system is alone is what
  the rename needs: it moves the only system there is.
* `EachIsStopped`: what the destructor has to stop is in `_connections`, each
  connection once, and it stops the first, whose thread it has told to end. In
  `ListInv`, what runs and is not in the list is the one connection that is
  being added, or whose start has failed: that is why none of them is left when
  the user's thread comes to destroy. What `StopEnds` adds is that the threads
  do end.

`Plugins_proofs`, from `PluginsAssumption`, `LogAssumption` and
`FlightAssumption`:

* `OneStreamIsSent`: `OneStream` is inductive as it stands, because each handler
  changes the mode and the entry of the sender under `_mutex`.
* `FirstFileIsWhole`, for any number of chunks and over a link that may lose,
  repeat and reorder. Before the first download nothing was received
  (`LogsAtRest`); during it, each chunk received or on its way is of its log,
  and whoever writes the file has them all (`FirstDownload`). A second download
  inherits the flags of the first, so nothing like it holds of that.
* `LogsAreAlwaysTimed`: what has not ended has a timeout, or a thread about to
  arm it or to report, although two threads may complete a download and each
  removes the timeout the cookie names. This is what `ListEnds` and
  `DownloadEnds` rest on.
* `CalibrationIsUnderWay`: the plugin never waits for something nobody will say.
  Between the command and its result the text may come and the next call be
  made, and the next result is then the one of the former command. The
  invariant says why that is harmless: the sender has a command only while one
  waits in the plugin, and if the only one that waits has succeeded, then the
  vehicle calibrates, or its text is on the way or was lost (`CalibrationInv`),
  for a text that came would have ended whatever was under way. `CalibrationEnds`
  adds that what is awaited comes.
* `HomeAfterMission`: what is queued about the last message of the mission was
  said after it (`Truthful`), whatever was reported before the start.

`BlockingCalls_proofs`, each for any callers and contents:

* `PromisesAreSetOnce`. `PromiseInv` counts for each stream what its step says;
  a callback whose write failed holds `_subscribe_mutex` until the promise is
  set (`CallbackInv`), so that no other finds the stream open. The progress of
  missions has no such lock and is excepted (section 5). Of a unary call,
  `UnaryInv` counts what was reported to its callback and what the pool has run
  together: nothing before it waits, and after that at most one, as long as the
  call is not in `again` (`ReportedInv`). A second report would need an activity that
  was begun by the same call, which has ended it, or one in which the place has
  another callback (`KeptInv`).
* `TransfersAreWhole`. Locks belong to calls that took them (`LockInv`), calls
  have numbers of their own (`IdInv`), the buffer holds the last bytes that
  arrived and a read the ones before (`ReadInv`), and what is being written is
  at the end of the wire (`WireInv`).
* `LocksAreTakenInOrder`: a thread waits for the lock of writing only if it
  holds that of reading or none, and never the other way round, so nobody waits
  in a circle, setters and flushes, which take both, included. `LockInv` says
  who holds what, and the theorem reads the order off it.
* `LineHasSettings`. `SettingInv` goes through the settings one by one; those
  that the code cannot undo, CMSPAR and one and a half stop bits, and rates
  that the platform does not have, are excepted.
* `CallbacksAreCalledOnce`, for one slot that serves every request: numbers are
  used once and a thread enters with a request of its own (`EnteringInv`), a
  rejected request is not in the slot (`RejectedInv`), the commands that answer
  without clearing the slot belong to the mode and the stream (`CommandInv`),
  and what is in the slot was not called (`OnceInv`).
* `RequestsWaitForSomething`: a callback in the slot was called, or has a timer,
  one that has run out, or a thread about to arm it. Timers are removed by a
  cookie that the next request overwrites, so a request can lose the wrong
  timer; but whoever removes one empties the slot or calls what is in it
  (`TimedKept`).
* `WorkIsSharedOut`: `JobsInOrder` and `NoLostWakeUp` are inductive with the
  types. A thread sleeps only when it has found the queue empty, each job that
  comes after that wakes one more thread, and a thread takes one job at a time:
  so while anyone sleeps there is a thread on its way for each job. No run
  repeats it: of the queue, `calls` checks that waiting ends.
* `LoaderFetchesInOrder`: the queue with the one thread of the HTTP loader
  implements `CommandService`. `LoaderInv` says that the jobs that have run are
  the first ones; the refinement gives each of them its own number as result,
  so files are fetched once and in the order they were asked for.

`Lidar_proofs`, for any rates, batches, sizes of a ring and of the array, and
any threads, from `DriverAssumption` and `LidarAssumption`:

* `NoTwoScanThreads`. `ThreadInv` says that a driver that exists knows whether
  its scan thread may still run, and that one which is deleted too early has a
  run thread that is on its way out and makes no other.
* `ScansAreOnceAndWhole` has `Prompt` as its hypothesis: a thread does a few
  instructions faster than the device fills a batch. Scans with a bad package, or
  with a batch that was gone through again, are excepted as in `WholeScans`. The invariant follows a
  sample from the device to the batch (`BatchInv`), to the ring (`RingInv`), to
  what is published (`BufInv`) and to the copy (`CopyInv`). `NoScanIsTakenTwice`
  is the part that needs no such hypothesis.

`UserViews_proofs`, for any items, missions, retries, losses, definition files,
sensors, rates and bounds, from the assumptions of the four modules:

* `TelemetryIsServed`: who was subscribed when a message came and stayed knows
  its field or will be told (`ToldInv`), the timeout of the remote control is
  armed until it runs out (`WatchInv`), health comes from answers
  (`HealthInv`), and the rate the vehicle will use after the last order serves
  both subscribers (`RateInv`).
* `TimersMatchTransfers`, of a timely vehicle. There is one timer at most, that
  of the cookie, and it is armed two steps before the activity says so; no
  message is accepted while the user thread or the system thread is in between
  (`WaitingInv`). No lock stands behind this: it is the order of the statements
  and the time a message takes.
* `LoneRequestsAreAnsweredOnce`: one request has one answer at most, whatever
  is late or lost. With the theorem before it this is `TransfersAreTidy`.
* `UploadsAreStored`. `UploadInv` says of the upload under way that its COUNT is
  one only and that of the mission (`Announced`), that what the vehicle has is
  the beginning of the mission (`Taken`), that an item it could take is of the
  mission (`ItemsFit`), and that a good ACK speaks of what is on board (`Acks`).
  When no upload is under way nothing of one is on either link (`Nothing`); a
  timely timeout finds the links empty (`Stillness`); and a callback belongs to
  a request of its kind (`Owned`). TLC checked `UploadInv` with three requests
  and two losses before it was proved. The condition on lost announcements is
  not for the proof: TLC refutes the property without it (section 5).
* `ViewsHaveTransfers` carries the last four over to the composition.
* `FinishedIsReached`, of settled missions: while an upload is under way the
  messages are those it asks for (`AskedInv`), only the last message of what the
  vehicle has can be the return to launch, and once an upload has succeeded the
  number last reached is one that was reached in that mission (`ReachedInv`). The
  restriction to missions that are settled is not for the proof: without any of
  the three parts of `Settled` TLC refutes the property (section 5).
* `DownloadsGiveBack`, for missions of any length whose items have a position.
  An item becomes as many messages as it has parts, and the messages are put
  together again by a fold: two inductions, over `FlattenSeq` and over
  `FoldLeft`. The induction theorems of the library take an operator and cannot
  be instantiated, so each induction here takes the least counterexample of a
  set of numbers and refutes it. `BackInv` says that the messages the
  vehicle has are those of the items it was asked to take, whatever was uploaded in
  vain since, and whatever flag was set. `RoundTrip` excepts items without a position, which the code attaches to the item before.
* `SettingsAreTold`, with the user's and the receive thread at any place: unless
  one of the five named lapses happened, the last fetch of a thread and the last in
  the queue is the one that tells; and if nobody is about to put a list together,
  the subscriber was told what is current, or a thread is about to tell a list that
  is current and not the older of two (`TellingInv`). Of two lists that are about to
  be told exactly one is the older (`ThreadsInv`).

Only model-checked: liveness (`EveryCommandReported`, `EveryRequestAnswered`,
`ThreadServes`, `SystemsEnd`, `TransferEnds`, `WaitingEnds`, `PluginsEnd`,
`FlightEnds`, `RunEnds`, `FirstScan`), which is out of the prover's reach. Every
safety property of the passing runs is a theorem. `Action` and `FollowMe` have
liveness properties only.

Some theorems are the safe half of such a liveness property: that nobody waits
for what will not come, or in a circle (`OnlyInversionStops`, `NoCircle`,
`LocksInOrder`, `StopsEach`, `LogsAreTimed`, `CalibrationUnderWay`,
`RequestsAreTimed`), which leaves to TLC that threads go on. Except for the
first, and like `JobsInOrder`, `NoLostWakeUp`, `Exclusive` and
`DownloadsInOrder`, these are not in a run: each was tried with TLC on the
constants of its component's run before it was proved, and the proof does not
need the run. Waiting is defined over the state, not with ENABLED, which the
prover does not know; on the runs' constants TLC finds that it is the same as
that no step of the thread is enabled.

## 5. Where the code differs from what it says

* `mavlink_commands.cpp:151`: between the two halves of `pop_front` the system
  thread can send the finished command again, and WAITING with an empty queue
  is reached although the comment at 238-240 excludes it. The run
  `commands_waiting_empty` shows it, and `findings` in `PROJECT.json` quotes the
  lines.

* `camera_impl.cpp:1364`: the subscriber is told after the last parameter that had
  to be fetched; when that one is cached, its callback runs at once, before the
  answers to the ones before it, and nobody is told of these. The run
  `settings_untold` shows it.

Not runs, but visible in the models: an ack is matched by command number only,
so a repeated ack can answer the next command of that number before it is sent
(`mavlink_commands.cpp:137`); an upload that times out never invokes its
callback (`mission_impl.cpp:1157-1160`); the map from
messages to items survives the next upload, so the current item of a second
mission is that of the first (`mission_impl.cpp:473`); a callback can run after
`remove` of its cookie has returned, when the entry was erased just before
(`timeout_handler.cpp:64-68`).

Also without a run, but followed in the models or met while they were written:

* `mavlink_commands.cpp:225`: IN_PROGRESS is never timed out, against the
  comment at 197-201.
* `mavlink_parameters.cpp:134` and 187: a queue that was not borrowed is
  returned, which unlocks it under a user thread.
* `system_impl.cpp:979`: `enable` and `disable` of a plugin can be overtaken
  by the connection state they belong to.
* `mission_impl.cpp:1085-1110`: `mission.h:180` says "return true if mission is
  finished and the last mission item has been reached". `is_mission_finished`
  compares the number last reached with the number of messages and the flag for
  the return to launch. The messages are replaced when an upload begins (line 339)
  and the flag by its setter (417-420), but the progress is reset only when the
  mission is accepted (149-156): during an upload, after one that was refused or
  timed out, and after a change of the flag, a mission that the vehicle has not
  got, or has got and not flown, can be called finished. `FinishedMeansReached`
  excepts these states (`Settled`).
* `mission_impl.cpp:165-171`: a refused mission leaves the activity SET_MISSION
  and the callback in its place, so the next ack calls it again; lines 1172-1180:
  a download that is given up reports TIMEOUT to the callback of the last upload or
  change of the current item, which is called a second time, and not to its own;
  lines 971-978: the activity is set before the callback is stored, so an early
  answer goes to the callback of the call before. In the backend that callback
  (`mission_service_impl.h:320`) sets a promise a second time, which throws in a
  thread of the pool, or after the call whose stack it refers to has returned.
  `PromisesSetOnce` excepts these calls (`again`).
* `camera_impl.cpp:1254-1300`: the list of the current settings is put together,
  and the subscriber called, without a lock, by the user's thread and by the
  receive thread: the older of two lists can be told last, and stays.
  `ToldIsCurrent` excepts it ("overlapping").
* `mission_impl.cpp:1147`: the announcement of a mission is not sent again. When
  one upload has timed out with the vehicle still asking for its messages, and the
  announcement of the next is lost, the vehicle fills the earlier mission with
  messages of the new one, and the plugin reports SUCCESS for what is then a
  mixture, or a part, of the two. `UploadStored` excepts it (`lost.announcement`).
* `mission_impl.cpp:1188`: a download that repeats its list request asks for
  the item where the download before it stopped, and can succeed with the last
  item alone.
* `serial_connection.cpp:293-306`: a failed read is taken for a datagram of
  length -1. `dronecode_sdk_impl.cpp:251`: `_systems[0]` inserts a null pointer
  if a message has renamed the dummy meanwhile. Line 65: a rename drops the
  system a user has a reference to, when that user asked for an unknown UUID.
* `tcp_connection.cpp:174-179`: a reconnection may open the socket behind
  `stop`, which then joins a thread that waits in `recv` for ever; closing a
  serial port does not wake its thread either.
* `log_files_impl.cpp:219`: the chunk flags of a former download stay, so the
  second file can be made of both logs; line 317: when the last chunk is lost
  nothing is ever requested again; line 131: a listing without entries, and
  line 194 a download of an unknown log, tell the caller nothing.
* `calibration_impl.cpp:54`: on an armed vehicle the failure goes to the
  calibration under way, and its own caller hears nothing; the late result of a
  command ends the next calibration; line 77 captures its arguments by
  reference for a call that comes later.
* `follow_me_impl.cpp:295`: `process_heartbeat` unlocks a mutex that its guard
  unlocks again; line 119: a second target forgets the entry of the sender, and
  a third adds another.
* `action_impl.cpp:318`: a takeoff that its check denies is carried out all the
  same, and answered twice; line 124: a takeoff goes on when HOLD has failed.
* `offboard_velocity.cpp:432`: the program waits for a message that is sent
  once; lines 41 and 324: any error ends the program in the air. Line 377: the
  result of an upload that times out is waited for for ever.
* `CYdLidar.cpp:637`: the flag that the scan is on stays up when the scan
  thread has ended, so it is never started again; line 564: the model is used
  uninitialised when only the health was answered. `ydlidar_driver.cpp:377-458`:
  a package with a bad header is dropped without a sign, and a scan lacks its
  samples (`ScansOnceAndWhole` excepts it). `lidar.cpp:46` deletes the
  driver under `run`; `lidar.cpp:24` divides the sum of six scans by five.
* `camera_impl.cpp:932`: the lock that its caller holds is taken again, and the
  receive thread waits for itself for ever once a subscriber is set; line 638:
  the periodic status request, which has no callback, wipes the callback of a
  user's; line 1049: a callback is kept after a failure and can be called again by
  a later message; line 1202: `get_option` returns SUCCESS whatever the result was,
  and line 1196 writes to a reference of the caller who may have left.
* `camera_definition.cpp:529`: the comment says that ranges are intersected; an
  option is possible when any one range has it. The cache of the parameter client
  is never cleared, so a setting that has to be fetched again is answered with
  its old value.
* `telemetry_impl.cpp:536`: a timeout of the remote control that has run out is
  refreshed and not armed, so a second loss is not noticed until the plugin is
  enabled again. `telemetry/math_conversions.cpp:24`: the sine and cosine of
  degrees, without a conversion to radians.
* `serial.cpp:144`: `readline` with an end of line of several characters
  compares what lies before its buffer. `serial.h:199` promises a time-out between
  bytes, which neither implementation has; `serial.h:155` promises that the
  constructor opens the port, which the one for Unix does not.
* `unix_serial.cpp:314`: CMSPAR is never cleared, so that even and odd become
  space and mark after one of these; one and a half stop bits become one. A failed
  `open` keeps its descriptor. `win_serial.cpp:447`: a read that has to
  wait returns 0 whatever came, and its bytes are lost; a failed configuration
  leaves a closed handle in `fd_`.
* `backend.cpp:19`: `connect` ignores the port it is given;
  `connection_initiator.h`: when the connection fails, nobody looks at it and
  `wait` has no end. `mission_service_impl.h:191`: two callbacks may both find the
  client gone, and the second `set_value` throws.
  `camera_service_impl.h:171`: the callback refers to variables of a call that may
  have returned; a second subscriber of a topic takes the place of the first, whose
  call then never ends. `calibration_service_impl.h:58`: a message is handed over
  with `get()` of a pointer that deletes it as well; the server does not register
  this service.

## 6. Not modelled, and the plan

Not modelled, and why:

* The gimbal and logging plugins: each operation sends a command, or a stream of
  messages, and keeps nothing; what is hard in that is in the command sender.
* Of the camera plugin: messages of captured images and of flight information,
  the formatting of the storage, and default settings: they store what they are
  given. The XML of the definition file.
* Of the backend: the translation of values, and the core service, whose streams
  poll.
* Of the serial library: modem lines, breaks, Mac OS, and the list of ports.
* The obstacle map: floating-point geometry of one scan; nothing uses its
  result. (Its `TO_RADIAN`, `obstacleMap.h:18`, multiplies by 180 and divides by
  pi.)
* The decoding of lidar packages to angles and distances, and the conversion of
  a scan to ranges: arithmetic without state.
* Races on data that several threads use without a lock, where the code has them
  (the maps of `CameraDefinition`, the `std::function` objects of subscriptions):
  one access is one step.
* In `MissionPlan` and `Backend` messages of the vehicle arrive in the order they
  were sent; `MissionTransfer` loses and repeats them.
* Sockets, curl and the gRPC stubs: input and output. The models have their
  failures where the code handles them.
* Parsing and formatting of messages, the QGroundControl plan import, what user
  code does in callbacks of the parameter client (which run under its locks),
  third-party code.

What remains of the plan: the dispatch of messages (`system_impl.cpp:116`),
whose handlers may change the table they are called from; a composition of the
camera's settings with `MavlinkParameters` itself, in place of the two sequences
that stand for it.
