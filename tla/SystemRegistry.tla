---------------------------- MODULE SystemRegistry ----------------------------
(***************************************************************************)
(* DronecodeSDKImpl: the connections and the systems heard of over them.   *)
(* A user thread adds connections, asks for systems, registers for their   *)
(* discovery and destroys the SDK; each connection has a receive thread.   *)
(* receive_message runs under _systems_mutex to its end, in one step; a    *)
(* user's call is one step for each time it takes the mutex.               *)
(***************************************************************************)
EXTENDS Integers, Sequences

CONSTANTS
    Conn,        \* connections the user adds
    Kind,        \* udp, tcp or serial
    SysId,       \* system ids in received messages
    MaxChannels, \* MAX_CHANNELS
    MaxSystems   \* bound: systems created

ASSUME RegistryAssumption ==
    /\ Kind \in [Conn -> {"udp", "tcp", "serial"}]
    /\ SysId \subseteq 0..255
    /\ MaxChannels \in Nat /\ MaxSystems \in Nat

None == -1   \* no channel
Null == 0    \* a null shared_ptr; systems are numbered from 1

VARIABLES
    used,      \* the channels that are checked out
    foreign,   \* those of other SDK objects of the process
    phase,     \* of a connection, from start to the end of stop
    channel,   \* of its MAVLinkReceiver
    up,        \* _is_ok of a TCP connection
    exit,      \* its _should_exit
    late,      \* history: its socket was opened after stop had closed it
    thread,    \* its receive thread
    message,   \* the system id in the message just read
    list,      \* _connections
    systems,   \* _systems
    sysid,     \* _system_id of the systems made so far
    present,   \* systems that are connected
    callback,  \* _on_discover_callback is set
    told,      \* systems it was called for, since they are connected or it is set
    userAt,    \* what the user thread is doing
    handed,    \* history: systems the user has a reference to
    asked      \* history: the user asked for a UUID that nobody has

connVars == <<used, foreign, phase, channel, up, exit, late, list>>
recvVars == <<thread, message>>
systemVars == <<systems, sysid, present, callback, told, handed, asked>>
registryVars == <<connVars, recvVars, systemVars, userAt>>

RegistryInit ==
    /\ foreign \in SUBSET (0..(MaxChannels - 1)) /\ used = foreign
    /\ list = <<>>
    /\ phase = [c \in Conn |-> "none"] /\ channel = [c \in Conn |-> None]
    /\ up = [c \in Conn |-> FALSE] /\ exit = [c \in Conn |-> FALSE]
    /\ late = [c \in Conn |-> FALSE]
    /\ thread = [c \in Conn |-> "none"] /\ message = [c \in Conn |-> 0]
    /\ systems = [i \in {} |-> Null] /\ sysid = <<>> /\ present = {}
    /\ callback = FALSE /\ told = {}
    /\ userAt = "idle" /\ handed = {} /\ asked = FALSE

\* a null pointer was used, or a buffer read beyond its end, and the process is gone
Died == userAt = "died"
Die == userAt' = "died" /\ thread' = [c \in Conn |-> "ended"]
Destroying == userAt = "destroying"
Holds(id) == id \in DOMAIN systems
Dangling == Holds(0) /\ systems[0] = Null

-----------------------------------------------------------------------------
(* add_udp_connection, add_tcp_connection, add_serial_connection           *)

Begin == userAt = "idle" /\ userAt' = "adding"

FreeChannels == (0..(MaxChannels - 1)) \ used

Checkout(c) ==
    /\ phase[c] = "none" /\ Begin
    /\ \E n \in FreeChannels :
          /\ \A m \in FreeChannels : n <= m
          /\ used' = used \cup {n}
          /\ channel' = [channel EXCEPT ![c] = n]
    /\ phase' = [phase EXCEPT ![c] = "ready"]
    /\ UNCHANGED <<foreign, up, exit, late, list, recvVars, systemVars>>

\* CONNECTIONS_EXHAUSTED; what stop then does changes nothing
Exhausted(c) ==
    /\ phase[c] = "none" /\ userAt = "idle" /\ FreeChannels = {}
    /\ phase' = [phase EXCEPT ![c] = "gone"]
    /\ UNCHANGED <<used, foreign, channel, up, exit, late, list, recvVars, systemVars, userAt>>

SetupPort(c) ==
    /\ phase[c] = "ready" /\ userAt = "adding"
    /\ \E ok \in BOOLEAN :
          /\ up' = [up EXCEPT ![c] = ok]
          /\ phase' = [phase EXCEPT ![c] = IF ok THEN "open" ELSE "failed"]
    /\ UNCHANGED <<used, foreign, channel, exit, late, list, recvVars, systemVars, userAt>>

StartRecvThread(c) ==
    /\ phase[c] = "open" /\ userAt = "adding"
    /\ phase' = [phase EXCEPT ![c] = "started"]
    /\ thread' = [thread EXCEPT ![c] = "top"]
    /\ UNCHANGED <<used, foreign, channel, up, exit, late, list, message, systemVars, userAt>>

AddConnection(c) ==
    /\ phase[c] = "started" /\ userAt = "adding"
    /\ phase' = [phase EXCEPT ![c] = "added"]
    /\ list' = Append(list, c)
    /\ userAt' = "idle"
    /\ UNCHANGED <<used, foreign, channel, up, exit, late, recvVars, systemVars>>

\* stop, for a connection that could not be started or is the next to be destroyed
Close(c) ==
    /\ \/ phase[c] = "failed" /\ userAt = "adding"
       \/ phase[c] = "added" /\ Destroying /\ c = Head(list)
    /\ exit' = [exit EXCEPT ![c] = TRUE]
    /\ phase' = [phase EXCEPT ![c] = "closed"]
    /\ UNCHANGED <<used, foreign, channel, up, late, list, recvVars, systemVars, userAt>>

\* (faulty: the receiver goes before the thread)
JoinSkipped(c) ==
    /\ phase[c] = "closed"
    /\ phase' = [phase EXCEPT ![c] = "joined"]
    /\ UNCHANGED <<used, foreign, channel, up, exit, late, list, recvVars, systemVars, userAt>>

Join(c) ==
    /\ phase[c] = "closed" /\ thread[c] \in {"none", "ended"}
    /\ phase' = [phase EXCEPT ![c] = "joined"]
    /\ UNCHANGED <<used, foreign, channel, up, exit, late, list, recvVars, systemVars, userAt>>

StopReceiver(c) ==
    /\ phase[c] = "joined" /\ ~Died
    /\ used' = used \ {channel[c]}
    /\ channel' = [channel EXCEPT ![c] = None]
    /\ phase' = [phase EXCEPT ![c] = "gone"]
    /\ list' = IF Destroying THEN Tail(list) ELSE list
    /\ userAt' = IF Destroying THEN userAt ELSE "idle"
    /\ UNCHANGED <<foreign, up, exit, late, recvVars, systemVars>>

-----------------------------------------------------------------------------
(* The receive threads                                                     *)

Top(c) ==
    /\ thread[c] = "top"
    /\ thread' = [thread EXCEPT ![c] =
          IF exit[c] THEN "ended" ELSE IF Kind[c] = "tcp" /\ ~up[c] THEN "reconnect" ELSE "call"]
    /\ UNCHANGED <<connVars, message, systemVars, userAt>>

\* a second's sleep, then setup_port, which does not look at _should_exit
Reconnect(c) ==
    /\ thread[c] = "reconnect"
    /\ \E ok \in BOOLEAN :
          /\ up' = [up EXCEPT ![c] = ok]
          /\ late' = [late EXCEPT ![c] = ok /\ exit[c]]
    /\ thread' = [thread EXCEPT ![c] = "call"]
    /\ UNCHANGED <<used, foreign, phase, channel, exit, list, message, systemVars, userAt>>

\* the thread has a socket or file it can read from
Readable(c) == (Kind[c] = "tcp" => up[c]) /\ (exit[c] => late[c])

Call(c) ==
    /\ thread[c] = "call" /\ Readable(c)
    /\ thread' = [thread EXCEPT ![c] = "recv"]
    /\ UNCHANGED <<connVars, message, systemVars, userAt>>

\* an error, or the end of the stream.  SerialConnection::receive takes the -1 for
\* the length of a datagram
ReadFails(c) ==
    IF Kind[c] = "serial"
    THEN Die /\ up' = up
    ELSE /\ up' = [up EXCEPT ![c] = FALSE]
         /\ thread' = [thread EXCEPT ![c] = "top"]
         /\ userAt' = userAt

CallFails(c) ==
    /\ thread[c] = "call" /\ ~Readable(c)
    /\ ReadFails(c)
    /\ UNCHANGED <<used, foreign, phase, channel, exit, late, list, message, systemVars>>

\* shutdown and close wake up a thread in recv; close does not wake one in read
Woken(c) ==
    /\ thread[c] = "recv" /\ exit[c] /\ ~late[c] /\ Kind[c] # "serial"
    /\ ReadFails(c)
    /\ UNCHANGED <<used, foreign, phase, channel, exit, late, list, message, systemVars>>

RecvFails(c) ==
    /\ thread[c] = "recv"
    /\ ReadFails(c)
    /\ UNCHANGED <<used, foreign, phase, channel, exit, late, list, message, systemVars>>

\* SendMessage: the first connection that fails ends the loop; a TCP connection
\* is then to be opened again
SendFails(c) ==
    /\ phase[c] = "added" /\ ~Destroying /\ Kind[c] = "tcp" /\ up[c]
    /\ up' = [up EXCEPT ![c] = FALSE]
    /\ UNCHANGED <<used, foreign, phase, channel, exit, late, list, thread, message, systemVars, userAt>>

Datagram(c) ==
    /\ thread[c] = "recv"
    /\ exit[c] => (late[c] \/ Kind[c] = "serial")
    /\ \E id \in SysId : message' = [message EXCEPT ![c] = id]
    /\ thread' = [thread EXCEPT ![c] = "message"]
    /\ UNCHANGED <<connVars, systemVars, userAt>>

-----------------------------------------------------------------------------
(* receive_message                                                         *)

Bind(s, id, system) == [i \in (DOMAIN s) \cup {id} |-> IF i \in DOMAIN s THEN s[i] ELSE system]

Done(c) == thread' = [thread EXCEPT ![c] = "top"] /\ message' = [message EXCEPT ![c] = 0]

\* from nobody, from a ground station, or when the SDK is being destroyed
Ignore(c) ==
    /\ thread[c] = "message"
    /\ message[c] \in {0, 255} \/ Destroying
    /\ Done(c)
    /\ UNCHANGED <<connVars, systemVars, userAt>>

Accepted(c) == thread[c] = "message" /\ message[c] \notin {0, 255} /\ ~Destroying

\* (faulty: without set_system_id)
RenamedKeepsId(id) ==
    IF Holds(0)
    THEN LET others == [i \in (DOMAIN systems) \ {0} |-> systems[i]]
         IN  [systems |-> Bind(others, id, systems[0]), sysid |-> sysid]
    ELSE [systems |-> systems, sysid |-> sysid]

\* the system of id 0 gets the id of the message.  insert does nothing if there is
\* a system of that id, and the one of id 0 goes
Renamed(id) ==
    IF Holds(0)
    THEN LET others == [i \in (DOMAIN systems) \ {0} |-> systems[i]]
         IN  [systems |-> Bind(others, id, systems[0]), sysid |-> [sysid EXCEPT ![systems[0]] = id]]
    ELSE [systems |-> systems, sysid |-> sysid]

\* process_mavlink_message: a message may be the one that connects the system, a
\* heartbeat or AUTOPILOT_VERSION once the UUID is known
Process(system) ==
    \/ UNCHANGED <<present, told>>
    \/ /\ system \notin present
       /\ present' = present \cup {system}
       /\ told' = IF callback THEN told \cup {system} ELSE told

ReceiveKnown(c) ==
    /\ Accepted(c)
    /\ ~Dangling
    /\ LET r == Renamed(message[c]) IN
          /\ message[c] \in DOMAIN r.systems
          /\ systems' = r.systems /\ sysid' = r.sysid
          /\ Process(r.systems[message[c]])
    /\ Done(c)
    /\ UNCHANGED <<connVars, callback, handed, asked, userAt>>

\* make_system_with_component
Make(id) ==
    /\ Len(sysid) < MaxSystems
    /\ systems' = Bind(systems, id, Len(sysid) + 1)
    /\ sysid' = Append(sysid, id)

ReceiveNew(c) ==
    /\ Accepted(c) /\ ~Holds(0) /\ ~Holds(message[c])
    /\ Make(message[c])
    /\ Process(Len(sysid) + 1)
    /\ Done(c)
    /\ UNCHANGED <<connVars, callback, handed, asked, userAt>>

ReceiveNull(c) ==
    /\ Accepted(c) /\ Dangling
    /\ Die
    /\ UNCHANGED <<connVars, message, systemVars>>

\* set_disconnected on the system thread
TimeOut(s) ==
    /\ s \in present /\ ~Died
    /\ present' = present \ {s} /\ told' = told \ {s}
    /\ UNCHANGED <<connVars, recvVars, systems, sysid, callback, handed, asked, userAt>>

-----------------------------------------------------------------------------
(* The user's calls                                                        *)

\* get_system(): the one of the least id, or a new one of id 0
GetSystem ==
    /\ userAt = "idle"
    /\ IF DOMAIN systems = {}
       THEN Make(0) /\ handed' = handed \cup {Len(sysid) + 1}
       ELSE /\ UNCHANGED <<systems, sysid>>
            /\ \E id \in DOMAIN systems :
                  /\ \A other \in DOMAIN systems : id <= other
                  /\ handed' = (handed \cup {systems[id]}) \ {Null}
    /\ UNCHANGED <<connVars, recvVars, present, callback, told, asked, userAt>>

GetSystemOf(id) ==
    /\ userAt = "idle" /\ Holds(id) /\ ~Dangling
    /\ handed' = handed \cup {systems[id]}
    /\ UNCHANGED <<connVars, recvVars, systems, sysid, present, callback, told, asked, userAt>>

\* nobody has the UUID: a dummy is made, of id 0, which is then looked up without
\* the mutex
GetUnknown ==
    /\ userAt = "idle" /\ ~Dangling
    /\ userAt' = "unknown" /\ asked' = TRUE
    /\ UNCHANGED <<connVars, recvVars, systems, sysid, present, callback, told, handed>>

MakeDummy ==
    /\ userAt = "unknown"
    /\ IF Holds(0) THEN UNCHANGED <<systems, sysid>> ELSE Make(0)
    /\ userAt' = "lookup"
    /\ UNCHANGED <<connVars, recvVars, present, callback, told, handed, asked>>

\* operator[] puts a null pointer there if a message has changed the id meanwhile
LookUpDummy ==
    /\ userAt = "lookup"
    /\ systems' = Bind(systems, 0, Null)
    /\ handed' = (handed \cup {systems'[0]}) \ {Null}
    /\ userAt' = "idle"
    /\ UNCHANGED <<connVars, recvVars, sysid, present, callback, told, asked>>

RegisterOnDiscover ==
    /\ userAt = "idle" /\ ~callback /\ ~Dangling
    /\ callback' = TRUE
    /\ told' = {systems[id] : id \in DOMAIN systems} \cap present
    /\ UNCHANGED <<connVars, recvVars, systems, sysid, present, handed, asked, userAt>>

\* get_system(uuid), is_connected and register_on_discover look into every system
UseNull ==
    /\ userAt = "idle" /\ Dangling
    /\ Die
    /\ UNCHANGED <<connVars, message, systemVars>>

\* ~DronecodeSDKImpl: the systems, then the connections in their order
Destroy ==
    /\ userAt = "idle"
    /\ userAt' = "destroying"
    /\ systems' = [i \in {} |-> Null] /\ present' = {}
    /\ UNCHANGED <<connVars, recvVars, sysid, callback, told, handed, asked>>

-----------------------------------------------------------------------------

RegistryNext ==
    \/ \E c \in Conn : Checkout(c) \/ Exhausted(c) \/ SetupPort(c) \/ StartRecvThread(c)
    \/ \E c \in Conn : AddConnection(c) \/ Close(c) \/ Join(c) \/ StopReceiver(c)
    \/ \E c \in Conn : Top(c) \/ Reconnect(c) \/ Call(c) \/ CallFails(c) \/ Woken(c)
    \/ \E c \in Conn : RecvFails(c) \/ SendFails(c) \/ Datagram(c)
    \/ \E c \in Conn : Ignore(c) \/ ReceiveKnown(c) \/ ReceiveNew(c) \/ ReceiveNull(c)
    \/ \E s \in DOMAIN sysid : TimeOut(s)
    \/ GetSystem
    \/ \E id \in SysId : GetSystemOf(id)
    \/ GetUnknown \/ MakeDummy \/ LookUpDummy \/ RegisterOnDiscover \/ UseNull \/ Destroy

\* what a receive thread does by itself
Receiving(c) ==
    \/ Top(c) \/ Reconnect(c) \/ Call(c) \/ CallFails(c) \/ Woken(c)
    \/ Ignore(c) \/ ReceiveKnown(c) \/ ReceiveNew(c) \/ ReceiveNull(c)

-----------------------------------------------------------------------------
(* Properties                                                              *)

RegistryTypeOK ==
    /\ used \subseteq 0..(MaxChannels - 1) /\ foreign \subseteq 0..(MaxChannels - 1)
    /\ phase \in [Conn -> {"none", "ready", "open", "failed", "started", "added",
                           "closed", "joined", "gone"}]
    /\ channel \in [Conn -> -1..(MaxChannels - 1)]
    /\ up \in [Conn -> BOOLEAN] /\ exit \in [Conn -> BOOLEAN] /\ late \in [Conn -> BOOLEAN]
    /\ thread \in [Conn -> {"none", "top", "reconnect", "call", "recv", "message", "ended"}]
    /\ message \in [Conn -> SysId \cup {0}]
    /\ \A i \in DOMAIN list : list[i] \in Conn
    /\ sysid \in Seq(SysId \cup {0})
    /\ DOMAIN systems \subseteq SysId \cup {0}
    /\ \A id \in DOMAIN systems : systems[id] \in (DOMAIN sysid) \cup {Null}
    /\ present \subseteq DOMAIN sysid /\ told \subseteq DOMAIN sysid
    /\ handed \subseteq DOMAIN sysid
    /\ callback \in BOOLEAN /\ asked \in BOOLEAN
    /\ userAt \in {"idle", "adding", "unknown", "lookup", "destroying", "died"}

\* A MAVLink channel, whose parser state is global, belongs to one connection, from
\* before its receive thread starts until after that thread has ended; and none is
\* lost, whichever way the connections of a process come and go.
ChannelOwned ==
    /\ used = foreign \cup ({channel[c] : c \in Conn} \ {None})
    /\ \A c \in Conn : channel[c] \notin foreign
    /\ \A c, d \in Conn : c # d /\ channel[c] = channel[d] => channel[c] = None
    /\ \A c \in Conn : thread[c] \notin {"none", "ended"} => channel[c] # None

\* get_system returns a reference: until the SDK is destroyed the system it refers
\* to stays in the table, under its own id, also when the system that was made
\* before any vehicle was heard of is given the id of the first one heard of.
\* (A user who asks for a UUID that nobody has gets a dummy, which may be dropped.)
ReferencesStay ==
    ~asked /\ ~Destroying /\ ~Died =>
        /\ \A s \in handed : Holds(sysid[s]) /\ systems[sysid[s]] = s
        /\ \A id \in DOMAIN systems : systems[id] # Null

\* However discovery and the registration of its callback interleave, the user is
\* told of every system that is connected.
NoMissedDiscovery == callback => present \subseteq told

\* What a user holds stays valid, and what a user waits for is told.
UsersServed == ReferencesStay /\ NoMissedDiscovery

\* What ~DronecodeSDKImpl has still to stop is in _connections, each connection once, also
\* when others before it could not be started.  Only the first is being stopped, and then
\* its thread has been told to end.
Running == {c \in Conn : phase[c] \notin {"none", "gone"}}
StopsEach ==
    Destroying =>
        /\ {list[i] : i \in DOMAIN list} = Running
        /\ \A i, j \in DOMAIN list : i # j => list[i] # list[j]
        /\ \A i \in DOMAIN list :
              \/ phase[list[i]] = "added"
              \/ i = 1 /\ phase[list[i]] \in {"closed", "joined"} /\ exit[list[i]]

\* ~DronecodeSDKImpl ends: every connection is closed and its thread joined, unless
\* the process has died, or the thread waits for a serial port or for a TCP socket
\* that it opened after stop had closed the former one.
StopEnds ==
    Destroying ~> \/ \A c \in Conn : phase[c] \in {"none", "gone"}
                  \/ Died
                  \/ \E c \in Conn : thread[c] = "recv" /\ (Kind[c] = "serial" \/ late[c])

===============================================================================
