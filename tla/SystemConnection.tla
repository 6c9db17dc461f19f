--------------------------- MODULE SystemConnection ---------------------------
(***************************************************************************)
(* How a system becomes connected and loses the connection                 *)
(* (core/system_impl.cpp), and what the plugins are told of it.            *)
(*                                                                         *)
(* "recv", the receive thread, handles heartbeats and AUTOPILOT_VERSION    *)
(* and enables the plugins; "sys", the system thread, runs the heartbeat   *)
(* timeout and disables them; every plugin is registered and unregistered  *)
(* by a user thread of its own.  _connection_mutex protects one critical   *)
(* section at a time, which is one step here; _plugin_impls_mutex is held  *)
(* across the calls into the plugins, which are steps of their own.        *)
(***************************************************************************)
EXTENDS Integers, Sequences

CONSTANTS
  Plugin,      \* plugin instances
  OtherBeats,  \* heartbeats of other components before the UUID is given up, 10
  MaxBeats     \* bound: heartbeats and version messages received

ASSUME ConnectionAssumption ==
  /\ OtherBeats \in Nat \ {0}
  /\ MaxBeats \in Nat

VARIABLES
  uuid,        \* _uuid: "unset" (0), "sysid" or the autopilot's "uid"
  uuidKnown,   \* _uuid_initialized
  otherBeats,  \* _non_autopilot_heartbeats
  connected,   \* _connected
  timer,       \* the heartbeat timeout is in the TimeoutHandler
  listed,      \* _plugin_impls
  pluginLock,  \* holder of _plugin_impls_mutex
  enabled,     \* per plugin: was the last call enable()?
  recv, sys,   \* thread: where it is, and the plugins its loop has yet to call
  user,        \* per plugin: where its user thread is
  events,      \* history: the notifications given to the application
  beats        \* messages received so far

uuidVars   == <<uuid, uuidKnown, otherBeats>>
pluginVars == <<listed, pluginLock, enabled>>
vars == <<uuid, uuidKnown, otherBeats, connected, timer, listed, pluginLock,
          enabled, recv, sys, user, events, beats>>

Free   == "free"
UserPc == {"outside", "initialised", "pushed", "enable", "up",
           "disabled", "deinitialised", "gone"}

Idle == [pc |-> "idle", todo |-> {}]

Init ==
  /\ uuid = "unset" /\ uuidKnown = FALSE /\ otherBeats = 0
  /\ connected = FALSE /\ timer = FALSE
  /\ listed = {} /\ pluginLock = Free
  /\ enabled = [p \in Plugin |-> FALSE]
  /\ recv = Idle /\ sys = Idle
  /\ user = [p \in Plugin |-> "outside"]
  /\ events = <<>>
  /\ beats = 0

-----------------------------------------------------------------------------
(* Faulty variants of operators and actions below, one per property. *)

\* Connects without arming the heartbeat timeout.
SetConnectedUnarmed(known) ==
  \/ /\ ~connected /\ known
     /\ connected' = TRUE
     /\ events' = Append(events, "discover")
     /\ recv' = [recv EXCEPT !.pc = "enable"]
     /\ UNCHANGED timer
  \/ /\ connected \/ ~known
     /\ UNCHANGED <<connected, timer, events, recv>>

\* Notifies at every heartbeat.
SetConnectedAlways(known) ==
  \/ /\ known
     /\ connected' = TRUE
     /\ timer' = TRUE
     /\ events' = Append(events, "discover")
     /\ recv' = [recv EXCEPT !.pc = "enable"]
  \/ /\ ~known
     /\ UNCHANGED <<connected, timer, events, recv>>

\* Destroys the plugin without waiting for a loop over the list.
UnregisterRemoveUnlocked(p) ==
  /\ user[p] = "deinitialised"
  /\ listed' = listed \ {p}
  /\ user' = [user EXCEPT ![p] = "gone"]
  /\ UNCHANGED <<uuidVars, connected, timer, pluginLock, enabled, recv, sys,
                 events, beats>>

\* Forgets to report the lost connection.
DisconnectForgotten ==
  /\ sys.pc = "disconnect"
  /\ events' = Append(events, "timeout")
  /\ sys' = [sys EXCEPT !.pc = "disable"]
  /\ UNCHANGED <<uuidVars, connected, timer, pluginVars, recv, user, beats>>

-----------------------------------------------------------------------------
(* The receive thread. *)

\* set_connected, up to the loop over the plugins.  The application hears of
\* the system before it counts as connected; both happen under the mutex.
SetConnected(known) ==
  \/ /\ ~connected /\ known
     /\ connected' = TRUE
     /\ timer' = TRUE
     /\ events' = Append(events, "discover")
     /\ recv' = [recv EXCEPT !.pc = "enable"]
  \/ /\ connected \/ ~known  \* connected: the timeout is only refreshed
     /\ UNCHANGED <<connected, timer, events, recv>>

Receive ==
  /\ recv.pc = "idle"
  /\ beats < MaxBeats
  /\ beats' = beats + 1
  /\ UNCHANGED <<pluginVars, sys, user>>

\* process_heartbeat of an autopilot: without a UUID, the version is requested.
AutopilotHeartbeat ==
  /\ Receive
  /\ UNCHANGED uuidVars
  /\ SetConnected(uuidKnown)

\* process_heartbeat of another component: after enough of them the system id
\* has to do as the UUID.
OtherHeartbeat ==
  /\ Receive
  /\ \/ /\ uuidKnown
        /\ UNCHANGED uuidVars
     \/ /\ ~uuidKnown
        /\ otherBeats + 1 < OtherBeats
        /\ otherBeats' = otherBeats + 1
        /\ UNCHANGED <<uuid, uuidKnown>>
     \/ /\ ~uuidKnown
        /\ otherBeats + 1 >= OtherBeats
        /\ otherBeats' = otherBeats + 1
        /\ uuid' = "sysid"
        /\ uuidKnown' = TRUE
  /\ SetConnected(uuidKnown')

\* The UUID of an AUTOPILOT_VERSION counts only if there was none.
LearnUuid(uid) ==
  uuid' = IF uuid # "unset" THEN uuid
          ELSE IF uid # "unset" THEN uid ELSE "sysid"

\* process_autopilot_version, from the autopilot, with or without a valid uid.
AutopilotVersion(uid) ==
  /\ Receive
  /\ LearnUuid(uid)
  /\ uuidKnown' = TRUE
  /\ UNCHANGED otherBeats
  /\ SetConnected(TRUE)

-----------------------------------------------------------------------------
(* The loops over the plugins, in set_connected and set_disconnected. *)

LoopUnchanged == UNCHANGED <<uuidVars, connected, timer, user, events, beats>>

\* Each loop holds the mutex from its first call to its last.
EnterEnable ==
  /\ recv.pc = "enable" /\ pluginLock = Free
  /\ pluginLock' = "recv"
  /\ recv' = [pc |-> "enabling", todo |-> listed]
  /\ UNCHANGED <<listed, enabled, sys>> /\ LoopUnchanged

EnablePlugin(p) ==
  /\ recv.pc = "enabling" /\ p \in recv.todo
  /\ enabled' = [enabled EXCEPT ![p] = TRUE]
  /\ recv' = [recv EXCEPT !.todo = @ \ {p}]
  /\ UNCHANGED <<listed, pluginLock, sys>> /\ LoopUnchanged

LeaveEnable ==
  /\ recv.pc = "enabling" /\ recv.todo = {}
  /\ pluginLock' = Free
  /\ recv' = Idle
  /\ UNCHANGED <<listed, enabled, sys>> /\ LoopUnchanged

EnterDisable ==
  /\ sys.pc = "disable" /\ pluginLock = Free
  /\ pluginLock' = "sys"
  /\ sys' = [pc |-> "disabling", todo |-> listed]
  /\ UNCHANGED <<listed, enabled, recv>> /\ LoopUnchanged

DisablePlugin(p) ==
  /\ sys.pc = "disabling" /\ p \in sys.todo
  /\ enabled' = [enabled EXCEPT ![p] = FALSE]
  /\ sys' = [sys EXCEPT !.todo = @ \ {p}]
  /\ UNCHANGED <<listed, pluginLock, recv>> /\ LoopUnchanged

LeaveDisable ==
  /\ sys.pc = "disabling" /\ sys.todo = {}
  /\ pluginLock' = Free
  /\ sys' = Idle
  /\ UNCHANGED <<listed, enabled, recv>> /\ LoopUnchanged

-----------------------------------------------------------------------------
(* The system thread. *)

\* The TimeoutHandler erases the expired entry, then calls heartbeats_timed_out.
HeartbeatTimeout ==
  /\ sys.pc = "idle"
  /\ timer
  /\ timer' = FALSE
  /\ sys' = [sys EXCEPT !.pc = "disconnect"]
  /\ UNCHANGED <<uuidVars, connected, pluginVars, recv, user, events, beats>>

\* set_disconnected, whatever heartbeats arrived since the timer expired.
Disconnect ==
  /\ sys.pc = "disconnect"
  /\ connected' = FALSE
  /\ events' = Append(events, "timeout")
  /\ sys' = [sys EXCEPT !.pc = "disable"]
  /\ UNCHANGED <<uuidVars, timer, pluginVars, recv, user, beats>>

-----------------------------------------------------------------------------
(* User threads: register_plugin and unregister_plugin. *)

Step(p, from, to) ==
  /\ user[p] = from
  /\ user' = [user EXCEPT ![p] = to]
  /\ UNCHANGED <<uuidVars, connected, timer, recv, sys, events, beats>>

RegisterInit(p) ==
  Step(p, "outside", "initialised") /\ UNCHANGED pluginVars

RegisterPush(p) ==
  /\ Step(p, "initialised", "pushed")
  /\ pluginLock = Free
  /\ listed' = listed \cup {p}
  /\ UNCHANGED <<pluginLock, enabled>>

\* "If we're connected already, let's enable it straightaway": _connected is
\* read without a lock, and used after it may have changed.
RegisterCheck(p) ==
  /\ Step(p, "pushed", IF connected THEN "enable" ELSE "up")
  /\ UNCHANGED pluginVars

RegisterEnable(p) ==
  /\ Step(p, "enable", "up")
  /\ enabled' = [enabled EXCEPT ![p] = TRUE]
  /\ UNCHANGED <<listed, pluginLock>>

UnregisterDisable(p) ==
  /\ Step(p, "up", "disabled")
  /\ enabled' = [enabled EXCEPT ![p] = FALSE]
  /\ UNCHANGED <<listed, pluginLock>>

UnregisterDeinit(p) ==
  Step(p, "disabled", "deinitialised") /\ UNCHANGED pluginVars

UnregisterRemove(p) ==
  /\ Step(p, "deinitialised", "gone")
  /\ pluginLock = Free
  /\ listed' = listed \ {p}
  /\ UNCHANGED <<pluginLock, enabled>>

-----------------------------------------------------------------------------

Messages ==
  \/ AutopilotHeartbeat \/ OtherHeartbeat
  \/ \E uid \in {"unset", "uid"}: AutopilotVersion(uid)

EnableLoop  == EnterEnable  \/ LeaveEnable  \/ \E p \in Plugin: EnablePlugin(p)
DisableLoop == EnterDisable \/ LeaveDisable \/ \E p \in Plugin: DisablePlugin(p)

User(p) ==
  \/ RegisterInit(p) \/ RegisterPush(p) \/ RegisterCheck(p) \/ RegisterEnable(p)
  \/ UnregisterDisable(p) \/ UnregisterDeinit(p) \/ UnregisterRemove(p)

Next ==
  \/ Messages \/ EnableLoop
  \/ HeartbeatTimeout \/ Disconnect \/ DisableLoop
  \/ \E p \in Plugin: User(p)

\* Threads that have work run on; a timeout that is armed and no longer
\* refreshed expires.  Messages need not arrive.
Fairness ==
  /\ WF_vars(HeartbeatTimeout) /\ WF_vars(Disconnect)
  /\ SF_vars(EnableLoop) /\ SF_vars(DisableLoop)

Spec     == Init /\ [][Next]_vars
FairSpec == Spec /\ Fairness

-----------------------------------------------------------------------------
(* Properties. *)

LoopState(pcs) == [pc: pcs, todo: SUBSET Plugin]

\* The variables have their types.
TypeOK ==
  /\ uuid \in {"unset", "sysid", "uid"}
  /\ uuidKnown \in BOOLEAN
  /\ otherBeats \in 0 .. OtherBeats
  /\ connected \in BOOLEAN
  /\ timer \in BOOLEAN
  /\ listed \subseteq Plugin
  /\ pluginLock \in {Free, "recv", "sys"}
  /\ enabled \in [Plugin -> BOOLEAN]
  /\ recv \in LoopState({"idle", "enable", "enabling"})
  /\ sys \in LoopState({"idle", "disconnect", "disable", "disabling"})
  /\ user \in [Plugin -> UserPc]
  /\ events \in Seq({"discover", "timeout"})
  /\ beats \in 0 .. MaxBeats

\* A connected system always has a heartbeat timeout coming: no interleaving of
\* a heartbeat with the timeout leaves it connected for ever
\* (system_impl.cpp:496-513,523-535).
ConnectedHasTimer == connected => timer \/ sys.pc = "disconnect"

\* The application is told "discovered" and "timed out" in turn, and the last
\* thing it was told is the state of the connection (system_impl.cpp:498-508,
\* 533-534).
NotificationsAlternate ==
  /\ \A i \in DOMAIN events:
       events[i] = IF i % 2 = 1 THEN "discover" ELSE "timeout"
  /\ connected <=> Len(events) % 2 = 1

\* Once a system goes by a UUID it keeps it, whatever heartbeats and version
\* messages still arrive (system_impl.cpp:190-195,213-227).
UuidStable == [][uuidKnown => uuidKnown' /\ uuid' = uuid]_vars

\* A plugin that unregister_plugin has let go is never called again, even by a
\* loop that was running when it left (system_impl.cpp:516-519,537-542,992-998).
GoneIsUntouched ==
  [][\A p \in Plugin: user[p] = "gone" => enabled'[p] = enabled[p]]_vars

\* When the messages stop for good, so does the connection.
SilenceDisconnects == <>[](~connected)

=============================================================================
