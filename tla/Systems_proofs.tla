---------------------------- MODULE Systems_proofs ----------------------------
(***************************************************************************)
(* The safety of a system's connection state and its plugins, of the table *)
(* of systems, of the connections' channels, and of stopping them, for any *)
(* plugins, connections, system ids and bounds.                            *)
(***************************************************************************)
EXTENDS Systems, SequenceTheorems, TLAPS

-----------------------------------------------------------------------------
(* A single system (SystemConnection)                                      *)

\* The timer is armed only while connected, and not again before an expired
\* one has disconnected the system.
TimerInv ==
  /\ timer => connected /\ sys.pc # "disconnect"
  /\ sys.pc = "disconnect" => connected

\* The UUID counts as initialised when it has a value.
UuidInv ==
  /\ uuidKnown <=> uuid # "unset"
  /\ ~uuidKnown => otherBeats < OtherBeats

\* Who holds _plugin_impls_mutex, and whom its loop may still call.
LoopInv ==
  /\ pluginLock = "recv" <=> recv.pc = "enabling"
  /\ pluginLock = "sys" <=> sys.pc = "disabling"
  /\ recv.pc = "enabling" => recv.todo \subseteq listed
  /\ sys.pc = "disabling" => sys.todo \subseteq listed
  /\ \A p \in Plugin: user[p] = "gone" => p \notin listed

IInv ==
  /\ TypeOK /\ TimerInv /\ UuidInv /\ LoopInv
  /\ ConnectedHasTimer /\ NotificationsAlternate

-----------------------------------------------------------------------------

LEMMA InitIInv == Init => IInv
<1> SUFFICES ASSUME Init PROVE IInv
  OBVIOUS
<1> USE ConnectionAssumption DEF Init, Idle, Free
<1>1. TypeOK
  <2>1. recv \in LoopState({"idle", "enable", "enabling"})
        /\ sys \in LoopState({"idle", "disconnect", "disable", "disabling"})
    BY DEF LoopState
  <2>2. user \in [Plugin -> UserPc] /\ enabled \in [Plugin -> BOOLEAN]
    BY DEF UserPc
  <2>3. events \in Seq({"discover", "timeout"})
    OBVIOUS
  <2>4. otherBeats \in 0 .. OtherBeats /\ beats \in 0 .. MaxBeats
    OBVIOUS
  <2>5. /\ uuid \in {"unset", "sysid", "uid"} /\ uuidKnown \in BOOLEAN
        /\ connected \in BOOLEAN /\ timer \in BOOLEAN
        /\ listed \subseteq Plugin /\ pluginLock \in {Free, "recv", "sys"}
    OBVIOUS
  <2> HIDE DEF Init
  <2> QED
    BY <2>1, <2>2, <2>3, <2>4, <2>5 DEF TypeOK
<1>2. TimerInv /\ UuidInv /\ LoopInv /\ ConnectedHasTimer
  BY DEF TimerInv, UuidInv, LoopInv, ConnectedHasTimer
<1>3. NotificationsAlternate
  BY DEF NotificationsAlternate
<1> QED
  BY <1>1, <1>2, <1>3 DEF IInv

LEMMA EventAppended ==
  ASSUME events \in Seq({"discover", "timeout"}), NEW e \in {"discover", "timeout"}
  PROVE  Append(events, e) \in Seq({"discover", "timeout"})
OBVIOUS

(* What a message does to the UUID, and the connection it may set up. *)
UuidTyped ==
  /\ uuid \in {"unset", "sysid", "uid"}
  /\ uuidKnown \in BOOLEAN
  /\ otherBeats \in 0 .. OtherBeats

LEMMA MessageStep ==
  ASSUME TypeOK, UuidInv, Messages
  PROVE  /\ UuidTyped' /\ UuidInv'
         /\ uuidKnown => uuidKnown' /\ uuid' = uuid
         /\ Receive
         /\ \E known \in BOOLEAN: SetConnected(known)
<1> USE ConnectionAssumption
<1>0. UuidTyped
  BY DEF TypeOK, UuidTyped
<1>1. CASE AutopilotHeartbeat
  BY <1>0, <1>1 DEF AutopilotHeartbeat, UuidTyped, UuidInv, uuidVars
<1>2. CASE OtherHeartbeat
  <2>1. uuidKnown' \in BOOLEAN /\ SetConnected(uuidKnown') /\ Receive
    BY <1>0, <1>2 DEF OtherHeartbeat, UuidTyped, uuidVars
  <2>2. /\ UuidTyped' /\ UuidInv'
        /\ uuidKnown => uuidKnown' /\ uuid' = uuid
    <3>1. CASE uuidKnown
      BY <1>0, <1>2, <3>1 DEF OtherHeartbeat, UuidTyped, UuidInv, uuidVars
    <3>2. CASE ~uuidKnown /\ otherBeats + 1 < OtherBeats
      BY <1>0, <1>2, <3>2 DEF OtherHeartbeat, UuidTyped, UuidInv
    <3>3. CASE ~uuidKnown /\ ~(otherBeats + 1 < OtherBeats)
      <4>1. uuid' = "sysid" /\ uuidKnown' = TRUE /\ otherBeats' = otherBeats + 1
        BY <1>0, <1>2, <3>3 DEF OtherHeartbeat, UuidTyped
      <4>2. otherBeats + 1 \in 0 .. OtherBeats
        BY <1>0, <3>3 DEF UuidTyped, UuidInv
      <4> QED
        BY <3>3, <4>1, <4>2 DEF UuidTyped, UuidInv
    <3> QED
      BY <3>1, <3>2, <3>3
  <2> QED
    BY <2>1, <2>2
<1>3. ASSUME NEW uid \in {"unset", "uid"}, AutopilotVersion(uid)
      PROVE  /\ UuidTyped' /\ UuidInv'
             /\ uuidKnown => uuidKnown' /\ uuid' = uuid
             /\ Receive
             /\ \E known \in BOOLEAN: SetConnected(known)
  <2>1. SetConnected(TRUE) /\ Receive
    BY <1>3 DEF AutopilotVersion
  <2>2. /\ uuidKnown' = TRUE /\ otherBeats' = otherBeats
        /\ uuid' = IF uuid # "unset" THEN uuid
                   ELSE IF uid # "unset" THEN uid ELSE "sysid"
    BY <1>3 DEF AutopilotVersion, LearnUuid
  <2>3. uuid' \in {"sysid", "uid"} /\ (uuid # "unset" => uuid' = uuid)
    BY <1>0, <2>2 DEF UuidTyped
  <2>4. /\ UuidTyped' /\ UuidInv'
        /\ uuidKnown => uuidKnown' /\ uuid' = uuid
    BY <1>0, <2>2, <2>3 DEF UuidTyped, UuidInv
  <2> QED
    BY <2>1, <2>4
<1> QED
  BY <1>1, <1>2, <1>3 DEF Messages

LEMMA MessagesPreserveIInv ==
  ASSUME IInv, Messages
  PROVE  IInv'
<1>0. /\ TypeOK /\ TimerInv /\ UuidInv /\ LoopInv
      /\ ConnectedHasTimer /\ NotificationsAlternate
  BY DEF IInv
<1>1. UuidTyped' /\ UuidInv' /\ Receive
  BY <1>0, MessageStep
<1>2. PICK known \in BOOLEAN: SetConnected(known)
  BY <1>0, MessageStep
<1>3. recv' = recv \/ recv' = [recv EXCEPT !.pc = "enable"]
  BY <1>2 DEF SetConnected
<1>4. TypeOK'
  <2>1. beats' \in 0 .. MaxBeats
    BY <1>0, <1>1, ConnectionAssumption DEF Receive, TypeOK
  <2>2. recv' \in LoopState({"idle", "enable", "enabling"})
    BY <1>0, <1>3 DEF TypeOK, LoopState
  <2>3. connected' \in BOOLEAN /\ timer' \in BOOLEAN
    BY <1>0, <1>2 DEF TypeOK, SetConnected
  <2>4. events' = events \/ events' = Append(events, "discover")
    BY <1>2 DEF SetConnected
  <2>5. events' \in Seq({"discover", "timeout"})
    BY <1>0, <2>4, EventAppended DEF TypeOK
  <2> QED
    BY <1>0, <1>1, <2>1, <2>2, <2>3, <2>5
       DEF TypeOK, UuidTyped, Receive, pluginVars
<1>5. TimerInv' /\ ConnectedHasTimer'
  BY <1>0, <1>1, <1>2
     DEF TypeOK, TimerInv, ConnectedHasTimer, Receive, SetConnected
<1>6. LoopInv'
  <2>1. recv.pc = "idle" /\ recv'.pc \in {"idle", "enable"}
    BY <1>0, <1>1, <1>3 DEF Receive, TypeOK, LoopState
  <2> QED
    BY <1>0, <1>1, <2>1 DEF Receive, LoopInv, pluginVars
<1>7. NotificationsAlternate'
  <2>1. CASE connected' = connected /\ events' = events
    BY <1>0, <2>1 DEF NotificationsAlternate
  <2>2. CASE ~connected /\ connected' /\ events' = Append(events, "discover")
    <3>1. /\ events \in Seq({"discover", "timeout"}) /\ Len(events) \in Nat
          /\ Len(events) % 2 # 1
          /\ Len(events') = Len(events) + 1
          /\ \A i \in 1 .. Len(events):
               events[i] = IF i % 2 = 1 THEN "discover" ELSE "timeout"
      BY <1>0, <2>2 DEF NotificationsAlternate, TypeOK
    <3>2. Len(events') % 2 = 1
      BY <3>1
    <3>3. /\ \A i \in 1 .. Len(events): events'[i] = events[i]
          /\ events'[Len(events')] = "discover"
          /\ DOMAIN events' = 1 .. Len(events')
      BY <2>2, <3>1
    <3>4. \A i \in DOMAIN events':
            events'[i] = IF i % 2 = 1 THEN "discover" ELSE "timeout"
      BY <3>1, <3>2, <3>3
    <3> QED
      BY <2>2, <3>2, <3>4 DEF NotificationsAlternate
  <2> QED
    BY <1>2, <2>1, <2>2 DEF SetConnected
<1> QED
  BY <1>1, <1>4, <1>5, <1>6, <1>7 DEF IInv

-----------------------------------------------------------------------------

LEMMA LoopsPreserveIInv ==
  ASSUME IInv, EnableLoop \/ DisableLoop
  PROVE  IInv'
<1>0. /\ TypeOK /\ TimerInv /\ UuidInv /\ LoopInv
      /\ ConnectedHasTimer /\ NotificationsAlternate
  BY DEF IInv
<1>1. LoopUnchanged
  BY DEF EnableLoop, DisableLoop, EnterEnable, EnablePlugin, LeaveEnable,
         EnterDisable, DisablePlugin, LeaveDisable
<1>2. sys.pc = "disconnect" <=> sys'.pc = "disconnect"
  BY <1>0 DEF EnableLoop, DisableLoop, EnterEnable, EnablePlugin, LeaveEnable,
              EnterDisable, DisablePlugin, LeaveDisable, TypeOK, LoopState, Idle
<1>3. /\ enabled' \in [Plugin -> BOOLEAN] /\ listed' = listed
      /\ pluginLock' \in {Free, "recv", "sys"}
      /\ recv' \in LoopState({"idle", "enable", "enabling"})
      /\ sys' \in LoopState({"idle", "disconnect", "disable", "disabling"})
  <2>1. CASE EnterEnable \/ LeaveEnable \/ EnterDisable \/ LeaveDisable
    <3>1. enabled' = enabled /\ listed' = listed /\ pluginLock' \in {Free, "recv", "sys"}
      BY <2>1 DEF EnterEnable, LeaveEnable, EnterDisable, LeaveDisable
    <3>2. recv' \in LoopState({"idle", "enable", "enabling"})
      BY <1>0, <2>1 DEF EnterEnable, LeaveEnable, EnterDisable, LeaveDisable,
                        TypeOK, LoopState, Idle
    <3>3. sys' \in LoopState({"idle", "disconnect", "disable", "disabling"})
      BY <1>0, <2>1 DEF EnterEnable, LeaveEnable, EnterDisable, LeaveDisable,
                        TypeOK, LoopState, Idle
    <3> QED
      BY <1>0, <3>1, <3>2, <3>3 DEF TypeOK
  <2>2. ASSUME NEW p \in Plugin, EnablePlugin(p) \/ DisablePlugin(p)
        PROVE  /\ enabled' \in [Plugin -> BOOLEAN] /\ listed' = listed
               /\ pluginLock' = pluginLock
               /\ recv' \in LoopState({"idle", "enable", "enabling"})
               /\ sys' \in LoopState({"idle", "disconnect", "disable", "disabling"})
    BY <1>0, <2>2, ZenonT(30) DEF EnablePlugin, DisablePlugin, TypeOK, LoopState
  <2>3. pluginLock \in {Free, "recv", "sys"}
    BY <1>0 DEF TypeOK
  <2> QED
    BY <2>1, <2>2, <2>3 DEF EnableLoop, DisableLoop
<1>4. TypeOK'
  BY <1>0, <1>1, <1>3 DEF TypeOK, LoopUnchanged, uuidVars
<1>5. /\ TimerInv' /\ UuidInv' /\ ConnectedHasTimer' /\ NotificationsAlternate'
  BY <1>0, <1>1, <1>2 DEF LoopUnchanged, uuidVars, TimerInv, UuidInv,
                          ConnectedHasTimer, NotificationsAlternate
<1>6. LoopInv'
  <2>1. CASE EnableLoop
    BY <1>0, <1>1, <2>1 DEF EnableLoop, EnterEnable, EnablePlugin, LeaveEnable,
         LoopUnchanged, LoopInv, TypeOK, LoopState, Idle, Free
  <2>2. CASE DisableLoop
    BY <1>0, <1>1, <2>2 DEF DisableLoop, EnterDisable, DisablePlugin, LeaveDisable,
         LoopUnchanged, LoopInv, TypeOK, LoopState, Idle, Free
  <2> QED
    BY <2>1, <2>2
<1> QED
  BY <1>4, <1>5, <1>6 DEF IInv

LEMMA TimeoutPreservesIInv ==
  ASSUME IInv, HeartbeatTimeout \/ Disconnect
  PROVE  IInv'
<1>0. /\ TypeOK /\ TimerInv /\ UuidInv /\ LoopInv
      /\ ConnectedHasTimer /\ NotificationsAlternate
  BY DEF IInv
<1>1. CASE HeartbeatTimeout
  <2>1. TypeOK'
    BY <1>0, <1>1 DEF HeartbeatTimeout, TypeOK, LoopState, uuidVars, pluginVars
  <2>2. TimerInv' /\ UuidInv' /\ ConnectedHasTimer' /\ NotificationsAlternate'
    BY <1>0, <1>1 DEF HeartbeatTimeout, TypeOK, LoopState, uuidVars, TimerInv,
         UuidInv, ConnectedHasTimer, NotificationsAlternate
  <2>3. LoopInv'
    BY <1>0, <1>1 DEF HeartbeatTimeout, TypeOK, LoopState, pluginVars, LoopInv
  <2> QED
    BY <2>1, <2>2, <2>3 DEF IInv
<1>2. CASE Disconnect
  <2>1. TypeOK'
    <3>1. events' \in Seq({"discover", "timeout"})
      BY <1>0, <1>2, EventAppended DEF Disconnect, TypeOK
    <3>2. sys' \in LoopState({"idle", "disconnect", "disable", "disabling"})
      BY <1>0, <1>2 DEF Disconnect, TypeOK, LoopState
    <3> QED
      BY <1>0, <1>2, <3>1, <3>2 DEF Disconnect, TypeOK, uuidVars, pluginVars
  <2>2. TimerInv' /\ UuidInv' /\ ConnectedHasTimer'
    BY <1>0, <1>2 DEF Disconnect, TypeOK, LoopState, uuidVars, TimerInv,
         UuidInv, ConnectedHasTimer
  <2>3. LoopInv'
    BY <1>0, <1>2 DEF Disconnect, TypeOK, LoopState, pluginVars, LoopInv
  <2>4. NotificationsAlternate'
    <3>1. /\ events \in Seq({"discover", "timeout"}) /\ Len(events) \in Nat
          /\ Len(events) % 2 = 1
          /\ events' = Append(events, "timeout")
          /\ Len(events') = Len(events) + 1
          /\ \A i \in 1 .. Len(events):
               events[i] = IF i % 2 = 1 THEN "discover" ELSE "timeout"
      BY <1>0, <1>2 DEF Disconnect, TimerInv, NotificationsAlternate, TypeOK
    <3>2. Len(events') % 2 # 1
      BY <3>1
    <3>3. /\ \A i \in 1 .. Len(events): events'[i] = events[i]
          /\ events'[Len(events')] = "timeout"
          /\ DOMAIN events' = 1 .. Len(events')
      BY <3>1
    <3>4. \A i \in DOMAIN events':
            events'[i] = IF i % 2 = 1 THEN "discover" ELSE "timeout"
      BY <3>1, <3>2, <3>3
    <3> QED
      BY <1>2, <3>2, <3>4 DEF Disconnect, NotificationsAlternate
  <2> QED
    BY <2>1, <2>2, <2>3, <2>4 DEF IInv
<1> QED
  BY <1>1, <1>2

LEMMA UserPreservesIInv ==
  ASSUME IInv, NEW p \in Plugin, User(p)
  PROVE  IInv'
<1>0. /\ TypeOK /\ TimerInv /\ UuidInv /\ LoopInv
      /\ ConnectedHasTimer /\ NotificationsAlternate
  BY DEF IInv
<1>1. UNCHANGED <<uuidVars, connected, timer, recv, sys, events, beats, pluginLock>>
  BY DEF User, Step, RegisterInit, RegisterPush, RegisterCheck, RegisterEnable,
         UnregisterDisable, UnregisterDeinit, UnregisterRemove, pluginVars
<1>2. /\ user' \in [Plugin -> UserPc] /\ listed' \subseteq Plugin
      /\ enabled' \in [Plugin -> BOOLEAN]
  BY <1>0 DEF User, Step, RegisterInit, RegisterPush, RegisterCheck,
       RegisterEnable, UnregisterDisable, UnregisterDeinit, UnregisterRemove,
       pluginVars, TypeOK, UserPc
<1>3. TypeOK'
  BY <1>0, <1>1, <1>2 DEF TypeOK, uuidVars
<1>4. TimerInv' /\ UuidInv' /\ ConnectedHasTimer' /\ NotificationsAlternate'
  BY <1>0, <1>1 DEF uuidVars, TimerInv, UuidInv, ConnectedHasTimer,
                    NotificationsAlternate
<1>5. LoopInv'
  <2>1. CASE RegisterPush(p)
    BY <1>0, <1>1, <2>1 DEF RegisterPush, Step, LoopInv, TypeOK
  <2>2. CASE UnregisterRemove(p)
    BY <1>0, <1>1, <2>2 DEF UnregisterRemove, Step, LoopInv, TypeOK, Free
  <2>3. CASE /\ listed' = listed
             /\ \E pc \in UserPc \ {"gone"}: user' = [user EXCEPT ![p] = pc]
    BY <1>0, <1>1, <2>3 DEF LoopInv, TypeOK
  <2>4. RegisterInit(p) \/ RegisterCheck(p) \/ RegisterEnable(p)
          \/ UnregisterDisable(p) \/ UnregisterDeinit(p)
        => /\ listed' = listed
           /\ \E pc \in UserPc \ {"gone"}: user' = [user EXCEPT ![p] = pc]
    BY DEF Step, RegisterInit, RegisterCheck, RegisterEnable, UnregisterDisable,
           UnregisterDeinit, pluginVars, UserPc
  <2> QED
    BY <2>1, <2>2, <2>3, <2>4 DEF User
<1> QED
  BY <1>3, <1>4, <1>5 DEF IInv

-----------------------------------------------------------------------------

LEMMA NextPreservesIInv == IInv /\ [Next]_vars => IInv'
<1> SUFFICES ASSUME IInv, [Next]_vars PROVE IInv'
  OBVIOUS
<1>1. CASE UNCHANGED vars
  BY <1>1 DEF vars, IInv, TypeOK, TimerInv, UuidInv, LoopInv, ConnectedHasTimer,
              NotificationsAlternate
<1> QED
  BY <1>1, MessagesPreserveIInv, LoopsPreserveIInv, TimeoutPreservesIInv,
     UserPreservesIInv DEF Next

LEMMA IInvAlways == Spec => []IInv
BY InitIInv, NextPreservesIInv, PTL DEF Spec

\* The variables keep their types, for any number of plugins and messages.
THEOREM TypeCorrect == Spec => []TypeOK
<1>1. IInv => TypeOK
  BY DEF IInv
<1> QED
  BY <1>1, IInvAlways, PTL

\* A connected system always has a timeout coming: a heartbeat that arrives
\* while the timeout runs cannot leave it connected for ever.
THEOREM ConnectionTimesOut == Spec => []ConnectedHasTimer
<1>1. IInv => ConnectedHasTimer
  BY DEF IInv
<1> QED
  BY <1>1, IInvAlways, PTL

\* The application hears of a discovery and of a timeout in turn.
THEOREM NotificationsInTurn == Spec => []NotificationsAlternate
<1>1. IInv => NotificationsAlternate
  BY DEF IInv
<1> QED
  BY <1>1, IInvAlways, PTL

\* A system keeps the UUID it first went by.
THEOREM UuidKept == Spec => UuidStable
<1>1. IInv /\ [Next]_vars => [uuidKnown => uuidKnown' /\ uuid' = uuid]_vars
  <2> SUFFICES ASSUME IInv, Next, uuidKnown PROVE uuidKnown' /\ uuid' = uuid
    OBVIOUS
  <2>1. CASE Messages
    BY <2>1, MessageStep DEF IInv
  <2>2. CASE UNCHANGED uuidVars
    BY <2>2 DEF uuidVars
  <2>3. Messages \/ UNCHANGED uuidVars
    BY DEF Next, EnableLoop, DisableLoop, EnterEnable, EnablePlugin, LeaveEnable,
           EnterDisable, DisablePlugin, LeaveDisable, LoopUnchanged,
           HeartbeatTimeout, Disconnect, User, Step, RegisterInit, RegisterPush,
           RegisterCheck, RegisterEnable, UnregisterDisable, UnregisterDeinit,
           UnregisterRemove
  <2> QED
    BY <2>1, <2>2, <2>3
<1> QED
  BY <1>1, IInvAlways, PTL DEF Spec, UuidStable

\* A plugin that unregister_plugin has let go is not called again.
THEOREM GoneIsLeftAlone == Spec => GoneIsUntouched
<1>1. IInv /\ [Next]_vars =>
        [\A p \in Plugin: user[p] = "gone" => enabled'[p] = enabled[p]]_vars
  <2> SUFFICES ASSUME IInv, Next, NEW p \in Plugin, user[p] = "gone"
               PROVE  enabled'[p] = enabled[p]
    OBVIOUS
  <2>0. TypeOK /\ LoopInv
    BY DEF IInv
  <2>1. CASE EnableLoop
    BY <2>0, <2>1 DEF EnableLoop, EnterEnable, EnablePlugin, LeaveEnable, LoopInv,
                      TypeOK
  <2>2. CASE DisableLoop
    BY <2>0, <2>2 DEF DisableLoop, EnterDisable, DisablePlugin, LeaveDisable,
                      LoopInv, TypeOK
  <2>3. ASSUME NEW q \in Plugin, User(q) PROVE enabled'[p] = enabled[p]
    BY <2>0, <2>3 DEF User, Step, RegisterInit, RegisterPush, RegisterCheck,
         RegisterEnable, UnregisterDisable, UnregisterDeinit, UnregisterRemove,
         pluginVars, TypeOK
  <2>4. CASE Messages
    BY <2>4 DEF Messages, AutopilotHeartbeat, OtherHeartbeat, AutopilotVersion,
                Receive, pluginVars
  <2>5. CASE HeartbeatTimeout \/ Disconnect
    BY <2>5 DEF HeartbeatTimeout, Disconnect, pluginVars
  <2> QED
    BY <2>1, <2>2, <2>3, <2>4, <2>5 DEF Next
<1> QED
  BY <1>1, IInvAlways, PTL DEF Spec, GoneIsUntouched

\* What is said of a single system holds of the one among the systems: the steps of the
\* registry leave it alone.
THEOREM SystemsHaveConnection == SystemsSpec => Spec
<1>1. SystemsInit => Init
  BY DEF SystemsInit
<1>2. [SystemStep \/ RegistryStep]_systemsVars => [Next]_vars
  BY DEF SystemStep, RegistryStep, systemsVars
<1> QED
  BY <1>1, <1>2, PTL DEF SystemsSpec, Spec

-----------------------------------------------------------------------------
(* The channels                                                            *)

ChannelShape ==
  /\ foreign \subseteq 0..(MaxChannels - 1)
  /\ channel \in [Conn -> -1..(MaxChannels - 1)]
  /\ phase \in [Conn -> {"none", "ready", "open", "failed", "started", "added",
                         "closed", "joined", "gone"}]
  /\ thread \in [Conn -> {"none", "top", "reconnect", "call", "recv", "message", "ended"}]

\* The channel is a connection's from the checkout until its receiver is stopped, and
\* its thread runs within that time.
PhaseInv ==
  \A c \in Conn :
    /\ channel[c] = None <=> phase[c] \in {"none", "gone"}
    /\ thread[c] \notin {"none", "ended"} => phase[c] \in {"started", "added", "closed"}

\* Nobody else has it.
OwnerInv ==
  /\ used = foreign \cup ({channel[c] : c \in Conn} \ {None})
  /\ \A c \in Conn : channel[c] \notin foreign
  /\ \A c, d \in Conn : c # d /\ channel[c] = channel[d] => channel[c] = None

ChannelInv == ChannelShape /\ PhaseInv /\ OwnerInv

LEMMA ChannelInitInv == RegistryInit => ChannelInv
<1> SUFFICES ASSUME RegistryInit PROVE ChannelInv
  OBVIOUS
<1> USE RegistryAssumption DEF RegistryInit, None
<1>1. ChannelShape
  BY DEF ChannelShape
<1>2. PhaseInv
  BY DEF PhaseInv
<1>3. \A n \in foreign : n # None
  OBVIOUS
<1> QED
  BY <1>1, <1>2, <1>3 DEF ChannelInv, OwnerInv

\* A step that leaves the channels alone, and a thread runs only if it ran, or if its
\* connection is just started.
LEMMA ChannelsKept ==
  ASSUME ChannelInv, UNCHANGED <<channel, used, foreign>>, ChannelShape',
         \A c \in Conn :
            /\ phase'[c] = phase[c] \/ ({phase[c], phase'[c]} \cap {"none", "gone"} = {})
                                    \/ ({phase[c], phase'[c]} = {"none", "gone"})
            /\ thread'[c] \notin {"none", "ended"} =>
                  phase'[c] \in {"started", "added", "closed"}
  PROVE  ChannelInv'
<1>1. PhaseInv'
  <2> SUFFICES ASSUME NEW c \in Conn
               PROVE  (channel'[c] = None <=> phase'[c] \in {"none", "gone"})
    BY DEF PhaseInv
  <2> QED
    BY DEF ChannelInv, PhaseInv
<1> QED
  BY <1>1 DEF ChannelInv, OwnerInv

\* A free channel is checked out.
LEMMA CheckoutStep ==
  ASSUME ChannelInv, NEW c \in Conn, Checkout(c)
  PROVE  ChannelInv'
<1> USE DEF ChannelInv
<1>1. channel[c] = None /\ phase[c] = "none" /\ UNCHANGED <<foreign, thread>>
  BY DEF Checkout, PhaseInv, recvVars
<1>2. PICK n \in 0..(MaxChannels - 1) :
        n \notin used /\ used' = used \cup {n} /\ channel' = [channel EXCEPT ![c] = n]
  BY DEF Checkout, FreeChannels
<1>3. n # None
  BY <1>2, RegistryAssumption DEF None
<1>4. channel'[c] = n /\ \A d \in Conn \ {c} : channel'[d] = channel[d]
  BY <1>2 DEF ChannelShape
<1>5. phase'[c] = "ready" /\ \A d \in Conn \ {c} : phase'[d] = phase[d]
  BY DEF Checkout, ChannelShape
<1>6. ChannelShape'
  BY <1>1, <1>2, RegistryAssumption DEF Checkout, ChannelShape
<1>7. PhaseInv'
  <2>1. thread[c] \in {"none", "ended"}
    BY <1>1 DEF PhaseInv
  <2> QED
    BY <1>1, <1>3, <1>4, <1>5, <2>1 DEF PhaseInv
<1>8. OwnerInv'
  <2>1. \A d \in Conn : channel[d] # n
    BY <1>2, <1>3 DEF OwnerInv
  <2>2. n \notin foreign
    BY <1>2 DEF OwnerInv
  <2>3. {channel'[d] : d \in Conn} \ {None} = ({channel[d] : d \in Conn} \ {None}) \cup {n}
    <3>1. \A x : x \in {channel'[d] : d \in Conn} \ {None} =>
                    x \in ({channel[d] : d \in Conn} \ {None}) \cup {n}
      BY <1>4
    <3>2. \A x : x \in ({channel[d] : d \in Conn} \ {None}) \cup {n} =>
                    x \in {channel'[d] : d \in Conn} \ {None}
      BY <1>1, <1>3, <1>4
    <3> QED
      BY <3>1, <3>2
  <2>4. used' = foreign' \cup ({channel'[d] : d \in Conn} \ {None})
    BY <1>1, <1>2, <2>3 DEF OwnerInv
  <2>5. \A d \in Conn : channel'[d] \notin foreign'
    BY <1>1, <1>4, <2>2 DEF OwnerInv
  <2>6. \A d, e \in Conn : d # e /\ channel'[d] = channel'[e] => channel'[d] = None
    BY <1>4, <2>1 DEF OwnerInv
  <2> QED
    BY <2>4, <2>5, <2>6 DEF OwnerInv
<1> QED
  BY <1>6, <1>7, <1>8

\* The channel is given back when the thread has ended.
LEMMA StopReceiverStep ==
  ASSUME ChannelInv, NEW c \in Conn, StopReceiver(c)
  PROVE  ChannelInv'
<1> USE DEF ChannelInv
<1>1. channel[c] # None /\ phase[c] = "joined" /\ UNCHANGED <<foreign, thread>>
  BY DEF StopReceiver, PhaseInv, recvVars
<1>2. used' = used \ {channel[c]} /\ channel' = [channel EXCEPT ![c] = None]
  BY DEF StopReceiver
<1>4. channel'[c] = None /\ \A d \in Conn \ {c} : channel'[d] = channel[d]
  BY <1>2 DEF ChannelShape
<1>5. phase'[c] = "gone" /\ \A d \in Conn \ {c} : phase'[d] = phase[d]
  BY DEF StopReceiver, ChannelShape
<1>6. ChannelShape'
  BY <1>1, <1>2, RegistryAssumption DEF StopReceiver, ChannelShape, None
<1>7. PhaseInv'
  <2>1. thread[c] \in {"none", "ended"}
    BY <1>1 DEF PhaseInv
  <2> QED
    BY <1>1, <1>4, <1>5, <2>1 DEF PhaseInv
<1>8. OwnerInv'
  <2>1. \A d \in Conn \ {c} : channel[d] # channel[c]
    BY <1>1 DEF OwnerInv
  <2>2. channel[c] \notin foreign
    BY DEF OwnerInv
  <2>3. {channel'[d] : d \in Conn} \ {None} = ({channel[d] : d \in Conn} \ {None}) \ {channel[c]}
    <3>1. \A x : x \in {channel'[d] : d \in Conn} \ {None} =>
                    x \in ({channel[d] : d \in Conn} \ {None}) \ {channel[c]}
      BY <1>4, <2>1
    <3>2. \A x : x \in ({channel[d] : d \in Conn} \ {None}) \ {channel[c]} =>
                    x \in {channel'[d] : d \in Conn} \ {None}
      BY <1>4
    <3> QED
      BY <3>1, <3>2
  <2>4. used' = foreign' \cup ({channel'[d] : d \in Conn} \ {None})
    BY <1>1, <1>2, <2>2, <2>3 DEF OwnerInv
  <2>5. None \notin foreign
    BY RegistryAssumption DEF ChannelShape, None
  <2> QED
    BY <1>1, <1>4, <2>4, <2>5 DEF OwnerInv
<1> QED
  BY <1>6, <1>7, <1>8

\* The other steps of a connection, from its port to the end of its thread
LEMMA ConnectionStep ==
  ASSUME ChannelInv, NEW c \in Conn,
         \/ Exhausted(c) \/ SetupPort(c) \/ StartRecvThread(c) \/ AddConnection(c)
         \/ Close(c) \/ Join(c)
  PROVE  ChannelInv'
<1> USE DEF ChannelInv
<1>1. UNCHANGED <<channel, used, foreign>>
  BY DEF Exhausted, SetupPort, StartRecvThread, AddConnection, Close, Join
<1>2. ChannelShape'
  BY <1>1 DEF Exhausted, SetupPort, StartRecvThread, AddConnection, Close, Join, ChannelShape,
              recvVars
<1>3. \A d \in Conn \ {c} : phase'[d] = phase[d] /\ thread'[d] = thread[d]
  BY DEF Exhausted, SetupPort, StartRecvThread, AddConnection, Close, Join, ChannelShape, recvVars
<1>4. /\ \/ {phase[c], phase'[c]} \cap {"none", "gone"} = {}
         \/ {phase[c], phase'[c]} = {"none", "gone"}
      /\ thread'[c] \notin {"none", "ended"} => phase'[c] \in {"started", "added", "closed"}
  <2>1. CASE Exhausted(c)
    BY <2>1 DEF Exhausted, ChannelShape, PhaseInv, recvVars
  <2>2. CASE SetupPort(c) \/ StartRecvThread(c)
    BY <2>2 DEF SetupPort, StartRecvThread, ChannelShape, PhaseInv, recvVars
  <2>3. CASE AddConnection(c) \/ Close(c) \/ Join(c)
    BY <2>3 DEF AddConnection, Close, Join, ChannelShape, PhaseInv, recvVars
  <2> QED
    BY <2>1, <2>2, <2>3
<1> QED
  BY <1>1, <1>2, <1>3, <1>4, ChannelsKept DEF PhaseInv

\* The steps of the receive threads, and the user's: no thread starts
LEMMA ThreadStep ==
  ASSUME ChannelInv, UNCHANGED <<channel, used, foreign, phase>>,
         thread' \in [Conn -> {"none", "top", "reconnect", "call", "recv", "message", "ended"}],
         \A c \in Conn : thread'[c] \in {thread[c], "ended"} \/ thread[c] \notin {"none", "ended"}
  PROVE  ChannelInv'
<1>1. ChannelShape'
  BY DEF ChannelInv, ChannelShape
<1> QED
  BY <1>1, ChannelsKept DEF ChannelInv, PhaseInv

LEMMA ReceivingStep ==
  ASSUME ChannelInv, NEW c \in Conn,
         \/ Top(c) \/ Reconnect(c) \/ Call(c) \/ CallFails(c) \/ Woken(c) \/ RecvFails(c)
         \/ SendFails(c) \/ Datagram(c)
         \/ Ignore(c) \/ ReceiveKnown(c) \/ ReceiveNew(c) \/ ReceiveNull(c)
  PROVE  ChannelInv'
<1> USE DEF connVars, ChannelInv, ChannelShape
<1>1. UNCHANGED <<channel, used, foreign, phase>>
  BY DEF Top, Reconnect, Call, CallFails, Woken, RecvFails, SendFails, Datagram, Ignore,
         ReceiveKnown, ReceiveNew, ReceiveNull
<1>2. CASE Top(c) \/ Reconnect(c) \/ Call(c) \/ Datagram(c)
  BY <1>1, <1>2, ThreadStep DEF Top, Reconnect, Call, Datagram
<1>3. CASE CallFails(c) \/ Woken(c) \/ RecvFails(c) \/ SendFails(c)
  <2>1. CASE SendFails(c)
    BY <1>1, <2>1, ThreadStep DEF SendFails
  <2>2. CASE ~SendFails(c)
    <3>1. thread[c] \in {"call", "recv"} /\ ReadFails(c)
      BY <1>3, <2>2, Zenon DEF CallFails, Woken, RecvFails
    <3>2. \/ thread' = [d \in Conn |-> "ended"]
          \/ thread' = [thread EXCEPT ![c] = "top"]
      BY <3>1, Zenon DEF ReadFails, Die
    <3> QED
      BY <1>1, <3>1, <3>2, ThreadStep
  <2> QED
    BY <2>1, <2>2
<1>4. CASE Ignore(c) \/ ReceiveKnown(c) \/ ReceiveNew(c) \/ ReceiveNull(c)
  <2>1. thread[c] = "message"
    BY <1>4, Zenon DEF Ignore, ReceiveKnown, ReceiveNew, ReceiveNull, Accepted
  <2>2. \/ thread' = [d \in Conn |-> "ended"]
        \/ thread' = [thread EXCEPT ![c] = "top"]
    BY <1>4, Zenon DEF Ignore, ReceiveKnown, ReceiveNew, ReceiveNull, Done, Die
  <2> QED
    BY <1>1, <2>1, <2>2, ThreadStep
<1> QED
  BY <1>2, <1>3, <1>4

\* The user's other calls do not touch a connection; a null pointer ends all threads.
LEMMA CallsStep ==
  ASSUME ChannelInv,
         \/ \E s \in DOMAIN sysid : TimeOut(s)
         \/ GetSystem \/ (\E id \in SysId : GetSystemOf(id))
         \/ GetUnknown \/ MakeDummy \/ LookUpDummy \/ RegisterOnDiscover \/ UseNull \/ Destroy
  PROVE  ChannelInv'
<1>1. UNCHANGED connVars
  BY DEF TimeOut, GetSystem, GetSystemOf, GetUnknown, MakeDummy, LookUpDummy,
         RegisterOnDiscover, UseNull, Destroy
<1>2. thread' = thread \/ thread' = [c \in Conn |-> "ended"]
  BY DEF TimeOut, GetSystem, GetSystemOf, GetUnknown, MakeDummy, LookUpDummy,
         RegisterOnDiscover, UseNull, Destroy, Die, recvVars
<1> QED
  BY <1>1, <1>2, ThreadStep DEF connVars, ChannelInv, ChannelShape

LEMMA ChannelStepInv ==
  ASSUME ChannelInv, RegistryNext
  PROVE  ChannelInv'
BY CheckoutStep, StopReceiverStep, ConnectionStep, ReceivingStep, CallsStep DEF RegistryNext

LEMMA ChannelUnchanged ==
  ASSUME ChannelInv, UNCHANGED registryVars
  PROVE  ChannelInv'
BY DEF registryVars, connVars, recvVars, ChannelInv, ChannelShape, PhaseInv, OwnerInv

\* A MAVLink channel belongs to one connection for as long as its thread runs, and none
\* is lost.
THEOREM ChannelsAreOwned == SystemsSpec => []ChannelOwned
<1>1. SystemsInit => ChannelInv
  BY ChannelInitInv DEF SystemsInit
<1>2. ChannelInv /\ [SystemStep \/ RegistryStep]_systemsVars => ChannelInv'
  BY ChannelStepInv, ChannelUnchanged DEF SystemStep, RegistryStep, systemsVars
<1>3. ChannelInv => ChannelOwned
  BY DEF ChannelInv, PhaseInv, OwnerInv, ChannelOwned
<1> QED
  BY <1>1, <1>2, <1>3, PTL DEF SystemsSpec

-----------------------------------------------------------------------------
(* Stopping the connections                                                *)

Listed == {list[i] : i \in DOMAIN list}
Outside == Running \ Listed

\* What is being stopped in the list is its first, by the destructor; what runs outside
\* of it is the one connection that is being added, or that could not be.
ListInv ==
  /\ list \in Seq(Conn) /\ exit \in [Conn -> BOOLEAN]
  /\ ~Died =>
       /\ \A i, j \in DOMAIN list : i # j => list[i] # list[j]
       /\ \A i \in DOMAIN list :
            \/ phase[list[i]] = "added"
            \/ i = 1 /\ Destroying /\ phase[list[i]] \in {"closed", "joined"} /\ exit[list[i]]
       /\ \A c \in Outside : userAt = "adding" /\ \A d \in Outside : c = d

StopInv == ChannelInv /\ ListInv

LEMMA StopInitInv == RegistryInit => ListInv
<1> SUFFICES ASSUME RegistryInit PROVE ListInv
  OBVIOUS
<1>1. list = <<>> /\ DOMAIN list = {} /\ Running = {}
  BY DEF RegistryInit, Running
<1> QED
  BY <1>1 DEF RegistryInit, ListInv, Outside

\* A step that leaves the list, the phases and who is adding or destroying alone
LEMMA ListKept ==
  ASSUME ListInv, UNCHANGED <<list, phase, exit>>,
         userAt \in {"adding", "destroying", "died"} => userAt' \in {userAt, "died"}
  PROVE  ListInv'
<1>1. Outside' = Outside /\ DOMAIN list' = DOMAIN list
  BY DEF Outside, Running, Listed
<1>2. Died => Died'
  BY DEF Died
<1>3. Destroying /\ ~Died' => Destroying'
  BY DEF Destroying, Died
<1>4. userAt = "adding" /\ ~Died' => userAt' = "adding"
  BY DEF Died
<1> QED
  BY <1>1, <1>2, <1>3, <1>4 DEF ListInv

LEMMA ThreadsKeepList ==
  ASSUME ListInv,
         \/ \E c \in Conn :
               \/ Top(c) \/ Reconnect(c) \/ Call(c) \/ CallFails(c) \/ Woken(c) \/ RecvFails(c)
               \/ SendFails(c) \/ Datagram(c)
               \/ Ignore(c) \/ ReceiveKnown(c) \/ ReceiveNew(c) \/ ReceiveNull(c)
         \/ \E s \in DOMAIN sysid : TimeOut(s)
         \/ GetSystem \/ (\E id \in SysId : GetSystemOf(id))
         \/ GetUnknown \/ MakeDummy \/ LookUpDummy \/ RegisterOnDiscover \/ UseNull \/ Destroy
  PROVE  ListInv'
<1> USE DEF connVars
<1>1. UNCHANGED <<list, phase, exit>>
  BY DEF Top, Reconnect, Call, CallFails, Woken, RecvFails, SendFails, Datagram, Ignore,
         ReceiveKnown, ReceiveNew, ReceiveNull, TimeOut, GetSystem, GetSystemOf, GetUnknown,
         MakeDummy, LookUpDummy, RegisterOnDiscover, UseNull, Destroy
<1>2. userAt \in {"adding", "destroying", "died"} => userAt' \in {userAt, "died"}
  BY DEF Top, Reconnect, Call, CallFails, Woken, RecvFails, ReadFails, SendFails, Datagram, Ignore,
         ReceiveKnown, ReceiveNew, ReceiveNull, TimeOut, GetSystem, GetSystemOf, GetUnknown,
         MakeDummy, LookUpDummy, RegisterOnDiscover, UseNull, Destroy, Die
<1> QED
  BY <1>1, <1>2, ListKept

\* A connection is added, or it fails and is stopped: it is outside until then.
LEMMA AddingStep ==
  ASSUME StopInv, ~Died, NEW c \in Conn,
         \/ Checkout(c) \/ Exhausted(c) \/ SetupPort(c) \/ StartRecvThread(c)
  PROVE  ListInv'
<1> USE DEF StopInv, ChannelInv, ChannelShape
<1>1. /\ UNCHANGED <<list, exit>> /\ \A d \in Conn \ {c} : phase'[d] = phase[d]
      /\ phase[c] \in {"none", "ready", "open"}
  BY DEF Checkout, Exhausted, SetupPort, StartRecvThread
<1>2. c \notin Listed
  <2>1. \A i \in DOMAIN list : phase[list[i]] \in {"added", "closed", "joined"}
    BY DEF ListInv
  <2> QED
    BY <1>1, <2>1, Zenon DEF Listed
<1>3. Listed' = Listed
  BY <1>1 DEF Listed
<1>4. \A i \in DOMAIN list : list[i] \in Conn \ {c}
  BY <1>2 DEF Listed, ListInv
<1>5. \A i \in DOMAIN list :
        \/ phase'[list[i]] = "added"
        \/ i = 1 /\ Destroying /\ phase'[list[i]] \in {"closed", "joined"} /\ exit[list[i]]
  BY <1>1, <1>4 DEF ListInv
<1>6. Destroying => Destroying'
  BY DEF Destroying, Checkout, Begin, Exhausted, SetupPort, StartRecvThread
<1>7. \A d \in Outside' : userAt' = "adding" /\ \A e \in Outside' : d = e
  <2>1. \A d \in Conn \ {c} : d \in Outside' <=> d \in Outside
    BY <1>1, <1>3 DEF Outside, Running
  <2>2. CASE Checkout(c) \/ Exhausted(c)
    <3>1. Outside = {}
      BY <2>2 DEF ListInv, Checkout, Begin, Exhausted
    <3>2. CASE Checkout(c)
      BY <2>1, <3>1, <3>2 DEF Checkout, Begin, Outside, Running
    <3>3. CASE Exhausted(c)
      BY <2>1, <3>1, <3>3 DEF Exhausted, Outside, Running
    <3> QED
      BY <2>2, <3>2, <3>3
  <2>3. CASE SetupPort(c) \/ StartRecvThread(c)
    <3>1. c \in Outside /\ userAt' = "adding"
      BY <1>2, <2>3 DEF SetupPort, StartRecvThread, Outside, Running
    <3>2. Outside' \subseteq Outside
      BY <2>1, <3>1 DEF Outside, Running
    <3> QED
      BY <3>1, <3>2 DEF ListInv
  <2> QED
    BY <2>2, <2>3
<1> QED
  BY <1>1, <1>5, <1>6, <1>7 DEF ListInv

LEMMA AddedStep ==
  ASSUME StopInv, ~Died, NEW c \in Conn, AddConnection(c)
  PROVE  ListInv'
<1> USE DEF StopInv, ChannelInv, ChannelShape
<1>1. /\ list' = Append(list, c) /\ exit' = exit /\ phase[c] = "started" /\ phase'[c] = "added"
      /\ \A d \in Conn \ {c} : phase'[d] = phase[d]
      /\ userAt = "adding" /\ userAt' = "idle"
  BY DEF AddConnection
<1>2. /\ list' \in Seq(Conn) /\ Len(list') = Len(list) + 1 /\ list'[Len(list) + 1] = c
      /\ \A i \in DOMAIN list : list'[i] = list[i]
      /\ DOMAIN list' = DOMAIN list \cup {Len(list) + 1}
  BY <1>1 DEF ListInv
<1>3. c \notin Listed
  <2>1. \A i \in DOMAIN list : phase[list[i]] \in {"added", "closed", "joined"}
    BY DEF ListInv
  <2> QED
    BY <1>1, <2>1, Zenon DEF Listed
<1>4. \A i \in DOMAIN list : list[i] \in Conn \ {c} /\ phase[list[i]] = "added"
  BY <1>1, <1>3 DEF Listed, ListInv, Destroying
<1>5. \A i \in DOMAIN list' : phase'[list'[i]] = "added"
  BY <1>1, <1>2, <1>4
<1>6. \A i, j \in DOMAIN list' : i # j => list'[i] # list'[j]
  <2>1. \A i, j \in DOMAIN list : i # j => list'[i] # list'[j]
    BY <1>2, SMTT(30) DEF ListInv
  <2>2. \A i \in DOMAIN list : list'[i] # list'[Len(list) + 1]
    BY <1>2, <1>4
  <2> QED
    BY <1>2, <2>1, <2>2
<1>7. c \in Outside /\ Listed' = Listed \cup {c}
  <2>1. \A d : d \in Listed' => d \in Listed \cup {c}
    BY <1>2 DEF Listed
  <2>2. \A d : d \in Listed \cup {c} => d \in Listed'
    BY <1>2 DEF Listed
  <2> QED
    BY <1>1, <1>3, <2>1, <2>2 DEF Outside, Running
<1>8. Outside' = {}
  BY <1>1, <1>7, SMTT(30) DEF Outside, Running, ListInv
<1> QED
  BY <1>1, <1>2, <1>5, <1>6, <1>8 DEF ListInv

LEMMA ClosingStep ==
  ASSUME StopInv, ~Died, NEW c \in Conn, Close(c) \/ Join(c)
  PROVE  ListInv'
<1> USE DEF StopInv, ChannelInv, ChannelShape
<1>1. /\ UNCHANGED <<list, userAt>> /\ \A d \in Conn \ {c} : phase'[d] = phase[d]
      /\ phase[c] \in {"failed", "added", "closed"} /\ phase'[c] \in {"closed", "joined"}
      /\ exit' \in [Conn -> BOOLEAN] /\ \A d \in Conn : exit[d] => exit'[d]
  <2>1. CASE Close(c)
    <3>1. /\ UNCHANGED <<list, userAt>> /\ phase' = [phase EXCEPT ![c] = "closed"]
          /\ phase[c] \in {"failed", "added"} /\ exit' = [exit EXCEPT ![c] = TRUE]
      BY <2>1 DEF Close
    <3> QED
      BY <3>1 DEF ListInv
  <2>2. CASE Join(c)
    <3>1. /\ UNCHANGED <<list, userAt, exit>> /\ phase' = [phase EXCEPT ![c] = "joined"]
          /\ phase[c] = "closed"
      BY <2>2 DEF Join
    <3> QED
      BY <3>1 DEF ListInv
  <2> QED
    BY <2>1, <2>2, Zenon
<1>2. Listed' = Listed /\ Running' = Running /\ Outside' = Outside
  <2>1. Listed' = Listed
    BY <1>1 DEF Listed
  <2>2. Running' = Running
    BY <1>1 DEF Running
  <2> QED
    BY <2>1, <2>2 DEF Outside
<1>3. ASSUME NEW i \in DOMAIN list, list[i] = c
      PROVE  i = 1 /\ Destroying /\ exit'[c]
  <2>1. CASE Close(c)
    <3>1. Destroying /\ c = Head(list) /\ exit'[c]
      BY <1>3, <2>1 DEF Close, ListInv, Died
    <3>2. list[1] = c /\ 1 \in DOMAIN list
      BY <1>3, <3>1 DEF ListInv
    <3> QED
      BY <1>3, <3>1, <3>2 DEF ListInv
  <2>2. CASE Join(c)
    BY <1>1, <1>3, <2>2 DEF Join, ListInv
  <2> QED
    BY <2>1, <2>2
<1>4. \A i \in DOMAIN list' :
        \/ phase'[list'[i]] = "added"
        \/ i = 1 /\ Destroying' /\ phase'[list'[i]] \in {"closed", "joined"} /\ exit'[list'[i]]
  <2> TAKE i \in DOMAIN list'
  <2>1. i \in DOMAIN list /\ list[i] \in Conn
    BY <1>1 DEF ListInv
  <2>2. CASE list[i] = c
    BY <1>1, <1>3, <2>1, <2>2 DEF Destroying
  <2>3. CASE list[i] # c
    BY <1>1, <2>1, <2>3 DEF ListInv, Destroying
  <2> QED
    BY <2>2, <2>3
<1> QED
  BY <1>1, <1>2, <1>4 DEF ListInv

LEMMA StoppedStep ==
  ASSUME StopInv, NEW c \in Conn, StopReceiver(c)
  PROVE  ListInv'
<1> USE DEF StopInv, ChannelInv, ChannelShape
<1>1. /\ exit' = exit /\ phase[c] = "joined" /\ phase'[c] = "gone" /\ ~Died
      /\ \A d \in Conn \ {c} : phase'[d] = phase[d]
  BY DEF StopReceiver
<1>2. CASE Destroying
  <2>1. list' = Tail(list) /\ userAt' = userAt
    BY <1>2 DEF StopReceiver
  <2>2. Outside = {}
    BY <1>1, <1>2 DEF ListInv, Destroying
  <2>3. PICK i \in DOMAIN list : list[i] = c
    BY <1>1, <2>2 DEF Outside, Running, Listed
  <2>4. i = 1
    BY <1>1, <2>3 DEF ListInv
  <2>5. /\ list' \in Seq(Conn) /\ DOMAIN list' = 1..(Len(list) - 1)
        /\ \A j \in DOMAIN list' : j + 1 \in DOMAIN list /\ list'[j] = list[j + 1]
    BY <2>1, <2>3 DEF ListInv
  <2>6. \A j \in DOMAIN list' : list'[j] \in Conn \ {c} /\ phase[list'[j]] = "added"
    <3> TAKE j \in DOMAIN list'
    <3>1. j + 1 \in DOMAIN list /\ j + 1 # 1 /\ list'[j] = list[j + 1]
      BY <2>5
    <3>2. list[j + 1] # c /\ list[j + 1] \in Conn
      BY <1>1, <2>3, <2>4, <3>1 DEF ListInv
    <3> QED
      BY <1>1, <3>1, <3>2 DEF ListInv
  <2>7. \A j, k \in DOMAIN list' : j # k => list'[j] # list'[k]
    <3> TAKE j, k \in DOMAIN list'
    <3>1. j + 1 \in DOMAIN list /\ k + 1 \in DOMAIN list /\ (j # k => j + 1 # k + 1)
      BY <2>5
    <3> QED
      BY <1>1, <2>5, <3>1 DEF ListInv
  <2>8. Outside' = {}
    <3> SUFFICES ASSUME NEW d \in Running' PROVE d \in Listed'
      BY DEF Outside
    <3>1. d # c /\ d \in Running
      BY <1>1 DEF Running
    <3>2. PICK j \in DOMAIN list : list[j] = d
      BY <2>2, <3>1 DEF Outside, Listed
    <3>3. j - 1 \in DOMAIN list' /\ list'[j - 1] = d
      BY <2>1, <2>3, <2>4, <3>1, <3>2 DEF ListInv
    <3> QED
      BY <3>3 DEF Listed
  <2> QED
    BY <1>1, <2>5, <2>6, <2>7, <2>8, SMTT(30) DEF ListInv
<1>3. CASE ~Destroying
  <2>1. list' = list /\ userAt' = "idle"
    BY <1>3 DEF StopReceiver
  <2>2. c \notin Listed /\ c \in Outside
    BY <1>1, <1>3 DEF ListInv, Listed, Outside, Running
  <2>3. Outside = {c}
    BY <1>1, <2>2 DEF ListInv
  <2>4. Listed' = Listed
    BY <2>1 DEF Listed
  <2>5. Outside' = {}
    BY <1>1, <2>3, <2>4 DEF Outside, Running
  <2>6. \A i \in DOMAIN list : list[i] \in Conn \ {c} /\ phase[list[i]] = "added"
    BY <1>1, <1>3, <2>2 DEF ListInv, Listed
  <2> QED
    BY <1>1, <2>1, <2>5, <2>6 DEF ListInv
<1> QED
  BY <1>2, <1>3

LEMMA DeadStep ==
  ASSUME ListInv, Died, ChannelInv, NEW c \in Conn,
         \/ Checkout(c) \/ Exhausted(c) \/ SetupPort(c) \/ StartRecvThread(c) \/ AddConnection(c)
         \/ Close(c) \/ Join(c)
  PROVE  ListInv'
BY DEF ListInv, Died, Destroying, Checkout, Begin, Exhausted, SetupPort, StartRecvThread,
       AddConnection, Close, Join

LEMMA ListStepInv ==
  ASSUME StopInv, RegistryNext
  PROVE  ListInv'
<1>1. CASE \E c \in Conn : Checkout(c) \/ Exhausted(c) \/ SetupPort(c) \/ StartRecvThread(c)
  BY <1>1, AddingStep, DeadStep DEF StopInv
<1>2. CASE \E c \in Conn : AddConnection(c) \/ Close(c) \/ Join(c) \/ StopReceiver(c)
  BY <1>2, AddedStep, ClosingStep, StoppedStep, DeadStep DEF StopInv
<1> QED
  BY <1>1, <1>2, ThreadsKeepList DEF RegistryNext, StopInv

\* The destructor of the SDK has every connection that still runs in its list, once, and
\* takes them in turn, also when adding some of them had failed.
THEOREM EachIsStopped == SystemsSpec => []StopsEach
<1>1. SystemsInit => StopInv
  BY ChannelInitInv, StopInitInv DEF SystemsInit, StopInv
<1>2. StopInv /\ [SystemStep \/ RegistryStep]_systemsVars => StopInv'
  <2>1. StopInv /\ UNCHANGED registryVars => StopInv'
    BY ChannelUnchanged, ListKept DEF StopInv, registryVars, connVars
  <2> QED
    BY <2>1, ChannelStepInv, ListStepInv DEF StopInv, SystemStep, RegistryStep, systemsVars
<1>3. StopInv => StopsEach
  BY DEF StopInv, ListInv, StopsEach, Outside, Listed, Destroying, Died, Running, ChannelInv,
         ChannelShape
<1> QED
  BY <1>1, <1>2, <1>3, PTL DEF SystemsSpec

-----------------------------------------------------------------------------
(* The systems                                                             *)

TableShape ==
  /\ message \in [Conn -> SysId \cup {0}]
  /\ sysid \in Seq(SysId \cup {0})
  /\ \A id \in DOMAIN systems :
        systems[id] \in DOMAIN sysid \/ (id = 0 /\ systems[id] = Null)
  /\ handed \subseteq DOMAIN sysid

\* A system that is connected has an id that it keeps.
PresentInv == \A s \in present : \E id \in DOMAIN systems : id # 0 /\ systems[id] = s

\* Without a dummy, a system is in the table under its own id, the one of id 0 is
\* alone there, and whoever is handed out stays.
ReferenceInv ==
  ~asked /\ ~Destroying /\ ~Died =>
    /\ \A id \in DOMAIN systems : systems[id] \in DOMAIN sysid /\ sysid[systems[id]] = id
    /\ Holds(0) => \A id \in DOMAIN systems : id = 0
    /\ \A s \in handed : Holds(sysid[s]) /\ systems[sysid[s]] = s

AskedInv == userAt \in {"unknown", "lookup"} => asked

TableInv == TableShape /\ PresentInv /\ ReferenceInv /\ AskedInv /\ NoMissedDiscovery

LEMMA TableInitInv == RegistryInit => TableInv
<1> SUFFICES ASSUME RegistryInit PROVE TableInv
  OBVIOUS
<1> USE DEF RegistryInit
<1>1. sysid = <<>> /\ DOMAIN systems = {} /\ handed = {} /\ present = {}
  OBVIOUS
<1>2. sysid \in Seq(SysId \cup {0})
  BY <1>1
<1> QED
  BY <1>1, <1>2 DEF TableInv, TableShape, PresentInv, ReferenceInv, AskedInv, NoMissedDiscovery, Holds

\* A step that leaves the table alone
LEMMA TableKept ==
  ASSUME TableInv, UNCHANGED systemVars, message' \in [Conn -> SysId \cup {0}],
         userAt' = userAt \/ userAt' = "died" \/
            (userAt' \in {"idle", "adding"} /\ ~Destroying /\ ~Died)
  PROVE  TableInv'
BY DEF TableInv, TableShape, PresentInv, ReferenceInv, AskedInv, NoMissedDiscovery, Holds,
       systemVars, Destroying, Died

LEMMA ConnectionsKeepTable ==
  ASSUME TableInv, NEW c \in Conn,
         \/ Checkout(c) \/ Exhausted(c) \/ SetupPort(c) \/ StartRecvThread(c) \/ AddConnection(c)
         \/ Close(c) \/ Join(c) \/ StopReceiver(c)
         \/ Top(c) \/ Reconnect(c) \/ Call(c) \/ CallFails(c) \/ Woken(c) \/ RecvFails(c)
         \/ SendFails(c) \/ Datagram(c) \/ Ignore(c) \/ ReceiveNull(c)
  PROVE  TableInv'
<1> USE DEF recvVars, TableInv, TableShape
<1>1. CASE \/ Checkout(c) \/ Exhausted(c) \/ SetupPort(c) \/ StartRecvThread(c) \/ AddConnection(c)
           \/ Close(c) \/ Join(c) \/ StopReceiver(c)
  BY <1>1, TableKept DEF Destroying, Died, Checkout, Begin, Exhausted, SetupPort, StartRecvThread, AddConnection,
                         Close, Join, StopReceiver
<1>2. CASE \/ Top(c) \/ Reconnect(c) \/ Call(c) \/ CallFails(c) \/ Woken(c) \/ RecvFails(c)
           \/ SendFails(c)
  BY <1>2, TableKept DEF Top, Reconnect, Call, CallFails, Woken, RecvFails, SendFails, ReadFails, Die
<1>3. CASE Datagram(c) \/ Ignore(c) \/ ReceiveNull(c)
  BY <1>3, TableKept DEF Datagram, Ignore, ReceiveNull, Done, Die
<1> QED
  BY <1>1, <1>2, <1>3

\* A heartbeat may connect a system that has its id in the table.
LEMMA ProcessStep ==
  ASSUME PresentInv, NoMissedDiscovery, NEW id \in DOMAIN systems', id # 0,
         Process(systems'[id]), callback' = callback,
         \A i \in DOMAIN systems : i # 0 => i \in DOMAIN systems' /\ systems'[i] = systems[i]
  PROVE  PresentInv' /\ NoMissedDiscovery'
BY DEF Process, PresentInv, NoMissedDiscovery

\* A system of a new number under an id that is free
LEMMA MakeStep ==
  ASSUME TableInv, NEW id \in SysId \cup {0}, Make(id), id \notin DOMAIN systems
  PROVE  /\ DOMAIN systems' = DOMAIN systems \cup {id} /\ systems'[id] = Len(sysid) + 1
         /\ \A i \in DOMAIN systems : systems'[i] = systems[i]
         /\ sysid' \in Seq(SysId \cup {0}) /\ DOMAIN sysid' = DOMAIN sysid \cup {Len(sysid) + 1}
         /\ sysid'[Len(sysid) + 1] = id /\ Len(sysid) + 1 \notin DOMAIN sysid
         /\ \A s \in DOMAIN sysid : sysid'[s] = sysid[s]
<1>1. systems' = Bind(systems, id, Len(sysid) + 1) /\ sysid' = Append(sysid, id)
  BY DEF Make
<1>2. sysid \in Seq(SysId \cup {0})
  BY DEF TableInv, TableShape
<1>3. Len(sysid) \in Nat /\ DOMAIN sysid = 1..Len(sysid)
  BY <1>2
<1>4. /\ sysid' \in Seq(SysId \cup {0}) /\ Len(sysid') = Len(sysid) + 1
      /\ sysid'[Len(sysid) + 1] = id
      /\ \A s \in 1..Len(sysid) : sysid'[s] = sysid[s]
  BY <1>1, <1>2, AppendProperties
<1>5. DOMAIN sysid' = 1..(Len(sysid) + 1)
  BY <1>4
<1>6. DOMAIN sysid' = DOMAIN sysid \cup {Len(sysid) + 1} /\ Len(sysid) + 1 \notin DOMAIN sysid
  BY <1>3, <1>5
<1> QED
  BY <1>1, <1>3, <1>4, <1>6 DEF Bind

\* and who refers to the others still does
LEMMA MadeReferences ==
  ASSUME TableInv, NEW id \in SysId \cup {0}, Make(id), id \notin DOMAIN systems,
         id # 0 => ~Holds(0), id = 0 => DOMAIN systems = {},
         asked' = asked, userAt' = userAt,
         handed' \subseteq handed \cup {Len(sysid) + 1}, message' \in [Conn -> SysId \cup {0}]
  PROVE  TableShape' /\ ReferenceInv' /\ AskedInv'
<1> DEFINE new == Len(sysid) + 1
<1>1. /\ DOMAIN systems' = DOMAIN systems \cup {id} /\ systems'[id] = new
      /\ \A i \in DOMAIN systems : systems'[i] = systems[i]
      /\ sysid' \in Seq(SysId \cup {0}) /\ DOMAIN sysid' = DOMAIN sysid \cup {new}
      /\ sysid'[new] = id /\ new \notin DOMAIN sysid
      /\ \A s \in DOMAIN sysid : sysid'[s] = sysid[s]
  BY MakeStep
<1> HIDE DEF new
<1>2. handed' \subseteq handed \cup {new}
  BY DEF new
<1>3. TableShape'
  BY <1>1, <1>2 DEF TableInv, TableShape
<1>4. ASSUME ~asked', ~Destroying', ~Died'
      PROVE  /\ \A i \in DOMAIN systems' : systems'[i] \in DOMAIN sysid' /\ sysid'[systems'[i]] = i
             /\ 0 \in DOMAIN systems' => \A i \in DOMAIN systems' : i = 0
             /\ \A s \in handed' : sysid'[s] \in DOMAIN systems' /\ systems'[sysid'[s]] = s
  <2>1. ~asked /\ ~Destroying /\ ~Died
    BY <1>4 DEF Destroying, Died
  <2>2. \A i \in DOMAIN systems : systems[i] \in DOMAIN sysid /\ sysid[systems[i]] = i
    BY <2>1 DEF TableInv, ReferenceInv
  <2>3. \A s \in handed : sysid[s] \in DOMAIN systems /\ systems[sysid[s]] = s
    BY <2>1 DEF TableInv, ReferenceInv, Holds
  <2>4. handed \subseteq DOMAIN sysid
    BY DEF TableInv, TableShape
  <2>5. \A i \in DOMAIN systems' : systems'[i] \in DOMAIN sysid' /\ sysid'[systems'[i]] = i
    BY <1>1, <2>2
  <2>6. \A s \in handed' : sysid'[s] \in DOMAIN systems' /\ systems'[sysid'[s]] = s
    BY <1>1, <1>2, <2>3, <2>4
  <2>7. 0 \in DOMAIN systems' => \A i \in DOMAIN systems' : i = 0
    BY <1>1 DEF Holds
  <2> QED
    BY <2>5, <2>6, <2>7
<1>5. ReferenceInv'
  BY <1>4 DEF ReferenceInv, Holds
<1> QED
  BY <1>3, <1>5 DEF TableInv, AskedInv

LEMMA ReceiveNewStep ==
  ASSUME TableInv, NEW c \in Conn, ReceiveNew(c)
  PROVE  TableInv'
<1> DEFINE id == message[c]
<1>1. /\ id \in SysId \cup {0} /\ id # 0 /\ id \notin DOMAIN systems /\ ~Holds(0) /\ Make(id)
      /\ Process(Len(sysid) + 1) /\ UNCHANGED <<callback, handed, asked, userAt>>
  BY DEF ReceiveNew, Accepted, Holds, TableInv, TableShape
<1>2. message' \in [Conn -> SysId \cup {0}]
  BY DEF ReceiveNew, Done, TableInv, TableShape
<1> HIDE DEF id
<1>3. TableShape' /\ ReferenceInv' /\ AskedInv'
  BY <1>1, <1>2, MadeReferences
<1>4. /\ DOMAIN systems' = DOMAIN systems \cup {id} /\ systems'[id] = Len(sysid) + 1
      /\ \A i \in DOMAIN systems : systems'[i] = systems[i]
  BY <1>1, MakeStep
<1>5. PresentInv' /\ NoMissedDiscovery'
  BY <1>1, <1>4, ProcessStep DEF TableInv
<1> QED
  BY <1>3, <1>5 DEF TableInv

\* A message of an id in the table, or of the system that has none yet: what the table
\* has besides id 0 stays, and without a dummy the system of id 0 was alone.
LEMMA RenamedTable ==
  ASSUME TableInv, ~Dangling, NEW id \in SysId \ {0},
         systems' = Renamed(id).systems, sysid' = Renamed(id).sysid, id \in DOMAIN systems',
         handed' = handed, asked' = asked, userAt' = userAt, message' \in [Conn -> SysId \cup {0}]
  PROVE  /\ TableShape' /\ ReferenceInv' /\ AskedInv'
         /\ \A i \in DOMAIN systems : i # 0 => i \in DOMAIN systems' /\ systems'[i] = systems[i]
<1> USE DEF TableInv
<1>1. CASE ~Holds(0)
  <2>1. systems' = systems /\ sysid' = sysid
    BY <1>1 DEF Renamed
  <2> QED
    BY <2>1 DEF TableShape, ReferenceInv, AskedInv, Holds, Destroying, Died
<1>2. CASE Holds(0)
  <2> DEFINE first == systems[0]
  <2>1. first \in DOMAIN sysid
    BY <1>2 DEF TableShape, Dangling, Holds
  <2>2. /\ sysid' = [sysid EXCEPT ![first] = id]
        /\ systems' = Bind([i \in (DOMAIN systems) \ {0} |-> systems[i]], id, first)
    BY <1>2 DEF Renamed
  <2> HIDE DEF first
  <2>3. /\ DOMAIN systems' = (DOMAIN systems \ {0}) \cup {id}
        /\ \A i \in DOMAIN systems \ {0} : systems'[i] = systems[i]
        /\ id \notin DOMAIN systems => systems'[id] = first
    BY <2>2 DEF Bind
  <2>4. /\ sysid' \in Seq(SysId \cup {0}) /\ DOMAIN sysid' = DOMAIN sysid
        /\ sysid'[first] = id /\ \A s \in DOMAIN sysid \ {first} : sysid'[s] = sysid[s]
    <3>1. sysid \in Seq(SysId \cup {0}) /\ first \in 1..Len(sysid) /\ id \in SysId \cup {0}
      BY <2>1 DEF TableShape
    <3>2. sysid' \in Seq(SysId \cup {0})
      BY <2>2, <3>1, ExceptSeq
    <3> QED
      BY <2>1, <2>2, <3>2
  <2>5. TableShape'
    BY <2>1, <2>3, <2>4 DEF TableShape
  <2>6. ASSUME ~asked', ~Destroying', ~Died'
        PROVE  /\ \A i \in DOMAIN systems' : systems'[i] \in DOMAIN sysid' /\ sysid'[systems'[i]] = i
               /\ ~Holds(0)'
               /\ \A s \in handed' : Holds(sysid[s])' /\ systems'[sysid'[s]] = s
    <3>1. ~asked /\ ~Destroying /\ ~Died
      BY <2>6 DEF Destroying, Died
    <3>2. DOMAIN systems = {0}
      BY <1>2, <3>1 DEF ReferenceInv, Holds
    <3>3. \A s \in handed : s = first
      BY <3>1, <3>2 DEF ReferenceInv, Holds, first
    <3>4. DOMAIN systems' = {id} /\ systems'[id] = first
      BY <2>3, <3>2
    <3> QED
      BY <2>1, <2>4, <3>3, <3>4 DEF Holds
  <2> QED
    BY <2>3, <2>5, <2>6 DEF ReferenceInv, AskedInv
<1> QED
  BY <1>1, <1>2

LEMMA ReceiveKnownStep ==
  ASSUME TableInv, NEW c \in Conn, ReceiveKnown(c)
  PROVE  TableInv'
<1> DEFINE id == message[c]
<1>1. /\ id \in SysId \ {0} /\ ~Dangling
      /\ systems' = Renamed(id).systems /\ sysid' = Renamed(id).sysid /\ id \in DOMAIN systems'
      /\ Process(systems'[id]) /\ UNCHANGED <<callback, handed, asked, userAt>>
  BY DEF ReceiveKnown, Accepted, TableInv, TableShape
<1>2. message' \in [Conn -> SysId \cup {0}]
  BY DEF ReceiveKnown, Done, TableInv, TableShape
<1> HIDE DEF id
<1>3. /\ TableShape' /\ ReferenceInv' /\ AskedInv'
      /\ \A i \in DOMAIN systems : i # 0 => i \in DOMAIN systems' /\ systems'[i] = systems[i]
  BY <1>1, <1>2, RenamedTable
<1>4. PresentInv' /\ NoMissedDiscovery'
  BY <1>1, <1>3, ProcessStep DEF TableInv
<1> QED
  BY <1>3, <1>4 DEF TableInv

\* get_system: the user has a reference to a system of the table from now on.
LEMMA GetSystemStep ==
  ASSUME TableInv, GetSystem
  PROVE  TableInv'
<1>1. UNCHANGED <<message, present, callback, told, asked, userAt>>
  BY DEF GetSystem, recvVars
<1>2. message' \in [Conn -> SysId \cup {0}]
  BY <1>1 DEF TableInv, TableShape
<1>3. CASE DOMAIN systems = {}
  <2>1. Make(0) /\ handed' = handed \cup {Len(sysid) + 1}
    BY <1>3 DEF GetSystem
  <2>2. TableShape' /\ ReferenceInv' /\ AskedInv'
    BY <1>1, <1>2, <1>3, <2>1, MadeReferences
  <2> QED
    BY <1>1, <1>3, <2>2 DEF TableInv, PresentInv, NoMissedDiscovery
<1>4. CASE DOMAIN systems # {}
  <2>1. systems' = systems /\ sysid' = sysid
    BY <1>4 DEF GetSystem
  <2>2. PICK id \in DOMAIN systems : handed' = (handed \cup {systems[id]}) \ {Null}
    BY <1>4 DEF GetSystem
  <2>3. TableShape'
    BY <1>1, <2>1, <2>2 DEF TableInv, TableShape
  <2>4. ReferenceInv'
    BY <1>1, <2>1, <2>2 DEF TableInv, ReferenceInv, Holds, Destroying, Died
  <2> QED
    BY <1>1, <2>1, <2>3, <2>4 DEF TableInv, PresentInv, AskedInv, NoMissedDiscovery
<1> QED
  BY <1>3, <1>4

LEMMA GetSystemOfStep ==
  ASSUME TableInv, NEW id \in SysId, GetSystemOf(id)
  PROVE  TableInv'
<1>1. /\ UNCHANGED <<message, systems, sysid, present, callback, told, asked, userAt>>
      /\ handed' = handed \cup {systems[id]} /\ id \in DOMAIN systems
  BY DEF GetSystemOf, recvVars, Holds
<1>3. TableShape'
  BY <1>1 DEF TableInv, TableShape, GetSystemOf, Dangling, Holds
<1>4. ReferenceInv'
  BY <1>1 DEF TableInv, ReferenceInv, Holds, Destroying, Died
<1> QED
  BY <1>1, <1>3, <1>4 DEF TableInv, PresentInv, AskedInv, NoMissedDiscovery

\* The dummy: nothing is promised once it was asked for, but who is connected stays.
LEMMA DummyStep ==
  ASSUME TableInv, GetUnknown \/ MakeDummy \/ LookUpDummy
  PROVE  TableInv'
<1> USE DEF recvVars
<1>1. CASE GetUnknown
  BY <1>1 DEF GetUnknown, TableInv, TableShape, PresentInv, ReferenceInv, AskedInv,
              NoMissedDiscovery
<1>2. CASE MakeDummy
  <2>1. asked' /\ UNCHANGED <<message, present, callback, told, handed>>
    BY <1>2 DEF MakeDummy, TableInv, AskedInv
  <2>2. CASE Holds(0)
    BY <1>2, <2>1, <2>2 DEF MakeDummy, TableInv, TableShape, PresentInv, ReferenceInv, AskedInv,
                            NoMissedDiscovery
  <2>3. CASE ~Holds(0)
    <3>1. Make(0)
      BY <1>2, <2>3 DEF MakeDummy
    <3>2. /\ DOMAIN systems' = DOMAIN systems \cup {0} /\ systems'[0] = Len(sysid) + 1
          /\ \A i \in DOMAIN systems : systems'[i] = systems[i]
          /\ sysid' \in Seq(SysId \cup {0}) /\ DOMAIN sysid' = DOMAIN sysid \cup {Len(sysid) + 1}
      BY <2>3, <3>1, MakeStep DEF Holds
    <3> QED
      BY <2>1, <3>2 DEF TableInv, TableShape, PresentInv, ReferenceInv, AskedInv, NoMissedDiscovery
  <2> QED
    BY <2>2, <2>3
<1>3. CASE LookUpDummy
  <2>1. asked' /\ UNCHANGED <<message, present, callback, told, sysid>>
    BY <1>3 DEF LookUpDummy, TableInv, AskedInv
  <2>2. /\ DOMAIN systems' = DOMAIN systems \cup {0}
        /\ \A i \in DOMAIN systems : systems'[i] = systems[i]
        /\ 0 \notin DOMAIN systems => systems'[0] = Null
        /\ handed' = (handed \cup {systems'[0]}) \ {Null}
    BY <1>3 DEF LookUpDummy, Bind
  <2>3. TableShape'
    BY <2>1, <2>2 DEF TableInv, TableShape
  <2> QED
    BY <2>1, <2>2, <2>3 DEF TableInv, PresentInv, ReferenceInv, AskedInv, NoMissedDiscovery
<1> QED
  BY <1>1, <1>2, <1>3

\* Registering counts who is connected already as told; a timeout takes a system from both.
LEMMA DiscoveryStep ==
  ASSUME TableInv, RegisterOnDiscover \/ (\E s \in DOMAIN sysid : TimeOut(s)) \/ UseNull \/ Destroy
  PROVE  TableInv'
<1> USE DEF recvVars
<1>1. CASE RegisterOnDiscover
  <2>1. present \subseteq {systems[id] : id \in DOMAIN systems}
    BY DEF TableInv, PresentInv
  <2>2. NoMissedDiscovery'
    BY <1>1, <2>1 DEF RegisterOnDiscover, NoMissedDiscovery
  <2> QED
    BY <1>1, <2>2 DEF RegisterOnDiscover, TableInv, TableShape, PresentInv, ReferenceInv, AskedInv,
                      Holds, Destroying, Died
<1>2. ASSUME NEW s \in DOMAIN sysid, TimeOut(s) PROVE TableInv'
  BY <1>2 DEF TimeOut, TableInv, TableShape, PresentInv, ReferenceInv, AskedInv,
              NoMissedDiscovery, Holds, Destroying, Died
<1>3. CASE UseNull
  BY <1>3, TableKept DEF UseNull, Die, TableInv, TableShape
<1>4. CASE Destroy
  BY <1>4 DEF Destroy, TableInv, TableShape, PresentInv, ReferenceInv, AskedInv,
              NoMissedDiscovery, Destroying
<1> QED
  BY <1>1, <1>2, <1>3, <1>4

LEMMA TableStepInv ==
  ASSUME TableInv, RegistryNext
  PROVE  TableInv'
BY ConnectionsKeepTable, ReceiveKnownStep, ReceiveNewStep, GetSystemStep, GetSystemOfStep,
   DummyStep, DiscoveryStep DEF RegistryNext

LEMMA TableUnchanged ==
  ASSUME TableInv, UNCHANGED registryVars
  PROVE  TableInv'
BY DEF registryVars, recvVars, systemVars, TableInv, TableShape, PresentInv, ReferenceInv,
       AskedInv, NoMissedDiscovery, Holds, Destroying, Died

\* A reference that get_system returned stays valid until the SDK is destroyed, unless the
\* user asks for a UUID that nobody has; and the user is told of every connected system.
THEOREM UsersAreServed == SystemsSpec => []UsersServed
<1>1. SystemsInit => TableInv
  BY TableInitInv DEF SystemsInit
<1>2. TableInv /\ [SystemStep \/ RegistryStep]_systemsVars => TableInv'
  BY TableStepInv, TableUnchanged DEF SystemStep, RegistryStep, systemsVars
<1>3. TableInv => UsersServed
  <2> SUFFICES ASSUME TableInv PROVE UsersServed
    OBVIOUS
  <2>1. Null \notin DOMAIN sysid
    BY DEF TableInv, TableShape, Null
  <2>2. ReferencesStay
    BY <2>1 DEF TableInv, ReferenceInv, ReferencesStay
  <2> QED
    BY <2>2 DEF TableInv, UsersServed
<1> QED
  BY <1>1, <1>2, <1>3, PTL DEF SystemsSpec
=============================================================================
