------------------------------- MODULE Offboard -------------------------------
(***************************************************************************)
(* OffboardImpl: velocity setpoints, sent again and again by the call-every*)
(* handler.  Everything done under _mutex is one step.                     *)
(***************************************************************************)
EXTENDS Vehicle

Frames == {"ned", "body"}

VARIABLES
    frame,    \* _mode: none, or the frame of the setpoints
    cookie,   \* _call_every_cookie: none, or the entry it refers to
    entries,  \* the plugin's entries in the call-every handler
    sending   \* the entry whose callback the system thread is in

offboardVars == <<frame, cookie, entries, sending>>

OffboardInit == frame = "none" /\ cookie = "none" /\ entries = {} /\ sending = "none"

\* (a faulty variant, for the properties: the other stream goes on)
SetVelocityBesides(f) ==
    /\ entries' = entries \cup {f} /\ cookie' = f /\ frame' = f
    /\ fed' = TRUE
    /\ UNCHANGED sending

\* set_velocity_ned, set_velocity_body: a stream in the other frame ends; and a
\* first setpoint is sent at once
SetVelocity(f) ==
    /\ IF frame = f
       THEN UNCHANGED <<frame, cookie, entries>>
       ELSE /\ entries' = (entries \ {cookie}) \cup {f}
            /\ cookie' = f /\ frame' = f
    /\ fed' = TRUE
    /\ UNCHANGED sending

\* stop_sending_setpoints
StopSending ==
    /\ entries' = entries \ {cookie} /\ cookie' = "none" /\ frame' = "none"
    /\ UNCHANGED sending

\* the call-every handler copies the callback and unlocks its map to call it
Tick ==
    /\ sending = "none"
    /\ \E e \in entries : sending' = e
    /\ UNCHANGED <<frame, cookie, entries, vehicleVars, commandVars, link>>

SendVelocity ==
    /\ sending # "none"
    /\ sending' = "none" /\ fed' = TRUE
    /\ UNCHANGED <<frame, cookie, entries, mode, armed, air, pilot, commandVars, link>>

\* the stream is faster than the vehicle's timeout
Silence ==
    /\ fed /\ entries = {} /\ sending = "none"
    /\ fed' = FALSE
    /\ UNCHANGED <<offboardVars, mode, armed, air, pilot, commandVars, link>>

\* (faulty: only while the command is under way)
HeartbeatDeaf ==
    /\ Receives("heartbeat")
    /\ IF Head(link).value # "offboard" /\ frame # "none" /\ pending["offboard"] # "none"
       THEN StopSending
       ELSE UNCHANGED offboardVars
    /\ UNCHANGED <<vehicleVars, commandVars>>

\* process_heartbeat: not in offboard mode any more, or not yet
Heartbeat ==
    /\ Receives("heartbeat")
    /\ IF Head(link).value # "offboard" /\ frame # "none"
       THEN StopSending
       ELSE UNCHANGED offboardVars
    /\ UNCHANGED <<vehicleVars, commandVars>>

OffboardTypeOK ==
    /\ frame \in Frames \cup {"none"} /\ cookie \in Frames \cup {"none"}
    /\ entries \subseteq Frames /\ sending \in Frames \cup {"none"}

\* However the user's calls, the heartbeats and the periodic sending interleave,
\* exactly the entry of the present mode is sent from, and none when there is none.
OneStream == entries = {frame} \ {"none"} /\ cookie = frame
===============================================================================
