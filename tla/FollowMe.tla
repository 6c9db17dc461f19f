------------------------------- MODULE FollowMe -------------------------------
(***************************************************************************)
(* FollowMeImpl: the location of a target, sent again and again while the  *)
(* vehicle is in its follow-me mode, as its heartbeats tell.               *)
(***************************************************************************)
EXTENDS Vehicle

VARIABLES
    following,     \* _mode is ACTIVE
    starting,      \* start() waits for the mode to be set
    located,       \* a target location has been set
    named,         \* _target_location_cookie refers to an entry
    senders,       \* the plugin's entries in the call-every handler
    locating       \* per thread: where it is in send_target_location()

followVars == <<following, starting, located, named, senders, locating>>

Locators == {"user", "system"}

FollowInit ==
    /\ following = FALSE /\ starting = FALSE /\ located = FALSE /\ named = FALSE /\ senders = 0
    /\ locating = [t \in Locators |-> "no"]

\* set_target_location.  While it is followed, a second call forgets the entry, and
\* the one after it adds another.
SetTargetLocation ==
    /\ locating["user"] = "no"
    /\ located' = TRUE
    /\ IF following
       THEN /\ named' = ~named
            /\ senders' = IF named THEN senders ELSE senders + 1
            /\ locating' = [locating EXCEPT !["user"] = "check"]
       ELSE UNCHANGED <<named, senders, locating>>
    /\ UNCHANGED <<following, starting>>

Starting == starting' = TRUE /\ UNCHANGED <<following, located, named, senders, locating>>

\* the end of start(), when the mode was set or not
Started(r) ==
    /\ starting' = FALSE
    /\ IF located /\ r = "success"
       THEN named' = TRUE /\ senders' = senders + 1
       ELSE UNCHANGED <<named, senders>>
    /\ UNCHANGED <<following, located, locating>>

\* stop_sending_target_location
StopLocating ==
    /\ senders' = IF named THEN senders - 1 ELSE senders
    /\ named' = FALSE /\ following' = FALSE
    /\ UNCHANGED <<starting, located, locating>>

\* the beginning of stop(), before the mode is set
Stopping == IF following THEN StopLocating ELSE UNCHANGED followVars

\* the call-every handler
TickLocation ==
    /\ senders > 0 /\ locating["system"] = "no"
    /\ locating' = [locating EXCEPT !["system"] = "check"]
    /\ UNCHANGED <<following, starting, located, named, senders>>

\* send_target_location: is_active() under the mutex, and the message after it
CheckMode(t) ==
    /\ locating[t] = "check"
    /\ locating' = [locating EXCEPT ![t] = IF following THEN "send" ELSE "no"]
    /\ UNCHANGED <<following, starting, located, named, senders>>

SendLocation(t) ==
    /\ locating[t] = "send"
    /\ locating' = [locating EXCEPT ![t] = "no"]
    /\ UNCHANGED <<following, starting, located, named, senders>>

\* process_heartbeat.  (When it finds the mode it unlocks the mutex, which the guard
\* unlocks again: what follows from that is undefined and not modelled.)
FollowHeartbeat(value) ==
    IF value = "follow"
    THEN following' = TRUE /\ UNCHANGED <<starting, located, named, senders, locating>>
    ELSE Stopping

FollowTypeOK ==
    /\ {following, starting, located, named} \subseteq BOOLEAN
    /\ senders \in Nat
    /\ locating \in [Locators -> {"no", "check", "send"}]
===============================================================================
