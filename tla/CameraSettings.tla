--------------------------- MODULE CameraSettings ---------------------------
(***************************************************************************)
(* The settings of the camera: the definition file (CameraDefinition), the *)
(* parameters fetched through the queues and the cache of                  *)
(* MAVLinkParameters, and the subscriber who is told the current settings  *)
(* (CameraImpl).  Neither CameraDefinition nor CameraImpl locks anything:  *)
(* the user's thread and the receive thread refresh and tell in steps that *)
(* may alternate.                                                          *)
(***************************************************************************)
EXTENDS Integers, Sequences, SequencesExt

CONSTANTS
    Definition,      \* the file: params in the order of the map, with options; and as
                     \* sets of tuples: exclusions <<p, v, q>>, ranges <<p, v, q, w>>,
                     \* updates <<p, q>>; controls
    MaxSettingActs   \* bound: acts of the user and the camera

CamMode == "CAM_MODE"
CameraParam == {Definition.params[i] : i \in 1..Len(Definition.params)}

ASSUME DefinitionAssumption ==
    /\ Definition.params \in Seq(STRING) /\ IsInjective(Definition.params)
    /\ MaxSettingActs \in Nat
    /\ \A p \in CameraParam : Definition.options[p] # {}
    /\ \A x \in Definition.exclusions : x[1] \in CameraParam /\ x[2] \in Definition.options[x[1]]

VARIABLES
    definition,   \* parameters it was parsed into, their current values, the get queue
                  \* and what the subscriber was told
    at,           \* where a thread is: "idle", "refresh", "fetch", "list" or "tell"
    todo,         \* the fetches that its refresh_params has still to ask for
    listed,       \* the settings that its notify_current_settings has put together
    older,        \* history: another thread has put together a list since
    cached,       \* MAVLinkParameters' cache
    sets,         \* its set queue
    underway,     \* the work it is busy with: "none", "get" or "set", or "got" or "put" while
                  \* its callback runs in the receive thread
    actual,       \* the values the camera has
    lapses,       \* history: what left the subscriber without a notification
    settingActs   \* acts so far

threadVars   == <<at, todo, listed, older>>
settingsVars == <<definition, threadVars, cached, sets, underway, actual, lapses, settingActs>>

SettingThread == {"user", "receiver"}

Unread == "unread"
Known(d) == {d.known[i] : i \in 1..Len(d.known)}
AllUnknown == [p \in CameraParam |-> [value |-> Unread, unknown |-> TRUE]]

SettingsInit ==
    /\ definition = [known |-> <<>>, current |-> AllUnknown, queue |-> <<>>,
                     subscribed |-> FALSE, told |-> [p \in {} |-> Unread]]
    /\ cached = [p \in CameraParam |-> Unread]
    /\ actual \in {a \in [CameraParam -> UNION {Definition.options[p] : p \in CameraParam}] :
                      \A p \in CameraParam : a[p] \in Definition.options[p]}
    /\ at = [t \in SettingThread |-> "idle"]
    /\ todo = [t \in SettingThread |-> <<>>]
    /\ listed = [t \in SettingThread |-> [p \in {} |-> Unread]]
    /\ older = [t \in SettingThread |-> FALSE]
    /\ sets = <<>> /\ underway = "none" /\ lapses = {} /\ settingActs = 0

-----------------------------------------------------------------------------
(* CameraDefinition                                                        *)

\* the options of parameters whose current value is known
Chosen(d) == {<<p, d.current[p].value>> : p \in {q \in Known(d) : ~d.current[q].unknown}}
Excluded(d) == {q \in CameraParam : \E c \in Chosen(d) : Append(c, q) \in Definition.exclusions}

get_possible_settings(d) == (Known(d) \cap Definition.controls) \ Excluded(d)

\* the ranges that the chosen options give; the code says "Intersect", but an option
\* is kept when any one range has it
AllowedRange(d, name) ==
    {w \in Definition.options[name] :
        \E c \in Chosen(d) : /\ c[1] \in Definition.controls \ Excluded(d)
                             /\ <<c[1], c[2], name, w>> \in Definition.ranges}

get_possible_options(d, name) ==
    LET allowed == AllowedRange(d, name) IN
    {v \in Definition.options[name] :
        name \in get_possible_settings(d) /\ (allowed = {} \/ v \in allowed)}

\* set_setting: the settings that change with it are to be fetched
set_setting(d, p, v) ==
    IF p \notin Known(d) THEN d
    ELSE [d EXCEPT !.current = [q \in CameraParam |->
             [value   |-> IF q = p THEN v ELSE d.current[q].value,
              unknown |-> \/ q \in Known(d) /\ <<p, q>> \in Definition.updates
                          \/ q # p /\ d.current[q].unknown]]]

\* get_unknown_params, in the order of the map
get_unknown_params(d) ==
    FlattenSeq([i \in 1..Len(d.known) |->
                   IF d.current[d.known[i]].unknown THEN <<d.known[i]>> ELSE <<>>])

\* set_all_params_unknown
set_all_params_unknown(d) ==
    [d EXCEPT !.current = [p \in CameraParam |-> [d.current[p] EXCEPT !.unknown = TRUE]]]

-----------------------------------------------------------------------------
(* CameraImpl: fetching and telling, step by step                          *)

\* A thread comes back from what it was called for.
Return(t) ==
    /\ at' = [at EXCEPT ![t] = "idle"]
    /\ underway' = IF t = "receiver" /\ underway \in {"got", "put"} THEN "none" ELSE underway
GoTo(t, where) == at' = [at EXCEPT ![t] = where] /\ UNCHANGED underway

\* faulty variant: nothing unknown, nothing told
RefreshOnlyUnknown(t) ==
    /\ at[t] = "refresh"
    /\ LET u == get_unknown_params(definition)
       IN  IF u = <<>> THEN Return(t) /\ UNCHANGED todo
           ELSE /\ GoTo(t, "fetch")
                /\ todo' = [todo EXCEPT ![t] = [i \in 1..Len(u) |-> [p |-> u[i], last |-> i = Len(u)]]]
    /\ UNCHANGED <<definition, listed, older, cached, sets, actual, lapses, settingActs>>

\* refresh_params: fetch what is unknown, and tell with the last of them
refresh_params(t) ==
    /\ at[t] = "refresh"
    /\ LET u == get_unknown_params(definition)
       IN  IF u = <<>> THEN GoTo(t, "list") /\ UNCHANGED todo
           ELSE /\ GoTo(t, "fetch")
                /\ todo' = [todo EXCEPT ![t] = [i \in 1..Len(u) |-> [p |-> u[i], last |-> i = Len(u)]]]
    /\ UNCHANGED <<definition, listed, older, cached, sets, actual, lapses, settingActs>>

\* get_param_async: a cached value is used at once, whatever the camera has now; the queue
\* is locked while its front is in the hands of a callback.
get_param_async(t) ==
    /\ at[t] = "fetch"
    /\ LET w    == Head(todo[t])
           next == IF Tail(todo[t]) # <<>> THEN "fetch" ELSE IF w.last THEN "list" ELSE "idle"
       IN  \/ /\ cached[w.p] # Unread
              /\ definition' = set_setting(definition, w.p, cached[w.p])
              /\ IF next = "idle" THEN Return(t) ELSE GoTo(t, next)
              /\ lapses' = lapses \cup
                    IF w.last /\ definition.queue # <<>> /\ ~Last(definition.queue).last
                    THEN {"overtaken"} ELSE {}
           \/ /\ cached[w.p] = Unread /\ underway # "got"
              /\ definition' = [definition EXCEPT !.queue = Append(@, w)]
              /\ IF next = "fetch" THEN GoTo(t, next) ELSE Return(t)
              /\ UNCHANGED lapses
    /\ todo' = [todo EXCEPT ![t] = Tail(@)]
    /\ UNCHANGED <<listed, older, cached, sets, actual, settingActs>>

\* notify_current_settings: the possible settings whose value is known are put together ...
Visible(d) ==
    [p \in {q \in get_possible_settings(d) \ {CamMode} : ~d.current[q].unknown} |->
        d.current[p].value]
PutTogether(t) ==
    /\ at[t] = "list"
    /\ \/ /\ definition.subscribed /\ get_possible_settings(definition) \ {CamMode} # {}
          /\ GoTo(t, "tell")
          /\ listed' = [listed EXCEPT ![t] = Visible(definition)]
          /\ older' = [u \in SettingThread |-> u # t /\ at[u] = "tell"]
       \/ /\ ~(definition.subscribed /\ get_possible_settings(definition) \ {CamMode} # {})
          /\ Return(t)
          /\ UNCHANGED <<listed, older>>
    /\ UNCHANGED <<definition, todo, cached, sets, actual, lapses, settingActs>>

\* ... and then told.  With an older list than another thread has told meanwhile, the
\* notifications overlap.
TellSettings(t) ==
    /\ at[t] = "tell"
    /\ definition' = [definition EXCEPT !.told = listed[t]]
    /\ listed' = [listed EXCEPT ![t] = [p \in {} |-> Unread]]
    /\ older' = [older EXCEPT ![t] = FALSE]
    /\ lapses' = lapses \cup
          IF older[t] /\ \A u \in SettingThread \ {t} : at[u] # "tell" THEN {"overlapping"} ELSE {}
    /\ Return(t)
    /\ UNCHANGED <<todo, cached, sets, actual, settingActs>>

-----------------------------------------------------------------------------
(* Calls of the user and messages of the camera                            *)

SettingAct(t) ==
    /\ at[t] = "idle" /\ (t = "receiver" => underway \notin {"got", "put"})
    /\ settingActs < MaxSettingActs /\ settingActs' = settingActs + 1

\* A thread goes on in these steps.
Start(t, where) == at' = [at EXCEPT ![t] = where] /\ UNCHANGED <<listed, older>>

\* process_camera_information: a new definition, whose parsing may stop anywhere: the
\* result of load_string is not looked at
LoadDefinition ==
    /\ SettingAct("receiver")
    /\ \E n \in 1..Len(Definition.params) :
          definition' = [definition EXCEPT !.known = SubSeq(Definition.params, 1, n),
                                           !.current = AllUnknown]
    /\ Start("receiver", "refresh")
    /\ UNCHANGED <<todo, cached, sets, underway, actual, lapses>>

\* enable and disable, when the vehicle connects (the receive thread) and disconnects
\* (the system thread)
EnableSettings ==
    /\ SettingAct("receiver")
    /\ Start("receiver", "refresh")
    /\ UNCHANGED <<definition, todo, cached, sets, underway, actual, lapses>>

DisableSettings ==
    /\ settingActs < MaxSettingActs /\ settingActs' = settingActs + 1
    /\ definition' = set_all_params_unknown(definition)
    /\ lapses' = lapses \cup {"disabled"}
    /\ UNCHANGED <<threadVars, cached, sets, underway, actual>>

\* subscribe_current_settings
SubscribeSettings ==
    /\ SettingAct("user")
    /\ definition' = [definition EXCEPT !.subscribed = TRUE]
    /\ Start("user", "list")
    /\ UNCHANGED <<todo, cached, sets, underway, actual, lapses>>

\* set_option_async, for an option that is possible now
SetOption ==
    /\ SettingAct("user")
    /\ \E p \in Known(definition) : \E v \in get_possible_options(definition, p) :
          sets' = Append(sets, [p |-> p, v |-> v])
    /\ UNCHANGED <<definition, threadVars, cached, underway, actual, lapses>>

\* get_option_async: a setting that is unknown is fetched; the caller is not answered
\* and the subscriber not told
GetOption ==
    /\ SettingAct("user")
    /\ \E p \in Known(definition) :
          /\ definition.current[p].unknown
          /\ todo' = [todo EXCEPT !["user"] = <<[p |-> p, last |-> FALSE]>>]
    /\ Start("user", "fetch")
    /\ lapses' = lapses \cup {"quiet"}
    /\ UNCHANGED <<definition, cached, sets, underway, actual>>

\* set_mode (in the user's thread), its result or a message with the mode: save_camera_mode
SaveMode(t) ==
    /\ SettingAct(t)
    /\ \E v \in Definition.options[CamMode] :
          /\ actual' = [actual EXCEPT ![CamMode] = v]
          /\ definition' = set_setting(definition, CamMode, v)
    /\ Start(t, "refresh")
    /\ UNCHANGED <<todo, cached, sets, underway, lapses>>

-----------------------------------------------------------------------------
(* The queues of MAVLinkParameters (see MavlinkParameters): one work at a  *)
(* time, sets first.                                                       *)

StartWork ==
    /\ underway = "none" /\ (sets # <<>> \/ definition.queue # <<>>)
    /\ underway' = IF sets # <<>> THEN "set" ELSE "get"
    /\ UNCHANGED <<definition, threadVars, cached, sets, actual, lapses, settingActs>>

\* The value arrives in the receive thread, which goes on to tell; or it does not arrive.
\* Nobody sees the front of the queue again that the callback was taken from.
FetchEnds(w) ==
    LET popped == [definition EXCEPT !.queue = Tail(@)] IN
    \/ /\ at["receiver"] = "idle"
       /\ cached' = [cached EXCEPT ![w.p] = actual[w.p]]
       /\ definition' = set_setting(popped, w.p, actual[w.p])
       /\ IF w.last THEN Start("receiver", "list") /\ underway' = "got"
          ELSE UNCHANGED <<at, listed, older>> /\ underway' = "none"
       /\ UNCHANGED lapses
    \/ /\ definition' = popped
       /\ lapses' = lapses \cup {"failed"}
       /\ underway' = "none"
       /\ UNCHANGED <<at, listed, older, cached>>
Fetched ==
    /\ underway = "get" /\ FetchEnds(Head(definition.queue))
    /\ UNCHANGED <<todo, sets, actual, settingActs>>

\* the camera takes the value, and changes those that depend on it
SetEnds(s) ==
    \/ /\ at["receiver"] = "idle"
       /\ actual' \in {a \in [CameraParam -> UNION {Definition.options[p] : p \in CameraParam}] :
                          /\ a[s.p] = s.v
                          /\ \A p \in CameraParam : a[p] \in Definition.options[p]
                          /\ \A p \in CameraParam \ {s.p} :
                                a[p] = actual[p] \/ <<s.p, p>> \in Definition.updates}
       /\ cached' = [cached EXCEPT ![s.p] = s.v]
       /\ definition' = set_setting(definition, s.p, s.v)
       /\ Start("receiver", "refresh") /\ underway' = "put"
    \/ underway' = "none" /\ UNCHANGED <<actual, cached, definition, at, listed, older>>
OptionSet ==
    /\ underway = "set" /\ SetEnds(Head(sets))
    /\ sets' = Tail(sets)
    /\ UNCHANGED <<todo, lapses, settingActs>>

SettingsNext ==
    \/ \E t \in SettingThread :
          refresh_params(t) \/ get_param_async(t) \/ PutTogether(t) \/ TellSettings(t) \/ SaveMode(t)
    \/ LoadDefinition \/ EnableSettings \/ DisableSettings \/ SubscribeSettings
    \/ SetOption \/ GetOption
    \/ StartWork \/ Fetched \/ OptionSet

SettingsTypeOK ==
    /\ Known(definition) \subseteq CameraParam
    /\ \A p \in CameraParam :
          /\ cached[p] \in Definition.options[p] \cup {Unread}
          /\ actual[p] \in Definition.options[p]
    /\ at \in [SettingThread -> {"idle", "refresh", "fetch", "list", "tell"}]
    /\ \A t \in SettingThread : (todo[t] # <<>>) = (at[t] = "fetch")
    /\ underway \in {"none", "get", "set", "got", "put"} /\ settingActs \in 0..MaxSettingActs
    /\ underway = "get" => definition.queue # <<>>
    /\ underway = "set" => sets # <<>>

SettingsSpec == SettingsInit /\ [][SettingsNext]_settingsVars

-----------------------------------------------------------------------------
\* The subscriber was last told the current settings as the plugin has them, unless
\* none is possible.
ToldLast ==
    /\ definition.subscribed /\ definition.queue = <<>>
    /\ get_possible_settings(definition) \ {CamMode} # {}
    => definition.told = Visible(definition)

AllReturned == \A t \in SettingThread : at[t] = "idle"

\* When nothing is being fetched and no thread is about to tell, the subscriber was last
\* told the current settings, unless a fetch failed, an option was asked for that was
\* unknown, the connection was lost, a fetch that tells overtook, from the cache, one that
\* does not, or a thread told an older list after a newer one of the other thread
\* (camera_impl.cpp:1268-1300, 1332-1371).
ToldIsCurrent == lapses = {} /\ AllReturned => ToldLast

\* "Function to call when current options have been updated" (camera.h:553): the same,
\* whatever the cache answers.
ToldWhenUpdated == lapses \subseteq {"overtaken"} /\ AllReturned => ToldLast
=============================================================================
