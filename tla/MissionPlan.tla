----------------------------- MODULE MissionPlan -----------------------------
(***************************************************************************)
(* How plugins/mission/mission_impl.cpp turns mission items into MAVLink   *)
(* mission messages and back, and how it derives the mission progress from *)
(* the message numbers the vehicle reports.                                *)
(*                                                                         *)
(* An upload is announced, taken or refused by the vehicle, and answered   *)
(* or timed out, in steps of their own; the single messages between, and   *)
(* a download, are one step (MissionTransfer has the protocol).  An item   *)
(* is the set of the parts that are set (finite) in it; their values play  *)
(* no role.                                                                *)
(***************************************************************************)
EXTENDS Integers, Sequences, SequencesExt

CONSTANTS
  Missions,   \* the missions uploaded: sequences of items, which are sets of parts
  MaxUploads  \* bound: uploads

Part == {"position", "speed", "gimbal", "loiter", "camera"}

ASSUME PlanAssumption ==
  /\ Missions \subseteq Seq(SUBSET Part) \ {<<>>}
  /\ MaxUploads \in Nat

VARIABLES
  items,     \* mission_items
  rtl,       \* _enable_return_to_launch_after_mission
  messages,  \* mavlink_mission_item_messages, each with the item it came from
  indices,   \* mavlink_mission_item_to_mission_item_indices
  current,   \* last_current_mavlink_mission_item
  reached,   \* last_reached_mavlink_mission_item
  told,      \* the progress last reported to the subscriber, <<current, total>>
  phase,  \* _activity.state: "none", "set", "get" (a download that never ends), or
             \* "refused", which is SET_MISSION with its timer removed
  flown,   \* the vehicle's messages; history: the items and the flag they are of
  offered,   \* the mission announced last waits for the vehicle's answer
  acks,      \* MISSION_ACKs on their way
  asked,     \* history: the items and the flag of the last upload
  succeeded, \* history: the last upload has reported SUCCESS
  farthest,  \* history: the last of its messages that the vehicle has worked off
  uploads    \* uploads so far

planVars     == <<items, rtl, messages, indices>>
progressVars == <<current, reached, told>>
flownVars  == <<flown, offered, acks, farthest>>
missionVars == <<items, rtl, messages, indices, current, reached, told, phase, flown,
                 offered, acks, asked, succeeded, farthest, uploads>>

-----------------------------------------------------------------------------
(* assemble_mavlink_messages *)

\* The part a MAVLink command carries.
PartOf == [WAYPOINT        |-> "position", CHANGE_SPEED  |-> "speed",
           MOUNT_CONFIGURE |-> "gimbal",   MOUNT_CONTROL |-> "gimbal",
           LOITER_TIME     |-> "loiter",   CAMERA        |-> "camera"]

PositionKnown(is, i) == \E j \in 1 .. i: "position" \in is[j]

\* The message of the i-th item for a command (items are numbered from 0 in the
\* code).  A loiter time is dropped when no position precedes it.
MessageFor(is, i, command) ==
  IF PartOf[command] \in is[i] /\ (command = "LOITER_TIME" => PositionKnown(is, i))
  THEN <<[command |-> command, item |-> i - 1]>>
  ELSE <<>>

\* The messages of an item, in the order they are written.
ItemMessages(is, i) ==
  MessageFor(is, i, "WAYPOINT") \o MessageFor(is, i, "CHANGE_SPEED")
    \o MessageFor(is, i, "MOUNT_CONFIGURE") \o MessageFor(is, i, "MOUNT_CONTROL")
    \o MessageFor(is, i, "LOITER_TIME") \o MessageFor(is, i, "CAMERA")

\* The return to launch counts as one item more.
AssembleMessages(is, returns) ==
  FlattenSeq([i \in DOMAIN is |-> ItemMessages(is, i)])
    \o IF returns THEN <<[command |-> "RTL", item |-> Len(is)]>> ELSE <<>>

\* std::map::insert, for every message: an entry that exists stays as it is.
InsertIndices(ms) ==
  [k \in DOMAIN indices \cup 0 .. Len(ms) - 1 |->
     IF k \in DOMAIN indices THEN indices[k] ELSE ms[k + 1].item]

-----------------------------------------------------------------------------
(* assemble_mission_items *)

\* A waypoint after a position starts the next item; any other command adds a
\* part to the item under construction.
AddMessage(done, m) ==
  LET last == Len(done)
  IN  CASE m.command = "WAYPOINT" /\ "position" \in done[last]
             -> Append(done, {"position"})
        [] m.command = "RTL" -> done
        [] OTHER -> [done EXCEPT ![last] = @ \cup {PartOf[m.command]}]

\* Faulty variant: a camera command starts the next item.
AddMessageSplit(done, m) ==
  LET last == Len(done)
  IN  CASE m.command \in {"WAYPOINT", "CAMERA"} /\ "position" \in done[last]
             -> Append(done, {PartOf[m.command]})
        [] m.command = "RTL" -> done
        [] OTHER -> [done EXCEPT ![last] = @ \cup {PartOf[m.command]}]

AssembleItemsSplit(ms) == FoldLeft(AddMessageSplit, <<{}>>, ms)

AssembleItems(ms) == FoldLeft(AddMessage, <<{}>>, ms)

-----------------------------------------------------------------------------
(* is_mission_finished, current_mission_item, total_mission_items *)

\* Faulty variant: "reached" is compared without the correction for the return.
FinishedUncorrected(returns, ms, cur, last) ==
  /\ cur >= 0 /\ last >= 0
  /\ Len(ms) # 0
  /\ last + 2 = Len(ms)

\* "never receive a reached when RTL is initiated": one message less to reach.
IsFinished(returns, ms, cur, last) ==
  /\ cur >= 0 /\ last >= 0
  /\ Len(ms) # 0
  /\ last + (IF returns THEN 2 ELSE 1) = Len(ms)

Finished == IsFinished(rtl, messages, current, reached)
Total    == Len(items)

CurrentItem ==
  IF Finished THEN Total
  ELSE IF current \in DOMAIN indices THEN indices[current] ELSE -1

\* report_progress: the subscriber hears of changes only.
ReportProgress == told' = <<CurrentItem', Total'>>

-----------------------------------------------------------------------------

PlanInit ==
  /\ items = <<>> /\ rtl = FALSE
  /\ messages = <<>> /\ indices = [k \in {} |-> 0]
  /\ current = -1 /\ reached = -1 /\ told = <<-1, -1>>
  /\ phase = "none"
  /\ flown = [messages |-> <<>>, items |-> <<>>, returns |-> FALSE]
  /\ asked = [items |-> <<>>, returns |-> FALSE]
  /\ offered = FALSE /\ acks = <<>> /\ succeeded = FALSE /\ farthest = -1
  /\ uploads = 0

\* set_return_to_launch_after_mission
SetReturnToLaunch(returns) ==
  /\ rtl' = returns
  /\ UNCHANGED <<items, messages, indices, progressVars, phase, flownVars, asked,
                 succeeded, uploads>>

\* upload_mission_async: items and messages are replaced before the mission count is
\* sent, and stay when that fails.  The progress is not touched.
Upload(is) ==
  /\ phase = "none"
  /\ uploads < MaxUploads
  /\ uploads' = uploads + 1
  /\ items' = is
  /\ messages' = AssembleMessages(is, rtl)
  /\ indices' = InsertIndices(messages')
  /\ asked' = [items |-> is, returns |-> rtl] /\ succeeded' = FALSE
  /\ \/ phase' = "set" /\ offered' = TRUE
     \/ UNCHANGED <<phase, offered>>
  /\ UNCHANGED <<rtl, progressVars, flown, acks, farthest>>

\* The vehicle can fetch messages, and its answer counts.
Uploading == phase \in {"set", "refused"}

\* The vehicle has fetched the messages, and takes or refuses them.  It keeps its former
\* mission until it has the new one.
VehicleTakes ==
  /\ Uploading /\ offered
  /\ offered' = FALSE
  /\ flown' = [messages |-> messages, items |-> asked.items, returns |-> asked.returns]
  /\ farthest' = -1
  /\ acks' = Append(acks, "ACCEPTED")
  /\ UNCHANGED <<planVars, progressVars, phase, asked, succeeded, uploads>>
VehicleRefuses ==
  /\ Uploading /\ offered
  /\ offered' = FALSE
  /\ acks' = Append(acks, "NO_SPACE")
  /\ UNCHANGED <<planVars, progressVars, phase, flown, farthest, asked, succeeded, uploads>>

\* process_mission_ack: only an accepted mission resets current and reached ("we don't
\* want to get confused from earlier messages") and the activity.
MissionAck ==
  /\ acks # <<>> /\ acks' = Tail(acks)
  /\ \/ /\ Uploading /\ Head(acks) = "ACCEPTED"
        /\ current' = -1 /\ reached' = -1
        /\ phase' = "none" /\ succeeded' = TRUE
     \/ /\ Uploading /\ Head(acks) # "ACCEPTED"
        /\ phase' = "refused"
        /\ UNCHANGED <<current, reached, succeeded>>
     \/ /\ ~Uploading
        /\ UNCHANGED <<current, reached, phase, succeeded>>
  /\ UNCHANGED <<planVars, told, flown, offered, farthest, asked, uploads>>

\* process_timeout while uploading: nobody is told, and nothing else is put right.
UploadTimeout ==
  /\ phase = "set"
  /\ phase' = "none" /\ offered' = FALSE
  /\ UNCHANGED <<planVars, progressVars, flown, acks, farthest, asked, succeeded, uploads>>

\* The first message has to be a waypoint, or the items are gone and the
\* activity is never reset.  The messages of the last upload stay.
Download ==
  /\ phase = "none"
  /\ flown.messages # <<>>
  /\ \/ /\ flown.messages[1].command = "WAYPOINT"
        /\ items' = AssembleItems(flown.messages)
        /\ rtl' = \E k \in DOMAIN flown.messages: flown.messages[k].command = "RTL"
        /\ UNCHANGED phase
     \/ /\ flown.messages[1].command # "WAYPOINT"
        /\ items' = <<>>
        /\ rtl' = FALSE
        /\ phase' = "get"
  /\ UNCHANGED <<messages, indices, progressVars, flownVars, asked, succeeded, uploads>>

\* process_mission_current: the vehicle may be told to go to any message of its mission.
MissionCurrent(seq) ==
  /\ current' = seq
  /\ UNCHANGED reached
  /\ UNCHANGED <<planVars, phase, flownVars, asked, succeeded, uploads>>
  /\ ReportProgress

\* process_mission_item_reached: the vehicle does not report the return.
MissionItemReached(seq) ==
  /\ flown.messages[seq + 1].command # "RTL"
  /\ reached' = seq
  /\ farthest' = IF seq > farthest THEN seq ELSE farthest
  /\ UNCHANGED <<current, planVars, phase, flown, offered, acks, asked, succeeded, uploads>>
  /\ ReportProgress

PlanNext ==
  \/ \E returns \in BOOLEAN: SetReturnToLaunch(returns)
  \/ \E is \in Missions: Upload(is)
  \/ VehicleTakes \/ VehicleRefuses \/ MissionAck \/ UploadTimeout
  \/ Download
  \/ \E seq \in 0 .. Len(flown.messages) - 1: MissionCurrent(seq) \/ MissionItemReached(seq)

-----------------------------------------------------------------------------
(* Properties. *)

\* The variables have their types.
PlanTypeOK ==
  /\ items \in Seq(SUBSET Part) /\ rtl \in BOOLEAN
  /\ \A k \in DOMAIN indices: k \in Nat /\ indices[k] \in Nat
  /\ current \in Int /\ reached \in Int /\ farthest \in Int
  /\ told \in Int \X Int
  /\ phase \in {"none", "set", "refused", "get"}
  /\ offered \in BOOLEAN /\ succeeded \in BOOLEAN
  /\ acks \in Seq({"ACCEPTED", "NO_SPACE"}) /\ Len(acks) <= MaxUploads
  /\ uploads \in 0 .. MaxUploads

Positioned(is) == \A i \in DOMAIN is: "position" \in is[i]

\* Downloading a mission gives back the items that were uploaded, and the
\* return to launch, if each of them has a position: whatever else is set in an
\* item, its messages are put together to the same item again
\* (mission_impl.cpp:427-723 against 725-857).  It is the mission the vehicle
\* has, whatever was uploaded in vain or set since.
RoundTrip ==
  [][Download /\ Positioned(flown.items)
        => items' = flown.items /\ rtl' = flown.returns]_missionVars

\* The last upload has succeeded, the vehicle has its mission, and the return to launch
\* is set as it was then.
Settled == succeeded /\ messages = flown.messages /\ rtl = flown.returns

\* "return true if mission is finished and the last mission item has been
\* reached" (mission.h:180): whichever messages the vehicle reported, in
\* whatever order, over uploads that succeed, are refused, time out or are
\* answered late, and over downloads.  Excepted is a mission that is not
\* settled: the progress of the one before, or another flag, is then compared
\* with messages that the vehicle has not got or has just got.
FinishedMeansReached ==
  Settled /\ Finished =>
    \A k \in farthest + 2 .. Len(flown.messages): flown.messages[k].command = "RTL"

=============================================================================
