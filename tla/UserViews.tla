------------------------------- MODULE UserViews -------------------------------
(***************************************************************************)
(* Components between the user and what the vehicle knows: the mission     *)
(* with its progress, its transfer to and from the vehicle, the settings   *)
(* of the camera's definition file, and telemetry.  They share no state;   *)
(* "view" says which is looked at.                                         *)
(***************************************************************************)
EXTENDS MissionPlan, MissionTransfer, CameraSettings, Telemetry

VARIABLE view

viewVars == <<missionVars, vars, settingsVars, telemetryVars, view>>

Init ==
    /\ PlanInit /\ TransferInit /\ SettingsInit /\ TelemetryInit
    /\ view \in {"mission", "transfer", "settings", "telemetry"}
    \* the others are not looked at: one initial state of each is enough
    /\ view # "transfer" => ~timely
    /\ view # "settings" =>
          actual = [p \in CameraParam |-> CHOOSE v \in Definition.options[p] : TRUE]
    /\ view # "telemetry" => topic = "home"

MissionView ==
    /\ view = "mission" /\ PlanNext
    /\ UNCHANGED <<vars, settingsVars, telemetryVars, view>>
TransferView ==
    /\ view = "transfer" /\ TransferNext
    /\ UNCHANGED <<missionVars, settingsVars, telemetryVars, view>>
SettingsView ==
    /\ view = "settings" /\ SettingsNext
    /\ UNCHANGED <<missionVars, vars, telemetryVars, view>>
TelemetryView ==
    /\ view = "telemetry" /\ TelemetryNext
    /\ UNCHANGED <<missionVars, vars, settingsVars, view>>

Next == MissionView \/ TransferView \/ SettingsView \/ TelemetryView

Spec == Init /\ [][Next]_viewVars

\* What is fair about a transfer (see MissionTransfer); where none is looked at,
\* none of it is enabled.
FairSpec == Spec /\ Fairness

TypeOK == PlanTypeOK /\ TransferTypeOK /\ SettingsTypeOK /\ TelemetryTypeOK
===============================================================================
