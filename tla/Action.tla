-------------------------------- MODULE Action --------------------------------
(***************************************************************************)
(* ActionImpl: an operation is a check followed by commands, each of which *)
(* waits for the result of the one before.  One operation at a time.       *)
(***************************************************************************)
EXTENDS Vehicle

VARIABLES
    known, inAir,  \* _in_air_state_known, _in_air
    operation,     \* the operation under way, or none
    step,          \* the next of its commands
    done           \* the result of the last operation, until it is taken

actionVars == <<known, inAir, operation, step, done>>

ActionInit ==
    /\ known = FALSE /\ inAir = FALSE
    /\ operation = "none" /\ step = 1 /\ done = "none"

\* the commands of an operation
Steps ==
    [arm        |-> <<"hold", "arm">>,
     takeoff    |-> <<"hold", "takeoff">>,
     takeoff_async |-> <<"hold", "takeoff">>,
     disarm     |-> <<"disarm">>,
     kill       |-> <<"disarm">>,
     land       |-> <<"land">>,
     return_to_launch |-> <<"rtl">>,
     other      |-> <<"other">>]   \* reboot, goto_location, the VTOL transitions
Operations == DOMAIN Steps

\* only takeoff goes on when its first command has failed
GoesOn(op, r) == r = "success" \/ op = "takeoff"

Checked == {"arm", "disarm", "takeoff"}
Allowed(op) == op \in Checked => known /\ ~inAir

Begin(op) ==
    /\ operation = "none" /\ done = "none" /\ Allowed(op)
    /\ operation' = op /\ step' = 1
    /\ UNCHANGED <<known, inAir, done, pending, answer>>

\* COMMAND_DENIED_*; arm has waited 1.5 s to learn whether it is in the air
Deny(op) ==
    /\ operation = "none" /\ done = "none" /\ ~Allowed(op)
    /\ done' = "failure"
    /\ UNCHANGED <<known, inAir, operation, step, pending, answer>>

\* The thread pool checks whether the asynchronous takeoff is allowed: the callback is
\* told, and the takeoff goes on
DenyInPassing ==
    /\ operation = "takeoff_async" /\ (~known \/ inAir)
    /\ done' = "failure"
    /\ UNCHANGED <<known, inAir, operation, step, vehicleVars, commandVars, link>>

SendStep(c) ==
    /\ operation # "none"
    /\ Command(c, Steps[operation][step])
    /\ UNCHANGED <<actionVars, vehicleVars, link>>

TakeResult(c) ==
    /\ operation # "none"
    /\ \E r \in {"success", "failure"} :
          /\ Result(c, r)
          /\ IF step < Len(Steps[operation]) /\ GoesOn(operation, r)
             THEN step' = step + 1 /\ UNCHANGED <<operation, done>>
             ELSE operation' = "none" /\ step' = 1 /\ done' = r
    /\ UNCHANGED <<known, inAir, vehicleVars, link>>

\* process_extended_sys_state
ExtendedSysState ==
    /\ Receives("landed")
    /\ inAir' = CASE Head(link).value = "air" -> TRUE
                  [] Head(link).value = "ground" -> FALSE
                  [] OTHER -> inAir
    /\ known' = TRUE
    /\ UNCHANGED <<operation, step, done, vehicleVars, commandVars>>

ActionTypeOK ==
    /\ {known, inAir} \subseteq BOOLEAN
    /\ operation \in Operations \cup {"none"} /\ step \in 1..2
    /\ done \in {"none", "success", "failure"}
===============================================================================
