---------------------------- MODULE HardwareExecutor ----------------------------
(***************************************************************************)
(* HardwareCommandExecutor over the C hardware abstraction layer: a command  *)
(* of the controller becomes a complete state of the two actuators, which    *)
(* are applied one after the other.  An actuator may be unconfigured, and it *)
(* may begin to fail, or work again, at any time, also between the two.      *)
(***************************************************************************)
EXTENDS Naturals

CONSTANTS
    Powers,                 \* the positive powers that are requested
    MaxApply                \* bound: calls of an actuator in a behaviour

ASSUME ExecutorAssumption == Powers \subseteq Nat \ {0} /\ MaxApply \in Nat

Actuators == {"battery", "grid"}
ControlAction ==
    {"Idle", "ChargeBattery", "DischargeBattery", "ImportFromGrid", "ExportToGrid"}
ActuatorAction == {"Unknown", "Idle", "Charge", "Discharge", "Import", "Export"}

\* The commands ControlCommand can hold, and one whose action is no enumerator.
Commands ==
    [action: ControlAction \ {"Idle"}, power: Powers]
        \cup {[action |-> "Idle", power |-> 0], [action |-> "Invalid", power |-> 0]}

VARIABLES
    configured,             \* the actuators that have an apply callback
    failing,                \* the actuators with apply_failure_enabled
    applied,                \* apply_count of each actuator
    held,                   \* last_action and last_requested_power_kw
    pc,                     \* "idle", or the actuator to apply next
    command,                \* the command being executed
    result                  \* the error of each actuator, "none" before the
                            \* call returns, "raised" when it throws

devices == <<configured, failing, applied, held>>
vars == <<devices, pc, command, result>>

NoCommand == [action |-> "Idle", power |-> 0]
Untouched == [action |-> "Unknown", power |-> 0]
Both(e) == [a \in Actuators |-> e]

Init ==
    /\ configured \in SUBSET Actuators
    /\ failing = {}
    /\ applied = [a \in Actuators |-> 0]
    /\ held = [a \in Actuators |-> Untouched]
    /\ pc = "idle"
    /\ command = NoCommand
    /\ result = Both("none")

-----------------------------------------------------------------------------
(* From a command to the complete state of the actuators.                    *)

Idling == [action |-> "Idle", power |-> 0]

\* Mutant: the battery is told nothing when the grid is the target.
BatteryCommandForAll(c) ==
    CASE c.action = "ChargeBattery"    -> [action |-> "Charge", power |-> c.power]
      [] c.action = "DischargeBattery" -> [action |-> "Discharge", power |-> c.power]
      [] c.action = "ImportFromGrid"   -> [action |-> "Import", power |-> c.power]
      [] OTHER                         -> Idling

BatteryCommand(c) ==
    CASE c.action = "ChargeBattery"    -> [action |-> "Charge", power |-> c.power]
      [] c.action = "DischargeBattery" -> [action |-> "Discharge", power |-> c.power]
      [] OTHER                         -> Idling

\* Mutant: the grid goes on with what it did while the battery charges.
GridCommandCharging(c) ==
    CASE c.action \in {"ImportFromGrid", "ChargeBattery"} ->
                                          [action |-> "Import", power |-> c.power]
      [] c.action = "ExportToGrid"     -> [action |-> "Export", power |-> c.power]
      [] OTHER                         -> Idling

GridCommand(c) ==
    CASE c.action = "ImportFromGrid"   -> [action |-> "Import", power |-> c.power]
      [] c.action = "ExportToGrid"     -> [action |-> "Export", power |-> c.power]
      [] OTHER                         -> Idling

CommandFor(a, c) == IF a = "battery" THEN BatteryCommand(c) ELSE GridCommand(c)

\* A command with an unsupported action is refused before any device is touched.
Execute(c) ==
    /\ pc = "idle"
    /\ \A a \in Actuators : applied[a] < MaxApply
    /\ command' = c
    /\ IF c.action \in ControlAction
       THEN pc' = "battery" /\ result' = Both("none")
       ELSE pc' = "idle" /\ result' = Both("raised")
    /\ UNCHANGED devices

-----------------------------------------------------------------------------
(* gridflex_actuator_apply with the simulated device behind it.              *)

Supported(a, action) ==
    \/ action = "Idle"
    \/ a = "battery" /\ action \in {"Charge", "Discharge"}
    \/ a = "grid" /\ action \in {"Import", "Export"}

PowerValid(ac) == IF ac.action = "Idle" THEN ac.power = 0 ELSE ac.power > 0

ApplyStatus(a, ac) ==
    CASE ac.action = "Unknown"         -> "INVALID_ARGUMENT"
      [] ~Supported(a, ac.action)      -> "UNSUPPORTED_ACTION"
      [] ~PowerValid(ac)               -> "INVALID_ARGUMENT"
      [] a \notin configured           -> "NOT_CONFIGURED"
      [] a \in failing                 -> "APPLY_FAILED"
      [] OTHER                         -> "OK"

ErrorCode(s) ==
    CASE s = "OK"                 -> "NONE"
      [] s = "UNSUPPORTED_ACTION" -> "UNSUPPORTED_OPERATION"
      [] s = "APPLY_FAILED"       -> "OPERATION_FAILED"
      [] OTHER                    -> s

\* Mutant: the device acknowledges a command that it does not keep.
ApplyAlways(a) ==
    LET ac == CommandFor(a, command)
        s == ApplyStatus(a, ac)
    IN  /\ pc = a
        /\ applied' = IF s \in {"OK", "APPLY_FAILED"}
                      THEN [applied EXCEPT ![a] = @ + 1] ELSE applied
        /\ held' = held
        /\ result' = [result EXCEPT ![a] = ErrorCode(s)]
        /\ pc' = IF a = "battery" THEN "grid" ELSE "idle"
        /\ UNCHANGED <<configured, failing, command>>

\* The device counts every call that reaches it and keeps a command that it applied.
Apply(a) ==
    LET ac == CommandFor(a, command)
        s == ApplyStatus(a, ac)
    IN  /\ pc = a
        /\ applied' = IF s \in {"OK", "APPLY_FAILED"}
                      THEN [applied EXCEPT ![a] = @ + 1] ELSE applied
        /\ held' = IF s = "OK" THEN [held EXCEPT ![a] = ac] ELSE held
        /\ result' = [result EXCEPT ![a] = ErrorCode(s)]
        /\ pc' = IF a = "battery" THEN "grid" ELSE "idle"
        /\ UNCHANGED <<configured, failing, command>>

\* The device begins to fail, or is repaired.
SetApplyFailure(a) ==
    /\ a \in configured
    /\ failing' = IF a \in failing THEN failing \ {a} ELSE failing \cup {a}
    /\ UNCHANGED <<configured, applied, held, pc, command, result>>

Next ==
    \/ \E c \in Commands : Execute(c)
    \/ \E a \in Actuators : Apply(a) \/ SetApplyFailure(a)

Spec == Init /\ [][Next]_vars

-----------------------------------------------------------------------------

ErrorCodes == {"NONE", "INVALID_ARGUMENT", "NOT_CONFIGURED", "UNSUPPORTED_OPERATION",
               "OPERATION_FAILED", "UNKNOWN_STATUS"}

\* Type invariant: the state of the two devices, the executor's position and the
\* result, which holds hardware error codes and never a status of an actuator.
TypeOK ==
    /\ configured \subseteq Actuators
    /\ failing \subseteq Actuators
    /\ applied \in [Actuators -> 0 .. MaxApply]
    /\ held \in [Actuators -> [action: ActuatorAction, power: Nat]]
    /\ pc \in Actuators \cup {"idle"}
    /\ command \in Commands
    /\ result \in [Actuators -> ErrorCodes \cup {"none", "raised"}]

\* The call has returned a result, and HardwareExecutionResult::succeeded.
Returned == pc = "idle" /\ \A a \in Actuators : result[a] \in ErrorCodes
Succeeded == pc = "idle" /\ \A a \in Actuators : result[a] = "NONE"

Active(a) == held[a].action \notin {"Unknown", "Idle"}

\* Whatever ControlCommand the executor is given, the hardware abstraction layer
\* refuses none of the two actuator commands built from it (actuator.c:89-115):
\* what can go wrong is the configuration of a device or the device itself.
OnlyDeviceFailures ==
    Returned =>
        \A a \in Actuators : result[a] \in {"NONE", "NOT_CONFIGURED", "OPERATION_FAILED"}

\* The results are true device by device, also when the other one failed and when
\* a device failed or recovered between the two calls: an actuator reported as
\* successful holds exactly its part of the last command
\* (hardware_command_executor.cpp:78-94).
SuccessHolds ==
    Returned =>
        \A a \in Actuators : result[a] = "NONE" => held[a] = CommandFor(a, command)

\* The two actuators are never left active together by an execution that reports
\* success: "the non-target actuator is explicitly idled" (README.md).  After a
\* partial failure they may be, and the result says so.
BothActiveOnlyReported ==
    Succeeded => \E a \in Actuators : ~Active(a)

=============================================================================
