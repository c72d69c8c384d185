------------------------ MODULE HardwareExecutorProofs ------------------------
(***************************************************************************)
(* The executor and its two devices, for any powers and any number of        *)
(* commands: what it reports of a device is true, and what can fail is only  *)
(* a device.                                                                 *)
(***************************************************************************)
EXTENDS HardwareExecutor, TLAPS

DeviceErrors == {"NONE", "NOT_CONFIGURED", "OPERATION_FAILED"}

\* The device has been told its part of the command, and the result says what became of it.
Reported(a) ==
    /\ result[a] \in DeviceErrors
    /\ result[a] = "NONE" => held[a] = CommandFor(a, command)

\* What makes the results true: only a command that both devices support is carried out,
\* the battery has been reported when the grid's turn comes, and both have when the call
\* returns.  Between commands there is room for one more call of each device.
Progress ==
    /\ pc # "idle" => command.action \in ControlAction
    /\ pc = "battery" => \A a \in Actuators : result[a] = "none" /\ applied[a] < MaxApply
    /\ pc = "grid" => Reported("battery") /\ result["grid"] = "none"
                      /\ applied["grid"] < MaxApply
    /\ pc = "idle" =>
        \/ \A a \in Actuators : result[a] = "none"
        \/ \A a \in Actuators : result[a] = "raised"
        \/ command.action \in ControlAction /\ \A a \in Actuators : Reported(a)

ExecutorInv == TypeOK /\ Progress

-----------------------------------------------------------------------------
(* What the two devices are told of a command.                               *)

\* Both devices support their part of every command the executor carries out, with a power
\* that fits the action.
LEMMA PartsSupported ==
    ASSUME NEW c \in Commands, c.action \in ControlAction, NEW a \in Actuators
    PROVE  /\ CommandFor(a, c) \in [action: ActuatorAction, power: Nat]
           /\ CommandFor(a, c).action # "Unknown"
           /\ Supported(a, CommandFor(a, c).action)
           /\ PowerValid(CommandFor(a, c))
  <1>1. /\ c.power \in Nat
        /\ c.action # "Idle" => c.power > 0
    <2>1. CASE c \in [action: ControlAction \ {"Idle"}, power: Powers]
      <3>1. c.power \in Powers
        BY <2>1
      <3>2. c.power \in Nat \ {0}
        BY <3>1, ExecutorAssumption
      <3> QED  BY <3>2
    <2>2. CASE c = [action |-> "Idle", power |-> 0]
      BY <2>2
    <2>3. CASE c = [action |-> "Invalid", power |-> 0]
      BY <2>3 DEF ControlAction
    <2> QED  BY <2>1, <2>2, <2>3 DEF Commands
  <1>2. CASE a = "battery"
    <2>1. CommandFor(a, c) = BatteryCommand(c)
      BY <1>2 DEF CommandFor
    <2>2. CASE c.action \in {"ChargeBattery", "DischargeBattery"}
      BY <1>1, <1>2, <2>1, <2>2
      DEF BatteryCommand, Supported, PowerValid, ActuatorAction
    <2>3. CASE c.action \notin {"ChargeBattery", "DischargeBattery"}
      BY <1>2, <2>1, <2>3
      DEF BatteryCommand, Idling, Supported, PowerValid, ActuatorAction
    <2> QED  BY <2>2, <2>3
  <1>3. CASE a = "grid"
    <2>1. CommandFor(a, c) = GridCommand(c)
      BY <1>3 DEF CommandFor
    <2>2. CASE c.action \in {"ImportFromGrid", "ExportToGrid"}
      BY <1>1, <1>3, <2>1, <2>2
      DEF GridCommand, Supported, PowerValid, ActuatorAction
    <2>3. CASE c.action \notin {"ImportFromGrid", "ExportToGrid"}
      BY <1>3, <2>1, <2>3
      DEF GridCommand, Idling, Supported, PowerValid, ActuatorAction
    <2> QED  BY <2>2, <2>3
  <1> QED
    BY <1>2, <1>3 DEF Actuators

\* So what becomes of it depends on the device alone.
LEMMA StatusOfDevice ==
    ASSUME NEW c \in Commands, c.action \in ControlAction, NEW a \in Actuators
    PROVE  ApplyStatus(a, CommandFor(a, c)) \in {"OK", "NOT_CONFIGURED", "APPLY_FAILED"}
  <1> QED
    BY PartsSupported DEF ApplyStatus

\* One of the two parts of a command is to be idle.
LEMMA OnePartIdle ==
    ASSUME NEW c
    PROVE  \/ CommandFor("battery", c).action = "Idle"
           \/ CommandFor("grid", c).action = "Idle"
  <1> QED
    BY DEF CommandFor, BatteryCommand, GridCommand, Idling

-----------------------------------------------------------------------------
(* Every step keeps the invariant.                                           *)

LEMMA ExecuteKeeps ==
    ASSUME ExecutorInv, NEW c \in Commands, Execute(c)
    PROVE  ExecutorInv'
  <1>1. TypeOK'
    BY DEF ExecutorInv, TypeOK, Execute, devices, Both, Actuators
  <1>2. Progress'
    BY DEF ExecutorInv, TypeOK, Progress, Execute, devices, Both, Actuators
  <1> QED
    BY <1>1, <1>2 DEF ExecutorInv

LEMMA ApplyKeeps ==
    ASSUME ExecutorInv, NEW a \in Actuators, Apply(a)
    PROVE  ExecutorInv'
  <1> DEFINE ac == CommandFor(a, command)
             s == ApplyStatus(a, ac)
  <1>1. /\ pc = a /\ a \in {"battery", "grid"} /\ command \in Commands
        /\ command.action \in ControlAction /\ applied[a] < MaxApply
        /\ applied \in [Actuators -> 0 .. MaxApply] /\ MaxApply \in Nat
        /\ held \in [Actuators -> [action: ActuatorAction, power: Nat]]
        /\ result \in [Actuators -> ErrorCodes \cup {"none", "raised"}]
    BY ExecutorAssumption DEF ExecutorInv, TypeOK, Progress, Apply, Actuators
  <1>2. ac \in [action: ActuatorAction, power: Nat]
    BY <1>1, PartsSupported
  <1>3. s \in {"OK", "NOT_CONFIGURED", "APPLY_FAILED"}
    BY <1>1, StatusOfDevice
  <1>4. /\ ErrorCode(s) \in DeviceErrors
        /\ ErrorCode(s) = "NONE" => s = "OK"
    BY <1>3 DEF ErrorCode, DeviceErrors
  <1>5. /\ applied' = IF s \in {"OK", "APPLY_FAILED"}
                      THEN [applied EXCEPT ![a] = @ + 1] ELSE applied
        /\ held' = IF s = "OK" THEN [held EXCEPT ![a] = ac] ELSE held
        /\ result' = [result EXCEPT ![a] = ErrorCode(s)]
        /\ pc' = IF a = "battery" THEN "grid" ELSE "idle"
        /\ UNCHANGED <<configured, failing, command>>
    BY DEF Apply
  <1> HIDE DEF ac, s
  <1>6. TypeOK'
    <2>1. applied' \in [Actuators -> 0 .. MaxApply]
      BY <1>1, <1>5
    <2>2. held' \in [Actuators -> [action: ActuatorAction, power: Nat]]
      BY <1>1, <1>2, <1>5
    <2>3. result' \in [Actuators -> ErrorCodes \cup {"none", "raised"}]
      BY <1>1, <1>4, <1>5 DEF DeviceErrors, ErrorCodes
    <2>4. pc' \in Actuators \cup {"idle"}
      BY <1>5 DEF Actuators
    <2> QED
      BY <1>5, <2>1, <2>2, <2>3, <2>4 DEF ExecutorInv, TypeOK
  <1>7. Reported(a)'
    <2>1. result'[a] = ErrorCode(s)
      BY <1>1, <1>5
    <2>2. result'[a] = "NONE" => held'[a] = ac
      BY <1>1, <1>4, <1>5, <2>1
    <2>3. CommandFor(a, command)' = ac
      BY <1>5 DEF ac, CommandFor, BatteryCommand, GridCommand
    <2> QED
      BY <1>4, <2>1, <2>2, <2>3 DEF Reported
  <1>8. \A b \in Actuators \ {a} :
            result'[b] = result[b] /\ held'[b] = held[b] /\ applied'[b] = applied[b]
    BY <1>1, <1>5
  <1>9. CASE a = "battery"
    <2>1. pc' = "grid" /\ result'["grid"] = "none" /\ applied'["grid"] < MaxApply
      BY <1>1, <1>5, <1>8, <1>9 DEF ExecutorInv, Progress, Actuators
    <2> QED
      BY <1>1, <1>5, <1>6, <1>7, <1>9, <2>1 DEF ExecutorInv, Progress
  <1>10. CASE a = "grid"
    <2>1. Reported("battery")
      BY <1>1, <1>10 DEF ExecutorInv, Progress
    <2>2. Reported("battery")'
      <3>1. result'["battery"] = result["battery"] /\ held'["battery"] = held["battery"]
        BY <1>8, <1>10 DEF Actuators
      <3>2. CommandFor("battery", command)' = CommandFor("battery", command)
        BY <1>5 DEF CommandFor, BatteryCommand, GridCommand
      <3> QED  BY <2>1, <3>1, <3>2 DEF Reported
    <2>3. pc' = "idle" /\ \A b \in Actuators : Reported(b)'
      BY <1>5, <1>7, <1>10, <2>2 DEF Actuators
    <2> QED
      BY <1>1, <1>5, <1>6, <2>3 DEF ExecutorInv, Progress
  <1> QED
    BY <1>1, <1>9, <1>10

LEMMA SetApplyFailureKeeps ==
    ASSUME ExecutorInv, NEW a \in Actuators, SetApplyFailure(a)
    PROVE  ExecutorInv'
  <1>1. TypeOK'
    BY DEF ExecutorInv, TypeOK, SetApplyFailure
  <1>2. Progress'
    BY DEF ExecutorInv, Progress, Reported, SetApplyFailure,
           CommandFor, BatteryCommand, GridCommand
  <1> QED
    BY <1>1, <1>2 DEF ExecutorInv

LEMMA ExecutorInit == Init => ExecutorInv
  <1> SUFFICES ASSUME Init PROVE ExecutorInv
    OBVIOUS
  <1>1. TypeOK
    BY ExecutorAssumption
    DEF Init, TypeOK, Both, Untouched, NoCommand, Commands, ActuatorAction
  <1>2. Progress
    BY DEF Init, Progress, Both
  <1> QED
    BY <1>1, <1>2 DEF ExecutorInv

LEMMA ExecutorInductive == ExecutorInv /\ [Next]_vars => ExecutorInv'
  <1> SUFFICES ASSUME ExecutorInv, [Next]_vars PROVE ExecutorInv'
    OBVIOUS
  <1>1. ASSUME NEW c \in Commands, Execute(c) PROVE ExecutorInv'
    BY <1>1, ExecuteKeeps
  <1>2. ASSUME NEW a \in Actuators, Apply(a) PROVE ExecutorInv'
    BY <1>2, ApplyKeeps
  <1>3. ASSUME NEW a \in Actuators, SetApplyFailure(a) PROVE ExecutorInv'
    BY <1>3, SetApplyFailureKeeps
  <1>4. CASE UNCHANGED vars
    BY <1>4 DEF vars, devices, ExecutorInv, TypeOK, Progress, Reported,
                CommandFor, BatteryCommand, GridCommand
  <1> QED
    BY <1>1, <1>2, <1>3, <1>4 DEF Next

\* The invariant all of it rests on.
THEOREM ExecutorInvariant == Spec => []ExecutorInv
  <1> QED
    BY ExecutorInit, ExecutorInductive, PTL DEF Spec

-----------------------------------------------------------------------------

\* Every state of the executor and its devices is well typed, and no device is called more
\* often than the bound.
THEOREM ExecutorTypeOK == Spec => []TypeOK
  <1>1. ExecutorInv => TypeOK
    BY DEF ExecutorInv
  <1> QED
    BY <1>1, ExecutorInvariant, PTL

\* Of no command does the hardware abstraction layer refuse a part: what fails is a device
\* that is not configured or does not work.
THEOREM ExecutorOnlyDeviceFailures == Spec => []OnlyDeviceFailures
  <1>1. ExecutorInv => OnlyDeviceFailures
    BY DEF ExecutorInv, Progress, Reported, OnlyDeviceFailures, Returned, DeviceErrors,
           ErrorCodes, Actuators
  <1> QED
    BY <1>1, ExecutorInvariant, PTL

\* A device that is reported as successful holds its part of the last command, whatever the
\* other device did and whenever one of them failed or was repaired.
THEOREM ExecutorSuccessHolds == Spec => []SuccessHolds
  <1>1. ExecutorInv => SuccessHolds
    BY DEF ExecutorInv, Progress, Reported, SuccessHolds, Returned, ErrorCodes, Actuators
  <1> QED
    BY <1>1, ExecutorInvariant, PTL

\* An execution that is reported as a success leaves one of the devices idle.
THEOREM ExecutorBothActiveOnlyReported == Spec => []BothActiveOnlyReported
  <1>1. ASSUME ExecutorInv, Succeeded PROVE \E a \in Actuators : ~Active(a)
    <2>1. \A a \in Actuators : held[a] = CommandFor(a, command)
      BY <1>1 DEF ExecutorInv, Progress, Reported, Succeeded, Actuators
    <2> QED
      BY <2>1, OnePartIdle DEF Active, Actuators
  <1>2. ExecutorInv => BothActiveOnlyReported
    BY <1>1 DEF BothActiveOnlyReported
  <1> QED
    BY <1>2, ExecutorInvariant, PTL

=============================================================================
