\* Two powers and at most four calls of an actuator.
SPECIFICATION Spec
CONSTANTS
    Powers = {1, 2}
    MaxApply = 4
INVARIANTS
    OnlyDeviceFailures
    SuccessHolds
    BothActiveOnlyReported
