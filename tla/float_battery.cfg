CONSTANTS
    Precision = 4
    MaxExponent = 4
    MaxCapacity = 64

SPECIFICATION Spec

INVARIANT NeverBeyondCapacity
