CONSTANTS
    Width = 6
    Build = "release"
SPECIFICATION Spec
INVARIANTS DelayIsDeliverTime
