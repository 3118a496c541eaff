SPECIFICATION Spec
CONSTANTS
    Jobs = {j1, j2}
    Keys = {k1, k2}
    Calls = 2
    Attempts = 2
    Rpm = 1
    Minute = 2
    Delays = {1, 2, 3}
    MaxWait = 2
    Limit = 2
    Torn = Torn
    MaxCrashes = 1
INVARIANTS
    CountIsTrue PacedWithinAMinute
PROPERTIES
    CallsSettle
