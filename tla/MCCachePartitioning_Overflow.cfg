CONSTANTS
    Kinds = {"instructions"}
    Interval = 8
    Rates = {0, 1, 2}
    DefBackoff = 4
    MinBackoff = 1
    MaxBackoff = 6
    IntMax = 15
    MaxTime = 40
SPECIFICATION Spec
CHECK_DEADLOCK FALSE
PROPERTY LongWaitsCapped
