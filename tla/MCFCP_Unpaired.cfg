CONSTANTS
    NumThreads = 3
    NumSets = 2
    Assoc = 4
    SpeedupValues = {1, 2, 3}
    PairingPolicy = "None"
    PairingInterval = 0
SPECIFICATION Spec
INVARIANT TypeOK
INVARIANT QuotasPartitionCache
PROPERTY BackoffLastsFiveIntervals
PROPERTY BackoffOnRisingTrend
