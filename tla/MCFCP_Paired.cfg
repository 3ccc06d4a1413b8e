CONSTANTS
    NumThreads = 4
    NumSets = 1
    Assoc = 6
    SpeedupValues = {1, 2}
    PairingPolicy = "MinMax"
    PairingInterval = 2
SPECIFICATION Spec
INVARIANT TypeOK
INVARIANT QuotasPartitionCache
PROPERTY PairBudgetsRestored
