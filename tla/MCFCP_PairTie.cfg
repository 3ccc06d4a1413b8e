CONSTANTS
    NumThreads = 4
    NumSets = 1
    Assoc = 6
    SpeedupValues = {1, 2}
    PairingPolicy = "Sec"
    PairingInterval = 0
SPECIFICATION Spec
PROPERTY PairTransfersStayInPair
