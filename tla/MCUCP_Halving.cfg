CONSTANTS
    NumThreads = 3
    Assoc = 4
    Reachable = {1, 2}
    MaxCount = 2
SPECIFICATION Spec
PROPERTY HistogramsHalved
