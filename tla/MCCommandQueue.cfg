CONSTANTS
    Queues = {q1, q2}
    NumCmds = 2
    MaxWaits = 1
    NDRanges <- MCNDRanges
    Nil = Nil
SPECIFICATION Spec
INVARIANT TypeOK
INVARIANT QueueIsFifo
PROPERTY FlushedCommandsComplete
PROPERTY HostCallsReturn
INVARIANT GroupStartsExact
