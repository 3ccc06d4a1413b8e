CONSTANTS
    NumSets = 1
    Assoc = 3
    Threads = {0, 1, 2}
    NoThread = NoThread
    Tags = {0, 1}
    Nil = Nil
    Policies = {"PLRU"}
SPECIFICATION Spec
PROPERTY AtQuotaEvictsCompetitor
