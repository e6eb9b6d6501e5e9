\* Two tasks, two files that may change on the server, a crash; anything may fail.
CONSTANTS
    t1 = t1  t2 = t2
    Tasks = {t1, t2}
    NFiles = 2
    Sizes <- Shrinks
    Hint = 0
    MaxRetries = 1
    Faults = {"mkdir", "head", "net", "http", "remove", "remote"}
    MaxCrashes = 1
    MaxRefusals = 1
SPECIFICATION FairSpec
INVARIANTS
    TypeOK
    ExitedIsTrue
    OneTask
    DestIsWhole
PROPERTY TaskEnds
