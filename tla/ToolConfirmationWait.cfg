\* A tool and a provider ask in one turn, one client answers, a stream is dropped.
SPECIFICATION FairSpec
CONSTANTS
    r1 = r1  v1 = v1  c1 = c1  c2 = c2  None = None
    Tools = {r1}
    LiveRequests = {v1}
    Clients = {c1}
    Choices = {"allow_once"}
    MaxSteers = 0
    MaxInterruptions = 1
INVARIANT NoLostWakeup
PROPERTY WaitEnds
