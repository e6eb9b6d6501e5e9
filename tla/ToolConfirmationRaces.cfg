\* Two answers race for one request; dropped streams and crashes, a steer.
SPECIFICATION Spec
CONSTANTS
    r1 = r1  v1 = v1  c1 = c1  c2 = c2  None = None
    Tools = {r1}
    LiveRequests = {}
    Clients = {c1, c2}
    Choices = {"allow_once", "cancel"}
    MaxSteers = 1
    MaxInterruptions = 2
INVARIANT PermissionGate
INVARIANT AcceptedIsPersisted
INVARIANT RerunsNeedInterruption
PROPERTY KeepsContract
SYMMETRY Symmetry
