\* Three messages and two approvals; anything may fail. It stops when all messages are handled.
SPECIFICATION Spec
CONSTANTS
  Messages = {a, b, c}
  Requests = {r, s}
  Faults = {"send", "store"}
  None = None
SYMMETRY Symmetry
INVARIANT TypeOK
INVARIANT Serialized
INVARIANT RequestReachable
INVARIANT QueueIsCurrent
CHECK_DEADLOCK FALSE
