\* Two prompts and a steer on two connections, a close and a load that reopens
\* the session. It stops when every connection is lost.
SPECIFICATION Spec
CONSTANTS
  Conns = {c1, c2}
  Runs = {p, q}
  Steers = {s}
  StateMachine = TRUE
  MaxLoads = 1
  MaxCloses = 1
  None = None
SYMMETRY Symmetry
INVARIANT OneLoop
INVARIANT SteerStaysWithAgent
CHECK_DEADLOCK FALSE
