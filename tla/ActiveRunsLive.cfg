\* Two prompts, a close, lost connections: cancelled runs free the session.
SPECIFICATION FairSpec
CONSTANTS
  Conns = {c1, c2}
  Runs = {p, q}
  Steers = {}
  StateMachine = TRUE
  MaxLoads = 0
  MaxCloses = 1
  None = None
PROPERTY CancelledRunEnds
CHECK_DEADLOCK FALSE
