\* A tool, a call nested in it, a second dispatch of the same request, two
\* elicitations, one of which echoes the id. Waiters and handlers may be dropped.
\* It stops when all is answered.
SPECIFICATION FairSpec
CONSTANTS
  tool = tool
  nested = nested
  again = again
  call1 = call1
  ask1 = ask1
  ask2 = ask2
  None = None
  Dispatches = {tool, nested, again}
  CallIds = {call1}
  Requests = {ask1, ask2}
  Answerers = {a, b}
  Echo = {ask1}
  CallOf <- OneCallOf
  Outer <- ThreeOuter
  Home <- TwoHome
  Capacity = 1
  Drops = TRUE
  MaxStarted = 4
INVARIANT TypeOK
INVARIANT RecordedIsHeard
INVARIANT RefusedLeavesNoTrace
INVARIANT StreamStaysRegistered
INVARIANT PendingIsWaited
PROPERTY OneAnswerRecorded
PROPERTY ElicitationEnds
CHECK_DEADLOCK FALSE
