\* The end of one download marks the next one exited.
SPECIFICATION Spec
CONSTANTS
  m1 = m1
  m2 = m2
  r1 = r1
  own1 = own1
  own2 = own2
  shared = shared
  None = None
  Repo <- RepoDef
  FilesOf <- FilesDef
  Models = {m1}
  Tasks = {t1, t2}
  Clients = {}
  Deleters = {}
  Faults = {}
INVARIANT ExitedIsTrue
CHECK_DEADLOCK FALSE
