\* Two variants of one repository, two downloads, a cancelling and a deleting
\* request; anything may fail. It stops when no download is left.
SPECIFICATION FairSpec
CONSTANTS
  m1 = m1
  m2 = m2
  r1 = r1
  own1 = own1
  own2 = own2
  shared = shared
  None = None
  Repo <- RepoDef
  FilesOf <- FilesDef
  Models = {m1, m2}
  Tasks = {t1, t2}
  Clients = {c1}
  Deleters = {d1}
  Faults = {"resolve", "fetch"}
INVARIANT TypeOK
PROPERTY CancelledStays
PROPERTY DeleteSparesListed
PROPERTY SignalEnds
CHECK_DEADLOCK FALSE
