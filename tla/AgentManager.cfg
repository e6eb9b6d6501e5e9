\* Two callers, one droppable, two sessions, room for one agent.
CONSTANTS
    s1 = s1  s2 = s2  c1 = c1  c2 = c2
    l1 = l1  l2 = l2
    Sessions = {s1, s2}
    Callers = {c1, c2}
    Droppable = {c1}
    Locks = {l1, l2}
    Capacity = 1
    Ops = {"get", "remove", "send"}
    MaxAgents = 2
SPECIFICATION FairSpec
PROPERTIES
    KeepsRegistry
    GetReturns
INVARIANTS
    OneBuilder
    BusyIsBacked
