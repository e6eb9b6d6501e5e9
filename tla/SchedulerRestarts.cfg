\* One caller, a tick, another process on the file, an expression that does not
\* parse; one fault of any kind: a failed write, a dropped caller or a crash.
CONSTANTS
    j1 = j1  c1 = c1  c2 = c2  t1 = t1
    e1 = e1  e2 = e2  e3 = e3  a = a  b = b  bad = bad
    Jobs = {j1}
    Crons = {a, b, bad}
    BadCrons = {bad}
    MissingRecipes = {}
    Clients = {c1}
    Ticks = {t1}
    Timers = {e1, e2}
    Ops = {"add", "update", "remove", "pause", "unpause", "kill", "list"}
    MaxFaults = 1
    MaxOthers = 1
SPECIFICATION FairSpec
INVARIANT FiresAsShown
PROPERTY ListMergesTheFile
PROPERTY CancelledRunEnds
