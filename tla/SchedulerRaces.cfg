\* Two callers and a tick race for one job: every operation but list, pause and
\* unpause; one fault of any kind: a failed write, a dropped caller or a crash.
CONSTANTS
    j1 = j1  c1 = c1  c2 = c2  t1 = t1
    e1 = e1  e2 = e2  e3 = e3  a = a  b = b  bad = bad
    Jobs = {j1}
    Crons = {a, b}
    BadCrons = {}
    MissingRecipes = {}
    Clients = {c1, c2}
    Ticks = {t1}
    Timers = {e1, e2, e3}
    Ops = {"add", "update", "remove", "kill", "run_now"}
    MaxFaults = 1
    MaxOthers = 0
SPECIFICATION Spec
INVARIANT RunningIsBacked
INVARIANT TokensAreLive
INVARIANT JobHasTimer
INVARIANT EveryChangeIsSaved
SYMMETRY Symmetry
