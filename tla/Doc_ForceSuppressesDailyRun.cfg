SPECIFICATION QuietSpec

CONSTANTS
    Customer      = {c1, c2}
    Requester     = {r1}
    Scheduler     = sched
    Nobody        = nobody
    MinutesPerDay = 3
    TickMinutes   = 1
    WaitLimit     = 1
    HistoryRuns   = 2
    LegacyChecks  = {2}
    Horizon       = 7

PROPERTY
    ForceSuppressesDailyRun
