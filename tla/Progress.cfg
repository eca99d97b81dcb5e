\* Two customers and one button; two ticks with a minute between them.
SPECIFICATION FairSpec

CONSTANTS
    Customer      = {c1, c2}
    Requester     = {r1}
    Scheduler     = sched
    Nobody        = nobody
    MinutesPerDay = 2
    TickMinutes   = 1
    WaitLimit     = 1
    HistoryRuns   = 1
    LegacyChecks  = {}
    Horizon       = 3

INVARIANTS
    LockFollowsScan
    OneScanAtATime

PROPERTIES
    CheckAnswered
    PassEnds
