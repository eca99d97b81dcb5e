\* One customer, one button, polls in between; more than two days of three
\* minutes, so that passes meet midnight and every slot twice.
SPECIFICATION PollSpec

CONSTANTS
    Customer      = {c1}
    Requester     = {r1}
    Scheduler     = sched
    Nobody        = nobody
    MinutesPerDay = 3
    TickMinutes   = 1
    WaitLimit     = 1
    HistoryRuns   = 1
    LegacyChecks  = {2}
    Horizon       = 6

INVARIANTS
    AgeOfData
    HistoryMatchesRow
    AgeNeverUnderstates

PROPERTIES
    NoSecondCheckAfterSlot
    KeepsPromise
