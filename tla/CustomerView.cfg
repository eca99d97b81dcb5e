\* Two groups, an hour of two ticks and a day of two hours, data stale after one hour:
\* a credential goes from above the warning to expired, and data from fresh to twice too
\* old, within an hour and at its end; unknown ages are twice too old.
SPECIFICATION Spec
CONSTANTS
    first = first
    second = second
    Group = {first, second}
    Secrets = {first}
    Text <- Texts
    Named <- NamedBy
    Within <- Containing
    Pieces <- BetweenCommas
    End = {2, 6}
    Threshold = {1, 2}
    HourLength = 2
    DayLength = 4
    StaleHours = 1
    Horizon = 7
INVARIANTS TypeOK ViewsAgree ScopesPartition GreenMeansTime
PROPERTY RecoveryNeedsScan
SYMMETRY Symmetry
