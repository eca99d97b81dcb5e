\* One tenant, whose place on a page is how long after reading the entries it is
\* asked for; two workers; entries that expire and change while requests are under way.
SPECIFICATION Spec
CONSTANTS
    Tenant = {t1}
    Variant = {v1, v2}
    Absent = Absent
    Worker = {w1, w2}
    NoTenant = NoTenant
    TTL = 2
    MaxPage = 1
    Horizon = 4
VIEW Reading
SYMMETRY Symmetry
INVARIANTS StampNeverAhead
PROPERTIES AnswerIsFresh ChangeShowsInTime
