\* Two requests of one browser, two TOTP counters, one recovery code; the second
\* failure locks, and one request may die between counting and locking.
SPECIFICATION Spec
CONSTANTS
    Browser = {b1}
    Request = {r1, r2}
    Code = {c1}
    LoginMax = 2
    Counter = {1, 2}
    MaxDied = 1
INVARIANTS LockoutEngages
PROPERTIES CodeCountsOnce RecoveryCountsOnce OneTimePasswordForced FactorStaysWhole PasswordAloneIsNotEnough
VIEW Reading
SYMMETRY Symmetry
