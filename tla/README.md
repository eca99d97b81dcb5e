# Verification of the Entra secret monitor

TLA+ models of the program in `src/`, the TLC configurations that check them on
small instances, and proofs, checked by TLAPS, that hold for every size. The
models are read from the code; a comment or a document that says something else
is recorded as a divergence and not modelled.

Parse with `tlasany M.tla`, model-check with `tlc -config X.cfg M`, prove with
`tlapm M.tla`. `PROJECT.json` lists the runs, says which lines every definition
stands for (`map`), which deliberate slip breaks each property (`mutants`), and
what is hard to test in this code (`hazards`).

## 1. The system

Two programs share one library.

* The **monitor** (`app/server.py`, `app/cli.py`) is a threaded HTTP server. For
  every configured tenant it asks Microsoft Graph for the application
  registrations, keeps the credentials in a cache for `CACHE_TTL` seconds and
  renders them for PRTG. A push loop may send them instead.
* The **portal** (`portal/`) is a Flask application with SQLite behind it and
  one process. Customers, accounts and API keys live in the database. A
  scheduler thread scans every customer once a day at a slot of its own; sensors
  are answered from the stored snapshot and never reach Graph.
* The **library** (`app/graph.py`) fetches, groups, names, summarises and
  renders. Both programs use it.

### Components, their state and what makes them correct

| Component | State | Operations | Correct when |
|---|---|---|---|
| Scan schedule (`scheduler.py`) | `SCAN_LOCK`, the list of due customers, one thread | tick, take the next due customer, forced check with a bounded wait, start, crash | one scan at a time; no check repeated after its slot; every wait and every pass ends |
| Scan execution (`scanner.py`, `db.py`) | customer row, snapshot, run history | flush the run, fetch, store or fail, trim the history | row, snapshot and history change together; the age of the data is true |
| Slot plan (`scheduler.py`) | `slot_minute` of each customer | assign, redistribute | slots distinct, even, newcomers far from the others |
| Customers (`views/customers.py`, `views/api.py`, `forms.py`) | credential columns, thresholds, state | create, edit, PATCH, delete, force | the method in force always has its material; uploads stay whole; thresholds stay ordered |
| What is shown (`views/dashboard.py`, `diagnose.py`, `views/prtg.py`, `app/graph.py`) | none of its own: row, snapshot, clock | dashboard state, findings, PRTG document with scope parameters | the three agree; split sensors miss nothing; green means time |
| Channel names (`app/graph.py`) | none | suffixes, numbers | unique for every tenant |
| Rate limiter (`ratelimit.py`) | buckets of event times, a bounded table | `pruefe`, `_raeume_auf` | the window holds, the table is bounded, Retry-After suffices |
| Accounts (`views/users.py`) | accounts with role and state | create, edit, delete | an administrator remains |
| Credential cache (`app/server.py`) | per tenant a stamp and credentials; `tenants.json` | pages of one or all tenants, `get_credentials` with and without force, edits of the file | no answer is staler than promised, an edit shows in time |
| Sign-in (`views/auth.py`, `views/users.py`) | failure counter, lock, TOTP counter, recovery codes, password, browser session | password, code, recovery code, enrolment, step-up, password change, resets | the lockout engages, codes count once, a one time password goes, authenticator and recovery codes come and go together |
| API keys (`views/apikeys.py`, `views/api.py`) | keys, counters | issue, revoke, authenticate | a key counts until it is revoked |
| Schema upgrade (`db.py`) | columns | add what is missing | repeatable |

The scheduler and the request threads meet in `SCAN_LOCK`, which serialises
scans. Everything else meets in the database, and there the unit is the SQLite
transaction: **a request that selects first and writes later is not isolated
from other requests in between**, a flush takes the write lock until commit, and
the ORM mapper writes only the columns whose value differs from what was loaded.
These three facts decide how the models cut operations into steps. A browser's
session is a cookie, which every answer replaces as a whole. A poll takes no
lock at all. The monitor's cache is guarded by a lock that is not held while
Graph is called.

What is hard: the steps of scheduler, buttons and lifecycle interleave
(ScanSchedule); a scan holds the write transaction while Graph answers, and the
process may die there; state is read, then decided on, then written (SlotPlan,
Accounts, CustomerRecord, SignIn, RateLimit, TenantCache); data stands still while time
and thresholds move (CustomerView).

## 2. Modules

Time is a count of minutes, hours or seconds, whichever the code compares. A
definition called `X_Something` right above `X` is a *slip*: `X` with one
plausible mistake. Nothing uses it; `PROJECT.json` names it as the mutant that
breaks a property.

| Module | Models | Proofs |
|---|---|---|
| `ScanSchedule` | scheduler thread, `SCAN_LOCK`, forced checks, `run_check`, lifecycle, crash and restart | `ScanScheduleProofs` |
| `CheckLog` | the abstract promise: a check is one atomic entry | `ScanSchedule` implements it |
| `SensorPoll` | extends `ScanSchedule` with a poll that reads row and snapshot one after the other | `ScanScheduleProofs` |
| `SlotPlan` | `assign_slot`, `redistribute_slots` and the requests that call them | `SlotPlanProofs` |
| `CustomerRecord` | credential columns and thresholds through form and PATCH | `CustomerRecordProofs` |
| `CustomerView` | dashboard state, findings, PRTG document over row, snapshot and clock | `ReportProofs` |
| `ChannelNames` | `_assign_channel_names`, `_shared_names` | `ReportProofs` |
| `RateLimit` | `pruefe` and `_raeume_auf` | `ApiAccessProofs` |
| `ApiAccess` | extends `RateLimit` with the authentication of API calls, the administration of keys and the check limit of the button | `ApiAccessProofs` |
| `Accounts` | account administration | `AccountsProofs` |
| `SignIn` | password, second factor, enrolment, step-up and resets of one account | `SignInProofs` |
| `TenantCache` | `get_credentials`, the pages that call it and edits of `tenants.json` | `TenantCacheProofs` |

`MC*` modules hold what a `.cfg` cannot say: functions for constants, symmetry
sets, the views of `MCApiAccess`, `MCSignIn` and `MCTenantCache`, and in
`MCScanSchedule` the specification `QuietSpec`. The definitions of `ChannelNames`
that other modules call `Init`, `Next` and `Spec` have names of their own there
(`NamesInit` and so on), because `ReportProofs` extends it beside `CustomerView`.

**ScanSchedule.** `db`, `snap` and `runs` are the committed tables, `lock` is
`SCAN_LOCK`, `pc` and `job` say where each thread is, `due` is the rest of
`due_ids`, `timer` the end of a sleep or of `acquire(timeout=...)`. `WakeUp`,
`TakeDue` and `ListDone` are `_loop` and `_run_due`; `TakeDue` contains the
reload and the second `is_due` under the lock. `RequestCheck` or `CreateInUI`,
then `TakeForced` or `GiveUp`, are the two ways into `force_check`. `run_check`
is `BeginScan` (the flush: the write transaction is open), then one of
`ScanSucceeds`, `ScanFails`, `CommitFails`; `FlushFails` is the foreign key of a
customer deleted after it was loaded. While a scan is between flush and commit
no other row can be written (`Writing`). Before the flush it can, and a deleted id
may belong to a new customer: `loaded` is the status a scan found, and the mapper
leaves the column alone when the outcome is the same (`Column`), whatever the row
holds by then. `orphans` and `mixed` are history: the scans whose customer is gone,
and the rows that got only a part of such a scan's outcome. `Crash` ends every thread and rolls
back, `Restart` ticks at once. Initial rows include those of a release that had
no `last_success_at`.

**CheckLog** knows a clock and one entry per customer (open, attempt, status,
data, basis of the age), none of them ahead of the clock. A check of a customer that
is gone may end as the first entry of its successor (`Stray`), marked `foreign`.
`ScanSchedule!Log` maps each customer's row and
snapshot to an entry; run history, lock, threads and timers disappear. The
property `KeepsPromise` says that every step of the program is one of the
abstract steps or a stutter.

**SlotPlan.** A form chooses (`PickSlot`) and commits later (`CommitForm`); the
API does both under the write lock, and its own flushed row counts as a customer
at minute 0. A redistribution reads all customers (`LoadAll`) and writes the rows
whose slot changed (`Spread`), or nothing if one of them is gone. `moves` is what
a pending request is going to write; `stale` is history: the plan has changed
since the request read it. `RoundsDown` is where `int(index * (1440 / n))` falls
one below a whole result in floating point (11 of 33 customers, for one).

**CustomerRecord.** A request decides on the row it read (`EditForm`, `Patch`)
and writes the columns that differ (`Save`, with `Merged`). A new ciphertext
always differs. The form and the API have different rules for what stored
material counts; both are modelled (`FormOutcome`, `ApiOutcome`).

**CustomerView.** The tenant and PRTG are the environment: a scan finds any set of
credentials (`Tenant`), and what limits PRTG holds for a channel (`Held`) is any
choice, as each channel's were taken from the report in which it first appeared and
never change. `row` holds the totals of the last scan, `snapshot` its channels with
their days frozen. An hour has `HourLength` ticks, and `Age` counts whole hours. `State`,
`Findings` and `Colour` are the three readings; the report itself counts with the
thresholds of now. `Usual` is a sensor whose address sets no limits. A `Poll` sets its
own, which are the same in every report, so that it does not matter which PRTG took
(`Alike`); it also asks for a scope and for how many channels it wants to see (`Shown`).
`Scope` computes the scope from an address, as `filter_result` does: `app` is a whole name,
`filter` one text taken literally, `exclude` a comma list. A text is what it matches
(`Named`, `Within`, `Pieces`).

**ChannelNames.** A name is the sequence of its parts. `NamesInit` is any directory
and any list of channels, one `AddSuffix` is one turn of the loop over
`_NAME_SUFFIXES`, `Number` is the loop at the end.

**RateLimit.** The clock counts parts of a second, `Second` of them each, and `Wait` is
whole seconds, cut off and one added, as in the code. `ReadClock` is the line before the
lock, `Register` and `TurnAway` are everything under it. `admitted` is history: when each call really
was admitted.

**ApiAccess.** `row` is the table of keys, `req` what each request thread has
found out and which limits it still has to ask. `Lookup` is
`finde_schluessel` and the comparison with what the route needs, `UseKey` the
commit of `last_used_at`, which fails if the row is gone; then every limit takes
an `AskLimit` (the clock) and an `Answered` (the lock), so that requests
interleave between and within the questions. A bad call asks two limits whatever
the first one says, a good one asks its own, and a check of a customer that
exists one more, which it shares with `PressButton`. `served` and `refused` are
history. Every step is a step of `RateLimit` or leaves the limiter alone. `OwnAllowance`
is about the counters of wrong secrets: they are not asked for a good key. A table
that is full of other keys' events turns a good key away as well, and a check of a
customer shares its limit with every other check of it; both are other questions, which
its comment names.

**Accounts.** `DecideEdit` and `DecideDelete` read the account and count the
other administrators, `WriteEdit` and `WriteDelete` write. `admins` in a pending
request is history: who was administrator when it counted.

**SignIn.** One account: its row, its recovery codes, the cookies of the browsers
that use it, and the requests in progress (`task`). A request reads the row when
it starts (`seen`) and then commits once or more often; every commit is an
action. A failed attempt is `Raise` (one UPDATE), `Counted` (the row is read
again) and perhaps `Lock`; a code is `Claim`ed by a conditional UPDATE, a
recovery code read (`ReadCodes`) and `Spend`t; `Complete` is the last commit of a
sign-in and goes through the mapper, which writes only what differs from `seen`
(`Column`). `Enrol` is the confirmation of an authenticator, with its codes, in
one transaction; `ResetPassword` and `ResetTotp` are what an administrator does.
Locks and windows end at any time. `stale` says which kind of change has overtaken
a request; `used`, `spent`, `wrong` and `died` are history: codes taken, failures
since the counter was zeroed by a sign-in or a reset, or the account was unlocked
(the lock itself zeroes the column, not this count), and those of them whose request died
before it could lock. `LockoutEngages` relates that count to the lock in the row.

**TenantCache.** A worker reads `tenants.json` (`LoadTenants`) and then asks for
the tenants of its page one after the other: `Ask`, then `ServeHit`, or
`CallGraph`, `GraphReads`, `StoreAndServe`; `GraphFails` anywhere in between.
Meanwhile `Configure` edits the file. The cache knows a tenant by its key alone.
A `Variant` is what an entry says about what is fetched (directory, application,
`include_sp`); everything else is applied after the cache. Credentials stand for
the moment Graph read them and the variant they were fetched with. `until` is
history: when an entry last said something it no longer says.

## 3. Runs

| Run | Question | Bounds, and why they are enough |
|---|---|---|
| `SensorPoll` | Do row, snapshot, history and polls stay true to each other, and does everything implement `CheckLog`? | One customer (rows do not interact but through the lock), one button, days of three minutes, `Horizon` 6: the clock starts on day 1 and passes midnight, so every slot is met before and after it, by passes, buttons, restarts and legacy rows, and an id is deleted and used again while a scan of either kind of outcome is under way. History depth 1 is exceeded; the theorems cover every depth. |
| `Progress` | Can a scan leak the lock, can scans overlap, is every check answered, does every pass end? | Two customers, so a pass has a second entry when the first one fails; one button; two ticks with a minute between. |
| `ApiAccess` | What does the limiter do under the requests that drive it, who pays for bad calls, and can a revoked key come back? | Two threads, one key, five counters of which the table holds three: Two threads, one key, five counters of which the table holds two: it fills, is cleared and turns callers away. A second has two ticks; windows are of one and two seconds, limits of one, clock up to 5, so every window ends within a behaviour and waits are cut off within a second and at its end. Clock and lock do not come apart here (`MaxDelay` 0; with 1 the run is ten times the size): events that enter a bucket late are covered by the theorems alone, which hold for every delay. |
| `Slots` | Are slots distinct, best and even, and what can overlapping requests do to them? | Two requests, four customers in ten minutes: gaps of odd and even length occur, also over midnight, customers come to share a minute and are spread again, and one pair rounds down. |
| `CustomerRecord` | Can a sequence of edits leave a customer that cannot be scanned? | Two pairs, two days, two requests: rotations, switches and overlapping edits. |
| `CustomerView` | Do dashboard, findings and sensor agree, and what do sensors that split a customer show? | Two groups, one of secrets and one of certificates, hours of two ticks, days of two hours, data stale after one: in seven ticks a credential goes from above the warning to expired and data from fresh to twice too old, within an hour and at its end. Limits PRTG holds are any for each channel. Texts that name either application, one both contain, and a list of both. |
| `ChannelNames` | Do names end unique? | Three channels of three objects, two display names, two prefixes: a suffix can be shared by two of three channels and not by the third, or by all, as objects may share kind, application id and id prefix; then numbers are needed, beside names that must not get one. |
| `Accounts` | Who takes the last administrator away? | Two requests, three accounts. |
| `SignIn` | Do failures lock, does a code count once, what do resets leave behind, and does an authenticator change hands for a password alone, whatever runs beside each other? | Two requests of one browser (or of administrators), two TOTP counters and one recovery code; the second failure locks, and one request may die between counting and locking. Every pair of handlers overlaps at every commit. Initial rows include a hash of weaker parameters. |
| `TenantCache` | Is an answer ever too old, and does an edit show in time? | Two workers, `TTL` 2, clock up to 4: an entry expires and changes while two requests are under way. One tenant: tenants meet only on a page, where those in front cost time, and `MaxPage` 1 is that time. The theorems cover any number of tenants. |

Threads, requests, browsers, codes, tenants, groups and the like are symmetric
where no definition tells them apart. The views (`Reading`) of `ApiAccess`,
`SignIn` and `TenantCache` merge states that differ only in what nothing will
read any more: the data of an idle request, columns it read and no longer
compares, and history older than every window, or, in `SignIn`, codes at or below
the counter that no request at the claim holds. History that a property compares
stays in the view.

Each passing run is bounded by the constant `Horizon` where it has a clock; in
`ScanSchedule` a button is pressed only while its wait can still end within it.

**Fairness** (`FairSpec`, used by `Progress` only): weak fairness of the clock,
of the scheduler thread, of every thread's scan and of every waiting button. The
threads are operating system threads that nothing stops, Graph calls have a
timeout of 60 s (`graph_get_all`), and a sleep ends. `SCAN_LOCK` is not a fair
lock: nothing is assumed about who gets it. Because the bounded horizon ends the
stream of button presses, `PassEnds` says that a pass ends **once the buttons
let up**; a pass that loses the lock to buttons for ever is not excluded, here or
in the code. `CheckAnswered` needs no such excuse: a wait has an end of its own.

`CHECK_DEADLOCK FALSE` stands in `Accounts.cfg` only: without an administrator
nobody can do anything any more.

### Runs that show a divergence

| Run | The text | The code |
|---|---|---|
| `Doc_ForceSuppressesDailyRun` | `portal/views/customers.py:188`: after a force check "the scheduled run for the day is suppressed" | Only if it came after the slot (`is_due` compares with today's slot). |
| `Doc_LastAdminStays` | `docs/PORTAL.md:54`: the last active administrator can be neither deleted nor demoted | Count and write are two steps; two administrators can demote each other. `LastAdminProtected`, which holds, is what the code does ensure. |

### Divergences without a run

Seen while modelling, each by reading two places:

* `scheduler.py:76`, `docs/PORTAL.md:84`: a container that stood over a slot
  makes the run up at its start. Not if midnight UTC has passed: only today's
  slot is looked at.
* `scheduler.py:124`, `docs/PORTAL.md:78`: the scheduler works off what is due.
  A customer collected before midnight and reached after it is skipped.
* `views/customers.py:112`, `tests/test_portal.py:490`: customers do not share a
  minute. Two forms that overlap do; `SharedOnlyByOvertaken` says that nothing
  else can bring it about.
* `scanner.py:242`: a failed run moves the attempt on, not the data. A scan loads
  its customer before the flush takes the write lock; a customer that is deleted in between
  and whose id (SQLite gives the highest one out again) goes to a new one has its outcome
  stored there, less the columns that did not change since they were loaded. If the old customer's last scan
  had failed and this one fails too, the new row stays `pending` with a time of check, and
  `data_age_hours` counts from it although there is no snapshot; after a success
  the new customer shows the old one's data. The next check puts it right. `AgeOfData`,
  `HistoryMatchesRow` and `CheckLog` (`Stray`) name exactly this exception.
* `docs/PORTAL.md:400`: after `PORTAL_LOGIN_MAX_ATTEMPTS` failures the account locks on
  both stages, also when TOTP codes are guessed. The right password zeroes the counter
  before the second stage (`views/auth.py:119`), so failures at that stage lock
  only if as many happen without the first stage passed in between.
  `LockoutEngages` therefore counts from where the code zeroes; `MayVerify` and
  `PassPassword` model both stages.
* `views/api.py:120`: whoever knows the prefix of a key can lock that key for the
  window. The failures are counted apart from the good calls (`:219`, `:251`), and a good key
  never asks that counter; `OwnAllowance` shows that it is not locked.
* `docs/PORTAL.md:109`: the limits of a channel are those of the customer. PRTG takes
  them when a channel first appears and never again, as the same page says
  (`docs/PORTAL.md:117`, `README.md:208`), so after an edit a sensor may show a colour of its own.
  `ViewsAgree` says what is left: with data that are fresh no sensor is green where the dashboard
  is not, because the count below the warning threshold is computed with the one of now,
  and a sensor whose limits are in step has the dashboard's colour.
* `scanner.py:275`: `exclude` is a comma list, `filter` (`:272`) is one text that may contain a
  comma. What a list leaves out takes one sensor per piece to show, as
  `ScopesPartition` states it; the documents only split along a single text.
* `scanner.py:254`: ages are whole hours, so data may be up to an hour older than
  `PORTAL_STALE_HOURS` before the sensor says so; `GreenMeansTime` has that hour in its bound.
* `app/graph.py:438`: a duplicate name makes a sensor unusable. The snapshot does
  not keep the name that was chosen, and `result_from_db` (`scanner.py:207`) makes
  a plain one, so the portal's sensors may have two channels of one name.
* `views/prtg.py:46`, `config.py:56`: `PORTAL_STALE_HOURS` has no upper bound.
  An unknown age is sent as 9999, so from 5000 hours on it is no longer red
  (`UnknownAgeFades` proves it).
* `views/api.py:767`, `docs/PORTAL.md:74`: a newcomer lands in the largest gap
  between the others. Through the API its own flushed row counts, at minute 0.
* `ratelimit.py:77`: "at most `anzahl` events per `fenster` seconds" (`:39`)
  holds short of the time a call waits for the lock; `WindowHolds` states it so.
* `ratelimit.py:107`, `:19`: "full and nothing expired". Clearing goes by a fixed
  age of an hour, not by the window of the limit.
* `app/server.py:82`, `README.md:245`: sensors that find the cache expired at
  the same time all fetch. One after the other they share a call
  (`SharedCallsWhenAlone`).
* `app/server.py:82`, `:13`: `/refresh` does not drop the entry; a failed fetch
  leaves the old one, a slower one may replace a newer.
* `app/graph.py:551`: the slice trusts that `max_channels` was clamped. The
  portal passes the customer's own value (1 to 200) and adds a channel.
* `docs/PORTAL.md:352`: counters give entries back. `gib_frei` has no caller.
* `views/api.py:395`: the answer has a `key_id`, which no snapshot stores.

## 4. Proofs

TLAPS checks, for every value of the constants that satisfies the named
assumptions (`TimeAssumption` and so on, in the module that declares them):

| Module | Theorem | Property |
|---|---|---|
| `ScanScheduleProofs` | `TypeCorrect`, `LockHeldByScanner`, `ScansExclude`, `AgeIsTrue`, `HistoryIsCurrent`, `ChecksNotRepeated`, `PortalKeepsPromise` | types, `LockFollowsScan`, `OneScanAtATime`, `AgeOfData`, `HistoryMatchesRow`, `NoSecondCheckAfterSlot`, the refinement of `CheckLog` |
| | `PromiseIsEnough`, `DataMoveForward` | `CheckLog` alone implies `AgeOfData` and `NothingGetsOlder`; the second holds of the program through the refinement |
| | `HistoryIsOfTheData` | `HistoryTellsData`: the stored data are those of the last success in the history, which is in the order of time |
| | `NobodyIsStuck`, `PassVisitsOnce`, `PassVisitsAll` | a holder of `SCAN_LOCK` can go on and so can a pass; a pass scans a customer once and forgets nobody |
| | `PollTypeCorrect`, `AgeIsNeverUnderstated`, `PollsOnlyRead` | types of a poll, `AgeNeverUnderstates`; beside polls the schedule keeps all of this |
| `ApiAccessProofs` | `TypeCorrect`, `WindowAlwaysHolds`, `TableAlwaysBounded`, `RetryAlwaysLongEnough` | of the limiter: types, `WindowHolds`, `TableBounded`, `RetryLongEnough` |
| | `AccessTypeCorrect`, `LimiterIsUsed`, `InterfaceLimitsHold`, `KeysAreGoneForGood`, `AllowanceIsOwn`, `RefusalsAreBounded` | types, `ApiSpec => Spec` of the limiter, `WindowHolds`, `KeysNeverReturn`, `OwnAllowance`, `RefusalsBounded` |
| | `InterfaceTableBounded`, `InterfaceRetryLongEnough` | `TableBounded` and `RetryLongEnough` under the requests |
| `SlotPlanProofs` | `AssignFindsFree`, `TypeCorrect`, `OnlyTheOvertakenShare`, `RedistributionIsEven`, `ChoiceIsAlwaysFarthest` | `assign_slot` returns a free minute while there is one; types, `SharedOnlyByOvertaken`, `RedistributionEvens`, `ChoiceIsFarthest` |
| | `DistinctUnlessOvertaken`, `AlonePlanStaysDistinct`, `RequestsSerialise` | slots stay distinct, and requests act as one step each, unless one writes to a plan that changed under it |
| `SignInProofs` | `TypeCorrect`, `LockoutAlwaysEngages`, `CodesCountOnce`, `RecoveryCodesCountOnce`, `OneTimePasswordIsForced`, `FactorAlwaysWhole` | types, `LockoutEngages`, `CodeCountsOnce`, `RecoveryCountsOnce`, `OneTimePasswordForced`, `FactorStaysWhole` |
| | `PasswordNeverEnough`, `HalfwayStaysOutside`, `BothFactorsAlways`, `SerialSignInIsWhole` | `PasswordAloneIsNotEnough`; no cookie is halfway and inside; who is signed in has shown both factors; with requests one after the other both factors stay whole in every state |
| `TenantCacheProofs` | `TypeCorrect`, `StampHolds`, `AnswersFresh`, `ChangesShow` | types, `StampNeverAhead`, `AnswerIsFresh`, `ChangeShowsInTime` |
| | `SharedCallsWhenAlone` | with requests one after the other an unforced call replaces an expired entry only, and the cache never goes back |
| `AccountsProofs` | `TypeCorrect`, `LastAdminIsProtected`, `NobodyAdminByAccident`, `AdminAlwaysRemains` | types, `LastAdminProtected`, `NoAdminByAccident`; with requests one after the other an administrator remains |
| | `RequestsSerialise` | unless a request writes after the administrators it counted changed, requests act as one step each and an administrator remains |
| `CustomerRecordProofs` | `TypeCorrect`, `CredentialKept`, `UploadKeptWhole`, `ThresholdsKeptOrdered` | types, `CredentialStays`, `UploadStaysWhole`, `ThresholdsStayOrdered` |
| | `SoundUnlessOvertaken`, `AloneRecordStaysSound`, `RequestsSerialise` | the record is whole, and requests act as one step each, unless one is overtaken |
| `ReportProofs` | `NamesTypeCorrect`, `NamesEndUnique`, `LoneNamesAreKept` | of `ChannelNames`: types, `NamesUnique`, `LoneNameKept` |
| | `ViewTypeCorrect`, `ViewsAlwaysAgree`, `ScopesAlwaysPartition`, `GreenAlwaysMeansTime`, `RecoveryAlwaysNeedsScan` | of `CustomerView`: types, `ViewsAgree`, `ScopesPartition`, `GreenMeansTime`, `RecoveryNeedsScan` |
| | `UnknownAgeFades` | where `ViewsAgree` ends: the hours from which an unknown age is no longer red |

The arguments:

* **ScanSchedule.** The inductive invariant is `TypeOK /\ LockInv /\ PresenceInv
  /\ LoadInv /\ DataInv`. `LockFollowsScan` alone is not inductive: a thread that waits or
  sleeps has to be known not to hold the lock, and a thread at `graph` to have a
  customer that is still there (no row can be written meanwhile). `LoadInv` says that
  a scan whose customer was not deleted since still knows the status of the row, so that what the
  mapper leaves out is there already, and that the customer of one that
  lost its own has never been checked or is gone. `DataInv` ties
  row, snapshot and history of each customer to each other; `AgeOfData` needs
  that a row without `last_success_at` and without an error has a snapshot taken
  at its last attempt, or is a mixed one. The same invariant gives the step simulation of
  `CheckLog`: every action maps to `Pass`, `Open`, `Close`, `Succeed`, `Fail`, `Stray` or
  to no change.
  `HistoryTellsData` is inductive beside it: trimming keeps the newest runs, so the
  last success is only lost when nothing in the history succeeded (`TrimmedTells`),
  and a new run is never older than those before it.
  *Progress, as far as it is safety*: a thread that holds `SCAN_LOCK` is in a scan,
  and a scan waits for nobody but another open write transaction, which only a
  holder has; so every wait is for a scan and never for another wait. Passes only
  shorten their list (`ListedOnce`), a customer leaves it before its scan starts,
  and none leaves it unjudged. That these steps are taken is fairness and model-checked.
  *The promise alone*: `PromiseInv` of `CheckLog` needs nothing of the program; what
  follows from it reaches the program by `PortalKeepsPromise`.
* **SensorPoll.** Snapshots of one customer only get newer between the two
  reads, unless the row goes; a poll's basis is at most the data it will find.
* **RateLimit** (in `ApiAccessProofs`). Every event in a bucket is at most
  `MaxDelay` older than its admission, and the events of a bucket are the last admissions: what a call
  drops or clears is out of every window that is still open. `RetryLongEnough` is arithmetic on
  `\div`: a quotient that is cut off is less than one short, which is what the added second
  makes up for (`ProductGrows`, `ProductOfNext`).
* **ApiAccess.** Each of its steps is a step of `RateLimit` or a stutter, so the
  limiter's theorems carry over. `OwnAllowance` needs that what the limiter
  admitted under a key's counter is exactly what was `served` to that key: only
  a request that carries the key asks that counter. `RefusalsBounded` needs
  that the refused calls are, in their order, some of those admitted for the
  address (`Within`); a window that `refused` would break, `admitted` breaks too.
* **SlotPlan.** Least elements of sets of minutes come from the well-foundedness
  of the finite subsets. Half the widest gap leads to a free minute unless every
  minute is used, and no minute is farther from the used ones. Places of a
  redistribution grow with the rank; the pairs that round down need the
  assumption that their exact share is not a whole number. `Current(r)`: what a
  pending request is going to write is what it would compute now, unless it is
  stale.
* **Requests that read first and write later** (`SlotPlan`, `CustomerRecord`,
  `Accounts`, `SignIn`, `TenantCache`). The properties the runs check allow an overtaken request to
  do harm. The theorems `...UnlessOvertaken` and `RequestsSerialise` say what is left when no
  overtaken request writes, as a premise on the behaviour: the system is then sound in
  every state, and every change is one of an atomic system (`Atomic`) on the state
  as it is. The premise holds whenever there is one request at a time (`OneAtATime`),
  which the `Alone...`, `Serial...` and `AdminAlwaysRemains` theorems draw on.
* **SignIn.** `IInv` is `TypeOK /\ Recorded /\ Limited` and, for every
  request, `UpToDate`. `Recorded` ties history to the row: every code taken is at
  or below the counter, every recovery code taken is marked, and while the account is open
  `failed_logins` is at least the number of failures counted. `Limited` keeps the column below
  the limit but for requests that are registering or died; the two give `LockoutEngages`. `UpToDate` says that a request
  which nobody overtook still knows the columns it leaves alone; without it
  the mapper's silence could undo a reset.
  Sessions need an invariant of their own, `SessionInv`: what a cookie, a request
  or an answer on its way may carry is halfway or inside but never both
  (`Separate`), and a request at the enrolment or at the end of a sign-in has what
  brings it there (`Earned`). Late answers may bring the cookie of a session back
  after a logout; the theorems say so and allow nothing else.
* **TenantCache.** A stamp is the moment its worker asked, which is never later
  than the moment Graph read. An entry was fetched for what the file said at its
  stamp, give or take a page (`Kept`, and `Sound` for workers under way);
  `LastSaid` never decreases, so later edits cannot make that untrue.
* **Accounts, CustomerRecord.** `Decided(r)`: what a pending request will write
  is right with respect to what it saw. A step that breaks the property is then
  the write of a request whose view is out of date, which is what the property
  allows.
* **ChannelNames.** Before the numbers every name ends with a type or a suffix
  (`Unnumbered`), never with a number; channels of one group get different
  positions (`Positions`), so names with numbers differ from names without and
  from each other. Suffixes and numbers come at the end (`Heads`), so a name that
  nobody shares stays nobody else's and is left alone.
* **CustomerView.** `ViewInv` is `TypeOK /\ RowInv`: the totals in the row are
  those of the snapshot, and the days of the snapshot were true at the moment the
  age counts from. The sensor's colour is decided by its age and its worst
  channel (`SensorIs`), so that a sensor over several scopes is the worst of them and
  what `max_channels` cuts off cannot hide anything. A sensor whose limits are any still counts what
  is below the customer's threshold or expired, which is why it is not green where
  the dashboard is not. That the pieces of a text and the rest are the whole is set
  theory on `Scope`; an age in whole hours is less than one below the time that has passed.
  Of `StaleHours` the module only assumes a natural number, as the code does not
  limit it; `ViewsAlwaysAgree` needs `2 * StaleHours < 9999` (`UnknownIsRed`) and the
  other two that speak of age `StaleHours < 9999` (`UnknownIsStale`).

**Only model-checked**: liveness (`CheckAnswered`, `PassEnds`), because fairness is
out of the prover's reach. Every invariant and every action property of a passing
run is a theorem.

## 5. Limits of the models

* The wall clock does not jump. Days have no daylight saving (the code uses UTC).
* Other databases than SQLite, and more than one portal process, are out: the
  code supports one process.
* `CustomerRecord` has one customer. Its key never changes. When a request is
  overtaken by another one, columns of both may mix; the properties say that
  nothing else can break them. Replacing the PRTG token is one statement on one
  column and not modelled.
* `CustomerView` reads row and snapshot at once (`SensorPoll` covers the two
  reads). Of channels that share the last place below `max_channels` it shows all, which
  with limits that differ can make a sensor worse than it is, and in `ViewsAgree` no
  sensor depends on that: what keeps it from green are the summary channels.
  PRTG is modelled as the limits it holds say; that it takes no more than
  50 channels is not. Totals that an id used again left empty in a row are those of
  `ScanSchedule`'s mixed rows and not modelled here. Findings about the portal's own credential are left out.
* `ChannelNames` starts from what Graph delivers; objects without id and
  characters XML cannot carry are left out.
* `ApiAccess` leaves out the form of the hash and its upgrade, and calls without
  a key, which touch nothing. Several addresses would be several `Anon`.
* The first check after creating a customer may give up on `SCAN_LOCK`
  (`views/customers.py:119`). `GiveUp` models the state it leaves; that the answer
  is an error page although the customer exists is not part of a model.
* `CustomerView` takes `StaleHours` as a natural number; a negative setting has no
  meaning. The run has a small one, so what happens from 5000 on is only proved.
* `TenantCache` bounds the time between reading the entries and asking for the
  last tenant of a page (`MaxPage`). The code does not, but every Graph call has a
  timeout.
* `SignIn` has one account, which stays enabled; disabling and deleting are
  `Accounts`. A lock and the windows of a session end at any time instead of after
  their minutes, and a code may be entered at any time. Which secret an enrolment
  shows is not told apart from the code that confirms it. What passwords
  are allowed is left out.

Not modelled: the schema upgrade (one loop at the start, before anything is
answered: what is missing is added, what is there is skipped, and a run that was
interrupted repeats the rest; there is nothing to interleave); cryptography and the
audit log (primitives, append-only); listings and pages (pure reads); the command line, the health check and the scripts (no state).

## 6. Plan

1. *Done*: `ScanSchedule` with `CheckLog` and `SensorPoll`, then what the
   schedule hands out (`SlotPlan`), what guards it (`RateLimit`, and `ApiAccess`
   composed with it), what customers and accounts become (`CustomerRecord`,
   `Accounts`, `SignIn`), what is shown of them (`CustomerView`, `ChannelNames`),
   and the monitor's cache with its configuration (`TenantCache`). All safety
   properties are proved.
2. The setup secret of an enrolment in the browser session, over logins and
   step-ups.
3. The number of channels PRTG takes, against `max_channels` and the channel the
   portal adds.
4. `SchemaUpgrade`, should it ever run beside requests.
