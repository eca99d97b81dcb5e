----------------------------- MODULE ScanSchedule -----------------------------
(***************************************************************************)
(* The daily scan schedule of the portal and everything that competes with *)
(* it: the scheduler thread (portal/scheduler.py), the request threads     *)
(* that force a check, the customer lifecycle of the web and API views,    *)
(* the persistence of a scan (portal/scanner.py) and crash and restart of  *)
(* the one portal process.                                                 *)
(*                                                                         *)
(* Time is a count of minutes.  A database transaction is one step, with   *)
(* one exception: run_check flushes its CheckRun before it calls Microsoft *)
(* Graph and commits only afterwards, so on SQLite it holds the database   *)
(* write lock for the whole call.  While a thread is at "graph" no other   *)
(* row can be written (a waiting writer fails after the busy timeout and   *)
(* changes nothing).                                                       *)
(***************************************************************************)
EXTENDS Integers, Sequences

CONSTANTS
    Customer,        \* customer ids; an id can be used again after a delete
    Requester,       \* request threads that may run a forced check
    Scheduler,       \* the scan-scheduler thread
    Nobody,          \* SCAN_LOCK is not held; a thread has no customer
    MinutesPerDay,   \* MINUTES_PER_DAY, scaled down for model checking
    TickMinutes,     \* config.tick_seconds in minutes
    WaitLimit,       \* wait_seconds of force_check in minutes
    HistoryRuns,     \* config.history_runs
    LegacyChecks,    \* when rows written before last_success_at were checked
    Horizon          \* bound: the clock stops here

ASSUME TimeAssumption ==
    /\ MinutesPerDay \in Nat \ {0}
    /\ TickMinutes \in Nat \ {0}
    /\ WaitLimit \in Nat
    /\ Horizon \in Nat
    /\ LegacyChecks \subseteq 0..MinutesPerDay

ASSUME HistoryAssumption == HistoryRuns \in Nat

ASSUME ThreadAssumption ==
    /\ Scheduler \notin Requester
    /\ Nobody \notin Requester \cup {Scheduler}
    /\ Nobody \notin Customer

Thread  == Requester \cup {Scheduler}
Minutes == 0..(MinutesPerDay - 1)

\* NULL in a timestamp column.  It lies before every point of time.
Never == -1
Moment == Nat \cup {Never}

VARIABLES
    now,      \* minutes since the start of some day
    db,       \* the committed rows of the customers table
    snap,     \* per customer, when the stored credential snapshot was taken
    runs,     \* per customer, the committed check_runs in the order they started
    lock,     \* the holder of SCAN_LOCK
    pc,       \* where each thread is
    job,      \* the customer a thread was asked to check, or is checking
    timer,    \* end of the scheduler's sleep or of a wait for SCAN_LOCK, else 0
    due,      \* the rest of due_ids, each with the slot it was sorted by
    loaded,   \* last_status as a scanning thread loaded it, else "pending"
    orphans,  \* history: the scans whose customer was deleted since they loaded it
    mixed     \* history: the rows whose last check was such a scan's and kept the
              \* status of the row it found

vars   == <<now, db, snap, runs, lock, pc, job, timer, due, loaded, orphans, mixed>>
data   == <<db, snap, runs, mixed>>
threads == <<lock, pc, job, timer, due, loaded, orphans>>

-------------------------------------------------------------------------------
(* Rows *)

Statuses == {"pending", "ok", "error"}
Triggers == {"schedule", "manual"}

Row == [present: BOOLEAN, active: BOOLEAN, slot: Minutes,
        lastCheck: Moment, lastSuccess: Moment, status: Statuses]

RunRow == [finished: Nat, status: {"ok", "error"}, trigger: Triggers]

AbsentRow == [present |-> FALSE, active |-> FALSE, slot |-> 0,
              lastCheck |-> Never, lastSuccess |-> Never, status |-> "pending"]

NewRow(active, slot) ==
    [AbsentRow EXCEPT !.present = TRUE, !.active = active, !.slot = slot]

\* Today's slot of a customer, as a point of time.
SlotToday(slot, t) == (t - (t % MinutesPerDay)) + slot

IsDue(row, t) ==
    /\ row.active
    /\ t >= SlotToday(row.slot, t)
    /\ row.lastCheck = Never \/ row.lastCheck < SlotToday(row.slot, t)

\* The mapper writes a column if the value it is given differs from the one that
\* was loaded, whatever the row holds by now.
Column(stored, seen, given) == IF given = seen THEN stored ELSE given

\* What a scan that loaded the status "seen" makes of the row.  The moments are
\* new ones, so they are always written.
SuccessRow(row, seen, t) ==
    [row EXCEPT !.status = Column(@, seen, "ok"), !.lastCheck = t, !.lastSuccess = t]

FailureRow(row, seen, t) ==
    [row EXCEPT !.status = Column(@, seen, "error"), !.lastCheck = t]

\* Slip: ordered the wrong way, the newest runs go.
Trimmed_Newest(history) ==
    SubSeq(history, 1, IF Len(history) > HistoryRuns THEN HistoryRuns ELSE Len(history))

\* The oldest runs beyond the configured depth go.
Trimmed(history) ==
    LET surplus == IF Len(history) > HistoryRuns THEN Len(history) - HistoryRuns ELSE 0
    IN  SubSeq(history, surplus + 1, Len(history))

\* Slip: the age of the last attempt.
AgeBasis_LastCheck(row) == row.lastCheck

\* data_age_hours: the moment the age of the data is counted from.
AgeBasis(row) ==
    IF row.lastSuccess # Never THEN row.lastSuccess
    ELSE IF row.status # "error" THEN row.lastCheck ELSE Never
-------------------------------------------------------------------------------
(* Initial states: a process that starts on a database written by a version *)
(* that knew last_check_at only, with any mix of customers.                  *)

Legacy(slot, t, status) ==
    [NewRow(TRUE, slot) EXCEPT !.lastCheck = t, !.status = status]

LegacyRun(t, status) == <<[finished |-> t, status |-> status, trigger |-> "schedule"]>>

NoRow     == {[row |-> AbsentRow, snap |-> Never, runs |-> <<>>]}
Unchecked == {[row |-> NewRow(TRUE, s), snap |-> Never, runs |-> <<>>] : s \in Minutes}
Succeeded == {[row |-> Legacy(s, t, "ok"), snap |-> t, runs |-> LegacyRun(t, "ok")] :
                s \in Minutes, t \in LegacyChecks}
Failed    == {[row |-> Legacy(s, t, "error"), snap |-> d, runs |-> LegacyRun(t, "error")] :
                s \in Minutes, t \in LegacyChecks, d \in {Never, 0}}

LegacyStates == NoRow \cup Unchecked \cup Succeeded \cup Failed

Init ==
    /\ now = MinutesPerDay
    /\ \E legacy \in [Customer -> LegacyStates] :
          /\ db = [c \in Customer |-> legacy[c].row]
          /\ snap = [c \in Customer |-> legacy[c].snap]
          /\ runs = [c \in Customer |-> Trimmed(legacy[c].runs)]
    /\ lock = Nobody
    /\ pc = [t \in Thread |-> IF t = Scheduler THEN "sleep" ELSE "idle"]
    /\ job = [t \in Thread |-> Nobody]
    /\ timer = [t \in Thread |-> IF t = Scheduler THEN now ELSE 0]
    /\ due = {}
    /\ loaded = [t \in Thread |-> "pending"]
    /\ orphans = {}
    /\ mixed = {}

-------------------------------------------------------------------------------
(* One scan, by whichever thread holds SCAN_LOCK: run_check *)

Up == pc[Scheduler] # "down"

\* A thread sits between the flush of its CheckRun and the commit.
Writing == \E t \in Thread : pc[t] = "graph"

\* Where a thread goes on after a scan: the scheduler with the rest of its
\* list, a request thread with its answer.
AfterScan(t) == IF t = Scheduler THEN "work" ELSE "idle"

Release(t, next) ==
    /\ lock' = Nobody
    /\ pc' = [pc EXCEPT ![t] = next]
    /\ job' = [job EXCEPT ![t] = Nobody]
    /\ loaded' = [loaded EXCEPT ![t] = "pending"]
    /\ orphans' = orphans \ {t}

\* With SCAN_LOCK taken the customer is loaded; the database is not locked yet.
BeginLoad(t, c) ==
    /\ lock' = t
    /\ pc' = [pc EXCEPT ![t] = "loaded"]
    /\ job' = [job EXCEPT ![t] = c]
    /\ loaded' = [loaded EXCEPT ![t] = db[c].status]
    /\ UNCHANGED orphans

\* The CheckRun is flushed: the write transaction is open.
BeginScan(t) ==
    /\ pc[t] = "loaded"
    /\ db[job[t]].present
    /\ ~Writing
    /\ pc' = [pc EXCEPT ![t] = "graph"]
    /\ UNCHANGED <<now, data, lock, job, timer, due, loaded, orphans>>

\* An exception out of session_scope ends the scan.  It reaches _loop, so the
\* scheduler drops the rest of its list and sleeps.
Drop(t) ==
    IF t = Scheduler
    THEN /\ due' = {}
         /\ timer' = [timer EXCEPT ![t] = now + TickMinutes]
         /\ Release(t, "sleep")
    ELSE /\ UNCHANGED <<due, timer>>
         /\ Release(t, "idle")

\* Slip: the lock is not released on the way out of the exception.
FlushFails_KeepsLock(t) ==
    /\ pc[t] = "loaded"
    /\ ~db[job[t]].present
    /\ pc' = [pc EXCEPT ![t] = IF t = Scheduler THEN "sleep" ELSE "idle"]
    /\ job' = [job EXCEPT ![t] = Nobody]
    /\ due' = IF t = Scheduler THEN {} ELSE due
    /\ timer' = [timer EXCEPT ![t] = IF t = Scheduler THEN now + TickMinutes ELSE 0]
    /\ UNCHANGED <<now, data, lock, loaded, orphans>>

\* The customer was deleted after it was loaded: the flush violates the
\* foreign key.  (Unless its id belongs to a new customer by then: BeginScan.)
FlushFails(t) ==
    /\ pc[t] = "loaded"
    /\ ~db[job[t]].present
    /\ Drop(t)
    /\ UNCHANGED <<now, data>>

\* row is what the mapper leaves of the customer that has the id now.
Store(t, row, taken, status) ==
    LET c == job[t]
        run == [finished |-> now, status |-> status,
                trigger |-> IF t = Scheduler THEN "schedule" ELSE "manual"]
    IN  /\ pc[t] = "graph"
        /\ db' = [db EXCEPT ![c] = row]
        /\ snap' = [snap EXCEPT ![c] = taken]
        /\ runs' = [runs EXCEPT ![c] = Trimmed(Append(runs[c], run))]
        /\ mixed' = IF t \in orphans /\ loaded[t] = status
                    THEN mixed \cup {c} ELSE mixed \ {c}
        /\ Release(t, AfterScan(t))
        /\ UNCHANGED <<now, timer, due>>

\* Graph answered: snapshot, row and run are replaced in one transaction.
ScanSucceeds(t) == Store(t, SuccessRow(db[job[t]], loaded[t], now), now, "ok")

\* Slip: a failed scan is tried again at once.
ScanFails_Retries(t) ==
    /\ pc[t] = "graph"
    /\ pc' = [pc EXCEPT ![t] = "loaded"]
    /\ UNCHANGED <<now, data, lock, job, timer, due, loaded, orphans>>

\* No usable credential, no token, a Graph error: the snapshot stays.
ScanFails(t) == Store(t, FailureRow(db[job[t]], loaded[t], now), snap[job[t]], "error")

\* The transaction is lost (disk full, I/O error) and with it the CheckRun.
\* Whether the exception passes _run_due depends on where SQLite raised it.
CommitFails(t) ==
    /\ pc[t] = "graph"
    /\ \/ Drop(t)
       \/ /\ Release(t, AfterScan(t))
          /\ UNCHANGED <<timer, due>>
    /\ UNCHANGED <<now, data>>

-------------------------------------------------------------------------------
(* The scheduler thread: _loop and _run_due *)

\* A tick collects what is due, ordered by slot.  Equal slots come in the
\* order the database likes.
WakeUp ==
    /\ pc[Scheduler] = "sleep"
    /\ now >= timer[Scheduler]
    /\ due' = {<<db[c].slot, c>> : c \in {k \in Customer : db[k].present /\ IsDue(db[k], now)}}
    /\ pc' = [pc EXCEPT ![Scheduler] = "work"]
    /\ timer' = [timer EXCEPT ![Scheduler] = 0]
    /\ UNCHANGED <<now, data, lock, job, loaded, orphans>>

NextDue(entry) ==
    /\ entry \in due
    /\ \A other \in due : entry[1] <= other[1]

\* Slip: what was due when the tick began is taken to be due still.
TakeDue_NoRecheck(entry) ==
    LET c == entry[2]
    IN  /\ pc[Scheduler] = "work"
        /\ lock = Nobody
        /\ NextDue(entry)
        /\ due' = due \ {entry}
        /\ IF db[c].present
           THEN BeginLoad(Scheduler, c)
           ELSE UNCHANGED <<lock, pc, job, loaded, orphans>>
        /\ UNCHANGED <<now, data, timer>>

\* With the lock held the customer is loaded again and checked again.
TakeDue(entry) ==
    LET c == entry[2]
    IN  /\ pc[Scheduler] = "work"
        /\ lock = Nobody
        /\ NextDue(entry)
        /\ due' = due \ {entry}
        /\ IF db[c].present /\ IsDue(db[c], now)
           THEN BeginLoad(Scheduler, c)
           ELSE UNCHANGED <<lock, pc, job, loaded, orphans>>
        /\ UNCHANGED <<now, data, timer>>

ListDone ==
    /\ pc[Scheduler] = "work"
    /\ due = {}
    /\ pc' = [pc EXCEPT ![Scheduler] = "sleep"]
    /\ timer' = [timer EXCEPT ![Scheduler] = now + TickMinutes]
    /\ UNCHANGED <<now, data, lock, job, due, loaded, orphans>>

-------------------------------------------------------------------------------
(* A forced check: the view, then force_check *)

Await(m, c) ==
    /\ pc' = [pc EXCEPT ![m] = "waiting"]
    /\ job' = [job EXCEPT ![m] = c]
    /\ timer' = [timer EXCEPT ![m] = now + WaitLimit]

\* The button or POST /check: an existing customer, inside its rate limit.
RequestCheck(m, c) ==
    /\ Up
    /\ pc[m] = "idle"
    /\ db[c].present
    /\ now + WaitLimit <= Horizon
    /\ Await(m, c)
    /\ UNCHANGED <<now, data, lock, due, loaded, orphans>>

\* Slip: the result of acquire is not looked at.
TakeForced_Anyway(m) ==
    /\ pc[m] = "waiting"
    /\ IF db[job[m]].present
       THEN BeginLoad(m, job[m])
       ELSE Release(m, "idle")
    /\ timer' = [timer EXCEPT ![m] = 0]
    /\ UNCHANGED <<now, data, due>>

\* The lock is taken before wait_seconds are over; a customer that is gone by
\* then is a LookupError.
TakeForced(m) ==
    /\ pc[m] = "waiting"
    /\ lock = Nobody
    /\ IF db[job[m]].present
       THEN BeginLoad(m, job[m])
       ELSE Release(m, "idle")
    /\ timer' = [timer EXCEPT ![m] = 0]
    /\ UNCHANGED <<now, data, due>>

\* TimeoutError.
GiveUp(m) ==
    /\ pc[m] = "waiting"
    /\ lock # Nobody
    /\ now >= timer[m]
    /\ pc' = [pc EXCEPT ![m] = "idle"]
    /\ job' = [job EXCEPT ![m] = Nobody]
    /\ timer' = [timer EXCEPT ![m] = 0]
    /\ UNCHANGED <<now, data, lock, due, loaded, orphans>>

-------------------------------------------------------------------------------
(* The customer lifecycle: the web views and the API *)

\* Slots are handed out by assign_slot and redistribute_slots; which minute
\* they pick is the subject of SlotPlan, here it is any minute.
WriteRow(c, row) ==
    /\ Up
    /\ ~Writing
    /\ db' = [db EXCEPT ![c] = row]

\* The web form commits the row and forces a first check in the same request.
CreateInUI(m, c, active, slot) ==
    /\ pc[m] = "idle"
    /\ ~db[c].present
    /\ now + WaitLimit <= Horizon
    /\ WriteRow(c, NewRow(active, slot))
    /\ Await(m, c)
    /\ UNCHANGED <<now, snap, runs, mixed, lock, due, loaded, orphans>>

\* The API leaves the first check to the schedule.
CreateViaApi(c, active, slot) ==
    /\ ~db[c].present
    /\ WriteRow(c, NewRow(active, slot))
    /\ UNCHANGED <<now, snap, runs, mixed, threads>>

\* The edit form and PATCH may switch a customer on and off.
SetActive(c) ==
    /\ db[c].present
    /\ WriteRow(c, [db[c] EXCEPT !.active = ~db[c].active])
    /\ UNCHANGED <<now, snap, runs, mixed, threads>>

\* A scan that has loaded the customer knows nothing of its end.
Orphan(c) ==
    /\ orphans' = orphans \cup {t \in Thread : pc[t] = "loaded" /\ job[t] = c}
    /\ mixed' = mixed \ {c}

\* Slip: no cascade to the snapshot.
Delete_KeepsSnapshot(c) ==
    /\ db[c].present
    /\ WriteRow(c, AbsentRow)
    /\ runs' = [runs EXCEPT ![c] = <<>>]
    /\ Orphan(c)
    /\ UNCHANGED <<now, snap, lock, pc, job, timer, due, loaded>>

\* The row goes with its runs and its snapshot (cascade).
Delete(c) ==
    /\ db[c].present
    /\ WriteRow(c, AbsentRow)
    /\ snap' = [snap EXCEPT ![c] = Never]
    /\ runs' = [runs EXCEPT ![c] = <<>>]
    /\ Orphan(c)
    /\ UNCHANGED <<now, lock, pc, job, timer, due, loaded>>

Redistribute(slots) ==
    /\ Up
    /\ ~Writing
    /\ db' = [c \in Customer |->
                IF db[c].present THEN [db[c] EXCEPT !.slot = slots[c]] ELSE db[c]]
    /\ UNCHANGED <<now, snap, runs, mixed, threads>>

-------------------------------------------------------------------------------
(* Process and clock *)

\* Every thread dies with the process; an open transaction is rolled back.
Crash ==
    /\ Up
    /\ lock' = Nobody
    /\ pc' = [t \in Thread |-> IF t = Scheduler THEN "down" ELSE "idle"]
    /\ job' = [t \in Thread |-> Nobody]
    /\ due' = {}
    /\ timer' = [t \in Thread |-> 0]
    /\ loaded' = [t \in Thread |-> "pending"]
    /\ orphans' = {}
    /\ UNCHANGED <<now, data>>

\* start: the loop ticks at once.
Restart ==
    /\ ~Up
    /\ pc' = [pc EXCEPT ![Scheduler] = "sleep"]
    /\ timer' = [timer EXCEPT ![Scheduler] = now]
    /\ UNCHANGED <<now, data, lock, job, due, loaded, orphans>>

\* A timer that has run out is served within the minute.
TimersPending ==
    /\ pc[Scheduler] = "sleep" => now < timer[Scheduler]
    /\ \A m \in Requester : pc[m] = "waiting" => now < timer[m]

Clock ==
    /\ now < Horizon
    /\ TimersPending
    /\ now' = now + 1
    /\ UNCHANGED <<data, threads>>

-------------------------------------------------------------------------------

Scan(t) == BeginScan(t) \/ FlushFails(t) \/ ScanSucceeds(t) \/ ScanFails(t) \/ CommitFails(t)

Schedule == WakeUp \/ (\E entry \in due : TakeDue(entry)) \/ ListDone

Answer(m) == TakeForced(m) \/ GiveUp(m)

Lifecycle ==
    \/ \E c \in Customer, active \in BOOLEAN, slot \in Minutes :
          \/ CreateViaApi(c, active, slot)
          \/ \E m \in Requester : CreateInUI(m, c, active, slot)
    \/ \E c \in Customer : SetActive(c) \/ Delete(c)
    \/ \E slots \in [Customer -> Minutes] : Redistribute(slots)

Next ==
    \/ Clock
    \/ Schedule
    \/ \E t \in Thread : Scan(t)
    \/ \E m \in Requester : Answer(m) \/ \E c \in Customer : RequestCheck(m, c)
    \/ Lifecycle
    \/ Crash
    \/ Restart

Spec == Init /\ [][Next]_vars

\* Every thread that can take a step takes one, and time goes on.  Nothing is
\* assumed of users, of crashes or of SCAN_LOCK, which is not a fair lock.
Fairness ==
    /\ WF_vars(Clock)
    /\ WF_vars(Schedule)
    /\ \A t \in Thread : WF_vars(Scan(t))
    /\ \A m \in Requester : WF_vars(Answer(m))

FairSpec == Spec /\ Fairness

-------------------------------------------------------------------------------
(* Properties *)

TypeOK ==
    /\ now \in Nat
    /\ db \in [Customer -> Row]
    /\ snap \in [Customer -> Moment]
    /\ runs \in [Customer -> Seq(RunRow)]
    /\ lock \in Thread \cup {Nobody}
    /\ pc \in [Thread -> {"down", "sleep", "work", "idle", "waiting", "loaded", "graph"}]
    /\ job \in [Thread -> Customer \cup {Nobody}]
    /\ timer \in [Thread -> Nat]
    /\ due \subseteq Minutes \X Customer
    /\ loaded \in [Thread -> Statuses]
    /\ orphans \subseteq Thread
    /\ mixed \subseteq Customer

\* "A single process wide lock serialises scheduled runs and force checks":
\* at most one thread is between loading a customer and storing its scan.
Scanning(t) == pc[t] \in {"loaded", "graph"}

OneScanAtATime ==
    \A t, u \in Thread : Scanning(t) /\ Scanning(u) => t = u

\* SCAN_LOCK is held exactly while a thread scans: no way out of a scan (a
\* customer that vanished, a failed commit, a crash) leaks the lock.
LockFollowsScan ==
    \A t \in Thread : (lock = t) <=> Scanning(t)

\* The age a sensor is told is the age of the data it is told, or unknown.  A
\* failed check, a row from an older version or a crash never makes stored
\* data look newer than they are.  The one exception is a mixed row, whose status
\* the mapper left at "pending" after a failure: it tells the age of the attempt,
\* but it has no data at all, and the next check puts it right.
AgeOfData ==
    \A c \in Customer :
        AgeBasis(db[c]) # Never => \/ snap[c] = AgeBasis(db[c])
                                   \/ c \in mixed /\ snap[c] = Never

\* The last attempt shown on the row is the newest run of the history,
\* whichever thread made it, and trimming never takes that run.  A mixed row
\* shows the time of that run, but "pending" for its outcome.
HistoryMatchesRow ==
    \A c \in Customer :
        LET last == Len(runs[c])
        IN  /\ last <= HistoryRuns
            /\ last > 0 => /\ runs[c][last].finished = db[c].lastCheck
                           /\ \/ runs[c][last].status = db[c].status
                              \/ c \in mixed /\ db[c].status = "pending"

\* A scheduled scan never repeats a check of the same day after the slot: not
\* after a restart, not when a button press won SCAN_LOCK first, not when the
\* check failed.  (Moving the slot between load and flush is the one excuse.)
StartsScheduled(c) ==
    pc[Scheduler] # "loaded" /\ pc'[Scheduler] = "loaded" /\ job'[Scheduler] = c

NoSecondCheckAfterSlot ==
    [][\A c \in Customer : StartsScheduled(c) =>
          \A i \in 1..Len(runs[c]) :
              runs[c][i].finished < SlotToday(db[c].slot, now)]_vars

\* A force check is answered: with a result, "not found" or "busy".
CheckAnswered ==
    \A m \in Requester : (pc[m] = "waiting") ~> (pc[m] = "idle")

\* The scheduler never hangs in a pass: every scan it begins, every wait for
\* SCAN_LOCK and every aborted scan ends, and it sleeps again.
PassEnds ==
    (pc[Scheduler] = "work") ~> (pc[Scheduler] \in {"sleep", "down"})

\* docs: a check forced by hand suppresses the scheduled run of its day.
ForceSuppressesDailyRun ==
    [][\A c \in Customer : StartsScheduled(c) =>
          ~ \E i \in 1..Len(runs[c]) :
              /\ runs[c][i].trigger = "manual"
              /\ runs[c][i].finished \div MinutesPerDay = now \div MinutesPerDay]_vars

\* What a sensor is served from, in the terms of the promise.
LogEntry(row, taken, foreign) ==
    [open |-> row.present, checked |-> row.lastCheck, status |-> row.status,
     data |-> taken, basis |-> AgeBasis(row), foreign |-> foreign]

Log == [c \in Customer |-> LogEntry(db[c], snap[c], c \in mixed)]

Promise == INSTANCE CheckLog WITH clock <- now, log <- Log

\* Schedule, buttons, lifecycle, crashes: all of it implements the promise that
\* a check is one atomic entry; a scan of a customer that was deleted meanwhile
\* enters at most once, and only with a customer nobody has checked.
KeepsPromise == Promise!Spec
===============================================================================
