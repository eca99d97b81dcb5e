-------------------------- MODULE ScanScheduleProofs --------------------------
(***************************************************************************)
(* Theorems about ScanSchedule, and about the polls of SensorPoll beside   *)
(* it, for any set of customers and request threads, any length of the     *)
(* day and any history depth.                                              *)
(***************************************************************************)
EXTENDS SensorPoll, SequenceTheorems, FiniteSetTheorems, WellFoundedInduction, TLAPS

-------------------------------------------------------------------------------
(* Rows and histories *)

\* NewRow, SuccessRow and FailureRow build rows of the table.
LEMMA RowsAreRows ==
    /\ AbsentRow \in Row
    /\ \A active \in BOOLEAN, slot \in Minutes : NewRow(active, slot) \in Row
    /\ \A row \in Row, seen \in Statuses, t \in Nat :
          SuccessRow(row, seen, t) \in Row /\ FailureRow(row, seen, t) \in Row
<1>1. 0 \in Minutes
  BY TimeAssumption DEF Minutes
<1>2. AbsentRow \in Row
  BY <1>1 DEF AbsentRow, Row, Statuses, Moment
<1>3. \A active \in BOOLEAN, slot \in Minutes : NewRow(active, slot) \in Row
  BY <1>2 DEF NewRow, AbsentRow, Row, Statuses, Moment
<1>4. \A row \in Row, seen \in Statuses, t \in Nat :
          SuccessRow(row, seen, t) \in Row /\ FailureRow(row, seen, t) \in Row
  BY DEF SuccessRow, FailureRow, Column, Row, Statuses, Moment
<1>5. QED
  BY <1>2, <1>3, <1>4

\* _trim_history keeps a suffix: at most the configured number of runs, the
\* newest ones, in their order.
LEMMA TrimmedKeepsNewest ==
    ASSUME NEW history \in Seq(RunRow)
    PROVE  /\ Trimmed(history) \in Seq(RunRow)
           /\ Len(Trimmed(history)) \in Nat
           /\ Len(Trimmed(history)) <= HistoryRuns
           /\ Len(Trimmed(history)) <= Len(history)
           /\ \A i \in 1..Len(Trimmed(history)) :
                 Trimmed(history)[i] = history[i + Len(history) - Len(Trimmed(history))]
<1> DEFINE surplus == IF Len(history) > HistoryRuns THEN Len(history) - HistoryRuns ELSE 0
           kept == SubSeq(history, surplus + 1, Len(history))
<1>1. Len(history) \in Nat /\ HistoryRuns \in Nat
  BY LenProperties, HistoryAssumption
<1>2. surplus \in 0..Len(history) /\ Len(history) - surplus <= HistoryRuns
  BY <1>1
<1>3. \A i \in (surplus + 1)..Len(history) : history[i] \in RunRow
  BY <1>1, <1>2, ElementOfSeq
<1> HIDE DEF surplus
<1>4. /\ kept \in Seq(RunRow)
      /\ Len(kept) = IF surplus + 1 <= Len(history) THEN Len(history) - (surplus + 1) + 1 ELSE 0
      /\ \A i \in 1..(Len(history) - (surplus + 1) + 1) : kept[i] = history[surplus + 1 + i - 1]
  BY <1>1, <1>2, <1>3, SubSeqProperties
<1>5. Len(kept) = Len(history) - surplus
  BY <1>1, <1>2, <1>4
<1>6. \A i \in 1..Len(kept) : kept[i] = history[i + Len(history) - Len(kept)]
  <2> HIDE DEF kept
  <2> TAKE i \in 1..Len(kept)
  <2>1. i \in 1..(Len(history) - (surplus + 1) + 1)
    BY <1>1, <1>2, <1>5
  <2>2. i + Len(history) - Len(kept) = surplus + 1 + i - 1
    BY <1>1, <1>2, <1>5
  <2>3. QED
    BY <1>4, <2>1, <2>2
<1>7. Trimmed(history) = kept
  BY DEF Trimmed, surplus
<1> HIDE DEF kept
<1>8. Len(kept) \in Nat /\ Len(kept) <= HistoryRuns /\ Len(kept) <= Len(history)
  BY <1>1, <1>2, <1>5
<1>9. QED
  BY <1>4, <1>6, <1>7, <1>8

-------------------------------------------------------------------------------
(* Type correctness of the first state *)

\* The states the process starts in are well typed.
LEMMA InitTyped == Init => TypeOK
<1> SUFFICES ASSUME Init PROVE TypeOK
  OBVIOUS
<1>1. PICK legacy \in [Customer -> LegacyStates] :
          /\ db = [c \in Customer |-> legacy[c].row]
          /\ snap = [c \in Customer |-> legacy[c].snap]
          /\ runs = [c \in Customer |-> Trimmed(legacy[c].runs)]
  BY DEF Init
<1>2. \A state \in LegacyStates :
          state.row \in Row /\ state.snap \in Moment /\ state.runs \in Seq(RunRow)
  <2> SUFFICES ASSUME NEW state \in LegacyStates
               PROVE  state.row \in Row /\ state.snap \in Moment /\ state.runs \in Seq(RunRow)
    OBVIOUS
  <2>1. LegacyChecks \subseteq Nat
    BY TimeAssumption
  <2>2. \A s \in Minutes, t \in LegacyChecks, status \in {"ok", "error"} :
            Legacy(s, t, status) \in Row
    BY <2>1 DEF Legacy, NewRow, AbsentRow, Row, Statuses, Moment
  <2>3. \A t \in LegacyChecks, status \in {"ok", "error"} : LegacyRun(t, status) \in Seq(RunRow)
    BY <2>1 DEF LegacyRun, RunRow, Triggers
  <2>4. <<>> \in Seq(RunRow) /\ Never \in Moment /\ LegacyChecks \subseteq Moment /\ 0 \in Moment
    BY <2>1, EmptySeq DEF Moment
  <2>5. \A s \in Minutes : NewRow(TRUE, s) \in Row
    BY RowsAreRows
  <2>6. CASE state \in NoRow
    <3>1. state = [row |-> AbsentRow, snap |-> Never, runs |-> <<>>]
      BY <2>6 DEF NoRow
    <3>2. QED
      BY <2>4, <3>1, RowsAreRows
  <2>7. CASE state \in Unchecked
    <3>1. PICK s \in Minutes : state = [row |-> NewRow(TRUE, s), snap |-> Never, runs |-> <<>>]
      BY <2>7 DEF Unchecked
    <3> DEFINE fresh == NewRow(TRUE, s)
    <3>2. fresh \in Row
      BY <2>5
    <3>3. state = [row |-> fresh, snap |-> Never, runs |-> <<>>]
      BY <3>1
    <3> HIDE DEF fresh
    <3>4. QED
      BY <2>4, <3>2, <3>3
  <2>8. CASE state \in Succeeded
    BY <2>2, <2>3, <2>4, <2>8, SMT DEF Succeeded
  <2>9. CASE state \in Failed
    BY <2>2, <2>3, <2>4, <2>9, SMT DEF Failed
  <2>10. QED
    BY <2>6, <2>7, <2>8, <2>9 DEF LegacyStates
<1>3. db \in [Customer -> Row] /\ snap \in [Customer -> Moment] /\ runs \in [Customer -> Seq(RunRow)]
  BY <1>1, <1>2, TrimmedKeepsNewest
<1>4. QED
  BY <1>3, TimeAssumption DEF Init, TypeOK, Thread, Statuses

-------------------------------------------------------------------------------
(* The lock *)

\* A thread with a check on its hands knows which customer to check.
JobGiven ==
    \A t \in Thread : pc[t] \in {"waiting", "loaded", "graph"} => job[t] \in Customer

LockInv == LockFollowsScan /\ JobGiven

LEMMA LockInvInit == Init => LockInv
  BY ThreadAssumption DEF Init, LockInv, LockFollowsScan, Scanning, JobGiven, Thread

\* No step lets a thread scan without SCAN_LOCK or leaves the lock behind.
LEMMA LockInvNext == TypeOK /\ LockInv /\ [Next]_vars => LockInv'
<1> SUFFICES ASSUME TypeOK, LockInv, [Next]_vars PROVE LockInv'
  OBVIOUS
<1> USE ThreadAssumption DEF TypeOK, LockInv, LockFollowsScan, JobGiven, Scanning
<1>0. Scheduler \in Thread /\ Requester \subseteq Thread /\ Nobody \notin Thread
  BY DEF Thread
<1>1. CASE Clock
  BY <1>1 DEF Clock, threads
<1>2. CASE Schedule
  <2>1. CASE WakeUp
    BY <1>0, <2>1 DEF WakeUp
  <2>2. ASSUME NEW entry \in due, TakeDue(entry) PROVE LockInv'
    <3>1. entry[2] \in Customer
      OBVIOUS
    <3>2. CASE db[entry[2]].present /\ IsDue(db[entry[2]], now)
      <4>1. /\ lock' = Scheduler
            /\ pc' = [pc EXCEPT ![Scheduler] = "loaded"]
            /\ job' = [job EXCEPT ![Scheduler] = entry[2]]
            /\ lock = Nobody
        BY <2>2, <3>2 DEF TakeDue, BeginLoad
      <4>2. QED
        BY <1>0, <3>1, <4>1
    <3>3. CASE ~(db[entry[2]].present /\ IsDue(db[entry[2]], now))
      <4>1. UNCHANGED <<lock, pc, job>>
        BY <2>2, <3>3 DEF TakeDue
      <4>2. QED
        BY <4>1
    <3>4. QED
      BY <3>2, <3>3
  <2>3. CASE ListDone
    BY <1>0, <2>3 DEF ListDone
  <2>4. QED
    BY <1>2, <2>1, <2>2, <2>3 DEF Schedule
<1>3. ASSUME NEW t \in Thread, Scan(t) PROVE LockInv'
  <2>1. CASE BeginScan(t)
    BY <2>1 DEF BeginScan
  <2>2. ASSUME Scanning(t), NEW next \in {"sleep", "work", "idle"}, Release(t, next)
        PROVE  LockInv'
    BY <1>0, <2>2 DEF Release
  <2>3. CASE FlushFails(t)
    BY <2>2, <2>3 DEF FlushFails, Drop
  <2>4. CASE CommitFails(t)
    BY <2>2, <2>4 DEF CommitFails, Drop, AfterScan
  <2>5. CASE ScanSucceeds(t)
    BY <2>2, <2>5 DEF ScanSucceeds, Store, AfterScan
  <2>6. CASE ScanFails(t)
    BY <2>2, <2>6 DEF ScanFails, Store, AfterScan
  <2>7. QED
    BY <1>3, <2>1, <2>3, <2>4, <2>5, <2>6 DEF Scan
<1>4. ASSUME NEW m \in Requester, Answer(m) PROVE LockInv'
  <2>1. CASE TakeForced(m)
    <3>1. CASE db[job[m]].present
      <4>1. /\ lock' = m
            /\ pc' = [pc EXCEPT ![m] = "loaded"]
            /\ UNCHANGED job
            /\ lock = Nobody /\ pc[m] = "waiting"
        BY <2>1, <3>1 DEF TakeForced, BeginLoad
      <4>2. QED
        BY <1>0, <4>1
    <3>2. CASE ~db[job[m]].present
      <4>1. Release(m, "idle") /\ lock = Nobody
        BY <2>1, <3>2 DEF TakeForced
      <4>2. QED
        BY <1>0, <4>1 DEF Release
    <3>3. QED
      BY <3>1, <3>2
  <2>2. CASE GiveUp(m)
    BY <1>0, <2>2 DEF GiveUp
  <2>3. QED
    BY <1>4, <2>1, <2>2 DEF Answer
<1>5. ASSUME NEW m \in Requester, NEW c \in Customer, Await(m, c), pc[m] = "idle", UNCHANGED lock
      PROVE  LockInv'
  BY <1>0, <1>5 DEF Await
<1>6. ASSUME UNCHANGED <<lock, pc, job>> PROVE LockInv'
  BY <1>6
<1>7. CASE Lifecycle
  BY <1>5, <1>6, <1>7
     DEF Lifecycle, CreateInUI, CreateViaApi, SetActive, Delete, Redistribute, threads
<1>8. CASE Crash
  BY <1>0, <1>8 DEF Crash
<1>9. CASE Restart
  BY <1>0, <1>9 DEF Restart, Up
<1>10. CASE UNCHANGED vars
  BY <1>10 DEF vars
<1>11. QED
  BY <1>1, <1>2, <1>3, <1>4, <1>5, <1>7, <1>8, <1>9, <1>10 DEF Next, RequestCheck

-------------------------------------------------------------------------------
(* Type correctness, and the lock in every behaviour *)

\* Every step of the schedule, of a scan, of a request, of the lifecycle and of
\* the process keeps the state well typed.
LEMMA NextTyped == TypeOK /\ LockInv /\ [Next]_vars => TypeOK'
<1> SUFFICES ASSUME TypeOK, LockInv, [Next]_vars PROVE TypeOK'
  OBVIOUS
<1> USE DEF TypeOK
<1>0. Scheduler \in Thread /\ now + TickMinutes \in Nat /\ now + WaitLimit \in Nat
  BY TimeAssumption DEF Thread
<1>1. CASE Clock
  BY <1>1 DEF Clock, data, threads
<1>2. CASE Schedule
  <2>1. CASE WakeUp
    <3>1. \A c \in Customer : <<db[c].slot, c>> \in Minutes \X Customer
      BY DEF Row
    <3>2. due' \subseteq Minutes \X Customer
      BY <2>1, <3>1 DEF WakeUp
    <3>3. QED
      BY <2>1, <3>2 DEF WakeUp, data
  <2>2. ASSUME NEW entry \in due, TakeDue(entry) PROVE TypeOK'
    <3>1. entry[2] \in Customer /\ db[entry[2]].status \in Statuses
      BY DEF Row
    <3>2. QED
      BY <1>0, <2>2, <3>1 DEF TakeDue, BeginLoad, data
  <2>3. CASE ListDone
    BY <1>0, <2>3 DEF ListDone, data
  <2>4. QED
    BY <1>2, <2>1, <2>2, <2>3 DEF Schedule
<1>3. ASSUME NEW t \in Thread, Scan(t) PROVE TypeOK'
  <2>1. CASE BeginScan(t)
    BY <2>1 DEF BeginScan, data
  <2> DEFINE Places == {"down", "sleep", "work", "idle", "waiting", "loaded", "graph"}
  <2>0. ASSUME NEW next \in Places, Release(t, next)
        PROVE  /\ lock' \in Thread \cup {Nobody}
               /\ pc' \in [Thread -> Places]
               /\ job' \in [Thread -> Customer \cup {Nobody}]
               /\ loaded' \in [Thread -> Statuses] /\ orphans' \subseteq Thread
    BY <2>0 DEF Release, Statuses
  <2>2. ASSUME Drop(t), UNCHANGED <<now, data>> PROVE TypeOK'
    <3>1. due' \subseteq Minutes \X Customer /\ timer' \in [Thread -> Nat]
      BY <1>0, <2>2 DEF Drop
    <3>2. PICK next \in Places : Release(t, next)
      BY <2>2 DEF Drop
    <3>3. QED
      BY <2>0, <2>2, <3>1, <3>2 DEF data
  <2>3. ASSUME Release(t, AfterScan(t)), UNCHANGED <<now, data, timer, due>> PROVE TypeOK'
    <3>1. AfterScan(t) \in Places
      BY DEF AfterScan
    <3>2. QED
      BY <2>0, <2>3, <3>1 DEF data
  <2>4. ASSUME NEW row, NEW taken, NEW status, Store(t, row, taken, status),
               row \in Row, taken \in Moment,
               job[t] \in Customer, status \in {"ok", "error"}
        PROVE  TypeOK'
    <3> DEFINE run == [finished |-> now, status |-> status,
                       trigger |-> IF t = Scheduler THEN "schedule" ELSE "manual"]
               longer == Append(runs[job[t]], run)
    <3>1. run \in RunRow
      BY <2>4 DEF RunRow, Triggers
    <3>2. job[t] \in Customer => Trimmed(longer) \in Seq(RunRow)
      <4> SUFFICES ASSUME job[t] \in Customer PROVE Trimmed(longer) \in Seq(RunRow)
        OBVIOUS
      <4>1. longer \in Seq(RunRow)
        BY <3>1, AppendProperties
      <4>2. QED
        BY <4>1, TrimmedKeepsNewest
    <3> HIDE DEF longer, run
    <3>3. runs' = [runs EXCEPT ![job[t]] = Trimmed(longer)]
      BY <2>4 DEF Store, longer, run
    <3>4. runs' \in [Customer -> Seq(RunRow)]
      BY <3>2, <3>3
    <3>5. db' \in [Customer -> Row] /\ snap' \in [Customer -> Moment]
      BY <2>4 DEF Store
    <3>6. QED
      BY <2>4, <3>4, <3>5 DEF Store, Release, AfterScan, Statuses
  <2>5. CASE ScanSucceeds(t)
    <3>1. job[t] \in Customer
      BY <1>3, <2>5 DEF ScanSucceeds, Store, LockInv, JobGiven
    <3>2. SuccessRow(db[job[t]], loaded[t], now) \in Row
      BY <3>1, RowsAreRows
    <3>3. QED
      BY <2>4, <2>5, <3>1, <3>2 DEF ScanSucceeds, Moment
  <2>6. CASE ScanFails(t)
    <3>1. job[t] \in Customer
      BY <1>3, <2>6 DEF ScanFails, Store, LockInv, JobGiven
    <3>2. FailureRow(db[job[t]], loaded[t], now) \in Row
      BY <3>1, RowsAreRows
    <3>3. QED
      BY <2>4, <2>6, <3>1, <3>2 DEF ScanFails
  <2>7. QED
    BY <1>3, <2>1, <2>2, <2>3, <2>5, <2>6 DEF Scan, FlushFails, CommitFails
<1>4. ASSUME NEW m \in Requester, Answer(m) PROVE TypeOK'
  <2>1. CASE TakeForced(m)
    <3>1. m \in Thread /\ job[m] \in Customer /\ db[job[m]].status \in Statuses
      BY <2>1 DEF TakeForced, LockInv, JobGiven, Thread, Row
    <3>2. QED
      BY <2>1, <3>1 DEF TakeForced, BeginLoad, Release, data, Statuses
  <2>2. CASE GiveUp(m)
    BY <2>2 DEF GiveUp, data
  <2>3. QED
    BY <1>4, <2>1, <2>2 DEF Answer
<1>5. ASSUME NEW m \in Requester, NEW c \in Customer, RequestCheck(m, c) PROVE TypeOK'
  BY <1>0, <1>5 DEF RequestCheck, Await, data, Thread
<1>6. ASSUME NEW c \in Customer, NEW active \in BOOLEAN, NEW slot \in Minutes,
             CreateViaApi(c, active, slot)
      PROVE  TypeOK'
  BY <1>6, RowsAreRows DEF CreateViaApi, WriteRow, threads
<1>7. ASSUME NEW c \in Customer, NEW active \in BOOLEAN, NEW slot \in Minutes,
             NEW m \in Requester, CreateInUI(m, c, active, slot)
      PROVE  TypeOK'
  BY <1>0, <1>7, RowsAreRows DEF CreateInUI, WriteRow, Await, Thread
<1>8. ASSUME NEW c \in Customer, SetActive(c) PROVE TypeOK'
  BY <1>8 DEF SetActive, WriteRow, threads, Row
<1>9. ASSUME NEW c \in Customer, Delete(c) PROVE TypeOK'
  BY <1>9, RowsAreRows, EmptySeq DEF Delete, WriteRow, Orphan, Moment
<1>10. ASSUME NEW slots \in [Customer -> Minutes], Redistribute(slots) PROVE TypeOK'
  BY <1>10 DEF Redistribute, threads, Row
<1>11. CASE Crash
  BY <1>11 DEF Crash, data, Statuses
<1>12. CASE Restart
  BY <1>12 DEF Restart, data
<1>13. CASE UNCHANGED vars
  BY <1>13 DEF vars
<1>14. QED
  BY <1>1, <1>2, <1>3, <1>4, <1>5, <1>6, <1>7, <1>8, <1>9, <1>10, <1>11, <1>12, <1>13
     DEF Next, Lifecycle

\* Type correctness of the schedule: the table, the lock, the threads and the
\* due list keep their shape in every behaviour.
THEOREM TypeCorrect == Spec => []TypeOK
<1>1. QED
  BY InitTyped, NextTyped, LockInvInit, LockInvNext, PTL DEF Spec

\* SCAN_LOCK is held exactly while a scan runs, in every behaviour.
THEOREM LockHeldByScanner == Spec => []LockFollowsScan
<1>1. TypeOK /\ LockInv /\ [Next]_vars => (TypeOK /\ LockInv)'
  BY NextTyped, LockInvNext
<1>2. Init => TypeOK /\ LockInv
  BY InitTyped, LockInvInit
<1>3. TypeOK /\ LockInv => LockFollowsScan
  BY DEF LockInv
<1>4. QED
  BY <1>1, <1>2, <1>3, PTL DEF Spec

\* Two scans never overlap: not two scheduled ones, not two forced ones, not
\* one of each.
THEOREM ScansExclude == Spec => []OneScanAtATime
<1>1. LockFollowsScan => OneScanAtATime
  BY DEF LockFollowsScan, OneScanAtATime
<1>2. QED
  BY <1>1, LockHeldByScanner, PTL

-------------------------------------------------------------------------------
(* Who is there *)

\* A scan that holds the write transaction works on a row that exists, and a
\* deleted customer left nothing behind.
ScannedIsThere == \A t \in Thread : pc[t] = "graph" => db[job[t]].present

GoneIsEmpty ==
    \A c \in Customer :
        ~db[c].present => db[c] = AbsentRow /\ snap[c] = Never /\ runs[c] = <<>>

PresenceInv == ScannedIsThere /\ GoneIsEmpty

LEMMA PresenceInvInit == Init => PresenceInv
<1> SUFFICES ASSUME Init PROVE PresenceInv
  OBVIOUS
<1>1. ScannedIsThere
  BY DEF Init, ScannedIsThere
<1>2. ASSUME NEW c \in Customer, ~db[c].present
      PROVE  db[c] = AbsentRow /\ snap[c] = Never /\ runs[c] = <<>>
  <2>1. PICK legacy \in [Customer -> LegacyStates] :
            /\ db = [k \in Customer |-> legacy[k].row]
            /\ snap = [k \in Customer |-> legacy[k].snap]
            /\ runs = [k \in Customer |-> Trimmed(legacy[k].runs)]
    BY DEF Init
  <2> DEFINE state == legacy[c]
  <2>2. state \in LegacyStates /\ db[c] = state.row /\ snap[c] = state.snap
        /\ runs[c] = Trimmed(state.runs)
    BY <2>1
  <2> HIDE DEF state
  <2>3. \A s \in Minutes : NewRow(TRUE, s).present
    BY DEF NewRow, AbsentRow
  <2>4. \A s \in Minutes, t \in LegacyChecks, status \in {"ok", "error"} :
            Legacy(s, t, status).present
    BY DEF Legacy, NewRow, AbsentRow
  <2>5. state \notin Unchecked
    <3> SUFFICES ASSUME state \in Unchecked PROVE FALSE
      OBVIOUS
    <3>1. PICK s \in Minutes : state = [row |-> NewRow(TRUE, s), snap |-> Never, runs |-> <<>>]
      BY DEF Unchecked
    <3>2. QED
      BY <1>2, <2>2, <2>3, <3>1
  <2>6. state \notin Succeeded
    BY <1>2, <2>2, <2>4, SMT DEF Succeeded
  <2>7. state \notin Failed
    BY <1>2, <2>2, <2>4, SMT DEF Failed
  <2>8. state = [row |-> AbsentRow, snap |-> Never, runs |-> <<>>]
    BY <2>2, <2>5, <2>6, <2>7 DEF LegacyStates, NoRow
  <2>9. <<>> \in Seq(RunRow) /\ Trimmed(<<>>) = <<>>
    <3>1. <<>> \in Seq(RunRow) /\ Len(<<>>) = 0
      BY EmptySeq
    <3>2. /\ Trimmed(<<>>) \in Seq(RunRow)
          /\ Len(Trimmed(<<>>)) \in Nat
          /\ Len(Trimmed(<<>>)) <= 0
      BY <3>1, TrimmedKeepsNewest
    <3>3. Len(Trimmed(<<>>)) = 0
      BY <3>2
    <3>4. QED
      BY <3>1, <3>2, <3>3, EmptySeq
  <2>10. QED
    BY <2>2, <2>8, <2>9
<1>3. QED
  BY <1>1, <1>2 DEF PresenceInv, GoneIsEmpty

\* The lifecycle cannot write while a scan holds the transaction, so a row never
\* disappears under a scan.
LEMMA PresenceInvNext ==
    TypeOK /\ LockInv /\ PresenceInv /\ [Next]_vars => PresenceInv'
<1> SUFFICES ASSUME TypeOK, LockInv, PresenceInv, [Next]_vars PROVE PresenceInv'
  OBVIOUS
<1>0. Scheduler \in Thread /\ Requester \subseteq Thread
  BY DEF Thread
<1>1. ASSUME UNCHANGED data,
             \A t \in Thread : pc'[t] = "graph" =>
                 (pc[t] = "graph" /\ job'[t] = job[t]) \/ db[job'[t]].present
      PROVE  PresenceInv'
  BY <1>1 DEF data, PresenceInv, ScannedIsThere, GoneIsEmpty
<1>2. ASSUME NEW t \in Thread, NEW next, next # "graph", Release(t, next),
             UNCHANGED data
      PROVE  PresenceInv'
  BY <1>1, <1>2 DEF Release, TypeOK
<1>3. CASE Clock
  BY <1>1, <1>3 DEF Clock, threads
<1>4. CASE Schedule
  <2>1. CASE WakeUp
    BY <1>1, <2>1 DEF WakeUp, TypeOK
  <2>2. ASSUME NEW entry \in due, TakeDue(entry) PROVE PresenceInv'
    <3>1. UNCHANGED data
      BY <2>2 DEF TakeDue
    <3>2. \A t \in Thread : pc'[t] = "graph" => pc[t] = "graph" /\ job'[t] = job[t]
      BY <1>0, <2>2 DEF TakeDue, BeginLoad, TypeOK
    <3>3. QED
      BY <1>1, <3>1, <3>2
  <2>3. CASE ListDone
    BY <1>1, <2>3 DEF ListDone, TypeOK
  <2>4. QED
    BY <1>4, <2>1, <2>2, <2>3 DEF Schedule
<1>5. ASSUME NEW t \in Thread, Scan(t) PROVE PresenceInv'
  <2>1. CASE BeginScan(t)
    BY <1>1, <2>1 DEF BeginScan, TypeOK
  <2>2. CASE FlushFails(t)
    BY <1>2, <2>2 DEF FlushFails, Drop
  <2>3. CASE CommitFails(t)
    BY <1>2, <2>3 DEF CommitFails, Drop, AfterScan
  <2>4. ASSUME NEW row, row.present, NEW taken, NEW status, Store(t, row, taken, status)
        PROVE  PresenceInv'
    <3>1. /\ pc' = [pc EXCEPT ![t] = AfterScan(t)]
          /\ job' = [job EXCEPT ![t] = Nobody]
          /\ pc[t] = "graph"
      BY <2>4 DEF Store, Release
    <3>2. \A u \in Thread : pc'[u] # "graph"
      BY <3>1 DEF LockInv, LockFollowsScan, Scanning, AfterScan, TypeOK
    <3>3. \A c \in Customer : c # job[t] =>
              db'[c] = db[c] /\ snap'[c] = snap[c] /\ runs'[c] = runs[c]
      BY <2>4 DEF Store, TypeOK
    <3>4. job[t] \in Customer => db'[job[t]] = row
      BY <2>4 DEF Store, TypeOK
    <3>5. QED
      BY <2>4, <3>2, <3>3, <3>4 DEF PresenceInv, ScannedIsThere, GoneIsEmpty
  <2>5. pc[t] = "graph" => db[job[t]] \in Row /\ db[job[t]].present
    BY <1>5 DEF PresenceInv, ScannedIsThere, LockInv, JobGiven, TypeOK
  <2>6. \A row \in Row, seen \in Statuses : row.present =>
            SuccessRow(row, seen, now).present /\ FailureRow(row, seen, now).present
    BY DEF SuccessRow, FailureRow, Row
  <2>7. CASE ScanSucceeds(t)
    <3>1. SuccessRow(db[job[t]], loaded[t], now).present
      BY <2>5, <2>6, <2>7 DEF ScanSucceeds, Store, TypeOK
    <3>2. QED
      BY <2>4, <2>7, <3>1 DEF ScanSucceeds
  <2>8. CASE ScanFails(t)
    <3>1. FailureRow(db[job[t]], loaded[t], now).present
      BY <2>5, <2>6, <2>8 DEF ScanFails, Store, TypeOK
    <3>2. QED
      BY <2>4, <2>8, <3>1 DEF ScanFails
  <2>9. QED
    BY <1>5, <2>1, <2>2, <2>3, <2>7, <2>8 DEF Scan
<1>6. ASSUME NEW m \in Requester, Answer(m) PROVE PresenceInv'
  <2>1. UNCHANGED data
    BY <1>6 DEF Answer, TakeForced, GiveUp
  <2>2. \A t \in Thread : pc'[t] = "graph" => pc[t] = "graph" /\ job'[t] = job[t]
    BY <1>0, <1>6 DEF Answer, TakeForced, BeginLoad, GiveUp, Release, TypeOK
  <2>3. QED
    BY <1>1, <2>1, <2>2
<1>7. ASSUME NEW m \in Requester, NEW c \in Customer, RequestCheck(m, c) PROVE PresenceInv'
  BY <1>0, <1>1, <1>7 DEF RequestCheck, Await, TypeOK
<1>8. ASSUME NEW c \in Customer, ~Writing, NEW row, db' = [db EXCEPT ![c] = row],
             \A k \in Customer \ {c} : snap'[k] = snap[k] /\ runs'[k] = runs[k],
             row.present \/ (row = AbsentRow /\ snap'[c] = Never /\ runs'[c] = <<>>),
             \A t \in Thread : pc'[t] = "graph" => pc[t] = "graph"
      PROVE  PresenceInv'
  <2>1. ScannedIsThere'
    BY <1>8 DEF Writing, ScannedIsThere
  <2>2. \A k \in Customer : db'[k] = IF k = c THEN row ELSE db[k]
    BY <1>8 DEF TypeOK
  <2>3. GoneIsEmpty'
    BY <1>8, <2>2 DEF PresenceInv, GoneIsEmpty
  <2>4. QED
    BY <2>1, <2>3 DEF PresenceInv
<1>9. ASSUME NEW c \in Customer, NEW active \in BOOLEAN, NEW slot \in Minutes,
             CreateViaApi(c, active, slot) \/ \E m \in Requester : CreateInUI(m, c, active, slot)
      PROVE  PresenceInv'
  <2>1. NewRow(active, slot).present
    BY DEF NewRow, AbsentRow
  <2>2. /\ db' = [db EXCEPT ![c] = NewRow(active, slot)]
        /\ ~Writing
        /\ UNCHANGED <<snap, runs>>
    BY <1>9 DEF CreateViaApi, CreateInUI, WriteRow
  <2>3. \A t \in Thread : pc'[t] = "graph" => pc[t] = "graph"
    BY <1>0, <1>9 DEF CreateViaApi, CreateInUI, Await, threads, TypeOK
  <2>4. QED
    BY <1>8, <2>1, <2>2, <2>3
<1>10. ASSUME NEW c \in Customer, SetActive(c) PROVE PresenceInv'
  <2> DEFINE row == [db[c] EXCEPT !.active = ~db[c].active]
  <2>1. row.present
    BY <1>10 DEF SetActive, TypeOK, Row
  <2>2. db' = [db EXCEPT ![c] = row] /\ ~Writing /\ UNCHANGED <<snap, runs, pc>>
    BY <1>10 DEF SetActive, WriteRow, threads
  <2> HIDE DEF row
  <2>3. QED
    BY <1>8, <2>1, <2>2
<1>11. ASSUME NEW c \in Customer, Delete(c) PROVE PresenceInv'
  <2>1. /\ db' = [db EXCEPT ![c] = AbsentRow] /\ ~Writing /\ UNCHANGED pc
        /\ snap' = [snap EXCEPT ![c] = Never] /\ runs' = [runs EXCEPT ![c] = <<>>]
    BY <1>11 DEF Delete, WriteRow
  <2>2. snap'[c] = Never /\ runs'[c] = <<>>
    BY <2>1 DEF TypeOK
  <2>3. \A k \in Customer \ {c} : snap'[k] = snap[k] /\ runs'[k] = runs[k]
    BY <2>1 DEF TypeOK
  <2>4. QED
    BY <1>8, <2>1, <2>2, <2>3
<1>12. ASSUME NEW slots \in [Customer -> Minutes], Redistribute(slots) PROVE PresenceInv'
  <2>1. /\ db' = [c \in Customer |->
                    IF db[c].present THEN [db[c] EXCEPT !.slot = slots[c]] ELSE db[c]]
        /\ ~Writing /\ UNCHANGED <<snap, runs, pc>>
    BY <1>12 DEF Redistribute, threads
  <2>2. \A k \in Customer : IF db[k].present THEN db'[k].present ELSE db'[k] = db[k]
    BY <2>1 DEF TypeOK, Row
  <2>3. ScannedIsThere'
    BY <2>1 DEF Writing, ScannedIsThere
  <2>4. GoneIsEmpty'
    BY <2>1, <2>2 DEF PresenceInv, GoneIsEmpty
  <2>5. QED
    BY <2>3, <2>4 DEF PresenceInv
<1>13. CASE Crash
  BY <1>1, <1>13 DEF Crash
<1>14. CASE Restart
  BY <1>1, <1>14 DEF Restart, TypeOK
<1>15. CASE UNCHANGED vars
  BY <1>1, <1>15 DEF vars, data
<1>16. QED
  BY <1>3, <1>4, <1>5, <1>6, <1>7, <1>9, <1>10, <1>11, <1>12, <1>13, <1>14, <1>15
     DEF Next, Lifecycle

-------------------------------------------------------------------------------
(* What a scan has loaded *)

\* A customer no check was stored for.
Untouched(c) ==
    /\ db[c].status = "pending" /\ db[c].lastCheck = Never /\ db[c].lastSuccess = Never
    /\ snap[c] = Never
    /\ c \notin mixed

\* A scan works on the row it loaded, or on one that nobody has checked since an
\* earlier customer of that id was deleted.
LoadInv ==
    /\ \A t \in Thread : Scanning(t) /\ t \notin orphans => db[job[t]].status = loaded[t]
    /\ \A t \in orphans : Scanning(t) /\ Untouched(job[t])
    /\ \A c \in mixed : db[c].present /\ db[c].status = "pending"

LEMMA LoadInvInit == Init => LoadInv
  BY DEF Init, LoadInv, Scanning

\* Nothing but a scan writes the status of a customer that stays, and there is one
\* scan at a time.
LEMMA LoadInvNext ==
    TypeOK /\ LockInv /\ PresenceInv /\ LoadInv /\ [Next]_vars => LoadInv'
<1> SUFFICES ASSUME TypeOK, LockInv, PresenceInv, LoadInv, [Next]_vars PROVE LoadInv'
  OBVIOUS
<1>0. /\ Scheduler \in Thread /\ Requester \subseteq Thread /\ Nobody \notin Thread
      /\ pc \in [Thread -> {"down", "sleep", "work", "idle", "waiting", "loaded", "graph"}]
      /\ job \in [Thread -> Customer \cup {Nobody}] /\ loaded \in [Thread -> Statuses]
      /\ db \in [Customer -> Row] /\ snap \in [Customer -> Moment]
      /\ orphans \subseteq Thread /\ mixed \subseteq Customer
      /\ \A t \in Thread : Scanning(t) => lock = t /\ job[t] \in Customer
  BY ThreadAssumption DEF TypeOK, Thread, LockInv, LockFollowsScan, JobGiven, Scanning
\* Steps that leave the rows and the scans alone.
<1>1. ASSUME UNCHANGED <<data, loaded, orphans>>,
             \A t \in Thread : Scanning(t)' <=> Scanning(t),
             \A t \in Thread : Scanning(t) => job'[t] = job[t]
      PROVE  LoadInv'
  BY <1>0, <1>1 DEF data, LoadInv, Untouched, Scanning
\* The end of a scan that stores nothing.
<1>2. ASSUME NEW t \in Thread, NEW next \in {"sleep", "work", "idle"}, Release(t, next),
             UNCHANGED data
      PROVE  LoadInv'
  BY <1>0, <1>2 DEF Release, data, LoadInv, Untouched, Scanning
<1>3. ASSUME NEW t \in Thread, NEW c \in Customer, BeginLoad(t, c), lock = Nobody, UNCHANGED data
      PROVE  LoadInv'
  <2>1. \A u \in Thread : ~Scanning(u)
    BY <1>0, <1>3 DEF LockInv, LockFollowsScan
  <2>2. orphans' = {} /\ \A u \in Thread : Scanning(u)' => u = t
    BY <1>0, <1>3, <2>1 DEF BeginLoad, LoadInv, Scanning
  <2>3. db'[job'[t]].status = loaded'[t]
    BY <1>0, <1>3 DEF BeginLoad, data
  <2>4. QED
    BY <1>3, <2>2, <2>3 DEF LoadInv, data
\* A write of the lifecycle to one row.
<1>4. ASSUME NEW c \in Customer, NEW row, db' = [db EXCEPT ![c] = row],
             UNCHANGED <<snap, mixed, loaded, orphans>>,
             \A t \in Thread : Scanning(t)' <=> Scanning(t),
             \A t \in Thread : Scanning(t) => job'[t] = job[t],
             row.present, row.status = db[c].status, row.lastCheck = db[c].lastCheck,
             row.lastSuccess = db[c].lastSuccess
      PROVE  LoadInv'
  <2>1. \A k \in Customer : /\ db'[k].status = db[k].status
                            /\ db'[k].lastCheck = db[k].lastCheck
                            /\ db'[k].lastSuccess = db[k].lastSuccess
                            /\ db[k].present => db'[k].present
    BY <1>0, <1>4
  <2>2. QED
    BY <1>0, <1>4, <2>1 DEF LoadInv, Untouched, Scanning
<1>5. CASE Clock
  BY <1>1, <1>5 DEF Clock, threads, Scanning
<1>6. CASE Schedule
  <2>1. CASE WakeUp \/ ListDone
    BY <1>0, <1>1, <2>1 DEF WakeUp, ListDone, Scanning
  <2>2. ASSUME NEW entry \in due, TakeDue(entry) PROVE LoadInv'
    <3>1. entry[2] \in Customer
      BY DEF TypeOK
    <3>2. CASE BeginLoad(Scheduler, entry[2])
      BY <1>0, <1>3, <2>2, <3>1, <3>2 DEF TakeDue
    <3>3. CASE UNCHANGED <<lock, pc, job, loaded, orphans>>
      BY <1>1, <2>2, <3>3 DEF TakeDue, Scanning
    <3>4. QED
      BY <2>2, <3>2, <3>3 DEF TakeDue
  <2>3. QED
    BY <1>6, <2>1, <2>2 DEF Schedule
<1>7. ASSUME NEW t \in Thread, Scan(t) PROVE LoadInv'
  <2>1. CASE BeginScan(t)
    BY <1>0, <1>1, <2>1 DEF BeginScan, Scanning
  <2>2. CASE FlushFails(t) \/ CommitFails(t)
    BY <1>2, <2>2 DEF FlushFails, CommitFails, Drop, AfterScan
  <2>3. ASSUME NEW row, NEW taken, NEW status \in {"ok", "error"}, Store(t, row, taken, status),
               row.status = Column(db[job[t]].status, loaded[t], status),
               row.present = db[job[t]].present
        PROVE  LoadInv'
    <3> DEFINE c == job[t]
    <3>1. Scanning(t) /\ c \in Customer
      BY <1>0, <2>3 DEF Store, Scanning
    <3>2. orphans' = {} /\ \A u \in Thread : ~Scanning(u)'
      <4>1. \A u \in Thread : Scanning(u) => u = t
        BY <1>0, <3>1
      <4>2. QED
        BY <1>0, <2>3, <4>1 DEF Store, Release, AfterScan, LoadInv, Scanning
    <3>3. db'[c] = row /\ \A k \in Customer \ {c} : db'[k] = db[k]
      BY <1>0, <2>3, <3>1 DEF Store
    <3>4. \A k \in mixed' : k = c \/ k \in mixed
      BY <2>3 DEF Store
    <3>8. row.present
      BY <2>3 DEF Store, PresenceInv, ScannedIsThere
    <3>5. c \in mixed' => row.status = "pending"
      <4>1. SUFFICES ASSUME c \in mixed' PROVE row.status = "pending"
        OBVIOUS
      <4>2. t \in orphans /\ loaded[t] = status
        BY <2>3, <4>1 DEF Store
      <4>3. QED
        BY <2>3, <4>2 DEF LoadInv, Untouched, Column
    <3>6. mixed' \subseteq Customer
      BY <1>0, <3>1, <3>4
    <3> HIDE DEF c
    <3>7. QED
      BY <3>2, <3>3, <3>4, <3>5, <3>6, <3>8 DEF LoadInv
  <2>4. CASE ScanSucceeds(t)
    <3>1. LET row == SuccessRow(db[job[t]], loaded[t], now)
          IN  /\ row.status = Column(db[job[t]].status, loaded[t], "ok")
              /\ row.present = db[job[t]].present
      BY <1>0, <2>4 DEF ScanSucceeds, Store, SuccessRow, Row, Scanning
    <3>2. QED
      BY <2>3, <2>4, <3>1 DEF ScanSucceeds
  <2>5. CASE ScanFails(t)
    <3>1. LET row == FailureRow(db[job[t]], loaded[t], now)
          IN  /\ row.status = Column(db[job[t]].status, loaded[t], "error")
              /\ row.present = db[job[t]].present
      BY <1>0, <2>5 DEF ScanFails, Store, FailureRow, Row, Scanning
    <3>2. QED
      BY <2>3, <2>5, <3>1 DEF ScanFails
  <2>6. QED
    BY <1>7, <2>1, <2>2, <2>4, <2>5 DEF Scan
<1>8. ASSUME NEW m \in Requester, Answer(m) PROVE LoadInv'
  <2>1. CASE TakeForced(m)
    <3>1. m \in Thread /\ job[m] \in Customer
      BY <1>0, <2>1 DEF TakeForced, LockInv, JobGiven
    <3>2. QED
      BY <1>2, <1>3, <2>1, <3>1 DEF TakeForced
  <2>2. CASE GiveUp(m)
    BY <1>0, <1>1, <2>2 DEF GiveUp, Scanning
  <2>3. QED
    BY <1>8, <2>1, <2>2 DEF Answer
<1>9. ASSUME NEW m \in Requester, NEW c \in Customer, RequestCheck(m, c) PROVE LoadInv'
  BY <1>0, <1>1, <1>9 DEF RequestCheck, Await, Scanning
<1>10. ASSUME NEW c \in Customer, NEW active \in BOOLEAN, NEW slot \in Minutes,
             CreateViaApi(c, active, slot) \/ \E m \in Requester : CreateInUI(m, c, active, slot)
      PROVE  LoadInv'
  <2>1. /\ db[c] = AbsentRow /\ db' = [db EXCEPT ![c] = NewRow(active, slot)]
        /\ UNCHANGED <<snap, mixed, loaded, orphans>>
    BY <1>10 DEF CreateViaApi, CreateInUI, WriteRow, threads, PresenceInv, GoneIsEmpty
  <2>2. \A t \in Thread : (Scanning(t)' <=> Scanning(t)) /\ (Scanning(t) => job'[t] = job[t])
    BY <1>0, <1>10 DEF CreateViaApi, CreateInUI, Await, threads, Scanning
  <2>3. LET row == NewRow(active, slot)
        IN  /\ row.present /\ row.status = AbsentRow.status /\ row.lastCheck = AbsentRow.lastCheck
            /\ row.lastSuccess = AbsentRow.lastSuccess
    BY DEF NewRow, AbsentRow
  <2>4. QED
    BY <1>4, <2>1, <2>2, <2>3
<1>11. ASSUME NEW c \in Customer, SetActive(c) PROVE LoadInv'
  <2>1. db' = [db EXCEPT ![c] = [db[c] EXCEPT !.active = ~db[c].active]]
    BY <1>11 DEF SetActive, WriteRow
  <2>2. LET row == [db[c] EXCEPT !.active = ~db[c].active]
        IN  /\ row.present /\ row.status = db[c].status /\ row.lastCheck = db[c].lastCheck
            /\ row.lastSuccess = db[c].lastSuccess
    BY <1>0, <1>11 DEF Row, SetActive
  <2>3. QED
    BY <1>4, <1>11, <2>1, <2>2 DEF SetActive, threads, Scanning
<1>12. ASSUME NEW c \in Customer, Delete(c) PROVE LoadInv'
  <2>1. /\ ~Writing /\ db' = [db EXCEPT ![c] = AbsentRow] /\ snap' = [snap EXCEPT ![c] = Never]
        /\ orphans' = orphans \cup {t \in Thread : pc[t] = "loaded" /\ job[t] = c}
        /\ mixed' = mixed \ {c} /\ UNCHANGED <<pc, job, loaded>>
    BY <1>12 DEF Delete, WriteRow, Orphan
  <2>2. Untouched(c)'
    BY <1>0, <2>1 DEF Untouched, AbsentRow
  <2>3. \A k \in Customer \ {c} : db'[k] = db[k] /\ snap'[k] = snap[k]
    BY <1>0, <2>1
  <2>4. ASSUME NEW t \in Thread, Scanning(t)', t \notin orphans' PROVE (db[job[t]].status = loaded[t])'
    <3>1. Scanning(t) /\ pc[t] = "loaded" /\ t \notin orphans /\ job[t] \in Customer \ {c}
      BY <1>0, <2>1, <2>4 DEF Scanning, Writing
    <3>2. QED
      BY <2>1, <2>3, <3>1 DEF LoadInv
  <2>5. ASSUME NEW t \in orphans' PROVE (Scanning(t) /\ Untouched(job[t]))'
    <3>1. Scanning(t)' /\ job'[t] = job[t] /\ job[t] \in Customer /\ t \in Thread
      BY <1>0, <2>1, <2>5 DEF LoadInv, Scanning
    <3>2. CASE job[t] = c
      BY <2>2, <3>1, <3>2 DEF Untouched
    <3>3. CASE job[t] # c
      BY <2>1, <2>3, <2>5, <3>1, <3>3 DEF LoadInv, Untouched
    <3>4. QED
      BY <3>1, <3>2, <3>3
  <2>6. \A k \in mixed' : db'[k].present /\ db'[k].status = "pending"
    BY <1>0, <2>1, <2>3 DEF LoadInv
  <2>7. QED
    BY <2>4, <2>5, <2>6 DEF LoadInv
<1>13. ASSUME NEW slots \in [Customer -> Minutes], Redistribute(slots) PROVE LoadInv'
  <2>1. \A k \in Customer : /\ db'[k].status = db[k].status
                            /\ db'[k].lastCheck = db[k].lastCheck
                            /\ db'[k].lastSuccess = db[k].lastSuccess
                            /\ db'[k].present = db[k].present
    BY <1>0, <1>13 DEF Redistribute, Row
  <2>2. UNCHANGED <<snap, mixed, pc, job, loaded, orphans>>
    BY <1>13 DEF Redistribute, threads
  <2>3. QED
    BY <1>0, <2>1, <2>2 DEF LoadInv, Untouched, Scanning
<1>14. CASE Crash
  BY <1>14 DEF Crash, data, LoadInv, Scanning
<1>15. CASE Restart
  BY <1>0, <1>1, <1>15 DEF Restart, Up, Scanning
<1>16. CASE UNCHANGED vars
  BY <1>1, <1>16 DEF vars, data, Scanning
<1>17. QED
  BY <1>5, <1>6, <1>7, <1>8, <1>9, <1>10, <1>11, <1>12, <1>13, <1>14, <1>15, <1>16
     DEF Next, Lifecycle

-------------------------------------------------------------------------------
(* The stored result of a customer *)

\* The row agrees with the snapshot and with the history, and none of the
\* three is ahead of the clock.  What a mixed row leaves open is at most the age
\* of data it does not have, and the outcome of its last run.
AgeInv(c) ==
    /\ AgeBasis(db[c]) # Never =>
          \/ snap[c] = AgeBasis(db[c])
          \/ c \in mixed /\ snap[c] = Never /\ db[c].lastSuccess = Never
    /\ snap[c] <= now
    /\ db[c].lastCheck <= now

HistoryInv(c) ==
    /\ Len(runs[c]) <= HistoryRuns
    /\ Len(runs[c]) > 0 => /\ runs[c][Len(runs[c])].finished = db[c].lastCheck
                           /\ \/ runs[c][Len(runs[c])].status = db[c].status
                              \/ c \in mixed /\ db[c].status = "pending"
    /\ \A i \in 1..Len(runs[c]) : runs[c][i].finished <= db[c].lastCheck

DataInv == \A c \in Customer : AgeInv(c) /\ HistoryInv(c)

LEMMA DataInvInit == Init => DataInv
<1> SUFFICES ASSUME Init, NEW c \in Customer PROVE AgeInv(c) /\ HistoryInv(c)
  BY DEF DataInv
<1>1. PICK legacy \in [Customer -> LegacyStates] :
          /\ db = [k \in Customer |-> legacy[k].row]
          /\ snap = [k \in Customer |-> legacy[k].snap]
          /\ runs = [k \in Customer |-> Trimmed(legacy[k].runs)]
  BY DEF Init
<1> DEFINE state == legacy[c]
<1>2. state \in LegacyStates /\ db[c] = state.row /\ snap[c] = state.snap
      /\ runs[c] = Trimmed(state.runs)
  BY <1>1
<1>3. now = MinutesPerDay /\ MinutesPerDay \in Nat
  BY TimeAssumption DEF Init
<1>4. LegacyChecks \subseteq 0..MinutesPerDay /\ HistoryRuns \in Nat
  BY TimeAssumption, HistoryAssumption
<1> HIDE DEF state
<1>5. ASSUME state.snap \in Moment, state.snap <= now, state.row.lastCheck <= now,
             AgeBasis(state.row) # Never => state.snap = AgeBasis(state.row),
             state.runs \in Seq(RunRow),
             \A i \in 1..Len(state.runs) : /\ state.runs[i].finished = state.row.lastCheck
                                          /\ state.runs[i].status = state.row.status
      PROVE  AgeInv(c) /\ HistoryInv(c)
  <2>1. AgeInv(c)
    BY <1>2, <1>5 DEF AgeInv
  <2>2. /\ runs[c] \in Seq(RunRow) /\ Len(runs[c]) \in Nat
        /\ Len(runs[c]) <= HistoryRuns /\ Len(runs[c]) <= Len(state.runs)
        /\ \A i \in 1..Len(runs[c]) : runs[c][i] = state.runs[i + Len(state.runs) - Len(runs[c])]
    BY <1>2, <1>5, TrimmedKeepsNewest
  <2>3. Len(state.runs) \in Nat
    BY <1>5, LenProperties
  <2>4. ASSUME NEW i \in 1..Len(runs[c])
        PROVE  /\ runs[c][i].finished = db[c].lastCheck
               /\ runs[c][i].status = db[c].status
    <3>1. i + Len(state.runs) - Len(runs[c]) \in 1..Len(state.runs)
      <4> DEFINE n == Len(runs[c])
                 m == Len(state.runs)
      <4>1. n \in Nat /\ m \in Nat /\ n <= m /\ i \in 1..n
        BY <2>2, <2>3
      <4> HIDE DEF n, m
      <4>2. i + m - n \in 1..m
        BY <4>1
      <4>3. QED
        BY <4>2 DEF n, m
    <3>2. QED
      BY <1>2, <1>5, <2>2, <3>1
  <2>5. ASSUME NEW i \in 1..Len(runs[c]) PROVE runs[c][i].finished \in Nat
    <3>1. runs[c][i] \in RunRow
      BY <2>2, ElementOfSeq
    <3>2. QED
      BY <3>1 DEF RunRow
  <2>6. HistoryInv(c)
    BY <2>2, <2>4, <2>5 DEF HistoryInv
  <2>7. QED
    BY <2>1, <2>6
<1>6. AgeBasis(AbsentRow) = Never /\ AbsentRow.lastCheck = Never
  BY DEF AgeBasis, AbsentRow
<1>7. \A s \in Minutes :
        LET row == NewRow(TRUE, s)
        IN  AgeBasis(row) = Never /\ row.lastCheck = Never
  BY DEF AgeBasis, AbsentRow, NewRow
<1>8. \A s \in Minutes, t \in LegacyChecks, status \in {"ok", "error"} :
        LET row == Legacy(s, t, status)
        IN  /\ AgeBasis(row) = IF status = "ok" THEN t ELSE Never
            /\ row.lastCheck = t
            /\ row.status = status
            /\ LegacyRun(t, status) \in Seq(RunRow)
            /\ Len(LegacyRun(t, status)) = 1
            /\ LegacyRun(t, status)[1].finished = t
            /\ LegacyRun(t, status)[1].status = status
  BY <1>3, <1>4 DEF AgeBasis, AbsentRow, NewRow, Legacy, LegacyRun, RunRow, Triggers
<1>9. CASE state \in NoRow \cup Unchecked
  <2>1. AgeBasis(state.row) = Never /\ state.row.lastCheck = Never /\ state.snap = Never
        /\ state.runs = <<>>
    <3>1. CASE state \in NoRow
      BY <1>6, <3>1 DEF NoRow
    <3>2. CASE state \in Unchecked
      <4>1. PICK s \in Minutes : state = [row |-> NewRow(TRUE, s), snap |-> Never, runs |-> <<>>]
        BY <3>2 DEF Unchecked
      <4>2. QED
        BY <1>7, <4>1
    <3>3. QED
      BY <1>9, <3>1, <3>2
  <2>2. QED
    BY <1>3, <1>5, <2>1, EmptySeq DEF Never, Moment
<1>10. CASE state \in Succeeded
  BY <1>3, <1>4, <1>5, <1>8, <1>10 DEF Succeeded, Moment
<1>11. CASE state \in Failed
  BY <1>3, <1>4, <1>5, <1>8, <1>11 DEF Failed, Moment, Never
<1>12. QED
  BY <1>2, <1>9, <1>10, <1>11 DEF LegacyStates

\* Storing a scan keeps the invariant: the new run is the newest one, no run is
\* later than it, and trimming keeps it (unless no history is kept at all).
LEMMA StoreKeepsData ==
    ASSUME TypeOK, TypeOK', DataInv,
           NEW t \in Thread, NEW c \in Customer, job[t] = c,
           NEW row \in Row, NEW taken \in Moment, NEW status \in {"ok", "error"},
           row.lastCheck = now, taken <= now,
           row.status = status \/ (c \in mixed' /\ row.status = "pending"),
           AgeBasis(row) # Never =>
               \/ taken = AgeBasis(row)
               \/ c \in mixed' /\ taken = Never /\ row.lastSuccess = Never,
           Store(t, row, taken, status)
    PROVE  DataInv'
<1> DEFINE run == [finished |-> now, status |-> status,
                   trigger |-> IF t = Scheduler THEN "schedule" ELSE "manual"]
           longer == Append(runs[c], run)
           n == Len(longer)
           kept == Trimmed(longer)
           k == Len(kept)
<1>1. run \in RunRow /\ run.finished = now /\ run.status = status
  BY DEF RunRow, Triggers, TypeOK
<1> HIDE DEF run
<1>2. /\ longer \in Seq(RunRow)
      /\ n = Len(runs[c]) + 1
      /\ \A i \in 1..Len(runs[c]) : longer[i] = runs[c][i]
      /\ longer[Len(runs[c]) + 1] = run
  BY <1>1, AppendProperties DEF TypeOK
<1>3. Len(runs[c]) \in Nat
  BY LenProperties DEF TypeOK
<1>4. /\ db' = [db EXCEPT ![c] = row]
      /\ snap' = [snap EXCEPT ![c] = taken]
      /\ runs' = [runs EXCEPT ![c] = Trimmed(longer)]
      /\ now' = now
  BY DEF Store, run
<1> HIDE DEF longer
<1>5. db'[c] = row /\ snap'[c] = taken /\ runs'[c] = kept
  BY <1>4 DEF TypeOK
<1>6. /\ k \in Nat /\ k <= HistoryRuns /\ k <= n
      /\ \A i \in 1..k : kept[i] = longer[i + n - k]
  BY <1>2, TrimmedKeepsNewest
<1> HIDE DEF kept
<1>7. AgeInv(c)'
  <2>1. (AgeBasis(db[c]))' = AgeBasis(row)
    BY <1>5 DEF AgeBasis
  <2>2. now \in Nat
    BY DEF TypeOK
  <2>3. QED
    BY <1>4, <1>5, <2>1, <2>2 DEF AgeInv
<1>8. \A i \in 1..n : longer[i].finished <= now
  <2> TAKE i \in 1..n
  <2>1. CASE i = n
    BY <1>1, <1>2, <2>1 DEF TypeOK
  <2>2. CASE i # n
    <3>1. i \in 1..Len(runs[c])
      BY <1>2, <1>3, <2>2
    <3>2. runs[c][i].finished <= db[c].lastCheck /\ db[c].lastCheck <= now
      BY <3>1 DEF DataInv, HistoryInv, AgeInv
    <3>3. runs[c][i] \in RunRow
      BY <3>1, ElementOfSeq DEF TypeOK
    <3>4. runs[c][i].finished \in Nat /\ db[c].lastCheck \in Int /\ now \in Nat
      <4>1. db[c] \in Row /\ now \in Nat
        BY DEF TypeOK
      <4>2. db[c].lastCheck \in Int
        BY <4>1 DEF Row, Moment, Never
      <4>3. runs[c][i].finished \in Nat
        BY <3>3 DEF RunRow
      <4>4. QED
        BY <4>1, <4>2, <4>3
    <3>5. longer[i] = runs[c][i]
      BY <1>2, <3>1
    <3>6. QED
      BY <3>2, <3>4, <3>5
  <2>3. QED
    BY <2>1, <2>2
<1>9. k > 0 => kept[k] = run
  <2> HAVE k > 0
  <2>1. n \in Nat /\ n = Len(runs[c]) + 1
    BY <1>2, <1>3
  <2> HIDE DEF k, n
  <2>2. k \in 1..k /\ k + n - k = n
    BY <1>6, <2>1
  <2>3. kept[k] = longer[n]
    BY <1>6, <2>2
  <2>4. QED
    BY <1>2, <2>1, <2>3
<1>10. \A i \in 1..k : kept[i].finished <= now
  <2> TAKE i \in 1..k
  <2>1. n \in Nat
    BY <1>2, <1>3
  <2> HIDE DEF k, n
  <2>2. i + n - k \in 1..n
    BY <1>6, <2>1
  <2>3. QED
    BY <1>6, <1>8, <2>2
<1>11. HistoryInv(c)'
  <2>1. /\ db'[c].lastCheck = now
        /\ db'[c].status = status \/ (c \in mixed' /\ db'[c].status = "pending")
    BY <1>5
  <2>2. Len(runs'[c]) = k
    BY <1>5
  <2> HIDE DEF k
  <2>3. QED
    BY <1>1, <1>5, <1>6, <1>9, <1>10, <2>1, <2>2 DEF HistoryInv
<1>12. ASSUME NEW other \in Customer, other # c PROVE (AgeInv(other) /\ HistoryInv(other))'
  <2>1. /\ db'[other] = db[other] /\ snap'[other] = snap[other] /\ runs'[other] = runs[other]
        /\ other \in mixed' <=> other \in mixed
    BY <1>4, <1>12 DEF TypeOK, Store
  <2>2. QED
    BY <1>4, <2>1 DEF DataInv, AgeInv, HistoryInv, AgeBasis
<1>13. QED
  BY <1>7, <1>11, <1>12 DEF DataInv

\* No other step disturbs it: what it does to a row leaves its result alone or
\* starts it from nothing.
LEMMA DataInvNext ==
    TypeOK /\ TypeOK' /\ LockInv /\ PresenceInv /\ LoadInv /\ DataInv /\ [Next]_vars => DataInv'
<1> SUFFICES ASSUME TypeOK, TypeOK', LockInv, PresenceInv, LoadInv, DataInv, [Next]_vars
             PROVE  DataInv'
  OBVIOUS
<1>0. ASSUME NEW c \in Customer, NEW row, db' = [db EXCEPT ![c] = row],
             AgeBasis(row) = Never, row.lastCheck = Never,
             snap'[c] = Never, runs'[c] = <<>>, now' = now,
             \A k \in Customer \ {c} :
                 snap'[k] = snap[k] /\ runs'[k] = runs[k] /\ (k \in mixed' <=> k \in mixed)
      PROVE  DataInv'
  <2>1. db'[c] = row /\ \A k \in Customer \ {c} : db'[k] = db[k]
    BY <1>0 DEF TypeOK
  <2>2. now \in Nat /\ Never <= now /\ HistoryRuns \in Nat /\ Len(<<>>) = 0
    BY HistoryAssumption, EmptySeq DEF TypeOK, Never
  <2>3. (AgeBasis(db[c]))' = Never
    BY <1>0, <2>1 DEF AgeBasis
  <2>4. AgeInv(c)'
    BY <1>0, <2>1, <2>2, <2>3 DEF AgeInv
  <2>5. HistoryInv(c)'
    BY <1>0, <2>1, <2>2 DEF HistoryInv
  <2>6. ASSUME NEW k \in Customer \ {c} PROVE (AgeInv(k) /\ HistoryInv(k))'
    BY <1>0, <2>1 DEF DataInv, AgeInv, HistoryInv, AgeBasis
  <2>7. QED
    BY <2>4, <2>5, <2>6 DEF DataInv
<1>1. ASSUME UNCHANGED <<now, data>> PROVE DataInv'
  BY <1>1 DEF data, DataInv, AgeInv, HistoryInv
<1>2. CASE Clock
  <2>1. UNCHANGED data /\ now' = now + 1
    BY <1>2 DEF Clock
  <2>2. \A c \in Customer : db[c].lastCheck \in Int /\ snap[c] \in Int /\ now \in Nat
    BY DEF TypeOK, Row, Moment, Never
  <2>3. QED
    BY <2>1, <2>2 DEF data, DataInv, AgeInv, HistoryInv
<1>3. CASE Schedule
  BY <1>1, <1>3 DEF Schedule, WakeUp, TakeDue, ListDone
<1>4. ASSUME NEW t \in Thread, Scan(t) PROVE DataInv'
  <2>1. CASE BeginScan(t) \/ FlushFails(t) \/ CommitFails(t)
    BY <1>1, <2>1 DEF BeginScan, FlushFails, CommitFails
  <2>2. CASE ScanSucceeds(t)
    <3>1. job[t] \in Customer
      BY <2>2 DEF ScanSucceeds, Store, LockInv, JobGiven
    <3> DEFINE old == db[job[t]]
               row == SuccessRow(old, loaded[t], now)
    <3>2. old \in Row /\ now \in Nat /\ loaded[t] \in Statuses
      BY <1>4, <3>1 DEF TypeOK
    <3>3. row \in Row
      BY <3>2, RowsAreRows
    <3>4. /\ row.lastCheck = now /\ row.lastSuccess = now
          /\ row.status = Column(old.status, loaded[t], "ok")
      BY <3>2 DEF SuccessRow, Row
    <3>5. Store(t, row, now, "ok")
      BY <2>2 DEF ScanSucceeds
    <3>8. row.status = "ok" \/ (job[t] \in mixed' /\ row.status = "pending")
      BY <1>4, <3>4, <3>5 DEF Column, Store, LoadInv, Untouched, Scanning
    <3> HIDE DEF row, old
    <3>6. AgeBasis(row) = now /\ now \in Moment /\ now <= now
      BY <3>2, <3>4 DEF AgeBasis, Never, Moment
    <3>7. QED
      BY <1>4, <3>1, <3>3, <3>4, <3>5, <3>6, <3>8, StoreKeepsData
  <2>3. CASE ScanFails(t)
    <3>1. job[t] \in Customer
      BY <2>3 DEF ScanFails, Store, LockInv, JobGiven
    <3> DEFINE old == db[job[t]]
               row == FailureRow(old, loaded[t], now)
               taken == snap[job[t]]
    <3>2. old \in Row /\ now \in Nat /\ taken \in Moment /\ loaded[t] \in Statuses
      BY <1>4, <3>1 DEF TypeOK
    <3>3. row \in Row
      BY <3>2, RowsAreRows
    <3>4. /\ row.lastCheck = now /\ row.lastSuccess = old.lastSuccess
          /\ row.status = Column(old.status, loaded[t], "error")
      BY <3>2 DEF FailureRow, Row
    <3>5. /\ taken <= now
          /\ old.lastSuccess # Never => taken = old.lastSuccess
      BY <3>1 DEF DataInv, AgeInv, AgeBasis
    <3>6. Store(t, row, taken, "error")
      BY <2>3 DEF ScanFails
    <3>9. \/ row.status = "error"
          \/ /\ job[t] \in mixed' /\ row.status = "pending"
             /\ taken = Never /\ old.lastSuccess = Never
      BY <1>4, <3>4, <3>6 DEF Column, Store, LoadInv, Untouched, Scanning
    <3> HIDE DEF old, row, taken
    <3>7. AgeBasis(row) # Never =>
              \/ taken = AgeBasis(row)
              \/ job[t] \in mixed' /\ taken = Never /\ row.lastSuccess = Never
      BY <3>4, <3>5, <3>9 DEF AgeBasis
    <3>8. QED
      BY <1>4, <3>1, <3>2, <3>3, <3>4, <3>5, <3>6, <3>7, <3>9, StoreKeepsData
  <2>4. QED
    BY <1>4, <2>1, <2>2, <2>3 DEF Scan
<1>5. ASSUME NEW m \in Requester, Answer(m) PROVE DataInv'
  BY <1>1, <1>5 DEF Answer, TakeForced, GiveUp
<1>6. ASSUME NEW m \in Requester, NEW c \in Customer, RequestCheck(m, c) PROVE DataInv'
  BY <1>1, <1>6 DEF RequestCheck
<1>7. ASSUME NEW c \in Customer, NEW active \in BOOLEAN, NEW slot \in Minutes,
             CreateViaApi(c, active, slot) \/ \E m \in Requester : CreateInUI(m, c, active, slot)
      PROVE  DataInv'
  <2>1. /\ db' = [db EXCEPT ![c] = NewRow(active, slot)]
        /\ ~db[c].present
        /\ UNCHANGED <<now, snap, runs, mixed>>
    BY <1>7 DEF CreateViaApi, CreateInUI, WriteRow
  <2>2. AgeBasis(NewRow(active, slot)) = Never /\ NewRow(active, slot).lastCheck = Never
    BY DEF AgeBasis, NewRow, AbsentRow
  <2>3. snap[c] = Never /\ runs[c] = <<>>
    BY <2>1 DEF PresenceInv, GoneIsEmpty
  <2>4. QED
    BY <1>0, <2>1, <2>2, <2>3
<1>8. ASSUME NEW c \in Customer, SetActive(c) PROVE DataInv'
  <2>1. /\ db' = [db EXCEPT ![c] = [db[c] EXCEPT !.active = ~db[c].active]]
        /\ UNCHANGED <<now, snap, runs, mixed>>
    BY <1>8 DEF SetActive, WriteRow
  <2>2. \A k \in Customer : /\ db'[k].lastCheck = db[k].lastCheck
                            /\ db'[k].lastSuccess = db[k].lastSuccess
                            /\ db'[k].status = db[k].status
    BY <2>1 DEF TypeOK, Row
  <2>3. QED
    BY <2>1, <2>2 DEF DataInv, AgeInv, HistoryInv, AgeBasis
<1>9. ASSUME NEW c \in Customer, Delete(c) PROVE DataInv'
  <2>1. /\ db' = [db EXCEPT ![c] = AbsentRow]
        /\ snap' = [snap EXCEPT ![c] = Never]
        /\ runs' = [runs EXCEPT ![c] = <<>>]
        /\ now' = now /\ mixed' = mixed \ {c}
    BY <1>9 DEF Delete, WriteRow, Orphan
  <2>2. AgeBasis(AbsentRow) = Never /\ AbsentRow.lastCheck = Never
    BY DEF AgeBasis, AbsentRow
  <2>3. QED
    BY <1>0, <2>1, <2>2 DEF TypeOK
<1>10. ASSUME NEW slots \in [Customer -> Minutes], Redistribute(slots) PROVE DataInv'
  <2>1. /\ db' = [c \in Customer |->
                    IF db[c].present THEN [db[c] EXCEPT !.slot = slots[c]] ELSE db[c]]
        /\ UNCHANGED <<now, snap, runs, mixed>>
    BY <1>10 DEF Redistribute
  <2>2. \A k \in Customer : /\ db'[k].lastCheck = db[k].lastCheck
                            /\ db'[k].lastSuccess = db[k].lastSuccess
                            /\ db'[k].status = db[k].status
    BY <2>1 DEF TypeOK, Row
  <2>3. QED
    BY <2>1, <2>2 DEF DataInv, AgeInv, HistoryInv, AgeBasis
<1>11. CASE Crash
  BY <1>1, <1>11 DEF Crash
<1>12. CASE Restart
  BY <1>1, <1>12 DEF Restart
<1>13. CASE UNCHANGED vars
  BY <1>1, <1>13 DEF vars, data
<1>14. QED
  BY <1>2, <1>3, <1>4, <1>5, <1>6, <1>7, <1>8, <1>9, <1>10, <1>11, <1>12, <1>13
     DEF Next, Lifecycle

-------------------------------------------------------------------------------
(* The properties of the stored results *)

IInv == TypeOK /\ LockInv /\ PresenceInv /\ LoadInv /\ DataInv

LEMMA InductiveInvariant == Spec => []IInv
<1>1. Init => IInv
  BY InitTyped, LockInvInit, PresenceInvInit, LoadInvInit, DataInvInit DEF IInv
<1>2. IInv /\ [Next]_vars => IInv'
  BY NextTyped, LockInvNext, PresenceInvNext, LoadInvNext, DataInvNext DEF IInv
<1>3. QED
  BY <1>1, <1>2, PTL DEF Spec

\* The age told with stored data is the age of these data or unknown, through
\* failures, crashes, deletes and rows of an earlier version; where a scan outlived
\* its customer an age may be told of data that do not exist, never of others.
THEOREM AgeIsTrue == Spec => []AgeOfData
<1>1. IInv => AgeOfData
  BY DEF IInv, DataInv, AgeInv, AgeOfData
<1>2. QED
  BY <1>1, InductiveInvariant, PTL

\* The row shows the newest run of a history that is never longer than
\* configured; only where a scan outlived its customer it does not tell the outcome.
THEOREM HistoryIsCurrent == Spec => []HistoryMatchesRow
<1>1. IInv => HistoryMatchesRow
  BY DEF IInv, DataInv, HistoryInv, HistoryMatchesRow
<1>2. QED
  BY <1>1, InductiveInvariant, PTL

\* A slot of today is a point of time.
LEMMA SlotTodayIsTime ==
    ASSUME NEW t \in Nat, NEW slot \in Minutes PROVE SlotToday(slot, t) \in Int
  BY TimeAssumption DEF SlotToday, Minutes

\* No scheduled scan of a customer starts after a check of the same day that
\* came after the slot.  Loading again under the lock is what this needs.
THEOREM ChecksNotRepeated == Spec => NoSecondCheckAfterSlot
<1> DEFINE NotRepeated ==
             \A c \in Customer : StartsScheduled(c) =>
                 \A i \in 1..Len(runs[c]) :
                     runs[c][i].finished < SlotToday(db[c].slot, now)
<1>1. ASSUME IInv, Next, NEW c \in Customer, StartsScheduled(c),
             NEW i \in 1..Len(runs[c])
      PROVE  runs[c][i].finished < SlotToday(db[c].slot, now)
  <2>0. Scheduler \in Thread /\ Requester \subseteq Thread /\ Scheduler \notin Requester
    BY ThreadAssumption DEF Thread
  <2>1. pc[Scheduler] # "loaded" /\ pc'[Scheduler] = "loaded" /\ job'[Scheduler] = c
    BY <1>1 DEF StartsScheduled
  <2>2. PICK entry \in due : TakeDue(entry)
    <3> USE DEF IInv, TypeOK
    <3>1. ~Clock /\ ~Crash /\ ~Restart
      BY <2>0, <2>1, <1>1 DEF Clock, threads, Crash, Restart
    <3>2. ~WakeUp /\ ~ListDone
      BY <2>0, <2>1, <1>1 DEF WakeUp, ListDone
    <3>3. ASSUME NEW t \in Thread, Scan(t) PROVE FALSE
      BY <2>0, <2>1, <1>1, <3>3
         DEF Scan, BeginScan, FlushFails, ScanSucceeds, ScanFails, CommitFails,
             Store, Drop, Release, AfterScan
    <3>4. ASSUME NEW m \in Requester, Answer(m) PROVE FALSE
      BY <2>0, <2>1, <1>1, <3>4 DEF Answer, TakeForced, BeginLoad, GiveUp, Release
    <3>5. ASSUME NEW m \in Requester, NEW k \in Customer, RequestCheck(m, k) PROVE FALSE
      BY <2>0, <2>1, <1>1, <3>5 DEF RequestCheck, Await
    <3>6. ~Lifecycle
      BY <2>0, <2>1, <1>1
         DEF Lifecycle, CreateViaApi, CreateInUI, SetActive, Delete, Redistribute,
             threads, Await
    <3>7. QED
      BY <1>1, <3>1, <3>2, <3>3, <3>4, <3>5, <3>6 DEF Next, Schedule
  <2>3. entry[2] = c /\ IsDue(db[c], now)
    BY <2>0, <2>1, <2>2, <1>1 DEF TakeDue, BeginLoad, IInv, TypeOK
  <2>4. db[c] \in Row /\ now \in Nat /\ runs[c] \in Seq(RunRow)
    BY <1>1 DEF IInv, TypeOK
  <2>5. db[c].slot \in Minutes /\ db[c].lastCheck \in Int
    BY <2>4 DEF Row, Moment, Never
  <2>6. SlotToday(db[c].slot, now) \in Int
    BY <2>4, <2>5, SlotTodayIsTime
  <2>7. runs[c][i] \in RunRow
    BY <2>4, ElementOfSeq
  <2>8. runs[c][i].finished \in Nat /\ runs[c][i].finished <= db[c].lastCheck
    BY <1>1, <2>7 DEF IInv, DataInv, HistoryInv, RunRow
  <2>9. QED
    BY <2>3, <2>5, <2>6, <2>8 DEF IsDue, Never
<1>2. IInv /\ [Next]_vars => [NotRepeated]_vars
  BY <1>1
<1>3. Spec => [][NotRepeated]_vars
  BY <1>2, InductiveInvariant, PTL DEF Spec
<1>4. QED
  BY <1>3 DEF NoSecondCheckAfterSlot

-------------------------------------------------------------------------------
(* What the history says of the stored data *)

\* The runs of a customer are in the order of time, and the last one that succeeded
\* is the one the stored data are from.
Tells(history, taken) ==
    \A i \in 1..Len(history) :
        /\ \A j \in 1..Len(history) : i < j => history[i].finished <= history[j].finished
        /\ history[i].status = "ok" =>
              /\ history[i].finished <= taken
              /\ (\A j \in 1..Len(history) : i < j => history[j].status # "ok")
                     => history[i].finished = taken

HistoryTellsData == \A c \in Customer : Tells(runs[c], snap[c])

\* Trimming drops the oldest runs and takes none of that away ...
LEMMA TrimmedTells ==
    ASSUME NEW history \in Seq(RunRow), NEW taken \in Moment, Tells(history, taken)
    PROVE  Tells(Trimmed(history), taken)
<1> DEFINE kept == Trimmed(history)
           n == Len(history)
           k == Len(kept)
<1>1. /\ n \in Nat /\ k \in Nat /\ k <= n
      /\ \A i \in 1..k : kept[i] = history[i + n - k]
  BY TrimmedKeepsNewest, LenProperties
<1>2. /\ \A i \in 1..k : i + n - k \in 1..n
      /\ \A i, j \in 1..k : i < j <=> i + n - k < j + n - k
  <2> HIDE DEF n, k
  <2> QED BY <1>1
<1>3. \A i \in 1..k : \A j \in 1..n : i + n - k < j => j - (n - k) \in 1..k
                                                  /\ i < j - (n - k)
                                                  /\ (j - (n - k)) + n - k = j
  <2> HIDE DEF n, k
  <2> QED BY <1>1
<1>4. ASSUME NEW i \in 1..k, NEW j \in 1..k, i < j
      PROVE  kept[i].finished <= kept[j].finished
  BY <1>1, <1>2, <1>4 DEF Tells
<1>5. ASSUME NEW i \in 1..k, kept[i].status = "ok"
      PROVE  kept[i].finished <= taken
  BY <1>1, <1>2, <1>5 DEF Tells
<1>6. ASSUME NEW i \in 1..k, kept[i].status = "ok",
             \A j \in 1..k : i < j => kept[j].status # "ok"
      PROVE  kept[i].finished = taken
  <2>1. ASSUME NEW j \in 1..n, i + n - k < j PROVE history[j].status # "ok"
    <3>1. /\ j - (n - k) \in 1..k /\ i < j - (n - k)
          /\ (j - (n - k)) + n - k = j
      BY <1>3, <2>1
    <3>2. kept[j - (n - k)] = history[(j - (n - k)) + n - k]
      BY <1>1, <3>1
    <3>3. QED
      BY <1>6, <3>1, <3>2
  <2>2. i + n - k \in 1..n /\ history[i + n - k] = kept[i]
    BY <1>1, <1>2
  <2> HIDE DEF n, k, kept
  <2>3. QED
    BY <1>6, <2>1, <2>2 DEF Tells, n
<1> HIDE DEF kept
<1>7. QED
  BY <1>4, <1>5, <1>6 DEF Tells, kept

\* ... and a new run adds to it, if it is the newest and brings the data it tells of.
LEMMA AppendedTells ==
    ASSUME NEW history \in Seq(RunRow), NEW old \in Moment, Tells(history, old),
           NEW run \in RunRow, NEW taken \in Moment,
           \A i \in 1..Len(history) : history[i].finished <= run.finished,
           taken = IF run.status = "ok" THEN run.finished ELSE old
    PROVE  Tells(Append(history, run), taken)
<1> DEFINE longer == Append(history, run)
           n == Len(history)
<1>1. /\ n \in Nat /\ Len(longer) = n + 1 /\ longer[n + 1] = run
      /\ \A i \in 1..n : longer[i] = history[i]
  BY AppendProperties, LenProperties
<1>2. ASSUME NEW i \in 1..n PROVE history[i].finished \in Nat
  <2>1. history[i] \in RunRow
    BY ElementOfSeq
  <2>2. QED
    BY <2>1 DEF RunRow
<1>3. run.finished \in Nat /\ run.status \in {"ok", "error"}
  BY DEF RunRow
<1> HIDE DEF longer
<1>4. ASSUME NEW i \in 1..(n + 1)
      PROVE  /\ \A j \in 1..(n + 1) : i < j => longer[i].finished <= longer[j].finished
             /\ longer[i].status = "ok" =>
                   /\ longer[i].finished <= taken
                   /\ (\A j \in 1..(n + 1) : i < j => longer[j].status # "ok")
                          => longer[i].finished = taken
  <2>1. CASE i = n + 1
    <3>1. \A j \in 1..(n + 1) : ~(i < j)
      BY <1>1, <2>1
    <3>2. QED
      BY <1>1, <1>3, <2>1, <3>1
  <2>2. CASE i # n + 1
    <3>1. i \in 1..n /\ longer[i] = history[i] /\ i < n + 1
      BY <1>1, <2>2
    <3>2. \A j \in 1..(n + 1) : j \in 1..n \/ j = n + 1
      BY <1>1
    <3>3. ASSUME NEW j \in 1..(n + 1), i < j PROVE longer[i].finished <= longer[j].finished
      <4>1. CASE j \in 1..n
        BY <1>1, <3>1, <3>3, <4>1 DEF Tells
      <4>2. CASE j = n + 1
        BY <1>1, <3>1, <4>2
      <4>3. QED
        BY <3>2, <4>1, <4>2
    <3>4. ASSUME longer[i].status = "ok" PROVE longer[i].finished <= taken
      BY <3>1, <3>4 DEF Tells
    <3>5. ASSUME longer[i].status = "ok",
                 \A j \in 1..(n + 1) : i < j => longer[j].status # "ok"
          PROVE  longer[i].finished = taken
      <4>1. run.status # "ok"
        BY <1>1, <3>1, <3>5
      <4>2. \A j \in 1..n : i < j => history[j].status # "ok"
        BY <1>1, <3>5
      <4>3. QED
        BY <3>1, <3>5, <4>1, <4>2 DEF Tells
    <3>6. QED
      BY <3>3, <3>4, <3>5
  <2>3. QED
    BY <2>1, <2>2
<1>5. QED
  BY <1>1, <1>4 DEF Tells, longer

LEMMA EmptyTells == \A taken : Tells(<<>>, taken)
  BY EmptySeq DEF Tells

LEMMA TellsInit == Init => HistoryTellsData
<1> SUFFICES ASSUME Init, NEW c \in Customer PROVE Tells(runs[c], snap[c])
  BY DEF HistoryTellsData
<1>1. PICK legacy \in [Customer -> LegacyStates] :
          /\ snap = [k \in Customer |-> legacy[k].snap]
          /\ runs = [k \in Customer |-> Trimmed(legacy[k].runs)]
  BY DEF Init
<1> DEFINE state == legacy[c]
<1>2. state \in LegacyStates /\ snap[c] = state.snap /\ runs[c] = Trimmed(state.runs)
  BY <1>1
<1>3. LegacyChecks \subseteq Nat
  BY TimeAssumption
<1> HIDE DEF state
<1>4. ASSUME NEW t \in LegacyChecks, NEW status \in {"ok", "error"}
      PROVE  /\ LegacyRun(t, status) \in Seq(RunRow) /\ Len(LegacyRun(t, status)) = 1
             /\ LegacyRun(t, status)[1].finished = t
             /\ LegacyRun(t, status)[1].status = status
  BY <1>3 DEF LegacyRun, RunRow, Triggers
<1>5. state.runs \in Seq(RunRow) /\ state.snap \in Moment /\ Tells(state.runs, state.snap)
  <2>1. CASE state \in NoRow \cup Unchecked
    <3>1. state.snap = Never /\ state.runs = <<>>
      <4>1. CASE state \in NoRow
        BY <4>1 DEF NoRow
      <4>2. CASE state \in Unchecked
        <5>1. PICK s \in Minutes : state = [row |-> NewRow(TRUE, s), snap |-> Never, runs |-> <<>>]
          BY <4>2 DEF Unchecked
        <5>2. QED
          BY <5>1
      <4>3. QED
        BY <2>1, <4>1, <4>2
    <3>2. QED
      BY <3>1, EmptySeq, EmptyTells DEF Moment
  <2>2. CASE state \in Succeeded
    <3>1. PICK t \in LegacyChecks : state.snap = t /\ state.runs = LegacyRun(t, "ok")
      BY <2>2 DEF Succeeded
    <3>2. Tells(LegacyRun(t, "ok"), t)
      BY <1>3, <1>4 DEF Tells
    <3>3. QED
      BY <1>3, <1>4, <3>1, <3>2 DEF Moment
  <2>3. CASE state \in Failed
    <3>1. PICK t \in LegacyChecks, d \in {Never, 0} :
              state.snap = d /\ state.runs = LegacyRun(t, "error")
      BY <2>3 DEF Failed
    <3>2. Tells(LegacyRun(t, "error"), d)
      BY <1>3, <1>4 DEF Tells
    <3>3. QED
      BY <1>4, <3>1, <3>2 DEF Moment
  <2>4. QED
    BY <1>2, <2>1, <2>2, <2>3 DEF LegacyStates
<1>6. QED
  BY <1>2, <1>5, TrimmedTells

LEMMA StoreTells ==
    ASSUME IInv, HistoryTellsData, NEW t \in Thread, NEW row, NEW taken \in Moment,
           NEW status \in {"ok", "error"}, Store(t, row, taken, status),
           taken = IF status = "ok" THEN now ELSE snap[job[t]]
    PROVE  HistoryTellsData'
<1> DEFINE c == job[t]
           run == [finished |-> now, status |-> status,
                   trigger |-> IF t = Scheduler THEN "schedule" ELSE "manual"]
<1>0. /\ runs \in [Customer -> Seq(RunRow)] /\ snap \in [Customer -> Moment]
      /\ now \in Nat /\ db \in [Customer -> Row]
  BY DEF IInv, TypeOK
<1>1. c \in Customer
  BY DEF Store, IInv, LockInv, JobGiven
<1>2. /\ snap' = [snap EXCEPT ![c] = taken]
      /\ runs' = [runs EXCEPT ![c] = Trimmed(Append(runs[c], run))]
  BY DEF Store
<1>3. run \in RunRow /\ run.finished = now /\ run.status = status
  BY <1>0 DEF RunRow, Triggers
<1> HIDE DEF run, c
<1>4. ASSUME NEW i \in 1..Len(runs[c]) PROVE runs[c][i].finished <= now
  <2>1. runs[c][i].finished <= db[c].lastCheck /\ db[c].lastCheck <= now
    BY <1>1 DEF IInv, DataInv, HistoryInv, AgeInv
  <2>2. runs[c][i] \in RunRow
    BY <1>0, <1>1, ElementOfSeq
  <2>3. runs[c][i].finished \in Int /\ db[c].lastCheck \in Int
    BY <1>0, <1>1, <2>2 DEF RunRow, Row, Moment, Never
  <2>4. QED
    BY <1>0, <2>1, <2>3
<1>5. Tells(Append(runs[c], run), taken)
  <2>1. Tells(runs[c], snap[c]) /\ runs[c] \in Seq(RunRow) /\ snap[c] \in Moment
    BY <1>0, <1>1 DEF HistoryTellsData
  <2>2. taken = IF run.status = "ok" THEN run.finished ELSE snap[c]
    BY <1>3 DEF c
  <2>3. QED
    BY <1>3, <1>4, <2>1, <2>2, AppendedTells
<1>6. Tells(Trimmed(Append(runs[c], run)), taken)
  <2>1. Append(runs[c], run) \in Seq(RunRow)
    BY <1>0, <1>1, <1>3, AppendProperties
  <2>2. QED
    BY <1>5, <2>1, TrimmedTells
<1>7. \A k \in Customer : Tells(runs'[k], snap'[k])
  BY <1>0, <1>1, <1>2, <1>6 DEF HistoryTellsData
<1>8. QED
  BY <1>7 DEF HistoryTellsData

\* The history of a customer, however deep, is in the order of time, and the data a
\* sensor is served are those of the last run in it that succeeded: no failure, no
\* crash, no trimming and no other thread's scan takes the two apart.
THEOREM HistoryIsOfTheData == Spec => []HistoryTellsData
<1>1. ASSUME IInv, HistoryTellsData, [Next]_vars PROVE HistoryTellsData'
  <2>1. CASE UNCHANGED <<snap, runs>>
    BY <1>1, <2>1 DEF HistoryTellsData
  <2>2. ASSUME NEW t \in Thread, Scan(t) PROVE HistoryTellsData'
    <3>1. CASE BeginScan(t) \/ FlushFails(t) \/ CommitFails(t)
      BY <2>1, <3>1 DEF BeginScan, FlushFails, CommitFails, data
    <3>2. CASE ScanSucceeds(t)
      <4>1. now \in Moment
        BY <1>1 DEF IInv, TypeOK, Moment
      <4>2. QED
        BY <1>1, <3>2, <4>1, StoreTells DEF ScanSucceeds
    <3>3. CASE ScanFails(t)
      <4>1. snap[job[t]] \in Moment
        BY <1>1, <3>3 DEF ScanFails, Store, IInv, TypeOK, LockInv, JobGiven
      <4>2. QED
        BY <1>1, <3>3, <4>1, StoreTells DEF ScanFails
    <3>4. QED
      BY <2>2, <3>1, <3>2, <3>3 DEF Scan
  <2>3. ASSUME NEW c \in Customer, Delete(c) PROVE HistoryTellsData'
    <3>1. /\ runs \in [Customer -> Seq(RunRow)] /\ snap \in [Customer -> Moment]
          /\ snap' = [snap EXCEPT ![c] = Never] /\ runs' = [runs EXCEPT ![c] = <<>>]
      BY <1>1, <2>3 DEF Delete, IInv, TypeOK
    <3>2. \A k \in Customer : Tells(runs'[k], snap'[k])
      BY <1>1, <3>1, EmptyTells DEF HistoryTellsData
    <3>3. QED
      BY <3>2 DEF HistoryTellsData
  <2>4. QED
    BY <1>1, <2>1, <2>2, <2>3
    DEF Next, Clock, Schedule, WakeUp, TakeDue, ListDone, Answer, TakeForced, GiveUp, RequestCheck,
        Lifecycle, CreateViaApi, CreateInUI, SetActive, Redistribute, Crash, Restart, data, vars
<1>2. QED
  BY <1>1, TellsInit, InductiveInvariant, PTL DEF Spec

-------------------------------------------------------------------------------
(* Nobody waits for somebody who waits *)

\* A thread inside a scan can go on: it has its answer from Graph to store, or a
\* flush to try that the write transaction of another scan does not hold up.
CanGoOn(t) ==
    \/ pc[t] = "graph"
    \/ pc[t] = "loaded" /\ (db[job[t]].present => ~Writing)

\* Whoever holds SCAN_LOCK can go on, so a wait for the lock is a wait for a scan
\* and never for another wait.
HolderCanGoOn == lock # Nobody => CanGoOn(lock)

\* In a pass the scheduler has its scan, has nothing left, has a next customer to
\* take, or waits for the scan of another thread.
PassCanGoOn ==
    pc[Scheduler] = "work" =>
        \/ due = {}
        \/ lock = Nobody /\ \E entry \in due : NextDue(entry)
        \/ lock \in Requester /\ CanGoOn(lock)

LEMMA EarliestExists ==
    ASSUME due \subseteq Minutes \X Customer, due # {}
    PROVE  \E entry \in due : NextDue(entry)
<1> DEFINE F == {0..entry[1] : entry \in due}
<1>0. Minutes \subseteq Nat
  BY TimeAssumption DEF Minutes
<1>1. F \subseteq FiniteSubsetsOf(Nat)
  <2>1. ASSUME NEW entry \in due PROVE IsFiniteSet(0..entry[1]) /\ 0..entry[1] \subseteq Nat
    <3>1. entry[1] \in Nat
      BY <1>0
    <3>2. QED
      BY <3>1, FS_Interval
  <2>2. QED
    BY <2>1 DEF FiniteSubsetsOf
<1>2. PICK s \in F : \A t \in F : <<t, s>> \notin StrictSubsetOrdering(Nat)
  <2>1. F # {}
    OBVIOUS
  <2> HIDE DEF F
  <2>2. QED
    BY <1>1, <2>1, FS_StrictSubsetOrderingWellFounded, WFMin
<1>3. PICK entry \in due : s = 0..entry[1]
  BY <1>2
<1>4. ASSUME NEW other \in due PROVE entry[1] <= other[1]
  <2>1. <<0..other[1], 0..entry[1]>> \notin StrictSubsetOrdering(Nat)
    BY <1>2, <1>3
  <2>2. entry[1] \in Nat /\ other[1] \in Nat
    BY <1>0
  <2>3. QED
    BY <2>1, <2>2 DEF StrictSubsetOrdering
<1>5. QED
  BY <1>4 DEF NextDue

\* SCAN_LOCK and the write lock of the database are never waited for in a circle:
\* no thread holds the one while another scan holds the other.
THEOREM NobodyIsStuck == Spec => [](HolderCanGoOn /\ PassCanGoOn)
<1>1. ASSUME IInv PROVE HolderCanGoOn
  <2>1. SUFFICES ASSUME lock # Nobody PROVE CanGoOn(lock)
    BY DEF HolderCanGoOn
  <2>2. lock \in Thread /\ Scanning(lock)
    BY <1>1, <2>1 DEF IInv, TypeOK, LockInv, LockFollowsScan
  <2>3. \A t \in Thread : pc[t] = "graph" => t = lock
    BY <1>1 DEF IInv, LockInv, LockFollowsScan, Scanning
  <2>4. QED
    BY <2>2, <2>3 DEF CanGoOn, Scanning, Writing
<1>2. ASSUME IInv, HolderCanGoOn PROVE PassCanGoOn
  <2>1. SUFFICES ASSUME pc[Scheduler] = "work", due # {} PROVE
            \/ lock = Nobody /\ \E entry \in due : NextDue(entry)
            \/ lock \in Requester /\ CanGoOn(lock)
    BY DEF PassCanGoOn
  <2>2. lock # Scheduler
    BY <1>2, <2>1 DEF IInv, LockInv, LockFollowsScan, Scanning, Thread
  <2>3. lock \in Requester \cup {Nobody}
    BY <1>2, <2>2 DEF IInv, TypeOK, Thread
  <2>4. \E entry \in due : NextDue(entry)
    BY <1>2, <2>1, EarliestExists DEF IInv, TypeOK
  <2>5. QED
    BY <1>2, <2>3, <2>4 DEF HolderCanGoOn
<1>3. QED
  BY <1>1, <1>2, InductiveInvariant, PTL

-------------------------------------------------------------------------------
(* One pass of the scheduler *)

\* due_ids has one entry per customer, and only while a pass is under way.
ListedOnce ==
    /\ \A entry, other \in due : entry[2] = other[2] => entry = other
    /\ due # {} => pc[Scheduler] \in {"work", "loaded", "graph"}

\* Between two ticks the list only gets shorter, and a customer leaves it before its
\* scan starts: so no pass scans a customer twice, even if its slot moves on, its
\* scan fails or it is deleted and created again meanwhile.
OneVisitPerPass ==
    /\ pc[Scheduler] # "sleep" => due' \subseteq due
    /\ \A c \in Customer : StartsScheduled(c) =>
          /\ \E entry \in due : entry[2] = c
          /\ \A entry \in due' : entry[2] # c

\* A customer leaves the list only for its scan, or because under the lock it turns
\* out to be gone or not due any more, or because an exception or the end of the
\* process ends the pass.
NobodyIsForgotten ==
    \A entry \in due \ due' :
        \/ pc'[Scheduler] = "loaded" /\ job'[Scheduler] = entry[2]
        \/ ~db[entry[2]].present
        \/ ~IsDue(db[entry[2]], now)
        \/ due' = {} /\ pc'[Scheduler] \in {"sleep", "down"}

LEMMA PassStep ==
    ASSUME IInv, ListedOnce, [Next]_vars
    PROVE  ListedOnce' /\ OneVisitPerPass /\ NobodyIsForgotten
<1>0. /\ Scheduler \in Thread /\ Requester \subseteq Thread /\ Scheduler \notin Requester
      /\ pc \in [Thread -> {"down", "sleep", "work", "idle", "waiting", "loaded", "graph"}]
      /\ job \in [Thread -> Customer \cup {Nobody}] /\ due \subseteq Minutes \X Customer
  BY ThreadAssumption DEF Thread, IInv, TypeOK
\* Steps that leave the list and the scheduler's place alone.
<1>1. ASSUME due' = due, pc'[Scheduler] = pc[Scheduler]
      PROVE  ListedOnce' /\ OneVisitPerPass /\ NobodyIsForgotten
  BY <1>1 DEF ListedOnce, OneVisitPerPass, NobodyIsForgotten, StartsScheduled
<1>2. ASSUME due' = {}, pc'[Scheduler] \in {"sleep", "down"}
      PROVE  ListedOnce' /\ OneVisitPerPass /\ NobodyIsForgotten
  BY <1>2 DEF ListedOnce, OneVisitPerPass, NobodyIsForgotten, StartsScheduled
<1>3. CASE WakeUp
  <2>1. /\ pc[Scheduler] = "sleep" /\ pc'[Scheduler] = "work" /\ due = {}
        /\ due' = {<<db[c].slot, c>> : c \in {k \in Customer : db[k].present /\ IsDue(db[k], now)}}
    BY <1>0, <1>3 DEF WakeUp, ListedOnce
  <2>2. \A entry, other \in due' : entry[2] = other[2] => entry = other
    BY <2>1
  <2>3. QED
    BY <2>1, <2>2 DEF ListedOnce, OneVisitPerPass, NobodyIsForgotten, StartsScheduled
<1>4. ASSUME NEW entry \in due, TakeDue(entry) PROVE ListedOnce' /\ OneVisitPerPass /\ NobodyIsForgotten
  <2>1. /\ due' = due \ {entry}
        /\ pc'[Scheduler] \in {"work", "loaded"}
        /\ pc'[Scheduler] = "loaded" => job'[Scheduler] = entry[2]
        /\ pc'[Scheduler] = "work" => ~db[entry[2]].present \/ ~IsDue(db[entry[2]], now)
    BY <1>0, <1>4 DEF TakeDue, BeginLoad
  <2>2. \A other \in due' : other[2] # entry[2]
    BY <2>1 DEF ListedOnce
  <2>3. QED
    BY <2>1, <2>2 DEF ListedOnce, OneVisitPerPass, NobodyIsForgotten, StartsScheduled
<1>5. CASE ListDone
  BY <1>0, <1>2, <1>5 DEF ListDone
<1>6. ASSUME NEW t \in Thread, Scan(t) PROVE ListedOnce' /\ OneVisitPerPass /\ NobodyIsForgotten
  <2>1. CASE t # Scheduler
    BY <1>0, <1>1, <1>6, <2>1
    DEF Scan, BeginScan, FlushFails, ScanSucceeds, ScanFails, CommitFails, Store, Drop, Release
  <2>2. CASE t = Scheduler /\ due' = {} /\ pc'[Scheduler] = "sleep"
    BY <1>2, <2>2
  <2>3. CASE t = Scheduler /\ due' = due /\ pc[Scheduler] = "loaded" /\ pc'[Scheduler] = "graph"
    BY <2>3 DEF ListedOnce, OneVisitPerPass, NobodyIsForgotten, StartsScheduled
  <2>4. CASE t = Scheduler /\ due' = due /\ pc'[Scheduler] = "work"
    BY <2>4 DEF ListedOnce, OneVisitPerPass, NobodyIsForgotten, StartsScheduled
  <2>5. QED
    BY <1>0, <1>6, <2>1, <2>2, <2>3, <2>4
    DEF Scan, BeginScan, FlushFails, ScanSucceeds, ScanFails, CommitFails, Store, Drop, Release,
        AfterScan
<1>7. ASSUME NEW m \in Requester, Answer(m) PROVE ListedOnce' /\ OneVisitPerPass /\ NobodyIsForgotten
  BY <1>0, <1>1, <1>7 DEF Answer, TakeForced, BeginLoad, GiveUp, Release
<1>8. ASSUME NEW m \in Requester, NEW c \in Customer, RequestCheck(m, c)
      PROVE  ListedOnce' /\ OneVisitPerPass /\ NobodyIsForgotten
  BY <1>0, <1>1, <1>8 DEF RequestCheck, Await
<1>9. CASE Lifecycle
  BY <1>0, <1>1, <1>9
  DEF Lifecycle, CreateViaApi, CreateInUI, SetActive, Delete, Redistribute, threads, Await
<1>10. CASE Crash
  BY <1>0, <1>2, <1>10 DEF Crash
<1>11. CASE Restart
  <2>1. due = {}
    BY <1>11 DEF Restart, Up, ListedOnce
  <2>2. due' = {} /\ pc'[Scheduler] = "sleep"
    BY <1>0, <1>11, <2>1 DEF Restart
  <2>3. QED
    BY <1>2, <2>2
<1>12. CASE Clock \/ UNCHANGED vars
  BY <1>1, <1>12 DEF Clock, threads, vars
<1>13. QED
  BY <1>3, <1>4, <1>5, <1>6, <1>7, <1>8, <1>9, <1>10, <1>11, <1>12 DEF Next, Schedule

\* No pass scans a customer twice, whatever happens to the customer meanwhile.
THEOREM PassVisitsOnce == Spec => [][OneVisitPerPass]_vars
<1>1. Init => ListedOnce
  BY DEF Init, ListedOnce
<1>2. IInv /\ ListedOnce /\ [Next]_vars => ListedOnce' /\ OneVisitPerPass
  BY PassStep
<1>3. QED
  BY <1>1, <1>2, InductiveInvariant, PTL DEF Spec

\* And nobody who was due is passed over without a reason: a busy lock, a scan that
\* fails, a slot that moves make no customer drop out of a pass.
THEOREM PassVisitsAll == Spec => [][NobodyIsForgotten]_vars
<1>1. Init => ListedOnce
  BY DEF Init, ListedOnce
<1>2. IInv /\ ListedOnce /\ [Next]_vars => ListedOnce' /\ NobodyIsForgotten
  BY PassStep
<1>3. QED
  BY <1>1, <1>2, InductiveInvariant, PTL DEF Spec

-------------------------------------------------------------------------------
(* The promise *)

\* A database write to one row is one entry of the log.
LEMMA OneRowOneEntry ==
    ASSUME TypeOK, NEW c \in Customer, NEW row, NEW taken, NEW foreign \in BOOLEAN,
           db' = [db EXCEPT ![c] = row], snap' = [snap EXCEPT ![c] = taken],
           mixed' = IF foreign THEN mixed \cup {c} ELSE mixed \ {c}
    PROVE  Log' = [Log EXCEPT ![c] = LogEntry(row, taken, foreign)]
<1>1. \A k \in Customer : /\ db'[k] = IF k = c THEN row ELSE db[k]
                          /\ snap'[k] = IF k = c THEN taken ELSE snap[k]
                          /\ (k \in mixed') = IF k = c THEN foreign ELSE k \in mixed
  BY DEF TypeOK
<1> DEFINE entry(k) == LogEntry(db[k], snap[k], k \in mixed)
           entryP(k) == LogEntry(db'[k], snap'[k], k \in mixed')
<1>2. \A k \in Customer : entryP(k) = IF k = c THEN LogEntry(row, taken, foreign) ELSE entry(k)
  BY <1>1
<1>3. Log = [k \in Customer |-> entry(k)]
  BY DEF Log
<1>4. Log' = [k \in Customer |-> entryP(k)]
  BY DEF Log, LogEntry, AgeBasis
<1> HIDE DEF entry, entryP
<1>5. QED
  BY <1>2, <1>3, <1>4

\* The state of the process before its first step is an honest log.
LEMMA PromiseInit == Init => Promise!Init
<1> SUFFICES ASSUME Init PROVE Promise!Init
  OBVIOUS
<1>1. TypeOK /\ DataInv /\ mixed = {}
  BY InitTyped, DataInvInit DEF Init
<1>2. ASSUME NEW c \in Customer
      PROVE  LogEntry(db[c], snap[c], c \in mixed) \in
                 {entry \in Promise!Entry :
                    ~entry.foreign /\ Promise!Honest(entry) /\ Promise!Past(entry)}
  <2>1. db[c] \in Row /\ snap[c] \in Moment
    BY <1>1 DEF TypeOK
  <2>2. AgeBasis(db[c]) \in {snap[c], Never} /\ snap[c] <= now /\ db[c].lastCheck <= now
    BY <1>1 DEF DataInv, AgeInv
  <2>3. LogEntry(db[c], snap[c], c \in mixed) \in Promise!Entry
    BY <2>1, <2>2
       DEF LogEntry, Row, Statuses, Promise!Entry, Promise!Moment, Promise!Never, Moment, Never
  <2>4. Promise!Honest(LogEntry(db[c], snap[c], c \in mixed))
    BY <2>2 DEF LogEntry, Promise!Honest, Promise!Never, Never
  <2>5. Promise!Past(LogEntry(db[c], snap[c], c \in mixed))
    BY <2>2 DEF LogEntry, Promise!Past
  <2>6. ~LogEntry(db[c], snap[c], c \in mixed).foreign
    BY <1>1 DEF LogEntry
  <2>7. QED
    BY <2>3, <2>4, <2>5, <2>6
<1>3. Log \in [Customer ->
                 {entry \in Promise!Entry :
                    ~entry.foreign /\ Promise!Honest(entry) /\ Promise!Past(entry)}]
  BY <1>2 DEF Log
<1>4. now \in Nat
  BY <1>1 DEF TypeOK
<1>5. QED
  BY <1>3, <1>4 DEF Promise!Init

\* Every step of the portal is one entry, a minute that passes, or nothing.
LEMMA PromiseNext ==
    IInv /\ [Next]_vars => [Promise!Next]_(Promise!vars)
<1> SUFFICES ASSUME IInv, [Next]_vars
             PROVE  Promise!Next \/ UNCHANGED Promise!vars
  OBVIOUS
<1>0. TypeOK /\ LockInv /\ PresenceInv /\ LoadInv /\ DataInv
  BY DEF IInv
<1>1. ASSUME now' = now, Log' = Log PROVE UNCHANGED Promise!vars
  BY <1>1 DEF Promise!vars
<1>2. ASSUME UNCHANGED <<now, data>> PROVE UNCHANGED Promise!vars
  <2>1. now' = now /\ Log' = Log
    BY <1>2 DEF data, Log, LogEntry, AgeBasis
  <2>2. QED
    BY <1>1, <2>1
<1>3. ASSUME UNCHANGED <<now, snap, mixed>>, db' \in [Customer -> Row],
             \A c \in Customer : /\ db'[c].present = db[c].present
                                 /\ db'[c].lastCheck = db[c].lastCheck
                                 /\ db'[c].lastSuccess = db[c].lastSuccess
                                 /\ db'[c].status = db[c].status
      PROVE  UNCHANGED Promise!vars
  <2>1. \A c \in Customer : LogEntry(db'[c], snap'[c], c \in mixed') = LogEntry(db[c], snap[c], c \in mixed)
    BY <1>3 DEF LogEntry, AgeBasis
  <2>2. Log' = [c \in Customer |-> LogEntry(db'[c], snap'[c], c \in mixed')]
    BY DEF Log, LogEntry, AgeBasis
  <2>3. Log' = Log
    BY <2>1, <2>2 DEF Log
  <2>4. QED
    BY <1>1, <1>3, <2>3
<1>4. CASE Clock
  <2>1. now' = now + 1 /\ Log' = Log
    BY <1>4 DEF Clock, data, Log, LogEntry, AgeBasis
  <2>2. QED
    BY <2>1 DEF Promise!Next, Promise!Pass
<1>5. CASE Schedule
  BY <1>2, <1>5 DEF Schedule, WakeUp, TakeDue, ListDone
<1>6. ASSUME NEW t \in Thread, Scan(t) PROVE Promise!Next \/ UNCHANGED Promise!vars
  <2>1. CASE BeginScan(t) \/ FlushFails(t) \/ CommitFails(t)
    BY <1>2, <2>1 DEF BeginScan, FlushFails, CommitFails
  <2>2. ASSUME pc[t] = "graph", NEW c \in Customer, c = job[t]
        PROVE  db[c] \in Row /\ db[c].present /\ Log[c] = LogEntry(db[c], snap[c], c \in mixed)
    BY <1>0, <2>2 DEF TypeOK, PresenceInv, ScannedIsThere, Log
  <2>5. ASSUME pc[t] = "graph", t \in orphans, NEW c \in Customer, c = job[t]
        PROVE  LogEntry(db[c], snap[c], c \in mixed) = Promise!Blank(TRUE)
    <3>1. Untouched(c) /\ db[c].present
      BY <1>0, <2>2, <2>5 DEF LoadInv
    <3>2. (c \in mixed) = FALSE /\ AgeBasis(db[c]) = Never
      BY <3>1 DEF Untouched, AgeBasis
    <3>3. QED
      BY <3>1, <3>2, <1>0, <2>2, <2>5 DEF Untouched, LogEntry, Promise!Blank, Promise!Never, Never, Row
  <2>3. CASE ScanSucceeds(t)
    <3>1. job[t] \in Customer /\ pc[t] = "graph"
      BY <1>0, <2>3 DEF ScanSucceeds, Store, LockInv, JobGiven
    <3>2. PICK c \in Customer : c = job[t]
      BY <3>1
    <3> DEFINE row == SuccessRow(db[c], loaded[t], now)
               foreign == t \in orphans /\ loaded[t] = "ok"
               old == LogEntry(db[c], snap[c], c \in mixed)
    <3>3. db[c] \in Row /\ db[c].present /\ Log[c] = old
      BY <2>2, <3>1, <3>2
    <3>4. /\ row.present /\ row.lastCheck = now /\ row.lastSuccess = now
          /\ row.status = Column(db[c].status, loaded[t], "ok")
      BY <3>3 DEF SuccessRow, Row
    <3>5. /\ db' = [db EXCEPT ![c] = row] /\ snap' = [snap EXCEPT ![c] = now] /\ now' = now
          /\ mixed' = IF foreign THEN mixed \cup {c} ELSE mixed \ {c}
      BY <2>3, <3>2 DEF ScanSucceeds, Store
    <3>6. foreign => old = Promise!Blank(TRUE)
      BY <2>5, <3>1, <3>2
    <3>7. row.status = IF foreign THEN "pending" ELSE "ok"
      BY <1>6, <3>1, <3>2, <3>4, <1>0 DEF Column, LoadInv, Untouched, Scanning
    <3>8. foreign \in BOOLEAN /\ old.open
      BY <3>3 DEF LogEntry
    <3> HIDE DEF row, foreign, old
    <3>9. Log' = [Log EXCEPT ![c] = LogEntry(row, now, foreign)]
      BY <1>0, <3>5, <3>8, OneRowOneEntry
    <3>10. LogEntry(row, now, foreign) =
               [open |-> TRUE, checked |-> now, status |-> IF foreign THEN "pending" ELSE "ok",
                data |-> now, basis |-> now, foreign |-> foreign]
      BY <1>0, <3>4, <3>7 DEF LogEntry, AgeBasis, TypeOK, Never
    <3>11. CASE foreign
      <4>1. Promise!Stray(c)
        BY <3>3, <3>5, <3>6, <3>9, <3>10, <3>11 DEF Promise!Stray, Promise!Enter
      <4>2. QED
        BY <4>1 DEF Promise!Next
    <3>12. CASE ~foreign
      <4>1. foreign = FALSE
        BY <3>8, <3>12
      <4>2. Promise!Succeed(c)
        BY <3>3, <3>5, <3>8, <3>9, <3>10, <4>1 DEF Promise!Succeed, Promise!Enter
      <4>3. QED
        BY <4>2 DEF Promise!Next
    <3>13. QED
      BY <3>11, <3>12
  <2>4. CASE ScanFails(t)
    <3>1. job[t] \in Customer /\ pc[t] = "graph"
      BY <1>0, <2>4 DEF ScanFails, Store, LockInv, JobGiven
    <3>2. PICK c \in Customer : c = job[t]
      BY <3>1
    <3> DEFINE row == FailureRow(db[c], loaded[t], now)
               foreign == t \in orphans /\ loaded[t] = "error"
               old == LogEntry(db[c], snap[c], c \in mixed)
               basis == AgeBasis(row)
    <3>3. db[c] \in Row /\ db[c].present /\ Log[c] = old
      BY <2>2, <3>1, <3>2
    <3>4. /\ row.present /\ row.lastCheck = now /\ row.lastSuccess = db[c].lastSuccess
          /\ row.status = Column(db[c].status, loaded[t], "error")
      BY <3>3 DEF FailureRow, Row
    <3>5. /\ db' = [db EXCEPT ![c] = row] /\ snap' = [snap EXCEPT ![c] = snap[c]] /\ now' = now
          /\ mixed' = IF foreign THEN mixed \cup {c} ELSE mixed \ {c}
      BY <2>4, <3>2 DEF ScanFails, Store
    <3>6. foreign => old = Promise!Blank(TRUE) /\ snap[c] = Never /\ row.lastSuccess = Never
      <4>1. foreign => old = Promise!Blank(TRUE)
        BY <2>5, <3>1, <3>2
      <4>2. foreign => Untouched(c)
        BY <1>0, <3>2 DEF LoadInv
      <4>3. QED
        BY <3>4, <4>1, <4>2 DEF Untouched
    <3>7. row.status = IF foreign THEN "pending" ELSE "error"
      BY <1>6, <3>1, <3>2, <3>4, <1>0 DEF Column, LoadInv, Untouched, Scanning
    <3>8. foreign \in BOOLEAN /\ old.open /\ old.data = snap[c]
      BY <3>3 DEF LogEntry
    <3>9. ~foreign => basis \in {old.basis, Never} /\ basis \in {snap[c], Never}
      BY <1>0, <3>4, <3>7 DEF AgeBasis, LogEntry, DataInv, AgeInv
    <3>10. foreign => basis = now
      BY <3>4, <3>6, <3>7 DEF AgeBasis
    <3>11. LogEntry(row, snap[c], foreign) =
               [open |-> TRUE, checked |-> now, status |-> IF foreign THEN "pending" ELSE "error",
                data |-> snap[c], basis |-> basis, foreign |-> foreign]
      BY <3>4, <3>7 DEF LogEntry
    <3> HIDE DEF row, foreign, old, basis
    <3>12. Log' = [Log EXCEPT ![c] = LogEntry(row, snap[c], foreign)]
      <4> DEFINE taken == snap[c]
      <4>1. /\ db' = [db EXCEPT ![c] = row] /\ snap' = [snap EXCEPT ![c] = taken]
            /\ mixed' = IF foreign THEN mixed \cup {c} ELSE mixed \ {c}
            /\ foreign \in BOOLEAN /\ TypeOK
        BY <1>0, <3>5, <3>8
      <4> HIDE DEF taken
      <4>2. Log' = [Log EXCEPT ![c] = LogEntry(row, taken, foreign)]
        BY <4>1, OneRowOneEntry, Zenon
      <4>3. QED
        BY <4>2 DEF taken
    <3>13. CASE foreign
      <4>1. Promise!Stray(c)
        BY <3>3, <3>5, <3>6, <3>10, <3>11, <3>12, <3>13
        DEF Promise!Stray, Promise!Enter, Promise!Never, Never
      <4>2. QED
        BY <4>1 DEF Promise!Next
    <3>14. CASE ~foreign
      <4>1. foreign = FALSE
        BY <3>8, <3>14
      <4>2. basis \in {Log[c].basis, Promise!Never} \cap {Log[c].data, Promise!Never}
        BY <3>3, <3>8, <3>9, <3>14 DEF Promise!Never, Never
      <4>3. Promise!Fail(c)
        BY <3>3, <3>5, <3>8, <3>11, <3>12, <4>1, <4>2 DEF Promise!Fail, Promise!Enter
      <4>4. QED
        BY <4>3 DEF Promise!Next
    <3>15. QED
      BY <3>13, <3>14
  <2>6. QED
    BY <1>6, <2>1, <2>3, <2>4 DEF Scan
<1>7. ASSUME NEW m \in Requester, Answer(m) PROVE UNCHANGED Promise!vars
  BY <1>2, <1>7 DEF Answer, TakeForced, GiveUp
<1>8. ASSUME NEW m \in Requester, NEW c \in Customer, RequestCheck(m, c)
      PROVE  UNCHANGED Promise!vars
  BY <1>2, <1>8 DEF RequestCheck
<1>9. ASSUME NEW c \in Customer, NEW active \in BOOLEAN, NEW slot \in Minutes,
             CreateViaApi(c, active, slot) \/ \E m \in Requester : CreateInUI(m, c, active, slot)
      PROVE  Promise!Next
  <2> DEFINE row == NewRow(active, slot)
  <2>1. db' = [db EXCEPT ![c] = row] /\ ~db[c].present /\ now' = now
    BY <1>9 DEF CreateViaApi, CreateInUI, WriteRow
  <2>9. mixed' = mixed \ {c}
    BY <1>0, <1>9, <2>1 DEF CreateViaApi, CreateInUI, LoadInv
  <2>2. snap' = [snap EXCEPT ![c] = Never]
    <3>1. snap' = snap
      BY <1>9 DEF CreateViaApi, CreateInUI
    <3>2. snap[c] = Never
      BY <1>0, <2>1 DEF PresenceInv, GoneIsEmpty
    <3>3. QED
      BY <1>0, <3>1, <3>2 DEF TypeOK
  <2>3. /\ row.present /\ row.lastCheck = Never /\ row.lastSuccess = Never
        /\ row.status = "pending"
    BY DEF NewRow, AbsentRow
  <2> HIDE DEF row
  <2>4. LogEntry(row, Never, FALSE) = Promise!Blank(TRUE)
    BY <2>3 DEF LogEntry, AgeBasis, Promise!Blank, Promise!Never, Never
  <2>5. Log' = [Log EXCEPT ![c] = LogEntry(row, Never, FALSE)]
    BY <1>0, <2>1, <2>2, <2>9, OneRowOneEntry
  <2>6. Log' = [Log EXCEPT ![c] = Promise!Blank(TRUE)]
    BY <2>4, <2>5
  <2>7. ~Log[c].open
    BY <2>1 DEF Log, LogEntry
  <2>8. QED
    BY <2>1, <2>6, <2>7 DEF Promise!Next, Promise!Open, Promise!Enter
<1>10. ASSUME NEW c \in Customer, SetActive(c) PROVE UNCHANGED Promise!vars
  <2>1. /\ db' = [db EXCEPT ![c] = [db[c] EXCEPT !.active = ~db[c].active]]
        /\ UNCHANGED <<now, snap, mixed>>
    BY <1>10 DEF SetActive, WriteRow
  <2>2. \A k \in Customer : db'[k] \in Row /\ /\ db'[k].present = db[k].present
                                             /\ db'[k].lastCheck = db[k].lastCheck
                                             /\ db'[k].lastSuccess = db[k].lastSuccess
                                             /\ db'[k].status = db[k].status
    BY <1>0, <2>1 DEF TypeOK, Row
  <2>3. db' \in [Customer -> Row]
    BY <1>0, <2>1, <2>2 DEF TypeOK
  <2>4. QED
    BY <1>3, <2>1, <2>2, <2>3
<1>11. ASSUME NEW c \in Customer, Delete(c) PROVE Promise!Next
  <2>1. /\ db[c].present
        /\ db' = [db EXCEPT ![c] = AbsentRow]
        /\ snap' = [snap EXCEPT ![c] = Never]
        /\ now' = now /\ mixed' = mixed \ {c}
    BY <1>11 DEF Delete, WriteRow, Orphan
  <2>2. LogEntry(AbsentRow, Never, FALSE) = Promise!Blank(FALSE)
    BY DEF LogEntry, AgeBasis, AbsentRow, Promise!Blank, Promise!Never, Never
  <2>3. Log' = [Log EXCEPT ![c] = Promise!Blank(FALSE)]
    <3>1. Log' = [Log EXCEPT ![c] = LogEntry(AbsentRow, Never, FALSE)]
      BY <1>0, <2>1, OneRowOneEntry
    <3>2. QED
      BY <2>2, <3>1
  <2>4. Log[c].open
    BY <2>1 DEF Log, LogEntry
  <2>5. QED
    BY <2>1, <2>3, <2>4 DEF Promise!Next, Promise!Close, Promise!Enter
<1>12. ASSUME NEW slots \in [Customer -> Minutes], Redistribute(slots)
       PROVE  UNCHANGED Promise!vars
  <2>1. /\ db' = [c \in Customer |->
                    IF db[c].present THEN [db[c] EXCEPT !.slot = slots[c]] ELSE db[c]]
        /\ UNCHANGED <<now, snap, mixed>>
    BY <1>12 DEF Redistribute
  <2>2. \A k \in Customer : db'[k] \in Row /\ /\ db'[k].present = db[k].present
                                             /\ db'[k].lastCheck = db[k].lastCheck
                                             /\ db'[k].lastSuccess = db[k].lastSuccess
                                             /\ db'[k].status = db[k].status
    BY <1>0, <2>1 DEF TypeOK, Row
  <2>3. db' \in [Customer -> Row]
    BY <2>1, <2>2
  <2>4. QED
    BY <1>3, <2>1, <2>2, <2>3
<1>13. CASE Crash \/ Restart
  BY <1>2, <1>13 DEF Crash, Restart
<1>14. CASE UNCHANGED vars
  BY <1>2, <1>14 DEF vars, data
<1>15. QED
  BY <1>4, <1>5, <1>6, <1>7, <1>8, <1>9, <1>10, <1>11, <1>12, <1>13, <1>14
     DEF Next, Lifecycle

\* The portal implements the promise of CheckLog: whatever the schedule, the
\* buttons, the lifecycle, crashes and restarts do, a sensor sees a log in
\* which every check is one atomic entry.
THEOREM PortalKeepsPromise == Spec => KeepsPromise
<1>1. Init => Promise!Init
  BY PromiseInit
<1>2. IInv /\ [Next]_vars => [Promise!Next]_(Promise!vars)
  BY PromiseNext
<1>3. QED
  BY <1>1, <1>2, InductiveInvariant, PTL DEF Spec, KeepsPromise, Promise!Spec

\* What the promise is worth, whoever keeps it: ages are honest and nothing that
\* is told lies ahead of the clock ...
PromiseInv ==
    /\ now \in Nat
    /\ Log \in [Customer -> Promise!Entry]
    /\ \A c \in Customer : Promise!Honest(Log[c]) /\ Promise!Past(Log[c])

\* ... and as long as the customer exists neither the last attempt nor the data
\* are ever replaced by older ones.
NothingGetsOlder ==
    \A c \in Customer : Log[c].open /\ Log'[c].open =>
        Log[c].checked <= Log'[c].checked /\ Log[c].data <= Log'[c].data

LEMMA PromiseStep ==
    ASSUME PromiseInv, [Promise!Next]_(Promise!vars)
    PROVE  PromiseInv' /\ NothingGetsOlder
<1> USE DEF PromiseInv, NothingGetsOlder, Promise!Honest, Promise!Past
<1>0. \A c \in Customer : /\ Log[c] \in Promise!Entry
                           /\ Log[c].checked \in Int /\ Log[c].data \in Int
  BY DEF Promise!Entry, Promise!Moment, Promise!Never
<1>1. CASE Log' = Log /\ now' \in {now, now + 1}
  BY <1>0, <1>1
\* One entry is replaced by one that is honest and of this moment at most.
<1>2. ASSUME NEW c \in Customer, NEW entry \in Promise!Entry,
             Log' = [Log EXCEPT ![c] = entry], now' = now,
             Promise!Honest(entry), Promise!Past(entry),
             Log[c].open /\ entry.open =>
                 Log[c].checked <= entry.checked /\ Log[c].data <= entry.data
      PROVE  PromiseInv' /\ NothingGetsOlder
  <2>1. \A k \in Customer : Log'[k] = IF k = c THEN entry ELSE Log[k]
    BY <1>2
  <2>2. Log' \in [Customer -> Promise!Entry]
    BY <1>2
  <2>3. QED
    BY <1>0, <1>2, <2>1, <2>2
<1>3. ASSUME NEW c \in Customer, Promise!Open(c) \/ Promise!Close(c)
      PROVE  PromiseInv' /\ NothingGetsOlder
  <2>1. PICK open \in BOOLEAN : /\ Log' = [Log EXCEPT ![c] = Promise!Blank(open)] /\ now' = now
                                /\ ~(Log[c].open /\ open)
    BY <1>3 DEF Promise!Open, Promise!Close, Promise!Enter
  <2>2. /\ Promise!Blank(open) \in Promise!Entry /\ Promise!Blank(open).open = open
        /\ Promise!Honest(Promise!Blank(open)) /\ Promise!Past(Promise!Blank(open))
    BY DEF Promise!Blank, Promise!Entry, Promise!Moment, Promise!Never
  <2>3. QED
    BY <1>2, <2>1, <2>2
<1>4. ASSUME NEW c \in Customer, Promise!Succeed(c)
      PROVE  PromiseInv' /\ NothingGetsOlder
  <2> DEFINE entry == [open |-> TRUE, checked |-> now, status |-> "ok",
                       data |-> now, basis |-> now, foreign |-> FALSE]
  <2>1. Log' = [Log EXCEPT ![c] = entry] /\ now' = now
    BY <1>4 DEF Promise!Succeed, Promise!Enter
  <2>2. entry \in Promise!Entry /\ Promise!Honest(entry) /\ Promise!Past(entry)
    BY DEF Promise!Entry, Promise!Moment
  <2>3. Log[c].checked <= entry.checked /\ Log[c].data <= entry.data
    BY <1>0
  <2> HIDE DEF entry
  <2>4. QED
    BY <1>2, <2>1, <2>2, <2>3
<1>5. ASSUME NEW c \in Customer, Promise!Fail(c)
      PROVE  PromiseInv' /\ NothingGetsOlder
  <2>1. PICK basis \in {Log[c].basis, Promise!Never} \cap {Log[c].data, Promise!Never} :
            /\ Log' = [Log EXCEPT ![c] = [open |-> TRUE, checked |-> now, status |-> "error",
                                           data |-> Log[c].data, basis |-> basis,
                                           foreign |-> FALSE]]
            /\ now' = now
    BY <1>5 DEF Promise!Fail, Promise!Enter
  <2> DEFINE entry == [open |-> TRUE, checked |-> now, status |-> "error",
                       data |-> Log[c].data, basis |-> basis, foreign |-> FALSE]
  <2>2. entry \in Promise!Entry /\ Promise!Honest(entry) /\ Promise!Past(entry)
    BY <1>0, <2>1 DEF Promise!Entry, Promise!Moment, Promise!Never
  <2>3. Log[c].checked <= entry.checked /\ Log[c].data <= entry.data
    BY <1>0
  <2>4. Log' = [Log EXCEPT ![c] = entry] /\ now' = now
    BY <2>1
  <2> HIDE DEF entry
  <2>5. QED
    BY <1>2, <2>2, <2>3, <2>4
<1>6. ASSUME NEW c \in Customer, Promise!Stray(c)
      PROVE  PromiseInv' /\ NothingGetsOlder
  <2>1. PICK taken \in {now, Promise!Never} :
            /\ Log' = [Log EXCEPT ![c] = [open |-> TRUE, checked |-> now, status |-> "pending",
                                           data |-> taken, basis |-> now, foreign |-> TRUE]]
            /\ now' = now
    BY <1>6 DEF Promise!Stray, Promise!Enter
  <2> DEFINE entry == [open |-> TRUE, checked |-> now, status |-> "pending",
                       data |-> taken, basis |-> now, foreign |-> TRUE]
  <2>2. entry \in Promise!Entry /\ Promise!Honest(entry) /\ Promise!Past(entry)
    BY <1>0, <2>1 DEF Promise!Entry, Promise!Moment, Promise!Never
  <2>3. Log[c].checked = Promise!Never /\ Log[c].data = Promise!Never
    BY <1>6 DEF Promise!Stray, Promise!Blank
  <2>4. Log[c].checked <= entry.checked /\ Log[c].data <= entry.data
    BY <2>1, <2>3 DEF Promise!Never
  <2>5. Log' = [Log EXCEPT ![c] = entry] /\ now' = now
    BY <2>1
  <2> HIDE DEF entry
  <2>6. QED
    BY <1>2, <2>2, <2>4, <2>5
<1>7. QED
  BY <1>1, <1>3, <1>4, <1>5, <1>6 DEF Promise!Next, Promise!Pass, Promise!vars

\* The promise alone, without the program, gives the age a sensor can rely on and
\* keeps every attempt and every snapshot from being followed by an older one.
THEOREM PromiseIsEnough == KeepsPromise => []AgeOfData /\ [][NothingGetsOlder]_(Promise!vars)
<1>1. Promise!Init => PromiseInv
  BY DEF Promise!Init, PromiseInv
<1>2. PromiseInv /\ [Promise!Next]_(Promise!vars) => PromiseInv' /\ NothingGetsOlder
  BY PromiseStep
<1>3. PromiseInv => AgeOfData
  BY DEF PromiseInv, Promise!Honest, Promise!Never, Log, LogEntry, AgeOfData, Never
<1>4. QED
  BY <1>1, <1>2, <1>3, PTL DEF KeepsPromise, Promise!Spec

\* So no check, however it is cut short or overtaken, puts older data or an older
\* attempt in the place of newer ones.
THEOREM DataMoveForward == Spec => [][NothingGetsOlder]_(Promise!vars)
  BY PromiseIsEnough, PortalKeepsPromise, PTL

-------------------------------------------------------------------------------
(* Polls (SensorPoll): the age a sensor is told never understates the age of its
   data, on top of the invariant above *)

PollState == [step: {"none", "row", "answered"}, customer: Customer \cup {Nobody},
              basis: Moment, data: Moment]

\* Between its two reads a poll holds a moment that the snapshot can only
\* move beyond.
PollInv ==
    /\ poll \in PollState
    /\ poll.basis <= now
    /\ poll.step = "row" =>
          /\ poll.customer \in Customer
          /\ poll.basis # Never /\ snap[poll.customer] # Never => poll.basis <= snap[poll.customer]
    /\ AgeNeverUnderstates

\* A step of the portal replaces a snapshot by one of this moment or by none,
\* and the clock does not go back.
LEMMA SnapshotsMoveOn ==
    ASSUME TypeOK, LockInv, [Next]_vars
    PROVE  /\ now' >= now
           /\ \A c \in Customer : snap'[c] \in {snap[c], now, Never}
<1>1. now \in Nat /\ snap \in [Customer -> Moment]
  BY DEF TypeOK
<1>2. CASE snap' = snap /\ now' \in {now, now + 1}
  BY <1>1, <1>2
<1>3. ASSUME NEW t \in Thread, Scan(t)
      PROVE  /\ now' = now
             /\ \A c \in Customer : snap'[c] \in {snap[c], now, Never}
  <2>1. CASE BeginScan(t) \/ FlushFails(t) \/ CommitFails(t)
    BY <2>1 DEF BeginScan, FlushFails, CommitFails, data
  <2>2. CASE ScanSucceeds(t)
    BY <1>1, <2>2 DEF ScanSucceeds, Store
  <2>3. CASE ScanFails(t)
    BY <1>1, <2>3 DEF ScanFails, Store
  <2>4. QED
    BY <1>3, <2>1, <2>2, <2>3 DEF Scan
<1>4. CASE \E c \in Customer : Delete(c)
  BY <1>1, <1>4 DEF Delete
<1>5. CASE UNCHANGED vars \/ Crash \/ Restart \/ Clock \/ Schedule
  BY <1>2, <1>5 DEF vars, data, Crash, Restart, Clock, Schedule, WakeUp, TakeDue, ListDone
<1>6. CASE \E m \in Requester : Answer(m) \/ \E c \in Customer : RequestCheck(m, c)
  BY <1>2, <1>6 DEF Answer, TakeForced, GiveUp, RequestCheck, data
<1>7. CASE Lifecycle
  BY <1>2, <1>4, <1>7 DEF Lifecycle, CreateViaApi, CreateInUI, SetActive, Redistribute
<1>8. QED
  BY <1>1, <1>3, <1>5, <1>6, <1>7 DEF Next

LEMMA PollInvStep == IInv /\ PollInv /\ [PollNext]_pollVars => PollInv'
<1> SUFFICES ASSUME IInv, PollInv, [PollNext]_pollVars PROVE PollInv'
  OBVIOUS
<1>1. /\ TypeOK /\ now \in Nat /\ snap \in [Customer -> Moment] /\ poll \in PollState
      /\ Nobody \notin Customer
  BY ThreadAssumption DEF IInv, TypeOK, PollInv
<1>2. CASE Next /\ PollSurvives
  <2>1. now' >= now /\ \A c \in Customer : snap'[c] \in {snap[c], now, Never}
    BY <1>2, SnapshotsMoveOn DEF IInv
  <2>2. now' \in Nat
    BY <1>1, <1>2, NextTyped DEF IInv, TypeOK
  <2>3. CASE poll' = poll
    <3>1. AgeNeverUnderstates'
      BY <2>3 DEF PollInv, AgeNeverUnderstates
    <3>2. poll.basis \in Moment /\ poll.basis <= now'
      BY <1>1, <2>1, <2>2 DEF PollInv, PollState, Moment, Never
    <3>3. ASSUME poll.step = "row", poll.basis # Never, snap'[poll.customer] # Never
          PROVE  poll.basis <= snap'[poll.customer]
      BY <1>1, <2>1, <3>2, <3>3 DEF PollInv, Moment, Never
    <3>4. QED
      BY <2>3, <3>1, <3>2, <3>3 DEF PollInv, PollState
  <2>4. CASE poll' = NoPoll
    BY <2>2, <2>4 DEF PollInv, PollState, NoPoll, AgeNeverUnderstates, Moment, Never
  <2>5. QED
    BY <1>2, <2>3, <2>4 DEF PollSurvives
<1>3. ASSUME NEW c \in Customer, ReadCustomer(c) PROVE PollInv'
  <2>1. /\ poll' = [step |-> "row", customer |-> c, basis |-> AgeBasis(db[c]), data |-> Never]
        /\ now' = now /\ snap' = snap
    BY <1>3 DEF ReadCustomer, vars
  <2>2. AgeBasis(db[c]) # Never =>
            /\ snap[c] = AgeBasis(db[c]) \/ snap[c] = Never
            /\ AgeBasis(db[c]) <= now
    BY DEF IInv, DataInv, AgeInv, AgeBasis
  <2>3. AgeBasis(db[c]) \in Moment
    BY <1>1 DEF TypeOK, Row, AgeBasis, Moment
  <2>4. QED
    BY <1>1, <2>1, <2>2, <2>3 DEF PollInv, PollState, AgeNeverUnderstates, Moment, Never
<1>4. CASE ReadSnapshot
  <2>1. /\ poll.step = "row" /\ now' = now /\ snap' = snap
        /\ poll' = [poll EXCEPT !.step = "answered", !.data = snap[poll.customer]]
    BY <1>4 DEF ReadSnapshot, vars
  <2>2. /\ poll.customer \in Customer /\ poll.basis <= now
        /\ poll.basis # Never /\ snap[poll.customer] # Never => poll.basis <= snap[poll.customer]
    BY <2>1 DEF PollInv
  <2>3. /\ poll' \in PollState /\ poll'.step = "answered"
        /\ poll'.basis = poll.basis /\ poll'.data = snap[poll.customer]
    BY <1>1, <2>1, <2>2 DEF PollState
  <2>4. QED
    BY <2>1, <2>2, <2>3 DEF PollInv, AgeNeverUnderstates
<1>5. CASE UNCHANGED pollVars
  BY <1>5 DEF pollVars, vars, PollInv, AgeNeverUnderstates
<1>6. QED
  BY <1>2, <1>3, <1>4, <1>5 DEF PollNext

LEMMA PollIsSchedule == PollSpec => Spec
<1>1. PollInit => Init
  BY DEF PollInit
<1>2. [PollNext]_pollVars => [Next]_vars
  BY DEF PollNext, pollVars, ReadCustomer, ReadSnapshot
<1>3. QED
  BY <1>1, <1>2, PTL DEF PollSpec, Spec

LEMMA PollInductive == PollSpec => [](IInv /\ PollInv)
<1>1. PollInit => PollInv
  <2>1. PollInit => now \in Nat
    BY TimeAssumption DEF PollInit, Init
  <2>2. QED
    BY <2>1 DEF PollInit, PollInv, PollState, NoPoll, AgeNeverUnderstates, Moment, Never
<1>2. IInv /\ PollInv /\ [PollNext]_pollVars => PollInv'
  BY PollInvStep
<1>3. QED
  BY <1>1, <1>2, PollIsSchedule, InductiveInvariant, PTL DEF PollSpec

\* Types of the schedule and of the poll beside it (views/prtg.py).
THEOREM PollTypeCorrect == PollSpec => []PollTypeOK
<1>1. IInv /\ PollInv => PollTypeOK
  BY DEF IInv, PollInv, PollState, PollTypeOK
<1>2. QED
  BY <1>1, PollInductive, PTL

\* The channel Datenalter never understates, although a poll reads the row and
\* the snapshot one after the other while scans commit (views/prtg.py).
THEOREM AgeIsNeverUnderstated == PollSpec => []AgeNeverUnderstates
<1>1. PollInv => AgeNeverUnderstates
  BY DEF PollInv
<1>2. QED
  BY <1>1, PollInductive, PTL

\* Polls change nothing of it: beside them the schedule keeps all that is proved of it
\* alone (views/prtg.py only reads).
THEOREM PollsOnlyRead ==
    PollSpec => /\ []AgeOfData /\ []HistoryMatchesRow /\ []HistoryTellsData
                /\ NoSecondCheckAfterSlot
                /\ KeepsPromise
  BY PollIsSchedule, AgeIsTrue, HistoryIsCurrent, HistoryIsOfTheData, ChecksNotRepeated,
     PortalKeepsPromise, PTL
===============================================================================
