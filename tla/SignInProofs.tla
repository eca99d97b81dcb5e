----------------------------- MODULE SignInProofs -----------------------------
(***************************************************************************)
(* What the sign-in promises, for any number of requests and browsers, any *)
(* codes and any limit: the lockout engages, a code counts once, and what  *)
(* an administrator resets stays reset unless two changes overtake each    *)
(* other.                                                                  *)
(***************************************************************************)
EXTENDS SignIn, FiniteSetTheorems, TLAPS

Kinds == {"password", "factor", "codes"}

LEMMA IdleIsTask == NewRow \in Row /\ NoCookie \in Cookie /\ Idle \in Task
<1>1. NewRow \in Row
  BY DEF NewRow, Row
<1>2. NoCookie \in Cookie
  BY DEF NoCookie, Cookie
<1>3. QED
  BY <1>1, <1>2 DEF Idle, Task, Steps, Goals

LEMMA CodesTyped ==
    NoCodes \in [there: BOOLEAN, used: SUBSET Code] /\ NewCodes \in [there: BOOLEAN, used: SUBSET Code]
  BY DEF NoCodes, NewCodes

\* A request reads a row of the table and a session of a browser.
LEMMA StartsTyped ==
    ASSUME TypeOK, NEW r \in Request, NEW b \in Browser, NEW step \in Steps, NEW goal \in Goals,
           NEW counter \in Nat, Starts(r, b, step, goal, counter)
    PROVE  task' \in [Request -> Task]
<1>1. cookie[b] \in Cookie /\ row \in Row /\ task \in [Request -> Task]
  BY DEF TypeOK
<1>2. [Idle EXCEPT !.step = step, !.goal = goal, !.from = {b},
                   !.session = cookie[b], !.seen = row, !.counter = counter] \in Task
  BY <1>1, IdleIsTask DEF Task
<1>3. QED
  BY <1>1, <1>2 DEF Starts

LEMMA GoesTyped ==
    ASSUME TypeOK, NEW r \in Request, NEW step \in Steps, Goes(r, step)
    PROVE  task' \in [Request -> Task]
  BY DEF Goes, TypeOK, Task

LEMMA EndsTyped ==
    ASSUME TypeOK, NEW r \in Request, task' = [task EXCEPT ![r] = Idle]
    PROVE  task' \in [Request -> Task]
  BY IdleIsTask DEF TypeOK

LEMMA OvertakesTyped ==
    ASSUME TypeOK, NEW r \in Request, NEW mine \in Task, NEW what \in SUBSET Kinds,
           Overtakes(r, what, mine)
    PROVE  task' \in [Request -> Task]
<1>1. \A q \in Request : [task[q] EXCEPT !.stale = @ \cup what] \in Task
  BY DEF TypeOK, Task, Kinds
<1>2. QED
  BY <1>1 DEF Overtakes, TypeOK

LEMMA AnswersTyped ==
    ASSUME TypeOK, NEW r \in Request, NEW session \in Cookie, Answers(r, session)
    PROVE  cookie' \in [Browser -> Cookie]
  BY DEF Answers, TypeOK

LEMMA RowsTyped ==
    ASSUME TypeOK, NEW r \in Request
    PROVE  task[r] \in Task /\ task[r].session \in Cookie /\ task[r].seen \in Row /\ row \in Row
  BY DEF TypeOK, Task

LEMMA ZeroedTyped ==
    ASSUME TypeOK, NEW seen, Zeroed(seen)
    PROVE  wrong' \in Nat /\ died' \in Nat
  BY DEF Zeroed, TypeOK

LEMMA InitTyped == Init => TypeOK
<1> SUFFICES ASSUME Init PROVE TypeOK
  OBVIOUS
<1>1. row \in Row
  BY IdleIsTask DEF Init, Row
<1>2. QED
  BY <1>1, IdleIsTask, CodesTyped DEF Init, TypeOK

\* A failed attempt, and a right password.
LEMMA FailureTyped ==
    ASSUME TypeOK, NEW r \in Request, Raise(r) \/ Counted(r) \/ Lock(r) \/ PassPassword(r)
    PROVE  TypeOK'
<1>0. task[r] \in Task /\ task[r].session \in Cookie /\ task[r].seen \in Row /\ row \in Row
  BY RowsTyped
<1>1. CASE Raise(r)
  <2>1. task' \in [Request -> Task]
    BY <1>1, GoesTyped DEF Raise, Steps
  <2>2. row' \in Row
    BY <1>0, <1>1 DEF Raise, Raised, Row
  <2>3. QED
    BY <1>1, <2>1, <2>2 DEF Raise, TypeOK, KeepsFactor
<1>2. CASE Counted(r)
  <2>1. task' \in [Request -> Task]
    BY <1>2, GoesTyped, EndsTyped DEF Counted, Steps
  <2>2. cookie' \in [Browser -> Cookie]
    BY <1>0, <1>2, AnswersTyped DEF Counted, TypeOK
  <2>3. QED
    BY <1>2, <2>1, <2>2 DEF Counted, TypeOK, KeepsFactor, KeepsCount
<1>3. CASE Lock(r)
  <2>1. task' \in [Request -> Task] /\ cookie' \in [Browser -> Cookie]
    BY <1>0, <1>3, EndsTyped, AnswersTyped DEF Lock
  <2>2. row' \in Row
    BY <1>0, <1>3 DEF Lock, Row
  <2>3. QED
    BY <1>3, <2>1, <2>2 DEF Lock, TypeOK, KeepsFactor
<1>4. CASE PassPassword(r)
  <2>1. [NoCookie EXCEPT !.pending = TRUE] \in Cookie
    BY DEF NoCookie, Cookie
  <2>2. (IF task[r].seen.outdated THEN {"password"} ELSE {}) \in SUBSET Kinds
    BY DEF Kinds
  <2>3. task' \in [Request -> Task] /\ cookie' \in [Browser -> Cookie]
    BY <1>4, <2>1, <2>2, IdleIsTask, OvertakesTyped, AnswersTyped DEF PassPassword
  <2>4. row' \in Row
    BY <1>0, <1>4 DEF PassPassword, Row, Column
  <2>5. wrong' \in Nat /\ died' \in Nat
    BY <1>4, ZeroedTyped DEF PassPassword
  <2>6. QED
    BY <1>4, <2>3, <2>4, <2>5 DEF PassPassword, TypeOK, KeepsFactor
<1>5. QED
  BY <1>1, <1>2, <1>3, <1>4

\* The requests of a browser, as they begin.
LEMMA StartTyped ==
    ASSUME TypeOK, NEW r \in Request, NEW b \in Browser, NEW right \in BOOLEAN,
           NEW counter \in Nat,
           \/ Login(r, b, right)
           \/ EnterCode(r, b, counter) \/ ConfirmSecret(r, b, counter)
           \/ StepUp(r, b, right, counter)
           \/ EnterWrong(r, b) \/ EnterRecovery(r, b) \/ ChangePassword(r, b)
    PROVE  TypeOK'
<1>1. PICK step \in Steps, goal \in Goals, n \in Nat : Starts(r, b, step, goal, n)
  BY DEF Login, EnterCode, ConfirmSecret, StepUp, EnterWrong, EnterRecovery,
              ChangePassword, Steps, Goals
<1>2. task' \in [Request -> Task]
  BY <1>1, StartsTyped
<1>3. QED
  BY <1>2 DEF Login, EnterCode, ConfirmSecret, StepUp, EnterWrong, EnterRecovery,
              ChangePassword, TypeOK, KeepsFactor, KeepsCount

\* The second factor, until the account is signed in.
LEMMA SecondFactorTyped ==
    ASSUME TypeOK, NEW r \in Request,
           Claim(r) \/ LetIn(r) \/ (\E code \in Code : ReadCodes(r, code)) \/ Spend(r) \/ Complete(r)
    PROVE  TypeOK'
<1>0. task[r] \in Task /\ task[r].session \in Cookie /\ task[r].seen \in Row /\ row \in Row
      /\ task \in [Request -> Task]
  BY RowsTyped DEF TypeOK
<1>1. CASE Claim(r)
  <2>1. task' \in [Request -> Task]
    BY <1>1, GoesTyped DEF Claim, Steps
  <2>2. row' \in Row /\ used' \subseteq Nat
    BY <1>0, <1>1 DEF Claim, Row, Task, TypeOK
  <2>3. QED
    BY <1>1, <2>1, <2>2 DEF Claim, TypeOK, KeepsCount
<1>2. CASE LetIn(r)
  <2>1. [task[r] EXCEPT !.step = "complete", !.seen = row] \in Task
    BY <1>0 DEF Task, Steps
  <2>2. task' \in [Request -> Task]
    BY <1>0, <1>2, <2>1, EndsTyped DEF LetIn
  <2>3. [task[r].session EXCEPT !.reenroll = TRUE] \in Cookie
    BY <1>0 DEF Cookie
  <2>4. cookie' \in [Browser -> Cookie]
    BY <1>2, <2>3, AnswersTyped DEF LetIn, TypeOK
  <2>5. QED
    BY <1>2, <2>2, <2>4 DEF LetIn, TypeOK, KeepsFactor, KeepsCount
<1>3. ASSUME NEW code \in Code, ReadCodes(r, code) PROVE TypeOK'
  <2>1. \A step \in {"spend", "raise"} :
          [task[r] EXCEPT !.step = step, !.code = {code}, !.stale = @ \ {"codes"}] \in Task
    BY <1>0 DEF Task, Steps
  <2>2. [task[r] EXCEPT !.step = IF codes.there /\ code \notin codes.used THEN "spend" ELSE "raise",
                        !.code = {code}, !.stale = @ \ {"codes"}] \in Task
    BY <2>1
  <2>3. task' \in [Request -> Task]
    BY <1>0, <1>3, <2>2 DEF ReadCodes
  <2>4. QED
    BY <1>3, <2>3 DEF ReadCodes, TypeOK, KeepsFactor, KeepsCount
<1>4. CASE Spend(r)
  <2>1. task' \in [Request -> Task]
    BY <1>4, GoesTyped DEF Spend, Steps
  <2>2. codes' \in [there: BOOLEAN, used: SUBSET Code] /\ spent' \subseteq Code
    BY <1>0, <1>4 DEF Spend, Task, TypeOK
  <2>3. QED
    BY <1>4, <2>1, <2>2 DEF Spend, TypeOK, KeepsCount
<1>5. CASE Complete(r)
  <2>1. [task[r].session EXCEPT !.pending = FALSE, !.user = TRUE,
                                !.reenroll = @ \/ task[r].goal = "recovery"] \in Cookie
    BY <1>0 DEF Cookie
  <2>2. task' \in [Request -> Task] /\ cookie' \in [Browser -> Cookie]
    BY <1>5, <2>1, EndsTyped, AnswersTyped DEF Complete
  <2>3. PICK locked \in Unlocked(row.locked, task[r].seen.locked) :
            row' = [row EXCEPT !.failed = Column(@, task[r].seen.failed, 0), !.locked = locked]
    BY <1>5 DEF Complete
  <2>a. row' \in Row
    BY <1>0, <2>3 DEF Row, Column, Unlocked
  <2>4. wrong' \in Nat /\ died' \in Nat
    BY <1>5, ZeroedTyped DEF Complete
  <2>5. QED
    BY <1>5, <2>2, <2>a, <2>4 DEF Complete, TypeOK, KeepsFactor
<1>6. QED
  BY <1>1, <1>2, <1>3, <1>4, <1>5

\* Enrolment and the passwords.
LEMMA ChangeTyped ==
    ASSUME TypeOK, NEW r \in Request,
           Enrol(r) \/ WritePassword(r) \/ ResetPassword(r) \/ ResetTotp(r)
    PROVE  TypeOK'
<1>0. task[r] \in Task /\ task[r].session \in Cookie /\ task[r].seen \in Row /\ row \in Row
  BY RowsTyped
<1>k. {"password"} \in SUBSET Kinds /\ {"factor", "codes"} \in SUBSET Kinds
  BY DEF Kinds
<1>1. CASE Enrol(r)
  <2> DEFINE session == [task[r].session EXCEPT !.reenroll = FALSE,
                                                !.pending = @ /\ task[r].goal = "login"]
             mine == [task[r] EXCEPT !.step = "complete", !.session = session]
  <2>1. session \in Cookie
    BY <1>0 DEF Cookie
  <2>2. mine \in Task
    BY <1>0, <2>1 DEF Task, Steps
  <2> HIDE DEF session, mine
  <2>3. \/ Overtakes(r, {"factor", "codes"}, mine) /\ UNCHANGED cookie
        \/ Overtakes(r, {"factor", "codes"}, Idle) /\ Answers(r, session)
    BY <1>1 DEF Enrol, session, mine
  <2>4. task' \in [Request -> Task] /\ cookie' \in [Browser -> Cookie]
    BY <1>k, <2>1, <2>2, <2>3, IdleIsTask, OvertakesTyped, AnswersTyped DEF TypeOK
  <2>5. row' \in Row /\ used' \subseteq Nat
    BY <1>0, <1>1 DEF Enrol, Enrolled, Column, Row, Task
  <2>6. QED
    BY <1>1, <2>4, <2>5, CodesTyped DEF Enrol, TypeOK, KeepsCount
<1>2. CASE WritePassword(r)
  <2>1. task' \in [Request -> Task] /\ cookie' \in [Browser -> Cookie]
    BY <1>0, <1>k, <1>2, IdleIsTask, OvertakesTyped, AnswersTyped DEF WritePassword
  <2>2. row' \in Row
    BY <1>0, <1>2 DEF WritePassword, Column, Row
  <2>3. QED
    BY <1>2, <2>1, <2>2 DEF WritePassword, TypeOK, KeepsFactor, KeepsCount
<1>3. CASE ResetPassword(r)
  <2>1. task' \in [Request -> Task]
    BY <1>k, <1>3, IdleIsTask, OvertakesTyped DEF ResetPassword
  <2>a. PICK locked \in Unlocked(row.locked, task[r].seen.locked) :
            row' = [row EXCEPT !.password = "issued", !.outdated = FALSE,
                               !.must = Forced(@, task[r].seen.must),
                               !.failed = Column(@, task[r].seen.failed, 0), !.locked = locked]
    BY <1>3 DEF ResetPassword
  <2>2. row' \in Row
    BY <1>0, <2>a DEF Forced, Column, Unlocked, Row
  <2>3. wrong' \in Nat /\ died' \in Nat
    BY <1>3, ZeroedTyped DEF ResetPassword
  <2>4. QED
    BY <1>3, <2>1, <2>2, <2>3 DEF ResetPassword, TypeOK, KeepsFactor
<1>4. CASE ResetTotp(r)
  <2>1. task' \in [Request -> Task]
    BY <1>k, <1>4, IdleIsTask, OvertakesTyped DEF ResetTotp
  <2>2. row' \in Row
    BY <1>0, <1>4 DEF ResetTotp, Column, Row
  <2>3. QED
    BY <1>4, <2>1, <2>2, CodesTyped DEF ResetTotp, Removed, TypeOK, KeepsCount
<1>5. QED
  BY <1>1, <1>2, <1>3, <1>4

LEMMA NextTyped == TypeOK /\ [Next]_vars => TypeOK'
<1> SUFFICES ASSUME TypeOK, [Next]_vars PROVE TypeOK'
  OBVIOUS
<1>1. ASSUME NEW r \in Request, NEW step \in {"reset", "remove"}, Administers(r, step)
      PROVE  TypeOK'
  <2>1. [Idle EXCEPT !.step = step, !.goal = "reset", !.seen = row] \in Task
    BY IdleIsTask DEF Task, TypeOK, Steps, Goals
  <2>2. QED
    BY <1>1, <2>1 DEF Administers, TypeOK, KeepsFactor, KeepsCount
<1>2. ASSUME NEW r \in Request, Abandon(r) PROVE TypeOK'
  <2>1. task' \in [Request -> Task]
    BY <1>2, EndsTyped DEF Abandon
  <2>2. died' \in Nat
    BY <1>2 DEF Abandon, TypeOK
  <2>3. QED
    BY <1>2, <2>1, <2>2 DEF Abandon, TypeOK, KeepsFactor
<1>3. ASSUME NEW b \in Browser, Logout(b) \/ WindowEnds(b) PROVE TypeOK'
  <2>1. /\ [cookie[b] EXCEPT !.pending = FALSE] \in Cookie
        /\ [cookie[b] EXCEPT !.reenroll = FALSE] \in Cookie
    BY DEF TypeOK, Cookie
  <2>2. PICK session \in Cookie : cookie' = [cookie EXCEPT ![b] = session]
    BY <1>3, <2>1, IdleIsTask DEF Logout, WindowEnds
  <2>3. QED
    BY <1>3, <2>2 DEF Logout, WindowEnds, TypeOK, KeepsFactor, KeepsCount
<1>4. CASE LockEnds
  BY <1>4 DEF LockEnds, TypeOK, Row, KeepsFactor, KeepsCount
<1>5. CASE UNCHANGED vars
  BY <1>5 DEF vars, TypeOK
<1>6. Counter \subseteq Nat
  BY SignInAssumption
<1>7. QED
  BY <1>1, <1>2, <1>3, <1>4, <1>5, <1>6, FailureTyped, StartTyped, SecondFactorTyped, ChangeTyped
     DEF Next

\* Type correctness of the account, the cookies and the requests (views/auth.py,
\* views/users.py).
THEOREM TypeCorrect == Spec => []TypeOK
  BY InitTyped, NextTyped, PTL DEF Spec

-------------------------------------------------------------------------------
(* What requests have read *)

\* As long as nobody has overtaken it, a request knows the columns it is going
\* to leave alone if they look right.
UpToDate(q) ==
    /\ task[q].step = "enrol" /\ "factor" \notin task[q].stale => task[q].seen.last <= row.last
    /\ task[q].step = "remove" /\ "factor" \notin task[q].stale => task[q].seen.ready = row.ready
    /\ task[q].step # "idle" /\ "password" \notin task[q].stale =>
          /\ task[q].seen.password = row.password
          /\ task[q].seen.must = row.must
          /\ task[q].seen.outdated = row.outdated

\* Every code taken is behind the counter of the row, every recovery code taken
\* marked in its row, and while the account is open every failure is counted.
Recorded ==
    /\ \A c \in used : c <= row.last
    /\ spent \subseteq codes.used
    /\ row.locked \/ wrong <= row.failed

\* The counter reaches the limit only while somebody is about to lock the account or
\* has died instead.
Limited == row.failed < LoginMax + died + Cardinality(Registering)

IInv == TypeOK /\ Recorded /\ Limited /\ \A q \in Request : UpToDate(q)

\* A step of one request that leaves password and factor of the row alone.
LEMMA OwnStep ==
    ASSUME TypeOK, TypeOK', \A q \in Request : UpToDate(q), NEW r \in Request, NEW t,
           task' = [task EXCEPT ![r] = t],
           \/ t.step = "idle"
           \/ t.seen = row /\ row' = row
           \/ /\ t.step \notin {"idle", "enrol", "remove"} /\ task[r].step # "idle"
              /\ t.seen = task[r].seen /\ ("password" \in t.stale <=> "password" \in task[r].stale),
           row'.last >= row.last, row'.ready = row.ready, row'.password = row.password,
           row'.must = row.must, row'.outdated = row.outdated
    PROVE  \A q \in Request : UpToDate(q)'
<1>1. task'[r] = t /\ \A q \in Request \ {r} : task'[q] = task[q]
  BY DEF TypeOK
<1>2. /\ row.last \in Nat /\ row'.last \in Nat
      /\ \A q \in Request : task[q].seen.last \in Nat
  BY RowsTyped DEF Row, TypeOK
<1>3. ASSUME NEW q \in Request \ {r} PROVE UpToDate(q)'
  BY <1>1, <1>2, <1>3 DEF UpToDate
<1>4. UpToDate(r)'
  BY <1>1, <1>2 DEF UpToDate
<1>5. QED
  BY <1>3, <1>4

\* A step that changes password or factor and tells the others.
LEMMA OvertakingStep ==
    ASSUME TypeOK, TypeOK', \A q \in Request : UpToDate(q), NEW r \in Request, NEW mine, NEW what,
           Overtakes(r, what, mine),
           \/ mine.step = "idle"
           \/ /\ mine.step \notin {"enrol", "remove"}
              /\ mine.seen = task[r].seen /\ mine.stale = task[r].stale /\ task[r].step # "idle"
              /\ "password" \notin what,
           "factor" \notin what => row'.last >= row.last /\ row'.ready = row.ready,
           "password" \notin what => /\ row'.password = row.password /\ row'.must = row.must
                                     /\ row'.outdated = row.outdated
    PROVE  \A q \in Request : UpToDate(q)'
<1>1. /\ task'[r] = mine
      /\ \A q \in Request \ {r} : task'[q] = IF task[q].step = "idle" THEN task[q]
                                            ELSE [task[q] EXCEPT !.stale = @ \cup what]
  BY DEF Overtakes
<1>2. /\ row.last \in Nat /\ row'.last \in Nat
      /\ \A q \in Request : task[q] \in Task /\ task[q].seen.last \in Nat
  BY RowsTyped DEF Row, TypeOK
<1>3. ASSUME NEW q \in Request \ {r} PROVE UpToDate(q)'
  <2>1. /\ task'[q].step = task[q].step /\ task'[q].seen = task[q].seen
        /\ task[q].step # "idle" => task'[q].stale = task[q].stale \cup what
    BY <1>1, <1>2, <1>3 DEF Task
  <2>2. QED
    BY <1>1, <1>2, <1>3, <2>1 DEF UpToDate
<1>4. UpToDate(r)'
  BY <1>1, <1>2 DEF UpToDate
<1>5. QED
  BY <1>3, <1>4

\* A request reads the account and has changed nothing yet.
Begins(r) ==
    \/ \E b \in Browser : \/ \E right \in BOOLEAN : Login(r, b, right)
                          \/ \E counter \in Counter :
                                \/ EnterCode(r, b, counter) \/ ConfirmSecret(r, b, counter)
                                \/ \E right \in BOOLEAN : StepUp(r, b, right, counter)
                          \/ EnterWrong(r, b) \/ EnterRecovery(r, b) \/ ChangePassword(r, b)
    \/ Administers(r, "reset") \/ Administers(r, "remove")

\* A request that begins has read the row as it is.
LEMMA StartReads ==
    ASSUME TypeOK, NEW r \in Request,
           Begins(r)
    PROVE  /\ task[r].step = "idle"
           /\ \E t : /\ task' = [task EXCEPT ![r] = t]
                     /\ t.seen = row
                     /\ t.step \in Steps \ {"idle", "raised", "lock", "claimed", "complete"}
           /\ UNCHANGED <<row, codes, used, spent, wrong, died>>
<1>1. ASSUME NEW b \in Browser, NEW step, NEW goal, NEW n, Starts(r, b, step, goal, n)
      PROVE  /\ task[r].step = "idle"
             /\ \E t : /\ task' = [task EXCEPT ![r] = t]
                       /\ t.seen = row /\ t.step = step
  <2> DEFINE t == [Idle EXCEPT !.step = step, !.goal = goal, !.from = {b},
                               !.session = cookie[b], !.seen = row, !.counter = n]
  <2>1. t.seen = row /\ t.step = step
    BY DEF Idle
  <2>2. QED
    BY <1>1, <2>1 DEF Starts
<1>2. ASSUME NEW step, Administers(r, step)
      PROVE  /\ task[r].step = "idle"
             /\ \E t : /\ task' = [task EXCEPT ![r] = t]
                       /\ t.seen = row /\ t.step = step
  <2> DEFINE t == [Idle EXCEPT !.step = step, !.goal = "reset", !.seen = row]
  <2>1. t.seen = row /\ t.step = step
    BY DEF Idle
  <2>2. QED
    BY <1>2, <2>1 DEF Administers
<1>3. UNCHANGED <<row, codes, used, spent, wrong, died>>
  BY DEF Login, EnterCode, ConfirmSecret, StepUp, EnterWrong, EnterRecovery, ChangePassword,
         Administers, KeepsFactor, KeepsCount, Begins
<1>4. CASE Administers(r, "reset") \/ Administers(r, "remove")
  BY <1>2, <1>3, <1>4 DEF Steps
<1>5. ASSUME NEW b \in Browser,
             \/ \E right \in BOOLEAN : Login(r, b, right)
             \/ \E counter \in Counter :
                   \/ EnterCode(r, b, counter) \/ ConfirmSecret(r, b, counter)
                   \/ \E right \in BOOLEAN : StepUp(r, b, right, counter)
             \/ EnterWrong(r, b) \/ EnterRecovery(r, b) \/ ChangePassword(r, b)
      PROVE  \E step \in Steps \ {"idle", "raised", "lock", "claimed", "complete"} :
                \E goal, n : Starts(r, b, step, goal, n)
  BY <1>5 DEF Login, EnterCode, ConfirmSecret, StepUp, EnterWrong, EnterRecovery, ChangePassword, Steps
<1>6. QED
  BY <1>1, <1>3, <1>4, <1>5 DEF Begins

\* What the last commit of a sign-in and a reset of the password leave of the row.
LEMMA CompleteWrites ==
    ASSUME TypeOK, NEW r \in Request, Complete(r)
    PROVE  /\ row'.last = row.last /\ row'.ready = row.ready /\ row'.password = row.password
           /\ row'.must = row.must /\ row'.outdated = row.outdated
           /\ row'.failed = Column(row.failed, task[r].seen.failed, 0)
<1>1. PICK locked : row' = [row EXCEPT !.failed = Column(@, task[r].seen.failed, 0),
                                       !.locked = locked]
  BY DEF Complete
<1>2. QED
  BY <1>1, RowsTyped DEF Row

LEMMA ResetWrites ==
    ASSUME TypeOK, NEW r \in Request, ResetPassword(r)
    PROVE  /\ row'.last = row.last /\ row'.ready = row.ready
           /\ row'.must = Forced(row.must, task[r].seen.must)
           /\ row'.failed = Column(row.failed, task[r].seen.failed, 0)
<1>1. PICK locked : row' = [row EXCEPT !.password = "issued", !.outdated = FALSE,
                                       !.must = Forced(@, task[r].seen.must),
                                       !.failed = Column(@, task[r].seen.failed, 0),
                                       !.locked = locked]
  BY DEF ResetPassword
<1>2. QED
  BY <1>1, RowsTyped DEF Row

LEMMA UpToDateStep ==
    ASSUME TypeOK, TypeOK', \A q \in Request : UpToDate(q), Next
    PROVE  \A q \in Request : UpToDate(q)'
<1>0. /\ row.last \in Nat /\ row'.last \in Nat /\ row.ready \in BOOLEAN
      /\ \A q \in Request : task[q] \in Task /\ task[q].seen \in Row
      /\ row \in Row /\ Idle.step = "idle" /\ task \in [Request -> Task]
  BY RowsTyped DEF Row, TypeOK, Idle
<1>1. ASSUME NEW r \in Request, Begins(r) PROVE \A q \in Request : UpToDate(q)'
  BY <1>0, <1>1, StartReads, OwnStep
<1>2. ASSUME NEW r \in Request, Raise(r) \/ Claim(r) \/ Spend(r)
      PROVE  \A q \in Request : UpToDate(q)'
  <2>1. PICK step \in {"raised", "claimed", "raise", "complete"} :
            task[r].step # "idle" /\ task' = [task EXCEPT ![r].step = step]
    BY <1>2 DEF Raise, Claim, Spend, Goes
  <2> DEFINE t == [task[r] EXCEPT !.step = step]
  <2>2. /\ task' = [task EXCEPT ![r] = t]
        /\ t.step = step /\ t.seen = task[r].seen /\ t.stale = task[r].stale
    BY <1>0, <2>1 DEF Task
  <2>3. /\ row'.last >= row.last /\ row'.ready = row.ready /\ row'.password = row.password
        /\ row'.must = row.must /\ row'.outdated = row.outdated
    BY <1>0, <1>2 DEF Raise, Claim, Claims, Spend, Row, Task
  <2>4. QED
    BY <2>1, <2>2, <2>3, OwnStep
<1>3. ASSUME NEW r \in Request,
             \/ Counted(r) \/ Lock(r) \/ LetIn(r) \/ Complete(r) \/ Abandon(r)
             \/ \E code \in Code : ReadCodes(r, code)
      PROVE  \A q \in Request : UpToDate(q)'
  <2>1. /\ row'.last >= row.last /\ row'.ready = row.ready /\ row'.password = row.password
        /\ row'.must = row.must /\ row'.outdated = row.outdated
    <3>1. CASE Complete(r)
      BY <1>0, <3>1, CompleteWrites
    <3>2. CASE Lock(r)
      BY <1>0, <3>2 DEF Lock, Row
    <3>3. CASE row' = row
      BY <1>0, <3>3
    <3>4. QED
      BY <1>3, <3>1, <3>2, <3>3 DEF Counted, LetIn, Abandon, ReadCodes
  <2>2. CASE task' = [task EXCEPT ![r] = Idle]
    BY <1>0, <2>1, <2>2, OwnStep
  <2>3. CASE Counted(r) /\ Goes(r, "lock")
    <3> DEFINE t == [task[r] EXCEPT !.step = "lock"]
    <3>1. /\ task' = [task EXCEPT ![r] = t] /\ task[r].step # "idle"
          /\ t.step = "lock" /\ t.seen = task[r].seen /\ t.stale = task[r].stale
      BY <1>0, <2>3 DEF Goes, Counted, Task
    <3>2. QED
      BY <2>1, <3>1, OwnStep
  <2>4. CASE LetIn(r) /\ task[r].goal = "login"
    <3> DEFINE t == [task[r] EXCEPT !.step = "complete", !.seen = row]
    <3>1. CASE task' = [task EXCEPT ![r].step = "complete", ![r].seen = row]
      <4>1. task' = [task EXCEPT ![r] = t] /\ t.seen = row /\ row' = row
        BY <1>0, <2>4, <3>1 DEF LetIn, Task
      <4>2. QED
        BY <2>1, <4>1, OwnStep
    <3>2. QED
      BY <2>2, <2>4, <3>1 DEF LetIn
  <2>5. ASSUME NEW code \in Code, ReadCodes(r, code) PROVE \A q \in Request : UpToDate(q)'
    <3> DEFINE t == [task[r] EXCEPT
                        !.step = IF codes.there /\ code \notin codes.used THEN "spend" ELSE "raise",
                        !.code = {code}, !.stale = @ \ {"codes"}]
    <3>1. /\ t.step \in {"spend", "raise"} /\ t.seen = task[r].seen
          /\ t.stale = task[r].stale \ {"codes"}
      BY <1>0 DEF Task
    <3>2. task' = [task EXCEPT ![r] = t] /\ task[r].step # "idle"
      BY <2>5 DEF ReadCodes
    <3>3. QED
      BY <2>1, <3>1, <3>2, OwnStep
  <2>6. QED
    BY <1>3, <2>2, <2>3, <2>4, <2>5 DEF Counted, Lock, LetIn, Complete, Abandon
<1>4. ASSUME NEW r \in Request, PassPassword(r) PROVE \A q \in Request : UpToDate(q)'
  <2>1. row'.last >= row.last /\ row'.ready = row.ready
    BY <1>0, <1>4 DEF PassPassword, Row
  <2>2. ~task[r].seen.outdated => /\ row'.password = row.password /\ row'.must = row.must
                                  /\ row'.outdated = row.outdated
    BY <1>0, <1>4 DEF PassPassword, Row
  <2> DEFINE what == IF task[r].seen.outdated THEN {"password"} ELSE {}
  <2>3. Overtakes(r, what, Idle)
    BY <1>4 DEF PassPassword
  <2>4. QED
    BY <1>0, <2>1, <2>2, <2>3, OvertakingStep
<1>5. ASSUME NEW r \in Request, Enrol(r) PROVE \A q \in Request : UpToDate(q)'
  <2>1. row'.password = row.password /\ row'.must = row.must /\ row'.outdated = row.outdated
    BY <1>0, <1>5 DEF Enrol, Row
  <2>2. CASE Overtakes(r, {"factor", "codes"}, Idle)
    BY <1>0, <2>1, <2>2, OvertakingStep
  <2> DEFINE session == [task[r].session EXCEPT !.reenroll = FALSE,
                                                !.pending = @ /\ task[r].goal = "login"]
             mine == [task[r] EXCEPT !.step = "complete", !.session = session]
  <2>3. CASE Overtakes(r, {"factor", "codes"}, mine)
    <3>1. mine.step = "complete" /\ mine.seen = task[r].seen /\ mine.stale = task[r].stale
          /\ task[r].step # "idle"
      BY <1>0, <1>5 DEF Enrol, Task
    <3> HIDE DEF mine
    <3>2. QED
      BY <2>1, <2>3, <3>1, OvertakingStep
  <2>4. QED
    BY <1>5, <2>2, <2>3 DEF Enrol
<1>6. ASSUME NEW r \in Request, WritePassword(r) \/ ResetPassword(r)
      PROVE  \A q \in Request : UpToDate(q)'
  <2>1. row'.last >= row.last /\ row'.ready = row.ready
    <3>1. CASE ResetPassword(r)
      BY <1>0, <3>1, ResetWrites
    <3>2. CASE WritePassword(r)
      BY <1>0, <3>2 DEF WritePassword, Row
    <3>3. QED
      BY <1>6, <3>1, <3>2
  <2>2. Overtakes(r, {"password"}, Idle)
    BY <1>6 DEF WritePassword, ResetPassword
  <2>3. QED
    BY <1>0, <2>1, <2>2, OvertakingStep
<1>7. ASSUME NEW r \in Request, ResetTotp(r) PROVE \A q \in Request : UpToDate(q)'
  <2>1. row'.password = row.password /\ row'.must = row.must /\ row'.outdated = row.outdated
    BY <1>0, <1>7 DEF ResetTotp, Row
  <2>2. Overtakes(r, {"factor", "codes"}, Idle)
    BY <1>7 DEF ResetTotp
  <2>3. QED
    BY <1>0, <2>1, <2>2, OvertakingStep
<1>8. CASE \/ \E b \in Browser : Logout(b) \/ WindowEnds(b)
           \/ LockEnds
  <2>1. /\ task' = task /\ row'.last = row.last /\ row'.ready = row.ready
        /\ row'.password = row.password /\ row'.must = row.must /\ row'.outdated = row.outdated
    BY <1>0, <1>8 DEF Logout, WindowEnds, LockEnds, Row
  <2>2. QED
    BY <2>1 DEF UpToDate
<1>9. QED
  BY <1>1, <1>2, <1>3, <1>4, <1>5, <1>6, <1>7, <1>8 DEF Next, Begins

\* Codes taken stay behind the counter, recovery codes taken stay marked.
LEMMA CodesStep ==
    ASSUME TypeOK, TypeOK', \A q \in Request : UpToDate(q), Recorded, Next
    PROVE  (\A c \in used' : c <= row'.last) /\ spent' \subseteq codes'.used
<1>0. /\ row.last \in Nat /\ row'.last \in Nat /\ row \in Row /\ used \subseteq Nat
      /\ \A q \in Request : task[q].counter \in Nat /\ task[q].seen.last \in Nat
      /\ codes \in [there: BOOLEAN, used: SUBSET Code]
  BY RowsTyped DEF Row, Task, TypeOK
<1>1. ASSUME NEW r \in Request, Claim(r)
      PROVE  (\A c \in used' : c <= row'.last) /\ spent' \subseteq codes'.used
  <2>1. CASE row' = row /\ used' = used
    BY <1>1, <2>1 DEF Claim, Recorded
  <2>2. CASE /\ Claims(row.last, task[r].counter)
             /\ row' = [row EXCEPT !.last = task[r].counter]
             /\ used' = IF "factor" \in task[r].stale THEN used ELSE used \cup {task[r].counter}
    <3>1. row'.last = task[r].counter /\ row.last < row'.last
      BY <1>0, <2>2 DEF Claims, Row
    <3>2. \A c \in used' : c \in used \/ c = task[r].counter
      BY <2>2
    <3>3. \A c \in used' : c <= row'.last
      <4> TAKE c \in used'
      <4>1. CASE c \in used
        <5>1. c \in Nat /\ c <= row.last
          BY <1>0, <4>1 DEF Recorded
        <5>2. QED
          BY <1>0, <3>1, <5>1
      <4>2. CASE c = task[r].counter
        BY <1>0, <3>1, <4>2
      <4>3. QED
        BY <3>2, <4>1, <4>2
    <3>4. QED
      BY <1>1, <3>3 DEF Claim, Recorded
  <2>3. QED
    BY <1>1, <2>1, <2>2 DEF Claim
<1>2. ASSUME NEW r \in Request, Spend(r)
      PROVE  (\A c \in used' : c <= row'.last) /\ spent' \subseteq codes'.used
  <2>1. spent' \subseteq codes'.used
    BY <1>0, <1>2 DEF Spend, Recorded
  <2>2. QED
    BY <1>2, <2>1 DEF Spend, Recorded
<1>3. ASSUME NEW r \in Request, Enrol(r)
      PROVE  (\A c \in used' : c <= row'.last) /\ spent' \subseteq codes'.used
  <2>1. row'.last = Enrolled(row.last, task[r].seen.last, task[r].counter)
    BY <1>0, <1>3 DEF Enrol, Row
  <2>2. "factor" \notin task[r].stale => task[r].seen.last <= row.last
    BY <1>3 DEF Enrol, UpToDate
  <2>3. "factor" \notin task[r].stale => task[r].counter <= row'.last
    BY <1>0, <2>1, <2>2 DEF Enrolled, Column
  <2>4. QED
    BY <1>3, <2>3 DEF Enrol
<1>4. ASSUME NEW r \in Request, ResetTotp(r)
      PROVE  (\A c \in used' : c <= row'.last) /\ spent' \subseteq codes'.used
  BY <1>4 DEF ResetTotp
<1>5. CASE KeepsFactor /\ row'.last = row.last
  BY <1>5 DEF KeepsFactor, Recorded
<1>6. ASSUME NEW r \in Request, Begins(r) PROVE KeepsFactor /\ row'.last = row.last
  BY <1>6, StartReads DEF KeepsFactor
<1>7. ASSUME NEW r \in Request, Raise(r) \/ Lock(r) \/ PassPassword(r) \/ WritePassword(r)
      PROVE  KeepsFactor /\ row'.last = row.last
  BY <1>0, <1>7 DEF Raise, Lock, PassPassword, WritePassword, Row
<1>8. ASSUME NEW r \in Request, Complete(r) PROVE KeepsFactor /\ row'.last = row.last
  BY <1>8, CompleteWrites DEF Complete
<1>9. ASSUME NEW r \in Request, ResetPassword(r) PROVE KeepsFactor /\ row'.last = row.last
  BY <1>9, ResetWrites DEF ResetPassword
<1>10. CASE \/ \E r \in Request : Counted(r) \/ LetIn(r) \/ Abandon(r)
            \/ \E r \in Request, code \in Code : ReadCodes(r, code)
            \/ \E b \in Browser : Logout(b) \/ WindowEnds(b)
            \/ LockEnds
  BY <1>0, <1>5, <1>10 DEF Counted, LetIn, Abandon, ReadCodes, Logout, WindowEnds, LockEnds, Row
<1>11. QED
  BY <1>1, <1>2, <1>3, <1>4, <1>5, <1>6, <1>7, <1>8, <1>9, <1>10 DEF Next, Begins

-------------------------------------------------------------------------------
(* Counting failures *)

\* Whether a request registers a failure shows in where it stands.
LEMMA RegisteringSame ==
    ASSUME \A q \in Request : task'[q].step \in {"raised", "lock"} <=> task[q].step \in {"raised", "lock"}
    PROVE  Registering' = Registering
  BY DEF Registering

LEMMA RegisteringFinite == IsFiniteSet(Registering) /\ Cardinality(Registering) \in Nat
  BY SignInAssumption, FS_Subset, FS_CardinalityType DEF Registering

\* What is counted, and how far.
Kept == (row.locked \/ wrong <= row.failed) /\ Limited

LEMMA CountStep ==
    ASSUME TypeOK, TypeOK', Recorded, Limited, Next
    PROVE  Kept'
<1> DEFINE registered == Cardinality(Registering)
<1>0. /\ row \in Row /\ row.failed \in Nat /\ row.failed < LoginMax + died + registered
      /\ row.locked \in BOOLEAN /\ (row.locked \/ wrong <= row.failed)
      /\ row' \in Row /\ row'.failed \in Nat /\ row'.locked \in BOOLEAN
      /\ wrong \in Nat /\ died \in Nat /\ wrong' \in Nat /\ died' \in Nat
      /\ LoginMax \in Nat /\ LoginMax > 0 /\ registered \in Nat /\ Cardinality(Registering') \in Nat
      /\ IsFiniteSet(Registering)
      /\ task \in [Request -> Task] /\ Idle.step = "idle"
      /\ \A q \in Request : task[q] \in Task
  <2>1. IsFiniteSet(Registering') /\ Cardinality(Registering') \in Nat
    BY SignInAssumption, FS_Subset, FS_CardinalityType DEF Registering
  <2>2. QED
    BY <2>1, RegisteringFinite, SignInAssumption DEF TypeOK, Row, Recorded, Limited, Idle
<1> HIDE DEF registered
<1>k. CASE /\ wrong' = wrong /\ died' = died /\ Registering' = Registering
          /\ row'.failed = row.failed /\ row'.locked = row.locked
  BY <1>0, <1>k DEF Kept, Limited, registered
<1>1. ASSUME NEW r \in Request, Raise(r) PROVE Kept'
  <2>1. r \notin Registering /\ Registering' = Registering \cup {r}
    BY <1>0, <1>1 DEF Raise, Goes, Registering, Task
  <2>2. Cardinality(Registering') = registered + 1
    BY <1>0, <2>1, FS_AddElement DEF registered
  <2>3. wrong' = wrong + 1 /\ died' = died /\ row'.failed = row.failed + 1 /\ row'.locked = row.locked
    BY <1>0, <1>1 DEF Raise, Raised, Row
  <2>4. QED
    BY <1>0, <2>2, <2>3 DEF Kept, Limited
<1>2. ASSUME NEW r \in Request, Counted(r) PROVE Kept'
  <2>1. row' = row /\ wrong' = wrong /\ died' = died /\ r \in Registering
    BY <1>2 DEF Counted, KeepsCount, Registering
  <2>2. CASE Goes(r, "lock")
    <3>1. Registering' = Registering
      BY <1>0, <1>2, <2>2 DEF Counted, Goes, Registering, Task
    <3>2. QED
      BY <1>k, <2>1, <3>1
  <2>3. CASE row.failed < LoginMax /\ task' = [task EXCEPT ![r] = Idle]
    BY <1>0, <2>1, <2>3 DEF Kept, Limited
  <2>4. QED
    BY <1>2, <2>2, <2>3 DEF Counted
<1>3. ASSUME NEW r \in Request, Lock(r) PROVE Kept'
  <2>1. died' = 0 /\ row'.failed = 0 /\ row'.locked
    BY <1>0, <1>3 DEF Lock, Row
  <2>2. QED
    BY <1>0, <2>1 DEF Kept, Limited
<1>4. ASSUME NEW r \in Request, Registering' = Registering, Zeroed(task[r].seen),
             row'.failed = Column(row.failed, task[r].seen.failed, 0)
      PROVE  Kept'
  <2>1. CASE task[r].seen.failed = 0
    <3>1. row'.failed = row.failed /\ died' = died
      BY <1>0, <1>4, <2>1 DEF Zeroed, Column
    <3>2. wrong' = 0 \/ (wrong' = wrong /\ row'.locked = row.locked)
      BY <1>4, <2>1 DEF Zeroed
    <3>3. QED
      BY <1>0, <1>4, <3>1, <3>2 DEF Kept, Limited, registered
  <2>2. CASE task[r].seen.failed # 0
    BY <1>0, <1>4, <2>2 DEF Zeroed, Column, Kept, Limited
  <2>3. QED
    BY <2>1, <2>2
<1>5. ASSUME NEW r \in Request, NEW what, Overtakes(r, what, Idle),
             task[r].step \notin {"raised", "lock"}
      PROVE  Registering' = Registering
  <2>1. \A q \in Request : task'[q].step = IF q = r THEN "idle" ELSE task[q].step
    BY <1>0, <1>5 DEF Overtakes, Task
  <2>2. QED
    BY <1>5, <2>1, RegisteringSame
<1>6. ASSUME NEW r \in Request, PassPassword(r) \/ ResetPassword(r)
      PROVE  Kept'
  <2>1. Registering' = Registering
    BY <1>5, <1>6 DEF PassPassword, ResetPassword
  <2>2. row'.failed = Column(row.failed, task[r].seen.failed, 0)
    BY <1>0, <1>6, ResetWrites DEF PassPassword, Row
  <2>3. Zeroed(task[r].seen)
    BY <1>6 DEF PassPassword, ResetPassword
  <2>4. QED
    BY <1>4, <2>1, <2>2, <2>3
<1>7. ASSUME NEW r \in Request, Complete(r) PROVE Kept'
  <2>1. Registering' = Registering
    BY <1>0, <1>7, RegisteringSame DEF Complete
  <2>2. QED
    BY <1>4, <1>7, <2>1, CompleteWrites DEF Complete
<1>8. ASSUME NEW r \in Request, WritePassword(r) \/ ResetTotp(r)
      PROVE  Kept'
  <2>1. Registering' = Registering
    BY <1>5, <1>8 DEF WritePassword, ResetTotp
  <2>2. row'.failed = row.failed /\ row'.locked = row.locked
    BY <1>0, <1>8 DEF WritePassword, ResetTotp, Row
  <2>3. QED
    BY <1>k, <1>8, <2>1, <2>2 DEF WritePassword, ResetTotp, KeepsCount
<1>9. ASSUME NEW r \in Request, Enrol(r) PROVE Kept'
  <2>1. \A q \in Request : task'[q].step = IF q = r THEN task'[r].step ELSE task[q].step
    BY <1>0, <1>9 DEF Enrol, Overtakes, Task
  <2>2. task'[r].step \in {"idle", "complete"}
    <3>1. CASE Overtakes(r, {"factor", "codes"}, Idle)
      BY <1>0, <3>1 DEF Overtakes
    <3> DEFINE session == [task[r].session EXCEPT !.reenroll = FALSE,
                                                  !.pending = @ /\ task[r].goal = "login"]
               mine == [task[r] EXCEPT !.step = "complete", !.session = session]
    <3>2. CASE Overtakes(r, {"factor", "codes"}, mine)
      <4>1. mine.step = "complete"
        BY <1>0 DEF Task
      <4> HIDE DEF mine
      <4>2. QED
        BY <3>2, <4>1 DEF Overtakes
    <3>3. QED
      BY <1>9, <3>1, <3>2 DEF Enrol
  <2>3. Registering' = Registering
    BY <1>9, <2>1, <2>2, RegisteringSame DEF Enrol
  <2>4. row'.failed = row.failed /\ row'.locked = row.locked
    BY <1>0, <1>9 DEF Enrol, Row
  <2>5. QED
    BY <1>k, <1>9, <2>3, <2>4 DEF Enrol, KeepsCount
<1>10. ASSUME NEW r \in Request, Begins(r) PROVE Kept'
  <2>1. Registering' = Registering
    BY <1>0, <1>10, StartReads, RegisteringSame
  <2>2. QED
    BY <1>k, <1>10, <2>1, StartReads
<1>11. ASSUME NEW r \in Request, Claim(r) \/ Spend(r) PROVE Kept'
  <2>1. Registering' = Registering
    BY <1>0, <1>11, RegisteringSame DEF Claim, Spend, Goes, Task
  <2>2. row'.failed = row.failed /\ row'.locked = row.locked
    BY <1>0, <1>11 DEF Claim, Spend, Row
  <2>3. QED
    BY <1>k, <1>11, <2>1, <2>2 DEF Claim, Spend, KeepsCount
<1>12. ASSUME NEW r \in Request, LetIn(r) \/ \E code \in Code : ReadCodes(r, code)
       PROVE  Kept'
  <2>1. /\ task[r].step \in {"claimed", "recover"}
        /\ \A q \in Request \ {r} : task'[q] = task[q]
    BY <1>0, <1>12 DEF LetIn, ReadCodes
  <2>2. task'[r].step \in {"complete", "idle", "spend", "raise"}
    <3>1. CASE LetIn(r)
      BY <1>0, <3>1 DEF LetIn, Task
    <3>2. ASSUME NEW code \in Code, ReadCodes(r, code)
          PROVE  task'[r].step \in {"spend", "raise"}
      BY <1>0, <3>2 DEF ReadCodes, Task
    <3>3. QED
      BY <1>12, <3>1, <3>2
  <2>3. Registering' = Registering
    BY <1>0, <2>1, <2>2, RegisteringSame
  <2>4. QED
    BY <1>k, <1>12, <2>3 DEF LetIn, ReadCodes, KeepsCount
<1>13. ASSUME NEW r \in Request, Abandon(r) PROVE Kept'
  <2>1. row' = row /\ wrong' = wrong /\ task' = [task EXCEPT ![r] = Idle]
    BY <1>13 DEF Abandon
  <2>2. Registering' = Registering \ {r}
    BY <1>0, <2>1 DEF Registering
  <2>3. CASE r \in Registering
    <3>1. Cardinality(Registering') = registered - 1
      BY <1>0, <2>2, <2>3, FS_RemoveElement DEF registered
    <3>2. died' = died + 1
      BY <1>13, <2>3 DEF Abandon
    <3>3. QED
      BY <1>0, <2>1, <3>1, <3>2 DEF Kept, Limited
  <2>4. CASE r \notin Registering
    <3>1. Registering' = Registering /\ died' = died
      BY <1>13, <2>2, <2>4 DEF Abandon
    <3>2. QED
      BY <1>k, <2>1, <3>1
  <2>5. QED
    BY <2>3, <2>4
<1>14. ASSUME NEW b \in Browser, Logout(b) \/ WindowEnds(b) PROVE Kept'
  <2>1. /\ task' = task /\ row'.failed = row.failed /\ row'.locked = row.locked
        /\ wrong' = wrong /\ died' = died
    BY <1>0, <1>14 DEF Logout, WindowEnds, KeepsCount, Row
  <2>2. QED
    BY <1>k, <2>1 DEF Registering
<1>15. CASE LockEnds
  <2>1. task' = task /\ row'.failed = row.failed /\ wrong' = 0 /\ died' = died
    BY <1>0, <1>15 DEF LockEnds, Row
  <2>2. Registering' = Registering
    BY <2>1 DEF Registering
  <2>3. QED
    BY <1>0, <2>1, <2>2 DEF Kept, Limited, registered
<1>16. QED
  BY <1>1, <1>2, <1>3, <1>6, <1>7, <1>8, <1>9, <1>10, <1>11, <1>12, <1>13, <1>14, <1>15
     DEF Next, Begins

-------------------------------------------------------------------------------
(* The invariant, and what follows from it *)

LEMMA IInvInit == Init => IInv
<1> SUFFICES ASSUME Init PROVE IInv
  OBVIOUS
<1>1. Registering = {} /\ \A q \in Request : task[q].step = "idle"
  BY DEF Init, Registering, Idle
<1>2. row.failed = 0
  <2>1. /\ NewRow.failed = 0
        /\ [NewRow EXCEPT !.outdated = TRUE].failed = 0
        /\ [NewRow EXCEPT !.ready = TRUE, !.password = "chosen", !.must = FALSE].failed = 0
    BY DEF NewRow
  <2>2. QED
    BY <2>1 DEF Init
<1>3. Recorded
  BY <1>2 DEF Init, Recorded
<1>4. Limited
  BY <1>1, <1>2, FS_EmptySet, SignInAssumption DEF Init, Limited
<1>5. QED
  BY <1>1, <1>3, <1>4, InitTyped DEF IInv, UpToDate

LEMMA IInvStep == IInv /\ [Next]_vars => IInv'
<1> SUFFICES ASSUME IInv, [Next]_vars PROVE IInv'
  OBVIOUS
<1>1. TypeOK'
  BY NextTyped DEF IInv
<1>2. CASE Next
  BY <1>1, <1>2, UpToDateStep, CodesStep, CountStep DEF IInv, Recorded, Kept
<1>3. CASE UNCHANGED vars
  <2>1. Registering' = Registering /\ \A q \in Request : UpToDate(q)' <=> UpToDate(q)
    BY <1>3 DEF vars, Registering, UpToDate
  <2>2. QED
    BY <1>1, <1>3, <2>1 DEF vars, IInv, Recorded, Limited
<1>4. QED
  BY <1>2, <1>3

\* An account that is not locked has had fewer failures since its counter was zeroed
\* or it was unlocked than configured, short of those somebody is just registering
\* and of those whose request died (_register_failure).
THEOREM LockoutAlwaysEngages == Spec => []LockoutEngages
<1>1. IInv => LockoutEngages
  <2> SUFFICES ASSUME IInv, ~row.locked
               PROVE  wrong < LoginMax + died + Cardinality(Registering)
    BY DEF LockoutEngages
  <2>1. wrong \in Nat /\ row.failed \in Nat /\ died \in Nat
    BY DEF IInv, TypeOK, Row
  <2>2. wrong <= row.failed /\ row.failed < LoginMax + died + Cardinality(Registering)
    BY DEF IInv, Recorded, Limited
  <2>3. QED
    BY <2>1, <2>2, RegisteringFinite, SignInAssumption
<1>2. QED
  BY <1>1, IInvInit, IInvStep, PTL DEF Spec

\* Only its own claim gets a request past a code.
LEMMA OnlyClaimsMove ==
    ASSUME TypeOK, Next, NEW q \in Request, task[q].step \in {"claim", "spend"},
           task'[q].step \notin {task[q].step, "idle"}
    PROVE  Claim(q) \/ Spend(q)
<1>0. /\ task \in [Request -> Task] /\ Idle.step = "idle"
      /\ \A p \in Request : task[p] \in Task
  BY DEF TypeOK, Idle
<1>1. ASSUME NEW r \in Request, r # q, task'[q].step # task[q].step
      PROVE  ~\E t : task' = [task EXCEPT ![r] = t]
  BY <1>0, <1>1
<1>2. ASSUME NEW r \in Request, NEW mine, NEW what, r # q
      PROVE  ~Overtakes(r, what, mine)
  <2> SUFFICES ASSUME Overtakes(r, what, mine) PROVE FALSE
    OBVIOUS
  <2>1. task'[q] = [task[q] EXCEPT !.stale = @ \cup what]
    BY <1>2 DEF Overtakes
  <2>2. QED
    BY <1>0, <2>1 DEF Task
<1>3. ASSUME NEW r \in Request, Begins(r) PROVE FALSE
  BY <1>1, <1>3, StartReads
<1>4. ASSUME NEW r \in Request, r # q,
             \/ Raise(r) \/ Counted(r) \/ Lock(r) \/ Claim(r) \/ LetIn(r) \/ Spend(r) \/ Complete(r)
             \/ Abandon(r) \/ \E code \in Code : ReadCodes(r, code)
      PROVE  FALSE
  <2>1. task'[q] = task[q]
    BY <1>0, <1>4 DEF Raise, Counted, Lock, Claim, LetIn, Spend, Complete, Abandon, ReadCodes, Goes
  <2>2. QED
    BY <2>1
<1>5. ASSUME NEW r \in Request, r # q,
             \/ PassPassword(r) \/ Enrol(r) \/ WritePassword(r) \/ ResetPassword(r) \/ ResetTotp(r)
      PROVE  FALSE
  <2>1. \E what, mine : Overtakes(r, what, mine)
    BY <1>5 DEF PassPassword, Enrol, WritePassword, ResetPassword, ResetTotp
  <2>2. QED
    BY <1>2, <1>5, <2>1
<1>6. CASE \/ \E b \in Browser : Logout(b) \/ WindowEnds(b)
           \/ LockEnds
  BY <1>6 DEF Logout, WindowEnds, LockEnds
<1>7. CASE \/ Raise(q) \/ Counted(q) \/ Lock(q) \/ LetIn(q) \/ Complete(q)
           \/ \E code \in Code : ReadCodes(q, code)
           \/ PassPassword(q) \/ Enrol(q) \/ WritePassword(q) \/ ResetPassword(q) \/ ResetTotp(q)
  BY <1>7 DEF Raise, Counted, Lock, LetIn, Complete, ReadCodes, PassPassword, Enrol,
              WritePassword, ResetPassword, ResetTotp
<1>8. CASE Abandon(q)
  BY <1>0, <1>8 DEF Abandon
<1>9. QED
  BY <1>3, <1>4, <1>5, <1>6, <1>7, <1>8 DEF Next, Begins

\* A TOTP code gets in once (_claim_totp_counter).
THEOREM CodesCountOnce == Spec => CodeCountsOnce
<1>1. ASSUME IInv, Next, NEW r \in Request, task[r].step = "claim", task'[r].step = "claimed",
             "factor" \notin task[r].stale
      PROVE  task[r].counter \notin used
  <2>1. TypeOK /\ row.last \in Nat /\ task \in [Request -> Task] /\ task[r] \in Task
    BY <1>1, RowsTyped DEF IInv, TypeOK, Row
  <2>2. Claim(r)
    BY <1>1, <2>1, OnlyClaimsMove DEF Spend
  <2>3. ~Goes(r, "raise")
    BY <1>1, <2>1 DEF Goes, Task
  <2>4. row.last < task[r].counter
    BY <2>2, <2>3 DEF Claim, Claims
  <2>5. QED
    BY <1>1, <2>1, <2>4 DEF IInv, Recorded, Task, TypeOK
<1>2. IInv /\ [Next]_vars =>
        [\A r \in Request :
            /\ task[r].step = "claim" /\ task'[r].step = "claimed"
            /\ "factor" \notin task[r].stale
            => task[r].counter \notin used]_vars
  BY <1>1
<1>3. QED
  BY <1>2, IInvInit, IInvStep, PTL DEF Spec, CodeCountsOnce

\* A recovery code gets in once (_consume_recovery_code).
THEOREM RecoveryCodesCountOnce == Spec => RecoveryCountsOnce
<1>1. ASSUME IInv, Next, NEW r \in Request, task[r].step = "spend", task'[r].step = "complete",
             "codes" \notin task[r].stale
      PROVE  task[r].code \cap spent = {}
  <2>1. TypeOK /\ task \in [Request -> Task] /\ task[r] \in Task
    BY <1>1 DEF IInv, TypeOK
  <2>2. Spend(r)
    BY <1>1, <2>1, OnlyClaimsMove DEF Claim
  <2>3. ~Goes(r, "raise")
    BY <1>1, <2>1 DEF Goes, Task
  <2>4. task[r].code \cap codes.used = {}
    BY <2>2, <2>3 DEF Spend, Unspent
  <2>5. QED
    BY <1>1, <2>4 DEF IInv, Recorded
<1>2. IInv /\ [Next]_vars =>
        [\A r \in Request :
            /\ task[r].step = "spend" /\ task'[r].step = "complete"
            /\ "codes" \notin task[r].stale
            => task[r].code \cap spent = {}]_vars
  BY <1>1
<1>3. QED
  BY <1>2, IInvInit, IInvStep, PTL DEF Spec, RecoveryCountsOnce

\* Every step is one of a request, or of a browser without one, or of time.
Acts(r) ==
    \/ Begins(r)
    \/ Raise(r) \/ Counted(r) \/ Lock(r) \/ PassPassword(r)
    \/ Claim(r) \/ LetIn(r) \/ Spend(r) \/ Complete(r)
    \/ \E code \in Code : ReadCodes(r, code)
    \/ Enrol(r) \/ WritePassword(r) \/ ResetPassword(r) \/ ResetTotp(r)
    \/ Abandon(r)

Passes == (\E b \in Browser : Logout(b) \/ WindowEnds(b)) \/ LockEnds

LEMMA WhoActs == ASSUME Next PROVE (\E r \in Request : Acts(r)) \/ Passes
<1>1. ASSUME NEW r \in Request,
             \/ Raise(r) \/ Counted(r) \/ Lock(r) \/ PassPassword(r) \/ Claim(r) \/ LetIn(r)
             \/ (\E code \in Code : ReadCodes(r, code)) \/ Spend(r) \/ Complete(r) \/ Enrol(r)
             \/ WritePassword(r) \/ Administers(r, "reset") \/ ResetPassword(r)
             \/ Administers(r, "remove") \/ ResetTotp(r) \/ Abandon(r)
      PROVE  Acts(r)
  BY <1>1 DEF Acts, Begins
<1>2. ASSUME NEW r \in Request, NEW b \in Browser,
             \/ \E right \in BOOLEAN : Login(r, b, right)
             \/ \E counter \in Counter :
                   \/ EnterCode(r, b, counter) \/ ConfirmSecret(r, b, counter)
                   \/ \E right \in BOOLEAN : StepUp(r, b, right, counter)
             \/ EnterWrong(r, b) \/ EnterRecovery(r, b) \/ ChangePassword(r, b)
      PROVE  Acts(r)
  <2>1. Begins(r)
    BY <1>2 DEF Begins
  <2>2. QED
    BY <2>1 DEF Acts
<1>3. QED
  BY <1>1, <1>2 DEF Next, Passes

\* Who is overtaken and commits a change of the row is seen to do so.
LEMMA CommitsShow ==
    ASSUME TypeOK, NEW r \in Request,
           PassPassword(r) \/ Enrol(r) \/ WritePassword(r) \/ ResetPassword(r) \/ ResetTotp(r)
    PROVE  task'[r].step # task[r].step
<1>0. Idle.step = "idle" /\ task[r] \in Task
  BY DEF TypeOK, Idle
<1>1. CASE Overtakes(r, {"factor", "codes"}, Idle) \/ Overtakes(r, {"password"}, Idle)
           \/ Overtakes(r, {}, Idle)
  BY <1>0, <1>1 DEF Overtakes, PassPassword, Enrol, WritePassword, ResetPassword, ResetTotp
<1> DEFINE session == [task[r].session EXCEPT !.reenroll = FALSE,
                                              !.pending = @ /\ task[r].goal = "login"]
           mine == [task[r] EXCEPT !.step = "complete", !.session = session]
<1>2. CASE Enrol(r) /\ Overtakes(r, {"factor", "codes"}, mine)
  <2>1. mine.step = "complete"
    BY <1>0 DEF Task
  <2> HIDE DEF mine
  <2>2. QED
    BY <1>2, <2>1 DEF Overtakes, Enrol
<1>3. QED
  BY <1>1, <1>2 DEF PassPassword, Enrol, WritePassword, ResetPassword, ResetTotp

\* A password an administrator handed out has to be changed (reset_password,
\* change_password, login).
THEOREM OneTimePasswordIsForced == Spec => OneTimePasswordForced
<1>1. ASSUME IInv, Next, OneTimePassword, ~OneTimePassword'
      PROVE  Overtaken("password")
  <2>0. TypeOK /\ row \in Row /\ (row'.password = "issued" /\ ~row'.must)
    BY <1>1 DEF IInv, TypeOK, OneTimePassword
  <2>1. ASSUME row'.password = row.password, row'.must = row.must PROVE FALSE
    BY <1>1, <2>1 DEF OneTimePassword
  <2>2. ASSUME NEW r \in Request, PassPassword(r), "password" \notin task[r].stale PROVE FALSE
    <3>1. task[r].step = "password" /\ task[r].seen.password = row.password
      BY <1>1, <2>2 DEF IInv, UpToDate, PassPassword
    <3>2. row'.password = row.password /\ row'.must = row.must
      BY <2>0, <2>2, <3>1 DEF PassPassword, Row
    <3>3. QED
      BY <2>1, <3>2
  <2>3. ASSUME NEW r \in Request, WritePassword(r) PROVE FALSE
    <3>1. row'.password = "chosen"
      BY <2>0, <2>3 DEF WritePassword, Row
    <3>2. QED
      BY <2>0, <3>1
  <2>4. ASSUME NEW r \in Request, ResetPassword(r), "password" \notin task[r].stale PROVE FALSE
    <3>1. task[r].seen.must = row.must
      BY <1>1, <2>4 DEF IInv, UpToDate, ResetPassword
    <3>2. row'.must = Forced(row.must, task[r].seen.must)
      BY <2>0, <2>4, ResetWrites
    <3>3. row.must \in BOOLEAN
      BY <2>0 DEF Row
    <3>4. QED
      BY <2>0, <3>1, <3>2, <3>3 DEF Forced, Column
  <2>5. ASSUME NEW r \in Request,
               Begins(r) \/ Counted(r) \/ LetIn(r) \/ (\E code \in Code : ReadCodes(r, code))
               \/ Spend(r) \/ Abandon(r)
        PROVE  FALSE
    BY <2>1, <2>5, <2>0, StartReads DEF Counted, LetIn, ReadCodes, Spend, Abandon
  <2>6. ASSUME NEW r \in Request, Raise(r) \/ Lock(r) \/ Claim(r) \/ Enrol(r) \/ ResetTotp(r)
        PROVE  FALSE
    BY <2>0, <2>1, <2>6 DEF Raise, Lock, Claim, Enrol, ResetTotp, Row
  <2>7. ASSUME NEW r \in Request, Complete(r) PROVE FALSE
    BY <2>0, <2>1, <2>7, CompleteWrites
  <2>8. ASSUME Passes PROVE FALSE
    BY <2>0, <2>1, <2>8 DEF Passes, Logout, WindowEnds, LockEnds, Row
  <2>9. PICK r \in Request : Acts(r)
    BY <1>1, <2>8, WhoActs
  <2>10. /\ PassPassword(r) \/ ResetPassword(r)
         /\ "password" \in task[r].stale
    BY <2>2, <2>3, <2>4, <2>5, <2>6, <2>7, <2>9 DEF Acts
  <2>11. QED
    BY <2>0, <2>10, CommitsShow DEF Overtaken
<1>2. IInv /\ [Next]_vars => [OneTimePassword /\ ~OneTimePassword' => Overtaken("password")]_vars
  BY <1>1
<1>3. QED
  BY <1>2, IInvInit, IInvStep, PTL DEF Spec, OneTimePasswordForced

\* Authenticator and recovery codes come and go together (setup_totp,
\* reset_totp).
THEOREM FactorAlwaysWhole == Spec => FactorStaysWhole
<1>1. ASSUME IInv, Next, FactorWhole, ~FactorWhole'
      PROVE  Overtaken("factor")
  <2>0. TypeOK /\ row \in Row /\ codes \in [there: BOOLEAN, used: SUBSET Code]
    BY <1>1 DEF IInv, TypeOK
  <2>1. ASSUME row'.ready = row.ready, codes'.there = codes.there PROVE FALSE
    BY <1>1, <2>1 DEF FactorWhole
  <2>2. ASSUME NEW r \in Request, ResetTotp(r), "factor" \notin task[r].stale PROVE FALSE
    <3>1. task[r].seen.ready = row.ready
      BY <1>1, <2>2 DEF IInv, UpToDate, ResetTotp
    <3>2. row'.ready = FALSE /\ codes'.there = FALSE
      BY <2>0, <2>2, <3>1 DEF ResetTotp, Column, Row, Removed, NoCodes
    <3>3. QED
      BY <1>1, <3>2 DEF FactorWhole
  <2>3. ASSUME NEW r \in Request, Enrol(r) PROVE FALSE
    <3>1. row'.ready = TRUE /\ codes'.there = TRUE
      BY <2>0, <2>3 DEF Enrol, Row, NewCodes
    <3>2. QED
      BY <1>1, <3>1 DEF FactorWhole
  <2>4. ASSUME NEW r \in Request,
               Begins(r) \/ Counted(r) \/ LetIn(r) \/ (\E code \in Code : ReadCodes(r, code))
               \/ Abandon(r)
        PROVE  FALSE
    BY <2>1, <2>4, <2>0, StartReads DEF Counted, LetIn, ReadCodes, Abandon, KeepsFactor
  <2>5. ASSUME NEW r \in Request,
               Raise(r) \/ Lock(r) \/ Claim(r) \/ PassPassword(r) \/ WritePassword(r)
        PROVE  FALSE
    BY <2>0, <2>1, <2>5 DEF Raise, Lock, Claim, PassPassword, WritePassword, KeepsFactor, Row
  <2>6. ASSUME NEW r \in Request, Spend(r) PROVE FALSE
    BY <2>0, <2>1, <2>6 DEF Spend
  <2>7. ASSUME NEW r \in Request, Complete(r) \/ ResetPassword(r) PROVE FALSE
    <3>1. row'.ready = row.ready
      BY <2>0, <2>7, CompleteWrites, ResetWrites
    <3>2. codes' = codes
      BY <2>7 DEF Complete, ResetPassword, KeepsFactor
    <3>3. QED
      BY <2>1, <3>1, <3>2
  <2>8. ASSUME Passes PROVE FALSE
    BY <2>0, <2>1, <2>8 DEF Passes, Logout, WindowEnds, LockEnds, KeepsFactor, Row
  <2>9. PICK r \in Request : Acts(r)
    BY <1>1, <2>8, WhoActs
  <2>10. ResetTotp(r) /\ "factor" \in task[r].stale
    BY <2>2, <2>3, <2>4, <2>5, <2>6, <2>7, <2>9 DEF Acts
  <2>11. QED
    BY <2>0, <2>10, CommitsShow DEF Overtaken
<1>2. IInv /\ [Next]_vars => [FactorWhole /\ ~FactorWhole' => Overtaken("factor")]_vars
  BY <1>1
<1>3. QED
  BY <1>2, IInvInit, IInvStep, PTL DEF Spec, FactorStaysWhole

-------------------------------------------------------------------------------
(* What a session has earned *)

\* A session that passed the password only is not signed in, and only one that is
\* signed in has the window in which the authenticator may be replaced.
Separate(session) ==
    /\ session.pending => ~session.user
    /\ session.reenroll => session.user

\* What a request was sent with allows what it is about to do.
Earned(t) ==
    /\ Separate(t.session)
    /\ t.step \in {"claim", "claimed"} => t.goal \in {"login", "stepup"}
    /\ t.step \in {"recover", "spend"} => t.goal = "recovery"
    /\ t.step = "complete" => t.goal \in {"login", "recovery"}
    /\ t.step \in {"claim", "claimed"} /\ t.goal = "stepup" => t.session.user
    /\ t.step \in {"claim", "claimed"} /\ t.goal = "login" => t.session.pending
    /\ t.step \in {"recover", "spend", "complete"} => t.session.pending
    /\ t.step = "enrol" => IF t.goal = "login" THEN t.session.pending ELSE t.session.user
    /\ t.step = "enrol" /\ t.seen.ready => t.session.reenroll

\* As long as nobody has overtaken it, an enrolment knows whether there is an
\* authenticator already.
KnowsFactor(q) ==
    task[q].step = "enrol" /\ "factor" \notin task[q].stale => task[q].seen.ready = row.ready

RequestsEarned == \A q \in Request : Earned(task[q]) /\ KnowsFactor(q)

SessionInv == (\A b \in Browser : Separate(cookie[b])) /\ RequestsEarned

LEMMA SessionInit == Init => SessionInv
<1> SUFFICES ASSUME Init PROVE SessionInv
  OBVIOUS
<1>1. \A b \in Browser : cookie[b] = NoCookie
  BY DEF Init
<1>2. \A q \in Request : task[q] = Idle
  BY DEF Init
<1>3. Idle.step = "idle" /\ Idle.session = NoCookie
  BY DEF Idle
<1>4. Separate(NoCookie)
  BY DEF Separate, NoCookie
<1>5. Earned(Idle)
  BY <1>3, <1>4 DEF Earned
<1>6. QED
  BY <1>1, <1>2, <1>3, <1>4, <1>5 DEF SessionInv, RequestsEarned, KnowsFactor

\* A step of one request that tells the others nothing.
LEMMA OneGoesOn ==
    ASSUME TypeOK, RequestsEarned, NEW r \in Request, NEW t, task' = [task EXCEPT ![r] = t],
           Earned(t), t.step = "enrol" => t.seen = row, row'.ready = row.ready
    PROVE  RequestsEarned'
<1>1. task'[r] = t /\ \A q \in Request \ {r} : task'[q] = task[q]
  BY DEF TypeOK
<1>2. ASSUME NEW q \in Request PROVE Earned(task[q])'
  BY <1>1 DEF RequestsEarned, Earned, Separate
<1>3. ASSUME NEW q \in Request PROVE KnowsFactor(q)'
  BY <1>1 DEF RequestsEarned, KnowsFactor
<1>4. QED
  BY <1>2, <1>3 DEF RequestsEarned

\* A step that makes what the others have read out of date.
LEMMA OthersAreOvertaken ==
    ASSUME TypeOK, RequestsEarned, NEW r \in Request, NEW mine, NEW what, Overtakes(r, what, mine),
           Earned(mine), mine.step # "enrol", "factor" \in what \/ row'.ready = row.ready
    PROVE  RequestsEarned'
<1>1. /\ task'[r] = mine
      /\ \A q \in Request \ {r} : task'[q] = IF task[q].step = "idle" THEN task[q]
                                            ELSE [task[q] EXCEPT !.stale = @ \cup what]
  BY DEF Overtakes
<1>2. ASSUME NEW q \in Request \ {r}
      PROVE  /\ task'[q].step = task[q].step /\ task'[q].goal = task[q].goal
             /\ task'[q].session = task[q].session /\ task'[q].seen = task[q].seen
             /\ task[q].step # "idle" => task'[q].stale = task[q].stale \cup what
    BY <1>1, RowsTyped DEF Task
<1>3. ASSUME NEW q \in Request PROVE Earned(task[q])'
  <2>1. CASE q = r
    BY <1>1, <2>1 DEF Earned, Separate
  <2>2. CASE q # r
    BY <1>2, <2>2 DEF RequestsEarned, Earned, Separate
  <2>3. QED
    BY <2>1, <2>2
<1>4. ASSUME NEW q \in Request PROVE KnowsFactor(q)'
  BY <1>1, <1>2 DEF RequestsEarned, KnowsFactor
<1>5. QED
  BY <1>3, <1>4 DEF RequestsEarned

LEMMA CookiesStay ==
    ASSUME \A b \in Browser : Separate(cookie[b]), UNCHANGED cookie
    PROVE  \A b \in Browser : Separate(cookie[b])'
  BY DEF Separate

\* Every answer is a session that has earned what it says.
LEMMA AnswersKeepApart ==
    ASSUME TypeOK, \A b \in Browser : Separate(cookie[b]),
           NEW r \in Request, NEW session, Answers(r, session), Separate(session)
    PROVE  \A b \in Browser : Separate(cookie[b])'
  BY DEF Answers, Separate

\* A request begins with the session it was sent with and the row as it is.
LEMMA StartIsEarned ==
    ASSUME TypeOK, SessionInv, NEW r \in Request, Begins(r)
    PROVE  SessionInv'
<1>0. \A b \in Browser : cookie[b] \in Cookie /\ Separate(cookie[b])
  BY DEF TypeOK, SessionInv
<1>1. UNCHANGED <<row, cookie>>
  BY DEF Begins, Login, EnterCode, ConfirmSecret, StepUp, EnterWrong, EnterRecovery, ChangePassword,
         Administers
<1>2. ASSUME NEW b \in Browser, NEW step, NEW goal, NEW n, Starts(r, b, step, goal, n),
             step \in {"claim"} => goal \in {"login", "stepup"},
             step \in {"recover"} => goal = "recovery",
             step \notin {"claimed", "spend", "complete"},
             step = "claim" => IF goal = "stepup" THEN cookie[b].user ELSE cookie[b].pending,
             step = "recover" => cookie[b].pending,
             step = "enrol" => /\ IF goal = "login" THEN cookie[b].pending ELSE cookie[b].user
                               /\ row.ready => cookie[b].reenroll
      PROVE  SessionInv'
  <2> DEFINE t == [Idle EXCEPT !.step = step, !.goal = goal, !.from = {b},
                               !.session = cookie[b], !.seen = row, !.counter = n]
  <2>1. t.seen = row /\ t.step = step /\ t.goal = goal /\ t.session = cookie[b]
    BY DEF Idle
  <2>2. task' = [task EXCEPT ![r] = t]
    BY <1>2 DEF Starts
  <2> HIDE DEF t
  <2>3. Earned(t)
    BY <1>0, <1>2, <2>1 DEF Earned
  <2>4. RequestsEarned'
    BY <1>1, <2>1, <2>2, <2>3, OneGoesOn DEF SessionInv
  <2>5. QED
    BY <1>1, <2>4, CookiesStay DEF SessionInv
<1>3. ASSUME NEW b \in Browser, NEW right \in BOOLEAN, Login(r, b, right) PROVE SessionInv'
  BY <1>2, <1>3 DEF Login
<1>4. ASSUME NEW b \in Browser, NEW n \in Counter, EnterCode(r, b, n) PROVE SessionInv'
  BY <1>2, <1>4 DEF EnterCode, MayVerify
<1>5. ASSUME NEW b \in Browser, NEW n \in Counter, ConfirmSecret(r, b, n) PROVE SessionInv'
  BY <1>2, <1>5 DEF ConfirmSecret, MaySetUp, Pending
<1>6. ASSUME NEW b \in Browser, NEW n \in Counter, NEW right \in BOOLEAN, StepUp(r, b, right, n)
      PROVE  SessionInv'
  BY <1>2, <1>6 DEF StepUp
<1>7. ASSUME NEW b \in Browser, EnterWrong(r, b) \/ EnterRecovery(r, b) \/ ChangePassword(r, b)
      PROVE  SessionInv'
  BY <1>2, <1>7 DEF EnterWrong, EnterRecovery, ChangePassword, MayVerify
<1>8. ASSUME NEW step \in {"reset", "remove"}, Administers(r, step) PROVE SessionInv'
  <2> DEFINE t == [Idle EXCEPT !.step = step, !.goal = "reset", !.seen = row]
  <2>1. t.step = step /\ t.session = NoCookie /\ task' = [task EXCEPT ![r] = t]
    BY <1>8 DEF Idle, Administers
  <2> HIDE DEF t
  <2>2. Earned(t)
    BY <2>1 DEF Earned, Separate, NoCookie
  <2>3. RequestsEarned'
    BY <1>1, <2>1, <2>2, OneGoesOn DEF SessionInv
  <2>4. QED
    BY <1>1, <2>3, CookiesStay DEF SessionInv
<1>9. QED
  BY <1>3, <1>4, <1>5, <1>6, <1>7, <1>8 DEF Begins

LEMMA SessionStep == TypeOK /\ SessionInv /\ Next => SessionInv'
<1> SUFFICES ASSUME TypeOK, SessionInv, Next PROVE SessionInv'
  OBVIOUS
<1>0. /\ task \in [Request -> Task] /\ \A q \in Request : task[q] \in Task /\ Earned(task[q])
      /\ \A b \in Browser : Separate(cookie[b])
      /\ RequestsEarned
      /\ row \in Row
  BY DEF TypeOK, SessionInv, RequestsEarned
<1>1. Earned(Idle) /\ Idle.step = "idle"
  BY DEF Earned, Separate, Idle, NoCookie
<1>2. ASSUME NEW r \in Request, Raise(r) \/ Claim(r) \/ Spend(r) PROVE SessionInv'
  <2>1. PICK step : /\ task' = [task EXCEPT ![r].step = step]
                    /\ \/ step \in {"raised", "raise"}
                       \/ step = "claimed" /\ task[r].step = "claim"
                       \/ step = "complete" /\ task[r].step = "spend"
    BY <1>2 DEF Raise, Claim, Spend, Goes
  <2> DEFINE t == [task[r] EXCEPT !.step = step]
  <2>2. /\ task' = [task EXCEPT ![r] = t] /\ t.step = step
        /\ t.goal = task[r].goal /\ t.session = task[r].session
    BY <1>0, <2>1 DEF Task
  <2> HIDE DEF t
  <2>3. Earned(t) /\ t.step # "enrol"
    BY <1>0, <2>1, <2>2 DEF Earned
  <2>4. row'.ready = row.ready /\ UNCHANGED cookie
    BY <1>0, <1>2 DEF Raise, Claim, Spend, Row
  <2>5. RequestsEarned'
    BY <1>0, <2>2, <2>3, <2>4, OneGoesOn
  <2>6. QED
    BY <1>0, <2>4, <2>5, CookiesStay DEF SessionInv
<1>3. ASSUME NEW r \in Request, NEW session, Separate(session), Answers(r, session),
             task' = [task EXCEPT ![r] = Idle], row'.ready = row.ready
      PROVE  SessionInv'
  <2>1. RequestsEarned'
    BY <1>0, <1>1, <1>3, OneGoesOn
  <2>2. QED
    BY <1>0, <1>3, <2>1, AnswersKeepApart DEF SessionInv
<1>4. ASSUME NEW r \in Request, Counted(r) \/ Lock(r) PROVE SessionInv'
  <2>1. Separate(task[r].session)
    BY <1>0 DEF Earned
  <2>2. row'.ready = row.ready
    BY <1>0, <1>4 DEF Counted, Lock, Row
  <2>3. CASE task' = [task EXCEPT ![r] = Idle] /\ Answers(r, task[r].session)
    BY <1>3, <2>1, <2>2, <2>3
  <2>4. CASE Goes(r, "lock") /\ UNCHANGED cookie
    <3> DEFINE t == [task[r] EXCEPT !.step = "lock"]
    <3>1. /\ task' = [task EXCEPT ![r] = t] /\ t.step = "lock" /\ t.session = task[r].session
      BY <1>0, <2>4 DEF Goes, Task
    <3> HIDE DEF t
    <3>2. Earned(t)
      BY <2>1, <3>1 DEF Earned
    <3>3. RequestsEarned'
      BY <1>0, <2>2, <3>1, <3>2, OneGoesOn
    <3>4. QED
      BY <1>0, <2>4, <3>3, CookiesStay DEF SessionInv
  <2>5. QED
    BY <1>4, <2>3, <2>4 DEF Counted, Lock
<1>5. ASSUME NEW r \in Request, PassPassword(r) PROVE SessionInv'
  <2>1. row'.ready = row.ready
    BY <1>0, <1>5 DEF PassPassword, Row
  <2>2. Separate([NoCookie EXCEPT !.pending = TRUE])
    BY DEF Separate, NoCookie
  <2>3. RequestsEarned'
    BY <1>0, <1>1, <1>5, <2>1, OthersAreOvertaken DEF PassPassword
  <2>4. QED
    BY <1>0, <1>5, <2>2, <2>3, AnswersKeepApart DEF SessionInv, PassPassword
<1>6. ASSUME NEW r \in Request, LetIn(r) PROVE SessionInv'
  <2>1. row' = row /\ task[r].step = "claimed"
    BY <1>6 DEF LetIn
  <2>2. CASE task[r].goal = "login"
    <3> DEFINE t == [task[r] EXCEPT !.step = "complete", !.seen = row]
    <3>1. /\ task' = [task EXCEPT ![r] = t] /\ t.step = "complete"
          /\ t.session = task[r].session /\ t.goal = "login" /\ UNCHANGED cookie
      BY <1>0, <1>6, <2>2 DEF LetIn, Task
    <3> HIDE DEF t
    <3>2. Earned(t)
      BY <1>0, <2>1, <2>2, <3>1 DEF Earned
    <3>3. RequestsEarned'
      BY <1>0, <2>1, <3>1, <3>2, OneGoesOn
    <3>4. QED
      BY <1>0, <3>1, <3>3, CookiesStay DEF SessionInv
  <2>3. CASE task[r].goal = "stepup"
    <3> DEFINE session == [task[r].session EXCEPT !.reenroll = TRUE]
    <3>1. task' = [task EXCEPT ![r] = Idle] /\ Answers(r, session)
      BY <1>6, <2>3 DEF LetIn
    <3>2. Separate(session)
      BY <1>0, <2>1, <2>3 DEF Earned, Separate, Task, Cookie
    <3> HIDE DEF session
    <3>3. QED
      BY <1>3, <2>1, <3>1, <3>2
  <2>4. QED
    BY <1>0, <2>1, <2>2, <2>3 DEF Earned
<1>7. ASSUME NEW r \in Request, NEW code \in Code, ReadCodes(r, code) PROVE SessionInv'
  <2> DEFINE step == IF codes.there /\ code \notin codes.used THEN "spend" ELSE "raise"
             t == [task[r] EXCEPT !.step = step, !.code = {code}, !.stale = @ \ {"codes"}]
  <2>1. task' = [task EXCEPT ![r] = t] /\ UNCHANGED <<row, cookie>> /\ task[r].step = "recover"
    BY <1>7 DEF ReadCodes
  <2>2. /\ t.step \in {"spend", "raise"} /\ t.goal = task[r].goal
        /\ t.session = task[r].session
    BY <1>0 DEF Task
  <2> HIDE DEF t
  <2>3. Earned(t)
    BY <1>0, <2>1, <2>2 DEF Earned
  <2>4. RequestsEarned'
    BY <1>0, <2>1, <2>2, <2>3, OneGoesOn
  <2>5. QED
    BY <1>0, <2>1, <2>4, CookiesStay DEF SessionInv
<1>8. ASSUME NEW r \in Request, Complete(r) PROVE SessionInv'
  <2> DEFINE session == [task[r].session EXCEPT !.pending = FALSE, !.user = TRUE,
                                               !.reenroll = @ \/ task[r].goal = "recovery"]
  <2>1. task' = [task EXCEPT ![r] = Idle] /\ Answers(r, session) /\ row'.ready = row.ready
    BY <1>8, CompleteWrites DEF Complete
  <2>2. Separate(session)
    BY <1>0 DEF Separate, Task, Cookie
  <2> HIDE DEF session
  <2>3. QED
    BY <1>3, <2>1, <2>2
<1>9. ASSUME NEW r \in Request, Enrol(r) PROVE SessionInv'
  <2> DEFINE session == [task[r].session EXCEPT !.reenroll = FALSE,
                                                !.pending = @ /\ task[r].goal = "login"]
             mine == [task[r] EXCEPT !.step = "complete", !.session = session]
  <2>0. task[r].step = "enrol" /\ task[r].session \in Cookie
    BY <1>0, <1>9 DEF Enrol, Task
  <2>1. /\ Separate(session)
        /\ task[r].goal = "login" => session.pending
    BY <1>0, <2>0 DEF Earned, Separate, Cookie
  <2>2. CASE task[r].goal = "login"
    <3>1. Overtakes(r, {"factor", "codes"}, mine) /\ UNCHANGED cookie
      BY <1>9, <2>2 DEF Enrol
    <3>2. mine.step = "complete" /\ mine.goal = "login" /\ mine.session = session
      BY <1>0, <2>2 DEF Task
    <3> HIDE DEF mine, session
    <3>3. Earned(mine)
      BY <2>1, <2>2, <3>2 DEF Earned
    <3>4. RequestsEarned'
      BY <1>0, <3>1, <3>2, <3>3, OthersAreOvertaken
    <3>5. QED
      BY <1>0, <3>1, <3>4, CookiesStay DEF SessionInv
  <2>3. CASE task[r].goal # "login"
    <3>1. Overtakes(r, {"factor", "codes"}, Idle) /\ Answers(r, session)
      BY <1>9, <2>3 DEF Enrol
    <3> HIDE DEF session
    <3>2. RequestsEarned'
      BY <1>0, <1>1, <3>1, OthersAreOvertaken
    <3>3. QED
      BY <1>0, <2>1, <3>1, <3>2, AnswersKeepApart DEF SessionInv
  <2>4. QED
    BY <2>2, <2>3
<1>10. ASSUME NEW r \in Request, WritePassword(r) PROVE SessionInv'
  <2>1. row'.ready = row.ready /\ Separate(task[r].session)
    BY <1>0, <1>10 DEF WritePassword, Row, Earned
  <2>2. RequestsEarned'
    BY <1>0, <1>1, <1>10, <2>1, OthersAreOvertaken DEF WritePassword
  <2>3. QED
    BY <1>0, <1>10, <2>1, <2>2, AnswersKeepApart DEF SessionInv, WritePassword
<1>11. ASSUME NEW r \in Request, ResetPassword(r) \/ ResetTotp(r) PROVE SessionInv'
  <2>1. RequestsEarned'
    BY <1>0, <1>1, <1>11, ResetWrites, OthersAreOvertaken DEF ResetPassword, ResetTotp
  <2>2. QED
    BY <1>0, <1>11, <2>1, CookiesStay DEF SessionInv, ResetPassword, ResetTotp
<1>12. ASSUME NEW r \in Request, Abandon(r) PROVE SessionInv'
  <2>1. RequestsEarned'
    BY <1>0, <1>1, <1>12, OneGoesOn DEF Abandon
  <2>2. QED
    BY <1>0, <1>12, <2>1, CookiesStay DEF SessionInv, Abandon
<1>13. CASE Passes
  <2>1. task' = task /\ row'.ready = row.ready
    BY <1>0, <1>13 DEF Passes, Logout, WindowEnds, LockEnds, Row
  <2>2. RequestsEarned'
    BY <1>0, <2>1 DEF RequestsEarned, Earned, Separate, KnowsFactor
  <2>3. \A b \in Browser : Separate(cookie[b])'
    BY <1>0, <1>13 DEF Passes, Logout, WindowEnds, LockEnds, Separate, NoCookie, TypeOK, Cookie
  <2>4. QED
    BY <2>2, <2>3 DEF SessionInv
<1>14. QED
  BY <1>2, <1>4, <1>5, <1>6, <1>7, <1>8, <1>9, <1>10, <1>11, <1>12, <1>13,
     StartIsEarned, WhoActs DEF Acts

LEMMA SessionsAreEarned == Spec => [](IInv /\ SessionInv)
<1>1. SessionInv /\ UNCHANGED vars => SessionInv'
  BY DEF SessionInv, RequestsEarned, Earned, Separate, KnowsFactor, vars
<1>2. IInv /\ SessionInv /\ [Next]_vars => SessionInv'
  BY <1>1, SessionStep DEF IInv
<1>3. QED
  BY <1>2, SessionInit, IInvInit, IInvStep, PTL DEF Spec

\* The password alone is not enough: an authenticator that is set up is replaced
\* only from a signed in session whose step-up, or recovery code, opened the
\* window (setup_totp, reenroll_totp).
THEOREM PasswordNeverEnough == Spec => PasswordAloneIsNotEnough
<1>1. ASSUME IInv, SessionInv, NEW r \in Request, Enrol(r), row.ready, "factor" \notin task[r].stale
      PROVE  task[r].session.user /\ task[r].session.reenroll
  <2>1. task[r].step = "enrol" /\ Earned(task[r]) /\ KnowsFactor(r)
    BY <1>1 DEF Enrol, SessionInv, RequestsEarned
  <2>2. task[r].session.reenroll
    BY <1>1, <2>1 DEF Earned, KnowsFactor
  <2>3. QED
    BY <2>1, <2>2 DEF Earned, Separate
<1>2. IInv /\ SessionInv /\ [Next]_vars =>
        [\A r \in Request :
            Enrol(r) /\ row.ready /\ "factor" \notin task[r].stale
            => task[r].session.user /\ task[r].session.reenroll]_vars
  BY <1>1
<1>3. QED
  BY <1>2, SessionsAreEarned, PTL DEF Spec, PasswordAloneIsNotEnough

\* Between its two factors a session is not signed in, and a window in which the
\* authenticator may be replaced is open in signed in sessions only, whatever
\* answers bring old cookies back (_pending_user, _complete_login,
\* _allow_reenrollment).
HalfwayIsOutside ==
    \A b \in Browser : /\ cookie[b].pending => ~cookie[b].user
                       /\ cookie[b].reenroll => cookie[b].user

\* Halfway through a sign-in nobody is in (verify_totp, _complete_login).
THEOREM HalfwayStaysOutside == Spec => []HalfwayIsOutside
<1>1. SessionInv => HalfwayIsOutside
  BY DEF SessionInv, Separate, HalfwayIsOutside
<1>2. QED
  BY <1>1, SessionsAreEarned, PTL

\* One request does not move another one on.
LEMMA OthersStandStill ==
    ASSUME TypeOK, NEW r \in Request, Acts(r), NEW q \in Request, q # r
    PROVE  task'[q].step = task[q].step
<1>0. task \in [Request -> Task] /\ task[q] \in Task
  BY DEF TypeOK
<1>1. ASSUME NEW mine, NEW what, Overtakes(r, what, mine) PROVE task'[q].step = task[q].step
  BY <1>0, <1>1 DEF Overtakes, Task
<1>2. CASE \/ PassPassword(r) \/ Enrol(r) \/ WritePassword(r) \/ ResetPassword(r) \/ ResetTotp(r)
  BY <1>1, <1>2 DEF PassPassword, Enrol, WritePassword, ResetPassword, ResetTotp
<1>3. CASE \E t : task' = [task EXCEPT ![r] = t]
  BY <1>0, <1>3
<1>4. CASE \/ Raise(r) \/ Counted(r) \/ Lock(r) \/ Claim(r) \/ LetIn(r) \/ Spend(r) \/ Complete(r)
           \/ Abandon(r) \/ \E code \in Code : ReadCodes(r, code)
  BY <1>0, <1>4 DEF Raise, Counted, Lock, Claim, LetIn, Spend, Complete, Abandon, ReadCodes, Goes
<1>5. CASE Begins(r)
  BY <1>3, <1>5, StartReads
<1>6. QED
  BY <1>2, <1>4, <1>5 DEF Acts

\* A browser becomes signed in only by the last commit of a sign-in whose session
\* passed the password, or by a late answer to a request it sent while it was
\* signed in; and a request gets to that commit only with a code of the
\* authenticator, a recovery code, or by setting up an authenticator where there
\* was none (login, verify_totp, setup_totp).
SignedInByBothFactors ==
    [][/\ \A b \in Browser : ~cookie[b].user /\ cookie'[b].user =>
              \E r \in Request :
                 /\ b \in task[r].from /\ task'[r].step # task[r].step
                 /\ task[r].session.user \/ (task[r].step = "complete" /\ task[r].session.pending)
       /\ \A r \in Request : task[r].step # "complete" /\ task'[r].step = "complete" =>
              /\ task[r].session.pending /\ ~task[r].session.user
              /\ \/ task[r].step = "claimed" \/ task[r].step = "spend"
                 \/ task[r].step = "enrol" /\ (~row.ready \/ "factor" \in task[r].stale)]_vars

LEMMA WhoSignsIn ==
    ASSUME IInv, SessionInv, Next, NEW b \in Browser, ~cookie[b].user, cookie'[b].user
    PROVE  \E r \in Request :
              /\ b \in task[r].from /\ task'[r].step # task[r].step
              /\ task[r].session.user \/ (task[r].step = "complete" /\ task[r].session.pending)
<1>0. /\ cookie \in [Browser -> Cookie] /\ task \in [Request -> Task] /\ Idle.step = "idle"
      /\ \A r \in Request : task[r] \in Task /\ task[r].session \in Cookie /\ Earned(task[r])
  BY RowsTyped DEF IInv, SessionInv, RequestsEarned, TypeOK, Idle
<1>1. cookie' # cookie
  OBVIOUS
<1>2. ~Passes
  BY <1>0 DEF Passes, Logout, WindowEnds, LockEnds, NoCookie, Cookie
<1>3. PICK r \in Request : Acts(r)
  BY <1>2, WhoActs
<1>4. ASSUME NEW session, Answers(r, session) PROVE b \in task[r].from /\ session.user
  BY <1>4 DEF Answers
<1>5. ASSUME Answers(r, task[r].session), task'[r].step = "idle", task[r].step # "idle"
      PROVE  b \in task[r].from /\ task'[r].step # task[r].step /\ task[r].session.user
  BY <1>4, <1>5
<1>6. CASE Counted(r) \/ Lock(r)
  <2>1. task[r].step # "idle"
    BY <1>6 DEF Counted, Lock
  <2>2. task'[r].step = "idle" /\ Answers(r, task[r].session)
    BY <1>0, <1>1, <1>6 DEF Counted, Lock
  <2>3. QED
    BY <1>5, <2>1, <2>2
<1>7. CASE WritePassword(r)
  <2>1. task[r].step # "idle" /\ Answers(r, task[r].session) /\ task'[r].step = "idle"
    BY <1>0, <1>7 DEF WritePassword, Overtakes
  <2>2. QED
    BY <1>5, <2>1
<1>8. CASE PassPassword(r)
  <2>1. Answers(r, [NoCookie EXCEPT !.pending = TRUE])
    BY <1>8 DEF PassPassword
  <2>2. ~[NoCookie EXCEPT !.pending = TRUE].user
    BY DEF NoCookie
  <2>3. QED
    BY <1>4, <2>1, <2>2
<1>9. CASE LetIn(r)
  <2> DEFINE session == [task[r].session EXCEPT !.reenroll = TRUE]
  <2>1. Answers(r, session) /\ task'[r].step = "idle" /\ task[r].step # "idle"
    BY <1>0, <1>1, <1>9 DEF LetIn
  <2>2. session.user = task[r].session.user
    BY <1>0 DEF Cookie
  <2> HIDE DEF session
  <2>3. QED
    BY <1>4, <2>1, <2>2
<1>10. CASE Enrol(r)
  <2> DEFINE session == [task[r].session EXCEPT !.reenroll = FALSE,
                                                !.pending = @ /\ task[r].goal = "login"]
  <2>1. Answers(r, session) /\ task'[r].step # task[r].step
    BY <1>0, <1>1, <1>10, CommitsShow DEF Enrol, IInv
  <2>2. session.user = task[r].session.user
    BY <1>0 DEF Cookie
  <2> HIDE DEF session
  <2>3. QED
    BY <1>4, <2>1, <2>2
<1>11. CASE Complete(r)
  <2>1. task[r].step = "complete" /\ task'[r].step = "idle"
    BY <1>0, <1>11 DEF Complete
  <2>2. \E session : Answers(r, session)
    BY <1>11 DEF Complete
  <2>3. task[r].session.pending
    BY <1>0, <2>1 DEF Earned
  <2>4. QED
    BY <1>4, <2>1, <2>2, <2>3
<1>12. ASSUME \/ Begins(r) \/ Raise(r) \/ Claim(r) \/ Spend(r) \/ Abandon(r)
              \/ \E code \in Code : ReadCodes(r, code)
              \/ ResetPassword(r) \/ ResetTotp(r)
       PROVE  FALSE
  BY <1>1, <1>12 DEF Begins, Raise, Claim, Spend, Abandon, ReadCodes, ResetPassword, ResetTotp,
       Login, EnterCode, ConfirmSecret, StepUp, EnterWrong, EnterRecovery, ChangePassword, Administers
<1>13. QED
  BY <1>3, <1>6, <1>7, <1>8, <1>9, <1>10, <1>11, <1>12 DEF Acts

LEMMA WhoCompletes ==
    ASSUME IInv, SessionInv, Next, NEW q \in Request,
           task[q].step # "complete", task'[q].step = "complete"
    PROVE  /\ task[q].session.pending /\ ~task[q].session.user
           /\ \/ task[q].step = "claimed" \/ task[q].step = "spend"
              \/ task[q].step = "enrol" /\ (~row.ready \/ "factor" \in task[q].stale)
<1>0. /\ TypeOK /\ task \in [Request -> Task] /\ task[q] \in Task /\ Earned(task[q])
      /\ KnowsFactor(q) /\ Idle.step = "idle"
  BY DEF IInv, SessionInv, RequestsEarned, TypeOK, Idle
<1>1. ~Passes
  BY DEF Passes, Logout, WindowEnds, LockEnds
<1>2. Acts(q)
  BY <1>0, <1>1, WhoActs, OthersStandStill
<1>3. CASE LetIn(q)
  <2>1. task[q].step = "claimed" /\ task[q].goal = "login"
    BY <1>0, <1>3 DEF LetIn
  <2>2. QED
    BY <1>0, <2>1 DEF Earned, Separate
<1>4. CASE Spend(q)
  BY <1>0, <1>4 DEF Spend, Earned, Separate
<1>5. CASE Enrol(q)
  <2>1. task[q].step = "enrol" /\ task[q].goal = "login"
    BY <1>0, <1>5 DEF Enrol, Overtakes
  <2>2. QED
    BY <1>0, <2>1 DEF Earned, Separate, KnowsFactor
<1>6. ASSUME \/ Raise(q) \/ Counted(q) \/ Lock(q) \/ Claim(q) \/ Complete(q) \/ Abandon(q)
             \/ \E code \in Code : ReadCodes(q, code)
      PROVE  FALSE
  <2>1. ASSUME NEW step, Goes(q, step) PROVE step = "complete"
    BY <1>0, <2>1 DEF Goes, Task
  <2>2. task' # [task EXCEPT ![q] = Idle]
    BY <1>0
  <2>3. ASSUME NEW code \in Code, ReadCodes(q, code) PROVE FALSE
    <3> DEFINE step == IF codes.there /\ code \notin codes.used THEN "spend" ELSE "raise"
    <3>1. task'[q].step = step
      BY <1>0, <2>3 DEF ReadCodes, Task
    <3>2. QED
      BY <3>1
  <2>4. QED
    BY <1>6, <2>1, <2>2, <2>3 DEF Raise, Counted, Lock, Claim, Complete, Abandon
<1>7. ASSUME PassPassword(q) \/ WritePassword(q) \/ ResetPassword(q) \/ ResetTotp(q) PROVE FALSE
  BY <1>0, <1>7 DEF PassPassword, WritePassword, ResetPassword, ResetTotp, Overtakes
<1>8. ASSUME Begins(q) PROVE FALSE
  BY <1>0, <1>8, StartReads
<1>9. QED
  BY <1>2, <1>3, <1>4, <1>5, <1>6, <1>7, <1>8 DEF Acts

\* Both factors, whatever requests, answers and resets run beside each other
\* (login, verify_totp, setup_totp).
THEOREM BothFactorsAlways == Spec => SignedInByBothFactors
<1>1. IInv /\ SessionInv /\ [Next]_vars =>
        [/\ \A b \in Browser : ~cookie[b].user /\ cookie'[b].user =>
                \E r \in Request :
                   /\ b \in task[r].from /\ task'[r].step # task[r].step
                   /\ task[r].session.user \/ (task[r].step = "complete" /\ task[r].session.pending)
         /\ \A r \in Request : task[r].step # "complete" /\ task'[r].step = "complete" =>
                /\ task[r].session.pending /\ ~task[r].session.user
                /\ \/ task[r].step = "claimed" \/ task[r].step = "spend"
                   \/ task[r].step = "enrol" /\ (~row.ready \/ "factor" \in task[r].stale)]_vars
  BY WhoSignsIn, WhoCompletes
<1>2. QED
  BY <1>1, SessionsAreEarned, PTL DEF Spec, SignedInByBothFactors

-------------------------------------------------------------------------------
(* Requests that come one after the other *)

OneAtATime == \A q, r \in Request : q = r

NobodyOvertaken == \A r \in Request : task[r].stale = {}

LEMMA NobodyOvertakenStep ==
    ASSUME OneAtATime, TypeOK, NobodyOvertaken, Next PROVE NobodyOvertaken'
<1>0. /\ task \in [Request -> Task] /\ \A r \in Request : task[r] \in Task
      /\ Idle.stale = {}
  BY DEF TypeOK, Idle
<1>1. ASSUME NEW r \in Request, task'[r].stale = {} PROVE NobodyOvertaken'
  BY <1>1 DEF OneAtATime, NobodyOvertaken
<1>2. ASSUME NEW r \in Request, task' = [task EXCEPT ![r] = Idle] PROVE NobodyOvertaken'
  BY <1>0, <1>1, <1>2
<1>3. ASSUME NEW r \in Request, NEW what, Overtakes(r, what, Idle) PROVE NobodyOvertaken'
  BY <1>0, <1>1, <1>3 DEF Overtakes
<1>4. ASSUME NEW r \in Request, NEW step, Goes(r, step) PROVE NobodyOvertaken'
  <2>1. task'[r].stale = {}
    BY <1>0, <1>4 DEF Goes, NobodyOvertaken, Task
  <2>2. QED
    BY <1>1, <2>1
<1>5. ASSUME NEW r \in Request, NEW b, NEW step, NEW goal, NEW n, Starts(r, b, step, goal, n)
      PROVE  NobodyOvertaken'
  <2>1. task'[r].stale = {}
    BY <1>0, <1>5 DEF Starts, Idle
  <2>2. QED
    BY <1>1, <2>1
<1>6. ASSUME NEW r \in Request, Begins(r) PROVE NobodyOvertaken'
  <2>1. CASE Administers(r, "reset") \/ Administers(r, "remove")
    <3>1. task'[r].stale = {}
      BY <1>0, <2>1 DEF Administers, Idle
    <3>2. QED
      BY <1>1, <3>1
  <2>2. CASE \E b, step, goal, n : Starts(r, b, step, goal, n)
    BY <1>5, <2>2
  <2>3. QED
    BY <1>6, <2>1, <2>2 DEF Begins, Login, EnterCode, ConfirmSecret, StepUp, EnterWrong,
       EnterRecovery, ChangePassword
<1>7. ASSUME NEW r \in Request, LetIn(r) PROVE NobodyOvertaken'
  <2>1. CASE task' = [task EXCEPT ![r].step = "complete", ![r].seen = row]
    <3>1. task'[r].stale = {}
      BY <1>0, <2>1 DEF NobodyOvertaken, Task
    <3>2. QED
      BY <1>1, <3>1
  <2>2. QED
    BY <1>2, <1>7, <2>1 DEF LetIn
<1>8. ASSUME NEW r \in Request, NEW code \in Code, ReadCodes(r, code) PROVE NobodyOvertaken'
  <2>1. task'[r].stale = task[r].stale \ {"codes"}
    BY <1>0, <1>8 DEF ReadCodes, Task
  <2>2. QED
    BY <1>1, <2>1 DEF NobodyOvertaken
<1>9. ASSUME NEW r \in Request, Enrol(r) PROVE NobodyOvertaken'
  <2> DEFINE session == [task[r].session EXCEPT !.reenroll = FALSE,
                                                !.pending = @ /\ task[r].goal = "login"]
             mine == [task[r] EXCEPT !.step = "complete", !.session = session]
  <2>1. CASE Overtakes(r, {"factor", "codes"}, mine)
    <3>1. mine.stale = {}
      BY <1>0 DEF NobodyOvertaken, Task
    <3> HIDE DEF mine
    <3>2. QED
      BY <1>1, <2>1, <3>1 DEF Overtakes
  <2>2. QED
    BY <1>3, <1>9, <2>1 DEF Enrol
<1>10. CASE Passes
  BY <1>10 DEF Passes, Logout, WindowEnds, LockEnds, NobodyOvertaken
<1>11. ASSUME NEW r \in Request,
              \/ Raise(r) \/ Counted(r) \/ Lock(r) \/ PassPassword(r) \/ Claim(r) \/ Spend(r)
              \/ Complete(r) \/ WritePassword(r) \/ ResetPassword(r) \/ ResetTotp(r) \/ Abandon(r)
       PROVE  NobodyOvertaken'
  BY <1>2, <1>3, <1>4, <1>11 DEF Raise, Counted, Lock, PassPassword, Claim, Spend, Complete,
     WritePassword, ResetPassword, ResetTotp, Abandon
<1>12. QED
  BY <1>6, <1>7, <1>8, <1>9, <1>10, <1>11, WhoActs DEF Acts

LEMMA NobodyIsOvertaken == ASSUME OneAtATime PROVE Spec => []NobodyOvertaken
<1>1. Init => NobodyOvertaken
  BY DEF Init, NobodyOvertaken, Idle
<1>2. NobodyOvertaken /\ UNCHANGED vars => NobodyOvertaken'
  BY DEF NobodyOvertaken, vars
<1>3. TypeOK /\ NobodyOvertaken /\ [Next]_vars => NobodyOvertaken'
  BY <1>2, NobodyOvertakenStep
<1>4. QED
  BY <1>1, <1>3, TypeCorrect, PTL DEF Spec

\* With requests one after the other a password an administrator handed out has
\* to be changed and authenticator and recovery codes are there together, in
\* every state (reset_password, change_password, setup_totp, reset_totp).
THEOREM SerialSignInIsWhole ==
    ASSUME OneAtATime PROVE Spec => [](OneTimePassword /\ FactorWhole)
<1>1. Init => OneTimePassword /\ FactorWhole
  <2> SUFFICES ASSUME Init PROVE OneTimePassword /\ FactorWhole
    OBVIOUS
  <2>1. codes.there <=> row.ready
    BY DEF Init, NewCodes, NoCodes
  <2>2. row.must \/ row.password = "chosen"
    <3>1. /\ NewRow.must
          /\ [NewRow EXCEPT !.outdated = TRUE].must
          /\ [NewRow EXCEPT !.ready = TRUE, !.password = "chosen", !.must = FALSE].password = "chosen"
      BY DEF NewRow
    <3>2. QED
      BY <3>1 DEF Init
  <2>3. row.ready \in BOOLEAN
    BY InitTyped DEF TypeOK, Row
  <2>4. QED
    BY <2>1, <2>2, <2>3 DEF OneTimePassword, FactorWhole
<1>2. NobodyOvertaken => ~Overtaken("password") /\ ~Overtaken("factor")
  BY DEF NobodyOvertaken, Overtaken
<1>3. ASSUME NobodyOvertaken, OneTimePassword, FactorWhole,
             [OneTimePassword /\ ~OneTimePassword' => Overtaken("password")]_vars,
             [FactorWhole /\ ~FactorWhole' => Overtaken("factor")]_vars
      PROVE  (OneTimePassword /\ FactorWhole)'
  <2>1. CASE UNCHANGED vars
    BY <1>3, <2>1 DEF OneTimePassword, FactorWhole, vars
  <2>2. QED
    BY <1>2, <1>3, <2>1
<1>4. QED
  BY <1>1, <1>3, NobodyIsOvertaken, OneTimePasswordIsForced, FactorAlwaysWhole, PTL
     DEF Spec, OneTimePasswordForced, FactorStaysWhole
===============================================================================
