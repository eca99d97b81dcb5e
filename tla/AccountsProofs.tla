---------------------------- MODULE AccountsProofs ----------------------------
(***************************************************************************)
(* For any number of accounts and of requests: a request that no other one *)
(* overtook leaves an administrator; and as long as requests come one      *)
(* after the other, an administrator always remains.                       *)
(***************************************************************************)
EXTENDS Accounts, TLAPS

LEMMA RowsAreRows == NoRow \in Row /\ Idle.step = "idle"
  BY DEF NoRow, Row, Roles, Idle

LEMMA MergedIsRow ==
    ASSUME NEW row \in Row, NEW t, t.row \in Row PROVE Merged(row, t) \in Row
  BY DEF Merged, Row

LEMMA InitTyped == Init => TypeOK
  BY DEF Init, TypeOK, Idle, NoRow, Row, Roles

LEMMA NextTyped == TypeOK /\ [Next]_vars => TypeOK'
<1> SUFFICES ASSUME TypeOK, [Next]_vars PROVE TypeOK'
  OBVIOUS
<1> DEFINE Task == [step: {"idle", "edit", "delete"}, users: SUBSET User, seen: Row, row: Row, admins: SUBSET User]
<1>0. account \in [User -> Row] /\ task \in [Request -> Task] /\ Idle \in Task /\ NoRow \in Row
  BY RowsAreRows DEF TypeOK, Idle
<1>1. ASSUME NEW r \in Request, NEW actor \in User, NEW u \in User,
             NEW role \in Roles, NEW active \in BOOLEAN, Create(r, actor, u, role, active)
      PROVE  TypeOK'
  BY <1>0, <1>1 DEF Create, TypeOK, Row
<1>2. ASSUME NEW r \in Request, NEW actor \in User, NEW u \in User,
             NEW role \in Roles, NEW active \in BOOLEAN, DecideEdit(r, actor, u, role, active)
      PROVE  TypeOK'
  BY <1>0, <1>2 DEF DecideEdit, TypeOK, Row, Admins
<1>3. ASSUME NEW r \in Request, NEW actor \in User, NEW u \in User, DecideDelete(r, actor, u)
      PROVE  TypeOK'
  BY <1>0, <1>3 DEF DecideDelete, TypeOK, Admins
<1>4. ASSUME NEW r \in Request, WriteEdit(r) PROVE TypeOK'
  <2>1. \A u \in User : Merged(account[u], task[r]) \in Row
    BY <1>0, MergedIsRow
  <2>2. account' \in [User -> Row]
    BY <1>0, <1>4, <2>1 DEF WriteEdit
  <2>3. QED
    BY <1>0, <1>4, <2>2 DEF WriteEdit, TypeOK
<1>5. ASSUME NEW r \in Request, WriteDelete(r) \/ Abandon(r) PROVE TypeOK'
  BY <1>0, <1>5 DEF WriteDelete, Abandon, TypeOK
<1>6. CASE UNCHANGED vars
  BY <1>6 DEF vars, TypeOK
<1>7. QED
  BY <1>1, <1>2, <1>3, <1>4, <1>5, <1>6 DEF Next

\* Type correctness of accounts and requests (views/users.py).
THEOREM TypeCorrect == Spec => []TypeOK
  BY InitTyped, NextTyped, PTL DEF Spec

\* What a request has decided, told without the accounts as they are now: it
\* counted an administrator, and if that was the account it works on and no
\* other, the account is to stay what it is.
Decided(r) ==
    task[r].step # "idle" =>
        \E u \in User :
            /\ task[r].users = {u}
            /\ task[r].admins # {}
            /\ u \in task[r].admins => task[r].seen.role = "admin" /\ task[r].seen.active
            /\ task[r].admins = {u} =>
                  task[r].step = "edit" /\ task[r].row.role = "admin" /\ task[r].row.active

IInv == TypeOK /\ \A r \in Request : Decided(r)

LEMMA IInvInit == Init => IInv
  BY InitTyped DEF Init, IInv, Decided, Idle

LEMMA IInvStep == IInv /\ [Next]_vars => IInv'
<1> SUFFICES ASSUME IInv, [Next]_vars PROVE \A r \in Request : Decided(r)'
  BY NextTyped DEF IInv
<1>0. TypeOK /\ task \in [Request -> [step: {"idle", "edit", "delete"}, users: SUBSET User,
                                     seen: Row, row: Row, admins: SUBSET User]]
      /\ \A r \in Request : Decided(r)
  BY DEF IInv, TypeOK
<1>1. ASSUME NEW r \in Request, task' = [task EXCEPT ![r] = Idle]
      PROVE  \A s \in Request : Decided(s)'
  BY <1>0, <1>1 DEF Decided, Idle
<1>2. ASSUME NEW r \in Request, NEW actor \in User, NEW u \in User,
             NEW role \in Roles, NEW active \in BOOLEAN, DecideEdit(r, actor, u, role, active)
      PROVE  \A s \in Request : Decided(s)'
  <2>1. actor \in Admins /\ (u \in Admins => account[u].role = "admin" /\ account[u].active)
    BY <1>2 DEF DecideEdit, MayAdminister, Admins, IsAdmin
  <2>2. Admins = {u} => role = "admin" /\ active
    BY <1>2 DEF DecideEdit, LastAdmin, Admins, IsAdmin
  <2>3. /\ task'[r] = [step |-> "edit", users |-> {u}, seen |-> account[u],
                       row |-> [present |-> TRUE, role |-> role, active |-> active],
                       admins |-> Admins]
        /\ \A s \in Request \ {r} : task'[s] = task[s]
    BY <1>0, <1>2 DEF DecideEdit
  <2>4. Decided(r)'
    BY <2>1, <2>2, <2>3 DEF Decided
  <2>5. ASSUME NEW s \in Request \ {r} PROVE Decided(s)'
    BY <1>0, <2>3 DEF Decided
  <2>6. QED
    BY <2>4, <2>5
<1>3. ASSUME NEW r \in Request, NEW actor \in User, NEW u \in User, DecideDelete(r, actor, u)
      PROVE  \A s \in Request : Decided(s)'
  <2>1. actor \in Admins /\ u # actor
        /\ (u \in Admins => account[u].role = "admin" /\ account[u].active)
    BY <1>3 DEF DecideDelete, MayAdminister, Admins, IsAdmin
  <2>2. /\ task'[r] = [step |-> "delete", users |-> {u}, seen |-> account[u], row |-> NoRow,
                       admins |-> Admins]
        /\ \A s \in Request \ {r} : task'[s] = task[s]
    BY <1>0, <1>3 DEF DecideDelete
  <2>3. Decided(r)'
    BY <2>1, <2>2 DEF Decided
  <2>4. ASSUME NEW s \in Request \ {r} PROVE Decided(s)'
    BY <1>0, <2>2 DEF Decided
  <2>5. QED
    BY <2>3, <2>4
<1>4. CASE task' = task
  BY <1>0, <1>4 DEF Decided
<1>5. QED
  BY <1>1, <1>2, <1>3, <1>4 DEF Next, Create, WriteEdit, WriteDelete, Abandon, vars

\* A write that nothing overtook leaves an administrator.
LEMMA WriteKeepsAdmin ==
    ASSUME IInv, NEW r \in Request, WriteEdit(r) \/ WriteDelete(r), task[r].admins = Admins
    PROVE  AdminRemains'
<1>1. PICK u \in User :
          /\ task[r].users = {u}
          /\ Admins # {}
          /\ u \in Admins => task[r].seen.role = "admin" /\ task[r].seen.active
          /\ Admins = {u} =>
                task[r].step = "edit" /\ task[r].row.role = "admin" /\ task[r].row.active
  BY DEF IInv, Decided, WriteEdit, WriteDelete
<1>2. CASE Admins = {u}
  <2>1. WriteEdit(r) /\ IsAdmin(u)
    BY <1>1, <1>2 DEF WriteDelete, Admins
  <2>2. account'[u] = Merged(account[u], task[r])
    BY <1>1, <2>1 DEF WriteEdit, IsAdmin
  <2>3. account'[u].present /\ account'[u].role = "admin"
    BY <1>1, <1>2, <2>1, <2>2 DEF Merged, IsAdmin
  <2>4. account'[u].active = IF task[r].row.active # task[r].seen.active
                             THEN task[r].row.active ELSE account[u].active
    BY <2>2 DEF Merged
  <2>5. account[u].active /\ task[r].row.active
    BY <1>1, <1>2, <2>1 DEF IsAdmin
  <2>6. account'[u].active
    BY <2>4, <2>5, Zenon
  <2>7. QED
    BY <2>3, <2>6 DEF AdminRemains, Admins, IsAdmin
<1>3. CASE Admins # {u}
  <2>1. PICK other \in User \ {u} : IsAdmin(other)
    BY <1>1, <1>3 DEF Admins
  <2>2. account'[other] = account[other]
    BY <1>1, <2>1 DEF WriteEdit, WriteDelete
  <2>3. QED
    BY <2>1, <2>2 DEF AdminRemains, Admins, IsAdmin
<1>4. QED
  BY <1>2, <1>3

\* Every other step keeps the administrators.
LEMMA OtherStepsKeepAdmin ==
    ASSUME IInv, AdminRemains, [Next]_vars,
           \A r \in Request : ~WriteEdit(r) /\ ~WriteDelete(r)
    PROVE  Admins \subseteq Admins'
<1>1. ASSUME NEW r \in Request, NEW actor \in User, NEW u \in User,
             NEW role \in Roles, NEW active \in BOOLEAN, Create(r, actor, u, role, active)
      PROVE  Admins \subseteq Admins'
  BY <1>1 DEF Create, Admins, IsAdmin
<1>2. CASE account' = account
  BY <1>2 DEF Admins, IsAdmin
<1>3. QED
  BY <1>1, <1>2 DEF Next, DecideEdit, DecideDelete, Abandon, vars

\* One step that takes the last administrator away was overtaken.
OvertakenOnly ==
    AdminRemains /\ ~AdminRemains' =>
        \E r \in Request : task[r].step # "idle" /\ task'[r] = Idle /\ task[r].admins # Admins

LEMMA StepProtects == IInv /\ [Next]_vars => OvertakenOnly
<1> SUFFICES ASSUME IInv, [Next]_vars, AdminRemains, ~AdminRemains' PROVE OvertakenOnly
  BY DEF OvertakenOnly
<1>1. PICK r \in Request : WriteEdit(r) \/ WriteDelete(r)
  BY OtherStepsKeepAdmin DEF AdminRemains
<1>2. task[r].admins # Admins
  BY <1>1, WriteKeepsAdmin
<1>3. task[r].step # "idle" /\ task'[r] = Idle
  BY <1>1 DEF WriteEdit, WriteDelete, IInv, TypeOK
<1>4. QED
  BY <1>2, <1>3 DEF OvertakenOnly

\* The last administrator falls only to a request that another change of the
\* administrators overtook, for any number of accounts and requests.
THEOREM LastAdminIsProtected == Spec => LastAdminProtected
<1>1. IInv /\ [Next]_vars => [OvertakenOnly]_vars
  BY StepProtects
<1>2. Spec => [][OvertakenOnly]_vars
  BY <1>1, IInvInit, IInvStep, PTL DEF Spec
<1>3. QED
  BY <1>2 DEF LastAdminProtected, OvertakenOnly

\* Nobody becomes an active administrator but by a request that asked for the role
\* or the activation (edit), for any number of accounts and requests.
THEOREM NobodyAdminByAccident == Spec => NoAdminByAccident
<1> DEFINE Asked(u) ==
               \/ ~account[u].present
               \/ \E r \in Request :
                     /\ task[r].step = "edit" /\ u \in task[r].users /\ task'[r] = Idle
                     /\ \/ task[r].row.role # task[r].seen.role
                        \/ task[r].row.active # task[r].seen.active
<1>1. ASSUME IInv, [Next]_vars, NEW u \in User, ~IsAdmin(u), IsAdmin(u)', account[u].present
      PROVE  \E r \in Request :
                /\ task[r].step = "edit" /\ u \in task[r].users /\ task'[r] = Idle
                /\ \/ task[r].row.role # task[r].seen.role
                   \/ task[r].row.active # task[r].seen.active
  <2>1. account'[u] # account[u]
    BY <1>1 DEF IsAdmin
  <2>2. \A v \in User, row \in Row : account' = [account EXCEPT ![v] = row] => u = v
    BY <1>1, <2>1 DEF IInv, TypeOK
  <2>3. ASSUME NEW r \in Request, NEW actor \in User, NEW v \in User,
               NEW role \in Roles, NEW active \in BOOLEAN, Create(r, actor, v, role, active)
        PROVE  FALSE
    BY <1>1, <2>2, <2>3 DEF Create, Row
  <2>4. ASSUME NEW r \in Request, WriteDelete(r) PROVE FALSE
    BY <1>1, <2>1, <2>4 DEF WriteDelete, NoRow, IsAdmin
  <2>5. PICK r \in Request : WriteEdit(r)
    BY <1>1, <2>1, <2>3, <2>4 DEF Next, vars, DecideEdit, DecideDelete, Abandon
  <2>6. u \in task[r].users /\ account'[u] = Merged(account[u], task[r])
    BY <1>1, <2>1, <2>5 DEF WriteEdit
  <2>7. \/ task[r].row.role # task[r].seen.role
        \/ task[r].row.active # task[r].seen.active
    <3> SUFFICES ASSUME task[r].row.role = task[r].seen.role,
                        task[r].row.active = task[r].seen.active
                 PROVE  FALSE
      OBVIOUS
    <3>1. account'[u].role = account[u].role /\ account'[u].active = account[u].active
      BY <2>6 DEF Merged
    <3>2. QED
      BY <1>1, <3>1 DEF IsAdmin
  <2>8. task[r].step = "edit" /\ task'[r] = Idle
    BY <1>1, <2>5 DEF WriteEdit, IInv, TypeOK
  <2>9. QED
    BY <2>6, <2>7, <2>8
<1>2. IInv /\ [Next]_vars => [\A u \in User : ~IsAdmin(u) /\ IsAdmin(u)' => Asked(u)]_vars
  BY <1>1
<1>3. QED
  BY <1>2, IInvInit, IInvStep, PTL DEF Spec, NoAdminByAccident

-------------------------------------------------------------------------------

OneAtATime == \A r, s \in Request : r = s

\* Nobody changes the administrators between the two steps of a request.
Undisturbed == \A r \in Request : task[r].step # "idle" => task[r].admins = Admins

LEMMA UndisturbedStep ==
    ASSUME OneAtATime, IInv, Undisturbed, [Next]_vars PROVE Undisturbed'
<1>0. task \in [Request -> [step: {"idle", "edit", "delete"}, users: SUBSET User,
                            seen: Row, row: Row, admins: SUBSET User]]
  BY DEF IInv, TypeOK
<1>1. ASSUME NEW r \in Request, WriteEdit(r) \/ WriteDelete(r) \/ Abandon(r)
      PROVE  Undisturbed'
  BY <1>0, <1>1 DEF OneAtATime, Undisturbed, WriteEdit, WriteDelete, Abandon, Idle
<1>2. ASSUME NEW r \in Request, NEW actor \in User, NEW u \in User,
             NEW role \in Roles, NEW active \in BOOLEAN, Create(r, actor, u, role, active)
      PROVE  Undisturbed'
  BY <1>2 DEF OneAtATime, Undisturbed, Create
<1>3. ASSUME NEW r \in Request, NEW actor \in User, NEW u \in User,
             \/ DecideDelete(r, actor, u)
             \/ \E role \in Roles, active \in BOOLEAN : DecideEdit(r, actor, u, role, active)
      PROVE  Undisturbed'
  <2>1. Admins' = Admins
    BY <1>3 DEF DecideDelete, DecideEdit, Admins, IsAdmin
  <2>2. \A s \in Request : s = r /\ task'[s].admins = Admins
    BY <1>0, <1>3 DEF OneAtATime, DecideDelete, DecideEdit
  <2>3. QED
    BY <2>1, <2>2 DEF Undisturbed
<1>4. CASE UNCHANGED vars
  BY <1>4 DEF vars, Undisturbed, Admins, IsAdmin
<1>5. QED
  BY <1>1, <1>2, <1>3, <1>4 DEF Next

\* An administrator remains, for any number of accounts, as long as requests
\* come one after the other.  With two at a time it does not hold
\* (Doc_LastAdminStays).
THEOREM AdminAlwaysRemains ==
    ASSUME OneAtATime PROVE Spec => []AdminRemains
<1>1. Init => IInv /\ Undisturbed /\ AdminRemains
  BY IInvInit DEF Init, Undisturbed, AdminRemains, Admins, Idle
<1>2. IInv /\ Undisturbed /\ AdminRemains /\ [Next]_vars
        => IInv' /\ Undisturbed' /\ AdminRemains'
  BY IInvStep, UndisturbedStep, StepProtects DEF OvertakenOnly, Undisturbed
<1>3. QED
  BY <1>1, <1>2, PTL DEF Spec
-------------------------------------------------------------------------------
(* Requests as one step each *)

\* One account is created, changed or deleted, and the last administrator stays one.
Atomic ==
    \E u \in User, new \in Row :
        /\ account[u].present \/ new.present
        /\ LastAdmin(u) => new.present /\ new.role = "admin" /\ new.active
        /\ account' = [account EXCEPT ![u] = new]

NobodyOvertaken ==
    \A r \in Request : WriteEdit(r) \/ WriteDelete(r) => task[r].admins = Admins

GoneIsEmpty == \A u \in User : ~account[u].present => account[u] = NoRow

\* While there is an administrator, the last one is the only one.
LEMMA LastIsOnly ==
    ASSUME AdminRemains, NEW u \in User PROVE LastAdmin(u) => Admins = {u}
  BY DEF AdminRemains, Admins, LastAdmin

LEMMA WriteIsAtomic ==
    ASSUME IInv, GoneIsEmpty, NEW r \in Request, WriteEdit(r) \/ WriteDelete(r),
           task[r].admins = Admins
    PROVE  Atomic \/ account' = account
<1>0. account \in [User -> Row] /\ task[r].row \in Row /\ NoRow \in Row /\ ~NoRow.present
  BY RowsAreRows DEF IInv, TypeOK, NoRow
<1>1. PICK u \in User :
          /\ task[r].users = {u}
          /\ Admins # {}
          /\ u \in Admins => task[r].seen.role = "admin" /\ task[r].seen.active
          /\ Admins = {u} =>
                task[r].step = "edit" /\ task[r].row.role = "admin" /\ task[r].row.active
  BY DEF IInv, Decided, WriteEdit, WriteDelete
<1>2. LastAdmin(u) => Admins = {u}
  BY <1>1, LastIsOnly DEF AdminRemains
<1>3. CASE ~account[u].present
  <2>1. \A v \in User : account'[v] = account[v]
    BY <1>1, <1>3 DEF WriteEdit, WriteDelete, GoneIsEmpty
  <2>2. account' \in [User -> Row]
    BY NextTyped, <1>0 DEF IInv, TypeOK, Next
  <2>3. QED
    BY <1>0, <2>1, <2>2
<1>4. CASE account[u].present /\ WriteEdit(r)
  <2> DEFINE new == Merged(account[u], task[r])
  <2>1. new \in Row /\ new.present
    BY <1>0, MergedIsRow DEF Merged
  <2>2. account' = [account EXCEPT ![u] = new]
    BY <1>0, <1>1, <1>4 DEF WriteEdit
  <2>3. ASSUME Admins = {u} PROVE new.role = "admin" /\ new.active
    <3>1. IsAdmin(u)
      BY <2>3 DEF Admins
    <3>2. account[u].active /\ task[r].row.active
      BY <1>1, <2>3, <3>1 DEF IsAdmin
    <3>3. new.active = IF task[r].row.active # task[r].seen.active
                       THEN task[r].row.active ELSE account[u].active
      BY DEF Merged
    <3>4. new.active
      BY <3>2, <3>3, Zenon
    <3>5. new.role = "admin"
      BY <1>1, <2>3, <3>1 DEF IsAdmin, Merged
    <3>6. QED
      BY <3>4, <3>5
  <2> HIDE DEF new
  <2>4. QED
    BY <1>2, <1>4, <2>1, <2>2, <2>3 DEF Atomic
<1>5. CASE account[u].present /\ WriteDelete(r)
  <2>1. account' = [account EXCEPT ![u] = NoRow]
    BY <1>0, <1>1, <1>5 DEF WriteDelete
  <2>2. ~LastAdmin(u)
    BY <1>1, <1>2, <1>5 DEF WriteDelete
  <2>3. QED
    BY <1>0, <1>5, <2>1, <2>2 DEF Atomic
<1>6. QED
  BY <1>3, <1>4, <1>5

LEMMA AtomicStep ==
    ASSUME IInv, GoneIsEmpty, AdminRemains, Next, NobodyOvertaken
    PROVE  Atomic \/ account' = account
<1>1. ASSUME NEW r \in Request, NEW actor \in User, NEW u \in User,
             NEW role \in Roles, NEW active \in BOOLEAN, Create(r, actor, u, role, active)
      PROVE  Atomic
  <2> DEFINE new == [present |-> TRUE, role |-> role, active |-> active]
  <2>1. new \in Row /\ new.present
    BY DEF Row
  <2>2. account' = [account EXCEPT ![u] = new] /\ ~account[u].present
    BY <1>1 DEF Create
  <2>3. ~LastAdmin(u)
    BY <2>2, LastIsOnly DEF Admins, IsAdmin
  <2> HIDE DEF new
  <2>4. QED
    BY <2>1, <2>2, <2>3 DEF Atomic
<1>2. ASSUME NEW r \in Request, WriteEdit(r) \/ WriteDelete(r)
      PROVE  Atomic \/ account' = account
  BY <1>2, WriteIsAtomic DEF NobodyOvertaken
<1>3. QED
  BY <1>1, <1>2 DEF Next, DecideEdit, DecideDelete, Abandon

LEMMA GoneStep == IInv /\ GoneIsEmpty /\ [Next]_vars => GoneIsEmpty'
<1> SUFFICES ASSUME IInv, GoneIsEmpty, [Next]_vars, NEW u \in User, ~account'[u].present
             PROVE  account'[u] = NoRow
  BY DEF GoneIsEmpty
<1>0. account \in [User -> Row]
  BY DEF IInv, TypeOK
<1>1. ASSUME NEW r \in Request, NEW actor \in User, NEW v \in User,
             NEW role \in Roles, NEW active \in BOOLEAN, Create(r, actor, v, role, active)
      PROVE  account'[u] = NoRow
  BY <1>0, <1>1 DEF Create, GoneIsEmpty
<1>2. ASSUME NEW r \in Request, WriteEdit(r) \/ WriteDelete(r)
      PROVE  account'[u] = NoRow
  BY <1>2 DEF WriteEdit, WriteDelete, Merged, GoneIsEmpty
<1>3. QED
  BY <1>1, <1>2 DEF Next, DecideEdit, DecideDelete, Abandon, vars, GoneIsEmpty

\* Whatever changes one account at a time and leaves the last administrator alone
\* leaves one.
LEMMA AtomicKeepsAdmin ==
    ASSUME account \in [User -> Row], AdminRemains, Atomic PROVE AdminRemains'
<1>1. PICK u \in User, new \in Row :
          /\ LastAdmin(u) => new.present /\ new.role = "admin" /\ new.active
          /\ account' = [account EXCEPT ![u] = new]
  BY DEF Atomic
<1>2. CASE \E other \in User \ {u} : IsAdmin(other)
  BY <1>1, <1>2 DEF AdminRemains, Admins, IsAdmin
<1>3. CASE ~ \E other \in User \ {u} : IsAdmin(other)
  <2>1. LastAdmin(u)
    BY <1>3 DEF AdminRemains, Admins, LastAdmin, IsAdmin
  <2>2. IsAdmin(u)'
    BY <1>1, <2>1 DEF IsAdmin
  <2>3. QED
    BY <2>2 DEF AdminRemains, Admins
<1>4. QED
  BY <1>2, <1>3

LEMMA SerialStep ==
    IInv /\ GoneIsEmpty /\ AdminRemains /\ [Next]_vars /\ [NobodyOvertaken]_vars
        => AdminRemains' /\ [Atomic]_account
<1> SUFFICES ASSUME IInv, GoneIsEmpty, AdminRemains, [Next]_vars, [NobodyOvertaken]_vars
             PROVE  AdminRemains' /\ [Atomic]_account
  OBVIOUS
<1>1. Atomic \/ account' = account
  BY AtomicStep DEF vars
<1>2. account' = account => AdminRemains'
  BY DEF AdminRemains, Admins, IsAdmin
<1>3. QED
  BY <1>1, <1>2, AtomicKeepsAdmin DEF IInv, TypeOK

\* For as long as no request writes after the administrators it counted have
\* changed, accounts change as if each request did all of it in one step, and an
\* administrator remains (edit_user, delete_user), however many requests run
\* beside each other.
THEOREM RequestsSerialise ==
    Spec /\ [][NobodyOvertaken]_vars => [][Atomic]_account /\ []AdminRemains
<1>1. Init => IInv /\ GoneIsEmpty /\ AdminRemains
  BY IInvInit DEF Init, GoneIsEmpty, AdminRemains, Admins
<1>2. QED
  BY <1>1, SerialStep, GoneStep, IInvStep, PTL DEF Spec
===============================================================================
