------------------------------- MODULE Accounts -------------------------------
(***************************************************************************)
(* The administration of portal accounts (portal/views/users.py): who is   *)
(* an administrator, and that the last active one stays.                   *)
(*                                                                         *)
(* A request reads the account and counts the other administrators, then   *)
(* writes.  SQLite locks nothing for the read, so other requests run in    *)
(* between.  The mapper writes only the columns that differ from what the  *)
(* request had read.  Passwords and second factors belong to the sign-in   *)
(* and are not part of this module.                                        *)
(***************************************************************************)
CONSTANTS
    User,       \* account ids
    Request     \* requests in progress

VARIABLES
    account,    \* the committed rows of the users table
    task        \* per request, what it has decided and not written yet

vars == <<account, task>>

Roles == {"admin", "operator", "viewer"}

Row == [present: BOOLEAN, role: Roles, active: BOOLEAN]

NoRow == [present |-> FALSE, role |-> "viewer", active |-> FALSE]

\* seen is the row the request read, row what it shall become; admins is history:
\* the administrators there were when it counted them.
Idle == [step |-> "idle", users |-> {}, seen |-> NoRow, row |-> NoRow, admins |-> {}]

IsAdmin(u) == account[u].present /\ account[u].active /\ account[u].role = "admin"

Admins == {u \in User : IsAdmin(u)}

\* A database that was set up: there is an administrator (_bootstrap_admin).
Init ==
    /\ account \in {a \in [User -> Row] : \A u \in User : ~a[u].present => a[u] = NoRow}
    /\ \E u \in User : IsAdmin(u)
    /\ task = [r \in Request |-> Idle]

-------------------------------------------------------------------------------

\* Slip: disabled administrators are counted.
LastAdmin_CountsDisabled(u) ==
    /\ account[u].role = "admin"
    /\ \A other \in User \ {u} : ~(account[other].present /\ account[other].role = "admin")

\* _last_admin: nobody else is an active administrator.
LastAdmin(u) ==
    account[u].role = "admin" /\ \A other \in User \ {u} : ~IsAdmin(other)

\* require_role(ROLE_ADMIN), and the request has an account to work on.
MayAdminister(r, actor, u) ==
    /\ task[r].step = "idle"
    /\ IsAdmin(actor)
    /\ account[u].present

\* An account in use gets a name that is free; the insert is one statement.
Create(r, actor, u, role, active) ==
    /\ task[r].step = "idle"
    /\ IsAdmin(actor)
    /\ ~account[u].present
    /\ account' = [account EXCEPT ![u] = [present |-> TRUE, role |-> role, active |-> active]]
    /\ UNCHANGED task

DecideEdit(r, actor, u, role, active) ==
    /\ MayAdminister(r, actor, u)
    /\ LastAdmin(u) => role = "admin" /\ active
    /\ task' = [task EXCEPT ![r] =
                  [step |-> "edit", users |-> {u}, seen |-> account[u],
                   row |-> [present |-> TRUE, role |-> role, active |-> active],
                   admins |-> Admins]]
    /\ UNCHANGED account

\* Slip: the edit form writes back what it read.
Merged_WholeRow(row, t) == t.row

Merged(row, t) ==
    [present |-> TRUE,
     role    |-> IF t.row.role # t.seen.role THEN t.row.role ELSE row.role,
     active  |-> IF t.row.active # t.seen.active THEN t.row.active ELSE row.active]

\* A row that is gone meanwhile is an error (StaleDataError) and no write.
WriteEdit(r) ==
    /\ task[r].step = "edit"
    /\ account' = [u \in User |->
                     IF u \in task[r].users /\ account[u].present
                     THEN Merged(account[u], task[r]) ELSE account[u]]
    /\ task' = [task EXCEPT ![r] = Idle]

\* Everybody but oneself and the last administrator.
DecideDelete(r, actor, u) ==
    /\ MayAdminister(r, actor, u)
    /\ u # actor
    /\ ~LastAdmin(u)
    /\ task' = [task EXCEPT ![r] =
                  [step |-> "delete", users |-> {u}, seen |-> account[u], row |-> NoRow,
                   admins |-> Admins]]
    /\ UNCHANGED account

WriteDelete(r) ==
    /\ task[r].step = "delete"
    /\ account' = [u \in User |-> IF u \in task[r].users THEN NoRow ELSE account[u]]
    /\ task' = [task EXCEPT ![r] = Idle]

\* The database is busy or the process ends: nothing was written.
Abandon(r) ==
    /\ task[r].step # "idle"
    /\ task' = [task EXCEPT ![r] = Idle]
    /\ UNCHANGED account

Next ==
    \E r \in Request :
        \/ \E actor, u \in User :
              \/ \E role \in Roles, active \in BOOLEAN :
                    Create(r, actor, u, role, active) \/ DecideEdit(r, actor, u, role, active)
              \/ DecideDelete(r, actor, u)
        \/ WriteEdit(r)
        \/ WriteDelete(r)
        \/ Abandon(r)

Spec == Init /\ [][Next]_vars

-------------------------------------------------------------------------------
(* Properties *)

TypeOK ==
    /\ account \in [User -> Row]
    /\ task \in [Request -> [step: {"idle", "edit", "delete"}, users: SUBSET User,
                             seen: Row, row: Row, admins: SUBSET User]]

\* docs/PORTAL.md: the last active administrator can be neither deleted nor
\* demoted.  Whatever sequence of requests: somebody can still administer.
AdminRemains == Admins # {}

\* What the code does ensure (_last_admin): only a request that was overtaken by
\* another change of the administrators since it counted them takes the last one
\* away, however reads and writes interleave otherwise.
LastAdminProtected ==
    [][AdminRemains /\ ~AdminRemains' =>
          \E r \in Request :
              task[r].step # "idle" /\ task'[r] = Idle /\ task[r].admins # Admins]_vars

\* An edit that leaves the role alone does not bring back a role that another
\* request took away meanwhile: nobody becomes an active administrator but by a
\* request that asked for the role or for the activation.
NoAdminByAccident ==
    [][\A u \in User : ~IsAdmin(u) /\ IsAdmin(u)' =>
          \/ ~account[u].present
          \/ \E r \in Request :
                /\ task[r].step = "edit" /\ u \in task[r].users /\ task'[r] = Idle
                /\ \/ task[r].row.role # task[r].seen.role
                   \/ task[r].row.active # task[r].seen.active]_vars
===============================================================================
