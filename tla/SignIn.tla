-------------------------------- MODULE SignIn --------------------------------
(***************************************************************************)
(* Sign-in to the portal (portal/views/auth.py) and what administrators do *)
(* to the password and the second factor of an account                     *)
(* (portal/views/users.py), for one account.                               *)
(*                                                                         *)
(* A request reads the row when it starts and commits once or more often;  *)
(* between any two of these steps other requests commit.  The mapper       *)
(* writes only the columns that differ from what the request had read (a   *)
(* salted hash and a ciphertext always do).  The browser's session is a    *)
(* cookie: a request works on the copy it was sent with, and every answer  *)
(* replaces the whole cookie.                                              *)
(*                                                                         *)
(* Whose code it is that is entered is abstracted to whether the factor    *)
(* was replaced since the request read it, the secret an enrolment shows   *)
(* and confirms to the code that confirms it, and a lock or a window that  *)
(* ends with time to a step that may end it at any time.  A code may be    *)
(* entered whenever, not only in its half minute.                          *)
(***************************************************************************)
EXTENDS Integers, FiniteSets

CONSTANTS
    Browser,     \* sessions
    Request,     \* requests in progress
    Code,        \* the recovery codes of one set
    LoginMax,    \* cfg.login_max_attempts
    Counter,     \* the TOTP counters, whose codes count up with the time
    MaxDied      \* bound: requests that die while they register a failure

ASSUME SignInAssumption ==
    /\ LoginMax \in Nat \ {0}
    /\ Counter \subseteq Nat \ {0}
    /\ MaxDied \in Nat
    /\ IsFiniteSet(Request)

VARIABLES
    row,         \* the account's row in users
    codes,       \* its rows in recovery_codes
    cookie,      \* per browser, the session cookie
    task,        \* per request, where it stands
    used,        \* history: codes taken since the authenticator was set up, and the
                 \* one that confirmed it unless the enrolment was overtaken
    spent,       \* history: recovery codes taken since they were handed out
    wrong,       \* history: failures since the counter was zeroed by other than a lock,
                 \* or the account was unlocked
    died         \* history: requests that died before they could lock, since the
                 \* counter was zeroed

vars == <<row, codes, cookie, task, used, spent, wrong, died>>

Cookie == [pending: BOOLEAN, user: BOOLEAN, reenroll: BOOLEAN]

NoCookie == [pending |-> FALSE, user |-> FALSE, reenroll |-> FALSE]

NoCodes == [there |-> FALSE, used |-> {}]

NewCodes == [there |-> TRUE, used |-> {}]

\* ready: secret and confirmation time, which are set and cleared together.
Row == [ready: BOOLEAN, last: Nat, failed: Nat, locked: BOOLEAN,
        password: {"issued", "chosen"}, must: BOOLEAN, outdated: BOOLEAN]

\* A row as the portal creates it.
NewRow == [ready |-> FALSE, last |-> 0, failed |-> 0, locked |-> FALSE,
           password |-> "issued", must |-> TRUE, outdated |-> FALSE]

\* from is the browser that sent it; stale says what others have changed since
\* it read the row and the codes.
Idle == [step |-> "idle", goal |-> "login", from |-> {}, session |-> NoCookie, seen |-> NewRow,
         counter |-> 0, code |-> {}, stale |-> {}]

\* Accounts of an earlier release may have a hash of weaker parameters.
Init ==
    /\ row \in {NewRow, [NewRow EXCEPT !.outdated = TRUE],
                [NewRow EXCEPT !.ready = TRUE, !.password = "chosen", !.must = FALSE]}
    /\ codes = IF row.ready THEN NewCodes ELSE NoCodes
    /\ cookie = [b \in Browser |-> NoCookie]
    /\ task = [r \in Request |-> Idle]
    /\ used = {}
    /\ spent = {}
    /\ wrong = 0
    /\ died = 0

-------------------------------------------------------------------------------
(* How requests read, commit and answer *)

\* The request of a browser reads the account.
Starts(r, b, step, goal, counter) ==
    /\ task[r].step = "idle"
    /\ task' = [task EXCEPT ![r] =
                  [Idle EXCEPT !.step = step, !.goal = goal, !.from = {b},
                               !.session = cookie[b], !.seen = row, !.counter = counter]]

Goes(r, step) == task' = [task EXCEPT ![r].step = step]

\* What r commits makes what the others have read out of date.
Overtakes(r, what, mine) ==
    task' = [q \in Request |->
               IF q = r THEN mine
               ELSE IF task[q].step = "idle" THEN task[q]
               ELSE [task[q] EXCEPT !.stale = @ \cup what]]

\* The answer carries the whole session the request ends with.
Answers(r, session) ==
    cookie' = [b \in Browser |-> IF b \in task[r].from THEN session ELSE cookie[b]]

\* A column the request found different is written, any other one left alone.
Column(there, seen, new) == IF seen # new THEN new ELSE there

\* The time of a lock is cleared where the request found one; whether one that
\* is over was still in the row is left open.
Unlocked(there, seen) == IF seen THEN {FALSE} ELSE {there, FALSE}

\* Counting starts anew with every commit that zeroes the counter or opens the account.
Zeroed(seen) ==
    /\ wrong' = IF seen.failed # 0 \/ row'.locked # row.locked THEN 0 ELSE wrong
    /\ died' = IF seen.failed # 0 THEN 0 ELSE died

KeepsFactor == UNCHANGED <<codes, used, spent>>
KeepsCount == UNCHANGED <<wrong, died>>

-------------------------------------------------------------------------------
(* A failed attempt (_register_failure) *)

Registering == {r \in Request : task[r].step \in {"raised", "lock"}}

\* Slip: read, add, write.
Raised_FromRead(there, seen) == seen + 1

\* The counter is raised by one UPDATE.
Raised(there, seen) == there + 1

Raise(r) ==
    /\ task[r].step = "raise"
    /\ row' = [row EXCEPT !.failed = Raised(row.failed, task[r].seen.failed)]
    /\ wrong' = wrong + 1
    /\ Goes(r, "raised")
    /\ KeepsFactor
    /\ UNCHANGED <<cookie, died>>

\* Then the row is read again.
Counted(r) ==
    /\ task[r].step = "raised"
    /\ \/ row.failed >= LoginMax /\ Goes(r, "lock") /\ UNCHANGED cookie
       \/ /\ row.failed < LoginMax
          /\ task' = [task EXCEPT ![r] = Idle]
          /\ Answers(r, task[r].session)
    /\ KeepsFactor /\ KeepsCount
    /\ UNCHANGED row

Lock(r) ==
    /\ task[r].step = "lock"
    /\ row' = [row EXCEPT !.locked = TRUE, !.failed = 0]
    /\ died' = 0
    /\ task' = [task EXCEPT ![r] = Idle]
    /\ Answers(r, task[r].session)
    /\ KeepsFactor
    /\ UNCHANGED wrong

-------------------------------------------------------------------------------
(* First factor (login) *)

Login(r, b, right) ==
    /\ ~cookie[b].user
    /\ ~row.locked
    /\ Starts(r, b, IF right THEN "password" ELSE "raise", "login", 0)
    /\ KeepsFactor /\ KeepsCount
    /\ UNCHANGED <<row, cookie>>

\* A hash of weaker parameters is renewed from what was typed.
PassPassword(r) ==
    LET seen == task[r].seen
    IN  /\ task[r].step = "password"
        /\ row' = [row EXCEPT !.failed = Column(@, seen.failed, 0),
                              !.password = IF seen.outdated THEN seen.password ELSE @,
                              !.outdated = IF seen.outdated THEN FALSE ELSE @]
        /\ Zeroed(seen)
        /\ Overtakes(r, IF seen.outdated THEN {"password"} ELSE {}, Idle)
        /\ Answers(r, [NoCookie EXCEPT !.pending = TRUE])
        /\ KeepsFactor

-------------------------------------------------------------------------------
(* Second factor (verify_totp) *)

\* _pending_user, and the page an account with a temporary password is kept in.
MayVerify(b) ==
    /\ cookie[b].pending
    /\ ~row.locked
    /\ row.ready
    /\ ~(cookie[b].user /\ row.must)

\* A right code that was not taken yet (security.verify_totp) ...
EnterCode(r, b, counter) ==
    /\ MayVerify(b)
    /\ Starts(r, b, IF counter > row.last THEN "claim" ELSE "raise", "login", counter)
    /\ KeepsFactor /\ KeepsCount
    /\ UNCHANGED <<row, cookie>>

\* ... or a wrong one ...
EnterWrong(r, b) ==
    /\ MayVerify(b)
    /\ Starts(r, b, "raise", "login", 0)
    /\ KeepsFactor /\ KeepsCount
    /\ UNCHANGED <<row, cookie>>

\* ... or something in the form of a recovery code.
EnterRecovery(r, b) ==
    /\ MayVerify(b)
    /\ Starts(r, b, "recover", "recovery", 0)
    /\ KeepsFactor /\ KeepsCount
    /\ UNCHANGED <<row, cookie>>

\* Slip: an assignment in place of the conditional UPDATE.
Claims_Always(last, counter) == TRUE

\* _claim_totp_counter: the UPDATE finds the row only if the counter moves on.
Claims(last, counter) == last < counter

Claim(r) ==
    LET t == task[r]
    IN  /\ t.step = "claim"
        /\ \/ /\ Claims(row.last, t.counter)
              /\ row' = [row EXCEPT !.last = t.counter]
              /\ used' = IF "factor" \in t.stale THEN used ELSE used \cup {t.counter}
              /\ Goes(r, "claimed")
           \/ /\ ~Claims(row.last, t.counter)
              /\ Goes(r, "raise")
              /\ UNCHANGED <<row, used>>
        /\ KeepsCount
        /\ UNCHANGED <<cookie, codes, spent>>

\* The row is read again; a sign-in goes on to its last commit, a step-up
\* (reenroll_totp) opens the window in which the authenticator may be replaced.
LetIn(r) ==
    LET t == task[r]
    IN  /\ t.step = "claimed"
        /\ \/ /\ t.goal = "login"
              /\ task' = [task EXCEPT ![r].step = "complete", ![r].seen = row]
              /\ UNCHANGED cookie
           \/ /\ t.goal = "stepup"
              /\ task' = [task EXCEPT ![r] = Idle]
              /\ Answers(r, [t.session EXCEPT !.reenroll = TRUE])
        /\ KeepsFactor /\ KeepsCount
        /\ UNCHANGED row

\* The codes are read when one has to be compared.
ReadCodes(r, code) ==
    /\ task[r].step = "recover"
    /\ task' = [task EXCEPT ![r] = [task[r] EXCEPT
                  !.step = IF codes.there /\ code \notin codes.used THEN "spend" ELSE "raise",
                  !.code = {code}, !.stale = @ \ {"codes"}]]
    /\ KeepsFactor /\ KeepsCount
    /\ UNCHANGED <<row, cookie>>

\* Slip: an assignment in place of the conditional UPDATE.
Unspent_Always(code) == codes.there

\* The row of the code is there and not yet used.
Unspent(code) == codes.there /\ code \cap codes.used = {}

\* _consume_recovery_code: a conditional UPDATE by id.  Ids are given out again:
\* a row of the next set may have the id, unless another account's rows took it.
Spend(r) ==
    LET t == task[r]
    IN  /\ t.step = "spend"
        /\ \/ /\ Unspent(t.code)
              /\ codes' = [codes EXCEPT !.used = @ \cup t.code]
              /\ spent' = IF "codes" \in t.stale THEN spent ELSE spent \cup t.code
              /\ Goes(r, "complete")
           \/ /\ ~Unspent(t.code) \/ "codes" \in t.stale
              /\ Goes(r, "raise")
              /\ UNCHANGED <<codes, spent>>
        /\ KeepsCount
        /\ UNCHANGED <<row, cookie, used>>

\* _complete_login.  Whoever spent a recovery code may replace the authenticator.
Complete(r) ==
    LET t == task[r]
    IN  /\ t.step = "complete"
        /\ \E locked \in Unlocked(row.locked, t.seen.locked) :
              row' = [row EXCEPT !.failed = Column(@, t.seen.failed, 0), !.locked = locked]
        /\ Zeroed(t.seen)
        /\ task' = [task EXCEPT ![r] = Idle]
        /\ Answers(r, [t.session EXCEPT !.pending = FALSE, !.user = TRUE,
                                        !.reenroll = @ \/ t.goal = "recovery"])
        /\ KeepsFactor

-------------------------------------------------------------------------------
(* Setting the authenticator up (setup_totp, reenroll_totp) *)

Pending(b) == cookie[b].pending /\ ~row.locked

\* Slip: anybody who passed the password.
MaySetUp_Unguarded(b) == Pending(b) \/ cookie[b].user

MaySetUp(b) ==
    /\ Pending(b) \/ cookie[b].user
    /\ row.ready => cookie[b].reenroll

\* A right code of that secret; a wrong one changes nothing.
ConfirmSecret(r, b, counter) ==
    /\ MaySetUp(b)
    /\ Starts(r, b, "enrol", IF Pending(b) THEN "login" ELSE "setup", counter)
    /\ KeepsFactor /\ KeepsCount
    /\ UNCHANGED <<row, cookie>>

\* The counter of the code that confirmed the secret is used up with it.
Enrolled(there, seen, counter) == Column(there, seen, counter)

\* Secret, counter and eight new codes in one transaction.
Enrol(r) ==
    LET t == task[r]
        session == [t.session EXCEPT !.reenroll = FALSE,
                                     !.pending = @ /\ t.goal = "login"]
    IN  /\ t.step = "enrol"
        /\ row' = [row EXCEPT !.ready = TRUE,
                              !.last = Enrolled(@, t.seen.last, t.counter)]
        /\ codes' = NewCodes
        /\ used' = IF "factor" \in t.stale THEN {} ELSE {t.counter}
        /\ spent' = {}
        /\ IF t.goal = "login"
           THEN /\ Overtakes(r, {"factor", "codes"},
                             [t EXCEPT !.step = "complete", !.session = session])
                /\ UNCHANGED cookie
           ELSE /\ Overtakes(r, {"factor", "codes"}, Idle)
                /\ Answers(r, session)
        /\ KeepsCount

\* The step-up: password and a code that was not taken yet.
StepUp(r, b, right, counter) ==
    /\ cookie[b].user
    /\ row.ready
    /\ ~row.locked
    /\ Starts(r, b, IF right /\ counter > row.last THEN "claim" ELSE "raise", "stepup", counter)
    /\ KeepsFactor /\ KeepsCount
    /\ UNCHANGED <<row, cookie>>

-------------------------------------------------------------------------------
(* The password, signing out, and what administrators do *)

ChangePassword(r, b) ==
    /\ cookie[b].user
    /\ Starts(r, b, "change", "password", 0)
    /\ KeepsFactor /\ KeepsCount
    /\ UNCHANGED <<row, cookie>>

\* Slip: the flag goes only when somebody else has set it.
Forced_NotSet(there, seen) == there

\* must_change_password after an administrator's reset.
Forced(there, seen) == Column(there, seen, TRUE)

\* The owner's own password, which ends the compulsion to change it.
WritePassword(r) ==
    LET t == task[r]
    IN  /\ t.step = "change"
        /\ row' = [row EXCEPT !.password = "chosen", !.outdated = FALSE,
                              !.must = Column(@, t.seen.must, FALSE)]
        /\ Overtakes(r, {"password"}, Idle)
        /\ Answers(r, t.session)
        /\ KeepsFactor /\ KeepsCount

Logout(b) ==
    /\ cookie[b].user
    /\ cookie' = [cookie EXCEPT ![b] = NoCookie]
    /\ KeepsFactor /\ KeepsCount
    /\ UNCHANGED <<row, task>>

\* An administrator's request, from a browser of its own.
Administers(r, step) ==
    /\ task[r].step = "idle"
    /\ task' = [task EXCEPT ![r] = [Idle EXCEPT !.step = step, !.goal = "reset", !.seen = row]]
    /\ KeepsFactor /\ KeepsCount
    /\ UNCHANGED <<row, cookie>>

\* reset_password: a one time password, and the account is open again.
ResetPassword(r) ==
    LET seen == task[r].seen
    IN  /\ task[r].step = "reset"
        /\ \E locked \in Unlocked(row.locked, seen.locked) :
              row' = [row EXCEPT !.password = "issued", !.outdated = FALSE,
                                 !.must = Forced(@, seen.must),
                                 !.failed = Column(@, seen.failed, 0), !.locked = locked]
        /\ Zeroed(seen)
        /\ Overtakes(r, {"password"}, Idle)
        /\ KeepsFactor
        /\ UNCHANGED cookie

\* Slip: the codes stay.
Removed_Kept == codes

\* The recovery codes go with the authenticator.
Removed == NoCodes

\* reset_totp.
ResetTotp(r) ==
    LET seen == task[r].seen
    IN  /\ task[r].step = "remove"
        /\ row' = [row EXCEPT !.ready = Column(@, seen.ready, FALSE),
                              !.last = Column(@, seen.last, 0)]
        /\ codes' = Removed
        /\ used' = {}
        /\ spent' = {}
        /\ Overtakes(r, {"factor", "codes"}, Idle)
        /\ KeepsCount
        /\ UNCHANGED cookie

-------------------------------------------------------------------------------
(* What happens by itself *)

\* The process ends or the database is busy: what was not committed is lost.
Abandon(r) ==
    /\ task[r].step # "idle"
    /\ IF r \in Registering
       THEN died < MaxDied /\ died' = died + 1
       ELSE UNCHANGED died
    /\ task' = [task EXCEPT ![r] = Idle]
    /\ KeepsFactor
    /\ UNCHANGED <<row, cookie, wrong>>

\* The windows of PENDING_MINUTES and REENROLL_MINUTES end; a lock ends the first.
WindowEnds(b) ==
    /\ \/ cookie[b].pending /\ cookie' = [cookie EXCEPT ![b].pending = FALSE]
       \/ cookie[b].reenroll /\ cookie' = [cookie EXCEPT ![b].reenroll = FALSE]
    /\ KeepsFactor /\ KeepsCount
    /\ UNCHANGED <<row, task>>

\* locked_until passes.
LockEnds ==
    /\ row.locked
    /\ row' = [row EXCEPT !.locked = FALSE]
    /\ wrong' = 0
    /\ KeepsFactor
    /\ UNCHANGED <<cookie, task, died>>

Next ==
    \/ \E r \in Request :
          \/ Raise(r) \/ Counted(r) \/ Lock(r)
          \/ PassPassword(r)
          \/ Claim(r) \/ LetIn(r)
          \/ \E code \in Code : ReadCodes(r, code)
          \/ Spend(r) \/ Complete(r)
          \/ Enrol(r)
          \/ WritePassword(r)
          \/ Administers(r, "reset") \/ ResetPassword(r)
          \/ Administers(r, "remove") \/ ResetTotp(r)
          \/ Abandon(r)
    \/ \E r \in Request, b \in Browser :
          \/ \E right \in BOOLEAN : Login(r, b, right)
          \/ \E counter \in Counter :
                \/ EnterCode(r, b, counter)
                \/ ConfirmSecret(r, b, counter)
                \/ \E right \in BOOLEAN : StepUp(r, b, right, counter)
          \/ EnterWrong(r, b)
          \/ EnterRecovery(r, b)
          \/ ChangePassword(r, b)
    \/ \E b \in Browser : Logout(b) \/ WindowEnds(b)
    \/ LockEnds

Spec == Init /\ [][Next]_vars

-------------------------------------------------------------------------------
(* Properties *)

Steps == {"idle", "raise", "raised", "lock", "password", "claim", "claimed", "recover",
          "spend", "complete", "enrol", "change", "reset", "remove"}

Goals == {"login", "recovery", "stepup", "setup", "password", "reset"}

Task == [step: Steps, goal: Goals, from: SUBSET Browser, session: Cookie, seen: Row,
         counter: Nat, code: SUBSET Code, stale: SUBSET {"password", "factor", "codes"}]

TypeOK ==
    /\ row \in Row
    /\ codes \in [there: BOOLEAN, used: SUBSET Code]
    /\ cookie \in [Browser -> Cookie]
    /\ task \in [Request -> Task]
    /\ used \subseteq Nat
    /\ spent \subseteq Code
    /\ wrong \in Nat
    /\ died \in Nat

\* The lockout engages, however many failures are registered at once and whatever
\* sign-ins and resets run beside them: when as many have failed as configured since
\* the counter was zeroed or the account unlocked, the account is locked, short of the
\* failures somebody is just registering and of those whose request died, which leaves
\* the lock to the next one.  What it does not say: the right password alone zeroes the
\* counter, so it bounds the wrong codes between two right passwords and no more.
LockoutEngages == row.locked \/ wrong < LoginMax + died + Cardinality(Registering)

\* A TOTP code gets in once: of requests that arrive with the same code one gets
\* through, also if the authenticator is set up or replaced beside them.  (Left
\* out: a request that read the account before the authenticator was replaced.)
CodeCountsOnce ==
    [][\A r \in Request :
          /\ task[r].step = "claim" /\ task'[r].step = "claimed"
          /\ "factor" \notin task[r].stale
          => task[r].counter \notin used]_vars

\* A recovery code gets in once, unless it was read before a new set was handed
\* out (whose rows have the same ids).
RecoveryCountsOnce ==
    [][\A r \in Request :
          /\ task[r].step = "spend" /\ task'[r].step = "complete"
          /\ "codes" \notin task[r].stale
          => task[r].code \cap spent = {}]_vars

\* Somebody who read the row before another change of that kind commits now.
Overtaken(what) ==
    \E r \in Request : what \in task[r].stale /\ task'[r].step # task[r].step

\* A password an administrator handed out has to be changed.  Only a request
\* overtaken by another change of the password lets it stand: the mapper leaves
\* the flag alone that looked right when the request began.
OneTimePassword == row.password = "issued" => row.must

OneTimePasswordForced ==
    [][OneTimePassword /\ ~OneTimePassword' => Overtaken("password")]_vars

\* An account with an authenticator has the recovery codes it was shown, and one
\* without has none.  Only a reset that an enrolment overtook takes the codes and
\* leaves the authenticator.
FactorWhole == row.ready <=> codes.there

FactorStaysWhole == [][FactorWhole /\ ~FactorWhole' => Overtaken("factor")]_vars

\* The password alone is not enough (setup_totp): an authenticator that is set up
\* is replaced only from a session that is signed in and passed the step-up or
\* spent a recovery code, whatever answers bring old cookies back and whatever
\* resets run beside.  (Left out: a request that read the account before that
\* authenticator was there.)
PasswordAloneIsNotEnough ==
    [][\A r \in Request :
          Enrol(r) /\ row.ready /\ "factor" \notin task[r].stale
          => task[r].session.user /\ task[r].session.reenroll]_vars
===============================================================================
