------------------------------- MODULE MCSignIn -------------------------------
(***************************************************************************)
(* SignIn for TLC.  Browsers, requests and recovery codes are not told     *)
(* apart by any action or property.                                        *)
(***************************************************************************)
EXTENDS SignIn, TLC

Symmetry == Permutations(Browser) \cup Permutations(Request) \cup Permutations(Code)

\* Of what a request has read, what the rest of its steps will look at: whether
\* a column differs from the value it is going to write.
Nonzero(t) == t.seen.failed # 0

Open(t) == ~t.seen.locked

Rest(t) ==
    CASE t.step = "raise"    -> <<t.session>>
      [] t.step \in {"raised", "lock"} -> <<t.session>>
      [] t.step = "password" -> <<Nonzero(t), IF t.seen.outdated
                                  THEN <<t.seen.password, t.stale \cap {"password"}>> ELSE <<>>>>
      [] t.step = "claim"    -> <<t.session, t.goal, t.counter, t.stale \cap {"factor"}>>
      [] t.step = "claimed"  -> IF t.goal = "login" THEN <<t.goal, t.session.reenroll>>
                                ELSE <<t.session>>
      [] t.step = "recover"  -> <<t.session, Nonzero(t), Open(t)>>
      [] t.step = "spend"    -> <<t.session, Nonzero(t), Open(t), t.code, t.stale \cap {"codes"}>>
      [] t.step = "complete" -> <<Nonzero(t), Open(t), t.session.reenroll \/ t.goal = "recovery">>
      [] t.step = "enrol"    -> <<t.goal, t.counter, t.seen.last = t.counter,
                                  t.stale \cap {"factor"},
                                  IF t.goal = "login" THEN <<Nonzero(t), Open(t)>>
                                  ELSE <<t.session.user, t.session.reenroll>>>>
      [] t.step = "change"   -> <<t.session, t.seen.must, t.stale \cap {"password"}>>
      [] t.step = "reset"    -> <<t.seen.must, Nonzero(t), Open(t), t.stale \cap {"password"}>>
      [] t.step = "remove"   -> <<t.seen.ready, t.seen.last = 0, t.stale \cap {"factor"}>>
      [] OTHER               -> <<>>

\* No code at or below the row's counter is claimed any more, and those that were
\* taken are (Recorded in SignInProofs): of them only what a request at the claim holds
\* can still matter.
Claiming == {task[r].counter : r \in {q \in Request : task[q].step = "claim"}}

\* Whatever unlocks the account forgets the failures.
Reading == <<row, codes, cookie, used \cap Claiming, spent, IF row.locked THEN 0 ELSE wrong, died,
             [r \in Request |-> <<task[r].step, task[r].from, Rest(task[r])>>]>>
===============================================================================
