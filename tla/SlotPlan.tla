------------------------------- MODULE SlotPlan -------------------------------
(***************************************************************************)
(* Which minute of the day each customer is scanned at: assign_slot and    *)
(* redistribute_slots (portal/scheduler.py) and the requests that call     *)
(* them (views/customers.py, views/api.py).                                *)
(*                                                                         *)
(* SQLite opens a transaction with the first write, so a request that      *)
(* selects first and writes later is two steps with others in between.     *)
(* The API flushes its new row before it looks for a slot and does all of  *)
(* it under the write lock: one step.                                      *)
(***************************************************************************)
EXTENDS Integers, FiniteSets, FiniteSetsExt

CONSTANTS
    Customer,        \* numbers in the order of the customers' keys
    Request,         \* requests in progress
    MinutesPerDay,   \* MINUTES_PER_DAY
    RoundsDown       \* <<index, n>> for which int(index * (1440 / n)) falls
                     \* one below a whole result, such as <<11, 33>>

ASSUME SlotAssumption ==
    /\ Customer \subseteq Nat
    /\ IsFiniteSet(Customer)
    /\ MinutesPerDay \in Nat \ {0}
    /\ \A pair \in RoundsDown :
          /\ pair[1] \in 1..(pair[2] - 1)
          /\ (pair[1] * MinutesPerDay) % pair[2] = 0
          /\ MinutesPerDay % pair[2] # 0

Minutes == 0..(MinutesPerDay - 1)

NoSlot == -1

VARIABLES
    slot,   \* the committed slot_minute of each customer; NoSlot: no such row
    task    \* per request, what it read and has not acted upon yet

vars == <<slot, task>>

Plans == [Customer -> Minutes \cup {NoSlot}]

Present(plan) == {c \in Customer : plan[c] # NoSlot}

Used(plan) == {plan[c] : c \in Present(plan)}

\* moves is what the request is going to write, stale says whether the plan has
\* changed since it was read.
Idle == [step |-> "idle", moves |-> [c \in {} |-> NoSlot], stale |-> FALSE]

Init ==
    /\ slot = [c \in Customer |-> NoSlot]
    /\ task = [r \in Request |-> Idle]

-------------------------------------------------------------------------------
(* assign_slot *)

\* Minutes from one used minute to the next one, around midnight; a whole day
\* when there is no other.
Gap(minute, used) ==
    Min({d \in 1..MinutesPerDay : (minute + d) % MinutesPerDay \in used})

\* Slip: the gap over midnight is left out.
WidestStart_InDay(used) ==
    LET starts == IF Cardinality(used) = 1 THEN used ELSE used \ {Max(used)}
    IN  Min({u \in starts : \A v \in starts : Gap(v, used) <= Gap(u, used)})

\* The gap over midnight wins a tie, then the earliest.
WidestStart(used) ==
    LET widest == {u \in used : \A v \in used : Gap(v, used) <= Gap(u, used)}
    IN  IF Max(used) \in widest THEN Max(used) ELSE Min(widest)

\* Slip: a gap over midnight leads out of the day.
AssignSlot_NoModulo(used) ==
    IF used = {} THEN 0
    ELSE LET start == WidestStart(used) IN start + (Gap(start, used) \div 2)

AssignSlot(used) ==
    IF used = {} THEN 0
    ELSE LET start == WidestStart(used)
         IN  (start + (Gap(start, used) \div 2)) % MinutesPerDay

-------------------------------------------------------------------------------
(* redistribute_slots *)

\* Slip: one customer too many.
Spaced_OneMore(index, n) == ((index * MinutesPerDay) \div (n + 1)) % MinutesPerDay

\* int(index * step) % MINUTES_PER_DAY, with a floating point step.
Spaced(index, n) ==
    LET exact == (index * MinutesPerDay) \div n
    IN  (IF <<index, n>> \in RoundsDown THEN exact - 1 ELSE exact) % MinutesPerDay

Rank(c, plan) == Cardinality({d \in Present(plan) : d < c})

\* Slip: the customer's number for its place in the list.
Target_ById(c, plan) == Spaced(c, Cardinality(Present(plan)))

Target(c, plan) == Spaced(Rank(c, plan), Cardinality(Present(plan)))

\* The mapper writes the rows whose value changed, and no other.
Changed(plan) == {c \in Present(plan) : plan[c] # Target(c, plan)}

-------------------------------------------------------------------------------
(* Requests *)

\* What r commits makes out of date what the others have read.
Commits(r, plan) ==
    /\ slot' = plan
    /\ task' = [q \in Request |->
                  IF q = r \/ task[q].step = "idle" THEN Idle
                  ELSE [task[q] EXCEPT !.stale = @ \/ plan # slot]]

\* The plan after a request has written what it was going to.
Written(moves) == [c \in Customer |-> IF c \in DOMAIN moves THEN moves[c] ELSE slot[c]]

Reads(r, step, moves) ==
    /\ task[r].step = "idle"
    /\ task' = [task EXCEPT ![r] = [step |-> step, moves |-> moves, stale |-> FALSE]]
    /\ UNCHANGED slot

\* The web form: the key is free, the slot is chosen, nothing is written yet.
PickSlot(r, c) ==
    /\ slot[c] = NoSlot
    /\ Reads(r, "picked", [d \in {c} |-> AssignSlot(Used(slot))])

\* Session.commit(); a key taken meanwhile is an IntegrityError.
CommitForm(r) ==
    /\ task[r].step = "picked"
    /\ Commits(r, IF \A c \in DOMAIN task[r].moves : slot[c] = NoSlot
                  THEN Written(task[r].moves) ELSE slot)

\* POST /customers: the flushed row already has the default slot 0 when
\* assign_slot looks.
CreateViaApi(r, c) ==
    /\ task[r].step = "idle"
    /\ slot[c] = NoSlot
    /\ Commits(r, [slot EXCEPT ![c] = AssignSlot(Used(slot) \cup {0})])

Delete(r, c) ==
    /\ task[r].step = "idle"
    /\ slot[c] # NoSlot
    /\ Commits(r, [slot EXCEPT ![c] = NoSlot])

\* "Slots neu verteilen": the customers as they are now ...
LoadAll(r) ==
    Reads(r, "loaded", [c \in Changed(slot) |-> Target(c, slot)])

\* ... get their places in one transaction.  If a row to be changed is gone by
\* then, the update counts one row too few (StaleDataError) and is rolled back.
Spread(r) ==
    /\ task[r].step = "loaded"
    /\ Commits(r, IF \A c \in DOMAIN task[r].moves : slot[c] # NoSlot
                  THEN Written(task[r].moves) ELSE slot)

\* The write finds the database busy (a scan holds the write lock), the process
\* ends, or a row has come back under another id: nothing was written.
Abandon(r) ==
    /\ task[r].step # "idle"
    /\ task' = [task EXCEPT ![r] = Idle]
    /\ UNCHANGED slot

Next ==
    \E r \in Request :
        \/ \E c \in Customer : PickSlot(r, c) \/ CreateViaApi(r, c) \/ Delete(r, c)
        \/ CommitForm(r)
        \/ LoadAll(r)
        \/ Spread(r)
        \/ Abandon(r)

Spec == Init /\ [][Next]_vars

-------------------------------------------------------------------------------
(* Properties *)

Moves == UNION {[S -> Minutes] : S \in SUBSET Customer}

TypeOK ==
    /\ slot \in Plans
    /\ task \in [Request -> [step: {"idle", "picked", "loaded"}, moves: Moves, stale: BOOLEAN]]

Sharing(plan) == {pair \in Present(plan) \X Present(plan) :
                     pair[1] # pair[2] /\ plan[pair[1]] = plan[pair[2]]}

\* No two customers come to share a minute, by whatever mix of form, API, deletion
\* and redistribution, and however many share one already.  Only a request whose
\* choice the plan has overtaken puts one where another is (the slot is chosen
\* from a read that nothing locks).
SharedOnlyByOvertaken ==
    [][Sharing(slot)' \subseteq Sharing(slot)
       \/ \E r \in Request : task[r].stale /\ task'[r].step = "idle"]_vars

\* Distance between two minutes, whichever way around the day is shorter.
Distance(m, n) ==
    LET d == (m - n) % MinutesPerDay IN Min({d, MinutesPerDay - d})

\* No minute of the day is farther from every used one.
Farthest(minute, used) ==
    \A other \in Minutes : \E u \in used : \A v \in used :
        Distance(other, u) <= Distance(minute, v)

\* The form's choice lies in the middle of the largest gap: between all
\* customers present when it looked there was no better minute.
ChoiceIsFarthest ==
    [][\A r \in Request :
          task[r].step = "idle" /\ task'[r].step = "picked" /\ Used(slot) # {}
              => \A c \in DOMAIN task'[r].moves :
                     Farthest(task'[r].moves[c], Used(slot))]_vars

\* A redistribution that nobody overtook leaves the day evenly divided, however
\* uneven (or doubly used) it was: neighbours are the even share apart, give or
\* take less than a minute, or less than two when the float rounds down.
Slack(n) == IF \E pair \in RoundsDown : pair[2] = n THEN 2 ELSE 1

EvenlySpread(plan) ==
    LET n == Cardinality(Present(plan))
    IN  /\ Cardinality(Used(plan)) = n
        /\ \A u \in Used(plan) :
              LET off == n * Gap(u, Used(plan)) - MinutesPerDay
              IN  -(n * Slack(n)) < off /\ off < n * Slack(n)

RedistributionEvens ==
    [][\A r \in Request :
          Spread(r) /\ ~task[r].stale => EvenlySpread(slot')]_vars
===============================================================================
