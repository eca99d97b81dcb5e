------------------------------- MODULE CheckLog -------------------------------
(***************************************************************************)
(* What the portal promises about the stored result of each customer: a    *)
(* check is one atomic entry.  A success replaces the data, the moment     *)
(* their age counts from and the status together; a failure moves the      *)
(* attempt forward and leaves the data alone.  Between two checks nothing  *)
(* changes, whatever the schedule, the buttons and restarts do.            *)
(*                                                                         *)
(* One kind of entry is less than that: a check that began for a deleted   *)
(* customer may end as the first check of a new one with the same id and   *)
(* leave the status "pending".  Such an entry is marked foreign; a foreign *)
(* failure counts an age although there are no data.                       *)
(***************************************************************************)
EXTENDS Integers

CONSTANT Customer

Never == -1
Moment == Nat \cup {Never}

VARIABLES
    clock,   \* the time of day, ever growing
    log      \* per customer, the entry a sensor is served from

vars == <<clock, log>>

Entry == [open: BOOLEAN, checked: Moment, status: {"pending", "ok", "error"},
          data: Moment, basis: Moment, foreign: BOOLEAN]

Blank(open) == [open |-> open, checked |-> Never, status |-> "pending",
                data |-> Never, basis |-> Never, foreign |-> FALSE]

\* The age of an entry is the age of its data, or it is unknown.  A foreign entry
\* may have an age without data.
Honest(entry) ==
    \/ entry.basis \in {entry.data, Never}
    \/ entry.foreign /\ entry.data = Never

\* Entries an earlier version wrote are honest as well, and not ahead of the clock.
Past(entry) == entry.checked <= clock /\ entry.data <= clock

Init ==
    /\ clock \in Nat
    /\ log \in [Customer -> {entry \in Entry : ~entry.foreign /\ Honest(entry) /\ Past(entry)}]

Pass ==
    /\ clock' = clock + 1
    /\ UNCHANGED log

Enter(c, entry) ==
    /\ log' = [log EXCEPT ![c] = entry]
    /\ UNCHANGED clock

Open(c) == ~log[c].open /\ Enter(c, Blank(TRUE))

Close(c) == log[c].open /\ Enter(c, Blank(FALSE))

Succeed(c) ==
    /\ log[c].open
    /\ Enter(c, [open |-> TRUE, checked |-> clock, status |-> "ok",
                 data |-> clock, basis |-> clock, foreign |-> FALSE])

\* After a failure the age may become unknown; it never becomes smaller, and it is
\* not that of a foreign attempt.
Fail(c) ==
    /\ log[c].open
    /\ \E basis \in {log[c].basis, Never} \cap {log[c].data, Never} :
          Enter(c, [open |-> TRUE, checked |-> clock, status |-> "error",
                    data |-> log[c].data, basis |-> basis, foreign |-> FALSE])

\* The check of a customer that is gone, entered with its successor: with the data
\* of this moment, or without any.
Stray(c) ==
    /\ log[c] = Blank(TRUE)
    /\ \E taken \in {clock, Never} :
          Enter(c, [open |-> TRUE, checked |-> clock, status |-> "pending",
                    data |-> taken, basis |-> clock, foreign |-> TRUE])

Next ==
    \/ Pass
    \/ \E c \in Customer : Open(c) \/ Close(c) \/ Succeed(c) \/ Fail(c) \/ Stray(c)

Spec == Init /\ [][Next]_vars
===============================================================================
