------------------------------ MODULE SensorPoll ------------------------------
(***************************************************************************)
(* A sensor poll (portal/views/prtg.py) beside the schedule.  The poll     *)
(* takes no lock and runs no transaction: it reads the customer row, then  *)
(* the snapshot rows, and a scan may commit between the two.               *)
(***************************************************************************)
EXTENDS ScanSchedule

VARIABLE poll     \* the poll in progress, or the last answer

pollVars == <<vars, poll>>

NoPoll == [step |-> "none", customer |-> Nobody, basis |-> Never, data |-> Never]

PollInit == Init /\ poll = NoPoll

\* _customer_by_token: an active customer, and with it the moment its data age
\* will be counted from.
ReadCustomer(c) ==
    /\ Up
    /\ poll.step # "row"
    /\ db[c].present /\ db[c].active
    /\ poll' = [step |-> "row", customer |-> c, basis |-> AgeBasis(db[c]), data |-> Never]
    /\ UNCHANGED vars

\* result_from_db: the snapshot as it is now.
ReadSnapshot ==
    /\ Up
    /\ poll.step = "row"
    /\ poll' = [poll EXCEPT !.step = "answered", !.data = snap[poll.customer]]
    /\ UNCHANGED vars

\* A poll dies with the process.
PollSurvives == poll' = IF pc'[Scheduler] = "down" THEN NoPoll ELSE poll

PollNext ==
    \/ Next /\ PollSurvives
    \/ \E c \in Customer : ReadCustomer(c)
    \/ ReadSnapshot

PollSpec == PollInit /\ [][PollNext]_pollVars

-------------------------------------------------------------------------------

PollTypeOK ==
    /\ TypeOK
    /\ poll \in [step: {"none", "row", "answered"}, customer: Customer \cup {Nobody},
                 basis: Moment, data: Moment]

\* The channel Datenalter never understates: the data a sensor gets are at
\* least as recent as the age it gets with them says, although row and
\* snapshot are read one after the other while scans commit.
AgeNeverUnderstates ==
    poll.step = "answered" /\ poll.basis # Never /\ poll.data # Never
        => poll.basis <= poll.data
===============================================================================
