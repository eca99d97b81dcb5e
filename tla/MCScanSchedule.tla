---------------------------- MODULE MCScanSchedule ----------------------------
(***************************************************************************)
(* ScanSchedule for TLC.  The constants are bound in the .cfg files; this  *)
(* module adds the behaviours in which the customers stay as they are, so  *)
(* that a counterexample owes nothing to a moved slot or a disabled row.   *)
(***************************************************************************)
EXTENDS ScanSchedule

SameCustomers ==
    \A c \in Customer :
        /\ db'[c].present = db[c].present
        /\ db'[c].active = db[c].active
        /\ db'[c].slot = db[c].slot

\* Time passes in sleeps, waits and scans, not between two statements.
TimePassesInWaits == now' # now => pc[Scheduler] # "work" \/ lock # Nobody

QuietSpec == Init /\ [][Next /\ SameCustomers /\ TimePassesInWaits]_vars
===============================================================================
