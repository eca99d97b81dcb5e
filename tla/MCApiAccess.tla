------------------------------ MODULE MCApiAccess ------------------------------
(***************************************************************************)
(* ApiAccess for TLC: one key that may be issued, and the buckets of its   *)
(* calls, of attempts at it and at another, of one address and of one      *)
(* customer's checks.                                                      *)
(***************************************************************************)
EXTENDS ApiAccess, FiniteSetsExt, TLC

CONSTANTS issued, calls, tries, strange, address, checks

OneKey == [q \in {issued} |-> calls]

OnePerPrefix == [p \in {issued, Other} |-> IF p = issued THEN tries ELSE strange]

Ones == [l \in Key |-> 1]

\* The check limit has a window of two seconds, the others of one.
Windows == [l \in Key |-> (IF l = checks THEN 2 ELSE 1) * Second]

\* Nothing reads the answer of a call that is over, when a key was last used,
\* what a key that is not in force was allowed, or history older than its
\* window, so states that differ in nothing else are one.
Pending == [l \in Caller |-> IF call[l].step = "read" THEN <<call[l].key, call[l].jetzt>> ELSE <<>>]

InForce == [l \in ApiKey |-> <<row[l].state, row[l].state = "active" /\ row[l].writes>>]

Serving == [l \in Caller |-> [req[l] EXCEPT !.seen = <<@.state, @.writes>>]]

Recent(history, l) == SelectSeq(history, LAMBDA moment : now - moment < fenster[l] + MaxDelay)

Reading == <<now, eimer, table, Pending, InForce, Serving, Recent(refused, address),
             [l \in Key |-> Recent(admitted[l], l)],
             [l \in ApiKey |-> Recent(served[l], General[l])]>>

Threads == Permutations(Caller)
===============================================================================
