------------------------------- MODULE RateLimit -------------------------------
(***************************************************************************)
(* The sliding window limiter of the portal (portal/ratelimit.py): buckets *)
(* of event times in process memory, one per named limit and identity,     *)
(* used by the API's authentication, by its request limit and by the two   *)
(* ways to force a check.                                                  *)
(*                                                                         *)
(* A call reads the clock first and takes the lock afterwards.  Everything *)
(* it does under the lock is one step; between the two, other calls run    *)
(* and time passes, at most MaxDelay.  The clock is a float in the code;   *)
(* here it counts ticks, of which a second has several, and so do the      *)
(* windows, which are whole seconds.  Only Retry-After is in seconds.      *)
(***************************************************************************)
EXTENDS Integers, Sequences, FiniteSets

CONSTANTS
    Key,         \* the keys "name|kennung" of the table
    Caller,      \* threads that call pruefe
    anzahl,      \* per key, how many events its limit admits
    fenster,     \* per key, in how long a time
    Second,      \* ticks in a second
    MaxEimer,    \* MAX_EIMER
    AelterAls,   \* aelter_als: the age at which a bucket is cleared away
    MaxDelay,    \* bound: how long a call waits between clock and lock
    Horizon      \* bound: the clock stops here

ASSUME LimitAssumption ==
    /\ anzahl \in [Key -> Nat \ {0}]
    /\ fenster \in [Key -> Nat \ {0}]
    /\ Second \in Nat \ {0}
    /\ \A k \in Key : fenster[k] % Second = 0
    /\ AelterAls \in Nat
    /\ \A k \in Key : fenster[k] <= AelterAls
    /\ MaxEimer \in Nat \ {0}
    /\ MaxDelay \in Nat
    /\ Horizon \in Nat

VARIABLES
    now,       \* time.monotonic()
    eimer,     \* _EIMER; a key that is not in the table has an empty bucket
    table,     \* the keys that are in the table
    call,      \* per caller, the call in progress or its answer
    admitted   \* history: per key, when each admitted call was admitted

vars == <<now, eimer, table, call, admitted>>

NoKey == "none"

\* A call has read the clock and not yet taken the lock, or it is over and
\* left its answer.
Idle == [step |-> "idle", key |-> NoKey, jetzt |-> 0, ok |-> FALSE, full |-> FALSE, wait |-> 0]

Init ==
    /\ now = 0
    /\ eimer = [k \in Key |-> <<>>]
    /\ table = {}
    /\ call = [c \in Caller |-> Idle]
    /\ admitted = [k \in Key |-> <<>>]

-------------------------------------------------------------------------------

\* jetzt = _jetzt()
ReadClock(c, k) ==
    /\ call[c].step # "read"
    /\ call' = [call EXCEPT ![c] = [Idle EXCEPT !.step = "read", !.key = k, !.jetzt = now]]
    /\ UNCHANGED <<now, eimer, table, admitted>>

Expired(e, k, jetzt) == jetzt - e >= fenster[k]

\* The loop at the head of a bucket drops its first n events and no more.
Drops(bucket, n, k, jetzt) ==
    /\ \A i \in 1..n : Expired(bucket[i], k, jetzt)
    /\ n < Len(bucket) => ~Expired(bucket[n + 1], k, jetzt)

\* Slip: the fraction of the last second is lost.
Wait_Truncated(head, k, jetzt) ==
    LET left == (fenster[k] - (jetzt - head)) \div Second
    IN  IF left < 1 THEN 1 ELSE left

\* Whole seconds until the head expires: int() drops the fraction, and the second
\* added covers it.
Wait(head, k, jetzt) ==
    LET left == (fenster[k] - (jetzt - head)) \div Second + 1
    IN  IF left < 1 THEN 1 ELSE left

\* Slip: the age is not compared with anything.
Stale_AnyAge(k, jetzt) == eimer[k] = <<>> \/ jetzt - eimer[k][Len(eimer[k])] > 0

\* _raeume_auf: buckets without events, or whose last event is long past.
Stale(k, jetzt) ==
    \/ eimer[k] = <<>>
    \/ jetzt - eimer[k][Len(eimer[k])] > AelterAls

Cleared(jetzt) == {k \in table : Stale(k, jetzt)}

\* The whole of pruefe after the lock is taken.  A new key that finds the table
\* full first clears it; if nothing goes, the key is turned away.
Full == Cardinality(table) >= MaxEimer

\* Slip: cleared buckets are counted and not deleted.
Known_NothingGoes(k, jetzt) == table \cup {k}

Known(k, jetzt) ==
    IF k \notin table /\ Full THEN (table \ Cleared(jetzt)) \cup {k} ELSE table \cup {k}

TurnAway(c) ==
    /\ call[c].step = "read"
    /\ call[c].key \notin table
    /\ Full
    /\ Cleared(call[c].jetzt) = {}
    /\ call' = [call EXCEPT ![c] = [Idle EXCEPT !.full = TRUE, !.wait = 1]]
    /\ UNCHANGED <<now, eimer, table, admitted>>

Register(c) ==
    LET k == call[c].key
        jetzt == call[c].jetzt
    IN  /\ call[c].step = "read"
        /\ k \in table \/ ~Full \/ Cleared(jetzt) # {}
        /\ table' = Known(k, jetzt)
        /\ \E n \in 0..Len(eimer[k]) :
              LET left == SubSeq(eimer[k], n + 1, Len(eimer[k]))
                  kept == [j \in Key |-> IF j \in table' THEN eimer[j] ELSE <<>>]
              IN  /\ Drops(eimer[k], n, k, jetzt)
                  /\ IF Len(left) >= anzahl[k]
                     THEN /\ eimer' = [kept EXCEPT ![k] = left]
                          /\ call' = [call EXCEPT ![c] =
                                        [Idle EXCEPT !.wait = Wait(left[1], k, jetzt)]]
                          /\ UNCHANGED admitted
                     ELSE /\ eimer' = [kept EXCEPT ![k] = Append(left, jetzt)]
                          /\ call' = [call EXCEPT ![c] = [Idle EXCEPT !.ok = TRUE]]
                          /\ admitted' = [admitted EXCEPT ![k] = Append(admitted[k], now)]
        /\ UNCHANGED now

\* No call waits longer than MaxDelay for the lock.
Tick ==
    /\ now < Horizon
    /\ \A c \in Caller : call[c].step = "read" => now < call[c].jetzt + MaxDelay
    /\ now' = now + 1
    /\ UNCHANGED <<eimer, table, call, admitted>>

Next ==
    \/ Tick
    \/ \E c \in Caller :
          \/ \E k \in Key : ReadClock(c, k)
          \/ TurnAway(c)
          \/ Register(c)

Spec == Init /\ [][Next]_vars

-------------------------------------------------------------------------------
(* Properties *)

Answer == [step: {"idle", "read"}, key: Key \cup {NoKey}, jetzt: Nat,
           ok: BOOLEAN, full: BOOLEAN, wait: Nat]

TypeOK ==
    /\ now \in Nat
    /\ eimer \in [Key -> Seq(Nat)]
    /\ table \subseteq Key
    /\ call \in [Caller -> Answer]
    /\ admitted \in [Key -> Seq(Nat)]

\* At most anzahl calls are admitted in any fenster, short of the time a call
\* may lose between reading the clock and taking the lock: whatever was cleared
\* away, whoever was rejected and in whatever order the lock was won.
WindowHolds ==
    \A k \in Key : \A i \in 1..Len(admitted[k]) :
        i + anzahl[k] <= Len(admitted[k])
            => admitted[k][i + anzahl[k]] - admitted[k][i] >= fenster[k] - MaxDelay

\* The table never outgrows its cap, although keys are added and cleared away
\* by the same call.
TableBounded ==
    /\ Cardinality(table) <= MaxEimer
    /\ \A k \in Key : k \notin table => eimer[k] = <<>>

\* Retry-After is long enough: when so many whole seconds are over, the event that
\* blocked the call has left the window, at whatever fraction of a second the two
\* came.
RetryLongEnough ==
    [][\A c \in Caller :
          call[c].step = "read" /\ call'[c].step = "idle" /\ ~call'[c].ok /\ ~call'[c].full
              => Expired(eimer'[call[c].key][1], call[c].key, call[c].jetzt + call'[c].wait * Second)]_vars
===============================================================================
