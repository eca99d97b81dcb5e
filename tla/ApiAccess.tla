------------------------------- MODULE ApiAccess -------------------------------
(***************************************************************************)
(* Who gets through to the REST interface (authentifiziere and             *)
(* finde_schluessel in portal/views/api.py), the keys' administration      *)
(* beside it (portal/views/apikeys.py) and the check limit that the        *)
(* interface shares with the button of the web interface.  The limits are  *)
(* those of RateLimit, which this module drives: a request asks for them   *)
(* one after the other, and between any two of its steps other requests,   *)
(* the administrators and the clock go on.                                 *)
(*                                                                         *)
(* A presented key is the row its prefix finds and whether its secret is   *)
(* right.  The form of the hash is left out.  A request without a key is   *)
(* turned away before it touches anything and is not modelled.             *)
(***************************************************************************)
EXTENDS RateLimit

CONSTANTS
    ApiKey,      \* keys that may be issued; a prefix is never issued twice
    Other,       \* stands for every prefix without a row, or no prefix
    General,     \* per key, the limiter's key "api|key:<prefix>"
    Attempts,    \* per prefix, the limiter's key "apikey|prefix:<prefix>"
    Anon,        \* the limiter's key "anon|ip:<address>": behind a proxy, one
    Check        \* the limiter's key "check|<customer>" of one customer

Presented == ApiKey \cup {Other}

ASSUME AccessAssumption ==
    /\ Other \notin ApiKey
    /\ General \in [ApiKey -> Key]
    /\ Attempts \in [Presented -> Key]
    /\ {Anon, Check} \subseteq Key
    /\ \A k, l \in ApiKey : General[k] = General[l] => k = l
    /\ \A k \in ApiKey : General[k] \notin {Anon, Check} \cup {Attempts[p] : p \in Presented}
    /\ Anon \notin {Check} \cup {Attempts[p] : p \in Presented}

VARIABLES
    row,       \* per key, its row in api_keys
    req,       \* per thread, the request it serves
    served,    \* history: per key, when its calls got through
    refused    \* history: when calls were refused as unknown or read-only

accessVars == <<row, req, served, refused>>
allVars == <<vars, accessVars>>

NoRow == [state |-> "none", writes |-> FALSE, used |-> FALSE]

\* A request remembers its key only as long as the key is good.
NoRequest == [step |-> "idle", key |-> Other, seen |-> NoRow,
              check |-> FALSE, limits |-> <<>>, slowed |-> FALSE]

ApiInit ==
    /\ Init
    /\ row = [k \in ApiKey |-> NoRow]
    /\ req = [c \in Caller |-> NoRequest]
    /\ served = [k \in ApiKey |-> <<>>]
    /\ refused = <<>>

-------------------------------------------------------------------------------
(* Administration *)

Issue(k, writes) ==
    /\ row[k].state = "none"
    /\ row' = [row EXCEPT ![k] = [state |-> "active", writes |-> writes, used |-> FALSE]]
    /\ UNCHANGED <<vars, req, served, refused>>

Revoke(k) ==
    /\ row[k].state = "active"
    /\ row' = [row EXCEPT ![k].state = "revoked"]
    /\ UNCHANGED <<vars, req, served, refused>>

Remove(k) ==
    /\ row[k].state \in {"active", "revoked"}
    /\ row' = [row EXCEPT ![k] = [NoRow EXCEPT !.state = "deleted"]]
    /\ UNCHANGED <<vars, req, served, refused>>

-------------------------------------------------------------------------------
(* A request *)

\* finde_schluessel
Finds(p, right) ==
    /\ p \in ApiKey
    /\ row[p].state = "active"
    /\ right

\* Slip: counted before it is known whether the key is right.
Limits_CountedFirst(p, valid) ==
    IF p \in ApiKey THEN <<General[p]>> ELSE <<Attempts[p], Anon>>

\* A good call is counted under its key only, any other one under the prefix
\* it tried and the address it came from.
Limits(p, valid) == IF valid THEN <<General[p]>> ELSE <<Attempts[p], Anon>>

\* The key is looked up, and what it may do compared with what the route needs.
Lookup(c, p, right, writes, check) ==
    LET valid == Finds(p, right) /\ (writes => row[p].writes)
    IN  /\ req[c].step = "idle"
        /\ check => writes
        /\ req' = [req EXCEPT ![c] =
                     IF valid
                     THEN [NoRequest EXCEPT !.step = "found", !.key = p, !.seen = row[p],
                                            !.check = check, !.limits = Limits(p, TRUE)]
                     ELSE [NoRequest EXCEPT !.step = "ask", !.limits = Limits(p, FALSE)]]
        /\ UNCHANGED <<vars, row, served, refused>>

\* Slip: the row is written back as it was read.
Used_WholeRow(there, seen) == [seen EXCEPT !.used = TRUE]

\* The mapper writes the column that changed and leaves the others as they are.
Used(there, seen) == [there EXCEPT !.used = TRUE]

\* last_used_at is committed; if the row was deleted meanwhile the commit fails
\* and with it the request.
UseKey(c) ==
    LET k == req[c].key
    IN  /\ req[c].step = "found"
        /\ IF row[k].state = "deleted"
           THEN req' = [req EXCEPT ![c] = NoRequest] /\ UNCHANGED row
           ELSE /\ row' = [row EXCEPT ![k] = Used(row[k], req[c].seen)]
                /\ req' = [req EXCEPT ![c].step = "ask", ![c].seen = NoRow]
        /\ UNCHANGED <<vars, served, refused>>

\* The button of the web interface has the check limit only.
PressButton(c) ==
    /\ req[c].step = "idle"
    /\ req' = [req EXCEPT ![c] = [NoRequest EXCEPT !.step = "ask", !.limits = <<Check>>]]
    /\ UNCHANGED <<vars, row, served, refused>>

AskLimit(c) ==
    /\ req[c].step = "ask"
    /\ ReadClock(c, Head(req[c].limits))
    /\ req' = [req EXCEPT ![c].step = "wait"]
    /\ UNCHANGED <<row, served, refused>>

\* Slip: the first limit decides.
Slowed_FirstOnly(c) == IF call[c].key = Anon THEN req[c].slowed ELSE ~call'[c].ok

\* Whether any of the limits asked so far said no.
Slowed(c) == req[c].slowed \/ ~call'[c].ok

\* The limiter answers.  Both limits of a bad call are asked, whatever the first
\* one says.
Answered(c) ==
    LET r == req[c]
        rest == Tail(r.limits)
        through == r.key # Other /\ call'[c].ok
    IN  /\ r.step = "wait"
        /\ TurnAway(c) \/ Register(c)
        /\ served' = IF through THEN [served EXCEPT ![r.key] = Append(@, now)] ELSE served
        /\ refused' = IF call[c].key = Anon /\ ~Slowed(c) THEN Append(refused, now) ELSE refused
        /\ \/ /\ rest # <<>>
              /\ req' = [req EXCEPT ![c].step = "ask", ![c].limits = rest, ![c].slowed = Slowed(c)]
           \/ /\ rest = <<>>
              /\ ~(through /\ r.check)
              /\ req' = [req EXCEPT ![c] = NoRequest]
           \* kunde_pruefen: unless the customer does not exist, one more limit.
           \/ /\ through /\ r.check
              /\ \/ req' = [req EXCEPT ![c].step = "ask", ![c].limits = <<Check>>,
                                       ![c].key = Other, ![c].check = FALSE]
                 \/ req' = [req EXCEPT ![c] = NoRequest]
        /\ UNCHANGED row

TimePasses == Tick /\ UNCHANGED accessVars

ApiNext ==
    \/ TimePasses
    \/ \E k \in ApiKey :
          \/ \E writes \in BOOLEAN : Issue(k, writes)
          \/ Revoke(k)
          \/ Remove(k)
    \/ \E c \in Caller :
          \/ \E p \in Presented, right, writes, check \in BOOLEAN :
                Lookup(c, p, right, writes, check)
          \/ UseKey(c)
          \/ PressButton(c)
          \/ AskLimit(c)
          \/ Answered(c)

ApiSpec == ApiInit /\ [][ApiNext]_allVars

-------------------------------------------------------------------------------
(* Properties *)

Rows == [state: {"none", "active", "revoked", "deleted"}, writes: BOOLEAN, used: BOOLEAN]

Requests == [step: {"idle", "found", "ask", "wait"}, key: Presented,
             seen: Rows, check: BOOLEAN, limits: Seq(Key), slowed: BOOLEAN]

ApiTypeOK ==
    /\ TypeOK
    /\ row \in [ApiKey -> Rows]
    /\ req \in [Caller -> Requests]
    /\ served \in [ApiKey -> Seq(Nat)]
    /\ refused \in Seq(Nat)
    /\ \A c \in Caller :
          /\ req[c].step \in {"ask", "wait"} => req[c].limits # <<>>
          /\ req[c].step = "found" => req[c].key \in ApiKey
          /\ call[c].step = "read" <=> req[c].step = "wait"
          /\ req[c].step = "wait" => call[c].key = req[c].limits[1]

\* A revoked or deleted key never comes back, although calls that found it in
\* force write its row after the administrator did.
KeysNeverReturn ==
    [][\A k \in ApiKey : row[k].state \in {"revoked", "deleted"}
          => row'[k].state \in {row[k].state, "deleted"}]_allVars

\* Authentication slows a good key down for good calls of that key only: wrong
\* secrets with its prefix, strange keys from the same address and writes with a
\* read-only key cost it nothing.  So who knows a prefix cannot lock its key, which
\* the comment on the counter of failed attempts fears.  Two things are not said:
\* a key without a bucket is turned away while the table is full, and the check
\* limit, asked after authentication, is shared by all keys and the button.
OwnAllowance ==
    [][\A c \in Caller :
          LET k == req[c].key
              since == now - fenster[General[k]] - MaxDelay
          IN  req[c].step = "wait" /\ req[c].key # Other /\ ~call'[c].ok /\ ~call'[c].full
                  /\ call'[c].step = "idle"
              => Cardinality({i \in DOMAIN served[k] : served[k][i] > since})
                    >= anzahl[General[k]]]_allVars

\* Whatever keys are tried, and although each has a counter of its own, no more
\* calls from one address are refused as unknown or read-only than its limit
\* allows; the others are told to wait.
RefusalsBounded ==
    \A i \in 1..Len(refused) :
        i + anzahl[Anon] <= Len(refused)
            => refused[i + anzahl[Anon]] - refused[i] >= fenster[Anon] - MaxDelay
===============================================================================
