------------------------------ MODULE TenantCache ------------------------------
(***************************************************************************)
(* The credential cache of the monitor service (app/server.py): worker     *)
(* threads of the HTTP server and the push loop read the configured        *)
(* tenants and ask for one or all of them, with or without force.          *)
(*                                                                         *)
(* get_credentials reads the clock, looks under _cache_lock, calls         *)
(* Microsoft Graph without the lock and stores under the lock again, with  *)
(* the clock reading it started from.  Other workers run in between, and   *)
(* tenants.json may change: a page goes on with what it has read.          *)
(*                                                                         *)
(* Credentials stand for the moment Graph read them and for the variant of *)
(* the tenant's entry they were fetched with: directory, application and   *)
(* include_sp.  Everything else of an entry is applied afterwards.         *)
(***************************************************************************)
EXTENDS Integers

CONSTANTS
    Tenant,    \* cfg.key of the configured tenants
    Variant,   \* what an entry may say about what is fetched
    Absent,    \* no entry
    Worker,    \* request threads and the push loop
    NoTenant,  \* a worker that has not asked yet
    TTL,       \* CACHE_TTL
    MaxPage,   \* bound: how long after reading the entries the last tenant is asked for
    Horizon    \* bound: the clock stops here

ASSUME CacheAssumption ==
    /\ TTL \in Nat
    /\ MaxPage \in Nat
    /\ Horizon \in Nat
    /\ NoTenant \notin Tenant
    /\ Absent \notin Variant

VARIABLES
    now,      \* time.time()
    file,     \* the entries of tenants.json
    until,    \* history: the last moment an entry read that way and no longer does
    _cache,   \* per tenant the stamp and the credentials
    work      \* per worker, the request in progress or its last answer

vars == <<now, file, until, _cache, work>>

Never == -1
Moment == Nat \cup {Never}

NoEntry == [stamp |-> Never, data |-> Never, variant |-> Absent]

NoPage == [t \in {} |-> Absent]

\* page is what is left of the entries that were read and have to be shown.
NoWork == [step |-> "idle", page |-> NoPage, loaded |-> 0, force |-> FALSE,
           tenant |-> NoTenant, variant |-> Absent, asked |-> 0, data |-> Never]

Init ==
    /\ now = 0
    /\ file \in [Tenant -> Variant \cup {Absent}]
    /\ until = [t \in Tenant |-> [v \in Variant |-> Never]]
    /\ _cache = [t \in Tenant |-> NoEntry]
    /\ work = [w \in Worker |-> NoWork]

-------------------------------------------------------------------------------
(* What is asked for *)

Configured == {t \in Tenant : file[t] # Absent}

\* load_tenants: /prtg shows one tenant, / and /json one or all, /refresh and
\* the push loop the same with force.
LoadTenants(w, shown, force) ==
    /\ work[w].step = "idle" /\ work[w].page = NoPage
    /\ work' = [work EXCEPT ![w] =
                  [NoWork EXCEPT !.page = [t \in shown |-> file[t]],
                                 !.loaded = now, !.force = force]]
    /\ UNCHANGED <<now, file, until, _cache>>

\* now = time.time(), for the next tenant of the page.
Ask(w, t) ==
    LET page == work[w].page
    IN  /\ work[w].step = "idle"
        /\ t \in DOMAIN page
        /\ work' = [work EXCEPT ![w] =
                      [@ EXCEPT !.step = "asked", !.tenant = t, !.variant = page[t],
                                !.page = [u \in DOMAIN page \ {t} |-> page[u]],
                                !.asked = now, !.data = Never]]
        /\ UNCHANGED <<now, file, until, _cache>>

-------------------------------------------------------------------------------
(* get_credentials *)

\* Slip: force is not looked at.
Hit_Forced(w) ==
    LET entry == _cache[work[w].tenant]
    IN  /\ entry # NoEntry
        /\ work[w].asked - entry.stamp < TTL

Hit(w) ==
    LET entry == _cache[work[w].tenant]
    IN  /\ entry # NoEntry
        /\ ~work[w].force
        /\ work[w].asked - entry.stamp < TTL

\* The answer for one tenant is made; what it was made from stays in work as
\* history.  The cache is not touched by an error.
Finish(w, data, variant) ==
    work' = [work EXCEPT ![w].step = "idle", ![w].data = data, ![w].variant = variant]

\* Slip: whoever looks prolongs the entry.
ServeHit_Prolongs(w) ==
    LET t == work[w].tenant
    IN  /\ work[w].step = "asked"
        /\ Hit(w)
        /\ Finish(w, _cache[t].data, _cache[t].variant)
        /\ _cache' = [_cache EXCEPT ![t].stamp = work[w].asked]
        /\ UNCHANGED <<now, file, until>>

ServeHit(w) ==
    LET entry == _cache[work[w].tenant]
    IN  /\ work[w].step = "asked"
        /\ Hit(w)
        /\ Finish(w, entry.data, entry.variant)
        /\ UNCHANGED <<now, file, until, _cache>>

CallGraph(w) ==
    /\ work[w].step = "asked"
    /\ ~Hit(w)
    /\ work' = [work EXCEPT ![w].step = "graph"]
    /\ UNCHANGED <<now, file, until, _cache>>

GraphReads(w) ==
    /\ work[w].step = "graph"
    /\ work' = [work EXCEPT ![w].step = "store", ![w].data = now]
    /\ UNCHANGED <<now, file, until, _cache>>

\* No token, an HTTP error, a page that cannot be read: whatever was collected
\* is lost, and the cache keeps what it has.
GraphFails(w) ==
    /\ work[w].step \in {"graph", "store"}
    /\ Finish(w, Never, work[w].variant)
    /\ UNCHANGED <<now, file, until, _cache>>

\* Slip: stamped when stored.
StoreAndServe_StampLate(w) ==
    LET this == work[w]
    IN  /\ this.step = "store"
        /\ _cache' = [_cache EXCEPT ![this.tenant] =
                        [stamp |-> now, data |-> this.data, variant |-> this.variant]]
        /\ Finish(w, this.data, this.variant)
        /\ UNCHANGED <<now, file, until>>

StoreAndServe(w) ==
    LET this == work[w]
    IN  /\ this.step = "store"
        /\ _cache' = [_cache EXCEPT ![this.tenant] =
                        [stamp |-> this.asked, data |-> this.data, variant |-> this.variant]]
        /\ Finish(w, this.data, this.variant)
        /\ UNCHANGED <<now, file, until>>

-------------------------------------------------------------------------------
(* The environment *)

\* Somebody edits tenants.json.
Configure(t, v) ==
    /\ file[t] # v
    /\ file' = [file EXCEPT ![t] = v]
    /\ until' = [until EXCEPT ![t] = [u \in Variant |-> IF u = file[t] THEN now ELSE @[u]]]
    /\ UNCHANGED <<now, _cache, work>>

Tick ==
    /\ now < Horizon
    /\ \A w \in Worker : work[w].page # NoPage => now < work[w].loaded + MaxPage
    /\ now' = now + 1
    /\ UNCHANGED <<file, until, _cache, work>>

Next ==
    \/ Tick
    \/ \E t \in Tenant, v \in Variant \cup {Absent} : Configure(t, v)
    \/ \E w \in Worker :
          \/ \E t \in Configured, force \in BOOLEAN : LoadTenants(w, {t}, force)
          \/ \E force \in BOOLEAN : LoadTenants(w, Configured, force)
          \/ \E t \in Tenant : Ask(w, t)
          \/ ServeHit(w)
          \/ CallGraph(w)
          \/ GraphReads(w)
          \/ GraphFails(w)
          \/ StoreAndServe(w)

Spec == Init /\ [][Next]_vars

-------------------------------------------------------------------------------
(* Properties *)

Entry == [stamp: Moment, data: Moment, variant: Variant \cup {Absent}]

Pages == UNION {[S -> Variant] : S \in SUBSET Tenant}

Work == [step: {"idle", "asked", "graph", "store"}, page: Pages, loaded: Nat,
         force: BOOLEAN, tenant: Tenant \cup {NoTenant}, variant: Variant \cup {Absent},
         asked: Nat, data: Moment]

TypeOK ==
    /\ now \in Nat
    /\ file \in [Tenant -> Variant \cup {Absent}]
    /\ until \in [Tenant -> [Variant -> Moment]]
    /\ _cache \in [Tenant -> Entry]
    /\ work \in [Worker -> Work]

\* The cache never takes credentials for newer than they are, although the
\* stamp and the credentials come from different moments and workers store in
\* any order: what counts as fresh is fresh.
StampNeverAhead ==
    \A t \in Tenant : _cache[t].stamp <= _cache[t].data

\* The answer for a tenant is made in this step.
Answers(w) == work[w].step \in {"asked", "store"} /\ work'[w].step = "idle" /\ work'[w].data # Never

\* Whoever stored last, an answer is made from credentials that were less than
\* CACHE_TTL old when it was asked for, or read since; a forced answer always
\* from credentials read since.
AnswerIsFresh ==
    [][\A w \in Worker : Answers(w) =>
          LET answer == work'[w]
          IN  /\ answer.asked - answer.data < TTL \/ answer.data >= answer.asked
              /\ answer.force => answer.data >= answer.asked]_vars

\* When the entry of a tenant last said this about what is fetched.
LastSaid(t, v) == IF file[t] = v THEN now ELSE until[t][v]

\* A change of what is fetched for a tenant shows in time, although the cache
\* knows a tenant by its key alone and slow pages go on storing what an entry
\* said before: no answer is made from credentials fetched for an entry that was
\* replaced CACHE_TTL (and the time a page may take) before it was asked for.
ChangeShowsInTime ==
    [][\A w \in Worker : Answers(w) =>
          LET answer == work'[w]
              gone == answer.asked - LastSaid(answer.tenant, answer.variant)
          IN  gone <= MaxPage \/ gone < MaxPage + TTL]_vars
===============================================================================
