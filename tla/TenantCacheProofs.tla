--------------------------- MODULE TenantCacheProofs ---------------------------
(***************************************************************************)
(* What TenantCache promises, for any number of tenants and workers, any   *)
(* lifetime of an entry, any interleaving and any edits of tenants.json.   *)
(***************************************************************************)
EXTENDS TenantCache, TLAPS

\* What was in force at some moment up to m, give or take the time of a page.
InForce(t, v, m) == v \in Variant /\ m <= LastSaid(t, v) + MaxPage

\* A worker between clock and answer: the clock never ran backwards, what Graph
\* read for it was read after it asked, and it asks for what it found configured
\* no longer than a page ago.
Sound(this) ==
    /\ this.asked <= now
    /\ this.loaded <= now
    /\ this.data <= now
    /\ this.step # "idle" =>
          /\ this.tenant \in Tenant
          /\ InForce(this.tenant, this.variant, this.asked)
    /\ this.step = "store" => this.asked <= this.data
    /\ this.page # NoPage => now <= this.loaded + MaxPage
    /\ \A t \in DOMAIN this.page : this.loaded <= LastSaid(t, this.page[t])

WorkInv == \A w \in Worker : Sound(work[w])

Kept(t, entry) ==
    /\ entry.stamp <= entry.data
    /\ entry.data <= now
    /\ entry # NoEntry => InForce(t, entry.variant, entry.stamp)

CacheInv == \A t \in Tenant : Kept(t, _cache[t])

FileInv == \A t \in Tenant, v \in Variant : until[t][v] <= now

IInv == TypeOK /\ WorkInv /\ CacheInv /\ FileInv

LEMMA PageIs == \A page : page \in Pages <=> /\ DOMAIN page \subseteq Tenant
                                             /\ page \in [DOMAIN page -> Variant]
<1>1. ASSUME NEW page, page \in Pages
      PROVE  DOMAIN page \subseteq Tenant /\ page \in [DOMAIN page -> Variant]
  <2>1. PICK S \in SUBSET Tenant : page \in [S -> Variant]
    BY <1>1 DEF Pages
  <2>2. DOMAIN page = S
    BY <2>1
  <2>3. QED
    BY <2>1, <2>2
<1>2. ASSUME NEW page, DOMAIN page \subseteq Tenant, page \in [DOMAIN page -> Variant]
      PROVE  page \in Pages
  BY <1>2 DEF Pages
<1>3. QED
  BY <1>1, <1>2

LEMMA NoPageIs == NoPage \in Pages /\ DOMAIN NoPage = {}
<1>1. DOMAIN NoPage = {} /\ NoPage \in [{} -> Variant]
  BY DEF NoPage
<1>2. QED
  BY <1>1, PageIs

LEMMA IInvInit == Init => IInv
<1> SUFFICES ASSUME Init PROVE IInv
  OBVIOUS
<1>1. NoWork \in Work /\ NoEntry \in Entry
  BY NoPageIs DEF NoWork, NoEntry, Work, Entry, Moment, Never
<1>2. TypeOK
  BY <1>1 DEF Init, TypeOK, Moment
<1>3. Sound(NoWork) /\ \A t : Kept(t, NoEntry)
  BY NoPageIs DEF Init, Sound, Kept, NoWork, NoEntry, Never
<1>4. WorkInv /\ CacheInv
  BY <1>3 DEF Init, WorkInv, CacheInv
<1>5. FileInv
  BY DEF Init, FileInv, Never
<1>6. QED
  BY <1>2, <1>4, <1>5 DEF IInv

\* No entry ever said something for the last time earlier than it did.
LEMMA SaidOnlyLater ==
    ASSUME IInv, [Next]_vars, NEW t \in Tenant, NEW v \in Variant
    PROVE  /\ LastSaid(t, v) \in Int
           /\ LastSaid(t, v)' \in Int
           /\ LastSaid(t, v) <= LastSaid(t, v)'
           /\ LastSaid(t, v) <= now
<1>1. /\ now \in Nat /\ file \in [Tenant -> Variant \cup {Absent}]
      /\ until \in [Tenant -> [Variant -> Moment]] /\ until[t][v] <= now
  BY DEF IInv, TypeOK, FileInv
<1>2. until[t][v] \in Int
  BY <1>1 DEF Moment, Never
<1>3. CASE UNCHANGED <<file, until>> /\ now' = now
  BY <1>1, <1>2, <1>3 DEF LastSaid
<1>4. CASE Tick
  BY <1>1, <1>2, <1>4 DEF LastSaid, Tick
<1>5. ASSUME NEW u \in Tenant, NEW x \in Variant \cup {Absent}, Configure(u, x)
      PROVE  LastSaid(t, v)' \in Int /\ LastSaid(t, v) <= LastSaid(t, v)'
  <2>1. /\ file' = [file EXCEPT ![u] = x] /\ now' = now
        /\ until' = [until EXCEPT ![u] =
                       [y \in Variant |-> IF y = file[u] THEN now ELSE until[u][y]]]
    BY <1>5 DEF Configure
  <2>2. CASE t # u
    BY <1>1, <1>2, <2>1, <2>2 DEF LastSaid
  <2>3. CASE t = u
    <3>1. until'[t][v] = IF v = file[t] THEN now ELSE until[t][v]
      BY <1>1, <2>1, <2>3
    <3>2. QED
      BY <1>1, <1>2, <2>1, <2>3, <3>1 DEF LastSaid
  <2>4. QED
    BY <2>2, <2>3
<1>6. LastSaid(t, v) \in Int /\ LastSaid(t, v) <= now
  BY <1>1, <1>2 DEF LastSaid
<1>7. \/ UNCHANGED <<file, until>> /\ now' = now
      \/ Tick
      \/ \E u \in Tenant, x \in Variant \cup {Absent} : Configure(u, x)
  BY DEF Next, vars, LoadTenants, Ask, ServeHit, CallGraph, GraphReads, GraphFails, StoreAndServe
<1>8. QED
  BY <1>3, <1>4, <1>5, <1>6, <1>7

\* What a step that replaces one worker's record must show of the new record.
LEMMA OneWorker ==
    ASSUME IInv, NEW w \in Worker, NEW rec \in Work, Sound(rec),
           work' = [work EXCEPT ![w] = rec], UNCHANGED <<now, file, until>>
    PROVE  work' \in [Worker -> Work] /\ WorkInv'
<1>1. work \in [Worker -> Work]
  BY DEF IInv, TypeOK
<1>2. \A v \in Worker : work'[v] = IF v = w THEN rec ELSE work[v]
  BY <1>1
<1>3. \A v \in Worker : Sound(work'[v])
  BY <1>2 DEF IInv, WorkInv
<1>4. \A t, v : LastSaid(t, v)' = LastSaid(t, v)
  BY DEF LastSaid
<1>5. \A v \in Worker : Sound(work[v])'
  BY <1>3, <1>4 DEF Sound, InForce
<1>6. QED
  BY <1>1, <1>5 DEF WorkInv

\* A worker's step that leaves cache and file alone.
LEMMA WorkerOnly ==
    ASSUME IInv, NEW w \in Worker, NEW rec \in Work, Sound(rec),
           work' = [work EXCEPT ![w] = rec], UNCHANGED <<now, file, until, _cache>>
    PROVE  IInv'
<1>1. work' \in [Worker -> Work] /\ WorkInv'
  BY OneWorker
<1>2. TypeOK' /\ CacheInv' /\ FileInv'
  BY <1>1 DEF IInv, TypeOK, CacheInv, FileInv, Kept, InForce, LastSaid
<1>3. QED
  BY <1>1, <1>2 DEF IInv

\* The clock and the file only make later what was in force.
LEMMA WorldMoves ==
    ASSUME IInv, [Next]_vars, UNCHANGED <<_cache, work>>, now' \in Nat, now <= now',
           \A w \in Worker : work[w].page # NoPage => now' <= work[w].loaded + MaxPage
    PROVE  WorkInv' /\ CacheInv'
<1>t. /\ now \in Nat /\ _cache \in [Tenant -> Entry] /\ work \in [Worker -> Work]
      /\ MaxPage \in Nat
  BY CacheAssumption DEF IInv, TypeOK
<1>1. \A t \in Tenant, v \in Variant : /\ LastSaid(t, v) \in Int /\ LastSaid(t, v)' \in Int
                                       /\ LastSaid(t, v) <= LastSaid(t, v)'
  BY SaidOnlyLater
<1>2. ASSUME NEW t \in Tenant, NEW v, NEW m \in Int, InForce(t, v, m)
      PROVE  InForce(t, v, m)'
  BY <1>t, <1>1, <1>2 DEF InForce
<1>3. ASSUME NEW w \in Worker PROVE Sound(work[w])'
  <2> DEFINE this == work[w]
  <2>1. this \in Work /\ Sound(this)
    BY <1>t DEF IInv, WorkInv
  <2>2. /\ this.asked \in Nat /\ this.loaded \in Nat /\ this.data \in Int
        /\ this.page \in Pages
    BY <2>1 DEF Work, Moment, Never
  <2>3. this.asked <= now' /\ this.loaded <= now' /\ this.data <= now'
    BY <1>t, <2>1, <2>2 DEF Sound
  <2>4. this.step # "idle" =>
          this.tenant \in Tenant /\ InForce(this.tenant, this.variant, this.asked)'
    BY <1>2, <2>1, <2>2 DEF Sound
  <2>5. ASSUME NEW t \in DOMAIN this.page PROVE this.loaded <= LastSaid(t, this.page[t])'
    <3>1. t \in Tenant /\ this.page[t] \in Variant
      BY <2>2, PageIs
    <3>2. this.loaded <= LastSaid(t, this.page[t])
      BY <2>1 DEF Sound
    <3>3. QED
      BY <1>1, <2>2, <3>1, <3>2
  <2>6. this' = this
    OBVIOUS
  <2>7. QED
    BY <2>1, <2>3, <2>4, <2>5, <2>6 DEF Sound
<1>4. ASSUME NEW t \in Tenant PROVE Kept(t, _cache[t])'
  <2> DEFINE entry == _cache[t]
  <2>1. entry \in Entry /\ Kept(t, entry)
    BY <1>t DEF IInv, CacheInv
  <2>2. entry.stamp \in Int /\ entry.data \in Int
    BY <2>1 DEF Entry, Moment, Never
  <2>3. entry.data <= now'
    BY <1>t, <2>1, <2>2 DEF Kept
  <2>4. entry # NoEntry => InForce(t, entry.variant, entry.stamp)'
    BY <1>2, <2>1, <2>2 DEF Kept
  <2>5. QED
    BY <2>1, <2>3, <2>4 DEF Kept
<1>5. QED
  BY <1>3, <1>4 DEF WorkInv, CacheInv

LEMMA IInvStep == IInv /\ [Next]_vars => IInv'
<1> SUFFICES ASSUME IInv, [Next]_vars PROVE IInv'
  OBVIOUS
<1>t. /\ now \in Nat /\ _cache \in [Tenant -> Entry] /\ work \in [Worker -> Work]
      /\ file \in [Tenant -> Variant \cup {Absent}]
      /\ until \in [Tenant -> [Variant -> Moment]]
      /\ TTL \in Nat /\ MaxPage \in Nat
  BY CacheAssumption DEF IInv, TypeOK
<1>1. CASE UNCHANGED vars
  BY <1>1 DEF vars, IInv, TypeOK, WorkInv, CacheInv, FileInv, Sound, Kept, InForce, LastSaid
<1>2. CASE Tick
  <2>1. /\ UNCHANGED <<_cache, work, file, until>> /\ now' = now + 1
        /\ \A w \in Worker : work[w].page # NoPage => now < work[w].loaded + MaxPage
    BY <1>2 DEF Tick
  <2>2. \A w \in Worker : work[w].loaded \in Nat
    BY <1>t DEF Work
  <2>3. \A w \in Worker : work[w].page # NoPage => now' <= work[w].loaded + MaxPage
    BY <1>t, <2>1, <2>2
  <2>4. now' \in Nat /\ now <= now'
    BY <1>t, <2>1
  <2>5. WorkInv' /\ CacheInv'
    BY <2>1, <2>3, <2>4, WorldMoves
  <2>6. TypeOK'
    BY <1>t, <2>1, <2>4 DEF TypeOK
  <2>7. FileInv'
    <3>1. \A t \in Tenant, v \in Variant : until[t][v] \in Int /\ until[t][v] <= now
      BY <1>t DEF IInv, FileInv, Moment, Never
    <3>2. QED
      BY <1>t, <2>1, <3>1 DEF FileInv
  <2>8. QED
    BY <2>5, <2>6, <2>7 DEF IInv
<1>3. ASSUME NEW t \in Tenant, NEW v \in Variant \cup {Absent}, Configure(t, v)
      PROVE  IInv'
  <2> DEFINE last == [u \in Variant |-> IF u = file[t] THEN now ELSE until[t][u]]
  <2>1. /\ UNCHANGED <<now, _cache, work>> /\ file' = [file EXCEPT ![t] = v]
        /\ until' = [until EXCEPT ![t] = last]
    BY <1>3 DEF Configure
  <2>2. \A u \in Tenant, x \in Variant : until[u][x] \in Moment /\ until[u][x] <= now
    BY <1>t DEF IInv, FileInv
  <2>3. last \in [Variant -> Moment] /\ \A x \in Variant : last[x] <= now
    BY <1>t, <2>2 DEF Moment
  <2> HIDE DEF last
  <2>4. TypeOK'
    BY <1>t, <2>1, <2>3 DEF TypeOK
  <2>5. FileInv'
    BY <1>t, <2>1, <2>2, <2>3 DEF FileInv
  <2>6. \A w \in Worker : work[w].page # NoPage => now' <= work[w].loaded + MaxPage
    BY <2>1 DEF IInv, WorkInv, Sound
  <2>7. WorkInv' /\ CacheInv'
    BY <1>t, <2>1, <2>6, WorldMoves
  <2>8. QED
    BY <2>4, <2>5, <2>7 DEF IInv
<1>4. ASSUME NEW w \in Worker, NEW shown \in SUBSET Tenant, shown \subseteq Configured,
             NEW force \in BOOLEAN, LoadTenants(w, shown, force)
      PROVE  IInv'
  <2> DEFINE page == [t \in shown |-> file[t]]
             rec == [NoWork EXCEPT !.page = page, !.loaded = now, !.force = force]
  <2>1. page \in Pages
    <3>1. DOMAIN page = shown /\ page \in [shown -> Variant]
      BY <1>t, <1>4 DEF Configured
    <3>2. QED
      BY <3>1, PageIs
  <2>2. \A t \in shown : now <= LastSaid(t, page[t])
    BY <1>t DEF LastSaid
  <2>3. /\ rec.step = "idle" /\ rec.page = page /\ rec.loaded = now /\ rec.asked = 0
        /\ rec.data = Never
    BY DEF NoWork
  <2>4. rec \in Work
    BY <1>t, <2>1 DEF NoWork, Work, Moment
  <2> HIDE DEF rec
  <2>5. Sound(rec)
    BY <1>t, <2>2, <2>3 DEF Sound, Never
  <2>6. work' = [work EXCEPT ![w] = rec] /\ UNCHANGED <<now, file, until, _cache>>
    BY <1>4 DEF LoadTenants, rec
  <2>7. QED
    BY <2>4, <2>5, <2>6, WorkerOnly
<1>5. ASSUME NEW w \in Worker, NEW t \in Tenant, Ask(w, t) PROVE IInv'
  <2> DEFINE page == work[w].page
             rest == [u \in DOMAIN page \ {t} |-> page[u]]
             rec == [work[w] EXCEPT !.step = "asked", !.tenant = t, !.variant = page[t],
                                    !.page = rest, !.asked = now, !.data = Never]
  <2>1. work[w] \in Work /\ Sound(work[w]) /\ t \in DOMAIN page /\ page # NoPage
    BY <1>t, <1>5, NoPageIs DEF Ask, IInv, WorkInv
  <2>2. /\ page \in Pages /\ page[t] \in Variant /\ work[w].loaded \in Nat
        /\ now <= work[w].loaded + MaxPage /\ work[w].loaded <= LastSaid(t, page[t])
    BY <2>1, PageIs DEF Sound, Work
  <2>3. rest \in Pages /\ \A u \in DOMAIN rest : u \in DOMAIN page /\ rest[u] = page[u]
    <3>1. DOMAIN rest = DOMAIN page \ {t} /\ rest \in [DOMAIN rest -> Variant]
      BY <2>2, PageIs
    <3>2. QED
      BY <2>2, <3>1, PageIs
  <2>4. LastSaid(t, page[t]) \in Int
    BY <2>2, SaidOnlyLater
  <2>5. InForce(t, page[t], now)
    BY <1>t, <2>2, <2>4 DEF InForce
  <2>6. /\ rec.step = "asked" /\ rec.tenant = t /\ rec.variant = page[t] /\ rec.page = rest
        /\ rec.asked = now /\ rec.data = Never /\ rec.loaded = work[w].loaded
        /\ rec \in Work
    BY <1>t, <2>1, <2>2, <2>3 DEF Work, Moment
  <2> HIDE DEF rec
  <2>7. Sound(rec)
    BY <1>t, <2>1, <2>2, <2>3, <2>5, <2>6 DEF Sound, Never
  <2>8. work' = [work EXCEPT ![w] = rec] /\ UNCHANGED <<now, file, until, _cache>>
    BY <1>5 DEF Ask, rec
  <2>9. QED
    BY <2>6, <2>7, <2>8, WorkerOnly
<1>6. ASSUME NEW w \in Worker, ServeHit(w) PROVE IInv'
  <2> DEFINE entry == _cache[work[w].tenant]
             rec == [work[w] EXCEPT !.step = "idle", !.data = entry.data,
                                    !.variant = entry.variant]
  <2>1. work[w] \in Work /\ Sound(work[w]) /\ work[w].tenant \in Tenant
    BY <1>t, <1>6 DEF ServeHit, IInv, WorkInv, Sound
  <2>2. entry \in Entry /\ Kept(work[w].tenant, entry)
    BY <1>t, <2>1 DEF IInv, CacheInv
  <2>3. /\ rec.step = "idle" /\ rec.data = entry.data /\ rec.asked = work[w].asked
        /\ rec.loaded = work[w].loaded /\ rec.page = work[w].page /\ rec \in Work
    BY <2>1, <2>2 DEF Work, Entry
  <2> HIDE DEF rec
  <2>4. Sound(rec)
    BY <2>1, <2>2, <2>3 DEF Sound, Kept
  <2>5. work' = [work EXCEPT ![w] = rec] /\ UNCHANGED <<now, file, until, _cache>>
    BY <1>6 DEF ServeHit, Finish, rec
  <2>6. QED
    BY <2>3, <2>4, <2>5, WorkerOnly
<1>7. ASSUME NEW w \in Worker, CallGraph(w) PROVE IInv'
  <2> DEFINE rec == [work[w] EXCEPT !.step = "graph"]
  <2>1. work[w] \in Work /\ Sound(work[w]) /\ work[w].step = "asked"
    BY <1>t, <1>7 DEF CallGraph, IInv, WorkInv
  <2>2. rec \in Work /\ Sound(rec)
    BY <2>1 DEF Sound, Work
  <2>3. work' = [work EXCEPT ![w] = rec] /\ UNCHANGED <<now, file, until, _cache>>
    BY <1>7 DEF CallGraph
  <2>4. QED
    BY <2>2, <2>3, WorkerOnly
<1>8. ASSUME NEW w \in Worker, GraphReads(w) PROVE IInv'
  <2> DEFINE rec == [work[w] EXCEPT !.step = "store", !.data = now]
  <2>1. work[w] \in Work /\ Sound(work[w]) /\ work[w].step = "graph"
    BY <1>t, <1>8 DEF GraphReads, IInv, WorkInv
  <2>2. /\ rec.step = "store" /\ rec.data = now /\ rec.asked = work[w].asked
        /\ rec.loaded = work[w].loaded /\ rec.page = work[w].page
        /\ rec.tenant = work[w].tenant /\ rec.variant = work[w].variant /\ rec \in Work
    BY <1>t, <2>1 DEF Work, Moment
  <2> HIDE DEF rec
  <2>3. Sound(rec)
    BY <1>t, <2>1, <2>2 DEF Sound
  <2>4. work' = [work EXCEPT ![w] = rec] /\ UNCHANGED <<now, file, until, _cache>>
    BY <1>8 DEF GraphReads, rec
  <2>5. QED
    BY <2>2, <2>3, <2>4, WorkerOnly
<1>9. ASSUME NEW w \in Worker, GraphFails(w) PROVE IInv'
  <2> DEFINE rec == [work[w] EXCEPT !.step = "idle", !.data = Never,
                                    !.variant = work[w].variant]
  <2>1. work[w] \in Work /\ Sound(work[w])
    BY <1>t DEF IInv, WorkInv
  <2>2. /\ rec.step = "idle" /\ rec.data = Never /\ rec.asked = work[w].asked
        /\ rec.loaded = work[w].loaded /\ rec.page = work[w].page /\ rec \in Work
    BY <2>1 DEF Work, Moment
  <2> HIDE DEF rec
  <2>3. Sound(rec)
    BY <1>t, <2>1, <2>2 DEF Sound, Never
  <2>4. work' = [work EXCEPT ![w] = rec] /\ UNCHANGED <<now, file, until, _cache>>
    BY <1>9 DEF GraphFails, Finish, rec
  <2>5. QED
    BY <2>2, <2>3, <2>4, WorkerOnly
<1>10. ASSUME NEW w \in Worker, StoreAndServe(w) PROVE IInv'
  <2> DEFINE this == work[w]
             rec == [this EXCEPT !.step = "idle", !.data = this.data, !.variant = this.variant]
             entry == [stamp |-> this.asked, data |-> this.data, variant |-> this.variant]
  <2>1. /\ this \in Work /\ Sound(this) /\ this.step = "store" /\ this.tenant \in Tenant
        /\ InForce(this.tenant, this.variant, this.asked)
    BY <1>t, <1>10 DEF StoreAndServe, IInv, WorkInv, Sound
  <2>2. /\ rec.step = "idle" /\ rec.data = this.data /\ rec.asked = this.asked
        /\ rec.loaded = this.loaded /\ rec.page = this.page /\ rec \in Work
    BY <2>1 DEF Work
  <2>3. entry \in Entry /\ Kept(this.tenant, entry)
    BY <2>1 DEF Work, Entry, Moment, Kept, Sound, InForce
  <2> HIDE DEF rec, entry
  <2>4. Sound(rec)
    BY <2>1, <2>2 DEF Sound
  <2>5. /\ work' = [work EXCEPT ![w] = rec] /\ UNCHANGED <<now, file, until>>
        /\ _cache' = [_cache EXCEPT ![this.tenant] = entry]
    BY <1>10 DEF StoreAndServe, Finish, rec, entry
  <2>6. work' \in [Worker -> Work] /\ WorkInv'
    BY <2>2, <2>4, <2>5, OneWorker
  <2>7. _cache' \in [Tenant -> Entry] /\ \A t \in Tenant : Kept(t, _cache'[t])
    BY <1>t, <2>1, <2>3, <2>5 DEF IInv, CacheInv
  <2>8. CacheInv'
    BY <2>5, <2>7 DEF CacheInv, Kept, InForce, LastSaid
  <2>9. QED
    BY <2>5, <2>6, <2>7, <2>8 DEF IInv, TypeOK, FileInv
<1>11. Configured \subseteq Tenant
  BY DEF Configured
<1>12. QED
  BY <1>1, <1>2, <1>3, <1>4, <1>5, <1>6, <1>7, <1>8, <1>9, <1>10, <1>11 DEF Next

LEMMA Inductive == Spec => []IInv
<1>1. Init => IInv
  BY IInvInit
<1>2. IInv /\ [Next]_vars => IInv'
  BY IInvStep
<1>3. QED
  BY <1>1, <1>2, PTL DEF Spec

\* Type correctness of the cache and of every worker (get_credentials).
THEOREM TypeCorrect == Spec => []TypeOK
<1>1. IInv => TypeOK
  BY DEF IInv
<1>2. QED
  BY Inductive, <1>1, PTL

\* No order of lookups and stores makes the cache take credentials for newer
\* than they are (the stamp is read before Graph is called).
THEOREM StampHolds == Spec => []StampNeverAhead
<1>1. IInv => StampNeverAhead
  BY DEF IInv, CacheInv, Kept, StampNeverAhead
<1>2. QED
  BY Inductive, <1>1, PTL

\* An answer comes from the cache, with an entry that counts as fresh, or from a
\* call the worker has made itself.
LEMMA AnswerIs ==
    ASSUME IInv, [Next]_vars, NEW w \in Worker, Answers(w)
    PROVE  LET this == work[w]
               answer == work'[w]
               entry == _cache[this.tenant]
           IN  /\ answer.asked = this.asked /\ answer.force = this.force
               /\ answer.tenant = this.tenant
               /\ \/ /\ answer.data = entry.data /\ answer.variant = entry.variant
                     /\ ~this.force /\ this.asked - entry.stamp < TTL /\ entry # NoEntry
                  \/ /\ answer.data = this.data /\ answer.variant = this.variant
                     /\ this.step = "store"
<1> DEFINE this == work[w]
           entry == _cache[this.tenant]
<1>1. this \in Work
  BY DEF IInv, TypeOK
<1>2. work'[w] # work[w]
  BY DEF Answers
<1>3. \A v \in Worker : \A rec : work' = [work EXCEPT ![v] = rec] => v = w /\ work'[w] = rec
  BY <1>2 DEF IInv, TypeOK
<1>4. CASE ServeHit(w)
  <2> DEFINE rec == [this EXCEPT !.step = "idle", !.data = entry.data,
                                 !.variant = entry.variant]
  <2>0. work' = [work EXCEPT ![w] = rec]
    BY <1>4 DEF ServeHit, Finish
  <2>1. work'[w] = rec
    BY <1>3, <2>0
  <2>2. ~this.force /\ this.asked - entry.stamp < TTL /\ entry # NoEntry
    BY <1>4 DEF ServeHit, Hit
  <2>3. QED
    BY <1>1, <2>1, <2>2 DEF Work
<1>5. CASE StoreAndServe(w)
  <2> DEFINE rec == [this EXCEPT !.step = "idle", !.data = this.data,
                                 !.variant = this.variant]
  <2>0. work' = [work EXCEPT ![w] = rec] /\ this.step = "store"
    BY <1>5 DEF StoreAndServe, Finish
  <2>1. work'[w] = rec
    BY <1>3, <2>0
  <2>2. QED
    BY <1>1, <2>0, <2>1 DEF Work
<1>6. ASSUME NEW v \in Worker, GraphFails(v) PROVE FALSE
  <2> DEFINE rec == [work[v] EXCEPT !.step = "idle", !.data = Never,
                                    !.variant = work[v].variant]
  <2>0. work' = [work EXCEPT ![v] = rec]
    BY <1>6 DEF GraphFails, Finish
  <2>1. v = w /\ work'[w] = rec
    BY <1>3, <2>0
  <2>2. work'[w].data = Never
    BY <1>1, <2>1 DEF Work
  <2>3. QED
    BY <2>2 DEF Answers
<1>7. ASSUME NEW v \in Worker, CallGraph(v) \/ GraphReads(v) PROVE FALSE
  <2>0. \/ work' = [work EXCEPT ![v] = [work[v] EXCEPT !.step = "graph"]]
        \/ work' = [work EXCEPT ![v] = [work[v] EXCEPT !.step = "store", !.data = now]]
    BY <1>7 DEF CallGraph, GraphReads
  <2>1. v = w /\ \/ work'[w] = [this EXCEPT !.step = "graph"]
                 \/ work'[w] = [this EXCEPT !.step = "store", !.data = now]
    BY <1>3, <2>0
  <2>2. work'[w].step # "idle"
    BY <1>1, <2>1 DEF Work
  <2>3. QED
    BY <2>2 DEF Answers
<1>8. ASSUME NEW v \in Worker, NEW t, Ask(v, t) PROVE FALSE
  <2>1. v = w
    BY <1>3, <1>8 DEF Ask
  <2>2. QED
    BY <1>8, <2>1 DEF Ask, Answers
<1>9. ASSUME NEW v \in Worker, NEW shown, NEW force, LoadTenants(v, shown, force) PROVE FALSE
  <2>1. v = w
    BY <1>3, <1>9 DEF LoadTenants
  <2>2. QED
    BY <1>9, <2>1 DEF LoadTenants, Answers
<1>10. work' # work
  BY <1>2
<1>11. ASSUME NEW v \in Worker, ServeHit(v) \/ StoreAndServe(v) PROVE v = w
  BY <1>3, <1>11 DEF ServeHit, StoreAndServe, Finish
<1>12. QED
  BY <1>4, <1>5, <1>6, <1>7, <1>8, <1>9, <1>10, <1>11 DEF Next, vars, Tick, Configure

\* No answer is made from credentials older than CACHE_TTL at the time it was
\* asked for, no forced one from credentials older than the question.
THEOREM AnswersFresh == Spec => AnswerIsFresh
<1>1. ASSUME IInv, [Next]_vars, NEW w \in Worker, Answers(w)
      PROVE  /\ work'[w].asked - work'[w].data < TTL \/ work'[w].data >= work'[w].asked
             /\ work'[w].force => work'[w].data >= work'[w].asked
  <2> DEFINE this == work[w]
             entry == _cache[this.tenant]
  <2>1. this \in Work /\ Sound(this) /\ this.step # "idle"
    BY <1>1 DEF IInv, TypeOK, WorkInv, Answers
  <2>2. entry \in Entry /\ Kept(this.tenant, entry)
    BY <1>1, <2>1 DEF IInv, TypeOK, CacheInv, Sound
  <2>3. /\ this.asked \in Nat /\ this.data \in Int /\ entry.stamp \in Int /\ entry.data \in Int
        /\ TTL \in Nat
    BY <2>1, <2>2, CacheAssumption DEF Work, Entry, Moment, Never
  <2>4. CASE work'[w].data = entry.data /\ ~this.force /\ this.asked - entry.stamp < TTL
    BY <1>1, <2>2, <2>3, <2>4, AnswerIs DEF Kept
  <2>5. CASE work'[w].data = this.data /\ this.step = "store"
    BY <1>1, <2>1, <2>3, <2>5, AnswerIs DEF Sound
  <2>6. QED
    BY <1>1, <2>4, <2>5, AnswerIs
<1>2. IInv /\ [Next]_vars
        => [\A w \in Worker : Answers(w) =>
              /\ work'[w].asked - work'[w].data < TTL \/ work'[w].data >= work'[w].asked
              /\ work'[w].force => work'[w].data >= work'[w].asked]_vars
  BY <1>1
<1>3. QED
  BY <1>2, Inductive, PTL DEF Spec, AnswerIsFresh

\* A change of tenants.json shows after CACHE_TTL and the time of a page, whoever
\* stores what in between.
THEOREM ChangesShow == Spec => ChangeShowsInTime
<1> DEFINE Gone(answer) == answer.asked - LastSaid(answer.tenant, answer.variant)
<1>1. ASSUME IInv, [Next]_vars, NEW w \in Worker, Answers(w)
      PROVE  Gone(work'[w]) <= MaxPage \/ Gone(work'[w]) < MaxPage + TTL
  <2> DEFINE this == work[w]
             entry == _cache[this.tenant]
  <2>1. /\ this \in Work /\ this.tenant \in Tenant
        /\ InForce(this.tenant, this.variant, this.asked)
    BY <1>1 DEF IInv, TypeOK, WorkInv, Answers, Sound
  <2>2. entry \in Entry /\ Kept(this.tenant, entry)
    BY <1>1, <2>1 DEF IInv, TypeOK, CacheInv
  <2>3. /\ this.asked \in Nat /\ entry.stamp \in Int /\ TTL \in Nat /\ MaxPage \in Nat
    BY <2>1, <2>2, CacheAssumption DEF Work, Entry, Moment, Never
  <2>4. work'[w].asked = this.asked /\ work'[w].tenant = this.tenant
    BY <1>1, AnswerIs
  <2>5. CASE /\ work'[w].variant = entry.variant /\ this.asked - entry.stamp < TTL
             /\ entry # NoEntry
    <3>1. entry.variant \in Variant /\ entry.stamp <= LastSaid(this.tenant, entry.variant) + MaxPage
      BY <2>2, <2>5 DEF Kept, InForce
    <3>2. LastSaid(this.tenant, entry.variant) \in Int
      BY <1>1, <2>1, <3>1, SaidOnlyLater
    <3>3. QED
      BY <2>3, <2>4, <2>5, <3>1, <3>2
  <2>6. CASE work'[w].variant = this.variant
    <3>1. LastSaid(this.tenant, this.variant) \in Int
      BY <1>1, <2>1, SaidOnlyLater DEF InForce
    <3>2. QED
      BY <2>1, <2>3, <2>4, <2>6, <3>1 DEF InForce
  <2>7. QED
    BY <1>1, <2>5, <2>6, AnswerIs
<1>2. IInv /\ [Next]_vars
        => [\A w \in Worker : Answers(w) =>
              Gone(work'[w]) <= MaxPage \/ Gone(work'[w]) < MaxPage + TTL]_vars
  BY <1>1
<1>3. QED
  BY <1>2, Inductive, PTL DEF Spec, ChangeShowsInTime
-------------------------------------------------------------------------------
(* With one request at a time *)

OneAtATime == \A v, w \in Worker : v = w

Expired(this) ==
    LET entry == _cache[this.tenant]
    IN  entry = NoEntry \/ this.asked - entry.stamp >= TTL

\* Nobody stores between the look into the cache and the store of a worker.
Alone ==
    \A w \in Worker :
        /\ work[w].step = "store" => \A t \in Tenant : _cache[t].data <= work[w].data
        /\ work[w].step \in {"graph", "store"} /\ ~work[w].force => Expired(work[w])

LEMMA AloneStep ==
    ASSUME OneAtATime, IInv, Alone, [Next]_vars PROVE Alone'
<1>t. /\ now \in Nat /\ _cache \in [Tenant -> Entry] /\ work \in [Worker -> Work]
  BY DEF IInv, TypeOK
<1>1. CASE UNCHANGED <<_cache, work>>
  BY <1>1 DEF Alone, Expired
<1>2. ASSUME NEW w \in Worker, work'[w].step \in {"idle", "asked"} PROVE Alone'
  <2>1. \A v \in Worker : work'[v].step \in {"idle", "asked"}
    BY <1>2 DEF OneAtATime
  <2>2. QED
    BY <2>1 DEF Alone
<1>3. ASSUME NEW w \in Worker, NEW shown, NEW force, LoadTenants(w, shown, force)
      PROVE  work'[w].step \in {"idle", "asked"}
  BY <1>t, <1>3 DEF LoadTenants, NoWork
<1>4. ASSUME NEW w \in Worker, NEW t, Ask(w, t) PROVE work'[w].step \in {"idle", "asked"}
  BY <1>t, <1>4 DEF Ask, Work
<1>5. ASSUME NEW w \in Worker, ServeHit(w) \/ GraphFails(w) \/ StoreAndServe(w)
      PROVE  work'[w].step \in {"idle", "asked"}
  <2>1. \E data, variant : Finish(w, data, variant)
    BY <1>5 DEF ServeHit, GraphFails, StoreAndServe
  <2>2. QED
    BY <1>t, <2>1 DEF Finish, Work
<1>6. ASSUME NEW w \in Worker, CallGraph(w) PROVE Alone'
  <2>1. /\ work' = [work EXCEPT ![w].step = "graph"] /\ UNCHANGED _cache /\ ~Hit(w)
        /\ work[w] \in Work
    BY <1>t, <1>6 DEF CallGraph
  <2>2. work[w].force \in BOOLEAN /\ work[w].asked \in Int
    BY <2>1 DEF Work
  <2>3. /\ work'[w].step = "graph" /\ work'[w].force = work[w].force
        /\ work'[w].tenant = work[w].tenant /\ work'[w].asked = work[w].asked
    BY <1>t, <2>1 DEF Work
  <2>4. work[w].tenant \in Tenant
    BY <1>6 DEF CallGraph, IInv, WorkInv, Sound
  <2>5. _cache[work[w].tenant].stamp \in Int
    BY <1>t, <2>4 DEF Entry, Moment, Never
  <2>6. TTL \in Int
    BY CacheAssumption
  <2>7. ~work[w].force => Expired(work[w])
    BY <2>1, <2>2, <2>5, <2>6 DEF Hit, Expired
  <2>8. ~work'[w].force => Expired(work[w])'
    BY <2>1, <2>3, <2>7 DEF Expired
  <2>9. QED
    BY <2>3, <2>8 DEF Alone, OneAtATime
<1>7. ASSUME NEW w \in Worker, GraphReads(w) PROVE Alone'
  <2>1. /\ work' = [work EXCEPT ![w].step = "store", ![w].data = now] /\ UNCHANGED _cache
        /\ work[w] \in Work /\ work[w].step = "graph"
    BY <1>t, <1>7 DEF GraphReads
  <2>2. /\ work'[w].step = "store" /\ work'[w].data = now /\ work'[w].force = work[w].force
        /\ work'[w].tenant = work[w].tenant /\ work'[w].asked = work[w].asked
    BY <1>t, <2>1 DEF Work
  <2>3. ~work'[w].force => Expired(work[w])'
    BY <2>1, <2>2 DEF Alone, Expired
  <2>4. \A t \in Tenant : _cache'[t].data <= work'[w].data
    BY <2>1, <2>2 DEF IInv, CacheInv, Kept
  <2>5. QED
    BY <2>2, <2>3, <2>4 DEF Alone, OneAtATime
<1>8. QED
  BY <1>1, <1>2, <1>3, <1>4, <1>5, <1>6, <1>7 DEF Next, vars, Tick, Configure

LEMMA AloneHolds == ASSUME OneAtATime PROVE Spec => [](IInv /\ Alone)
<1>1. Init => Alone
  BY DEF Init, Alone, NoWork
<1>2. IInv /\ Alone /\ [Next]_vars => Alone'
  BY AloneStep
<1>3. QED
  BY <1>1, <1>2, Inductive, PTL DEF Spec

\* An entry that is replaced without force had expired when its successor was asked
\* for, and by nothing older.
Succeeds ==
    \A w \in Worker : StoreAndServe(w) =>
        /\ ~work[w].force => Expired(work[w])
        /\ _cache[work[w].tenant].data <= _cache'[work[w].tenant].data

\* Sensors that come one after the other share one call to Graph per CACHE_TTL, and
\* what the cache holds of a tenant never goes back.  With two at a time neither
\* holds (get_credentials calls Graph without the lock).
THEOREM SharedCallsWhenAlone == ASSUME OneAtATime PROVE Spec => [][Succeeds]_vars
<1>1. ASSUME IInv, Alone, NEW w \in Worker, StoreAndServe(w)
      PROVE  /\ ~work[w].force => Expired(work[w])
             /\ _cache[work[w].tenant].data <= _cache'[work[w].tenant].data
  <2>1. work[w].step = "store" /\ work[w].tenant \in Tenant
    BY <1>1 DEF StoreAndServe, IInv, WorkInv, Sound
  <2>2. _cache'[work[w].tenant].data = work[w].data
    BY <1>1, <2>1 DEF StoreAndServe, IInv, TypeOK
  <2>3. QED
    BY <1>1, <2>1, <2>2 DEF Alone
<1>2. IInv /\ Alone /\ [Next]_vars => [Succeeds]_vars
  BY <1>1 DEF Succeeds
<1>3. QED
  BY <1>2, AloneHolds, PTL DEF Spec
===============================================================================
