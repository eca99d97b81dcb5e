----------------------------- MODULE CustomerView -----------------------------
(***************************************************************************)
(* What the portal says of one customer, in three places of their own: the *)
(* state on the dashboard (portal/views/dashboard.py), the findings of the *)
(* REST API (portal/diagnose.py) and the PRTG sensor (portal/views/prtg.py,*)
(* render_prtg in app/graph.py).                                           *)
(*                                                                         *)
(* The dashboard reads the totals a scan left in the customer row, the     *)
(* findings and the sensor count the snapshot anew, all with the           *)
(* thresholds of now.  Time goes on while the days of the snapshot stand   *)
(* still; an hour has several ticks, and ages are whole hours.  The tenant *)
(* is the environment, whose credentials may be others at every scan, and  *)
(* so is PRTG, which takes a channel's limits from the report in which the *)
(* channel appears first, and never again.                                 *)
(*                                                                         *)
(* A text in a sensor's address is what it matches: the groups whose       *)
(* application has that name, those whose application's name contains it,  *)
(* and the texts between its commas.                                       *)
(***************************************************************************)
EXTENDS Integers, FiniteSets, FiniteSetsExt

CONSTANTS
    Group,       \* an object and a credential type
    Secrets,     \* the groups of secrets; the others are of certificates
    Text,        \* texts that app, filter and exclude may be
    Named,       \* per text, the groups it names
    Within,      \* per text, the groups whose names contain it
    Pieces,      \* per text, the texts between its commas, short of empty ones
    End,         \* ticks at which credentials may end
    Threshold,   \* thresholds in days
    HourLength,  \* ticks of an hour
    DayLength,   \* ticks of a day
    StaleHours,
    Horizon      \* bound: ticks of a behaviour

\* What stands for "nothing" and for an age nobody knows.
Far == 9999

\* Credentials do not run for ever, and what stands for nothing is above every
\* threshold.  PORTAL_STALE_HOURS has no bound of its own.
ASSUME ViewAssumption ==
    /\ IsFiniteSet(Group)
    /\ Pieces \in [Text -> SUBSET Text]
    /\ End \subseteq Nat
    /\ \E last \in End : \A end \in End : end <= last
    /\ Threshold \subseteq 1..Far
    /\ HourLength \in Nat \ {0}
    /\ DayLength \in Nat \ {0}
    /\ StaleHours \in Nat
    /\ Horizon \in Nat

\* What stands for a parameter that is not given.
None == "none"

ASSUME TextAssumption == None \notin Text

VARIABLES
    now,
    row,        \* the customer
    snapshot    \* the channels of the last successful scan

vars == <<now, row, snapshot>>

Never == -1

\* Slip: a day that has begun counts.
DaysLeft_Begun(end) == (end - now + DayLength - 1) \div DayLength

\* Whole days, negative when the end is past.
DaysLeft(end) == (end - now) \div DayLength

Least(numbers) == IF numbers = {} THEN Far ELSE Min(numbers)

-------------------------------------------------------------------------------
(* What a scan finds *)

\* What may be in a tenant: credentials <<group, end>>.
Tenant == SUBSET (Group \X End)

Longest(tenant, group) == Max({c[2] : c \in {d \in tenant : d[1] = group}})

\* Slip: a channel of every credential.
Channels_PerCredential(tenant, wanted, show) ==
    {ch \in {[group |-> c[1], end |-> c[2], days |-> DaysLeft(c[2])] :
                c \in {d \in tenant : d[1] \in wanted}} :
        show \/ ch.days >= 0}

\* build_channels: of a group, only the credential that runs longest counts.
\* wanted: the groups app_filter and app_exclude let through.
Channels(tenant, wanted, show) ==
    {ch \in {[group |-> g, end |-> Longest(tenant, g), days |-> DaysLeft(Longest(tenant, g))] :
                g \in wanted \cap {c[1] : c \in tenant}} :
        show \/ ch.days >= 0}

Expired(channels) == {ch \in channels : ch.days < 0}

\* The row after a scan that found these channels.
Scanned(customer, channels) ==
    [customer EXCEPT !.status = "ok", !.check = now, !.success = now,
                     !.least = Least({ch.days : ch \in channels}),
                     !.expired = Cardinality(Expired(channels))]

NewRow(warn, error, show) ==
    [active |-> TRUE, status |-> "pending", check |-> Never, success |-> Never,
     least |-> Far, expired |-> 0, warn |-> warn, error |-> error, show |-> show]

\* A new customer, or one whose last scan an older release made, which had no
\* last_success_at.
Init ==
    /\ now = 0
    /\ \E warn, error \in Threshold, show \in BOOLEAN :
          /\ error <= warn
          /\ \/ /\ snapshot = {}
                /\ row = NewRow(warn, error, show)
             \/ /\ \E tenant \in Tenant : snapshot = Channels(tenant, Group, show)
                /\ \E status \in {"ok", "error"} :
                      row = [Scanned(NewRow(warn, error, show), snapshot)
                                EXCEPT !.success = Never, !.status = status]

-------------------------------------------------------------------------------
(* Time, scans and settings *)

Tick ==
    /\ now < Horizon
    /\ now' = now + 1
    /\ UNCHANGED <<row, snapshot>>

ScanSucceeds(tenant, wanted) ==
    /\ snapshot' = Channels(tenant, wanted, row.show)
    /\ row' = Scanned(row, snapshot')
    /\ UNCHANGED now

ScanFails ==
    /\ row' = [row EXCEPT !.status = "error", !.check = now]
    /\ UNCHANGED <<now, snapshot>>

\* The form and the API change settings, no result.
Edit(active, warn, error, show) ==
    /\ error <= warn
    /\ row' = [row EXCEPT !.active = active, !.warn = warn, !.error = error, !.show = show]
    /\ UNCHANGED <<now, snapshot>>

Next ==
    \/ Tick
    \/ \E tenant \in Tenant, wanted \in SUBSET Group : ScanSucceeds(tenant, wanted)
    \/ ScanFails
    \/ \E active, show \in BOOLEAN, warn, error \in Threshold : Edit(active, warn, error, show)

Spec == Init /\ [][Next]_vars
-------------------------------------------------------------------------------
(* What the portal says *)

\* Slip: the age counts from the last attempt.
AgeBasis_LastCheck == row.check

AgeBasis ==
    IF row.success # Never THEN row.success
    ELSE IF row.status # "error" THEN row.check ELSE Never

\* data_age_hours
Age == IF AgeBasis = Never THEN -1 ELSE (now - AgeBasis) \div HourLength

Stale == Age > StaleHours

\* Slip: the numbers are judged, not their age.
State_AnyAge ==
    CASE ~row.active -> "inactive"
      [] row.active /\ (row.status = "pending" \/ row.check = Never) -> "unknown"
      [] row.active /\ row.status = "error" -> "error"
      [] OTHER -> IF row.expired > 0 \/ row.least < row.error THEN "error"
                  ELSE IF row.least < row.warn THEN "warn" ELSE "ok"

\* customer_state, from the totals in the row.  min_days is NULL after a success only
\* in a row whose id was used again during the scan, as in ScanSchedule.
State ==
    CASE ~row.active -> "inactive"
      [] row.active /\ (row.status = "pending" \/ row.check = Never) -> "unknown"
      [] row.active /\ row.status = "error" -> "error"
      [] row.active /\ row.status = "ok" /\ Stale -> "stale"
      [] OTHER -> IF row.expired > 0 \/ row.least < row.error THEN "error"
                  ELSE IF row.least < row.warn THEN "warn" ELSE "ok"

\* _ablaufende, from the snapshot.
CredentialFindings ==
    {code \in {"credential_expired", "credential_critical", "credential_warning"} :
        \E ch \in snapshot :
            CASE code = "credential_expired"  -> ch.days < 0
              [] code = "credential_critical" -> ch.days \in 0..(row.error - 1)
              [] code = "credential_warning"  -> ch.days \in row.error..(row.warn - 1)}

\* befunde, short of those about the portal's own credential.
Findings ==
    IF ~row.active THEN {"inactive"}
    ELSE CredentialFindings
         \cup (IF row.check = Never \/ row.status = "pending" THEN {"never_checked"}
               ELSE {code \in {"scan_failed", "data_stale"} :
                        IF code = "scan_failed" THEN row.status = "error" ELSE Stale})

Severity(code) ==
    CASE code = "inactive" -> "ok"
      [] code \in {"never_checked", "credential_warning"} -> "warn"
      [] OTHER -> "error"

Worst(colours) ==
    IF "error" \in colours THEN "error" ELSE IF "warn" \in colours THEN "warn" ELSE "ok"

\* A sensor's address and its scope.  A parameter that is not given leaves nothing out.
Address == [app: Text \cup {None}, filter: Text \cup {None}, exclude: Text \cup {None},
            type: {None, "secret", "cert"}]

\* Slip: exclude is one text, like filter.
Excluded_Whole(text) == Within[text]

Excluded(text) == UNION {Within[piece] : piece \in Pieces[text]}

Scope(q) ==
    {g \in Group : /\ q.app # None => g \in Named[q.app]
                   /\ q.filter # None => g \in Within[q.filter]
                   /\ q.exclude # None => g \notin Excluded(q.exclude)
                   /\ q.type # None => (q.type = "secret" <=> g \in Secrets)}

\* How many channels are shown.  More than there are groups cuts nothing off.
Room == 1..Cardinality(Group)

\* A sensor whose address sets warn and error: every report offers the same limits,
\* so it does not matter which PRTG took.
Poll == [scope: SUBSET Group, warn: Threshold, error: Threshold, most: Room]

Limits == [warn: Threshold, error: Threshold]

\* The limits PRTG holds for a sensor, each channel's taken when it appeared.
Held == [summary: Limits, of: [Group -> Limits]]

Alike(warn, error) ==
    LET limits == [warn |-> warn, error |-> error]
    IN  [summary |-> limits, of |-> [g \in Group |-> limits]]

\* A channel with a lower warning and a lower error limit.
Runtime(days, limits) ==
    IF days < limits.error THEN "error" ELSE IF days < limits.warn THEN "warn" ELSE "ok"

\* _age_channel
AgeColour ==
    LET hours == IF Age >= 0 THEN Age ELSE Far
    IN  IF hours > 2 * StaleHours THEN "error" ELSE IF hours > StaleHours THEN "warn" ELSE "ok"

\* filter_result computes the summary anew for what is left.
Minimum(channels) == Least({ch.days : ch \in channels})

\* channels[:max_channels] of those in the order of their days.  Of several that
\* share the last place all are kept: under limits that are alike they have one colour.
Shown(channels, most) ==
    {ch \in channels : Cardinality({d \in channels : d.days < ch.days}) < most}

\* The colour of a sensor: the age, the summary of all that is left, counted with
\* the warning threshold of the request, and the channels shown.
Colour(scope, most, warn, held) ==
    LET channels == {ch \in snapshot : ch.group \in scope}
        critical == {ch \in channels : ch.days \in 0..(warn - 1)}
    IN  IF ~row.active THEN "error"
        ELSE Worst({AgeColour, Runtime(Minimum(channels), held.summary)}
                   \cup {Runtime(ch.days, held.of[ch.group]) : ch \in Shown(channels, most)}
                   \cup (IF critical # {} THEN {"warn"} ELSE {})
                   \cup (IF Expired(channels) # {} THEN {"error"} ELSE {}))

Sensor(p) == Colour(p.scope, p.most, p.warn, Alike(p.warn, p.error))

\* A sensor of the whole tenant whose address sets no limits: it counts with the
\* customer's of now, and PRTG holds what they once were.
Usual(most, held) == Colour(Group, most, row.warn, held)

-------------------------------------------------------------------------------
(* Properties *)

Moment == {Never} \cup 0..Horizon

TypeOK ==
    /\ now \in 0..Horizon
    /\ row \in [active: BOOLEAN, status: {"pending", "ok", "error"}, check: Moment,
                success: Moment, least: Int, expired: 0..Cardinality(Group),
                warn: Threshold, error: Threshold, show: BOOLEAN]
    /\ snapshot \subseteq [group: Group, end: End, days: Int]

\* Dashboard, findings and sensor agree, however many channels the sensor shows and
\* whenever PRTG took its limits: while the data is fresh no sensor is green where the
\* dashboard is not, and one whose limits are in step has the dashboard's colour; when
\* it is not fresh all say that something is wrong.  After a failed scan they part by
\* design: the sensor keeps its last values and ages (run_check).
ViewsAgree ==
    row.active =>
        CASE row.status = "pending" ->
                /\ State = "unknown" /\ Findings = {"never_checked"}
                /\ \A most \in Room, held \in Held : Usual(most, held) = "error"
          [] row.status = "error" -> State = "error" /\ "scan_failed" \in Findings
          [] row.status = "ok" /\ Stale ->
                /\ State = "stale" /\ "data_stale" \in Findings
                /\ \A most \in Room, held \in Held : Usual(most, held) # "ok"
          [] row.status = "ok" /\ ~Stale ->
                /\ State = Worst({Severity(code) : code \in Findings})
                /\ State # "ok" => \A most \in Room, held \in Held : Usual(most, held) # "ok"
                /\ \A most \in Room : Usual(most, Alike(row.warn, row.error)) = State

\* A scope, and those of the sensors that split it along a text: one that excludes the
\* text, and for each piece of it one that filters by the piece.
Divisions ==
    {<<Scope(q), Scope([q EXCEPT !.exclude = text]),
       {Scope([q EXCEPT !.filter = piece]) : piece \in Pieces[text]}>> :
        q \in {r \in Address : r.filter = None /\ r.exclude = None}, text \in Text}

\* Two sensors, one with a filter and one that excludes the same, miss nothing of what
\* one sensor shows and judge nothing twice (docs/PORTAL.md on ConnectSyncProvisioning),
\* whatever limits they set and however much they cut off, and each judges its own scope
\* only.  A list that is excluded needs a sensor for each of its pieces: filter takes a
\* comma literally.
ScopesPartition ==
    row.active =>
        \A p \in Poll :
            /\ \A split \in Divisions : p.scope = split[1] =>
                  /\ Worst({Sensor([p EXCEPT !.scope = scope]) : scope \in {split[2]} \cup split[3]})
                       = Sensor(p)
                  /\ \A scope \in split[3] : split[2] \cap scope = {}
            /\ Sensor(p) = "ok" <=>
                  /\ AgeColour = "ok"
                  /\ \A ch \in snapshot : ch.group \in p.scope =>
                        ch.days >= p.warn /\ ch.days >= p.error

\* A green sensor means time: whatever the last scan saw in its scope, shown or cut
\* off, still runs for the warning threshold, short of the time data may be old, which
\* is up to an hour more than the hours allowed, as ages are whole hours.
GreenMeansTime ==
    \A p \in Poll : Sensor(p) = "ok" =>
        \A ch \in snapshot : ch.group \in p.scope =>
            ch.end - now > p.warn * DayLength - (StaleHours + 1) * HourLength

\* With its limits as they are, a sensor turns green only by a scan that succeeds or
\* a customer switched on again: no failed scan, no other setting and no passing of
\* time does.
RecoveryNeedsScan ==
    [][\/ row'.status = "ok" /\ row'.success = now
       \/ row'.active /\ ~row.active
       \/ \A p \in Poll : Sensor(p)' = "ok" => Sensor(p) = "ok"]_<<now, row, snapshot>>
===============================================================================
