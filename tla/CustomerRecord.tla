---------------------------- MODULE CustomerRecord ----------------------------
(***************************************************************************)
(* The credential and the thresholds of one customer, changed through the  *)
(* form (portal/views/customers.py) and the REST API (portal/views/api.py).*)
(*                                                                         *)
(* Both check the state the customer would end up in, each with rules of   *)
(* its own, against the row the request read.  The write comes later,      *)
(* nothing is locked in between, and the mapper writes only the columns    *)
(* that differ from what the request had read.  A ciphertext is fresh every*)
(* time it is made, so it always differs (crypto.encrypt).                 *)
(***************************************************************************)
EXTENDS Integers

CONSTANTS
    Pair,      \* certificates, each with the private key that belongs to it
    Nothing,   \* an empty column, or a field a request leaves out
    Day,       \* thresholds in days
    Request    \* requests in progress

ASSUME RecordAssumption ==
    /\ Day \subseteq Nat
    /\ Nothing \notin Pair
    /\ Nothing \notin Day
    /\ Nothing \notin {"secret", "certificate"}

VARIABLES
    row,    \* the committed row of the customer
    task    \* per request, what it has decided and not written yet

vars == <<row, task>>

Methods == {"secret", "certificate"}

Columns == {"auth", "secret", "cert", "key", "thumb", "warn", "error"}

\* secret: a client secret is stored.  key: the pair the private key is from.
Row == [present: BOOLEAN, auth: Methods, secret: BOOLEAN, cert: Pair \cup {Nothing},
        key: Pair \cup {Nothing}, thumb: Pair \cup {Nothing},
        warn: Day \cup {Nothing}, error: Day \cup {Nothing}]

NoRow == [present |-> FALSE, auth |-> "secret", secret |-> FALSE, cert |-> Nothing,
          key |-> Nothing, thumb |-> Nothing, warn |-> Nothing, error |-> Nothing]

\* fresh: the columns that hold a new ciphertext.
Idle == [step |-> "idle", seen |-> NoRow, new |-> NoRow, fresh |-> {}]

Init ==
    /\ row = NoRow
    /\ task = [r \in Request |-> Idle]

-------------------------------------------------------------------------------
(* What a request may end up with *)

\* Slip: the old thumbprint stays.
WithPair_OldThumb(old, pair) ==
    [old EXCEPT !.auth = "certificate", !.secret = FALSE, !.cert = pair, !.key = pair]

\* inspect_certificate has found that key and certificate belong together.
WithPair(old, pair) ==
    [old EXCEPT !.auth = "certificate", !.secret = FALSE,
                !.cert = pair, !.key = pair, !.thumb = pair]

WithSecret(old) ==
    [old EXCEPT !.auth = "secret", !.secret = TRUE,
                !.cert = Nothing, !.key = Nothing, !.thumb = Nothing]

\* Slip: has_credential of the row, which still has its old method.
Stored_OldMethod(old, auth) ==
    IF old.auth = "certificate" THEN old.cert # Nothing /\ old.key # Nothing ELSE old.secret

\* Material for the chosen method is there already.
Stored(old, auth) ==
    IF auth = "certificate" THEN old.cert # Nothing /\ old.key # Nothing ELSE old.secret

\* _apply_credentials, with a pair, a secret or neither in the form.
FormOutcome(old, auth) ==
    [new: {WithPair(old, pair) : pair \in IF auth = "certificate" THEN Pair ELSE {}},
     fresh: {{"key"}}]
    \cup [new: IF auth = "secret" THEN {WithSecret(old)} ELSE {}, fresh: {{"secret"}}]
    \cup [new: IF Stored(old, auth) THEN {[old EXCEPT !.auth = auth]} ELSE {}, fresh: {{}}]

\* pruefe_zugangsdaten is stricter: what is stored counts only for the method the
\* customer has already.
ApiOutcome(old, auth) ==
    {out \in FormOutcome(old, auth) : out.fresh = {} => old.auth = auth}

-------------------------------------------------------------------------------
(* Requests *)

\* Both ways of creating a customer demand material for the chosen method.
Create(r, auth, warn, error) ==
    /\ task[r].step = "idle"
    /\ ~row.present
    /\ error <= warn
    /\ \E out \in FormOutcome(NoRow, auth) :
          row' = [out.new EXCEPT !.present = TRUE, !.warn = warn, !.error = error]
    /\ UNCHANGED task

Decide(r, out, warn, error) ==
    /\ task[r].step = "idle"
    /\ task' = [task EXCEPT ![r] =
                  [step |-> "decided", seen |-> row, fresh |-> out.fresh,
                   new |-> [out.new EXCEPT !.warn = warn, !.error = error]]]
    /\ UNCHANGED row

\* CustomerForm.validate, then _apply_settings and _apply_credentials.
EditForm(r, auth, warn, error) ==
    /\ row.present
    /\ error <= warn
    /\ \E out \in FormOutcome(row, auth) : Decide(r, out, warn, error)

Given(value, old) == IF value = Nothing THEN old ELSE value

\* Slip: values that are sent are compared, stored ones are not.
Ordered_SentOnly(old, warn, error) == warn # Nothing /\ error # Nothing => error <= warn

\* pruefe_schwellen
Ordered(old, warn, error) == Given(error, old.error) <= Given(warn, old.warn)

\* PATCH: a field left out keeps its value.
Patch(r, auth, warn, error) ==
    /\ row.present
    /\ Ordered(row, warn, error)
    /\ \E out \in ApiOutcome(row, Given(auth, row.auth)) :
          Decide(r, out, Given(warn, row.warn), Given(error, row.error))

\* The columns a request writes: what it changed, and every fresh ciphertext.
Merged(old, t) ==
    LET Written(c) == c \in t.fresh \/ t.new[c] # t.seen[c]
    IN  [present |-> TRUE,
         auth    |-> IF Written("auth") THEN t.new.auth ELSE old.auth,
         secret  |-> IF Written("secret") THEN t.new.secret ELSE old.secret,
         cert    |-> IF Written("cert") THEN t.new.cert ELSE old.cert,
         key     |-> IF Written("key") THEN t.new.key ELSE old.key,
         thumb   |-> IF Written("thumb") THEN t.new.thumb ELSE old.thumb,
         warn    |-> IF Written("warn") THEN t.new.warn ELSE old.warn,
         error   |-> IF Written("error") THEN t.new.error ELSE old.error]

\* A row that is gone meanwhile is an error (StaleDataError) and no write.
Save(r) ==
    /\ task[r].step = "decided"
    /\ row' = IF row.present THEN Merged(row, task[r]) ELSE row
    /\ task' = [task EXCEPT ![r] = Idle]

\* The database is busy or the process ends: nothing was written.
Abandon(r) ==
    /\ task[r].step = "decided"
    /\ task' = [task EXCEPT ![r] = Idle]
    /\ UNCHANGED row

Delete(r) ==
    /\ task[r].step = "idle"
    /\ row.present
    /\ row' = NoRow
    /\ UNCHANGED task

Next ==
    \E r \in Request :
        \/ \E auth \in Methods, warn, error \in Day :
              Create(r, auth, warn, error) \/ EditForm(r, auth, warn, error)
        \/ \E auth \in Methods \cup {Nothing}, warn, error \in Day \cup {Nothing} :
              Patch(r, auth, warn, error)
        \/ Save(r)
        \/ Abandon(r)
        \/ Delete(r)

Spec == Init /\ [][Next]_vars

-------------------------------------------------------------------------------
(* Properties *)

TypeOK ==
    /\ row \in Row
    /\ task \in [Request -> [step: {"idle", "decided"}, seen: Row, new: Row,
                             fresh: SUBSET Columns]]

\* A request that writes although the row is not what it read any more.
Overtaken(r) == task[r].step = "decided" /\ task'[r] = Idle /\ task[r].seen # row

\* A customer that can be scanned stays one (has_credential, customer_to_config):
\* no sequence of forms and PATCHes, whichever method they choose and whatever
\* they leave out, takes away the material of the method in force.
HasCredential(customer) == customer.present => Stored(customer, customer.auth)

CredentialStays ==
    [][HasCredential(row) /\ ~HasCredential(row') => \E r \in Request : Overtaken(r)]_vars

\* Certificate, private key and thumbprint come from one upload, and there is no
\* secret beside them: rotating, switching to a secret and back never mixes two.
OneUpload(customer) ==
    /\ customer.key = customer.cert
    /\ customer.thumb = customer.cert
    /\ customer.cert # Nothing => ~customer.secret

UploadStaysWhole ==
    [][OneUpload(row) /\ ~OneUpload(row') => \E r \in Request : Overtaken(r)]_vars

\* No warning after the error: a request that sends one threshold is judged
\* against the other one as stored.
Thresholds(customer) == customer.present => customer.error <= customer.warn

ThresholdsStayOrdered ==
    [][Thresholds(row) /\ ~Thresholds(row') => \E r \in Request : Overtaken(r)]_vars
===============================================================================
