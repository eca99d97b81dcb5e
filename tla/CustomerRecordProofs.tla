------------------------- MODULE CustomerRecordProofs -------------------------
(***************************************************************************)
(* For any number of certificates, thresholds and requests: a write that   *)
(* was not overtaken keeps a customer's record in order.                   *)
(***************************************************************************)
EXTENDS CustomerRecord, TLAPS

Task == [step: {"idle", "decided"}, seen: Row, new: Row, fresh: SUBSET Columns]

LEMMA RestTyped == NoRow \in Row /\ Idle \in Task
  BY DEF NoRow, Row, Methods, Idle, Task, Columns

LEMMA WithPairShape ==
    ASSUME NEW o \in Row, NEW p \in Pair
    PROVE  WithPair(o, p) =
             [present |-> o.present, auth |-> "certificate", secret |-> FALSE, cert |-> p,
              key |-> p, thumb |-> p, warn |-> o.warn, error |-> o.error]
<1> DEFINE half == [o EXCEPT !.auth = "certificate", !.secret = FALSE]
<1>1. half \in Row /\ half.auth = "certificate" /\ half.secret = FALSE
      /\ half.present = o.present /\ half.warn = o.warn /\ half.error = o.error
  BY DEF Row, Methods
<1>2. WithPair(o, p) = [half EXCEPT !.cert = p, !.key = p, !.thumb = p]
  BY DEF WithPair
<1> HIDE DEF half
<1>3. QED
  BY <1>1, <1>2 DEF Row

\* What both validations let through: material for the chosen method, from one
\* upload if the record was so before.
LEMMA OutcomeFits ==
    ASSUME NEW old \in Row, NEW auth \in Methods, NEW out \in FormOutcome(old, auth)
    PROVE  /\ out.new \in Row
           /\ out.fresh \in SUBSET Columns
           /\ out.new.present = old.present
           /\ out.new.auth = auth
           /\ Stored(out.new, auth)
           /\ OneUpload(old) => OneUpload(out.new)
<1>1. CASE auth = "certificate" /\ \E pair \in Pair : out.new = WithPair(old, pair)
                                /\ out.fresh = {"key"}
  <2>1. PICK pair \in Pair : out.new = WithPair(old, pair)
    BY <1>1
  <2>2. /\ out.new \in Row /\ out.new.present = old.present /\ out.new.auth = "certificate"
        /\ out.new.secret = FALSE
        /\ out.new.cert = pair /\ out.new.key = pair /\ out.new.thumb = pair
    <3>1. WithPair(old, pair) =
             [present |-> old.present, auth |-> "certificate", secret |-> FALSE, cert |-> pair,
              key |-> pair, thumb |-> pair, warn |-> old.warn, error |-> old.error]
      BY WithPairShape
    <3>2. WithPair(old, pair) \in Row
      BY <3>1 DEF Row, Methods
    <3>3. QED
      BY <2>1, <3>1, <3>2
  <2>3. pair # Nothing
    BY RecordAssumption
  <2>4. QED
    BY <1>1, <2>2, <2>3 DEF Columns, Stored, OneUpload
<1>2. CASE auth = "secret" /\ out.new = WithSecret(old) /\ out.fresh = {"secret"}
  BY <1>2 DEF WithSecret, Row, Methods, Columns, Stored, OneUpload
<1>3. CASE Stored(old, auth) /\ out.new = [old EXCEPT !.auth = auth] /\ out.fresh = {}
  BY <1>3 DEF Row, Methods, Columns, Stored, OneUpload
<1>4. QED
  BY <1>1, <1>2, <1>3 DEF FormOutcome

LEMMA ApiWithinForm ==
    ASSUME NEW old, NEW auth PROVE ApiOutcome(old, auth) \subseteq FormOutcome(old, auth)
  BY DEF ApiOutcome

\* What a request has decided keeps in order what it read.
Fits(new) == new.present /\ Stored(new, new.auth) /\ new.error <= new.warn

Decided(r) ==
    task[r].step = "decided" =>
        /\ task[r].seen.present
        /\ Fits(task[r].new)
        /\ OneUpload(task[r].seen) => OneUpload(task[r].new)

IInv == TypeOK /\ \A r \in Request : Decided(r)

LEMMA IInvInit == Init => IInv
  BY RestTyped DEF Init, IInv, TypeOK, Decided, Idle, Task

LEMMA MergedTyped ==
    ASSUME NEW old \in Row, NEW t \in Task PROVE Merged(old, t) \in Row
  BY DEF Merged, Row, Task

LEMMA DecideStep ==
    ASSUME IInv, NEW r \in Request, NEW auth \in Methods, NEW out \in FormOutcome(row, auth),
           NEW warn \in Day \cup {Nothing}, NEW error \in Day \cup {Nothing},
           row.present, error <= warn, Decide(r, out, warn, error)
    PROVE  IInv'
<1> DEFINE new == [out.new EXCEPT !.warn = warn, !.error = error]
<1>0. /\ row \in Row /\ task \in [Request -> Task] /\ row' = row
      /\ task' = [task EXCEPT ![r] =
                    [step |-> "decided", seen |-> row, fresh |-> out.fresh, new |-> new]]
  BY DEF IInv, TypeOK, Task, Decide
<1>1. /\ out.new \in Row /\ out.fresh \in SUBSET Columns /\ out.new.present
      /\ out.new.auth = auth /\ Stored(out.new, auth)
      /\ OneUpload(row) => OneUpload(out.new)
  BY <1>0, OutcomeFits
<1>2. new \in Row /\ Fits(new) /\ (OneUpload(row) => OneUpload(new))
  <2>1. new \in Row
    BY <1>1 DEF Row
  <2>2. /\ new.present = out.new.present /\ new.auth = out.new.auth
        /\ new.secret = out.new.secret /\ new.cert = out.new.cert
        /\ new.key = out.new.key /\ new.thumb = out.new.thumb
        /\ new.warn = warn /\ new.error = error
    BY <1>1 DEF Row
  <2>3. QED
    BY <1>1, <2>1, <2>2 DEF Fits, Stored, OneUpload
<1> HIDE DEF new
<1>3. TypeOK'
  BY <1>0, <1>1, <1>2 DEF TypeOK, Task
<1>4. Decided(r)'
  BY <1>0, <1>2 DEF Decided
<1>5. ASSUME NEW s \in Request \ {r} PROVE Decided(s)'
  BY <1>0 DEF IInv, Decided
<1>6. QED
  BY <1>3, <1>4, <1>5 DEF IInv

LEMMA IInvStep == IInv /\ [Next]_vars => IInv'
<1> SUFFICES ASSUME IInv, [Next]_vars PROVE IInv'
  OBVIOUS
<1>0. /\ row \in Row /\ task \in [Request -> Task] /\ Idle \in Task /\ NoRow \in Row
      /\ \A r \in Request : Decided(r)
  BY RestTyped DEF IInv, TypeOK, Task
\* A step that decides nothing leaves every decision as it is.
<1>1. ASSUME row' \in Row, NEW r \in Request,
             task' = task \/ task' = [task EXCEPT ![r] = Idle]
      PROVE  IInv'
  <2>1. TypeOK'
    BY <1>0, <1>1 DEF TypeOK, Task
  <2>2. \A s \in Request : task'[s] = task[s] \/ task'[s] = Idle
    BY <1>0, <1>1
  <2>3. \A s \in Request : Decided(s)'
    BY <1>0, <2>2 DEF Decided, Idle
  <2>4. QED
    BY <2>1, <2>3 DEF IInv
<1>2. ASSUME NEW r \in Request, NEW auth \in Methods, NEW warn \in Day, NEW error \in Day,
             Create(r, auth, warn, error)
      PROVE  IInv'
  <2>1. PICK out \in FormOutcome(NoRow, auth) :
            row' = [out.new EXCEPT !.present = TRUE, !.warn = warn, !.error = error]
    BY <1>2 DEF Create
  <2>2. out.new \in Row
    BY <1>0, OutcomeFits
  <2>3. row' \in Row
    BY <2>1, <2>2 DEF Row
  <2>4. QED
    BY <1>1, <1>2, <2>3 DEF Create
<1>3. ASSUME NEW r \in Request, NEW auth \in Methods, NEW warn \in Day, NEW error \in Day,
             EditForm(r, auth, warn, error)
      PROVE  IInv'
  BY <1>3, DecideStep DEF EditForm
<1>4. ASSUME NEW r \in Request, NEW auth \in Methods \cup {Nothing},
             NEW warn \in Day \cup {Nothing}, NEW error \in Day \cup {Nothing},
             Patch(r, auth, warn, error)
      PROVE  IInv'
  <2>1. /\ Given(auth, row.auth) \in Methods
        /\ Given(warn, row.warn) \in Day \cup {Nothing}
        /\ Given(error, row.error) \in Day \cup {Nothing}
    BY <1>0 DEF Given, Row
  <2>2. /\ row.present /\ Given(error, row.error) <= Given(warn, row.warn)
        /\ \E out \in FormOutcome(row, Given(auth, row.auth)) :
              Decide(r, out, Given(warn, row.warn), Given(error, row.error))
    BY <1>4, ApiWithinForm DEF Patch, Ordered
  <2>3. QED
    BY <2>1, <2>2, DecideStep
<1>5. ASSUME NEW r \in Request, Save(r) PROVE IInv'
  <2>1. row' \in Row
    BY <1>0, <1>5, MergedTyped DEF Save
  <2>2. QED
    BY <1>1, <1>5, <2>1 DEF Save
<1>6. ASSUME NEW r \in Request, Abandon(r) \/ Delete(r) PROVE IInv'
  BY <1>0, <1>1, <1>6 DEF Abandon, Delete
<1>7. CASE UNCHANGED vars
  BY <1>7 DEF vars, IInv, TypeOK, Decided
<1>8. QED
  BY <1>2, <1>3, <1>4, <1>5, <1>6, <1>7 DEF Next

\* Types, for any certificates, thresholds and requests.
THEOREM TypeCorrect == Spec => []TypeOK
<1>1. IInv => TypeOK
  BY DEF IInv
<1>2. QED
  BY <1>1, IInvInit, IInvStep, PTL DEF Spec

-------------------------------------------------------------------------------

\* A request that nobody overtook leaves exactly what it decided.
LEMMA SavedAsDecided ==
    ASSUME NEW old \in Row, NEW t \in Task, t.seen = old, old.present, t.new.present
    PROVE  Merged(old, t) = t.new
<1>1. t.new \in Row
  BY DEF Task
<1>2. /\ Merged(old, t) \in Row
      /\ Merged(old, t).present = t.new.present
      /\ Merged(old, t).auth = t.new.auth /\ Merged(old, t).secret = t.new.secret
      /\ Merged(old, t).cert = t.new.cert /\ Merged(old, t).key = t.new.key
      /\ Merged(old, t).thumb = t.new.thumb
      /\ Merged(old, t).warn = t.new.warn /\ Merged(old, t).error = t.new.error
  BY <1>1, MergedTyped DEF Merged, Row
<1>3. ASSUME NEW a \in Row
      PROVE  a = [present |-> a.present, auth |-> a.auth, secret |-> a.secret, cert |-> a.cert,
                  key |-> a.key, thumb |-> a.thumb, warn |-> a.warn, error |-> a.error]
  BY DEF Row
<1>4. QED
  BY <1>1, <1>2, <1>3

\* Steps that no other request overtook keep each part of the record in order.
LEMMA StepKeepsOrder ==
    ASSUME IInv, [Next]_vars, \A r \in Request : ~Overtaken(r)
    PROVE  /\ HasCredential(row) => HasCredential(row')
           /\ OneUpload(row) => OneUpload(row')
           /\ Thresholds(row) => Thresholds(row')
<1>0. row \in Row /\ task \in [Request -> Task] /\ NoRow \in Row
  BY RestTyped DEF IInv, TypeOK, Task
<1>1. ASSUME NEW r \in Request, NEW auth \in Methods, NEW warn \in Day, NEW error \in Day,
             Create(r, auth, warn, error)
      PROVE  HasCredential(row') /\ OneUpload(row') /\ Thresholds(row')
  <2>1. PICK out \in FormOutcome(NoRow, auth) :
            row' = [out.new EXCEPT !.present = TRUE, !.warn = warn, !.error = error]
    BY <1>1 DEF Create
  <2>2. OneUpload(NoRow)
    BY DEF OneUpload, NoRow
  <2>3. out.new \in Row /\ out.new.auth = auth /\ Stored(out.new, auth) /\ OneUpload(out.new)
    BY <1>0, <2>2, OutcomeFits
  <2>4. /\ row'.auth = out.new.auth
        /\ row'.secret = out.new.secret /\ row'.cert = out.new.cert
        /\ row'.key = out.new.key /\ row'.thumb = out.new.thumb
        /\ row'.warn = warn /\ row'.error = error
    BY <2>1, <2>3 DEF Row
  <2>5. QED
    BY <1>1, <2>3, <2>4 DEF Create, HasCredential, OneUpload, Thresholds, Stored
<1>2. ASSUME NEW r \in Request, Save(r)
      PROVE  /\ HasCredential(row) => HasCredential(row')
             /\ OneUpload(row) => OneUpload(row')
             /\ Thresholds(row) => Thresholds(row')
  <2>1. task[r].seen = row /\ task[r].step = "decided"
    BY <1>0, <1>2 DEF Save, Overtaken
  <2>2. /\ task[r].seen.present /\ Fits(task[r].new)
        /\ OneUpload(row) => OneUpload(task[r].new)
    BY <2>1 DEF IInv, Decided
  <2>3. row' = task[r].new
    BY <1>0, <1>2, <2>1, <2>2, SavedAsDecided DEF Save, Fits
  <2>4. QED
    BY <2>2, <2>3 DEF Fits, HasCredential, Thresholds
<1>3. ASSUME NEW r \in Request, Delete(r)
      PROVE  HasCredential(row') /\ OneUpload(row') /\ Thresholds(row')
  BY <1>3 DEF Delete, NoRow, HasCredential, OneUpload, Thresholds
<1>4. CASE row' = row
  BY <1>4
<1>5. QED
  BY <1>1, <1>2, <1>3, <1>4 DEF Next, EditForm, Patch, Decide, Abandon, vars

LEMMA StepOvertaken ==
    IInv /\ [Next]_vars =>
        /\ HasCredential(row) /\ ~HasCredential(row') => \E r \in Request : Overtaken(r)
        /\ OneUpload(row) /\ ~OneUpload(row') => \E r \in Request : Overtaken(r)
        /\ Thresholds(row) /\ ~Thresholds(row') => \E r \in Request : Overtaken(r)
  BY StepKeepsOrder

\* Only a request that was overtaken takes away a customer's usable credential.
THEOREM CredentialKept == Spec => CredentialStays
<1> DEFINE A == HasCredential(row) /\ ~HasCredential(row') => \E r \in Request : Overtaken(r)
<1>1. IInv /\ [Next]_vars => [A]_vars
  BY StepOvertaken
<1> HIDE DEF A
<1>2. Spec => [][A]_vars
  BY <1>1, IInvInit, IInvStep, PTL DEF Spec
<1>3. QED
  BY <1>2 DEF CredentialStays, A

\* Only a request that was overtaken mixes the columns of two uploads.
THEOREM UploadKeptWhole == Spec => UploadStaysWhole
<1> DEFINE A == OneUpload(row) /\ ~OneUpload(row') => \E r \in Request : Overtaken(r)
<1>1. IInv /\ [Next]_vars => [A]_vars
  BY StepOvertaken
<1> HIDE DEF A
<1>2. Spec => [][A]_vars
  BY <1>1, IInvInit, IInvStep, PTL DEF Spec
<1>3. QED
  BY <1>2 DEF UploadStaysWhole, A

\* Only a request that was overtaken puts the warning after the error.
THEOREM ThresholdsKeptOrdered == Spec => ThresholdsStayOrdered
<1> DEFINE A == Thresholds(row) /\ ~Thresholds(row') => \E r \in Request : Overtaken(r)
<1>1. IInv /\ [Next]_vars => [A]_vars
  BY StepOvertaken
<1> HIDE DEF A
<1>2. Spec => [][A]_vars
  BY <1>1, IInvInit, IInvStep, PTL DEF Spec
<1>3. QED
  BY <1>2 DEF ThresholdsStayOrdered, A

-------------------------------------------------------------------------------
(* The record as a whole *)

Sound == HasCredential(row) /\ OneUpload(row) /\ Thresholds(row)

NobodyOvertaken == \A r \in Request : ~Overtaken(r)

\* For as long as no overtaken request writes, the record is whole: a customer that
\* is there can be scanned, with the parts of one upload and ordered thresholds.
THEOREM SoundUnlessOvertaken == Spec /\ [][NobodyOvertaken]_vars => []Sound
<1>1. Init => Sound
  BY DEF Init, NoRow, Sound, HasCredential, OneUpload, Thresholds
<1>2. IInv /\ Sound /\ [Next]_vars /\ [NobodyOvertaken]_vars => Sound'
  <2> SUFFICES ASSUME IInv, Sound, [Next]_vars, [NobodyOvertaken]_vars PROVE Sound'
    OBVIOUS
  <2>1. CASE UNCHANGED vars
    BY <2>1 DEF Sound, vars
  <2>2. CASE NobodyOvertaken
    BY <2>2, StepKeepsOrder DEF NobodyOvertaken, Sound
  <2>3. QED
    BY <2>1, <2>2
<1>3. QED
  BY <1>1, <1>2, IInvInit, IInvStep, PTL DEF Spec

OneAtATime == \A r, s \in Request : r = s

\* A request that is alone has decided on the row as it is.
SeesTheRow == \A r \in Request : task[r].step = "decided" => task[r].seen = row

LEMMA AloneSeesTheRow == ASSUME OneAtATime PROVE Spec => []SeesTheRow
<1>1. Init => SeesTheRow
  BY DEF Init, Idle, SeesTheRow
<1>2. IInv /\ SeesTheRow /\ [Next]_vars => SeesTheRow'
  <2> SUFFICES ASSUME IInv, SeesTheRow, [Next]_vars PROVE SeesTheRow'
    OBVIOUS
  <2>0. task \in [Request -> Task]
    BY DEF IInv, TypeOK, Task
  <2>1. ASSUME NEW r \in Request, NEW out, NEW warn, NEW error, Decide(r, out, warn, error)
        PROVE  SeesTheRow'
    <3>1. task'[r].seen = row /\ row' = row
      BY <2>0, <2>1 DEF Decide
    <3>2. QED
      BY <3>1 DEF SeesTheRow, OneAtATime
  <2>2. ASSUME NEW r \in Request, Save(r) \/ Abandon(r) PROVE SeesTheRow'
    <3>1. task'[r].step = "idle"
      BY <2>0, <2>2 DEF Save, Abandon, Idle
    <3>2. QED
      BY <3>1 DEF SeesTheRow, OneAtATime
  <2>3. ASSUME NEW r \in Request, task[r].step = "idle", task' = task PROVE SeesTheRow'
    BY <2>3 DEF SeesTheRow, OneAtATime
  <2>4. CASE UNCHANGED vars
    BY <2>4 DEF SeesTheRow, vars
  <2>5. QED
    BY <2>1, <2>2, <2>3, <2>4 DEF Next, Create, EditForm, Patch, Delete
<1>3. QED
  BY <1>1, <1>2, IInvInit, IInvStep, PTL DEF Spec

\* With one request at a time the record is whole whatever is sent.
THEOREM AloneRecordStaysSound == ASSUME OneAtATime PROVE Spec => []Sound
<1>1. SeesTheRow => NobodyOvertaken
  BY DEF SeesTheRow, NobodyOvertaken, Overtaken
<1>2. QED
  BY <1>1, AloneSeesTheRow, SoundUnlessOvertaken, PTL

-------------------------------------------------------------------------------
(* Requests as one step each *)

\* What a form or a PATCH makes of a record in one step.
Saves(old, new) ==
    \E auth \in Methods, warn, error \in Day \cup {Nothing} :
        /\ error <= warn
        /\ \E out \in FormOutcome(old, auth) :
              new = [out.new EXCEPT !.present = TRUE, !.warn = warn, !.error = error]

Atomic == Saves(row, row') \/ (row.present /\ row' = NoRow)

\* What is pending is what the request would make of the record it has read.
PendingSaves == \A r \in Request : task[r].step = "decided" => Saves(task[r].seen, task[r].new)

GoneIsEmpty == ~row.present => row = NoRow

LEMMA DecideSaves ==
    ASSUME IInv, PendingSaves, NEW r \in Request, NEW auth \in Methods,
           NEW out \in FormOutcome(row, auth),
           NEW warn \in Day \cup {Nothing}, NEW error \in Day \cup {Nothing},
           row.present, error <= warn, Decide(r, out, warn, error)
    PROVE  PendingSaves'
<1> DEFINE new == [out.new EXCEPT !.warn = warn, !.error = error]
<1>0. row \in Row /\ task \in [Request -> Task]
  BY DEF IInv, TypeOK, Task
<1>1. task' = [task EXCEPT ![r] =
                 [step |-> "decided", seen |-> row, fresh |-> out.fresh, new |-> new]]
  BY DEF Decide
<1>2. new = [out.new EXCEPT !.present = TRUE, !.warn = warn, !.error = error]
  <2>1. out.new \in Row /\ out.new.present = TRUE
    BY <1>0, OutcomeFits
  <2>2. QED
    BY <2>1 DEF Row
<1>3. Saves(row, new)
  BY <1>2 DEF Saves
<1> HIDE DEF new
<1>4. ASSUME NEW s \in Request, task'[s].step = "decided"
      PROVE  Saves(task'[s].seen, task'[s].new)
  <2>1. CASE s = r
    BY <1>0, <1>1, <1>3, <2>1
  <2>2. CASE s # r
    BY <1>0, <1>1, <1>4, <2>2 DEF PendingSaves
  <2>3. QED
    BY <2>1, <2>2
<1>5. QED
  BY <1>4 DEF PendingSaves

LEMMA AtomicStep ==
    ASSUME IInv, PendingSaves, GoneIsEmpty, [Next]_vars
    PROVE  /\ PendingSaves' /\ GoneIsEmpty'
           /\ NobodyOvertaken => Atomic \/ row' = row
<1>0. row \in Row /\ task \in [Request -> Task] /\ Idle.step = "idle"
  BY DEF IInv, TypeOK, Task, Idle
<1>1. ASSUME row' = row, PendingSaves'
      PROVE  PendingSaves' /\ GoneIsEmpty' /\ (NobodyOvertaken => Atomic \/ row' = row)
  BY <1>1 DEF GoneIsEmpty
<1>2. ASSUME NEW r \in Request, NEW auth \in Methods, NEW warn \in Day, NEW error \in Day,
             Create(r, auth, warn, error)
      PROVE  PendingSaves' /\ GoneIsEmpty' /\ Atomic
  <2>1. PICK out \in FormOutcome(NoRow, auth) :
            row' = [out.new EXCEPT !.present = TRUE, !.warn = warn, !.error = error]
    BY <1>2 DEF Create
  <2>2. row = NoRow /\ error <= warn /\ task' = task
    BY <1>2 DEF Create, GoneIsEmpty
  <2>3. Saves(row, row')
    BY <2>1, <2>2 DEF Saves
  <2>4. row'.present
    <3>1. out.new \in Row
      BY RestTyped, OutcomeFits
    <3>2. QED
      BY <2>1, <3>1 DEF Row
  <2>5. QED
    BY <2>2, <2>3, <2>4 DEF Atomic, PendingSaves, GoneIsEmpty
<1>3. ASSUME NEW r \in Request, NEW auth \in Methods, NEW warn \in Day, NEW error \in Day,
             EditForm(r, auth, warn, error)
      PROVE  row' = row /\ PendingSaves'
  BY <1>3, DecideSaves DEF EditForm, Decide
<1>4. ASSUME NEW r \in Request, NEW auth \in Methods \cup {Nothing},
             NEW warn \in Day \cup {Nothing}, NEW error \in Day \cup {Nothing},
             Patch(r, auth, warn, error)
      PROVE  row' = row /\ PendingSaves'
  <2>1. /\ Given(auth, row.auth) \in Methods
        /\ Given(warn, row.warn) \in Day \cup {Nothing}
        /\ Given(error, row.error) \in Day \cup {Nothing}
    BY <1>0 DEF Given, Row
  <2>2. /\ row.present /\ Given(error, row.error) <= Given(warn, row.warn)
        /\ \E out \in FormOutcome(row, Given(auth, row.auth)) :
              Decide(r, out, Given(warn, row.warn), Given(error, row.error))
    BY <1>4, ApiWithinForm DEF Patch, Ordered
  <2>3. QED
    BY <2>1, <2>2, DecideSaves DEF Decide
\* Whoever has finished has nothing pending any more.
<1>5. ASSUME NEW r \in Request, task' = [task EXCEPT ![r] = Idle] PROVE PendingSaves'
  BY <1>0, <1>5 DEF PendingSaves
<1>6. ASSUME NEW r \in Request, Save(r)
      PROVE  PendingSaves' /\ GoneIsEmpty' /\ (NobodyOvertaken => Atomic \/ row' = row)
  <2>1. PendingSaves'
    BY <1>5, <1>6 DEF Save
  <2>2. GoneIsEmpty'
    BY <1>6 DEF Save, Merged, GoneIsEmpty
  <2>3. ASSUME NobodyOvertaken PROVE Atomic
    <3>1. task[r].seen = row /\ task[r].step = "decided"
      BY <1>0, <1>6, <2>3 DEF NobodyOvertaken, Save, Overtaken
    <3>2. row.present /\ task[r].new.present
      BY <3>1 DEF IInv, Decided, Fits
    <3>3. row' = task[r].new
      BY <1>0, <1>6, <3>1, <3>2, SavedAsDecided DEF Save
    <3>4. QED
      BY <3>1, <3>3 DEF PendingSaves, Atomic
  <2>4. QED
    BY <2>1, <2>2, <2>3
<1>7. ASSUME NEW r \in Request, Abandon(r) PROVE row' = row /\ PendingSaves'
  BY <1>5, <1>7 DEF Abandon
<1>8. ASSUME NEW r \in Request, Delete(r) PROVE PendingSaves' /\ GoneIsEmpty' /\ Atomic
  BY <1>8 DEF Delete, PendingSaves, GoneIsEmpty, Atomic
<1>9. CASE UNCHANGED vars
  BY <1>9 DEF vars, PendingSaves, GoneIsEmpty
<1>10. QED
  BY <1>1, <1>2, <1>3, <1>4, <1>6, <1>7, <1>8, <1>9 DEF Next

\* Requests that read first and write later, several at a time, change the record as
\* if each did all of it at the moment it writes, unless one was overtaken.
THEOREM RequestsSerialise == Spec /\ [][NobodyOvertaken]_vars => [][Atomic]_row
<1>1. Init => PendingSaves /\ GoneIsEmpty
  BY DEF Init, Idle, PendingSaves, GoneIsEmpty
<1>2. IInv /\ PendingSaves /\ GoneIsEmpty /\ [Next]_vars
        => PendingSaves' /\ GoneIsEmpty' /\ ([NobodyOvertaken]_vars => [Atomic]_row)
  BY AtomicStep DEF vars
<1>3. QED
  BY <1>1, <1>2, IInvInit, IInvStep, PTL DEF Spec
===============================================================================
