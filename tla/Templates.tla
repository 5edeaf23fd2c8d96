------------------------------- MODULE Templates -------------------------------
(***************************************************************************)
(* Face templates and biometric consent: the enrollment API rotates the    *)
(* active template of a (student, pose), the bulk importer does the same   *)
(* from the command line, instructors record consent decisions, and the    *)
(* retention sweep destroys expired and refused templates.                 *)
(*                                                                         *)
(* Source: backend/app/api/v1/students.py, backend/app/worker/tasks.py     *)
(* (the retention half) and _upsert_template of                            *)
(* backend/scripts/import_enrollments.py.                                  *)
(*                                                                         *)
(* PostgreSQL at READ COMMITTED: SELECT .. FOR UPDATE fixes its candidate  *)
(* rows when it starts, waits for their locks, and then keeps the rows     *)
(* that still qualify; it never sees a row committed meanwhile.  The DELETE *)
(* of the sweep behaves the same way.  So each is two actions.  The writes *)
(* of a transaction and its commit are one action.                         *)
(***************************************************************************)
EXTENDS Integers, FiniteSets

CONSTANTS
    Students,        \* student ids
    Poses,           \* pose labels
    Enrollers,       \* enrollment requests that may be in flight at once
    Importers,       \* importer processes
    Sweepers,        \* worker slots that run the retention task
    NoStudent,       \* no student yet
    NoPose,          \* no pose yet
    EnforceConsent,  \* ATTENDANCE_ENFORCE_BIOMETRIC_CONSENT
    Overwrite,       \* the importer's --overwrite
    MaxTemplates,    \* bound: template rows ever created
    MaxDecisions,    \* bound: consent decisions recorded
    MaxDisturbances  \* bound: failures and student changes

ASSUME TemplatesAssumption ==
    /\ Enrollers \cap Importers = {}
    /\ NoStudent \notin Students
    /\ NoPose \notin Poses
    /\ EnforceConsent \in BOOLEAN
    /\ Overwrite \in BOOLEAN
    /\ MaxTemplates \in Nat
    /\ MaxDecisions \in Nat
    /\ MaxDisturbances \in Nat

VARIABLES
    student,      \* student[s]: "active", "inactive" or "deleted"
    consent,      \* consent[s]: Student.biometric_consent_status
    decisions,    \* decisions[s]: the CONSENT_* rows of governance_logs about s
    template,     \* template[t]: the student_embeddings row with id t
    created,      \* template rows created so far; the next id is created + 1
    archivals,    \* archivals[t]: 'archived' rows of template_audit_logs about t
    expired,      \* templates older than the retention horizon
    wr,           \* wr[w]: the enrollment request or importer w
    sw,           \* sw[x]: the retention sweep in worker slot x
    recorded,     \* consent decisions recorded so far
    disturbances  \* failures and student changes so far

vars == <<student, consent, decisions, template, created, archivals, expired,
          wr, sw, recorded, disturbances>>

-----------------------------------------------------------------------------
(* Values.                                                                 *)

Ids == 1..MaxTemplates

Writers == Enrollers \cup Importers

Decision == {"granted", "denied", "withdrawn"}

\* The statuses whose templates the sweep destroys whatever their age.
Refusal == {"denied", "withdrawn"}

\* "unused": not created yet; "purged": destroyed by a sweep; "removed": gone
\* with its student (ON DELETE CASCADE).  source tells the two writers apart.
Template == [student : Students \cup {NoStudent}, pose : Poses \cup {NoPose},
             state : {"unused", "active", "archived", "purged", "removed"},
             source : {"none", "api", "import"}]

Unused == [student |-> NoStudent, pose |-> NoPose, state |-> "unused",
           source |-> "none"]

Writer == [phase : {"idle", "admitted", "loaded", "selecting", "locked"},
           student : Students \cup {NoStudent}, pose : Poses \cup {NoPose},
           rows : SUBSET Ids, roster : SUBSET Students]

IdleWriter == [phase |-> "idle", student |-> NoStudent, pose |-> NoPose,
               rows |-> {}, roster |-> {}]

Sweep == [phase : {"idle", "counting", "deleting", "waiting"},
          batch : {"retention_expired", "consent_not_granted"},
          old : SUBSET Ids, claimed : Nat, rows : SUBSET Ids, reported : Nat]

IdleSweep == [phase |-> "idle", batch |-> "retention_expired", old |-> {},
              claimed |-> 0, rows |-> {}, reported |-> 0]

\* The row is in the table.
Stored(t) == template[t].state \in {"active", "archived"}

ActiveRows(s, p) == {t \in Ids : /\ template[t].state = "active"
                                 /\ template[t].student = s
                                 /\ template[t].pose = p}

\* Rows that SELECT .. FOR UPDATE of some other writer holds.
LockedByOthers(w) ==
    UNION {wr[v].rows : v \in {u \in Writers \ {w} : wr[u].phase = "locked"}}

Locked == UNION {wr[v].rows : v \in {u \in Writers : wr[u].phase = "locked"}}

\* What a writer that is done with one template turns into: a request ends, an
\* importer goes on with the next row of its batch.
Rest(w) == IF w \in Importers
           THEN [IdleWriter EXCEPT !.phase = "loaded", !.roster = wr[w].roster]
           ELSE IdleWriter

-----------------------------------------------------------------------------
Init ==
    /\ student = [s \in Students |-> "active"]
    /\ consent = [s \in Students |-> "pending"]
    /\ decisions = [s \in Students |-> {}]
    /\ template = [t \in Ids |-> Unused]
    /\ created = 0
    /\ archivals = [t \in Ids |-> 0]
    /\ expired = {}
    /\ wr = [w \in Writers |-> IdleWriter]
    /\ sw = [x \in Sweepers |-> IdleSweep]
    /\ recorded = 0
    /\ disturbances = 0

(* Enrollment.                                                             *)

\* Mutant: the gate only refuses recorded refusals.
AdmittedByGateRefusingOnly(s) ==
    /\ student[s] = "active"
    /\ EnforceConsent => consent[s] \notin Refusal

\* The student is active and, under the flag, has granted consent.
AdmittedByGate(s) ==
    /\ student[s] = "active"
    /\ EnforceConsent => consent[s] = "granted"

\* The checks at the head of enroll_student_template; the image then goes to
\* Triton while nothing is locked.
AdmitEnrollment(w, s, p) ==
    /\ wr[w].phase = "idle"
    /\ created < MaxTemplates
    /\ AdmittedByGate(s)
    /\ wr' = [wr EXCEPT ![w] = [@ EXCEPT !.phase = "admitted", !.student = s,
                                         !.pose = p]]
    /\ UNCHANGED <<student, consent, decisions, template, created, archivals,
                   expired, sw, recorded, disturbances>>

\* No face, Triton unavailable or quality below the minimum: nothing is written.
RefuseImage(w) ==
    /\ wr[w].phase = "admitted"
    /\ wr' = [wr EXCEPT ![w] = IdleWriter]
    /\ UNCHANGED <<student, consent, decisions, template, created, archivals,
                   expired, sw, recorded, disturbances>>

\* The embedding is there; SELECT .. FOR UPDATE starts.
SelectActives(w) ==
    /\ wr[w].phase = "admitted"
    /\ wr' = [wr EXCEPT ![w] = [@ EXCEPT !.phase = "selecting",
                                         !.rows = ActiveRows(wr[w].student, wr[w].pose)]]
    /\ UNCHANGED <<student, consent, decisions, template, created, archivals,
                   expired, sw, recorded, disturbances>>

(* The importer.                                                           *)

\* _load_roster: which students are active, once per run.
LoadRoster(w) ==
    /\ wr[w].phase = "idle"
    /\ wr' = [wr EXCEPT ![w] = [@ EXCEPT !.phase = "loaded",
                 !.roster = {s \in Students : student[s] = "active"}]]
    /\ UNCHANGED <<student, consent, decisions, template, created, archivals,
                   expired, sw, recorded, disturbances>>

\* One row of the batch has passed its checks; _upsert_template starts.
SelectImported(w, s, p) ==
    /\ wr[w].phase = "loaded"
    /\ created < MaxTemplates
    /\ s \in wr[w].roster
    /\ wr' = [wr EXCEPT ![w] = [@ EXCEPT !.phase = "selecting", !.student = s,
                                         !.pose = p, !.rows = ActiveRows(s, p)]]
    /\ UNCHANGED <<student, consent, decisions, template, created, archivals,
                   expired, sw, recorded, disturbances>>

\* The batch is done, or the process dies between two rows.
EndImport(w) ==
    /\ wr[w].phase = "loaded"
    /\ wr' = [wr EXCEPT ![w] = IdleWriter]
    /\ UNCHANGED <<student, consent, decisions, template, created, archivals,
                   expired, sw, recorded, disturbances>>

(* Both writers.                                                           *)

\* Mutant: no row lock and no second look at the rows.
StillActiveUnchecked(rows) == rows

\* What is left of the candidate rows once their locks are granted.
StillActive(rows) == {t \in rows : template[t].state = "active"}

\* The locks of SELECT .. FOR UPDATE are granted.  The importer without
\* --overwrite leaves a pose alone that has a template.
LockActives(w) ==
    LET rows == StillActive(wr[w].rows)
    IN  /\ wr[w].phase = "selecting"
        /\ wr[w].rows \cap LockedByOthers(w) = {}
        /\ wr' = [wr EXCEPT ![w] =
                    IF w \in Importers /\ ~Overwrite /\ rows # {} THEN Rest(w)
                    ELSE [@ EXCEPT !.phase = "locked", !.rows = rows]]
        /\ UNCHANGED <<student, consent, decisions, template, created,
                       archivals, expired, sw, recorded, disturbances>>

\* Mutant: the new row is stored without being activated.
NewTemplateInactive(w) ==
    [student |-> wr[w].student, pose |-> wr[w].pose, state |-> "archived",
     source |-> IF w \in Importers THEN "import" ELSE "api"]

\* The row a writer inserts.
NewTemplate(w) ==
    [student |-> wr[w].student, pose |-> wr[w].pose, state |-> "active",
     source |-> IF w \in Importers THEN "import" ELSE "api"]

\* The locked rows are archived, each with its audit row, the new row is
\* inserted and all is committed.  The foreign key needs the student.
CommitTemplate(w) ==
    /\ wr[w].phase = "locked"
    /\ student[wr[w].student] # "deleted"
    /\ created < MaxTemplates
    /\ template' = [t \in Ids |->
                      IF t = created + 1 THEN NewTemplate(w)
                      ELSE IF t \in wr[w].rows
                      THEN [template[t] EXCEPT !.state = "archived"]
                      ELSE template[t]]
    /\ archivals' = [t \in Ids |-> IF t \in wr[w].rows THEN archivals[t] + 1
                                   ELSE archivals[t]]
    /\ created' = created + 1
    /\ wr' = [wr EXCEPT ![w] = Rest(w)]
    /\ UNCHANGED <<student, consent, decisions, expired, sw, recorded,
                   disturbances>>

\* The transaction is rolled back: the student is gone, a mandatory audit row
\* cannot be written, or the connection is lost.  (A writer that meets the
\* bound on rows ends here too.)
FailWrite(w) ==
    /\ wr[w].phase \in {"selecting", "locked"}
    /\ \/ /\ wr[w].phase = "locked"
          /\ student[wr[w].student] = "deleted" \/ created = MaxTemplates
          /\ UNCHANGED disturbances
       \/ /\ disturbances < MaxDisturbances
          /\ disturbances' = disturbances + 1
    /\ wr' = [wr EXCEPT ![w] = Rest(w)]
    /\ UNCHANGED <<student, consent, decisions, template, created, archivals,
                   expired, sw, recorded>>

(* Consent and the student.                                                *)

\* record_student_consent: the status and its mandatory governance row.
RecordConsent(s, v) ==
    /\ recorded < MaxDecisions
    /\ student[s] # "deleted"
    /\ consent' = [consent EXCEPT ![s] = v]
    /\ decisions' = [decisions EXCEPT ![s] = @ \cup {v}]
    /\ recorded' = recorded + 1
    /\ UNCHANGED <<student, template, created, archivals, expired, wr, sw,
                   disturbances>>

\* Mutant: the request schema lets "pending" through.
RecordingAnyStatus(s) == \E v \in Decision \cup {"pending"} : RecordConsent(s, v)

\* StudentConsentUpdate admits the three definitive decisions.
Recording(s) == \E v \in Decision : RecordConsent(s, v)

\* PATCH /students/{id} with is_active.
ToggleStudent(s) ==
    /\ disturbances < MaxDisturbances
    /\ student[s] # "deleted"
    /\ student' = [student EXCEPT ![s] = IF @ = "active" THEN "inactive"
                                         ELSE "active"]
    /\ disturbances' = disturbances + 1
    /\ UNCHANGED <<consent, decisions, template, created, archivals, expired,
                   wr, sw, recorded>>

\* DELETE /students/{id}: the templates go with the student (ON DELETE CASCADE),
\* once no writer holds a lock on one of them.
DeleteStudent(s) ==
    /\ disturbances < MaxDisturbances
    /\ student[s] # "deleted"
    /\ \A t \in Locked : template[t].student # s
    /\ student' = [student EXCEPT ![s] = "deleted"]
    /\ template' = [t \in Ids |->
                      IF Stored(t) /\ template[t].student = s
                      THEN [template[t] EXCEPT !.state = "removed"]
                      ELSE template[t]]
    /\ disturbances' = disturbances + 1
    /\ UNCHANGED <<consent, decisions, created, archivals, expired, wr, sw,
                   recorded>>

\* A stored template passes the retention horizon.
Expire(t) ==
    /\ Stored(t)
    /\ t \notin expired
    /\ expired' = expired \cup {t}
    /\ UNCHANGED <<student, consent, decisions, template, created, archivals,
                   wr, sw, recorded, disturbances>>

(* The retention sweep.                                                    *)

\* Mutant: everything without a grant is destroyed, undecided students included.
BatchOfUngranted(y) ==
    {t \in Ids : /\ Stored(t)
                 /\ IF y.batch = "retention_expired" THEN t \in y.old
                    ELSE consent[template[t].student] # "granted"}

\* Mutant: a denial is not taken for a refusal.
BatchOfWithdrawn(y) ==
    {t \in Ids : /\ Stored(t)
                 /\ IF y.batch = "retention_expired" THEN t \in y.old
                    ELSE consent[template[t].student] = "withdrawn"}

\* The rows that the criterion of the current batch selects.
Batch(y) ==
    {t \in Ids : /\ Stored(t)
                 /\ IF y.batch = "retention_expired" THEN t \in y.old
                    ELSE consent[template[t].student] \in Refusal}

\* After the expired templates come the refused ones, in a transaction of
\* their own; then the task is done.
NextBatch(y) ==
    IF y.batch = "retention_expired"
    THEN [y EXCEPT !.phase = "counting", !.batch = "consent_not_granted",
                   !.old = {}, !.claimed = 0, !.rows = {}]
    ELSE [IdleSweep EXCEPT !.reported = y.reported]

\* The beat message starts a sweep and fixes its cutoff.
StartSweep(x) ==
    /\ sw[x].phase = "idle"
    /\ sw' = [sw EXCEPT ![x] = [IdleSweep EXCEPT !.phase = "counting", !.old = expired]]
    /\ UNCHANGED <<student, consent, decisions, template, created, archivals,
                   expired, wr, recorded, disturbances>>

\* SELECT count(*): nothing to do ends the batch, otherwise the number goes
\* into the EMBED_HARD_DELETE row.
CountBatch(x) ==
    /\ sw[x].phase = "counting"
    /\ sw' = [sw EXCEPT ![x] =
                IF Batch(sw[x]) = {} THEN [NextBatch(sw[x]) EXCEPT !.reported = 0]
                ELSE [sw[x] EXCEPT !.phase = "deleting", !.reported = 0,
                                   !.claimed = Cardinality(Batch(sw[x]))]]
    /\ UNCHANGED <<student, consent, decisions, template, created, archivals,
                   expired, wr, recorded, disturbances>>

\* The audit row is flushed; the DELETE starts.
StartDelete(x) ==
    /\ sw[x].phase = "deleting"
    /\ sw' = [sw EXCEPT ![x] = [@ EXCEPT !.phase = "waiting", !.rows = Batch(sw[x])]]
    /\ UNCHANGED <<student, consent, decisions, template, created, archivals,
                   expired, wr, recorded, disturbances>>

\* What _delete_batch returns: rowcount or candidate_count.
Reported(gone, claimed) == IF gone = {} THEN claimed ELSE Cardinality(gone)

\* No row is locked any more: those still there go, with the audit row.
FinishDelete(x) ==
    LET gone == {t \in sw[x].rows : Stored(t)}
    IN  /\ sw[x].phase = "waiting"
        /\ sw[x].rows \cap Locked = {}
        /\ template' = [t \in Ids |-> IF t \in gone
                                      THEN [template[t] EXCEPT !.state = "purged"]
                                      ELSE template[t]]
        /\ sw' = [sw EXCEPT ![x] =
                    [NextBatch(sw[x]) EXCEPT !.reported = Reported(gone, sw[x].claimed)]]
        /\ UNCHANGED <<student, consent, decisions, created, archivals, expired,
                       wr, recorded, disturbances>>

\* The audit write fails or the worker is lost; the open batch is rolled back.
FailSweep(x) ==
    /\ disturbances < MaxDisturbances
    /\ sw[x].phase # "idle"
    /\ sw' = [sw EXCEPT ![x] = IdleSweep]
    /\ disturbances' = disturbances + 1
    /\ UNCHANGED <<student, consent, decisions, template, created, archivals,
                   expired, wr, recorded>>

-----------------------------------------------------------------------------
Enrolling(w) ==
    \/ \E s \in Students, p \in Poses : AdmitEnrollment(w, s, p)
    \/ RefuseImage(w)
    \/ SelectActives(w)

Importing(w) ==
    \/ LoadRoster(w)
    \/ \E s \in Students, p \in Poses : SelectImported(w, s, p)
    \/ EndImport(w)

Finishing(w) == CommitTemplate(w) \/ FailWrite(w)

Sweeping(x) == StartSweep(x) \/ CountBatch(x) \/ StartDelete(x) \/ FinishDelete(x)

Next ==
    \/ \E w \in Enrollers : Enrolling(w)
    \/ \E w \in Importers : Importing(w)
    \/ \E w \in Writers : LockActives(w) \/ Finishing(w)
    \/ \E x \in Sweepers : Sweeping(x) \/ FailSweep(x)
    \/ \E s \in Students : Recording(s) \/ ToggleStudent(s) \/ DeleteStudent(s)
    \/ \E t \in Ids : Expire(t)

Spec == Init /\ [][Next]_vars

\* Beat keeps starting sweeps and workers keep working; a transaction that
\* holds row locks ends, one way or the other.  Nobody has to enroll.
FairSpec ==
    /\ Spec
    /\ \A x \in Sweepers : WF_vars(Sweeping(x))
    /\ \A w \in Writers : WF_vars(Finishing(w))
-----------------------------------------------------------------------------
(* Properties.                                                             *)

TypeOK ==
    /\ student \in [Students -> {"active", "inactive", "deleted"}]
    /\ consent \in [Students -> Decision \cup {"pending"}]
    /\ decisions \in [Students -> SUBSET Decision]
    /\ template \in [Ids -> Template]
    /\ created \in Nat
    /\ archivals \in [Ids -> Nat]
    /\ expired \subseteq Ids
    /\ wr \in [Writers -> Writer]
    /\ sw \in [Sweepers -> Sweep]
    /\ recorded \in Nat
    /\ disturbances \in Nat

\* However rotations by requests and importers overlap, a template is archived
\* once: its audit trail has exactly one 'archived' row when it is archived,
\* none while it is active, and never two.
ArchivedOnce ==
    \A t \in Ids :
        /\ archivals[t] <= 1
        /\ template[t].state = "archived" => archivals[t] = 1
        /\ template[t].state \in {"unused", "active"} => archivals[t] = 0

\* With the flag on, no template enters through the API without a grant on the
\* ledger, although consent is checked long before the template is written.
GrantedBeforeWritten ==
    EnforceConsent =>
        \A t \in Ids : template[t].source = "api"
                         => "granted" \in decisions[template[t].student]

\* The sweep destroys a template only for a cause: it is past the horizon, or
\* its student has recorded a refusal.  An undecided student loses nothing.
PurgedForCause ==
    \A t \in Ids : template[t].state = "purged" =>
        t \in expired \/ decisions[template[t].student] \cap Refusal # {}

\* Rotation never leaves a pose bare: wherever a template has been archived, a
\* template of the same student and pose is active, or one that was active has
\* since been destroyed by a sweep, whatever was locked, purged or refused while
\* the writers waited.
RotationLeavesActive ==
    \A t \in Ids : template[t].state = "archived" =>
        \E u \in Ids : /\ template[u].state \in {"active", "purged"}
                       /\ template[u].student = template[t].student
                       /\ template[u].pose = template[t].pose

\* A refusal is honoured in the end: once decisions and enrollments stop, no
\* stored template is past the horizon or belongs to a student who refused,
\* although an enrollment admitted before the refusal may write after it, and
\* a sweep may fail or wait for the locks of a writer.
RefusalsAreHonoured ==
    <>[](\A t \in Ids : Stored(t) => /\ t \notin expired
                                     /\ consent[template[t].student] \notin Refusal)

\* students.py:403 says that enrollment creates or rotates one active pose
\* template: a student has at most one active template of a pose.
OneActivePerPose ==
    \A s \in Students, p \in Poses : Cardinality(ActiveRows(s, p)) <= 1

\* students.py:74-75 says that under the flag the enrollment endpoints refuse
\* template writes for any student whose status is not 'granted'.
NoWriteWithoutConsent ==
    [][EnforceConsent =>
         \A t \in Ids : template[t].state = "unused" /\ template'[t].source = "api"
                          => consent[template'[t].student] = "granted"]_vars

\* tasks.py:497 says of _delete_batch that it returns the deleted count.
SweepReportsDeleted ==
    [][\A x \in Sweepers :
         sw[x].phase = "waiting" /\ sw'[x].reported > 0
           => sw'[x].reported =
                Cardinality({t \in Ids : Stored(t) /\ template'[t].state = "purged"})]_vars

===============================================================================
