------------------------------ MODULE Attendance ------------------------------
(***************************************************************************)
(* The attendance core of the backend: sightings are logged, the beat      *)
(* evaluator aggregates the current UTC day into one roster row per        *)
(* (student, course, date), and instructors override today's rows by hand. *)
(*                                                                         *)
(* Source: backend/app/services/attendance_service.py and the evaluation   *)
(* half of backend/app/worker/tasks.py.  PostgreSQL runs at READ           *)
(* COMMITTED and the evaluator reads the sightings, then the rows, then    *)
(* upserts, each in its own statement, so these are separate actions.      *)
(* An upsert, its governance row and the commit are one action: the rows   *)
(* stay locked and invisible to others until the commit.                   *)
(*                                                                         *)
(* A governance row is dated by the start of its transaction (server_      *)
(* default now()), not by its commit, and list_events shows the rows       *)
(* newest first.  So a transaction that began before another and commits   *)
(* after it is listed before it, although it wrote the roster last.  The   *)
(* model keeps both orders: "ledger" in the order of the commits, which    *)
(* nobody can read, and "listed", what an auditor gets.                    *)
(***************************************************************************)
EXTENDS Integers, FiniteSets

CONSTANTS
    Students,          \* student ids
    Courses,           \* course ids
    BrokenCourses,     \* courses whose evaluation transaction always fails
    LastDay,           \* the model's UTC days are 0..LastDay
    Evaluators,        \* Celery worker slots that run the evaluation task
    Overriders,        \* instructor requests that may be in flight at once
    Reasons,           \* override reasons
    NoReason,          \* the NULL of the notes column
    NoCourse,          \* an evaluator between two courses
    NoKey,             \* an override slot without a request
    Excused,           \* keys of rows stored as 'excused' before the start
    Threshold,         \* required_sightings_threshold of the beat schedule
    DefaultThreshold,  \* _MANUAL_OVERRIDE_DEFAULT_THRESHOLD
    MaxSightings,      \* bound: sightings per student, course and day
    MaxUnmatched,      \* bound: course days with a face that matched nobody
    MaxOverrides,      \* bound: override requests started
    MaxDisturbances    \* bound: failures, worker losses, course and student changes

Days == 0..LastDay

\* A roster row is identified by the columns of its unique constraint.
Key == [student : Students, course : Courses, day : Days]

KeyOf(s, c, d) == [student |-> s, course |-> c, day |-> d]

ASSUME AttendanceAssumption ==
    /\ BrokenCourses \subseteq Courses
    /\ NoCourse \notin Courses
    /\ NoReason \notin Reasons
    /\ Excused \subseteq Key
    /\ Evaluators \cap Overriders = {}
    /\ LastDay \in Nat
    /\ Threshold \in Nat \ {0}
    /\ DefaultThreshold \in Nat \ {0}
    /\ MaxSightings \in Nat
    /\ MaxUnmatched \in Nat
    /\ MaxOverrides \in Nat
    /\ MaxDisturbances \in Nat

VARIABLES
    today,         \* the current UTC date
    student,       \* student[s]: "active", "inactive" or "deleted"
    courseActive,  \* courseActive[c]: Course.is_active
    sightings,     \* sightings[k]: sighting rows of that student, course and day
    arriving,      \* keys of sightings that are checked and not yet inserted
    unmatched,     \* <<course, day>> pairs with a sighting whose student is NULL
    records,       \* records[k]: the class_session_records row, or NoRow
    ledger,        \* ledger[k]: the governance rows about that row, as committed
    ev,            \* ev[e]: the evaluation run in worker slot e
    ov,            \* ov[o]: the override request o
    overrides,     \* override requests started so far
    disturbances,  \* failures and administrative changes so far
    older,         \* older[t]: open transactions that began before open t
    newer,         \* newer[t]: entries committed so far that are dated after t
    listed,        \* listed[k]: the governance rows about that row, as dated
    disordered     \* history: keys last written out of the order of the dates

\* The dates of the governance rows, and what list_events makes of them.
auditVars == <<older, newer, listed, disordered>>

vars == <<today, student, courseActive, sightings, arriving, unmatched, records,
          ledger, ev, ov, overrides, disturbances, auditVars>>

-----------------------------------------------------------------------------
(* Values.                                                                 *)

\* "none" stands for the absence of a row.  LATE is in the enum, but no code
\* writes it and the evaluator treats it like any other verdict it replaces.
Status == {"none", "present", "absent", "excused"}

Row == [status : Status, count : Nat, threshold : Nat,
        notes : Reasons \cup {NoReason}]

NoRow == [status |-> "none", count |-> 0, threshold |-> 0, notes |-> NoReason]

\* The governance rows about one roster row, abstracted to what an auditor can
\* conclude from them: the last OVERRIDE_APPLY (its "from", "to" and reason;
\* to = "none" when there is none) and whether an ATTENDANCE_EVALUATE of the
\* row's course and date was written after it.
Trail == [from : Status, to : Status, reason : Reasons \cup {NoReason},
          evaluated : BOOLEAN]

NoTrail == [from |-> "none", to |-> "none", reason |-> NoReason,
            evaluated |-> FALSE]

RunPhase == {"idle", "scheduled", "required", "counted", "read"}

Run == [phase : RunPhase, day : Days, todo : SUBSET Courses,
        course : Courses \cup {NoCourse},
        counts : [Students -> Nat], statuses : [Students -> Status]]

IdleRun == [phase |-> "idle", day |-> 0, todo |-> {}, course |-> NoCourse,
            counts |-> [s \in Students |-> 0],
            statuses |-> [s \in Students |-> "none"]]

Request == [phase : {"idle", "begun", "checked", "selected"}, key : Key \cup {NoKey},
            verdict : Status, reason : Reasons \cup {NoReason}, from : Status]

IdleRequest == [phase |-> "idle", key |-> NoKey, verdict |-> "none",
                reason |-> NoReason, from |-> "none"]

\* The transactions that write governance rows about the roster.
Txn == Evaluators \cup Overriders

Entry == {"override", "evaluate"} \X Key

-----------------------------------------------------------------------------
(* The evaluator's arithmetic.                                             *)

\* The verdict on a student who is not excused.
CountVerdict(n, t) == IF n >= t THEN "present" ELSE "absent"

\* Mutant: the evaluator no longer looks at the status the row already has.
VerdictIgnoringExcuse(n, t, read) == CountVerdict(n, t)

\* evaluate_class_attendance keeps an 'excused' status it has read.
Verdict(n, t, read) == IF read = "excused" THEN "excused" ELSE CountVerdict(n, t)

\* Mutant: only the sighted students, without the union with the day's rows.
PopulationOfSighted(r) == {s \in Students : r.counts[s] > 0}

\* The students one evaluation writes: sighted that day, or already on the roster.
Population(r) == {s \in Students : r.counts[s] > 0 \/ r.statuses[s] # "none"}

\* Mutant: the conflict clause also replaces the notes.
EvaluatedRowClearingNotes(old, n, read) ==
    [status |-> Verdict(n, Threshold, read), count |-> n,
     threshold |-> Threshold, notes |-> NoReason]

\* Mutant: the conflict clause forgets the count.
EvaluatedRowKeepingCount(old, n, read) ==
    [status |-> Verdict(n, Threshold, read), count |-> old.count,
     threshold |-> Threshold, notes |-> old.notes]

\* The INSERT .. ON CONFLICT of the evaluator never touches the notes.
EvaluatedRow(old, n, read) ==
    [status |-> Verdict(n, Threshold, read), count |-> n,
     threshold |-> Threshold, notes |-> old.notes]

\* The INSERT .. ON CONFLICT of an override keeps the count and the threshold
\* of a row that exists.
OverriddenRow(old, verdict, reason) ==
    IF old.status = "none"
    THEN [status |-> verdict, count |-> 0, threshold |-> DefaultThreshold,
          notes |-> reason]
    ELSE [old EXCEPT !.status = verdict, !.notes = reason]

\* What the CSV export of the roster says of one row.
ExportRow(k) ==
    [status |-> records[k].status,
     override_applied |-> records[k].notes # NoReason]

\* A course is scheduled for a date that has any sighting or any row.
ActivityOn(c, d) ==
    \/ <<c, d>> \in unmatched
    \/ \E s \in Students : \/ sightings[KeyOf(s, c, d)] > 0
                           \/ records[KeyOf(s, c, d)].status # "none"

\* Mutant: the exception of one course ends the loop over the courses.
NextCourseAborting(r) == IdleRun

\* The run after it is done with its current course, whatever the outcome.
NextCourse(r) ==
    LET rest == r.todo \ {r.course}
    IN  IF rest = {} THEN IdleRun
        ELSE [IdleRun EXCEPT !.phase = "scheduled", !.day = r.day, !.todo = rest]

-----------------------------------------------------------------------------
Init ==
    /\ today = 0
    /\ student = [s \in Students |-> "active"]
    /\ courseActive = [c \in Courses |-> TRUE]
    /\ sightings = [k \in Key |-> 0]
    /\ unmatched = {}
    /\ records = [k \in Key |-> IF k \in Excused
                                THEN [NoRow EXCEPT !.status = "excused",
                                                   !.threshold = Threshold]
                                ELSE NoRow]
    /\ ledger = [k \in Key |-> NoTrail]
    /\ ev = [e \in Evaluators |-> IdleRun]
    /\ ov = [o \in Overriders |-> IdleRequest]
    /\ overrides = 0
    /\ disturbances = 0
    /\ arriving = {}
    /\ older = [t \in Txn |-> {}]
    /\ newer = [t \in Txn |-> {}]
    /\ listed = [k \in Key |-> NoTrail]
    /\ disordered = {}

(* The dates of the governance rows.                                       *)

\* The transactions that are open.
OpenRuns == {e \in Evaluators : ev[e].phase \in {"required", "counted", "read"}}
OpenRequests == {o \in Overriders : ov[o].phase # "idle"}

\* The first statement of t, while the transactions in "open" are: now() will
\* say when that was.
Begin(t, open) ==
    /\ older' = [older EXCEPT ![t] = open]
    /\ UNCHANGED <<newer, listed, disordered>>

\* Transaction t is over and its entries, if any, are visible: those who began
\* before it now have entries dated after them.
Publish(t, entries) ==
    /\ older' = [u \in Txn |-> IF u = t THEN {} ELSE older[u] \ {t}]
    /\ newer' = [u \in Txn |-> IF u = t THEN {}
                               ELSE IF u \in older[t] THEN newer[u] \cup entries
                               ELSE newer[u]]

\* The transaction ends without an entry.
End(t) == Publish(t, {}) /\ UNCHANGED <<listed, disordered>>

(* Sightings.                                                              *)

\* log_sighting of a recognised student, its checks: the student and the course
\* are active.  The capture time is the camera's, so the day may be any day.
CheckSighting(k) ==
    /\ student[k.student] = "active"
    /\ courseActive[k.course]
    /\ k \notin arriving
    /\ sightings[k] < MaxSightings
    /\ arriving' = arriving \cup {k}
    /\ UNCHANGED <<today, student, courseActive, sightings, unmatched, records,
                   ledger, ev, ov, overrides, disturbances, auditVars>>

\* The INSERT and its commit, a statement later and without a lock: only the
\* foreign key looks at the student again.  Publishing the event changes no
\* state here.
InsertSighting(k) ==
    /\ k \in arriving
    /\ student[k.student] # "deleted"
    /\ arriving' = arriving \ {k}
    /\ sightings' = [sightings EXCEPT ![k] = @ + 1]
    /\ UNCHANGED <<today, student, courseActive, unmatched, records, ledger,
                   ev, ov, overrides, disturbances, auditVars>>

\* The sighting that is not stored: its student has been deleted, or the
\* database fails.
FailSighting(k) ==
    /\ k \in arriving
    /\ arriving' = arriving \ {k}
    /\ \/ /\ student[k.student] = "deleted"
          /\ UNCHANGED disturbances
       \/ /\ disturbances < MaxDisturbances
          /\ disturbances' = disturbances + 1
    /\ UNCHANGED <<today, student, courseActive, sightings, unmatched, records,
                   ledger, ev, ov, overrides, auditVars>>

\* log_sighting of a face that matched nobody (student_id NULL).  Its check of
\* the course and its INSERT are one action: the sighting only counts for the
\* selection of active courses, so a course that is closed in between makes no
\* difference to anyone.
LogUnmatched(c, d) ==
    /\ courseActive[c]
    /\ <<c, d>> \notin unmatched
    /\ Cardinality(unmatched) < MaxUnmatched
    /\ unmatched' = unmatched \cup {<<c, d>>}
    /\ UNCHANGED <<today, student, courseActive, sightings, records, ledger,
                   ev, ov, overrides, disturbances, arriving, auditVars>>

(* The evaluation task.                                                    *)

\* The beat message (or its redelivery) starts a run: it fixes today's date
\* and selects the active courses with activity.  With none it returns at once.
StartRun(e) ==
    LET due == {c \in Courses : courseActive[c] /\ ActivityOn(c, today)}
    IN  /\ ev[e].phase = "idle"
        /\ due # {}
        /\ ev' = [ev EXCEPT ![e] = [@ EXCEPT !.phase = "scheduled",
                                             !.day = today, !.todo = due]]
        /\ UNCHANGED <<today, student, courseActive, sightings, unmatched,
                       records, ledger, ov, overrides, disturbances, arriving,
                       auditVars>>

\* _require_course at the head of evaluate_class_attendance.  A course that
\* became inactive since the selection is counted as failed and skipped.  It is
\* the first statement of the course's transaction; which of two evaluations is
\* listed first makes no difference to a reader and is not kept.
RequireCourse(e, c) ==
    /\ ev[e].phase = "scheduled"
    /\ c \in ev[e].todo
    /\ \/ /\ courseActive[c]
          /\ ev' = [ev EXCEPT ![e] = [@ EXCEPT !.phase = "required", !.course = c]]
          /\ Begin(e, OpenRequests)
       \/ /\ ~courseActive[c]
          /\ ev' = [ev EXCEPT ![e] = NextCourse([@ EXCEPT !.course = c])]
          /\ UNCHANGED auditVars
    /\ UNCHANGED <<today, student, courseActive, sightings, unmatched, records,
                   ledger, ov, overrides, disturbances, arriving>>

\* What the GROUP BY over the sightings of the run's course and day returns.
SightingCounts(r) == [s \in Students |-> sightings[KeyOf(s, r.course, r.day)]]

\* The statement that reads the counts.
CountSightings(e) ==
    /\ ev[e].phase = "required"
    /\ ev' = [ev EXCEPT ![e] = [@ EXCEPT !.phase = "counted",
                                         !.counts = SightingCounts(ev[e])]]
    /\ UNCHANGED <<today, student, courseActive, sightings, unmatched, records,
                   ledger, ov, overrides, disturbances, arriving, auditVars>>

\* What the SELECT of the day's rows returns, "none" where there is no row.
ExistingStatuses(r) ==
    [s \in Students |-> records[KeyOf(s, r.course, r.day)].status]

\* The statement that reads the rows; nothing to evaluate is an early return
\* without a governance row.
ReadStatuses(e) ==
    LET run == [ev[e] EXCEPT !.phase = "read", !.statuses = ExistingStatuses(ev[e])]
    IN  /\ ev[e].phase = "counted"
        /\ \/ /\ Population(run) = {}
              /\ ev' = [ev EXCEPT ![e] = NextCourse(ev[e])]
              /\ End(e)
           \/ /\ Population(run) # {}
              /\ ev' = [ev EXCEPT ![e] = run]
              /\ UNCHANGED auditVars
        /\ UNCHANGED <<today, student, courseActive, sightings, unmatched,
                       records, ledger, ov, overrides, disturbances, arriving>>

\* Mutant: the rows of the course are matched without the session date.
InRunAnyDay(k, r) ==
    /\ k.course = r.course
    /\ k.student \in Population(r)

\* The rows run r writes: its population in its course on its day.
InRun(k, r) ==
    /\ k.course = r.course
    /\ k.day = r.day
    /\ k.student \in Population(r)

\* The ATTENDANCE_EVALUATE row of e, dated by the start of its transaction: an
\* OVERRIDE_APPLY that began later is listed as newer, although the evaluation
\* has just overwritten that row.
ListEvaluation(e) ==
    LET OfCourse == {k \in Key : k.course = ev[e].course /\ k.day = ev[e].day}
        Overtaken == {k \in OfCourse : <<"override", k>> \in newer[e]}
    IN  /\ Publish(e, {"evaluate"} \X OfCourse)
        /\ listed' = [k \in Key |-> IF k \in OfCourse \ Overtaken
                                    THEN [listed[k] EXCEPT !.evaluated = TRUE]
                                    ELSE listed[k]]
        /\ disordered' = disordered \cup {k \in Overtaken : InRun(k, ev[e])}

\* The bulk upsert and its ATTENDANCE_EVALUATE row, committed together.  The
\* foreign key refuses the whole statement if a student has been deleted.
CommitEvaluation(e) ==
    LET r == ev[e]
    IN  /\ r.phase = "read"
        /\ r.course \notin BrokenCourses
        /\ \A s \in Population(r) : student[s] # "deleted"
        /\ records' = [k \in Key |->
             IF InRun(k, r)
             THEN EvaluatedRow(records[k], r.counts[k.student],
                               r.statuses[k.student])
             ELSE records[k]]
        /\ ledger' = [k \in Key |->
             IF k.course = r.course /\ k.day = r.day
             THEN [ledger[k] EXCEPT !.evaluated = TRUE] ELSE ledger[k]]
        /\ ev' = [ev EXCEPT ![e] = NextCourse(r)]
        /\ ListEvaluation(e)
        /\ UNCHANGED <<today, student, courseActive, sightings, unmatched, ov,
                       overrides, disturbances, arriving>>

\* The transaction that cannot commit (a deleted student, a course whose
\* transaction keeps failing) is rolled back; the run goes on with the next
\* course.
RejectEvaluation(e) ==
    LET r == ev[e]
    IN  /\ r.phase = "read"
        /\ \/ r.course \in BrokenCourses
           \/ \E s \in Population(r) : student[s] = "deleted"
        /\ ev' = [ev EXCEPT ![e] = NextCourse(r)]
        /\ End(e)
        /\ UNCHANGED <<today, student, courseActive, sightings, unmatched,
                       records, ledger, ov, overrides, disturbances, arriving>>

\* A database or audit failure at any statement of the course's evaluation.
FailEvaluation(e) ==
    /\ disturbances < MaxDisturbances
    /\ ev[e].phase \in {"required", "counted", "read"}
    /\ ev' = [ev EXCEPT ![e] = NextCourse(@)]
    /\ End(e)
    /\ disturbances' = disturbances + 1
    /\ UNCHANGED <<today, student, courseActive, sightings, unmatched, records,
                   ledger, ov, overrides, arriving>>

\* The worker dies or hits the hard time limit.  The message is redelivered
\* (acks_late) or the next beat fires: either way a new StartRun.
LoseRun(e) ==
    /\ disturbances < MaxDisturbances
    /\ ev[e].phase # "idle"
    /\ ev' = [ev EXCEPT ![e] = IdleRun]
    /\ End(e)
    /\ disturbances' = disturbances + 1
    /\ UNCHANGED <<today, student, courseActive, sightings, unmatched, records,
                   ledger, ov, overrides, arriving>>

(* Manual overrides.                                                       *)

\* get_current_user loads the account: the transaction of the request begins.
BeginOverride(o) ==
    /\ ov[o].phase = "idle"
    /\ overrides < MaxOverrides
    /\ ov' = [ov EXCEPT ![o] = [IdleRequest EXCEPT !.phase = "begun"]]
    /\ Begin(o, OpenRuns \cup OpenRequests)
    /\ overrides' = overrides + 1
    /\ UNCHANGED <<today, student, courseActive, sightings, unmatched, records,
                   ledger, ev, disturbances, arriving>>

\* The checks of apply_manual_override, which then takes today's date.
CheckOverride(o, s, c, verdict, reason) ==
    /\ ov[o].phase = "begun"
    /\ courseActive[c]
    /\ student[s] = "active"
    /\ ov' = [ov EXCEPT ![o] = [phase |-> "checked", key |-> KeyOf(s, c, today),
                                verdict |-> verdict, reason |-> reason,
                                from |-> "none"]]
    /\ UNCHANGED <<today, student, courseActive, sightings, unmatched, records,
                   ledger, ev, overrides, disturbances, arriving, auditVars>>

\* The SELECT of the status the row has before the upsert.
SelectPrevious(o) ==
    /\ ov[o].phase = "checked"
    /\ ov' = [ov EXCEPT ![o] = [@ EXCEPT !.phase = "selected",
                                         !.from = records[ov[o].key].status]]
    /\ UNCHANGED <<today, student, courseActive, sightings, unmatched, records,
                   ledger, ev, overrides, disturbances, arriving, auditVars>>

\* The OVERRIDE_APPLY row of o, dated by the start of its transaction: another
\* override of the row, or an evaluation, that began later is listed as newer.
ListOverride(o) ==
    LET q == ov[o]
        overtaken == <<"override", q.key>> \in newer[o]
    IN  /\ Publish(o, {<<"override", q.key>>})
        /\ listed' = IF overtaken THEN listed
                     ELSE [listed EXCEPT
                            ![q.key] = [from |-> q.from, to |-> q.verdict,
                                        reason |-> q.reason,
                                        evaluated |-> <<"evaluate", q.key>> \in newer[o]]]
        /\ disordered' = IF overtaken THEN disordered \cup {q.key}
                         ELSE disordered \ {q.key}

\* The upsert and its OVERRIDE_APPLY row, committed together.
CommitOverride(o) ==
    LET q == ov[o]
    IN  /\ q.phase = "selected"
        /\ student[q.key.student] # "deleted"
        /\ records' = [records EXCEPT
                        ![q.key] = OverriddenRow(@, q.verdict, q.reason)]
        /\ ledger' = [ledger EXCEPT
                        ![q.key] = [from |-> q.from, to |-> q.verdict,
                                    reason |-> q.reason, evaluated |-> FALSE]]
        /\ ov' = [ov EXCEPT ![o] = IdleRequest]
        /\ ListOverride(o)
        /\ UNCHANGED <<today, student, courseActive, sightings, unmatched, ev,
                       overrides, disturbances, arriving>>

\* A request that fails leaves nothing behind: the role or a check refuses it,
\* the student is gone (foreign key), the audit write fails, or the connection
\* is lost.
FailOverride(o) ==
    LET q == ov[o]
    IN  /\ q.phase # "idle"
        /\ \/ /\ q.phase = "begun"
              /\ UNCHANGED disturbances
           \/ /\ q.phase = "selected"
              /\ student[q.key.student] = "deleted"
              /\ UNCHANGED disturbances
           \/ /\ disturbances < MaxDisturbances
              /\ disturbances' = disturbances + 1
        /\ ov' = [ov EXCEPT ![o] = IdleRequest]
        /\ End(o)
        /\ UNCHANGED <<today, student, courseActive, sightings, unmatched,
                       records, ledger, ev, overrides, arriving>>

(* The surroundings.                                                       *)

\* PATCH /students/{id} with is_active.
ToggleStudent(s) ==
    /\ disturbances < MaxDisturbances
    /\ student[s] # "deleted"
    /\ student' = [student EXCEPT ![s] = IF @ = "active" THEN "inactive"
                                         ELSE "active"]
    /\ disturbances' = disturbances + 1
    /\ UNCHANGED <<today, courseActive, sightings, unmatched, records, ledger,
                   ev, ov, overrides, arriving, auditVars>>

\* DELETE /students/{id}: the rows go (ON DELETE CASCADE), the sightings stay
\* with student_id NULL, the ledger is kept.
DeleteStudent(s) ==
    /\ disturbances < MaxDisturbances
    /\ student[s] # "deleted"
    /\ student' = [student EXCEPT ![s] = "deleted"]
    /\ records' = [k \in Key |-> IF k.student = s THEN NoRow ELSE records[k]]
    /\ sightings' = [k \in Key |-> IF k.student = s THEN 0 ELSE sightings[k]]
    /\ unmatched' = unmatched \cup
                      {<<k.course, k.day>> :
                         k \in {x \in Key : x.student = s /\ sightings[x] > 0}}
    /\ disturbances' = disturbances + 1
    /\ UNCHANGED <<today, courseActive, ledger, ev, ov, overrides, arriving,
                   auditVars>>

\* No code sets Course.is_active: an administrator does, in the database.
ToggleCourse(c) ==
    /\ disturbances < MaxDisturbances
    /\ courseActive' = [courseActive EXCEPT ![c] = ~@]
    /\ disturbances' = disturbances + 1
    /\ UNCHANGED <<today, student, sightings, unmatched, records, ledger, ev,
                   ov, overrides, arriving, auditVars>>

Midnight ==
    /\ today < LastDay
    /\ today' = today + 1
    /\ UNCHANGED <<student, courseActive, sightings, unmatched, records,
                   ledger, ev, ov, overrides, disturbances, arriving,
                   auditVars>>

-----------------------------------------------------------------------------
EvaluatorStep(e) ==
    \/ StartRun(e)
    \/ \E c \in Courses : RequireCourse(e, c)
    \/ CountSightings(e)
    \/ ReadStatuses(e)
    \/ CommitEvaluation(e)
    \/ RejectEvaluation(e)

\* Mutant: the service accepts every status of the enum.
OverridingWithAnyStatus(o) ==
    \/ BeginOverride(o)
    \/ \E s \in Students, c \in Courses, v \in {"present", "absent", "late"},
          r \in Reasons : CheckOverride(o, s, c, v, r)
    \/ SelectPrevious(o)
    \/ CommitOverride(o)
    \/ FailOverride(o)

\* The route and the service accept only 'present' and 'absent'.
Overriding(o) ==
    \/ BeginOverride(o)
    \/ \E s \in Students, c \in Courses, v \in {"present", "absent"},
          r \in Reasons : CheckOverride(o, s, c, v, r)
    \/ SelectPrevious(o)
    \/ CommitOverride(o)
    \/ FailOverride(o)

Next ==
    \/ \E k \in Key : CheckSighting(k) \/ InsertSighting(k) \/ FailSighting(k)
    \/ \E c \in Courses, d \in Days : LogUnmatched(c, d)
    \/ \E e \in Evaluators : EvaluatorStep(e) \/ FailEvaluation(e) \/ LoseRun(e)
    \/ \E o \in Overriders : Overriding(o)
    \/ \E s \in Students : ToggleStudent(s) \/ DeleteStudent(s)
    \/ \E c \in Courses : ToggleCourse(c)
    \/ Midnight

Spec == Init /\ [][Next]_vars

\* Beat keeps firing and workers keep working; nothing else is promised.
FairSpec == Spec /\ \A e \in Evaluators : WF_vars(EvaluatorStep(e))
-----------------------------------------------------------------------------
(* Properties.                                                             *)

LedgerTypeOK ==
    /\ older \in [Txn -> SUBSET Txn]
    /\ newer \in [Txn -> SUBSET Entry]
    /\ listed \in [Key -> Trail]
    /\ disordered \subseteq Key

RosterTypeOK ==
    /\ today \in Days
    /\ student \in [Students -> {"active", "inactive", "deleted"}]
    /\ courseActive \in [Courses -> BOOLEAN]
    /\ sightings \in [Key -> Nat]
    /\ arriving \subseteq Key
    /\ unmatched \subseteq Courses \X Days
    /\ records \in [Key -> Row]
    /\ ledger \in [Key -> Trail]
    /\ ev \in [Evaluators -> Run]
    /\ ov \in [Overriders -> Request]
    /\ overrides \in Nat
    /\ disturbances \in Nat

TypeOK == RosterTypeOK /\ LedgerTypeOK

\* An auditor who lists the governance rows, newest first, finds the evidence
\* of every roster row that was not imported as excused, whatever interleaves,
\* fails or crashes ("an override can never land without its evidence"): an
\* OVERRIDE_APPLY of the row or an ATTENDANCE_EVALUATE of its course and date.
\* And the list explains the row: the notes are the reason of the newest
\* OVERRIDE_APPLY, and unless an ATTENDANCE_EVALUATE is listed as newer the
\* status is what that override set.  The second half has one exception, and it
\* is exactly the dates by start of transaction: a row that was written by a
\* transaction which began before an override of the row and committed after it
\* need not agree with the list until the next override that commits in order.
LedgerExplainsRoster ==
    \A k \in Key : records[k].status # "none" =>
        /\ k \in Excused \/ listed[k].to # "none" \/ listed[k].evaluated
        /\ k \notin disordered =>
             /\ records[k].notes = listed[k].reason
             /\ listed[k].to # "none" /\ ~listed[k].evaluated
                  => records[k].status = listed[k].to

\* No verdict comes from nowhere, however runs and overrides overlap: a status
\* is 'excused', or what the last override to commit set, or follows from the very
\* sighting count and threshold stored in the same row; and that count never
\* exceeds the sightings that are persisted.
VerdictIsExplained ==
    \A k \in Key : records[k].status # "none" =>
        /\ \/ records[k].status = "excused"
           \/ records[k].status = ledger[k].to
           \/ records[k].status = CountVerdict(records[k].count,
                                               records[k].threshold)
        /\ records[k].count <= sightings[k]

\* An excused student stays excused through any number of evaluation runs,
\* fresh or stale; only an override on the ledger can change that.
ExcusedUntilOverridden ==
    \A k \in Excused :
        student[k.student] # "deleted" /\ ledger[k].to = "none"
          => records[k].status = "excused"

\* With one evaluation running at a time (the default cadence: a run ends long
\* before the next beat) the count on a row never goes down while the row
\* exists; an override in between does not reset it either.  With overlapping
\* runs it may: that is why the theorem about it is for one worker.
CountsNeverRegress ==
    [][\A k \in Key : records'[k].status # "none"
         => records'[k].count >= records[k].count]_vars

\* The row of k agrees with the sightings of its day.
Settled(k) ==
    IF records[k].status = "none" THEN sightings[k] = 0
    ELSE /\ records[k].count = sightings[k]
         /\ records[k].threshold = Threshold
         /\ records[k].status \in
              {"excused", CountVerdict(sightings[k], Threshold)}

\* Once sightings, overrides and failures stop, the evaluator brings every row
\* of the current day of every active course to the verdict of its sightings,
\* whatever overlapped, went stale or was overridden before, and although
\* another course's evaluation keeps failing.
EventuallySettled ==
    <>[](\A k \in Key :
           k.day = today /\ courseActive[k.course] /\ k.course \notin BrokenCourses
             => Settled(k))

\* attendance_service.py:28-30 says that overrides persist as a notes-prefixed
\* verdict row which the export recognises by that prefix: an exported row
\* marked as overridden then carries the verdict of the override.
ExportedOverrideKeepsVerdict ==
    \A k \in Key : ExportRow(k).override_applied
                     => ExportRow(k).status = ledger[k].to

-----------------------------------------------------------------------------
(* Refinement of the roster's contract.                                    *)

\* The part of a row an auditor and a reader of the roster see.
RosterView == [k \in Key |-> [status |-> records[k].status,
                              notes |-> records[k].notes]]

RosterContract == INSTANCE Roster WITH roster <- RosterView, ledger <- ledger

\* Every step of the attendance service is one override, one evaluation or one
\* removal of the roster together with its governance row, or leaves both alone:
\* in the order of the commits, the two never come apart.
ImplementsRoster == RosterContract!Spec

===============================================================================
