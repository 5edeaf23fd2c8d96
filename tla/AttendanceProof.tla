---------------------------- MODULE AttendanceProof ----------------------------
(***************************************************************************)
(* Proofs about Attendance for every value of its constants: any number of *)
(* students, courses, days, workers and requests.                          *)
(***************************************************************************)
EXTENDS Attendance, TLAPS

-----------------------------------------------------------------------------
(* The types of the helpers.                                               *)

\* The key of a student, course and day is a key.
LEMMA KeyOfType ==
    ASSUME NEW s \in Students, NEW c \in Courses, NEW d \in Days
    PROVE  /\ KeyOf(s, c, d) \in Key
           /\ KeyOf(s, c, d).student = s
           /\ KeyOf(s, c, d).course = c
           /\ KeyOf(s, c, d).day = d
BY DEF KeyOf, Key

\* A key is the key of its own components.
LEMMA KeyOfKey ==
    ASSUME NEW k \in Key
    PROVE  /\ k.student \in Students
           /\ k.course \in Courses
           /\ k.day \in Days
           /\ k = KeyOf(k.student, k.course, k.day)
BY DEF KeyOf, Key

\* An idle worker is a run.
LEMMA IdleRunType == IdleRun \in Run
BY AttendanceAssumption DEF IdleRun, Run, RunPhase, Days, Status

\* A run that has finished a course is a run without counts and statuses.
LEMMA NextCourseType ==
    ASSUME NEW r \in Run
    PROVE  /\ NextCourse(r) \in Run
           /\ NextCourse(r).phase \in {"idle", "scheduled"}
BY IdleRunType DEF NextCourse, IdleRun, Run, RunPhase

\* An evaluation writes a row with a verdict.
LEMMA EvaluatedRowType ==
    ASSUME NEW old \in Row, NEW n \in Nat, NEW read \in Status
    PROVE  /\ EvaluatedRow(old, n, read) \in Row
           /\ EvaluatedRow(old, n, read).status \in {"present", "absent", "excused"}
           /\ EvaluatedRow(old, n, read).status = Verdict(n, Threshold, read)
           /\ EvaluatedRow(old, n, read).count = n
           /\ EvaluatedRow(old, n, read).threshold = Threshold
           /\ EvaluatedRow(old, n, read).notes = old.notes
BY AttendanceAssumption DEF EvaluatedRow, Verdict, CountVerdict, Row, Status

\* An override writes a row with its verdict and its reason, and keeps the
\* count of a row that exists.
LEMMA OverriddenRowType ==
    ASSUME NEW old \in Row, NEW v \in Status, NEW reason \in Reasons \cup {NoReason}
    PROVE  /\ OverriddenRow(old, v, reason) \in Row
           /\ OverriddenRow(old, v, reason).status = v
           /\ OverriddenRow(old, v, reason).notes = reason
           /\ OverriddenRow(old, v, reason).count =
                IF old.status = "none" THEN 0 ELSE old.count
BY AttendanceAssumption DEF OverriddenRow, Row, Status

\* Absent rows and idle requests are well typed.
LEMMA NoRowType == NoRow \in Row /\ NoTrail \in Trail /\ IdleRequest \in Request
BY DEF NoRow, Row, Status, NoTrail, Trail, IdleRequest, Request

-----------------------------------------------------------------------------
(* Type correctness.                                                       *)

\* What makes the types inductive: a run past its check of the course has one,
\* and a request in flight has a key, a reason and one of the route's two verdicts.
WellFormed ==
    /\ \A e \in Evaluators : ev[e].phase \in {"required", "counted", "read"}
                              => ev[e].course \in Courses
    /\ \A o \in Overriders : ov[o].phase \in {"checked", "selected"}
                              => /\ ov[o].key \in Key
                                 /\ ov[o].verdict \in {"present", "absent"}
                                 /\ ov[o].reason \in Reasons

TypeInv == RosterTypeOK /\ WellFormed

\* The initial state is well typed.
LEMMA TypeInit == Init => TypeInv
<1> SUFFICES ASSUME Init PROVE TypeInv
  OBVIOUS
<1> USE DEF Init
<1>1. today \in Days /\ overrides \in Nat /\ disturbances \in Nat
  BY AttendanceAssumption DEF Days
<1>2. records \in [Key -> Row]
  BY AttendanceAssumption DEF NoRow, Row, Status
<1>3. ledger \in [Key -> Trail] /\ ov \in [Overriders -> Request]
  BY NoRowType
<1>4. ev \in [Evaluators -> Run]
  BY IdleRunType
<1> QED
  BY <1>1, <1>2, <1>3, <1>4 DEF TypeInv, RosterTypeOK, WellFormed, IdleRun, IdleRequest

\* What a run becomes when it has selected its courses.
LEMMA ScheduledRun ==
    ASSUME NEW r \in Run, NEW d \in Days, NEW todo \in SUBSET Courses
    PROVE  /\ [r EXCEPT !.phase = "scheduled", !.day = d, !.todo = todo] \in Run
           /\ [r EXCEPT !.phase = "scheduled", !.day = d, !.todo = todo].phase = "scheduled"
BY DEF Run, RunPhase

\* Every step keeps the types.
LEMMA TypeStep == TypeInv /\ [Next]_vars => TypeInv'
<1> SUFFICES ASSUME TypeInv, [Next]_vars PROVE TypeInv'
  OBVIOUS
<1> USE DEF TypeInv, RosterTypeOK, WellFormed
<1>1. ASSUME NEW k \in Key, CheckSighting(k) \/ InsertSighting(k) \/ FailSighting(k)
      PROVE  TypeInv'
  BY <1>1 DEF CheckSighting, InsertSighting, FailSighting
<1>2. ASSUME NEW c \in Courses, NEW d \in Days, LogUnmatched(c, d) PROVE TypeInv'
  BY <1>2 DEF LogUnmatched
<1>3. ASSUME NEW e \in Evaluators, StartRun(e) PROVE TypeInv'
  <2> DEFINE due == {c \in Courses : courseActive[c] /\ ActivityOn(c, today)}
             run == [ev[e] EXCEPT !.phase = "scheduled", !.day = today, !.todo = due]
  <2>1. run \in Run /\ run.phase = "scheduled"
    <3>1. ev[e] \in Run /\ today \in Days /\ due \in SUBSET Courses
      OBVIOUS
    <3> HIDE DEF due, TypeInv, RosterTypeOK, WellFormed
    <3> QED
      BY <3>1, ScheduledRun
  <2>2. ev' = [ev EXCEPT ![e] = run]
    BY <1>3 DEF StartRun
  <2> HIDE DEF run
  <2> QED
    BY <1>3, <2>1, <2>2 DEF StartRun
<1>4. ASSUME NEW e \in Evaluators, NEW c \in Courses, RequireCourse(e, c) PROVE TypeInv'
  <2> DEFINE run == [ev[e] EXCEPT !.phase = "required", !.course = c]
             skipped == NextCourse([ev[e] EXCEPT !.course = c])
  <2>1. run \in Run /\ run.phase = "required" /\ run.course = c
    BY DEF Run, RunPhase
  <2>2. [ev[e] EXCEPT !.course = c] \in Run
    BY DEF Run
  <2>3. skipped \in Run /\ skipped.phase \in {"idle", "scheduled"}
    BY <2>2, NextCourseType
  <2>4. ev' = [ev EXCEPT ![e] = run] \/ ev' = [ev EXCEPT ![e] = skipped]
    BY <1>4 DEF RequireCourse
  <2> QED
    BY <1>4, <2>1, <2>3, <2>4 DEF RequireCourse
<1>5. ASSUME NEW e \in Evaluators, CountSightings(e) PROVE TypeInv'
  <2> DEFINE run == [ev[e] EXCEPT !.phase = "counted", !.counts = SightingCounts(ev[e])]
  <2>1. ev[e] \in Run /\ ev[e].course \in Courses /\ ev[e].day \in Days
    BY <1>5 DEF CountSightings, Run
  <2>2. SightingCounts(ev[e]) \in [Students -> Nat]
    BY <2>1, KeyOfType DEF SightingCounts
  <2>3. run \in Run /\ run.course = ev[e].course
    BY <2>1, <2>2 DEF Run, RunPhase
  <2>4. ev' = [ev EXCEPT ![e] = run]
    BY <1>5 DEF CountSightings
  <2> QED
    BY <1>5, <2>1, <2>3, <2>4 DEF CountSightings
<1>6. ASSUME NEW e \in Evaluators, ReadStatuses(e) PROVE TypeInv'
  <2> DEFINE run == [ev[e] EXCEPT !.phase = "read", !.statuses = ExistingStatuses(ev[e])]
  <2>1. ev[e] \in Run /\ ev[e].course \in Courses /\ ev[e].day \in Days
    BY <1>6 DEF ReadStatuses, Run
  <2>2. ExistingStatuses(ev[e]) \in [Students -> Status]
    BY <2>1, KeyOfType DEF ExistingStatuses, Row
  <2>3. run \in Run /\ run.course = ev[e].course
    BY <2>1, <2>2 DEF Run, RunPhase
  <2>4. NextCourse(ev[e]) \in Run /\ NextCourse(ev[e]).phase \in {"idle", "scheduled"}
    BY <2>1, NextCourseType
  <2>5. ev' = [ev EXCEPT ![e] = run] \/ ev' = [ev EXCEPT ![e] = NextCourse(ev[e])]
    BY <1>6 DEF ReadStatuses
  <2> QED
    BY <1>6, <2>1, <2>3, <2>4, <2>5 DEF ReadStatuses
<1>7. ASSUME NEW e \in Evaluators, CommitEvaluation(e) PROVE TypeInv'
  <2> DEFINE r == ev[e]
  <2>1. r \in Run /\ r.counts \in [Students -> Nat] /\ r.statuses \in [Students -> Status]
    BY DEF Run
  <2>2. ASSUME NEW k \in Key
        PROVE  EvaluatedRow(records[k], r.counts[k.student], r.statuses[k.student]) \in Row
    BY <2>1, KeyOfKey, EvaluatedRowType
  <2>3. records' \in [Key -> Row]
    BY <1>7, <2>2 DEF CommitEvaluation
  <2>4. ledger' \in [Key -> Trail]
    <3>1. ledger \in [Key -> Trail] /\ \A k \in Key : [ledger[k] EXCEPT !.evaluated = TRUE] \in Trail
      BY DEF Trail
    <3> QED
      BY <1>7, <3>1 DEF CommitEvaluation
  <2>5. NextCourse(r) \in Run /\ NextCourse(r).phase \in {"idle", "scheduled"}
    BY <2>1, NextCourseType
  <2> QED
    BY <1>7, <2>3, <2>4, <2>5 DEF CommitEvaluation
<1>8. ASSUME NEW e \in Evaluators, RejectEvaluation(e) PROVE TypeInv'
  BY <1>8, NextCourseType DEF RejectEvaluation
<1>9. ASSUME NEW e \in Evaluators, FailEvaluation(e) PROVE TypeInv'
  BY <1>9, NextCourseType DEF FailEvaluation
<1>10. ASSUME NEW e \in Evaluators, LoseRun(e) PROVE TypeInv'
  BY <1>10, IdleRunType DEF LoseRun, IdleRun
<1>11. ASSUME NEW o \in Overriders, NEW s \in Students, NEW c \in Courses,
              NEW v \in {"present", "absent"}, NEW r \in Reasons,
              CheckOverride(o, s, c, v, r)
       PROVE  TypeInv'
  <2> DEFINE request == [phase |-> "checked", key |-> KeyOf(s, c, today),
                         verdict |-> v, reason |-> r, from |-> "none"]
  <2>1. KeyOf(s, c, today) \in Key
    BY KeyOfType
  <2>2. request \in Request
    BY <2>1 DEF Request, Status
  <2>3. ov' = [ov EXCEPT ![o] = request]
    BY <1>11 DEF CheckOverride
  <2> QED
    BY <1>11, <2>1, <2>2, <2>3 DEF CheckOverride
<1>20. ASSUME NEW o \in Overriders, BeginOverride(o) PROVE TypeInv'
  <2>1. /\ [IdleRequest EXCEPT !.phase = "begun"] \in Request
        /\ [IdleRequest EXCEPT !.phase = "begun"].phase = "begun"
    BY DEF IdleRequest, Request, Status
  <2> QED
    BY <1>20, <2>1 DEF BeginOverride
<1>12. ASSUME NEW o \in Overriders, SelectPrevious(o) PROVE TypeInv'
  <2> DEFINE request == [ov[o] EXCEPT !.phase = "selected",
                                      !.from = records[ov[o].key].status]
  <2>1. /\ ov[o] \in Request /\ ov[o].key \in Key
        /\ ov[o].verdict \in {"present", "absent"} /\ ov[o].reason \in Reasons
    BY <1>12 DEF SelectPrevious
  <2>2. /\ request \in Request /\ request.key = ov[o].key
        /\ request.verdict = ov[o].verdict /\ request.reason = ov[o].reason
    BY <2>1 DEF Request, Row
  <2>3. ov' = [ov EXCEPT ![o] = request]
    BY <1>12 DEF SelectPrevious
  <2> QED
    BY <1>12, <2>1, <2>2, <2>3 DEF SelectPrevious
<1>13. ASSUME NEW o \in Overriders, CommitOverride(o) PROVE TypeInv'
  <2> DEFINE q == ov[o]
             trail == [from |-> q.from, to |-> q.verdict,
                       reason |-> q.reason, evaluated |-> FALSE]
  <2>1. /\ q \in Request /\ q.key \in Key /\ q.verdict \in Status /\ q.from \in Status
        /\ q.reason \in Reasons \cup {NoReason}
    BY <1>13 DEF CommitOverride, Request
  <2>2. OverriddenRow(records[q.key], q.verdict, q.reason) \in Row
    BY <2>1, OverriddenRowType
  <2>3. records' \in [Key -> Row]
    BY <1>13, <2>1, <2>2 DEF CommitOverride
  <2>4. trail \in Trail
    BY <2>1 DEF Trail
  <2>5. ledger' \in [Key -> Trail]
    BY <1>13, <2>1, <2>4 DEF CommitOverride
  <2>6. ov' = [ov EXCEPT ![o] = IdleRequest] /\ IdleRequest.phase = "idle"
    BY <1>13 DEF CommitOverride, IdleRequest
  <2> QED
    BY <1>13, <2>3, <2>5, <2>6, NoRowType DEF CommitOverride
<1>14. ASSUME NEW o \in Overriders, FailOverride(o) PROVE TypeInv'
  BY <1>14, NoRowType DEF FailOverride, IdleRequest
<1>15. ASSUME NEW s \in Students, ToggleStudent(s) PROVE TypeInv'
  BY <1>15 DEF ToggleStudent
<1>16. ASSUME NEW s \in Students, DeleteStudent(s) PROVE TypeInv'
  BY <1>16, NoRowType, KeyOfKey DEF DeleteStudent
<1>17. ASSUME NEW c \in Courses, ToggleCourse(c) PROVE TypeInv'
  BY <1>17 DEF ToggleCourse
<1>18. CASE Midnight
  BY <1>18, AttendanceAssumption DEF Midnight, Days
<1>19. CASE UNCHANGED vars
  BY <1>19 DEF vars
<1> QED
  BY <1>1, <1>2, <1>3, <1>4, <1>5, <1>6, <1>7, <1>8, <1>9, <1>10, <1>11,
     <1>12, <1>13, <1>14, <1>15, <1>16, <1>17, <1>18, <1>19, <1>20
  DEF Next, EvaluatorStep, Overriding

-----------------------------------------------------------------------------
(* The safety of the roster.                                               *)

\* Between the statement that counts and the upsert, sightings only get more,
\* unless the student is deleted; between the statement that reads the statuses
\* and the upsert an excused row stays excused, unless it is overridden or its
\* student is deleted.  So what a run holds in memory is stale but not wrong.
FaithfulRun(r) ==
    /\ r.phase \in {"counted", "read"} =>
         \A s \in Students : student[s] # "deleted"
           => r.counts[s] <= sightings[KeyOf(s, r.course, r.day)]
    /\ r.phase = "read" =>
         /\ Population(r) # {}
         /\ \A s \in Students :
              /\ KeyOf(s, r.course, r.day) \in Excused
              /\ student[s] # "deleted"
              /\ ledger[KeyOf(s, r.course, r.day)].to = "none"
              => r.statuses[s] = "excused"

\* A row that does not exist has nothing in it, and unless its student was
\* deleted the ledger has no reason for it.
AbsentRows ==
    \A k \in Key : records[k].status = "none" =>
        /\ records[k].notes = NoReason
        /\ records[k].count = 0
        /\ student[k.student] = "deleted" \/ ledger[k].reason = NoReason

\* The evidence in the order of the commits, which no reader can see: the row
\* always agrees with it, because both are written by one transaction.
HistoryExplainsRoster ==
    \A k \in Key : records[k].status # "none" =>
        /\ k \in Excused \/ ledger[k].to # "none" \/ ledger[k].evaluated
        /\ records[k].notes = ledger[k].reason
        /\ ledger[k].to # "none" /\ ~ledger[k].evaluated
             => records[k].status = ledger[k].to

RosterInv ==
    /\ AbsentRows
    /\ HistoryExplainsRoster
    /\ VerdictIsExplained
    /\ ExcusedUntilOverridden

IInv ==
    /\ TypeInv
    /\ RosterInv
    /\ \A e \in Evaluators : FaithfulRun(ev[e])

\* The initial rows, the excused ones included, satisfy the invariant.
LEMMA SafetyInit == Init => IInv
<1> SUFFICES ASSUME Init PROVE IInv
  OBVIOUS
<1>1. TypeInv
  BY TypeInit
<1>2. ASSUME NEW k \in Key
      PROVE  /\ records[k].notes = NoReason
             /\ records[k].status = IF k \in Excused THEN "excused" ELSE "none"
             /\ records[k].count = 0
             /\ sightings[k] = 0
             /\ ledger[k].to = "none"
             /\ ledger[k].reason = NoReason
  BY DEF Init, NoRow, NoTrail
<1>3. RosterInv
  BY <1>2, AttendanceAssumption
  DEF RosterInv, AbsentRows, HistoryExplainsRoster, VerdictIsExplained,
      ExcusedUntilOverridden
<1>4. \A e \in Evaluators : FaithfulRun(ev[e])
  BY DEF Init, IdleRun, FaithfulRun
<1> QED
  BY <1>1, <1>3, <1>4 DEF IInv

\* A run stays faithful while it and all it was read from stay the same.
LEMMA SameRun ==
    ASSUME NEW e \in Evaluators, FaithfulRun(ev[e]), ev'[e] = ev[e],
           UNCHANGED <<student, sightings, ledger>>
    PROVE  FaithfulRun(ev[e])'
BY DEF FaithfulRun, Population

\* Steps that leave rows, evidence, students and sightings alone keep what the
\* runs have read, and disturb only the run they belong to.
LEMMA QuietStep ==
    ASSUME IInv, TypeInv', UNCHANGED <<student, sightings, records, ledger>>,
           \A e \in Evaluators :
               ev'[e] = ev[e] \/ ev'[e].phase \notin {"counted", "read"}
    PROVE  IInv'
<1>1. RosterInv'
  BY DEF IInv, RosterInv, AbsentRows, HistoryExplainsRoster, VerdictIsExplained,
         ExcusedUntilOverridden
<1>2. ASSUME NEW e \in Evaluators PROVE FaithfulRun(ev[e])'
  BY DEF IInv, FaithfulRun, Population
<1> QED
  BY <1>1, <1>2 DEF IInv

\* A new sighting can only be more than what the rows and the runs have counted.
LEMMA SightingStep ==
    ASSUME IInv, TypeInv', NEW k \in Key, InsertSighting(k)
    PROVE  IInv'
<1> USE DEF IInv, InsertSighting
<1>1. \A x \in Key : sightings[x] \in Nat /\ sightings'[x] \in Nat
                    /\ sightings[x] <= sightings'[x]
  BY DEF TypeInv, RosterTypeOK
<1>2. \A x \in Key : records[x].count \in Nat
  BY DEF TypeInv, RosterTypeOK, Row
<1>3. RosterInv'
  BY <1>1, <1>2
  DEF RosterInv, AbsentRows, HistoryExplainsRoster, VerdictIsExplained,
      ExcusedUntilOverridden
<1>4. ASSUME NEW e \in Evaluators PROVE FaithfulRun(ev[e])'
  <2>1. ev[e].phase \in {"counted", "read"} =>
          /\ ev[e].counts \in [Students -> Nat]
          /\ \A s \in Students : KeyOf(s, ev[e].course, ev[e].day) \in Key
    BY KeyOfType DEF TypeInv, RosterTypeOK, WellFormed, Run
  <2>2. FaithfulRun(ev[e])
    OBVIOUS
  <2> QED
    BY <1>1, <2>1, <2>2 DEF FaithfulRun, Population
<1> QED
  BY <1>3, <1>4

\* What the evaluator counts is what is persisted at that moment.
LEMMA CountStep ==
    ASSUME IInv, TypeInv', NEW e \in Evaluators, CountSightings(e)
    PROVE  IInv'
<1> DEFINE run == [ev[e] EXCEPT !.phase = "counted", !.counts = SightingCounts(ev[e])]
<1> USE DEF IInv
<1>1. /\ ev' = [ev EXCEPT ![e] = run]
      /\ UNCHANGED <<student, sightings, records, ledger>>
  BY DEF CountSightings
<1>2. ev \in [Evaluators -> Run] /\ ev[e].course \in Courses /\ ev[e].day \in Days
  BY DEF CountSightings, TypeInv, RosterTypeOK, WellFormed, Run
<1>3. RosterInv'
  BY <1>1
  DEF RosterInv, AbsentRows, HistoryExplainsRoster, VerdictIsExplained,
      ExcusedUntilOverridden
<1>4. /\ run.phase = "counted" /\ run.course = ev[e].course /\ run.day = ev[e].day
      /\ run.counts = SightingCounts(ev[e])
  BY <1>2 DEF Run
<1>5. \A s \in Students : run.counts[s] <= sightings[KeyOf(s, run.course, run.day)]
  <2>1. \A s \in Students : KeyOf(s, ev[e].course, ev[e].day) \in Key
    BY <1>2, KeyOfType
  <2>2. \A x \in Key : sightings[x] <= sightings[x]
    BY DEF TypeInv, RosterTypeOK
  <2> QED
    BY <1>4, <2>1, <2>2 DEF SightingCounts
<1>6. FaithfulRun(ev[e])'
  <2>1. ev'[e] = run
    BY <1>1, <1>2
  <2> QED
    BY <1>1, <1>4, <1>5, <2>1 DEF FaithfulRun
<1>7. ASSUME NEW x \in Evaluators PROVE FaithfulRun(ev[x])'
  <2>1. CASE x = e
    BY <1>6, <2>1
  <2>2. CASE x # e
    <3>1. ev'[x] = ev[x] /\ FaithfulRun(ev[x])
      BY <1>1, <1>2, <2>2
    <3> QED
      BY <1>1, <3>1, SameRun
  <2> QED
    BY <2>1, <2>2
<1> QED
  BY <1>3, <1>7

\* What the evaluator reads is what the rows say at that moment, so it reads
\* 'excused' for every excused row that is not overridden.
LEMMA ReadStep ==
    ASSUME IInv, TypeInv', NEW e \in Evaluators, ReadStatuses(e)
    PROVE  IInv'
<1> DEFINE run == [ev[e] EXCEPT !.phase = "read", !.statuses = ExistingStatuses(ev[e])]
<1> USE DEF IInv
<1>1. /\ \/ ev' = [ev EXCEPT ![e] = NextCourse(ev[e])]
         \/ ev' = [ev EXCEPT ![e] = run] /\ Population(run) # {}
      /\ UNCHANGED <<student, sightings, records, ledger>>
      /\ ev[e].phase = "counted"
  BY DEF ReadStatuses
<1>2. ev \in [Evaluators -> Run] /\ ev[e].course \in Courses /\ ev[e].day \in Days
  BY <1>1 DEF TypeInv, RosterTypeOK, WellFormed, Run
<1>3. CASE ev' = [ev EXCEPT ![e] = NextCourse(ev[e])]
  BY <1>1, <1>2, <1>3, NextCourseType, QuietStep
<1>4. CASE ev' = [ev EXCEPT ![e] = run] /\ Population(run) # {}
  <2>1. RosterInv'
    BY <1>1
    DEF RosterInv, AbsentRows, HistoryExplainsRoster, VerdictIsExplained,
        ExcusedUntilOverridden
  <2>2. /\ run.phase = "read" /\ run.course = ev[e].course /\ run.day = ev[e].day
        /\ run.counts = ev[e].counts
        /\ run.statuses = ExistingStatuses(ev[e])
    BY <1>2 DEF Run
  <2>3. \A s \in Students : student[s] # "deleted"
           => run.counts[s] <= sightings[KeyOf(s, run.course, run.day)]
    BY <1>1, <2>2 DEF FaithfulRun
  <2>4. ASSUME NEW s \in Students, KeyOf(s, run.course, run.day) \in Excused,
               student[s] # "deleted",
               ledger[KeyOf(s, run.course, run.day)].to = "none"
        PROVE  run.statuses[s] = "excused"
    <3>1. KeyOf(s, run.course, run.day).student = s
      BY DEF KeyOf
    <3>2. records[KeyOf(s, run.course, run.day)].status = "excused"
      BY <2>4, <3>1 DEF RosterInv, ExcusedUntilOverridden
    <3> QED
      BY <2>2, <3>2 DEF ExistingStatuses
  <2>5. FaithfulRun(ev[e])'
    <3>1. ev'[e] = run
      BY <1>2, <1>4
    <3> QED
      BY <1>1, <1>4, <2>2, <2>3, <2>4, <3>1 DEF FaithfulRun, Population
  <2>6. ASSUME NEW x \in Evaluators PROVE FaithfulRun(ev[x])'
    <3>1. CASE x = e
      BY <2>5, <3>1
    <3>2. CASE x # e
      <4>1. ev'[x] = ev[x] /\ FaithfulRun(ev[x])
        BY <1>2, <1>4, <3>2
      <4> QED
        BY <1>1, <4>1, SameRun
    <3> QED
      BY <3>1, <3>2
  <2> QED
    BY <2>1, <2>6
<1> QED
  BY <1>1, <1>3, <1>4

\* The upsert of an evaluation: each row it writes gets the verdict of a count
\* that is persisted, keeps its notes, and has its evidence in the ledger.
LEMMA EvaluationStep ==
    ASSUME IInv, TypeInv', NEW e \in Evaluators, CommitEvaluation(e)
    PROVE  IInv'
<1> DEFINE r == ev[e]
<1>1. /\ r \in Run /\ r.phase = "read" /\ r.course \in Courses /\ r.day \in Days
      /\ r.counts \in [Students -> Nat] /\ r.statuses \in [Students -> Status]
  BY DEF IInv, TypeInv, RosterTypeOK, WellFormed, CommitEvaluation, Run
<1>2. /\ student' = student
      /\ sightings' = sightings
      /\ \A k \in Key : ~InRun(k, r) => records'[k] = records[k]
      /\ \A k \in Key : ledger'[k].to = ledger[k].to
      /\ \A k \in Key : ledger'[k].reason = ledger[k].reason
      /\ \A k \in Key : ledger'[k].evaluated \/ ledger'[k] = ledger[k]
      /\ \A k \in Key : InRun(k, r) => ledger'[k].evaluated
  <2>1. ledger' = [k \in Key |->
              IF k.course = r.course /\ k.day = r.day
              THEN [ledger[k] EXCEPT !.evaluated = TRUE] ELSE ledger[k]]
    BY DEF CommitEvaluation
  <2>2. ASSUME NEW k \in Key
        PROVE  /\ ledger'[k].to = ledger[k].to
               /\ ledger'[k].reason = ledger[k].reason
               /\ ledger'[k].evaluated \/ ledger'[k] = ledger[k]
               /\ InRun(k, r) => ledger'[k].evaluated
    <3>1. ledger[k] \in Trail
      BY DEF IInv, TypeInv, RosterTypeOK
    <3> QED
      BY <2>1, <3>1 DEF Trail, InRun
  <2>3. \A k \in Key : ~InRun(k, r) => records'[k] = records[k]
    BY DEF CommitEvaluation
  <2> QED
    BY <2>2, <2>3 DEF CommitEvaluation
<1>3. ASSUME NEW k \in Key, InRun(k, r)
      PROVE  /\ k.student \in Students
             /\ k = KeyOf(k.student, r.course, r.day)
             /\ student[k.student] # "deleted"
             /\ records'[k].status = Verdict(r.counts[k.student], Threshold,
                                             r.statuses[k.student])
             /\ records'[k].status \in {"present", "absent", "excused"}
             /\ records'[k].count = r.counts[k.student]
             /\ records'[k].threshold = Threshold
             /\ records'[k].notes = records[k].notes
  <2>1. k.student \in Students /\ k = KeyOf(k.student, r.course, r.day)
    BY <1>3, KeyOfKey DEF InRun
  <2>2. student[k.student] # "deleted"
    BY <1>3 DEF CommitEvaluation, InRun
  <2>3. /\ records[k] \in Row /\ r.counts[k.student] \in Nat
        /\ r.statuses[k.student] \in Status
    BY <1>1, <2>1 DEF IInv, TypeInv, RosterTypeOK
  <2>4. records'[k] = EvaluatedRow(records[k], r.counts[k.student], r.statuses[k.student])
    BY <1>3 DEF CommitEvaluation
  <2> QED
    BY <2>1, <2>2, <2>3, <2>4, EvaluatedRowType
<1>4. FaithfulRun(r) /\ RosterInv
  BY DEF IInv
<1>5. AbsentRows'
  <2> SUFFICES ASSUME NEW k \in Key, records'[k].status = "none"
               PROVE  /\ records'[k].notes = NoReason
                      /\ records'[k].count = 0
                      /\ student[k.student] = "deleted" \/ ledger[k].reason = NoReason
    BY <1>2 DEF AbsentRows
  <2>1. ~InRun(k, r)
    BY <1>3
  <2> QED
    BY <1>2, <1>4, <2>1 DEF RosterInv, AbsentRows
<1>6. HistoryExplainsRoster'
  <2> SUFFICES ASSUME NEW k \in Key, records'[k].status # "none"
               PROVE  /\ k \in Excused \/ ledger'[k].to # "none" \/ ledger'[k].evaluated
                      /\ records'[k].notes = ledger'[k].reason
                      /\ ledger'[k].to # "none" /\ ~ledger'[k].evaluated
                           => records'[k].status = ledger'[k].to
    BY DEF HistoryExplainsRoster
  <2>1. CASE InRun(k, r)
    <3>1. ledger'[k].evaluated
      BY <1>2, <2>1
    <3>2. records[k].notes = ledger[k].reason
      BY <1>3, <1>4, <2>1 DEF RosterInv, AbsentRows, HistoryExplainsRoster
    <3> QED
      BY <1>2, <1>3, <2>1, <3>1, <3>2
  <2>2. CASE ~InRun(k, r)
    BY <1>2, <1>4, <2>2 DEF RosterInv, HistoryExplainsRoster
  <2> QED
    BY <2>1, <2>2
<1>7. VerdictIsExplained'
  <2> SUFFICES ASSUME NEW k \in Key, records'[k].status # "none"
               PROVE  /\ \/ records'[k].status = "excused"
                         \/ records'[k].status = ledger'[k].to
                         \/ records'[k].status = CountVerdict(records'[k].count,
                                                              records'[k].threshold)
                      /\ records'[k].count <= sightings'[k]
    BY DEF VerdictIsExplained
  <2>1. CASE InRun(k, r)
    <3>1. \/ records'[k].status = "excused"
          \/ records'[k].status = CountVerdict(records'[k].count, records'[k].threshold)
      BY <1>3, <2>1 DEF Verdict
    <3>2. records'[k].count <= sightings[k]
      BY <1>1, <1>3, <1>4, <2>1 DEF FaithfulRun
    <3> QED
      BY <1>2, <3>1, <3>2
  <2>2. CASE ~InRun(k, r)
    BY <1>2, <1>4, <2>2 DEF RosterInv, VerdictIsExplained
  <2> QED
    BY <2>1, <2>2
<1>8. ExcusedUntilOverridden'
  <2> SUFFICES ASSUME NEW k \in Excused, student[k.student] # "deleted",
                      ledger'[k].to = "none"
               PROVE  records'[k].status = "excused"
    BY <1>2 DEF ExcusedUntilOverridden
  <2>1. k \in Key /\ ledger[k].to = "none"
    BY <1>2, AttendanceAssumption
  <2>2. CASE InRun(k, r)
    <3>1. r.statuses[k.student] = "excused"
      BY <1>1, <1>3, <1>4, <2>1, <2>2 DEF FaithfulRun
    <3> QED
      BY <1>3, <2>1, <2>2, <3>1 DEF Verdict
  <2>3. CASE ~InRun(k, r)
    BY <1>2, <1>4, <2>1, <2>3 DEF RosterInv, ExcusedUntilOverridden
  <2> QED
    BY <2>2, <2>3
<1>9. ASSUME NEW x \in Evaluators PROVE FaithfulRun(ev[x])'
  <2>1. ev'[x] = ev[x] \/ ev'[x].phase \notin {"counted", "read"}
    BY <1>1, NextCourseType DEF CommitEvaluation, IInv, TypeInv, RosterTypeOK
  <2>2. CASE ev'[x].phase \notin {"counted", "read"}
    BY <2>2 DEF FaithfulRun
  <2>3. CASE ev'[x] = ev[x] /\ ev[x].phase \in {"counted", "read"}
    <3>1. \A s \in Students : KeyOf(s, ev[x].course, ev[x].day) \in Key
      BY <2>3, KeyOfType DEF IInv, TypeInv, RosterTypeOK, WellFormed, Run
    <3>2. FaithfulRun(ev[x])
      BY DEF IInv
    <3> QED
      BY <1>2, <2>3, <3>1, <3>2 DEF FaithfulRun, Population
  <2> QED
    BY <2>1, <2>2, <2>3
<1> QED
  BY <1>5, <1>6, <1>7, <1>8, <1>9 DEF IInv, RosterInv

\* The upsert of an override: the row, the notes and the ledger agree, and the
\* count of an existing row is left alone.
LEMMA OverrideStep ==
    ASSUME IInv, TypeInv', NEW o \in Overriders, CommitOverride(o)
    PROVE  IInv'
<1> DEFINE q == ov[o]
<1>1. /\ q \in Request /\ q.key \in Key /\ q.verdict \in {"present", "absent"}
      /\ q.verdict \in Status /\ q.reason \in Reasons \cup {NoReason}
  BY DEF IInv, TypeInv, RosterTypeOK, WellFormed, CommitOverride, Request, Status
<1>2. /\ student' = student
      /\ sightings' = sightings
      /\ ev' = ev
      /\ \A k \in Key : k # q.key => records'[k] = records[k] /\ ledger'[k] = ledger[k]
  BY DEF CommitOverride, IInv, TypeInv, RosterTypeOK
<1>3. /\ records'[q.key].status = q.verdict
      /\ records'[q.key].notes = q.reason
      /\ records'[q.key].count = IF records[q.key].status = "none" THEN 0
                                 ELSE records[q.key].count
      /\ ledger'[q.key].to = q.verdict
      /\ ledger'[q.key].reason = q.reason
  <2>1. /\ records[q.key] \in Row
        /\ records'[q.key] = OverriddenRow(records[q.key], q.verdict, q.reason)
        /\ ledger'[q.key] = [from |-> q.from, to |-> q.verdict,
                             reason |-> q.reason, evaluated |-> FALSE]
    BY <1>1 DEF CommitOverride, IInv, TypeInv, RosterTypeOK
  <2> QED
    BY <1>1, <2>1, OverriddenRowType
<1>4. RosterInv
  BY DEF IInv
<1>5. AbsentRows'
  BY <1>1, <1>2, <1>3, <1>4 DEF RosterInv, AbsentRows
<1>6. HistoryExplainsRoster'
  BY <1>1, <1>2, <1>3, <1>4 DEF RosterInv, HistoryExplainsRoster
<1>7. VerdictIsExplained'
  <2> SUFFICES ASSUME NEW k \in Key, records'[k].status # "none"
               PROVE  /\ \/ records'[k].status = "excused"
                         \/ records'[k].status = ledger'[k].to
                         \/ records'[k].status = CountVerdict(records'[k].count,
                                                              records'[k].threshold)
                      /\ records'[k].count <= sightings[k]
    BY <1>2 DEF VerdictIsExplained
  <2>1. CASE k # q.key
    BY <1>2, <1>4, <2>1 DEF RosterInv, VerdictIsExplained
  <2>2. CASE k = q.key
    <3>1. records[k].count <= sightings[k] \/ records[k].status = "none"
      BY <1>4 DEF RosterInv, VerdictIsExplained
    <3>2. sightings[k] \in Nat
      BY DEF IInv, TypeInv, RosterTypeOK
    <3>3. records'[k].count <= sightings[k]
      BY <1>3, <2>2, <3>1, <3>2
    <3> QED
      BY <1>3, <2>2, <3>3
  <2> QED
    BY <2>1, <2>2
<1>8. ExcusedUntilOverridden'
  BY <1>1, <1>2, <1>3, <1>4, AttendanceAssumption
  DEF RosterInv, ExcusedUntilOverridden
<1>9. ASSUME NEW x \in Evaluators PROVE FaithfulRun(ev[x])'
  <2>1. ev[x].phase \in {"counted", "read"}
          => \A s \in Students : KeyOf(s, ev[x].course, ev[x].day) \in Key
    BY KeyOfType DEF IInv, TypeInv, RosterTypeOK, WellFormed, Run
  <2>2. FaithfulRun(ev[x])
    BY DEF IInv
  <2>3. \A k \in Key : ledger'[k].to = "none" => ledger[k].to = "none"
    BY <1>1, <1>2, <1>3
  <2> QED
    BY <1>2, <2>1, <2>2, <2>3 DEF FaithfulRun, Population
<1> QED
  BY <1>5, <1>6, <1>7, <1>8, <1>9 DEF IInv, RosterInv

\* Deactivating and reactivating a student deletes nobody.
LEMMA ToggleStep ==
    ASSUME IInv, TypeInv', NEW t \in Students, ToggleStudent(t)
    PROVE  IInv'
<1>1. /\ UNCHANGED <<sightings, records, ledger, ev>>
      /\ \A s \in Students : student'[s] = "deleted" <=> student[s] = "deleted"
  BY DEF ToggleStudent, IInv, TypeInv, RosterTypeOK
<1>2. RosterInv'
  BY <1>1, KeyOfKey, AttendanceAssumption
  DEF IInv, RosterInv, AbsentRows, HistoryExplainsRoster, VerdictIsExplained,
      ExcusedUntilOverridden
<1>3. ASSUME NEW e \in Evaluators PROVE FaithfulRun(ev[e])'
  BY <1>1 DEF IInv, FaithfulRun, Population
<1> QED
  BY <1>2, <1>3 DEF IInv

\* Deleting a student takes the rows and keeps the evidence; the runs that have
\* counted the student cannot commit any more.
LEMMA DeleteStep ==
    ASSUME IInv, TypeInv', NEW t \in Students, DeleteStudent(t)
    PROVE  IInv'
<1>1. /\ ledger' = ledger
      /\ ev' = ev
      /\ student'[t] = "deleted"
      /\ \A s \in Students : s # t => student'[s] = student[s]
      /\ \A k \in Key : k.student # t
            => records'[k] = records[k] /\ sightings'[k] = sightings[k]
      /\ \A k \in Key : k.student = t => records'[k] = NoRow
  BY DEF DeleteStudent, IInv, TypeInv, RosterTypeOK
<1>2. RosterInv'
  BY <1>1, KeyOfKey, AttendanceAssumption
  DEF IInv, RosterInv, AbsentRows, HistoryExplainsRoster, VerdictIsExplained,
      ExcusedUntilOverridden, NoRow
<1>3. ASSUME NEW e \in Evaluators PROVE FaithfulRun(ev[e])'
  <2>1. ev[e].phase \in {"counted", "read"}
          => \A s \in Students : /\ KeyOf(s, ev[e].course, ev[e].day) \in Key
                                /\ KeyOf(s, ev[e].course, ev[e].day).student = s
    BY KeyOfType DEF IInv, TypeInv, RosterTypeOK, WellFormed, Run
  <2>2. FaithfulRun(ev[e])
    BY DEF IInv
  <2> QED
    BY <1>1, <2>1, <2>2 DEF FaithfulRun, Population
<1> QED
  BY <1>2, <1>3 DEF IInv

\* Every step of the service keeps the invariant.
LEMMA SafetyStep == IInv /\ [Next]_vars => IInv'
<1> SUFFICES ASSUME IInv, [Next]_vars PROVE IInv'
  OBVIOUS
<1>1. TypeInv' /\ TypeInv /\ RosterTypeOK
  BY TypeStep DEF IInv, TypeInv
<1>2. ASSUME NEW k \in Key, CheckSighting(k) \/ InsertSighting(k) \/ FailSighting(k)
      PROVE  IInv'
  BY <1>1, <1>2, SightingStep, QuietStep DEF CheckSighting, FailSighting
<1>3. ASSUME NEW e \in Evaluators, EvaluatorStep(e) PROVE IInv'
  <2>1. ev \in [Evaluators -> Run]
    BY <1>1 DEF RosterTypeOK
  <2>2. CASE StartRun(e)
    BY <1>1, <2>1, <2>2, QuietStep DEF StartRun, Run
  <2>3. ASSUME NEW c \in Courses, RequireCourse(e, c) PROVE IInv'
    <3>1. [ev[e] EXCEPT !.course = c] \in Run
      BY <2>1 DEF Run
    <3>2. NextCourse([ev[e] EXCEPT !.course = c]).phase \notin {"counted", "read"}
      BY <3>1, NextCourseType
    <3> QED
      BY <1>1, <2>1, <2>3, <3>2, QuietStep DEF RequireCourse, Run
  <2>4. CASE CountSightings(e)
    BY <1>1, <2>4, CountStep
  <2>5. CASE ReadStatuses(e)
    BY <1>1, <2>5, ReadStep
  <2>6. CASE CommitEvaluation(e)
    BY <1>1, <2>6, EvaluationStep
  <2>7. CASE RejectEvaluation(e)
    BY <1>1, <2>1, <2>7, NextCourseType, QuietStep DEF RejectEvaluation
  <2> QED
    BY <1>3, <2>2, <2>3, <2>4, <2>5, <2>6, <2>7 DEF EvaluatorStep
<1>4. ASSUME NEW e \in Evaluators, FailEvaluation(e) PROVE IInv'
  BY <1>1, <1>4, NextCourseType, QuietStep DEF FailEvaluation, RosterTypeOK
<1>5. ASSUME NEW e \in Evaluators, LoseRun(e) PROVE IInv'
  BY <1>1, <1>5, QuietStep DEF LoseRun, IdleRun, RosterTypeOK
<1>6. ASSUME NEW o \in Overriders, Overriding(o) PROVE IInv'
  <2>1. CASE CommitOverride(o)
    BY <1>1, <2>1, OverrideStep
  <2>2. CASE BeginOverride(o) \/ SelectPrevious(o) \/ FailOverride(o)
    BY <1>1, <2>2, QuietStep DEF BeginOverride, SelectPrevious, FailOverride
  <2>3. ASSUME NEW s \in Students, NEW c \in Courses, NEW v \in {"present", "absent"},
               NEW r \in Reasons, CheckOverride(o, s, c, v, r)
        PROVE  IInv'
    BY <1>1, <2>3, QuietStep DEF CheckOverride
  <2> QED
    BY <1>6, <2>1, <2>2, <2>3 DEF Overriding
<1>7. ASSUME NEW s \in Students, ToggleStudent(s) PROVE IInv'
  BY <1>1, <1>7, ToggleStep
<1>8. ASSUME NEW s \in Students, DeleteStudent(s) PROVE IInv'
  BY <1>1, <1>8, DeleteStep
<1>9. ASSUME NEW c \in Courses, NEW d \in Days, LogUnmatched(c, d) PROVE IInv'
  BY <1>1, <1>9, QuietStep DEF LogUnmatched
<1>10. ASSUME NEW c \in Courses, ToggleCourse(c) PROVE IInv'
  BY <1>1, <1>10, QuietStep DEF ToggleCourse
<1>11. CASE Midnight \/ UNCHANGED vars
  BY <1>1, <1>11, QuietStep DEF Midnight, vars
<1> QED
  BY <1>2, <1>3, <1>4, <1>5, <1>6, <1>7, <1>8, <1>9, <1>10, <1>11 DEF Next

\* The inductive invariant holds throughout.
LEMMA Safety == Spec => []IInv
BY SafetyInit, SafetyStep, PTL DEF Spec

\* Every verdict is excused, overridden, or what the count and the threshold in
\* its own row say, and that count never exceeds the persisted sightings.
THEOREM VerdictAlwaysExplained == Spec => []VerdictIsExplained
<1>1. IInv => VerdictIsExplained
  BY DEF IInv, RosterInv
<1> QED
  BY <1>1, Safety, PTL

\* No evaluation, fresh or stale, takes an excuse away.
THEOREM ExcuseIsKept == Spec => []ExcusedUntilOverridden
<1>1. IInv => ExcusedUntilOverridden
  BY DEF IInv, RosterInv
<1> QED
  BY <1>1, Safety, PTL

-----------------------------------------------------------------------------
(* What an auditor is shown.                                               *)

\* The row of k has the verdict of the override on top of the list, if one is.
RowAsListed(k) ==
    records[k].status # "none" /\ listed[k].to # "none" /\ ~listed[k].evaluated
      => records[k].status = listed[k].to

\* The list has evidence wherever the history has, an override that a
\* transaction has been overtaken by is on the list, and outside of the keys
\* written out of order the list has the override that committed last and the
\* row its verdict, as long as no evaluation is listed above it.
Shown ==
    /\ \A k \in Key :
         /\ ledger[k].to # "none" => listed[k].to # "none"
         /\ ledger[k].evaluated => listed[k].evaluated \/ listed[k].to # "none"
         /\ k \notin disordered =>
              /\ listed[k].to = ledger[k].to
              /\ listed[k].reason = ledger[k].reason
              /\ RowAsListed(k)
    /\ \A t \in Txn, k \in Key :
         <<"override", k>> \in newer[t] => listed[k].to # "none"

LedgerInv == LedgerTypeOK /\ Shown

\* At the start nothing has been written.
LEMMA LedgerInit == Init => LedgerInv
<1> SUFFICES ASSUME Init PROVE LedgerInv
  OBVIOUS
<1>1. LedgerTypeOK
  BY NoRowType DEF Init, LedgerTypeOK
<1>2. Shown
  BY DEF Init, Shown, RowAsListed, NoTrail
<1> QED
  BY <1>1, <1>2 DEF LedgerInv

\* What the end of a transaction does to the dates of the others.
LEMMA PublishFacts ==
    ASSUME LedgerTypeOK, NEW t \in Txn, NEW entries \in SUBSET Entry,
           Publish(t, entries)
    PROVE  /\ older' \in [Txn -> SUBSET Txn]
           /\ newer' \in [Txn -> SUBSET Entry]
           /\ \A u \in Txn : newer'[u] \subseteq newer[u] \cup entries
BY DEF Publish, LedgerTypeOK

\* The transactions that are open are transactions.
LEMMA OpenType == OpenRuns \subseteq Txn /\ OpenRequests \subseteq Txn
BY DEF OpenRuns, OpenRequests, Txn

\* Steps that write no governance row keep the list in step with the history.
LEMMA ListKept ==
    ASSUME LedgerInv, ledger' = ledger,
           \A k \in Key : records'[k].status = "none" \/ records'[k] = records[k],
           \/ UNCHANGED auditVars
           \/ \E t \in Txn : End(t)
           \/ \E t \in Txn, open \in SUBSET Txn : Begin(t, open)
    PROVE  LedgerInv'
<1>1. CASE UNCHANGED auditVars
  BY <1>1 DEF LedgerInv, LedgerTypeOK, Shown, RowAsListed, auditVars
<1>2. ASSUME NEW t \in Txn, End(t) PROVE LedgerInv'
  <2>1. /\ older' \in [Txn -> SUBSET Txn] /\ newer' \in [Txn -> SUBSET Entry]
        /\ \A u \in Txn : newer'[u] \subseteq newer[u]
    BY <1>2, PublishFacts DEF End, LedgerInv
  <2>2. UNCHANGED <<ledger, listed, disordered>>
    BY <1>2 DEF End
  <2> QED
    BY <2>1, <2>2 DEF LedgerInv, LedgerTypeOK, Shown, RowAsListed
<1>3. ASSUME NEW t \in Txn, NEW open \in SUBSET Txn, Begin(t, open) PROVE LedgerInv'
  BY <1>3 DEF Begin, LedgerInv, LedgerTypeOK, Shown, RowAsListed
<1> QED
  BY <1>1, <1>2, <1>3

\* An evaluation is listed above everything but the overrides that began after
\* it; rows of theirs that it has written are out of order.
LEMMA EvaluationListed ==
    ASSUME TypeInv, LedgerInv, IInv, NEW e \in Evaluators, CommitEvaluation(e)
    PROVE  LedgerInv'
<1> DEFINE r == ev[e]
           OfCourse == {k \in Key : k.course = r.course /\ k.day = r.day}
           Overtaken == {k \in OfCourse : <<"override", k>> \in newer[e]}
<1>1. e \in Txn
  BY DEF Txn
<1>2. /\ Publish(e, {"evaluate"} \X OfCourse)
      /\ listed' = [k \in Key |-> IF k \in OfCourse \ Overtaken
                                  THEN [listed[k] EXCEPT !.evaluated = TRUE]
                                  ELSE listed[k]]
      /\ disordered' = disordered \cup {k \in Overtaken : InRun(k, r)}
  BY DEF CommitEvaluation, ListEvaluation
<1>3. ledger' = [k \in Key |-> IF k \in OfCourse
                               THEN [ledger[k] EXCEPT !.evaluated = TRUE]
                               ELSE ledger[k]]
  BY DEF CommitEvaluation
<1>4. {"evaluate"} \X OfCourse \in SUBSET Entry
  BY DEF Entry
<1>5. /\ older' \in [Txn -> SUBSET Txn] /\ newer' \in [Txn -> SUBSET Entry]
      /\ \A u \in Txn : newer'[u] \subseteq newer[u] \cup ({"evaluate"} \X OfCourse)
  <2> HIDE DEF OfCourse
  <2> QED
    BY <1>1, <1>2, <1>4, PublishFacts DEF LedgerInv
<1>6. ASSUME NEW k \in Key
      PROVE  /\ listed'[k] \in Trail
             /\ listed'[k].to = listed[k].to /\ listed'[k].reason = listed[k].reason
             /\ listed'[k].evaluated <=> listed[k].evaluated \/ k \in OfCourse \ Overtaken
             /\ ledger'[k].to = ledger[k].to /\ ledger'[k].reason = ledger[k].reason
             /\ ledger'[k].evaluated <=> ledger[k].evaluated \/ k \in OfCourse
  <2>1. listed[k] \in Trail /\ ledger[k] \in Trail
    BY DEF LedgerInv, LedgerTypeOK, TypeInv, RosterTypeOK
  <2> QED
    BY <1>2, <1>3, <2>1 DEF Trail
<1>7. LedgerTypeOK'
  <2>1. disordered' \subseteq Key
    BY <1>2 DEF LedgerInv, LedgerTypeOK
  <2>2. listed' \in [Key -> Trail]
    BY <1>2, <1>6
  <2> QED
    BY <1>5, <2>1, <2>2 DEF LedgerTypeOK
<1>8. \A k \in Overtaken : listed[k].to # "none"
  BY <1>1 DEF LedgerInv, Shown
<1>9. Shown'
  <2> HIDE DEF OfCourse
  <2>1. ASSUME NEW k \in Key
        PROVE  /\ ledger'[k].to # "none" => listed'[k].to # "none"
               /\ ledger'[k].evaluated => listed'[k].evaluated \/ listed'[k].to # "none"
    BY <1>6, <1>8 DEF LedgerInv, Shown
  <2>2. ASSUME NEW t \in Txn, NEW k \in Key, <<"override", k>> \in newer'[t]
        PROVE  listed'[k].to # "none"
    <3>1. <<"override", k>> \in newer[t]
      BY <1>5, <2>2
    <3> QED
      BY <1>6, <3>1 DEF LedgerInv, Shown
  <2>3. ASSUME NEW k \in Key, k \notin disordered'
        PROVE  /\ listed'[k].to = ledger'[k].to
               /\ listed'[k].reason = ledger'[k].reason
               /\ RowAsListed(k)'
    <3>1. k \notin disordered /\ (k \in Overtaken => ~InRun(k, r))
      BY <1>2, <2>3
    <3>2. listed[k].to = ledger[k].to /\ listed[k].reason = ledger[k].reason
      BY <3>1 DEF LedgerInv, Shown
    <3>3. RowAsListed(k)'
      <4>1. CASE k \in OfCourse \ Overtaken
        BY <1>6, <4>1 DEF RowAsListed
      <4>2. CASE k \notin OfCourse \ Overtaken
        <5>1. ~InRun(k, r)
          BY <3>1, <4>2 DEF InRun, OfCourse
        <5>2. records'[k] = records[k]
          BY <5>1 DEF CommitEvaluation
        <5>3. RowAsListed(k)
          BY <3>1 DEF LedgerInv, Shown
        <5> QED
          BY <1>6, <4>2, <5>2, <5>3 DEF RowAsListed
      <4> QED
        BY <4>1, <4>2
    <3> QED
      BY <1>6, <3>2, <3>3
  <2> QED
    BY <2>1, <2>2, <2>3 DEF Shown
<1> QED
  BY <1>7, <1>9 DEF LedgerInv

\* An override is the newest of its row on the list, unless another override of
\* the row, begun later, is there already.
LEMMA OverrideListed ==
    ASSUME TypeInv, LedgerInv, NEW o \in Overriders, CommitOverride(o)
    PROVE  LedgerInv'
<1> DEFINE q == ov[o]
           overtaken == <<"override", q.key>> \in newer[o]
           shown == [from |-> q.from, to |-> q.verdict, reason |-> q.reason,
                     evaluated |-> <<"evaluate", q.key>> \in newer[o]]
<1>1. /\ o \in Txn /\ q \in Request /\ q.key \in Key /\ q.verdict \in {"present", "absent"}
      /\ q.verdict \in Status /\ q.from \in Status /\ q.reason \in Reasons \cup {NoReason}
  BY DEF Txn, TypeInv, RosterTypeOK, WellFormed, CommitOverride, Request, Status
<1>2. /\ Publish(o, {<<"override", q.key>>})
      /\ listed' = IF overtaken THEN listed ELSE [listed EXCEPT ![q.key] = shown]
      /\ disordered' = IF overtaken THEN disordered \cup {q.key} ELSE disordered \ {q.key}
  BY DEF CommitOverride, ListOverride
<1>3. /\ \A k \in Key : k # q.key => ledger'[k] = ledger[k]
      /\ ledger'[q.key].to = q.verdict /\ ledger'[q.key].reason = q.reason
      /\ ~ledger'[q.key].evaluated
  BY <1>1 DEF CommitOverride, TypeInv, RosterTypeOK
<1>4. {<<"override", q.key>>} \in SUBSET Entry
  BY <1>1 DEF Entry
<1>5. /\ older' \in [Txn -> SUBSET Txn] /\ newer' \in [Txn -> SUBSET Entry]
      /\ \A u \in Txn : newer'[u] \subseteq newer[u] \cup {<<"override", q.key>>}
  BY <1>1, <1>2, <1>4, PublishFacts DEF LedgerInv
<1>6. shown \in Trail
  BY <1>1 DEF Trail
<1>7. LedgerTypeOK'
  <2>1. listed' \in [Key -> Trail] /\ disordered' \subseteq Key
    <3> HIDE DEF shown, overtaken
    <3> QED
      BY <1>1, <1>2, <1>6 DEF LedgerInv, LedgerTypeOK
  <2> QED
    BY <1>5, <2>1 DEF LedgerTypeOK
<1>8. listed'[q.key].to # "none"
  BY <1>1, <1>2 DEF LedgerInv, LedgerTypeOK, Shown
<1>9. \A k \in Key : k # q.key => listed'[k] = listed[k]
  BY <1>2 DEF LedgerInv, LedgerTypeOK
<1>10. q.key \notin disordered' => listed'[q.key] = shown
  BY <1>1, <1>2 DEF LedgerInv, LedgerTypeOK
<1>11. Shown'
  <2>1. ASSUME NEW k \in Key
        PROVE  /\ ledger'[k].to # "none" => listed'[k].to # "none"
               /\ ledger'[k].evaluated => listed'[k].evaluated \/ listed'[k].to # "none"
    BY <1>3, <1>8, <1>9 DEF LedgerInv, Shown
  <2>2. ASSUME NEW t \in Txn, NEW k \in Key, <<"override", k>> \in newer'[t]
        PROVE  listed'[k].to # "none"
    BY <1>5, <1>8, <1>9, <2>2 DEF LedgerInv, Shown
  <2>3. ASSUME NEW k \in Key, k \notin disordered'
        PROVE  /\ listed'[k].to = ledger'[k].to
               /\ listed'[k].reason = ledger'[k].reason
               /\ RowAsListed(k)'
    <3>1. CASE k = q.key
      <4>1. records'[k].status = q.verdict
        <5>1. /\ records[k] \in Row
              /\ records'[k] = OverriddenRow(records[k], q.verdict, q.reason)
          BY <3>1 DEF CommitOverride, TypeInv, RosterTypeOK
        <5> QED
          BY <1>1, <5>1, OverriddenRowType
      <4> QED
        BY <1>3, <1>10, <2>3, <3>1, <4>1 DEF RowAsListed
    <3>2. CASE k # q.key
      <4>1. k \notin disordered
        BY <1>2, <2>3, <3>2
      <4>2. records'[k] = records[k]
        BY <3>2 DEF CommitOverride, TypeInv, RosterTypeOK
      <4> QED
        BY <1>3, <1>9, <3>2, <4>1, <4>2 DEF LedgerInv, Shown, RowAsListed
    <3> QED
      BY <3>1, <3>2
  <2> QED
    BY <2>1, <2>2, <2>3 DEF Shown
<1> QED
  BY <1>7, <1>11 DEF LedgerInv

\* Every step of the service keeps list and history in step.
LEMMA LedgerStep == TypeInv /\ IInv /\ LedgerInv /\ [Next]_vars => LedgerInv'
<1> SUFFICES ASSUME TypeInv, IInv, LedgerInv, [Next]_vars PROVE LedgerInv'
  OBVIOUS
<1>1. \A e \in Evaluators : e \in Txn
  BY DEF Txn
<1>2. \A o \in Overriders : o \in Txn
  BY DEF Txn
<1>3. ASSUME \/ \E k \in Key : CheckSighting(k) \/ InsertSighting(k) \/ FailSighting(k)
             \/ \E c \in Courses, d \in Days : LogUnmatched(c, d)
             \/ \E s \in Students : ToggleStudent(s)
             \/ \E c \in Courses : ToggleCourse(c)
             \/ Midnight
             \/ UNCHANGED vars
      PROVE  LedgerInv'
  <2>1. ledger' = ledger /\ records' = records /\ UNCHANGED auditVars
    BY <1>3 DEF CheckSighting, InsertSighting, FailSighting, LogUnmatched, ToggleStudent,
                ToggleCourse, Midnight, vars
  <2> QED
    BY <2>1, ListKept
<1>6. ASSUME NEW s \in Students, DeleteStudent(s) PROVE LedgerInv'
  <2>1. ledger' = ledger /\ UNCHANGED auditVars
    BY <1>6 DEF DeleteStudent
  <2>2. \A k \in Key : records'[k].status = "none" \/ records'[k] = records[k]
    BY <1>6 DEF DeleteStudent, NoRow
  <2> QED
    BY <2>1, <2>2, ListKept
<1>4. ASSUME NEW e \in Evaluators, EvaluatorStep(e) \/ FailEvaluation(e) \/ LoseRun(e)
      PROVE  LedgerInv'
  <2>1. CASE CommitEvaluation(e)
    BY <2>1, EvaluationListed
  <2>2. CASE StartRun(e) \/ CountSightings(e)
    <3>1. ledger' = ledger /\ records' = records /\ UNCHANGED auditVars
      BY <2>2 DEF StartRun, CountSightings
    <3> QED
      BY <3>1, ListKept
  <2>3. ASSUME NEW c \in Courses, RequireCourse(e, c) PROVE LedgerInv'
    <3>1. ledger' = ledger /\ records' = records /\ (UNCHANGED auditVars \/ Begin(e, OpenRequests))
      BY <2>3 DEF RequireCourse
    <3> QED
      BY <1>1, <3>1, OpenType, ListKept
  <2>4. CASE ReadStatuses(e)
    <3>1. ledger' = ledger /\ records' = records /\ (UNCHANGED auditVars \/ End(e))
      BY <2>4 DEF ReadStatuses
    <3> QED
      BY <1>1, <3>1, ListKept
  <2>5. CASE RejectEvaluation(e) \/ FailEvaluation(e) \/ LoseRun(e)
    <3>1. ledger' = ledger /\ records' = records /\ End(e)
      BY <2>5 DEF RejectEvaluation, FailEvaluation, LoseRun
    <3> QED
      BY <1>1, <3>1, ListKept
  <2> QED
    BY <1>4, <2>1, <2>2, <2>3, <2>4, <2>5 DEF EvaluatorStep
<1>5. ASSUME NEW o \in Overriders, Overriding(o) PROVE LedgerInv'
  <2>1. CASE CommitOverride(o)
    BY <2>1, OverrideListed
  <2>2. CASE BeginOverride(o)
    <3>1. ledger' = ledger /\ records' = records /\ Begin(o, OpenRuns \cup OpenRequests)
      BY <2>2 DEF BeginOverride
    <3>2. OpenRuns \cup OpenRequests \in SUBSET Txn
      BY OpenType
    <3> QED
      BY <1>2, <3>1, <3>2, ListKept
  <2>3. CASE FailOverride(o)
    <3>1. ledger' = ledger /\ records' = records /\ End(o)
      BY <2>3 DEF FailOverride
    <3> QED
      BY <1>2, <3>1, ListKept
  <2>4. ASSUME \/ SelectPrevious(o)
               \/ \E s \in Students, c \in Courses, v \in {"present", "absent"},
                     r \in Reasons : CheckOverride(o, s, c, v, r)
        PROVE  LedgerInv'
    <3>1. ledger' = ledger /\ records' = records /\ UNCHANGED auditVars
      BY <2>4 DEF SelectPrevious, CheckOverride
    <3> QED
      BY <3>1, ListKept
  <2> QED
    BY <1>5, <2>1, <2>2, <2>3, <2>4 DEF Overriding
<1> QED
  BY <1>3, <1>4, <1>5, <1>6 DEF Next

\* The list and the history are in step in every reachable state.
LEMMA ListSafety == Spec => [](IInv /\ LedgerInv)
<1>1. IInv => TypeInv
  BY DEF IInv
<1> QED
  BY <1>1, SafetyInit, SafetyStep, LedgerInit, LedgerStep, PTL DEF Spec

\* Every variable keeps its type, whatever overlaps, fails or is redelivered.
THEOREM TypeCorrect == Spec => []TypeOK
<1>1. IInv /\ LedgerInv => TypeOK
  BY DEF IInv, TypeInv, LedgerInv, TypeOK
<1> QED
  BY <1>1, ListSafety, PTL

\* What an auditor lists always has the evidence of a row, and explains the row
\* unless it was written by a transaction that a later-begun override of it had
\* overtaken, however runs and requests overlap, fail and are repeated.
THEOREM LedgerAlwaysExplains == Spec => []LedgerExplainsRoster
<1>1. IInv /\ LedgerInv => LedgerExplainsRoster
  BY DEF IInv, RosterInv, HistoryExplainsRoster, LedgerInv, Shown, RowAsListed,
         LedgerExplainsRoster
<1> QED
  BY <1>1, ListSafety, PTL

-----------------------------------------------------------------------------
(* The service implements the roster's contract.                           *)

\* The initial rows are the contract's initial roster.
LEMMA ContractInit == Init => RosterContract!Init
<1> SUFFICES ASSUME Init PROVE RosterContract!Init
  OBVIOUS
<1>1. \A k \in Key : /\ records[k].status = IF k \in Excused THEN "excused" ELSE "none"
                   /\ records[k].notes = NoReason
  BY DEF Init, NoRow
<1>2. RosterView = [k \in Key |-> IF k \in Excused
                                 THEN [status |-> "excused", notes |-> NoReason]
                                 ELSE [status |-> "none", notes |-> NoReason]]
  BY <1>1 DEF RosterView
<1>3. ledger = [k \in Key |-> [from |-> "none", to |-> "none",
                              reason |-> NoReason, evaluated |-> FALSE]]
  BY DEF Init, NoTrail
<1> QED
  BY <1>2, <1>3 DEF RosterContract!Init, RosterContract!NoEntry

\* A commit of an evaluation is one evaluation of the contract.
LEMMA EvaluationRefines ==
    ASSUME IInv, NEW e \in Evaluators, CommitEvaluation(e)
    PROVE  RosterContract!Next
<1> DEFINE r == ev[e]
<1>1. /\ r \in Run /\ r.course \in Courses /\ r.day \in Days /\ Population(r) # {}
      /\ r.counts \in [Students -> Nat] /\ r.statuses \in [Students -> Status]
  BY DEF IInv, TypeInv, RosterTypeOK, WellFormed, CommitEvaluation, Run, FaithfulRun
<1>2. ASSUME NEW k \in Key, InRun(k, r)
      PROVE  /\ k.course = r.course /\ k.day = r.day
             /\ records'[k].status \in {"present", "absent", "excused"}
             /\ records'[k].notes = records[k].notes
  <2>1. /\ records[k] \in Row /\ r.counts[k.student] \in Nat
        /\ r.statuses[k.student] \in Status
    BY <1>1, KeyOfKey DEF IInv, TypeInv, RosterTypeOK
  <2>2. records'[k] = EvaluatedRow(records[k], r.counts[k.student], r.statuses[k.student])
    BY <1>2 DEF CommitEvaluation
  <2> QED
    BY <1>2, <2>1, <2>2, EvaluatedRowType DEF InRun
<1>3. ASSUME NEW k \in Key
      PROVE  /\ RosterView[k].status = records[k].status
             /\ RosterView[k].notes = records[k].notes
             /\ RosterView'[k].status = records'[k].status
             /\ RosterView'[k].notes = records'[k].notes
             /\ ~InRun(k, r) => RosterView'[k] = RosterView[k]
  BY DEF RosterView, CommitEvaluation
<1>4. ASSUME NEW k \in Key, RosterView'[k] # RosterView[k]
      PROVE  /\ k.course = r.course /\ k.day = r.day
             /\ RosterView'[k].status \in {"present", "absent", "excused"}
             /\ RosterView'[k].notes = RosterView[k].notes
  BY <1>2, <1>3, <1>4
<1>5. ASSUME NEW k \in Key
      PROVE  ledger'[k] = IF k.course = r.course /\ k.day = r.day
                          THEN [ledger[k] EXCEPT !.evaluated = TRUE] ELSE ledger[k]
  BY DEF CommitEvaluation
<1>6. PICK s \in Students : s \in Population(r)
  BY <1>1 DEF Population
<1>7. \E k \in Key : k.course = r.course /\ k.day = r.day
                   /\ RosterView'[k].status # "none"
  <2>1. /\ KeyOf(s, r.course, r.day) \in Key
        /\ InRun(KeyOf(s, r.course, r.day), r)
    BY <1>1, <1>6, KeyOfType DEF InRun
  <2> QED
    BY <1>2, <1>3, <2>1
<1>8. RosterContract!Evaluate(r.course, r.day)
  BY <1>4, <1>5, <1>7 DEF RosterContract!Evaluate
<1> QED
  BY <1>1, <1>8 DEF RosterContract!Next

\* A commit of an override is one override of the contract.
LEMMA OverrideRefines ==
    ASSUME IInv, NEW o \in Overriders, CommitOverride(o)
    PROVE  RosterContract!Next
<1> DEFINE q == ov[o]
<1>1. /\ q.key \in Key /\ q.verdict \in {"present", "absent"}
      /\ q.verdict \in Status /\ q.reason \in Reasons
      /\ q.from \in {"none", "present", "absent", "excused"}
  BY DEF IInv, TypeInv, RosterTypeOK, WellFormed, CommitOverride, Request, Status
<1>2. records[q.key] \in Row
  BY <1>1 DEF IInv, TypeInv, RosterTypeOK
<1>3. RosterView' = [RosterView EXCEPT ![q.key] = [status |-> q.verdict,
                                                  notes |-> q.reason]]
  <2>1. /\ records'[q.key].status = q.verdict
        /\ records'[q.key].notes = q.reason
        /\ \A k \in Key : k # q.key => records'[k] = records[k]
    BY <1>1, <1>2, OverriddenRowType DEF CommitOverride, IInv, TypeInv, RosterTypeOK
  <2> QED
    BY <1>1, <2>1 DEF RosterView
<1>4. RosterContract!Override(q.key, q.verdict, q.reason, q.from)
  BY <1>3 DEF RosterContract!Override, CommitOverride
<1> QED
  BY <1>1, <1>4 DEF RosterContract!Next

\* Deleting a student is one removal of the contract.
LEMMA DeleteRefines ==
    ASSUME NEW s \in Students, DeleteStudent(s)
    PROVE  RosterContract!Next
<1>1. RosterView' = [k \in Key |-> IF k.student = s
                                  THEN [status |-> "none", notes |-> NoReason]
                                  ELSE RosterView[k]]
  BY DEF RosterView, DeleteStudent, NoRow
<1>2. RosterContract!Remove(s)
  BY <1>1 DEF RosterContract!Remove, RosterContract!NoEntry, DeleteStudent
<1> QED
  BY <1>2 DEF RosterContract!Next

\* Every step of the service is a step of the contract or leaves it alone.
LEMMA ContractStep ==
    IInv /\ [Next]_vars => [RosterContract!Next]_<<RosterView, ledger>>
<1> SUFFICES ASSUME IInv, [Next]_vars
             PROVE  RosterContract!Next \/ UNCHANGED <<RosterView, ledger>>
  OBVIOUS
<1>1. UNCHANGED <<records, ledger>> => UNCHANGED <<RosterView, ledger>>
  BY DEF RosterView
<1>2. ASSUME NEW e \in Evaluators, CommitEvaluation(e) PROVE RosterContract!Next
  BY <1>2, EvaluationRefines
<1>3. ASSUME NEW o \in Overriders, CommitOverride(o) PROVE RosterContract!Next
  BY <1>3, OverrideRefines
<1>4. ASSUME NEW s \in Students, DeleteStudent(s) PROVE RosterContract!Next
  BY <1>4, DeleteRefines
<1>5. ASSUME NEW e \in Evaluators,
             EvaluatorStep(e) \/ FailEvaluation(e) \/ LoseRun(e), ~CommitEvaluation(e)
      PROVE  UNCHANGED <<records, ledger>>
  BY <1>5 DEF EvaluatorStep, StartRun, RequireCourse, CountSightings, ReadStatuses,
              RejectEvaluation, FailEvaluation, LoseRun
<1>6. ASSUME NEW o \in Overriders, Overriding(o), ~CommitOverride(o)
      PROVE  UNCHANGED <<records, ledger>>
  BY <1>6 DEF Overriding, BeginOverride, CheckOverride, SelectPrevious, FailOverride
<1>7. ASSUME \/ \E k \in Key : CheckSighting(k) \/ InsertSighting(k) \/ FailSighting(k)
             \/ \E c \in Courses, d \in Days : LogUnmatched(c, d)
             \/ \E s \in Students : ToggleStudent(s)
             \/ \E c \in Courses : ToggleCourse(c)
             \/ Midnight
             \/ UNCHANGED vars
      PROVE  UNCHANGED <<records, ledger>>
  BY <1>7 DEF CheckSighting, InsertSighting, FailSighting, LogUnmatched, ToggleStudent, ToggleCourse, Midnight, vars
<1> QED
  BY <1>1, <1>2, <1>3, <1>4, <1>5, <1>6, <1>7 DEF Next

\* The service, with all its runs, requests and failures, changes the roster
\* and its evidence only as the contract says.
THEOREM Refinement == Spec => ImplementsRoster
<1>1. Spec => RosterContract!Init /\ [][RosterContract!Next]_<<RosterView, ledger>>
  BY ContractInit, ContractStep, Safety, PTL DEF Spec
<1> QED
  BY <1>1 DEF ImplementsRoster, RosterContract!Spec

-----------------------------------------------------------------------------
(* One evaluation at a time.                                               *)

\* With one worker nothing but that worker's own commit raises a count, so what
\* it has counted is never less than what the row says.
AheadOfRows ==
    \A e \in Evaluators : ev[e].phase \in {"counted", "read"} =>
        \A s \in Students : LET k == KeyOf(s, ev[e].course, ev[e].day)
                            IN  records[k].status # "none"
                                  => records[k].count <= ev[e].counts[s]

SerialInv == IInv /\ AheadOfRows

\* One worker stays ahead of the rows it will write.
LEMMA SerialStep ==
    ASSUME \A e, x \in Evaluators : e = x
    PROVE  SerialInv /\ [Next]_vars => SerialInv'
<1> SUFFICES ASSUME SerialInv, [Next]_vars PROVE AheadOfRows'
  BY SafetyStep DEF SerialInv
<1> USE DEF SerialInv
<1>1. RosterTypeOK /\ RosterTypeOK' /\ WellFormed /\ RosterInv
  BY SafetyStep DEF IInv, TypeInv
<1>2. ASSUME NEW e \in Evaluators, ev[e].phase \in {"counted", "read"},
             NEW s \in Students
      PROVE  /\ KeyOf(s, ev[e].course, ev[e].day) \in Key
             /\ ev[e].counts[s] \in Nat
  BY <1>1, <1>2, KeyOfType DEF RosterTypeOK, WellFormed, Run
<1> DEFINE NotRaised(k) == \/ records'[k].status = "none"
                           \/ records'[k].count = 0
                           \/ /\ records'[k].count = records[k].count
                              /\ records[k].status # "none"
<1>3. ASSUME \A k \in Key : NotRaised(k),
             \A e \in Evaluators : \/ ev'[e] = ev[e]
                                  \/ ev'[e].phase \notin {"counted", "read"}
      PROVE  AheadOfRows'
  BY <1>2, <1>3 DEF AheadOfRows
<1>4. ASSUME UNCHANGED records,
             \A e \in Evaluators : \/ ev'[e] = ev[e]
                                  \/ ev'[e].phase \notin {"counted", "read"}
      PROVE  AheadOfRows'
  <2>1. \A k \in Key : NotRaised(k)
    BY <1>4
  <2> HIDE DEF NotRaised
  <2> QED
    BY <1>3, <1>4, <2>1
<1>5. ASSUME NEW e \in Evaluators, CountSightings(e) PROVE AheadOfRows'
  <2>1. /\ ev[e].course \in Courses /\ ev[e].day \in Days
        /\ ev \in [Evaluators -> Run] /\ ev[e] \in Run
    BY <1>1, <1>5 DEF CountSightings, RosterTypeOK, WellFormed, Run
  <2>2. /\ ev'[e].course = ev[e].course /\ ev'[e].day = ev[e].day
        /\ ev'[e].counts = SightingCounts(ev[e])
        /\ records' = records
    BY <1>5, <2>1 DEF CountSightings, Run
  <2>3. ASSUME NEW s \in Students
        PROVE  LET k == KeyOf(s, ev[e].course, ev[e].day)
               IN  records[k].status # "none" => records[k].count <= ev'[e].counts[s]
    BY <1>1, <2>1, <2>2, KeyOfType DEF RosterInv, VerdictIsExplained, SightingCounts
  <2>4. \A x \in Evaluators : x = e
    OBVIOUS
  <2> QED
    BY <2>2, <2>3, <2>4 DEF AheadOfRows
<1>6. ASSUME NEW e \in Evaluators, ReadStatuses(e) PROVE AheadOfRows'
  <2>1. ev \in [Evaluators -> Run] /\ ev[e] \in Run
    BY <1>1 DEF RosterTypeOK
  <2>2. /\ records' = records
        /\ ev[e].phase = "counted"
        /\ \/ ev'[e] = NextCourse(ev[e])
           \/ /\ ev'[e].course = ev[e].course /\ ev'[e].day = ev[e].day
              /\ ev'[e].counts = ev[e].counts
    <3> DEFINE run == [ev[e] EXCEPT !.phase = "read",
                                    !.statuses = ExistingStatuses(ev[e])]
    <3>1. /\ run.course = ev[e].course /\ run.day = ev[e].day
          /\ run.counts = ev[e].counts
      BY <2>1 DEF Run
    <3>2. /\ records' = records /\ ev[e].phase = "counted"
          /\ ev'[e] = NextCourse(ev[e]) \/ ev'[e] = run
      BY <1>6, <2>1 DEF ReadStatuses
    <3> QED
      BY <3>1, <3>2
  <2>3. NextCourse(ev[e]).phase \notin {"counted", "read"}
    BY <2>1, NextCourseType
  <2>4. \A x \in Evaluators : x = e
    OBVIOUS
  <2> QED
    BY <2>2, <2>3, <2>4 DEF AheadOfRows
<1>7. ASSUME NEW e \in Evaluators, CommitEvaluation(e) PROVE AheadOfRows'
  <2>1. ev'[e].phase \notin {"counted", "read"}
    BY <1>1, <1>7, NextCourseType DEF CommitEvaluation, RosterTypeOK
  <2>2. \A x \in Evaluators : x = e
    OBVIOUS
  <2> QED
    BY <2>1, <2>2 DEF AheadOfRows
<1>8. ASSUME NEW o \in Overriders, CommitOverride(o) PROVE AheadOfRows'
  <2>1. /\ ov[o] \in Request /\ ov[o].key \in Key /\ ov[o].verdict \in Status
        /\ ov[o].reason \in Reasons \cup {NoReason} /\ records[ov[o].key] \in Row
    BY <1>1, <1>8 DEF CommitOverride, RosterTypeOK, WellFormed, Request
  <2>2. records' = [records EXCEPT ![ov[o].key] =
                      OverriddenRow(records[ov[o].key], ov[o].verdict, ov[o].reason)]
    BY <1>8 DEF CommitOverride
  <2>3. ASSUME NEW k \in Key PROVE NotRaised(k)
    <3>1. CASE k = ov[o].key
      BY <1>1, <2>1, <2>2, <3>1, OverriddenRowType DEF RosterTypeOK
    <3>2. CASE k # ov[o].key
      <4>1. records'[k] = records[k]
        BY <1>1, <2>2, <3>2 DEF RosterTypeOK
      <4>2. records[k].status = "none" \/ records[k].status # "none"
        OBVIOUS
      <4> QED
        BY <4>1, <4>2
    <3> QED
      BY <3>1, <3>2
  <2>4. ev' = ev
    BY <1>8 DEF CommitOverride
  <2> HIDE DEF NotRaised
  <2> QED
    BY <1>3, <2>3, <2>4
<1>9. ASSUME NEW s \in Students, DeleteStudent(s) PROVE AheadOfRows'
  <2>1. ASSUME NEW k \in Key PROVE NotRaised(k)
    <3>1. records'[k] = NoRow \/ records'[k] = records[k]
      BY <1>9 DEF DeleteStudent
    <3> QED
      BY <3>1 DEF NoRow
  <2>2. ev' = ev
    BY <1>9 DEF DeleteStudent
  <2> HIDE DEF NotRaised
  <2> QED
    BY <1>3, <2>1, <2>2
<1>10. ASSUME NEW e \in Evaluators,
              \/ StartRun(e) \/ (\E c \in Courses : RequireCourse(e, c))
              \/ RejectEvaluation(e) \/ FailEvaluation(e) \/ LoseRun(e)
       PROVE  AheadOfRows'
  <2>1. records' = records
    BY <1>10 DEF StartRun, RequireCourse, RejectEvaluation, FailEvaluation, LoseRun
  <2>2. ASSUME NEW c \in Courses
        PROVE  NextCourse([ev[e] EXCEPT !.course = c]).phase \notin {"counted", "read"}
    <3>1. ev[e] \in Run
      BY <1>1 DEF RosterTypeOK
    <3>2. [ev[e] EXCEPT !.course = c] \in Run
      BY <3>1 DEF Run
    <3> QED
      BY <3>2, NextCourseType
  <2>3. ASSUME NEW x \in Evaluators, x # e PROVE ev'[x] = ev[x]
    BY <2>3
  <2>4. ev'[e].phase \notin {"counted", "read"}
    <3>1. ev \in [Evaluators -> Run] /\ ev[e] \in Run
      BY <1>1 DEF RosterTypeOK
    <3>2. CASE StartRun(e)
      BY <3>1, <3>2 DEF StartRun, Run
    <3>3. ASSUME NEW c \in Courses, RequireCourse(e, c)
          PROVE  ev'[e].phase \notin {"counted", "read"}
      <4> DEFINE run == [ev[e] EXCEPT !.phase = "required", !.course = c]
      <4>1. run.phase = "required"
        BY <3>1 DEF Run
      <4>2. ev'[e] = run \/ ev'[e] = NextCourse([ev[e] EXCEPT !.course = c])
        BY <3>1, <3>3 DEF RequireCourse
      <4> QED
        BY <2>2, <4>1, <4>2
    <3>4. CASE RejectEvaluation(e) \/ FailEvaluation(e)
      BY <3>1, <3>4, NextCourseType DEF RejectEvaluation, FailEvaluation
    <3>5. CASE LoseRun(e)
      BY <3>1, <3>5 DEF LoseRun, IdleRun
    <3> QED
      BY <1>10, <3>2, <3>3, <3>4, <3>5
  <2> QED
    BY <1>4, <2>1, <2>3, <2>4
<1>11. ASSUME NEW o \in Overriders, Overriding(o), ~CommitOverride(o) PROVE AheadOfRows'
  BY <1>4, <1>11 DEF Overriding, BeginOverride, CheckOverride, SelectPrevious, FailOverride
<1>12. CASE \/ \E k \in Key : CheckSighting(k) \/ InsertSighting(k) \/ FailSighting(k)
            \/ \E c \in Courses, d \in Days : LogUnmatched(c, d)
            \/ \E s \in Students : ToggleStudent(s)
            \/ \E c \in Courses : ToggleCourse(c)
            \/ Midnight
            \/ UNCHANGED vars
  BY <1>4, <1>12 DEF CheckSighting, InsertSighting, FailSighting, LogUnmatched, ToggleStudent, ToggleCourse,
                     Midnight, vars
<1> QED
  BY <1>5, <1>6, <1>7, <1>8, <1>9, <1>10, <1>11, <1>12 DEF Next, EvaluatorStep

\* A step of the one worker, or of anybody else, never lowers the count of a row.
LEMMA CountStepMonotone ==
    SerialInv /\ [Next]_vars
      => \A k \in Key : records'[k].status # "none" => records'[k].count >= records[k].count
<1> SUFFICES ASSUME SerialInv, [Next]_vars, NEW k \in Key, records'[k].status # "none"
             PROVE  records'[k].count >= records[k].count
  OBVIOUS
<1>1. RosterTypeOK /\ WellFormed /\ RosterInv /\ records[k].count \in Nat
  BY DEF SerialInv, IInv, TypeInv, RosterTypeOK, Row
<1>2. CASE records' = records
  BY <1>1, <1>2
<1>3. ASSUME NEW e \in Evaluators, CommitEvaluation(e) PROVE records'[k].count >= records[k].count
  <2> DEFINE r == ev[e]
  <2>1. CASE InRun(k, r)
    <3>1. /\ k.student \in Students /\ k = KeyOf(k.student, r.course, r.day)
          /\ r.counts \in [Students -> Nat] /\ r.statuses \in [Students -> Status]
          /\ records[k] \in Row /\ r.phase = "read"
      BY <1>1, <1>3, <2>1, KeyOfKey DEF InRun, RosterTypeOK, Run, CommitEvaluation
    <3>2. records'[k] = EvaluatedRow(records[k], r.counts[k.student], r.statuses[k.student])
      BY <1>3, <2>1 DEF CommitEvaluation
    <3>3. records'[k].count = r.counts[k.student]
      BY <3>1, <3>2, EvaluatedRowType
    <3>4. records[k].status # "none" => records[k].count <= r.counts[k.student]
      BY <3>1 DEF SerialInv, AheadOfRows
    <3>5. records[k].status = "none" => records[k].count = 0
      BY <1>1 DEF RosterInv, AbsentRows
    <3> QED
      BY <1>1, <3>1, <3>3, <3>4, <3>5
  <2>2. CASE ~InRun(k, r)
    BY <1>1, <1>3, <2>2 DEF CommitEvaluation
  <2> QED
    BY <2>1, <2>2
<1>4. ASSUME NEW o \in Overriders, CommitOverride(o) PROVE records'[k].count >= records[k].count
  <2>1. /\ ov[o].key \in Key /\ ov[o].verdict \in Status
        /\ ov[o].reason \in Reasons \cup {NoReason} /\ records[ov[o].key] \in Row
    BY <1>1, <1>4 DEF CommitOverride, RosterTypeOK, WellFormed, Request
  <2>2. records' = [records EXCEPT ![ov[o].key] =
                      OverriddenRow(records[ov[o].key], ov[o].verdict, ov[o].reason)]
    BY <1>4 DEF CommitOverride
  <2>3. records[k].status = "none" => records[k].count = 0
    BY <1>1 DEF RosterInv, AbsentRows
  <2> QED
    BY <1>1, <2>1, <2>2, <2>3, OverriddenRowType DEF RosterTypeOK
<1>5. ASSUME NEW s \in Students, DeleteStudent(s) PROVE records'[k].count >= records[k].count
  BY <1>1, <1>5 DEF DeleteStudent, NoRow
<1>6. CASE /\ \A e \in Evaluators : ~CommitEvaluation(e)
           /\ \A o \in Overriders : ~CommitOverride(o)
           /\ \A s \in Students : ~DeleteStudent(s)
  <2>1. records' = records
    BY <1>6 DEF Next, EvaluatorStep, Overriding, CheckSighting, InsertSighting, FailSighting,
         LogUnmatched, StartRun,
         RequireCourse, CountSightings, ReadStatuses, RejectEvaluation, FailEvaluation,
         LoseRun, BeginOverride, CheckOverride, SelectPrevious, FailOverride, ToggleStudent,
         ToggleCourse, Midnight, vars
  <2> QED
    BY <1>2, <2>1
<1> QED
  BY <1>3, <1>4, <1>5, <1>6

\* With one worker the count of a row never goes down while the row exists.
THEOREM SerialCountsNeverRegress ==
    ASSUME \A e, x \in Evaluators : e = x
    PROVE  Spec => CountsNeverRegress
<1>1. Init => SerialInv
  BY SafetyInit DEF SerialInv, AheadOfRows, Init, IdleRun
<1>2. SerialInv /\ [Next]_vars => SerialInv'
  BY SerialStep
<1>3. SerialInv /\ [Next]_vars
        => [\A k \in Key : records'[k].status # "none"
              => records'[k].count >= records[k].count]_vars
  BY CountStepMonotone
<1> QED
  BY <1>1, <1>2, <1>3, PTL DEF Spec, CountsNeverRegress

===============================================================================
