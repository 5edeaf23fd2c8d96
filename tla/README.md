# Attendance V3 in TLA+

This directory specifies the parts of Attendance V3 whose correctness depends on
the order in which browsers, requests, Celery tasks and command line tools touch the
same PostgreSQL rows, Redis keys, messages and files. Every definition is translated from the code; `PROJECT.json`
maps each one to the lines it stands for.

## 1. The system

Cameras and the browser send frames to a FastAPI backend, which queues them for a
Celery worker. The worker detects, tracks and matches faces against stored
templates (Triton runs the models) and logs one *sighting* per recognised face.
Celery beat fires an *evaluator* that turns the sightings of the current UTC day
into one roster row per (student, course, date), and a *retention sweep* that
destroys face templates. Instructors override roster rows, enroll faces and record
consent; a command line importer enrolls in bulk. Decisions leave rows in
`governance_logs`. Redis holds pub/sub channels, refresh-token and ticket keys,
task owners and connection counters.

### 1.1 Inventory

| Component | State it keeps | Operations | Meets others through | What makes it correct |
|---|---|---|---|---|
| Attendance aggregation and overrides (`services/attendance_service.py`, `worker/tasks.py`) | sightings, `class_session_records`, governance rows | `log_sighting`, evaluate, override, list, export | shared rows; the evaluator reads before it writes | every row is explained by ledger and sightings; excuses survive; rows settle |
| Templates, consent, retention (`api/v1/students.py`, `worker/tasks.py`) | students, `student_embeddings`, `template_audit_logs` | enroll/rotate, consent, deactivate, delete, sweep | row locks, foreign keys | archive once, never leave a pose bare, honour refusals, destroy only for a cause |
| Bulk importer (`scripts/import_enrollments.py`) | journal file, reports | roster snapshot, row loop, upsert, journal | the same template rows, its own journal | what the journal says was committed; reruns miss nothing, and import again only after a death or an unanswered commit |
| Governance audit (`services/audit_service.py`, `services/base.py`) | `governance_logs`, events queued on a service | strict and advisory emit, queue, drain | the caller's transaction | no mandatory change without its row |
| Authentication (`core/security.py`, `api/v1/auth.py`) | token pairs, the blocklist in Redis, `users` | login, refresh, logout, account changes | Redis `SET NX`, the cookies | a refresh token rotates once; refusals are recorded; logout revokes what it carried |
| Ingestion and queue (`api/v1/inference.py`, `worker/celery_app.py`) | tasks, owner keys | enqueue, run, retry, poll | broker redelivery, the pipeline, `sightings` | no accepted job is lost unless the broker or the result backend refuses it; owners see their results; sightings follow deliveries |
| Realtime (`api/v1/websockets.py`, `core/pubsub.py`) | tickets, connection counters, subscriptions | connect, admit, publish, disconnect | Redis counters and channels | counters cover the live connections and neither leak nor admit too many; events reach those who are served |
| Pipeline (`services/pipeline/`) | tracks, settings | detect, track, match, liveness | called by the ingestion task | every detection gets one track; faces of a frame never share one |
| Triton client (`infrastructure/triton/client.py`) | readiness cache | ready checks, infer, invalidate | called by the task and the importer | what a failure made doubtful is asked again |
| Users, health, admin, exports | users; none | CRUD, probes, CSV | rows of the others | |
| Frontend (`frontend/src`) | access token, refresh in flight, feed | API client, pages | HTTP, WebSocket | one refresh for all calls, every call settles; one socket per feed |
| Demo data, scripts, migrations | none at run time | one-shot | | |

### 1.2 Hard behaviours

* *Read, then write in another statement* (READ COMMITTED, no row lock): the
  evaluator's counts and statuses, the override's previous status, the consent
  gate, the sweep's count, the student's `is_active` before a sighting.
* *Dates that are not the order of the commits*: `created_at` of a governance row is
  `now()`, the start of its transaction, and the list of the rows is in that order.
* *Locks that find nothing to lock*: `SELECT .. FOR UPDATE` of a pose without an
  active template.
* *Overlap of the same task*: the evaluation interval may be as short as 60 s
  and the hard time limit of a task is 180 s.
* *Delivery at least once* (`task_acks_late`, `task_reject_on_worker_lost`): a
  worker that dies after some of its commits leaves a message that is delivered
  again, beside the retries the task asks for itself.
* *Several Redis commands for one decision*: a place in the realtime limiter is two
  `INCR`, two `EXPIRE` and up to two `DECR`, under a lock that orders only the
  handlers of one process.
* *Keys that expire*: the blocklist key of a refresh token, a ticket, a connection
  counter, the owner of a task.
* *Answers that do not arrive*: a refresh that the server committed and the
  browser never saw; an inconclusive `SET NX`; a `COMMIT` that took effect while its
  connection was lost.
* *Exceptions that are swallowed*: the handlers around the sightings catch `Exception`,
  and the soft time limit of Celery is one.
* *Failures of the queue itself*: a retry that cannot be published is rejected without
  requeue; a state that cannot be stored does not keep the message.
* *Cancellation*: a stream whose client is gone is cancelled, in its `finally` too.
* *A journal that is a file*: a line may be missing, whole without its newline, or
  torn, and a torn line takes the next one with it.
* *Partial failure*: one course's transaction, one of the sweep's two batches.
* *Time*: the UTC day a run belongs to, the retention horizon, token lifetimes.

`PROJECT.json` lists each hazard at its line with the properties aimed at it, or
the reason why none is yet.

## 2. Modules

| Module | What it is |
|---|---|
| `Attendance` | sightings, the evaluator statement by statement, overrides, student and course changes, worker loss, midnight |
| `Roster` | the contract of the roster: each step is one override, one evaluation, or one removal, with its governance row, in the order of the commits |
| `MCAttendance` | the excused rows and the symmetry of the workers for the runs |
| `AttendanceProof` | proofs about `Attendance`, and that it implements `Roster` |
| `Templates` | enrollment, importer, consent, students, and the retention sweep over one table of templates |
| `TemplatesProof` | proofs about `Templates` |
| `Sessions` | tokens, the blocklist, the account, and the browser with its shared refresh |
| `SessionsProof` | proofs about `Sessions` |
| `Realtime` | the feed, its tickets and sockets, the limiter, the broadcast loop |
| `MCRealtime` | which attempt belongs to which feed, user and process |
| `RealtimeProof` | proofs about `Realtime` |
| `Triton` | the readiness caches of a Triton client and its attempts |
| `Pipeline` | detector rows to detections, tracks and faces, as functions |
| `Ingest` | enqueueing, the workers of the queue, retries, results; extends `Triton` and `Pipeline` |
| `MCIngest` | the batches, and the assumption `TracksAreSound` that evaluates the tracker |
| `IngestProof` | proofs about `Ingest`: which jobs may be lost, how late a sighting may be |
| `IngestCounts` | proofs about `Ingest` and `Triton`: types, rows, results, forgotten caches |
| `Importer` | the command line importer with its journal, run after run |
| `MCImporter` | a manifest, a folder and a refused header |
| `ImporterProof` | proofs about `Importer`: the journal is true |
| `ImporterCounts` | proofs about `Importer`: types, the report, the price of a reimport |

### 2.1 Attendance

| Variable | In the code |
|---|---|
| `sightings`, `unmatched` | rows of `sightings` per student, course, day; whether a course has sightings without a student |
| `records` | `class_session_records`; `NoRow` when there is none; `notes` is the override reason (the prefix is what makes an export row "overridden") |
| `arriving` | calls of `log_sighting` between their checks and their `INSERT` |
| `ledger` | the governance rows about a roster row in the order of the commits: the last `OVERRIDE_APPLY` and whether an `ATTENDANCE_EVALUATE` of that course and day came after it. Nobody can read this order |
| `listed` | the same as `list_events` shows it, ordered by `created_at`, the start of the transaction |
| `older`, `newer` | per open transaction, which open ones began before it, and which governance rows committed since are dated after it: what is needed of the dates to place its own row in the list |
| `disordered` | history: roster rows last written by a transaction that began before an override of the row and committed after it |
| `ev[e]` | one run of `_evaluate_daily_attendance` in worker slot `e`: its date, the courses left, the counts and statuses read |
| `ov[o]` | one request in `apply_manual_override` |
| `student`, `courseActive`, `today` | `Student.is_active` and existence, `Course.is_active`, the UTC date |
| `overrides`, `disturbances` | bounds only |

The evaluator is `StartRun` (select courses), then for each course
`RequireCourse`, `CountSightings`, `ReadStatuses` and `CommitEvaluation`; each
SELECT is an action because PostgreSQL takes a snapshot per statement. The upsert,
the governance row and the commit are one action: the rows are locked and
invisible until the commit. `RejectEvaluation` is the foreign key or a course that
cannot be evaluated, `FailEvaluation` a failing statement, `LoseRun` a lost
worker. An override is `BeginOverride` (the account is loaded by `get_current_user`
in the session of the request, and this first SELECT begins the transaction),
`CheckOverride`, `SelectPrevious`, `CommitOverride`. A sighting is `CheckSighting`, then
`InsertSighting` or `FailSighting`, because `_require_student` takes no lock.
Sightings may carry any day, because the capture time is the camera's.

A transaction of the evaluator begins at `RequireCourse`. `Begin`, `Publish` and `End`
keep `older` and `newer`; `ListEvaluation` and `ListOverride` put the row of a commit
where its date belongs: an evaluation that an override has overtaken is listed as older
than it, whatever it has written. Which of two evaluations is dated first is not kept,
because they say the same to a reader.
`ToggleCourse` is external: no code sets `Course.is_active`, an administrator
does. The same holds for rows stored as `excused` (constant `Excused`): nothing
in the code writes that status, the evaluator only keeps it.

### 2.2 Templates

| Variable | In the code |
|---|---|
| `template[t]` | a row of `student_embeddings`; `purged` and `removed` rows are gone, the state tells who took them |
| `archivals[t]` | `archived` rows of `template_audit_logs` about `t` |
| `consent`, `decisions` | `biometric_consent_status` and the CONSENT_* governance rows |
| `expired` | rows older than `ATTENDANCE_EMBEDDING_RETENTION_DAYS` |
| `wr[w]` | a request in `enroll_student_template`, or an importer process |
| `sw[x]` | a run of `_purge_expired_embeddings` |

A request passes its checks (`AdmitEnrollment`), waits for Triton with nothing
locked, starts `SELECT .. FOR UPDATE` (`SelectActives`), gets its locks
(`LockActives`) and commits (`CommitTemplate`). PostgreSQL fixes the candidate
rows when the statement starts and re-examines each of them when its lock is
granted; rows committed meanwhile are not seen. `StillActive` is that second look.
The DELETE of the sweep works the same way (`StartDelete`, `FinishDelete`). The
importer takes a snapshot of the active students once, never looks at consent, and
shares the last two actions. Deletion of a student cascades to its templates and
waits for the locks on them. A deadlock between a deletion and an insert ends with
PostgreSQL aborting one of them, which is `FailWrite` or a deletion that does not
happen.

### 2.3 Sessions

| Variable | In the code |
|---|---|
| `lastPair`, `born` | the token pairs minted so far and what each was rotated from; access and refresh token of a pair share a number |
| `keys`, `accessKeys`, `lapsed` | `blocklist:` keys in Redis, and those whose TTL ran out |
| `accessOver`, `closing`, `over` | tokens past `exp`, and refresh tokens in the last second of their life |
| `account`, `reused` | `users.is_active` or no row; committed REFRESH_REUSED rows |
| `jar`, `ui`, `retried` | the cookies, `AuthProvider`'s user, the interceptor's `_retry` |
| `at`, `kind`, `sent`, `reply` | where a request is, what it asks, the cookies it left with, its answer |
| `barred`, `stranded`, `unheard` | history: requests to an account that is off, pairs used up by a lost answer, replays refused without a record |

A refresh is `ValidateRefresh`, `CheckReplay`, `FindReplayer` (whose token it was, if the
account exists), `RecordReuse` (the audit row, committed before the 401), `LoadUser` and
`Claim` (`SET NX`, then the new pair, or the same row for the loser). A row that names an
account which was deleted since it was looked up violates the foreign key of
`actor_user_id`: the answer is 500 and there is no row (`ActorMissing`). Then there is a login,
`LoginReads` and `LoginMints`, and a logout, `ValidateLogout`, `RevokeAccess`,
`CheckRefresh`, `RevokeRefresh`, `FinishLogout`. Each is one await of the handler.
`Fail` is a failing statement or Redis call, `ClaimUnanswered` a `SET NX` that
took effect without an answer, `ReplayCheckFails` the second look at Redis
failing. `Deliver` gives an answer to the browser: a 401 makes the interceptor
start or join the shared refresh, and its outcome replays or ends every waiting
call. `LoseReply` loses an answer after the server finished. A blocklist TTL is
rounded down to seconds, so a key may lapse while its token lives its last second
(`LastSecond`, `KeyLapses`). `WriteUser` is what every change of an account is made of:
the row and its governance row in one transaction.

### 2.4 Realtime

A *socket* is one attempt to connect with its ticket, its client side and its
handler. `HeartbeatFeed.jsx` is `Mount`, `Unmount`, `TicketArrives`,
`TicketRefused`, `SocketCloses`, `RetryFires`; the generation counter of the
component is `current`, and only the current attempt may act. The handler is
`ConsumeTicket` (`GETDEL`), `TakeUser`, `TakeTotal`, `Reserve` or the two
`BackOut` actions, `Accept` or `StartStream`, `Leave`, `BeginRelease`, `DropUser`,
`DropTotal`. `CutOff` ends a stream whose client is gone without its release: the
response is cancelled before the generator was entered, or at an await of its `finally`
block, and `cutOff` remembers it. `lock` is the asyncio lock of each process. A counter key is absent,
or a number with or without a time to live, because `EXPIRE` is another command.
The broadcast loop of a process is `Broadcast` (the event leaves the subscription
and its recipients are copied), `SendTo`, `SendFails`, `LoopFails`,
`LoopSubscribes`; `Crash` takes a process with everything it holds.

### 2.5 Ingest, Triton, Pipeline

| Variable | In the code |
|---|---|
| `request`, `batch`, `owner`, `audited` | a POST to `/recognize/async`, what it sent, `inference_task:owner:{id}`, its INFERENCE_ENQUEUED row |
| `queue[j][k]` | messages of a job that carry `k` retries |
| `work[w]` | the delivery a worker holds until `Ack` |
| `result`, `ended` | the stored state of the task; jobs whose outcome was stored at least once |
| `rows[j][f]` | sightings committed for face `f` of job `j` |
| `late[w][s]` | history: sightings of `s` that worker `w` committed while `s` was inactive |
| `uncertain`, `forsaken` | history: jobs whose logging met a failure or the soft limit; jobs whose retry could not be published or whose state could not be stored |
| `serverReady`, `readyModels`, `call` | `_server_ready`, `_ready_models` and the operation in progress of a client |

A delivery is `Take`, the calls to Triton (`AskTriton`, `TritonAnswers`), `Match`,
then for each face `CheckSighting` (`_require_student`) and `LogSighting` (the INSERT and
its commit, a statement later and without a lock) or `SkipSighting`, then
`StoreSuccess` and `Ack`. A sighting is skipped when it is refused, or after any other
exception: then its commit may have taken effect all the same, and the exception may be
the soft time limit, which `except Exception` swallows (`Upset`). The same exception
outside of `log_sighting` is `AbandonSightings`: the result will say 0 whatever was
committed, as the docstring at `tasks.py:283` has it. A transient failure is `Resend` (the retry is published
*before* the state RETRY is stored, `StoreRetry`), and the last one `GiveUp` and
`StoreFailure`. `ResendFails` is a retry that cannot be published: `Task.retry` rejects the
message without requeue and without a result (the new message may have got through).
`StartFails` and `StoreFails` are a result backend that refuses a state; the message is
acknowledged. `EmitAdvisory` is the governance row of the API, which may be lost
without the request failing. `TimesOut` is a time limit that ends the
task, the hard one or a soft one that nobody swallows, `Lose` the death of a worker, which
puts its message back. `Triton` runs inside this module: `TritonAnswers` is the
client's `Remote` step, which may succeed, refuse or fail transiently; the importer
uses the same client through its own retry counter. `Pipeline` computes what a batch is
recognised as; a box is an interval and a score an integer, since only thresholds
and distances matter.

### 2.6 Importer

`Start` loads the roster and the journal; each row is `RejectRow`, `ResumeRow`,
`DecodeRow`, `Extract` (or `TritonFails`, `ExtractionFails`), then
`SkipOccupied`, `Upsert`, `UpsertFails` (rolled back) or `UpsertUnanswered` (committed, but
the connection was lost and the run counts `db_errors`), then `AppendJournal`; `Finish` prints
the report and `Exit` ends the process. `Refuse` and bad headers end it before
anything is touched. `Die` kills it between any two steps, `DieInLine` inside a
journal line, either before its end (`whole` is false) or just before its newline.
`store` is the history of committed templates, `journal` the lines of the file, `mishaps`
counts deaths, deaths inside a line and unanswered commits.
`Parse` does what the two readers do, with one input for each kind of bad line: the rows
are the good lines in file order (`InOrder`), everything else is counted. It and
`Copies` are written over sets of line numbers, so that they can be reasoned about.
`Extraction` is the outcome of the pipeline for a photo, in the order of its checks. How an
upsert overlaps with other writers is in `Templates`; here it is one step.

## 3. Runs

All bounds are constants that appear in guards. One student and one pose or course
are enough for the safety runs, because no statement relates rows of different
students or poses except through the sets the evaluator and the sweep range over;
the properties that are about several courses get two. The proofs of section 5
have no bounds.

| Run | Asks | Bounds | Result |
|---|---|---|---|
| `attendance_safety` | do overlapping runs, an override and one disturbance across midnight keep the roster explained, and does every step fit the contract? | 2 workers (symmetric), 1 request, 2 days, 1 sighting per day, threshold 1, one row excused from the start | holds, 530 458 states |
| `attendance_settles` | do the rows of the day reach the verdict of their sightings? | 2 workers, 2 courses of which one always fails, 1 override whose default threshold differs from the schedule's | holds, 415 356 states |
| `attendance_export` | does a row exported as overridden carry the override's verdict? | 1 student, 1 course, 1 evaluation worker, 1 overrider, 1 day, no excuse, threshold 2 (default 3), 2 sightings, 1 override, 1 disturbance | violated, see 4 |
| `templates_rotation` | are rotations exact and gated? | 1 request slot, 1 importer with `--overwrite`, 1 sweep, 3 templates (the third is needed to archive twice), 1 decision, 1 disturbance | holds, 267 137 states |
| `templates_retention` | does the sweep destroy only what it may and at last all it must? | the same without `--overwrite`, 2 templates, 2 decisions (grant, then refuse), 1 disturbance | holds, 107 913 states |
| `templates_two_active` | at most one active template of a pose? | 2 request slots | violated, see 4 |
| `templates_late_write` | no write without consent at the time of the write? | 1 request, 2 decisions | violated, see 4 |
| `templates_sweep_count` | does the sweep report what it deleted? | 1 sweep, 1 deletion of a student | violated, see 4 |
| `sessions` | what do rotation, replay records and logout guarantee when everything overlaps? | 2 calls that share a refresh, 1 request of `AuthProvider` beside them, 1 trouble | holds, 498 308 states |
| `realtime` | do counters and caps hold, and who gets an event? | 2 attempts of one feed in two processes, a stream of another user, both caps 1, 1 trouble, 1 event | holds, 520 222 states |
| `ingest` | do results, counts and rows agree with the deliveries? | 1 job, 2 workers, 3 kinds of batch, 1 retry of the task, 2 attempts of a call, 1 trouble | holds, 693 078 states |
| `importer` | is the journal true, and what does a rerun do? | a manifest of 9 lines, a folder of 5 files, a refused header; 1 retry, 2 troubles (a death and something else, or two deaths) | holds, 132 965 states |

A *trouble* is a fault or a change from outside: a failed step, a lost answer, a
death, an expired key, a deactivation. One is enough for the later runs because
each property names the single cause that excuses it; the importer gets two,
because its journal survives the process and the second death meets what the first
one left. Two calls are needed to share a refresh, two attempts of a feed to let a
late ticket meet a new generation, two workers to let a redelivery overlap with a
retry, and a cap of one to make every third connection meet it. `ingest` also
evaluates the assumption `TracksAreSound`: over all batches of up to three frames
with up to two faces, every detection gets one track, faces of a frame never share
one, and a track that goes on has moved by no more than the threshold.

Deadlock is not checked: with its bounds used up and nothing due, the system rests.

What the properties say and why they can fail:

* `LedgerExplainsRoster`: what an auditor sees in the list, newest first, accounts for
  the row: there is evidence for it, its notes are the reason of the newest
  OVERRIDE_APPLY, and its status that of the override unless an ATTENDANCE_EVALUATE is
  above it. The list is in the order of `created_at`, and the second half has the
  exception this makes necessary: a row last written by a transaction that began before
  an override of it and committed after it (`disordered`) need not agree with the list,
  until the next override that commits in order.
* `VerdictIsExplained`, `ExcusedUntilOverridden`: a run that read an old status or
  count may commit after an override, after another run, or after midnight. It may
  regress a count, yet the verdict follows from the row's own count, an excuse or the
  override that committed last.
* `ImplementsRoster`: refinement of `Roster` (status and notes of the row, and the
  governance rows, both in the order of the commits); a failing or lost run must not show
  half of its writes. It says nothing of the order in which the rows are listed.
* `EventuallySettled`: stale writes are repaired by later runs, in spite of the
  course that keeps failing. It is about the current day only, because a run
  looks at no other: what arrives after the last run of a day stays unaggregated.
* `ArchivedOnce`, `RotationLeavesActive`: the second look after a lock wait, in
  the presence of sweeps and deletions that take rows in between.
* `GrantedBeforeWritten`, `PurgedForCause`, `RefusalsAreHonoured`: what consent
  still guarantees although it is checked at another time than templates are
  written and destroyed.

* `RotatedOnce`, `KeyStopsRotation`: the look at the blocklist, the load of the
  user and `SET NX` are three awaits; only the last decides. The one exception is a
  key that ran out before its token.
* `RefusalIsRecorded`: the REFRESH_REUSED row must survive the 401 that follows
  it, which rolls back the request's own session; when the row cannot be written, because
  the account it names is gone, the answer is not a 401.
* `StrandedForCause`: the browser holds a used-up refresh token only while the
  answer with its successor is on the way or after it was lost. It would fail if
  the token were burnt before the user was loaded.
* `LogoutRevokesWhatItCarried`, `InactiveGetsNothing`: a logout races refreshes and
  expiry; an account is deactivated while requests that validated earlier go on.
* `CallsSettle`: the interceptor neither loops nor leaves a call waiting.
* `CountersCoverReservations`, `CapsHold`: relate two Redis keys to the handlers of
  all processes, command by command, as long as no counter key has run out; exact while
  nothing failed and no stream was cut off.
* `OneSocketPerFeed`, `RetryOnlyWhenDown`: remounts, retries and late tickets.
* `EventReachesAudience`: who was being served when an event was published is sent
  it or has gone. It fails, for instance, if the connection that starts the broadcast
  task is left out of the set the task sends to.
* `GoneIsReleased`: no handler outlives its client for ever; on the way it gives its
  reservation back (`CountersCoverReservations`), unless it fails or is a stream that was
  cut off.
* `ExtraRowsNeedLoss`, `SuccessCountsRows`, `FailureLoggedNothing`: nothing but the
  death of a worker logs a face twice; skipped sightings must neither fail nor
  resend a task that has already committed others. The count in a SUCCESS is never more
  than what is in the table, under any failure and death; it may be less, down to 0, after
  a death, or after a failure or the soft limit met the logging (`uncertain`).
* `AcceptedCanBeFollowed`, `JobsSettle`: late acknowledgement keeps the message until the
  outcome is stored. A job is lost only where the broker refuses its retry or the result
  backend its state (`forsaken`), and the run has both.
* `OneLateSighting`: every sighting looks the student up again, but the look and the
  INSERT are two statements. A deactivation fits between them once: after it a worker
  commits at most one sighting of the student, whatever batch or redelivery it works on.
  A worker that trusted the match of the batch would commit one per face.
* `ExhaustedIsForgotten`: a client that gave up after more than one attempt trusts
  nothing it had cached, so the next delivery asks the server again.
* `JournaledIsWritten`, `ReimportsHaveCauses`: the line is appended after the commit,
  so a death or an unanswered commit costs a reimport and never a photo.
* `CountsAddUp`: every row ends in exactly one counter of the report, and imported
  is what was committed and answered.
* `RerunsEnroll`: whatever fails or dies, reruns enroll every importable photo.

### Fairness

`attendance_settles` assumes weak fairness of each worker's step
(`WF_vars(EvaluatorStep(e))`): beat fires for ever, and a worker that has a
message goes on with it. `templates_retention` assumes weak fairness of each sweep
and of the end of a write (`WF_vars(Finishing(w))`), since a transaction that holds
locks commits or is rolled back. Nothing obliges anybody to enroll, decide,
override or look in particular order, and no fairness is put on failures. Liveness
runs use no symmetry.

The later runs assume one weak fairness each, of what an event loop or a pool owes:
`sessions`, that some handler continues or some answer is handled; `realtime`, that
some handler continues or some event is forwarded; `ingest`, that some worker of the
pool works while there is something to do (`WF_vars(\E w \in Procs : Work(w))`). None
obliges a particular request or worker: one that is stuck does not help the others,
and the bounds keep the others from going on for ever. `importer` assumes that a run
goes on, and that the operator who is able to rerun a batch again and again does so
(`SF_vars` of `Start`, because a run in progress disables it); `RerunsEnroll` is what
the operator gets for it, and without reruns the code promises nothing.

Each property of a passing run has a mutant in `PROJECT.json`: a change to one
mapped definition that a plausible bug would make (the definitions marked
`Mutant` in the modules) and that the run detects.

## 4. Where code and documentation differ

1. **An evaluation undoes an override but keeps its mark** (`attendance_export`).
   The upsert of the evaluator replaces the status of an overridden row and leaves
   its notes, so the export says `override_applied` beside the evaluator's verdict.
   The comment at `attendance_service.py:28-30` describes the prefixed row as the
   persisted override. Trace: an override to "present", then a run that finds fewer
   sightings than the threshold.
2. **Two active templates of one pose** (`templates_two_active`). With no active
   row, `FOR UPDATE` locks nothing and no unique index forbids a second row.
   Theorem `SerialOneActive` shows that this needs two writers at once.
3. **A template written after consent was withdrawn** (`templates_late_write`).
   The gate reads the status before the image goes to Triton. `RefusalsAreHonoured`
   shows that a later sweep destroys the template; `GrantedBeforeWritten` that
   there had been a grant.
4. **The sweep reports deletions that did not happen** (`templates_sweep_count`).
   `rowcount or candidate_count` returns the earlier count when nothing was left to
   delete; the docstring of `_delete_batch` says "returns the deleted count".

### Limits met while modelling

No run of its own shows these; they say how far the properties above go and why some
of them carry an exception.

* Attendance. Governance rows are dated by the start of their transaction
  (`models/_base.py:41-45`), so an evaluation that began before an override and committed
  after it is listed below the override it has undone. An auditor cannot tell this from
  the list. What remains is that the verdict follows from the count beside it in the row
  (`VerdictIsExplained`).
* Sessions. The loser of two refreshes whose account is deleted before its row is
  committed is answered 500, and the replay leaves no row. A blocklist key may be gone up to
  a second before its token, hence `lapsed` in the properties.
  A logout whose access token has expired is answered 401 and revokes
  nothing, while the page shows "signed out"; `LogoutRevokesWhatItCarried` is about
  answers of 200. A logout that overtakes a refresh leaves the refresh's new pair alive.
  `AuthProvider`'s refresh at start-up does not join the interceptor's shared one.
* Realtime. A stream whose client leaves may be cancelled before its `finally` block has
  released the reservation, and the counters stay too high by one: hence `cutOff`.
  The comment at `websockets.py:475-478` counts on the time to live for this, but a counter
  that is too high stays too high while new connections keep renewing its TTL; one whose
  key lapses under long connections is too low, and releases may then take the total below zero.
  Events between the accept and
  the subscription, and those a failed subscription had received, are lost: hence
  `faults = 0` and `owed` in `EventReachesAudience`.
* Ingest. RETRY is stored after the retry was published, so it may overwrite the outcome of
  the next delivery; `ended` is therefore about outcomes that were stored, not about
  the last state. The owner key starts to expire when the job is queued and the result
  when it ends, so a slow job may be 404 for its owner while its result exists. A
  template that is withdrawn between match and insert still yields a sighting: only the
  student's `is_active` is looked at again, and a deactivation between that look and the
  INSERT lets one more sighting in. A job whose retry cannot be published is dropped
  (`Reject(requeue=False)`), one whose outcome cannot be stored stays in the state it was
  last seen in; to the client both go on for ever. A soft time limit during the
  logging is swallowed with everything else, and the task goes on towards the hard one.
  `sightings_logged` is 0 after a failure outside of `log_sighting`, although rows were
  committed (`tasks.py:283` says so).
* Importer. A commit whose answer is lost is a `db_errors` row that a rerun imports again.
  The journal key has no pose, so a photo that stands for two poses is
  skipped for the second after a death between the two. A whole line without its newline is
  lost when the next one is appended, and a torn line takes the next with it, which is
  why `ReimportsHaveCauses` counts it twice; the module's docstring (lines 57-58)
  speaks of one more import. Without `--overwrite` such a row becomes `skipped_active_exists`
  and is not journaled again.

## 5. Proofs

`tlapm` proves these for all values of the constants, from the named assumptions
beside their declarations. They say that null values are distinct from real ones, that
bounds are natural numbers and caps and thresholds positive (`AttendanceAssumption`,
`TemplatesAssumption`, `SessionsAssumption`, `TritonAssumption`); that there are finitely
many sockets (`RealtimeAssumption`); that the faces of a batch are numbered from 1
and at most `MaxFaces` (`IngestAssumption`); and that inputs are finite files whose fields
are known poses and photos or one of the kinds of bad field (`ImporterAssumption`). TLC
evaluates them in the runs.

Every invariant and every action property of the passing runs is a theorem, and so is
the refinement `ImplementsRoster`.

**`AttendanceProof`**: `TypeCorrect`, `LedgerAlwaysExplains`,
`VerdictAlwaysExplained`, `ExcuseIsKept`, `Refinement`, `SerialCountsNeverRegress`.
The properties are not inductive by themselves: a commit is right only because of
what its run has read. The invariant `IInv` adds, for each run, that the counts it
carries do not exceed the persisted sightings and that, once it has read the rows,
it has read every excused and not overridden row as excused (`FaithfulRun`), and
that absent rows are empty (`AbsentRows`); `HistoryExplainsRoster` is the agreement
of row and governance rows in the order of the commits. `LedgerInv` carries it over to the
list: outside of the rows written out of order the list names the override that
committed last, the row has its status unless an evaluation is listed above it, and
an override by which an open transaction was overtaken is on the list (`Shown`). The proof
has any number of overlapping overrides and runs, while the run of TLC has one overrider.
`Refinement` maps initial states and each action to
the contract. `SerialCountsNeverRegress` says that a count never goes down while a
single worker evaluates; with two it does, and `EventuallySettled` is what remains.

**`TemplatesProof`**: `InvariantHolds`, `TypeCorrect`, `EachArchivedOnce`,
`NoPoseLeftBare`, `NoTemplateWithoutGrant`, `NothingPurgedWithoutCause`,
`SerialOneActive`. The invariant says that locks exclude each other
(`LocksExclude`), that locked rows are active rows of the writer's student and pose
and a request past the gate has a grant on the ledger (`GoodWriter`), that what a
sweep has marked has a cause that cannot go away (`GoodSweep`), and that a row's
archive entries match its state (`GoodTemplate`). Steps of a single writer and of a
single sweep are covered by one lemma each (`WriterStep`, `SweepStep`), and the
deletions of the sweep and of a student by `TakeInv`.

**`SessionsProof`**: `InvariantHolds`, `TypeCorrect`, `RotatesOnce`,
`KeyAlwaysStops`, `RefusalsAreRecorded`, `LogoutRevokes`, `InactiveGetNothing`,
`NobodyIsStranded`. `Ledger` says that the parent of every rotated pair has a key in the
blocklist or had one; `SingleUse` that two children need a lapsed key; `Good(r)` what each
phase of a request and its answer imply (a replay was seen, a logout has revoked what it
passed, a barred request is not past the load of its account); `Unseen` that a pair
whose answer has not arrived is in nobody's hands; `Numbered` that every pair in use has
been minted. Steps of the server, of
the browser and of the clock are separate lemmas, because the browser touches no token
and the server no cookie.

**`RealtimeProof`**: `TypeCorrect`, `FeedHasOneSocket`, `TimerNeedsNoSocket`,
`CountersCover`, `CapsAlwaysHold`, `AudienceIsReached`. `FeedInv` ties each open or asking attempt to its
feed's current generation. The counting argument is that every Redis command moves
one handler into or out of the set its counter counts (`Balanced`, by the
cardinality theorems, for a finite `Sockets`), that faults and streams cut off only make
a counter too high (`Counted`), and that whoever is past the limiter was within the cap when it was
counted (`Capped`). For the event, `AInv` says that while nothing failed every served
socket is in the broadcast set of its process, and a socket that is owed the event has
gone, or is served and either among the recipients still to be sent to or, unless it is
a stream, on a process with the event in its inbox. A broadcast that starts copies the
set and leaves none of the owed behind.

**`IngestProof`**: `NoJobIsLost`, `LogsOneLate`. The invariant says that an
accepted job is `Safe`: queued, ended, forsaken, or carried by a worker that has not yet
sent it on; a worker that has resent a message or only has to acknowledge it carries
nothing. `LateOK` says that nothing was late of an active student, and that a worker
which is about to insert a sighting of a student has inserted none of the student late: the
one INSERT in progress is the one that may still be late, because a new one needs the check.

**`IngestCounts`**: `GivenUpIsForgotten`, `TypesKept`, `RowsNeedLosses`,
`SuccessIsCounted`, `FailuresLogNothing`. `CallInv` follows the attempts of one operation
of a client: past the first attempt its caches are empty. `TInv` adds that a
delivery carries a number of retries the task allows and no more than `MaxFaces`
faces. `RowsNeedLosses` is not
inductive: a row is added although none is lost. What is inductive is the number of
*chances* left to log a face: the rows it has, the messages of its job and the workers
that may still reach the face together are at most one more than the deaths (`Chance`,
in `CountInv`). A retry turns a worker into a message, a commit a worker into a row, and
a death adds one on both sides. `ClaimInv` says that neither a worker nor a result ever
counts more than is in the table. `ToldInv` is for a queue without deaths: one message or
one worker speaks for a job (`Lone`), what the worker has counted is what is in the table
unless its logging met a failure, and nobody speaks after an outcome was stored, so the
outcome agrees with the rows.

**`ImporterProof`**: `JournalIsTrue`. The store only grows, a line is written
only when the row at the head is committed, and a torn line can lose keys but not
make one.

**`ImporterCounts`**: `ImporterTypes`, `ReportAddsUp`, `ReimportsArePaidFor`. `TInv` has
the types and `Balanced`: total is what the counters of the outcomes add up to plus the
rows still to come, and imported is what the store has gained since the process
started, less the commits without an answer. `ReimportsArePaidFor` is a budget. For each key (a student number and the
bytes of a photo), what one batch can write is `Copies`, and the budget is that much
for the first run, for each death, for each unanswered commit and for each torn line. `Sound`, which TLC checked on
the instance of `importer` before it was proved, says of each key that what was written,
and what may still be, fits the budget. Between runs that is a whole batch if the journal
does not name the key (`Unnamed`), and one more if it ends in a torn line, which takes the
next line with it (`Spoiled`): a torn line is paid for twice. During a run that may
import the key, either a whole batch still fits, or its line is in the journal or
in hand (`Vouched`) and what is `Left` of the run fits. The proofs need that the
good lines of a file can be put in order (`Enumerable`) and that a function on a finite set
has a greatest value (`GreatestOf`). The library's induction theorems take an operator and
cannot be used here, so both are proved from a least counterexample, by the
well-foundedness of `<` on the naturals and of inclusion in a finite set.

Only model-checked: the liveness properties (`EventuallySettled`, `RefusalsAreHonoured`,
`CallsSettle`, `GoneIsReleased`, `JobsSettle`, `RerunsEnroll`), because fairness is stated
with ENABLED, which the prover does not treat; `TracksAreSound`, which evaluates
the recursive functions of the tracker, whose values are beyond it; and the four
violations, which are traces.

## 6. Not modelled

Components listed as `not_modelled` or `partly` in `PROJECT.json` and, inside the
modelled ones:

* Reads that change nothing (`list_session_records`, template preview, coverage and
  gallery queries), the text of CSV and JSON, the `late` status, which no code writes,
  and the `from` of an OVERRIDE_APPLY row, which is carried in the ledger but about
  which nothing is claimed. Row locks inside one statement are taken together, so that
  a deadlock shows as an aborted transaction and not as a wait.
* Sessions: the creation of users, password hashing, claims and cookie attributes, a client
  that times out before the server has finished, the last second of access tokens.
* Realtime: heartbeats and the JSON of events. At most one event is published, because events
  of different sightings are independent.
* Ingest: the request schema and the rate limits. A held message is redelivered only
  when its worker is gone: a visibility timeout configured below the task's time limit
  would let two deliveries of one message run at once, and is not modelled. Nor is a
  message that a broker client publishes twice, because its acknowledgement was lost
  (`retry_on_timeout`, `celery_app.py:225-231`): it would log faces twice without a death,
  which `ExtraRowsNeedLoss` therefore does not exclude. A time limit during a commit is
  the commit followed by the limit. Students are deactivated and not activated again.
* Pipeline: preprocessing, embeddings, liveness scores, enrollment quality. They are
  numeric; the model keeps what is compared with a threshold. Liveness is not consulted
  when sightings are logged, so it would decide nothing in `Ingest`.
* Governance: the queue of events on `AsyncCRUDService` and the read API. What mandatory and
  advisory rows do to a transaction is part of the actions that emit them.
* Demo data, set-up scripts, infrastructure and migrations: each runs once, alone, and
  shares no state with the running system beyond rows that are modelled already.

## 7. Plan

Done: `Attendance` with `Roster`; `Templates`; `Sessions`; `Realtime`; `Ingest`
over `Triton` and `Pipeline`; `Importer`; and proofs of every safety property of the
passing runs. Left, in order of importance:

1. Lemmas about one step of the tracker (`Pipeline`): that a step of the fold gives each
   detection one track is first-order, although the value of the whole fold is not.
2. `GovernanceTx`: queued events, strict and advisory emission and rollback as a
   module of their own, which `Sessions` and `Attendance` would implement.
3. The visibility timeout of the broker and publishes that are repeated, as constants of
   `Ingest`.
4. Enrollment quality and liveness as functions over bounded inputs.
