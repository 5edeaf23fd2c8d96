-------------------------------- MODULE Ingest --------------------------------
(***************************************************************************)
(* Asynchronous recognition: the API that accepts a batch and queues a     *)
(* task, the Celery workers that run the pipeline and log sightings, their *)
(* retries, redeliveries and deaths, the stored result and its owner.      *)
(*                                                                         *)
(* Source: backend/app/api/v1/inference.py, backend/app/worker/tasks.py,   *)
(* backend/app/worker/celery_app.py, orchestrator.py of the pipeline,      *)
(* log_sighting of backend/app/services/attendance_service.py              *)
(*                                                                         *)
(* A job is one request to enqueue.  Its message carries the number of     *)
(* retries; copies with the same number are counted.  A worker holds the   *)
(* message it works on until it acknowledges it, after the result is       *)
(* stored (task_acks_late).  Sightings are committed one by one; the check *)
(* of the student and the INSERT are two statements without a lock.        *)
(*                                                                         *)
(* What may fail does: the publish of a retry, the store of a result, a    *)
(* commit that takes effect without an answer, and the soft time limit,    *)
(* an exception that the handlers around the sightings may swallow.        *)
(***************************************************************************)
EXTENDS Triton, Pipeline

CONSTANTS
    Jobs,           \* requests to enqueue, each made once
    Students,
    Batches,        \* the batches a client may send
    MaxFrameBytes,  \* ATTENDANCE_MAX_FRAME_BYTES
    MaxBatchBytes,  \* ATTENDANCE_MAX_BATCH_BYTES
    Yolo, Lvface,   \* the two models
    MaxRetries,     \* max_retries of the task
    MaxFaces,       \* bound: faces of a batch
    MaxTroubles     \* bound: failures of the API, the database or a worker

Unknown == "unknown"

ASSUME IngestAssumption ==
    /\ Models = {Yolo, Lvface}
    /\ Unknown \notin Students
    /\ MaxRetries \in Nat /\ MaxTroubles \in Nat /\ MaxFaces \in Nat
    /\ \A b \in Batches : \E n \in 0 .. MaxFaces : DOMAIN Faces(b.frames) = 1 .. n

VARIABLES
    request,        \* where the request that enqueues a job is
    batch,          \* what it sent
    owner,          \* the key inference_task:owner
    audited,        \* jobs with an INFERENCE_ENQUEUED row
    queue,          \* messages of a job by number of retries
    result,         \* the result backend
    work,           \* what a worker is doing
    rows,           \* sightings committed for each face of a job
    ended,          \* jobs whose outcome a worker has stored
    active,         \* active students with a template
    late,           \* history: sightings a worker has committed of a student who
                    \* was no longer active
    uncertain,      \* history: jobs whose logging met a failure
    forsaken,       \* history: jobs whose retry could not be sent, or whose start
                    \* or outcome could not be stored
    losses,         \* workers that died with a message
    timeouts,       \* deliveries cut off by the time limits
    troubles        \* other failures

apiVars == <<request, batch, owner, audited>>
taskVars == <<queue, result, work, rows, ended>>
historyVars == <<late, uncertain, forsaken>>
vars == <<tritonVars, apiVars, taskVars, active, historyVars, losses, timeouts, troubles>>
boundVars == <<losses, timeouts, troubles>>

NoBatch == [frames |-> <<>>, course |-> FALSE, bytes |-> <<>>]
Idle == [phase |-> "idle"]
NoResult == [state |-> "PENDING", logged |-> 0]
Settled == {"SUCCESS", "FAILURE"}

\* One more than max_retries, so that a message too many would be seen.
Tries == 0 .. MaxRetries + 1

Init ==
    /\ TritonInit
    /\ request = [j \in Jobs |-> "none"]
    /\ batch = [j \in Jobs |-> NoBatch]
    /\ owner = [j \in Jobs |-> "none"]
    /\ audited = {}
    /\ queue = [j \in Jobs |-> [k \in Tries |-> 0]]
    /\ result = [j \in Jobs |-> NoResult]
    /\ work = [w \in Procs |-> Idle]
    /\ rows = [j \in Jobs |-> [f \in 1 .. MaxFaces |-> 0]]
    /\ ended = {}
    /\ active = Students
    /\ late = [w \in Procs |-> [s \in Students |-> 0]]
    /\ uncertain = {} /\ forsaken = {}
    /\ losses = 0 /\ timeouts = 0 /\ troubles = 0

InTrouble == losses + timeouts + troubles < MaxTroubles
Trouble == InTrouble /\ troubles' = troubles + 1 /\ UNCHANGED <<losses, timeouts>>
TimeLimit == InTrouble /\ timeouts' = timeouts + 1 /\ UNCHANGED <<losses, troubles>>

----------------------------------------------------------------------------
(* The API *)

\* /stream checks its one frame, /batch every frame and their sum.
Bytes(b) == FoldFunction(+, 0, b.bytes)
Oversized(b) ==
    \/ \E i \in DOMAIN b.bytes : b.bytes[i] > MaxFrameBytes
    \/ Bytes(b) > MaxBatchBytes

Answer(j, a) == request' = [request EXCEPT ![j] = a]
Enqueued(j, k) == [queue EXCEPT ![j][k] = @ + 1]

Refuse(j, b) ==
    /\ request[j] = "none" /\ Oversized(b)
    /\ Answer(j, "refused")
    /\ UNCHANGED <<tritonVars, batch, owner, audited, taskVars, active, historyVars, boundVars>>

\* _enqueue_inference_batch
Enqueue(j, b) ==
    /\ request[j] = "none" /\ ~Oversized(b)
    /\ batch' = [batch EXCEPT ![j] = b]
    /\ queue' = Enqueued(j, 0)
    /\ Answer(j, "enqueued")
    /\ UNCHANGED <<tritonVars, owner, audited, result, work, rows, ended, active, historyVars,
                   boundVars>>

\* The broker cannot be reached: 503, and the message may have got through.
EnqueueFails(j, b) ==
    /\ request[j] = "none" /\ ~Oversized(b)
    /\ Trouble
    /\ batch' = [batch EXCEPT ![j] = b]
    /\ queue' \in {queue, Enqueued(j, 0)}
    /\ Answer(j, "unavailable")
    /\ UNCHANGED <<tritonVars, owner, audited, result, work, rows, ended, active, historyVars>>

\* _set_task_owner: a failure is logged and the request goes on.
SetTaskOwner(j) ==
    /\ request[j] = "enqueued"
    /\ Answer(j, "owned")
    /\ \/ owner' = [owner EXCEPT ![j] = "stored"] /\ UNCHANGED boundVars
       \/ Trouble /\ owner' = [owner EXCEPT ![j] = "lost"]
    /\ UNCHANGED <<tritonVars, batch, audited, taskVars, active, historyVars>>

\* emit with strict=False: a row that cannot be written is rolled back and forgotten.
EmitAdvisory(j) ==
    \/ audited' = audited \cup {j} /\ UNCHANGED boundVars
    \/ Trouble /\ UNCHANGED audited

\* The advisory audit row and the commit: a failed commit is a 500 although the job is queued.
Accept(j) ==
    /\ request[j] = "owned"
    /\ \/ Answer(j, "accepted") /\ EmitAdvisory(j)
       \/ Trouble /\ Answer(j, "error") /\ UNCHANGED audited
    /\ UNCHANGED <<tritonVars, batch, owner, taskVars, active, historyVars>>

\* /photo runs the pipeline in the request: it queues nothing and logs no sighting.
RecognizePhoto(j) ==
    /\ request[j] = "none"
    /\ \E outcome \in {"recognized", "unavailable", "error"} : Answer(j, outcome)
    /\ UNCHANGED <<tritonVars, batch, owner, audited, taskVars, active, historyVars, boundVars>>

OwnerLapses(j) ==
    /\ owner[j] = "stored" /\ request[j] = "accepted"
    /\ owner' = [owner EXCEPT ![j] = "lapsed"]
    /\ UNCHANGED <<tritonVars, request, batch, audited, taskVars, active, historyVars, boundVars>>

\* get_inference_task_status: what the user who enqueued the job, or another one, is told.
IsTaskOwner(j, enqueuer) == enqueuer /\ owner[j] = "stored"
StatusFor(j, enqueuer, admin) ==
    IF admin \/ IsTaskOwner(j, enqueuer) THEN result[j].state ELSE "404"

----------------------------------------------------------------------------
(* The result backend *)

\* A result that succeeded is never overwritten.  A result that expires is not followed.
Store(j, state, n) ==
    result' = IF result[j].state = "SUCCESS" THEN result
              ELSE [result EXCEPT ![j] = [state |-> state, logged |-> n]]

----------------------------------------------------------------------------
(* A delivery *)

Leave(w, phase) ==
    work' = [work EXCEPT ![w] = [@ EXCEPT !.phase = phase, !.asked = 0, !.faces = <<>>,
                                          !.next = 1, !.logged = 0]]

Delivery(phase, j, k) == [phase |-> phase, job |-> j, try |-> k, asked |-> 0,
                          faces |-> <<>>, next |-> 1, logged |-> 0]

\* A worker gets a message: the task is STARTED.
Take(w, j, k) ==
    /\ work[w] = Idle /\ queue[j][k] > 0
    /\ queue' = [queue EXCEPT ![j][k] = @ - 1]
    /\ work' = [work EXCEPT ![w] = Delivery("calls", j, k)]
    /\ Store(j, "STARTED", 0)
    /\ UNCHANGED <<tritonVars, apiVars, rows, ended, active, historyVars, boundVars>>

\* The task cannot be marked as STARTED: it is not run, and its message is acknowledged.
StartFails(w, j, k) ==
    /\ work[w] = Idle /\ queue[j][k] > 0
    /\ Trouble
    /\ queue' = [queue EXCEPT ![j][k] = @ - 1]
    /\ work' = [work EXCEPT ![w] = Delivery("ack", j, k)]
    /\ forsaken' = forsaken \cup {j}
    /\ UNCHANGED <<tritonVars, apiVars, result, rows, ended, active, late, uncertain>>

FacesOf == [b \in Batches |-> Faces(b.frames)]
Batch(w) == batch[work[w].job]
Frames(w) == Batch(w).frames
AskedFrames(w) == work[w].asked >= Len(Frames(w))
AskedAll(w) ==
    /\ AskedFrames(w)
    /\ work[w].asked > Len(Frames(w)) \/ FacesOf[Batch(w)] = <<>>

\* process_inference_batch: the detector for each frame, then the faces in one call.
AskTriton(w) ==
    /\ work[w].phase = "calls" /\ call[w].step \in {"idle", "done"}
    /\ ~AskedAll(w)
    /\ work' = [work EXCEPT ![w].asked = @ + 1]
    /\ Ask(w, IF AskedFrames(w) THEN Lvface ELSE Yolo)
    /\ UNCHANGED <<apiVars, queue, result, rows, ended, active, historyVars, boundVars>>

TritonAnswers(w) ==
    /\ work[w].phase = "calls"
    /\ Remote(w)
    /\ UNCHANGED <<apiVars, taskVars, active, historyVars, boundVars>>

\* _resolve_vector_matches: the templates of active students at this moment.
Matched(faces) ==
    [i \in DOMAIN faces |-> IF faces[i].person \in active THEN faces[i].person ELSE Unknown]

\* Without a course nothing is logged.
Match(w) ==
    /\ work[w].phase = "calls" /\ call[w].step = "done" /\ AskedAll(w)
    /\ work' = [work EXCEPT ![w].faces = IF Batch(w).course
                                           THEN Matched(FacesOf[Batch(w)]) ELSE <<>>,
                            ![w].phase = "log", ![w].asked = 0]
    /\ call' = [call EXCEPT ![w] = NoCall]
    /\ UNCHANGED <<serverReady, readyModels, apiVars, queue, result, rows, ended, active,
                   historyVars, boundVars>>

\* Any other failure of the pipeline ends the task: it is not among the retried errors.
MatchFails(w) ==
    /\ work[w].phase = "calls" /\ call[w].step = "done" /\ AskedAll(w)
    /\ Trouble
    /\ Leave(w, "failed")
    /\ call' = [call EXCEPT ![w] = NoCall]
    /\ UNCHANGED <<serverReady, readyModels, apiVars, queue, result, rows, ended, active,
                   historyVars>>

\* log_sighting for the next face, its checks: the student must exist and be active.
Logging(w) == work[w].phase = "log" /\ work[w].next <= Len(work[w].faces)
Face(w) == work[w].faces[work[w].next]

\* Mutant: the student found by the match is not looked up again.
MutantTrustTheMatch(s) == TRUE

Loggable(s) == s = Unknown \/ s \in active

CheckSighting(w) ==
    /\ Logging(w) /\ Loggable(Face(w))
    /\ work' = [work EXCEPT ![w].phase = "insert"]
    /\ UNCHANGED <<tritonVars, apiVars, queue, result, rows, ended, active, historyVars, boundVars>>

\* The INSERT and its commit, which do not look at is_active again.
Inserting(w) == work[w].phase = "insert"
Commit(w) ==
    /\ rows' = [rows EXCEPT ![work[w].job][work[w].next] = @ + 1]
    /\ late' = IF Face(w) \in Students \ active
                 THEN [late EXCEPT ![w][Face(w)] = @ + 1] ELSE late

\* The sighting the worker is at has been dealt with; n of it are counted.
Advance(w, n) ==
    work' = [work EXCEPT ![w] = [@ EXCEPT !.phase = "log", !.next = work[w].next + 1,
                                          !.logged = work[w].logged + n]]

LogSighting(w) ==
    /\ Inserting(w)
    /\ Commit(w)
    /\ Advance(w, 1)
    /\ UNCHANGED <<tritonVars, apiVars, queue, result, ended, active, uncertain, forsaken,
                   boundVars>>

\* The check refuses the student, or the foreign key does: inactive or gone.
Refused(w) == (Logging(w) \/ Inserting(w)) /\ ~Loggable(Face(w))

\* A failure while the sighting is logged, or the soft time limit, which is one more
\* exception there.  A commit that failed may have taken effect.
Upset(w) ==
    /\ Trouble \/ TimeLimit
    /\ uncertain' = uncertain \cup {work[w].job}
    /\ (Inserting(w) /\ Commit(w)) \/ UNCHANGED <<rows, late>>

\* Mutant: a sighting that cannot be written fails the whole task.
MutantSkipFails(w) ==
    /\ Logging(w) \/ Inserting(w)
    /\ \/ Refused(w) /\ UNCHANGED <<rows, late, uncertain, boundVars>>
       \/ Upset(w)
    /\ Leave(w, "failed")
    /\ UNCHANGED <<tritonVars, apiVars, queue, result, ended, active, forsaken>>

\* Mutant: a sighting that cannot be written sends the task again.
MutantSkipResends(w) ==
    /\ (Logging(w) \/ Inserting(w)) /\ work[w].try < MaxRetries
    /\ \/ Refused(w) /\ UNCHANGED <<rows, late, uncertain, boundVars>>
       \/ Upset(w)
    /\ queue' = Enqueued(work[w].job, work[w].try + 1)
    /\ Leave(w, "resent")
    /\ UNCHANGED <<tritonVars, apiVars, result, ended, active, forsaken>>

\* A refused or failed sighting is skipped, and never fails the task.
SkipSighting(w) ==
    /\ Logging(w) \/ Inserting(w)
    /\ \/ Refused(w) /\ UNCHANGED <<rows, late, uncertain, boundVars>>
       \/ Upset(w)
    /\ Advance(w, 0)
    /\ UNCHANGED <<tritonVars, apiVars, queue, result, ended, active, forsaken>>

\* A failure outside of log_sighting (the session cannot be opened or closed), or the soft
\* time limit there, ends the loop: "return 0", whatever has been committed.
AbandonSightings(w) ==
    /\ work[w].phase = "log" \/ Inserting(w)
    /\ Upset(w)
    /\ work' = [work EXCEPT ![w] = [@ EXCEPT !.phase = "log", !.next = Len(work[w].faces) + 1,
                                             !.logged = 0]]
    /\ UNCHANGED <<tritonVars, apiVars, queue, result, ended, active, forsaken>>

\* Mutant: the result counts the faces of the batch.
MutantStoreFaces(w) ==
    /\ work[w].phase = "log" /\ work[w].next > Len(work[w].faces)
    /\ Store(work[w].job, "SUCCESS", Len(work[w].faces))
    /\ ended' = ended \cup {work[w].job}
    /\ Leave(w, "ack")
    /\ UNCHANGED <<tritonVars, apiVars, queue, rows, active, historyVars, boundVars>>

StoreSuccess(w) ==
    /\ work[w].phase = "log" /\ work[w].next > Len(work[w].faces)
    /\ Store(work[w].job, "SUCCESS", work[w].logged)
    /\ ended' = ended \cup {work[w].job}
    /\ Leave(w, "ack")
    /\ UNCHANGED <<tritonVars, apiVars, queue, rows, active, historyVars, boundVars>>

\* Mutant: one retry more than max_retries.
MutantMayRetry(k) == k <= MaxRetries

MayRetry(k) == k < MaxRetries

\* autoretry_for: a Triton error sends the message again, with one retry more.
Resend(w) ==
    /\ work[w].phase = "calls" /\ call[w].step = "raised" /\ MayRetry(work[w].try)
    /\ queue' = Enqueued(work[w].job, work[w].try + 1)
    /\ Leave(w, "resent")
    /\ call' = [call EXCEPT ![w] = NoCall]
    /\ UNCHANGED <<serverReady, readyModels, apiVars, result, rows, ended, active, historyVars,
                   boundVars>>

\* The retry cannot be published: Celery rejects the message without requeueing it and
\* stores nothing.  The new message may have got through all the same.
ResendFails(w) ==
    /\ work[w].phase = "calls" /\ call[w].step = "raised" /\ MayRetry(work[w].try)
    /\ Trouble
    /\ \/ queue' = Enqueued(work[w].job, work[w].try + 1) /\ UNCHANGED forsaken
       \/ forsaken' = forsaken \cup {work[w].job} /\ UNCHANGED queue
    /\ Leave(w, "ack")
    /\ call' = [call EXCEPT ![w] = NoCall]
    /\ UNCHANGED <<serverReady, readyModels, apiVars, result, rows, ended, active, late, uncertain>>

StoreRetry(w) ==
    /\ work[w].phase = "resent"
    /\ Store(work[w].job, "RETRY", 0)
    /\ Leave(w, "ack")
    /\ UNCHANGED <<tritonVars, apiVars, queue, rows, ended, active, historyVars, boundVars>>

GiveUp(w) ==
    /\ work[w].phase = "calls" /\ call[w].step = "raised" /\ ~MayRetry(work[w].try)
    /\ Leave(w, "failed")
    /\ call' = [call EXCEPT ![w] = NoCall]
    /\ UNCHANGED <<serverReady, readyModels, apiVars, queue, result, rows, ended, active,
                   historyVars, boundVars>>

StoreFailure(w) ==
    /\ work[w].phase = "failed"
    /\ Store(work[w].job, "FAILURE", 0)
    /\ ended' = ended \cup {work[w].job}
    /\ Leave(w, "ack")
    /\ UNCHANGED <<tritonVars, apiVars, queue, rows, active, historyVars, boundVars>>

\* The result backend cannot be reached: the message is acknowledged without the state
\* it should have had, and unless a retry is on its way nothing more comes of the job.
StoreFails(w) ==
    /\ \/ work[w].phase = "log" /\ work[w].next > Len(work[w].faces)
       \/ work[w].phase \in {"failed", "resent"}
    /\ Trouble
    /\ forsaken' = IF work[w].phase = "resent" THEN forsaken
                   ELSE forsaken \cup {work[w].job}
    /\ Leave(w, "ack")
    /\ UNCHANGED <<tritonVars, apiVars, queue, result, rows, ended, active, late, uncertain>>

\* The message is acknowledged, after its result is stored.
Ack(w) ==
    /\ work[w].phase = "ack"
    /\ work' = [work EXCEPT ![w] = Idle]
    /\ UNCHANGED <<tritonVars, apiVars, queue, result, rows, ended, active, historyVars, boundVars>>

\* A time limit that ends the task: the soft one as an exception that nobody swallows, the
\* hard one with the process.  Whatever is committed by then stays.
TimesOut(w) ==
    /\ work[w].phase \in {"calls", "log", "insert"}
    /\ TimeLimit
    /\ Leave(w, "failed")
    /\ \/ call' = [call EXCEPT ![w] = NoCall] /\ UNCHANGED <<serverReady, readyModels>>
       \/ Restart(w)
    /\ UNCHANGED <<apiVars, queue, result, rows, ended, active, historyVars>>

\* Mutant: the message is acknowledged before the task runs.
MutantAckEarly(w) ==
    /\ work[w] # Idle
    /\ InTrouble /\ losses' = losses + 1 /\ UNCHANGED <<timeouts, troubles>>
    /\ work' = [work EXCEPT ![w] = Idle]
    /\ Restart(w)
    /\ UNCHANGED <<apiVars, queue, result, rows, ended, active, historyVars>>

\* task_reject_on_worker_lost and the visibility timeout: what was not acknowledged is
\* delivered again, whatever of it was done.
Lose(w) ==
    /\ work[w] # Idle
    /\ InTrouble /\ losses' = losses + 1 /\ UNCHANGED <<timeouts, troubles>>
    /\ queue' = Enqueued(work[w].job, work[w].try)
    /\ work' = [work EXCEPT ![w] = Idle]
    /\ Restart(w)
    /\ UNCHANGED <<apiVars, result, rows, ended, active, historyVars>>

----------------------------------------------------------------------------
(* The rest of the world *)

Deactivate(s) ==
    /\ s \in active
    /\ active' = active \ {s}
    /\ UNCHANGED <<tritonVars, apiVars, taskVars, historyVars, boundVars>>

----------------------------------------------------------------------------

Work(w) ==
    \/ \E j \in Jobs, k \in Tries : Take(w, j, k)
    \/ AskTriton(w) \/ TritonAnswers(w) \/ Match(w)
    \/ CheckSighting(w) \/ LogSighting(w) \/ SkipSighting(w) \/ StoreSuccess(w)
    \/ Resend(w) \/ StoreRetry(w) \/ GiveUp(w) \/ StoreFailure(w) \/ Ack(w)

Fault(w) ==
    \/ \E j \in Jobs, k \in Tries : StartFails(w, j, k)
    \/ MatchFails(w) \/ AbandonSightings(w) \/ ResendFails(w) \/ StoreFails(w)
    \/ TimesOut(w) \/ Lose(w)

Next ==
    \/ \E j \in Jobs, b \in Batches : Refuse(j, b) \/ Enqueue(j, b) \/ EnqueueFails(j, b)
    \/ \E j \in Jobs : SetTaskOwner(j) \/ Accept(j) \/ RecognizePhoto(j)
    \/ \E j \in Jobs : OwnerLapses(j)
    \/ \E w \in Procs : Work(w) \/ Fault(w)
    \/ \E s \in Students : Deactivate(s)

Spec == Init /\ [][Next]_vars

\* As long as there is work to do, some worker of the pool does it.
FairSpec == Spec /\ WF_vars(\E w \in Procs : Work(w))

----------------------------------------------------------------------------
(* Properties *)

Work_ == [phase : {"calls", "log", "insert", "resent", "failed", "ack"}, job : Jobs,
          try : 0 .. MaxRetries, asked : Nat, faces : Seq(Students \cup {Unknown}),
          next : Nat, logged : Nat]

\* Every variable has its type; in particular no message carries more retries than the
\* task allows.
TypeOK ==
    /\ TritonTypeOK
    /\ request \in [Jobs -> {"none", "refused", "unavailable", "enqueued", "owned",
                             "accepted", "error", "recognized"}]
    /\ batch \in [Jobs -> Batches \cup {NoBatch}]
    /\ owner \in [Jobs -> {"none", "stored", "lost", "lapsed"}]
    /\ audited \subseteq Jobs
    /\ queue \in [Jobs -> [Tries -> Nat]] /\ \A j \in Jobs : queue[j][MaxRetries + 1] = 0
    /\ result \in [Jobs -> [state : Settled \cup {"PENDING", "STARTED", "RETRY"},
                            logged : Nat]]
    /\ work \in [Procs -> Work_ \cup {Idle}]
    /\ rows \in [Jobs -> [1 .. MaxFaces -> Nat]]
    /\ ended \subseteq Jobs
    /\ active \subseteq Students
    /\ late \in [Procs -> [Students -> Nat]]
    /\ uncertain \subseteq Jobs /\ forsaken \subseteq Jobs
    /\ losses \in Nat /\ timeouts \in Nat /\ troubles \in Nat

Held(j) == \E w \in Procs : work[w] # Idle /\ work[w].job = j

\* A face is counted again only when a worker died with its message: retries of Triton
\* failures, skipped sightings and time limits never log a face twice.
ExtraRowsNeedLoss == \A j \in Jobs : \A f \in 1 .. MaxFaces : rows[j][f] <= 1 + losses

Sightings(j) == UNION {{f} \X (1 .. rows[j][f]) : f \in 1 .. MaxFaces}
RowsOf(j) == Cardinality(Sightings(j))

\* The sightings_logged of a successful task never claims a sighting that was not committed,
\* through any failures, deaths and redeliveries; and it is their exact number unless a worker
\* died, or a failure or the soft time limit met the logging, after which it may be too small
\* ("return 0", a commit without an answer).
SuccessCountsRows ==
    \A j \in Jobs : result[j].state = "SUCCESS" =>
        /\ result[j].logged <= RowsOf(j)
        /\ losses = 0 /\ j \notin uncertain => result[j].logged = RowsOf(j)

\* A task reported as failed has logged nothing, unless it was cut off or delivered twice:
\* sightings that cannot be written do not fail a pipeline that succeeded.
FailureLoggedNothing ==
    \A j \in Jobs :
        losses = 0 /\ timeouts = 0 /\ result[j].state = "FAILURE" => RowsOf(j) = 0

\* A job that was accepted or audited is lost only by the broker refusing its retry or the
\* result backend refusing its state: otherwise it is queued, in a worker's hands or its outcome was
\* stored; and who sent it can follow it unless its owner key was not written or ran out.
AcceptedCanBeFollowed ==
    \A j \in Jobs :
        request[j] = "accepted" \/ j \in audited =>
            /\ \/ \E k \in Tries : queue[j][k] > 0
               \/ Held(j)
               \/ j \in ended
               \/ j \in forsaken
            /\ StatusFor(j, TRUE, FALSE) # "404" \/ owner[j] \in {"lost", "lapsed"}

\* The student is looked up for every sighting, not once per batch: of a student who was
\* deactivated a worker commits at most the one sighting it was between check and INSERT of,
\* however many faces of the batch show the student and however often it is delivered.
OneLateSighting == \A w \in Procs, s \in Students : late[w][s] <= 1

\* Every job that was accepted comes to an outcome, through any retries and deaths, unless
\* its retry could not be sent or its state could not be stored.
JobsSettle == \A j \in Jobs : request[j] = "accepted" ~> j \in ended \cup forsaken

=============================================================================
