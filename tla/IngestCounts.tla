----------------------------- MODULE IngestCounts -----------------------------
(***************************************************************************)
(* Proofs about what the workers of Ingest count and cache, for any number *)
(* of jobs, workers, retries, batches and failures: every variable keeps   *)
(* its type, a client that gave up trusts nothing it had cached, and the   *)
(* sightings of a job are counted by its result and multiplied by nothing  *)
(* but the death of a worker.                                              *)
(***************************************************************************)
EXTENDS IngestProof, FiniteSetTheorems

----------------------------------------------------------------------------
(* The Triton client *)

Forgotten ==
    \A p \in Procs : call[p].attempt > 1 => ~serverReady[p] /\ readyModels[p] = {}

CallInv == TritonTypeOK /\ Forgotten

LEMMA NoCallType == NoCall \in Call /\ NoCall.attempt = 1 /\ Yolo \in Models /\ Lvface \in Models
<1>1. Yolo \in Models /\ Lvface \in Models BY IngestAssumption
<1>2. (CHOOSE m \in Models : TRUE) \in Models BY <1>1
<1> QED BY <1>1, <1>2, TritonAssumption DEF NoCall, Call, Steps

\* A step of one client changes its own caches and its own call.
LEMMA ClientStep ==
    ASSUME CallInv, NEW p \in Procs, NEW c \in Call, NEW ready \in BOOLEAN,
           NEW models \in SUBSET Models,
           call' = [call EXCEPT ![p] = c],
           serverReady' = [serverReady EXCEPT ![p] = ready],
           readyModels' = [readyModels EXCEPT ![p] = models],
           c.attempt > 1 => ~ready /\ models = {}
    PROVE  CallInv'
<1>1. /\ call \in [Procs -> Call] /\ serverReady \in [Procs -> BOOLEAN]
      /\ readyModels \in [Procs -> SUBSET Models]
  BY DEF CallInv, TritonTypeOK
<1>2. TritonTypeOK' BY <1>1 DEF TritonTypeOK
<1>3. Forgotten' BY <1>1 DEF CallInv, Forgotten
<1> QED BY <1>2, <1>3 DEF CallInv

LEMMA CachesKept ==
    ASSUME CallInv, NEW p \in Procs, NEW c \in Call,
           call' = [call EXCEPT ![p] = c], UNCHANGED <<serverReady, readyModels>>,
           c.attempt > 1 => call[p].attempt > 1
    PROVE  CallInv'
<1>1. /\ call \in [Procs -> Call] /\ serverReady \in [Procs -> BOOLEAN]
      /\ readyModels \in [Procs -> SUBSET Models]
  BY DEF CallInv, TritonTypeOK
<1>2. TritonTypeOK' BY <1>1 DEF TritonTypeOK
<1>3. Forgotten' BY <1>1 DEF CallInv, Forgotten
<1> QED BY <1>2, <1>3 DEF CallInv

LEMMA AskStep ==
    ASSUME CallInv, NEW p \in Procs, NEW m \in Models, Ask(p, m)
    PROVE  CallInv'
<1> DEFINE c == [step |-> FirstStep(p, m), model |-> m, attempt |-> 1]
<1>1. c \in Call /\ ~(c.attempt > 1) BY TritonAssumption DEF FirstStep, Call, Steps
<1>2. call' = [call EXCEPT ![p] = c] BY DEF Ask
<1> HIDE DEF c
<1> QED BY <1>1, <1>2, CachesKept DEF Ask

LEMMA RestartStep == ASSUME CallInv, NEW p \in Procs, Restart(p) PROVE CallInv'
<1>1. PICK primed \in {{}, Models} : /\ serverReady' = [serverReady EXCEPT ![p] = primed # {}]
                                     /\ readyModels' = [readyModels EXCEPT ![p] = primed]
  BY DEF Restart
<1>2. PICK ready \in BOOLEAN : ready = (primed # {}) OBVIOUS
<1>3. primed \in SUBSET Models BY <1>1
<1>4. serverReady' = [serverReady EXCEPT ![p] = ready] BY <1>1, <1>2
<1>5. NoCall \in Call /\ ~(NoCall.attempt > 1) BY NoCallType
<1> QED BY <1>1, <1>3, <1>4, <1>5, ClientStep DEF Restart

LEMMA ForgetCall ==
    ASSUME CallInv, NEW p \in Procs, call' = [call EXCEPT ![p] = NoCall],
           UNCHANGED <<serverReady, readyModels>>
    PROVE  CallInv'
<1>1. NoCall \in Call /\ ~(NoCall.attempt > 1) BY NoCallType
<1> QED BY <1>1, CachesKept

LEMMA RemoteStep == ASSUME CallInv, NEW p \in Procs, Remote(p) PROVE CallInv'
<1> DEFINE c == call[p]
           At(step, n) == [c EXCEPT !.step = step, !.attempt = n]
<1>1. /\ call \in [Procs -> Call] /\ c \in Call
      /\ serverReady \in [Procs -> BOOLEAN] /\ readyModels \in [Procs -> SUBSET Models]
  BY DEF CallInv, TritonTypeOK
<1>2. ASSUME NEW step \in Steps, NEW n \in 1 .. MaxAttempts
      PROVE  At(step, n) \in Call /\ At(step, n).attempt = n
  BY <1>1 DEF Call
<1>3. \A step \in Steps : At(step, 1) \in Call /\ ~(At(step, 1).attempt > 1)
  <2>1. 1 \in 1 .. MaxAttempts BY TritonAssumption
  <2> HIDE DEF At
  <2> QED BY <1>2, <2>1
<1>4. c.attempt \in 1 .. MaxAttempts /\ c.model \in Models BY <1>1 DEF Call
<1>5. ASSUME NEW step \in Steps, call' = [call EXCEPT ![p] = At(step, 1)],
             NEW ready \in BOOLEAN, NEW models \in SUBSET Models,
             serverReady' = [serverReady EXCEPT ![p] = ready],
             readyModels' = [readyModels EXCEPT ![p] = models]
      PROVE  CallInv'
  <2>1. At(step, 1) \in Call /\ ~(At(step, 1).attempt > 1) BY <1>3
  <2> HIDE DEF At
  <2> QED BY <1>5, <2>1, ClientStep
<1>6. /\ serverReady = [serverReady EXCEPT ![p] = serverReady[p]]
      /\ readyModels = [readyModels EXCEPT ![p] = readyModels[p]]
      /\ serverReady[p] \in BOOLEAN /\ readyModels[p] \in SUBSET Models
  BY <1>1
<1>7. CASE Succeeds(p)
  <2>1. PICK step \in Steps : Goto(p, step) BY <1>7 DEF Succeeds, Steps
  <2>2. call' = [call EXCEPT ![p] = At(step, 1)] BY <2>1 DEF Goto
  <2>3. PICK ready \in {serverReady[p], TRUE}, models \in {readyModels[p], readyModels[p] \cup {c.model}} :
          /\ serverReady' = [serverReady EXCEPT ![p] = ready]
          /\ readyModels' = [readyModels EXCEPT ![p] = models]
    BY <1>6, <1>7 DEF Succeeds
  <2>4. ready \in BOOLEAN /\ models \in SUBSET Models BY <1>4, <1>6
  <2> HIDE DEF At, c
  <2> QED BY <1>5, <2>2, <2>3, <2>4
<1>8. CASE Refuses(p)
  <2>1. call' = [call EXCEPT ![p] = At("raised", c.attempt)] BY <1>1, <1>8 DEF Refuses, Call
  <2>2. At("raised", c.attempt) \in Call /\ At("raised", c.attempt).attempt = c.attempt
    BY <1>2, <1>4 DEF Steps
  <2> QED BY <1>8, <2>1, <2>2, CachesKept DEF Refuses
<1>9. CASE FailsTransiently(p)
  <2>1. CASE c.attempt < MaxAttempts
    <3>1. PICK d \in {At(c.step, c.attempt + 1), At("raised", c.attempt)} :
            call' = [call EXCEPT ![p] = d]
      BY <1>1, <1>9, <2>1 DEF FailsTransiently, Call
    <3>2. c.attempt + 1 \in 1 .. MaxAttempts BY <1>4, <2>1, TritonAssumption
    <3>3. d \in Call
      <4>1. c.step \in Steps /\ "raised" \in Steps BY <1>1 DEF Call, Steps
      <4> HIDE DEF At, c
      <4> QED BY <1>2, <1>4, <3>1, <3>2, <4>1
    <3>4. FALSE \in BOOLEAN /\ {} \in SUBSET Models OBVIOUS
    <3>5. /\ serverReady' = [serverReady EXCEPT ![p] = FALSE]
          /\ readyModels' = [readyModels EXCEPT ![p] = {}]
      BY <1>9, <2>1 DEF FailsTransiently, InvalidateReadinessCache
    <3> QED BY <3>1, <3>3, <3>4, <3>5, ClientStep
  <2>2. CASE ~(c.attempt < MaxAttempts)
    <3>1. call' = [call EXCEPT ![p] = At("raised", c.attempt)]
      BY <1>1, <1>9, <2>2 DEF FailsTransiently, Call
    <3>2. At("raised", c.attempt) \in Call /\ At("raised", c.attempt).attempt = c.attempt
      BY <1>2, <1>4 DEF Steps
    <3> QED BY <1>9, <2>2, <3>1, <3>2, CachesKept DEF FailsTransiently
  <2> QED BY <2>1, <2>2
<1> QED BY <1>7, <1>8, <1>9 DEF Remote

LEMMA CallInit == ASSUME Init PROVE CallInv
BY NoCallType DEF Init, TritonInit, CallInv, TritonTypeOK, Forgotten

LEMMA CallStep == ASSUME CallInv, [Next]_vars PROVE CallInv'
<1>1. ASSUME UNCHANGED tritonVars PROVE CallInv'
  BY <1>1 DEF CallInv, TritonTypeOK, Forgotten, tritonVars
<1>2. ASSUME NEW j \in Jobs, NEW b \in Batches, Refuse(j, b) \/ Enqueue(j, b) \/ EnqueueFails(j, b)
      PROVE  CallInv'
  BY <1>1, <1>2 DEF Refuse, Enqueue, EnqueueFails
<1>3. ASSUME NEW j \in Jobs, SetTaskOwner(j) \/ Accept(j) \/ RecognizePhoto(j) \/ OwnerLapses(j)
      PROVE  CallInv'
  BY <1>1, <1>3 DEF SetTaskOwner, Accept, RecognizePhoto, OwnerLapses
<1>4. ASSUME NEW w \in Procs, Work(w) \/ Fault(w) PROVE CallInv'
  <2>1. CASE AskTriton(w)
    <3>1. PICK m \in Models : Ask(w, m) BY <2>1, NoCallType DEF AskTriton
    <3> QED BY <3>1, AskStep
  <2>2. CASE TritonAnswers(w) BY <2>2, RemoteStep DEF TritonAnswers
  <2>3. CASE TimesOut(w) \/ Lose(w) BY <2>3, RestartStep, ForgetCall DEF TimesOut, Lose
  <2>4. CASE Match(w) \/ MatchFails(w) \/ Resend(w) \/ ResendFails(w) \/ GiveUp(w)
    BY <2>4, ForgetCall DEF Match, MatchFails, Resend, ResendFails, GiveUp
  <2>5. CASE \/ \E j \in Jobs, k \in Tries : Take(w, j, k) \/ StartFails(w, j, k)
             \/ CheckSighting(w) \/ LogSighting(w) \/ SkipSighting(w) \/ AbandonSightings(w)
             \/ StoreSuccess(w) \/ StoreRetry(w) \/ StoreFailure(w) \/ StoreFails(w) \/ Ack(w)
    BY <1>1, <2>5 DEF Take, StartFails, CheckSighting, LogSighting, SkipSighting, AbandonSightings,
       StoreSuccess, StoreRetry, StoreFailure, StoreFails, Ack
  <2> QED BY <1>4, <2>1, <2>2, <2>3, <2>4, <2>5 DEF Work, Fault
<1>5. ASSUME NEW s \in Students, Deactivate(s) PROVE CallInv' BY <1>1, <1>5 DEF Deactivate
<1>6. CASE UNCHANGED vars BY <1>1, <1>6 DEF vars
<1> QED BY <1>2, <1>3, <1>4, <1>5, <1>6 DEF Next

LEMMA CallHolds == Spec => []CallInv
BY CallInit, CallStep, PTL DEF Spec

\* A client that has given up after more than one attempt has cleared its readiness caches,
\* in whatever order the server's checks and inferences fail, succeed and are retried.
THEOREM GivenUpIsForgotten == Spec => []ExhaustedIsForgotten
<1>1. CallInv => ExhaustedIsForgotten BY DEF CallInv, Forgotten, ExhaustedIsForgotten
<1> QED BY <1>1, CallHolds, PTL

----------------------------------------------------------------------------
(* Types *)

\* A worker is within the faces of its batch, of which there are at most MaxFaces: it begins
\* with the first, may be past the last, and has one before it when it inserts.
Within(r) ==
    /\ Len(r.faces) <= MaxFaces
    /\ r.next \in 1 .. Len(r.faces) + 1
    /\ r.phase = "calls" => r.next = 1
    /\ r.phase = "insert" => r.next <= Len(r.faces)
WorkType ==
    /\ work \in [Procs -> Work_ \cup {Idle}]
    /\ \A w \in Procs : work[w] # Idle => Within(work[w])

RestType ==
    /\ request \in [Jobs -> {"none", "refused", "unavailable", "enqueued", "owned",
                             "accepted", "error", "recognized"}]
    /\ batch \in [Jobs -> Batches \cup {NoBatch}]
    /\ owner \in [Jobs -> {"none", "stored", "lost", "lapsed"}]
    /\ audited \subseteq Jobs
    /\ result \in [Jobs -> [state : Settled \cup {"PENDING", "STARTED", "RETRY"},
                            logged : Nat]]
    /\ rows \in [Jobs -> [1 .. MaxFaces -> Nat]]
    /\ ended \subseteq Jobs
    /\ active \subseteq Students
    /\ uncertain \subseteq Jobs /\ forsaken \subseteq Jobs
    /\ losses \in Nat /\ timeouts \in Nat /\ troubles \in Nat

TInv == CallInv /\ QueueOK /\ WorkType /\ RestType

LEMMA TypesInit == ASSUME Init PROVE TInv
<1>1. CallInv BY CallInit
<1>2. MaxRetries + 1 \in Tries BY IngestAssumption DEF Tries
<1>3. QueueOK BY <1>2 DEF Init, QueueOK
<1>4. WorkType BY DEF Init, WorkType
<1>5. RestType BY DEF Init, RestType, NoResult
<1> QED BY <1>1, <1>3, <1>4, <1>5 DEF TInv

LEMMA WorkerTypes ==
    ASSUME WorkType, NEW w \in Procs, NEW r \in Work_, Within(r), work' = [work EXCEPT ![w] = r]
    PROVE  WorkType'
BY DEF WorkType, Within

LEMMA IdleTypes ==
    ASSUME WorkType, NEW w \in Procs, work' = [work EXCEPT ![w] = Idle]
    PROVE  WorkType'
BY DEF WorkType, Within

\* A worker that is not idle has a message; what it is doing with it, for short.
LEMMA AtWork ==
    ASSUME WorkType, NEW w \in Procs, work[w].phase # "idle"
    PROVE  /\ work[w] \in Work_ /\ Within(work[w])
           /\ work[w].job \in Jobs /\ work[w].try \in 0 .. MaxRetries
           /\ work[w].asked \in Nat /\ work[w].logged \in Nat /\ work[w].next \in Nat \ {0}
           /\ work[w].faces \in Seq(Students \cup {Unknown}) /\ Len(work[w].faces) \in 0 .. MaxFaces
           /\ work[w].next <= Len(work[w].faces) + 1
           /\ Inserting(w) => work[w].next \in 1 .. MaxFaces
<1>1. work[w] \in Work_ /\ Within(work[w]) BY DEF WorkType, Idle
<1>2. /\ work[w].job \in Jobs /\ work[w].try \in 0 .. MaxRetries
      /\ work[w].asked \in Nat /\ work[w].logged \in Nat
      /\ work[w].faces \in Seq(Students \cup {Unknown})
  BY <1>1 DEF Work_
<1>3. Len(work[w].faces) \in Nat BY <1>2
<1> QED BY <1>1, <1>2, <1>3, IngestAssumption DEF Within, Inserting

LEMMA LeaveTypes ==
    ASSUME WorkType, NEW w \in Procs, work[w].phase # "idle",
           NEW p \in {"resent", "failed", "ack"}, Leave(w, p)
    PROVE  WorkType'
<1>0. PICK none : none = <<>> OBVIOUS
<1>a. none \in Seq(Students \cup {Unknown}) /\ Len(none) = 0 BY <1>0
<1> DEFINE r == [work[w] EXCEPT !.phase = p, !.asked = 0, !.faces = none, !.next = 1, !.logged = 0]
<1>1. work[w] \in Work_ BY AtWork
<1>2. work' = [work EXCEPT ![w] = r] BY <1>0 DEF Leave
<1>3. r \in Work_ BY <1>1, <1>a DEF Work_
<1>4. r.next = 1 /\ r.faces = none /\ r.phase = p BY <1>1 DEF Work_
<1>5. Within(r)
  <2> HIDE DEF r
  <2> QED BY <1>4, <1>a, IngestAssumption DEF Within
<1> HIDE DEF r
<1> QED BY <1>2, <1>3, <1>5, WorkerTypes

LEMMA StoreTypes ==
    ASSUME RestType, NEW j \in Jobs, NEW n \in Nat,
           NEW state \in Settled \cup {"PENDING", "STARTED", "RETRY"}, Store(j, state, n)
    PROVE  result' \in [Jobs -> [state : Settled \cup {"PENDING", "STARTED", "RETRY"}, logged : Nat]]
BY DEF RestType, Store

LEMMA TroubleTypes ==
    ASSUME RestType, Trouble \/ TimeLimit \/ UNCHANGED boundVars
    PROVE  losses' \in Nat /\ timeouts' \in Nat /\ troubles' \in Nat
BY DEF RestType, Trouble, TimeLimit, boundVars

LEMMA ApiTypes ==
    ASSUME TInv, NEW j \in Jobs, CallInv',
           \/ \E b \in Batches : Refuse(j, b) \/ Enqueue(j, b) \/ EnqueueFails(j, b)
           \/ SetTaskOwner(j) \/ Accept(j) \/ RecognizePhoto(j) \/ OwnerLapses(j)
    PROVE  TInv'
<1> USE DEF TInv
<1>1. losses' \in Nat /\ timeouts' \in Nat /\ troubles' \in Nat
  <2>1. Trouble \/ UNCHANGED boundVars
    BY DEF Refuse, Enqueue, EnqueueFails, SetTaskOwner, Accept, EmitAdvisory, RecognizePhoto, OwnerLapses
  <2> QED BY <2>1, TroubleTypes
<1>2. UNCHANGED <<work, result, rows, ended, active, uncertain, forsaken>>
  BY DEF Refuse, Enqueue, EnqueueFails, SetTaskOwner, Accept, RecognizePhoto, OwnerLapses, taskVars,
     historyVars
<1>3. WorkType' BY <1>2 DEF WorkType
<1>4. QueueOK'
  <2>1. CASE queue' = queue BY <2>1, SameQueue
  <2>2. CASE queue' = Enqueued(j, 0)
    <3>1. 0 \in 0 .. MaxRetries BY IngestAssumption
    <3> QED BY <2>2, <3>1, QueueGrows
  <2> QED BY <2>1, <2>2
    DEF Refuse, Enqueue, EnqueueFails, SetTaskOwner, Accept, RecognizePhoto, OwnerLapses, taskVars
<1>5. RestType'
  <2>1. CASE \E b \in Batches : Refuse(j, b) \/ Enqueue(j, b) \/ EnqueueFails(j, b)
    <3>1. PICK b \in Batches, a \in {"refused", "enqueued", "unavailable"} :
            /\ request' = [request EXCEPT ![j] = a]
            /\ batch' = batch \/ batch' = [batch EXCEPT ![j] = b]
            /\ UNCHANGED <<owner, audited>>
      BY <2>1 DEF Refuse, Enqueue, EnqueueFails, Answer
    <3>2. batch' \in [Jobs -> Batches \cup {NoBatch}] BY <3>1 DEF RestType
    <3>3. request' \in [Jobs -> {"none", "refused", "unavailable", "enqueued", "owned",
                                "accepted", "error", "recognized"}]
      BY <3>1 DEF RestType
    <3> QED BY <1>1, <1>2, <3>1, <3>2, <3>3 DEF RestType
  <2>2. CASE SetTaskOwner(j) \/ OwnerLapses(j)
    BY <1>1, <1>2, <2>2 DEF SetTaskOwner, OwnerLapses, Answer, RestType
  <2>3. CASE Accept(j) \/ RecognizePhoto(j)
    BY <1>1, <1>2, <2>3 DEF Accept, EmitAdvisory, RecognizePhoto, Answer, RestType
  <2> QED BY <2>1, <2>2, <2>3
<1> QED BY <1>3, <1>4, <1>5

\* The faces of a batch are a sequence of at most MaxFaces: only the active are named.
LEMMA MatchedType ==
    ASSUME RestType, NEW b \in Batches
    PROVE  Matched(FacesOf[b]) \in Seq(Students \cup {Unknown}) /\ Len(Matched(FacesOf[b])) <= MaxFaces
<1>1. PICK n \in 0 .. MaxFaces : DOMAIN Faces(b.frames) = 1 .. n BY IngestAssumption
<1>2. n \in Nat /\ n <= MaxFaces BY <1>1, IngestAssumption
<1>3. FacesOf[b] = Faces(b.frames) BY DEF FacesOf
<1> DEFINE Person(i) == IF FacesOf[b][i].person \in active THEN FacesOf[b][i].person ELSE Unknown
<1>4. \A i \in 1 .. n : Person(i) \in Students \cup {Unknown} BY DEF RestType
<1>5. Matched(FacesOf[b]) = [i \in 1 .. n |-> Person(i)] BY <1>1, <1>3 DEF Matched
<1> HIDE DEF Person
<1>6. [i \in 1 .. n |-> Person(i)] \in [1 .. n -> Students \cup {Unknown}] BY <1>4
<1>7. PICK s : s = [i \in 1 .. n |-> Person(i)] OBVIOUS
<1>8. s \in Seq(Students \cup {Unknown}) /\ Len(s) = n BY <1>2, <1>6, <1>7
<1> QED BY <1>2, <1>5, <1>7, <1>8

LEMMA MatchTypes == ASSUME TInv, NEW w \in Procs, Match(w) PROVE WorkType'
<1> DEFINE faces == IF Batch(w).course THEN Matched(FacesOf[Batch(w)]) ELSE <<>>
           r == [work[w] EXCEPT !.faces = faces, !.phase = "log", !.asked = 0]
<1>1. work[w].phase # "idle" BY DEF Match
<1>2. work[w] \in Work_ /\ Within(work[w]) /\ work[w].job \in Jobs BY <1>1, AtWork DEF TInv
<1>3. faces \in Seq(Students \cup {Unknown}) /\ Len(faces) <= MaxFaces
  <2>1. CASE Batch(w) \in Batches /\ Batch(w).course BY <2>1, MatchedType DEF TInv
  <2>2. CASE ~Batch(w).course BY <2>2, IngestAssumption
  <2>3. Batch(w) \in Batches \cup {NoBatch} BY <1>2 DEF TInv, RestType, Batch
  <2>4. ~NoBatch.course BY DEF NoBatch
  <2> QED BY <2>1, <2>2, <2>3, <2>4
<1>4. work' = [work EXCEPT ![w] = r]
  <2>1. work \in [Procs -> Work_ \cup {Idle}] BY DEF TInv, WorkType
  <2> QED BY <2>1 DEF Match
<1> HIDE DEF faces
<1>5. r \in Work_ /\ r.next = work[w].next /\ r.faces = faces /\ r.phase = "log"
  BY <1>2, <1>3 DEF Work_
<1>6. Within(r)
  <2>1. work[w].next = 1 BY <1>2 DEF Match, Within
  <2>2. Len(faces) \in Nat BY <1>3
  <2> HIDE DEF r
  <2> QED BY <1>3, <1>5, <2>1, <2>2 DEF Within
<1> HIDE DEF r
<1> QED BY <1>4, <1>5, <1>6, WorkerTypes DEF TInv

LEMMA TakeTypes ==
    ASSUME TInv, NEW w \in Procs, NEW j \in Jobs, NEW k \in Tries, Take(w, j, k) \/ StartFails(w, j, k)
    PROVE  WorkType' /\ QueueOK' /\ RestType'
<1>0. queue \in [Jobs -> [Tries -> Nat]] /\ MaxRetries + 1 \in Tries
  BY IngestAssumption DEF TInv, QueueOK, Tries
<1>1. queue[j][k] \in Nat \ {0} /\ k # MaxRetries + 1
  <2>1. queue[j][k] \in Nat /\ queue[j][k] > 0 BY <1>0 DEF Take, StartFails
  <2> QED BY <2>1 DEF TInv, QueueOK
<1>2. k \in 0 .. MaxRetries BY <1>1, IngestAssumption DEF Tries
<1>3. PICK p \in {"calls", "ack"} : work' = [work EXCEPT ![w] = Delivery(p, j, k)]
  BY DEF Take, StartFails
<1> DEFINE r == Delivery(p, j, k)
<1>4. r \in Work_ BY <1>2 DEF Work_, Delivery
<1>5. Within(r)
  <2>1. r.next = 1 /\ r.faces = <<>> /\ r.phase = p BY DEF Delivery
  <2> HIDE DEF r
  <2> QED BY <2>1, IngestAssumption DEF Within
<1> HIDE DEF r
<1>6. WorkType' BY <1>3, <1>4, <1>5, WorkerTypes DEF TInv, r
<1>7. QueueOK'
  <2>1. PICK t : t = [queue[j] EXCEPT ![k] = queue[j][k] - 1] OBVIOUS
  <2>2. queue' = [queue EXCEPT ![j] = t] BY <2>1 DEF Take, StartFails
  <2>3. queue[j] \in [Tries -> Nat] /\ queue[j][k] - 1 \in Nat BY <1>0, <1>1
  <2>4. t \in [Tries -> Nat] /\ t[MaxRetries + 1] = queue[j][MaxRetries + 1] BY <1>0, <1>1, <2>1, <2>3
  <2> QED BY <1>0, <2>2, <2>4 DEF TInv, QueueOK
<1>8. RestType'
  <2>1. result' \in [Jobs -> [state : Settled \cup {"PENDING", "STARTED", "RETRY"}, logged : Nat]]
    <3>1. CASE Take(w, j, k) BY <3>1, StoreTypes DEF Take, TInv
    <3>2. CASE StartFails(w, j, k) BY <3>2 DEF StartFails, TInv, RestType
    <3> QED BY <3>1, <3>2
  <2>2. losses' \in Nat /\ timeouts' \in Nat /\ troubles' \in Nat
    BY TroubleTypes DEF Take, StartFails, TInv
  <2> QED BY <2>1, <2>2 DEF Take, StartFails, TInv, RestType, apiVars, historyVars
<1> QED BY <1>6, <1>7, <1>8

\* The steps of a worker within its phase.
LEMMA GoOnTypes ==
    ASSUME TInv, NEW w \in Procs,
           \/ AskTriton(w) \/ TritonAnswers(w) \/ Match(w) \/ CheckSighting(w)
           \/ LogSighting(w) \/ SkipSighting(w) \/ AbandonSightings(w)
    PROVE  WorkType' /\ QueueOK' /\ RestType'
<1>1. /\ UNCHANGED <<apiVars, queue, result, ended, active, forsaken>>
      /\ Trouble \/ TimeLimit \/ UNCHANGED boundVars
      /\ uncertain' \in {uncertain, uncertain \cup {work[w].job}}
  BY DEF AskTriton, TritonAnswers, Match, CheckSighting, LogSighting, SkipSighting, AbandonSightings,
     Upset, taskVars, historyVars
<1>2. QueueOK' BY <1>1, SameQueue DEF TInv
<1>3. work[w].phase # "idle"
  BY DEF AskTriton, TritonAnswers, Match, CheckSighting, LogSighting, SkipSighting, AbandonSightings,
     Logging, Inserting
<1>4. /\ work[w] \in Work_ /\ Within(work[w]) /\ work[w].job \in Jobs
      /\ work[w].next \in Nat \ {0} /\ work[w].asked \in Nat /\ work[w].logged \in Nat
      /\ Len(work[w].faces) \in 0 .. MaxFaces /\ work[w].next <= Len(work[w].faces) + 1
      /\ Inserting(w) => work[w].next \in 1 .. MaxFaces
      /\ work \in [Procs -> Work_ \cup {Idle}]
  BY <1>3, AtWork DEF TInv, WorkType
<1>5. rows' \in [Jobs -> [1 .. MaxFaces -> Nat]]
  <2>1. CASE rows' = rows BY <2>1 DEF TInv, RestType
  <2>2. CASE Inserting(w) /\ Commit(w)
    <3>2. PICK j \in Jobs, f \in 1 .. MaxFaces : j = work[w].job /\ f = work[w].next BY <1>4, <2>2
    <3>3. rows' = [rows EXCEPT ![j][f] = @ + 1] BY <2>2, <3>2 DEF Commit
    <3>4. rows \in [Jobs -> [1 .. MaxFaces -> Nat]] BY DEF TInv, RestType
    <3>5. PICK t : t = [rows[j] EXCEPT ![f] = rows[j][f] + 1] OBVIOUS
    <3>6. rows' = [rows EXCEPT ![j] = t] BY <3>3, <3>5
    <3>7. t \in [1 .. MaxFaces -> Nat]
      <4>1. rows[j] \in [1 .. MaxFaces -> Nat] BY <3>4
      <4>2. rows[j][f] \in Nat BY <4>1
      <4> QED BY <3>5, <4>1, <4>2
    <3> QED BY <3>4, <3>6, <3>7
  <2> QED BY <2>1, <2>2 DEF AskTriton, TritonAnswers, Match, CheckSighting, LogSighting, SkipSighting,
                            AbandonSightings, Upset, taskVars
<1>6. RestType'
  <2>1. losses' \in Nat /\ timeouts' \in Nat /\ troubles' \in Nat BY <1>1, TroubleTypes DEF TInv
  <2> QED BY <1>1, <1>4, <1>5, <2>1 DEF TInv, RestType, apiVars
<1>7. ASSUME NEW p \in {"log", "insert"}, NEW n \in Nat \ {0}, NEW logged \in Nat,
             n <= Len(work[w].faces) + 1, p = "insert" => n <= Len(work[w].faces),
             work' = [work EXCEPT ![w] = [work[w] EXCEPT !.phase = p, !.next = n, !.logged = logged]]
      PROVE  WorkType'
  <2> DEFINE r == [work[w] EXCEPT !.phase = p, !.next = n, !.logged = logged]
  <2>1. r \in Work_ /\ r.next = n /\ r.faces = work[w].faces /\ r.phase = p BY <1>4 DEF Work_
  <2>2. work' = [work EXCEPT ![w] = r] BY <1>7
  <2> HIDE DEF r
  <2>3. Within(r) BY <1>4, <1>7, <2>1 DEF Within
  <2> QED BY <2>1, <2>2, <2>3, WorkerTypes DEF TInv
<1>8. WorkType'
  <2>1. CASE AskTriton(w)
    <3> DEFINE r == [work[w] EXCEPT !.asked = work[w].asked + 1]
    <3>1. work' = [work EXCEPT ![w] = r] BY <2>1 DEF AskTriton
    <3>3. /\ r \in Work_
          /\ r.next = work[w].next /\ r.faces = work[w].faces /\ r.phase = work[w].phase
      BY <1>4 DEF Work_
    <3> HIDE DEF r
    <3>2. Within(r) BY <1>4, <3>3 DEF Within
    <3> QED BY <3>1, <3>2, <3>3, WorkerTypes DEF TInv
  <2>2. CASE TritonAnswers(w) BY <2>2 DEF TritonAnswers, taskVars, TInv, WorkType
  <2>3. CASE Match(w) BY <2>3, MatchTypes
  <2>4. CASE CheckSighting(w)
    <3>1. work' = [work EXCEPT ![w] = [work[w] EXCEPT !.phase = "insert"]]
      BY <2>4 DEF CheckSighting
    <3>2. [work[w] EXCEPT !.phase = "insert"] =
          [work[w] EXCEPT !.phase = "insert", !.next = work[w].next, !.logged = work[w].logged]
      BY <1>4 DEF Work_
    <3>3. work[w].next <= Len(work[w].faces) BY <2>4 DEF CheckSighting, Logging
    <3> QED BY <1>4, <1>7, <3>1, <3>2, <3>3
  <2>5. CASE LogSighting(w) \/ SkipSighting(w)
    <3>1. PICK n \in {0, 1} : Advance(w, n) BY <2>5 DEF LogSighting, SkipSighting
    <3>2. work' = [work EXCEPT ![w] = [work[w] EXCEPT !.phase = "log", !.next = work[w].next + 1,
                                                      !.logged = work[w].logged + n]]
      BY <3>1 DEF Advance
    <3>3. work[w].next <= Len(work[w].faces)
      BY <1>4, <2>5 DEF LogSighting, SkipSighting, Logging, Inserting, Within
    <3>4. /\ work[w].next + 1 \in Nat \ {0} /\ work[w].logged + n \in Nat
          /\ work[w].next + 1 <= Len(work[w].faces) + 1
      BY <1>4, <3>3
    <3> QED BY <1>7, <3>2, <3>4
  <2>6. CASE AbandonSightings(w)
    <3>1. PICK n : n = Len(work[w].faces) + 1 OBVIOUS
    <3>2. work' = [work EXCEPT ![w] = [work[w] EXCEPT !.phase = "log", !.next = n, !.logged = 0]]
      BY <2>6, <3>1 DEF AbandonSightings
    <3>3. n \in Nat \ {0} /\ n <= Len(work[w].faces) + 1 BY <1>4, <3>1
    <3> QED BY <1>7, <3>2, <3>3
  <2> QED BY <2>1, <2>2, <2>3, <2>4, <2>5, <2>6
<1> QED BY <1>2, <1>6, <1>8

\* The steps in which it leaves its phase.
LEMMA LeavingTypes ==
    ASSUME TInv, NEW w \in Procs,
           \/ StoreSuccess(w) \/ Resend(w) \/ ResendFails(w) \/ StoreRetry(w) \/ GiveUp(w)
           \/ StoreFailure(w) \/ StoreFails(w) \/ Ack(w) \/ MatchFails(w) \/ TimesOut(w) \/ Lose(w)
    PROVE  WorkType' /\ QueueOK' /\ RestType'
<1>1. work[w].phase # "idle"
  <2>1. CASE Lose(w) BY <2>1 DEF Lose, TInv, WorkType, Work_
  <2> QED BY <2>1 DEF StoreSuccess, Resend, ResendFails, StoreRetry, GiveUp, StoreFailure, StoreFails,
                      Ack, MatchFails, TimesOut
<1>2. /\ work[w].job \in Jobs /\ work[w].try \in 0 .. MaxRetries /\ work[w].logged \in Nat
  BY <1>1, AtWork DEF TInv
<1>a. PICK j \in Jobs, k \in 0 .. MaxRetries : j = work[w].job /\ k = work[w].try BY <1>2
<1>3. WorkType'
  <2>1. CASE Ack(w) \/ Lose(w)
    <3>1. work' = [work EXCEPT ![w] = Idle] BY <2>1 DEF Ack, Lose
    <3> QED BY <3>1, IdleTypes DEF TInv
  <2>2. CASE ~(Ack(w) \/ Lose(w))
    <3>1. PICK p \in {"resent", "failed", "ack"} : Leave(w, p)
      BY <2>2 DEF StoreSuccess, Resend, ResendFails, StoreRetry, GiveUp, StoreFailure, StoreFails,
                  MatchFails, TimesOut
    <3> QED BY <1>1, <3>1, LeaveTypes DEF TInv
  <2> QED BY <2>1, <2>2
<1>4. QueueOK'
  <2>1. CASE queue' = queue BY <2>1, SameQueue DEF TInv
  <2>2. CASE Lose(w)
    <3>1. queue' = Enqueued(j, k) BY <1>a, <2>2 DEF Lose
    <3> QED BY <3>1, QueueGrows DEF TInv
  <2>3. CASE (Resend(w) \/ ResendFails(w)) /\ queue' = Enqueued(work[w].job, work[w].try + 1)
    <3>1. queue' = Enqueued(j, k + 1) /\ k + 1 \in 0 .. MaxRetries
      BY <1>a, <2>3, IngestAssumption DEF Resend, ResendFails, MayRetry
    <3> QED BY <3>1, QueueGrows DEF TInv
  <2> QED BY <2>1, <2>2, <2>3
    DEF StoreSuccess, Resend, ResendFails, StoreRetry, GiveUp, StoreFailure, StoreFails, Ack, MatchFails,
        TimesOut
<1>5. /\ UNCHANGED <<apiVars, rows, active, uncertain>>
      /\ ended' \in {ended, ended \cup {j}}
      /\ forsaken' \in {forsaken, forsaken \cup {j}}
  BY <1>a DEF StoreSuccess, Resend, ResendFails, StoreRetry, GiveUp, StoreFailure, StoreFails, Ack,
              MatchFails, TimesOut, Lose, historyVars
<1>6. losses' \in Nat /\ timeouts' \in Nat /\ troubles' \in Nat
  <2>1. CASE Lose(w) BY <2>1 DEF Lose, TInv, RestType
  <2>2. CASE Trouble \/ TimeLimit \/ UNCHANGED boundVars BY <2>2, TroubleTypes DEF TInv
  <2> QED BY <2>1, <2>2
    DEF StoreSuccess, Resend, ResendFails, StoreRetry, GiveUp, StoreFailure, StoreFails, Ack, MatchFails,
        TimesOut
<1>7. result' \in [Jobs -> [state : Settled \cup {"PENDING", "STARTED", "RETRY"}, logged : Nat]]
  <2>1. CASE result' = result BY <2>1 DEF TInv, RestType
  <2>2. CASE StoreSuccess(w) \/ StoreRetry(w) \/ StoreFailure(w)
    <3>1. PICK state \in Settled \cup {"PENDING", "STARTED", "RETRY"}, n \in Nat : Store(j, state, n)
      BY <1>2, <1>a, <2>2 DEF StoreSuccess, StoreRetry, StoreFailure, Settled
    <3> QED BY <3>1, StoreTypes DEF TInv
  <2> QED BY <2>1, <2>2 DEF Resend, ResendFails, GiveUp, StoreFails, Ack, MatchFails, TimesOut, Lose
<1>8. RestType' BY <1>5, <1>6, <1>7 DEF TInv, RestType, apiVars
<1> QED BY <1>3, <1>4, <1>8

LEMMA TypesStep == ASSUME TInv, [Next]_vars PROVE TInv'
<1>1. CallInv' BY CallStep DEF TInv
<1>2. ASSUME NEW w \in Procs, Work(w) \/ Fault(w)
      PROVE  WorkType' /\ QueueOK' /\ RestType'
  <2>1. CASE \E j \in Jobs, k \in Tries : Take(w, j, k) \/ StartFails(w, j, k) BY <2>1, TakeTypes
  <2> QED BY <1>2, <2>1, GoOnTypes, LeavingTypes DEF Work, Fault
<1>3. ASSUME NEW s \in Students, Deactivate(s) PROVE WorkType' /\ QueueOK' /\ RestType'
  BY <1>3 DEF Deactivate, TInv, WorkType, QueueOK, RestType, apiVars, taskVars, historyVars, boundVars
<1>4. CASE UNCHANGED vars
  <2>1. UNCHANGED <<work, queue, request, batch, owner, audited, result, rows, ended, active,
                    uncertain, forsaken, losses, timeouts, troubles>>
    BY <1>4 DEF vars, apiVars, taskVars, historyVars
  <2>2. WorkType' BY <2>1 DEF TInv, WorkType
  <2>3. QueueOK' BY <2>1 DEF TInv, QueueOK
  <2>4. RestType' BY <2>1 DEF TInv, RestType
  <2> QED BY <1>1, <2>2, <2>3, <2>4 DEF TInv
<1>5. ASSUME NEW j \in Jobs,
             \/ \E b \in Batches : Refuse(j, b) \/ Enqueue(j, b) \/ EnqueueFails(j, b)
             \/ SetTaskOwner(j) \/ Accept(j) \/ RecognizePhoto(j) \/ OwnerLapses(j)
      PROVE  TInv'
  BY <1>1, <1>5, ApiTypes
<1>6. CASE WorkType' /\ QueueOK' /\ RestType' BY <1>1, <1>6 DEF TInv
<1> QED BY <1>2, <1>3, <1>4, <1>5, <1>6 DEF Next, TInv

LEMMA TypesHold == Spec => []TInv
BY TypesInit, TypesStep, PTL DEF Spec

\* Every variable keeps its type: no face beyond those of the batch is counted, and no
\* message ever carries more retries than the task allows.
THEOREM TypesKept == Spec => []TypeOK
<1>1. TInv /\ LateOK => TypeOK BY DEF TInv, CallInv, QueueOK, WorkType, RestType, LateOK, TypeOK
<1> QED BY <1>1, TypesHold, LateHolds, PTL

----------------------------------------------------------------------------
(* What is still to come for a job *)

\* Its messages, and the workers that may still log its face f.
Messages(j) == UNION {{k} \X (1 .. queue[j][k]) : k \in Tries}
MayLog(w, f) ==
    work[w].phase = "calls" \/ (work[w].phase \in {"log", "insert"} /\ work[w].next <= f)
Loggers(j, f) == {w \in Procs : work[w] # Idle /\ work[w].job = j /\ MayLog(w, f)}

\* Nobody has heard of a job that was not yet sent.
Untouched ==
    \A j \in Jobs :
        request[j] = "none" =>
            /\ \A k \in Tries : queue[j][k] = 0
            /\ ~Held(j)
            /\ \A f \in 1 .. MaxFaces : rows[j][f] = 0
            /\ result[j].state = "PENDING"

\* The sightings of a face, and the messages and workers that may add one more, are one for
\* the request and one for each worker that died.
Chance(j, f) ==
    /\ IsFiniteSet(Messages(j)) /\ IsFiniteSet(Loggers(j, f))
    /\ rows[j][f] + Cardinality(Messages(j)) + Cardinality(Loggers(j, f)) <= 1 + losses

CountInv == TInv /\ Untouched /\ \A j \in Jobs, f \in 1 .. MaxFaces : Chance(j, f)

\* While no worker has died there is one message or one worker with work to do on a job.
Lone(j) ==
    /\ \A k, l \in Tries : queue[j][k] > 0 /\ queue[j][l] > 0 => k = l /\ queue[j][k] = 1
    /\ \A v, w \in Procs : Carries(v, j) /\ Carries(w, j) => v = w
    /\ Queued(j) => \A w \in Procs : ~Carries(w, j)

Unlogged(j) == Sightings(j) = {}

\* .. it has logged what it says unless its logging met a failure, and its outcome is the last
\* that is heard of the job.
Told(j) ==
    /\ Queued(j) => Unlogged(j)
    /\ \A w \in Procs :
          Carries(w, j) =>
              /\ work[w].phase = "calls" => Unlogged(j) /\ work[w].logged = 0
              /\ work[w].phase \in {"log", "insert"} /\ j \notin uncertain => work[w].logged = RowsOf(j)
              /\ work[w].phase = "failed" /\ timeouts = 0 => Unlogged(j)
    /\ result[j].state \in Settled => ~Queued(j) /\ \A w \in Procs : ~Carries(w, j)
    /\ result[j].state = "SUCCESS" /\ j \notin uncertain => result[j].logged = RowsOf(j)
    /\ result[j].state = "FAILURE" /\ timeouts = 0 => Unlogged(j)

Followed(j) == Lone(j) /\ Told(j)

\* Nobody claims more than was committed, whoever died and whatever failed.
ClaimInv ==
    /\ \A j \in Jobs : IsFiniteSet(Sightings(j)) /\ result[j].logged <= RowsOf(j)
    /\ \A w \in Procs, j \in Jobs :
         work[w].phase # "idle" /\ work[w].job = j => work[w].logged <= RowsOf(j)

ToldInv == losses = 0 => \A j \in Jobs : Followed(j)

----------------------------------------------------------------------------
(* Counting *)

Grows(S, T, d) == IsFiniteSet(T) /\ Cardinality(T) <= Cardinality(S) + d

LEMMA NoMore ==
    ASSUME NEW S, IsFiniteSet(S), NEW T \in SUBSET S
    PROVE  Grows(S, T, 0) /\ Cardinality(S) \in Nat /\ Cardinality(T) \in Nat
<1>1. IsFiniteSet(T) /\ Cardinality(T) <= Cardinality(S) BY FS_Subset
<1>2. Cardinality(S) \in Nat /\ Cardinality(T) \in Nat BY <1>1, FS_CardinalityType
<1> QED BY <1>1, <1>2 DEF Grows

LEMMA OneMore ==
    ASSUME NEW S, IsFiniteSet(S), NEW x, NEW T \in SUBSET (S \cup {x})
    PROVE  Grows(S, T, 1)
<1>1. /\ IsFiniteSet(S \cup {x}) /\ Cardinality(S) \in Nat
      /\ Cardinality(S \cup {x}) \in {Cardinality(S), Cardinality(S) + 1}
  BY FS_AddElement, FS_CardinalityType
<1>2. IsFiniteSet(T) /\ Cardinality(T) <= Cardinality(S \cup {x}) BY <1>1, FS_Subset
<1>3. Cardinality(T) \in Nat BY <1>2, FS_CardinalityType
<1> QED BY <1>1, <1>2, <1>3 DEF Grows

LEMMA OneLess ==
    ASSUME NEW S, IsFiniteSet(S), NEW x \in S, NEW T \in SUBSET (S \ {x})
    PROVE  Grows(S, T, -1)
<1>1. /\ IsFiniteSet(S \ {x}) /\ Cardinality(S) \in Nat
      /\ Cardinality(S \ {x}) = Cardinality(S) - 1
  BY FS_RemoveElement, FS_CardinalityType
<1>2. IsFiniteSet(T) /\ Cardinality(T) <= Cardinality(S \ {x}) BY <1>1, FS_Subset
<1>3. Cardinality(T) \in Nat BY <1>2, FS_CardinalityType
<1> QED BY <1>1, <1>2, <1>3 DEF Grows

\* What is logged and what is still to come grow by no more than the deaths do.
LEMMA ChanceStep ==
    ASSUME TInv, TInv', NEW j \in Jobs, NEW f \in 1 .. MaxFaces, Chance(j, f),
           NEW dm \in Int, NEW dl \in Int,
           Grows(Messages(j), Messages(j)', dm), Grows(Loggers(j, f), Loggers(j, f)', dl),
           rows'[j][f] + dm + dl + losses <= rows[j][f] + losses'
    PROVE  Chance(j, f)'
<1>1. /\ Cardinality(Messages(j)) \in Nat /\ Cardinality(Messages(j)') \in Nat
      /\ Cardinality(Loggers(j, f)) \in Nat /\ Cardinality(Loggers(j, f)') \in Nat
  BY FS_CardinalityType DEF Chance, Grows
<1>2. losses \in Nat /\ losses' \in Nat BY DEF TInv, RestType
<1>3. rows[j][f] \in Nat /\ rows'[j][f] \in Nat
  <2>1. rows \in [Jobs -> [1 .. MaxFaces -> Nat]] /\ rows' \in [Jobs -> [1 .. MaxFaces -> Nat]]
    BY DEF TInv, RestType
  <2>2. rows[j] \in [1 .. MaxFaces -> Nat] /\ rows'[j] \in [1 .. MaxFaces -> Nat] BY <2>1
  <2> QED BY <2>2
<1>4. rows'[j][f] + Cardinality(Messages(j)') + Cardinality(Loggers(j, f)') <= 1 + losses'
  BY <1>1, <1>2, <1>3 DEF Chance, Grows
<1> QED BY <1>4 DEF Chance, Grows

\* A message that is sent is one more.
LEMMA MessageSent ==
    ASSUME QueueOK, NEW j \in Jobs, NEW k \in 0 .. MaxRetries, queue' = Enqueued(j, k)
    PROVE  \E m : Messages(j)' \subseteq Messages(j) \cup {m}
<1>1. k \in Tries BY IngestAssumption DEF Tries
<1>2. \A l \in Tries : queue[j][l] \in Nat BY DEF QueueOK
<1>3. queue'[j][k] = queue[j][k] + 1 /\ \A l \in Tries \ {k} : queue'[j][l] = queue[j][l]
  BY EnqueuedType, IngestAssumption
<1>4. ASSUME NEW x \in Messages(j)' PROVE x \in Messages(j) \cup {<<k, queue[j][k] + 1>>}
  <2>1. PICK l \in Tries : x \in {l} \X (1 .. queue'[j][l]) BY DEF Messages
  <2>2. PICK i \in 1 .. queue'[j][l] : x = <<l, i>> BY <2>1
  <2>3. CASE i \in 1 .. queue[j][l] BY <2>2, <2>3 DEF Messages
  <2>4. CASE i \notin 1 .. queue[j][l]
    <3>1. l = k BY <1>3, <2>4
    <3>2. i = queue[j][k] + 1 BY <1>1, <1>2, <1>3, <2>4, <3>1
    <3> QED BY <2>2, <3>1, <3>2
  <2> QED BY <2>3, <2>4
<1> QED BY <1>4

\* One that is taken is one less.
LEMMA MessageTaken ==
    ASSUME QueueOK, NEW j \in Jobs, NEW k \in Tries, queue[j][k] > 0,
           queue'[j][k] = queue[j][k] - 1, \A l \in Tries \ {k} : queue'[j][l] = queue[j][l]
    PROVE  \E m \in Messages(j) : Messages(j)' \subseteq Messages(j) \ {m}
<1>1. \A l \in Tries : queue[j][l] \in Nat BY DEF QueueOK
<1>2. <<k, queue[j][k]>> \in Messages(j)
  <2>1. queue[j][k] \in 1 .. queue[j][k] BY <1>1
  <2> QED BY <2>1 DEF Messages
<1>3. ASSUME NEW x \in Messages(j)' PROVE x \in Messages(j) \ {<<k, queue[j][k]>>}
  <2>1. PICK l \in Tries : x \in {l} \X (1 .. queue'[j][l]) BY DEF Messages
  <2>2. PICK i \in 1 .. queue'[j][l] : x = <<l, i>> BY <2>1
  <2>3. i \in 1 .. queue[j][l] /\ ~(l = k /\ i = queue[j][k])
    <3>1. CASE l = k BY <1>1, <2>2, <3>1
    <3>2. CASE l # k BY <3>2
    <3> QED BY <3>1, <3>2
  <2> QED BY <2>2, <2>3 DEF Messages
<1> QED BY <1>2, <1>3

----------------------------------------------------------------------------
(* A step is about one worker and one job *)

\* Worker w does something about job j, and about no other.
Touches(w, j) ==
    /\ request' = request /\ losses' >= losses /\ timeouts' >= timeouts
    /\ uncertain \subseteq uncertain'
    /\ \A v \in Procs \ {w} : work'[v] = work[v]
    /\ work[w] = Idle \/ work[w].job = j
    /\ work'[w] = Idle \/ work'[w].job = j
    /\ \A i \in Jobs \ {j} : queue'[i] = queue[i] /\ rows'[i] = rows[i] /\ result'[i] = result[i]

\* It has the same message, in phase p, at face n, with l sightings logged.
Goes(w, p, n, l) ==
    /\ \A v \in Procs \ {w} : work'[v] = work[v]
    /\ work'[w] # Idle /\ work'[w].job = work[w].job
    /\ work'[w].phase = p /\ work'[w].next = n /\ work'[w].logged = l

LEMMA LeaveGoes ==
    ASSUME TInv, NEW w \in Procs, NEW p, p # "idle", work[w].phase # "idle", Leave(w, p)
    PROVE  Goes(w, p, 1, 0)
<1>1. work[w] \in Work_ /\ work \in [Procs -> Work_ \cup {Idle}] BY AtWork DEF TInv, WorkType
<1>2. /\ \A v \in Procs \ {w} : work'[v] = work[v]
      /\ work'[w] = [work[w] EXCEPT !.phase = p, !.asked = 0, !.faces = <<>>, !.next = 1, !.logged = 0]
  BY <1>1 DEF Leave
<1>3. /\ work'[w].phase = p /\ work'[w].job = work[w].job
      /\ work'[w].next = 1 /\ work'[w].logged = 0
  BY <1>1, <1>2 DEF Work_
<1>4. work'[w] # Idle BY <1>3 DEF Idle
<1> QED BY <1>2, <1>3, <1>4 DEF Goes

LEMMA CallsGo ==
    ASSUME TInv, NEW w \in Procs, AskTriton(w) \/ TritonAnswers(w) \/ Match(w)
    PROVE  /\ work[w].phase = "calls"
           /\ \E p \in {"calls", "log"} : Goes(w, p, work[w].next, work[w].logged)
<1>1. work[w].phase = "calls" BY DEF AskTriton, TritonAnswers, Match
<1>2. work[w] \in Work_ /\ work \in [Procs -> Work_ \cup {Idle}] BY <1>1, AtWork DEF TInv, WorkType
<1>3. CASE AskTriton(w)
  <2>1. /\ \A v \in Procs \ {w} : work'[v] = work[v]
        /\ work'[w] = [work[w] EXCEPT !.asked = work[w].asked + 1]
    BY <1>2, <1>3 DEF AskTriton
  <2>2. /\ work'[w].phase = "calls" /\ work'[w].job = work[w].job
        /\ work'[w].next = work[w].next /\ work'[w].logged = work[w].logged
    BY <1>1, <1>2, <2>1 DEF Work_
  <2>3. work'[w] # Idle BY <2>2 DEF Idle
  <2> QED BY <1>1, <2>1, <2>2, <2>3 DEF Goes
<1>4. CASE TritonAnswers(w)
  <2>1. work' = work /\ work[w] # Idle BY <1>1, <1>4 DEF TritonAnswers, taskVars, Idle
  <2> QED BY <1>1, <2>1 DEF Goes
<1>5. CASE Match(w)
  <2>1. PICK faces : /\ \A v \in Procs \ {w} : work'[v] = work[v]
                     /\ work'[w] = [work[w] EXCEPT !.faces = faces, !.phase = "log", !.asked = 0]
    BY <1>2, <1>5 DEF Match
  <2>2. /\ work'[w].phase = "log" /\ work'[w].job = work[w].job
        /\ work'[w].next = work[w].next /\ work'[w].logged = work[w].logged
    BY <1>2, <2>1 DEF Work_
  <2>3. work'[w] # Idle BY <2>2 DEF Idle
  <2> QED BY <1>1, <2>1, <2>2, <2>3 DEF Goes
<1> QED BY <1>3, <1>4, <1>5

\* A sighting is committed for the face a worker inserts.
LEMMA Committed ==
    ASSUME TInv, NEW w \in Procs, Inserting(w), Commit(w)
    PROVE  /\ work[w].job \in Jobs /\ work[w].next \in 1 .. MaxFaces
           /\ rows' = [rows EXCEPT ![work[w].job] =
                         [rows[work[w].job] EXCEPT ![work[w].next] = rows[work[w].job][work[w].next] + 1]]
<1>1. work[w].job \in Jobs /\ work[w].next \in 1 .. MaxFaces BY AtWork DEF Inserting, TInv
<1>2. PICK j \in Jobs, f \in 1 .. MaxFaces : j = work[w].job /\ f = work[w].next BY <1>1
<1>3. rows' = [rows EXCEPT ![j] = [rows[j] EXCEPT ![f] = rows[j][f] + 1]] BY <1>2 DEF Commit
<1> QED BY <1>2, <1>3

LEMMA LogGoes ==
    ASSUME TInv, NEW w \in Procs,
           CheckSighting(w) \/ LogSighting(w) \/ SkipSighting(w) \/ AbandonSightings(w)
    PROVE  /\ work[w].phase \in {"log", "insert"} /\ work[w].next \in Nat \ {0} /\ work[w].logged \in Nat
           /\ CheckSighting(w) => Goes(w, "insert", work[w].next, work[w].logged)
           /\ LogSighting(w) => Goes(w, "log", work[w].next + 1, work[w].logged + 1)
           /\ SkipSighting(w) => Goes(w, "log", work[w].next + 1, work[w].logged)
           /\ AbandonSightings(w) => \E n \in Nat : /\ n >= work[w].next /\ (Inserting(w) => n > work[w].next)
                                                    /\ Goes(w, "log", n, 0)
<1>1. work[w].phase \in {"log", "insert"}
  BY DEF CheckSighting, LogSighting, SkipSighting, AbandonSightings, Logging, Inserting
<1>2. work[w] \in Work_ /\ work \in [Procs -> Work_ \cup {Idle}] BY <1>1, AtWork DEF TInv, WorkType
<1>3. /\ work[w].next \in Nat \ {0} /\ work[w].logged \in Nat /\ Len(work[w].faces) \in 0 .. MaxFaces
      /\ Within(work[w]) /\ work[w].next <= Len(work[w].faces) + 1
  BY <1>1, AtWork DEF TInv
<1>4. ASSUME NEW p \in {"log", "insert"}, NEW n, NEW l, \A v \in Procs \ {w} : work'[v] = work[v],
             work'[w] = [work[w] EXCEPT !.phase = p, !.next = n, !.logged = l]
      PROVE  Goes(w, p, n, l)
  <2>1. /\ work'[w].phase = p /\ work'[w].job = work[w].job /\ work'[w].next = n /\ work'[w].logged = l
    BY <1>2, <1>4 DEF Work_
  <2>2. work'[w] # Idle BY <2>1 DEF Idle
  <2> QED BY <1>4, <2>1, <2>2 DEF Goes
<1>5. CheckSighting(w) => Goes(w, "insert", work[w].next, work[w].logged)
  <2> SUFFICES ASSUME CheckSighting(w) PROVE Goes(w, "insert", work[w].next, work[w].logged)
    OBVIOUS
  <2>1. /\ \A v \in Procs \ {w} : work'[v] = work[v]
        /\ work'[w] = [work[w] EXCEPT !.phase = "insert"]
    BY <1>2 DEF CheckSighting
  <2>2. [work[w] EXCEPT !.phase = "insert"] =
        [work[w] EXCEPT !.phase = "insert", !.next = work[w].next, !.logged = work[w].logged]
    BY <1>2 DEF Work_
  <2> QED BY <1>4, <2>1, <2>2
<1>6. ASSUME NEW n, Advance(w, n) PROVE Goes(w, "log", work[w].next + 1, work[w].logged + n)
  <2>1. /\ \A v \in Procs \ {w} : work'[v] = work[v]
        /\ work'[w] = [work[w] EXCEPT !.phase = "log", !.next = work[w].next + 1,
                                      !.logged = work[w].logged + n]
    BY <1>2, <1>6 DEF Advance
  <2> QED BY <1>4, <2>1
<1>7. LogSighting(w) => Goes(w, "log", work[w].next + 1, work[w].logged + 1)
  BY <1>6 DEF LogSighting
<1>8. SkipSighting(w) => Goes(w, "log", work[w].next + 1, work[w].logged)
  <2>1. SkipSighting(w) => Goes(w, "log", work[w].next + 1, work[w].logged + 0)
    BY <1>6 DEF SkipSighting
  <2>2. work[w].logged + 0 = work[w].logged BY <1>3
  <2> QED BY <2>1, <2>2
<1>9. ASSUME AbandonSightings(w)
      PROVE  \E n \in Nat : n >= work[w].next /\ (Inserting(w) => n > work[w].next) /\ Goes(w, "log", n, 0)
  <2>1. PICK n \in Nat : n = Len(work[w].faces) + 1 BY <1>3
  <2>2. /\ \A v \in Procs \ {w} : work'[v] = work[v]
        /\ work'[w] = [work[w] EXCEPT !.phase = "log", !.next = n, !.logged = 0]
    BY <1>2, <1>9, <2>1 DEF AbandonSightings
  <2>3. Goes(w, "log", n, 0) BY <1>4, <2>2
  <2>4. Inserting(w) => work[w].next <= Len(work[w].faces) BY <1>3 DEF Inserting, Within
  <2>5. n >= work[w].next /\ (Inserting(w) => n > work[w].next) BY <1>3, <2>1, <2>4
  <2> QED BY <2>3, <2>5
<1> QED BY <1>1, <1>3, <1>5, <1>7, <1>8, <1>9

\* The three that deal with the sighting a worker is at: they go past it if it is committed.
Deals(w) == LogSighting(w) \/ SkipSighting(w) \/ AbandonSightings(w)

LEMMA DealGoes ==
    ASSUME TInv, NEW w \in Procs, Deals(w)
    PROVE  /\ work[w].phase \in {"log", "insert"}
           /\ rows' = rows \/ (Inserting(w) /\ Commit(w))
           /\ \E n \in Nat, l \in Nat :
                 /\ Goes(w, "log", n, l)
                 /\ n >= work[w].next /\ (Inserting(w) => n > work[w].next)
                 /\ \/ l = work[w].logged /\ ((rows' = rows /\ uncertain' = uncertain)
                                               \/ work[w].job \in uncertain')
                    \/ l = 0 /\ work[w].job \in uncertain'
                    \/ l = work[w].logged + 1 /\ Inserting(w) /\ Commit(w)
<1>1. /\ work[w].phase \in {"log", "insert"} /\ work[w].next \in Nat \ {0} /\ work[w].logged \in Nat
      /\ work[w].next + 1 \in Nat /\ work[w].next + 1 > work[w].next /\ work[w].logged + 1 \in Nat
  <2>1. work[w].phase \in {"log", "insert"} /\ work[w].next \in Nat \ {0} /\ work[w].logged \in Nat
    BY LogGoes DEF Deals
  <2> QED BY <2>1
<1>2. rows' = rows \/ (Inserting(w) /\ Commit(w))
  BY DEF Deals, LogSighting, SkipSighting, AbandonSightings, Upset
<1>3. CASE LogSighting(w)
  <2>1. Goes(w, "log", work[w].next + 1, work[w].logged + 1) /\ Inserting(w) /\ Commit(w)
    BY <1>3, LogGoes DEF LogSighting
  <2>2. work[w].next + 1 >= work[w].next BY <1>1
  <2> QED BY <1>1, <1>2, <2>1, <2>2
<1>4. CASE SkipSighting(w)
  <2>1. Goes(w, "log", work[w].next + 1, work[w].logged) BY <1>4, LogGoes
  <2>2. (rows' = rows /\ uncertain' = uncertain) \/ work[w].job \in uncertain'
    BY <1>4 DEF SkipSighting, Upset
  <2>3. work[w].next + 1 >= work[w].next BY <1>1
  <2> QED BY <1>1, <1>2, <2>1, <2>2, <2>3
<1>5. CASE AbandonSightings(w)
  <2>1. PICK n \in Nat : n >= work[w].next /\ (Inserting(w) => n > work[w].next) /\ Goes(w, "log", n, 0)
    BY <1>5, LogGoes
  <2>2. work[w].job \in uncertain' BY <1>5 DEF AbandonSightings, Upset
  <2> QED BY <1>1, <1>2, <2>1, <2>2
<1> QED BY <1>3, <1>4, <1>5 DEF Deals

WorksOn(w) ==
    \/ AskTriton(w) \/ TritonAnswers(w) \/ Match(w) \/ CheckSighting(w) \/ Deals(w)
    \/ StoreSuccess(w) \/ Resend(w) \/ ResendFails(w) \/ StoreRetry(w) \/ GiveUp(w) \/ StoreFailure(w)
    \/ StoreFails(w) \/ Ack(w) \/ MatchFails(w) \/ TimesOut(w) \/ Lose(w)

\* The steps of a worker that end its work on a message.
Leaves(w) ==
    \/ StoreSuccess(w) \/ Resend(w) \/ ResendFails(w) \/ StoreRetry(w) \/ GiveUp(w) \/ StoreFailure(w)
    \/ StoreFails(w) \/ MatchFails(w) \/ TimesOut(w)

LEMMA LeavesPhase ==
    ASSUME NEW w \in Procs, Leaves(w)
    PROVE  work[w].phase # "idle" /\ \E p \in {"resent", "failed", "ack"} : Leave(w, p)
BY DEF Leaves, StoreSuccess, Resend, ResendFails, StoreRetry, GiveUp, StoreFailure, StoreFails, MatchFails,
   TimesOut

LEMMA TroubleGrows ==
    ASSUME TInv, Trouble \/ TimeLimit \/ UNCHANGED boundVars
    PROVE  losses' = losses /\ timeouts' >= timeouts /\ losses' >= losses
<1>1. losses \in Nat /\ timeouts \in Nat BY DEF TInv, RestType
<1> QED BY <1>1 DEF Trouble, TimeLimit, boundVars

\* Whatever a worker does is about the job of its message.
LEMMA OneJob ==
    ASSUME TInv, NEW w \in Procs, WorksOn(w)
    PROVE  /\ work[w] # Idle /\ work[w].job \in Jobs /\ work[w].try \in 0 .. MaxRetries
           /\ work[w].phase # "idle" /\ Touches(w, work[w].job)
<1>1. work[w].phase # "idle"
  <2>1. CASE Lose(w) BY <2>1 DEF Lose, TInv, WorkType, Work_
  <2>2. CASE AskTriton(w) \/ TritonAnswers(w) \/ Match(w) \/ CheckSighting(w) \/ Deals(w) \/ Ack(w)
    BY <2>2 DEF AskTriton, TritonAnswers, Match, CheckSighting, Logging, Deals, LogSighting, SkipSighting,
       AbandonSightings, Inserting, Ack
  <2> QED BY <2>1, <2>2, LeavesPhase DEF WorksOn, Leaves
<1>2. work[w] # Idle /\ work[w].job \in Jobs /\ work[w].try \in 0 .. MaxRetries
  BY <1>1, AtWork DEF TInv, Idle
<1>3. request' = request /\ uncertain \subseteq uncertain'
  BY DEF WorksOn, AskTriton, TritonAnswers, Match, CheckSighting, Deals, LogSighting, SkipSighting,
     AbandonSightings, Upset, StoreSuccess, Resend, ResendFails, StoreRetry, GiveUp, StoreFailure,
     StoreFails, Ack, MatchFails, TimesOut, Lose, apiVars, historyVars
<1>4. losses' >= losses /\ timeouts' >= timeouts
  <2>1. CASE Lose(w)
    <3>1. losses \in Nat /\ timeouts \in Nat BY DEF TInv, RestType
    <3> QED BY <2>1, <3>1 DEF Lose
  <2>2. CASE Trouble \/ TimeLimit \/ UNCHANGED boundVars BY <2>2, TroubleGrows
  <2> QED BY <2>1, <2>2
    DEF WorksOn, AskTriton, TritonAnswers, Match, CheckSighting, Deals, LogSighting, SkipSighting,
        AbandonSightings, Upset, StoreSuccess, Resend, ResendFails, StoreRetry, GiveUp, StoreFailure,
        StoreFails, Ack, MatchFails, TimesOut
<1>5. /\ \A v \in Procs \ {w} : work'[v] = work[v]
      /\ work'[w] = Idle \/ work'[w].job = work[w].job
  <2>1. CASE AskTriton(w) \/ TritonAnswers(w) \/ Match(w) BY <2>1, CallsGo DEF Goes
  <2>2. CASE CheckSighting(w) BY <2>2, LogGoes DEF Goes
  <2>3. CASE Deals(w) BY <2>3, DealGoes DEF Goes
  <2>4. CASE Ack(w) \/ Lose(w)
    <3>1. work' = [work EXCEPT ![w] = Idle] BY <2>4 DEF Ack, Lose
    <3> QED BY <3>1 DEF TInv, WorkType
  <2>5. CASE Leaves(w)
    <3>1. PICK p \in {"resent", "failed", "ack"} : Leave(w, p) BY <2>5, LeavesPhase
    <3>2. Goes(w, p, 1, 0) BY <1>1, <3>1, LeaveGoes
    <3> QED BY <3>2 DEF Goes
  <2> QED BY <2>1, <2>2, <2>3, <2>4, <2>5 DEF WorksOn, Leaves
<1>6. ASSUME NEW i \in Jobs \ {work[w].job}
      PROVE  queue'[i] = queue[i] /\ rows'[i] = rows[i] /\ result'[i] = result[i]
  <2>1. queue'[i] = queue[i]
    <3>1. CASE queue' = queue BY <3>1
    <3>2. ASSUME NEW k, queue' = Enqueued(work[w].job, k) PROVE queue'[i] = queue[i]
      BY <3>2 DEF Enqueued, TInv, QueueOK
    <3> QED BY <3>1, <3>2
      DEF WorksOn, AskTriton, TritonAnswers, Match, CheckSighting, Deals, LogSighting, SkipSighting,
          AbandonSightings, StoreSuccess, Resend, ResendFails, StoreRetry, GiveUp, StoreFailure,
          StoreFails, Ack, MatchFails, TimesOut, Lose, taskVars
  <2>2. rows'[i] = rows[i]
    <3>1. CASE rows' = rows BY <3>1
    <3>2. CASE Deals(w) BY <3>2, DealGoes, Committed DEF TInv, RestType
    <3> QED BY <3>1, <3>2
      DEF WorksOn, AskTriton, TritonAnswers, Match, CheckSighting, StoreSuccess, Resend, ResendFails,
          StoreRetry, GiveUp, StoreFailure, StoreFails, Ack, MatchFails, TimesOut, Lose, taskVars
  <2>3. result'[i] = result[i]
    <3>1. CASE result' = result BY <3>1
    <3>2. ASSUME NEW state, NEW n, Store(work[w].job, state, n) PROVE result'[i] = result[i]
      BY <3>2 DEF Store, TInv, RestType
    <3> QED BY <3>1, <3>2
      DEF WorksOn, AskTriton, TritonAnswers, Match, CheckSighting, Deals, LogSighting, SkipSighting,
          AbandonSightings, StoreSuccess, Resend, ResendFails, StoreRetry, GiveUp, StoreFailure,
          StoreFails, Ack, MatchFails, TimesOut, Lose, taskVars
  <2> QED BY <2>1, <2>2, <2>3
<1> QED BY <1>1, <1>2, <1>3, <1>4, <1>5, <1>6 DEF Touches

\* A message is taken to be worked on, or only to be acknowledged.
Takes(w, j, k) == Take(w, j, k) \/ StartFails(w, j, k)

LEMMA TakeTouches ==
    ASSUME TInv, NEW w \in Procs, NEW j \in Jobs, NEW k \in Tries, Takes(w, j, k)
    PROVE  /\ Touches(w, j) /\ work[w] = Idle /\ work'[w] # Idle /\ work'[w].job = j
           /\ work'[w].phase \in {"calls", "ack"} /\ work'[w].logged = 0 /\ rows' = rows
           /\ losses' = losses /\ uncertain' = uncertain
           /\ queue[j][k] > 0 /\ queue'[j][k] = queue[j][k] - 1
           /\ \A l \in Tries \ {k} : queue'[j][l] = queue[j][l]
           /\ Store(j, "STARTED", 0) \/ result' = result
<1>1. losses' = losses /\ losses' >= losses /\ timeouts' >= timeouts
  BY TroubleGrows DEF Takes, Take, StartFails
<1>2. /\ work[w] = Idle /\ rows' = rows /\ request' = request /\ queue[j][k] > 0
      /\ Store(j, "STARTED", 0) \/ result' = result
      /\ uncertain' = uncertain
  BY DEF Takes, Take, StartFails, apiVars, historyVars
<1>a. PICK p \in {"calls", "ack"} : work' = [work EXCEPT ![w] = Delivery(p, j, k)]
  BY DEF Takes, Take, StartFails
<1>3. \A v \in Procs \ {w} : work'[v] = work[v] BY <1>a DEF TInv, WorkType
<1>4. work'[w] = Delivery(p, j, k) BY <1>a DEF TInv, WorkType
<1>5. work'[w].job = j /\ work'[w].phase = p /\ work'[w].logged = 0 BY <1>4 DEF Delivery
<1>6. work'[w] # Idle BY <1>5 DEF Idle
<1>7. queue \in [Jobs -> [Tries -> Nat]] BY DEF TInv, QueueOK
<1>8. queue' = [queue EXCEPT ![j][k] = @ - 1] BY DEF Takes, Take, StartFails
<1>9. /\ queue'[j] = [queue[j] EXCEPT ![k] = queue[j][k] - 1]
      /\ \A i \in Jobs \ {j} : queue'[i] = queue[i]
  BY <1>7, <1>8
<1>10. queue'[j][k] = queue[j][k] - 1 /\ \A l \in Tries \ {k} : queue'[j][l] = queue[j][l]
  BY <1>7, <1>9
<1>11. \A i \in Jobs \ {j} : result'[i] = result[i] BY <1>2 DEF Store, TInv, RestType
<1> QED BY <1>1, <1>2, <1>3, <1>5, <1>6, <1>9, <1>10, <1>11 DEF Touches

----------------------------------------------------------------------------
(* Faces are multiplied by deaths only *)

LEMMA CountInit == ASSUME Init PROVE CountInv
<1>1. TInv BY TypesInit
<1>2. Untouched BY DEF Init, Untouched, Held, NoResult
<1>3. ASSUME NEW j \in Jobs, NEW f \in 1 .. MaxFaces PROVE Chance(j, f)
  <2>1. \A k \in Tries : queue[j][k] = 0 BY DEF Init
  <2>2. Messages(j) = {}
    <3>1. \A k \in Tries : 1 .. queue[j][k] = {} BY <2>1
    <3> QED BY <3>1 DEF Messages
  <2>3. Loggers(j, f) = {} BY DEF Init, Loggers
  <2>4. rows[j][f] = 0 /\ losses = 0 BY DEF Init
  <2> QED BY <2>2, <2>3, <2>4, FS_EmptySet DEF Chance
<1> QED BY <1>1, <1>2, <1>3 DEF CountInv

LEMMA UntouchedStep ==
    ASSUME Untouched, NEW w \in Procs, NEW j \in Jobs, Touches(w, j),
           work[w] # Idle \/ \E k \in Tries : queue[j][k] # 0
    PROVE  Untouched'
<1>1. request[j] # "none" BY DEF Untouched, Touches, Held
<1>2. ASSUME NEW i \in Jobs, request'[i] = "none"
      PROVE  /\ \A k \in Tries : queue'[i][k] = 0
             /\ ~Held(i)'
             /\ \A f \in 1 .. MaxFaces : rows'[i][f] = 0
             /\ result'[i].state = "PENDING"
  <2>1. request[i] = "none" /\ i # j BY <1>1, <1>2 DEF Touches
  <2>2. ~Held(i)' BY <2>1 DEF Untouched, Touches, Held
  <2> QED BY <2>1, <2>2 DEF Untouched, Touches
<1> QED BY <1>2 DEF Untouched

\* The other jobs have what they had.
LEMMA OthersChance ==
    ASSUME CountInv, TInv', NEW w \in Procs, NEW j \in Jobs, Touches(w, j),
           NEW i \in Jobs \ {j}, NEW f \in 1 .. MaxFaces
    PROVE  Chance(i, f)'
<1>1. Messages(i)' = Messages(i) BY DEF Touches, Messages
<1>2. Loggers(i, f)' \subseteq Loggers(i, f) BY DEF Touches, Loggers, MayLog
<1>3. IsFiniteSet(Messages(i)) /\ IsFiniteSet(Loggers(i, f)) /\ Chance(i, f) BY DEF CountInv, Chance
<1>4. Grows(Messages(i), Messages(i)', 0) /\ Grows(Loggers(i, f), Loggers(i, f)', 0)
  BY <1>1, <1>2, <1>3, NoMore
<1>5. rows'[i][f] + 0 + 0 + losses <= rows[i][f] + losses'
  <2>1. rows \in [Jobs -> [1 .. MaxFaces -> Nat]] /\ losses \in Nat /\ losses' \in Nat
    BY DEF CountInv, TInv, RestType
  <2>2. rows[i] \in [1 .. MaxFaces -> Nat] BY <2>1
  <2>3. rows[i][f] \in Nat /\ rows'[i][f] = rows[i][f] /\ losses' >= losses BY <2>2 DEF Touches
  <2> QED BY <2>1, <2>3
<1> QED BY <1>3, <1>4, <1>5, ChanceStep DEF CountInv

LEMMA TakeChance ==
    ASSUME CountInv, TInv', NEW w \in Procs, NEW j \in Jobs, NEW k \in Tries, Takes(w, j, k),
           NEW f \in 1 .. MaxFaces
    PROVE  Chance(j, f)'
<1>0. /\ TInv /\ QueueOK /\ Chance(j, f)
      /\ IsFiniteSet(Messages(j)) /\ IsFiniteSet(Loggers(j, f))
  BY DEF CountInv, TInv, Chance
<1>1. PICK m \in Messages(j) : Messages(j)' \subseteq Messages(j) \ {m}
  BY <1>0, TakeTouches, MessageTaken
<1>2. Loggers(j, f)' \subseteq Loggers(j, f) \cup {w} BY <1>0, TakeTouches DEF Touches, Loggers, MayLog
<1>3. Grows(Messages(j), Messages(j)', -1) BY <1>0, <1>1, OneLess
<1>4. Grows(Loggers(j, f), Loggers(j, f)', 1) BY <1>0, <1>2, OneMore
<1>5. rows'[j][f] + -1 + 1 + losses <= rows[j][f] + losses'
  <2>1. rows \in [Jobs -> [1 .. MaxFaces -> Nat]] /\ losses \in Nat BY <1>0 DEF TInv, RestType
  <2>2. rows[j] \in [1 .. MaxFaces -> Nat] BY <2>1
  <2>3. rows[j][f] \in Nat /\ rows' = rows /\ losses' = losses BY <1>0, <2>2, TakeTouches
  <2> QED BY <2>1, <2>3
<1> QED BY <1>0, <1>3, <1>4, <1>5, ChanceStep

LEMMA WorkChance ==
    ASSUME CountInv, TInv', NEW w \in Procs, NEW j \in Jobs, j = work[w].job, WorksOn(w),
           NEW f \in 1 .. MaxFaces
    PROVE  Chance(j, f)'
<1>0. /\ TInv /\ QueueOK /\ work[w] # Idle /\ Touches(w, j)
      /\ work[w].phase # "idle" /\ work[w].try \in 0 .. MaxRetries
  BY OneJob DEF CountInv, TInv
<1>1. Chance(j, f) /\ IsFiniteSet(Messages(j)) /\ IsFiniteSet(Loggers(j, f))
  BY <1>0 DEF CountInv, Chance
<1>2. /\ losses \in Nat /\ losses' \in Nat /\ losses' >= losses /\ rows[j][f] \in Nat
      /\ rows[j] \in [1 .. MaxFaces -> Nat]
  <2>1. rows \in [Jobs -> [1 .. MaxFaces -> Nat]] /\ losses \in Nat /\ losses' \in Nat
    BY DEF CountInv, TInv, RestType
  <2>2. rows[j] \in [1 .. MaxFaces -> Nat] BY <1>0, <2>1
  <2> QED BY <1>0, <2>1, <2>2 DEF Touches
<1>3. w \in Loggers(j, f) <=> MayLog(w, f) BY <1>0 DEF Loggers
<1>4. Loggers(j, f)' \subseteq Loggers(j, f) \cup {w} BY <1>0 DEF Touches, Loggers, MayLog
<1>5. queue' = queue => Grows(Messages(j), Messages(j)', 0)
  BY <1>1, NoMore DEF Messages
<1>6. ASSUME queue' = queue, rows' = rows, w \in Loggers(j, f)' => w \in Loggers(j, f)
      PROVE  Chance(j, f)'
  <2>1. Grows(Loggers(j, f), Loggers(j, f)', 0) BY <1>1, <1>4, <1>6, NoMore
  <2>2. rows'[j][f] + 0 + 0 + losses <= rows[j][f] + losses' BY <1>2, <1>6
  <2> QED BY <1>0, <1>1, <1>5, <1>6, <2>1, <2>2, ChanceStep
<1>7. ASSUME NEW p \in {"resent", "failed", "ack"}, Leave(w, p)
      PROVE  w \notin Loggers(j, f)'
  <2>1. p # "idle" OBVIOUS
  <2>2. Goes(w, p, 1, 0) BY <1>0, <1>7, <2>1, LeaveGoes
  <2> QED BY <2>2 DEF Goes, Loggers, MayLog
<1>8. CASE AskTriton(w) \/ TritonAnswers(w) \/ Match(w)
  <2>1. w \in Loggers(j, f) BY <1>0, <1>3, <1>8, CallsGo DEF MayLog
  <2> QED BY <1>6, <1>8, <2>1 DEF AskTriton, TritonAnswers, Match, taskVars
<1>9. CASE CheckSighting(w)
  <2>1. work[w].phase \in {"log", "insert"} /\ Goes(w, "insert", work[w].next, work[w].logged)
    BY <1>0, <1>9, LogGoes
  <2>2. w \in Loggers(j, f)' => w \in Loggers(j, f) BY <1>3, <2>1 DEF Goes, Loggers, MayLog
  <2> QED BY <1>6, <1>9, <2>2 DEF CheckSighting
<1>10. CASE Deals(w)
  <2>1. PICK n \in Nat, l \in Nat :
          /\ Goes(w, "log", n, l) /\ work[w].phase \in {"log", "insert"}
          /\ n >= work[w].next /\ (Inserting(w) => n > work[w].next)
    BY <1>0, <1>10, DealGoes
  <2>2. work[w].next \in Nat \ {0} BY <1>0, AtWork DEF TInv
  <2>3. w \in Loggers(j, f)' => n <= f BY <2>1 DEF Goes, Loggers, MayLog
  <2>4. w \in Loggers(j, f)' => w \in Loggers(j, f) BY <1>3, <2>1, <2>2, <2>3 DEF MayLog
  <2>5. queue' = queue /\ losses' = losses
    <3>1. queue' = queue /\ (Trouble \/ TimeLimit \/ UNCHANGED boundVars)
      BY <1>10 DEF Deals, LogSighting, SkipSighting, AbandonSightings, Upset
    <3> QED BY <1>0, <3>1, TroubleGrows
  <2>6. CASE rows' = rows BY <1>6, <2>4, <2>5, <2>6
  <2>7. CASE Inserting(w) /\ Commit(w)
    <3>1. /\ work[w].next \in 1 .. MaxFaces
          /\ rows' = [rows EXCEPT ![j] = [rows[j] EXCEPT ![work[w].next] = rows[j][work[w].next] + 1]]
      BY <1>0, <2>7, Committed
    <3>2. rows'[j] = [rows[j] EXCEPT ![work[w].next] = rows[j][work[w].next] + 1]
      BY <1>0, <3>1 DEF TInv, RestType
    <3>3. CASE f = work[w].next
      <4>1. w \in Loggers(j, f) /\ w \notin Loggers(j, f)'
        BY <1>3, <2>1, <2>2, <2>3, <2>7, <3>3 DEF MayLog
      <4>2. Loggers(j, f)' \subseteq Loggers(j, f) \ {w} BY <1>4, <4>1
      <4>3. Grows(Loggers(j, f), Loggers(j, f)', -1) BY <1>1, <4>1, <4>2, OneLess
      <4>4. rows'[j][f] = rows[j][f] + 1 BY <1>2, <3>2, <3>3
      <4>5. rows'[j][f] + 0 + -1 + losses <= rows[j][f] + losses' BY <1>2, <2>5, <4>4
      <4> QED BY <1>0, <1>1, <1>5, <2>5, <4>3, <4>5, ChanceStep
    <3>4. CASE f # work[w].next
      <4>1. rows'[j][f] = rows[j][f] BY <1>2, <3>2, <3>4
      <4>2. Grows(Loggers(j, f), Loggers(j, f)', 0) BY <1>1, <1>4, <2>4, NoMore
      <4>3. rows'[j][f] + 0 + 0 + losses <= rows[j][f] + losses' BY <1>2, <2>5, <4>1
      <4> QED BY <1>0, <1>1, <1>5, <2>5, <4>2, <4>3, ChanceStep
    <3> QED BY <3>3, <3>4
  <2> QED BY <1>0, <1>10, <2>6, <2>7, DealGoes
<1>11. CASE Leaves(w) /\ queue' = queue
  <2>1. PICK p \in {"resent", "failed", "ack"} : Leave(w, p) BY <1>11, LeavesPhase
  <2>2. w \notin Loggers(j, f)' BY <1>7, <2>1
  <2>3. rows' = rows
    BY <1>11 DEF Leaves, StoreSuccess, Resend, ResendFails, StoreRetry, GiveUp, StoreFailure, StoreFails,
       MatchFails, TimesOut
  <2> QED BY <1>6, <1>11, <2>2, <2>3
<1>12. CASE Ack(w)
  <2>1. work'[w] = Idle BY <1>12 DEF Ack, CountInv, TInv, WorkType
  <2>2. w \notin Loggers(j, f)' BY <2>1 DEF Loggers
  <2> QED BY <1>6, <1>12, <2>2 DEF Ack
<1>13. CASE (Resend(w) \/ ResendFails(w)) /\ queue' = Enqueued(j, work[w].try + 1)
  <2>1. w \in Loggers(j, f) BY <1>3, <1>13 DEF Resend, ResendFails, MayLog
  <2>2. w \notin Loggers(j, f)' BY <1>7, <1>13 DEF Resend, ResendFails
  <2>3. Loggers(j, f)' \subseteq Loggers(j, f) \ {w} BY <1>4, <2>2
  <2>4. Grows(Loggers(j, f), Loggers(j, f)', -1) BY <1>1, <2>1, <2>3, OneLess
  <2>5. rows' = rows /\ losses' = losses
    BY <1>0, <1>13, TroubleGrows DEF Resend, ResendFails
  <2>6. work[w].try + 1 \in 0 .. MaxRetries
    BY <1>0, <1>13, IngestAssumption DEF Resend, ResendFails, MayRetry
  <2>7. \E m : Messages(j)' \subseteq Messages(j) \cup {m} BY <1>0, <1>13, <2>6, MessageSent
  <2>8. Grows(Messages(j), Messages(j)', 1) BY <1>1, <2>7, OneMore
  <2>9. rows'[j][f] + 1 + -1 + losses <= rows[j][f] + losses' BY <1>2, <2>5
  <2> QED BY <1>0, <1>1, <2>4, <2>8, <2>9, ChanceStep
<1>14. CASE Lose(w)
  <2>1. work'[w] = Idle BY <1>14 DEF Lose, CountInv, TInv, WorkType
  <2>2. w \notin Loggers(j, f)' BY <2>1 DEF Loggers
  <2>3. Grows(Loggers(j, f), Loggers(j, f)', 0) BY <1>1, <1>4, <2>2, NoMore
  <2>4. PICK k \in 0 .. MaxRetries : k = work[w].try BY <1>0
  <2>5. queue' = Enqueued(j, k) /\ rows' = rows /\ losses' = losses + 1 BY <1>14, <2>4 DEF Lose
  <2>6. \E m : Messages(j)' \subseteq Messages(j) \cup {m} BY <1>0, <2>5, MessageSent
  <2>7. Grows(Messages(j), Messages(j)', 1) BY <1>1, <2>6, OneMore
  <2>8. rows'[j][f] = rows[j][f] /\ losses' = losses + 1 BY <2>5
  <2>9. rows'[j][f] + 1 + 0 + losses <= rows[j][f] + losses'
    <3>1. rows[j][f] \in Nat /\ losses \in Nat BY <1>2
    <3> QED BY <2>8, <3>1
  <2> QED BY <1>0, <1>1, <2>3, <2>7, <2>9, ChanceStep
<1>15. Leaves(w) => queue' = queue \/ ((Resend(w) \/ ResendFails(w)) /\ queue' = Enqueued(j, work[w].try + 1))
  BY DEF Leaves, StoreSuccess, Resend, ResendFails, StoreRetry, GiveUp, StoreFailure, StoreFails,
     MatchFails, TimesOut
<1> QED BY <1>8, <1>9, <1>10, <1>11, <1>12, <1>13, <1>14, <1>15 DEF WorksOn, Leaves

\* The API sends one message of a job nobody has heard of, or nothing.
Quiet(j) == queue'[j] = queue[j] /\ (request'[j] = "none" => request[j] = "none")
Sends(j) ==
    /\ request[j] = "none" /\ request'[j] # "none"
    /\ queue' = Enqueued(j, 0)

Calls(j) ==
    \/ \E b \in Batches : Refuse(j, b) \/ Enqueue(j, b) \/ EnqueueFails(j, b)
    \/ SetTaskOwner(j) \/ Accept(j) \/ RecognizePhoto(j) \/ OwnerLapses(j)

LEMMA ApiSends ==
    ASSUME TInv, NEW j \in Jobs, Calls(j)
    PROVE  /\ work' = work /\ rows' = rows /\ result' = result /\ losses' = losses
           /\ timeouts' = timeouts /\ uncertain' = uncertain
           /\ \A i \in Jobs \ {j} : Quiet(i)
           /\ Quiet(j) \/ Sends(j)
<1>0. /\ request \in [Jobs -> {"none", "refused", "unavailable", "enqueued", "owned",
                                "accepted", "error", "recognized"}]
      /\ queue \in [Jobs -> [Tries -> Nat]]
  BY DEF TInv, RestType, QueueOK
<1>1. /\ work' = work /\ rows' = rows /\ result' = result /\ losses' = losses
      /\ timeouts' = timeouts /\ uncertain' = uncertain
  BY DEF Calls, Refuse, Enqueue, EnqueueFails, SetTaskOwner, Accept, EmitAdvisory, RecognizePhoto,
     OwnerLapses, Trouble, taskVars, historyVars, boundVars
<1>2. request' = request \/ \E a : a # "none" /\ Answer(j, a)
  BY DEF Calls, Refuse, Enqueue, EnqueueFails, SetTaskOwner, Accept, RecognizePhoto, OwnerLapses
<1>3. \A i \in Jobs : request'[i] = "none" => request[i] = "none" BY <1>0, <1>2 DEF Answer
<1>4. \/ queue' = queue
      \/ /\ request[j] = "none" /\ queue' = Enqueued(j, 0)
         /\ \E a \in {"enqueued", "unavailable"} : Answer(j, a)
  BY DEF Calls, Refuse, Enqueue, EnqueueFails, SetTaskOwner, Accept, RecognizePhoto, OwnerLapses, taskVars
<1>5. CASE queue' = queue BY <1>1, <1>3, <1>5 DEF Quiet
<1>6. CASE /\ request[j] = "none" /\ queue' = Enqueued(j, 0)
           /\ \E a \in {"enqueued", "unavailable"} : Answer(j, a)
  <2>1. Sends(j) BY <1>0, <1>6 DEF Sends, Answer
  <2>2. \A i \in Jobs \ {j} : queue'[i] = queue[i] BY <1>0, <1>6 DEF Enqueued
  <2> QED BY <1>1, <1>3, <2>1, <2>2 DEF Quiet
<1> QED BY <1>4, <1>5, <1>6

LEMMA QuietChance ==
    ASSUME CountInv, TInv', NEW j \in Jobs, NEW f \in 1 .. MaxFaces, queue'[j] = queue[j],
           work' = work, rows' = rows, losses' = losses
    PROVE  Chance(j, f)'
<1>1. Messages(j)' = Messages(j) /\ Loggers(j, f)' = Loggers(j, f) BY DEF Messages, Loggers, MayLog
<1> QED BY <1>1 DEF CountInv, Chance

LEMMA SendChance ==
    ASSUME CountInv, TInv', NEW j \in Jobs, NEW f \in 1 .. MaxFaces, Sends(j),
           work' = work, rows' = rows, losses' = losses
    PROVE  Chance(j, f)'
<1>1. /\ \A k \in Tries : queue[j][k] = 0
      /\ ~Held(j) /\ rows[j][f] = 0
      /\ TInv /\ QueueOK /\ losses \in Nat
  BY DEF CountInv, Untouched, Sends, TInv, RestType
<1>2. Messages(j) = {}
  <2>1. \A k \in Tries : 1 .. queue[j][k] = {} BY <1>1
  <2> QED BY <2>1 DEF Messages
<1>3. Loggers(j, f) = {} /\ Loggers(j, f)' = {} BY <1>1 DEF Loggers, Held
<1>4. \E m : Messages(j)' \subseteq {m}
  <2>1. 0 \in 0 .. MaxRetries BY IngestAssumption
  <2>2. \E m : Messages(j)' \subseteq Messages(j) \cup {m} BY <1>1, <2>1, MessageSent DEF Sends
  <2> QED BY <1>2, <2>2
<1>5. PICK m : Messages(j)' \subseteq {m} BY <1>4
<1>6. IsFiniteSet({}) /\ Cardinality({}) = 0 BY FS_EmptySet
<1>7. Grows({}, Messages(j)', 1) BY <1>5, <1>6, OneMore
<1>8. Cardinality(Messages(j)') \in Nat /\ Cardinality(Messages(j)') <= 1
  BY <1>6, <1>7, FS_CardinalityType DEF Grows
<1> QED BY <1>1, <1>3, <1>6, <1>7, <1>8 DEF Chance, Grows

LEMMA CountStep == ASSUME CountInv, [Next]_vars PROVE CountInv'
<1>0. TInv /\ TInv' BY TypesStep DEF CountInv
<1>1. ASSUME NEW w \in Procs, NEW j \in Jobs, NEW k \in Tries, Takes(w, j, k) PROVE CountInv'
  <2>1. Touches(w, j) /\ queue[j][k] > 0 BY <1>0, <1>1, TakeTouches
  <2>2. Untouched' BY <2>1, UntouchedStep DEF CountInv
  <2>3. \A i \in Jobs, f \in 1 .. MaxFaces : Chance(i, f)'
    BY <1>0, <1>1, <2>1, TakeChance, OthersChance
  <2> QED BY <1>0, <2>2, <2>3 DEF CountInv
<1>2. ASSUME NEW w \in Procs, WorksOn(w) PROVE CountInv'
  <2>1. PICK j \in Jobs : j = work[w].job BY <1>0, <1>2, OneJob
  <2>2. Touches(w, j) /\ work[w] # Idle BY <1>0, <1>2, <2>1, OneJob
  <2>3. Untouched' BY <2>2, UntouchedStep DEF CountInv
  <2>4. \A i \in Jobs, f \in 1 .. MaxFaces : Chance(i, f)'
    BY <1>0, <1>2, <2>1, <2>2, WorkChance, OthersChance
  <2> QED BY <1>0, <2>3, <2>4 DEF CountInv
<1>3. ASSUME NEW j \in Jobs, Calls(j) PROVE CountInv'
  <2>1. /\ work' = work /\ rows' = rows /\ result' = result /\ losses' = losses
        /\ \A i \in Jobs \ {j} : Quiet(i)
        /\ Quiet(j) \/ Sends(j)
    BY <1>0, <1>3, ApiSends
  <2>2. Untouched' BY <2>1 DEF CountInv, Untouched, Quiet, Sends, Held
  <2>3. ASSUME NEW i \in Jobs, NEW f \in 1 .. MaxFaces PROVE Chance(i, f)'
    <3>1. CASE Quiet(i) BY <1>0, <2>1, <3>1, QuietChance DEF Quiet
    <3>2. CASE Sends(i) BY <1>0, <2>1, <3>2, SendChance
    <3> QED BY <2>1, <3>1, <3>2
  <2> QED BY <1>0, <2>2, <2>3 DEF CountInv
<1>4. CASE UNCHANGED <<request, queue, work, rows, result, losses>>
  <2>1. Untouched' BY <1>4 DEF CountInv, Untouched, Held
  <2>2. \A i \in Jobs, f \in 1 .. MaxFaces : Chance(i, f)' BY <1>0, <1>4, QuietChance
  <2> QED BY <1>0, <2>1, <2>2 DEF CountInv
<1>5. ASSUME NEW s \in Students, Deactivate(s) PROVE CountInv'
  BY <1>4, <1>5 DEF Deactivate, apiVars, taskVars, boundVars
<1>6. CASE UNCHANGED vars BY <1>4, <1>6 DEF vars, apiVars, taskVars
<1> QED BY <1>1, <1>2, <1>3, <1>5, <1>6 DEF Next, Work, Fault, Takes, Calls, WorksOn, Deals

LEMMA CountHolds == Spec => []CountInv
BY CountInit, CountStep, PTL DEF Spec

\* A face is committed once for the request that was made and once more for each worker
\* that died with the message: never by a retry, a skipped sighting or a time limit.
THEOREM RowsNeedLosses == Spec => []ExtraRowsNeedLoss
<1>1. ASSUME CountInv PROVE ExtraRowsNeedLoss
  <2>1. ASSUME NEW j \in Jobs, NEW f \in 1 .. MaxFaces PROVE rows[j][f] <= 1 + losses
    <3>1. Chance(j, f) /\ TInv BY <1>1 DEF CountInv
    <3>2. Cardinality(Messages(j)) \in Nat /\ Cardinality(Loggers(j, f)) \in Nat
      BY <3>1, FS_CardinalityType DEF Chance
    <3>3. rows \in [Jobs -> [1 .. MaxFaces -> Nat]] /\ losses \in Nat BY <3>1 DEF TInv, RestType
    <3>4. rows[j] \in [1 .. MaxFaces -> Nat] BY <3>3
    <3>5. rows[j][f] \in Nat BY <3>4
    <3> QED BY <3>1, <3>2, <3>3, <3>5 DEF Chance
  <2> QED BY <2>1 DEF ExtraRowsNeedLoss
<1> QED BY <1>1, CountHolds, PTL

----------------------------------------------------------------------------
(* What a job was told to have logged *)

LEMMA SameSightings ==
    ASSUME NEW j \in Jobs, rows'[j] = rows[j]
    PROVE  Sightings(j)' = Sightings(j) /\ RowsOf(j)' = RowsOf(j)
BY DEF Sightings, RowsOf

LEMMA NoSightings ==
    ASSUME TInv, NEW j \in Jobs
    PROVE  /\ Unlogged(j) => RowsOf(j) = 0 /\ IsFiniteSet(Sightings(j))
           /\ (\A f \in 1 .. MaxFaces : rows[j][f] = 0) => Unlogged(j)
<1>1. ASSUME \A f \in 1 .. MaxFaces : rows[j][f] = 0 PROVE Unlogged(j)
  <2>1. \A f \in 1 .. MaxFaces : 1 .. rows[j][f] = {} BY <1>1
  <2> QED BY <2>1 DEF Unlogged, Sightings
<1> QED BY <1>1, FS_EmptySet DEF Unlogged, RowsOf

LEMMA SightingAdded ==
    ASSUME TInv, NEW j \in Jobs, NEW f \in 1 .. MaxFaces, IsFiniteSet(Sightings(j)),
           rows'[j] = [rows[j] EXCEPT ![f] = rows[j][f] + 1]
    PROVE  IsFiniteSet(Sightings(j)') /\ RowsOf(j)' = RowsOf(j) + 1
<1>1. rows \in [Jobs -> [1 .. MaxFaces -> Nat]] BY DEF TInv, RestType
<1>2. rows[j] \in [1 .. MaxFaces -> Nat] BY <1>1
<1>3. rows[j][f] \in Nat BY <1>2
<1>4. PICK n \in Nat : n = rows[j][f] + 1 BY <1>3
<1>5. /\ rows'[j][f] = n /\ \A g \in 1 .. MaxFaces \ {f} : rows'[j][g] = rows[j][g]
  BY <1>2, <1>4
<1>6. 1 .. rows'[j][f] = (1 .. rows[j][f]) \cup {n} BY <1>3, <1>4, <1>5
<1>7. <<f, n>> \notin Sightings(j)
  <2>1. n \notin 1 .. rows[j][f] BY <1>3, <1>4
  <2> QED BY <2>1 DEF Sightings
<1>8. ASSUME NEW x \in Sightings(j)' PROVE x \in Sightings(j) \cup {<<f, n>>}
  <2>1. PICK g \in 1 .. MaxFaces : x \in {g} \X (1 .. rows'[j][g]) BY DEF Sightings
  <2>2. PICK i \in 1 .. rows'[j][g] : x = <<g, i>> BY <2>1
  <2>3. CASE g = f BY <1>6, <2>2, <2>3 DEF Sightings
  <2>4. CASE g # f BY <1>5, <2>1, <2>4 DEF Sightings
  <2> QED BY <2>3, <2>4
<1>9. ASSUME NEW x \in Sightings(j) PROVE x \in Sightings(j)'
  <2>1. PICK g \in 1 .. MaxFaces : x \in {g} \X (1 .. rows[j][g]) BY DEF Sightings
  <2>2. x \in {g} \X (1 .. rows'[j][g])
    <3>1. CASE g = f BY <1>6, <2>1, <3>1
    <3>2. CASE g # f BY <1>5, <2>1, <3>2
    <3> QED BY <3>1, <3>2
  <2> QED BY <2>2 DEF Sightings
<1>10. <<f, n>> \in Sightings(j)'
  <2>1. n \in 1 .. rows'[j][f] BY <1>6
  <2> QED BY <2>1 DEF Sightings
<1>11. Sightings(j)' = Sightings(j) \cup {<<f, n>>} BY <1>8, <1>9, <1>10
<1> QED BY <1>7, <1>11, FS_AddElement DEF RowsOf

LEMMA CommittedAdds ==
    ASSUME TInv, NEW w \in Procs, NEW j \in Jobs, j = work[w].job, IsFiniteSet(Sightings(j)),
           Inserting(w), Commit(w)
    PROVE  IsFiniteSet(Sightings(j)') /\ RowsOf(j)' = RowsOf(j) + 1
<1>1. PICK f \in 1 .. MaxFaces :
        rows' = [rows EXCEPT ![j] = [rows[j] EXCEPT ![f] = rows[j][f] + 1]]
  BY Committed
<1>2. rows'[j] = [rows[j] EXCEPT ![f] = rows[j][f] + 1] BY <1>1 DEF TInv, RestType
<1> QED BY <1>2, SightingAdded

\* What does not touch the sightings, messages, result or carriers of a job leaves it as told.
LEMMA SameTold ==
    ASSUME TInv, TInv', NEW j \in Jobs, Followed(j), queue'[j] = queue[j], rows'[j] = rows[j],
           result'[j] = result[j], timeouts' >= timeouts, uncertain \subseteq uncertain',
           \A v \in Procs : Carries(v, j)' => Carries(v, j) /\ work'[v] = work[v]
    PROVE  Followed(j)'
<1>1. timeouts' = 0 => timeouts = 0 BY DEF TInv, RestType
<1>2. Lone(j)' BY DEF Followed, Lone, Queued
<1>3. Sightings(j)' = Sightings(j) /\ RowsOf(j)' = RowsOf(j) BY SameSightings
<1>4. Unlogged(j)' <=> Unlogged(j) BY <1>3 DEF Unlogged
<1>5. Told(j)' BY <1>1, <1>3, <1>4 DEF Followed, Told, Queued
<1> QED BY <1>2, <1>5 DEF Followed

LEMMA TakeTold ==
    ASSUME TInv, TInv', NEW w \in Procs, NEW j \in Jobs, NEW k \in Tries, Takes(w, j, k), Followed(j)
    PROVE  Followed(j)'
<1>1. /\ Touches(w, j) /\ work[w] = Idle /\ work'[w] # Idle /\ work'[w].job = j
      /\ work'[w].phase \in {"calls", "ack"} /\ work'[w].logged = 0 /\ rows' = rows
      /\ queue[j][k] > 0 /\ queue'[j][k] = queue[j][k] - 1
      /\ \A l \in Tries \ {k} : queue'[j][l] = queue[j][l]
      /\ Store(j, "STARTED", 0) \/ result' = result
  BY TakeTouches
<1>2. Queued(j) BY <1>1 DEF Queued
<1>3. \A v \in Procs : ~Carries(v, j) BY <1>2 DEF Followed, Lone
<1>4. ~Queued(j)'
  <2>1. \A l \in Tries : queue[j][l] \in Nat BY DEF TInv, QueueOK
  <2>2. queue'[j][k] = 0 /\ \A l \in Tries \ {k} : queue'[j][l] = 0
    BY <1>1, <2>1 DEF Followed, Lone
  <2> QED BY <2>2 DEF Queued
<1>5. \A v \in Procs : Carries(v, j)' => v = w BY <1>1, <1>3 DEF Touches, Carries
<1>6. Lone(j)' BY <1>4, <1>5 DEF Lone, Queued
<1>7. Unlogged(j) /\ result[j].state \notin Settled BY <1>2 DEF Followed, Told
<1>8. result'[j].state \notin Settled
  BY <1>1, <1>7 DEF Store, Settled, TInv, RestType
<1>9. Unlogged(j)' BY <1>1, <1>7, SameSightings DEF Unlogged
<1>10. Told(j)' BY <1>1, <1>4, <1>5, <1>8, <1>9 DEF Told, Settled
<1> QED BY <1>6, <1>10 DEF Followed

\* A worker that goes on with the one message that there is of its job.
LEMMA CarrierGoes ==
    ASSUME NEW w \in Procs, NEW j \in Jobs, Followed(j), Touches(w, j), Carries(w, j), Carries(w, j)',
           queue'[j] = queue[j], result'[j] = result[j],
           work'[w].phase = "calls" => Unlogged(j)' /\ work'[w].logged = 0,
           work'[w].phase \in {"log", "insert"} /\ j \notin uncertain' => work'[w].logged = RowsOf(j)',
           work'[w].phase = "failed" /\ timeouts' = 0 => Unlogged(j)'
    PROVE  Followed(j)'
<1>1. ~Queued(j) /\ \A v \in Procs : Carries(v, j) => v = w BY DEF Followed, Lone
<1>2. ~Queued(j)' BY <1>1 DEF Queued
<1>3. \A v \in Procs : Carries(v, j)' => v = w BY <1>1 DEF Touches, Carries
<1>4. Lone(j)' BY <1>2, <1>3 DEF Lone, Queued
<1>5. result'[j].state \notin Settled BY DEF Followed, Told
<1>6. Told(j)' BY <1>2, <1>3, <1>5 DEF Told, Settled
<1> QED BY <1>4, <1>6 DEF Followed

\* A worker that stops carrying leaves nobody who does.
LEMMA CarrierStops ==
    ASSUME NEW w \in Procs, NEW j \in Jobs, Followed(j), Touches(w, j), Carries(w, j), ~Carries(w, j)'
    PROVE  /\ \A k \in Tries : ~(queue[j][k] > 0)
           /\ \A v \in Procs : ~Carries(v, j)'
           /\ result[j].state \notin Settled
<1>1. ~Queued(j) /\ \A v \in Procs : Carries(v, j) => v = w BY DEF Followed, Lone
<1>2. \A v \in Procs : ~Carries(v, j)' BY <1>1 DEF Touches, Carries
<1> QED BY <1>1, <1>2 DEF Followed, Told, Queued

LEMMA OnlyMessage ==
    ASSUME QueueOK, NEW j \in Jobs, NEW k \in 0 .. MaxRetries, queue' = Enqueued(j, k),
           \A l \in Tries : ~(queue[j][l] > 0)
    PROVE  \A l, m \in Tries : queue'[j][l] > 0 /\ queue'[j][m] > 0 => l = m /\ queue'[j][l] = 1
<1>1. queue'[j][k] = queue[j][k] + 1 /\ \A l \in Tries \ {k} : queue'[j][l] = queue[j][l]
  BY EnqueuedType, IngestAssumption
<1>2. k \in Tries BY IngestAssumption DEF Tries
<1>3. \A l \in Tries : queue[j][l] \in Nat BY DEF QueueOK
<1>4. \A l \in Tries : queue[j][l] = 0 BY <1>3
<1>5. queue'[j][k] = 1 /\ \A l \in Tries \ {k} : queue'[j][l] = 0 BY <1>1, <1>2, <1>4
<1>6. ASSUME NEW l \in Tries, queue'[j][l] > 0 PROVE l = k /\ queue'[j][l] = 1
  BY <1>5, <1>6
<1> QED BY <1>6

LEMMA WorkTold ==
    ASSUME TInv, TInv', NEW w \in Procs, NEW j \in Jobs, j = work[w].job, WorksOn(w),
           IsFiniteSet(Sightings(j)), Followed(j), losses' = 0
    PROVE  Followed(j)'
<1>0. /\ work[w] # Idle /\ work[w].phase # "idle" /\ Touches(w, j)
      /\ work[w].try \in 0 .. MaxRetries
  BY OneJob
<1>1. Unlogged(j) => RowsOf(j) = 0 BY NoSightings
<1>2. rows'[j] = rows[j] =>
        RowsOf(j)' = RowsOf(j) /\ (Unlogged(j)' <=> Unlogged(j))
  BY SameSightings DEF Unlogged
<1>3. ASSUME NEW p \in {"resent", "failed", "ack"}, Leave(w, p)
      PROVE  work'[w].phase = p /\ work'[w].job = j
  <2>1. p # "idle" OBVIOUS
  <2>2. Goes(w, p, 1, 0) BY <1>0, <1>3, <2>1, LeaveGoes
  <2> QED BY <2>2 DEF Goes
<1>4. work[w].phase \in Carrying => Carries(w, j) BY DEF Carries
<1>5. CASE AskTriton(w) \/ TritonAnswers(w) \/ Match(w)
  <2>1. /\ queue' = queue /\ result' = result /\ rows' = rows
    BY <1>5 DEF AskTriton, TritonAnswers, Match, taskVars
  <2>2. PICK p \in {"calls", "log"} : Goes(w, p, work[w].next, work[w].logged) BY <1>5, CallsGo
  <2>3. work[w].phase = "calls" BY <1>5, CallsGo
  <2>4. Carries(w, j) /\ Carries(w, j)' BY <1>4, <2>2, <2>3 DEF Goes, Carries, Carrying
  <2>5. Unlogged(j) /\ work[w].logged = 0 BY <2>3, <2>4 DEF Followed, Told
  <2>6. /\ Unlogged(j)' /\ work'[w].logged = 0 /\ work'[w].logged = RowsOf(j)'
        /\ work'[w].phase # "failed"
    BY <1>1, <1>2, <2>1, <2>2, <2>5 DEF Goes
  <2> QED BY <1>0, <2>1, <2>4, <2>6, CarrierGoes
<1>a. CASE CheckSighting(w)
  <2>1. queue' = queue /\ result' = result /\ rows' = rows /\ uncertain' = uncertain
    BY <1>a DEF CheckSighting, historyVars
  <2>2. /\ work[w].phase = "log" /\ work'[w].phase = "insert" /\ work'[w].job = j
        /\ work'[w].logged = work[w].logged
    BY <1>a, LogGoes DEF Goes, CheckSighting, Logging
  <2>3. Carries(w, j) /\ Carries(w, j)' BY <1>4, <2>2 DEF Carries, Carrying
  <2>4. j \notin uncertain => work[w].logged = RowsOf(j) BY <2>2, <2>3 DEF Followed, Told
  <2> QED BY <1>0, <1>2, <2>1, <2>2, <2>3, <2>4, CarrierGoes
<1>6. CASE Deals(w)
  <2>1. queue' = queue /\ result' = result
    BY <1>6 DEF Deals, SkipSighting, LogSighting, AbandonSightings
  <2>2. PICK n \in Nat, l \in Nat :
          /\ Goes(w, "log", n, l)
          /\ \/ l = work[w].logged /\ ((rows' = rows /\ uncertain' = uncertain) \/ j \in uncertain')
             \/ l = 0 /\ j \in uncertain'
             \/ l = work[w].logged + 1 /\ Inserting(w) /\ Commit(w)
    BY <1>6, DealGoes
  <2>3. work[w].phase \in {"log", "insert"} BY <1>6, DealGoes
  <2>4. work'[w].phase = "log" /\ work'[w].job = j /\ work'[w].logged = l BY <2>2 DEF Goes
  <2>5. Carries(w, j) /\ Carries(w, j)' BY <1>4, <2>3, <2>4 DEF Carries, Carrying
  <2>6. j \notin uncertain => work[w].logged = RowsOf(j) BY <2>3, <2>5 DEF Followed, Told
  <2>7. j \notin uncertain' => l = RowsOf(j)'
    <3>1. SUFFICES ASSUME j \notin uncertain' PROVE l = RowsOf(j)' OBVIOUS
    <3>2. j \notin uncertain BY <1>0, <3>1 DEF Touches
    <3>3. CASE l = work[w].logged /\ rows' = rows BY <1>2, <2>6, <3>2, <3>3
    <3>4. CASE l = work[w].logged + 1 /\ Inserting(w) /\ Commit(w)
      <4>1. RowsOf(j)' = RowsOf(j) + 1 BY <3>4, CommittedAdds
      <4> QED BY <2>6, <3>2, <3>4, <4>1
    <3> QED BY <2>2, <3>1, <3>3, <3>4
  <2> QED BY <1>0, <2>1, <2>4, <2>5, <2>7, CarrierGoes
<1>7. CASE MatchFails(w) \/ GiveUp(w) \/ TimesOut(w)
  <2>1. queue' = queue /\ result' = result /\ rows' = rows
    BY <1>7 DEF MatchFails, GiveUp, TimesOut
  <2>2. work[w].phase \in {"calls", "log", "insert"} /\ Leave(w, "failed")
    BY <1>7 DEF MatchFails, GiveUp, TimesOut
  <2>3. work'[w].phase = "failed" /\ work'[w].job = j BY <1>3, <2>2
  <2>4. Carries(w, j) /\ Carries(w, j)' BY <1>4, <2>2, <2>3 DEF Carries, Carrying
  <2>5. timeouts' = 0 => Unlogged(j)'
    <3>1. CASE TimesOut(w)
      <4>1. timeouts \in Nat /\ timeouts' = timeouts + 1 BY <3>1 DEF TimesOut, TimeLimit, TInv, RestType
      <4> QED BY <4>1
    <3>2. CASE ~TimesOut(w)
      <4>1. work[w].phase = "calls" BY <1>7, <3>2 DEF MatchFails, GiveUp
      <4>2. Unlogged(j) BY <2>4, <4>1 DEF Followed, Told
      <4> QED BY <1>2, <2>1, <4>2
    <3> QED BY <3>1, <3>2
  <2> QED BY <1>0, <2>1, <2>3, <2>4, <2>5, CarrierGoes
<1>8. CASE StoreSuccess(w) \/ StoreFailure(w)
  <2>1. queue' = queue /\ rows' = rows /\ timeouts' = timeouts
    BY <1>8 DEF StoreSuccess, StoreFailure, boundVars
  <2>2. work[w].phase \in {"log", "failed"} /\ Leave(w, "ack") BY <1>8 DEF StoreSuccess, StoreFailure
  <2>3. Carries(w, j) /\ ~Carries(w, j)' BY <1>3, <1>4, <2>2 DEF Carries, Carrying
  <2>4. /\ \A k \in Tries : ~(queue[j][k] > 0)
        /\ \A v \in Procs : ~Carries(v, j)'
        /\ result[j].state \notin Settled
    BY <1>0, <2>3, CarrierStops
  <2>5. ~Queued(j)' BY <2>1, <2>4 DEF Queued
  <2>6. Lone(j)' BY <2>4, <2>5 DEF Lone, Queued
  <2>7. CASE StoreSuccess(w)
    <3>1. work[w].phase = "log" /\ Store(j, "SUCCESS", work[w].logged) BY <2>7 DEF StoreSuccess
    <3>2. j \notin uncertain' => work[w].logged = RowsOf(j)'
      BY <1>0, <1>2, <2>1, <2>3, <3>1 DEF Followed, Told, Touches
    <3>3. result'[j].state = "SUCCESS" /\ result'[j].logged = work[w].logged
      BY <2>4, <3>1 DEF Store, Settled, TInv, RestType
    <3>4. Told(j)' BY <2>4, <2>5, <3>2, <3>3 DEF Told, Settled
    <3> QED BY <2>6, <3>4 DEF Followed
  <2>8. CASE StoreFailure(w)
    <3>1. work[w].phase = "failed" /\ Store(j, "FAILURE", 0) BY <2>8 DEF StoreFailure
    <3>2. timeouts' = 0 => Unlogged(j)' BY <1>2, <2>1, <2>3, <3>1 DEF Followed, Told
    <3>3. result'[j].state = "FAILURE" BY <2>4, <3>1 DEF Store, Settled, TInv, RestType
    <3>4. Told(j)' BY <2>4, <2>5, <3>2, <3>3 DEF Told, Settled
    <3> QED BY <2>6, <3>4 DEF Followed
  <2> QED BY <1>8, <2>7, <2>8
<1>9. CASE (Resend(w) \/ ResendFails(w)) /\ queue' = Enqueued(j, work[w].try + 1)
  <2>1. /\ work[w].phase = "calls" /\ rows' = rows /\ result' = result
        /\ \E p \in {"resent", "ack"} : Leave(w, p)
    BY <1>9 DEF Resend, ResendFails
  <2>2. PICK k \in 0 .. MaxRetries : queue' = Enqueued(j, k)
    BY <1>0, <1>9, IngestAssumption DEF Resend, ResendFails, MayRetry
  <2>3. Carries(w, j) /\ ~Carries(w, j)' BY <1>3, <1>4, <2>1 DEF Carries, Carrying
  <2>4. /\ \A l \in Tries : ~(queue[j][l] > 0)
        /\ \A v \in Procs : ~Carries(v, j)'
        /\ result[j].state \notin Settled
    BY <1>0, <2>3, CarrierStops
  <2>5. \A l, m \in Tries : queue'[j][l] > 0 /\ queue'[j][m] > 0 => l = m /\ queue'[j][l] = 1
    BY <2>2, <2>4, OnlyMessage DEF TInv
  <2>6. Lone(j)' BY <2>4, <2>5 DEF Lone
  <2>7. Unlogged(j)' BY <1>2, <2>1, <2>3 DEF Followed, Told
  <2>8. Told(j)' BY <2>1, <2>4, <2>7 DEF Told, Settled
  <2> QED BY <2>6, <2>8 DEF Followed
<1>b. CASE StoreFails(w) \/ (ResendFails(w) /\ queue' = queue)
  <2>1. /\ Leave(w, "ack") /\ rows' = rows /\ queue' = queue /\ result' = result
        /\ work[w].phase \in {"calls", "log", "failed", "resent"}
    BY <1>b DEF StoreFails, ResendFails
  <2>2. ~Carries(w, j)' BY <1>3, <2>1 DEF Carries, Carrying
  <2>3. CASE Carries(w, j)
    <3>1. /\ \A l \in Tries : ~(queue[j][l] > 0)
          /\ \A v \in Procs : ~Carries(v, j)'
          /\ result[j].state \notin Settled
      BY <1>0, <2>2, <2>3, CarrierStops
    <3>2. ~Queued(j)' BY <2>1, <3>1 DEF Queued
    <3>3. Lone(j)' /\ Told(j)' BY <2>1, <3>1, <3>2 DEF Lone, Told, Queued, Settled
    <3> QED BY <3>3 DEF Followed
  <2>4. CASE ~Carries(w, j)
    <3>1. \A v \in Procs : Carries(v, j)' => Carries(v, j) /\ work'[v] = work[v]
      BY <1>0, <2>2 DEF Touches, Carries
    <3> QED BY <1>0, <2>1, <3>1, SameTold DEF Touches
  <2> QED BY <2>3, <2>4
<1>10. CASE StoreRetry(w)
  <2>1. /\ work[w].phase = "resent" /\ Leave(w, "ack") /\ rows' = rows /\ queue' = queue
        /\ timeouts' = timeouts /\ uncertain' = uncertain /\ Store(j, "RETRY", 0)
    BY <1>10 DEF StoreRetry, boundVars, historyVars
  <2>2. ~Carries(w, j) /\ ~Carries(w, j)' BY <1>3, <2>1 DEF Carries, Carrying
  <2>3. \A v \in Procs : Carries(v, j)' => Carries(v, j) /\ work'[v] = work[v]
    BY <1>0, <2>2 DEF Touches, Carries
  <2>4. Lone(j)' BY <2>1, <2>3 DEF Followed, Lone, Queued
  <2>5. \/ result'[j] = result[j]
        \/ result'[j].state = "RETRY"
    BY <2>1 DEF Store, TInv, RestType
  <2>6. Told(j)' BY <1>2, <2>1, <2>3, <2>5 DEF Followed, Told, Queued, Settled
  <2> QED BY <2>4, <2>6 DEF Followed
<1>11. CASE Ack(w)
  <2>1. /\ rows' = rows /\ queue' = queue /\ result' = result /\ timeouts' = timeouts
        /\ work' = [work EXCEPT ![w] = Idle]
    BY <1>11 DEF Ack, boundVars
  <2>2. ~Carries(w, j)' BY <2>1 DEF Carries, Carrying, Idle, TInv, WorkType
  <2>3. \A v \in Procs : Carries(v, j)' => Carries(v, j) /\ work'[v] = work[v]
    BY <1>0, <2>2 DEF Touches, Carries
  <2> QED BY <1>0, <2>1, <2>3, SameTold DEF Touches
<1>12. CASE Lose(w) BY <1>12 DEF Lose, TInv, RestType
<1>13. Resend(w) \/ ResendFails(w) => queue' = Enqueued(j, work[w].try + 1) \/ queue' = queue
  BY DEF Resend, ResendFails
<1>14. Resend(w) => queue' = Enqueued(j, work[w].try + 1) BY DEF Resend
<1> QED BY <1>5, <1>6, <1>7, <1>8, <1>9, <1>10, <1>11, <1>12, <1>13, <1>14, <1>a, <1>b DEF WorksOn

\* The sightings of a job stay, and those that a step adds are finite.
LEMMA SightingsGrow ==
    ASSUME TInv, [Next]_vars, NEW j \in Jobs, IsFiniteSet(Sightings(j))
    PROVE  IsFiniteSet(Sightings(j)') /\ RowsOf(j) \in Nat /\ RowsOf(j)' \in Nat /\ RowsOf(j)' >= RowsOf(j)
<1>0. RowsOf(j) \in Nat BY FS_CardinalityType DEF RowsOf
<1>a. ASSUME rows'[j] = rows[j]
      PROVE  IsFiniteSet(Sightings(j)') /\ RowsOf(j)' \in Nat /\ RowsOf(j)' >= RowsOf(j)
  BY <1>0, <1>a, SameSightings
<1>1. CASE rows' = rows BY <1>0, <1>1, <1>a
<1>2. ASSUME NEW w \in Procs, Deals(w)
      PROVE  IsFiniteSet(Sightings(j)') /\ RowsOf(j)' \in Nat /\ RowsOf(j)' >= RowsOf(j)
  <2>1. CASE rows' = rows BY <1>a, <2>1
  <2>2. CASE Inserting(w) /\ Commit(w) /\ work[w].job = j
    <3>1. IsFiniteSet(Sightings(j)') /\ RowsOf(j)' = RowsOf(j) + 1 BY <2>2, CommittedAdds
    <3> QED BY <1>0, <3>1
  <2>3. CASE Inserting(w) /\ Commit(w) /\ work[w].job # j
    <3>1. rows'[j] = rows[j] BY <2>3, Committed DEF TInv, RestType
    <3> QED BY <1>a, <3>1
  <2> QED BY <1>2, <2>1, <2>2, <2>3, DealGoes
<1>3. ASSUME NEW i \in Jobs, Calls(i) PROVE rows' = rows BY <1>3, ApiSends
<1>4. ASSUME NEW s \in Students, Deactivate(s) PROVE rows' = rows BY <1>4 DEF Deactivate, taskVars
<1>5. ASSUME NEW w \in Procs, Work(w) \/ Fault(w), ~Deals(w)
      PROVE  rows' = rows
  BY <1>5 DEF Work, Fault, Deals, Take, StartFails, AskTriton, TritonAnswers, Match, CheckSighting,
     StoreSuccess, Resend, ResendFails, StoreRetry, GiveUp, StoreFailure, StoreFails, Ack, MatchFails,
     TimesOut, Lose, taskVars
<1>6. CASE UNCHANGED vars BY <1>1, <1>6 DEF vars, taskVars
<1> QED BY <1>0, <1>1, <1>2, <1>3, <1>4, <1>5, <1>6 DEF Next, Calls

LEMMA OthersTold ==
    ASSUME TInv, TInv', NEW w \in Procs, NEW j \in Jobs, Touches(w, j), NEW i \in Jobs \ {j}, Followed(i)
    PROVE  Followed(i)'
<1>1. \A v \in Procs : Carries(v, i)' => Carries(v, i) /\ work'[v] = work[v]
  BY DEF Touches, Carries, Carrying, Idle
<1> QED BY <1>1, SameTold DEF Touches

LEMMA SendTold ==
    ASSUME CountInv, NEW j \in Jobs, Sends(j), work' = work, rows' = rows, result' = result
    PROVE  Followed(j)'
<1>1. /\ \A k \in Tries : queue[j][k] = 0
      /\ ~Held(j) /\ \A f \in 1 .. MaxFaces : rows[j][f] = 0
      /\ result[j].state = "PENDING"
      /\ TInv /\ QueueOK
  BY DEF CountInv, Untouched, Sends, TInv
<1>2. \A v \in Procs : ~Carries(v, j)' BY <1>1 DEF Held, Carries, Carrying, Idle
<1>3. 0 \in 0 .. MaxRetries /\ \A l \in Tries : ~(queue[j][l] > 0) BY <1>1, IngestAssumption
<1>4. \A l, m \in Tries : queue'[j][l] > 0 /\ queue'[j][m] > 0 => l = m /\ queue'[j][l] = 1
  BY <1>1, <1>3, OnlyMessage DEF Sends
<1>5. Lone(j)' BY <1>2, <1>4 DEF Lone
<1>6. Unlogged(j)' BY <1>1, NoSightings, SameSightings DEF Unlogged
<1>7. Told(j)' BY <1>1, <1>2, <1>6 DEF Told, Settled
<1> QED BY <1>5, <1>7 DEF Followed

\* What a worker counts it has committed, and what it stores it has counted.
LEMMA ClaimStep == ASSUME TInv, TInv', ClaimInv, [Next]_vars PROVE ClaimInv'
<1>1. \A j \in Jobs : /\ IsFiniteSet(Sightings(j)') /\ RowsOf(j) \in Nat /\ RowsOf(j)' \in Nat
                      /\ RowsOf(j)' >= RowsOf(j)
  BY SightingsGrow DEF ClaimInv
<1>2. /\ \A j \in Jobs : result[j].logged \in Nat /\ result'[j].logged \in Nat
      /\ \A w \in Procs : work[w].phase # "idle" => work[w].job \in Jobs /\ work[w].logged \in Nat
  BY AtWork DEF TInv, RestType
<1>3. ASSUME \A j \in Jobs : result'[j] = result[j] \/ result'[j].logged = 0
                              \/ \E w \in Procs : /\ work[w].phase # "idle" /\ work[w].job = j
                                                  /\ result'[j].logged = work[w].logged,
             \A w \in Procs : work'[w].phase # "idle" =>
                \/ work'[w].logged = 0 /\ work'[w].job \in Jobs
                \/ /\ work[w].phase # "idle" /\ work'[w].job = work[w].job
                   /\ work'[w].logged = work[w].logged
                \/ /\ work[w].phase # "idle" /\ work'[w].job = work[w].job
                   /\ work'[w].logged = work[w].logged + 1
                   /\ \A j \in Jobs : work[w].job = j => RowsOf(j)' = RowsOf(j) + 1
      PROVE  ClaimInv'
  <2>1. ASSUME NEW j \in Jobs PROVE result'[j].logged <= RowsOf(j)'
    <3>0. result[j].logged <= RowsOf(j) BY DEF ClaimInv
    <3>1. CASE result'[j] = result[j] \/ result'[j].logged = 0 BY <1>1, <1>2, <3>0, <3>1
    <3>2. ASSUME NEW w \in Procs, work[w].phase # "idle", work[w].job = j,
                 result'[j].logged = work[w].logged
          PROVE  result'[j].logged <= RowsOf(j)'
      <4>1. work[w].logged <= RowsOf(j) BY <3>2 DEF ClaimInv
      <4> QED BY <1>1, <1>2, <3>2, <4>1
    <3> QED BY <1>3, <3>1, <3>2
  <2>2. ASSUME NEW w \in Procs, NEW j \in Jobs, work'[w].phase # "idle", work'[w].job = j
        PROVE  work'[w].logged <= RowsOf(j)'
    <3>1. CASE work'[w].logged = 0 BY <1>1, <3>1
    <3>2. CASE work[w].phase # "idle" /\ work'[w].job = work[w].job
      <4>1. work[w].logged <= RowsOf(j) /\ work[w].logged \in Nat BY <1>2, <2>2, <3>2 DEF ClaimInv
      <4>2. work'[w].logged = work[w].logged => work'[w].logged <= RowsOf(j)' BY <1>1, <4>1
      <4>3. work'[w].logged = work[w].logged + 1 /\ RowsOf(j)' = RowsOf(j) + 1
              => work'[w].logged <= RowsOf(j)'
        BY <1>1, <4>1
      <4>4. \/ work'[w].logged = 0
            \/ work'[w].logged = work[w].logged
            \/ work'[w].logged = work[w].logged + 1 /\ RowsOf(j)' = RowsOf(j) + 1
        BY <1>3, <2>2, <3>2
      <4> QED BY <3>1, <4>2, <4>3, <4>4
    <3> QED BY <1>3, <2>2, <3>1, <3>2
  <2> QED BY <1>1, <2>1, <2>2 DEF ClaimInv
<1>4. ASSUME UNCHANGED <<work, result>> PROVE ClaimInv' BY <1>3, <1>4
<1>5. ASSUME NEW w \in Procs, NEW j \in Jobs, NEW k \in Tries, Takes(w, j, k) PROVE ClaimInv'
  <2>1. /\ \A v \in Procs \ {w} : work'[v] = work[v]
        /\ work'[w].logged = 0 /\ work'[w].job = j
        /\ Store(j, "STARTED", 0) \/ result' = result
    BY <1>5, TakeTouches DEF Touches
  <2>2. \A i \in Jobs : result'[i] = result[i] \/ result'[i].logged = 0
    BY <2>1 DEF Store, TInv, RestType
  <2> QED BY <1>3, <2>1, <2>2
<1>6. ASSUME NEW w \in Procs, WorksOn(w) PROVE ClaimInv'
  <2>0. /\ work[w].phase # "idle" /\ work[w].job \in Jobs
        /\ \A v \in Procs \ {w} : work'[v] = work[v]
    BY <1>6, OneJob DEF Touches
  <2>1. \A i \in Jobs : \/ result'[i] = result[i] \/ result'[i].logged = 0
                        \/ work[w].job = i /\ result'[i].logged = work[w].logged
    <3>1. CASE result' = result BY <3>1
    <3>2. ASSUME NEW state, NEW n \in {0, work[w].logged}, Store(work[w].job, state, n)
          PROVE  \A i \in Jobs : \/ result'[i] = result[i] \/ result'[i].logged = 0
                                 \/ work[w].job = i /\ result'[i].logged = work[w].logged
      BY <2>0, <3>2 DEF Store, TInv, RestType
    <3> QED BY <1>6, <3>1, <3>2
      DEF WorksOn, AskTriton, TritonAnswers, Match, CheckSighting, Deals, LogSighting, SkipSighting,
          AbandonSightings, StoreSuccess, Resend, ResendFails, StoreRetry, GiveUp, StoreFailure,
          StoreFails, Ack, MatchFails, TimesOut, Lose, taskVars
  <2>2. work'[w].phase # "idle" =>
          /\ work'[w].job = work[w].job
          /\ \/ work'[w].logged = 0
             \/ work'[w].logged = work[w].logged
             \/ /\ work'[w].logged = work[w].logged + 1
                /\ \A j \in Jobs : work[w].job = j => RowsOf(j)' = RowsOf(j) + 1
    <3>1. CASE AskTriton(w) \/ TritonAnswers(w) \/ Match(w) BY <3>1, CallsGo DEF Goes
    <3>2. CASE CheckSighting(w) BY <3>2, LogGoes DEF Goes
    <3>3. CASE Deals(w)
      <4>1. PICK j \in Jobs : j = work[w].job BY <2>0
      <4>2. IsFiniteSet(Sightings(j)) BY DEF ClaimInv
      <4>3. Inserting(w) /\ Commit(w) => RowsOf(j)' = RowsOf(j) + 1 BY <4>1, <4>2, CommittedAdds
      <4> QED BY <3>3, <4>1, <4>3, DealGoes DEF Goes
    <3>4. CASE Ack(w) \/ Lose(w)
      <4>1. work' = [work EXCEPT ![w] = Idle] BY <3>4 DEF Ack, Lose
      <4> QED BY <4>1 DEF TInv, WorkType, Idle
    <3>5. CASE Leaves(w)
      <4>1. PICK p \in {"resent", "failed", "ack"} : Leave(w, p) BY <3>5, LeavesPhase
      <4>2. Goes(w, p, 1, 0) BY <2>0, <4>1, LeaveGoes
      <4> QED BY <4>2 DEF Goes
    <3> QED BY <1>6, <3>1, <3>2, <3>3, <3>4, <3>5 DEF WorksOn, Leaves
  <2>3. \A v \in Procs \ {w} : work'[v].phase # "idle" =>
          work[v].phase # "idle" /\ work'[v].job = work[v].job /\ work'[v].logged = work[v].logged
    BY <2>0
  <2> QED BY <1>3, <2>0, <2>1, <2>2, <2>3
<1>7. ASSUME NEW j \in Jobs, Calls(j) PROVE ClaimInv' BY <1>4, <1>7, ApiSends
<1>8. ASSUME NEW s \in Students, Deactivate(s) PROVE ClaimInv' BY <1>4, <1>8 DEF Deactivate, taskVars
<1>9. CASE UNCHANGED vars BY <1>4, <1>9 DEF vars, taskVars
<1> QED BY <1>5, <1>6, <1>7, <1>8, <1>9 DEF Next, Work, Fault, Takes, Calls, WorksOn, Deals

LEMMA ToldInit == ASSUME Init PROVE ToldInv /\ ClaimInv
<1>1. TInv BY TypesInit
<1>2. ASSUME NEW j \in Jobs PROVE IsFiniteSet(Sightings(j)) /\ RowsOf(j) = 0 /\ Followed(j)
  <2>1. Unlogged(j) BY <1>1, NoSightings DEF Init
  <2>2. \A w \in Procs : ~Carries(w, j) BY DEF Init, Carries, Carrying, Idle
  <2>3. \A k \in Tries : queue[j][k] = 0 BY DEF Init
  <2>4. result[j].state = "PENDING" BY DEF Init, NoResult
  <2>5. Lone(j) /\ Told(j) BY <2>1, <2>2, <2>3, <2>4 DEF Lone, Told, Queued, Settled
  <2> QED BY <1>1, <2>1, <2>5, NoSightings DEF Followed
<1>3. \A j \in Jobs : result[j].logged = 0 BY DEF Init, NoResult
<1>4. \A w \in Procs : work[w].phase = "idle" BY DEF Init, Idle
<1> QED BY <1>2, <1>3, <1>4 DEF ToldInv, ClaimInv

LEMMA ToldStep == ASSUME CountInv, ToldInv, ClaimInv, [Next]_vars PROVE ToldInv'
<1>0. TInv /\ TInv' BY TypesStep DEF CountInv
<1>1. \A j \in Jobs : IsFiniteSet(Sightings(j)) BY DEF ClaimInv
<1>3. SUFFICES ASSUME losses' = 0, NEW i \in Jobs PROVE Followed(i)'
  BY DEF ToldInv
<1>4. losses = 0 => Followed(i) BY DEF ToldInv
<1>5. losses' >= losses => losses = 0 BY <1>0, <1>3 DEF TInv, RestType
<1>6. ASSUME NEW w \in Procs, NEW j \in Jobs, NEW k \in Tries, Takes(w, j, k) PROVE Followed(i)'
  <2>1. Touches(w, j) BY <1>0, <1>6, TakeTouches
  <2>2. Followed(i) BY <1>4, <1>5, <2>1 DEF Touches
  <2> QED BY <1>0, <1>6, <2>1, <2>2, TakeTold, OthersTold
<1>7. ASSUME NEW w \in Procs, WorksOn(w) PROVE Followed(i)'
  <2>1. PICK j \in Jobs : j = work[w].job BY <1>0, <1>7, OneJob
  <2>2. Touches(w, j) BY <1>0, <1>7, <2>1, OneJob
  <2>3. Followed(i) BY <1>4, <1>5, <2>2 DEF Touches
  <2> QED BY <1>0, <1>1, <1>3, <1>7, <2>1, <2>2, <2>3, WorkTold, OthersTold
<1>8. ASSUME queue'[i] = queue[i], UNCHANGED <<work, rows, result, losses, timeouts, uncertain>>
      PROVE  Followed(i)'
  <2>1. Followed(i) BY <1>3, <1>4, <1>8
  <2>2. timeouts' >= timeouts BY <1>0, <1>8 DEF TInv, RestType
  <2>3. \A v \in Procs : Carries(v, i)' => Carries(v, i) /\ work'[v] = work[v] BY <1>8 DEF Carries
  <2> QED BY <1>0, <1>8, <2>1, <2>2, <2>3, SameTold
<1>9. ASSUME NEW j \in Jobs, Calls(j) PROVE Followed(i)'
  <2>1. /\ UNCHANGED <<work, rows, result, losses, timeouts, uncertain>>
        /\ Quiet(i) \/ Sends(i)
    BY <1>0, <1>9, ApiSends
  <2> QED BY <1>8, <2>1, SendTold DEF Quiet
<1>10. ASSUME NEW s \in Students, Deactivate(s) PROVE Followed(i)'
  BY <1>8, <1>10 DEF Deactivate, taskVars, historyVars, boundVars
<1>11. CASE UNCHANGED vars BY <1>8, <1>11 DEF vars, taskVars, historyVars
<1> QED BY <1>6, <1>7, <1>9, <1>10, <1>11 DEF Next, Work, Fault, Takes, Calls, WorksOn, Deals

LEMMA ToldHolds == Spec => [](ToldInv /\ ClaimInv)
<1>1. Init => ToldInv /\ ClaimInv BY ToldInit
<1>2. CountInv /\ CountInv' /\ ToldInv /\ ClaimInv /\ [Next]_vars => ToldInv' /\ ClaimInv'
  BY ToldStep, ClaimStep DEF CountInv
<1> QED BY <1>1, <1>2, CountHolds, PTL DEF Spec

\* Through any failures, deaths and redeliveries a task that succeeded reports no sighting
\* that was not committed; and it reports exactly those that were, unless a worker died or a
\* failure or the soft time limit met the logging of the job.
THEOREM SuccessIsCounted == Spec => []SuccessCountsRows
<1>1. ToldInv /\ ClaimInv => SuccessCountsRows
  BY DEF ToldInv, ClaimInv, Followed, Told, SuccessCountsRows
<1> QED BY <1>1, ToldHolds, PTL

\* A task reported as failed has committed no sighting, unless a worker died or a time limit
\* cut a delivery off.
THEOREM FailuresLogNothing == Spec => []FailureLoggedNothing
<1>1. ASSUME TInv, ToldInv PROVE FailureLoggedNothing
  BY <1>1, NoSightings DEF ToldInv, Followed, Told, FailureLoggedNothing
<1> QED BY <1>1, TypesHold, ToldHolds, PTL

=============================================================================
