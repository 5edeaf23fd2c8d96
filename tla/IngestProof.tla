------------------------------ MODULE IngestProof ------------------------------
(***************************************************************************)
(* Proofs about Ingest, for any number of jobs, workers, retries, batches  *)
(* and failures.                                                           *)
(*                                                                         *)
(* No job is lost: as soon as its request got past the broker it is queued *)
(* or carried by a worker that has neither sent it again nor stored its    *)
(* outcome, or that outcome is stored, unless the broker refused its retry *)
(* or the result backend its state.  A worker that only has to store a     *)
(* retry or to acknowledge carries nothing, so it can lose nothing.        *)
(*                                                                         *)
(* Of a student who is not active any more a worker commits one sighting   *)
(* at most: the one it is between the check and the INSERT of.             *)
(***************************************************************************)
EXTENDS Ingest, TLAPS

----------------------------------------------------------------------------
(* The invariant *)

Carrying == {"calls", "log", "insert", "failed"}
Busy(r) ==
    /\ {"phase", "job", "try"} \subseteq DOMAIN r
    /\ r.phase \in Carrying \cup {"resent", "ack"}
    /\ r.job \in Jobs /\ r.try \in 0 .. MaxRetries

Carries(w, j) == work[w].phase \in Carrying /\ work[w].job = j
Queued(j) == \E k \in Tries : queue[j][k] > 0
Safe(j) == Queued(j) \/ (\E w \in Procs : Carries(w, j)) \/ j \in ended \/ j \in forsaken

WorkOK == DOMAIN work = Procs /\ \A w \in Procs : work[w] = Idle \/ Busy(work[w])

\* No message carries more retries than the task allows.
QueueOK ==
    /\ queue \in [Jobs -> [Tries -> Nat]]
    /\ \A j \in Jobs : queue[j][MaxRetries + 1] = 0

States == {"PENDING", "STARTED", "RETRY", "SUCCESS", "FAILURE"}
ResultOK == DOMAIN result = Jobs /\ \A j \in Jobs : result[j].state \in States

\* Where a request is, whether its job has an owner key and whether it was audited.
RequestOK ==
    /\ DOMAIN request = Jobs /\ DOMAIN owner = Jobs
    /\ \A j \in Jobs : owner[j] \in {"none", "stored", "lost", "lapsed"}
    /\ \A j \in Jobs : request[j] \in {"owned", "accepted"} => owner[j] # "none"
    /\ \A j \in audited : request[j] = "accepted"

Past == {"enqueued", "owned", "accepted"}
NoneLost == \A j \in Jobs : request[j] \in Past => Safe(j)

IInv == WorkOK /\ QueueOK /\ ResultOK /\ RequestOK /\ NoneLost /\ audited \subseteq Jobs

LEMMA InitHolds == ASSUME Init PROVE IInv
<1>1. MaxRetries + 1 \in Tries BY IngestAssumption DEF Tries
<1>2. QueueOK BY <1>1 DEF Init, QueueOK
<1>3. WorkOK /\ ResultOK /\ RequestOK BY DEF Init, WorkOK, ResultOK, RequestOK, States, NoResult
<1>4. NoneLost /\ audited \subseteq Jobs BY DEF Init, NoneLost, Past
<1> QED BY <1>2, <1>3, <1>4 DEF IInv

----------------------------------------------------------------------------
(* The steps of the API *)

LEMMA EnqueuedType ==
    ASSUME QueueOK, IngestAssumption, NEW j \in Jobs, NEW k \in 0 .. MaxRetries
    PROVE  /\ Enqueued(j, k) \in [Jobs -> [Tries -> Nat]]
           /\ \A i \in Jobs : Enqueued(j, k)[i][MaxRetries + 1] = 0
           /\ Enqueued(j, k)[j][k] > 0 /\ Enqueued(j, k)[j][k] = queue[j][k] + 1
           /\ \A m \in Tries \ {k} : Enqueued(j, k)[j][m] = queue[j][m]
           /\ \A i \in Jobs \ {j} : Enqueued(j, k)[i] = queue[i]
           /\ \A i \in Jobs, m \in Tries : Enqueued(j, k)[i][m] >= queue[i][m]
<1>1. k \in Tries /\ k # MaxRetries + 1 /\ MaxRetries + 1 \in Tries
  BY IngestAssumption DEF Tries
<1>2. queue[j][k] \in Nat /\ queue[j] \in [Tries -> Nat] BY <1>1 DEF QueueOK
<1>3. \A i \in Jobs, m \in Tries : queue[i][m] \in Nat BY DEF QueueOK
<1>6. /\ Enqueued(j, k) \in [Jobs -> [Tries -> Nat]]
      /\ Enqueued(j, k)[j] = [queue[j] EXCEPT ![k] = queue[j][k] + 1]
      /\ \A i \in Jobs \ {j} : Enqueued(j, k)[i] = queue[i]
  <2>1. Enqueued(j, k) = [queue EXCEPT ![j][k] = @ + 1] BY DEF Enqueued
  <2>2. [queue EXCEPT ![j][k] = @ + 1][j] = [queue[j] EXCEPT ![k] = queue[j][k] + 1]
    BY <1>1, <1>2 DEF QueueOK
  <2>3. \A i \in Jobs \ {j} : [queue EXCEPT ![j][k] = @ + 1][i] = queue[i]
    BY DEF QueueOK
  <2>4. [queue EXCEPT ![j][k] = @ + 1] \in [Jobs -> [Tries -> Nat]]
    BY <1>1, <1>2 DEF QueueOK
  <2> QED BY <2>1, <2>2, <2>3, <2>4
<1>7. Enqueued(j, k)[j][k] = queue[j][k] + 1 /\ \A m \in Tries \ {k} : Enqueued(j, k)[j][m] = queue[j][m]
  BY <1>1, <1>2, <1>6
<1>8. \A i \in Jobs : Enqueued(j, k)[i][MaxRetries + 1] = 0
  BY <1>1, <1>6, <1>7 DEF QueueOK
<1>9. \A i \in Jobs, m \in Tries : Enqueued(j, k)[i][m] >= queue[i][m]
  <2>1. ASSUME NEW i \in Jobs, NEW m \in Tries PROVE Enqueued(j, k)[i][m] >= queue[i][m]
    <3>1. CASE i # j BY <1>3, <1>6, <3>1
    <3>2. CASE i = j /\ m # k BY <1>3, <1>7, <3>2
    <3>3. CASE i = j /\ m = k BY <1>2, <1>7, <3>3
    <3> QED BY <3>1, <3>2, <3>3
  <2> QED BY <2>1
<1> QED BY <1>1, <1>2, <1>6, <1>7, <1>8, <1>9

LEMMA QueueGrows ==
    ASSUME QueueOK, NEW j \in Jobs, NEW k \in 0 .. MaxRetries, queue' = Enqueued(j, k)
    PROVE  /\ QueueOK' /\ Queued(j)'
           /\ \A i \in Jobs : Queued(i) => Queued(i)'
<1>1. k \in Tries BY IngestAssumption DEF Tries
<1>2. \A i \in Jobs, m \in Tries : queue[i][m] \in Nat /\ queue'[i][m] \in Nat
  BY EnqueuedType, IngestAssumption DEF QueueOK
<1>3. /\ QueueOK' /\ queue'[j][k] > 0
      /\ \A i \in Jobs, m \in Tries : queue'[i][m] >= queue[i][m]
  BY EnqueuedType, IngestAssumption DEF QueueOK
<1>4. Queued(j)' BY <1>1, <1>3 DEF Queued
<1>5. ASSUME NEW i \in Jobs, Queued(i) PROVE Queued(i)'
  <2>1. PICK m \in Tries : queue[i][m] > 0 BY <1>5 DEF Queued
  <2>2. queue'[i][m] > 0 BY <1>2, <1>3, <2>1
  <2> QED BY <2>2 DEF Queued
<1> QED BY <1>3, <1>4, <1>5

\* The request of one job moves on; what is queued, carried and stored stays.
LEMMA RequestStep ==
    ASSUME IInv, NEW j \in Jobs, NEW a, request' = [request EXCEPT ![j] = a],
           UNCHANGED <<result, work, ended, forsaken>>,
           QueueOK', \A i \in Jobs : Queued(i) => Queued(i)',
           a \in Past => Safe(j) \/ Queued(j)',
           RequestOK', audited' \subseteq Jobs
    PROVE  IInv'
<1>1. WorkOK' /\ ResultOK' BY DEF IInv, WorkOK, ResultOK, Idle, Busy
<1>2. \A i \in Jobs : Safe(i) => Safe(i)' BY DEF Safe, Carries
<1>3. ASSUME NEW i \in Jobs, request'[i] \in Past PROVE Safe(i)'
  <2>1. CASE i = j
    <3>1. request'[j] = a BY DEF IInv, RequestOK
    <3> QED BY <1>2, <1>3, <2>1, <3>1 DEF Safe
  <2>2. CASE i # j
    <3>1. request'[i] = request[i] BY <2>2 DEF IInv, RequestOK
    <3> QED BY <1>2, <1>3, <3>1 DEF IInv, NoneLost
  <2> QED BY <2>1, <2>2
<1> QED BY <1>1, <1>3 DEF IInv, NoneLost

LEMMA ApiStep ==
    ASSUME IInv, NEW j \in Jobs,
           \/ \E b \in Batches : Refuse(j, b) \/ Enqueue(j, b) \/ EnqueueFails(j, b)
           \/ SetTaskOwner(j) \/ Accept(j) \/ RecognizePhoto(j) \/ OwnerLapses(j)
    PROVE  IInv'
<1> USE DEF apiVars, taskVars, historyVars, Answer
<1>0. /\ QueueOK /\ RequestOK /\ audited \subseteq Jobs /\ NoneLost
      /\ QueueOK' \/ queue' # queue
      /\ queue' = queue => \A i \in Jobs : Queued(i) => Queued(i)'
  BY DEF IInv, QueueOK, Queued
<1>1. ASSUME NEW a, request' = [request EXCEPT ![j] = a], request[j] = "none",
             owner' = owner, audited' = audited, a \notin {"owned", "accepted"}
      PROVE  RequestOK' /\ audited' \subseteq Jobs
  BY <1>0, <1>1 DEF RequestOK
<1>2. ASSUME NEW b \in Batches, Refuse(j, b) PROVE IInv'
  <2>1. "refused" \notin Past \cup {"owned", "accepted"} BY DEF Past
  <2> QED BY <1>0, <1>1, <1>2, <2>1, RequestStep DEF Refuse
<1>3. ASSUME NEW b \in Batches, Enqueue(j, b) \/ EnqueueFails(j, b) PROVE IInv'
  <2>0. 0 \in 0 .. MaxRetries BY IngestAssumption
  <2>1. PICK a \in {"enqueued", "unavailable"} : request' = [request EXCEPT ![j] = a]
    BY <1>3 DEF Enqueue, EnqueueFails
  <2>2. UNCHANGED <<owner, audited, result, work, ended, forsaken>> /\ request[j] = "none"
    BY <1>3 DEF Enqueue, EnqueueFails
  <2>3. RequestOK' /\ audited' \subseteq Jobs BY <1>1, <2>1, <2>2
  <2>4. CASE queue' = Enqueued(j, 0)
    <3>1. QueueOK' /\ Queued(j)' /\ \A i \in Jobs : Queued(i) => Queued(i)'
      BY <1>0, <2>0, <2>4, QueueGrows
    <3> QED BY <2>1, <2>2, <2>3, <3>1, RequestStep
  <2>5. CASE queue' = queue /\ EnqueueFails(j, b)
    <3>1. request' = [request EXCEPT ![j] = "unavailable"] BY <2>5 DEF EnqueueFails
    <3>2. "unavailable" \notin Past BY DEF Past
    <3> QED BY <1>0, <2>2, <2>3, <2>5, <3>1, <3>2, RequestStep
  <2> QED BY <1>3, <2>4, <2>5 DEF Enqueue, EnqueueFails
<1>4. CASE SetTaskOwner(j)
  <2>1. request[j] \in Past BY <1>4 DEF SetTaskOwner, Past
  <2>2. Safe(j) BY <1>0, <2>1 DEF NoneLost
  <2>3. RequestOK' /\ audited' \subseteq Jobs BY <1>0, <1>4 DEF SetTaskOwner, RequestOK
  <2> QED BY <1>0, <1>4, <2>2, <2>3, RequestStep DEF SetTaskOwner
<1>5. CASE Accept(j)
  <2>1. request[j] = "owned" /\ request[j] \in Past BY <1>5 DEF Accept, Past
  <2>2. Safe(j) BY <1>0, <2>1 DEF NoneLost
  <2>3. PICK a \in {"accepted", "error"} :
          /\ request' = [request EXCEPT ![j] = a]
          /\ audited' \in {audited, audited \cup {j}}
          /\ a = "error" => audited' = audited
    BY <1>5 DEF Accept, EmitAdvisory
  <2>4. UNCHANGED <<owner, queue, result, work, ended, forsaken>> BY <1>5 DEF Accept, EmitAdvisory
  <2>5. j \notin audited BY <1>0, <2>1 DEF RequestOK
  <2>6. RequestOK' /\ audited' \subseteq Jobs BY <1>0, <2>1, <2>3, <2>4, <2>5 DEF RequestOK
  <2> QED BY <1>0, <2>2, <2>3, <2>4, <2>6, RequestStep
<1>6. CASE RecognizePhoto(j)
  <2>1. PICK a \in {"recognized", "unavailable", "error"} : request' = [request EXCEPT ![j] = a]
    BY <1>6 DEF RecognizePhoto
  <2> QED BY <1>0, <1>6, <2>1, RequestStep, <1>1 DEF RecognizePhoto, Past
<1>7. CASE OwnerLapses(j)
  <2>1. RequestOK' BY <1>0, <1>7 DEF OwnerLapses, RequestOK
  <2>2. WorkOK' /\ ResultOK' /\ QueueOK' BY <1>7 DEF OwnerLapses, IInv, WorkOK, ResultOK, QueueOK, Idle, Busy
  <2>3. NoneLost' BY <1>0, <1>7 DEF OwnerLapses, NoneLost, Safe, Queued, Carries
  <2> QED BY <1>0, <1>7, <2>1, <2>2, <2>3 DEF OwnerLapses, IInv
<1> QED BY <1>2, <1>3, <1>4, <1>5, <1>6, <1>7
----------------------------------------------------------------------------
(* The steps of a worker *)

\* The worker goes on with the same message in another phase.
Moved(w, p) ==
    /\ DOMAIN work' = Procs
    /\ \A v \in Procs \ {w} : work'[v] = work[v]
    /\ Busy(work'[w]) /\ work'[w].job = work[w].job /\ work'[w].phase = p

LEMMA MovedWork ==
    ASSUME WorkOK, NEW w \in Procs, NEW p \in Carrying \cup {"resent", "ack"}, Moved(w, p)
    PROVE  /\ WorkOK'
           /\ \A j \in Jobs, v \in Procs : Carries(v, j) /\ (v # w \/ p \in Carrying) => Carries(v, j)'
BY DEF WorkOK, Moved, Carries, Idle, Busy

LEMMA IsBusy ==
    ASSUME WorkOK, NEW w \in Procs, work[w].phase # "idle"
    PROVE  Busy(work[w])
BY DEF WorkOK, Idle

LEMMA Leaving ==
    ASSUME WorkOK, NEW w \in Procs, work[w].phase # "idle",
           NEW p \in Carrying \cup {"resent", "ack"}, Leave(w, p)
    PROVE  Moved(w, p)
<1>1. Busy(work[w]) /\ DOMAIN work = Procs BY IsBusy DEF WorkOK
<1>2. /\ DOMAIN work' = Procs /\ \A v \in Procs \ {w} : work'[v] = work[v]
      /\ work'[w] = [work[w] EXCEPT !.phase = p, !.asked = 0, !.faces = <<>>, !.next = 1, !.logged = 0]
  BY <1>1 DEF Leave
<1>3. /\ DOMAIN work'[w] = DOMAIN work[w] /\ work'[w].phase = p
      /\ work'[w].job = work[w].job /\ work'[w].try = work[w].try
  BY <1>1, <1>2 DEF Busy
<1> QED BY <1>1, <1>2, <1>3 DEF Moved, Busy

LEMMA StoreType ==
    ASSUME ResultOK, NEW j \in Jobs, NEW state \in States, NEW n, Store(j, state, n)
    PROVE  ResultOK'
BY DEF ResultOK, Store, States

\* A step of a worker keeps the invariant when it keeps every job safe.
LEMMA WorkerStep ==
    ASSUME IInv, UNCHANGED apiVars, WorkOK', QueueOK', ResultOK', \A j \in Jobs : Safe(j) => Safe(j)'
    PROVE  IInv'
BY DEF IInv, apiVars, RequestOK, NoneLost

\* A step in which the worker still carries its job, or had stopped to.
LEMMA Carried ==
    ASSUME IInv, NEW w \in Procs, NEW p \in Carrying \cup {"resent", "ack"}, Moved(w, p),
           p \in Carrying \/ work[w].phase = "resent" \/ work[w].job \in ended' \cup forsaken',
           UNCHANGED apiVars, QueueOK', ResultOK',
           \A j \in Jobs : Queued(j) => Queued(j)',
           ended \subseteq ended', forsaken \subseteq forsaken'
    PROVE  IInv'
<1>1. WorkOK BY DEF IInv
<1>2. WorkOK' BY <1>1, MovedWork
<1>3. ASSUME NEW j \in Jobs, Safe(j) PROVE Safe(j)'
  <2>1. CASE Queued(j) BY <2>1 DEF Safe
  <2>2. CASE j \in ended \cup forsaken BY <2>2 DEF Safe
  <2>3. ASSUME NEW v \in Procs, Carries(v, j) PROVE Safe(j)'
    <3>1. CASE v # w \/ p \in Carrying
      <4>1. Carries(v, j)' BY <1>1, <2>3, <3>1, MovedWork
      <4> QED BY <4>1 DEF Safe
    <3>2. CASE v = w /\ p \notin Carrying
      <4>1. work[w].job = j /\ work[w].phase # "resent" BY <2>3, <3>2 DEF Carries, Carrying
      <4> QED BY <3>2, <4>1 DEF Safe
    <3> QED BY <3>1, <3>2
  <2> QED BY <1>3, <2>1, <2>2, <2>3 DEF Safe
<1> QED BY <1>2, <1>3, WorkerStep

LEMMA SameQueue ==
    ASSUME QueueOK, queue' = queue
    PROVE  QueueOK' /\ \A j \in Jobs : Queued(j) => Queued(j)'
BY DEF QueueOK, Queued

LEMMA SameResult == ASSUME ResultOK, result' = result PROVE ResultOK'
BY DEF ResultOK

LEMMA TakeStep ==
    ASSUME IInv, NEW w \in Procs, NEW j \in Jobs, NEW k \in Tries,
           Take(w, j, k) \/ StartFails(w, j, k)
    PROVE  IInv'
<1>0. WorkOK /\ QueueOK /\ ResultOK BY DEF IInv
<1>a. /\ work[w] = Idle /\ queue[j][k] > 0 /\ queue' = [queue EXCEPT ![j][k] = @ - 1]
      /\ UNCHANGED apiVars /\ ended' = ended
  BY DEF Take, StartFails
<1>b. PICK p \in {"calls", "ack"} :
        /\ work' = [work EXCEPT ![w] = Delivery(p, j, k)]
        /\ p = "calls" \/ j \in forsaken'
        /\ forsaken \subseteq forsaken'
        /\ Store(j, "STARTED", 0) \/ result' = result
  BY DEF Take, StartFails, historyVars
<1>1. k # MaxRetries + 1 /\ queue[j][k] \in Nat \ {0}
  <2>1. queue[j][k] \in Nat /\ queue[j][k] > 0 BY <1>0, <1>a DEF QueueOK
  <2> QED BY <1>0, <2>1 DEF QueueOK
<1>2. k \in 0 .. MaxRetries BY <1>1, IngestAssumption DEF Tries
<1>3. PICK t : t = [queue[j] EXCEPT ![k] = queue[j][k] - 1] OBVIOUS
<1>4. /\ queue' \in [Jobs -> [Tries -> Nat]]
      /\ \A i \in Jobs \ {j} : queue'[i] = queue[i]
      /\ queue'[j] = [queue[j] EXCEPT ![k] = queue[j][k] - 1]
  <2>1. queue' = [queue EXCEPT ![j] = t] BY <1>3, <1>a
  <2>2. queue[j][k] - 1 \in Nat BY <1>1
  <2>3. t \in [Tries -> Nat] BY <1>0, <1>3, <2>2 DEF QueueOK
  <2> QED BY <1>0, <1>3, <2>1, <2>3 DEF QueueOK
<1>5. QueueOK'
  <2>1. MaxRetries + 1 \in Tries BY IngestAssumption DEF Tries
  <2>2. \A i \in Jobs : queue'[i][MaxRetries + 1] = 0 BY <1>0, <1>1, <1>4, <2>1 DEF QueueOK
  <2> QED BY <1>4, <2>2 DEF QueueOK
<1>6. /\ DOMAIN work' = Procs /\ \A v \in Procs \ {w} : work'[v] = work[v]
      /\ work[w] = Idle /\ Busy(work'[w])
      /\ work'[w].job = j /\ work'[w].phase = p
  <2>1. PICK r : r = Delivery(p, j, k) OBVIOUS
  <2>2. work' = [work EXCEPT ![w] = r] /\ work[w] = Idle BY <1>a, <1>b, <2>1
  <2>3. Busy(r) /\ r.job = j /\ r.phase = p BY <1>2, <2>1 DEF Busy, Carrying, Delivery
  <2> QED BY <1>0, <2>2, <2>3 DEF WorkOK
<1>7. WorkOK' /\ \A i \in Jobs, v \in Procs : Carries(v, i) => Carries(v, i)'
  BY <1>0, <1>6 DEF WorkOK, Carries, Idle, Busy, Carrying
<1>8. ResultOK' BY <1>0, <1>b, StoreType, SameResult DEF States
<1>9. ASSUME NEW i \in Jobs, Safe(i) PROVE Safe(i)'
  <2>1. CASE i = j /\ p = "calls"
    <3>1. Carries(w, i)' BY <1>6, <2>1 DEF Carries, Carrying
    <3> QED BY <3>1 DEF Safe
  <2>2. CASE i = j /\ p # "calls" BY <1>b, <2>2 DEF Safe
  <2>3. CASE i # j
    <3>1. Queued(i) => Queued(i)' BY <1>4, <2>3 DEF Queued
    <3> QED BY <1>7, <1>9, <1>a, <1>b, <3>1 DEF Safe
  <2> QED BY <2>1, <2>2, <2>3
<1> QED BY <1>5, <1>7, <1>8, <1>9, <1>a, WorkerStep

\* The steps after which the worker carries what it carried.
LEMMA CarryingStep ==
    ASSUME IInv, NEW w \in Procs,
           \/ AskTriton(w) \/ Match(w) \/ CheckSighting(w) \/ LogSighting(w) \/ SkipSighting(w)
           \/ AbandonSightings(w) \/ MatchFails(w) \/ GiveUp(w) \/ TimesOut(w)
    PROVE  IInv'
<1>0. WorkOK /\ QueueOK /\ ResultOK /\ DOMAIN work = Procs BY DEF IInv, WorkOK
<1>1. /\ UNCHANGED apiVars /\ queue' = queue /\ result' = result /\ ended' = ended
      /\ forsaken' = forsaken
  BY DEF AskTriton, Match, CheckSighting, LogSighting, SkipSighting, AbandonSightings, MatchFails,
     GiveUp, TimesOut, apiVars, historyVars
<1>2. work[w].phase \in {"calls", "log", "insert"}
  BY DEF AskTriton, Match, CheckSighting, LogSighting, SkipSighting, AbandonSightings, MatchFails,
     GiveUp, TimesOut, Logging, Inserting
<1>3. Busy(work[w]) BY <1>0, <1>2, IsBusy
<1>4. \E p \in Carrying : Moved(w, p)
  <2>1. CASE AskTriton(w)
    <3>1. work' = [work EXCEPT ![w] = [work[w] EXCEPT !.asked = work[w].asked + 1]]
      BY <2>1 DEF AskTriton
    <3> QED BY <1>0, <1>2, <1>3, <3>1 DEF Moved, Busy, Carrying
  <2>2. CASE Match(w)
    <3>1. PICK faces : work' = [work EXCEPT ![w] = [work[w] EXCEPT !.faces = faces, !.phase = "log", !.asked = 0]]
      BY <1>0, <2>2 DEF Match
    <3> QED BY <1>0, <1>3, <3>1 DEF Moved, Busy, Carrying
  <2>3. CASE CheckSighting(w)
    <3>1. work' = [work EXCEPT ![w] = [work[w] EXCEPT !.phase = "insert"]]
      BY <1>0, <2>3 DEF CheckSighting
    <3> QED BY <1>0, <1>3, <3>1 DEF Moved, Busy, Carrying
  <2>4. ASSUME NEW n, NEW l,
               work' = [work EXCEPT ![w] = [work[w] EXCEPT !.phase = "log", !.next = n, !.logged = l]]
        PROVE  Moved(w, "log")
    BY <1>0, <1>3, <2>4 DEF Moved, Busy, Carrying
  <2>5. CASE LogSighting(w) \/ SkipSighting(w)
    <3>1. PICK n \in {0, 1} : Advance(w, n) BY <2>5 DEF LogSighting, SkipSighting
    <3>2. Moved(w, "log") BY <2>4, <3>1 DEF Advance
    <3> QED BY <3>2 DEF Carrying
  <2>6. CASE AbandonSightings(w)
    <3>1. work' = [work EXCEPT ![w] = [work[w] EXCEPT !.phase = "log",
                                                      !.next = Len(work[w].faces) + 1, !.logged = 0]]
      BY <2>6 DEF AbandonSightings
    <3> QED BY <1>0, <1>3, <3>1 DEF Moved, Busy, Carrying
  <2>7. CASE MatchFails(w) \/ GiveUp(w) \/ TimesOut(w)
    <3>1. Leave(w, "failed") BY <2>7 DEF MatchFails, GiveUp, TimesOut
    <3>2. "failed" \in Carrying BY DEF Carrying
    <3> QED BY <1>0, <1>2, <3>1, <3>2, Leaving
  <2> QED BY <2>1, <2>2, <2>3, <2>5, <2>6, <2>7
<1>5. PICK p \in Carrying : Moved(w, p) BY <1>4
<1>6. QueueOK' /\ ResultOK' /\ \A j \in Jobs : Queued(j) => Queued(j)'
  BY <1>0, <1>1, SameQueue, SameResult
<1> QED BY <1>1, <1>5, <1>6, Carried

\* The steps that settle, send again, lose or acknowledge a message.
LEMMA EndingStep ==
    ASSUME IInv, NEW w \in Procs,
           \/ StoreSuccess(w) \/ StoreFailure(w) \/ StoreRetry(w) \/ StoreFails(w)
           \/ Resend(w) \/ ResendFails(w) \/ Ack(w) \/ Lose(w)
    PROVE  IInv'
<1>0. WorkOK /\ QueueOK /\ ResultOK /\ DOMAIN work = Procs BY DEF IInv, WorkOK
<1>1. UNCHANGED apiVars
  BY DEF StoreSuccess, StoreFailure, StoreFails, Resend, ResendFails, StoreRetry, Ack, Lose, apiVars
<1>2. Busy(work[w])
  <2>1. CASE Lose(w) BY <1>0, <2>1 DEF Lose, WorkOK
  <2>2. CASE ~Lose(w)
    <3>1. work[w].phase # "idle"
      BY <2>2 DEF StoreSuccess, StoreFailure, StoreFails, Resend, ResendFails, StoreRetry, Ack
    <3> QED BY <1>0, <3>1, IsBusy
  <2> QED BY <2>1, <2>2
<1>3. work[w].job \in Jobs /\ work[w].try \in 0 .. MaxRetries BY <1>2 DEF Busy
<1>a. PICK mine \in Jobs, try \in 0 .. MaxRetries : mine = work[w].job /\ try = work[w].try BY <1>3
<1>4. CASE StoreSuccess(w) \/ StoreFailure(w)
  <2>1. /\ Leave(w, "ack") /\ queue' = queue /\ ended' = ended \cup {work[w].job}
        /\ work[w].phase # "idle" /\ forsaken' = forsaken
    BY <1>4 DEF StoreSuccess, StoreFailure, historyVars
  <2>2. Moved(w, "ack") BY <1>0, <2>1, Leaving
  <2>3. ResultOK' BY <1>0, <1>3, <1>4, StoreType DEF StoreSuccess, StoreFailure, States
  <2>4. QueueOK' /\ \A j \in Jobs : Queued(j) => Queued(j)' BY <1>0, <2>1, SameQueue
  <2> QED BY <1>1, <2>1, <2>2, <2>3, <2>4, Carried
<1>5. CASE StoreRetry(w)
  <2>1. /\ Leave(w, "ack") /\ queue' = queue /\ ended' = ended /\ work[w].phase = "resent"
        /\ forsaken' = forsaken
    BY <1>5 DEF StoreRetry, historyVars
  <2>2. Moved(w, "ack") BY <1>0, <2>1, Leaving
  <2>3. ResultOK' BY <1>0, <1>3, <1>5, StoreType DEF StoreRetry, States
  <2>4. QueueOK' /\ \A j \in Jobs : Queued(j) => Queued(j)' BY <1>0, <2>1, SameQueue
  <2> QED BY <1>1, <2>1, <2>2, <2>3, <2>4, Carried
<1>6. ASSUME Resend(w) \/ ResendFails(w), queue' = Enqueued(work[w].job, work[w].try + 1)
      PROVE  IInv'
  <2>1. try + 1 \in 0 .. MaxRetries BY <1>a, <1>6, IngestAssumption DEF Resend, ResendFails, MayRetry
  <2>2. /\ queue' = Enqueued(mine, try + 1) /\ result' = result /\ ended' = ended
        /\ forsaken \subseteq forsaken'
    BY <1>a, <1>6 DEF Resend, ResendFails, historyVars
  <2>3. /\ QueueOK' /\ Queued(mine)'
        /\ \A i \in Jobs : Queued(i) => Queued(i)'
    BY <1>0, <2>1, <2>2, QueueGrows
  <2>4. PICK p \in {"resent", "ack"} : Moved(w, p)
    BY <1>0, <1>6, Leaving DEF Resend, ResendFails
  <2>5. ASSUME NEW j \in Jobs, Safe(j) PROVE Safe(j)'
    <3>1. CASE j = mine BY <2>3, <3>1 DEF Safe
    <3>2. CASE j # mine
      <4>1. \A v \in Procs : Carries(v, j) => Carries(v, j)'
        BY <1>0, <1>a, <2>4, <3>2, MovedWork DEF Carries
      <4> QED BY <2>2, <2>3, <2>5, <4>1 DEF Safe
    <3> QED BY <3>1, <3>2
  <2>6. WorkOK' BY <1>0, <2>4, MovedWork
  <2> QED BY <1>0, <1>1, <2>2, <2>3, <2>5, <2>6, SameResult, WorkerStep
<1>b. CASE StoreFails(w) \/ (ResendFails(w) /\ queue' = queue)
  <2>1. /\ Leave(w, "ack") /\ queue' = queue /\ ended' = ended /\ result' = result
        /\ forsaken \subseteq forsaken' /\ work[w].phase # "idle"
        /\ work[w].phase = "resent" \/ work[w].job \in forsaken'
    <3>1. CASE StoreFails(w) BY <3>1 DEF StoreFails
    <3>2. CASE ResendFails(w) /\ queue' = queue /\ forsaken' = forsaken \cup {work[w].job}
      BY <3>2 DEF ResendFails
    <3>3. CASE ResendFails(w) /\ queue' = queue /\ queue' = Enqueued(mine, try + 1)
      <4>1. queue' = queue BY <3>3
      <4>2. try + 1 \in 0 .. MaxRetries BY <1>a, <3>3, IngestAssumption DEF ResendFails, MayRetry
      <4>3. Enqueued(mine, try + 1)[mine][try + 1] = queue[mine][try + 1] + 1
        BY <1>0, <4>2, EnqueuedType, IngestAssumption
      <4>4. queue[mine][try + 1] \in Nat BY <1>0, <4>2, IngestAssumption DEF QueueOK, Tries
      <4> QED BY <3>3, <4>1, <4>3, <4>4
    <3> QED BY <1>a, <1>b, <3>1, <3>2, <3>3 DEF ResendFails
  <2>2. Moved(w, "ack") BY <1>0, <2>1, Leaving
  <2>3. QueueOK' /\ ResultOK' /\ \A j \in Jobs : Queued(j) => Queued(j)'
    BY <1>0, <2>1, SameQueue, SameResult
  <2> QED BY <1>1, <2>1, <2>2, <2>3, Carried
<1>7. ASSUME work' = [work EXCEPT ![w] = Idle] PROVE WorkOK' /\ \A v \in Procs \ {w} : work'[v] = work[v]
  BY <1>0, <1>7 DEF WorkOK, Idle, Busy
<1>8. CASE Ack(w)
  <2>1. /\ work' = [work EXCEPT ![w] = Idle] /\ work[w].phase = "ack"
        /\ queue' = queue /\ result' = result /\ ended' = ended /\ forsaken' = forsaken
    BY <1>8 DEF Ack, historyVars
  <2>2. \A v \in Procs, j \in Jobs : Carries(v, j) => Carries(v, j)'
    BY <1>7, <2>1 DEF Carries, Carrying
  <2>3. QueueOK' /\ ResultOK' /\ \A j \in Jobs : Queued(j) => Queued(j)'
    BY <1>0, <2>1, SameQueue, SameResult
  <2>4. \A j \in Jobs : Safe(j) => Safe(j)' BY <2>1, <2>2, <2>3 DEF Safe
  <2> QED BY <1>1, <1>7, <2>1, <2>3, <2>4, WorkerStep
<1>9. CASE Lose(w)
  <2>1. /\ work' = [work EXCEPT ![w] = Idle] /\ result' = result /\ ended' = ended
        /\ queue' = Enqueued(mine, try) /\ forsaken' = forsaken
    BY <1>a, <1>9 DEF Lose, historyVars
  <2>2. /\ QueueOK' /\ Queued(mine)'
        /\ \A i \in Jobs : Queued(i) => Queued(i)'
    BY <1>0, <2>1, QueueGrows
  <2>3. ASSUME NEW j \in Jobs, Safe(j) PROVE Safe(j)'
    <3>1. CASE j = mine BY <2>2, <3>1 DEF Safe
    <3>2. CASE j # mine
      <4>1. \A v \in Procs : Carries(v, j) => Carries(v, j)'
        BY <1>7, <1>a, <2>1, <3>2 DEF Carries
      <4> QED BY <2>1, <2>2, <2>3, <4>1 DEF Safe
    <3> QED BY <3>1, <3>2
  <2> QED BY <1>0, <1>1, <1>7, <2>1, <2>2, <2>3, SameResult, WorkerStep
<1>10. Resend(w) \/ ResendFails(w) => queue' = Enqueued(work[w].job, work[w].try + 1) \/ queue' = queue
  BY DEF Resend, ResendFails
<1>11. Resend(w) => queue' = Enqueued(work[w].job, work[w].try + 1) BY DEF Resend
<1> QED BY <1>4, <1>5, <1>6, <1>8, <1>9, <1>10, <1>11, <1>b

----------------------------------------------------------------------------

LEMMA StepHolds == ASSUME IInv, [Next]_vars PROVE IInv'
<1>1. ASSUME UNCHANGED <<apiVars, taskVars, forsaken>> PROVE IInv'
  <2>1. WorkOK' BY <1>1 DEF IInv, WorkOK, taskVars
  <2>2. QueueOK' /\ ResultOK' /\ \A j \in Jobs : Queued(j) => Queued(j)'
    BY <1>1, SameQueue, SameResult DEF IInv, taskVars
  <2>3. \A j \in Jobs : Safe(j) => Safe(j)' BY <1>1, <2>2 DEF Safe, Carries, taskVars
  <2> QED BY <1>1, <2>1, <2>2, <2>3, WorkerStep
<1>2. ASSUME NEW w \in Procs, Work(w) \/ Fault(w) PROVE IInv'
  <2>1. CASE TritonAnswers(w) BY <1>1, <2>1 DEF TritonAnswers, historyVars
  <2>2. CASE \E j \in Jobs, k \in Tries : Take(w, j, k) \/ StartFails(w, j, k) BY <2>2, TakeStep
  <2> QED BY <1>2, <2>1, <2>2, CarryingStep, EndingStep DEF Work, Fault
<1>3. ASSUME NEW s \in Students, Deactivate(s) PROVE IInv'
  BY <1>1, <1>3 DEF Deactivate, historyVars
<1>4. CASE UNCHANGED vars BY <1>1, <1>4 DEF vars, historyVars
<1> QED BY <1>2, <1>3, <1>4, ApiStep DEF Next

LEMMA InvariantHolds == Spec => []IInv
BY InitHolds, StepHolds, PTL DEF Spec

\* A job that was accepted or audited is never lost, whatever else fails and dies, unless the
\* broker refused its retry or the result backend its state; and the one who sent it can follow it
\* unless its owner key was not written or ran out.
THEOREM NoJobIsLost == Spec => []AcceptedCanBeFollowed
<1>1. ASSUME IInv PROVE AcceptedCanBeFollowed
  <2> SUFFICES ASSUME NEW j \in Jobs, request[j] = "accepted" \/ j \in audited
               PROVE  /\ Queued(j) \/ Held(j) \/ j \in ended \/ j \in forsaken
                      /\ StatusFor(j, TRUE, FALSE) # "404" \/ owner[j] \in {"lost", "lapsed"}
    BY DEF AcceptedCanBeFollowed, Queued
  <2>1. request[j] = "accepted" BY <1>1 DEF IInv, RequestOK
  <2>2. Safe(j) BY <1>1, <2>1 DEF IInv, NoneLost, Past
  <2>3. ASSUME NEW w \in Procs, Carries(w, j) PROVE Held(j)
    BY <2>3 DEF Carries, Carrying, Held, Idle
  <2>4. Queued(j) \/ Held(j) \/ j \in ended \/ j \in forsaken BY <2>2, <2>3 DEF Safe
  <2>5. owner[j] \in {"stored", "lost", "lapsed"} BY <1>1, <2>1 DEF IInv, RequestOK
  <2>6. result[j].state # "404" BY <1>1 DEF IInv, ResultOK, States
  <2>7. owner[j] = "stored" => StatusFor(j, TRUE, FALSE) = result[j].state
    BY DEF StatusFor, IsTaskOwner
  <2>8. StatusFor(j, TRUE, FALSE) # "404" \/ owner[j] \in {"lost", "lapsed"}
    BY <2>5, <2>6, <2>7
  <2> QED BY <2>4, <2>8
<1> QED BY <1>1, InvariantHolds, PTL

----------------------------------------------------------------------------
(* Late sightings *)

Inserts(w, s) == work[w].phase = "insert" /\ Face(w) = s

\* Of an active student nothing was late; of another one a worker is late once, or may
\* still be, but not both.
LateOK ==
    /\ late \in [Procs -> [Students -> Nat]]
    /\ \A w \in Procs, s \in Students :
          /\ late[w][s] <= 1
          /\ s \in active \/ Inserts(w, s) => late[w][s] = 0

\* A step that commits nothing, and begins no INSERT.
LEMMA NoInsert ==
    ASSUME LateOK, late' = late, active' \subseteq active,
           \A w \in Procs, s \in Students : Inserts(w, s)' => Inserts(w, s)
    PROVE  LateOK'
BY DEF LateOK

LEMMA AfterInsert ==
    ASSUME WorkOK, LateOK, active' = active, NEW w \in Procs,
           \A v \in Procs \ {w} : work'[v] = work[v], work'[w].phase # "insert",
           late' = late \/ (Inserting(w) /\ Commit(w))
    PROVE  LateOK'
<1>1. \A v \in Procs, s \in Students : Inserts(v, s)' => v # w /\ Inserts(v, s)
  BY DEF Inserts, Face
<1>2. CASE late' = late BY <1>1, <1>2, NoInsert
<1>3. CASE Inserting(w) /\ Commit(w) /\ late' # late
  <2>1. PICK s \in Students \ active : s = Face(w) BY <1>3 DEF Commit
  <2>2. Inserts(w, s) BY <1>3, <2>1 DEF Inserting, Inserts
  <2>3. late[w][s] = 0 /\ late[w] \in [Students -> Nat] BY <2>2 DEF LateOK
  <2>4. late' = [late EXCEPT ![w] = [late[w] EXCEPT ![s] = 1]]
    BY <1>3, <2>1, <2>3 DEF Commit
  <2>5. PICK t : t = [late[w] EXCEPT ![s] = 1] OBVIOUS
  <2>6. t \in [Students -> Nat] /\ t[s] = 1 /\ \A x \in Students \ {s} : t[x] = late[w][x]
    BY <2>3, <2>5
  <2>7. /\ late' \in [Procs -> [Students -> Nat]] /\ late'[w] = t
        /\ \A v \in Procs \ {w} : late'[v] = late[v]
    BY <2>4, <2>5, <2>6 DEF LateOK
  <2>8. ASSUME NEW v \in Procs, NEW x \in Students
        PROVE  late'[v][x] <= 1 /\ (x \in active' \/ Inserts(v, x)' => late'[v][x] = 0)
    <3>1. CASE v # w BY <1>1, <2>7, <3>1 DEF LateOK
    <3>2. CASE v = w /\ x # s BY <1>1, <2>6, <2>7, <3>2 DEF LateOK
    <3>3. CASE v = w /\ x = s BY <1>1, <2>1, <2>6, <2>7, <3>3
    <3> QED BY <3>1, <3>2, <3>3
  <2> QED BY <2>7, <2>8 DEF LateOK
<1> QED BY <1>2, <1>3

\* The check lets only an active student pass, or a face without one.
LEMMA CheckLate ==
    ASSUME WorkOK, LateOK, NEW w \in Procs, CheckSighting(w)
    PROVE  LateOK'
<1>1. Busy(work[w]) /\ DOMAIN work = Procs BY IsBusy DEF WorkOK, CheckSighting, Logging
<1>2. /\ \A v \in Procs \ {w} : work'[v] = work[v]
      /\ work'[w] = [work[w] EXCEPT !.phase = "insert"]
      /\ UNCHANGED <<late, active>>
  BY <1>1 DEF CheckSighting, historyVars
<1>3. ASSUME NEW v \in Procs, NEW s \in Students, Inserts(v, s)' PROVE late[v][s] = 0
  <2>1. CASE v # w BY <1>2, <1>3, <2>1 DEF Inserts, Face, LateOK
  <2>2. CASE v = w
    <3>1. Face(w)' = Face(w) BY <1>1, <1>2 DEF Face
    <3>2. s = Face(w) /\ s # Unknown BY <1>3, <2>2, <3>1, IngestAssumption DEF Inserts
    <3>3. s \in active BY <3>2 DEF CheckSighting, Loggable
    <3> QED BY <2>2, <3>3 DEF LateOK
  <2> QED BY <2>1, <2>2
<1> QED BY <1>2, <1>3 DEF LateOK

LEMMA WorkerLate ==
    ASSUME WorkOK, LateOK, NEW w \in Procs, Work(w) \/ Fault(w)
    PROVE  LateOK'
<1>0. DOMAIN work = Procs BY DEF WorkOK
<1>1. CASE TritonAnswers(w)
  BY <1>1, NoInsert DEF TritonAnswers, taskVars, historyVars, Inserts, Face
<1>2. CASE CheckSighting(w) BY <1>2, CheckLate
<1>3. CASE \/ \E j \in Jobs, k \in Tries : Take(w, j, k) \/ StartFails(w, j, k)
           \/ Ack(w) \/ Lose(w)
  <2>1. PICK r : work' = [work EXCEPT ![w] = r] /\ r.phase # "insert"
    BY <1>3 DEF Take, StartFails, Delivery, Ack, Lose, Idle
  <2>2. UNCHANGED <<late, active>> BY <1>3 DEF Take, StartFails, Ack, Lose, historyVars
  <2>3. work'[w].phase # "insert" /\ \A v \in Procs \ {w} : work'[v] = work[v] BY <1>0, <2>1
  <2> QED BY <2>2, <2>3, AfterInsert
<1>4. CASE AskTriton(w) \/ Match(w)
  <2>1. UNCHANGED <<late, active>> /\ work[w].phase = "calls"
    BY <1>4 DEF AskTriton, Match, historyVars
  <2>2. Busy(work[w]) BY <2>1, IsBusy
  <2>3. work'[w].phase # "insert" /\ \A v \in Procs \ {w} : work'[v] = work[v]
    BY <1>0, <1>4, <2>1, <2>2 DEF AskTriton, Match, Busy
  <2> QED BY <2>1, <2>3, AfterInsert
<1>5. CASE LogSighting(w) \/ SkipSighting(w) \/ AbandonSightings(w)
  <2>1. /\ active' = active /\ work[w].phase # "idle"
        /\ late' = late \/ (Inserting(w) /\ Commit(w))
    BY <1>5 DEF LogSighting, SkipSighting, AbandonSightings, Upset, Logging, Inserting
  <2>2. Busy(work[w]) BY <2>1, IsBusy
  <2>3. PICK n, l : work' = [work EXCEPT ![w] = [work[w] EXCEPT !.phase = "log", !.next = n, !.logged = l]]
    <3>1. CASE AbandonSightings(w)
      <4>1. work' = [work EXCEPT ![w] = [work[w] EXCEPT !.phase = "log",
                                                        !.next = Len(work[w].faces) + 1, !.logged = 0]]
        BY <3>1 DEF AbandonSightings
      <4> QED BY <4>1
    <3>2. CASE ~AbandonSightings(w)
      <4>1. PICK n \in {0, 1} : Advance(w, n) BY <1>5, <3>2 DEF LogSighting, SkipSighting
      <4> QED BY <4>1 DEF Advance
    <3> QED BY <3>1, <3>2
  <2>4. work'[w].phase # "insert" /\ \A v \in Procs \ {w} : work'[v] = work[v]
    BY <1>0, <2>2, <2>3 DEF Busy
  <2> QED BY <2>1, <2>4, AfterInsert
<1>6. CASE \/ MatchFails(w) \/ GiveUp(w) \/ TimesOut(w) \/ StoreSuccess(w) \/ StoreFailure(w)
           \/ StoreRetry(w) \/ StoreFails(w) \/ Resend(w) \/ ResendFails(w)
  <2>1. UNCHANGED <<late, active>> /\ work[w].phase # "idle"
    BY <1>6 DEF MatchFails, GiveUp, TimesOut, StoreSuccess, StoreFailure, StoreRetry, StoreFails, Resend,
       ResendFails, historyVars
  <2>2. PICK p \in {"resent", "failed", "ack"} : Leave(w, p)
    BY <1>6 DEF MatchFails, GiveUp, TimesOut, StoreSuccess, StoreFailure, StoreRetry, StoreFails, Resend,
       ResendFails
  <2>3. Moved(w, p) BY <2>1, <2>2, Leaving DEF Carrying
  <2> QED BY <2>1, <2>3, AfterInsert DEF Moved
<1> QED BY <1>1, <1>2, <1>3, <1>4, <1>5, <1>6 DEF Work, Fault

LEMMA LateStep == ASSUME WorkOK, LateOK, [Next]_vars PROVE LateOK'
<1>1. ASSUME UNCHANGED <<work, late>>, active' \subseteq active PROVE LateOK'
  BY <1>1, NoInsert DEF Inserts, Face
<1>2. ASSUME NEW j \in Jobs,
             \/ \E b \in Batches : Refuse(j, b) \/ Enqueue(j, b) \/ EnqueueFails(j, b)
             \/ SetTaskOwner(j) \/ Accept(j) \/ RecognizePhoto(j) \/ OwnerLapses(j)
      PROVE  LateOK'
  BY <1>1, <1>2 DEF Refuse, Enqueue, EnqueueFails, SetTaskOwner, Accept, RecognizePhoto, OwnerLapses,
     taskVars, historyVars
<1>3. ASSUME NEW s \in Students, Deactivate(s) PROVE LateOK'
  BY <1>1, <1>3 DEF Deactivate, taskVars, historyVars
<1>4. CASE UNCHANGED vars BY <1>1, <1>4 DEF vars, taskVars, historyVars
<1> QED BY <1>2, <1>3, <1>4, WorkerLate DEF Next

LEMMA LateHolds == Spec => []LateOK
<1>1. Init => LateOK BY DEF Init, LateOK, Inserts, Idle
<1>2. IInv /\ LateOK /\ [Next]_vars => LateOK' BY LateStep DEF IInv
<1> QED BY <1>1, <1>2, InvariantHolds, PTL DEF Spec

\* However many faces of a batch show a student who was deactivated, and however often the
\* batch is delivered, a worker commits at most one sighting of that student too late.
THEOREM LogsOneLate == Spec => []OneLateSighting
<1>1. LateOK => OneLateSighting BY DEF LateOK, OneLateSighting
<1> QED BY <1>1, LateHolds, PTL

=============================================================================
