---------------------------- MODULE TemplatesProof ----------------------------
(***************************************************************************)
(* Proofs about Templates for every value of its constants: any number of  *)
(* students, poses, enrollment requests, importers, sweeps and templates.  *)
(***************************************************************************)
EXTENDS Templates, FiniteSetTheorems, TLAPS

-----------------------------------------------------------------------------
(* The inductive invariant.                                                *)

\* What holds of a writer's record r, whatever the others do: the rows it looks
\* at are templates of its student and pose, the rows it has locked are active,
\* and a request past the gate has a grant on the ledger.
GoodWriter(w, r) ==
    /\ r \in Writer
    /\ r.phase \in {"admitted", "selecting", "locked"}
         => r.student \in Students /\ r.pose \in Poses
    /\ r.phase \notin {"selecting", "locked"} => r.rows = {}
    /\ \A t \in r.rows : /\ template[t].state # "unused"
                         /\ template[t].student = r.student
                         /\ template[t].pose = r.pose
    /\ r.phase = "locked" => \A t \in r.rows : template[t].state = "active"
    /\ EnforceConsent /\ w \in Enrollers
         /\ r.phase \in {"admitted", "selecting", "locked"}
         => "granted" \in decisions[r.student]

\* A template that the sweep may destroy.
Doomed(t) == t \in expired \/ decisions[template[t].student] \cap Refusal # {}

\* What holds of a sweep's record y: the rows it will delete may be deleted.
GoodSweep(y) ==
    /\ y \in Sweep
    /\ y.old \subseteq expired
    /\ \A t \in y.rows : template[t].state # "unused" /\ Doomed(t)

\* What holds of a template: it exists once created, has an owner, and its
\* archive rows match its state.
GoodTemplate(t) ==
    /\ template[t].state = "unused" <=> t > created
    /\ template[t].state = "unused" => template[t].source = "none"
    /\ template[t].state # "unused" => template[t].student \in Students
    /\ archivals[t] <= 1
    /\ template[t].state = "archived" => archivals[t] = 1
    /\ template[t].state \in {"unused", "active"} => archivals[t] = 0

\* A recorded status is on the ledger.
StatusOnLedger == \A s \in Students : consent[s] # "pending" => consent[s] \in decisions[s]

\* No two writers hold a lock on the same row.
LocksExclude ==
    \A v, w \in Writers :
        v # w /\ wr[v].phase = "locked" /\ wr[w].phase = "locked"
          => wr[v].rows \cap wr[w].rows = {}

IInv ==
    /\ TypeOK
    /\ created <= MaxTemplates
    /\ StatusOnLedger
    /\ LocksExclude
    /\ \A w \in Writers : GoodWriter(w, wr[w])
    /\ \A x \in Sweepers : GoodSweep(sw[x])
    /\ \A t \in Ids : GoodTemplate(t)
    /\ RotationLeavesActive
    /\ GrantedBeforeWritten
    /\ PurgedForCause

-----------------------------------------------------------------------------
(* The helpers.                                                            *)

\* Sets of templates are finite, so counting them gives a number.
LEMMA CountType == ASSUME NEW S \in SUBSET Ids PROVE Cardinality(S) \in Nat
<1>1. IsFiniteSet(Ids)
  BY TemplatesAssumption, FS_Interval DEF Ids
<1>2. IsFiniteSet(S)
  BY <1>1, FS_Subset
<1> QED
  BY <1>2, FS_CardinalityType

\* An idle writer, and a writer that is done with a template, hold nothing.
LEMMA RestGood ==
    ASSUME IInv, NEW w \in Writers
    PROVE  /\ GoodWriter(w, IdleWriter) /\ IdleWriter.phase = "idle"
           /\ GoodWriter(w, Rest(w)) /\ Rest(w).phase \in {"idle", "loaded"}
<1>1. wr[w] \in Writer
  BY DEF IInv, TypeOK
<1> QED
  BY <1>1 DEF GoodWriter, Writer, IdleWriter, Rest

\* What NextBatch starts is a sweep without rows, whatever it reports.
LEMMA NextBatchGood ==
    ASSUME NEW y, GoodSweep(y), NEW n \in Nat
    PROVE  /\ GoodSweep([NextBatch(y) EXCEPT !.reported = n])
           /\ GoodSweep(IdleSweep)
BY DEF GoodSweep, NextBatch, IdleSweep, Sweep

\* A batch holds templates that may be destroyed.
LEMMA BatchDoomed ==
    ASSUME IInv, NEW x \in Sweepers
    PROVE  /\ Batch(sw[x]) \subseteq Ids
           /\ \A t \in Batch(sw[x]) : template[t].state # "unused" /\ Doomed(t)
<1> USE DEF IInv
<1>1. ASSUME NEW t \in Batch(sw[x]) PROVE template[t].state # "unused" /\ Doomed(t)
  <2>1. t \in Ids /\ Stored(t)
    BY DEF Batch
  <2>2. template[t].state # "unused" /\ template[t].student \in Students
    BY <2>1 DEF Stored, GoodTemplate
  <2>3. CASE sw[x].batch = "retention_expired"
    BY <2>1, <2>2, <2>3 DEF Batch, GoodSweep, Doomed
  <2>4. CASE sw[x].batch # "retention_expired"
    <3>1. consent[template[t].student] \in Refusal
      BY <2>4 DEF Batch
    <3>2. consent[template[t].student] \in decisions[template[t].student]
      BY <3>1, <2>2 DEF StatusOnLedger, Refusal
    <3> QED
      BY <3>1, <3>2, <2>2 DEF Doomed
  <2> QED
    BY <2>3, <2>4
<1> QED
  BY <1>1 DEF Batch

\* A step of one writer that changes nothing but its record (and the count of
\* disturbances) keeps the invariant, if the new record is good and what it has
\* locked is locked by nobody else.
LEMMA WriterStep ==
    ASSUME IInv, NEW w \in Writers, NEW r, GoodWriter(w, r),
           r.phase = "locked" => r.rows \cap LockedByOthers(w) = {},
           wr' = [wr EXCEPT ![w] = r],
           disturbances' \in Nat,
           UNCHANGED <<student, consent, decisions, template, created,
                       archivals, expired, sw, recorded>>
    PROVE  IInv'
<1> USE DEF IInv
<1>1. /\ wr' \in [Writers -> Writer]
      /\ \A v \in Writers : wr'[v] = IF v = w THEN r ELSE wr[v]
  BY DEF TypeOK, GoodWriter
<1>2. TypeOK'
  BY <1>1 DEF TypeOK
<1>3. \A v \in Writers : GoodWriter(v, wr'[v])
  BY <1>1
<1>4. (\A v \in Writers : GoodWriter(v, wr[v]))'
  BY <1>3 DEF GoodWriter
<1>5. LocksExclude'
  <2> SUFFICES ASSUME NEW v \in Writers, NEW u \in Writers, v # u,
                      wr'[v].phase = "locked", wr'[u].phase = "locked"
               PROVE  wr'[v].rows \cap wr'[u].rows = {}
    BY DEF LocksExclude
  <2>1. ASSUME NEW z \in Writers, z # w, wr[z].phase = "locked", r.phase = "locked"
        PROVE  r.rows \cap wr[z].rows = {}
    <3>1. wr[z].rows \subseteq LockedByOthers(w)
      BY <2>1 DEF LockedByOthers
    <3> QED
      BY <3>1, <2>1
  <2> QED
    BY <1>1, <2>1 DEF LocksExclude
<1>6. /\ StatusOnLedger' /\ (created <= MaxTemplates)'
      /\ (\A x \in Sweepers : GoodSweep(sw[x]))'
      /\ (\A t \in Ids : GoodTemplate(t))'
      /\ RotationLeavesActive' /\ GrantedBeforeWritten' /\ PurgedForCause'
  BY DEF StatusOnLedger, GoodSweep, Doomed, GoodTemplate, RotationLeavesActive,
         GrantedBeforeWritten, PurgedForCause
<1> QED
  BY <1>2, <1>4, <1>5, <1>6

\* A step of one sweep that changes nothing but its record (and the count of
\* disturbances) keeps the invariant, if the new record is good.
LEMMA SweepStep ==
    ASSUME IInv, NEW x \in Sweepers, NEW y, GoodSweep(y),
           sw' = [sw EXCEPT ![x] = y],
           disturbances' \in Nat,
           UNCHANGED <<student, consent, decisions, template, created,
                       archivals, expired, wr, recorded>>
    PROVE  IInv'
<1> USE DEF IInv
<1>1. /\ sw' \in [Sweepers -> Sweep]
      /\ \A z \in Sweepers : sw'[z] = IF z = x THEN y ELSE sw[z]
  BY DEF TypeOK, GoodSweep
<1>2. TypeOK'
  BY <1>1 DEF TypeOK
<1>3. \A z \in Sweepers : GoodSweep(sw'[z])
  BY <1>1
<1>4. (\A z \in Sweepers : GoodSweep(sw[z]))'
  BY <1>3 DEF GoodSweep, Doomed
<1>5. (\A w \in Writers : GoodWriter(w, wr[w]))'
  BY DEF GoodWriter
<1>6. /\ StatusOnLedger' /\ LocksExclude' /\ (created <= MaxTemplates)'
      /\ (\A t \in Ids : GoodTemplate(t))'
      /\ RotationLeavesActive' /\ GrantedBeforeWritten' /\ PurgedForCause'
  BY DEF StatusOnLedger, LocksExclude, GoodTemplate, RotationLeavesActive,
         GrantedBeforeWritten, PurgedForCause
<1> QED
  BY <1>2, <1>4, <1>5, <1>6

-----------------------------------------------------------------------------
(* The initial state.                                                      *)

\* Nothing is stored, locked or running initially.
LEMMA InitInv == Init => IInv
<1> SUFFICES ASSUME Init PROVE IInv
  OBVIOUS
<1> USE DEF Init
<1>1. TypeOK
  BY TemplatesAssumption
     DEF TypeOK, Template, Unused, Writer, IdleWriter, Sweep, IdleSweep, Decision
<1>2. \A w \in Writers : GoodWriter(w, wr[w])
  BY DEF GoodWriter, Writer, IdleWriter
<1>3. \A x \in Sweepers : GoodSweep(sw[x])
  BY DEF GoodSweep, Sweep, IdleSweep
<1>4. \A t \in Ids : GoodTemplate(t)
  BY DEF GoodTemplate, Unused, Ids
<1>5. StatusOnLedger /\ LocksExclude /\ created <= MaxTemplates
  BY TemplatesAssumption DEF StatusOnLedger, LocksExclude, IdleWriter
<1>6. RotationLeavesActive /\ GrantedBeforeWritten /\ PurgedForCause
  BY DEF RotationLeavesActive, GrantedBeforeWritten, PurgedForCause, Unused
<1> QED
  BY <1>1, <1>2, <1>3, <1>4, <1>5, <1>6 DEF IInv

-----------------------------------------------------------------------------
(* The steps of the writers.                                               *)

\* The gate lets a request in only with a grant, which the ledger has.
LEMMA AdmitInv ==
    ASSUME IInv, NEW w \in Enrollers, NEW s \in Students, NEW p \in Poses,
           AdmitEnrollment(w, s, p)
    PROVE  IInv'
<1> DEFINE r == [wr[w] EXCEPT !.phase = "admitted", !.student = s, !.pose = p]
<1>1. w \in Writers /\ GoodWriter(w, wr[w]) /\ wr[w] \in Writer
  BY DEF IInv, GoodWriter, Writers
<1>2. EnforceConsent => "granted" \in decisions[s]
  BY DEF AdmitEnrollment, AdmittedByGate, IInv, StatusOnLedger
<1>3. GoodWriter(w, r) /\ r.phase = "admitted"
  BY <1>1, <1>2 DEF GoodWriter, AdmitEnrollment, Writer
<1>4. wr' = [wr EXCEPT ![w] = r]
  BY DEF AdmitEnrollment
<1>5. disturbances' \in Nat
  BY DEF IInv, TypeOK, AdmitEnrollment
<1> QED
  BY <1>1, <1>3, <1>4, <1>5, WriterStep DEF AdmitEnrollment

\* The rows a SELECT starts with are templates of the student and pose.
LEMMA SelectedRows ==
    ASSUME NEW s, NEW p
    PROVE  /\ ActiveRows(s, p) \subseteq Ids
           /\ \A t \in ActiveRows(s, p) : /\ template[t].state # "unused"
                                          /\ template[t].student = s
                                          /\ template[t].pose = p
BY DEF ActiveRows

\* Every step of a request up to its lock keeps the invariant.
LEMMA EnrollInv ==
    ASSUME IInv, NEW w \in Enrollers, Enrolling(w)
    PROVE  IInv'
<1>1. w \in Writers /\ GoodWriter(w, wr[w]) /\ wr[w] \in Writer
  BY DEF IInv, GoodWriter, Writers
<1>2. CASE \E s \in Students, p \in Poses : AdmitEnrollment(w, s, p)
  BY <1>2, AdmitInv
<1>3. CASE RefuseImage(w)
  <2>1. disturbances' \in Nat
    BY <1>3 DEF IInv, TypeOK, RefuseImage
  <2> QED
    BY <1>1, <1>3, <2>1, RestGood, WriterStep DEF RefuseImage
<1>4. CASE SelectActives(w)
  <2> DEFINE r == [wr[w] EXCEPT !.phase = "selecting",
                                !.rows = ActiveRows(wr[w].student, wr[w].pose)]
  <2> DEFINE A == ActiveRows(wr[w].student, wr[w].pose)
  <2>1. /\ A \in SUBSET Ids
        /\ \A t \in A : /\ template[t].state # "unused"
                        /\ template[t].student = wr[w].student
                        /\ template[t].pose = wr[w].pose
    BY SelectedRows
  <2>2. /\ r \in Writer /\ r.phase = "selecting" /\ r.rows = A
        /\ r.student = wr[w].student /\ r.pose = wr[w].pose
    BY <1>1, <2>1 DEF Writer
  <2>3. GoodWriter(w, r) /\ r.phase = "selecting"
    <3> HIDE DEF r, A
    <3> QED
      BY <1>1, <1>4, <2>1, <2>2 DEF GoodWriter, SelectActives
  <2>4. wr' = [wr EXCEPT ![w] = r] /\ disturbances' \in Nat
    BY <1>4 DEF SelectActives, IInv, TypeOK
  <2> QED
    BY <1>1, <1>4, <2>3, <2>4, WriterStep DEF SelectActives
<1> QED
  BY <1>2, <1>3, <1>4 DEF Enrolling

\* Every step of an importer up to its lock keeps the invariant.
LEMMA ImportInv ==
    ASSUME IInv, NEW w \in Importers, Importing(w)
    PROVE  IInv'
<1>1. /\ w \in Writers /\ w \notin Enrollers
      /\ GoodWriter(w, wr[w]) /\ wr[w] \in Writer
  BY TemplatesAssumption DEF IInv, GoodWriter, Writers
<1>2. CASE LoadRoster(w)
  <2> DEFINE r == [wr[w] EXCEPT !.phase = "loaded",
                     !.roster = {s \in Students : student[s] = "active"}]
  <2>1. GoodWriter(w, r) /\ r.phase = "loaded"
    BY <1>1, <1>2 DEF GoodWriter, LoadRoster, Writer
  <2>2. wr' = [wr EXCEPT ![w] = r] /\ disturbances' \in Nat
    BY <1>2 DEF LoadRoster, IInv, TypeOK
  <2> QED
    BY <1>1, <1>2, <2>1, <2>2, WriterStep DEF LoadRoster
<1>3. ASSUME NEW s \in Students, NEW p \in Poses, SelectImported(w, s, p)
      PROVE  IInv'
  <2> DEFINE r == [wr[w] EXCEPT !.phase = "selecting", !.student = s,
                                !.pose = p, !.rows = ActiveRows(s, p)]
  <2>1. r \in Writer /\ r.phase = "selecting" /\ r.rows = ActiveRows(s, p)
        /\ r.student = s /\ r.pose = p
    BY <1>1, SelectedRows DEF Writer
  <2>2. GoodWriter(w, r) /\ r.phase = "selecting"
    <3> HIDE DEF r
    <3> QED
      BY <1>1, <2>1, SelectedRows DEF GoodWriter
  <2>3. wr' = [wr EXCEPT ![w] = r] /\ disturbances' \in Nat
    BY <1>3 DEF SelectImported, IInv, TypeOK
  <2> QED
    BY <1>1, <1>3, <2>2, <2>3, WriterStep DEF SelectImported
<1>4. CASE EndImport(w)
  <2>1. disturbances' \in Nat
    BY <1>4 DEF IInv, TypeOK, EndImport
  <2> QED
    BY <1>1, <1>4, <2>1, RestGood, WriterStep DEF EndImport
<1> QED
  BY <1>2, <1>3, <1>4 DEF Importing

\* A granted lock is held by nobody else, and the rows it keeps are active.
LEMMA LockInv ==
    ASSUME IInv, NEW w \in Writers, LockActives(w)
    PROVE  IInv'
<1>1. GoodWriter(w, wr[w]) /\ wr[w] \in Writer
  BY DEF IInv, GoodWriter
<1>2. disturbances' \in Nat
  BY DEF IInv, TypeOK, LockActives
<1>3. CASE w \in Importers /\ ~Overwrite /\ StillActive(wr[w].rows) # {}
  <2>1. wr' = [wr EXCEPT ![w] = Rest(w)]
    BY <1>3 DEF LockActives
  <2> QED
    BY <1>2, <2>1, RestGood, WriterStep DEF LockActives
<1>4. CASE ~(w \in Importers /\ ~Overwrite /\ StillActive(wr[w].rows) # {})
  <2> DEFINE r == [wr[w] EXCEPT !.phase = "locked", !.rows = StillActive(wr[w].rows)]
  <2>1. wr' = [wr EXCEPT ![w] = r]
    BY <1>4 DEF LockActives
  <2>2. /\ StillActive(wr[w].rows) \subseteq wr[w].rows
        /\ \A t \in StillActive(wr[w].rows) : template[t].state = "active"
    BY DEF StillActive
  <2>3. GoodWriter(w, r)
    BY <1>1, <2>2 DEF GoodWriter, LockActives, Writer
  <2>4. r.rows \cap LockedByOthers(w) = {}
    BY <1>1, <2>2 DEF LockActives, Writer
  <2> QED
    BY <1>2, <2>1, <2>3, <2>4, WriterStep DEF LockActives
<1> QED
  BY <1>3, <1>4

\* A rolled back write leaves no trace.
LEMMA FailWriteInv ==
    ASSUME IInv, NEW w \in Writers, FailWrite(w)
    PROVE  IInv'
<1>1. disturbances' \in Nat
  BY DEF IInv, TypeOK, FailWrite
<1> QED
  BY <1>1, RestGood, WriterStep DEF FailWrite

\* A commit turns exactly the rows it has locked from active to archived and
\* adds an active row of the same student and pose.
LEMMA CommitInv ==
    ASSUME IInv, NEW w \in Writers, CommitTemplate(w)
    PROVE  IInv'
<1> DEFINE n == created + 1
           s == wr[w].student
           p == wr[w].pose
<1> USE DEF IInv
<1>1. /\ GoodWriter(w, wr[w]) /\ wr[w] \in Writer
      /\ s \in Students /\ p \in Poses /\ wr[w].rows \subseteq Ids
      /\ wr[w].phase = "locked"
  BY DEF GoodWriter, CommitTemplate, Writer
<1>2. n \in Ids /\ n > created /\ created \in Nat
  BY TemplatesAssumption DEF TypeOK, CommitTemplate, Ids
<1>3. /\ template[n].state = "unused" /\ n \notin wr[w].rows /\ archivals[n] = 0
  BY <1>1, <1>2 DEF GoodTemplate, GoodWriter
<1>4. /\ template' \in [Ids -> Template]
      /\ template'[n] = NewTemplate(w)
      /\ \A t \in Ids : t \in wr[w].rows =>
           /\ template'[t].state = "archived"
           /\ template'[t].student = template[t].student
           /\ template'[t].pose = template[t].pose
           /\ template'[t].source = template[t].source
      /\ \A t \in Ids : t # n /\ t \notin wr[w].rows => template'[t] = template[t]
  <2>1. NewTemplate(w) \in Template
    BY <1>1 DEF NewTemplate, Template
  <2>2. ASSUME NEW t \in Ids
        PROVE  /\ template[t] \in Template
               /\ [template[t] EXCEPT !.state = "archived"] \in Template
               /\ [template[t] EXCEPT !.state = "archived"].state = "archived"
               /\ [template[t] EXCEPT !.state = "archived"].student = template[t].student
               /\ [template[t] EXCEPT !.state = "archived"].pose = template[t].pose
               /\ [template[t] EXCEPT !.state = "archived"].source = template[t].source
    <3>1. template[t] \in Template
      BY DEF TypeOK
    <3> QED
      BY <3>1 DEF Template
  <2>3. /\ template' = [t \in Ids |->
                IF t = n THEN NewTemplate(w)
                ELSE IF t \in wr[w].rows
                THEN [template[t] EXCEPT !.state = "archived"] ELSE template[t]]
    BY DEF CommitTemplate
  <2> QED
    BY <1>2, <1>3, <2>1, <2>2, <2>3
<1>5. /\ archivals' \in [Ids -> Nat] /\ created' = n
      /\ \A t \in Ids : archivals'[t] = IF t \in wr[w].rows THEN archivals[t] + 1
                                        ELSE archivals[t]
  BY DEF CommitTemplate, TypeOK
<1>6. /\ wr' = [wr EXCEPT ![w] = Rest(w)]
      /\ GoodWriter(w, Rest(w)) /\ Rest(w).phase \in {"idle", "loaded"}
      /\ Rest(w) \in Writer /\ Rest(w).rows = {}
  BY RestGood DEF CommitTemplate, GoodWriter
<1>7. /\ NewTemplate(w).state = "active" /\ NewTemplate(w).student = s
      /\ NewTemplate(w).pose = p
      /\ NewTemplate(w).source = "api" => w \in Enrollers
  BY DEF NewTemplate, Writers
<1>8. TypeOK' /\ (created <= MaxTemplates)' /\ StatusOnLedger'
  <2>1. wr' \in [Writers -> Writer]
    BY <1>6 DEF TypeOK
  <2>2. created' \in Nat /\ created' <= MaxTemplates
    BY <1>2, <1>5 DEF Ids
  <2>3. UNCHANGED <<student, consent, decisions, expired, sw, recorded, disturbances>>
    BY DEF CommitTemplate
  <2>4. TypeOK'
    BY <1>4, <1>5, <2>1, <2>2, <2>3 DEF TypeOK
  <2> QED
    BY <2>2, <2>3, <2>4 DEF StatusOnLedger
<1>9. LocksExclude'
  BY <1>6 DEF LocksExclude, TypeOK
<1>10. (\A v \in Writers : GoodWriter(v, wr[v]))'
  <2> SUFFICES ASSUME NEW v \in Writers PROVE GoodWriter(v, wr[v])'
    OBVIOUS
  <2>1. CASE v = w
    BY <1>6, <2>1 DEF GoodWriter, TypeOK
  <2>2. CASE v # w
    <3>1. wr'[v] = wr[v] /\ GoodWriter(v, wr[v]) /\ wr[v].rows \subseteq Ids
      BY <1>6, <2>2 DEF TypeOK, GoodWriter, Writer
    <3>2. ASSUME NEW t \in wr[v].rows
          PROVE  /\ template'[t].state # "unused"
                 /\ template'[t].student = template[t].student
                 /\ template'[t].pose = template[t].pose
                 /\ wr[v].phase = "locked" => template'[t].state = template[t].state
      <4>1. t \in Ids /\ t # n
        BY <1>3, <3>1 DEF GoodWriter
      <4>2. wr[v].phase = "locked" => t \notin wr[w].rows
        BY <1>1, <2>2 DEF LocksExclude
      <4> QED
        BY <1>4, <3>1, <4>1, <4>2 DEF GoodWriter
    <3>3. decisions' = decisions
      BY DEF CommitTemplate
    <3> QED
      BY <3>1, <3>2, <3>3 DEF GoodWriter
  <2> QED
    BY <2>1, <2>2
<1>11. (\A x \in Sweepers : GoodSweep(sw[x]))'
  <2> SUFFICES ASSUME NEW x \in Sweepers PROVE GoodSweep(sw[x])'
    OBVIOUS
  <2>1. /\ sw'[x] = sw[x] /\ expired' = expired /\ decisions' = decisions
        /\ GoodSweep(sw[x]) /\ sw[x].rows \subseteq Ids
    BY DEF CommitTemplate, GoodSweep, Sweep
  <2>2. ASSUME NEW t \in sw[x].rows
        PROVE  template'[t].state # "unused" /\ Doomed(t)'
    <3>1. t \in Ids /\ t # n /\ template[t].state # "unused" /\ Doomed(t)
      BY <1>3, <2>1 DEF GoodSweep
    <3> QED
      BY <1>4, <2>1, <3>1 DEF Doomed
  <2> QED
    BY <2>1, <2>2 DEF GoodSweep
<1>12. (\A t \in Ids : GoodTemplate(t))'
  <2> SUFFICES ASSUME NEW t \in Ids PROVE GoodTemplate(t)'
    OBVIOUS
  <2>1. GoodTemplate(t) /\ t \in Int
    BY DEF Ids
  <2>2. CASE t = n
    BY <1>1, <1>2, <1>3, <1>4, <1>5, <1>7, <2>2 DEF GoodTemplate
  <2>3. CASE t \in wr[w].rows
    <3>1. template[t].state = "active" /\ archivals[t] = 0
      BY <1>1, <2>1, <2>3 DEF GoodWriter, GoodTemplate
    <3> QED
      BY <1>2, <1>3, <1>4, <1>5, <2>1, <2>3, <3>1 DEF GoodTemplate
  <2>4. CASE t # n /\ t \notin wr[w].rows
    BY <1>2, <1>4, <1>5, <2>1, <2>4 DEF GoodTemplate
  <2> QED
    BY <2>2, <2>3, <2>4
<1>13. RotationLeavesActive'
  <2> SUFFICES ASSUME NEW t \in Ids, template'[t].state = "archived"
               PROVE  \E u \in Ids : /\ template'[u].state \in {"active", "purged"}
                                     /\ template'[u].student = template'[t].student
                                     /\ template'[u].pose = template'[t].pose
    BY DEF RotationLeavesActive
  <2>1. t # n
    BY <1>4, <1>7
  <2>2. CASE template[t].student = s /\ template[t].pose = p
    BY <1>2, <1>4, <1>7, <2>1, <2>2
  <2>3. CASE ~(template[t].student = s /\ template[t].pose = p)
    <3>1. t \notin wr[w].rows /\ template'[t] = template[t]
      BY <1>1, <1>4, <2>1, <2>3 DEF GoodWriter
    <3>2. PICK u \in Ids : /\ template[u].state \in {"active", "purged"}
                           /\ template[u].student = template[t].student
                           /\ template[u].pose = template[t].pose
      BY <3>1 DEF RotationLeavesActive
    <3>3. u # n /\ u \notin wr[w].rows
      BY <1>1, <1>3, <2>3, <3>2 DEF GoodWriter
    <3> QED
      BY <1>4, <3>1, <3>2, <3>3
  <2> QED
    BY <2>2, <2>3
<1>14. GrantedBeforeWritten'
  <2> SUFFICES ASSUME EnforceConsent, NEW t \in Ids, template'[t].source = "api"
               PROVE  "granted" \in decisions'[template'[t].student]
    BY DEF GrantedBeforeWritten
  <2>1. decisions' = decisions
    BY DEF CommitTemplate
  <2>2. CASE t = n
    BY <1>1, <1>4, <1>7, <2>1, <2>2 DEF GoodWriter
  <2>3. CASE t # n
    BY <1>4, <2>1, <2>3 DEF GrantedBeforeWritten
  <2> QED
    BY <2>2, <2>3
<1>15. PurgedForCause'
  <2> SUFFICES ASSUME NEW t \in Ids, template'[t].state = "purged"
               PROVE  t \in expired' \/ decisions'[template'[t].student] \cap Refusal # {}
    BY DEF PurgedForCause
  <2>1. decisions' = decisions /\ expired' = expired
    BY DEF CommitTemplate
  <2>2. t # n /\ t \notin wr[w].rows
    BY <1>4, <1>7
  <2> QED
    BY <1>4, <2>1, <2>2 DEF PurgedForCause
<1> QED
  BY <1>8, <1>9, <1>10, <1>11, <1>12, <1>13, <1>14, <1>15

-----------------------------------------------------------------------------
(* The steps of the others.                                                *)

\* A decision only adds to the ledger.
LEMMA ConsentInv ==
    ASSUME IInv, NEW s \in Students, NEW v \in Decision, RecordConsent(s, v)
    PROVE  IInv'
<1> USE DEF IInv
<1>1. /\ consent' = [consent EXCEPT ![s] = v]
      /\ decisions' = [decisions EXCEPT ![s] = decisions[s] \cup {v}]
      /\ UNCHANGED <<student, template, created, archivals, expired, wr, sw, disturbances>>
      /\ recorded' \in Nat
  BY DEF RecordConsent, TypeOK
<1>2. /\ decisions' \in [Students -> SUBSET Decision]
      /\ \A z \in Students : decisions[z] \subseteq decisions'[z]
      /\ v \in decisions'[s]
      /\ consent' \in [Students -> Decision \cup {"pending"}]
  BY <1>1 DEF TypeOK
<1>3. TypeOK' /\ (created <= MaxTemplates)'
  BY <1>1, <1>2 DEF TypeOK
<1>4. StatusOnLedger'
  BY <1>1, <1>2 DEF StatusOnLedger, TypeOK
<1>5. (\A w \in Writers : GoodWriter(w, wr[w]))'
  BY <1>1, <1>2 DEF GoodWriter
<1>6. (\A x \in Sweepers : GoodSweep(sw[x]))'
  <2> SUFFICES ASSUME NEW x \in Sweepers PROVE GoodSweep(sw[x])'
    OBVIOUS
  <2>1. GoodSweep(sw[x]) /\ sw[x].rows \subseteq Ids
    BY DEF GoodSweep, Sweep
  <2>2. \A t \in sw[x].rows : template[t].student \in Students
    BY <2>1 DEF GoodSweep, GoodTemplate
  <2> QED
    BY <1>1, <1>2, <2>1, <2>2 DEF GoodSweep, Doomed
<1>7. LocksExclude' /\ (\A t \in Ids : GoodTemplate(t))' /\ RotationLeavesActive'
  BY <1>1 DEF LocksExclude, GoodTemplate, RotationLeavesActive
<1>8. GrantedBeforeWritten' /\ PurgedForCause'
  <2>1. \A t \in Ids : template[t].source = "api" \/ template[t].state = "purged"
                         => template[t].student \in Students
    BY DEF GoodTemplate
  <2>2. GrantedBeforeWritten'
    BY <1>1, <1>2, <2>1 DEF GrantedBeforeWritten
  <2>3. PurgedForCause'
    BY <1>1, <1>2, <2>1 DEF PurgedForCause
  <2> QED
    BY <2>2, <2>3
<1> QED
  BY <1>3, <1>4, <1>5, <1>6, <1>7, <1>8

\* Nothing in the invariant depends on whether a student is active.
LEMMA ToggleInv ==
    ASSUME IInv, NEW s \in Students, ToggleStudent(s)
    PROVE  IInv'
<1> USE DEF IInv
<1>1. /\ student' \in [Students -> {"active", "inactive", "deleted"}]
      /\ disturbances' \in Nat
      /\ UNCHANGED <<consent, decisions, template, created, archivals, expired,
                     wr, sw, recorded>>
  BY DEF ToggleStudent, TypeOK
<1>2. TypeOK' /\ StatusOnLedger' /\ LocksExclude' /\ (created <= MaxTemplates)'
  BY <1>1 DEF TypeOK, StatusOnLedger, LocksExclude
<1>3. /\ (\A w \in Writers : GoodWriter(w, wr[w]))'
      /\ (\A x \in Sweepers : GoodSweep(sw[x]))'
      /\ (\A t \in Ids : GoodTemplate(t))'
  BY <1>1 DEF GoodWriter, GoodSweep, GoodTemplate, Doomed
<1>4. RotationLeavesActive' /\ GrantedBeforeWritten' /\ PurgedForCause'
  BY <1>1 DEF RotationLeavesActive, GrantedBeforeWritten, PurgedForCause
<1> QED
  BY <1>2, <1>3, <1>4

\* More templates past the horizon only widen the causes.
LEMMA ExpireInv ==
    ASSUME IInv, NEW t \in Ids, Expire(t)
    PROVE  IInv'
<1> USE DEF IInv
<1>1. /\ expired \subseteq expired' /\ expired' \subseteq Ids
      /\ UNCHANGED <<student, consent, decisions, template, created, archivals,
                     wr, sw, recorded, disturbances>>
  BY DEF Expire, TypeOK
<1>2. TypeOK' /\ StatusOnLedger' /\ LocksExclude' /\ (created <= MaxTemplates)'
  BY <1>1 DEF TypeOK, StatusOnLedger, LocksExclude
<1>3. /\ (\A w \in Writers : GoodWriter(w, wr[w]))'
      /\ (\A x \in Sweepers : GoodSweep(sw[x]))'
      /\ (\A u \in Ids : GoodTemplate(u))'
  BY <1>1 DEF GoodWriter, GoodSweep, GoodTemplate, Doomed
<1>4. RotationLeavesActive' /\ GrantedBeforeWritten' /\ PurgedForCause'
  BY <1>1 DEF RotationLeavesActive, GrantedBeforeWritten, PurgedForCause
<1> QED
  BY <1>2, <1>3, <1>4

\* A sweep and a deletion only take rows that nobody has locked to an end state
\* e, "purged" or "removed".  gone is the set they take.
LEMMA TakeInv ==
    ASSUME IInv, NEW e \in {"purged", "removed"}, NEW gone \in SUBSET Ids,
           \A t \in gone : Stored(t) /\ t \notin Locked,
           e = "purged" => \A t \in gone : Doomed(t),
           e = "removed" => \A t \in gone, u \in Ids \ gone :
                               Stored(u) => template[u].student # template[t].student,
           template' = [t \in Ids |-> IF t \in gone
                                      THEN [template[t] EXCEPT !.state = e]
                                      ELSE template[t]],
           student' \in [Students -> {"active", "inactive", "deleted"}],
           sw' \in [Sweepers -> Sweep],
           \A x \in Sweepers : GoodSweep(sw'[x]),
           disturbances' \in Nat,
           UNCHANGED <<consent, decisions, created, archivals, expired, wr, recorded>>
    PROVE  IInv'
<1> USE DEF IInv
<1>1. /\ template' \in [Ids -> Template]
      /\ \A t \in Ids : /\ template'[t].student = template[t].student
                        /\ template'[t].pose = template[t].pose
                        /\ template'[t].source = template[t].source
                        /\ t \in gone => template'[t].state = e
                        /\ t \notin gone => template'[t] = template[t]
  <2>1. ASSUME NEW t \in Ids
        PROVE  /\ template[t] \in Template
               /\ [template[t] EXCEPT !.state = e] \in Template
               /\ [template[t] EXCEPT !.state = e].state = e
               /\ [template[t] EXCEPT !.state = e].student = template[t].student
               /\ [template[t] EXCEPT !.state = e].pose = template[t].pose
               /\ [template[t] EXCEPT !.state = e].source = template[t].source
    <3>1. template[t] \in Template
      BY DEF TypeOK
    <3> QED
      BY <3>1 DEF Template
  <2> QED
    BY <2>1
<1>2. TypeOK' /\ StatusOnLedger' /\ LocksExclude' /\ (created <= MaxTemplates)'
  BY <1>1 DEF TypeOK, StatusOnLedger, LocksExclude
<1>3. (\A w \in Writers : GoodWriter(w, wr[w]))'
  <2> SUFFICES ASSUME NEW w \in Writers PROVE GoodWriter(w, wr[w])'
    OBVIOUS
  <2>1. wr'[w] = wr[w] /\ GoodWriter(w, wr[w]) /\ wr[w].rows \subseteq Ids
    BY DEF GoodWriter, Writer
  <2>2. wr[w].phase = "locked" => wr[w].rows \cap gone = {}
    BY DEF Locked
  <2>3. \A t \in wr[w].rows : /\ template'[t].state # "unused"
                              /\ template'[t].student = template[t].student
                              /\ template'[t].pose = template[t].pose
    BY <1>1, <2>1 DEF GoodWriter
  <2>4. wr[w].phase = "locked" => \A t \in wr[w].rows : template'[t].state = "active"
    BY <1>1, <2>1, <2>2 DEF GoodWriter
  <2> QED
    BY <2>1, <2>3, <2>4 DEF GoodWriter
<1>4. (\A x \in Sweepers : GoodSweep(sw[x]))'
  <2> SUFFICES ASSUME NEW x \in Sweepers PROVE GoodSweep(sw[x])'
    OBVIOUS
  <2>1. GoodSweep(sw'[x]) /\ sw'[x].rows \subseteq Ids
    BY DEF GoodSweep, Sweep
  <2>2. \A t \in sw'[x].rows : template'[t].state # "unused" /\ Doomed(t)'
    BY <1>1, <2>1 DEF GoodSweep, Doomed
  <2> QED
    BY <2>1, <2>2 DEF GoodSweep
<1>5. (\A t \in Ids : GoodTemplate(t))'
  BY <1>1 DEF GoodTemplate, Stored
<1>6. RotationLeavesActive'
  <2> SUFFICES ASSUME NEW t \in Ids, template'[t].state = "archived"
               PROVE  \E u \in Ids : /\ template'[u].state \in {"active", "purged"}
                                     /\ template'[u].student = template'[t].student
                                     /\ template'[u].pose = template'[t].pose
    BY DEF RotationLeavesActive
  <2>1. t \notin gone /\ template[t].state = "archived"
    BY <1>1
  <2>2. PICK u \in Ids : /\ template[u].state \in {"active", "purged"}
                         /\ template[u].student = template[t].student
                         /\ template[u].pose = template[t].pose
    BY <2>1 DEF RotationLeavesActive
  <2>3. template'[u].state \in {"active", "purged"}
    <3>1. e = "removed" => u \notin gone
      BY <2>1, <2>2 DEF Stored
    <3> QED
      BY <1>1, <2>2, <3>1
  <2> QED
    BY <1>1, <2>2, <2>3
<1>7. GrantedBeforeWritten'
  BY <1>1 DEF GrantedBeforeWritten
<1>8. PurgedForCause'
  BY <1>1 DEF PurgedForCause, Doomed
<1> QED
  BY <1>2, <1>3, <1>4, <1>5, <1>6, <1>7, <1>8

\* A deletion takes all templates of one student and of nobody else.
LEMMA DeleteStudentInv ==
    ASSUME IInv, NEW s \in Students, DeleteStudent(s)
    PROVE  IInv'
<1> DEFINE gone == {t \in Ids : Stored(t) /\ template[t].student = s}
<1>1. /\ gone \in SUBSET Ids
      /\ \A t \in gone : Stored(t) /\ t \notin Locked
      /\ \A t \in gone, u \in Ids \ gone :
           Stored(u) => template[u].student # template[t].student
  BY DEF DeleteStudent
<1>2. template' = [t \in Ids |-> IF t \in gone
                                 THEN [template[t] EXCEPT !.state = "removed"]
                                 ELSE template[t]]
  BY DEF DeleteStudent
<1>3. /\ student' \in [Students -> {"active", "inactive", "deleted"}]
      /\ disturbances' \in Nat /\ sw' \in [Sweepers -> Sweep]
      /\ \A x \in Sweepers : GoodSweep(sw'[x])
      /\ UNCHANGED <<consent, decisions, created, archivals, expired, wr, recorded>>
  BY DEF DeleteStudent, IInv, TypeOK
<1> QED
  BY <1>1, <1>2, <1>3, TakeInv

\* A sweep marks only templates with a cause, and takes only those it marked.
LEMMA SweepInv ==
    ASSUME IInv, NEW x \in Sweepers, Sweeping(x)
    PROVE  IInv'
<1>1. GoodSweep(sw[x]) /\ sw[x] \in Sweep /\ disturbances \in Nat
  BY DEF IInv, GoodSweep, TypeOK
<1>2. CASE StartSweep(x)
  <2> DEFINE y == [IdleSweep EXCEPT !.phase = "counting", !.old = expired]
  <2>1. GoodSweep(y)
    BY DEF GoodSweep, IdleSweep, Sweep, IInv, TypeOK
  <2>2. sw' = [sw EXCEPT ![x] = y]
    BY <1>2 DEF StartSweep
  <2> QED
    BY <1>1, <1>2, <2>1, <2>2, SweepStep DEF StartSweep
<1>3. CASE CountBatch(x)
  <2>1. Cardinality(Batch(sw[x])) \in Nat
    BY BatchDoomed, CountType
  <2>2. CASE Batch(sw[x]) = {}
    <3> DEFINE y == [NextBatch(sw[x]) EXCEPT !.reported = 0]
    <3>1. GoodSweep(y)
      BY <1>1, NextBatchGood
    <3>2. sw' = [sw EXCEPT ![x] = y]
      BY <1>3, <2>2 DEF CountBatch
    <3> QED
      BY <1>1, <1>3, <3>1, <3>2, SweepStep DEF CountBatch
  <2>3. CASE Batch(sw[x]) # {}
    <3> DEFINE c == Cardinality(Batch(sw[x]))
               y == [sw[x] EXCEPT !.phase = "deleting", !.reported = 0, !.claimed = c]
    <3>1. sw' = [sw EXCEPT ![x] = y]
      BY <1>3, <2>3 DEF CountBatch
    <3>2. GoodSweep(y)
      <4> HIDE DEF c
      <4> QED
        BY <1>1, <2>1 DEF GoodSweep, Sweep, c
    <3> QED
      BY <1>1, <1>3, <3>1, <3>2, SweepStep DEF CountBatch
  <2> QED
    BY <2>2, <2>3
<1>4. CASE StartDelete(x)
  <2> DEFINE b == Batch(sw[x])
             y == [sw[x] EXCEPT !.phase = "waiting", !.rows = b]
  <2>1. b \subseteq Ids /\ \A t \in b : template[t].state # "unused" /\ Doomed(t)
    BY BatchDoomed
  <2>2. sw' = [sw EXCEPT ![x] = y]
    BY <1>4 DEF StartDelete
  <2>3. GoodSweep(y)
    <3> HIDE DEF b
    <3> QED
      BY <1>1, <2>1 DEF GoodSweep, Sweep
  <2> QED
    BY <1>1, <1>4, <2>2, <2>3, SweepStep DEF StartDelete
<1>5. CASE FinishDelete(x)
  <2> DEFINE gone == {t \in sw[x].rows : Stored(t)}
             y == [NextBatch(sw[x]) EXCEPT !.reported = Reported(gone, sw[x].claimed)]
  <2>1. sw[x].rows \subseteq Ids /\ gone \in SUBSET Ids
    BY <1>1 DEF Sweep
  <2>2. Reported(gone, sw[x].claimed) \in Nat
    BY <1>1, <2>1, CountType DEF Reported, Sweep
  <2>3. GoodSweep(y)
    BY <1>1, <2>2, NextBatchGood
  <2>4. /\ template' = [t \in Ids |-> IF t \in gone
                                      THEN [template[t] EXCEPT !.state = "purged"]
                                      ELSE template[t]]
        /\ sw' = [sw EXCEPT ![x] = y]
        /\ UNCHANGED <<student, consent, decisions, created, archivals, expired,
                       wr, recorded, disturbances>>
    BY <1>5 DEF FinishDelete
  <2>5. \A t \in gone : Stored(t) /\ t \notin Locked /\ Doomed(t)
    BY <1>1, <1>5 DEF FinishDelete, GoodSweep
  <2>6. /\ sw' \in [Sweepers -> Sweep]
        /\ \A z \in Sweepers : GoodSweep(sw'[z])
        /\ student' \in [Students -> {"active", "inactive", "deleted"}]
        /\ disturbances' \in Nat
    <3> HIDE DEF y, gone
    <3> QED
      BY <1>1, <2>3, <2>4 DEF IInv, TypeOK, GoodSweep
  <2> QED
    BY <2>1, <2>4, <2>5, <2>6, TakeInv
<1> QED
  BY <1>2, <1>3, <1>4, <1>5 DEF Sweeping

\* An aborted sweep forgets what it was about to delete.
LEMMA FailSweepInv ==
    ASSUME IInv, NEW x \in Sweepers, FailSweep(x)
    PROVE  IInv'
<1>1. GoodSweep(IdleSweep) /\ disturbances' \in Nat
  BY DEF GoodSweep, Sweep, IdleSweep, IInv, TypeOK, FailSweep
<1> QED
  BY <1>1, SweepStep DEF FailSweep

-----------------------------------------------------------------------------
(* The theorems.                                                           *)

\* Every step keeps the invariant.
LEMMA StepInv == IInv /\ [Next]_vars => IInv'
<1> SUFFICES ASSUME IInv, [Next]_vars PROVE IInv'
  OBVIOUS
<1>1. ASSUME NEW w \in Enrollers, Enrolling(w) PROVE IInv'
  BY <1>1, EnrollInv
<1>2. ASSUME NEW w \in Importers, Importing(w) PROVE IInv'
  BY <1>2, ImportInv
<1>3. ASSUME NEW w \in Writers, LockActives(w) \/ Finishing(w) PROVE IInv'
  BY <1>3, LockInv, CommitInv, FailWriteInv DEF Finishing
<1>4. ASSUME NEW x \in Sweepers, Sweeping(x) \/ FailSweep(x) PROVE IInv'
  BY <1>4, SweepInv, FailSweepInv
<1>5. ASSUME NEW s \in Students, Recording(s) \/ ToggleStudent(s) \/ DeleteStudent(s)
      PROVE  IInv'
  BY <1>5, ConsentInv, ToggleInv, DeleteStudentInv DEF Recording
<1>6. ASSUME NEW t \in Ids, Expire(t) PROVE IInv'
  BY <1>6, ExpireInv
<1>7. CASE UNCHANGED vars
  <2>1. UNCHANGED <<student, consent, decisions, template, created, archivals,
                    expired, wr, sw, recorded, disturbances>>
    BY <1>7 DEF vars
  <2> QED
    BY <2>1 DEF IInv, TypeOK, StatusOnLedger, LocksExclude, GoodWriter, GoodSweep,
                GoodTemplate, Doomed, RotationLeavesActive, GrantedBeforeWritten,
                PurgedForCause
<1> QED
  BY <1>1, <1>2, <1>3, <1>4, <1>5, <1>6, <1>7 DEF Next

\* The inductive invariant holds in every reachable state.
THEOREM InvariantHolds == Spec => []IInv
BY InitInv, StepInv, PTL DEF Spec

\* Every reachable state is well typed.
THEOREM TypeCorrect == Spec => []TypeOK
<1>1. IInv => TypeOK
  BY DEF IInv
<1> QED
  BY <1>1, InvariantHolds, PTL

\* However many requests and importers rotate a pose, each template is archived
\* once and its audit trail says so.
THEOREM EachArchivedOnce == Spec => []ArchivedOnce
<1>1. IInv => ArchivedOnce
  BY DEF IInv, GoodTemplate, ArchivedOnce
<1> QED
  BY <1>1, InvariantHolds, PTL

\* A pose that had a template has an active one until a sweep destroys it.
THEOREM NoPoseLeftBare == Spec => []RotationLeavesActive
<1>1. IInv => RotationLeavesActive
  BY DEF IInv
<1> QED
  BY <1>1, InvariantHolds, PTL

\* With enforcement on, no template enters through the API without a grant.
THEOREM NoTemplateWithoutGrant == Spec => []GrantedBeforeWritten
<1>1. IInv => GrantedBeforeWritten
  BY DEF IInv
<1> QED
  BY <1>1, InvariantHolds, PTL

\* The sweep destroys nothing but expired and refused templates.
THEOREM NothingPurgedWithoutCause == Spec => []PurgedForCause
<1>1. IInv => PurgedForCause
  BY DEF IInv
<1> QED
  BY <1>1, InvariantHolds, PTL

-----------------------------------------------------------------------------
(* One writer at a time.                                                   *)

\* There is at most one request slot or importer.
OneWriter == \A v, w \in Writers : v = w

\* A pose of a student has one active row, if any.
UniqueActive ==
    \A t, u \in Ids : /\ template[t].state = "active" /\ template[u].state = "active"
                      /\ template[t].student = template[u].student
                      /\ template[t].pose = template[u].pose
                      => t = u

\* A writer that has started its SELECT looks at every active row of its pose.
SeesActives ==
    \A w \in Writers : wr[w].phase \in {"selecting", "locked"}
                         => ActiveRows(wr[w].student, wr[w].pose) \subseteq wr[w].rows

SerialInv == IInv /\ UniqueActive /\ SeesActives

\* Steps that activate nothing and start or widen no SELECT keep the invariant.
LEMMA SerialQuiet ==
    ASSUME SerialInv, IInv',
           \A t \in Ids : template'[t].state = "active" => template'[t] = template[t],
           \A w \in Writers :
             wr'[w].phase \in {"selecting", "locked"} =>
               ActiveRows(wr'[w].student, wr'[w].pose) \subseteq wr'[w].rows
    PROVE  SerialInv'
<1>1. UniqueActive'
  BY DEF SerialInv, UniqueActive
<1>2. SeesActives'
  BY DEF SeesActives, ActiveRows
<1> QED
  BY <1>1, <1>2 DEF SerialInv

\* A commit replaces the only active row of its pose.
LEMMA SerialCommit ==
    ASSUME SerialInv, IInv', OneWriter, NEW w \in Writers, CommitTemplate(w)
    PROVE  SerialInv'
<1> DEFINE s == wr[w].student
           p == wr[w].pose
           n == created + 1
<1>1. /\ wr[w].rows \subseteq Ids /\ ActiveRows(s, p) \subseteq wr[w].rows
      /\ wr \in [Writers -> Writer] /\ template \in [Ids -> Template]
  BY DEF SerialInv, SeesActives, CommitTemplate, IInv, TypeOK, Writer
<1>2. template' = [t \in Ids |-> IF t = n THEN NewTemplate(w)
                                 ELSE IF t \in wr[w].rows
                                 THEN [template[t] EXCEPT !.state = "archived"]
                                 ELSE template[t]]
  BY DEF CommitTemplate
<1>3. \A t \in Ids : t # n /\ template'[t].state = "active"
                      => t \notin wr[w].rows /\ template'[t] = template[t]
  BY <1>1, <1>2 DEF Template
<1>4. NewTemplate(w).student = s /\ NewTemplate(w).pose = p
  BY DEF NewTemplate
<1>5. ASSUME NEW t \in Ids, t # n, template'[t].state = "active"
      PROVE  ~(template'[t].student = s /\ template'[t].pose = p)
  BY <1>1, <1>3, <1>5 DEF ActiveRows
<1>6. UniqueActive'
  <2> SUFFICES ASSUME NEW t \in Ids, NEW u \in Ids,
                      template'[t].state = "active", template'[u].state = "active",
                      template'[t].student = template'[u].student,
                      template'[t].pose = template'[u].pose
               PROVE  t = u
    BY DEF UniqueActive
  <2>1. CASE t = n \/ u = n
    <3>1. template'[n] = NewTemplate(w)
      BY <1>2, <2>1
    <3> QED
      BY <1>4, <1>5, <2>1, <3>1
  <2>2. CASE t # n /\ u # n
    BY <1>3, <2>2 DEF SerialInv, UniqueActive
  <2> QED
    BY <2>1, <2>2
<1>7. SeesActives'
  <2>1. wr' = [wr EXCEPT ![w] = Rest(w)] /\ Rest(w).phase \in {"idle", "loaded"}
    BY RestGood DEF CommitTemplate, SerialInv
  <2>2. \A v \in Writers : v = w
    BY DEF OneWriter
  <2> QED
    BY <1>1, <2>1, <2>2 DEF SeesActives
<1> QED
  BY <1>6, <1>7 DEF SerialInv

\* Every step of a system with one writer keeps its invariant.
LEMMA SerialStep == OneWriter /\ SerialInv /\ [Next]_vars => SerialInv'
<1> SUFFICES ASSUME OneWriter, SerialInv, [Next]_vars PROVE SerialInv'
  OBVIOUS
<1>1. IInv' /\ wr \in [Writers -> Writer] /\ template \in [Ids -> Template]
  BY StepInv DEF SerialInv, IInv, TypeOK
<1> DEFINE Quiet ==
      \A w \in Writers : wr'[w].phase \in {"selecting", "locked"}
                           => ActiveRows(wr'[w].student, wr'[w].pose) \subseteq wr'[w].rows
           Kept == \A t \in Ids : template'[t].state = "active" => template'[t] = template[t]
<1>2. ASSUME Quiet, Kept PROVE SerialInv'
  BY <1>1, <1>2, SerialQuiet
<1>3. ASSUME wr' = wr PROVE Quiet
  BY <1>3 DEF SerialInv, SeesActives
<1>4. ASSUME NEW w \in Writers, NEW r, wr' = [wr EXCEPT ![w] = r],
             r.phase \in {"selecting", "locked"}
               => ActiveRows(r.student, r.pose) \subseteq r.rows
      PROVE  Quiet
  BY <1>1, <1>4 DEF SerialInv, SeesActives
<1>5. ASSUME template' = template PROVE Kept
  BY <1>5
<1> HIDE DEF Quiet, Kept
<1>6. ASSUME NEW w \in Enrollers, Enrolling(w) PROVE SerialInv'
  <2>1. w \in Writers /\ wr[w] \in Writer
    BY <1>1 DEF Writers
  <2>2. ASSUME NEW s \in Students, NEW p \in Poses, AdmitEnrollment(w, s, p) PROVE SerialInv'
    <3> DEFINE r == [wr[w] EXCEPT !.phase = "admitted", !.student = s, !.pose = p]
    <3>1. r.phase = "admitted"
      BY <2>1 DEF Writer
    <3>2. wr' = [wr EXCEPT ![w] = r] /\ template' = template
      BY <2>2 DEF AdmitEnrollment
    <3> QED
      BY <1>2, <1>4, <1>5, <2>1, <3>1, <3>2
  <2>3. CASE RefuseImage(w)
    <3>1. wr' = [wr EXCEPT ![w] = IdleWriter] /\ template' = template
      BY <2>3 DEF RefuseImage
    <3>2. IdleWriter.phase = "idle"
      BY DEF IdleWriter
    <3> QED
      BY <1>2, <1>4, <1>5, <2>1, <3>1, <3>2
  <2>4. CASE SelectActives(w)
    <3> DEFINE r == [wr[w] EXCEPT !.phase = "selecting",
                                  !.rows = ActiveRows(wr[w].student, wr[w].pose)]
    <3>1. ActiveRows(r.student, r.pose) \subseteq r.rows
      BY <2>1 DEF Writer
    <3>2. wr' = [wr EXCEPT ![w] = r] /\ template' = template
      BY <2>4 DEF SelectActives
    <3> QED
      BY <1>2, <1>4, <1>5, <2>1, <3>1, <3>2
  <2> QED
    BY <1>6, <2>2, <2>3, <2>4 DEF Enrolling
<1>7. ASSUME NEW w \in Importers, Importing(w) PROVE SerialInv'
  <2>1. w \in Writers /\ wr[w] \in Writer
    BY <1>1 DEF Writers
  <2>2. CASE LoadRoster(w)
    <3> DEFINE r == [wr[w] EXCEPT !.phase = "loaded",
                       !.roster = {s \in Students : student[s] = "active"}]
    <3>1. r.phase = "loaded"
      BY <2>1 DEF Writer
    <3>2. wr' = [wr EXCEPT ![w] = r] /\ template' = template
      BY <2>2 DEF LoadRoster
    <3> QED
      BY <1>2, <1>4, <1>5, <2>1, <3>1, <3>2
  <2>3. ASSUME NEW s \in Students, NEW p \in Poses, SelectImported(w, s, p) PROVE SerialInv'
    <3> DEFINE r == [wr[w] EXCEPT !.phase = "selecting", !.student = s,
                                  !.pose = p, !.rows = ActiveRows(s, p)]
    <3>1. r.student = s /\ r.pose = p /\ r.rows = ActiveRows(s, p)
      BY <2>1 DEF Writer
    <3>2. wr' = [wr EXCEPT ![w] = r] /\ template' = template
      BY <2>3 DEF SelectImported
    <3>3. ActiveRows(r.student, r.pose) \subseteq r.rows
      <4> HIDE DEF r
      <4> QED
        BY <3>1
    <3> QED
      BY <1>2, <1>4, <1>5, <2>1, <3>2, <3>3
  <2>4. CASE EndImport(w)
    <3>1. wr' = [wr EXCEPT ![w] = IdleWriter] /\ template' = template
      BY <2>4 DEF EndImport
    <3>2. IdleWriter.phase = "idle"
      BY DEF IdleWriter
    <3> QED
      BY <1>2, <1>4, <1>5, <2>1, <3>1, <3>2
  <2> QED
    BY <1>7, <2>2, <2>3, <2>4 DEF Importing
<1>8. ASSUME NEW w \in Writers, LockActives(w) PROVE SerialInv'
  <2> DEFINE r == [wr[w] EXCEPT !.phase = "locked", !.rows = StillActive(wr[w].rows)]
  <2>1. template' = template
    BY <1>8 DEF LockActives
  <2>2. CASE w \in Importers /\ ~Overwrite /\ StillActive(wr[w].rows) # {}
    <3>1. wr' = [wr EXCEPT ![w] = Rest(w)]
      BY <1>8, <2>2 DEF LockActives
    <3>2. Rest(w).phase \in {"idle", "loaded"}
      BY RestGood DEF SerialInv
    <3> QED
      BY <1>2, <1>4, <1>5, <2>1, <3>1, <3>2
  <2>3. CASE ~(w \in Importers /\ ~Overwrite /\ StillActive(wr[w].rows) # {})
    <3>1. wr' = [wr EXCEPT ![w] = r]
      BY <1>8, <2>3 DEF LockActives
    <3>2. /\ r.student = wr[w].student /\ r.pose = wr[w].pose
          /\ r.rows = StillActive(wr[w].rows)
      BY <1>1 DEF Writer
    <3>3. ActiveRows(wr[w].student, wr[w].pose) \subseteq StillActive(wr[w].rows)
      BY <1>8 DEF LockActives, SerialInv, SeesActives, ActiveRows, StillActive
    <3>4. ActiveRows(r.student, r.pose) \subseteq r.rows
      <4> HIDE DEF r
      <4> QED
        BY <3>2, <3>3
    <3> QED
      BY <1>2, <1>4, <1>5, <2>1, <3>1, <3>4
  <2> QED
    BY <2>2, <2>3
<1>9. ASSUME NEW w \in Writers, Finishing(w) PROVE SerialInv'
  <2>1. CASE CommitTemplate(w)
    BY <1>1, <2>1, SerialCommit
  <2>2. CASE FailWrite(w)
    <3>1. wr' = [wr EXCEPT ![w] = Rest(w)] /\ template' = template
      BY <2>2 DEF FailWrite
    <3>2. Rest(w).phase \in {"idle", "loaded"}
      BY RestGood DEF SerialInv
    <3> QED
      BY <1>2, <1>4, <1>5, <3>1, <3>2
  <2> QED
    BY <1>9, <2>1, <2>2 DEF Finishing
<1>10. ASSUME NEW x \in Sweepers, Sweeping(x) \/ FailSweep(x) PROVE SerialInv'
  <2>1. wr' = wr
    BY <1>10 DEF Sweeping, StartSweep, CountBatch, StartDelete, FinishDelete, FailSweep
  <2>2. Kept
    <3>1. CASE FinishDelete(x)
      BY <1>1, <3>1 DEF FinishDelete, Template, Kept
    <3>2. CASE ~FinishDelete(x)
      BY <1>5, <1>10, <3>2 DEF Sweeping, StartSweep, CountBatch, StartDelete, FailSweep
    <3> QED
      BY <3>1, <3>2
  <2> QED
    BY <1>2, <1>3, <2>1, <2>2
<1>11. ASSUME NEW s \in Students, Recording(s) \/ ToggleStudent(s) \/ DeleteStudent(s)
      PROVE  SerialInv'
  <2>1. wr' = wr
    BY <1>11 DEF Recording, RecordConsent, ToggleStudent, DeleteStudent
  <2>2. Kept
    <3>1. CASE DeleteStudent(s)
      BY <1>1, <3>1 DEF DeleteStudent, Template, Kept
    <3>2. CASE ~DeleteStudent(s)
      BY <1>5, <1>11, <3>2 DEF Recording, RecordConsent, ToggleStudent
    <3> QED
      BY <3>1, <3>2
  <2> QED
    BY <1>2, <1>3, <2>1, <2>2
<1>12. ASSUME NEW t \in Ids, Expire(t) PROVE SerialInv'
  BY <1>2, <1>3, <1>5, <1>12 DEF Expire
<1>13. CASE UNCHANGED vars
  BY <1>2, <1>3, <1>5, <1>13 DEF vars
<1> QED
  BY <1>6, <1>7, <1>8, <1>9, <1>10, <1>11, <1>12, <1>13 DEF Next

\* What the docstring of enroll_student_template promises holds as long as at
\* most one request or importer writes templates: the row lock alone does not
\* keep it with two.
THEOREM SerialOneActive == ASSUME OneWriter PROVE Spec => []OneActivePerPose
<1>1. Init => SerialInv
  BY InitInv DEF Init, SerialInv, UniqueActive, SeesActives, Unused, IdleWriter
<1>2. SerialInv /\ [Next]_vars => SerialInv'
  BY SerialStep
<1>3. SerialInv => OneActivePerPose
  <2> SUFFICES ASSUME SerialInv, NEW s \in Students, NEW p \in Poses
               PROVE  Cardinality(ActiveRows(s, p)) <= 1
    BY DEF OneActivePerPose
  <2>1. CASE ActiveRows(s, p) = {}
    BY <2>1, FS_EmptySet
  <2>2. CASE ActiveRows(s, p) # {}
    <3>1. PICK t \in ActiveRows(s, p) : TRUE
      BY <2>2
    <3>2. ActiveRows(s, p) = {t}
      BY <3>1 DEF ActiveRows, SerialInv, UniqueActive
    <3>3. Cardinality({t}) = 1
      BY FS_Singleton
    <3> QED
      BY <3>2, <3>3
  <2> QED
    BY <2>1, <2>2
<1> QED
  BY <1>1, <1>2, <1>3, PTL DEF Spec
===============================================================================
