---------------------------- MODULE ImporterProof ----------------------------
(***************************************************************************)
(* Proof that a rerun of the importer skips nothing that is missing: what  *)
(* can be read in the journal has been committed, for any roster, any      *)
(* batches and photos, and any number of deaths, torn lines and commits    *)
(* that were not answered.                                                 *)
(*                                                                         *)
(* The store only grows, as far as it is about numbers and bytes; the line *)
(* is written after the commit of the row that is still at the head; and a *)
(* torn line can make a key disappear, never appear.                       *)
(***************************************************************************)
EXTENDS Importer, SequenceTheorems, TLAPS

Templates(N, P, B) == [number : N, pose : P, bytes : B, active : BOOLEAN]
Lines(K) == [key : K, whole : BOOLEAN, ended : BOOLEAN]

----------------------------------------------------------------------------
(* The store and the journal *)

\* What a rotation makes of the store.
GrownBy(new, template) ==
    /\ DOMAIN new = DOMAIN store \cup {Len(store) + 1}
    /\ \A i \in DOMAIN store : new[i].number = store[i].number /\ new[i].bytes = store[i].bytes
    /\ new[Len(store) + 1] = template

\* A rotation keeps the numbers and the bytes of what is there, and adds its own.
LEMMA RotatedKeeps ==
    ASSUME NEW N, NEW P, NEW B, store \in Seq(Templates(N, P, B)),
           NEW number \in N, NEW pose \in P, NEW bytes \in B
    PROVE  /\ Rotated(number, pose, bytes) \in Seq(Templates(N, P, B))
           /\ GrownBy(Rotated(number, pose, bytes), Template(number, pose, bytes))
<1> DEFINE R == Templates(N, P, B)
           Archive(i) == IF i \in Current(number, pose) THEN [store[i] EXCEPT !.active = FALSE]
                         ELSE store[i]
           old == [i \in DOMAIN store |-> Archive(i)]
<1>1. ASSUME NEW i \in DOMAIN store
      PROVE  Archive(i) \in R /\ Archive(i).number = store[i].number /\ Archive(i).bytes = store[i].bytes
  <2>1. store[i] \in R OBVIOUS
  <2> QED BY <2>1 DEF Templates
<1>2. Template(number, pose, bytes) \in R BY DEF Template, Templates
<1> HIDE DEF Archive, R
<1>3. old \in Seq(R) /\ Len(old) = Len(store) /\ DOMAIN old = DOMAIN store
  <2>1. Len(store) \in Nat /\ DOMAIN store = 1 .. Len(store) OBVIOUS
  <2> QED BY <1>1, <2>1
<1>4. Rotated(number, pose, bytes) = Append(old, Template(number, pose, bytes))
  BY DEF Rotated, Archive
<1>5. \A i \in DOMAIN store : old[i] = Archive(i) OBVIOUS
<1> HIDE DEF old
<1>6. PICK r : r = Append(old, Template(number, pose, bytes)) OBVIOUS
<1>7. /\ r \in Seq(R) /\ DOMAIN r = DOMAIN store \cup {Len(store) + 1}
      /\ \A i \in DOMAIN store : r[i] = old[i]
      /\ r[Len(store) + 1] = Template(number, pose, bytes)
  BY <1>2, <1>3, <1>6
<1> QED BY <1>1, <1>4, <1>5, <1>6, <1>7 DEF R, GrownBy

Torn(lines) == lines # <<>> /\ ~Last(lines).ended

\* A line adds its own key at most, and takes away the one that it continues.
LEMMA AppendedKeys ==
    ASSUME NEW K, NEW lines \in Seq(Lines(K)), NEW line \in Lines(K)
    PROVE  /\ Appended(lines, line) \in Seq(Lines(K))
           /\ LoadJournal(Appended(lines, line)) \subseteq LoadJournal(lines) \cup {line.key}
           /\ Torn(Appended(lines, line)) <=> ~line.ended
           /\ ~Torn(lines) => /\ LoadJournal(lines) \subseteq LoadJournal(Appended(lines, line))
                              /\ line.whole => line.key \in LoadJournal(Appended(lines, line))
<1>1. CASE lines # <<>> /\ ~Last(lines).ended
  <2> DEFINE part == [line EXCEPT !.whole = FALSE]
             front == Front(lines)
  <2>1. part \in Lines(K) /\ ~part.whole /\ part.ended = line.ended BY DEF Lines
  <2>2. front \in Seq(Lines(K)) /\ Len(front) = Len(lines) - 1
        /\ \A i \in 1 .. Len(front) : front[i] = lines[i]
    <3>1. lines[Len(lines)] \in Lines(K) /\ Len(lines) \in Nat \ {0} BY <1>1
    <3>2. front = SubSeq(lines, 1, Len(lines) - 1) BY DEF Front
    <3> HIDE DEF front
    <3>3. 1 \in Int /\ Len(lines) - 1 \in Int /\ \A i \in 1 .. Len(lines) - 1 : lines[i] \in Lines(K)
      BY <3>1
    <3>4. PICK n \in Int : n = Len(lines) - 1 BY <3>1
    <3>5. PICK sub : sub = SubSeq(lines, 1, n) OBVIOUS
    <3>6. /\ sub \in Seq(Lines(K)) /\ Len(sub) = (IF 1 <= n THEN n - 1 + 1 ELSE 0)
          /\ \A i \in 1 .. n - 1 + 1 : sub[i] = lines[1 + i - 1]
      BY <3>3, <3>4, <3>5, SubSeqProperties
    <3>7. Len(sub) = n
      <4>1. n \in Nat /\ (1 <= n \/ n = 0) /\ n - 1 + 1 = n BY <3>1, <3>4
      <4> QED BY <3>6, <4>1
    <3>8. ASSUME NEW i \in 1 .. n PROVE sub[i] = lines[i]
      <4>1. i \in 1 .. n - 1 + 1 /\ 1 + i - 1 = i BY <3>1, <3>4
      <4> QED BY <3>6, <4>1
    <3> QED BY <3>2, <3>4, <3>5, <3>6, <3>7, <3>8
  <2>3. Appended(lines, line) = front \o <<part>> BY <1>1 DEF Appended
  <2> HIDE DEF part, front
  <2>4. PICK all : all = front \o <<part>> OBVIOUS
  <2>5. /\ all \in Seq(Lines(K)) /\ DOMAIN all = 1 .. Len(lines)
        /\ \A i \in 1 .. Len(front) : all[i] = lines[i]
        /\ all[Len(lines)] = part
    BY <1>1, <2>1, <2>2, <2>4
  <2>6. \A i \in DOMAIN all : all[i].whole => i \in DOMAIN lines /\ all[i] = lines[i]
    BY <2>1, <2>2, <2>5
  <2>7. Torn(all) <=> ~line.ended
    <3>1. Len(lines) \in Nat \ {0} BY <1>1
    <3>2. Len(all) = Len(lines) /\ all # <<>> BY <2>5, <3>1
    <3>3. Last(all) = part BY <2>5, <3>2 DEF Last
    <3> QED BY <2>1, <3>2, <3>3 DEF Torn
  <2> QED BY <1>1, <2>3, <2>4, <2>5, <2>6, <2>7 DEF LoadJournal, Torn
<1>2. CASE ~(lines # <<>> /\ ~Last(lines).ended)
  <2>1. PICK all : all = Append(lines, line) OBVIOUS
  <2>2. /\ all \in Seq(Lines(K)) /\ DOMAIN all = DOMAIN lines \cup {Len(lines) + 1}
        /\ \A i \in DOMAIN lines : all[i] = lines[i]
        /\ all[Len(lines) + 1] = line
    BY <2>1
  <2>3. Appended(lines, line) = all BY <1>2, <2>1 DEF Appended
  <2>4. Torn(all) <=> ~line.ended
    <3>1. Len(all) = Len(lines) + 1 /\ all # <<>> BY <2>1
    <3>2. Last(all) = line BY <2>2, <3>1 DEF Last
    <3> QED BY <3>1, <3>2 DEF Torn
  <2>5. LoadJournal(lines) \subseteq LoadJournal(all) BY <2>2 DEF LoadJournal
  <2>6. line.whole => line.key \in LoadJournal(all)
    <3>1. SUFFICES ASSUME line.whole PROVE line.key \in LoadJournal(all) OBVIOUS
    <3>2. Len(lines) + 1 \in DOMAIN all /\ all[Len(lines) + 1].whole BY <2>2, <3>1
    <3> QED BY <2>2, <3>2 DEF LoadJournal
  <2>7. LoadJournal(all) \subseteq LoadJournal(lines) \cup {line.key} BY <2>2 DEF LoadJournal
  <2> QED BY <2>2, <2>3, <2>4, <2>5, <2>6, <2>7
<1> QED BY <1>1, <1>2

----------------------------------------------------------------------------
(* The invariant *)

Stored == \E N, P, B : store \in Seq(Templates(N, P, B))
Kept == \E K : journal \in Seq(Lines(K))
Busy == {"rows", "extract", "write", "journal"}
Shaped == run.phase \in Busy => {"phase", "rows"} \subseteq DOMAIN run

\* The row whose line is to be written has been committed.
Committed == run.phase = "journal" => WrittenFor(Key(ThisRow)) # {}

IInv == Stored /\ Kept /\ Shaped /\ Committed /\ JournaledIsWritten

LEMMA InitHolds == ASSUME Init PROVE IInv
<1>1. store \in Seq(Templates({}, {}, {})) /\ journal \in Seq(Lines({})) BY DEF Init
<1>2. Shaped /\ Committed BY DEF Init, Shaped, Committed, Off, Busy
<1>3. JournaledIsWritten BY DEF Init, JournaledIsWritten, LoadJournal
<1> QED BY <1>1, <1>2, <1>3 DEF IInv, Stored, Kept

\* A rotation, by the importer or by the API, loses nothing and writes its own.
LEMMA RotationWrites ==
    ASSUME Stored, NEW number, NEW pose, NEW bytes, store' = Rotated(number, pose, bytes)
    PROVE  /\ Stored'
           /\ \A key : WrittenFor(key) # {} => WrittenFor(key)' # {}
           /\ WrittenFor([number |-> number, bytes |-> bytes])' # {}
<1>1. PICK N, P, B : store \in Seq(Templates(N, P, B)) /\ number \in N /\ pose \in P /\ bytes \in B
  <2>1. PICK N0, P0, B0 : store \in Seq(Templates(N0, P0, B0)) BY DEF Stored
  <2>2. PICK N, P, B : N = N0 \cup {number} /\ P = P0 \cup {pose} /\ B = B0 \cup {bytes} OBVIOUS
  <2>3. Templates(N0, P0, B0) \subseteq Templates(N, P, B) BY <2>2 DEF Templates
  <2>4. store \in Seq(Templates(N, P, B)) BY <2>1, <2>3, SeqMonotonic
  <2> QED BY <2>2, <2>4
<1>4. store' \in Seq(Templates(N, P, B)) /\ GrownBy(store', Template(number, pose, bytes))
  <2>1. /\ Rotated(number, pose, bytes) \in Seq(Templates(N, P, B))
        /\ GrownBy(Rotated(number, pose, bytes), Template(number, pose, bytes))
    BY <1>1, RotatedKeeps
  <2> QED BY <2>1
<1>5. Stored' BY <1>4 DEF Stored
<1>6. ASSUME NEW key, WrittenFor(key) # {} PROVE WrittenFor(key)' # {}
  BY <1>4, <1>6 DEF GrownBy, WrittenFor
<1>7. WrittenFor([number |-> number, bytes |-> bytes])' # {}
  BY <1>4 DEF GrownBy, WrittenFor, Template
<1> QED BY <1>5, <1>6, <1>7

\* A line about a committed row keeps the journal true.
LEMMA LineKeeps ==
    ASSUME Kept, JournaledIsWritten, UNCHANGED store,
           NEW key, NEW whole \in BOOLEAN, NEW ended \in BOOLEAN, WrittenFor(key) # {},
           journal' = Appended(journal, [key |-> key, whole |-> whole, ended |-> ended])
    PROVE  Kept' /\ JournaledIsWritten'
<1>1. PICK K : journal \in Seq(Lines(K)) BY DEF Kept
<1> DEFINE K2 == K \cup {key}
           line == [key |-> key, whole |-> whole, ended |-> ended]
<1>2. Lines(K) \subseteq Lines(K2) BY DEF Lines
<1>3. journal \in Seq(Lines(K2))
  <2> HIDE DEF K2
  <2> QED BY <1>1, <1>2, SeqMonotonic
<1>4. line \in Lines(K2) /\ line.key = key BY DEF Lines
<1>5. /\ journal' \in Seq(Lines(K2))
      /\ LoadJournal(journal') \subseteq LoadJournal(journal) \cup {key}
  <2> HIDE DEF K2, line
  <2>1. journal' = Appended(journal, line) BY DEF line
  <2> QED BY <1>3, <1>4, <2>1, AppendedKeys
<1>6. \A k : WrittenFor(k)' = WrittenFor(k) BY DEF WrittenFor
<1>7. JournaledIsWritten' BY <1>5, <1>6 DEF JournaledIsWritten
<1> QED BY <1>5, <1>7 DEF Kept

LEMMA StepHolds == ASSUME IInv, [Next]_vars PROVE IInv'
<1> USE DEF IInv
<1>0. ASSUME UNCHANGED <<store, journal>>
      PROVE  Stored' /\ Kept' /\ JournaledIsWritten'
  BY <1>0 DEF Stored, Kept, JournaledIsWritten, WrittenFor
<1>1. ASSUME UNCHANGED <<store, journal>>, run'.phase # "journal", Shaped' PROVE IInv'
  BY <1>0, <1>1 DEF Committed
<1>2. ASSUME UNCHANGED <<store, journal>>, run' = Off PROVE IInv'
  BY <1>1, <1>2 DEF Shaped, Off, Busy
<1>3. ASSUME UNCHANGED <<store, journal>>, UNCHANGED run PROVE IInv'
  <2>1. Shaped' BY <1>3 DEF Shaped
  <2>2. Committed' BY <1>3 DEF Committed, WrittenFor, Key, ThisRow, Image
  <2> QED BY <1>0, <1>3, <2>1, <2>2
<1>4. ASSUME UNCHANGED <<store, journal>>, run.phase \in Busy,
             run' = NextRow
      PROVE  IInv'
  BY <1>1, <1>4 DEF Shaped, NextRow
<1>5. CASE Refuse \/ Exit \/ Die BY <1>2, <1>5 DEF Refuse, Exit, Die, End
<1>6. ASSUME NEW input \in Inputs, NEW dry \in BOOLEAN, NEW overwrite \in BOOLEAN,
             Start(input, dry, overwrite)
      PROVE  IInv'
  <2>1. run'.phase = "rows" /\ {"phase", "rows"} \subseteq DOMAIN run'
    BY <1>6 DEF Start
  <2> QED BY <1>1, <1>6, <2>1 DEF Start, Shaped
<1>7. CASE RejectRow \/ ResumeRow \/ SkipOccupied \/ ExtractionFails \/ UpsertFails
  <2>1. run.phase \in Busy
    BY <1>7 DEF RejectRow, ResumeRow, SkipOccupied, ExtractionFails, UpsertFails, AtRow, Busy
  <2> QED BY <1>4, <1>7, <2>1 DEF RejectRow, ResumeRow, SkipOccupied, ExtractionFails, UpsertFails
<1>8. CASE DecodeRow
  <2>1. run.phase \in Busy BY <1>8 DEF DecodeRow, AtRow, Busy
  <2>2. {"phase", "rows"} \subseteq DOMAIN run BY <2>1 DEF Shaped
  <2>3. PICK next, seen : /\ run' = [next EXCEPT !.seen = seen]
                          /\ next = [run EXCEPT !.phase = "extract"] \/ next = NextRow
    BY <1>8 DEF DecodeRow
  <2>4. DOMAIN next = DOMAIN run /\ next.phase # "journal" BY <2>2, <2>3 DEF NextRow
  <2>5. DOMAIN run' = DOMAIN run /\ run'.phase = next.phase BY <2>2, <2>3, <2>4
  <2> QED BY <1>1, <1>8, <2>2, <2>4, <2>5 DEF DecodeRow, Shaped
<1>9. CASE TritonFails
  <2>1. CASE Exhausted(run.attempt) BY <1>2, <1>9, <2>1 DEF TritonFails, End
  <2>2. CASE ~Exhausted(run.attempt)
    <3>1. run.phase \in Busy /\ run.phase = "extract" BY <1>9 DEF TritonFails, Busy
    <3>2. {"phase", "rows"} \subseteq DOMAIN run BY <3>1 DEF Shaped
    <3>3. DOMAIN run' = DOMAIN run /\ run'.phase = "extract" BY <1>9, <2>2, <3>1, <3>2 DEF TritonFails
    <3> QED BY <1>1, <1>9, <3>2, <3>3 DEF TritonFails, Shaped
  <2> QED BY <2>1, <2>2
<1>10. CASE Extract
  <2>1. run.phase \in Busy BY <1>10 DEF Extract, Busy
  <2>2. {"phase", "rows"} \subseteq DOMAIN run BY <2>1 DEF Shaped
  <2>3. CASE run' = NextRow BY <1>4, <1>10, <2>1, <2>3 DEF Extract
  <2>4. CASE run' = [run EXCEPT !.phase = "write"]
    <3>1. DOMAIN run' = DOMAIN run /\ run'.phase = "write" BY <2>2, <2>4
    <3> QED BY <1>1, <1>10, <2>2, <3>1 DEF Extract, Shaped
  <2> QED BY <1>10, <2>3, <2>4 DEF Extract
<1>11. CASE Upsert
  <2>1. run.phase \in Busy BY <1>11 DEF Upsert, Busy
  <2>2. {"phase", "rows"} \subseteq DOMAIN run BY <2>1 DEF Shaped
  <2>3. run' = [run EXCEPT !.phase = "journal"] /\ journal' = journal BY <1>11 DEF Upsert
  <2>4. DOMAIN run' = DOMAIN run /\ run'.rows = run.rows BY <2>2, <2>3
  <2>5. PICK row : row = ThisRow OBVIOUS
  <2>6. store' = Rotated(row.number, row.pose, Image(row)) BY <1>11, <2>5 DEF Upsert
  <2>7. /\ Stored' /\ \A key : WrittenFor(key) # {} => WrittenFor(key)' # {}
        /\ WrittenFor([number |-> row.number, bytes |-> Image(row)])' # {}
    BY <2>6, RotationWrites
  <2>8. Shaped' BY <2>2, <2>4 DEF Shaped
  <2>9. Committed'
    <3>1. ThisRow' = row BY <2>4, <2>5 DEF ThisRow
    <3>2. Key(ThisRow)' = [number |-> row.number, bytes |-> Image(row)] BY <3>1 DEF Key, Image
    <3> QED BY <2>7, <3>2 DEF Committed, WrittenFor
  <2>10. Kept' BY <2>3 DEF Kept
  <2>11. JournaledIsWritten' BY <2>3, <2>7 DEF JournaledIsWritten
  <2> QED BY <2>7, <2>8, <2>9, <2>10, <2>11
<1>12. CASE AppendJournal
  <2>1. run.phase \in Busy /\ WrittenFor(Key(ThisRow)) # {} BY <1>12 DEF AppendJournal, Busy, Committed
  <2>2. run' = NextRow /\ store' = store BY <1>12 DEF AppendJournal
  <2>3. {"phase", "rows"} \subseteq DOMAIN run BY <2>1 DEF Shaped
  <2>4. DOMAIN run' = DOMAIN run /\ run'.phase = "rows" BY <2>2, <2>3 DEF NextRow
  <2>5. Kept' /\ JournaledIsWritten' BY <1>12, <2>1, <2>2, LineKeeps DEF AppendJournal, Line
  <2>6. Stored' /\ Shaped' /\ Committed' BY <2>2, <2>3, <2>4 DEF Stored, Shaped, Committed
  <2> QED BY <2>5, <2>6
<1>13. ASSUME NEW whole \in BOOLEAN, DieInLine(whole) PROVE IInv'
  <2>1. WrittenFor(Key(ThisRow)) # {} BY <1>13 DEF DieInLine, Committed
  <2>2. run' = Off /\ store' = store BY <1>13 DEF DieInLine, End
  <2>3. journal' = Appended(journal, [key |-> Key(ThisRow), whole |-> whole, ended |-> FALSE])
    BY <1>13 DEF DieInLine
  <2>4. Kept' /\ JournaledIsWritten' BY <2>1, <2>2, <2>3, LineKeeps
  <2>5. Stored' /\ Shaped' /\ Committed' BY <2>2 DEF Stored, Shaped, Committed, Off, Busy
  <2> QED BY <2>4, <2>5
<1>14. CASE Finish
  <2>1. run'.phase = "reported" BY <1>14 DEF Finish
  <2> QED BY <1>1, <1>14, <2>1 DEF Finish, Shaped, Busy
<1>15. ASSUME NEW s \in Students, Deactivate(s) PROVE IInv'
  BY <1>3, <1>15 DEF Deactivate
<1>16. ASSUME NEW s \in Students, NEW pose \in Poses, EnrollThroughApi(s, pose) PROVE IInv'
  <2>1. store' = Rotated(s, pose, Unreadable) /\ UNCHANGED <<run, journal>>
    BY <1>16 DEF EnrollThroughApi
  <2>2. Stored' /\ \A key : WrittenFor(key) # {} => WrittenFor(key)' # {} BY <2>1, RotationWrites
  <2>3. Kept' /\ Shaped' BY <2>1 DEF Kept, Shaped
  <2>4. JournaledIsWritten' BY <2>1, <2>2 DEF JournaledIsWritten
  <2>5. Committed'
    <3>1. Key(ThisRow)' = Key(ThisRow) BY <2>1 DEF Key, ThisRow, Image
    <3> QED BY <2>1, <2>2, <3>1 DEF Committed, WrittenFor
  <2> QED BY <2>2, <2>3, <2>4, <2>5
<1>17. CASE UNCHANGED vars BY <1>3, <1>17 DEF vars
<1>18. CASE UpsertUnanswered
  <2>1. run.phase \in Busy BY <1>18 DEF UpsertUnanswered, Busy
  <2>2. {"phase", "rows"} \subseteq DOMAIN run BY <2>1 DEF Shaped
  <2>3. run' = NextRow /\ journal' = journal BY <1>18 DEF UpsertUnanswered
  <2>4. DOMAIN run' = DOMAIN run /\ run'.phase = "rows" BY <2>2, <2>3 DEF NextRow
  <2>5. PICK row : row = ThisRow OBVIOUS
  <2>6. store' = Rotated(row.number, row.pose, Image(row)) BY <1>18, <2>5 DEF UpsertUnanswered
  <2>7. Stored' /\ \A key : WrittenFor(key) # {} => WrittenFor(key)' # {} BY <2>6, RotationWrites
  <2>8. Shaped' /\ Committed' BY <2>2, <2>4 DEF Shaped, Committed
  <2>9. Kept' /\ JournaledIsWritten' BY <2>3, <2>7 DEF Kept, JournaledIsWritten
  <2> QED BY <2>7, <2>8, <2>9
<1> HIDE DEF IInv
<1> QED
  BY <1>5, <1>6, <1>7, <1>8, <1>9, <1>10, <1>11, <1>12, <1>13, <1>14, <1>15, <1>16, <1>17,
     <1>18
  DEF Next, StartForReal, Work

\* Whatever the journal can be read to say was imported has been committed, after any
\* sequence of runs, deaths and torn lines.
THEOREM JournalIsTrue == Spec => []JournaledIsWritten
<1>1. IInv => JournaledIsWritten BY DEF IInv
<1> QED BY <1>1, InitHolds, StepHolds, PTL DEF Spec

=============================================================================
