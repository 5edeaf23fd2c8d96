------------------------------- MODULE Importer -------------------------------
(***************************************************************************)
(* The bulk enrollment importer: parsing of a manifest or a folder, the    *)
(* row loop, the journal that lets a rerun resume, exit codes and counts.  *)
(*                                                                         *)
(* Source: backend/scripts/import_enrollments.py                           *)
(*                                                                         *)
(* The operator runs it again and again over the same photos.  A process   *)
(* can be killed between any two steps, and in the middle of a journal     *)
(* line, and a commit can take effect although its answer is lost.  The    *)
(* transaction of _upsert_template is one step here; how it overlaps with  *)
(* other writers is the subject of Templates.                              *)
(***************************************************************************)
EXTENDS Integers, Sequences, FiniteSets, SequencesExt

CONSTANTS
    Students,           \* student numbers on the roster
    DefaultPose,        \* DEFAULT_POSE_LABEL
    Poses,              \* pose labels
    TooLong, Blanks,    \* an oversized field, a field of blanks
    Inputs,             \* the batches an operator may import
    Photo,              \* what each image path leads to: an image, or Unreadable
    Unreadable,         \* no file, no readable file, a path out of the photos directory
    MinQuality,         \* ATTENDANCE_ENROLLMENT_MIN_QUALITY
    MaxRetries,         \* TRITON_MAX_RETRIES
    MaxTroubles         \* bound: failures, deaths, deactivations and enrollments by the API

ASSUME ImporterAssumption ==
    /\ DefaultPose \in Poses
    /\ {"", TooLong, Blanks} \cap (Students \cup Poses) = {}
    /\ MaxRetries \in Nat /\ MaxTroubles \in Nat
    /\ Inputs # {} /\ IsFiniteSet(Inputs)
    /\ \A input \in Inputs :
           /\ Len(input.lines) \in Nat /\ DOMAIN input.lines = 1 .. Len(input.lines)
           /\ \A i \in DOMAIN input.lines :
                  /\ input.lines[i].pose \in Poses \cup {"", TooLong, Blanks}
                  /\ input.lines[i].image \in DOMAIN Photo \cup {"", Blanks}
                  \* A file that a scan finds has a suffix.
                  /\ input.header = "folder" => input.lines[i].image # Blanks

VARIABLES
    run,        \* the process and what it has loaded
    summary,    \* its counters
    exit,       \* how the last process ended
    store,      \* the templates written so far, in order
    journal,    \* the lines of .import_journal.jsonl
    active,     \* active students
    mishaps,    \* processes that died, that did so inside a journal line, unanswered commits
    troubles    \* everything counted by MaxTroubles

vars == <<run, summary, exit, store, journal, active, mishaps, troubles>>

Codes == {"UNREADABLE", "NO_FACE", "LOW_QUALITY", "UNKNOWN_REF", "INACTIVE_STUDENT",
          "INVALID_ROW"}

NoCounts == [total |-> 0, imported |-> 0, rotated |-> 0, would_import |-> 0,
             skipped_resumed |-> 0, skipped_active_exists |-> 0, duplicates |-> 0,
             db_errors |-> 0, extraction_errors |-> 0, rejected |-> [c \in Codes |-> 0]]

Off == [phase |-> "off"]

Init ==
    /\ run = Off
    /\ summary = NoCounts
    /\ exit = "none"
    /\ store = <<>>
    /\ journal = <<>>
    /\ active \in SUBSET Students
    /\ mishaps = [deaths |-> 0, torn |-> 0, unanswered |-> 0]
    /\ troubles = 0

Trouble == troubles < MaxTroubles /\ troubles' = troubles + 1

----------------------------------------------------------------------------
(* The input *)

\* normalize_student_number
IsNumber(raw) == raw \notin {"", TooLong, Blanks}

\* normalize_pose_label: nothing stands for the default, blanks are an error.
Pose(raw) == IF raw = "" THEN DefaultPose ELSE raw
IsPose(raw) == Pose(raw) \notin {TooLong, Blanks}

Row(line) == [number |-> line.number, image |-> line.image, pose |-> Pose(line.pose)]

\* The rows of the good lines, in the order of the input.
InOrder(good) ==
    CHOOSE p \in [1 .. Cardinality(good) -> good] :
        \A i, j \in 1 .. Cardinality(good) : i < j => p[i] < p[j]
Parsed(lines, good) == [i \in 1 .. Cardinality(good) |-> Row(lines[InOrder(good)[i]])]

\* parse_manifest: the fields are stripped, an empty line is skipped, a line that lacks a
\* number, a path or a pose is an issue, and so are two columns of one name.
Strip(raw) == IF raw = Blanks THEN "" ELSE raw
Fields(line) == [number |-> Strip(line.number), image |-> Strip(line.image),
                 pose |-> Strip(line.pose)]
IsEmpty(line) == line = [number |-> "", image |-> "", pose |-> ""]
Bindable(line) == IsNumber(line.number) /\ line.image # "" /\ IsPose(line.pose)

ParseManifest(input) ==
    LET lines == [i \in DOMAIN input.lines |-> Fields(input.lines[i])]
        good == {i \in DOMAIN lines : Bindable(lines[i])}
        empty == {i \in DOMAIN lines : IsEmpty(lines[i])}
    IN  [rows |-> Parsed(lines, good),
         issues |-> Cardinality(DOMAIN lines \ (good \cup empty))
                    + IF input.header = "twice" THEN 1 ELSE 0,
         unbindable |-> 0]

\* scan_folder: other files than photos are ignored, and a photo whose name is not
\* <number>[__<pose>] cannot be bound.
ScanFolder(input) ==
    LET photos == {i \in DOMAIN input.lines : input.lines[i].image # ""}
        named == {i \in photos : IsNumber(input.lines[i].number) /\ IsPose(input.lines[i].pose)}
    IN  [rows |-> Parsed(input.lines, named),
         issues |-> 0,
         unbindable |-> Cardinality(photos \ named)]

Parse ==
    [input \in Inputs |->
        IF input.header = "folder" THEN ScanFolder(input) ELSE ParseManifest(input)]

\* resolve_image_path and the read of the file.
Readable(row) == Photo[row.image] # Unreadable
Image(row) == Photo[row.image]

----------------------------------------------------------------------------
(* The journal *)

\* Every line that can be read gives a key; the others are ignored.
LoadJournal(lines) == {lines[i].key : i \in {k \in DOMAIN lines : lines[k].whole}}

\* A line that lacks its end is continued by the next append, and can then no longer be read.
Appended(lines, line) ==
    IF lines # <<>> /\ ~Last(lines).ended
      THEN Front(lines) \o <<[line EXCEPT !.whole = FALSE]>>
      ELSE Append(lines, line)

----------------------------------------------------------------------------
(* A run *)

Count(field) == summary' = [summary EXCEPT ![field] = @ + 1]
Reject(code) == summary' = [summary EXCEPT !.rejected[code] = @ + 1]
NextRow == [run EXCEPT !.phase = "rows", !.rows = Tail(@), !.attempt = 0]

End(code) == run' = Off /\ exit' = code

\* Bad arguments, a bad environment or a bad header: nothing is touched.
Refuse ==
    /\ run = Off
    /\ End("2")
    /\ summary' = NoCounts
    /\ UNCHANGED <<store, journal, active, mishaps, troubles>>

Written(bytes) == Cardinality({i \in DOMAIN store : store[i].bytes \in bytes})
Images == {Photo[i] : i \in DOMAIN Photo} \ {Unreadable}
Answered == Written(Images) - mishaps.unanswered

\* The input is parsed and its issues are rejected; then the roster and the journal are
\* read, once.
Start(input, dry, overwrite) ==
    LET parsed == Parse[input]
    IN  /\ run = Off /\ input.header # "bad"
        /\ run' = [phase |-> "rows", dry |-> dry, overwrite |-> overwrite,
                   rows |-> parsed.rows, roster |-> active, journaled |-> LoadJournal(journal),
                   seen |-> <<>>, attempt |-> 0, base |-> Answered]
        /\ summary' = [NoCounts EXCEPT !.total = parsed.issues + parsed.unbindable,
                                       !.rejected["INVALID_ROW"] = parsed.issues,
                                       !.rejected["UNKNOWN_REF"] = parsed.unbindable]
        /\ exit' = "none"
        /\ UNCHANGED <<store, journal, active, mishaps, troubles>>

AtRow == run.phase = "rows" /\ run.rows # <<>>
ThisRow == Head(run.rows)
Key(row) == [number |-> row.number, bytes |-> Image(row)]

\* Mutant: under --overwrite the journal is not consulted.
MutantResumedUnlessOverwrite(row) == ~run.overwrite /\ Key(row) \in run.journaled

\* Bytes that were imported for this student are not imported again, --overwrite or not.
Resumed(row) == Key(row) \in run.journaled

\* Who it is and what the bytes are, from the roster and the journal read at the start.
Identity(row) ==
    IF row.number \notin Students THEN "UNKNOWN_REF"
    ELSE IF row.number \notin run.roster THEN "INACTIVE_STUDENT"
    ELSE IF ~Readable(row) THEN "UNREADABLE" ELSE "known"

\* The checks that need neither Triton nor the database.
RejectRow ==
    /\ AtRow /\ Identity(ThisRow) # "known"
    /\ summary' = [summary EXCEPT !.total = @ + 1, !.rejected[Identity(ThisRow)] = @ + 1]
    /\ run' = NextRow
    /\ UNCHANGED <<exit, store, journal, active, mishaps, troubles>>

ResumeRow ==
    /\ AtRow /\ Identity(ThisRow) = "known" /\ Resumed(ThisRow)
    /\ summary' = [summary EXCEPT !.total = @ + 1, !.skipped_resumed = @ + 1]
    /\ run' = NextRow
    /\ UNCHANGED <<exit, store, journal, active, mishaps, troubles>>

\* Bytes seen for another student are a warning; an image that cannot be decoded ends here.
Seen(row) == Image(row) \in DOMAIN run.seen
Duplicate(row) == Seen(row) /\ run.seen[Image(row)] # row.number
DecodeRow ==
    LET row == ThisRow
        next == IF Image(row).decodes THEN [run EXCEPT !.phase = "extract"] ELSE NextRow
    IN  /\ AtRow /\ Identity(row) = "known" /\ ~Resumed(row)
        /\ summary' = [summary EXCEPT
                         !.total = @ + 1,
                         !.duplicates = IF Duplicate(row) THEN @ + 1 ELSE @,
                         !.rejected["UNREADABLE"] = IF Image(row).decodes THEN @ ELSE @ + 1]
        /\ run' = [next EXCEPT !.seen = IF Seen(row) THEN @ ELSE (Image(row) :> row.number) @@ @]
        /\ UNCHANGED <<exit, store, journal, active, mishaps, troubles>>

\* Mutant: one attempt more than TRITON_MAX_RETRIES allows.
MutantExhausted(attempt) == attempt > MaxRetries

Exhausted(attempt) == attempt >= MaxRetries

\* _extract_with_retry: a failure of Triton is retried, and in the end aborts the run.
TritonFails ==
    /\ run.phase = "extract"
    /\ Trouble
    /\ IF Exhausted(run.attempt)
         THEN End("3")
         ELSE run' = [run EXCEPT !.attempt = @ + 1] /\ UNCHANGED exit
    /\ UNCHANGED <<summary, store, journal, active, mishaps>>

\* Any other failure of the extraction is counted.
ExtractionFails ==
    /\ run.phase = "extract"
    /\ Trouble
    /\ Count("extraction_errors")
    /\ run' = NextRow
    /\ UNCHANGED <<exit, store, journal, active, mishaps>>

\* extract_enrollment_embedding with require_detection: without a face there is nothing to
\* embed, and the liveness score of the best face is the quality that the gate looks at.
Extraction(image) ==
    IF ~image.face THEN "NO_FACE"
    ELSE IF image.quality < MinQuality THEN "LOW_QUALITY" ELSE "good"

\* The photo is rejected, a dry run stops here, or the row goes on to the database.
Extract ==
    LET outcome == Extraction(Image(ThisRow))
    IN  /\ run.phase = "extract"
        /\ \/ outcome # "good" /\ Reject(outcome) /\ run' = NextRow
           \/ outcome = "good" /\ run.dry /\ Count("would_import") /\ run' = NextRow
           \/ /\ outcome = "good" /\ ~run.dry
              /\ run' = [run EXCEPT !.phase = "write"] /\ UNCHANGED summary
        /\ UNCHANGED <<exit, store, journal, active, mishaps, troubles>>

Current(number, pose) ==
    {i \in DOMAIN store : store[i].number = number /\ store[i].pose = pose /\ store[i].active}
Template(number, pose, bytes) ==
    [number |-> number, pose |-> pose, bytes |-> bytes, active |-> TRUE]

\* The current templates of the pose are archived and a new one is added.
Rotated(number, pose, bytes) ==
    Append([i \in DOMAIN store |->
              IF i \in Current(number, pose) THEN [store[i] EXCEPT !.active = FALSE]
              ELSE store[i]],
           Template(number, pose, bytes))

Occupied(row) == Current(row.number, row.pose) # {}

\* Mutant: a row that rotates a template is not counted as imported.
MutantImportedCounts(c, rotates) ==
    IF rotates THEN [c EXCEPT !.rotated = @ + 1] ELSE [c EXCEPT !.imported = @ + 1]

ImportedCounts(c, rotates) ==
    [c EXCEPT !.imported = @ + 1, !.rotated = IF rotates THEN @ + 1 ELSE @]

\* _upsert_template, committed: the pose is left alone without --overwrite.
SkipOccupied ==
    /\ run.phase = "write" /\ Occupied(ThisRow) /\ ~run.overwrite
    /\ Count("skipped_active_exists")
    /\ run' = NextRow
    /\ UNCHANGED <<exit, store, journal, active, mishaps, troubles>>

Upsert ==
    /\ run.phase = "write" /\ (~Occupied(ThisRow) \/ run.overwrite)
    /\ store' = Rotated(ThisRow.number, ThisRow.pose, Image(ThisRow))
    /\ summary' = ImportedCounts(summary, Occupied(ThisRow))
    /\ run' = [run EXCEPT !.phase = "journal"]
    /\ UNCHANGED <<exit, journal, active, mishaps, troubles>>

\* Mutant: the journal line is written although the transaction failed.
MutantUpsertFails ==
    /\ run.phase = "write"
    /\ Trouble
    /\ Count("db_errors")
    /\ run' = [run EXCEPT !.phase = "journal"]
    /\ UNCHANGED <<exit, store, journal, active, mishaps>>

\* The transaction fails, the index of active templates included: the row is not journaled.
UpsertFails ==
    /\ run.phase = "write"
    /\ Trouble
    /\ Count("db_errors")
    /\ run' = NextRow
    /\ UNCHANGED <<exit, store, journal, active, mishaps>>

\* The connection is lost during the COMMIT, which has taken effect: for the run it failed.
UpsertUnanswered ==
    /\ run.phase = "write" /\ (~Occupied(ThisRow) \/ run.overwrite)
    /\ Trouble
    /\ store' = Rotated(ThisRow.number, ThisRow.pose, Image(ThisRow))
    /\ mishaps' = [mishaps EXCEPT !.unanswered = @ + 1]
    /\ Count("db_errors")
    /\ run' = NextRow
    /\ UNCHANGED <<exit, journal, active>>

Line == [key |-> Key(ThisRow), whole |-> TRUE, ended |-> TRUE]

\* Only after the commit.
AppendJournal ==
    /\ run.phase = "journal"
    /\ journal' = Appended(journal, Line)
    /\ run' = NextRow
    /\ UNCHANGED <<summary, exit, store, active, mishaps, troubles>>

\* coverage_line: the students with a template, of the roster read at the start.
Rejected(r) == r["UNREADABLE"] + r["NO_FACE"] + r["LOW_QUALITY"] + r["UNKNOWN_REF"]
               + r["INACTIVE_STUDENT"] + r["INVALID_ROW"]
Failed == Rejected(summary.rejected) + summary.db_errors + summary.extraction_errors
Coverage ==
    [enrolled |-> Cardinality({store[i].number : i \in {k \in DOMAIN store : store[k].active}}),
     roster |-> Cardinality(run.roster),
     low_quality |-> summary.rejected["LOW_QUALITY"],
     failed |-> Failed]

Finish ==
    /\ run.phase = "rows" /\ run.rows = <<>>
    /\ run' = [phase |-> "reported", base |-> run.base, coverage |-> Coverage]
    /\ UNCHANGED <<summary, exit, store, journal, active, mishaps, troubles>>

Exit ==
    /\ run.phase = "reported"
    /\ End("0")
    /\ UNCHANGED <<summary, store, journal, active, mishaps, troubles>>

\* Anything else that goes wrong, and a process that is killed: what is committed stays.
Die ==
    /\ run # Off
    /\ Trouble
    /\ run' = Off /\ exit' \in {"3", "killed"}
    /\ mishaps' = [mishaps EXCEPT !.deaths = @ + 1]
    /\ UNCHANGED <<summary, store, journal, active>>

\* It dies inside a journal line: a part of the line is written, or all but its end.
DieInLine(whole) ==
    /\ run.phase = "journal"
    /\ Trouble
    /\ End("killed")
    /\ journal' = Appended(journal, [key |-> Key(ThisRow), whole |-> whole, ended |-> FALSE])
    /\ mishaps' = [mishaps EXCEPT !.deaths = @ + 1, !.torn = @ + 1]
    /\ UNCHANGED <<summary, store, active>>

----------------------------------------------------------------------------
(* Meanwhile *)

Deactivate(s) ==
    /\ s \in active
    /\ Trouble
    /\ active' = active \ {s}
    /\ UNCHANGED <<run, summary, exit, store, journal, mishaps>>

\* The enrollment API rotates a pose.
EnrollThroughApi(s, pose) ==
    /\ s \in active
    /\ Trouble
    /\ store' = Rotated(s, pose, Unreadable)
    /\ UNCHANGED <<run, summary, exit, journal, active, mishaps>>

----------------------------------------------------------------------------

Work ==
    \/ RejectRow \/ ResumeRow \/ DecodeRow \/ Extract \/ SkipOccupied \/ Upsert
    \/ AppendJournal \/ Finish \/ Exit

StartForReal == \E input \in Inputs, overwrite \in BOOLEAN : Start(input, FALSE, overwrite)

Next ==
    \/ Refuse \/ StartForReal
    \/ \E input \in Inputs, overwrite \in BOOLEAN : Start(input, TRUE, overwrite)
    \/ Work
    \/ TritonFails \/ ExtractionFails \/ UpsertFails \/ UpsertUnanswered \/ Die
    \/ \E whole \in BOOLEAN : DieInLine(whole)
    \/ \E s \in Students : Deactivate(s)
    \/ \E s \in Students, pose \in Poses : EnrollThroughApi(s, pose)

Spec == Init /\ [][Next]_vars

\* A run goes on, and the operator runs each batch again and again.
FairSpec ==
    /\ Spec
    /\ WF_vars(Work)
    /\ \A input \in Inputs : SF_vars(\E overwrite \in BOOLEAN : Start(input, FALSE, overwrite))

----------------------------------------------------------------------------
(* Properties *)

Rows(input) == Parse[input].rows
RowsOfInputs == UNION {Range(Rows(input)) : input \in Inputs}
Template_ == [number : Students, pose : Poses, bytes : Images \cup {Unreadable}, active : BOOLEAN]
Key_ == [number : Students, bytes : Images]
Run == [phase : {"rows", "extract", "write", "journal"}, dry : BOOLEAN, overwrite : BOOLEAN,
        rows : Seq(RowsOfInputs), roster : SUBSET Students,
        journaled : SUBSET Key_, seen : {run.seen}, attempt : 0 .. MaxRetries, base : Int]

\* Every variable has its type; no row is tried more often than the retries allow, and a
\* dry run never reaches the database.
TypeOK ==
    /\ \/ run = Off
       \/ run.phase = "reported"
       \/ run \in Run /\ (run.dry => run.phase \in {"rows", "extract"})
    /\ DOMAIN summary = DOMAIN NoCounts
    /\ \A f \in DOMAIN summary \ {"rejected"} : summary[f] \in Nat
    /\ summary.rejected \in [Codes -> Nat]
    /\ exit \in {"none", "0", "2", "3", "killed"}
    /\ store \in Seq(Template_)
    /\ journal \in Seq([key : Key_, whole : BOOLEAN, ended : BOOLEAN])
    /\ active \subseteq Students
    /\ mishaps \in [deaths : Nat, torn : Nat, unanswered : Nat] /\ troubles \in Nat

WrittenFor(key) ==
    {i \in DOMAIN store : store[i].number = key.number /\ store[i].bytes = key.bytes}

\* What the journal says was imported was committed: a rerun skips nothing that is missing.
JournaledIsWritten == \A key \in LoadJournal(journal) : WrittenFor(key) # {}

\* How often one batch names the same bytes for the same student.
Copies ==
    [key \in Key_ |->
        LET Same(rows) == {i \in DOMAIN rows : rows[i].number = key.number
                                              /\ Photo[rows[i].image] = key.bytes}
        IN  Max({Cardinality(Same(Rows(input))) : input \in Inputs})]

Causes == mishaps.deaths + mishaps.torn + mishaps.unanswered

\* The same bytes are imported again for a student, by rerun or --overwrite, only after a
\* process died or a commit was not answered: once for each death and each such commit, and once
\* more for each torn line, which takes the next with it.
ReimportsHaveCauses ==
    \A i \in {k \in DOMAIN store : store[k].bytes # Unreadable} :
        LET key == [number |-> store[i].number, bytes |-> store[i].bytes]
        IN  Cardinality(WrittenFor(key)) <= Copies[key] * (1 + Causes)

\* The report accounts for every row exactly once, and calls imported what this run
\* committed; a commit that took effect unanswered is among the database errors.
CountsAddUp ==
    run.phase = "reported" =>
        /\ summary.total = summary.imported + summary.would_import + summary.skipped_resumed
                           + summary.skipped_active_exists + run.coverage.failed
        /\ summary.imported = Answered - run.base
        /\ summary.rotated <= summary.imported

Importable(row) ==
    /\ row.number \in Students /\ Readable(row)
    /\ Image(row).decodes /\ Extraction(Image(row)) = "good"
Enrolled(row) ==
    \/ WrittenFor(Key(row)) # {}
    \/ Current(row.number, row.pose) # {}

\* An operator who reruns the batches gets every importable photo of an active student in,
\* whatever fails or dies on the way: no partial run makes a later one skip a row that is missing.
RerunsEnroll ==
    <>[](\A input \in Inputs : input.header # "bad" =>
            \A i \in DOMAIN Rows(input) :
                LET row == Rows(input)[i]
                IN  Importable(row) /\ row.number \in active => Enrolled(row))

=============================================================================
