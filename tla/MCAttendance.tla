----------------------------- MODULE MCAttendance -----------------------------
(* Instances of Attendance small enough for TLC.                           *)
EXTENDS Attendance, TLC

\* Rows that are stored as excused before the first run: one per chosen student,
\* on day 0, in every course.
CONSTANT ExcusedStudents

MCExcused == {k \in Key : k.student \in ExcusedStudents /\ k.day = 0}

\* The workers are interchangeable in runs of safety properties.
Interchangeable == Permutations(Evaluators)
===============================================================================
