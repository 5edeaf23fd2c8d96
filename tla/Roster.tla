-------------------------------- MODULE Roster --------------------------------
(***************************************************************************)
(* What the attendance service promises about the daily roster, without    *)
(* the runs, requests and failures behind it: the roster changes only by   *)
(* an override of one row, by an evaluation of one course and date, or by  *)
(* the removal of a student, and the governance ledger is written in the   *)
(* same step.  Attendance implements this specification.                   *)
(***************************************************************************)
CONSTANTS Key, Students, Courses, Days, Reasons, NoReason, Excused

VARIABLES
    roster,  \* roster[k]: the status and the notes of the row, "none" if absent
    ledger   \* ledger[k]: the last OVERRIDE_APPLY on it, and whether an
             \* ATTENDANCE_EVALUATE came later

\* A row that does not exist.
NoEntry == [status |-> "none", notes |-> NoReason]

Init ==
    /\ roster = [k \in Key |-> IF k \in Excused
                               THEN [status |-> "excused", notes |-> NoReason]
                               ELSE NoEntry]
    /\ ledger = [k \in Key |-> [from |-> "none", to |-> "none",
                                reason |-> NoReason, evaluated |-> FALSE]]

\* An instructor sets one row; the ledger has the verdict and the same reason.
Override(k, verdict, reason, from) ==
    /\ roster' = [roster EXCEPT ![k] = [status |-> verdict, notes |-> reason]]
    /\ ledger' = [ledger EXCEPT ![k] = [from |-> from, to |-> verdict,
                                        reason |-> reason, evaluated |-> FALSE]]

\* An evaluation writes verdicts for some students of one course and date and
\* says so on the ledger; it leaves every note as it was.
Evaluate(c, d) ==
    /\ \A k \in Key :
         /\ roster'[k] # roster[k] =>
              /\ k.course = c /\ k.day = d
              /\ roster'[k].status \in {"present", "absent", "excused"}
              /\ roster'[k].notes = roster[k].notes
         /\ ledger'[k] = IF k.course = c /\ k.day = d
                         THEN [ledger[k] EXCEPT !.evaluated = TRUE]
                         ELSE ledger[k]
    /\ \E k \in Key : k.course = c /\ k.day = d /\ roster'[k].status # "none"

\* Deleting a student removes the rows and keeps the evidence.
Remove(s) ==
    /\ roster' = [k \in Key |-> IF k.student = s THEN NoEntry ELSE roster[k]]
    /\ UNCHANGED ledger

Next ==
    \/ \E k \in Key, v \in {"present", "absent"}, r \in Reasons,
          f \in {"none", "present", "absent", "excused"} : Override(k, v, r, f)
    \/ \E c \in Courses, d \in Days : Evaluate(c, d)
    \/ \E s \in Students : Remove(s)

Spec == Init /\ [][Next]_<<roster, ledger>>
===============================================================================
