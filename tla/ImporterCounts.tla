---------------------------- MODULE ImporterCounts ----------------------------
(***************************************************************************)
(* Proofs about what the importer counts, for any roster, batches, photos, *)
(* retries and deaths: every variable keeps its type, the report of a run  *)
(* accounts for every row exactly once, and the same bytes are imported    *)
(* again for a student only after a death or a commit without an answer.   *)
(***************************************************************************)
EXTENDS ImporterProof, FiniteSetTheorems

----------------------------------------------------------------------------
(* The rows of an input *)

Before == {p \in Nat \X Nat : p[1] < p[2]}

LEMMA LeastOf ==
    ASSUME NEW T \in SUBSET Nat, T # {}
    PROVE  \E n \in T : \A m \in T : n <= m
<1>1. IsWellFoundedOn(Before, Nat) BY NatLessThanWellFounded DEF OpToRel, Before
<1>2. PICK n \in T : \A m \in T : <<m, n>> \notin Before BY <1>1, WFMin
<1>3. ASSUME NEW m \in T PROVE n <= m
  <2>1. m \in Nat /\ n \in Nat /\ ~(m < n) BY <1>2 DEF Before
  <2> QED BY <2>1
<1> QED BY <1>3

Increasing(p, S) ==
    /\ p \in [1 .. Cardinality(S) -> S]
    /\ \A i, j \in 1 .. Cardinality(S) : i < j => p[i] < p[j]

\* Any finite set of line numbers can be put in order: the last of them comes last.
LEMMA Enumerable ==
    ASSUME NEW n \in Nat, NEW S \in SUBSET (1 .. n)
    PROVE  \E p : Increasing(p, S)
<1> DEFINE T == {m \in Nat : \E X \in SUBSET (1 .. m) : \A p : ~Increasing(p, X)}
<1>1. SUFFICES ASSUME T # {} PROVE FALSE OBVIOUS
<1>2. PICK m \in T : \A k \in T : m <= k
  <2>1. T \in SUBSET Nat OBVIOUS
  <2> HIDE DEF T
  <2> QED BY <1>1, <2>1, LeastOf
<1>3. PICK X \in SUBSET (1 .. m) : \A p : ~Increasing(p, X) BY <1>2
<1>4. m \in Nat BY <1>2
<1>5. m # 0
  <2>1. SUFFICES ASSUME m = 0 PROVE FALSE OBVIOUS
  <2>2. X = {} BY <2>1
  <2>3. Cardinality(X) = 0 BY <2>2, FS_EmptySet
  <2>4. Increasing([i \in 1 .. 0 |-> i], X) BY <2>2, <2>3 DEF Increasing
  <2> QED BY <1>3, <2>4
<1>6. m - 1 \in Nat /\ m - 1 \notin T
  <2>1. m - 1 \in Nat /\ ~(m <= m - 1) BY <1>4, <1>5
  <2> QED BY <1>2, <2>1
<1>7. \A Y \in SUBSET (1 .. m - 1) : \E p : Increasing(p, Y) BY <1>6
<1>8. CASE m \notin X
  <2>1. X \in SUBSET (1 .. m - 1) BY <1>4, <1>8
  <2> QED BY <1>3, <1>7, <2>1
<1>9. CASE m \in X
  <2>1. PICK Y : Y = X \ {m} OBVIOUS
  <2>2. Y \in SUBSET (1 .. m - 1) BY <1>4, <2>1
  <2>3. PICK p : Increasing(p, Y) BY <1>7, <2>2
  <2>4. IsFiniteSet(X)
    <3>1. IsFiniteSet(1 .. m) BY <1>4, FS_Interval
    <3> QED BY <3>1, FS_Subset
  <2>5. IsFiniteSet(Y) /\ Cardinality(Y) = Cardinality(X) - 1 BY <1>9, <2>1, <2>4, FS_RemoveElement
  <2>6. PICK c \in Nat : c = Cardinality(Y) BY <2>5, FS_CardinalityType
  <2>7. Cardinality(X) = c + 1
    <3>1. Cardinality(X) \in Nat BY <2>4, FS_CardinalityType
    <3> QED BY <2>5, <2>6, <3>1
  <2>8. /\ p \in [1 .. c -> Y]
        /\ \A i, j \in 1 .. c : i < j => p[i] < p[j]
    BY <2>3, <2>6 DEF Increasing
  <2>9. PICK q : q = [i \in 1 .. c + 1 |-> IF i = c + 1 THEN m ELSE p[i]] OBVIOUS
  <2>10. \A i \in 1 .. c + 1 : i # c + 1 => i \in 1 .. c OBVIOUS
  <2>11. q \in [1 .. c + 1 -> X] BY <1>9, <2>1, <2>8, <2>9, <2>10
  <2>12. ASSUME NEW i \in 1 .. c + 1, NEW j \in 1 .. c + 1, i < j PROVE q[i] < q[j]
    <3>1. i \in 1 .. c /\ q[i] = p[i] BY <2>9, <2>12
    <3>2. CASE j = c + 1
      <4>1. p[i] \in 1 .. m - 1 BY <2>2, <2>8, <3>1
      <4> QED BY <1>4, <2>9, <3>1, <3>2, <4>1
    <3>3. CASE j # c + 1 BY <2>8, <2>9, <2>10, <2>12, <3>1, <3>3
    <3> QED BY <3>2, <3>3
  <2>13. Increasing(q, X) BY <2>7, <2>11, <2>12 DEF Increasing
  <2> QED BY <1>3, <2>13
<1> QED BY <1>8, <1>9

LEMMA InOrderType ==
    ASSUME NEW n \in Nat, NEW S \in SUBSET (1 .. n)
    PROVE  /\ IsFiniteSet(S) /\ Cardinality(S) \in Nat
           /\ InOrder(S) \in [1 .. Cardinality(S) -> S]
<1>1. IsFiniteSet(S)
  <2>1. IsFiniteSet(1 .. n) BY FS_Interval
  <2> QED BY <2>1, FS_Subset
<1>2. Cardinality(S) \in Nat BY <1>1, FS_CardinalityType
<1>3. PICK p : Increasing(p, S) BY Enumerable
<1>4. InOrder(S) \in [1 .. Cardinality(S) -> S] BY <1>3 DEF InOrder, Increasing
<1> QED BY <1>1, <1>2, <1>4

\* What a parser gives: rows with a known pose and a known path, and two counts.
Bound(row) == row.pose \in Poses /\ row.image \in DOMAIN Photo
BoundSeq(rows) == \E S : rows \in Seq(S) /\ \A row \in S : Bound(row)
ParsedWell(parsed) ==
    /\ BoundSeq(parsed.rows)
    /\ parsed.issues \in Nat /\ parsed.unbindable \in Nat

LEMMA ParsedRows ==
    ASSUME NEW n \in Nat, NEW lines, NEW good \in SUBSET (1 .. n),
           \A i \in good : Bound(Row(lines[i]))
    PROVE  BoundSeq(Parsed(lines, good))
<1>1. Cardinality(good) \in Nat /\ InOrder(good) \in [1 .. Cardinality(good) -> good]
  BY InOrderType
<1>2. PICK m \in Nat : m = Cardinality(good) BY <1>1
<1>3. PICK p \in [1 .. m -> good] : p = InOrder(good) BY <1>1, <1>2
<1>4. PICK f : f = [i \in 1 .. m |-> Row(lines[p[i]])] OBVIOUS
<1>5. Parsed(lines, good) = f BY <1>2, <1>3, <1>4 DEF Parsed
<1>6. PICK S : S = {Row(lines[i]) : i \in good} OBVIOUS
<1>7. f \in [1 .. m -> S] BY <1>3, <1>4, <1>6
<1>8. f \in Seq(S) BY <1>7
<1>9. \A row \in S : Bound(row) BY <1>6
<1> QED BY <1>5, <1>8, <1>9 DEF BoundSeq

\* A pose that is not refused is a pose of the roster.
LEMMA PoseKnown ==
    ASSUME NEW raw \in Poses \cup {"", TooLong, Blanks}, IsPose(raw)
    PROVE  Pose(raw) \in Poses
BY ImporterAssumption DEF IsPose, Pose

LEMMA ManifestParsed ==
    ASSUME NEW input \in Inputs PROVE ParsedWell(ParseManifest(input))
<1>1. PICK n \in Nat : n = Len(input.lines) /\ DOMAIN input.lines = 1 .. n BY ImporterAssumption
<1>2. ASSUME NEW i \in 1 .. n
      PROVE  /\ input.lines[i].pose \in Poses \cup {"", TooLong, Blanks}
             /\ input.lines[i].image \in DOMAIN Photo \cup {"", Blanks}
  BY <1>1, ImporterAssumption
<1>3. PICK lines : lines = [i \in DOMAIN input.lines |-> Fields(input.lines[i])] OBVIOUS
<1>4. DOMAIN lines = 1 .. n /\ \A i \in 1 .. n : lines[i] = Fields(input.lines[i]) BY <1>1, <1>3
<1>5. PICK good : good = {i \in DOMAIN lines : Bindable(lines[i])} OBVIOUS
<1>6. PICK empty : empty = {i \in DOMAIN lines : IsEmpty(lines[i])} OBVIOUS
<1>7. good \in SUBSET (1 .. n) /\ DOMAIN lines \ (good \cup empty) \in SUBSET (1 .. n)
  BY <1>4, <1>5
<1>8. ASSUME NEW i \in good PROVE Bound(Row(lines[i]))
  <2>1. i \in 1 .. n /\ lines[i] = Fields(input.lines[i]) /\ Bindable(lines[i]) BY <1>4, <1>5
  <2>2. lines[i].pose = Strip(input.lines[i].pose) /\ lines[i].image = Strip(input.lines[i].image)
    BY <2>1 DEF Fields
  <2>3. lines[i].pose \in Poses \cup {"", TooLong, Blanks} BY <1>2, <2>1, <2>2 DEF Strip
  <2>4. lines[i].image # "" /\ IsPose(lines[i].pose) BY <2>1 DEF Bindable
  <2>5. lines[i].image \in DOMAIN Photo BY <1>2, <2>1, <2>2, <2>4 DEF Strip
  <2>6. Pose(lines[i].pose) \in Poses BY <2>3, <2>4, PoseKnown
  <2> QED BY <2>5, <2>6 DEF Bound, Row
<1>9. PICK rest \in Nat : rest = Cardinality(DOMAIN lines \ (good \cup empty))
  BY <1>7, InOrderType
<1>10. PICK rows : rows = Parsed(lines, good) OBVIOUS
<1>11. BoundSeq(rows)
  BY <1>7, <1>8, <1>10, ParsedRows
<1>12. ParseManifest(input) = [rows |-> rows,
                               issues |-> rest + IF input.header = "twice" THEN 1 ELSE 0,
                               unbindable |-> 0]
  BY <1>3, <1>5, <1>6, <1>9, <1>10 DEF ParseManifest
<1>13. rest + (IF input.header = "twice" THEN 1 ELSE 0) \in Nat OBVIOUS
<1> QED BY <1>11, <1>12, <1>13 DEF ParsedWell

LEMMA FolderParsed ==
    ASSUME NEW input \in Inputs, input.header = "folder" PROVE ParsedWell(ScanFolder(input))
<1>1. PICK n \in Nat : n = Len(input.lines) /\ DOMAIN input.lines = 1 .. n BY ImporterAssumption
<1>2. PICK lines : lines = input.lines OBVIOUS
<1>3. PICK photos : photos = {i \in DOMAIN lines : lines[i].image # ""} OBVIOUS
<1>4. PICK named : named = {i \in photos : IsNumber(lines[i].number) /\ IsPose(lines[i].pose)}
  OBVIOUS
<1>5. named \in SUBSET (1 .. n) /\ photos \ named \in SUBSET (1 .. n) BY <1>1, <1>2, <1>3, <1>4
<1>6. ASSUME NEW i \in named PROVE Bound(Row(lines[i]))
  <2>1. /\ i \in 1 .. n /\ lines[i].image # "" /\ IsPose(lines[i].pose)
    BY <1>1, <1>2, <1>3, <1>4
  <2>2. /\ lines[i].pose \in Poses \cup {"", TooLong, Blanks}
        /\ lines[i].image \in DOMAIN Photo \cup {"", Blanks}
        /\ lines[i].image # Blanks
    BY <1>1, <1>2, <2>1, ImporterAssumption
  <2>3. Pose(lines[i].pose) \in Poses BY <2>1, <2>2, PoseKnown
  <2> QED BY <2>1, <2>2, <2>3 DEF Bound, Row
<1>7. PICK rest \in Nat : rest = Cardinality(photos \ named) BY <1>5, InOrderType
<1>8. PICK rows : rows = Parsed(lines, named) OBVIOUS
<1>9. BoundSeq(rows)
  BY <1>5, <1>6, <1>8, ParsedRows
<1>10. ScanFolder(input) = [rows |-> rows, issues |-> 0, unbindable |-> rest]
  BY <1>2, <1>3, <1>4, <1>7, <1>8 DEF ScanFolder
<1> QED BY <1>9, <1>10 DEF ParsedWell

LEMMA InputParsed ==
    ASSUME NEW input \in Inputs
    PROVE  /\ Rows(input) \in Seq(RowsOfInputs)
           /\ Parse[input].issues \in Nat /\ Parse[input].unbindable \in Nat
<1>1. Parse[input] = IF input.header = "folder" THEN ScanFolder(input) ELSE ParseManifest(input)
  BY DEF Parse
<1>2. ParsedWell(Parse[input]) BY <1>1, ManifestParsed, FolderParsed
<1>3. PICK rows : rows = Rows(input) OBVIOUS
<1>4. Range(rows) \subseteq RowsOfInputs BY <1>3 DEF RowsOfInputs
<1>5. PICK S : rows \in Seq(S) BY <1>2, <1>3 DEF ParsedWell, BoundSeq, Rows
<1>6. PICK n \in Nat : rows \in [1 .. n -> S]
  <2>1. Len(rows) \in Nat /\ rows \in [1 .. Len(rows) -> S] BY <1>5
  <2> QED BY <2>1
<1>7. \A i \in 1 .. n : rows[i] \in RowsOfInputs BY <1>4, <1>6 DEF Range
<1>8. rows \in [1 .. n -> RowsOfInputs] BY <1>6, <1>7
<1>9. rows \in Seq(RowsOfInputs) BY <1>8
<1> QED BY <1>2, <1>3, <1>9 DEF ParsedWell

LEMMA RowsBound == ASSUME NEW row \in RowsOfInputs PROVE Bound(row)
<1>1. PICK input \in Inputs : row \in Range(Rows(input)) BY DEF RowsOfInputs
<1>2. PICK i \in DOMAIN Rows(input) : row = Rows(input)[i] BY <1>1 DEF Range
<1>3. Parse[input] = IF input.header = "folder" THEN ScanFolder(input) ELSE ParseManifest(input)
  BY DEF Parse
<1>4. ParsedWell(Parse[input]) BY <1>3, ManifestParsed, FolderParsed
<1>5. PICK S : Rows(input) \in Seq(S) /\ \A r \in S : Bound(r)
  BY <1>4 DEF ParsedWell, BoundSeq, Rows
<1> QED BY <1>2, <1>5

----------------------------------------------------------------------------
(* The counters *)

Tally == [total : Nat, imported : Nat, rotated : Nat, would_import : Nat,
          skipped_resumed : Nat, skipped_active_exists : Nat, duplicates : Nat,
          db_errors : Nat, extraction_errors : Nat, rejected : [Codes -> Nat]]

\* The rows whose outcome is known.
Balance(s) ==
    s.imported + s.would_import + s.skipped_resumed + s.skipped_active_exists
    + Rejected(s.rejected) + s.db_errors + s.extraction_errors

Outcomes == {"imported", "would_import", "skipped_resumed", "skipped_active_exists",
             "db_errors", "extraction_errors"}

LEMMA RejectedType == ASSUME NEW r \in [Codes -> Nat] PROVE Rejected(r) \in Nat
<1>1. /\ r["UNREADABLE"] \in Nat /\ r["NO_FACE"] \in Nat /\ r["LOW_QUALITY"] \in Nat
      /\ r["UNKNOWN_REF"] \in Nat /\ r["INACTIVE_STUDENT"] \in Nat /\ r["INVALID_ROW"] \in Nat
  BY DEF Codes
<1> QED BY <1>1 DEF Rejected

LEMMA BalanceType == ASSUME NEW s \in Tally PROVE Balance(s) \in Nat
<1>1. Rejected(s.rejected) \in Nat BY RejectedType DEF Tally
<1> QED BY <1>1 DEF Balance, Tally

\* One more rejection of a code is one more rejection.
LEMMA OneRejected ==
    ASSUME NEW r \in [Codes -> Nat], NEW code \in Codes
    PROVE  /\ [r EXCEPT ![code] = @ + 1] \in [Codes -> Nat]
           /\ Rejected([r EXCEPT ![code] = @ + 1]) = Rejected(r) + 1
<1>1. PICK n \in Nat : n = r[code] + 1
  <2>1. r[code] \in Nat OBVIOUS
  <2> QED BY <2>1
<1>2. PICK t : t = [r EXCEPT ![code] = n] OBVIOUS
<1>3. [r EXCEPT ![code] = @ + 1] = t BY <1>1, <1>2
<1>4. t \in [Codes -> Nat] BY <1>1, <1>2
<1>5. t[code] = n /\ \A c \in Codes \ {code} : t[c] = r[c] BY <1>2
<1>6. /\ r["UNREADABLE"] \in Nat /\ r["NO_FACE"] \in Nat /\ r["LOW_QUALITY"] \in Nat
      /\ r["UNKNOWN_REF"] \in Nat /\ r["INACTIVE_STUDENT"] \in Nat /\ r["INVALID_ROW"] \in Nat
  BY DEF Codes
<1>7. Rejected(t) = Rejected(r) + 1
  <2>1. CASE code = "UNREADABLE" BY <1>1, <1>5, <1>6, <2>1 DEF Rejected, Codes
  <2>2. CASE code = "NO_FACE" BY <1>1, <1>5, <1>6, <2>2 DEF Rejected, Codes
  <2>3. CASE code = "LOW_QUALITY" BY <1>1, <1>5, <1>6, <2>3 DEF Rejected, Codes
  <2>4. CASE code = "UNKNOWN_REF" BY <1>1, <1>5, <1>6, <2>4 DEF Rejected, Codes
  <2>5. CASE code = "INACTIVE_STUDENT" BY <1>1, <1>5, <1>6, <2>5 DEF Rejected, Codes
  <2>6. CASE code = "INVALID_ROW" BY <1>1, <1>5, <1>6, <2>6 DEF Rejected, Codes
  <2> QED BY <2>1, <2>2, <2>3, <2>4, <2>5, <2>6 DEF Codes
<1> QED BY <1>3, <1>4, <1>7

Plus(s, f) == [s EXCEPT ![f] = @ + 1]

LEMMA OneOutcome ==
    ASSUME NEW s \in Tally, NEW f \in Outcomes, NEW t, t = Plus(s, f)
    PROVE  /\ t \in Tally /\ Balance(t) = Balance(s) + 1
           /\ t.total = s.total /\ t.rotated = s.rotated
           /\ t.imported = IF f = "imported" THEN s.imported + 1 ELSE s.imported
<1>1. s[f] \in Nat BY DEF Tally, Outcomes
<1>2. PICK n \in Nat : n = s[f] + 1 BY <1>1
<1>3. t = [s EXCEPT ![f] = n] BY <1>2 DEF Plus
<1>4. t \in Tally BY <1>3 DEF Tally, Outcomes
<1>5. DOMAIN s = {"total", "imported", "rotated", "would_import", "skipped_resumed",
                  "skipped_active_exists", "duplicates", "db_errors", "extraction_errors",
                  "rejected"}
  BY DEF Tally
<1>6. t[f] = n /\ \A g \in DOMAIN s \ {f} : t[g] = s[g] BY <1>3, <1>5 DEF Outcomes
<1>7. /\ t.total = s.total /\ t.rotated = s.rotated /\ t.rejected = s.rejected
      /\ t.imported = IF f = "imported" THEN s.imported + 1 ELSE s.imported
  BY <1>2, <1>5, <1>6 DEF Outcomes
<1>8. PICK r \in Nat : r = Rejected(s.rejected) BY RejectedType DEF Tally
<1>9. /\ s.imported \in Nat /\ s.would_import \in Nat /\ s.skipped_resumed \in Nat
      /\ s.skipped_active_exists \in Nat /\ s.db_errors \in Nat /\ s.extraction_errors \in Nat
  BY DEF Tally
<1>10. \A g \in Outcomes \ {f} : t[g] = s[g] BY <1>5, <1>6 DEF Outcomes
<1>11. Balance(t) = Balance(s) + 1
  <2>1. CASE f = "imported"
    <3>1. /\ t.imported = s.imported + 1 /\ t.would_import = s.would_import
          /\ t.skipped_resumed = s.skipped_resumed
          /\ t.skipped_active_exists = s.skipped_active_exists
          /\ t.db_errors = s.db_errors /\ t.extraction_errors = s.extraction_errors
      BY <1>2, <1>6, <1>10, <2>1 DEF Outcomes
    <3> QED BY <1>7, <1>8, <1>9, <3>1 DEF Balance
  <2>2. CASE f = "would_import"
    <3>1. /\ t.imported = s.imported /\ t.would_import = s.would_import + 1
          /\ t.skipped_resumed = s.skipped_resumed
          /\ t.skipped_active_exists = s.skipped_active_exists
          /\ t.db_errors = s.db_errors /\ t.extraction_errors = s.extraction_errors
      BY <1>2, <1>6, <1>10, <2>2 DEF Outcomes
    <3> QED BY <1>7, <1>8, <1>9, <3>1 DEF Balance
  <2>3. CASE f = "skipped_resumed"
    <3>1. /\ t.imported = s.imported /\ t.would_import = s.would_import
          /\ t.skipped_resumed = s.skipped_resumed + 1
          /\ t.skipped_active_exists = s.skipped_active_exists
          /\ t.db_errors = s.db_errors /\ t.extraction_errors = s.extraction_errors
      BY <1>2, <1>6, <1>10, <2>3 DEF Outcomes
    <3> QED BY <1>7, <1>8, <1>9, <3>1 DEF Balance
  <2>4. CASE f = "skipped_active_exists"
    <3>1. /\ t.imported = s.imported /\ t.would_import = s.would_import
          /\ t.skipped_resumed = s.skipped_resumed
          /\ t.skipped_active_exists = s.skipped_active_exists + 1
          /\ t.db_errors = s.db_errors /\ t.extraction_errors = s.extraction_errors
      BY <1>2, <1>6, <1>10, <2>4 DEF Outcomes
    <3> QED BY <1>7, <1>8, <1>9, <3>1 DEF Balance
  <2>5. CASE f = "db_errors"
    <3>1. /\ t.imported = s.imported /\ t.would_import = s.would_import
          /\ t.skipped_resumed = s.skipped_resumed
          /\ t.skipped_active_exists = s.skipped_active_exists
          /\ t.db_errors = s.db_errors + 1 /\ t.extraction_errors = s.extraction_errors
      BY <1>2, <1>6, <1>10, <2>5 DEF Outcomes
    <3> QED BY <1>7, <1>8, <1>9, <3>1 DEF Balance
  <2>6. CASE f = "extraction_errors"
    <3>1. /\ t.imported = s.imported /\ t.would_import = s.would_import
          /\ t.skipped_resumed = s.skipped_resumed
          /\ t.skipped_active_exists = s.skipped_active_exists
          /\ t.db_errors = s.db_errors /\ t.extraction_errors = s.extraction_errors + 1
      BY <1>2, <1>6, <1>10, <2>6 DEF Outcomes
    <3> QED BY <1>7, <1>8, <1>9, <3>1 DEF Balance
  <2> QED BY <2>1, <2>2, <2>3, <2>4, <2>5, <2>6 DEF Outcomes
<1> QED BY <1>4, <1>7, <1>11

LEMMA OneRefusal ==
    ASSUME NEW s \in Tally, NEW code \in Codes, NEW t, t = [s EXCEPT !.rejected[code] = @ + 1]
    PROVE  /\ t \in Tally /\ Balance(t) = Balance(s) + 1
           /\ t.total = s.total /\ t.rotated = s.rotated /\ t.imported = s.imported
<1>1. s.rejected \in [Codes -> Nat] BY DEF Tally
<1>2. PICK r : r = [s.rejected EXCEPT ![code] = @ + 1] OBVIOUS
<1>3. r \in [Codes -> Nat] /\ Rejected(r) = Rejected(s.rejected) + 1 BY <1>1, <1>2, OneRejected
<1>4. t = [s EXCEPT !.rejected = r] BY <1>2
<1>5. t \in Tally BY <1>3, <1>4 DEF Tally
<1>6. /\ t.rejected = r /\ t.total = s.total /\ t.rotated = s.rotated /\ t.imported = s.imported
      /\ t.would_import = s.would_import /\ t.skipped_resumed = s.skipped_resumed
      /\ t.skipped_active_exists = s.skipped_active_exists /\ t.db_errors = s.db_errors
      /\ t.extraction_errors = s.extraction_errors
  BY <1>4 DEF Tally
<1>7. PICK n \in Nat : n = Rejected(s.rejected) BY <1>1, RejectedType
<1>8. /\ s.imported \in Nat /\ s.would_import \in Nat /\ s.skipped_resumed \in Nat
      /\ s.skipped_active_exists \in Nat /\ s.db_errors \in Nat /\ s.extraction_errors \in Nat
  BY DEF Tally
<1>9. Balance(t) = Balance(s) + 1 BY <1>3, <1>6, <1>7, <1>8 DEF Balance
<1> QED BY <1>5, <1>6, <1>9

\* The fields that are no outcome.
LEMMA OneMore ==
    ASSUME NEW s \in Tally, NEW f \in {"total", "duplicates", "rotated"}, NEW t,
           t = [s EXCEPT ![f] = @ + 1]
    PROVE  /\ t \in Tally /\ Balance(t) = Balance(s) /\ t.imported = s.imported
           /\ t.total = IF f = "total" THEN s.total + 1 ELSE s.total
           /\ t.rotated = IF f = "rotated" THEN s.rotated + 1 ELSE s.rotated
<1>1. s[f] \in Nat BY DEF Tally
<1>2. PICK n \in Nat : n = s[f] + 1 BY <1>1
<1>3. t = [s EXCEPT ![f] = n] BY <1>2
<1>4. t \in Tally BY <1>3 DEF Tally
<1>5. DOMAIN s = {"total", "imported", "rotated", "would_import", "skipped_resumed",
                  "skipped_active_exists", "duplicates", "db_errors", "extraction_errors",
                  "rejected"}
  BY DEF Tally
<1>6. t[f] = n /\ \A g \in DOMAIN s \ {f} : t[g] = s[g] BY <1>3, <1>5
<1>7. /\ t.rejected = s.rejected /\ t.imported = s.imported
      /\ t.would_import = s.would_import /\ t.skipped_resumed = s.skipped_resumed
      /\ t.skipped_active_exists = s.skipped_active_exists /\ t.db_errors = s.db_errors
      /\ t.extraction_errors = s.extraction_errors
  BY <1>5, <1>6
<1>8. Balance(t) = Balance(s) BY <1>7 DEF Balance
<1>9. /\ t.total = IF f = "total" THEN s.total + 1 ELSE s.total
      /\ t.rotated = IF f = "rotated" THEN s.rotated + 1 ELSE s.rotated
  BY <1>2, <1>5, <1>6
<1> QED BY <1>4, <1>7, <1>8, <1>9

----------------------------------------------------------------------------
(* The store *)

Bytes == Images \cup {Unreadable}
StoreOK == store \in Seq(Template_)
JournalOK == journal \in Seq(Lines(Key_))

LEMMA Indexed ==
    ASSUME StoreOK, NEW S \in SUBSET DOMAIN store
    PROVE  IsFiniteSet(S) /\ Cardinality(S) \in Nat /\ Len(store) \in Nat
           /\ DOMAIN store = 1 .. Len(store)
<1>1. Len(store) \in Nat /\ DOMAIN store = 1 .. Len(store) BY DEF StoreOK
<1>2. IsFiniteSet(DOMAIN store) BY <1>1, FS_Interval
<1>3. IsFiniteSet(S) BY <1>2, FS_Subset
<1> QED BY <1>1, <1>3, FS_CardinalityType

LEMMA WrittenType == ASSUME StoreOK PROVE Written(Images) \in Nat
<1>1. {i \in DOMAIN store : store[i].bytes \in Images} \in SUBSET DOMAIN store OBVIOUS
<1> QED BY <1>1, Indexed DEF Written

\* The commits that were answered.
LEMMA AnsweredType == ASSUME StoreOK, mishaps.unanswered \in Nat PROVE Answered \in Int
BY WrittenType DEF Answered

\* A rotation adds one template, and no photo but its own.
LEMMA StoreGrows ==
    ASSUME StoreOK, NEW number \in Students, NEW pose \in Poses, NEW bytes \in Bytes,
           store' = Rotated(number, pose, bytes)
    PROVE  /\ StoreOK' /\ GrownBy(store', Template(number, pose, bytes))
           /\ Written(Images)' = Written(Images) + IF bytes \in Images THEN 1 ELSE 0
<1>1. Template_ = Templates(Students, Poses, Bytes) BY DEF Template_, Templates, Bytes
<1>2. store' \in Seq(Template_) /\ GrownBy(store', Template(number, pose, bytes))
  <2>1. store \in Seq(Templates(Students, Poses, Bytes)) BY <1>1 DEF StoreOK
  <2>2. /\ Rotated(number, pose, bytes) \in Seq(Templates(Students, Poses, Bytes))
        /\ GrownBy(Rotated(number, pose, bytes), Template(number, pose, bytes))
    BY <2>1, RotatedKeeps
  <2> QED BY <1>1, <2>2
<1>3. PICK old : old = {i \in DOMAIN store : store[i].bytes \in Images} OBVIOUS
<1>4. PICK new : new = {i \in DOMAIN store' : store'[i].bytes \in Images} OBVIOUS
<1>5. PICK last : last = Len(store) + 1 OBVIOUS
<1>6. IsFiniteSet(old) /\ Cardinality(old) \in Nat /\ last \notin old /\ last \notin DOMAIN store
  <2>1. old \in SUBSET DOMAIN store BY <1>3
  <2>2. Len(store) \in Nat /\ DOMAIN store = 1 .. Len(store) BY <2>1, Indexed
  <2>3. last \notin DOMAIN store BY <1>5, <2>2
  <2> QED BY <2>1, <2>3, Indexed
<1>7. /\ DOMAIN store' = DOMAIN store \cup {last}
      /\ \A i \in DOMAIN store : store'[i].bytes = store[i].bytes
      /\ store'[last].bytes = bytes
  BY <1>2, <1>5 DEF GrownBy, Template
<1>8. Written(Images) = Cardinality(old) /\ Written(Images)' = Cardinality(new)
  <2>1. Images' = Images BY DEF Images
  <2> QED BY <1>3, <1>4, <2>1 DEF Written
<1>9. CASE bytes \in Images
  <2>1. new = old \cup {last} BY <1>3, <1>4, <1>6, <1>7, <1>9
  <2>2. Cardinality(new) = Cardinality(old) + 1 BY <1>6, <2>1, FS_AddElement
  <2> QED BY <1>2, <1>8, <1>9, <2>2 DEF StoreOK, Template_, Images
<1>10. CASE bytes \notin Images
  <2>1. new = old BY <1>3, <1>4, <1>6, <1>7, <1>10
  <2>2. Cardinality(new) = Cardinality(old) + 0 BY <1>6, <2>1
  <2> QED BY <1>2, <1>8, <1>10, <2>2 DEF StoreOK, Template_, Images
<1> QED BY <1>9, <1>10

LEMMA KeysKnown == ASSUME JournalOK PROVE LoadJournal(journal) \subseteq Key_
<1>1. \A i \in DOMAIN journal : journal[i] \in Lines(Key_) BY DEF JournalOK
<1> QED BY <1>1 DEF LoadJournal, Lines

LEMMA JournalGrows ==
    ASSUME JournalOK, NEW key \in Key_, NEW whole \in BOOLEAN, NEW ended \in BOOLEAN,
           journal' = Appended(journal, [key |-> key, whole |-> whole, ended |-> ended])
    PROVE  JournalOK'
<1>1. PICK line : line = [key |-> key, whole |-> whole, ended |-> ended] OBVIOUS
<1>2. line \in Lines(Key_) BY <1>1 DEF Lines
<1>3. Appended(journal, line) \in Seq(Lines(Key_)) BY <1>2, AppendedKeys DEF JournalOK
<1>4. journal' = Appended(journal, line) BY <1>1
<1>5. Lines(Key_)' = Lines(Key_) BY DEF Lines, Key_, Images
<1> QED BY <1>3, <1>4, <1>5 DEF JournalOK

----------------------------------------------------------------------------
(* The run *)

Runs(r) == [phase : {"rows", "extract", "write", "journal"}, dry : BOOLEAN, overwrite : BOOLEAN,
            rows : Seq(RowsOfInputs), roster : SUBSET Students,
            journaled : SUBSET Key_, seen : {r.seen}, attempt : 0 .. MaxRetries, base : Int]

\* The checks of a row have been made when it is at Triton, at the database or in the journal.
Passed(r) ==
    LET row == Head(r.rows)
    IN  r.rows # <<>> /\ row.number \in Students /\ Readable(row) /\ Key(row) \notin r.journaled

Going(r) ==
    /\ r \in Runs(r)
    /\ r.dry => r.phase \in {"rows", "extract"}
    /\ r.phase # "rows" => Passed(r)

RunOK ==
    \/ run = Off
    \/ run.phase = "reported" /\ run.base \in Int /\ run.coverage.failed = Failed
    \/ Going(run)

OthersOK ==
    /\ exit \in {"none", "0", "2", "3", "killed"}
    /\ active \subseteq Students
    /\ mishaps \in [deaths : Nat, torn : Nat, unanswered : Nat] /\ troubles \in Nat

\* Counted rows are rows with an outcome, and the one between its checks and its outcome.
Pending == IF run.phase \in {"extract", "write"} THEN 1 ELSE 0
Balanced ==
    run # Off =>
        /\ summary.total = Balance(summary) + Pending
        /\ summary.imported = Answered - run.base
        /\ summary.rotated <= summary.imported

TInv == RunOK /\ summary \in Tally /\ StoreOK /\ JournalOK /\ OthersOK /\ Balanced

LEMMA PhaseGoes ==
    ASSUME TInv, run.phase \in {"rows", "extract", "write", "journal"}
    PROVE  Going(run) /\ run # Off
<1>1. run # Off BY DEF Off
<1>2. run.phase # "reported" OBVIOUS
<1> QED BY <1>1, <1>2 DEF TInv, RunOK

\* The row at the head of a run is a row of the inputs.
LEMMA HeadRow ==
    ASSUME NEW r, r \in Runs(r), r.rows # <<>>
    PROVE  /\ Head(r.rows).pose \in Poses /\ Head(r.rows).image \in DOMAIN Photo
           /\ Readable(Head(r.rows)) => Image(Head(r.rows)) \in Images
           /\ Tail(r.rows) \in Seq(RowsOfInputs)
<1>1. r.rows \in Seq(RowsOfInputs) BY DEF Runs
<1>2. PICK rows \in Seq(RowsOfInputs) : rows = r.rows BY <1>1
<1>3. PICK row \in RowsOfInputs : row = Head(rows)
  <2>1. rows # <<>> BY <1>2
  <2>2. Head(rows) \in RowsOfInputs BY <2>1
  <2> QED BY <2>2
<1>4. Tail(rows) \in Seq(RowsOfInputs) BY <1>2
<1>5. row.pose \in Poses /\ row.image \in DOMAIN Photo BY RowsBound DEF Bound
<1>6. Readable(row) => Image(row) \in Images BY <1>5 DEF Readable, Image, Images
<1> QED BY <1>2, <1>3, <1>4, <1>5, <1>6

LEMMA KnownRow ==
    ASSUME Identity(ThisRow) = "known"
    PROVE  ThisRow.number \in Students /\ Readable(ThisRow)
<1>1. PICK row : row = ThisRow OBVIOUS
<1>2. row.number \in Students BY <1>1 DEF Identity
<1>3. row.number \in run.roster BY <1>1, <1>2 DEF Identity
<1>4. Readable(row) BY <1>1, <1>2, <1>3 DEF Identity
<1> QED BY <1>1, <1>2, <1>4

LEMMA RefusedRow ==
    ASSUME Identity(ThisRow) # "known" PROVE Identity(ThisRow) \in Codes
BY DEF Identity, Codes

\* On to the next row.
LEMMA NextGoes ==
    ASSUME NEW r, r \in Runs(r), r.rows # <<>>, NEW q,
           q = [r EXCEPT !.phase = "rows", !.rows = Tail(@), !.attempt = 0]
    PROVE  Going(q) /\ q.phase = "rows" /\ q.base = r.base
<1>1. PICK rest : rest = Tail(r.rows) OBVIOUS
<1>2. rest \in Seq(RowsOfInputs) BY <1>1, HeadRow
<1>3. q = [r EXCEPT !.phase = "rows", !.rows = rest, !.attempt = 0] BY <1>1
<1>4. q.phase = "rows" /\ q.base = r.base /\ q.seen = r.seen BY <1>3 DEF Runs
<1>5. 0 \in 0 .. MaxRetries
  <2>1. MaxRetries \in Nat BY ImporterAssumption
  <2> QED BY <2>1
<1>6. q \in Runs(r) BY <1>2, <1>3, <1>5 DEF Runs
<1>7. q \in Runs(q) BY <1>4, <1>6 DEF Runs
<1> QED BY <1>4, <1>7 DEF Going


----------------------------------------------------------------------------
(* The steps *)

\* A step that leaves the data alone.
StoreKept == UNCHANGED <<store, journal, active, mishaps, troubles>>

LEMMA DataKept ==
    ASSUME TInv, UNCHANGED <<store, journal, active>>,
           exit' \in {"none", "0", "2", "3", "killed"}, troubles' \in Nat,
           mishaps' \in [deaths : Nat, torn : Nat, unanswered : Nat],
           mishaps'.unanswered = mishaps.unanswered
    PROVE  StoreOK' /\ JournalOK' /\ OthersOK' /\ Answered' = Answered
<1>1. StoreOK' /\ JournalOK' BY DEF TInv, StoreOK, JournalOK, Template_, Lines, Key_, Images
<1>2. OthersOK' BY DEF TInv, OthersOK
<1>3. Answered' = Answered BY DEF Answered, Written, Images
<1> QED BY <1>1, <1>2, <1>3

LEMMA OffHolds ==
    ASSUME run' = Off, summary' \in Tally, StoreOK', JournalOK', OthersOK' PROVE TInv'
<1>1. RunOK' BY DEF RunOK
<1>2. Balanced' BY DEF Balanced
<1> QED BY <1>1, <1>2 DEF TInv

LEMMA Troubled == ASSUME TInv, Trouble PROVE troubles' \in Nat
<1>1. troubles \in Nat BY DEF TInv, OthersOK
<1> QED BY <1>1 DEF Trouble

LEMMA GoingHolds ==
    ASSUME Going(run'), summary' \in Tally, StoreOK', JournalOK', OthersOK', Balanced'
    PROVE  TInv'
<1>1. RunOK' BY DEF RunOK
<1> QED BY <1>1 DEF TInv

LEMMA RefuseHolds == ASSUME TInv, Refuse PROVE TInv'
<1>1. NoCounts \in Tally BY DEF NoCounts, Tally
<1>2. run' = Off /\ exit' = "2" /\ summary' = NoCounts BY DEF Refuse, End
<1>3. /\ troubles' \in Nat /\ mishaps' \in [deaths : Nat, torn : Nat, unanswered : Nat]
      /\ mishaps'.unanswered = mishaps.unanswered
  BY DEF Refuse, TInv, OthersOK
<1>4. StoreOK' /\ JournalOK' /\ OthersOK' BY <1>2, <1>3, DataKept DEF Refuse
<1> QED BY <1>1, <1>2, <1>4, OffHolds

LEMMA StartHolds ==
    ASSUME TInv, NEW input \in Inputs, NEW dry \in BOOLEAN, NEW overwrite \in BOOLEAN,
           Start(input, dry, overwrite)
    PROVE  TInv'
<1>1. PICK parsed : parsed = Parse[input] OBVIOUS
<1>2. parsed.rows \in Seq(RowsOfInputs) /\ parsed.issues \in Nat /\ parsed.unbindable \in Nat
  BY <1>1, InputParsed DEF Rows
<1>3. PICK rows \in Seq(RowsOfInputs) : rows = parsed.rows BY <1>2
<1>4. PICK issues \in Nat : issues = parsed.issues BY <1>2
<1>5. PICK unbindable \in Nat : unbindable = parsed.unbindable BY <1>2
<1>6. PICK keys \in SUBSET Key_ : keys = LoadJournal(journal) BY KeysKnown DEF TInv
<1>7. PICK base \in Int : base = Answered BY AnsweredType DEF TInv, OthersOK
<1>8. PICK roster \in SUBSET Students : roster = active BY DEF TInv, OthersOK
<1>9. 0 \in 0 .. MaxRetries
  <2>1. MaxRetries \in Nat BY ImporterAssumption
  <2> QED BY <2>1
<1>10. PICK q : q = [phase |-> "rows", dry |-> dry, overwrite |-> overwrite, rows |-> rows,
                     roster |-> roster, journaled |-> keys, seen |-> <<>>, attempt |-> 0,
                     base |-> base]
  OBVIOUS
<1>11. run' = q BY <1>1, <1>3, <1>6, <1>7, <1>8, <1>10 DEF Start
<1>12. Going(q) /\ q.phase = "rows" /\ q.base = base
  <2>1. q.seen = <<>> /\ q.phase = "rows" /\ q.base = base BY <1>10
  <2>2. q \in Runs(q) BY <1>9, <1>10, <2>1 DEF Runs
  <2> QED BY <2>1, <2>2 DEF Going
<1>13. PICK t : t = [NoCounts EXCEPT !.total = issues + unbindable,
                                     !.rejected["INVALID_ROW"] = issues,
                                     !.rejected["UNKNOWN_REF"] = unbindable]
  OBVIOUS
<1>14. summary' = t BY <1>1, <1>4, <1>5, <1>13 DEF Start
<1>15. t \in Tally /\ t.total = Balance(t) /\ t.imported = 0 /\ t.rotated = 0
  <2>1. PICK n \in Nat : n = issues + unbindable OBVIOUS
  <2>2. PICK none \in [Codes -> Nat] : none = [c \in Codes |-> 0] OBVIOUS
  <2>3. PICK r : r = [none EXCEPT !["INVALID_ROW"] = issues, !["UNKNOWN_REF"] = unbindable]
    OBVIOUS
  <2>4. t = [NoCounts EXCEPT !.total = n, !.rejected = r]
    BY <1>13, <2>1, <2>2, <2>3 DEF NoCounts
  <2>5. r \in [Codes -> Nat] BY <2>2, <2>3
  <2>6. t \in Tally BY <2>4, <2>5 DEF NoCounts, Tally
  <2>7. /\ r["UNREADABLE"] = 0 /\ r["NO_FACE"] = 0 /\ r["LOW_QUALITY"] = 0
        /\ r["UNKNOWN_REF"] = unbindable /\ r["INACTIVE_STUDENT"] = 0
        /\ r["INVALID_ROW"] = issues
    BY <2>2, <2>3 DEF Codes
  <2>8. Rejected(r) = n BY <2>1, <2>7 DEF Rejected
  <2>9. /\ t.total = n /\ t.rejected = r /\ t.imported = 0 /\ t.rotated = 0
        /\ t.would_import = 0 /\ t.skipped_resumed = 0 /\ t.skipped_active_exists = 0
        /\ t.db_errors = 0 /\ t.extraction_errors = 0
    BY <2>4 DEF NoCounts
  <2> QED BY <2>6, <2>8, <2>9 DEF Balance
<1>16. /\ StoreOK' /\ JournalOK' /\ OthersOK' /\ Answered' = base
  <2>1. /\ UNCHANGED <<store, journal, active>> /\ exit' = "none"
        /\ troubles' \in Nat /\ mishaps' \in [deaths : Nat, torn : Nat, unanswered : Nat]
        /\ mishaps'.unanswered = mishaps.unanswered
    BY DEF Start, TInv, OthersOK
  <2> QED BY <1>7, <2>1, DataKept
<1>17. Balanced'
  <2>1. Pending' = 0 BY <1>11, <1>12 DEF Pending
  <2>2. Balance(summary)' = Balance(t) BY <1>14
  <2>3. Balance(t) \in Nat BY <1>15, BalanceType
  <2>4. /\ summary'.total = Balance(summary)' + Pending' BY <1>14, <1>15, <2>1, <2>2, <2>3
  <2>5. summary'.imported = Answered' - run'.base
    BY <1>11, <1>12, <1>14, <1>15, <1>16
  <2>6. summary'.rotated <= summary'.imported BY <1>14, <1>15
  <2> QED BY <2>4, <2>5, <2>6 DEF Balanced
<1> QED BY <1>11, <1>12, <1>14, <1>15, <1>16, <1>17, GoingHolds

LEMMA CountsTyped ==
    ASSUME TInv, run # Off
    PROVE  /\ summary \in Tally /\ Balance(summary) \in Nat /\ summary.total \in Nat
           /\ summary.imported \in Nat /\ summary.rotated \in Nat
           /\ summary.total = Balance(summary) + Pending
           /\ summary.imported = Answered - run.base
           /\ summary.rotated <= summary.imported
<1>1. summary \in Tally BY DEF TInv
<1>2. Balance(summary) \in Nat BY <1>1, BalanceType
<1>3. /\ summary.total \in Nat /\ summary.imported \in Nat /\ summary.rotated \in Nat
  BY <1>1 DEF Tally
<1> QED BY <1>1, <1>2, <1>3 DEF TInv, Balanced

\* The row at the head gets its outcome, which is not that it is imported.
LEMMA RowHolds ==
    ASSUME TInv, run.phase \in {"rows", "extract", "write"}, run.rows # <<>>, run' = NextRow,
           StoreOK', JournalOK', OthersOK', Answered' = Answered,
           summary' \in Tally, Balance(summary') = Balance(summary) + 1,
           summary'.imported = summary.imported, summary'.rotated = summary.rotated,
           summary'.total = IF run.phase = "rows" THEN summary.total + 1 ELSE summary.total
    PROVE  TInv'
<1>1. Going(run) /\ run # Off BY PhaseGoes
<1>2. Going(run') /\ run'.phase = "rows" /\ run'.base = run.base
  BY <1>1, NextGoes DEF Going, NextRow
<1>4. Pending = (IF run.phase = "rows" THEN 0 ELSE 1) /\ Pending' = 0 BY <1>2 DEF Pending
<1>5. /\ Balance(summary) \in Nat /\ summary.total \in Nat
      /\ summary.total = Balance(summary) + Pending
      /\ summary.imported = Answered - run.base /\ summary.rotated <= summary.imported
  BY <1>1, CountsTyped
<1>6. PICK t : t = summary' OBVIOUS
<1>7. Balance(summary)' = Balance(t) BY <1>6
<1>8. summary'.total = Balance(summary)' + Pending'
  <2>1. summary'.total = Balance(summary) + 1 BY <1>4, <1>5
  <2>2. Balance(summary)' = Balance(summary) + 1 BY <1>6, <1>7
  <2> QED BY <1>4, <1>5, <2>1, <2>2
<1>9. Balanced' BY <1>2, <1>5, <1>8 DEF Balanced
<1> QED BY <1>2, <1>9, GoingHolds

LEMMA OutcomeHolds ==
    ASSUME TInv, run.phase \in {"rows", "extract", "write"}, run.rows # <<>>, run' = NextRow,
           UNCHANGED <<exit, store, journal, active, mishaps>>, troubles' \in Nat,
           summary' \in Tally, Balance(summary') = Balance(summary) + 1,
           summary'.imported = summary.imported, summary'.rotated = summary.rotated,
           summary'.total = IF run.phase = "rows" THEN summary.total + 1 ELSE summary.total
    PROVE  TInv'
<1>1. StoreOK' /\ JournalOK' /\ OthersOK' /\ Answered' = Answered BY DataKept DEF TInv, OthersOK
<1> QED BY <1>1, RowHolds

LEMMA RejectHolds == ASSUME TInv, RejectRow PROVE TInv'
<1>1. run.phase = "rows" /\ run.rows # <<>> /\ Identity(ThisRow) # "known"
  BY DEF RejectRow, AtRow
<1>2. run # Off BY <1>1, PhaseGoes
<1>3. PICK code \in Codes : code = Identity(ThisRow) BY <1>1, RefusedRow
<1>4. PICK s \in Tally : s = summary BY <1>2, CountsTyped
<1>5. PICK m : m = [s EXCEPT !.total = @ + 1] OBVIOUS
<1>6. /\ m \in Tally /\ Balance(m) = Balance(s) /\ m.imported = s.imported
      /\ m.total = s.total + 1 /\ m.rotated = s.rotated
  BY <1>5, OneMore
<1>7. PICK t : t = [m EXCEPT !.rejected[code] = @ + 1] OBVIOUS
<1>8. /\ t \in Tally /\ Balance(t) = Balance(m) + 1
      /\ t.total = m.total /\ t.rotated = m.rotated /\ t.imported = m.imported
  BY <1>6, <1>7, OneRefusal
<1>9. summary' = t
  <2>1. summary' = [s EXCEPT !.total = @ + 1, !.rejected[code] = @ + 1]
    BY <1>3, <1>4 DEF RejectRow
  <2>2. PICK n : n = s.total + 1 OBVIOUS
  <2>3. m = [s EXCEPT !.total = n] BY <1>5, <2>2
  <2>4. m.rejected = s.rejected BY <2>3 DEF Tally
  <2>5. PICK r : r = [s.rejected EXCEPT ![code] = @ + 1] OBVIOUS
  <2>6. t = [m EXCEPT !.rejected = r] BY <1>7, <2>4, <2>5
  <2>7. summary' = [s EXCEPT !.total = n, !.rejected = r] BY <2>1, <2>2, <2>5
  <2> QED BY <2>3, <2>6, <2>7
<1>10. troubles' \in Nat BY DEF RejectRow, TInv, OthersOK
<1> QED BY <1>1, <1>4, <1>6, <1>8, <1>9, <1>10, OutcomeHolds DEF RejectRow

LEMMA ResumeHolds == ASSUME TInv, ResumeRow PROVE TInv'
<1>1. run.phase = "rows" /\ run.rows # <<>> BY DEF ResumeRow, AtRow
<1>2. run # Off BY <1>1, PhaseGoes
<1>4. PICK s \in Tally : s = summary BY <1>2, CountsTyped
<1>5. PICK m : m = [s EXCEPT !.total = @ + 1] OBVIOUS
<1>6. /\ m \in Tally /\ Balance(m) = Balance(s) /\ m.imported = s.imported
      /\ m.total = s.total + 1 /\ m.rotated = s.rotated
  BY <1>5, OneMore
<1>7. PICK t : t = Plus(m, "skipped_resumed") OBVIOUS
<1>8. /\ t \in Tally /\ Balance(t) = Balance(m) + 1
      /\ t.total = m.total /\ t.rotated = m.rotated /\ t.imported = m.imported
  BY <1>6, <1>7, OneOutcome DEF Outcomes
<1>9. summary' = t
  <2>1. summary' = [s EXCEPT !.total = @ + 1, !.skipped_resumed = @ + 1] BY <1>4 DEF ResumeRow
  <2>2. PICK n : n = s.total + 1 OBVIOUS
  <2>3. m = [s EXCEPT !.total = n] BY <1>5, <2>2
  <2>4. m.skipped_resumed = s.skipped_resumed BY <2>3 DEF Tally
  <2>5. PICK r : r = s.skipped_resumed + 1 OBVIOUS
  <2>6. t = [m EXCEPT !.skipped_resumed = r] BY <1>7, <2>4, <2>5 DEF Plus
  <2>7. summary' = [s EXCEPT !.total = n, !.skipped_resumed = r] BY <2>1, <2>2, <2>5
  <2> QED BY <2>3, <2>6, <2>7
<1>10. troubles' \in Nat BY DEF ResumeRow, TInv, OthersOK
<1> QED BY <1>1, <1>4, <1>6, <1>8, <1>9, <1>10, OutcomeHolds DEF ResumeRow

\* A row that is past its checks ends with a count of its own.
LEMMA CountedHolds ==
    ASSUME TInv, run.phase \in {"extract", "write"}, run' = NextRow,
           StoreOK', JournalOK', OthersOK', Answered' = Answered,
           NEW f \in Outcomes \ {"imported"}, Count(f)
    PROVE  TInv'
<1>1. Going(run) /\ run # Off BY PhaseGoes
<1>2. run.rows # <<>> BY <1>1 DEF Going, Passed
<1>3. PICK s \in Tally : s = summary BY <1>1, CountsTyped
<1>4. PICK t : t = Plus(s, f) OBVIOUS
<1>5. /\ t \in Tally /\ Balance(t) = Balance(s) + 1
      /\ t.total = s.total /\ t.rotated = s.rotated /\ t.imported = s.imported
  <2>1. f \in Outcomes OBVIOUS
  <2> QED BY <1>4, <2>1, OneOutcome
<1>6. summary' = t BY <1>3, <1>4 DEF Count, Plus
<1> QED BY <1>2, <1>3, <1>5, <1>6, RowHolds

LEMMA CountHolds ==
    ASSUME TInv, run.phase \in {"extract", "write"}, run' = NextRow,
           UNCHANGED <<exit, store, journal, active, mishaps>>, troubles' \in Nat,
           NEW f \in Outcomes \ {"imported"}, Count(f)
    PROVE  TInv'
<1>1. StoreOK' /\ JournalOK' /\ OthersOK' /\ Answered' = Answered BY DataKept DEF TInv, OthersOK
<1> QED BY <1>1, CountedHolds

LEMMA ExtractionFailsHolds == ASSUME TInv, ExtractionFails PROVE TInv'
<1>1. troubles' \in Nat BY Troubled DEF ExtractionFails
<1>2. "extraction_errors" \in Outcomes \ {"imported"} BY DEF Outcomes
<1> QED BY <1>1, <1>2, CountHolds DEF ExtractionFails

LEMMA UpsertFailsHolds == ASSUME TInv, UpsertFails PROVE TInv'
<1>1. troubles' \in Nat BY Troubled DEF UpsertFails
<1>2. "db_errors" \in Outcomes \ {"imported"} BY DEF Outcomes
<1> QED BY <1>1, <1>2, CountHolds DEF UpsertFails

LEMMA SkipHolds == ASSUME TInv, SkipOccupied PROVE TInv'
<1>1. troubles' \in Nat BY DEF SkipOccupied, TInv, OthersOK
<1>2. "skipped_active_exists" \in Outcomes \ {"imported"} BY DEF Outcomes
<1> QED BY <1>1, <1>2, CountHolds DEF SkipOccupied

\* A step within a row: neither the counters nor the data change.
LEMMA InnerHolds ==
    ASSUME TInv, Going(run), run # Off, Going(run'), run' # Off, run'.base = run.base,
           Pending' = Pending, UNCHANGED <<summary, exit, store, journal, active, mishaps>>,
           troubles' \in Nat
    PROVE  TInv'
<1>1. StoreOK' /\ JournalOK' /\ OthersOK' /\ Answered' = Answered BY DataKept DEF TInv, OthersOK
<1>2. Balance(summary)' = Balance(summary)
  <2>1. PICK s : s = summary OBVIOUS
  <2> QED BY <2>1
<1>3. Balanced' BY <1>1, <1>2 DEF TInv, Balanced
<1>4. summary' \in Tally BY DEF TInv
<1> QED BY <1>1, <1>3, <1>4, GoingHolds

LEMMA ExtractHolds == ASSUME TInv, Extract PROVE TInv'
<1>1. run.phase = "extract" BY DEF Extract
<1>2. Going(run) /\ run # Off BY <1>1, PhaseGoes
<1>3. run.rows # <<>> BY <1>1, <1>2 DEF Going, Passed
<1>4. troubles' \in Nat BY DEF Extract, TInv, OthersOK
<1>5. PICK outcome : outcome = Extraction(Image(ThisRow)) OBVIOUS
<1>6. CASE outcome # "good" /\ Reject(outcome) /\ run' = NextRow
  <2>1. PICK code \in Codes : code = outcome BY <1>5, <1>6 DEF Extraction, Codes
  <2>2. PICK s \in Tally : s = summary BY <1>2, CountsTyped
  <2>3. PICK t : t = [s EXCEPT !.rejected[code] = @ + 1] OBVIOUS
  <2>4. /\ t \in Tally /\ Balance(t) = Balance(s) + 1
        /\ t.total = s.total /\ t.rotated = s.rotated /\ t.imported = s.imported
    BY <2>3, OneRefusal
  <2>5. summary' = t BY <1>6, <2>1, <2>2, <2>3 DEF Reject
  <2> QED BY <1>1, <1>3, <1>4, <1>6, <2>2, <2>4, <2>5, OutcomeHolds DEF Extract
<1>7. CASE Count("would_import") /\ run' = NextRow
  <2>1. "would_import" \in Outcomes \ {"imported"} BY DEF Outcomes
  <2> QED BY <1>1, <1>4, <1>7, <2>1, CountHolds DEF Extract
<1>8. CASE ~run.dry /\ run' = [run EXCEPT !.phase = "write"] /\ UNCHANGED summary
  <2>1. PICK r : r = run /\ r \in Runs(r) /\ Passed(r) /\ ~r.dry BY <1>1, <1>2, <1>8 DEF Going
  <2>2. PICK q : q = [r EXCEPT !.phase = "write"] OBVIOUS
  <2>3. /\ q.phase = "write" /\ q.base = r.base /\ q.seen = r.seen /\ q.rows = r.rows
        /\ q.dry = r.dry /\ q.journaled = r.journaled
    BY <2>1, <2>2 DEF Runs
  <2>4. q \in Runs(r) BY <2>1, <2>2 DEF Runs
  <2>5. q \in Runs(q) BY <2>3, <2>4 DEF Runs
  <2>6. Going(q) BY <2>1, <2>3, <2>5 DEF Going, Passed
  <2>7. run' = q /\ run' # Off BY <1>8, <2>1, <2>2, <2>3 DEF Off
  <2>8. Pending' = Pending BY <1>1, <2>3, <2>7 DEF Pending
  <2> QED BY <1>2, <1>4, <1>8, <2>1, <2>3, <2>6, <2>7, <2>8, InnerHolds DEF Extract
<1> QED BY <1>5, <1>6, <1>7, <1>8 DEF Extract

\* What the run has seen plays no part in this.
WithSeen(r, x) == [r EXCEPT !.seen = x]
LEMMA SeenGoes ==
    ASSUME NEW r, Going(r), NEW x, NEW q, q = WithSeen(r, x)
    PROVE  Going(q) /\ q.phase = r.phase /\ q.base = r.base
<1>1. r \in Runs(r) BY DEF Going
<1>2. /\ q.phase = r.phase /\ q.base = r.base /\ q.dry = r.dry /\ q.rows = r.rows
      /\ q.journaled = r.journaled /\ q.seen = x
  BY <1>1 DEF Runs, WithSeen
<1>3. q \in Runs(q) BY <1>1, <1>2 DEF Runs, WithSeen
<1> QED BY <1>2, <1>3 DEF Going, Passed

Decoding(s, n, d, r) == [s EXCEPT !.total = n, !.duplicates = d, !.rejected = r]

LEMMA Decoded ==
    ASSUME NEW s \in Tally, NEW n \in Nat, NEW d \in Nat, NEW r \in [Codes -> Nat], NEW t,
           t = Decoding(s, n, d, r),
           NEW k \in {0, 1}, Rejected(r) = Rejected(s.rejected) + k
    PROVE  /\ t \in Tally /\ t.total = n /\ t.imported = s.imported /\ t.rotated = s.rotated
           /\ Balance(t) = Balance(s) + k
<1>1. t \in Tally BY DEF Tally, Decoding
<1>2. /\ t.total = n /\ t.rejected = r /\ t.rotated = s.rotated /\ t.imported = s.imported
      /\ t.would_import = s.would_import /\ t.skipped_resumed = s.skipped_resumed
      /\ t.skipped_active_exists = s.skipped_active_exists /\ t.db_errors = s.db_errors
      /\ t.extraction_errors = s.extraction_errors
  BY DEF Tally, Decoding
<1>3. PICK m \in Nat : m = Rejected(s.rejected) BY RejectedType DEF Tally
<1>4. /\ s.imported \in Nat /\ s.would_import \in Nat /\ s.skipped_resumed \in Nat
      /\ s.skipped_active_exists \in Nat /\ s.db_errors \in Nat /\ s.extraction_errors \in Nat
  BY DEF Tally
<1>5. Balance(t) = Balance(s) + k BY <1>2, <1>3, <1>4 DEF Balance
<1> QED BY <1>1, <1>2, <1>5

LEMMA DecodeHolds == ASSUME TInv, DecodeRow PROVE TInv'
<1>1. run.phase = "rows" /\ run.rows # <<>> BY DEF DecodeRow, AtRow
<1>2. Going(run) /\ run # Off BY <1>1, PhaseGoes
<1>3. PICK row : row = ThisRow OBVIOUS
<1>4. row.number \in Students /\ Readable(row) /\ Key(row) \notin run.journaled
  BY <1>3, KnownRow DEF DecodeRow, Resumed
<1>5. PICK s \in Tally : s = summary BY <1>2, CountsTyped
<1>6. /\ s.total \in Nat /\ s.duplicates \in Nat /\ s.rejected \in [Codes -> Nat]
  BY DEF Tally
<1>7. PICK n \in Nat : n = s.total + 1 BY <1>6
<1>8. PICK d \in Nat : d = IF Duplicate(row) THEN s.duplicates + 1 ELSE s.duplicates BY <1>6
<1>9. PICK x : x = IF Seen(row) THEN run.seen ELSE (Image(row) :> row.number) @@ run.seen
  OBVIOUS
<1>10. troubles' \in Nat BY DEF DecodeRow, TInv, OthersOK
<1>11. StoreOK' /\ JournalOK' /\ OthersOK' /\ Answered' = Answered
  BY <1>10, DataKept DEF DecodeRow, TInv, OthersOK
<1>12. ASSUME NEW next, Going(next), next.base = run.base, run' = WithSeen(next, x),
              NEW r \in [Codes -> Nat], NEW k \in {0, 1}, Rejected(r) = Rejected(s.rejected) + k,
              summary' = Decoding(s, n, d, r),
              next.phase = IF k = 1 THEN "rows" ELSE "extract"
       PROVE  TInv'
  <2>1. PICK q : q = WithSeen(next, x) OBVIOUS
  <2>2. Going(q) /\ q.phase = next.phase /\ q.base = run.base BY <1>12, <2>1, SeenGoes
  <2>3. PICK t : t = Decoding(s, n, d, r) OBVIOUS
  <2>4. /\ t \in Tally /\ t.total = n /\ t.imported = s.imported /\ t.rotated = s.rotated
        /\ Balance(t) = Balance(s) + k
    BY <1>12, <2>3, Decoded
  <2>5. run' = q /\ summary' = t BY <1>12, <2>1, <2>3
  <2>6. Pending = 0 /\ Pending' = 1 - k BY <1>1, <1>12, <2>2, <2>5 DEF Pending
  <2>7. Balance(s) \in Nat /\ s.total = Balance(s) BY <1>2, <1>5, <2>6, CountsTyped
  <2>8. Balance(summary)' = Balance(t) BY <2>5
  <2>9. summary'.total = Balance(summary)' + Pending' BY <1>7, <2>4, <2>5, <2>6, <2>7, <2>8
  <2>10. /\ s.imported = Answered - run.base /\ s.rotated <= s.imported
    BY <1>2, <1>5, CountsTyped
  <2>11. Balanced' BY <1>11, <2>2, <2>4, <2>5, <2>9, <2>10 DEF Balanced
  <2> QED BY <1>11, <2>2, <2>4, <2>5, <2>11, GoingHolds
<1>13. CASE Image(row).decodes
  <2>1. PICK r : r = run /\ r \in Runs(r) /\ (r.dry => r.phase \in {"rows", "extract"})
    BY <1>2 DEF Going
  <2>2. PICK next : next = [r EXCEPT !.phase = "extract"] OBVIOUS
  <2>3. /\ next.phase = "extract" /\ next.base = r.base /\ next.seen = r.seen
        /\ next.rows = r.rows /\ next.journaled = r.journaled
    BY <2>1, <2>2 DEF Runs
  <2>4. next \in Runs(r) BY <2>1, <2>2 DEF Runs
  <2>5. next \in Runs(next) BY <2>3, <2>4 DEF Runs
  <2>6. Passed(next) BY <1>1, <1>3, <1>4, <2>1, <2>3 DEF Passed, ThisRow
  <2>7. Going(next) BY <2>3, <2>5, <2>6 DEF Going
  <2>8. run' = WithSeen(next, x)
    <3>1. next.seen = run.seen BY <2>1, <2>3
    <3> QED BY <1>3, <1>9, <1>13, <2>1, <2>2, <3>1 DEF DecodeRow, WithSeen
  <2>9. [s.rejected EXCEPT !["UNREADABLE"] = s.rejected["UNREADABLE"]] = s.rejected BY <1>6
  <2>10. summary' = Decoding(s, n, d, s.rejected)
    BY <1>3, <1>5, <1>7, <1>8, <1>13, <2>9 DEF DecodeRow, Decoding
  <2>11. Rejected(s.rejected) = Rejected(s.rejected) + 0
    <3>1. Rejected(s.rejected) \in Nat BY <1>6, RejectedType
    <3> QED BY <3>1
  <2>12. next.base = run.base /\ next.phase = (IF 0 = 1 THEN "rows" ELSE "extract")
    BY <2>1, <2>3
  <2> QED BY <1>6, <1>12, <2>7, <2>8, <2>10, <2>11, <2>12
<1>14. CASE ~Image(row).decodes
  <2>1. PICK r : r = run /\ r \in Runs(r) BY <1>2 DEF Going
  <2>2. PICK next : next = [r EXCEPT !.phase = "rows", !.rows = Tail(@), !.attempt = 0] OBVIOUS
  <2>3. Going(next) /\ next.phase = "rows" /\ next.base = run.base BY <1>1, <2>1, <2>2, NextGoes
  <2>4. run' = WithSeen(next, x)
    <3>1. next.seen = run.seen BY <2>1, <2>2 DEF Runs
    <3>2. next = NextRow BY <2>1, <2>2 DEF NextRow
    <3> QED BY <1>3, <1>9, <1>14, <3>1, <3>2 DEF DecodeRow, WithSeen
  <2>5. PICK r2 : r2 = [s.rejected EXCEPT !["UNREADABLE"] = @ + 1] OBVIOUS
  <2>6. r2 \in [Codes -> Nat] /\ Rejected(r2) = Rejected(s.rejected) + 1
    <3>1. "UNREADABLE" \in Codes BY DEF Codes
    <3> QED BY <1>6, <2>5, <3>1, OneRejected
  <2>7. summary' = Decoding(s, n, d, r2)
    BY <1>3, <1>5, <1>7, <1>8, <1>14, <2>5 DEF DecodeRow, Decoding
  <2> QED BY <1>12, <2>3, <2>4, <2>6, <2>7
<1> QED BY <1>13, <1>14

LEMMA TritonHolds == ASSUME TInv, TritonFails PROVE TInv'
<1>1. run.phase = "extract" BY DEF TritonFails
<1>2. Going(run) /\ run # Off BY <1>1, PhaseGoes
<1>3. troubles' \in Nat BY Troubled DEF TritonFails
<1>4. CASE Exhausted(run.attempt)
  <2>1. run' = Off /\ exit' = "3" BY <1>4 DEF TritonFails, End
  <2>2. StoreOK' /\ JournalOK' /\ OthersOK'
    BY <1>3, <2>1, DataKept DEF TritonFails, TInv, OthersOK
  <2>3. summary' \in Tally BY DEF TritonFails, TInv
  <2> QED BY <2>1, <2>2, <2>3, OffHolds
<1>5. CASE ~Exhausted(run.attempt)
  <2>1. PICK r : r = run /\ r \in Runs(r) /\ Passed(r) BY <1>1, <1>2 DEF Going
  <2>2. PICK n : n = r.attempt + 1 OBVIOUS
  <2>3. n \in 0 .. MaxRetries
    <3>1. r.attempt \in 0 .. MaxRetries BY <2>1 DEF Runs
    <3>2. MaxRetries \in Nat BY ImporterAssumption
    <3>3. ~(r.attempt >= MaxRetries) BY <1>5, <2>1 DEF Exhausted
    <3> QED BY <2>2, <3>1, <3>2, <3>3
  <2>4. PICK q : q = [r EXCEPT !.attempt = n] OBVIOUS
  <2>5. /\ q.phase = "extract" /\ q.base = r.base /\ q.seen = r.seen /\ q.rows = r.rows
        /\ q.dry = r.dry /\ q.journaled = r.journaled
    BY <1>1, <2>1, <2>4 DEF Runs
  <2>6. q \in Runs(r) BY <2>1, <2>3, <2>4 DEF Runs
  <2>7. q \in Runs(q) BY <2>5, <2>6 DEF Runs
  <2>8. Going(q) BY <2>1, <2>5, <2>7 DEF Going, Passed
  <2>9. run' = q /\ UNCHANGED exit BY <1>5, <2>1, <2>2, <2>4 DEF TritonFails
  <2>10. Pending' = Pending /\ run' # Off BY <1>1, <2>5, <2>9 DEF Pending, Off
  <2> QED BY <1>2, <1>3, <2>1, <2>5, <2>8, <2>9, <2>10, InnerHolds DEF TritonFails
<1> QED BY <1>4, <1>5

Imported(s, n, k) == [s EXCEPT !.imported = n, !.rotated = k]

LEMMA OneImported ==
    ASSUME NEW s \in Tally, NEW n \in Nat, NEW k \in Nat, NEW t, t = Imported(s, n, k),
           n = s.imported + 1
    PROVE  /\ t \in Tally /\ t.total = s.total /\ t.imported = n /\ t.rotated = k
           /\ Balance(t) = Balance(s) + 1
<1>1. t \in Tally BY DEF Tally, Imported
<1>2. /\ t.total = s.total /\ t.rejected = s.rejected /\ t.rotated = k /\ t.imported = n
      /\ t.would_import = s.would_import /\ t.skipped_resumed = s.skipped_resumed
      /\ t.skipped_active_exists = s.skipped_active_exists /\ t.db_errors = s.db_errors
      /\ t.extraction_errors = s.extraction_errors
  BY DEF Tally, Imported
<1>3. PICK m \in Nat : m = Rejected(s.rejected) BY RejectedType DEF Tally
<1>4. /\ s.imported \in Nat /\ s.would_import \in Nat /\ s.skipped_resumed \in Nat
      /\ s.skipped_active_exists \in Nat /\ s.db_errors \in Nat /\ s.extraction_errors \in Nat
  BY DEF Tally
<1>5. Balance(t) = Balance(s) + 1 BY <1>2, <1>3, <1>4 DEF Balance
<1> QED BY <1>1, <1>2, <1>5

LEMMA RowGrows ==
    ASSUME StoreOK, NEW row, row.number \in Students, row.pose \in Poses, Image(row) \in Images,
           store' = Rotated(row.number, row.pose, Image(row))
    PROVE  StoreOK' /\ Written(Images)' = Written(Images) + 1
<1>1. Image(row) \in Bytes BY DEF Bytes
<1>2. PICK bytes \in Bytes : bytes = Image(row) BY <1>1
<1>3. store' = Rotated(row.number, row.pose, bytes) BY <1>2
<1> QED BY <1>2, <1>3, StoreGrows

\* The template is there, and the row counts as failed.
LEMMA UnansweredHolds == ASSUME TInv, UpsertUnanswered PROVE TInv'
<1>1. run.phase = "write" BY DEF UpsertUnanswered
<1>2. Going(run) BY <1>1, PhaseGoes
<1>3. PICK row : row = ThisRow OBVIOUS
<1>4. PICK r : r = run /\ r \in Runs(r) /\ Passed(r) BY <1>1, <1>2 DEF Going
<1>5. /\ row.number \in Students /\ row.pose \in Poses /\ Image(row) \in Images
  BY <1>3, <1>4, HeadRow DEF ThisRow, Passed
<1>6. StoreOK' /\ Written(Images)' = Written(Images) + 1
  BY <1>3, <1>5, RowGrows DEF UpsertUnanswered, TInv
<1>7. mishaps \in [deaths : Nat, torn : Nat, unanswered : Nat] BY DEF TInv, OthersOK
<1>8. PICK n \in Nat : n = mishaps.unanswered + 1 BY <1>7
<1>9. mishaps' = [mishaps EXCEPT !.unanswered = n] BY <1>8 DEF UpsertUnanswered
<1>10. mishaps' \in [deaths : Nat, torn : Nat, unanswered : Nat] /\ mishaps'.unanswered = n
  BY <1>7, <1>9
<1>11. JournalOK' BY DEF UpsertUnanswered, TInv, JournalOK, Lines, Key_, Images
<1>12. OthersOK' BY <1>10, Troubled DEF UpsertUnanswered, TInv, OthersOK
<1>13. Answered' = Answered
  <2>1. Written(Images) \in Nat /\ mishaps.unanswered \in Nat BY <1>7, WrittenType DEF TInv
  <2> QED BY <1>6, <1>8, <1>10, <2>1 DEF Answered
<1>14. "db_errors" \in Outcomes \ {"imported"} BY DEF Outcomes
<1> QED BY <1>1, <1>6, <1>11, <1>12, <1>13, <1>14, CountedHolds DEF UpsertUnanswered

LEMMA UpsertHolds == ASSUME TInv, Upsert PROVE TInv'
<1>1. run.phase = "write" BY DEF Upsert
<1>2. Going(run) /\ run # Off BY <1>1, PhaseGoes
<1>3. PICK row : row = ThisRow OBVIOUS
<1>4. PICK r : r = run /\ r \in Runs(r) /\ Passed(r) /\ ~r.dry BY <1>1, <1>2 DEF Going
<1>5. /\ row.number \in Students /\ row.pose \in Poses /\ Image(row) \in Images
  BY <1>3, <1>4, HeadRow DEF ThisRow, Passed
<1>6. /\ StoreOK' /\ Answered' = Answered + 1
  <2>1. StoreOK' /\ Written(Images)' = Written(Images) + 1
    BY <1>3, <1>5, RowGrows DEF Upsert, TInv
  <2>2. Written(Images) \in Nat /\ mishaps.unanswered \in Nat
    BY WrittenType DEF TInv, OthersOK
  <2>3. mishaps'.unanswered = mishaps.unanswered BY DEF Upsert
  <2> QED BY <2>1, <2>2, <2>3 DEF Answered
<1>7. JournalOK' /\ OthersOK'
  <2>1. UNCHANGED <<journal, exit, active, mishaps, troubles>> BY DEF Upsert
  <2> QED BY <2>1 DEF TInv, JournalOK, OthersOK, Lines, Key_, Images
<1>8. PICK q : q = [r EXCEPT !.phase = "journal"] OBVIOUS
<1>9. /\ q.phase = "journal" /\ q.base = r.base /\ q.seen = r.seen /\ q.rows = r.rows
      /\ q.dry = r.dry /\ q.journaled = r.journaled
  BY <1>4, <1>8 DEF Runs
<1>10. q \in Runs(r) BY <1>4, <1>8 DEF Runs
<1>11. q \in Runs(q) BY <1>9, <1>10 DEF Runs
<1>12. Going(q) BY <1>4, <1>9, <1>11 DEF Going, Passed
<1>13. run' = q BY <1>4, <1>8 DEF Upsert
<1>14. PICK s \in Tally : s = summary BY <1>2, CountsTyped
<1>15. s.imported \in Nat /\ s.rotated \in Nat BY DEF Tally
<1>16. PICK n \in Nat : n = s.imported + 1 BY <1>15
<1>17. PICK k \in Nat : k = IF Occupied(row) THEN s.rotated + 1 ELSE s.rotated BY <1>15
<1>18. PICK t : t = Imported(s, n, k) OBVIOUS
<1>19. /\ t \in Tally /\ t.total = s.total /\ t.imported = n /\ t.rotated = k
       /\ Balance(t) = Balance(s) + 1
  BY <1>16, <1>18, OneImported
<1>20. summary' = t
  BY <1>3, <1>14, <1>16, <1>17, <1>18 DEF Upsert, ImportedCounts, Imported
<1>21. Balanced'
  <2>1. Pending = 1 /\ Pending' = 0 BY <1>1, <1>9, <1>13 DEF Pending
  <2>2. /\ Balance(s) \in Nat /\ s.total = Balance(s) + 1
        /\ s.imported = Answered - r.base /\ s.rotated <= s.imported
    BY <1>2, <1>4, <1>14, <2>1, CountsTyped
  <2>3. r.base \in Int /\ Answered \in Int BY <1>4, AnsweredType DEF Runs, TInv, OthersOK
  <2>4. Balance(summary)' = Balance(t) BY <1>20
  <2>5. summary'.total = Balance(summary)' + Pending' BY <1>19, <1>20, <2>1, <2>2, <2>4
  <2>6. summary'.imported = Answered' - run'.base
    BY <1>6, <1>9, <1>13, <1>16, <1>19, <1>20, <2>2, <2>3
  <2>7. summary'.rotated <= summary'.imported
    BY <1>15, <1>16, <1>17, <1>19, <1>20, <2>2
  <2> QED BY <2>5, <2>6, <2>7 DEF Balanced
<1> QED BY <1>6, <1>7, <1>12, <1>13, <1>19, <1>20, <1>21, GoingHolds

\* The key of the row that is written is a key of the journal.
LEMMA KeyKnown ==
    ASSUME TInv, run.phase = "journal" PROVE Key(ThisRow) \in Key_ /\ run.rows # <<>>
<1>1. Going(run) BY PhaseGoes
<1>2. PICK row : row = ThisRow OBVIOUS
<1>3. PICK r : r = run /\ r \in Runs(r) /\ Passed(r) BY <1>1 DEF Going
<1>4. row.number \in Students /\ Image(row) \in Images BY <1>2, <1>3, HeadRow DEF ThisRow, Passed
<1> QED BY <1>2, <1>3, <1>4 DEF Key, Key_, Passed

LEMMA AppendHolds == ASSUME TInv, AppendJournal PROVE TInv'
<1>1. run.phase = "journal" BY DEF AppendJournal
<1>2. Going(run) /\ run # Off BY <1>1, PhaseGoes
<1>3. PICK key \in Key_ : key = Key(ThisRow) BY <1>1, KeyKnown
<1>4. journal' = Appended(journal, [key |-> key, whole |-> TRUE, ended |-> TRUE])
  BY <1>3 DEF AppendJournal, Line
<1>5. JournalOK' BY <1>4, JournalGrows DEF TInv
<1>6. UNCHANGED <<summary, exit, store, active, mishaps, troubles>> /\ run' = NextRow
  BY DEF AppendJournal
<1>7. StoreOK' /\ OthersOK' /\ Answered' = Answered
  BY <1>6 DEF TInv, StoreOK, OthersOK, Answered, Written, Images, Template_
<1>8. Going(run') /\ run'.phase = "rows" /\ run'.base = run.base
  <2>1. run.rows # <<>> BY <1>1, KeyKnown
  <2> QED BY <1>2, <1>6, <2>1, NextGoes DEF Going, NextRow
<1>9. Pending = 0 /\ Pending' = 0 BY <1>1, <1>8 DEF Pending
<1>10. Balance(summary)' = Balance(summary)
  <2>1. PICK s : s = summary OBVIOUS
  <2> QED BY <1>6, <2>1
<1>11. Balanced' BY <1>2, <1>6, <1>7, <1>8, <1>9, <1>10 DEF TInv, Balanced
<1>12. summary' \in Tally BY <1>6 DEF TInv
<1> QED BY <1>5, <1>7, <1>8, <1>11, <1>12, GoingHolds

LEMMA LineHolds == ASSUME TInv, NEW whole \in BOOLEAN, DieInLine(whole) PROVE TInv'
<1>1. run.phase = "journal" BY DEF DieInLine
<1>2. PICK key \in Key_ : key = Key(ThisRow) BY <1>1, KeyKnown
<1>3. journal' = Appended(journal, [key |-> key, whole |-> whole, ended |-> FALSE])
  BY <1>2 DEF DieInLine
<1>4. JournalOK' BY <1>3, JournalGrows DEF TInv
<1>5. UNCHANGED <<summary, store, active>> /\ run' = Off /\ exit' = "killed"
  BY DEF DieInLine, End
<1>6. mishaps' \in [deaths : Nat, torn : Nat, unanswered : Nat]
  <2>1. mishaps \in [deaths : Nat, torn : Nat, unanswered : Nat] BY DEF TInv, OthersOK
  <2>2. PICK a \in Nat, b \in Nat : a = mishaps.deaths + 1 /\ b = mishaps.torn + 1 BY <2>1
  <2>3. mishaps' = [mishaps EXCEPT !.deaths = a, !.torn = b] BY <2>2 DEF DieInLine
  <2> QED BY <2>1, <2>3
<1>7. troubles' \in Nat BY Troubled DEF DieInLine
<1>8. StoreOK' /\ OthersOK' BY <1>5, <1>6, <1>7 DEF TInv, StoreOK, OthersOK, Template_, Images
<1>9. summary' \in Tally BY <1>5 DEF TInv
<1> QED BY <1>4, <1>5, <1>8, <1>9, OffHolds

LEMMA DieHolds == ASSUME TInv, Die PROVE TInv'
<1>1. run' = Off /\ exit' \in {"3", "killed"} /\ UNCHANGED <<summary, store, journal, active>>
  BY DEF Die
<1>2. /\ mishaps' \in [deaths : Nat, torn : Nat, unanswered : Nat]
      /\ mishaps'.unanswered = mishaps.unanswered
  <2>1. mishaps \in [deaths : Nat, torn : Nat, unanswered : Nat] /\ mishaps.deaths \in Nat
    BY DEF TInv, OthersOK
  <2>2. PICK a \in Nat : a = mishaps.deaths + 1 BY <2>1
  <2>3. mishaps' = [mishaps EXCEPT !.deaths = a] BY <2>2 DEF Die
  <2> QED BY <2>1, <2>3
<1>3. troubles' \in Nat BY Troubled DEF Die
<1>4. StoreOK' /\ JournalOK' /\ OthersOK' BY <1>1, <1>2, <1>3, DataKept
<1>5. summary' \in Tally BY <1>1 DEF TInv
<1> QED BY <1>1, <1>4, <1>5, OffHolds

LEMMA ExitHolds == ASSUME TInv, Exit PROVE TInv'
<1>1. run' = Off /\ exit' = "0" /\ UNCHANGED <<summary, store, journal, active, mishaps, troubles>>
  BY DEF Exit, End
<1>2. StoreOK' /\ JournalOK' /\ OthersOK' BY <1>1, DataKept DEF TInv, OthersOK
<1>3. summary' \in Tally BY <1>1 DEF TInv
<1> QED BY <1>1, <1>2, <1>3, OffHolds

\* The report is made of the counters as they stand.
LEMMA FinishHolds == ASSUME TInv, Finish PROVE TInv'
<1>1. run.phase = "rows" BY DEF Finish
<1>2. Going(run) /\ run # Off BY <1>1, PhaseGoes
<1>3. UNCHANGED <<summary, exit, store, journal, active, mishaps, troubles>> BY DEF Finish
<1>4. StoreOK' /\ JournalOK' /\ OthersOK' /\ Answered' = Answered
  BY <1>3, DataKept DEF TInv, OthersOK
<1>5. run'.phase = "reported" /\ run'.base = run.base /\ run'.coverage.failed = Failed
  BY DEF Finish, Coverage
<1>6. Failed' = Failed
  <2>1. PICK s : s = summary OBVIOUS
  <2>2. Failed = Rejected(s.rejected) + s.db_errors + s.extraction_errors BY <2>1 DEF Failed
  <2>3. Failed' = Rejected(s.rejected) + s.db_errors + s.extraction_errors
    BY <1>3, <2>1 DEF Failed
  <2> QED BY <2>2, <2>3
<1>7. run.base \in Int BY <1>2 DEF Going, Runs
<1>8. RunOK' BY <1>5, <1>6, <1>7 DEF RunOK
<1>9. Pending = 0 /\ Pending' = 0 BY <1>1, <1>5 DEF Pending
<1>10. Balance(summary)' = Balance(summary)
  <2>1. PICK s : s = summary OBVIOUS
  <2> QED BY <1>3, <2>1
<1>11. Balanced' BY <1>2, <1>3, <1>4, <1>5, <1>9, <1>10 DEF TInv, Balanced
<1>12. summary' \in Tally BY <1>3 DEF TInv
<1> QED BY <1>4, <1>8, <1>11, <1>12 DEF TInv

\* What others do leaves the run and its counters alone.
LEMMA OthersHold ==
    ASSUME TInv, UNCHANGED <<run, summary>>, StoreOK', JournalOK', OthersOK',
           Answered' = Answered
    PROVE  TInv'
<1>1. Failed' = Failed
  <2>1. PICK s : s = summary OBVIOUS
  <2>2. Failed = Rejected(s.rejected) + s.db_errors + s.extraction_errors BY <2>1 DEF Failed
  <2>3. Failed' = Rejected(s.rejected) + s.db_errors + s.extraction_errors BY <2>1 DEF Failed
  <2> QED BY <2>2, <2>3
<1>2. Going(run)' <=> Going(run)
  <2>1. PICK r : r = run OBVIOUS
  <2> QED BY <2>1
<1>3. RunOK' BY <1>1, <1>2 DEF TInv, RunOK, Off
<1>4. Balance(summary)' = Balance(summary)
  <2>1. PICK s : s = summary OBVIOUS
  <2> QED BY <2>1
<1>5. Balanced' BY <1>4 DEF TInv, Balanced, Pending, Off
<1>6. summary' \in Tally BY DEF TInv
<1> QED BY <1>3, <1>5, <1>6 DEF TInv

LEMMA DeactivateHolds == ASSUME TInv, NEW s \in Students, Deactivate(s) PROVE TInv'
<1>1. /\ UNCHANGED <<run, summary, exit, store, journal, mishaps>> /\ active' = active \ {s}
  BY DEF Deactivate
<1>2. troubles' \in Nat BY Troubled DEF Deactivate
<1>3. StoreOK' /\ JournalOK' /\ Answered' = Answered
  BY <1>1 DEF TInv, StoreOK, JournalOK, Template_, Lines, Key_, Images, Answered, Written
<1>4. OthersOK' BY <1>1, <1>2 DEF TInv, OthersOK
<1> QED BY <1>1, <1>3, <1>4, OthersHold

LEMMA ApiHolds ==
    ASSUME TInv, NEW s \in Students, NEW pose \in Poses, EnrollThroughApi(s, pose) PROVE TInv'
<1>1. UNCHANGED <<run, summary, exit, journal, active, mishaps>> BY DEF EnrollThroughApi
<1>2. troubles' \in Nat BY Troubled DEF EnrollThroughApi
<1>3. StoreOK' /\ Answered' = Answered
  <2>1. store' = Rotated(s, pose, Unreadable) /\ StoreOK BY DEF EnrollThroughApi, TInv
  <2>2. Unreadable \in Bytes /\ Unreadable \notin Images BY DEF Bytes, Images
  <2>3. StoreOK' /\ Written(Images)' = Written(Images) + 0 BY <2>1, <2>2, StoreGrows
  <2>4. Written(Images) \in Nat BY WrittenType DEF TInv
  <2> QED BY <1>1, <2>3, <2>4 DEF Answered
<1>4. JournalOK' /\ OthersOK'
  BY <1>1, <1>2 DEF TInv, JournalOK, OthersOK, Lines, Key_, Images
<1> QED BY <1>1, <1>3, <1>4, OthersHold

LEMMA NothingHolds == ASSUME TInv, UNCHANGED vars PROVE TInv'
<1>1. UNCHANGED <<run, summary, exit, store, journal, active, mishaps, troubles>> BY DEF vars
<1>2. StoreOK' /\ JournalOK' /\ OthersOK' /\ Answered' = Answered
  BY <1>1, DataKept DEF TInv, OthersOK
<1> QED BY <1>1, <1>2, OthersHold

LEMMA TInit == ASSUME Init PROVE TInv
<1>1. RunOK BY DEF Init, RunOK
<1>2. summary \in Tally BY DEF Init, NoCounts, Tally
<1>3. StoreOK /\ JournalOK BY DEF Init, StoreOK, JournalOK
<1>4. OthersOK BY DEF Init, OthersOK
<1>5. Balanced BY DEF Init, Balanced
<1> QED BY <1>1, <1>2, <1>3, <1>4, <1>5 DEF TInv

LEMMA TStep == ASSUME TInv, [Next]_vars PROVE TInv'
<1>1. CASE Refuse BY <1>1, RefuseHolds
<1>2. ASSUME NEW input \in Inputs, NEW dry \in BOOLEAN, NEW overwrite \in BOOLEAN,
             Start(input, dry, overwrite)
      PROVE  TInv'
  BY <1>2, StartHolds
<1>3. CASE Work
  BY <1>3, RejectHolds, ResumeHolds, DecodeHolds, ExtractHolds, SkipHolds, UpsertHolds,
     AppendHolds, FinishHolds, ExitHolds
  DEF Work
<1>4. CASE TritonFails \/ ExtractionFails \/ UpsertFails \/ UpsertUnanswered \/ Die
  BY <1>4, TritonHolds, ExtractionFailsHolds, UpsertFailsHolds, UnansweredHolds, DieHolds
<1>5. ASSUME NEW whole \in BOOLEAN, DieInLine(whole) PROVE TInv' BY <1>5, LineHolds
<1>6. ASSUME NEW s \in Students, Deactivate(s) PROVE TInv' BY <1>6, DeactivateHolds
<1>7. ASSUME NEW s \in Students, NEW pose \in Poses, EnrollThroughApi(s, pose) PROVE TInv'
  BY <1>7, ApiHolds
<1>8. CASE UNCHANGED vars BY <1>8, NothingHolds
<1>9. CASE StartForReal BY <1>2, <1>9 DEF StartForReal
<1> QED BY <1>1, <1>2, <1>3, <1>4, <1>5, <1>6, <1>7, <1>8, <1>9 DEF Next

----------------------------------------------------------------------------
(* The theorems *)

\* Every variable has its type, whatever is imported: the rows of a run are rows of its
\* input with a known pose and path, no row is tried more often than the retries allow, a
\* dry run never reaches the database, and only keys of known students are journaled.
THEOREM ImporterTypes == Spec => []TypeOK
<1>1. ASSUME TInv PROVE TypeOK
  <2> USE <1>1 DEF TInv
  <2>1. \/ run = Off
        \/ run.phase = "reported"
        \/ run \in Run /\ (run.dry => run.phase \in {"rows", "extract"})
    BY DEF RunOK, Going, Runs, Run
  <2>2. DOMAIN summary = DOMAIN NoCounts BY DEF Tally, NoCounts
  <2>3. /\ \A f \in DOMAIN summary \ {"rejected"} : summary[f] \in Nat
        /\ summary.rejected \in [Codes -> Nat]
    BY DEF Tally
  <2>4. store \in Seq(Template_) BY DEF StoreOK
  <2>5. journal \in Seq([key : Key_, whole : BOOLEAN, ended : BOOLEAN])
    BY DEF JournalOK, Lines
  <2> QED BY <2>1, <2>2, <2>3, <2>4, <2>5 DEF TypeOK, OthersOK
<1> QED BY <1>1, TInit, TStep, PTL DEF Spec

\* The report of a run accounts for every row and every issue of its input exactly once, and
\* what it calls imported is what it committed and was told so, however often Triton or the
\* database failed.
THEOREM ReportAddsUp == Spec => []CountsAddUp
<1>1. ASSUME TInv PROVE CountsAddUp
  <2>1. SUFFICES ASSUME run.phase = "reported"
                 PROVE  /\ summary.total = summary.imported + summary.would_import
                               + summary.skipped_resumed + summary.skipped_active_exists
                               + run.coverage.failed
                        /\ summary.imported = Answered - run.base
                        /\ summary.rotated <= summary.imported
    BY DEF CountsAddUp
  <2>2. run # Off BY <2>1 DEF Off
  <2>3. run.coverage.failed = Failed BY <1>1, <2>1, <2>2 DEF TInv, RunOK, Going, Runs
  <2>4. Pending = 0 BY <2>1 DEF Pending
  <2>5. PICK s \in Tally : s = summary BY <1>1, <2>2, CountsTyped
  <2>6. /\ s.imported \in Nat /\ s.would_import \in Nat /\ s.skipped_resumed \in Nat
        /\ s.skipped_active_exists \in Nat /\ s.db_errors \in Nat /\ s.extraction_errors \in Nat
    BY DEF Tally
  <2>7. PICK m \in Nat : m = Rejected(s.rejected) BY RejectedType DEF Tally
  <2>8. Failed = m + s.db_errors + s.extraction_errors BY <2>5, <2>7 DEF Failed
  <2>9. Balance(s) = s.imported + s.would_import + s.skipped_resumed + s.skipped_active_exists
                     + m + s.db_errors + s.extraction_errors
    BY <2>7 DEF Balance
  <2>10. /\ s.total = Balance(s) + 0 /\ Balance(s) \in Nat
         /\ s.imported = Answered - run.base /\ s.rotated <= s.imported
    BY <1>1, <2>2, <2>4, <2>5, CountsTyped
  <2>11. s.total = s.imported + s.would_import + s.skipped_resumed + s.skipped_active_exists
                   + Failed
    BY <2>6, <2>8, <2>9, <2>10
  <2> QED BY <2>3, <2>5, <2>10, <2>11
<1> QED BY <1>1, TInit, TStep, PTL DEF Spec

----------------------------------------------------------------------------
(* How often a key can be imported *)

LEMMA GreatestOf ==
    ASSUME NEW S, IsFiniteSet(S), S # {}, NEW f \in [S -> Nat]
    PROVE  \E x \in S : \A y \in S : f[y] <= f[x]
<1> DEFINE T == {X \in SUBSET S : X # {} /\ \A x \in X : \E y \in X : ~(f[y] <= f[x])}
<1>1. SUFFICES ASSUME S \in T PROVE FALSE OBVIOUS
<1>2. IsWellFoundedOn(StrictSubsetOrdering(S), SUBSET S)
  BY FS_StrictSubsetOrderingWellFounded, FS_FiniteSubsetsOfFinite
<1>3. PICK X \in T : \A Y \in T : <<Y, X>> \notin StrictSubsetOrdering(S)
  <2>1. T \subseteq SUBSET S /\ T # {} BY <1>1
  <2> HIDE DEF T
  <2> QED BY <1>2, <2>1, WFMin
<1>4. PICK x \in X : x \in S BY <1>3
<1>5. PICK Y : Y = X \ {x} OBVIOUS
<1>6. Y \notin T
  <2>1. <<Y, X>> \in StrictSubsetOrdering(S) BY <1>3, <1>4, <1>5 DEF StrictSubsetOrdering
  <2> QED BY <1>3, <2>1
<1>7. \A z \in X : f[z] \in Nat BY <1>3
<1>8. CASE Y = {}
  <2>1. X = {x} BY <1>4, <1>5, <1>8
  <2> QED BY <1>3, <1>7, <2>1
<1>9. CASE Y # {}
  <2>1. PICK m \in Y : \A y \in Y : f[y] <= f[m] BY <1>3, <1>5, <1>6, <1>9
  <2>2. m \in X /\ \A y \in X : y = x \/ y \in Y BY <1>5, <2>1
  <2>3. PICK z \in {x, m} : f[x] <= f[z] /\ f[m] <= f[z] BY <1>4, <1>7, <2>2
  <2>4. z \in X BY <1>4, <2>2, <2>3
  <2>5. \A y \in X : f[y] <= f[z] BY <1>7, <2>1, <2>2, <2>3, <2>4
  <2> QED BY <1>3, <2>4, <2>5
<1> QED BY <1>8, <1>9

Alike(rows, key) ==
    {i \in DOMAIN rows : rows[i].number = key.number /\ Photo[rows[i].image] = key.bytes}
Matches(rows, key) == Cardinality(Alike(rows, key))
IsAlike(row, key) == row.number = key.number /\ Photo[row.image] = key.bytes

LEMMA MatchesType ==
    ASSUME NEW S, NEW rows \in Seq(S), NEW key
    PROVE  IsFiniteSet(Alike(rows, key)) /\ Matches(rows, key) \in Nat
<1>1. Len(rows) \in Nat /\ DOMAIN rows = 1 .. Len(rows) OBVIOUS
<1>2. IsFiniteSet(DOMAIN rows) BY <1>1, FS_Interval
<1>3. Alike(rows, key) \in SUBSET DOMAIN rows BY DEF Alike
<1>4. IsFiniteSet(Alike(rows, key)) BY <1>2, <1>3, FS_Subset
<1> QED BY <1>4, FS_CardinalityType DEF Matches

\* No input names the same bytes for the same student more often than Copies says.
LEMMA CopiesBound ==
    ASSUME NEW key \in Key_
    PROVE  /\ Copies[key] \in Nat
           /\ \A input \in Inputs : Matches(Rows(input), key) <= Copies[key]
<1>1. PICK f : f = [input \in Inputs |-> Matches(Rows(input), key)] OBVIOUS
<1>2. \A input \in Inputs : Matches(Rows(input), key) \in Nat BY InputParsed, MatchesType
<1>3. f \in [Inputs -> Nat] BY <1>1, <1>2
<1>4. PICK most \in Inputs : \A input \in Inputs : f[input] <= f[most]
  <2>1. Inputs # {} /\ IsFiniteSet(Inputs) BY ImporterAssumption
  <2> QED BY <1>3, <2>1, GreatestOf
<1>5. PICK F : F = {f[input] : input \in Inputs} OBVIOUS
<1>6. Copies[key] = Max(F)
  <2>1. \A input \in Inputs : f[input] = Matches(Rows(input), key) BY <1>1
  <2>2. F = {Matches(Rows(input), key) : input \in Inputs} BY <1>5, <2>1
  <2> QED BY <2>2 DEF Copies, Matches, Alike
<1>7. F \subseteq Nat /\ f[most] \in F /\ \A y \in F : f[most] >= y BY <1>3, <1>4, <1>5
<1>8. Max(F) \in F /\ \A y \in F : Max(F) >= y BY <1>7 DEF Max
<1>9. \A input \in Inputs : Matches(Rows(input), key) \in F BY <1>1, <1>5
<1> QED BY <1>6, <1>7, <1>8, <1>9

\* The rows after the head are the rows but for the head.
LEMMA TailMatches ==
    ASSUME NEW S, NEW rows \in Seq(S), rows # <<>>, NEW key
    PROVE  /\ Matches(rows, key)
                = Matches(Tail(rows), key) + IF IsAlike(Head(rows), key) THEN 1 ELSE 0
           /\ Matches(rows, key) \in Nat /\ Matches(Tail(rows), key) \in Nat
<1>1. PICK rest \in Seq(S) : rest = Tail(rows)
  <2>1. Tail(rows) \in Seq(S) OBVIOUS
  <2> QED BY <2>1
<1>2. PICK n \in Nat \ {0} : n = Len(rows) OBVIOUS
<1>3. /\ Len(rest) = n - 1 /\ DOMAIN rest = 1 .. n - 1 /\ DOMAIN rows = 1 .. n
      /\ \A i \in 1 .. n - 1 : rest[i] = rows[i + 1]
  BY <1>1, <1>2
<1>4. PICK A : A = Alike(rows, key) OBVIOUS
<1>5. PICK B : B = Alike(rest, key) OBVIOUS
<1>6. IsFiniteSet(A) /\ IsFiniteSet(B) BY <1>4, <1>5, MatchesType
<1>7. PICK f : f = [i \in B |-> i + 1] OBVIOUS
<1>8. A \subseteq 1 .. n /\ B \subseteq 1 .. n - 1 BY <1>3, <1>4, <1>5 DEF Alike
<1>9. \A i \in 1 .. n - 1 : i \in B <=> i + 1 \in A
  <2>1. ASSUME NEW i \in 1 .. n - 1 PROVE i \in B <=> i + 1 \in A
    <3>1. i + 1 \in 1 .. n /\ rest[i] = rows[i + 1] BY <1>3
    <3> QED BY <1>3, <1>4, <1>5, <3>1 DEF Alike
  <2> QED BY <2>1
<1>10. f \in Bijection(B, A \ {1})
  <2>1. \A i \in B : f[i] = i + 1 /\ i \in Nat /\ i # 0 /\ f[i] \in A \ {1} BY <1>7, <1>8, <1>9
  <2>2. f \in [B -> A \ {1}] BY <1>7, <2>1
  <2>3. \A i, j \in B : f[i] = f[j] => i = j BY <2>1
  <2>4. ASSUME NEW j \in A \ {1} PROVE \E i \in B : f[i] = j
    <3>1. j \in 1 .. n /\ j # 1 BY <1>8
    <3>2. j - 1 \in 1 .. n - 1 /\ (j - 1) + 1 = j BY <3>1
    <3>3. j - 1 \in B BY <1>9, <3>2
    <3> QED BY <2>1, <3>2, <3>3
  <2> QED BY <2>2, <2>3, <2>4 DEF Bijection, Injection, Surjection, IsInjective
<1>11. Cardinality(A \ {1}) = Cardinality(B)
  <2>1. ExistsBijection(B, A \ {1}) BY <1>10 DEF ExistsBijection
  <2> QED BY <1>6, <2>1, FS_Bijection
<1>12. /\ Cardinality(A) \in Nat /\ Cardinality(B) \in Nat
       /\ Cardinality(A \ {1}) = IF 1 \in A THEN Cardinality(A) - 1 ELSE Cardinality(A)
  BY <1>6, FS_CardinalityType, FS_RemoveElement
<1>13. 1 \in A <=> IsAlike(Head(rows), key)
  <2>1. 1 \in DOMAIN rows /\ Head(rows) = rows[1] BY <1>2, <1>3
  <2> QED BY <1>4, <2>1 DEF Alike, IsAlike
<1> QED BY <1>1, <1>4, <1>5, <1>11, <1>12, <1>13 DEF Matches

----------------------------------------------------------------------------
(* The budget of a key *)

Times(key) == Cardinality(WrittenFor(key))
Budget(key) == Copies[key] * (1 + Causes)

\* What the next runs may still import: everything again while the journal does not name the
\* key, and everything again after the line that a torn one takes with it.
Unnamed(key) == IF key \in LoadJournal(journal) THEN 0 ELSE Copies[key]
Spoiled(key) == IF Torn(journal) THEN Copies[key] ELSE 0

\* A run that may import the key: its rows that are not written yet, and the one in hand.
Fresh(key) == run.phase \in Busy /\ key \notin run.journaled
Left(key) == Matches(IF run.phase = "journal" THEN Tail(run.rows) ELSE run.rows, key)
Vouched(key) ==
    \/ key \in LoadJournal(journal)
    \/ run.phase = "journal" /\ Key(ThisRow) = key

Sound(key) ==
    IF Fresh(key)
      THEN /\ Left(key) \in Nat /\ Left(key) <= Copies[key]
           /\ \/ Times(key) + Copies[key] + Spoiled(key) <= Budget(key)
              \/ Vouched(key) /\ Times(key) + Left(key) + Spoiled(key) <= Budget(key)
      ELSE Times(key) + Unnamed(key) + Spoiled(key) <= Budget(key)

SInv == TInv /\ \A key \in Key_ : Sound(key)

LEMMA BudgetType ==
    ASSUME TInv, NEW key \in Key_
    PROVE  /\ Copies[key] \in Nat /\ Times(key) \in Nat /\ Budget(key) \in Nat
           /\ Unnamed(key) \in {0, Copies[key]} /\ Spoiled(key) \in {0, Copies[key]}
<1>1. Copies[key] \in Nat BY CopiesBound
<1>2. Times(key) \in Nat
  <2>1. WrittenFor(key) \in SUBSET DOMAIN store BY DEF WrittenFor
  <2> QED BY <2>1, Indexed DEF Times, TInv
<1>3. Causes \in Nat BY DEF TInv, OthersOK, Causes
<1>4. PICK d \in Nat : d = 1 + Causes BY <1>3
<1>5. Budget(key) = Copies[key] * d BY <1>4 DEF Budget
<1>6. Copies[key] * d \in Nat BY <1>1
<1> QED BY <1>1, <1>2, <1>5, <1>6 DEF Unnamed, Spoiled

\* Every cause adds the copies once; a torn line is a death and one more.
LEMMA BudgetGrows ==
    ASSUME TInv, NEW key \in Key_, NEW a \in {0, 1}, NEW b \in {0, 1},
           Causes' = Causes + a + b
    PROVE  Budget(key)' = Budget(key) + (IF a = 1 THEN Copies[key] ELSE 0)
                                      + (IF b = 1 THEN Copies[key] ELSE 0)
<1>1. PICK c \in Nat : c = Copies[key] BY CopiesBound
<1>2. Causes \in Nat BY DEF TInv, OthersOK, Causes
<1>3. PICK d \in Nat : d = 1 + Causes BY <1>2
<1>4. 1 + Causes' = d + a + b BY <1>2, <1>3
<1>5. Copies[key]' = c BY <1>1 DEF Copies, Key_, Images, Rows, Parse, ParseManifest, ScanFolder
<1>6. Budget(key) = c * d /\ Budget(key)' = c * (d + a + b) BY <1>1, <1>3, <1>4, <1>5 DEF Budget
<1>7. c * (d + 1) = c * d + c /\ c * (d + 2) = c * d + c + c OBVIOUS
<1>8. d + a + b = IF a = 1 /\ b = 1 THEN d + 2 ELSE IF a = 1 \/ b = 1 THEN d + 1 ELSE d
  OBVIOUS
<1>9. c * d \in Nat OBVIOUS
<1> QED BY <1>1, <1>6, <1>7, <1>8, <1>9

LEMMA OneCause ==
    ASSUME TInv, NEW key \in Key_, Causes' = Causes + 1
    PROVE  Budget(key)' = Budget(key) + Copies[key]
<1>1. Causes \in Nat BY DEF TInv, OthersOK, Causes
<1>2. Causes' = Causes + 1 + 0 BY <1>1
<1>3. Budget(key)' = Budget(key) + Copies[key] + 0 BY <1>2, BudgetGrows
<1> QED BY <1>3, BudgetType

\* A rotation writes its own key once more, and no other.
LEMMA TimesGrow ==
    ASSUME StoreOK, NEW number \in Students, NEW pose \in Poses, NEW bytes \in Bytes,
           store' = Rotated(number, pose, bytes), NEW key
    PROVE  Times(key)' = Times(key) + IF number = key.number /\ bytes = key.bytes THEN 1 ELSE 0
<1>1. GrownBy(store', Template(number, pose, bytes)) BY StoreGrows
<1>2. PICK old : old = WrittenFor(key) OBVIOUS
<1>3. PICK new : new = WrittenFor(key)' OBVIOUS
<1>4. PICK last : last = Len(store) + 1 OBVIOUS
<1>5. old \in SUBSET DOMAIN store BY <1>2 DEF WrittenFor
<1>6. IsFiniteSet(old) /\ Cardinality(old) \in Nat /\ last \notin DOMAIN store
  <2>1. Len(store) \in Nat /\ DOMAIN store = 1 .. Len(store) BY <1>5, Indexed
  <2>2. last \notin DOMAIN store BY <1>4, <2>1
  <2> QED BY <1>5, <2>2, Indexed
<1>7. /\ DOMAIN store' = DOMAIN store \cup {last}
      /\ \A i \in DOMAIN store : store'[i].number = store[i].number
                                /\ store'[i].bytes = store[i].bytes
      /\ store'[last].number = number /\ store'[last].bytes = bytes
  BY <1>1, <1>4 DEF GrownBy, Template
<1>8. Times(key) = Cardinality(old) /\ Times(key)' = Cardinality(new) BY <1>2, <1>3 DEF Times
<1>9. CASE number = key.number /\ bytes = key.bytes
  <2>1. new = old \cup {last} BY <1>2, <1>3, <1>7, <1>9 DEF WrittenFor
  <2>2. Cardinality(new) = Cardinality(old) + 1 BY <1>5, <1>6, <2>1, FS_AddElement
  <2> QED BY <1>8, <1>9, <2>2
<1>10. CASE ~(number = key.number /\ bytes = key.bytes)
  <2>1. new = old BY <1>2, <1>3, <1>6, <1>7, <1>10 DEF WrittenFor
  <2> QED BY <1>6, <1>8, <1>10, <2>1
<1> QED BY <1>9, <1>10

LEMMA SameCopies == ASSUME NEW key \in Key_ PROVE Copies[key]' = Copies[key]
BY DEF Copies, Key_, Images, Rows, Parse, ParseManifest, ScanFolder

\* What the budget is compared with, where the data stay as they are.
LEMMA SameDebts ==
    ASSUME UNCHANGED <<store, journal>>, NEW key \in Key_
    PROVE  /\ Times(key)' = Times(key) /\ Unnamed(key)' = Unnamed(key)
           /\ Spoiled(key)' = Spoiled(key) /\ LoadJournal(journal)' = LoadJournal(journal)
<1>1. LoadJournal(journal)' = LoadJournal(journal)
  <2>1. PICK j : j = journal OBVIOUS
  <2> QED BY <2>1
<1>2. Torn(journal)' = Torn(journal)
  <2>1. PICK j : j = journal OBVIOUS
  <2> QED BY <2>1
<1>3. Copies[key]' = Copies[key] BY SameCopies
<1>4. Unnamed(key)' = Unnamed(key) BY <1>1, <1>3 DEF Unnamed
<1>5. Spoiled(key)' = Spoiled(key) BY <1>2, <1>3 DEF Spoiled
<1>6. Times(key)' = Times(key) BY DEF Times, WrittenFor
<1> QED BY <1>1, <1>4, <1>5, <1>6

LEMMA SameBudget ==
    ASSUME TInv, UNCHANGED mishaps, NEW key \in Key_ PROVE Budget(key)' = Budget(key)
<1>1. Copies[key]' = Copies[key] BY SameCopies
<1>2. PICK d : d = 1 + Causes OBVIOUS
<1>3. Causes' = Causes BY DEF Causes
<1> QED BY <1>1, <1>2, <1>3 DEF Budget

\* The run ends, in good order or with a death: what it may have left undone is paid for.
LEMMA EndSound ==
    ASSUME TInv, NEW key \in Key_, Sound(key), UNCHANGED <<store, journal>>, ~Fresh(key)',
           \/ Budget(key)' = Budget(key) /\ run.phase # "journal"
           \/ Budget(key)' = Budget(key) + Copies[key]
    PROVE  Sound(key)'
<1>1. /\ Times(key)' = Times(key) /\ Unnamed(key)' = Unnamed(key) /\ Spoiled(key)' = Spoiled(key)
  BY SameDebts
<1>2. PICK c \in Nat : c = Copies[key] BY BudgetType
<1>3. PICK w \in Nat : w = Times(key) BY BudgetType
<1>4. PICK b \in Nat : b = Budget(key) BY BudgetType
<1>5. PICK u \in {0, c} : u = Unnamed(key) BY <1>2, BudgetType
<1>6. PICK t \in {0, c} : t = Spoiled(key) BY <1>2, BudgetType
<1>7. PICK b2 \in {b, b + c} : b2 = Budget(key)' BY <1>2, <1>4
<1>8. w + u + t <= b2
  <2>1. CASE ~Fresh(key)
    <3>1. w + u + t <= b BY <1>3, <1>4, <1>5, <1>6, <2>1 DEF Sound
    <3> QED BY <1>7, <3>1
  <2>2. CASE Fresh(key) /\ w + c + t <= b BY <1>7, <2>2
  <2>3. CASE Fresh(key) /\ ~(w + c + t <= b)
    <3>1. PICK l \in Nat : l = Left(key) /\ l <= c BY <1>2, <2>3 DEF Sound
    <3>2. Vouched(key) /\ w + l + t <= b BY <1>2, <1>3, <1>4, <1>6, <2>3, <3>1 DEF Sound
    <3>3. CASE key \in LoadJournal(journal)
      <4>1. u = 0 BY <1>5, <3>3 DEF Unnamed
      <4> QED BY <1>7, <3>1, <3>2, <4>1
    <3>4. CASE run.phase = "journal"
      <4>1. b2 = b + c BY <1>2, <1>4, <1>7, <3>4
      <4> QED BY <3>1, <3>2, <4>1
    <3> QED BY <3>2, <3>3, <3>4 DEF Vouched
  <2> QED BY <2>1, <2>2, <2>3
<1> QED BY <1>1, <1>3, <1>5, <1>6, <1>7, <1>8 DEF Sound

\* Rows that go by without a template leave fewer rows.
LEMMA RowSound ==
    ASSUME TInv, NEW key \in Key_, Sound(key), UNCHANGED <<store, journal, mishaps>>,
           run.phase \in {"rows", "extract", "write"}, run'.phase \in {"rows", "extract", "write"},
           run'.journaled = run.journaled,
           run'.rows = run.rows \/ (run.rows # <<>> /\ run'.rows = Tail(run.rows))
    PROVE  Sound(key)'
<1>1. /\ Times(key)' = Times(key) /\ Unnamed(key)' = Unnamed(key) /\ Spoiled(key)' = Spoiled(key)
      /\ LoadJournal(journal)' = LoadJournal(journal)
  BY SameDebts
<1>2. Budget(key)' = Budget(key) /\ Copies[key]' = Copies[key] BY SameBudget, SameCopies
<1>3. Fresh(key)' <=> Fresh(key) BY DEF Fresh, Busy
<1>4. CASE ~Fresh(key) BY <1>1, <1>2, <1>3, <1>4 DEF Sound
<1>5. CASE Fresh(key)
  <2>1. Going(run) BY PhaseGoes
  <2>2. PICK rows \in Seq(RowsOfInputs) : rows = run.rows BY <2>1 DEF Going, Runs
  <2>3. Left(key) = Matches(rows, key) BY <2>2 DEF Left
  <2>4. PICK rest : rest = run'.rows OBVIOUS
  <2>5. Left(key)' = Matches(rest, key) BY <2>4 DEF Left
  <2>6. Matches(rest, key) \in Nat /\ Matches(rest, key) <= Matches(rows, key)
    <3>1. Matches(rows, key) \in Nat BY MatchesType
    <3>2. CASE rest = rows BY <3>1, <3>2
    <3>3. CASE rows # <<>> /\ rest = Tail(rows) BY <3>3, TailMatches
    <3> QED BY <2>2, <2>4, <3>2, <3>3
  <2>7. PICK l \in Nat, l2 \in Nat : l = Left(key) /\ l2 = Left(key)' /\ l2 <= l
    <3>1. Matches(rows, key) \in Nat BY MatchesType
    <3> QED BY <2>3, <2>5, <2>6, <3>1
  <2>8. PICK c \in Nat : c = Copies[key] BY BudgetType
  <2>9. PICK w \in Nat : w = Times(key) BY BudgetType
  <2>10. PICK b \in Nat : b = Budget(key) BY BudgetType
  <2>11. PICK t \in {0, c} : t = Spoiled(key) BY <2>8, BudgetType
  <2>12. l <= c /\ (w + c + t <= b \/ (Vouched(key) /\ w + l + t <= b))
    BY <1>5, <2>7, <2>8, <2>9, <2>10, <2>11 DEF Sound
  <2>13. Vouched(key) => Vouched(key)' BY <1>1 DEF Vouched
  <2>14. l2 <= c /\ (w + c + t <= b \/ (Vouched(key)' /\ w + l2 + t <= b))
    <3>1. l2 <= c /\ (w + l + t <= b => w + l2 + t <= b) BY <2>7, <2>12
    <3> QED BY <2>12, <2>13, <3>1
  <2> QED BY <1>1, <1>2, <1>3, <1>5, <2>7, <2>8, <2>9, <2>10, <2>11, <2>14 DEF Sound
<1> QED BY <1>4, <1>5

\* A run that reads a journal without the key has the rows of its input before it.
LEMMA StartSound ==
    ASSUME TInv, NEW key \in Key_, Sound(key), NEW input \in Inputs,
           NEW dry \in BOOLEAN, NEW overwrite \in BOOLEAN, Start(input, dry, overwrite)
    PROVE  Sound(key)'
<1>1. UNCHANGED <<store, journal, mishaps>> /\ run = Off BY DEF Start
<1>2. /\ Times(key)' = Times(key) /\ Unnamed(key)' = Unnamed(key) /\ Spoiled(key)' = Spoiled(key)
  BY <1>1, SameDebts
<1>3. Budget(key)' = Budget(key) /\ Copies[key]' = Copies[key] BY <1>1, SameBudget, SameCopies
<1>4. ~Fresh(key) BY <1>1 DEF Fresh, Off, Busy
<1>5. Times(key) + Unnamed(key) + Spoiled(key) <= Budget(key) BY <1>4 DEF Sound
<1>6. /\ run'.phase = "rows" /\ run'.journaled = LoadJournal(journal)
      /\ run'.rows = Rows(input)
  BY DEF Start, Rows
<1>7. Left(key)' = Matches(Rows(input), key) BY <1>6 DEF Left
<1>8. Matches(Rows(input), key) \in Nat BY InputParsed, MatchesType
<1>9. Matches(Rows(input), key) <= Copies[key] BY CopiesBound
<1>10. CASE key \in LoadJournal(journal)
  <2>1. ~Fresh(key)' BY <1>6, <1>10 DEF Fresh
  <2> QED BY <1>2, <1>3, <1>5, <2>1 DEF Sound
<1>11. CASE key \notin LoadJournal(journal)
  <2>1. Unnamed(key) = Copies[key] BY <1>11 DEF Unnamed
  <2>2. Times(key) + Copies[key] + Spoiled(key) <= Budget(key) BY <1>5, <2>1
  <2>3. Fresh(key)' BY <1>6, <1>11 DEF Fresh, Busy
  <2>4. PICK l \in Nat : l = Left(key)' BY <1>7, <1>8
  <2>5. l <= Copies[key]' BY <1>3, <1>7, <1>9, <2>4
  <2>6. Times(key)' + Copies[key]' + Spoiled(key)' <= Budget(key)' BY <1>2, <1>3, <2>2
  <2> QED BY <2>3, <2>4, <2>5, <2>6 DEF Sound
<1> QED BY <1>10, <1>11

\* The row is written: once more if it is about the key, and then it is in hand.
LEMMA UpsertSound == ASSUME TInv, NEW key \in Key_, Sound(key), Upsert PROVE Sound(key)'
<1>1. run.phase = "write" BY DEF Upsert
<1>2. Going(run) BY <1>1, PhaseGoes
<1>3. PICK row : row = ThisRow OBVIOUS
<1>4. PICK r : r = run /\ r \in Runs(r) /\ Passed(r) BY <1>1, <1>2 DEF Going
<1>5. /\ row.number \in Students /\ row.pose \in Poses /\ Image(row) \in Images
      /\ r.rows # <<>> /\ row = Head(r.rows) /\ Key(row) \notin r.journaled
  BY <1>3, <1>4, HeadRow DEF ThisRow, Passed
<1>6. UNCHANGED <<journal, mishaps>> /\ run' = [r EXCEPT !.phase = "journal"]
  BY <1>4 DEF Upsert
<1>7. run'.phase = "journal" /\ run'.rows = r.rows /\ run'.journaled = r.journaled
  BY <1>4, <1>6 DEF Runs
<1>8. Times(key)' = Times(key) + IF row.number = key.number /\ Image(row) = key.bytes THEN 1 ELSE 0
  <2>1. PICK bytes \in Bytes : bytes = Image(row) BY <1>5 DEF Bytes
  <2>2. store' = Rotated(row.number, row.pose, bytes) BY <1>3, <2>1 DEF Upsert
  <2>3. StoreOK BY DEF TInv
  <2> QED BY <1>5, <2>1, <2>2, <2>3, TimesGrow
<1>9. LoadJournal(journal)' = LoadJournal(journal)
  <2>1. PICK j : j = journal OBVIOUS
  <2> QED BY <1>6, <2>1
<1>10. Torn(journal)' = Torn(journal)
  <2>1. PICK j : j = journal OBVIOUS
  <2> QED BY <1>6, <2>1
<1>11. Budget(key)' = Budget(key) /\ Copies[key]' = Copies[key]
  BY <1>6, SameBudget, SameCopies
<1>12. Unnamed(key)' = Unnamed(key) /\ Spoiled(key)' = Spoiled(key)
  BY <1>9, <1>10, <1>11 DEF Unnamed, Spoiled
<1>13. Fresh(key)' <=> Fresh(key) BY <1>1, <1>4, <1>7 DEF Fresh, Busy
<1>14. IsAlike(row, key) <=> row.number = key.number /\ Image(row) = key.bytes
  BY DEF IsAlike, Image
<1>15. IsAlike(row, key) => Key(row) = key BY <1>14 DEF Key, Key_
<1>16. CASE ~Fresh(key)
  <2>1. ~IsAlike(row, key) BY <1>1, <1>4, <1>5, <1>15, <1>16 DEF Fresh, Busy
  <2>2. Times(key)' = Times(key)
    <3>1. Times(key) \in Nat BY BudgetType
    <3> QED BY <1>8, <1>14, <2>1, <3>1
  <2> QED BY <1>11, <1>12, <1>13, <1>16, <2>2 DEF Sound
<1>17. CASE Fresh(key)
  <2>1. PICK rows \in Seq(RowsOfInputs) : rows = r.rows /\ rows # <<>> BY <1>4, <1>5 DEF Runs
  <2>2. PICK m \in {0, 1} : m = IF IsAlike(row, key) THEN 1 ELSE 0 OBVIOUS
  <2>3. Left(key) = Matches(rows, key) BY <1>1, <1>4, <2>1 DEF Left
  <2>4. Left(key)' = Matches(Tail(rows), key) BY <1>7, <2>1 DEF Left
  <2>5. PICK l \in Nat, l2 \in Nat : l = Left(key) /\ l2 = Left(key)' /\ l = l2 + m
    <3>1. Matches(rows, key) = Matches(Tail(rows), key) + m BY <1>5, <2>1, <2>2, TailMatches
    <3>2. Matches(rows, key) \in Nat /\ Matches(Tail(rows), key) \in Nat BY <2>1, TailMatches
    <3> QED BY <2>3, <2>4, <3>1, <3>2
  <2>6. PICK c \in Nat : c = Copies[key] BY BudgetType
  <2>7. PICK w \in Nat : w = Times(key) BY BudgetType
  <2>8. PICK b \in Nat : b = Budget(key) BY BudgetType
  <2>9. PICK t \in {0, c} : t = Spoiled(key) BY <2>6, BudgetType
  <2>10. PICK w2 \in Nat : w2 = Times(key)' /\ w2 = w + m BY <1>8, <1>14, <2>2, <2>7
  <2>11. l <= c /\ (w + c + t <= b \/ (Vouched(key) /\ w + l + t <= b))
    BY <1>17, <2>5, <2>6, <2>7, <2>8, <2>9 DEF Sound
  <2>12. l2 <= c /\ (w2 + c + t <= b \/ (Vouched(key)' /\ w2 + l2 + t <= b))
    <3>1. CASE m = 0
      <4>1. w2 = w /\ l2 = l BY <2>5, <2>10, <3>1
      <4>2. Vouched(key) => Vouched(key)' BY <1>1, <1>9 DEF Vouched
      <4> QED BY <2>11, <4>1, <4>2
    <3>2. CASE m = 1
      <4>1. Key(ThisRow)' = key
        <5>1. ThisRow' = row BY <1>5, <1>7 DEF ThisRow
        <5>2. Key(row) = key BY <1>15, <2>2, <3>2
        <5>3. Key(ThisRow)' = Key(row) BY <5>1 DEF Key, Image
        <5> QED BY <5>2, <5>3
      <4>2. Vouched(key)' BY <1>7, <4>1 DEF Vouched
      <4>3. l2 <= c /\ w2 + l2 + t <= b BY <2>5, <2>10, <2>11, <3>2
      <4> QED BY <4>2, <4>3
    <3> QED BY <3>1, <3>2
  <2> QED BY <1>11, <1>12, <1>13, <1>17, <2>5, <2>6, <2>8, <2>9, <2>10, <2>12 DEF Sound
<1> QED BY <1>16, <1>17

\* What a line does to the journal, which it leaves torn when it lacks its end.
LEMMA LineJournal ==
    ASSUME TInv, run.phase = "journal", NEW whole \in BOOLEAN, NEW ended \in BOOLEAN,
           journal' = Appended(journal, [key |-> Key(ThisRow), whole |-> whole, ended |-> ended])
    PROVE  /\ Torn(journal') <=> ~ended
           /\ ~Torn(journal) => /\ LoadJournal(journal) \subseteq LoadJournal(journal')
                                /\ whole => Key(ThisRow) \in LoadJournal(journal')
<1>1. PICK key \in Key_ : key = Key(ThisRow) BY KeyKnown
<1>2. PICK line : line = [key |-> key, whole |-> whole, ended |-> ended] OBVIOUS
<1>3. line \in Lines(Key_) /\ line.key = key /\ line.whole = whole /\ line.ended = ended
  BY <1>2 DEF Lines
<1>4. journal' = Appended(journal, line) BY <1>1, <1>2
<1>5. journal \in Seq(Lines(Key_)) BY DEF TInv, JournalOK
<1>6. /\ Torn(Appended(journal, line)) <=> ~line.ended
      /\ ~Torn(journal) => /\ LoadJournal(journal) \subseteq LoadJournal(Appended(journal, line))
                           /\ line.whole => line.key \in LoadJournal(Appended(journal, line))
  BY <1>3, <1>5, AppendedKeys
<1> QED BY <1>1, <1>3, <1>4, <1>6

\* The line of the row in hand: it names the key for later runs, unless it continues a torn
\* line, and then the torn line is paid for.
LEMMA AppendSound == ASSUME TInv, NEW key \in Key_, Sound(key), AppendJournal PROVE Sound(key)'
<1>1. run.phase = "journal" BY DEF AppendJournal
<1>2. Going(run) BY <1>1, PhaseGoes
<1>3. PICK r : r = run /\ r \in Runs(r) BY <1>2 DEF Going
<1>4. UNCHANGED <<store, mishaps>> /\ run' = NextRow BY DEF AppendJournal
<1>5. run'.phase = "rows" /\ run'.rows = Tail(r.rows) /\ run'.journaled = r.journaled
  BY <1>3, <1>4 DEF Runs, NextRow
<1>6. /\ ~Torn(journal')
      /\ ~Torn(journal) => /\ LoadJournal(journal) \subseteq LoadJournal(journal')
                           /\ Key(ThisRow) \in LoadJournal(journal')
  <2>1. PICK t \in BOOLEAN : t = TRUE OBVIOUS
  <2>2. journal' = Appended(journal, [key |-> Key(ThisRow), whole |-> t, ended |-> t])
    BY <2>1 DEF AppendJournal, Line
  <2> QED BY <1>1, <2>1, <2>2, LineJournal
<1>7. Times(key)' = Times(key) BY <1>4 DEF Times, WrittenFor
<1>8. Budget(key)' = Budget(key) /\ Copies[key]' = Copies[key]
  BY <1>4, SameBudget, SameCopies
<1>9. Spoiled(key)' = 0
  <2>1. Torn(journal)' = FALSE BY <1>6
  <2> QED BY <2>1 DEF Spoiled
<1>10. Fresh(key)' <=> Fresh(key) BY <1>1, <1>3, <1>5 DEF Fresh, Busy
<1>11. PICK c \in Nat : c = Copies[key] BY BudgetType
<1>12. PICK w \in Nat : w = Times(key) BY BudgetType
<1>13. PICK b \in Nat : b = Budget(key) BY BudgetType
<1>14. PICK t \in {0, c} : t = Spoiled(key) BY <1>11, BudgetType
<1>15. CASE ~Fresh(key)
  <2>1. PICK u \in {0, c} : u = Unnamed(key) BY <1>11, BudgetType
  <2>2. w + u + t <= b BY <1>12, <1>13, <1>14, <1>15, <2>1 DEF Sound
  <2>3. PICK u2 \in {0, c} : u2 = Unnamed(key)' BY <1>8, <1>11 DEF Unnamed
  <2>4. w + u2 <= b
    <3>1. CASE Torn(journal)
      <4>1. t = c BY <1>11, <1>14, <3>1 DEF Spoiled
      <4> QED BY <2>2, <2>3, <4>1
    <3>2. CASE ~Torn(journal)
      <4>1. CASE key \in LoadJournal(journal)
        <5>1. key \in LoadJournal(journal)' BY <1>6, <3>2, <4>1
        <5>2. u2 = 0 BY <2>3, <5>1 DEF Unnamed
        <5> QED BY <2>2, <5>2
      <4>2. CASE key \notin LoadJournal(journal)
        <5>1. u = c BY <1>11, <2>1, <4>2 DEF Unnamed
        <5> QED BY <2>2, <2>3, <5>1
      <4> QED BY <4>1, <4>2
    <3> QED BY <3>1, <3>2
  <2>5. ~Fresh(key)' BY <1>10, <1>15
  <2>6. Times(key)' + Unnamed(key)' + Spoiled(key)' <= Budget(key)'
    <3>1. w + u2 + 0 <= b BY <2>4
    <3> QED BY <1>7, <1>8, <1>9, <1>12, <1>13, <2>3, <3>1
  <2> QED BY <2>5, <2>6 DEF Sound
<1>16. CASE Fresh(key)
  <2>1. PICK l \in Nat : l = Left(key) /\ l <= c BY <1>11, <1>16 DEF Sound
  <2>2. Left(key)' = l BY <1>1, <1>3, <1>5, <2>1 DEF Left
  <2>3. w + c + t <= b \/ (Vouched(key) /\ w + l + t <= b)
    BY <1>11, <1>12, <1>13, <1>14, <1>16, <2>1 DEF Sound
  <2>4. w + c <= b \/ (Vouched(key)' /\ w + l <= b)
    <3>1. CASE w + c + t <= b BY <3>1
    <3>2. CASE Vouched(key) /\ w + l + t <= b
      <4>1. CASE Torn(journal)
        <5>1. t = c BY <1>11, <1>14, <4>1 DEF Spoiled
        <5> QED BY <3>2, <5>1
      <4>2. CASE ~Torn(journal)
        <5>1. key \in LoadJournal(journal)' BY <1>1, <1>6, <3>2, <4>2 DEF Vouched
        <5>2. Vouched(key)' BY <5>1 DEF Vouched
        <5> QED BY <3>2, <5>2
      <4> QED BY <4>1, <4>2
    <3> QED BY <2>3, <3>1, <3>2
  <2>5. Fresh(key)' BY <1>10, <1>16
  <2>6. \/ Times(key)' + Copies[key]' + Spoiled(key)' <= Budget(key)'
        \/ Vouched(key)' /\ Times(key)' + Left(key)' + Spoiled(key)' <= Budget(key)'
    <3>1. w + c + 0 <= b \/ (Vouched(key)' /\ w + l + 0 <= b) BY <2>4
    <3> QED BY <1>7, <1>8, <1>9, <1>11, <1>12, <1>13, <2>2, <3>1
  <2>7. Left(key)' \in Nat /\ Left(key)' <= Copies[key]' BY <1>8, <1>11, <2>1, <2>2
  <2> QED BY <2>5, <2>6, <2>7 DEF Sound
<1> QED BY <1>15, <1>16

\* A death inside a line is paid for twice.
LEMMA LineSound ==
    ASSUME TInv, NEW key \in Key_, Sound(key), NEW whole \in BOOLEAN, DieInLine(whole)
    PROVE  Sound(key)'
<1>1. run.phase = "journal" /\ run' = Off /\ UNCHANGED store BY DEF DieInLine, End
<1>2. Budget(key)' = Budget(key) + Copies[key] + Copies[key]
  <2>1. mishaps \in [deaths : Nat, torn : Nat, unanswered : Nat] BY DEF TInv, OthersOK
  <2>2. PICK a, b : a = mishaps.deaths + 1 /\ b = mishaps.torn + 1 OBVIOUS
  <2>3. mishaps' = [mishaps EXCEPT !.deaths = a, !.torn = b] BY <2>2 DEF DieInLine
  <2>4. mishaps'.deaths = a /\ mishaps'.torn = b /\ mishaps'.unanswered = mishaps.unanswered
    BY <2>1, <2>3
  <2>5. Causes' = Causes + 1 + 1 BY <2>1, <2>2, <2>4 DEF Causes
  <2> QED BY <2>5, BudgetGrows
<1>3. Times(key)' = Times(key) BY <1>1 DEF Times, WrittenFor
<1>4. PICK c \in Nat : c = Copies[key] BY BudgetType
<1>5. PICK w \in Nat : w = Times(key) BY BudgetType
<1>6. PICK b \in Nat : b = Budget(key) BY BudgetType
<1>7. PICK t \in {0, c} : t = Spoiled(key) BY <1>4, BudgetType
<1>8. w <= b
  <2>1. CASE ~Fresh(key)
    <3>1. PICK u \in {0, c} : u = Unnamed(key) BY <1>4, BudgetType
    <3>2. w + u + t <= b BY <1>5, <1>6, <1>7, <2>1, <3>1 DEF Sound
    <3> QED BY <3>2
  <2>2. CASE Fresh(key)
    <3>1. PICK l \in Nat : l = Left(key) BY <2>2 DEF Sound
    <3>2. w + c + t <= b \/ w + l + t <= b BY <1>4, <1>5, <1>6, <1>7, <2>2, <3>1 DEF Sound
    <3> QED BY <3>2
  <2> QED BY <2>1, <2>2
<1>9. Unnamed(key)' \in {0, c} /\ Spoiled(key)' \in {0, c}
  BY <1>4, SameCopies DEF Unnamed, Spoiled
<1>10. ~Fresh(key)' BY <1>1 DEF Fresh, Off, Busy
<1>11. Times(key)' + Unnamed(key)' + Spoiled(key)' <= Budget(key)'
  <2>1. \A u, s \in {0, c} : w + u + s <= b + c + c BY <1>8
  <2> QED BY <1>2, <1>3, <1>4, <1>5, <1>6, <1>9, <2>1
<1> QED BY <1>10, <1>11 DEF Sound

\* What others do leaves the photos of the run and its journal alone.
LEMMA OthersSound ==
    ASSUME TInv, NEW key \in Key_, Sound(key), UNCHANGED <<run, journal, mishaps>>,
           Times(key)' = Times(key)
    PROVE  Sound(key)'
<1>1. Budget(key)' = Budget(key) /\ Copies[key]' = Copies[key] BY SameBudget, SameCopies
<1>2. LoadJournal(journal)' = LoadJournal(journal) /\ (Torn(journal)' <=> Torn(journal))
  <2>1. PICK j : j = journal OBVIOUS
  <2> QED BY <2>1
<1>3. Unnamed(key)' = Unnamed(key) /\ Spoiled(key)' = Spoiled(key)
  BY <1>1, <1>2 DEF Unnamed, Spoiled
<1>4. (Fresh(key)' <=> Fresh(key)) /\ (Vouched(key)' <=> Vouched(key))
  <2>1. PICK r : r = run OBVIOUS
  <2>2. Fresh(key)' <=> Fresh(key) BY DEF Fresh
  <2>3. Key(ThisRow)' = Key(ThisRow) BY DEF Key, ThisRow, Image
  <2> QED BY <1>2, <2>2, <2>3 DEF Vouched
<1>5. Left(key)' = Left(key)
  <2>1. PICK r : r = run OBVIOUS
  <2>2. PICK rows : rows = IF r.phase = "journal" THEN Tail(r.rows) ELSE r.rows OBVIOUS
  <2>3. Left(key) = Matches(rows, key) BY <2>1, <2>2 DEF Left
  <2>4. Left(key)' = Matches(rows, key) BY <2>1, <2>2 DEF Left
  <2> QED BY <2>3, <2>4
<1> QED BY <1>1, <1>3, <1>4, <1>5 DEF Sound

\* The row is gone, without a template.
LEMMA NextSound ==
    ASSUME TInv, NEW key \in Key_, Sound(key), UNCHANGED <<store, journal, mishaps>>,
           run.phase \in {"rows", "extract", "write"}, run.rows # <<>>, run' = NextRow
    PROVE  Sound(key)'
<1>1. Going(run) BY PhaseGoes
<1>2. PICK r : r = run /\ r \in Runs(r) BY <1>1 DEF Going
<1>3. run'.phase = "rows" /\ run'.rows = Tail(r.rows) /\ run'.journaled = r.journaled
  BY <1>2 DEF Runs, NextRow
<1> QED BY <1>2, <1>3, RowSound

\* The run is over, in good order or by a death.
LEMMA GoneSound ==
    ASSUME TInv, NEW key \in Key_, Sound(key), run # Off, run' = Off \/ run'.phase = "reported",
           UNCHANGED <<store, journal>>,
           \/ UNCHANGED mishaps /\ run.phase # "journal"
           \/ Causes' = Causes + 1
    PROVE  Sound(key)'
<1>1. ~Fresh(key)' BY DEF Fresh, Off, Busy
<1>2. CASE UNCHANGED mishaps /\ run.phase # "journal" BY <1>1, <1>2, SameBudget, EndSound
<1>3. CASE Causes' = Causes + 1 BY <1>1, <1>3, OneCause, EndSound
<1> QED BY <1>2, <1>3

LEMMA WorkSound == ASSUME TInv, NEW key \in Key_, Sound(key), Work PROVE Sound(key)'
<1>1. CASE RejectRow BY <1>1, NextSound DEF RejectRow, AtRow
<1>2. CASE ResumeRow BY <1>2, NextSound DEF ResumeRow, AtRow
<1>3. CASE DecodeRow
  <2>1. run.phase = "rows" /\ run.rows # <<>> BY <1>3 DEF DecodeRow, AtRow
  <2>2. Going(run) BY <2>1, PhaseGoes
  <2>3. PICK r : r = run /\ r \in Runs(r) BY <2>2 DEF Going
  <2>4. PICK x, next : /\ run' = WithSeen(next, x)
                       /\ next = [r EXCEPT !.phase = "extract"] \/ next = NextRow
    BY <1>3, <2>3 DEF DecodeRow, WithSeen
  <2>5. /\ run'.phase = next.phase /\ run'.rows = next.rows /\ run'.journaled = next.journaled
        /\ next.phase \in {"rows", "extract"} /\ next.journaled = r.journaled
        /\ next.rows = r.rows \/ next.rows = Tail(r.rows)
    BY <2>3, <2>4 DEF Runs, WithSeen, NextRow
  <2>6. UNCHANGED <<store, journal, mishaps>> BY <1>3 DEF DecodeRow
  <2> QED BY <2>1, <2>3, <2>5, <2>6, RowSound
<1>4. CASE Extract
  <2>1. run.phase = "extract" BY <1>4 DEF Extract
  <2>2. Going(run) BY <2>1, PhaseGoes
  <2>3. PICK r : r = run /\ r \in Runs(r) /\ r.rows # <<>> BY <2>1, <2>2 DEF Going, Passed
  <2>4. UNCHANGED <<store, journal, mishaps>> BY <1>4 DEF Extract
  <2>5. CASE run' = NextRow BY <2>1, <2>3, <2>4, <2>5, NextSound
  <2>6. CASE run' = [run EXCEPT !.phase = "write"]
    <3>1. run'.phase = "write" /\ run'.rows = r.rows /\ run'.journaled = r.journaled
      BY <2>3, <2>6 DEF Runs
    <3> QED BY <2>1, <2>3, <2>4, <3>1, RowSound
  <2> QED BY <1>4, <2>5, <2>6 DEF Extract
<1>5. CASE SkipOccupied
  <2>1. run.phase = "write" BY <1>5 DEF SkipOccupied
  <2>2. run.rows # <<>> BY <2>1, PhaseGoes DEF Going, Passed
  <2> QED BY <1>5, <2>1, <2>2, NextSound DEF SkipOccupied
<1>6. CASE Upsert BY <1>6, UpsertSound
<1>7. CASE AppendJournal BY <1>7, AppendSound
<1>8. CASE Finish
  <2>1. run.phase = "rows" /\ run'.phase = "reported" BY <1>8 DEF Finish
  <2>2. run # Off BY <2>1 DEF Off
  <2> QED BY <1>8, <2>1, <2>2, GoneSound DEF Finish
<1>9. CASE Exit
  <2>1. run.phase = "reported" /\ run' = Off BY <1>9 DEF Exit, End
  <2>2. run # Off BY <2>1 DEF Off
  <2> QED BY <1>9, <2>1, <2>2, GoneSound DEF Exit
<1> QED BY <1>1, <1>2, <1>3, <1>4, <1>5, <1>6, <1>7, <1>8, <1>9 DEF Work

\* The row is written and passed over: its commit pays for what a rerun writes again.
LEMMA UnansweredSound ==
    ASSUME TInv, NEW key \in Key_, Sound(key), UpsertUnanswered PROVE Sound(key)'
<1>1. run.phase = "write" BY DEF UpsertUnanswered
<1>2. Going(run) BY <1>1, PhaseGoes
<1>3. PICK row : row = ThisRow OBVIOUS
<1>4. PICK r : r = run /\ r \in Runs(r) /\ Passed(r) BY <1>1, <1>2 DEF Going
<1>5. /\ row.number \in Students /\ row.pose \in Poses /\ Image(row) \in Images
      /\ r.rows # <<>> /\ row = Head(r.rows) /\ Key(row) \notin r.journaled
  BY <1>3, <1>4, HeadRow DEF ThisRow, Passed
<1>6. journal' = journal /\ run' = NextRow BY DEF UpsertUnanswered
<1>7. run'.phase = "rows" /\ run'.rows = Tail(r.rows) /\ run'.journaled = r.journaled
  BY <1>4, <1>6 DEF Runs, NextRow
<1>8. Times(key)' = Times(key) + IF row.number = key.number /\ Image(row) = key.bytes THEN 1 ELSE 0
  <2>1. PICK bytes \in Bytes : bytes = Image(row) BY <1>5 DEF Bytes
  <2>2. store' = Rotated(row.number, row.pose, bytes) BY <1>3, <2>1 DEF UpsertUnanswered
  <2>3. StoreOK BY DEF TInv
  <2> QED BY <1>5, <2>1, <2>2, <2>3, TimesGrow
<1>9. LoadJournal(journal)' = LoadJournal(journal) /\ (Torn(journal)' <=> Torn(journal))
  <2>1. PICK j : j = journal OBVIOUS
  <2> QED BY <1>6, <2>1
<1>10. Budget(key)' = Budget(key) + Copies[key] /\ Copies[key]' = Copies[key]
  <2>1. mishaps \in [deaths : Nat, torn : Nat, unanswered : Nat] BY DEF TInv, OthersOK
  <2>2. PICK a : a = mishaps.unanswered + 1 OBVIOUS
  <2>3. mishaps' = [mishaps EXCEPT !.unanswered = a] BY <2>2 DEF UpsertUnanswered
  <2>4. Causes' = Causes + 1 BY <2>1, <2>2, <2>3 DEF Causes
  <2> QED BY <2>4, OneCause, SameCopies
<1>11. Unnamed(key)' = Unnamed(key) /\ Spoiled(key)' = Spoiled(key)
  BY <1>9, <1>10 DEF Unnamed, Spoiled
<1>12. Fresh(key)' <=> Fresh(key) BY <1>1, <1>4, <1>7 DEF Fresh, Busy
<1>13. IsAlike(row, key) <=> row.number = key.number /\ Image(row) = key.bytes
  BY DEF IsAlike, Image
<1>14. IsAlike(row, key) => Key(row) = key BY <1>13 DEF Key, Key_
<1>15. PICK c \in Nat : c = Copies[key] BY BudgetType
<1>16. PICK w \in Nat : w = Times(key) BY BudgetType
<1>17. PICK b \in Nat : b = Budget(key) BY BudgetType
<1>18. PICK t \in {0, c} : t = Spoiled(key) BY <1>15, BudgetType
<1>19. CASE ~Fresh(key)
  <2>1. ~IsAlike(row, key) BY <1>1, <1>4, <1>5, <1>14, <1>19 DEF Fresh, Busy
  <2>2. Times(key)' = w BY <1>8, <1>13, <1>16, <2>1
  <2>3. PICK u \in {0, c} : u = Unnamed(key) BY <1>15, BudgetType
  <2>4. w + u + t <= b BY <1>16, <1>17, <1>18, <1>19, <2>3 DEF Sound
  <2>5. w + u + t <= b + c BY <2>4
  <2> QED BY <1>10, <1>11, <1>12, <1>15, <1>17, <1>18, <1>19, <2>2, <2>3, <2>5 DEF Sound
<1>20. CASE Fresh(key)
  <2>1. PICK rows \in Seq(RowsOfInputs) : rows = r.rows /\ rows # <<>> BY <1>4, <1>5 DEF Runs
  <2>2. PICK m \in {0, 1} : m = IF IsAlike(row, key) THEN 1 ELSE 0 OBVIOUS
  <2>3. Left(key) = Matches(rows, key) BY <1>1, <1>4, <2>1 DEF Left
  <2>4. Left(key)' = Matches(Tail(rows), key) BY <1>7, <2>1 DEF Left
  <2>5. PICK l \in Nat, l2 \in Nat : l = Left(key) /\ l2 = Left(key)' /\ l = l2 + m
    <3>1. Matches(rows, key) = Matches(Tail(rows), key) + m BY <1>5, <2>1, <2>2, TailMatches
    <3>2. Matches(rows, key) \in Nat /\ Matches(Tail(rows), key) \in Nat BY <2>1, TailMatches
    <3> QED BY <2>3, <2>4, <3>1, <3>2
  <2>6. PICK w2 \in Nat : w2 = Times(key)' /\ w2 = w + m BY <1>8, <1>13, <1>16, <2>2
  <2>7. l <= c /\ (w + c + t <= b \/ (Vouched(key) /\ w + l + t <= b))
    BY <1>15, <1>16, <1>17, <1>18, <1>20, <2>5 DEF Sound
  <2>8. /\ l2 <= c
        /\ w + c + t <= b => w2 + c + t <= b + c
        /\ w + l + t <= b => w2 + l2 + t <= b + c
    <3>1. l2 <= c /\ m <= c /\ w2 = w + m /\ l = l2 + m BY <2>5, <2>6, <2>7
    <3>2. ASSUME w + c + t <= b PROVE w2 + c + t <= b + c BY <3>1, <3>2
    <3>3. ASSUME w + l + t <= b PROVE w2 + l2 + t <= b + c BY <3>1, <3>3
    <3> QED BY <3>1, <3>2, <3>3
  <2>9. Vouched(key) => Vouched(key)' BY <1>1, <1>9 DEF Vouched
  <2>10. PICK b2 \in Nat : b2 = Budget(key)' /\ b2 = b + c BY <1>10, <1>15, <1>17
  <2>11. w2 + c + t <= b2 \/ (Vouched(key)' /\ w2 + l2 + t <= b2) BY <2>7, <2>8, <2>9, <2>10
  <2> QED BY <1>10, <1>11, <1>12, <1>15, <1>18, <1>20, <2>5, <2>6, <2>8, <2>10, <2>11 DEF Sound
<1> QED BY <1>19, <1>20

LEMMA FailureSound ==
    ASSUME TInv, NEW key \in Key_, Sound(key),
           TritonFails \/ ExtractionFails \/ UpsertFails \/ UpsertUnanswered \/ Die
    PROVE  Sound(key)'
<1>1. CASE TritonFails
  <2>1. run.phase = "extract" BY <1>1 DEF TritonFails
  <2>2. Going(run) /\ run # Off BY <2>1, PhaseGoes
  <2>3. PICK r : r = run /\ r \in Runs(r) BY <2>2 DEF Going
  <2>4. UNCHANGED <<store, journal, mishaps>> BY <1>1 DEF TritonFails
  <2>5. CASE run' = Off BY <2>1, <2>2, <2>4, <2>5, GoneSound
  <2>6. CASE run' = [run EXCEPT !.attempt = @ + 1]
    <3>1. run'.phase = "extract" /\ run'.rows = r.rows /\ run'.journaled = r.journaled
      BY <2>1, <2>3, <2>6 DEF Runs
    <3> QED BY <2>1, <2>3, <2>4, <3>1, RowSound
  <2> QED BY <1>1, <2>5, <2>6 DEF TritonFails, End
<1>2. CASE ExtractionFails
  <2>1. run.phase = "extract" BY <1>2 DEF ExtractionFails
  <2>2. run.rows # <<>> BY <2>1, PhaseGoes DEF Going, Passed
  <2> QED BY <1>2, <2>1, <2>2, NextSound DEF ExtractionFails
<1>3. CASE UpsertFails
  <2>1. run.phase = "write" BY <1>3 DEF UpsertFails
  <2>2. run.rows # <<>> BY <2>1, PhaseGoes DEF Going, Passed
  <2> QED BY <1>3, <2>1, <2>2, NextSound DEF UpsertFails
<1>4. CASE Die
  <2>1. run # Off /\ run' = Off /\ UNCHANGED <<store, journal>> BY <1>4 DEF Die
  <2>2. mishaps \in [deaths : Nat, torn : Nat, unanswered : Nat] BY DEF TInv, OthersOK
  <2>3. PICK a : a = mishaps.deaths + 1 OBVIOUS
  <2>4. mishaps' = [mishaps EXCEPT !.deaths = a] BY <1>4, <2>3 DEF Die
  <2>5. Causes' = Causes + 1 BY <2>2, <2>3, <2>4 DEF Causes
  <2> QED BY <2>1, <2>5, GoneSound
<1>5. CASE UpsertUnanswered BY <1>5, UnansweredSound
<1> QED BY <1>1, <1>2, <1>3, <1>4, <1>5

LEMMA SInit == ASSUME Init PROVE SInv
<1>1. TInv BY TInit
<1>2. ASSUME NEW key \in Key_ PROVE Sound(key)
  <2>1. Times(key) = 0
    <3>1. WrittenFor(key) = {} BY DEF Init, WrittenFor
    <3> QED BY <3>1, FS_EmptySet DEF Times
  <2>2. PICK c \in Nat : c = Copies[key] BY CopiesBound
  <2>3. Budget(key) = c
    <3>1. mishaps.deaths = 0 /\ mishaps.torn = 0 /\ mishaps.unanswered = 0 BY DEF Init
    <3>2. 1 + Causes = 1 BY <3>1 DEF Causes
    <3>3. c * 1 = c OBVIOUS
    <3> QED BY <2>2, <3>2, <3>3 DEF Budget
  <2>4. Spoiled(key) = 0 BY DEF Init, Spoiled, Torn
  <2>5. Unnamed(key) \in {0, c} BY <2>2 DEF Unnamed
  <2>6. ~Fresh(key) BY DEF Init, Fresh, Off, Busy
  <2> QED BY <2>1, <2>3, <2>4, <2>5, <2>6 DEF Sound
<1> QED BY <1>1, <1>2 DEF SInv

LEMMA SStep == ASSUME SInv, [Next]_vars PROVE SInv'
<1>1. TInv /\ TInv' BY TStep DEF SInv
<1>2. ASSUME NEW key \in Key_ PROVE Sound(key)'
  <2>0. Sound(key) BY <1>2 DEF SInv
  <2>1. CASE Refuse
    <3>1. UNCHANGED <<store, journal, mishaps>> /\ run = Off /\ run' = Off
      BY <2>1 DEF Refuse, End
    <3>2. ~Fresh(key)' /\ run.phase # "journal" BY <3>1 DEF Fresh, Off, Busy
    <3> QED BY <1>1, <2>0, <3>1, <3>2, SameBudget, EndSound
  <2>2. ASSUME NEW input \in Inputs, NEW dry \in BOOLEAN, NEW overwrite \in BOOLEAN,
               Start(input, dry, overwrite)
        PROVE  Sound(key)'
    BY <1>1, <2>0, <2>2, StartSound
  <2>3. CASE Work BY <1>1, <2>0, <2>3, WorkSound
  <2>4. CASE TritonFails \/ ExtractionFails \/ UpsertFails \/ UpsertUnanswered \/ Die
    BY <1>1, <2>0, <2>4, FailureSound
  <2>5. ASSUME NEW whole \in BOOLEAN, DieInLine(whole) PROVE Sound(key)'
    BY <1>1, <2>0, <2>5, LineSound
  <2>6. ASSUME NEW s \in Students, Deactivate(s) PROVE Sound(key)'
    <3>1. UNCHANGED <<run, journal, mishaps, store>> BY <2>6 DEF Deactivate
    <3>2. Times(key)' = Times(key) BY <3>1, SameDebts
    <3> QED BY <1>1, <2>0, <3>1, <3>2, OthersSound
  <2>7. ASSUME NEW s \in Students, NEW pose \in Poses, EnrollThroughApi(s, pose)
        PROVE  Sound(key)'
    <3>1. UNCHANGED <<run, journal, mishaps>> /\ store' = Rotated(s, pose, Unreadable)
      BY <2>7 DEF EnrollThroughApi
    <3>2. Unreadable \in Bytes /\ key.bytes # Unreadable BY DEF Bytes, Images, Key_
    <3>3. StoreOK BY <1>1 DEF TInv
    <3>4. Times(key)' = Times(key) + 0 BY <3>1, <3>2, <3>3, TimesGrow
    <3>5. Times(key)' = Times(key) BY <1>1, <3>4, BudgetType
    <3> QED BY <1>1, <2>0, <3>1, <3>5, OthersSound
  <2>8. CASE UNCHANGED vars
    <3>1. UNCHANGED <<run, journal, mishaps, store>> BY <2>8 DEF vars
    <3>2. Times(key)' = Times(key) BY <3>1, SameDebts
    <3> QED BY <1>1, <2>0, <3>1, <3>2, OthersSound
  <2>9. CASE StartForReal BY <2>2, <2>9 DEF StartForReal
  <2> QED BY <2>1, <2>2, <2>3, <2>4, <2>5, <2>6, <2>7, <2>8, <2>9 DEF Next
<1>3. Key_' = Key_ BY DEF Key_, Images
<1> QED BY <1>1, <1>2, <1>3 DEF SInv

\* The same bytes are imported again for a student, by a rerun or under --overwrite, only
\* after a process died or a commit was not answered: as often as one batch names them for
\* each death and each such commit, and as often once more for each torn line, which makes
\* the line after it unreadable.
THEOREM ReimportsArePaidFor == Spec => []ReimportsHaveCauses
<1>1. ASSUME SInv PROVE ReimportsHaveCauses
  <2>1. SUFFICES ASSUME NEW i \in DOMAIN store, store[i].bytes # Unreadable, NEW key,
                        key = [number |-> store[i].number, bytes |-> store[i].bytes]
                 PROVE  Times(key) <= Budget(key)
    BY DEF ReimportsHaveCauses, Times, Budget
  <2>2. TInv /\ StoreOK BY <1>1 DEF SInv, TInv
  <2>3. key \in Key_
    <3>1. store[i] \in Template_ BY <2>2 DEF StoreOK
    <3>2. store[i].number \in Students /\ store[i].bytes \in Images BY <2>1, <3>1 DEF Template_
    <3> QED BY <2>1, <3>2 DEF Key_
  <2>4. Sound(key) BY <1>1, <2>3 DEF SInv
  <2>5. PICK c \in Nat : c = Copies[key] BY <2>2, <2>3, BudgetType
  <2>6. PICK w \in Nat : w = Times(key) BY <2>2, <2>3, BudgetType
  <2>7. PICK b \in Nat : b = Budget(key) BY <2>2, <2>3, BudgetType
  <2>8. PICK t \in {0, c} : t = Spoiled(key) BY <2>2, <2>3, <2>5, BudgetType
  <2>9. CASE Fresh(key)
    <3>1. PICK l \in Nat : l = Left(key) BY <2>4, <2>9 DEF Sound
    <3>2. w + c + t <= b \/ w + l + t <= b
      BY <2>4, <2>5, <2>6, <2>7, <2>8, <2>9, <3>1 DEF Sound
    <3> QED BY <2>6, <2>7, <2>8, <3>2
  <2>10. CASE ~Fresh(key)
    <3>1. PICK u \in {0, c} : u = Unnamed(key) BY <2>2, <2>3, <2>5, BudgetType
    <3>2. w + u + t <= b BY <2>4, <2>6, <2>7, <2>8, <2>10, <3>1 DEF Sound
    <3> QED BY <2>6, <2>7, <2>8, <3>1, <3>2
  <2> QED BY <2>9, <2>10
<1> QED BY <1>1, SInit, SStep, PTL DEF Spec

=============================================================================
