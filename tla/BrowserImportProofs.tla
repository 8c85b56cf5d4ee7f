------------------------- MODULE BrowserImportProofs -------------------------
(***************************************************************************)
(* Proofs about BrowserImport, for CSV files of any number of rows, any    *)
(* checks that they fail, any number of posts and any body posted.         *)
(***************************************************************************)
EXTENDS BrowserImport, FiniteSetTheorems, WellFoundedInduction, TLAPS

-----------------------------------------------------------------------------
(* Lists of issues, and of numbers. *)

(* A set of numbers that is not empty has a least one. *)
LEMMA LeastNumber ==
    ASSUME NEW S \in SUBSET Nat, S # {}
    PROVE  \E n \in S : \A m \in S : n <= m
  <1>1. PICK n \in S : \A m \in S : ~(<<m, n>> \in OpToRel(<, Nat))
    BY WFMin, NatLessThanWellFounded
  <1>2. ASSUME NEW m \in S PROVE n <= m
    <2>1. m < n => <<m, n>> \in {p \in Nat \X Nat : p[1] < p[2]}
      OBVIOUS
    <2> QED
      BY <1>1, <2>1 DEF OpToRel
  <1> QED
    BY <1>2

LEMMA IssueRows ==
    ASSUME NEW list \in Seq(Issues)
    PROVE  /\ DOMAIN list = 1 .. Len(list) /\ Len(list) \in Nat
           /\ \A i \in DOMAIN list : list[i].row \in Int
  <1>1. DOMAIN list = 1 .. Len(list) /\ Len(list) \in Nat
    OBVIOUS
  <1>2. ASSUME NEW i \in DOMAIN list PROVE list[i] \in Issues
    BY <1>1
  <1>3. \A issue \in Issues : issue.row \in Int
    BY DEF Issues
  <1> QED
    BY <1>1, <1>2, <1>3

(* Each issue is of a later row than the one before it. *)
Ascends(list) == \A i, j \in DOMAIN list : i < j => list[i].row < list[j].row

(* The validator compares neighbours; so all are in order. *)
LEMMA NeighboursAscend ==
    ASSUME NEW list \in Seq(Issues),
           \A i \in DOMAIN list : i > 1 => list[i].row > list[i - 1].row
    PROVE  Ascends(list)
  <1> DEFINE late == {j \in DOMAIN list : \E i \in DOMAIN list : i < j /\ list[i].row >= list[j].row}
  <1>1. DOMAIN list = 1 .. Len(list) /\ Len(list) \in Nat
        /\ \A i \in DOMAIN list : list[i].row \in Int
    BY IssueRows
  <1>2. ASSUME late # {} PROVE FALSE
    <2>0. late \in SUBSET Nat
      BY <1>1
    <2>1. PICK j \in late : \A k \in late : j <= k
      <3> HIDE DEF late
      <3> QED
        BY <1>2, <2>0, LeastNumber
    <2>2. PICK i \in DOMAIN list : i < j /\ list[i].row >= list[j].row
      BY <2>1
    <2>3. j - 1 \in DOMAIN list /\ list[j].row > list[j - 1].row
      BY <1>1, <2>1, <2>2
    <2>4. i < j - 1 /\ list[i].row >= list[j - 1].row
      BY <1>1, <2>1, <2>2, <2>3
    <2>5. j - 1 \in late
      BY <2>3, <2>4
    <2> QED
      BY <1>1, <2>1, <2>5
  <1> QED
    BY <1>1, <1>2 DEF Ascends

(* As many rows are listed as there are issues, of whatever kind. *)
LEMMA IssuesCounted ==
    ASSUME NEW list \in Seq(Issues), Ascends(list), NEW D \in SUBSET DOMAIN list
    PROVE  /\ IsFiniteSet({list[i] : i \in D}) /\ IsFiniteSet({list[i].row : i \in D})
           /\ Cardinality({list[i] : i \in D}) = Cardinality(D)
           /\ Cardinality({list[i].row : i \in D}) = Cardinality(D)
           /\ IsFiniteSet(D) /\ Cardinality(D) \in 0 .. Len(list)
  <1> DEFINE f == [i \in D |-> list[i]]
             g == [i \in D |-> list[i].row]
             F == {list[i] : i \in D}
             G == {list[i].row : i \in D}
  <1>1. DOMAIN list = 1 .. Len(list) /\ Len(list) \in Nat
        /\ \A i \in DOMAIN list : list[i].row \in Int
    BY IssueRows
  <1>2. IsFiniteSet(D) /\ Cardinality(D) <= Len(list) /\ Cardinality(D) \in Nat
    <2>1. IsFiniteSet(1 .. Len(list)) /\ Cardinality(1 .. Len(list)) = Len(list)
      BY <1>1, FS_Interval
    <2> QED
      BY <1>1, <2>1, FS_Subset, FS_CardinalityType
  <1>3. \A i, j \in D : i # j => list[i].row # list[j].row
    BY <1>1 DEF Ascends
  <1>4. f \in Bijection(D, F)
    BY <1>3 DEF Bijection, Injection, Surjection, IsInjective
  <1>5. g \in Bijection(D, G)
    BY <1>3 DEF Bijection, Injection, Surjection, IsInjective
  <1>6. ExistsBijection(D, F) /\ ExistsBijection(D, G)
    BY <1>4, <1>5 DEF ExistsBijection
  <1> QED
    BY <1>1, <1>2, <1>6, FS_Bijection

(* The data rows of a file. *)
LEMMA RowsCounted ==
    ASSUME NEW n \in Nat
    PROVE  IsFiniteSet(2 .. n + 1) /\ Cardinality(2 .. n + 1) = n
  <1>1. \A a, b \in Int : /\ IsFiniteSet(a .. b)
                          /\ Cardinality(a .. b) = IF a > b THEN 0 ELSE b - a + 1
    BY FS_Interval
  <1>2. n + 1 \in Int
    OBVIOUS
  <1> DEFINE last == n + 1
  <1>3. IsFiniteSet(2 .. last) /\ Cardinality(2 .. last) = IF 2 > last THEN 0 ELSE last - 2 + 1
    <2> HIDE DEF last
    <2>1. last \in Int
      BY <1>2 DEF last
    <2> QED
      BY <1>1, <2>1
  <1> QED
    BY <1>3

(* A report that the validator takes accounts for all rows of its file. *)
Accounts(report) ==
    LET list == report.issues
        again == {list[i] : i \in Duplicates(list)}
        bad == {list[i] : i \in DOMAIN list \ Duplicates(list)}
        taken == (2 .. report.total + 1) \ {issue.row : issue \in again \cup bad}
    IN  /\ Cardinality(taken) = report.accepted
        /\ Cardinality(again) = report.duplicate
        /\ Cardinality(bad) = report.malformed
        /\ \A d \in again : d.of \in taken /\ d.of < d.row

LEMMA ValidAccounts ==
    ASSUME NEW report \in Reports, validateBrowserImportReportRequest(report)
    PROVE  Accounts(report)
  <1> DEFINE list == report.issues
             D == Duplicates(list)
             E == DOMAIN list \ D
             again == {list[i] : i \in D}
             bad == {list[i] : i \in E}
             listed == {list[i].row : i \in DOMAIN list}
             taken == (2 .. report.total + 1) \ listed
  <1>1. /\ list \in Seq(Issues) /\ report.total \in Nat /\ report.accepted \in Nat
        /\ report.malformed \in Nat /\ report.duplicate \in Nat
    BY DEF Reports, validateBrowserImportReportRequest, CountsFit
  <1>2. DOMAIN list = 1 .. Len(list) /\ Len(list) \in Nat
        /\ \A i \in DOMAIN list : list[i].row \in Int
    BY <1>1, IssueRows
  <1>3. \A i \in DOMAIN list :
          /\ list[i].row \in 2 .. report.total + 1
          /\ i > 1 => list[i].row > list[i - 1].row
          /\ IsDuplicate(list[i]) => list[i].of \in 2 .. list[i].row - 1 /\ list[i].of \notin listed
    BY DEF validateBrowserImportReportRequest, IssueFits, ListedRows
  <1>4. Ascends(list)
    BY <1>1, <1>3, NeighboursAscend
  <1>5. /\ report.accepted + report.malformed + report.duplicate = report.total
        /\ Cardinality(D) = report.duplicate
        /\ Len(list) - Cardinality(D) = report.malformed
    BY DEF validateBrowserImportReportRequest, CountsFit
  <1>6. D \in SUBSET DOMAIN list /\ E \in SUBSET DOMAIN list
    BY DEF Duplicates
  <1>7. /\ IsFiniteSet(D) /\ Cardinality(again) = Cardinality(D)
        /\ IsFiniteSet(E) /\ Cardinality(bad) = Cardinality(E)
        /\ Cardinality(D) \in Nat /\ Cardinality(E) \in Nat
    <2> HIDE DEF list, D, E
    <2>1. \A S \in SUBSET DOMAIN list :
            /\ IsFiniteSet(S) /\ Cardinality(S) \in 0 .. Len(list)
            /\ Cardinality({list[i] : i \in S}) = Cardinality(S)
      BY <1>1, <1>4, IssuesCounted
    <2>2. \A n \in 0 .. Len(list) : n \in Nat
      BY <1>2
    <2> QED
      BY <1>6, <2>1, <2>2
  <1>8. IsFiniteSet(listed) /\ Cardinality(listed) = Len(list)
    <2>1. IsFiniteSet(listed) /\ Cardinality(listed) = Cardinality(DOMAIN list)
      BY <1>1, <1>4, IssuesCounted
    <2>2. Cardinality(DOMAIN list) = Len(list)
      BY <1>2, FS_Interval
    <2> QED
      BY <2>1, <2>2
  <1>9. Cardinality(E) = Len(list) - Cardinality(D)
    <2>1. D \cup E = DOMAIN list /\ D \cap E = {}
      BY <1>6
    <2>2. Cardinality(D \cup E) = Cardinality(D) + Cardinality(E) - Cardinality(D \cap E)
      BY <1>7, FS_Union
    <2>3. Cardinality(DOMAIN list) = Len(list) /\ Cardinality({}) = 0
      BY <1>2, FS_Interval, FS_EmptySet
    <2> HIDE DEF list, D, E
    <2>4. Cardinality(DOMAIN list) = Cardinality(D) + Cardinality(E) - Cardinality({})
      BY <2>1, <2>2, Zenon
    <2> QED
      BY <1>2, <1>7, <2>3, <2>4
  <1>10. Cardinality(taken) = report.accepted
    <2>1. IsFiniteSet(2 .. report.total + 1) /\ Cardinality(2 .. report.total + 1) = report.total
      BY <1>1, RowsCounted
    <2>2. taken \in SUBSET (2 .. report.total + 1)
      OBVIOUS
    <2>3. IsFiniteSet(taken) /\ Cardinality(taken) \in Nat
      BY <2>1, <2>2, FS_Subset, FS_CardinalityType
    <2>4. taken \cup listed = 2 .. report.total + 1 /\ taken \cap listed = {}
      BY <1>3
    <2>5. Cardinality(taken \cup listed)
            = Cardinality(taken) + Cardinality(listed) - Cardinality(taken \cap listed)
      <3> HIDE DEF taken, listed
      <3> QED
        BY <1>8, <2>3, FS_Union
    <2>6. report.total = Cardinality(taken) + Len(list)
      <3>1. Cardinality({}) = 0
        BY FS_EmptySet
      <3> HIDE DEF list, taken, listed
      <3>2. Cardinality(2 .. report.total + 1)
              = Cardinality(taken) + Cardinality(listed) - Cardinality({})
        BY <2>4, <2>5, Zenon
      <3> QED
        BY <1>1, <1>2, <1>8, <2>1, <2>3, <3>1, <3>2
    <2> HIDE DEF list, D, taken
    <2> QED
      BY <1>1, <1>2, <1>5, <1>7, <2>3, <2>6
  <1>11. {issue.row : issue \in again \cup bad} = listed
    BY <1>6
  <1>12. \A d \in again : d.of \in taken /\ d.of < d.row
    <2> SUFFICES ASSUME NEW i \in D PROVE list[i].of \in taken /\ list[i].of < list[i].row
      OBVIOUS
    <2>1. i \in DOMAIN list /\ IsDuplicate(list[i])
      BY DEF Duplicates
    <2>2. list[i].row \in Int /\ list[i].row <= report.total + 1
          /\ list[i].of \in 2 .. list[i].row - 1 /\ list[i].of \notin listed
      BY <1>1, <1>2, <1>3, <2>1
    <2>3. \A d \in Issues : d.of \in Int
      BY DEF Issues
    <2>4. list[i] \in Issues
      BY <1>1, <1>2, <2>1
    <2> HIDE DEF list, listed
    <2> QED
      BY <1>1, <2>2, <2>3, <2>4 
  <1> HIDE DEF list, D, E, taken, listed
  <1>13. /\ Cardinality(taken) = report.accepted
         /\ Cardinality(again) = report.duplicate
         /\ Cardinality(bad) = report.malformed
    BY <1>5, <1>7, <1>9, <1>10
  <1> QED
    BY <1>11, <1>12, <1>13 DEF Accounts, list, D, E, taken, listed

-----------------------------------------------------------------------------
(* Types. *)

LEMMA ChecksAreRefusals ==
    /\ DOMAIN Checks = 1 .. 11
    /\ \A i \in DOMAIN Checks : Checks[i] \in Refusals /\ Checks[i] # "duplicate"
  BY DEF Checks, Refusals

(* A row that fails a check is given the first that it fails. *)
LEMMA FirstRefusal ==
    ASSUME NEW row \in Rows, row.fails # {}
    PROVE  \E i \in DOMAIN Checks :
             /\ Refusal(row) = Checks[i] /\ Checks[i] \in row.fails
             /\ \A j \in 1 .. i - 1 : Checks[j] \notin row.fails
  <1>1. row.fails \subseteq Refusals
    BY BrowserImportAssumption DEF Rows
  <1>2. Failed(row) \in SUBSET Nat
    BY ChecksAreRefusals DEF Failed
  <1>3. Failed(row) # {}
    BY <1>1 DEF Failed, Refusals
  <1>4. \E i \in Failed(row) : \A j \in Failed(row) : i <= j
    BY <1>2, <1>3, LeastNumber
  <1>5. PICK i \in Failed(row) :
          Refusal(row) = Checks[i] /\ \A j \in Failed(row) : i <= j
    BY <1>4 DEF Refusal
  <1>6. ASSUME NEW j \in 1 .. i - 1 PROVE Checks[j] \notin row.fails
    BY <1>5, ChecksAreRefusals DEF Failed
  <1> QED
    BY <1>5, <1>6 DEF Failed

LEMMA IssueType ==
    ASSUME TypeOK, NEW row \in Rows, NEW n \in Nat
    PROVE  IssueOf(row, n) \in Issues
  <1>1. firstRow[row.key] \in Int
    BY DEF TypeOK, Rows
  <1>2. CASE row.fails # {}
    <2>1. Refusal(row) \in Refusals
      BY <1>2, FirstRefusal, ChecksAreRefusals
    <2> QED
      BY <1>2, <2>1 DEF IssueOf, Issues
  <1>3. CASE row.fails = {}
    BY <1>1, <1>3 DEF IssueOf, Issues
  <1> QED
    BY <1>2, <1>3

LEMMA DuplicatesCounted ==
    ASSUME NEW list \in Seq(Issues)
    PROVE  Cardinality(Duplicates(list)) \in Nat /\ Cardinality(Duplicates(list)) <= Len(list)
  <1>1. DOMAIN list = 1 .. Len(list) /\ Len(list) \in Nat
    OBVIOUS
  <1>2. IsFiniteSet(1 .. Len(list)) /\ Cardinality(1 .. Len(list)) = Len(list)
    BY <1>1, FS_Interval
  <1>3. Duplicates(list) \in SUBSET (1 .. Len(list))
    BY <1>1 DEF Duplicates
  <1> HIDE DEF Duplicates
  <1> QED
    BY <1>2, <1>3, FS_Subset, FS_CardinalityType

LEMMA ReportType ==
    ASSUME TypeOK
    PROVE  Report \in Reports
  <1> DEFINE d == Cardinality(Duplicates(issues))
  <1>1. /\ issues \in Seq(Issues) /\ Len(issues) \in Int /\ Len(records) \in Int
        /\ Len(accepted) \in Int
    BY DEF TypeOK
  <1>2. d \in Int
    BY <1>1, DuplicatesCounted
  <1> HIDE DEF d
  <1>3. Len(issues) - d \in Int
    BY <1>1, <1>2
  <1>4. Report = [total |-> Len(records), accepted |-> Len(accepted), malformed |-> Len(issues) - d,
                  duplicate |-> d, issues |-> issues]
    BY DEF Report, d
  <1> QED
    BY <1>1, <1>2, <1>3, <1>4 DEF Reports

LEMMA JobType ==
    ASSUME TypeOK, NEW c \in Calls, call[c].body \in Reports
    PROVE  JobOf(c) \in [by : Calls, total : Int, accepted : Int, malformed : Int,
                         duplicate : Int, duplicates : SUBSET Issues,
                         malformed_rows : SUBSET Issues]
  <1> DEFINE list == call[c].body.issues
  <1>1. list \in Seq(Issues)
    BY DEF Reports
  <1>2. \A i \in DOMAIN list : list[i] \in Issues
    BY <1>1
  <1>3. {list[i] : i \in Duplicates(list)} \in SUBSET Issues
        /\ {list[i] : i \in DOMAIN list \ Duplicates(list)} \in SUBSET Issues
    BY <1>2 DEF Duplicates
  <1> QED
    BY <1>3 DEF JobOf, Reports

(* A body that is being inserted was validated. *)
Validated ==
    \A c \in Calls : call[c].step \in {"insert", "inserted"} =>
                      validateBrowserImportReportRequest(call[c].body)

(* The steps of the import, and those of a call. *)
ImportStep ==
    \/ \E row \in Rows : FinishRow(row)
    \/ RefuseFile \/ FinishParsing \/ ReportRow \/ AcceptRow \/ FinishAnalysis
    \/ BuildPlan \/ PlanFails \/ FinishPlan
    \/ \E id \in Ids : PlanItem(id)

CallStep(c) ==
    \/ PostReport(c)
    \/ \E body \in OtherReports \cup {Junk} : Post(c, body)
    \/ RefuseCaller(c) \/ ValidateReport(c)
    \/ insertBrowserImportReport(c) \/ InsertFails(c) \/ SendReceipt(c)
    \/ ReadAnswer(c) \/ LoseAnswer(c)

LEMMA StepCases ==
    ASSUME [Next]_vars
    PROVE  ImportStep \/ (\E c \in Calls : CallStep(c)) \/ UNCHANGED vars
  BY DEF Next, ImportStep, CallStep

LEMMA ImportKeepsCalls ==
    ASSUME ImportStep
    PROVE  UNCHANGED <<call, jobs>>
  BY DEF ImportStep, FinishRow, RefuseFile, FinishParsing, ReportRow, AcceptRow, FinishAnalysis,
         BuildPlan, PlanFails, FinishPlan, PlanItem

LEMMA CallKeepsImport ==
    ASSUME NEW c \in Calls, CallStep(c)
    PROVE  UNCHANGED import
  BY DEF CallStep, PostReport, Post, RefuseCaller, ValidateReport, insertBrowserImportReport,
         InsertFails, SendReceipt, ReadAnswer, LoseAnswer

(* What a step of a call does to it. *)
CallRecords == [step : CallSteps, body : Reports \cup {Junk}, answer : Answers \cup {None},
                result : Answers \cup {None, "import_report_record_failed"}]

LEMMA CallMoves ==
    ASSUME TypeOK, NEW c \in Calls, CallStep(c)
    PROVE  /\ call' \in [Calls -> CallRecords]
           /\ call' = [call EXCEPT ![c] = call'[c]]
           /\ call[c].step # "idle" => call'[c].body = call[c].body
  <1>1. call \in [Calls -> CallRecords]
    BY DEF TypeOK, CallRecords
  <1>2. /\ call[c].step \in CallSteps /\ call[c].body \in Reports \cup {Junk}
        /\ call[c].answer \in Answers \cup {None}
        /\ call[c].result \in Answers \cup {None, "import_report_record_failed"}
    BY <1>1 DEF CallRecords
  <1>3. ASSUME NEW body \in Reports \cup {Junk}, Post(c, body)
        PROVE  /\ call' \in [Calls -> CallRecords]
               /\ call' = [call EXCEPT ![c] = call'[c]]
               /\ call[c].step # "idle" => call'[c].body = call[c].body
    BY <1>1, <1>2, <1>3 DEF Post, CallRecords, CallSteps
  <1>4. ASSUME NEW answer \in Answers, Answer(c, answer)
        PROVE  /\ call' \in [Calls -> CallRecords]
               /\ call' = [call EXCEPT ![c] = call'[c]]
               /\ call'[c].body = call[c].body
    BY <1>1, <1>2, <1>4 DEF Answer, CallRecords, CallSteps
  <1>5. ASSUME NEW s \in CallSteps, call' = [call EXCEPT ![c].step = s]
        PROVE  /\ call' \in [Calls -> CallRecords]
               /\ call' = [call EXCEPT ![c] = call'[c]]
               /\ call'[c].body = call[c].body
    BY <1>1, <1>2, <1>5 DEF CallRecords
  <1>6. ASSUME NEW r \in Answers \cup {None, "import_report_record_failed"},
               call' = [call EXCEPT ![c].result = r]
        PROVE  /\ call' \in [Calls -> CallRecords]
               /\ call' = [call EXCEPT ![c] = call'[c]]
               /\ call'[c].body = call[c].body
    BY <1>1, <1>2, <1>6 DEF CallRecords
  <1>7. CASE PostReport(c)
    BY <1>3, <1>7, ReportType DEF PostReport
  <1>8. CASE \E body \in OtherReports \cup {Junk} : Post(c, body)
    BY <1>3, <1>8, BrowserImportAssumption
  <1>9. CASE RefuseCaller(c)
    BY <1>4, <1>9 DEF RefuseCaller, Answers
  <1>10. CASE ValidateReport(c)
    BY <1>4, <1>5, <1>10 DEF ValidateReport, Answers, Errors, CallSteps
  <1>11. CASE insertBrowserImportReport(c)
    BY <1>5, <1>11 DEF insertBrowserImportReport, CallSteps
  <1>12. CASE InsertFails(c) \/ SendReceipt(c)
    BY <1>4, <1>12 DEF InsertFails, SendReceipt, Answers, Errors
  <1>13. CASE ReadAnswer(c) \/ LoseAnswer(c)
    BY <1>2, <1>6, <1>13 DEF ReadAnswer, LoseAnswer
  <1> QED
    BY <1>7, <1>8, <1>9, <1>10, <1>11, <1>12, <1>13 DEF CallStep

(* The part of the type that an import step can disturb. *)
ImportType ==
    /\ step \in ImportSteps
    /\ records \in Seq(Rows) /\ Len(records) <= DataRows /\ seen \in 0 .. Len(records)
    /\ accepted \in Seq(Entries) /\ issues \in Seq(Issues)
    /\ firstRow \in [Keys -> Nat]
    /\ items \in Seq([id : Ids, entry : Entries])

(* No row is sorted before the file is parsed. *)
Unsorted ==
    step \in {"parse", "refused"} =>
        seen = 0 /\ accepted = <<>> /\ issues = <<>> /\ firstRow = [k \in Keys |-> 0]

(* A plan in the making is of the first entries, in their order. *)
PlanFollows ==
    step \in {"plan", "planned"} =>
        /\ Len(items) <= Len(accepted)
        /\ \A i \in DOMAIN items : items[i].entry = accepted[i]
        /\ \A i, j \in DOMAIN items : i # j => items[i].id # items[j].id
        /\ step = "planned" => Len(items) = Len(accepted)

LEMMA NextRow ==
    ASSUME TypeOK, seen < Len(records)
    PROVE  /\ seen + 1 \in DOMAIN records /\ seen + 1 \in 0 .. Len(records)
           /\ records[seen + 1] \in Rows /\ records[seen + 1].key \in Keys
           /\ RowIndex(seen + 1) = seen + 2 /\ RowIndex(seen + 1) \in Nat
  <1>1. seen + 1 \in 1 .. Len(records) /\ records \in Seq(Rows) /\ seen \in Nat
    BY DEF TypeOK
  <1>2. records[seen + 1] \in Rows
    BY <1>1
  <1> QED
    BY <1>1, <1>2 DEF Rows, RowIndex

LEMMA ImportTypeStep ==
    ASSUME TypeOK, Unsorted, ImportStep
    PROVE  ImportType' /\ Unsorted'
  <1> USE DEF TypeOK, ImportType, Unsorted, ImportSteps
  <1>1. ASSUME NEW row \in Rows, FinishRow(row) PROVE ImportType' /\ Unsorted'
    BY <1>1, BrowserImportAssumption DEF FinishRow
  <1>2. CASE RefuseFile
    BY <1>2, BrowserImportAssumption DEF RefuseFile
  <1>3. CASE FinishParsing
    BY <1>3 DEF FinishParsing
  <1>4. CASE ReportRow
    <2>1. IssueOf(records[seen + 1], RowIndex(seen + 1)) \in Issues /\ seen + 1 \in 0 .. Len(records)
      BY <1>4, NextRow, IssueType DEF ReportRow
    <2> QED
      BY <1>4, <2>1 DEF ReportRow
  <1>5. CASE AcceptRow
    <2>1. /\ seen + 1 \in 0 .. Len(records)
          /\ [row |-> RowIndex(seen + 1), key |-> records[seen + 1].key] \in Entries
          /\ RowIndex(seen + 1) \in Nat
      BY <1>5, NextRow DEF AcceptRow, Entries
    <2>2. accepted' \in Seq(Entries)
      BY <1>5, <2>1 DEF AcceptRow
    <2>4. firstRow' = [firstRow EXCEPT ![records[seen + 1].key] = RowIndex(seen + 1)]
      BY <1>5 DEF AcceptRow
    <2>5. firstRow' \in [Keys -> Nat]
      BY <2>1, <2>4
    <2>3. seen' \in 0 .. Len(records')
      BY <1>5, <2>1 DEF AcceptRow
    <2> QED
      BY <1>5, <2>2, <2>3, <2>5 DEF AcceptRow
  <1>6. CASE FinishAnalysis
    BY <1>6 DEF FinishAnalysis
  <1>7. CASE BuildPlan \/ PlanFails
    <2>1. items' = <<>>
      BY <1>7 DEF BuildPlan, PlanFails
    <2>3. <<>> \in Seq([id : Ids, entry : Entries])
      OBVIOUS
    <2>2. step' \in {"plan", "analyzed"} /\ UNCHANGED <<records, seen, accepted, issues, firstRow>>
      BY <1>7 DEF BuildPlan, PlanFails
    <2> QED
      BY <2>1, <2>2, <2>3
  <1>8. CASE FinishPlan
    BY <1>8 DEF FinishPlan
  <1>9. ASSUME NEW id \in Ids, PlanItem(id) PROVE ImportType' /\ Unsorted'
    <2>1. Len(items) + 1 \in 1 .. Len(accepted) /\ accepted \in Seq(Entries)
      BY <1>9 DEF PlanItem
    <2>2. [id |-> id, entry |-> accepted[Len(items) + 1]] \in [id : Ids, entry : Entries]
      BY <2>1
    <2> QED
      BY <1>9, <2>2 DEF PlanItem
  <1> QED
    BY <1>1, <1>2, <1>3, <1>4, <1>5, <1>6, <1>7, <1>8, <1>9 DEF ImportStep

LEMMA PlanStep ==
    ASSUME TypeOK, PlanFollows, ImportStep
    PROVE  PlanFollows'
  <1> USE DEF TypeOK, PlanFollows
  <1>1. CASE step' \notin {"plan", "planned"}
    BY <1>1
  <1>2. ASSUME step' \in {"plan", "planned"}
        PROVE  BuildPlan \/ FinishPlan \/ \E id \in Ids : PlanItem(id)
    BY <1>2 DEF ImportStep, FinishRow, RefuseFile, FinishParsing, ReportRow, AcceptRow,
                FinishAnalysis, PlanFails
  <1>3. CASE BuildPlan
    BY <1>3 DEF BuildPlan
  <1>4. CASE FinishPlan
    BY <1>4 DEF FinishPlan
  <1>5. ASSUME NEW id \in Ids, PlanItem(id) PROVE PlanFollows'
    <2> DEFINE item == [id |-> id, entry |-> accepted[Len(items) + 1]]
               n == Len(items)
    <2>1. /\ items' = Append(items, item) /\ n < Len(accepted) /\ step = "plan"
          /\ id \notin GeneratedIds /\ UNCHANGED <<step, accepted>>
      BY <1>5 DEF PlanItem
    <2>2. /\ DOMAIN items = 1 .. n /\ n \in Nat /\ DOMAIN items' = 1 .. n + 1 /\ Len(items') = n + 1
          /\ \A i \in 1 .. n : items'[i] = items[i]
          /\ items'[n + 1] = item
      BY <2>1
    <2>3. \A i \in 1 .. n : items[i].id # id
      BY <2>1, <2>2 DEF GeneratedIds
    <2>4. \A i \in DOMAIN items' : items'[i].entry = accepted[i]
      BY <2>1, <2>2
    <2>5. \A i, j \in DOMAIN items' : i # j => items'[i].id # items'[j].id
      BY <2>1, <2>2, <2>3
    <2> HIDE DEF n, item
    <2> QED
      BY <2>1, <2>2, <2>4, <2>5
  <1> QED
    BY <1>1, <1>2, <1>3, <1>4, <1>5

-----------------------------------------------------------------------------
(* The table of reports and what the calls know of it. *)

(* A recorded report is that of a call which was validated and whose answer does *)
(* not deny it; a receipt, and an answer that was read, are true.                *)
JobTrue(j) ==
    /\ j.by \in Calls /\ j = JobOf(j.by)
    /\ validateBrowserImportReportRequest(call[j.by].body)
    /\ call[j.by].step \in {"inserted", "answered"}
    /\ call[j.by].step = "answered" =>
         call[j.by].answer \in {"recorded", "import_report_create_failed"}

CallTrue(c) ==
    /\ call[c].step = "inserted" => JobOf(c) \in jobs
    /\ call[c].step = "answered" /\ call[c].answer = "recorded" => JobOf(c) \in jobs
    /\ \/ call[c].result \in {None, "import_report_record_failed"}
       \/ call[c].step = "answered" /\ call[c].result = call[c].answer

Recorded == (\A j \in jobs : JobTrue(j)) /\ (\A c \in Calls : CallTrue(c))

LEMMA ValidBody ==
    ASSUME TypeOK, NEW c \in Calls, validateBrowserImportReportRequest(call[c].body)
    PROVE  call[c].body \in Reports
  BY DEF TypeOK, validateBrowserImportReportRequest

LEMMA ValidatedStep ==
    ASSUME TypeOK, Validated, NEW c \in Calls, CallStep(c)
    PROVE  Validated'
  <1>1. call' = [call EXCEPT ![c] = call'[c]] /\ call \in [Calls -> CallRecords]
        /\ (call[c].step # "idle" => call'[c].body = call[c].body)
    BY CallMoves DEF TypeOK, CallRecords
  <1>2. \A d \in Calls : d # c => call'[d] = call[d]
    BY <1>1
  <1>3. call'[c].step \in {"insert", "inserted"} => validateBrowserImportReportRequest(call'[c].body)
    <2> DEFINE old == call[c]
    <2>1. call[c] \in CallRecords
      BY <1>1
    <2>2. CASE ValidateReport(c)
      BY <1>1, <2>1, <2>2 DEF ValidateReport, Answer, CallRecords
    <2>3. CASE insertBrowserImportReport(c)
      BY <1>1, <2>1, <2>3 DEF insertBrowserImportReport, CallRecords, Validated
    <2>4. CASE ReadAnswer(c) \/ LoseAnswer(c)
      BY <1>1, <2>1, <2>4 DEF ReadAnswer, LoseAnswer, CallRecords, Validated
    <2>5. CASE PostReport(c) \/ \E body \in OtherReports \cup {Junk} : Post(c, body)
      BY <1>1, <2>1, <2>5 DEF PostReport, Post, CallRecords
    <2>6. CASE RefuseCaller(c) \/ InsertFails(c) \/ SendReceipt(c)
      BY <1>1, <2>1, <2>6 DEF RefuseCaller, InsertFails, SendReceipt, Answer, CallRecords
    <2> QED
      BY <2>2, <2>3, <2>4, <2>5, <2>6 DEF CallStep
  <1> QED
    BY <1>2, <1>3 DEF Validated

LEMMA JobKept ==
    ASSUME NEW d \in Calls, call'[d].body = call[d].body
    PROVE  JobOf(d)' = JobOf(d)
  BY DEF JobOf

LEMMA RecordedStep ==
    ASSUME TypeOK, Validated, Recorded, NEW c \in Calls, CallStep(c)
    PROVE  Recorded'
  <1> DEFINE old == call[c]
             new == call'[c]
  <1>1. call' = [call EXCEPT ![c] = new] /\ call \in [Calls -> CallRecords]
        /\ (old.step # "idle" => new.body = old.body)
    BY CallMoves DEF TypeOK, CallRecords
  <1>2. /\ \A d \in Calls : d # c => call'[d] = call[d]
        /\ old \in CallRecords
    BY <1>1
  <1>3. \A d \in Calls : d # c => JobOf(d)' = JobOf(d)
    BY <1>2, JobKept
  <1>4. old.step # "idle" => JobOf(c)' = JobOf(c)
    BY <1>1, JobKept
  <1>5. /\ jobs \subseteq jobs'
        /\ \A j \in jobs' \ jobs : insertBrowserImportReport(c) /\ j = JobOf(c)
    BY DEF CallStep, PostReport, Post, RefuseCaller, ValidateReport, insertBrowserImportReport,
           InsertFails, SendReceipt, ReadAnswer, LoseAnswer
  <1>6. CallTrue(c)' /\ (old.step \in {"inserted", "answered"} =>
                           /\ new.step \in {"inserted", "answered"}
                           /\ \/ new.step = old.step /\ new.answer = old.answer
                              \/ old.step = "inserted" /\ new.answer \in {"recorded", "import_report_create_failed"})
    <2>0. CallTrue(c)
      BY DEF Recorded
    <2>1. CASE PostReport(c) \/ \E body \in OtherReports \cup {Junk} : Post(c, body)
      <3>1. old.step = "idle" /\ new.step = "sent" /\ new.result = old.result
        BY <1>1, <1>2, <2>1 DEF PostReport, Post, CallRecords
      <3> QED
        BY <2>0, <3>1 DEF CallTrue
    <2>2. CASE RefuseCaller(c) \/ ValidateReport(c)
      <3>1. old.step = "sent" /\ new.result = old.result
            /\ \/ new.step = "insert"
               \/ new.step = "answered" /\ new.answer \in Errors
        BY <1>1, <1>2, <2>2 DEF RefuseCaller, ValidateReport, Answer, CallRecords, Errors
      <3>2. "recorded" \notin Errors
        BY DEF Errors
      <3> QED
        BY <2>0, <3>1, <3>2 DEF CallTrue
    <2>3. CASE insertBrowserImportReport(c)
      <3>1. /\ old.step = "insert" /\ new.step = "inserted" /\ new.result = old.result
            /\ JobOf(c) \in jobs'
        BY <1>1, <1>2, <2>3 DEF insertBrowserImportReport, CallRecords
      <3> QED
        BY <1>4, <2>0, <3>1 DEF CallTrue
    <2>4. CASE InsertFails(c) \/ SendReceipt(c)
      <3>1. /\ old.step \in {"insert", "inserted"} /\ new.step = "answered" /\ new.result = old.result
            /\ new.answer \in {"recorded", "import_report_create_failed"}
            /\ new.answer = "recorded" => old.step = "inserted"
        BY <1>1, <1>2, <2>4 DEF InsertFails, SendReceipt, Answer, CallRecords
      <3> QED
        BY <1>4, <1>5, <2>0, <3>1 DEF CallTrue
    <2>5. CASE ReadAnswer(c) \/ LoseAnswer(c)
      <3>1. /\ old.step # "idle" /\ new.step = old.step /\ new.answer = old.answer
            /\ \/ new.result = "import_report_record_failed"
               \/ new.step = "answered" /\ new.result = new.answer
        BY <1>1, <1>2, <2>5 DEF ReadAnswer, LoseAnswer, CallRecords
      <3> QED
        BY <1>4, <1>5, <2>0, <3>1 DEF CallTrue
    <2> QED
      BY <2>1, <2>2, <2>3, <2>4, <2>5 DEF CallStep
  <1>7. ASSUME NEW d \in Calls, d # c PROVE CallTrue(d)'
    BY <1>2, <1>3, <1>5, <1>7 DEF CallTrue, Recorded
  <1>8. ASSUME NEW j \in jobs PROVE JobTrue(j)'
    <2>1. JobTrue(j)
      BY DEF Recorded
    <2>2. CASE j.by # c
      BY <1>2, <1>3, <2>1, <2>2 DEF JobTrue
    <2>3. CASE j.by = c
      <3>1. old.step \in {"inserted", "answered"} /\ old.step # "idle"
        BY <2>1, <2>3 DEF JobTrue
      <3> QED
        BY <1>1, <1>4, <1>6, <2>1, <2>3, <3>1 DEF JobTrue
    <2> QED
      BY <2>2, <2>3
  <1>9. ASSUME NEW j \in jobs' \ jobs PROVE JobTrue(j)'
    <2>1. old.step = "insert" /\ new.step = "inserted" /\ new.body = old.body /\ j = JobOf(c)
      BY <1>1, <1>2, <1>5, <1>9 DEF insertBrowserImportReport, CallRecords
    <2>2. validateBrowserImportReportRequest(old.body)
      BY <2>1 DEF Validated
    <2>3. j.by = c /\ j = JobOf(c)'
      BY <1>4, <2>1 DEF JobOf
    <2> QED
      BY <2>1, <2>2, <2>3 DEF JobTrue
  <1> QED
    BY <1>6, <1>7, <1>8, <1>9 DEF Recorded

-----------------------------------------------------------------------------
(* The sorting of the rows. *)

EntriesRight ==
    \A k \in DOMAIN accepted :
      LET n == accepted[k].row - 1
      IN  n \in 1 .. seen /\ IsGood(n) /\ accepted[k].key = records[n].key

IssuesRight ==
    \A k \in DOMAIN issues :
      LET n == issues[k].row - 1
      IN  n \in 1 .. seen /\ ~IsGood(n) /\ IsRightIssue(issues[k])

NoneForgotten ==
    \A n \in 1 .. seen :
      IF IsGood(n) THEN \E k \in DOMAIN accepted : accepted[k].row = n + 1
                   ELSE \E k \in DOMAIN issues : issues[k].row = n + 1

(* The map has the good row of each key. *)
FirstRight ==
    \A key \in Keys :
      IF firstRow[key] = 0
        THEN \A n \in 1 .. seen : records[n].fails = {} => records[n].key # key
        ELSE LET n == firstRow[key] - 1
             IN  /\ n \in 1 .. seen /\ IsGood(n)
                 /\ records[n].fails = {} /\ records[n].key = key

InOrder ==
    /\ Ascends(accepted) /\ Ascends(issues)
    /\ Len(accepted) + Len(issues) = seen

Sorted == EntriesRight /\ IssuesRight /\ NoneForgotten /\ FirstRight /\ InOrder

(* Whether the next row is good is what the map says. *)
LEMMA NextIsGood ==
    ASSUME TypeOK, FirstRight, seen < Len(records)
    PROVE  LET row == records[seen + 1]
           IN  IsGood(seen + 1) <=> row.fails = {} /\ firstRow[row.key] = 0
  <1> DEFINE row == records[seen + 1]
  <1>1. /\ seen \in Nat /\ row.key \in Keys /\ firstRow[row.key] \in Nat
    BY NextRow DEF TypeOK
  <1>2. \A m : m \in 1 .. (seen + 1) - 1 <=> m \in 1 .. seen
    BY <1>1
  <1>3. CASE firstRow[row.key] = 0
    BY <1>1, <1>2, <1>3 DEF FirstRight, IsGood
  <1>4. CASE firstRow[row.key] # 0
    BY <1>1, <1>2, <1>4 DEF FirstRight, IsGood
  <1> QED
    BY <1>3, <1>4

LEMMA AcceptSorts ==
    ASSUME TypeOK, Sorted, AcceptRow
    PROVE  Sorted'
  <1> DEFINE row == records[seen + 1]
             n == seen + 1
             entry == [row |-> n + 1, key |-> row.key]
             a == Len(accepted)
  <1>1. /\ n \in 1 .. Len(records) /\ seen \in Nat /\ row \in Rows /\ row.key \in Keys
        /\ seen < Len(records) /\ RowIndex(n) = n + 1
    BY NextRow DEF AcceptRow, TypeOK, RowIndex
  <1>2. /\ seen' = n /\ accepted' = Append(accepted, entry)
        /\ firstRow' = [firstRow EXCEPT ![row.key] = n + 1]
        /\ UNCHANGED <<records, issues>> /\ row.fails = {} /\ firstRow[row.key] = 0
    BY <1>1 DEF AcceptRow
  <1>3. IsGood(n)
    BY <1>1, <1>2, NextIsGood DEF Sorted
  <1>4. /\ \A m : IsGood(m)' <=> IsGood(m)
        /\ \A issue : IsRightIssue(issue)' <=> IsRightIssue(issue)
    BY <1>2 DEF IsGood, IsRightIssue
  <1>5. /\ a \in Nat /\ DOMAIN accepted = 1 .. a /\ DOMAIN accepted' = 1 .. a + 1
        /\ Len(accepted') = a + 1 /\ accepted'[a + 1] = entry
        /\ \A k \in 1 .. a : accepted'[k] = accepted[k]
        /\ Len(issues) \in Nat
    BY <1>2 DEF TypeOK
  <1> HIDE DEF a, row
  <1>6. EntriesRight'
    BY <1>1, <1>2, <1>3, <1>4, <1>5 DEF Sorted, EntriesRight, row
  <1>7. IssuesRight'
    BY <1>1, <1>2, <1>4 DEF Sorted, IssuesRight
  <1>8. NoneForgotten'
    <2> SUFFICES ASSUME NEW m \in 1 .. n
                 PROVE  IF IsGood(m) THEN \E k \in DOMAIN accepted' : accepted'[k].row = m + 1
                                     ELSE \E k \in DOMAIN issues : issues[k].row = m + 1
      BY <1>2, <1>4 DEF NoneForgotten
    <2>1. CASE m = n
      BY <1>3, <1>5, <2>1
    <2>2. CASE m \in 1 .. seen
      BY <1>5, <2>2 DEF Sorted, NoneForgotten
    <2> QED
      BY <1>1, <2>1, <2>2
  <1>9. FirstRight'
    <2> SUFFICES ASSUME NEW key \in Keys
                 PROVE  IF firstRow'[key] = 0
                          THEN \A m \in 1 .. n : records[m].fails = {} => records[m].key # key
                          ELSE LET m == firstRow'[key] - 1
                               IN  /\ m \in 1 .. n /\ IsGood(m)
                                   /\ records[m].fails = {} /\ records[m].key = key
      BY <1>2, <1>4 DEF FirstRight
    <2>0. firstRow \in [Keys -> Nat]
      BY DEF TypeOK
    <2>1. CASE key = row.key
      <3>1. firstRow'[key] = n + 1 /\ firstRow'[key] # 0
        BY <1>1, <1>2, <2>0, <2>1
      <3>2. firstRow'[key] - 1 = n /\ n \in 1 .. n
        BY <1>1, <3>1
      <3> QED
        BY <1>2, <1>3, <2>1, <3>1, <3>2 DEF row
    <2>2. CASE key # row.key
      <3>1. firstRow'[key] = firstRow[key] /\ firstRow[key] \in Nat
        BY <1>2, <2>0, <2>2
      <3>2. CASE firstRow[key] = 0
        BY <1>1, <2>2, <3>1, <3>2 DEF Sorted, FirstRight, row
      <3>3. CASE firstRow[key] # 0
        BY <1>1, <3>1, <3>3 DEF Sorted, FirstRight
      <3> QED
        BY <3>2, <3>3
    <2> QED
      BY <2>1, <2>2
  <1>10. InOrder'
    <2>1. \A k \in 1 .. a : accepted[k].row < entry.row
      <3> SUFFICES ASSUME NEW k \in 1 .. a PROVE accepted[k].row < entry.row
        OBVIOUS
      <3>1. accepted[k] \in Entries
        BY <1>5 DEF TypeOK
      <3>2. accepted[k].row \in Nat
        BY <3>1 DEF Entries
      <3>3. accepted[k].row - 1 \in 1 .. seen
        BY <1>5 DEF Sorted, EntriesRight
      <3> QED
        BY <1>1, <3>2, <3>3
    <2>2. Ascends(accepted')
      BY <1>5, <2>1 DEF Sorted, InOrder, Ascends
    <2> QED
      BY <1>1, <1>2, <1>5, <2>2 DEF Sorted, InOrder, a, Ascends
  <1> QED
    BY <1>6, <1>7, <1>8, <1>9, <1>10 DEF Sorted

LEMMA ReportSorts ==
    ASSUME TypeOK, Sorted, ReportRow
    PROVE  Sorted'
  <1> DEFINE row == records[seen + 1]
             n == seen + 1
             issue == IssueOf(row, n + 1)
             a == Len(issues)
  <1>1. /\ n \in 1 .. Len(records) /\ seen \in Nat /\ row \in Rows /\ row.key \in Keys
        /\ seen < Len(records) /\ RowIndex(n) = n + 1
    BY NextRow DEF ReportRow, TypeOK, RowIndex
  <1>2. /\ seen' = n /\ issues' = Append(issues, issue)
        /\ UNCHANGED <<records, accepted, firstRow>> /\ (row.fails # {} \/ firstRow[row.key] # 0)
    BY <1>1 DEF ReportRow
  <1>3. ~IsGood(n)
    BY <1>1, <1>2, NextIsGood DEF Sorted
  <1>4. /\ \A m : IsGood(m)' <=> IsGood(m)
        /\ \A i : IsRightIssue(i)' <=> IsRightIssue(i)
    BY <1>2 DEF IsGood, IsRightIssue
  <1>5. /\ a \in Nat /\ DOMAIN issues = 1 .. a /\ DOMAIN issues' = 1 .. a + 1
        /\ Len(issues') = a + 1 /\ issues'[a + 1] = issue
        /\ \A k \in 1 .. a : issues'[k] = issues[k]
        /\ Len(accepted) \in Nat
    BY <1>2 DEF TypeOK
  <1>6. issue.row = n + 1 /\ n = issue.row - 1
    BY <1>1 DEF IssueOf
  <1>7. IsRightIssue(issue)
    <2>1. CASE row.fails # {}
      <3>1. issue.of = 0 /\ issue.reason = Refusal(row)
        BY <2>1 DEF IssueOf
      <3> HIDE DEF issue, row
      <3>2. \E i \in DOMAIN Checks :
              /\ issue.reason = Checks[i] /\ Checks[i] \in row.fails
              /\ \A j \in 1 .. i - 1 : Checks[j] \notin row.fails
        BY <1>1, <2>1, <3>1, FirstRefusal
      <3> QED
        BY <1>6, <2>1, <3>1, <3>2 DEF IsRightIssue, row
    <2>2. CASE row.fails = {}
      <3> DEFINE m == firstRow[row.key] - 1
      <3>1. issue.of = firstRow[row.key] /\ issue.reason = "duplicate" /\ firstRow[row.key] \in Nat
        BY <1>1, <2>2 DEF IssueOf, TypeOK
      <3>2. m \in 1 .. seen /\ IsGood(m) /\ records[m].key = row.key
        BY <1>1, <1>2, <2>2 DEF Sorted, FirstRight
      <3>3. m \in 1 .. n - 1 /\ issue.of = m + 1
        BY <1>1, <3>1, <3>2
      <3> QED
        BY <1>6, <2>2, <3>1, <3>2, <3>3 DEF IsRightIssue, IsDuplicate
    <2> QED
      BY <2>1, <2>2
  <1> HIDE DEF a, row, issue
  <1>8. EntriesRight' /\ FirstRight'
    <2>1. EntriesRight'
      BY <1>1, <1>2, <1>4 DEF Sorted, EntriesRight
    <2>2. FirstRight'
      <3> SUFFICES ASSUME NEW key \in Keys
                   PROVE  IF firstRow[key] = 0
                            THEN \A m \in 1 .. n : records[m].fails = {} => records[m].key # key
                            ELSE LET m == firstRow[key] - 1
                                 IN  /\ m \in 1 .. n /\ IsGood(m)
                                     /\ records[m].fails = {} /\ records[m].key = key
        BY <1>2, <1>4 DEF FirstRight
      <3>1. CASE firstRow[key] = 0
        <4>1. \A m \in 1 .. n : m \in 1 .. seen \/ m = n
          BY <1>1
        <4> QED
          BY <1>2, <3>1, <4>1 DEF Sorted, FirstRight, row
      <3>2. CASE firstRow[key] # 0
        BY <1>1, <3>2 DEF Sorted, FirstRight
      <3> QED
        BY <3>1, <3>2
    <2> QED
      BY <2>1, <2>2
  <1>9. IssuesRight'
    BY <1>1, <1>2, <1>3, <1>4, <1>5, <1>6, <1>7 DEF Sorted, IssuesRight
  <1>10. NoneForgotten'
    <2> SUFFICES ASSUME NEW m \in 1 .. n
                 PROVE  IF IsGood(m) THEN \E k \in DOMAIN accepted : accepted[k].row = m + 1
                                     ELSE \E k \in DOMAIN issues' : issues'[k].row = m + 1
      BY <1>2, <1>4 DEF NoneForgotten
    <2>1. CASE m = n
      BY <1>3, <1>5, <1>6, <2>1
    <2>2. CASE m \in 1 .. seen
      BY <1>5, <2>2 DEF Sorted, NoneForgotten
    <2> QED
      BY <1>1, <2>1, <2>2
  <1>11. InOrder'
    <2>1. \A k \in 1 .. a : issues[k].row < issue.row
      <3> SUFFICES ASSUME NEW k \in 1 .. a PROVE issues[k].row < issue.row
        OBVIOUS
      <3>1. issues[k] \in Issues
        BY <1>5 DEF TypeOK
      <3>2. issues[k].row \in Int
        BY <3>1 DEF Issues
      <3>3. issues[k].row - 1 \in 1 .. seen
        BY <1>5 DEF Sorted, IssuesRight
      <3> QED
        BY <1>1, <1>6, <3>2, <3>3
    <2>2. Ascends(issues')
      BY <1>5, <2>1 DEF Sorted, InOrder, Ascends
    <2> QED
      BY <1>1, <1>2, <1>5, <2>2 DEF Sorted, InOrder, a, Ascends
  <1> QED
    BY <1>8, <1>9, <1>10, <1>11 DEF Sorted

LEMMA SortedKept ==
    ASSUME Sorted, UNCHANGED <<records, seen, accepted, issues, firstRow>>
    PROVE  Sorted'
  <1>1. /\ \A m : IsGood(m)' <=> IsGood(m)
        /\ \A i : IsRightIssue(i)' <=> IsRightIssue(i)
    BY DEF IsGood, IsRightIssue
  <1>2. EntriesRight'
    BY <1>1 DEF Sorted, EntriesRight
  <1>3. IssuesRight'
    BY <1>1 DEF Sorted, IssuesRight
  <1>4. NoneForgotten'
    BY <1>1 DEF Sorted, NoneForgotten
  <1>5. FirstRight'
    BY <1>1 DEF Sorted, FirstRight
  <1>6. InOrder'
    BY DEF Sorted, InOrder, Ascends
  <1> QED
    BY <1>2, <1>3, <1>4, <1>5, <1>6 DEF Sorted

LEMMA SortedStep ==
    ASSUME TypeOK, Unsorted, Sorted, ImportStep
    PROVE  Sorted'
  <1>1. CASE step = "parse"
    <2>1. /\ seen = 0 /\ accepted = <<>> /\ issues = <<>> /\ firstRow = [k \in Keys |-> 0]
          /\ UNCHANGED <<seen, accepted, issues, firstRow>>
      BY <1>1 DEF Unsorted, ImportStep, FinishRow, RefuseFile, FinishParsing, ReportRow, AcceptRow,
                  FinishAnalysis, BuildPlan, PlanFails, FinishPlan, PlanItem
    <2>2. EntriesRight' /\ IssuesRight' /\ NoneForgotten' /\ FirstRight'
      BY <2>1 DEF EntriesRight, IssuesRight, NoneForgotten, FirstRight
    <2>3. InOrder'
      BY <2>1 DEF Sorted, InOrder
    <2> QED
      BY <2>2, <2>3 DEF Sorted
  <1>2. CASE step # "parse" /\ ~ReportRow /\ ~AcceptRow
    <2>1. UNCHANGED <<records, seen, accepted, issues, firstRow>>
      BY <1>2 DEF ImportStep, FinishRow, RefuseFile, FinishParsing, FinishAnalysis, BuildPlan,
                  PlanFails, FinishPlan, PlanItem
    <2> QED
      BY <2>1, SortedKept
  <1> QED
    BY <1>1, <1>2, ReportSorts, AcceptSorts

(* Once there is a report, all rows have been sorted. *)
Finished == Analyzed => seen = Len(records)

LEMMA FinishedStep ==
    ASSUME Finished, ImportStep
    PROVE  Finished'
  BY DEF Finished, Analyzed, ImportStep, FinishRow, RefuseFile, FinishParsing, ReportRow, AcceptRow,
         FinishAnalysis, BuildPlan, PlanFails, FinishPlan, PlanItem

-----------------------------------------------------------------------------
(* The invariant, and what follows from it. *)

IInv ==
    /\ TypeOK /\ Unsorted /\ Finished /\ PlanFollows /\ Sorted
    /\ Validated /\ Recorded

LEMMA ImportKept ==
    ASSUME Unsorted, Finished, PlanFollows, Sorted,
           UNCHANGED <<step, records, seen, accepted, issues, firstRow, items>>
    PROVE  Unsorted' /\ Finished' /\ PlanFollows' /\ Sorted'
  <1>1. Sorted'
    BY SortedKept
  <1>2. Unsorted' /\ Finished' /\ PlanFollows'
    BY DEF Unsorted, Finished, Analyzed, PlanFollows
  <1> QED
    BY <1>1, <1>2

LEMMA CallsKept ==
    ASSUME Validated, Recorded, UNCHANGED <<call, jobs>>
    PROVE  Validated' /\ Recorded'
  <1>1. \A c : JobOf(c)' = JobOf(c)
    BY DEF JobOf
  <1>2. \A c \in Calls : CallTrue(c)'
    BY <1>1 DEF Recorded, CallTrue
  <1>3. \A j \in jobs' : JobTrue(j)'
    BY <1>1 DEF Recorded, JobTrue
  <1>4. Validated'
    BY DEF Validated
  <1> QED
    BY <1>2, <1>3, <1>4 DEF Recorded

LEMMA InvInit ==
    ASSUME Init
    PROVE  IInv
  <1> USE DEF Init
  <1>1. IdleCall \in CallRecords
    BY DEF IdleCall, CallRecords, CallSteps
  <1>2. TypeOK
    BY <1>1, BrowserImportAssumption DEF TypeOK, ImportSteps, CallRecords
  <1>3. Unsorted /\ Finished /\ PlanFollows
    BY DEF Unsorted, Finished, Analyzed, PlanFollows
  <1>4. EntriesRight /\ IssuesRight /\ NoneForgotten /\ FirstRight /\ InOrder
    BY DEF EntriesRight, IssuesRight, NoneForgotten, FirstRight, InOrder, Ascends
  <1>5. Validated /\ Recorded
    BY DEF Validated, Recorded, CallTrue, IdleCall
  <1> QED
    BY <1>2, <1>3, <1>4, <1>5 DEF IInv, Sorted

LEMMA InvNext ==
    ASSUME IInv, [Next]_vars
    PROVE  IInv'
  <1> USE DEF IInv
  <1>1. CASE ImportStep
    <2>1. UNCHANGED <<call, jobs>>
      BY <1>1, ImportKeepsCalls
    <2>2. ImportType' /\ Unsorted' /\ PlanFollows' /\ Sorted' /\ Finished'
      BY <1>1, ImportTypeStep, PlanStep, SortedStep, FinishedStep
    <2>3. TypeOK'
      BY <2>1, <2>2 DEF TypeOK, ImportType
    <2>4. Validated' /\ Recorded'
      BY <2>1, CallsKept
    <2> QED
      BY <2>2, <2>3, <2>4
  <1>2. ASSUME NEW c \in Calls, CallStep(c) PROVE IInv'
    <2>1. UNCHANGED import
      BY <1>2, CallKeepsImport
    <2>2. Unsorted' /\ Finished' /\ PlanFollows' /\ Sorted'
      <3>1. UNCHANGED <<step, records, seen, accepted, issues, firstRow, items>>
        BY <2>1 DEF import
      <3> QED
        BY <3>1, ImportKept
    <2>3. Validated' /\ Recorded'
      BY <1>2, ValidatedStep, RecordedStep
    <2>4. TypeOK'
      <3>1. call' \in [Calls -> CallRecords]
        BY <1>2, CallMoves
      <3>2. \A j \in jobs' :
              j \in [by : Calls, total : Int, accepted : Int, malformed : Int,
                     duplicate : Int, duplicates : SUBSET Issues, malformed_rows : SUBSET Issues]
        <4>1. CASE jobs' = jobs
          BY <4>1 DEF TypeOK
        <4>2. CASE insertBrowserImportReport(c)
          <5>1. call[c].body \in Reports
            BY <4>2, ValidBody DEF insertBrowserImportReport, Validated
          <5> QED
            BY <4>2, <5>1, JobType DEF insertBrowserImportReport, TypeOK
        <4> QED
          BY <1>2, <4>1, <4>2
          DEF CallStep, PostReport, Post, RefuseCaller, ValidateReport, InsertFails, SendReceipt,
              ReadAnswer, LoseAnswer
      <3> QED
        BY <2>1, <3>1, <3>2 DEF TypeOK, import, CallRecords
    <2> QED
      BY <2>2, <2>3, <2>4
  <1>3. CASE UNCHANGED vars
    <2>1. UNCHANGED <<step, records, seen, accepted, issues, firstRow, items>>
          /\ UNCHANGED <<call, jobs>>
      BY <1>3 DEF vars, import
    <2>2. TypeOK'
      BY <2>1 DEF TypeOK
    <2> QED
      BY <2>1, <2>2, ImportKept, CallsKept
  <1> QED
    BY <1>1, <1>2, <1>3, StepCases

LEMMA InvHolds == Spec => []IInv
  BY InvInit, InvNext, PTL DEF Spec

(* The state keeps its type. *)
THEOREM TypeCorrect == Spec => []TypeOK
  <1>1. IInv => TypeOK
    BY DEF IInv
  <1> QED
    BY <1>1, InvHolds, PTL

(* What is sorted one row after the other is what the definition of a good row says. *)
THEOREM SortedAsDefined == Spec => []RowsAreSorted
  <1>1. ASSUME IInv PROVE RowsAreSorted
    <2> DEFINE good == {n \in 1 .. seen : IsGood(n)}
    <2>0. /\ seen \in Nat /\ \A k \in DOMAIN accepted : accepted[k] \in Entries
          /\ \A k \in DOMAIN issues : issues[k] \in Issues
      BY <1>1 DEF IInv, TypeOK
    <2>1. ASSUME NEW k \in DOMAIN accepted
          PROVE  accepted[k] \in {[row |-> n + 1, key |-> records[n].key] : n \in good}
      <3> DEFINE n == accepted[k].row - 1
      <3>1. n \in good /\ accepted[k].key = records[n].key
        BY <1>1 DEF IInv, Sorted, EntriesRight
      <3>2. accepted[k] = [row |-> n + 1, key |-> records[n].key]
        BY <2>0, <3>1 DEF Entries
      <3> QED
        BY <3>1, <3>2
    <2>2. ASSUME NEW n \in good
          PROVE  [row |-> n + 1, key |-> records[n].key] \in {accepted[k] : k \in DOMAIN accepted}
      <3>1. PICK k \in DOMAIN accepted : accepted[k].row = n + 1
        BY <1>1 DEF IInv, Sorted, NoneForgotten
      <3>2. n \in Nat /\ accepted[k] \in Entries /\ accepted[k].row - 1 = n
        BY <2>0, <3>1
      <3>3. accepted[k].key = records[n].key
        BY <1>1, <3>2 DEF IInv, Sorted, EntriesRight
      <3>4. accepted[k] = [row |-> n + 1, key |-> records[n].key]
        BY <3>1, <3>2, <3>3 DEF Entries
      <3> QED
        BY <3>4
    <2>3. ASSUME NEW k \in DOMAIN issues
          PROVE  issues[k].row \in {n + 1 : n \in (1 .. seen) \ good} /\ IsRightIssue(issues[k])
      <3> DEFINE n == issues[k].row - 1
      <3>1. n \in (1 .. seen) \ good /\ IsRightIssue(issues[k])
        BY <1>1 DEF IInv, Sorted, IssuesRight
      <3>2. issues[k].row = n + 1
        BY <2>0 DEF Issues
      <3> QED
        BY <3>1, <3>2
    <2>4. ASSUME NEW n \in (1 .. seen) \ good PROVE n + 1 \in ListedRows(issues)
      BY <1>1 DEF IInv, Sorted, NoneForgotten, ListedRows
    <2>5. {accepted[k] : k \in DOMAIN accepted}
            = {[row |-> n + 1, key |-> records[n].key] : n \in good}
      BY <2>1, <2>2
    <2>6. ListedRows(issues) = {n + 1 : n \in (1 .. seen) \ good}
      BY <2>3, <2>4 DEF ListedRows
    <2>7. \A k \in DOMAIN issues : IsRightIssue(issues[k])
      BY <2>3
    <2>8. Len(accepted) + Len(issues) = seen
      BY <1>1 DEF IInv, Sorted, InOrder
    <2> QED
      BY <2>5, <2>6, <2>7, <2>8 DEF RowsAreSorted
  <1> QED
    BY <1>1, InvHolds, PTL

(* An issue of the analyzer's report is a right one, of a row that is not good. *)
LEMMA IssueKinds ==
    ASSUME IInv, NEW k \in DOMAIN issues
    PROVE  LET n == issues[k].row - 1
           IN  /\ n \in 1 .. seen /\ issues[k].row = n + 1
               /\ IF IsDuplicate(issues[k])
                    THEN \E m \in 1 .. n - 1 : issues[k].of = m + 1 /\ IsGood(m)
                    ELSE issues[k].of = 0
  <1> DEFINE n == issues[k].row - 1
  <1>1. issues[k] \in Issues
    BY DEF IInv, TypeOK
  <1>2. n \in 1 .. seen /\ IsRightIssue(issues[k])
    BY DEF IInv, Sorted, IssuesRight
  <1>3. CASE records[n].fails # {}
    <2>1. issues[k].of = 0 /\ \E i \in DOMAIN Checks : issues[k].reason = Checks[i]
      BY <1>2, <1>3 DEF IsRightIssue
    <2>2. ~IsDuplicate(issues[k])
      BY <2>1, ChecksAreRefusals DEF IsDuplicate
    <2> QED
      BY <1>1, <1>2, <2>1, <2>2 DEF Issues
  <1>4. CASE records[n].fails = {}
    <2>1. IsDuplicate(issues[k]) /\ \E m \in 1 .. n - 1 : issues[k].of = m + 1 /\ IsGood(m)
      BY <1>2, <1>4 DEF IsRightIssue
    <2> QED
      BY <1>1, <1>2, <2>1 DEF Issues
  <1> QED
    BY <1>3, <1>4

(* The API takes every report of the analyzer. *)
THEOREM ReportsAreValid == Spec => []ReportIsValid
  <1>1. ASSUME IInv, Analyzed PROVE validateBrowserImportReportRequest(Report)
    <2> DEFINE d == Cardinality(Duplicates(issues))
               total == Len(records)
    <2>1. /\ issues \in Seq(Issues) /\ Len(issues) \in Nat /\ DOMAIN issues = 1 .. Len(issues)
          /\ total \in Nat /\ total <= MaxImportRows /\ Len(accepted) \in Nat /\ MaxImportRows \in Nat
      BY <1>1, BrowserImportAssumption DEF IInv, TypeOK
    <2>2. d \in Nat /\ d <= Len(issues)
      BY <2>1, DuplicatesCounted
    <2>3. Len(accepted) + Len(issues) = total /\ seen = total
      BY <1>1 DEF IInv, Finished, Sorted, InOrder
    <2>4. Report = [total |-> total, accepted |-> Len(accepted), malformed |-> Len(issues) - d,
                    duplicate |-> d, issues |-> issues]
      BY DEF Report
    <2> HIDE DEF d, total
    <2>5. CountsFit(Report)
      <3>1. {total, Len(accepted), Len(issues) - d, d} \subseteq 0 .. MaxImportRows
        BY <2>1, <2>2, <2>3
      <3>2. Len(accepted) + (Len(issues) - d) + d = total
        BY <2>1, <2>2, <2>3
      <3> QED
        BY <2>4, <3>1, <3>2 DEF CountsFit, d
    <2>6. Len(issues) <= MaxImportRows
      BY <2>1, <2>3
    <2>7. ASSUME NEW i \in DOMAIN issues PROVE IssueFits(issues, i, total)
      <3> DEFINE n == issues[i].row - 1
      <3>1. /\ n \in 1 .. total /\ issues[i].row = n + 1
            /\ IF IsDuplicate(issues[i])
                 THEN \E m \in 1 .. n - 1 : issues[i].of = m + 1 /\ IsGood(m)
                 ELSE issues[i].of = 0
        BY <1>1, <2>3, IssueKinds
      <3>2. issues[i].row \in 2 .. total + 1
        BY <2>1, <3>1
      <3>3. i > 1 => issues[i].row > issues[i - 1].row
        <4> SUFFICES ASSUME i > 1 PROVE issues[i].row > issues[i - 1].row
          OBVIOUS
        <4>1. i - 1 \in DOMAIN issues /\ i - 1 < i
          BY <2>1
        <4>2. issues[i - 1].row \in Int /\ issues[i].row \in Int
          BY <2>1, <4>1, IssueRows
        <4> QED
          BY <1>1, <4>1, <4>2 DEF IInv, Sorted, InOrder, Ascends
      <3>4. IF IsDuplicate(issues[i]) THEN issues[i].of \in 2 .. issues[i].row - 1
                                      ELSE issues[i].of = 0
        BY <3>1
      <3> QED
        BY <3>2, <3>3, <3>4 DEF IssueFits
    <2>8. ASSUME NEW i \in DOMAIN issues, IsDuplicate(issues[i])
          PROVE  issues[i].of \notin ListedRows(issues)
      <3>1. PICK m \in Nat : issues[i].of = m + 1 /\ IsGood(m)
        BY <1>1, <2>8, IssueKinds
      <3>2. ASSUME NEW k \in DOMAIN issues, issues[k].row = m + 1 PROVE FALSE
        <4>1. issues[k].row - 1 = m
          BY <3>1, <3>2
        <4> QED
          BY <1>1, <3>1, <4>1 DEF IInv, Sorted, IssuesRight
      <3> QED
        BY <3>1, <3>2 DEF ListedRows
    <2>9. Report # Junk
      BY <1>1, ReportType, BrowserImportAssumption DEF IInv
    <2> QED
      BY <2>4, <2>5, <2>6, <2>7, <2>8, <2>9 DEF validateBrowserImportReportRequest
  <1>2. IInv => ReportIsValid
    BY <1>1 DEF ReportIsValid
  <1> QED
    BY <1>2, InvHolds, PTL

(* A plan and its report make up the file. *)
THEOREM PlansAreComplete == Spec => []PlanCompletesReport
  <1>1. ASSUME IInv, step = "planned"
        PROVE  /\ {items[i].entry.row : i \in DOMAIN items}
                    = (2 .. Len(records) + 1) \ ListedRows(issues)
               /\ \A i, j \in DOMAIN items : i # j => /\ items[i].id # items[j].id
                                                      /\ items[i].entry.row # items[j].entry.row
    <2>1. /\ DOMAIN items = DOMAIN accepted /\ DOMAIN items \subseteq Nat
          /\ \A i \in DOMAIN items : items[i].entry = accepted[i]
          /\ \A i, j \in DOMAIN items : i # j => items[i].id # items[j].id
          /\ seen = Len(records) /\ seen \in Nat
      BY <1>1 DEF IInv, PlanFollows, Finished, Analyzed, TypeOK
    <2>2. \A k \in DOMAIN accepted : accepted[k] \in Entries
      BY <1>1 DEF IInv, TypeOK
    <2>3. \A k \in DOMAIN accepted : accepted[k].row \in Nat
      BY <2>2 DEF Entries
    <2>4. \A k \in DOMAIN issues : issues[k].row \in Int
      BY <1>1, IssueRows DEF IInv, TypeOK
    <2>5. ASSUME NEW k \in DOMAIN accepted
          PROVE  accepted[k].row \in (2 .. seen + 1) \ ListedRows(issues)
      <3>1. accepted[k].row - 1 \in 1 .. seen /\ IsGood(accepted[k].row - 1)
        BY <1>1 DEF IInv, Sorted, EntriesRight
      <3>2. \A j \in DOMAIN issues : ~IsGood(issues[j].row - 1)
        BY <1>1 DEF IInv, Sorted, IssuesRight
      <3>3. accepted[k].row \notin ListedRows(issues)
        BY <3>1, <3>2 DEF ListedRows
      <3> QED
        BY <2>1, <2>3, <3>1, <3>3
    <2>6. ASSUME NEW row \in (2 .. seen + 1) \ ListedRows(issues)
          PROVE  \E k \in DOMAIN accepted : accepted[k].row = row
      <3>1. row - 1 \in 1 .. seen /\ row = (row - 1) + 1
        BY <2>1
      <3>2. ~\E k \in DOMAIN issues : issues[k].row = (row - 1) + 1
        BY <3>1 DEF ListedRows
      <3>3. \E k \in DOMAIN accepted : accepted[k].row = (row - 1) + 1
        BY <1>1, <3>1, <3>2 DEF IInv, Sorted, NoneForgotten
      <3> QED
        BY <3>1, <3>3
    <2>7. \A i, j \in DOMAIN items : i # j => items[i].entry.row # items[j].entry.row
      <3>1. \A i, j \in DOMAIN accepted : i < j => accepted[i].row < accepted[j].row
        BY <1>1 DEF IInv, Sorted, InOrder, Ascends
      <3> QED
        BY <2>1, <2>3, <3>1
    <2>8. {items[i].entry.row : i \in DOMAIN items} = (2 .. seen + 1) \ ListedRows(issues)
      BY <2>1, <2>5, <2>6
    <2> QED
      BY <2>1, <2>7, <2>8
  <1>2. IInv => PlanCompletesReport
    BY <1>1 DEF PlanCompletesReport
  <1> QED
    BY <1>2, InvHolds, PTL

(* Whoever posted it, a recorded report accounts for the rows of its file. *)
THEOREM JobsAccount == Spec => []JobsAccountForRows
  <1>1. ASSUME IInv, NEW j \in jobs
        PROVE  LET taken == (2 .. j.total + 1) \ {i.row : i \in j.duplicates \cup j.malformed_rows}
               IN  /\ Cardinality(taken) = j.accepted
                   /\ Cardinality(j.duplicates) = j.duplicate
                   /\ Cardinality(j.malformed_rows) = j.malformed
                   /\ \A d \in j.duplicates : d.of \in taken /\ d.of < d.row
    <2> DEFINE report == call[j.by].body
               list == report.issues
    <2>1. j.by \in Calls /\ j = JobOf(j.by) /\ validateBrowserImportReportRequest(report)
      BY <1>1 DEF IInv, Recorded, JobTrue
    <2>2. Accounts(report)
      BY <1>1, <2>1, ValidBody, ValidAccounts DEF IInv
    <2>3. /\ j.total = report.total /\ j.accepted = report.accepted
          /\ j.malformed = report.malformed /\ j.duplicate = report.duplicate
          /\ j.duplicates = {list[i] : i \in Duplicates(list)}
          /\ j.malformed_rows = {list[i] : i \in DOMAIN list \ Duplicates(list)}
      BY <2>1 DEF JobOf
    <2> HIDE DEF report
    <2> QED
      BY <2>2, <2>3 DEF Accounts
  <1>2. IInv => JobsAccountForRows
    BY <1>1 DEF JobsAccountForRows
  <1> QED
    BY <1>2, InvHolds, PTL

(* What the client is told is so. *)
THEOREM AnswersTrue == Spec => []AnswersAreTrue
  <1>1. ASSUME IInv, NEW c \in Calls, call[c].result = "recorded" PROVE JobOf(c) \in jobs
    <2>1. CallTrue(c) /\ None # "recorded"
      BY <1>1, BrowserImportAssumption DEF IInv, Recorded
    <2> QED
      BY <1>1, <2>1 DEF CallTrue
  <1>2. ASSUME IInv, NEW c \in Calls, NEW j \in jobs, j.by = c,
               call[c].result \in Errors \ {"import_report_create_failed"}
        PROVE  FALSE
    <2>1. CallTrue(c) /\ JobTrue(j) /\ None \notin Errors
      BY <1>2, BrowserImportAssumption DEF IInv, Recorded
    <2>2. "import_report_record_failed" \notin Errors /\ "recorded" \notin Errors
      BY DEF Errors
    <2>3. call[c].step = "answered" /\ call[c].result = call[c].answer
      BY <1>2, <2>1, <2>2 DEF CallTrue
    <2> QED
      BY <1>2, <2>1, <2>2, <2>3 DEF JobTrue
  <1>3. IInv => AnswersAreTrue
    BY <1>1, <1>2 DEF AnswersAreTrue
  <1> QED
    BY <1>3, InvHolds, PTL

(* The two together: jobs add up, and answers are true of them. *)
THEOREM RecordingTrue == Spec => []RecordingIsTrue
  <1>1. JobsAccountForRows /\ AnswersAreTrue => RecordingIsTrue
    BY DEF RecordingIsTrue
  <1> QED
    BY <1>1, JobsAccount, AnswersTrue, PTL
=============================================================================
