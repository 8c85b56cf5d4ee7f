---------------------------- MODULE BrowserImport ----------------------------
(***************************************************************************)
(* The import of a browser's CSV export: the analyzer that sorts its rows  *)
(* (browser-import.ts), the encrypted plan made of the accepted ones       *)
(* (encrypted-import-plan.ts), and the recording of the analyzer's report  *)
(* through the client (imports.ts) with the API's validator, written       *)
(* independently of the analyzer (import-service.ts).                      *)
(*                                                                         *)
(* No screen calls these yet.  The caller modelled does each as soon and   *)
(* as often as the results it needs allow; other clients of the API post   *)
(* whatever they like.  A row is reduced to the key it is compared by and  *)
(* to the checks that it would fail.                                       *)
(***************************************************************************)
EXTENDS Integers, Sequences, FiniteSets

CONSTANTS
    Sites, Usernames,    \* origins and NFC usernames
    FailSets,            \* sets of checks that a row fails
    DataRows,            \* BROWSER_IMPORT_LIMITS.dataRows, of the analyzer: no more
    MaxImportRows,       \* than MAX_IMPORT_ROWS, of the API
    Ids,
    Calls,               \* bound: posts to /imports/browser
    OtherReports,        \* bodies posted by other clients
    Junk,                \* a body that has not the shape of a report
    None

(* The checks of a row, in their order. *)
Checks == <<"empty_row", "malformed_row", "empty_url", "empty_password", "url_too_long",
            "username_too_long", "password_too_long", "name_too_long", "unsupported_note",
            "invalid_url", "unsupported_url_scheme">>

Refusals == {Checks[i] : i \in DOMAIN Checks}

Keys == Sites \X Usernames

Rows == [key : Keys, fails : FailSets]

(* of: duplicateOfRowIndex, 0 without. *)
Issues == [row : Int, reason : Refusals \cup {"duplicate"}, of : Int]

Reports == [total : Int, accepted : Int, malformed : Int, duplicate : Int, issues : Seq(Issues)]

(* The errors that the API answers with. *)
Errors == {"invalid_import_report", "missing_bearer_token", "invalid_token",
           "profile_not_found", "import_report_too_large", "unsupported_media_type", "import_report_create_failed"}

ASSUME BrowserImportAssumption ==
    /\ FailSets \subseteq SUBSET Refusals
    /\ DataRows \in Nat /\ MaxImportRows \in Nat /\ DataRows <= MaxImportRows
    /\ OtherReports \subseteq Reports
    /\ Junk \notin Reports
    /\ None \notin Errors \cup {"recorded", "import_report_record_failed"}

VARIABLES
    step,        \* of the caller's import
    records,     \* data rows of the CSV parsed so far
    seen,        \* of these, the rows the analyzer has sorted
    accepted,    \* acceptedEntries
    issues,
    firstRow,    \* firstRowByDuplicateKey, 0 where it has no entry
    items,       \* of the plan being made
    call,
    jobs         \* import_jobs, by the call that inserted the row

import == <<step, records, seen, accepted, issues, firstRow, items>>
vars == <<import, call, jobs>>

ImportSteps == {"parse", "analyze", "analyzed", "plan", "planned", "refused"}

Analyzed == step \in {"analyzed", "plan", "planned"}

CallSteps == {"idle", "sent", "insert", "inserted", "answered"}

IdleCall == [step |-> "idle", body |-> Junk, answer |-> None, result |-> None]

(***************************************************************************)
(* The analyzer.                                                           *)
(***************************************************************************)
(* The index of data row n in the file, whose first row is the header. *)
RowIndex(n) == n + 1

Failed(row) == {i \in DOMAIN Checks : Checks[i] \in row.fails}

(* The first check that a row fails. *)
Refusal(row) == Checks[CHOOSE i \in Failed(row) : \A j \in Failed(row) : i <= j]

(* What the analyzer makes of the next row: an issue, or an entry. *)
IssueOf(row, index) ==
    IF row.fails # {} THEN [row |-> index, reason |-> Refusal(row), of |-> 0]
                      ELSE [row |-> index, reason |-> "duplicate", of |-> firstRow[row.key]]

IsDuplicate(issue) == issue.reason = "duplicate"

Duplicates(list) == {i \in DOMAIN list : IsDuplicate(list[i])}

(* Seeded fault: duplicates are counted with the malformed rows. *)
reportAllAsMalformed ==
    [total |-> Len(records), accepted |-> Len(accepted), malformed |-> Len(issues),
     duplicate |-> Cardinality(Duplicates(issues)), issues |-> issues]

Report ==
    LET duplicateRows == Cardinality(Duplicates(issues))
    IN  [total |-> Len(records), accepted |-> Len(accepted),
         malformed |-> Len(issues) - duplicateRows, duplicate |-> duplicateRows,
         issues |-> issues]

Init ==
    /\ step = "parse" /\ records = <<>> /\ seen = 0
    /\ accepted = <<>> /\ issues = <<>> /\ items = <<>>
    /\ firstRow = [k \in Keys |-> 0]
    /\ call = [c \in Calls |-> IdleCall]
    /\ jobs = {}

(* A data row is complete. *)
FinishRow(row) ==
    /\ step = "parse" /\ Len(records) < DataRows
    /\ records' = Append(records, row)
    /\ UNCHANGED <<step, seen, accepted, issues, firstRow, items, call, jobs>>

(* The parser throws: one row too many, a quote out of place, a bad header.   *)
(* No row has been sorted.                                                    *)
RefuseFile ==
    /\ step = "parse"
    /\ step' = "refused" /\ records' = <<>>
    /\ UNCHANGED <<seen, accepted, issues, firstRow, items, call, jobs>>

FinishParsing ==
    /\ step = "parse"
    /\ step' = "analyze"
    /\ UNCHANGED <<records, seen, accepted, issues, firstRow, items, call, jobs>>

(* Seeded fault: the key is noted before the row is known to be good. *)
reportRowAndNoteKey ==
    LET row == records[seen + 1]
    IN  /\ step = "analyze" /\ seen < Len(records)
        /\ row.fails # {} \/ firstRow[row.key] # 0
        /\ issues' = Append(issues, IssueOf(row, RowIndex(seen + 1)))
        /\ firstRow' = [firstRow EXCEPT ![row.key] = IF @ = 0 THEN RowIndex(seen + 1) ELSE @]
        /\ seen' = seen + 1
        /\ UNCHANGED <<step, records, accepted, items, call, jobs>>

(* The next row is refused, or repeats the key of an accepted one. *)
ReportRow ==
    LET row == records[seen + 1]
    IN  /\ step = "analyze" /\ seen < Len(records)
        /\ row.fails # {} \/ firstRow[row.key] # 0
        /\ issues' = Append(issues, IssueOf(row, RowIndex(seen + 1)))
        /\ seen' = seen + 1
        /\ UNCHANGED <<step, records, accepted, firstRow, items, call, jobs>>

AcceptRow ==
    LET row == records[seen + 1]
    IN  /\ step = "analyze" /\ seen < Len(records)
        /\ row.fails = {} /\ firstRow[row.key] = 0
        /\ accepted' = Append(accepted, [row |-> RowIndex(seen + 1), key |-> row.key])
        /\ firstRow' = [firstRow EXCEPT ![row.key] = RowIndex(seen + 1)]
        /\ seen' = seen + 1
        /\ UNCHANGED <<step, records, issues, items, call, jobs>>

FinishAnalysis ==
    /\ step = "analyze" /\ seen = Len(records)
    /\ step' = "analyzed"
    /\ UNCHANGED <<records, seen, accepted, issues, firstRow, items, call, jobs>>

(***************************************************************************)
(* The plan.  One entry is sealed after the other; an error anywhere, an   *)
(* empty passphrase or a bad clock included, leaves no plan.               *)
(***************************************************************************)
BuildPlan ==
    /\ step \in {"analyzed", "planned"}
    /\ step' = "plan" /\ items' = <<>>
    /\ UNCHANGED <<records, seen, accepted, issues, firstRow, call, jobs>>

GeneratedIds == {items[i].id : i \in DOMAIN items}

(* Seeded fault: an id that is given twice is used twice. *)
planItemWithAnyId(id) ==
    /\ step = "plan" /\ Len(items) < Len(accepted)
    /\ id \in Ids
    /\ items' = Append(items, [id |-> id, entry |-> accepted[Len(items) + 1]])
    /\ UNCHANGED <<step, records, seen, accepted, issues, firstRow, call, jobs>>

PlanItem(id) ==
    /\ step = "plan" /\ Len(items) < Len(accepted)
    /\ id \in Ids \ GeneratedIds
    /\ items' = Append(items, [id |-> id, entry |-> accepted[Len(items) + 1]])
    /\ UNCHANGED <<step, records, seen, accepted, issues, firstRow, call, jobs>>

PlanFails ==
    /\ step = "plan"
    /\ step' = "analyzed" /\ items' = <<>>
    /\ UNCHANGED <<records, seen, accepted, issues, firstRow, call, jobs>>

FinishPlan ==
    /\ step = "plan" /\ Len(items) = Len(accepted)
    /\ step' = "planned"
    /\ UNCHANGED <<records, seen, accepted, issues, firstRow, items, call, jobs>>

(***************************************************************************)
(* The recording of a report.                                              *)
(***************************************************************************)
(* What the API asks of a body.  Its loop over the issues is the list of     *)
(* what it asks of each, given the one before.                               *)
IssueFits(list, i, total) ==
    LET issue == list[i]
    IN  /\ issue.row \in 2 .. total + 1
        /\ i > 1 => issue.row > list[i - 1].row
        /\ IF IsDuplicate(issue) THEN issue.of \in 2 .. issue.row - 1 ELSE issue.of = 0

ListedRows(list) == {list[i].row : i \in DOMAIN list}

CountsFit(report) ==
    LET duplicateCount == Cardinality(Duplicates(report.issues))
    IN  /\ {report.total, report.accepted, report.malformed, report.duplicate} \subseteq 0 .. MaxImportRows
        /\ report.accepted + report.malformed + report.duplicate = report.total
        /\ duplicateCount = report.duplicate
        /\ Len(report.issues) - duplicateCount = report.malformed

(* Seeded fault: a duplicate may be one of a row that was not accepted. *)
validateWithoutTargets(body) ==
    /\ body # Junk
    /\ CountsFit(body)
    /\ Len(body.issues) <= MaxImportRows
    /\ \A i \in DOMAIN body.issues : IssueFits(body.issues, i, body.total)

validateBrowserImportReportRequest(body) ==
    /\ body # Junk
    /\ CountsFit(body)
    /\ Len(body.issues) <= MaxImportRows
    /\ \A i \in DOMAIN body.issues : IssueFits(body.issues, i, body.total)
    /\ \A i \in DOMAIN body.issues :
         IsDuplicate(body.issues[i]) => body.issues[i].of \notin ListedRows(body.issues)

(* The row of import_jobs. *)
JobOf(c) ==
    LET report == call[c].body
        list == report.issues
    IN  [by |-> c, total |-> report.total, accepted |-> report.accepted,
         malformed |-> report.malformed, duplicate |-> report.duplicate,
         duplicates |-> {list[i] : i \in Duplicates(list)},
         malformed_rows |-> {list[i] : i \in DOMAIN list \ Duplicates(list)}]

Answer(c, answer) ==
    call' = [call EXCEPT ![c].step = "answered", ![c].answer = answer]

Post(c, body) ==
    /\ call[c].step = "idle"
    /\ call' = [call EXCEPT ![c].step = "sent", ![c].body = body]
    /\ UNCHANGED <<import, jobs>>

(* The caller posts its report, or posts it once more. *)
PostReport(c) == Analyzed /\ Post(c, Report)

(* The route or the service finds the caller, its token or its profile wanting,  *)
(* or fails to look them up.                                                     *)
RefuseCaller(c) ==
    /\ call[c].step = "sent"
    /\ \E e \in Errors \ {"invalid_import_report"} : Answer(c, e)
    /\ UNCHANGED <<import, jobs>>

ValidateReport(c) ==
    /\ call[c].step = "sent"
    /\ IF validateBrowserImportReportRequest(call[c].body)
         THEN call' = [call EXCEPT ![c].step = "insert"]
         ELSE Answer(c, "invalid_import_report")
    /\ UNCHANGED <<import, jobs>>

insertBrowserImportReport(c) ==
    /\ call[c].step = "insert"
    /\ jobs' = jobs \cup {JobOf(c)}
    /\ call' = [call EXCEPT ![c].step = "inserted"]
    /\ UNCHANGED import

(* The insertion fails, or it is done and its result does not come back well. *)
InsertFails(c) ==
    /\ call[c].step \in {"insert", "inserted"}
    /\ Answer(c, "import_report_create_failed")
    /\ UNCHANGED <<import, jobs>>

SendReceipt(c) ==
    /\ call[c].step = "inserted"
    /\ Answer(c, "recorded")
    /\ UNCHANGED <<import, jobs>>

(* The client reads the answer... *)
ReadAnswer(c) ==
    /\ call[c].step = "answered" /\ call[c].result = None
    /\ call' = [call EXCEPT ![c].result = call[c].answer]
    /\ UNCHANGED <<import, jobs>>

(* ... or never gets one it can read; the API goes on. *)
LoseAnswer(c) ==
    /\ call[c].step # "idle" /\ call[c].result = None
    /\ call' = [call EXCEPT ![c].result = "import_report_record_failed"]
    /\ UNCHANGED <<import, jobs>>

Next ==
    \/ \E row \in Rows : FinishRow(row)
    \/ RefuseFile \/ FinishParsing
    \/ ReportRow \/ AcceptRow \/ FinishAnalysis
    \/ BuildPlan \/ PlanFails \/ FinishPlan
    \/ \E id \in Ids : PlanItem(id)
    \/ \E c \in Calls :
         \/ PostReport(c)
         \/ \E body \in OtherReports \cup {Junk} : Post(c, body)
         \/ RefuseCaller(c) \/ ValidateReport(c)
         \/ insertBrowserImportReport(c) \/ InsertFails(c) \/ SendReceipt(c)
         \/ ReadAnswer(c) \/ LoseAnswer(c)

Spec == Init /\ [][Next]_vars

(***************************************************************************)
(* Properties.                                                             *)
(***************************************************************************)
(* The type of the state. *)
Entries == [row : Nat, key : Keys]

Answers == Errors \cup {"recorded"}

TypeOK ==
    /\ step \in ImportSteps
    /\ records \in Seq(Rows) /\ Len(records) <= DataRows /\ seen \in 0 .. Len(records)
    /\ accepted \in Seq(Entries) /\ issues \in Seq(Issues)
    /\ firstRow \in [Keys -> Nat]
    /\ items \in Seq([id : Ids, entry : Entries])
    /\ call \in [Calls -> [step : CallSteps, body : Reports \cup {Junk},
                          answer : Answers \cup {None},
                          result : Answers \cup {None, "import_report_record_failed"}]]
    /\ \A j \in jobs : j \in [by : Calls, total : Int, accepted : Int, malformed : Int,
                             duplicate : Int, duplicates : SUBSET Issues,
                             malformed_rows : SUBSET Issues]

(* The rows that an import should keep: they fail no check, and no such row before *)
(* them has their key.                                                             *)
IsGood(n) ==
    /\ records[n].fails = {}
    /\ \A m \in 1 .. n - 1 : records[m].fails = {} => records[m].key # records[n].key

(* The reason given for a row is the first of its failed checks; a duplicate is one *)
(* of the good row of its key, which precedes it.                                   *)
IsRightIssue(issue) ==
    LET n == issue.row - 1
    IN  IF records[n].fails # {}
          THEN /\ issue.of = 0
               /\ \E i \in DOMAIN Checks :
                    /\ issue.reason = Checks[i] /\ Checks[i] \in records[n].fails
                    /\ \A j \in 1 .. i - 1 : Checks[j] \notin records[n].fails
          ELSE /\ IsDuplicate(issue)
               /\ \E m \in 1 .. n - 1 :
                    issue.of = m + 1 /\ IsGood(m) /\ records[m].key = records[n].key

(* analyzeBrowserImport in one pass with a map finds what the definition of a good   *)
(* row says, at every row: each row ends up once, as the entry or as the right issue. *)
RowsAreSorted ==
    LET good == {n \in 1 .. seen : IsGood(n)}
    IN  /\ {accepted[k] : k \in DOMAIN accepted}
             = {[row |-> n + 1, key |-> records[n].key] : n \in good}
        /\ ListedRows(issues) = {n + 1 : n \in (1 .. seen) \ good}
        /\ \A k \in DOMAIN issues : IsRightIssue(issues[k])
        /\ Len(accepted) + Len(issues) = seen

(* Whatever the CSV was, the API's validator takes the report that the analyzer makes *)
(* of it: two pieces of code that share no line agree on counts, order and targets.   *)
ReportIsValid ==
    Analyzed => validateBrowserImportReportRequest(Report)

(* A finished plan (buildEncryptedImportPlan) has an item, under an id of its own, for *)
(* every row that the report does not list, and no other.                              *)
PlanCompletesReport ==
    step = "planned" =>
      /\ {items[i].entry.row : i \in DOMAIN items}
           = (2 .. Len(records) + 1) \ ListedRows(issues)
      /\ \A i, j \in DOMAIN items :
           i # j => items[i].id # items[j].id /\ items[i].entry.row # items[j].entry.row

(* The two parts of RecordingIsTrue.  A report in import_jobs, whoever posted it,      *)
(* accounts for all of the file's rows:                                               *)
(* as many rows are not listed as it says were accepted, and a duplicate is one of    *)
(* an earlier row among these (recordBrowserImportReport).                            *)
JobsAccountForRows ==
    \A j \in jobs :
      LET taken == (2 .. j.total + 1) \ {i.row : i \in j.duplicates \cup j.malformed_rows}
      IN  /\ Cardinality(taken) = j.accepted
          /\ Cardinality(j.duplicates) = j.duplicate
          /\ Cardinality(j.malformed_rows) = j.malformed
          /\ \A d \in j.duplicates : d.of \in taken /\ d.of < d.row

(* What the client is told is so: with a receipt its report has been recorded, with an *)
(* error other than a failed creation or a lost answer it has not.                     *)
AnswersAreTrue ==
    \A c \in Calls :
      /\ call[c].result = "recorded" => JobOf(c) \in jobs
      /\ call[c].result \in Errors \ {"import_report_create_failed"} =>
           \A j \in jobs : j.by # c

(* What the API has recorded adds up, and what the client is told of it is so, whatever *)
(* is posted, fails or gets lost (import-service.ts, imports.ts).                       *)
RecordingIsTrue == JobsAccountForRows /\ AnswersAreTrue
=============================================================================
