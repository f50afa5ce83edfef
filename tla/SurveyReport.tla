---------------------------- MODULE SurveyReport ----------------------------
(***************************************************************************)
(* The report of a survey (api/survey_stat.go, app/report.go): a worker    *)
(* pages through the responses by id, saves each page as a file, merges    *)
(* the files, adds the survey's and the server's metadata and zips the     *)
(* result.  Meanwhile users answer, as ResponseLedger promises, other      *)
(* admins ask for reports, and in development builds /resetdata deletes    *)
(* everything.  One step per database or API call and per file operation   *)
(* whose failure is noticed.                                               *)
(***************************************************************************)
EXTENDS Naturals, FiniteSets

CONSTANTS
    SurveyID,
    ResponseID,   \* ids of responses: numbers, in the order of the ids
    Rating,       \* what a response says
    Report,       \* the reports admins ask for
    NoSurvey,
    PageSize,     \* rawResponsePerPage
    MaxFaults,    \* bound: failing calls
    MaxResets     \* bound: uses of /resetdata

ASSUME ReportAssumption ==
    /\ ResponseID \subseteq Nat \ {0}
    /\ NoSurvey \notin SurveyID
    /\ PageSize \in Nat \ {0}
    /\ MaxFaults \in Nat
    /\ MaxResets \in Nat

VARIABLES
    surveys,    \* the surveys of the survey table
    row,        \* row[i][s]: the response with id i, if it is one to s
    wiped,      \* the responses deleted by /resetdata
    reset,      \* the next step of /resetdata
    report,     \* report[g]: the progress of a report
    dir,        \* dir[k]: the directory survey_report/k of temporary files
    spent       \* how much of the bounds is used

tables == <<surveys, row, wiped>>
vars == <<tables, reset, report, dir, spent>>

----------------------------------------------------------------------------
AtMostOne(S) == {{}} \union {{x} : x \in S}

Response == [rating : Rating, type : {"partial", "complete"}]

\* A user has one response to a survey, so its id stands for the user too.
Ledger == INSTANCE ResponseLedger WITH User <- ResponseID

\* A line of the CSV, and a line with the number of the part it came from.
Line == [id : ResponseID, response : Response]

Lines == SUBSET (Nat \X Line)

\* pc names the call made next, or how the request ended; stored are the
\* responses there were when the report began; cut tells whether a page was
\* given to the worker shorter than it is.
ReportState ==
    [pc     : {"idle", "survey", "page", "merge", "clean", "stat", "packet",
               "zip", "remove", "open", "done", "error", "panic"},
     survey : SurveyID \union {NoSurvey},
     cursor : ResponseID \union {0},
     part   : Nat,
     stored : SUBSET ResponseID,
     cut    : BOOLEAN]

NotAsked == [pc |-> "idle", survey |-> NoSurvey, cursor |-> 0, part |-> 0,
             stored |-> {}, cut |-> FALSE]

\* The pages, the merged CSV, the two metadata files and the archive; a file
\* that may be missing is a set of at most one.
Directory ==
    [parts : SUBSET (Nat \X SUBSET Line),
     csv   : SUBSET Lines,
     meta  : SUBSET {"survey", "server"},
     zip   : SUBSET Lines]

EmptyDirectory == [parts |-> {}, csv |-> {}, meta |-> {}, zip |-> {}]

\* The key generateSurveyReport draws: every report has its own.
NewID(g) == g

Files(g) == dir[NewID(g)]

At(q, pc) == [q EXCEPT !.pc = pc]

Goto(g, pc) == report' = [report EXCEPT ![g] = At(@, pc)]

Store(g, files) == dir' = [dir EXCEPT ![NewID(g)] = files]

Fault == /\ spent.faults < MaxFaults
         /\ spent' = [spent EXCEPT !.faults = @ + 1]

Stored(s) == {i \in ResponseID : row[i][s] # {}}

Asked(q, s) == [At(q, "survey") EXCEPT !.survey = s]

Begun(q) == [At(q, "page") EXCEPT !.stored = Stored(q.survey)]

Cut(q) == [q EXCEPT !.cut = TRUE]

----------------------------------------------------------------------------
\* Mutated form: the rows of any survey.
Selected_AnySurvey(s, cursor) ==
    {i \in UNION {Stored(t) : t \in SurveyID} : i > cursor}

\* The WHERE clauses of GetAllResponses.
Selected(s, cursor) == {i \in Stored(s) : i > cursor}

\* Mutated form: no ORDER BY.
IsPage_Unordered(P, S) ==
    \/ Cardinality(P) = PageSize
    \/ P = S /\ Cardinality(P) < PageSize

\* ORDER BY id: P comes before the rest of S.
IsFirst(P, S) == \A i \in P, j \in S \ P : i < j

\* LIMIT: P is what the query returns of S.
IsPage(P, S) ==
    /\ IsFirst(P, S)
    /\ \/ Cardinality(P) = PageSize
       \/ P = S /\ Cardinality(P) < PageSize

\* The rows of a page that arrived before its query broke off.
IsBroken(P, S) ==
    /\ IsFirst(P, S)
    /\ Cardinality(P) < PageSize
    /\ P # S

\* The lines ToReportRow makes of a page.
LinesOf(P) ==
    {l \in Line : l.id \in P /\ \E s \in SurveyID : l.response \in row[l.id][s]}

\* A part is written over one of the same number.
WithPart(files, n, lines) ==
    [files EXCEPT !.parts = {p \in @ : p[1] # n} \union {<<n, lines>>}]

\* mergeParts appends the parts 0 to n - 1 to one another.
Merged(files, n) ==
    UNION {{<<p[1], l>> : l \in p[2]} : p \in {q \in files.parts : q[1] < n}}

PartMissing(files, n) == \E m \in 0..(n - 1) : \A p \in files.parts : p[1] # m

\* Mutated form: the loop runs up to totalParts inclusive.
MergeLimit_Inclusive(g) == report[g].part + 1

\* totalParts of mergeParts.
MergeLimit(g) == report[g].part

\* Mutated form: the id kept is the survey's.
Paged_OtherId(q, last, pc) == [At(q, pc) EXCEPT !.cursor = q.survey, !.part = @ + 1]

\* A page was saved and last, the id of its last response, is kept.
Paged(q, last, pc) == [At(q, pc) EXCEPT !.cursor = last, !.part = @ + 1]

----------------------------------------------------------------------------
\* handleGenerateSurveyReport, for a survey the console lists or once listed.
Ask(g, s) ==
    /\ report[g].pc = "idle"
    /\ report' = [report EXCEPT ![g] = Asked(@, s)]
    /\ UNCHANGED <<tables, reset, dir, spent>>

\* GetSurveysByID returns nil for a survey that is not there, and
\* generateRawResponseCSV reads its questions.
GetSurvey(g) ==
    /\ report[g].pc = "survey"
    /\ IF report[g].survey \in surveys
       THEN report' = [report EXCEPT ![g] = Begun(@)]
       ELSE Goto(g, "panic")
    /\ UNCHANGED <<tables, reset, dir, spent>>

\* saveTempCSVData with the list P, of a report in state q: an empty list is
\* not saved, and one that is not full is taken for the last page.
SavePage(g, q, P) ==
    \/ /\ P = {}
       /\ report' = [report EXCEPT ![g] = At(q, "merge")]
       /\ UNCHANGED dir
    \/ \E last \in P :
         /\ \A i \in P : i <= last
         /\ report' = [report EXCEPT ![g] =
              Paged(q, last, IF Cardinality(P) < PageSize THEN "merge" ELSE "page")]
         /\ Store(g, WithPart(Files(g), q.part, LinesOf(P)))

\* GetAllResponses returns a page.
GetPage(g) ==
    /\ report[g].pc = "page"
    /\ LET selected == Selected(report[g].survey, report[g].cursor) IN
       \E P \in SUBSET selected :
         IsPage(P, selected) /\ SavePage(g, report[g], P)
    /\ UNCHANGED <<tables, reset, spent>>

\* The query breaks off while its rows are read: surveyResponsesFromRows ends
\* its loop without asking for rows.Err(), and returns what it has and no error.
PageBreaksOff(g) ==
    /\ report[g].pc = "page"
    /\ Fault
    /\ LET selected == Selected(report[g].survey, report[g].cursor) IN
       \E P \in SUBSET selected :
         IsBroken(P, selected) /\ SavePage(g, Cut(report[g]), P)
    /\ UNCHANGED <<tables, reset>>

MergeParts(g) ==
    /\ report[g].pc = "merge"
    /\ IF PartMissing(Files(g), MergeLimit(g))
       THEN Goto(g, "error") /\ UNCHANGED dir
       ELSE /\ Goto(g, "clean")
            /\ Store(g, [Files(g) EXCEPT !.csv = {Merged(Files(g), MergeLimit(g))}])
    /\ UNCHANGED <<tables, reset, spent>>

\* Mutated form: the parts are not removed.
RemoveParts_Forgotten(g) ==
    /\ report[g].pc = "clean"
    /\ Goto(g, "stat")
    /\ UNCHANGED <<tables, reset, dir, spent>>

\* A failure to remove the parts is only logged.
RemoveParts(g) ==
    /\ report[g].pc = "clean"
    /\ Goto(g, "stat")
    /\ \/ Store(g, [Files(g) EXCEPT !.parts = {}]) /\ UNCHANGED spent
       \/ Fault /\ UNCHANGED dir
    /\ UNCHANGED <<tables, reset>>

\* generateSurveyMetadataFile: GetSurveyStat returns nil for a survey that is
\* not there any more, and ToMetadata reads its fields.
SurveyMetadata(g) ==
    /\ report[g].pc = "stat"
    /\ IF report[g].survey \in surveys
       THEN /\ Goto(g, "packet")
            /\ Store(g, [Files(g) EXCEPT !.meta = @ \union {"survey"}])
       ELSE Goto(g, "panic") /\ UNCHANGED dir
    /\ UNCHANGED <<tables, reset, spent>>

ServerMetadata(g) ==
    /\ report[g].pc = "packet"
    /\ Goto(g, "zip")
    /\ Store(g, [Files(g) EXCEPT !.meta = @ \union {"server"}])
    /\ UNCHANGED <<tables, reset, spent>>

\* CreateZip opens the three files it was given.
CreateZip(g) ==
    /\ report[g].pc = "zip"
    /\ IF Files(g).csv = {} \/ Files(g).meta # {"survey", "server"}
       THEN Goto(g, "error") /\ UNCHANGED dir
       ELSE Goto(g, "remove") /\ Store(g, [Files(g) EXCEPT !.zip = Files(g).csv])
    /\ UNCHANGED <<tables, reset, spent>>

\* A failure to remove one of the three is only logged.
RemoveFiles(g) ==
    /\ report[g].pc = "remove"
    /\ Goto(g, "open")
    /\ \/ /\ Store(g, [Files(g) EXCEPT !.csv = {}, !.meta = {}])
          /\ UNCHANGED spent
       \/ /\ Fault
          /\ \/ Store(g, [Files(g) EXCEPT !.csv = {}])
             \/ Store(g, [Files(g) EXCEPT !.meta = {}])
    /\ UNCHANGED <<tables, reset>>

\* GenerateSurveyReport opens the archive, WriteFileResponse sends it.
OpenReport(g) ==
    /\ report[g].pc = "open"
    /\ Goto(g, IF Files(g).zip = {} THEN "error" ELSE "done")
    /\ UNCHANGED <<tables, reset, dir, spent>>

Ended == {"done", "error", "panic"}

\* A call fails and says so, or the node dies: what was written stays where it
\* is.
CallFails(g) ==
    /\ report[g].pc \notin Ended \union {"idle"}
    /\ Fault
    /\ Goto(g, "error")
    /\ UNCHANGED <<tables, reset, dir>>

----------------------------------------------------------------------------
\* A user answers, or answers again.
Answer ==
    /\ \E i \in ResponseID \ wiped, s \in SurveyID, r \in Response :
         \/ Ledger!Record(i, s, r) /\ \A t \in SurveyID : row[i][t] = {}
         \/ Ledger!Revise(i, s, r)
    /\ UNCHANGED <<surveys, wiped, reset, report, dir, spent>>

\* ResetData deletes the surveys, then the responses (then the KV store,
\* which no report reads); it stops where a call fails.
ResetSurveys ==
    /\ reset = "surveys"
    /\ spent.resets < MaxResets
    /\ surveys' = {}
    /\ reset' = "responses"
    /\ spent' = [spent EXCEPT !.resets = @ + 1]
    /\ UNCHANGED <<row, wiped, report, dir>>

ResetResponses ==
    /\ reset = "responses"
    /\ wiped' = wiped \union {i \in ResponseID : \E s \in SurveyID : row[i][s] # {}}
    /\ row' = [i \in ResponseID |-> [s \in SurveyID |-> {}]]
    /\ reset' = "surveys"
    /\ UNCHANGED <<surveys, report, dir, spent>>

ResetFails ==
    /\ reset = "responses"
    /\ Fault
    /\ reset' = "surveys"
    /\ UNCHANGED <<tables, report, dir>>

----------------------------------------------------------------------------
Init ==
    /\ surveys = SurveyID
    /\ Ledger!LedgerInit
    /\ wiped = {}
    /\ reset = "surveys"
    /\ report = [g \in Report |-> NotAsked]
    /\ dir = [g \in Report |-> EmptyDirectory]
    /\ spent = [faults |-> 0, resets |-> 0]

ReportStep(g) == \/ GetSurvey(g)
                 \/ GetPage(g)
                 \/ MergeParts(g)
                 \/ RemoveParts(g)
                 \/ SurveyMetadata(g)
                 \/ ServerMetadata(g)
                 \/ CreateZip(g)
                 \/ RemoveFiles(g)
                 \/ OpenReport(g)

Next == \/ \E g \in Report, s \in SurveyID : Ask(g, s)
        \/ \E g \in Report : ReportStep(g) \/ PageBreaksOff(g) \/ CallFails(g)
        \/ Answer
        \/ ResetSurveys
        \/ ResetResponses
        \/ ResetFails

Spec == Init /\ [][Next]_vars

\* A request that was begun is served.
Fairness == \A g \in Report : WF_vars(ReportStep(g))

FairSpec == Spec /\ Fairness

----------------------------------------------------------------------------
\* Every variable keeps its type.
TypeOK ==
    /\ surveys \in SUBSET SurveyID
    /\ row \in [ResponseID -> [SurveyID -> AtMostOne(Response)]]
    /\ wiped \in SUBSET ResponseID
    /\ reset \in {"surveys", "responses"}
    /\ report \in [Report -> ReportState]
    /\ dir \in [Report -> Directory]
    /\ spent \in [faults : 0..MaxFaults, resets : 0..MaxResets]

\* The lines of the report an admin was sent.
Sent(g) == IF report[g].pc = "done" THEN UNION Files(g).zip ELSE {}

\* Every response there was when the report began is in it, and no response is
\* in it twice, although other responses are stored before and after the
\* cursor between two pages ("Once all pages are fetched, the temporary CSVs
\* are combined into a final CSV report file", docs/architecture/architecture.md:28).
\* The code does not guarantee it when the query of a page broke off while it
\* was read: the report is delivered all the same, and then it lacks responses
\* from some id on, but none before that.
ReportComplete ==
    \A g \in Report :
        report[g].pc = "done" =>
            /\ \A i \in report[g].stored \ wiped :
                 \/ \E x \in Sent(g) : x[2].id = i
                 \/ report[g].cut /\ \A x \in Sent(g) : x[2].id < i
            /\ \A x, y \in Sent(g) : x[2].id = y[2].id => x = y

\* Every line of a report is a response to its survey; a complete one is the
\* response the table has for good.
ReportTruthful ==
    \A g \in Report : \A x \in Sent(g) :
        LET l == x[2]
            now == row[l.id][report[g].survey]
        IN  l.id \notin wiped =>
                now # {} /\ (l.response.type = "complete" => now = {l.response})

\* A report leaves one file behind, unless a call failed: the archive.
OnlyArchiveRemains ==
    spent.faults = 0 =>
        \A g \in Report :
            report[g].pc = "done" =>
                Files(g) = [EmptyDirectory EXCEPT !.zip = Files(g).zip]

\* A report is delivered although responses keep coming, unless a call fails
\* or /resetdata takes the survey away.
ReportDelivered ==
    \A g \in Report :
        report[g].pc = "survey"
            ~> \/ report[g].pc = "done"
               \/ spent.faults > 0
               \/ report[g].survey \notin surveys

=============================================================================
