------------------------ MODULE SurveyReport_proofs ------------------------
(***************************************************************************)
(* What an admin is sent is a faithful report, for any number of           *)
(* responses, reports under way, page sizes, failing calls and resets.     *)
(* The argument: the lines collected so far cover what was stored when the *)
(* report began up to the cursor, and nothing beyond it.                   *)
(***************************************************************************)
EXTENDS SurveyReport, FiniteSetTheorems, TLAPS

----------------------------------------------------------------------------
(* The environment: responses are only added or replaced as the ledger     *)
(* allows, or deleted for good.                                            *)

\* The id of a response belongs to one survey.
OneSurvey ==
    \A i \in ResponseID, s, t \in SurveyID :
        row[i][s] # {} /\ row[i][t] # {} => s = t

\* What every step leaves of the responses a report may have read.
Kept ==
    /\ wiped \subseteq wiped'
    /\ \A i \in ResponseID, s \in SurveyID :
         i \notin wiped' /\ row[i][s] # {} =>
             /\ row'[i][s] # {}
             /\ \A r \in row[i][s] : r.type = "complete" => row'[i][s] = row[i][s]

\* The two ways a response is stored.
Stores(i, s, r) ==
    /\ row' = [row EXCEPT ![i][s] = {r}]
    /\ \/ row[i][s] = {} /\ \A t \in SurveyID : row[i][t] = {}
       \/ \E old \in row[i][s] : old.type = "partial"

LEMMA AnswerStores ==
    ASSUME Answer
    PROVE  /\ UNCHANGED <<surveys, wiped, reset, report, dir, spent>>
           /\ \E i \in ResponseID \ wiped, s \in SurveyID, r \in Response :
                Stores(i, s, r)
BY DEF Answer, Ledger!Record, Ledger!Revise, Stores

\* A step of a report leaves the tables alone.
LEMMA ReportStepTables ==
    ASSUME NEW g \in Report, ReportStep(g) \/ PageBreaksOff(g) \/ CallFails(g)
    PROVE  UNCHANGED <<tables, reset>>
BY DEF ReportStep, PageBreaksOff, CallFails, GetSurvey, GetPage, MergeParts, RemoveParts,
       SurveyMetadata, ServerMetadata, CreateZip, RemoveFiles, OpenReport

----------------------------------------------------------------------------
(* Types.                                                                  *)

LEMMA LineTypes ==
    ASSUME TypeOK, NEW P \in SUBSET ResponseID
    PROVE  LinesOf(P) \in SUBSET Line
BY DEF LinesOf

LEMMA MergedTypes ==
    ASSUME NEW files \in Directory, NEW n
    PROVE  Merged(files, n) \in Lines
BY DEF Merged, Directory, Lines

LEMMA SelectedTypes ==
    ASSUME NEW s, NEW c
    PROVE  Selected(s, c) \subseteq ResponseID
BY DEF Selected, Stored

LEMMA ReportTypes ==
    ASSUME NEW q \in ReportState
    PROVE  /\ \A pc \in {"idle", "survey", "page", "merge", "clean", "stat", "packet",
                         "zip", "remove", "open", "done", "error", "panic"} :
                At(q, pc) \in ReportState
           /\ \A s \in SurveyID : Asked(q, s) \in ReportState
           /\ Begun(q) \in ReportState
           /\ Cut(q) \in ReportState
           /\ \A last \in ResponseID, pc \in {"page", "merge"} :
                Paged(q, last, pc) \in ReportState
<1>1. \A pc \in {"idle", "survey", "page", "merge", "clean", "stat", "packet",
                 "zip", "remove", "open", "done", "error", "panic"} :
        At(q, pc) \in ReportState
  BY DEF ReportState, At
<1>2. \A r \in ReportState, s \in SurveyID : [r EXCEPT !.survey = s] \in ReportState
  BY DEF ReportState
<1>3. \A r \in ReportState : [r EXCEPT !.stored = Stored(q.survey)] \in ReportState
  BY DEF ReportState, Stored
<1>4. \A r \in ReportState, last \in ResponseID :
        [r EXCEPT !.cursor = last, !.part = @ + 1] \in ReportState
  <2>1. \A r \in ReportState, last \in ResponseID, n \in Nat :
          [r EXCEPT !.cursor = last, !.part = n] \in ReportState
    BY DEF ReportState
  <2>2. \A r \in ReportState : r.part + 1 \in Nat
    BY DEF ReportState
  <2> QED  BY <2>1, <2>2
<1>5. Cut(q) \in ReportState
  BY DEF ReportState, Cut
<1> QED  BY <1>1, <1>2, <1>3, <1>4, <1>5 DEF Asked, Begun, Paged

LEMMA StoreTypes ==
    ASSUME TypeOK, NEW g \in Report, NEW files \in Directory, Store(g, files)
    PROVE  dir' \in [Report -> Directory]
BY DEF TypeOK, Store, NewID

LEMMA GotoTypes ==
    ASSUME TypeOK, NEW g \in Report, NEW q \in ReportState,
           report' = [report EXCEPT ![g] = q]
    PROVE  report' \in [Report -> ReportState]
BY DEF TypeOK

LEMMA FaultTypes ==
    ASSUME TypeOK, Fault
    PROVE  spent' \in [faults : 0..MaxFaults, resets : 0..MaxResets]
BY ReportAssumption DEF TypeOK, Fault

LEMMA SaveTypes ==
    ASSUME TypeOK, NEW g \in Report, NEW q \in ReportState,
           NEW P \in SUBSET ResponseID, SavePage(g, q, P)
    PROVE  /\ report' \in [Report -> ReportState]
           /\ dir' \in [Report -> Directory]
<1>1. dir[g] \in Directory /\ dir \in [Report -> Directory]
  BY DEF TypeOK
<1>2. CASE report' = [report EXCEPT ![g] = At(q, "merge")] /\ UNCHANGED dir
  <2>1. At(q, "merge") \in ReportState
    BY ReportTypes
  <2> QED  BY <1>1, <1>2, <2>1, GotoTypes
<1>3. ASSUME NEW last \in P, NEW pc \in {"page", "merge"},
             report' = [report EXCEPT ![g] = Paged(q, last, pc)],
             Store(g, WithPart(Files(g), q.part, LinesOf(P)))
      PROVE  /\ report' \in [Report -> ReportState]
             /\ dir' \in [Report -> Directory]
  <2>1. Paged(q, last, pc) \in ReportState
    BY <1>3, ReportTypes
  <2>2. WithPart(Files(g), q.part, LinesOf(P)) \in Directory
    BY <1>1, LineTypes DEF WithPart, Files, NewID, Directory, ReportState
  <2> QED  BY <1>3, <2>1, <2>2, GotoTypes, StoreTypes
<1> QED  BY <1>2, <1>3 DEF SavePage

LEMMA TypeInit == Init => TypeOK
BY ReportAssumption
   DEF Init, TypeOK, Ledger!LedgerInit, AtMostOne, NotAsked, ReportState,
       EmptyDirectory, Directory

LEMMA TypeReportStep ==
    ASSUME TypeOK, NEW g \in Report, ReportStep(g)
    PROVE  TypeOK'
<1> USE DEF Goto
<1>1. report[g] \in ReportState /\ dir[g] \in Directory
  BY DEF TypeOK
<1>2. UNCHANGED <<tables, reset>>
  BY ReportStepTables
<1>3. \A pc \in {"page", "merge", "clean", "stat", "packet",
                 "zip", "remove", "open", "done", "error", "panic"} :
        At(report[g], pc) \in ReportState
  BY <1>1, ReportTypes
<1>4. SUFFICES /\ report' \in [Report -> ReportState]
               /\ dir' \in [Report -> Directory]
               /\ spent' \in [faults : 0..MaxFaults, resets : 0..MaxResets]
  BY <1>2 DEF TypeOK, tables
<1>5. CASE GetSurvey(g)
  BY <1>1, <1>3, <1>5, ReportTypes, GotoTypes DEF GetSurvey, TypeOK
<1>6. CASE GetPage(g)
  <2>1. PICK P \in SUBSET Selected(report[g].survey, report[g].cursor) :
          SavePage(g, report[g], P)
    BY <1>6 DEF GetPage
  <2>2. P \in SUBSET ResponseID
    BY SelectedTypes
  <2> QED  BY <1>1, <1>6, <2>1, <2>2, SaveTypes DEF GetPage, TypeOK
<1>7. CASE MergeParts(g)
  <2>1. [Files(g) EXCEPT !.csv = {Merged(Files(g), MergeLimit(g))}] \in Directory
    BY <1>1, MergedTypes DEF Files, NewID, Directory
  <2> QED  BY <1>1, <1>3, <1>7, <2>1, GotoTypes, StoreTypes DEF MergeParts, TypeOK
<1>8. CASE RemoveParts(g)
  <2>1. [Files(g) EXCEPT !.parts = {}] \in Directory
    BY <1>1 DEF Files, NewID, Directory
  <2> QED  BY <1>1, <1>3, <1>8, <2>1, GotoTypes, StoreTypes, FaultTypes
           DEF RemoveParts, TypeOK
<1>9. CASE SurveyMetadata(g)
  <2>1. [Files(g) EXCEPT !.meta = @ \union {"survey"}] \in Directory
    BY <1>1 DEF Files, NewID, Directory
  <2> QED  BY <1>1, <1>3, <1>9, <2>1, GotoTypes, StoreTypes DEF SurveyMetadata, TypeOK
<1>10. CASE ServerMetadata(g)
  <2>1. [Files(g) EXCEPT !.meta = @ \union {"server"}] \in Directory
    BY <1>1 DEF Files, NewID, Directory
  <2> QED  BY <1>1, <1>3, <1>10, <2>1, GotoTypes, StoreTypes DEF ServerMetadata, TypeOK
<1>11. CASE CreateZip(g)
  <2>1. [Files(g) EXCEPT !.zip = Files(g).csv] \in Directory
    BY <1>1 DEF Files, NewID, Directory
  <2> QED  BY <1>1, <1>3, <1>11, <2>1, GotoTypes, StoreTypes DEF CreateZip, TypeOK
<1>12. CASE RemoveFiles(g)
  <2>1. /\ [Files(g) EXCEPT !.csv = {}] \in Directory
        /\ [Files(g) EXCEPT !.meta = {}] \in Directory
        /\ [Files(g) EXCEPT !.csv = {}, !.meta = {}] \in Directory
    BY <1>1 DEF Files, NewID, Directory
  <2> QED  BY <1>1, <1>3, <1>12, <2>1, GotoTypes, StoreTypes, FaultTypes
           DEF RemoveFiles, TypeOK
<1>13. CASE OpenReport(g)
  BY <1>1, <1>3, <1>13, GotoTypes DEF OpenReport, TypeOK
<1> QED  BY <1>5, <1>6, <1>7, <1>8, <1>9, <1>10, <1>11, <1>12, <1>13 DEF ReportStep

LEMMA TypeStep == TypeOK /\ [Next]_vars => TypeOK'
<1> SUFFICES ASSUME TypeOK, [Next]_vars PROVE TypeOK'
  OBVIOUS
<1>1. ASSUME NEW g \in Report, NEW s \in SurveyID, Ask(g, s) PROVE TypeOK'
  BY <1>1, ReportTypes, GotoTypes DEF Ask, TypeOK, tables
<1>2. ASSUME NEW g \in Report, ReportStep(g) PROVE TypeOK'
  BY <1>2, TypeReportStep
<1>3. ASSUME NEW g \in Report, CallFails(g) PROVE TypeOK'
  <2>1. At(report[g], "error") \in ReportState
    BY ReportTypes DEF TypeOK
  <2> QED  BY <1>3, <2>1, GotoTypes, FaultTypes DEF CallFails, Goto, TypeOK, tables
<1>9. ASSUME NEW g \in Report, PageBreaksOff(g) PROVE TypeOK'
  <2>1. PICK P \in SUBSET Selected(report[g].survey, report[g].cursor) :
          SavePage(g, Cut(report[g]), P)
    BY <1>9 DEF PageBreaksOff
  <2>2. P \in SUBSET ResponseID
    BY SelectedTypes
  <2>3. Cut(report[g]) \in ReportState
    BY ReportTypes DEF TypeOK
  <2>4. report' \in [Report -> ReportState] /\ dir' \in [Report -> Directory]
    BY <2>1, <2>2, <2>3, SaveTypes
  <2> QED  BY <1>9, <2>4, FaultTypes DEF PageBreaksOff, TypeOK, tables
<1>4. CASE Answer
  <2>1. PICK i \in ResponseID \ wiped, s \in SurveyID, r \in Response : Stores(i, s, r)
    BY <1>4, AnswerStores
  <2>2. row' \in [ResponseID -> [SurveyID -> AtMostOne(Response)]]
    BY <2>1 DEF Stores, TypeOK, AtMostOne
  <2> QED  BY <1>4, <2>2, AnswerStores DEF TypeOK
<1>5. CASE ResetSurveys
  BY <1>5, ReportAssumption DEF ResetSurveys, TypeOK
<1>6. CASE ResetResponses
  BY <1>6 DEF ResetResponses, TypeOK, AtMostOne
<1>7. CASE ResetFails
  BY <1>7, FaultTypes DEF ResetFails, TypeOK, tables
<1>8. CASE UNCHANGED vars
  BY <1>8 DEF vars, tables, TypeOK
<1> QED  BY <1>1, <1>2, <1>3, <1>4, <1>5, <1>6, <1>7, <1>8, <1>9 DEF Next

\* All variables keep their types, whatever is asked, answered and reset.
THEOREM ReportTypeCorrect == Spec => []TypeOK
BY TypeInit, TypeStep, PTL DEF Spec

----------------------------------------------------------------------------
(* The invariant of one report.                                            *)

\* All lines of the parts saved so far.
Collected(files) == UNION {{<<p[1], l>> : l \in p[2]} : p \in files.parts}

\* The lines of one part.
Numbered(n, L) == {<<n, l>> : l \in L}

LineTrue(q, l) ==
    l.id \notin wiped =>
        /\ row[l.id][q.survey] # {}
        /\ l.response.type = "complete" => row[l.id][q.survey] = {l.response}

\* Only responses to the survey, none twice.
Faithful(q, C) ==
    /\ \A x \in C : LineTrue(q, x[2])
    /\ \A x, y \in C : x[2].id = y[2].id => x = y

\* Nothing is missing, or only what follows the place where a page was cut.
Covers(q, C) ==
    \A i \in q.stored \ wiped :
        \/ \E x \in C : x[2].id = i
        \/ q.cut /\ \A x \in C : x[2].id < i

\* Everything up to the cursor that was there when the report began, and
\* nothing beyond it, is in the parts 0 to part - 1.
Paging(q, files) ==
    /\ Faithful(q, Collected(files))
    /\ \A x \in Collected(files) : x[2].id <= q.cursor
    /\ \A p \in files.parts : p[1] < q.part
    /\ \A m \in 0..(q.part - 1) : \E p \in files.parts : p[1] = m
    /\ \A i \in q.stored \ wiped :
         i <= q.cursor \/ (q.pc = "merge" /\ ~q.cut)
             => \E x \in Collected(files) : x[2].id = i

ReportInv(q, files) ==
    /\ q.pc \in {"idle", "survey"} =>
          q.cursor = 0 /\ q.part = 0 /\ q.stored = {} /\ files.parts = {}
    /\ q.pc # "idle" => q.survey \in SurveyID
    /\ \A i \in q.stored : i \in wiped \/ row[i][q.survey] # {}
    /\ q.pc \in {"page", "merge"} => Paging(q, files)
    /\ q.pc \in {"clean", "stat", "packet", "zip"} =>
          \E C : files.csv = {C} /\ Faithful(q, C) /\ Covers(q, C)
    /\ q.pc \in {"remove", "open", "done"} =>
          \E C : files.zip = {C} /\ Faithful(q, C) /\ Covers(q, C)

IInv == TypeOK /\ OneSurvey /\ \A g \in Report : ReportInv(report[g], dir[g])

LEMMA EveryStepKeeps ==
    ASSUME TypeOK, OneSurvey, [Next]_vars
    PROVE  Kept /\ OneSurvey'
<1>1. CASE UNCHANGED tables
  BY <1>1 DEF tables, Kept, OneSurvey
<1>2. CASE Answer
  <2>1. wiped' = wiped
    BY <1>2, AnswerStores
  <2>2. PICK i \in ResponseID \ wiped, s \in SurveyID, r \in Response : Stores(i, s, r)
    BY <1>2, AnswerStores
  <2>3. \A j \in ResponseID, t \in SurveyID :
          row'[j][t] = IF j = i /\ t = s THEN {r} ELSE row[j][t]
    BY <2>2 DEF Stores, TypeOK
  <2>4. Kept
    <3> SUFFICES ASSUME NEW j \in ResponseID, NEW t \in SurveyID, row[j][t] # {},
                        NEW x \in row[j][t], x.type = "complete"
                 PROVE  row'[j][t] = row[j][t]
      BY <2>1, <2>3 DEF Kept
    <3>1. row[j][t] = {x}
      BY DEF TypeOK, AtMostOne
    <3>2. ~(j = i /\ t = s)
      BY <2>2, <3>1 DEF Stores
    <3> QED  BY <2>3, <3>2
  <2>5. OneSurvey'
    <3> SUFFICES ASSUME NEW j \in ResponseID, NEW t \in SurveyID, NEW u \in SurveyID,
                        row'[j][t] # {}, row'[j][u] # {}
                 PROVE  t = u
      BY DEF OneSurvey
    <3>1. CASE row[i][s] = {} /\ \A v \in SurveyID : row[i][v] = {}
      BY <2>3, <3>1 DEF OneSurvey
    <3>2. CASE \E old \in row[i][s] : old.type = "partial"
      BY <2>3, <3>2 DEF OneSurvey
    <3> QED  BY <2>2, <3>1, <3>2 DEF Stores
  <2> QED  BY <2>4, <2>5
<1>3. CASE ResetSurveys \/ ResetFails
  BY <1>3 DEF ResetSurveys, ResetFails, tables, Kept, OneSurvey
<1>4. CASE ResetResponses
  <2>1. \A i \in ResponseID, s \in SurveyID : row'[i][s] = {}
    BY <1>4 DEF ResetResponses
  <2>2. \A i \in ResponseID, s \in SurveyID : row[i][s] # {} => i \in wiped'
    BY <1>4 DEF ResetResponses
  <2>3. wiped \subseteq wiped'
    BY <1>4 DEF ResetResponses
  <2> QED  BY <2>1, <2>2, <2>3 DEF Kept, OneSurvey
<1>5. \A g \in Report, s \in SurveyID : Ask(g, s) => UNCHANGED tables
  BY DEF Ask
<1>6. \A g \in Report : ReportStep(g) \/ PageBreaksOff(g) \/ CallFails(g)
                           => UNCHANGED tables
  BY ReportStepTables
<1>7. UNCHANGED vars => UNCHANGED tables
  BY DEF vars
<1> QED  BY <1>1, <1>2, <1>3, <1>4, <1>5, <1>6, <1>7 DEF Next

\* What was collected stays faithful.
LEMMA FaithfulKept ==
    ASSUME TypeOK, Kept, NEW q \in ReportState, q.survey \in SurveyID,
           NEW C \in Lines, Faithful(q, C)
    PROVE  Faithful(q, C)'
<1> SUFFICES ASSUME NEW x \in C PROVE LineTrue(q, x[2])'
  BY DEF Faithful
<1>1. x[2] \in Line /\ x[2].id \in ResponseID
  BY DEF Lines, Line
<1>2. LineTrue(q, x[2])
  BY DEF Faithful
<1> DEFINE i == x[2].id
           s == q.survey
<1> SUFFICES ASSUME i \notin wiped'
             PROVE  /\ row'[i][s] # {}
                    /\ x[2].response.type = "complete" => row'[i][s] = {x[2].response}
  BY DEF LineTrue
<1>3. i \notin wiped
  BY DEF Kept
<1>4. /\ row[i][s] # {}
      /\ x[2].response.type = "complete" => row[i][s] = {x[2].response}
  BY <1>2, <1>3 DEF LineTrue
<1> QED  BY <1>1, <1>4 DEF Kept

LEMMA CoversKept ==
    ASSUME Kept, NEW q, NEW C, Covers(q, C)
    PROVE  Covers(q, C)'
BY DEF Kept, Covers

LEMMA CollectedTypes ==
    ASSUME NEW files \in Directory
    PROVE  Collected(files) \in Lines
BY DEF Collected, Directory, Lines

\* A report is not disturbed by what happens to the responses.
LEMMA OthersKeep ==
    ASSUME TypeOK, Kept, NEW q \in ReportState, NEW files \in Directory,
           ReportInv(q, files)
    PROVE  ReportInv(q, files)'
<1>1. q.stored \subseteq ResponseID
  BY DEF ReportState
<1>2. \A i \in q.stored : i \in wiped' \/ row'[i][q.survey] # {}
  <2>1. CASE q.pc = "idle"
    BY <2>1 DEF ReportInv
  <2>2. CASE q.pc # "idle"
    BY <1>1, <2>2 DEF ReportInv, Kept
  <2> QED  BY <2>1, <2>2
<1>3. ASSUME q.pc \in {"page", "merge"} PROVE Paging(q, files)'
  <2>1. q.survey \in SurveyID /\ Paging(q, files)
    BY <1>3 DEF ReportInv
  <2>2. Faithful(q, Collected(files))'
    <3>1. Collected(files) \in Lines
      BY CollectedTypes
    <3>2. Faithful(q, Collected(files))
      BY <2>1 DEF Paging
    <3> QED  BY <2>1, <3>1, <3>2, FaithfulKept
  <2> QED  BY <2>1, <2>2 DEF Paging, Kept
<1>4. ASSUME q.pc \in {"clean", "stat", "packet", "zip"}
      PROVE  \E C : files.csv = {C} /\ Faithful(q, C)' /\ Covers(q, C)'
  <2>1. PICK C : files.csv = {C} /\ Faithful(q, C) /\ Covers(q, C)
    BY <1>4 DEF ReportInv
  <2>2. C \in Lines /\ q.survey \in SurveyID
    BY <1>4, <2>1 DEF Directory, ReportInv
  <2> QED  BY <2>1, <2>2, FaithfulKept, CoversKept
<1>5. ASSUME q.pc \in {"remove", "open", "done"}
      PROVE  \E C : files.zip = {C} /\ Faithful(q, C)' /\ Covers(q, C)'
  <2>1. PICK C : files.zip = {C} /\ Faithful(q, C) /\ Covers(q, C)
    BY <1>5 DEF ReportInv
  <2>2. C \in Lines /\ q.survey \in SurveyID
    BY <1>5, <2>1 DEF Directory, ReportInv
  <2> QED  BY <2>1, <2>2, FaithfulKept, CoversKept
<1> QED  BY <1>2, <1>3, <1>4, <1>5 DEF ReportInv

----------------------------------------------------------------------------
(* The steps of the report itself.                                         *)

\* Faithfulness and coverage depend on the survey and the responses only.
LEMMA SameQuestion ==
    ASSUME NEW q, NEW r, q.survey = r.survey, q.stored = r.stored,
           q.cut = r.cut, NEW C
    PROVE  /\ Faithful(q, C) <=> Faithful(r, C)
           /\ Covers(q, C) <=> Covers(r, C)
BY DEF Faithful, Covers, LineTrue

\* Moving on changes nothing but pc.
LEMMA AtFields ==
    ASSUME NEW q \in ReportState,
           NEW pc \in {"page", "merge", "clean", "stat", "packet",
                       "zip", "remove", "open", "done", "error", "panic"}
    PROVE  LET r == At(q, pc) IN
           /\ r.pc = pc /\ r.survey = q.survey /\ r.stored = q.stored
           /\ r.cursor = q.cursor /\ r.part = q.part /\ r.cut = q.cut
BY DEF ReportState, At

\* A page that was cut is remembered, for the property only.
LEMMA CutFields ==
    ASSUME NEW q \in ReportState
    PROVE  LET r == Cut(q) IN
           /\ r.pc = q.pc /\ r.survey = q.survey /\ r.stored = q.stored
           /\ r.cursor = q.cursor /\ r.part = q.part /\ r.cut
BY DEF ReportState, Cut

\* A saved page moves the cursor and the number of parts.
LEMMA PagedFields ==
    ASSUME NEW q \in ReportState, NEW last, NEW pc \in {"page", "merge"}
    PROVE  LET r == Paged(q, last, pc) IN
           /\ r.pc = pc /\ r.survey = q.survey /\ r.stored = q.stored
           /\ r.cursor = last /\ r.part = q.part + 1 /\ r.cut = q.cut
<1>1. PICK x : x = At(q, pc)
  OBVIOUS
<1>2. /\ x.pc = pc /\ x.survey = q.survey /\ x.stored = q.stored
      /\ x.cursor = q.cursor /\ x.part = q.part /\ x.cut = q.cut
  BY <1>1, AtFields
<1>3. x \in ReportState
  BY <1>1, ReportTypes
<1>4. PICK y : y = [x EXCEPT !.cursor = last, !.part = @ + 1]
  OBVIOUS
<1>5. /\ y.pc = x.pc /\ y.survey = x.survey /\ y.stored = x.stored
      /\ y.cursor = last /\ y.part = x.part + 1 /\ y.cut = x.cut
  BY <1>3, <1>4 DEF ReportState
<1>6. y = Paged(q, last, pc)
  BY <1>1, <1>4 DEF Paged
<1> QED  BY <1>2, <1>5, <1>6

\* The parts 0 to part - 1 are all there is, so merging loses nothing.
LEMMA MergeIsCollected ==
    ASSUME NEW q, NEW files, \A p \in files.parts : p[1] < q.part
    PROVE  Merged(files, q.part) = Collected(files)
BY DEF Merged, Collected

\* What a query returned: the first responses beyond the cursor, and all of
\* them if it is not full, unless it broke off.
Returned(q, P, S) ==
    IsFirst(P, S) /\ (P = {} \/ Cardinality(P) < PageSize => q.cut \/ P = S)

LEMMA PageReturned ==
    ASSUME NEW q, NEW S, NEW P \in SUBSET S, IsPage(P, S) \/ (IsBroken(P, S) /\ q.cut)
    PROVE  Returned(q, P, S)
<1>1. Cardinality(P) = PageSize => P # {} /\ ~(Cardinality(P) < PageSize)
  BY FS_EmptySet, ReportAssumption
<1> QED  BY <1>1 DEF IsPage, IsBroken, Returned

\* Cursors and part numbers are numbers.
LEMMA Counters ==
    /\ ResponseID \subseteq Nat
    /\ \A q \in ReportState : /\ q.part \in Nat /\ q.cursor \in Nat
                              /\ q.stored \subseteq ResponseID
<1>1. ResponseID \subseteq Nat
  BY ReportAssumption
<1>2. \A q \in ReportState : q.part \in Nat /\ q.stored \subseteq ResponseID
  BY DEF ReportState
<1>3. \A q \in ReportState : q.cursor \in ResponseID \union {0}
  BY DEF ReportState
<1>4. \A c : c \in ResponseID \union {0} => c \in Nat
  BY <1>1
<1> QED  BY <1>1, <1>2, <1>3, <1>4

LEMMA PartNumbers ==
    ASSUME NEW files \in Directory, NEW p \in files.parts
    PROVE  p[1] \in Nat
BY DEF Directory

\* files with a part more.
PartAdded(new, files, n, L) == new.parts = files.parts \union {<<n, L>>}

\* Saving a part adds its lines.
LEMMA CollectedUnion ==
    ASSUME NEW files, NEW new, NEW n, NEW L,
           PartAdded(new, files, n, L)
    PROVE  Collected(new) = Collected(files) \union Numbered(n, L)
<1> USE DEF PartAdded
<1>1. ASSUME NEW x, x \in Collected(new)
      PROVE  x \in Collected(files) \union Numbered(n, L)
  <2>1. PICK p \in new.parts : x \in {<<p[1], l>> : l \in p[2]}
    BY <1>1 DEF Collected
  <2>2. CASE p \in files.parts
    BY <2>1, <2>2 DEF Collected
  <2>3. CASE p = <<n, L>>
    BY <2>1, <2>3 DEF Numbered
  <2> QED  BY <2>1, <2>2, <2>3
<1>2. ASSUME NEW x, x \in Collected(files)
      PROVE  x \in Collected(new)
  BY <1>2 DEF Collected
<1>3. ASSUME NEW l \in L
      PROVE  <<n, l>> \in Collected(new)
  <2>1. PICK p \in new.parts : p = <<n, L>>
    OBVIOUS
  <2>2. l \in p[2] /\ <<n, l>> = <<p[1], l>>
    BY <2>1
  <2>3. <<n, l>> \in {<<p[1], k>> : k \in p[2]}
    BY <2>2
  <2> QED  BY <2>3 DEF Collected
<1> QED  BY <1>1, <1>2, <1>3 DEF Numbered

\* What the query of GetAllResponses selects and how its lines look.
LEMMA PageLines ==
    ASSUME TypeOK, OneSurvey, NEW q \in ReportState, q.survey \in SurveyID,
           NEW P \in SUBSET Selected(q.survey, q.cursor)
    PROVE  /\ \A l \in LinesOf(P) : /\ l.id \in P
                                    /\ row[l.id][q.survey] = {l.response}
           /\ \A i \in P : \E l \in LinesOf(P) : l.id = i
<1>1. \A i \in P : i \in ResponseID /\ row[i][q.survey] # {}
  BY DEF Selected, Stored
<1>2. ASSUME NEW l \in LinesOf(P)
      PROVE  l.id \in P /\ row[l.id][q.survey] = {l.response}
  <2>1. PICK s \in SurveyID : l.id \in P /\ l.response \in row[l.id][s]
    BY <1>2 DEF LinesOf
  <2>2. s = q.survey
    BY <1>1, <2>1 DEF OneSurvey
  <2>3. row[l.id][q.survey] \in AtMostOne(Response)
    BY <1>1, <2>1 DEF TypeOK
  <2> QED  BY <2>1, <2>2, <2>3 DEF AtMostOne
<1>3. ASSUME NEW i \in P PROVE \E l \in LinesOf(P) : l.id = i
  <2>1. PICK r : r \in row[i][q.survey]
    BY <1>1
  <2>2. row[i][q.survey] \in AtMostOne(Response)
    BY <1>1 DEF TypeOK
  <2>3. r \in Response
    BY <2>1, <2>2 DEF AtMostOne
  <2>4. [id |-> i, response |-> r] \in Line
    BY <1>1, <2>3 DEF Line
  <2>5. [id |-> i, response |-> r] \in LinesOf(P)
    BY <2>1, <2>4 DEF LinesOf
  <2> QED  BY <2>5
<1> QED  BY <1>2, <1>3

\* The numbers below a record's field.
LEMMA NumbersBelow ==
    ASSUME NEW r, NEW n \in Nat, r.part = n + 1, NEW N,
           \A m \in 0..(n + 1 - 1) : \E p \in N : p[1] = m
    PROVE  \A m \in 0..(r.part - 1) : \E p \in N : p[1] = m
<1>1. PICK k : k = r.part
  OBVIOUS
<1>2. \A m \in 0..(k - 1) : \E p \in N : p[1] = m
  BY <1>1
<1> QED  BY <1>1, <1>2

\* A saved page: the cursor moves to its last response, and the lines up to it
\* are still complete and faithful.
LEMMA PageSaved ==
    ASSUME TypeOK, OneSurvey, NEW q \in ReportState, NEW files \in Directory,
           q.survey \in SurveyID, q.pc = "page",
           \A i \in q.stored : i \in wiped \/ row[i][q.survey] # {},
           Paging(q, files),
           NEW P \in SUBSET Selected(q.survey, q.cursor),
           Returned(q, P, Selected(q.survey, q.cursor)),
           NEW last \in P, \A i \in P : i <= last,
           NEW pc \in {"page", "merge"}, pc = "merge" => Cardinality(P) < PageSize
    PROVE  Paging(Paged(q, last, pc), WithPart(files, q.part, LinesOf(P)))
<1> SUFFICES ASSUME NEW r, r = Paged(q, last, pc),
                    NEW new, new = WithPart(files, q.part, LinesOf(P))
             PROVE  Paging(r, new)
  OBVIOUS
<1>0. PICK n : n = q.part
  OBVIOUS
<1> DEFINE L == LinesOf(P)
           added == Numbered(n, L)
<1>1. /\ r.pc = pc /\ r.survey = q.survey /\ r.stored = q.stored
      /\ r.cursor = last /\ r.part = n + 1 /\ r.cut = q.cut
  BY <1>0, PagedFields
<1>2. /\ n \in Nat /\ q.cursor \in Nat
      /\ P \subseteq ResponseID /\ ResponseID \subseteq Nat
      /\ q.stored \subseteq ResponseID
      /\ \A p \in files.parts : p[1] \in Nat
  <2>1. P \subseteq ResponseID
    BY SelectedTypes
  <2> QED  BY <1>0, <2>1, Counters, PartNumbers
<1>3. /\ \A l \in LinesOf(P) : l.id \in P /\ row[l.id][q.survey] = {l.response}
      /\ \A i \in P : \E l \in LinesOf(P) : l.id = i
  BY PageLines
<1>4. new.parts = files.parts \union {<<n, L>>}
  <2>1. \A p \in files.parts : p[1] # n
    BY <1>0, <1>2 DEF Paging
  <2> QED  BY <1>0, <2>1 DEF WithPart, Directory
<1>5. Collected(new) = Collected(files) \union added
  <2>1. PartAdded(new, files, n, L)
    BY <1>4 DEF PartAdded
  <2> QED  BY <2>1, CollectedUnion
<1>6. /\ last \in Nat
      /\ \A i \in P : i \in Nat /\ q.cursor < i /\ i <= last
  BY <1>2 DEF Selected
<1>7. \A x \in Collected(files) : x[2].id \in Nat /\ x[2].id <= q.cursor
  BY <1>2, CollectedTypes DEF Lines, Line, Paging
<1>8. \A x \in added : x = <<n, x[2]>> /\ x[2] \in LinesOf(P) /\ x[2].id \in P
  BY <1>3 DEF Numbered
<1>9. Faithful(r, Collected(new))
  <2>1. ASSUME NEW x \in Collected(new) PROVE LineTrue(r, x[2])
    <3>1. CASE x \in Collected(files)
      BY <3>1, <1>1 DEF Paging, Faithful, LineTrue
    <3>2. CASE x \in added
      BY <3>2, <1>1, <1>3, <1>8 DEF LineTrue
    <3> QED  BY <2>1, <1>5, <3>1, <3>2
  <2>2. ASSUME NEW x \in Collected(new), NEW y \in Collected(new), x[2].id = y[2].id
        PROVE  x = y
    <3>1. CASE x \in Collected(files) /\ y \in Collected(files)
      BY <2>2, <3>1 DEF Paging, Faithful
    <3>2. CASE x \in added /\ y \in added
      <4>0. /\ row[x[2].id][q.survey] = {x[2].response}
            /\ row[y[2].id][q.survey] = {y[2].response}
        BY <3>2, <1>3, <1>8
      <4>1. x[2].response = y[2].response
        <5>1. {x[2].response} = {y[2].response}
          BY <2>2, <4>0
        <5> QED  BY <5>1
      <4>2. x[2] \in Line /\ y[2] \in Line
        BY <3>2, <1>8 DEF LinesOf
      <4>3. x[2] = y[2]
        BY <2>2, <4>1, <4>2 DEF Line
      <4> QED  BY <3>2, <4>3, <1>8
    <3>3. ~(x \in Collected(files) /\ y \in added)
      BY <2>2, <1>2, <1>6, <1>7, <1>8
    <3>4. ~(y \in Collected(files) /\ x \in added)
      BY <2>2, <1>2, <1>6, <1>7, <1>8
    <3> QED  BY <1>5, <3>1, <3>2, <3>3, <3>4
  <2> QED  BY <2>1, <2>2 DEF Faithful
<1>10. \A x \in Collected(new) : x[2].id <= last
  <2>1. \A c, i \in Nat : c < i /\ i <= last => c <= last
    BY <1>6
  <2>2. \A i \in Nat : i <= q.cursor => i <= last
    BY <1>2, <1>6
  <2> QED  BY <2>2, <1>5, <1>6, <1>7, <1>8
<1>11. \A p \in new.parts : p[1] < n + 1
  BY <1>0, <1>2, <1>4 DEF Paging
<1>12. \A m \in 0..(n + 1 - 1) : \E p \in new.parts : p[1] = m
  <2> SUFFICES ASSUME NEW m \in 0..n PROVE \E p \in new.parts : p[1] = m
    BY <1>2
  <2>1. CASE m = n
    <3>1. <<n, L>>[1] = m
      BY <2>1
    <3> QED  BY <3>1, <1>4
  <2>2. CASE m # n
    <3>1. m \in 0..(n - 1)
      BY <2>2, <1>2
    <3>2. \A k \in 0..(n - 1) : \E p \in files.parts : p[1] = k
      BY <1>0 DEF Paging
    <3> QED  BY <3>1, <3>2, <1>4
  <2> QED  BY <2>1, <2>2
<1>13. ASSUME NEW i \in q.stored \ wiped, i <= last \/ (pc = "merge" /\ ~q.cut)
       PROVE  \E x \in Collected(new) : x[2].id = i
  <2>1. CASE i <= q.cursor
    BY <2>1, <1>5 DEF Paging
  <2>2. CASE ~(i <= q.cursor)
    <3>0. i \in Nat /\ i \in ResponseID /\ row[i][q.survey] # {}
      BY <1>2, <1>13
    <3>1. i \in Selected(q.survey, q.cursor)
      <4>1. i > q.cursor
        BY <3>0, <1>2, <2>2
      <4> QED  BY <3>0, <4>1 DEF Selected, Stored
    <3>2. i \in P
      <4>1. SUFFICES ASSUME i \notin P PROVE FALSE
        OBVIOUS
      <4>2. last < i
        BY <3>1, <4>1 DEF Returned, IsFirst
      <4>3. pc = "merge" /\ ~q.cut
        BY <1>6, <1>13, <3>0, <4>2
      <4> QED  BY <3>1, <4>1, <4>3 DEF Returned
    <3>3. PICK l \in LinesOf(P) : l.id = i
      BY <1>3, <3>2
    <3>4. <<n, l>> \in Collected(new)
      BY <1>5 DEF Numbered
    <3> QED  BY <3>3, <3>4
  <2> QED  BY <2>1, <2>2
<1>14. \A m \in 0..(r.part - 1) : \E p \in new.parts : p[1] = m
  BY <1>1, <1>2, <1>12, NumbersBelow
<1>15. \A i \in r.stored \ wiped :
         i <= r.cursor \/ (r.pc = "merge" /\ ~r.cut) => \E x \in Collected(new) : x[2].id = i
  BY <1>1, <1>13
<1> QED  BY <1>1, <1>9, <1>10, <1>11, <1>14, <1>15 DEF Paging

LEMMA BegunFields ==
    ASSUME NEW q \in ReportState
    PROVE  LET r == Begun(q) IN
           /\ r.pc = "page" /\ r.survey = q.survey /\ r.stored = Stored(q.survey)
           /\ r.cursor = q.cursor /\ r.part = q.part
<1>1. PICK x : x = At(q, "page")
  OBVIOUS
<1>2. /\ x.pc = "page" /\ x.survey = q.survey
      /\ x.cursor = q.cursor /\ x.part = q.part
  BY <1>1, AtFields
<1>3. x \in ReportState
  BY <1>1, ReportTypes
<1>4. PICK y : y = [x EXCEPT !.stored = Stored(q.survey)]
  OBVIOUS
<1>5. /\ y.pc = x.pc /\ y.survey = x.survey /\ y.stored = Stored(q.survey)
      /\ y.cursor = x.cursor /\ y.part = x.part
  BY <1>3, <1>4 DEF ReportState
<1>6. y = Begun(q)
  BY <1>1, <1>4 DEF Begun
<1> QED  BY <1>2, <1>5, <1>6

\* The first query starts before all ids.
LEMMA PagingBegins ==
    ASSUME NEW q, NEW files, q.cursor = 0, q.part = 0, files.parts = {},
           q.pc = "page", q.stored \subseteq ResponseID
    PROVE  Paging(q, files)
<1>1. Collected(files) = {}
  BY DEF Collected
<1>2. \A i \in q.stored : ~(i <= 0)
  <2>1. \A i \in ResponseID : ~(i <= 0)
    BY ReportAssumption
  <2> QED  BY <2>1
<1>3. PICK k : k = q.part
  OBVIOUS
<1>4. \A m \in 0..(k - 1) : FALSE
  BY <1>3
<1> QED  BY <1>1, <1>2, <1>3, <1>4 DEF Paging, Faithful

\* An empty page: all there was is below the cursor.
LEMMA PagingEnds ==
    ASSUME NEW q \in ReportState, NEW files, Paging(q, files),
           q.survey \in SurveyID,
           \A i \in q.stored : i \in wiped \/ row[i][q.survey] # {},
           Returned(q, {}, Selected(q.survey, q.cursor))
    PROVE  Paging(At(q, "merge"), files)
<1>1. q.cut \/ Selected(q.survey, q.cursor) = {}
  BY DEF Returned
<1>2. q.cursor \in Nat /\ q.stored \subseteq ResponseID /\ ResponseID \subseteq Nat
  BY Counters
<1>3. ASSUME NEW i \in q.stored \ wiped, ~q.cut
      PROVE  i <= q.cursor
  <2>1. i \notin Selected(q.survey, q.cursor)
    BY <1>1, <1>3
  <2>2. i \in ResponseID /\ i \in Nat /\ row[i][q.survey] # {}
    BY <1>2
  <2>3. ~(i > q.cursor)
    BY <2>1, <2>2 DEF Selected, Stored
  <2> QED  BY <1>2, <2>2, <2>3
<1>4. PICK r : r = At(q, "merge")
  OBVIOUS
<1>5. /\ r.pc = "merge" /\ r.survey = q.survey /\ r.stored = q.stored
      /\ r.cursor = q.cursor /\ r.part = q.part /\ r.cut = q.cut
  BY <1>4, AtFields
<1>6. Faithful(r, Collected(files))
  BY <1>5, SameQuestion DEF Paging
<1>7. \A i \in r.stored \ wiped :
        i <= r.cursor \/ ~r.cut => \E x \in Collected(files) : x[2].id = i
  BY <1>3, <1>5 DEF Paging
<1>8. /\ \A x \in Collected(files) : x[2].id <= r.cursor
      /\ \A p \in files.parts : p[1] < r.part
      /\ \A m \in 0..(r.part - 1) : \E p \in files.parts : p[1] = m
  BY <1>5 DEF Paging
<1> QED  BY <1>4, <1>6, <1>7, <1>8 DEF Paging

\* Remembering a cut asks for less.
LEMMA PagingCut ==
    ASSUME NEW q \in ReportState, NEW files, Paging(q, files)
    PROVE  Paging(Cut(q), files)
<1>1. PICK r : r = Cut(q)
  OBVIOUS
<1>2. /\ r.pc = q.pc /\ r.survey = q.survey /\ r.stored = q.stored
      /\ r.cursor = q.cursor /\ r.part = q.part /\ r.cut
  BY <1>1, CutFields
<1>3. Faithful(r, Collected(files))
  BY <1>2 DEF Paging, Faithful, LineTrue
<1>4. /\ \A x \in Collected(files) : x[2].id <= r.cursor
      /\ \A p \in files.parts : p[1] < r.part
      /\ \A m \in 0..(r.part - 1) : \E p \in files.parts : p[1] = m
      /\ \A i \in r.stored \ wiped :
           i <= r.cursor => \E x \in Collected(files) : x[2].id = i
  BY <1>2 DEF Paging
<1> QED  BY <1>1, <1>2, <1>3, <1>4 DEF Paging

\* Moving on with the same lines in the CSV, or in the archive.
LEMMA Carries ==
    ASSUME NEW q \in ReportState, NEW files, NEW new, ReportInv(q, files),
           q.survey \in SurveyID,
           NEW pc \in {"clean", "stat", "packet", "zip", "remove", "open", "done",
                       "error", "panic"},
           NEW C, Faithful(q, C), Covers(q, C),
           pc \in {"clean", "stat", "packet", "zip"} => new.csv = {C},
           pc \in {"remove", "open", "done"} => new.zip = {C}
    PROVE  ReportInv(At(q, pc), new)
<1>1. PICK r : r = At(q, pc)
  OBVIOUS
<1>2. r.pc = pc /\ r.survey = q.survey /\ r.stored = q.stored /\ r.cut = q.cut
  BY <1>1, AtFields
<1>3. Faithful(r, C) /\ Covers(r, C)
  BY <1>2, SameQuestion
<1>4. \A i \in r.stored : i \in wiped \/ row[i][r.survey] # {}
  BY <1>2 DEF ReportInv
<1> QED  BY <1>1, <1>2, <1>3, <1>4 DEF ReportInv

\* A request that ended without a report has nothing more to show.
LEMMA Fails ==
    ASSUME NEW q \in ReportState, NEW files, NEW new, ReportInv(q, files),
           q.pc # "idle", NEW pc \in {"error", "panic"}
    PROVE  ReportInv(At(q, pc), new)
<1>1. PICK r : r = At(q, pc)
  OBVIOUS
<1>2. r.pc = pc /\ r.survey = q.survey /\ r.stored = q.stored
  BY <1>1, AtFields
<1> QED  BY <1>1, <1>2 DEF ReportInv

----------------------------------------------------------------------------
(* Every step of a report keeps its invariant.                             *)

\* The names the steps below use.
Holds(g) == ReportInv(report[g], dir[g])

LEMMA Updated ==
    ASSUME TypeOK, NEW g \in Report
    PROVE  /\ \A pc : Goto(g, pc) => report'[g] = At(report[g], pc)
           /\ \A files : Store(g, files) => dir'[g] = files
           /\ UNCHANGED dir => dir'[g] = dir[g]
           /\ report[g] \in ReportState /\ dir[g] \in Directory
           /\ Files(g) = dir[g]
BY DEF TypeOK, Goto, Store, Files, NewID

\* The worker goes on with what a query returned, be it cut or not.
LEMMA SavedStep ==
    ASSUME TypeOK, OneSurvey, NEW g \in Report, NEW q \in ReportState,
           q.survey \in SurveyID, q.pc = "page", Paging(q, dir[g]),
           \A i \in q.stored : i \in wiped \/ row[i][q.survey] # {},
           NEW P \in SUBSET Selected(q.survey, q.cursor),
           Returned(q, P, Selected(q.survey, q.cursor)),
           SavePage(g, q, P)
    PROVE  ReportInv(report'[g], dir'[g])
<1> DEFINE files == dir[g]
<1>1. files \in Directory
  BY Updated
<1>2. CASE P = {} /\ report' = [report EXCEPT ![g] = At(q, "merge")] /\ UNCHANGED dir
  <2>1. report'[g] = At(q, "merge") /\ dir'[g] = files
    BY <1>2 DEF TypeOK
  <2>2. Paging(At(q, "merge"), files)
    BY <1>2, PagingEnds
  <2>3. PICK r : r = At(q, "merge")
    OBVIOUS
  <2>4. r.pc = "merge" /\ r.survey = q.survey /\ r.stored = q.stored
    BY <2>3, AtFields
  <2> QED  BY <2>1, <2>2, <2>3, <2>4 DEF ReportInv
<1>3. ASSUME NEW last \in P, \A i \in P : i <= last,
             NEW pc \in {"page", "merge"}, pc = "merge" => Cardinality(P) < PageSize,
             report' = [report EXCEPT ![g] = Paged(q, last, pc)],
             Store(g, WithPart(Files(g), q.part, LinesOf(P)))
      PROVE  ReportInv(report'[g], dir'[g])
  <2>1. report'[g] = Paged(q, last, pc)
    BY <1>3 DEF TypeOK
  <2>2. dir'[g] = WithPart(files, q.part, LinesOf(P))
    BY <1>3, Updated
  <2>3. Paging(Paged(q, last, pc), WithPart(files, q.part, LinesOf(P)))
    BY <1>1, <1>3, PageSaved
  <2>4. PICK r : r = Paged(q, last, pc)
    OBVIOUS
  <2>5. r.pc = pc /\ r.survey = q.survey /\ r.stored = q.stored
    BY <2>4, PagedFields
  <2> QED  BY <2>1, <2>2, <2>3, <2>4, <2>5 DEF ReportInv
<1> QED  BY <1>2, <1>3 DEF SavePage

LEMMA PageStep ==
    ASSUME TypeOK, OneSurvey, NEW g \in Report, Holds(g),
           report[g].survey \in SurveyID, GetPage(g) \/ PageBreaksOff(g)
    PROVE  ReportInv(report'[g], dir'[g])
<1> DEFINE q == report[g]
           selected == Selected(q.survey, q.cursor)
<1>1. /\ q \in ReportState /\ q.pc = "page" /\ Paging(q, dir[g])
      /\ \A i \in q.stored : i \in wiped \/ row[i][q.survey] # {}
  BY Updated DEF Holds, ReportInv, GetPage, PageBreaksOff
<1>2. CASE GetPage(g)
  <2>1. PICK P \in SUBSET selected : IsPage(P, selected) /\ SavePage(g, q, P)
    BY <1>2 DEF GetPage
  <2>2. Returned(q, P, selected)
    BY <2>1, PageReturned
  <2> QED  BY <1>1, <2>1, <2>2, SavedStep
<1>3. CASE PageBreaksOff(g)
  <2>1. PICK r : r = Cut(q)
    OBVIOUS
  <2>2. PICK P \in SUBSET selected : IsBroken(P, selected) /\ SavePage(g, r, P)
    BY <1>3, <2>1 DEF PageBreaksOff
  <2>3. /\ r.pc = q.pc /\ r.survey = q.survey /\ r.stored = q.stored
        /\ r.cursor = q.cursor /\ r.cut
    BY <1>1, <2>1, CutFields
  <2>4. r \in ReportState /\ Paging(r, dir[g])
    BY <1>1, <2>1, ReportTypes, PagingCut
  <2>5. Returned(r, P, selected)
    BY <2>2, <2>3, PageReturned
  <2> QED  BY <1>1, <2>2, <2>3, <2>4, <2>5, SavedStep
<1> QED  BY <1>2, <1>3

LEMMA MergeStep ==
    ASSUME TypeOK, NEW g \in Report, Holds(g),
           report[g].survey \in SurveyID, MergeParts(g)
    PROVE  ReportInv(report'[g], dir'[g])
<1> DEFINE q == report[g]
           files == dir[g]
<1>1. /\ q \in ReportState /\ files \in Directory /\ q.pc = "merge"
      /\ ReportInv(q, files) /\ Paging(q, files)
  BY Updated DEF Holds, ReportInv, MergeParts
<1>2. CASE PartMissing(Files(g), MergeLimit(g))
  <2>1. report'[g] = At(q, "error")
    BY <1>2, Updated DEF MergeParts
  <2> QED  BY <1>1, <2>1, Fails
<1>3. CASE ~PartMissing(Files(g), MergeLimit(g))
  <2>1. PICK C : C = Collected(files)
    OBVIOUS
  <2>2. Merged(files, q.part) = C
    BY <1>1, <2>1, MergeIsCollected DEF Paging
  <2>3. PICK new : new = [files EXCEPT !.csv = {C}]
    OBVIOUS
  <2>4. new.csv = {C}
    BY <1>1, <2>3 DEF Directory
  <2>5. report'[g] = At(q, "clean") /\ dir'[g] = new
    BY <1>3, <2>2, <2>3, Updated DEF MergeParts, MergeLimit
  <2>6. Faithful(q, C) /\ Covers(q, C)
    <3>1. ASSUME NEW i \in q.stored \ wiped, ~ \E x \in C : x[2].id = i
          PROVE  q.cut /\ \A x \in C : x[2].id < i
      <4>1. q.cut /\ ~(i <= q.cursor)
        BY <1>1, <2>1, <3>1 DEF Paging
      <4>2. i \in Nat /\ q.cursor \in Nat
        BY <1>1, Counters
      <4>3. \A x \in C : x[2].id \in Nat /\ x[2].id <= q.cursor
        BY <1>1, <2>1, CollectedTypes, Counters DEF Paging, Lines, Line
      <4> QED  BY <4>1, <4>2, <4>3
    <3>2. Covers(q, C)
      BY <3>1 DEF Covers
    <3> QED  BY <1>1, <2>1, <3>2 DEF Paging
  <2> QED  BY <1>1, <2>4, <2>5, <2>6, Carries
<1> QED  BY <1>2, <1>3

\* From the merged CSV to the archive.
LEMMA PackStep ==
    ASSUME TypeOK, NEW g \in Report, Holds(g), report[g].survey \in SurveyID,
           RemoveParts(g) \/ SurveyMetadata(g) \/ ServerMetadata(g) \/ CreateZip(g)
    PROVE  ReportInv(report'[g], dir'[g])
<1> DEFINE q == report[g]
           files == dir[g]
<1>1. /\ q \in ReportState /\ files \in Directory /\ Files(g) = files
      /\ q.pc \in {"clean", "stat", "packet", "zip"}
      /\ ReportInv(q, files)
  BY Updated DEF Holds, RemoveParts, SurveyMetadata, ServerMetadata, CreateZip
<1>2. PICK C : files.csv = {C} /\ Faithful(q, C) /\ Covers(q, C)
  BY <1>1 DEF ReportInv
<1>3. CASE RemoveParts(g)
  <2>1. report'[g] = At(q, "stat")
    BY <1>3, Updated DEF RemoveParts
  <2>2. PICK new : new = [files EXCEPT !.parts = {}]
    OBVIOUS
  <2>3. new.csv = {C}
    BY <1>1, <1>2, <2>2 DEF Directory
  <2>4. dir'[g] = new \/ dir'[g] = files
    BY <1>1, <1>3, <2>2, Updated DEF RemoveParts
  <2> QED  BY <1>1, <1>2, <2>1, <2>3, <2>4, Carries
<1>4. CASE SurveyMetadata(g) /\ q.survey \in surveys
  <2>1. report'[g] = At(q, "packet")
    BY <1>4, Updated DEF SurveyMetadata
  <2>2. PICK new : new = [files EXCEPT !.meta = @ \union {"survey"}]
    OBVIOUS
  <2>3. new.csv = {C}
    BY <1>1, <1>2, <2>2 DEF Directory
  <2>4. dir'[g] = new
    BY <1>1, <1>4, <2>2, Updated DEF SurveyMetadata
  <2> QED  BY <1>1, <1>2, <2>1, <2>3, <2>4, Carries
<1>5. CASE SurveyMetadata(g) /\ q.survey \notin surveys
  <2>1. report'[g] = At(q, "panic")
    BY <1>5, Updated DEF SurveyMetadata
  <2> QED  BY <1>1, <2>1, Fails
<1>6. CASE ServerMetadata(g)
  <2>1. report'[g] = At(q, "zip")
    BY <1>6, Updated DEF ServerMetadata
  <2>2. PICK new : new = [files EXCEPT !.meta = @ \union {"server"}]
    OBVIOUS
  <2>3. new.csv = {C}
    BY <1>1, <1>2, <2>2 DEF Directory
  <2>4. dir'[g] = new
    BY <1>1, <1>6, <2>2, Updated DEF ServerMetadata
  <2> QED  BY <1>1, <1>2, <2>1, <2>3, <2>4, Carries
<1>7. CASE CreateZip(g) /\ report'[g] = At(q, "error")
  BY <1>1, <1>7, Fails
<1>8. CASE CreateZip(g) /\ report'[g] # At(q, "error")
  <2>1. PICK new : new = [files EXCEPT !.zip = files.csv]
    OBVIOUS
  <2>2. new.zip = {C}
    BY <1>1, <1>2, <2>1 DEF Directory
  <2>3. report'[g] = At(q, "remove") /\ dir'[g] = new
    BY <1>1, <1>8, <2>1, Updated DEF CreateZip
  <2> QED  BY <1>1, <1>2, <2>2, <2>3, Carries
<1> QED  BY <1>3, <1>4, <1>5, <1>6, <1>7, <1>8

\* The archive is made: only its own directory entry matters now.
LEMMA DeliverStep ==
    ASSUME TypeOK, NEW g \in Report, Holds(g), report[g].survey \in SurveyID,
           RemoveFiles(g) \/ OpenReport(g)
    PROVE  ReportInv(report'[g], dir'[g])
<1> DEFINE q == report[g]
           files == dir[g]
<1>1. /\ q \in ReportState /\ files \in Directory /\ Files(g) = files
      /\ q.pc \in {"remove", "open"}
      /\ ReportInv(q, files)
  BY Updated DEF Holds, RemoveFiles, OpenReport
<1>2. PICK C : files.zip = {C} /\ Faithful(q, C) /\ Covers(q, C)
  BY <1>1 DEF ReportInv
<1>3. CASE RemoveFiles(g)
  <2>1. report'[g] = At(q, "open")
    BY <1>3, Updated DEF RemoveFiles
  <2>2. PICK both, csv, meta :
          /\ both = [files EXCEPT !.csv = {}, !.meta = {}]
          /\ csv = [files EXCEPT !.csv = {}]
          /\ meta = [files EXCEPT !.meta = {}]
    OBVIOUS
  <2>3. both.zip = {C} /\ csv.zip = {C} /\ meta.zip = {C}
    BY <1>1, <1>2, <2>2 DEF Directory
  <2>4. dir'[g] \in {both, csv, meta}
    BY <1>1, <1>3, <2>2, Updated DEF RemoveFiles
  <2> QED  BY <1>1, <1>2, <2>1, <2>3, <2>4, Carries
<1>4. CASE OpenReport(g)
  <2>1. report'[g] = At(q, "done") /\ dir'[g] = files
    BY <1>1, <1>2, <1>4, Updated DEF OpenReport
  <2> QED  BY <1>1, <1>2, <2>1, Carries
<1> QED  BY <1>3, <1>4

\* The questions are read and the paging begins, from the first id on.
LEMMA SurveyStep ==
    ASSUME TypeOK, NEW g \in Report, Holds(g), report[g].survey \in SurveyID,
           GetSurvey(g)
    PROVE  ReportInv(report'[g], dir'[g])
<1> DEFINE q == report[g]
           files == dir[g]
<1>1. /\ q \in ReportState /\ files \in Directory /\ dir'[g] = files
      /\ q.pc = "survey" /\ ReportInv(q, files)
  BY Updated DEF Holds, GetSurvey
<1>2. CASE q.survey \in surveys
  <2>1. PICK r : r = Begun(q)
    OBVIOUS
  <2>2. report'[g] = r
    BY <1>2, <2>1 DEF GetSurvey, TypeOK
  <2>3. /\ r.pc = "page" /\ r.survey = q.survey /\ r.stored = Stored(q.survey)
        /\ r.cursor = 0 /\ r.part = 0 /\ files.parts = {}
    BY <1>1, <2>1, BegunFields DEF ReportInv
  <2>4. /\ r.stored \subseteq ResponseID
        /\ \A i \in r.stored : row[i][r.survey] # {}
    BY <2>3 DEF Stored
  <2>5. Paging(r, files)
    BY <2>3, <2>4, PagingBegins
  <2> QED  BY <1>1, <2>2, <2>3, <2>4, <2>5 DEF ReportInv
<1>3. CASE q.survey \notin surveys
  <2>1. report'[g] = At(q, "panic")
    BY <1>3, Updated DEF GetSurvey
  <2> QED  BY <1>1, <2>1, Fails
<1> QED  BY <1>2, <1>3

LEMMA OwnStep ==
    ASSUME TypeOK, OneSurvey, NEW g \in Report, Holds(g),
           ReportStep(g) \/ PageBreaksOff(g) \/ CallFails(g)
    PROVE  ReportInv(report'[g], dir'[g])
<1>1. report[g].pc # "idle"
  BY DEF ReportStep, PageBreaksOff, CallFails, GetSurvey, GetPage, MergeParts, RemoveParts,
         SurveyMetadata, ServerMetadata, CreateZip, RemoveFiles, OpenReport
<1>2. report[g].survey \in SurveyID
  BY <1>1 DEF Holds, ReportInv
<1>3. CASE CallFails(g)
  <2>1. report'[g] = At(report[g], "error")
    BY <1>3, Updated DEF CallFails
  <2> QED  BY <1>1, <2>1, Updated, Fails DEF Holds
<1> QED  BY <1>2, <1>3, SurveyStep, PageStep, MergeStep, PackStep, DeliverStep
         DEF ReportStep

LEMMA AskFields ==
    ASSUME NEW q \in ReportState
    PROVE  LET x == At(q, "survey") IN
           /\ x.pc = "survey" /\ x.stored = q.stored
           /\ x.cursor = q.cursor /\ x.part = q.part
BY DEF ReportState, At

LEMMA AskStep ==
    ASSUME TypeOK, NEW g \in Report, NEW s \in SurveyID, Holds(g), Ask(g, s)
    PROVE  ReportInv(report'[g], dir'[g])
<1>1. PICK q : q = report[g]
  OBVIOUS
<1>2. q \in ReportState /\ q.pc = "idle" /\ dir'[g] = dir[g] /\ ReportInv(q, dir[g])
  BY <1>1, Updated DEF Ask, Holds
<1>3. PICK r : r = Asked(q, s)
  OBVIOUS
<1>4. report'[g] = r
  BY <1>1, <1>3 DEF Ask, TypeOK
<1>5. /\ r.pc = "survey" /\ r.survey = s /\ r.stored = q.stored
      /\ r.cursor = q.cursor /\ r.part = q.part
  <2>1. PICK x : x = At(q, "survey")
    OBVIOUS
  <2>2. /\ x \in ReportState /\ x.pc = "survey" /\ x.stored = q.stored
        /\ x.cursor = q.cursor /\ x.part = q.part
    BY <1>2, <2>1, ReportTypes, AskFields
  <2>3. r = [x EXCEPT !.survey = s]
    BY <1>3, <2>1 DEF Asked
  <2> QED  BY <2>2, <2>3 DEF ReportState
<1> QED  BY <1>2, <1>4, <1>5 DEF ReportInv

\* The reports do not share their files, so each is disturbed by the
\* responses at most.
LEMMA Undisturbed ==
    ASSUME TypeOK, Kept, NEW g \in Report, Holds(g),
           report'[g] = report[g], dir'[g] = dir[g]
    PROVE  Holds(g)'
<1>1. PICK q, files : q = report[g] /\ files = dir[g]
  OBVIOUS
<1>2. q \in ReportState /\ files \in Directory /\ ReportInv(q, files)
  BY <1>1, Updated DEF Holds
<1>3. ReportInv(q, files)'
  BY <1>2, OthersKeep
<1>4. report'[g] = q /\ dir'[g] = files
  BY <1>1
<1> QED  BY <1>3, <1>4 DEF Holds

\* Where the responses stay as they are, the invariant may be read before or
\* after the step.
LEMMA SameTables ==
    ASSUME NEW g \in Report, ReportInv(report'[g], dir'[g]), UNCHANGED tables
    PROVE  Holds(g)'
<1>1. PICK q, files : q = report'[g] /\ files = dir'[g]
  OBVIOUS
<1>2. row' = row /\ wiped' = wiped /\ ReportInv(q, files)
  BY <1>1 DEF tables
<1>3. \A C : (Faithful(q, C)' <=> Faithful(q, C)) /\ (Covers(q, C)' <=> Covers(q, C))
  BY <1>2 DEF Faithful, Covers, LineTrue
<1>4. Paging(q, files)' <=> Paging(q, files)
  BY <1>2, <1>3 DEF Paging, Collected
<1>5. ReportInv(q, files)'
  BY <1>2, <1>3, <1>4 DEF ReportInv
<1> QED  BY <1>1, <1>5 DEF Holds

LEMMA InvInit == Init => IInv
<1> SUFFICES ASSUME Init PROVE IInv
  OBVIOUS
<1>1. TypeOK
  BY TypeInit
<1>2. OneSurvey
  BY DEF Init, Ledger!LedgerInit, OneSurvey
<1>3. ASSUME NEW g \in Report PROVE ReportInv(report[g], dir[g])
  BY DEF Init, NotAsked, EmptyDirectory, ReportInv
<1> QED  BY <1>1, <1>2, <1>3 DEF IInv

\* A step of one report leaves the others and their files alone.
LEMMA OneReport ==
    ASSUME TypeOK, NEW g \in Report, NEW h \in Report, g # h,
           \/ ReportStep(g) \/ PageBreaksOff(g) \/ CallFails(g)
           \/ \E s \in SurveyID : Ask(g, s)
    PROVE  report'[h] = report[h] /\ dir'[h] = dir[h]
<1>1. ASSUME NEW q, NEW P, SavePage(g, q, P)
      PROVE  report'[h] = report[h] /\ dir'[h] = dir[h]
  BY <1>1 DEF SavePage, Store, NewID, TypeOK
<1>2. CASE GetPage(g) \/ PageBreaksOff(g)
  BY <1>1, <1>2 DEF GetPage, PageBreaksOff
<1> QED  BY <1>2
    DEF ReportStep, CallFails, Ask, GetSurvey, MergeParts, RemoveParts, SurveyMetadata,
        ServerMetadata, CreateZip, RemoveFiles, OpenReport, Goto, Store, NewID, TypeOK

LEMMA InvStep == IInv /\ [Next]_vars => IInv'
<1> SUFFICES ASSUME IInv, [Next]_vars PROVE IInv'
  OBVIOUS
<1>1. TypeOK' /\ Kept /\ OneSurvey'
  BY TypeStep, EveryStepKeeps DEF IInv
<1> SUFFICES ASSUME NEW h \in Report PROVE Holds(h)'
  BY <1>1 DEF IInv, Holds
<1>2. TypeOK /\ OneSurvey /\ Holds(h)
  BY DEF IInv, Holds
<1>3. CASE report'[h] = report[h] /\ dir'[h] = dir[h]
  BY <1>1, <1>2, <1>3, Undisturbed
<1>4. ASSUME NEW g \in Report, ReportStep(g) \/ PageBreaksOff(g) \/ CallFails(g)
      PROVE  Holds(h)'
  <2>1. CASE g = h
    BY <1>2, <1>4, <2>1, OwnStep, ReportStepTables, SameTables
  <2>2. CASE g # h
    BY <1>2, <1>3, <1>4, <2>2, OneReport
  <2> QED  BY <2>1, <2>2
<1>5. ASSUME NEW g \in Report, NEW s \in SurveyID, Ask(g, s) PROVE Holds(h)'
  <2>1. CASE g = h
    BY <1>2, <1>5, <2>1, AskStep, SameTables DEF Ask
  <2>2. CASE g # h
    BY <1>2, <1>3, <1>5, <2>2, OneReport
  <2> QED  BY <2>1, <2>2
<1>6. CASE Answer \/ ResetSurveys \/ ResetResponses \/ ResetFails \/ UNCHANGED vars
  BY <1>3, <1>6, AnswerStores DEF ResetSurveys, ResetResponses, ResetFails, vars
<1> QED  BY <1>4, <1>5, <1>6 DEF Next

LEMMA InvAlways == Spec => []IInv
BY InvInit, InvStep, PTL DEF Spec

\* A report that is sent shows every response there was when it began, and
\* none twice; if a page of it broke off unnoticed, only responses with larger
\* ids than all of its lines are missing.
THEOREM ReportIsComplete == Spec => []ReportComplete
<1>1. IInv => ReportComplete
  <2> SUFFICES ASSUME IInv, NEW g \in Report, report[g].pc = "done"
               PROVE  /\ \A i \in report[g].stored \ wiped :
                           \/ \E x \in Sent(g) : x[2].id = i
                           \/ report[g].cut /\ \A x \in Sent(g) : x[2].id < i
                      /\ \A x, y \in Sent(g) : x[2].id = y[2].id => x = y
    BY DEF ReportComplete
  <2>1. PICK C : dir[g].zip = {C} /\ Faithful(report[g], C) /\ Covers(report[g], C)
    BY DEF IInv, ReportInv
  <2>2. Sent(g) = C
    BY <2>1 DEF Sent, Files, NewID
  <2> QED  BY <2>1, <2>2 DEF Faithful, Covers
<1> QED  BY <1>1, InvAlways, PTL

\* Every line of a report that is sent is a response to its survey, and a
\* complete one is the response the survey keeps.
THEOREM ReportIsTruthful == Spec => []ReportTruthful
<1>1. IInv => ReportTruthful
  <2> SUFFICES ASSUME IInv, NEW g \in Report, NEW x \in Sent(g)
               PROVE  LineTrue(report[g], x[2])
    BY DEF ReportTruthful, LineTrue
  <2>1. report[g].pc = "done"
    BY DEF Sent
  <2>2. PICK C : dir[g].zip = {C} /\ Faithful(report[g], C)
    BY <2>1 DEF IInv, ReportInv
  <2>3. Sent(g) = C
    BY <2>1, <2>2 DEF Sent, Files, NewID
  <2> QED  BY <2>2, <2>3 DEF Faithful
<1> QED  BY <1>1, InvAlways, PTL

----------------------------------------------------------------------------
(* What a report leaves in its directory.                                  *)

\* The parts are removed after the merge, the other files after the zip.
Tidy(q, files) ==
    /\ q.pc \in {"stat", "packet", "zip", "remove", "open", "done"} => files.parts = {}
    /\ q.pc \in {"open", "done"} => files.csv = {} /\ files.meta = {}

TidyInv == spent.faults = 0 => \A g \in Report : Tidy(report[g], dir[g])

LEMMA FaultsStay ==
    ASSUME TypeOK, [Next]_vars, spent'.faults = 0
    PROVE  spent.faults = 0 /\ ~Fault
<1>1. spent.faults \in Nat
  <2>1. spent \in [faults : 0..MaxFaults, resets : 0..MaxResets]
    BY DEF TypeOK
  <2> QED  BY <2>1
<1>2. ~Fault
  <2>1. Fault => spent'.faults = spent.faults + 1
    BY DEF TypeOK, Fault
  <2> QED  BY <1>1, <2>1
<1>3. spent'.faults = spent.faults
  <2>1. UNCHANGED spent \/ spent' = [spent EXCEPT !.resets = spent.resets + 1]
    BY <1>2 DEF Next, vars, Ask, ReportStep, GetSurvey, GetPage, MergeParts,
                RemoveParts, SurveyMetadata, ServerMetadata, CreateZip, RemoveFiles,
                OpenReport, PageBreaksOff, CallFails, Answer, ResetSurveys, ResetResponses, ResetFails
  <2> QED  BY <2>1 DEF TypeOK
<1> QED  BY <1>2, <1>3

\* One report moves on, and only in its own directory.
LEMMA TidyKept ==
    ASSUME TypeOK, TidyInv, spent.faults = 0, NEW g \in Report,
           NEW q, report' = [report EXCEPT ![g] = q],
           NEW files, dir' = [dir EXCEPT ![g] = files], Tidy(q, files)
    PROVE  TidyInv'
<1>1. report'[g] = q /\ dir'[g] = files
  BY DEF TypeOK
<1>2. \A k \in Report \ {g} : report'[k] = report[k] /\ dir'[k] = dir[k]
  BY DEF TypeOK
<1> QED  BY <1>1, <1>2 DEF TidyInv

\* Rewriting one kind of file leaves the others.
LEMMA FileFields ==
    ASSUME NEW files \in Directory, NEW x
    PROVE  /\ [files EXCEPT !.parts = x].parts = x
           /\ [files EXCEPT !.csv = x].parts = files.parts
           /\ [files EXCEPT !.meta = x].parts = files.parts
           /\ [files EXCEPT !.zip = x].parts = files.parts
           /\ [files EXCEPT !.csv = {}, !.meta = {}].parts = files.parts
           /\ [files EXCEPT !.csv = {}, !.meta = {}].csv = {}
           /\ [files EXCEPT !.csv = {}, !.meta = {}].meta = {}
BY DEF Directory

LEMMA TidySteps ==
    ASSUME TypeOK, TidyInv, spent.faults = 0, ~Fault,
           NEW g \in Report, ReportStep(g)
    PROVE  TidyInv'
<1> DEFINE q == report[g]
           files == dir[g]
           Moves(pc, kept) == /\ report' = [report EXCEPT ![g] = At(q, pc)]
                              /\ dir' = [dir EXCEPT ![g] = kept]
<1>1. q \in ReportState /\ files \in Directory /\ Tidy(q, files)
  BY DEF TypeOK, TidyInv
<1>2. dir' = [dir EXCEPT ![g] = files] <=> UNCHANGED dir
  BY DEF TypeOK
<1>3. ASSUME NEW pc \in {"merge", "page", "clean", "stat", "packet", "zip", "remove",
                         "open", "done", "error", "panic"},
             NEW kept, Moves(pc, kept),
             pc \in {"stat", "packet", "zip", "remove", "open", "done"} => kept.parts = {},
             pc \in {"open", "done"} => kept.csv = {} /\ kept.meta = {}
      PROVE  TidyInv'
  <2>1. At(q, pc).pc = pc
    BY <1>1, AtFields
  <2>2. Tidy(At(q, pc), kept)
    BY <1>3, <2>1 DEF Tidy
  <2> QED  BY <1>3, <2>2, TidyKept
<1>4. CASE GetSurvey(g)
  <2>1. CASE q.survey \in surveys
    <3>1. report' = [report EXCEPT ![g] = Begun(q)] /\ UNCHANGED dir
      BY <1>4, <2>1 DEF GetSurvey
    <3>2. Begun(q).pc = "page"
      BY <1>1, AtFields DEF Begun, ReportState, At
    <3>3. Tidy(Begun(q), files)
      BY <3>2 DEF Tidy
    <3> QED  BY <1>2, <3>1, <3>3, TidyKept
  <2>2. CASE q.survey \notin surveys
    BY <1>2, <1>3, <1>4, <2>2 DEF GetSurvey, Goto
  <2> QED  BY <2>1, <2>2
<1>5. CASE GetPage(g)
  <2>1. CASE report' = [report EXCEPT ![g] = At(q, "merge")] /\ UNCHANGED dir
    BY <1>2, <1>3, <2>1
  <2>2. ASSUME NEW last, NEW pc \in {"merge", "page"}, NEW kept,
               report' = [report EXCEPT ![g] = Paged(q, last, pc)], Store(g, kept)
        PROVE  TidyInv'
    <3>1. Paged(q, last, pc).pc = pc
      BY <1>1, PagedFields
    <3>2. Tidy(Paged(q, last, pc), kept)
      BY <3>1 DEF Tidy
    <3> QED  BY <2>2, <3>2, TidyKept DEF Store, NewID
  <2> QED  BY <1>5, <2>1, <2>2 DEF GetPage, SavePage
<1>6. CASE MergeParts(g) \/ CreateZip(g)
  <2>1. CASE Goto(g, "error") /\ UNCHANGED dir
    BY <1>2, <1>3, <2>1 DEF Goto
  <2>2. CASE \E x : Moves("clean", x)
    BY <1>3, <2>2
  <2>3. CASE q.pc = "zip" /\ \E x : Moves("remove", [files EXCEPT !.zip = x])
    BY <1>1, <1>3, <2>3, FileFields DEF Tidy
  <2> QED  BY <1>6, <2>1, <2>2, <2>3
              DEF MergeParts, CreateZip, Goto, Store, Files, NewID
<1>7. CASE RemoveParts(g)
  <2>1. Moves("stat", [files EXCEPT !.parts = {}])
    BY <1>7 DEF RemoveParts, Goto, Store, Files, NewID
  <2> QED  BY <1>1, <1>3, <2>1, FileFields
<1>8. CASE SurveyMetadata(g) \/ ServerMetadata(g)
  <2>1. CASE Goto(g, "panic") /\ UNCHANGED dir
    BY <1>2, <1>3, <2>1 DEF Goto
  <2>2. CASE /\ q.pc \in {"stat", "packet"}
             /\ \E x, pc : /\ pc \in {"packet", "zip"}
                          /\ Moves(pc, [files EXCEPT !.meta = x])
    <3>1. PICK x, pc : pc \in {"packet", "zip"} /\ Moves(pc, [files EXCEPT !.meta = x])
      BY <2>2
    <3>2. files.parts = {}
      BY <1>1, <2>2 DEF Tidy
    <3>3. [files EXCEPT !.meta = x].parts = {}
      BY <1>1, <3>2, FileFields
    <3> HIDE DEF Moves
    <3> QED  BY <1>3, <3>1, <3>3
  <2> QED  BY <1>8, <2>1, <2>2
              DEF SurveyMetadata, ServerMetadata, Goto, Store, Files, NewID
<1>9. CASE RemoveFiles(g)
  <2>1. q.pc = "remove" /\ Moves("open", [files EXCEPT !.csv = {}, !.meta = {}])
    BY <1>9 DEF RemoveFiles, Goto, Store, Files, NewID
  <2> QED  BY <1>1, <1>3, <2>1, FileFields DEF Tidy
<1>10. CASE OpenReport(g)
  <2>1. q.pc = "open" /\ UNCHANGED dir /\ \E pc \in {"error", "done"} : Goto(g, pc)
    BY <1>10 DEF OpenReport
  <2> QED  BY <1>1, <1>2, <1>3, <2>1 DEF Tidy, Goto
<1> QED  BY <1>4, <1>5, <1>6, <1>7, <1>8, <1>9, <1>10 DEF ReportStep

LEMMA TidyStep == TypeOK /\ TidyInv /\ [Next]_vars => TidyInv'
<1> SUFFICES ASSUME TypeOK, TidyInv, [Next]_vars, spent'.faults = 0
             PROVE  TidyInv'
  BY DEF TidyInv
<1>1. spent.faults = 0 /\ ~Fault
  BY FaultsStay
<1>2. ASSUME NEW g \in Report, ReportStep(g) PROVE TidyInv'
  BY <1>1, <1>2, TidySteps
<1>3. ASSUME NEW g \in Report, NEW s \in SurveyID, Ask(g, s) PROVE TidyInv'
  <2>1. /\ report' = [report EXCEPT ![g] = Asked(report[g], s)]
        /\ dir' = [dir EXCEPT ![g] = dir[g]]
    BY <1>3 DEF Ask, TypeOK
  <2>2. Asked(report[g], s).pc = "survey"
    BY DEF TypeOK, ReportState, Asked, At
  <2>3. Tidy(Asked(report[g], s), dir[g])
    BY <2>2 DEF Tidy
  <2> QED  BY <1>1, <2>1, <2>3, TidyKept
<1>4. \A g \in Report : ~PageBreaksOff(g) /\ ~CallFails(g)
  BY <1>1 DEF PageBreaksOff, CallFails
<1>5. CASE Answer \/ ResetSurveys \/ ResetResponses \/ ResetFails \/ UNCHANGED vars
  <2>1. UNCHANGED <<report, dir>>
    BY <1>5 DEF Answer, ResetSurveys, ResetResponses, ResetFails, vars
  <2> QED  BY <1>1, <2>1 DEF TidyInv
<1> QED  BY <1>2, <1>3, <1>4, <1>5 DEF Next

\* Unless a call failed, a report that was sent leaves its archive behind and
\* no other file with answers.
THEOREM ArchiveRemainsAlone == Spec => []OnlyArchiveRemains
<1>1. Init => TidyInv
  BY DEF Init, TidyInv, Tidy, NotAsked
<1>2. TypeOK /\ TidyInv => OnlyArchiveRemains
  <2> SUFFICES ASSUME TypeOK, TidyInv, spent.faults = 0, NEW g \in Report,
                      report[g].pc = "done"
               PROVE  dir[g] = [EmptyDirectory EXCEPT !.zip = dir[g].zip]
    BY DEF OnlyArchiveRemains, Files, NewID
  <2>1. dir[g] \in Directory /\ Tidy(report[g], dir[g])
    BY DEF TypeOK, TidyInv
  <2>2. dir[g].parts = {} /\ dir[g].csv = {} /\ dir[g].meta = {}
    BY <2>1 DEF Tidy
  <2> QED  BY <2>1, <2>2 DEF Directory, EmptyDirectory
<1> QED  BY <1>1, <1>2, TidyStep, ReportTypeCorrect, PTL DEF Spec

=============================================================================
