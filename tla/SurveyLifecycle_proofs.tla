----------------------- MODULE SurveyLifecycle_proofs -----------------------
(***************************************************************************)
(* Theorems about SurveyLifecycle, for every set of nodes, surveys and     *)
(* requests and every bound.                                               *)
(***************************************************************************)
EXTENDS SurveyLifecycle, TLAPS

\* The initial values of configurations, rows and runs have their types.
LEMMA ZeroConfigType == ZeroConfig \in Config
  BY ConstantsAssumption DEF ZeroConfig, Config, Time

LEMMA NoRowType == NoRow \in Survey
  BY ConstantsAssumption DEF NoRow, Survey, Time

LEMMA JobIdleType == \A n \in Node : JobIdle(n) \in Job
  BY ZeroConfigType DEF JobIdle, Job

\* Changing the time of a configuration to "not scheduled" keeps it one.
LEMMA UnscheduledType == \A c \in Config : [c EXCEPT !.time = 0] \in Config
  BY ConstantsAssumption DEF Config, Time

\* Ending a survey keeps the table a table.
LEMMA UpdateStatusType ==
    ASSUME TypeOK, NEW s \in SurveyID \union {NoSurvey}, UpdateSurveyStatus(s)
    PROVE  survey' \in [SurveyID -> Survey] /\ stamp' \in Nat
<1>1. stamp \in Nat /\ survey \in [SurveyID -> Survey]
  BY DEF TypeOK
<1>2. \A t \in SurveyID :
        EndedRow(survey[t]) \in Survey
  BY <1>1 DEF EndedRow, Survey
<1>3. survey' = [t \in SurveyID |-> IF t = s THEN EndedRow(survey[t]) ELSE survey[t]]
  BY <1>1 DEF UpdateSurveyStatus
<1>4. survey' \in [SurveyID -> Survey]
  BY <1>1, <1>2, <1>3
<1>5. stamp' \in Nat
  BY <1>1 DEF UpdateSurveyStatus
<1>6. QED
  BY <1>4, <1>5

\* The initial states are well typed.
LEMMA InitType == Init => TypeOK
  BY ConstantsAssumption, ZeroConfigType, NoRowType, JobIdleType
     DEF Init, TypeOK, StopRequest, StopIdle

\* Every state of the specification is well typed.
THEOREM TypeCorrect == Spec => []TypeOK
<1>1. Init => TypeOK
  BY InitType
<1>2. TypeOK /\ [Next]_vars => TypeOK'
  <2> SUFFICES ASSUME TypeOK, [Next]_vars PROVE TypeOK'
    OBVIOUS
  <2>1. ASSUME NEW n \in Node, JobBegin(n) PROVE TypeOK'
    <3>1. job' \in Job
      BY <2>1, ZeroConfigType DEF JobBegin, JobIdle, Job
    <3>2. QED
      BY <2>1, <3>1 DEF JobBegin, TypeOK
  <2>2. CASE JobStopSurvey
    <3>0. job.pc = "stop" /\ job.target \in SurveyID \union {NoSurvey}
      BY <2>2 DEF JobStopSurvey, TypeOK, Job
    <3>1. survey' \in [SurveyID -> Survey] /\ stamp' \in Nat
      BY <2>2, <3>0, UpdateStatusType DEF JobStopSurvey
    <3>2. job' \in Job
      BY <2>2 DEF JobStopSurvey, TypeOK, Job
    <3>3. QED
      BY <2>2, <3>1, <3>2 DEF JobStopSurvey, TypeOK
  <2>3. CASE JobReadConfig
    <3>1. job' \in Job
      BY <2>3, JobIdleType DEF JobReadConfig, TypeOK, Job
    <3>2. QED
      BY <2>3, <3>1 DEF JobReadConfig, TypeOK
  <2>4. CASE JobCompare
    <3>1. job' \in Job
      BY <2>4, JobIdleType DEF JobCompare, TypeOK, Job
    <3>2. QED
      BY <2>4, <3>1 DEF JobCompare, TypeOK
  <2>5. CASE JobInsertSurvey
    <3>1. job' \in Job
      BY <2>5, UnscheduledType DEF JobInsertSurvey, TypeOK, Job
    <3>2. mem' \in [Node -> Config]
      BY <2>5, UnscheduledType DEF JobInsertSurvey, TypeOK, Job
    <3>3. survey' \in [SurveyID -> Survey]
      BY <2>5 DEF JobInsertSurvey, TypeOK, Survey, Job, Config, Fresh
    <3>4. QED
      BY <2>5, <3>1, <3>2, <3>3 DEF JobInsertSurvey, TypeOK
  <2>6. CASE JobInsertRefused
    BY <2>6, JobIdleType DEF JobInsertRefused, TypeOK, Job
  <2>7. CASE JobStoreConfig
    BY <2>7, JobIdleType DEF JobStoreConfig, TypeOK, Job
  <2>8. CASE JobCallFails
    BY <2>8, JobIdleType, ConstantsAssumption DEF JobCallFails, Fault, TypeOK, Job
  <2>9. CASE JobNodeCrash
    BY <2>9, JobIdleType, ConstantsAssumption DEF JobNodeCrash, Fault, TypeOK, Job
  <2>10. ASSUME NEW r \in Request, StopBegin(r) PROVE TypeOK'
    BY <2>10 DEF StopBegin, TypeOK, StopRequest
  <2>11. ASSUME NEW r \in Request, StopCommit(r) PROVE TypeOK'
    <3>0. stop[r].target \in SurveyID \union {NoSurvey}
      BY DEF TypeOK, StopRequest
    <3>1. survey' \in [SurveyID -> Survey] /\ stamp' \in Nat
      BY <2>11, <3>0, UpdateStatusType DEF StopCommit
    <3>2. QED
      BY <2>11, <3>1 DEF StopCommit, StopIdle, TypeOK, StopRequest
  <2>12. ASSUME NEW r \in Request, StopFails(r) PROVE TypeOK'
    BY <2>12, ConstantsAssumption DEF StopFails, StopIdle, Fault, TypeOK, StopRequest
  <2>13. ASSUME NEW c \in Config, AdminSave(c) PROVE TypeOK'
    BY <2>13, ConstantsAssumption DEF AdminSave, TypeOK
  <2>14. ASSUME NEW n \in Node, ConfigurationChange(n) PROVE TypeOK'
    BY <2>14 DEF ConfigurationChange, TypeOK, Job
  <2>15. CASE Tick
    BY <2>15, ConstantsAssumption DEF Tick, TypeOK
  <2>16. CASE UNCHANGED vars
    BY <2>16 DEF vars, TypeOK
  <2>17. QED
    BY <2>1, <2>2, <2>3, <2>4, <2>5, <2>6, <2>7, <2>8, <2>9, <2>10, <2>11, <2>12,
       <2>13, <2>14, <2>15, <2>16 DEF Next, JobStep, StopStep
<1>3. QED
  BY <1>1, <1>2, PTL DEF Spec

----------------------------------------------------------------------------
\* Ending a survey moves its id from whatever it was to the ended ones and
\* leaves what was configured for every survey alone.
LEMMA UpdateStatusEffect ==
    ASSUME TypeOK, NEW s \in SurveyID, UpdateSurveyStatus(s)
    PROVE  /\ InProgress' = InProgress \ {s}
           /\ Ended' = Ended \union {s}
           /\ Fresh' = Fresh \ {s}
           /\ \A t \in SurveyID : /\ survey'[t].start = survey[t].start
                                  /\ survey'[t].days = survey[t].days
                                  /\ survey'[t].content = survey[t].content
<1>1. survey' = [t \in SurveyID |-> IF t = s THEN EndedRow(survey[t]) ELSE survey[t]]
  BY DEF UpdateSurveyStatus, TypeOK
<1>2. \A t \in SurveyID : survey[t] \in Survey
  BY DEF TypeOK
<1>3. /\ EndedRow(survey[s]).status = "ended"
      /\ EndedRow(survey[s]).start = survey[s].start
      /\ EndedRow(survey[s]).days = survey[s].days
      /\ EndedRow(survey[s]).content = survey[s].content
  BY <1>2 DEF EndedRow, Survey
<1>4. survey'[s].status = "ended"
  BY <1>1, <1>3
<1>5. \A t \in SurveyID \ {s} : survey'[t] = survey[t]
  BY <1>1
<1>6. \A t \in SurveyID : /\ survey'[t].start = survey[t].start
                          /\ survey'[t].days = survey[t].days
                          /\ survey'[t].content = survey[t].content
  BY <1>1, <1>3
<1>7. QED
  BY <1>4, <1>5, <1>6 DEF InProgress, Ended, Fresh

\* The insert turns one unused id into a survey in progress made from the
\* job's configuration, and touches no other row.
LEMMA InsertEffect ==
    ASSUME TypeOK, JobInsertSurvey
    PROVE  \E s \in Fresh :
             /\ InProgress' = InProgress \union {s}
             /\ Ended' = Ended
             /\ Fresh' = Fresh \ {s}
             /\ survey'[s].start = job.config.time
             /\ survey'[s].days = job.config.days
             /\ survey'[s].content = job.config.content
             /\ \A t \in SurveyID \ {s} : survey'[t] = survey[t]
<1>1. PICK s \in Fresh :
        survey' = [survey EXCEPT ![s] =
                      [status |-> "in_progress", start |-> job.config.time,
                       days |-> job.config.days, content |-> job.config.content,
                       createdAt |-> stamp, updatedAt |-> stamp]]
  BY DEF JobInsertSurvey
<1>2. s \in SurveyID /\ survey[s].status = "absent"
  BY DEF Fresh
<1>3. /\ survey'[s].status = "in_progress"
      /\ survey'[s].start = job.config.time
      /\ survey'[s].days = job.config.days
      /\ survey'[s].content = job.config.content
      /\ \A t \in SurveyID \ {s} : survey'[t] = survey[t]
  BY <1>1, <1>2 DEF TypeOK
<1>4. QED
  BY <1>2, <1>3 DEF InProgress, Ended, Fresh

\* A step that leaves the table alone leaves what is read from it alone.
LEMMA TableUnchanged ==
    ASSUME survey' = survey
    PROVE  InProgress' = InProgress /\ Ended' = Ended /\ Fresh' = Fresh
  BY DEF InProgress, Ended, Fresh

\* The end of a survey is a point in time.
LEMMA EndTimeType ==
    ASSUME TypeOK
    PROVE  \A s \in SurveyID : EndTime(s) \in Nat
<1> TAKE s \in SurveyID
<1>1. survey[s].start \in Time /\ survey[s].days \in ExpiryDays \union {0}
  BY DEF TypeOK, Survey
<1>2. survey[s].start \in Nat /\ survey[s].days \in Nat
  BY <1>1, ConstantsAssumption DEF Time
<1>3. QED
  BY <1>2 DEF EndTime

----------------------------------------------------------------------------
LifecycleInv == TypeOK /\ AtMostOneInProgress /\ ViewsHold /\ StartedWhenDue

\* The stop request r and the job keep a well-typed target.
LEMMA TargetTypes ==
    ASSUME TypeOK, ViewsHold
    PROVE  /\ job.pc = "stop" => job.target \in SurveyID
           /\ \A r \in Request : stop[r].pc = "stop" => stop[r].target \in SurveyID
  BY DEF ViewsHold

\* Ending a survey that was started preserves what the actors rely on, as long
\* as the job and the requests still carry what they carried or are done.
LEMMA EndingKeepsInv ==
    ASSUME LifecycleInv, NEW s \in SurveyID \ Fresh, UpdateSurveyStatus(s), now' = now
    PROVE  /\ AtMostOneInProgress'
           /\ StartedWhenDue'
           /\ InProgress' = InProgress \ {s}
           /\ Fresh' = Fresh
           /\ \A t \in SurveyID : EndTime(t)' = EndTime(t)
<1>1. /\ InProgress' = InProgress \ {s}
      /\ Fresh' = Fresh \ {s}
      /\ \A t \in SurveyID : /\ survey'[t].start = survey[t].start
                             /\ survey'[t].days = survey[t].days
                             /\ survey'[t].content = survey[t].content
  BY UpdateStatusEffect DEF LifecycleInv
<1>2. AtMostOneInProgress'
  <2>1. \A t, u \in InProgress : t = u
    BY DEF LifecycleInv, AtMostOneInProgress, InProgress
  <2>2. \A t, u \in InProgress' : t = u
    BY <1>1, <2>1
  <2>3. QED
    BY <2>2 DEF AtMostOneInProgress, InProgress
<1>3. StartedWhenDue'
  BY <1>1 DEF LifecycleInv, StartedWhenDue
<1>4. QED
  BY <1>1, <1>2, <1>3 DEF EndTime

\* A step that leaves table and clock alone keeps the parts of the invariant
\* about them.
LEMMA TableInvUnchanged ==
    ASSUME LifecycleInv, survey' = survey, now' = now
    PROVE  AtMostOneInProgress' /\ StartedWhenDue'
  BY TableUnchanged DEF LifecycleInv, AtMostOneInProgress, StartedWhenDue

\* Every step keeps the invariant.
LEMMA InvStep == LifecycleInv /\ TypeOK' /\ [Next]_vars => LifecycleInv'
<1> SUFFICES ASSUME LifecycleInv, TypeOK', [Next]_vars
             PROVE  AtMostOneInProgress' /\ ViewsHold' /\ StartedWhenDue'
  BY DEF LifecycleInv
<1> USE DEF LifecycleInv
<1>1. ASSUME NEW n \in Node, JobBegin(n)
      PROVE  AtMostOneInProgress' /\ ViewsHold' /\ StartedWhenDue'
  <2>1. survey' = survey /\ now' = now /\ stop' = stop
    BY <1>1 DEF JobBegin
  <2>2. \/ InProgress = {} /\ job'.pc = "read"
        \/ \E s \in SurveyID : /\ InProgress = {s}
                               /\ ShouldSurveyStop(s)
                               /\ job'.pc = "stop"
                               /\ job'.target = s
    BY <1>1 DEF JobBegin, JobIdle
  <2>3. ViewsHold'
    BY <2>1, <2>2, TableUnchanged
       DEF ViewsHold, InProgress, Fresh, ShouldSurveyStop, EndTime
  <2>4. QED
    BY <2>1, <2>3, TableInvUnchanged
<1>2. ASSUME JobStopSurvey
      PROVE  AtMostOneInProgress' /\ ViewsHold' /\ StartedWhenDue'
  <2>1. /\ job.target \in SurveyID \ Fresh
        /\ InProgress \subseteq {job.target}
    BY <1>2 DEF ViewsHold, JobStopSurvey
  <2>2. UpdateSurveyStatus(job.target) /\ now' = now /\ stop' = stop
    BY <1>2 DEF JobStopSurvey
  <2>3. job'.pc = "read"
    BY <1>2 DEF JobStopSurvey, TypeOK, Job
  <2>4. /\ AtMostOneInProgress'
        /\ StartedWhenDue'
        /\ InProgress' = {}
        /\ Fresh' = Fresh
    BY <2>1, <2>2, EndingKeepsInv
  <2>5. ViewsHold'
    BY <2>2, <2>3, <2>4 DEF ViewsHold
  <2>6. QED
    BY <2>4, <2>5
<1>3. ASSUME JobReadConfig
      PROVE  AtMostOneInProgress' /\ ViewsHold' /\ StartedWhenDue'
  <2>1. survey' = survey /\ now' = now /\ stop' = stop /\ InProgress = {}
    BY <1>3 DEF JobReadConfig, ViewsHold
  <2>2. \/ job'.pc = "compare" /\ ShouldSurveyStart(job'.config)
        \/ job'.pc = "idle"
    BY <1>3 DEF JobReadConfig, JobIdle, TypeOK, Job
  <2>3. ViewsHold'
    BY <2>1, <2>2, TableUnchanged DEF ViewsHold, ShouldSurveyStart
  <2>4. QED
    BY <2>1, <2>3, TableInvUnchanged
<1>4. ASSUME JobCompare
      PROVE  AtMostOneInProgress' /\ ViewsHold' /\ StartedWhenDue'
  <2>1. survey' = survey /\ now' = now /\ stop' = stop /\ InProgress = {}
    BY <1>4 DEF JobCompare, ViewsHold
  <2>2. \/ job'.pc = "insert" /\ job'.config = job.config
        \/ job'.pc = "idle"
    BY <1>4 DEF JobCompare, JobIdle, TypeOK, Job
  <2>3. ShouldSurveyStart(job.config)
    BY <1>4 DEF JobCompare, ViewsHold
  <2>4. ViewsHold'
    BY <2>1, <2>2, <2>3, TableUnchanged DEF ViewsHold, ShouldSurveyStart
  <2>5. QED
    BY <2>1, <2>4, TableInvUnchanged
<1>5. ASSUME JobInsertSurvey
      PROVE  AtMostOneInProgress' /\ ViewsHold' /\ StartedWhenDue'
  <2>1. PICK s \in Fresh :
             /\ InProgress' = InProgress \union {s}
             /\ Ended' = Ended
             /\ Fresh' = Fresh \ {s}
             /\ survey'[s].start = job.config.time
             /\ survey'[s].days = job.config.days
             /\ survey'[s].content = job.config.content
             /\ \A t \in SurveyID \ {s} : survey'[t] = survey[t]
    BY <1>5, InsertEffect
  <2>2. /\ InProgress = {}
        /\ ShouldSurveyStart(job.config)
        /\ SurveyIsValid(job.config)
        /\ now' = now
        /\ stop' = stop
    BY <1>5 DEF JobInsertSurvey, ViewsHold
  <2>3. job'.pc = "store"
    BY <1>5 DEF JobInsertSurvey, TypeOK, Job
  <2>4. AtMostOneInProgress'
    <3>1. \A t, u \in InProgress' : t = u
      BY <2>1, <2>2
    <3>2. QED
      BY <3>1 DEF AtMostOneInProgress, InProgress
  <2>5. StartedWhenDue'
    <3>1. job.config.time \in 1..now
      BY <2>2 DEF ShouldSurveyStart, TypeOK, Job, Config, Time
    <3>2. QED
      BY <2>1, <2>2, <3>1 DEF StartedWhenDue, SurveyIsValid, Fresh
  <2>6. ViewsHold'
    BY <2>1, <2>2, <2>3 DEF ViewsHold
  <2>7. QED
    BY <2>4, <2>5, <2>6
<1>6. ASSUME \/ JobInsertRefused
             \/ JobStoreConfig
             \/ JobCallFails
             \/ JobNodeCrash
      PROVE  AtMostOneInProgress' /\ ViewsHold' /\ StartedWhenDue'
  <2>1. survey' = survey /\ now' = now /\ stop' = stop /\ job'.pc = "idle"
    BY <1>6 DEF JobInsertRefused, JobStoreConfig, JobCallFails, JobNodeCrash, JobIdle
  <2>2. ViewsHold'
    BY <2>1, TableUnchanged DEF ViewsHold
  <2>3. QED
    BY <2>1, <2>2, TableInvUnchanged
<1>7. ASSUME NEW r \in Request, StopBegin(r)
      PROVE  AtMostOneInProgress' /\ ViewsHold' /\ StartedWhenDue'
  <2>1. survey' = survey /\ now' = now /\ job' = job
    BY <1>7 DEF StopBegin
  <2>2. PICK s \in SurveyID : /\ InProgress = {s}
                              /\ stop' = [stop EXCEPT ![r] = [pc |-> "stop", target |-> s]]
    BY <1>7 DEF StopBegin
  <2>3. s \in SurveyID \ Fresh
    BY <2>2 DEF InProgress, Fresh
  <2>4. \A q \in Request : stop'[q].pc = "stop" => stop'[q].target \in SurveyID \ Fresh
    BY <2>2, <2>3 DEF ViewsHold, TypeOK
  <2>5. ViewsHold'
    BY <2>1, <2>4, TableUnchanged DEF ViewsHold, EndTime, ShouldSurveyStart
  <2>6. QED
    BY <2>1, <2>5, TableInvUnchanged
<1>8. ASSUME NEW r \in Request, StopCommit(r)
      PROVE  AtMostOneInProgress' /\ ViewsHold' /\ StartedWhenDue'
  <2>1. /\ stop[r].target \in SurveyID \ Fresh
        /\ UpdateSurveyStatus(stop[r].target)
        /\ now' = now
        /\ job' = job
    BY <1>8 DEF StopCommit, ViewsHold
  <2>2. /\ AtMostOneInProgress'
        /\ StartedWhenDue'
        /\ InProgress' \subseteq InProgress
        /\ Fresh' = Fresh
        /\ \A t \in SurveyID : EndTime(t)' = EndTime(t)
    BY <2>1, EndingKeepsInv
  <2>3. \A q \in Request :
          stop'[q].pc = "stop" => stop[q].pc = "stop" /\ stop'[q] = stop[q]
    BY <1>8 DEF StopCommit, StopIdle, TypeOK
  <2>4. job.pc = "stop" => EndTime(job.target)' = EndTime(job.target)
    BY <2>1, <2>2 DEF ViewsHold
  <2>5. ViewsHold'
    BY <2>1, <2>2, <2>3, <2>4 DEF ViewsHold, ShouldSurveyStart
  <2>6. QED
    BY <2>2, <2>5
<1>9. ASSUME NEW r \in Request, StopFails(r)
      PROVE  AtMostOneInProgress' /\ ViewsHold' /\ StartedWhenDue'
  <2>1. survey' = survey /\ now' = now /\ job' = job
    BY <1>9 DEF StopFails
  <2>2. \A q \in Request :
          stop'[q].pc = "stop" => stop[q].pc = "stop" /\ stop'[q] = stop[q]
    BY <1>9 DEF StopFails, StopIdle, TypeOK
  <2>3. ViewsHold'
    BY <2>1, <2>2, TableUnchanged DEF ViewsHold, EndTime, ShouldSurveyStart
  <2>4. QED
    BY <2>1, <2>3, TableInvUnchanged
<1>10. ASSUME NEW c \in Config, AdminSave(c)
       PROVE  AtMostOneInProgress' /\ ViewsHold' /\ StartedWhenDue'
  <2>1. survey' = survey /\ now' = now /\ job' = job /\ stop' = stop
    BY <1>10 DEF AdminSave
  <2>2. QED
    BY <2>1, TableUnchanged, TableInvUnchanged DEF ViewsHold, EndTime, ShouldSurveyStart
<1>11. ASSUME NEW n \in Node, ConfigurationChange(n)
       PROVE  AtMostOneInProgress' /\ ViewsHold' /\ StartedWhenDue'
  <2>1. survey' = survey /\ now' = now /\ stop' = stop
    BY <1>11 DEF ConfigurationChange
  <2>2. job'.pc = job.pc /\ job'.target = job.target /\ job'.config = job.config
    BY <1>11 DEF ConfigurationChange, TypeOK, Job
  <2>3. QED
    BY <2>1, <2>2, TableUnchanged, TableInvUnchanged DEF ViewsHold, EndTime, ShouldSurveyStart
<1>12. ASSUME Tick
       PROVE  AtMostOneInProgress' /\ ViewsHold' /\ StartedWhenDue'
  <2>1. survey' = survey /\ now' = now + 1 /\ job' = job /\ stop' = stop
    BY <1>12 DEF Tick
  <2>2. now \in Nat
    BY ConstantsAssumption DEF TypeOK
  <2>3. AtMostOneInProgress'
    BY <2>1 DEF AtMostOneInProgress
  <2>4. StartedWhenDue'
    BY <2>1, <2>2, TableUnchanged DEF StartedWhenDue
  <2>5. ViewsHold'
    <3>1. job.pc = "stop" => EndTime(job.target) \in Nat
      BY EndTimeType DEF ViewsHold
    <3>2. job.config.time \in Nat
      BY ConstantsAssumption DEF TypeOK, Job, Config, Time
    <3>3. QED
      BY <2>1, <2>2, <3>1, <3>2, TableUnchanged DEF ViewsHold, EndTime, ShouldSurveyStart
  <2>6. QED
    BY <2>3, <2>4, <2>5
<1>13. ASSUME UNCHANGED vars
       PROVE  AtMostOneInProgress' /\ ViewsHold' /\ StartedWhenDue'
  <2>1. survey' = survey /\ now' = now /\ job' = job /\ stop' = stop
    BY <1>13 DEF vars
  <2>2. QED
    BY <2>1, TableUnchanged, TableInvUnchanged DEF ViewsHold, EndTime, ShouldSurveyStart
<1>14. QED
  BY <1>1, <1>2, <1>3, <1>4, <1>5, <1>6, <1>7, <1>8, <1>9, <1>10, <1>11, <1>12, <1>13
     DEF Next, JobStep, StopStep

\* The invariant holds in every state.
THEOREM InvCorrect == Spec => []LifecycleInv
<1>1. Init => LifecycleInv
  <2> SUFFICES ASSUME Init PROVE LifecycleInv
    OBVIOUS
  <2>1. \A s \in SurveyID : survey[s].status = "absent"
    BY DEF Init, NoRow
  <2>2. job.pc = "idle" /\ \A r \in Request : stop[r].pc = "idle"
    BY DEF Init, JobIdle, StopIdle
  <2>3. QED
    BY <2>1, <2>2, InitType
       DEF LifecycleInv, AtMostOneInProgress, ViewsHold, StartedWhenDue, Fresh
<1>2. QED
  BY <1>1, InvStep, TypeCorrect, PTL DEF Spec

----------------------------------------------------------------------------
\* GetInProgressSurvey never finds two surveys, so it never refuses to work.
THEOREM OneSurveyAtATime == Spec => []AtMostOneInProgress
  BY InvCorrect, PTL DEF LifecycleInv

\* The decisions of the job and of stop requests stay true until they act.
THEOREM ActorsViewsHold == Spec => []ViewsHold
  BY InvCorrect, PTL DEF LifecycleInv

\* No survey starts early, without questions or without a duration.
THEOREM SurveysStartWhenDue == Spec => []StartedWhenDue
  BY InvCorrect, PTL DEF LifecycleInv

\* Nothing but a stop request naming it ends a survey before its last day.
THEOREM SurveysNotCutShort == Spec => NoEarlyEnd
<1>1. LifecycleInv /\ [Next]_vars =>
        [\A s \in SurveyID :
           Ends(s) => \/ now >= EndTime(s)
                      \/ \E r \in Request : /\ stop[r].pc = "stop"
                                            /\ stop[r].target = s
                                            /\ stop'[r].pc = "idle"]_vars
  <2> SUFFICES ASSUME LifecycleInv, [Next]_vars, NEW s \in SurveyID, Ends(s)
               PROVE  \/ now >= EndTime(s)
                      \/ \E r \in Request : /\ stop[r].pc = "stop"
                                            /\ stop[r].target = s
                                            /\ stop'[r].pc = "idle"
    OBVIOUS
  <2> USE DEF LifecycleInv
  <2>0. s \in InProgress /\ s \notin InProgress' /\ survey' # survey
    BY DEF Ends, InProgress
  <2>1. CASE JobStopSurvey
    <3>1. s = job.target
      BY <2>0, <2>1 DEF JobStopSurvey, ViewsHold
    <3>2. QED
      BY <2>1, <3>1 DEF JobStopSurvey, ViewsHold
  <2>2. CASE JobInsertSurvey
    BY <2>0, <2>2, InsertEffect
  <2>3. ASSUME NEW r \in Request, StopCommit(r)
        PROVE  /\ stop[r].pc = "stop"
               /\ stop[r].target = s
               /\ stop'[r].pc = "idle"
    <3>1. stop[r].target \in SurveyID /\ UpdateSurveyStatus(stop[r].target)
      BY <2>3 DEF StopCommit, ViewsHold
    <3>2. s = stop[r].target
      BY <2>0, <3>1, UpdateStatusEffect
    <3>3. QED
      BY <2>3, <3>2 DEF StopCommit, StopIdle, TypeOK
  <2>4. QED
    BY <2>0, <2>1, <2>2, <2>3
       DEF Next, JobStep, StopStep, JobBegin, JobReadConfig, JobCompare,
           JobInsertRefused, JobStoreConfig, JobCallFails, JobNodeCrash, StopBegin,
           StopFails, AdminSave, ConfigurationChange, Tick, vars
<1>2. QED
  BY <1>1, InvCorrect, PTL DEF Spec, NoEarlyEnd

\* Every step is a step of SurveyTimeline or changes nothing it shows.
THEOREM ImplementsTimeline == Spec => TimelineSpec
<1>1. Init => Timeline!TimelineInit
  BY DEF Init, NoRow, Timeline!TimelineInit, InProgress, Ended
<1>2. LifecycleInv /\ [Next]_vars => [Timeline!TimelineNext]_(Timeline!timelineVars)
  <2> SUFFICES ASSUME LifecycleInv, [Next]_vars
               PROVE  Timeline!TimelineNext \/ UNCHANGED <<InProgress, Ended>>
    BY DEF Timeline!timelineVars
  <2> USE DEF LifecycleInv
  <2>0. ASSUME NEW s \in SurveyID \ Fresh, UpdateSurveyStatus(s)
        PROVE  Timeline!TimelineNext \/ UNCHANGED <<InProgress, Ended>>
    <3>1. InProgress' = InProgress \ {s} /\ Ended' = Ended \union {s}
      BY <2>0, UpdateStatusEffect
    <3>2. CASE s \in InProgress
      <4>1. InProgress = {s}
        BY <3>2 DEF AtMostOneInProgress, InProgress
      <4>2. QED
        BY <3>1, <4>1 DEF Timeline!TimelineNext, Timeline!Finish
    <3>3. CASE s \notin InProgress
      <4>1. s \in Ended
        BY <3>3 DEF InProgress, Ended, Fresh, TypeOK, Survey
      <4>2. QED
        BY <3>1, <3>3, <4>1
    <3>4. QED
      BY <3>2, <3>3
  <2>1. CASE JobStopSurvey
    BY <2>0, <2>1 DEF JobStopSurvey, ViewsHold
  <2>2. CASE JobInsertSurvey
    <3>1. PICK s \in Fresh : InProgress' = InProgress \union {s} /\ Ended' = Ended
      BY <2>2, InsertEffect
    <3>2. InProgress = {} /\ s \in SurveyID /\ s \notin Ended
      BY <2>2 DEF JobInsertSurvey, ViewsHold, Fresh, Ended
    <3>3. QED
      BY <3>1, <3>2 DEF Timeline!TimelineNext, Timeline!Begin
  <2>3. ASSUME NEW r \in Request, StopCommit(r)
        PROVE  Timeline!TimelineNext \/ UNCHANGED <<InProgress, Ended>>
    BY <2>0, <2>3 DEF StopCommit, ViewsHold
  <2>4. CASE survey' = survey
    BY <2>4, TableUnchanged
  <2>5. QED
    BY <2>1, <2>2, <2>3, <2>4
       DEF Next, JobStep, StopStep, JobBegin, JobReadConfig, JobCompare,
           JobInsertRefused, JobStoreConfig, JobCallFails, JobNodeCrash, StopBegin,
           StopFails, AdminSave, ConfigurationChange, Tick, vars
<1>3. QED
  BY <1>1, <1>2, InvCorrect, PTL DEF Spec, TimelineSpec, Timeline!TimelineSpec

----------------------------------------------------------------------------
(* As long as stop requests end no survey but the one that started last,   *)
(* the survey that ended last is the one that started last, which is what  *)
(* the job compares its configuration with.                                *)

\* No stop request commits after a later survey than the one it names began.
NoStaleCommit ==
    \A r \in Request : StopCommit(r) => stop[r].target \in LastStarted

NoStaleStop == [][NoStaleCommit]_vars

\* Row a was ended before row b was inserted.
Precedes(a, b) ==
    a.createdAt < b.createdAt => a.status = "ended" /\ a.updatedAt < b.createdAt

\* The stamps of a row while the next one is t.
StampsOK(row, t) == row.createdAt <= row.updatedAt /\ row.updatedAt < t

InSequence ==
    /\ \A s \in SurveyID \ Fresh : StampsOK(survey[s], stamp)
    /\ \A s, t \in SurveyID \ Fresh :
         /\ Precedes(survey[s], survey[t])
         /\ survey[s].createdAt = survey[t].createdAt => s = t

\* The job is about to insert another survey than the one that ended last.
Differs(c) == Ended = {} \/ \E e \in LatestEnded : ~SameSurvey(c, e)

SequenceInv ==
    /\ InSequence
    /\ job.pc = "stop" => job.target \in LastStarted
    /\ job.pc = "insert" => Differs(job.config)

LEMMA SequenceInit == Init => SequenceInv
<1> SUFFICES ASSUME Init PROVE SequenceInv
  OBVIOUS
<1>1. SurveyID \ Fresh = {}
  BY DEF Init, NoRow, Fresh
<1>2. job.pc = "idle"
  BY DEF Init, JobIdle
<1>3. QED
  BY <1>1, <1>2 DEF SequenceInv, InSequence

\* The stamps of a row.
LEMMA RowStamps ==
    ASSUME TypeOK
    PROVE  /\ stamp \in Nat
           /\ \A s \in SurveyID : /\ survey[s] \in Survey
                                  /\ survey[s].createdAt \in Nat
                                  /\ survey[s].updatedAt \in Nat
BY DEF TypeOK, Survey

\* A survey in progress is the one that started last.
LEMMA InProgressIsLast ==
    ASSUME TypeOK, InSequence, NEW s \in InProgress PROVE s \in LastStarted
<1>1. s \in SurveyID \ Fresh /\ survey[s].status = "in_progress"
  BY DEF InProgress, Fresh
<1>2. ASSUME NEW t \in SurveyID \ Fresh
      PROVE  survey[t].createdAt <= survey[s].createdAt
  <2>1. Precedes(survey[s], survey[t])
    BY <1>1 DEF InSequence
  <2>2. survey[s].createdAt \in Nat /\ survey[t].createdAt \in Nat
    BY <1>1, RowStamps
  <2>3. QED
    BY <1>1, <2>1, <2>2 DEF Precedes
<1>3. QED
  BY <1>1, <1>2 DEF LastStarted

\* The update of a row that nothing was inserted after, in progress or ended,
\* makes it the one that ended last.
LEMMA EndInSequence ==
    ASSUME TypeOK, InSequence, NEW s \in LastStarted, UpdateSurveyStatus(s)
    PROVE  /\ InSequence' /\ LastStarted' = LastStarted
           /\ LatestEnded' = {s} /\ Ended' = Ended \union {s}
           /\ \A c : SameSurvey(c, s)' = SameSurvey(c, s)
<1>1. /\ survey' = [survey EXCEPT ![s] = EndedRow(survey[s])]
      /\ stamp' = stamp + 1 /\ s \in SurveyID
  BY DEF UpdateSurveyStatus, LastStarted
<1>2. PICK row : row = EndedRow(survey[s])
  OBVIOUS
<1>3. /\ row.status = "ended" /\ row.updatedAt = stamp
      /\ row.createdAt = survey[s].createdAt
      /\ row.start = survey[s].start /\ row.days = survey[s].days
      /\ row.content = survey[s].content
  BY <1>1, <1>2, RowStamps DEF EndedRow, Survey
<1>4. survey'[s] = row /\ \A t \in SurveyID \ {s} : survey'[t] = survey[t]
  BY <1>1, <1>2 DEF TypeOK
<1>6. s \in SurveyID \ Fresh
  BY DEF LastStarted
<1>5. (SurveyID \ Fresh)' = SurveyID \ Fresh
  BY <1>3, <1>4, <1>6 DEF Fresh
<1>7. ASSUME NEW t \in SurveyID \ Fresh
      PROVE  /\ survey'[t].createdAt = survey[t].createdAt
             /\ survey[t].createdAt \in Nat
             /\ StampsOK(survey'[t], stamp')
  <2>1. StampsOK(survey[t], stamp) /\ survey[t].createdAt \in Nat /\ survey[t].updatedAt \in Nat
    BY RowStamps DEF InSequence
  <2>2. stamp \in Nat
    BY RowStamps
  <2>3. CASE t = s
    BY <1>1, <1>3, <1>4, <2>1, <2>2, <2>3 DEF StampsOK
  <2>4. CASE t # s
    BY <1>1, <1>4, <2>1, <2>2, <2>4 DEF StampsOK
  <2>5. QED
    BY <2>3, <2>4
<1>8. ASSUME NEW t \in SurveyID \ Fresh, NEW v \in SurveyID \ Fresh
      PROVE  /\ Precedes(survey'[t], survey'[v])
             /\ survey'[t].createdAt = survey'[v].createdAt => t = v
  <2>1. /\ Precedes(survey[t], survey[v])
        /\ survey[t].createdAt = survey[v].createdAt => t = v
    BY DEF InSequence
  <2>2. CASE t = s
    <3>1. survey[v].createdAt <= survey[s].createdAt
      BY DEF LastStarted
    <3>2. QED
      BY <1>1, <1>7, <2>1, <2>2, <3>1 DEF Precedes
  <2>3. CASE t # s
    BY <1>4, <1>7, <2>1, <2>3 DEF Precedes
  <2>4. QED
    BY <2>2, <2>3
<1>9. InSequence'
  BY <1>5, <1>7, <1>8 DEF InSequence
<1>10. LastStarted' = LastStarted
  BY <1>5, <1>7 DEF LastStarted
<1>11. Ended' = Ended \union {s}
  BY <1>1, <1>3, <1>4 DEF Ended
<1>12. LatestEnded' = {s}
  <2>1. ASSUME NEW t \in Ended, t # s
        PROVE  /\ survey'[t].updatedAt = survey[t].updatedAt
               /\ survey[t].updatedAt \in Nat /\ survey[t].updatedAt < stamp
    <3>1. t \in SurveyID \ Fresh
      BY DEF Ended, Fresh
    <3>2. QED
      BY <1>4, <2>1, <3>1, RowStamps DEF InSequence, StampsOK
  <2>2. survey'[s].updatedAt = stamp /\ stamp \in Nat
    BY <1>3, <1>4, RowStamps
  <2>3. QED
    BY <1>11, <2>1, <2>2 DEF LatestEnded
<1>13. \A c : SameSurvey(c, s)' = SameSurvey(c, s)
  BY <1>3, <1>4 DEF SameSurvey
<1>14. QED
  BY <1>9, <1>10, <1>11, <1>12, <1>13

\* The row of a survey that starts: all others have ended.
LEMMA StartInSequence ==
    ASSUME TypeOK, InSequence, InProgress = {}, JobInsertSurvey
    PROVE  InSequence'
<1>1. PICK s \in Fresh :
        survey' = [survey EXCEPT ![s] =
                      [status |-> "in_progress", start |-> job.config.time,
                       days |-> job.config.days, content |-> job.config.content,
                       createdAt |-> stamp, updatedAt |-> stamp]]
  BY DEF JobInsertSurvey
<1>2. s \in SurveyID /\ stamp' = stamp + 1 /\ stamp \in Nat
  BY RowStamps DEF JobInsertSurvey, Fresh
<1>3. /\ survey'[s].status = "in_progress"
      /\ survey'[s].createdAt = stamp /\ survey'[s].updatedAt = stamp
      /\ \A t \in SurveyID \ {s} : survey'[t] = survey[t]
  BY <1>1, <1>2 DEF TypeOK
<1>4. (SurveyID \ Fresh)' = (SurveyID \ Fresh) \union {s}
  BY <1>2, <1>3 DEF Fresh
<1>5. ASSUME NEW t \in SurveyID \ Fresh
      PROVE  /\ survey'[t] = survey[t] /\ survey[t].status = "ended"
             /\ StampsOK(survey[t], stamp)
             /\ survey[t].createdAt \in Nat /\ survey[t].updatedAt \in Nat
  <2>1. survey[t].status \in {"absent", "in_progress", "ended"}
    BY RowStamps DEF Survey
  <2>2. QED
    BY <1>1, <1>3, <2>1, RowStamps DEF InSequence, Fresh, InProgress
<1>6. ASSUME NEW t \in (SurveyID \ Fresh) \union {s} PROVE StampsOK(survey'[t], stamp')
  <2>1. CASE t = s
    BY <1>2, <1>3, <2>1 DEF StampsOK
  <2>2. CASE t \in SurveyID \ Fresh
    BY <1>2, <1>5, <2>2 DEF StampsOK
  <2>3. QED
    BY <2>1, <2>2
<1>7. ASSUME NEW t \in (SurveyID \ Fresh) \union {s},
             NEW v \in (SurveyID \ Fresh) \union {s}
      PROVE  /\ Precedes(survey'[t], survey'[v])
             /\ survey'[t].createdAt = survey'[v].createdAt => t = v
  <2>1. CASE t = s /\ v = s
    BY <1>2, <1>3, <2>1 DEF Precedes
  <2>2. CASE t = s /\ v # s
    <3>1. v \in SurveyID \ Fresh
      BY <2>2
    <3>2. QED
      BY <1>2, <1>3, <1>5, <2>2, <3>1 DEF Precedes, StampsOK
  <2>3. CASE t # s /\ v = s
    <3>1. t \in SurveyID \ Fresh
      BY <2>3
    <3>2. QED
      BY <1>2, <1>3, <1>5, <2>3, <3>1 DEF Precedes, StampsOK
  <2>4. CASE t # s /\ v # s
    <3>1. t \in SurveyID \ Fresh /\ v \in SurveyID \ Fresh
      BY <2>4
    <3>2. QED
      BY <1>5, <3>1 DEF InSequence
  <2>5. QED
    BY <2>1, <2>2, <2>3, <2>4
<1>8. QED
  BY <1>4, <1>6, <1>7 DEF InSequence

\* The survey the job compared with is the one started last.
LEMMA LastIsLatest ==
    ASSUME TypeOK, InSequence, InProgress = {}, NEW e \in LatestEnded,
           NEW l \in LastStarted
    PROVE  l = e
<1>1. /\ e \in SurveyID \ Fresh /\ l \in SurveyID \ Fresh /\ l \in Ended
      /\ survey[e].createdAt <= survey[l].createdAt
      /\ survey[l].updatedAt <= survey[e].updatedAt
  <2>1. e \in SurveyID \ Fresh /\ l \in SurveyID \ Fresh
    BY DEF LatestEnded, LastStarted, Ended, Fresh
  <2>2. survey[l].status \in {"absent", "in_progress", "ended"}
    BY <2>1, RowStamps DEF Survey
  <2>3. l \in Ended
    BY <2>1, <2>2 DEF Fresh, InProgress, Ended
  <2>4. QED
    BY <2>1, <2>3 DEF LatestEnded, LastStarted
<1>2. /\ survey[e].createdAt \in Nat /\ survey[l].createdAt \in Nat
      /\ survey[e].updatedAt \in Nat /\ survey[l].updatedAt \in Nat
  BY <1>1, RowStamps
<1>3. /\ Precedes(survey[e], survey[l]) /\ StampsOK(survey[l], stamp)
      /\ survey[e].createdAt = survey[l].createdAt => e = l
  BY <1>1 DEF InSequence
<1>4. QED
  BY <1>1, <1>2, <1>3 DEF Precedes, StampsOK

LEMMA SequenceNext ==
    LifecycleInv /\ SequenceInv /\ [Next]_vars /\ [NoStaleCommit]_vars => SequenceInv'
<1> SUFFICES ASSUME LifecycleInv, SequenceInv, [Next]_vars, [NoStaleCommit]_vars
             PROVE  SequenceInv'
  OBVIOUS
<1>0. TypeOK /\ ViewsHold /\ InSequence
  BY DEF LifecycleInv, SequenceInv
<1>a. ASSUME survey' = survey, stamp' = stamp,
             job'.pc = "stop" => job'.target \in LastStarted,
             job'.pc = "insert" => Differs(job'.config)
      PROVE  SequenceInv'
  <2>1. InProgress' = InProgress /\ Ended' = Ended /\ Fresh' = Fresh
    BY <1>a, TableUnchanged
  <2>2. LatestEnded' = LatestEnded /\ LastStarted' = LastStarted
    BY <1>a, <2>1 DEF LatestEnded, LastStarted
  <2>3. InSequence'
    BY <1>a, <2>1 DEF SequenceInv, InSequence, StampsOK
  <2>4. job'.pc = "insert" => Differs(job.config)'
    BY <1>a, <2>1, <2>2 DEF Differs, SameSurvey
  <2>5. QED
    BY <1>a, <2>2, <2>3, <2>4 DEF SequenceInv
<1>1. ASSUME NEW n \in Node, JobBegin(n) PROVE SequenceInv'
  <2>0. survey' = survey /\ stamp' = stamp
    BY <1>1 DEF JobBegin
  <2>1. CASE job' = [JobIdle(n) EXCEPT !.pc = "read"]
    <3>1. job'.pc = "read"
      BY <2>1 DEF JobIdle
    <3>2. QED
      BY <1>a, <2>0, <3>1
  <2>2. ASSUME NEW s \in SurveyID, InProgress = {s},
               job' = [JobIdle(n) EXCEPT !.pc = "stop", !.target = s]
        PROVE  SequenceInv'
    <3>1. job'.pc = "stop" /\ job'.target = s
      BY <2>2 DEF JobIdle
    <3>2. s \in LastStarted
      BY <1>0, <2>2, InProgressIsLast
    <3>3. QED
      BY <1>a, <2>0, <3>1, <3>2
  <2>3. \/ job' = [JobIdle(n) EXCEPT !.pc = "read"]
        \/ \E s \in SurveyID :
             /\ InProgress = {s}
             /\ job' = [JobIdle(n) EXCEPT !.pc = "stop", !.target = s]
    BY <1>1, Zenon DEF JobBegin
  <2>4. QED
    BY <2>1, <2>2, <2>3
<1>2. CASE JobStopSurvey
  <2>1. UpdateSurveyStatus(job.target) /\ job.target \in LastStarted
    BY <1>2 DEF JobStopSurvey, SequenceInv
  <2>2. InSequence'
    BY <1>0, <2>1, EndInSequence
  <2>3. job'.pc = "read"
    BY <1>0, <1>2 DEF JobStopSurvey, TypeOK, Job
  <2>4. QED
    BY <2>2, <2>3 DEF SequenceInv
<1>3. CASE JobReadConfig
  <2>1. job'.pc \in {"compare", "idle"}
    BY <1>0, <1>3 DEF JobReadConfig, TypeOK, Job, JobIdle
  <2>2. QED
    BY <1>3, <1>a, <2>1 DEF JobReadConfig
<1>4. CASE JobCompare
  <2>1. CASE Ended = {} /\ job' = [job EXCEPT !.pc = "insert"]
    <3>1. job'.pc = "insert" /\ Differs(job'.config)
      BY <1>0, <2>1 DEF TypeOK, Job, Differs
    <3>2. QED
      BY <1>4, <1>a, <3>1 DEF JobCompare
  <2>2. ASSUME NEW e \in LatestEnded,
               job' = IF SameSurvey(job.config, e) THEN JobIdle(job.node)
                      ELSE [job EXCEPT !.pc = "insert"]
        PROVE  SequenceInv'
    <3>1. CASE SameSurvey(job.config, e)
      <4>1. job'.pc = "idle"
        BY <2>2, <3>1 DEF JobIdle
      <4>2. QED
        BY <1>4, <1>a, <4>1 DEF JobCompare
    <3>2. CASE ~SameSurvey(job.config, e)
      <4>1. job'.pc = "insert" /\ job'.config = job.config
        BY <1>0, <2>2, <3>2 DEF TypeOK, Job
      <4>2. Differs(job'.config)
        BY <2>2, <3>2, <4>1 DEF Differs
      <4>3. QED
        BY <1>4, <1>a, <4>1, <4>2 DEF JobCompare
    <3>3. QED
      BY <3>1, <3>2
  <2>3. QED
    BY <1>4, <2>1, <2>2 DEF JobCompare
<1>5. CASE JobInsertSurvey
  <2>1. InProgress = {}
    BY <1>0, <1>5 DEF JobInsertSurvey, ViewsHold
  <2>2. InSequence'
    BY <1>0, <1>5, <2>1, StartInSequence DEF SequenceInv
  <2>3. job'.pc = "store"
    BY <1>0, <1>5 DEF JobInsertSurvey, TypeOK, Job
  <2>4. QED
    BY <2>2, <2>3 DEF SequenceInv
<1>6. CASE JobInsertRefused \/ JobStoreConfig \/ JobCallFails \/ JobNodeCrash
  <2>1. job'.pc = "idle" /\ survey' = survey /\ stamp' = stamp
    BY <1>6 DEF JobInsertRefused, JobStoreConfig, JobCallFails, JobNodeCrash, JobIdle
  <2>2. QED
    BY <1>a, <2>1
<1>7. ASSUME NEW n \in Node, ConfigurationChange(n) PROVE SequenceInv'
  <2>1. /\ job'.pc = job.pc /\ job'.target = job.target /\ job'.config = job.config
        /\ survey' = survey /\ stamp' = stamp
    BY <1>0, <1>7 DEF ConfigurationChange, TypeOK, Job
  <2>2. QED
    BY <1>a, <2>1 DEF SequenceInv
<1>8. ASSUME survey' = survey, stamp' = stamp, job' = job PROVE SequenceInv'
  BY <1>8, <1>a DEF SequenceInv
<1>9. ASSUME NEW r \in Request, StopCommit(r) PROVE SequenceInv'
  <2>1. PICK s : s = stop[r].target
    OBVIOUS
  <2>2. /\ UpdateSurveyStatus(s) /\ job' = job /\ stamp' = stamp + 1
        /\ s \in LastStarted
    <3>1. stamp \in Nat
      BY <1>0, RowStamps
    <3>2. stamp' = stamp + 1 /\ UpdateSurveyStatus(s) /\ job' = job
      BY <1>9, <2>1 DEF StopCommit, UpdateSurveyStatus
    <3>3. vars' # vars
      BY <3>1, <3>2 DEF vars
    <3>4. QED
      BY <1>9, <2>1, <3>2, <3>3 DEF NoStaleCommit
  <2>3. /\ InSequence' /\ LastStarted' = LastStarted
        /\ LatestEnded' = {s} /\ Ended' = Ended \union {s}
        /\ \A c : SameSurvey(c, s)' = SameSurvey(c, s)
    BY <1>0, <2>2, EndInSequence
  <2>4. ASSUME job.pc = "insert" PROVE Differs(job.config)'
    <3>1. InProgress = {} /\ Differs(job.config)
      BY <1>0, <2>4 DEF ViewsHold, SequenceInv
    <3>2. s \in Ended
      <4>1. s \in SurveyID \ Fresh /\ survey[s].status \in {"absent", "in_progress", "ended"}
        BY <1>0, <2>2, RowStamps DEF LastStarted, Survey
      <4>2. QED
        BY <3>1, <4>1 DEF Fresh, InProgress, Ended
    <3>3. PICK e \in LatestEnded : ~SameSurvey(job.config, e)
      BY <3>1, <3>2 DEF Differs
    <3>4. e = s
      BY <1>0, <2>2, <3>1, LastIsLatest
    <3>5. ~SameSurvey(job.config, s)'
      BY <2>2, <2>3, <3>3, <3>4 DEF SameSurvey
    <3>6. s \in LatestEnded'
      BY <2>3
    <3>7. QED
      BY <3>5, <3>6 DEF Differs
  <2>5. (job.pc = "stop" => job.target \in LastStarted)'
    BY <2>2, <2>3 DEF SequenceInv
  <2>6. QED
    BY <2>2, <2>3, <2>4, <2>5 DEF SequenceInv
<1>10. ASSUME NEW r \in Request, StopBegin(r) \/ StopFails(r) PROVE SequenceInv'
  BY <1>8, <1>10 DEF StopBegin, StopFails
<1>11. QED
  BY <1>1, <1>2, <1>3, <1>4, <1>5, <1>6, <1>7, <1>8, <1>9, <1>10
     DEF Next, JobStep, StopStep, AdminSave, Tick, vars

\* As long as no stop request commits late, the job starts no survey twice in a
\* row, whatever failed or died between inserting it and clearing its schedule,
\* and whichever surveys admins stop in time.
THEOREM NoDuplicates == Spec /\ NoStaleStop => NoBackToBackDuplicate
<1>1. LifecycleInv /\ SequenceInv /\ [Next]_vars =>
        [\A s \in SurveyID :
           Starts(s) => \A e \in LastStarted :
                          ~ /\ survey'[s].start = survey[e].start
                            /\ survey'[s].days = survey[e].days
                            /\ survey'[s].content = survey[e].content]_vars
  <2> SUFFICES ASSUME LifecycleInv, SequenceInv, [Next]_vars, NEW s \in SurveyID,
                      Starts(s), NEW l \in LastStarted,
                      survey'[s].start = survey[l].start,
                      survey'[s].days = survey[l].days,
                      survey'[s].content = survey[l].content
               PROVE  FALSE
    OBVIOUS
  <2>1. TypeOK /\ ViewsHold /\ InSequence
    BY DEF LifecycleInv, SequenceInv
  <2>2. CASE JobInsertSurvey
    <3>1. PICK n \in Fresh :
            /\ survey'[n].start = job.config.time
            /\ survey'[n].days = job.config.days
            /\ survey'[n].content = job.config.content
            /\ \A t \in SurveyID \ {n} : survey'[t] = survey[t]
      BY <2>1, <2>2, InsertEffect
    <3>2. s = n
      BY <3>1 DEF Starts
    <3>3. SameSurvey(job.config, l)
      BY <3>1, <3>2 DEF SameSurvey
    <3>4. InProgress = {} /\ Differs(job.config)
      BY <2>1, <2>2 DEF JobInsertSurvey, ViewsHold, SequenceInv
    <3>5. CASE Ended = {}
      <4>1. l \in SurveyID \ Fresh /\ survey[l].status \in {"absent", "in_progress", "ended"}
        BY <2>1, RowStamps DEF LastStarted, Survey
      <4>2. QED
        BY <3>4, <3>5, <4>1 DEF Fresh, InProgress, Ended
    <3>6. CASE \E e \in LatestEnded : ~SameSurvey(job.config, e)
      BY <2>1, <3>3, <3>4, <3>6, LastIsLatest
    <3>7. QED
      BY <3>4, <3>5, <3>6 DEF Differs
  <2>3. CASE JobStopSurvey
    <3>1. job.target \in SurveyID /\ UpdateSurveyStatus(job.target)
      BY <2>1, <2>3 DEF JobStopSurvey, ViewsHold
    <3>2. InProgress' = InProgress \ {job.target}
      BY <2>1, <3>1, UpdateStatusEffect
    <3>3. QED
      BY <3>2 DEF Starts, InProgress
  <2>4. CASE survey' = survey
    BY <2>4 DEF Starts
  <2>7. ASSUME NEW r \in Request, StopCommit(r) PROVE FALSE
    <3>1. stop[r].target \in SurveyID /\ UpdateSurveyStatus(stop[r].target)
      BY <2>1, <2>7 DEF StopCommit, ViewsHold
    <3>2. InProgress' = InProgress \ {stop[r].target}
      BY <2>1, <3>1, UpdateStatusEffect
    <3>3. QED
      BY <3>2 DEF Starts, InProgress
  <2>5. \/ JobInsertSurvey \/ JobStopSurvey \/ survey' = survey
        \/ \E r \in Request : StopCommit(r)
    <3>1. ASSUME NEW n \in Node, JobBegin(n) PROVE survey' = survey
      BY <3>1 DEF JobBegin
    <3>2. CASE JobReadConfig \/ JobCompare
      BY <3>2 DEF JobReadConfig, JobCompare
    <3>3. CASE JobInsertRefused \/ JobStoreConfig \/ JobCallFails \/ JobNodeCrash
      BY <3>3 DEF JobInsertRefused, JobStoreConfig, JobCallFails, JobNodeCrash
    <3>4. QED
      BY <3>1, <3>2, <3>3 DEF Next, JobStep, StopStep, StopBegin, StopFails,
                              AdminSave, ConfigurationChange, Tick, vars
  <2>6. QED
    BY <2>2, <2>3, <2>4, <2>5, <2>7
<1>2. QED
  BY <1>1, SequenceInit, SequenceNext, InvCorrect, PTL
     DEF Spec, NoStaleStop, NoBackToBackDuplicate

\* In particular if admins stop no survey at all.
THEOREM NoDuplicatesUnlessStopped ==
    ASSUME Request = {} PROVE Spec => NoBackToBackDuplicate
<1>1. NoStaleCommit
  BY DEF NoStaleCommit
<1>2. NoStaleStop
  BY <1>1, PTL DEF NoStaleStop
<1>3. QED
  BY <1>2, NoDuplicates

----------------------------------------------------------------------------
(* When schedules are not lost: the job stores the whole configuration it   *)
(* read, so nobody may save one meanwhile and what it read must be saved.   *)

\* The job reads what is saved, and no admin saves until it stored it.
Undisturbed ==
    /\ JobReadConfig => mem[job.node] = saved
    /\ \A c \in Config : AdminSave(c) => job.pc \notin {"compare", "insert", "store"}

NobodySavesMeanwhile == [][Undisturbed]_vars

\* The survey of the configuration c was started.
Launched(c) == \E s \in SurveyID \ Fresh : SameSurvey(c, s)

\* What the job is about to store is the saved configuration, run.
InStep ==
    /\ job.pc \in {"compare", "insert"} => job.config = saved
    /\ job.pc = "store" => Launched(saved)

\* What was started stays in the table.
LEMMA LaunchedKept ==
    ASSUME LifecycleInv, [Next]_vars, UNCHANGED saved, Launched(saved)
    PROVE  Launched(saved)'
<1>1. PICK s \in SurveyID \ Fresh : SameSurvey(saved, s)
  BY DEF Launched
<1>2. ASSUME s \notin Fresh', survey'[s].start = survey[s].start,
             survey'[s].days = survey[s].days, survey'[s].content = survey[s].content
      PROVE  Launched(saved)'
  BY <1>1, <1>2 DEF Launched, SameSurvey
<1>3. ASSUME NEW t \in SurveyID, UpdateSurveyStatus(t) PROVE Launched(saved)'
  BY <1>1, <1>2, <1>3, UpdateStatusEffect DEF LifecycleInv
<1>4. CASE JobInsertSurvey
  BY <1>1, <1>2, <1>4, InsertEffect DEF LifecycleInv
<1>5. CASE survey' = survey
  BY <1>1, <1>2, <1>5 DEF Fresh
<1>6. CASE JobStopSurvey
  BY <1>3, <1>6 DEF JobStopSurvey, LifecycleInv, ViewsHold
<1>7. ASSUME NEW r \in Request, StopCommit(r) PROVE Launched(saved)'
  BY <1>3, <1>7 DEF StopCommit, LifecycleInv, ViewsHold
<1>8. QED
  BY <1>4, <1>5, <1>6, <1>7
     DEF Next, JobStep, JobBegin, JobReadConfig, JobCompare, JobInsertRefused,
         JobStoreConfig, JobCallFails, JobNodeCrash, StopStep, StopBegin, StopFails,
         AdminSave, ConfigurationChange, Tick, vars

LEMMA InStepNext ==
    LifecycleInv /\ InStep /\ [Next]_vars /\ [Undisturbed]_vars => InStep'
<1> SUFFICES ASSUME LifecycleInv, InStep, [Next]_vars, [Undisturbed]_vars
             PROVE  InStep'
  OBVIOUS
<1>0. job \in Job
  BY DEF LifecycleInv, TypeOK
<1>1. ASSUME job'.pc \notin {"compare", "insert", "store"} PROVE InStep'
  BY <1>1 DEF InStep
<1>2. ASSUME UNCHANGED saved, job'.config = job.config,
             \/ job'.pc = job.pc
             \/ job.pc = "compare" /\ job'.pc = "insert"
      PROVE  InStep'
  BY <1>2, LaunchedKept DEF InStep
<1>3. CASE JobReadConfig
  <2>1. mem[job.node] = saved /\ UNCHANGED saved
    <3>1. job.pc = "read" /\ job'.pc \in {"compare", "idle"}
      BY <1>0, <1>3 DEF JobReadConfig, Job, JobIdle
    <3>2. vars' # vars
      BY <3>1 DEF vars
    <3>3. QED
      BY <1>3, <3>2 DEF Undisturbed, JobReadConfig
  <2>2. \/ job' = JobIdle(job.node)
        \/ job' = [job EXCEPT !.pc = "compare", !.config = mem[job.node],
                              !.shared = TRUE]
    BY <1>3 DEF JobReadConfig
  <2>3. CASE job' = JobIdle(job.node)
    BY <1>1, <2>3 DEF JobIdle
  <2>4. CASE job' = [job EXCEPT !.pc = "compare", !.config = mem[job.node],
                                !.shared = TRUE]
    <3>1. job'.pc = "compare" /\ job'.config = mem[job.node]
      BY <1>0, <2>4 DEF Job
    <3>2. QED
      BY <2>1, <3>1 DEF InStep
  <2>5. QED
    BY <2>2, <2>3, <2>4
<1>4. CASE JobCompare
  <2>1. UNCHANGED saved /\ job.pc = "compare"
    BY <1>4 DEF JobCompare
  <2>2. job' = JobIdle(job.node) \/ job' = [job EXCEPT !.pc = "insert"]
    BY <1>4 DEF JobCompare
  <2>3. job'.pc = "idle" \/ (job'.pc = "insert" /\ job'.config = job.config)
    BY <1>0, <2>2 DEF JobIdle, Job
  <2>4. QED
    BY <1>1, <1>2, <2>1, <2>3
<1>5. CASE JobInsertSurvey
  <2>1. job.config = saved /\ UNCHANGED saved /\ job'.pc = "store"
    BY <1>0, <1>5 DEF JobInsertSurvey, InStep, Job
  <2>2. PICK s \in Fresh :
          /\ Fresh' = Fresh \ {s}
          /\ survey'[s].start = job.config.time
          /\ survey'[s].days = job.config.days
          /\ survey'[s].content = job.config.content
    BY <1>5, InsertEffect DEF LifecycleInv
  <2>3. Launched(saved)'
    BY <2>1, <2>2 DEF Launched, SameSurvey, Fresh
  <2>4. QED
    BY <2>1, <2>3 DEF InStep
<1>6. ASSUME NEW c \in Config, AdminSave(c) PROVE InStep'
  <2>1. UNCHANGED job /\ spent'.saves # spent.saves
    BY <1>6 DEF AdminSave, LifecycleInv, TypeOK
  <2>2. vars' # vars
    BY <2>1 DEF vars
  <2>3. QED
    BY <1>1, <1>6, <2>1, <2>2 DEF Undisturbed
<1>7. ASSUME NEW n \in Node, ConfigurationChange(n) PROVE InStep'
  <2>1. job'.pc = job.pc /\ job'.config = job.config /\ UNCHANGED saved
    BY <1>0, <1>7 DEF ConfigurationChange, Job
  <2>2. QED
    BY <1>2, <2>1
<1>8. CASE \/ JobInsertRefused \/ JobStoreConfig \/ JobCallFails \/ JobNodeCrash
  BY <1>1, <1>8 DEF JobInsertRefused, JobStoreConfig, JobCallFails, JobNodeCrash, JobIdle
<1>9. CASE JobStopSurvey \/ \E n \in Node : JobBegin(n)
  <2>1. job'.pc \in {"read", "stop"}
    BY <1>0, <1>9, Zenon DEF JobStopSurvey, JobBegin, JobIdle, Job
  <2>2. QED
    BY <1>1, <2>1
<1>10. CASE UNCHANGED <<saved, job>>
  BY <1>2, <1>10
<1>11. QED
  BY <1>3, <1>4, <1>5, <1>6, <1>7, <1>8, <1>9, <1>10
     DEF Next, JobStep, StopStep, StopBegin, StopCommit, StopFails, Tick, vars

\* As long as the job works from the saved configuration and nobody saves
\* another one before it has stored it, a schedule leaves the configuration
\* only when its survey was started or an admin replaced it.
THEOREM SchedulesKept == Spec /\ NobodySavesMeanwhile => ScheduleNotLost
<1>1. Init => InStep
  BY DEF Init, InStep, JobIdle
<1>2. LifecycleInv /\ InStep /\ [Next]_vars /\ [Undisturbed]_vars =>
        [saved.time # 0 /\ saved'.time = 0 /\ spent'.saves = spent.saves
           => \E s \in SurveyID \ Fresh : SameSurvey(saved, s)]_vars
  <2> SUFFICES ASSUME LifecycleInv, InStep, [Next]_vars,
                      saved.time # 0, saved'.time = 0, spent'.saves = spent.saves
               PROVE  Launched(saved)
    BY DEF Launched
  <2>1. CASE JobStoreConfig
    BY <2>1 DEF JobStoreConfig, InStep
  <2>2. ASSUME NEW c \in Config, AdminSave(c) PROVE FALSE
    BY <2>2 DEF AdminSave, LifecycleInv, TypeOK
  <2>3. QED
    BY <2>1, <2>2
       DEF Next, JobStep, JobBegin, JobStopSurvey, JobReadConfig, JobCompare,
           JobInsertSurvey, JobInsertRefused, JobCallFails, JobNodeCrash, StopStep,
           StopBegin, StopCommit, StopFails, ConfigurationChange, Tick, vars
<1>3. QED
  BY <1>1, <1>2, InStepNext, InvCorrect, PTL
     DEF Spec, NobodySavesMeanwhile, ScheduleNotLost

=============================================================================
