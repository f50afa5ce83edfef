--------------------------- MODULE SurveyLifecycle ---------------------------
(***************************************************************************)
(* How surveys start and end.  Three kinds of actor work on the survey     *)
(* table, the saved plugin configuration and each node's in-memory copy:   *)
(*   - the scheduled job (app/job.go), which cluster.Schedule runs on one  *)
(*     node at a time: it ends an expired survey, then starts the          *)
(*     scheduled one when it is due;                                       *)
(*   - stop requests of admins (api/survey.go), served concurrently;       *)
(*   - admins saving the settings page, whose new configuration reaches    *)
(*     every node through OnConfigurationChange.                           *)
(* Each database or plugin API call is one step; whatever runs between two *)
(* calls is local to the actor.                                            *)
(***************************************************************************)
EXTENDS Naturals, FiniteSets

CONSTANTS
    Node,          \* servers of the cluster
    SurveyID,      \* ids the job may generate; running out of them is a bound
    Request,       \* stop requests that may be in flight together
    Content,       \* questions, message and team filter, together
    NoQuestions,   \* the content in which no question has a text
    NoSurvey,      \* the absence of a survey id
    ExpiryDays,    \* numbers of days an admin may configure
    MaxTime,       \* bound: the clock stops there (one unit is one day)
    MaxSaves,      \* bound: how many times admins save the settings
    MaxFaults      \* bound: failed calls and crashes, together

ASSUME ConstantsAssumption ==
    /\ NoSurvey \notin SurveyID
    /\ NoQuestions \notin Content
    /\ ExpiryDays \subseteq Nat
    /\ MaxTime \in Nat \ {0}
    /\ MaxSaves \in Nat
    /\ MaxFaults \in Nat

VARIABLES
    now,      \* the wall clock, shared by nodes and database
    stamp,    \* orders created_at and updated_at values within one unit of now
    survey,   \* the survey table
    saved,    \* the plugin configuration stored by the Mattermost server
    mem,      \* mem[n]: the configuration object node n points to
    job,      \* the run of the scheduled job, if one is under way
    stop,     \* stop[r]: a stop request being served
    spent     \* how much of the bounds MaxSaves and MaxFaults is used

vars == <<now, stamp, survey, saved, mem, job, stop, spent>>

----------------------------------------------------------------------------
Time == 0..MaxTime

\* model.Config; time = 0 when no survey is scheduled.
Config == [time    : Time,
           days    : ExpiryDays \union {0},
           content : Content \union {NoQuestions}]

ZeroConfig == [time |-> 0, days |-> 0, content |-> NoQuestions]

\* A row of the survey table; status "absent" while the id is unused.
Survey == [status    : {"absent", "in_progress", "ended"},
           start     : Time,
           days      : ExpiryDays \union {0},
           content   : Content \union {NoQuestions},
           createdAt : Nat,
           updatedAt : Nat]

NoRow == [status |-> "absent", start |-> 0, days |-> 0, content |-> NoQuestions,
          createdAt |-> 0, updatedAt |-> 0]

\* pc names the call the job makes next; shared tells whether its config
\* pointer is still the one its node holds.
Job == [pc     : {"idle", "stop", "read", "compare", "insert", "store"},
        node   : Node,
        target : SurveyID \union {NoSurvey},
        config : Config,
        shared : BOOLEAN]

JobIdle(n) == [pc |-> "idle", node |-> n, target |-> NoSurvey,
               config |-> ZeroConfig, shared |-> FALSE]

StopRequest == [pc : {"idle", "stop"}, target : SurveyID \union {NoSurvey}]

StopIdle == [pc |-> "idle", target |-> NoSurvey]

----------------------------------------------------------------------------
InProgress == {s \in SurveyID : survey[s].status = "in_progress"}
Ended == {s \in SurveyID : survey[s].status = "ended"}

\* Mutated form: the insert overwrites the row of an ended survey.
Fresh_Upsert == {s \in SurveyID : survey[s].status # "in_progress"}

Fresh == {s \in SurveyID : survey[s].status = "absent"}

EndTime(s) == survey[s].start + survey[s].days

\* Mutated forms: a day too early, and only after the last moment.
ShouldSurveyStop_DayEarly(s) == survey[s].days # 0 /\ now + 1 >= EndTime(s)
ShouldSurveyStop_Strict(s)   == survey[s].days # 0 /\ now > EndTime(s)

ShouldSurveyStop(s) == survey[s].days # 0 /\ now >= EndTime(s)

\* Mutated form: any schedule is due.
ShouldSurveyStart_AnyTime(c) == c.time # 0

ShouldSurveyStart(c) == c.time # 0 /\ now >= c.time

\* SaveSurvey rejects a survey without duration or without questions.
SurveyIsValid(c) == c.days > 0 /\ c.content # NoQuestions

\* IsEqual, between the survey a configuration would start and a stored one.
SameSurvey(c, s) ==
    /\ c.time = survey[s].start
    /\ c.days = survey[s].days
    /\ c.content = survey[s].content

\* Mutated form: ORDER BY updated_at without DESC.
LatestEnded_Ascending ==
    {s \in Ended : \A t \in Ended : survey[s].updatedAt <= survey[t].updatedAt}

\* The ended surveys that ORDER BY updated_at DESC LIMIT 1 may return.
LatestEnded ==
    {s \in Ended : \A t \in Ended : survey[t].updatedAt <= survey[s].updatedAt}

\* Mutated form: a status nobody knows.
EndedRow_Misnamed(row) == [row EXCEPT !.status = "stopped", !.updatedAt = stamp]

EndedRow(row) == [row EXCEPT !.status = "ended", !.updatedAt = stamp]

\* UpdateSurveyStatus: no condition on the status the row has.
UpdateSurveyStatus(s) ==
    /\ survey' = [survey EXCEPT ![s] = EndedRow(@)]
    /\ stamp' = stamp + 1

Fault == /\ spent.faults < MaxFaults
         /\ spent' = [spent EXCEPT !.faults = @ + 1]

----------------------------------------------------------------------------
\* Mutated form: a new survey is looked for while one is running.
JobBegin_AlwaysLooks(n) ==
    /\ job.pc = "idle"
    /\ job' = [JobIdle(n) EXCEPT !.pc = "read"]
    /\ UNCHANGED <<now, stamp, survey, saved, mem, stop, spent>>

\* The cluster starts the job on some node.  The survey found in progress and
\* not expired, like more than one found in progress, ends the run at once:
\* neither changes any state.
JobBegin(n) ==
    /\ job.pc = "idle"
    /\ \/ /\ InProgress = {}
          /\ job' = [JobIdle(n) EXCEPT !.pc = "read"]
       \/ \E s \in SurveyID :
            /\ InProgress = {s}
            /\ ShouldSurveyStop(s)
            /\ job' = [JobIdle(n) EXCEPT !.pc = "stop", !.target = s]
    /\ UNCHANGED <<now, stamp, survey, saved, mem, stop, spent>>

JobStopSurvey ==
    /\ job.pc = "stop"
    /\ UpdateSurveyStatus(job.target)
    /\ job' = [job EXCEPT !.pc = "read", !.target = NoSurvey]
    /\ UNCHANGED <<now, saved, mem, stop, spent>>

\* getConfig returns the node's pointer, not a copy.
JobReadConfig ==
    /\ job.pc = "read"
    /\ job' = IF ShouldSurveyStart(mem[job.node])
              THEN [job EXCEPT !.pc = "compare", !.config = mem[job.node],
                               !.shared = TRUE]
              ELSE JobIdle(job.node)
    /\ UNCHANGED <<now, stamp, survey, saved, mem, stop, spent>>

JobCompare ==
    /\ job.pc = "compare"
    /\ \/ /\ Ended = {}
          /\ job' = [job EXCEPT !.pc = "insert"]
       \/ \E e \in LatestEnded :
            job' = IF SameSurvey(job.config, e) THEN JobIdle(job.node)
                   ELSE [job EXCEPT !.pc = "insert"]
    /\ UNCHANGED <<now, stamp, survey, saved, mem, stop, spent>>

\* SaveSurvey, then config.SurveyDateTime.Timestamp = 0 on the pointed-to
\* object: the node's own configuration changes too while it is shared.
JobInsertSurvey ==
    /\ job.pc = "insert"
    /\ SurveyIsValid(job.config)
    /\ \E s \in Fresh :
         survey' = [survey EXCEPT ![s] =
                      [status |-> "in_progress", start |-> job.config.time,
                       days |-> job.config.days, content |-> job.config.content,
                       createdAt |-> stamp, updatedAt |-> stamp]]
    /\ stamp' = stamp + 1
    /\ job' = [job EXCEPT !.pc = "store", !.config.time = 0]
    /\ mem' = IF job.shared THEN [mem EXCEPT ![job.node].time = 0] ELSE mem
    /\ UNCHANGED <<now, saved, stop, spent>>

\* The survey is refused as invalid, or no id is left (a bound of the model,
\* seen as a database error).
JobInsertRefused ==
    /\ job.pc = "insert"
    /\ ~SurveyIsValid(job.config) \/ Fresh = {}
    /\ job' = JobIdle(job.node)
    /\ UNCHANGED <<now, stamp, survey, saved, mem, stop, spent>>

\* SavePluginConfig replaces the whole configuration of the plugin.
JobStoreConfig ==
    /\ job.pc = "store"
    /\ saved' = job.config
    /\ job' = JobIdle(job.node)
    /\ UNCHANGED <<now, stamp, survey, mem, stop, spent>>

\* Any of the job's calls returns an error: every one of them ends the run, the
\* failed SavePluginConfig after a log line.
JobCallFails ==
    /\ job.pc \in {"stop", "compare", "insert", "store"}
    /\ Fault
    /\ job' = JobIdle(job.node)
    /\ UNCHANGED <<now, stamp, survey, saved, mem, stop>>

\* The node that runs the job dies and comes back: OnConfigurationChange runs
\* before OnActivate.
JobNodeCrash ==
    /\ job.pc # "idle"
    /\ Fault
    /\ job' = JobIdle(job.node)
    /\ mem' = [mem EXCEPT ![job.node] = saved]
    /\ UNCHANGED <<now, stamp, survey, saved, stop>>

----------------------------------------------------------------------------
\* handleStopSurvey: the requested survey must be the one in progress.
StopBegin(r) ==
    /\ stop[r].pc = "idle"
    /\ \E s \in SurveyID :
         /\ InProgress = {s}
         /\ stop' = [stop EXCEPT ![r] = [pc |-> "stop", target |-> s]]
    /\ UNCHANGED <<now, stamp, survey, saved, mem, job, spent>>

StopCommit(r) ==
    /\ stop[r].pc = "stop"
    /\ UpdateSurveyStatus(stop[r].target)
    /\ stop' = [stop EXCEPT ![r] = StopIdle]
    /\ UNCHANGED <<now, saved, mem, job, spent>>

\* The update fails, or the node serving the request dies.
StopFails(r) ==
    /\ stop[r].pc = "stop"
    /\ Fault
    /\ stop' = [stop EXCEPT ![r] = StopIdle]
    /\ UNCHANGED <<now, stamp, survey, saved, mem, job>>

----------------------------------------------------------------------------
\* An admin saves the settings page.
AdminSave(c) ==
    /\ spent.saves < MaxSaves
    /\ saved' = c
    /\ spent' = [spent EXCEPT !.saves = @ + 1]
    /\ UNCHANGED <<now, stamp, survey, mem, job, stop>>

\* Mutated form: the hook does nothing.
ConfigurationChange_Missing(n) == n \in Node /\ UNCHANGED vars

\* OnConfigurationChange runs on a node, after any change of any setting of
\* the server: a new object replaces the pointer the node holds.
ConfigurationChange(n) ==
    /\ mem' = [mem EXCEPT ![n] = saved]
    /\ job' = IF job.node = n THEN [job EXCEPT !.shared = FALSE] ELSE job
    /\ UNCHANGED <<now, stamp, survey, saved, stop, spent>>

Tick ==
    /\ now < MaxTime
    /\ now' = now + 1
    /\ UNCHANGED <<stamp, survey, saved, mem, job, stop, spent>>

----------------------------------------------------------------------------
Init ==
    /\ now = 1
    /\ stamp = 1
    /\ survey = [s \in SurveyID |-> NoRow]
    /\ saved = ZeroConfig
    /\ mem = [n \in Node |-> ZeroConfig]
    /\ \E n \in Node : job = JobIdle(n)
    /\ stop = [r \in Request |-> StopIdle]
    /\ spent = [saves |-> 0, faults |-> 0]

JobStep == \/ \E n \in Node : JobBegin(n)
           \/ JobStopSurvey
           \/ JobReadConfig
           \/ JobCompare
           \/ JobInsertSurvey
           \/ JobInsertRefused
           \/ JobStoreConfig

StopStep(r) == StopBegin(r) \/ StopCommit(r)

Next == \/ JobStep
        \/ JobCallFails
        \/ JobNodeCrash
        \/ \E r \in Request : StopStep(r) \/ StopFails(r)
        \/ \E c \in Config : AdminSave(c)
        \/ \E n \in Node : ConfigurationChange(n)
        \/ Tick

Spec == Init /\ [][Next]_vars

\* The cluster keeps running the job, a configuration change reaches every
\* node, and a request that began is served; no admin has to do anything.
Fairness == /\ WF_vars(JobStep)
            /\ \A n \in Node : WF_vars(ConfigurationChange(n))
            /\ \A r \in Request : WF_vars(StopCommit(r))
            /\ WF_vars(Tick)

FairSpec == Spec /\ Fairness

----------------------------------------------------------------------------
\* Every variable keeps its type: the rows of the survey table, the saved and
\* in-memory configurations, the job's and the stop requests' local state.
TypeOK ==
    /\ now \in 1..MaxTime
    /\ stamp \in Nat
    /\ survey \in [SurveyID -> Survey]
    /\ saved \in Config
    /\ mem \in [Node -> Config]
    /\ job \in Job
    /\ stop \in [Request -> StopRequest]
    /\ spent \in [saves : 0..MaxSaves, faults : 0..MaxFaults]

\* GetInProgressSurvey refuses to work when it finds two surveys in progress
\* (app/survey.go:45-52), and so would the job, /connected and every response:
\* whatever the job, stop requests and crashes do, there is never a second one.
AtMostOneInProgress ==
    \A s, t \in SurveyID :
        survey[s].status = "in_progress" /\ survey[t].status = "in_progress"
            => s = t

\* What the job and the stop requests decided on stays true until they act,
\* however the others interleave: a survey the job is about to end has expired
\* and is all that may be in progress, nothing is in progress from then to the
\* job's insert, its configuration is still due, and a late stop request names
\* a survey that was started.  AtMostOneInProgress is inductive because of it.
ViewsHold ==
    /\ job.pc = "stop" => /\ job.target \in SurveyID \ Fresh
                          /\ InProgress \subseteq {job.target}
                          /\ now >= EndTime(job.target)
    /\ job.pc \in {"read", "compare", "insert"} => InProgress = {}
    /\ job.pc \in {"compare", "insert"} => ShouldSurveyStart(job.config)
    /\ \A r \in Request :
         stop[r].pc = "stop" => stop[r].target \in SurveyID \ Fresh

\* A survey starts no earlier than it was scheduled, with a duration and with
\* questions, however stale the configuration the job worked from.
StartedWhenDue ==
    \A s \in SurveyID \ Fresh :
        /\ survey[s].start \in 1..now
        /\ survey[s].days > 0
        /\ survey[s].content # NoQuestions

Ends(s) == survey[s].status = "in_progress" /\ survey'[s].status = "ended"

Starts(s) == survey[s].status = "absent" /\ survey'[s].status = "in_progress"

\* A survey is cut short only by a stop request naming it: the job ends it no
\* earlier than its last configured day, even when the job decided to end a
\* survey long before it does.
NoEarlyEnd ==
    [][\A s \in SurveyID :
         Ends(s) => \/ now >= EndTime(s)
                    \/ \E r \in Request : /\ stop[r].pc = "stop"
                                          /\ stop[r].target = s
                                          /\ stop'[r].pc = "idle"]_vars

\* The survey started last, in progress or ended.
LastStarted ==
    {s \in SurveyID \ Fresh :
        \A t \in SurveyID \ Fresh : survey[t].createdAt <= survey[s].createdAt}

\* The job never starts the same survey twice in a row (app/job.go:70-73),
\* also when it crashed, or its SavePluginConfig failed, after inserting it.
NoBackToBackDuplicate ==
    [][\A s \in SurveyID :
         Starts(s) => \A e \in LastStarted :
                        ~ /\ survey'[s].start = survey[e].start
                          /\ survey'[s].days = survey[e].days
                          /\ survey'[s].content = survey[e].content]_vars

\* A schedule disappears from the saved configuration only because an admin
\* saved another one, or because its own survey was started: the job never
\* clears a schedule it did not run.
ScheduleNotLost ==
    [][saved.time # 0 /\ saved'.time = 0 /\ spent'.saves = spent.saves
         => \E s \in SurveyID \ Fresh : SameSurvey(saved, s)]_vars

\* Every survey ends: once its last day has passed it does not stay in
\* progress, although the job may crash and its update may fail.
ExpiredSurveyEnds ==
    \A s \in SurveyID :
        survey[s].status = "in_progress" /\ now >= EndTime(s)
            ~> survey[s].status = "ended"

\* No node works, and no run of the job still goes on, with a schedule that is
\* not the saved one.
NoOlderCopy ==
    /\ \A n \in Node : mem[n].time # 0 => mem[n] = saved
    /\ job.pc \in {"compare", "insert"} => job.config = saved
    /\ job.pc # "store"

\* A schedule that is due is eventually run, unless an admin saves the settings
\* again or an earlier survey runs beyond the end of the model's time: from a
\* moment on at which no older copy is at work, neither a crash nor a failed
\* call makes the job forget it.  (With an older copy at work the job may
\* overwrite it with SavePluginConfig: ScheduleNotLost.)
ScheduleHonoured ==
    \A c \in {d \in Config : d.time # 0 /\ SurveyIsValid(d)}, k \in 1..MaxSaves :
        saved = c /\ now >= c.time /\ NoOlderCopy /\ spent.saves = k
            ~> \/ \E s \in SurveyID \ Fresh : SameSurvey(c, s)
               \/ spent.saves > k
               \/ \E s \in InProgress : EndTime(s) > MaxTime

\* The survey table keeps the promise of SurveyTimeline.
Timeline == INSTANCE SurveyTimeline WITH running <- InProgress, past <- Ended

TimelineSpec == Timeline!TimelineSpec

=============================================================================
