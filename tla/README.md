# A TLA+ specification of the User Survey plugin

The plugin (`server/` in Go, `webapp/` in TypeScript) sends a survey to the users
of a Mattermost server: a scheduled job starts and ends surveys, every page load
of a user may deliver the running one as a direct message, and users answer in
that message. The interesting part is that nearly every operation is a sequence
of database and plugin API calls without a transaction, run by several nodes,
browser tabs and admins at once, any of which may fail half-way. These modules
model those sequences call by call, TLC checks them on small instances and
TLAPS proves the main safety properties for all sizes.

## The system

| Component | State | Operations | Works on others through |
|---|---|---|---|
| scheduled job (`server/app/job.go`) | survey table (`status`, `start_time`, `duration`, `updated_at`) | end the expired survey, start the scheduled one, clear the schedule | survey table, plugin configuration |
| stop requests (`server/api/survey.go`) | survey table | check the survey in progress, end it | survey table |
| configuration (`server/configuration.go`) | saved configuration, one in-memory object per node | `OnConfigurationChange`, `getConfiguration` | read and *written* by the job |
| delivery (`server/api/connection.go`, `server/app/survey.go`) | KV store: per-user lock, "sent" marker, cached team filter; posts; `receipt_count` | `/connected` | reads the survey table |
| lock clean-up (`server/clear_lock.go`) | the locks in the KV store | `clearStaleLocks` at activation | races with delivery |
| responses (`server/app/survey_response.go`) | response row, `response_count`, group columns, post props, acknowledgement | save a partial or complete response | survey table, posts |
| refresh (`server/app/survey_response.go`) | post props | mark a post as ended | posts, races with responses |
| survey post (`webapp/.../surveyPost.tsx`) | the form | rating click (not awaited), Submit, refresh | requests to responses and refresh |
| report (`server/app/report.go`) | temporary files of one directory per report | page through the responses, merge, add metadata, zip | reads survey table and responses, races with responses and reset |
| statistics (`server/store/survey_stat.go`) | none | list the counters, compute the NPS | reads the counters |
| reset of debug builds (`server/store/debug.go`) | survey table, responses, KV store | delete all three | everything, unsynchronised |
| activation (`server/plugin.go`, `server/store/sqlstore.go`) | what runs on a node | migrate, ensure the bot, start the job, clear locks | starts all the others |
| migrations (`server/store/migrate.go`, `migrations/`, `templateHelperFuncs.go`) | schema, `schema_migrations`, the cluster lock of the engine | apply the versions not recorded yet | the queries of every component |
| routing, authorisation, console | none | | |

What is hard about each, and what makes it correct:

* **Job and stop requests.** Both read the survey in progress and act on it
  later; the job reads a configuration that admins may replace meanwhile; it may
  crash after inserting a survey and before clearing its schedule. Correct when
  there is never a second survey in progress, none starts early or is cut short
  except by a request naming it, none is started twice, no schedule gets lost,
  every expired survey ends and every due one starts.
* **Delivery.** A lock in the KV store stands between a user's tabs; handlers
  die with it; the clean-up removes locks by age, judged by a clock it read
  before. Correct when two calls for a user are never inside together, the lock
  of a running handler is never removed, every post is accounted for, and the
  team filter applied is not older than its cache.
* **Responses.** Four stores, no transaction, requests of the same user
  overlapping because rating clicks are not awaited. Correct when a complete
  response is final, counters agree with the stored responses, what is thanked
  for and confirmed is stored, the post never shows more than is stored, and the
  user is thanked once. The last three hold in full only for a user whose requests
  do not overlap, see "Disagreements found".
* **Report.** Pages through a table that others write to, by an id that is
  random, so rows appear before and behind the cursor. Correct when a report has
  every response there was when it began, each once, with what the user said,
  ends although responses keep coming, and leaves no answers in temporary files. A
  query that breaks off in the middle of a page goes unnoticed.
* **Activation.** All nodes migrate one database at once, a node may die between
  any two statements, MySQL has no transaction around them, and the database may
  be the one of any earlier release. Correct when a node whose job or requests
  run finds every column they name, when a migration cut short can be run
  again, and when no node waits for ever for the lock of another.

## Modules

| Module | Models | Role |
|---|---|---|
| `SurveyTimeline` | what the survey table promises to everyone else: one survey runs at a time, an ended one never runs again | abstract specification |
| `SurveyLifecycle` | job, stop requests, configuration, crashes | implements `SurveyTimeline` (`TimelineSpec`) |
| `Delivery` | what a user sees of the delivery of surveys: one at a time, none again once it was recorded | abstract specification |
| `SendSurvey` | `/connected`, lock, clean-up, cache, counters | uses `SurveyTimeline` as its environment, implements `Delivery` (`DeliverySpec`) |
| `RatingGroups` | the arithmetic of `updateNPSScoreGroupCount` | pure operators and a reference definition |
| `ResponseLedger` | what the table of responses promises to its readers: nothing is lost, a complete response never changes | abstract specification |
| `SubmitResponse` | responses and refreshes of posts | extends `RatingGroups`, uses `SurveyTimeline` as its environment, implements `ResponseLedger` (`LedgerSpec`) |
| `SurveyReport` | reports, with answers and `/resetdata` around them | uses `ResponseLedger` as its environment |
| `Migrations` | the fourteen migrations, the statements their helpers generate, and the columns the queries name | data of `PluginActivation` |
| `SchemaHistory` | what `schema_migrations` and the nodes promise: versions in their order, no work without all of them | abstract specification |
| `PluginActivation` | `OnActivate` on the nodes of a cluster, the migration engine, upgrades | parameterised by the list of migrations, implements `SchemaHistory` (`HistorySpec`) |
| `MC...` | constants of the runs, symmetry | |
| `..._proofs` | theorems about the module named; `TeamFilter_proofs` and `Receipts_proofs` are about `SendSurvey` | |

`SendSurvey` and `SubmitResponse` see the survey table through
`INSTANCE SurveyTimeline` (variables `running`, `past`): all they ask of the table
is what `SurveyLifecycle` is shown to deliver. `SubmitResponse` starts from what
`SendSurvey` establishes, a post and its id per user and survey; a request
without them is refused by `RequireSurveySentToUser` and changes nothing.
`SurveyReport` does not repeat the steps of a request: its `Answer` is any step
`ResponseLedger` allows, which is all that `SubmitResponse` is shown to do to the
table.

### How the models correspond to the code

* One action per database or plugin API call. The code between two calls is
  local to its goroutine and belongs to the action of the call before or after
  it. An actor's `pc` names the call it makes next; what a Go function keeps in
  local variables is in the actor's record (`job.config`, `request[h].old`).
* Every query runs on the master database (`server/plugin.go:108`,
  `getMasterQueryBuilder`), so a read sees the last committed write. An `UPDATE`
  or `INSERT` is atomic; the increments are expressions in SQL
  (`receipt_count + 1`) and cannot be lost to each other.
* `JobBegin` is `GetInProgressSurvey` with the decision on it. `JobStopSurvey`,
  `JobReadConfig`, `JobCompare`, `JobInsertSurvey` and `JobStoreConfig` are the
  calls that follow. `config` is a *pointer* to the object of the node:
  `JobInsertSurvey` resets the timestamp on it, and `job.shared` tells whether
  the node still holds it, for `ConfigurationChange` (`OnConfigurationChange`)
  replaces the pointer. `JobStoreConfig` replaces the whole saved configuration.
* `cluster.Schedule` runs the job on one node at a time, so there is one `job`
  record; the next run may be on any node.
* Questions, message and team filter are one value, `content`: they are only ever
  compared as a whole (`IsEqual`). `NoQuestions` is the content for which
  `IsValid` fails.
* `stamp` stands for the milliseconds of `updated_at`: it orders the updates of
  the table.
* A `/connected` call goes `lock`, `sent`, `cache`, `teams`, `setcache`, `send`,
  `mark`, `count`, `release`. A failing call leads to the deferred release, a
  failing `setCache` is ignored, a dying handler leaves its lock. The lock is a
  set of at most one value; `CompareAndDelete` is KVCompareAndDelete.
* A `clearStaleLocks` run keeps the `utcNow` it started with and the value it
  read. Its paging may skip keys, so it may look at any of them and stop anytime.
* A response goes `recheck`, `read`, then `insert`, `count` or `update`, then
  `getpost`, `putpost`, `groups`, `ack`. `addResponseInPost` writes all props of
  the post it read (`copy`). `UpdateSurveyResponse` has `response_type = partial`
  in its WHERE clause and does not look at the number of rows; the unique
  constraint of migration 000005 makes the second insert fail.
* A report goes `survey`, `page` (repeated), `merge`, `clean`, `stat`, `packet`, `zip`,
  `remove`, `open`. `cursor` is `lastResponseID`, 0 stands for the empty id, and
  `part` the number of the next temporary file. Ids of responses are numbers in
  the order of the ids, never used twice (`wiped`), and drawn by `Answer` in any
  order. A user has one response to a survey, so the id stands for the user as
  well. A page query has three outcomes: it returns the page (`GetPage`), it fails
  (`CallFails`), or it breaks off while its rows are read (`PageBreaksOff`).
  `surveyResponsesFromRows` ends its loop without `rows.Err()`, so the last gives a list
  that is too short and no error, and `SavePage` takes it for the last page as
  `server/app/report.go:99` and `:112` do. `cut` remembers that this happened; no step
  depends on it, `ReportComplete` does. The three metadata, merge and page files are written by one step each,
  together with the query before it where only that step uses its result.
* An activation goes `schema`, `lock`, `pending`, then for each version `begin`,
  `prepare` and `execute` for each statement, `record`, then `close`, `bot`, `job`,
  `locks`, `command` (debug builds) and `active`. A statement of `Migrations` is
  what the helper generates: it does nothing where the object it would add exists
  (`unless`), fails without the object it changes (`needs`), and with `notNull`
  PostgreSQL refuses it on a table that has rows. The look-up and the statement
  are two steps (`Prepare`, `Execute`), for the text generated by the look-up may be
  executed later.
* The migration engine (morph) is a library and external: the model has what
  `migrate.go` configures of it, `WithLock`, the versions in `schema_migrations`, the
  deferred `Close`. With PostgreSQL it runs a migration and its record in one
  transaction (`view` becomes `schema` in `Record`), MySQL commits every statement.
  A lock is refreshed by its holder only; `LockExpires` frees it once the process
  that took it is gone.
* A failed call is one that had no effect; a call that took effect and is
  reported as failed is not modelled.

`Fault`, `AdminSave`, `Tick`, `ChangeTeams`, `HandlerDies`, `JobNodeCrash`, `NodeDies`,
`LockExpires` and `Upgrade` are the environment; they are marked external in the
map.

## Runs

| Run | Instance | Shows |
|---|---|---|
| `lifecycle_safety` | 2 nodes, 3 survey ids, 2 stop requests, 2 saves, 1 fault, 3 days | `TypeOK`, `AtMostOneInProgress`, `ViewsHold`, `StartedWhenDue`, `NoEarlyEnd`, and that the table refines `SurveyTimeline` |
| `lifecycle_liveness` | the same without stop requests | `ExpiredSurveyEnds`, `ScheduleHonoured`, `NoBackToBackDuplicate` |
| `lifecycle_stale_stop` | with stop requests | violation of `NoBackToBackDuplicate` |
| `lifecycle_lost_schedule` | 1 node, 2 saves | violation of `ScheduleNotLost` |
| `send_safety` | 1 user, 2 overlapping calls, an excluding and an including survey, 2 nodes cleaning up, a change of teams, 1 fault, clock to 3 | `TypeOK`, `MutualExclusion`, `LockHeld`, `PostsAccounted`, `ReceiptsAccounted`, `FilterHonoured`, `DeliveryDrains`, and that posts and markers refine `Delivery` |
| `send_liveness` | a survey of each kind of filter, 3 overlapping calls | `SurveyReachesUser` |
| `response_serial` | 2 users, one request each at a time, ratings of the three groups, 3 responses, 1 fault | `TallyAccounted`, `SuccessIsStored`, `PostShowsRow`, `DeltaAsDocumented`, `EndedSettles` |
| `response_concurrent` | 1 user, 2 requests at a time, 3 responses, 1 fault | `TypeOK`, `CompleteIsFinal`, `ThanksBounded`, `SubmittedIsRecorded`, `ResponsesAccounted`, `EndedIsShown`, and that the table refines `ResponseLedger` |
| `report` | 2 surveys, 4 response ids, pages of 2, 1 fault (one kind is a page that breaks off), 1 reset | `TypeOK`, `ReportComplete`, `ReportTruthful`, `OnlyArchiveRemains`, `ReportDelivered` |
| `activation` | 2 nodes, both databases, the fourteen migrations from every earlier release, 5 activations, 3 faults | `TypeOK`, `QueriesFindTheirColumns`, `NoneRefused`, `ActivationEnds`, and that versions and nodes refine `SchemaHistory` |
| `response_tally` | 1 user, 2 requests at a time, no fault | violation of `CountsMatchTally` |
| `response_no_survey` | one request | violation of `NoNilDereference` |

### Bounds, and why they are enough

* `MaxTime` in days for the lifecycle: a survey of one day that starts at 1 and
  one that follows it both end by 3; a third one can still start. Three ids let
  two ended surveys be ordered by `updated_at` while a third starts, which is
  what `LatestEnded` is about. `ExpiryDays = {0, 1}` includes the configuration
  `IsValid` refuses.
* Two saves are the least with which one schedule can overwrite another; two stop
  requests the least for two late commits; two nodes the least for the job to
  move to a node with an older configuration.
* `LockExpiration = 2` and `HandlerTimeout = 1` are the smallest values with
  a handler that takes time and a lock that is not yet stale; with `MaxTime = 3`
  a lock left behind becomes stale and is removed, while a second clean-up
  works from an older value. Locks, markers and cached verdicts are per user and
  calls of different users share only `receipt_count`, so the run has one user and
  the theorems any number. `CacheValidity = 0` keeps the time in which a verdict
  may be used, `CacheValidity + 2 * HandlerTimeout` after a change of teams, below
  `MaxTime`: with a longer validity no run this short could break the bound.
* Three responses are two in flight on top of one stored before; the second user
  shows that the columns are sums. In `response_serial` requests of one user do
  not overlap (`PerUser = 1`): with overlapping ones the columns are simply not
  right, which `response_tally` shows, and `SuccessIsStored` and `PostShowsRow` do not
  hold either (their comments say so). What holds under overlap is checked in
  `response_concurrent` with `PerUser = 2`.
* Four ids in pages of two give an empty last page, a page that is not full, and
  responses stored before and behind the cursor. Reports have directories of their
  own and share only the tables, so one report is enough; the theorems have any
  number.
* Five activations let both nodes run an earlier release, be upgraded and one of
  them start again; three faults let the lock be lost twice and a call fail.
* `spent` counts what the bounds limit; no other state depends on it, and
  `TallyAccounted`, `ResponsesAccounted` and `ReceiptsAccounted` use it to say "up
  to one for each failed call".

Symmetry is used only where no liveness is checked. `CHECK_DEADLOCK FALSE` is set
where everything may come to rest: in `response_tally` the clients stop once they
have sent all they may and every post is closed, in `report` once the reports are
delivered and every id has its complete response, in `activation` once no more
activations are left.

### Fairness

* `WF(JobStep)`: `cluster.Schedule` runs the job every 15 minutes as long as a node
  is up, and a run that began continues; crashes and failed calls are bounded
  by `MaxFaults`.
* `WF(ConfigurationChange(n))`: the server calls the hook on every node after
  every change of any setting.
* `WF(StopCommit(r))`, `WF(HandlerStep(h))`, `WF(Serve(h))`, `WF(ReportStep(g))`,
  `WF(OnActivate(n))`: a goroutine that runs makes its next call. Nothing is assumed
  about calls that begin, nor
  about admins and users saving, stopping or answering.
* `SF(Connect(u))`: the web app calls `/connected` on every load. Strong, because a
  user may load the page at times when all handlers of the model are busy.
* `SF(Refresh(u, s))`: `surveyPost.tsx:51-55` asks for a refresh whenever an open
  post is rendered. Strong for the same reason.

* `WF(LockExpires)`: the lock of the migration engine has a time to live, which
  only its holder extends.

`ReportDelivered` needs no fairness about the answers, but ids: there are finitely
many behind any cursor, as random ids make it in practice. `ScheduleHonoured` excuses a schedule
that waits for a survey running past the end of the model's time, and one that an
admin replaced by a later save (`spent.saves`, which the job's own write does not
change). A schedule that the job erases is not excused. That it does erase one which
was saved while a run of it held an older copy is what `lifecycle_lost_schedule`
shows, so the property speaks of schedules due when nobody holds one
(`NoOlderCopy`).

## Proofs

All theorems hold for every number of nodes, users, surveys, handlers, saves and
faults, under the `ASSUME` of the module (constants are numbers and sets of the
right kind). Some are about what a run refutes in general: they have the premise
that the interleaving which that run shows does not happen, and so say that it is
the only cause.

| Refuted by | Holds as long as | Theorem |
|---|---|---|
| `lifecycle_stale_stop` | no stop request commits after a later survey began (`NoStaleStop`) | `NoDuplicates` |
| `lifecycle_lost_schedule` | the job reads the saved configuration and nobody saves until it stored it (`NobodySavesMeanwhile`) | `SchedulesKept` |
| `response_tally` | no two requests of one user overlap (`OneAtATime`) and no call fails | `ColumnsMatch` |
| `response_no_survey` | no survey ends between the two looks of a request (`NoEndBetweenLooks`) | `PanicNeedsAnEnd` |

* `SurveyLifecycle_proofs`: `TypeCorrect`, `OneSurveyAtATime`, `ActorsViewsHold`,
  `SurveysStartWhenDue`, `SurveysNotCutShort`, `NoDuplicates`,
  `NoDuplicatesUnlessStopped`, `SchedulesKept`, `ImplementsTimeline`. The inductive
  invariant is `LifecycleInv`, the conjunction of the four invariants of the
  run. `AtMostOneInProgress` is not inductive: the job inserts without looking,
  relying on what it saw several calls before. `ViewsHold` says that this is
  still true (nothing but the job starts surveys) and that a stop request, however
  late, names a survey that was started, so ending it can only shrink the set.
  The refinement maps `running` to the rows in progress and `past` to those ended;
  a stop request repeated on an ended survey is a stutter. `NoDuplicates` assumes
  `NoStaleStop`: no stop request commits after the survey it names was followed by
  another one, for such a commit refutes it (see below). Its invariant
  `SequenceInv` orders the rows: each ended before the next was inserted, so the one
  that ended last, which the job compares with, is the one started last, and it stays
  so until the job's insert. Without stop requests the premise holds by itself
  (`NoDuplicatesUnlessStopped`). `SchedulesKept` assumes `NobodySavesMeanwhile`: the
  job starts from the configuration that is saved, and nobody saves until it stored
  it. Its invariant `InStep` says that what it holds is then still what is saved,
  and once it is about to store, that a survey was started with it.
* `SendSurvey_proofs`: `SendTypeCorrect`, `LockStaysHeld`, `CallsExcludeEachOther`,
  `EveryPostIsAccounted`, `ImplementsDelivery`, `EndedDeliveriesDrain`,
  `DuplicatesNeedFaults`, `RecordedIsFinal`. The invariant
  `SendInv` adds to them that a handler has
  held its lock no longer than `HandlerTimeout`, and that a clean-up about to
  delete has read a value whose holder is dead. This is where the assumption
  `HandlerTimeout < LockExpiration` is needed: the code cannot enforce it, it is
  why an hour was chosen. Mutual exclusion follows from `LockHeld`, since two
  handlers would own different values of one KV entry. The refinement maps `open` to
  the posts whose marker a handler is still to write; that it is empty when a handler
  posts is mutual exclusion, and that the survey has begun is `HandlersBegun`.
  A handler that fails or dies there loses the delivery (`Lose`). `EndedDeliveriesDrain`
  needs only that ids of surveys are not used again: a call begins with a survey in
  progress, and past surveys never are. The last two say what users notice:
  `DuplicatesNeedFaults` adds to `PostsAccounted` that every orphan was paid for by a
  failure (`OrphansPaid`), and `RecordedIsFinal` follows from the refinement.
* `TeamFilter_proofs`: `FilterIsHonoured`. The invariant `FilterInv` says of every
  verdict on a user, in a handler or in the cache, that it still agrees with the
  user's teams or the user moved late enough: a handler's after it took its lock
  (it finishes within `HandlerTimeout`), a cached one no earlier than
  `CacheValidity` and a handler before it runs out. The two bounds add up to the
  time `FilterHonoured` grants.
* `Receipts_proofs`: `EveryReceiptIsAccounted`. `ReceiptInv` counts the users marked
  and the handlers between marker and counter; that both sets are finite is part
  of it, so nothing is assumed of `User`. A failing or dying handler leaves the
  second set and adds one to `spent.faults`.
* `SubmitResponse_proofs`: `SubmitTypeCorrect`, `CompleteResponsesAreFinal`,
  `SuccessIsRecorded`, `SubmittedPostsAreRecorded`, `ColumnsMoveAsDocumented`,
  `EveryResponseIsAccounted`, `ImplementsLedger`, `EndedSurveysSettle`,
  `PanicNeedsAnEnd`, `ThanksAreBounded`. `SubmitInv` adds what each request knows: from its write on
  there is a response, a complete one if it submitted one, and a copy of a post
  shows "submitted" only if that response exists. Both last because a complete
  response is never replaced. The refinement needs only that `UpdateResponse`
  looks at the row again: of what a request read before, nothing is still true.
  `EndedSurveysSettle` is about the second look at the survey (`Recheck`): of a request
  begun before the end, only that look keeps it from the row.
  `CountInv` counts like `ReceiptInv`: only an insert adds a row, and the unique
  constraint lets one of two overlapping requests insert. `ThanksAreBounded` counts
  the requests that read the row before it was complete (`Promises`): each may thank
  once, none joins them once it is complete, and at that time there were at most
  `PerUser`. `ThankedOnce`, `SuccessIsRecorded`,
  `PostFollowsRow`, `ColumnsAreAccounted` and `ColumnsMatch` assume `OneAtATime`, that no
  two requests of a user overlap; `WaitingClients` shows that clients which wait for
  each answer (`PerUser = 1`, as in `response_serial`) keep to it. Their invariant
  `SerialInv` says what one request then knows to last (`Knows`): the row it read is still the one it replaces,
  no acknowledgement was sent before it, and a copy of the post has the stored
  rating; between storing a response and the post, and only then, the post is
  behind (`Fits`). So the UPDATE always finds the row partial, and what a request goes
  on with is what is stored (`Agrees`, `StoredInv`): with overlapping requests it need
  not be. `TallyInv` builds on it: what a request read is the row it
  replaces, so storing its response changes the users of a group by exactly what it
  then owes the column (`Owes`); moving the column pays that, a failed call loses it.
* `RatingGroups_proofs`: `ChangeMovesOne`, the arithmetic of one change of rating,
  and `CountsNeverDrift`, assuming ratings from 1 to 10.
* `SurveyReport_proofs`: `ReportTypeCorrect`, `ReportIsComplete`, `ReportIsTruthful`,
  `ArchiveRemainsAlone`.
  What is collected in the parts, or after `merge` in the CSV, has every response
  `stored` at the start up to the cursor (`Covers`, `Paging`) and no id twice
  (`Faithful`), because a page is the first of what lies behind the cursor (`IsPage`);
  a full page leaves the cursor at its last id, and one that is not full has all
  the rest, or was cut off by its query and ends the report: then the cursor is still
  the last line, and all that is missing lies behind it (`PagingCut`). Lines stay true because the ledger never takes a response back
  (`LineTrue`, `EveryStepKeeps`). `TidyInv` names the files left at each step of a report
  none of whose calls failed.
* `PluginActivation_proofs`: `ActivationTypeCorrect`, `SchemaFitsQueries`,
  `MigrationsRunAgain`, `ImplementsHistory`. The invariant `IInv`:
  one node migrates at a time and holds the lock (`LockHeld`); a schema that has
  what a statement looks up has all the statement adds that is queried, and one
  whose version is recorded has it all (`Sound`); so has the view of a running
  migration. `SchemaFitsQueries` is for any list of migrations under
  `MigrationRules`: nothing queried is dropped, everything queried is added by some
  migration, and no two statements look up the same object. `MigrationsRunAgain`
  adds `OrderInv`: the versions before the one being applied are recorded, and
  whatever a statement already done has added is there or was dropped by a
  statement that will not run again (`Held`). It needs `RerunRules`: what a statement
  needs comes from an earlier one and is dropped by itself at most, and what is
  looked up is never dropped. TLC evaluates both rules on the list of this
  repository; the next migration is safe to add if it keeps them.
  `ImplementsHistory` maps `serving` to the nodes past the store of `OnActivate`; with
  `OrderInv` the version a node records is the next one (`RecordsNext`), and the
  invariant `Prefix` makes all of them exactly those of the release.

Only model-checked: all liveness (TLAPS proves no liveness under fairness and no
`ENABLED`). Every safety property of a passing run is a theorem. Induction over
data and `RECURSIVE` operators are out of the prover's reach; no module uses either.

## Disagreements found

With a run:

* `lifecycle_stale_stop`: `UpdateSurveyStatus` ends a survey whatever its status. A
  second click on "stop" that commits after its survey ended and another one
  came and went makes the older survey the latest ended one; the job then
  compares with the wrong survey and starts the other one again
  (`server/app/job.go:70-73`). As long as no stop request commits that late it
  does not (`NoDuplicates`).
* `lifecycle_lost_schedule`: the job stores the configuration it read with the
  timestamp reset; a schedule saved in between is gone. Nothing else loses one,
  but a node whose configuration is older than the saved one (`SchedulesKept`).
* `response_tally`: two ratings clicked in quick succession both replace the same
  old rating, and the group columns stay wrong.
* `response_no_survey`: the survey ends between the two looks at it, and
  `inProgressSurvey.ID` (`server/app/survey_response.go:41`) is read from nil.

The models also contain these, which no run singles out:

* `server/app/job.go:112` writes to the object that `server/configuration.go:35-37`
  calls immutable (`JobInsertSurvey`, `mem'`).
* A survey that ended after the first line of `/connected` is still posted, although
  `ShouldSendSurvey` says it checks (`server/app/survey.go:103-104`); it looks at
  the old object. Each call under way at the end may do so, no later one
  (`DeliveryDrains`).
* A post whose id was not stored is posted again at the next load: these are the
  `orphans` of `PostsAccounted`.
* A response checked before the end of its survey is stored after it, although
  the console says "no new responses can be collected"
  (`surveyRowActionButton.tsx:80`). Again only by requests admitted before
  (`EndedSettles`).
* A report whose page query breaks off while its rows are read is sent incomplete,
  without an error: `surveyResponsesFromRows` (`server/store/survey_response.go:113-140`)
  does not ask for `rows.Err()`, and `server/app/report.go:99` and `:112` take the short
  page for the last one, where `docs/architecture/architecture.md:28` says "once all pages
  are fetched". `ReportComplete` has this one exception (`PageBreaksOff`).
* Two overlapping Submits of a user that both read the partial response are both
  thanked, counted and answered with success, although the UPDATE of the second hits no
  row and its response is dropped. `docs/architecture/architecture.md:22-24` promises
  an error. `ThanksBounded` is what is left with overlapping requests;
  `SuccessIsStored` and `ThankedOnce` hold without them.
* Overlapping requests of a user write the post back in any order, so it may show an
  older rating than the one stored, or stay open although a complete response is
  stored. It never shows "submitted" without one (`SubmittedIsRecorded`).
* Sending a response again after a complete one answers success, where
  `docs/architecture/architecture.md:22-24` promises an error (`ReadResponse`).
* Ratings outside 1..10 are put into a column by the order of the cases but
  belong to no group when compared; the form does not offer them.
* Migrations 000004 and 000006 add a column that may not be null without a
  default, which the comment at the top of 000014 says cannot be done:
  PostgreSQL refuses them if the release before already stored responses
  (`CannotMigrate`, the exception of `NoneRefused` and `ActivationEnds`).
* A report for a survey that is gone reads the fields of nil
  (`server/app/report.go:85-88`, `:204-208`): the `panic` of `GetSurvey` and
  `SurveyMetadata`.
* Nothing deletes the archive of a report or closes the file that is sent
  (`server/api/survey_stat.go:51-58`): `OnlyArchiveRemains` says that it stays. A
  report that fails leaves its parts, with the answers, as well.

And two about the text of a report, which the models abstract:

* `ToReportRow` (`server/model/survey_response.go:70-72`) leaves out an unanswered
  question instead of leaving its cell empty: later answers move under the
  headers of earlier questions.
* `docs/architecture/architecture.md:28` lists "excluded teams" among the metadata
  of a report; `ToMetadata` (`server/model/survey_stat.go:20-33`) has none.

## Not modelled

* The list of statistics and the NPS: one `SELECT` of the counters that `SendSurvey`
  and `SubmitResponse` account for, limited to 500 surveys, and a quotient of them.
* The third step of `/resetdata`, `KVDeleteAll`, under running handlers: a lock may
  vanish while it is held. The command exists in development builds only.
* Queries other than the page of a report that break off while their rows are read.
  `SurveysFromRows` (`server/store/survey.go:46-79`) and `surveyStatsFromRows`
  (`server/store/survey_stat.go:80`) do not ask for `rows.Err()` either, so a query of one
  row that breaks off before it looks as if there were none. For the survey in progress
  that means another one may be started beside it: what is shown of the lifecycle
  holds as long as a failing query says so. For the response of a user
  (`GetSurveyResponse`) the insert that follows is refused by the unique constraint, which
  is the outcome `CallFails` has.
* The rows, headers and JSON of a report: a line is the response it was made of.
* Down migrations and the helpers only they use (`genDrop...`): nothing in the
  plugin runs them.
* Rolling upgrades: `Upgrade` happens while no node is active. Were nodes of two
  releases active together, the older one would lose the column that 000013
  renames; the server installs a plugin on all nodes and restarts it.
* Deactivation does not stop the job of a node before its process ends;
  `OnDeactivate` is that end.
* Routing, authorisation, the bot account, store plumbing, user interface: no
  state of the survey depends on them beyond letting a request through.
* Torn reads of the configuration object while the job writes to it: the model
  changes it in one step.
* Clock skew between nodes: `now` is one clock.

## Plan

Done: `SurveyTimeline`, `SurveyLifecycle`, `Delivery`, `SendSurvey`, `RatingGroups`,
`ResponseLedger`, `SubmitResponse`, `SurveyReport`, `Migrations`, `SchemaHistory`,
`PluginActivation`, their runs, and the theorems above.

Next, in this order:

1. The cells of a report, as a sequence of answers per row, for the alignment of
   rows with the header.
2. `KVDeleteAll` as a further actor of `SendSurvey`.
3. A composition of `SurveyLifecycle` with `SubmitResponse` through the table
   itself instead of `SurveyTimeline`, for properties that need the clock.
