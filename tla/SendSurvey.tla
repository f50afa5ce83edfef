----------------------------- MODULE SendSurvey -----------------------------
(***************************************************************************)
(* How a survey reaches a user.  Every /connected call of a user's client  *)
(* (api/connection.go) runs handleConnected; calls of the same user, from  *)
(* several tabs, devices or nodes, run concurrently.  A per-user lock in   *)
(* the KV store keeps all but one of them out, clearStaleLocks removes the *)
(* locks of handlers that died, and a cache in the KV store remembers the  *)
(* outcome of the team filter.  One step per database, KV or API call.     *)
(* Surveys begin and end as SurveyTimeline promises.                       *)
(***************************************************************************)
EXTENDS Naturals, FiniteSets

CONSTANTS
    User, SurveyID,
    Node,            \* servers of the cluster
    Handler,         \* /connected calls that may be in flight together
    NoUser, NoSurvey,
    TeamFilterType,  \* of each survey
    NoTeams,         \* the surveys that name no team to filter by
    LockExpiration,  \* age from which clearStaleLocks removes a lock
    HandlerTimeout,  \* assumption: a handler holds the lock no longer
    CacheValidity,   \* cacheValidityUserTeamFilter
    MaxTime,         \* bound on the clock
    MaxMoves,        \* bound: how often users join or leave filtered teams
    MaxFaults        \* bound: failed calls and dying handlers, together

FilterTypes == {"everyone", "include_selected", "exclude_selected"}

ASSUME SendAssumption ==
    /\ NoUser \notin User
    /\ NoSurvey \notin SurveyID
    /\ TeamFilterType \in [SurveyID -> FilterTypes]
    /\ NoTeams \subseteq SurveyID
    /\ LockExpiration \in Nat
    /\ HandlerTimeout \in Nat
    /\ HandlerTimeout < LockExpiration
    /\ CacheValidity \in Nat
    /\ MaxTime \in Nat
    /\ MaxMoves \in Nat
    /\ MaxFaults \in Nat

VARIABLES
    now,
    running, past,  \* the survey table, as SurveyTimeline sees it
    lock,           \* lock[u]: the KV entry user_lock_u, as a set of at most one
    sent,           \* sent[u][s]: the KV entry user_survey_status_u_s exists
    posts,          \* posts[u][s]: survey posts in u's direct channel
    orphans,        \* those of them whose id was never stored in the KV store
    receipts,       \* receipts[s]: receipt_count of the survey's row
    cache,          \* cache[u][s]: user_team_filter_cache_u_s, a set of at most one
    member,         \* member[u]: u belongs to a filtered team
    movedAt,        \* when that last changed
    handler,        \* the /connected calls being served
    clearer,        \* clearer[n]: the run of clearStaleLocks on node n
    spent           \* how much of the bounds is used

Timeline == INSTANCE SurveyTimeline

kv == <<lock, sent, cache>>
counts == <<posts, orphans, receipts>>
surveys == <<running, past>>
teams == <<member, movedAt>>
vars == <<now, surveys, kv, counts, teams, handler, clearer, spent>>

----------------------------------------------------------------------------
Time == 0..MaxTime

\* The lock's value is the nanosecond its handler chose it at: different
\* handlers have different values, so it is named by its handler too.
LockValue == [by : Handler, at : Time]

CacheEntry == [inTeam : BOOLEAN, until : Nat]

\* pc names the call the handler makes next; since is when it took the lock.
HandlerState ==
    [pc     : {"idle", "lock", "sent", "cache", "teams", "setcache", "send",
               "mark", "count", "release"},
     user   : User \union {NoUser},
     survey : SurveyID \union {NoSurvey},
     since  : Time,
     inTeam : BOOLEAN]

HandlerIdle == [pc |-> "idle", user |-> NoUser, survey |-> NoSurvey,
                since |-> 0, inTeam |-> FALSE]

\* A run of clearStaleLocks started at utcNow; found is the expired lock it
\* read and is about to delete.
ClearerState == [pc : {"idle", "scan", "delete"}, utcNow : Time,
                 user : User \union {NoUser}, found : SUBSET LockValue]

ClearerIdle == [pc |-> "idle", utcNow |-> 0, user |-> NoUser, found |-> {}]

Scanning(t) == [pc |-> "scan", utcNow |-> t, user |-> NoUser, found |-> {}]

Deleting(t, u, v) == [pc |-> "delete", utcNow |-> t, user |-> u, found |-> {v}]

Called(u, s) == [pc |-> "lock", user |-> u, survey |-> s,
                 since |-> 0, inTeam |-> FALSE]

At(row, pc) == [row EXCEPT !.pc = pc]

Locked(row) == [At(row, "sent") EXCEPT !.since = now]

Informed(row) == [At(row, "setcache") EXCEPT !.inTeam = member[row.user]]

Holding == {"sent", "cache", "teams", "setcache", "send", "mark", "count", "release"}

Holds(h) == handler[h].pc \in Holding

\* Mutated form: the time is not part of the value.
LockOf_NoTime(h, t) == [by |-> h]

LockOf(h, t) == [by |-> h, at |-> t]

MyLock(h) == LockOf(h, handler[h].since)

\* Mutated form: KVSet.
LockFree_Always(u) == TRUE

LockFree(u) == lock[u] = {}

\* Mutated forms: KVDelete, and no call at all.
CompareAndDelete_Unconditional(u, v) == lock' = [lock EXCEPT ![u] = {}]
CompareAndDelete_Forgotten(u, v)     == UNCHANGED lock

\* KVCompareAndDelete of the lock of u: v is the value (a set) expected there.
CompareAndDelete(u, v) == lock' = [lock EXCEPT ![u] = @ \ v]

\* Mutated form: every lock is stale.
Expired_Always(v, t) == v.at <= t

Expired(v, t) == t >= v.at + LockExpiration

\* Mutated form: users who have the survey are not skipped.
AlreadySent_Never(u, s) == FALSE

\* GetSurveyPostIDSentToUser returns a post id.
AlreadySent(u, s) == sent[u][s]

\* Mutated form: the entry is stored without an expiry.
LiveEntry_Forever(u, s) == cache[u][s]

\* What the KV store still returns of the cached verdict.
LiveEntry(u, s) == {e \in cache[u][s] : now <= e.until}

Goto(h, pc) == handler' = [handler EXCEPT ![h] = At(@, pc)]

Fault == /\ spent.faults < MaxFaults
         /\ spent' = [spent EXCEPT !.faults = @ + 1]

\* userPassesSurveyTeamFilter, once membership is known.
PassesFilter(s, inTeam) ==
    CASE TeamFilterType[s] = "everyone"         -> TRUE
      [] TeamFilterType[s] = "include_selected" -> inTeam
      [] TeamFilterType[s] = "exclude_selected" -> ~inTeam

\* The call that follows the filter's verdict.
AfterFilter(s, inTeam) == IF PassesFilter(s, inTeam) THEN "send" ELSE "release"

----------------------------------------------------------------------------
\* Mutated form: the latest surveys, whatever their status.
ConnectBegin_AnyStatus(h, u) ==
    /\ handler[h].pc = "idle"
    /\ \E s \in running \union past :
         handler' = [handler EXCEPT ![h] = Called(u, s)]
    /\ UNCHANGED <<now, surveys, kv, counts, teams, clearer, spent>>

\* GetInProgressSurvey; without a survey in progress the call changes nothing.
ConnectBegin(h, u) ==
    /\ handler[h].pc = "idle"
    /\ \E s \in running :
         handler' = [handler EXCEPT ![h] = Called(u, s)]
    /\ UNCHANGED <<now, surveys, kv, counts, teams, clearer, spent>>

\* AcquireUserSurveyLock: KVCompareAndSet(key, nil, utcNow).
AcquireLock(h) ==
    /\ handler[h].pc = "lock"
    /\ LET u == handler[h].user IN
       IF LockFree(u)
       THEN /\ lock' = [lock EXCEPT ![u] = {LockOf(h, now)}]
            /\ handler' = [handler EXCEPT ![h] = Locked(@)]
       ELSE /\ handler' = [handler EXCEPT ![h] = HandlerIdle]
            /\ UNCHANGED lock
    /\ UNCHANGED <<now, surveys, sent, cache, counts, teams, clearer, spent>>

\* ShouldSendSurvey: the survey object is the one ConnectBegin read, so its
\* status is still in_progress there.  GetSurveyPostIDSentToUser decides.
CheckSent(h) ==
    /\ handler[h].pc = "sent"
    /\ LET u == handler[h].user
           s == handler[h].survey
       IN  Goto(h, IF AlreadySent(u, s) THEN "release"
                   ELSE IF TeamFilterType[s] = "everyone" THEN "send"
                   ELSE IF s \in NoTeams THEN AfterFilter(s, FALSE)
                   ELSE "cache")
    /\ UNCHANGED <<now, surveys, kv, counts, teams, clearer, spent>>

ReadCache(h) ==
    /\ handler[h].pc = "cache"
    /\ LET u == handler[h].user
           s == handler[h].survey
       IN  \/ LiveEntry(u, s) = {} /\ Goto(h, "teams")
           \/ \E e \in LiveEntry(u, s) : Goto(h, AfterFilter(s, e.inTeam))
    /\ UNCHANGED <<now, surveys, kv, counts, teams, clearer, spent>>

GetTeamsForUser(h) ==
    /\ handler[h].pc = "teams"
    /\ handler' = [handler EXCEPT ![h] = Informed(@)]
    /\ UNCHANGED <<now, surveys, kv, counts, teams, clearer, spent>>

\* A failure to store the verdict is ignored.
SetCache(h) ==
    /\ handler[h].pc = "setcache"
    /\ LET u == handler[h].user
           s == handler[h].survey
           entry == [inTeam |-> handler[h].inTeam, until |-> now + CacheValidity]
       IN  /\ \/ cache' = [cache EXCEPT ![u][s] = {entry}] /\ UNCHANGED spent
              \/ Fault /\ UNCHANGED cache
           /\ Goto(h, AfterFilter(s, handler[h].inTeam))
    /\ UNCHANGED <<now, surveys, lock, sent, counts, teams, clearer>>

\* SendSurvey: CreatePost, then KVSet of the post's id, then receipt_count.
CreatePost(h) ==
    /\ handler[h].pc = "send"
    /\ posts' = [posts EXCEPT ![handler[h].user][handler[h].survey] = @ + 1]
    /\ Goto(h, "mark")
    /\ UNCHANGED <<now, surveys, kv, orphans, receipts, teams, clearer, spent>>

\* Mutated form: the receipt is not counted.
SetSurveySentToUser_Uncounted(h) ==
    /\ handler[h].pc = "mark"
    /\ sent' = [sent EXCEPT ![handler[h].user][handler[h].survey] = TRUE]
    /\ Goto(h, "release")
    /\ UNCHANGED <<now, surveys, lock, cache, counts, teams, clearer, spent>>

SetSurveySentToUser(h) ==
    /\ handler[h].pc = "mark"
    /\ sent' = [sent EXCEPT ![handler[h].user][handler[h].survey] = TRUE]
    /\ Goto(h, "count")
    /\ UNCHANGED <<now, surveys, lock, cache, counts, teams, clearer, spent>>

IncrementSurveyReceiptCount(h) ==
    /\ handler[h].pc = "count"
    /\ receipts' = [receipts EXCEPT ![handler[h].survey] = @ + 1]
    /\ Goto(h, "release")
    /\ UNCHANGED <<now, surveys, kv, posts, orphans, teams, clearer, spent>>

\* The deferred ReleaseUserSurveyLock: KVCompareAndDelete of the own value.
ReleaseLock(h) ==
    /\ handler[h].pc = "release"
    /\ CompareAndDelete(handler[h].user, {MyLock(h)})
    /\ handler' = [handler EXCEPT ![h] = HandlerIdle]
    /\ UNCHANGED <<now, surveys, sent, cache, counts, teams, clearer, spent>>

\* A post whose id the handler will not store any more.
Orphan(h) ==
    orphans' = IF handler[h].pc = "mark"
               THEN [orphans EXCEPT ![handler[h].user][handler[h].survey] = @ + 1]
               ELSE orphans

\* A call returns an error: the handler releases the lock and answers 500.
CallFails(h) ==
    /\ handler[h].pc \in Holding \ {"setcache", "release"}
    /\ Fault
    /\ Orphan(h)
    /\ Goto(h, "release")
    /\ UNCHANGED <<now, surveys, kv, posts, receipts, teams, clearer>>

\* The handler dies with its node, or its release fails (the error is
\* ignored): a lock it holds stays in the KV store.
HandlerDies(h) ==
    /\ handler[h].pc # "idle"
    /\ Fault
    /\ Orphan(h)
    /\ handler' = [handler EXCEPT ![h] = HandlerIdle]
    /\ UNCHANGED <<now, surveys, kv, posts, receipts, teams, clearer>>

----------------------------------------------------------------------------
\* clearStaleLocks, run by OnActivate.  Its pages may skip keys (a deletion
\* shifts the later ones), so it looks at any of them and stops at any time.
ClearBegin(n) ==
    /\ clearer[n].pc = "idle"
    /\ clearer' = [clearer EXCEPT ![n] = Scanning(now)]
    /\ UNCHANGED <<now, surveys, kv, counts, teams, handler, spent>>

ClearRead(n, u) ==
    /\ clearer[n].pc = "scan"
    /\ \E v \in lock[u] :
         /\ Expired(v, clearer[n].utcNow)
         /\ clearer' = [clearer EXCEPT ![n] = Deleting(@.utcNow, u, v)]
    /\ UNCHANGED <<now, surveys, kv, counts, teams, handler, spent>>

ClearDelete(n) ==
    /\ clearer[n].pc = "delete"
    /\ CompareAndDelete(clearer[n].user, clearer[n].found)
    /\ clearer' = [clearer EXCEPT ![n] = Scanning(@.utcNow)]
    /\ UNCHANGED <<now, surveys, sent, cache, counts, teams, handler, spent>>

\* The last page is done, or a KV call fails.
ClearEnd(n) ==
    /\ clearer[n].pc # "idle"
    /\ clearer' = [clearer EXCEPT ![n] = ClearerIdle]
    /\ UNCHANGED <<now, surveys, kv, counts, teams, handler, spent>>

----------------------------------------------------------------------------
SurveyStep ==
    /\ Timeline!TimelineNext
    /\ UNCHANGED <<now, kv, counts, teams, handler, clearer, spent>>

ChangeTeams(u) ==
    /\ spent.moves < MaxMoves
    /\ member' = [member EXCEPT ![u] = ~@]
    /\ movedAt' = [movedAt EXCEPT ![u] = now]
    /\ spent' = [spent EXCEPT !.moves = @ + 1]
    /\ UNCHANGED <<now, surveys, kv, counts, handler, clearer>>

\* Time does not pass beyond what HandlerTimeout allows a handler.
Tick ==
    /\ now < MaxTime
    /\ \A h \in Handler : Holds(h) => now < handler[h].since + HandlerTimeout
    /\ now' = now + 1
    /\ UNCHANGED <<surveys, kv, counts, teams, handler, clearer, spent>>

----------------------------------------------------------------------------
Init ==
    /\ now = 0
    /\ Timeline!TimelineInit
    /\ lock = [u \in User |-> {}]
    /\ sent = [u \in User |-> [s \in SurveyID |-> FALSE]]
    /\ posts = [u \in User |-> [s \in SurveyID |-> 0]]
    /\ orphans = [u \in User |-> [s \in SurveyID |-> 0]]
    /\ receipts = [s \in SurveyID |-> 0]
    /\ cache = [u \in User |-> [s \in SurveyID |-> {}]]
    /\ member \in [User -> BOOLEAN]
    /\ movedAt = [u \in User |-> 0]
    /\ handler = [h \in Handler |-> HandlerIdle]
    /\ clearer = [n \in Node |-> ClearerIdle]
    /\ spent = [moves |-> 0, faults |-> 0]

\* What a handler does once it was called.
HandlerStep(h) == \/ AcquireLock(h)
                  \/ CheckSent(h)
                  \/ ReadCache(h)
                  \/ GetTeamsForUser(h)
                  \/ SetCache(h)
                  \/ CreatePost(h)
                  \/ SetSurveySentToUser(h)
                  \/ IncrementSurveyReceiptCount(h)
                  \/ ReleaseLock(h)

Connect(u) == \E h \in Handler : ConnectBegin(h, u)

ClearStep(n) == \/ ClearBegin(n)
                \/ \E u \in User : ClearRead(n, u)
                \/ ClearDelete(n)
                \/ ClearEnd(n)

Next == \/ \E u \in User : Connect(u) \/ ChangeTeams(u)
        \/ \E h \in Handler : HandlerStep(h) \/ CallFails(h) \/ HandlerDies(h)
        \/ \E n \in Node : ClearStep(n)
        \/ SurveyStep
        \/ Tick

Spec == Init /\ [][Next]_vars

\* A handler that runs makes its next call, and a user's clients connect
\* again and again (every page load does).
Fairness == /\ \A h \in Handler : WF_vars(HandlerStep(h))
            /\ \A u \in User : SF_vars(Connect(u))

FairSpec == Spec /\ Fairness

----------------------------------------------------------------------------
\* Every variable keeps its type.
TypeOK ==
    /\ now \in Time
    /\ running \in SUBSET SurveyID
    /\ past \in SUBSET SurveyID
    /\ lock \in [User -> SUBSET LockValue]
    /\ sent \in [User -> [SurveyID -> BOOLEAN]]
    /\ posts \in [User -> [SurveyID -> Nat]]
    /\ orphans \in [User -> [SurveyID -> Nat]]
    /\ receipts \in [SurveyID -> Nat]
    /\ cache \in [User -> [SurveyID -> SUBSET CacheEntry]]
    /\ member \in [User -> BOOLEAN]
    /\ movedAt \in [User -> Time]
    /\ handler \in [Handler -> HandlerState]
    /\ clearer \in [Node -> ClearerState]
    /\ spent \in [moves : 0..MaxMoves, faults : 0..MaxFaults]

\* "acquire lock to prevent two API calls from each sending a duplicate survey
\* to the same user" (api/connection.go:42): no two calls for one user are past
\* the lock together, whatever handlers die and whenever stale locks are cleared.
MutualExclusion ==
    \A h, g \in Handler :
        Holds(h) /\ Holds(g) /\ handler[h].user = handler[g].user => h = g

\* A handler past the lock still owns the KV entry: clearStaleLocks, working
\* from an old utcNow and a value read earlier, only removes a dead handler's.
LockHeld ==
    \A h \in Handler : Holds(h) => lock[handler[h].user] = {MyLock(h)}

Marking(u, s) ==
    {h \in Handler : /\ handler[h].pc = "mark"
                     /\ handler[h].user = u
                     /\ handler[h].survey = s}

\* A user gets at most one survey post whose id is (or is about to be) in the
\* KV store, and any further post is one whose id was lost between CreatePost
\* and KVSet: retries and concurrent calls never add another.
PostsAccounted ==
    \A u \in User, s \in SurveyID :
        posts[u][s] = orphans[u][s] + (IF sent[u][s] THEN 1 ELSE 0)
                        + (IF Marking(u, s) # {} THEN 1 ELSE 0)

\* The surveys posted to u whose id is about to be stored.
Unrecorded(u) == {s \in SurveyID : Marking(u, s) # {}}

\* To the user the calls, locks and caches look like one delivery at a time: a
\* survey is posted only after it began, not while another post to the same
\* user awaits its KVSet, and never again once the KV store has its id.
Posted == INSTANCE Delivery WITH
    begun <- running \union past,
    open  <- [u \in User |-> Unrecorded(u)]

DeliverySpec == Posted!DeliverySpec

\* receipt_count never exceeds the users marked as having received the survey,
\* and lags behind them only by running handlers and by lost increments.
ReceiptsAccounted ==
    \A s \in SurveyID :
        LET marked   == Cardinality({u \in User : sent[u][s]})
            counting == Cardinality({h \in Handler : /\ handler[h].pc = "count"
                                                     /\ handler[h].survey = s})
        IN  /\ receipts[s] + counting <= marked
            /\ marked <= receipts[s] + counting + spent.faults

\* The calls under way that may deliver s.
Calls(s) == {h \in Handler : handler[h].pc # "idle" /\ handler[h].survey = s}

DeliveriesKept(s) ==
    /\ \A u \in User : posts'[u][s] = posts[u][s] /\ sent'[u][s] = sent[u][s]
    /\ receipts'[s] = receipts[s]

\* ShouldSendSurvey means to refuse a survey that is over
\* (app/survey.go:103-104) and looks at an object read before the lock.  So a
\* survey may be delivered after its end, but only by the calls that were
\* under way then: none joins them, and after the last of them nobody is sent
\* or marked with the survey and its receipt_count stands.
DeliveryDrains ==
    [][\A s \in past : /\ Calls(s)' \subseteq Calls(s)
                       /\ Calls(s) = {} => DeliveriesKept(s)]_vars

Posts(u, s) == posts'[u][s] > posts[u][s]

\* The team filter is applied with a membership at most CacheValidity old
\* ("[Validity: 2 hours]", docs/architecture/architecture.md:37), give or take
\* the time of the handler that cached it and of the one that uses it.
FilterHonoured ==
    [][\A u \in User, s \in SurveyID :
         Posts(u, s) => \/ s \in NoTeams /\ PassesFilter(s, FALSE)
                        \/ s \notin NoTeams /\ PassesFilter(s, member[u])
                        \/ /\ s \notin NoTeams
                           /\ now <= movedAt[u] + CacheValidity + 2 * HandlerTimeout]_vars

\* A user the filter lets through receives the survey while it runs, although
\* calls of the same user get in each other's way.
SurveyReachesUser ==
    \A u \in User, s \in SurveyID :
        s \in running /\ PassesFilter(s, member[u] /\ s \notin NoTeams)
            ~> sent[u][s] \/ s \notin running

=============================================================================
