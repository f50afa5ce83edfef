-------------------------- MODULE TeamFilter_proofs --------------------------
(***************************************************************************)
(* Proof that SendSurvey applies the team filter with a membership that is *)
(* at most CacheValidity old, give or take two handlers, for any numbers   *)
(* of users, nodes, concurrent calls and changes of teams.  The argument:  *)
(* what a handler or the cache says of a user is either still true, or the *)
(* user moved after the handler that found it out took the lock; and       *)
(* handlers are short.                                                     *)
(***************************************************************************)
EXTENDS SendSurvey_proofs

----------------------------------------------------------------------------
\* The most a cached verdict outlives the change that makes it wrong.
Outlives == CacheValidity + HandlerTimeout

\* A verdict found out since then: b is the membership now, m its last change.
Informs(inTeam, since, b, m) == inTeam = b \/ since <= m

\* A handler that took the lock then may post.
MayPost(s, since, b, m) ==
    \/ s \in NoTeams /\ PassesFilter(s, FALSE)
    \/ s \notin NoTeams /\ PassesFilter(s, b)
    \/ s \notin NoTeams /\ since <= m + Outlives

\* What a handler has found out about its user.
VerdictOK(q, b, m) ==
    /\ q.pc \in {"cache", "teams", "setcache"} => q.survey \notin NoTeams
    /\ q.pc = "setcache" => Informs(q.inTeam, q.since, b, m)
    /\ q.pc = "send" => MayPost(q.survey, q.since, b, m)

\* What the cache says of a user.
EntryOK(e, t, b, m) ==
    /\ e.until <= t + CacheValidity
    /\ e.inTeam = b \/ e.until <= m + Outlives

VerdictsOK ==
    \A h \in Handler :
        LET u == handler[h].user
        IN  handler[h].pc # "idle" => VerdictOK(handler[h], member[u], movedAt[u])

CacheOK ==
    \A u \in User, s \in SurveyID :
        \A e \in cache[u][s] : EntryOK(e, now, member[u], movedAt[u])

FilterInv == VerdictsOK /\ CacheOK

----------------------------------------------------------------------------
LEMMA Numbers ==
    ASSUME SendInv, NEW h \in Handler
    PROVE  /\ handler[h] \in HandlerState /\ handler[h].since \in Nat
           /\ now \in Nat /\ Outlives \in Nat
           /\ \A u \in User : movedAt[u] \in Nat
           /\ handler[h].pc # "idle" =>
                handler[h].user \in User /\ handler[h].survey \in SurveyID
           /\ handler[h].pc \in Holding =>
                handler[h].since <= now /\ now <= handler[h].since + HandlerTimeout
<1>1. handler[h] \in HandlerState /\ HandlerOK(handler[h], now, sent)
  BY OneHandler
<1>2. handler[h].since \in Nat
  BY <1>1 DEF HandlerState, Time
<1>3. now \in Nat /\ \A u \in User : movedAt[u] \in Nat
  BY DEF SendInv, TypeOK, Time
<1>4. Outlives \in Nat
  BY SendAssumption DEF Outlives
<1> QED  BY <1>1, <1>2, <1>3, <1>4 DEF HandlerOK

LEMMA FilterInit == Init => FilterInv
BY DEF Init, HandlerIdle, FilterInv, VerdictsOK, CacheOK

\* A handler moves on, and what is known of users stays.
LEMMA VerdictsKept ==
    ASSUME SendInv, FilterInv, NEW h \in Handler, NEW r,
           handler' = [handler EXCEPT ![h] = r], UNCHANGED <<member, movedAt>>,
           r.pc # "idle" => VerdictOK(r, member[r.user], movedAt[r.user])
    PROVE  VerdictsOK'
<1>1. handler \in [Handler -> HandlerState]
  BY DEF SendInv, TypeOK
<1>2. handler'[h] = r
  BY <1>1
<1>3. \A g \in Handler \ {h} : handler'[g] = handler[g]
  BY <1>1
<1> SUFFICES ASSUME NEW g \in Handler, handler'[g].pc # "idle"
             PROVE  VerdictOK(handler'[g], member[handler'[g].user],
                              movedAt[handler'[g].user])
  BY DEF VerdictsOK
<1>4. CASE g = h
  BY <1>2, <1>4
<1>5. CASE g # h
  BY <1>3, <1>5 DEF FilterInv, VerdictsOK
<1> QED  BY <1>4, <1>5

LEMMA CacheKept ==
    ASSUME FilterInv, UNCHANGED <<now, cache, member, movedAt>>
    PROVE  CacheOK'
BY DEF FilterInv, CacheOK

\* Nothing has to be known for the calls that do not depend on the filter.
LEMMA Unconcerned ==
    ASSUME NEW r, r.pc \notin {"cache", "teams", "setcache", "send"}, NEW b, NEW m
    PROVE  VerdictOK(r, b, m)
BY DEF VerdictOK

\* The calls that follow a verdict.
LEMMA FilteredCall ==
    ASSUME NEW q \in HandlerState, NEW pc \in {"release", "send"},
           NEW b, NEW m,
           pc = "send" => MayPost(q.survey, q.since, b, m)
    PROVE  VerdictOK(At(q, pc), b, m)
<1>1. Continues(At(q, pc), q, pc)
  BY AtContinues DEF PCs
<1> HIDE DEF At
<1> QED  BY <1>1 DEF Continues, VerdictOK

LEMMA AfterFilterSends ==
    ASSUME NEW s, NEW b
    PROVE  /\ AfterFilter(s, b) \in {"release", "send"}
           /\ AfterFilter(s, b) = "send" <=> PassesFilter(s, b)
BY DEF AfterFilter

----------------------------------------------------------------------------
LEMMA BeginFilter ==
    ASSUME SendInv, FilterInv, NEW h \in Handler, NEW u \in User,
           ConnectBegin(h, u)
    PROVE  FilterInv'
<1>1. PICK s : handler' = [handler EXCEPT ![h] = Called(u, s)]
  BY DEF ConnectBegin
<1>2. UNCHANGED <<now, cache, member, movedAt>>
  BY DEF ConnectBegin, kv, teams
<1>3. Called(u, s).pc = "lock"
  BY DEF Called
<1>4. VerdictsOK'
  BY <1>1, <1>2, <1>3, Unconcerned, VerdictsKept
<1> QED  BY <1>2, <1>4, CacheKept DEF FilterInv

\* The calls before the filter.
LEMMA EarlyFilter ==
    ASSUME SendInv, FilterInv, NEW h \in Handler, AcquireLock(h) \/ CheckSent(h)
    PROVE  FilterInv'
<1> DEFINE q == handler[h]
           b == member[q.user]
           m == movedAt[q.user]
<1>1. q \in HandlerState
  BY Numbers
<1>2. UNCHANGED <<now, cache, member, movedAt>>
  BY DEF AcquireLock, CheckSent, kv, teams
<1>3. CASE AcquireLock(h)
  <2>1. PICK r : /\ handler' = [handler EXCEPT ![h] = r]
                 /\ r = Locked(q) \/ r = HandlerIdle
    BY <1>3 DEF AcquireLock
  <2>2. r.pc \in {"sent", "idle"}
    BY <1>1, <2>1, HandlerRows DEF HandlerRow, HandlerIdle
  <2> QED  BY <1>2, <2>1, <2>2, Unconcerned, VerdictsKept, CacheKept DEF FilterInv
<1>4. CASE CheckSent(h)
  <2>1. PICK pc \in {"release", "send", "cache"} :
          /\ handler' = [handler EXCEPT ![h] = At(q, pc)]
          /\ pc = "cache" => q.survey \notin NoTeams
          /\ pc = "send" =>
               \/ TeamFilterType[q.survey] = "everyone"
               \/ q.survey \in NoTeams /\ PassesFilter(q.survey, FALSE)
    <3>1. CASE AlreadySent(q.user, q.survey)
      BY <1>4, <3>1 DEF CheckSent, Goto
    <3>2. CASE ~AlreadySent(q.user, q.survey) /\ TeamFilterType[q.survey] = "everyone"
      <4>1. handler' = [handler EXCEPT ![h] = At(q, "send")]
        BY <1>4, <3>2 DEF CheckSent, Goto
      <4> QED  BY <4>1, <3>2
    <3>3. CASE /\ ~AlreadySent(q.user, q.survey)
               /\ TeamFilterType[q.survey] # "everyone"
               /\ q.survey \in NoTeams
      <4>1. handler' = [handler EXCEPT ![h] = At(q, AfterFilter(q.survey, FALSE))]
        BY <1>4, <3>3 DEF CheckSent, Goto
      <4> QED  BY <4>1, <3>3, AfterFilterSends
    <3>4. CASE /\ ~AlreadySent(q.user, q.survey)
               /\ TeamFilterType[q.survey] # "everyone"
               /\ q.survey \notin NoTeams
      BY <1>4, <3>4 DEF CheckSent, Goto
    <3> QED  BY <3>1, <3>2, <3>3, <3>4
  <2>2. Continues(At(q, pc), q, pc)
    BY <1>1, AtContinues DEF PCs
  <2>3. \A c : TeamFilterType[q.survey] = "everyone" => PassesFilter(q.survey, c)
    BY DEF PassesFilter
  <2>4. VerdictOK(At(q, pc), b, m)
    <3>1. CASE pc = "cache"
      <4> HIDE DEF At
      <4> QED  BY <2>1, <2>2, <3>1 DEF Continues, VerdictOK
    <3>2. CASE pc # "cache"
      BY <1>1, <2>1, <2>3, <3>2, FilteredCall DEF MayPost
    <3> QED  BY <3>1, <3>2
  <2>5. VerdictsOK'
    <3>1. At(q, pc).user = q.user
      BY <2>2 DEF Continues
    <3> QED  BY <1>2, <2>1, <2>4, <3>1, VerdictsKept
  <2> QED  BY <1>2, <2>5, CacheKept DEF FilterInv
<1> QED  BY <1>3, <1>4

\* The cache is read: a live entry was right when it was stored, or its user
\* moved shortly before that.
LEMMA ReadFilter ==
    ASSUME SendInv, FilterInv, NEW h \in Handler, ReadCache(h)
    PROVE  FilterInv'
<1> DEFINE q == handler[h]
           b == member[q.user]
           m == movedAt[q.user]
<1>1. /\ q \in HandlerState /\ q.pc = "cache" /\ q.user \in User
      /\ q.survey \in SurveyID /\ q.survey \notin NoTeams
  <2>1. q.pc = "cache"
    BY DEF ReadCache
  <2>2. VerdictOK(q, b, m)
    BY <2>1 DEF FilterInv, VerdictsOK
  <2> QED  BY <2>1, <2>2, Numbers DEF VerdictOK
<1>2. UNCHANGED <<now, cache, member, movedAt>>
  BY DEF ReadCache, kv, teams
<1>3. CASE handler' = [handler EXCEPT ![h] = At(q, "teams")]
  <2>1. Continues(At(q, "teams"), q, "teams")
    BY <1>1, AtContinues DEF PCs
  <2> HIDE DEF At
  <2>2. VerdictOK(At(q, "teams"), b, m) /\ At(q, "teams").user = q.user
    BY <1>1, <2>1 DEF Continues, VerdictOK
  <2> QED  BY <1>2, <1>3, <2>2, VerdictsKept, CacheKept DEF FilterInv
<1>4. ASSUME NEW e \in LiveEntry(q.user, q.survey),
             handler' = [handler EXCEPT ![h] = At(q, AfterFilter(q.survey, e.inTeam))]
      PROVE  FilterInv'
  <2>1. e \in cache[q.user][q.survey] /\ now <= e.until
    BY <1>4 DEF LiveEntry
  <2>2. e.inTeam = b \/ e.until <= m + Outlives
    BY <1>1, <2>1 DEF FilterInv, CacheOK, EntryOK
  <2>3. e.until \in Nat
    BY <1>1, <2>1 DEF SendInv, TypeOK, CacheEntry
  <2>4. e.inTeam = b \/ q.since <= m + Outlives
    <3>1. q.since <= now /\ q.since \in Nat /\ now \in Nat /\ m \in Nat
            /\ Outlives \in Nat
      BY <1>1, Numbers DEF Holding
    <3> HIDE DEF q, b, m
    <3> QED  BY <2>1, <2>2, <2>3, <3>1
  <2>5. PassesFilter(q.survey, e.inTeam) => MayPost(q.survey, q.since, b, m)
    BY <1>1, <2>4 DEF MayPost
  <2> DEFINE pc == AfterFilter(q.survey, e.inTeam)
  <2>6. pc \in {"release", "send"} /\ (pc = "send" => PassesFilter(q.survey, e.inTeam))
    BY AfterFilterSends
  <2> HIDE DEF pc
  <2>7. VerdictOK(At(q, pc), b, m)
    BY <1>1, <2>5, <2>6, FilteredCall
  <2>8. At(q, pc).user = q.user
    BY <1>1, <2>6, AtContinues DEF Continues, PCs
  <2>9. handler' = [handler EXCEPT ![h] = At(q, pc)]
    BY <1>4 DEF pc
  <2> QED  BY <1>2, <2>7, <2>8, <2>9, VerdictsKept, CacheKept DEF FilterInv
<1> QED  BY <1>3, <1>4 DEF ReadCache, Goto

LEMMA TeamsFilter ==
    ASSUME SendInv, FilterInv, NEW h \in Handler, GetTeamsForUser(h)
    PROVE  FilterInv'
<1> DEFINE q == handler[h]
           b == member[q.user]
           m == movedAt[q.user]
<1>1. q \in HandlerState /\ q.pc = "teams" /\ q.survey \notin NoTeams
  <2>1. q.pc = "teams"
    BY DEF GetTeamsForUser
  <2>2. VerdictOK(q, b, m)
    BY <2>1 DEF FilterInv, VerdictsOK
  <2> QED  BY <2>1, <2>2, Numbers DEF VerdictOK
<1>2. handler' = [handler EXCEPT ![h] = Informed(q)]
        /\ UNCHANGED <<now, cache, member, movedAt>>
  BY DEF GetTeamsForUser, kv, teams
<1>3. Informed(q) = HandlerRow("setcache", q.user, q.survey, q.since, b)
  BY <1>1, HandlerRows
<1>4. VerdictOK(Informed(q), b, m) /\ Informed(q).user = q.user
  BY <1>1, <1>3 DEF HandlerRow, VerdictOK, Informs
<1> QED  BY <1>2, <1>4, VerdictsKept, CacheKept DEF FilterInv

\* A verdict is stored within HandlerTimeout of the lock.
LEMMA StoreFilter ==
    ASSUME SendInv, FilterInv, NEW h \in Handler, SetCache(h)
    PROVE  FilterInv'
<1> DEFINE q == handler[h]
           b == member[q.user]
           m == movedAt[q.user]
           entry == [inTeam |-> q.inTeam, until |-> now + CacheValidity]
           pc == AfterFilter(q.survey, q.inTeam)
<1>1. /\ q \in HandlerState /\ q.user \in User /\ q.survey \in SurveyID
      /\ q.survey \notin NoTeams /\ Informs(q.inTeam, q.since, b, m)
      /\ q.since \in Nat /\ now \in Nat /\ m \in Nat
      /\ now <= q.since + HandlerTimeout
  <2>1. q.pc = "setcache"
    BY DEF SetCache
  <2>2. VerdictOK(q, b, m)
    BY <2>1 DEF FilterInv, VerdictsOK
  <2>3. q.user \in User /\ q.survey \in SurveyID
    BY <2>1, Numbers
  <2> QED  BY <2>1, <2>2, <2>3, Numbers DEF VerdictOK, Holding
<1>2. /\ cache' = [cache EXCEPT ![q.user][q.survey] = {entry}] \/ UNCHANGED cache
      /\ handler' = [handler EXCEPT ![h] = At(q, pc)]
      /\ UNCHANGED <<now, member, movedAt>>
  BY DEF SetCache, Goto, teams
<1>3. EntryOK(entry, now, b, m)
  <2>1. now + CacheValidity <= now + CacheValidity
    BY <1>1, SendAssumption
  <2>2. q.inTeam = b \/ now + CacheValidity <= m + Outlives
    <3>1. CASE q.since <= m
      <4> HIDE DEF q, m
      <4> QED  BY <1>1, <3>1, SendAssumption DEF Outlives
    <3> QED  BY <1>1, <3>1 DEF Informs
  <2> QED  BY <2>1, <2>2 DEF EntryOK
<1>4. CacheOK'
  <2>1. cache \in [User -> [SurveyID -> SUBSET CacheEntry]]
    BY DEF SendInv, TypeOK
  <2> SUFFICES ASSUME NEW u \in User, NEW s \in SurveyID, NEW e \in cache'[u][s]
               PROVE  EntryOK(e, now, member[u], movedAt[u])
    BY <1>2 DEF CacheOK
  <2>2. CASE e \in cache[u][s]
    BY <2>2 DEF FilterInv, CacheOK
  <2>3. CASE u = q.user /\ e = entry
    BY <2>3, <1>3
  <2> HIDE DEF entry, q
  <2>4. e \in cache[u][s] \/ (u = q.user /\ e = entry)
    BY <1>1, <1>2, <2>1
  <2> QED  BY <2>2, <2>3, <2>4
<1>5. VerdictsOK'
  <2>1. Informs(q.inTeam, q.since, b, m) => q.inTeam = b \/ q.since <= m + Outlives
    <3> HIDE DEF q, b, m
    <3> QED  BY <1>1, SendAssumption DEF Informs, Outlives
  <2>2. PassesFilter(q.survey, q.inTeam) => MayPost(q.survey, q.since, b, m)
    BY <1>1, <2>1 DEF MayPost
  <2>3. pc \in {"release", "send"} /\ (pc = "send" => PassesFilter(q.survey, q.inTeam))
    BY AfterFilterSends
  <2> HIDE DEF pc
  <2>4. VerdictOK(At(q, pc), b, m)
    BY <1>1, <2>2, <2>3, FilteredCall
  <2>5. At(q, pc).user = q.user
    BY <1>1, <2>3, AtContinues DEF Continues, PCs
  <2> QED  BY <1>2, <2>4, <2>5, VerdictsKept
<1> QED  BY <1>4, <1>5 DEF FilterInv

\* The calls after the filter, and calls that fail.
LEMMA LateFilter ==
    ASSUME SendInv, FilterInv, NEW h \in Handler,
           \/ CreatePost(h) \/ SetSurveySentToUser(h)
           \/ IncrementSurveyReceiptCount(h) \/ ReleaseLock(h)
           \/ CallFails(h) \/ HandlerDies(h)
    PROVE  FilterInv'
<1>1. UNCHANGED <<now, cache, member, movedAt>>
  BY DEF CreatePost, SetSurveySentToUser, IncrementSurveyReceiptCount,
         ReleaseLock, CallFails, HandlerDies, kv, teams
<1>2. PICK r : /\ handler' = [handler EXCEPT ![h] = r]
               /\ \/ r = HandlerIdle
                  \/ \E pc \in {"mark", "count", "release"} : r = At(handler[h], pc)
  BY DEF CreatePost, SetSurveySentToUser, IncrementSurveyReceiptCount,
         ReleaseLock, CallFails, HandlerDies, Goto
<1>3. r.pc \in {"idle", "mark", "count", "release"}
  <2>1. handler[h] \in HandlerState
    BY Numbers
  <2>2. \A pc \in {"mark", "count", "release"} : At(handler[h], pc).pc = pc
    BY <2>1, AtContinues DEF Continues, PCs
  <2> QED  BY <1>2, <2>2, IdleRow
<1>4. VerdictsOK'
  BY <1>1, <1>2, <1>3, Unconcerned, VerdictsKept
<1> QED  BY <1>1, <1>4, CacheKept DEF FilterInv

\* Who changes teams after the lock was taken, or after a verdict was stored,
\* has moved late enough.
LEMMA MoveFilter ==
    ASSUME SendInv, FilterInv, NEW u \in User, ChangeTeams(u)
    PROVE  FilterInv'
<1>1. /\ UNCHANGED <<now, cache, handler>>
      /\ movedAt' = [movedAt EXCEPT ![u] = now]
      /\ \A v \in User \ {u} : member'[v] = member[v] /\ movedAt'[v] = movedAt[v]
      /\ movedAt'[u] = now /\ now \in Nat
  BY DEF ChangeTeams, kv, SendInv, TypeOK, Time
<1>2. VerdictsOK'
  <2> SUFFICES ASSUME NEW h \in Handler, handler[h].pc # "idle"
               PROVE  VerdictOK(handler[h], member'[handler[h].user],
                                movedAt'[handler[h].user])
    BY <1>1 DEF VerdictsOK
  <2> DEFINE q == handler[h]
  <2>1. VerdictOK(q, member[q.user], movedAt[q.user]) /\ q.user \in User
    BY Numbers DEF FilterInv, VerdictsOK
  <2>2. CASE q.user # u
    BY <1>1, <2>1, <2>2
  <2>3. CASE q.user = u
    <3>1. q.pc \in Holding => q.since <= now /\ q.since <= now + Outlives
      <4>1. /\ q.since \in Nat /\ Outlives \in Nat
            /\ q.pc \in Holding => q.since <= now
        BY Numbers
      <4> HIDE DEF q
      <4> QED  BY <1>1, <4>1
    <3>2. CASE q.pc = "send"
      BY <1>1, <2>1, <2>3, <3>1, <3>2 DEF VerdictOK, MayPost, Holding
    <3>3. CASE q.pc # "send"
      BY <1>1, <2>1, <2>3, <3>1, <3>3 DEF VerdictOK, Informs, Holding
    <3> QED  BY <3>2, <3>3
  <2> QED  BY <2>2, <2>3
<1>3. CacheOK'
  <2> SUFFICES ASSUME NEW v \in User, NEW s \in SurveyID, NEW e \in cache[v][s]
               PROVE  EntryOK(e, now, member'[v], movedAt'[v])
    BY <1>1 DEF CacheOK
  <2>1. EntryOK(e, now, member[v], movedAt[v])
    BY DEF FilterInv, CacheOK
  <2>2. CASE v # u
    BY <1>1, <2>1, <2>2
  <2>3. CASE v = u
    <3>1. e.until \in Nat
      BY DEF SendInv, TypeOK, CacheEntry
    <3>2. e.until <= now + CacheValidity
      BY <2>1 DEF EntryOK
    <3>3. e.until <= now + Outlives
      BY <1>1, <3>1, <3>2, SendAssumption DEF Outlives
    <3> QED  BY <1>1, <2>3, <3>2, <3>3 DEF EntryOK
  <2> QED  BY <2>2, <2>3
<1> QED  BY <1>2, <1>3 DEF FilterInv

\* The clock, the surveys and the runs of clearStaleLocks.
LEMMA OthersFilter ==
    ASSUME SendInv, FilterInv,
           SurveyStep \/ Tick \/ (\E n \in Node : ClearStep(n)) \/ UNCHANGED vars
    PROVE  FilterInv'
<1>1. UNCHANGED <<cache, member, movedAt, handler>> /\ now' \in {now, now + 1}
  BY DEF SurveyStep, Tick, ClearStep, ClearBegin, ClearRead, ClearDelete, ClearEnd,
         vars, kv, teams
<1>2. VerdictsOK'
  BY <1>1 DEF FilterInv, VerdictsOK
<1>3. CacheOK'
  <2> SUFFICES ASSUME NEW u \in User, NEW s \in SurveyID, NEW e \in cache[u][s]
               PROVE  EntryOK(e, now', member[u], movedAt[u])
    BY <1>1 DEF CacheOK
  <2>1. EntryOK(e, now, member[u], movedAt[u]) /\ e.until \in Nat /\ now \in Nat
    BY DEF FilterInv, CacheOK, SendInv, TypeOK, CacheEntry, Time
  <2>2. e.until <= now' + CacheValidity
    BY <1>1, <2>1, SendAssumption DEF EntryOK
  <2> QED  BY <2>1, <2>2 DEF EntryOK
<1> QED  BY <1>2, <1>3 DEF FilterInv

LEMMA FilterStep ==
    ASSUME SendInv, FilterInv, [Next]_vars
    PROVE  FilterInv'
<1>1. ASSUME NEW u \in User, Connect(u) PROVE FilterInv'
  BY <1>1, BeginFilter DEF Connect
<1>2. ASSUME NEW h \in Handler, HandlerStep(h) PROVE FilterInv'
  BY <1>2, EarlyFilter, ReadFilter, TeamsFilter, StoreFilter, LateFilter
     DEF HandlerStep
<1>3. ASSUME NEW h \in Handler, CallFails(h) \/ HandlerDies(h) PROVE FilterInv'
  BY <1>3, LateFilter
<1>4. ASSUME NEW u \in User, ChangeTeams(u) PROVE FilterInv'
  BY <1>4, MoveFilter
<1>5. CASE SurveyStep \/ Tick \/ (\E n \in Node : ClearStep(n)) \/ UNCHANGED vars
  BY <1>5, OthersFilter
<1> QED  BY <1>1, <1>2, <1>3, <1>4, <1>5 DEF Next

----------------------------------------------------------------------------
\* Whom a step may send a survey.
Allowed(u, s) ==
    \/ s \in NoTeams /\ PassesFilter(s, FALSE)
    \/ s \notin NoTeams /\ PassesFilter(s, member[u])
    \/ /\ s \notin NoTeams
       /\ now <= movedAt[u] + CacheValidity + 2 * HandlerTimeout

LEMMA PostsAllowed ==
    ASSUME SendInv, FilterInv, [Next]_vars, NEW u \in User, NEW s \in SurveyID,
           Posts(u, s)
    PROVE  Allowed(u, s)
<1>1. posts \in [User -> [SurveyID -> Nat]] /\ posts' # posts
  BY DEF SendInv, TypeOK, Posts
<1>2. PICK h \in Handler : CreatePost(h)
  BY <1>1 DEF Next, vars, counts, Connect, ConnectBegin, ChangeTeams, HandlerStep,
              AcquireLock, CheckSent, ReadCache, GetTeamsForUser, SetCache,
              SetSurveySentToUser, IncrementSurveyReceiptCount, ReleaseLock,
              CallFails, HandlerDies, ClearStep, ClearBegin, ClearRead,
              ClearDelete, ClearEnd, SurveyStep, Tick
<1> DEFINE q == handler[h]
<1>3. q.pc = "send" /\ q.user \in User /\ q.survey \in SurveyID
  BY <1>2, Numbers DEF CreatePost
<1>4. u = q.user /\ s = q.survey
  <2>1. posts' = [posts EXCEPT ![q.user][q.survey] = posts[q.user][q.survey] + 1]
    BY <1>2 DEF CreatePost
  <2>2. posts'[u][s] # posts[u][s]
    BY <1>1 DEF Posts
  <2> HIDE DEF q
  <2> QED  BY <1>1, <1>3, <2>1, <2>2
<1>5. MayPost(s, q.since, member[u], movedAt[u])
  BY <1>3, <1>4 DEF FilterInv, VerdictsOK, VerdictOK
<1>6. CASE q.since <= movedAt[u] + Outlives
  <2>1. /\ q.since \in Nat /\ now \in Nat /\ movedAt[u] \in Nat
        /\ now <= q.since + HandlerTimeout
    BY <1>3, Numbers DEF Holding
  <2>2. now <= movedAt[u] + CacheValidity + 2 * HandlerTimeout
    <3> HIDE DEF q
    <3> QED  BY <1>6, <2>1, SendAssumption DEF Outlives
  <2> QED  BY <1>5, <2>2 DEF MayPost, Allowed
<1>7. CASE ~(q.since <= movedAt[u] + Outlives)
  BY <1>5, <1>7 DEF MayPost, Allowed
<1> QED  BY <1>6, <1>7

THEOREM FilterInvCorrect == Spec => []FilterInv
<1>1. SendInv /\ FilterInv /\ [Next]_vars => FilterInv'
  BY FilterStep
<1> QED  BY FilterInit, <1>1, SendInvCorrect, PTL DEF Spec

\* Who has not changed teams for CacheValidity and twice the time of a handler
\* is sent a survey only if its filter lets them through, however many handlers
\* read, store and use verdicts meanwhile.
THEOREM FilterIsHonoured == Spec => FilterHonoured
<1>1. SendInv /\ FilterInv /\ [Next]_vars
        => [\A u \in User, s \in SurveyID :
             Posts(u, s) => \/ s \in NoTeams /\ PassesFilter(s, FALSE)
                            \/ s \notin NoTeams /\ PassesFilter(s, member[u])
                            \/ /\ s \notin NoTeams
                               /\ now <= movedAt[u] + CacheValidity + 2 * HandlerTimeout]_vars
  BY PostsAllowed DEF Allowed
<1> QED  BY <1>1, SendInvCorrect, FilterInvCorrect, PTL DEF Spec, FilterHonoured

=============================================================================
