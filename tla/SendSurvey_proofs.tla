------------------------- MODULE SendSurvey_proofs -------------------------
(***************************************************************************)
(* Proofs about SendSurvey, for any numbers of users, nodes and concurrent *)
(* calls: the lock excludes, and every survey post is accounted for.       *)
(***************************************************************************)
EXTENDS SendSurvey, TLAPS

USE SendAssumption

----------------------------------------------------------------------------
PCs == {"idle", "lock", "sent", "cache", "teams", "setcache", "send",
        "mark", "count", "release"}

HandlerRow(pc, u, s, t, b) ==
    [pc |-> pc, user |-> u, survey |-> s, since |-> t, inTeam |-> b]

\* What each of the ways to rewrite a handler's row does to its fields.
LEMMA HandlerRows ==
    ASSUME NEW q \in HandlerState, NEW pc
    PROVE  /\ At(q, pc) = HandlerRow(pc, q.user, q.survey, q.since, q.inTeam)
           /\ Locked(q) = HandlerRow("sent", q.user, q.survey, now, q.inTeam)
           /\ Informed(q) = HandlerRow("setcache", q.user, q.survey, q.since,
                                       member[q.user])
<1>1. q = HandlerRow(q.pc, q.user, q.survey, q.since, q.inTeam)
  BY DEF HandlerState, HandlerRow
<1>2. \A p : At(q, p) = HandlerRow(p, q.user, q.survey, q.since, q.inTeam)
  BY <1>1 DEF HandlerRow, At
<1>3. Locked(q) = HandlerRow("sent", q.user, q.survey, now, q.inTeam)
  BY <1>2 DEF HandlerRow, Locked
<1>4. Informed(q) = HandlerRow("setcache", q.user, q.survey, q.since, member[q.user])
  BY <1>2 DEF HandlerRow, Informed
<1> QED  BY <1>2, <1>3, <1>4

LEMMA CalledRow ==
    ASSUME NEW u, NEW s
    PROVE  Called(u, s) = HandlerRow("lock", u, s, 0, FALSE)
BY DEF Called, HandlerRow

LEMMA HandlerRowType ==
    ASSUME NEW pc \in PCs, NEW u \in User \union {NoUser},
           NEW s \in SurveyID \union {NoSurvey}, NEW t \in Time, NEW b \in BOOLEAN
    PROVE  HandlerRow(pc, u, s, t, b) \in HandlerState
BY DEF PCs, HandlerRow, HandlerState

\* The next row r of a handler is at pc and about the same lock.
Continues(r, q, pc) ==
    /\ r \in HandlerState
    /\ r.pc = pc
    /\ r.user = q.user /\ r.survey = q.survey /\ r.since = q.since

LEMMA AtContinues ==
    ASSUME NEW q \in HandlerState, NEW pc \in PCs
    PROVE  Continues(At(q, pc), q, pc)
<1>1. At(q, pc) = HandlerRow(pc, q.user, q.survey, q.since, q.inTeam)
  BY HandlerRows
<1>2. HandlerRow(pc, q.user, q.survey, q.since, q.inTeam) \in HandlerState
  BY HandlerRowType DEF HandlerState
<1> QED  BY <1>1, <1>2 DEF Continues, HandlerRow

LEMMA IdleRow == HandlerIdle \in HandlerState /\ HandlerIdle.pc = "idle"
BY DEF HandlerIdle, HandlerState, Time

----------------------------------------------------------------------------
\* The inductive invariant.

\* The calls made after GetSurveyPostIDSentToUser found nothing.
Deciding == {"cache", "teams", "setcache", "send", "mark"}

\* What a handler knows at time t of the KV entries snt: its user and survey,
\* that it took the lock recently, and that the survey was not sent before.
HandlerOK(q, t, snt) ==
    /\ q.pc # "idle" => q.user \in User /\ q.survey \in SurveyID
    /\ q.pc \in Holding => q.since <= t /\ t <= q.since + HandlerTimeout
    /\ q.pc \in Deciding => ~snt[q.user][q.survey]

\* What a run of clearStaleLocks is about to delete had expired by utcNow.
ClearerOK(c, t) ==
    /\ c.pc # "idle" => c.utcNow <= t
    /\ c.pc = "delete" => /\ c.user \in User
                          /\ \A v \in c.found : v.at + LockExpiration <= c.utcNow

HandlersOK == \A h \in Handler : HandlerOK(handler[h], now, sent)
ClearersOK == \A n \in Node : ClearerOK(clearer[n], now)

SendInv == TypeOK /\ HandlersOK /\ ClearersOK /\ LockHeld /\ PostsAccounted

\* The locks differ, so one user has one holder.
LEMMA LockExcludes == LockHeld => MutualExclusion
<1> SUFFICES ASSUME LockHeld, NEW h \in Handler, NEW g \in Handler,
                    Holds(h), Holds(g), handler[h].user = handler[g].user
             PROVE  h = g
  BY DEF MutualExclusion
<1>1. {MyLock(h)} = {MyLock(g)}
  BY DEF LockHeld
<1>2. MyLock(h) = MyLock(g)
  BY <1>1
<1> QED  BY <1>2 DEF MyLock, LockOf

\* Only the holder of a user's lock can be between CreatePost and KVSet.
LEMMA OneMarking ==
    ASSUME SendInv, NEW h \in Handler, Holds(h),
           NEW g \in Handler, handler[g].pc \in Holding,
           handler[g].user = handler[h].user
    PROVE  g = h
BY LockExcludes DEF SendInv, MutualExclusion, Holds

\* What posts, orphans and sent say of u and s, m telling whether a handler is
\* between CreatePost and KVSet.
Accounted(u, s, m) ==
    posts[u][s] = orphans[u][s] + (IF sent[u][s] THEN 1 ELSE 0)
                    + (IF m THEN 1 ELSE 0)

LEMMA PostsByMarking ==
    PostsAccounted <=>
        \A u \in User, s \in SurveyID :
            Accounted(u, s, \E h \in Handler : /\ handler[h].pc = "mark"
                                              /\ handler[h].user = u
                                              /\ handler[h].survey = s)
<1>1. \A u, s : Marking(u, s) # {} <=> \E h \in Handler : /\ handler[h].pc = "mark"
                                                          /\ handler[h].user = u
                                                          /\ handler[h].survey = s
  BY DEF Marking
<1> QED  BY <1>1 DEF PostsAccounted, Accounted

\* Steps after which the same handlers are marking.
SameMark(g) ==
    \/ handler'[g] = handler[g]
    \/ handler'[g].pc # "mark" /\ handler[g].pc # "mark"

LEMMA PostsKept ==
    ASSUME SendInv, UNCHANGED <<posts, orphans, sent>>,
           \A h \in Handler : SameMark(h)
    PROVE  PostsAccounted'
<1>1. \A u \in User, s \in SurveyID : Marking(u, s)' = Marking(u, s)
  BY DEF Marking, SameMark
<1> QED  BY <1>1 DEF SendInv, PostsAccounted

LEMMA MarkingKept ==
    ASSUME SendInv, UNCHANGED <<posts, orphans, sent>>,
           NEW h \in Handler, NEW r, handler' = [handler EXCEPT ![h] = r],
           r.pc # "mark", handler[h].pc # "mark"
    PROVE  PostsAccounted'
<1>1. handler \in [Handler -> HandlerState]
  BY DEF SendInv, TypeOK
<1>2. handler'[h] = r
  BY <1>1
<1>3. SameMark(h)
  BY <1>2 DEF SameMark
<1>4. ASSUME NEW g \in Handler, g # h PROVE SameMark(g)
  <2>1. handler'[g] = handler[g]
    BY <1>1, <1>4
  <2> QED  BY <2>1 DEF SameMark
<1>5. \A g \in Handler : SameMark(g)
  BY <1>3, <1>4
<1> QED  BY <1>5, PostsKept

\* The clock and the clearing runs stand still.
LEMMA ClearersKept ==
    ASSUME SendInv, UNCHANGED <<now, clearer>> PROVE ClearersOK'
BY DEF SendInv, ClearersOK

\* A handler's move under the lock.
LEMMA LockKept ==
    ASSUME SendInv, NEW h \in Handler, NEW r, NEW pc,
           Continues(r, handler[h], pc) \/ r.pc = "idle",
           pc \in Holding => handler[h].pc \in Holding,
           handler' = [handler EXCEPT ![h] = r], UNCHANGED lock
    PROVE  LockHeld'
<1>1. handler \in [Handler -> HandlerState]
  BY DEF SendInv, TypeOK
<1> SUFFICES ASSUME NEW g \in Handler, handler'[g].pc \in Holding
             PROVE  lock[handler'[g].user] = {LockOf(g, handler'[g].since)}
  BY DEF LockHeld, MyLock, Holds
<1>2. /\ handler[g].pc \in Holding
      /\ handler'[g].user = handler[g].user
      /\ handler'[g].since = handler[g].since
  BY <1>1 DEF Continues, Holding
<1> QED  BY <1>2 DEF SendInv, LockHeld, MyLock, Holds

LEMMA HandlersKept ==
    ASSUME SendInv, NEW h \in Handler, NEW r,
           handler' = [handler EXCEPT ![h] = r], UNCHANGED <<now, sent>>,
           HandlerOK(r, now, sent)
    PROVE  HandlersOK'
BY DEF SendInv, TypeOK, HandlersOK

LEMMA OneHandler ==
    ASSUME SendInv, NEW h \in Handler
    PROVE  handler[h] \in HandlerState /\ HandlerOK(handler[h], now, sent)
BY DEF SendInv, TypeOK, HandlersOK

LEMMA SpentMore ==
    ASSUME SendInv, UNCHANGED spent \/ Fault
    PROVE  spent' \in [moves : 0..MaxMoves, faults : 0..MaxFaults]
BY DEF Fault, SendInv, TypeOK

LEMMA InitSendInv == Init => SendInv
<1> SUFFICES ASSUME Init PROVE SendInv
  OBVIOUS
<1>1. handler \in [Handler -> HandlerState] /\ \A h \in Handler : handler[h].pc = "idle"
  BY IdleRow DEF Init
<1>2. clearer \in [Node -> ClearerState]
  BY DEF Init, ClearerIdle, ClearerState, Time
<1>3. TypeOK
  BY <1>1, <1>2 DEF Init, TypeOK, Timeline!TimelineInit, Time
<1>4. HandlersOK /\ LockHeld
  BY <1>1 DEF HandlersOK, HandlerOK, LockHeld, Holds, Holding, Deciding
<1>5. ClearersOK
  BY DEF Init, ClearerIdle, ClearersOK, ClearerOK
<1>6. PostsAccounted
  <2>1. \A u, s : Marking(u, s) = {}
    BY <1>1 DEF Marking
  <2> QED  BY <2>1 DEF Init, PostsAccounted
<1> QED  BY <1>3, <1>4, <1>5, <1>6 DEF SendInv

----------------------------------------------------------------------------
LEMMA BeginSteps ==
    ASSUME SendInv, NEW h \in Handler, NEW u \in User, ConnectBegin(h, u)
    PROVE  SendInv'
<1>1. PICK s \in SurveyID : handler' = [handler EXCEPT ![h] = Called(u, s)]
  BY DEF ConnectBegin, SendInv, TypeOK
<1>2. UNCHANGED <<now, surveys, kv, counts, teams, clearer, spent>>
  BY DEF ConnectBegin
<1> DEFINE r == Called(u, s)
<1>3. /\ r \in HandlerState /\ r.pc = "lock"
      /\ r.user = u /\ r.survey = s
  <2>1. r = HandlerRow("lock", u, s, 0, FALSE)
    BY CalledRow
  <2>2. HandlerRow("lock", u, s, 0, FALSE) \in HandlerState
    BY DEF HandlerRow, HandlerState, Time, SendInv, TypeOK
  <2> QED  BY <2>1, <2>2 DEF HandlerRow
<1>4. handler[h].pc = "idle"
  BY DEF ConnectBegin
<1> HIDE DEF r
<1>5. handler' = [handler EXCEPT ![h] = r]
  BY <1>1 DEF r
<1>6. TypeOK'
  BY <1>2, <1>3, <1>5 DEF SendInv, TypeOK, surveys, kv, counts, teams
<1>7. HandlersOK'
  <2>1. HandlerOK(r, now, sent)
    BY <1>3 DEF HandlerOK, Holding, Deciding
  <2> QED  BY <1>2, <1>5, <2>1, HandlersKept DEF kv
<1>8. ClearersOK'
  BY <1>2, ClearersKept
<1>9. LockHeld'
  <2> SUFFICES ASSUME NEW g \in Handler, handler'[g].pc \in Holding
               PROVE  lock[handler'[g].user] = {LockOf(g, handler'[g].since)}
    BY <1>2 DEF LockHeld, MyLock, Holds, kv
  <2>1. g # h
    BY <1>3, <1>5 DEF SendInv, TypeOK, Holding
  <2> QED  BY <2>1, <1>5 DEF SendInv, LockHeld, MyLock, Holds
<1>10. PostsAccounted'
  BY <1>2, <1>3, <1>4, <1>5, MarkingKept DEF counts, kv
<1> QED  BY <1>6, <1>7, <1>8, <1>9, <1>10 DEF SendInv

\* The lock is taken only while nobody holds it.
LEMMA AcquireStep ==
    ASSUME SendInv, NEW h \in Handler, AcquireLock(h) PROVE SendInv'
<1> DEFINE q == handler[h]
<1>1. /\ q \in HandlerState /\ HandlerOK(q, now, sent) /\ q.pc = "lock"
      /\ UNCHANGED <<now, surveys, sent, cache, counts, teams, clearer, spent>>
  BY OneHandler DEF AcquireLock
<1>2. q.user \in User
  BY <1>1 DEF HandlerOK
<1>3. PICK r \in HandlerState :
        /\ handler' = [handler EXCEPT ![h] = r]
        /\ HandlerOK(r, now, sent)
        /\ r.pc # "mark"
        /\ \/ r.pc = "idle" /\ UNCHANGED lock
           \/ /\ r.user = q.user /\ r.since = now /\ lock[q.user] = {}
              /\ lock' = [lock EXCEPT ![q.user] = {LockOf(h, now)}]
  <2>1. CASE LockFree(q.user)
    <3>1. Locked(q) = HandlerRow("sent", q.user, q.survey, now, q.inTeam)
      BY <1>1, HandlerRows
    <3>2. HandlerRow("sent", q.user, q.survey, now, q.inTeam) \in HandlerState
      BY <1>1, HandlerRowType DEF SendInv, TypeOK, PCs, HandlerState
    <3>3. /\ Locked(q) \in HandlerState /\ Locked(q).pc = "sent"
          /\ Locked(q).user = q.user /\ Locked(q).survey = q.survey
          /\ Locked(q).since = now
      BY <3>1, <3>2 DEF HandlerRow
    <3>4. HandlerOK(Locked(q), now, sent)
      BY <1>1, <3>3 DEF HandlerOK, Holding, Deciding, SendInv, TypeOK, Time
    <3>5. /\ handler' = [handler EXCEPT ![h] = Locked(q)]
          /\ lock' = [lock EXCEPT ![q.user] = {LockOf(h, now)}]
          /\ lock[q.user] = {}
      BY <2>1 DEF AcquireLock, LockFree
    <3> QED  BY <3>3, <3>4, <3>5
  <2>2. CASE ~LockFree(q.user)
    <3>1. handler' = [handler EXCEPT ![h] = HandlerIdle] /\ UNCHANGED lock
      BY <2>2 DEF AcquireLock
    <3>2. HandlerOK(HandlerIdle, now, sent)
      BY IdleRow DEF HandlerOK, Holding, Deciding
    <3> QED  BY <3>1, <3>2, IdleRow
  <2> QED  BY <2>1, <2>2
<1> HIDE DEF q
<1>4. TypeOK'
  <2>1. LockOf(h, now) \in LockValue
    BY DEF LockOf, LockValue, SendInv, TypeOK
  <2>2. lock \in [User -> SUBSET LockValue]
    BY DEF SendInv, TypeOK
  <2>3. {LockOf(h, now)} \in SUBSET LockValue
    BY <2>1
  <2>4. lock' \in [User -> SUBSET LockValue]
    BY <1>2, <1>3, <2>2, <2>3
  <2> QED  BY <1>1, <1>3, <2>4 DEF SendInv, TypeOK, surveys, counts, teams
<1>5. HandlersOK'
  BY <1>1, <1>3, HandlersKept
<1>6. ClearersOK'
  BY <1>1, ClearersKept
<1>7. LockHeld'
  <2>0. handler \in [Handler -> HandlerState] /\ lock \in [User -> SUBSET LockValue]
    BY DEF SendInv, TypeOK
  <2> SUFFICES ASSUME NEW g \in Handler, handler'[g].pc \in Holding
               PROVE  lock'[handler'[g].user] = {LockOf(g, handler'[g].since)}
    BY DEF LockHeld, MyLock, Holds
  <2>1. CASE g = h
    BY <2>0, <2>1, <1>2, <1>3 DEF Holding
  <2>2. CASE g # h
    <3>1. /\ handler'[g] = handler[g]
          /\ handler[g].user \in User
          /\ lock[handler[g].user] = {LockOf(g, handler[g].since)}
      BY <2>0, <2>2, <1>3, OneHandler
         DEF SendInv, LockHeld, MyLock, Holds, HandlerOK, Holding
    <3>2. lock'[handler[g].user] = lock[handler[g].user]
      BY <2>0, <3>1, <1>2, <1>3
    <3> QED  BY <3>1, <3>2
  <2> QED  BY <2>1, <2>2
<1>8. PostsAccounted'
  <2>1. handler[h].pc # "mark"
    BY <1>1 DEF q
  <2> QED  BY <2>1, <1>1, <1>3, MarkingKept DEF counts
<1> QED  BY <1>4, <1>5, <1>6, <1>7, <1>8 DEF SendInv

\* Steps under the lock that only find out whether to send.
LEMMA DecidingSteps ==
    ASSUME SendInv, NEW h \in Handler,
           CheckSent(h) \/ ReadCache(h) \/ GetTeamsForUser(h) \/ SetCache(h)
    PROVE  SendInv'
<1> DEFINE q == handler[h]
<1>1. /\ q \in HandlerState /\ HandlerOK(q, now, sent)
      /\ q.pc \in {"sent", "cache", "teams", "setcache"}
      /\ UNCHANGED <<now, surveys, lock, sent, counts, teams, clearer>>
  BY OneHandler DEF CheckSent, ReadCache, GetTeamsForUser, SetCache, kv
<1>2. PICK r \in HandlerState, pc \in {"release", "send", "cache", "teams", "setcache"} :
        /\ handler' = [handler EXCEPT ![h] = r]
        /\ Continues(r, q, pc)
        /\ q.pc = "sent" /\ pc # "release" => ~sent[q.user][q.survey]
  <2>1. CASE CheckSent(h)
    <3> DEFINE pc == IF AlreadySent(q.user, q.survey) THEN "release"
                     ELSE IF TeamFilterType[q.survey] = "everyone" THEN "send"
                     ELSE IF q.survey \in NoTeams THEN AfterFilter(q.survey, FALSE)
                     ELSE "cache"
    <3>1. handler' = [handler EXCEPT ![h] = At(q, pc)]
      BY <2>1 DEF CheckSent, Goto
    <3>2. pc \in {"release", "send", "cache"}
      BY DEF AfterFilter
    <3>3. pc # "release" => ~sent[q.user][q.survey]
      BY DEF AlreadySent
    <3> HIDE DEF pc, q
    <3>4. Continues(At(q, pc), q, pc)
      BY <1>1, <3>2, AtContinues DEF PCs
    <3> QED  BY <3>1, <3>2, <3>3, <3>4 DEF Continues
  <2>2. CASE ReadCache(h)
    <3>1. PICK pc \in {"release", "send", "teams"} :
            handler' = [handler EXCEPT ![h] = At(q, pc)]
      BY <2>2 DEF ReadCache, Goto, AfterFilter
    <3>2. q.pc = "cache" /\ Continues(At(q, pc), q, pc)
      BY <1>1, <2>2, AtContinues DEF PCs, ReadCache
    <3> HIDE DEF q
    <3> QED  BY <3>1, <3>2 DEF Continues
  <2>3. CASE GetTeamsForUser(h)
    <3>1. handler' = [handler EXCEPT ![h] = Informed(q)] /\ q.pc = "teams"
      BY <2>3 DEF GetTeamsForUser
    <3>2. Informed(q) = HandlerRow("setcache", q.user, q.survey, q.since, member[q.user])
      BY <1>1, HandlerRows
    <3>3. member[q.user] \in BOOLEAN
      BY <1>1, <3>1 DEF HandlerOK, SendInv, TypeOK
    <3>4. HandlerRow("setcache", q.user, q.survey, q.since, member[q.user])
            \in HandlerState
      BY <1>1, <3>3, HandlerRowType DEF PCs, HandlerState
    <3>5. Continues(Informed(q), q, "setcache")
      BY <3>2, <3>4 DEF Continues, HandlerRow
    <3> HIDE DEF q
    <3> QED  BY <3>1, <3>5 DEF Continues
  <2>4. CASE SetCache(h)
    <3>1. PICK pc \in {"release", "send"} :
            handler' = [handler EXCEPT ![h] = At(q, pc)]
      BY <2>4 DEF SetCache, Goto, AfterFilter
    <3>2. q.pc = "setcache" /\ Continues(At(q, pc), q, pc)
      BY <1>1, <2>4, AtContinues DEF PCs, SetCache
    <3> HIDE DEF q
    <3> QED  BY <3>1, <3>2 DEF Continues
  <2> QED  BY <2>1, <2>2, <2>3, <2>4
<1>3. cache' \in [User -> [SurveyID -> SUBSET CacheEntry]]
  <2>1. CASE UNCHANGED cache
    BY <2>1 DEF SendInv, TypeOK
  <2>2. CASE ~ UNCHANGED cache
    <3> DEFINE entry == [inTeam |-> q.inTeam, until |-> now + CacheValidity]
    <3>1. cache' = [cache EXCEPT ![q.user][q.survey] = {entry}]
      BY <2>2 DEF CheckSent, ReadCache, GetTeamsForUser, SetCache, kv
    <3>2. entry \in CacheEntry
      BY <1>1 DEF CacheEntry, HandlerState, SendInv, TypeOK, Time
    <3> HIDE DEF entry, q
    <3> QED  BY <3>1, <3>2 DEF SendInv, TypeOK
  <2> QED  BY <2>1, <2>2
<1>4. UNCHANGED spent \/ Fault
  BY DEF CheckSent, ReadCache, GetTeamsForUser, SetCache
<1> HIDE DEF q
<1>5. TypeOK'
  <2>1. handler' \in [Handler -> HandlerState]
    BY <1>2 DEF Continues, SendInv, TypeOK
  <2> QED  BY <1>1, <1>3, <1>4, <2>1, SpentMore DEF SendInv, TypeOK, surveys, counts, teams
<1>6. HandlersOK'
  <2>1. HandlerOK(r, now, sent)
    BY <1>1, <1>2 DEF HandlerOK, Continues, Holding, Deciding
  <2> QED  BY <1>1, <1>2, <2>1, HandlersKept
<1>7. ClearersOK'
  BY <1>1, ClearersKept
<1>8. LockHeld'
  BY <1>1, <1>2, LockKept DEF Holding, q
<1>9. PostsAccounted'
  <2>1. handler[h].pc # "mark"
    BY <1>1 DEF q
  <2>2. r.pc # "mark"
    BY <1>2 DEF Continues
  <2> QED  BY <2>1, <2>2, <1>1, <1>2, MarkingKept DEF counts
<1> QED  BY <1>5, <1>6, <1>7, <1>8, <1>9 DEF SendInv

\* The lock's holder h goes on as r: it alone decides whether its user and
\* survey are being marked.
LEMMA MarkingAt ==
    ASSUME SendInv, NEW h \in Handler, Holds(h), NEW r,
           handler' = [handler EXCEPT ![h] = r],
           r.pc = "mark" => /\ r.user = handler[h].user
                            /\ r.survey = handler[h].survey,
           NEW u \in User, NEW s \in SurveyID
    PROVE  IF u = handler[h].user /\ s = handler[h].survey
           THEN /\ Marking(u, s) # {} <=> handler[h].pc = "mark"
                /\ Marking(u, s)' # {} <=> r.pc = "mark"
           ELSE Marking(u, s)' # {} <=> Marking(u, s) # {}
<1> DEFINE Marks(g) == /\ handler[g].pc = "mark"
                       /\ handler[g].user = u
                       /\ handler[g].survey = s
<1>1. handler \in [Handler -> HandlerState]
  BY DEF SendInv, TypeOK
<1>2. handler'[h] = r /\ \A g \in Handler \ {h} : handler'[g] = handler[g]
  BY <1>1
<1>3. Marking(u, s) # {} <=> \E g \in Handler : Marks(g)
  BY DEF Marking
<1>4. Marking(u, s)' # {} <=> \E g \in Handler : Marks(g)'
  BY DEF Marking
<1>5. \A g \in Handler \ {h} : Marks(g)' <=> Marks(g)
  BY <1>2
<1>6. CASE u = handler[h].user /\ s = handler[h].survey
  <2>1. \A g \in Handler \ {h} : ~Marks(g)
    BY <1>6, OneMarking DEF Holding
  <2>2. Marks(h) <=> handler[h].pc = "mark"
    BY <1>6
  <2>3. Marks(h)' <=> r.pc = "mark"
    BY <1>2, <1>6
  <2> HIDE DEF Marks
  <2> QED  BY <1>3, <1>4, <1>5, <1>6, <2>1, <2>2, <2>3
<1>7. CASE ~(u = handler[h].user /\ s = handler[h].survey)
  <2>1. ~Marks(h) /\ ~Marks(h)'
    BY <1>2, <1>7
  <2> HIDE DEF Marks
  <2> QED  BY <1>3, <1>4, <1>5, <1>7, <2>1
<1> QED  BY <1>6, <1>7

\* SendSurvey's three calls; each leaves the books balanced.
LEMMA SendingSteps ==
    ASSUME SendInv, NEW h \in Handler,
           CreatePost(h) \/ SetSurveySentToUser(h) \/ IncrementSurveyReceiptCount(h)
    PROVE  SendInv'
<1> DEFINE q == handler[h]
<1>1. /\ q \in HandlerState /\ HandlerOK(q, now, sent)
      /\ q.pc \in {"send", "mark", "count"}
      /\ UNCHANGED <<now, surveys, lock, cache, orphans, teams, clearer, spent>>
  BY OneHandler DEF CreatePost, SetSurveySentToUser, IncrementSurveyReceiptCount,
                    kv, counts
<1>2. PICK pc \in {"mark", "count", "release"} :
        /\ handler' = [handler EXCEPT ![h] = At(q, pc)]
        /\ \/ CreatePost(h) /\ q.pc = "send" /\ pc = "mark"
           \/ SetSurveySentToUser(h) /\ q.pc = "mark" /\ pc = "count"
           \/ IncrementSurveyReceiptCount(h) /\ q.pc = "count" /\ pc = "release"
  BY DEF CreatePost, SetSurveySentToUser, IncrementSurveyReceiptCount, Goto
<1> DEFINE r == At(q, pc)
<1>3. Continues(r, q, pc)
  BY <1>1, <1>2, AtContinues DEF PCs
<1>4. q.user \in User /\ q.survey \in SurveyID
  BY <1>1 DEF HandlerOK
<1>5. /\ posts' = IF CreatePost(h) THEN [posts EXCEPT ![q.user][q.survey] = @ + 1]
                  ELSE posts
      /\ sent' = IF SetSurveySentToUser(h)
                 THEN [sent EXCEPT ![q.user][q.survey] = TRUE] ELSE sent
      /\ receipts' \in [SurveyID -> Nat]
  BY <1>1, <1>2, <1>4 DEF CreatePost, SetSurveySentToUser,
       IncrementSurveyReceiptCount, kv, counts, SendInv, TypeOK
<1> HIDE DEF r, q
<1>6. TypeOK'
  <2>1. handler' \in [Handler -> HandlerState]
    BY <1>2, <1>3 DEF Continues, SendInv, TypeOK, r
  <2>2. posts' \in [User -> [SurveyID -> Nat]]
    BY <1>4, <1>5 DEF SendInv, TypeOK
  <2>3. sent' \in [User -> [SurveyID -> BOOLEAN]]
    BY <1>4, <1>5 DEF SendInv, TypeOK
  <2> QED  BY <1>1, <1>5, <2>1, <2>2, <2>3 DEF SendInv, TypeOK, surveys, teams
<1>7. HandlersOK'
  <2> SUFFICES ASSUME NEW g \in Handler PROVE HandlerOK(handler'[g], now, sent')
    BY <1>1 DEF HandlersOK
  <2>1. CASE g = h
    <3>1. handler'[g] = r
      BY <2>1, <1>2 DEF SendInv, TypeOK, r
    <3>2. pc = "mark" => ~sent'[q.user][q.survey]
      BY <1>1, <1>2, <1>5 DEF HandlerOK, Deciding, SetSurveySentToUser, CreatePost, q
    <3> QED  BY <3>1, <3>2, <1>1, <1>2, <1>3
          DEF HandlerOK, Continues, Holding, Deciding
  <2>2. CASE g # h
    <3>1. handler'[g] = handler[g] /\ HandlerOK(handler[g], now, sent)
      BY <2>2, <1>2, OneHandler DEF SendInv, TypeOK
    <3>2. handler[g].pc \in Deciding => handler[g].user # q.user
      BY <2>2, <1>1, OneMarking DEF Holds, Holding, Deciding, q
    <3>3. handler[g].pc \in Deciding
            => sent'[handler[g].user][handler[g].survey]
                 = sent[handler[g].user][handler[g].survey]
      BY <3>1, <3>2, <1>5 DEF HandlerOK, Deciding, SendInv, TypeOK
    <3> QED  BY <3>1, <3>3 DEF HandlerOK
  <2> QED  BY <2>1, <2>2
<1>8. ClearersOK'
  BY <1>1, ClearersKept
<1>9. LockHeld'
  BY <1>1, <1>2, <1>3, LockKept DEF Holding, q, r
<1>10. PostsAccounted'
  <2> SUFFICES ASSUME NEW u \in User, NEW s \in SurveyID
               PROVE  Accounted(u, s, Marking(u, s) # {})'
    BY DEF PostsAccounted, Accounted
  <2>1. Accounted(u, s, Marking(u, s) # {})
    BY DEF SendInv, PostsAccounted, Accounted
  <2>2. IF u = q.user /\ s = q.survey
        THEN /\ Marking(u, s) # {} <=> q.pc = "mark"
             /\ Marking(u, s)' # {} <=> pc = "mark"
        ELSE Marking(u, s)' # {} <=> Marking(u, s) # {}
    BY <1>1, <1>2, <1>3, MarkingAt DEF Continues, Holds, Holding, q, r
  <2>3. posts[u][s] \in Nat /\ orphans[u][s] \in Nat /\ orphans'[u][s] = orphans[u][s]
    BY <1>1 DEF SendInv, TypeOK
  <2>4. CASE u = q.user /\ s = q.survey
    <3>1. q.pc \in {"send", "mark"} => ~sent[u][s]
      BY <2>4, <1>1 DEF HandlerOK, Deciding
    <3>2. /\ posts'[u][s] = IF CreatePost(h) THEN posts[u][s] + 1 ELSE posts[u][s]
          /\ sent'[u][s] = IF SetSurveySentToUser(h) THEN TRUE ELSE sent[u][s]
      BY <2>4, <1>5 DEF SendInv, TypeOK
    <3>3. /\ CreatePost(h) <=> q.pc = "send"
          /\ SetSurveySentToUser(h) <=> q.pc = "mark"
      BY <1>2 DEF CreatePost, SetSurveySentToUser, q
    <3>4. CASE q.pc = "send"
      BY <2>1, <2>2, <2>3, <2>4, <3>1, <3>2, <3>3, <3>4, <1>2 DEF Accounted
    <3>5. CASE q.pc = "mark"
      BY <2>1, <2>2, <2>3, <2>4, <3>1, <3>2, <3>3, <3>5, <1>2 DEF Accounted
    <3>6. CASE q.pc = "count"
      BY <2>1, <2>2, <2>3, <2>4, <3>2, <3>3, <3>6, <1>2 DEF Accounted
    <3> QED  BY <1>1, <3>4, <3>5, <3>6
  <2>5. CASE ~(u = q.user /\ s = q.survey)
    <3>1. posts'[u][s] = posts[u][s] /\ sent'[u][s] = sent[u][s]
      BY <2>5, <1>5, <1>4 DEF SendInv, TypeOK
    <3> QED  BY <2>1, <2>2, <2>3, <2>5, <3>1 DEF Accounted
  <2> QED  BY <2>4, <2>5
<1> QED  BY <1>6, <1>7, <1>8, <1>9, <1>10 DEF SendInv

\* A failed call or a dying handler: a post without a stored id is an orphan.
LEMMA FailingSteps ==
    ASSUME SendInv, NEW h \in Handler, CallFails(h) \/ HandlerDies(h)
    PROVE  SendInv'
<1> DEFINE q == handler[h]
<1>1. /\ q \in HandlerState /\ HandlerOK(q, now, sent) /\ q.pc # "idle"
      /\ UNCHANGED <<now, surveys, kv, posts, receipts, teams, clearer>>
      /\ Fault /\ Orphan(h)
  BY OneHandler DEF CallFails, HandlerDies, Holding
<1>2. PICK r \in HandlerState :
        /\ handler' = [handler EXCEPT ![h] = r]
        /\ \/ r.pc = "idle"
           \/ q.pc \in Holding /\ Continues(r, q, "release")
  <2>1. CASE CallFails(h)
    <3>1. Continues(At(q, "release"), q, "release")
      BY <1>1, AtContinues DEF PCs
    <3> QED  BY <2>1, <3>1 DEF CallFails, Goto, Continues
  <2>2. CASE HandlerDies(h)
    BY <2>2, IdleRow DEF HandlerDies
  <2> QED  BY <2>1, <2>2
<1>3. q.user \in User /\ q.survey \in SurveyID
  BY <1>1 DEF HandlerOK
<1>4. orphans' = IF q.pc = "mark" THEN [orphans EXCEPT ![q.user][q.survey] = @ + 1]
                 ELSE orphans
  BY <1>1 DEF Orphan
<1> HIDE DEF q
<1>5. TypeOK'
  <2>1. orphans' \in [User -> [SurveyID -> Nat]]
    BY <1>3, <1>4 DEF SendInv, TypeOK
  <2>2. spent' \in [moves : 0..MaxMoves, faults : 0..MaxFaults]
    BY <1>1, SpentMore
  <2>3. handler' \in [Handler -> HandlerState]
    BY <1>2 DEF SendInv, TypeOK
  <2> QED  BY <1>1, <2>1, <2>2, <2>3 DEF SendInv, TypeOK, surveys, kv, teams
<1>6. HandlersOK'
  <2>1. HandlerOK(r, now, sent)
    BY <1>1, <1>2 DEF HandlerOK, Continues, Holding, Deciding
  <2> QED  BY <1>1, <1>2, <2>1, HandlersKept DEF kv
<1>7. ClearersOK'
  BY <1>1, ClearersKept
<1>8. LockHeld'
  <2>1. CASE r.pc = "idle"
    BY <2>1, <1>1, <1>2, LockKept DEF kv, Holding
  <2>2. CASE q.pc \in Holding /\ Continues(r, q, "release")
    BY <2>2, <1>1, <1>2, LockKept DEF kv, q
  <2> QED  BY <2>1, <2>2, <1>2
<1>9. PostsAccounted'
  <2>1. r.pc # "mark"
    BY <1>2 DEF Continues
  <2>2. CASE q.pc # "mark"
    BY <2>1, <2>2, <1>1, <1>2, <1>4, MarkingKept DEF kv, q
  <2>3. CASE q.pc = "mark"
    <3> SUFFICES ASSUME NEW u \in User, NEW s \in SurveyID
                 PROVE  Accounted(u, s, Marking(u, s) # {})'
      BY DEF PostsAccounted, Accounted
    <3>1. Accounted(u, s, Marking(u, s) # {})
      BY DEF SendInv, PostsAccounted, Accounted
    <3>2. IF u = q.user /\ s = q.survey
          THEN /\ Marking(u, s) # {}
               /\ ~(Marking(u, s)' # {})
          ELSE Marking(u, s)' # {} <=> Marking(u, s) # {}
      BY <2>1, <2>3, <1>2, MarkingAt DEF Holds, Holding, q
    <3>3. /\ posts[u][s] \in Nat /\ orphans[u][s] \in Nat
          /\ posts'[u][s] = posts[u][s] /\ sent'[u][s] = sent[u][s]
      BY <1>1 DEF SendInv, TypeOK, kv
    <3>4. CASE u = q.user /\ s = q.survey
      <4>1. orphans'[u][s] = orphans[u][s] + 1
        BY <3>4, <2>3, <1>4, <1>3 DEF SendInv, TypeOK
      <4> QED  BY <3>1, <3>2, <3>3, <3>4, <4>1 DEF Accounted
    <3>5. CASE ~(u = q.user /\ s = q.survey)
      <4>1. orphans'[u][s] = orphans[u][s]
        BY <3>5, <2>3, <1>4, <1>3 DEF SendInv, TypeOK
      <4> QED  BY <3>1, <3>2, <3>3, <3>5, <4>1 DEF Accounted
    <3> QED  BY <3>4, <3>5
  <2> QED  BY <2>2, <2>3
<1> QED  BY <1>5, <1>6, <1>7, <1>8, <1>9 DEF SendInv

\* A lock value that is nobody's may be deleted.
LEMMA DeleteKeepsLocks ==
    ASSUME SendInv, NEW u \in User, NEW v,
           lock' = [lock EXCEPT ![u] = @ \ v],
           NEW g \in Handler, handler[g].pc \in Holding,
           handler[g].user = u => MyLock(g) \notin v
    PROVE  lock'[handler[g].user] = {MyLock(g)}
<1>1. lock[handler[g].user] = {MyLock(g)} /\ handler[g].user \in User
  BY OneHandler DEF SendInv, LockHeld, Holds, HandlerOK, Holding
<1>2. lock \in [User -> SUBSET LockValue]
  BY DEF SendInv, TypeOK
<1> QED  BY <1>1, <1>2

\* The deferred release deletes the handler's own value only.
LEMMA ReleaseStep ==
    ASSUME SendInv, NEW h \in Handler, ReleaseLock(h) PROVE SendInv'
<1> DEFINE u == handler[h].user
<1>1. /\ handler[h].pc = "release" /\ u \in User
      /\ lock' = [lock EXCEPT ![u] = @ \ {MyLock(h)}]
      /\ handler' = [handler EXCEPT ![h] = HandlerIdle]
      /\ UNCHANGED <<now, surveys, sent, cache, counts, teams, clearer, spent>>
  BY OneHandler DEF ReleaseLock, CompareAndDelete, HandlerOK
<1> HIDE DEF u
<1>2. handler \in [Handler -> HandlerState] /\ lock \in [User -> SUBSET LockValue]
  BY DEF SendInv, TypeOK
<1>3. TypeOK'
  <2>1. handler' \in [Handler -> HandlerState]
    BY <1>1, <1>2, IdleRow
  <2>2. lock' \in [User -> SUBSET LockValue]
    BY <1>1, <1>2
  <2> QED  BY <1>1, <2>1, <2>2 DEF SendInv, TypeOK, surveys, counts, teams
<1>4. HandlersOK'
  <2>1. HandlerOK(HandlerIdle, now, sent)
    BY IdleRow DEF HandlerOK, Holding, Deciding
  <2> QED  BY <1>1, <2>1, HandlersKept
<1>5. ClearersOK'
  BY <1>1, ClearersKept
<1>6. LockHeld'
  <2> SUFFICES ASSUME NEW g \in Handler, handler'[g].pc \in Holding
               PROVE  lock'[handler'[g].user] = {LockOf(g, handler'[g].since)}
    BY DEF LockHeld, MyLock, Holds
  <2>1. g # h /\ handler'[g] = handler[g]
    BY <1>1, <1>2, IdleRow DEF Holding
  <2>2. handler[g].user # u
    BY <1>1, <2>1, OneMarking DEF Holds, Holding, u
  <2> QED  BY <1>1, <2>1, <2>2, DeleteKeepsLocks DEF MyLock
<1>7. PostsAccounted'
  BY <1>1, IdleRow, MarkingKept DEF counts
<1> QED  BY <1>3, <1>4, <1>5, <1>6, <1>7 DEF SendInv

\* What a run of clearStaleLocks found expired is no running handler's: even
\* deleted late, the value it read is older than any handler lives.
LEMMA FoundIsNobodys ==
    ASSUME SendInv, NEW n \in Node, clearer[n].pc = "delete",
           NEW g \in Handler, handler[g].pc \in Holding
    PROVE  MyLock(g) \notin clearer[n].found
<1> SUFFICES ASSUME MyLock(g) \in clearer[n].found PROVE FALSE
  OBVIOUS
<1>1. MyLock(g).at = handler[g].since
  BY DEF MyLock, LockOf
<1>2. handler[g].since + LockExpiration <= clearer[n].utcNow /\ clearer[n].utcNow <= now
  BY <1>1 DEF SendInv, ClearersOK, ClearerOK
<1>3. now <= handler[g].since + HandlerTimeout
  BY OneHandler DEF HandlerOK
<1>4. handler[g].since \in Nat /\ clearer[n].utcNow \in Nat /\ now \in Nat
  BY DEF SendInv, TypeOK, HandlerState, ClearerState, Time
<1> QED  BY <1>2, <1>3, <1>4

LEMMA ClearSteps ==
    ASSUME SendInv, NEW n \in Node, ClearStep(n) PROVE SendInv'
<1> DEFINE c == clearer[n]
<1>1. UNCHANGED <<now, surveys, sent, cache, counts, teams, handler, spent>>
  BY DEF ClearStep, ClearBegin, ClearRead, ClearDelete, ClearEnd, kv
<1>2. c \in ClearerState /\ ClearerOK(c, now) /\ now \in Time /\ now \in Nat
  BY DEF SendInv, TypeOK, ClearersOK, Time
<1>3. PICK d \in ClearerState :
        /\ clearer' = [clearer EXCEPT ![n] = d]
        /\ ClearerOK(d, now)
  <2>1. CASE ClearBegin(n)
    <3>1. Scanning(now) \in ClearerState /\ ClearerOK(Scanning(now), now)
      BY <1>2 DEF Scanning, ClearerState, ClearerOK
    <3> QED  BY <2>1, <3>1 DEF ClearBegin
  <2>2. ASSUME NEW u \in User, ClearRead(n, u)
        PROVE  \E d \in ClearerState : /\ clearer' = [clearer EXCEPT ![n] = d]
                                       /\ ClearerOK(d, now)
    <3>1. PICK v \in lock[u] : /\ Expired(v, c.utcNow)
                               /\ clearer' = [clearer EXCEPT ![n] = Deleting(c.utcNow, u, v)]
      BY <2>2 DEF ClearRead
    <3>2. c.pc = "scan"
      BY <2>2 DEF ClearRead
    <3> DEFINE d == Deleting(c.utcNow, u, v)
    <3>3. v \in LockValue
      BY DEF SendInv, TypeOK
    <3> HIDE DEF c
    <3>4. d \in ClearerState
      BY <1>2, <3>3 DEF Deleting, ClearerState
    <3>5. ClearerOK(d, now)
      BY <1>2, <3>1, <3>2, <3>3 DEF Deleting, ClearerOK, Expired, ClearerState, LockValue, Time
    <3> QED  BY <3>1, <3>4, <3>5 DEF c
  <2>3. CASE ClearDelete(n)
    <3>1. Scanning(c.utcNow) \in ClearerState /\ ClearerOK(Scanning(c.utcNow), now)
      BY <1>2, <2>3 DEF ClearDelete, Scanning, ClearerState, ClearerOK
    <3> QED  BY <2>3, <3>1 DEF ClearDelete
  <2>4. CASE ClearEnd(n)
    <3>1. ClearerIdle \in ClearerState /\ ClearerOK(ClearerIdle, now)
      BY <1>2 DEF ClearerIdle, ClearerState, ClearerOK, Time
    <3> QED  BY <2>4, <3>1 DEF ClearEnd
  <2> QED  BY <2>1, <2>2, <2>3, <2>4 DEF ClearStep
<1>4. /\ lock' \in [User -> SUBSET LockValue]
      /\ LockHeld'
  <2>1. CASE UNCHANGED lock
    BY <2>1, <1>1 DEF SendInv, TypeOK, LockHeld, MyLock, Holds
  <2>2. CASE ClearDelete(n)
    <3>1. /\ c.pc = "delete" /\ c.user \in User
          /\ lock' = [lock EXCEPT ![c.user] = @ \ c.found]
      BY <2>2, <1>2 DEF ClearDelete, CompareAndDelete, ClearerOK
    <3>2. lock' \in [User -> SUBSET LockValue]
      BY <3>1 DEF SendInv, TypeOK
    <3>3. ASSUME NEW g \in Handler, handler[g].pc \in Holding
          PROVE  lock'[handler[g].user] = {MyLock(g)}
      BY <3>1, <3>3, FoundIsNobodys, DeleteKeepsLocks
    <3> QED  BY <3>2, <3>3, <1>1 DEF LockHeld, MyLock, Holds
  <2> QED  BY <2>1, <2>2 DEF ClearStep, ClearBegin, ClearRead, ClearEnd, kv
<1>5. TypeOK'
  <2>1. clearer' \in [Node -> ClearerState]
    BY <1>3 DEF SendInv, TypeOK
  <2> QED  BY <1>1, <1>4, <2>1 DEF SendInv, TypeOK, surveys, counts, teams
<1>6. HandlersOK'
  BY <1>1 DEF SendInv, HandlersOK
<1>7. ClearersOK'
  BY <1>1, <1>3 DEF SendInv, TypeOK, ClearersOK
<1>8. PostsAccounted'
  BY <1>1, PostsKept DEF counts, SameMark
<1> QED  BY <1>4, <1>5, <1>6, <1>7, <1>8 DEF SendInv

\* Surveys, teams and the clock: the clock waits for the handlers.
LEMMA OutsideSteps ==
    ASSUME SendInv,
           SurveyStep \/ (\E u \in User : ChangeTeams(u)) \/ Tick
             \/ UNCHANGED vars
    PROVE  SendInv'
<1>1. UNCHANGED <<kv, counts, handler, clearer>>
  BY DEF SurveyStep, ChangeTeams, Tick, vars
<1>2. TypeOK'
  <2>1. CASE SurveyStep
    <3>1. running' \in SUBSET SurveyID /\ past' \in SUBSET SurveyID
      BY <2>1 DEF SurveyStep, Timeline!TimelineNext, Timeline!Begin,
                  Timeline!Finish, SendInv, TypeOK
    <3> QED  BY <2>1, <3>1 DEF SurveyStep, SendInv, TypeOK, kv, counts, teams
  <2>2. CASE \E u \in User : ChangeTeams(u)
    <3>1. /\ member' \in [User -> BOOLEAN] /\ movedAt' \in [User -> Time]
          /\ spent' \in [moves : 0..MaxMoves, faults : 0..MaxFaults]
      <4>1. PICK u \in User : ChangeTeams(u)
        BY <2>2
      <4>2. member' \in [User -> BOOLEAN]
        <5>1. member \in [User -> BOOLEAN]
          BY DEF SendInv, TypeOK
        <5>2. member' = [member EXCEPT ![u] = ~member[u]]
          BY <4>1 DEF ChangeTeams
        <5> QED  BY <5>1, <5>2, Zenon
      <4>3. movedAt' \in [User -> Time]
        BY <4>1 DEF ChangeTeams, SendInv, TypeOK
      <4>4. spent' \in [moves : 0..MaxMoves, faults : 0..MaxFaults]
        <5>1. spent.moves < MaxMoves /\ spent' = [spent EXCEPT !.moves = @ + 1]
          BY <4>1 DEF ChangeTeams
        <5>2. spent \in [moves : 0..MaxMoves, faults : 0..MaxFaults]
          BY DEF SendInv, TypeOK
        <5> QED  BY <5>1, <5>2
      <4> QED  BY <4>2, <4>3, <4>4
    <3> QED  BY <2>2, <3>1 DEF ChangeTeams, SendInv, TypeOK, kv, counts, surveys
  <2>3. CASE Tick
    BY <2>3 DEF Tick, Time, SendInv, TypeOK, kv, counts, teams, surveys,
          HandlerState, ClearerState, LockValue
  <2>4. CASE UNCHANGED vars
    BY <2>4 DEF vars, SendInv, TypeOK, kv, counts, teams, surveys
  <2> QED  BY <2>1, <2>2, <2>3, <2>4
<1>3. now' \in Nat /\ now \in Nat /\ now <= now'
  BY DEF SurveyStep, ChangeTeams, Tick, vars, SendInv, TypeOK, Time
<1>4. HandlersOK'
  <2> SUFFICES ASSUME NEW h \in Handler PROVE HandlerOK(handler[h], now', sent)
    BY <1>1 DEF HandlersOK, kv
  <2>1. HandlerOK(handler[h], now, sent) /\ handler[h].since \in Nat
    BY OneHandler DEF HandlerState, Time
  <2>2. handler[h].pc \in Holding => now' <= handler[h].since + HandlerTimeout
    BY <2>1, <1>3 DEF SurveyStep, ChangeTeams, Tick, vars, Holds, HandlerOK
  <2> QED  BY <2>1, <2>2, <1>3 DEF HandlerOK
<1>5. ClearersOK'
  <2>1. \A n \in Node : clearer[n].utcNow \in Nat
    BY DEF SendInv, TypeOK, ClearerState, Time
  <2> QED  BY <1>1, <1>3, <2>1 DEF SendInv, ClearersOK, ClearerOK
<1>6. LockHeld'
  BY <1>1 DEF SendInv, LockHeld, MyLock, Holds, kv
<1>7. PostsAccounted'
  BY <1>1, PostsKept DEF counts, kv, SameMark
<1> QED  BY <1>2, <1>4, <1>5, <1>6, <1>7 DEF SendInv

THEOREM SendInvCorrect == Spec => []SendInv
<1>1. SendInv /\ [Next]_vars => SendInv'
  <2> SUFFICES ASSUME SendInv, [Next]_vars PROVE SendInv'
    OBVIOUS
  <2>1. ASSUME NEW u \in User, Connect(u) PROVE SendInv'
    BY <2>1, BeginSteps DEF Connect
  <2>2. ASSUME NEW h \in Handler, HandlerStep(h) PROVE SendInv'
    BY <2>2, AcquireStep, DecidingSteps, SendingSteps, ReleaseStep DEF HandlerStep
  <2>3. ASSUME NEW h \in Handler, CallFails(h) \/ HandlerDies(h) PROVE SendInv'
    BY <2>3, FailingSteps
  <2>4. ASSUME NEW n \in Node, ClearStep(n) PROVE SendInv'
    BY <2>4, ClearSteps
  <2>5. CASE SurveyStep \/ (\E u \in User : ChangeTeams(u)) \/ Tick \/ UNCHANGED vars
    BY <2>5, OutsideSteps
  <2> QED  BY <2>1, <2>2, <2>3, <2>4, <2>5 DEF Next
<1> QED  BY InitSendInv, <1>1, PTL DEF Spec

----------------------------------------------------------------------------
\* Every variable keeps its type.
THEOREM SendTypeCorrect == Spec => []TypeOK
<1>1. SendInv => TypeOK
  BY DEF SendInv
<1> QED  BY <1>1, SendInvCorrect, PTL

\* However many calls, nodes and runs of clearStaleLocks there are, a handler
\* past the lock owns the KV entry, if handlers live shorter than locks.
THEOREM LockStaysHeld == Spec => []LockHeld
<1>1. SendInv => LockHeld
  BY DEF SendInv
<1> QED  BY <1>1, SendInvCorrect, PTL

\* No two /connected calls of one user are past the lock together.
THEOREM CallsExcludeEachOther == Spec => []MutualExclusion
<1>1. SendInv => MutualExclusion
  BY LockExcludes DEF SendInv
<1> QED  BY <1>1, SendInvCorrect, PTL

\* Every survey post a user gets is the one the KV store knows, or one whose
\* id was lost by a failure between CreatePost and KVSet.
THEOREM EveryPostIsAccounted == Spec => []PostsAccounted
<1>1. SendInv => PostsAccounted
  BY DEF SendInv
<1> QED  BY <1>1, SendInvCorrect, PTL

----------------------------------------------------------------------------
\* The refinement of Delivery.

\* A handler under way stays with its user and survey until it is done, and
\* only CreatePost leads to KVSet.
Proceeds(r, h) ==
    /\ handler' = [handler EXCEPT ![h] = r]
    /\ r.pc = "idle" \/ /\ r.user = handler[h].user
                        /\ r.survey = handler[h].survey
    /\ r.pc = "mark" => CreatePost(h)

LEMMA HandlerProceeds ==
    ASSUME SendInv, NEW h \in Handler,
           HandlerStep(h) \/ CallFails(h) \/ HandlerDies(h)
    PROVE  handler[h].pc # "idle" /\ \E r : Proceeds(r, h)
<1> DEFINE q == handler[h]
<1>1. q \in HandlerState
  BY OneHandler
<1>2. ASSUME NEW pc \in PCs PROVE Continues(At(q, pc), q, pc)
  BY <1>1, AtContinues
<1>3. \A s, b : AfterFilter(s, b) \in {"send", "release"}
  BY DEF AfterFilter
<1>4. CASE AcquireLock(h)
  <2>1. Locked(q) = HandlerRow("sent", q.user, q.survey, now, q.inTeam)
    BY <1>1, HandlerRows
  <2>2. Proceeds(Locked(q), h) \/ Proceeds(HandlerIdle, h)
    BY <1>4, <2>1, IdleRow DEF AcquireLock, Proceeds, HandlerRow
  <2> QED  BY <1>4, <2>2 DEF AcquireLock
<1>5. CASE GetTeamsForUser(h)
  <2>1. Informed(q) = HandlerRow("setcache", q.user, q.survey, q.since, member[q.user])
    BY <1>1, HandlerRows
  <2>2. Proceeds(Informed(q), h)
    BY <1>5, <2>1 DEF GetTeamsForUser, Proceeds, HandlerRow
  <2> QED  BY <1>5, <2>2 DEF GetTeamsForUser
<1>6. CASE ReleaseLock(h) \/ HandlerDies(h)
  <2>1. Proceeds(HandlerIdle, h)
    BY <1>6, IdleRow DEF ReleaseLock, HandlerDies, Proceeds
  <2> QED  BY <1>6, <2>1 DEF ReleaseLock, HandlerDies
<1>7. CASE \/ CheckSent(h) \/ ReadCache(h) \/ SetCache(h) \/ CreatePost(h)
           \/ SetSurveySentToUser(h) \/ IncrementSurveyReceiptCount(h) \/ CallFails(h)
  <2>1. PICK pc \in PCs :
          /\ handler' = [handler EXCEPT ![h] = At(q, pc)]
          /\ pc = "mark" => CreatePost(h)
    <3>1. CASE CheckSent(h)
      <4> DEFINE pc == IF AlreadySent(q.user, q.survey) THEN "release"
                       ELSE IF TeamFilterType[q.survey] = "everyone" THEN "send"
                       ELSE IF q.survey \in NoTeams THEN AfterFilter(q.survey, FALSE)
                       ELSE "cache"
      <4>1. handler' = [handler EXCEPT ![h] = At(q, pc)]
        BY <3>1 DEF CheckSent, Goto
      <4>2. pc \in {"release", "send", "cache"}
        BY <1>3
      <4> QED  BY <4>1, <4>2 DEF PCs
    <3>2. CASE ReadCache(h)
      BY <1>3, <3>2 DEF ReadCache, Goto, PCs
    <3>3. CASE SetCache(h)
      BY <1>3, <3>3 DEF SetCache, Goto, PCs
    <3>4. CASE CreatePost(h)
      BY <3>4 DEF CreatePost, Goto, PCs
    <3>5. CASE SetSurveySentToUser(h)
      BY <3>5 DEF SetSurveySentToUser, Goto, PCs
    <3>6. CASE IncrementSurveyReceiptCount(h)
      BY <3>6 DEF IncrementSurveyReceiptCount, Goto, PCs
    <3>7. CASE CallFails(h)
      BY <3>7 DEF CallFails, Goto, PCs
    <3> QED  BY <1>7, <3>1, <3>2, <3>3, <3>4, <3>5, <3>6, <3>7
  <2>2. Proceeds(At(q, pc), h)
    BY <1>2, <2>1 DEF Proceeds, Continues
  <2>3. handler[h].pc # "idle"
    BY <1>7 DEF CheckSent, ReadCache, SetCache, CreatePost, SetSurveySentToUser,
                IncrementSurveyReceiptCount, CallFails, Holding
  <2> QED  BY <2>2, <2>3
<1> QED  BY <1>4, <1>5, <1>6, <1>7 DEF HandlerStep

\* Calls are about surveys that have begun.
HandlersBegun ==
    \A h \in Handler :
        handler[h].pc # "idle" => handler[h].survey \in running \union past

DeliverInv == SendInv /\ HandlersBegun

LEMMA BegunNext ==
    ASSUME SendInv, HandlersBegun, [Next]_vars PROVE HandlersBegun'
<1>0. handler \in [Handler -> HandlerState]
  BY DEF SendInv, TypeOK
<1>1. ASSUME NEW u \in User, NEW h \in Handler, ConnectBegin(h, u) PROVE HandlersBegun'
  <2>1. PICK s \in running : handler' = [handler EXCEPT ![h] = Called(u, s)]
    BY <1>1 DEF ConnectBegin
  <2>2. Called(u, s).survey = s /\ UNCHANGED <<running, past>>
    BY <1>1 DEF Called, ConnectBegin, surveys
  <2> QED  BY <1>0, <2>1, <2>2 DEF HandlersBegun
<1>2. ASSUME NEW h \in Handler, HandlerStep(h) \/ CallFails(h) \/ HandlerDies(h)
      PROVE  HandlersBegun'
  <2>1. PICK r : Proceeds(r, h)
    BY <1>2, HandlerProceeds
  <2>2. handler[h].survey \in running \union past
    BY <1>2, HandlerProceeds DEF HandlersBegun
  <2>3. UNCHANGED <<running, past>>
    BY <1>2 DEF HandlerStep, AcquireLock, CheckSent, ReadCache, GetTeamsForUser, SetCache,
                CreatePost, SetSurveySentToUser, IncrementSurveyReceiptCount,
                ReleaseLock, CallFails, HandlerDies, surveys
  <2> QED  BY <1>0, <2>1, <2>2, <2>3 DEF HandlersBegun, Proceeds
<1>3. ASSUME NEW n \in Node, ClearStep(n) PROVE HandlersBegun'
  BY <1>3 DEF ClearStep, ClearBegin, ClearRead, ClearDelete, ClearEnd, HandlersBegun,
              surveys
<1>4. CASE SurveyStep
  BY <1>4 DEF SurveyStep, HandlersBegun, Timeline!TimelineNext, Timeline!Finish,
              Timeline!Begin
<1>5. CASE (\E u \in User : ChangeTeams(u)) \/ Tick \/ UNCHANGED vars
  BY <1>5 DEF ChangeTeams, Tick, vars, HandlersBegun, surveys
<1> QED  BY <1>1, <1>2, <1>3, <1>4, <1>5 DEF Next, Connect

\* The lock's holder h goes on as r: what it has posted and not recorded is all
\* its user waits for.
LEMMA UnrecordedAt ==
    ASSUME SendInv, NEW h \in Handler, Holds(h), NEW r, Proceeds(r, h), NEW u \in User
    PROVE  IF u = handler[h].user
           THEN /\ Unrecorded(u) = IF handler[h].pc = "mark"
                                   THEN {handler[h].survey} ELSE {}
                /\ Unrecorded(u)' = IF r.pc = "mark" THEN {handler[h].survey} ELSE {}
           ELSE Unrecorded(u)' = Unrecorded(u)
<1> DEFINE q == handler[h]
<1>1. q.survey \in SurveyID
  BY OneHandler DEF HandlerOK, Holds, Holding
<1>2. ASSUME NEW s \in SurveyID
      PROVE  IF u = q.user /\ s = q.survey
             THEN /\ Marking(u, s) # {} <=> q.pc = "mark"
                  /\ Marking(u, s)' # {} <=> r.pc = "mark"
             ELSE Marking(u, s)' # {} <=> Marking(u, s) # {}
  BY MarkingAt DEF Proceeds
<1>3. ASSUME u = q.user, NEW s \in SurveyID, s # q.survey PROVE Marking(u, s) = {}
  BY <1>3, OneMarking DEF Marking, Holding
<1> QED  BY <1>1, <1>2, <1>3 DEF Unrecorded

\* The step of Delivery that h's step is, if any, given what it does to its own
\* user's post.
LEMMA DeliverStep ==
    ASSUME DeliverInv, NEW h \in Handler, CreatePost(h)
    PROVE  Posted!Deliver(handler[h].user, handler[h].survey)
<1> DEFINE u == handler[h].user
           s == handler[h].survey
           open == [v \in User |-> Unrecorded(v)]
<1>1. /\ handler[h].pc = "send" /\ Holds(h) /\ UNCHANGED <<running, past, sent>>
      /\ posts' = [posts EXCEPT ![u][s] = @ + 1]
      /\ handler' = [handler EXCEPT ![h] = At(handler[h], "mark")]
  BY DEF CreatePost, Goto, Holds, Holding, surveys, kv
<1>2. /\ u \in User /\ s \in SurveyID /\ ~sent[u][s]
      /\ s \in running \union past
  BY <1>1, OneHandler DEF DeliverInv, HandlerOK, Deciding, HandlersBegun
<1>3. PICK r : Proceeds(r, h) /\ r.pc = "mark"
  <2>1. Continues(At(handler[h], "mark"), handler[h], "mark")
    BY OneHandler, AtContinues DEF DeliverInv, PCs
  <2> QED  BY <1>1, <2>1 DEF Proceeds, Continues
<1>4. ASSUME NEW v \in User
      PROVE  Unrecorded(v)' = IF v = u THEN {s} ELSE Unrecorded(v)
  BY <1>1, <1>3, UnrecordedAt DEF DeliverInv
<1>5. Unrecorded(u) = {}
  BY <1>1, <1>2, <1>3, UnrecordedAt DEF DeliverInv
<1>6. open[u] = {}
  BY <1>2, <1>5
<1>7. open' = [open EXCEPT ![u] = {s}]
  BY <1>2, <1>4
<1> QED  BY <1>1, <1>2, <1>6, <1>7 DEF Posted!Deliver

LEMMA ConfirmStep ==
    ASSUME DeliverInv, NEW h \in Handler, SetSurveySentToUser(h)
    PROVE  Posted!Confirm(handler[h].user, handler[h].survey)
<1> DEFINE u == handler[h].user
           s == handler[h].survey
           open == [v \in User |-> Unrecorded(v)]
<1>1. /\ handler[h].pc = "mark" /\ Holds(h) /\ UNCHANGED <<running, past, posts>>
      /\ sent' = [sent EXCEPT ![u][s] = TRUE]
      /\ handler' = [handler EXCEPT ![h] = At(handler[h], "count")]
  BY DEF SetSurveySentToUser, Goto, Holds, Holding, surveys, counts
<1>2. u \in User
  BY <1>1, OneHandler DEF DeliverInv, HandlerOK
<1>3. PICK r : Proceeds(r, h) /\ r.pc = "count"
  <2>1. Continues(At(handler[h], "count"), handler[h], "count")
    BY OneHandler, AtContinues DEF DeliverInv, PCs
  <2> QED  BY <1>1, <2>1 DEF Proceeds, Continues
<1>4. ASSUME NEW v \in User
      PROVE  Unrecorded(v)' = IF v = u THEN {} ELSE Unrecorded(v)
  BY <1>1, <1>3, UnrecordedAt DEF DeliverInv
<1>5. Unrecorded(u) = {s}
  BY <1>1, <1>2, <1>3, UnrecordedAt DEF DeliverInv
<1>6. open[u] = {s}
  BY <1>2, <1>5
<1>7. open' = [open EXCEPT ![u] = {}]
  BY <1>2, <1>4
<1> QED  BY <1>1, <1>6, <1>7 DEF Posted!Confirm

\* A handler between CreatePost and KVSet that fails or dies.
LEMMA LoseStep ==
    ASSUME DeliverInv, NEW h \in Handler, handler[h].pc = "mark",
           CallFails(h) \/ HandlerDies(h)
    PROVE  handler[h].user \in User /\ Posted!Lose(handler[h].user)
<1> DEFINE u == handler[h].user
           open == [v \in User |-> Unrecorded(v)]
<1>1. u \in User /\ Holds(h) /\ UNCHANGED <<running, past, sent, posts>>
  BY OneHandler DEF DeliverInv, HandlerOK, Holds, Holding, CallFails, HandlerDies,
                    surveys, kv
<1>2. PICK r : Proceeds(r, h)
  BY HandlerProceeds DEF DeliverInv
<1>3. r.pc # "mark"
  BY <1>2 DEF Proceeds, CreatePost
<1>4. ASSUME NEW v \in User
      PROVE  Unrecorded(v)' = IF v = u THEN {} ELSE Unrecorded(v)
  BY <1>1, <1>2, <1>3, UnrecordedAt DEF DeliverInv
<1>5. open' = [open EXCEPT ![u] = {}]
  BY <1>1, <1>4
<1> QED  BY <1>1, <1>5 DEF Posted!Lose

\* Everything else is invisible to the user.
LEMMA UnmarkedStep ==
    ASSUME SendInv, NEW h \in Handler, NEW r,
           handler' = [handler EXCEPT ![h] = r],
           handler[h].pc # "mark", r.pc # "mark", NEW v
    PROVE  Unrecorded(v)' = Unrecorded(v)
<1>1. handler \in [Handler -> HandlerState]
  BY DEF SendInv, TypeOK
<1>2. \A g \in Handler : /\ g = h => handler'[g] = r
                         /\ g # h => handler'[g] = handler[g]
  BY <1>1
<1>3. \A s \in SurveyID : Marking(v, s)' = Marking(v, s)
  BY <1>2 DEF Marking
<1> QED  BY <1>3 DEF Unrecorded

\* The step is one of Delivery.
Delivers == [Posted!DeliveryNext]_Posted!deliveryVars

LEMMA DeliveryStep ==
    ASSUME DeliverInv, [Next]_vars PROVE Delivers
<1> DEFINE open == [v \in User |-> Unrecorded(v)]
<1>1. ASSUME UNCHANGED <<running, past, posts, sent>>,
             \A v \in User : Unrecorded(v)' = Unrecorded(v)
      PROVE  Delivers
  <2>1. open' = open
    BY <1>1
  <2> QED  BY <1>1, <2>1 DEF Delivers, Posted!deliveryVars
<1>2. ASSUME NEW u \in User, NEW h \in Handler, ConnectBegin(h, u) PROVE Delivers
  <2>1. PICK s : handler' = [handler EXCEPT ![h] = Called(u, s)]
    BY <1>2 DEF ConnectBegin
  <2>2. handler[h].pc # "mark" /\ Called(u, s).pc # "mark"
    BY <1>2 DEF ConnectBegin, Called
  <2>3. \A v \in User : Unrecorded(v)' = Unrecorded(v)
    BY <2>1, <2>2, UnmarkedStep DEF DeliverInv
  <2> QED  BY <1>1, <1>2, <2>3 DEF ConnectBegin, surveys, kv, counts
<1>3. ASSUME NEW h \in Handler, CreatePost(h) PROVE Delivers
  <2>1. handler[h].user \in User /\ handler[h].survey \in SurveyID
    BY <1>3, OneHandler DEF DeliverInv, CreatePost, HandlerOK
  <2> QED  BY <1>3, <2>1, DeliverStep DEF Delivers, Posted!DeliveryNext
<1>4. ASSUME NEW h \in Handler, SetSurveySentToUser(h) PROVE Delivers
  <2>1. handler[h].user \in User /\ handler[h].survey \in SurveyID
    BY <1>4, OneHandler DEF DeliverInv, SetSurveySentToUser, HandlerOK
  <2> QED  BY <1>4, <2>1, ConfirmStep DEF Delivers, Posted!DeliveryNext
<1>5. ASSUME NEW h \in Handler, HandlerStep(h) \/ CallFails(h) \/ HandlerDies(h),
             ~CreatePost(h), ~SetSurveySentToUser(h)
      PROVE  Delivers
  <2>0. UNCHANGED <<running, past, posts, sent>>
    BY <1>5 DEF HandlerStep, AcquireLock, CheckSent, ReadCache, GetTeamsForUser, SetCache,
                IncrementSurveyReceiptCount, ReleaseLock, CallFails, HandlerDies,
                surveys, kv, counts
  <2>1. CASE handler[h].pc = "mark"
    <3>1. CallFails(h) \/ HandlerDies(h)
      BY <1>5, <2>1 DEF HandlerStep, AcquireLock, CheckSent, ReadCache, GetTeamsForUser,
                        SetCache, IncrementSurveyReceiptCount, ReleaseLock
    <3> QED  BY <2>1, <3>1, LoseStep DEF Delivers, Posted!DeliveryNext
  <2>2. CASE handler[h].pc # "mark"
    <3>1. PICK r : Proceeds(r, h)
      BY <1>5, HandlerProceeds DEF DeliverInv
    <3>2. handler' = [handler EXCEPT ![h] = r] /\ r.pc # "mark"
      BY <1>5, <3>1 DEF Proceeds
    <3>3. \A v \in User : Unrecorded(v)' = Unrecorded(v)
      BY <2>2, <3>2, UnmarkedStep DEF DeliverInv
    <3> QED  BY <1>1, <2>0, <3>3
  <2> QED  BY <2>1, <2>2
<1>6. ASSUME UNCHANGED <<handler, posts, sent>> PROVE open' = open
  BY <1>6 DEF Unrecorded, Marking
<1>7. CASE SurveyStep
  <2>1. open' = open /\ UNCHANGED <<posts, sent>>
    BY <1>6, <1>7 DEF SurveyStep, counts, kv
  <2>2. CASE Timeline!Finish
    <3>1. (running \union past)' = running \union past
      BY <2>2 DEF Timeline!Finish
    <3> QED  BY <2>1, <3>1 DEF Delivers, Posted!deliveryVars
  <2>3. ASSUME NEW s \in SurveyID, Timeline!Begin(s) PROVE Delivers
    <3>1. (running \union past)' = (running \union past) \union {s}
      BY <2>3 DEF Timeline!Begin
    <3>2. Posted!Announce(s)
      BY <2>1, <3>1 DEF Posted!Announce
    <3> QED  BY <3>2 DEF Delivers, Posted!DeliveryNext
  <2> QED  BY <1>7, <2>2, <2>3 DEF SurveyStep, Timeline!TimelineNext
<1>8. ASSUME NEW n \in Node, ClearStep(n) PROVE Delivers
  <2>1. UNCHANGED <<running, past, handler, posts, sent>>
    BY <1>8 DEF ClearStep, ClearBegin, ClearRead, ClearDelete, ClearEnd, surveys, kv,
                counts
  <2> QED  BY <1>6, <2>1 DEF Delivers, Posted!deliveryVars
<1>9. CASE (\E u \in User : ChangeTeams(u)) \/ Tick \/ UNCHANGED vars
  <2>1. UNCHANGED <<running, past, handler, posts, sent>>
    BY <1>9 DEF ChangeTeams, Tick, vars, surveys, kv, counts
  <2> QED  BY <1>6, <2>1 DEF Delivers, Posted!deliveryVars
<1> QED  BY <1>2, <1>3, <1>4, <1>5, <1>7, <1>8, <1>9 DEF Next, Connect

\* Through all of its calls, locks and caches /connected is one delivery at a
\* time per user: no survey that has not begun is posted, none while another
\* post awaits its record, and none again once the KV store has its id.
THEOREM ImplementsDelivery == Spec => DeliverySpec
<1>1. Init => HandlersBegun
  BY DEF Init, HandlersBegun, HandlerIdle
<1>2. Init => Posted!DeliveryInit
  <2> SUFFICES ASSUME Init PROVE Posted!DeliveryInit
    OBVIOUS
  <2>1. \A h \in Handler : handler[h].pc = "idle"
    BY DEF Init, HandlerIdle
  <2>2. \A u \in User : Unrecorded(u) = {}
    BY <2>1 DEF Unrecorded, Marking
  <2> QED  BY <2>2 DEF Init, Timeline!TimelineInit, Posted!DeliveryInit
<1>3. SendInv /\ HandlersBegun /\ [Next]_vars => HandlersBegun'
  BY BegunNext
<1>4. SendInv /\ HandlersBegun /\ [Next]_vars => Delivers
  BY DeliveryStep DEF DeliverInv
<1> QED  BY <1>1, <1>2, <1>3, <1>4, SendInvCorrect, PTL
         DEF Spec, DeliverySpec, Posted!DeliverySpec, Delivers

----------------------------------------------------------------------------
(* The calls about an ended survey run out.                                *)

\* A survey that is over is not in progress.
Apart == running \cap past = {}

LEMMA ApartNext == Apart /\ [Next]_vars => Apart'
<1> SUFFICES ASSUME Apart, [Next]_vars PROVE Apart'
  OBVIOUS
<1>1. CASE SurveyStep
  BY <1>1 DEF SurveyStep, Timeline!TimelineNext, Timeline!Begin,
              Timeline!Finish, Apart
<1>2. CASE UNCHANGED surveys
  BY <1>2 DEF surveys, Apart
<1>3. SurveyStep \/ UNCHANGED surveys
  BY DEF Next, vars, Connect, ConnectBegin, ChangeTeams, HandlerStep, AcquireLock,
         CheckSent, ReadCache, GetTeamsForUser, SetCache, CreatePost,
         SetSurveySentToUser, IncrementSurveyReceiptCount, ReleaseLock, CallFails,
         HandlerDies, ClearStep, ClearBegin, ClearRead, ClearDelete, ClearEnd, Tick
<1> QED  BY <1>1, <1>2, <1>3

LEMMA OtherSurveyKept ==
    ASSUME NEW D, NEW X, NEW f \in [D -> [SurveyID -> X]], NEW d \in D,
           NEW t \in SurveyID, NEW x, NEW s \in SurveyID, s # t, NEW u \in D
    PROVE  [f EXCEPT ![d][t] = x][u][s] = f[u][s]
<1>1. CASE u = d
  <2>1. [f EXCEPT ![d][t] = x][u] = [f[d] EXCEPT ![t] = x]
    BY <1>1
  <2> QED  BY <1>1, <2>1
<1>2. CASE u # d
  BY <1>2
<1> QED  BY <1>1, <1>2

\* A call delivers no survey but its own.
LEMMA OthersNotDelivered ==
    ASSUME SendInv, NEW h \in Handler,
           HandlerStep(h) \/ CallFails(h) \/ HandlerDies(h),
           NEW s \in SurveyID, s # handler[h].survey
    PROVE  DeliveriesKept(s)
<1> DEFINE q == handler[h]
<1>1. CASE UNCHANGED <<posts, sent, receipts>>
  BY <1>1 DEF DeliveriesKept
<1>2. CASE CreatePost(h) \/ SetSurveySentToUser(h) \/ IncrementSurveyReceiptCount(h)
  <2>1. q.user \in User /\ q.survey \in SurveyID
    BY <1>2, OneHandler DEF HandlerOK, CreatePost, SetSurveySentToUser,
                            IncrementSurveyReceiptCount
  <2>2. PICK n, m :
          /\ posts' = posts \/ posts' = [posts EXCEPT ![q.user][q.survey] = n]
          /\ sent' = sent \/ sent' = [sent EXCEPT ![q.user][q.survey] = TRUE]
          /\ receipts' = receipts \/ receipts' = [receipts EXCEPT ![q.survey] = m]
    BY <1>2 DEF CreatePost, SetSurveySentToUser, IncrementSurveyReceiptCount,
                kv, counts
  <2>3. /\ posts \in [User -> [SurveyID -> Nat]]
        /\ sent \in [User -> [SurveyID -> BOOLEAN]]
        /\ receipts \in [SurveyID -> Nat]
    BY DEF SendInv, TypeOK
  <2> HIDE DEF q
  <2>4. \A u \in User :
          /\ [posts EXCEPT ![q.user][q.survey] = n][u][s] = posts[u][s]
          /\ [sent EXCEPT ![q.user][q.survey] = TRUE][u][s] = sent[u][s]
    BY <2>1, <2>3, OtherSurveyKept DEF q
  <2>5. receipts'[s] = receipts[s]
    BY <2>1, <2>2, <2>3 DEF q
  <2>6. \A u \in User : posts'[u][s] = posts[u][s] /\ sent'[u][s] = sent[u][s]
    BY <2>2, <2>4
  <2> QED  BY <2>5, <2>6 DEF DeliveriesKept
<1> QED
  BY <1>1, <1>2 DEF HandlerStep, AcquireLock, CheckSent, ReadCache, GetTeamsForUser,
        SetCache, ReleaseLock, CallFails, HandlerDies, kv, counts

LEMMA DrainStep ==
    ASSUME SendInv, Apart, [Next]_vars, NEW s \in past
    PROVE  Calls(s)' \subseteq Calls(s) /\ (Calls(s) = {} => DeliveriesKept(s))
<1>1. /\ s \in SurveyID /\ s \notin running
      /\ handler \in [Handler -> HandlerState]
  BY DEF SendInv, TypeOK, Apart
<1>2. ASSUME NEW h \in Handler, NEW u \in User, ConnectBegin(h, u)
      PROVE  Calls(s)' \subseteq Calls(s) /\ DeliveriesKept(s)
  <2>1. PICK t \in running : handler' = [handler EXCEPT ![h] = Called(u, t)]
    BY <1>2 DEF ConnectBegin
  <2>2. Called(u, t).survey # s
    BY <1>1, <2>1 DEF Called
  <2>3. Calls(s)' \subseteq Calls(s)
    BY <1>1, <2>1, <2>2 DEF Calls
  <2> QED  BY <1>2, <2>3 DEF ConnectBegin, DeliveriesKept, kv, counts
<1>3. ASSUME NEW h \in Handler, HandlerStep(h) \/ CallFails(h) \/ HandlerDies(h)
      PROVE  Calls(s)' \subseteq Calls(s) /\ (Calls(s) = {} => DeliveriesKept(s))
  <2>1. PICK r : Proceeds(r, h)
    BY <1>3, HandlerProceeds
  <2>2. handler[h].pc # "idle"
    BY <1>3, HandlerProceeds
  <2>3. Calls(s)' \subseteq Calls(s)
    BY <1>1, <2>1, <2>2 DEF Calls, Proceeds
  <2>4. Calls(s) = {} => handler[h].survey # s
    BY <2>2 DEF Calls
  <2> QED  BY <1>1, <1>3, <2>3, <2>4, OthersNotDelivered
<1>4. CASE \/ \E n \in Node : ClearStep(n)
           \/ \E u \in User : ChangeTeams(u)
           \/ SurveyStep \/ Tick \/ UNCHANGED vars
  <2>1. UNCHANGED <<handler, posts, sent, receipts>>
    BY <1>4 DEF ClearStep, ClearBegin, ClearRead, ClearDelete, ClearEnd, ChangeTeams,
                SurveyStep, Tick, vars, kv, counts
  <2> QED  BY <2>1 DEF Calls, DeliveriesKept
<1> QED  BY <1>2, <1>3, <1>4 DEF Next, Connect

\* After the end of a survey only the calls under way then may still deliver
\* it, and they only become fewer.
THEOREM EndedDeliveriesDrain == Spec => DeliveryDrains
<1>1. Init => Apart
  BY DEF Init, Apart, Timeline!TimelineInit
<1>2. Apart /\ [Next]_vars => Apart'
  BY ApartNext
<1>3. SendInv /\ Apart /\ [Next]_vars
        => [\A s \in past : /\ Calls(s)' \subseteq Calls(s)
                            /\ Calls(s) = {} => DeliveriesKept(s)]_vars
  BY DrainStep
<1> QED  BY <1>1, <1>2, <1>3, SendInvCorrect, PTL DEF Spec, DeliveryDrains

----------------------------------------------------------------------------
(* What a user gets.                                                       *)

\* Every post whose id was lost took a failed call or a dead handler.
OrphansPaid == \A u \in User, s \in SurveyID : orphans[u][s] <= spent.faults

LEMMA OrphansPaidNext == SendInv /\ OrphansPaid /\ [Next]_vars => OrphansPaid'
<1> SUFFICES ASSUME SendInv, OrphansPaid, [Next]_vars PROVE OrphansPaid'
  OBVIOUS
<1>0. /\ orphans \in [User -> [SurveyID -> Nat]] /\ spent.faults \in Nat
      /\ spent \in [moves : 0..MaxMoves, faults : 0..MaxFaults]
  <2>1. spent \in [moves : 0..MaxMoves, faults : 0..MaxFaults]
    BY DEF SendInv, TypeOK
  <2> QED  BY <2>1 DEF SendInv, TypeOK
<1>1. ASSUME NEW h \in Handler, CallFails(h) \/ HandlerDies(h) PROVE OrphansPaid'
  <2>1. spent'.faults = spent.faults + 1
    BY <1>0, <1>1 DEF CallFails, HandlerDies, Fault
  <2>2. ASSUME NEW u \in User, NEW s \in SurveyID
        PROVE  orphans'[u][s] \in {orphans[u][s], orphans[u][s] + 1}
    <3>1. Orphan(h)
      BY <1>1 DEF CallFails, HandlerDies
    <3>2. CASE handler[h].pc = "mark"
      <4>1. PICK v, t : /\ v = handler[h].user /\ t = handler[h].survey
                        /\ orphans' = [orphans EXCEPT ![v][t] = @ + 1]
        BY <3>1, <3>2 DEF Orphan
      <4>2. v \in User /\ t \in SurveyID
        BY <3>2, <4>1, OneHandler DEF HandlerOK
      <4>3. CASE u = v
        <5>1. orphans'[u] = [orphans[u] EXCEPT ![t] = @ + 1]
          BY <1>0, <4>1, <4>3
        <5> QED  BY <1>0, <5>1
      <4>4. CASE u # v
        BY <1>0, <4>1, <4>4
      <4> QED  BY <4>3, <4>4
    <3>3. CASE handler[h].pc # "mark"
      BY <3>1, <3>3 DEF Orphan
    <3> QED  BY <3>2, <3>3
  <2>3. ASSUME NEW u \in User, NEW s \in SurveyID PROVE orphans'[u][s] <= spent'.faults
    <3>1. orphans[u][s] \in Nat /\ orphans[u][s] <= spent.faults
      BY <1>0 DEF OrphansPaid
    <3> QED  BY <1>0, <2>1, <2>2, <3>1
  <2> QED  BY <2>3 DEF OrphansPaid
<1>2. CASE \E u \in User : ChangeTeams(u)
  BY <1>0, <1>2 DEF ChangeTeams, counts, OrphansPaid
<1>3. ASSUME UNCHANGED orphans, UNCHANGED spent \/ Fault PROVE OrphansPaid'
  <2>1. spent'.faults >= spent.faults /\ spent'.faults \in Nat
    BY <1>0, <1>3 DEF Fault
  <2> QED  BY <1>0, <1>3, <2>1 DEF OrphansPaid
<1>4. ASSUME NEW h \in Handler, HandlerStep(h)
      PROVE  UNCHANGED orphans /\ (UNCHANGED spent \/ Fault)
  BY <1>4 DEF HandlerStep, AcquireLock, CheckSent, ReadCache, GetTeamsForUser, SetCache,
              CreatePost, SetSurveySentToUser, IncrementSurveyReceiptCount, ReleaseLock,
              counts
<1>5. ASSUME NEW n \in Node, ClearStep(n) PROVE UNCHANGED <<orphans, spent>>
  BY <1>5 DEF ClearStep, ClearBegin, ClearRead, ClearDelete, ClearEnd, counts
<1>6. CASE (\E u \in User : Connect(u)) \/ SurveyStep \/ Tick \/ UNCHANGED vars
  BY <1>3, <1>6 DEF Connect, ConnectBegin, SurveyStep, Tick, vars, counts
<1> QED  BY <1>1, <1>2, <1>3, <1>4, <1>5, <1>6 DEF Next

\* A user gets a survey once, and once more at most for each call that failed or
\* handler that died, however many calls overlap and whoever clears locks.
THEOREM DuplicatesNeedFaults ==
    Spec => [](\A u \in User, s \in SurveyID : posts[u][s] <= 1 + spent.faults)
<1>1. Init => OrphansPaid
  BY DEF Init, OrphansPaid
<1>2. SendInv /\ OrphansPaid
        => \A u \in User, s \in SurveyID : posts[u][s] <= 1 + spent.faults
  <2> SUFFICES ASSUME SendInv, OrphansPaid, NEW u \in User, NEW s \in SurveyID
               PROVE  posts[u][s] <= 1 + spent.faults
    OBVIOUS
  <2>1. orphans[u][s] \in Nat /\ orphans[u][s] <= spent.faults /\ spent.faults \in Nat
    <3>1. spent \in [moves : 0..MaxMoves, faults : 0..MaxFaults]
      BY DEF SendInv, TypeOK
    <3> QED  BY <3>1 DEF SendInv, TypeOK, OrphansPaid
  <2>2. ~(sent[u][s] /\ Marking(u, s) # {})
    <3> SUFFICES ASSUME sent[u][s], NEW h \in Marking(u, s) PROVE FALSE
      OBVIOUS
    <3> QED  BY OneHandler DEF Marking, HandlerOK, Deciding
  <2>3. posts[u][s] = orphans[u][s] + (IF sent[u][s] THEN 1 ELSE 0)
                        + (IF Marking(u, s) # {} THEN 1 ELSE 0)
    BY DEF SendInv, PostsAccounted
  <2> QED  BY <2>1, <2>2, <2>3
<1> QED  BY <1>1, <1>2, OrphansPaidNext, SendInvCorrect, PTL DEF Spec

\* Once the KV store has the id of a survey's post, the user is never posted
\* that survey again, whatever fails or dies.
THEOREM RecordedIsFinal ==
    Spec => [][\A u \in User, s \in SurveyID :
                 sent[u][s] => sent'[u][s] /\ posts'[u][s] = posts[u][s]]_vars
<1> DEFINE Final == \A u \in User, s \in SurveyID :
                      sent[u][s] => sent'[u][s] /\ posts'[u][s] = posts[u][s]
<1>1. ASSUME SendInv, Delivers PROVE Final
  <2> SUFFICES ASSUME NEW u \in User, NEW s \in SurveyID, sent[u][s]
               PROVE  sent'[u][s] /\ posts'[u][s] = posts[u][s]
    OBVIOUS
  <2>0. /\ sent \in [User -> [SurveyID -> BOOLEAN]]
        /\ posts \in [User -> [SurveyID -> Nat]]
    BY <1>1 DEF SendInv, TypeOK
  <2>1. ASSUME NEW v \in User, NEW t \in SurveyID, Posted!Deliver(v, t)
        PROVE  sent'[u][s] /\ posts'[u][s] = posts[u][s]
    <3>1. sent' = sent /\ posts' = [posts EXCEPT ![v][t] = @ + 1] /\ ~sent[v][t]
      BY <2>1 DEF Posted!Deliver
    <3>2. v # u \/ t # s
      BY <3>1
    <3>3. posts'[u][s] = posts[u][s]
      <4>1. CASE v # u
        BY <2>0, <3>1, <4>1
      <4>2. CASE v = u
        <5>1. posts'[u] = [posts[u] EXCEPT ![t] = @ + 1]
          BY <2>0, <3>1, <4>2
        <5> QED  BY <2>0, <3>2, <4>2, <5>1
      <4> QED  BY <4>1, <4>2
    <3> QED  BY <3>1, <3>3
  <2>2. ASSUME NEW v \in User, NEW t \in SurveyID, Posted!Confirm(v, t)
        PROVE  sent'[u][s] /\ posts'[u][s] = posts[u][s]
    <3>1. posts' = posts /\ sent' = [sent EXCEPT ![v][t] = TRUE]
      BY <2>2 DEF Posted!Confirm
    <3>2. sent'[u][s]
      <4>1. CASE v # u
        BY <2>0, <3>1, <4>1, Zenon
      <4>2. CASE v = u
        <5>1. sent'[u] = [sent[u] EXCEPT ![t] = TRUE]
          BY <2>0, <3>1, <4>2, Zenon
        <5> QED  BY <2>0, <5>1
      <4> QED  BY <4>1, <4>2
    <3> QED  BY <3>1, <3>2
  <2>3. CASE UNCHANGED <<posts, sent>>
    BY <2>3
  <2> QED
    BY <1>1, <2>1, <2>2, <2>3 DEF Delivers, Posted!DeliveryNext, Posted!deliveryVars,
                                  Posted!Announce, Posted!Lose
<1>2. SendInv /\ HandlersBegun /\ [Next]_vars => Final
  BY <1>1, DeliveryStep DEF DeliverInv
<1>3. Init => HandlersBegun
  BY DEF Init, HandlersBegun, HandlerIdle
<1>4. SendInv /\ HandlersBegun /\ [Next]_vars => HandlersBegun'
  BY BegunNext
<1> QED  BY <1>2, <1>3, <1>4, SendInvCorrect, PTL DEF Spec

=============================================================================
