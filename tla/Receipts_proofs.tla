--------------------------- MODULE Receipts_proofs ---------------------------
(***************************************************************************)
(* Proof that SendSurvey's receipt_count lags behind the users marked as   *)
(* having received a survey by running handlers and failed calls only, for *)
(* any numbers of users, nodes and concurrent calls.                       *)
(***************************************************************************)
EXTENDS SendSurvey_proofs, FiniteSetTheorems

----------------------------------------------------------------------------
Marked(s) == {u \in User : sent[u][s]}

Counting(s) == {h \in Handler : /\ handler[h].pc = "count"
                                /\ handler[h].survey = s}

\* n receipts are counted, m users marked, c handlers about to count, and up
\* to f increments are lost.
Balance(n, m, c, f) == n + c <= m /\ m <= n + c + f

Accounts(s) ==
    /\ IsFiniteSet(Marked(s))
    /\ IsFiniteSet(Counting(s))
    /\ Balance(receipts[s], Cardinality(Marked(s)), Cardinality(Counting(s)),
               spent.faults)

ReceiptInv == \A s \in SurveyID : Accounts(s)

LEMMA Sizes ==
    ASSUME SendInv, ReceiptInv, NEW s \in SurveyID
    PROVE  /\ receipts[s] \in Nat /\ spent.faults \in Nat
           /\ Cardinality(Marked(s)) \in Nat /\ Cardinality(Counting(s)) \in Nat
<1>1. receipts[s] \in Nat
  BY DEF SendInv, TypeOK
<1>2. spent.faults \in Nat
  <2>1. spent \in [moves : 0..MaxMoves, faults : 0..MaxFaults]
    BY DEF SendInv, TypeOK
  <2> QED  BY <2>1
<1> QED  BY <1>1, <1>2, FS_CardinalityType DEF ReceiptInv, Accounts

LEMMA FaultCounts ==
    ASSUME SendInv, Fault
    PROVE  spent'.faults = spent.faults + 1
<1>1. spent \in [moves : 0..MaxMoves, faults : 0..MaxFaults]
  BY DEF SendInv, TypeOK
<1> QED  BY <1>1 DEF Fault

LEMMA ReceiptsInit == Init => ReceiptInv
<1> SUFFICES ASSUME Init, NEW s \in SurveyID PROVE Accounts(s)
  BY DEF ReceiptInv
<1>1. Marked(s) = {} /\ Counting(s) = {}
  BY DEF Init, Marked, Counting, HandlerIdle
<1>2. receipts[s] = 0 /\ spent.faults = 0
  BY DEF Init
<1> QED  BY <1>1, <1>2, FS_EmptySet DEF Accounts, Balance

\* Nobody is marked and nobody starts or ends counting.
LEMMA ReceiptsKept ==
    ASSUME SendInv, ReceiptInv, UNCHANGED <<sent, receipts>>,
           \A s \in SurveyID : Counting(s)' = Counting(s),
           UNCHANGED spent.faults \/ Fault
    PROVE  ReceiptInv'
<1> SUFFICES ASSUME NEW s \in SurveyID PROVE Accounts(s)'
  BY DEF ReceiptInv
<1>1. Marked(s)' = Marked(s) /\ Counting(s)' = Counting(s)
  BY DEF Marked
<1>2. Accounts(s)
  BY DEF ReceiptInv
<1>3. spent'.faults = spent.faults \/ spent'.faults = spent.faults + 1
  BY FaultCounts
<1>4. Balance(receipts[s], Cardinality(Marked(s)), Cardinality(Counting(s)),
              spent'.faults)
  BY <1>2, <1>3, Sizes DEF Accounts, Balance
<1> QED  BY <1>1, <1>2, <1>4 DEF Accounts

LEMMA CountingKept ==
    ASSUME SendInv, NEW h \in Handler, NEW r,
           handler' = [handler EXCEPT ![h] = r],
           handler[h].pc # "count", r.pc # "count", NEW s
    PROVE  Counting(s)' = Counting(s)
<1>1. handler \in [Handler -> HandlerState]
  BY DEF SendInv, TypeOK
<1>2. \A g \in Handler : /\ g = h => handler'[g] = r
                         /\ g # h => handler'[g] = handler[g]
  BY <1>1
<1> QED  BY <1>2 DEF Counting

----------------------------------------------------------------------------
\* A handler outside "count" makes a step that does not lead there.
LEMMA QuietReceipts ==
    ASSUME SendInv, ReceiptInv, NEW h \in Handler,
           \/ (\E u \in User : ConnectBegin(h, u)) \/ AcquireLock(h) \/ CheckSent(h)
           \/ ReadCache(h) \/ GetTeamsForUser(h) \/ SetCache(h) \/ CreatePost(h)
           \/ ReleaseLock(h)
    PROVE  ReceiptInv'
<1> DEFINE q == handler[h]
<1>1. UNCHANGED <<sent, receipts>> /\ (UNCHANGED spent \/ Fault)
  BY DEF ConnectBegin, AcquireLock, CheckSent, ReadCache, GetTeamsForUser, SetCache,
         CreatePost, ReleaseLock, kv, counts
<1>2. q \in HandlerState /\ q.pc # "count"
  BY OneHandler DEF ConnectBegin, AcquireLock, CheckSent, ReadCache, GetTeamsForUser,
                    SetCache, CreatePost, ReleaseLock
<1>3. PICK r : handler' = [handler EXCEPT ![h] = r] /\ r.pc # "count"
  <2>1. \A pc \in PCs : At(q, pc).pc = pc
    BY <1>2, AtContinues DEF Continues
  <2>2. \A s, b : AfterFilter(s, b) \in {"send", "release"}
    BY DEF AfterFilter
  <2>3. CASE \E u \in User : ConnectBegin(h, u)
    BY <2>3 DEF ConnectBegin, Called
  <2>4. CASE AcquireLock(h)
    <3>1. Locked(q).pc = "sent"
      BY <1>2, HandlerRows DEF HandlerRow
    <3> QED  BY <2>4, <3>1, IdleRow DEF AcquireLock
  <2>5. CASE GetTeamsForUser(h)
    <3>1. Informed(q).pc = "setcache"
      BY <1>2, HandlerRows DEF HandlerRow
    <3> QED  BY <2>5, <3>1 DEF GetTeamsForUser
  <2>6. CASE ReleaseLock(h)
    BY <2>6, IdleRow DEF ReleaseLock
  <2>7. CASE CheckSent(h) \/ ReadCache(h) \/ SetCache(h) \/ CreatePost(h)
    <3>1. PICK pc \in {"release", "send", "cache", "teams", "mark"} :
            handler' = [handler EXCEPT ![h] = At(q, pc)]
      <4>1. CASE CheckSent(h)
        <5> DEFINE pc == IF AlreadySent(q.user, q.survey) THEN "release"
                         ELSE IF TeamFilterType[q.survey] = "everyone" THEN "send"
                         ELSE IF q.survey \in NoTeams THEN AfterFilter(q.survey, FALSE)
                         ELSE "cache"
        <5>1. handler' = [handler EXCEPT ![h] = At(q, pc)]
          BY <4>1 DEF CheckSent, Goto
        <5>2. pc \in {"release", "send", "cache"}
          BY <2>2
        <5> QED  BY <5>1, <5>2
      <4>2. CASE ReadCache(h)
        BY <2>2, <4>2 DEF ReadCache, Goto
      <4>3. CASE SetCache(h)
        BY <2>2, <4>3 DEF SetCache, Goto
      <4>4. CASE CreatePost(h)
        BY <4>4 DEF CreatePost, Goto
      <4> QED  BY <2>7, <4>1, <4>2, <4>3, <4>4
    <3>2. At(q, pc).pc = pc
      BY <2>1, <3>1 DEF PCs
    <3> QED  BY <3>1, <3>2
  <2> QED  BY <2>3, <2>4, <2>5, <2>6, <2>7
<1>4. \A s \in SurveyID : Counting(s)' = Counting(s)
  BY <1>2, <1>3, CountingKept
<1> QED  BY <1>1, <1>4, ReceiptsKept

\* A user is marked, once, and the handler is about to count.
LEMMA MarkReceipts ==
    ASSUME SendInv, ReceiptInv, NEW h \in Handler, SetSurveySentToUser(h)
    PROVE  ReceiptInv'
<1> DEFINE q == handler[h]
<1>1. /\ q \in HandlerState /\ q.pc = "mark"
      /\ q.user \in User /\ q.survey \in SurveyID /\ ~sent[q.user][q.survey]
  BY OneHandler DEF SetSurveySentToUser, HandlerOK, Deciding
<1>2. /\ sent' = [sent EXCEPT ![q.user][q.survey] = TRUE]
      /\ handler' = [handler EXCEPT ![h] = At(q, "count")]
      /\ UNCHANGED <<receipts, spent>>
  BY DEF SetSurveySentToUser, Goto, counts
<1>3. Continues(At(q, "count"), q, "count")
  BY <1>1, AtContinues DEF PCs
<1>4. sent \in [User -> [SurveyID -> BOOLEAN]] /\ handler \in [Handler -> HandlerState]
  BY DEF SendInv, TypeOK
<1> SUFFICES ASSUME NEW s \in SurveyID PROVE Accounts(s)'
  BY DEF ReceiptInv
<1>5. Accounts(s)
  BY DEF ReceiptInv
<1>6. CASE s # q.survey
  <2>1. Marked(s)' = Marked(s)
    BY <1>1, <1>2, <1>4, <1>6 DEF Marked
  <2>2. Counting(s)' = Counting(s)
    <3>1. \A g \in Handler : g # h => handler'[g] = handler[g]
      BY <1>2, <1>4
    <3>2. handler'[h].survey = q.survey
      BY <1>2, <1>3, <1>4 DEF Continues
    <3> QED  BY <1>6, <3>1, <3>2 DEF Counting
  <2> QED  BY <1>2, <1>5, <2>1, <2>2 DEF Accounts
<1>7. CASE s = q.survey
  <2>1. Marked(s)' = Marked(s) \union {q.user} /\ q.user \notin Marked(s)
    <3>1. \A u \in User : sent'[u][s] <=> (u = q.user \/ sent[u][s])
      BY <1>1, <1>2, <1>4, <1>7
    <3> QED  BY <1>1, <1>7, <3>1 DEF Marked
  <2>2. Counting(s)' = Counting(s) \union {h} /\ h \notin Counting(s)
    <3>1. \A g \in Handler : g # h => handler'[g] = handler[g]
      BY <1>2, <1>4
    <3>2. handler'[h].survey = s /\ handler'[h].pc = "count"
      BY <1>2, <1>3, <1>4, <1>7 DEF Continues
    <3> QED  BY <1>1, <3>1, <3>2 DEF Counting
  <2>3. /\ IsFiniteSet(Marked(s))' /\ IsFiniteSet(Counting(s))'
        /\ Cardinality(Marked(s))' = Cardinality(Marked(s)) + 1
        /\ Cardinality(Counting(s))' = Cardinality(Counting(s)) + 1
    BY <1>5, <2>1, <2>2, FS_AddElement DEF Accounts
  <2>4. Balance(receipts[s], Cardinality(Marked(s)) + 1,
                Cardinality(Counting(s)) + 1, spent.faults)
    BY <1>5, Sizes DEF Accounts, Balance
  <2> QED  BY <1>2, <2>3, <2>4 DEF Accounts
<1> QED  BY <1>6, <1>7

\* A handler stops counting: either the receipt is counted or a call failed.
LEMMA CountReceipts ==
    ASSUME SendInv, ReceiptInv, NEW h \in Handler, handler[h].pc = "count",
           IncrementSurveyReceiptCount(h) \/ CallFails(h) \/ HandlerDies(h)
    PROVE  ReceiptInv'
<1> DEFINE q == handler[h]
<1>1. q \in HandlerState /\ q.survey \in SurveyID
  BY OneHandler DEF HandlerOK
<1>2. UNCHANGED sent
  BY DEF IncrementSurveyReceiptCount, CallFails, HandlerDies, kv
<1>3. PICK r : handler' = [handler EXCEPT ![h] = r] /\ r.pc # "count"
  <2>1. At(q, "release").pc = "release"
    BY <1>1, AtContinues DEF Continues, PCs
  <2> QED  BY <2>1, IdleRow DEF IncrementSurveyReceiptCount, CallFails, HandlerDies, Goto
<1>4. handler \in [Handler -> HandlerState] /\ receipts \in [SurveyID -> Nat]
  BY DEF SendInv, TypeOK
<1>5. \/ receipts' = [receipts EXCEPT ![q.survey] = receipts[q.survey] + 1]
           /\ UNCHANGED spent
      \/ UNCHANGED receipts /\ spent'.faults = spent.faults + 1
  BY FaultCounts DEF IncrementSurveyReceiptCount, CallFails, HandlerDies
<1> SUFFICES ASSUME NEW s \in SurveyID PROVE Accounts(s)'
  BY DEF ReceiptInv
<1>6. Accounts(s) /\ Marked(s)' = Marked(s)
  BY <1>2 DEF ReceiptInv, Marked
<1>7. \A g \in Handler : /\ g # h => handler'[g] = handler[g]
                         /\ g = h => handler'[g] = r
  BY <1>3, <1>4
<1>8. CASE s # q.survey
  <2>1. Counting(s)' = Counting(s)
    BY <1>3, <1>7, <1>8 DEF Counting
  <2>2. receipts'[s] = receipts[s]
    BY <1>4, <1>5, <1>8
  <2>3. Balance(receipts[s], Cardinality(Marked(s)), Cardinality(Counting(s)),
                spent'.faults)
    BY <1>5, <1>6, Sizes DEF Accounts, Balance
  <2> QED  BY <1>6, <2>1, <2>2, <2>3 DEF Accounts
<1>9. CASE s = q.survey
  <2>1. Counting(s)' = Counting(s) \ {h} /\ h \in Counting(s)
    BY <1>3, <1>7, <1>9 DEF Counting
  <2>2. /\ IsFiniteSet(Counting(s))'
        /\ Cardinality(Counting(s))' = Cardinality(Counting(s)) - 1
    BY <1>6, <2>1, FS_RemoveElement DEF Accounts
  <2>3. \/ receipts'[s] = receipts[s] + 1 /\ spent'.faults = spent.faults
        \/ receipts'[s] = receipts[s] /\ spent'.faults = spent.faults + 1
    BY <1>4, <1>5, <1>9
  <2>4. Balance(receipts'[s], Cardinality(Marked(s)), Cardinality(Counting(s)) - 1,
                spent'.faults)
    BY <1>6, <2>3, Sizes DEF Accounts, Balance
  <2> QED  BY <1>6, <2>2, <2>4 DEF Accounts
<1> QED  BY <1>8, <1>9

LEMMA FailReceipts ==
    ASSUME SendInv, ReceiptInv, NEW h \in Handler, CallFails(h) \/ HandlerDies(h),
           handler[h].pc # "count"
    PROVE  ReceiptInv'
<1>1. UNCHANGED <<sent, receipts>> /\ Fault
  BY DEF CallFails, HandlerDies, kv
<1>2. PICK r : handler' = [handler EXCEPT ![h] = r] /\ r.pc # "count"
  <2>1. At(handler[h], "release").pc = "release"
    BY OneHandler, AtContinues DEF Continues, PCs
  <2> QED  BY <2>1, IdleRow DEF CallFails, HandlerDies, Goto
<1>3. \A s \in SurveyID : Counting(s)' = Counting(s)
  BY <1>2, CountingKept
<1> QED  BY <1>1, <1>3, ReceiptsKept

LEMMA OtherReceipts ==
    ASSUME SendInv, ReceiptInv,
           \/ SurveyStep \/ Tick \/ (\E u \in User : ChangeTeams(u))
           \/ (\E n \in Node : ClearStep(n)) \/ UNCHANGED vars
    PROVE  ReceiptInv'
<1>1. UNCHANGED <<sent, receipts, handler>>
  BY DEF SurveyStep, Tick, ChangeTeams, ClearStep, ClearBegin, ClearRead,
         ClearDelete, ClearEnd, vars, kv, counts
<1>2. UNCHANGED spent.faults
  <2>1. UNCHANGED spent \/ spent' = [spent EXCEPT !.moves = spent.moves + 1]
    BY DEF SurveyStep, Tick, ChangeTeams, ClearStep, ClearBegin, ClearRead,
           ClearDelete, ClearEnd, vars
  <2>2. spent \in [moves : 0..MaxMoves, faults : 0..MaxFaults]
    BY DEF SendInv, TypeOK
  <2> QED  BY <2>1, <2>2
<1>3. \A s \in SurveyID : Counting(s)' = Counting(s)
  BY <1>1 DEF Counting
<1> QED  BY <1>1, <1>2, <1>3, ReceiptsKept

LEMMA ReceiptsStep ==
    ASSUME SendInv, ReceiptInv, [Next]_vars
    PROVE  ReceiptInv'
<1>1. ASSUME NEW u \in User, Connect(u) PROVE ReceiptInv'
  BY <1>1, QuietReceipts DEF Connect
<1>2. ASSUME NEW h \in Handler, HandlerStep(h) PROVE ReceiptInv'
  <2>1. CASE IncrementSurveyReceiptCount(h)
    BY <2>1, CountReceipts DEF IncrementSurveyReceiptCount
  <2> QED  BY <1>2, <2>1, QuietReceipts, MarkReceipts DEF HandlerStep
<1>3. ASSUME NEW h \in Handler, CallFails(h) \/ HandlerDies(h) PROVE ReceiptInv'
  BY <1>3, CountReceipts, FailReceipts
<1>4. CASE \/ SurveyStep \/ Tick \/ (\E u \in User : ChangeTeams(u))
           \/ (\E n \in Node : ClearStep(n)) \/ UNCHANGED vars
  BY <1>4, OtherReceipts
<1> QED  BY <1>1, <1>2, <1>3, <1>4 DEF Next

----------------------------------------------------------------------------
\* However calls of many users overlap and fail, the receipts counted and about
\* to be counted are at most the users marked, and short of them by no more
\* than one for each failure.
THEOREM EveryReceiptIsAccounted == Spec => []ReceiptsAccounted
<1>1. SendInv /\ ReceiptInv /\ [Next]_vars => ReceiptInv'
  BY ReceiptsStep
<1>2. ReceiptInv => ReceiptsAccounted
  BY DEF ReceiptInv, Accounts, Balance, Marked, Counting, ReceiptsAccounted
<1> QED  BY ReceiptsInit, <1>1, <1>2, SendInvCorrect, PTL DEF Spec

=============================================================================
