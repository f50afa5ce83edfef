----------------------- MODULE SubmitResponse_proofs -----------------------
(***************************************************************************)
(* Proofs about SubmitResponse, for any numbers of users, surveys and      *)
(* concurrent requests: that a complete response is final, that every      *)
(* first response is counted once, how often a user is thanked, and what   *)
(* holds besides when the requests of a user do not overlap: above all     *)
(* that a Submit answered with success is stored.                          *)
(***************************************************************************)
EXTENDS SubmitResponse, RatingGroups_proofs, FiniteSetTheorems, TLAPS

USE SubmitAssumption

----------------------------------------------------------------------------
\* Fields of the records built for a request.

LEMMA RequestFields ==
    ASSUME NEW q \in Request, NEW pc, NEW x
    PROVE  /\ At(q, pc) = [pc |-> pc, user |-> q.user, survey |-> q.survey,
                           type |-> q.type, rating |-> q.rating,
                           old |-> q.old, copy |-> q.copy]
           /\ WithOld(q, pc, x) = [pc |-> pc, user |-> q.user, survey |-> q.survey,
                                   type |-> q.type, rating |-> q.rating,
                                   old |-> x, copy |-> q.copy]
           /\ WithCopy(q, pc, x) = [pc |-> pc, user |-> q.user, survey |-> q.survey,
                                    type |-> q.type, rating |-> q.rating,
                                    old |-> q.old, copy |-> x]
<1>1. q = [pc |-> q.pc, user |-> q.user, survey |-> q.survey, type |-> q.type,
           rating |-> q.rating, old |-> q.old, copy |-> q.copy]
  BY DEF Request
<1>2. At(q, pc) = [pc |-> pc, user |-> q.user, survey |-> q.survey,
                   type |-> q.type, rating |-> q.rating,
                   old |-> q.old, copy |-> q.copy]
  BY <1>1 DEF At
<1>3. WithOld(q, pc, x) = [pc |-> pc, user |-> q.user, survey |-> q.survey,
                           type |-> q.type, rating |-> q.rating,
                           old |-> x, copy |-> q.copy]
  BY <1>2 DEF WithOld
<1>4. WithCopy(q, pc, x) = [pc |-> pc, user |-> q.user, survey |-> q.survey,
                            type |-> q.type, rating |-> q.rating,
                            old |-> q.old, copy |-> x]
  BY <1>2 DEF WithCopy
<1> QED  BY <1>2, <1>3, <1>4

\* The next request r differs from q in pc and in what it read.
Continues(r, q, pc) ==
    /\ r.pc = pc
    /\ r.user = q.user /\ r.survey = q.survey
    /\ r.type = q.type /\ r.rating = q.rating

LEMMA Continued ==
    ASSUME NEW q \in Request, NEW pc, NEW x
    PROVE  /\ Continues(At(q, pc), q, pc) /\ At(q, pc).copy = q.copy
           /\ Continues(WithOld(q, pc, x), q, pc)
           /\ Continues(WithCopy(q, pc, x), q, pc) /\ WithCopy(q, pc, x).copy = x
BY RequestFields DEF Continues

PCs == {"idle", "recheck", "read", "insert", "count", "update", "getpost",
        "putpost", "groups", "ack", "refresh", "check", "expire",
        "putended", "ok", "error", "panic"}

LEMMA AtType == ASSUME NEW q \in Request, NEW pc \in PCs PROVE At(q, pc) \in Request
BY RequestFields DEF Request, PCs

LEMMA WithOldType ==
    ASSUME NEW q \in Request, NEW pc \in PCs, NEW x \in AtMostOne(Response)
    PROVE  WithOld(q, pc, x) \in Request
BY RequestFields DEF Request, PCs

LEMMA WithCopyType ==
    ASSUME NEW q \in Request, NEW pc \in PCs, NEW x \in Post
    PROVE  WithCopy(q, pc, x) \in Request
BY RequestFields DEF Request, PCs

LEMMA NewPostType == NewPost \in Post
BY DEF NewPost, Post, AtMostOne

LEMMA IdleType == Idle \in Request
BY NewPostType DEF Idle, Sent, Request, AtMostOne

LEMMA SentType ==
    ASSUME NEW pc \in PCs, NEW u \in User, NEW s \in SurveyID,
           NEW type \in {"partial", "complete", "refresh"},
           NEW r \in AtMostOne(Rating)
    PROVE  Sent(pc, u, s, type, r) \in Request
BY NewPostType DEF Sent, Request, PCs, AtMostOne

\* Every column changes by an integer.
LEMMA DeltaType ==
    ASSUME NEW old, NEW new PROVE GroupDelta(old, new) \in [Groups -> Int]
<1>1. \A r : getRatingGroupFactors(r) \in [Groups -> {0, 1}]
  BY DEF getRatingGroupFactors
<1>2. \A a, b \in {0, 1} : CoalesceInt(-a, b) \in Int
  BY DEF CoalesceInt
<1>3. Unchanged \in [Groups -> Int]
  BY DEF Unchanged
<1>4. getRatingGroupFactors(new) \in [Groups -> Int]
  BY <1>1
<1>5. \A o : [g \in Groups |-> CoalesceInt(-getRatingGroupFactors(o)[g],
                                           getRatingGroupFactors(new)[g])]
               \in [Groups -> Int]
  BY <1>1, <1>2
<1> QED  BY <1>3, <1>4, <1>5 DEF GroupDelta

----------------------------------------------------------------------------
\* The inductive invariant.

Saving == {"recheck", "read", "insert", "count", "update", "getpost",
           "putpost", "groups", "ack"}

\* What a request knows, of the response rows rw, the surveys begun and those
\* over: whom and what it is about, what it carries, and what it has achieved.
RequestOK(q, rw, begun, over) ==
    /\ q.pc # "idle" => q.user \in User /\ q.survey \in SurveyID \cap begun
    /\ q.pc \in Saving => /\ q.type \in {"partial", "complete"}
                          /\ \E r \in Rating : q.rating = {r}
    /\ q.pc \in {"refresh", "check"} => q.type = "refresh"
    /\ q.pc = "update" => rw[q.user][q.survey] # {}
    /\ q.pc \in {"expire", "putended"} /\ q.type = "complete" => q.survey \in over
    /\ q.pc \in Writing /\ q.type = "complete" => Completed(rw[q.user][q.survey])
    /\ q.pc = "ok" /\ q.type = "complete"
         => Completed(rw[q.user][q.survey]) \/ q.survey \in over
    /\ q.pc \in {"putpost", "check", "putended"} /\ q.copy.status = "submitted"
         => Completed(rw[q.user][q.survey])

RequestsHold ==
    \A h \in Handler : RequestOK(request[h], row, running \union past, past)

SubmitInv == TypeOK /\ RequestsHold /\ SubmittedIsRecorded

\* What no step takes back.
Lasting ==
    /\ running \union past \subseteq running' \union past'
    /\ past \subseteq past'
    /\ \A u \in User, s \in SurveyID :
         /\ Completed(row[u][s]) => row'[u][s] = row[u][s]
         /\ row[u][s] # {} => row'[u][s] # {}

\* What a request knows stays true.
LEMMA RequestKept ==
    ASSUME Lasting, NEW q, RequestOK(q, row, running \union past, past)
    PROVE  RequestOK(q, row', running' \union past', past')
<1>1. q.pc # "idle" /\ Completed(row[q.user][q.survey])
        => Completed(row'[q.user][q.survey])
  BY DEF Lasting, RequestOK
<1>2. running \union past \subseteq running' \union past' /\ past \subseteq past'
  BY DEF Lasting
<1>3. q.pc = "update" => row'[q.user][q.survey] # {}
  BY DEF Lasting, RequestOK
<1> QED  BY <1>1, <1>2, <1>3 DEF RequestOK, Writing

LEMMA RequestsKept ==
    ASSUME Lasting, RequestsHold, NEW h \in Handler, NEW q,
           DOMAIN request = Handler,
           request' = [request EXCEPT ![h] = q],
           RequestOK(q, row', running' \union past', past')
    PROVE  RequestsHold'
<1> SUFFICES ASSUME NEW g \in Handler
             PROVE  RequestOK(request'[g], row', running' \union past', past')
  BY DEF RequestsHold
<1>1. CASE g = h
  BY <1>1
<1>2. CASE g # h
  BY <1>2, RequestKept DEF RequestsHold
<1> QED  BY <1>1, <1>2

LEMMA LastingIfUnchanged ==
    ASSUME UNCHANGED <<running, past, row>> PROVE Lasting
BY DEF Lasting

\* A post that keeps its props, while complete responses stay, is fine.
LEMMA PostsKept ==
    ASSUME Lasting, SubmittedIsRecorded, post' = post
    PROVE  SubmittedIsRecorded'
BY DEF Lasting, SubmittedIsRecorded, Completed

----------------------------------------------------------------------------
LEMMA InitSubmitInv == Init => SubmitInv
<1> SUFFICES ASSUME Init PROVE SubmitInv
  OBVIOUS
<1>1. TypeOK
  <2>1. Unchanged \in [Groups -> Int]
    BY DEF Unchanged
  <2>2. {} \in AtMostOne(Response)
    BY DEF AtMostOne
  <2> QED  BY <2>1, <2>2, IdleType, NewPostType
        DEF Init, TypeOK, Timeline!TimelineInit
<1>2. RequestsHold
  BY DEF Init, RequestsHold, RequestOK, Idle, Sent, Saving, Writing
<1>3. SubmittedIsRecorded
  BY DEF Init, SubmittedIsRecorded, NewPost
<1> QED  BY <1>1, <1>2, <1>3 DEF SubmitInv

\* Steps that only move one request on.
LEMMA RequestOnly ==
    ASSUME SubmitInv, NEW h \in Handler, NEW q \in Request,
           request' = [request EXCEPT ![h] = q],
           UNCHANGED <<surveys, row, counters, posted>>,
           spent' \in [submits : 0..MaxSubmits, faults : 0..MaxFaults],
           RequestOK(q, row, running \union past, past)
    PROVE  SubmitInv'
<1>1. Lasting
  BY LastingIfUnchanged DEF surveys
<1>2. TypeOK'
  BY DEF SubmitInv, TypeOK, surveys, counters, posted
<1>3. RequestsHold'
  BY <1>1, RequestsKept DEF SubmitInv, TypeOK, surveys
<1>4. SubmittedIsRecorded'
  BY <1>1, PostsKept DEF SubmitInv, posted
<1> QED  BY <1>2, <1>3, <1>4 DEF SubmitInv

\* The invariant's parts for one request.
LEMMA OneRequest ==
    ASSUME SubmitInv, NEW h \in Handler
    PROVE  /\ request[h] \in Request
           /\ RequestOK(request[h], row, running \union past, past)
           /\ spent \in [submits : 0..MaxSubmits, faults : 0..MaxFaults]
           /\ request[h].pc # "idle" =>
                /\ post[request[h].user][request[h].survey] \in Post
                /\ row[request[h].user][request[h].survey] \in AtMostOne(Response)
                /\ post[request[h].user][request[h].survey].status = "submitted"
                     => Completed(row[request[h].user][request[h].survey])
<1> DEFINE q == request[h]
<1>1. q \in Request
  BY DEF SubmitInv, TypeOK
<1>2. RequestOK(q, row, running \union past, past)
  BY DEF SubmitInv, RequestsHold
<1>3. spent \in [submits : 0..MaxSubmits, faults : 0..MaxFaults]
  BY DEF SubmitInv, TypeOK
<1>4. q.pc # "idle" => q.user \in User /\ q.survey \in SurveyID
  BY <1>2 DEF RequestOK
<1> HIDE DEF q
<1>5. q.pc # "idle" => /\ post[q.user][q.survey] \in Post
                       /\ row[q.user][q.survey] \in AtMostOne(Response)
  BY <1>4 DEF SubmitInv, TypeOK
<1>6. q.pc # "idle" /\ post[q.user][q.survey].status = "submitted"
        => Completed(row[q.user][q.survey])
  BY <1>4 DEF SubmitInv, SubmittedIsRecorded
<1> QED  BY <1>1, <1>2, <1>3, <1>5, <1>6 DEF q

\* Two bounded counters.
LEMMA SpentMore ==
    ASSUME spent \in [submits : 0..MaxSubmits, faults : 0..MaxFaults]
    PROVE  /\ spent.submits < MaxSubmits /\ spent' = [spent EXCEPT !.submits = @ + 1]
                => spent' \in [submits : 0..MaxSubmits, faults : 0..MaxFaults]
           /\ Fault => spent' \in [submits : 0..MaxSubmits, faults : 0..MaxFaults]
BY DEF Fault

LEMMA BeginSteps ==
    ASSUME SubmitInv, NEW h \in Handler, NEW u \in User, NEW s \in SurveyID,
           SubmitBegin(h, u, s) \/ RefreshBegin(h, u, s)
    PROVE  SubmitInv'
<1>1. s \in running \union past
  BY DEF SubmitBegin, RefreshBegin, ClientMay
<1>2. CASE SubmitBegin(h, u, s)
  <2>1. PICK type \in {"partial", "complete"}, r \in Rating :
          request' = [request EXCEPT ![h] =
              Sent(IF s \in running THEN "recheck" ELSE "expire", u, s, type, {r})]
    BY <1>2 DEF SubmitBegin
  <2> DEFINE q == Sent(IF s \in running THEN "recheck" ELSE "expire", u, s, type, {r})
  <2>2. q \in Request
    BY SentType DEF PCs, AtMostOne
  <2>3. RequestOK(q, row, running \union past, past)
    BY <1>1 DEF Sent, RequestOK, Saving, Writing
  <2>4. spent' \in [submits : 0..MaxSubmits, faults : 0..MaxFaults]
    BY <1>2, SpentMore DEF SubmitBegin, SubmitInv, TypeOK
  <2> HIDE DEF q
  <2> QED  BY <1>2, <2>1, <2>2, <2>3, <2>4, RequestOnly DEF SubmitBegin, q
<1>3. CASE RefreshBegin(h, u, s)
  <2> DEFINE q == Sent("refresh", u, s, "refresh", {})
  <2>1. q \in Request
    BY SentType DEF PCs, AtMostOne
  <2>2. RequestOK(q, row, running \union past, past)
    BY <1>1, NewPostType DEF Sent, RequestOK, Saving, Writing, NewPost
  <2> HIDE DEF q
  <2> QED  BY <1>3, <2>1, <2>2, RequestOnly, OneRequest DEF RefreshBegin, q
<1> QED  BY <1>2, <1>3

\* Steps of a request that read the database or a post, answer, or fail.
LEMMA ReadingSteps ==
    ASSUME SubmitInv, NEW h \in Handler,
           \/ Recheck(h) \/ ReadResponse(h) \/ GetPost(h) \/ RefreshGetPost(h)
           \/ RefreshCheckSurvey(h) \/ ExpireGetPost(h) \/ Answer(h) \/ CallFails(h)
    PROVE  SubmitInv'
<1> DEFINE q == request[h]
           OK(r) == r \in Request /\ RequestOK(r, row, running \union past, past)
<1>1. /\ OK(q)
      /\ spent \in [submits : 0..MaxSubmits, faults : 0..MaxFaults]
      /\ q.pc # "idle" =>
           /\ post[q.user][q.survey] \in Post
           /\ row[q.user][q.survey] \in AtMostOne(Response)
           /\ post[q.user][q.survey].status = "submitted"
                => Completed(row[q.user][q.survey])
  BY OneRequest
<1>2. ASSUME NEW r, OK(r), request' = [request EXCEPT ![h] = r],
             UNCHANGED <<surveys, row, counters, posted>>,
             UNCHANGED spent \/ Fault
      PROVE  SubmitInv'
  <2>1. spent' \in [submits : 0..MaxSubmits, faults : 0..MaxFaults]
    BY <1>1, <1>2, SpentMore
  <2> QED  BY <2>1, <1>2, RequestOnly
<1>3. CASE Recheck(h)
  <2> DEFINE pc == IF running = {} THEN "panic"
                   ELSE IF q.survey \in running THEN "read" ELSE "error"
  <2>1. At(q, pc) \in Request
    BY <1>1, AtType DEF PCs
  <2>2. Continues(At(q, pc), q, pc)
    BY <1>1, Continued
  <2>3. q.pc = "recheck" /\ pc \in {"panic", "read", "error"}
    BY <1>3 DEF Recheck
  <2> HIDE DEF q, pc
  <2>4. RequestOK(At(q, pc), row, running \union past, past)
    BY <1>1, <2>2, <2>3 DEF Continues, RequestOK, Saving, Writing
  <2>5. OK(At(q, pc))
    BY <2>1, <2>4
  <2> HIDE DEF OK
  <2> QED  BY <2>5, <1>2, <1>3 DEF Recheck, Goto, q, pc
<1>4. CASE ReadResponse(h)
  <2> DEFINE old == row[q.user][q.survey]
             pc == IF old = {} THEN "insert"
                   ELSE IF Completed(old) THEN "ok" ELSE "update"
  <2>1. q.pc = "read" /\ pc \in PCs
    BY <1>4 DEF ReadResponse, PCs
  <2>2. WithOld(q, pc, old) \in Request
    BY <1>1, <2>1, WithOldType
  <2>3. RequestOK(WithOld(q, pc, old), row, running \union past, past)
    <3>1. Continues(WithOld(q, pc, old), q, pc)
      BY <1>1, Continued
    <3>2. /\ pc \in {"insert", "update"} \/ (pc = "ok" /\ Completed(old))
          /\ pc = "update" => old # {}
      OBVIOUS
    <3> HIDE DEF q, pc
    <3>3. CASE pc \in {"insert", "update"}
      <4> DEFINE r == WithOld(q, pc, old)
      <4>1. Continues(r, q, pc) /\ q.pc = "read"
        BY <2>1, <3>1
      <4>2. r.pc = "update" => row[r.user][r.survey] # {}
        BY <3>2, <4>1 DEF Continues
      <4> HIDE DEF r, old
      <4>3. RequestOK(r, row, running \union past, past)
        BY <1>1, <3>3, <4>1, <4>2 DEF Continues, RequestOK, Saving, Writing
      <4> QED  BY <4>3 DEF r, old
    <3>4. CASE pc = "ok" /\ Completed(old)
      <4> DEFINE r == WithOld(q, pc, old)
      <4>1. r.user = q.user /\ r.survey = q.survey /\ r.pc = "ok"
        BY <3>1, <3>4 DEF Continues
      <4>2. Completed(row[r.user][r.survey])
        BY <3>4, <4>1
      <4> HIDE DEF r
      <4>3. RequestOK(r, row, running \union past, past)
        BY <1>1, <2>1, <4>1, <4>2 DEF RequestOK, Saving, Writing
      <4> QED  BY <4>3 DEF r
    <3> QED  BY <3>2, <3>3, <3>4
  <2>4. request' = [request EXCEPT ![h] = WithOld(q, pc, old)]
    BY <1>4 DEF ReadResponse
  <2>5. UNCHANGED <<surveys, row, counters, posted, spent>>
    BY <1>4 DEF ReadResponse
  <2> QED  BY <2>2, <2>3, <2>4, <2>5, <1>2
<1>5. ASSUME NEW pc \in {"putpost", "check", "putended"},
             \/ q.pc = "getpost" /\ pc = "putpost"
             \/ q.pc = "refresh" /\ pc = "check"
             \/ q.pc = "expire" /\ pc = "putended"
      PROVE  OK(WithCopy(q, pc, post[q.user][q.survey]))
  <2>1. WithCopy(q, pc, post[q.user][q.survey]) \in Request
    BY <1>1, <1>5, WithCopyType DEF PCs
  <2>2. RequestOK(WithCopy(q, pc, post[q.user][q.survey]),
                  row, running \union past, past)
    <3> DEFINE p == post[q.user][q.survey]
    <3>1. Continues(WithCopy(q, pc, p), q, pc) /\ WithCopy(q, pc, p).copy = p
      BY <1>1, Continued
    <3> HIDE DEF q
    <3> QED  BY <1>1, <1>5, <3>1 DEF Continues, RequestOK, Saving, Writing
  <2> QED  BY <2>1, <2>2
<1>6. CASE GetPost(h)
  <2>1. OK(WithCopy(q, "putpost", post[q.user][q.survey]))
    BY <1>5, <1>6 DEF GetPost
  <2> HIDE DEF OK
  <2> QED  BY <2>1, <1>2, <1>6 DEF GetPost
<1>7. CASE RefreshGetPost(h)
  <2>1. OK(WithCopy(q, "check", post[q.user][q.survey]))
    BY <1>5, <1>7 DEF RefreshGetPost
  <2> HIDE DEF OK
  <2> QED  BY <2>1, <1>2, <1>7 DEF RefreshGetPost
<1>8. CASE ExpireGetPost(h)
  <2>1. OK(WithCopy(q, "putended", post[q.user][q.survey]))
    BY <1>5, <1>8 DEF ExpireGetPost
  <2> HIDE DEF OK
  <2> QED  BY <2>1, <1>2, <1>8 DEF ExpireGetPost
<1>9. CASE RefreshCheckSurvey(h)
  <2> DEFINE pc == IF q.survey \in running THEN "ok" ELSE "putended"
  <2>1. At(q, pc) \in Request
    BY <1>1, AtType DEF PCs
  <2>2. Continues(At(q, pc), q, pc) /\ At(q, pc).copy = q.copy
    BY <1>1, Continued
  <2>3. q.pc = "check" /\ pc \in {"ok", "putended"}
    BY <1>9 DEF RefreshCheckSurvey
  <2> HIDE DEF q, pc
  <2>4. RequestOK(At(q, pc), row, running \union past, past)
    BY <1>1, <2>2, <2>3 DEF Continues, RequestOK, Saving, Writing
  <2>5. OK(At(q, pc))
    BY <2>1, <2>4
  <2> HIDE DEF OK
  <2> QED  BY <2>5, <1>2, <1>9 DEF RefreshCheckSurvey, Goto, q, pc
<1>10. CASE Answer(h)
  <2>1. OK(Idle)
    BY IdleType DEF Idle, Sent, RequestOK, Saving, Writing
  <2> HIDE DEF OK
  <2> QED  BY <2>1, <1>2, <1>10 DEF Answer
<1>11. CASE CallFails(h)
  <2>1. At(q, "error") \in Request
    BY <1>1, AtType DEF PCs
  <2>2. Continues(At(q, "error"), q, "error")
    BY <1>1, Continued
  <2>3. q.pc # "idle"
    BY <1>11 DEF CallFails
  <2> HIDE DEF q
  <2>4. RequestOK(At(q, "error"), row, running \union past, past)
    BY <1>1, <2>2, <2>3 DEF Continues, RequestOK, Saving, Writing
  <2>5. OK(At(q, "error"))
    BY <2>1, <2>4
  <2> HIDE DEF OK
  <2> QED  BY <2>5, <1>2, <1>11 DEF CallFails, Goto, q
<1> QED  BY <1>3, <1>4, <1>6, <1>7, <1>8, <1>9, <1>10, <1>11

\* The response a request stores.
LEMMA CarriedIsOne ==
    ASSUME NEW q, NEW r, q.rating = {r}
    PROVE  Carried(q) = {[rating |-> r, type |-> q.type]}
<1> DEFINE c == [rating |-> r, type |-> q.type]
<1>1. Carried(q) = [rating : {r}, type : {q.type}]
  BY DEF Carried
<1>2. ASSUME NEW x \in [rating : {r}, type : {q.type}] PROVE x = c
  BY <1>2
<1>3. c \in [rating : {r}, type : {q.type}]
  OBVIOUS
<1> HIDE DEF c
<1> QED  BY <1>1, <1>2, <1>3 DEF c

LEMMA CarriedType ==
    ASSUME NEW q, q.type \in {"partial", "complete"},
           \E r \in Rating : q.rating = {r}
    PROVE  /\ Carried(q) \in AtMostOne(Response)
           /\ q.type = "complete" => Completed(Carried(q))
<1>1. PICK r \in Rating : q.rating = {r}
  OBVIOUS
<1>2. Carried(q) = {[rating |-> r, type |-> q.type]}
  BY <1>1, CarriedIsOne
<1>3. [rating |-> r, type |-> q.type] \in Response
  BY DEF Response
<1>4. q.type = "complete" => Completed(Carried(q))
  BY <1>2 DEF Completed
<1> QED  BY <1>2, <1>3, <1>4 DEF AtMostOne

\* Steps that store a response: the row written was absent or partial.
LEMMA StoringSteps ==
    ASSUME SubmitInv, NEW h \in Handler,
           SaveSurveyResponse(h) \/ UpdateSurveyResponse(h)
    PROVE  SubmitInv' /\ Lasting
<1> DEFINE q == request[h]
           before == row[q.user][q.survey]
<1>1. /\ q \in Request
      /\ RequestOK(q, row, running \union past, past)
      /\ q.pc \in {"insert", "update"}
  BY OneRequest DEF SaveSurveyResponse, UpdateSurveyResponse
<1>2. q.user \in User /\ q.survey \in SurveyID
  BY <1>1 DEF RequestOK
<1>3. /\ Carried(q) \in AtMostOne(Response)
      /\ q.type = "complete" => Completed(Carried(q))
  <2>1. q.type \in {"partial", "complete"} /\ \E r \in Rating : q.rating = {r}
    BY <1>1 DEF RequestOK, Saving
  <2> HIDE DEF q
  <2> QED  BY <2>1, CarriedType
<1>4. before \in AtMostOne(Response)
  BY <1>1, OneRequest
<1>5. PICK new \in AtMostOne(Response), pc \in {"count", "error", "getpost"} :
        /\ row' = [row EXCEPT ![q.user][q.survey] = new]
        /\ request' = [request EXCEPT ![h] = At(q, pc)]
        /\ Completed(before) => new = before
        /\ before # {} => new # {}
        /\ q.type = "complete" /\ pc # "error" => Completed(new)
  <2>1. CASE SaveSurveyResponse(h) /\ before = {}
    <3>1. ~Completed(before)
      BY <2>1 DEF Completed
    <3> QED  BY <2>1, <3>1, <1>3 DEF SaveSurveyResponse, Goto
  <2>2. CASE SaveSurveyResponse(h) /\ before # {}
    <3>1. row' = row /\ request' = [request EXCEPT ![h] = At(q, "error")]
      BY <2>2 DEF SaveSurveyResponse, Goto
    <3>2. row = [row EXCEPT ![q.user][q.survey] = before]
      BY <1>2 DEF SubmitInv, TypeOK
    <3> HIDE DEF q, before
    <3> QED  BY <3>1, <3>2, <1>4
  <2>3. CASE UpdateSurveyResponse(h)
    <3> DEFINE new == IF Partial(before) THEN Carried(q) ELSE before
    <3>1. row' = [row EXCEPT ![q.user][q.survey] = new]
      BY <2>3 DEF UpdateSurveyResponse
    <3>2. request' = [request EXCEPT ![h] = At(q, "getpost")]
      BY <2>3 DEF UpdateSurveyResponse, Goto
    <3>3. /\ new \in AtMostOne(Response)
          /\ Completed(before) => new = before
          /\ before # {} => new # {}
          /\ q.type = "complete" => Completed(new)
      <4>1. before # {}
        BY <1>1, <2>3 DEF RequestOK, UpdateSurveyResponse
      <4>2. /\ Completed(before) <=> ~Partial(before)
            /\ Carried(q) # {}
        <5> HIDE DEF before
        <5>1. PICK r \in Response : before = {r}
          BY <1>4, <4>1 DEF AtMostOne
        <5>2. r.type \in {"partial", "complete"}
          BY DEF Response
        <5>3. PICK x \in Rating : q.rating = {x}
          BY <1>1 DEF RequestOK, Saving
        <5>4. [rating |-> x, type |-> q.type] \in Carried(q)
          BY <5>3 DEF Carried
        <5> QED  BY <5>1, <5>2, <5>4 DEF Completed, Partial
      <4> HIDE DEF before, q
      <4> QED  BY <1>3, <1>4, <4>1, <4>2
    <3> HIDE DEF new, q, before
    <3> QED  BY <3>1, <3>2, <3>3
  <2> QED  BY <2>1, <2>2, <2>3
<1>6. UNCHANGED <<surveys, counters, posted, spent>>
  BY DEF SaveSurveyResponse, UpdateSurveyResponse
<1>7. /\ At(q, pc) \in Request /\ Continues(At(q, pc), q, pc)
  BY <1>1, AtType, Continued DEF PCs
<1> HIDE DEF q
<1>8. Lasting
  BY <1>2, <1>5, <1>6 DEF Lasting, surveys, SubmitInv, TypeOK
<1>9. TypeOK'
  <2>1. row' \in [User -> [SurveyID -> AtMostOne(Response)]]
    BY <1>2, <1>5 DEF SubmitInv, TypeOK
  <2>2. request' \in [Handler -> Request]
    BY <1>5, <1>7 DEF SubmitInv, TypeOK
  <2> QED  BY <2>1, <2>2, <1>6 DEF SubmitInv, TypeOK, surveys, counters, posted
<1>10. row'[q.user][q.survey] = new
  BY <1>2, <1>5 DEF SubmitInv, TypeOK
<1>11. RequestOK(At(q, pc), row', running' \union past', past')
  <2> DEFINE r == At(q, pc)
  <2>1. /\ r.pc = pc /\ r.user = q.user /\ r.survey = q.survey
        /\ r.type = q.type /\ r.rating = q.rating
    BY <1>7 DEF Continues
  <2> HIDE DEF r
  <2>2. r.pc # "error" /\ r.type = "complete" => Completed(row'[r.user][r.survey])
    BY <2>1, <1>5, <1>10
  <2>3. RequestOK(r, row', running' \union past', past')
    BY <1>1, <1>5, <1>6, <2>1, <2>2 DEF RequestOK, Saving, Writing, surveys
  <2> QED  BY <2>3 DEF r
<1>12. RequestsHold'
  <2>1. DOMAIN request = Handler
    BY DEF SubmitInv, TypeOK
  <2> QED  BY <1>5, <1>8, <1>11, <2>1, RequestsKept DEF SubmitInv
<1>13. SubmittedIsRecorded'
  BY <1>6, <1>8, PostsKept DEF SubmitInv, posted
<1> QED  BY <1>8, <1>9, <1>12, <1>13 DEF SubmitInv

\* Steps that write a post back: what they write as submitted is recorded.
LEMMA PostingSteps ==
    ASSUME SubmitInv, NEW h \in Handler,
           UpdatePost(h) \/ SetExpiredPropsInPost(h)
    PROVE  SubmitInv'
<1> DEFINE q == request[h]
<1>1. /\ q \in Request
      /\ RequestOK(q, row, running \union past, past)
      /\ q.pc \in {"putpost", "putended"}
  BY OneRequest DEF UpdatePost, SetExpiredPropsInPost
<1>2. q.user \in User /\ q.survey \in SurveyID
  BY <1>1 DEF RequestOK
<1>3. q.copy \in Post /\ q.rating \in AtMostOne(Rating)
  BY <1>1 DEF Request
<1>4. PICK new \in Post, pc \in {"groups", "ok"} :
        /\ post' = [post EXCEPT ![q.user][q.survey] = new]
        /\ request' = [request EXCEPT ![h] = At(q, pc)]
        /\ pc = "groups" <=> q.pc = "putpost"
        /\ new.status = "submitted" => Completed(row[q.user][q.survey])
  <2>1. CASE UpdatePost(h)
    <3>1. /\ post' = [post EXCEPT ![q.user][q.survey] = Answered(q.copy, q)]
          /\ request' = [request EXCEPT ![h] = At(q, "groups")]
          /\ q.pc = "putpost"
      BY <2>1 DEF UpdatePost, Goto
    <3> HIDE DEF q
    <3>2. Answered(q.copy, q) \in Post
      BY <1>3 DEF Answered, Post
    <3>3. Answered(q.copy, q).status = "submitted" => Completed(row[q.user][q.survey])
      BY <1>1, <3>1 DEF Answered, RequestOK, Writing
    <3> QED  BY <3>1, <3>2, <3>3
  <2>2. CASE SetExpiredPropsInPost(h)
    <3>1. /\ post' = [post EXCEPT ![q.user][q.survey] = Expired(q.copy)]
          /\ request' = [request EXCEPT ![h] = At(q, "ok")]
          /\ q.pc = "putended"
      BY <2>2 DEF SetExpiredPropsInPost, Goto
    <3> HIDE DEF q
    <3>2. Expired(q.copy) \in Post /\ Expired(q.copy).status = "ended"
      BY <1>3 DEF Expired, Post
    <3> QED  BY <3>1, <3>2
  <2> QED  BY <2>1, <2>2
<1>5. UNCHANGED <<surveys, row, counters, acks, spent>>
  BY DEF UpdatePost, SetExpiredPropsInPost
<1>6. /\ At(q, pc) \in Request /\ Continues(At(q, pc), q, pc)
  BY <1>1, AtType, Continued DEF PCs
<1> HIDE DEF q
<1>7. Lasting
  BY <1>5, LastingIfUnchanged DEF surveys
<1>8. TypeOK'
  <2>1. post' \in [User -> [SurveyID -> Post]]
    BY <1>2, <1>4 DEF SubmitInv, TypeOK
  <2>2. request' \in [Handler -> Request]
    BY <1>4, <1>6 DEF SubmitInv, TypeOK
  <2> QED  BY <2>1, <2>2, <1>5 DEF SubmitInv, TypeOK, surveys, counters
<1>9. RequestOK(At(q, pc), row, running \union past, past)
  <2> DEFINE r == At(q, pc)
  <2>1. /\ r.pc = pc /\ r.user = q.user /\ r.survey = q.survey
        /\ r.type = q.type /\ r.rating = q.rating
    BY <1>6 DEF Continues
  <2> HIDE DEF r
  <2>2. RequestOK(r, row, running \union past, past)
    BY <1>1, <1>4, <2>1 DEF RequestOK, Saving, Writing
  <2> QED  BY <2>2 DEF r
<1>10. RequestsHold'
  <2>1. DOMAIN request = Handler
    BY DEF SubmitInv, TypeOK
  <2> QED  BY <1>4, <1>5, <1>7, <1>9, <2>1, RequestsKept DEF SubmitInv, surveys
<1>11. SubmittedIsRecorded'
  <2> SUFFICES ASSUME NEW u \in User, NEW s \in SurveyID,
                      post'[u][s].status = "submitted"
               PROVE  Completed(row[u][s])
    BY <1>5 DEF SubmittedIsRecorded
  <2>1. CASE u = q.user /\ s = q.survey
    BY <2>1, <1>2, <1>4 DEF SubmitInv, TypeOK
  <2>2. CASE ~(u = q.user /\ s = q.survey)
    BY <2>2, <1>2, <1>4 DEF SubmitInv, TypeOK, SubmittedIsRecorded
  <2> QED  BY <2>1, <2>2
<1> QED  BY <1>8, <1>10, <1>11 DEF SubmitInv

\* Steps that add to a counter or post the acknowledgement.
LEMMA CountingSteps ==
    ASSUME SubmitInv, NEW h \in Handler,
           \/ IncrementSurveyResponseCount(h)
           \/ UpdateRatingGroupCount(h)
           \/ SendAcknowledgementPost(h)
    PROVE  SubmitInv'
<1> DEFINE q == request[h]
<1>1. /\ q \in Request
      /\ RequestOK(q, row, running \union past, past)
      /\ q.pc \in {"count", "groups", "ack"}
  BY OneRequest DEF IncrementSurveyResponseCount, UpdateRatingGroupCount,
                    SendAcknowledgementPost
<1>2. q.user \in User /\ q.survey \in SurveyID
  BY <1>1 DEF RequestOK
<1>3. PICK pc \in {"getpost", "ack", "ok"} :
        /\ request' = [request EXCEPT ![h] = At(q, pc)]
        /\ pc = "ack" => q.type = "complete"
  BY DEF IncrementSurveyResponseCount, UpdateRatingGroupCount,
         SendAcknowledgementPost, Goto
<1>4. UNCHANGED <<surveys, row, post, spent>>
  BY DEF IncrementSurveyResponseCount, UpdateRatingGroupCount,
         SendAcknowledgementPost, posted, counters
<1>5. /\ responses' \in [SurveyID -> Nat]
      /\ counts' \in [SurveyID -> [Groups -> Int]]
      /\ acks' \in [User -> [SurveyID -> Nat]]
  <2>1. CASE IncrementSurveyResponseCount(h)
    BY <2>1, <1>2 DEF IncrementSurveyResponseCount, SubmitInv, TypeOK, posted
  <2>2. CASE UpdateRatingGroupCount(h)
    <3> DEFINE d == Delta(q)
    <3>1. d \in [Groups -> Int]
      BY DeltaType DEF Delta
    <3>2. /\ counts' = [counts EXCEPT ![q.survey] = [g \in Groups |-> @[g] + d[g]]]
          /\ UNCHANGED <<responses, acks>>
      BY <2>2 DEF UpdateRatingGroupCount, posted
    <3> HIDE DEF d, q
    <3>3. [g \in Groups |-> counts[q.survey][g] + d[g]] \in [Groups -> Int]
      BY <3>1, <1>2 DEF SubmitInv, TypeOK
    <3> QED  BY <3>2, <3>3, <1>2 DEF SubmitInv, TypeOK
  <2>3. CASE SendAcknowledgementPost(h)
    BY <2>3, <1>2 DEF SendAcknowledgementPost, SubmitInv, TypeOK, counters
  <2> QED  BY <2>1, <2>2, <2>3
<1>6. /\ At(q, pc) \in Request /\ Continues(At(q, pc), q, pc)
  BY <1>1, AtType, Continued DEF PCs
<1> HIDE DEF q
<1>7. Lasting
  BY <1>4, LastingIfUnchanged DEF surveys
<1>8. TypeOK'
  <2>1. request' \in [Handler -> Request]
    BY <1>3, <1>6 DEF SubmitInv, TypeOK
  <2> QED  BY <2>1, <1>4, <1>5 DEF SubmitInv, TypeOK, surveys
<1>9. RequestOK(At(q, pc), row, running \union past, past)
  <2> DEFINE r == At(q, pc)
  <2>1. /\ r.pc = pc /\ r.user = q.user /\ r.survey = q.survey
        /\ r.type = q.type /\ r.rating = q.rating
    BY <1>6 DEF Continues
  <2> HIDE DEF r
  <2>2. RequestOK(r, row, running \union past, past)
    BY <1>1, <1>3, <2>1 DEF RequestOK, Saving, Writing
  <2> QED  BY <2>2 DEF r
<1>10. RequestsHold'
  <2>1. DOMAIN request = Handler
    BY DEF SubmitInv, TypeOK
  <2> QED  BY <1>3, <1>4, <1>7, <1>9, <2>1, RequestsKept DEF SubmitInv, surveys
<1>11. SubmittedIsRecorded'
  BY <1>4, <1>7, PostsKept DEF SubmitInv
<1> QED  BY <1>8, <1>10, <1>11 DEF SubmitInv

\* A survey that begins or ends takes nothing from what requests know.
LEMMA SurveySteps ==
    ASSUME SubmitInv, SurveyStep PROVE SubmitInv' /\ Lasting
<1>1. UNCHANGED <<row, counters, posted, request, spent>>
  BY DEF SurveyStep
<1>2. Lasting
  BY <1>1 DEF Lasting, SurveyStep, Timeline!TimelineNext, Timeline!Begin,
              Timeline!Finish, SubmitInv, TypeOK
<1>3. TypeOK'
  <2>1. running' \in SUBSET SurveyID /\ past' \in SUBSET SurveyID
    BY DEF SurveyStep, Timeline!TimelineNext, Timeline!Begin, Timeline!Finish,
           SubmitInv, TypeOK
  <2> QED  BY <1>1, <2>1 DEF SubmitInv, TypeOK, counters, posted
<1>4. RequestsHold'
  BY <1>1, <1>2, RequestKept DEF RequestsHold, SubmitInv
<1>5. SubmittedIsRecorded'
  BY <1>1, <1>2, PostsKept DEF SubmitInv, posted
<1> QED  BY <1>2, <1>3, <1>4, <1>5 DEF SubmitInv

LEMMA StepSubmitInv == SubmitInv /\ [Next]_vars => SubmitInv' /\ Lasting
<1> SUFFICES ASSUME SubmitInv, [Next]_vars PROVE SubmitInv' /\ Lasting
  OBVIOUS
<1>1. ASSUME NEW h \in Handler, Serve(h) \/ CallFails(h)
      PROVE  SubmitInv' /\ Lasting
  <2>1. CASE \/ Recheck(h) \/ ReadResponse(h) \/ GetPost(h) \/ RefreshGetPost(h)
             \/ RefreshCheckSurvey(h) \/ ExpireGetPost(h) \/ Answer(h) \/ CallFails(h)
    <3>1. UNCHANGED <<running, past, row>>
      BY <2>1 DEF Recheck, ReadResponse, GetPost, RefreshGetPost,
                  RefreshCheckSurvey, ExpireGetPost, Answer, CallFails, surveys
    <3> QED  BY <2>1, <3>1, ReadingSteps, LastingIfUnchanged
  <2>2. CASE SaveSurveyResponse(h) \/ UpdateSurveyResponse(h)
    BY <2>2, StoringSteps
  <2>3. CASE UpdatePost(h) \/ SetExpiredPropsInPost(h)
    <3>1. UNCHANGED <<running, past, row>>
      BY <2>3 DEF UpdatePost, SetExpiredPropsInPost, surveys
    <3> QED  BY <2>3, <3>1, PostingSteps, LastingIfUnchanged
  <2>4. CASE \/ IncrementSurveyResponseCount(h)
             \/ UpdateRatingGroupCount(h)
             \/ SendAcknowledgementPost(h)
    <3>1. UNCHANGED <<running, past, row>>
      BY <2>4 DEF IncrementSurveyResponseCount, UpdateRatingGroupCount,
                  SendAcknowledgementPost, surveys
    <3> QED  BY <2>4, <3>1, CountingSteps, LastingIfUnchanged
  <2> QED  BY <1>1, <2>1, <2>2, <2>3, <2>4 DEF Serve
<1>2. ASSUME NEW h \in Handler, NEW u \in User, NEW s \in SurveyID,
             SubmitBegin(h, u, s) \/ RefreshBegin(h, u, s)
      PROVE  SubmitInv' /\ Lasting
  <2>1. UNCHANGED <<running, past, row>>
    BY <1>2 DEF SubmitBegin, RefreshBegin, surveys
  <2> QED  BY <1>2, <2>1, BeginSteps, LastingIfUnchanged
<1>3. CASE SurveyStep
  BY <1>3, SurveySteps
<1>4. CASE UNCHANGED vars
  <2>1. UNCHANGED <<running, past, row>>
    BY <1>4 DEF vars, surveys
  <2>2. SubmitInv'
    BY <1>4, <2>1 DEF SubmitInv, TypeOK, RequestsHold, RequestOK,
          SubmittedIsRecorded, vars, surveys, counters, posted, Completed
  <2> QED  BY <2>1, <2>2, LastingIfUnchanged
<1> QED  BY <1>1, <1>2, <1>3, <1>4 DEF Next, Refresh

THEOREM SubmitInvCorrect == Spec => []SubmitInv
<1>1. SubmitInv /\ [Next]_vars => SubmitInv'
  BY StepSubmitInv
<1> QED  BY InitSubmitInv, <1>1, PTL DEF Spec

----------------------------------------------------------------------------
\* Every variable keeps its type; in particular the table never holds two
\* responses of one user to one survey.
THEOREM SubmitTypeCorrect == Spec => []TypeOK
<1>1. SubmitInv => TypeOK
  BY DEF SubmitInv
<1> QED  BY <1>1, SubmitInvCorrect, PTL

\* However many requests of a user race, a complete response once stored is
\* never changed (docs/architecture/architecture.md:22).
THEOREM CompleteResponsesAreFinal == Spec => CompleteIsFinal
<1>1. SubmitInv /\ [Next]_vars
        => [\A u \in User, s \in SurveyID :
              Completed(row[u][s]) => row'[u][s] = row[u][s]]_vars
  BY StepSubmitInv DEF Lasting
<1> QED  BY <1>1, SubmitInvCorrect, PTL DEF Spec, CompleteIsFinal

\* No interleaving of read-modify-writes of a post shows as submitted what is
\* not in the database.
THEOREM SubmittedPostsAreRecorded == Spec => []SubmittedIsRecorded
<1>1. SubmitInv => SubmittedIsRecorded
  BY DEF SubmitInv
<1> QED  BY <1>1, SubmitInvCorrect, PTL

\* What a request adds to the columns, of the rating it replaces and its own.
LEMMA DeltaIsReference ==
    ASSUME NEW q, NEW r \in 1..10, q.rating = {r}, q.old \in AtMostOne(Response)
    PROVE  Delta(q) = ReferenceDelta(RatingsOf(q.old), r)
<1>1. Delta(q) = GroupDelta(RatingsOf(q.old), r)
  BY TheRating DEF Delta
<1>2. CASE q.old = {}
  <2>1. RatingsOf(q.old) = NoRating
    BY <1>2 DEF RatingsOf, NoRating
  <2> QED  BY <1>1, <2>1, FirstRating
<1>3. CASE q.old # {}
  <2>1. PICK o \in Response : q.old = {o}
    BY <1>3 DEF AtMostOne
  <2>2. RatingsOf(q.old) = {o.rating} /\ o.rating \in 1..10
    BY <2>1 DEF RatingsOf, Response
  <2> QED  BY <1>1, <2>2, ChangeMovesOne
<1> QED  BY <1>2, <1>3

\* Whatever a request read, what it adds to the columns is the documented
\* difference between the rating it replaces and the one it stores.
THEOREM ColumnsMoveAsDocumented == Spec => []DeltaAsDocumented
<1>1. SubmitInv => DeltaAsDocumented
  <2> SUFFICES ASSUME SubmitInv, NEW h \in Handler, request[h].pc = "groups",
                      NEW r \in request[h].rating
               PROVE  Delta(request[h]) = ReferenceDelta(RatingsOf(request[h].old), r)
    BY DEF DeltaAsDocumented
  <2>1. PICK q : q = request[h]
    OBVIOUS
  <2>2. /\ q.rating = {r} /\ r \in 1..10
        /\ q.old \in AtMostOne(Response)
    <3>1. q \in Request /\ RequestOK(q, row, running \union past, past)
      BY <2>1, OneRequest
    <3>2. PICK x \in Rating : q.rating = {x}
      BY <2>1, <3>1 DEF RequestOK, Saving
    <3>3. r = x
      BY <2>1, <3>2
    <3> QED  BY <3>1, <3>2, <3>3 DEF Request
  <2> QED  BY <2>1, <2>2, DeltaIsReference
<1> QED  BY <1>1, SubmitInvCorrect, PTL

----------------------------------------------------------------------------
(* The table of responses is a ResponseLedger.                             *)

LEMMA LedgerInitial == Init => Ledger!LedgerInit
BY DEF Init, Ledger!LedgerInit

\* Only two steps write the table.
LEMMA OnlyWriters ==
    ASSUME Next, row' # row
    PROVE  \E h \in Handler : SaveSurveyResponse(h) \/ UpdateSurveyResponse(h)
BY DEF Next, Serve, CallFails, SubmitBegin, Refresh, RefreshBegin, SurveyStep,
       Recheck, ReadResponse, IncrementSurveyResponseCount, GetPost, UpdatePost,
       UpdateRatingGroupCount, SendAcknowledgementPost, RefreshGetPost,
       RefreshCheckSurvey, ExpireGetPost, SetExpiredPropsInPost, Answer

LEMMA LedgerStep == SubmitInv /\ [Next]_vars => [Ledger!LedgerNext]_row
<1> SUFFICES ASSUME SubmitInv, Next, row' # row PROVE Ledger!LedgerNext
  BY DEF vars
<1>1. PICK h \in Handler : SaveSurveyResponse(h) \/ UpdateSurveyResponse(h)
  BY OnlyWriters
<1>2. PICK q : q = request[h]
  OBVIOUS
<1>3. /\ q.user \in User /\ q.survey \in SurveyID
      /\ q.type \in {"partial", "complete"}
      /\ \E r \in Rating : q.rating = {r}
  BY <1>1, <1>2 DEF SubmitInv, RequestsHold, RequestOK, Saving,
                    SaveSurveyResponse, UpdateSurveyResponse
<1>4. PICK r \in Rating : q.rating = {r}
  BY <1>3
<1>5. PICK new : new = [rating |-> r, type |-> q.type]
  OBVIOUS
<1>6. new \in Response /\ Carried(q) = {new}
  <2>1. new \in Response
    BY <1>3, <1>5 DEF Response
  <2> QED  BY <1>4, <1>5, <2>1, CarriedIsOne
<1>7. CASE SaveSurveyResponse(h)
  <2>1. row[q.user][q.survey] = {} /\ row' = [row EXCEPT ![q.user][q.survey] = {new}]
    BY <1>2, <1>6, <1>7 DEF SaveSurveyResponse
  <2>2. Ledger!Record(q.user, q.survey, new)
    BY <2>1 DEF Ledger!Record
  <2> QED  BY <1>3, <1>6, <2>2 DEF Ledger!LedgerNext
<1>8. CASE UpdateSurveyResponse(h)
  <2>1. PICK before : before = row[q.user][q.survey]
    OBVIOUS
  <2>2. row' = [row EXCEPT ![q.user][q.survey] =
                  IF Partial(before) THEN {new} ELSE before]
    BY <1>2, <1>6, <1>8, <2>1 DEF UpdateSurveyResponse
  <2>3. Partial(before)
    <3> SUFFICES ASSUME ~Partial(before) PROVE FALSE
      OBVIOUS
    <3>1. row' = [row EXCEPT ![q.user][q.survey] = before]
      BY <2>2
    <3>2. [row EXCEPT ![q.user][q.survey] = before] = row
      BY <1>3, <2>1 DEF SubmitInv, TypeOK
    <3> QED  BY <3>1, <3>2
  <2>4. Ledger!Revise(q.user, q.survey, new)
    BY <2>1, <2>2, <2>3 DEF Ledger!Revise, Partial
  <2> QED  BY <1>3, <1>6, <2>4 DEF Ledger!LedgerNext
<1> QED  BY <1>1, <1>7, <1>8

\* The table implements the ledger: every step of a request that writes it
\* records a first response or revises a partial one.
THEOREM ImplementsLedger == Spec => LedgerSpec
BY LedgerInitial, LedgerStep, SubmitInvCorrect, PTL
   DEF Spec, LedgerSpec, Ledger!LedgerSpec

----------------------------------------------------------------------------
(* An ended survey settles.                                                *)

\* A survey that is over is not in progress.
Apart == running \cap past = {}

LEMMA ApartInit == Init => Apart
BY DEF Init, Apart, Timeline!TimelineInit

LEMMA ApartStep == SubmitInv /\ Apart /\ [Next]_vars => Apart'
<1> SUFFICES ASSUME Apart, [Next]_vars PROVE Apart'
  OBVIOUS
<1>1. CASE SurveyStep
  BY <1>1 DEF SurveyStep, Timeline!TimelineNext, Timeline!Begin,
              Timeline!Finish, Apart
<1>2. CASE UNCHANGED surveys
  BY <1>2 DEF surveys, Apart
<1>3. SurveyStep \/ UNCHANGED surveys
  BY DEF Next, vars, Serve, CallFails, SubmitBegin, Refresh, RefreshBegin,
         Recheck, ReadResponse, SaveSurveyResponse, UpdateSurveyResponse,
         IncrementSurveyResponseCount, GetPost, UpdatePost,
         UpdateRatingGroupCount, SendAcknowledgementPost, RefreshGetPost,
         RefreshCheckSurvey, ExpireGetPost, SetExpiredPropsInPost, Answer
<1> QED  BY <1>1, <1>2, <1>3

\* What follows q as r: only the second look at the survey admits a request.
Admits(q, r) ==
    r.pc \in Admitted =>
        /\ r.survey = q.survey
        /\ q.pc \in Admitted \/ (q.pc = "recheck" /\ q.survey \in running)

\* Only an admitted request changes results, and only those of its survey.
Confined(q) ==
    \A s \in SurveyID : (q.pc \in Admitted /\ q.survey = s) \/ ResultsKept(s)

LEMMA OtherSurveyKept ==
    ASSUME NEW D, NEW X, NEW f \in [D -> [SurveyID -> X]], NEW d \in D,
           NEW t \in SurveyID, NEW x, NEW s \in SurveyID, s # t, NEW u \in D
    PROVE  [f EXCEPT ![d][t] = x][u][s] = f[u][s]
<1>1. CASE u = d
  <2>1. [f EXCEPT ![d][t] = x][u] = [f[d] EXCEPT ![t] = x]
    BY <1>1
  <2> QED  BY <1>1, <2>1
<1>2. CASE u # d
  BY <1>2
<1> QED  BY <1>1, <1>2

LEMMA KeptIfUnchanged ==
    ASSUME UNCHANGED <<row, counters, acks>> PROVE \A s : ResultsKept(s)
BY DEF ResultsKept, counters

\* The request after a step that reads, and after one that writes.
LEMMA NextRequest ==
    ASSUME SubmitInv, NEW h \in Handler, Serve(h) \/ CallFails(h)
    PROVE  \E r : /\ request' = [request EXCEPT ![h] = r]
                  /\ Admits(request[h], r)
<1> DEFINE q == request[h]
<1>1. q \in Request
  BY OneRequest
<1>2. \A pc, x : /\ Continues(At(q, pc), q, pc)
                 /\ Continues(WithOld(q, pc, x), q, pc)
                 /\ Continues(WithCopy(q, pc, x), q, pc)
  BY <1>1, Continued
<1>3. CASE Answer(h)
  <2>1. Idle.pc = "idle"
    BY DEF Idle, Sent
  <2> QED  BY <1>3, <2>1 DEF Answer, Admits, Admitted, Writing
<1>4. CASE RefreshGetPost(h) \/ ExpireGetPost(h)
  <2>1. PICK pc, x :
          /\ pc \in {"check", "putended"}
          /\ request' = [request EXCEPT ![h] = WithCopy(q, pc, x)]
    BY <1>4 DEF RefreshGetPost, ExpireGetPost
  <2>2. WithCopy(q, pc, x).pc \in {"check", "putended"}
    BY <1>2, <2>1 DEF Continues
  <2>3. Admits(q, WithCopy(q, pc, x))
    BY <2>2 DEF Admits, Admitted, Writing
  <2> QED  BY <2>1, <2>3
<1>5. CASE Recheck(h)
  <2> DEFINE pc == IF running = {} THEN "panic"
                   ELSE IF q.survey \in running THEN "read" ELSE "error"
  <2>1. request' = [request EXCEPT ![h] = At(q, pc)] /\ q.pc = "recheck"
    BY <1>5 DEF Recheck, Goto
  <2>2. (pc = "read" /\ q.survey \in running) \/ pc \in {"panic", "error"}
    OBVIOUS
  <2> HIDE DEF pc
  <2>3. Admits(q, At(q, pc))
    BY <1>2, <2>1, <2>2 DEF Continues, Admits, Admitted, Writing
  <2> QED  BY <2>1, <2>3
<1>6. CASE \/ RefreshCheckSurvey(h) \/ SetExpiredPropsInPost(h) \/ CallFails(h)
  <2>1. PICK pc \in {"ok", "putended", "error"} :
          request' = [request EXCEPT ![h] = At(q, pc)]
    BY <1>6 DEF RefreshCheckSurvey, SetExpiredPropsInPost, CallFails, Goto
  <2>2. Admits(q, At(q, pc))
    BY <1>2 DEF Continues, Admits, Admitted, Writing
  <2> QED  BY <2>1, <2>2
<1>7. CASE \/ SaveSurveyResponse(h) \/ IncrementSurveyResponseCount(h)
           \/ UpdateSurveyResponse(h) \/ UpdatePost(h)
           \/ UpdateRatingGroupCount(h) \/ SendAcknowledgementPost(h)
  <2>1. q.pc \in Admitted /\ \E pc : request' = [request EXCEPT ![h] = At(q, pc)]
    BY <1>7 DEF SaveSurveyResponse, IncrementSurveyResponseCount,
                UpdateSurveyResponse, UpdatePost, UpdateRatingGroupCount,
                SendAcknowledgementPost, Goto, Admitted, Writing
  <2>2. PICK pc : request' = [request EXCEPT ![h] = At(q, pc)]
    BY <2>1
  <2>3. Admits(q, At(q, pc))
    BY <1>2, <2>1 DEF Continues, Admits
  <2> QED  BY <2>2, <2>3
<1>8. CASE ReadResponse(h) \/ GetPost(h)
  <2>1. q.pc \in Admitted
    BY <1>8 DEF ReadResponse, GetPost, Admitted, Writing
  <2>2. \/ \E pc, x : request' = [request EXCEPT ![h] = WithOld(q, pc, x)]
        \/ \E pc, x : request' = [request EXCEPT ![h] = WithCopy(q, pc, x)]
    BY <1>8 DEF ReadResponse, GetPost
  <2>3. \A pc, x : Admits(q, WithOld(q, pc, x)) /\ Admits(q, WithCopy(q, pc, x))
    BY <1>2, <2>1 DEF Continues, Admits
  <2> QED  BY <2>2, <2>3
<1> QED  BY <1>3, <1>4, <1>5, <1>6, <1>7, <1>8 DEF Serve

LEMMA NextResults ==
    ASSUME SubmitInv, NEW h \in Handler, Serve(h) \/ CallFails(h)
    PROVE  Confined(request[h])
<1> DEFINE q == request[h]
<1>1. CASE \/ SaveSurveyResponse(h) \/ IncrementSurveyResponseCount(h)
           \/ UpdateSurveyResponse(h) \/ UpdateRatingGroupCount(h)
           \/ SendAcknowledgementPost(h)
  <2>1. q.pc \in Admitted
    BY <1>1 DEF SaveSurveyResponse, IncrementSurveyResponseCount,
                UpdateSurveyResponse, UpdateRatingGroupCount,
                SendAcknowledgementPost, Admitted, Writing
  <2>2. q.user \in User /\ q.survey \in SurveyID
    BY <2>1, OneRequest DEF RequestOK, Admitted, Writing
  <2>3. PICK rs, n, c, k :
          /\ row' = row \/ row' = [row EXCEPT ![q.user][q.survey] = rs]
          /\ responses' = responses \/ responses' = [responses EXCEPT ![q.survey] = n]
          /\ counts' = counts \/ counts' = [counts EXCEPT ![q.survey] = c]
          /\ acks' = acks \/ acks' = [acks EXCEPT ![q.user][q.survey] = k]
    BY <1>1 DEF SaveSurveyResponse, IncrementSurveyResponseCount,
                UpdateSurveyResponse, UpdateRatingGroupCount,
                SendAcknowledgementPost, counters, posted
  <2> HIDE DEF q
  <2>4. ASSUME NEW s \in SurveyID, s # q.survey PROVE ResultsKept(s)
    <3>1. \A u \in User : row'[u][s] = row[u][s]
      <4>1. row \in [User -> [SurveyID -> AtMostOne(Response)]]
        BY DEF SubmitInv, TypeOK
      <4>2. \A u \in User :
              [row EXCEPT ![q.user][q.survey] = rs][u][s] = row[u][s]
        BY <2>2, <2>4, <4>1, OtherSurveyKept
      <4> QED  BY <2>3, <4>2
    <3>2. \A u \in User : acks'[u][s] = acks[u][s]
      <4>1. acks \in [User -> [SurveyID -> Nat]]
        BY DEF SubmitInv, TypeOK
      <4>2. \A u \in User :
              [acks EXCEPT ![q.user][q.survey] = k][u][s] = acks[u][s]
        BY <2>2, <2>4, <4>1, OtherSurveyKept
      <4> QED  BY <2>3, <4>2
    <3>3. responses'[s] = responses[s] /\ counts'[s] = counts[s]
      BY <2>2, <2>3, <2>4 DEF SubmitInv, TypeOK
    <3> QED  BY <3>1, <3>2, <3>3 DEF ResultsKept
  <2> QED  BY <2>1, <2>4 DEF Confined, q
<1>2. CASE UNCHANGED <<row, counters, acks>>
  BY <1>2, KeptIfUnchanged DEF Confined
<1> QED
  BY <1>1, <1>2
     DEF Serve, CallFails, Recheck, ReadResponse, GetPost, UpdatePost,
         RefreshGetPost, RefreshCheckSurvey, ExpireGetPost,
         SetExpiredPropsInPost, Answer, posted

\* A request that begins is not admitted yet.
LEMMA BegunNotLate ==
    ASSUME SubmitInv, NEW h \in Handler, NEW u \in User, NEW s \in SurveyID,
           SubmitBegin(h, u, s) \/ RefreshBegin(h, u, s)
    PROVE  /\ \E r : /\ request' = [request EXCEPT ![h] = r]
                     /\ r.pc \notin Admitted
           /\ UNCHANGED <<row, counters, acks>>
<1>1. CASE SubmitBegin(h, u, s)
  <2>1. PICK t, r :
          request' = [request EXCEPT ![h] =
              Sent(IF s \in running THEN "recheck" ELSE "expire", u, s, t, {r})]
    BY <1>1 DEF SubmitBegin
  <2>2. Sent(IF s \in running THEN "recheck" ELSE "expire", u, s, t, {r}).pc
          \notin Admitted
    BY DEF Sent, Admitted, Writing
  <2> QED  BY <1>1, <2>1, <2>2 DEF SubmitBegin, posted
<1>2. CASE RefreshBegin(h, u, s)
  <2>1. Sent("refresh", u, s, "refresh", {}).pc \notin Admitted
    BY DEF Sent, Admitted, Writing
  <2> QED  BY <1>2, <2>1 DEF RefreshBegin, posted
<1> QED  BY <1>1, <1>2

LEMMA EndedStep ==
    ASSUME SubmitInv, Apart, [Next]_vars, NEW s \in past
    PROVE  Late(s)' \subseteq Late(s) /\ (Late(s) = {} => ResultsKept(s))
<1>1. s \in SurveyID /\ s \notin running /\ DOMAIN request = Handler
  BY DEF SubmitInv, TypeOK, Apart
<1>2. ASSUME NEW h \in Handler, Serve(h) \/ CallFails(h)
      PROVE  Late(s)' \subseteq Late(s) /\ (Late(s) = {} => ResultsKept(s))
  <2>1. PICK r : request' = [request EXCEPT ![h] = r] /\ Admits(request[h], r)
    BY <1>2, NextRequest
  <2>2. ASSUME NEW g \in Late(s)' PROVE g \in Late(s)
    <3>1. CASE g = h
      BY <3>1, <1>1, <2>1, <2>2 DEF Late, Admits
    <3>2. CASE g # h
      BY <3>2, <1>1, <2>1, <2>2 DEF Late
    <3> QED  BY <3>1, <3>2
  <2>3. ASSUME Late(s) = {} PROVE ResultsKept(s)
    BY <1>1, <1>2, <2>3, NextResults DEF Late, Confined
  <2> QED  BY <2>2, <2>3
<1>3. ASSUME NEW h \in Handler, NEW u \in User, NEW t \in SurveyID,
             SubmitBegin(h, u, t) \/ RefreshBegin(h, u, t)
      PROVE  Late(s)' \subseteq Late(s) /\ (Late(s) = {} => ResultsKept(s))
  <2>1. PICK r : request' = [request EXCEPT ![h] = r] /\ r.pc \notin Admitted
    BY <1>3, BegunNotLate
  <2>2. UNCHANGED <<row, counters, acks>>
    BY <1>3, BegunNotLate
  <2>3. Late(s)' \subseteq Late(s)
    BY <1>1, <2>1 DEF Late
  <2> QED  BY <2>2, <2>3, KeptIfUnchanged
<1>4. CASE SurveyStep \/ UNCHANGED vars
  <2>1. UNCHANGED <<row, counters, acks>> /\ UNCHANGED request
    BY <1>4 DEF SurveyStep, vars, posted
  <2> QED  BY <2>1, KeptIfUnchanged DEF Late
<1> QED  BY <1>2, <1>3, <1>4 DEF Next, Refresh

\* Once a survey is over only the requests admitted before change its results,
\* and they only become fewer.
THEOREM EndedSurveysSettle == Spec => EndedSettles
<1>1. Init => Apart
  BY ApartInit
<1>2. SubmitInv /\ Apart /\ [Next]_vars => Apart'
  BY ApartStep
<1>3. SubmitInv /\ Apart /\ [Next]_vars
        => [\A s \in past : /\ Late(s)' \subseteq Late(s)
                            /\ Late(s) = {} => ResultsKept(s)]_vars
  BY EndedStep
<1> QED  BY <1>1, <1>2, <1>3, SubmitInvCorrect, PTL DEF Spec, EndedSettles

----------------------------------------------------------------------------
(* response_count follows the responses stored.                            *)

Stored(s) == {u \in User : row[u][s] # {}}

Counting(s) == {h \in Handler : /\ request[h].pc = "count"
                                /\ request[h].survey = s}

\* n responses are counted, m stored, c requests about to count, and up to f
\* increments are lost.
Balance(n, m, c, f) == n + c <= m /\ m <= n + c + f

Accounts(s) ==
    /\ IsFiniteSet(Stored(s))
    /\ IsFiniteSet(Counting(s))
    /\ Balance(responses[s], Cardinality(Stored(s)), Cardinality(Counting(s)),
               spent.faults)

CountInv == \A s \in SurveyID : Accounts(s)

LEMMA Sizes ==
    ASSUME SubmitInv, CountInv, NEW s \in SurveyID
    PROVE  /\ responses[s] \in Nat /\ spent.faults \in Nat
           /\ Cardinality(Stored(s)) \in Nat /\ Cardinality(Counting(s)) \in Nat
<1>1. responses[s] \in Nat
  BY DEF SubmitInv, TypeOK
<1>2. spent.faults \in Nat
  <2>1. spent \in [submits : 0..MaxSubmits, faults : 0..MaxFaults]
    BY DEF SubmitInv, TypeOK
  <2> QED  BY <2>1
<1> QED  BY <1>1, <1>2, FS_CardinalityType DEF CountInv, Accounts

LEMMA FaultCounts ==
    ASSUME SubmitInv, Fault
    PROVE  spent'.faults = spent.faults + 1
<1>1. spent \in [submits : 0..MaxSubmits, faults : 0..MaxFaults]
  BY DEF SubmitInv, TypeOK
<1> QED  BY <1>1 DEF Fault

LEMMA CountInit == Init => CountInv
<1> SUFFICES ASSUME Init, NEW s \in SurveyID PROVE Accounts(s)
  BY DEF CountInv
<1>1. Stored(s) = {} /\ Counting(s) = {}
  BY DEF Init, Stored, Counting, Idle, Sent
<1>2. responses[s] = 0 /\ spent.faults = 0
  BY DEF Init
<1> QED  BY <1>1, <1>2, FS_EmptySet DEF Accounts, Balance

\* No first response is stored, and no request starts or ends counting.
LEMMA CountKept ==
    ASSUME SubmitInv, CountInv, UNCHANGED responses,
           \A s \in SurveyID : Stored(s)' = Stored(s) /\ Counting(s)' = Counting(s),
           UNCHANGED spent.faults \/ Fault
    PROVE  CountInv'
<1> SUFFICES ASSUME NEW s \in SurveyID PROVE Accounts(s)'
  BY DEF CountInv
<1>1. Accounts(s)
  BY DEF CountInv
<1>2. spent'.faults = spent.faults \/ spent'.faults = spent.faults + 1
  BY FaultCounts
<1>3. Balance(responses[s], Cardinality(Stored(s)), Cardinality(Counting(s)),
              spent'.faults)
  BY <1>1, <1>2, Sizes DEF Accounts, Balance
<1> QED  BY <1>1, <1>3 DEF Accounts

LEMMA CountingKept ==
    ASSUME SubmitInv, NEW h \in Handler, NEW r,
           request' = [request EXCEPT ![h] = r],
           request[h].pc # "count", r.pc # "count", NEW s
    PROVE  Counting(s)' = Counting(s)
<1>1. request \in [Handler -> Request]
  BY DEF SubmitInv, TypeOK
<1>2. \A g \in Handler : /\ g = h => request'[g] = r
                         /\ g # h => request'[g] = request[g]
  BY <1>1
<1> QED  BY <1>2 DEF Counting

\* A request outside "count" makes a step that does not lead there.
LEMMA QuietCount ==
    ASSUME SubmitInv, CountInv, NEW h \in Handler,
           \/ Recheck(h) \/ ReadResponse(h) \/ UpdateSurveyResponse(h)
           \/ GetPost(h) \/ UpdatePost(h) \/ UpdateRatingGroupCount(h)
           \/ SendAcknowledgementPost(h) \/ RefreshGetPost(h)
           \/ RefreshCheckSurvey(h) \/ ExpireGetPost(h)
           \/ SetExpiredPropsInPost(h) \/ Answer(h)
    PROVE  CountInv'
<1> DEFINE q == request[h]
<1>1. q \in Request /\ (q.pc # "idle" => q.user \in User /\ q.survey \in SurveyID)
  BY OneRequest DEF RequestOK
<1>2. UNCHANGED <<responses, spent>> /\ q.pc \notin {"count", "idle"}
  BY DEF Recheck, ReadResponse, UpdateSurveyResponse, GetPost, UpdatePost,
         UpdateRatingGroupCount, SendAcknowledgementPost, RefreshGetPost,
         RefreshCheckSurvey, ExpireGetPost, SetExpiredPropsInPost, Answer,
         Outcome, counters
<1>3. \A s \in SurveyID : Stored(s)' = Stored(s)
  <2>1. CASE UNCHANGED row
    BY <2>1 DEF Stored
  <2>2. CASE UpdateSurveyResponse(h)
    <3>1. row' = [row EXCEPT ![q.user][q.survey] =
                    IF Partial(@) THEN Carried(q) ELSE @]
      BY <2>2 DEF UpdateSurveyResponse
    <3>2. row \in [User -> [SurveyID -> AtMostOne(Response)]]
      BY DEF SubmitInv, TypeOK
    <3>3. /\ Partial(row[q.user][q.survey]) => row[q.user][q.survey] # {}
          /\ Carried(q) # {}
      <4>1. q.pc \in Saving
        BY <2>2 DEF UpdateSurveyResponse, Saving
      <4>2. PICK r \in Rating : q.rating = {r}
        BY <4>1, OneRequest DEF RequestOK
      <4>3. [rating |-> r, type |-> q.type] \in Carried(q)
        BY <4>2 DEF Carried
      <4> QED  BY <4>3 DEF Partial
    <3> HIDE DEF q
    <3>4. \A u \in User, s \in SurveyID : row'[u][s] # {} <=> row[u][s] # {}
      BY <1>1, <1>2, <3>1, <3>2, <3>3
    <3> QED  BY <3>4 DEF Stored
  <2> QED
    BY <2>1, <2>2
       DEF Recheck, ReadResponse, GetPost, UpdatePost, UpdateRatingGroupCount,
           SendAcknowledgementPost, RefreshGetPost, RefreshCheckSurvey,
           ExpireGetPost, SetExpiredPropsInPost, Answer
<1>4. PICK r : request' = [request EXCEPT ![h] = r] /\ r.pc # "count"
  <2>1. \A pc, x : /\ At(q, pc).pc = pc
                   /\ WithOld(q, pc, x).pc = pc
                   /\ WithCopy(q, pc, x).pc = pc
    BY <1>1, Continued DEF Continues
  <2>2. CASE ReadResponse(h)
    <3> DEFINE old == row[q.user][q.survey]
               pc == IF old = {} THEN "insert"
                     ELSE IF Completed(old) THEN "ok" ELSE "update"
    <3>1. request' = [request EXCEPT ![h] = WithOld(q, pc, old)]
      BY <2>2 DEF ReadResponse
    <3>2. pc # "count"
      OBVIOUS
    <3> QED  BY <2>1, <3>1, <3>2
  <2>3. CASE GetPost(h) \/ RefreshGetPost(h) \/ ExpireGetPost(h)
    BY <2>1, <2>3 DEF GetPost, RefreshGetPost, ExpireGetPost
  <2>4. CASE Answer(h)
    <3>1. Idle.pc = "idle"
      BY DEF Idle, Sent
    <3> QED  BY <2>4, <3>1 DEF Answer
  <2>5. CASE \/ Recheck(h) \/ UpdateSurveyResponse(h) \/ UpdatePost(h)
             \/ UpdateRatingGroupCount(h) \/ SendAcknowledgementPost(h)
             \/ RefreshCheckSurvey(h) \/ SetExpiredPropsInPost(h)
    <3>1. PICK pc : request' = [request EXCEPT ![h] = At(q, pc)] /\ pc # "count"
      <4>1. CASE Recheck(h)
        BY <4>1 DEF Recheck, Goto
      <4>2. CASE UpdateRatingGroupCount(h)
        <5> DEFINE pc == IF q.type = "complete" THEN "ack" ELSE "ok"
        <5>1. request' = [request EXCEPT ![h] = At(q, pc)]
          BY <4>2 DEF UpdateRatingGroupCount, Goto
        <5>2. pc # "count"
          OBVIOUS
        <5> HIDE DEF pc
        <5> QED  BY <5>1, <5>2
      <4>3. CASE RefreshCheckSurvey(h)
        <5> DEFINE pc == IF q.survey \in running THEN "ok" ELSE "putended"
        <5>1. request' = [request EXCEPT ![h] = At(q, pc)]
          BY <4>3 DEF RefreshCheckSurvey, Goto
        <5>2. pc # "count"
          OBVIOUS
        <5> HIDE DEF pc
        <5> QED  BY <5>1, <5>2
      <4>4. CASE \/ UpdateSurveyResponse(h) \/ UpdatePost(h)
                 \/ SendAcknowledgementPost(h) \/ SetExpiredPropsInPost(h)
        BY <4>4 DEF UpdateSurveyResponse, UpdatePost, SendAcknowledgementPost,
                    SetExpiredPropsInPost, Goto
      <4> QED  BY <2>5, <4>1, <4>2, <4>3, <4>4
    <3> QED  BY <2>1, <3>1
  <2> QED  BY <2>2, <2>3, <2>4, <2>5
<1>5. \A s \in SurveyID : Counting(s)' = Counting(s)
  BY <1>2, <1>4, CountingKept
<1> QED  BY <1>2, <1>3, <1>5, CountKept

\* The first response of a user is stored, once, and the request will count it.
LEMMA SaveCount ==
    ASSUME SubmitInv, CountInv, NEW h \in Handler, SaveSurveyResponse(h)
    PROVE  CountInv'
<1> DEFINE q == request[h]
<1>1. /\ q \in Request /\ q.pc = "insert"
      /\ q.user \in User /\ q.survey \in SurveyID
  BY OneRequest DEF SaveSurveyResponse, RequestOK
<1>2. request \in [Handler -> Request] /\ row \in [User -> [SurveyID -> AtMostOne(Response)]]
  BY DEF SubmitInv, TypeOK
<1>3. UNCHANGED <<responses, spent>>
  BY DEF SaveSurveyResponse, counters
<1>4. CASE row[q.user][q.survey] # {}
  <2>1. request' = [request EXCEPT ![h] = At(q, "error")] /\ UNCHANGED row
    BY <1>4 DEF SaveSurveyResponse, Goto
  <2>2. At(q, "error").pc = "error"
    BY <1>1, Continued DEF Continues
  <2>3. \A s \in SurveyID : Counting(s)' = Counting(s)
    BY <1>1, <2>1, <2>2, CountingKept
  <2>4. \A s \in SurveyID : Stored(s)' = Stored(s)
    BY <2>1 DEF Stored
  <2> QED  BY <1>3, <2>3, <2>4, CountKept
<1>5. CASE row[q.user][q.survey] = {}
  <2>1. /\ request' = [request EXCEPT ![h] = At(q, "count")]
        /\ row' = [row EXCEPT ![q.user][q.survey] = Carried(q)]
    BY <1>5 DEF SaveSurveyResponse, Goto
  <2>2. At(q, "count").pc = "count" /\ At(q, "count").survey = q.survey
    BY <1>1, Continued DEF Continues
  <2>3. \A g \in Handler : /\ g = h => request'[g] = At(q, "count")
                           /\ g # h => request'[g] = request[g]
    BY <1>2, <2>1
  <2>4. Carried(q) # {}
    <3>1. PICK r \in Rating : q.rating = {r}
      BY <1>1, OneRequest DEF RequestOK, Saving
    <3>2. [rating |-> r, type |-> q.type] \in Carried(q)
      BY <3>1 DEF Carried
    <3> QED  BY <3>2
  <2> SUFFICES ASSUME NEW s \in SurveyID PROVE Accounts(s)'
    BY DEF CountInv
  <2>5. Accounts(s)
    BY DEF CountInv
  <2>6. CASE s # q.survey
    <3>1. Stored(s)' = Stored(s)
      BY <1>1, <1>2, <2>1, <2>6 DEF Stored
    <3>2. Counting(s)' = Counting(s)
      BY <1>1, <2>2, <2>3, <2>6 DEF Counting
    <3> QED  BY <1>3, <2>5, <3>1, <3>2 DEF Accounts
  <2>7. CASE s = q.survey
    <3>1. Stored(s)' = Stored(s) \union {q.user} /\ q.user \notin Stored(s)
      <4>1. \A u \in User : row'[u][s] # {} <=> (u = q.user \/ row[u][s] # {})
        <5> HIDE DEF q
        <5> QED  BY <1>1, <1>2, <2>1, <2>4, <2>7
      <4> QED  BY <1>1, <1>5, <2>7, <4>1 DEF Stored
    <3>2. Counting(s)' = Counting(s) \union {h} /\ h \notin Counting(s)
      BY <1>1, <2>2, <2>3, <2>7 DEF Counting
    <3>3. /\ IsFiniteSet(Stored(s))' /\ IsFiniteSet(Counting(s))'
          /\ Cardinality(Stored(s))' = Cardinality(Stored(s)) + 1
          /\ Cardinality(Counting(s))' = Cardinality(Counting(s)) + 1
      BY <2>5, <3>1, <3>2, FS_AddElement DEF Accounts
    <3>4. Balance(responses[s], Cardinality(Stored(s)) + 1,
                  Cardinality(Counting(s)) + 1, spent.faults)
      BY <2>5, Sizes DEF Accounts, Balance
    <3> QED  BY <1>3, <3>3, <3>4 DEF Accounts
  <2> QED  BY <2>6, <2>7
<1> QED  BY <1>4, <1>5

\* A request stops counting: the response is counted, or the call failed.
LEMMA CountedOrLost ==
    ASSUME SubmitInv, CountInv, NEW h \in Handler, request[h].pc = "count",
           IncrementSurveyResponseCount(h) \/ CallFails(h)
    PROVE  CountInv'
<1> DEFINE q == request[h]
<1>1. q \in Request /\ q.survey \in SurveyID
  BY OneRequest DEF RequestOK
<1>2. PICK r : request' = [request EXCEPT ![h] = r] /\ r.pc # "count"
  <2>1. \A pc : At(q, pc).pc = pc
    BY <1>1, Continued DEF Continues
  <2> QED  BY <2>1 DEF IncrementSurveyResponseCount, CallFails, Goto
<1>3. request \in [Handler -> Request] /\ responses \in [SurveyID -> Nat]
  BY DEF SubmitInv, TypeOK
<1>4. /\ UNCHANGED row
      /\ \/ responses' = [responses EXCEPT ![q.survey] = responses[q.survey] + 1]
             /\ UNCHANGED spent
         \/ UNCHANGED responses /\ spent'.faults = spent.faults + 1
  BY FaultCounts DEF IncrementSurveyResponseCount, CallFails, counters
<1> SUFFICES ASSUME NEW s \in SurveyID PROVE Accounts(s)'
  BY DEF CountInv
<1>5. Accounts(s) /\ Stored(s)' = Stored(s)
  BY <1>4 DEF CountInv, Stored
<1>6. \A g \in Handler : /\ g # h => request'[g] = request[g]
                         /\ g = h => request'[g] = r
  BY <1>2, <1>3
<1>7. CASE s # q.survey
  <2>1. Counting(s)' = Counting(s)
    BY <1>2, <1>6, <1>7 DEF Counting
  <2>2. responses'[s] = responses[s]
    BY <1>3, <1>4, <1>7
  <2>3. Balance(responses[s], Cardinality(Stored(s)), Cardinality(Counting(s)),
                spent'.faults)
    BY <1>4, <1>5, Sizes DEF Accounts, Balance
  <2> QED  BY <1>5, <2>1, <2>2, <2>3 DEF Accounts
<1>8. CASE s = q.survey
  <2>1. Counting(s)' = Counting(s) \ {h} /\ h \in Counting(s)
    BY <1>2, <1>6, <1>8 DEF Counting
  <2>2. /\ IsFiniteSet(Counting(s))'
        /\ Cardinality(Counting(s))' = Cardinality(Counting(s)) - 1
    BY <1>5, <2>1, FS_RemoveElement DEF Accounts
  <2>3. \/ responses'[s] = responses[s] + 1 /\ spent'.faults = spent.faults
        \/ responses'[s] = responses[s] /\ spent'.faults = spent.faults + 1
    BY <1>3, <1>4, <1>8
  <2>4. Balance(responses'[s], Cardinality(Stored(s)), Cardinality(Counting(s)) - 1,
                spent'.faults)
    BY <1>5, <2>3, Sizes DEF Accounts, Balance
  <2> QED  BY <1>5, <2>2, <2>4 DEF Accounts
<1> QED  BY <1>7, <1>8

\* A request begins, or a call other than the count fails.
LEMMA OtherCount ==
    ASSUME SubmitInv, CountInv, NEW h \in Handler,
           \/ CallFails(h) /\ request[h].pc # "count"
           \/ \E u \in User, s \in SurveyID : SubmitBegin(h, u, s) \/ RefreshBegin(h, u, s)
    PROVE  CountInv'
<1>1. UNCHANGED <<row, responses>> /\ request[h].pc # "count"
  BY DEF CallFails, SubmitBegin, RefreshBegin, counters
<1>2. PICK r : request' = [request EXCEPT ![h] = r] /\ r.pc # "count"
  <2>1. CASE CallFails(h)
    <3>1. At(request[h], "error").pc = "error"
      BY OneRequest, Continued DEF Continues
    <3> QED  BY <2>1, <3>1 DEF CallFails, Goto
  <2>2. ASSUME NEW u \in User, NEW s \in SurveyID, SubmitBegin(h, u, s)
        PROVE  \E r : request' = [request EXCEPT ![h] = r] /\ r.pc # "count"
    <3>1. PICK type, rating :
            request' = [request EXCEPT ![h] =
              Sent(IF s \in running THEN "recheck" ELSE "expire", u, s, type, {rating})]
      BY <2>2 DEF SubmitBegin
    <3>2. Sent(IF s \in running THEN "recheck" ELSE "expire", u, s, type, {rating}).pc
            # "count"
      BY DEF Sent
    <3> QED  BY <3>1, <3>2
  <2>3. ASSUME NEW u \in User, NEW s \in SurveyID, RefreshBegin(h, u, s)
        PROVE  \E r : request' = [request EXCEPT ![h] = r] /\ r.pc # "count"
    <3>1. Sent("refresh", u, s, "refresh", {}).pc = "refresh"
      BY DEF Sent
    <3> QED  BY <2>3, <3>1 DEF RefreshBegin
  <2> QED  BY <2>1, <2>2, <2>3
<1>3. UNCHANGED spent.faults \/ Fault
  <2>1. spent \in [submits : 0..MaxSubmits, faults : 0..MaxFaults]
    BY DEF SubmitInv, TypeOK
  <2>2. UNCHANGED spent \/ Fault \/ spent' = [spent EXCEPT !.submits = spent.submits + 1]
    BY DEF CallFails, SubmitBegin, RefreshBegin
  <2> QED  BY <2>1, <2>2
<1>4. \A s \in SurveyID : Stored(s)' = Stored(s) /\ Counting(s)' = Counting(s)
  BY <1>1, <1>2, CountingKept DEF Stored
<1> QED  BY <1>1, <1>3, <1>4, CountKept

LEMMA CountStep == SubmitInv /\ CountInv /\ [Next]_vars => CountInv'
<1> SUFFICES ASSUME SubmitInv, CountInv, [Next]_vars PROVE CountInv'
  OBVIOUS
<1>1. ASSUME NEW h \in Handler, Serve(h) PROVE CountInv'
  <2>1. CASE IncrementSurveyResponseCount(h)
    BY <2>1, CountedOrLost DEF IncrementSurveyResponseCount
  <2> QED  BY <1>1, <2>1, QuietCount, SaveCount DEF Serve
<1>2. ASSUME NEW h \in Handler, CallFails(h) PROVE CountInv'
  BY <1>2, CountedOrLost, OtherCount
<1>3. ASSUME NEW h \in Handler, NEW u \in User, NEW s \in SurveyID,
             SubmitBegin(h, u, s) \/ RefreshBegin(h, u, s)
      PROVE  CountInv'
  BY <1>3, OtherCount
<1>4. CASE SurveyStep \/ UNCHANGED vars
  <2>1. UNCHANGED <<row, responses, request, spent>>
    BY <1>4 DEF SurveyStep, vars, counters
  <2>2. \A s \in SurveyID : Stored(s)' = Stored(s) /\ Counting(s)' = Counting(s)
    BY <2>1 DEF Stored, Counting
  <2> QED  BY <2>1, <2>2, CountKept
<1> QED  BY <1>1, <1>2, <1>3, <1>4 DEF Next, Refresh

\* However many requests of however many users overlap and fail, the responses
\* counted and about to be counted are at most those stored, and short of them
\* by no more than one for each failed call.
THEOREM EveryResponseIsAccounted == Spec => []ResponsesAccounted
<1>1. CountInv => ResponsesAccounted
  BY DEF CountInv, Accounts, Balance, Stored, Counting, ResponsesAccounted
<1> QED  BY CountInit, CountStep, <1>1, SubmitInvCorrect, PTL DEF Spec

----------------------------------------------------------------------------
(* Requests of a user that do not overlap.                                 *)

OneAtATime ==
    \A g, h \in Handler :
        /\ request[g].pc # "idle" /\ request[h].pc # "idle"
        /\ request[g].user = request[h].user
        => g = h

\* Between storing the response and the post, the post is behind.
Lagging == {"count", "getpost", "putpost"}

Lags(u, s) == \E h \in Handler : /\ request[h].pc \in Lagging
                                 /\ request[h].user = u
                                 /\ request[h].survey = s

\* What a request knows of the user's responses rs, their n acknowledgements
\* and the surveys over, after f faults.
Knows(q, rs, n, over, f) ==
    /\ q.pc \in {"insert", "update"} => ~Completed(rs)
    /\ q.pc \in {"insert", "update"} \union Writing => n = 0
    /\ q.pc = "ack" => q.type = "complete"
    /\ q.pc \in {"expire", "putended"} => q.survey \in over
    /\ q.pc = "putpost" /\ q.copy.status = "ended" => q.survey \in over
    /\ f = 0 /\ q.pc \in Lagging =>
         q.rating = RatingsOf(rs) /\ (Completed(rs) => q.type = "complete")
    /\ f = 0 /\ q.pc \in {"check", "putended"} => q.copy.answer = RatingsOf(rs)

Shown(rs, p) == p.answer = RatingsOf(rs) /\ (p.status = "open" => ~Completed(rs))

\* How responses, post and acknowledgements agree while a request is at pc.
Fits(pc, rs, p, n, s, over, f) ==
    /\ n \in {0, 1}
    /\ n = 1 => Completed(rs)
    /\ p.status = "ended" => s \in over
    /\ f = 0 /\ pc \notin Lagging => Shown(rs, p)

Settled(u, s) ==
    Fits(IF Lags(u, s) THEN "count" ELSE "idle", row[u][s], post[u][s], acks[u][s],
         s, past, spent.faults)

SerialInv ==
    /\ OneAtATime
    /\ \A h \in Handler :
         LET q == request[h]
         IN  q.pc # "idle" => Knows(q, row[q.user][q.survey], acks[q.user][q.survey],
                                    past, spent.faults)
    /\ \A u \in User, s \in SurveyID : Settled(u, s)

LEMMA SerialInit == Init => SerialInv
<1> SUFFICES ASSUME Init PROVE SerialInv
  OBVIOUS
<1>1. \A h \in Handler : request[h].pc = "idle"
  BY DEF Init, Idle, Sent
<1>2. ASSUME NEW u \in User, NEW s \in SurveyID PROVE Settled(u, s)
  <2>1. row[u][s] = {} /\ post[u][s] = NewPost /\ acks[u][s] = 0
    BY DEF Init
  <2>2. ~Lags(u, s)
    BY <1>1 DEF Lags, Lagging
  <2>3. Shown({}, NewPost)
    BY DEF Shown, NewPost, RatingsOf, Completed
  <2>4. NewPost.status # "ended"
    BY DEF NewPost
  <2> QED  BY <2>1, <2>2, <2>3, <2>4 DEF Settled, Fits
<1> QED  BY <1>1, <1>2 DEF SerialInv, OneAtATime

\* What one request may rely on.
LEMMA SerialFacts ==
    ASSUME SubmitInv, SerialInv, NEW h \in Handler, NEW q, q = request[h],
           q.pc # "idle"
    PROVE  /\ q \in Request /\ q.user \in User /\ q.survey \in SurveyID
           /\ Knows(q, row[q.user][q.survey], acks[q.user][q.survey], past, spent.faults)
           /\ Fits(q.pc, row[q.user][q.survey], post[q.user][q.survey],
                   acks[q.user][q.survey], q.survey, past, spent.faults)
           /\ spent.faults \in Nat
<1>1. q \in Request /\ q.user \in User /\ q.survey \in SurveyID
  BY OneRequest DEF RequestOK
<1>2. Knows(q, row[q.user][q.survey], acks[q.user][q.survey], past, spent.faults)
  BY DEF SerialInv
<1>3. Settled(q.user, q.survey)
  BY <1>1 DEF SerialInv
<1>4. q.pc \notin Lagging => ~Lags(q.user, q.survey)
  BY DEF SerialInv, OneAtATime, Lags, Lagging
<1>5. Fits(q.pc, row[q.user][q.survey], post[q.user][q.survey],
           acks[q.user][q.survey], q.survey, past, spent.faults)
  BY <1>3, <1>4 DEF Settled, Fits, Lagging
<1>6. spent.faults \in Nat
  <2>1. spent \in [submits : 0..MaxSubmits, faults : 0..MaxFaults]
    BY DEF SubmitInv, TypeOK
  <2> QED  BY <2>1
<1> QED  BY <1>1, <1>2, <1>5, <1>6

\* Nothing changes but what belongs to user w and survey t.
OthersKept(w, t) ==
    \A u \in User, s \in SurveyID : u # w \/ s # t =>
        /\ row'[u][s] = row[u][s]
        /\ post'[u][s] = post[u][s]
        /\ acks'[u][s] = acks[u][s]

\* A request of one user changes nothing another one relies on.
LEMMA SerialStep ==
    ASSUME SubmitInv, SerialInv, NEW h \in Handler, NEW q, q = request[h],
           q.pc # "idle", NEW r, request' = [request EXCEPT ![h] = r],
           r.pc # "idle" => r.user = q.user /\ r.survey = q.survey,
           UNCHANGED past, spent'.faults = 0 => spent.faults = 0,
           OthersKept(q.user, q.survey),
           r.pc # "idle" => Knows(r, row'[q.user][q.survey], acks'[q.user][q.survey],
                                  past, spent'.faults),
           Fits(r.pc, row'[q.user][q.survey], post'[q.user][q.survey],
                acks'[q.user][q.survey], q.survey, past, spent'.faults)
    PROVE  SerialInv'
<1>1. /\ request'[h] = r
      /\ \A g \in Handler \ {h} : request'[g] = request[g]
      /\ \A g \in Handler : request[g].pc # "idle" =>
           request[g].user \in User /\ request[g].survey \in SurveyID
  BY DEF SubmitInv, TypeOK, RequestsHold, RequestOK
<1>2. OneAtATime'
  BY <1>1 DEF SerialInv, OneAtATime
<1>3. \A g \in Handler \ {h} : request[g].pc # "idle" => request[g].user # q.user
  BY DEF SerialInv, OneAtATime
<1>4. ASSUME NEW g \in Handler, request'[g].pc # "idle"
      PROVE  Knows(request'[g], row'[request'[g].user][request'[g].survey],
                   acks'[request'[g].user][request'[g].survey], past', spent'.faults)
  <2>1. CASE g = h
    BY <1>1, <1>4, <2>1
  <2>2. CASE g # h
    <3>1. PICK p : p = request[g]
      OBVIOUS
    <3>2. request'[g] = p /\ p.pc # "idle" /\ p.user # q.user
      BY <1>1, <1>3, <1>4, <2>2, <3>1
    <3>3. /\ row'[p.user][p.survey] = row[p.user][p.survey]
          /\ acks'[p.user][p.survey] = acks[p.user][p.survey]
      BY <1>1, <3>1, <3>2 DEF OthersKept
    <3>4. Knows(p, row[p.user][p.survey], acks[p.user][p.survey], past, spent.faults)
      BY <3>1, <3>2 DEF SerialInv
    <3>5. Knows(p, row[p.user][p.survey], acks[p.user][p.survey], past, spent'.faults)
      BY <3>4 DEF Knows
    <3> QED  BY <3>2, <3>3, <3>5
  <2> QED  BY <2>1, <2>2
<1>5. ASSUME NEW u \in User, NEW s \in SurveyID PROVE Settled(u, s)'
  <2>1. CASE u = q.user /\ s = q.survey
    <3>1. r.pc \in Lagging => Lags(u, s)'
      BY <1>1, <2>1 DEF Lags, Lagging
    <3> QED  BY <2>1, <3>1 DEF Settled, Fits, Lagging
  <2>2. CASE u # q.user \/ s # q.survey
    <3>1. Lags(u, s) => Lags(u, s)'
      BY <1>1, <2>2 DEF Lags
    <3>2. /\ row'[u][s] = row[u][s] /\ post'[u][s] = post[u][s]
          /\ acks'[u][s] = acks[u][s]
      BY <2>2 DEF OthersKept
    <3>3. Settled(u, s)
      BY DEF SerialInv
    <3> QED  BY <3>1, <3>2, <3>3 DEF Settled, Fits, Lagging
  <2> QED  BY <2>1, <2>2
<1> QED  BY <1>2, <1>4, <1>5 DEF SerialInv

\* Steps that leave the stores as they are.
LEMMA SerialReads ==
    ASSUME SubmitInv, SerialInv, NEW h \in Handler,
           \/ Recheck(h) \/ ReadResponse(h) \/ IncrementSurveyResponseCount(h)
           \/ GetPost(h) \/ UpdateRatingGroupCount(h) \/ RefreshGetPost(h)
           \/ RefreshCheckSurvey(h) \/ ExpireGetPost(h) \/ Answer(h) \/ CallFails(h)
    PROVE  SerialInv'
<1>1. PICK q : q = request[h]
  OBVIOUS
<1>2. q.pc # "idle" /\ UNCHANGED <<running, past, row, post, acks>>
  BY <1>1 DEF Recheck, ReadResponse, IncrementSurveyResponseCount, GetPost,
       UpdateRatingGroupCount, RefreshGetPost, RefreshCheckSurvey, ExpireGetPost,
       Answer, CallFails, Outcome, surveys, posted
<1>3. PICK rs, p, n, f : /\ rs = row[q.user][q.survey] /\ p = post[q.user][q.survey]
                         /\ n = acks[q.user][q.survey] /\ f = spent.faults
  OBVIOUS
<1>4. /\ q \in Request /\ q.user \in User /\ q.survey \in SurveyID /\ f \in Nat
      /\ Knows(q, rs, n, past, f) /\ Fits(q.pc, rs, p, n, q.survey, past, f)
      /\ RequestOK(q, row, running \union past, past)
  BY <1>1, <1>2, <1>3, SerialFacts, OneRequest
<1>5. ASSUME NEW r, request' = [request EXCEPT ![h] = r],
             r.pc # "idle" => r.user = q.user /\ r.survey = q.survey,
             NEW e, spent'.faults = e, e = 0 => f = 0,
             r.pc # "idle" => Knows(r, rs, n, past, e),
             Fits(r.pc, rs, p, n, q.survey, past, e)
      PROVE  SerialInv'
  <2>1. OthersKept(q.user, q.survey)
    BY <1>2 DEF OthersKept
  <2> QED  BY <1>1, <1>2, <1>3, <1>5, <2>1, SerialStep
<1>6. CASE Recheck(h)
  <2>1. PICK pc \in {"panic", "read", "error"} : request' = [request EXCEPT ![h] = At(q, pc)]
    BY <1>1, <1>6 DEF Recheck, Goto
  <2>2. PICK r : r = At(q, pc)
    OBVIOUS
  <2>3. Continues(r, q, pc) /\ q.pc = "recheck" /\ spent'.faults = f
    BY <1>1, <1>3, <1>4, <1>6, <2>2, Continued DEF Recheck
  <2> QED  BY <1>4, <1>5, <2>1, <2>2, <2>3 DEF Continues, Knows, Fits, Lagging, Writing
<1>7. CASE ReadResponse(h)
  <2>1. PICK pc \in {"insert", "ok", "update"} :
          /\ request' = [request EXCEPT ![h] = WithOld(q, pc, rs)]
          /\ pc # "ok" => ~Completed(rs)
    BY <1>1, <1>3, <1>7 DEF ReadResponse, Completed
  <2>2. PICK r : r = WithOld(q, pc, rs)
    OBVIOUS
  <2>3. Continues(r, q, pc) /\ q.pc = "read" /\ spent'.faults = f
    BY <1>1, <1>3, <1>4, <1>7, <2>2, Continued DEF ReadResponse
  <2>4. n = 0 \/ pc = "ok"
    BY <1>4, <2>1 DEF Fits
  <2> QED  BY <1>4, <1>5, <2>1, <2>2, <2>3, <2>4 DEF Continues, Knows, Fits, Lagging, Writing
<1>8. CASE IncrementSurveyResponseCount(h)
  <2>1. PICK r : r = At(q, "getpost")
    OBVIOUS
  <2>2. /\ Continues(r, q, "getpost") /\ q.pc = "count" /\ spent'.faults = f
        /\ request' = [request EXCEPT ![h] = r]
    BY <1>1, <1>3, <1>4, <1>8, <2>1, Continued DEF IncrementSurveyResponseCount, Goto
  <2> QED  BY <1>4, <1>5, <2>2 DEF Continues, Knows, Fits, Lagging, Writing
<1>9. CASE GetPost(h)
  <2>1. PICK r : r = WithCopy(q, "putpost", p)
    OBVIOUS
  <2>2. /\ Continues(r, q, "putpost") /\ r.copy = p /\ q.pc = "getpost"
        /\ spent'.faults = f /\ request' = [request EXCEPT ![h] = r]
    BY <1>1, <1>3, <1>4, <1>9, <2>1, Continued DEF GetPost
  <2> QED  BY <1>4, <1>5, <2>2 DEF Continues, Knows, Fits, Lagging, Writing
<1>10. CASE UpdateRatingGroupCount(h)
  <2>1. PICK pc \in {"ack", "ok"} :
          /\ request' = [request EXCEPT ![h] = At(q, pc)]
          /\ pc = "ack" => q.type = "complete"
    BY <1>1, <1>10 DEF UpdateRatingGroupCount, Goto
  <2>2. PICK r : r = At(q, pc)
    OBVIOUS
  <2>3. Continues(r, q, pc) /\ q.pc = "groups" /\ spent'.faults = f
    BY <1>1, <1>3, <1>4, <1>10, <2>2, Continued DEF UpdateRatingGroupCount
  <2> QED  BY <1>4, <1>5, <2>1, <2>2, <2>3 DEF Continues, Knows, Fits, Lagging, Writing
<1>11. CASE RefreshGetPost(h)
  <2>1. PICK r : r = WithCopy(q, "check", p)
    OBVIOUS
  <2>2. /\ Continues(r, q, "check") /\ r.copy = p /\ q.pc = "refresh"
        /\ spent'.faults = f /\ request' = [request EXCEPT ![h] = r]
    BY <1>1, <1>3, <1>4, <1>11, <2>1, Continued DEF RefreshGetPost
  <2> QED  BY <1>4, <1>5, <2>2 DEF Continues, Knows, Fits, Lagging, Writing, Shown
<1>12. CASE RefreshCheckSurvey(h)
  <2>1. PICK pc \in {"ok", "putended"} :
          /\ request' = [request EXCEPT ![h] = At(q, pc)]
          /\ pc = "putended" => q.survey \notin running
    BY <1>1, <1>12 DEF RefreshCheckSurvey, Goto
  <2>2. PICK r : r = At(q, pc)
    OBVIOUS
  <2>3. /\ Continues(r, q, pc) /\ r.copy = q.copy /\ q.pc = "check"
        /\ spent'.faults = f
    BY <1>1, <1>3, <1>4, <1>12, <2>2, Continued DEF RefreshCheckSurvey
  <2>4. pc = "putended" => q.survey \in past
    BY <1>2, <1>4, <2>1, <2>3 DEF RequestOK
  <2>5. Knows(r, rs, n, past, f)
    BY <1>4, <2>1, <2>3, <2>4 DEF Continues, Knows, Lagging, Writing
  <2>6. Fits(r.pc, rs, p, n, q.survey, past, f)
    BY <1>4, <2>3 DEF Fits, Lagging
  <2> QED  BY <1>5, <2>1, <2>2, <2>3, <2>5, <2>6 DEF Continues
<1>13. CASE ExpireGetPost(h)
  <2>1. PICK r : r = WithCopy(q, "putended", p)
    OBVIOUS
  <2>2. /\ Continues(r, q, "putended") /\ r.copy = p /\ q.pc = "expire"
        /\ spent'.faults = f /\ request' = [request EXCEPT ![h] = r]
    BY <1>1, <1>3, <1>4, <1>13, <2>1, Continued DEF ExpireGetPost
  <2> QED  BY <1>4, <1>5, <2>2 DEF Continues, Knows, Fits, Lagging, Writing, Shown
<1>14. CASE Answer(h)
  <2>1. Idle.pc = "idle"
    BY DEF Idle, Sent
  <2>2. /\ q.pc \in Outcome /\ spent'.faults = f
        /\ request' = [request EXCEPT ![h] = Idle]
    BY <1>1, <1>3, <1>14 DEF Answer
  <2> QED  BY <1>4, <1>5, <2>1, <2>2 DEF Outcome, Fits, Lagging
<1>15. CASE CallFails(h)
  <2>1. PICK r : r = At(q, "error")
    OBVIOUS
  <2>2. /\ Continues(r, q, "error") /\ spent'.faults = f + 1
        /\ request' = [request EXCEPT ![h] = r]
    BY <1>1, <1>3, <1>4, <1>15, <2>1, Continued, FaultCounts DEF CallFails, Goto
  <2>3. f + 1 # 0
    BY <1>4
  <2>4. Knows(r, rs, n, past, f + 1) /\ Fits(r.pc, rs, p, n, q.survey, past, f + 1)
    BY <1>4, <2>2, <2>3 DEF Continues, Knows, Fits, Lagging, Writing
  <2> QED  BY <1>5, <2>2, <2>3, <2>4 DEF Continues
<1> QED
  BY <1>6, <1>7, <1>8, <1>9, <1>10, <1>11, <1>12, <1>13, <1>14, <1>15

\* Steps that write a response, a post or an acknowledgement.
LEMMA SerialWrites ==
    ASSUME SubmitInv, SerialInv, NEW h \in Handler,
           \/ SaveSurveyResponse(h) \/ UpdateSurveyResponse(h)
           \/ UpdatePost(h) \/ SetExpiredPropsInPost(h)
           \/ SendAcknowledgementPost(h)
    PROVE  SerialInv'
<1>1. PICK q : q = request[h]
  OBVIOUS
<1>2. q.pc # "idle" /\ UNCHANGED <<running, past, spent>>
  BY <1>1 DEF SaveSurveyResponse, UpdateSurveyResponse, UpdatePost,
       SetExpiredPropsInPost, SendAcknowledgementPost, surveys
<1>3. PICK rs, p, n, f : /\ rs = row[q.user][q.survey] /\ p = post[q.user][q.survey]
                         /\ n = acks[q.user][q.survey] /\ f = spent.faults
  OBVIOUS
<1>4. /\ q \in Request /\ q.user \in User /\ q.survey \in SurveyID /\ f \in Nat
      /\ Knows(q, rs, n, past, f) /\ Fits(q.pc, rs, p, n, q.survey, past, f)
      /\ RequestOK(q, row, running \union past, past)
  BY <1>1, <1>2, <1>3, SerialFacts, OneRequest
<1>5. /\ row \in [User -> [SurveyID -> AtMostOne(Response)]]
      /\ post \in [User -> [SurveyID -> Post]]
      /\ acks \in [User -> [SurveyID -> Nat]]
      /\ rs \in AtMostOne(Response)
  BY <1>3, <1>4 DEF SubmitInv, TypeOK
<1>6. ASSUME NEW pc, request' = [request EXCEPT ![h] = At(q, pc)], pc # "idle",
             NEW xs, NEW x, NEW m,
             row'[q.user][q.survey] = xs, post'[q.user][q.survey] = x,
             acks'[q.user][q.survey] = m,
             OthersKept(q.user, q.survey),
             \A r : Continues(r, q, pc) => Knows(r, xs, m, past, f),
             Fits(pc, xs, x, m, q.survey, past, f)
      PROVE  SerialInv'
  <2>1. PICK r : r = At(q, pc)
    OBVIOUS
  <2>2. Continues(r, q, pc)
    BY <1>4, <2>1, Continued
  <2>3. /\ request' = [request EXCEPT ![h] = r] /\ r.pc = pc
        /\ r.user = q.user /\ r.survey = q.survey
        /\ UNCHANGED past /\ spent'.faults = f
    BY <1>2, <1>3, <1>6, <2>1, <2>2 DEF Continues
  <2>4. /\ Knows(r, row'[q.user][q.survey], acks'[q.user][q.survey], past,
                 spent'.faults)
        /\ Fits(r.pc, row'[q.user][q.survey], post'[q.user][q.survey],
                acks'[q.user][q.survey], q.survey, past, spent'.faults)
    BY <1>6, <2>2, <2>3
  <2>5. spent'.faults = 0 => spent.faults = 0
    BY <1>3, <2>3
  <2> QED  BY <1>1, <1>2, <1>6, <2>3, <2>4, <2>5, SerialStep
<1>7. q.pc \in Saving =>
        /\ RatingsOf(Carried(q)) = q.rating
        /\ Completed(Carried(q)) <=> q.type = "complete"
  <2> SUFFICES ASSUME q.pc \in Saving
               PROVE  /\ RatingsOf(Carried(q)) = q.rating
                      /\ Completed(Carried(q)) <=> q.type = "complete"
    OBVIOUS
  <2>1. PICK r \in Rating : q.rating = {r}
    BY <1>4 DEF RequestOK
  <2>2. PICK new : new = [rating |-> r, type |-> q.type]
    OBVIOUS
  <2>3. Carried(q) = {new}
    BY <2>1, <2>2, CarriedIsOne
  <2> QED  BY <2>1, <2>2, <2>3 DEF RatingsOf, Completed
<1>8. CASE SaveSurveyResponse(h)
  <2>1. q.pc = "insert" /\ UNCHANGED <<post, acks>>
    BY <1>1, <1>8 DEF SaveSurveyResponse, posted
  <2>2. CASE rs = {}
    <3>1. /\ row' = [row EXCEPT ![q.user][q.survey] = Carried(q)]
          /\ request' = [request EXCEPT ![h] = At(q, "count")]
      BY <1>1, <1>3, <1>8, <2>2 DEF SaveSurveyResponse, Goto
    <3>2. /\ row'[q.user][q.survey] = Carried(q)
          /\ OthersKept(q.user, q.survey)
      BY <1>4, <1>5, <3>1, <2>1 DEF OthersKept
    <3>3. \A r : Continues(r, q, "count") => Knows(r, Carried(q), n, past, f)
      BY <1>4, <1>7, <2>1 DEF Continues, Knows, Writing, Lagging, Saving
    <3>4. Fits("count", Carried(q), p, n, q.survey, past, f)
      BY <1>4, <2>1 DEF Fits, Knows, Lagging
    <3> QED  BY <1>3, <1>6, <2>1, <3>1, <3>2, <3>3, <3>4
  <2>3. CASE rs # {}
    <3>1. row' = row /\ request' = [request EXCEPT ![h] = At(q, "error")]
      BY <1>1, <1>3, <1>8, <2>3 DEF SaveSurveyResponse, Goto
    <3>2. \A r : Continues(r, q, "error") => Knows(r, rs, n, past, f)
      BY DEF Continues, Knows, Writing, Lagging
    <3>3. Fits("error", rs, p, n, q.survey, past, f)
      BY <1>4, <2>1 DEF Fits, Lagging
    <3>4. OthersKept(q.user, q.survey)
      BY <2>1, <3>1 DEF OthersKept
    <3> QED  BY <1>3, <1>6, <2>1, <3>1, <3>2, <3>3, <3>4
  <2> QED  BY <2>2, <2>3
<1>9. CASE UpdateSurveyResponse(h)
  <2>1. /\ q.pc = "update" /\ UNCHANGED <<post, acks>>
        /\ request' = [request EXCEPT ![h] = At(q, "getpost")]
    BY <1>1, <1>9 DEF UpdateSurveyResponse, posted, Goto
  <2>2. Partial(rs)
    <3>1. rs # {} /\ ~Completed(rs)
      BY <1>3, <1>4, <2>1 DEF RequestOK, Knows
    <3>2. PICK r \in Response : rs = {r}
      BY <1>5, <3>1 DEF AtMostOne
    <3>3. r.type \in {"partial", "complete"}
      BY DEF Response
    <3> QED  BY <3>1, <3>2, <3>3 DEF Partial, Completed
  <2>3. row' = [row EXCEPT ![q.user][q.survey] = Carried(q)]
    BY <1>1, <1>3, <1>9, <2>2 DEF UpdateSurveyResponse
  <2>4. /\ row'[q.user][q.survey] = Carried(q)
        /\ OthersKept(q.user, q.survey)
    BY <1>4, <1>5, <2>3, <2>1 DEF OthersKept
  <2>5. \A r : Continues(r, q, "getpost") => Knows(r, Carried(q), n, past, f)
    BY <1>4, <1>7, <2>1 DEF Continues, Knows, Writing, Lagging, Saving
  <2>6. Fits("getpost", Carried(q), p, n, q.survey, past, f)
    BY <1>4, <2>1 DEF Fits, Knows, Lagging
  <2> QED  BY <1>3, <1>6, <2>1, <2>4, <2>5, <2>6
<1>10. CASE UpdatePost(h)
  <2>1. PICK x : x = Answered(q.copy, q)
    OBVIOUS
  <2>2. /\ q.pc = "putpost" /\ UNCHANGED <<row, acks>>
        /\ request' = [request EXCEPT ![h] = At(q, "groups")]
        /\ post' = [post EXCEPT ![q.user][q.survey] = x]
    BY <1>1, <1>10, <2>1 DEF UpdatePost, Goto
  <2>3. /\ post'[q.user][q.survey] = x
        /\ OthersKept(q.user, q.survey)
    BY <1>4, <1>5, <2>2 DEF OthersKept
  <2>4. \A r : Continues(r, q, "groups") => Knows(r, rs, n, past, f)
    BY <1>4, <2>2 DEF Continues, Knows, Writing, Lagging
  <2>5. /\ x.answer = q.rating
        /\ x.status = IF q.type = "complete" THEN "submitted" ELSE q.copy.status
    BY <2>1 DEF Answered
  <2>6. Fits("groups", rs, x, n, q.survey, past, f)
    BY <1>4, <2>2, <2>5 DEF Fits, Knows, Lagging, Shown
  <2> QED  BY <1>3, <1>6, <2>2, <2>3, <2>4, <2>6
<1>11. CASE SetExpiredPropsInPost(h)
  <2>1. PICK x : x = Expired(q.copy)
    OBVIOUS
  <2>2. /\ q.pc = "putended" /\ UNCHANGED <<row, acks>>
        /\ request' = [request EXCEPT ![h] = At(q, "ok")]
        /\ post' = [post EXCEPT ![q.user][q.survey] = x]
    BY <1>1, <1>11, <2>1 DEF SetExpiredPropsInPost, Goto
  <2>3. /\ post'[q.user][q.survey] = x
        /\ OthersKept(q.user, q.survey)
    BY <1>4, <1>5, <2>2 DEF OthersKept
  <2>4. \A r : Continues(r, q, "ok") => Knows(r, rs, n, past, f)
    BY DEF Continues, Knows, Writing, Lagging
  <2>5. x.answer = q.copy.answer /\ x.status = "ended"
    <3>1. q.copy \in Post
      BY <1>4 DEF Request
    <3> QED  BY <2>1, <3>1 DEF Expired, Post
  <2>6. Fits("ok", rs, x, n, q.survey, past, f)
    BY <1>4, <2>2, <2>5 DEF Fits, Knows, Lagging, Shown
  <2> QED  BY <1>3, <1>6, <2>2, <2>3, <2>4, <2>6
<1>12. CASE SendAcknowledgementPost(h)
  <2>1. /\ q.pc = "ack" /\ UNCHANGED <<row, post>>
        /\ request' = [request EXCEPT ![h] = At(q, "ok")]
        /\ acks' = [acks EXCEPT ![q.user][q.survey] = @ + 1]
    BY <1>1, <1>12 DEF SendAcknowledgementPost, Goto
  <2>2. n = 0 /\ q.type = "complete" /\ Completed(rs)
    BY <1>3, <1>4, <2>1 DEF Knows, Writing, RequestOK
  <2>3. /\ acks'[q.user][q.survey] = 1
        /\ OthersKept(q.user, q.survey)
    BY <1>3, <1>4, <1>5, <2>1, <2>2 DEF OthersKept
  <2>4. \A r : Continues(r, q, "ok") => Knows(r, rs, 1, past, f)
    BY DEF Continues, Knows, Writing, Lagging
  <2>5. Fits("ok", rs, p, 1, q.survey, past, f)
    BY <1>4, <2>1, <2>2 DEF Fits, Lagging
  <2> QED  BY <1>3, <1>6, <2>1, <2>3, <2>4, <2>5
<1> QED  BY <1>8, <1>9, <1>10, <1>11, <1>12

\* The request a client sends.
LEMMA Begun ==
    ASSUME NEW h \in Handler, NEW u \in User, NEW s \in SurveyID,
           SubmitBegin(h, u, s) \/ RefreshBegin(h, u, s)
    PROVE  \E r : /\ request' = [request EXCEPT ![h] = r]
                  /\ r.user = u /\ r.survey = s
                  /\ r.pc \in {"recheck", "refresh", "expire"}
                  /\ r.pc = "expire" => s \in past
                  /\ r.pc = "recheck" => s \in running
<1>1. CASE SubmitBegin(h, u, s)
  <2>1. PICK type \in {"partial", "complete"}, x \in Rating :
          request' = [request EXCEPT ![h] =
              Sent(IF s \in running THEN "recheck" ELSE "expire", u, s, type, {x})]
    BY <1>1 DEF SubmitBegin
  <2>2. PICK r : r = Sent(IF s \in running THEN "recheck" ELSE "expire", u, s, type, {x})
    OBVIOUS
  <2>3. s \in running \union past
    BY <1>1 DEF SubmitBegin, ClientMay
  <2>4. /\ r.user = u /\ r.survey = s
        /\ r.pc \in {"recheck", "refresh", "expire"}
        /\ r.pc = "expire" => s \in past
        /\ r.pc = "recheck" => s \in running
    BY <2>2, <2>3 DEF Sent
  <2>5. request' = [request EXCEPT ![h] = r]
    BY <2>1, <2>2
  <2> QED  BY <2>4, <2>5
<1>2. CASE RefreshBegin(h, u, s)
  <2>1. PICK r : r = Sent("refresh", u, s, "refresh", {})
    OBVIOUS
  <2>2. r.user = u /\ r.survey = s /\ r.pc = "refresh"
    BY <2>1 DEF Sent
  <2>3. request' = [request EXCEPT ![h] = r]
    BY <1>2, <2>1 DEF RefreshBegin
  <2> QED  BY <2>2, <2>3
<1> QED  BY <1>1, <1>2

\* A user begins a request when no other one of theirs is under way.
LEMMA SerialBegins ==
    ASSUME OneAtATime', SubmitInv, SerialInv, NEW h \in Handler, NEW u \in User,
           NEW s \in SurveyID, SubmitBegin(h, u, s) \/ RefreshBegin(h, u, s)
    PROVE  SerialInv'
<1>1. /\ request[h].pc = "idle" /\ ClientMay(u, s)
      /\ UNCHANGED <<running, past, row, post, acks>>
  BY DEF SubmitBegin, RefreshBegin, surveys, posted
<1>2. spent'.faults = spent.faults
  <2>1. spent \in [submits : 0..MaxSubmits, faults : 0..MaxFaults]
    BY DEF SubmitInv, TypeOK
  <2> QED  BY <2>1 DEF SubmitBegin, RefreshBegin
<1>3. PICK r : /\ request' = [request EXCEPT ![h] = r] /\ r.user = u /\ r.survey = s
               /\ r.pc \in {"recheck", "refresh", "expire"}
               /\ r.pc = "expire" => s \in past
  BY Begun
<1>4. request'[h] = r /\ \A g \in Handler \ {h} : request'[g] = request[g]
  BY <1>3 DEF SubmitInv, TypeOK
<1>5. ASSUME NEW g \in Handler, request'[g].pc # "idle"
      PROVE  Knows(request'[g], row'[request'[g].user][request'[g].survey],
                   acks'[request'[g].user][request'[g].survey], past', spent'.faults)
  <2>1. CASE g = h
    BY <1>1, <1>3, <1>4, <2>1 DEF Knows, Writing, Lagging
  <2>2. CASE g # h
    BY <1>1, <1>2, <1>4, <1>5, <2>2 DEF SerialInv
  <2> QED  BY <2>1, <2>2
<1>6. ASSUME NEW v \in User, NEW t \in SurveyID PROVE Settled(v, t)'
  <2>1. Lags(v, t) => Lags(v, t)'
    BY <1>1, <1>4 DEF Lags, Lagging
  <2>2. Settled(v, t)
    BY DEF SerialInv
  <2> QED  BY <1>1, <1>2, <2>1, <2>2 DEF Settled, Fits, Lagging
<1> QED  BY <1>5, <1>6 DEF SerialInv

\* More surveys are over, or nothing changes.
LEMMA SerialSurveys ==
    ASSUME SerialInv, UNCHANGED <<row, post, acks, request, spent>>,
           past \subseteq past'
    PROVE  SerialInv'
<1>1. OneAtATime'
  BY DEF SerialInv, OneAtATime
<1>2. ASSUME NEW h \in Handler, request'[h].pc # "idle"
      PROVE  Knows(request'[h], row'[request'[h].user][request'[h].survey],
                   acks'[request'[h].user][request'[h].survey], past', spent'.faults)
  <2>1. PICK q : q = request[h]
    OBVIOUS
  <2>2. Knows(q, row[q.user][q.survey], acks[q.user][q.survey], past, spent.faults)
    BY <1>2, <2>1 DEF SerialInv
  <2>3. Knows(q, row[q.user][q.survey], acks[q.user][q.survey], past', spent.faults)
    BY <2>2 DEF Knows
  <2> QED  BY <2>1, <2>3
<1>3. ASSUME NEW u \in User, NEW s \in SurveyID PROVE Settled(u, s)'
  <2>1. Lags(u, s)' <=> Lags(u, s)
    BY DEF Lags
  <2>2. Settled(u, s)
    BY DEF SerialInv
  <2> QED  BY <2>1, <2>2 DEF Settled, Fits
<1> QED  BY <1>1, <1>2, <1>3 DEF SerialInv

LEMMA SerialNext ==
    SubmitInv /\ SerialInv /\ OneAtATime' /\ [Next]_vars => SerialInv'
<1> SUFFICES ASSUME SubmitInv, SerialInv, OneAtATime', [Next]_vars PROVE SerialInv'
  OBVIOUS
<1>1. ASSUME NEW h \in Handler, Serve(h) \/ CallFails(h) PROVE SerialInv'
  BY <1>1, SerialReads, SerialWrites DEF Serve
<1>2. ASSUME NEW h \in Handler, NEW u \in User, NEW s \in SurveyID,
             SubmitBegin(h, u, s) \/ RefreshBegin(h, u, s)
      PROVE  SerialInv'
  BY <1>2, SerialBegins
<1>3. CASE SurveyStep \/ UNCHANGED vars
  <2>1. UNCHANGED <<row, post, acks, request, spent>>
    BY <1>3 DEF SurveyStep, vars, posted
  <2>2. past \subseteq past'
    BY StepSubmitInv DEF Lasting
  <2> QED  BY <2>1, <2>2, SerialSurveys
<1> QED  BY <1>1, <1>2, <1>3 DEF Next, Refresh

\* As long as no user's requests overlap: a user is thanked once for a survey,
\* however often a submission failed after it was stored and was sent again.
THEOREM ThankedOnce ==
    Spec /\ []OneAtATime => [](\A u \in User, s \in SurveyID : acks[u][s] <= 1)
<1>1. SerialInv => \A u \in User, s \in SurveyID : acks[u][s] <= 1
  BY DEF SerialInv, Settled, Fits
<1> QED  BY SerialInit, SerialNext, <1>1, SubmitInvCorrect, PTL DEF Spec

\* As long as no user's requests overlap, the post shows between them what the
\* database has, unless a call failed.
THEOREM PostFollowsRow == Spec /\ []OneAtATime => []PostShowsRow
<1>1. SubmitInv /\ SerialInv => PostShowsRow
  <2> SUFFICES ASSUME SubmitInv, SerialInv, spent.faults = 0, NEW u \in User, NEW s \in SurveyID,
                      Active(u) = {}
               PROVE  /\ post[u][s].answer = RatingsOf(row[u][s])
                      /\ post[u][s].status = "open" => ~Completed(row[u][s])
                      /\ post[u][s].status = "submitted" => Completed(row[u][s])
                      /\ post[u][s].status = "ended" => s \in past
    BY DEF PostShowsRow
  <2>1. ~Lags(u, s)
    BY DEF Active, Lags, Lagging
  <2>2. Settled(u, s)
    BY DEF SerialInv
  <2>3. post[u][s].status = "submitted" => Completed(row[u][s])
    BY DEF SubmitInv, SubmittedIsRecorded
  <2> QED  BY <2>1, <2>2, <2>3 DEF Settled, Fits, Shown, Lagging
<1> QED  BY SerialInit, SerialNext, <1>1, SubmitInvCorrect, PTL DEF Spec

----------------------------------------------------------------------------
(* What a request counts, shows and thanks for is what is stored, when the *)
(* requests of a user do not overlap.                                      *)

\* How a request agrees with the user's responses rs and the survey post p.
Agrees(q, rs, p) ==
    /\ q.pc \in {"recheck", "expire"} => q.old = {}
    /\ q.pc = "putended" /\ q.type = "complete" => q.old = {}
    /\ q.pc \in {"refresh", "check"} => q.type = "refresh"
    /\ q.pc \in Writing => rs = Carried(q)
    /\ q.pc = "ok" /\ q.type = "complete" =>
          \/ rs = Carried(q)
          \/ Completed(q.old) /\ rs = q.old
          \/ q.old = {} /\ p.status = "ended"

StoredInv ==
    \A h \in Handler :
        LET q == request[h]
        IN  q.pc # "idle" => Agrees(q, row[q.user][q.survey], post[q.user][q.survey])

\* A request of one user changes nothing another one relies on.
LEMMA StoredStep ==
    ASSUME SubmitInv, SerialInv, StoredInv, NEW h \in Handler, NEW q, q = request[h],
           q.pc # "idle", NEW r, request' = [request EXCEPT ![h] = r],
           r.pc # "idle" => r.user = q.user /\ r.survey = q.survey,
           OthersKept(q.user, q.survey),
           r.pc # "idle" => Agrees(r, row'[q.user][q.survey], post'[q.user][q.survey])
    PROVE  StoredInv'
<1>1. /\ request'[h] = r
      /\ \A g \in Handler \ {h} : request'[g] = request[g]
      /\ \A g \in Handler : request[g].pc # "idle" =>
           request[g].user \in User /\ request[g].survey \in SurveyID
  BY DEF SubmitInv, TypeOK, RequestsHold, RequestOK
<1>2. \A g \in Handler \ {h} : request[g].pc # "idle" => request[g].user # q.user
  BY DEF SerialInv, OneAtATime
<1>3. ASSUME NEW g \in Handler, request'[g].pc # "idle"
      PROVE  Agrees(request'[g], row'[request'[g].user][request'[g].survey],
                    post'[request'[g].user][request'[g].survey])
  <2>1. CASE g = h
    BY <1>1, <1>3, <2>1
  <2>2. CASE g # h
    <3>1. PICK p : p = request[g]
      OBVIOUS
    <3>2. request'[g] = p /\ p.pc # "idle" /\ p.user # q.user
      BY <1>1, <1>2, <1>3, <2>2, <3>1
    <3>3. /\ row'[p.user][p.survey] = row[p.user][p.survey]
          /\ post'[p.user][p.survey] = post[p.user][p.survey]
      BY <1>1, <3>1, <3>2 DEF OthersKept
    <3>4. Agrees(p, row[p.user][p.survey], post[p.user][p.survey])
      BY <3>1, <3>2 DEF StoredInv
    <3> QED  BY <3>2, <3>3, <3>4
  <2> QED  BY <2>1, <2>2
<1> QED  BY <1>3 DEF StoredInv

\* What a step of the server makes of a request.
Follows(r, q) ==
    /\ r.pc # "idle" => r.user = q.user
    /\ r.pc # "recheck"
    /\ r.pc = "panic" => q.pc = "recheck" /\ running = {}

LEMMA RequestFollows ==
    ASSUME SubmitInv, NEW h \in Handler, Serve(h) \/ CallFails(h)
    PROVE  /\ request[h].pc # "idle"
           /\ \E r : request' = [request EXCEPT ![h] = r] /\ Follows(r, request[h])
<1> DEFINE q == request[h]
<1>1. \A pc, x : /\ Continues(At(q, pc), q, pc)
                 /\ Continues(WithOld(q, pc, x), q, pc)
                 /\ Continues(WithCopy(q, pc, x), q, pc)
  BY OneRequest, Continued
<1>2. CASE Answer(h)
  <2>1. Follows(Idle, q)
    BY DEF Follows, Idle, Sent
  <2> QED  BY <1>2, <2>1 DEF Answer, Outcome
<1>3. CASE RefreshGetPost(h) \/ ExpireGetPost(h) \/ GetPost(h)
  <2>1. q.pc # "idle" /\ \E pc, x : /\ pc \in {"check", "putended", "putpost"}
                                    /\ request' = [request EXCEPT ![h] = WithCopy(q, pc, x)]
    BY <1>3 DEF RefreshGetPost, ExpireGetPost, GetPost
  <2>2. PICK pc, x : /\ pc \in {"check", "putended", "putpost"}
                     /\ request' = [request EXCEPT ![h] = WithCopy(q, pc, x)]
    BY <2>1
  <2>3. Follows(WithCopy(q, pc, x), q)
    BY <1>1, <2>2 DEF Continues, Follows
  <2> QED  BY <2>1, <2>2, <2>3
<1>4. CASE ReadResponse(h)
  <2>1. q.pc # "idle" /\ \E pc, x : /\ pc \in {"insert", "ok", "update"}
                                    /\ request' = [request EXCEPT ![h] = WithOld(q, pc, x)]
    BY <1>4 DEF ReadResponse
  <2>2. PICK pc, x : /\ pc \in {"insert", "ok", "update"}
                     /\ request' = [request EXCEPT ![h] = WithOld(q, pc, x)]
    BY <2>1
  <2>3. Follows(WithOld(q, pc, x), q)
    BY <1>1, <2>2 DEF Continues, Follows
  <2> QED  BY <2>1, <2>2, <2>3
<1>5. CASE Recheck(h)
  <2>1. PICK pc : /\ pc \in {"panic", "read", "error"}
                  /\ pc = "panic" => running = {}
                  /\ request' = [request EXCEPT ![h] = At(q, pc)]
    BY <1>5 DEF Recheck, Goto
  <2>2. q.pc = "recheck"
    BY <1>5 DEF Recheck
  <2>3. Follows(At(q, pc), q)
    BY <1>1, <2>1, <2>2 DEF Continues, Follows
  <2> QED  BY <2>1, <2>2, <2>3
<1>6. CASE \/ SaveSurveyResponse(h) \/ IncrementSurveyResponseCount(h)
           \/ UpdateSurveyResponse(h) \/ UpdatePost(h) \/ UpdateRatingGroupCount(h)
           \/ SendAcknowledgementPost(h) \/ RefreshCheckSurvey(h)
           \/ SetExpiredPropsInPost(h) \/ CallFails(h)
  <2>1. q.pc # "idle"
    BY <1>6 DEF SaveSurveyResponse, IncrementSurveyResponseCount, UpdateSurveyResponse,
                UpdatePost, UpdateRatingGroupCount, SendAcknowledgementPost,
                RefreshCheckSurvey, SetExpiredPropsInPost, CallFails
  <2>2. PICK pc : /\ pc \in {"count", "error", "getpost", "groups", "ack", "ok", "putended"}
                  /\ request' = [request EXCEPT ![h] = At(q, pc)]
    BY <1>6 DEF SaveSurveyResponse, IncrementSurveyResponseCount, UpdateSurveyResponse,
                UpdatePost, UpdateRatingGroupCount, SendAcknowledgementPost,
                RefreshCheckSurvey, SetExpiredPropsInPost, CallFails, Goto
  <2>3. Follows(At(q, pc), q)
    BY <1>1, <2>2 DEF Continues, Follows
  <2> QED  BY <2>1, <2>2, <2>3
<1> QED  BY <1>2, <1>3, <1>4, <1>5, <1>6 DEF Serve

\* A step of a request, of whatever kind.
LEMMA StoredServe ==
    ASSUME SubmitInv, SerialInv, StoredInv, NEW h \in Handler, Serve(h) \/ CallFails(h)
    PROVE  StoredInv'
<1>1. PICK q : q = request[h]
  OBVIOUS
<1>2. q.pc # "idle"
  BY <1>1, RequestFollows
<1>3. PICK rs, p : rs = row[q.user][q.survey] /\ p = post[q.user][q.survey]
  OBVIOUS
<1>4. /\ q \in Request /\ q.user \in User /\ q.survey \in SurveyID
      /\ Knows(q, rs, acks[q.user][q.survey], past, spent.faults)
      /\ RequestOK(q, row, running \union past, past)
      /\ Agrees(q, rs, p)
      /\ q.copy \in Post
      /\ rs \in AtMostOne(Response)
  <2>1. /\ q \in Request /\ q.user \in User /\ q.survey \in SurveyID
        /\ Knows(q, rs, acks[q.user][q.survey], past, spent.faults)
        /\ RequestOK(q, row, running \union past, past)
    BY <1>1, <1>2, <1>3, SerialFacts, OneRequest
  <2>2. Agrees(q, rs, p)
    BY <1>1, <1>2, <1>3 DEF StoredInv
  <2>3. q.copy \in Post
    BY <2>1 DEF Request
  <2>4. rs \in AtMostOne(Response)
    BY <1>3, <2>1 DEF SubmitInv, TypeOK
  <2> QED  BY <2>1, <2>2, <2>3, <2>4
<1>5. ASSUME NEW r, request' = [request EXCEPT ![h] = r], NEW pc, Continues(r, q, pc),
             NEW xs, row'[q.user][q.survey] = xs, NEW x, post'[q.user][q.survey] = x,
             OthersKept(q.user, q.survey), Agrees(r, xs, x)
      PROVE  StoredInv'
  <2>1. r.user = q.user /\ r.survey = q.survey
    BY <1>5 DEF Continues
  <2> QED  BY <1>1, <1>2, <1>5, <2>1, StoredStep
<1>6. UNCHANGED <<row, post, acks>> =>
        /\ OthersKept(q.user, q.survey)
        /\ row'[q.user][q.survey] = rs /\ post'[q.user][q.survey] = p
  BY <1>3 DEF OthersKept
<1>7. \A r : r.rating = q.rating /\ r.type = q.type => Carried(r) = Carried(q)
  BY DEF Carried
<1>8. \A pc : Continues(At(q, pc), q, pc) /\ At(q, pc).old = q.old
  BY <1>4, Continued, RequestFields
<1>9. CASE Recheck(h)
  <2>1. PICK pc \in {"panic", "read", "error"} : request' = [request EXCEPT ![h] = At(q, pc)]
    BY <1>1, <1>9 DEF Recheck, Goto
  <2>2. UNCHANGED <<row, post, acks>>
    BY <1>9 DEF Recheck, posted
  <2>3. PICK r : r = At(q, pc)
    OBVIOUS
  <2>4. Continues(r, q, pc)
    BY <1>8, <2>3
  <2>5. Agrees(r, rs, p)
    BY <2>1, <2>4 DEF Continues, Agrees, Writing
  <2> QED  BY <1>5, <1>6, <2>1, <2>2, <2>3, <2>4, <2>5
<1>10. CASE ReadResponse(h)
  <2>1. PICK pc \in {"insert", "ok", "update"} :
          /\ request' = [request EXCEPT ![h] = WithOld(q, pc, rs)]
          /\ pc = "ok" => Completed(rs)
    BY <1>1, <1>3, <1>10 DEF ReadResponse
  <2>2. UNCHANGED <<row, post, acks>>
    BY <1>10 DEF ReadResponse, posted
  <2>3. PICK r : r = WithOld(q, pc, rs)
    OBVIOUS
  <2>4. Continues(r, q, pc) /\ r.old = rs
    BY <1>4, <2>3, Continued, RequestFields
  <2>5. Agrees(r, rs, p)
    BY <2>1, <2>4 DEF Continues, Agrees, Writing
  <2> QED  BY <1>5, <1>6, <2>1, <2>2, <2>3, <2>4, <2>5
<1>11. CASE IncrementSurveyResponseCount(h) \/ UpdateRatingGroupCount(h)
  <2>1. PICK pc \in {"getpost", "ack", "ok"} : request' = [request EXCEPT ![h] = At(q, pc)]
    BY <1>1, <1>11 DEF IncrementSurveyResponseCount, UpdateRatingGroupCount, Goto
  <2>2. UNCHANGED <<row, post, acks>> /\ q.pc \in Writing
    BY <1>1, <1>11 DEF IncrementSurveyResponseCount, UpdateRatingGroupCount, posted, Writing
  <2>3. PICK r : r = At(q, pc)
    OBVIOUS
  <2>4. Continues(r, q, pc)
    BY <1>8, <2>3
  <2>5. rs = Carried(r)
    BY <1>4, <1>7, <2>2, <2>4 DEF Agrees, Continues
  <2>6. Agrees(r, rs, p)
    BY <2>1, <2>4, <2>5 DEF Continues, Agrees, Writing
  <2> QED  BY <1>5, <1>6, <2>1, <2>2, <2>3, <2>4, <2>6
<1>12. CASE GetPost(h) \/ RefreshGetPost(h) \/ ExpireGetPost(h)
  <2>1. PICK pc \in {"putpost", "check", "putended"} :
          /\ request' = [request EXCEPT ![h] = WithCopy(q, pc, p)]
          /\ pc = "putpost" => q.pc = "getpost"
          /\ pc = "check" => q.pc = "refresh"
          /\ pc = "putended" => q.pc = "expire"
    BY <1>1, <1>3, <1>12 DEF GetPost, RefreshGetPost, ExpireGetPost
  <2>2. UNCHANGED <<row, post, acks>>
    BY <1>12 DEF GetPost, RefreshGetPost, ExpireGetPost, posted
  <2>3. PICK r : r = WithCopy(q, pc, p)
    OBVIOUS
  <2>4. Continues(r, q, pc) /\ r.old = q.old /\ Carried(r) = Carried(q)
    BY <1>4, <1>7, <2>3, Continued, RequestFields DEF Continues
  <2>5. Agrees(r, rs, p)
    BY <1>4, <2>1, <2>4 DEF Continues, Agrees, Writing
  <2> QED  BY <1>5, <1>6, <2>1, <2>2, <2>3, <2>4, <2>5
<1>13. CASE RefreshCheckSurvey(h)
  <2>1. PICK pc \in {"ok", "putended"} : request' = [request EXCEPT ![h] = At(q, pc)]
    BY <1>1, <1>13 DEF RefreshCheckSurvey, Goto
  <2>2. UNCHANGED <<row, post, acks>> /\ q.pc = "check"
    BY <1>1, <1>13 DEF RefreshCheckSurvey, posted
  <2>3. PICK r : r = At(q, pc)
    OBVIOUS
  <2>4. Continues(r, q, pc)
    BY <1>8, <2>3
  <2>5. Agrees(r, rs, p)
    BY <1>4, <2>1, <2>2, <2>4 DEF Continues, Agrees, Writing
  <2> QED  BY <1>5, <1>6, <2>1, <2>2, <2>3, <2>4, <2>5
<1>14. CASE CallFails(h)
  <2>1. PICK r : r = At(q, "error")
    OBVIOUS
  <2>2. /\ Continues(r, q, "error") /\ UNCHANGED <<row, post, acks>>
        /\ request' = [request EXCEPT ![h] = r]
    BY <1>1, <1>8, <1>14, <2>1 DEF CallFails, Goto, posted
  <2>3. Agrees(r, rs, p)
    BY <2>2 DEF Continues, Agrees, Writing
  <2> QED  BY <1>5, <1>6, <2>2, <2>3
<1>15. CASE Answer(h)
  <2>1. Idle.pc = "idle"
    BY DEF Idle, Sent
  <2>2. UNCHANGED <<row, post, acks>> /\ request' = [request EXCEPT ![h] = Idle]
    BY <1>15 DEF Answer, posted
  <2>3. OthersKept(q.user, q.survey)
    BY <2>2 DEF OthersKept
  <2> QED  BY <1>1, <1>2, <2>1, <2>2, <2>3, StoredStep
<1>16. CASE SaveSurveyResponse(h) /\ rs # {}
  <2>1. PICK r : r = At(q, "error")
    OBVIOUS
  <2>2. /\ Continues(r, q, "error") /\ UNCHANGED <<row, post, acks>>
        /\ request' = [request EXCEPT ![h] = r]
    BY <1>1, <1>3, <1>8, <1>16, <2>1 DEF SaveSurveyResponse, Goto, posted
  <2>3. Agrees(r, rs, p)
    BY <2>2 DEF Continues, Agrees, Writing
  <2> QED  BY <1>5, <1>6, <2>2, <2>3
<1>17. CASE (SaveSurveyResponse(h) /\ rs = {}) \/ UpdateSurveyResponse(h)
  <2>1. PICK pc \in {"count", "getpost"} : request' = [request EXCEPT ![h] = At(q, pc)]
    BY <1>1, <1>3, <1>17 DEF SaveSurveyResponse, UpdateSurveyResponse, Goto
  <2>2. UNCHANGED <<post, acks>>
    BY <1>17 DEF SaveSurveyResponse, UpdateSurveyResponse, posted
  <2>3. row' = [row EXCEPT ![q.user][q.survey] = Carried(q)]
    <3>1. CASE SaveSurveyResponse(h) /\ rs = {}
      BY <1>1, <1>3, <3>1 DEF SaveSurveyResponse
    <3>2. CASE UpdateSurveyResponse(h)
      <4>1. q.pc = "update"
        BY <1>1, <3>2 DEF UpdateSurveyResponse
      <4>2. rs # {} /\ ~Completed(rs)
        BY <1>3, <1>4, <4>1 DEF RequestOK, Knows
      <4>3. PICK o \in Response : rs = {o}
        BY <1>4, <4>2 DEF AtMostOne
      <4>4. o.type \in {"partial", "complete"}
        BY DEF Response
      <4>5. Partial(rs)
        BY <4>2, <4>3, <4>4 DEF Partial, Completed
      <4> QED  BY <1>1, <1>3, <3>2, <4>5 DEF UpdateSurveyResponse
    <3> QED  BY <1>17, <3>1, <3>2
  <2>4. /\ row'[q.user][q.survey] = Carried(q) /\ post'[q.user][q.survey] = p
        /\ OthersKept(q.user, q.survey)
    <3>1. row \in [User -> [SurveyID -> AtMostOne(Response)]]
      BY DEF SubmitInv, TypeOK
    <3> QED  BY <1>3, <1>4, <2>2, <2>3, <3>1 DEF OthersKept
  <2>5. PICK r : r = At(q, pc)
    OBVIOUS
  <2>6. Continues(r, q, pc) /\ Carried(r) = Carried(q)
    BY <1>7, <1>8, <2>5 DEF Continues
  <2>7. Agrees(r, Carried(q), p)
    BY <2>1, <2>6 DEF Continues, Agrees, Writing
  <2> QED  BY <1>5, <2>1, <2>4, <2>5, <2>6, <2>7
<1>18. CASE UpdatePost(h) \/ SetExpiredPropsInPost(h)
  <2>1. PICK pc \in {"groups", "ok"}, x \in {Answered(q.copy, q), Expired(q.copy)} :
          /\ request' = [request EXCEPT ![h] = At(q, pc)]
          /\ post' = [post EXCEPT ![q.user][q.survey] = x]
          /\ pc = "groups" => q.pc = "putpost"
          /\ pc = "ok" => q.pc = "putended" /\ x = Expired(q.copy)
    BY <1>1, <1>18 DEF UpdatePost, SetExpiredPropsInPost, Goto
  <2>2. UNCHANGED <<row, acks>>
    BY <1>18 DEF UpdatePost, SetExpiredPropsInPost
  <2>3. /\ row'[q.user][q.survey] = rs /\ post'[q.user][q.survey] = x
        /\ OthersKept(q.user, q.survey)
    <3>1. post \in [User -> [SurveyID -> Post]]
      BY DEF SubmitInv, TypeOK
    <3> QED  BY <1>3, <1>4, <2>1, <2>2, <3>1 DEF OthersKept
  <2>4. PICK r : r = At(q, pc)
    OBVIOUS
  <2>5. Continues(r, q, pc) /\ r.old = q.old /\ Carried(r) = Carried(q)
    BY <1>7, <1>8, <2>4 DEF Continues
  <2>6. pc = "ok" => x.status = "ended"
    BY <1>4, <2>1 DEF Expired, Post
  <2>7. Agrees(r, rs, x)
    BY <1>4, <2>1, <2>5, <2>6 DEF Continues, Agrees, Writing
  <2> QED  BY <1>5, <2>1, <2>3, <2>4, <2>5, <2>7
<1>19. CASE SendAcknowledgementPost(h)
  <2>1. /\ q.pc = "ack" /\ UNCHANGED <<row, post>>
        /\ request' = [request EXCEPT ![h] = At(q, "ok")]
        /\ acks' = [acks EXCEPT ![q.user][q.survey] = @ + 1]
    BY <1>1, <1>19 DEF SendAcknowledgementPost, Goto
  <2>2. /\ row'[q.user][q.survey] = rs /\ post'[q.user][q.survey] = p
        /\ OthersKept(q.user, q.survey)
    <3>1. acks \in [User -> [SurveyID -> Nat]]
      BY DEF SubmitInv, TypeOK
    <3> QED  BY <1>3, <1>4, <2>1, <3>1 DEF OthersKept
  <2>3. PICK r : r = At(q, "ok")
    OBVIOUS
  <2>4. Continues(r, q, "ok") /\ Carried(r) = Carried(q)
    BY <1>7, <1>8, <2>3 DEF Continues
  <2>5. Agrees(r, rs, p)
    BY <1>4, <2>1, <2>4 DEF Continues, Agrees, Writing
  <2> QED  BY <1>5, <2>1, <2>2, <2>3, <2>4, <2>5
<1> QED  BY <1>9, <1>10, <1>11, <1>12, <1>13, <1>14, <1>15, <1>16, <1>17, <1>18, <1>19
         DEF Serve

\* A request that begins has read nothing yet.
LEMMA StoredBegins ==
    ASSUME SubmitInv, StoredInv, NEW h \in Handler, NEW u \in User, NEW s \in SurveyID,
           SubmitBegin(h, u, s) \/ RefreshBegin(h, u, s)
    PROVE  StoredInv'
<1>1. UNCHANGED <<row, post>>
  BY DEF SubmitBegin, RefreshBegin, posted
<1>2. PICK r : /\ request' = [request EXCEPT ![h] = r]
               /\ r.pc \in {"recheck", "refresh", "expire"}
               /\ r.pc = "refresh" => r.type = "refresh"
               /\ r.old = {}
  <2>1. CASE SubmitBegin(h, u, s)
    <3>1. PICK type \in {"partial", "complete"}, x \in Rating, pc \in {"recheck", "expire"} :
            request' = [request EXCEPT ![h] = Sent(pc, u, s, type, {x})]
      BY <2>1 DEF SubmitBegin
    <3>2. PICK r : r = Sent(pc, u, s, type, {x})
      OBVIOUS
    <3>3. r.pc = pc /\ r.old = {}
      BY <3>2 DEF Sent
    <3> QED  BY <3>1, <3>2, <3>3
  <2>2. CASE RefreshBegin(h, u, s)
    <3>1. PICK r : r = Sent("refresh", u, s, "refresh", {})
      OBVIOUS
    <3>2. r.pc = "refresh" /\ r.type = "refresh" /\ r.old = {}
      BY <3>1 DEF Sent
    <3> QED  BY <2>2, <3>1, <3>2 DEF RefreshBegin
  <2> QED  BY <2>1, <2>2
<1>3. request'[h] = r /\ \A g \in Handler \ {h} : request'[g] = request[g]
  BY <1>2 DEF SubmitInv, TypeOK
<1>4. \A rs, p : Agrees(r, rs, p)
  BY <1>2 DEF Agrees, Writing
<1> QED  BY <1>1, <1>3, <1>4 DEF StoredInv

LEMMA StoredNext == SubmitInv /\ SerialInv /\ StoredInv /\ [Next]_vars => StoredInv'
<1> SUFFICES ASSUME SubmitInv, SerialInv, StoredInv, [Next]_vars PROVE StoredInv'
  OBVIOUS
<1>1. ASSUME NEW h \in Handler, Serve(h) \/ CallFails(h) PROVE StoredInv'
  BY <1>1, StoredServe
<1>2. ASSUME NEW h \in Handler, NEW u \in User, NEW s \in SurveyID,
             SubmitBegin(h, u, s) \/ RefreshBegin(h, u, s)
      PROVE  StoredInv'
  BY <1>2, StoredBegins
<1>3. CASE SurveyStep \/ UNCHANGED vars
  <2>1. UNCHANGED <<row, post, request>>
    BY <1>3 DEF SurveyStep, vars, posted
  <2> QED  BY <2>1 DEF StoredInv
<1> QED  BY <1>1, <1>2, <1>3 DEF Next, Refresh

\* As long as no user's requests overlap: what a request counts, shows and thanks
\* for is stored, and a Submit answered with success is stored itself, or met a
\* complete response, or left a post that tells that the survey is over.
THEOREM SuccessIsRecorded == Spec /\ []OneAtATime => []SuccessIsStored
<1>1. Init => StoredInv
  BY DEF Init, StoredInv, Idle, Sent
<1>2. StoredInv => SuccessIsStored
  <2> SUFFICES ASSUME StoredInv, NEW h \in Handler, NEW q, q = request[h],
                      NEW rs, rs = row[q.user][q.survey]
               PROVE  /\ q.pc \in Writing => rs = Carried(q)
                      /\ q.pc = "ok" /\ q.type = "complete" =>
                            \/ rs = Carried(q)
                            \/ Completed(q.old) /\ rs = q.old
                            \/ q.old = {} /\ post[q.user][q.survey].status = "ended"
    BY DEF SuccessIsStored
  <2>1. q.pc # "idle" => Agrees(q, rs, post[q.user][q.survey])
    BY DEF StoredInv
  <2> QED  BY <2>1 DEF Agrees, Writing
<1> QED  BY SerialInit, SerialNext, <1>1, StoredNext, <1>2, SubmitInvCorrect, PTL DEF Spec

----------------------------------------------------------------------------
(* How often a user is thanked, however their requests overlap.            *)

\* A request about to store a response, or that stored one and may thank for it.
Promising == {"insert", "update"} \union Writing

Promises(u, s) == {h \in Handler : /\ request[h].pc \in Promising
                                   /\ request[h].user = u
                                   /\ request[h].survey = s}

\* Nobody is thanked before a response is complete, and from then on no request
\* joins those that may still thank.
ThanksInv ==
    /\ \A h \in Handler : request[h].pc = "ack" => request[h].type = "complete"
    /\ \A u \in User : IsFiniteSet(Active(u)) /\ Cardinality(Active(u)) <= PerUser
    /\ \A u \in User, s \in SurveyID :
         /\ ~Completed(row[u][s]) => acks[u][s] = 0
         /\ acks[u][s] + Cardinality(Promises(u, s)) <= PerUser

LEMMA ThanksInit == Init => ThanksInv
<1> SUFFICES ASSUME Init PROVE ThanksInv
  OBVIOUS
<1>1. \A h \in Handler : request[h].pc = "idle"
  BY DEF Init, Idle, Sent
<1>2. \A u \in User : Active(u) = {}
  BY <1>1 DEF Active
<1>3. \A u \in User, s \in SurveyID : Promises(u, s) = {} /\ acks[u][s] = 0
  BY <1>1 DEF Init, Promises, Promising, Writing
<1>4. 0 <= PerUser /\ 0 + 0 <= PerUser
  OBVIOUS
<1> QED  BY <1>1, <1>2, <1>3, <1>4, FS_EmptySet DEF ThanksInv

\* Promises are made by active requests.
LEMMA PromisesActive ==
    ASSUME NEW u, IsFiniteSet(Active(u)), NEW s
    PROVE  /\ IsFiniteSet(Promises(u, s)) /\ Cardinality(Promises(u, s)) \in Nat
           /\ Cardinality(Active(u)) \in Nat
           /\ Cardinality(Promises(u, s)) <= Cardinality(Active(u))
<1>1. Promises(u, s) \in SUBSET Active(u)
  BY DEF Promises, Promising, Writing, Active
<1> QED  BY <1>1, FS_Subset, FS_CardinalityType

\* A request moves on: it joins those that may thank only while the response is
\* not complete, and leaves them when it thanks.
LEMMA ThanksStep ==
    ASSUME SubmitInv, ThanksInv, Lasting, NEW h \in Handler, NEW q, q = request[h],
           q.pc # "idle", NEW r, request' = [request EXCEPT ![h] = r],
           r.pc # "idle" => r.user = q.user /\ r.survey = q.survey,
           r.pc = "ack" => r.type = "complete",
           \/ /\ acks' = acks
              /\ r.pc \in Promising =>
                    q.pc \in Promising \/ ~Completed(row'[q.user][q.survey])
           \/ /\ q.pc = "ack" /\ r.pc \notin Promising
              /\ Completed(row[q.user][q.survey])
              /\ acks' = [acks EXCEPT ![q.user][q.survey] = @ + 1]
    PROVE  ThanksInv'
<1>1. /\ request'[h] = r
      /\ \A g \in Handler \ {h} : request'[g] = request[g]
      /\ q.user \in User /\ q.survey \in SurveyID
      /\ acks \in [User -> [SurveyID -> Nat]]
  BY DEF SubmitInv, TypeOK, RequestsHold, RequestOK
<1>2. \A g \in Handler : request'[g].pc = "ack" => request'[g].type = "complete"
  BY <1>1 DEF ThanksInv
<1>3. ASSUME NEW u \in User
      PROVE  IsFiniteSet(Active(u)') /\ Cardinality(Active(u)') <= PerUser
  <2>1. Active(u)' \in SUBSET Active(u)
    BY <1>1 DEF Active
  <2>2. IsFiniteSet(Active(u)) /\ Cardinality(Active(u)) <= PerUser
    BY DEF ThanksInv
  <2>3. /\ IsFiniteSet(Active(u)') /\ Cardinality(Active(u)') <= Cardinality(Active(u))
        /\ Cardinality(Active(u)') \in Nat /\ Cardinality(Active(u)) \in Nat
    BY <2>1, <2>2, FS_Subset, FS_CardinalityType
  <2> QED  BY <2>2, <2>3
<1>4. ASSUME NEW u \in User, NEW s \in SurveyID
      PROVE  /\ ~Completed(row'[u][s]) => acks'[u][s] = 0
             /\ acks'[u][s] + Cardinality(Promises(u, s)') <= PerUser
  <2>1. /\ ~Completed(row[u][s]) => acks[u][s] = 0
        /\ acks[u][s] + Cardinality(Promises(u, s)) <= PerUser
        /\ IsFiniteSet(Active(u)) /\ acks[u][s] \in Nat
    BY <1>1 DEF ThanksInv
  <2>2. ~Completed(row'[u][s]) => ~Completed(row[u][s])
    BY DEF Lasting
  <2>3. IsFiniteSet(Promises(u, s)) /\ Cardinality(Promises(u, s)) \in Nat
    BY <2>1, PromisesActive
  <2>4. CASE Promises(u, s)' \subseteq Promises(u, s) /\ acks'[u][s] = acks[u][s]
    <3>1. /\ Cardinality(Promises(u, s)') <= Cardinality(Promises(u, s))
          /\ Cardinality(Promises(u, s)') \in Nat
      BY <2>3, <2>4, FS_Subset, FS_CardinalityType
    <3> QED  BY <2>1, <2>2, <2>3, <2>4, <3>1
  <2>5. CASE ~Completed(row'[u][s]) /\ acks'[u][s] = acks[u][s]
    <3>1. /\ Cardinality(Promises(u, s)') <= Cardinality(Active(u)')
          /\ Cardinality(Promises(u, s)') \in Nat
          /\ Cardinality(Active(u)') \in Nat
      <4>1. Promises(u, s)' \in SUBSET Active(u)'
        BY DEF Promises, Promising, Writing, Active
      <4> QED  BY <1>3, <4>1, FS_Subset, FS_CardinalityType
    <3>2. acks'[u][s] = 0
      BY <2>1, <2>2, <2>5
    <3> QED  BY <1>3, <3>1, <3>2
  <2>6. CASE /\ u = q.user /\ s = q.survey /\ q.pc = "ack" /\ r.pc \notin Promising
             /\ Completed(row[u][s]) /\ acks'[u][s] = acks[u][s] + 1
    <3>1. Promises(u, s)' = Promises(u, s) \ {h} /\ h \in Promises(u, s)
      BY <1>1, <2>6 DEF Promises, Promising, Writing
    <3>2. Cardinality(Promises(u, s)') = Cardinality(Promises(u, s)) - 1
      BY <2>3, <3>1, FS_RemoveElement
    <3>3. Completed(row'[u][s])
      BY <2>2, <2>6
    <3> QED  BY <2>1, <2>3, <2>6, <3>2, <3>3
  <2>7. CASE u # q.user \/ s # q.survey
    <3>1. Promises(u, s)' \subseteq Promises(u, s)
      BY <1>1, <2>7 DEF Promises, Promising, Writing
    <3>2. acks'[u][s] = acks[u][s]
      BY <1>1, <2>7
    <3> QED  BY <2>4, <3>1, <3>2
  <2>8. CASE u = q.user /\ s = q.survey
    <3>1. CASE r.pc \in Promising => q.pc \in Promising
      <4>1. Promises(u, s)' \subseteq Promises(u, s)
        BY <1>1, <2>8, <3>1 DEF Promises
      <4>2. \/ acks' = acks
            \/ /\ q.pc = "ack" /\ r.pc \notin Promising /\ Completed(row[u][s])
               /\ acks'[u][s] = acks[u][s] + 1
        BY <1>1, <2>8
      <4> QED  BY <2>4, <2>6, <2>8, <4>1, <4>2
    <3>2. CASE r.pc \in Promising /\ q.pc \notin Promising
      BY <2>5, <2>8, <3>2
    <3> QED  BY <3>1, <3>2
  <2> QED  BY <2>7, <2>8
<1> QED  BY <1>2, <1>3, <1>4 DEF ThanksInv

LEMMA ThanksServe ==
    ASSUME SubmitInv, ThanksInv, Lasting, NEW h \in Handler, Serve(h) \/ CallFails(h)
    PROVE  ThanksInv'
<1>1. PICK q : q = request[h]
  OBVIOUS
<1>2. /\ q.pc # "idle" /\ q \in Request
      /\ RequestOK(q, row, running \union past, past)
      /\ q.pc = "ack" => q.type = "complete"
  BY <1>1, RequestFollows, OneRequest DEF ThanksInv
<1>3. \A pc, x : /\ Continues(At(q, pc), q, pc)
                 /\ Continues(WithOld(q, pc, x), q, pc)
                 /\ Continues(WithCopy(q, pc, x), q, pc)
  BY <1>2, Continued
<1>4. ASSUME NEW r, NEW pc, Continues(r, q, pc), request' = [request EXCEPT ![h] = r],
             acks' = acks, pc = "ack" => q.type = "complete",
             pc \in Promising => q.pc \in Promising \/ ~Completed(row'[q.user][q.survey])
      PROVE  ThanksInv'
  BY <1>1, <1>2, <1>4, ThanksStep DEF Continues
<1>5. CASE Answer(h)
  <2>1. Idle.pc = "idle"
    BY DEF Idle, Sent
  <2>2. acks' = acks /\ request' = [request EXCEPT ![h] = Idle]
    BY <1>5 DEF Answer, posted
  <2> QED  BY <1>1, <1>2, <2>1, <2>2, ThanksStep DEF Promising, Writing
<1>6. CASE RefreshGetPost(h) \/ ExpireGetPost(h) \/ GetPost(h)
  <2>1. acks' = acks
    BY <1>6 DEF RefreshGetPost, ExpireGetPost, GetPost, posted
  <2>2. PICK pc \in {"check", "putended", "putpost"} :
          /\ pc = "putpost" => q.pc = "getpost"
          /\ request' = [request EXCEPT ![h] = WithCopy(q, pc, post[q.user][q.survey])]
    BY <1>1, <1>6 DEF RefreshGetPost, ExpireGetPost, GetPost
  <2>3. PICK r : r = WithCopy(q, pc, post[q.user][q.survey])
    OBVIOUS
  <2>4. Continues(r, q, pc) /\ request' = [request EXCEPT ![h] = r]
    BY <1>3, <2>2, <2>3
  <2> QED  BY <1>4, <2>1, <2>2, <2>4 DEF Promising, Writing
<1>7. CASE ReadResponse(h)
  <2>1. acks' = acks /\ row' = row
    BY <1>7 DEF ReadResponse, posted
  <2>2. PICK pc \in {"insert", "ok", "update"} :
          /\ pc # "ok" => ~Completed(row[q.user][q.survey])
          /\ request' = [request EXCEPT ![h] = WithOld(q, pc, row[q.user][q.survey])]
    BY <1>1, <1>7 DEF ReadResponse, Completed
  <2>3. PICK r : r = WithOld(q, pc, row[q.user][q.survey])
    OBVIOUS
  <2>4. Continues(r, q, pc) /\ request' = [request EXCEPT ![h] = r]
    BY <1>3, <2>2, <2>3
  <2> QED  BY <1>4, <2>1, <2>2, <2>4 DEF Promising, Writing
<1>8. CASE Recheck(h) \/ RefreshCheckSurvey(h) \/ SetExpiredPropsInPost(h) \/ CallFails(h)
  <2>1. /\ acks' = acks
        /\ \E pc \in {"panic", "read", "error", "ok", "putended"} :
             request' = [request EXCEPT ![h] = At(q, pc)]
    BY <1>1, <1>8 DEF Recheck, RefreshCheckSurvey, SetExpiredPropsInPost, CallFails,
                      Goto, posted
  <2> QED  BY <1>3, <1>4, <2>1 DEF Promising, Writing
<1>9. CASE \/ SaveSurveyResponse(h) \/ UpdateSurveyResponse(h)
           \/ IncrementSurveyResponseCount(h) \/ UpdatePost(h)
           \/ UpdateRatingGroupCount(h)
  <2>1. acks' = acks /\ q.pc \in Promising
    BY <1>1, <1>9 DEF SaveSurveyResponse, UpdateSurveyResponse,
         IncrementSurveyResponseCount, UpdatePost, UpdateRatingGroupCount,
         posted, Promising, Writing
  <2>2. \E pc \in {"count", "error", "getpost", "groups", "ack", "ok"} :
          /\ pc = "ack" => q.type = "complete"
          /\ request' = [request EXCEPT ![h] = At(q, pc)]
    BY <1>1, <1>9 DEF SaveSurveyResponse, UpdateSurveyResponse,
         IncrementSurveyResponseCount, UpdatePost, UpdateRatingGroupCount, Goto
  <2> QED  BY <1>3, <1>4, <2>1, <2>2
<1>10. CASE SendAcknowledgementPost(h)
  <2>1. /\ q.pc = "ack" /\ request' = [request EXCEPT ![h] = At(q, "ok")]
        /\ acks' = [acks EXCEPT ![q.user][q.survey] = @ + 1]
    BY <1>1, <1>10 DEF SendAcknowledgementPost, Goto
  <2>2. Completed(row[q.user][q.survey])
    BY <1>2, <2>1 DEF RequestOK, Writing
  <2>3. PICK r : r = At(q, "ok")
    OBVIOUS
  <2>4. r.pc = "ok" /\ r.user = q.user /\ r.survey = q.survey
    BY <1>3, <2>3 DEF Continues
  <2> QED  BY <1>1, <1>2, <2>1, <2>2, <2>3, <2>4, ThanksStep DEF Promising, Writing
<1> QED  BY <1>5, <1>6, <1>7, <1>8, <1>9, <1>10 DEF Serve

\* A client begins a request only while it may have one more in flight.
LEMMA ThanksBegins ==
    ASSUME SubmitInv, ThanksInv, NEW h \in Handler, NEW u \in User, NEW s \in SurveyID,
           SubmitBegin(h, u, s) \/ RefreshBegin(h, u, s)
    PROVE  ThanksInv'
<1>1. /\ request[h].pc = "idle" /\ Cardinality(Active(u)) < PerUser
      /\ UNCHANGED <<row, acks>>
  BY DEF SubmitBegin, RefreshBegin, ClientMay, posted
<1>2. PICK r : /\ request' = [request EXCEPT ![h] = r] /\ r.user = u
               /\ r.pc \in {"recheck", "refresh", "expire"}
  BY Begun
<1>3. request'[h] = r /\ \A g \in Handler \ {h} : request'[g] = request[g]
  BY <1>2 DEF SubmitInv, TypeOK
<1>4. ASSUME NEW v \in User
      PROVE  IsFiniteSet(Active(v)') /\ Cardinality(Active(v)') <= PerUser
  <2>1. IsFiniteSet(Active(v)) /\ Cardinality(Active(v)) <= PerUser
    BY DEF ThanksInv
  <2>2. CASE v # u
    <3>1. Active(v)' = Active(v)
      BY <1>1, <1>2, <1>3, <2>2 DEF Active
    <3> QED  BY <2>1, <3>1
  <2>3. CASE v = u
    <3>1. Active(v)' = Active(v) \union {h} /\ h \notin Active(v)
      BY <1>1, <1>2, <1>3, <2>3 DEF Active
    <3>2. /\ IsFiniteSet(Active(v)') /\ Cardinality(Active(v)) \in Nat
          /\ Cardinality(Active(v)') = Cardinality(Active(v)) + 1
      BY <2>1, <3>1, FS_AddElement, FS_CardinalityType
    <3> QED  BY <1>1, <2>3, <3>2
  <2> QED  BY <2>2, <2>3
<1>5. ASSUME NEW v \in User, NEW t \in SurveyID PROVE Promises(v, t)' = Promises(v, t)
  BY <1>1, <1>2, <1>3 DEF Promises, Promising, Writing
<1>6. \A g \in Handler : request'[g].pc = "ack" => request'[g].type = "complete"
  BY <1>2, <1>3 DEF ThanksInv
<1> QED  BY <1>1, <1>4, <1>5, <1>6 DEF ThanksInv

LEMMA ThanksNext == SubmitInv /\ ThanksInv /\ [Next]_vars => ThanksInv'
<1> SUFFICES ASSUME SubmitInv, ThanksInv, [Next]_vars PROVE ThanksInv'
  OBVIOUS
<1>1. ASSUME NEW h \in Handler, Serve(h) \/ CallFails(h) PROVE ThanksInv'
  BY <1>1, ThanksServe, StepSubmitInv
<1>2. ASSUME NEW h \in Handler, NEW u \in User, NEW s \in SurveyID,
             SubmitBegin(h, u, s) \/ RefreshBegin(h, u, s)
      PROVE  ThanksInv'
  BY <1>2, ThanksBegins
<1>3. CASE SurveyStep \/ UNCHANGED vars
  <2>1. UNCHANGED <<row, acks, request>>
    BY <1>3 DEF SurveyStep, vars, posted
  <2>2. \A u \in User : Active(u)' = Active(u)
    BY <2>1 DEF Active
  <2>3. \A u \in User, s \in SurveyID : Promises(u, s)' = Promises(u, s)
    BY <2>1 DEF Promises
  <2> QED  BY <2>1, <2>2, <2>3 DEF ThanksInv
<1> QED  BY <1>1, <1>2, <1>3 DEF Next, Refresh

\* A user is thanked for a survey no more often than they have requests in flight
\* together, whatever overlaps, fails and is sent again.
THEOREM ThanksAreBounded == Spec => []ThanksBounded
<1>1. SubmitInv /\ ThanksInv => ThanksBounded
  <2> SUFFICES ASSUME SubmitInv, ThanksInv, NEW u \in User, NEW s \in SurveyID
               PROVE  acks[u][s] <= PerUser
    BY DEF ThanksBounded
  <2>1. /\ acks[u][s] + Cardinality(Promises(u, s)) <= PerUser
        /\ acks[u][s] \in Nat /\ IsFiniteSet(Active(u))
    BY DEF SubmitInv, TypeOK, ThanksInv
  <2>2. Cardinality(Promises(u, s)) \in Nat
    BY <2>1, PromisesActive
  <2> QED  BY <2>1, <2>2
<1> QED  BY ThanksInit, ThanksNext, <1>1, SubmitInvCorrect, PTL DEF Spec

----------------------------------------------------------------------------
(* The columns follow the ratings stored, when the requests of a user do   *)
(* not overlap.                                                            *)

\* A set that loses or gains at most one element.
LEMMA OneElement ==
    ASSUME NEW S, NEW T, NEW x, IsFiniteSet(S),
           \A y : y # x => (y \in S <=> y \in T)
    PROVE  /\ IsFiniteSet(T) /\ Cardinality(S) \in Nat /\ Cardinality(T) \in Nat
           /\ Cardinality(T) = Cardinality(S) + (IF x \in T THEN 1 ELSE 0)
                                              - (IF x \in S THEN 1 ELSE 0)
<1>1. Cardinality(S) \in Nat
  BY FS_CardinalityType
<1>2. CASE x \in S /\ x \notin T
  <2>1. T = S \ {x}
    BY <1>2
  <2>2. IsFiniteSet(T) /\ Cardinality(T) = Cardinality(S) - 1
    BY <1>2, <2>1, FS_RemoveElement
  <2> QED  BY <1>1, <1>2, <2>2, FS_CardinalityType
<1>3. CASE x \notin S /\ x \in T
  <2>1. T = S \union {x}
    BY <1>3
  <2>2. IsFiniteSet(T) /\ Cardinality(T) = Cardinality(S) + 1
    BY <1>3, <2>1, FS_AddElement
  <2> QED  BY <1>1, <1>3, <2>2
<1>4. CASE x \in S <=> x \in T
  <2>1. T = S
    BY <1>4
  <2> QED  BY <1>1, <1>4, <2>1
<1> QED  BY <1>2, <1>3, <1>4

\* One for responses whose rating is in the group g.
In(rs, g) == IF \E r \in rs : GroupOf(r.rating) = g THEN 1 ELSE 0

\* What the request q will add is what storing its response changed.
LEMMA DeltaMoves ==
    ASSUME NEW q, NEW r \in 1..10, q.rating = {r}, q.old \in AtMostOne(Response),
           NEW g \in Groups
    PROVE  /\ Delta(q)[g] = In(Carried(q), g) - In(q.old, g)
           /\ Delta(q)[g] \in {-1, 0, 1}
<1>1. Delta(q) = ReferenceDelta(RatingsOf(q.old), r)
  BY DeltaIsReference
<1>2. \A n : getRatingGroupFactors(n)[g] = IF g = GroupOf(n) THEN 1 ELSE 0
  BY DEF getRatingGroupFactors
<1>3. In(Carried(q), g) = getRatingGroupFactors(r)[g]
  <2>1. PICK c : c = [rating |-> r, type |-> q.type]
    OBVIOUS
  <2>2. Carried(q) = {c} /\ c.rating = r
    BY <2>1, CarriedIsOne
  <2> QED  BY <1>2, <2>2 DEF In
<1>4. In(q.old, g) = IF RatingsOf(q.old) = NoRating THEN 0
                     ELSE getRatingGroupFactors(CHOOSE x \in RatingsOf(q.old) : TRUE)[g]
  <2>1. CASE q.old = {}
    BY <2>1 DEF In, RatingsOf, NoRating
  <2>2. CASE q.old # {}
    <3>1. PICK o \in Response : q.old = {o}
      BY <2>2 DEF AtMostOne
    <3>2. RatingsOf(q.old) = {o.rating}
      BY <3>1 DEF RatingsOf
    <3>3. (CHOOSE x \in {o.rating} : TRUE) = o.rating
      BY TheRating
    <3>4. In(q.old, g) = getRatingGroupFactors(o.rating)[g]
      BY <1>2, <3>1 DEF In
    <3> QED  BY <3>2, <3>3, <3>4 DEF NoRating
  <2> QED  BY <2>1, <2>2
<1>5. Delta(q)[g] = In(Carried(q), g) - In(q.old, g)
  BY <1>1, <1>3, <1>4 DEF ReferenceDelta
<1>6. In(Carried(q), g) \in {0, 1} /\ In(q.old, g) \in {0, 1}
  BY DEF In
<1> QED  BY <1>5, <1>6

\* What a request still owes the column of g in survey s.
Stages == {"count", "getpost", "putpost", "groups"}

Owes(q, s, g) == IF q.pc \in Stages /\ q.survey = s THEN Delta(q)[g] ELSE 0

Raters(s, g) == {u \in User : \E r \in row[u][s] : GroupOf(r.rating) = g}

Owing(s, g, d) == {h \in Moving(s) : Delta(request[h])[g] = d}

Within(n, f) == -f <= n /\ n <= f

Tally(s, g) ==
    /\ IsFiniteSet(Raters(s, g))
    /\ IsFiniteSet(Owing(s, g, 1)) /\ IsFiniteSet(Owing(s, g, -1))
    /\ Within(Cardinality(Raters(s, g)) - counts[s][g]
                - (Cardinality(Owing(s, g, 1)) - Cardinality(Owing(s, g, -1))),
              spent.faults)

\* What a request read is what it replaces: nobody else writes that row.
OldIsRow ==
    \A h \in Handler :
        LET q == request[h]
        IN  q.pc \in {"insert", "update"} => q.old = row[q.user][q.survey]

TallyInv == OldIsRow /\ \A s \in SurveyID, g \in Groups : Tally(s, g)

LEMMA MovingStages == \A s : Moving(s) = {h \in Handler : /\ request[h].pc \in Stages
                                                          /\ request[h].survey = s}
BY DEF Moving, Writing, Stages

LEMMA TallyInit == Init => TallyInv
<1> SUFFICES ASSUME Init PROVE TallyInv
  OBVIOUS
<1>1. \A h \in Handler : request[h].pc = "idle"
  BY DEF Init, Idle, Sent
<1>2. ASSUME NEW s \in SurveyID, NEW g \in Groups PROVE Tally(s, g)
  <2>1. Raters(s, g) = {}
    BY DEF Init, Raters
  <2>2. Owing(s, g, 1) = {} /\ Owing(s, g, -1) = {}
    BY <1>1, MovingStages DEF Owing, Stages
  <2>3. counts[s][g] = 0 /\ spent.faults = 0
    BY DEF Init, Unchanged
  <2> QED  BY <2>1, <2>2, <2>3, FS_EmptySet DEF Tally, Within
<1> QED  BY <1>1, <1>2 DEF TallyInv, OldIsRow

\* What a request owes is one, none or minus one.
LEMMA OwesOne ==
    ASSUME SubmitInv, NEW h \in Handler, NEW q, q = request[h], NEW s, NEW g \in Groups
    PROVE  Owes(q, s, g) \in {-1, 0, 1}
<1>1. CASE q.pc \in Stages
  <2>1. q \in Request /\ \E r \in Rating : q.rating = {r}
    BY <1>1, OneRequest DEF RequestOK, Saving, Stages
  <2>2. PICK r \in 1..10 : q.rating = {r}
    BY <2>1
  <2>3. q.old \in AtMostOne(Response)
    BY <2>1 DEF Request
  <2>4. Delta(q)[g] \in {-1, 0, 1}
    BY <2>2, <2>3, DeltaMoves
  <2> QED  BY <2>4 DEF Owes
<1>2. CASE q.pc \notin Stages
  BY <1>2 DEF Owes
<1> QED  BY <1>1, <1>2

\* The rows that count for a column change for one user only.
LEMMA RatersMove ==
    ASSUME NEW v \in User, NEW s \in SurveyID, NEW g \in Groups,
           IsFiniteSet(Raters(s, g)), \A u \in User \ {v} : row'[u] = row[u]
    PROVE  /\ IsFiniteSet(Raters(s, g)')
           /\ Cardinality(Raters(s, g)) \in Nat /\ Cardinality(Raters(s, g)') \in Nat
           /\ Cardinality(Raters(s, g)') = Cardinality(Raters(s, g))
                                             + In(row'[v][s], g) - In(row[v][s], g)
<1>1. \A u : u # v => (u \in Raters(s, g) <=> u \in Raters(s, g)')
  BY DEF Raters
<1>2. /\ In(row[v][s], g) = IF v \in Raters(s, g) THEN 1 ELSE 0
      /\ In(row'[v][s], g) = IF v \in Raters(s, g)' THEN 1 ELSE 0
  BY DEF Raters, In
<1>3. PICK S, T : S = Raters(s, g) /\ T = Raters(s, g)'
  OBVIOUS
<1>4. IsFiniteSet(S) /\ \A y : y # v => (y \in S <=> y \in T)
  BY <1>1, <1>3
<1>5. /\ IsFiniteSet(T) /\ Cardinality(S) \in Nat /\ Cardinality(T) \in Nat
      /\ Cardinality(T) = Cardinality(S) + (IF v \in T THEN 1 ELSE 0)
                                         - (IF v \in S THEN 1 ELSE 0)
  BY <1>4, OneElement
<1> QED  BY <1>2, <1>3, <1>5

\* What is owed on balance changes by what the request's step changes.
LEMMA DueMoves ==
    ASSUME SubmitInv, NEW h \in Handler, NEW r, request' = [request EXCEPT ![h] = r],
           NEW s \in SurveyID, NEW g \in Groups, Owes(r, s, g) \in {-1, 0, 1},
           IsFiniteSet(Owing(s, g, 1)), IsFiniteSet(Owing(s, g, -1))
    PROVE  /\ IsFiniteSet(Owing(s, g, 1)') /\ IsFiniteSet(Owing(s, g, -1)')
           /\ Cardinality(Owing(s, g, 1)) \in Nat /\ Cardinality(Owing(s, g, -1)) \in Nat
           /\ Cardinality(Owing(s, g, 1)') - Cardinality(Owing(s, g, -1)')
                = (Cardinality(Owing(s, g, 1)) - Cardinality(Owing(s, g, -1)))
                    + (Owes(r, s, g) - Owes(request[h], s, g))
<1>1. PICK m, n : m = Owes(r, s, g) /\ n = Owes(request[h], s, g)
  OBVIOUS
<1>2. m \in {-1, 0, 1} /\ n \in {-1, 0, 1}
  BY <1>1, OwesOne
<1>3. ASSUME NEW d, d = 1 \/ d = -1
      PROVE  /\ IsFiniteSet(Owing(s, g, d)') /\ Cardinality(Owing(s, g, d)) \in Nat
             /\ Cardinality(Owing(s, g, d)') = Cardinality(Owing(s, g, d))
                  + (IF m = d THEN 1 ELSE 0) - (IF n = d THEN 1 ELSE 0)
  <2>1. request'[h] = r /\ \A k \in Handler \ {h} : request'[k] = request[k]
    BY DEF SubmitInv, TypeOK
  <2>2. \A k : k # h => (k \in Owing(s, g, d) <=> k \in Owing(s, g, d)')
    BY <2>1 DEF Owing, Moving
  <2>3. \A k \in Handler : k \in Owing(s, g, d) <=> Owes(request[k], s, g) = d
    BY <1>3, MovingStages DEF Owing, Owes
  <2>4. h \in Owing(s, g, d)' <=> Owes(r, s, g) = d
    <3>1. h \in Moving(s)' <=> r.pc \in Stages /\ r.survey = s
      BY <2>1 DEF Moving, Writing, Stages
    <3>2. h \in Owing(s, g, d)' <=> h \in Moving(s)' /\ Delta(r)[g] = d
      BY <2>1 DEF Owing
    <3> QED  BY <1>3, <3>1, <3>2 DEF Owes
  <2>5. PICK S, T : S = Owing(s, g, d) /\ T = Owing(s, g, d)'
    OBVIOUS
  <2>6. IsFiniteSet(S) /\ \A y : y # h => (y \in S <=> y \in T)
    BY <1>3, <2>2, <2>5
  <2>7. /\ IsFiniteSet(T) /\ Cardinality(S) \in Nat /\ Cardinality(T) \in Nat
        /\ Cardinality(T) = Cardinality(S) + (IF h \in T THEN 1 ELSE 0)
                                           - (IF h \in S THEN 1 ELSE 0)
    BY <2>6, OneElement
  <2> QED  BY <1>1, <2>3, <2>4, <2>5, <2>7
<1>4. /\ IsFiniteSet(Owing(s, g, 1)') /\ Cardinality(Owing(s, g, 1)) \in Nat
      /\ Cardinality(Owing(s, g, 1)') = Cardinality(Owing(s, g, 1))
           + (IF m = 1 THEN 1 ELSE 0) - (IF n = 1 THEN 1 ELSE 0)
  BY <1>3
<1>5. /\ IsFiniteSet(Owing(s, g, -1)') /\ Cardinality(Owing(s, g, -1)) \in Nat
      /\ Cardinality(Owing(s, g, -1)') = Cardinality(Owing(s, g, -1))
           + (IF m = -1 THEN 1 ELSE 0) - (IF n = -1 THEN 1 ELSE 0)
  BY <1>3
<1> QED  BY <1>1, <1>2, <1>4, <1>5

\* The request q of user v becomes r and writes no row of another user.
MovesOn(h, q, r, v) ==
    /\ request' = [request EXCEPT ![h] = r]
    /\ q.pc # "idle" => q.user = v
    /\ r.pc # "idle" => r.user = v
    /\ r.pc \in {"insert", "update"} => r.old = row'[v][r.survey]
    /\ q.pc = "idle" => row' = row
    /\ \A u \in User \ {v} : row'[u] = row[u]

\* What the step changes in the row, in the columns and in what the request owes
\* cancels out, up to e.
Balances(q, r, v, e) ==
    \A s \in SurveyID, g \in Groups :
        /\ counts'[s][g] \in Int /\ Owes(r, s, g) \in {-1, 0, 1}
        /\ Within((In(row'[v][s], g) - In(row[v][s], g))
                   - (counts'[s][g] - counts[s][g])
                   - (Owes(r, s, g) - Owes(q, s, g)), e)

LEMMA TallyStep ==
    ASSUME SubmitInv, SerialInv, TallyInv, NEW h \in Handler, NEW q, q = request[h],
           NEW v \in User, NEW r, NEW e \in {0, 1}, spent'.faults = spent.faults + e,
           MovesOn(h, q, r, v), Balances(q, r, v, e)
    PROVE  TallyInv'
<1>0. /\ request' = [request EXCEPT ![h] = r]
      /\ q.pc # "idle" => q.user = v
      /\ r.pc # "idle" => r.user = v
      /\ r.pc \in {"insert", "update"} => r.old = row'[v][r.survey]
      /\ q.pc = "idle" => row' = row
      /\ \A u \in User \ {v} : row'[u] = row[u]
  BY DEF MovesOn
<1>m. request' = [request EXCEPT ![h] = r]
  BY DEF MovesOn
<1>1. request'[h] = r /\ \A k \in Handler \ {h} : request'[k] = request[k]
  BY <1>0 DEF SubmitInv, TypeOK
<1>2. ASSUME NEW k \in Handler, request'[k].pc \in {"insert", "update"}
      PROVE  request'[k].old = row'[request'[k].user][request'[k].survey]
  <2>1. CASE k = h
    BY <1>0, <1>1, <1>2, <2>1
  <2>2. CASE k # h
    <3>1. PICK p : p = request[k]
      OBVIOUS
    <3>2. request'[k] = p /\ p.pc \in {"insert", "update"}
      BY <1>1, <1>2, <2>2, <3>1
    <3>3. p.old = row[p.user][p.survey] /\ p.user \in User
      BY <3>1, <3>2, OneRequest DEF TallyInv, OldIsRow, RequestOK
    <3>4. row'[p.user] = row[p.user]
      BY <1>0, <2>2, <3>1, <3>2, <3>3 DEF SerialInv, OneAtATime
    <3> QED  BY <3>2, <3>3, <3>4
  <2> QED  BY <2>1, <2>2
<1>3. ASSUME NEW s \in SurveyID, NEW g \in Groups PROVE Tally(s, g)'
  <2>1. Tally(s, g)
    BY DEF TallyInv
  <2>2. counts[s][g] \in Int /\ spent.faults \in Nat
    <3>1. spent \in [submits : 0..MaxSubmits, faults : 0..MaxFaults]
      BY DEF SubmitInv, TypeOK
    <3> QED  BY <3>1 DEF SubmitInv, TypeOK
  <2>3. PICK a, b, c, d : /\ a = Cardinality(Raters(s, g))
                          /\ b = Cardinality(Owing(s, g, 1))
                          /\ c = Cardinality(Owing(s, g, -1))
                          /\ d = counts[s][g]
    OBVIOUS
  <2>4. PICK x, y, m, n : /\ x = In(row'[v][s], g) /\ y = In(row[v][s], g)
                          /\ m = Owes(r, s, g) /\ n = Owes(q, s, g)
    OBVIOUS
  <2>5. /\ IsFiniteSet(Raters(s, g)') /\ a \in Nat
        /\ Cardinality(Raters(s, g)') = a + x - y
    BY <1>0, <2>1, <2>3, <2>4, RatersMove DEF Tally
  <2>6. /\ IsFiniteSet(Owing(s, g, 1)') /\ b \in Nat
        /\ IsFiniteSet(Owing(s, g, -1)') /\ c \in Nat
        /\ Cardinality(Owing(s, g, 1)') - Cardinality(Owing(s, g, -1)') = (b - c) + (m - n)
    <3>1. IsFiniteSet(Owing(s, g, 1)) /\ IsFiniteSet(Owing(s, g, -1))
      BY <2>1 DEF Tally
    <3>2. Owes(r, s, g) \in {-1, 0, 1}
      BY DEF Balances
    <3>3. /\ IsFiniteSet(Owing(s, g, 1)') /\ IsFiniteSet(Owing(s, g, -1)')
          /\ Cardinality(Owing(s, g, 1)) \in Nat /\ Cardinality(Owing(s, g, -1)) \in Nat
          /\ Cardinality(Owing(s, g, 1)') - Cardinality(Owing(s, g, -1)')
               = (Cardinality(Owing(s, g, 1)) - Cardinality(Owing(s, g, -1)))
                   + (Owes(r, s, g) - Owes(request[h], s, g))
      BY <1>m, <3>1, <3>2, DueMoves
    <3> QED  BY <2>3, <2>4, <3>3
  <2>7. m \in {-1, 0, 1} /\ n \in {-1, 0, 1} /\ x \in {0, 1} /\ y \in {0, 1}
    BY <2>4, OwesOne DEF In, Balances
  <2>8. /\ Within(a - d - (b - c), spent.faults)
        /\ Within((x - y) - (counts'[s][g] - d) - (m - n), e)
        /\ d \in Int /\ counts'[s][g] \in Int
    BY <2>1, <2>2, <2>3, <2>4 DEF Tally, Balances
  <2>9. Within(Cardinality(Raters(s, g)') - counts'[s][g]
                  - (Cardinality(Owing(s, g, 1)') - Cardinality(Owing(s, g, -1)')),
                spent'.faults)
    <3>1. PICK i, j, k : i = a - d - (b - c) /\ k = counts'[s][g]
                         /\ j = (x - y) - (k - d) - (m - n)
      OBVIOUS
    <3>2. i \in Int /\ j \in Int /\ k \in Int
      BY <2>5, <2>6, <2>7, <2>8, <3>1
    <3>3. (a + x - y) - k - ((b - c) + (m - n)) = i + j
      BY <2>5, <2>6, <2>7, <2>8, <3>1, <3>2
    <3>4. Within(i + j, spent.faults + e)
      BY <2>2, <2>8, <3>1, <3>2 DEF Within
    <3> QED  BY <2>5, <2>6, <3>1, <3>3, <3>4
  <2> QED  BY <2>5, <2>6, <2>9 DEF Tally
<1> QED  BY <1>2, <1>3 DEF TallyInv, OldIsRow

\* A step that changes neither rows nor columns, nor what the request owes.
QuietMove(h, q, r) ==
    /\ request' = [request EXCEPT ![h] = r]
    /\ r.pc # "idle" => r.user = q.user
    /\ r.pc \in {"insert", "update"} => r.old = row[q.user][r.survey]
    /\ UNCHANGED <<row, counts, spent>>
    /\ \A s \in SurveyID, g \in Groups : Owes(r, s, g) = Owes(q, s, g)

LEMMA QuietTally ==
    ASSUME SubmitInv, SerialInv, TallyInv, NEW h \in Handler, NEW q, q = request[h],
           q.pc # "idle", NEW r, QuietMove(h, q, r)
    PROVE  TallyInv'
<1>1. PICK v, e : v = q.user /\ e = 0
  OBVIOUS
<1>2. v \in User /\ e \in {0, 1}
  BY <1>1, OneRequest DEF RequestOK
<1>3. UNCHANGED <<row, counts, spent>> /\ spent'.faults = spent.faults + e
  <2>1. spent \in [submits : 0..MaxSubmits, faults : 0..MaxFaults]
    BY DEF SubmitInv, TypeOK
  <2> QED  BY <1>1, <2>1 DEF QuietMove
<1>4. MovesOn(h, q, r, v)
  BY <1>1 DEF QuietMove, MovesOn
<1>5. ASSUME NEW s \in SurveyID, NEW g \in Groups
      PROVE  /\ counts'[s][g] \in Int /\ Owes(r, s, g) \in {-1, 0, 1}
             /\ Within((In(row'[v][s], g) - In(row[v][s], g))
                        - (counts'[s][g] - counts[s][g])
                        - (Owes(r, s, g) - Owes(q, s, g)), e)
  <2>1. counts[s][g] \in Int
    BY DEF SubmitInv, TypeOK
  <2>2. Owes(q, s, g) \in {-1, 0, 1} /\ Owes(r, s, g) = Owes(q, s, g)
    BY OwesOne DEF QuietMove
  <2>3. In(row[v][s], g) \in {0, 1}
    BY DEF In
  <2> QED  BY <1>1, <1>3, <2>1, <2>2, <2>3 DEF Within
<1>6. Balances(q, r, v, e)
  BY <1>5 DEF Balances
<1> QED  BY <1>2, <1>3, <1>4, <1>6, TallyStep

\* Steps that neither store a response, nor move columns, nor lead there.
LEMMA ReadingTally ==
    ASSUME SubmitInv, SerialInv, TallyInv, NEW h \in Handler,
           \/ Recheck(h) \/ ReadResponse(h) \/ SendAcknowledgementPost(h)
           \/ RefreshGetPost(h) \/ RefreshCheckSurvey(h) \/ ExpireGetPost(h)
           \/ SetExpiredPropsInPost(h) \/ Answer(h)
    PROVE  TallyInv'
<1>1. PICK q : q = request[h]
  OBVIOUS
<1>2. /\ q.pc \notin Stages /\ q.pc # "idle" /\ UNCHANGED <<row, counts, spent>>
  BY <1>1 DEF Recheck, ReadResponse, SendAcknowledgementPost, RefreshGetPost,
       RefreshCheckSurvey, ExpireGetPost, SetExpiredPropsInPost, Answer, Outcome,
       Stages, counters
<1>3. q \in Request
  BY <1>1, OneRequest
<1>4. PICK r : /\ request' = [request EXCEPT ![h] = r]
               /\ r.pc \notin Stages
               /\ r.pc # "idle" => r.user = q.user
               /\ r.pc \in {"insert", "update"} => r.old = row[q.user][r.survey]
  <2>1. CASE ReadResponse(h)
    <3>1. PICK old : old = row[q.user][q.survey]
      OBVIOUS
    <3>2. PICK pc \in {"insert", "ok", "update"} :
            request' = [request EXCEPT ![h] = WithOld(q, pc, old)]
      BY <1>1, <2>1, <3>1 DEF ReadResponse
    <3>3. PICK r : r = WithOld(q, pc, old)
      OBVIOUS
    <3>4. r.pc = pc /\ r.user = q.user /\ r.survey = q.survey /\ r.old = old
      BY <1>3, <3>3, RequestFields
    <3> QED  BY <3>1, <3>2, <3>3, <3>4 DEF Stages
  <2>2. CASE RefreshGetPost(h) \/ ExpireGetPost(h)
    <3>1. PICK pc, p : /\ pc \in {"check", "putended"}
                       /\ request' = [request EXCEPT ![h] = WithCopy(q, pc, p)]
      BY <1>1, <2>2 DEF RefreshGetPost, ExpireGetPost
    <3>2. PICK r : r = WithCopy(q, pc, p)
      OBVIOUS
    <3>3. r.pc = pc /\ r.user = q.user
      BY <1>3, <3>2, RequestFields
    <3> QED  BY <3>1, <3>2, <3>3 DEF Stages
  <2>3. CASE Answer(h)
    <3>1. Idle.pc = "idle"
      BY DEF Idle, Sent
    <3> QED  BY <2>3, <3>1 DEF Answer, Stages
  <2>4. CASE \/ Recheck(h) \/ SendAcknowledgementPost(h) \/ RefreshCheckSurvey(h)
             \/ SetExpiredPropsInPost(h)
    <3>1. PICK pc \in {"panic", "read", "error", "ok", "putended"} :
            request' = [request EXCEPT ![h] = At(q, pc)]
      BY <1>1, <2>4 DEF Recheck, SendAcknowledgementPost, RefreshCheckSurvey,
                        SetExpiredPropsInPost, Goto
    <3>2. PICK r : r = At(q, pc)
      OBVIOUS
    <3>3. r.pc = pc /\ r.user = q.user
      BY <1>3, <3>2, RequestFields
    <3> QED  BY <3>1, <3>2, <3>3 DEF Stages
  <2> QED  BY <2>1, <2>2, <2>3, <2>4
<1>5. \A s \in SurveyID, g \in Groups : Owes(r, s, g) = Owes(q, s, g)
  BY <1>2, <1>4 DEF Owes
<1>6. QuietMove(h, q, r)
  BY <1>2, <1>4, <1>5 DEF QuietMove
<1> QED  BY <1>1, <1>2, <1>6, QuietTally

\* A request that owes something goes on owing it until it moves the columns.
LEMMA StagesTally ==
    ASSUME SubmitInv, SerialInv, TallyInv, NEW h \in Handler,
           IncrementSurveyResponseCount(h) \/ GetPost(h) \/ UpdatePost(h)
    PROVE  TallyInv'
<1>1. PICK q : q = request[h]
  OBVIOUS
<1>2. q.pc \in Stages /\ q.pc # "idle" /\ UNCHANGED <<row, counts, spent>>
  BY <1>1 DEF IncrementSurveyResponseCount, GetPost, UpdatePost, Stages, counters
<1>3. q \in Request
  BY <1>1, OneRequest
<1>4. PICK pc, p :
        /\ pc \in {"getpost", "putpost", "groups"}
        /\ \/ request' = [request EXCEPT ![h] = At(q, pc)]
           \/ request' = [request EXCEPT ![h] = WithCopy(q, pc, p)]
  BY <1>1 DEF IncrementSurveyResponseCount, GetPost, UpdatePost, Goto
<1>5. PICK r : request' = [request EXCEPT ![h] = r]
               /\ (r = At(q, pc) \/ r = WithCopy(q, pc, p))
  BY <1>4
<1>6. /\ r.pc = pc /\ pc \in {"getpost", "putpost", "groups"}
      /\ r.user = q.user /\ r.survey = q.survey
      /\ r.rating = q.rating /\ r.old = q.old
  BY <1>3, <1>4, <1>5, RequestFields
<1>7. Delta(r) = Delta(q)
  BY <1>6 DEF Delta
<1>8. \A s \in SurveyID, g \in Groups : Owes(r, s, g) = Owes(q, s, g)
  BY <1>2, <1>6, <1>7 DEF Owes, Stages
<1>9. QuietMove(h, q, r)
  BY <1>2, <1>5, <1>6, <1>8 DEF QuietMove
<1> QED  BY <1>1, <1>2, <1>9, QuietTally

\* A response is stored where the request read none or a partial one: it owes
\* the columns exactly the difference.
LEMMA StoringTally ==
    ASSUME SubmitInv, SerialInv, TallyInv, NEW h \in Handler,
           SaveSurveyResponse(h) \/ UpdateSurveyResponse(h)
    PROVE  TallyInv'
<1>1. PICK q : q = request[h]
  OBVIOUS
<1>2. /\ q.pc \in {"insert", "update"} /\ q.pc # "idle" /\ UNCHANGED <<counts, spent>>
  BY <1>1 DEF SaveSurveyResponse, UpdateSurveyResponse, counters
<1>3. /\ q \in Request /\ q.user \in User /\ q.survey \in SurveyID
      /\ RequestOK(q, row, running \union past, past)
      /\ q.old = row[q.user][q.survey]
  BY <1>1, <1>2, OneRequest DEF RequestOK, TallyInv, OldIsRow
<1>4. PICK old : old = row[q.user][q.survey]
  OBVIOUS
<1>5. CASE SaveSurveyResponse(h) /\ old # {}
  <2>1. PICK r : r = At(q, "error")
    OBVIOUS
  <2>2. r.pc = "error" /\ r.user = q.user
    BY <1>3, <2>1, RequestFields
  <2>3. request' = [request EXCEPT ![h] = r] /\ UNCHANGED row
    BY <1>1, <1>4, <1>5, <2>1 DEF SaveSurveyResponse, Goto
  <2>4. \A s \in SurveyID, g \in Groups : Owes(r, s, g) = Owes(q, s, g)
    BY <1>2, <2>2 DEF Owes, Stages
  <2>5. QuietMove(h, q, r)
    BY <1>2, <2>2, <2>3, <2>4 DEF QuietMove
  <2> QED  BY <1>1, <1>2, <2>5, QuietTally
<1>6. CASE UpdateSurveyResponse(h) \/ old = {}
  <2>1. PICK pc \in {"count", "getpost"} : request' = [request EXCEPT ![h] = At(q, pc)]
    BY <1>1, <1>4, <1>6 DEF SaveSurveyResponse, UpdateSurveyResponse, Goto
  <2>2. row' = [row EXCEPT ![q.user][q.survey] = Carried(q)]
    <3>1. CASE UpdateSurveyResponse(h)
      <4>1. q.pc = "update"
        BY <1>1, <3>1 DEF UpdateSurveyResponse
      <4>2. ~Completed(old) /\ old # {} /\ old \in AtMostOne(Response)
        BY <1>1, <1>3, <1>4, <4>1, SerialFacts DEF Knows, RequestOK, Request
      <4>3. PICK o \in Response : old = {o}
        BY <4>2 DEF AtMostOne
      <4>4. Partial(old)
        BY <4>2, <4>3 DEF Partial, Completed, Response
      <4>5. row' = [row EXCEPT ![q.user][q.survey] = IF Partial(@) THEN Carried(q) ELSE @]
        BY <1>1, <3>1 DEF UpdateSurveyResponse
      <4> QED  BY <1>4, <4>4, <4>5
    <3>2. CASE SaveSurveyResponse(h) /\ old = {}
      BY <1>1, <1>4, <3>2 DEF SaveSurveyResponse
    <3> QED  BY <1>6, <3>1, <3>2
  <2>3. PICK r : r = At(q, pc)
    OBVIOUS
  <2>4. /\ r.pc = pc /\ r.user = q.user /\ r.survey = q.survey
        /\ r.rating = q.rating /\ r.old = q.old
    BY <1>3, <2>3, RequestFields
  <2>5. Delta(r) = Delta(q)
    BY <2>4 DEF Delta
  <2>6. PICK v, e, c : v = q.user /\ e = 0 /\ c = Carried(q)
    OBVIOUS
  <2>7. /\ \A u \in User \ {v} : row'[u] = row[u]
        /\ \A s \in SurveyID : /\ s = q.survey => row'[v][s] = c
                               /\ s # q.survey => row'[v][s] = row[v][s]
    BY <1>3, <2>2, <2>6 DEF SubmitInv, TypeOK
  <2>8. MovesOn(h, q, r, v)
    BY <1>2, <2>1, <2>3, <2>4, <2>6, <2>7 DEF MovesOn
  <2>9. ASSUME NEW s \in SurveyID, NEW g \in Groups
        PROVE  /\ counts'[s][g] \in Int /\ Owes(r, s, g) \in {-1, 0, 1}
               /\ Within((In(row'[v][s], g) - In(row[v][s], g))
                          - (counts'[s][g] - counts[s][g])
                          - (Owes(r, s, g) - Owes(q, s, g)), e)
    <3>1. counts[s][g] \in Int /\ counts' = counts
      BY <1>2 DEF SubmitInv, TypeOK
    <3>2. PICK x \in 1..10 : q.rating = {x}
      BY <1>2, <1>3 DEF RequestOK, Saving
    <3>3. q.old \in AtMostOne(Response)
      BY <1>3 DEF Request
    <3>4. /\ Delta(q)[g] = In(c, g) - In(q.old, g)
          /\ Delta(q)[g] \in {-1, 0, 1}
      BY <2>6, <3>2, <3>3, DeltaMoves
    <3>5. /\ In(row'[v][s], g) \in {0, 1} /\ In(row[v][s], g) \in {0, 1}
          /\ In(c, g) \in {0, 1} /\ In(q.old, g) \in {0, 1}
      BY DEF In
    <3>6. Owes(q, s, g) = 0
      BY <1>2 DEF Owes, Stages
    <3>7. CASE s = q.survey
      <4>1. Owes(r, s, g) = Delta(q)[g]
        BY <2>1, <2>4, <2>5, <3>7 DEF Owes, Stages
      <4>2. In(row'[v][s], g) = In(c, g) /\ In(row[v][s], g) = In(q.old, g)
        BY <1>3, <2>6, <2>7, <3>7
      <4> QED  BY <2>6, <3>1, <3>4, <3>5, <3>6, <4>1, <4>2 DEF Within
    <3>8. CASE s # q.survey
      <4>1. Owes(r, s, g) = 0
        BY <2>4, <3>8 DEF Owes
      <4>2. In(row'[v][s], g) = In(row[v][s], g)
        BY <2>7, <3>8
      <4> QED  BY <2>6, <3>1, <3>5, <3>6, <4>1, <4>2 DEF Within
    <3> QED  BY <3>7, <3>8
  <2>10. Balances(q, r, v, e)
    BY <2>9 DEF Balances
  <2>11. v \in User /\ e \in {0, 1} /\ spent'.faults = spent.faults + e
    <3>1. spent \in [submits : 0..MaxSubmits, faults : 0..MaxFaults]
      BY DEF SubmitInv, TypeOK
    <3> QED  BY <1>2, <1>3, <2>6, <3>1
  <2> QED  BY <1>1, <2>8, <2>10, <2>11, TallyStep
<1> QED  BY <1>4, <1>5, <1>6

\* A request moves the columns by what it owes, or its call fails.
LEMMA MovedOrLost ==
    ASSUME SubmitInv, SerialInv, TallyInv, NEW h \in Handler,
           UpdateRatingGroupCount(h) \/ CallFails(h)
    PROVE  TallyInv'
<1>1. PICK q : q = request[h]
  OBVIOUS
<1>2. q.pc # "idle" /\ UNCHANGED row
  BY <1>1 DEF UpdateRatingGroupCount, CallFails
<1>3. /\ q \in Request /\ q.user \in User /\ q.survey \in SurveyID
  BY <1>1, <1>2, OneRequest DEF RequestOK
<1>4. PICK pc \in {"ack", "ok", "error"} : request' = [request EXCEPT ![h] = At(q, pc)]
  BY <1>1 DEF UpdateRatingGroupCount, CallFails, Goto
<1>5. PICK r, v : r = At(q, pc) /\ v = q.user
  OBVIOUS
<1>6. r.pc = pc /\ r.user = v
  BY <1>3, <1>5, RequestFields
<1>7. MovesOn(h, q, r, v)
  BY <1>2, <1>4, <1>5, <1>6 DEF MovesOn
<1>8. \A s \in SurveyID, g \in Groups : Owes(r, s, g) = 0
  BY <1>6 DEF Owes, Stages
<1>9. ASSUME NEW s \in SurveyID, NEW g \in Groups
      PROVE  /\ row'[v][s] = row[v][s] /\ In(row[v][s], g) \in {0, 1}
             /\ counts[s][g] \in Int /\ Owes(q, s, g) \in {-1, 0, 1}
  <2>1. Owes(q, s, g) \in {-1, 0, 1}
    BY <1>1, OwesOne
  <2> QED  BY <1>2, <2>1 DEF In, SubmitInv, TypeOK
<1>10. CASE UpdateRatingGroupCount(h)
  <2>1. PICK d, e : d = Delta(q) /\ e = 0
    OBVIOUS
  <2>2. /\ q.pc = "groups" /\ UNCHANGED spent
        /\ counts' = [counts EXCEPT ![q.survey] = [g \in Groups |-> @[g] + d[g]]]
    BY <1>1, <1>10, <2>1 DEF UpdateRatingGroupCount
  <2>3. ASSUME NEW s \in SurveyID, NEW g \in Groups
        PROVE  counts'[s][g] = counts[s][g] + Owes(q, s, g)
    <3>1. counts \in [SurveyID -> [Groups -> Int]]
      BY DEF SubmitInv, TypeOK
    <3>2. CASE s = q.survey
      <4>1. Owes(q, s, g) = d[g]
        BY <2>1, <2>2, <3>2 DEF Owes, Stages
      <4>2. counts'[s][g] = counts[s][g] + d[g]
        BY <2>2, <3>1, <3>2
      <4> QED  BY <4>1, <4>2
    <3>3. CASE s # q.survey
      <4>1. Owes(q, s, g) = 0
        BY <3>3 DEF Owes
      <4> QED  BY <1>9, <2>2, <3>1, <3>3, <4>1
    <3> QED  BY <3>2, <3>3
  <2>4. ASSUME NEW s \in SurveyID, NEW g \in Groups
        PROVE  /\ counts'[s][g] \in Int /\ Owes(r, s, g) \in {-1, 0, 1}
               /\ Within((In(row'[v][s], g) - In(row[v][s], g))
                          - (counts'[s][g] - counts[s][g])
                          - (Owes(r, s, g) - Owes(q, s, g)), e)
    <3>1. counts'[s][g] = counts[s][g] + Owes(q, s, g)
      BY <2>3
    <3>2. Owes(r, s, g) = 0
      BY <1>8
    <3> QED  BY <1>9, <2>1, <3>1, <3>2 DEF Within
  <2>5. Balances(q, r, v, e)
    BY <2>4 DEF Balances
  <2>6. v \in User /\ e \in {0, 1} /\ spent'.faults = spent.faults + e
    <3>1. spent \in [submits : 0..MaxSubmits, faults : 0..MaxFaults]
      BY DEF SubmitInv, TypeOK
    <3> QED  BY <1>3, <1>5, <2>1, <2>2, <3>1
  <2> QED  BY <1>1, <1>7, <2>5, <2>6, TallyStep
<1>11. CASE CallFails(h)
  <2>1. PICK e : e = 1
    OBVIOUS
  <2>2. v \in User /\ e \in {0, 1} /\ spent'.faults = spent.faults + e
    BY <1>3, <1>5, <1>11, <2>1, FaultCounts DEF CallFails
  <2>3. ASSUME NEW s \in SurveyID, NEW g \in Groups
        PROVE  /\ counts'[s][g] \in Int /\ Owes(r, s, g) \in {-1, 0, 1}
               /\ Within((In(row'[v][s], g) - In(row[v][s], g))
                          - (counts'[s][g] - counts[s][g])
                          - (Owes(r, s, g) - Owes(q, s, g)), e)
    <3>1. counts' = counts
      BY <1>11 DEF CallFails, counters
    <3>2. Owes(r, s, g) = 0
      BY <1>8
    <3> QED  BY <1>9, <2>1, <3>1, <3>2 DEF Within
  <2>4. Balances(q, r, v, e)
    BY <2>3 DEF Balances
  <2> QED  BY <1>1, <1>7, <2>2, <2>4, TallyStep
<1> QED  BY <1>10, <1>11

\* A request begins: it owes nothing yet.
LEMMA BeginTally ==
    ASSUME SubmitInv, SerialInv, TallyInv, NEW h \in Handler, NEW u \in User,
           NEW s \in SurveyID, SubmitBegin(h, u, s) \/ RefreshBegin(h, u, s)
    PROVE  TallyInv'
<1>1. PICK q, e : q = request[h] /\ e = 0
  OBVIOUS
<1>2. q.pc = "idle" /\ UNCHANGED <<row, counts>>
  BY <1>1 DEF SubmitBegin, RefreshBegin, counters
<1>3. PICK r : /\ request' = [request EXCEPT ![h] = r] /\ r.user = u
               /\ r.pc \notin Stages \union {"insert", "update"}
  <2>1. CASE SubmitBegin(h, u, s)
    <3>1. PICK type \in {"partial", "complete"}, x \in Rating :
            request' = [request EXCEPT ![h] =
                Sent(IF s \in running THEN "recheck" ELSE "expire", u, s, type, {x})]
      BY <2>1 DEF SubmitBegin
    <3>2. PICK r : r = Sent(IF s \in running THEN "recheck" ELSE "expire", u, s, type, {x})
      OBVIOUS
    <3>3. r.user = u /\ r.pc \in {"recheck", "expire"}
      BY <3>2 DEF Sent
    <3>4. request' = [request EXCEPT ![h] = r]
      BY <3>1, <3>2
    <3> QED  BY <3>3, <3>4 DEF Stages
  <2>2. CASE RefreshBegin(h, u, s)
    <3>1. PICK r : r = Sent("refresh", u, s, "refresh", {})
      OBVIOUS
    <3>2. r.user = u /\ r.pc = "refresh"
      BY <3>1 DEF Sent
    <3>3. request' = [request EXCEPT ![h] = r]
      BY <2>2, <3>1 DEF RefreshBegin
    <3> QED  BY <3>2, <3>3 DEF Stages
  <2> QED  BY <2>1, <2>2
<1>4. MovesOn(h, q, r, u)
  BY <1>2, <1>3 DEF MovesOn
<1>5. ASSUME NEW t \in SurveyID, NEW g \in Groups
      PROVE  /\ counts'[t][g] \in Int /\ Owes(r, t, g) \in {-1, 0, 1}
             /\ Within((In(row'[u][t], g) - In(row[u][t], g))
                        - (counts'[t][g] - counts[t][g])
                        - (Owes(r, t, g) - Owes(q, t, g)), e)
  <2>1. Owes(r, t, g) = 0 /\ Owes(q, t, g) = 0
    BY <1>2, <1>3 DEF Owes, Stages
  <2>2. /\ row'[u][t] = row[u][t] /\ In(row[u][t], g) \in {0, 1}
        /\ counts' = counts /\ counts[t][g] \in Int
    BY <1>2 DEF In, SubmitInv, TypeOK
  <2> QED  BY <1>1, <2>1, <2>2 DEF Within
<1>6. Balances(q, r, u, e)
  BY <1>5 DEF Balances
<1>7. e \in {0, 1} /\ spent'.faults = spent.faults + e
  <2>1. spent \in [submits : 0..MaxSubmits, faults : 0..MaxFaults]
    BY DEF SubmitInv, TypeOK
  <2> QED  BY <1>1, <2>1 DEF SubmitBegin, RefreshBegin
<1> QED  BY <1>1, <1>4, <1>6, <1>7, TallyStep

LEMMA TallyNext == SubmitInv /\ SerialInv /\ TallyInv /\ [Next]_vars => TallyInv'
<1> SUFFICES ASSUME SubmitInv, SerialInv, TallyInv, [Next]_vars PROVE TallyInv'
  OBVIOUS
<1>1. ASSUME NEW h \in Handler, Serve(h) \/ CallFails(h) PROVE TallyInv'
  BY <1>1, ReadingTally, StagesTally, StoringTally, MovedOrLost DEF Serve
<1>2. ASSUME NEW h \in Handler, NEW u \in User, NEW s \in SurveyID,
             SubmitBegin(h, u, s) \/ RefreshBegin(h, u, s)
      PROVE  TallyInv'
  BY <1>2, BeginTally
<1>3. CASE SurveyStep \/ UNCHANGED vars
  <2>1. UNCHANGED <<row, counts, request, spent>>
    BY <1>3 DEF SurveyStep, vars, counters
  <2>2. OldIsRow'
    BY <2>1 DEF TallyInv, OldIsRow
  <2>3. ASSUME NEW s \in SurveyID, NEW g \in Groups PROVE Tally(s, g)'
    <3>1. Tally(s, g)
      BY DEF TallyInv
    <3>2. Raters(s, g)' = Raters(s, g) /\ Moving(s)' = Moving(s)
      BY <2>1 DEF Raters, Moving
    <3>3. \A d : Owing(s, g, d)' = Owing(s, g, d)
      BY <2>1, <3>2 DEF Owing
    <3> QED  BY <2>1, <3>1, <3>2, <3>3 DEF Tally
  <2> QED  BY <2>2, <2>3 DEF TallyInv
<1> QED  BY <1>1, <1>2, <1>3 DEF Next, Refresh

LEMMA TallyCorrect == Spec /\ []OneAtATime => [](SubmitInv /\ TallyInv)
BY SerialInit, SerialNext, TallyInit, TallyNext, SubmitInvCorrect, PTL DEF Spec

\* The number of users in a group.
LEMMA InGroupType ==
    ASSUME TallyInv, NEW s \in SurveyID, NEW g \in Groups
    PROVE  InGroup(s, g) \in Nat
<1>1. Tally(s, g)
  BY DEF TallyInv
<1> QED  BY <1>1, FS_CardinalityType DEF Tally, InGroup, Raters

\* As long as the requests of a user do not overlap, each rating column holds the
\* users of its group, up to what requests under way still owe it and one for
\* every failed call.
THEOREM ColumnsAreAccounted == Spec /\ []OneAtATime => []TallyAccounted
<1>1. SubmitInv /\ TallyInv => TallyAccounted
  <2> SUFFICES ASSUME SubmitInv, TallyInv, NEW s \in SurveyID, NEW g \in Groups
               PROVE  InGroup(s, g) - counts[s][g] - Owed(Moving(s), g)
                        \in (-spent.faults)..spent.faults
    BY DEF TallyAccounted
  <2>1. PICK a, b, c : /\ a = Cardinality(Raters(s, g))
                       /\ b = Cardinality(Owing(s, g, 1))
                       /\ c = Cardinality(Owing(s, g, -1))
    OBVIOUS
  <2>2. Tally(s, g)
    BY DEF TallyInv
  <2>3. a \in Nat /\ b \in Nat /\ c \in Nat
    BY <2>1, <2>2, FS_CardinalityType DEF Tally
  <2>4. InGroup(s, g) = a /\ Owed(Moving(s), g) = b - c
    BY <2>1 DEF InGroup, Owed, Raters, Owing
  <2>5. counts[s][g] \in Int /\ spent.faults \in Nat
    <3>1. spent \in [submits : 0..MaxSubmits, faults : 0..MaxFaults]
      BY DEF SubmitInv, TypeOK
    <3> QED  BY <3>1 DEF SubmitInv, TypeOK
  <2>6. Within(a - counts[s][g] - (b - c), spent.faults)
    BY <2>1, <2>2 DEF Tally
  <2> QED  BY <2>3, <2>4, <2>5, <2>6 DEF Within
<1> QED  BY TallyCorrect, <1>1, PTL

\* With one request of a user at a time and no failed call, the columns are
\* exactly the stored ratings whenever nothing is under way: only ratings that
\* overlap make them drift.
THEOREM ColumnsMatch ==
    Spec /\ []OneAtATime => [](spent.faults = 0 => CountsMatchTally)
<1>1. SubmitInv /\ TallyInv /\ TallyAccounted => (spent.faults = 0 => CountsMatchTally)
  <2> SUFFICES ASSUME SubmitInv, TallyInv, TallyAccounted, spent.faults = 0,
                      \A h \in Handler : request[h].pc = "idle",
                      NEW s \in SurveyID, NEW g \in Groups
               PROVE  counts[s][g] = InGroup(s, g)
    BY DEF CountsMatchTally
  <2>1. Owed(Moving(s), g) = 0
    <3>1. Moving(s) = {}
      BY DEF Moving, Writing
    <3>2. /\ Cardinality({h \in Moving(s) : Delta(request[h])[g] = 1}) = 0
          /\ Cardinality({h \in Moving(s) : Delta(request[h])[g] = -1}) = 0
      BY <3>1, FS_EmptySet
    <3> QED  BY <3>2 DEF Owed
  <2>2. InGroup(s, g) - counts[s][g] - Owed(Moving(s), g)
          \in (-spent.faults)..spent.faults
    BY DEF TallyAccounted
  <2>3. counts[s][g] \in Int
    BY DEF SubmitInv, TypeOK
  <2> QED  BY <2>1, <2>2, <2>3, InGroupType
<1> QED  BY ColumnsAreAccounted, TallyCorrect, <1>1, PTL

----------------------------------------------------------------------------
(* One request at a time, and no panic.                                    *)

LEMMA OneAtATimeNext ==
    ASSUME PerUser = 1
    PROVE  SubmitInv /\ OneAtATime /\ [Next]_vars => OneAtATime'
<1> SUFFICES ASSUME SubmitInv, OneAtATime, [Next]_vars PROVE OneAtATime'
  OBVIOUS
<1>0. DOMAIN request = Handler
  BY DEF SubmitInv, TypeOK
<1>1. ASSUME NEW h \in Handler, Serve(h) \/ CallFails(h) PROVE OneAtATime'
  <2>1. request[h].pc # "idle"
    BY <1>1, RequestFollows
  <2>2. PICK r : request' = [request EXCEPT ![h] = r] /\ Follows(r, request[h])
    BY <1>1, RequestFollows
  <2> QED  BY <1>0, <2>1, <2>2 DEF Follows, OneAtATime
<1>2. ASSUME NEW h \in Handler, NEW u \in User, NEW s \in SurveyID,
             SubmitBegin(h, u, s) \/ RefreshBegin(h, u, s)
      PROVE  OneAtATime'
  <2>1. PICK r : request' = [request EXCEPT ![h] = r] /\ r.user = u
    BY <1>2, Begun
  <2>2. ASSUME NEW g \in Handler, request[g].pc # "idle" PROVE request[g].user # u
    <3> SUFFICES ASSUME request[g].user = u PROVE FALSE
      OBVIOUS
    <3>1. Active(u) = {g}
      BY <2>2 DEF Active, OneAtATime
    <3>2. Cardinality(Active(u)) = 1
      BY <3>1, FS_Singleton
    <3> QED  BY <1>2, <3>2 DEF SubmitBegin, RefreshBegin, ClientMay
  <2> QED  BY <1>0, <2>1, <2>2 DEF OneAtATime
<1>3. CASE SurveyStep \/ UNCHANGED vars
  BY <1>3 DEF SurveyStep, vars, OneAtATime
<1> QED  BY <1>1, <1>2, <1>3 DEF Next, Refresh

\* A client that waits for each answer meets the premise of the theorems above.
THEOREM WaitingClients == ASSUME PerUser = 1 PROVE Spec => []OneAtATime
<1>1. Init => OneAtATime
  BY SerialInit DEF SerialInv
<1> QED  BY <1>1, OneAtATimeNext, SubmitInvCorrect, PTL DEF Spec

\* No survey ends while a request is between its two looks at the survey.
NoEndBetweenLooks ==
    [][(\E h \in Handler : request[h].pc = "recheck") => past' = past]_vars

LooksAgree ==
    \A h \in Handler : /\ request[h].pc = "recheck" => running # {}
                       /\ request[h].pc # "panic"

LEMMA LooksAgreeNext ==
    /\ SubmitInv /\ Apart /\ LooksAgree /\ [Next]_vars
    /\ [(\E h \in Handler : request[h].pc = "recheck") => past' = past]_vars
    => LooksAgree'
<1> SUFFICES ASSUME SubmitInv, Apart, LooksAgree, [Next]_vars,
                    [(\E h \in Handler : request[h].pc = "recheck") => past' = past]_vars
             PROVE  LooksAgree'
  OBVIOUS
<1>0. DOMAIN request = Handler
  BY DEF SubmitInv, TypeOK
<1>1. ASSUME NEW h \in Handler, Serve(h) \/ CallFails(h) PROVE LooksAgree'
  <2>1. PICK r : request' = [request EXCEPT ![h] = r] /\ Follows(r, request[h])
    BY <1>1, RequestFollows
  <2>2. running' = running
    BY <1>1 DEF Serve, CallFails, Recheck, ReadResponse, SaveSurveyResponse,
         UpdateSurveyResponse, IncrementSurveyResponseCount, GetPost, UpdatePost,
         UpdateRatingGroupCount, SendAcknowledgementPost, RefreshGetPost,
         RefreshCheckSurvey, ExpireGetPost, SetExpiredPropsInPost, Answer, surveys
  <2> QED  BY <1>0, <2>1, <2>2 DEF Follows, LooksAgree
<1>2. ASSUME NEW h \in Handler, NEW u \in User, NEW s \in SurveyID,
             SubmitBegin(h, u, s) \/ RefreshBegin(h, u, s)
      PROVE  LooksAgree'
  <2>1. PICK r : /\ request' = [request EXCEPT ![h] = r]
                 /\ r.pc \in {"recheck", "refresh", "expire"}
                 /\ r.pc = "recheck" => s \in running
    BY <1>2, Begun
  <2>2. running' = running
    BY <1>2 DEF SubmitBegin, RefreshBegin, surveys
  <2> QED  BY <1>0, <2>1, <2>2 DEF LooksAgree
<1>3. CASE SurveyStep
  <2>1. UNCHANGED request
    BY <1>3 DEF SurveyStep
  <2>2. ASSUME NEW h \in Handler, request[h].pc = "recheck" PROVE running' # {}
    <3>1. running # {} /\ running \cap past = {}
      BY <2>2 DEF LooksAgree, Apart
    <3>2. past' = past
      BY <1>3, <2>2 DEF SurveyStep, vars, surveys
    <3> QED
      BY <1>3, <3>1, <3>2 DEF SurveyStep, Timeline!TimelineNext, Timeline!Begin,
                              Timeline!Finish
  <2> QED  BY <2>1, <2>2 DEF LooksAgree
<1>4. CASE UNCHANGED vars
  BY <1>4 DEF vars, surveys, LooksAgree
<1> QED  BY <1>1, <1>2, <1>3, <1>4 DEF Next, Refresh

\* The nil that SaveSurveyResponse reads is always of a survey that ended
\* between the look of the handler and its own.
THEOREM PanicNeedsAnEnd == Spec /\ NoEndBetweenLooks => []NoNilDereference
<1>1. Init => LooksAgree
  BY DEF Init, LooksAgree, Idle, Sent
<1>2. LooksAgree => NoNilDereference
  BY DEF LooksAgree, NoNilDereference
<1> QED
  BY ApartInit, ApartStep, <1>1, LooksAgreeNext, <1>2, SubmitInvCorrect, PTL
     DEF Spec, NoEndBetweenLooks

=============================================================================
