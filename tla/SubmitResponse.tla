--------------------------- MODULE SubmitResponse ---------------------------
(***************************************************************************)
(* What users answer.  A click on a rating sends a partial response at     *)
(* once, without waiting for it; the Submit button sends a complete one;   *)
(* opening a survey post refreshes it.  Requests run concurrently          *)
(* (api/submit_response.go, app/survey_response.go) and each walks through *)
(* four stores: the response row, the survey's counters, the survey post   *)
(* and the user's direct channel.  One step per database or API call.      *)
(* Surveys begin and end as SurveyTimeline promises, and every user has    *)
(* received every survey that has begun (see SendSurvey).                  *)
(***************************************************************************)
EXTENDS RatingGroups, FiniteSets

CONSTANTS
    User, SurveyID,
    Rating,        \* the ratings users give
    Handler,       \* requests that may be in flight together
    NoUser, NoSurvey,
    PerUser,       \* requests of one user in flight together
    StaleClients,  \* a client may show an older state of the post
    MaxSubmits,    \* bound: how many responses are sent
    MaxFaults      \* bound: failed calls and dying requests, together

ASSUME SubmitAssumption ==
    /\ NoUser \notin User
    /\ NoSurvey \notin SurveyID
    /\ Rating \subseteq 1..10
    /\ PerUser \in Nat
    /\ StaleClients \in BOOLEAN
    /\ MaxSubmits \in Nat
    /\ MaxFaults \in Nat

VARIABLES
    running, past,  \* the survey table, as SurveyTimeline sees it
    row,            \* row[u][s]: the response stored, a set of at most one
    responses,      \* responses[s]: response_count
    counts,         \* counts[s]: promoters_count, passives_count, detractors_count
    post,           \* post[u][s]: the props of the survey post
    acks,           \* acks[u][s]: "Thank you" posts for a submission
    request,        \* the requests being served
    spent           \* how much of the bounds is used

Timeline == INSTANCE SurveyTimeline

surveys == <<running, past>>
counters == <<responses, counts>>
posted == <<post, acks>>
vars == <<surveys, row, counters, posted, request, spent>>

----------------------------------------------------------------------------
AtMostOne(S) == {{}} \union {{x} : x \in S}

Response == [rating : Rating, type : {"partial", "complete"}]

Ledger == INSTANCE ResponseLedger

\* The props of a survey post: the answer and survey_status.
Post == [answer : AtMostOne(Rating), status : {"open", "submitted", "ended"}]

NewPost == [answer |-> {}, status |-> "open"]

\* pc names the call made next, or the outcome about to be answered; old is
\* the response row read, copy the post read.
Request ==
    [pc     : {"idle", "recheck", "read", "insert", "count", "update", "getpost",
               "putpost", "groups", "ack", "refresh", "check", "expire",
               "putended", "ok", "error", "panic"},
     user   : User \union {NoUser},
     survey : SurveyID \union {NoSurvey},
     type   : {"partial", "complete", "refresh"},
     rating : AtMostOne(Rating),
     old    : AtMostOne(Response),
     copy   : Post]

Sent(pc, u, s, type, rating) ==
    [pc |-> pc, user |-> u, survey |-> s, type |-> type, rating |-> rating,
     old |-> {}, copy |-> NewPost]

Idle == Sent("idle", NoUser, NoSurvey, "refresh", {})

At(q, pc) == [q EXCEPT !.pc = pc]

WithOld(q, pc, old) == [At(q, pc) EXCEPT !.old = old]

WithCopy(q, pc, p) == [At(q, pc) EXCEPT !.copy = p]

Goto(h, pc) == request' = [request EXCEPT ![h] = At(@, pc)]

Active(u) == {h \in Handler : request[h].pc # "idle" /\ request[h].user = u}

\* The form is usable while the post it shows is open.
ClientMay(u, s) ==
    /\ Cardinality(Active(u)) < PerUser
    /\ s \in running \union past
    /\ StaleClients \/ post[u][s].status = "open"

Completed(rs) == \E r \in rs : r.type = "complete"

Partial(rs) == \E r \in rs : r.type = "partial"

\* The responses a request stores, as the set with the one it carries.
Carried(q) == [rating : q.rating, type : {q.type}]

RatingsOf(rs) == {r.rating : r \in rs}

\* addResponseInPost: the props it adds to the post it read.
Answered(p, q) ==
    [answer |-> q.rating,
     status |-> IF q.type = "complete" THEN "submitted" ELSE p.status]

\* setExpiredPropsInPost.
Expired(p) == [p EXCEPT !.status = "ended"]

\* Mutated form: the earlier response is not taken into account.
Delta_FirstOnly(q) == GroupDelta(NoRating, CHOOSE r \in q.rating : TRUE)

\* What updateNPSScoreGroupCount adds for a request.
Delta(q) == GroupDelta(RatingsOf(q.old), CHOOSE r \in q.rating : TRUE)

Fault == /\ spent.faults < MaxFaults
         /\ spent' = [spent EXCEPT !.faults = @ + 1]

----------------------------------------------------------------------------
\* handleSubmitSurveyResponse, up to its GetInProgressSurvey.
SubmitBegin(h, u, s) ==
    /\ request[h].pc = "idle"
    /\ ClientMay(u, s)
    /\ spent.submits < MaxSubmits
    /\ \E type \in {"partial", "complete"}, r \in Rating :
         request' = [request EXCEPT ![h] =
             Sent(IF s \in running THEN "recheck" ELSE "expire", u, s, type, {r})]
    /\ spent' = [spent EXCEPT !.submits = @ + 1]
    /\ UNCHANGED <<surveys, row, counters, posted>>

\* Mutated form: the survey the handler read is still in progress.
Recheck_Skipped(h) ==
    /\ request[h].pc = "recheck"
    /\ Goto(h, "read")
    /\ UNCHANGED <<surveys, row, counters, posted, spent>>

\* SaveSurveyResponse reads the survey in progress again and dereferences it
\* without a check for nil.
Recheck(h) ==
    /\ request[h].pc = "recheck"
    /\ Goto(h, IF running = {} THEN "panic"
               ELSE IF request[h].survey \in running THEN "read" ELSE "error")
    /\ UNCHANGED <<surveys, row, counters, posted, spent>>

\* Mutated form: a complete response is no reason to stop.
ReadResponse_Overwrites(h) ==
    /\ request[h].pc = "read"
    /\ LET old == row[request[h].user][request[h].survey] IN
       request' = [request EXCEPT ![h] =
           WithOld(@, IF old = {} THEN "insert" ELSE "update", old)]
    /\ UNCHANGED <<surveys, row, counters, posted, spent>>

\* A complete response is left alone, and the answer is a success.
ReadResponse(h) ==
    /\ request[h].pc = "read"
    /\ LET old == row[request[h].user][request[h].survey] IN
       request' = [request EXCEPT ![h] =
           WithOld(@, IF old = {} THEN "insert"
                      ELSE IF Completed(old) THEN "ok" ELSE "update", old)]
    /\ UNCHANGED <<surveys, row, counters, posted, spent>>

\* Mutated forms: no unique constraint, and its violation ignored.
SaveSurveyResponse_NotUnique(h) ==
    /\ request[h].pc = "insert"
    /\ row' = [row EXCEPT ![request[h].user][request[h].survey] =
                 @ \union Carried(request[h])]
    /\ Goto(h, "count")
    /\ UNCHANGED <<surveys, counters, posted, spent>>

SaveSurveyResponse_Ignored(h) ==
    /\ request[h].pc = "insert"
    /\ row' = [row EXCEPT ![request[h].user][request[h].survey] =
                 IF @ = {} THEN Carried(request[h]) ELSE @]
    /\ Goto(h, "count")
    /\ UNCHANGED <<surveys, counters, posted, spent>>

\* The table's unique constraint on user and survey refuses a second row.
SaveSurveyResponse(h) ==
    /\ request[h].pc = "insert"
    /\ LET u == request[h].user
           s == request[h].survey
       IN  IF row[u][s] = {}
           THEN /\ row' = [row EXCEPT ![u][s] = Carried(request[h])]
                /\ Goto(h, "count")
           ELSE /\ Goto(h, "error")
                /\ UNCHANGED row
    /\ UNCHANGED <<surveys, counters, posted, spent>>

IncrementSurveyResponseCount(h) ==
    /\ request[h].pc = "count"
    /\ responses' = [responses EXCEPT ![request[h].survey] = @ + 1]
    /\ Goto(h, "getpost")
    /\ UNCHANGED <<surveys, row, counts, posted, spent>>

\* Mutated form: the WHERE clause names the id only.
UpdateSurveyResponse_AnyType(h) ==
    /\ request[h].pc = "update"
    /\ row' = [row EXCEPT ![request[h].user][request[h].survey] =
                 IF @ = {} THEN @ ELSE Carried(request[h])]
    /\ Goto(h, "getpost")
    /\ UNCHANGED <<surveys, counters, posted, spent>>

\* Only a partial row is updated; that none was is not noticed.
UpdateSurveyResponse(h) ==
    /\ request[h].pc = "update"
    /\ row' = [row EXCEPT ![request[h].user][request[h].survey] =
                 IF Partial(@) THEN Carried(request[h]) ELSE @]
    /\ Goto(h, "getpost")
    /\ UNCHANGED <<surveys, counters, posted, spent>>

\* addResponseInPost reads the post and writes all of its props back.
GetPost(h) ==
    /\ request[h].pc = "getpost"
    /\ request' = [request EXCEPT ![h] =
         WithCopy(@, "putpost", post[@.user][@.survey])]
    /\ UNCHANGED <<surveys, row, counters, posted, spent>>

UpdatePost(h) ==
    /\ request[h].pc = "putpost"
    /\ post' = [post EXCEPT ![request[h].user][request[h].survey] =
                  Answered(request[h].copy, request[h])]
    /\ Goto(h, "groups")
    /\ UNCHANGED <<surveys, row, counters, acks, spent>>

UpdateRatingGroupCount(h) ==
    /\ request[h].pc = "groups"
    /\ LET delta == Delta(request[h]) IN
       counts' = [counts EXCEPT ![request[h].survey] =
                    [g \in Groups |-> @[g] + delta[g]]]
    /\ Goto(h, IF request[h].type = "complete" THEN "ack" ELSE "ok")
    /\ UNCHANGED <<surveys, row, responses, posted, spent>>

SendAcknowledgementPost(h) ==
    /\ request[h].pc = "ack"
    /\ acks' = [acks EXCEPT ![request[h].user][request[h].survey] = @ + 1]
    /\ Goto(h, "ok")
    /\ UNCHANGED <<surveys, row, counters, post, spent>>

----------------------------------------------------------------------------
\* handleRefreshPost: the client asks when it shows an open post.
RefreshBegin(h, u, s) ==
    /\ request[h].pc = "idle"
    /\ ClientMay(u, s)
    /\ request' = [request EXCEPT ![h] = Sent("refresh", u, s, "refresh", {})]
    /\ UNCHANGED <<surveys, row, counters, posted, spent>>

RefreshGetPost(h) ==
    /\ request[h].pc = "refresh"
    /\ request' = [request EXCEPT ![h] =
         WithCopy(@, "check", post[@.user][@.survey])]
    /\ UNCHANGED <<surveys, row, counters, posted, spent>>

\* Mutated form: only a survey missing from the table counts as expired.
RefreshCheckSurvey_FoundIsRunning(h) ==
    /\ request[h].pc = "check"
    /\ Goto(h, IF request[h].survey \in running \union past THEN "ok" ELSE "putended")
    /\ UNCHANGED <<surveys, row, counters, posted, spent>>

RefreshCheckSurvey(h) ==
    /\ request[h].pc = "check"
    /\ Goto(h, IF request[h].survey \in running THEN "ok" ELSE "putended")
    /\ UNCHANGED <<surveys, row, counters, posted, spent>>

\* UpdatePostForExpiredSurvey reads the post after the survey.
ExpireGetPost(h) ==
    /\ request[h].pc = "expire"
    /\ request' = [request EXCEPT ![h] =
         WithCopy(@, "putended", post[@.user][@.survey])]
    /\ UNCHANGED <<surveys, row, counters, posted, spent>>

SetExpiredPropsInPost(h) ==
    /\ request[h].pc = "putended"
    /\ post' = [post EXCEPT ![request[h].user][request[h].survey] =
                  Expired(request[h].copy)]
    /\ Goto(h, "ok")
    /\ UNCHANGED <<surveys, row, counters, acks, spent>>

----------------------------------------------------------------------------
Outcome == {"ok", "error", "panic"}

Answer(h) ==
    /\ request[h].pc \in Outcome
    /\ request' = [request EXCEPT ![h] = Idle]
    /\ UNCHANGED <<surveys, row, counters, posted, spent>>

\* Whichever call fails, nothing done before it is undone.
CallFails(h) ==
    /\ request[h].pc \notin Outcome \union {"idle"}
    /\ Fault
    /\ Goto(h, "error")
    /\ UNCHANGED <<surveys, row, counters, posted>>

SurveyStep ==
    /\ Timeline!TimelineNext
    /\ UNCHANGED <<row, counters, posted, request, spent>>

----------------------------------------------------------------------------
Init ==
    /\ Timeline!TimelineInit
    /\ row = [u \in User |-> [s \in SurveyID |-> {}]]
    /\ responses = [s \in SurveyID |-> 0]
    /\ counts = [s \in SurveyID |-> Unchanged]
    /\ post = [u \in User |-> [s \in SurveyID |-> NewPost]]
    /\ acks = [u \in User |-> [s \in SurveyID |-> 0]]
    /\ request = [h \in Handler |-> Idle]
    /\ spent = [submits |-> 0, faults |-> 0]

\* What the server does with a request.
Serve(h) == \/ Recheck(h)
            \/ ReadResponse(h)
            \/ SaveSurveyResponse(h)
            \/ IncrementSurveyResponseCount(h)
            \/ UpdateSurveyResponse(h)
            \/ GetPost(h)
            \/ UpdatePost(h)
            \/ UpdateRatingGroupCount(h)
            \/ SendAcknowledgementPost(h)
            \/ RefreshGetPost(h)
            \/ RefreshCheckSurvey(h)
            \/ ExpireGetPost(h)
            \/ SetExpiredPropsInPost(h)
            \/ Answer(h)

Refresh(u, s) == \E h \in Handler : RefreshBegin(h, u, s)

Next == \/ \E h \in Handler : Serve(h) \/ CallFails(h)
        \/ \E h \in Handler, u \in User, s \in SurveyID : SubmitBegin(h, u, s)
        \/ \E u \in User, s \in SurveyID : Refresh(u, s)
        \/ SurveyStep

Spec == Init /\ [][Next]_vars

\* A request is served to its end, and users open an unanswered survey post
\* again and again (every time it is rendered).
Fairness == /\ \A h \in Handler : WF_vars(Serve(h))
            /\ \A u \in User, s \in SurveyID : SF_vars(Refresh(u, s))

FairSpec == Spec /\ Fairness

----------------------------------------------------------------------------
\* Every variable keeps its type; a user has at most one response to a survey.
TypeOK ==
    /\ running \in SUBSET SurveyID
    /\ past \in SUBSET SurveyID
    /\ row \in [User -> [SurveyID -> AtMostOne(Response)]]
    /\ responses \in [SurveyID -> Nat]
    /\ counts \in [SurveyID -> [Groups -> Int]]
    /\ post \in [User -> [SurveyID -> Post]]
    /\ acks \in [User -> [SurveyID -> Nat]]
    /\ request \in [Handler -> Request]
    /\ spent \in [submits : 0..MaxSubmits, faults : 0..MaxFaults]

\* "Once saved, a complete response is not updated"
\* (docs/architecture/architecture.md:22): not even by requests that read the
\* row while it was still partial, or absent.
CompleteIsFinal ==
    [][\A u \in User, s \in SurveyID :
         Completed(row[u][s]) => row'[u][s] = row[u][s]]_vars

\* However the steps of the requests interleave and whichever fail, the table is
\* the ledger the report reads: a response is added once, replaced only while
\* it is partial, and never lost.
LedgerSpec == Ledger!LedgerSpec

Writing == {"count", "getpost", "putpost", "groups", "ack"}

\* The requests about s that have passed the second look at the survey.
Admitted == {"read", "insert", "update"} \union Writing

Late(s) == {h \in Handler : request[h].survey = s /\ request[h].pc \in Admitted}

ResultsKept(s) ==
    /\ \A u \in User : row'[u][s] = row[u][s] /\ acks'[u][s] = acks[u][s]
    /\ responses'[s] = responses[s]
    /\ counts'[s] = counts[s]

\* After an admin ended a survey "no new responses can be collected"
\* (webapp/src/components/systemConsole/surveyResults/surveyRowActionButton.tsx:80)
\* but from the requests admitted before: none joins them, although the first
\* look at the survey may be older, and after the last of them no response,
\* column, count or acknowledgement of the survey changes again.
EndedSettles ==
    [][\A s \in past : /\ Late(s)' \subseteq Late(s)
                       /\ Late(s) = {} => ResultsKept(s)]_vars

\* Unless requests of a user overlap, what a request counts, shows and thanks for
\* is what the database holds, and a Submit is answered with success only if its
\* response is stored, or was found complete already, or the post now tells that
\* the survey is over.  (Where they overlap, the UPDATE of a row that another
\* request completed meanwhile changes nothing and is not noticed: the loser is
\* thanked for a response that is dropped.)
SuccessIsStored ==
    \A h \in Handler :
        LET q      == request[h]
            stored == row[q.user][q.survey]
        IN  /\ q.pc \in Writing => stored = Carried(q)
            /\ q.pc = "ok" /\ q.type = "complete" =>
                  \/ stored = Carried(q)
                  \/ Completed(q.old) /\ stored = q.old
                  \/ q.old = {} /\ post[q.user][q.survey].status = "ended"

\* A post is shown as submitted only when the complete response is in the
\* database, whatever stale copy of the post was written back last.
SubmittedIsRecorded ==
    \A u \in User, s \in SurveyID :
        post[u][s].status = "submitted" => Completed(row[u][s])

\* response_count counts the users with a response, except for increments
\* under way or lost: no two requests of a user both count as the first one.
ResponsesAccounted ==
    \A s \in SurveyID :
        LET stored   == Cardinality({u \in User : row[u][s] # {}})
            counting == Cardinality({h \in Handler : /\ request[h].pc = "count"
                                                     /\ request[h].survey = s})
        IN  /\ responses[s] + counting <= stored
            /\ stored <= responses[s] + counting + spent.faults

InGroup(s, g) ==
    Cardinality({u \in User : \E r \in row[u][s] : GroupOf(r.rating) = g})

\* The requests that stored a response and have not yet moved the columns.
Moving(s) == {h \in Handler : /\ request[h].pc \in Writing \ {"ack"}
                              /\ request[h].survey = s}

\* Adds, over the requests of m, what they will add to the column of g.
Owed(m, g) == Cardinality({h \in m : Delta(request[h])[g] = 1})
                - Cardinality({h \in m : Delta(request[h])[g] = -1})

\* Each column holds the number of users whose stored rating is in its group,
\* up to what the requests under way still owe and one for every failed call.
TallyAccounted ==
    \A s \in SurveyID, g \in Groups :
        InGroup(s, g) - counts[s][g] - Owed(Moving(s), g)
            \in (-spent.faults)..spent.faults

\* Whatever the row held when a request read it, the request moves the columns
\* as the comment on updateNPSScoreGroupCount says: the chain of conditions in
\* hasRatingGroupChanged and the choice CoalesceInt makes between two factors
\* add up to the difference.
DeltaAsDocumented ==
    \A h \in Handler :
        LET q == request[h] IN
        q.pc = "groups" =>
            \A r \in q.rating : Delta(q) = ReferenceDelta(RatingsOf(q.old), r)

\* A column counts the users in its group once nothing is under way.
CountsMatchTally ==
    (\A h \in Handler : request[h].pc = "idle")
        => \A s \in SurveyID, g \in Groups : counts[s][g] = InGroup(s, g)

\* A user is thanked for a survey at most as often as requests of theirs overlap:
\* once where clients wait for the answer, also when a submission failed after it
\* was stored and is sent again; twice when two Submits overlap and both read the
\* partial response.
ThanksBounded == \A u \in User, s \in SurveyID : acks[u][s] <= PerUser

\* Unless requests of a user overlap or a call failed, the survey post shows
\* between two of them what the database has: the rating stored last, an open
\* form only while the response is not complete, "submitted" only when it is, and
\* "ended" only once the survey is over.  (It stays open after the end until a
\* request or a refresh notices.)
PostShowsRow ==
    spent.faults = 0 =>
        \A u \in User, s \in SurveyID :
            Active(u) = {} =>
                /\ post[u][s].answer = RatingsOf(row[u][s])
                /\ post[u][s].status = "open" => ~Completed(row[u][s])
                /\ post[u][s].status = "submitted" => Completed(row[u][s])
                /\ post[u][s].status = "ended" => s \in past

\* A post is eventually closed for good once its survey has ended, whatever
\* requests that began before wrote back.
EndedIsShown ==
    \A u \in User, s \in SurveyID :
        s \in past ~> [](post[u][s].status # "open")

\* A response whose survey is over is refused: "the response should belong to
\* the currently active survey" (app/survey_response.go:40).
NoNilDereference == \A h \in Handler : request[h].pc # "panic"

=============================================================================
