--------------------------- MODULE ResponseLedger ---------------------------
(***************************************************************************)
(* What the table of responses promises to everything that reads it: a     *)
(* user has one response to a survey, which is never lost, and changes     *)
(* only as long as it is partial.  Nothing is said of requests, counters   *)
(* or posts: SubmitResponse implements it, SurveyReport reads it.          *)
(***************************************************************************)
CONSTANTS User, SurveyID,
          Response   \* what may be stored: records with a type

VARIABLE row   \* row[u][s]: the response stored, a set of at most one

LedgerInit == row = [u \in User |-> [s \in SurveyID |-> {}]]

\* The first response of a user to a survey.
Record(u, s, r) ==
    /\ row[u][s] = {}
    /\ row' = [row EXCEPT ![u][s] = {r}]

\* A partial response gives way to the next one, a complete one does not.
Revise(u, s, r) ==
    /\ \E old \in row[u][s] : old.type = "partial"
    /\ row' = [row EXCEPT ![u][s] = {r}]

LedgerNext ==
    \E u \in User, s \in SurveyID, r \in Response :
        Record(u, s, r) \/ Revise(u, s, r)

LedgerSpec == LedgerInit /\ [][LedgerNext]_row

=============================================================================
