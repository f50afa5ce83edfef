------------------------------ MODULE Delivery ------------------------------
(***************************************************************************)
(* What a user sees of the delivery of surveys: one delivery to a user at  *)
(* a time, only of surveys that have begun, and never again once one was   *)
(* recorded.  A delivery may get lost between the post and its record; the *)
(* survey is then posted again.  Nothing is said of calls, locks, caches   *)
(* or filters: SendSurvey implements it.                                   *)
(***************************************************************************)
EXTENDS Naturals

CONSTANTS User, SurveyID

VARIABLES begun,  \* the surveys that have begun, ended ones included
          posts,  \* posts[u][s]: survey posts in u's direct channel
          sent,   \* sent[u][s]: the delivery is recorded
          open    \* open[u]: the survey posted but not recorded, at most one

deliveryVars == <<begun, posts, sent, open>>

DeliveryInit ==
    /\ begun = {}
    /\ posts = [u \in User |-> [s \in SurveyID |-> 0]]
    /\ sent = [u \in User |-> [s \in SurveyID |-> FALSE]]
    /\ open = [u \in User |-> {}]

Announce(s) ==
    /\ begun' = begun \union {s}
    /\ UNCHANGED <<posts, sent, open>>

Deliver(u, s) ==
    /\ s \in begun
    /\ open[u] = {}
    /\ ~sent[u][s]
    /\ posts' = [posts EXCEPT ![u][s] = @ + 1]
    /\ open' = [open EXCEPT ![u] = {s}]
    /\ UNCHANGED <<begun, sent>>

Confirm(u, s) ==
    /\ open[u] = {s}
    /\ sent' = [sent EXCEPT ![u][s] = TRUE]
    /\ open' = [open EXCEPT ![u] = {}]
    /\ UNCHANGED <<begun, posts>>

Lose(u) ==
    /\ open' = [open EXCEPT ![u] = {}]
    /\ UNCHANGED <<begun, posts, sent>>

DeliveryNext ==
    \/ \E s \in SurveyID : Announce(s)
    \/ \E u \in User : \/ Lose(u)
                       \/ \E s \in SurveyID : Deliver(u, s) \/ Confirm(u, s)

DeliverySpec == DeliveryInit /\ [][DeliveryNext]_deliveryVars

=============================================================================
