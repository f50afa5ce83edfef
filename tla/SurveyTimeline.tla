--------------------------- MODULE SurveyTimeline ---------------------------
(***************************************************************************)
(* What the survey table promises to everything that reads it: surveys run *)
(* one at a time, and a survey that has ended is never run again.  Nothing *)
(* is said of schedules, jobs or requests: SurveyLifecycle implements it.  *)
(***************************************************************************)
CONSTANT SurveyID

VARIABLES running,   \* the survey that collects responses, as a set of at most one
          past       \* the surveys that have ended

timelineVars == <<running, past>>

TimelineInit == running = {} /\ past = {}

Begin(s) ==
    /\ running = {}
    /\ s \notin past
    /\ running' = {s}
    /\ UNCHANGED past

Finish ==
    /\ running # {}
    /\ running' = {}
    /\ past' = past \union running

TimelineNext == Finish \/ \E s \in SurveyID : Begin(s)

TimelineSpec == TimelineInit /\ [][TimelineNext]_timelineVars

=============================================================================
