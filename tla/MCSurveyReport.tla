--------------------------- MODULE MCSurveyReport ---------------------------
(***************************************************************************)
(* SurveyReport on small instances.                                        *)
(***************************************************************************)
EXTENDS SurveyReport

\* Two full pages of two responses.
Ids == 1..4

=============================================================================
