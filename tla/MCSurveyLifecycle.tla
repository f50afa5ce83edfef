------------------------- MODULE MCSurveyLifecycle -------------------------
(***************************************************************************)
(* SurveyLifecycle on small instances.                                     *)
(***************************************************************************)
EXTENDS SurveyLifecycle, TLC

\* Nodes, survey ids and requests are interchangeable: only used by runs that
\* check no liveness.
Symmetry == Permutations(Node) \union Permutations(SurveyID)
              \union Permutations(Request)

=============================================================================
