-------------------------- MODULE MCSubmitResponse --------------------------
(***************************************************************************)
(* SubmitResponse on small instances.                                      *)
(***************************************************************************)
EXTENDS SubmitResponse, TLC

\* One rating of each group, two of them at a boundary.
OneOfEach == {6, 7, 9}

\* Ratings of two groups.
TwoGroups == {8, 9}

Symmetry == Permutations(User) \union Permutations(Handler)
              \union Permutations(SurveyID)

=============================================================================
