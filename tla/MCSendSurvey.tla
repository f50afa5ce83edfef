---------------------------- MODULE MCSendSurvey ----------------------------
(***************************************************************************)
(* SendSurvey on small instances.                                          *)
(***************************************************************************)
EXTENDS SendSurvey, TLC

CONSTANTS s1, s2, s3

\* One survey of each kind of filter.
OneOfEach == s1 :> "everyone" @@ s2 :> "include_selected" @@ s3 :> "exclude_selected"

\* s1 is for the members of some teams; s2 excludes them, but names no team.
IncludeAndExclude == s1 :> "include_selected" @@ s2 :> "exclude_selected"

Symmetry == Permutations(User) \union Permutations(Handler)
              \union Permutations(Node)

=============================================================================
