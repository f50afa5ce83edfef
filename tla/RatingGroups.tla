---------------------------- MODULE RatingGroups ----------------------------
(***************************************************************************)
(* The arithmetic that keeps promoters_count, passives_count and           *)
(* detractors_count of a survey: what a first or a changed rating adds to  *)
(* each column (app/survey_response.go, updateNPSScoreGroupCount).         *)
(***************************************************************************)
EXTENDS Integers

Groups == {"promoters", "passives", "detractors"}

\* A previous rating is a set: empty when there is no earlier response.
NoRating == {}

\* The branches of getRatingGroupFactors in their order; a rating above 10
\* belongs to no group and one below 1 to the second branch.
GroupOf(rating) ==
    CASE rating \in 1..6                    -> "detractors"
      [] rating \notin 1..6 /\ rating <= 8  -> "passives"
      [] rating \in {9, 10}                 -> "promoters"
      [] OTHER                              -> "none"

getRatingGroupFactors(rating) ==
    [g \in Groups |-> IF g = GroupOf(rating) THEN 1 ELSE 0]

\* Mutated form: 7 is still taken for a detractor's rating.
hasRatingGroupChanged_Boundary(old, new) ==
    ~ \/ new = old
      \/ old \in 1..7 /\ new \in 1..7
      \/ old \in 7..8 /\ new \in 7..8
      \/ old \in 9..10 /\ new \in 9..10

hasRatingGroupChanged(old, new) ==
    ~ \/ new = old
      \/ old \in 1..6 /\ new \in 1..6
      \/ old \in 7..8 /\ new \in 7..8
      \/ old \in 9..10 /\ new \in 9..10

CoalesceInt(a, b) == IF a # 0 THEN a ELSE b

Unchanged == [g \in Groups |-> 0]

\* What updateNPSScoreGroupCount adds to each column when new replaces old.
GroupDelta(old, new) ==
    IF old = NoRating THEN getRatingGroupFactors(new)
    ELSE LET o == CHOOSE r \in old : TRUE IN
         IF hasRatingGroupChanged(o, new)
         THEN [g \in Groups |-> CoalesceInt(-getRatingGroupFactors(o)[g],
                                            getRatingGroupFactors(new)[g])]
         ELSE Unchanged

\* The reference: the new rating's group gains one, the old one's loses one
\* ("depending on the new score, we need to increment the corresponding
\* columns, and depending on the old score, decrement its corresponding column
\* value", app/survey_response.go:252-254).
ReferenceDelta(old, new) ==
    [g \in Groups |-> getRatingGroupFactors(new)[g]
                        - (IF old = NoRating THEN 0
                           ELSE getRatingGroupFactors(CHOOSE r \in old : TRUE)[g])]

=============================================================================
