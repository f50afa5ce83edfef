------------------------- MODULE RatingGroups_proofs -------------------------
(***************************************************************************)
(* The three rating columns follow every change among ratings 1 to 10.     *)
(***************************************************************************)
EXTENDS RatingGroups, TLAPS

\* The one element of a previous rating.
LEMMA TheRating == ASSUME NEW r PROVE (CHOOSE x \in {r} : TRUE) = r
OBVIOUS

\* On the ratings of the form the three groups are the documented ranges.
LEMMA GroupRanges ==
    ASSUME NEW r \in 1..10
    PROVE  GroupOf(r) = IF r <= 6 THEN "detractors"
                        ELSE IF r <= 8 THEN "passives" ELSE "promoters"
BY DEF GroupOf

\* A change is one between two groups.
LEMMA ChangedIsAcross ==
    ASSUME NEW o \in 1..10, NEW n \in 1..10
    PROVE  hasRatingGroupChanged(o, n) <=> GroupOf(o) # GroupOf(n)
<1>1. CASE o <= 6
  BY <1>1, GroupRanges DEF hasRatingGroupChanged
<1>2. CASE o > 6 /\ o <= 8
  BY <1>2, GroupRanges DEF hasRatingGroupChanged
<1>3. CASE o > 8
  BY <1>3, GroupRanges DEF hasRatingGroupChanged
<1> QED  BY <1>1, <1>2, <1>3

\* A changed rating moves one count from the old group to the new one, however
\* CoalesceInt picks among the factors (updateNPSScoreGroupCount).
THEOREM ChangeMovesOne ==
    ASSUME NEW o \in 1..10, NEW n \in 1..10
    PROVE  GroupDelta({o}, n) = ReferenceDelta({o}, n)
<1> DEFINE f(r, g) == IF g = GroupOf(r) THEN 1 ELSE 0
<1>1. \A r, g : g \in Groups => getRatingGroupFactors(r)[g] = f(r, g)
  BY DEF getRatingGroupFactors
<1>2. ReferenceDelta({o}, n) = [g \in Groups |-> f(n, g) - f(o, g)]
  BY <1>1, TheRating DEF ReferenceDelta, NoRating
<1>3. CASE GroupOf(o) = GroupOf(n)
  <2>1. GroupDelta({o}, n) = [g \in Groups |-> 0]
    BY <1>3, ChangedIsAcross, TheRating DEF GroupDelta, NoRating, Unchanged
  <2> QED  BY <2>1, <1>2, <1>3
<1>4. CASE GroupOf(o) # GroupOf(n)
  <2>1. GroupDelta({o}, n) = [g \in Groups |-> CoalesceInt(-f(o, g), f(n, g))]
    BY <1>4, <1>1, ChangedIsAcross, TheRating DEF GroupDelta, NoRating
  <2>2. \A g \in Groups : CoalesceInt(-f(o, g), f(n, g)) = f(n, g) - f(o, g)
    <3> SUFFICES ASSUME NEW g \in Groups
                 PROVE  CoalesceInt(-f(o, g), f(n, g)) = f(n, g) - f(o, g)
      OBVIOUS
    <3>1. CASE g = GroupOf(o)
      <4>1. f(o, g) = 1 /\ f(n, g) = 0
        BY <3>1, <1>4
      <4>2. CoalesceInt(-1, 0) = 0 - 1
        BY DEF CoalesceInt
      <4> QED  BY <4>1, <4>2
    <3>2. CASE g # GroupOf(o)
      <4>1. f(o, g) = 0 /\ f(n, g) \in {0, 1}
        BY <3>2
      <4>2. -f(o, g) = 0 - f(o, g)
        <5>1. f(o, g) \in Int
          BY <4>1
        <5> HIDE DEF f
        <5> QED  BY <5>1
      <4>3. \A b \in {0, 1} : CoalesceInt(0, b) = b - 0
        BY DEF CoalesceInt
      <4> HIDE DEF f
      <4> QED  BY <4>1, <4>2, <4>3
    <3> QED  BY <3>1, <3>2
  <2> QED  BY <2>1, <2>2, <1>2
<1> QED  BY <1>3, <1>4

\* A first rating counts once, in its group.
LEMMA FirstRating ==
    ASSUME NEW n
    PROVE  GroupDelta(NoRating, n) = getRatingGroupFactors(n)
           /\ ReferenceDelta(NoRating, n) = getRatingGroupFactors(n)
<1>1. \A g \in Groups : getRatingGroupFactors(n)[g] \in Int
  BY DEF getRatingGroupFactors
<1> QED  BY <1>1 DEF GroupDelta, ReferenceDelta, getRatingGroupFactors

\* Columns that count the rating o of a user besides what others gave count n
\* instead after the change: along any sequence of ratings they never drift.
THEOREM CountsNeverDrift ==
    ASSUME NEW o \in 1..10, NEW n \in 1..10,
           NEW counts \in [Groups -> Int], NEW others \in [Groups -> Int],
           counts = [g \in Groups |-> others[g] + getRatingGroupFactors(o)[g]]
    PROVE  [g \in Groups |-> counts[g] + GroupDelta({o}, n)[g]]
             = [g \in Groups |-> others[g] + getRatingGroupFactors(n)[g]]
<1>1. GroupDelta({o}, n)
        = [g \in Groups |-> getRatingGroupFactors(n)[g] - getRatingGroupFactors(o)[g]]
  BY ChangeMovesOne, TheRating DEF ReferenceDelta, NoRating
<1>2. \A r : getRatingGroupFactors(r) \in [Groups -> Int]
  BY DEF getRatingGroupFactors
<1> QED  BY <1>1, <1>2

=============================================================================
