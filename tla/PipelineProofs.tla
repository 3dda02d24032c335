--------------------------- MODULE PipelineProofs ---------------------------
(***************************************************************************)
(* Theorems of the scoring pipeline, for every number of players, matches, *)
(* admins, requests, workers and failures: the types, and what group       *)
(* matches keep whoever works on them at the same time.  First the sums    *)
(* over finite sets that the standings are stated with.                    *)
(***************************************************************************)
EXTENDS ScoringPipeline, FiniteSetTheorems, TLAPS

-----------------------------------------------------------------------------
(* Inductive invariants *)

GroupMatches == Matches \ Knockout

\* Any number of admins at work on group matches.  An entity that will be saved
\* carries a whole result and the teams the match has, and the row save()
\* selected is whole and not ahead of the match: whatever subset of its columns
\* differs, writing them leaves a whole row that keeps teams and has_played.
GroupMatchInv ==
    /\ \A m \in GroupMatches : Whole(match[m])
    /\ \A a \in Assigners : asg[a].pc # "idle" => asg[a].id \in Knockout
    /\ \A r \in Registrars : reg[r].pc # "idle" /\ reg[r].id \in GroupMatches =>
           /\ Whole(reg[r].match)
           /\ reg[r].match.has_played
           /\ reg[r].match.local_team_id = match[reg[r].id].local_team_id
           /\ reg[r].match.visiting_team_id = match[reg[r].id].visiting_team_id
           /\ reg[r].pc = "selected" =>
                 /\ Whole(reg[r].seen)
                 /\ reg[r].seen.has_played => match[reg[r].id].has_played
                 /\ reg[r].seen.local_team_id = match[reg[r].id].local_team_id
                 /\ reg[r].seen.visiting_team_id = match[reg[r].id].visiting_team_id

-----------------------------------------------------------------------------
(* Any number of requests, of matches of both phases, as long as some do not  *)
(* race for the same match, which nothing in the code sees to.                *)

\* A registration that has checked has_played and not yet written it.
AwaitsSave(r) == reg[r].pc \in {"found", "selected"}

\* No two of them are of the same match.
RegistrationsApart ==
    \A r, s \in Registrars : AwaitsSave(r) /\ AwaitsSave(s) /\ reg[r].id = reg[s].id => r = s

\* No two assignments at work are of the same match.
AssignmentsApart ==
    \A a, b \in Assigners : asg[a].pc # "idle" /\ asg[a].id = asg[b].id => a = b

\* A match has one registration and one assignment at work at most, which may race.
OneOfEach == RegistrationsApart /\ AssignmentsApart

\* Any number of assignments beside registrations that are apart.  A save writes
\* the whole result of a registration on a row without one, or takes a result
\* back whole.
WholeInv ==
    /\ ResultAllOrNothing
    /\ \A r \in Registrars : AwaitsSave(r) =>
           /\ Whole(reg[r].match) /\ reg[r].match.has_played
           /\ ~match[reg[r].id].has_played
           /\ reg[r].pc = "selected" => Whole(reg[r].seen) /\ ~reg[r].seen.has_played
    /\ \A a \in Assigners : asg[a].pc # "idle" =>
           /\ Whole(asg[a].match) /\ ~asg[a].match.has_played
           /\ asg[a].pc = "selected" => Whole(asg[a].seen)

\* One of each.  An assignment writes on the row it selected, or on what a
\* registration has made of it meanwhile.
OneOfEachInv ==
    /\ ResultAllOrNothing
    /\ TeamsDifferUntilPlayed
    /\ \A r \in Registrars : AwaitsSave(r) =>
           /\ Whole(reg[r].match) /\ reg[r].match.has_played
           /\ ~match[reg[r].id].has_played
           /\ reg[r].pc = "selected" => Whole(reg[r].seen) /\ ~reg[r].seen.has_played
    /\ \A a \in Assigners : asg[a].pc # "idle" =>
           /\ Whole(asg[a].match) /\ ~asg[a].match.has_played
           /\ TeamsDiffer(asg[a].match.local_team_id, asg[a].match.visiting_team_id)
           /\ asg[a].pc = "selected" =>
                 \/ asg[a].seen = match[asg[a].id]
                 \/ /\ Whole(asg[a].seen) /\ ~asg[a].seen.has_played
                    /\ match[asg[a].id].has_played

-----------------------------------------------------------------------------
(* What the helpers return. *)

LEMMA SavedMatch ==
    ASSUME NEW e \in MatchRow, NEW s \in MatchRow, NEW row \in MatchRow
    PROVE  Saved(e, s, row) \in MatchRow
  BY DEF Saved, MatchRow

LEMMA SavedPrediction ==
    ASSUME NEW e \in PredictionRow, NEW s \in PredictionRow, NEW row \in PredictionRow
    PROVE  Saved(e, s, row) \in PredictionRow
  BY DEF Saved, PredictionRow

LEMMA WithResultType ==
    ASSUME NEW row \in MatchRow, NEW l \in Goals, NEW v \in Goals
    PROVE  WithResult(row, l, v) \in MatchRow
  BY DEF WithResult, MatchRow

LEMMA WithTeamsType ==
    ASSUME NEW row \in MatchRow, NEW sides, NEW t \in Teams \cup {NULL}, NEW s \in Teams \cup {NULL}
    PROVE  WithTeams(row, sides, t, s) \in MatchRow
  BY DEF WithTeams, MatchRow

LEMMA WithPointsType ==
    ASSUME NEW row \in PredictionRow, NEW points \in Nat \cup {NULL}
    PROVE  WithPoints(row, points) \in PredictionRow
  BY DEF WithPoints, PredictionRow

LEMMA JobCredited ==
    ASSUME NEW jobs \in [JobIds -> JobRow], NEW j
    PROVE  [jobs EXCEPT ![j].credited = @ + 1] \in [JobIds -> JobRow]
<1>1. ASSUME NEW row \in JobRow PROVE [row EXCEPT !.credited = @ + 1] \in JobRow
  BY <1>1 DEF JobRow
<1> QED BY <1>1

LEMMA JobWithState ==
    ASSUME NEW row \in JobRow, NEW state \in {"unused", "wait", "active", "completed", "failed"}
    PROVE  [row EXCEPT !.state = state] \in JobRow
  BY DEF JobRow

LEMMA TotalInNat ==
    ASSUME NEW p, NEW q, NEW l, NEW v
    PROVE  PointsTotal(p, q, l, v) \in Nat
  BY DEF PointsTotal, CalculatePoints, NoPoints, DrawBonus

-----------------------------------------------------------------------------
(* Sums over finite sets.  MapThenSumSet chooses a function that satisfies a   *)
(* recursive equation; that there is one, and what it adds up to, is proved    *)
(* here by well-founded induction on the subsets of the set.                   *)

\* Induction over the subsets of a finite set, for a property given as a set.
LEMMA SubsetInduction ==
    ASSUME NEW S, IsFiniteSet(S), NEW T,
           \A A \in SUBSET S : (\A B \in SUBSET A : B # A => B \in T) => A \in T
    PROVE  S \in T
<1> SUFFICES ASSUME S \notin T PROVE FALSE
  OBVIOUS
<1> DEFINE Bad == {A \in FiniteSubsetsOf(S) : A \notin T}
<1>1. Bad \subseteq FiniteSubsetsOf(S) /\ S \in Bad
  BY DEF FiniteSubsetsOf
<1>2. \A A \in Bad : A \subseteq S /\ IsFiniteSet(A) /\ A \notin T
  BY DEF FiniteSubsetsOf
<1>3. \A B : B \subseteq S /\ IsFiniteSet(B) /\ B \notin T => B \in Bad
  BY DEF FiniteSubsetsOf
<1> HIDE DEF Bad
<1>4. IsWellFoundedOn(StrictSubsetOrdering(S), FiniteSubsetsOf(S))
  BY FS_StrictSubsetOrderingWellFounded
<1>5. PICK A \in Bad : \A B \in Bad : ~(<<B, A>> \in StrictSubsetOrdering(S))
  BY <1>1, <1>4, WFMin
<1>6. \A B \in SUBSET A : B # A => B \in T
  <2>1. ASSUME NEW B \in SUBSET A, B # A, B \notin T PROVE B \in Bad
    BY <1>2, <1>3, <2>1, FS_Subset
  <2> QED BY <1>2, <1>5, <2>1 DEF StrictSubsetOrdering
<1> QED BY <1>2, <1>6

First(s) == CHOOSE x \in s : TRUE

\* g sums f over every subset of S, as MapThenSumSet does: one element is taken
\* out, the rest is summed.
Adds(f, S, g) ==
    g = [s \in SUBSET S |-> IF s = {} THEN 0 ELSE f[First(s)] + g[s \ {First(s)}]]

Total(f, S) == (CHOOSE g : Adds(f, S, g))[S]

LEMMA FirstIn == ASSUME NEW s, s # {} PROVE First(s) \in s
  BY DEF First

LEMMA AddsValue ==
    ASSUME NEW f, NEW S, NEW g, Adds(f, S, g), NEW s \in SUBSET S
    PROVE  g[s] = IF s = {} THEN 0 ELSE f[First(s)] + g[s \ {First(s)}]
  BY Zenon DEF Adds

\* Two such functions agree wherever both are defined.
LEMMA AddsAgree ==
    ASSUME NEW f, NEW S, NEW g, NEW A \in SUBSET S, IsFiniteSet(A), NEW h,
           Adds(f, S, g), Adds(f, A, h)
    PROVE  h[A] = g[A]
<1> DEFINE T == {B \in SUBSET A : h[B] = g[B]}
<1>1. ASSUME NEW B \in SUBSET A, \A C \in SUBSET B : C # B => C \in T
      PROVE  B \in T
  <2>1. B = {} => h[B] = g[B]
    BY AddsValue
  <2>2. B # {} => h[B] = g[B]
    <3>1. B # {} => First(B) \in B /\ B \ {First(B)} \in SUBSET B /\ B \ {First(B)} # B
      BY FirstIn
    <3>2. B # {} => h[B \ {First(B)}] = g[B \ {First(B)}]
      BY <1>1, <3>1
    <3>3. B \in SUBSET S
      OBVIOUS
    <3> QED BY <3>2, <3>3, AddsValue
  <2> QED BY <2>1, <2>2
<1>2. A \in T
  <2> HIDE DEF T
  <2> QED BY <1>1, SubsetInduction
<1> QED BY <1>2

LEMMA TotalOf ==
    ASSUME NEW f, NEW S, IsFiniteSet(S), NEW g, Adds(f, S, g)
    PROVE  Total(f, S) = g[S]
<1>1. Adds(f, S, CHOOSE h : Adds(f, S, h))
  BY Zenon
<1> QED BY <1>1, AddsAgree DEF Total

Unfolds(f, S) ==
    Total(f, S) = IF S = {} THEN 0 ELSE f[First(S)] + Total(f, S \ {First(S)})

\* The recursion has a solution on every finite set.
LEMMA AddsExists ==
    ASSUME NEW f, NEW S, IsFiniteSet(S)
    PROVE  \E g : Adds(f, S, g)
<1> DEFINE T == {A \in SUBSET S : \E g : Adds(f, A, g)}
<1>1. ASSUME NEW A \in SUBSET S, \A B \in SUBSET A : B # A => B \in T
      PROVE  A \in T
  <2>1. ASSUME NEW B \in SUBSET A, B # A PROVE Unfolds(f, B)
    <3>1. IsFiniteSet(B)
      BY FS_Subset
    <3>2. PICK g : Adds(f, B, g)
      BY <1>1, <2>1
    <3>3. Total(f, B) = g[B] /\ B \in SUBSET B
      BY <3>1, <3>2, TotalOf
    <3>4. CASE B = {}
      BY <3>2, <3>3, <3>4, AddsValue DEF Unfolds
    <3>5. CASE B # {}
      <4> DEFINE C == B \ {First(B)}
      <4>1. C \in SUBSET A /\ C # A /\ C \in SUBSET B
        BY <2>1, <3>5
      <4>2. PICK h : Adds(f, C, h)
        BY <1>1, <4>1
      <4>3. IsFiniteSet(C)
        BY <3>1, <4>1, FS_Subset
      <4>4. Total(f, C) = h[C]
        BY <4>2, <4>3, TotalOf
      <4>6. h[C] = g[C]
        <5> HIDE DEF C
        <5> QED BY <3>2, <4>1, <4>2, <4>3, AddsAgree
      <4>5. g[B] = f[First(B)] + g[C]
        BY <3>2, <3>3, <3>5, AddsValue
      <4> QED BY <3>3, <3>5, <4>4, <4>5, <4>6 DEF Unfolds
    <3> QED BY <3>4, <3>5
  <2> DEFINE G == [s \in SUBSET A |-> IF s = {} THEN 0 ELSE f[First(s)] + Total(f, s \ {First(s)})]
  <2>2. ASSUME NEW s \in SUBSET A, s # {}
        PROVE  Total(f, s \ {First(s)}) = G[s \ {First(s)}]
    <3> DEFINE C == s \ {First(s)}
    <3>1. C \in SUBSET A /\ C # A
      BY <2>2, FirstIn
    <3>2. Unfolds(f, C)
      BY <2>1, <3>1
    <3>3. G[C] = IF C = {} THEN 0 ELSE f[First(C)] + Total(f, C \ {First(C)})
      <4> HIDE DEF C
      <4> QED BY <3>1
    <3> HIDE DEF C
    <3>4. Total(f, C) = G[C]
      BY <3>2, <3>3 DEF Unfolds
    <3> QED BY <3>4 DEF C
  <2>3. G = [s \in SUBSET A |-> IF s = {} THEN 0 ELSE f[First(s)] + G[s \ {First(s)}]]
    <3> DEFINE H == [s \in SUBSET A |-> IF s = {} THEN 0 ELSE f[First(s)] + G[s \ {First(s)}]]
    <3>1. ASSUME NEW s \in SUBSET A PROVE G[s] = H[s]
      <4>1. H[s] = IF s = {} THEN 0 ELSE f[First(s)] + G[s \ {First(s)}]
        <5> HIDE DEF G
        <5> QED OBVIOUS
      <4>2. G[s] = IF s = {} THEN 0 ELSE f[First(s)] + Total(f, s \ {First(s)})
        OBVIOUS
      <4> HIDE DEF G, H
      <4> QED BY <2>2, <4>1, <4>2
    <3>2. G = [s \in SUBSET A |-> G[s]] /\ H = [s \in SUBSET A |-> H[s]]
      BY Zenon
    <3> HIDE DEF G, H
    <3>3. G = H
      BY <3>1, <3>2
    <3> QED BY <3>3 DEF H
  <2> HIDE DEF G
  <2> QED BY <2>3 DEF Adds
<1>2. S \in T
  <2> HIDE DEF T
  <2> QED BY <1>1, SubsetInduction
<1> QED BY <1>2

LEMMA TotalUnfolds ==
    ASSUME NEW f, NEW S, IsFiniteSet(S)
    PROVE  Total(f, S) = IF S = {} THEN 0 ELSE f[First(S)] + Total(f, S \ {First(S)})
<1>1. PICK g : Adds(f, S, g)
  BY AddsExists
<1>2. Total(f, S) = g[S]
  BY <1>1, TotalOf
<1>3. S = {} => Total(f, S) = 0
  BY <1>1, <1>2, AddsValue
<1>4. ASSUME S # {} PROVE Total(f, S) = f[First(S)] + Total(f, S \ {First(S)})
  <2> DEFINE C == S \ {First(S)}
  <2>1. C \in SUBSET S /\ IsFiniteSet(C)
    BY FS_Subset
  <2>2. PICK h : Adds(f, C, h)
    BY <2>1, AddsExists
  <2>3. Total(f, C) = h[C] /\ h[C] = g[C]
    BY <1>1, <2>1, <2>2, TotalOf, AddsAgree
  <2>4. g[S] = f[First(S)] + g[C]
    BY <1>1, <1>4, AddsValue
  <2> QED BY <1>2, <2>3, <2>4
<1> QED BY <1>3, <1>4

LEMMA TotalType ==
    ASSUME NEW f, NEW S, IsFiniteSet(S), \A x \in S : f[x] \in Nat
    PROVE  Total(f, S) \in Nat
<1> DEFINE T == {A \in SUBSET S : Total(f, A) \in Nat}
<1>1. ASSUME NEW A \in SUBSET S, \A B \in SUBSET A : B # A => B \in T
      PROVE  A \in T
  <2>1. IsFiniteSet(A)
    BY FS_Subset
  <2>2. A # {} => f[First(A)] \in Nat /\ Total(f, A \ {First(A)}) \in Nat
    BY <1>1, FirstIn
  <2>3. Total(f, A) = IF A = {} THEN 0 ELSE f[First(A)] + Total(f, A \ {First(A)})
    BY <2>1, TotalUnfolds
  <2> QED BY <2>2, <2>3
<1>2. S \in T
  <2> HIDE DEF T
  <2> QED BY <1>1, SubsetInduction
<1> QED BY <1>2

\* Any element may be taken out first.
LEMMA TotalWithout ==
    ASSUME NEW f, NEW S, IsFiniteSet(S), \A x \in S : f[x] \in Nat, NEW x \in S
    PROVE  Total(f, S) = f[x] + Total(f, S \ {x})
<1> DEFINE T == {A \in SUBSET S : \A y \in A : Total(f, A) = f[y] + Total(f, A \ {y})}
<1>1. ASSUME NEW A \in SUBSET S, \A B \in SUBSET A : B # A => B \in T
      PROVE  A \in T
  <2> SUFFICES ASSUME NEW y \in A PROVE Total(f, A) = f[y] + Total(f, A \ {y})
    OBVIOUS
  <2> DEFINE a == First(A)
  <2>1. IsFiniteSet(A) /\ a \in A
    BY FS_Subset, FirstIn
  <2>2. Total(f, A) = f[a] + Total(f, A \ {a})
    BY <2>1, TotalUnfolds
  <2>3. CASE y = a
    BY <2>2, <2>3
  <2>4. CASE y # a
    <3>1. A \ {a} \in T /\ A \ {y} \in T /\ y \in A \ {a} /\ a \in A \ {y}
      BY <1>1, <2>1, <2>4
    <3>2. (A \ {a}) \ {y} = (A \ {y}) \ {a}
      OBVIOUS
    <3>3. /\ Total(f, A \ {a}) = f[y] + Total(f, (A \ {y}) \ {a})
          /\ Total(f, A \ {y}) = f[a] + Total(f, (A \ {y}) \ {a})
      BY <3>1, <3>2
    <3>4. IsFiniteSet((A \ {y}) \ {a}) /\ (A \ {y}) \ {a} \subseteq S
      BY <2>1, FS_Subset
    <3>5. Total(f, (A \ {y}) \ {a}) \in Nat /\ f[a] \in Nat /\ f[y] \in Nat
      BY <2>1, <3>4, TotalType
    <3> HIDE DEF a, T
    <3> QED BY <2>2, <3>3, <3>5
  <2> QED BY <2>3, <2>4
<1>2. S \in T
  <2> HIDE DEF T
  <2> QED BY <1>1, SubsetInduction
<1> QED BY <1>2

LEMMA TotalSame ==
    ASSUME NEW f, NEW g, NEW S, IsFiniteSet(S), \A x \in S : f[x] = g[x]
    PROVE  Total(f, S) = Total(g, S)
<1> DEFINE T == {A \in SUBSET S : Total(f, A) = Total(g, A)}
<1>1. ASSUME NEW A \in SUBSET S, \A B \in SUBSET A : B # A => B \in T
      PROVE  A \in T
  <2>1. IsFiniteSet(A)
    BY FS_Subset
  <2>2. A # {} => First(A) \in A /\ A \ {First(A)} \in T
    BY <1>1, FirstIn
  <2>3. A = {} => Total(f, A) = Total(g, A)
    BY <2>1, TotalUnfolds
  <2>4. A # {} => Total(f, A) = Total(g, A)
    BY <2>1, <2>2, TotalUnfolds
  <2> QED BY <2>3, <2>4
<1>2. S \in T
  <2> HIDE DEF T
  <2> QED BY <1>1, SubsetInduction
<1> QED BY <1>2

\* One summand changes, and so does the sum.
LEMMA TotalMoves ==
    ASSUME NEW S, IsFiniteSet(S), NEW f, NEW g, NEW x \in S, NEW d \in Nat,
           \A y \in S : f[y] \in Nat, g[x] = f[x] + d, \A y \in S \ {x} : g[y] = f[y]
    PROVE  Total(g, S) = Total(f, S) + d
<1>0. IsFiniteSet(S \ {x})
  BY FS_Subset
<1>1. Total(f, S) = f[x] + Total(f, S \ {x}) /\ Total(f, S \ {x}) \in Nat
  BY <1>0, TotalWithout, TotalType
<1>2. \A y \in S : g[y] \in Nat
  OBVIOUS
<1>3. Total(g, S) = g[x] + Total(g, S \ {x})
  BY <1>2, TotalWithout
<1>4. Total(g, S \ {x}) = Total(f, S \ {x})
  BY <1>0, TotalSame
<1> QED BY <1>1, <1>3, <1>4

\* A sum whose summands are at most c, and 0 outside a set, is at most c for each
\* of its elements.
LEMMA TotalBounded ==
    ASSUME NEW S, IsFiniteSet(S), NEW A \in SUBSET S, NEW c \in Nat, NEW f,
           \A x \in S : f[x] \in Nat /\ f[x] <= IF x \in A THEN c ELSE 0
    PROVE  Total(f, S) <= c * Cardinality(A)
<1> DEFINE T == {B \in SUBSET S : Total(f, B) <= c * Cardinality(A \cap B)}
<1>1. ASSUME NEW B \in SUBSET S, \A C \in SUBSET B : C # B => C \in T
      PROVE  B \in T
  <2>1. IsFiniteSet(B) /\ IsFiniteSet(A \cap B)
    BY FS_Subset
  <2>2. CASE B = {}
    <3>1. Total(f, B) = 0 /\ Cardinality(A \cap B) = 0
      BY <2>1, <2>2, TotalUnfolds, FS_EmptySet
    <3> QED BY <3>1
  <2>3. CASE B # {}
    <3> DEFINE b == First(B)
               C == B \ {b}
    <3>1. b \in B /\ C \in T
      BY <1>1, <2>3, FirstIn
    <3>2. Total(f, B) = f[b] + Total(f, C)
      BY <2>1, <2>3, TotalUnfolds
    <3>3. IsFiniteSet(C) /\ IsFiniteSet(A \cap C) /\ C \subseteq S
      BY <2>1, FS_Subset
    <3>4. Total(f, C) \in Nat /\ f[b] \in Nat /\ Cardinality(A \cap C) \in Nat
      BY <3>1, <3>3, TotalType, FS_CardinalityType
    <3>5. Total(f, C) <= c * Cardinality(A \cap C)
      BY <3>1
    <3>6. CASE b \in A
      <4>1. A \cap B = (A \cap C) \cup {b} /\ b \notin A \cap C
        BY <3>1, <3>6
      <4>2. Cardinality(A \cap B) = Cardinality(A \cap C) + 1
        BY <3>3, <4>1, FS_AddElement
      <4>3. f[b] <= c
        BY <3>1, <3>6
      <4>4. c * (Cardinality(A \cap C) + 1) = c * Cardinality(A \cap C) + c
        <5> HIDE DEF C
        <5> QED BY <3>4
      <4>5. c * Cardinality(A \cap C) \in Nat
        BY <3>4
      <4> HIDE DEF C, b
      <4> QED BY <3>2, <3>4, <3>5, <4>2, <4>3, <4>4, <4>5
    <3>7. CASE b \notin A
      <4>1. Cardinality(A \cap B) = Cardinality(A \cap C)
        <5>1. A \cap B = A \cap C
          BY <3>1, <3>7
        <5> QED BY <5>1
      <4>2. f[b] <= 0
        BY <3>1, <3>7
      <4>3. c * Cardinality(A \cap C) \in Nat
        BY <3>4
      <4> HIDE DEF C, b
      <4>4. Total(f, B) <= c * Cardinality(A \cap B)
        BY <3>2, <3>4, <3>5, <4>1, <4>2, <4>3
      <4> QED BY <4>4
    <3> QED BY <3>6, <3>7
  <2> QED BY <2>2, <2>3
<1>2. S \in T
  <2> HIDE DEF T
  <2> QED BY <1>1, SubsetInduction
<1>3. A \cap S = A
  OBVIOUS
<1> QED BY <1>2, <1>3

-----------------------------------------------------------------------------
(* Type correctness: one lemma per component. *)

LEMMA TypeInit == Init => TypeOK
<1> SUFFICES ASSUME Init PROVE TypeOK
  OBVIOUS
<1> USE StoreAssumption DEF Init
<1>1. StoreTypeOK
  <2>1. match \in [Matches -> MatchRow]
    BY DEF StoreInit, MatchRow
  <2>2. prediction \in [Users -> [Matches -> PredictionRow]]
    <3>1. NewPrediction \in PredictionRow
      BY DEF PredictionRow, NewPrediction
    <3>2. MissingPrediction \in PredictionRow
      BY <3>1 DEF PredictionRow, MissingPrediction
    <3> QED BY <3>1, <3>2 DEF StoreInit
  <2>3. job \in [JobIds -> JobRow]
    BY DEF StoreInit, JobRow, NoJob, MaxStalledCount
  <2>4. /\ score \in [Users -> Nat]
        /\ started \in [Matches -> BOOLEAN]
        /\ late \in [Users -> [Matches -> BOOLEAN]]
        /\ faults \in 0..MaxFaults
    BY DEF StoreInit
  <2> QED BY <2>1, <2>2, <2>3, <2>4 DEF StoreTypeOK
<1>2. MatchesTypeOK
  BY DEF MatchesInit, MatchesTypeOK, RegistrarState, AssignerState
<1>3. PredictionsTypeOK
  BY DEF PredictionsInit, PredictionsTypeOK, PredictorState
<1>4. ProcessorTypeOK
  BY DEF ProcessorInit, ProcessorTypeOK, WorkerState
<1> QED BY <1>1, <1>2, <1>3, <1>4 DEF TypeOK

LEMMA TypeRegistrar ==
    ASSUME TypeOK, NEW r \in Registrars, RegistrarNext(r), UNCHANGED <<prd, wrk>>
    PROVE  TypeOK'
<1> USE StoreAssumption DEF TypeOK, StoreTypeOK, MatchesTypeOK
<1>1. CASE RegisterFind(r)
  <2>1. PICK m \in Matches, l \in Goals, v \in Goals :
           reg' = [reg EXCEPT ![r] = [pc |-> "found", id |-> m, match |-> WithResult(match[m], l, v),
                                      seen |-> match[m]]]
    BY <1>1 DEF RegisterFind
  <2>2. WithResult(match[m], l, v) \in MatchRow
    BY WithResultType
  <2>3. reg' \in [Registrars -> RegistrarState]
    BY <2>1, <2>2 DEF RegistrarState
  <2> QED BY <1>1, <2>3 DEF RegisterFind, storeVars, PredictionsTypeOK, ProcessorTypeOK
<1>2. CASE RegisterSelect(r)
  <2>1. reg[r] \in RegistrarState /\ reg[r] # Idle
    BY <1>2 DEF RegisterSelect, Idle
  <2>2. reg' \in [Registrars -> RegistrarState]
    BY <1>2, <2>1 DEF RegisterSelect, RegistrarState
  <2> QED BY <1>2, <2>2 DEF RegisterSelect, storeVars, PredictionsTypeOK, ProcessorTypeOK
<1>3. CASE RegisterUpdate(r)
  <2>1. reg[r] \in RegistrarState /\ reg[r] # Idle
    BY <1>3 DEF RegisterUpdate, Idle
  <2>2. match' \in [Matches -> MatchRow]
    BY <1>3, <2>1, SavedMatch DEF RegisterUpdate, RegistrarState
  <2>3. reg' \in [Registrars -> RegistrarState]
    BY <1>3, <2>1 DEF RegisterUpdate, RegistrarState
  <2> QED BY <1>3, <2>2, <2>3 DEF RegisterUpdate, PredictionsTypeOK, ProcessorTypeOK
<1>4. CASE Enqueue(r)
  <2>1. reg[r] \in RegistrarState /\ reg[r] # Idle
    BY <1>4 DEF Enqueue, Idle
  <2>2. reg[r].id \in Matches /\ reg[r].match \in MatchRow
    BY <2>1 DEF RegistrarState
  <2>3. job' \in [JobIds -> JobRow]
    BY <1>4, <2>2 DEF Enqueue, AddJob, JobRow, MatchRow, MaxStalledCount
  <2>4. reg' \in [Registrars -> RegistrarState]
    BY <1>4 DEF Enqueue, RegistrarState
  <2> QED BY <1>4, <2>3, <2>4 DEF Enqueue, PredictionsTypeOK, ProcessorTypeOK
<1>5. CASE EnqueueFails(r)
  <2>1. reg' \in [Registrars -> RegistrarState]
    BY <1>5 DEF EnqueueFails, RegistrarState
  <2>2. faults' \in 0..MaxFaults
    BY <1>5 DEF EnqueueFails, Fault
  <2> QED BY <1>5, <2>1, <2>2 DEF EnqueueFails, PredictionsTypeOK, ProcessorTypeOK
<1> QED BY <1>1, <1>2, <1>3, <1>4, <1>5 DEF RegistrarNext

LEMMA TypeAssigner ==
    ASSUME TypeOK, NEW a \in Assigners, AssignerNext(a), UNCHANGED <<prd, wrk>>
    PROVE  TypeOK'
<1> USE StoreAssumption DEF TypeOK, StoreTypeOK, MatchesTypeOK
<1>1. CASE AssignFind(a)
  <2>1. PICK m \in Matches, sides \in Sides, local \in Teams \cup {NULL}, visiting \in Teams \cup {NULL} :
           asg' = [asg EXCEPT ![a] = [pc |-> "found", id |-> m,
                                      match |-> WithTeams(match[m], sides, local, visiting),
                                      seen |-> match[m]]]
    BY <1>1 DEF AssignFind
  <2>2. WithTeams(match[m], sides, local, visiting) \in MatchRow
    BY WithTeamsType
  <2>3. asg' \in [Assigners -> AssignerState]
    BY <2>1, <2>2 DEF AssignerState
  <2> QED BY <1>1, <2>3 DEF AssignFind, storeVars, PredictionsTypeOK, ProcessorTypeOK
<1>2. CASE AssignSelect(a)
  <2>1. asg[a] \in AssignerState /\ asg[a] # Idle
    BY <1>2 DEF AssignSelect, Idle
  <2>2. asg' \in [Assigners -> AssignerState]
    BY <1>2, <2>1 DEF AssignSelect, AssignerState
  <2> QED BY <1>2, <2>2 DEF AssignSelect, storeVars, PredictionsTypeOK, ProcessorTypeOK
<1>3. CASE AssignUpdate(a)
  <2>1. asg[a] \in AssignerState /\ asg[a] # Idle
    BY <1>3 DEF AssignUpdate, Idle
  <2>2. match' \in [Matches -> MatchRow]
    BY <1>3, <2>1, SavedMatch DEF AssignUpdate, AssignerState
  <2>3. asg' \in [Assigners -> AssignerState]
    BY <1>3 DEF AssignUpdate, AssignerState
  <2> QED BY <1>3, <2>2, <2>3 DEF AssignUpdate, PredictionsTypeOK, ProcessorTypeOK
<1> QED BY <1>1, <1>2, <1>3 DEF AssignerNext

LEMMA TypePredictor ==
    ASSUME TypeOK, NEW p \in Predictors, PredictorNext(p), UNCHANGED <<reg, asg, wrk>>
    PROVE  TypeOK'
<1> USE StoreAssumption DEF TypeOK, StoreTypeOK, PredictionsTypeOK
<1>1. CASE CheckMatch(p)
  <2>1. PICK u \in Users, m \in Matches, l \in Goals, v \in Goals :
           prd' = [prd EXCEPT ![p] = [pc |-> "checked", user |-> u, id |-> m,
                                      prediction |-> WithGoals(NewPrediction, l, v),
                                      seen |-> NewPrediction]]
    BY <1>1 DEF CheckMatch
  <2>2. WithGoals(NewPrediction, l, v) \in PredictionRow /\ NewPrediction \in PredictionRow
    BY DEF WithGoals, NewPrediction, PredictionRow
  <2>3. prd' \in [Predictors -> PredictorState]
    BY <2>1, <2>2 DEF PredictorState
  <2> QED BY <1>1, <2>3 DEF CheckMatch, storeVars, MatchesTypeOK, ProcessorTypeOK
<1> DEFINE req == prd[p]
           row == prediction[req.user][req.id]
<1>2. ASSUME req.pc # "idle"
      PROVE  /\ req \in [pc : {"checked", "new", "loaded", "selected"}, user : Users, id : Matches,
                         prediction : PredictionRow, seen : PredictionRow]
             /\ row \in PredictionRow
  BY <1>2 DEF PredictorState, NoRequest
<1>3. CASE LoadPrediction(p)
  <2>1. req.pc = "checked"
    BY <1>3 DEF LoadPrediction
  <2>2. WithGoals(row, req.prediction.local_score, req.prediction.visitor_score) \in PredictionRow
    BY <1>2, <2>1 DEF WithGoals, PredictionRow
  <2>3. prd' \in [Predictors -> PredictorState]
    BY <1>2, <1>3, <2>1, <2>2 DEF LoadPrediction, PredictorState
  <2> QED BY <1>3, <2>3 DEF LoadPrediction, storeVars, MatchesTypeOK, ProcessorTypeOK
<1>4. CASE SelectPrediction(p)
  <2>1. prd' \in [Predictors -> PredictorState]
    BY <1>2, <1>4 DEF SelectPrediction, PredictorState
  <2> QED BY <1>4, <2>1 DEF SelectPrediction, storeVars, MatchesTypeOK, ProcessorTypeOK
<1>5. ASSUME NEW new \in PredictionRow, req.pc # "idle", WriteRow(p, new)
      PROVE  TypeOK'
  <2>1. prediction' \in [Users -> [Matches -> PredictionRow]]
    BY <1>2, <1>5 DEF WriteRow
  <2>2. late' \in [Users -> [Matches -> BOOLEAN]]
    BY <1>2, <1>5 DEF WriteRow, MatchRow
  <2>3. prd' \in [Predictors -> PredictorState]
    BY <1>5 DEF WriteRow, PredictorState
  <2> QED BY <1>5, <2>1, <2>2, <2>3 DEF WriteRow, MatchesTypeOK, ProcessorTypeOK
<1>6. CASE UpdatePrediction(p)
  BY <1>2, <1>5, <1>6, SavedPrediction DEF UpdatePrediction
<1>7. CASE InsertPrediction(p)
  BY <1>2, <1>5, <1>7 DEF InsertPrediction
<1>8. CASE InsertConflicts(p)
  <2>1. prd' \in [Predictors -> PredictorState]
    BY <1>8 DEF InsertConflicts, PredictorState
  <2> QED BY <1>8, <2>1 DEF InsertConflicts, storeVars, MatchesTypeOK, ProcessorTypeOK
<1> QED BY <1>1, <1>3, <1>4, <1>6, <1>7, <1>8 DEF PredictorNext

LEMMA TypeWorker ==
    ASSUME TypeOK, NEW w \in Workers, WorkerNext(w), UNCHANGED <<reg, asg, prd>>
    PROVE  TypeOK'
<1> USE StoreAssumption DEF TypeOK, StoreTypeOK, ProcessorTypeOK
<1>1. ASSUME wrk[w].pc # "idle"
      PROVE  wrk[w] \in [pc : {"taken", "computed", "committed"}, job : JobIds,
                         points : [Users -> Nat \cup {NULL}]]
  BY <1>1 DEF WorkerState, Waiting
<1>2. CASE Take(w)
  <2>1. PICK j \in JobIds :
           /\ job' = [job EXCEPT ![j].state = "active"]
           /\ wrk' = [wrk EXCEPT ![w] = [pc |-> "taken", job |-> j, points |-> NotFound]]
    BY <1>2 DEF Take
  <2>2. job' \in [JobIds -> JobRow]
    BY <2>1, JobWithState
  <2>3. wrk' \in [Workers -> WorkerState]
    BY <2>1 DEF WorkerState, NotFound
  <2> QED BY <1>2, <2>2, <2>3 DEF Take, MatchesTypeOK, PredictionsTypeOK
<1>3. CASE Compute(w)
  <2>1. JobPoints(job[wrk[w].job]) \in [Users -> Nat \cup {NULL}]
    BY TotalInNat DEF JobPoints
  <2>2. wrk' \in [Workers -> WorkerState]
    BY <1>1, <1>3, <2>1 DEF Compute, WorkerState
  <2> QED BY <1>3, <2>2 DEF Compute, storeVars, MatchesTypeOK, PredictionsTypeOK
<1>4. CASE Commit(w)
  <2>1. wrk[w].pc = "computed"
    BY <1>4 DEF Commit
  <2>2. wrk[w].points \in [Users -> Nat \cup {NULL}]
    BY <1>1, <2>1
  <2>4. prediction' \in [Users -> [Matches -> PredictionRow]]
    <3> DEFINE n == job[wrk[w].job].match_id
               new(u) == [prediction[u] EXCEPT ![n] = WithPoints(@, wrk[w].points[u])]
    <3>1. prediction' = [u \in Users |-> new(u)]
      BY <1>4 DEF Commit
    <3>2. ASSUME NEW u \in Users PROVE new(u) \in [Matches -> PredictionRow]
      <4>1. prediction[u] \in [Matches -> PredictionRow] /\ wrk[w].points[u] \in Nat \cup {NULL}
        BY <2>2
      <4> HIDE DEF n
      <4> QED BY <4>1, WithPointsType
    <3> QED BY <3>1, <3>2
  <2>5. score' \in [Users -> Nat]
    BY <1>4, <2>2 DEF Commit, Credited
  <2>6. wrk' \in [Workers -> WorkerState]
    BY <1>1, <1>4, <2>1 DEF Commit, WorkerState, NotFound
  <2>7. job' \in [JobIds -> JobRow]
    <3>1. job' = [job EXCEPT ![wrk[w].job].credited = @ + 1]
      BY <1>4 DEF Commit
    <3> QED BY <3>1, JobCredited
  <2> QED BY <1>4, <2>4, <2>5, <2>6, <2>7 DEF Commit, MatchesTypeOK, PredictionsTypeOK
<1>5. ASSUME NEW state \in {"completed", "failed"}, Finish(w, state), faults' \in 0..MaxFaults
      PROVE  TypeOK'
  <2>1. job' \in [JobIds -> JobRow]
    BY <1>5, JobWithState DEF Finish
  <2>2. wrk' \in [Workers -> WorkerState]
    BY <1>5 DEF Finish, WorkerState
  <2> QED BY <1>5, <2>1, <2>2 DEF Finish, MatchesTypeOK, PredictionsTypeOK
<1>6. CASE Complete(w)
  BY <1>5, <1>6 DEF Complete
<1>7. CASE JobFails(w)
  BY <1>5, <1>7 DEF JobFails, Fault
<1> QED BY <1>2, <1>3, <1>4, <1>6, <1>7 DEF WorkerNext

LEMMA TypeStalled ==
    ASSUME TypeOK, StalledCheck, UNCHANGED <<reg, asg, prd>>
    PROVE  TypeOK'
<1> USE StoreAssumption DEF TypeOK, StoreTypeOK
<1>1. PICK j \in JobIds : RequeueStalled(j) \/ FailStalled(j)
  BY DEF StalledCheck
<1>2. job' \in [JobIds -> JobRow]
  <2>1. CASE RequeueStalled(j)
    <3>1. [job[j] EXCEPT !.state = "wait", !.stalled = @ + 1] \in JobRow
      BY <2>1 DEF RequeueStalled, MayRequeue, JobRow, MaxStalledCount
    <3> QED BY <2>1, <3>1 DEF RequeueStalled
  <2>2. CASE FailStalled(j)
    BY <2>2, JobWithState DEF FailStalled
  <2> QED BY <1>1, <2>1, <2>2
<1> QED BY <1>1, <1>2 DEF RequeueStalled, FailStalled, MatchesTypeOK, PredictionsTypeOK, ProcessorTypeOK

LEMMA TypeStep == TypeOK /\ [Next]_vars => TypeOK'
<1> SUFFICES ASSUME TypeOK, [Next]_vars PROVE TypeOK'
  OBVIOUS
<1>1. ASSUME NEW m \in Matches, KickOff(m) PROVE TypeOK'
  BY <1>1 DEF KickOff, TypeOK, StoreTypeOK, MatchesTypeOK, PredictionsTypeOK, ProcessorTypeOK
<1>2. CASE Crash
  <2>1. /\ reg' \in [Registrars -> RegistrarState]
        /\ asg' \in [Assigners -> AssignerState]
        /\ prd' \in [Predictors -> PredictorState]
        /\ wrk' \in [Workers -> WorkerState]
    BY <1>2 DEF Crash, RegistrarState, AssignerState, PredictorState, WorkerState
  <2>2. faults' \in 0..MaxFaults
    BY <1>2, StoreAssumption DEF Crash, Fault, TypeOK, StoreTypeOK
  <2> QED BY <1>2, <2>1, <2>2
       DEF Crash, TypeOK, StoreTypeOK, MatchesTypeOK, PredictionsTypeOK, ProcessorTypeOK
<1>3. CASE UNCHANGED vars
  BY <1>3 DEF vars, storeVars, TypeOK, StoreTypeOK, MatchesTypeOK, PredictionsTypeOK, ProcessorTypeOK
<1> QED BY <1>1, <1>2, <1>3, TypeRegistrar, TypeAssigner, TypePredictor, TypeWorker, TypeStalled DEF Next

\* Every row, job and request keeps its type: no interleaving, crash or
\* redelivery leaves the tables or a handler outside the values the schema and
\* the code name.
THEOREM TypeCorrect == Spec => []TypeOK
BY TypeInit, TypeStep, PTL DEF Spec

-----------------------------------------------------------------------------
(* Group matches under any number of concurrent admins, players, workers and   *)
(* failures: their rows stay whole, their teams stay, and a played one stays   *)
(* played.  The argument is about save(): two requests may write different     *)
(* subsets of the columns of one row, and GroupMatchInv says why no            *)
(* combination of them breaks it.                                              *)

\* The heart of the matter: what a registration writes on a whole row.
LEMMA SavedResult ==
    ASSUME NEW e \in MatchRow, NEW s \in MatchRow, NEW row \in MatchRow,
           Whole(e), e.has_played, Whole(s), Whole(row),
           s.has_played => row.has_played,
           e.local_team_id = row.local_team_id, e.visiting_team_id = row.visiting_team_id,
           s.local_team_id = row.local_team_id, s.visiting_team_id = row.visiting_team_id
    PROVE  /\ Whole(Saved(e, s, row))
           /\ Saved(e, s, row).has_played
           /\ Saved(e, s, row).local_team_id = row.local_team_id
           /\ Saved(e, s, row).visiting_team_id = row.visiting_team_id
<1>1. /\ Saved(e, s, row).has_played
      /\ Saved(e, s, row).local_team_id = row.local_team_id
      /\ Saved(e, s, row).visiting_team_id = row.visiting_team_id
  BY DEF Saved, MatchRow
<1>2. e.local_result # NULL /\ e.visiting_result # NULL
  BY DEF Whole
<1>3. Saved(e, s, row).local_result # NULL /\ Saved(e, s, row).visiting_result # NULL
  <2>1. CASE s.has_played
    BY <1>2, <2>1 DEF Saved, MatchRow, Whole
  <2>2. CASE ~s.has_played
    BY <1>2, <2>2 DEF Saved, MatchRow, Whole
  <2> QED BY <2>1, <2>2
<1> QED BY <1>1, <1>3 DEF Whole

\* What no step does to a group match.
Keeps(m) ==
    /\ match'[m].local_team_id = match[m].local_team_id
    /\ match'[m].visiting_team_id = match[m].visiting_team_id
    /\ match[m].has_played => match'[m].has_played

LEMMA GroupInit == Init => GroupMatchInv
  BY DEF Init, StoreInit, MatchesInit, GroupMatchInv, GroupMatches, Whole, Idle

\* Most steps leave the matches and the admins' requests alone.
LEMMA GroupAside ==
    ASSUME GroupMatchInv, UNCHANGED <<match, reg, asg>>
    PROVE  GroupMatchInv' /\ \A m \in GroupMatches : Keeps(m)
  BY DEF GroupMatchInv, GroupMatches, Keeps, Whole

LEMMA GroupRegistrar ==
    ASSUME TypeOK, GroupMatchInv, NEW r \in Registrars, RegistrarNext(r)
    PROVE  GroupMatchInv' /\ \A m \in GroupMatches : Keeps(m)
<1> USE DEF GroupMatches
<1>t. /\ match \in [Matches -> MatchRow]
      /\ reg \in [Registrars -> RegistrarState]
  BY DEF TypeOK, StoreTypeOK, MatchesTypeOK
<1>1. CASE RegisterFind(r)
  <2>1. PICK n \in Matches, l \in Goals, v \in Goals :
           /\ ~match[n].has_played
           /\ reg' = [reg EXCEPT ![r] = [pc |-> "found", id |-> n, match |-> WithResult(match[n], l, v),
                                         seen |-> match[n]]]
    BY <1>1 DEF RegisterFind, Registrable
  <2>2. /\ Whole(WithResult(match[n], l, v))
        /\ WithResult(match[n], l, v).has_played
        /\ WithResult(match[n], l, v).local_team_id = match[n].local_team_id
        /\ WithResult(match[n], l, v).visiting_team_id = match[n].visiting_team_id
    BY <1>t, NullAssumption, StoreAssumption DEF WithResult, Whole, MatchRow
  <2>3. match' = match /\ asg' = asg
    BY <1>1 DEF RegisterFind, storeVars
  <2>4. GroupMatchInv'
    BY <1>t, <2>1, <2>2, <2>3 DEF GroupMatchInv, Whole
  <2> QED BY <2>3, <2>4 DEF Keeps
<1>2. CASE RegisterSelect(r)
  <2>1. match' = match /\ asg' = asg
    BY <1>2 DEF RegisterSelect, storeVars
  <2>2. reg' = [reg EXCEPT ![r].pc = "selected", ![r].seen = match[reg[r].id]]
    BY <1>2 DEF RegisterSelect
  <2>3. reg[r].pc = "found"
    BY <1>2 DEF RegisterSelect
  <2>4. ASSUME NEW q \in Registrars, q # r PROVE reg'[q] = reg[q]
    BY <1>t, <2>2, <2>4
  <2>5. /\ reg'[r].pc = "selected" /\ reg'[r].id = reg[r].id
        /\ reg'[r].match = reg[r].match /\ reg'[r].seen = match[reg[r].id]
    BY <1>t, <2>2, <2>3 DEF RegistrarState, Idle
  <2>6. GroupMatchInv'
    BY <2>1, <2>3, <2>4, <2>5 DEF GroupMatchInv, Whole
  <2> QED BY <2>1, <2>6 DEF Keeps
<1>3. CASE RegisterUpdate(r)
  <2> DEFINE n == reg[r].id
             new == Saved(reg[r].match, reg[r].seen, match[n])
  <2>1. reg[r].pc = "selected"
    BY <1>3 DEF RegisterUpdate
  <2>2. n \in Matches /\ reg[r].match \in MatchRow /\ reg[r].seen \in MatchRow
    BY <1>t, <2>1 DEF RegistrarState, Idle
  <2>3. match' = [match EXCEPT ![n] = new] /\ asg' = asg
    BY <1>3 DEF RegisterUpdate
  <2>4. /\ reg'[r].pc = "saved" /\ reg'[r].id = n /\ reg'[r].match = reg[r].match
        /\ \A q \in Registrars \ {r} : reg'[q] = reg[q]
    BY <1>3, <1>t, <2>1 DEF RegisterUpdate, RegistrarState, Idle
  <2>5. n \in GroupMatches =>
           /\ Whole(new) /\ new.has_played
           /\ new.local_team_id = match[n].local_team_id
           /\ new.visiting_team_id = match[n].visiting_team_id
    BY <1>t, <2>1, <2>2, SavedResult DEF GroupMatchInv
  <2>6. \A m \in GroupMatches : Keeps(m) /\ Whole(match'[m])
    BY <1>t, <2>2, <2>3, <2>5 DEF GroupMatchInv, Keeps
  <2>7. ASSUME NEW q \in Registrars, reg'[q].pc # "idle", reg'[q].id \in GroupMatches
        PROVE  /\ Whole(reg'[q].match)
               /\ reg'[q].match.has_played
               /\ reg'[q].match.local_team_id = match'[reg'[q].id].local_team_id
               /\ reg'[q].match.visiting_team_id = match'[reg'[q].id].visiting_team_id
               /\ reg'[q].pc = "selected" =>
                     /\ Whole(reg'[q].seen)
                     /\ reg'[q].seen.has_played => match'[reg'[q].id].has_played
                     /\ reg'[q].seen.local_team_id = match'[reg'[q].id].local_team_id
                     /\ reg'[q].seen.visiting_team_id = match'[reg'[q].id].visiting_team_id
    <3>1. Keeps(reg'[q].id)
      BY <2>6, <2>7
    <3>2. CASE q = r
      BY <2>1, <2>4, <2>7, <3>1, <3>2 DEF GroupMatchInv, Keeps
    <3>3. CASE q # r
      <4>1. reg'[q] = reg[q]
        BY <2>4, <3>3
      <4> QED BY <2>7, <3>1, <4>1 DEF GroupMatchInv, Keeps
    <3> QED BY <3>2, <3>3
  <2>8. GroupMatchInv'
    BY <2>3, <2>6, <2>7 DEF GroupMatchInv, Whole
  <2> QED BY <2>6, <2>8
<1>4. CASE Enqueue(r) \/ EnqueueFails(r)
  <2>1. match' = match /\ asg' = asg /\ reg' = [reg EXCEPT ![r] = Idle]
    BY <1>4 DEF Enqueue, EnqueueFails
  <2>2. \A q \in Registrars : reg'[q] = Idle \/ reg'[q] = reg[q]
    BY <1>t, <2>1
  <2>3. GroupMatchInv'
    BY <2>1, <2>2 DEF GroupMatchInv, Whole, Idle
  <2> QED BY <2>1, <2>3 DEF Keeps
<1> QED BY <1>1, <1>2, <1>3, <1>4 DEF RegistrarNext

LEMMA GroupAssigner ==
    ASSUME TypeOK, GroupMatchInv, NEW a \in Assigners, AssignerNext(a)
    PROVE  GroupMatchInv' /\ \A m \in GroupMatches : Keeps(m)
<1> USE DEF GroupMatches
<1>t. /\ match \in [Matches -> MatchRow]
      /\ asg \in [Assigners -> AssignerState]
  BY DEF TypeOK, StoreTypeOK, MatchesTypeOK
<1>1. reg' = reg
  BY DEF AssignerNext, AssignFind, AssignSelect, AssignUpdate
<1>2. \A b \in Assigners : asg'[b].pc # "idle" => asg'[b].id \in Knockout
  <2>1. CASE AssignFind(a)
    BY <1>t, <2>1 DEF AssignFind, Assignable, GroupMatchInv
  <2>2. CASE AssignSelect(a)
    BY <1>t, <2>2 DEF AssignSelect, GroupMatchInv, AssignerState, Idle
  <2>3. CASE AssignUpdate(a)
    BY <1>t, <2>3 DEF AssignUpdate, GroupMatchInv, Idle
  <2> QED BY <2>1, <2>2, <2>3 DEF AssignerNext
<1>3. \A m \in GroupMatches : match'[m] = match[m]
  <2>1. CASE AssignFind(a) \/ AssignSelect(a)
    BY <2>1 DEF AssignFind, AssignSelect, storeVars
  <2>2. CASE AssignUpdate(a)
    BY <1>t, <2>2 DEF AssignUpdate, GroupMatchInv
  <2> QED BY <2>1, <2>2 DEF AssignerNext
<1>4. GroupMatchInv'
  BY <1>1, <1>2, <1>3 DEF GroupMatchInv, Whole
<1> QED BY <1>3, <1>4 DEF Keeps

\* The steps of everybody but the admins.
LEMMA MatchesAside ==
    ASSUME [Next]_vars,
           ~(\E r \in Registrars : RegistrarNext(r) /\ UNCHANGED <<prd, wrk>>),
           ~(\E a \in Assigners : AssignerNext(a) /\ UNCHANGED <<prd, wrk>>),
           ~Crash
    PROVE  UNCHANGED <<match, reg, asg>>
<1>1. ASSUME NEW p \in Predictors, PredictorNext(p), UNCHANGED <<reg, asg, wrk>>
      PROVE  UNCHANGED <<match, reg, asg>>
  BY <1>1 DEF PredictorNext, CheckMatch, LoadPrediction, SelectPrediction, UpdatePrediction,
     InsertPrediction, InsertConflicts, WriteRow, storeVars
<1>2. ASSUME NEW w \in Workers, WorkerNext(w), UNCHANGED <<reg, asg, prd>>
      PROVE  UNCHANGED <<match, reg, asg>>
  BY <1>2 DEF WorkerNext, Take, Compute, Commit, Complete, JobFails, Finish, storeVars
<1>3. ASSUME StalledCheck, UNCHANGED <<reg, asg, prd>>
      PROVE  UNCHANGED <<match, reg, asg>>
  BY <1>3 DEF StalledCheck, RequeueStalled, FailStalled
<1>4. ASSUME NEW m \in Matches, KickOff(m)
      PROVE  UNCHANGED <<match, reg, asg>>
  BY <1>4 DEF KickOff
<1>5. ASSUME UNCHANGED vars
      PROVE  UNCHANGED <<match, reg, asg>>
  BY <1>5 DEF vars, storeVars
<1> QED BY <1>1, <1>2, <1>3, <1>4, <1>5 DEF Next

LEMMA GroupStep ==
    ASSUME TypeOK, GroupMatchInv, [Next]_vars
    PROVE  GroupMatchInv' /\ \A m \in GroupMatches : Keeps(m)
<1>1. CASE \E r \in Registrars : RegistrarNext(r) /\ UNCHANGED <<prd, wrk>>
  BY <1>1, GroupRegistrar
<1>2. CASE \E a \in Assigners : AssignerNext(a) /\ UNCHANGED <<prd, wrk>>
  BY <1>2, GroupAssigner
<1>3. CASE Crash
  <2>1. /\ match' = match
        /\ reg' = [r \in Registrars |-> Idle]
        /\ asg' = [a \in Assigners |-> Idle]
    BY <1>3 DEF Crash
  <2> QED BY <2>1 DEF GroupMatchInv, GroupMatches, Keeps, Whole, Idle
<1>4. CASE UNCHANGED <<match, reg, asg>>
  BY <1>4, GroupAside
<1> QED BY <1>1, <1>2, <1>3, <1>4, MatchesAside

LEMMA GroupMatchInvariant == Spec => [](TypeOK /\ GroupMatchInv)
<1>1. TypeOK /\ GroupMatchInv /\ [Next]_vars => (TypeOK /\ GroupMatchInv)'
  BY GroupStep, TypeStep
<1> QED BY TypeInit, GroupInit, <1>1, PTL DEF Spec

\* A group match has a whole result or none, whatever its admins do at once.
THEOREM GroupResultsWhole == Knockout = {} => (Spec => []ResultAllOrNothing)
<1> SUFFICES ASSUME Knockout = {} PROVE Spec => []ResultAllOrNothing
  OBVIOUS
<1>1. GroupMatchInv => ResultAllOrNothing
  BY DEF GroupMatchInv, GroupMatches, ResultAllOrNothing
<1> QED BY GroupMatchInvariant, <1>1, PTL

\* A group match keeps its teams and, once played, stays played: the one check
\* assignTeams makes before its awaits that no other request can outdate is the
\* phase, and updateResult never writes has_played back to false.
THEOREM GroupMatchesStand == Spec => GroupMatchStands
<1>1. TypeOK /\ GroupMatchInv /\ [Next]_vars
         => [\A m \in Matches \ Knockout :
               /\ match'[m].local_team_id = match[m].local_team_id
               /\ match'[m].visiting_team_id = match[m].visiting_team_id
               /\ match[m].has_played => match'[m].has_played]_vars
  BY GroupStep DEF GroupMatches, Keeps
<1> QED BY GroupMatchInvariant, <1>1, PTL DEF Spec, GroupMatchStands

\* What the argument rests on: what a registration of a group match holds between
\* its queries is whole and not ahead of the row, and no assignment holds one.
THEOREM GroupMatchInductive == Spec => []GroupMatchInv
  BY GroupMatchInvariant, PTL

-----------------------------------------------------------------------------
(* One registration and one assignment of a match at a time, which may race. *)

\* A row as it should be, and what the two requests hold of the rows.
InOrder(row) ==
    /\ Whole(row)
    /\ ~row.has_played => TeamsDiffer(row.local_team_id, row.visiting_team_id)

Registering(r, rows) ==
    r.pc \in {"found", "selected"} =>
        /\ Whole(r.match) /\ r.match.has_played
        /\ ~rows[r.id].has_played
        /\ r.pc = "selected" => Whole(r.seen) /\ ~r.seen.has_played

Assigning(a, rows) ==
    a.pc # "idle" =>
        /\ Whole(a.match) /\ ~a.match.has_played
        /\ TeamsDiffer(a.match.local_team_id, a.match.visiting_team_id)
        /\ a.pc = "selected" =>
              \/ a.seen = rows[a.id]
              \/ Whole(a.seen) /\ ~a.seen.has_played /\ rows[a.id].has_played

EachInv(rows, registrations, assignments) ==
    /\ \A m \in Matches : InOrder(rows[m])
    /\ \A r \in Registrars : Registering(registrations[r], rows)
    /\ \A a \in Assigners : Assigning(assignments[a], rows)

LEMMA EachInvDef ==
    /\ OneOfEachInv <=> EachInv(match, reg, asg)
    /\ OneOfEachInv' <=> EachInv(match', reg', asg')
  BY DEF OneOfEachInv, EachInv, ResultAllOrNothing, TeamsDifferUntilPlayed, TeamsDiffer, InOrder,
     Registering, Assigning, Whole, AwaitsSave

\* A registration saved over a row without result leaves a whole result.
LEMMA SavedRegistration ==
    ASSUME NEW e \in MatchRow, NEW s \in MatchRow, NEW row \in MatchRow,
           Whole(e), e.has_played, Whole(s), ~s.has_played
    PROVE  Saved(e, s, row).has_played /\ InOrder(Saved(e, s, row))
  BY DEF Saved, MatchRow, Whole, InOrder

\* An assignment is saved as it is over the row it selected, and leaves the
\* result alone if there was none when it selected.
LEMMA SavedAssignment ==
    ASSUME NEW e \in MatchRow, NEW s \in MatchRow, NEW row \in MatchRow,
           InOrder(e), ~e.has_played, InOrder(row)
    PROVE  /\ s = row => InOrder(Saved(e, s, row)) /\ ~Saved(e, s, row).has_played
           /\ Whole(s) /\ ~s.has_played /\ row.has_played =>
                 InOrder(Saved(e, s, row)) /\ Saved(e, s, row).has_played
<1>1. ASSUME s = row PROVE Saved(e, s, row) = e
  BY <1>1 DEF Saved, MatchRow
<1>2. ASSUME Whole(s), ~s.has_played, row.has_played
      PROVE  InOrder(Saved(e, s, row)) /\ Saved(e, s, row).has_played
  BY <1>2 DEF Saved, MatchRow, Whole, InOrder
<1> QED BY <1>1, <1>2

LEMMA EachInit == Init => OneOfEachInv
<1> SUFFICES ASSUME Init PROVE OneOfEachInv
  OBVIOUS
<1>1. PICK local \in Teams, visiting \in Teams :
         /\ Matches # Knockout => local # visiting
         /\ match = [m \in Matches |->
                [local_team_id |-> IF m \in Knockout THEN NULL ELSE local,
                 visiting_team_id |-> IF m \in Knockout THEN NULL ELSE visiting,
                 local_result |-> NULL, visiting_result |-> NULL, has_played |-> FALSE]]
  BY DEF Init, StoreInit
<1>2. ASSUME NEW m \in Matches PROVE InOrder(match[m])
  <2>1. CASE m \in Knockout
    BY <1>1, <2>1 DEF InOrder, Whole, TeamsDiffer
  <2>2. CASE m \notin Knockout
    BY <1>1, <2>2, StoreAssumption DEF InOrder, Whole, TeamsDiffer
  <2> QED BY <2>1, <2>2
<1>3. /\ \A r \in Registrars : Registering(reg[r], match)
      /\ \A a \in Assigners : Assigning(asg[a], match)
  BY DEF Init, MatchesInit, Idle, Registering, Assigning
<1> QED BY <1>2, <1>3, EachInvDef DEF EachInv

LEMMA EachRegistrar ==
    ASSUME OneOfEach, TypeOK, OneOfEachInv, NEW r \in Registrars, RegistrarNext(r)
    PROVE  OneOfEachInv'
<1>t. /\ match \in [Matches -> MatchRow]
      /\ reg \in [Registrars -> RegistrarState]
      /\ asg \in [Assigners -> AssignerState]
  BY DEF TypeOK, StoreTypeOK, MatchesTypeOK
<1>i. EachInv(match, reg, asg)
  BY EachInvDef
<1>o. \A q \in Registrars \ {r} : reg'[q] = reg[q]
  BY <1>t DEF RegistrarNext, RegisterFind, RegisterSelect, RegisterUpdate, Enqueue, EnqueueFails
<1>a. asg' = asg
  BY DEF RegistrarNext, RegisterFind, RegisterSelect, RegisterUpdate, Enqueue, EnqueueFails
\* The steps that leave the rows alone.
<1>q. ASSUME match' = match, Registering(reg'[r], match) PROVE OneOfEachInv'
  <2>1. \A q \in Registrars : Registering(reg'[q], match)
    BY <1>i, <1>o, <1>q DEF EachInv
  <2> QED BY <1>i, <1>a, <1>q, <2>1, EachInvDef DEF EachInv
<1>1. CASE RegisterFind(r)
  <2>1. PICK n \in Matches, l \in Goals, v \in Goals :
           /\ ~match[n].has_played
           /\ reg' = [reg EXCEPT ![r] = [pc |-> "found", id |-> n, match |-> WithResult(match[n], l, v),
                                         seen |-> match[n]]]
    BY <1>1 DEF RegisterFind, Registrable
  <2>2. Whole(WithResult(match[n], l, v)) /\ WithResult(match[n], l, v).has_played
    BY <1>t, NullAssumption, StoreAssumption DEF WithResult, Whole, MatchRow
  <2>3. reg'[r] = [pc |-> "found", id |-> n, match |-> WithResult(match[n], l, v), seen |-> match[n]]
    BY <1>t, <2>1
  <2>4. Registering(reg'[r], match)
    BY <2>1, <2>2, <2>3 DEF Registering
  <2>5. match' = match
    BY <1>1 DEF RegisterFind, storeVars
  <2> QED BY <1>q, <2>4, <2>5
<1>2. CASE RegisterSelect(r)
  <2>1. /\ reg[r].pc = "found" /\ match' = match
        /\ reg' = [reg EXCEPT ![r].pc = "selected", ![r].seen = match[reg[r].id]]
    BY <1>2 DEF RegisterSelect, storeVars
  <2>2. /\ reg'[r].pc = "selected" /\ reg'[r].id = reg[r].id
        /\ reg'[r].match = reg[r].match /\ reg'[r].seen = match[reg[r].id]
        /\ reg[r].id \in Matches
    BY <1>t, <2>1 DEF RegistrarState, Idle
  <2>3. Registering(reg'[r], match)
    BY <1>i, <2>1, <2>2 DEF EachInv, Registering, InOrder
  <2> QED BY <1>q, <2>1, <2>3
<1>3. CASE RegisterUpdate(r)
  <2> DEFINE n == reg[r].id
  <2>1. /\ reg[r].pc = "selected" /\ n \in Matches
        /\ reg[r].match \in MatchRow /\ reg[r].seen \in MatchRow
    BY <1>3, <1>t DEF RegisterUpdate, RegistrarState, Idle
  <2>2. PICK new : new = Saved(reg[r].match, reg[r].seen, match[n])
    OBVIOUS
  <2>3. /\ match' = [match EXCEPT ![n] = new]
        /\ reg' = [reg EXCEPT ![r].pc = "saved"]
    BY <1>3, <2>2 DEF RegisterUpdate
  <2>4. new.has_played /\ InOrder(new) /\ ~match[n].has_played
    <3>1. Registering(reg[r], match)
      BY <1>i DEF EachInv
    <3> QED BY <1>t, <2>1, <2>2, <3>1, SavedRegistration DEF Registering
  <2>5. match'[n] = new /\ \A m \in Matches \ {n} : match'[m] = match[m]
    BY <1>t, <2>1, <2>3
  <2>6. \A m \in Matches : InOrder(match'[m])
    BY <1>i, <2>4, <2>5 DEF EachInv
  <2>7. Registering(reg'[r], match')
    BY <1>t, <2>1, <2>3 DEF Registering, RegistrarState, Idle
  <2>8. ASSUME NEW a \in Assigners PROVE Assigning(asg[a], match')
    <3>1. Assigning(asg[a], match)
      BY <1>i DEF EachInv
    <3>2. CASE asg[a].pc = "idle"
      BY <3>2 DEF Assigning
    <3>3. CASE asg[a].pc # "idle" /\ asg[a].id # n
      <4>1. match'[asg[a].id] = match[asg[a].id]
        BY <1>t, <2>5, <3>3 DEF AssignerState, Idle
      <4> QED BY <3>1, <4>1 DEF Assigning
    <3>4. CASE asg[a].pc # "idle" /\ asg[a].id = n
      <4>1. match'[asg[a].id].has_played /\ InOrder(match[n])
        BY <1>i, <2>1, <2>4, <2>5, <3>4 DEF EachInv
      <4> QED BY <2>4, <3>1, <3>4, <4>1 DEF Assigning, InOrder
    <3> QED BY <3>2, <3>3, <3>4
  <2>9. ASSUME NEW q \in Registrars PROVE Registering(reg'[q], match')
    <3>1. CASE q # r
      <4>1. Registering(reg[q], match)
        BY <1>i DEF EachInv
      <4>2. reg[q].pc \in {"found", "selected"} => reg[q].id \in Matches \ {n}
        BY <1>t, <2>1, <3>1 DEF OneOfEach, RegistrationsApart, AwaitsSave, RegistrarState, Idle
      <4> QED BY <1>o, <2>5, <3>1, <4>1, <4>2 DEF Registering
    <3> QED BY <2>7, <3>1
  <2> QED BY <1>a, <2>6, <2>8, <2>9, EachInvDef DEF EachInv
<1>4. CASE Enqueue(r) \/ EnqueueFails(r)
  <2>1. match' = match /\ reg' = [reg EXCEPT ![r] = Idle]
    BY <1>4 DEF Enqueue, EnqueueFails
  <2>2. Registering(reg'[r], match)
    BY <1>t, <2>1 DEF Registering, Idle
  <2> QED BY <1>q, <2>1, <2>2
<1> QED BY <1>1, <1>2, <1>3, <1>4 DEF RegistrarNext

LEMMA EachAssigner ==
    ASSUME OneOfEach, TypeOK, OneOfEachInv, NEW a \in Assigners, AssignerNext(a)
    PROVE  OneOfEachInv'
<1>t. /\ match \in [Matches -> MatchRow]
      /\ reg \in [Registrars -> RegistrarState]
      /\ asg \in [Assigners -> AssignerState]
  BY DEF TypeOK, StoreTypeOK, MatchesTypeOK
<1>i. EachInv(match, reg, asg)
  BY EachInvDef
<1>o. \A b \in Assigners \ {a} : asg'[b] = asg[b]
  BY <1>t DEF AssignerNext, AssignFind, AssignSelect, AssignUpdate
<1>r. reg' = reg
  BY DEF AssignerNext, AssignFind, AssignSelect, AssignUpdate
<1>q. ASSUME match' = match, Assigning(asg'[a], match) PROVE OneOfEachInv'
  <2>1. \A b \in Assigners : Assigning(asg'[b], match)
    BY <1>i, <1>o, <1>q DEF EachInv
  <2> QED BY <1>i, <1>r, <1>q, <2>1, EachInvDef DEF EachInv
<1>1. CASE AssignFind(a)
  <2>1. PICK n \in Matches, sides \in Sides, l \in Teams \cup {NULL}, v \in Teams \cup {NULL} :
           LET next == WithTeams(match[n], sides, l, v)
           IN /\ Assignable(n, match[n])
              /\ TeamsDiffer(next.local_team_id, next.visiting_team_id)
              /\ asg' = [asg EXCEPT ![a] = [pc |-> "found", id |-> n, match |-> next,
                                            seen |-> match[n]]]
    BY <1>1 DEF AssignFind
  <2>2. PICK next : next = WithTeams(match[n], sides, l, v)
    OBVIOUS
  <2>3. next.has_played = match[n].has_played /\ (Whole(match[n]) => Whole(next))
    BY <1>t, <2>2 DEF WithTeams, MatchRow, Whole
  <2>4. asg'[a] = [pc |-> "found", id |-> n, match |-> next, seen |-> match[n]]
    BY <1>t, <2>1, <2>2
  <2>5. Assigning(asg'[a], match)
    BY <1>i, <2>1, <2>2, <2>3, <2>4 DEF Assigning, Assignable, EachInv, InOrder
  <2>6. match' = match
    BY <1>1 DEF AssignFind, storeVars
  <2> QED BY <1>q, <2>5, <2>6
<1>2. CASE AssignSelect(a)
  <2>1. /\ asg[a].pc = "found" /\ match' = match
        /\ asg' = [asg EXCEPT ![a].pc = "selected", ![a].seen = match[asg[a].id]]
    BY <1>2 DEF AssignSelect, storeVars
  <2>2. /\ asg'[a].pc = "selected" /\ asg'[a].id = asg[a].id
        /\ asg'[a].match = asg[a].match /\ asg'[a].seen = match[asg[a].id]
    BY <1>t, <2>1 DEF AssignerState, Idle
  <2>3. Assigning(asg'[a], match)
    BY <1>i, <2>1, <2>2 DEF EachInv, Assigning
  <2> QED BY <1>q, <2>1, <2>3
<1>3. CASE AssignUpdate(a)
  <2> DEFINE n == asg[a].id
  <2>1. /\ asg[a].pc = "selected" /\ n \in Matches
        /\ asg[a].match \in MatchRow /\ asg[a].seen \in MatchRow
    BY <1>3, <1>t DEF AssignUpdate, AssignerState, Idle
  <2>2. PICK new : new = Saved(asg[a].match, asg[a].seen, match[n])
    OBVIOUS
  <2>3. /\ match' = [match EXCEPT ![n] = new]
        /\ asg' = [asg EXCEPT ![a] = Idle]
    BY <1>3, <2>2 DEF AssignUpdate
  <2>4. InOrder(new) /\ (new.has_played => match[n].has_played)
    <3>1. Assigning(asg[a], match) /\ InOrder(match[n])
      BY <1>i, <2>1 DEF EachInv
    <3>2. InOrder(asg[a].match)
      BY <2>1, <3>1 DEF Assigning, InOrder
    <3> QED BY <1>t, <2>1, <2>2, <3>1, <3>2, SavedAssignment DEF Assigning
  <2>5. match'[n] = new /\ \A m \in Matches \ {n} : match'[m] = match[m]
    BY <1>t, <2>1, <2>3
  <2>6. \A m \in Matches : InOrder(match'[m])
    BY <1>i, <2>4, <2>5 DEF EachInv
  <2>7. Assigning(asg'[a], match')
    BY <1>t, <2>3 DEF Assigning, Idle
  <2>8. ASSUME NEW r \in Registrars PROVE Registering(reg[r], match')
    <3>1. Registering(reg[r], match)
      BY <1>i DEF EachInv
    <3>2. reg[r].pc # "idle" => reg[r].id \in Matches
      BY <1>t DEF RegistrarState, Idle
    <3> QED BY <2>4, <2>5, <3>1, <3>2 DEF Registering
  <2>9. ASSUME NEW b \in Assigners PROVE Assigning(asg'[b], match')
    <3>1. CASE b # a
      <4>1. Assigning(asg[b], match)
        BY <1>i DEF EachInv
      <4>2. asg[b].pc # "idle" => asg[b].id \in Matches \ {n}
        BY <1>t, <2>1, <3>1 DEF OneOfEach, AssignmentsApart, AssignerState, Idle
      <4> QED BY <1>o, <2>5, <3>1, <4>1, <4>2 DEF Assigning
    <3> QED BY <2>7, <3>1
  <2> QED BY <1>r, <2>6, <2>8, <2>9, EachInvDef DEF EachInv
<1> QED BY <1>1, <1>2, <1>3 DEF AssignerNext

LEMMA EachStep ==
    ASSUME OneOfEach, TypeOK, OneOfEachInv, [Next]_vars
    PROVE  OneOfEachInv'
<1>1. CASE \E r \in Registrars : RegistrarNext(r) /\ UNCHANGED <<prd, wrk>>
  BY <1>1, EachRegistrar
<1>2. CASE \E a \in Assigners : AssignerNext(a) /\ UNCHANGED <<prd, wrk>>
  BY <1>2, EachAssigner
<1>3. CASE Crash
  <2>1. /\ match' = match
        /\ reg' = [r \in Registrars |-> Idle]
        /\ asg' = [a \in Assigners |-> Idle]
    BY <1>3 DEF Crash
  <2> QED BY <2>1, EachInvDef DEF EachInv, Registering, Assigning, Idle
<1>4. CASE UNCHANGED <<match, reg, asg>>
  BY <1>4, EachInvDef
<1> QED BY <1>1, <1>2, <1>3, <1>4, MatchesAside

LEMMA EachInvariant == Spec /\ []OneOfEach => [](TypeOK /\ OneOfEachInv)
<1>1. TypeOK /\ OneOfEachInv /\ OneOfEach /\ [Next]_vars => (TypeOK /\ OneOfEachInv)'
  BY EachStep, TypeStep
<1> QED BY TypeInit, EachInit, <1>1, PTL DEF Spec

\* With one registration and one assignment of a match at a time, it is never of
\* a team against itself while it is to be played: the side a request relies on
\* is still there when it saves, or the match has its result by then.
THEOREM TeamsKeptApart == Spec /\ []OneOfEach => []TeamsDifferUntilPlayed
<1>1. OneOfEachInv => TeamsDifferUntilPlayed
  BY DEF OneOfEachInv
<1> QED BY EachInvariant, <1>1, PTL

\* What it rests on: a registration is of a match without result, and an
\* assignment saves over the row it selected or over the result that came since.
THEOREM OneOfEachInductive == Spec /\ []OneOfEach => []OneOfEachInv
  BY EachInvariant, PTL

-----------------------------------------------------------------------------
(* Registrations apart, beside any number of assignments *)

\* A registration saved over a row without result leaves its whole result; an
\* assignment leaves the result of the row or none.
LEMMA SavedWholly ==
    ASSUME NEW e \in MatchRow, NEW s \in MatchRow, NEW row \in MatchRow,
           Whole(e), Whole(s), Whole(row)
    PROVE  /\ e.has_played /\ ~s.has_played => Whole(Saved(e, s, row))
           /\ ~e.has_played => /\ Whole(Saved(e, s, row))
                               /\ ~row.has_played => ~Saved(e, s, row).has_played
<1>1. ASSUME e.has_played, ~s.has_played PROVE Whole(Saved(e, s, row))
  BY <1>1 DEF Saved, MatchRow, Whole
<1>2. ASSUME ~e.has_played, s.has_played
      PROVE  Whole(Saved(e, s, row)) /\ ~Saved(e, s, row).has_played
  BY <1>2 DEF Saved, MatchRow, Whole
<1>3. ASSUME ~e.has_played, ~s.has_played
      PROVE  /\ Whole(Saved(e, s, row))
             /\ ~row.has_played => ~Saved(e, s, row).has_played
  BY <1>3 DEF Saved, MatchRow, Whole
<1> QED BY <1>1, <1>2, <1>3

LEMMA WholeInit == Init => WholeInv
<1> SUFFICES ASSUME Init PROVE WholeInv
  OBVIOUS
<1>1. ResultAllOrNothing
  BY DEF Init, StoreInit, ResultAllOrNothing, Whole
<1>2. /\ \A r \in Registrars : reg[r].pc = "idle"
      /\ \A a \in Assigners : asg[a].pc = "idle"
  BY DEF Init, MatchesInit, Idle
<1> QED BY <1>1, <1>2 DEF WholeInv, AwaitsSave

LEMMA WholeRegistrar ==
    ASSUME RegistrationsApart, TypeOK, WholeInv, NEW r \in Registrars, RegistrarNext(r)
    PROVE  WholeInv'
<1>t. /\ match \in [Matches -> MatchRow]
      /\ reg \in [Registrars -> RegistrarState]
  BY DEF TypeOK, StoreTypeOK, MatchesTypeOK
<1>a. asg' = asg /\ \A q \in Registrars \ {r} : reg'[q] = reg[q]
  BY <1>t DEF RegistrarNext, RegisterFind, RegisterSelect, RegisterUpdate, Enqueue, EnqueueFails
<1>1. CASE RegisterFind(r)
  <2>1. PICK n \in Matches, l \in Goals, v \in Goals :
           /\ ~match[n].has_played
           /\ reg' = [reg EXCEPT ![r] = [pc |-> "found", id |-> n, match |-> WithResult(match[n], l, v),
                                         seen |-> match[n]]]
    BY <1>1 DEF RegisterFind, Registrable
  <2>2. Whole(WithResult(match[n], l, v)) /\ WithResult(match[n], l, v).has_played
    BY <1>t, NullAssumption, StoreAssumption DEF WithResult, Whole, MatchRow
  <2>3. reg'[r] = [pc |-> "found", id |-> n, match |-> WithResult(match[n], l, v), seen |-> match[n]]
    BY <1>t, <2>1
  <2>4. match' = match
    BY <1>1 DEF RegisterFind, storeVars
  <2> QED BY <1>a, <2>1, <2>2, <2>3, <2>4 DEF WholeInv, ResultAllOrNothing, AwaitsSave, Whole
<1>2. CASE RegisterSelect(r)
  <2>1. /\ reg[r].pc = "found" /\ match' = match /\ reg[r].id \in Matches
        /\ reg'[r].id = reg[r].id /\ reg'[r].match = reg[r].match
        /\ reg'[r].seen = match[reg[r].id]
    BY <1>2, <1>t DEF RegisterSelect, storeVars, RegistrarState, Idle
  <2> QED BY <1>a, <2>1 DEF WholeInv, ResultAllOrNothing, AwaitsSave
<1>3. CASE RegisterUpdate(r)
  <2> DEFINE n == reg[r].id
  <2>1. /\ reg[r].pc = "selected" /\ n \in Matches
        /\ reg[r].match \in MatchRow /\ reg[r].seen \in MatchRow
    BY <1>3, <1>t DEF RegisterUpdate, RegistrarState, Idle
  <2>2. PICK new : new = Saved(reg[r].match, reg[r].seen, match[n])
    OBVIOUS
  <2>3. /\ match' = [match EXCEPT ![n] = new]
        /\ reg' = [reg EXCEPT ![r].pc = "saved"]
    BY <1>3, <2>2 DEF RegisterUpdate
  <2>4. Whole(new)
    BY <1>t, <2>1, <2>2, SavedWholly DEF WholeInv, AwaitsSave, ResultAllOrNothing
  <2>5. match'[n] = new /\ \A m \in Matches \ {n} : match'[m] = match[m]
    BY <1>t, <2>1, <2>3
  <2>6. ResultAllOrNothing'
    BY <2>4, <2>5 DEF WholeInv, ResultAllOrNothing, Whole
  <2>7. ASSUME NEW q \in Registrars, AwaitsSave(q)'
        PROVE  q # r /\ reg'[q] = reg[q] /\ match'[reg[q].id] = match[reg[q].id]
    <3>1. reg'[r].pc = "saved"
      BY <1>t, <2>3 DEF RegistrarState, Idle
    <3>2. q # r /\ reg'[q] = reg[q]
      BY <1>a, <2>7, <3>1 DEF AwaitsSave
    <3>3. reg[q].id \in Matches \ {n}
      BY <1>t, <2>1, <2>7, <3>2 DEF RegistrationsApart, AwaitsSave, RegistrarState, Idle
    <3> QED BY <2>5, <3>2, <3>3
  <2> QED BY <1>a, <2>6, <2>7 DEF WholeInv, AwaitsSave
<1>4. CASE Enqueue(r) \/ EnqueueFails(r)
  <2>1. match' = match /\ reg'[r] = Idle
    BY <1>4, <1>t DEF Enqueue, EnqueueFails
  <2> QED BY <1>a, <2>1 DEF WholeInv, ResultAllOrNothing, AwaitsSave, Idle
<1> QED BY <1>1, <1>2, <1>3, <1>4 DEF RegistrarNext

LEMMA WholeAssigner ==
    ASSUME TypeOK, WholeInv, NEW a \in Assigners, AssignerNext(a)
    PROVE  WholeInv'
<1>t. /\ match \in [Matches -> MatchRow]
      /\ reg \in [Registrars -> RegistrarState]
      /\ asg \in [Assigners -> AssignerState]
  BY DEF TypeOK, StoreTypeOK, MatchesTypeOK
<1>a. reg' = reg /\ \A b \in Assigners \ {a} : asg'[b] = asg[b]
  BY <1>t DEF AssignerNext, AssignFind, AssignSelect, AssignUpdate
<1>1. CASE AssignFind(a)
  <2>1. PICK n \in Matches, sides \in Sides, l \in Teams \cup {NULL}, v \in Teams \cup {NULL} :
           /\ Assignable(n, match[n])
           /\ asg' = [asg EXCEPT ![a] = [pc |-> "found", id |-> n,
                                         match |-> WithTeams(match[n], sides, l, v),
                                         seen |-> match[n]]]
    BY <1>1 DEF AssignFind
  <2>2. PICK next : next = WithTeams(match[n], sides, l, v)
    OBVIOUS
  <2>3. next.has_played = match[n].has_played /\ (Whole(match[n]) => Whole(next))
    BY <1>t, <2>2 DEF WithTeams, MatchRow, Whole
  <2>4. asg'[a] = [pc |-> "found", id |-> n, match |-> next, seen |-> match[n]]
    BY <1>t, <2>1, <2>2
  <2>5. match' = match
    BY <1>1 DEF AssignFind, storeVars
  <2>6. ~next.has_played /\ Whole(next)
    BY <2>1, <2>3 DEF WholeInv, ResultAllOrNothing, Assignable
  <2> QED BY <1>a, <2>4, <2>5, <2>6 DEF WholeInv, ResultAllOrNothing, AwaitsSave
<1>2. CASE AssignSelect(a)
  <2>1. /\ asg[a].pc = "found" /\ match' = match /\ asg[a].id \in Matches
        /\ asg'[a].match = asg[a].match /\ asg'[a].seen = match[asg[a].id]
    BY <1>2, <1>t DEF AssignSelect, storeVars, AssignerState, Idle
  <2> QED BY <1>a, <2>1 DEF WholeInv, ResultAllOrNothing, AwaitsSave
<1>3. CASE AssignUpdate(a)
  <2> DEFINE n == asg[a].id
  <2>1. /\ asg[a].pc = "selected" /\ n \in Matches
        /\ asg[a].match \in MatchRow /\ asg[a].seen \in MatchRow
    BY <1>3, <1>t DEF AssignUpdate, AssignerState, Idle
  <2>2. PICK new : new = Saved(asg[a].match, asg[a].seen, match[n])
    OBVIOUS
  <2>3. match' = [match EXCEPT ![n] = new] /\ asg'[a] = Idle
    BY <1>3, <1>t, <2>2 DEF AssignUpdate
  <2>4. Whole(new) /\ (~match[n].has_played => ~new.has_played)
    BY <1>t, <2>1, <2>2, SavedWholly DEF WholeInv, ResultAllOrNothing
  <2>5. match'[n] = new /\ \A m \in Matches \ {n} : match'[m] = match[m]
    BY <1>t, <2>1, <2>3
  <2>6. ResultAllOrNothing'
    BY <2>4, <2>5 DEF WholeInv, ResultAllOrNothing, Whole
  <2>7. ASSUME NEW r \in Registrars, AwaitsSave(r), ~match[reg[r].id].has_played
        PROVE  ~match'[reg[r].id].has_played
    <3>1. reg[r].id \in Matches
      BY <1>t, <2>7 DEF AwaitsSave, RegistrarState, Idle
    <3> QED BY <2>4, <2>5, <2>7, <3>1
  <2> QED BY <1>a, <2>3, <2>6, <2>7 DEF WholeInv, AwaitsSave, Idle
<1> QED BY <1>1, <1>2, <1>3 DEF AssignerNext

LEMMA WholeStep ==
    ASSUME RegistrationsApart, TypeOK, WholeInv, [Next]_vars
    PROVE  WholeInv'
<1>1. CASE \E r \in Registrars : RegistrarNext(r) /\ UNCHANGED <<prd, wrk>>
  BY <1>1, WholeRegistrar
<1>2. CASE \E a \in Assigners : AssignerNext(a) /\ UNCHANGED <<prd, wrk>>
  BY <1>2, WholeAssigner
<1>3. CASE Crash
  <2>1. /\ match' = match
        /\ reg' = [r \in Registrars |-> Idle]
        /\ asg' = [a \in Assigners |-> Idle]
    BY <1>3 DEF Crash
  <2> QED BY <2>1 DEF WholeInv, ResultAllOrNothing, AwaitsSave, Idle
<1>4. CASE UNCHANGED <<match, reg, asg>>
  BY <1>4 DEF WholeInv, ResultAllOrNothing, AwaitsSave
<1> QED BY <1>1, <1>2, <1>3, <1>4, MatchesAside

LEMMA WholeInvariant == Spec /\ []RegistrationsApart => [](TypeOK /\ WholeInv)
<1>1. TypeOK /\ WholeInv /\ RegistrationsApart /\ [Next]_vars => (TypeOK /\ WholeInv)'
  BY WholeStep, TypeStep
<1> QED BY TypeInit, WholeInit, <1>1, PTL DEF Spec

\* As long as no two registrations of a match race, a stale save of any number of
\* assignments takes its result back whole or leaves it: a match, of any phase,
\* never shows half a result.
THEOREM ResultsWhole == Spec /\ []RegistrationsApart => []ResultAllOrNothing
<1>1. WholeInv => ResultAllOrNothing
  BY DEF WholeInv
<1> QED BY WholeInvariant, <1>1, PTL

\* What it rests on: the row a registration selects has no result yet, and those
\* an assignment holds are whole.
THEOREM WholeInductive == Spec /\ []RegistrationsApart => []WholeInv
  BY WholeInvariant, PTL

-----------------------------------------------------------------------------
(* No result is forgotten: what the liveness of the pipeline rests on, for    *)
(* any races, as long as nothing has failed.                                 *)

\* A job that is active has its worker, and only it; one that is completed has
\* written its points; and no assignment brings a result of its own.
JobsAreKept ==
    /\ \A j \in JobIds :
           /\ job[j].state # "failed"
           /\ job[j].state = "active" => \E w \in Workers : Holds(w, j)
           /\ job[j].state = "completed" => job[j].credited > 0
    /\ \A w, x \in Workers : wrk[w].pc # "idle" /\ wrk[w].job = wrk[x].job => w = x
    /\ \A w \in Workers :
           /\ wrk[w].pc # "idle" => job[wrk[w].job].state = "active"
           /\ wrk[w].pc = "committed" => job[wrk[w].job].credited > 0
    /\ \A a \in Assigners : ~asg[a].match.has_played

KeptInv ==
    faults = 0 =>
        /\ JobsAreKept
        /\ \A m \in Matches : match[m].has_played =>
              \/ \E r \in Registrars : reg[r].pc = "saved" /\ reg[r].id = m
              \/ \E j \in JobIds : job[j].match_id = m /\ job[j].state # "unused"

LEMMA KeptInit == Init => KeptInv
<1> SUFFICES ASSUME Init PROVE KeptInv
  OBVIOUS
<1>1. \A j \in JobIds : job[j].state = "unused"
  BY DEF Init, StoreInit, NoJob
<1>2. \A w \in Workers : wrk[w].pc = "idle"
  BY DEF Init, ProcessorInit, Waiting
<1>3. \A a \in Assigners : ~asg[a].match.has_played
  BY DEF Init, MatchesInit, Idle, NoRow
<1>4. \A m \in Matches : ~match[m].has_played
  BY DEF Init, StoreInit
<1>5. JobsAreKept
  BY <1>1, <1>2, <1>3 DEF JobsAreKept
<1> QED BY <1>4, <1>5 DEF KeptInv

\* While nothing fails the count stays, so that no step had a failure before it.
LEMMA FaultsStay ==
    ASSUME TypeOK, [Next]_vars, faults' = 0
    PROVE  faults = 0
<1>1. faults \in Nat
  BY StoreAssumption DEF TypeOK, StoreTypeOK
<1>2. CASE UNCHANGED faults
  BY <1>2
<1>3. ASSUME NEW kind, Fault(kind) PROVE FALSE
  BY <1>1, <1>3 DEF Fault
<1>4. ASSUME NEW r \in Registrars, RegistrarNext(r) PROVE UNCHANGED faults
  BY <1>3, <1>4 DEF RegistrarNext, RegisterFind, RegisterSelect, RegisterUpdate, Enqueue,
     EnqueueFails, storeVars
<1>5. ASSUME NEW a \in Assigners, AssignerNext(a) PROVE UNCHANGED faults
  BY <1>5 DEF AssignerNext, AssignFind, AssignSelect, AssignUpdate, storeVars
<1>6. ASSUME NEW p \in Predictors, PredictorNext(p) PROVE UNCHANGED faults
  BY <1>6 DEF PredictorNext, CheckMatch, LoadPrediction, SelectPrediction, UpdatePrediction,
     InsertPrediction, InsertConflicts, WriteRow, storeVars
<1>7. ASSUME NEW w \in Workers, WorkerNext(w) PROVE UNCHANGED faults
  BY <1>3, <1>7 DEF WorkerNext, Take, Compute, Commit, Complete, JobFails, storeVars
<1>8. ASSUME StalledCheck PROVE UNCHANGED faults
  BY <1>8 DEF StalledCheck, RequeueStalled, FailStalled
<1>9. ~Crash
  BY <1>3 DEF Crash
<1> QED BY <1>2, <1>4, <1>5, <1>6, <1>7, <1>8, <1>9 DEF Next, KickOff, vars, storeVars

\* A registration writes a result and adds its job, for a match that then has one.
LEMMA KeptRegistrar ==
    ASSUME TypeOK, KeptInv, faults = 0, faults' = 0,
           NEW r \in Registrars, RegistrarNext(r), UNCHANGED <<prd, wrk>>
    PROVE  KeptInv'
<1>t. /\ reg \in [Registrars -> RegistrarState]
      /\ job \in [JobIds -> JobRow]
      /\ match \in [Matches -> MatchRow]
      /\ wrk \in [Workers -> WorkerState]
  BY DEF TypeOK, StoreTypeOK, MatchesTypeOK, ProcessorTypeOK
<1>u. UNCHANGED wrk
  OBVIOUS
<1>k. /\ JobsAreKept
      /\ \A m \in Matches : match[m].has_played =>
            \/ \E q \in Registrars : reg[q].pc = "saved" /\ reg[q].id = m
            \/ \E j \in JobIds : job[j].match_id = m /\ job[j].state # "unused"
  BY DEF KeptInv
<1>a. asg' = asg
  BY DEF RegistrarNext, RegisterFind, RegisterSelect, RegisterUpdate, Enqueue, EnqueueFails
<1>1. CASE RegisterFind(r) \/ RegisterSelect(r)
  <2>1. /\ UNCHANGED <<job, match>>
        /\ \A q \in Registrars : reg[q].pc = "saved" => reg'[q] = reg[q]
    BY <1>1, <1>t DEF RegisterFind, RegisterSelect, storeVars
  <2> QED BY <1>k, <1>a, <1>u, <2>1 DEF KeptInv, JobsAreKept, Holds
<1>2. CASE RegisterUpdate(r)
  <2>1. /\ UNCHANGED job
        /\ reg' = [reg EXCEPT ![r].pc = "saved"]
        /\ \A m \in Matches : m # reg[r].id => match'[m] = match[m]
    BY <1>2, <1>t DEF RegisterUpdate
  <2>2. \A q \in Registrars : reg[q].pc = "saved" => reg'[q].pc = "saved" /\ reg'[q].id = reg[q].id
    BY <1>t, <2>1
  <2>3. reg'[r].pc = "saved" /\ reg'[r].id = reg[r].id
    BY <1>t, <2>1
  <2> QED BY <1>k, <1>a, <1>u, <2>1, <2>2, <2>3 DEF KeptInv, JobsAreKept, Holds
<1>3. CASE Enqueue(r)
  <2>1. PICK j \in JobIds :
           /\ job[j].state = "unused"
           /\ job' = [job EXCEPT ![j] = [state |-> "wait", match_id |-> reg[r].id,
                                         local_result |-> reg[r].match.local_result,
                                         visiting_result |-> reg[r].match.visiting_result,
                                         stalled |-> 0, credited |-> 0]]
    BY <1>3 DEF Enqueue, AddJob, NextId
  <2>2. /\ job'[j].state = "wait" /\ job'[j].match_id = reg[r].id
        /\ \A i \in JobIds : i # j => job'[i] = job[i]
    BY <1>t, <2>1
  <2>3. /\ UNCHANGED match
        /\ \A q \in Registrars : q # r => reg'[q] = reg[q]
    BY <1>3, <1>t DEF Enqueue
  <2>4. \A w \in Workers : wrk[w].pc # "idle" => wrk[w].job \in JobIds /\ wrk[w].job # j
    BY <1>t, <1>k, <2>1 DEF JobsAreKept, WorkerState, Waiting
  <2>5. JobsAreKept'
    BY <1>k, <1>a, <1>u, <2>2, <2>4 DEF JobsAreKept, Holds
  <2>6. ASSUME NEW m \in Matches, match'[m].has_played
        PROVE  \/ \E q \in Registrars : reg'[q].pc = "saved" /\ reg'[q].id = m
               \/ \E i \in JobIds : job'[i].match_id = m /\ job'[i].state # "unused"
    <3>1. CASE m = reg[r].id
      BY <2>2, <3>1
    <3>2. CASE m # reg[r].id
      BY <1>k, <2>1, <2>2, <2>3, <2>6, <3>2
    <3> QED BY <3>1, <3>2
  <2> QED BY <2>5, <2>6 DEF KeptInv
<1>4. CASE EnqueueFails(r)
  BY <1>4 DEF EnqueueFails, Fault
<1> QED BY <1>1, <1>2, <1>3, <1>4 DEF RegistrarNext

\* An assignment may take a result back, or write the row as it is, but brings none.
LEMMA KeptAssigner ==
    ASSUME TypeOK, KeptInv, faults = 0,
           NEW a \in Assigners, AssignerNext(a), UNCHANGED <<prd, wrk>>
    PROVE  KeptInv'
<1>t. /\ asg \in [Assigners -> AssignerState]
      /\ match \in [Matches -> MatchRow]
  BY DEF TypeOK, StoreTypeOK, MatchesTypeOK
<1>k. /\ JobsAreKept
      /\ \A m \in Matches : match[m].has_played =>
            \/ \E q \in Registrars : reg[q].pc = "saved" /\ reg[q].id = m
            \/ \E j \in JobIds : job[j].match_id = m /\ job[j].state # "unused"
  BY DEF KeptInv
<1>u. UNCHANGED <<job, reg, wrk>>
  BY DEF AssignerNext, AssignFind, AssignSelect, AssignUpdate, storeVars
<1>1. ASSUME NEW b \in Assigners PROVE ~asg'[b].match.has_played
  <2>1. ~asg[b].match.has_played
    BY <1>k DEF JobsAreKept
  <2>2. CASE AssignFind(a)
    <3>1. PICK m \in Matches, sides \in Sides, local \in Teams \cup {NULL},
               visiting \in Teams \cup {NULL} :
             /\ ~match[m].has_played
             /\ asg' = [asg EXCEPT ![a] = [pc |-> "found", id |-> m,
                                           match |-> WithTeams(match[m], sides, local, visiting),
                                           seen |-> match[m]]]
      BY <2>2 DEF AssignFind, Assignable
    <3>2. ~WithTeams(match[m], sides, local, visiting).has_played
      BY <1>t, <3>1 DEF WithTeams, MatchRow
    <3> QED BY <1>t, <2>1, <3>1, <3>2
  <2>3. CASE AssignSelect(a)
    BY <1>t, <2>1, <2>3 DEF AssignSelect, AssignerState, Idle
  <2>4. CASE AssignUpdate(a)
    BY <1>t, <2>1, <2>4 DEF AssignUpdate, Idle, NoRow
  <2> QED BY <2>2, <2>3, <2>4 DEF AssignerNext
<1>2. ASSUME NEW m \in Matches, match'[m].has_played PROVE match[m].has_played
  <2>1. CASE UNCHANGED match
    BY <1>2, <2>1
  <2>2. CASE AssignUpdate(a)
    <3>1. asg[a] \in AssignerState /\ asg[a] # Idle
      BY <1>t, <2>2 DEF AssignUpdate, Idle
    <3>2. asg[a].id \in Matches /\ asg[a].match \in MatchRow /\ asg[a].seen \in MatchRow
      BY <3>1 DEF AssignerState
    <3>3. ~asg[a].match.has_played
      BY <1>k DEF JobsAreKept
    <3>4. Saved(asg[a].match, asg[a].seen, match[asg[a].id]).has_played
             => match[asg[a].id].has_played
      BY <1>t, <3>2, <3>3 DEF Saved, MatchRow
    <3> QED BY <1>2, <1>t, <2>2, <3>2, <3>4 DEF AssignUpdate
  <2> QED BY <2>1, <2>2 DEF AssignerNext, AssignFind, AssignSelect, storeVars
<1> QED BY <1>k, <1>u, <1>1, <1>2 DEF KeptInv, JobsAreKept, Holds

\* A worker takes a job nobody holds and lets it go with its points written.
LEMMA KeptWorker ==
    ASSUME TypeOK, KeptInv, faults = 0, faults' = 0,
           NEW w \in Workers, WorkerNext(w), UNCHANGED <<reg, asg, prd>>
    PROVE  KeptInv'
<1>t. /\ job \in [JobIds -> JobRow]
      /\ match \in [Matches -> MatchRow]
      /\ wrk \in [Workers -> WorkerState]
  BY DEF TypeOK, StoreTypeOK, ProcessorTypeOK
<1>k. /\ JobsAreKept
      /\ \A m \in Matches : match[m].has_played =>
            \/ \E q \in Registrars : reg[q].pc = "saved" /\ reg[q].id = m
            \/ \E j \in JobIds : job[j].match_id = m /\ job[j].state # "unused"
  BY DEF KeptInv
<1>m. UNCHANGED <<match, reg, asg>>
  BY DEF WorkerNext, Take, Compute, Commit, Complete, JobFails, Finish, storeVars
<1>h. ASSUME NEW x \in Workers, wrk[x].pc # "idle"
      PROVE  wrk[x].job \in JobIds /\ job[wrk[x].job].state = "active"
  BY <1>t, <1>h, <1>k DEF JobsAreKept, WorkerState, Waiting
<1>i. ASSUME NEW x \in Workers, wrk[x].job \in JobIds PROVE wrk[x].pc # "idle"
  BY <1>t, <1>i DEF WorkerState, Waiting, JobIds
<1>j. ASSUME JobsAreKept',
             \A j \in JobIds : /\ job'[j].match_id = job[j].match_id
                               /\ job[j].state # "unused" => job'[j].state # "unused"
      PROVE  KeptInv'
  BY <1>k, <1>m, <1>j DEF KeptInv
<1>1. CASE Take(w)
  <2>1. PICK j \in JobIds :
           /\ job[j].state = "wait"
           /\ job' = [job EXCEPT ![j].state = "active"]
           /\ wrk' = [wrk EXCEPT ![w] = [pc |-> "taken", job |-> j, points |-> NotFound]]
    BY <1>1 DEF Take
  <2>2. /\ wrk[w].pc = "idle" /\ wrk'[w].pc = "taken" /\ wrk'[w].job = j
        /\ \A x \in Workers : x # w => wrk'[x] = wrk[x]
    BY <1>1, <1>t, <2>1 DEF Take
  <2>3. /\ job'[j].state = "active"
        /\ \A i \in JobIds : /\ i # j => job'[i] = job[i]
                             /\ job'[i].match_id = job[i].match_id
                             /\ job'[i].credited = job[i].credited
    BY <1>t, <2>1 DEF JobRow
  <2>4. \A x \in Workers : x # w /\ wrk[x].pc # "idle" => wrk[x].job # j
    BY <1>h, <2>1
  <2>5. JobsAreKept'
    <3>1. \A i \in JobIds : /\ job'[i].state # "failed"
                            /\ job'[i].state = "completed" => job'[i].credited > 0
      BY <1>k, <2>3 DEF JobsAreKept
    <3>2. \A i \in JobIds : job'[i].state = "active" => \E x \in Workers : Holds(x, i)'
      BY <1>k, <2>2, <2>3 DEF JobsAreKept, Holds
    <3>3. \A x, y \in Workers : wrk'[x].pc # "idle" /\ wrk'[x].job = wrk'[y].job => x = y
      <4> SUFFICES ASSUME NEW x \in Workers, NEW y \in Workers, x # y,
                          wrk'[x].pc # "idle", wrk'[x].job = wrk'[y].job
                   PROVE  FALSE
        OBVIOUS
      <4>1. CASE x = w
        BY <1>i, <2>1, <2>2, <2>4, <4>1
      <4>2. CASE y = w
        BY <1>i, <2>1, <2>2, <2>4, <4>2
      <4>3. CASE x # w /\ y # w
        BY <1>k, <2>2, <4>3 DEF JobsAreKept
      <4> QED BY <4>1, <4>2, <4>3
    <3>4. \A x \in Workers : /\ wrk'[x].pc # "idle" => job'[wrk'[x].job].state = "active"
                             /\ wrk'[x].pc = "committed" => job'[wrk'[x].job].credited > 0
      BY <1>h, <1>k, <2>2, <2>3, <2>4 DEF JobsAreKept
    <3> QED BY <1>k, <1>m, <3>1, <3>2, <3>3, <3>4 DEF JobsAreKept
  <2> QED BY <1>j, <2>3, <2>5
<1>2. CASE Compute(w)
  <2>1. /\ UNCHANGED job
        /\ \A x \in Workers : /\ wrk'[x].job = wrk[x].job
                              /\ wrk'[x].pc = IF x = w THEN "computed" ELSE wrk[x].pc
        /\ wrk[w].pc = "taken"
    BY <1>2, <1>t DEF Compute, storeVars, WorkerState, Waiting
  <2>2. JobsAreKept'
    BY <1>k, <1>m, <2>1 DEF JobsAreKept, Holds
  <2> QED BY <1>j, <2>1, <2>2
<1>3. CASE Commit(w)
  <2>1. /\ wrk[w].pc = "computed"
        /\ job' = [job EXCEPT ![wrk[w].job].credited = @ + 1]
        /\ wrk' = [wrk EXCEPT ![w].pc = "committed", ![w].points = NotFound]
    BY <1>3 DEF Commit
  <2>2. \A x \in Workers : /\ wrk'[x].job = wrk[x].job
                           /\ wrk'[x].pc = IF x = w THEN "committed" ELSE wrk[x].pc
    BY <1>t, <2>1 DEF WorkerState, Waiting
  <2>3. /\ \A j \in JobIds : /\ job'[j].state = job[j].state
                             /\ job'[j].match_id = job[j].match_id
                             /\ job[j].credited > 0 => job'[j].credited > 0
        /\ job'[wrk[w].job].credited > 0
    <3>1. \A j \in JobIds : job[j].credited \in Nat
      BY <1>t DEF JobRow
    <3> QED BY <1>h, <1>t, <2>1, <3>1 DEF JobRow
  <2>4. JobsAreKept'
    <3>1. \A j \in JobIds : /\ job'[j].state # "failed"
                            /\ job'[j].state = "completed" => job'[j].credited > 0
      BY <1>k, <2>3 DEF JobsAreKept
    <3>2. ASSUME NEW j \in JobIds, job'[j].state = "active"
          PROVE  \E x \in Workers : Holds(x, j)'
      <4>1. PICK x \in Workers : Holds(x, j)
        BY <1>k, <2>3, <3>2 DEF JobsAreKept
      <4> QED BY <2>2, <4>1 DEF Holds
    <3>3. \A x, y \in Workers : wrk'[x].pc # "idle" /\ wrk'[x].job = wrk'[y].job => x = y
      BY <1>k, <2>1, <2>2 DEF JobsAreKept
    <3>4. \A x \in Workers : /\ wrk'[x].pc # "idle" => job'[wrk'[x].job].state = "active"
                             /\ wrk'[x].pc = "committed" => job'[wrk'[x].job].credited > 0
      <4> SUFFICES ASSUME NEW x \in Workers, wrk'[x].pc # "idle"
                   PROVE  /\ job'[wrk'[x].job].state = "active"
                          /\ wrk'[x].pc = "committed" => job'[wrk'[x].job].credited > 0
        OBVIOUS
      <4>1. wrk[x].job \in JobIds /\ job[wrk[x].job].state = "active"
        BY <1>h, <2>1, <2>2
      <4> QED BY <1>k, <2>2, <2>3, <4>1 DEF JobsAreKept
    <3> QED BY <1>k, <1>m, <3>1, <3>2, <3>3, <3>4 DEF JobsAreKept
  <2> QED BY <1>j, <2>3, <2>4
<1>4. CASE Complete(w)
  <2>1. /\ wrk[w].pc = "committed"
        /\ job' = [job EXCEPT ![wrk[w].job].state = "completed"]
        /\ wrk' = [wrk EXCEPT ![w] = Waiting]
    BY <1>4 DEF Complete, Finish
  <2>2. /\ wrk'[w].pc = "idle"
        /\ \A x \in Workers : x # w => wrk'[x] = wrk[x]
    BY <1>t, <2>1 DEF Waiting
  <2>3. /\ job'[wrk[w].job].state = "completed"
        /\ \A j \in JobIds : /\ j # wrk[w].job => job'[j] = job[j]
                             /\ job'[j].match_id = job[j].match_id
                             /\ job'[j].credited = job[j].credited
    BY <1>h, <1>t, <2>1 DEF JobRow
  <2>4. \A x \in Workers : x # w /\ wrk[x].pc # "idle" => wrk[x].job # wrk[w].job
    BY <1>k, <2>1 DEF JobsAreKept
  <2>5. job[wrk[w].job].credited > 0
    BY <1>k, <2>1 DEF JobsAreKept
  <2>6. JobsAreKept'
    <3>1. \A j \in JobIds : /\ job'[j].state # "failed"
                            /\ job'[j].state = "completed" => job'[j].credited > 0
      BY <1>k, <2>3, <2>5 DEF JobsAreKept
    <3>2. ASSUME NEW j \in JobIds, job'[j].state = "active"
          PROVE  \E x \in Workers : Holds(x, j)'
      <4>1. j # wrk[w].job /\ job[j].state = "active"
        BY <2>3, <3>2
      <4>2. PICK x \in Workers : Holds(x, j)
        BY <1>k, <4>1 DEF JobsAreKept
      <4> QED BY <2>2, <4>1, <4>2 DEF Holds
    <3>3. \A x, y \in Workers : wrk'[x].pc # "idle" /\ wrk'[x].job = wrk'[y].job => x = y
      <4> SUFFICES ASSUME NEW x \in Workers, NEW y \in Workers, x # y,
                          wrk'[x].pc # "idle", wrk'[x].job = wrk'[y].job
                   PROVE  FALSE
        OBVIOUS
      <4>1. x # w /\ wrk[x].pc # "idle" /\ wrk'[x].job = wrk[x].job
        BY <2>2
      <4>2. wrk[x].job \in JobIds
        BY <1>h, <4>1
      <4>3. wrk'[w] = Waiting
        BY <1>t, <2>1
      <4>4. y # w
        <5>1. 0 \notin JobIds
          BY StoreAssumption DEF JobIds
        <5>2. wrk'[w].job = 0
          BY <4>3 DEF Waiting
        <5> QED BY <4>1, <4>2, <5>1, <5>2
      <4>5. wrk'[y] = wrk[y]
        BY <2>2, <4>4
      <4> QED BY <1>k, <4>1, <4>5 DEF JobsAreKept
    <3>4. \A x \in Workers : /\ wrk'[x].pc # "idle" => job'[wrk'[x].job].state = "active"
                             /\ wrk'[x].pc = "committed" => job'[wrk'[x].job].credited > 0
      BY <1>h, <1>k, <2>2, <2>3, <2>4 DEF JobsAreKept
    <3> QED BY <1>k, <1>m, <3>1, <3>2, <3>3, <3>4 DEF JobsAreKept
  <2> QED BY <1>j, <2>3, <2>6
<1>5. CASE JobFails(w)
  BY <1>5 DEF JobFails, Fault
<1> QED BY <1>1, <1>2, <1>3, <1>4, <1>5 DEF WorkerNext

\* Where nothing fails BullMQ finds no stalled job.
LEMMA NothingStalled ==
    ASSUME KeptInv, faults = 0
    PROVE  ~StalledCheck
  BY DEF KeptInv, JobsAreKept, Holds, StalledCheck, RequeueStalled, FailStalled, Stalled

LEMMA KeptStep == TypeOK /\ KeptInv /\ [Next]_vars => KeptInv'
<1> SUFFICES ASSUME TypeOK, KeptInv, [Next]_vars PROVE KeptInv'
  OBVIOUS
<1>1. CASE faults' # 0
  BY <1>1 DEF KeptInv
<1>2. CASE faults' = 0
  <2>1. faults = 0
    BY <1>2, FaultsStay
  <2>2. CASE UNCHANGED <<match, job, reg, asg, wrk>>
    BY <2>1, <2>2 DEF KeptInv, JobsAreKept, Holds
  <2>3. ASSUME NEW p \in Predictors, PredictorNext(p), UNCHANGED <<reg, asg, wrk>>
        PROVE  UNCHANGED <<match, job, reg, asg, wrk>>
    BY <2>3 DEF PredictorNext, CheckMatch, LoadPrediction, SelectPrediction, UpdatePrediction,
       InsertPrediction, InsertConflicts, WriteRow, storeVars
  <2>4. ~Crash
    BY <1>2, StoreAssumption DEF Crash, Fault, TypeOK, StoreTypeOK
  <2> QED BY <1>2, <2>1, <2>2, <2>3, <2>4, KeptRegistrar, KeptAssigner, KeptWorker, NothingStalled
       DEF Next, KickOff, vars, storeVars
<1> QED BY <1>1, <1>2

LEMMA KeptInvariant == Spec => [](TypeOK /\ KeptInv)
  BY TypeInit, TypeStep, KeptInit, KeptStep, PTL DEF Spec

\* The worker of an active job lets go of it only with its points written.
LEMMA KeptIsOnItsWay ==
    ASSUME TypeOK, KeptInv
    PROVE  NothingForgotten
<1> SUFFICES ASSUME faults = 0, NEW m \in Matches, match[m].has_played PROVE OnItsWay(m)
  BY DEF NothingForgotten
<1>1. CASE \E r \in Registrars : reg[r].pc = "saved" /\ reg[r].id = m
  BY <1>1 DEF OnItsWay
<1>2. ASSUME NEW j \in JobIds, job[j].match_id = m, job[j].state # "unused"
      PROVE  OnItsWay(m)
  <2>1. job[j].state \in {"wait", "active", "completed", "failed"}
    BY <1>2 DEF TypeOK, StoreTypeOK, JobRow
  <2> QED BY <1>2, <2>1 DEF KeptInv, JobsAreKept, OnItsWay
<1> QED BY <1>1, <1>2 DEF KeptInv

\* While nothing fails no result is forgotten, however many admins race for one
\* match: a match that shows a result has its job still to be added, waiting, at
\* work or done.  (A failed enqueue is what the code never makes up for.)
THEOREM NoneForgotten == Spec => []NothingForgotten
  BY KeptInvariant, KeptIsOnItsWay, PTL
=============================================================================
