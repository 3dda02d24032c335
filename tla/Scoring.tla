------------------------------ MODULE Scoring ------------------------------
(***************************************************************************)
(* The points a prediction earns: matches/scoring.ts, a pure function of   *)
(* the predicted and the real goals of one match.                          *)
(***************************************************************************)
EXTENDS Integers

CONSTANT NULL   \* the JavaScript null and the SQL NULL
ASSUME NullAssumption == NULL \notin Int

Sign(n) == IF n > 0 THEN 1 ELSE IF n < 0 THEN -1 ELSE 0

SameOutcome(predLocal, predVisitor, realLocal, realVisitor) ==
    Sign(predLocal - predVisitor) = Sign(realLocal - realVisitor)

IsExact(predLocal, predVisitor, realLocal, realVisitor) ==
    predLocal = realLocal /\ predVisitor = realVisitor

BothDraws(predLocal, predVisitor, realLocal, realVisitor) ==
    predLocal = predVisitor /\ realLocal = realVisitor

\* MUTANT of DrawBonus: pays the bonus of a draw on top of the exact score.
DrawBonusAlways(predLocal, predVisitor, realLocal, realVisitor) ==
    IF BothDraws(predLocal, predVisitor, realLocal, realVisitor) THEN 1 ELSE 0

DrawBonus(predLocal, predVisitor, realLocal, realVisitor) ==
    IF /\ BothDraws(predLocal, predVisitor, realLocal, realVisitor)
       /\ ~IsExact(predLocal, predVisitor, realLocal, realVisitor)
    THEN 1 ELSE 0

NoPoints ==
    [resultPoints |-> 0, localScorePoints |-> 0, visitorScorePoints |-> 0,
     exactScoreBonus |-> 0, drawBonus |-> 0, total |-> 0]

CalculatePoints(predLocal, predVisitor, realLocal, realVisitor) ==
    IF predLocal = NULL \/ predVisitor = NULL THEN NoPoints ELSE
    LET result == IF SameOutcome(predLocal, predVisitor, realLocal, realVisitor) THEN 2 ELSE 0
        locals == IF predLocal = realLocal THEN 1 ELSE 0
        visitors == IF predVisitor = realVisitor THEN 1 ELSE 0
        exact == IF IsExact(predLocal, predVisitor, realLocal, realVisitor) THEN 3 ELSE 0
        draw == DrawBonus(predLocal, predVisitor, realLocal, realVisitor)
    IN [resultPoints |-> result, localScorePoints |-> locals, visitorScorePoints |-> visitors,
        exactScoreBonus |-> exact, drawBonus |-> draw,
        total |-> result + locals + visitors + exact + draw]

PointsTotal(predLocal, predVisitor, realLocal, realVisitor) ==
    CalculatePoints(predLocal, predVisitor, realLocal, realVisitor).total

-----------------------------------------------------------------------------
(* The same points in SQL, as seed-mass-users.ts computes them. *)

\* MUTANT of MassDraw: without the AND NOT that leaves the exact score out.
MassDrawOrExact(predLocal, predVisitor, realLocal, realVisitor) ==
    predLocal = predVisitor /\ realLocal = realVisitor

MassDraw(predLocal, predVisitor, realLocal, realVisitor) ==
    /\ predLocal = predVisitor /\ realLocal = realVisitor
    /\ ~(predLocal = realLocal /\ predVisitor = realVisitor)

\* Its WHERE leaves a row without both goals as it was inserted, with no points.
MassTotal(predLocal, predVisitor, realLocal, realVisitor) ==
    LET when(condition, points) == IF condition THEN points ELSE 0
    IN IF NULL \in {predLocal, predVisitor} THEN 0
       ELSE when(Sign(predLocal - predVisitor) = Sign(realLocal - realVisitor), 2)
            + when(predLocal = realLocal, 1)
            + when(predVisitor = realVisitor, 1)
            + when(predLocal = realLocal /\ predVisitor = realVisitor, 3)
            + when(MassDraw(predLocal, predVisitor, realLocal, realVisitor), 1)

-----------------------------------------------------------------------------
(* The same table, as a player reads it: what each kind of prediction earns. *)

\* Goals the prediction got right, 0 to 2.
GoalsRight(predLocal, predVisitor, realLocal, realVisitor) ==
    (IF predLocal = realLocal THEN 1 ELSE 0) + (IF predVisitor = realVisitor THEN 1 ELSE 0)

\* Who wins: "local", "visitor" or nobody.
Winner(local, visitor) ==
    IF local > visitor THEN "local" ELSE IF visitor > local THEN "visitor" ELSE "draw"

ReferencePoints(predLocal, predVisitor, realLocal, realVisitor) ==
    LET right == GoalsRight(predLocal, predVisitor, realLocal, realVisitor)
        outcome == Winner(realLocal, realVisitor)
    IN IF predLocal = NULL \/ predVisitor = NULL THEN 0
       ELSE IF right = 2 THEN 7
       ELSE IF Winner(predLocal, predVisitor) # outcome THEN right
       ELSE IF outcome = "draw" THEN 3
       ELSE 2 + right
=============================================================================
