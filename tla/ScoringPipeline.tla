-------------------------- MODULE ScoringPipeline --------------------------
(***************************************************************************)
(* The core of the game: players predict, an admin registers the result of *)
(* a match (and assigns the teams of knockout matches), the scoring worker *)
(* turns the result into points.  Requests and worker interleave at every  *)
(* await; the process that hosts them all may crash and restart.           *)
(***************************************************************************)
EXTENDS MatchesService, PredictionsService, ScoreProcessor, FiniteSetsExt

vars == <<storeVars, reg, asg, prd, wrk>>

Init ==
    /\ StoreInit
    /\ MatchesInit
    /\ PredictionsInit
    /\ ProcessorInit

\* match_date passes.
KickOff(m) ==
    /\ ~started[m]
    /\ started' = [started EXCEPT ![m] = TRUE]
    /\ UNCHANGED <<match, prediction, score, job, late, faults, reg, asg, prd, wrk>>

\* The process dies: its requests are gone, its worker forgets the job, which
\* stays active in Redis.  What was written stays written.
Crash ==
    /\ Fault("crash")
    /\ reg' = [r \in Registrars |-> Idle]
    /\ asg' = [a \in Assigners |-> Idle]
    /\ prd' = [p \in Predictors |-> NoRequest]
    /\ wrk' = [w \in Workers |-> Waiting]
    /\ UNCHANGED <<match, prediction, score, job, started, late>>

Next ==
    \/ \E r \in Registrars : RegistrarNext(r) /\ UNCHANGED <<prd, wrk>>
    \/ \E a \in Assigners : AssignerNext(a) /\ UNCHANGED <<prd, wrk>>
    \/ \E p \in Predictors : PredictorNext(p) /\ UNCHANGED <<reg, asg, wrk>>
    \/ \E w \in Workers : WorkerNext(w) /\ UNCHANGED <<reg, asg, prd>>
    \/ StalledCheck /\ UNCHANGED <<reg, asg, prd>>
    \/ \E m \in Matches : KickOff(m)
    \/ Crash

Spec == Init /\ [][Next]_vars

\* A handler that has begun runs on, the worker keeps taking jobs, BullMQ keeps
\* checking for stalled ones; nobody has to predict, register or assign, and
\* nothing has to fail.
Fairness ==
    /\ \A r \in Registrars :
           WF_vars((RegisterSelect(r) \/ RegisterUpdate(r) \/ Enqueue(r)) /\ UNCHANGED <<prd, wrk>>)
    /\ \A w \in Workers :
           WF_vars((Take(w) \/ Compute(w) \/ Commit(w) \/ Complete(w)) /\ UNCHANGED <<reg, asg, prd>>)
    /\ WF_vars(StalledCheck /\ UNCHANGED <<reg, asg, prd>>)

FairSpec == Spec /\ Fairness

-----------------------------------------------------------------------------
TypeOK ==
    /\ StoreTypeOK
    /\ MatchesTypeOK
    /\ PredictionsTypeOK
    /\ ProcessorTypeOK

Played == {m \in Matches : match[m].has_played}

\* A job of the match has written its points.
Scored(m) == \E j \in JobIds : job[j].match_id = m /\ job[j].credited > 0

\* No job was redelivered after it had written its points.
CreditedOnce == \A j \in JobIds : job[j].credited <= 1

PointsOf(u) == MapThenSumSet(LAMBDA m : prediction[u][m].points, Matches)

NeverLate(u) == \A m \in Matches : ~late[u][m]

\* No match is worth more than 7 points to anybody (src/README.md "max 7
\* pts/partido"): users.score stays within 7 for each match with a result,
\* unless a crash has its points written twice.
ScoreWithinRules ==
    CreditedOnce => \A u \in Users : score[u] <= 7 * Cardinality(Played)

\* users.score is kept by increments, user_matches.points by assignment; the
\* two agree for every player none of whose saves came after a result, as long
\* as every job wrote its points once.
ScoreIsSumOfPoints ==
    CreditedOnce => \A u \in Users : NeverLate(u) => score[u] = PointsOf(u)

\* Once a match is scored every prediction of it that was saved in time holds
\* the points of the rules, for the result the match shows.
PointsFollowRules ==
    \A u \in Users, m \in Matches :
        Scored(m) /\ prediction[u][m].stored /\ ~late[u][m] =>
            prediction[u][m].points =
                PointsTotal(prediction[u][m].local_score, prediction[u][m].visitor_score,
                            match[m].local_result, match[m].visiting_result)

\* The result of a match is scored by one job only (updateResult refuses a
\* match that has its result).
OneJobPerMatch ==
    \A i, j \in JobIds :
        job[i].state # "unused" /\ job[i].match_id = job[j].match_id => i = j

Whole(row) == /\ row.has_played <=> row.local_result # NULL
              /\ row.has_played <=> row.visiting_result # NULL

\* A match has both goals of its result, or none and is not played: the saves of
\* a registration and of assignments write different columns and never leave half
\* a result.  (Two registrations that race beside an assignment of a knockout
\* match may.)
ResultAllOrNothing == \A m \in Matches : Whole(match[m])

\* A registered result is never changed nor withdrawn ("El resultado de este
\* partido ya fue registrado", matches.service.ts).
ResultIsFinal ==
    [][\A m \in Matches : match[m].has_played =>
           /\ match'[m].has_played
           /\ match'[m].local_result = match[m].local_result
           /\ match'[m].visiting_result = match[m].visiting_result]_vars

\* A group match keeps its teams, and once played stays played, however many
\* admins work at the same time: assignTeams refuses the group phase.
GroupMatchStands ==
    [][\A m \in Matches \ Knockout :
           /\ match'[m].local_team_id = match[m].local_team_id
           /\ match'[m].visiting_team_id = match[m].visiting_team_id
           /\ match[m].has_played => match'[m].has_played]_vars

\* A job that is redelivered after a crash may add its points again, but once
\* at most: BullMQ puts a stalled job back MaxStalledCount times.
RedeliveryIsBounded ==
    \A u \in Users : score[u] <= 7 * (1 + MaxStalledCount) * Cardinality(Played)

\* "No se pueden modificar predicciones de un partido ya jugado"
\* (users.service.ts updatePrediction): the goals of a prediction do not change
\* once its match has a result.
PlayedPredictionsFrozen ==
    [][\A u \in Users, m \in Matches : match[m].has_played =>
           /\ prediction'[u][m].local_score = prediction[u][m].local_score
           /\ prediction'[u][m].visitor_score = prediction[u][m].visitor_score]_vars

\* "Los equipos local y visitante no pueden ser el mismo" (matches.service.ts
\* assignTeams): with one request registering and one assigning it, no match to be
\* played is of a team against itself, although a request that names one side
\* relies on the other it read before.  (A registration saves the teams it read,
\* so a played one may be.)
TeamsDifferUntilPlayed ==
    \A m \in Matches :
        ~match[m].has_played /\ match[m].local_team_id = match[m].visiting_team_id =>
            match[m].local_team_id = NULL

\* The worker has taken the job and not let go of it.
Holds(w, j) == wrk[w].pc # "idle" /\ wrk[w].job = j

\* A registration has written the result and has its job still to add, or a job of
\* it waits, is at work or has written its points.
OnItsWay(m) ==
    \/ \E r \in Registrars : reg[r].pc = "saved" /\ reg[r].id = m
    \/ \E j \in JobIds :
           /\ job[j].match_id = m
           /\ \/ job[j].state = "wait"
              \/ \E w \in Workers : Holds(w, j)
              \/ job[j].credited > 0

\* While nothing fails no result is forgotten, whoever registers and assigns at the
\* same time: at every moment something is left that scores a match with a result
\* (updateResult saves first and enqueues after; the worker keeps what it takes).
NothingForgotten ==
    faults = 0 => \A m \in Matches : match[m].has_played => OnItsWay(m)

\* A registered result is scored (updateResult enqueues the job, the worker runs
\* it), unless something failed: then the code has nothing that tries again.
RegisteredIsScored == \A m \in Matches : match[m].has_played ~> (Scored(m) \/ faults > 0)

\* Every job ends, completed or failed, whatever crashes and errors it meets:
\* none is left active without a worker, none waits for ever.
JobsEnd == \A j \in JobIds : job[j].state # "unused" ~> job[j].state \in {"completed", "failed"}

-----------------------------------------------------------------------------
(* The pipeline implements the scoreboard: a player stays on it until one of  *)
(* his saves comes after a result, or a crash has points written twice.       *)

Board ==
    [m \in Matches |->
        [stage |-> IF Scored(m) THEN "scored" ELSE IF match[m].has_played THEN "closed" ELSE "open",
         local |-> match[m].local_result, visiting |-> match[m].visiting_result]]

\* A missing row is a guess not made.
GuessOf(row) == IF row.stored THEN <<row.local_score, row.visitor_score>> ELSE <<NULL, NULL>>

Players ==
    [u \in Users |->
        IF CreditedOnce /\ NeverLate(u)
        THEN [guess |-> [m \in Matches |-> GuessOf(prediction[u][m])], standing |-> score[u]]
        ELSE [off |-> TRUE]]

SB == INSTANCE Scoreboard WITH board <- Board, player <- Players

\* Predicting, registering and scoring, with everything that happens in between
\* and all that fails, is to the players the scoreboard: guesses change while
\* their match is open only, a result comes once, and its points reach every
\* standing in one step.
KeepsScoreboard == SB!Spec

=============================================================================
