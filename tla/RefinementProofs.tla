-------------------------- MODULE RefinementProofs --------------------------
(***************************************************************************)
(* As long as requests stay apart the pipeline implements Scoreboard:      *)
(* every step of a handler, of the worker or of the queue, every failure   *)
(* and every crash is a step of the scoreboard, or none.  And the standings *)
(* add up: scores are sums of points, and bounded by the rules.            *)
(***************************************************************************)
EXTENDS ResultsProofs

-----------------------------------------------------------------------------
(* The steps, as the scoreboard sees them *)

\* Nothing the board shows has changed.
LEMMA BoardUnmoved ==
    ASSUME UNCHANGED <<match, prediction, score, late>>,
           \A j \in JobIds : job'[j].match_id = job[j].match_id /\ job'[j].credited = job[j].credited
    PROVE  UNCHANGED <<Board, Players>>
<1>1. \A m \in Matches : Scored(m)' <=> Scored(m)
  BY DEF Scored
<1>2. CreditedOnce' <=> CreditedOnce
  BY DEF CreditedOnce
<1>3. \A u \in Users : NeverLate(u)' <=> NeverLate(u)
  BY DEF NeverLate
<1>4. Board' = Board
  BY <1>1 DEF Board
<1>5. Players' = Players
  BY <1>2, <1>3 DEF Players, GuessOf
<1> QED BY <1>4, <1>5

\* The board shows results and no teams.
LEMMA AssignerIsUnseen ==
    ASSUME Inv, RequestsApart, NEW a \in Assigners, AssignerNext(a)
    PROVE  UNCHANGED <<Board, Players>>
<1>1. /\ UNCHANGED <<prediction, score, job, late>>
      /\ \A m \in Matches :
            /\ match'[m].local_result = match[m].local_result
            /\ match'[m].visiting_result = match[m].visiting_result
            /\ match'[m].has_played = match[m].has_played
  BY AssignerKeeps
<1>2. \A m \in Matches : Scored(m)' <=> Scored(m)
  BY <1>1 DEF Scored
<1>3. Board' = Board
  BY <1>1, <1>2 DEF Board
<1>4. Players' = Players
  BY <1>1 DEF Players, GuessOf, CreditedOnce, NeverLate
<1> QED BY <1>3, <1>4

LEMMA BoardInit == Init => SB!Init
<1> SUFFICES ASSUME Init PROVE SB!Init
  OBVIOUS
<1>p. ASSUME NEW u \in Users, NEW m \in Matches
      PROVE  prediction[u][m].local_score = NULL /\ prediction[u][m].visitor_score = NULL
  <2>1. prediction[u][m] \in {NewPrediction, MissingPrediction}
    BY DEF Init, StoreInit
  <2> QED BY <2>1 DEF NewPrediction, MissingPrediction
<1>1. \A m \in Matches : ~match[m].has_played /\ match[m].local_result = NULL
                          /\ match[m].visiting_result = NULL
  BY DEF Init, StoreInit
<1>7. \A u \in Users : score[u] = 0 /\ NeverLate(u)
  BY DEF Init, StoreInit, NeverLate
<1>8. \A j \in JobIds : job[j].credited = 0
  BY DEF Init, StoreInit, NoJob
<1>2. CreditedOnce /\ \A m \in Matches : ~Scored(m)
  BY <1>8 DEF CreditedOnce, Scored
<1>3. Board = [m \in Matches |-> SB!Open]
  BY <1>1, <1>2 DEF Board, SB!Open
<1>4. \A u \in Users, m \in Matches : GuessOf(prediction[u][m]) = SB!NoGuess
  BY <1>p DEF GuessOf, SB!NoGuess
<1>5. Players = [u \in Users |-> [guess |-> [m \in Matches |-> SB!NoGuess], standing |-> 0]]
  BY <1>2, <1>4, <1>7 DEF Players
<1> QED BY <1>3, <1>5 DEF SB!Init

\* A saved prediction is a guess for a match still open, or takes the player off.
LEMMA SaveIsGuess ==
    ASSUME Inv, UNCHANGED <<match, score, job>>,
           NEW u \in Users, NEW m \in Matches, NEW row \in PredictionRow,
           prediction' = [prediction EXCEPT ![u][m] = row],
           late' = [late EXCEPT ![u][m] = @ \/ match[m].has_played]
    PROVE  SB!Next \/ UNCHANGED <<Board, Players>>
<1>t. /\ prediction \in [Users -> [Matches -> PredictionRow]]
      /\ late \in [Users -> [Matches -> BOOLEAN]]
  BY DEF Inv, TypeOK, StoreTypeOK
<1>1. Board' = Board /\ (CreditedOnce' <=> CreditedOnce)
  <2>1. \A x \in Matches : Scored(x)' <=> Scored(x)
    BY DEF Scored
  <2> QED BY <2>1 DEF Board, CreditedOnce
<1>2. ASSUME NEW x \in Users, x # u
      PROVE  (NeverLate(x)' <=> NeverLate(x)) /\ prediction'[x] = prediction[x]
  <2>1. late'[x] = late[x] /\ prediction'[x] = prediction[x]
    BY <1>2, <1>t
  <2> QED BY <2>1 DEF NeverLate
<1>3. ASSUME NEW x \in Users, x # u PROVE Players'[x] = Players[x]
  BY <1>1, <1>2, <1>3 DEF Players
<1>4. NeverLate(u)' <=> NeverLate(u) /\ ~match[m].has_played
  <2>1. \A x \in Matches : late'[u][x] <=> late[u][x] \/ (x = m /\ match[m].has_played)
    BY <1>t
  <2> QED BY <2>1 DEF NeverLate
<1>5. CASE ~(CreditedOnce' /\ NeverLate(u)')
  <2>1. Players'[u] = SB!Off
    BY <1>5 DEF Players, SB!Off
  <2>2. Players' = [x \in Users |-> IF x \in {u} THEN SB!Off ELSE Players[x]]
    <3>1. Players' = [x \in Users |-> Players'[x]]
      BY DEF Players
    <3> QED BY <1>3, <2>1, <3>1
  <2>3. SB!Drop({u})
    BY <1>1, <2>2 DEF SB!Drop
  <2> QED BY <2>3 DEF SB!Next
<1>6. CASE CreditedOnce' /\ NeverLate(u)'
  <2>1. CreditedOnce /\ NeverLate(u) /\ ~match[m].has_played
    BY <1>1, <1>4, <1>6
  <2>2. Players[u] = [guess |-> [x \in Matches |-> GuessOf(prediction[u][x])], standing |-> score[u]]
    BY <2>1 DEF Players
  <2>3. Players'[u] = [guess |-> [x \in Matches |-> GuessOf(prediction'[u][x])], standing |-> score[u]]
    BY <1>6 DEF Players
  <2>4. prediction'[u] = [prediction[u] EXCEPT ![m] = row]
    BY <1>t
  <2>5. \A x \in Matches : prediction'[u][x] = IF x = m THEN row ELSE prediction[u][x]
    BY <1>t, <2>4
  <2>6. PICK l \in Goals \cup {NULL}, v \in Goals \cup {NULL} : GuessOf(row) = <<l, v>>
    BY DEF GuessOf, PredictionRow
  <2>7. [x \in Matches |-> GuessOf(prediction'[u][x])] =
            [[x \in Matches |-> GuessOf(prediction[u][x])] EXCEPT ![m] = <<l, v>>]
    <3>1. \A x \in Matches : GuessOf(prediction'[u][x]) = IF x = m THEN <<l, v>> ELSE GuessOf(prediction[u][x])
      BY <2>5, <2>6
    <3> HIDE DEF GuessOf
    <3> QED BY <3>1
  <2>8. Players'[u] = [Players[u] EXCEPT !.guess[m] = <<l, v>>]
    BY <2>2, <2>3, <2>7
  <2>9. Players' = [Players EXCEPT ![u].guess[m] = <<l, v>>]
    <3>1. Players = [x \in Users |-> Players[x]] /\ Players' = [x \in Users |-> Players'[x]]
      BY DEF Players
    <3> QED BY <1>3, <2>8, <3>1
  <2>10. Board[m].stage = "open" /\ Players[u] # SB!Off
    <3>1. ~Scored(m)
      BY <2>1, ScoredIsPlayed
    <3> QED BY <2>1, <2>2, <3>1 DEF Board, SB!Off
  <2>11. SB!Guess(u, m, l, v)
    BY <1>1, <2>9, <2>10 DEF SB!Guess
  <2> QED BY <2>11 DEF SB!Next
<1> QED BY <1>5, <1>6

\* The board counts as the worker does.
LEMMA SamePoints ==
    \A p, q, l, v : SB!PointsTotal(p, q, l, v) = PointsTotal(p, q, l, v)
  BY DEF SB!PointsTotal, PointsTotal, SB!CalculatePoints, CalculatePoints, SB!NoPoints, NoPoints,
     SB!SameOutcome, SameOutcome, SB!Sign, Sign, SB!IsExact, IsExact, SB!DrawBonus, DrawBonus,
     SB!BothDraws, BothDraws

LEMMA NoGoalsNoPoints ==
    \A l, v : PointsTotal(NULL, NULL, l, v) = 0
  BY DEF PointsTotal, CalculatePoints, NoPoints

\* The commit of a job scores its match, for every player on the board; a second
\* commit takes them all off.
LEMMA CommitIsScore ==
    ASSUME Inv, PaidInv, NEW w \in Workers, Commit(w)
    PROVE  SB!Next
<1>0. PICK k, n, pts : k = wrk[w].job /\ n = job[k].match_id /\ pts = wrk[w].points
  OBVIOUS
<1>t. /\ prediction \in [Users -> [Matches -> PredictionRow]]
      /\ job \in [JobIds -> JobRow]
      /\ score \in [Users -> Nat]
  BY DEF Inv, TypeOK, StoreTypeOK
<1>1. /\ wrk[w].pc = "computed" /\ UNCHANGED <<match, late>>
      /\ job' = [job EXCEPT ![k].credited = @ + 1]
      /\ prediction' = [u \in Users |-> [prediction[u] EXCEPT ![n] = WithPoints(@, pts[u])]]
      /\ score' = [u \in Users |-> Credited(score[u], pts[u])]
  BY <1>0 DEF Commit
<1>2. /\ k \in JobIds /\ job[k].state = "active" /\ n \in Matches /\ match[n].has_played
  BY <1>0, <1>1, JobAtWork
<1>3. \A j \in JobIds : /\ job'[j].match_id = job[j].match_id
                        /\ j # k => job'[j] = job[j]
  BY <1>t, <1>1 DEF JobRow
<1>4. job'[k].credited = job[k].credited + 1 /\ job[k].credited \in Nat
  BY <1>t, <1>1, <1>2 DEF JobRow
<1>5. Scored(n)'
  BY <1>0, <1>2, <1>3, <1>4 DEF Scored
<1>6. ASSUME NEW m \in Matches, m # n PROVE Scored(m)' <=> Scored(m)
  BY <1>0, <1>3, <1>6 DEF Scored
\* One job has this match, so the match is scored if and only if this job was credited.
<1>7. Scored(n) <=> job[k].credited > 0
  <2>1. \A j \in JobIds : job[j].match_id = n => j = k
    <3>1. \A j \in JobIds : job[j].match_id = n => job[j].state # "unused"
      BY <1>2, StoreAssumption DEF Inv, ResultsInv, JobsCarryResults
    <3> QED BY <1>0, <1>2, <3>1 DEF Inv, ResultsInv, OneJobPerMatch
  <2> QED BY <1>0, <1>2, <2>1 DEF Scored
<1>8. \A u \in Users : NeverLate(u)' <=> NeverLate(u)
  BY <1>1 DEF NeverLate
<1>9. ASSUME NEW u \in Users, NEW m \in Matches
      PROVE  GuessOf(prediction'[u][m]) = GuessOf(prediction[u][m])
  <2>1. prediction[u][m] \in PredictionRow
    BY <1>t
  <2>2. prediction'[u][m] = IF m = n THEN WithPoints(prediction[u][m], pts[u]) ELSE prediction[u][m]
    BY <1>t, <1>1
  <2> QED BY <2>1, <2>2, PointsWritten DEF GuessOf
<1>10. CASE job[k].credited > 0
  <2>1. ~CreditedOnce'
    BY <1>2, <1>4, <1>10 DEF CreditedOnce
  <2>2. Players' = [u \in Users |-> IF u \in Users THEN SB!Off ELSE Players[u]]
    BY <2>1 DEF Players, SB!Off
  <2>3. \A m \in Matches : Scored(m)' <=> Scored(m)
    BY <1>5, <1>6, <1>7, <1>10
  <2>4. Board' = Board
    BY <1>1, <2>3 DEF Board
  <2>5. SB!Drop(Users)
    BY <2>2, <2>4 DEF SB!Drop
  <2> QED BY <2>5 DEF SB!Next
<1>11. CASE job[k].credited = 0
  <2>1. CreditedOnce' <=> CreditedOnce
    BY <1>2, <1>3, <1>4, <1>11 DEF CreditedOnce
  <2>2. ~Scored(n)
    BY <1>7, <1>11
  <2>3. Board[n].stage = "closed" /\ Board[n].local = match[n].local_result
        /\ Board[n].visiting = match[n].visiting_result
    BY <1>2, <2>2 DEF Board
  <2>4. Board' = [Board EXCEPT ![n].stage = "scored"]
    BY <1>1, <1>2, <1>5, <1>6 DEF Board
  <2>5. ASSUME NEW u \in Users PROVE Players'[u] = SB!Credited(n, Players[u])
    <3>1. CASE ~(CreditedOnce /\ NeverLate(u))
      <4>1. Players[u] = SB!Off /\ Players'[u] = SB!Off
        BY <1>8, <2>1, <3>1 DEF Players, SB!Off
      <4> QED BY <4>1 DEF SB!Credited
    <3>2. CASE CreditedOnce /\ NeverLate(u)
      <4> DEFINE guess == [m \in Matches |-> GuessOf(prediction[u][m])]
      <4>1. Players[u] = [guess |-> guess, standing |-> score[u]]
        BY <3>2 DEF Players
      <4>2. Players'[u] = [guess |-> guess, standing |-> Credited(score[u], pts[u])]
        <5>1. [m \in Matches |-> GuessOf(prediction'[u][m])] = guess
          BY <1>9
        <5>2. score'[u] = Credited(score[u], pts[u])
          BY <1>1
        <5> QED BY <1>8, <2>1, <3>2, <5>1, <5>2 DEF Players
      <4>3. Credited(score[u], pts[u]) = score[u] + SB!Worth(n, guess[n])
        <5> DEFINE p == prediction[u][n]
                   worth == PointsTotal(guess[n][1], guess[n][2], match[n].local_result,
                                        match[n].visiting_result)
        <5>1. guess[n] = GuessOf(p)
          BY <1>2
        <5>2. SB!Worth(n, guess[n]) = worth
          BY <2>3, SamePoints DEF SB!Worth
        <5>3. CASE p.stored
          <6>1. ~late[u][n]
            BY <1>2, <3>2 DEF NeverLate
          <6>2. pts[u] = PointsTotal(p.local_score, p.visitor_score, match[n].local_result,
                                     match[n].visiting_result)
            BY <1>0, <1>1, <5>3, <6>1 DEF Inv, ResultsInv, ComputedPointsAreRight
          <6>5. guess[n][1] = p.local_score /\ guess[n][2] = p.visitor_score
            <7> HIDE DEF guess
            <7> QED BY <5>1, <5>3 DEF GuessOf
          <6>3. worth = pts[u]
            BY <6>2, <6>5
          <6>4. pts[u] # NULL
            BY <6>2, TotalInNat, NullAssumption
          <6> QED BY <5>2, <6>3, <6>4 DEF Credited
        <5>4. CASE ~p.stored
          <6>1. pts[u] = NULL
            BY <1>0, <1>1, <5>4 DEF PaidInv
          <6>3. guess[n][1] = NULL /\ guess[n][2] = NULL
            <7> HIDE DEF guess
            <7> QED BY <5>1, <5>4 DEF GuessOf
          <6>2. worth = 0
            BY <6>3, NoGoalsNoPoints
          <6> QED BY <1>t, <5>2, <6>1, <6>2 DEF Credited
        <5> QED BY <5>3, <5>4
      <4>4. Players[u] # SB!Off /\ Players[u].guess[n] = guess[n]
        BY <4>1 DEF SB!Off
      <4> HIDE DEF guess
      <4> QED BY <4>1, <4>2, <4>3, <4>4 DEF SB!Credited
    <3> QED BY <3>1, <3>2
  <2>6. Players' = [u \in Users |-> SB!Credited(n, Players[u])]
    <3>1. Players' = [u \in Users |-> Players'[u]]
      BY DEF Players
    <3> QED BY <2>5, <3>1
  <2>7. SB!Score(n)
    BY <2>3, <2>4, <2>6 DEF SB!Score
  <2> QED BY <1>2, <2>7 DEF SB!Next
<1> QED BY <1>4, <1>10, <1>11

\* The UPDATE of a registration closes its match, with the result it carries.
LEMMA UpdateIsClose ==
    ASSUME Inv, NEW r \in Registrars, RegisterUpdate(r), UNCHANGED <<prd, wrk>>
    PROVE  SB!Next
<1>t. /\ match \in [Matches -> MatchRow]
      /\ reg \in [Registrars -> RegistrarState]
  BY DEF Inv, TypeOK, StoreTypeOK, MatchesTypeOK
<1>0. PICK n, l, v : n = reg[r].id /\ l = reg[r].match.local_result /\ v = reg[r].match.visiting_result
  OBVIOUS
<1>1. reg[r].pc = "selected" /\ UNCHANGED <<prediction, score, job, late>>
  BY DEF RegisterUpdate
<1>2. /\ n \in Matches /\ reg[r].match \in MatchRow /\ reg[r].seen \in MatchRow
  BY <1>0, <1>1, <1>t DEF RegistrarState, Idle
<1>3. /\ ~match[n].has_played /\ reg[r].seen = match[n]
      /\ l # NULL /\ v # NULL
      /\ \A j \in JobIds : job[j].match_id # n
      /\ reg[r].match = WithResult(match[n], l, v)
  BY <1>0, <1>1 DEF Inv, ResultsInv, RegistrationIsFirst
<1>4. match' = [match EXCEPT ![n] = WithResult(match[n], l, v)]
  BY <1>0, <1>2, <1>3, SavedFresh DEF RegisterUpdate
<1>5. l \in Goals /\ v \in Goals
  BY <1>0, <1>2, <1>3 DEF MatchRow
<1>6. /\ match'[n].has_played /\ match'[n].local_result = l /\ match'[n].visiting_result = v
      /\ \A m \in Matches : m # n => match'[m] = match[m]
  BY <1>2, <1>4, <1>t DEF WithResult, MatchRow
<1>7. ~Scored(n) /\ \A m \in Matches : Scored(m)' <=> Scored(m)
  BY <1>1, <1>3 DEF Scored
<1>8. Board[n].stage = "open"
  BY <1>2, <1>3, <1>7 DEF Board
<1>9. Board' = [Board EXCEPT ![n] = [stage |-> "closed", local |-> l, visiting |-> v]]
  BY <1>2, <1>6, <1>7 DEF Board
<1>10. Players' = Players
  <2>1. CreditedOnce' <=> CreditedOnce
    BY <1>1 DEF CreditedOnce
  <2>2. \A u \in Users : NeverLate(u)' <=> NeverLate(u)
    BY <1>1 DEF NeverLate
  <2> QED BY <1>1, <2>1, <2>2 DEF Players
<1>11. SB!Close(n, l, v)
  BY <1>8, <1>9, <1>10 DEF SB!Close
<1> QED BY <1>2, <1>5, <1>11 DEF SB!Next

LEMMA RegistrarIsBoard ==
    ASSUME Inv, PaidInv, NEW r \in Registrars, RegistrarNext(r), UNCHANGED <<prd, wrk>>
    PROVE  SB!Next \/ UNCHANGED <<Board, Players>>
<1>t. job \in [JobIds -> JobRow]
  BY DEF Inv, TypeOK, StoreTypeOK
<1>1. CASE RegisterFind(r) \/ RegisterSelect(r) \/ EnqueueFails(r)
  BY <1>1, BoardUnmoved DEF RegisterFind, RegisterSelect, EnqueueFails, storeVars
<1>2. CASE RegisterUpdate(r)
  BY <1>2, UpdateIsClose
<1>3. CASE Enqueue(r)
  <2>0. PICK n : n = reg[r].id
    OBVIOUS
  <2>1. PICK k \in JobIds :
           /\ job[k].state = "unused"
           /\ job' = [job EXCEPT ![k] = [state |-> "wait", match_id |-> n,
                                         local_result |-> reg[r].match.local_result,
                                         visiting_result |-> reg[r].match.visiting_result,
                                         stalled |-> 0, credited |-> 0]]
    BY <1>3, <2>0 DEF Enqueue, AddJob, NextId
  <2>2. UNCHANGED <<match, prediction, score, late>>
    BY <1>3 DEF Enqueue
  <2>3. /\ \A j \in JobIds : j # k => job'[j] = job[j]
        /\ job[k].credited = 0 /\ job'[k].credited = 0
    BY <1>t, <2>1 DEF PaidInv
  <2>4. \A m \in Matches : Scored(m)' <=> Scored(m)
    BY <2>3 DEF Scored
  <2>5. CreditedOnce' <=> CreditedOnce
    BY <2>3 DEF CreditedOnce
  <2>6. \A u \in Users : NeverLate(u)' <=> NeverLate(u)
    BY <2>2 DEF NeverLate
  <2> QED BY <2>2, <2>4, <2>5, <2>6 DEF Board, Players
<1> QED BY <1>1, <1>2, <1>3 DEF RegistrarNext

LEMMA WorkerIsBoard ==
    ASSUME Inv, PaidInv, NEW w \in Workers, WorkerNext(w), UNCHANGED <<reg, asg, prd>>
    PROVE  SB!Next \/ UNCHANGED <<Board, Players>>
<1>t. job \in [JobIds -> JobRow]
  BY DEF Inv, TypeOK, StoreTypeOK
<1>1. CASE Take(w)
  <2>1. \A j \in JobIds : job'[j].match_id = job[j].match_id /\ job'[j].credited = job[j].credited
    BY <1>1, <1>t DEF Take, JobRow
  <2> QED BY <1>1, <2>1, BoardUnmoved DEF Take
<1>2. CASE Compute(w)
  BY <1>2, BoardUnmoved DEF Compute, storeVars
<1>3. ASSUME NEW state \in {"completed", "failed"}, Finish(w, state)
      PROVE  UNCHANGED <<Board, Players>>
  <2>1. \A j \in JobIds : job'[j].match_id = job[j].match_id /\ job'[j].credited = job[j].credited
    BY <1>3, <1>t DEF Finish, JobRow
  <2> QED BY <1>3, <2>1, BoardUnmoved DEF Finish
<1> QED BY <1>1, <1>2, <1>3, CommitIsScore DEF WorkerNext, Complete, JobFails

LEMMA StalledIsBoard ==
    ASSUME Inv, StalledCheck
    PROVE  UNCHANGED <<Board, Players>>
<1>t. job \in [JobIds -> JobRow]
  BY DEF Inv, TypeOK, StoreTypeOK
<1>1. PICK j \in JobIds : RequeueStalled(j) \/ FailStalled(j)
  BY DEF StalledCheck
<1>2. \A i \in JobIds : job'[i].match_id = job[i].match_id /\ job'[i].credited = job[i].credited
  BY <1>1, <1>t DEF RequeueStalled, FailStalled, JobRow
<1>3. UNCHANGED <<match, prediction, score, late>>
  BY <1>1 DEF RequeueStalled, FailStalled
<1> QED BY <1>2, <1>3, BoardUnmoved

LEMMA BoardStep ==
    ASSUME Inv, RequestsApart, PaidInv, [Next]_vars
    PROVE  SB!Next \/ UNCHANGED <<Board, Players>>
<1>1. ASSUME NEW p \in Predictors, PredictorNext(p), UNCHANGED <<reg, asg, wrk>>
      PROVE  SB!Next \/ UNCHANGED <<Board, Players>>
  <2>1. CASE UNCHANGED <<prediction, late>>
    BY <1>1, <2>1, PaidPredictor, BoardUnmoved
  <2> QED BY <1>1, <2>1, PaidPredictor, SaveIsGuess
<1>2. ASSUME NEW m \in Matches, KickOff(m) PROVE UNCHANGED <<Board, Players>>
  BY <1>2, BoardUnmoved DEF KickOff
<1>3. CASE Crash
  BY <1>3, BoardUnmoved DEF Crash
<1>4. CASE UNCHANGED vars
  BY <1>4, BoardUnmoved DEF vars, storeVars
<1> QED BY <1>1, <1>2, <1>3, <1>4, AssignerIsUnseen, RegistrarIsBoard, WorkerIsBoard, StalledIsBoard
    DEF Next

\* As long as requests stay apart the pipeline implements the scoreboard, for any
\* number of players, matches, admins, workers and overlapping predictions, and
\* whatever fails, crashes or is delivered again: guesses change while their match
\* is open, its result comes once, its points reach all standings at once.
THEOREM PipelineIsScoreboard == ApartSpec => KeepsScoreboard
<1>1. ApartSpec => []Inv
  BY ResultsInvariant
<1>2. Init => PaidInv
  BY PaidInit
<1>3. Inv /\ Inv' /\ RequestsApart /\ PaidInv /\ [Next]_vars => PaidInv'
  BY PaidStep
<1>4. Init => SB!Init
  BY BoardInit
<1>5. Inv /\ RequestsApart /\ PaidInv /\ [Next]_vars => [SB!Next]_<<Board, Players>>
  BY BoardStep
<1> QED BY <1>1, <1>2, <1>3, <1>4, <1>5, PTL DEF ApartSpec, Spec, KeepsScoreboard, SB!Spec

-----------------------------------------------------------------------------
(* The standings add up.  users.score is kept by increments, user_matches.points *)
(* by assignment, and a redelivered job repeats both: the first is bounded by    *)
(* what the jobs paid, and equals the second while each job paid once.           *)

\* What a player was paid for a match he was not late for, the match's job paid;
\* what a save carries to a match without a result is worth nothing.
UnscoredIsUnpaid ==
    \A u \in Users, m \in Matches :
        ~Scored(m) /\ ~late[u][m] => prediction[u][m].points = 0

LateIsPlayed == \A u \in Users, m \in Matches : late[u][m] => match[m].has_played

SavesCarryNoPoints ==
    \A p \in Predictors :
        prd[p].pc # "idle" /\ ~match[prd[p].id].has_played =>
            prd[p].prediction.points = 0 /\ prd[p].seen.points = 0

\* A job commits once for each time it was taken from the queue, at most.
CreditsAreBounded ==
    /\ \A j \in JobIds :
           /\ job[j].credited <= job[j].stalled + 1
           /\ job[j].state = "wait" => job[j].credited <= job[j].stalled
    /\ \A w \in Workers :
           wrk[w].pc \in {"taken", "computed"} => job[wrk[w].job].credited <= job[wrk[w].job].stalled

SevenAtMost ==
    \A w \in Workers, u \in Users :
        wrk[w].pc = "computed" /\ wrk[w].points[u] # NULL => wrk[w].points[u] <= 7

\* What a job has paid to one player, at most.
Paid == [j \in JobIds |-> 7 * job[j].credited]

ScoreIsPaid == \A u \in Users : score[u] <= Total(Paid, JobIds)

StandingInv ==
    /\ UnscoredIsUnpaid
    /\ LateIsPlayed
    /\ SavesCarryNoPoints
    /\ CreditsAreBounded
    /\ SevenAtMost
    /\ ScoreIsPaid
    /\ ScoreIsSumOfPoints

LEMMA JobIdsFinite == IsFiniteSet(JobIds)
  BY FS_Interval, StoreAssumption DEF JobIds

\* The points of a player's rows, and the sum of the model in terms of Total.
RowPoints(rows) == [m \in Matches |-> rows[m].points]

SumOfRows(rows) == MapThenSumSet(LAMBDA m : rows[m].points, Matches)

LEMMA SumIsTotal ==
    ASSUME NEW rows
    PROVE  SumOfRows(rows) = Total(RowPoints(rows), Matches)
<1> DEFINE Sums(g) == g = [s \in SUBSET Matches |->
                              IF s = {} THEN 0
                              ELSE LET x == CHOOSE y \in s : TRUE
                                   IN rows[x].points + g[s \ {x}]]
<1>1. SumOfRows(rows) = (CHOOSE g : Sums(g))[Matches]
  BY DEF SumOfRows, MapThenSumSet, MapThenFoldSet
<1>2. \A g : Sums(g) <=> Adds(RowPoints(rows), Matches, g)
  <2> TAKE g
  <2> DEFINE F == [s \in SUBSET Matches |->
                      IF s = {} THEN 0
                      ELSE LET x == CHOOSE y \in s : TRUE IN rows[x].points + g[s \ {x}]]
             G == [s \in SUBSET Matches |->
                      IF s = {} THEN 0 ELSE RowPoints(rows)[First(s)] + g[s \ {First(s)}]]
  <2>1. ASSUME NEW s \in SUBSET Matches PROVE F[s] = G[s]
    <3>1. s # {} => RowPoints(rows)[First(s)] = rows[First(s)].points
      BY FirstIn DEF RowPoints
    <3>2. F[s] = IF s = {} THEN 0 ELSE rows[First(s)].points + g[s \ {First(s)}]
      BY DEF First
    <3> QED BY <3>1, <3>2
  <2>2. F = [s \in SUBSET Matches |-> F[s]]
    OBVIOUS
  <2>3. G = [s \in SUBSET Matches |-> G[s]]
    OBVIOUS
  <2>4. F = G
    <3> HIDE DEF F, G
    <3> QED BY <2>1, <2>2, <2>3
  <2>5. (g = F) <=> (g = G)
    <3> HIDE DEF F, G
    <3> QED BY <2>4
  <2> QED BY <2>5, Zenon DEF Adds
<1>3. PICK h : Adds(RowPoints(rows), Matches, h)
  BY AddsExists, StoreAssumption
<1>4. Adds(RowPoints(rows), Matches, CHOOSE g : Sums(g))
  <2> HIDE DEF Sums
  <2> QED BY <1>2, <1>3, Zenon
<1> HIDE DEF Sums
<1> QED BY <1>1, <1>4, TotalOf, StoreAssumption

LEMMA PointsAreSummed ==
    ASSUME NEW u \in Users
    PROVE  /\ PointsOf(u) = Total(RowPoints(prediction[u]), Matches)
           /\ PointsOf(u)' = Total(RowPoints(prediction'[u]), Matches)
<1>1. PointsOf(u) = SumOfRows(prediction[u])
  BY DEF PointsOf, SumOfRows
<1>2. PointsOf(u)' = SumOfRows(prediction'[u])
  BY DEF PointsOf, SumOfRows, MapThenSumSet, MapThenFoldSet
<1> QED BY <1>1, <1>2, SumIsTotal

LEMMA SamePointsSameSum ==
    ASSUME NEW u \in Users, \A m \in Matches : prediction'[u][m].points = prediction[u][m].points
    PROVE  PointsOf(u)' = PointsOf(u)
<1>1. RowPoints(prediction'[u]) = RowPoints(prediction[u])
  BY DEF RowPoints
<1> QED BY <1>1, PointsAreSummed

LEMMA SamePaid ==
    ASSUME \A j \in JobIds : job'[j].credited = job[j].credited
    PROVE  Total(Paid, JobIds)' = Total(Paid, JobIds)
<1>1. Paid' = Paid
  BY DEF Paid
<1> QED BY <1>1

LEMMA StandingInit == Init => StandingInv
<1> SUFFICES ASSUME Init PROVE StandingInv
  OBVIOUS
<1>1. /\ \A u \in Users, m \in Matches : prediction[u][m].points = 0 /\ ~late[u][m]
      /\ \A u \in Users : score[u] = 0
      /\ \A j \in JobIds : job[j].state = "unused" /\ job[j].credited = 0 /\ job[j].stalled = 0
  BY DEF Init, StoreInit, NoJob, NewPrediction, MissingPrediction
<1>2. (\A p \in Predictors : prd[p].pc = "idle") /\ (\A w \in Workers : wrk[w].pc = "idle")
  BY DEF Init, PredictionsInit, ProcessorInit, NoRequest, Waiting
<1>3. ScoreIsPaid
  <2>1. \A j \in JobIds : Paid[j] \in Nat
    BY <1>1 DEF Paid
  <2>2. Total(Paid, JobIds) \in Nat
    BY <2>1, JobIdsFinite, TotalType
  <2> QED BY <1>1, <2>2 DEF ScoreIsPaid
<1>4. ScoreIsSumOfPoints
  <2> SUFFICES ASSUME NEW u \in Users PROVE PointsOf(u) = 0
    BY <1>1 DEF ScoreIsSumOfPoints
  <2> DEFINE f == RowPoints(prediction[u])
  <2>1. \A m \in Matches : f[m] \in Nat /\ f[m] <= IF m \in {} THEN 0 ELSE 0
    BY <1>1 DEF RowPoints
  <2>2. Total(f, Matches) \in Nat /\ Total(f, Matches) <= 0 * Cardinality({})
    <3> HIDE DEF f
    <3> QED BY <2>1, StoreAssumption, TotalType, TotalBounded
  <2>3. Cardinality({}) = 0
    BY FS_EmptySet
  <2> QED BY <2>2, <2>3, PointsAreSummed
<1> QED BY <1>1, <1>2, <1>3, <1>4 DEF StandingInv, UnscoredIsUnpaid, LateIsPlayed, SavesCarryNoPoints,
           CreditsAreBounded, SevenAtMost

LEMMA SevenPoints ==
    ASSUME NEW p, NEW q, NEW l, NEW v
    PROVE  PointsTotal(p, q, l, v) <= 7
  BY DEF PointsTotal, CalculatePoints, NoPoints, DrawBonus, IsExact, BothDraws

\* Most steps pay nobody and save no prediction.
LEMMA NobodyPaid ==
    ASSUME Inv, StandingInv, UNCHANGED <<prediction, score, late>>,
           \A p \in Predictors : prd'[p] = prd[p] \/ prd'[p].pc = "idle",
           \A j \in JobIds : job'[j].credited = job[j].credited,
           \A m \in Matches : Scored(m) => Scored(m)',
           \A m \in Matches : match[m].has_played => match'[m].has_played
    PROVE  /\ UnscoredIsUnpaid'
           /\ LateIsPlayed'
           /\ SavesCarryNoPoints'
           /\ ScoreIsPaid'
           /\ ScoreIsSumOfPoints'
<1>1. UnscoredIsUnpaid' /\ LateIsPlayed'
  BY DEF StandingInv, UnscoredIsUnpaid, LateIsPlayed
<1>2. SavesCarryNoPoints'
  <2>1. \A p \in Predictors : prd[p].pc # "idle" => prd[p].id \in Matches
    BY DEF Inv, TypeOK, PredictionsTypeOK, PredictorState, NoRequest
  <2> QED BY <2>1 DEF StandingInv, SavesCarryNoPoints
<1>3. ScoreIsPaid'
  BY SamePaid DEF StandingInv, ScoreIsPaid
<1>4. ScoreIsSumOfPoints'
  <2>1. CreditedOnce' <=> CreditedOnce
    BY DEF CreditedOnce
  <2>2. \A u \in Users : NeverLate(u)' <=> NeverLate(u)
    BY DEF NeverLate
  <2>3. \A u \in Users : PointsOf(u)' = PointsOf(u)
    BY SamePointsSameSum
  <2> QED BY <2>1, <2>2, <2>3 DEF StandingInv, ScoreIsSumOfPoints
<1> QED BY <1>1, <1>2, <1>3, <1>4

LEMMA PointsSaved ==
    ASSUME NEW e \in PredictionRow, NEW s \in PredictionRow, NEW row \in PredictionRow
    PROVE  Saved(e, s, row).points = IF e.points # s.points THEN e.points ELSE row.points
  BY DEF Saved, PredictionRow

\* A save to a match without a result leaves a row worth nothing; any other marks
\* the player late.
LEMMA StandingSave ==
    ASSUME Inv, StandingInv, NEW p \in Predictors, NEW row, prd[p].pc # "idle", WriteRow(p, row),
           ~match[prd[p].id].has_played => row.points = 0
    PROVE  UnscoredIsUnpaid' /\ LateIsPlayed' /\ SavesCarryNoPoints' /\ ScoreIsSumOfPoints'
<1>0. PICK u, n : u = prd[p].user /\ n = prd[p].id
  OBVIOUS
<1>t. /\ prediction \in [Users -> [Matches -> PredictionRow]]
      /\ late \in [Users -> [Matches -> BOOLEAN]]
      /\ prd \in [Predictors -> PredictorState]
  BY DEF Inv, TypeOK, StoreTypeOK, PredictionsTypeOK
<1>1. u \in Users /\ n \in Matches
  BY <1>0, <1>t DEF PredictorState, NoRequest
<1>2. /\ UNCHANGED <<match, score, job>>
      /\ prediction' = [prediction EXCEPT ![u][n] = row]
      /\ late' = [late EXCEPT ![u][n] = @ \/ match[n].has_played]
      /\ prd' = [prd EXCEPT ![p] = NoRequest]
  BY <1>0 DEF WriteRow
<1>3. \A x \in Users, m \in Matches :
         /\ prediction'[x][m] = IF x = u /\ m = n THEN row ELSE prediction[x][m]
         /\ late'[x][m] <=> late[x][m] \/ (x = u /\ m = n /\ match[n].has_played)
  BY <1>t, <1>1, <1>2
<1>4. \A m \in Matches : Scored(m)' <=> Scored(m)
  BY <1>2 DEF Scored
<1>5. UnscoredIsUnpaid'
  BY <1>0, <1>3, <1>4 DEF StandingInv, UnscoredIsUnpaid
<1>6. LateIsPlayed'
  BY <1>2, <1>3 DEF StandingInv, LateIsPlayed
<1>7. SavesCarryNoPoints'
  <2>1. \A q \in Predictors : prd'[q] = prd[q] \/ prd'[q].pc = "idle"
    BY <1>t, <1>2 DEF NoRequest
  <2> QED BY <1>2, <2>1 DEF StandingInv, SavesCarryNoPoints
<1>8. ScoreIsSumOfPoints'
  <2> SUFFICES ASSUME CreditedOnce', NEW x \in Users, NeverLate(x)'
               PROVE  score'[x] = PointsOf(x)'
    BY DEF ScoreIsSumOfPoints
  <2>1. CreditedOnce /\ NeverLate(x)
    BY <1>2, <1>3 DEF CreditedOnce, NeverLate
  <2>2. ASSUME NEW m \in Matches PROVE prediction'[x][m].points = prediction[x][m].points
    <3>1. CASE x = u /\ m = n
      <4>1. ~match[n].has_played /\ ~late[u][n]
        BY <1>3, <3>1 DEF NeverLate
      <4>2. ~Scored(n)
        BY <1>1, <4>1, ScoredIsPlayed
      <4>3. prediction[u][n].points = 0
        BY <1>1, <4>1, <4>2 DEF StandingInv, UnscoredIsUnpaid
      <4> QED BY <1>0, <1>3, <3>1, <4>1, <4>3
    <3>2. CASE ~(x = u /\ m = n)
      BY <1>3, <3>2
    <3> QED BY <3>1, <3>2
  <2>3. PointsOf(x)' = PointsOf(x)
    BY <2>2, SamePointsSameSum
  <2> QED BY <1>2, <2>1, <2>3 DEF StandingInv, ScoreIsSumOfPoints
<1> QED BY <1>5, <1>6, <1>7, <1>8

LEMMA StandingPredictor ==
    ASSUME Inv, StandingInv, NEW p \in Predictors, PredictorNext(p), UNCHANGED <<reg, asg, wrk>>
    PROVE  StandingInv'
<1>t. /\ prediction \in [Users -> [Matches -> PredictionRow]]
      /\ prd \in [Predictors -> PredictorState]
  BY DEF Inv, TypeOK, StoreTypeOK, PredictionsTypeOK
<1>u. UNCHANGED <<match, score, job>>
  BY DEF PredictorNext, CheckMatch, LoadPrediction, SelectPrediction, UpdatePrediction,
     InsertPrediction, InsertConflicts, WriteRow, storeVars
<1>a. CreditsAreBounded' /\ SevenAtMost' /\ ScoreIsPaid'
  <2>1. CreditsAreBounded' /\ SevenAtMost'
    BY <1>u DEF StandingInv, CreditsAreBounded, SevenAtMost
  <2> QED BY <1>u, <2>1, SamePaid DEF StandingInv, ScoreIsPaid
\* A row of a match that has no result is worth nothing.
<1>b. \A u \in Users, m \in Matches : ~match[m].has_played => prediction[u][m].points = 0
  BY ScoredIsPlayed DEF StandingInv, UnscoredIsUnpaid, LateIsPlayed
<1>c. ASSUME UNCHANGED <<prediction, late>>, SavesCarryNoPoints' PROVE StandingInv'
  <2>1. \A m \in Matches : Scored(m)' <=> Scored(m)
    BY <1>u DEF Scored
  <2>2. UnscoredIsUnpaid' /\ LateIsPlayed'
    BY <1>c, <1>u, <2>1 DEF StandingInv, UnscoredIsUnpaid, LateIsPlayed
  <2>3. ScoreIsSumOfPoints'
    <3>1. (CreditedOnce' <=> CreditedOnce) /\ \A u \in Users : NeverLate(u)' <=> NeverLate(u)
      BY <1>c, <1>u DEF CreditedOnce, NeverLate
    <3>2. \A u \in Users : PointsOf(u)' = PointsOf(u)
      BY <1>c, SamePointsSameSum
    <3> QED BY <1>u, <3>1, <3>2 DEF StandingInv, ScoreIsSumOfPoints
  <2> QED BY <1>a, <1>c, <2>2, <2>3 DEF StandingInv
<1>d. ASSUME \A q \in Predictors \ {p} : prd'[q] = prd[q],
             prd'[p].pc # "idle" /\ ~match[prd'[p].id].has_played =>
                 prd'[p].prediction.points = 0 /\ prd'[p].seen.points = 0
      PROVE  SavesCarryNoPoints'
  BY <1>d, <1>u DEF StandingInv, SavesCarryNoPoints
<1>1. CASE CheckMatch(p)
  <2>1. UNCHANGED <<prediction, late>>
    BY <1>1 DEF CheckMatch, storeVars
  <2>2. /\ \A q \in Predictors \ {p} : prd'[q] = prd[q]
        /\ prd'[p].prediction.points = 0 /\ prd'[p].seen.points = 0
    BY <1>1, <1>t DEF CheckMatch, WithGoals, NewPrediction
  <2> QED BY <1>c, <1>d, <2>1, <2>2
<1>2. CASE LoadPrediction(p)
  <2>0. PICK u, n, row : u = prd[p].user /\ n = prd[p].id /\ row = prediction[u][n]
    OBVIOUS
  <2>1. UNCHANGED <<prediction, late>> /\ prd[p].pc = "checked"
    BY <1>2 DEF LoadPrediction, storeVars
  <2>2. u \in Users /\ n \in Matches /\ row \in PredictionRow
    BY <1>t, <2>0, <2>1 DEF PredictorState, NoRequest
  <2>3. prd' = [prd EXCEPT ![p] =
            IF row.stored
            THEN [prd[p] EXCEPT !.pc = "loaded",
                      !.prediction = WithGoals(row, prd[p].prediction.local_score,
                                               prd[p].prediction.visitor_score)]
            ELSE [prd[p] EXCEPT !.pc = "new"]]
    BY <1>2, <2>0 DEF LoadPrediction
  <2>4. WithGoals(row, prd[p].prediction.local_score, prd[p].prediction.visitor_score).points = row.points
    BY <2>2 DEF WithGoals, PredictionRow
  <2>5. /\ prd'[p].id = n /\ prd'[p].seen = prd[p].seen
        /\ prd'[p].prediction.points = IF row.stored THEN row.points ELSE prd[p].prediction.points
    BY <1>t, <2>0, <2>1, <2>3, <2>4 DEF PredictorState, NoRequest
  <2>6. ~match[n].has_played => prd'[p].prediction.points = 0 /\ prd'[p].seen.points = 0
    BY <1>b, <2>0, <2>1, <2>2, <2>5 DEF StandingInv, SavesCarryNoPoints
  <2>7. \A q \in Predictors \ {p} : prd'[q] = prd[q]
    BY <1>t, <2>3
  <2> QED BY <1>c, <1>d, <2>1, <2>5, <2>6, <2>7
<1>3. CASE SelectPrediction(p)
  <2>1. UNCHANGED <<prediction, late>> /\ prd[p].pc = "loaded"
    BY <1>3 DEF SelectPrediction, storeVars
  <2>2. prd[p].user \in Users /\ prd[p].id \in Matches
    BY <1>t, <2>1 DEF PredictorState, NoRequest
  <2>3. /\ prd'[p].id = prd[p].id /\ prd'[p].prediction = prd[p].prediction
        /\ prd'[p].seen = prediction[prd[p].user][prd[p].id]
        /\ \A q \in Predictors \ {p} : prd'[q] = prd[q]
    BY <1>3, <1>t, <2>1 DEF SelectPrediction, PredictorState, NoRequest
  <2>4. ~match[prd'[p].id].has_played => prd'[p].prediction.points = 0 /\ prd'[p].seen.points = 0
    BY <1>b, <2>1, <2>2, <2>3 DEF StandingInv, SavesCarryNoPoints
  <2> QED BY <1>c, <1>d, <2>1, <2>3, <2>4
<1>4. CASE InsertConflicts(p)
  <2>1. UNCHANGED <<prediction, late>>
    BY <1>4 DEF InsertConflicts, storeVars
  <2>2. prd'[p].pc = "idle" /\ \A q \in Predictors \ {p} : prd'[q] = prd[q]
    BY <1>4, <1>t DEF InsertConflicts, NoRequest
  <2> QED BY <1>c, <1>d, <2>1, <2>2
<1>5. CASE UpdatePrediction(p)
  <2> DEFINE row == Saved(prd[p].prediction, prd[p].seen, prediction[prd[p].user][prd[p].id])
  <2>1. prd[p].pc = "selected" /\ WriteRow(p, row)
    BY <1>5 DEF UpdatePrediction
  <2>2. /\ prd[p].user \in Users /\ prd[p].id \in Matches
        /\ prd[p].prediction \in PredictionRow /\ prd[p].seen \in PredictionRow
    BY <1>t, <2>1 DEF PredictorState, NoRequest
  <2>3. prediction[prd[p].user][prd[p].id] \in PredictionRow
    BY <1>t, <2>2
  <2>4. ~match[prd[p].id].has_played =>
            /\ prd[p].prediction.points = 0 /\ prd[p].seen.points = 0
            /\ prediction[prd[p].user][prd[p].id].points = 0
    BY <1>b, <2>1, <2>2 DEF StandingInv, SavesCarryNoPoints
  <2>5. ~match[prd[p].id].has_played => row.points = 0
    BY <2>2, <2>3, <2>4, PointsSaved
  <2> HIDE DEF row
  <2> QED BY <1>a, <2>1, <2>5, StandingSave DEF StandingInv
<1>6. CASE InsertPrediction(p)
  <2>1. prd[p].pc = "new" /\ WriteRow(p, prd[p].prediction)
    BY <1>6 DEF InsertPrediction
  <2>2. ~match[prd[p].id].has_played => prd[p].prediction.points = 0
    BY <2>1 DEF StandingInv, SavesCarryNoPoints
  <2> QED BY <1>a, <2>1, <2>2, StandingSave DEF StandingInv
<1> QED BY <1>1, <1>2, <1>3, <1>4, <1>5, <1>6 DEF PredictorNext

LEMMA PaidIsNat ==
    ASSUME Inv
    PROVE  \A j \in JobIds : Paid[j] \in Nat
  BY DEF Inv, TypeOK, StoreTypeOK, JobRow, Paid

\* The commit of a job adds its points to both sides of the equation; the second
\* commit of a job, after a crash, to the score only, and then CreditedOnce fails.
LEMMA StandingCommit ==
    ASSUME Inv, PaidInv, StandingInv, NEW w \in Workers, Commit(w), UNCHANGED <<reg, asg, prd>>
    PROVE  StandingInv'
<1>0. PICK k, n, pts : k = wrk[w].job /\ n = job[k].match_id /\ pts = wrk[w].points
  OBVIOUS
<1>t. /\ prediction \in [Users -> [Matches -> PredictionRow]]
      /\ job \in [JobIds -> JobRow]
      /\ score \in [Users -> Nat]
      /\ wrk \in [Workers -> WorkerState]
  BY DEF Inv, TypeOK, StoreTypeOK, ProcessorTypeOK
<1>1. /\ wrk[w].pc = "computed" /\ UNCHANGED <<match, late>>
      /\ job' = [job EXCEPT ![k].credited = @ + 1]
      /\ prediction' = [u \in Users |-> [prediction[u] EXCEPT ![n] = WithPoints(@, pts[u])]]
      /\ score' = [u \in Users |-> Credited(score[u], pts[u])]
      /\ wrk' = [wrk EXCEPT ![w].pc = "committed", ![w].points = NotFound]
  BY <1>0 DEF Commit
<1>2. /\ k \in JobIds /\ job[k].state = "active" /\ n \in Matches /\ match[n].has_played
  BY <1>0, <1>1, JobAtWork
<1>3. /\ job'[k].credited = job[k].credited + 1 /\ job[k].credited \in Nat
      /\ \A j \in JobIds : /\ job'[j].match_id = job[j].match_id
                           /\ job'[j].state = job[j].state
                           /\ job'[j].stalled = job[j].stalled
                           /\ j # k => job'[j] = job[j]
  BY <1>t, <1>1, <1>2 DEF JobRow
<1>4. wrk'[w].pc = "committed" /\ \A x \in Workers \ {w} : wrk'[x] = wrk[x]
  BY <1>t, <1>1 DEF WorkerState, Waiting
<1>5. \A u \in Users : pts[u] \in Nat \cup {NULL} /\ (pts[u] # NULL => pts[u] <= 7)
  <2>1. \A u \in Users : pts[u] \in Nat \cup {NULL}
    BY <1>0, <1>1, <1>t DEF WorkerState, Waiting
  <2> QED BY <1>0, <1>1, <2>1 DEF StandingInv, SevenAtMost
<1>6. \A u \in Users, m \in Matches :
         prediction'[u][m] = IF m = n THEN WithPoints(prediction[u][m], pts[u]) ELSE prediction[u][m]
  BY <1>t, <1>1
<1>7. Scored(n)' /\ \A m \in Matches : m # n => (Scored(m)' <=> Scored(m))
  BY <1>0, <1>2, <1>3 DEF Scored
<1>8. UnscoredIsUnpaid'
  BY <1>1, <1>6, <1>7 DEF StandingInv, UnscoredIsUnpaid
<1>9. LateIsPlayed' /\ SavesCarryNoPoints'
  BY <1>1 DEF StandingInv, LateIsPlayed, SavesCarryNoPoints
<1>10. CreditsAreBounded'
  <2>1. job[k].credited <= job[k].stalled /\ job[k].stalled \in Nat
    BY <1>0, <1>1, <1>2, <1>t DEF StandingInv, CreditsAreBounded, JobRow, MaxStalledCount
  <2>2. ASSUME NEW j \in JobIds
        PROVE  /\ job'[j].credited <= job'[j].stalled + 1
               /\ job'[j].state = "wait" => job'[j].credited <= job'[j].stalled
    BY <1>2, <1>3, <2>1 DEF StandingInv, CreditsAreBounded
  <2>3. ASSUME NEW x \in Workers, wrk'[x].pc \in {"taken", "computed"}
        PROVE  job'[wrk'[x].job].credited <= job'[wrk'[x].job].stalled
    <3>1. x # w /\ wrk'[x] = wrk[x]
      BY <1>4, <2>3
    <3>2. wrk[x].job # k /\ wrk[x].job \in JobIds
      BY <1>0, <1>1, <2>3, <3>1, JobAtWork DEF Inv, ResultsInv, WorkersHoldJobs
    <3> QED BY <1>3, <2>3, <3>1, <3>2 DEF StandingInv, CreditsAreBounded
  <2> QED BY <2>2, <2>3 DEF CreditsAreBounded
<1>11. SevenAtMost'
  BY <1>4 DEF StandingInv, SevenAtMost
<1>12. ScoreIsPaid'
  <2>1. \A j \in JobIds : Paid[j] \in Nat
    BY PaidIsNat
  <2>2. Paid'[k] = Paid[k] + 7 /\ \A j \in JobIds \ {k} : Paid'[j] = Paid[j]
    BY <1>2, <1>3 DEF Paid
  <2>3. Total(Paid', JobIds) = Total(Paid, JobIds) + 7
    <3>1. PICK f, g : f = Paid /\ g = Paid'
      OBVIOUS
    <3>2. /\ \A j \in JobIds : f[j] \in Nat
          /\ g[k] = f[k] + 7
          /\ \A j \in JobIds \ {k} : g[j] = f[j]
      BY <2>1, <2>2, <3>1
    <3>3. Total(g, JobIds) = Total(f, JobIds) + 7
      BY <1>2, <3>2, JobIdsFinite, TotalMoves
    <3> QED BY <3>1, <3>3
  <2>4. Total(Paid, JobIds) \in Nat
    BY <2>1, JobIdsFinite, TotalType
  <2>5. ASSUME NEW u \in Users PROVE score'[u] <= Total(Paid, JobIds) + 7
    <3>1. score[u] <= Total(Paid, JobIds) /\ score[u] \in Nat
      BY <1>t DEF StandingInv, ScoreIsPaid
    <3>2. score'[u] = IF pts[u] = NULL THEN score[u] ELSE score[u] + pts[u]
      BY <1>1 DEF Credited
    <3> QED BY <1>5, <2>4, <3>1, <3>2
  <2> QED BY <2>3, <2>5 DEF ScoreIsPaid
<1>13. ScoreIsSumOfPoints'
  <2> SUFFICES ASSUME CreditedOnce', NEW u \in Users, NeverLate(u)'
               PROVE  score'[u] = PointsOf(u)'
    BY DEF ScoreIsSumOfPoints
  <2>1. job[k].credited = 0
    BY <1>2, <1>3 DEF CreditedOnce
  <2>2. CreditedOnce
    <3>1. ASSUME NEW j \in JobIds PROVE job[j].credited <= 1
      BY <1>3, <2>1 DEF CreditedOnce
    <3> QED BY <3>1 DEF CreditedOnce
  <2>3. NeverLate(u)
    BY <1>1 DEF NeverLate
  <2>4. score[u] = PointsOf(u)
    BY <2>2, <2>3 DEF StandingInv, ScoreIsSumOfPoints
  <2>5. score'[u] = IF pts[u] = NULL THEN score[u] ELSE score[u] + pts[u]
    BY <1>1 DEF Credited
  <2>6. prediction[u][n].points = 0
    <3>1. \A j \in JobIds : job[j].match_id = n => j = k
      <4>1. \A j \in JobIds : job[j].match_id = n => job[j].state # "unused"
        BY <1>2, StoreAssumption DEF Inv, ResultsInv, JobsCarryResults
      <4> QED BY <1>0, <1>2, <4>1 DEF Inv, ResultsInv, OneJobPerMatch
    <3>2. ~Scored(n)
      BY <2>1, <3>1 DEF Scored
    <3> QED BY <1>2, <2>3, <3>2 DEF StandingInv, UnscoredIsUnpaid, NeverLate
  <2>7. CASE pts[u] = NULL
    <3>1. \A m \in Matches : prediction'[u][m].points = prediction[u][m].points
      BY <1>6, <2>7 DEF WithPoints
    <3> QED BY <2>4, <2>5, <2>7, <3>1, SamePointsSameSum
  <2>8. CASE pts[u] # NULL
    <3> DEFINE f == RowPoints(prediction[u])
               g == RowPoints(prediction'[u])
    <3>1. \A m \in Matches : f[m] \in Nat
      BY <1>t DEF RowPoints, PredictionRow
    <3>2. g[n] = f[n] + pts[u]
      <4>1. prediction[u][n] \in PredictionRow
        BY <1>2, <1>t
      <4>2. prediction'[u][n].points = pts[u]
        BY <1>2, <1>6, <2>8, <4>1, PointsWritten
      <4>3. f[n] = 0 /\ g[n] = pts[u]
        BY <1>2, <2>6, <4>2 DEF RowPoints
      <4> HIDE DEF f, g
      <4> QED BY <1>5, <2>8, <4>3
    <3>3. \A m \in Matches \ {n} : g[m] = f[m]
      BY <1>6 DEF RowPoints
    <3>4. pts[u] \in Nat
      BY <1>5, <2>8
    <3>5. Total(g, Matches) = Total(f, Matches) + pts[u]
      <4> HIDE DEF f, g
      <4>1. IsFiniteSet(Matches) /\ n \in Matches
        BY <1>2, StoreAssumption
      <4>2. PICK d \in Nat : d = pts[u]
        BY <3>4
      <4>3. g[n] = f[n] + d
        BY <3>2, <4>2
      <4>4. Total(g, Matches) = Total(f, Matches) + d
        BY <3>1, <3>3, <4>1, <4>3, TotalMoves
      <4> QED BY <4>2, <4>4
    <3> QED BY <2>4, <2>5, <2>8, <3>5, PointsAreSummed
  <2> QED BY <2>7, <2>8
<1> QED BY <1>8, <1>9, <1>10, <1>11, <1>12, <1>13 DEF StandingInv

LEMMA StandingWorker ==
    ASSUME Inv, PaidInv, StandingInv, NEW w \in Workers, WorkerNext(w), UNCHANGED <<reg, asg, prd>>
    PROVE  StandingInv'
<1>t. /\ job \in [JobIds -> JobRow]
      /\ wrk \in [Workers -> WorkerState]
  BY DEF Inv, TypeOK, StoreTypeOK, ProcessorTypeOK
<1>n. ASSUME UNCHANGED <<match, prediction, score, late>>,
             \A j \in JobIds : job'[j].match_id = job[j].match_id /\ job'[j].credited = job[j].credited
      PROVE  UnscoredIsUnpaid' /\ LateIsPlayed' /\ SavesCarryNoPoints' /\ ScoreIsPaid'
             /\ ScoreIsSumOfPoints'
  <2>1. \A m \in Matches : Scored(m) => Scored(m)'
    BY <1>n DEF Scored
  <2> QED BY <1>n, <2>1, NobodyPaid
<1>1. CASE Take(w)
  <2>1. PICK k \in JobIds :
           /\ job[k].state = "wait"
           /\ job' = [job EXCEPT ![k].state = "active"]
           /\ wrk' = [wrk EXCEPT ![w] = [pc |-> "taken", job |-> k, points |-> NotFound]]
    BY <1>1 DEF Take
  <2>2. /\ job'[k].state = "active"
        /\ \A j \in JobIds : /\ job'[j].match_id = job[j].match_id
                             /\ job'[j].credited = job[j].credited
                             /\ job'[j].stalled = job[j].stalled
                             /\ j # k => job'[j] = job[j]
    BY <1>t, <2>1 DEF JobRow
  <2>3. wrk'[w].pc = "taken" /\ wrk'[w].job = k /\ \A x \in Workers \ {w} : wrk'[x] = wrk[x]
    BY <1>t, <2>1
  <2>4. CreditsAreBounded'
    <3>1. ASSUME NEW j \in JobIds
          PROVE  /\ job'[j].credited <= job'[j].stalled + 1
                 /\ job'[j].state = "wait" => job'[j].credited <= job'[j].stalled
      BY <2>2 DEF StandingInv, CreditsAreBounded
    <3>2. ASSUME NEW x \in Workers, wrk'[x].pc \in {"taken", "computed"}
          PROVE  job'[wrk'[x].job].credited <= job'[wrk'[x].job].stalled
      <4>1. CASE x = w
        BY <2>1, <2>2, <2>3, <4>1 DEF StandingInv, CreditsAreBounded
      <4>2. CASE x # w
        <5>1. wrk'[x] = wrk[x] /\ wrk[x].job \in JobIds
          BY <2>3, <3>2, <4>2, JobAtWork
        <5> QED BY <2>2, <3>2, <5>1 DEF StandingInv, CreditsAreBounded
      <4> QED BY <4>1, <4>2
    <3> QED BY <3>1, <3>2 DEF CreditsAreBounded
  <2>5. SevenAtMost'
    BY <2>3 DEF StandingInv, SevenAtMost
  <2>6. UNCHANGED <<match, prediction, score, late>>
    BY <1>1 DEF Take
  <2> QED BY <1>n, <2>2, <2>4, <2>5, <2>6 DEF StandingInv
<1>2. CASE Compute(w)
  <2>1. /\ UNCHANGED <<match, prediction, score, late, job>> /\ wrk[w].pc = "taken"
        /\ wrk'[w].pc = "computed" /\ wrk'[w].job = wrk[w].job
        /\ wrk'[w].points = JobPoints(job[wrk[w].job])
        /\ \A x \in Workers \ {w} : wrk'[x] = wrk[x]
    BY <1>2, <1>t DEF Compute, storeVars, WorkerState, Waiting
  <2>2. CreditsAreBounded'
    BY <2>1 DEF StandingInv, CreditsAreBounded
  <2>3. ASSUME NEW u \in Users, wrk'[w].points[u] # NULL PROVE wrk'[w].points[u] <= 7
    <3>1. PICK j, p : j = job[wrk[w].job] /\ p = prediction[u][j.match_id]
      OBVIOUS
    <3>2. wrk'[w].points[u] = IF p.stored THEN PointsTotal(p.local_score, p.visitor_score,
                                                           j.local_result, j.visiting_result)
                              ELSE NULL
      BY <2>1, <3>1 DEF JobPoints
    <3> QED BY <2>3, <3>2, SevenPoints
  <2>4. SevenAtMost'
    BY <2>1, <2>3 DEF StandingInv, SevenAtMost
  <2> QED BY <1>n, <2>1, <2>2, <2>4 DEF StandingInv
<1>3. ASSUME NEW state \in {"completed", "failed"}, wrk[w].pc # "idle", Finish(w, state)
      PROVE  StandingInv'
  <2>1. /\ UNCHANGED <<match, prediction, score, late>>
        /\ job' = [job EXCEPT ![wrk[w].job].state = state]
        /\ wrk' = [wrk EXCEPT ![w] = Waiting]
    BY <1>3 DEF Finish
  <2>2. \A j \in JobIds : /\ job'[j].match_id = job[j].match_id
                          /\ job'[j].credited = job[j].credited
                          /\ job'[j].stalled = job[j].stalled
                          /\ job'[j].state = "wait" => job[j].state = "wait"
    BY <1>t, <2>1 DEF JobRow
  <2>3. wrk'[w].pc = "idle" /\ \A x \in Workers \ {w} : wrk'[x] = wrk[x]
    BY <1>t, <2>1 DEF Waiting
  <2>4. CreditsAreBounded'
    <3>1. \A x \in Workers : wrk[x].pc # "idle" => wrk[x].job \in JobIds
      BY JobAtWork
    <3> QED BY <2>2, <2>3, <3>1 DEF StandingInv, CreditsAreBounded
  <2>5. SevenAtMost'
    BY <2>3 DEF StandingInv, SevenAtMost
  <2> QED BY <1>n, <2>1, <2>2, <2>4, <2>5 DEF StandingInv
<1> QED BY <1>1, <1>2, <1>3, StandingCommit DEF WorkerNext, Complete, JobFails

\* A stalled job goes back with one more delivery to its account.
LEMMA StandingStalled ==
    ASSUME Inv, StandingInv, StalledCheck, UNCHANGED <<reg, asg, prd>>
    PROVE  StandingInv'
<1>t. job \in [JobIds -> JobRow]
  BY DEF Inv, TypeOK, StoreTypeOK
<1>1. PICK k \in JobIds : RequeueStalled(k) \/ FailStalled(k)
  BY DEF StalledCheck
<1>2. UNCHANGED <<match, prediction, score, late, wrk>>
  BY <1>1 DEF RequeueStalled, FailStalled
<1>3. \A j \in JobIds : /\ job'[j].match_id = job[j].match_id
                        /\ job'[j].credited = job[j].credited
                        /\ j # k => job'[j] = job[j]
  BY <1>1, <1>t DEF RequeueStalled, FailStalled, JobRow
<1>4. \/ job'[k].stalled = job[k].stalled + 1
      \/ job'[k].stalled = job[k].stalled /\ job'[k].state = "failed"
  BY <1>1, <1>t DEF RequeueStalled, FailStalled, JobRow
<1>5. \A x \in Workers : wrk[x].pc # "idle" => wrk[x].job \in JobIds /\ wrk[x].job # k
  BY <1>1, JobAtWork DEF RequeueStalled, FailStalled, Stalled
<1>6. job[k].stalled \in Nat /\ job[k].credited \in Nat
  BY <1>t DEF JobRow, MaxStalledCount
<1>7. CreditsAreBounded'
  BY <1>2, <1>3, <1>4, <1>5, <1>6 DEF StandingInv, CreditsAreBounded
<1>8. \A m \in Matches : Scored(m) => Scored(m)'
  BY <1>3 DEF Scored
<1> QED BY <1>2, <1>3, <1>7, <1>8, NobodyPaid DEF StandingInv, SevenAtMost

LEMMA StandingRegistrar ==
    ASSUME Inv, PaidInv, StandingInv, NEW r \in Registrars, RegistrarNext(r), UNCHANGED <<prd, wrk>>,
           \A m \in Matches : match[m].has_played => match'[m].has_played
    PROVE  StandingInv'
<1>t. job \in [JobIds -> JobRow]
  BY DEF Inv, TypeOK, StoreTypeOK
<1>1. UNCHANGED <<prediction, score, late>>
  BY DEF RegistrarNext, RegisterFind, RegisterSelect, RegisterUpdate, Enqueue, EnqueueFails, storeVars
<1>2. CASE job' = job
  <2>1. \A m \in Matches : Scored(m) => Scored(m)'
    BY <1>2 DEF Scored
  <2> QED BY <1>1, <1>2, <2>1, NobodyPaid DEF StandingInv, CreditsAreBounded, SevenAtMost
<1>3. CASE Enqueue(r)
  <2>0. PICK row : row = [state |-> "wait", match_id |-> reg[r].id,
                          local_result |-> reg[r].match.local_result,
                          visiting_result |-> reg[r].match.visiting_result,
                          stalled |-> 0, credited |-> 0]
    OBVIOUS
  <2>1. PICK k \in JobIds : job[k].state = "unused" /\ job' = [job EXCEPT ![k] = row]
    BY <1>3, <2>0 DEF Enqueue, AddJob, NextId
  <2>2. /\ \A j \in JobIds : j # k => job'[j] = job[j]
        /\ job[k].credited = 0 /\ job'[k].credited = 0 /\ job'[k].stalled = 0
    BY <1>t, <2>0, <2>1 DEF PaidInv
  <2>3. \A m \in Matches : Scored(m) => Scored(m)'
    BY <2>2 DEF Scored
  <2>4. \A x \in Workers : wrk[x].pc # "idle" => wrk[x].job \in JobIds /\ wrk[x].job # k
    BY <2>1, JobAtWork
  <2>5. CreditsAreBounded'
    BY <2>2, <2>4 DEF StandingInv, CreditsAreBounded
  <2> QED BY <1>1, <2>2, <2>3, <2>5, NobodyPaid DEF StandingInv, SevenAtMost
<1> QED BY <1>2, <1>3 DEF RegistrarNext, RegisterFind, RegisterSelect, RegisterUpdate, EnqueueFails,
           storeVars

LEMMA StandingAssigner ==
    ASSUME Inv, RequestsApart, StandingInv, NEW a \in Assigners, AssignerNext(a),
           UNCHANGED <<prd, wrk>>
    PROVE  StandingInv'
<1>1. /\ UNCHANGED <<prediction, score, job, late>>
      /\ \A m \in Matches : match'[m].has_played = match[m].has_played
  BY AssignerKeeps
<1>2. \A m \in Matches : Scored(m) => Scored(m)'
  BY <1>1 DEF Scored
<1>3. CreditsAreBounded' /\ SevenAtMost'
  BY <1>1 DEF StandingInv, CreditsAreBounded, SevenAtMost
<1> QED BY <1>1, <1>2, <1>3, NobodyPaid DEF StandingInv

LEMMA StandingAside ==
    ASSUME Inv, StandingInv, Crash \/ (\E m \in Matches : KickOff(m)) \/ UNCHANGED vars
    PROVE  StandingInv'
<1>1. UNCHANGED <<match, prediction, score, job, late>>
  BY DEF Crash, KickOff, vars, storeVars
<1>2. /\ \A p \in Predictors : prd'[p] = prd[p] \/ prd'[p].pc = "idle"
      /\ \A w \in Workers : wrk'[w] = wrk[w] \/ wrk'[w].pc = "idle"
  BY DEF Crash, KickOff, vars, NoRequest, Waiting
<1>3. CreditsAreBounded' /\ SevenAtMost'
  BY <1>1, <1>2 DEF StandingInv, CreditsAreBounded, SevenAtMost
<1>4. \A m \in Matches : Scored(m) => Scored(m)'
  BY <1>1 DEF Scored
<1> QED BY <1>1, <1>2, <1>3, <1>4, NobodyPaid DEF StandingInv

LEMMA StandingStep ==
    ASSUME Inv, RequestsApart, PaidInv, StandingInv, [Next]_vars
    PROVE  StandingInv'
<1>1. \A m \in Matches : match[m].has_played => match'[m].has_played
  BY ResultStep
<1>2. ASSUME NEW a \in Assigners, AssignerNext(a), UNCHANGED <<prd, wrk>> PROVE StandingInv'
  BY <1>2, StandingAssigner
<1> QED BY <1>1, <1>2, StandingRegistrar, StandingPredictor, StandingWorker, StandingStalled,
           StandingAside DEF Next

LEMMA StandingInvariant == ApartSpec => [](Inv /\ PaidInv /\ StandingInv)
<1>1. ApartSpec => []Inv
  BY ResultsInvariant
<1>2. Init => PaidInv /\ StandingInv
  BY PaidInit, StandingInit
<1>3. Inv /\ Inv' /\ RequestsApart /\ PaidInv /\ StandingInv /\ [Next]_vars => PaidInv' /\ StandingInv'
  BY PaidStep, StandingStep
<1> QED BY <1>1, <1>2, <1>3, PTL DEF ApartSpec, Spec

\* users.score and the points of a player's predictions, kept by different
\* statements, agree for every player who never saved after a result, as long as
\* every job wrote its points once.
THEOREM ScoresAreSums == ApartSpec => []ScoreIsSumOfPoints
<1>1. StandingInv => ScoreIsSumOfPoints
  BY DEF StandingInv
<1> QED BY StandingInvariant, <1>1, PTL

\* The jobs that were used are at most as many as the matches with a result, so a
\* bound of each job is a bound of all.
LEMMA ScoreBound ==
    ASSUME Inv, StandingInv, NEW c \in Nat, \A j \in JobIds : 7 * job[j].credited <= c, PaidInv,
           NEW u \in Users
    PROVE  score[u] <= c * Cardinality(Played)
<1> DEFINE Used == {j \in JobIds : job[j].state # "unused"}
           f == [j \in Used |-> job[j].match_id]
<1>1. f \in Injection(Used, Played)
  <2>1. \A j \in Used : job[j].match_id \in Played
    BY DEF Inv, ResultsInv, JobsCarryResults, Played
  <2>2. \A i, j \in Used : f[i] = f[j] => i = j
    BY DEF Inv, ResultsInv, OneJobPerMatch
  <2> QED BY <2>1, <2>2 DEF Injection, IsInjective
<1>2. IsFiniteSet(Played)
  BY StoreAssumption, FS_Subset DEF Played
<1>3. IsFiniteSet(Used) /\ Cardinality(Used) <= Cardinality(Played)
  BY <1>1, <1>2, FS_Injection
<1>4. \A j \in JobIds : Paid[j] \in Nat /\ Paid[j] <= IF j \in Used THEN c ELSE 0
  <2>1. \A j \in JobIds : Paid[j] \in Nat /\ Paid[j] = 7 * job[j].credited
    BY PaidIsNat DEF Paid
  <2>2. \A j \in JobIds : j \notin Used => job[j].credited = 0
    BY DEF PaidInv
  <2> QED BY <2>1, <2>2
<1>5. Total(Paid, JobIds) <= c * Cardinality(Used)
  <2>1. Used \in SUBSET JobIds
    OBVIOUS
  <2> HIDE DEF Used, Paid
  <2> QED BY <1>4, <2>1, JobIdsFinite, TotalBounded
<1>6. score[u] <= Total(Paid, JobIds) /\ score[u] \in Nat /\ Total(Paid, JobIds) \in Nat
  BY <1>4, JobIdsFinite, TotalType DEF StandingInv, ScoreIsPaid, Inv, TypeOK, StoreTypeOK
<1>7. Cardinality(Used) \in Nat /\ Cardinality(Played) \in Nat
  BY <1>2, <1>3, FS_CardinalityType
<1>8. c * Cardinality(Used) <= c * Cardinality(Played)
  <2>1. \A x, y \in Nat : x <= y => c * x <= c * y
    OBVIOUS
  <2> HIDE DEF Used
  <2> QED BY <1>3, <1>7, <2>1
<1>9. c * Cardinality(Used) \in Nat /\ c * Cardinality(Played) \in Nat
  <2> HIDE DEF Used
  <2> QED BY <1>7
<1> HIDE DEF Used
<1> QED BY <1>5, <1>6, <1>8, <1>9

\* No match is worth more than 7 points to anybody, unless a crash has its points
\* written twice.
THEOREM ScoresWithinRules == ApartSpec => []ScoreWithinRules
<1>1. Inv /\ PaidInv /\ StandingInv => ScoreWithinRules
  <2> SUFFICES ASSUME Inv, PaidInv, StandingInv, CreditedOnce, NEW u \in Users
               PROVE  score[u] <= 7 * Cardinality(Played)
    BY DEF ScoreWithinRules
  <2>1. \A j \in JobIds : 7 * job[j].credited <= 7
    BY DEF CreditedOnce, Inv, TypeOK, StoreTypeOK, JobRow
  <2> QED BY <2>1, ScoreBound
<1> QED BY StandingInvariant, <1>1, PTL

\* And then twice at most: a crash gives a match at most MaxStalledCount more
\* payments, whatever fails and however often the process dies.
THEOREM RedeliveryBounded == ApartSpec => []RedeliveryIsBounded
<1>1. Inv /\ PaidInv /\ StandingInv => RedeliveryIsBounded
  <2> SUFFICES ASSUME Inv, PaidInv, StandingInv, NEW u \in Users
               PROVE  score[u] <= 7 * (1 + MaxStalledCount) * Cardinality(Played)
    BY DEF RedeliveryIsBounded
  <2>1. \A j \in JobIds : /\ job[j].credited \in Nat /\ job[j].stalled \in 0..1
                          /\ job[j].credited <= job[j].stalled + 1
    BY DEF StandingInv, CreditsAreBounded, Inv, TypeOK, StoreTypeOK, JobRow, MaxStalledCount
  <2>2. \A j \in JobIds : 7 * job[j].credited <= 14
    BY <2>1
  <2>3. score[u] <= 14 * Cardinality(Played)
    BY <2>2, ScoreBound
  <2>4. 7 * (1 + MaxStalledCount) = 14
    BY DEF MaxStalledCount
  <2> QED BY <2>3, <2>4
<1> QED BY StandingInvariant, <1>1, PTL

-----------------------------------------------------------------------------
\* With one admin, who registers one result after the other, in the group phase or
\* while nobody assigns teams, all of this holds of every behaviour: whatever players
\* do at the same time, and whatever fails, crashes or is delivered again.
THEOREM OneAdminIsSafe ==
    OneAdmin =>
        (Spec => /\ KeepsScoreboard /\ ResultIsFinal
                 /\ [](OneJobPerMatch /\ PointsFollowRules /\ ScoreIsSumOfPoints)
                 /\ [](ScoreWithinRules /\ RedeliveryIsBounded /\ NothingForgotten))
<1> SUFFICES ASSUME OneAdmin
             PROVE  Spec => /\ KeepsScoreboard /\ ResultIsFinal
                            /\ [](OneJobPerMatch /\ PointsFollowRules /\ ScoreIsSumOfPoints)
                            /\ [](ScoreWithinRules /\ RedeliveryIsBounded /\ NothingForgotten)
  OBVIOUS
<1>1. Spec => []RequestsApart
  BY OneAdminStaysApart
<1> QED BY <1>1, PipelineIsScoreboard, ResultStands, OneJob, PointsAreRight, ScoresAreSums,
           ScoresWithinRules, RedeliveryBounded, NoneForgotten, PTL DEF ApartSpec
=============================================================================
