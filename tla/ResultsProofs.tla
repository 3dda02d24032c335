--------------------------- MODULE ResultsProofs ---------------------------
(***************************************************************************)
(* What a registered result leads to when no two admins race for the same  *)
(* match: it is scored by one job, with the result the match shows, and    *)
(* every prediction saved in time ends with the points of the rules,       *)
(* whatever fails or crashes and however often a job is redelivered.       *)
(***************************************************************************)
EXTENDS PipelineProofs

\* Nobody else is at work on a match between the check of has_played and the
\* save that sets it.
RequestsApart ==
    /\ RegistrationsApart
    /\ \A r \in Registrars, a \in Assigners :
           AwaitsSave(r) /\ asg[a].pc # "idle" => reg[r].id # asg[a].id

\* A match has one registration at work at most, the one that wrote its result
\* and has its job still to add included.
OneRegistration ==
    \A r, s \in Registrars : reg[r].pc # "idle" /\ reg[r].id = reg[s].id => r = s

\* An assignment at work is of a match without result, and knows of none.
AssignmentIsEarly(a) ==
    asg[a].pc # "idle" =>
        /\ ~match[asg[a].id].has_played
        /\ Whole(asg[a].match) /\ ~asg[a].match.has_played
        /\ asg[a].pc = "selected" => Whole(asg[a].seen) /\ ~asg[a].seen.has_played

\* A registration is of a match no job knows of, and saves its row as it is but
\* for the result.
RegistrationIsFirst(r) ==
    reg[r].pc # "idle" =>
        /\ reg[r].match.local_result # NULL /\ reg[r].match.visiting_result # NULL
        /\ \A j \in JobIds : job[j].match_id # reg[r].id
        /\ reg[r].pc \in {"found", "selected"} =>
              /\ ~match[reg[r].id].has_played
              /\ reg[r].match = WithResult(match[reg[r].id], reg[r].match.local_result,
                                           reg[r].match.visiting_result)
        /\ reg[r].pc = "selected" => reg[r].seen = match[reg[r].id]
        /\ reg[r].pc = "saved" => reg[r].match = match[reg[r].id]

\* A job carries the result its match shows.
JobsCarryResults ==
    \A j \in JobIds :
        IF job[j].state = "unused" THEN job[j].match_id = NULL
        ELSE /\ job[j].match_id \in Matches
             /\ match[job[j].match_id].has_played
             /\ job[j].local_result = match[job[j].match_id].local_result
             /\ job[j].visiting_result = match[job[j].match_id].visiting_result

\* No job is held by two workers, and a job that is held is active.
WorkersHoldJobs ==
    /\ \A w \in Workers : wrk[w].pc # "idle" => job[wrk[w].job].state = "active"
    /\ \A w, x \in Workers : wrk[w].pc # "idle" /\ wrk[w].job = wrk[x].job => w = x

\* What a worker is about to write is right for every prediction saved in time.
ComputedPointsAreRight ==
    \A w \in Workers, u \in Users :
        LET m == job[wrk[w].job].match_id
            p == prediction[u][m]
        IN wrk[w].pc = "computed" /\ p.stored /\ ~late[u][m] =>
               wrk[w].points[u] = PointsTotal(p.local_score, p.visitor_score,
                                              match[m].local_result, match[m].visiting_result)

ResultsInv ==
    /\ ResultAllOrNothing
    /\ OneRegistration
    /\ \A r \in Registrars : RegistrationIsFirst(r)
    /\ \A a \in Assigners : AssignmentIsEarly(a)
    /\ JobsCarryResults
    /\ OneJobPerMatch
    /\ WorkersHoldJobs
    /\ ComputedPointsAreRight
    /\ PointsFollowRules

\* Behaviours in which nobody else is at work on a match between the check of
\* has_played and the save that sets it.
ApartSpec == Spec /\ []RequestsApart

\* The invariant the steps are proved against.
Inv == TypeOK /\ ResultsInv

LEMMA SavedFresh ==
    ASSUME NEW e \in MatchRow, NEW s \in MatchRow
    PROVE  Saved(e, s, s) = e
  BY DEF Saved, MatchRow

\* A scored match has a job, and so has its result.
LEMMA ScoredIsPlayed ==
    ASSUME Inv, NEW m \in Matches, Scored(m)
    PROVE  match[m].has_played /\ \E j \in JobIds : job[j].match_id = m
<1>1. PICK j \in JobIds : job[j].match_id = m
  BY DEF Scored
<1>2. job[j].match_id # NULL
  BY <1>1, StoreAssumption
<1> QED BY <1>1, <1>2 DEF Inv, ResultsInv, JobsCarryResults

LEMMA ResultsInit == Init => ResultsInv
<1> SUFFICES ASSUME Init PROVE ResultsInv
  OBVIOUS
<1>1. /\ \A j \in JobIds : job[j].state = "unused" /\ job[j].match_id = NULL /\ job[j].credited = 0
      /\ \A r \in Registrars : reg[r].pc = "idle"
      /\ \A a \in Assigners : asg[a].pc = "idle"
      /\ \A w \in Workers : wrk[w].pc = "idle"
  BY DEF Init, StoreInit, MatchesInit, ProcessorInit, NoJob, Idle, Waiting
<1>2. ResultAllOrNothing
  BY DEF Init, StoreInit, ResultAllOrNothing, Whole
<1> QED BY <1>1, <1>2 DEF ResultsInv, OneRegistration, AssignmentIsEarly, RegistrationIsFirst,
           JobsCarryResults, OneJobPerMatch, WorkersHoldJobs, ComputedPointsAreRight,
           PointsFollowRules, Scored

\* Steps of neither registrations nor assignments.
LEMMA RequestsAside ==
    ASSUME Inv, UNCHANGED <<match, reg, asg>>
    PROVE  OneRegistration' /\ \A a \in Assigners : AssignmentIsEarly(a)'
  BY DEF Inv, ResultsInv, OneRegistration, AssignmentIsEarly

\* A player's save either marks the prediction late or comes before the result.
LEMMA ResultsPredictor ==
    ASSUME Inv, NEW p \in Predictors, PredictorNext(p), UNCHANGED <<reg, asg, wrk>>
    PROVE  ResultsInv'
<1>1. UNCHANGED <<match, job, reg, wrk>>
  BY DEF PredictorNext, CheckMatch, LoadPrediction, SelectPrediction, UpdatePrediction,
     InsertPrediction, InsertConflicts, WriteRow, storeVars
<1>t. /\ prediction \in [Users -> [Matches -> PredictionRow]]
      /\ late \in [Users -> [Matches -> BOOLEAN]]
  BY DEF Inv, TypeOK, StoreTypeOK
<1>2. ASSUME NEW u \in Users, NEW m \in Matches, ~late'[u][m], match[m].has_played
      PROVE  ~late[u][m] /\ prediction'[u][m] = prediction[u][m]
  <2>1. CASE UNCHANGED storeVars
    BY <1>2, <2>1 DEF storeVars
  <2>2. ASSUME NEW row, WriteRow(p, row)
        PROVE  ~late[u][m] /\ prediction'[u][m] = prediction[u][m]
    BY <1>2, <1>t, <2>2 DEF WriteRow
  <2> QED BY <2>1, <2>2 DEF PredictorNext, CheckMatch, LoadPrediction, SelectPrediction,
             UpdatePrediction, InsertPrediction, InsertConflicts
<1>3. \A m : Scored(m)' <=> Scored(m)
  BY <1>1 DEF Scored
<1>4. PointsFollowRules'
  BY <1>1, <1>2, <1>3, ScoredIsPlayed DEF PointsFollowRules, Inv, ResultsInv
<1>5. ComputedPointsAreRight'
  <2>1. ASSUME NEW w \in Workers, wrk[w].pc = "computed"
        PROVE  job[wrk[w].job].match_id \in Matches /\ match[job[wrk[w].job].match_id].has_played
    <3>1. wrk[w].job \in JobIds /\ job[wrk[w].job].state = "active"
      BY <2>1 DEF Inv, ResultsInv, WorkersHoldJobs, TypeOK, ProcessorTypeOK, WorkerState, Waiting
    <3> QED BY <3>1 DEF Inv, ResultsInv, JobsCarryResults
  <2> QED BY <1>1, <1>2, <2>1, SMTT(60) DEF ComputedPointsAreRight, Inv, ResultsInv
<1>6. /\ ResultAllOrNothing' /\ JobsCarryResults' /\ OneJobPerMatch' /\ WorkersHoldJobs'
      /\ \A r \in Registrars : RegistrationIsFirst(r)'
  BY <1>1 DEF Inv, ResultsInv, ResultAllOrNothing, Whole, JobsCarryResults, OneJobPerMatch,
     WorkersHoldJobs, RegistrationIsFirst
<1> QED BY <1>1, <1>4, <1>5, <1>6, RequestsAside DEF ResultsInv

LEMMA PointsWritten ==
    ASSUME NEW row \in PredictionRow, NEW points
    PROVE  /\ WithPoints(row, points).stored = row.stored
           /\ WithPoints(row, points).local_score = row.local_score
           /\ WithPoints(row, points).visitor_score = row.visitor_score
           /\ points # NULL => WithPoints(row, points).points = points
  BY DEF WithPoints, PredictionRow

\* The worker: it reads the points of a match whose result stands, and writes
\* them on the predictions of that match only.
LEMMA ResultsWorker ==
    ASSUME Inv, NEW w \in Workers, WorkerNext(w), UNCHANGED <<reg, asg, prd>>
    PROVE  ResultsInv'
<1>t. /\ match \in [Matches -> MatchRow]
      /\ prediction \in [Users -> [Matches -> PredictionRow]]
      /\ job \in [JobIds -> JobRow]
      /\ wrk \in [Workers -> WorkerState]
  BY DEF Inv, TypeOK, StoreTypeOK, ProcessorTypeOK
<1>i. /\ ResultAllOrNothing /\ JobsCarryResults /\ OneJobPerMatch /\ WorkersHoldJobs
      /\ ComputedPointsAreRight /\ PointsFollowRules
      /\ \A r \in Registrars : RegistrationIsFirst(r)
  BY DEF Inv, ResultsInv
<1>m. match' = match /\ late' = late /\ reg' = reg
  BY DEF WorkerNext, Take, Compute, Commit, Complete, JobFails, Finish, storeVars
<1>j. ASSUME NEW x \in Workers, wrk[x].pc # "idle"
      PROVE  wrk[x].job \in JobIds /\ job[wrk[x].job].state = "active"
  BY <1>t, <1>i, <1>j DEF WorkersHoldJobs, WorkerState, Waiting
\* What every step of the worker does to the jobs: their states and credits only.
<1>s. /\ \A j \in JobIds :
            /\ job'[j].match_id = job[j].match_id
            /\ job'[j].local_result = job[j].local_result
            /\ job'[j].visiting_result = job[j].visiting_result
            /\ job'[j].state = "unused" <=> job[j].state = "unused"
      /\ DOMAIN job' = JobIds
  <2>1. CASE Take(w)
    BY <1>t, <2>1 DEF Take, JobRow
  <2>2. CASE Compute(w)
    BY <1>t, <2>2 DEF Compute, storeVars
  <2>4. CASE Commit(w)
    <3>1. job' = [job EXCEPT ![wrk[w].job].credited = @ + 1]
      BY <2>4 DEF Commit
    <3> QED BY <1>t, <3>1 DEF JobRow
  <2>3. ASSUME NEW state \in {"completed", "failed"}, wrk[w].pc # "idle", Finish(w, state)
        PROVE  /\ \A j \in JobIds :
                     /\ job'[j].match_id = job[j].match_id
                     /\ job'[j].local_result = job[j].local_result
                     /\ job'[j].visiting_result = job[j].visiting_result
                     /\ job'[j].state = "unused" <=> job[j].state = "unused"
               /\ DOMAIN job' = JobIds
    BY <1>t, <1>j, <2>3 DEF Finish, JobRow
  <2> QED BY <2>1, <2>2, <2>3, <2>4 DEF WorkerNext, Complete, JobFails
\* Nothing but a commit scores a match.
<1>c. ASSUME ~Commit(w), NEW m \in Matches, Scored(m)' PROVE Scored(m)
  <2>1. \A j \in JobIds : job'[j].credited = job[j].credited
    <3>1. CASE Take(w)
      BY <1>t, <3>1 DEF Take, JobRow
    <3>2. CASE Compute(w)
      BY <3>2 DEF Compute, storeVars
    <3>3. ASSUME NEW state \in {"completed", "failed"}, Finish(w, state)
          PROVE  \A j \in JobIds : job'[j].credited = job[j].credited
      BY <1>t, <3>3 DEF Finish, JobRow
    <3> QED BY <1>c, <3>1, <3>2, <3>3 DEF WorkerNext, Complete, JobFails
  <2> QED BY <1>c, <1>s, <2>1 DEF Scored
<1>1. /\ ResultAllOrNothing' /\ JobsCarryResults' /\ OneJobPerMatch'
      /\ \A r \in Registrars : RegistrationIsFirst(r)'
      /\ OneRegistration' /\ \A a \in Assigners : AssignmentIsEarly(a)'
  <2>1. OneRegistration' /\ \A a \in Assigners : AssignmentIsEarly(a)'
    BY <1>m, RequestsAside
  <2> QED BY <1>i, <1>m, <1>s, <2>1 DEF ResultAllOrNothing, Whole, JobsCarryResults, OneJobPerMatch,
             RegistrationIsFirst
<1>2. WorkersHoldJobs'
  <2>1. CASE Take(w)
    <3>1. PICK j \in JobIds :
             /\ job[j].state = "wait"
             /\ job' = [job EXCEPT ![j].state = "active"]
             /\ wrk' = [wrk EXCEPT ![w] = [pc |-> "taken", job |-> j, points |-> NotFound]]
      BY <2>1 DEF Take
    <3>2. \A x \in Workers \ {w} : wrk'[x] = wrk[x]
      BY <1>t, <3>1
    <3>3. wrk'[w].pc = "taken" /\ wrk'[w].job = j
      BY <1>t, <3>1
    <3>4. ASSUME NEW x \in Workers, x # w, wrk[x].pc # "idle" PROVE wrk[x].job # j
      BY <1>j, <3>1, <3>4
    <3>5. ASSUME NEW x \in Workers, x # w, wrk[x].pc = "idle" PROVE wrk[x].job = 0
      BY <1>t, <3>5 DEF WorkerState, Waiting
    <3>6. /\ job'[j].state = "active"
          /\ \A i \in JobIds \ {j} : job'[i] = job[i]
      BY <1>t, <3>1 DEF JobRow
    <3>7. j # 0
      BY StoreAssumption DEF JobIds
    <3>8. ASSUME NEW x \in Workers, wrk'[x].pc # "idle" PROVE job'[wrk'[x].job].state = "active"
      BY <1>j, <3>2, <3>3, <3>4, <3>6, <3>8
    <3>9. ASSUME NEW x \in Workers, NEW y \in Workers, wrk'[x].pc # "idle", wrk'[x].job = wrk'[y].job
          PROVE  x = y
      <4>1. CASE x = w
        BY <3>2, <3>3, <3>4, <3>5, <3>7, <3>9, <4>1
      <4>2. CASE x # w /\ y = w
        BY <3>2, <3>3, <3>4, <3>9, <4>2
      <4>3. CASE x # w /\ y # w
        BY <1>i, <3>2, <3>9, <4>3 DEF WorkersHoldJobs
      <4> QED BY <4>1, <4>2, <4>3
    <3> QED BY <3>8, <3>9 DEF WorkersHoldJobs
  <2>2. CASE Compute(w) \/ Commit(w)
    <3>1. /\ wrk[w].pc # "idle" /\ wrk'[w].pc # "idle"
          /\ wrk'[w].job = wrk[w].job
          /\ \A x \in Workers \ {w} : wrk'[x] = wrk[x]
      BY <1>t, <2>2 DEF Compute, Commit, storeVars, WorkerState, Waiting
    <3>3. \A j \in JobIds : job'[j].state = job[j].state
      BY <1>t, <2>2 DEF Compute, Commit, storeVars, JobRow
    <3>2. \A x \in Workers : (wrk'[x].pc # "idle" <=> wrk[x].pc # "idle") /\ wrk'[x].job = wrk[x].job
      BY <3>1
    <3> QED BY <1>i, <1>j, <3>2, <3>3 DEF WorkersHoldJobs
  <2>3. ASSUME NEW state \in {"completed", "failed"}, wrk[w].pc # "idle", Finish(w, state)
        PROVE  WorkersHoldJobs'
    <3>1. /\ wrk'[w] = Waiting
          /\ \A x \in Workers \ {w} : wrk'[x] = wrk[x]
      BY <1>t, <2>3 DEF Finish
    <3>2. \A i \in JobIds : i # wrk[w].job => job'[i] = job[i]
      BY <1>t, <2>3 DEF Finish
    <3>3. ASSUME NEW x \in Workers, wrk'[x].pc # "idle"
          PROVE  /\ x # w /\ wrk[x].pc # "idle" /\ wrk'[x].job = wrk[x].job
                 /\ wrk[x].job # wrk[w].job
      BY <1>i, <3>1, <3>3 DEF Waiting, WorkersHoldJobs
    <3>4. ASSUME NEW x \in Workers, wrk'[x].pc # "idle" PROVE job'[wrk'[x].job].state = "active"
      BY <1>j, <3>2, <3>3, <3>4
    <3>5. ASSUME NEW x \in Workers, NEW y \in Workers, wrk'[x].pc # "idle", wrk'[x].job = wrk'[y].job
          PROVE  x = y
      <4>1. wrk'[x].job \in JobIds
        BY <1>j, <3>3, <3>5
      <4>2. y # w
        BY StoreAssumption, <3>1, <3>5, <4>1 DEF Waiting, JobIds
      <4> QED BY <1>i, <3>1, <3>3, <3>5, <4>2 DEF WorkersHoldJobs
    <3> QED BY <3>4, <3>5 DEF WorkersHoldJobs
  <2> QED BY <2>1, <2>2, <2>3 DEF WorkerNext, Complete, JobFails
\* The points of the match of a job at work, as the job and as the match see them.
<1>r. ASSUME NEW x \in Workers, wrk[x].pc # "idle"
      PROVE  LET j == job[wrk[x].job]
             IN /\ j.match_id \in Matches
                /\ j.local_result = match[j.match_id].local_result
                /\ j.visiting_result = match[j.match_id].visiting_result
  BY <1>i, <1>j, <1>r DEF JobsCarryResults
<1>3. CASE Take(w)
  <2>1. prediction' = prediction
    BY <1>3 DEF Take
  <2>2. PICK j \in JobIds :
           /\ job[j].state = "wait"
           /\ job' = [job EXCEPT ![j].state = "active"]
           /\ wrk' = [wrk EXCEPT ![w] = [pc |-> "taken", job |-> j, points |-> NotFound]]
    BY <1>3 DEF Take
  <2>3. \A x \in Workers : wrk'[x].pc \in {"computed", "committed"} => wrk'[x] = wrk[x]
    BY <1>t, <2>2
  <2>4. ~Commit(w)
    BY <1>3 DEF Take, Commit
  <2>5. \A m \in Matches : Scored(m)' => Scored(m)
    BY <1>c, <2>4
  <2>6. ComputedPointsAreRight'
    BY <1>i, <1>m, <1>s, <1>j, <2>1, <2>3, SMTT(60) DEF ComputedPointsAreRight
  <2>7. PointsFollowRules'
    BY <1>i, <1>m, <2>1, <2>5 DEF PointsFollowRules
  <2> QED BY <1>1, <1>2, <2>6, <2>7 DEF ResultsInv
<1>4. CASE Compute(w)
  <2>1. prediction' = prediction /\ job' = job
    BY <1>4 DEF Compute, storeVars
  <2>2. /\ wrk[w].pc = "taken" /\ wrk'[w].pc = "computed" /\ wrk'[w].job = wrk[w].job
        /\ wrk'[w].points = JobPoints(job[wrk[w].job])
        /\ \A x \in Workers \ {w} : wrk'[x] = wrk[x]
    BY <1>4, <1>t DEF Compute, WorkerState, Waiting
  <2>3. \A m \in Matches : Scored(m)' => Scored(m)
    BY <2>1 DEF Scored
  <2>4. ComputedPointsAreRight'
    <3>1. ASSUME NEW x \in Workers, NEW u \in Users, wrk'[x].pc = "computed",
                 prediction[u][job[wrk'[x].job].match_id].stored,
                 ~late[u][job[wrk'[x].job].match_id]
          PROVE  LET m == job[wrk'[x].job].match_id
                     p == prediction[u][m]
                 IN wrk'[x].points[u] = PointsTotal(p.local_score, p.visitor_score,
                                                    match[m].local_result, match[m].visiting_result)
      <4>1. CASE x = w
        <5> DEFINE j == job[wrk[w].job]
        <5>1. wrk'[w].job = wrk[w].job /\ wrk'[w].points = JobPoints(j)
          BY <2>2
        <5>2. JobPoints(j)[u] = PointsTotal(prediction[u][j.match_id].local_score,
                                            prediction[u][j.match_id].visitor_score,
                                            j.local_result, j.visiting_result)
          BY <3>1, <4>1, <5>1 DEF JobPoints
        <5>3. /\ j.local_result = match[j.match_id].local_result
              /\ j.visiting_result = match[j.match_id].visiting_result
          BY <1>r, <2>2
        <5> QED BY <4>1, <5>1, <5>2, <5>3
      <4>2. CASE x # w
        BY <1>i, <2>2, <3>1, <4>2, SMTT(20) DEF ComputedPointsAreRight
      <4> QED BY <4>1, <4>2
    <3> QED BY <1>m, <2>1, <3>1 DEF ComputedPointsAreRight
  <2>5. PointsFollowRules'
    BY <1>i, <1>m, <2>1, <2>3 DEF PointsFollowRules
  <2> QED BY <1>1, <1>2, <2>4, <2>5 DEF ResultsInv
<1>5. CASE Commit(w)
  <2> DEFINE n == job[wrk[w].job].match_id
             pts == wrk[w].points
  <2>1. /\ wrk[w].pc = "computed" /\ wrk'[w].pc = "committed" /\ wrk'[w].job = wrk[w].job
        /\ \A x \in Workers \ {w} : wrk'[x] = wrk[x]
    BY <1>5, <1>t, <1>m DEF Commit, WorkerState, Waiting
  <2>2. n \in Matches
    BY <1>r, <2>1
  <2>3. ASSUME NEW u \in Users, NEW m \in Matches
        PROVE  prediction'[u][m] = IF m = n THEN WithPoints(prediction[u][m], pts[u])
                                            ELSE prediction[u][m]
    <3>1. prediction' = [x \in Users |-> [prediction[x] EXCEPT ![n] = WithPoints(@, pts[x])]]
      BY <1>5 DEF Commit
    <3> HIDE DEF n, pts
    <3> QED BY <1>t, <3>1
  <2>4. ASSUME NEW u \in Users, NEW m \in Matches
        PROVE  /\ prediction'[u][m].stored = prediction[u][m].stored
               /\ prediction'[u][m].local_score = prediction[u][m].local_score
               /\ prediction'[u][m].visitor_score = prediction[u][m].visitor_score
    <3>1. prediction[u][m] \in PredictionRow
      BY <1>t
    <3> QED BY <2>3, <3>1, PointsWritten
  <2>5. ASSUME NEW m \in Matches, Scored(m)', m # n PROVE Scored(m)
    <3>1. \A j \in JobIds : j # wrk[w].job => job'[j] = job[j]
      BY <1>5, <1>t DEF Commit
    <3> QED BY <1>s, <2>5, <3>1 DEF Scored
  <2>6. PointsFollowRules'
    <3>1. ASSUME NEW u \in Users, NEW m \in Matches, Scored(m)', prediction'[u][m].stored,
                 ~late[u][m]
          PROVE  prediction'[u][m].points =
                     PointsTotal(prediction'[u][m].local_score, prediction'[u][m].visitor_score,
                                 match[m].local_result, match[m].visiting_result)
      <4>1. CASE m = n
        <5>1. pts[u] = PointsTotal(prediction[u][m].local_score, prediction[u][m].visitor_score,
                                   match[m].local_result, match[m].visiting_result)
          BY <1>i, <2>1, <2>4, <3>1, <4>1 DEF ComputedPointsAreRight
        <5>2. pts[u] \in Nat
          BY <5>1, TotalInNat
        <5>3. pts[u] # NULL
          BY <5>2, NullAssumption
        <5>4. prediction'[u][m].points = pts[u]
          <6>1. prediction[u][m] \in PredictionRow
            BY <1>t
          <6> QED BY <2>3, <4>1, <5>3, <6>1, PointsWritten
        <5> QED BY <2>4, <5>1, <5>4
      <4>2. CASE m # n
        <5>1. prediction'[u][m] = prediction[u][m] /\ Scored(m)
          BY <2>3, <2>5, <3>1, <4>2
        <5> QED BY <1>i, <3>1, <5>1 DEF PointsFollowRules
      <4> QED BY <4>1, <4>2
    <3> QED BY <1>m, <3>1 DEF PointsFollowRules
  <2>7. ComputedPointsAreRight'
    <3>1. ASSUME NEW x \in Workers, NEW u \in Users, wrk'[x].pc = "computed"
          PROVE  /\ x # w /\ wrk'[x] = wrk[x] /\ job[wrk[x].job].match_id \in Matches
                 /\ job'[wrk[x].job].match_id = job[wrk[x].job].match_id
      BY <1>j, <1>r, <1>s, <2>1, <3>1
    <3>2. ASSUME NEW x \in Workers, NEW u \in Users, wrk'[x].pc = "computed",
                 prediction'[u][job'[wrk'[x].job].match_id].stored,
                 ~late[u][job'[wrk'[x].job].match_id]
          PROVE  LET m == job'[wrk'[x].job].match_id
                     p == prediction'[u][m]
                 IN wrk'[x].points[u] = PointsTotal(p.local_score, p.visitor_score,
                                                    match[m].local_result, match[m].visiting_result)
      <4> DEFINE m == job[wrk[x].job].match_id
      <4>1. wrk'[x] = wrk[x] /\ m \in Matches /\ job'[wrk'[x].job].match_id = m
        BY <3>1, <3>2
      <4>2. prediction[u][m].stored /\ ~late[u][m] /\ wrk[x].pc = "computed"
        BY <2>4, <3>2, <4>1
      <4>3. wrk[x].points[u] = PointsTotal(prediction[u][m].local_score, prediction[u][m].visitor_score,
                                           match[m].local_result, match[m].visiting_result)
        BY <1>i, <4>2 DEF ComputedPointsAreRight
      <4> HIDE DEF m
      <4> QED BY <2>4, <4>1, <4>3
    <3> QED BY <1>m, <3>2 DEF ComputedPointsAreRight
  <2> QED BY <1>1, <1>2, <2>6, <2>7 DEF ResultsInv
<1>6. CASE Complete(w) \/ JobFails(w)
  <2>1. prediction' = prediction /\ wrk[w].pc # "idle" /\ wrk' = [wrk EXCEPT ![w] = Waiting]
    BY <1>6 DEF Complete, JobFails, Finish
  <2>2. /\ wrk'[w] = Waiting
        /\ \A x \in Workers \ {w} : wrk'[x] = wrk[x]
    BY <1>t, <2>1
  <2>3. ~Commit(w)
    <3>1. wrk'[w] = Waiting
      BY <2>2
    <3> QED BY <1>t, <3>1 DEF Commit, Waiting, WorkerState
  <2>4. \A m \in Matches : Scored(m)' => Scored(m)
    BY <1>c, <2>3
  <2>5. ComputedPointsAreRight'
    <3>1. ASSUME NEW x \in Workers, wrk'[x].pc = "computed"
          PROVE  wrk'[x] = wrk[x] /\ job'[wrk[x].job].match_id = job[wrk[x].job].match_id
      BY <1>j, <1>s, <2>2, <3>1 DEF Waiting
    <3> QED BY <1>i, <1>m, <2>1, <3>1, SMTT(20) DEF ComputedPointsAreRight
  <2>6. PointsFollowRules'
    BY <1>i, <1>m, <2>1, <2>4 DEF PointsFollowRules
  <2> QED BY <1>1, <1>2, <2>5, <2>6 DEF ResultsInv
<1> QED BY <1>3, <1>4, <1>5, <1>6 DEF WorkerNext

\* A job put back or given up changes its state, and nobody was at work on it.
LEMMA ResultsStalled ==
    ASSUME Inv, StalledCheck, UNCHANGED <<reg, asg, prd>>
    PROVE  ResultsInv'
<1>t. job \in [JobIds -> JobRow] /\ wrk \in [Workers -> WorkerState]
  BY DEF Inv, TypeOK, StoreTypeOK, ProcessorTypeOK
<1>1. PICK j \in JobIds : RequeueStalled(j) \/ FailStalled(j)
  BY DEF StalledCheck
<1>2. UNCHANGED <<match, prediction, late, reg, wrk>>
  BY <1>1 DEF RequeueStalled, FailStalled
<1>3. \A w \in Workers : wrk[w].job # j
  BY <1>1 DEF RequeueStalled, FailStalled, Stalled
<1>4. /\ job[j].state = "active" /\ job'[j].state \in {"wait", "failed"}
      /\ job'[j].match_id = job[j].match_id /\ job'[j].credited = job[j].credited
      /\ job'[j].local_result = job[j].local_result
      /\ job'[j].visiting_result = job[j].visiting_result
      /\ \A i \in JobIds : i # j => job'[i] = job[i]
  BY <1>1, <1>t DEF RequeueStalled, FailStalled, Stalled, JobRow
<1>5. ASSUME NEW w \in Workers, wrk[w].pc # "idle"
      PROVE  wrk[w].job \in JobIds /\ job'[wrk[w].job] = job[wrk[w].job]
  BY <1>t, <1>3, <1>4, <1>5 DEF WorkerState, Waiting
<1>6. \A m \in Matches : Scored(m)' => Scored(m)
  BY <1>4 DEF Scored
<1>7. /\ \A r \in Registrars : RegistrationIsFirst(r)'
      /\ JobsCarryResults' /\ OneJobPerMatch' /\ ResultAllOrNothing'
  BY <1>2, <1>4 DEF Inv, ResultsInv, RegistrationIsFirst, JobsCarryResults, OneJobPerMatch,
     ResultAllOrNothing, Whole
<1>11. OneRegistration' /\ \A a \in Assigners : AssignmentIsEarly(a)'
  BY <1>2, RequestsAside
<1>8. WorkersHoldJobs'
  BY <1>2, <1>5 DEF Inv, ResultsInv, WorkersHoldJobs
<1>9. ComputedPointsAreRight'
  BY <1>2, <1>5, SMTT(20) DEF Inv, ResultsInv, ComputedPointsAreRight
<1>10. PointsFollowRules'
  BY <1>2, <1>6 DEF Inv, ResultsInv, PointsFollowRules
<1> QED BY <1>7, <1>8, <1>9, <1>10, <1>11 DEF ResultsInv

\* Another request of the match is none of the steps of this one.
LEMMA OthersFirst ==
    ASSUME Inv, NEW r \in Registrars, NEW q \in Registrars, RegistrationIsFirst(q),
           reg'[q] = reg[q],
           reg[q].pc # "idle" => /\ match'[reg[q].id] = match[reg[q].id]
                                 /\ \A j \in JobIds : job'[j].match_id # reg[q].id
    PROVE  RegistrationIsFirst(q)'
  BY DEF RegistrationIsFirst

\* A registration, while no other request races it.
LEMMA ResultsRegistrar ==
    ASSUME Inv, RequestsApart, RequestsApart', NEW r \in Registrars, RegistrarNext(r),
           UNCHANGED <<prd, wrk>>
    PROVE  ResultsInv'
<1>t. /\ match \in [Matches -> MatchRow]
      /\ job \in [JobIds -> JobRow]
      /\ reg \in [Registrars -> RegistrarState]
      /\ wrk \in [Workers -> WorkerState]
  BY DEF Inv, TypeOK, StoreTypeOK, MatchesTypeOK, ProcessorTypeOK
<1>i. /\ ResultAllOrNothing /\ JobsCarryResults /\ OneJobPerMatch /\ WorkersHoldJobs
      /\ ComputedPointsAreRight /\ PointsFollowRules
      /\ \A q \in Registrars : RegistrationIsFirst(q)
      /\ OneRegistration
      /\ \A a \in Assigners : AssignmentIsEarly(a)
  BY DEF Inv, ResultsInv
<1>g. NULL \notin Goals
  <2>1. NULL \in Goals => NULL \in Nat
    BY StoreAssumption
  <2> QED BY <2>1, NullAssumption
<1>m. /\ prediction' = prediction /\ late' = late /\ wrk' = wrk /\ asg' = asg
      /\ \A q \in Registrars \ {r} : reg'[q] = reg[q]
  BY <1>t DEF RegistrarNext, RegisterFind, RegisterSelect, RegisterUpdate, Enqueue, EnqueueFails,
     storeVars
<1>j. ASSUME NEW w \in Workers, wrk[w].pc # "idle"
      PROVE  wrk[w].job \in JobIds /\ job[wrk[w].job].state = "active"
  BY <1>t, <1>i, <1>j DEF WorkersHoldJobs, WorkerState, Waiting
<1>r. reg' \in [Registrars -> RegistrarState]
  BY TypeRegistrar DEF Inv, TypeOK, MatchesTypeOK
<1>p. ASSUME reg[r].pc # "idle"
      PROVE  /\ reg[r].id \in Matches
             /\ reg[r].match \in MatchRow /\ reg[r].seen \in MatchRow
  BY <1>t, <1>p DEF RegistrarState, Idle
\* Steps of a request already there.
<1>o. ASSUME reg'[r].pc = "idle" \/ (reg[r].pc # "idle" /\ reg'[r].id = reg[r].id)
      PROVE  OneRegistration'
  <2>1. ASSUME NEW q \in Registrars, NEW s \in Registrars, reg'[q].pc # "idle",
               reg'[q].id = reg'[s].id
        PROVE  q = s
    <3>1. /\ reg[q].pc # "idle" /\ reg'[q].id = reg[q].id
          /\ reg[q].id \in Matches
      BY <1>t, <1>m, <1>o, <2>1 DEF RegistrarState, Idle
    <3>2. reg'[s].id = reg[s].id
      <4>1. CASE s = r
        <5>1. reg'[r].pc # "idle"
          <6>1. reg'[r].id # NULL
            BY <2>1, <3>1, <4>1, StoreAssumption
          <6>2. reg'[r] \in RegistrarState
            BY <1>r
          <6> QED BY <6>1, <6>2 DEF RegistrarState, Idle
        <5> QED BY <1>o, <4>1, <5>1
      <4> QED BY <1>m, <4>1
    <3> QED BY <1>i, <2>1, <3>1, <3>2 DEF OneRegistration
  <2> QED BY <2>1 DEF OneRegistration
\* Steps that leave the tables and the queue alone.
<1>u. ASSUME UNCHANGED <<match, job>>, RegistrationIsFirst(r)', OneRegistration'
      PROVE  ResultsInv'
  <2>1. \A m \in Matches : Scored(m)' <=> Scored(m)
    BY <1>m, <1>u DEF Scored
  <2>2. /\ ResultAllOrNothing' /\ JobsCarryResults' /\ OneJobPerMatch' /\ WorkersHoldJobs'
        /\ ComputedPointsAreRight' /\ PointsFollowRules'
    BY <1>i, <1>m, <1>u, <2>1, SMTT(60) DEF ResultAllOrNothing, Whole, JobsCarryResults,
       OneJobPerMatch, WorkersHoldJobs, ComputedPointsAreRight, PointsFollowRules
  <2>3. \A a \in Assigners : AssignmentIsEarly(a)'
    BY <1>i, <1>m, <1>u DEF AssignmentIsEarly
  <2>4. ASSUME NEW q \in Registrars, q # r PROVE RegistrationIsFirst(q)'
    BY <1>i, <1>m, <1>u, <2>4, OthersFirst DEF RegistrationIsFirst
  <2> QED BY <1>u, <2>2, <2>3, <2>4 DEF ResultsInv
<1>1. CASE RegisterFind(r)
  <2>1. PICK m \in Matches, l \in Goals, v \in Goals :
           /\ ~match[m].has_played
           /\ reg' = [reg EXCEPT ![r] = [pc |-> "found", id |-> m, match |-> WithResult(match[m], l, v),
                                         seen |-> match[m]]]
    BY <1>1 DEF RegisterFind, Registrable
  <2>2. match' = match /\ job' = job
    BY <1>1 DEF RegisterFind, storeVars
  <2>3. \A j \in JobIds : job[j].match_id # m
    BY <1>i, <2>1, StoreAssumption DEF JobsCarryResults
  <2>4. /\ WithResult(match[m], l, v).local_result = l
        /\ WithResult(match[m], l, v).visiting_result = v
    BY <1>t DEF WithResult, MatchRow
  <2>5. RegistrationIsFirst(r)'
    BY <1>t, <1>g, <2>1, <2>2, <2>3, <2>4 DEF RegistrationIsFirst
  \* Whoever is at work on the match awaits its save as this request does, or has
  \* given the match its result.
  <2>6. reg'[r].id = m /\ AwaitsSave(r)'
    BY <1>t, <2>1 DEF AwaitsSave
  <2>7. ASSUME NEW q \in Registrars, q # r, reg[q].pc # "idle" PROVE reg[q].id # m
    <3>1. CASE reg[q].pc = "saved"
      <4>1. reg[q].id = m => match[m].local_result # NULL
        BY <1>i, <3>1 DEF RegistrationIsFirst
      <4> QED BY <1>i, <2>1, <4>1 DEF ResultAllOrNothing, Whole
    <3>2. CASE reg[q].pc \in {"found", "selected"}
      <4>1. AwaitsSave(q)' /\ reg'[q].id = reg[q].id
        BY <1>m, <2>7, <3>2 DEF AwaitsSave
      <4> QED BY <2>6, <2>7, <4>1 DEF RequestsApart, RegistrationsApart
    <3> QED BY <1>t, <2>7, <3>1, <3>2 DEF RegistrarState, Idle
  <2>8. OneRegistration'
    <3>1. ASSUME NEW q \in Registrars, NEW s \in Registrars, reg'[q].pc # "idle",
                 reg'[q].id = reg'[s].id, q # s
          PROVE  FALSE
      <4>1. CASE q = r
        <5>1. reg[s].id = m
          BY <1>m, <2>6, <3>1, <4>1
        <5>2. reg[s].pc # "idle"
          BY <1>t, <5>1, StoreAssumption DEF RegistrarState, Idle
        <5> QED BY <2>7, <3>1, <4>1, <5>1, <5>2
      <4>2. CASE s = r
        BY <1>m, <2>6, <2>7, <3>1, <4>2
      <4>3. CASE q # r /\ s # r
        BY <1>i, <1>m, <3>1, <4>3 DEF OneRegistration
      <4> QED BY <4>1, <4>2, <4>3
    <3> QED BY <3>1 DEF OneRegistration
  <2> QED BY <1>u, <2>2, <2>5, <2>8
<1>2. CASE RegisterSelect(r)
  <2>1. match' = match /\ job' = job
    BY <1>2 DEF RegisterSelect, storeVars
  <2>2. /\ reg[r].pc = "found" /\ reg'[r].pc = "selected" /\ reg'[r].id = reg[r].id
        /\ reg'[r].match = reg[r].match /\ reg'[r].seen = match[reg[r].id]
    BY <1>2, <1>t DEF RegisterSelect, RegistrarState, Idle
  <2>3. RegistrationIsFirst(r)'
    BY <1>i, <2>1, <2>2 DEF RegistrationIsFirst
  <2> QED BY <1>o, <1>u, <2>1, <2>2, <2>3
<1>3. CASE RegisterUpdate(r)
  <2> DEFINE n == reg[r].id
  <2>1. reg[r].pc = "selected" /\ job' = job
    BY <1>3 DEF RegisterUpdate
  <2>2. reg[r].seen = match[n] /\ \A j \in JobIds : job[j].match_id # n
    BY <1>i, <2>1 DEF RegistrationIsFirst
  <2>3. match' = [match EXCEPT ![n] = reg[r].match]
    BY <1>3, <1>p, <2>1, <2>2, SavedFresh DEF RegisterUpdate
  <2>4. /\ reg'[r].pc = "saved" /\ reg'[r].id = n /\ reg'[r].match = reg[r].match
    BY <1>3, <1>t DEF RegisterUpdate, RegistrarState, Idle
  <2>5. RegistrationIsFirst(r)'
    BY <1>i, <1>p, <1>t, <2>1, <2>2, <2>3, <2>4 DEF RegistrationIsFirst
  \* No other match changes, and none with a job is this one.
  <2>6. \A j \in JobIds : match'[job[j].match_id] = match[job[j].match_id]
    BY <1>t, <2>2, <2>3
  <2>7. JobsCarryResults' /\ OneJobPerMatch' /\ WorkersHoldJobs'
    BY <1>i, <1>m, <2>1, <2>6 DEF JobsCarryResults, OneJobPerMatch, WorkersHoldJobs
  <2>8. ComputedPointsAreRight'
    <3>1. ASSUME NEW w \in Workers, wrk[w].pc = "computed"
          PROVE  match'[job[wrk[w].job].match_id] = match[job[wrk[w].job].match_id]
      BY <1>j, <2>6, <3>1
    <3> QED BY <1>i, <1>m, <2>1, <3>1, SMTT(20) DEF ComputedPointsAreRight
  <2>9. PointsFollowRules'
    <3>1. \A m \in Matches : Scored(m)' => Scored(m) /\ match'[m] = match[m]
      BY <2>1, <2>6, ScoredIsPlayed DEF Scored
    <3> QED BY <1>i, <1>m, <3>1 DEF PointsFollowRules
  <2>10. ResultAllOrNothing'
    <3>1. Whole(reg[r].match)
      BY <1>i, <1>p, <2>1 DEF RegistrationIsFirst, Whole, WithResult, MatchRow
    <3> QED BY <1>i, <1>t, <2>3, <3>1 DEF ResultAllOrNothing
  <2>11. OneRegistration'
    BY <1>o, <2>1, <2>4
  <2>12. ASSUME NEW q \in Registrars PROVE RegistrationIsFirst(q)'
    <3>1. CASE q # r
      <4>1. reg[q].pc # "idle" => reg[q].id # n
        BY <1>i, <3>1 DEF OneRegistration
      <4>2. reg[q].pc # "idle" => match'[reg[q].id] = match[reg[q].id]
        BY <1>t, <2>3, <4>1
      <4> QED BY <1>i, <1>m, <2>1, <3>1, <4>2, OthersFirst DEF RegistrationIsFirst
    <3> QED BY <2>5, <3>1
  <2>13. ASSUME NEW a \in Assigners PROVE AssignmentIsEarly(a)'
    <3>1. asg[a].pc # "idle" => asg[a].id # n
      BY <2>1 DEF RequestsApart, AwaitsSave
    <3>2. asg[a].pc # "idle" => match'[asg[a].id] = match[asg[a].id]
      BY <1>t, <2>3, <3>1
    <3> QED BY <1>i, <1>m, <3>2 DEF AssignmentIsEarly
  <2> QED BY <2>7, <2>8, <2>9, <2>10, <2>11, <2>12, <2>13 DEF ResultsInv
<1>4. CASE Enqueue(r)
  <2> DEFINE n == reg[r].id
  <2>1. reg[r].pc = "saved" /\ match' = match /\ reg' = [reg EXCEPT ![r] = Idle]
    BY <1>4 DEF Enqueue
  <2>2. /\ reg[r].match = match[n]
        /\ \A j \in JobIds : job[j].match_id # n
        /\ n \in Matches
        /\ match[n].local_result # NULL
    BY <1>i, <1>p, <2>1 DEF RegistrationIsFirst
  <2>3. match[n].has_played
    BY <1>i, <2>2 DEF ResultAllOrNothing, Whole
  <2>4. PICK k \in JobIds :
           /\ job[k].state = "unused"
           /\ job' = [job EXCEPT ![k] = [state |-> "wait", match_id |-> n,
                                         local_result |-> match[n].local_result,
                                         visiting_result |-> match[n].visiting_result,
                                         stalled |-> 0, credited |-> 0]]
    BY <1>4, <2>2 DEF Enqueue, AddJob, NextId
  <2>5. /\ job'[k] = [state |-> "wait", match_id |-> n, local_result |-> match[n].local_result,
                      visiting_result |-> match[n].visiting_result, stalled |-> 0, credited |-> 0]
        /\ \A j \in JobIds : j # k => job'[j] = job[j]
    BY <1>t, <2>4
  <2>6. ASSUME NEW w \in Workers, wrk[w].pc # "idle"
        PROVE  wrk[w].job # k /\ wrk[w].job \in JobIds /\ job'[wrk[w].job] = job[wrk[w].job]
    BY <1>j, <2>4, <2>5, <2>6
  <2>7. RegistrationIsFirst(r)'
    BY <1>t, <2>1 DEF RegistrationIsFirst, Idle
  <2>8. JobsCarryResults'
    BY <1>i, <2>1, <2>2, <2>3, <2>5 DEF JobsCarryResults
  <2>9. OneJobPerMatch'
    BY <1>i, <2>2, <2>5 DEF OneJobPerMatch
  <2>10. WorkersHoldJobs'
    BY <1>i, <1>m, <2>6 DEF WorkersHoldJobs
  <2>11. ComputedPointsAreRight'
    BY <1>i, <1>m, <2>1, <2>6, SMTT(20) DEF ComputedPointsAreRight
  <2>12. \A m \in Matches : Scored(m)' => Scored(m)
    BY <2>5 DEF Scored
  <2>13. PointsFollowRules'
    BY <1>i, <1>m, <2>1, <2>12 DEF PointsFollowRules
  <2>14. ResultAllOrNothing' /\ \A a \in Assigners : AssignmentIsEarly(a)'
    BY <1>i, <1>m, <2>1 DEF ResultAllOrNothing, AssignmentIsEarly
  <2>15. OneRegistration'
    <3>1. reg'[r].pc = "idle"
      BY <1>t, <2>1 DEF Idle
    <3> QED BY <1>o, <3>1
  <2>16. ASSUME NEW q \in Registrars PROVE RegistrationIsFirst(q)'
    <3>1. CASE q # r
      <4>1. reg[q].pc # "idle" => reg[q].id # n
        BY <1>i, <3>1 DEF OneRegistration
      <4>2. reg[q].pc # "idle" => \A j \in JobIds : job'[j].match_id # reg[q].id
        BY <1>i, <2>5, <4>1 DEF RegistrationIsFirst
      <4> QED BY <1>i, <1>m, <2>1, <3>1, <4>2, OthersFirst
    <3> QED BY <2>7, <3>1
  <2> QED BY <2>8, <2>9, <2>10, <2>11, <2>13, <2>14, <2>15, <2>16 DEF ResultsInv
<1>5. CASE EnqueueFails(r)
  <2>1. match' = match /\ job' = job /\ reg'[r] = Idle
    BY <1>5, <1>t DEF EnqueueFails
  <2>2. RegistrationIsFirst(r)'
    BY <2>1 DEF RegistrationIsFirst, Idle
  <2>3. OneRegistration'
    BY <1>o, <2>1 DEF Idle
  <2> QED BY <1>u, <2>1, <2>2, <2>3
<1> QED BY <1>1, <1>2, <1>3, <1>4, <1>5 DEF RegistrarNext

\* An assignment saved over rows without result leaves the result alone.
LEMMA SavedSides ==
    ASSUME NEW e \in MatchRow, NEW s \in MatchRow, NEW row \in MatchRow,
           Whole(e), ~e.has_played, Whole(s), ~s.has_played
    PROVE  /\ Saved(e, s, row).local_result = row.local_result
           /\ Saved(e, s, row).visiting_result = row.visiting_result
           /\ Saved(e, s, row).has_played = row.has_played
  BY DEF Saved, MatchRow, Whole

\* What an assignment leaves alone, while no registration races it: results, and
\* all of a match that is played or being registered.
LEMMA AssignerKeeps ==
    ASSUME Inv, RequestsApart, NEW a \in Assigners, AssignerNext(a)
    PROVE  /\ UNCHANGED <<prediction, score, job, late, reg>>
           /\ \A m \in Matches :
                 /\ match'[m].local_result = match[m].local_result
                 /\ match'[m].visiting_result = match[m].visiting_result
                 /\ match'[m].has_played = match[m].has_played
                 /\ match[m].has_played => match'[m] = match[m]
           /\ \A r \in Registrars : reg[r].pc # "idle" => match'[reg[r].id] = match[reg[r].id]
<1>t. /\ match \in [Matches -> MatchRow]
      /\ asg \in [Assigners -> AssignerState]
      /\ reg \in [Registrars -> RegistrarState]
  BY DEF Inv, TypeOK, StoreTypeOK, MatchesTypeOK
<1>1. UNCHANGED <<prediction, score, job, late, reg>>
  BY DEF AssignerNext, AssignFind, AssignSelect, AssignUpdate, storeVars
<1>2. CASE match' = match
  BY <1>1, <1>2
<1>3. CASE AssignUpdate(a)
  <2> DEFINE n == asg[a].id
             row == Saved(asg[a].match, asg[a].seen, match[n])
  <2>1. asg[a].pc = "selected" /\ match' = [match EXCEPT ![n] = row]
    BY <1>3 DEF AssignUpdate
  <2>2. n \in Matches /\ asg[a].match \in MatchRow /\ asg[a].seen \in MatchRow
    BY <1>t, <2>1 DEF AssignerState, Idle
  <2>3. /\ ~match[n].has_played
        /\ Whole(asg[a].match) /\ ~asg[a].match.has_played
        /\ Whole(asg[a].seen) /\ ~asg[a].seen.has_played
    BY <2>1 DEF Inv, ResultsInv, AssignmentIsEarly
  <2>4. /\ row.local_result = match[n].local_result
        /\ row.visiting_result = match[n].visiting_result
        /\ row.has_played = match[n].has_played
    BY <1>t, <2>2, <2>3, SavedSides
  <2> HIDE DEF row
  <2>5. /\ match'[n] = row
        /\ \A m \in Matches : m # n => match'[m] = match[m]
    BY <1>t, <2>1, <2>2
  <2>6. ASSUME NEW r \in Registrars, reg[r].pc # "idle"
        PROVE  reg[r].id \in Matches /\ reg[r].id # n
    <3>1. reg[r].id \in Matches /\ reg[r].pc \in {"found", "selected", "saved"}
      BY <1>t, <2>6 DEF RegistrarState, Idle
    <3>2. CASE reg[r].pc = "saved"
      <4>1. match[reg[r].id].local_result # NULL
        BY <3>2 DEF Inv, ResultsInv, RegistrationIsFirst
      <4> QED BY <2>3, <3>1, <4>1 DEF Inv, ResultsInv, ResultAllOrNothing, Whole
    <3>3. CASE AwaitsSave(r)
      BY <2>1, <3>1, <3>3 DEF RequestsApart
    <3> QED BY <3>1, <3>2, <3>3 DEF AwaitsSave
  <2> QED BY <1>1, <2>3, <2>4, <2>5, <2>6
<1> QED BY <1>2, <1>3 DEF AssignerNext, AssignFind, AssignSelect, storeVars

\* An assignment, while no registration races it.
LEMMA ResultsAssigner ==
    ASSUME Inv, RequestsApart, NEW a \in Assigners, AssignerNext(a), UNCHANGED <<prd, wrk>>
    PROVE  ResultsInv'
<1>t. /\ match \in [Matches -> MatchRow]
      /\ job \in [JobIds -> JobRow]
      /\ asg \in [Assigners -> AssignerState]
      /\ wrk \in [Workers -> WorkerState]
  BY DEF Inv, TypeOK, StoreTypeOK, MatchesTypeOK, ProcessorTypeOK
<1>k. /\ UNCHANGED <<prediction, score, job, late, reg>>
      /\ \A m \in Matches :
            /\ match'[m].local_result = match[m].local_result
            /\ match'[m].visiting_result = match[m].visiting_result
            /\ match'[m].has_played = match[m].has_played
      /\ \A r \in Registrars : reg[r].pc # "idle" => match'[reg[r].id] = match[reg[r].id]
  BY AssignerKeeps
<1>i. /\ ResultAllOrNothing /\ JobsCarryResults /\ OneJobPerMatch /\ WorkersHoldJobs
      /\ ComputedPointsAreRight /\ PointsFollowRules /\ OneRegistration
      /\ \A r \in Registrars : RegistrationIsFirst(r)
      /\ \A b \in Assigners : AssignmentIsEarly(b)
  BY DEF Inv, ResultsInv
<1>1. ResultAllOrNothing' /\ JobsCarryResults' /\ OneJobPerMatch' /\ WorkersHoldJobs' /\ OneRegistration'
  BY <1>i, <1>k DEF ResultAllOrNothing, Whole, JobsCarryResults, OneJobPerMatch, WorkersHoldJobs,
     OneRegistration
<1>2. ASSUME NEW r \in Registrars PROVE RegistrationIsFirst(r)'
  BY <1>i, <1>k DEF RegistrationIsFirst
<1>3. ComputedPointsAreRight'
  <2>1. ASSUME NEW w \in Workers, wrk[w].pc = "computed"
        PROVE  job[wrk[w].job].match_id \in Matches
    <3>1. wrk[w].job \in JobIds /\ job[wrk[w].job].state = "active"
      BY <1>i, <1>t, <2>1 DEF WorkersHoldJobs, WorkerState, Waiting
    <3> QED BY <1>i, <3>1 DEF JobsCarryResults
  <2> QED BY <1>i, <1>k, <2>1, SMTT(20) DEF ComputedPointsAreRight
<1>4. PointsFollowRules'
  BY <1>i, <1>k DEF PointsFollowRules, Scored
<1>5. ASSUME NEW b \in Assigners PROVE AssignmentIsEarly(b)'
  <2>1. CASE b # a
    <3>1. asg'[b] = asg[b]
      BY <1>t, <2>1 DEF AssignerNext, AssignFind, AssignSelect, AssignUpdate
    <3>2. asg[b].pc # "idle" => asg[b].id \in Matches
      BY <1>t DEF AssignerState, Idle
    <3> QED BY <1>i, <1>k, <3>1, <3>2 DEF AssignmentIsEarly
  <2>2. CASE b = a /\ AssignFind(a)
    <3>1. PICK m \in Matches, sides \in Sides, local \in Teams \cup {NULL}, visiting \in Teams \cup {NULL} :
             /\ Assignable(m, match[m])
             /\ asg' = [asg EXCEPT ![a] = [pc |-> "found", id |-> m,
                                           match |-> WithTeams(match[m], sides, local, visiting),
                                           seen |-> match[m]]]
      BY <2>2 DEF AssignFind
    <3> DEFINE row == WithTeams(match[m], sides, local, visiting)
    <3>2. /\ row.local_result = match[m].local_result
          /\ row.visiting_result = match[m].visiting_result
          /\ row.has_played = match[m].has_played
      BY <1>t DEF WithTeams, MatchRow
    <3> HIDE DEF row
    <3>3. asg'[a] = [pc |-> "found", id |-> m, match |-> row, seen |-> match[m]]
      BY <1>t, <3>1 DEF row
    <3>4. ~match[m].has_played /\ Whole(match[m])
      BY <1>i, <3>1 DEF Assignable, ResultAllOrNothing
    <3> QED BY <1>k, <2>2, <3>2, <3>3, <3>4 DEF AssignmentIsEarly, Whole
  <2>3. CASE b = a /\ AssignSelect(a)
    <3>1. /\ asg[a].pc = "found" /\ match' = match
          /\ asg'[a].id = asg[a].id /\ asg'[a].match = asg[a].match
          /\ asg'[a].seen = match[asg[a].id] /\ asg[a].id \in Matches
      BY <1>t, <2>3 DEF AssignSelect, storeVars, AssignerState, Idle
    <3> QED BY <1>i, <2>3, <3>1 DEF AssignmentIsEarly, ResultAllOrNothing
  <2>4. CASE b = a /\ AssignUpdate(a)
    BY <1>t, <2>4 DEF AssignUpdate, AssignmentIsEarly, Idle
  <2> QED BY <2>1, <2>2, <2>3, <2>4 DEF AssignerNext
<1> QED BY <1>1, <1>2, <1>3, <1>4, <1>5 DEF ResultsInv

\* What neither the tables nor the queue sees; a crash empties the handlers.
LEMMA ResultsCrash ==
    ASSUME Inv, Crash
    PROVE  ResultsInv'
<1>1. /\ UNCHANGED <<match, prediction, job, late>>
      /\ \A r \in Registrars : reg'[r] = Idle
      /\ \A a \in Assigners : asg'[a] = Idle
      /\ \A w \in Workers : wrk'[w] = Waiting
  BY DEF Crash
<1>2. \A m \in Matches : Scored(m)' => Scored(m)
  BY <1>1 DEF Scored
<1>3. /\ \A r \in Registrars : RegistrationIsFirst(r)'
      /\ WorkersHoldJobs' /\ ComputedPointsAreRight'
      /\ OneRegistration' /\ \A a \in Assigners : AssignmentIsEarly(a)'
  BY <1>1, SMTT(20) DEF RegistrationIsFirst, WorkersHoldJobs, ComputedPointsAreRight, OneRegistration,
     AssignmentIsEarly, Idle, Waiting
<1>4. JobsCarryResults' /\ OneJobPerMatch' /\ ResultAllOrNothing' /\ PointsFollowRules'
  BY <1>1, <1>2 DEF Inv, ResultsInv, JobsCarryResults, OneJobPerMatch, ResultAllOrNothing, Whole,
     PointsFollowRules
<1> QED BY <1>3, <1>4 DEF ResultsInv

LEMMA ResultsAside ==
    ASSUME Inv, UNCHANGED <<match, prediction, job, late, reg, asg, wrk>>
    PROVE  ResultsInv'
<1>1. \A m \in Matches : Scored(m)' <=> Scored(m)
  BY DEF Scored
<1> QED BY <1>1, RequestsAside DEF Inv, ResultsInv, RegistrationIsFirst, JobsCarryResults,
           OneJobPerMatch, WorkersHoldJobs, ComputedPointsAreRight, PointsFollowRules,
           ResultAllOrNothing, Whole

LEMMA ResultsStep ==
    ASSUME Inv, RequestsApart, RequestsApart', [Next]_vars
    PROVE  ResultsInv'
<1>2. ASSUME NEW m \in Matches, KickOff(m) PROVE ResultsInv'
  BY <1>2, ResultsAside DEF KickOff
<1>3. ASSUME UNCHANGED vars PROVE ResultsInv'
  BY <1>3, ResultsAside DEF vars, storeVars
<1> QED BY <1>2, <1>3, ResultsRegistrar, ResultsAssigner, ResultsPredictor, ResultsWorker,
           ResultsStalled, ResultsCrash DEF Next

LEMMA ResultsInvariant == ApartSpec => []Inv
<1>1. Init => Inv
  BY TypeInit, ResultsInit DEF Inv
<1>2. Inv /\ RequestsApart /\ RequestsApart' /\ [Next]_vars => Inv'
  BY TypeStep, ResultsStep DEF Inv
<1> QED BY <1>1, <1>2, PTL DEF ApartSpec, Spec

\* The result of a match is scored by one job: as long as requests stay apart
\* the check of has_played does keep a second registration out.
THEOREM OneJob == ApartSpec => []OneJobPerMatch
<1>1. Inv => OneJobPerMatch
  BY DEF Inv, ResultsInv
<1> QED BY ResultsInvariant, <1>1, PTL

\* Every prediction saved in time holds, once its match is scored, the points
\* of the rules for the result the match shows: setting user_matches.points is
\* idempotent, so crashes and redelivered jobs do not disturb it.
THEOREM PointsAreRight == ApartSpec => []PointsFollowRules
<1>1. Inv => PointsFollowRules
  BY DEF Inv, ResultsInv
<1> QED BY ResultsInvariant, <1>1, PTL

\* What both rest on: a registration is the first of its match, an assignment
\* comes before it, a job carries the result, and a worker's points are those of
\* the rules.
THEOREM ResultsInductive == ApartSpec => []ResultsInv
<1>1. Inv => ResultsInv
  BY DEF Inv
<1> QED BY ResultsInvariant, <1>1, PTL

\* One admin who registers one result after the other, in the group phase or while
\* nobody assigns teams.
OneAdmin == /\ \A r, s \in Registrars : r = s
            /\ Knockout = {} \/ Assigners = {}

\* He races with nobody: assignTeams refuses every match of the group phase, and
\* his requests do not overlap.
THEOREM OneAdminStaysApart == OneAdmin => (Spec => []RequestsApart)
<1> SUFFICES ASSUME OneAdmin PROVE Spec => []RequestsApart
  OBVIOUS
<1>1. TypeOK /\ GroupMatchInv => RequestsApart
  BY DEF OneAdmin, GroupMatchInv, RequestsApart, RegistrationsApart
<1> QED BY GroupMatchInvariant, <1>1, PTL

\* Only the UPDATE of a request changes a match, and it finds it unplayed.
LEMMA ResultStep ==
    ASSUME Inv, RequestsApart, [Next]_vars
    PROVE  \A m \in Matches : match[m].has_played => match'[m] = match[m]
<1>1. ASSUME NEW r \in Registrars, RegisterUpdate(r)
      PROVE  \A m \in Matches : match[m].has_played => match'[m] = match[m]
  <2>1. reg[r].id \in Matches /\ ~match[reg[r].id].has_played
    BY <1>1 DEF Inv, ResultsInv, RegistrationIsFirst, RegisterUpdate, TypeOK, MatchesTypeOK,
               RegistrarState, Idle
  <2> QED BY <1>1, <2>1 DEF RegisterUpdate, Inv, TypeOK, StoreTypeOK
<1>2. ASSUME NEW a \in Assigners, AssignerNext(a)
      PROVE  \A m \in Matches : match[m].has_played => match'[m] = match[m]
  BY <1>2, AssignerKeeps
<1>3. ASSUME UNCHANGED match
      PROVE  \A m \in Matches : match[m].has_played => match'[m] = match[m]
  BY <1>3
<1>4. ASSUME NEW r \in Registrars, RegistrarNext(r), ~RegisterUpdate(r) PROVE UNCHANGED match
  BY <1>4 DEF RegistrarNext, RegisterFind, RegisterSelect, Enqueue, EnqueueFails, storeVars, AddJob
<1>5. ASSUME NEW p \in Predictors, PredictorNext(p) PROVE UNCHANGED match
  BY <1>5 DEF PredictorNext, CheckMatch, LoadPrediction, SelectPrediction, UpdatePrediction,
     InsertPrediction, InsertConflicts, WriteRow, storeVars
<1>6. ASSUME NEW w \in Workers, WorkerNext(w) PROVE UNCHANGED match
  BY <1>6 DEF WorkerNext, Take, Compute, Commit, Complete, JobFails, Finish, storeVars
<1>7. ASSUME StalledCheck \/ Crash \/ (\E m \in Matches : KickOff(m)) \/ UNCHANGED vars
      PROVE  UNCHANGED match
  BY <1>7 DEF StalledCheck, RequeueStalled, FailStalled, Crash, KickOff, vars, storeVars
<1> QED BY <1>1, <1>2, <1>3, <1>4, <1>5, <1>6, <1>7 DEF Next

\* As long as requests stay apart a registered result is final.
THEOREM ResultStands == ApartSpec => ResultIsFinal
<1>1. Inv /\ RequestsApart /\ [Next]_vars
         => [\A m \in Matches : match[m].has_played =>
               /\ match'[m].has_played
               /\ match'[m].local_result = match[m].local_result
               /\ match'[m].visiting_result = match[m].visiting_result]_vars
  BY ResultStep
<1> QED BY ResultsInvariant, <1>1, PTL DEF ApartSpec, Spec, ResultIsFinal

-----------------------------------------------------------------------------
(* Beyond Inv: who is paid *)

\* A prediction about to be saved is a row, a job not yet added has scored
\* nothing, and no job pays for a row that is not there.
PaidInv ==
    /\ \A p \in Predictors : prd[p].prediction.stored
    /\ \A j \in JobIds : job[j].state = "unused" => job[j].credited = 0
    /\ \A w \in Workers, u \in Users :
           wrk[w].pc = "computed" /\ ~prediction[u][job[wrk[w].job].match_id].stored =>
               wrk[w].points[u] = NULL

LEMMA PaidInit == Init => PaidInv
<1> SUFFICES ASSUME Init PROVE PaidInv
  OBVIOUS
<1>1. \A p \in Predictors : prd[p].prediction.stored
  BY DEF Init, PredictionsInit, NoRequest, NewPrediction
<1>2. \A j \in JobIds : job[j].credited = 0
  BY DEF Init, StoreInit, NoJob
<1>3. \A w \in Workers : wrk[w].pc = "idle"
  BY DEF Init, ProcessorInit, Waiting
<1> QED BY <1>1, <1>2, <1>3 DEF PaidInv

\* A row that is there stays there.
LEMMA RowStays ==
    ASSUME NEW e \in PredictionRow, NEW s \in PredictionRow, NEW row \in PredictionRow, e.stored
    PROVE  /\ Saved(e, s, row) \in PredictionRow
           /\ row.stored => Saved(e, s, row).stored
<1>1. /\ e.stored = TRUE
      /\ DOMAIN row = {"stored", "local_score", "visitor_score", "points"}
  BY DEF PredictionRow
<1>2. Saved(e, s, row) = [c \in DOMAIN row |-> IF e[c] # s[c] THEN e[c] ELSE row[c]]
  BY DEF Saved
<1>3. Saved(e, s, row) =
        [stored |-> IF e.stored # s.stored THEN e.stored ELSE row.stored,
         local_score |-> IF e.local_score # s.local_score THEN e.local_score ELSE row.local_score,
         visitor_score |-> IF e.visitor_score # s.visitor_score THEN e.visitor_score ELSE row.visitor_score,
         points |-> IF e.points # s.points THEN e.points ELSE row.points]
  BY <1>1, <1>2
<1>4. /\ Saved(e, s, row).stored = IF TRUE # s.stored THEN TRUE ELSE row.stored
      /\ row.stored \in BOOLEAN
  BY <1>1, <1>3 DEF PredictionRow
<1>5. /\ Saved(e, s, row).stored \in BOOLEAN
      /\ row.stored => Saved(e, s, row).stored
  BY <1>4, Zenon
<1>6. Saved(e, s, row) \in PredictionRow
  <2>1. /\ Saved(e, s, row).local_score \in Goals \cup {NULL}
        /\ Saved(e, s, row).visitor_score \in Goals \cup {NULL}
        /\ Saved(e, s, row).points \in Nat
    BY <1>3 DEF PredictionRow
  <2> DEFINE x == Saved(e, s, row)
  <2>2. x = [stored |-> x.stored, local_score |-> x.local_score, visitor_score |-> x.visitor_score,
             points |-> x.points]
    BY <1>3
  <2>3. x.stored \in BOOLEAN
    BY <1>5
  <2> HIDE DEF x
  <2> QED BY <2>1, <2>2, <2>3 DEF PredictionRow, x
<1> QED BY <1>5, <1>6

LEMMA PaidPredictor ==
    ASSUME Inv, PaidInv, NEW p \in Predictors, PredictorNext(p), UNCHANGED <<reg, asg, wrk>>
    PROVE  /\ PaidInv'
           /\ UNCHANGED <<match, score, job>>
           /\ \/ UNCHANGED <<prediction, late>>
              \/ \E u \in Users, m \in Matches, row \in PredictionRow :
                    /\ prediction' = [prediction EXCEPT ![u][m] = row]
                    /\ late' = [late EXCEPT ![u][m] = @ \/ match[m].has_played]
<1>t. /\ prediction \in [Users -> [Matches -> PredictionRow]]
      /\ prd \in [Predictors -> PredictorState]
  BY DEF Inv, TypeOK, StoreTypeOK, PredictionsTypeOK
<1>s. prd[p].prediction.stored
  BY DEF PaidInv
<1>u. UNCHANGED <<match, score, job>>
  BY DEF PredictorNext, CheckMatch, LoadPrediction, SelectPrediction, UpdatePrediction,
     InsertPrediction, InsertConflicts, WriteRow, storeVars
<1>w. ASSUME \A q \in Predictors : prd'[q].prediction.stored,
             \A u \in Users, m \in Matches : prediction[u][m].stored => prediction'[u][m].stored
      PROVE  PaidInv'
  <2>1. ASSUME NEW w \in Workers, wrk[w].pc = "computed"
        PROVE  job[wrk[w].job].match_id \in Matches
    <3>1. wrk[w].job \in JobIds /\ job[wrk[w].job].state = "active"
      BY <2>1 DEF Inv, TypeOK, ProcessorTypeOK, WorkerState, Waiting, ResultsInv, WorkersHoldJobs
    <3> QED BY <3>1 DEF Inv, ResultsInv, JobsCarryResults
  <2> QED BY <1>u, <1>w, <2>1 DEF PaidInv
<1>1. CASE CheckMatch(p)
  <2>1. \A q \in Predictors : prd'[q].prediction.stored
    BY <1>1, <1>t DEF CheckMatch, PaidInv, WithGoals, NewPrediction
  <2> QED BY <1>1, <1>u, <1>w, <2>1 DEF CheckMatch, storeVars
<1>2. CASE LoadPrediction(p) \/ SelectPrediction(p) \/ InsertConflicts(p)
  <2>1. \A q \in Predictors : prd'[q].prediction.stored
    <3>1. CASE LoadPrediction(p)
      <4> DEFINE row == prediction[prd[p].user][prd[p].id]
                 new == IF row.stored
                        THEN [prd[p] EXCEPT !.pc = "loaded",
                                  !.prediction = WithGoals(row, prd[p].prediction.local_score,
                                                           prd[p].prediction.visitor_score)]
                        ELSE [prd[p] EXCEPT !.pc = "new"]
      <4>1. prd' = [prd EXCEPT ![p] = new] /\ prd[p].pc = "checked"
        BY <3>1 DEF LoadPrediction
      <4>2. prd[p].user \in Users /\ prd[p].id \in Matches
        BY <1>t, <4>1 DEF PredictorState, NoRequest
      <4>3. row \in PredictionRow
        BY <1>t, <4>2
      <4>4. row.stored => WithGoals(row, prd[p].prediction.local_score,
                                    prd[p].prediction.visitor_score).stored
        BY <4>3 DEF WithGoals, PredictionRow
      <4>5. new.prediction.stored
        BY <1>s, <1>t, <4>1, <4>4 DEF PredictorState, NoRequest
      <4> HIDE DEF new
      <4> QED BY <1>t, <4>1, <4>5 DEF PaidInv
    <3>2. CASE SelectPrediction(p)
      BY <1>t, <3>2 DEF SelectPrediction, PaidInv, PredictorState, NoRequest
    <3>3. CASE InsertConflicts(p)
      BY <1>t, <3>3 DEF InsertConflicts, PaidInv, NoRequest, NewPrediction
    <3> QED BY <1>2, <3>1, <3>2, <3>3
  <2>2. UNCHANGED <<prediction, late>>
    BY <1>2 DEF LoadPrediction, SelectPrediction, InsertConflicts, storeVars
  <2> QED BY <1>u, <1>w, <2>1, <2>2
<1>3. ASSUME NEW row \in PredictionRow, prd[p].pc # "idle", WriteRow(p, row),
             prediction[prd[p].user][prd[p].id].stored => row.stored
      PROVE  /\ PaidInv'
             /\ \E u \in Users, m \in Matches :
                   /\ prediction' = [prediction EXCEPT ![u][m] = row]
                   /\ late' = [late EXCEPT ![u][m] = @ \/ match[m].has_played]
  <2>1. prd[p].user \in Users /\ prd[p].id \in Matches
    BY <1>t, <1>3 DEF PredictorState, NoRequest
  <2>2. \A q \in Predictors : prd'[q].prediction.stored
    BY <1>t, <1>3 DEF WriteRow, PaidInv, NoRequest, NewPrediction
  <2>3. prediction' = [prediction EXCEPT ![prd[p].user][prd[p].id] = row]
    BY <1>3 DEF WriteRow
  <2>4. \A u \in Users, m \in Matches : prediction[u][m].stored => prediction'[u][m].stored
    BY <1>t, <1>3, <2>1, <2>3
  <2>5. late' = [late EXCEPT ![prd[p].user][prd[p].id] = @ \/ match[prd[p].id].has_played]
    BY <1>3 DEF WriteRow
  <2> QED BY <1>w, <2>1, <2>2, <2>3, <2>4, <2>5
<1>4. CASE UpdatePrediction(p)
  <2> DEFINE row == Saved(prd[p].prediction, prd[p].seen, prediction[prd[p].user][prd[p].id])
  <2>1. prd[p].pc = "selected" /\ WriteRow(p, row)
    BY <1>4 DEF UpdatePrediction
  <2>2. /\ prd[p].user \in Users /\ prd[p].id \in Matches
        /\ prd[p].prediction \in PredictionRow /\ prd[p].seen \in PredictionRow
    BY <1>t, <2>1 DEF PredictorState, NoRequest
  <2>3. prediction[prd[p].user][prd[p].id] \in PredictionRow
    BY <1>t, <2>2
  <2>4. row \in PredictionRow /\ (prediction[prd[p].user][prd[p].id].stored => row.stored)
    BY <1>s, <2>2, <2>3, RowStays
  <2> HIDE DEF row
  <2> QED BY <1>3, <1>u, <2>1, <2>4
<1>5. CASE InsertPrediction(p)
  <2>1. prd[p].pc = "new" /\ WriteRow(p, prd[p].prediction)
    BY <1>5 DEF InsertPrediction
  <2>2. prd[p].prediction \in PredictionRow
    BY <1>t, <2>1 DEF PredictorState, NoRequest
  <2> QED BY <1>3, <1>s, <1>u, <2>1, <2>2
<1> QED BY <1>1, <1>2, <1>4, <1>5 DEF PredictorNext

\* The jobs at work have a match.
LEMMA JobAtWork ==
    ASSUME Inv, NEW w \in Workers, wrk[w].pc # "idle"
    PROVE  /\ wrk[w].job \in JobIds /\ job[wrk[w].job].state = "active"
           /\ job[wrk[w].job].match_id \in Matches
           /\ match[job[wrk[w].job].match_id].has_played
<1>1. wrk[w].job \in JobIds /\ job[wrk[w].job].state = "active"
  BY DEF Inv, TypeOK, ProcessorTypeOK, WorkerState, Waiting, ResultsInv, WorkersHoldJobs
<1> QED BY <1>1 DEF Inv, ResultsInv, JobsCarryResults

LEMMA PaidWorker ==
    ASSUME Inv, PaidInv, NEW w \in Workers, WorkerNext(w), UNCHANGED <<reg, asg, prd>>
    PROVE  PaidInv'
<1>t. /\ prediction \in [Users -> [Matches -> PredictionRow]]
      /\ job \in [JobIds -> JobRow]
      /\ wrk \in [Workers -> WorkerState]
  BY DEF Inv, TypeOK, StoreTypeOK, ProcessorTypeOK
<1>p. \A p \in Predictors : prd'[p].prediction.stored
  BY DEF PaidInv
<1>1. CASE Take(w)
  <2>1. PICK j \in JobIds :
           /\ job[j].state = "wait"
           /\ job' = [job EXCEPT ![j].state = "active"]
           /\ wrk' = [wrk EXCEPT ![w] = [pc |-> "taken", job |-> j, points |-> NotFound]]
    BY <1>1 DEF Take
  <2>2. \A i \in JobIds : /\ job'[i].state = "unused" => job[i].state = "unused"
                          /\ job'[i].credited = job[i].credited
                          /\ job'[i].match_id = job[i].match_id
    BY <1>t, <2>1 DEF JobRow
  <2>3. ASSUME NEW x \in Workers, wrk'[x].pc = "computed"
        PROVE  wrk'[x] = wrk[x] /\ job'[wrk[x].job].match_id = job[wrk[x].job].match_id
    <3>1. wrk'[x] = wrk[x]
      BY <1>t, <2>1, <2>3
    <3> QED BY <2>2, <2>3, <3>1, JobAtWork
  <2>4. prediction' = prediction
    BY <1>1 DEF Take
  <2> QED BY <1>p, <2>2, <2>3, <2>4 DEF PaidInv
<1>2. CASE Compute(w)
  <2>1. /\ UNCHANGED <<prediction, job>>
        /\ wrk'[w].job = wrk[w].job /\ wrk'[w].points = JobPoints(job[wrk[w].job])
        /\ \A x \in Workers \ {w} : wrk'[x] = wrk[x]
    BY <1>2, <1>t DEF Compute, storeVars, WorkerState, Waiting
  <2>2. ASSUME NEW x \in Workers, NEW u \in Users, wrk'[x].pc = "computed",
               ~prediction[u][job[wrk'[x].job].match_id].stored
        PROVE  wrk'[x].points[u] = NULL
    <3>1. CASE x = w
      <4> DEFINE j == job[wrk[w].job]
      <4>1. ~prediction[u][j.match_id].stored
        BY <2>1, <2>2, <3>1
      <4>2. JobPoints(j)[u] = NULL
        BY <4>1 DEF JobPoints
      <4> QED BY <2>1, <3>1, <4>2
    <3>2. CASE x # w
      BY <2>1, <2>2, <3>2 DEF PaidInv
    <3> QED BY <3>1, <3>2
  <2> QED BY <1>p, <2>1, <2>2 DEF PaidInv
<1>3. CASE Commit(w)
  <2> DEFINE n == job[wrk[w].job].match_id
             pts == wrk[w].points
  <2>1. /\ wrk[w].pc = "computed" /\ job' = [job EXCEPT ![wrk[w].job].credited = @ + 1]
        /\ prediction' = [u \in Users |-> [prediction[u] EXCEPT ![n] = WithPoints(@, pts[u])]]
        /\ wrk'[w].pc = "committed"
        /\ \A x \in Workers \ {w} : wrk'[x] = wrk[x]
    BY <1>3, <1>t DEF Commit, WorkerState, Waiting
  <2>2. \A i \in JobIds : /\ job'[i].state = job[i].state
                          /\ job'[i].match_id = job[i].match_id
                          /\ i # wrk[w].job => job'[i] = job[i]
    BY <1>t, <2>1 DEF JobRow
  <2>3. ASSUME NEW u \in Users, NEW m \in Matches
        PROVE  prediction'[u][m].stored = prediction[u][m].stored
    <3>1. prediction[u][m] \in PredictionRow
      BY <1>t
    <3>2. prediction'[u][m] = IF m = n THEN WithPoints(prediction[u][m], pts[u]) ELSE prediction[u][m]
      <4> HIDE DEF n, pts
      <4> QED BY <1>t, <2>1
    <3> QED BY <3>1, <3>2, PointsWritten
  <2>4. job[wrk[w].job].state = "active"
    BY <2>1, JobAtWork
  <2>5. \A i \in JobIds : job'[i].state = "unused" => job'[i].credited = 0
    BY <2>2, <2>4 DEF PaidInv
  <2>6. ASSUME NEW x \in Workers, wrk'[x].pc = "computed"
        PROVE  /\ wrk'[x] = wrk[x] /\ job'[wrk[x].job].match_id = job[wrk[x].job].match_id
               /\ job[wrk[x].job].match_id \in Matches
    <3>1. wrk'[x] = wrk[x]
      BY <2>1, <2>6
    <3> QED BY <2>2, <2>6, <3>1, JobAtWork
  <2>7. ASSUME NEW x \in Workers, NEW u \in Users, wrk'[x].pc = "computed",
               ~prediction'[u][job'[wrk'[x].job].match_id].stored
        PROVE  wrk'[x].points[u] = NULL
    <3>1. ~prediction[u][job[wrk[x].job].match_id].stored /\ wrk[x].pc = "computed"
      BY <2>3, <2>6, <2>7
    <3> QED BY <2>6, <2>7, <3>1 DEF PaidInv
  <2> QED BY <1>p, <2>5, <2>7 DEF PaidInv
<1>4. ASSUME NEW state \in {"completed", "failed"}, wrk[w].pc # "idle", Finish(w, state)
      PROVE  PaidInv'
  <2>1. /\ prediction' = prediction
        /\ job' = [job EXCEPT ![wrk[w].job].state = state]
        /\ wrk' = [wrk EXCEPT ![w] = Waiting]
    BY <1>4 DEF Finish
  <2>2. \A i \in JobIds : /\ job'[i].state = "unused" => job[i].state = "unused"
                          /\ job'[i].credited = job[i].credited
                          /\ job'[i].match_id = job[i].match_id
    BY <1>t, <2>1 DEF JobRow
  <2>3. ASSUME NEW x \in Workers, wrk'[x].pc = "computed"
        PROVE  wrk'[x] = wrk[x] /\ job'[wrk[x].job].match_id = job[wrk[x].job].match_id
    <3>1. wrk'[x] = wrk[x]
      BY <1>t, <2>1, <2>3 DEF Waiting
    <3> QED BY <2>2, <2>3, <3>1, JobAtWork
  <2> QED BY <1>p, <2>1, <2>2, <2>3, SMTT(20) DEF PaidInv
<1> QED BY <1>1, <1>2, <1>3, <1>4 DEF WorkerNext, Complete, JobFails

LEMMA PaidOthers ==
    ASSUME Inv, PaidInv, Inv',
           \/ StalledCheck /\ UNCHANGED <<reg, asg, prd>>
           \/ \E r \in Registrars : RegistrarNext(r) /\ UNCHANGED <<prd, wrk>>
           \/ \E m \in Matches : KickOff(m)
           \/ Crash
           \/ UNCHANGED vars
    PROVE  PaidInv'
<1>t. job \in [JobIds -> JobRow] /\ wrk \in [Workers -> WorkerState]
  BY DEF Inv, TypeOK, StoreTypeOK, ProcessorTypeOK
<1>1. CASE StalledCheck /\ UNCHANGED <<reg, asg, prd>>
  <2>1. PICK j \in JobIds : RequeueStalled(j) \/ FailStalled(j)
    BY <1>1 DEF StalledCheck
  <2>2. UNCHANGED <<prediction, wrk>>
    BY <2>1 DEF RequeueStalled, FailStalled
  <2>3. \A i \in JobIds : /\ job'[i].state = "unused" => job[i].state = "unused"
                          /\ job'[i].credited = job[i].credited
                          /\ job'[i].match_id = job[i].match_id
    BY <1>t, <2>1 DEF RequeueStalled, FailStalled, JobRow
  <2>4. \A x \in Workers : wrk[x].pc = "computed" => wrk[x].job \in JobIds
    BY JobAtWork
  <2> QED BY <1>1, <2>2, <2>3, <2>4 DEF PaidInv
<1>2. ASSUME NEW r \in Registrars, RegistrarNext(r), UNCHANGED <<prd, wrk>>
      PROVE  PaidInv'
  <2>1. prediction' = prediction
    BY <1>2 DEF RegistrarNext, RegisterFind, RegisterSelect, RegisterUpdate, Enqueue, EnqueueFails, storeVars
  <2>2. CASE job' = job
    BY <1>2, <2>1, <2>2 DEF PaidInv
  <2>3. CASE Enqueue(r)
    <3>1. PICK k \in JobIds :
             /\ job[k].state = "unused"
             /\ job' = [job EXCEPT ![k] = [state |-> "wait", match_id |-> reg[r].id,
                                           local_result |-> reg[r].match.local_result,
                                           visiting_result |-> reg[r].match.visiting_result,
                                           stalled |-> 0, credited |-> 0]]
      BY <2>3 DEF Enqueue, AddJob, NextId
    <3>2. \A i \in JobIds : i # k => job'[i] = job[i]
      BY <1>t, <3>1
    <3>3. job'[k].credited = 0
      BY <1>t, <3>1
    <3>4. \A x \in Workers : wrk[x].pc = "computed" => wrk[x].job \in JobIds /\ wrk[x].job # k
      BY <3>1, JobAtWork
    <3> QED BY <1>2, <2>1, <3>2, <3>3, <3>4 DEF PaidInv
  <2>4. Enqueue(r) \/ job' = job
    BY <1>2 DEF RegistrarNext, RegisterFind, RegisterSelect, RegisterUpdate, EnqueueFails, storeVars
  <2> QED BY <2>2, <2>3, <2>4
<1>3. CASE Crash
  <2>1. /\ UNCHANGED <<prediction, job>>
        /\ \A w \in Workers : wrk'[w].pc = "idle"
        /\ \A p \in Predictors : prd'[p].prediction.stored
    BY <1>3 DEF Crash, Waiting, NoRequest, NewPrediction
  <2> QED BY <2>1 DEF PaidInv
<1>4. CASE UNCHANGED <<prediction, job, prd, wrk>>
  BY <1>4 DEF PaidInv
<1> QED BY <1>1, <1>2, <1>3, <1>4 DEF KickOff, vars, storeVars

LEMMA PaidStep ==
    ASSUME Inv, Inv', RequestsApart, PaidInv, [Next]_vars
    PROVE  PaidInv'
<1>1. ASSUME NEW a \in Assigners, AssignerNext(a), UNCHANGED <<prd, wrk>> PROVE PaidInv'
  BY <1>1, AssignerKeeps DEF PaidInv
<1> QED BY <1>1, PaidPredictor, PaidWorker, PaidOthers DEF Next
=============================================================================
