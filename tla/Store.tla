------------------------------- MODULE Store -------------------------------
(***************************************************************************)
(* What the handlers of the prediction game share: the PostgreSQL rows of  *)
(* matches, user_matches and users.score, the BullMQ queue of scoring      *)
(* jobs, and the clock as far as it matters (which matches have kicked     *)
(* off).                                                                   *)
(***************************************************************************)
EXTENDS Scoring, EntitySave, FiniteSets

CONSTANTS
    Users, Matches, Teams,
    Knockout,      \* the matches whose phase is not 'group'
    Goals,         \* bound: the goals a result or a prediction may hold
    MaxJobs,       \* bound: jobs ever enqueued
    FaultKinds,    \* which failures happen: "enqueue", "job", "crash"
    MaxFaults      \* bound: failures in one behaviour

ASSUME StoreAssumption ==
    /\ IsFiniteSet(Matches)         \* the rows of a table
    /\ Knockout \subseteq Matches
    /\ Goals \subseteq Nat
    /\ MaxJobs \in Nat
    /\ NULL \notin Teams
    /\ NULL \notin Matches
    /\ FaultKinds \subseteq {"enqueue", "job", "crash"}
    /\ MaxFaults \in Nat

VARIABLES
    match,        \* table matches, by match
    prediction,   \* table user_matches, by user and match
    score,        \* column users.score, by user
    job,          \* the scoring queue, by job id
    started,      \* now >= match_date, by match
    late,         \* history: the predictions saved after their match had its result
    faults        \* failures so far

storeVars == <<match, prediction, score, job, started, late, faults>>

JobIds == 1..MaxJobs

-----------------------------------------------------------------------------
(* Rows *)

MatchRow ==
    [local_team_id : Teams \cup {NULL}, visiting_team_id : Teams \cup {NULL},
     local_result : Goals \cup {NULL}, visiting_result : Goals \cup {NULL},
     has_played : BOOLEAN]

\* stored is FALSE when user_matches has no row for the pair.
PredictionRow ==
    [stored : BOOLEAN, local_score : Goals \cup {NULL}, visitor_score : Goals \cup {NULL},
     points : Nat]

\* What an INSERT that names no other column leaves: points has DEFAULT 0.
NewPrediction ==
    [stored |-> TRUE, local_score |-> NULL, visitor_score |-> NULL, points |-> 0]

-----------------------------------------------------------------------------
(* The queue: add() without options, so one attempt; a job whose worker died *)
(* is put back at most MaxStalledCount times (BullMQ's default is 1).        *)

MaxStalledCount == 1

\* credited: history, how often its transaction has committed.
JobRow ==
    [state : {"unused", "wait", "active", "completed", "failed"}, match_id : Matches \cup {NULL},
     local_result : Goals \cup {NULL}, visiting_result : Goals \cup {NULL},
     stalled : 0..MaxStalledCount, credited : Nat]

NoJob ==
    [state |-> "unused", match_id |-> NULL, local_result |-> NULL, visiting_result |-> NULL,
     stalled |-> 0, credited |-> 0]

NextId(j) == /\ job[j].state = "unused"
             /\ \A i \in JobIds : job[i].state = "unused" => j <= i

\* MUTANT of AddJob: every job is added under one fixed id, and add() ignores
\* an id the queue already knows.
AddJobOnce(m, localResult, visitingResult) ==
    IF \A i \in JobIds : job[i].state = "unused"
    THEN job' = [job EXCEPT ![1] = [state |-> "wait", match_id |-> m, local_result |-> localResult,
                                    visiting_result |-> visitingResult, stalled |-> 0, credited |-> 0]]
    ELSE job' = job

AddJob(m, localResult, visitingResult) ==
    \E j \in JobIds :
        /\ NextId(j)
        /\ job' = [job EXCEPT ![j] = [state |-> "wait", match_id |-> m,
                                      local_result |-> localResult,
                                      visiting_result |-> visitingResult, stalled |-> 0, credited |-> 0]]

\* A failure of this kind may happen now, and is counted.
Fault(kind) ==
    /\ kind \in FaultKinds
    /\ faults < MaxFaults
    /\ faults' = faults + 1

-----------------------------------------------------------------------------
StoreTypeOK ==
    /\ match \in [Matches -> MatchRow]
    /\ prediction \in [Users -> [Matches -> PredictionRow]]
    /\ score \in [Users -> Nat]
    /\ job \in [JobIds -> JobRow]
    /\ started \in [Matches -> BOOLEAN]
    /\ late \in [Users -> [Matches -> BOOLEAN]]
    /\ faults \in 0..MaxFaults

MissingPrediction == [NewPrediction EXCEPT !.stored = FALSE]

\* Before the tournament: no result, no points, no job.  Predictions start as
\* users.create leaves them (a row without goals) or missing (a match added
\* after the account).
StoreInit ==
    /\ \E local, visiting \in Teams :
           /\ Matches # Knockout => local # visiting
           /\ match = [m \in Matches |->
                  [local_team_id |-> IF m \in Knockout THEN NULL ELSE local,
                   visiting_team_id |-> IF m \in Knockout THEN NULL ELSE visiting,
                   local_result |-> NULL, visiting_result |-> NULL, has_played |-> FALSE]]
    /\ prediction \in [Users -> [Matches -> {NewPrediction, MissingPrediction}]]
    /\ score = [u \in Users |-> 0]
    /\ job = [j \in JobIds |-> NoJob]
    /\ started = [m \in Matches |-> FALSE]
    /\ late = [u \in Users |-> [m \in Matches |-> FALSE]]
    /\ faults = 0
=============================================================================
