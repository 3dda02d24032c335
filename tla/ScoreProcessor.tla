-------------------------- MODULE ScoreProcessor --------------------------
(***************************************************************************)
(* matches/jobs/score-calculation.processor.ts: a worker takes a job, reads *)
(* the predictions of its match, works out their points, and in one        *)
(* transaction sets user_matches.points and adds to users.score.           *)
(***************************************************************************)
EXTENDS Store

CONSTANT Workers   \* the BullMQ workers; the application runs one, of concurrency 1

VARIABLE wrk   \* the workers

NotFound == [u \in Users |-> NULL]

\* points: what the job will write for each user, NULL where it found no row.
Waiting == [pc |-> "idle", job |-> 0, points |-> NotFound]

WorkerState ==
    {Waiting} \cup [pc : {"taken", "computed", "committed"}, job : JobIds,
                    points : [Users -> Nat \cup {NULL}]]

-----------------------------------------------------------------------------
Take(w) ==
    /\ wrk[w].pc = "idle"
    /\ \E j \in JobIds :
           /\ job[j].state = "wait"
           /\ job' = [job EXCEPT ![j].state = "active"]
           /\ wrk' = [wrk EXCEPT ![w] = [pc |-> "taken", job |-> j, points |-> NotFound]]
    /\ UNCHANGED <<match, prediction, score, started, late, faults>>

\* The points of every prediction of the match, for the result in the job.
JobPoints(j) ==
    [u \in Users |->
        LET p == prediction[u][j.match_id]
        IN IF p.stored
           THEN PointsTotal(p.local_score, p.visitor_score, j.local_result, j.visiting_result)
           ELSE NULL]

Compute(w) ==
    /\ wrk[w].pc = "taken"
    /\ wrk' = [wrk EXCEPT ![w].pc = "computed", ![w].points = JobPoints(job[wrk[w].job])]
    /\ UNCHANGED storeVars

\* MUTANT of WithPoints: the predictions are left out of the transaction.
WithPointsForgotten(row, points) == row

\* UPDATE user_matches SET points = v.points
WithPoints(row, points) == IF points = NULL THEN row ELSE [row EXCEPT !.points = points]

\* MUTANT of Credited: the score is set, not added to.
CreditedAnew(s, points) == IF points = NULL THEN s ELSE points

\* UPDATE users SET score = u.score + v.points
Credited(s, points) == IF points = NULL THEN s ELSE s + points

Commit(w) ==
    LET m == job[wrk[w].job].match_id
        points == wrk[w].points
    IN /\ wrk[w].pc = "computed"
       /\ prediction' = [u \in Users |->
              [prediction[u] EXCEPT ![m] = WithPoints(@, points[u])]]
       /\ score' = [u \in Users |-> Credited(score[u], points[u])]
       /\ wrk' = [wrk EXCEPT ![w].pc = "committed", ![w].points = NotFound]
       /\ job' = [job EXCEPT ![wrk[w].job].credited = @ + 1]
       /\ UNCHANGED <<match, started, late, faults>>

Finish(w, state) ==
    /\ job' = [job EXCEPT ![wrk[w].job].state = state]
    /\ wrk' = [wrk EXCEPT ![w] = Waiting]
    /\ UNCHANGED <<match, prediction, score, started, late>>

Complete(w) ==
    /\ wrk[w].pc = "committed"
    /\ Finish(w, "completed")
    /\ UNCHANGED faults

\* process() throws: the database refuses a query or the transaction (which is
\* rolled back), or Redis the invalidations that follow the commit.  One
\* attempt is all a job gets.
JobFails(w) ==
    /\ wrk[w].pc # "idle"
    /\ Fault("job")
    /\ Finish(w, "failed")

\* BullMQ finds a job active that no worker holds.
Stalled(j) == /\ job[j].state = "active"
              /\ \A w \in Workers : wrk[w].job # j

\* MUTANT of MayRequeue: a job is put back for ever.
MayRequeueAlways(j) == TRUE

MayRequeue(j) == job[j].stalled < MaxStalledCount

\* MUTANT of RequeueStalled: nobody looks for stalled jobs.
RequeueStalledNever(j) == FALSE

RequeueStalled(j) ==
    /\ Stalled(j)
    /\ MayRequeue(j)
    /\ job' = [job EXCEPT ![j].state = "wait", ![j].stalled = @ + 1]
    /\ UNCHANGED <<match, prediction, score, started, late, faults, wrk>>

FailStalled(j) ==
    /\ Stalled(j)
    /\ ~MayRequeue(j)
    /\ job' = [job EXCEPT ![j].state = "failed"]
    /\ UNCHANGED <<match, prediction, score, started, late, faults, wrk>>

-----------------------------------------------------------------------------
ProcessorInit == wrk = [w \in Workers |-> Waiting]

WorkerNext(w) == Take(w) \/ Compute(w) \/ Commit(w) \/ Complete(w) \/ JobFails(w)

StalledCheck == \E j \in JobIds : RequeueStalled(j) \/ FailStalled(j)

ProcessorTypeOK == wrk \in [Workers -> WorkerState]
=============================================================================
