------------------------ MODULE PredictionsService ------------------------
(***************************************************************************)
(* users/users.service.ts updatePrediction: a player saves the goals he    *)
(* predicts for a match.  The match is checked in the first read; the row  *)
(* of user_matches is read, selected again and written in later ones.      *)
(***************************************************************************)
EXTENDS Store

CONSTANT Predictors   \* concurrent prediction requests

VARIABLE prd   \* the updatePrediction requests

\* prediction: the entity of the handler; seen: the row save() selected.
NoRequest ==
    [pc |-> "idle", user |-> NULL, id |-> NULL, prediction |-> NewPrediction,
     seen |-> NewPrediction]

PredictorState ==
    {NoRequest} \cup [pc : {"checked", "new", "loaded", "selected"}, user : Users, id : Matches,
                      prediction : PredictionRow, seen : PredictionRow]

-----------------------------------------------------------------------------
\* The checks on the match the request found.
Predictable(m, row) == ~row.has_played /\ ~started[m]

WithGoals(row, localScore, visitorScore) ==
    [row EXCEPT !.local_score = localScore, !.visitor_score = visitorScore]

CheckMatch(p) ==
    /\ prd[p].pc = "idle"
    /\ \E u \in Users, m \in Matches, l, v \in Goals :
           /\ Predictable(m, match[m])
           /\ prd' = [prd EXCEPT ![p] = [pc |-> "checked", user |-> u, id |-> m,
                                         prediction |-> WithGoals(NewPrediction, l, v),
                                         seen |-> NewPrediction]]
    /\ UNCHANGED storeVars

\* findOne: the stored row with the new goals, or a new entity without an id.
LoadPrediction(p) ==
    LET req == prd[p]
        row == prediction[req.user][req.id]
    IN /\ req.pc = "checked"
       /\ prd' = [prd EXCEPT ![p] =
              IF row.stored
              THEN [req EXCEPT !.pc = "loaded",
                               !.prediction = WithGoals(row, req.prediction.local_score,
                                                        req.prediction.visitor_score)]
              ELSE [req EXCEPT !.pc = "new"]]
       /\ UNCHANGED storeVars

SelectPrediction(p) ==
    /\ prd[p].pc = "loaded"
    /\ prd' = [prd EXCEPT ![p].pc = "selected",
                          ![p].seen = prediction[prd[p].user][prd[p].id]]
    /\ UNCHANGED storeVars

\* The row is written; the request is over.
WriteRow(p, row) ==
    LET u == prd[p].user
        m == prd[p].id
    IN /\ prediction' = [prediction EXCEPT ![u][m] = row]
       /\ late' = [late EXCEPT ![u][m] = @ \/ match[m].has_played]
       /\ prd' = [prd EXCEPT ![p] = NoRequest]
       /\ UNCHANGED <<match, score, job, started, faults>>

UpdatePrediction(p) ==
    LET req == prd[p]
    IN /\ req.pc = "selected"
       /\ WriteRow(p, Saved(req.prediction, req.seen, prediction[req.user][req.id]))

InsertPrediction(p) ==
    LET req == prd[p]
    IN /\ req.pc = "new"
       /\ ~prediction[req.user][req.id].stored
       /\ WriteRow(p, req.prediction)

\* UNIQUE (user_id, match_id): another request inserted the row first, this
\* one answers 500 and stores nothing.
InsertConflicts(p) ==
    /\ prd[p].pc = "new"
    /\ prediction[prd[p].user][prd[p].id].stored
    /\ prd' = [prd EXCEPT ![p] = NoRequest]
    /\ UNCHANGED storeVars

-----------------------------------------------------------------------------
PredictionsInit == prd = [p \in Predictors |-> NoRequest]

PredictorNext(p) ==
    \/ CheckMatch(p) \/ LoadPrediction(p) \/ SelectPrediction(p)
    \/ UpdatePrediction(p) \/ InsertPrediction(p) \/ InsertConflicts(p)

PredictionsTypeOK == prd \in [Predictors -> PredictorState]
=============================================================================
