-------------------------- MODULE MatchesService --------------------------
(***************************************************************************)
(* matches/matches.service.ts: an admin registers a result (updateResult)  *)
(* or assigns the teams of a knockout match (assignTeams).  Each admin     *)
(* request is a process; every await is a step boundary, and nothing ties  *)
(* the check of has_played to the save that sets it.                       *)
(***************************************************************************)
EXTENDS Store

CONSTANTS
    Registrars,    \* concurrent PATCH /matches/:id/result requests
    Assigners      \* concurrent PATCH /matches/:id/teams requests

VARIABLES
    reg,   \* the updateResult requests
    asg    \* the assignTeams requests

NoRow ==
    [local_team_id |-> NULL, visiting_team_id |-> NULL,
     local_result |-> NULL, visiting_result |-> NULL, has_played |-> FALSE]

\* match: the entity the handler holds; seen: the row it was loaded from, then
\* the row save() selected.
Idle == [pc |-> "idle", id |-> NULL, match |-> NoRow, seen |-> NoRow]

RegistrarState ==
    {Idle} \cup [pc : {"found", "selected", "saved"}, id : Matches, match : MatchRow, seen : MatchRow]

AssignerState ==
    {Idle} \cup [pc : {"found", "selected"}, id : Matches, match : MatchRow, seen : MatchRow]

-----------------------------------------------------------------------------
(* updateResult(matchId, dto) *)

\* MUTANT of Registrable: the check is forgotten.
RegistrableAlways(row) == TRUE

\* The check on the row the request found.
Registrable(row) == ~row.has_played

\* MUTANT of WithResult: the match is not marked as played.
WithResultNotPlayed(row, localResult, visitingResult) ==
    [row EXCEPT !.local_result = localResult, !.visiting_result = visitingResult]

WithResult(row, localResult, visitingResult) ==
    [row EXCEPT !.local_result = localResult, !.visiting_result = visitingResult,
                !.has_played = TRUE]

RegisterFind(r) ==
    /\ reg[r].pc = "idle"
    /\ \E m \in Matches, localResult, visitingResult \in Goals :
           /\ Registrable(match[m])
           /\ reg' = [reg EXCEPT ![r] = [pc |-> "found", id |-> m,
                                         match |-> WithResult(match[m], localResult, visitingResult),
                                         seen |-> match[m]]]
    /\ UNCHANGED <<storeVars, asg>>

RegisterSelect(r) ==
    /\ reg[r].pc = "found"
    /\ reg' = [reg EXCEPT ![r].pc = "selected", ![r].seen = match[reg[r].id]]
    /\ UNCHANGED <<storeVars, asg>>

RegisterUpdate(r) ==
    LET m == reg[r].id
    IN /\ reg[r].pc = "selected"
       /\ match' = [match EXCEPT ![m] = Saved(reg[r].match, reg[r].seen, match[m])]
       /\ reg' = [reg EXCEPT ![r].pc = "saved"]
       /\ UNCHANGED <<prediction, score, job, started, late, faults, asg>>

\* scoreQueue.add, from the arguments of the request, not from the row.
Enqueue(r) ==
    /\ reg[r].pc = "saved"
    /\ AddJob(reg[r].id, reg[r].match.local_result, reg[r].match.visiting_result)
    /\ reg' = [reg EXCEPT ![r] = Idle]
    /\ UNCHANGED <<match, prediction, score, started, late, faults, asg>>

\* Redis refuses the job: the request answers 500, the result stays saved.
EnqueueFails(r) ==
    /\ reg[r].pc = "saved"
    /\ Fault("enqueue")
    /\ reg' = [reg EXCEPT ![r] = Idle]
    /\ UNCHANGED <<match, prediction, score, job, started, late, asg>>

-----------------------------------------------------------------------------
(* assignTeams(matchId, dto) *)

\* MUTANT of Assignable: the phase is not looked at.
AssignableAnyPhase(m, row) == ~row.has_played /\ ~started[m]

Assignable(m, row) == m \in Knockout /\ ~row.has_played /\ ~started[m]

\* MUTANT of TeamsDiffer: the two sides are not compared.
TeamsDifferNever(local, visiting) == TRUE

TeamsDiffer(local, visiting) == local # NULL /\ visiting # NULL => local # visiting

\* The dto carries one side or both: a team, or null to clear the side.
Sides == (SUBSET {"local", "visiting"}) \ {{}}

WithTeams(row, sides, local, visiting) ==
    [row EXCEPT !.local_team_id = IF "local" \in sides THEN local ELSE @,
                !.visiting_team_id = IF "visiting" \in sides THEN visiting ELSE @]

AssignFind(a) ==
    /\ asg[a].pc = "idle"
    /\ \E m \in Matches, sides \in Sides, local, visiting \in Teams \cup {NULL} :
           LET next == WithTeams(match[m], sides, local, visiting)
           IN /\ Assignable(m, match[m])
              /\ TeamsDiffer(next.local_team_id, next.visiting_team_id)
              /\ asg' = [asg EXCEPT ![a] = [pc |-> "found", id |-> m, match |-> next,
                                            seen |-> match[m]]]
    /\ UNCHANGED <<storeVars, reg>>

AssignSelect(a) ==
    /\ asg[a].pc = "found"
    /\ asg' = [asg EXCEPT ![a].pc = "selected", ![a].seen = match[asg[a].id]]
    /\ UNCHANGED <<storeVars, reg>>

AssignUpdate(a) ==
    LET m == asg[a].id
    IN /\ asg[a].pc = "selected"
       /\ match' = [match EXCEPT ![m] = Saved(asg[a].match, asg[a].seen, match[m])]
       /\ asg' = [asg EXCEPT ![a] = Idle]
       /\ UNCHANGED <<prediction, score, job, started, late, faults, reg>>

-----------------------------------------------------------------------------
MatchesInit ==
    /\ reg = [r \in Registrars |-> Idle]
    /\ asg = [a \in Assigners |-> Idle]

RegistrarNext(r) ==
    \/ RegisterFind(r) \/ RegisterSelect(r) \/ RegisterUpdate(r)
    \/ Enqueue(r) \/ EnqueueFails(r)

AssignerNext(a) == AssignFind(a) \/ AssignSelect(a) \/ AssignUpdate(a)

MatchesTypeOK ==
    /\ reg \in [Registrars -> RegistrarState]
    /\ asg \in [Assigners -> AssignerState]
=============================================================================
