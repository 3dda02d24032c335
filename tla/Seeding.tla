------------------------------ MODULE Seeding ------------------------------
(***************************************************************************)
(* Before and beside the application: scripts/run-seed.ts fills an empty   *)
(* database (seed/seed.service.ts, no transaction), scripts/               *)
(* seed-mass-users.ts adds test users with predictions and points (one     *)
(* transaction) while results may be registered and their jobs at work.    *)
(* The matches one seed inserts stand together: a seed is their name.      *)
(***************************************************************************)
EXTENDS Registration

CONSTANTS
    Seeds,      \* bound: runs of run-seed.ts
    MaxStarts   \* bound: registrations and runs of the two scripts, all together

ASSUME SeedingAssumption == Matches = Seeds /\ IsFiniteSet(Seeds) /\ MaxStarts \in Nat

VARIABLES
    seed,      \* how far each run of run-seed.ts is
    filled,    \* the tables that hold their seed: tournament_groups, teams, app_config
    overlapped,\* two seeds were at work at the same time
    played,    \* matches with has_played
    job,       \* the scoring job of each match
    mass       \* the run of seed-mass-users.ts, and what it wrote

seedVars == <<seed, filled, overlapped>>
massVars == <<played, job, mass>>
vars == <<registrationVars, seedVars, massVars>>

SeedAtWork(s) == seed[s] \notin {"none", "done", "died"}

Stage(s, from, to) == seed[s] = from /\ seed' = [seed EXCEPT ![s] = to]

MayStart ==
    Cardinality({q \in Registrations : reg[q].pc # "none"})
        + Cardinality({s \in Seeds : seed[s] # "none"}) + mass.runs < MaxStarts

-----------------------------------------------------------------------------
(* seedIfEmpty, seed *)

\* MUTANT of Empty: what is counted is the app_config, filled last.
EmptyConfig == "config" \notin filled

\* this.groupRepository.count() = 0
Empty == "groups" \notin filled

SeedIfEmpty(s) ==
    /\ MayStart
    /\ Stage(s, "none", IF Empty THEN "counted" ELSE "done")
    /\ overlapped' = (overlapped \/ (Empty /\ \E r \in Seeds : SeedAtWork(r)))
    /\ UNCHANGED <<registrationVars, filled, massVars>>

\* groupRepository.save, teamRepository.save, the config defaults: rows with a
\* key, of which save() inserts those that are missing.
SaveKeyed(s, from, to, table) ==
    /\ Stage(s, from, to)
    /\ filled' = filled \cup {table}
    /\ UNCHANGED <<registrationVars, overlapped, massVars>>

SaveGroups(s) == SaveKeyed(s, "counted", "groups", "groups")

SaveTeams(s) == SaveKeyed(s, "groups", "teams", "teams")

\* matchRepository.save: the matches get new ids, nothing tells them from others.
SaveMatches(s) ==
    /\ Stage(s, "teams", "matches")
    /\ matches' = matches \cup {s}
    /\ UNCHANGED <<reg, users, predicted, podiums, free, leaked, faults, filled, overlapped, massVars>>

SaveConfig(s) == SaveKeyed(s, "matches", "done", "config")

\* A save fails, or the script is killed; of two that overlap the one may also
\* insert a key the other has inserted.
SeedDies(s) ==
    /\ SeedAtWork(s)
    /\ IF overlapped THEN UNCHANGED faults ELSE Fault
    /\ seed' = [seed EXCEPT ![s] = "died"]
    /\ UNCHANGED <<reg, users, predicted, podiums, matches, free, leaked, filled, overlapped, massVars>>

-----------------------------------------------------------------------------
(* A match is played and scored, as far as the test users see it *)

\* updateResult: the result is saved, its job waits.
Play(m) ==
    /\ m \in matches \ played
    /\ played' = played \cup {m}
    /\ job' = [job EXCEPT ![m] = "waits"]
    /\ UNCHANGED <<registrationVars, seedVars, mass>>

\* process: userMatchRepository.find sees the test users once they are committed.
JobFinds(m) ==
    /\ job[m] = "waits"
    /\ job' = [job EXCEPT ![m] = IF mass.pc = "done" THEN "found" ELSE "empty"]
    /\ UNCHANGED <<registrationVars, seedVars, played, mass>>

\* Its transaction adds the points to the score, the row takes them.
JobScores(m) ==
    /\ job[m] \in {"found", "empty"}
    /\ job' = [job EXCEPT ![m] = "done"]
    /\ mass' = IF job[m] = "found" /\ m \in mass.predicted
               THEN [mass EXCEPT !.points = @ \cup {m}, !.score[m] = @ + 1]
               ELSE mass
    /\ UNCHANGED <<registrationVars, seedVars, played>>

-----------------------------------------------------------------------------
(* seed-mass-users.ts, for one test user: the matches he has rows for, those he
   predicted, those whose row has points, and how often a match is in his score *)

NoTestUsers == [pc |-> "none", found |-> {}, predicted |-> {}, points |-> {},
                score |-> [m \in Matches |-> 0], pending |-> {}, runs |-> 0]

MassStep(from, next) ==
    /\ mass.pc = from
    /\ mass' = next
    /\ UNCHANGED <<registrationVars, seedVars, played, job>>

\* The count of test users, "skipping creation", BEGIN.
MassBegins ==
    /\ MayStart
    /\ MassStep("none", [NoTestUsers EXCEPT !.pc = "begun", !.runs = mass.runs + 1])

\* The match ids, then users, user_matches and user_podiums.
MassInserts == MassStep("begun", [mass EXCEPT !.pc = "inserted", !.found = matches])

\* Random goals for every played match.
MassPredicts ==
    MassStep("inserted", [mass EXCEPT !.pc = "predicted", !.predicted = mass.found \cap played])

\* WHERE m.has_played AND the goals are NOT NULL
MassPoints == mass.found \cap played \cap mass.predicted

MassCalculates == MassStep("predicted", [mass EXCEPT !.pc = "calculated", !.points = MassPoints])

\* MUTANT of MassSum: the played matches are counted, not their points.
MassSumPlayed == [m \in Matches |-> IF m \in mass.found \cap played THEN 1 ELSE 0]

\* SUM(um.points) over the played matches
MassSum == [m \in Matches |-> IF m \in mass.points \cap played THEN 1 ELSE 0]

MassSums == MassStep("calculated", [mass EXCEPT !.pc = "summed", !.score = MassSum])

MassCommits ==
    MassStep("summed", [mass EXCEPT !.pc = "done", !.pending = {m \in mass.points : job[m] = "waits"}])

\* rollbackTransaction, or the script is killed: nothing is left of it.
MassDies ==
    /\ mass.pc \notin {"none", "done"}
    /\ Fault
    /\ mass' = [NoTestUsers EXCEPT !.runs = mass.runs]
    /\ UNCHANGED <<reg, users, predicted, podiums, matches, free, leaked, seedVars, played, job>>

-----------------------------------------------------------------------------
SeedingInit ==
    /\ seed = [s \in Seeds |-> "none"]
    /\ filled = {}
    /\ overlapped = FALSE
    /\ played = {}
    /\ job = [m \in Matches |-> "none"]
    /\ mass = NoTestUsers

Init == RegistrationInit /\ SeedingInit

MassNext ==
    \/ MassBegins \/ MassInserts \/ MassPredicts \/ MassCalculates \/ MassSums
    \/ MassCommits \/ MassDies

Next ==
    \/ \E q \in Registrations, e \in Emails, n \in Nicknames :
          MayStart /\ Begin(q, e, n) /\ UNCHANGED <<seedVars, massVars>>
    \/ RegistrationNext /\ UNCHANGED <<seedVars, massVars>>
    \/ \E s \in Seeds :
          \/ SeedIfEmpty(s) \/ SaveGroups(s) \/ SaveTeams(s) \/ SaveMatches(s)
          \/ SaveConfig(s) \/ SeedDies(s)
    \/ \E m \in Matches : Play(m) \/ JobFinds(m) \/ JobScores(m)
    \/ MassNext

\* A registration that has begun runs on: Node resolves its promises, PostgreSQL
\* answers, the pool gives a free connection out or gives up after its timeout.
Fairness == \A q \in Registrations : WF_vars(Proceed(q) /\ UNCHANGED <<seedVars, massVars>>)

Spec == Init /\ [][Next]_vars /\ Fairness

-----------------------------------------------------------------------------
TypeOK ==
    /\ RegistrationTypeOK
    /\ seed \in [Seeds -> {"none", "counted", "groups", "teams", "matches", "done", "died"}]
    /\ filled \subseteq {"groups", "teams", "config"}
    /\ overlapped \in BOOLEAN
    /\ played \subseteq matches
    /\ job \in [Matches -> {"none", "waits", "found", "empty", "done"}]
    /\ mass \in [pc : {"none", "begun", "inserted", "predicted", "calculated", "summed", "done"},
                 found : SUBSET Matches, predicted : SUBSET Matches, points : SUBSET Matches,
                 score : [Matches -> 0..2], pending : SUBSET Matches, runs : 0..MaxStarts]

\* The matches are in the table once, however often the seed is run, and whatever
\* stopped an earlier run ("Seed data already exists, skipping", seed.service.ts),
\* as long as two runs do not overlap: nothing but the groups tells that they are there.
SeededOnce == ~overlapped => Cardinality(matches) <= 1

\* A test user's score is the sum of the points of his rows, whatever is played
\* and scored meanwhile; but for a match whose job was still to read the rows when
\* they were committed, and counts it a second time.
MassScoreIsSum ==
    mass.pc = "done" =>
        \A m \in Matches \ mass.pending : mass.score[m] = IF m \in mass.points THEN 1 ELSE 0
=============================================================================
