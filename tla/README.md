# World Cup 2026 backend: TLA+ models and proofs

The backend (NestJS, PostgreSQL through TypeORM, Redis, BullMQ, Socket.IO) runs a
prediction game: players predict the goals of every match, an admin registers the
result, a background job turns it into points, a ranking adds them up.  These modules
model the parts whose correctness depends on the order in which requests, jobs,
notifications and failures meet, and the functions that only compute.

## Inventory

| Part | State | Operations | What is hard |
|---|---|---|---|
| Scoring rules (`matches/scoring.ts`, SQL in `seed-mass-users.ts`) | none | `calculatePoints` | bonuses that exclude each other; two copies of the rules |
| Matches (`matches/matches.service.ts`) | rows of `matches` | `updateResult`, `assignTeams`, `findAll` | check and save are separate awaits; `save()` writes back stale columns |
| Scoring job (`matches/jobs/`) | BullMQ queue, `user_matches.points`, `users.score` | `process`, `onFailed` | added to a score by increments, delivered at least once, never retried on error |
| Predictions (`users.service.ts updatePrediction`) | rows of `user_matches` | `updatePrediction` | checked against a match read earlier |
| User accounts (`users.service.ts`) | rows of `users` | `updateUser`, `updateProfileImage`, `requestPasswordReset`, `setActive` | whole-row saves after mails and hashes; last active admin |
| Registration (`users.service.ts create`) | a transaction, connections of the pool | `create` | a second connection inside the transaction; errors before its `try` and after the commit |
| Podium (`updateUser`) | rows of `user_podiums` | save before `podium_deadline` | the deadline comes from a cache |
| Configuration, caches (`app-config/`, `common/cache/`, `teams/`) | `app_config`, Redis keys | `get`, `set`, `del`, `delByPrefix` | read-through fills racing invalidations; scripts that invalidate nothing |
| Ranking and read models (`users.service.ts`) | cached pages | `getRanking`, `getMatchPredictions`, `getUserMatchResults`, `listForAdmin` | several queries without a snapshot; paging |
| Login, WebSocket gateway (`auth/`, `events/events.gateway.ts`) | tokens, rooms and sockets | login, connect, join, emits, disconnect | a token outlives the account |
| Users listener (`events/users-changes-listener.service.ts`) | one `pg` client, a timer | connect, reconnect, notifications, shutdown | late events, shutdown during connect, lost notifications |
| Avatar upload (`users.controller.ts`) | files and `users.profile_image` | upload | files change before the row does, and before anybody asks whose they are |
| Seed and mass seed (`seed/`, `scripts/`) | all tables | `seedIfEmpty`, `seed-mass-users` | no transaction, no invalidation; results registered meanwhile |
| Mail, migrations, bootstrap, guards | - | - | I/O and wiring |

How they interact: HTTP handlers share the database rows and the Redis cache; the result
of a match reaches the scoring worker through the queue; both emit Socket.IO events; a
database trigger on `users` reaches the listener, which clears the ranking cache and
closes sockets.  Handlers run in one Node process and interleave at every `await`; no
handler opens a transaction but the scoring job and `create`.

What makes each part correct:

- **Scoring**: the points of the README table, at most 7 for a match, in both copies.
- **Matches**: a result is registered once, whole, and never withdrawn; the two teams of a
  match differ.
- **Scoring job**: every registered result is scored, once; `users.score` is the sum of
  `user_matches.points`.  All of it together is the abstract `Scoreboard`.
- **Predictions**: none changes after its match kicked off or was played; the others' stay
  hidden before kick-off while `reveal_predictions` asks for it.
- **Accounts**: an active admin always remains; a credit is not lost to another update of
  the row; the stored password is one its owner has, flagged as temporary and with a
  deadline exactly if it is; `profile_image` names a file that exists.
- **Registration**: an account has its podium and its predictions or is not there; email
  and nickname are unique; the answer is true; connections come back; every request ends.
- **Caches**: an answer that was true when it was cached is true, or about to be deleted, as
  long as its rows are changed by the application and no deletion fails.
- **Ranking**: everybody is on exactly one page; the position is the one in the list.
- **Sessions**: a deactivated user keeps no socket, nobody else loses one.
- **Listener**: one live client, or a reconnect on its way; after shutdown neither; and no
  more clients than failures whatever events come late.
- **Seed**: the tournament is inserted once and is one that can be played; the test users'
  scores are the sums of their points.

## Modules

| Module | Models |
|---|---|
| `Scoring` | `calculatePoints`, its SQL copy, and the table both are compared with |
| `EntitySave` | TypeORM's `save()` of a loaded entity |
| `Store` | the rows of `matches` and `user_matches`, `users.score`, the job queue, kick-off |
| `MatchesService` | `updateResult`, `assignTeams` |
| `PredictionsService` | `updatePrediction` |
| `ScoreProcessor` | the scoring worker and BullMQ's stalled-job check |
| `ScoringPipeline` | the composition: `Next`, crash, fairness, the properties, the mapping to `Scoreboard` |
| `Scoreboard` | the abstract specification of the pipeline: open, closed and scored matches, guesses, standings |
| `UserAccounts` | the rows of `users` under `updateUser`, `updateProfileImage`, `requestPasswordReset`, `setActive`, and the avatar files |
| `ChangesListener` | the listener's client, timer and shutdown |
| `Sessions` | extends it: login, gateway, the trigger on `users`, `setActive`'s notice, `handlePayload` |
| `CacheService` | Redis entries, what they are made of, `get`, `set`, `del`, `delByPrefix` |
| `ReadModels` | extends it: the requests that read through the caches, decide on them, or change data and invalidate, and the scripts that do not |
| `Registration` | `create`, its transaction, the pool, the unique constraints, the mapping to `Directory` |
| `Directory` | the abstract specification of `create`: accounts entered at once, whole and unique, and true answers |
| `Seeding` | extends it: `seedIfEmpty` and `seed-mass-users`, beside results being scored |
| `Ranking`, `Fixtures` | the paged lists as functions of a table; the seeded tournament |
| `MCScoring`, `MCPipeline`, `MCAccounts`, `MCSessions`, `MCReadModels`, `MCSetup` | what TLC needs for small instances |
| `ScoringProofs`, `PipelineProofs`, `ResultsProofs`, `RefinementProofs`, `AccountProofs`, `SessionProofs`, `CacheProofs`, `SetupProofs` | theorems, and the inductive invariants they rest on |

### The pipeline

A row is a record of the columns the properties read (`discriminated_points` is the
breakdown of `points` and is left out of the row).  Every request is a process with a
`pc`; a handler is cut into actions at its awaits:

- `updateResult` = `RegisterFind` (findOne, the `has_played` check, the assignments),
  `RegisterSelect` and `RegisterUpdate` (the two statements of `save()`), `Enqueue` or
  `EnqueueFails`.
- `assignTeams` = `AssignFind`, `AssignSelect`, `AssignUpdate`.
- `updatePrediction` = `CheckMatch`, `LoadPrediction`, then `SelectPrediction` and
  `UpdatePrediction`, or `InsertPrediction` / `InsertConflicts`.
- `process` = `Take`, `Compute` (find and the loop), `Commit` (the transaction, whose
  two UPDATEs nobody sees apart), `Complete`; `JobFails` at any point.
- A request that is rejected changes nothing: it is not an action.

`save(entity)` is the crux.  TypeORM (0.3) selects the row, compares the entity with it
column by column and updates the columns that differ; `Saved(entity, seen, row)` says so.
A column that another request changed between the handler's `findOne` and the SELECT of
`save()` differs too, and the old value is written back.

External parts modelled from their use: TypeORM's `save`, BullMQ (jobs are added without
options, so one attempt; a job whose worker died is put back once, the default
`maxStalledCount`; waiting jobs are taken in any order, which covers the queue's), the
restart of the process.  `RegisteredIsScored` says what holds without a failure: after
a crash or a refused enqueue the code has nothing that tries again.  Two histories:
`late`, the predictions that were saved when their match already had a result, and
`credited`, how often a job wrote its points.

`Scoreboard` is what the players are promised: a match is open to guesses, then closed
with its result, then scored, once and for everybody in the same step.  `Board` and
`Players` map the pipeline to it.  A player drops off the board when one of his saves
came after a result, and all do when a crash has points written twice: those are the two
ways the code departs from the promise while no two requests race for a match.

### Accounts

`UserAccounts` stands beside the pipeline: they share the table `users`, but
the pipeline only adds to `score`, by one UPDATE, which is `Credit` here.  Every request
is a record that says which handler it is (`kind`), how far it is (`pc`) and what it holds:

- the guard and the body = `BeginStatus`, `BeginProfile`, `BeginReset`, `BeginUpload`;
- `uploadAvatar` = `UnlinkOthers`, `WriteFile`, then `updateProfileImage`: `Forbid` where the
  account is another's, whose files are written by then, and else as the others;
- `findOne` and what the handler does up to its next await = `FindUser` (`GoOn`);
- the queries and the mail in between = `CountAdmins`, `CheckNickname`, `SendMail` or
  `MailFails`;
- `save(user)` = `SelectUser`, then `UpdateUser` or `UpdateConflicts` (the nickname is
  unique).  A rename with a new password saves twice: `UpdateUser` goes on with `GoOn`;
- `QueryFails`, wherever a handler awaits.

A password is a value that tells it from the others, its hash and its plain text being one;
a deadline is the temporary password whose fifteen minutes it ends.  Five history variables
say what the properties may assume: `known` (what the owner chose or was mailed),
`credited`, `exposed` (accounts credited while a request held a copy of the row it will
still compare), `raced` (accounts two requests at work had in common; two status
changes always meet, since the count reads every admin) and `torn` (accounts whose files an
upload changed that ended without saving the row: refused because the account is another's,
failed, or killed).  What `AvatarExists` says of `torn` is that it lasts no longer than the
owner's next upload.

### Sessions and listener

`ChangesListener` is the service alone: `conn` says what each `pg` client is doing, and
the events PostgreSQL and the network may send are actions (`ListenResolves`,
`ConnectFails`, `ErrorEvent`, `EndEvent`, `TimerFires`), as is `onModuleDestroy`
(`Destroy`).  The back-off delays are times and left out.  `tangled` is a history: an end
event came after its own timer had fired, or the module was destroyed while it was
connecting.  In both cases the code loses sight of a client: `OneListener` does not speak
of them, `ListenersAreFew` does, with a bound on what they lead to.

`Sessions` puts it to work.  `Notify` is the trigger: at each change of a row of `users`
one notification goes to every client that listens at that moment; those on their way to
a client that stops listening are lost (`LoseNotes`).  `Receive` and `HandlePayload` are
two actions because `handlePayload` awaits Redis first; it may reject there.  The gateway
does not look at the account when a socket connects, so a user who was deactivated can
come back with his old token; the properties are about sockets opened before the
deactivation (`old` is FALSE).  `missed` and `untold` say which deactivations the two ways
of throwing a user out did not follow up.  An operator's SQL may deactivate or delete a
user at any time (`OtherUpdate`): that is what the listener is there for.

### Caches and read models

A cached answer is the set of what its queries read: a table's version (the number of
changes it has seen) or a configuration value.  `getRanking` reads in four queries, so
its answer may be a mixture.  A reader is `AskList`, `Hit` or `Missed`, `Query`, `Fill`;
`AskPodium`, `AskPredictions` and `AskResults` read the configuration the same way and go
on to what they decide.  A writer saves, then invalidates prefix by prefix in its order
(`Invalidated`), `ScanPrefix` and `DeletePrefix` apart; `Owed` are the entries it still
deletes.  The scripts write the tables and the settings as processes of their own and delete
nothing: `run-seed.ts` save by save (`SaveGroups`, `SaveTeams`, `SaveMatches`, and for each
setting `FindSetting`, `SaveSetting`), `seed-mass-users.ts` by its commit (`MassSeed`).
`script` is how far a seed is; one that fails takes no further step.

`overtaken` (an entry that was not current any more when it was written, whose deletion
failed, or whose rows a script changed) and `outdated` (a decision whose ground has changed)
are histories: they name exactly the windows the code leaves open.  In those a wrong answer
stays until its `PX` is over or another deletion meets it; teams and groups, cached for a
day, are deleted by nobody at all.

`Ranking` gives `getRanking` and `listForAdmin` as functions of one table, for arguments
on both sides of every clamp, a page that is no number among them.

### Registration and seeds

`create` is an action per statement.  Statements outside the transaction need a free
connection for as long as they run; the transaction holds one from `Connect` to `release`,
and `FindMatches` needs a second one: with every connection held by registrations at that
point nobody goes on until `WaitEnds`, the pool's timeout of five seconds.  `connect()` and
`startTransaction()` are awaited before the `try`: when START TRANSACTION is refused
(`StartFails`) no `finally` releases the connection, and it is `leaked` until the process
ends.  (One that breaks is taken out of the pool by the driver, and not modelled.)
`InsertUser` waits for an open transaction with the same email or nickname, as
PostgreSQL does.  A slot of `Registrations` is the account it makes.  What `create` promises
is `Directory`: an account is entered at once, whole, under a free email and nickname, and
nobody is told "created" without one or refused with one to come.  `Accounts` maps the
tables to it, a row in any of them being an entry, so that a row written apart from the
others, changed, or taken back would show.

`seedIfEmpty` is an action per `save`; each may be the last (`SeedDies`).  Groups, teams
and configuration have keys, matches do not: one run's 104 matches stand together and are
named by the run.  `overlapped` is a history: two runs were at work at once.
`seed-mass-users.ts` is followed step by step for one test user, a match's points being
"has points" or not, beside `Play`, `JobFinds` and `JobScores`; `pending` are the matches
whose job was still to read the rows when they were committed.  Each statement of the
script sees what is committed when it runs (READ COMMITTED), which is why `played` is read
anew in every step.

`Fixtures` is the tournament the seed writes: who plays whom in the groups and when, and
the instants of the knockout matches and of the podium's deadline.

## Runs

Players, requests, teams, sockets and clients are alike; where an instance has more than
one and no liveness is checked they are symmetric.  `CHECK_DEADLOCK FALSE` everywhere: once
every match is played and every job has ended, every bounded request made or every call
answered, the instance rightly has nothing to do.

| Run | Instance | Shows |
|---|---|---|
| `scoring` | `MCScoring`: 0..5 goals and missing predictions; 3 users, totals 0..2, pages of 1 and 2, page and limit from -1 to 3 or no number; the seed | `FollowsTable`, `SqlAgrees`, `PagesPartition`, `PositionIsRank`, `SeedIsPlayable` |
| `one_admin` | `MCPipeline`: 1 match, 1 player, 2 concurrent predictions, 1 admin, 2 faults (crash, job, enqueue) | `RedeliveryIsBounded`, `ResultIsFinal` |
| `two_matches` | `MCPipeline`: 2 matches, 1 player, 1 admin, 1 fault of any kind, `FairSpec` | `OneJobPerMatch`, `ScoreIsSumOfPoints`, `PointsFollowRules`, `NothingForgotten`, `RegisteredIsScored`, `JobsEnd`, `KeepsScoreboard` |
| `admins` | `MCPipeline`: a group and a knockout match, 1 admin registering, 1 assigning, no players | `ResultAllOrNothing`, `TeamsDifferUntilPlayed`, `GroupMatchStands` |
| `accounts` | `MCAccounts`: 2 admins' accounts, 2 requests at a time and 3 in all, 3 nicknames, 2 chosen and 1 temporary password, 2 image types, 1 point, 1 fault (mail, query, file operation, crash) | `PasswordIsKnown`, `CreditsStand`, `PasswordColumnsAgree`, `AnAdminStaysAlone`, `AvatarExists` |
| `sessions` | `MCSessions`: 1 user, 1 socket, 1 `setActive` at a time, 2 changes of the row, 3 clients, 2 faults | `TypeOK`, `OneListener`, `ListenersAreFew`, `DeactivatedAreCut`, `DeactivatedAreTold`, `KicksAreJust`, `ListensAgain` |
| `caches` | `MCReadModels`: 1 player, who has no podium at first, 2 requests at a time and 3 in all, a deadline and a kick-off at time 1, an empty or a seeded database, one run of the seed, runs of the mass seed (each run counts as a request), 1 fault | `TypeOK`, `CacheAgrees`, `GoalsHidden`, `PodiumClosed` |
| `setup` | `MCSetup`: 2 registrations with 2 emails and 2 nicknames, a pool of 2, 2 runs of the seed and the mass seed, 3 of them in all, 1 fault | `TypeOK`, `AccountsAreUnique`, `ConnectionsReturn`, `SeededOnce`, `MassScoreIsSum`, `KeepsDirectory`, `RegistrationsEnd` |
| `double_registration` | `MCPipeline`: 2 admins | **violated** `ScoreWithinRules` |
| `late_prediction` | `MCPipeline`: no faults | **violated** `PlayedPredictionsFrozen` |
| `erased_result` | `MCPipeline`: 1 registering, 1 assigning | **violated** `ResultIsFinal` |
| `last_admin` | `MCAccounts`: 2 admins deactivate each other | **violated** `AnAdminStays` |

The violated ones are disagreements between the code and its own documentation; each
finding in `PROJECT.json` quotes the line.  Read together with the passing runs they say
where the promises hold: no two requests of admins racing for a match, no crash
during a job, and predictions that do not overtake a registration; for the accounts,
deactivations one at a time.  The histories of the other runs say the same of their parts:
no fill overtaken by a writer, no script beside the application, no decision outrun by the
deadline, no upload that ends before its save, no shutdown while connecting, no seeds at the
same time, no result pending while test users are made.

**Bounds.**  `Goals` is 0..1 (0 alone where two matches meet and the goals do not matter):
two goals tell every kind of prediction apart but a right outcome with one right goal,
which `scoring` covers.  `MaxJobs`: one per registration the instance allows.
`MaxFaults`: two crashes are what it takes to have a job redelivered and then given up,
and the two may be of different kinds.  Two requests are enough for a race of a check
with a save; what any number of registering admins can do to a group match is proved
(`PipelineProofs`), not enumerated.  In `accounts`, two requests overlap and a third
finds what they left; one temporary password serves every reset, since a reset draws one
the owner never had; an account's first nickname is its own name, so two accounts and a
free nickname give a rename that works, one that is refused and two that collide; a point
credited or not is all that a stale copy can get wrong.

In `scoring`, `PageMax` 2 stands for the 100 of the code and `DefaultLimit` 1 for its 20:
three users make a full page, a last page that is not full and an empty one.  In
`sessions` three clients are one that listens, one whose end is awaited and one that comes
after, which is what a late end event takes; two faults break the connection and then
something else; one user is enough, since sockets, notifications and requests of two never
touch.  In `caches`, a reader and a writer overlap and a third request finds what they
left, or a script writes beside two requests; time 1 is the deadline and the kick-off, so everything is decided just before and
just at them.  In `setup` a pool of two with two registrations is the smallest that can
be exhausted from within; two seeds and one registration, or one of each and the mass
seed, are the three runs that meet.

**Fairness.**  A handler that has begun goes on (Node resolves its promises), the worker
takes jobs and BullMQ checks for stalled ones: weak fairness on each.  Nobody has to
predict, register or assign, and no fault has to happen.  For the listener: a server that
accepted a connection answers LISTEN, a connection that broke is closed, a timer fires.
For the caches nothing is assumed: no entry has to end.  For registrations: PostgreSQL and
Redis answer or refuse, a free connection is given out, and a wait for one times out.
Redis out of reach is not a refusal: the client is made with `maxRetriesPerRequest: null`
and commands wait, so while it lasts `create` keeps its connection and nothing ends.

## Proofs

Checked by TLAPS for every value of the constants.

- `ScoringProofs`: `PointsFollowTable` (the function is the table), `SevenIsExact`,
  `SqlIsCalculatePoints` (the SQL copy is the function) and, for the calls of `MCScoring`
  with any number of goals, `AnswersFollowTable`, `AnswersAreMirrored`,
  `AnswersAgreeWithSql`.  For any finite set of users, any totals and any paging,
  `ListsPartition` and `PositionsAreRanks`: the number of users ahead of each, plus one,
  is a bijection between the users and the places (`RowsExist`), so the rows of a query
  exist and put each user at the place those ahead leave him (`RowsInOrder`); the rest is
  division (`PagesOfRows`) and that those with a higher total are the first of the rows
  (`HigherComeFirst`).  `SeedPlayable` is about the one table of `Fixtures`, and derives it
  from what its definitions are made of, phase by phase and pair by pair: which instants
  each phase lies between (`PhaseFrom`, `PhaseUntil`), that a group's two teams of each
  pair meet in one of its six matches and that no others are of the group
  (`MatchesOfGroup`, `SixMatches`), and that the last two of a group start together.
- `PipelineProofs`: `TypeCorrect`.  The type of a handler's state is `Idle` or a record
  of a request at work, which makes `TypeOK` inductive: a request at work always has a
  match.  `GroupMatchesStand` and `GroupResultsWhole`, for any number of
  admins.  A registration writes whatever subset of the columns differs from the row it
  selected; `GroupMatchInv` (`GroupMatchInductive`) adds that entity and selected row are
  whole, that the selected row is not ahead of the match, and that assignments only ever
  hold knockout matches.  `SavedResult` is the step about `save()`.  With knockout
  matches, `TeamsKeptApart` where `OneOfEach` holds throughout (a match has one
  registration and one assignment at work at most, which overlap as they like):
  `OneOfEachInv` (`OneOfEachInductive`) says what the copies of both still have in common
  with the row, so that a save writes back teams that differ.  `ResultsWhole` needs
  `RegistrationsApart` only, no two registrations of a match between their check and their
  save, and any number of assignments beside them: `WholeInv` (`WholeInductive`) says that
  the row a registration selects has no result yet, so that it writes all of its columns.
  Both hypotheses are needed: TLC violates `TeamsDifferUntilPlayed` and `ResultAllOrNothing`
  with two registrations beside an assignment.
  `NoneForgotten` is the safety half of `RegisteredIsScored`, for any races: `KeptInv` adds
  that an active job has its worker and only it, that a completed one has written its
  points, and that no assignment brings a result of its own, so that every result came
  with a registration that still has, or has added, a job.
- `ResultsProofs`: `OneJob`, `PointsAreRight` and `ResultStands`, of `ApartSpec`, with any
  number of registrations and assignments of matches of both phases, players, predictions,
  workers, crashes and redeliveries.  `ApartSpec` is `Spec` where `RequestsApart` holds
  throughout: while a registration is between its check of `has_played` and the save that
  sets it, no other registration and no assignment is at work on that match.  Nothing in the
  code sees to it, and neither half can be spared: `double_registration` is two registrations that
  break the one, `erased_result` a registration and an assignment that break the other.
  Two assignments of one match may overlap, and so may all requests of different matches.
  One admin who registers one result after the other, in the group phase or while nobody
  assigns teams, never races (`OneAdminStaysApart`), which is the case `one_admin` and
  `two_matches` run.  `ResultsInv`
  (`ResultsInductive`) says that a registration at work is the only and the first of its
  match, that an assignment at work is of a match without result and holds none, that a
  job carries the result its match shows, that no two workers hold a job, and that what a
  worker is about to write is right for every prediction not saved late.  `AssignerKeeps`
  is the step about assignments: their save touches neither results nor a match that is
  played or being registered.
- `RefinementProofs`: `PipelineIsScoreboard`, of `ApartSpec` as well: every step of the
  pipeline is a step of `Scoreboard` or leaves it alone.  It rests on the invariants of
  `ResultsProofs` and on `PaidInv` (a job not yet added has scored nothing, a worker pays
  for rows that are there); a commit is `Score` of the abstract board, a save in time is a
  `Guess`, a late one and a second commit are `Drop`.  From the same invariants and
  `StandingInv` (predictions of a match no job has scored hold no points, saves carry none,
  and the jobs' payments bound every score) come
  `ScoresAreSums`, `ScoresWithinRules` and `RedeliveryBounded`.  `OneAdminIsSafe` gathers
  what holds of every behaviour with one admin, without a premise about races.  The sums over matches are
  folds; `PipelineProofs` derives what is needed of them ("Sums over finite sets") from
  the functions the fold is defined by.
- `AccountProofs`: `PasswordsKnown`, `CreditsAreKept`, `PasswordColumnsCoherent`,
  `AnAdminRemains` and `AvatarsExist`, for any number of accounts and overlapping requests,
  crashes and failing mails; `AccountsInductive` is their conjunction.  `PasswordsInv` adds
  that whatever a
  request holds its owner knows: a save writes columns of the entity or leaves those of the
  row, so mixing two of them cannot make a password nobody has.  `CreditsInv` says what a
  held copy has to do with the score until the account is exposed.  `AloneInv` says that
  on an account never raced one request is at work and the row it selected is still the
  row, but for points; `AdminsInv` that a deactivation which passed the count leaves
  another admin, and `AvatarInv` that a row names a missing file only while an upload that will name
  another is at work, or while the account is `torn`; both rest on `AloneInv`.  `RequestSteps` and `OthersStay` say what a step
  leaves alone, so that each invariant has one lemma about the request that moves and one
  about the others.
- `SessionProofs`: `ListensOnce` and `QuietWhenDestroyed`, for any number of clients,
  failures and restarts of the composed `Sessions`, as long as it is not `tangled`: no end
  event after its timer had fired, no shutdown while connecting.  `ListenersCostFailures`
  is about those cases too: the clients in use, plus one for a timer that runs, are at
  most one more than the failures there were (`FewInUse`).  The first two are not inductive:
  `ListenerInv` (`ListenerInductive`) adds that at most one client is connecting, listening
  or being ended, that the timer runs only when there is none, and that a stopped listener
  has no timer.  On it rest `SessionTypes`, `DeactivatedGetCut`, `DeactivatedGetTold` and
  `KicksHaveReasons`, for any number of users, sockets and notifications
  (`SessionsInductive`): a socket of a deactivated user is always explained, by a request
  that has yet to emit, a notification on its way to a client that listens or in the
  handler, or an entry of `missed` and `untold`.
- `CacheProofs`: `CacheTypes`, `CachedAnswersAgree`, `GoalsStayHidden` and `PodiumsClose`,
  for any number of requests and players (`CacheInductive`).  `RowsInv` says which request
  may be where in its handler, and that a decision which is not `outdated` is right now;
  `RemovalsInv` that an entry which is neither current nor `overtaken` is among the
  deletions some writer has yet to make: keys it has scanned, or prefixes still to come.
- `SetupProofs`: `RegistrationIsDirectory`: every step of `create`, of the seeds beside it, of
  a failure or a crash is a step of `Directory` or leaves it alone.  The commit is `Enter`,
  which is allowed because `Distinct` kept the email and the nickname free since the
  INSERT, and `Asked` says that the matches read are still there; an answer is `Tell`.
  `SetupTypes`, `AccountsUnique`, `AccountsWhole`, `AnswersTrue` and
  `PoolWhole`, the last four and the refinement from one
  invariant, `AccountInv`: who is in `users` has committed, rows of open transactions clash
  with nobody committed or open, and the free connections are those nobody holds or has leaked (a
  cardinality that each step changes by at most one registration).  `MatchesSeededOnce`
  from `SeedInv`: without overlap one run is at work, and until the groups are saved the
  matches are empty.  `MassScoresSum` from `MassInv`: what the script has in hand lies in
  the matches it found that were played when it looked, and a job that read rows after the
  commit has not scored yet.

The type invariants of the pipeline and of the accounts, the strengthenings that are named
above, `SidesAreAlike`, `ScoreWithinRules`, `DestroyedIsQuiet`, `AccountsAreWhole` and
`AnswersAreTrue` are proved and in no passing run: the runs are kept for what several
steps, often of several actors, could break.  (`ScoreWithinRules` is what
`double_registration` violates, with two admins; the last two are what `KeepsDirectory`
promises, said of the tables.)

Constants are assumed to be what `StoreAssumption`, `NullAssumption`,
`AccountsAssumption`, `ListenerAssumption`, `SessionsAssumption`,
`CacheAssumption`, `ReadModelsAssumption`, `RegistrationAssumption`, `SeedingAssumption`,
`RankingAssumption` and `BoundsAssumption` say: that bounds are numbers, that the absent
value is none of the others, and that there are finitely many matches, users, accounts,
registrations, clients and runs of the seed.

Only model-checked: liveness (`RegisteredIsScored`, `JobsEnd`,
`ListensAgain`, `RegistrationsEnd`), which this prover cannot reason about.
`InOrder` chooses the rows of a query among the
functions from places to users, rather than by a sorting fold, so that the paging can be
reasoned about.

## Known limits of the code the models make visible

Beside the four findings: a job delivered again after a crash adds its points again (at most
once, `RedeliveryIsBounded`); two admins who assign one side each can save a match of a team
against itself (`TeamsDifferUntilPlayed` is about one); two registrations and an assignment
of one knockout match that race can leave it with one goal of a result: the second
registration, which selected the first one's row, writes only the goals that differ on a row
the assignment has cleared (`ResultAllOrNothing` is about one); a fill can outlive the
invalidation it raced, and every answer cached before a seed outlives that seed, both for as
long as their `PX` at most; an upload to another's account is refused when its files are
written, and one that fails after that undoes nothing: `profile_image` may name a missing
file until the owner's next upload; two resets and a new password that overlap can leave a
temporary password without its flag, whose deadline login does not look at
(`PasswordColumnsAgree` is about requests that do not overlap); a refused START TRANSACTION
costs the pool a connection; late end events leave clients listening beside `this.client`,
which announce every change again; an interrupted seed is not completed by the next run, and
two runs at once insert the matches twice; an account whose `create` failed after the commit
exists although the answer was an error. Each is named by a history variable or a premise in
the property that would exclude it.

## Not modelled

- **Mail** beyond "resolves or throws", the bytes of images and the serving of files, the
  transport of Socket.IO and its Redis adapter: I/O.
- **Broadcast events** (`match.result`, `score.updated`, ...): they are sent and read by
  nobody on the server.
- **Migrations** as a process; `match_number`, which the last of them adds and numbers by
  date, is read by no service.  A database seeded after it leaves the column empty.
- **SQL test data** and `run-test-data.ts`: literal rows for development.
- **Bootstrap, guards, filters, validation, health**: wiring without state.
- `getForAdmin` and `getUserPredictions`: one query each.
- The README's **podium points** (30, 20, 10) have no code that awards them.

## Plan

Done: the pipeline and its refinement, accounts, sessions and listener, caches and read
models, registration with its refinement and the seeds, ranking and fixtures, and a theorem
for every safety property of the passing runs.  What would come next is the
**composition** of accounts and sessions: a forced logout after a password change.
