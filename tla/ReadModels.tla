----------------------------- MODULE ReadModels -----------------------------
(***************************************************************************)
(* The requests that read through the caches (the ranking, the lists of    *)
(* matches, teams and groups, the configuration), the ones that decide on  *)
(* what they read there (the podium of updateUser, other players'          *)
(* predictions), the ones that change the data and then invalidate, and    *)
(* the scripts that change the data beside the application and invalidate  *)
(* nothing.                                                                *)
(***************************************************************************)
EXTENDS CacheService

CONSTANTS
    Choices,        \* what a podium may hold: its three columns are written together
    MatchDate,      \* of the match whose predictions are asked for
    Requests,       \* concurrent requests
    MaxRequests     \* bound: requests ever made, and runs of the scripts

ASSUME ReadModelsAssumption ==
    /\ NULL \notin Choices
    /\ NULL \notin Keys
    /\ MatchDate \in Nat
    /\ MaxRequests \in Nat

VARIABLES
    now,        \* the clock
    podium,     \* user_podiums, by player; "missing" where there is no row
    req,        \* the requests
    requests,   \* requests so far, and runs of the scripts
    script      \* run-seed.ts: what it did last

vars == <<cacheVars, now, podium, req, requests, script>>

Readers == {"ranking", "matches", "teams"}
Deciders == {"podium", "predictions", "results"}
Writers == {"account", "teams of a match", "result", "config"}

\* outdated: history, what a decision rested on has changed, or was old when read.
Idle ==
    [kind |-> "none", pc |-> "idle", key |-> NULL, answer |-> {}, left |-> 0, player |-> NULL,
     choice |-> NULL, outdated |-> FALSE, at |-> 0, keys |-> {}]

Become(q, r) == req' = [req EXCEPT ![q] = r]

Leave(q) == Become(q, Idle)

OneMore == requests < MaxRequests /\ requests' = requests + 1

\* Requests are alike, so any idle one will do.
Arrives(q) ==
    /\ req[q].pc = "idle"
    /\ q = CHOOSE r \in Requests : req[r].pc = "idle"
    /\ OneMore

Begin(q, r) == Arrives(q) /\ Become(q, r)

Key(prefix, of) == [prefix |-> prefix, of |-> of]

-----------------------------------------------------------------------------
(* Requests that read through a cache *)

AskList(q) ==
    /\ \E key \in Keys :
           /\ key.prefix \in Readers
           /\ Begin(q, [Idle EXCEPT !.kind = key.prefix, !.pc = "asked", !.key = key,
                                    !.left = Queries(key)])
    /\ UNCHANGED <<cacheVars, now, podium>>

\* updateUser with a podium: appConfigService.getPodiumDeadline().
AskPodium(q) ==
    /\ \E u \in Players, c \in Choices :
           Begin(q, [Idle EXCEPT !.kind = "podium", !.pc = "asked", !.left = 1, !.player = u,
                                 !.key = Key("config", "podium_deadline"), !.choice = c])
    /\ UNCHANGED <<cacheVars, now, podium>>

AskReveal(q, kind) ==
    /\ Begin(q, [Idle EXCEPT !.kind = kind, !.pc = "asked", !.left = 1,
                             !.key = Key("config", "reveal_predictions")])
    /\ UNCHANGED <<cacheVars, now, podium>>

\* getMatchPredictions: appConfigService.getRevealPredictions().
AskPredictions(q) == AskReveal(q, "predictions")

\* getUserMatchResults of another player: the same.
AskResults(q) == AskReveal(q, "results")

\* new Date() >= match.match_date
Started == now >= MatchDate

\* MUTANT of InTime: the deadline itself is still in time.
InTimeAtDeadline(deadline) == deadline = NULL \/ now <= deadline

\* if (deadlineStr) ... new Date() >= deadline
InTime(deadline) == deadline = NULL \/ now < deadline

\* MUTANT of Visible: the flag is read the other way round.
VisibleIfFlagged(reveal) == reveal = 1 \/ Started

\* revealPredictions && !matchStarted hides the goals.
Visible(reveal) == reveal # 1 \/ Started

\* The answer is there: a list is returned, a decision is taken.
Answered(q, answer) ==
    LET key == req[q].key
        goesOn == CASE req[q].kind = "podium" -> \A d \in answer : InTime(d)
                    [] req[q].kind = "predictions" -> \A r \in answer : Visible(r)
                    [] OTHER -> FALSE
        current == [req[q] EXCEPT !.outdated = ~Current(key, answer)]
    IN IF req[q].kind = "results"
       THEN Become(q, [current EXCEPT !.pc = "loading", !.answer = answer])
       ELSE IF goesOn THEN Become(q, [current EXCEPT !.pc = "decided"]) ELSE Leave(q)

Hit(q) ==
    /\ req[q].pc = "asked"
    /\ cache[req[q].key].hit
    /\ Answered(q, cache[req[q].key].answer)
    /\ UNCHANGED <<cacheVars, now, podium, requests>>

Missed(q) ==
    /\ req[q].pc = "asked"
    /\ ~cache[req[q].key].hit
    /\ Become(q, [req[q] EXCEPT !.pc = "querying"])
    /\ UNCHANGED <<cacheVars, now, podium, requests>>

Query(q) ==
    /\ req[q].pc = "querying" /\ req[q].left > 0
    /\ Become(q, [req[q] EXCEPT !.answer = @ \cup {Source(req[q].key)}, !.left = @ - 1])
    /\ UNCHANGED <<cacheVars, now, podium, requests>>

Fill(q) ==
    /\ req[q].pc = "querying" /\ req[q].left = 0
    /\ Set(req[q].key, req[q].answer)
    /\ Answered(q, req[q].answer)
    /\ UNCHANGED <<config, version, faults, now, podium, requests>>

\* Redis fails: get or set rejects, and so does the request.
ReadFails(q) ==
    /\ req[q].pc \in {"asked", "querying"}
    /\ Fault
    /\ Leave(q)
    /\ UNCHANGED <<config, version, cache, now, podium, requests>>

-----------------------------------------------------------------------------
(* What the decisions lead to *)

\* The results of a player are read first, the flag is looked at afterwards.
LoadResults(q) ==
    /\ req[q].pc = "loading"
    /\ IF \A r \in req[q].answer : Visible(r)
       THEN Become(q, [req[q] EXCEPT !.pc = "decided"])
       ELSE Leave(q)
    /\ UNCHANGED <<cacheVars, now, podium, requests>>

\* Users and predictions are read and returned, or the results are.
ShowPredictions(q) ==
    /\ req[q].kind \in {"predictions", "results"} /\ req[q].pc = "decided"
    /\ Leave(q)
    /\ UNCHANGED <<cacheVars, now, podium, requests>>

\* findOne: the row, or a new entity.
FindPodium(q) ==
    /\ req[q].kind = "podium" /\ req[q].pc = "decided"
    /\ Become(q, [req[q] EXCEPT !.pc = IF podium[req[q].player] = "missing" THEN "new" ELSE "found"])
    /\ UNCHANGED <<cacheVars, now, podium, requests>>

\* MUTANT of SavePodium: the wrong column is written.
SavePodiumOfPlayer(q) ==
    /\ \/ req[q].pc = "found"
       \/ req[q].pc = "new" /\ podium[req[q].player] = "missing"
    /\ podium' = [podium EXCEPT ![req[q].player] = req[q].player]
    /\ Leave(q)
    /\ UNCHANGED <<cacheVars, now, requests>>

SavePodium(q) ==
    /\ \/ req[q].pc = "found"
       \/ req[q].pc = "new" /\ podium[req[q].player] = "missing"
    /\ podium' = [podium EXCEPT ![req[q].player] = req[q].choice]
    /\ Leave(q)
    /\ UNCHANGED <<cacheVars, now, requests>>

\* user_id is unique: another request inserted the row meanwhile.
PodiumConflicts(q) ==
    /\ req[q].pc = "new" /\ podium[req[q].player] # "missing"
    /\ Leave(q)
    /\ UNCHANGED <<cacheVars, now, podium, requests>>

-----------------------------------------------------------------------------
(* Requests that change the data, and invalidate afterwards *)

\* create, updateUser's nickname, updateProfileImage, setActive change users;
\* assignTeams changes matches; updateResult changes matches and its job users.
Written(kind) == IF kind = "account" THEN "users" ELSE "matches"

\* The prefixes each of them deletes, in their order (nothing is cached under
\* matchPredictions).
Invalidated(kind) ==
    CASE kind = "account" -> <<"ranking">>
      [] kind = "teams of a match" -> <<"matches">>
      [] kind = "result" -> <<"ranking", "matches", "matchPredictions">>
      [] OTHER -> <<>>

\* The entries a writer is still to delete: of the prefix it has scanned, those it
\* found; of the prefixes to come, all.
Owed(r) ==
    IF r.kind = "config" THEN {r.key}
    ELSE {k \in Keys : \E i \in r.at..Len(Invalidated(r.kind)) :
              /\ Invalidated(r.kind)[i] = k.prefix
              /\ r.pc = "scanned" /\ i = r.at => k \in r.keys}

Change(table) == version' = [version EXCEPT ![table] = @ + 1]

\* The row is committed: after it the invalidations follow, after a result its job.
\* Without matches there is none to assign teams or a result to.
Save(q) ==
    /\ \E kind \in Writers \ {"config"} :
           /\ Written(kind) = "matches" => version["matches"] > 0
           /\ Change(Written(kind))
           /\ Begin(q, [Idle EXCEPT !.kind = kind, !.at = 1,
                                    !.pc = IF kind = "result" THEN "queued" ELSE "saved"])
    /\ UNCHANGED <<config, cache, faults, now, podium>>

\* The scoring job of a result commits the scores.
ScoreJob(q) ==
    /\ req[q].pc = "queued"
    /\ Change("users")
    /\ Become(q, [req[q] EXCEPT !.pc = "saved"])
    /\ UNCHANGED <<config, cache, faults, now, podium, requests>>

ScanPrefix(q) ==
    /\ req[q].pc = "saved" /\ req[q].at <= Len(Invalidated(req[q].kind))
    /\ Become(q, [req[q] EXCEPT !.pc = "scanned",
                                !.keys = Scan(Invalidated(req[q].kind)[req[q].at])])
    /\ UNCHANGED <<cacheVars, now, podium, requests>>

DeletePrefix(q) ==
    /\ req[q].pc = "scanned"
    /\ Delete(req[q].keys)
    /\ Become(q, [req[q] EXCEPT !.pc = "saved", !.keys = {}, !.at = @ + 1])
    /\ UNCHANGED <<config, version, faults, now, podium, requests>>

\* A decision taken on the old value of this setting is outdated.
Outdated(r, key, value) ==
    IF req[r].key = Key("config", key) /\ value # config[key]
    THEN [req[r] EXCEPT !.outdated = TRUE] ELSE req[r]

\* appConfigService.set
SaveConfig(q) ==
    /\ Arrives(q)
    /\ \E key \in ConfigKeys : \E value \in ConfigValues(key) :
           /\ config' = [config EXCEPT ![key] = value]
           /\ req' = [r \in Requests |->
                  IF r = q
                  THEN [Idle EXCEPT !.kind = "config", !.pc = "saved", !.at = 1,
                                      !.key = Key("config", key)]
                  ELSE Outdated(r, key, value)]
    /\ UNCHANGED <<version, cache, faults, now, podium>>

\* MUTANT of DeleteConfig: the cache is not touched.
DeleteConfigNever(q) ==
    /\ req[q].kind = "config" /\ req[q].pc = "saved"
    /\ Leave(q)
    /\ UNCHANGED <<cacheVars, now, podium, requests>>

DeleteConfig(q) ==
    /\ req[q].kind = "config" /\ req[q].pc = "saved"
    /\ Delete({req[q].key})
    /\ Leave(q)
    /\ UNCHANGED <<config, version, faults, now, podium, requests>>

WriteDone(q) ==
    /\ req[q].pc = "saved" /\ req[q].kind # "config"
    /\ req[q].at > Len(Invalidated(req[q].kind))
    /\ Leave(q)
    /\ UNCHANGED <<cacheVars, now, podium, requests>>

Writing(q) == req[q].pc \in {"queued", "saved", "scanned"}

\* Redis, the queue or the job's transaction fails: the rows stay changed, the
\* rest of the invalidations is not made.
WriteFails(q) ==
    /\ Writing(q)
    /\ Fault
    /\ Abandon(Owed(req[q]))
    /\ Leave(q)
    /\ UNCHANGED <<config, version, now, podium, requests>>

\* The process dies with all its requests; Redis keeps the cache.
Crash ==
    /\ Fault
    /\ Abandon(UNION {Owed(req[q]) : q \in {r \in Requests : Writing(r)}})
    /\ req' = [q \in Requests |-> Idle]
    /\ UNCHANGED <<config, version, now, podium, requests>>

-----------------------------------------------------------------------------
(* The scripts change the data beside the application: they delete no key.  One
   that fails or is killed takes no further step. *)

\* The answers that are cached of this table stay.
ChangeOnly(table) ==
    /\ Change(table)
    /\ Abandon({k \in Keys : k.prefix # "config" /\ Table(k) = table})

SeedStep(from, to) ==
    /\ script = from
    /\ script' = to
    /\ UNCHANGED <<now, podium>>

SaveRows(from, to, table) ==
    /\ SeedStep(from, to)
    /\ ChangeOnly(table)
    /\ UNCHANGED <<config, faults, req>>

\* seedIfEmpty: only when there are no groups, which the seed alone inserts (of two
\* runs that overlap, see Seeding).
SaveGroups == version["teams"] = 0 /\ OneMore /\ SaveRows("none", "groups", "teams")

SaveTeams == SaveRows("groups", "teams", "teams") /\ UNCHANGED requests

SaveMatches == SaveRows("teams", "matches", "matches") /\ UNCHANGED requests

\* configRepository.findOne: a setting that may be missing, or has a row.
FindSetting(key, from, missing, found) ==
    /\ \/ SeedStep(from, found)
       \/ config[key] \in {NULL, 0} /\ SeedStep(from, missing)
    /\ UNCHANGED <<cacheVars, req, requests>>

\* The seed's own values: a deadline, and 'false'.
Defaults(key) == IF key = "podium_deadline" THEN 1..MaxTime ELSE {0}

\* configRepository.save: the row may be there by now, and is written all the same.
SaveSetting(key, missing, saved) ==
    /\ SeedStep(missing, saved)
    /\ \E value \in Defaults(key) :
           /\ config' = [config EXCEPT ![key] = value]
           /\ req' = [r \in Requests |-> Outdated(r, key, value)]
           /\ Abandon(IF value = config[key] THEN {} ELSE {Key("config", key)})
    /\ UNCHANGED <<version, faults, requests>>

SeedSettings ==
    \/ FindSetting("podium_deadline", "matches", "no deadline", "deadline")
    \/ SaveSetting("podium_deadline", "no deadline", "deadline")
    \/ FindSetting("reveal_predictions", "deadline", "no flag", "over")
    \/ SaveSetting("reveal_predictions", "no flag", "over")

\* seed-mass-users.ts commits: test users come and go, with the points they have.
MassSeed ==
    /\ OneMore
    /\ ChangeOnly("users")
    /\ UNCHANGED <<config, faults, now, podium, req, script>>

ScriptNext ==
    \/ SaveGroups \/ SaveTeams \/ SaveMatches \/ SeedSettings \/ MassSeed

-----------------------------------------------------------------------------
\* Time passes: what was decided on the old time is outdated.
Tick ==
    /\ now < MaxTime
    /\ now' = now + 1
    /\ req' = [q \in Requests |-> IF req[q].kind = "podium"
                                  THEN [req[q] EXCEPT !.outdated = TRUE] ELSE req[q]]
    /\ UNCHANGED <<cacheVars, podium, requests>>

Init ==
    /\ CacheInit
    /\ now = 0
    /\ podium \in [Players -> {"missing", NULL}]
    /\ req = [q \in Requests |-> Idle]
    /\ requests = 0
    /\ script = "none"

RequestNext(q) ==
    \/ AskList(q) \/ AskPodium(q) \/ AskPredictions(q) \/ AskResults(q)
    \/ Hit(q) \/ Missed(q) \/ Query(q) \/ Fill(q) \/ ReadFails(q)
    \/ LoadResults(q) \/ ShowPredictions(q) \/ FindPodium(q) \/ SavePodium(q) \/ PodiumConflicts(q)
    \/ Save(q) \/ ScoreJob(q) \/ ScanPrefix(q) \/ DeletePrefix(q)
    \/ SaveConfig(q) \/ DeleteConfig(q) \/ WriteDone(q) \/ WriteFails(q)

ExpireSome(key) == Expire(key) /\ UNCHANGED <<now, podium, req, requests>>

\* The scripts are processes of their own, which outlive the application.
ServerNext ==
    \/ \E q \in Requests : RequestNext(q)
    \/ \E key \in Keys : ExpireSome(key)
    \/ Tick \/ Crash

Next == (ServerNext /\ UNCHANGED script) \/ ScriptNext

Spec == Init /\ [][Next]_vars

-----------------------------------------------------------------------------
RequestRow ==
    [kind : Readers \cup Deciders \cup Writers, key : Keys \cup {NULL},
     pc : {"asked", "querying", "loading", "decided", "new", "found", "queued", "saved", "scanned"},
     answer : SUBSET (Nat \cup {NULL}), left : 0..4,
     player : Players \cup {NULL}, choice : Choices \cup {NULL}, outdated : BOOLEAN,
     at : 0..4, keys : SUBSET Keys]

SeedStages ==
    {"none", "groups", "teams", "matches", "no deadline", "deadline", "no flag", "over"}

TypeOK ==
    /\ CacheTypeOK
    /\ now \in 0..MaxTime
    /\ podium \in [Players -> Choices \cup {NULL, "missing"}]
    /\ req \in [Requests -> RequestRow \cup {Idle}]
    /\ requests \in 0..MaxRequests
    /\ script \in SeedStages

\* A writer is between its commit and the deletion of this very entry.
BeingRemoved(key) == \E q \in Requests : Writing(q) /\ key \in Owed(req[q])

\* A cached answer that is not true was outdated when it was written, or a failure
\* kept its deletion from being made, or a script changed its rows; any other is
\* about to be deleted by the request that made it untrue.
CacheAgrees ==
    \A key \in Keys : cache[key].hit /\ ~cache[key].overtaken =>
        Current(key, cache[key].answer) \/ BeingRemoved(key)

\* "Predicciones de podio: No se pueden modificar despues de podium_deadline"
\* (src/README.md): a podium changes only before the deadline in force, but for
\* the request that the deadline overtook or that an old cache entry let pass.
PodiumClosed ==
    [][\A u \in Players : podium'[u] # podium[u] =>
           \/ config["podium_deadline"] = NULL
           \/ now < config["podium_deadline"]
           \/ \E q \in Requests : req[q].player = u /\ req[q].outdated]_vars

\* Nobody sees the others' goals before kick-off while reveal_predictions is
\* 'true', unless it was set, or an old cache entry was read, meanwhile.
GoalsHidden ==
    \A q \in Requests :
        req[q].kind \in {"predictions", "results"} /\ req[q].pc = "decided" /\ ~req[q].outdated =>
            Started \/ config["reveal_predictions"] # 1
=============================================================================
