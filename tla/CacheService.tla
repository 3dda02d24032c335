---------------------------- MODULE CacheService ----------------------------
(***************************************************************************)
(* common/cache/cache.service.ts over Redis, and the PostgreSQL data that  *)
(* the cached answers are made of.  A table is its version, the number of  *)
(* changes it has seen; a configuration row is its value.  A cached answer *)
(* is the set of what its queries read.                                    *)
(***************************************************************************)
EXTENDS Integers, Sequences, FiniteSets

CONSTANTS
    NULL,
    Players,
    MaxTime,       \* bound: the clock
    MaxFaults      \* bound: failures in one behaviour

ASSUME CacheAssumption ==
    /\ NULL \notin Nat
    /\ MaxTime \in Nat
    /\ MaxFaults \in Nat

VARIABLES
    config,     \* app_config.value, by key
    version,    \* changes so far, by table
    cache,      \* Redis: the entries, by key; each may be gone at any time
    faults      \* failures so far

cacheVars == <<config, version, cache, faults>>

-----------------------------------------------------------------------------
(* What is cached, and where it comes from *)

Tables == {"users", "matches", "teams"}

ConfigKeys == {"podium_deadline", "reveal_predictions"}

\* A deadline is a time; NULL stands for a missing row, an empty value and a text
\* that is no date.  Of a flag all that matters is whether it is 'true', here 1.
ConfigValues(key) == IF key = "podium_deadline" THEN (1..MaxTime) \cup {NULL} ELSE {0, 1}

\* config:<key>, ranking:<page>:<limit>:<user>, matches:<phase>, and one key for
\* teams:<group> and groups:all, which are filled alike and never deleted.
Keys == [prefix : {"config"}, of : ConfigKeys]
        \cup [prefix : {"ranking"}, of : Players]
        \cup [prefix : {"matches", "teams"}, of : {"all"}]

Table(key) == CASE key.prefix = "ranking" -> "users"
                [] key.prefix = "matches" -> "matches"
                [] OTHER -> "teams"

\* What a query for this key reads now.
Source(key) == IF key.prefix = "config" THEN config[key.of] ELSE version[Table(key)]

\* How many queries make an answer: getRanking counts, reads the page, the own
\* row and the rows above it.
Queries(key) == IF key.prefix = "ranking" THEN 4 ELSE 1

Current(key, answer) == answer = {Source(key)}

-----------------------------------------------------------------------------
(* get, set, del, delByPrefix *)

Miss == [hit |-> FALSE]

\* overtaken: history, the answer was not current any more when it was written, a
\* deletion that should have removed it failed, or its rows were changed by a script,
\* which deletes nothing.
Entry(answer, overtaken) == [hit |-> TRUE, answer |-> answer, overtaken |-> overtaken]

Set(key, answer) == cache' = [cache EXCEPT ![key] = Entry(answer, ~Current(key, answer))]

Delete(keys) == cache' = [k \in Keys |-> IF k \in keys THEN Miss ELSE cache[k]]

\* The keys a SCAN over a prefix returns: an entry that is there throughout is
\* seen, one that comes while it runs is or is not.
Scan(prefix) == {k \in Keys : k.prefix = prefix /\ cache[k].hit}

\* Nobody will delete these: what is cached of them stays until it expires.
Abandon(keys) ==
    cache' = [k \in Keys |-> IF cache[k].hit /\ k \in keys
                             THEN [cache[k] EXCEPT !.overtaken = TRUE] ELSE cache[k]]

\* PX: the time of an entry is over, or Redis evicts it; the listener's
\* delByPrefix('ranking:') removes entries at any time as well.
Expire(key) ==
    /\ cache[key].hit
    /\ Delete({key})
    /\ UNCHANGED <<config, version, faults>>

Fault == faults < MaxFaults /\ faults' = faults + 1

-----------------------------------------------------------------------------
\* An empty database, or one that the seed has filled.
CacheInit ==
    /\ config \in {c \in [ConfigKeys -> (0..MaxTime) \cup {0, 1, NULL}] :
                     \A key \in ConfigKeys : c[key] \in ConfigValues(key)}
    /\ version \in {[t \in Tables |-> 0], [t \in Tables |-> IF t = "users" THEN 0 ELSE 1]}
    /\ cache = [k \in Keys |-> Miss]
    /\ faults = 0

CacheTypeOK ==
    /\ config \in [ConfigKeys -> Nat \cup {NULL}]
    /\ version \in [Tables -> Nat]
    /\ DOMAIN cache = Keys
    /\ \A k \in Keys : \/ cache[k] = Miss
                       \/ /\ cache[k] = Entry(cache[k].answer, cache[k].overtaken)
                          /\ cache[k].answer \subseteq Nat \cup {NULL}
                          /\ cache[k].overtaken \in BOOLEAN
    /\ faults \in 0..MaxFaults
=============================================================================
