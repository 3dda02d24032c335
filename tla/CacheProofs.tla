----------------------------- MODULE CacheProofs -----------------------------
(***************************************************************************)
(* The caches, for any number of players, requests and failures: what a    *)
(* cached answer may differ from, and what the decisions taken on one are  *)
(* worth.                                                                  *)
(***************************************************************************)
EXTENDS ReadModels, TLAPS

-----------------------------------------------------------------------------
(* Rows and prefixes *)

Rows == RequestRow \cup {Idle}

AtWork == {"queued", "saved", "scanned"}

LEMMA Lists ==
    /\ Len(Invalidated("account")) = 1 /\ Invalidated("account")[1] = "ranking"
    /\ Len(Invalidated("teams of a match")) = 1 /\ Invalidated("teams of a match")[1] = "matches"
    /\ Len(Invalidated("result")) = 3 /\ Invalidated("result")[1] = "ranking"
    /\ Invalidated("result")[2] = "matches" /\ Invalidated("result")[3] = "matchPredictions"
    /\ Len(Invalidated("config")) = 0
  BY DEF Invalidated

\* The same, by the writer and the prefix that it deletes.
LEMMA FirstPlaces ==
    /\ 1 \in 1..Len(Invalidated("account")) /\ 1 \in 1..Len(Invalidated("teams of a match"))
    /\ 1 \in 1..Len(Invalidated("result")) /\ 2 \in 1..Len(Invalidated("result"))
<1>1. 1 \in 1..1 /\ 1 \in 1..3 /\ 2 \in 1..3
  OBVIOUS
<1> QED BY <1>1, Lists

LEMMA Lengths ==
    /\ \A kind \in Writers : Len(Invalidated(kind)) \in 0..3
    /\ \A n \in Int : n >= 1 => ~(n <= Len(Invalidated("config"))) /\ n \notin 1..Len(Invalidated("config"))
<1>1. \A n : n = 0 \/ n = 1 \/ n = 3 => n \in 0..3
  OBVIOUS
<1>2. \A n \in Int : n >= 1 => ~(n <= 0) /\ n \notin 1..0
  OBVIOUS
<1>3. \A kind \in Writers :
          Len(Invalidated(kind)) = 0 \/ Len(Invalidated(kind)) = 1 \/ Len(Invalidated(kind)) = 3
  BY Lists DEF Writers
<1> QED BY <1>1, <1>2, <1>3, Lists

LEMMA IdleIsIdle ==
    /\ Idle.pc = "idle" /\ Idle.kind = "none" /\ Idle.key = NULL /\ Idle.keys = {}
    /\ Idle.answer = {} /\ Idle.left = 0 /\ Idle.player = NULL /\ Idle.choice = NULL
    /\ Idle.outdated = FALSE /\ Idle.at = 0
  BY DEF Idle

LEMMA RowOf ==
    ASSUME NEW r
    PROVE  r \in RequestRow <=>
             /\ r = [kind |-> r.kind, pc |-> r.pc, key |-> r.key, answer |-> r.answer, left |-> r.left,
                     player |-> r.player, choice |-> r.choice, outdated |-> r.outdated, at |-> r.at,
                     keys |-> r.keys]
             /\ r.kind \in Readers \cup Deciders \cup Writers
             /\ r.key \in Keys \cup {NULL}
             /\ r.pc \in {"asked", "querying", "loading", "decided", "new", "found", "queued",
                          "saved", "scanned"}
             /\ r.answer \in SUBSET (Nat \cup {NULL})
             /\ r.left \in 0..4
             /\ r.player \in Players \cup {NULL}
             /\ r.choice \in Choices \cup {NULL}
             /\ r.outdated \in BOOLEAN
             /\ r.at \in 0..4
             /\ r.keys \in SUBSET Keys
  BY DEF RequestRow

LEMMA WorkRow ==
    ASSUME NEW r \in Rows, r.pc # "idle"
    PROVE  r \in RequestRow
  BY DEF Rows, Idle

\* A row in the making: an idle one, or one whose request has arrived.
Blank ==
    [kind : Readers \cup Deciders \cup Writers \cup {"none"}, key : Keys \cup {NULL},
     pc : {"asked", "querying", "loading", "decided", "new", "found", "queued", "saved", "scanned",
           "idle"},
     answer : SUBSET (Nat \cup {NULL}), left : 0..4,
     player : Players \cup {NULL}, choice : Choices \cup {NULL}, outdated : BOOLEAN,
     at : 0..4, keys : SUBSET Keys]

LEMMA BlankRow ==
    /\ Idle \in Blank
    /\ \A r \in Blank : r.kind # "none" /\ r.pc # "idle" => r \in RequestRow
  BY DEF Idle, Blank, RequestRow

LEMMA KindsOfRequests == "none" \notin Readers \cup Deciders \cup Writers
  BY DEF Readers, Deciders, Writers

\* The rows the requests arrive with: a read of a list, of the podium's deadline or
\* of the other flag, a write of the rows of a table or of the configuration.
LEMMA ListRow ==
    ASSUME NEW kind \in Readers, NEW key \in Keys, NEW n \in 0..4
    PROVE  [Idle EXCEPT !.kind = kind, !.pc = "asked", !.key = key, !.left = n] \in RequestRow
<1>1. ASSUME NEW r \in Blank, NEW s, s = [r EXCEPT !.kind = kind, !.pc = "asked", !.key = key, !.left = n]
      PROVE  s \in Blank /\ s.kind = kind /\ s.pc = "asked"
  BY <1>1 DEF Blank
<1> QED BY <1>1, BlankRow, KindsOfRequests

LEMMA FlagRow ==
    ASSUME NEW kind \in Deciders, NEW key \in Keys
    PROVE  [Idle EXCEPT !.kind = kind, !.pc = "asked", !.left = 1, !.key = key] \in RequestRow
<1>0. PICK n \in 0..4 : n = 1
  OBVIOUS
<1>1. ASSUME NEW r \in Blank, NEW s, s = [r EXCEPT !.kind = kind, !.pc = "asked", !.left = n, !.key = key]
      PROVE  s \in Blank /\ s.kind = kind /\ s.pc = "asked"
  BY <1>1 DEF Blank
<1> QED BY <1>0, <1>1, BlankRow, KindsOfRequests

LEMMA PodiumRow ==
    ASSUME NEW kind \in Deciders, NEW key \in Keys, NEW u \in Players, NEW c \in Choices
    PROVE  [Idle EXCEPT !.kind = kind, !.pc = "asked", !.left = 1, !.player = u, !.key = key,
                        !.choice = c] \in RequestRow
<1>0. PICK n \in 0..4 : n = 1
  OBVIOUS
<1>1. ASSUME NEW r \in Blank, NEW s,
             s = [r EXCEPT !.kind = kind, !.pc = "asked", !.left = n, !.player = u, !.key = key,
                           !.choice = c]
      PROVE  s \in Blank /\ s.kind = kind /\ s.pc = "asked"
  BY <1>1 DEF Blank
<1> QED BY <1>0, <1>1, BlankRow, KindsOfRequests

LEMMA SavedRow ==
    ASSUME NEW kind \in Writers, NEW pc \in {"saved", "queued"}
    PROVE  [Idle EXCEPT !.kind = kind, !.at = 1, !.pc = pc] \in RequestRow
<1>0. PICK n \in 0..4 : n = 1
  OBVIOUS
<1>1. ASSUME NEW r \in Blank, NEW s, s = [r EXCEPT !.kind = kind, !.at = n, !.pc = pc]
      PROVE  s \in Blank /\ s.kind = kind /\ s.pc = pc
  BY <1>1 DEF Blank
<1> QED BY <1>0, <1>1, BlankRow, KindsOfRequests

LEMMA ConfigRow ==
    ASSUME NEW key \in Keys
    PROVE  [Idle EXCEPT !.kind = "config", !.pc = "saved", !.at = 1, !.key = key] \in RequestRow
<1>0. PICK n \in 0..4 : n = 1
  OBVIOUS
<1>1. ASSUME NEW r \in Blank, NEW s,
             s = [r EXCEPT !.kind = "config", !.pc = "saved", !.at = n, !.key = key]
      PROVE  s \in Blank /\ s.kind = "config" /\ s.pc = "saved"
  BY <1>1 DEF Blank, Writers
<1> QED BY <1>0, <1>1, BlankRow

\* What a step may change of a row that stays at work.
LEMMA RowWith ==
    ASSUME NEW r \in RequestRow, NEW pc \in {"asked", "querying", "loading", "decided", "new", "found",
                                             "queued", "saved", "scanned"}
    PROVE  /\ [r EXCEPT !.pc = pc] \in RequestRow
           /\ \A b \in BOOLEAN : [r EXCEPT !.outdated = b] \in RequestRow
           /\ \A ks \in SUBSET Keys : [r EXCEPT !.pc = pc, !.keys = ks] \in RequestRow
           /\ \A n \in 0..4 : [r EXCEPT !.pc = pc, !.keys = {}, !.at = n] \in RequestRow
           /\ \A a \in SUBSET (Nat \cup {NULL}), n \in 0..4 :
                 [r EXCEPT !.answer = a, !.left = n] \in RequestRow
           /\ \A a \in SUBSET (Nat \cup {NULL}), b \in BOOLEAN :
                 [[r EXCEPT !.outdated = b] EXCEPT !.pc = pc, !.answer = a] \in RequestRow
<1>1. [r EXCEPT !.pc = pc] \in RequestRow
  BY DEF RequestRow
<1>2. \A b \in BOOLEAN : [r EXCEPT !.outdated = b] \in RequestRow
  BY DEF RequestRow
<1>3. \A ks \in SUBSET Keys : [r EXCEPT !.pc = pc, !.keys = ks] \in RequestRow
  BY DEF RequestRow
<1>4. \A n \in 0..4 : [r EXCEPT !.pc = pc, !.keys = {}, !.at = n] \in RequestRow
  BY DEF RequestRow
<1>5. \A a \in SUBSET (Nat \cup {NULL}), n \in 0..4 : [r EXCEPT !.answer = a, !.left = n] \in RequestRow
  BY DEF RequestRow
<1>6. \A a \in SUBSET (Nat \cup {NULL}), b \in BOOLEAN :
         [[r EXCEPT !.outdated = b] EXCEPT !.pc = pc, !.answer = a] \in RequestRow
  BY DEF RequestRow
<1> QED BY <1>1, <1>2, <1>3, <1>4, <1>5, <1>6

-----------------------------------------------------------------------------
(* The inductive invariant *)

DeciderKey(kind) == Key("config", IF kind = "podium" THEN "podium_deadline" ELSE "reveal_predictions")

\* Which requests are where in their handlers.
Shape(r) ==
    /\ r.pc \in {"asked", "querying"} => r.kind \in Readers \cup Deciders /\ r.key \in Keys
    /\ r.pc = "loading" => r.kind = "results"
    /\ r.pc = "decided" => r.kind \in Deciders
    /\ r.pc \in {"new", "found"} => r.kind = "podium"
    /\ r.pc \in AtWork => r.kind \in Writers
    /\ r.kind \in Deciders => r.key = DeciderKey(r.kind)
    /\ r.kind \in Writers => r.at >= 1
    /\ r.kind = "config" => r.pc = "saved" /\ r.key \in Keys /\ r.key.prefix = "config"
    /\ r.pc = "queued" => r.kind = "result" /\ r.at = 1
    /\ r.pc = "scanned" => r.at <= Len(Invalidated(r.kind))

\* A decision that is not outdated is right now.
Decides(r) ==
    ~r.outdated =>
        /\ r.kind = "podium" /\ r.pc \in {"decided", "new", "found"} => InTime(config["podium_deadline"])
        /\ r.kind \in {"predictions", "results"} /\ r.pc = "decided" => Visible(config["reveal_predictions"])
        /\ r.pc = "loading" => Current(r.key, r.answer)

\* The request is a writer whose next deletions include this entry: those it has
\* scanned already do not change any more, those to come will see it.
WillRemove(r, key) ==
    /\ r.pc \in AtWork
    /\ IF key.prefix = "config" THEN r.kind = "config" /\ r.key = key
       ELSE \E i \in r.at..Len(Invalidated(r.kind)) :
               /\ Invalidated(r.kind)[i] = key.prefix
               /\ r.pc = "scanned" /\ i = r.at => key \in r.keys

RowsInv == \A q \in Requests : Shape(req[q]) /\ Decides(req[q])

\* An entry no writer outran is true, or a writer will remove it.
RemovalsInv ==
    \A key \in Keys : cache[key].hit /\ ~cache[key].overtaken =>
        Current(key, cache[key].answer) \/ \E q \in Requests : WillRemove(req[q], key)

Typed ==
    /\ CacheTypeOK
    /\ now \in 0..MaxTime
    /\ podium \in [Players -> Choices \cup {NULL, "missing"}]
    /\ req \in [Requests -> Rows]
    /\ requests \in 0..MaxRequests

Inv == Typed /\ RowsInv /\ RemovalsInv

LEMMA IdleShape == Shape(Idle) /\ Decides(Idle) /\ Idle \in Rows
  BY IdleIsIdle DEF Shape, Decides, Rows, AtWork, Readers, Deciders, Writers

LEMMA SourceType ==
    ASSUME Typed, NEW key \in Keys
    PROVE  Source(key) \in Nat \cup {NULL}
<1>1. config \in [ConfigKeys -> Nat \cup {NULL}] /\ version \in [Tables -> Nat]
  BY DEF Typed, CacheTypeOK
<1>2. CASE key.prefix = "config"
  <2>1. key.of \in ConfigKeys
    BY <1>2 DEF Keys
  <2> QED BY <1>1, <1>2, <2>1 DEF Source
<1>3. CASE key.prefix # "config"
  <2>1. Table(key) \in Tables
    BY DEF Table, Tables
  <2> QED BY <1>1, <1>3, <2>1 DEF Source
<1> QED BY <1>2, <1>3

\* The cache, its entries as Redis keeps them.
CacheOK ==
    /\ DOMAIN cache = Keys
    /\ \A k \in Keys : \/ cache[k] = Miss
                       \/ /\ cache[k] = Entry(cache[k].answer, cache[k].overtaken)
                          /\ cache[k].answer \subseteq Nat \cup {NULL}
                          /\ cache[k].overtaken \in BOOLEAN

LEMMA DeletedType ==
    ASSUME CacheOK, NEW ks, Delete(ks)
    PROVE  /\ CacheOK'
           /\ \A k \in Keys : cache'[k].hit => k \notin ks /\ cache'[k] = cache[k]
<1>1. cache' = [k \in Keys |-> IF k \in ks THEN Miss ELSE cache[k]]
  BY DEF Delete
<1>2. \A k \in Keys : cache'[k] = Miss \/ (k \notin ks /\ cache'[k] = cache[k])
  BY <1>1
<1> QED BY <1>1, <1>2 DEF CacheOK, Miss

LEMMA SetType ==
    ASSUME CacheOK, NEW key \in Keys, NEW answer \in SUBSET (Nat \cup {NULL}), Set(key, answer)
    PROVE  /\ CacheOK'
           /\ cache'[key] = Entry(answer, ~Current(key, answer))
           /\ \A k \in Keys : k # key => cache'[k] = cache[k]
<1>1. cache' = [cache EXCEPT ![key] = Entry(answer, ~Current(key, answer))]
  BY DEF Set
<1>2. /\ DOMAIN cache' = Keys
      /\ cache'[key] = Entry(answer, ~Current(key, answer))
      /\ \A k \in Keys : k # key => cache'[k] = cache[k]
  BY <1>1 DEF CacheOK
<1>3. /\ cache'[key] = Entry(cache'[key].answer, cache'[key].overtaken)
      /\ cache'[key].answer \subseteq Nat \cup {NULL}
      /\ cache'[key].overtaken \in BOOLEAN
  BY <1>2 DEF Entry, Current
<1> QED BY <1>2, <1>3 DEF CacheOK

LEMMA Abandoned ==
    ASSUME CacheOK, NEW keys, Abandon(keys)
    PROVE  /\ CacheOK'
           /\ \A k \in Keys : cache'[k].hit /\ ~cache'[k].overtaken =>
                 k \notin keys /\ cache'[k] = cache[k]
<1>1. cache' = [k \in Keys |-> IF cache[k].hit /\ k \in keys
                               THEN [cache[k] EXCEPT !.overtaken = TRUE] ELSE cache[k]]
  BY DEF Abandon
<1>2. ASSUME NEW k \in Keys, cache[k].hit, k \in keys
      PROVE  /\ cache'[k] = [cache[k] EXCEPT !.overtaken = TRUE]
             /\ cache[k] = Entry(cache[k].answer, cache[k].overtaken)
             /\ cache[k].answer \subseteq Nat \cup {NULL}
  BY <1>1, <1>2 DEF CacheOK, Miss
<1>3. ASSUME NEW k \in Keys, cache[k].hit, k \in keys
      PROVE  /\ cache'[k] = Entry(cache[k].answer, TRUE)
             /\ cache'[k].answer = cache[k].answer /\ cache'[k].overtaken = TRUE
  BY <1>2, <1>3 DEF Entry
<1>4. \A k \in Keys : ~(cache[k].hit /\ k \in keys) => cache'[k] = cache[k]
  BY <1>1
<1>5. DOMAIN cache' = Keys
  BY <1>1
<1>6. CacheOK'
  BY <1>2, <1>3, <1>4, <1>5 DEF CacheOK
<1> QED BY <1>3, <1>4, <1>6

LEMMA InitInv == Init => Inv
<1> SUFFICES ASSUME Init PROVE Inv
  OBVIOUS
<1>1. /\ \A q \in Requests : req[q] = Idle
      /\ \A k \in Keys : cache[k] = Miss
  BY DEF Init, CacheInit
<1>2. config \in [ConfigKeys -> Nat \cup {NULL}]
  BY CacheAssumption DEF Init, CacheInit, ConfigKeys, ConfigValues
<1>3. CacheTypeOK
  BY <1>1, <1>2, CacheAssumption DEF Init, CacheInit, CacheTypeOK, Tables
<1>4. Typed
  BY <1>1, <1>3, CacheAssumption, ReadModelsAssumption DEF Init, Typed, Rows
<1>5. RowsInv
  BY <1>1, IdleShape DEF RowsInv
<1>6. RemovalsInv
  BY <1>1 DEF RemovalsInv, Miss
<1> QED BY <1>4, <1>5, <1>6 DEF Inv

-----------------------------------------------------------------------------
(* One request moves *)

LEMMA DecidesStands ==
    ASSUME NEW r, Shape(r), Decides(r), UNCHANGED <<config, now>>
    PROVE  Decides(r)'
<1>1. r.pc = "loading" => r.key.prefix = "config"
  BY DEF Shape, Deciders, DeciderKey, Key
<1>2. r.pc = "loading" => (Current(r.key, r.answer)' <=> Current(r.key, r.answer))
  BY <1>1 DEF Current, Source
<1> QED BY <1>2 DEF Decides, InTime, Visible, Started

LEMMA OneRow ==
    ASSUME Inv, NEW q \in Requests, NEW r \in Rows, Become(q, r), Shape(r), Decides(r),
           UNCHANGED <<config, now>>
    PROVE  /\ req' \in [Requests -> Rows] /\ RowsInv'
           /\ req'[q] = r /\ \A x \in Requests : x # q => req'[x] = req[x]
<1>1. req \in [Requests -> Rows]
  BY DEF Inv, Typed, Rows
<1>2. /\ req' \in [Requests -> Rows]
      /\ req'[q] = r /\ \A x \in Requests : x # q => req'[x] = req[x]
  BY <1>1 DEF Become
<1>3. \A x \in Requests : Shape(req'[x]) /\ Decides(req'[x])
  BY <1>2 DEF Inv, RowsInv
<1>4. ASSUME NEW x \in Requests PROVE Shape(req[x])' /\ Decides(req[x])'
  <2>1. PICK y : y = req'[x]
    OBVIOUS
  <2>2. Shape(y) /\ Decides(y)'
    BY <1>3, <2>1, DecidesStands
  <2>3. Decides(req[x])'
    BY <2>1, <2>2 DEF Decides
  <2> QED BY <1>3, <2>3 DEF Shape
<1> QED BY <1>2, <1>4 DEF RowsInv

LEMMA TypeNext ==
    ASSUME config' \in [ConfigKeys -> Nat \cup {NULL}], version' \in [Tables -> Nat], CacheOK',
           faults' \in 0..MaxFaults, now' \in 0..MaxTime,
           podium' \in [Players -> Choices \cup {NULL, "missing"}],
           req' \in [Requests -> Rows], requests' \in 0..MaxRequests
    PROVE  Typed'
  BY DEF Typed, CacheTypeOK, CacheOK, Rows

LEMMA TypeFacts ==
    ASSUME Inv
    PROVE  /\ config \in [ConfigKeys -> Nat \cup {NULL}] /\ version \in [Tables -> Nat]
           /\ CacheOK /\ faults \in 0..MaxFaults /\ now \in 0..MaxTime
           /\ podium \in [Players -> Choices \cup {NULL, "missing"}]
           /\ req \in [Requests -> Rows] /\ requests \in 0..MaxRequests
  BY DEF Inv, Typed, CacheTypeOK, CacheOK, Rows

\* A request that is no writer moves: nobody's deletions change, and an entry it
\* writes is true or marked.
LEMMA ReaderMoves ==
    ASSUME Inv, NEW q \in Requests, NEW r \in Rows, Become(q, r), Shape(r), Decides(r),
           req[q].pc \notin AtWork, UNCHANGED <<config, version, now>>, CacheOK',
           \A k \in Keys : cache'[k].hit /\ ~cache'[k].overtaken =>
               cache'[k] = cache[k] \/ Current(k, cache'[k].answer),
           faults' \in 0..MaxFaults, requests' \in 0..MaxRequests,
           podium' \in [Players -> Choices \cup {NULL, "missing"}]
    PROVE  Inv'
<1>1. /\ req' \in [Requests -> Rows] /\ RowsInv'
      /\ \A x \in Requests : x # q => req'[x] = req[x]
  BY OneRow
<1>2. Typed'
  BY <1>1, TypeFacts, TypeNext
<1>3. \A x \in Requests, k \in Keys : WillRemove(req[x], k) => req'[x] = req[x]
  BY <1>1 DEF WillRemove
<1>4. \A k \in Keys : \A a : Current(k, a)' <=> Current(k, a)
  BY DEF Current, Source
<1>5. RemovalsInv'
  <2> SUFFICES ASSUME NEW k \in Keys, cache'[k].hit, ~cache'[k].overtaken
               PROVE  \/ Current(k, cache'[k].answer)
                      \/ \E x \in Requests : WillRemove(req'[x], k)
    BY <1>4 DEF RemovalsInv
  <2> QED BY <1>3 DEF Inv, RemovalsInv
<1> QED BY <1>1, <1>2, <1>5 DEF Inv

\* The same when no entry and no podium is written.
LEMMA ReaderGoesOn ==
    ASSUME Inv, NEW q \in Requests, NEW r \in Rows, Become(q, r), Shape(r), Decides(r),
           req[q].pc \notin AtWork, UNCHANGED <<config, version, cache, now, podium>>,
           faults' \in 0..MaxFaults, requests' \in 0..MaxRequests
    PROVE  Inv'
  BY ReaderMoves, TypeFacts DEF CacheOK

LEMMA ArrivesFree ==
    ASSUME Inv, NEW q \in Requests, Arrives(q)
    PROVE  req[q].pc = "idle" /\ requests' \in 0..MaxRequests
  BY TypeFacts, ReadModelsAssumption DEF Arrives, OneMore

LEMMA KeyTypes ==
    /\ Key("config", "podium_deadline") \in Keys /\ Key("config", "reveal_predictions") \in Keys
    /\ Key("config", "podium_deadline").prefix = "config"
    /\ Key("config", "reveal_predictions").prefix = "config"
    /\ Key("config", "podium_deadline").of = "podium_deadline"
    /\ Key("config", "reveal_predictions").of = "reveal_predictions"
  BY DEF Key, Keys, ConfigKeys

LEMMA AskStep ==
    ASSUME Inv, NEW q \in Requests, AskList(q) \/ AskPodium(q) \/ AskPredictions(q) \/ AskResults(q)
    PROVE  Inv'
<1>1. Arrives(q) /\ UNCHANGED <<cacheVars, now, podium>>
  BY DEF AskList, AskPodium, AskPredictions, AskResults, AskReveal, Begin
<1>2. req[q].pc = "idle" /\ requests' \in 0..MaxRequests
  BY <1>1, ArrivesFree
<1>3. ASSUME NEW r \in RequestRow, Become(q, r), r.pc = "asked", r.kind \in Readers \cup Deciders,
             r.key \in Keys, r.kind \in Deciders => r.key = DeciderKey(r.kind)
      PROVE  Inv'
  <2>1. Shape(r) /\ Decides(r)
    BY <1>3 DEF Shape, Decides, Readers, Deciders, Writers, AtWork
  <2> QED BY <1>1, <1>2, <1>3, <2>1, ReaderGoesOn, TypeFacts DEF AtWork, cacheVars, Rows
<1>4. CASE AskList(q)
  <2>1. PICK key \in Keys :
           /\ key.prefix \in Readers
           /\ Become(q, [Idle EXCEPT !.kind = key.prefix, !.pc = "asked", !.key = key,
                                     !.left = Queries(key)])
    BY <1>4 DEF AskList, Begin
  <2> DEFINE r == [Idle EXCEPT !.kind = key.prefix, !.pc = "asked", !.key = key, !.left = Queries(key)]
  <2>2. Queries(key) \in 0..4
    BY DEF Queries
  <2>3. r \in RequestRow
    BY <2>1, <2>2, ListRow
  <2>4. r.pc = "asked" /\ r.kind = key.prefix /\ r.key = key
    BY DEF Idle
  <2>5. Become(q, r)
    BY <2>1
  <2> HIDE DEF r
  <2> QED BY <1>3, <2>1, <2>3, <2>4, <2>5 DEF Readers, Deciders
<1>5. CASE AskPodium(q)
  <2>0. PICK key : key = Key("config", "podium_deadline")
    OBVIOUS
  <2>1. PICK u \in Players, c \in Choices :
           Become(q, [Idle EXCEPT !.kind = "podium", !.pc = "asked", !.left = 1, !.player = u,
                                  !.key = key, !.choice = c])
    BY <1>5, <2>0 DEF AskPodium, Begin
  <2> DEFINE r == [Idle EXCEPT !.kind = "podium", !.pc = "asked", !.left = 1, !.player = u,
                               !.key = key, !.choice = c]
  <2>2. key \in Keys
    BY <2>0, KeyTypes
  <2>3. r \in RequestRow
    BY <2>2, PodiumRow DEF Deciders
  <2>4. r.pc = "asked" /\ r.kind = "podium" /\ r.key = key
    BY DEF Idle
  <2>5. Become(q, r)
    BY <2>1
  <2> HIDE DEF r
  <2> QED BY <1>3, <2>0, <2>2, <2>3, <2>4, <2>5 DEF Deciders, DeciderKey
<1>6. ASSUME NEW kind \in {"predictions", "results"}, AskReveal(q, kind) PROVE Inv'
  <2>0. PICK key : key = Key("config", "reveal_predictions")
    OBVIOUS
  <2> DEFINE r == [Idle EXCEPT !.kind = kind, !.pc = "asked", !.left = 1, !.key = key]
  <2>1. Become(q, r)
    BY <1>6, <2>0 DEF AskReveal, Begin
  <2>2. key \in Keys
    BY <2>0, KeyTypes
  <2>3. r \in RequestRow
    BY <2>2, FlagRow DEF Deciders
  <2>4. r.pc = "asked" /\ r.kind = kind /\ r.key = key
    BY DEF Idle
  <2> HIDE DEF r
  <2> QED BY <1>3, <2>0, <2>1, <2>2, <2>3, <2>4 DEF Deciders, DeciderKey
<1> QED BY <1>4, <1>5, <1>6 DEF AskPredictions, AskResults

\* The answer is there: a decision that is not outdated rests on the value in force.
LEMMA AnsweredRow ==
    ASSUME Inv, NEW q \in Requests, req[q].pc \in {"asked", "querying"},
           NEW answer \in SUBSET (Nat \cup {NULL}), Answered(q, answer)
    PROVE  \E r \in Rows : Become(q, r) /\ Shape(r) /\ Decides(r)
<1>0. PICK o : o = req[q]
  OBVIOUS
<1>1. o \in RequestRow /\ Shape(o)
  BY <1>0, TypeFacts, WorkRow DEF Inv, RowsInv
<1>2. o.kind \in Readers \cup Deciders /\ o.key \in Keys
  BY <1>0, <1>1 DEF Shape
<1> DEFINE b == ~Current(o.key, answer)
<1>3. b \in BOOLEAN
  BY DEF Current
<1>4. ASSUME NEW pc \in {"loading", "decided"}, NEW a \in SUBSET (Nat \cup {NULL}), NEW r,
             r = [[o EXCEPT !.outdated = b] EXCEPT !.pc = pc, !.answer = a],
             pc = "loading" => o.kind = "results" /\ a = answer,
             pc = "decided" => /\ o.kind \in Deciders
                               /\ o.kind = "podium" => \A d \in answer : InTime(d)
                               /\ o.kind # "podium" => \A d \in answer : Visible(d)
      PROVE  r \in Rows /\ Shape(r) /\ Decides(r)
  <2>1. r \in RequestRow
    BY <1>1, <1>3, <1>4, RowWith
  <2>2. r.kind = o.kind /\ r.key = o.key /\ r.pc = pc /\ r.answer = a /\ r.outdated = b /\ r.at = o.at
    BY <1>1, <1>4 DEF RequestRow
  <2>3. Shape(r)
    BY <1>1, <1>2, <1>4, <2>2 DEF Shape, AtWork, Readers, Deciders, Writers
  <2>4. ASSUME ~b PROVE answer = {Source(o.key)}
    BY <2>4 DEF Current
  <2>5. o.kind \in Deciders => o.key = DeciderKey(o.kind)
    BY <1>1 DEF Shape
  <2>6. o.kind = "podium" => Source(o.key) = config["podium_deadline"]
    BY <2>5, KeyTypes DEF DeciderKey, Deciders, Source
  <2>7. o.kind \in {"predictions", "results"} => Source(o.key) = config["reveal_predictions"]
    BY <2>5, KeyTypes DEF DeciderKey, Deciders, Source
  <2>8. Decides(r)
    <3> HIDE DEF b
    <3> SUFFICES ASSUME ~b PROVE
          /\ o.kind = "podium" /\ pc \in {"decided", "new", "found"} => InTime(config["podium_deadline"])
          /\ o.kind \in {"predictions", "results"} /\ pc = "decided" => Visible(config["reveal_predictions"])
          /\ pc = "loading" => Current(o.key, a)
      BY <2>2 DEF Decides
    <3> QED BY <1>4, <2>4, <2>6, <2>7 DEF Current
  <2> QED BY <2>1, <2>3, <2>8 DEF Rows
<1>5. \/ /\ o.kind = "results"
         /\ Become(q, [[o EXCEPT !.outdated = b] EXCEPT !.pc = "loading", !.answer = answer])
      \/ /\ o.kind \in {"podium", "predictions"}
         /\ o.kind = "podium" => \A d \in answer : InTime(d)
         /\ o.kind = "predictions" => \A d \in answer : Visible(d)
         /\ Become(q, [[o EXCEPT !.outdated = b] EXCEPT !.pc = "decided"])
      \/ Leave(q)
  BY <1>0, <1>2 DEF Answered
<1>6. CASE /\ o.kind = "results"
           /\ Become(q, [[o EXCEPT !.outdated = b] EXCEPT !.pc = "loading", !.answer = answer])
  <2> HIDE DEF b
  <2> QED BY <1>4, <1>6
<1>7. CASE /\ o.kind \in {"podium", "predictions"}
           /\ o.kind = "podium" => \A d \in answer : InTime(d)
           /\ o.kind = "predictions" => \A d \in answer : Visible(d)
           /\ Become(q, [[o EXCEPT !.outdated = b] EXCEPT !.pc = "decided"])
  <2>1. [[o EXCEPT !.outdated = b] EXCEPT !.pc = "decided"] =
            [[o EXCEPT !.outdated = b] EXCEPT !.pc = "decided", !.answer = o.answer]
    BY <1>1, RowOf
  <2>2. o.answer \in SUBSET (Nat \cup {NULL})
    BY <1>1 DEF RequestRow
  <2> HIDE DEF b
  <2> QED BY <1>4, <1>7, <2>1, <2>2 DEF Deciders
<1>8. CASE Leave(q)
  BY <1>8, IdleShape DEF Leave
<1> QED BY <1>5, <1>6, <1>7, <1>8

LEMMA HitStep ==
    ASSUME Inv, NEW q \in Requests, Hit(q)
    PROVE  Inv'
<1> DEFINE answer == cache[req[q].key].answer
<1>1. req[q].pc = "asked" /\ cache[req[q].key].hit /\ Answered(q, answer)
      /\ UNCHANGED <<config, version, cache, faults, now, podium, requests>>
  BY DEF Hit, cacheVars
<1>2. req[q].key \in Keys
  BY <1>1 DEF Inv, RowsInv, Shape
<1>3. answer \in SUBSET (Nat \cup {NULL})
  BY <1>1, <1>2, TypeFacts DEF CacheOK, Miss
<1> HIDE DEF answer
<1>4. PICK r \in Rows : Become(q, r) /\ Shape(r) /\ Decides(r)
  BY <1>1, <1>3, AnsweredRow
<1> QED BY <1>1, <1>4, ReaderGoesOn, TypeFacts DEF AtWork

LEMMA FillStep ==
    ASSUME Inv, NEW q \in Requests, Fill(q)
    PROVE  Inv'
<1> DEFINE answer == req[q].answer
<1> DEFINE key == req[q].key
<1>1. req[q].pc = "querying" /\ Set(key, answer) /\ Answered(q, answer)
      /\ UNCHANGED <<config, version, faults, now, podium, requests>>
  BY DEF Fill
<1>2. key \in Keys
  BY <1>1 DEF Inv, RowsInv, Shape
<1>3. answer \in SUBSET (Nat \cup {NULL})
  BY <1>1, TypeFacts, WorkRow DEF RequestRow
<1> HIDE DEF answer, key
<1>4. PICK r \in Rows : Become(q, r) /\ Shape(r) /\ Decides(r)
  BY <1>1, <1>3, AnsweredRow
<1>5. /\ CacheOK'
      /\ cache'[key] = Entry(answer, ~Current(key, answer))
      /\ \A k \in Keys : k # key => cache'[k] = cache[k]
  BY <1>1, <1>2, <1>3, SetType, TypeFacts
<1>6. ~cache'[key].overtaken => Current(key, cache'[key].answer)
  <2>1. PICK b \in BOOLEAN : b = ~Current(key, answer)
    BY DEF Current
  <2>2. cache'[key].overtaken = b /\ cache'[key].answer = answer
    BY <1>5, <2>1 DEF Entry
  <2> QED BY <2>1, <2>2
<1>7. \A k \in Keys : cache'[k].hit /\ ~cache'[k].overtaken =>
          cache'[k] = cache[k] \/ Current(k, cache'[k].answer)
  BY <1>5, <1>6
<1> QED BY <1>1, <1>4, <1>5, <1>7, ReaderMoves, TypeFacts DEF AtWork

\* A cache miss, one more query, a failure of Redis.
LEMMA LookupStep ==
    ASSUME Inv, NEW q \in Requests, Missed(q) \/ Query(q) \/ ReadFails(q)
    PROVE  Inv'
<1>0. PICK o : o = req[q]
  OBVIOUS
<1>1. /\ UNCHANGED <<config, version, cache, now, podium, requests>>
      /\ faults' \in 0..MaxFaults
      /\ o.pc \in {"asked", "querying"}
  BY <1>0, TypeFacts, CacheAssumption DEF Missed, Query, ReadFails, Fault, cacheVars
<1>2. o \in RequestRow /\ Shape(o)
  BY <1>0, <1>1, TypeFacts, WorkRow DEF Inv, RowsInv
<1>3. ASSUME NEW r \in Rows, Become(q, r), Shape(r), Decides(r) PROVE Inv'
  BY <1>0, <1>1, <1>3, ReaderGoesOn, TypeFacts DEF AtWork
<1>4. CASE Missed(q)
  <2>1. PICK r : r = [o EXCEPT !.pc = "querying"]
    OBVIOUS
  <2>2. r \in RequestRow
    BY <1>2, <2>1, RowWith
  <2>3. r.pc = "querying" /\ r.kind = o.kind /\ r.key = o.key /\ r.at = o.at
    BY <1>2, <2>1 DEF RequestRow
  <2>4. Shape(r) /\ Decides(r)
    BY <1>1, <1>2, <2>3 DEF Shape, Decides, AtWork, Readers, Deciders, Writers
  <2>5. Become(q, r)
    BY <1>0, <1>4, <2>1 DEF Missed
  <2> QED BY <1>3, <2>2, <2>4, <2>5 DEF Rows
<1>5. CASE Query(q)
  <2>0. PICK a, n : a = o.answer \cup {Source(o.key)} /\ n = o.left - 1
    OBVIOUS
  <2>1. PICK r : r = [o EXCEPT !.answer = a, !.left = n]
    OBVIOUS
  <2>2. a \in SUBSET (Nat \cup {NULL})
    BY <1>1, <1>2, <2>0, SourceType DEF Inv, Shape, RequestRow
  <2>3. n \in 0..4
    BY <1>0, <1>2, <1>5, <2>0 DEF Query, RequestRow
  <2>4. r \in RequestRow
    BY <1>2, <2>1, <2>2, <2>3, RowWith
  <2>5. r.pc = o.pc /\ r.kind = o.kind /\ r.key = o.key /\ r.at = o.at
    BY <1>2, <2>1 DEF RequestRow
  <2>6. Shape(r) /\ Decides(r)
    BY <1>1, <1>2, <2>5 DEF Shape, Decides, AtWork, Readers, Deciders, Writers
  <2>7. Become(q, r)
    BY <1>0, <1>5, <2>0, <2>1 DEF Query
  <2> QED BY <1>3, <2>4, <2>6, <2>7 DEF Rows
<1>6. CASE ReadFails(q)
  BY <1>3, <1>6, IdleShape DEF ReadFails, Leave
<1> QED BY <1>4, <1>5, <1>6

\* The results are loaded, and shown if the flag that was read allows it.
LEMMA LoadStep ==
    ASSUME Inv, NEW q \in Requests, LoadResults(q)
    PROVE  Inv'
<1>0. PICK o : o = req[q]
  OBVIOUS
<1>1. /\ UNCHANGED <<config, version, cache, faults, now, podium, requests>>
      /\ o.pc = "loading"
      /\ \/ (\A r \in o.answer : Visible(r)) /\ Become(q, [o EXCEPT !.pc = "decided"])
         \/ Leave(q)
  BY <1>0 DEF LoadResults, cacheVars
<1>2. o \in RequestRow /\ Shape(o) /\ Decides(o)
  BY <1>0, <1>1, TypeFacts, WorkRow DEF Inv, RowsInv
<1>3. ASSUME NEW r \in Rows, Become(q, r), Shape(r), Decides(r) PROVE Inv'
  BY <1>0, <1>1, <1>3, ReaderGoesOn, TypeFacts DEF AtWork
<1>4. CASE (\A r \in o.answer : Visible(r)) /\ Become(q, [o EXCEPT !.pc = "decided"])
  <2>1. PICK r : r = [o EXCEPT !.pc = "decided"]
    OBVIOUS
  <2>2. r \in RequestRow
    BY <1>2, <2>1, RowWith
  <2>3. /\ r.pc = "decided" /\ r.kind = o.kind /\ r.key = o.key /\ r.at = o.at
        /\ r.outdated = o.outdated
    BY <1>2, <2>1 DEF RequestRow
  <2>4. o.kind = "results"
    BY <1>1, <1>2 DEF Shape
  <2>5. Shape(r)
    BY <1>2, <2>3, <2>4 DEF Shape, AtWork, Readers, Deciders, Writers
  <2>6. ~o.outdated => o.answer = {Source(o.key)}
    BY <1>1, <1>2 DEF Decides, Current
  <2>7. Source(o.key) = config["reveal_predictions"]
    BY <1>2, <2>4, KeyTypes DEF Shape, DeciderKey, Deciders, Source
  <2>8. Decides(r)
    BY <1>4, <2>3, <2>4, <2>6, <2>7 DEF Decides
  <2> QED BY <1>3, <1>4, <2>1, <2>2, <2>5, <2>8 DEF Rows
<1>5. CASE Leave(q)
  BY <1>3, <1>5, IdleShape DEF Leave
<1> QED BY <1>1, <1>4, <1>5

LEMMA DecidedStep ==
    ASSUME Inv, NEW q \in Requests,
           ShowPredictions(q) \/ FindPodium(q) \/ SavePodium(q) \/ PodiumConflicts(q)
    PROVE  Inv'
<1>0. PICK o : o = req[q]
  OBVIOUS
<1>1. /\ UNCHANGED <<config, version, cache, faults, now, requests>>
      /\ o.pc \in {"decided", "new", "found"}
  BY <1>0 DEF ShowPredictions, FindPodium, SavePodium, PodiumConflicts, cacheVars
<1>2. o \in RequestRow /\ Shape(o) /\ Decides(o)
  BY <1>0, <1>1, TypeFacts, WorkRow DEF Inv, RowsInv
<1>3. ASSUME NEW r \in Rows, Become(q, r), Shape(r), Decides(r),
             podium' \in [Players -> Choices \cup {NULL, "missing"}]
      PROVE  Inv'
  BY <1>0, <1>1, <1>3, ReaderMoves, TypeFacts DEF AtWork, CacheOK
<1>4. CASE ShowPredictions(q) \/ PodiumConflicts(q)
  BY <1>3, <1>4, IdleShape, TypeFacts DEF ShowPredictions, PodiumConflicts, Leave
<1>5. CASE FindPodium(q)
  <2>0. PICK pc \in {"new", "found"} :
           pc = IF podium[o.player] = "missing" THEN "new" ELSE "found"
    OBVIOUS
  <2>1. PICK r : r = [o EXCEPT !.pc = pc]
    OBVIOUS
  <2>2. r \in RequestRow
    BY <1>2, <2>1, RowWith
  <2>3. /\ r.pc = pc /\ r.kind = o.kind /\ r.key = o.key /\ r.at = o.at
        /\ r.outdated = o.outdated
    BY <1>2, <2>1 DEF RequestRow
  <2>4. o.kind = "podium" /\ o.pc = "decided"
    BY <1>0, <1>5 DEF FindPodium
  <2>5. Shape(r) /\ Decides(r)
    BY <1>2, <2>3, <2>4 DEF Shape, Decides, AtWork, Readers, Deciders, Writers
  <2>6. Become(q, r) /\ podium' = podium
    BY <1>0, <1>5, <2>0, <2>1 DEF FindPodium
  <2> QED BY <1>3, <2>2, <2>5, <2>6, TypeFacts DEF Rows
<1>6. CASE SavePodium(q)
  <2>1. podium' = [podium EXCEPT ![o.player] = o.choice]
    BY <1>0, <1>6 DEF SavePodium
  <2>2. o.choice \in Choices \cup {NULL}
    BY <1>2 DEF RequestRow
  <2>3. podium' \in [Players -> Choices \cup {NULL, "missing"}]
    BY <2>1, <2>2, TypeFacts
  <2> QED BY <1>3, <1>6, <2>3, IdleShape DEF SavePodium, Leave
<1> QED BY <1>4, <1>5, <1>6

-----------------------------------------------------------------------------
(* A writer moves *)

\* An entry that no writer removed before its step still is what it was, or the
\* writer removes it now.
LEMMA RemovalsStep ==
    ASSUME Inv, NEW q \in Requests, NEW r, req'[q] = r,
           \A x \in Requests : x # q => req'[x] = req[x],
           \A k \in Keys : cache'[k].hit /\ ~cache'[k].overtaken =>
               \/ WillRemove(r, k)
               \/ cache'[k] = cache[k] /\ Source(k)' = Source(k) /\ ~WillRemove(req[q], k)
    PROVE  RemovalsInv'
<1> SUFFICES ASSUME NEW k \in Keys, cache'[k].hit, ~cache'[k].overtaken,
                    ~WillRemove(r, k)
             PROVE  \/ cache'[k].answer = {Source(k)'}
                    \/ \E x \in Requests : WillRemove(req'[x], k)
  BY DEF RemovalsInv, Current
<1>1. cache'[k] = cache[k] /\ Source(k)' = Source(k) /\ ~WillRemove(req[q], k)
  OBVIOUS
<1>2. Current(k, cache[k].answer) \/ \E x \in Requests : WillRemove(req[x], k)
  BY <1>1 DEF Inv, RemovalsInv
<1>3. CASE Current(k, cache[k].answer)
  BY <1>1, <1>3 DEF Current
<1>4. ASSUME NEW x \in Requests, WillRemove(req[x], k) PROVE WillRemove(req'[x], k)
  BY <1>1, <1>4
<1> QED BY <1>2, <1>3, <1>4

\* The common part of the writers' steps that leave the configuration alone.
LEMMA WriterMoves ==
    ASSUME Inv, NEW q \in Requests, NEW r \in Rows, Become(q, r), Shape(r),
           r.kind \in Writers \cup {"none"},
           UNCHANGED <<config, now, podium>>, CacheOK', version' \in [Tables -> Nat],
           faults' \in 0..MaxFaults, requests' \in 0..MaxRequests,
           \A k \in Keys : cache'[k].hit /\ ~cache'[k].overtaken =>
               \/ WillRemove(r, k)
               \/ cache'[k] = cache[k] /\ Source(k)' = Source(k) /\ ~WillRemove(req[q], k)
    PROVE  Inv'
<1>1. Decides(r)
  <2>1. r.kind \notin Deciders
    BY DEF Writers, Deciders
  <2>2. r.pc # "loading"
    BY <2>1 DEF Shape, Deciders
  <2> QED BY <2>1, <2>2 DEF Decides, Deciders
<1>2. /\ req' \in [Requests -> Rows] /\ RowsInv'
      /\ req'[q] = r /\ \A x \in Requests : x # q => req'[x] = req[x]
  BY <1>1, OneRow
<1>3. Typed'
  BY <1>2, TypeFacts, TypeNext
<1>4. RemovalsInv'
  BY <1>2, RemovalsStep
<1> QED BY <1>2, <1>3, <1>4 DEF Inv

LEMMA Committed ==
    ASSUME version \in [Tables -> Nat], NEW t \in Tables, Change(t), UNCHANGED config
    PROVE  /\ version' \in [Tables -> Nat]
           /\ \A k \in Keys : Source(k)' = Source(k) \/ (k.prefix # "config" /\ Table(k) = t)
<1>1. version' = [version EXCEPT ![t] = @ + 1]
  BY DEF Change
<1>2. version' \in [Tables -> Nat]
  BY <1>1
<1>3. ASSUME NEW k \in Keys, k.prefix = "config" \/ Table(k) # t PROVE Source(k)' = Source(k)
  <2>1. Table(k) \in Tables /\ (Table(k)' = Table(k))
    BY DEF Table, Tables
  <2> QED BY <1>1, <1>3, <2>1 DEF Source
<1> QED BY <1>2, <1>3

LEMMA SaveStep ==
    ASSUME Inv, NEW q \in Requests, Save(q)
    PROVE  Inv'
<1>1. PICK kind \in Writers \ {"config"} :
         /\ Change(Written(kind))
         /\ Begin(q, [Idle EXCEPT !.kind = kind, !.at = 1,
                                  !.pc = IF kind = "result" THEN "queued" ELSE "saved"])
  BY DEF Save
<1>2. PICK pc \in {"saved", "queued"} : pc = IF kind = "result" THEN "queued" ELSE "saved"
  OBVIOUS
<1>3. PICK r : r = [Idle EXCEPT !.kind = kind, !.at = 1, !.pc = pc]
  OBVIOUS
<1>4. r \in RequestRow
  BY <1>3, SavedRow
<1>5. r.kind = kind /\ r.at = 1 /\ r.pc = pc
  BY <1>3 DEF Idle
<1>6. Become(q, r) /\ Arrives(q)
  BY <1>1, <1>2, <1>3 DEF Begin
<1>7. UNCHANGED <<config, cache, faults, now, podium>>
  BY DEF Save
<1>8. Shape(r)
  <2>1. kind \notin Readers \cup Deciders /\ kind # "config"
    BY DEF Readers, Deciders, Writers
  <2>2. pc = "queued" => kind = "result"
    BY <1>2
  <2> QED BY <1>5, <2>1, <2>2 DEF Shape, AtWork
<1>9. Written(kind) \in Tables
  BY DEF Written, Tables
<1>10. /\ version' \in [Tables -> Nat]
       /\ \A k \in Keys : Source(k)' = Source(k) \/ (k.prefix # "config" /\ Table(k) = Written(kind))
  BY <1>1, <1>7, <1>9, Committed, TypeFacts
<1>11. req[q].pc = "idle" /\ requests' \in 0..MaxRequests
  BY <1>6, ArrivesFree
<1>12. ASSUME NEW k \in Keys, k.prefix # "config", Table(k) = Written(kind)
       PROVE  WillRemove(r, k)
  <2>1. \/ k.prefix = "ranking" /\ kind = "account"
        \/ k.prefix = "matches" /\ kind = "teams of a match"
        \/ k.prefix = "matches" /\ kind = "result"
    BY <1>12 DEF Table, Written, Writers
  <2>2. \E i \in 1..Len(Invalidated(kind)) : Invalidated(kind)[i] = k.prefix
    <3>1. PICK p : p = k.prefix
      OBVIOUS
    <3>2. \/ kind = "account" /\ p = "ranking"
          \/ kind = "teams of a match" /\ p = "matches"
          \/ kind = "result" /\ p \in {"ranking", "matches"}
      BY <2>1, <3>1
    <3> QED BY <3>1, <3>2, FirstPlaces, Lists
  <2> QED BY <1>2, <1>5, <1>12, <2>2 DEF WillRemove, AtWork
<1>13. \A k \in Keys : ~WillRemove(req[q], k)
  BY <1>11 DEF WillRemove, AtWork
<1> QED
  BY <1>4, <1>5, <1>6, <1>7, <1>8, <1>10, <1>11, <1>12, <1>13, WriterMoves, TypeFacts
  DEF Rows, CacheOK

LEMMA JobStep ==
    ASSUME Inv, NEW q \in Requests, ScoreJob(q)
    PROVE  Inv'
<1>0. PICK o : o = req[q]
  OBVIOUS
<1>1. /\ o.pc = "queued" /\ Change("users") /\ Become(q, [o EXCEPT !.pc = "saved"])
      /\ UNCHANGED <<config, cache, faults, now, podium, requests>>
  BY <1>0 DEF ScoreJob
<1>2. o \in RequestRow /\ Shape(o)
  BY <1>0, <1>1, TypeFacts, WorkRow DEF Inv, RowsInv
<1>3. PICK r : r = [o EXCEPT !.pc = "saved"]
  OBVIOUS
<1>4. r \in RequestRow
  BY <1>2, <1>3, RowWith
<1>5. /\ r.pc = "saved" /\ r.kind = "result" /\ r.at = 1 /\ r.key = o.key
      /\ o.kind = "result" /\ o.at = 1
  BY <1>1, <1>2, <1>3 DEF RequestRow, Shape
<1>6. Shape(r)
  BY <1>5 DEF Shape, AtWork, Readers, Deciders, Writers
<1>7. /\ version' \in [Tables -> Nat]
      /\ \A k \in Keys : Source(k)' = Source(k) \/ (k.prefix # "config" /\ Table(k) = "users")
  BY <1>1, Committed, TypeFacts DEF Tables
<1>8. ASSUME NEW k \in Keys, k.prefix # "config", Table(k) = "users"
      PROVE  WillRemove(r, k)
  <2>1. k.prefix = "ranking"
    BY <1>8 DEF Table
  <2>2. \E i \in 1..Len(Invalidated("result")) : Invalidated("result")[i] = k.prefix
    BY <2>1, FirstPlaces, Lists
  <2> QED BY <1>5, <1>8, <2>2 DEF WillRemove, AtWork
<1>9. \A k \in Keys : WillRemove(o, k) => WillRemove(r, k)
  BY <1>1, <1>5 DEF WillRemove, AtWork
<1> QED
  BY <1>0, <1>1, <1>3, <1>4, <1>5, <1>6, <1>7, <1>8, <1>9, WriterMoves, TypeFacts
  DEF Rows, CacheOK, Writers

\* The steps of a writer whose row o is at work and whose tables stand.
LEMMA InvalidationMoves ==
    ASSUME Inv, NEW q \in Requests, NEW r \in Rows, Become(q, r), Shape(r),
           req[q].pc \in AtWork, r.kind \in Writers \cup {"none"},
           UNCHANGED <<config, version, now, podium, requests>>, CacheOK', faults' \in 0..MaxFaults,
           \A k \in Keys : cache'[k].hit /\ ~cache'[k].overtaken =>
               cache'[k] = cache[k] /\ (WillRemove(req[q], k) => WillRemove(r, k))
    PROVE  Inv'
<1>1. \A k \in Keys : Source(k)' = Source(k)
  BY DEF Source
<1> QED BY <1>1, WriterMoves, TypeFacts

LEMMA WorkerRow ==
    ASSUME Inv, NEW q \in Requests, req[q].pc \in AtWork
    PROVE  req[q] \in RequestRow /\ Shape(req[q]) /\ req[q].kind \in Writers /\ req[q].at \in 1..4
<1>1. req[q] \in RequestRow /\ Shape(req[q])
  BY TypeFacts, WorkRow DEF AtWork, Inv, RowsInv
<1> QED BY <1>1 DEF Shape, RequestRow

LEMMA ScanStep ==
    ASSUME Inv, NEW q \in Requests, ScanPrefix(q)
    PROVE  Inv'
<1>0. PICK o : o = req[q]
  OBVIOUS
<1> DEFINE ks == Scan(Invalidated(o.kind)[o.at])
<1>1. /\ o.pc = "saved" /\ o.at <= Len(Invalidated(o.kind))
      /\ Become(q, [o EXCEPT !.pc = "scanned", !.keys = ks])
      /\ UNCHANGED <<config, version, cache, faults, now, podium, requests>>
  BY <1>0 DEF ScanPrefix, cacheVars
<1>2. o \in RequestRow /\ Shape(o) /\ o.kind \in Writers /\ o.at \in 1..4
  BY <1>0, <1>1, WorkerRow DEF AtWork
<1>3. ks \in SUBSET Keys
  BY DEF Scan
<1>4. \A k \in Keys : cache[k].hit /\ k.prefix = Invalidated(o.kind)[o.at] => k \in ks
  BY DEF Scan
<1> HIDE DEF ks
<1>5. PICK r : r = [o EXCEPT !.pc = "scanned", !.keys = ks]
  OBVIOUS
<1>6. r \in RequestRow
  BY <1>2, <1>3, <1>5, RowWith
<1>7. r.pc = "scanned" /\ r.kind = o.kind /\ r.key = o.key /\ r.at = o.at /\ r.keys = ks
  BY <1>2, <1>5 DEF RequestRow
<1>8. o.kind # "config"
  <2>1. o.at \in Int /\ o.at >= 1
    BY <1>2
  <2> QED BY <1>1, <2>1, Lengths
<1>9. Shape(r)
  BY <1>1, <1>2, <1>7, <1>8 DEF Shape, AtWork, Readers, Deciders, Writers
<1>10. ASSUME NEW k \in Keys, cache[k].hit, WillRemove(o, k) PROVE WillRemove(r, k)
  <2>1. k.prefix # "config"
    BY <1>8, <1>10 DEF WillRemove
  <2>2. PICK i \in o.at..Len(Invalidated(o.kind)) : Invalidated(o.kind)[i] = k.prefix
    BY <1>10, <2>1 DEF WillRemove
  <2>3. i = o.at => k \in ks
    BY <1>4, <1>10, <2>2
  <2> QED BY <1>7, <2>1, <2>2, <2>3 DEF WillRemove, AtWork
<1> QED BY <1>0, <1>1, <1>2, <1>5, <1>6, <1>7, <1>9, <1>10, InvalidationMoves, TypeFacts
        DEF Rows, AtWork, CacheOK

LEMMA DeleteStep ==
    ASSUME Inv, NEW q \in Requests, DeletePrefix(q)
    PROVE  Inv'
<1>0. PICK o : o = req[q]
  OBVIOUS
<1>1. /\ o.pc = "scanned" /\ Delete(o.keys)
      /\ Become(q, [o EXCEPT !.pc = "saved", !.keys = {}, !.at = o.at + 1])
      /\ UNCHANGED <<config, version, faults, now, podium, requests>>
  BY <1>0 DEF DeletePrefix
<1>2. o \in RequestRow /\ Shape(o) /\ o.kind \in Writers /\ o.at \in 1..4
  BY <1>0, <1>1, WorkerRow DEF AtWork
<1>3. o.at <= 3
  <2>1. PICK n \in 0..3 : n = Len(Invalidated(o.kind))
    BY <1>2, Lengths
  <2>2. o.at <= n
    BY <1>1, <1>2, <2>1 DEF Shape
  <2> QED BY <1>2, <2>2
<1>4. PICK n \in 0..4 : n = o.at + 1
  BY <1>2, <1>3
<1>5. PICK r : r = [o EXCEPT !.pc = "saved", !.keys = {}, !.at = n]
  OBVIOUS
<1>6. r \in RequestRow
  BY <1>2, <1>5, RowWith
<1>7. r.pc = "saved" /\ r.kind = o.kind /\ r.key = o.key /\ r.at = o.at + 1 /\ r.keys = {}
  BY <1>2, <1>4, <1>5 DEF RequestRow
<1>8. o.kind # "config"
  BY <1>1, <1>2 DEF Shape
<1>9. Shape(r)
  <2>1. r.at >= 1
    BY <1>2, <1>7
  <2>2. r.kind \in Writers /\ r.kind # "config" /\ r.kind \notin Deciders
    BY <1>2, <1>7, <1>8 DEF Writers, Deciders
  <2> QED BY <1>7, <2>1, <2>2 DEF Shape, AtWork
<1>10. /\ CacheOK'
       /\ \A k \in Keys : cache'[k].hit => k \notin o.keys /\ cache'[k] = cache[k]
  BY <1>1, DeletedType, TypeFacts
<1>11. ASSUME NEW k \in Keys, k \notin o.keys, WillRemove(o, k) PROVE WillRemove(r, k)
  <2>1. k.prefix # "config"
    BY <1>8, <1>11 DEF WillRemove
  <2>2. PICK i \in o.at..Len(Invalidated(o.kind)) : Invalidated(o.kind)[i] = k.prefix /\ i # o.at
    BY <1>1, <1>11, <2>1 DEF WillRemove
  <2>3. i \in r.at..Len(Invalidated(r.kind))
    BY <1>2, <1>7, <2>2
  <2> QED BY <1>7, <2>1, <2>2, <2>3 DEF WillRemove, AtWork
<1> QED BY <1>0, <1>1, <1>2, <1>4, <1>5, <1>6, <1>7, <1>9, <1>10, <1>11, InvalidationMoves, TypeFacts
        DEF Rows, AtWork

LEMMA ConfigRemoval ==
    ASSUME NEW o, o.kind = "config", o.at \in 1..4, NEW k, WillRemove(o, k)
    PROVE  k.prefix = "config" /\ o.key = k
<1>1. \A n \in 1..4 : \A i \in n..0 : FALSE
  OBVIOUS
<1>2. \A i \in o.at..Len(Invalidated("config")) : FALSE
  BY <1>1, Lists
<1> QED BY <1>2 DEF WillRemove

\* What a writer will remove is owed by it.
LEMMA OwedEntries ==
    ASSUME Inv, NEW q \in Requests, NEW k \in Keys, WillRemove(req[q], k)
    PROVE  Writing(q) /\ k \in Owed(req[q])
<1>1. PICK o : o = req[q]
  OBVIOUS
<1>2. o.at \in 1..4 /\ Writing(q)
  BY <1>1, WorkerRow DEF WillRemove, AtWork, Writing
<1>3. CASE o.kind = "config"
  BY <1>1, <1>2, <1>3, ConfigRemoval DEF Owed
<1>4. CASE o.kind # "config"
  BY <1>1, <1>2, <1>4 DEF WillRemove, Owed
<1> QED BY <1>2, <1>3, <1>4

LEMMA FinishStep ==
    ASSUME Inv, NEW q \in Requests, DeleteConfig(q) \/ WriteDone(q) \/ WriteFails(q)
    PROVE  Inv'
<1>0. PICK o : o = req[q]
  OBVIOUS
<1>1. /\ o.pc \in AtWork /\ Become(q, Idle)
      /\ UNCHANGED <<config, version, now, podium, requests>> /\ faults' \in 0..MaxFaults
  BY <1>0, TypeFacts, CacheAssumption
  DEF DeleteConfig, WriteDone, WriteFails, Writing, Leave, AtWork, Fault, cacheVars
<1>2. o \in RequestRow /\ Shape(o) /\ o.kind \in Writers /\ o.at \in 1..4
  BY <1>0, <1>1, WorkerRow
<1>3. Idle.kind = "none" /\ Shape(Idle) /\ Idle \in Rows
  BY IdleShape, IdleIsIdle
<1>4. ASSUME CacheOK',
             \A k \in Keys : cache'[k].hit /\ ~cache'[k].overtaken =>
                 cache'[k] = cache[k] /\ ~WillRemove(o, k)
      PROVE  Inv'
  BY <1>0, <1>1, <1>3, <1>4, InvalidationMoves
<1>5. CASE DeleteConfig(q)
  <2>1. o.kind = "config" /\ Delete({o.key})
    BY <1>0, <1>5 DEF DeleteConfig
  <2>2. /\ CacheOK'
        /\ \A k \in Keys : cache'[k].hit => k # o.key /\ cache'[k] = cache[k]
    BY <2>1, DeletedType, TypeFacts
  <2> QED BY <1>2, <1>4, <2>1, <2>2, ConfigRemoval
<1>6. CASE WriteDone(q)
  <2>1. /\ o.kind # "config" /\ o.at > Len(Invalidated(o.kind)) /\ cache' = cache
    BY <1>0, <1>6 DEF WriteDone, cacheVars
  <2>2. \A k \in Keys : ~WillRemove(o, k)
    BY <1>2, <2>1 DEF WillRemove
  <2> QED BY <1>4, <2>1, <2>2, TypeFacts DEF CacheOK
<1>7. CASE WriteFails(q)
  <2>1. Abandon(Owed(o))
    BY <1>0, <1>7 DEF WriteFails
  <2>2. /\ CacheOK'
        /\ \A k \in Keys : cache'[k].hit /\ ~cache'[k].overtaken =>
               k \notin Owed(o) /\ cache'[k] = cache[k]
    BY <2>1, Abandoned, TypeFacts
  <2>3. \A k \in Keys : WillRemove(o, k) => k \in Owed(o)
    BY <1>0, OwedEntries
  <2> QED BY <1>4, <2>2, <2>3
<1> QED BY <1>5, <1>6, <1>7

-----------------------------------------------------------------------------
(* Steps that touch every request *)

LEMMA OutdatedRow ==
    ASSUME NEW o \in RequestRow, NEW r, r = [o EXCEPT !.outdated = TRUE], Shape(o)
    PROVE  /\ r \in Rows /\ Shape(r) /\ r.outdated = TRUE
           /\ \A k : WillRemove(o, k) => WillRemove(r, k)
<1>1. r \in RequestRow
  <2>1. PICK b \in BOOLEAN : b = TRUE
    OBVIOUS
  <2> QED BY <2>1, RowWith
<1>2. /\ r.pc = o.pc /\ r.kind = o.kind /\ r.key = o.key /\ r.at = o.at /\ r.keys = o.keys
      /\ r.outdated = TRUE
  BY DEF RequestRow
<1>3. Shape(r)
  BY <1>2 DEF Shape
<1>4. \A k : WillRemove(o, k) => WillRemove(r, k)
  BY <1>2 DEF WillRemove
<1> QED BY <1>1, <1>2, <1>3, <1>4 DEF Rows

\* One setting is written: the others stand.
LEMMA SettingWritten ==
    ASSUME Inv, NEW of \in ConfigKeys, NEW value \in ConfigValues(of),
           config' = [config EXCEPT ![of] = value], UNCHANGED version
    PROVE  /\ config' \in [ConfigKeys -> Nat \cup {NULL}]
           /\ \A k \in Keys : k # Key("config", of) => Source(k)' = Source(k)
<1>1. config' \in [ConfigKeys -> Nat \cup {NULL}]
  <2>1. value \in Nat \cup {NULL}
    BY CacheAssumption DEF ConfigValues
  <2> QED BY <2>1, TypeFacts
<1>2. \A k \in Keys : k.prefix = "config" /\ k.of = of => k = Key("config", of)
  BY DEF Key, Keys
<1>3. ASSUME NEW k \in Keys, k # Key("config", of) PROVE Source(k)' = Source(k)
  <2>1. CASE k.prefix = "config"
    BY <1>2, <1>3, <2>1, TypeFacts DEF Source, Keys
  <2>2. CASE k.prefix # "config"
    BY <2>2 DEF Source
  <2> QED BY <2>1, <2>2
<1> QED BY <1>1, <1>3

\* The decisions that rested on it are outdated, the others stand.
LEMMA SettingOutdates ==
    ASSUME Inv, NEW of \in ConfigKeys, NEW value \in ConfigValues(of),
           config' = [config EXCEPT ![of] = value], UNCHANGED now,
           NEW x \in Requests, req'[x] = Outdated(x, of, value)
    PROVE  /\ req'[x] \in Rows /\ Shape(req[x])' /\ Decides(req[x])'
           /\ \A k : WillRemove(req[x], k) => WillRemove(req'[x], k)
<1>1. PICK key : key = Key("config", of)
  OBVIOUS
<1>2. key \in Keys /\ key.prefix = "config" /\ key.of = of
  BY <1>1 DEF Key, Keys
<1>3. /\ req'[x] \in Rows /\ Shape(req'[x])
      /\ \A k : WillRemove(req[x], k) => WillRemove(req'[x], k)
      /\ \/ req'[x].outdated = TRUE
         \/ req'[x] = req[x] /\ (req[x].key = key => value = config[of])
  <2>1. CASE req[x].key = key /\ value # config[of]
    <3>1. req[x] \in RequestRow
      BY <1>2, <2>1, TypeFacts, ReadModelsAssumption, IdleIsIdle DEF Rows
    <3>2. req'[x] = [req[x] EXCEPT !.outdated = TRUE]
      BY <1>1, <2>1 DEF Outdated
    <3>3. Shape(req[x])
      BY DEF Inv, RowsInv
    <3>4. PICK o, r : o = req[x] /\ r = req'[x]
      OBVIOUS
    <3> QED BY <3>1, <3>2, <3>3, <3>4, OutdatedRow
  <2>2. CASE ~(req[x].key = key /\ value # config[of])
    <3>1. req'[x] = req[x]
      BY <1>1, <2>2 DEF Outdated
    <3> QED BY <2>2, <3>1, TypeFacts DEF Inv, RowsInv
  <2> QED BY <2>1, <2>2
<1>4. PICK y : y = req'[x]
  OBVIOUS
<1>5. CASE req'[x].outdated = TRUE
  <2>1. Shape(y) /\ y.outdated = TRUE
    BY <1>3, <1>4, <1>5
  <2>2. Shape(req[x])' /\ Decides(req[x])'
    BY <1>4, <2>1 DEF Shape, Decides
  <2> QED BY <1>3, <2>2
<1>6. CASE req'[x] = req[x] /\ (req[x].key = key => value = config[of])
  <2>1. Shape(y) /\ Decides(y) /\ (y.key = key => value = config[of])
    BY <1>4, <1>6 DEF Inv, RowsInv
  <2>2. y.kind \in Deciders => config'[y.key.of] = config[y.key.of]
    <3>1. CASE of = y.key.of /\ y.kind \in Deciders
      BY <1>1, <2>1, <3>1, TypeFacts, KeyTypes DEF Shape, DeciderKey
    <3>2. CASE of # y.key.of
      BY <3>2, TypeFacts
    <3> QED BY <3>1, <3>2
  <2>3. y.kind = "podium" => config'["podium_deadline"] = config["podium_deadline"]
    BY <2>1, <2>2, KeyTypes DEF Shape, DeciderKey, Deciders
  <2>4. y.kind \in {"predictions", "results"} =>
            config'["reveal_predictions"] = config["reveal_predictions"]
    BY <2>1, <2>2, KeyTypes DEF Shape, DeciderKey, Deciders
  <2>5. y.pc = "loading" => (Current(y.key, y.answer)' <=> Current(y.key, y.answer))
    BY <2>1, <2>4, KeyTypes DEF Shape, DeciderKey, Deciders, Current, Source
  <2>6. Decides(y)'
    BY <2>1, <2>3, <2>4, <2>5 DEF Decides, InTime, Visible, Started
  <2>7. Decides(req[x])'
    BY <1>4, <2>6 DEF Decides
  <2>8. Shape(req[x])'
    BY <1>4, <2>1 DEF Shape
  <2> QED BY <1>3, <2>7, <2>8
<1> QED BY <1>3, <1>5, <1>6

LEMMA SaveConfigStep ==
    ASSUME Inv, NEW q \in Requests, SaveConfig(q)
    PROVE  Inv'
<1>0. PICK of \in ConfigKeys : \E value \in ConfigValues(of) :
         /\ config' = [config EXCEPT ![of] = value]
         /\ req' = [x \in Requests |->
                IF x = q
                THEN [Idle EXCEPT !.kind = "config", !.pc = "saved", !.at = 1, !.key = Key("config", of)]
                ELSE Outdated(x, of, value)]
  BY DEF SaveConfig
<1>1. PICK value \in ConfigValues(of) :
         /\ config' = [config EXCEPT ![of] = value]
         /\ req' = [x \in Requests |->
                IF x = q
                THEN [Idle EXCEPT !.kind = "config", !.pc = "saved", !.at = 1, !.key = Key("config", of)]
                ELSE Outdated(x, of, value)]
  BY <1>0
<1>2. PICK key : key = Key("config", of)
  OBVIOUS
<1>3. key \in Keys /\ key.prefix = "config" /\ key.of = of
  BY <1>2 DEF Key, Keys
<1>5. PICK new : new = [Idle EXCEPT !.kind = "config", !.pc = "saved", !.at = 1, !.key = key]
  OBVIOUS
<1>6. new \in RequestRow
  BY <1>3, <1>5, ConfigRow
<1>7. new.kind = "config" /\ new.pc = "saved" /\ new.at = 1 /\ new.key = key
  BY <1>5 DEF Idle
<1>8. Shape(new)
  BY <1>3, <1>7 DEF Shape, AtWork, Readers, Deciders, Writers
<1>9. /\ Arrives(q) /\ req[q].pc = "idle" /\ requests' \in 0..MaxRequests
      /\ UNCHANGED <<version, cache, faults, now, podium>>
  BY ArrivesFree DEF SaveConfig
<1>10. req'[q] = new
  BY <1>1, <1>2, <1>5
<1>11. \A x \in Requests : x # q => req'[x] = Outdated(x, of, value)
  BY <1>1
<1>12. /\ config' \in [ConfigKeys -> Nat \cup {NULL}]
       /\ \A k \in Keys : k # key => Source(k)' = Source(k)
  BY <1>1, <1>2, <1>9, SettingWritten
<1>13. ASSUME NEW x \in Requests, x # q
       PROVE  /\ req'[x] \in Rows /\ Shape(req[x])' /\ Decides(req[x])'
              /\ \A k : WillRemove(req[x], k) => WillRemove(req'[x], k)
  BY <1>1, <1>9, <1>11, <1>13, SettingOutdates
<1>14. Typed'
  <2>1. \A x \in Requests : req'[x] \in Rows
    BY <1>6, <1>10, <1>13 DEF Rows
  <2>2. req' \in [Requests -> Rows]
    BY <1>1, <2>1
  <2> QED BY <1>9, <1>12, <2>2, TypeFacts, TypeNext DEF CacheOK
<1>15. Shape(req[q])' /\ Decides(req[q])'
  <2>1. PICK y : y = req'[q]
    OBVIOUS
  <2>2. Shape(y) /\ y.kind = "config" /\ y.pc = "saved"
    BY <1>7, <1>8, <1>10, <2>1
  <2> QED BY <2>1, <2>2 DEF Shape, Decides
<1>16. WillRemove(new, key)
  BY <1>3, <1>7 DEF WillRemove, AtWork
<1>17. \A x \in Requests, k \in Keys : WillRemove(req[x], k) => WillRemove(req'[x], k)
  BY <1>9, <1>13 DEF WillRemove, AtWork
<1>18. RemovalsInv'
  <2> SUFFICES ASSUME NEW k \in Keys, cache'[k].hit, ~cache'[k].overtaken
               PROVE  \/ cache'[k].answer = {Source(k)'}
                      \/ \E x \in Requests : WillRemove(req'[x], k)
    BY DEF RemovalsInv, Current
  <2>1. CASE k = key
    BY <1>10, <1>16, <2>1
  <2>2. CASE k # key
    <3>1. Current(k, cache[k].answer) \/ \E x \in Requests : WillRemove(req[x], k)
      BY <1>9 DEF Inv, RemovalsInv
    <3> QED BY <1>9, <1>12, <1>17, <2>2, <3>1 DEF Current
  <2> QED BY <2>1, <2>2
<1>19. RowsInv'
  BY <1>13, <1>15 DEF RowsInv
<1> QED BY <1>14, <1>18, <1>19 DEF Inv

LEMMA CrashStep ==
    ASSUME Inv, Crash
    PROVE  Inv'
<1> DEFINE lost == UNION {Owed(req[x]) : x \in {y \in Requests : Writing(y)}}
<1>1. /\ Abandon(lost) /\ req' = [x \in Requests |-> Idle] /\ faults' \in 0..MaxFaults
      /\ UNCHANGED <<config, version, now, podium, requests>>
  BY TypeFacts, CacheAssumption DEF Crash, Fault
<1>2. ASSUME NEW x \in Requests, NEW k \in Keys, WillRemove(req[x], k)
      PROVE  k \in lost
  BY <1>2, OwedEntries
<1> HIDE DEF lost
<1>3. /\ CacheOK'
      /\ \A k \in Keys : cache'[k].hit /\ ~cache'[k].overtaken =>
             k \notin lost /\ cache'[k] = cache[k]
  BY <1>1, Abandoned, TypeFacts
<1>4. \A x \in Requests : req'[x] = Idle
  BY <1>1
<1>5. RowsInv'
  <2>1. ASSUME NEW x \in Requests PROVE Shape(req[x])' /\ Decides(req[x])'
    <3>1. req'[x].pc = "idle" /\ req'[x].kind = "none" /\ Shape(req'[x])
      BY <1>4, IdleIsIdle, IdleShape
    <3> QED BY <3>1 DEF Shape, Decides
  <2> QED BY <2>1 DEF RowsInv
<1>6. Typed'
  <2>1. req' \in [Requests -> Rows]
    BY <1>1, IdleShape
  <2> QED BY <1>1, <1>3, <2>1, TypeFacts, TypeNext
<1>7. RemovalsInv'
  <2> SUFFICES ASSUME NEW k \in Keys, cache'[k].hit, ~cache'[k].overtaken
               PROVE  cache'[k].answer = {Source(k)'}
    BY DEF RemovalsInv, Current
  <2>1. k \notin lost /\ cache'[k] = cache[k]
    BY <1>3
  <2>2. Current(k, cache[k].answer)
    BY <1>2, <2>1 DEF Inv, RemovalsInv
  <2> QED BY <1>1, <2>1, <2>2 DEF Current, Source
<1> QED BY <1>5, <1>6, <1>7 DEF Inv

LEMMA TickStep ==
    ASSUME Inv, Tick
    PROVE  Inv'
<1>1. /\ now' = now + 1 /\ now' \in 0..MaxTime
      /\ req' = [x \in Requests |-> IF req[x].kind = "podium"
                                    THEN [req[x] EXCEPT !.outdated = TRUE] ELSE req[x]]
      /\ UNCHANGED <<config, version, cache, faults, podium, requests>>
  BY TypeFacts, CacheAssumption DEF Tick, cacheVars
<1>2. ASSUME NEW x \in Requests
      PROVE  /\ req'[x] \in Rows /\ Shape(req'[x])
             /\ \A k : WillRemove(req[x], k) => WillRemove(req'[x], k)
             /\ req'[x].outdated = TRUE \/ (req'[x] = req[x] /\ req[x].kind # "podium")
  <2>1. CASE req[x].kind = "podium"
    <3>1. req[x] \in RequestRow
      BY <2>1, TypeFacts, IdleIsIdle DEF Rows
    <3>2. req'[x] = [req[x] EXCEPT !.outdated = TRUE]
      BY <1>1, <2>1
    <3>3. Shape(req[x])
      BY DEF Inv, RowsInv
    <3>4. PICK o, r : o = req[x] /\ r = req'[x]
      OBVIOUS
    <3> QED BY <3>1, <3>2, <3>3, <3>4, OutdatedRow
  <2>2. CASE req[x].kind # "podium"
    <3>1. req'[x] = req[x]
      BY <1>1, <2>2
    <3> QED BY <2>2, <3>1, TypeFacts DEF Inv, RowsInv
  <2> QED BY <2>1, <2>2
<1>3. Typed'
  <2>1. req' \in [Requests -> Rows]
    BY <1>1, <1>2
  <2> QED BY <1>1, <2>1, TypeFacts, TypeNext DEF CacheOK
<1>4. ASSUME NEW x \in Requests PROVE Shape(req[x])' /\ Decides(req[x])'
  <2>1. PICK y : y = req'[x]
    OBVIOUS
  <2>2. CASE req'[x].outdated = TRUE
    <3>1. Shape(y) /\ y.outdated = TRUE
      BY <1>2, <2>1, <2>2
    <3> QED BY <2>1, <3>1 DEF Shape, Decides
  <2>3. CASE req'[x] = req[x] /\ req[x].kind # "podium"
    <3>1. Shape(y) /\ Decides(y) /\ y.kind # "podium"
      BY <2>1, <2>3 DEF Inv, RowsInv
    <3>2. Started => Started'
      BY <1>1, TypeFacts, ReadModelsAssumption DEF Started
    <3>3. y.pc = "loading" => y.key.prefix = "config"
      BY <3>1, KeyTypes DEF Shape, DeciderKey, Deciders
    <3>4. y.pc = "loading" => (Current(y.key, y.answer)' <=> Current(y.key, y.answer))
      BY <1>1, <3>3 DEF Current, Source
    <3>5. Decides(y)'
      BY <1>1, <3>1, <3>2, <3>4 DEF Decides, Visible
    <3> QED BY <2>1, <3>1, <3>5 DEF Shape, Decides
  <2> QED BY <1>2, <2>2, <2>3
<1>5. RowsInv'
  BY <1>4 DEF RowsInv
<1>6. RemovalsInv'
  <2> SUFFICES ASSUME NEW k \in Keys, cache'[k].hit, ~cache'[k].overtaken
               PROVE  \/ cache'[k].answer = {Source(k)'}
                      \/ \E x \in Requests : WillRemove(req'[x], k)
    BY DEF RemovalsInv, Current
  <2>1. Current(k, cache[k].answer) \/ \E x \in Requests : WillRemove(req[x], k)
    BY <1>1 DEF Inv, RemovalsInv
  <2> QED BY <1>1, <1>2, <2>1 DEF Current, Source
<1> QED BY <1>3, <1>5, <1>6 DEF Inv

LEMMA ExpireStep ==
    ASSUME Inv, NEW key \in Keys, ExpireSome(key)
    PROVE  Inv'
<1>1. /\ Delete({key})
      /\ UNCHANGED <<config, version, faults, now, podium, req, requests>>
  BY DEF ExpireSome, Expire
<1>2. /\ CacheOK'
      /\ \A k \in Keys : cache'[k].hit => cache'[k] = cache[k]
  BY <1>1, DeletedType, TypeFacts
<1>3. Typed'
  BY <1>1, <1>2, TypeFacts, TypeNext
<1>4. RowsInv'
  BY <1>1 DEF Inv, RowsInv, Shape, Decides, InTime, Visible, Started, Current, Source
<1>5. RemovalsInv'
  BY <1>1, <1>2 DEF Inv, RemovalsInv, Current, Source
<1> QED BY <1>3, <1>4, <1>5 DEF Inv

-----------------------------------------------------------------------------
(* The scripts *)

\* The rows of a table change; what is cached of them is marked.
LEMMA TableChanges ==
    ASSUME Inv, NEW t \in Tables, ChangeOnly(t), UNCHANGED <<config, faults, now, podium, req>>,
           requests' \in 0..MaxRequests
    PROVE  Inv'
<1> DEFINE ks == {k \in Keys : k.prefix # "config" /\ Table(k) = t}
<1>1. /\ version' \in [Tables -> Nat]
      /\ \A k \in Keys : Source(k)' = Source(k) \/ k \in ks
  BY Committed, TypeFacts DEF ChangeOnly
<1>2. Abandon(ks)
  BY DEF ChangeOnly
<1> HIDE DEF ks
<1>3. /\ CacheOK'
      /\ \A k \in Keys : cache'[k].hit /\ ~cache'[k].overtaken => k \notin ks /\ cache'[k] = cache[k]
  BY <1>2, Abandoned, TypeFacts
<1>4. Typed'
  BY <1>1, <1>3, TypeFacts, TypeNext
<1>5. RowsInv'
  <2>1. ASSUME NEW x \in Requests PROVE Shape(req[x])' /\ Decides(req[x])'
    <3>1. PICK y : y = req[x]
      OBVIOUS
    <3>2. Shape(y) /\ Decides(y)
      BY <3>1 DEF Inv, RowsInv
    <3>3. Decides(y)'
      BY <3>2, DecidesStands
    <3>4. Decides(req[x])'
      BY <3>1, <3>3 DEF Decides
    <3> QED BY <3>1, <3>2, <3>4 DEF Shape
  <2> QED BY <2>1 DEF RowsInv
<1>6. RemovalsInv'
  BY <1>1, <1>3 DEF Inv, RemovalsInv, Current
<1> QED BY <1>4, <1>5, <1>6 DEF Inv

\* The seed writes a setting; what is cached of it is marked.
LEMMA SettingStep ==
    ASSUME Inv, NEW of \in ConfigKeys, NEW missing, NEW saved, SaveSetting(of, missing, saved)
    PROVE  Inv'
<1>1. PICK value \in Defaults(of) :
         /\ config' = [config EXCEPT ![of] = value]
         /\ req' = [x \in Requests |-> Outdated(x, of, value)]
         /\ Abandon(IF value = config[of] THEN {} ELSE {Key("config", of)})
  BY DEF SaveSetting
<1>2. value \in ConfigValues(of)
  BY DEF Defaults, ConfigValues
<1>3. UNCHANGED <<version, faults, now, podium, requests>>
  BY DEF SaveSetting, SeedStep
<1>4. PICK ks : ks = IF value = config[of] THEN {} ELSE {Key("config", of)}
  OBVIOUS
<1>5. /\ CacheOK'
      /\ \A k \in Keys : cache'[k].hit /\ ~cache'[k].overtaken => k \notin ks /\ cache'[k] = cache[k]
  BY <1>1, <1>4, Abandoned, TypeFacts
<1>6. /\ config' \in [ConfigKeys -> Nat \cup {NULL}]
      /\ \A k \in Keys : k # Key("config", of) => Source(k)' = Source(k)
  BY <1>1, <1>2, <1>3, SettingWritten
<1>7. value = config[of] => config' = config
  BY <1>1, TypeFacts
<1>8. \A k \in Keys : k \notin ks => Source(k)' = Source(k)
  BY <1>3, <1>4, <1>6, <1>7 DEF Source
<1>9. ASSUME NEW x \in Requests
      PROVE  /\ req'[x] \in Rows /\ Shape(req[x])' /\ Decides(req[x])'
             /\ \A k : WillRemove(req[x], k) => WillRemove(req'[x], k)
  <2>1. req'[x] = Outdated(x, of, value)
    BY <1>1
  <2> QED BY <1>1, <1>2, <1>3, <2>1, SettingOutdates
<1>10. Typed'
  <2>1. req' \in [Requests -> Rows]
    BY <1>1, <1>9
  <2> QED BY <1>3, <1>5, <1>6, <2>1, TypeFacts, TypeNext
<1>11. RowsInv'
  BY <1>9 DEF RowsInv
<1>12. RemovalsInv'
  <2> SUFFICES ASSUME NEW k \in Keys, cache'[k].hit, ~cache'[k].overtaken
               PROVE  \/ cache'[k].answer = {Source(k)'}
                      \/ \E x \in Requests : WillRemove(req'[x], k)
    BY DEF RemovalsInv, Current
  <2>1. cache'[k] = cache[k] /\ Source(k)' = Source(k)
    BY <1>5, <1>8
  <2>2. Current(k, cache[k].answer) \/ \E x \in Requests : WillRemove(req[x], k)
    BY <2>1 DEF Inv, RemovalsInv
  <2> QED BY <1>9, <2>1, <2>2 DEF Current
<1> QED BY <1>10, <1>11, <1>12 DEF Inv

\* A step that leaves all but the script's own place alone.
LEMMA Stands ==
    ASSUME Inv, UNCHANGED <<cacheVars, now, podium, req, requests>>
    PROVE  Inv'
<1>1. CacheOK' /\ Typed'
  BY TypeFacts, TypeNext DEF cacheVars, CacheOK
<1>2. RowsInv'
  BY DEF Inv, cacheVars, RowsInv, Shape, Decides, InTime, Visible, Started, Current, Source
<1>3. RemovalsInv'
  BY DEF Inv, cacheVars, RemovalsInv, Current, Source
<1> QED BY <1>1, <1>2, <1>3 DEF Inv

LEMMA ScriptStep ==
    ASSUME Inv, ScriptNext
    PROVE  Inv'
<1>1. CASE SaveGroups \/ SaveTeams \/ SaveMatches
  <2>1. PICK t \in {"teams", "matches"} :
          ChangeOnly(t) /\ UNCHANGED <<config, faults, now, podium, req>>
    BY <1>1 DEF SaveGroups, SaveTeams, SaveMatches, SaveRows, SeedStep
  <2>2. requests' \in 0..MaxRequests
    BY <1>1, TypeFacts, ReadModelsAssumption DEF SaveGroups, SaveTeams, SaveMatches, OneMore
  <2> QED BY <2>1, <2>2, TableChanges DEF Tables
<1>2. CASE MassSeed
  <2>1. ChangeOnly("users") /\ UNCHANGED <<config, faults, now, podium, req>>
        /\ requests' \in 0..MaxRequests
    BY <1>2, TypeFacts, ReadModelsAssumption DEF MassSeed, OneMore
  <2> QED BY <2>1, TableChanges DEF Tables
<1>3. ASSUME NEW of \in ConfigKeys, NEW from, NEW missing, NEW found, FindSetting(of, from, missing, found)
      PROVE  Inv'
  <2>1. UNCHANGED <<cacheVars, now, podium, req, requests>>
    BY <1>3 DEF FindSetting, SeedStep
  <2> QED BY <2>1, Stands
<1>4. CASE SeedSettings
  BY <1>3, <1>4, SettingStep DEF SeedSettings, ConfigKeys
<1> QED BY <1>1, <1>2, <1>4 DEF ScriptNext

-----------------------------------------------------------------------------
(* The specification *)

\* Typed, the shape of the requests, what their decisions are worth and who removes
\* an entry that is not true are inductive.
THEOREM CacheInductive == Spec => []Inv
<1>1. ASSUME Inv, [Next]_vars PROVE Inv'
  <2>1. CASE UNCHANGED vars
    BY <1>1, <2>1, Stands DEF vars
  <2>2. ASSUME NEW q \in Requests, RequestNext(q) PROVE Inv'
    BY <1>1, <2>2, AskStep, HitStep, FillStep, LookupStep, LoadStep, DecidedStep, SaveStep, JobStep,
       ScanStep, DeleteStep, SaveConfigStep, FinishStep
    DEF RequestNext
  <2>3. CASE ServerNext
    BY <1>1, <2>2, <2>3, ExpireStep, TickStep, CrashStep DEF ServerNext
  <2> QED BY <1>1, <2>1, <2>3, ScriptStep DEF Next
<1> QED BY <1>1, InitInv, PTL DEF Spec

Staged == script \in SeedStages

LEMMA SeedStagesKept == Spec => []Staged
<1>1. Init => Staged
  BY DEF Init, SeedStages, Staged
<1>2. ASSUME Staged, [Next]_vars PROVE Staged'
  <2>1. CASE UNCHANGED script
    BY <1>2, <2>1 DEF Staged
  <2>2. CASE ScriptNext /\ script' # script
    BY <2>2 DEF Staged, ScriptNext, SaveGroups, SaveTeams, SaveMatches, SaveRows, SeedSettings, FindSetting,
       SaveSetting, SeedStep, MassSeed, SeedStages
  <2> QED BY <1>2, <2>1, <2>2 DEF Next, vars
<1> QED BY <1>1, <1>2, PTL DEF Spec

\* Types: Redis and PostgreSQL hold what the model says, and every request and the
\* seed are at one of the points of their code.
THEOREM CacheTypes == Spec => []TypeOK
<1>1. Inv /\ Staged => TypeOK
  BY DEF Inv, Typed, Rows, TypeOK, Staged
<1> QED BY <1>1, CacheInductive, SeedStagesKept, PTL

\* A cached answer that is not true was outdated when it was written, or a failure
\* kept its deletion from being made, or a script changed its rows; any other is about
\* to be deleted by a request (cache.service.ts, its callers and the scripts).
THEOREM CachedAnswersAgree == Spec => []CacheAgrees
<1>1. ASSUME Inv PROVE CacheAgrees
  BY <1>1, OwedEntries DEF CacheAgrees, Inv, RemovalsInv, BeingRemoved
<1> QED BY <1>1, CacheInductive, PTL

\* The goals of the others are shown only when the flag or the kick-off allows it,
\* unless the flag was set, or an old entry was read, meanwhile.
THEOREM GoalsStayHidden == Spec => []GoalsHidden
<1>1. ASSUME Inv PROVE GoalsHidden
  BY <1>1 DEF Inv, RowsInv, Decides, GoalsHidden, Visible
<1> QED BY <1>1, CacheInductive, PTL

\* A podium changes only before the deadline in force, but for a request that the
\* deadline overtook (updateUser of users.service.ts).
THEOREM PodiumsClose == Spec => PodiumClosed
<1>1. ASSUME Inv, [Next]_vars
      PROVE  [\A u \in Players : podium'[u] # podium[u] =>
                 \/ config["podium_deadline"] = NULL
                 \/ now < config["podium_deadline"]
                 \/ \E q \in Requests : req[q].player = u /\ req[q].outdated]_vars
  <2> SUFFICES ASSUME NEW u \in Players, podium'[u] # podium[u],
                      \A q \in Requests : ~(req[q].player = u /\ req[q].outdated)
               PROVE  InTime(config["podium_deadline"])
    BY DEF InTime
  <2>1. podium' # podium
    OBVIOUS
  <2>2. PICK q \in Requests : SavePodium(q)
    BY <1>1, <2>1 DEF Next, RequestNext, AskList, AskPodium, AskReveal, AskPredictions, AskResults, Hit,
       Missed, Query, Fill, ReadFails, LoadResults, ShowPredictions, FindPodium, PodiumConflicts, Save,
       ScoreJob, ScanPrefix, DeletePrefix, SaveConfig, DeleteConfig, WriteDone, WriteFails, ExpireSome,
       Tick, Crash, vars, ServerNext, ScriptNext, SaveGroups, SaveTeams, SaveMatches, SaveRows, SeedStep,
       SeedSettings, FindSetting, SaveSetting, MassSeed
  <2>3. req[q].pc \in {"new", "found"} /\ podium' = [podium EXCEPT ![req[q].player] = req[q].choice]
    BY <2>2 DEF SavePodium
  <2>4. req[q].player = u
    BY <1>1, <2>3, TypeFacts
  <2>5. ~req[q].outdated /\ req[q].kind = "podium"
    BY <1>1, <2>3, <2>4 DEF Inv, RowsInv, Shape
  <2> QED BY <1>1, <2>3, <2>5 DEF Inv, RowsInv, Decides
<1> QED BY <1>1, CacheInductive, PTL DEF Spec, PodiumClosed
=============================================================================
