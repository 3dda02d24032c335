------------------------------ MODULE MCScoring ------------------------------
(***************************************************************************)
(* The functions that only compute, each on every argument within bounds:  *)
(* the points of a prediction, a page of the two lists of users, the       *)
(* seeded tournament.                                                      *)
(***************************************************************************)
EXTENDS Scoring, Ranking, Fixtures

CONSTANTS
    MaxGoals,   \* bound: the goals either side may score or be predicted
    MaxTotal    \* bound: the total score of a user

ASSUME BoundsAssumption == MaxGoals \in Nat /\ MaxTotal \in Nat

VARIABLES
    call,     \* the function called and its arguments
    answer    \* what it returned, NULL before it has

vars == <<call, answer>>

Goals == 0..MaxGoals

Numbers == -1..(PageMax + 1)   \* page and limit, either side of both clamps

PointsCall ==
    [op : {"calculatePoints"}, predLocal : Goals \cup {NULL}, predVisitor : Goals \cup {NULL},
     realLocal : Goals, realVisitor : Goals]

RankingCall ==
    [op : {"getRanking"}, table : [Users -> [is_active : BOOLEAN, total : 0..MaxTotal]],
     page : Numbers \cup {NaN}, limit : Numbers \cup {NaN}, user : Users]

ListCall ==
    [op : {"listForAdmin"}, table : [Users -> [is_active : BOOLEAN, role : {"admin", "user"}]],
     page : 1..(PageMax + 1), limit : (1..PageMax) \cup {DefaultLimit}, found : SUBSET Users,
     status : {"active", "inactive", "all"}, role : {"admin", "user", "any"}]

SeedCall == [op : {"seed"}]

Init ==
    /\ answer = NULL
    /\ call \in PointsCall \cup RankingCall \cup ListCall \cup SeedCall

Return(op, returned) ==
    /\ answer = NULL
    /\ call.op = op
    /\ answer' = returned
    /\ UNCHANGED call

Next ==
    \/ Return("calculatePoints",
              CalculatePoints(call.predLocal, call.predVisitor, call.realLocal, call.realVisitor))
    \/ Return("getRanking", GetRanking(call.table, call.page, call.limit, call.user))
    \/ Return("listForAdmin", ListForAdmin(call.table, call.page, call.limit, call.found,
                                           call.status, call.role))
    \/ Return("seed", Seeded)

Spec == Init /\ [][Next]_vars

Answered(op) == answer # NULL /\ call.op = op

\* The points follow the table of the README (src/README.md "Sistema de
\* Puntuacion"), worked out case by case: 7 for the exact score, 3 for another
\* draw, 2 plus a right goal for the right winner, a right goal otherwise.
FollowsTable ==
    Answered("calculatePoints") =>
        answer.total = ReferencePoints(call.predLocal, call.predVisitor,
                                       call.realLocal, call.realVisitor)

\* The script that seeds test users repeats the rules in SQL ("same formula",
\* seed-mass-users.ts): both give every prediction the same points.
SqlAgrees ==
    Answered("calculatePoints") =>
        answer.total = MassTotal(call.predLocal, call.predVisitor, call.realLocal, call.realVisitor)

\* Whatever a list is asked for, each user it selects is on exactly one of its
\* pages, the one that the users ahead of him leave him; the pages up to
\* totalPages, and no others, have someone (getRanking, listForAdmin).
PagesPartition ==
    \A op \in {"getRanking", "listForAdmin"} : Answered(op) /\ ~answer.failed =>
        LET listed == IF op = "getRanking" THEN Active(call.table)
                      ELSE Selected(call.table, call.found, call.status, call.role)
            ahead(u) == {v \in listed : IF op = "getRanking" THEN RanksBefore(call.table, v, u)
                                        ELSE v > u}
            onPage(u) == Cardinality(ahead(u)) \div answer.limit + 1
        IN /\ {answer.data[i] : i \in DOMAIN answer.data} = {u \in listed : onPage(u) = answer.page}
           /\ Cardinality(DOMAIN answer.data) <= answer.limit
           /\ answer.page <= answer.totalPages <=> answer.data # <<>>

\* The position a caller is told is the place of the first user with his total
\* in the whole list: users who are level share it, and it lies on his own page
\* or an earlier one (getRanking, getUserRankPosition).
PositionIsRank ==
    Answered("getRanking") /\ ~answer.failed =>
        IF call.user \notin Active(call.table) THEN answer.currentUser = 0
        ELSE /\ \A i \in DOMAIN answer.data :
                  LET place == Offset(answer.page, answer.limit) + i
                  IN call.table[answer.data[i]].total > call.table[call.user].total
                     <=> place < answer.currentUser
             /\ answer.currentUser \in 1..answer.total

Meet(m) == {m.local_team_id, m.visiting_team_id}

OfGroup(matches, g) == {m \in matches : m.group_code = g}

Latest(matches) == {m \in matches : \A k \in matches : k.match_date <= m.match_date}

\* In a group every two teams meet exactly once, the last two matches are played
\* at once, after all the others, and no team plays twice within two days.
GroupPlaysFair(matches, g) ==
    /\ Cardinality(matches) = 6
    /\ \A i, j \in 1..4 : i < j => \E m \in matches : Meet(m) = {<<g, i>>, <<g, j>>}
    /\ Cardinality(Latest(matches)) = 2
    /\ \A m, k \in matches : m # k /\ Meet(m) \cap Meet(k) # {} =>
          m.match_date - k.match_date \notin -2880..2880

\* Every phase is over before the next one starts.
PhasesFollow(matches) ==
    LET phases == <<"group", "round_of_32", "round_of_16", "quarter", "semi",
                    "third_place", "final">>
    IN \A i \in 1..6 : \A m, k \in matches :
           m.phase = phases[i] /\ k.phase = phases[i + 1] => m.match_date < k.match_date

\* The podium closes when the last quarterfinal has begun and no semifinal has
\* ("antes de semifinales", seed.service.ts).
PodiumClosesInTime(matches) ==
    \A m \in matches : /\ m.phase = "quarter" => m.match_date < PodiumDeadline
                       /\ m.phase = "semi" => PodiumDeadline < m.match_date

\* The tournament that seed.service.ts inserts can be played and guessed: its
\* dates and pairings are literals nobody derives from a rule.
SeedIsPlayable ==
    Answered("seed") =>
        /\ \A g \in Groups : GroupPlaysFair(OfGroup(answer, g), g)
        /\ PhasesFollow(answer)
        /\ PodiumClosesInTime(answer)
=============================================================================
