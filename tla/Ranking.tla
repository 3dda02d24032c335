------------------------------ MODULE Ranking ------------------------------
(***************************************************************************)
(* The paged lists of users: getRanking with the caller's own position,    *)
(* and listForAdmin (users.service.ts). A table gives each user his row;   *)
(* a user's number stands for his nickname, and for the order in which     *)
(* the accounts were created. Each query of a call reads the same table.   *)
(***************************************************************************)
EXTENDS Integers, FiniteSets, Sequences

CONSTANTS
    Users,          \* the accounts, numbered by nickname
    NaN,            \* what parseInt makes of a text that is no number
    PageMax,        \* bound: the longest page, 100 in the code
    DefaultLimit    \* bound: the page listForAdmin gives unasked, 20 in the code

ASSUME RankingAssumption ==
    /\ Users \subseteq Nat
    /\ IsFiniteSet(Users)
    /\ NaN \notin Int
    /\ PageMax \in Nat \ {0}
    /\ DefaultLimit \in 1..PageMax

\* Math.max(1, page)
SafePage(page) == IF page < 1 THEN 1 ELSE page

\* Math.min(Math.max(1, limit), 100)
SafeLimit(limit) == IF limit < 1 THEN 1 ELSE IF limit > PageMax THEN PageMax ELSE limit

Active(table) == {u \in Users : table[u].is_active}

\* ORDER BY (u.score + u.podium_score) DESC, u.nickname ASC
RanksBefore(table, u, v) ==
    \/ table[u].total > table[v].total
    \/ table[u].total = table[v].total /\ u < v

ByRank(table) == {p \in Users \X Users : RanksBefore(table, p[1], p[2])}

\* ORDER BY u.created_at DESC
NewestFirst == {p \in Users \X Users : p[1] > p[2]}

\* The rows a query returns: its users, each before those the order puts after.
InOrder(users, order) ==
    CHOOSE rows \in [1..Cardinality(users) -> users] :
        \A i, j \in DOMAIN rows : i < j => <<rows[i], rows[j]>> \in order

Offset(page, limit) == (page - 1) * limit

\* OFFSET ... LIMIT ...
Page(rows, page, limit) ==
    LET from == Offset(page, limit)
        to == IF from + limit < Len(rows) THEN from + limit ELSE Len(rows)
    IN SubSeq(rows, from + 1, to)

\* MUTANT of TotalPages: a last page that is not full does not count.
TotalPagesFull(total, limit) == total \div limit

\* Math.ceil(total / safeLimit)
TotalPages(total, limit) == (total + limit - 1) \div limit

\* MUTANT of Higher: those who share the total are counted too.
HigherOrEqual(table, user) ==
    {u \in Active(table) \ {user} : table[u].total >= table[user].total}

Higher(table, user) == {u \in Active(table) : table[u].total > table[user].total}

\* getUserRankPosition; 0 stands for null, an account that is not active.
Position(table, user) ==
    IF user \in Active(table) THEN Cardinality(Higher(table, user)) + 1 ELSE 0

\* TypeORM refuses an OFFSET or a LIMIT that is not a number.
BadPaging == [failed |-> TRUE]

Listing(rows, page, limit, position) ==
    [failed |-> FALSE, data |-> Page(rows, page, limit), total |-> Len(rows), page |-> page,
     limit |-> limit, totalPages |-> TotalPages(Len(rows), limit), currentUser |-> position]

GetRanking(table, page, limit, user) ==
    IF NaN \in {page, limit} THEN BadPaging
    ELSE Listing(InOrder(Active(table), ByRank(table)),
                 SafePage(page), SafeLimit(limit), Position(table, user))

\* The accounts listForAdmin selects; found is what the search term matches.
Selected(table, found, status, role) ==
    {u \in found :
        /\ status = "all" \/ table[u].is_active = (status = "active")
        /\ role = "any" \/ table[u].role = role}

\* The DTO lets neither text nor a number out of range in, and gives 1 and the
\* default for what is not asked.
ListForAdmin(table, page, limit, found, status, role) ==
    Listing(InOrder(Selected(table, found, status, role), NewestFirst),
            SafePage(page), SafeLimit(limit), 0)
=============================================================================
