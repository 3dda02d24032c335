--------------------------- MODULE ScoringProofs ---------------------------
(***************************************************************************)
(* What the scoring function returns, for every number of goals, and that  *)
(* every call of it answers so; what the lists of players return, for any  *)
(* users, totals and paging; and that the seeded tournament can be played. *)
(***************************************************************************)
EXTENDS MCScoring, FiniteSetTheorems, SequenceTheorems, TLAPS

\* calculatePoints implements the table of the README, for all goals.
THEOREM PointsFollowTable ==
    ASSUME NEW p \in Nat \cup {NULL}, NEW q \in Nat \cup {NULL}, NEW l \in Nat, NEW v \in Nat
    PROVE  PointsTotal(p, q, l, v) = ReferencePoints(p, q, l, v)
<1>1. CASE p = NULL \/ q = NULL
  BY <1>1 DEF PointsTotal, CalculatePoints, NoPoints, ReferencePoints
<1>2. CASE p # NULL /\ q # NULL
  BY <1>2, NullAssumption DEF PointsTotal, CalculatePoints, ReferencePoints, SameOutcome, IsExact,
     BothDraws, DrawBonus, Sign, Winner,
     GoalsRight
<1> QED BY <1>1, <1>2

\* "max 7 pts/partido": no prediction earns more than 7 points, and only the
\* exact score earns 7 (scoring.ts).
THEOREM SevenIsExact ==
    ASSUME NEW p \in Nat \cup {NULL}, NEW q \in Nat \cup {NULL}, NEW l \in Nat, NEW v \in Nat
    PROVE  /\ PointsTotal(p, q, l, v) \in {0, 1, 2, 3, 7}
           /\ PointsTotal(p, q, l, v) = 7 <=> p = l /\ q = v
<1>1. CASE p = NULL \/ q = NULL
  BY <1>1, NullAssumption DEF PointsTotal, CalculatePoints, NoPoints
<1>2. CASE p # NULL /\ q # NULL
  BY <1>2, NullAssumption DEF PointsTotal, CalculatePoints, SameOutcome, IsExact,
     BothDraws, DrawBonus, Sign
<1> QED BY <1>1, <1>2

LEMMA PointsInNat ==
    ASSUME NEW p \in Nat \cup {NULL}, NEW q \in Nat \cup {NULL}, NEW l \in Nat, NEW v \in Nat
    PROVE  PointsTotal(p, q, l, v) \in 0..7
  BY SevenIsExact

\* The SQL of the test users' script and calculatePoints are the same function.
THEOREM SqlIsCalculatePoints ==
    ASSUME NEW p \in Nat \cup {NULL}, NEW q \in Nat \cup {NULL}, NEW l \in Nat, NEW v \in Nat
    PROVE  PointsTotal(p, q, l, v) = MassTotal(p, q, l, v)
<1>1. CASE p = NULL \/ q = NULL
  BY <1>1 DEF PointsTotal, CalculatePoints, NoPoints, MassTotal
<1>2. CASE p # NULL /\ q # NULL
  BY <1>2, NullAssumption DEF PointsTotal, CalculatePoints, SameOutcome, IsExact, BothDraws,
     DrawBonus, Sign, MassTotal, MassDraw
<1> QED BY <1>1, <1>2

\* Seen from the other side of the pitch the parts of the points change places.
LEMMA Mirrored ==
    ASSUME NEW p \in Nat \cup {NULL}, NEW q \in Nat \cup {NULL}, NEW l \in Nat, NEW v \in Nat
    PROVE  LET points == CalculatePoints(p, q, l, v)
               mirrored == CalculatePoints(q, p, v, l)
           IN /\ mirrored.total = points.total
              /\ mirrored.localScorePoints = points.visitorScorePoints
              /\ mirrored.visitorScorePoints = points.localScorePoints
<1>1. CASE p = NULL \/ q = NULL
  BY <1>1 DEF CalculatePoints, NoPoints
<1>2. CASE p # NULL /\ q # NULL
  BY <1>2, NullAssumption DEF CalculatePoints, SameOutcome, IsExact, BothDraws, DrawBonus, Sign
<1> QED BY <1>1, <1>2

-----------------------------------------------------------------------------
\* A call of calculatePoints has goals for arguments, and its answer is what the
\* function computes of them.
PointsAnswered ==
    call.op = "calculatePoints" =>
        /\ call \in PointsCall
        /\ answer \in {NULL, CalculatePoints(call.predLocal, call.predVisitor,
                                            call.realLocal, call.realVisitor)}

LEMMA AlwaysAnswered == Spec => []PointsAnswered
<1>1. Init => PointsAnswered
  BY DEF Init, PointsAnswered, PointsCall, RankingCall, ListCall, SeedCall
<1>2. PointsAnswered /\ [Next]_vars => PointsAnswered'
  <2> SUFFICES ASSUME PointsAnswered, [Next]_vars PROVE PointsAnswered'
    OBVIOUS
  <2>1. CASE UNCHANGED vars
    BY <2>1 DEF vars, PointsAnswered
  <2>2. CASE Return("calculatePoints", CalculatePoints(call.predLocal, call.predVisitor,
                                                       call.realLocal, call.realVisitor))
    BY <2>2 DEF Return, PointsAnswered
  <2>3. ASSUME NEW op \in {"getRanking", "listForAdmin", "seed"}, call.op = op, call' = call
        PROVE  PointsAnswered'
    BY <2>3 DEF PointsAnswered
  <2> QED BY <2>1, <2>2, <2>3 DEF Next, Return
<1> QED BY <1>1, <1>2, PTL DEF Spec

LEMMA CallsAreGoals ==
    ASSUME PointsAnswered, Answered("calculatePoints")
    PROVE  /\ call.predLocal \in Nat \cup {NULL} /\ call.predVisitor \in Nat \cup {NULL}
           /\ call.realLocal \in Nat /\ call.realVisitor \in Nat
           /\ answer = CalculatePoints(call.predLocal, call.predVisitor,
                                       call.realLocal, call.realVisitor)
  BY BoundsAssumption DEF PointsAnswered, Answered, PointsCall, Goals

\* Every call of calculatePoints is answered by the table of the README.
THEOREM AnswersFollowTable == Spec => []FollowsTable
<1>1. ASSUME PointsAnswered PROVE FollowsTable
  <2> SUFFICES ASSUME Answered("calculatePoints") PROVE FollowsTable
    BY DEF FollowsTable
  <2>1. PointsTotal(call.predLocal, call.predVisitor, call.realLocal, call.realVisitor)
        = ReferencePoints(call.predLocal, call.predVisitor, call.realLocal, call.realVisitor)
    BY <1>1, CallsAreGoals, PointsFollowTable
  <2> QED BY <1>1, <2>1, CallsAreGoals DEF FollowsTable, PointsTotal
<1> QED BY <1>1, AlwaysAnswered, PTL

\* Home and away play no part: a prediction seen from the other side of the
\* pitch earns the same total, with the two goal points exchanged.
SidesAreAlike ==
    Answered("calculatePoints") =>
        LET mirrored == CalculatePoints(call.predVisitor, call.predLocal,
                                        call.realVisitor, call.realLocal)
        IN /\ mirrored.total = answer.total
           /\ mirrored.localScorePoints = answer.visitorScorePoints
           /\ mirrored.visitorScorePoints = answer.localScorePoints

\* Home and away play no part in an answer.
THEOREM AnswersAreMirrored == Spec => []SidesAreAlike
<1>1. ASSUME PointsAnswered PROVE SidesAreAlike
  <2> SUFFICES ASSUME Answered("calculatePoints") PROVE SidesAreAlike
    BY DEF SidesAreAlike
  <2>1. LET points == CalculatePoints(call.predLocal, call.predVisitor, call.realLocal, call.realVisitor)
           mirrored == CalculatePoints(call.predVisitor, call.predLocal,
                                       call.realVisitor, call.realLocal)
       IN /\ mirrored.total = points.total
          /\ mirrored.localScorePoints = points.visitorScorePoints
          /\ mirrored.visitorScorePoints = points.localScorePoints
    BY <1>1, CallsAreGoals, Mirrored, ZenonT(30)
  <2> QED BY <1>1, <2>1, CallsAreGoals DEF SidesAreAlike
<1> QED BY <1>1, AlwaysAnswered, PTL

\* An answer of calculatePoints is what the SQL would have stored.
THEOREM AnswersAgreeWithSql == Spec => []SqlAgrees
<1>1. ASSUME PointsAnswered PROVE SqlAgrees
  <2> SUFFICES ASSUME Answered("calculatePoints") PROVE SqlAgrees
    BY DEF SqlAgrees
  <2>1. PointsTotal(call.predLocal, call.predVisitor, call.realLocal, call.realVisitor)
        = MassTotal(call.predLocal, call.predVisitor, call.realLocal, call.realVisitor)
    BY <1>1, CallsAreGoals, SqlIsCalculatePoints
  <2> QED BY <1>1, <2>1, CallsAreGoals DEF SqlAgrees, PointsTotal
<1> QED BY <1>1, AlwaysAnswered, PTL

-----------------------------------------------------------------------------
(* Rows in order, and their pages *)

\* Of two different users one comes first, and coming first is transitive.
StrictOrder(users, order) ==
    /\ \A u \in users : <<u, u>> \notin order
    /\ \A u, v, w \in users : <<u, v>> \in order /\ <<v, w>> \in order => <<u, w>> \in order
    /\ \A u, v \in users : u # v => <<u, v>> \in order \/ <<v, u>> \in order

\* Those who come before a user.
Ahead(users, order, u) == {v \in users : <<v, u>> \in order}

\* All but the user himself may be ahead of him.
LEMMA AheadCounted ==
    ASSUME NEW users, IsFiniteSet(users), NEW order, StrictOrder(users, order), NEW u \in users
    PROVE  /\ Cardinality(users) \in Nat
           /\ IsFiniteSet(Ahead(users, order, u))
           /\ Cardinality(Ahead(users, order, u)) \in 0..(Cardinality(users) - 1)
<1>1. Ahead(users, order, u) \in SUBSET users /\ u \notin Ahead(users, order, u)
  BY DEF Ahead, StrictOrder
<1>2. /\ IsFiniteSet(Ahead(users, order, u))
      /\ Cardinality(Ahead(users, order, u)) <= Cardinality(users)
      /\ Cardinality(users) # Cardinality(Ahead(users, order, u))
  BY <1>1, FS_Subset
<1>3. Cardinality(Ahead(users, order, u)) \in Nat /\ Cardinality(users) \in Nat
  BY <1>2, FS_CardinalityType
<1> QED BY <1>2, <1>3

\* Who comes first has fewer ahead of him.
LEMMA FewerAhead ==
    ASSUME NEW users, IsFiniteSet(users), NEW order, StrictOrder(users, order),
           NEW u \in users, NEW v \in users, <<u, v>> \in order
    PROVE  Cardinality(Ahead(users, order, u)) < Cardinality(Ahead(users, order, v))
<1>1. /\ Ahead(users, order, u) \in SUBSET Ahead(users, order, v)
      /\ u \notin Ahead(users, order, u) /\ u \in Ahead(users, order, v)
  BY DEF Ahead, StrictOrder
<1>2. IsFiniteSet(Ahead(users, order, v))
  BY AheadCounted
<1>3. /\ Cardinality(Ahead(users, order, u)) <= Cardinality(Ahead(users, order, v))
      /\ Cardinality(Ahead(users, order, u)) # Cardinality(Ahead(users, order, v))
  BY <1>1, <1>2, FS_Subset
<1>4. /\ Cardinality(Ahead(users, order, u)) \in Int
      /\ Cardinality(Ahead(users, order, v)) \in Int
  BY AheadCounted
<1> QED BY <1>3, <1>4

\* The users can be put in order: the number of those ahead gives each his place.
LEMMA RowsExist ==
    ASSUME NEW users, IsFiniteSet(users), NEW order, StrictOrder(users, order)
    PROVE  \E rows \in [1..Cardinality(users) -> users] :
               \A i, j \in DOMAIN rows : i < j => <<rows[i], rows[j]>> \in order
<1> DEFINE n == Cardinality(users)
           place == [u \in users |-> Cardinality(Ahead(users, order, u)) + 1]
<1>1. n \in Nat
  BY FS_CardinalityType
<1>2. \A u \in users : place[u] \in 1..n
  <2> SUFFICES ASSUME NEW u \in users PROVE place[u] \in 1..n
    OBVIOUS
  <2>1. Cardinality(Ahead(users, order, u)) \in 0..(n - 1)
    BY AheadCounted
  <2> QED BY <1>1, <2>1
<1>3. ASSUME NEW u \in users, NEW v \in users, <<u, v>> \in order PROVE place[u] < place[v]
  <2>1. Cardinality(Ahead(users, order, u)) < Cardinality(Ahead(users, order, v))
    BY <1>3, FewerAhead
  <2>2. /\ Cardinality(Ahead(users, order, u)) \in Int
        /\ Cardinality(Ahead(users, order, v)) \in Int
    BY AheadCounted
  <2> QED BY <2>1, <2>2
<1>4. place \in [users -> 1..n]
  BY <1>2
<1> HIDE DEF place
<1>5. ASSUME NEW u \in users, NEW v \in users, place[u] = place[v] PROVE u = v
  <2> SUFFICES ASSUME u # v PROVE FALSE
    OBVIOUS
  <2>1. <<u, v>> \in order \/ <<v, u>> \in order
    BY DEF StrictOrder
  <2>2. place[u] \in 1..n /\ place[v] \in 1..n
    BY <1>2
  <2> QED BY <1>3, <1>5, <2>1, <2>2
<1>6. place \in Injection(users, 1..n)
  BY <1>4, <1>5 DEF Injection, IsInjective
<1>7. IsFiniteSet(1..n) /\ Cardinality(1..n) = n
  BY <1>1, FS_Interval
<1>8. place \in Surjection(users, 1..n)
  BY <1>6, <1>7, FS_Injection
<1> DEFINE rows == [i \in 1..n |-> CHOOSE u \in users : place[u] = i]
<1>9. \A i \in 1..n : rows[i] \in users /\ place[rows[i]] = i
  BY <1>8 DEF Surjection
<1>10. rows \in [1..n -> users]
  BY <1>9
<1> HIDE DEF rows
<1>11. ASSUME NEW i \in 1..n, NEW j \in 1..n, i < j PROVE <<rows[i], rows[j]>> \in order
  <2>1. rows[i] # rows[j]
    BY <1>9, <1>11
  <2>2. CASE <<rows[j], rows[i]>> \in order
    BY <1>3, <1>9, <1>11, <2>2
  <2> QED BY <1>9, <2>1, <2>2 DEF StrictOrder
<1> QED BY <1>10, <1>11

\* The rows of a query are its users, each at the place that those ahead leave him.
LEMMA RowsInOrder ==
    ASSUME NEW users, IsFiniteSet(users), NEW order, StrictOrder(users, order),
           NEW rows, rows = InOrder(users, order)
    PROVE  /\ Cardinality(users) \in Nat
           /\ rows \in [1..Cardinality(users) -> users]
           /\ Len(rows) = Cardinality(users)
           /\ \A u \in users : \E i \in 1..Cardinality(users) : rows[i] = u
           /\ \A i \in 1..Cardinality(users) : Cardinality(Ahead(users, order, rows[i])) = i - 1
           /\ \A i, j \in 1..Cardinality(users) : i < j => <<rows[i], rows[j]>> \in order
<1> DEFINE n == Cardinality(users)
<1>1. n \in Nat
  BY FS_CardinalityType
<1>2. /\ rows \in [1..n -> users]
      /\ \A i, j \in DOMAIN rows : i < j => <<rows[i], rows[j]>> \in order
  BY RowsExist DEF InOrder
<1>3. ASSUME NEW i \in 1..n, NEW j \in 1..n, i < j PROVE <<rows[i], rows[j]>> \in order
  BY <1>2, <1>3
<1>4. ASSUME NEW i \in 1..n, NEW j \in 1..n, rows[i] = rows[j] PROVE i = j
  <2>1. rows[i] \in users /\ <<rows[i], rows[i]>> \notin order
    BY <1>2 DEF StrictOrder
  <2> QED BY <1>1, <1>3, <1>4, <2>1
<1>5. rows \in Injection(1..n, users)
  BY <1>2, <1>4 DEF Injection, IsInjective
<1>6. IsFiniteSet(1..n) /\ Cardinality(1..n) = n
  BY <1>1, FS_Interval
<1>7. rows \in Surjection(1..n, users)
  BY <1>5, <1>6, FS_Injection
<1>8. \A u \in users : \E i \in 1..n : rows[i] = u
  BY <1>7 DEF Surjection
<1>9. ASSUME NEW i \in 1..n PROVE Cardinality(Ahead(users, order, rows[i])) = i - 1
  <2> DEFINE first == [k \in 1..(i - 1) |-> rows[k]]
  <2>1. \A k \in 1..(i - 1) : k \in 1..n /\ k < i
    BY <1>1
  <2>2. \A k \in 1..(i - 1) : first[k] \in Ahead(users, order, rows[i])
    BY <1>2, <1>3, <2>1 DEF Ahead
  <2>3. ASSUME NEW u \in Ahead(users, order, rows[i])
        PROVE  \E k \in 1..(i - 1) : first[k] = u
    <3>1. PICK k \in 1..n : rows[k] = u
      BY <1>8 DEF Ahead
    <3>2. <<rows[k], rows[i]>> \in order
      BY <3>1 DEF Ahead
    <3>3. <<rows[i], rows[i]>> \notin order /\ rows[i] \in users /\ rows[k] \in users
      BY <1>2 DEF StrictOrder
    <3>4. ~(i < k)
      BY <1>3, <3>2, <3>3 DEF StrictOrder
    <3>5. k # i
      BY <3>2, <3>3
    <3>6. k \in 1..(i - 1)
      BY <1>1, <3>4, <3>5
    <3> QED BY <3>1, <3>6
  <2>4. first \in [1..(i - 1) -> Ahead(users, order, rows[i])]
    BY <2>2
  <2>5. \A k, l \in 1..(i - 1) : first[k] = first[l] => k = l
    BY <1>4, <2>1
  <2> HIDE DEF first
  <2>6. first \in Bijection(1..(i - 1), Ahead(users, order, rows[i]))
    BY <2>3, <2>4, <2>5 DEF Bijection, Injection, Surjection, IsInjective
  <2>7. i - 1 \in Nat
    BY <1>1
  <2> QED BY <2>6, <2>7, FS_CountingElements DEF ExistsBijection
<1>10. Len(rows) = n
  BY <1>1, <1>2
<1> QED BY <1>1, <1>2, <1>3, <1>8, <1>9, <1>10

\* The page on which the n users ahead of a user leave him.
LEMMA DivIs ==
    ASSUME NEW a \in Nat, NEW l \in Nat \ {0}, NEW q \in Nat
    PROVE  a \div l = q <=> q * l <= a /\ a < q * l + l
  OBVIOUS

LEMMA DivAtLeast ==
    ASSUME NEW a \in Nat, NEW l \in Nat \ {0}, NEW q \in Nat
    PROVE  q <= a \div l <=> q * l <= a
  OBVIOUS

\* What is on a page of the rows: as many of the users from its offset on as the
\* limit allows.
LEMMA PageRows ==
    ASSUME NEW users, NEW rows \in Seq(users), NEW page \in Nat \ {0}, NEW limit \in Nat \ {0}
    PROVE  LET data == Page(rows, page, limit)
               from == Offset(page, limit)
           IN /\ from \in Nat
              /\ DOMAIN data = {i \in 1..limit : from + i <= Len(rows)}
              /\ \A i \in DOMAIN data : data[i] = rows[from + i]
              /\ data # <<>> <=> from < Len(rows)
<1>a. PICK data : data = Page(rows, page, limit)
  OBVIOUS
<1>b. PICK n : n = Len(rows)
  OBVIOUS
<1>1. PICK from \in Nat : from = Offset(page, limit)
  BY DEF Offset
<1>2. PICK to \in Nat : to = IF from + limit < n THEN from + limit ELSE n
  BY <1>b
<1>3. n \in Nat
  BY <1>b
<1>4. data = SubSeq(rows, from + 1, to)
  BY <1>a, <1>b, <1>1, <1>2 DEF Page
<1>5. \A i \in (from + 1)..to : rows[i] \in users
  BY <1>b, <1>2
<1>6. /\ data \in Seq(users)
      /\ Len(data) = IF from + 1 <= to THEN to - (from + 1) + 1 ELSE 0
      /\ \A i \in 1..(to - (from + 1) + 1) : data[i] = rows[from + 1 + i - 1]
  BY <1>4, <1>5, SubSeqProperties
<1>7. DOMAIN data = 1..Len(data)
  BY <1>6
<1>8. Len(data) = IF from < to THEN to - from ELSE 0
  BY <1>6
<1>9. DOMAIN data = {i \in 1..limit : from + i <= n}
  BY <1>2, <1>3, <1>7, <1>8
<1>10. \A i \in DOMAIN data : data[i] = rows[from + i]
  <2> SUFFICES ASSUME NEW i \in DOMAIN data PROVE data[i] = rows[from + i]
    OBVIOUS
  <2>1. i \in Int /\ i \in 1..(to - (from + 1) + 1)
    BY <1>7, <1>8
  <2>2. from + 1 + i - 1 = from + i
    BY <2>1
  <2> QED BY <1>6, <2>1, <2>2
<1>11. data # <<>> <=> Len(data) # 0
  BY <1>6
<1>12. data # <<>> <=> from < n
  BY <1>2, <1>3, <1>8, <1>11
<1> QED BY <1>a, <1>b, <1>1, <1>9, <1>10, <1>12

\* What PagesPartition says of an answer, for rows where each user has the place
\* that those ahead leave him.
LEMMA PagesOfRows ==
    ASSUME NEW users, NEW order, NEW rows \in Seq(users),
           \A u \in users : \E i \in 1..Len(rows) : rows[i] = u,
           \A i \in 1..Len(rows) : Cardinality(Ahead(users, order, rows[i])) = i - 1,
           NEW page \in Nat \ {0}, NEW limit \in Nat \ {0}
    PROVE  LET data == Page(rows, page, limit)
           IN /\ {data[i] : i \in DOMAIN data} =
                     {u \in users : Cardinality(Ahead(users, order, u)) \div limit + 1 = page}
              /\ Cardinality(DOMAIN data) <= limit
              /\ page <= TotalPages(Len(rows), limit) <=> data # <<>>
<1>a. LET data == Page(rows, page, limit)
          from == Offset(page, limit)
      IN /\ from \in Nat
         /\ DOMAIN data = {i \in 1..limit : from + i <= Len(rows)}
         /\ \A i \in DOMAIN data : data[i] = rows[from + i]
         /\ data # <<>> <=> from < Len(rows)
  BY PageRows
<1>c. PICK data : data = Page(rows, page, limit)
  OBVIOUS
<1>1. PICK n \in Nat : n = Len(rows)
  OBVIOUS
<1>2. /\ \A i \in 1..n : rows[i] \in users
      /\ \A u \in users : \E i \in 1..n : rows[i] = u
      /\ \A i \in 1..n : Cardinality(Ahead(users, order, rows[i])) = i - 1
  BY <1>1
<1>b. PICK from \in Nat : from = Offset(page, limit)
  BY <1>a
<1>3. /\ DOMAIN data = {i \in 1..limit : from + i <= n}
      /\ \A i \in DOMAIN data : data[i] = rows[from + i]
      /\ data # <<>> <=> from < n
  BY <1>a, <1>b, <1>c, <1>1
<1>4. from = (page - 1) * limit
  BY <1>b DEF Offset
<1>5. ASSUME NEW k \in 1..n
      PROVE  (k - 1) \div limit + 1 = page <=> from < k /\ k <= from + limit
  <2>0. k - 1 \in Nat /\ page - 1 \in Nat
    BY <1>2
  <2>1. (k - 1) \div limit = page - 1
        <=> (page - 1) * limit <= k - 1 /\ k - 1 < (page - 1) * limit + limit
    BY <2>0, DivIs
  <2>2. PICK q \in Int : q = (k - 1) \div limit
    OBVIOUS
  <2> QED BY <1>3, <1>4, <2>1, <2>2
<1>6. ASSUME NEW i \in DOMAIN data
      PROVE  /\ data[i] \in users
             /\ Cardinality(Ahead(users, order, data[i])) \div limit + 1 = page
  <2>1. PICK k \in 1..n : k = from + i
    BY <1>3
  <2>2. data[i] = rows[k] /\ from < k /\ k <= from + limit
    BY <1>3, <2>1
  <2> QED BY <1>2, <1>5, <2>2
<1>7. ASSUME NEW u \in users, Cardinality(Ahead(users, order, u)) \div limit + 1 = page
      PROVE  \E i \in DOMAIN data : data[i] = u
  <2>1. PICK k \in 1..n : rows[k] = u
    BY <1>2
  <2>2. from < k /\ k <= from + limit
    BY <1>2, <1>5, <1>7, <2>1
  <2>3. PICK i \in 1..limit : i = k - from
    BY <1>3, <2>2
  <2>4. i \in DOMAIN data /\ from + i = k
    BY <1>3, <2>3
  <2> QED BY <1>3, <2>1, <2>4
<1>8. {data[i] : i \in DOMAIN data} =
          {u \in users : Cardinality(Ahead(users, order, u)) \div limit + 1 = page}
  BY <1>6, <1>7
<1>9. DOMAIN data \in SUBSET (1..limit)
  BY <1>3
<1>10. Cardinality(DOMAIN data) <= limit
  BY <1>9, FS_Interval, FS_Subset
<1>11. page <= TotalPages(n, limit) <=> from < n
  <2>1. page <= (n + limit - 1) \div limit <=> page * limit <= n + limit - 1
    <3>1. n + limit - 1 \in Nat
      BY <1>2
    <3> QED BY <3>1, DivAtLeast
  <2>2. page * limit = from + limit
    BY <1>4
  <2>3. n \in Int /\ page * limit \in Int /\ limit \in Int
    BY <1>2
  <2>4. page * limit <= n + limit - 1 <=> from < n
    BY <2>2, <2>3
  <2> QED BY <2>1, <2>4 DEF TotalPages
<1> QED BY <1>c, <1>1, <1>3, <1>8, <1>10, <1>11

-----------------------------------------------------------------------------
(* The two lists of users *)

Tables == [Users -> [is_active : BOOLEAN, total : 0..MaxTotal]]

LEMMA ByRankOrders ==
    ASSUME NEW table \in Tables
    PROVE  /\ StrictOrder(Active(table), ByRank(table)) /\ IsFiniteSet(Active(table))
           /\ \A u, v \in Active(table) : <<u, v>> \in ByRank(table) <=> RanksBefore(table, u, v)
<1>1. Active(table) \in SUBSET Users
  BY DEF Active
<1>2. \A u, v \in Active(table) : <<u, v>> \in ByRank(table) <=> RanksBefore(table, u, v)
  BY <1>1 DEF ByRank
<1>3. \A u \in Active(table) : u \in Nat /\ table[u].total \in Nat
  <2>1. 0..MaxTotal \subseteq Nat
    BY BoundsAssumption
  <2>2. \A u \in Users : u \in Nat /\ table[u].total \in 0..MaxTotal
    BY RankingAssumption DEF Tables
  <2> QED BY <1>1, <2>1, <2>2
<1>4. \A u \in Active(table) : ~RanksBefore(table, u, u)
  BY <1>3 DEF RanksBefore
<1>5. \A u, v, w \in Active(table) :
          RanksBefore(table, u, v) /\ RanksBefore(table, v, w) => RanksBefore(table, u, w)
  BY <1>3 DEF RanksBefore
<1>6. \A u, v \in Active(table) : u # v => RanksBefore(table, u, v) \/ RanksBefore(table, v, u)
  BY <1>3 DEF RanksBefore
<1>7. IsFiniteSet(Active(table))
  BY <1>1, RankingAssumption, FS_Subset
<1> QED BY <1>2, <1>4, <1>5, <1>6, <1>7 DEF StrictOrder

LEMMA NewestOrders ==
    ASSUME NEW users \in SUBSET Users
    PROVE  /\ StrictOrder(users, NewestFirst) /\ IsFiniteSet(users)
           /\ \A u, v \in users : <<u, v>> \in NewestFirst <=> u > v
<1>1. \A u, v \in users : <<u, v>> \in NewestFirst <=> u > v
  BY DEF NewestFirst
<1>2. \A u \in users : u \in Nat
  BY RankingAssumption
<1>3. StrictOrder(users, NewestFirst)
  BY <1>1, <1>2 DEF StrictOrder
<1> QED BY <1>1, <1>3, RankingAssumption, FS_Subset

LEMMA SafePaging ==
    ASSUME NEW page \in Int, NEW limit \in Int
    PROVE  SafePage(page) \in Nat \ {0} /\ SafeLimit(limit) \in Nat \ {0}
  BY RankingAssumption DEF SafePage, SafeLimit

\* A call of either list is one the program can make, and its answer is what the
\* function computes of it.
ListsAnswered ==
    /\ call.op = "getRanking" =>
          /\ call \in RankingCall
          /\ answer \in {NULL, GetRanking(call.table, call.page, call.limit, call.user)}
    /\ call.op = "listForAdmin" =>
          /\ call \in ListCall
          /\ answer \in {NULL, ListForAdmin(call.table, call.page, call.limit, call.found,
                                            call.status, call.role)}

LEMMA ListsAlwaysAnswered == Spec => []ListsAnswered
<1>1. Init => ListsAnswered
  BY DEF Init, ListsAnswered, PointsCall, RankingCall, ListCall, SeedCall
<1>2. ListsAnswered /\ [Next]_vars => ListsAnswered'
  <2> SUFFICES ASSUME ListsAnswered, [Next]_vars PROVE ListsAnswered'
    OBVIOUS
  <2>1. CASE UNCHANGED vars
    BY <2>1 DEF vars, ListsAnswered
  <2>2. CASE Return("getRanking", GetRanking(call.table, call.page, call.limit, call.user))
    BY <2>2 DEF Return, ListsAnswered
  <2>3. CASE Return("listForAdmin", ListForAdmin(call.table, call.page, call.limit, call.found,
                                                 call.status, call.role))
    BY <2>3 DEF Return, ListsAnswered
  <2>4. ASSUME NEW op \in {"calculatePoints", "seed"}, call.op = op, call' = call
        PROVE  ListsAnswered'
    BY <2>4 DEF ListsAnswered
  <2> QED BY <2>1, <2>2, <2>3, <2>4 DEF Next, Return
<1> QED BY <1>1, <1>2, PTL DEF Spec

\* An answer of getRanking that is no error is a listing of the active users.
LEMMA RankingListed ==
    ASSUME ListsAnswered, Answered("getRanking"), ~answer.failed
    PROVE  /\ call.table \in Tables /\ call.user \in Users
           /\ SafePage(call.page) \in Nat \ {0} /\ SafeLimit(call.limit) \in Nat \ {0}
           /\ answer = Listing(InOrder(Active(call.table), ByRank(call.table)),
                               SafePage(call.page), SafeLimit(call.limit),
                               Position(call.table, call.user))
<1>1. /\ call \in RankingCall
      /\ answer = GetRanking(call.table, call.page, call.limit, call.user)
  BY DEF ListsAnswered, Answered
<1>2. NaN \notin {call.page, call.limit}
  BY <1>1 DEF GetRanking, BadPaging
<1>3. call.table \in Tables /\ call.user \in Users
  BY <1>1 DEF RankingCall, Tables
<1>4. call.page \in Numbers /\ call.limit \in Numbers
  BY <1>1, <1>2 DEF RankingCall
<1>5. call.page \in Int /\ call.limit \in Int
  BY <1>4, RankingAssumption DEF Numbers
<1> QED BY <1>1, <1>2, <1>3, <1>5, SafePaging DEF GetRanking

LEMMA AdminListed ==
    ASSUME ListsAnswered, Answered("listForAdmin")
    PROVE  /\ Selected(call.table, call.found, call.status, call.role) \in SUBSET Users
           /\ SafePage(call.page) \in Nat \ {0} /\ SafeLimit(call.limit) \in Nat \ {0}
           /\ answer = Listing(InOrder(Selected(call.table, call.found, call.status, call.role),
                                       NewestFirst),
                               SafePage(call.page), SafeLimit(call.limit), 0)
<1>1. /\ call \in ListCall
      /\ answer = ListForAdmin(call.table, call.page, call.limit, call.found, call.status, call.role)
  BY DEF ListsAnswered, Answered
<1>2. call.found \in SUBSET Users
  BY <1>1 DEF ListCall
<1>3. call.page \in Int /\ call.limit \in Int
  BY <1>1, RankingAssumption DEF ListCall
<1>4. Selected(call.table, call.found, call.status, call.role) \in SUBSET Users
  BY <1>2 DEF Selected
<1> QED BY <1>1, <1>3, <1>4, SafePaging DEF ListForAdmin

\* What PagesPartition says of a listing of users in some order.
EachOnItsPage(listing, users, order) ==
    /\ {listing.data[i] : i \in DOMAIN listing.data} =
           {u \in users :
               Cardinality(Ahead(users, order, u)) \div listing.limit + 1 = listing.page}
    /\ Cardinality(DOMAIN listing.data) <= listing.limit
    /\ listing.page <= listing.totalPages <=> listing.data # <<>>

LEMMA ListingOfRows ==
    ASSUME NEW users, IsFiniteSet(users), NEW order, StrictOrder(users, order),
           NEW page \in Nat \ {0}, NEW limit \in Nat \ {0}, NEW position
    PROVE  EachOnItsPage(Listing(InOrder(users, order), page, limit, position), users, order)
<1>1. PICK rows : rows = InOrder(users, order)
  OBVIOUS
<1>2. /\ Cardinality(users) \in Nat
      /\ rows \in [1..Cardinality(users) -> users]
      /\ Len(rows) = Cardinality(users)
      /\ \A u \in users : \E i \in 1..Cardinality(users) : rows[i] = u
      /\ \A i \in 1..Cardinality(users) : Cardinality(Ahead(users, order, rows[i])) = i - 1
  BY <1>1, RowsInOrder
<1>3. /\ rows \in Seq(users)
      /\ \A u \in users : \E i \in 1..Len(rows) : rows[i] = u
      /\ \A i \in 1..Len(rows) : Cardinality(Ahead(users, order, rows[i])) = i - 1
  BY <1>2
<1>4. LET data == Page(rows, page, limit)
      IN /\ {data[i] : i \in DOMAIN data} =
                {u \in users : Cardinality(Ahead(users, order, u)) \div limit + 1 = page}
         /\ Cardinality(DOMAIN data) <= limit
         /\ page <= TotalPages(Len(rows), limit) <=> data # <<>>
  BY <1>3, PagesOfRows
<1>5. PICK listing : listing = Listing(rows, page, limit, position)
  OBVIOUS
<1>6. /\ listing.data = Page(rows, page, limit) /\ listing.limit = limit /\ listing.page = page
      /\ listing.totalPages = TotalPages(Len(rows), limit)
  BY <1>5 DEF Listing
<1>7. EachOnItsPage(listing, users, order)
  BY <1>4, <1>6 DEF EachOnItsPage
<1> QED BY <1>1, <1>5, <1>7

\* Each user a list selects is on exactly one of its pages, and the pages up to
\* totalPages, and no others, have someone, for any users, totals and paging
\* (getRanking, listForAdmin).
THEOREM ListsPartition == Spec => []PagesPartition
<1>1. ASSUME ListsAnswered PROVE PagesPartition
  <2>1. ASSUME Answered("getRanking"), ~answer.failed
        PROVE  LET listed == Active(call.table)
                   ahead(u) == {v \in listed : RanksBefore(call.table, v, u)}
                   onPage(u) == Cardinality(ahead(u)) \div answer.limit + 1
               IN /\ {answer.data[i] : i \in DOMAIN answer.data}
                         = {u \in listed : onPage(u) = answer.page}
                  /\ Cardinality(DOMAIN answer.data) <= answer.limit
                  /\ answer.page <= answer.totalPages <=> answer.data # <<>>
    <3> DEFINE listed == Active(call.table)
               order == ByRank(call.table)
    <3>1. /\ call.table \in Tables
          /\ SafePage(call.page) \in Nat \ {0} /\ SafeLimit(call.limit) \in Nat \ {0}
          /\ answer = Listing(InOrder(listed, order), SafePage(call.page), SafeLimit(call.limit),
                              Position(call.table, call.user))
      BY <1>1, <2>1, RankingListed
    <3>2. StrictOrder(listed, order) /\ IsFiniteSet(listed)
      BY <3>1, ByRankOrders
    <3>3. \A u, v \in listed : <<u, v>> \in order <=> RanksBefore(call.table, u, v)
      BY <3>1, ByRankOrders
    <3>4. EachOnItsPage(answer, listed, order)
      BY <3>1, <3>2, ListingOfRows
    <3> HIDE DEF listed, order
    <3>5. \A u \in listed : Ahead(listed, order, u) = {v \in listed : RanksBefore(call.table, v, u)}
      BY <3>3 DEF Ahead
    <3>6. {u \in listed :
              Cardinality(Ahead(listed, order, u)) \div answer.limit + 1 = answer.page}
          = {u \in listed : Cardinality({v \in listed : RanksBefore(call.table, v, u)})
                                \div answer.limit + 1 = answer.page}
      BY <3>5
    <3> QED BY <3>4, <3>6 DEF EachOnItsPage, listed
  <2>2. ASSUME Answered("listForAdmin"), ~answer.failed
        PROVE  LET listed == Selected(call.table, call.found, call.status, call.role)
                   ahead(u) == {v \in listed : v > u}
                   onPage(u) == Cardinality(ahead(u)) \div answer.limit + 1
               IN /\ {answer.data[i] : i \in DOMAIN answer.data}
                         = {u \in listed : onPage(u) = answer.page}
                  /\ Cardinality(DOMAIN answer.data) <= answer.limit
                  /\ answer.page <= answer.totalPages <=> answer.data # <<>>
    <3> DEFINE listed == Selected(call.table, call.found, call.status, call.role)
    <3>1. /\ listed \in SUBSET Users
          /\ SafePage(call.page) \in Nat \ {0} /\ SafeLimit(call.limit) \in Nat \ {0}
          /\ answer = Listing(InOrder(listed, NewestFirst),
                              SafePage(call.page), SafeLimit(call.limit), 0)
      BY <1>1, <2>2, AdminListed
    <3>2. StrictOrder(listed, NewestFirst) /\ IsFiniteSet(listed)
      BY <3>1, NewestOrders
    <3>3. \A u, v \in listed : <<u, v>> \in NewestFirst <=> u > v
      BY <3>1, NewestOrders
    <3> HIDE DEF listed
    <3>4. EachOnItsPage(answer, listed, NewestFirst)
      BY <3>1, <3>2, ListingOfRows
    <3>5. \A u \in listed : Ahead(listed, NewestFirst, u) = {v \in listed : v > u}
      BY <3>3 DEF Ahead
    <3>6. {u \in listed :
              Cardinality(Ahead(listed, NewestFirst, u)) \div answer.limit + 1 = answer.page}
          = {u \in listed : Cardinality({v \in listed : v > u}) \div answer.limit + 1 = answer.page}
      BY <3>5
    <3> QED BY <3>4, <3>6 DEF EachOnItsPage, listed
  <2> QED BY <2>1, <2>2 DEF PagesPartition
<1> QED BY <1>1, ListsAlwaysAnswered, PTL

\* The users with a higher total are the first of the rows.
LEMMA HigherComeFirst ==
    ASSUME NEW table \in Tables, NEW user \in Active(table), NEW rows,
           rows = InOrder(Active(table), ByRank(table))
    PROVE  /\ Len(rows) \in Nat
           /\ Cardinality(Higher(table, user)) \in 0..(Len(rows) - 1)
           /\ \A k \in 1..Len(rows) : table[rows[k]].total > table[user].total
                                      <=> k <= Cardinality(Higher(table, user))
<1> DEFINE users == Active(table)
           order == ByRank(table)
           higher == Higher(table, user)
<1>1. /\ StrictOrder(users, order) /\ IsFiniteSet(users)
      /\ \A u, v \in users : <<u, v>> \in order <=> RanksBefore(table, u, v)
  BY ByRankOrders
<1>2. \A u \in users : table[u].total \in Int
  <2>1. users \in SUBSET Users /\ 0..MaxTotal \subseteq Int
    BY BoundsAssumption DEF Active
  <2>2. \A u \in Users : table[u].total \in 0..MaxTotal
    BY DEF Tables
  <2> QED BY <2>1, <2>2
<1>3. \A u \in users : u \in higher <=> table[u].total > table[user].total
  BY DEF Higher
<1>4. higher \in SUBSET users /\ user \in users /\ user \notin higher
  BY <1>2 DEF Higher
<1>5. \A u, v \in users : table[v].total > table[u].total => <<v, u>> \in order
  BY <1>1 DEF RanksBefore
<1>6. \A u, v \in users : <<v, u>> \in order => table[v].total >= table[u].total
  BY <1>1, <1>2 DEF RanksBefore
<1> HIDE DEF users, order, higher
<1>7. /\ Cardinality(users) \in Nat /\ Cardinality(higher) \in Nat /\ IsFiniteSet(higher)
      /\ Cardinality(higher) <= Cardinality(users) /\ Cardinality(higher) # Cardinality(users)
  BY <1>1, <1>4, FS_Subset, FS_CardinalityType
<1>8. /\ rows \in [1..Cardinality(users) -> users]
      /\ Len(rows) = Cardinality(users)
      /\ \A i \in 1..Cardinality(users) : Cardinality(Ahead(users, order, rows[i])) = i - 1
  <2>1. rows = InOrder(users, order)
    BY DEF users, order
  <2> QED BY <1>1, <2>1, RowsInOrder
<1>9. ASSUME NEW k \in 1..Cardinality(users)
      PROVE  table[rows[k]].total > table[user].total <=> k <= Cardinality(higher)
  <2>1. PICK u \in users : u = rows[k]
    BY <1>8
  <2>2. PICK ahead : ahead = Ahead(users, order, u)
    OBVIOUS
  <2>3. IsFiniteSet(ahead) /\ Cardinality(ahead) = k - 1
    BY <1>1, <1>8, <2>1, <2>2, AheadCounted
  <2>4. CASE u \in higher
    <3>1. u \notin ahead /\ \A v \in ahead : v \in higher
      BY <1>1, <1>2, <1>3, <1>4, <1>6, <2>2, <2>4 DEF Ahead, StrictOrder
    <3>2. ahead \in SUBSET higher /\ ahead # higher
      BY <2>4, <3>1
    <3>3. Cardinality(ahead) <= Cardinality(higher) /\ Cardinality(ahead) # Cardinality(higher)
      BY <1>7, <3>2, FS_Subset
    <3>4. k <= Cardinality(higher)
      BY <1>7, <2>3, <3>3
    <3> QED BY <1>3, <2>1, <2>4, <3>4
  <2>5. CASE u \notin higher
    <3>1. \A v \in higher : v \in ahead
      BY <1>2, <1>3, <1>4, <1>5, <2>2, <2>5 DEF Ahead
    <3>2. Cardinality(higher) <= Cardinality(ahead)
      BY <2>3, <3>1, FS_Subset
    <3>3. ~(k <= Cardinality(higher))
      BY <1>7, <2>3, <3>2
    <3> QED BY <1>3, <2>1, <2>5, <3>3
  <2> QED BY <2>4, <2>5
<1>10. Cardinality(higher) \in 0..(Len(rows) - 1)
  BY <1>7, <1>8
<1> QED BY <1>7, <1>8, <1>9, <1>10 DEF higher

\* The position a caller is told is the place of the first user with his total,
\* for any users, totals and paging (getRanking, getUserRankPosition).
THEOREM PositionsAreRanks == Spec => []PositionIsRank
<1>1. ASSUME ListsAnswered PROVE PositionIsRank
  <2> SUFFICES ASSUME Answered("getRanking"), ~answer.failed PROVE PositionIsRank
    BY DEF PositionIsRank
  <2>1. PICK table, user, page, limit :
          /\ table = call.table /\ user = call.user
          /\ page = SafePage(call.page) /\ limit = SafeLimit(call.limit)
    OBVIOUS
  <2>2. PICK rows : rows = InOrder(Active(table), ByRank(table))
    OBVIOUS
  <2>3. /\ table \in Tables /\ page \in Nat \ {0} /\ limit \in Nat \ {0}
        /\ answer = Listing(rows, page, limit, Position(table, user))
    BY <1>1, <2>1, <2>2, RankingListed
  <2>4. /\ answer.data = Page(rows, page, limit) /\ answer.total = Len(rows)
        /\ answer.page = page /\ answer.limit = limit
        /\ answer.currentUser = Position(table, user)
    BY <2>3 DEF Listing
  <2>5. CASE user \notin Active(table)
    BY <2>1, <2>4, <2>5 DEF PositionIsRank, Position
  <2>6. CASE user \in Active(table)
    <3>1. PICK higher : higher = Cardinality(Higher(table, user))
      OBVIOUS
    <3>2. /\ Len(rows) \in Nat /\ higher \in 0..(Len(rows) - 1)
          /\ \A k \in 1..Len(rows) : table[rows[k]].total > table[user].total <=> k <= higher
      BY <2>2, <2>3, <2>6, <3>1, HigherComeFirst
    <3>3. answer.currentUser = higher + 1
      BY <2>4, <2>6, <3>1 DEF Position
    <3>4. rows \in Seq(Active(table))
      <4>1. /\ Cardinality(Active(table)) \in Nat
            /\ rows \in [1..Cardinality(Active(table)) -> Active(table)]
        BY <2>2, <2>3, ByRankOrders, RowsInOrder
      <4> QED BY <4>1
    <3>5. LET data == Page(rows, page, limit)
              from == Offset(page, limit)
          IN /\ from \in Nat
             /\ DOMAIN data = {i \in 1..limit : from + i <= Len(rows)}
             /\ \A i \in DOMAIN data : data[i] = rows[from + i]
             /\ data # <<>> <=> from < Len(rows)
      BY <2>3, <3>4, PageRows
    <3>6. ASSUME NEW i \in DOMAIN answer.data
          PROVE  table[answer.data[i]].total > table[user].total
                 <=> Offset(answer.page, answer.limit) + i < answer.currentUser
      <4>1. PICK k \in 1..Len(rows) : k = Offset(page, limit) + i
        BY <2>4, <3>2, <3>5
      <4>2. answer.data[i] = rows[k] /\ k = Offset(answer.page, answer.limit) + i
        BY <2>4, <3>5, <4>1
      <4>3. k <= higher <=> k < answer.currentUser
        BY <3>2, <3>3
      <4> QED BY <3>2, <4>2, <4>3
    <3>7. answer.currentUser \in 1..answer.total
      BY <2>4, <3>2, <3>3
    <3> QED BY <2>1, <2>6, <3>6, <3>7 DEF PositionIsRank
  <2> QED BY <2>5, <2>6
<1> QED BY <1>1, ListsAlwaysAnswered, PTL

-----------------------------------------------------------------------------
(* The seeded tournament *)

\* Kickoffs of a group: its rounds are more than two days apart, all of them
\* before the knockout matches.
RoundsApart(k) ==
    /\ \A n \in 1..5 : k[n] \in At(11,19,0)..At(28,2,0)
    /\ \A n \in {3, 4}, i \in {1, 2} : k[n] - k[i] > 2880
    /\ \A i \in 1..4 : k[5] - k[i] > 2880

LEMMA GroupDates == \A g \in Groups : RoundsApart(GroupKickoffs[g])
<1>1. RoundsApart(GroupKickoffs.A)
  BY DEF GroupKickoffs, At, RoundsApart
<1>2. RoundsApart(GroupKickoffs.B)
  BY DEF GroupKickoffs, At, RoundsApart
<1>3. RoundsApart(GroupKickoffs.C)
  BY DEF GroupKickoffs, At, RoundsApart
<1>4. RoundsApart(GroupKickoffs.D)
  BY DEF GroupKickoffs, At, RoundsApart
<1>5. RoundsApart(GroupKickoffs.E)
  BY DEF GroupKickoffs, At, RoundsApart
<1>6. RoundsApart(GroupKickoffs.F)
  BY DEF GroupKickoffs, At, RoundsApart
<1>7. RoundsApart(GroupKickoffs.G)
  BY DEF GroupKickoffs, At, RoundsApart
<1>8. RoundsApart(GroupKickoffs.H)
  BY DEF GroupKickoffs, At, RoundsApart
<1>9. RoundsApart(GroupKickoffs.I)
  BY DEF GroupKickoffs, At, RoundsApart
<1>10. RoundsApart(GroupKickoffs.J)
  BY DEF GroupKickoffs, At, RoundsApart
<1>11. RoundsApart(GroupKickoffs.K)
  BY DEF GroupKickoffs, At, RoundsApart
<1>12. RoundsApart(GroupKickoffs.L)
  BY DEF GroupKickoffs, At, RoundsApart
<1> QED
  BY <1>1, <1>2, <1>3, <1>4, <1>5, <1>6, <1>7, <1>8, <1>9, <1>10, <1>11, <1>12 DEF Groups

\* The first and the last kickoff of each phase.
PhaseFrom ==
    [group |-> At(11,19,0), round_of_32 |-> At(28,19,0), round_of_16 |-> At(34,17,0),
     quarter |-> At(39,20,0), semi |-> At(44,19,0), third_place |-> At(48,21,0),
     final |-> At(49,19,0)]

PhaseUntil ==
    [group |-> At(28,2,0), round_of_32 |-> At(34,1,30), round_of_16 |-> At(37,20,0),
     quarter |-> At(42,1,0), semi |-> At(45,19,0), third_place |-> At(48,21,0),
     final |-> At(49,19,0)]

LEMMA KnockoutDates ==
    ASSUME NEW p \in DOMAIN KnockoutKickoffs, NEW t \in KnockoutKickoffs[p]
    PROVE  t \in PhaseFrom[p]..PhaseUntil[p]
<1>1. p \in {"round_of_32", "round_of_16", "quarter", "semi", "third_place", "final"}
  BY DEF KnockoutKickoffs
<1>2. CASE p = "round_of_32"
  BY <1>2 DEF KnockoutKickoffs, PhaseFrom, PhaseUntil, At
<1>3. CASE p = "round_of_16"
  BY <1>3 DEF KnockoutKickoffs, PhaseFrom, PhaseUntil, At
<1>4. CASE p = "quarter"
  BY <1>4 DEF KnockoutKickoffs, PhaseFrom, PhaseUntil, At
<1>5. CASE p \in {"semi", "third_place", "final"}
  BY <1>5 DEF KnockoutKickoffs, PhaseFrom, PhaseUntil, At
<1> QED BY <1>1, <1>2, <1>3, <1>4, <1>5

\* A match of a group by its number, or a knockout match by its phase and kickoff.
LEMMA SeededMatches ==
    ASSUME NEW m \in Seeded
    PROVE  \/ \E g \in Groups, n \in 1..6 : m = GroupMatch(g, n)
           \/ /\ m.phase \in DOMAIN KnockoutKickoffs /\ m.group_code = "none"
              /\ m.match_date \in KnockoutKickoffs[m.phase]
  BY DEF Seeded

LEMMA SeededDates ==
    ASSUME NEW m \in Seeded
    PROVE  /\ m.phase \in DOMAIN PhaseFrom
           /\ m.match_date \in Int
           /\ m.match_date \in PhaseFrom[m.phase]..PhaseUntil[m.phase]
<1>1. CASE \E g \in Groups, n \in 1..6 : m = GroupMatch(g, n)
  <2>1. PICK g \in Groups, n \in 1..6 : m = GroupMatch(g, n)
    BY <1>1
  <2>2. PICK i \in 1..5 : m.match_date = GroupKickoffs[g][i]
    BY <2>1 DEF GroupMatch, GroupKickoff
  <2>3. m.phase = "group" /\ m.match_date \in At(11,19,0)..At(28,2,0)
    BY <2>1, <2>2, GroupDates DEF RoundsApart, GroupMatch
  <2>4. /\ "group" \in DOMAIN PhaseFrom
        /\ PhaseFrom["group"] = At(11,19,0) /\ PhaseUntil["group"] = At(28,2,0)
    BY DEF PhaseFrom, PhaseUntil
  <2>5. At(11,19,0) \in Int /\ At(28,2,0) \in Int
    BY DEF At
  <2> QED BY <2>3, <2>4, <2>5
<1>2. CASE /\ m.phase \in DOMAIN KnockoutKickoffs
           /\ m.match_date \in KnockoutKickoffs[m.phase]
  <2>1. m.match_date \in PhaseFrom[m.phase]..PhaseUntil[m.phase]
    BY <1>2, KnockoutDates
  <2> QED BY <1>2, <2>1 DEF KnockoutKickoffs, PhaseFrom
<1> QED BY <1>1, <1>2, SeededMatches

LEMMA SeededFollow == PhasesFollow(Seeded)
<1> DEFINE phases == <<"group", "round_of_32", "round_of_16", "quarter", "semi",
                       "third_place", "final">>
<1>1. ASSUME NEW i \in 1..6, NEW m \in Seeded, NEW k \in Seeded,
             m.phase = phases[i], k.phase = phases[i + 1]
      PROVE  m.match_date < k.match_date
  <2>1. PhaseUntil[phases[i]] < PhaseFrom[phases[i + 1]]
    BY DEF PhaseFrom, PhaseUntil, At
  <2>2. \A p \in DOMAIN PhaseFrom : PhaseFrom[p] \in Int /\ PhaseUntil[p] \in Int
    BY DEF PhaseFrom, PhaseUntil, At
  <2>3. m.match_date <= PhaseUntil[phases[i]] /\ PhaseFrom[phases[i + 1]] <= k.match_date
    BY <1>1, <2>2, SeededDates
  <2> HIDE DEF phases
  <2> QED BY <1>1, <2>1, <2>2, <2>3, SeededDates
<1> QED BY <1>1 DEF PhasesFollow

LEMMA PodiumInTime == PodiumClosesInTime(Seeded)
<1> SUFFICES ASSUME NEW m \in Seeded
             PROVE  /\ m.phase = "quarter" => m.match_date < PodiumDeadline
                    /\ m.phase = "semi" => PodiumDeadline < m.match_date
  BY DEF PodiumClosesInTime
<1> QED BY SeededDates DEF PhaseFrom, PhaseUntil, At, PodiumDeadline

-----------------------------------------------------------------------------
\* The places of the two teams of a group's match.
Meeting(g, n) == {Pairs(g)[n][1], Pairs(g)[n][2]}

\* Two matches of a round have no team in common; no two teams meet twice.
LEMMA GroupPairs ==
    ASSUME NEW g \in Groups
    PROVE  /\ \A n \in 1..6 : Pairs(g)[n][1] \in 1..4 /\ Pairs(g)[n][2] \in 1..4
           /\ \A n, i \in 1..6 : n # i => Meeting(g, n) # Meeting(g, i)
           /\ {Meeting(g, n) : n \in 1..6} = {{1,2}, {1,3}, {1,4}, {2,3}, {2,4}, {3,4}}
           /\ Meeting(g, 1) \cap Meeting(g, 2) = {}
           /\ Meeting(g, 3) \cap Meeting(g, 4) = {}
           /\ Meeting(g, 5) \cap Meeting(g, 6) = {}
<1>1. 1..6 = {1, 2, 3, 4, 5, 6}
  OBVIOUS
<1>2. /\ Pairs(g)[1] = <<1, 2>> /\ Pairs(g)[2] = <<3, 4>>
      /\ Pairs(g)[5] = <<4, 1>> /\ Pairs(g)[6] = <<2, 3>>
      /\ \/ Pairs(g)[3] = <<1, 3>> /\ Pairs(g)[4] = <<4, 2>>
         \/ Pairs(g)[3] = <<4, 2>> /\ Pairs(g)[4] = <<1, 3>>
  BY DEF Pairs
<1>3. /\ Meeting(g, 1) = {1, 2} /\ Meeting(g, 2) = {3, 4}
      /\ Meeting(g, 5) = {1, 4} /\ Meeting(g, 6) = {2, 3}
      /\ \/ Meeting(g, 3) = {1, 3} /\ Meeting(g, 4) = {2, 4}
         \/ Meeting(g, 3) = {2, 4} /\ Meeting(g, 4) = {1, 3}
  BY <1>2 DEF Meeting
<1>4. \A n \in 1..6 : Pairs(g)[n][1] \in 1..4 /\ Pairs(g)[n][2] \in 1..4
  BY <1>1, <1>2
<1>5. {Meeting(g, n) : n \in 1..6} = {{1,2}, {1,3}, {1,4}, {2,3}, {2,4}, {3,4}}
  BY <1>1, <1>3
<1>6. \A n, i \in 1..6 : n # i => Meeting(g, n) # Meeting(g, i)
  BY <1>1, <1>3
<1>7. /\ Meeting(g, 1) \cap Meeting(g, 2) = {}
      /\ Meeting(g, 3) \cap Meeting(g, 4) = {}
      /\ Meeting(g, 5) \cap Meeting(g, 6) = {}
  BY <1>3
<1> QED BY <1>4, <1>5, <1>6, <1>7

\* The six matches of a group, numbered; the last two are at once.
LEMMA MatchesOfGroup ==
    ASSUME NEW g \in Groups
    PROVE  /\ OfGroup(Seeded, g) = {GroupMatch(g, n) : n \in 1..6}
           /\ \A n \in 1..6 : /\ Meet(GroupMatch(g, n)) = {<<g, i>> : i \in Meeting(g, n)}
                              /\ GroupMatch(g, n).match_date = GroupKickoff(g, n)
                              /\ GroupKickoff(g, n) \in Int
           /\ \A n, i \in 1..6 : n # i => Meet(GroupMatch(g, n)) # Meet(GroupMatch(g, i))
<1>1. OfGroup(Seeded, g) \subseteq {GroupMatch(g, n) : n \in 1..6}
  <2>1. ASSUME NEW m \in Seeded, m.group_code = g
        PROVE  m \in {GroupMatch(g, n) : n \in 1..6}
    <3>1. g # "none"
      BY DEF Groups
    <3>2. PICK h \in Groups, n \in 1..6 : m = GroupMatch(h, n)
      BY <2>1, <3>1, SeededMatches
    <3>3. h = g
      BY <2>1, <3>2 DEF GroupMatch
    <3> QED BY <3>2, <3>3
  <2> QED BY <2>1 DEF OfGroup
<1>2. \A n \in 1..6 : GroupMatch(g, n) \in Seeded /\ GroupMatch(g, n).group_code = g
  BY DEF Seeded, GroupMatch
<1>3. ASSUME NEW n \in 1..6
      PROVE  /\ Meet(GroupMatch(g, n)) = {<<g, i>> : i \in Meeting(g, n)}
             /\ GroupMatch(g, n).match_date = GroupKickoff(g, n)
  BY DEF GroupMatch, Meet, Meeting
<1>4. ASSUME NEW n \in 1..6 PROVE GroupKickoff(g, n) \in Int
  <2>1. PICK i \in 1..5 : GroupKickoff(g, n) = GroupKickoffs[g][i]
    BY DEF GroupKickoff
  <2>2. At(11,19,0) \in Int /\ At(28,2,0) \in Int
    BY DEF At
  <2> QED BY <2>1, <2>2, GroupDates DEF RoundsApart
<1>5. ASSUME NEW n \in 1..6, NEW i \in 1..6, n # i
      PROVE  Meet(GroupMatch(g, n)) # Meet(GroupMatch(g, i))
  <2>1. Meeting(g, n) # Meeting(g, i)
    BY <1>5, GroupPairs
  <2>2. \A x : x \in Meeting(g, n) <=> <<g, x>> \in Meet(GroupMatch(g, n))
    BY <1>3
  <2>3. \A x : x \in Meeting(g, i) <=> <<g, x>> \in Meet(GroupMatch(g, i))
    BY <1>3
  <2> QED BY <2>1, <2>2, <2>3
<1>6. OfGroup(Seeded, g) = {GroupMatch(g, n) : n \in 1..6}
  BY <1>1, <1>2 DEF OfGroup
<1> QED BY <1>3, <1>4, <1>5, <1>6

LEMMA SixMatches ==
    ASSUME NEW g \in Groups
    PROVE  Cardinality({GroupMatch(g, n) : n \in 1..6}) = 6
<1> DEFINE M(n) == GroupMatch(g, n)
<1>1. \A n, i \in 1..6 : n # i => M(n) # M(i)
  BY MatchesOfGroup
<1> HIDE DEF M
<1>2. {M(n) : n \in 1..6} = {M(1)} \cup {M(2)} \cup {M(3)} \cup {M(4)} \cup {M(5)} \cup {M(6)}
  <2>1. 1..6 = {1, 2, 3, 4, 5, 6}
    OBVIOUS
  <2> QED BY <2>1
<1>3. IsFiniteSet({M(1)}) /\ Cardinality({M(1)}) = 1
  BY FS_Singleton
<1>4. LET S == {M(1)} \cup {M(2)} IN IsFiniteSet(S) /\ Cardinality(S) = 2
  BY <1>1, <1>3, FS_AddElement
<1>5. LET S == {M(1)} \cup {M(2)} \cup {M(3)} IN IsFiniteSet(S) /\ Cardinality(S) = 3
  BY <1>1, <1>4, FS_AddElement
<1>6. LET S == {M(1)} \cup {M(2)} \cup {M(3)} \cup {M(4)} IN IsFiniteSet(S) /\ Cardinality(S) = 4
  BY <1>1, <1>5, FS_AddElement
<1>7. LET S == {M(1)} \cup {M(2)} \cup {M(3)} \cup {M(4)} \cup {M(5)}
      IN IsFiniteSet(S) /\ Cardinality(S) = 5
  BY <1>1, <1>6, FS_AddElement
<1>8. Cardinality({M(1)} \cup {M(2)} \cup {M(3)} \cup {M(4)} \cup {M(5)} \cup {M(6)}) = 6
  BY <1>1, <1>7, FS_AddElement
<1>9. Cardinality({M(n) : n \in 1..6}) = 6
  BY <1>2, <1>8
<1> QED BY <1>9 DEF M

LEMMA SeededGroupsFair ==
    ASSUME NEW g \in Groups
    PROVE  GroupPlaysFair(OfGroup(Seeded, g), g)
<1> DEFINE D(n) == GroupKickoff(g, n)
           M(n) == GroupMatch(g, n)
<1>0. PICK of : of = OfGroup(Seeded, g)
  OBVIOUS
<1>1. of = {M(n) : n \in 1..6} /\ Cardinality(of) = 6
  BY <1>0, MatchesOfGroup, SixMatches
<1>2. \A n \in 1..6 : D(n) \in Int /\ M(n).match_date = D(n)
  BY MatchesOfGroup
<1>3. /\ \A n \in {3, 4}, i \in {1, 2} : D(n) - D(i) > 2880
      /\ \A i \in 1..4 : D(5) - D(i) > 2880
      /\ D(6) = D(5)
  BY GroupDates DEF RoundsApart, GroupKickoff
<1>4. \A n \in 1..6 : Meet(M(n)) = {<<g, i>> : i \in Meeting(g, n)}
  BY MatchesOfGroup
<1>5. \A n, i \in 1..6 : n # i => M(n) # M(i)
  BY MatchesOfGroup
<1>e. 1..6 = {1, 2, 3, 4, 5, 6} /\ 1..4 = {1, 2, 3, 4}
  OBVIOUS
<1> HIDE DEF D, M
<1>6. ASSUME NEW i \in 1..4, NEW j \in 1..4, i < j
      PROVE  \E m \in of : Meet(m) = {<<g, i>>, <<g, j>>}
  <2>1. {i, j} \in {{1,2}, {1,3}, {1,4}, {2,3}, {2,4}, {3,4}}
    BY <1>6, <1>e
  <2>2. PICK n \in 1..6 : Meeting(g, n) = {i, j}
    <3>1. {i, j} \in {Meeting(g, n) : n \in 1..6}
      BY <2>1, GroupPairs
    <3> QED BY <3>1
  <2>3. Meet(M(n)) = {<<g, i>>, <<g, j>>}
    BY <1>4, <2>2
  <2> QED BY <1>1, <2>3
<1>7. Cardinality(Latest(of)) = 2
  <2>1. \A n \in 1..6 : (\A i \in 1..6 : D(i) <= D(n)) <=> n \in {5, 6}
    BY <1>2, <1>3, <1>e
  <2>2. Latest(of) = {M(5)} \cup {M(6)}
    BY <1>1, <1>2, <2>1 DEF Latest
  <2>3. M(5) # M(6)
    BY <1>5
  <2>4. IsFiniteSet({M(5)}) /\ Cardinality({M(5)}) = 1
    BY FS_Singleton
  <2> QED BY <2>2, <2>3, <2>4, FS_AddElement
<1>8. ASSUME NEW m \in of, NEW k \in of, m # k, Meet(m) \cap Meet(k) # {}
      PROVE  m.match_date - k.match_date \notin -2880..2880
  <2>1. PICK n \in 1..6 : m = M(n)
    BY <1>1
  <2>2. PICK i \in 1..6 : k = M(i)
    BY <1>1
  <2>3. Meeting(g, n) \cap Meeting(g, i) # {}
    <3>1. PICK x : x \in Meet(m) /\ x \in Meet(k)
      BY <1>8
    <3> QED BY <1>4, <2>1, <2>2, <3>1
  <2>4. /\ n # i
        /\ <<n, i>> \notin {<<1, 2>>, <<2, 1>>, <<3, 4>>, <<4, 3>>, <<5, 6>>, <<6, 5>>}
    BY <1>8, <2>1, <2>2, <2>3, GroupPairs
  <2>5. D(n) - D(i) > 2880 \/ D(i) - D(n) > 2880
    BY <1>3, <1>e, <2>4
  <2>6. /\ m.match_date = D(n) /\ k.match_date = D(i)
        /\ D(n) \in Int /\ D(i) \in Int
    BY <1>2, <2>1, <2>2
  <2>7. D(n) - D(i) \notin -2880..2880
    <3>1. PICK a \in Int, b \in Int : a = D(n) /\ b = D(i)
      BY <2>6
    <3>2. a - b > 2880 \/ b - a > 2880
      BY <2>5, <3>1
    <3>3. a - b \notin -2880..2880
      BY <3>2
    <3> QED BY <3>1, <3>3
  <2> QED BY <2>6, <2>7
<1>9. \A m, k \in of : m # k /\ Meet(m) \cap Meet(k) # {} =>
          m.match_date - k.match_date \notin -2880..2880
  BY <1>8
<1>10. \A i, j \in 1..4 : i < j => \E m \in of : Meet(m) = {<<g, i>>, <<g, j>>}
  BY <1>6
<1>11. GroupPlaysFair(of, g)
  BY <1>1, <1>7, <1>9, <1>10 DEF GroupPlaysFair
<1> QED BY <1>0, <1>11

\* Whatever the seed is asked for, its matches can be played and guessed.
SeedAnswered ==
    /\ call \in PointsCall \cup RankingCall \cup ListCall \cup SeedCall
    /\ Answered("seed") => answer = Seeded

\* The tournament that seed.service.ts inserts can be played and guessed.
THEOREM SeedPlayable == Spec => []SeedIsPlayable
<1>1. Init => SeedAnswered
  BY DEF Init, SeedAnswered, Answered
<1>2. SeedAnswered /\ [Next]_vars => SeedAnswered'
  <2> SUFFICES ASSUME SeedAnswered, [Next]_vars PROVE SeedAnswered'
    OBVIOUS
  <2>1. CASE UNCHANGED vars
    BY <2>1 DEF vars, SeedAnswered, Answered
  <2>2. CASE Next
    BY <2>2 DEF Next, Return, SeedAnswered, Answered
  <2> QED BY <2>1, <2>2
<1>3. SeedAnswered => SeedIsPlayable
  BY SeededGroupsFair, SeededFollow, PodiumInTime DEF SeedAnswered, SeedIsPlayable
<1> QED BY <1>1, <1>2, <1>3, PTL DEF Spec
=============================================================================
