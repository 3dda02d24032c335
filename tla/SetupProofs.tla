---------------------------- MODULE SetupProofs ----------------------------
(***************************************************************************)
(* Registrations beside seeds and results, for any number of them, any     *)
(* size of the pool and any failures: create implements the directory,     *)
(* connections are kept, seeds insert once and test scores are sums.       *)
(***************************************************************************)
EXTENDS Seeding, FiniteSetTheorems, TLAPS

\* An account is whole: whoever is in users has a podium and a prediction for
\* each match his registration found, and nobody else has rows, whatever failed.
AccountsAreWhole ==
    \A q \in Registrations :
        IF q \in users THEN q \in podiums /\ predicted[q] = reg[q].found
        ELSE q \notin podiums /\ predicted[q] = {}

\* The answer is the truth: "created" for an account that is there, an error for
\* one that is not; only an error after the commit leaves it open.
AnswersAreTrue ==
    \A q \in Registrations :
        /\ reg[q].answer = "created" => q \in users
        /\ reg[q].answer = "refused" => q \notin users

Types ==
    /\ reg \in [Registrations -> RequestRow]
    /\ users \subseteq Registrations
    /\ predicted \in [Registrations -> SUBSET Matches]
    /\ podiums \subseteq Registrations
    /\ matches \subseteq Matches
    /\ free \in Nat
    /\ leaked \subseteq Registrations

\* An account appears when its registration commits, never before; a connection
\* is lost only by one that has ended.
Placed ==
    \A q \in Registrations :
        /\ q \in users => reg[q].pc \in {"committed", "done"}
        /\ reg[q].pc = "committed" => q \in users
        /\ reg[q].answer # "none" => reg[q].pc = "done"
        /\ q \in leaked => reg[q].pc = "done"

\* Uniqueness holds among the rows that are still to be committed, too.
Distinct ==
    \A q, r \in users \cup Uncommitted : q # r => ~Clash(q, r)

Holders == {q \in Registrations : Holds(q)}

\* Every connection is free, held, or lost.
ConnectionsCount == free + Cardinality(Holders) + Cardinality(leaked) = PoolMax

AccountInv ==
    Types /\ Placed /\ Distinct /\ AccountsAreWhole /\ AnswersAreTrue /\ ConnectionsCount

LEMMA FiniteConnections ==
    ASSUME leaked \subseteq Registrations
    PROVE  /\ IsFiniteSet(Holders) /\ Cardinality(Holders) \in Nat
           /\ IsFiniteSet(leaked) /\ Cardinality(leaked) \in Nat
<1>1. IsFiniteSet(Holders) /\ IsFiniteSet(leaked)
  BY RegistrationAssumption, FS_Subset DEF Holders
<1> QED BY <1>1, FS_CardinalityType

\* A connection taken or given back keeps the count.
LEMMA Counted ==
    ASSUME AccountInv, NEW q \in Registrations, NEW row \in RequestRow,
           reg' = [reg EXCEPT ![q] = row],
           free' = free + (IF Holds(q) THEN 1 ELSE 0) - (IF row.pc \in Holding THEN 1 ELSE 0),
           UNCHANGED leaked
    PROVE  ConnectionsCount'
<1>1. /\ IsFiniteSet(Holders) /\ Cardinality(Holders) \in Nat /\ free \in Nat
      /\ Cardinality(leaked) \in Nat
  BY FiniteConnections DEF AccountInv, Types
<1>2. free + Cardinality(Holders) + Cardinality(leaked) = PoolMax
  BY DEF AccountInv, ConnectionsCount
<1>3. \A r \in Registrations : Holds(r)' <=> IF r = q THEN row.pc \in Holding ELSE Holds(r)
  BY DEF Holds, AccountInv, Types
<1>4. CASE row.pc \in Holding
  <2>0. q \in Holders <=> Holds(q)
    BY DEF Holders
  <2>1. Holders' = Holders \cup {q}
    BY <1>3, <1>4 DEF Holders
  <2>2. Cardinality(Holders') = Cardinality(Holders) + (IF Holds(q) THEN 0 ELSE 1)
    BY <1>1, <2>1, <2>0, FS_AddElement, SMTT(20)
  <2> QED BY <1>1, <1>2, <1>4, <2>2, RegistrationAssumption DEF ConnectionsCount
<1>5. CASE row.pc \notin Holding
  <2>0. q \in Holders <=> Holds(q)
    BY DEF Holders
  <2>1. Holders' = Holders \ {q}
    BY <1>3, <1>5 DEF Holders
  <2>2. Cardinality(Holders') = Cardinality(Holders) - (IF Holds(q) THEN 1 ELSE 0)
    <3>1. Cardinality(Holders \ {q}) = IF q \in Holders THEN Cardinality(Holders) - 1
                                        ELSE Cardinality(Holders)
      BY <1>1, FS_RemoveElement
    <3> QED BY <1>1, <2>0, <2>1, <3>1
  <2> QED BY <1>1, <1>2, <1>5, <2>2, RegistrationAssumption DEF ConnectionsCount
<1> QED BY <1>4, <1>5

\* A request that moves without touching the tables keeps the invariant, if its
\* answer is true and a row it inserts clashes with none.
LEMMA Moved ==
    ASSUME AccountInv, NEW q \in Registrations, NEW row \in RequestRow,
           reg' = [reg EXCEPT ![q] = row],
           UNCHANGED <<users, predicted, podiums, matches, leaked>>,
           free' = free + (IF Holds(q) THEN 1 ELSE 0) - (IF row.pc \in Holding THEN 1 ELSE 0),
           free' \in Nat,
           reg[q].pc # "done",
           q \in users => /\ row.pc \in {"committed", "done"}
                          /\ <<row.email, row.nickname, row.found>>
                             = <<reg[q].email, reg[q].nickname, reg[q].found>>,
           row.pc = "committed" => q \in users,
           row.answer # "none" => row.pc = "done",
           row.answer = "created" => q \in users,
           row.answer = "refused" => q \notin users,
           row.pc \in InTransaction \ {"begun"} =>
               /\ <<row.email, row.nickname>> = <<reg[q].email, reg[q].nickname>>
               /\ \A r \in users \cup Uncommitted : r # q => ~Clash(q, r)
    PROVE  AccountInv'
<1>1. Types' /\ Placed' /\ AnswersAreTrue'
  BY DEF AccountInv, Types, Placed, AnswersAreTrue
<1>2. AccountsAreWhole'
  BY DEF AccountInv, Types, AccountsAreWhole
<1>3. Distinct'
  <2> SUFFICES ASSUME NEW r \in users \cup Uncommitted', NEW s \in users \cup Uncommitted', r # s
               PROVE  ~Clash(r, s)'
    BY DEF Distinct
  <2>1. \A t \in users \cup Uncommitted' :
           /\ t \in Registrations
           /\ t # q => t \in users \cup Uncommitted /\ reg'[t] = reg[t]
           /\ t = q => <<reg'[t].email, reg'[t].nickname>> = <<reg[t].email, reg[t].nickname>>
    BY DEF AccountInv, Types, Uncommitted
  <2>2. ~Clash(r, s)
    <3>1. CASE r # q /\ s # q
      BY <2>1, <3>1 DEF AccountInv, Distinct
    <3>2. CASE r = q
      BY <2>1, <3>2 DEF AccountInv, Types, Distinct, Uncommitted
    <3>3. CASE s = q
      BY <2>1, <3>3 DEF AccountInv, Types, Distinct, Uncommitted, Clash
    <3> QED BY <3>1, <3>2, <3>3
  <2> QED BY <2>1, <2>2 DEF Clash
<1>4. ConnectionsCount'
  BY Counted
<1> QED BY <1>1, <1>2, <1>3, <1>4 DEF AccountInv

\* What changes no request and no table of accounts keeps it all.
LEMMA Elsewhere ==
    ASSUME AccountInv, UNCHANGED <<reg, users, predicted, podiums, free, leaked>>,
           matches' \subseteq Matches
    PROVE  AccountInv'
  BY DEF AccountInv, Types, Placed, Distinct, Uncommitted, Clash, AccountsAreWhole, AnswersAreTrue,
         ConnectionsCount, Holders, Holds

\* An error ends a request whose account is not there.
LEMMA Refused ==
    ASSUME AccountInv, NEW q \in Registrations, reg[q].pc \notin {"committed", "done"},
           Refuse(q), UNCHANGED <<users, predicted, podiums, matches, leaked>>
    PROVE  AccountInv'
<1> DEFINE r == [reg[q] EXCEPT !.pc = "done", !.answer = "refused"]
<1>1. reg' = [reg EXCEPT ![q] = r] /\ r \in RequestRow /\ r.pc = "done" /\ r.answer = "refused"
  BY DEF Refuse, AccountInv, Types, RequestRow
<1>2. q \notin users
  BY DEF AccountInv, Placed
<1>3. r.pc \notin Holding /\ r.pc \notin InTransaction
  BY <1>1 DEF Holding, InTransaction
<1>4. /\ free' = free + (IF Holds(q) THEN 1 ELSE 0) - (IF r.pc \in Holding THEN 1 ELSE 0)
      /\ free' \in Nat
  BY <1>3 DEF Refuse, AccountInv, Types
<1> HIDE DEF r
<1> QED BY <1>1, <1>2, <1>3, <1>4, Moved

\* A request goes on to its next statement; its account is not there yet.
LEMMA Goes ==
    ASSUME AccountInv, NEW q \in Registrations,
           NEW pc \in {"looked", "hashed", "connected", "begun", "inserted", "predicted", "whole"},
           reg[q].pc \notin {"committed", "done"}, Step(q, pc),
           UNCHANGED <<users, predicted, podiums, matches, leaked>>,
           free' = free + (IF Holds(q) THEN 1 ELSE 0) - (IF pc \in Holding THEN 1 ELSE 0),
           free' \in Nat,
           pc \in InTransaction \ {"begun"} =>
               \A r \in users \cup Uncommitted : r # q => ~Clash(q, r)
    PROVE  AccountInv'
<1> DEFINE r == [reg[q] EXCEPT !.pc = pc]
<1>1. /\ reg' = [reg EXCEPT ![q] = r] /\ r \in RequestRow /\ r.pc = pc
      /\ r.answer = reg[q].answer /\ r.email = reg[q].email /\ r.nickname = reg[q].nickname
  BY DEF Step, AccountInv, Types, RequestRow, Holding, InTransaction
<1>2. q \notin users /\ reg[q].answer = "none" /\ pc # "committed"
  BY DEF AccountInv, Placed
<1> HIDE DEF r
<1> QED BY <1>1, <1>2, Moved

-----------------------------------------------------------------------------
(* The actions of a registration *)

LEMMA LookKeeps ==
    ASSUME AccountInv, NEW q \in Registrations, CheckEmail(q) \/ CheckNickname(q)
    PROVE  AccountInv'
<1>1. reg[q].pc \notin Holding \cup {"committed", "done"} /\ ~Holds(q) /\ free \in Nat
  BY DEF CheckEmail, CheckNickname, Look, Holding, InTransaction, Holds, AccountInv, Types
<1>2. UNCHANGED <<users, predicted, podiums, matches, leaked>>
  BY DEF CheckEmail, CheckNickname, Look
<1>3. CASE Refuse(q)
  BY <1>1, <1>2, <1>3, Refused
<1>4. ASSUME NEW pc \in {"looked", "hashed"}, Step(q, pc), UNCHANGED free
      PROVE  AccountInv'
  <2>1. pc \notin Holding
    BY <1>4 DEF Holding, InTransaction
  <2>2. free' = free + 0 - 0 /\ free' \in Nat
    BY <1>1, <1>4
  <2>3. reg[q].pc \notin {"committed", "done"} /\ pc \notin InTransaction \ {"begun"}
    BY <1>1, <2>1 DEF Holding
  <2> QED BY <1>1, <1>2, <1>4, <2>1, <2>2, <2>3, Goes
<1> QED BY <1>3, <1>4 DEF CheckEmail, CheckNickname, Look

LEMMA StartKeeps ==
    ASSUME AccountInv, NEW q \in Registrations, Connect(q) \/ StartTransaction(q)
    PROVE  AccountInv'
<1>1. CASE Connect(q)
  <2>1. /\ ~Holds(q) /\ "connected" \in Holding /\ "connected" \notin InTransaction
        /\ free' \in Nat /\ free' = free + 0 - 1
    BY <1>1 DEF Connect, Holding, InTransaction, Holds, AccountInv, Types
  <2> QED BY <1>1, <2>1, Goes DEF Connect
<1>2. CASE StartTransaction(q)
  <2>1. /\ Holds(q) /\ "begun" \in Holding
        /\ free' \in Nat /\ free' = free + 1 - 1
    BY <1>2 DEF StartTransaction, Holding, InTransaction, Holds, AccountInv, Types
  <2> QED BY <1>2, <2>1, Goes DEF StartTransaction
<1> QED BY <1>1, <1>2

\* A registration whose transaction does not begin takes its connection along.
LEMMA StartFailsKeeps ==
    ASSUME AccountInv, NEW q \in Registrations, StartFails(q)
    PROVE  AccountInv'
<1> DEFINE r == [reg[q] EXCEPT !.pc = "done", !.answer = "refused"]
<1>1. /\ reg' = [reg EXCEPT ![q] = r] /\ r \in RequestRow /\ r.pc = "done" /\ r.answer = "refused"
      /\ r.email = reg[q].email /\ r.nickname = reg[q].nickname /\ r.found = reg[q].found
  BY DEF StartFails, AccountInv, Types, RequestRow
<1>2. /\ reg[q].pc = "connected" /\ q \notin users /\ q \notin leaked /\ q \in Holders
      /\ leaked' = leaked \cup {q} /\ UNCHANGED <<users, predicted, podiums, matches, free>>
  BY DEF StartFails, AccountInv, Placed, Holders, Holds, Holding
<1> HIDE DEF r
<1>3. Types' /\ Placed' /\ AnswersAreTrue'
  BY <1>1, <1>2 DEF AccountInv, Types, Placed, AnswersAreTrue
<1>4. AccountsAreWhole'
  BY <1>1, <1>2 DEF AccountInv, Types, AccountsAreWhole
<1>5. Distinct'
  <2>1. Uncommitted' \subseteq Uncommitted /\ Uncommitted \subseteq Registrations
    BY <1>1 DEF Uncommitted, InTransaction, AccountInv, Types
  <2>2. \A s \in Registrations : reg'[s].email = reg[s].email /\ reg'[s].nickname = reg[s].nickname
    BY <1>1 DEF AccountInv, Types
  <2> QED BY <1>2, <2>1, <2>2 DEF Distinct, Clash, AccountInv, Types
<1>6. ConnectionsCount'
  <2>1. Holders' = Holders \ {q}
    BY <1>1 DEF Holders, Holds, Holding, InTransaction, AccountInv, Types
  <2>2. Cardinality(Holders') = Cardinality(Holders) - 1
    BY <1>2, <2>1, FiniteConnections, FS_RemoveElement DEF AccountInv, Types
  <2>3. Cardinality(leaked') = Cardinality(leaked) + 1
    BY <1>2, FiniteConnections, FS_AddElement DEF AccountInv, Types
  <2>4. /\ free \in Nat /\ free' = free /\ Cardinality(Holders) \in Nat
        /\ Cardinality(leaked) \in Nat
        /\ free + Cardinality(Holders) + Cardinality(leaked) = PoolMax
    BY <1>2, FiniteConnections DEF AccountInv, Types, ConnectionsCount
  <2> QED BY <2>2, <2>3, <2>4 DEF ConnectionsCount
<1> QED BY <1>3, <1>4, <1>5, <1>6 DEF AccountInv

LEMMA InsertKeeps ==
    ASSUME AccountInv, NEW q \in Registrations, InsertUser(q)
    PROVE  AccountInv'
<1>1. /\ Holds(q) /\ "inserted" \in Holding /\ free \in Nat
      /\ reg[q].pc \notin {"committed", "done"}
  BY DEF InsertUser, Holding, InTransaction, Holds, AccountInv, Types
<1>2. UNCHANGED <<users, predicted, podiums, matches, leaked>>
  BY DEF InsertUser
<1>3. CASE Refuse(q)
  BY <1>1, <1>2, <1>3, Refused
<1>4. CASE Unique(q) /\ Step(q, "inserted") /\ UNCHANGED free
  <2>1. \A r \in users \cup Uncommitted : ~Clash(q, r)
    BY <1>4 DEF InsertUser, Unique
  <2>2. free' = free + 1 - 1
    BY <1>1, <1>4
  <2> QED BY <1>1, <1>2, <1>4, <2>1, <2>2, Goes
<1> QED BY <1>3, <1>4 DEF InsertUser

\* A row once inserted clashes with no other.
LEMMA InsertedIsDistinct ==
    ASSUME AccountInv, NEW q \in Registrations, reg[q].pc \in InTransaction \ {"begun"}
    PROVE  \A r \in users \cup Uncommitted : r # q => ~Clash(q, r)
  BY DEF AccountInv, Distinct, Uncommitted

LEMMA FindKeeps ==
    ASSUME AccountInv, NEW q \in Registrations, FindMatches(q)
    PROVE  AccountInv'
<1> DEFINE r == [reg[q] EXCEPT !.pc = "read", !.found = matches]
<1>1. /\ reg' = [reg EXCEPT ![q] = r] /\ r \in RequestRow /\ r.pc = "read"
      /\ r.answer = reg[q].answer /\ r.email = reg[q].email /\ r.nickname = reg[q].nickname
  BY DEF FindMatches, AccountInv, Types, RequestRow, Holding, InTransaction
<1>2. q \notin users /\ reg[q].answer = "none"
  BY DEF FindMatches, AccountInv, Placed
<1>3. /\ reg[q].pc \in InTransaction \ {"begun"} /\ Holds(q) /\ reg[q].pc # "done"
      /\ r.pc \in Holding /\ r.pc \notin {"committed", "done"}
  BY <1>1 DEF FindMatches, Holds, Holding, InTransaction
<1>4. free' = free + 1 - 1 /\ free' \in Nat /\ UNCHANGED <<users, predicted, podiums, matches, leaked>>
  BY DEF FindMatches, AccountInv, Types
<1> HIDE DEF r
<1> QED BY <1>1, <1>2, <1>3, <1>4, InsertedIsDistinct, Moved

LEMMA WaitEndKeeps ==
    ASSUME AccountInv, NEW q \in Registrations, WaitEnds(q)
    PROVE  AccountInv'
<1>1. reg[q].pc \notin {"committed", "done"}
  BY DEF WaitEnds, Waiting
<1> QED BY <1>1, Refused DEF WaitEnds

LEMMA SaveKeeps ==
    ASSUME AccountInv, NEW q \in Registrations, SavePredictions(q) \/ SavePodium(q)
    PROVE  AccountInv'
<1>1. PICK pc \in {"predicted", "whole"} : Step(q, pc)
  BY DEF SavePredictions, SavePodium
<1>2. /\ reg[q].pc \in InTransaction \ {"begun"} /\ reg[q].pc \notin {"committed", "done"}
      /\ Holds(q) /\ pc \in Holding
  BY DEF SavePredictions, SavePodium, Holds, Holding, InTransaction
<1>3. free' = free + 1 - 1 /\ free' \in Nat /\ UNCHANGED <<users, predicted, podiums, matches, leaked>>
  BY DEF SavePredictions, SavePodium, AccountInv, Types
<1> QED BY <1>1, <1>2, <1>3, InsertedIsDistinct, Goes

LEMMA CommitKeeps ==
    ASSUME AccountInv, NEW q \in Registrations, CommitTransaction(q)
    PROVE  AccountInv'
<1> DEFINE r == [reg[q] EXCEPT !.pc = "committed"]
<1>1. /\ reg' = [reg EXCEPT ![q] = r] /\ r \in RequestRow /\ r.pc = "committed"
      /\ r.answer = reg[q].answer /\ r.email = reg[q].email /\ r.nickname = reg[q].nickname
      /\ r.found = reg[q].found /\ r.found \subseteq Matches
  BY DEF CommitTransaction, Step, AccountInv, Types, RequestRow, Holding, InTransaction
<1>2. q \notin users /\ reg[q].answer = "none"
  BY DEF CommitTransaction, AccountInv, Placed
<1> HIDE DEF r
<1>3. Types'
  BY <1>1 DEF CommitTransaction, AccountInv, Types
<1>4. Placed' /\ AnswersAreTrue'
  BY <1>1, <1>2 DEF CommitTransaction, AccountInv, Types, Placed, AnswersAreTrue
<1>5. AccountsAreWhole'
  BY <1>1, <1>2 DEF CommitTransaction, AccountInv, Types, AccountsAreWhole
<1>6. Distinct'
  <2>1. q \in Uncommitted
    BY DEF CommitTransaction, Uncommitted, InTransaction
  <2>2. users' \cup Uncommitted' \subseteq users \cup Uncommitted
    BY <1>1, <2>1 DEF CommitTransaction, AccountInv, Types, Uncommitted, InTransaction
  <2>3. \A s \in Registrations : reg'[s].email = reg[s].email /\ reg'[s].nickname = reg[s].nickname
    BY <1>1 DEF AccountInv, Types
  <2>4. users \cup Uncommitted \subseteq Registrations
    BY DEF AccountInv, Types, Uncommitted
  <2> QED BY <2>2, <2>3, <2>4 DEF Distinct, Clash, AccountInv
<1>7. ConnectionsCount'
  <2>1. Holds(q) /\ r.pc \in Holding /\ free' = free + 1 - 1
    BY <1>1 DEF CommitTransaction, Holds, Holding, InTransaction, AccountInv, Types
  <2> QED BY <1>1, <2>1, Counted DEF CommitTransaction
<1> QED BY <1>3, <1>4, <1>5, <1>6, <1>7 DEF AccountInv

LEMMA ReturnKeeps ==
    ASSUME AccountInv, NEW q \in Registrations, Return(q) \/ ReturnFails(q)
    PROVE  AccountInv'
<1>1. PICK answer \in {"created", "failed"} :
          reg' = [reg EXCEPT ![q].pc = "done", ![q].answer = answer]
  BY DEF Return, ReturnFails
<1> DEFINE r == [reg[q] EXCEPT !.pc = "done", !.answer = answer]
<1>2. /\ reg' = [reg EXCEPT ![q] = r] /\ r \in RequestRow /\ r.pc = "done" /\ r.answer = answer
      /\ r.email = reg[q].email /\ r.nickname = reg[q].nickname /\ r.found = reg[q].found
  BY <1>1 DEF AccountInv, Types, RequestRow
<1>3. reg[q].pc = "committed" /\ q \in users
  BY DEF Return, ReturnFails, AccountInv, Placed
<1> HIDE DEF r
<1>4. Holds(q) /\ r.pc \notin Holding /\ r.pc \notin InTransaction
  BY <1>2, <1>3 DEF Holds, Holding, InTransaction
<1>5. free' = free + 1 - 0 /\ free' \in Nat /\ UNCHANGED <<users, predicted, podiums, matches, leaked>>
  BY DEF Return, ReturnFails, AccountInv, Types
<1> QED BY <1>2, <1>3, <1>4, <1>5, Moved

LEMMA FailKeeps ==
    ASSUME AccountInv, NEW q \in Registrations, StatementFails(q)
    PROVE  AccountInv'
  BY Refused DEF StatementFails

LEMMA BeginKeeps ==
    ASSUME AccountInv, NEW q \in Registrations, NEW e \in Emails, NEW n \in Nicknames, Begin(q, e, n)
    PROVE  AccountInv'
<1> DEFINE r == [Unmade EXCEPT !.pc = "new", !.email = e, !.nickname = n]
<1>1. /\ reg' = [reg EXCEPT ![q] = r] /\ r \in RequestRow /\ r.pc = "new" /\ r.answer = "none"
  BY DEF Begin, Unmade, RequestRow
<1>2. q \notin users
  BY DEF Begin, AccountInv, Placed
<1> HIDE DEF r
<1>3. ~Holds(q) /\ r.pc \notin Holding /\ r.pc \notin InTransaction /\ reg[q].pc # "done"
  BY <1>1 DEF Begin, Holds, Holding, InTransaction
<1>4. free' = free + 0 - 0 /\ free' \in Nat /\ UNCHANGED <<users, predicted, podiums, matches, leaked>>
  BY DEF Begin, AccountInv, Types
<1> QED BY <1>1, <1>2, <1>3, <1>4, Moved

\* A restart ends every request; what was committed stays.
LEMMA CrashKeeps ==
    ASSUME AccountInv, Crash
    PROVE  AccountInv'
<1>1. \A q \in Registrations :
        /\ reg'[q] \in RequestRow
        /\ reg'[q].pc = IF reg[q].pc = "none" THEN "none" ELSE "done"
        /\ reg'[q].answer = reg[q].answer /\ reg'[q].found = reg[q].found
        /\ reg'[q].email = reg[q].email /\ reg'[q].nickname = reg[q].nickname
  BY DEF Crash, AccountInv, Types, RequestRow
<1>2. reg' \in [Registrations -> RequestRow] /\ leaked' = {}
  /\ UNCHANGED <<users, predicted, podiums, matches>>
  BY <1>1 DEF Crash
<1>3. Types'
  BY <1>2, RegistrationAssumption DEF Crash, AccountInv, Types
<1>4. Placed' /\ AnswersAreTrue' /\ AccountsAreWhole'
  BY <1>1, <1>2 DEF AccountInv, Types, Placed, AnswersAreTrue, AccountsAreWhole
<1>5. Distinct'
  <2>1. Uncommitted' = {}
    BY <1>1 DEF Uncommitted, InTransaction
  <2> QED BY <1>1, <1>2, <2>1 DEF AccountInv, Types, Distinct, Clash
<1>6. ConnectionsCount'
  <2>1. Holders' = {}
    BY <1>1 DEF Holders, Holds, Holding, InTransaction
  <2>2. free' = PoolMax /\ Cardinality(Holders') = 0 /\ Cardinality(leaked') = 0
    BY <2>1, FS_EmptySet DEF Crash
  <2> QED BY <2>2, RegistrationAssumption DEF ConnectionsCount
<1> QED BY <1>3, <1>4, <1>5, <1>6 DEF AccountInv

-----------------------------------------------------------------------------
LEMMA AccountInit == Init => AccountInv
<1> SUFFICES ASSUME RegistrationInit PROVE AccountInv
  BY DEF Init
<1>1. \A q \in Registrations : reg[q] = Unmade
  BY DEF RegistrationInit
<1>2. Unmade \in RequestRow /\ Unmade.pc = "none" /\ Unmade.answer = "none"
  BY DEF Unmade, RequestRow
<1>3. Types /\ Placed /\ AccountsAreWhole /\ AnswersAreTrue
  BY <1>1, <1>2, RegistrationAssumption
  DEF RegistrationInit, Types, Placed, AccountsAreWhole, AnswersAreTrue
<1>4. Uncommitted = {} /\ Holders = {}
  BY <1>1, <1>2 DEF Uncommitted, Holders, Holds, Holding, InTransaction
<1>5. ConnectionsCount
  BY <1>4, FS_EmptySet, RegistrationAssumption DEF RegistrationInit, ConnectionsCount
<1> QED BY <1>3, <1>4, <1>5 DEF RegistrationInit, AccountInv, Distinct

LEMMA AccountStep == AccountInv /\ [Next]_vars => AccountInv'
<1> SUFFICES ASSUME AccountInv, [Next]_vars PROVE AccountInv'
  OBVIOUS
<1>1. ASSUME UNCHANGED <<reg, users, predicted, podiums, free, leaked>>,
             matches' = matches \/ \E s \in Seeds : matches' = matches \cup {s}
      PROVE  AccountInv'
  BY <1>1, Elsewhere, SeedingAssumption DEF AccountInv, Types
<1>2. CASE UNCHANGED vars
  BY <1>1, <1>2 DEF vars, registrationVars
<1>3. ASSUME NEW q \in Registrations, NEW e \in Emails, NEW n \in Nicknames, Begin(q, e, n)
      PROVE  AccountInv'
  BY <1>3, BeginKeeps
<1>4. CASE RegistrationNext
  <2>1. ASSUME NEW q \in Registrations,
               Proceed(q) \/ StartFails(q) \/ StatementFails(q) \/ ReturnFails(q)
        PROVE  AccountInv'
    BY <2>1, LookKeeps, StartKeeps, StartFailsKeeps, InsertKeeps, FindKeeps, WaitEndKeeps, SaveKeeps, CommitKeeps,
       ReturnKeeps, FailKeeps
    DEF Proceed
  <2> QED BY <1>4, <2>1, CrashKeeps DEF RegistrationNext
<1>5. ASSUME NEW s \in Seeds,
             \/ SeedIfEmpty(s) \/ SaveGroups(s) \/ SaveTeams(s) \/ SaveMatches(s)
             \/ SaveConfig(s) \/ SeedDies(s)
      PROVE  AccountInv'
  BY <1>1, <1>5 DEF SeedIfEmpty, SaveGroups, SaveTeams, SaveMatches, SaveConfig, SeedDies, SaveKeyed,
                    registrationVars
<1>6. ASSUME NEW m \in Matches, Play(m) \/ JobFinds(m) \/ JobScores(m)
      PROVE  AccountInv'
  BY <1>1, <1>6 DEF Play, JobFinds, JobScores, registrationVars
<1>7. CASE MassNext
  BY <1>1, <1>7 DEF MassNext, MassBegins, MassInserts, MassPredicts, MassCalculates, MassSums,
                    MassCommits, MassDies, MassStep, registrationVars
<1> QED BY <1>2, <1>3, <1>4, <1>5, <1>6, <1>7 DEF Next

LEMMA AccountsAlways == Spec => []AccountInv
  BY AccountInit, AccountStep, PTL DEF Spec

\* No two accounts share an email or a nickname.
THEOREM AccountsUnique == Spec => []AccountsAreUnique
<1>1. AccountInv => AccountsAreUnique
  BY DEF AccountInv, Distinct, AccountsAreUnique
<1> QED BY <1>1, AccountsAlways, PTL

\* An account has its podium and the predictions of the matches it found.
THEOREM AccountsWhole == Spec => []AccountsAreWhole
<1>1. AccountInv => AccountsAreWhole
  BY DEF AccountInv
<1> QED BY <1>1, AccountsAlways, PTL

\* What a registration is answered is true.
THEOREM AnswersTrue == Spec => []AnswersAreTrue
<1>1. AccountInv => AnswersAreTrue
  BY DEF AccountInv
<1> QED BY <1>1, AccountsAlways, PTL

\* Each lost connection took a failure.
LeaksCount == faults \in Nat /\ Cardinality(leaked) <= faults

LEMMA LeaksAreFailures == Types /\ LeaksCount /\ [Next]_vars => LeaksCount'
<1> SUFFICES ASSUME Types, faults \in Nat, Cardinality(leaked) <= faults, [Next]_vars
             PROVE  faults' \in Nat /\ Cardinality(leaked') <= faults'
  BY DEF LeaksCount
<1>0. Cardinality(leaked) \in Nat /\ IsFiniteSet(leaked)
  BY FiniteConnections DEF Types
<1>1. ASSUME leaked' = leaked, faults' = faults \/ Fault
      PROVE  faults' \in Nat /\ Cardinality(leaked') <= faults'
  BY <1>0, <1>1 DEF Fault
<1>2. ASSUME NEW q \in Registrations, StartFails(q)
      PROVE  faults' \in Nat /\ Cardinality(leaked') <= faults'
  <2>1. Cardinality(leaked \cup {q}) = IF q \in leaked THEN Cardinality(leaked)
                                        ELSE Cardinality(leaked) + 1
    BY <1>0, FS_AddElement
  <2> QED BY <1>0, <1>2, <2>1 DEF StartFails, Fault
<1>3. CASE Crash
  <2>1. Cardinality(leaked') = 0
    BY <1>3, FS_EmptySet DEF Crash
  <2> QED BY <1>3, <2>1 DEF Crash, Fault
<1>4. ASSUME NEW q \in Registrations, Proceed(q) \/ StatementFails(q) \/ ReturnFails(q)
      PROVE  leaked' = leaked /\ (faults' = faults \/ Fault)
  BY <1>4 DEF Proceed, CheckEmail, CheckNickname, Look, Connect, StartTransaction, InsertUser,
     FindMatches, WaitEnds, SavePredictions, SavePodium, CommitTransaction, Return, StatementFails,
     ReturnFails
<1>5. ASSUME NEW q \in Registrations, NEW e \in Emails, NEW n \in Nicknames, Begin(q, e, n)
      PROVE  leaked' = leaked /\ faults' = faults
  BY <1>5 DEF Begin
<1>6. ASSUME NEW s \in Seeds,
             \/ SeedIfEmpty(s) \/ SaveGroups(s) \/ SaveTeams(s) \/ SaveMatches(s)
             \/ SaveConfig(s) \/ SeedDies(s)
      PROVE  leaked' = leaked /\ (faults' = faults \/ Fault)
  BY <1>6 DEF SeedIfEmpty, SaveGroups, SaveTeams, SaveMatches, SaveConfig, SeedDies, SaveKeyed,
              registrationVars
<1>7. ASSUME NEW m \in Matches, Play(m) \/ JobFinds(m) \/ JobScores(m)
      PROVE  leaked' = leaked /\ faults' = faults
  BY <1>7 DEF Play, JobFinds, JobScores, registrationVars
<1>8. CASE MassNext
  <2>1. leaked' = leaked /\ (faults' = faults \/ Fault)
    BY <1>8 DEF MassNext, MassBegins, MassInserts, MassPredicts, MassCalculates, MassSums,
                MassCommits, MassDies, MassStep, registrationVars
  <2> QED BY <1>1, <2>1
<1>9. CASE UNCHANGED vars
  BY <1>1, <1>9 DEF vars, registrationVars
<1> QED BY <1>1, <1>2, <1>3, <1>4, <1>5, <1>6, <1>7, <1>8, <1>9 DEF Next, RegistrationNext

\* Every connection of the pool is free, held by a registration at work, or was
\* lost to a START TRANSACTION that was refused.
THEOREM PoolWhole == Spec => []ConnectionsReturn
<1>1. Init => LeaksCount
  BY FS_EmptySet DEF Init, RegistrationInit, LeaksCount
<1>2. AccountInv => Types
  BY DEF AccountInv
<1>3. AccountInv /\ LeaksCount => ConnectionsReturn
  BY DEF AccountInv, LeaksCount, ConnectionsCount, ConnectionsReturn, Holders
<1> QED BY <1>1, <1>2, <1>3, LeaksAreFailures, AccountsAlways, PTL DEF Spec

-----------------------------------------------------------------------------
(* create implements the directory *)

\* A request at work asks for an email and a nickname, and the matches it read are
\* still there: none is ever taken out.
Asked ==
    \A q \in Registrations :
        /\ reg[q].found \subseteq matches
        /\ reg[q].pc # "none" => reg[q].email \in Emails /\ reg[q].nickname \in Nicknames

LEMMA AskedInit == Init => Asked
  BY DEF Init, RegistrationInit, Unmade, Asked

\* What a request asks for and has read.
Same(q) == /\ reg'[q].email = reg[q].email /\ reg'[q].nickname = reg[q].nickname
           /\ reg'[q].found = reg[q].found

\* A request goes on, and may be answered.
LEMMA OneGoesOn ==
    ASSUME AccountInv, NEW q \in Registrations, NEW pc, NEW answer,
           \/ reg' = [reg EXCEPT ![q].pc = pc]
           \/ reg' = [reg EXCEPT ![q].pc = pc, ![q].answer = answer]
    PROVE  /\ \A r \in Registrations : Same(r) /\ (r # q => reg'[r] = reg[r])
           /\ reg'[q].pc = pc
  BY DEF AccountInv, Types, RequestRow, Same

LEMMA AskedStays ==
    ASSUME Asked, matches \subseteq matches',
           \A q \in Registrations : Same(q) /\ (reg[q].pc = "none" => reg'[q].pc = "none")
    PROVE  Asked'
  BY DEF Asked, Same

LEMMA AskedProceeds ==
    ASSUME AccountInv, Asked, NEW q \in Registrations,
           Proceed(q) \/ StartFails(q) \/ StatementFails(q) \/ ReturnFails(q)
    PROVE  Asked'
<1>1. matches' = matches /\ reg[q].pc # "none"
  BY DEF Proceed, CheckEmail, CheckNickname, Look, Connect, StartTransaction, StartFails,
     InsertUser, FindMatches, WaitEnds, Waiting, SavePredictions, SavePodium, CommitTransaction,
     Return, StatementFails, ReturnFails
<1>2. ASSUME NEW pc, NEW answer,
             \/ reg' = [reg EXCEPT ![q].pc = pc]
             \/ reg' = [reg EXCEPT ![q].pc = pc, ![q].answer = answer]
      PROVE  Asked'
  <2>1. \A r \in Registrations : Same(r) /\ (r # q => reg'[r] = reg[r])
    BY <1>2, OneGoesOn
  <2> QED BY <1>1, <2>1, AskedStays
<1>3. CASE FindMatches(q)
  <2>1. reg' = [reg EXCEPT ![q].pc = "read", ![q].found = matches]
    BY <1>3 DEF FindMatches
  <2>2. \A r \in Registrations :
          /\ reg'[r].found = IF r = q THEN matches ELSE reg[r].found
          /\ reg'[r].email = reg[r].email /\ reg'[r].nickname = reg[r].nickname
          /\ r # q => reg'[r].pc = reg[r].pc
    BY <2>1 DEF AccountInv, Types, RequestRow
  <2> QED BY <1>1, <2>2 DEF Asked
<1>4. \/ FindMatches(q) \/ Refuse(q)
      \/ \E pc \in {"looked", "hashed", "connected", "begun", "inserted", "predicted", "whole",
                   "committed"} : Step(q, pc)
      \/ \E answer \in {"created", "refused", "failed"} :
            reg' = [reg EXCEPT ![q].pc = "done", ![q].answer = answer]
  BY DEF Proceed, CheckEmail, CheckNickname, Look, Connect, StartTransaction, StartFails,
     InsertUser, WaitEnds, SavePredictions, SavePodium, CommitTransaction, Return, StatementFails,
     ReturnFails
<1> QED BY <1>2, <1>3, <1>4 DEF Refuse, Step

LEMMA AskedStep == AccountInv /\ Asked /\ [Next]_vars => Asked'
<1> SUFFICES ASSUME AccountInv, Asked, [Next]_vars PROVE Asked'
  OBVIOUS
<1>1. ASSUME UNCHANGED reg, matches \subseteq matches' PROVE Asked'
  BY <1>1, AskedStays DEF Same
<1>2. CASE UNCHANGED vars
  BY <1>1, <1>2 DEF vars, registrationVars
<1>3. ASSUME NEW q \in Registrations, NEW e \in Emails, NEW n \in Nicknames, Begin(q, e, n)
      PROVE  Asked'
  <2>1. /\ reg'[q].found = {} /\ reg'[q].email = e /\ reg'[q].nickname = n
        /\ \A r \in Registrations : r # q => reg'[r] = reg[r]
        /\ matches' = matches
    BY <1>3 DEF Begin, Unmade, AccountInv, Types
  <2> QED BY <2>1 DEF Asked
<1>4. CASE Crash
  <2>1. /\ \A q \in Registrations : Same(q) /\ (reg[q].pc = "none" => reg'[q].pc = "none")
        /\ matches' = matches
    BY <1>4 DEF Crash, AccountInv, Types, RequestRow, Same
  <2> QED BY <2>1, AskedStays
<1>5. ASSUME NEW s \in Seeds,
             \/ SeedIfEmpty(s) \/ SaveGroups(s) \/ SaveTeams(s) \/ SaveMatches(s)
             \/ SaveConfig(s) \/ SeedDies(s)
      PROVE  Asked'
  BY <1>1, <1>5 DEF SeedIfEmpty, SaveGroups, SaveTeams, SaveMatches, SaveConfig, SeedDies, SaveKeyed,
                    registrationVars
<1>6. ASSUME NEW m \in Matches, Play(m) \/ JobFinds(m) \/ JobScores(m)
      PROVE  Asked'
  BY <1>1, <1>6 DEF Play, JobFinds, JobScores, registrationVars
<1>7. CASE MassNext
  BY <1>1, <1>7 DEF MassNext, MassBegins, MassInserts, MassPredicts, MassCalculates, MassSums,
                    MassCommits, MassDies, MassStep, registrationVars
<1> QED BY <1>2, <1>3, <1>4, <1>5, <1>6, <1>7, AskedProceeds DEF Next, RegistrationNext

LEMMA ListedAreUsers ==
    ASSUME AccountInv, NEW q \in Registrations
    PROVE  /\ q \in users \cup podiums \/ predicted[q] # {} <=> q \in users
           /\ Accounts[q] = IF q \in users
                            THEN DY!Account(reg[q].email, reg[q].nickname, reg[q].found)
                            ELSE DY!NoAccount
           /\ Accounts[q] = DY!NoAccount <=> q \notin users
<1>1. IF q \in users THEN q \in podiums /\ predicted[q] = reg[q].found
      ELSE q \notin podiums /\ predicted[q] = {}
  BY DEF AccountInv, AccountsAreWhole
<1>2. Accounts[q] = IF q \in users
                    THEN DY!Account(reg[q].email, reg[q].nickname, reg[q].found)
                    ELSE DY!NoAccount
  BY <1>1 DEF Accounts, DY!Account, DY!NoAccount
<1>3. DY!Account(reg[q].email, reg[q].nickname, reg[q].found) # DY!NoAccount
  <2>1. "whole" \in DOMAIN DY!Account(reg[q].email, reg[q].nickname, reg[q].found)
    BY DEF DY!Account
  <2>2. "whole" \notin DOMAIN DY!NoAccount
    BY DEF DY!NoAccount
  <2> QED BY <2>1, <2>2
<1> QED BY <1>1, <1>2, <1>3

LEMMA AccountsStay ==
    ASSUME AccountInv, UNCHANGED <<users, predicted, podiums>>,
           \A q \in users : Same(q)
    PROVE  Accounts' = Accounts
<1> DEFINE Row(q) == [email |-> reg[q].email, nickname |-> reg[q].nickname,
                      predicted |-> predicted[q], whole |-> q \in users /\ q \in podiums]
<1>1. ASSUME NEW q \in Registrations, q \in users \cup podiums \/ predicted[q] # {}
      PROVE  Row(q)' = Row(q)
  <2>1. Same(q)
    BY <1>1, ListedAreUsers
  <2> QED BY <2>1 DEF Same
<1> QED BY <1>1 DEF Accounts

\* A step that writes no account and answers nobody.
LEMMA DirectoryUnmoved ==
    ASSUME AccountInv, UNCHANGED <<users, predicted, podiums>>,
           \A q \in Registrations : /\ reg'[q].answer = reg[q].answer
                                    /\ q \in users => Same(q)
    PROVE  UNCHANGED <<Accounts, Told>>
<1>1. Told' = Told
  BY DEF Told
<1>2. \A q \in users : Same(q)
  BY DEF AccountInv, Types
<1>3. Accounts' = Accounts
  BY <1>2, AccountsStay
<1> QED BY <1>1, <1>3

\* An answer is told of an account that is there, or of none.
LEMMA AnswerIsTell ==
    ASSUME AccountInv, NEW q \in Registrations, NEW answer,
           reg[q].pc \notin {"none", "done"},
           reg' = [reg EXCEPT ![q].pc = "done", ![q].answer = answer],
           answer \in IF q \in users THEN {"created", "failed"} ELSE {"refused"},
           UNCHANGED <<users, predicted, podiums, matches>>
    PROVE  DY!Next
<1>1. /\ \A r \in Registrations : Same(r) /\ (r # q => reg'[r].answer = reg[r].answer)
      /\ reg'[q].answer = answer
  BY DEF AccountInv, Types, RequestRow, Same
<1>2. Told[q] = "none"
  BY DEF AccountInv, Placed, Told
<1>3. Told' = [Told EXCEPT ![q] = answer]
  BY <1>1 DEF Told
<1>4. Accounts' = Accounts
  <2>1. \A r \in users : Same(r)
    BY <1>1 DEF AccountInv, Types
  <2> QED BY <2>1, AccountsStay
<1>5. answer \in IF Accounts[q] = DY!NoAccount THEN {"refused"} ELSE {"created", "failed"}
  BY ListedAreUsers
<1>6. DY!Tell(q, answer)
  BY <1>2, <1>3, <1>4, <1>5 DEF DY!Tell
<1> QED BY <1>6 DEF DY!Next

LEMMA RefuseIsTell ==
    ASSUME AccountInv, NEW q \in Registrations, reg[q].pc \notin {"none", "committed", "done"},
           Refuse(q), UNCHANGED <<users, predicted, podiums, matches>>
    PROVE  DY!Next
<1>1. q \notin users
  BY DEF AccountInv, Placed
<1> QED BY <1>1, AnswerIsTell DEF Refuse

\* The commit enters the account: its email and nickname were free all along.
LEMMA CommitIsEnter ==
    ASSUME AccountInv, Asked, NEW q \in Registrations, CommitTransaction(q)
    PROVE  DY!Next
<1>t. /\ reg \in [Registrations -> RequestRow]
      /\ users \subseteq Registrations
      /\ predicted \in [Registrations -> SUBSET Matches]
  BY DEF AccountInv, Types
<1>1. /\ reg' = [reg EXCEPT ![q].pc = "committed"]
      /\ users' = users \cup {q} /\ podiums' = podiums \cup {q}
      /\ predicted' = [predicted EXCEPT ![q] = reg[q].found]
      /\ matches' = matches /\ reg[q].pc = "whole"
  BY DEF CommitTransaction, Step
<1>2. q \notin users /\ q \in Uncommitted
  BY <1>1 DEF AccountInv, Placed, Uncommitted, InTransaction
<1>3. \A r \in Registrations : Same(r) /\ reg'[r].answer = reg[r].answer
  BY <1>t, <1>1 DEF RequestRow, Same
<1>4. Accounts[q] = DY!NoAccount /\ Told[q] = "none"
  BY <1>1, <1>2, ListedAreUsers DEF AccountInv, Placed, Told
<1>5. ASSUME NEW r \in DY!Listed
      PROVE  Accounts[r].email # reg[q].email /\ Accounts[r].nickname # reg[q].nickname
  <2>1. r \in Registrations /\ r \in users
    BY <1>5, ListedAreUsers DEF DY!Listed
  <2>2. r # q /\ ~Clash(r, q)
    BY <1>2, <2>1 DEF AccountInv, Distinct
  <2>3. Accounts[r] = DY!Account(reg[r].email, reg[r].nickname, reg[r].found)
    BY <2>1, ListedAreUsers
  <2> QED BY <2>2, <2>3 DEF Clash, DY!Account
<1>6. Accounts' = [Accounts EXCEPT ![q] = DY!Account(reg[q].email, reg[q].nickname, reg[q].found)]
  <2>1. AccountInv'
    BY CommitKeeps
  <2>2. ASSUME NEW r \in Registrations
        PROVE  Accounts'[r] = IF r = q
                              THEN DY!Account(reg[q].email, reg[q].nickname, reg[q].found)
                              ELSE Accounts[r]
    <3>1. Accounts'[r] =
            IF r \in users' \cup podiums' \/ predicted'[r] # {}
            THEN [email |-> reg'[r].email, nickname |-> reg'[r].nickname,
                  predicted |-> predicted'[r], whole |-> r \in users' /\ r \in podiums']
            ELSE [none |-> TRUE]
      BY DEF Accounts
    <3>2. CASE r = q
      BY <1>t, <1>1, <1>3, <3>1, <3>2 DEF Same, DY!Account
    <3>3. CASE r # q
      BY <1>t, <1>1, <1>3, <3>1, <3>3 DEF Same, Accounts
    <3> QED BY <3>2, <3>3
  <2> QED BY <2>2 DEF Accounts
<1>7. Told' = Told
  BY <1>3 DEF Told
<1>8. reg[q].email \in Emails /\ reg[q].nickname \in Nicknames
  BY <1>1 DEF Asked
<1>9. reg[q].found \in SUBSET matches
  BY DEF Asked
<1>10. DY!Enter(q, reg[q].email, reg[q].nickname)
  BY <1>1, <1>4, <1>5, <1>6, <1>7, <1>9 DEF DY!Enter
<1> QED BY <1>8, <1>10 DEF DY!Next

LEMMA DirectoryProceeds ==
    ASSUME AccountInv, Asked, NEW q \in Registrations,
           Proceed(q) \/ StartFails(q) \/ StatementFails(q) \/ ReturnFails(q)
    PROVE  DY!Next \/ UNCHANGED <<Accounts, Told, matches>>
<1>1. CASE CommitTransaction(q)
  BY <1>1, CommitIsEnter
<1>2. ASSUME Refuse(q), reg[q].pc \notin {"none", "committed", "done"},
             UNCHANGED <<users, predicted, podiums, matches>>
      PROVE  DY!Next
  BY <1>2, RefuseIsTell
<1>3. CASE Return(q) \/ ReturnFails(q)
  <2>1. /\ reg[q].pc = "committed" /\ q \in users
        /\ UNCHANGED <<users, predicted, podiums, matches>>
    BY <1>3 DEF Return, ReturnFails, AccountInv, Placed
  <2>2. PICK answer \in {"created", "failed"} :
            reg' = [reg EXCEPT ![q].pc = "done", ![q].answer = answer]
    BY <1>3 DEF Return, ReturnFails
  <2> QED BY <2>1, <2>2, AnswerIsTell
<1>4. ASSUME NEW pc, Step(q, pc), UNCHANGED <<users, predicted, podiums, matches>>
      PROVE  UNCHANGED <<Accounts, Told, matches>>
  <2>1. \A r \in Registrations : Same(r) /\ reg'[r].answer = reg[r].answer
    BY <1>4 DEF Step, AccountInv, Types, RequestRow, Same
  <2> QED BY <1>4, <2>1, DirectoryUnmoved
<1>5. CASE FindMatches(q)
  <2>1. /\ reg' = [reg EXCEPT ![q].pc = "read", ![q].found = matches]
        /\ q \notin users /\ UNCHANGED <<users, predicted, podiums, matches>>
    BY <1>5 DEF FindMatches, AccountInv, Placed
  <2>2. \A r \in Registrations : /\ reg'[r].answer = reg[r].answer
                                 /\ r \in users => Same(r)
    BY <2>1 DEF AccountInv, Types, RequestRow, Same
  <2> QED BY <2>1, <2>2, DirectoryUnmoved
<1>6. CASE CheckEmail(q) \/ CheckNickname(q)
  BY <1>2, <1>4, <1>6 DEF CheckEmail, CheckNickname, Look
<1>7. CASE Connect(q) \/ StartTransaction(q) \/ SavePredictions(q) \/ SavePodium(q)
  BY <1>4, <1>7 DEF Connect, StartTransaction, SavePredictions, SavePodium
<1>8. CASE InsertUser(q)
  BY <1>2, <1>4, <1>8 DEF InsertUser
<1>9. CASE WaitEnds(q)
  BY <1>2, <1>9 DEF WaitEnds, Waiting
<1>10. CASE StatementFails(q)
  BY <1>2, <1>10 DEF StatementFails
<1>11. CASE StartFails(q)
  <2>1. q \notin users
    BY <1>11 DEF StartFails, AccountInv, Placed
  <2> QED BY <1>11, <2>1, AnswerIsTell DEF StartFails
<1> QED BY <1>1, <1>3, <1>5, <1>6, <1>7, <1>8, <1>9, <1>10, <1>11 DEF Proceed

LEMMA DirectoryInit == Init => DY!Init
<1> SUFFICES ASSUME RegistrationInit PROVE DY!Init
  BY DEF Init
<1>1. Accounts = [q \in Registrations |-> DY!NoAccount]
  BY DEF RegistrationInit, Accounts, DY!NoAccount
<1>2. Told = [q \in Registrations |-> "none"]
  BY DEF RegistrationInit, Unmade, Told
<1> QED BY <1>1, <1>2 DEF RegistrationInit, DY!Init

LEMMA DirectoryStep ==
    ASSUME AccountInv, Asked, [Next]_vars
    PROVE  DY!Next \/ UNCHANGED <<Accounts, Told, matches>>
<1>1. ASSUME UNCHANGED <<reg, users, predicted, podiums>>
      PROVE  UNCHANGED <<Accounts, Told>>
  BY <1>1, DirectoryUnmoved DEF Same
<1>2. CASE UNCHANGED vars
  BY <1>1, <1>2 DEF vars, registrationVars
<1>3. ASSUME NEW q \in Registrations, NEW e \in Emails, NEW n \in Nicknames, Begin(q, e, n)
      PROVE  UNCHANGED <<Accounts, Told, matches>>
  <2>1. q \notin users /\ reg[q].answer = "none" /\ UNCHANGED <<users, predicted, podiums, matches>>
    BY <1>3 DEF Begin, AccountInv, Placed
  <2>2. \A r \in Registrations : /\ reg'[r].answer = reg[r].answer
                                 /\ r \in users => Same(r)
    BY <1>3, <2>1 DEF Begin, Unmade, AccountInv, Types, Same
  <2> QED BY <2>1, <2>2, DirectoryUnmoved
<1>4. CASE Crash
  <2>1. \A r \in Registrations : Same(r) /\ reg'[r].answer = reg[r].answer
    BY <1>4 DEF Crash, AccountInv, Types, RequestRow, Same
  <2>2. UNCHANGED <<users, predicted, podiums, matches>>
    BY <1>4 DEF Crash
  <2> QED BY <2>1, <2>2, DirectoryUnmoved
<1>5. ASSUME NEW s \in Seeds, SaveMatches(s)
      PROVE  DY!Next
  <2>1. DY!Fill(s)
    BY <1>1, <1>5 DEF SaveMatches, DY!Fill
  <2> QED BY <2>1, SeedingAssumption DEF DY!Next
<1>6. ASSUME NEW s \in Seeds,
             SeedIfEmpty(s) \/ SaveGroups(s) \/ SaveTeams(s) \/ SaveConfig(s) \/ SeedDies(s)
      PROVE  UNCHANGED <<Accounts, Told, matches>>
  BY <1>1, <1>6 DEF SeedIfEmpty, SaveGroups, SaveTeams, SaveConfig, SeedDies, SaveKeyed,
                    registrationVars
<1>7. ASSUME NEW m \in Matches, Play(m) \/ JobFinds(m) \/ JobScores(m)
      PROVE  UNCHANGED <<Accounts, Told, matches>>
  BY <1>1, <1>7 DEF Play, JobFinds, JobScores, registrationVars
<1>8. CASE MassNext
  BY <1>1, <1>8 DEF MassNext, MassBegins, MassInserts, MassPredicts, MassCalculates, MassSums,
                    MassCommits, MassDies, MassStep, registrationVars
<1> QED BY <1>2, <1>3, <1>4, <1>5, <1>6, <1>7, <1>8, DirectoryProceeds DEF Next, RegistrationNext

\* create implements the directory, for any number of registrations at the same
\* time, any size of the pool, any failures and crashes: to everybody else an
\* account appears in one step, whole and unique, and the answer is true.
THEOREM RegistrationIsDirectory == Spec => KeepsDirectory
<1>1. AccountInv /\ Asked /\ [Next]_vars => [DY!Next]_<<Accounts, Told, matches>>
  BY DirectoryStep
<1> QED BY <1>1, AccountsAlways, AskedInit, AskedStep, DirectoryInit, PTL
        DEF Spec, KeepsDirectory, DY!Spec

-----------------------------------------------------------------------------
(* The seed.  Until the groups are there the tables behind them are empty; the  *)
(* seed that filled them, if it is still at work, is the one that fills matches. *)

SeedStates == {"none", "counted", "groups", "teams", "matches", "done", "died"}

Unfinished(s) == seed[s] \in {"counted", "groups", "teams"}

SeedInv ==
    /\ seed \in [Seeds -> SeedStates]
    /\ overlapped \in BOOLEAN
    /\ ~overlapped =>
          /\ \A r, s \in Seeds : SeedAtWork(r) /\ SeedAtWork(s) => r = s
          /\ \A s \in Seeds : Unfinished(s) => matches = {}
          /\ Empty => matches = {}
          /\ \A s \in Seeds : seed[s] \in {"groups", "teams", "matches"} => ~Empty
          /\ matches = {} \/ \E s \in Seeds : matches = {s}

LEMMA SeedStep == SeedInv /\ [Next]_vars => SeedInv'
<1> SUFFICES ASSUME SeedInv, [Next]_vars PROVE SeedInv'
  OBVIOUS
<1>1. ASSUME UNCHANGED <<seedVars, matches>> PROVE SeedInv'
  BY <1>1 DEF seedVars, SeedInv, SeedAtWork, Unfinished, Empty
<1>2. ASSUME NEW s \in Seeds, SeedIfEmpty(s) PROVE SeedInv'
  BY <1>2 DEF SeedIfEmpty, Stage, registrationVars, SeedInv, SeedAtWork, Unfinished, Empty, SeedStates
<1>3. ASSUME NEW s \in Seeds, SaveGroups(s) \/ SaveTeams(s) \/ SaveConfig(s) PROVE SeedInv'
  BY <1>3 DEF SaveGroups, SaveTeams, SaveConfig, SaveKeyed, Stage, registrationVars,
              SeedInv, SeedAtWork, Unfinished, Empty, SeedStates
<1>4. ASSUME NEW s \in Seeds, SaveMatches(s) PROVE SeedInv'
  <2>1. seed' = [seed EXCEPT ![s] = "matches"] /\ seed[s] = "teams" /\ UNCHANGED <<filled, overlapped>>
    BY <1>4 DEF SaveMatches, Stage
  <2>2. ASSUME ~overlapped PROVE matches' = {s} /\ \A r \in Seeds : r # s => ~SeedAtWork(r)
    BY <1>4, <2>1, <2>2 DEF SaveMatches, SeedInv, SeedAtWork, Unfinished, SeedStates
  <2> QED
    BY <2>1, <2>2 DEF SeedInv, SeedAtWork, Unfinished, Empty, SeedStates
<1>5. ASSUME NEW s \in Seeds, SeedDies(s) PROVE SeedInv'
  BY <1>5 DEF SeedDies, SeedInv, SeedAtWork, Unfinished, Empty, SeedStates
<1>6. CASE RegistrationNext /\ UNCHANGED seedVars
  BY <1>1, <1>6 DEF RegistrationNext, Proceed, CheckEmail, CheckNickname, Look, Connect,
     StartTransaction, StartFails, InsertUser, FindMatches, WaitEnds, SavePredictions, SavePodium, CommitTransaction, Return,
     StatementFails, ReturnFails, Crash
<1>7. ASSUME NEW m \in Matches, Play(m) \/ JobFinds(m) \/ JobScores(m) PROVE SeedInv'
  BY <1>1, <1>7 DEF Play, JobFinds, JobScores, registrationVars
<1>8. CASE MassNext
  BY <1>1, <1>8 DEF MassNext, MassBegins, MassInserts, MassPredicts, MassCalculates, MassSums,
                    MassCommits, MassDies, MassStep, registrationVars
<1>9. ASSUME NEW q \in Registrations, NEW e \in Emails, NEW n \in Nicknames,
             Begin(q, e, n), UNCHANGED seedVars
      PROVE  SeedInv'
  BY <1>1, <1>9 DEF Begin
<1>10. CASE UNCHANGED vars
  BY <1>1, <1>10 DEF vars, registrationVars
<1> QED BY <1>2, <1>3, <1>4, <1>5, <1>6, <1>7, <1>8, <1>9, <1>10 DEF Next

\* Runs of the seed that do not overlap put the matches into the table once.
THEOREM MatchesSeededOnce == Spec => []SeededOnce
<1>1. Init => SeedInv
  BY DEF Init, RegistrationInit, SeedingInit, SeedInv, SeedAtWork, Unfinished, SeedStates, Empty
<1>2. SeedInv => SeededOnce
  <2> SUFFICES ASSUME SeedInv, ~overlapped PROVE Cardinality(matches) <= 1
    BY DEF SeededOnce
  <2>1. CASE matches = {}
    BY <2>1, FS_EmptySet
  <2>2. ASSUME NEW s \in Seeds, matches = {s} PROVE Cardinality(matches) <= 1
    <3>1. Cardinality({s}) = 1
      BY FS_Singleton
    <3> QED BY <2>2, <3>1
  <2> QED BY <2>1, <2>2 DEF SeedInv
<1> QED BY <1>1, <1>2, SeedStep, PTL DEF Spec

-----------------------------------------------------------------------------
(* The test users.  Their points are those of the rows predicted so far, and    *)
(* only a job that had found none of them still leaves them alone.               *)

MassRow ==
    [pc : {"none", "begun", "inserted", "predicted", "calculated", "summed", "done"},
     found : SUBSET Matches, predicted : SUBSET Matches, points : SUBSET Matches,
     score : [Matches -> Nat], pending : SUBSET Matches, runs : Nat]

MassInv ==
    /\ mass \in MassRow
    /\ matches \subseteq Matches
    /\ played \subseteq Matches
    /\ job \in [Matches -> {"none", "waits", "found", "empty", "done"}]
    /\ mass.predicted \subseteq mass.found \cap played
    /\ mass.pc \in {"calculated", "summed", "done"} => mass.points = mass.predicted
    /\ mass.pc \in {"summed", "done"} =>
          \A m \in Matches \ mass.pending : mass.score[m] = IF m \in mass.points THEN 1 ELSE 0
    /\ \A m \in Matches : job[m] = "found" => mass.pc = "done"
    /\ mass.pc = "done" =>
          \A m \in mass.points : job[m] \in {"waits", "found"} => m \in mass.pending
    /\ mass.pc \notin {"none", "done"} => mass.pending = {}

LEMMA MassStepKeeps == MassInv /\ AccountInv' /\ [Next]_vars => MassInv'
<1> SUFFICES ASSUME MassInv, matches' \subseteq Matches, [Next]_vars PROVE MassInv'
  BY DEF AccountInv, Types
<1>1. ASSUME UNCHANGED massVars PROVE MassInv'
  BY <1>1 DEF massVars, MassInv
<1>2. ASSUME NEW m \in Matches, Play(m) PROVE MassInv'
  BY <1>2 DEF Play, MassInv
<1>3. ASSUME NEW m \in Matches, JobFinds(m) PROVE MassInv'
  BY <1>3 DEF JobFinds, MassInv
<1>4. ASSUME NEW m \in Matches, JobScores(m) PROVE MassInv'
  <2>1. CASE mass' = mass
    BY <1>4, <2>1 DEF JobScores, MassInv
  <2>2. CASE /\ job[m] = "found" /\ m \in mass.predicted
             /\ mass' = [mass EXCEPT !.points = @ \cup {m}, !.score[m] = @ + 1]
    <3>1. mass.pc = "done" /\ m \in mass.points /\ m \in mass.pending
      BY <2>2 DEF MassInv
    <3>2. mass' \in MassRow
      <4>1. mass.score[m] + 1 \in Nat /\ mass.points \cup {m} \in SUBSET Matches
        BY DEF MassInv, MassRow
      <4>2. [mass.score EXCEPT ![m] = @ + 1] \in [Matches -> Nat]
        BY <4>1 DEF MassInv, MassRow
      <4>3. mass' = [mass EXCEPT !.points = mass.points \cup {m},
                                 !.score = [mass.score EXCEPT ![m] = @ + 1]]
        BY <2>2 DEF MassInv, MassRow
      <4> QED BY <4>1, <4>2, <4>3 DEF MassInv, MassRow
    <3>3. /\ mass'.pc = mass.pc /\ mass'.predicted = mass.predicted /\ mass'.points = mass.points
          /\ mass'.pending = mass.pending /\ mass'.found = mass.found
          /\ \A k \in Matches \ {m} : mass'.score[k] = mass.score[k]
      BY <2>2, <3>1 DEF MassInv, MassRow
    <3> QED BY <1>4, <3>1, <3>2, <3>3 DEF JobScores, MassInv
  <2> QED BY <1>4, <2>1, <2>2 DEF JobScores
<1>5. CASE MassBegins
  <2>1. mass.runs + 1 \in Nat
    BY DEF MassInv, MassRow
  <2>2. NoTestUsers \in MassRow
    BY DEF NoTestUsers, MassRow
  <2>3. mass' = [NoTestUsers EXCEPT !.pc = "begun", !.runs = mass.runs + 1]
    BY <1>5 DEF MassBegins, MassStep
  <2>4. mass' \in MassRow
    BY <2>1, <2>2, <2>3 DEF MassRow
  <2>5. mass'.pc = "begun" /\ mass'.predicted = {} /\ mass'.points = {} /\ mass'.pending = {}
    BY <2>3 DEF NoTestUsers
  <2>6. mass.pc = "none"
    BY <1>5 DEF MassBegins, MassStep
  <2> QED BY <1>5, <2>4, <2>5, <2>6 DEF MassBegins, MassStep, massVars, registrationVars, MassInv
<1>6. CASE MassInserts
  BY <1>6 DEF MassInserts, MassStep, MassInv, MassRow
<1>7. CASE MassPredicts
  BY <1>7 DEF MassPredicts, MassStep, MassInv, MassRow
<1>8. CASE MassCalculates
  BY <1>8 DEF MassCalculates, MassPoints, MassStep, MassInv, MassRow
<1>9. CASE MassSums
  BY <1>9 DEF MassSums, MassSum, MassStep, MassInv, MassRow
<1>10. CASE MassCommits
  BY <1>10 DEF MassCommits, MassStep, MassInv, MassRow
<1>11. CASE MassDies
  BY <1>11 DEF MassDies, NoTestUsers, MassInv, MassRow
<1>12. ASSUME NEW s \in Seeds,
              \/ SeedIfEmpty(s) \/ SaveGroups(s) \/ SaveTeams(s) \/ SaveMatches(s)
              \/ SaveConfig(s) \/ SeedDies(s)
       PROVE  MassInv'
  BY <1>1, <1>12 DEF SeedIfEmpty, SaveGroups, SaveTeams, SaveMatches, SaveConfig, SeedDies, SaveKeyed
<1>13. CASE UNCHANGED vars
  BY <1>1, <1>13 DEF vars
<1> QED
  BY <1>1, <1>2, <1>3, <1>4, <1>5, <1>6, <1>7, <1>8, <1>9, <1>10, <1>11, <1>12, <1>13
  DEF Next, MassNext

\* A test user's score is the sum of his points, but for matches whose job was
\* still to read his rows.
THEOREM MassScoresSum == Spec => []MassScoreIsSum
<1>1. Init => MassInv
  BY DEF Init, RegistrationInit, SeedingInit, NoTestUsers, MassInv, MassRow
<1>2. MassInv => MassScoreIsSum
  BY DEF MassInv, MassScoreIsSum
<1> QED BY <1>1, <1>2, MassStepKeeps, AccountsAlways, PTL DEF Spec

-----------------------------------------------------------------------------
(* Types.  What is left of them once the three invariants above hold: bounds,   *)
(* and that a job adds its match to a score at most once.                       *)

Bounds ==
    /\ faults \in 0..MaxFaults
    /\ filled \subseteq {"groups", "teams", "config"}
    /\ played \subseteq matches
    /\ mass.runs \in 0..MaxStarts
    /\ \A m \in Matches : job[m] # "none" => m \in played
    /\ \A m \in Matches : mass.score[m] \in Nat /\ mass.score[m] <= 2
                          /\ (job[m] # "done" => mass.score[m] <= 1)

\* Who has started counts, whatever he does since.
LEMMA StartsAreLeft ==
    ASSUME AccountInv, MassInv, MayStart
    PROVE  mass.runs < MaxStarts
<1> DEFINE R == {q \in Registrations : reg[q].pc # "none"}
           S == {s \in Seeds : seed[s] # "none"}
<1>1. IsFiniteSet(R) /\ IsFiniteSet(S)
  BY RegistrationAssumption, SeedingAssumption, FS_Subset
<1>2. Cardinality(R) \in Nat /\ Cardinality(S) \in Nat
  <2> HIDE DEF R, S
  <2> QED BY <1>1, FS_CardinalityType
<1>3. Cardinality(R) + Cardinality(S) + mass.runs < MaxStarts
  BY DEF MayStart
<1>4. mass.runs \in Nat
  BY DEF MassInv, MassRow
<1> HIDE DEF R, S
<1> QED BY <1>2, <1>3, <1>4, SeedingAssumption

LEMMA BoundsStep == AccountInv /\ MassInv /\ Bounds /\ [Next]_vars => Bounds'
<1> SUFFICES ASSUME AccountInv, MassInv, Bounds, [Next]_vars PROVE Bounds'
  OBVIOUS
<1> USE RegistrationAssumption
<1>0. mass \in MassRow /\ played \subseteq Matches
      /\ job \in [Matches -> {"none", "waits", "found", "empty", "done"}]
  BY DEF MassInv
\* Steps of the registrations and of the seed.
<1>1. ASSUME UNCHANGED massVars, matches \subseteq matches', faults' \in {faults, faults + 1},
             faults' \in 0..MaxFaults, filled' \subseteq {"groups", "teams", "config"}
      PROVE  Bounds'
  BY <1>1 DEF Bounds, massVars
<1>f. faults \in 0..MaxFaults /\ (Fault => faults' = faults + 1 /\ faults' \in 0..MaxFaults)
  BY DEF Bounds, Fault
<1>2. CASE RegistrationNext /\ UNCHANGED <<seedVars, massVars>>
  <2>1. matches' = matches /\ (faults' = faults \/ Fault)
    BY <1>2 DEF RegistrationNext, Proceed, CheckEmail, CheckNickname, Look, Connect,
       StartTransaction, StartFails, InsertUser, FindMatches, WaitEnds, SavePredictions, SavePodium, CommitTransaction, Return,
       StatementFails, ReturnFails, Crash
  <2>2. filled' = filled /\ UNCHANGED massVars
    BY <1>2 DEF seedVars
  <2> QED BY <1>1, <1>f, <2>1, <2>2 DEF Bounds
<1>3. ASSUME NEW q \in Registrations, NEW e \in Emails, NEW n \in Nicknames,
             Begin(q, e, n), UNCHANGED <<seedVars, massVars>>
      PROVE  Bounds'
  BY <1>1, <1>f, <1>3 DEF Begin, seedVars, Bounds
<1>4. ASSUME NEW s \in Seeds,
             \/ SeedIfEmpty(s) \/ SaveGroups(s) \/ SaveTeams(s) \/ SaveMatches(s)
             \/ SaveConfig(s) \/ SeedDies(s)
      PROVE  Bounds'
  <2>1. UNCHANGED massVars /\ matches \subseteq matches' /\ (faults' = faults \/ Fault)
    BY <1>4 DEF SeedIfEmpty, SaveGroups, SaveTeams, SaveMatches, SaveConfig, SeedDies, SaveKeyed,
                registrationVars
  <2>2. filled' \subseteq {"groups", "teams", "config"}
    BY <1>4 DEF SeedIfEmpty, SaveGroups, SaveTeams, SaveMatches, SaveConfig, SeedDies, SaveKeyed,
                Bounds
  <2> QED BY <1>1, <1>f, <2>1, <2>2
\* Steps of the matches and of the test users leave the rest alone.
<1>5. ASSUME UNCHANGED <<filled, matches>>, faults' = faults \/ Fault,
             played \subseteq played', played' \subseteq matches,
             mass'.runs \in 0..MaxStarts,
             \A m \in Matches : job'[m] # "none" => m \in played',
             \A m \in Matches : mass'.score[m] \in Nat /\ mass'.score[m] <= 2
                                /\ (job'[m] # "done" => mass'.score[m] <= 1)
      PROVE  Bounds'
  BY <1>5, <1>f DEF Bounds
<1>6. ASSUME NEW m \in Matches, Play(m) PROVE Bounds'
  <2>1. /\ m \in matches \ played /\ played' = played \cup {m}
        /\ job' = [job EXCEPT ![m] = "waits"] /\ mass' = mass
        /\ UNCHANGED <<filled, matches, faults>>
    BY <1>6 DEF Play, registrationVars, seedVars
  <2>2. job[m] = "none"
    BY <2>1 DEF Bounds
  <2> QED BY <1>0, <1>5, <2>1, <2>2 DEF Bounds
<1>7. ASSUME NEW m \in Matches, JobFinds(m) PROVE Bounds'
  <2>1. /\ job[m] = "waits" /\ \E found \in {"found", "empty"} : job' = [job EXCEPT ![m] = found]
        /\ mass' = mass /\ UNCHANGED <<filled, matches, faults, played>>
    BY <1>7 DEF JobFinds, registrationVars, seedVars
  <2> QED BY <1>0, <1>5, <2>1 DEF Bounds
<1>8. ASSUME NEW m \in Matches, JobScores(m) PROVE Bounds'
  <2>1. /\ job[m] \in {"found", "empty"} /\ job' = [job EXCEPT ![m] = "done"]
        /\ UNCHANGED <<filled, matches, faults, played>>
    BY <1>8 DEF JobScores, registrationVars, seedVars
  <2>2. CASE mass' = mass
    BY <1>0, <1>5, <2>1, <2>2 DEF Bounds
  <2>3. CASE mass' = [mass EXCEPT !.points = @ \cup {m}, !.score[m] = @ + 1]
    <3>1. mass'.runs = mass.runs /\ mass'.score = [mass.score EXCEPT ![m] = @ + 1]
      BY <1>0, <2>3 DEF MassRow
    <3>2. mass.score[m] \in Nat /\ mass.score[m] <= 1
      BY <2>1 DEF Bounds
    <3>3. \A k \in Matches : mass'.score[k] = IF k = m THEN mass.score[m] + 1 ELSE mass.score[k]
      BY <1>0, <3>1 DEF MassRow
    <3>4. ASSUME NEW k \in Matches
          PROVE  /\ mass'.score[k] \in Nat /\ mass'.score[k] <= 2
                 /\ job'[k] # "done" => mass'.score[k] <= 1
      <4>1. CASE k = m
        BY <1>0, <2>1, <3>2, <3>3, <4>1
      <4>2. CASE k # m
        BY <1>0, <2>1, <3>3, <4>2 DEF Bounds
      <4> QED BY <4>1, <4>2
    <3>5. \A k \in Matches : job'[k] # "none" => k \in played'
      BY <1>0, <2>1 DEF Bounds
    <3> QED BY <1>5, <2>1, <3>1, <3>4, <3>5 DEF Bounds
  <2> QED BY <1>8, <2>2, <2>3 DEF JobScores
<1>9. CASE MassNext
  <2>1. /\ UNCHANGED <<filled, matches, played, job>> /\ (faults' = faults \/ Fault)
    BY <1>9 DEF MassNext, MassBegins, MassInserts, MassPredicts, MassCalculates, MassSums,
                MassCommits, MassDies, MassStep, registrationVars, seedVars
  <2>2. mass'.runs \in 0..MaxStarts
    <3>1. CASE MassBegins
      <4>1. mass'.runs = mass.runs + 1 /\ mass.runs < MaxStarts
        BY <3>1, StartsAreLeft DEF MassBegins, MassStep, NoTestUsers
      <4> QED BY <4>1, SeedingAssumption DEF Bounds
    <3>2. CASE ~MassBegins
      <4>1. mass'.runs = mass.runs
        BY <1>0, <1>9, <3>2 DEF MassNext, MassInserts, MassPredicts, MassCalculates, MassSums,
           MassCommits, MassDies, MassStep, MassRow, NoTestUsers
      <4> QED BY <4>1 DEF Bounds
    <3> QED BY <3>1, <3>2
  <2>3. ASSUME NEW m \in Matches PROVE mass'.score[m] = mass.score[m] \/ mass'.score[m] \in {0, 1}
    <3>1. CASE MassBegins \/ MassDies
      BY <3>1, ZenonT(30) DEF MassBegins, MassDies, MassStep, NoTestUsers
    <3>2. CASE MassSums
      BY <1>0, <3>2 DEF MassSums, MassSum, MassStep, MassRow
    <3>3. CASE MassInserts \/ MassPredicts \/ MassCalculates \/ MassCommits
      BY <1>0, <3>3 DEF MassInserts, MassPredicts, MassCalculates, MassCommits, MassStep, MassRow
    <3> QED BY <1>9, <3>1, <3>2, <3>3 DEF MassNext
  <2>4. \A m \in Matches : /\ mass'.score[m] \in Nat /\ mass'.score[m] <= 2
                           /\ job[m] # "done" => mass'.score[m] <= 1
    BY <2>3 DEF Bounds
  <2> QED BY <1>5, <2>1, <2>2, <2>4 DEF Bounds
<1>10. CASE UNCHANGED vars
  BY <1>10 DEF vars, registrationVars, seedVars, massVars, Bounds
<1> QED BY <1>2, <1>3, <1>4, <1>6, <1>7, <1>8, <1>9, <1>10 DEF Next

\* Tables, requests, pool, seeds and test users keep their types: no connection is
\* counted twice, and no job adds its match to a score a second time.
THEOREM SetupTypes == Spec => []TypeOK
<1>1. Init => SeedInv
  BY DEF Init, RegistrationInit, SeedingInit, SeedInv, SeedAtWork, Unfinished, SeedStates, Empty
<1>2. Init => MassInv
  BY DEF Init, RegistrationInit, SeedingInit, NoTestUsers, MassInv, MassRow
<1>3. Init => Bounds
  BY RegistrationAssumption, SeedingAssumption
  DEF Init, RegistrationInit, SeedingInit, NoTestUsers, Bounds
<1>4. AccountInv /\ SeedInv /\ MassInv /\ Bounds => TypeOK
  <2> SUFFICES ASSUME AccountInv, SeedInv, MassInv, Bounds PROVE TypeOK
    OBVIOUS
  <2>1. free \in 0..PoolMax
    <3>1. Cardinality(Holders) \in Nat /\ Cardinality(leaked) \in Nat
      BY FiniteConnections DEF AccountInv, Types
    <3>2. free \in Nat /\ free + Cardinality(Holders) + Cardinality(leaked) = PoolMax
      BY DEF AccountInv, Types, ConnectionsCount
    <3> QED BY <3>1, <3>2, RegistrationAssumption
  <2>2. RegistrationTypeOK
    BY <2>1 DEF AccountInv, Types, RegistrationTypeOK, Bounds
  <2>3. mass \in [pc : {"none", "begun", "inserted", "predicted", "calculated", "summed", "done"},
                 found : SUBSET Matches, predicted : SUBSET Matches, points : SUBSET Matches,
                 score : [Matches -> 0..2], pending : SUBSET Matches, runs : 0..MaxStarts]
    <3>1. mass.score \in [Matches -> 0..2]
      <4>1. \A m \in Matches : mass.score[m] \in 0..2
        BY DEF Bounds
      <4>2. mass.score \in [Matches -> Nat]
        BY DEF MassInv, MassRow
      <4> QED BY <4>1, <4>2
    <3>2. mass.runs \in 0..MaxStarts
      BY DEF Bounds
    <3> QED BY <3>1, <3>2 DEF MassInv, MassRow
  <2> QED BY <2>2, <2>3 DEF TypeOK, SeedInv, SeedStates, MassInv, Bounds
<1> QED BY <1>1, <1>2, <1>3, <1>4, SeedStep, MassStepKeeps, BoundsStep, AccountsAlways, PTL DEF Spec
=============================================================================
