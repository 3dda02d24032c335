---------------------------- MODULE Registration ----------------------------
(***************************************************************************)
(* users/users.service.ts create: an account, a prediction for every match *)
(* and a podium in one transaction, on one connection of the pool, while   *)
(* the matches are read over another.  Every registration has a slot of    *)
(* its own, which stands for the account it makes.                         *)
(***************************************************************************)
EXTENDS Integers, FiniteSetsExt

CONSTANTS
    NULL,
    Registrations,     \* bound: registrations ever made
    Emails, Nicknames,
    Matches,           \* what may be in the table matches
    PoolMax,           \* DB_POOL_MAX
    MaxFaults          \* bound: failures in one behaviour

ASSUME RegistrationAssumption ==
    /\ IsFiniteSet(Registrations)
    /\ PoolMax \in Nat \ {0}
    /\ MaxFaults \in Nat

VARIABLES
    reg,       \* the requests
    users,     \* table users: the accounts, with their email and nickname
    predicted, \* table user_matches: the matches each account has a row for
    podiums,   \* table user_podiums: the accounts that have a row
    matches,   \* table matches
    free,      \* connections of the pool that nobody holds
    leaked,    \* requests that ended and hold their connection for ever
    faults     \* failures so far

registrationVars == <<reg, users, predicted, podiums, matches, free, leaked, faults>>

\* found: the matches it read.
Unmade == [pc |-> "none", email |-> NULL, nickname |-> NULL, found |-> {}, answer |-> "none"]

\* It holds a connection, on which its transaction is to begin, open, or just ended.
InTransaction == {"begun", "inserted", "read", "predicted", "whole"}
Holding == {"connected"} \cup InTransaction \cup {"committed"}

Holds(q) == reg[q].pc \in Holding

Step(q, pc) == reg' = [reg EXCEPT ![q].pc = pc]

Fault == faults < MaxFaults /\ faults' = faults + 1

\* What the open transactions have inserted, not yet visible to the others.
Uncommitted == {q \in Registrations : reg[q].pc \in InTransaction \ {"begun"}}

Clash(q, r) == reg[q].email = reg[r].email \/ reg[q].nickname = reg[r].nickname

-----------------------------------------------------------------------------
Begin(q, email, nickname) ==
    /\ reg[q].pc = "none"
    /\ reg' = [reg EXCEPT ![q] = [Unmade EXCEPT !.pc = "new", !.email = email, !.nickname = nickname]]
    /\ UNCHANGED <<users, predicted, podiums, matches, free, leaked, faults>>

\* MUTANT of Refuse: the connection of a failed request is not released.
RefuseKeepsConnection(q) ==
    /\ reg' = [reg EXCEPT ![q].pc = "done", ![q].answer = "refused"]
    /\ UNCHANGED free

\* MUTANT of Refuse: a connection is released that was never taken.
RefuseAlwaysReleases(q) ==
    /\ reg' = [reg EXCEPT ![q].pc = "done", ![q].answer = "refused"]
    /\ free' = free + 1

\* The error is answered; what the transaction wrote is rolled back, its
\* connection released.
Refuse(q) ==
    /\ reg' = [reg EXCEPT ![q].pc = "done", ![q].answer = "refused"]
    /\ free' = IF Holds(q) THEN free + 1 ELSE free

\* A statement outside the transaction takes a connection for as long as it runs.
Look(q, pc, found, next) ==
    /\ reg[q].pc = pc
    /\ free > 0
    /\ IF found
       THEN Refuse(q)
       ELSE Step(q, next) /\ UNCHANGED free
    /\ UNCHANGED <<users, predicted, podiums, matches, leaked, faults>>

CheckEmail(q) ==
    Look(q, "new", \E r \in users : reg[r].email = reg[q].email, "looked")

CheckNickname(q) ==
    Look(q, "looked", \E r \in users : reg[r].nickname = reg[q].nickname, "hashed")

\* queryRunner.connect()
Connect(q) ==
    /\ reg[q].pc = "hashed"
    /\ free > 0
    /\ free' = free - 1
    /\ Step(q, "connected")
    /\ UNCHANGED <<users, predicted, podiums, matches, leaked, faults>>

StartTransaction(q) ==
    /\ reg[q].pc = "connected"
    /\ Step(q, "begun")
    /\ UNCHANGED <<users, predicted, podiums, matches, free, leaked, faults>>

\* START TRANSACTION is refused before the try begins: the error is answered, and
\* no finally releases the connection.
StartFails(q) ==
    /\ reg[q].pc = "connected"
    /\ Fault
    /\ reg' = [reg EXCEPT ![q].pc = "done", ![q].answer = "refused"]
    /\ leaked' = leaked \cup {q}
    /\ UNCHANGED <<users, predicted, podiums, matches, free>>

\* MUTANT of Unique: the schema has no unique constraints.
UniqueNever(q) == TRUE

\* UNIQUE (email), UNIQUE (nickname)
Unique(q) == \A r \in users : ~Clash(q, r)

\* INSERT INTO users: waits for an open transaction that inserted the same value.
InsertUser(q) ==
    /\ reg[q].pc = "begun"
    /\ \A r \in Uncommitted : ~Clash(q, r)
    /\ IF Unique(q)
       THEN Step(q, "inserted") /\ UNCHANGED free
       ELSE Refuse(q)
    /\ UNCHANGED <<users, predicted, podiums, matches, leaked, faults>>

\* this.matchRepository.find(): not the transaction's connection, but another.
FindMatches(q) ==
    /\ reg[q].pc = "inserted"
    /\ free > 0
    /\ reg' = [reg EXCEPT ![q].pc = "read", ![q].found = matches]
    /\ UNCHANGED <<users, predicted, podiums, matches, free, leaked, faults>>

Waiting(q) == reg[q].pc \in {"new", "looked", "hashed", "inserted"} /\ free = 0

\* MUTANT of WaitEnds: the pool has no connectionTimeoutMillis.
WaitEndsNever(q) == FALSE

\* connectionTimeoutMillis: 5000
WaitEnds(q) ==
    /\ Waiting(q)
    /\ Refuse(q)
    /\ UNCHANGED <<users, predicted, podiums, matches, leaked, faults>>

\* queryRunner.manager.save(predictions), save(podium): rows of the transaction.
SavePredictions(q) ==
    /\ reg[q].pc = "read"
    /\ Step(q, "predicted")
    /\ UNCHANGED <<users, predicted, podiums, matches, free, leaked, faults>>

\* MUTANT of SavePodium: the podium is committed before the predictions are saved.
SavePodiumFirst(q) ==
    /\ reg[q].pc = "read"
    /\ podiums' = podiums \cup {q}
    /\ users' = users \cup {q}
    /\ Step(q, "whole")
    /\ UNCHANGED <<predicted, matches, free, leaked, faults>>

SavePodium(q) ==
    /\ reg[q].pc = "predicted"
    /\ Step(q, "whole")
    /\ UNCHANGED <<users, predicted, podiums, matches, free, leaked, faults>>

CommitTransaction(q) ==
    /\ reg[q].pc = "whole"
    /\ users' = users \cup {q}
    /\ predicted' = [predicted EXCEPT ![q] = reg[q].found]
    /\ podiums' = podiums \cup {q}
    /\ Step(q, "committed")
    /\ UNCHANGED <<matches, free, leaked, faults>>

\* delByPrefix, emitUserRegistered, release.
Return(q) ==
    /\ reg[q].pc = "committed"
    /\ reg' = [reg EXCEPT ![q].pc = "done", ![q].answer = "created"]
    /\ free' = free + 1
    /\ UNCHANGED <<users, predicted, podiums, matches, leaked, faults>>

\* Another statement fails: its transaction is rolled back.
StatementFails(q) ==
    /\ reg[q].pc \notin {"none", "connected", "committed", "done"}
    /\ Fault
    /\ Refuse(q)
    /\ UNCHANGED <<users, predicted, podiums, matches, leaked>>

\* delByPrefix fails: there is no transaction left to roll back, the error is
\* answered although the account is there.
ReturnFails(q) ==
    /\ reg[q].pc = "committed"
    /\ Fault
    /\ reg' = [reg EXCEPT ![q].pc = "done", ![q].answer = "failed"]
    /\ free' = free + 1
    /\ UNCHANGED <<users, predicted, podiums, matches, leaked>>

\* The process dies, its pool with it: open transactions are rolled back, nobody
\* is answered.
Crash ==
    /\ Fault
    /\ reg' = [q \in Registrations |->
                  IF reg[q].pc = "none" THEN reg[q] ELSE [reg[q] EXCEPT !.pc = "done"]]
    /\ free' = PoolMax
    /\ leaked' = {}
    /\ UNCHANGED <<users, predicted, podiums, matches>>

-----------------------------------------------------------------------------
RegistrationInit ==
    /\ reg = [q \in Registrations |-> Unmade]
    /\ users = {}
    /\ predicted = [q \in Registrations |-> {}]
    /\ podiums = {}
    /\ matches = {}
    /\ free = PoolMax
    /\ leaked = {}
    /\ faults = 0

Proceed(q) ==
    \/ CheckEmail(q) \/ CheckNickname(q) \/ Connect(q) \/ StartTransaction(q)
    \/ InsertUser(q) \/ FindMatches(q) \/ WaitEnds(q) \/ SavePredictions(q) \/ SavePodium(q)
    \/ CommitTransaction(q) \/ Return(q)

RegistrationNext ==
    \/ \E q \in Registrations :
          Proceed(q) \/ StartFails(q) \/ StatementFails(q) \/ ReturnFails(q)
    \/ Crash

-----------------------------------------------------------------------------
RequestRow ==
    [pc : {"none", "new", "looked", "hashed", "done"} \cup Holding,
     email : Emails \cup {NULL}, nickname : Nicknames \cup {NULL}, found : SUBSET Matches,
     answer : {"none", "created", "refused", "failed"}]

RegistrationTypeOK ==
    /\ reg \in [Registrations -> RequestRow]
    /\ users \subseteq Registrations
    /\ predicted \in [Registrations -> SUBSET Matches]
    /\ podiums \subseteq Registrations
    /\ matches \subseteq Matches
    /\ free \in 0..PoolMax
    /\ leaked \subseteq Registrations
    /\ faults \in 0..MaxFaults

\* No two accounts share an email or a nickname, however many registrations
\* pass the two lookups at the same time.
AccountsAreUnique ==
    \A q, r \in users : q # r => ~Clash(q, r)

\* Every path out of create gives the connection back but one: a connection that
\* is neither free nor held by a request at work is that of a START TRANSACTION
\* refused since the process started, and each of these took a failure of its own.
ConnectionsReturn ==
    /\ free + Cardinality({q \in Registrations : Holds(q)}) + Cardinality(leaked) = PoolMax
    /\ Cardinality(leaked) <= faults

\* Every registration ends, also when all connections are held by registrations
\* that wait for a second one: the pool gives up after its timeout.
RegistrationsEnd ==
    \A q \in Registrations : reg[q].pc = "new" ~> reg[q].pc = "done"

-----------------------------------------------------------------------------
(* create implements the directory.  A row in any of the tables is an entry. *)

Accounts ==
    [q \in Registrations |->
        IF q \in users \cup podiums \/ predicted[q] # {}
        THEN [email |-> reg[q].email, nickname |-> reg[q].nickname,
              predicted |-> predicted[q], whole |-> q \in users /\ q \in podiums]
        ELSE [none |-> TRUE]]

Told == [q \in Registrations |-> reg[q].answer]

DY == INSTANCE Directory WITH account <- Accounts, told <- Told, table <- matches

\* Registering is atomic to everybody else and its answer true: whatever the
\* requests that run beside it, the pool and the failures do, the rows of an
\* account appear in one step, under an email and a nickname that are free, and
\* nobody is answered "created" without one, or an error with one to come.
KeepsDirectory == DY!Spec
=============================================================================
