---------------------------- MODULE UserAccounts ----------------------------
(***************************************************************************)
(* The rows of users under the requests that change them: setActive,       *)
(* updateUser (nickname, password), requestPasswordReset (all in           *)
(* users/users.service.ts) and the avatar upload (users/users.controller.ts *)
(* and updateProfileImage), and under the scoring job, which adds to       *)
(* users.score.  Every request loads the whole row, awaits something (a    *)
(* count, a lookup, a mail, a hash), and saves the whole entity.           *)
(***************************************************************************)
EXTENDS Integers, FiniteSetsExt, EntitySave

CONSTANTS
    NULL,
    Accounts,
    Admins,        \* the accounts whose role is 'admin'
    Requests,      \* concurrent requests
    Kinds,         \* which requests are made: "status", "profile", "reset", "image"
    Nicknames,     \* every account starts with the nickname that is its own name here
    Chosen,        \* passwords (their hashes) that owners choose
    Temporary,     \* temporary passwords, drawn at random: no two are equal
    ImageTypes,    \* the declared image types
    MaxRequests,   \* bound: requests ever made
    MaxScore,      \* bound: points the scoring job ever adds
    MaxFaults      \* bound: failures in one behaviour

AllKinds == {"status", "profile", "reset", "image"}

ASSUME AccountsAssumption ==
    /\ IsFiniteSet(Accounts)
    /\ Accounts \subseteq Nicknames
    /\ Chosen # {}
    /\ Admins \subseteq Accounts
    /\ Kinds \subseteq AllKinds
    /\ NULL \notin Accounts \cup Nicknames \cup Chosen \cup Temporary \cup ImageTypes
    /\ Chosen \cap Temporary = {}
    /\ MaxRequests \in Nat /\ MaxScore \in Nat /\ MaxFaults \in Nat

VARIABLES
    user,       \* table users, by account
    avatar,     \* the extensions of the avatar files on disk, by account
    req,        \* the requests
    known,      \* history: the passwords the owner chose or was mailed, by account
    credited,   \* history: the points the scoring job added, by account
    exposed,    \* history: accounts credited while a request held an older row
    raced,      \* history: accounts that two requests at work had in common
    torn,       \* history: accounts whose files an upload changed that saved no row since
    requests,   \* requests so far
    faults      \* failures so far

vars == <<user, avatar, req, known, credited, exposed, raced, torn, requests, faults>>

Passwords == Chosen \cup Temporary

\* const ext = declaredType === 'jpeg' ? 'jpg' : declaredType
Extension(type) == IF type = "jpeg" THEN "jpg" ELSE type

Extensions == {Extension(type) : type \in ImageTypes}

UserRow ==
    [nickname : Nicknames, password : Passwords, is_temp_password : BOOLEAN,
     temp_password_expires : Temporary \cup {NULL},   \* the password whose 15 minutes it ends
     score : Nat, profile_image : Extensions \cup {NULL}, is_active : BOOLEAN]

NoRow ==
    [nickname |-> NULL, password |-> NULL, is_temp_password |-> FALSE,
     temp_password_expires |-> NULL, score |-> 0, profile_image |-> NULL, is_active |-> FALSE]

\* What a request is to write: a status, a declared image type, or what is left
\* to do of an updateUser.  own: an upload is to the account of the one who asks.
Idle ==
    [kind |-> "none", pc |-> "idle", account |-> NULL, active |-> FALSE, image |-> NULL,
     own |-> TRUE, nickname |-> NULL, password |-> NULL, entity |-> NoRow, seen |-> NoRow]

-----------------------------------------------------------------------------
(* Which requests meet on an account *)

\* q has begun to read what it will change.
AtWork(q) == req[q].pc \notin {"idle", "begun"}

\* Deactivations look at all admins, so they meet wherever they are at work.
Meets(q, r) ==
    \/ req[q].account = req[r].account
    \/ req[q].kind = "status" /\ req[r].kind = "status"

MeetingAccounts(q) ==
    LET met == {r \in Requests \ {q} : AtWork(r) /\ Meets(q, r)}
    IN IF met = {} THEN {} ELSE {req[q].account} \cup {req[r].account : r \in met}

\* The entity q loaded will still be compared with a later row.
HoldsOldRow(q) ==
    \/ req[q].pc \in {"found", "ready"}
    \/ req[q].pc = "selected" /\ req[q].password # NULL

Fault == faults < MaxFaults /\ faults' = faults + 1

\* The account whose files q has changed, if it ends now without saving its row.
Abandoned(q) == IF req[q].kind = "image" /\ AtWork(q) THEN {req[q].account} ELSE {}

\* The handler throws, or is done.
Leave(q) == req' = [req EXCEPT ![q] = Idle]

-----------------------------------------------------------------------------
(* A request arrives.  JwtStrategy.validate lets active accounts in; a reset *)
(* needs no token.                                                           *)

Begin(q, request) ==
    /\ req[q].pc = "idle"
    /\ request.kind \in Kinds
    /\ requests < MaxRequests
    /\ requests' = requests + 1
    /\ req' = [req EXCEPT ![q] = request]

Authenticated(a) == user[a].is_active

\* setActive(adminId, userId, isActive): never one's own account.
BeginStatus(q) ==
    /\ \E admin \in Admins : \E a \in Accounts \ {admin}, active \in BOOLEAN :
           /\ Authenticated(admin)
           /\ Begin(q, [Idle EXCEPT !.kind = "status", !.pc = "begun", !.account = a,
                                    !.active = active])
    /\ UNCHANGED <<user, avatar, known, credited, exposed, raced, torn, faults>>

\* updateUser(userId, requestUserId, { nickname?, password? }), by the owner.
\* Bound on the inputs: the password is one the account never had.
BeginProfile(q) ==
    /\ \E a \in Accounts, n \in Nicknames \cup {NULL}, p \in Chosen \cup {NULL} :
           /\ Authenticated(a)
           /\ n # NULL \/ p # NULL
           /\ p \notin known[a]
           /\ Begin(q, [Idle EXCEPT !.kind = "profile", !.pc = "begun", !.account = a,
                                    !.nickname = n, !.password = p])
           /\ known' = [known EXCEPT ![a] = @ \cup ({p} \ {NULL})]
    /\ UNCHANGED <<user, avatar, credited, exposed, raced, torn, faults>>

BeginReset(q) ==
    /\ \E a \in Accounts :
           Begin(q, [Idle EXCEPT !.kind = "reset", !.pc = "begun", !.account = a])
    /\ UNCHANGED <<user, avatar, known, credited, exposed, raced, torn, faults>>

\* uploadAvatar looks at the image, not at whose account it is for.
BeginUpload(q) ==
    /\ \E asking, a \in Accounts, type \in ImageTypes :
           /\ Authenticated(asking)
           /\ Begin(q, [Idle EXCEPT !.kind = "image", !.pc = "begun", !.account = a,
                                    !.image = type, !.own = (asking = a)])
    /\ UNCHANGED <<user, avatar, known, credited, exposed, raced, torn, faults>>

-----------------------------------------------------------------------------
(* uploadAvatar, before it calls updateProfileImage *)

\* Every avatar of another extension is unlinked, or left where that fails:
\* .catch(() => {}).
UnlinkOthers(q) ==
    LET a == req[q].account
    IN /\ req[q].kind = "image" /\ req[q].pc = "begun"
       /\ \/ /\ avatar' = [avatar EXCEPT ![a] = @ \cap {Extension(req[q].image)}]
             /\ UNCHANGED faults
          \/ /\ Fault
             /\ UNCHANGED avatar
       /\ req' = [req EXCEPT ![q].pc = "cleared"]
       /\ raced' = raced \cup MeetingAccounts(q)
       /\ UNCHANGED <<user, known, credited, exposed, torn, requests>>

WriteFile(q) ==
    /\ req[q].pc = "cleared"
    /\ avatar' = [avatar EXCEPT ![req[q].account] = @ \cup {Extension(req[q].image)}]
    /\ req' = [req EXCEPT ![q].pc = "written"]
    /\ UNCHANGED <<user, known, credited, exposed, raced, torn, requests, faults>>

-----------------------------------------------------------------------------
(* findOne, and what each handler does to the entity before it saves *)

\* MUTANT of WithPassword: the flag is cleared, its deadline is not.
WithPasswordKeepsDeadline(row, password) ==
    [row EXCEPT !.password = password, !.is_temp_password = FALSE]

WithPassword(row, password) ==
    [row EXCEPT !.password = password, !.is_temp_password = FALSE,
                !.temp_password_expires = NULL]

WithTempPassword(row, password) ==
    [row EXCEPT !.password = password, !.is_temp_password = TRUE,
                !.temp_password_expires = password]

Renames(r) == r.nickname \notin {NULL, r.entity.nickname}

\* MUTANT of ImageUrl: it is made of the declared type.
ImageUrlDeclared(type) == type

\* imageUrl is made of the file's name.
ImageUrl(type) == Extension(type)

\* How far a handler comes on its own, hashing included, with the entity it
\* holds: to save(), to the next query or mail ("found"), or to its end.
GoOn(r) ==
    CASE r.kind = "image" ->
            [r EXCEPT !.pc = "ready", !.entity.profile_image = ImageUrl(r.image)]
      [] r.kind = "profile" /\ ~Renames(r) ->
            IF r.password = NULL THEN Idle
            ELSE [r EXCEPT !.pc = "ready", !.password = NULL,
                           !.entity = WithPassword(@, r.password)]
      [] OTHER -> [r EXCEPT !.pc = "found"]

FindUser(q) ==
    /\ req[q].pc = IF req[q].kind = "image" THEN "written" ELSE "begun"
    /\ req[q].own
    /\ req' = [req EXCEPT ![q] = GoOn([@ EXCEPT !.entity = user[req[q].account]])]
    /\ raced' = raced \cup MeetingAccounts(q)
    /\ UNCHANGED <<user, avatar, known, credited, exposed, torn, requests, faults>>

\* if (userId !== requestUserId) throw: the files are what they have become.
Forbid(q) ==
    /\ req[q].pc = "written" /\ ~req[q].own
    /\ Leave(q)
    /\ torn' = torn \cup Abandoned(q)
    /\ UNCHANGED <<user, avatar, known, credited, exposed, raced, requests, faults>>

Ready(q, entity) == req' = [req EXCEPT ![q].pc = "ready", ![q].entity = entity]

ActiveAdmins == {a \in Admins : user[a].is_active}

\* MUTANT of MayChange: the last admin is not looked for.
MayChangeAlways(a, active) == TRUE

\* if (!isActive && user.role === 'admin') ... activeAdmins <= 1
MayChange(a, active) ==
    active \/ a \notin Admins \/ Cardinality(ActiveAdmins) > 1

CountAdmins(q) ==
    /\ req[q].kind = "status" /\ req[q].pc = "found"
    /\ IF MayChange(req[q].account, req[q].active)
       THEN Ready(q, [req[q].entity EXCEPT !.is_active = req[q].active])
       ELSE Leave(q)
    /\ UNCHANGED <<user, avatar, known, credited, exposed, raced, torn, requests, faults>>

NicknameTaken(a, nickname) == \E b \in Accounts \ {a} : user[b].nickname = nickname

CheckNickname(q) ==
    /\ req[q].kind = "profile" /\ req[q].pc = "found"
    /\ IF NicknameTaken(req[q].account, req[q].nickname)
       THEN Leave(q)
       ELSE Ready(q, [req[q].entity EXCEPT !.nickname = req[q].nickname])
    /\ UNCHANGED <<user, avatar, known, credited, exposed, raced, torn, requests, faults>>

\* sendPasswordReset resolves: the owner has the mail.
SendMail(q) ==
    /\ req[q].kind = "reset" /\ req[q].pc = "found"
    /\ \E t \in Temporary \ known[req[q].account] :
           /\ Ready(q, WithTempPassword(req[q].entity, t))
           /\ known' = [known EXCEPT ![req[q].account] = @ \cup {t}]
    /\ UNCHANGED <<user, avatar, credited, exposed, raced, torn, requests, faults>>

\* MUTANT of MailFails: the error is caught and the reset goes on.
MailFailsUnnoticed(q) ==
    /\ req[q].kind = "reset" /\ req[q].pc = "found"
    /\ Fault
    /\ \E t \in Temporary \ known[req[q].account] : Ready(q, WithTempPassword(req[q].entity, t))
    /\ UNCHANGED <<user, avatar, known, credited, exposed, raced, torn, requests>>

\* sendPasswordReset throws.
MailFails(q) ==
    /\ req[q].kind = "reset" /\ req[q].pc = "found"
    /\ Fault
    /\ Leave(q)
    /\ UNCHANGED <<user, avatar, known, credited, exposed, raced, torn, requests>>

-----------------------------------------------------------------------------
(* save(user), and what follows it *)

SelectUser(q) ==
    /\ req[q].pc = "ready"
    /\ req' = [req EXCEPT ![q].pc = "selected", ![q].seen = user[req[q].account]]
    /\ UNCHANGED <<user, avatar, known, credited, exposed, raced, torn, requests, faults>>

UpdateUser(q) ==
    LET a == req[q].account
        row == Saved(req[q].entity, req[q].seen, user[a])
    IN /\ req[q].pc = "selected"
       /\ ~NicknameTaken(a, row.nickname)
       /\ user' = [user EXCEPT ![a] = row]
       /\ torn' = IF req[q].kind = "image" THEN torn \ {a} ELSE torn
       /\ IF req[q].password = NULL THEN Leave(q)
          ELSE req' = [req EXCEPT ![q] = GoOn([@ EXCEPT !.nickname = NULL, !.seen = NoRow])]
       /\ UNCHANGED <<avatar, known, credited, exposed, raced, requests, faults>>

\* UNIQUE (nickname): another account took the name since it was looked up.
UpdateConflicts(q) ==
    LET a == req[q].account
    IN /\ req[q].pc = "selected"
       /\ NicknameTaken(a, Saved(req[q].entity, req[q].seen, user[a]).nickname)
       /\ Leave(q)
       /\ torn' = torn \cup Abandoned(q)
       /\ UNCHANGED <<user, avatar, known, credited, exposed, raced, requests, faults>>

\* A query or a file operation is refused: the error is answered.
QueryFails(q) ==
    /\ req[q].pc # "idle"
    /\ Fault
    /\ Leave(q)
    /\ torn' = torn \cup Abandoned(q)
    /\ UNCHANGED <<user, avatar, known, credited, exposed, raced, requests>>

-----------------------------------------------------------------------------
(* The others *)

\* UPDATE users SET score = score + points, one point at a time.
Credit(a) ==
    /\ MapThenSumSet(LAMBDA b : credited[b], Accounts) < MaxScore
    /\ user' = [user EXCEPT ![a].score = @ + 1]
    /\ credited' = [credited EXCEPT ![a] = @ + 1]
    /\ exposed' = IF \E q \in Requests : req[q].account = a /\ HoldsOldRow(q)
                  THEN exposed \cup {a} ELSE exposed
    /\ UNCHANGED <<avatar, req, known, raced, torn, requests, faults>>

\* The process dies with its requests.
Crash ==
    /\ Fault
    /\ req' = [q \in Requests |-> Idle]
    /\ torn' = torn \cup UNION {Abandoned(q) : q \in Requests}
    /\ UNCHANGED <<user, avatar, known, credited, exposed, raced, requests>>

-----------------------------------------------------------------------------
FirstPassword == CHOOSE p \in Chosen : TRUE

\* Accounts as an operator created them: a nickname of their own, a chosen
\* password, no avatar; every admin is active.
Init ==
    /\ \E active \in SUBSET Accounts :
           /\ Admins \subseteq active
           /\ user = [a \in Accounts |->
                  [nickname |-> a, password |-> FirstPassword, is_temp_password |-> FALSE,
                   temp_password_expires |-> NULL, score |-> 0, profile_image |-> NULL,
                   is_active |-> a \in active]]
    /\ known = [a \in Accounts |-> {FirstPassword}]
    /\ avatar = [a \in Accounts |-> {}]
    /\ req = [q \in Requests |-> Idle]
    /\ credited = [a \in Accounts |-> 0]
    /\ exposed = {}
    /\ raced = {}
    /\ torn = {}
    /\ requests = 0
    /\ faults = 0

RequestNext(q) ==
    \/ BeginStatus(q) \/ BeginProfile(q) \/ BeginReset(q) \/ BeginUpload(q)
    \/ UnlinkOthers(q) \/ WriteFile(q) \/ Forbid(q) \/ FindUser(q)
    \/ CountAdmins(q) \/ CheckNickname(q)
    \/ SendMail(q) \/ MailFails(q)
    \/ SelectUser(q) \/ UpdateUser(q) \/ UpdateConflicts(q)
    \/ QueryFails(q)

Next ==
    \/ \E q \in Requests : RequestNext(q)
    \/ \E a \in Accounts : Credit(a)
    \/ Crash

Spec == Init /\ [][Next]_vars

-----------------------------------------------------------------------------
Request(pcs, entities, rows) ==
    [kind : AllKinds, pc : pcs, account : Accounts, active : BOOLEAN,
     image : ImageTypes \cup {NULL}, own : BOOLEAN, nickname : Nicknames \cup {NULL},
     password : Chosen \cup {NULL}, entity : entities, seen : rows]

RequestRow ==
    {r \in Request({"begun", "cleared", "written"}, {NoRow}, {NoRow})
           \cup Request({"found", "ready"}, UserRow, {NoRow})
           \cup Request({"selected"}, UserRow, UserRow) :
        /\ r.kind = "image" <=> r.image # NULL
        /\ r.pc \in {"cleared", "written"} => r.kind = "image"
        /\ ~r.own => r.kind = "image" /\ r.pc \in {"begun", "cleared", "written"}
        /\ r.kind = "profile" /\ r.pc = "found" => Renames(r)}

TypeOK ==
    /\ user \in [Accounts -> UserRow]
    /\ avatar \in [Accounts -> SUBSET Extensions]
    /\ req \in [Requests -> RequestRow \cup {Idle}]
    /\ known \in [Accounts -> SUBSET Passwords]
    /\ credited \in [Accounts -> Nat]
    /\ exposed \subseteq Accounts
    /\ raced \subseteq Accounts
    /\ torn \subseteq Accounts
    /\ requests \in 0..MaxRequests
    /\ faults \in 0..MaxFaults

\* However requests overlap, mails fail and the process crashes, the password of
\* an account is one its owner chose or was mailed: requestPasswordReset mails
\* first and stores then, and nobody is locked out.
PasswordIsKnown == \A a \in Accounts : user[a].password \in known[a]

\* A whole-row save takes no points from a player whose points came while no
\* request held an older copy of his row, whatever else it overlaps with.
CreditsStand == \A a \in Accounts \ exposed : user[a].score = credited[a]

PasswordColumns(row) ==
    /\ row.is_temp_password <=> row.password \in Temporary
    /\ row.temp_password_expires = IF row.password \in Temporary THEN row.password ELSE NULL

\* A temporary password is flagged and expires, a chosen one is not and does
\* not, on every account whose requests never overlapped.
PasswordColumnsAgree == \A a \in Accounts \ raced : PasswordColumns(user[a])

\* An admin always remains, if no two requests met: also when the one who asks
\* for a deactivation is deactivated between the guard and the handler.
AnAdminStaysAlone == raced = {} /\ Admins # {} => ActiveAdmins # {}

\* "un admin no puede auto-desactivarse ni desactivar al ultimo admin activo"
\* (src/README.md).
AnAdminStays == Admins # {} => ActiveAdmins # {}

\* profile_image names a file that is there, whatever fails, on every account
\* whose requests never overlapped: but while an upload to it is under way, and
\* from one that ended before it saved the row (a stranger's, which is refused
\* when its files are written, or one that failed) until the owner's next.
AvatarExists ==
    \A a \in Accounts \ (raced \cup torn) :
        \/ user[a].profile_image \in avatar[a] \cup {NULL}
        \/ \E q \in Requests : req[q].account = a /\ req[q].kind = "image"

=============================================================================
