--------------------------- MODULE AccountProofs ---------------------------
(***************************************************************************)
(* Theorems of the user accounts, for any number of accounts and requests. *)
(***************************************************************************)
EXTENDS UserAccounts, FiniteSetTheorems, TLAPS

-----------------------------------------------------------------------------
(* The inductive invariant, in the parts the properties rest on *)

Loaded(q) == req[q].pc \in {"found", "ready", "selected"}

\* Whatever a request may store as a password, the owner knows.
PasswordsInv ==
    /\ PasswordIsKnown
    /\ \A q \in Requests :
           /\ req[q].password # NULL => req[q].password \in known[req[q].account]
           /\ Loaded(q) => req[q].entity.password \in known[req[q].account]

\* Until an account is exposed an entity that will be compared again has its
\* score, and one that is about to be written has the score it is compared with.
CreditsInv ==
    /\ CreditsStand
    /\ \A q \in Requests : Loaded(q) /\ req[q].account \notin exposed =>
           /\ HoldsOldRow(q) => req[q].entity.score = user[req[q].account].score
           /\ req[q].pc = "selected" => req[q].entity.score = req[q].seen.score

\* On an account whose requests never overlapped one request is at work, its
\* entity is coherent, and what it is compared with is the row, but for points.
AloneInv ==
    /\ PasswordColumnsAgree
    /\ \A q \in Requests : AtWork(q) /\ req[q].account \notin raced =>
           /\ \A r \in Requests \ {q} : AtWork(r) => ~Meets(q, r)
           /\ Loaded(q) =>
                 /\ PasswordColumns(req[q].entity)
                 /\ req[q].kind # "status" =>
                       req[q].entity.is_active = user[req[q].account].is_active
           /\ req[q].pc = "selected" =>
                 \A c \in DOMAIN NoRow \ {"score"} :
                     req[q].seen[c] = user[req[q].account][c]

\* A deactivation that passed the count leaves another admin.
AdminsInv ==
    /\ AnAdminStaysAlone
    /\ raced = {} =>
           \A q \in Requests :
               /\ req[q].kind = "status" /\ req[q].pc \in {"ready", "selected"}
               /\ ~req[q].entity.is_active
               /\ req[q].account \in Admins
               => \E b \in Admins \ {req[q].account} : user[b].is_active

NicknamesDiffer == \A a, b \in Accounts : a # b => user[a].nickname # user[b].nickname

\* What a request that is alone on its account knows of the row and the files: an
\* upload has written the file its entity will name, and since no nickname is
\* taken its save will go through; the others leave the column as it is.
Pictured(r, row, files) ==
    IF r.kind = "image"
    THEN /\ r.pc \in {"written", "ready", "selected"} => Extension(r.image) \in files
         /\ r.pc \in {"found", "ready", "selected"} =>
               /\ r.entity.profile_image = Extension(r.image)
               /\ r.entity.nickname = row.nickname
    ELSE r.pc \in {"found", "ready", "selected"} => r.entity.profile_image = row.profile_image

\* A row names a file that is missing only while an upload that may name another
\* is at work, or since one ended before it saved the row.
AvatarInv ==
    /\ NicknamesDiffer
    /\ \A a \in Accounts \ (raced \cup torn) :
           \/ user[a].profile_image \in avatar[a] \cup {NULL}
           \/ \E q \in Requests : AtWork(q) /\ req[q].account = a /\ req[q].kind = "image"
    /\ \A q \in Requests : AtWork(q) /\ req[q].account \notin raced =>
           Pictured(req[q], user[req[q].account], avatar[req[q].account])

AccountsInv == PasswordsInv /\ CreditsInv /\ AloneInv /\ AdminsInv /\ AvatarInv

-----------------------------------------------------------------------------
(* What the helpers return. *)

LEMMA SavedUser ==
    ASSUME NEW e \in UserRow, NEW s, NEW row \in UserRow
    PROVE  /\ Saved(e, s, row) \in UserRow
           /\ \A c \in DOMAIN NoRow :
                 Saved(e, s, row)[c] = IF e[c] # s[c] THEN e[c] ELSE row[c]
  BY DEF Saved, UserRow, NoRow

LEMMA ExtensionType ==
    ASSUME NEW type \in ImageTypes
    PROVE  Extension(type) \in Extensions /\ ImageUrl(type) \in Extensions
  BY DEF Extensions, ImageUrl

LEMMA ProfileImageType ==
    ASSUME NEW row \in UserRow, NEW type \in ImageTypes
    PROVE  [row EXCEPT !.profile_image = ImageUrl(type)] \in UserRow
  BY ExtensionType DEF UserRow

LEMMA WithPasswordType ==
    ASSUME NEW row \in UserRow, NEW p \in Chosen
    PROVE  WithPassword(row, p) \in UserRow
  BY DEF WithPassword, UserRow, Passwords

LEMMA WithTempPasswordType ==
    ASSUME NEW row \in UserRow, NEW t \in Temporary
    PROVE  WithTempPassword(row, t) \in UserRow
  BY DEF WithTempPassword, UserRow, Passwords

\* A request that has its entity and nothing selected yet.
Fresh == {r \in Request({"begun", "written", "found", "selected"}, UserRow, {NoRow}) :
             r.own /\ (r.kind = "image" <=> r.image # NULL)}

LEMMA GoOnType ==
    ASSUME NEW r \in Fresh
    PROVE  GoOn(r) \in RequestRow \cup {Idle}
<1> USE DEF Fresh
<1>1. CASE r.kind = "image"
  <2>1. GoOn(r) = [r EXCEPT !.pc = "ready",
                            !.entity = [r.entity EXCEPT !.profile_image = ImageUrl(r.image)]]
    BY <1>1 DEF GoOn, Request
  <2>2. [r.entity EXCEPT !.profile_image = ImageUrl(r.image)] \in UserRow
    BY <1>1, ProfileImageType DEF Request
  <2> QED BY <1>1, <2>1, <2>2 DEF RequestRow, Request
<1>2. CASE r.kind = "profile" /\ ~Renames(r) /\ r.password = NULL
  BY <1>2 DEF GoOn
<1>3. CASE r.kind = "profile" /\ ~Renames(r) /\ r.password # NULL
  <2>1. GoOn(r) = [r EXCEPT !.pc = "ready", !.password = NULL,
                            !.entity = WithPassword(r.entity, r.password)]
    BY <1>3 DEF GoOn, Request
  <2>2. WithPassword(r.entity, r.password) \in UserRow
    BY <1>3, WithPasswordType DEF Request
  <2> QED BY <1>3, <2>1, <2>2 DEF RequestRow, Request
<1>4. CASE r.kind # "image" /\ ~(r.kind = "profile" /\ ~Renames(r))
  <2>1. GoOn(r) = [r EXCEPT !.pc = "found"]
    BY <1>4 DEF GoOn
  <2> QED BY <1>4, <2>1 DEF RequestRow, Request, Renames
<1> QED BY <1>1, <1>2, <1>3, <1>4

-----------------------------------------------------------------------------
(* Type correctness *)

LEMMA TypeInit == Init => TypeOK
<1> SUFFICES ASSUME Init PROVE TypeOK
  OBVIOUS
<1>1. FirstPassword \in Chosen
  BY AccountsAssumption DEF FirstPassword
<1>2. user \in [Accounts -> UserRow]
  BY <1>1, AccountsAssumption DEF Init, UserRow, Passwords
<1> QED BY <1>1, <1>2, AccountsAssumption DEF Init, TypeOK, Passwords

\* A request at work has the shape its pc says.
LEMMA AtWorkType ==
    ASSUME TypeOK, NEW q \in Requests, req[q].pc # "idle"
    PROVE  /\ req[q] \in RequestRow
           /\ req[q].account \in Accounts
           /\ req[q].kind = "image" => req[q].image \in ImageTypes
           /\ Loaded(q) => req[q].entity \in UserRow
  BY DEF TypeOK, Idle, RequestRow, Request, Loaded

LEMMA BeginType ==
    ASSUME TypeOK, NEW q \in Requests,
           NEW request \in RequestRow, Begin(q, request)
    PROVE  req' \in [Requests -> RequestRow \cup {Idle}] /\ requests' \in 0..MaxRequests
  BY AccountsAssumption DEF Begin, TypeOK

LEMMA TypeBegin ==
    ASSUME TypeOK, NEW q \in Requests,
           BeginStatus(q) \/ BeginProfile(q) \/ BeginReset(q) \/ BeginUpload(q)
    PROVE  TypeOK'
<1> USE AccountsAssumption
<1>1. CASE BeginStatus(q)
  <2>1. PICK a \in Accounts, active \in BOOLEAN :
           Begin(q, [Idle EXCEPT !.kind = "status", !.pc = "begun", !.account = a,
                                 !.active = active])
    BY <1>1 DEF BeginStatus
  <2>2. [Idle EXCEPT !.kind = "status", !.pc = "begun", !.account = a, !.active = active]
           \in RequestRow
    BY DEF Idle, AllKinds, RequestRow, Request
  <2>3. req' \in [Requests -> RequestRow \cup {Idle}] /\ requests' \in 0..MaxRequests
    BY <2>1, <2>2, BeginType
  <2> QED BY <1>1, <2>3 DEF BeginStatus, TypeOK
<1>2. CASE BeginProfile(q)
  <2>1. PICK a \in Accounts, n \in Nicknames \cup {NULL}, p \in Chosen \cup {NULL} :
           /\ Begin(q, [Idle EXCEPT !.kind = "profile", !.pc = "begun", !.account = a,
                                    !.nickname = n, !.password = p])
           /\ known' = [known EXCEPT ![a] = @ \cup ({p} \ {NULL})]
    BY <1>2 DEF BeginProfile
  <2>2. [Idle EXCEPT !.kind = "profile", !.pc = "begun", !.account = a, !.nickname = n,
                     !.password = p] \in RequestRow
    BY DEF Idle, AllKinds, RequestRow, Request
  <2>3. req' \in [Requests -> RequestRow \cup {Idle}] /\ requests' \in 0..MaxRequests
    BY <2>1, <2>2, BeginType
  <2>4. known' \in [Accounts -> SUBSET Passwords]
    BY <2>1 DEF TypeOK, Passwords
  <2> QED BY <1>2, <2>3, <2>4 DEF BeginProfile, TypeOK
<1>3. CASE BeginReset(q)
  <2>1. PICK a \in Accounts :
           Begin(q, [Idle EXCEPT !.kind = "reset", !.pc = "begun", !.account = a])
    BY <1>3 DEF BeginReset
  <2>2. [Idle EXCEPT !.kind = "reset", !.pc = "begun", !.account = a] \in RequestRow
    BY DEF Idle, AllKinds, RequestRow, Request
  <2>3. req' \in [Requests -> RequestRow \cup {Idle}] /\ requests' \in 0..MaxRequests
    BY <2>1, <2>2, BeginType
  <2> QED BY <1>3, <2>3 DEF BeginReset, TypeOK
<1>4. CASE BeginUpload(q)
  <2>1. PICK asking \in Accounts, a \in Accounts, type \in ImageTypes :
           Begin(q, [Idle EXCEPT !.kind = "image", !.pc = "begun", !.account = a,
                                 !.image = type, !.own = (asking = a)])
    BY <1>4 DEF BeginUpload
  <2>2. [Idle EXCEPT !.kind = "image", !.pc = "begun", !.account = a, !.image = type,
                     !.own = (asking = a)] \in RequestRow
    BY DEF Idle, AllKinds, RequestRow, Request
  <2>3. req' \in [Requests -> RequestRow \cup {Idle}] /\ requests' \in 0..MaxRequests
    BY <2>1, <2>2, BeginType
  <2> QED BY <1>4, <2>3 DEF BeginUpload, TypeOK
<1> QED BY <1>1, <1>2, <1>3, <1>4

LEMMA MeetingType ==
    ASSUME TypeOK, NEW q \in Requests, req[q].pc # "idle"
    PROVE  MeetingAccounts(q) \subseteq Accounts
<1>1. \A r \in Requests : AtWork(r) => req[r].account \in Accounts
  BY AtWorkType DEF AtWork
<1>2. req[q].account \in Accounts
  BY AtWorkType
<1> QED BY <1>1, <1>2 DEF MeetingAccounts

\* Steps that end a request without a save.
Ending(q) == MailFails(q) \/ Forbid(q) \/ UpdateConflicts(q) \/ QueryFails(q)

\* They leave nothing of the request, and touch no row, no file and no history
\* but that of the files it leaves behind.
LEMMA Ended ==
    ASSUME TypeOK, NEW q \in Requests, Ending(q)
    PROVE  /\ req[q].pc # "idle" /\ req[q].account \in Accounts
           /\ req' = [req EXCEPT ![q] = Idle] /\ req'[q] = Idle
           /\ ~AtWork(q)' /\ ~Loaded(q)'
           /\ UNCHANGED <<user, avatar, known, credited, exposed, raced, requests>>
           /\ faults' \in 0..MaxFaults
           /\ torn' = torn \cup Abandoned(q) /\ torn' \subseteq Accounts
<1>1. req[q].pc # "idle"
  BY DEF Ending, MailFails, Forbid, UpdateConflicts, QueryFails
<1>2. req[q].account \in Accounts
  BY <1>1, AtWorkType
<1>3. /\ req' = [req EXCEPT ![q] = Idle]
      /\ UNCHANGED <<user, avatar, known, credited, exposed, raced, requests>>
  BY DEF Ending, MailFails, Forbid, UpdateConflicts, QueryFails, Leave
<1>4. faults' \in 0..MaxFaults
  BY AccountsAssumption DEF Ending, MailFails, Forbid, UpdateConflicts, QueryFails, Fault, TypeOK
<1>5. torn' = torn \cup Abandoned(q)
  BY DEF Ending, MailFails, Forbid, UpdateConflicts, QueryFails, Abandoned
<1>6. Abandoned(q) \subseteq Accounts
  BY <1>2 DEF Abandoned
<1> QED BY <1>1, <1>2, <1>3, <1>4, <1>5, <1>6 DEF TypeOK, Idle, AtWork, Loaded

LEMMA TypeEnding ==
    ASSUME TypeOK, NEW q \in Requests, Ending(q)
    PROVE  TypeOK'
  BY Ended DEF TypeOK

LEMMA TypeWork ==
    ASSUME TypeOK, NEW q \in Requests,
           \/ UnlinkOthers(q) \/ WriteFile(q) \/ FindUser(q)
           \/ CountAdmins(q) \/ CheckNickname(q) \/ SendMail(q)
    PROVE  TypeOK'
<1> USE AccountsAssumption
<1>0. /\ req[q].pc # "idle"
      /\ req[q] \in RequestRow
      /\ req[q].account \in Accounts
  <2>1. req[q].pc # "idle"
    BY DEF UnlinkOthers, WriteFile, FindUser, CountAdmins, CheckNickname, SendMail, Idle, TypeOK
  <2> QED BY <2>1, AtWorkType
<1>1. CASE UnlinkOthers(q)
  <2>1. req' \in [Requests -> RequestRow \cup {Idle}]
    BY <1>0, <1>1 DEF UnlinkOthers, TypeOK, RequestRow, Request
  <2>2. avatar' \in [Accounts -> SUBSET Extensions]
    BY <1>0, <1>1 DEF UnlinkOthers, TypeOK
  <2>3. faults' \in 0..MaxFaults
    BY <1>1 DEF UnlinkOthers, Fault, TypeOK
  <2> QED BY <1>0, <1>1, <2>1, <2>2, <2>3, MeetingType DEF UnlinkOthers, TypeOK
<1>2. CASE WriteFile(q)
  <2>1. req' \in [Requests -> RequestRow \cup {Idle}]
    BY <1>0, <1>2 DEF WriteFile, TypeOK, RequestRow, Request
  <2>2. req[q].image \in ImageTypes
    BY <1>0, <1>2 DEF WriteFile, RequestRow, Request
  <2>3. avatar' \in [Accounts -> SUBSET Extensions]
    BY <1>0, <1>2, <2>2, ExtensionType DEF WriteFile, TypeOK
  <2> QED BY <1>2, <2>1, <2>3 DEF WriteFile, TypeOK
<1>3. CASE FindUser(q)
  <2>1. user[req[q].account] \in UserRow
    BY <1>0 DEF TypeOK
  <2>2. [req[q] EXCEPT !.entity = user[req[q].account]] \in Fresh
    BY <1>0, <1>3, <2>1 DEF FindUser, Fresh, RequestRow, Request
  <2>3. req' \in [Requests -> RequestRow \cup {Idle}]
    BY <1>3, <2>2, GoOnType DEF FindUser, TypeOK
  <2> QED BY <1>0, <1>3, <2>3, MeetingType DEF FindUser, TypeOK
<1>4. CASE CountAdmins(q)
  <2>1. req[q].entity \in UserRow
    BY <1>0, <1>4, AtWorkType DEF CountAdmins, Loaded
  <2>2. [req[q].entity EXCEPT !.is_active = req[q].active] \in UserRow
    BY <1>0, <2>1 DEF UserRow, RequestRow, Request
  <2>3. req' \in [Requests -> RequestRow \cup {Idle}]
    BY <1>0, <1>4, <2>2 DEF CountAdmins, Ready, Leave, TypeOK, RequestRow, Request
  <2> QED BY <1>4, <2>3 DEF CountAdmins, TypeOK
<1>5. CASE CheckNickname(q)
  <2>1. req[q].entity \in UserRow
    BY <1>0, <1>5, AtWorkType DEF CheckNickname, Loaded
  <2>2. req[q].nickname \in Nicknames
    BY <1>0, <1>5 DEF CheckNickname, RequestRow, Request, Renames
  <2>3. [req[q].entity EXCEPT !.nickname = req[q].nickname] \in UserRow
    BY <2>1, <2>2 DEF UserRow
  <2>4. req' \in [Requests -> RequestRow \cup {Idle}]
    BY <1>0, <1>5, <2>3 DEF CheckNickname, Ready, Leave, TypeOK, RequestRow, Request
  <2> QED BY <1>5, <2>4 DEF CheckNickname, TypeOK
<1>6. CASE SendMail(q)
  <2>1. PICK t \in Temporary :
           /\ Ready(q, WithTempPassword(req[q].entity, t))
           /\ known' = [known EXCEPT ![req[q].account] = @ \cup {t}]
    BY <1>6 DEF SendMail
  <2>2. WithTempPassword(req[q].entity, t) \in UserRow
    BY <1>0, <1>6, AtWorkType, WithTempPasswordType DEF SendMail, Loaded
  <2>3. req' \in [Requests -> RequestRow \cup {Idle}]
    BY <1>0, <1>6, <2>1, <2>2, ZenonT(30) DEF SendMail, Ready, TypeOK, RequestRow, Request
  <2>4. known' \in [Accounts -> SUBSET Passwords]
    BY <1>0, <2>1 DEF TypeOK, Passwords
  <2> QED BY <1>6, <2>3, <2>4 DEF SendMail, TypeOK
<1> QED BY <1>1, <1>2, <1>3, <1>4, <1>5, <1>6

LEMMA TypeSave ==
    ASSUME TypeOK, NEW q \in Requests, SelectUser(q) \/ UpdateUser(q)
    PROVE  TypeOK'
<1> USE AccountsAssumption
<1>0. /\ req[q] \in RequestRow
      /\ req[q].account \in Accounts
      /\ req[q].entity \in UserRow
      /\ user[req[q].account] \in UserRow
  BY AtWorkType DEF SelectUser, UpdateUser, Idle, TypeOK, Loaded
<1>1. CASE SelectUser(q)
  <2>1. req[q] \in Request({"found", "ready"}, UserRow, {NoRow})
    BY <1>0, <1>1 DEF SelectUser, RequestRow, Request
  <2>2. [req[q] EXCEPT !.pc = "selected", !.seen = user[req[q].account]]
           \in Request({"selected"}, UserRow, UserRow)
    BY <1>0, <2>1 DEF Request
  <2>3. [req[q] EXCEPT !.pc = "selected", !.seen = user[req[q].account]] \in RequestRow
    BY <1>0, <2>1, <2>2 DEF RequestRow, Request
  <2>4. req' \in [Requests -> RequestRow \cup {Idle}]
    BY <1>1, <2>3 DEF SelectUser, TypeOK
  <2> QED BY <1>1, <2>4 DEF SelectUser, TypeOK
<1>2. CASE UpdateUser(q)
  <2>1. user' \in [Accounts -> UserRow]
    BY <1>0, <1>2, SavedUser DEF UpdateUser, TypeOK
  <2>2. [req[q] EXCEPT !.nickname = NULL, !.seen = NoRow] \in Fresh
    BY <1>0, <1>2 DEF UpdateUser, Fresh, RequestRow, Request
  <2>3. req' \in [Requests -> RequestRow \cup {Idle}]
    BY <1>2, <2>2, GoOnType DEF UpdateUser, Leave, TypeOK
  <2> QED BY <1>2, <2>1, <2>3 DEF UpdateUser, TypeOK
<1> QED BY <1>1, <1>2

LEMMA TypeStep == TypeOK /\ [Next]_vars => TypeOK'
<1> SUFFICES ASSUME TypeOK, [Next]_vars PROVE TypeOK'
  OBVIOUS
<1>1. CASE \E q \in Requests : RequestNext(q)
  BY <1>1, TypeBegin, TypeWork, TypeSave, TypeEnding DEF RequestNext, Ending
<1>2. CASE \E a \in Accounts : Credit(a)
  <2>1. PICK a \in Accounts : Credit(a)
    BY <1>2
  <2>2. user[a] \in UserRow
    BY DEF TypeOK
  <2>3. [user[a] EXCEPT !.score = user[a].score + 1] \in UserRow
    BY <2>2 DEF UserRow
  <2>4. user' \in [Accounts -> UserRow]
    BY <2>1, <2>3 DEF Credit, TypeOK
  <2> QED BY <2>1, <2>4 DEF Credit, TypeOK
<1>3. CASE Crash
  <2>1. \A q \in Requests : Abandoned(q) \subseteq Accounts
    BY AtWorkType DEF Abandoned, AtWork
  <2>2. torn' \subseteq Accounts
    BY <1>3, <2>1 DEF Crash, TypeOK
  <2> QED BY <1>3, <2>2, AccountsAssumption DEF Crash, Fault, TypeOK
<1>4. CASE UNCHANGED vars
  BY <1>4 DEF vars, TypeOK
<1> QED BY <1>1, <1>2, <1>3, <1>4 DEF Next

\* Rows, files, requests and histories keep their types under every interleaving.
THEOREM AccountsTypeCorrect == Spec => []TypeOK
<1> QED BY TypeInit, TypeStep, PTL DEF Spec

-----------------------------------------------------------------------------
(* What a step leaves alone *)

LEMMA NewPasswords ==
    ASSUME NEW row \in UserRow
    PROVE  /\ \A p \in Chosen :
                 /\ WithPassword(row, p).password = p
                 /\ WithPassword(row, p).score = row.score
                 /\ WithPassword(row, p).is_active = row.is_active
                 /\ PasswordColumns(WithPassword(row, p))
           /\ \A t \in Temporary :
                 /\ WithTempPassword(row, t).password = t
                 /\ WithTempPassword(row, t).score = row.score
                 /\ WithTempPassword(row, t).is_active = row.is_active
                 /\ PasswordColumns(WithTempPassword(row, t))
  BY AccountsAssumption DEF UserRow, WithPassword, WithTempPassword, PasswordColumns

\* What a handler does on its own touches neither points nor status, and keeps
\* the password columns coherent.
LEMMA GoOnKeeps ==
    ASSUME NEW r \in Fresh, GoOn(r) # Idle
    PROVE  /\ GoOn(r).account = r.account
           /\ GoOn(r).kind = r.kind
           /\ GoOn(r).active = r.active
           /\ GoOn(r).pc \in {"found", "ready"}
           /\ r.kind = "status" => GoOn(r).pc = "found"
           /\ GoOn(r).password \in {NULL, r.password}
           /\ \/ GoOn(r).entity.password = r.entity.password
              \/ r.password # NULL /\ GoOn(r).entity.password = r.password
           /\ GoOn(r).entity.score = r.entity.score
           /\ GoOn(r).entity.is_active = r.entity.is_active
           /\ PasswordColumns(r.entity) => PasswordColumns(GoOn(r).entity)
<1> USE DEF Fresh
<1>1. CASE r.kind = "image"
  <2>1. GoOn(r) = [r EXCEPT !.pc = "ready",
                            !.entity = [r.entity EXCEPT !.profile_image = ImageUrl(r.image)]]
    BY <1>1 DEF GoOn, Request
  <2> QED BY <1>1, <2>1 DEF Request, UserRow, PasswordColumns
<1>2. CASE r.kind = "profile" /\ ~Renames(r) /\ r.password = NULL
  BY <1>2 DEF GoOn
<1>3. CASE r.kind = "profile" /\ ~Renames(r) /\ r.password # NULL
  <2>1. GoOn(r) = [r EXCEPT !.pc = "ready", !.password = NULL,
                            !.entity = WithPassword(r.entity, r.password)]
    BY <1>3 DEF GoOn, Request
  <2>2. r.password \in Chosen /\ r.entity \in UserRow
    BY <1>3 DEF Request
  <2> QED BY <1>3, <2>1, <2>2, NewPasswords DEF Request
<1>4. CASE r.kind # "image" /\ ~(r.kind = "profile" /\ ~Renames(r))
  <2>1. GoOn(r) = [r EXCEPT !.pc = "found"]
    BY <1>4 DEF GoOn
  <2> QED BY <1>4, <2>1 DEF Request
<1> QED BY <1>1, <1>2, <1>3, <1>4

\* The request handed to GoOn by the two actions that call it.
LEMMA FreshRequests ==
    ASSUME TypeOK, NEW q \in Requests
    PROVE  /\ FindUser(q) => [req[q] EXCEPT !.entity = user[req[q].account]] \in Fresh
           /\ UpdateUser(q) => [req[q] EXCEPT !.nickname = NULL, !.seen = NoRow] \in Fresh
<1>1. ASSUME FindUser(q) PROVE [req[q] EXCEPT !.entity = user[req[q].account]] \in Fresh
  <2>1. req[q] \in RequestRow /\ user[req[q].account] \in UserRow
    BY <1>1, AtWorkType DEF FindUser, Idle, TypeOK
  <2> QED BY <1>1, <2>1 DEF FindUser, Fresh, RequestRow, Request
<1>2. ASSUME UpdateUser(q) PROVE [req[q] EXCEPT !.nickname = NULL, !.seen = NoRow] \in Fresh
  <2>1. req[q] \in RequestRow
    BY <1>2, AtWorkType DEF UpdateUser, Idle, TypeOK
  <2> QED BY <1>2, <2>1, AccountsAssumption DEF UpdateUser, Fresh, RequestRow, Request
<1> QED BY <1>1, <1>2

Beginning(q) == BeginStatus(q) \/ BeginProfile(q) \/ BeginReset(q) \/ BeginUpload(q)

\* A step of q changes no other request, and the owner forgets no password.
LEMMA OthersStay ==
    ASSUME TypeOK, NEW q \in Requests, RequestNext(q)
    PROVE  /\ \A r \in Requests \ {q} : req'[r] = req[r]
           /\ \A a \in Accounts : known[a] \subseteq known'[a]
           /\ credited' = credited /\ exposed' = exposed
           /\ raced \subseteq raced'
<1>1. CASE Beginning(q)
  BY <1>1, ZenonT(30) DEF Beginning, BeginStatus, BeginProfile, BeginReset, BeginUpload, Begin, TypeOK
<1>2. CASE UnlinkOthers(q) \/ WriteFile(q) \/ FindUser(q)
  BY <1>2 DEF UnlinkOthers, WriteFile, FindUser, TypeOK
<1>3. CASE CountAdmins(q) \/ CheckNickname(q) \/ SendMail(q)
  BY <1>3 DEF CountAdmins, CheckNickname, SendMail, Ready, Leave, TypeOK
<1>4. CASE SelectUser(q) \/ UpdateUser(q)
  BY <1>4 DEF SelectUser, UpdateUser, Leave, TypeOK
<1>5. CASE Ending(q)
  BY <1>5, Ended DEF TypeOK
<1> QED BY <1>1, <1>2, <1>3, <1>4, <1>5 DEF RequestNext, Beginning, Ending

\* A request that begins has loaded nothing; what it is to store, if anything,
\* the owner knows.
LEMMA JustBegun ==
    ASSUME TypeOK, NEW q \in Requests, Beginning(q)
    PROVE  /\ req'[q].pc = "begun"
           /\ req'[q].password # NULL => req'[q].password \in known'[req'[q].account]
           /\ UNCHANGED <<user, raced>>
<1>1. CASE BeginStatus(q)
  BY <1>1 DEF BeginStatus, Begin, TypeOK, Idle
<1>2. CASE BeginProfile(q)
  BY <1>2 DEF BeginProfile, Begin, TypeOK, Idle
<1>3. CASE BeginReset(q)
  BY <1>3 DEF BeginReset, Begin, TypeOK, Idle
<1>4. CASE BeginUpload(q)
  BY <1>4 DEF BeginUpload, Begin, TypeOK, Idle
<1> QED BY <1>1, <1>2, <1>3, <1>4 DEF Beginning

-----------------------------------------------------------------------------
(* Passwords *)

Knows(r, k) ==
    /\ r.password # NULL => r.password \in k[r.account]
    /\ r.pc \in {"found", "ready", "selected"} => r.entity.password \in k[r.account]

LEMMA PasswordsInit == Init => PasswordsInv
  BY DEF Init, PasswordsInv, PasswordIsKnown, Idle, Loaded

LEMMA PasswordsOfOthers ==
    ASSUME TypeOK, PasswordsInv, NEW q \in Requests, RequestNext(q),
           Knows(req'[q], known'),
           \A a \in Accounts : user'[a].password \in known'[a]
    PROVE  PasswordsInv'
<1>1. \A r \in Requests \ {q} : Knows(req'[r], known')
  <2> TAKE r \in Requests \ {q}
  <2>1. req'[r] = req[r] /\ (req[r] # Idle => req[r].account \in Accounts)
    BY OthersStay, AtWorkType DEF TypeOK, RequestRow, Request, Idle
  <2>2. Knows(req[r], known)
    BY DEF PasswordsInv, Knows, Loaded
  <2>3. CASE req[r] = Idle
    BY <2>1, <2>3 DEF Knows, Idle
  <2>4. CASE req[r] # Idle
    <3>1. known[req[r].account] \subseteq known'[req[r].account]
      BY <2>1, <2>4, OthersStay
    <3> QED BY <2>1, <2>2, <3>1 DEF Knows
  <2> QED BY <2>3, <2>4
<1> QED BY <1>1 DEF PasswordsInv, PasswordIsKnown, Knows, Loaded

LEMMA PasswordsStep == TypeOK /\ PasswordsInv /\ [Next]_vars => PasswordsInv'
<1> SUFFICES ASSUME TypeOK, PasswordsInv, [Next]_vars PROVE PasswordsInv'
  OBVIOUS
<1>1. ASSUME NEW q \in Requests, RequestNext(q) PROVE PasswordsInv'
  <2> USE <1>1
  <2>0. /\ Knows(req[q], known)
        /\ \A a \in Accounts : user[a].password \in known[a] /\ known[a] \subseteq known'[a]
    BY OthersStay DEF PasswordsInv, PasswordIsKnown, Knows, Loaded
  <2>1. CASE Beginning(q)
    <3>1. Knows(req'[q], known') /\ user' = user
      BY <2>1, JustBegun DEF Knows
    <3> QED BY <2>0, <3>1, PasswordsOfOthers
  <2>2. CASE UnlinkOthers(q) \/ WriteFile(q)
    <3>1. Knows(req'[q], known') /\ user' = user
      <4>1. req[q] \in RequestRow
        BY <2>2, AtWorkType DEF UnlinkOthers, WriteFile, Idle
      <4>2. CASE UnlinkOthers(q)
        BY <2>0, <4>1, <4>2 DEF UnlinkOthers, Knows, TypeOK, RequestRow, Request
      <4>3. CASE WriteFile(q)
        BY <2>0, <4>1, <4>3 DEF WriteFile, Knows, TypeOK, RequestRow, Request
      <4> QED BY <2>2, <4>2, <4>3
    <3> QED BY <2>0, <3>1, PasswordsOfOthers
  <2>3. CASE FindUser(q)
    <3> DEFINE r == [req[q] EXCEPT !.entity = user[req[q].account]]
    <3>1. r \in Fresh /\ req'[q] = GoOn(r) /\ known' = known /\ user' = user
      BY <2>3, FreshRequests DEF FindUser, TypeOK
    <3>2. /\ r.account = req[q].account /\ r.password = req[q].password
          /\ r.entity = user[r.account] /\ r.account \in Accounts
      BY <2>3, AtWorkType DEF FindUser, RequestRow, Request, Idle
    <3>3. Knows(GoOn(r), known)
      <4>1. CASE GoOn(r) = Idle
        BY <4>1 DEF Knows, Idle
      <4>2. CASE GoOn(r) # Idle
        <5> HIDE DEF r
        <5> QED BY <2>0, <3>1, <3>2, <4>2, GoOnKeeps DEF Knows
      <4> QED BY <4>1, <4>2
    <3> QED BY <2>0, <3>1, <3>3, PasswordsOfOthers
  <2>4. CASE CountAdmins(q) \/ CheckNickname(q)
    <3>1. req[q] \in RequestRow /\ req[q].entity \in UserRow
      BY <2>4, AtWorkType DEF CountAdmins, CheckNickname, Loaded, Idle
    <3>2. Knows(req'[q], known') /\ user' = user
      <4>1. CASE req' = [req EXCEPT ![q] = Idle]
        BY <2>4, <4>1 DEF CountAdmins, CheckNickname, Knows, Idle, TypeOK
      <4>2. CASE Ready(q, [req[q].entity EXCEPT !.is_active = req[q].active])
        BY <2>0, <2>4, <3>1, <4>2
           DEF CountAdmins, CheckNickname, Ready, Knows, TypeOK, RequestRow, Request, UserRow
      <4>3. CASE Ready(q, [req[q].entity EXCEPT !.nickname = req[q].nickname])
        BY <2>0, <2>4, <3>1, <4>3
           DEF CountAdmins, CheckNickname, Ready, Knows, TypeOK, RequestRow, Request, UserRow
      <4> QED BY <2>4, <4>1, <4>2, <4>3 DEF CountAdmins, CheckNickname, Leave
    <3> QED BY <2>0, <3>2, PasswordsOfOthers
  <2>5. CASE SendMail(q)
    <3>1. req[q] \in RequestRow /\ req[q].entity \in UserRow /\ req[q].account \in Accounts
      BY <2>5, AtWorkType DEF SendMail, Loaded, Idle
    <3>2. PICK t \in Temporary :
             /\ Ready(q, WithTempPassword(req[q].entity, t))
             /\ known' = [known EXCEPT ![req[q].account] = @ \cup {t}]
      BY <2>5 DEF SendMail
    <3>3. /\ req'[q].account = req[q].account /\ req'[q].password = req[q].password
          /\ req'[q].entity = WithTempPassword(req[q].entity, t)
      BY <3>1, <3>2 DEF Ready, TypeOK, RequestRow, Request
    <3>4. t \in known'[req[q].account] /\ known[req[q].account] \subseteq known'[req[q].account]
      BY <3>1, <3>2 DEF TypeOK
    <3>5. Knows(req'[q], known')
      BY <2>0, <3>1, <3>3, <3>4, NewPasswords DEF Knows
    <3>6. user' = user
      BY <2>5 DEF SendMail
    <3> QED BY <2>0, <3>5, <3>6, PasswordsOfOthers
  <2>6. CASE Ending(q)
    <3>1. Knows(req'[q], known') /\ user' = user
      BY <2>6, Ended DEF Knows, Idle
    <3> QED BY <2>0, <3>1, PasswordsOfOthers
  <2>7. CASE SelectUser(q)
    <3>1. Knows(req'[q], known') /\ user' = user
      BY <2>0, <2>7, AtWorkType DEF SelectUser, Knows, TypeOK, RequestRow, Request, Idle
    <3> QED BY <2>0, <3>1, PasswordsOfOthers
  <2>8. CASE UpdateUser(q)
    <3> DEFINE r == [req[q] EXCEPT !.nickname = NULL, !.seen = NoRow]
    <3>1. /\ req[q].entity \in UserRow /\ req[q].account \in Accounts
          /\ user[req[q].account] \in UserRow
      BY <2>8, AtWorkType DEF UpdateUser, Loaded, Idle, TypeOK
    <3>2. Saved(req[q].entity, req[q].seen, user[req[q].account]).password
             \in known[req[q].account]
      BY <2>0, <2>8, <3>1, SavedUser DEF UpdateUser, NoRow, Knows
    <3>3. \A a \in Accounts : user'[a].password \in known'[a]
      BY <2>0, <2>8, <3>2 DEF UpdateUser, TypeOK
    <3>4. Knows(req'[q], known')
      <4>1. CASE req[q].password = NULL \/ GoOn(r) = Idle
        BY <2>8, <4>1 DEF UpdateUser, Leave, Knows, Idle, TypeOK
      <4>2. CASE req[q].password # NULL /\ GoOn(r) # Idle
        <5>1. r \in Fresh /\ req'[q] = GoOn(r) /\ known' = known
          BY <2>8, <4>2, FreshRequests DEF UpdateUser, TypeOK
        <5>2. Knows(r, known) /\ r.entity.password \in known[r.account]
          BY <2>0, <2>8, AtWorkType DEF UpdateUser, Knows, RequestRow, Request, Idle
        <5> HIDE DEF r
        <5> QED BY <4>2, <5>1, <5>2, GoOnKeeps DEF Knows
      <4> QED BY <4>1, <4>2
    <3> QED BY <3>3, <3>4, PasswordsOfOthers
  <2> QED BY <2>1, <2>2, <2>3, <2>4, <2>5, <2>6, <2>7, <2>8 DEF RequestNext, Beginning, Ending
<1>2. ASSUME NEW a \in Accounts, Credit(a) PROVE PasswordsInv'
  <2>1. \A b \in Accounts : user'[b].password = user[b].password
    BY <1>2 DEF Credit, TypeOK, UserRow
  <2> QED BY <1>2, <2>1 DEF Credit, PasswordsInv, PasswordIsKnown, Loaded
<1>3. CASE Crash
  BY <1>3 DEF Crash, PasswordsInv, PasswordIsKnown, Idle, Loaded
<1>4. CASE UNCHANGED vars
  BY <1>4 DEF vars, PasswordsInv, PasswordIsKnown, Loaded
<1> QED BY <1>1, <1>2, <1>3, <1>4 DEF Next

\* Whatever overlaps, fails or crashes, the owner knows the stored password.
THEOREM PasswordsKnown == Spec => []PasswordIsKnown
<1>1. PasswordsInv => PasswordIsKnown
  BY DEF PasswordsInv
<1> QED BY <1>1, PasswordsInit, PasswordsStep, AccountsTypeCorrect, PTL DEF Spec
-----------------------------------------------------------------------------
(* Points *)

\* What a request that has loaded its entity knows of the score in the row.
UpToDate(r, rows) ==
    /\ r.pc \in {"found", "ready"} \/ (r.pc = "selected" /\ r.password # NULL) =>
           r.entity.score = rows[r.account].score
    /\ r.pc = "selected" => r.entity.score = r.seen.score

LEMMA CreditsInvDef ==
    CreditsInv <=> /\ CreditsStand
                   /\ \A q \in Requests :
                         Loaded(q) /\ req[q].account \notin exposed => UpToDate(req[q], user)
  BY DEF CreditsInv, UpToDate, HoldsOldRow, Loaded

LEMMA CreditsInit == Init => CreditsInv
  BY DEF Init, CreditsInv, CreditsStand, Idle, Loaded

LEMMA CreditsOfOthers ==
    ASSUME TypeOK, CreditsInv, NEW q \in Requests, RequestNext(q),
           Loaded(q)' /\ req'[q].account \notin exposed => UpToDate(req'[q], user'),
           \A a \in Accounts \ exposed : user'[a].score = user[a].score
    PROVE  CreditsInv'
<1>1. credited' = credited /\ exposed' = exposed
  BY OthersStay
<1>2. CreditsStand'
  BY <1>1 DEF CreditsInv, CreditsStand
<1>3. \A r \in Requests : Loaded(r)' /\ req'[r].account \notin exposed' => UpToDate(req'[r], user')
  <2> TAKE r \in Requests
  <2>1. CASE r = q
    BY <1>1, <2>1
  <2>2. CASE r # q
    <3>1. req'[r] = req[r]
      BY <2>2, OthersStay
    <3>2. Loaded(r) => req[r].account \in Accounts
      BY AtWorkType DEF Loaded
    <3>3. Loaded(r) /\ req[r].account \notin exposed => UpToDate(req[r], user)
      BY CreditsInvDef
    <3> QED BY <1>1, <3>1, <3>2, <3>3 DEF Loaded, UpToDate
  <2> QED BY <2>1, <2>2
<1>4. CreditsInv' <=> /\ CreditsStand'
                      /\ \A r \in Requests :
                            Loaded(r)' /\ req'[r].account \notin exposed' => UpToDate(req'[r], user')
  BY DEF CreditsInv, UpToDate, HoldsOldRow, Loaded
<1> QED BY <1>2, <1>3, <1>4

LEMMA CreditsRequest ==
    ASSUME TypeOK, CreditsInv, NEW q \in Requests, RequestNext(q)
    PROVE  CreditsInv'
<1>0. Loaded(q) /\ req[q].account \notin exposed => UpToDate(req[q], user)
  BY CreditsInvDef
<1>1. CASE Beginning(q)
  <2>1. ~Loaded(q)' /\ user' = user
    BY <1>1, JustBegun DEF Loaded
  <2> QED BY <2>1, CreditsOfOthers
<1>2. CASE UnlinkOthers(q)
  <2>1. ~Loaded(q)' /\ user' = user
    BY <1>2, AtWorkType DEF UnlinkOthers, Loaded, TypeOK, RequestRow, Request, Idle
  <2> QED BY <2>1, CreditsOfOthers
<1>3. CASE WriteFile(q)
  <2>1. ~Loaded(q)' /\ user' = user
    BY <1>3, AtWorkType DEF WriteFile, Loaded, TypeOK, RequestRow, Request, Idle
  <2> QED BY <2>1, CreditsOfOthers
<1>4. CASE FindUser(q)
  <2> DEFINE r == [req[q] EXCEPT !.entity = user[req[q].account]]
  <2>1. r \in Fresh /\ req'[q] = GoOn(r) /\ user' = user
    BY <1>4, FreshRequests DEF FindUser, TypeOK
  <2>2. r.entity = user[r.account]
    BY <1>4, AtWorkType DEF FindUser, RequestRow, Request, Idle
  <2>3. Loaded(q)' => UpToDate(req'[q], user')
    <3>1. CASE GoOn(r) = Idle
      BY <2>1, <3>1 DEF Loaded, Idle
    <3>2. CASE GoOn(r) # Idle
      <4> HIDE DEF r
      <4> QED BY <2>1, <2>2, <3>2, GoOnKeeps DEF UpToDate
    <3> QED BY <3>1, <3>2
  <2> QED BY <2>1, <2>3, CreditsOfOthers
<1>5. CASE CountAdmins(q) \/ CheckNickname(q) \/ SendMail(q)
  <2>1. req[q] \in RequestRow /\ req[q].entity \in UserRow /\ req[q].pc = "found"
    BY <1>5, AtWorkType DEF CountAdmins, CheckNickname, SendMail, Loaded, Idle
  <2>2. PICK e : /\ e.score = req[q].entity.score
                 /\ req' = [req EXCEPT ![q] = Idle] \/ Ready(q, e)
    <3>1. CASE CountAdmins(q)
      <4>1. [req[q].entity EXCEPT !.is_active = req[q].active].score = req[q].entity.score
        BY <2>1 DEF UserRow
      <4> QED BY <3>1, <4>1 DEF CountAdmins, Leave
    <3>2. CASE CheckNickname(q)
      <4>1. [req[q].entity EXCEPT !.nickname = req[q].nickname].score = req[q].entity.score
        BY <2>1 DEF UserRow
      <4> QED BY <3>2, <4>1 DEF CheckNickname, Leave
    <3>3. CASE SendMail(q)
      BY <2>1, <3>3, NewPasswords DEF SendMail
    <3> QED BY <1>5, <3>1, <3>2, <3>3
  <2>3. user' = user
    BY <1>5 DEF CountAdmins, CheckNickname, SendMail
  <2>4. CASE req' = [req EXCEPT ![q] = Idle]
    <3>1. ~Loaded(q)'
      BY <2>4 DEF Loaded, Idle, TypeOK
    <3> QED BY <2>3, <3>1, CreditsOfOthers
  <2>5. CASE Ready(q, e)
    <3>1. req'[q] = [req[q] EXCEPT !.pc = "ready", !.entity = e]
      BY <2>5 DEF Ready, TypeOK
    <3>2. /\ req'[q].pc = "ready" /\ req'[q].account = req[q].account /\ req'[q].entity = e
      BY <2>1, <3>1 DEF RequestRow, Request
    <3>3. req'[q].account \notin exposed => UpToDate(req'[q], user')
      BY <1>0, <2>1, <2>2, <2>3, <3>2 DEF UpToDate, Loaded
    <3> QED BY <2>3, <3>3, CreditsOfOthers
  <2> QED BY <2>2, <2>4, <2>5
<1>6. CASE Ending(q)
  <2>1. ~Loaded(q)' /\ user' = user
    BY <1>6, Ended
  <2> QED BY <2>1, CreditsOfOthers
<1>7. CASE SelectUser(q)
  <2>1. req[q] \in RequestRow /\ req[q].pc = "ready"
    BY <1>7, AtWorkType DEF SelectUser, Idle
  <2>2. req'[q] = [req[q] EXCEPT !.pc = "selected", !.seen = user[req[q].account]]
    BY <1>7 DEF SelectUser, TypeOK
  <2>3. /\ req'[q].account = req[q].account /\ req'[q].entity = req[q].entity
        /\ req'[q].pc = "selected" /\ req'[q].seen = user[req[q].account]
    BY <2>1, <2>2 DEF RequestRow, Request
  <2>4. user' = user
    BY <1>7 DEF SelectUser
  <2>5. req'[q].account \notin exposed => UpToDate(req'[q], user')
    BY <1>0, <2>1, <2>3, <2>4 DEF UpToDate, Loaded
  <2> QED BY <2>4, <2>5, CreditsOfOthers
<1>8. CASE UpdateUser(q)
  <2> DEFINE a == req[q].account
             r == [req[q] EXCEPT !.nickname = NULL, !.seen = NoRow]
  <2>1. /\ req[q] \in RequestRow /\ req[q].entity \in UserRow /\ a \in Accounts
        /\ user[a] \in UserRow /\ req[q].pc = "selected"
    BY <1>8, AtWorkType DEF UpdateUser, Loaded, Idle, TypeOK
  <2>2. /\ user' = [user EXCEPT ![a] = Saved(req[q].entity, req[q].seen, user[a])]
    BY <1>8 DEF UpdateUser
  <2>3. a \notin exposed => Saved(req[q].entity, req[q].seen, user[a]).score = user[a].score
    BY <1>0, <2>1, SavedUser DEF UpToDate, Loaded, NoRow
  <2>4. \A b \in Accounts \ exposed : user'[b].score = user[b].score
    BY <2>1, <2>2, <2>3 DEF TypeOK
  <2>5. Loaded(q)' /\ req'[q].account \notin exposed => UpToDate(req'[q], user')
    <3>1. CASE req[q].password = NULL \/ GoOn(r) = Idle
      BY <1>8, <3>1 DEF UpdateUser, Leave, Loaded, Idle, TypeOK
    <3>2. CASE req[q].password # NULL /\ GoOn(r) # Idle
      <4>1. r \in Fresh /\ req'[q] = GoOn(r)
        BY <1>8, <3>2, FreshRequests DEF UpdateUser, TypeOK
      <4>2. r.account = a /\ r.entity = req[q].entity
        BY <2>1 DEF RequestRow, Request
      <4>3. a \notin exposed => req[q].entity.score = user'[a].score
        BY <1>0, <2>1, <2>4, <3>2 DEF UpToDate, Loaded
      <4> HIDE DEF a, r
      <4> QED BY <3>2, <4>1, <4>2, <4>3, GoOnKeeps DEF UpToDate
    <3> QED BY <3>1, <3>2
  <2> QED BY <2>4, <2>5, CreditsOfOthers
<1> QED BY <1>1, <1>2, <1>3, <1>4, <1>5, <1>6, <1>7, <1>8 DEF RequestNext, Beginning, Ending

LEMMA CreditsStep == TypeOK /\ CreditsInv /\ [Next]_vars => CreditsInv'
<1> SUFFICES ASSUME TypeOK, CreditsInv, [Next]_vars PROVE CreditsInv'
  OBVIOUS
<1>1. CASE \E q \in Requests : RequestNext(q)
  BY <1>1, CreditsRequest
<1>2. ASSUME NEW a \in Accounts, Credit(a) PROVE CreditsInv'
  <2>1. /\ \A b \in Accounts \ {a} : user'[b] = user[b] /\ credited'[b] = credited[b]
        /\ user'[a].score = user[a].score + 1 /\ credited'[a] = credited[a] + 1
        /\ req' = req /\ exposed \subseteq exposed'
    BY <1>2 DEF Credit, TypeOK, UserRow
  <2>2. CreditsStand'
    BY <2>1 DEF CreditsInv, CreditsStand
  <2>3. \A q \in Requests : HoldsOldRow(q) /\ req[q].account \notin exposed' => req[q].account # a
    BY <1>2 DEF Credit
  <2>4. \A q \in Requests : Loaded(q) => req[q].account \in Accounts
    BY AtWorkType DEF Loaded
  <2> QED BY <2>1, <2>2, <2>3, <2>4 DEF CreditsInv, Loaded, HoldsOldRow
<1>3. CASE Crash
  BY <1>3 DEF Crash, CreditsInv, CreditsStand, Idle, Loaded
<1>4. CASE UNCHANGED vars
  BY <1>4 DEF vars, CreditsInv, CreditsStand, Loaded, HoldsOldRow
<1> QED BY <1>1, <1>2, <1>3, <1>4 DEF Next

\* No whole-row save takes back points that were added while no request held an
\* older copy of the row, for any number of requests.
THEOREM CreditsAreKept == Spec => []CreditsStand
<1>1. CreditsInv => CreditsStand
  BY DEF CreditsInv
<1> QED BY <1>1, CreditsInit, CreditsStep, AccountsTypeCorrect, PTL DEF Spec
-----------------------------------------------------------------------------
(* Accounts whose requests never overlapped *)

\* Requests at work that share an account make it a raced one.
Apart ==
    \A q, r \in Requests :
        q # r /\ AtWork(q) /\ AtWork(r) /\ Meets(q, r) => req[q].account \in raced

\* What a request knows of its row on an account no two requests shared.
Coherent(r, rows) ==
    /\ r.pc \in {"found", "ready", "selected"} =>
           /\ PasswordColumns(r.entity)
           /\ r.kind # "status" => r.entity.is_active = rows[r.account].is_active
    /\ r.pc = "selected" =>
           \A c \in DOMAIN NoRow \ {"score"} : r.seen[c] = rows[r.account][c]

LEMMA AloneInvDef ==
    AloneInv <=> /\ PasswordColumnsAgree
                 /\ Apart
                 /\ \A q \in Requests :
                       AtWork(q) /\ req[q].account \notin raced => Coherent(req[q], user)
  BY DEF AloneInv, Apart, Coherent, Loaded, Meets, AtWork

LEMMA AloneInvDefNext ==
    AloneInv' <=> /\ PasswordColumnsAgree'
                  /\ Apart'
                  /\ \A q \in Requests :
                        AtWork(q)' /\ req'[q].account \notin raced' => Coherent(req'[q], user')
  BY DEF AloneInv, Apart, Coherent, Loaded, Meets, AtWork

LEMMA AloneInit == Init => AloneInv
<1> SUFFICES ASSUME Init PROVE AloneInv
  OBVIOUS
<1>1. FirstPassword \in Chosen
  BY AccountsAssumption DEF FirstPassword
<1> QED BY <1>1, AccountsAssumption
        DEF Init, AloneInv, PasswordColumnsAgree, PasswordColumns, Idle, AtWork

\* A step keeps the account and the kind of a request that stays at work; one
\* that comes to work looks at whom it meets; only one at work changes its row.
LEMMA RequestSteps ==
    ASSUME TypeOK, NEW q \in Requests, RequestNext(q)
    PROVE  /\ AtWork(q)' => /\ req'[q].account = req[q].account
                            /\ req'[q].kind = req[q].kind
                            /\ req[q].pc # "idle"
                            /\ ~AtWork(q) => raced' = raced \cup MeetingAccounts(q)
           /\ user' # user => /\ AtWork(q) /\ req[q].account \in Accounts
                              /\ \A b \in Accounts \ {req[q].account} : user'[b] = user[b]
<1>1. CASE Beginning(q)
  BY <1>1, JustBegun DEF AtWork
<1>2. CASE UnlinkOthers(q) \/ WriteFile(q)
  <2>1. req[q] \in RequestRow
    BY <1>2, AtWorkType DEF UnlinkOthers, WriteFile, Idle
  <2>2. PICK pc \in {"cleared", "written"} : req' = [req EXCEPT ![q].pc = pc]
    BY <1>2 DEF UnlinkOthers, WriteFile
  <2>3. req'[q].account = req[q].account /\ req'[q].kind = req[q].kind
    BY <2>1, <2>2 DEF TypeOK, RequestRow, Request
  <2> QED BY <1>2, <2>3 DEF UnlinkOthers, WriteFile, AtWork
<1>3. CASE FindUser(q)
  <2> DEFINE r == [req[q] EXCEPT !.entity = user[req[q].account]]
  <2>1. r \in Fresh /\ req'[q] = GoOn(r) /\ raced' = raced \cup MeetingAccounts(q) /\ user' = user
    BY <1>3, FreshRequests DEF FindUser, TypeOK
  <2>2. r.account = req[q].account /\ r.kind = req[q].kind /\ req[q].pc # "idle"
    BY <1>3, AtWorkType DEF FindUser, RequestRow, Request, Idle
  <2>3. CASE GoOn(r) = Idle
    BY <2>1, <2>3 DEF AtWork, Idle
  <2>4. CASE GoOn(r) # Idle
    <3> HIDE DEF r
    <3> QED BY <2>1, <2>2, <2>4, GoOnKeeps
  <2> QED BY <2>3, <2>4
<1>4. CASE CountAdmins(q) \/ CheckNickname(q) \/ SendMail(q)
  <2>1. req[q] \in RequestRow /\ req[q].pc = "found" /\ user' = user
    BY <1>4, AtWorkType DEF CountAdmins, CheckNickname, SendMail, Idle
  <2>2. req' = [req EXCEPT ![q] = Idle] \/ \E e : Ready(q, e)
    BY <1>4 DEF CountAdmins, CheckNickname, SendMail, Leave
  <2> QED BY <2>1, <2>2 DEF Ready, AtWork, Idle, TypeOK, RequestRow, Request
<1>5. CASE Ending(q)
  BY <1>5, Ended
<1>6. CASE SelectUser(q)
  <2>1. req[q] \in RequestRow
    BY <1>6, AtWorkType DEF SelectUser, Idle
  <2> QED BY <1>6, <2>1 DEF SelectUser, AtWork, TypeOK, RequestRow, Request
<1>7. CASE UpdateUser(q)
  <2> DEFINE r == [req[q] EXCEPT !.nickname = NULL, !.seen = NoRow]
  <2>1. req[q] \in RequestRow /\ req[q].account \in Accounts /\ req[q].pc = "selected"
    BY <1>7, AtWorkType DEF UpdateUser, Idle
  <2>2. \A b \in Accounts \ {req[q].account} : user'[b] = user[b]
    BY <1>7, <2>1 DEF UpdateUser, TypeOK
  <2>3. CASE req'[q] = Idle
    BY <2>1, <2>2, <2>3 DEF AtWork, Idle
  <2>4. CASE req'[q] # Idle
    <3>1. r \in Fresh /\ req'[q] = GoOn(r) /\ GoOn(r) # Idle
      BY <1>7, <2>4, FreshRequests DEF UpdateUser, Leave, TypeOK
    <3>2. r.account = req[q].account /\ r.kind = req[q].kind
      BY <2>1 DEF RequestRow, Request
    <3> HIDE DEF r
    <3> QED BY <2>1, <2>2, <3>1, <3>2, GoOnKeeps DEF AtWork
  <2> QED BY <2>3, <2>4
<1> QED BY <1>1, <1>2, <1>3, <1>4, <1>5, <1>6, <1>7 DEF RequestNext, Beginning, Ending

LEMMA ApartStep ==
    ASSUME TypeOK, Apart, NEW q \in Requests, RequestNext(q)
    PROVE  Apart'
<1>1. /\ \A r \in Requests \ {q} : req'[r] = req[r]
      /\ raced \subseteq raced'
  BY OthersStay
<1>2. ASSUME NEW r \in Requests \ {q}, AtWork(q)', AtWork(r)', Meets(q, r)'
      PROVE  req[q].account \in raced' /\ req[r].account \in raced'
  <2>1. AtWork(r) /\ Meets(q, r) /\ Meets(r, q)
    BY <1>1, <1>2, RequestSteps DEF AtWork, Meets
  <2>2. CASE AtWork(q)
    BY <1>1, <2>1, <2>2 DEF Apart
  <2>3. CASE ~AtWork(q)
    <3>1. raced' = raced \cup MeetingAccounts(q)
      BY <1>2, <2>3, RequestSteps
    <3>2. req[q].account \in MeetingAccounts(q) /\ req[r].account \in MeetingAccounts(q)
      BY <2>1 DEF MeetingAccounts
    <3> QED BY <3>1, <3>2
  <2> QED BY <2>2, <2>3
<1>3. ASSUME NEW r \in Requests \ {q}, AtWork(q)', AtWork(r)', Meets(q, r)' \/ Meets(r, q)'
      PROVE  req'[q].account \in raced' /\ req'[r].account \in raced'
  BY <1>1, <1>2, <1>3, RequestSteps DEF Meets
<1>4. ASSUME NEW r \in Requests \ {q}, NEW s \in Requests \ {q}, r # s,
             AtWork(r)', AtWork(s)', Meets(r, s)'
      PROVE  req'[r].account \in raced'
  BY <1>1, <1>4 DEF Apart, AtWork, Meets
<1> QED BY <1>3, <1>4 DEF Apart

\* A step of q on a row no other request at work shares.
LEMMA AloneOfOthers ==
    ASSUME TypeOK, AloneInv, NEW q \in Requests, RequestNext(q),
           AtWork(q)' /\ req'[q].account \notin raced' => Coherent(req'[q], user'),
           \A a \in Accounts \ raced' : user'[a] = user[a] \/ PasswordColumns(user'[a])
    PROVE  AloneInv'
<1>1. /\ \A r \in Requests \ {q} : req'[r] = req[r]
      /\ raced \subseteq raced'
  BY OthersStay
<1>2. PasswordColumnsAgree'
  BY <1>1 DEF AloneInv, PasswordColumnsAgree, PasswordColumns
<1>3. Apart'
  BY ApartStep, AloneInvDef
<1>4. ASSUME NEW r \in Requests \ {q}, AtWork(r)', req'[r].account \notin raced'
      PROVE  Coherent(req'[r], user')
  <2>1. /\ AtWork(r) /\ req[r].account \notin raced /\ req[r].account \in Accounts
    BY <1>1, <1>4, AtWorkType DEF AtWork
  <2>2. Coherent(req[r], user)
    BY <2>1, AloneInvDef
  <2>3. user'[req[r].account] = user[req[r].account]
    <3>1. CASE user' = user
      BY <3>1
    <3>2. CASE user' # user
      <4>1. req[q].account # req[r].account
        BY <2>1, <3>2, RequestSteps, AloneInvDef DEF Apart, Meets
      <4> QED BY <2>1, <3>2, <4>1, RequestSteps
    <3> QED BY <3>1, <3>2
  <2> QED BY <1>1, <2>2, <2>3 DEF Coherent
<1> QED BY <1>2, <1>3, <1>4, AloneInvDefNext

LEMMA AloneRequest ==
    ASSUME TypeOK, AloneInv, NEW q \in Requests, RequestNext(q)
    PROVE  AloneInv'
<1> DEFINE a == req[q].account
<1>0. AtWork(q) /\ a \notin raced => Coherent(req[q], user)
  BY AloneInvDef
<1>1. CASE Beginning(q)
  <2>1. ~AtWork(q)' /\ user' = user
    BY <1>1, JustBegun DEF AtWork
  <2> QED BY <2>1, AloneOfOthers
<1>2. CASE UnlinkOthers(q) \/ WriteFile(q)
  <2>1. req[q] \in RequestRow
    BY <1>2, AtWorkType DEF UnlinkOthers, WriteFile, Idle
  <2>2. Coherent(req'[q], user') /\ user' = user
    BY <1>2, <2>1 DEF UnlinkOthers, WriteFile, Coherent, TypeOK, RequestRow, Request
  <2> QED BY <2>2, AloneOfOthers
<1>3. CASE FindUser(q)
  <2> DEFINE r == [req[q] EXCEPT !.entity = user[req[q].account]]
  <2>1. r \in Fresh /\ req'[q] = GoOn(r) /\ user' = user /\ raced \subseteq raced'
    BY <1>3, FreshRequests DEF FindUser, TypeOK
  <2>2. r.account = a /\ r.entity = user[a] /\ a \in Accounts
    BY <1>3, AtWorkType DEF FindUser, RequestRow, Request, Idle
  <2>3. a \notin raced => PasswordColumns(user[a])
    BY <2>2 DEF AloneInv, PasswordColumnsAgree
  <2>4. CASE GoOn(r) = Idle
    <3>1. ~AtWork(q)'
      BY <2>1, <2>4 DEF AtWork, Idle
    <3> QED BY <2>1, <3>1, AloneOfOthers
  <2>5. CASE GoOn(r) # Idle
    <3>1. req'[q].account = a /\ (a \notin raced => Coherent(req'[q], user'))
      <4> HIDE DEF a, r
      <4> QED BY <2>1, <2>2, <2>3, <2>5, GoOnKeeps DEF Coherent
    <3> QED BY <2>1, <3>1, AloneOfOthers
  <2> QED BY <2>4, <2>5
<1>4. CASE CountAdmins(q) \/ CheckNickname(q) \/ SendMail(q)
  <2>1. req[q] \in RequestRow /\ req[q].entity \in UserRow /\ req[q].pc = "found"
    BY <1>4, AtWorkType DEF CountAdmins, CheckNickname, SendMail, Loaded, Idle
  <2>2. PICK e : /\ PasswordColumns(req[q].entity) => PasswordColumns(e)
                 /\ req[q].kind # "status" => e.is_active = req[q].entity.is_active
                 /\ req' = [req EXCEPT ![q] = Idle] \/ Ready(q, e)
    <3>1. CASE CountAdmins(q)
      <4> DEFINE e == [req[q].entity EXCEPT !.is_active = req[q].active]
      <4>1. PasswordColumns(req[q].entity) => PasswordColumns(e)
        BY <2>1 DEF UserRow, PasswordColumns
      <4>2. req[q].kind = "status" /\ (req' = [req EXCEPT ![q] = Idle] \/ Ready(q, e))
        BY <3>1 DEF CountAdmins, Leave
      <4> QED BY <4>1, <4>2
    <3>2. CASE CheckNickname(q)
      <4> DEFINE e == [req[q].entity EXCEPT !.nickname = req[q].nickname]
      <4>1. /\ PasswordColumns(req[q].entity) => PasswordColumns(e)
            /\ e.is_active = req[q].entity.is_active
        BY <2>1 DEF UserRow, PasswordColumns
      <4>2. req' = [req EXCEPT ![q] = Idle] \/ Ready(q, e)
        BY <3>2 DEF CheckNickname, Leave
      <4> QED BY <4>1, <4>2
    <3>3. CASE SendMail(q)
      BY <2>1, <3>3, NewPasswords DEF SendMail
    <3> QED BY <1>4, <3>1, <3>2, <3>3
  <2>3. user' = user /\ raced' = raced
    BY <1>4 DEF CountAdmins, CheckNickname, SendMail
  <2>4. CASE req' = [req EXCEPT ![q] = Idle]
    <3>1. ~AtWork(q)'
      BY <2>4 DEF AtWork, Idle, TypeOK
    <3> QED BY <2>3, <3>1, AloneOfOthers
  <2>5. CASE Ready(q, e)
    <3>1. req'[q] = [req[q] EXCEPT !.pc = "ready", !.entity = e]
      BY <2>5 DEF Ready, TypeOK
    <3>2. /\ req'[q].pc = "ready" /\ req'[q].account = a /\ req'[q].entity = e
          /\ req'[q].kind = req[q].kind
      BY <2>1, <3>1 DEF RequestRow, Request
    <3>3. a \notin raced => Coherent(req'[q], user')
      BY <1>0, <2>1, <2>2, <2>3, <3>2 DEF Coherent, AtWork
    <3> QED BY <2>3, <3>2, <3>3, AloneOfOthers
  <2> QED BY <2>2, <2>4, <2>5
<1>5. CASE Ending(q)
  <2>1. ~AtWork(q)' /\ user' = user
    BY <1>5, Ended
  <2> QED BY <2>1, AloneOfOthers
<1>6. CASE SelectUser(q)
  <2>1. req[q] \in RequestRow /\ req[q].pc = "ready"
    BY <1>6, AtWorkType DEF SelectUser, Idle
  <2>2. req'[q] = [req[q] EXCEPT !.pc = "selected", !.seen = user[a]]
    BY <1>6 DEF SelectUser, TypeOK
  <2>3. /\ req'[q].account = a /\ req'[q].entity = req[q].entity
        /\ req'[q].seen = user[a] /\ req'[q].kind = req[q].kind
    BY <2>1, <2>2 DEF RequestRow, Request
  <2>4. user' = user /\ raced' = raced
    BY <1>6 DEF SelectUser
  <2>5. a \notin raced => Coherent(req'[q], user')
    BY <1>0, <2>1, <2>3, <2>4 DEF Coherent, AtWork
  <2> QED BY <2>3, <2>4, <2>5, AloneOfOthers
<1>7. CASE UpdateUser(q)
  <2> DEFINE r == [req[q] EXCEPT !.nickname = NULL, !.seen = NoRow]
             row == Saved(req[q].entity, req[q].seen, user[a])
  <2>1. /\ req[q] \in RequestRow /\ req[q].entity \in UserRow /\ a \in Accounts
        /\ user[a] \in UserRow /\ req[q].pc = "selected"
    BY <1>7, AtWorkType DEF UpdateUser, Loaded, Idle, TypeOK
  <2>2. user'[a] = row /\ user' = [user EXCEPT ![a] = row] /\ raced' = raced
    BY <1>7, <2>1 DEF UpdateUser, TypeOK
  <2>3. a \notin raced => \A c \in DOMAIN NoRow \ {"score"} : row[c] = req[q].entity[c]
    BY <1>0, <2>1, SavedUser DEF Coherent, AtWork
  <2>4. a \notin raced => /\ PasswordColumns(row)
                          /\ row.is_active = req[q].entity.is_active
    <3> HIDE DEF row
    <3> QED BY <1>0, <2>1, <2>3 DEF Coherent, AtWork, PasswordColumns, NoRow
  <2>5. \A b \in Accounts \ raced' : user'[b] = user[b] \/ PasswordColumns(user'[b])
    BY <2>1, <2>2, <2>4 DEF TypeOK
  <2>6. CASE req'[q] = Idle
    <3>1. ~AtWork(q)'
      BY <2>6 DEF AtWork, Idle
    <3> QED BY <2>5, <3>1, AloneOfOthers
  <2>7. CASE req'[q] # Idle
    <3>1. r \in Fresh /\ req'[q] = GoOn(r) /\ GoOn(r) # Idle
      BY <1>7, <2>7, FreshRequests DEF UpdateUser, Leave, TypeOK
    <3>2. r.account = a /\ r.entity = req[q].entity
      BY <2>1 DEF RequestRow, Request
    <3>3. a \notin raced => PasswordColumns(req[q].entity)
      BY <1>0, <2>1 DEF Coherent, AtWork
    <3>4. req'[q].account = a /\ (a \notin raced => Coherent(req'[q], user'))
      <4> HIDE DEF a, r, row
      <4> QED BY <2>2, <2>4, <3>1, <3>2, <3>3, GoOnKeeps DEF Coherent
    <3> QED BY <2>2, <2>5, <3>4, AloneOfOthers
  <2> QED BY <2>6, <2>7
<1> QED BY <1>1, <1>2, <1>3, <1>4, <1>5, <1>6, <1>7 DEF RequestNext, Beginning, Ending

LEMMA AloneStep == TypeOK /\ AloneInv /\ [Next]_vars => AloneInv'
<1> SUFFICES ASSUME TypeOK, AloneInv, [Next]_vars PROVE AloneInv'
  OBVIOUS
<1>1. CASE \E q \in Requests : RequestNext(q)
  BY <1>1, AloneRequest
<1>2. ASSUME NEW a \in Accounts, Credit(a) PROVE AloneInv'
  <2>1. /\ \A b \in Accounts : \A c \in DOMAIN NoRow \ {"score"} : user'[b][c] = user[b][c]
        /\ req' = req /\ raced' = raced
    BY <1>2 DEF Credit, TypeOK, UserRow, NoRow
  <2>2. \A b \in Accounts : /\ user'[b].is_active = user[b].is_active
                            /\ PasswordColumns(user[b]) <=> PasswordColumns(user'[b])
    BY <2>1 DEF NoRow, PasswordColumns
  <2>3. \A q \in Requests : AtWork(q) => req[q].account \in Accounts
    BY AtWorkType DEF AtWork
  <2>4. PasswordColumnsAgree' /\ Apart'
    BY <2>1, <2>2, AloneInvDef DEF PasswordColumnsAgree, Apart, AtWork, Meets
  <2>5. \A q \in Requests :
           AtWork(q)' /\ req'[q].account \notin raced' => Coherent(req'[q], user')
    BY <2>1, <2>2, <2>3, AloneInvDef DEF Coherent, AtWork
  <2> QED BY <2>4, <2>5, AloneInvDefNext
<1>3. CASE Crash
  BY <1>3 DEF Crash, AloneInv, PasswordColumnsAgree, Idle, AtWork
<1>4. CASE UNCHANGED vars
  BY <1>4 DEF vars, AloneInv, PasswordColumnsAgree, Loaded, AtWork, Meets
<1> QED BY <1>1, <1>2, <1>3, <1>4 DEF Next

\* On an account whose requests never overlapped the flag and the deadline are
\* those of the stored password.
THEOREM PasswordColumnsCoherent == Spec => []PasswordColumnsAgree
<1>1. AloneInv => PasswordColumnsAgree
  BY DEF AloneInv
<1> QED BY <1>1, AloneInit, AloneStep, AccountsTypeCorrect, PTL DEF Spec
-----------------------------------------------------------------------------
(* The last admin *)

LEMMA AnotherOne ==
    ASSUME NEW S, IsFiniteSet(S), Cardinality(S) > 1, NEW a
    PROVE  \E b \in S : b # a
<1>1. SUFFICES ASSUME \A b \in S : b = a PROVE FALSE
  OBVIOUS
<1>2. S \subseteq {a}
  BY <1>1
<1>3. IsFiniteSet({a}) /\ Cardinality({a}) = 1
  BY FS_Singleton
<1>4. Cardinality(S) \in Nat /\ Cardinality(S) <= 1
  BY <1>2, <1>3, FS_Subset, FS_CardinalityType
<1> QED BY <1>4

\* A request that is about to deactivate an admin.
Deactivates(r) ==
    /\ r.kind = "status" /\ r.pc \in {"ready", "selected"}
    /\ ~r.entity.is_active
    /\ r.account \in Admins

Another(a, rows) == \E b \in Admins \ {a} : rows[b].is_active

LEMMA AdminsInvDef ==
    /\ AdminsInv <=> /\ AnAdminStaysAlone
                     /\ raced = {} => \A q \in Requests :
                           Deactivates(req[q]) => Another(req[q].account, user)
    /\ AdminsInv' <=> /\ AnAdminStaysAlone'
                      /\ raced' = {} => \A q \in Requests :
                            Deactivates(req'[q]) => Another(req'[q].account, user')
  BY DEF AdminsInv, Deactivates, Another

LEMMA AdminsInit == Init => AdminsInv
<1> SUFFICES ASSUME Init PROVE AdminsInv
  OBVIOUS
<1>1. AnAdminStaysAlone
  <2>1. PICK active \in SUBSET Accounts :
           /\ Admins \subseteq active
           /\ user = [a \in Accounts |->
                  [nickname |-> a, password |-> FirstPassword, is_temp_password |-> FALSE,
                   temp_password_expires |-> NULL, score |-> 0, profile_image |-> NULL,
                   is_active |-> a \in active]]
    BY Zenon DEF Init
  <2>2. ASSUME NEW a \in Admins PROVE user[a].is_active
    <3>1. a \in active /\ a \in Accounts
      BY <2>1, AccountsAssumption
    <3>2. user[a].is_active = (a \in active)
      BY <2>1, <3>1, Zenon
    <3> QED BY <3>1, <3>2
  <2> QED BY <2>2 DEF AnAdminStaysAlone, ActiveAdmins
<1>2. \A q \in Requests : ~Deactivates(req[q])
  BY DEF Init, Idle, Deactivates
<1> QED BY <1>1, <1>2, AdminsInvDef

\* Steps that leave every status alone.
LEMMA AdminsOfOthers ==
    ASSUME TypeOK, AdminsInv, NEW q \in Requests, RequestNext(q),
           \A a \in Accounts : user'[a].is_active = user[a].is_active,
           Deactivates(req'[q]) /\ raced' = {} => Another(req'[q].account, user')
    PROVE  AdminsInv'
<1>1. /\ \A r \in Requests \ {q} : req'[r] = req[r]
      /\ raced \subseteq raced'
  BY OthersStay
<1>2. /\ ActiveAdmins' = ActiveAdmins
      /\ \A a : Another(a, user) => Another(a, user')
  BY AccountsAssumption DEF ActiveAdmins, Another
<1>3. AnAdminStaysAlone'
  BY <1>1, <1>2 DEF AdminsInv, AnAdminStaysAlone
<1>4. raced' = {} => \A r \in Requests : Deactivates(req'[r]) => Another(req'[r].account, user')
  BY <1>1, <1>2, AdminsInvDef
<1> QED BY <1>3, <1>4, AdminsInvDef

LEMMA AdminsUpdate ==
    ASSUME TypeOK, AloneInv, AdminsInv, NEW q \in Requests, UpdateUser(q)
    PROVE  AdminsInv'
<1> DEFINE a == req[q].account
           r == [req[q] EXCEPT !.nickname = NULL, !.seen = NoRow]
           row == Saved(req[q].entity, req[q].seen, user[a])
<1>0. RequestNext(q) /\ \A s \in Requests \ {q} : req'[s] = req[s]
  BY OthersStay DEF RequestNext
<1>1. /\ req[q] \in RequestRow /\ req[q].entity \in UserRow /\ a \in Accounts
      /\ user[a] \in UserRow /\ req[q].pc = "selected" /\ AtWork(q)
  BY AtWorkType DEF UpdateUser, Loaded, Idle, TypeOK, AtWork
<1>2. user' = [user EXCEPT ![a] = row] /\ raced' = raced
  BY DEF UpdateUser
<1>3. SUFFICES ASSUME raced = {} PROVE AdminsInv'
  BY <1>2, AdminsInvDef DEF AnAdminStaysAlone
<1>4. /\ Coherent(req[q], user)
      /\ \A s \in Requests \ {q} : AtWork(s) => ~Meets(q, s)
  BY <1>1, <1>3, AloneInvDef DEF Apart
<1>5. row.is_active = req[q].entity.is_active
  BY <1>1, <1>4, SavedUser DEF Coherent, NoRow
<1>6. ~Deactivates(req'[q])
  <2>1. CASE req'[q] = Idle
    BY <2>1 DEF Idle, Deactivates
  <2>2. CASE req'[q] # Idle
    <3>1. r \in Fresh /\ req'[q] = GoOn(r) /\ GoOn(r) # Idle
      BY <2>2, FreshRequests DEF UpdateUser, Leave, TypeOK
    <3> HIDE DEF r
    <3> QED BY <3>1, GoOnKeeps DEF Deactivates
  <2> QED BY <2>1, <2>2
<1>7. CASE req[q].kind # "status"
  <2>1. \A b \in Accounts : user'[b].is_active = user[b].is_active
    <3> HIDE DEF row
    <3> QED BY <1>1, <1>2, <1>4, <1>5, <1>7 DEF Coherent, TypeOK
  <2> QED BY <1>0, <1>6, <2>1, AdminsOfOthers
<1>8. CASE req[q].kind = "status"
  <2>1. \A s \in Requests : ~Deactivates(req'[s])
    BY <1>0, <1>4, <1>6, <1>8 DEF Deactivates, AtWork, Meets
  <2>2. Admins # {} => ActiveAdmins # {}
    BY <1>3 DEF AdminsInv, AnAdminStaysAlone
  <2>3. Admins # {} => ActiveAdmins' # {}
    <3> HIDE DEF row
    <3>1. /\ \A b \in Accounts \ {a} : user'[b] = user[b]
          /\ user'[a].is_active = req[q].entity.is_active
      BY <1>1, <1>2, <1>5 DEF TypeOK
    <3>2. CASE a \notin Admins \/ req[q].entity.is_active
      BY <2>2, <3>1, <3>2, AccountsAssumption DEF ActiveAdmins
    <3>3. CASE a \in Admins /\ ~req[q].entity.is_active
      <4>1. Another(a, user)
        BY <1>1, <1>3, <1>8, <3>3, AdminsInvDef DEF Deactivates
      <4> QED BY <3>1, <4>1, AccountsAssumption DEF Another, ActiveAdmins
    <3> QED BY <3>2, <3>3
  <2> QED BY <2>1, <2>3, AdminsInvDef DEF AnAdminStaysAlone
<1> QED BY <1>7, <1>8

LEMMA AdminsRequest ==
    ASSUME TypeOK, AloneInv, AdminsInv, NEW q \in Requests, RequestNext(q)
    PROVE  AdminsInv'
<1>1. CASE UpdateUser(q)
  BY <1>1, AdminsUpdate
<1>2. CASE Beginning(q)
  <2>1. ~Deactivates(req'[q]) /\ user' = user
    BY <1>2, JustBegun DEF Deactivates
  <2> QED BY <2>1, AdminsOfOthers
<1>3. CASE UnlinkOthers(q) \/ WriteFile(q)
  <2>1. req[q] \in RequestRow
    BY <1>3, AtWorkType DEF UnlinkOthers, WriteFile, Idle
  <2>2. ~Deactivates(req'[q]) /\ user' = user
    BY <1>3, <2>1 DEF UnlinkOthers, WriteFile, Deactivates, TypeOK, RequestRow, Request
  <2> QED BY <2>2, AdminsOfOthers
<1>4. CASE FindUser(q)
  <2> DEFINE r == [req[q] EXCEPT !.entity = user[req[q].account]]
  <2>1. r \in Fresh /\ req'[q] = GoOn(r) /\ user' = user
    BY <1>4, FreshRequests DEF FindUser, TypeOK
  <2>2. ~Deactivates(GoOn(r))
    <3> HIDE DEF r
    <3>1. CASE GoOn(r) = Idle
      BY <3>1 DEF Idle, Deactivates
    <3>2. CASE GoOn(r) # Idle
      BY <2>1, <3>2, GoOnKeeps DEF Deactivates
    <3> QED BY <3>1, <3>2
  <2> QED BY <2>1, <2>2, AdminsOfOthers
<1>5. CASE CountAdmins(q)
  <2>1. req[q] \in RequestRow /\ req[q].entity \in UserRow /\ user' = user
    BY <1>5, AtWorkType DEF CountAdmins, Loaded, Idle
  <2>2. CASE req' = [req EXCEPT ![q] = Idle]
    <3>1. ~Deactivates(req'[q])
      BY <2>2 DEF Deactivates, Idle, TypeOK
    <3> QED BY <2>1, <3>1, AdminsOfOthers
  <2>3. CASE /\ MayChange(req[q].account, req[q].active)
             /\ Ready(q, [req[q].entity EXCEPT !.is_active = req[q].active])
    <3>1. req'[q].account = req[q].account /\ req'[q].entity.is_active = req[q].active
      BY <2>1, <2>3 DEF Ready, TypeOK, RequestRow, Request, UserRow
    <3>2. ASSUME Deactivates(req'[q]) PROVE Another(req'[q].account, user')
      <4>1. IsFiniteSet(ActiveAdmins)
        BY AccountsAssumption, FS_Subset DEF ActiveAdmins
      <4>2. Cardinality(ActiveAdmins) > 1
        BY <2>3, <3>1, <3>2 DEF MayChange, Deactivates
      <4>3. \E b \in ActiveAdmins : b # req[q].account
        BY <4>1, <4>2, AnotherOne
      <4> QED BY <2>1, <3>1, <4>3 DEF ActiveAdmins, Another
    <3> QED BY <2>1, <3>2, AdminsOfOthers
  <2> QED BY <1>5, <2>2, <2>3 DEF CountAdmins, Leave
<1>6. CASE CheckNickname(q) \/ SendMail(q)
  <2>1. req[q] \in RequestRow /\ user' = user /\ req[q].kind # "status"
    BY <1>6, AtWorkType DEF CheckNickname, SendMail, Idle
  <2>2. req' = [req EXCEPT ![q] = Idle] \/ \E e : Ready(q, e)
    BY <1>6 DEF CheckNickname, SendMail, Leave
  <2>3. ~Deactivates(req'[q])
    BY <2>1, <2>2 DEF Ready, Deactivates, Idle, TypeOK, RequestRow, Request
  <2> QED BY <2>1, <2>3, AdminsOfOthers
<1>7. CASE Ending(q)
  <2>1. ~Deactivates(req'[q]) /\ user' = user
    BY <1>7, Ended DEF Deactivates, Idle
  <2> QED BY <2>1, AdminsOfOthers
<1>8. CASE SelectUser(q)
  <2>1. req[q] \in RequestRow /\ req[q].pc = "ready" /\ user' = user /\ raced' = raced
    BY <1>8, AtWorkType DEF SelectUser, Idle
  <2>2. /\ req'[q].account = req[q].account /\ req'[q].entity = req[q].entity
        /\ req'[q].kind = req[q].kind
    BY <1>8, <2>1 DEF SelectUser, TypeOK, RequestRow, Request
  <2>3. Deactivates(req'[q]) => Deactivates(req[q])
    BY <2>1, <2>2 DEF Deactivates
  <2> QED BY <2>1, <2>2, <2>3, AdminsInvDef, AdminsOfOthers
<1> QED BY <1>1, <1>2, <1>3, <1>4, <1>5, <1>6, <1>7, <1>8 DEF RequestNext, Beginning, Ending

LEMMA AdminsStep == TypeOK /\ AloneInv /\ AdminsInv /\ [Next]_vars => AdminsInv'
<1> SUFFICES ASSUME TypeOK, AloneInv, AdminsInv, [Next]_vars PROVE AdminsInv'
  OBVIOUS
<1>1. CASE \E q \in Requests : RequestNext(q)
  BY <1>1, AdminsRequest
<1>2. ASSUME NEW a \in Accounts, Credit(a) PROVE AdminsInv'
  <2>1. /\ \A b \in Accounts : user'[b].is_active = user[b].is_active
        /\ req' = req /\ raced' = raced
    BY <1>2 DEF Credit, TypeOK, UserRow
  <2>2. ActiveAdmins' = ActiveAdmins /\ \A b : Another(b, user) <=> Another(b, user')
    BY <2>1, AccountsAssumption DEF ActiveAdmins, Another
  <2> QED BY <2>1, <2>2, AdminsInvDef DEF AnAdminStaysAlone
<1>3. CASE Crash
  <2>1. \A q \in Requests : ~Deactivates(req'[q])
    BY <1>3 DEF Crash, Idle, Deactivates
  <2>2. AnAdminStaysAlone'
    BY <1>3 DEF Crash, AdminsInv, AnAdminStaysAlone, ActiveAdmins
  <2> QED BY <2>1, <2>2, AdminsInvDef
<1>4. CASE UNCHANGED vars
  BY <1>4 DEF vars, AdminsInv, AnAdminStaysAlone, ActiveAdmins
<1> QED BY <1>1, <1>2, <1>3, <1>4 DEF Next

\* While no two requests met, deactivations and all the other requests leave an
\* active admin, whoever asks and whoever is deactivated meanwhile.
THEOREM AnAdminRemains == Spec => []AnAdminStaysAlone
<1>1. AdminsInv => AnAdminStaysAlone
  BY DEF AdminsInv
<1> QED BY <1>1, AloneInit, AloneStep, AdminsInit, AdminsStep, AccountsTypeCorrect, PTL DEF Spec

-----------------------------------------------------------------------------
(* Avatars *)

LEMMA AvatarInvDef ==
    /\ AvatarInv =>
          /\ NicknamesDiffer
          /\ \A q \in Requests : AtWork(q) /\ req[q].account \notin raced =>
                Pictured(req[q], user[req[q].account], avatar[req[q].account])
    /\ AvatarInv' <=>
          /\ NicknamesDiffer'
          /\ \A a \in Accounts \ (raced' \cup torn') :
                \/ user'[a].profile_image \in avatar'[a] \cup {NULL}
                \/ \E q \in Requests :
                      AtWork(q)' /\ req'[q].account = a /\ req'[q].kind = "image"
          /\ \A q \in Requests : AtWork(q)' /\ req'[q].account \notin raced' =>
                Pictured(req'[q], user'[req'[q].account], avatar'[req'[q].account])
  BY DEF AvatarInv, Pictured

LEMMA AvatarInit == Init => AvatarInv
<1> SUFFICES ASSUME Init PROVE AvatarInv
  OBVIOUS
<1>1. \A q \in Requests : ~AtWork(q)
  BY DEF Init, Idle, AtWork
<1>2. PICK active \in SUBSET Accounts :
         user = [a \in Accounts |->
            [nickname |-> a, password |-> FirstPassword, is_temp_password |-> FALSE,
             temp_password_expires |-> NULL, score |-> 0, profile_image |-> NULL,
             is_active |-> a \in active]]
  BY Zenon DEF Init
<1>3. ASSUME NEW a \in Accounts PROVE user[a].nickname = a /\ user[a].profile_image = NULL
  BY <1>2, Zenon
<1> QED BY <1>1, <1>3 DEF AvatarInv, NicknamesDiffer

\* What a handler does on its own to the nickname and the image.
LEMMA GoOnPictures ==
    ASSUME NEW r \in Fresh, GoOn(r) # Idle
    PROVE  /\ GoOn(r).image = r.image
           /\ GoOn(r).entity.nickname = r.entity.nickname
           /\ GoOn(r).entity.profile_image = IF r.kind = "image" THEN Extension(r.image)
                                             ELSE r.entity.profile_image
<1> USE DEF Fresh
<1>1. CASE r.kind = "image"
  <2>1. GoOn(r) = [r EXCEPT !.pc = "ready",
                            !.entity = [r.entity EXCEPT !.profile_image = ImageUrl(r.image)]]
    BY <1>1 DEF GoOn, Request
  <2> QED BY <1>1, <2>1 DEF Request, UserRow, ImageUrl
<1>2. CASE r.kind = "profile" /\ ~Renames(r) /\ r.password = NULL
  BY <1>2 DEF GoOn
<1>3. CASE r.kind = "profile" /\ ~Renames(r) /\ r.password # NULL
  <2>1. GoOn(r) = [r EXCEPT !.pc = "ready", !.password = NULL,
                            !.entity = WithPassword(r.entity, r.password)]
    BY <1>3 DEF GoOn, Request
  <2>2. PICK e : e = WithPassword(r.entity, r.password)
    OBVIOUS
  <2>3. e.nickname = r.entity.nickname /\ e.profile_image = r.entity.profile_image
    <3>1. r.entity \in UserRow
      BY DEF Request
    <3> QED BY <2>2, <3>1 DEF UserRow, WithPassword
  <2>4. GoOn(r) = [r EXCEPT !.pc = "ready", !.password = NULL, !.entity = e]
    BY <2>1, <2>2
  <2> QED BY <1>3, <2>3, <2>4 DEF Request
<1>4. CASE r.kind # "image" /\ ~(r.kind = "profile" /\ ~Renames(r))
  <2>1. GoOn(r) = [r EXCEPT !.pc = "found"]
    BY <1>4 DEF GoOn
  <2> QED BY <1>4, <2>1 DEF Request
<1> QED BY <1>1, <1>2, <1>3, <1>4

\* Only the two steps of an upload that is at work after them touch the files,
\* those of its account; only an upload's save mends what another left torn.
LEMMA FileSteps ==
    ASSUME TypeOK, NEW q \in Requests, RequestNext(q)
    PROVE  /\ torn \ {req[q].account} \subseteq torn'
           /\ avatar' # avatar =>
                 /\ AtWork(q)'
                 /\ req[q].account \in Accounts
                 /\ \A b \in Accounts \ {req[q].account} : avatar'[b] = avatar[b]
<1>1. CASE Beginning(q)
  BY <1>1 DEF Beginning, BeginStatus, BeginProfile, BeginReset, BeginUpload
<1>2. CASE UnlinkOthers(q) \/ WriteFile(q)
  <2>1. req[q] \in RequestRow /\ req[q].account \in Accounts
    BY <1>2, AtWorkType DEF UnlinkOthers, WriteFile, Idle
  <2>2. AtWork(q)' /\ torn' = torn
    BY <1>2, <2>1 DEF UnlinkOthers, WriteFile, AtWork, TypeOK, RequestRow, Request
  <2>3. \A b \in Accounts \ {req[q].account} : avatar'[b] = avatar[b]
    BY <1>2, <2>1 DEF UnlinkOthers, WriteFile, TypeOK
  <2> QED BY <2>1, <2>2, <2>3
<1>3. CASE FindUser(q) \/ CountAdmins(q) \/ CheckNickname(q) \/ SendMail(q) \/ SelectUser(q)
  BY <1>3 DEF FindUser, CountAdmins, CheckNickname, SendMail, SelectUser
<1>4. CASE UpdateUser(q)
  BY <1>4 DEF UpdateUser
<1>5. CASE Ending(q)
  BY <1>5, Ended
<1> QED BY <1>1, <1>2, <1>3, <1>4, <1>5 DEF RequestNext, Beginning, Ending

\* A step of q on a row no other request at work shares: it leaves the image
\* and the files alone, names a file that is there, stays at work as an upload, or
\* leaves them torn.
LEMMA AvatarOfOthers ==
    ASSUME TypeOK, AloneInv, AloneInv', AvatarInv, NEW q \in Requests, RequestNext(q),
           NicknamesDiffer',
           NEW a, a = req[q].account,
           AtWork(q)' /\ a \notin raced' => Pictured(req'[q], user'[a], avatar'[a]),
           a \in Accounts \ (raced' \cup torn') =>
              \/ user'[a].profile_image \in avatar'[a] \cup {NULL}
              \/ AtWork(q)' /\ req'[q].kind = "image"
              \/ /\ a \notin torn
                 /\ user'[a].profile_image = user[a].profile_image
                 /\ avatar'[a] = avatar[a]
                 /\ ~(AtWork(q) /\ req[q].kind = "image")
    PROVE  AvatarInv'
<1>1. /\ \A r \in Requests \ {q} : req'[r] = req[r]
      /\ raced \subseteq raced'
  BY OthersStay
<1>2. \A b \in Accounts \ {a} : user'[b] = user[b] /\ avatar'[b] = avatar[b]
  BY RequestSteps, FileSteps
<1>3. ASSUME NEW r \in Requests \ {q}, AtWork(r)', req'[r].account \notin raced'
      PROVE  Pictured(req'[r], user'[req'[r].account], avatar'[req'[r].account])
  <2>1. /\ req'[r] = req[r] /\ AtWork(r) /\ req[r].account \notin raced
        /\ req[r].account \in Accounts
    BY <1>1, <1>3, AtWorkType DEF AtWork
  <2>2. Pictured(req[r], user[req[r].account], avatar[req[r].account])
    BY <2>1, AvatarInvDef
  <2>3. CASE req[r].account # a
    BY <1>2, <2>1, <2>2, <2>3
  <2>4. CASE req[r].account = a
    <3>1. user' = user
      BY <2>1, <2>4, RequestSteps, AloneInvDef DEF Apart, Meets
    <3>2. ~AtWork(q)'
      <4>1. SUFFICES ASSUME AtWork(q)' PROVE FALSE
        OBVIOUS
      <4>2. req'[q].account = a /\ Meets(r, q)'
        BY <2>1, <2>4, <4>1, RequestSteps DEF Meets
      <4> QED BY <1>3, <4>1, <4>2, AloneInvDefNext DEF Apart
    <3>3. avatar' = avatar
      BY <3>2, FileSteps
    <3> QED BY <2>1, <2>2, <3>1, <3>3
  <2> QED BY <2>3, <2>4
<1>4. AtWork(q)' => req'[q].account = a
  BY RequestSteps
<1>5. ASSUME NEW b \in Accounts \ (raced' \cup torn')
      PROVE  \/ user'[b].profile_image \in avatar'[b] \cup {NULL}
             \/ \E p \in Requests : AtWork(p)' /\ req'[p].account = b /\ req'[p].kind = "image"
  <2>1. b \notin torn =>
        \/ user[b].profile_image \in avatar[b] \cup {NULL}
        \/ \E p \in Requests : AtWork(p) /\ req[p].account = b /\ req[p].kind = "image"
    BY <1>1, <1>5 DEF AvatarInv
  <2>2. \A p \in Requests \ {q} : AtWork(p) => AtWork(p)' /\ req'[p] = req[p]
    BY <1>1 DEF AtWork
  <2>3. CASE b # a
    BY <1>2, <1>5, <2>1, <2>2, <2>3, FileSteps
  <2>4. CASE b = a
    BY <1>4, <1>5, <2>1, <2>2, <2>4
  <2> QED BY <2>3, <2>4
<1> QED BY <1>3, <1>4, <1>5, AvatarInvDef

LEMMA AvatarRequest ==
    ASSUME TypeOK, AloneInv, AloneInv', AvatarInv, NEW q \in Requests, RequestNext(q)
    PROVE  AvatarInv'
<1>0. PICK a : a = req[q].account
  OBVIOUS
<1>a. /\ raced \subseteq raced'
      /\ AtWork(q) /\ a \notin raced => Pictured(req[q], user[a], avatar[a])
      /\ user' = user => NicknamesDiffer'
  BY <1>0, OthersStay, AvatarInvDef DEF NicknamesDiffer
<1>1. CASE Beginning(q)
  <2>1. ~AtWork(q)' /\ user' = user /\ req[q].pc = "idle"
    BY <1>1, JustBegun
       DEF AtWork, Beginning, BeginStatus, BeginProfile, BeginReset, BeginUpload, Begin
  <2>2. a \notin Accounts
    BY <1>0, <2>1, AccountsAssumption DEF TypeOK, RequestRow, Request, Idle
  <2> QED BY <1>0, <1>a, <2>1, <2>2, AvatarOfOthers
<1>2. CASE UnlinkOthers(q)
  <2>1. req[q] \in RequestRow
    BY <1>2, AtWorkType DEF UnlinkOthers, Idle
  <2>2. /\ req'[q].kind = "image" /\ req'[q].pc = "cleared" /\ user' = user
    BY <1>2, <2>1 DEF UnlinkOthers, TypeOK, RequestRow, Request
  <2>3. AtWork(q)' /\ Pictured(req'[q], user'[a], avatar'[a])
    BY <2>2 DEF AtWork, Pictured
  <2> QED BY <1>0, <1>a, <2>2, <2>3, AvatarOfOthers
<1>3. CASE WriteFile(q)
  <2>1. req[q] \in RequestRow /\ a \in Accounts
    BY <1>0, <1>3, AtWorkType DEF WriteFile, Idle
  <2>2. /\ req'[q].kind = "image" /\ req'[q].pc = "written" /\ user' = user
        /\ req'[q].image = req[q].image
    BY <1>3, <2>1 DEF WriteFile, TypeOK, RequestRow, Request
  <2>3. Extension(req[q].image) \in avatar'[a]
    BY <1>0, <1>3, <2>1 DEF WriteFile, TypeOK
  <2>4. AtWork(q)' /\ Pictured(req'[q], user'[a], avatar'[a])
    BY <2>2, <2>3 DEF AtWork, Pictured
  <2> QED BY <1>0, <1>a, <2>2, <2>4, AvatarOfOthers
<1>4. CASE FindUser(q)
  <2> DEFINE r == [req[q] EXCEPT !.entity = user[req[q].account]]
  <2>1. r \in Fresh /\ req'[q] = GoOn(r) /\ UNCHANGED <<user, avatar, torn>>
    BY <1>4, FreshRequests DEF FindUser, TypeOK
  <2>2. /\ r.account = a /\ r.entity = user[a] /\ a \in Accounts
        /\ r.kind = req[q].kind /\ r.image = req[q].image
        /\ req[q].kind = "image" => req[q].pc = "written"
    BY <1>0, <1>4, AtWorkType DEF FindUser, RequestRow, Request, Idle
  <2>3. r.kind = "image" /\ a \notin raced => Extension(r.image) \in avatar[a]
    BY <1>a, <2>2 DEF Pictured, AtWork
  <2>4. CASE GoOn(r) = Idle
    <3>1. ~AtWork(q)'
      BY <2>1, <2>4 DEF AtWork, Idle
    <3>2. r.kind # "image"
      BY <2>4 DEF GoOn, Idle, Fresh, Request
    <3> QED BY <1>0, <1>a, <2>1, <2>2, <3>1, <3>2, AvatarOfOthers
  <2>5. CASE GoOn(r) # Idle
    <3> HIDE DEF r
    <3>1. /\ req'[q].kind = r.kind /\ req'[q].image = r.image /\ AtWork(q)'
      BY <2>1, <2>5, GoOnKeeps, GoOnPictures DEF AtWork
    <3>2. a \notin raced => Pictured(req'[q], user'[a], avatar'[a])
      BY <2>1, <2>2, <2>3, <2>5, <3>1, GoOnPictures DEF Pictured
    <3>3. \/ req'[q].kind = "image"
          \/ ~(AtWork(q) /\ req[q].kind = "image")
      BY <2>2, <3>1
    <3> QED BY <1>0, <1>a, <2>1, <3>1, <3>2, <3>3, AvatarOfOthers
  <2> QED BY <2>4, <2>5
<1>5. CASE CountAdmins(q) \/ CheckNickname(q) \/ SendMail(q)
  <2>1. req[q] \in RequestRow /\ req[q].entity \in UserRow /\ req[q].pc = "found"
    BY <1>5, AtWorkType DEF CountAdmins, CheckNickname, SendMail, Loaded, Idle
  <2>2. PICK e : /\ e.profile_image = req[q].entity.profile_image
                 /\ req' = [req EXCEPT ![q] = Idle] \/ Ready(q, e)
    <3>1. CASE CountAdmins(q)
      <4> DEFINE e == [req[q].entity EXCEPT !.is_active = req[q].active]
      <4>1. e.profile_image = req[q].entity.profile_image
        BY <2>1 DEF UserRow
      <4>2. req' = [req EXCEPT ![q] = Idle] \/ Ready(q, e)
        BY <3>1 DEF CountAdmins, Leave
      <4> QED BY <4>1, <4>2
    <3>2. CASE CheckNickname(q)
      <4> DEFINE e == [req[q].entity EXCEPT !.nickname = req[q].nickname]
      <4>1. e.profile_image = req[q].entity.profile_image
        BY <2>1 DEF UserRow
      <4>2. req' = [req EXCEPT ![q] = Idle] \/ Ready(q, e)
        BY <3>2 DEF CheckNickname, Leave
      <4> QED BY <4>1, <4>2
    <3>3. CASE SendMail(q)
      <4>1. \A t : WithTempPassword(req[q].entity, t).profile_image = req[q].entity.profile_image
        BY <2>1 DEF UserRow, WithTempPassword
      <4> QED BY <3>3, <4>1 DEF SendMail
    <3> QED BY <1>5, <3>1, <3>2, <3>3
  <2>3. req[q].kind # "image" /\ UNCHANGED <<user, avatar, torn>>
    BY <1>5 DEF CountAdmins, CheckNickname, SendMail
  <2>4. CASE req' = [req EXCEPT ![q] = Idle]
    <3>1. ~AtWork(q)'
      BY <2>4 DEF AtWork, Idle, TypeOK
    <3> QED BY <1>0, <1>a, <2>3, <3>1, AvatarOfOthers
  <2>5. CASE Ready(q, e)
    <3>1. req'[q] = [req[q] EXCEPT !.pc = "ready", !.entity = e]
      BY <2>5 DEF Ready, TypeOK
    <3>2. req'[q].entity = e /\ req'[q].kind = req[q].kind
      BY <2>1, <3>1 DEF RequestRow, Request
    <3>3. a \notin raced => Pictured(req'[q], user'[a], avatar'[a])
      BY <1>a, <2>1, <2>2, <2>3, <3>2 DEF Pictured, AtWork
    <3> QED BY <1>0, <1>a, <2>3, <3>3, AvatarOfOthers
  <2> QED BY <2>2, <2>4, <2>5
<1>6. CASE Ending(q)
  <2>1. /\ ~AtWork(q)' /\ user' = user /\ avatar' = avatar
        /\ AtWork(q) /\ req[q].kind = "image" => a \in torn'
    BY <1>0, <1>6, Ended DEF Abandoned
  <2>2. a \notin torn' => a \notin torn
    BY <1>6, Ended
  <2> QED BY <1>0, <1>a, <2>1, <2>2, AvatarOfOthers
<1>7. CASE SelectUser(q)
  <2>1. req[q] \in RequestRow /\ req[q].pc = "ready"
    BY <1>7, AtWorkType DEF SelectUser, Idle
  <2>2. req'[q] = [req[q] EXCEPT !.pc = "selected", !.seen = user[req[q].account]]
    BY <1>7 DEF SelectUser, TypeOK
  <2>3. /\ req'[q].entity = req[q].entity /\ req'[q].image = req[q].image
        /\ req'[q].kind = req[q].kind /\ req'[q].pc = "selected"
    BY <2>1, <2>2 DEF RequestRow, Request
  <2>4. UNCHANGED <<user, avatar, torn>>
    BY <1>7 DEF SelectUser
  <2>5. a \notin raced => Pictured(req'[q], user'[a], avatar'[a])
    BY <1>a, <2>1, <2>3, <2>4 DEF Pictured, AtWork
  <2>6. AtWork(q)'
    BY <2>3 DEF AtWork
  <2> QED BY <1>0, <1>a, <2>3, <2>4, <2>5, <2>6, AvatarOfOthers
<1>8. CASE UpdateUser(q)
  <2> DEFINE r == [req[q] EXCEPT !.nickname = NULL, !.seen = NoRow]
  <2>1. /\ req[q] \in RequestRow /\ req[q].entity \in UserRow /\ a \in Accounts
        /\ user[a] \in UserRow /\ req[q].pc = "selected" /\ AtWork(q)
    BY <1>0, <1>8, AtWorkType DEF UpdateUser, Loaded, Idle, TypeOK, AtWork
  <2>2. PICK row : row = Saved(req[q].entity, req[q].seen, user[a])
    OBVIOUS
  <2>3. /\ user' = [user EXCEPT ![a] = row] /\ avatar' = avatar /\ raced' = raced
        /\ ~NicknameTaken(a, row.nickname)
    BY <1>0, <1>8, <2>2 DEF UpdateUser
  <2>4. user'[a] = row /\ \A b \in Accounts \ {a} : user'[b] = user[b]
    BY <2>1, <2>3 DEF TypeOK
  <2>5. NicknamesDiffer'
    BY <2>3, <2>4, AvatarInvDef DEF NicknamesDiffer, NicknameTaken
  <2>6. a \notin raced => /\ row.nickname = req[q].entity.nickname
                          /\ row.profile_image = req[q].entity.profile_image
    <3>1. a \notin raced => Coherent(req[q], user)
      BY <1>0, <2>1, AloneInvDef
    <3> QED BY <1>0, <2>1, <2>2, <3>1, SavedUser DEF Coherent, NoRow
  <2>7. a \notin raced =>
           IF req[q].kind = "image"
           THEN /\ row.profile_image = Extension(req[q].image)
                /\ Extension(req[q].image) \in avatar[a]
           ELSE row.profile_image = user[a].profile_image
    BY <1>a, <2>1, <2>6 DEF Pictured
  <2>8. a \in Accounts \ (raced' \cup torn') =>
              \/ user'[a].profile_image \in avatar'[a] \cup {NULL}
              \/ /\ a \notin torn
                 /\ user'[a].profile_image = user[a].profile_image
                 /\ avatar'[a] = avatar[a]
                 /\ ~(AtWork(q) /\ req[q].kind = "image")
    <3>1. req[q].kind # "image" => torn' = torn
      BY <1>8 DEF UpdateUser
    <3> QED BY <2>3, <2>4, <2>7, <3>1
  <2>9. CASE req'[q] = Idle
    <3>1. ~AtWork(q)'
      BY <2>9 DEF AtWork, Idle
    <3> QED BY <1>0, <2>5, <2>8, <3>1, AvatarOfOthers
  <2>10. CASE req'[q] # Idle
    <3>1. r \in Fresh /\ req'[q] = GoOn(r) /\ GoOn(r) # Idle
      BY <1>8, <2>10, FreshRequests DEF UpdateUser, Leave, TypeOK
    <3>2. r.entity = req[q].entity /\ r.kind = req[q].kind /\ r.image = req[q].image
      BY <2>1 DEF RequestRow, Request
    <3>3. a \notin raced => Pictured(req'[q], user'[a], avatar'[a])
      <4> HIDE DEF r
      <4> QED BY <2>3, <2>4, <2>6, <2>7, <3>1, <3>2, GoOnKeeps, GoOnPictures DEF Pictured
    <3> QED BY <1>0, <2>3, <2>5, <2>8, <3>3, AvatarOfOthers
  <2> QED BY <2>9, <2>10
<1> QED BY <1>1, <1>2, <1>3, <1>4, <1>5, <1>6, <1>7, <1>8 DEF RequestNext, Beginning, Ending

LEMMA AvatarStep == TypeOK /\ AloneInv /\ AvatarInv /\ [Next]_vars => AvatarInv'
<1> SUFFICES ASSUME TypeOK, AloneInv, AvatarInv, [Next]_vars PROVE AvatarInv'
  OBVIOUS
<1>1. CASE \E q \in Requests : RequestNext(q)
  BY <1>1, AvatarRequest, AloneStep
<1>2. ASSUME NEW a \in Accounts, Credit(a) PROVE AvatarInv'
  <2>1. /\ \A b \in Accounts : /\ user'[b].nickname = user[b].nickname
                               /\ user'[b].profile_image = user[b].profile_image
        /\ req' = req /\ raced' = raced /\ avatar' = avatar /\ torn' = torn
    BY <1>2 DEF Credit, TypeOK, UserRow
  <2>2. \A q \in Requests : AtWork(q) => req[q].account \in Accounts
    BY AtWorkType DEF AtWork
  <2>3. NicknamesDiffer'
    BY <2>1, AvatarInvDef DEF NicknamesDiffer
  <2>4. \A q \in Requests : AtWork(q)' /\ req'[q].account \notin raced' =>
           Pictured(req'[q], user'[req'[q].account], avatar'[req'[q].account])
    BY <2>1, <2>2, AvatarInvDef DEF Pictured, AtWork
  <2> QED BY <2>1, <2>3, <2>4, AvatarInvDef DEF AvatarInv, AtWork
<1>3. CASE Crash
  <2>1. /\ user' = user /\ avatar' = avatar /\ raced' = raced
        /\ \A q \in Requests : ~AtWork(q)'
    BY <1>3 DEF Crash, Idle, AtWork
  <2>2. \A q \in Requests : Abandoned(q) \subseteq torn' /\ torn \subseteq torn'
    BY <1>3 DEF Crash
  <2>3. \A a \in Accounts \ (raced' \cup torn') : user'[a].profile_image \in avatar'[a] \cup {NULL}
    BY <1>3, <2>1, <2>2 DEF AvatarInv, Abandoned, Crash
  <2> QED BY <2>1, <2>3, AvatarInvDef DEF NicknamesDiffer
<1>4. CASE UNCHANGED vars
  <2>1. /\ user' = user /\ req' = req /\ raced' = raced /\ avatar' = avatar /\ torn' = torn
    BY <1>4 DEF vars
  <2> QED BY <2>1, AvatarInvDef DEF AvatarInv, NicknamesDiffer, AtWork
<1> QED BY <1>1, <1>2, <1>3, <1>4 DEF Next

\* On an account whose requests never overlapped the row names a file that is
\* there, whatever fails, but during an upload and after one that ended early.
THEOREM AvatarsExist == Spec => []AvatarExists
<1>1. TypeOK /\ AvatarInv => AvatarExists
  BY DEF AvatarInv, AvatarExists, TypeOK
<1> QED BY <1>1, AloneInit, AloneStep, AvatarInit, AvatarStep, AccountsTypeCorrect, PTL DEF Spec

\* The conjunction of the five, which is inductive with the types.
THEOREM AccountsInductive == Spec => []AccountsInv
<1>1. Init => AccountsInv
  BY PasswordsInit, CreditsInit, AloneInit, AdminsInit, AvatarInit DEF AccountsInv
<1>2. TypeOK /\ AccountsInv /\ [Next]_vars => AccountsInv'
  BY PasswordsStep, CreditsStep, AloneStep, AdminsStep, AvatarStep DEF AccountsInv
<1> QED BY <1>1, <1>2, AccountsTypeCorrect, PTL DEF Spec
=============================================================================
