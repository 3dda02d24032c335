------------------------------ MODULE Sessions ------------------------------
(***************************************************************************)
(* Who is connected: login (auth/auth.service.ts), the WebSocket gateway   *)
(* (events/events.gateway.ts), the trigger that announces every change of  *)
(* a row of users, and the two ways a deactivated user is thrown out:      *)
(* setActive tells his sockets, the listener closes them.                  *)
(***************************************************************************)
EXTENDS ChangesListener

CONSTANTS
    Users,
    Sockets,        \* sockets open at one time
    Requests,       \* concurrent setActive requests
    MaxChanges      \* bound: statements that change a row of users

ASSUME SessionsAssumption ==
    /\ NULL \notin Users
    /\ MaxChanges \in Nat

VARIABLES
    account,       \* users.is_active, "deleted" once the row is gone
    login,         \* what each user holds: "none", a login under way, a "token"
    socket,        \* the sockets the gateway let in
    req,           \* the setActive requests that have saved
    note,          \* user_changed notifications on their way to a client
    handling,      \* the handlePayload calls that wait for Redis
    changes,       \* changes so far
    reactivated,   \* history: the users that were activated again
    missed,        \* history: users whose deactivation the listener did not act on
    untold         \* history: users whose deactivation no setActive followed up

sessionVars == <<account, login, socket, req, note, handling, changes, reactivated, missed, untold>>
vars == <<listenerVars, sessionVars>>

\* told: it got force.logout; old: opened with a token from before the deactivation.
SocketRow == [user : Users, open : BOOLEAN, told : BOOLEAN, old : BOOLEAN]

Note == [id : 1..MaxChanges, conn : Clients, user : Users, logout : BOOLEAN]

Idle == [pc |-> "idle", user |-> NULL, active |-> FALSE]

\* The sockets in room user:<u>.
Room(u) == {s \in Sockets : socket[s] # NULL /\ socket[s].user = u /\ socket[s].open}

-----------------------------------------------------------------------------
(* AuthService.login *)

LoginFind(u) ==
    /\ ~stopped
    /\ login[u] = "none"
    /\ account[u] = "active"
    /\ login' = [login EXCEPT ![u] = "comparing"]
    /\ UNCHANGED <<listenerVars, account, socket, req, note, handling, changes, reactivated,
                   missed, untold>>

\* The password is wrong, or temporary and expired; or it is right and signed for.
LoginAnswers(u) ==
    /\ login[u] = "comparing"
    /\ \E answer \in {"none", "token"} : login' = [login EXCEPT ![u] = answer]
    /\ UNCHANGED <<listenerVars, account, socket, req, note, handling, changes, reactivated,
                   missed, untold>>

-----------------------------------------------------------------------------
(* EventsGateway *)

\* handleConnection, and a join of one's own room: the token is verified, the
\* account is not looked at.
HandleConnection(s, u) ==
    /\ ~stopped
    /\ socket[s] = NULL
    /\ login[u] = "token"
    /\ socket' = [socket EXCEPT ![s] = [user |-> u, open |-> TRUE, told |-> FALSE,
                                        old |-> account[u] # "active"]]
    /\ UNCHANGED <<listenerVars, account, login, req, note, handling, changes, reactivated,
                   missed, untold>>

\* handleDisconnect: the user leaves, or the gateway has closed his socket.
HandleDisconnect(s) ==
    /\ socket[s] # NULL
    /\ socket' = [socket EXCEPT ![s] = NULL]
    /\ UNCHANGED <<listenerVars, account, login, req, note, handling, changes, reactivated,
                   missed, untold>>

EmitForceLogout(u) ==
    socket' = [s \in Sockets |-> IF s \in Room(u) THEN [socket[s] EXCEPT !.told = TRUE] ELSE socket[s]]

\* force.logout, then disconnectSockets(true).
CloseRoom(u) ==
    socket' = [s \in Sockets |->
        IF s \in Room(u) THEN [socket[s] EXCEPT !.told = TRUE, !.open = FALSE] ELSE socket[s]]

-----------------------------------------------------------------------------
(* Changes of users, and the trigger *)

\* MUTANT of Announces: the trigger is AFTER INSERT OR DELETE.
AnnouncesDeleted(state) == state = "deleted"

\* MUTANT of Announces: the payload has no is_active.
AnnouncesNothing(state) == NULL

\* op = 'DELETE' or is_active = false, as handlePayload reads the payload.
Announces(state) == state # "active"

\* notify_user_changed: at commit, to every client that listens then.
Notify(u, state) ==
    /\ changes' = changes + 1
    /\ note' = note \cup {[id |-> changes', conn |-> c, user |-> u, logout |-> Announces(state)]
                             : c \in Listening}
    /\ missed' = IF state = "active" THEN missed \ {u}
                 ELSE IF Listening = {} THEN missed \cup {u} ELSE missed

\* The row of u is updated; sockets that stay open are not old any more when
\* the account is activated.
Update(u, state) ==
    /\ changes < MaxChanges
    /\ account[u] # "deleted"
    /\ account' = [account EXCEPT ![u] = state]
    /\ Notify(u, state)
    /\ reactivated' = IF account[u] # "active" /\ state = "active"
                      THEN reactivated \cup {u} ELSE reactivated

SocketsOnUpdate(u, state) ==
    socket' = [s \in Sockets |->
        IF socket[s] # NULL /\ socket[s].user = u /\ state = "active"
        THEN [socket[s] EXCEPT !.old = FALSE, !.told = FALSE] ELSE socket[s]]

\* setActive(adminId, userId, isActive), its save: an UPDATE when is_active differs.
SetActiveSaves(q, u, active) ==
    LET state == IF active THEN "active" ELSE "inactive"
    IN /\ ~stopped
       /\ req[q].pc = "idle"
       /\ account[u] \notin {state, "deleted"}
       /\ Update(u, state)
       /\ SocketsOnUpdate(u, state)
       /\ untold' = untold \ {u}
       /\ req' = [req EXCEPT ![q] = [pc |-> "saved", user |-> u, active |-> active]]
       /\ UNCHANGED <<listenerVars, login, handling>>

\* MUTANT of SetActiveReturns: the user is told when he is activated.
SetActiveReturnsSwapped(q) ==
    /\ req[q].pc = "saved"
    /\ IF req[q].active THEN EmitForceLogout(req[q].user) ELSE UNCHANGED socket
    /\ req' = [req EXCEPT ![q] = Idle]
    /\ UNCHANGED <<listenerVars, account, login, note, handling, changes, reactivated, missed, untold>>

\* delByPrefix, emitForceLogout.
SetActiveReturns(q) ==
    /\ req[q].pc = "saved"
    /\ IF req[q].active THEN UNCHANGED socket ELSE EmitForceLogout(req[q].user)
    /\ req' = [req EXCEPT ![q] = Idle]
    /\ UNCHANGED <<listenerVars, account, login, note, handling, changes, reactivated, missed, untold>>

\* delByPrefix throws: 500, the row stays saved and nobody is told.
SetActiveFails(q) ==
    /\ req[q].pc = "saved"
    /\ Fault
    /\ untold' = IF req[q].active THEN untold ELSE untold \cup {req[q].user}
    /\ req' = [req EXCEPT ![q] = Idle]
    /\ UNCHANGED <<conn, client, timer, stopped, tangled, account, login, socket, note, handling,
                   changes, reactivated, missed>>

\* Any other change: a score, a name, a password (the state stays), or an
\* operator's SQL, which may also deactivate or delete.
OtherUpdate(u, state) ==
    /\ state \in {account[u], "inactive", "deleted"}
    /\ Update(u, state)
    /\ SocketsOnUpdate(u, account[u])
    /\ untold' = IF account[u] = "active" /\ state # "active" THEN untold \cup {u} ELSE untold
    /\ UNCHANGED <<listenerVars, login, req, handling>>

-----------------------------------------------------------------------------
(* The listener acts *)

\* The notification event starts a handlePayload; earlier ones may still wait.
Receive(n) ==
    /\ n \in note
    /\ note' = note \ {n}
    /\ handling' = handling \cup {n}
    /\ UNCHANGED <<listenerVars, account, login, socket, req, changes, reactivated, missed, untold>>

\* MUTANT of HandlePayload: every change throws the user out.
HandlePayloadAlways(n) ==
    /\ n \in handling
    /\ CloseRoom(n.user)
    /\ handling' = handling \ {n}
    /\ UNCHANGED <<listenerVars, account, login, req, note, changes, reactivated, missed, untold>>

HandlePayload(n) ==
    /\ n \in handling
    /\ IF n.logout THEN CloseRoom(n.user) ELSE UNCHANGED socket
    /\ handling' = handling \ {n}
    /\ UNCHANGED <<listenerVars, account, login, req, note, changes, reactivated, missed, untold>>

Misses(notes) == missed' = missed \cup {n.user : n \in {o \in notes : o.logout}}

\* delByPrefix throws: the error is logged.
HandlePayloadFails(n) ==
    /\ n \in handling
    /\ Fault
    /\ handling' = handling \ {n}
    /\ Misses({n})
    /\ UNCHANGED <<conn, client, timer, stopped, tangled, account, login, socket, req, note,
                   changes, reactivated, untold>>

\* What was on its way to a client that does not listen any more is lost.
LoseNotes ==
    LET lost == {n \in note : conn'[n.conn] # "up"}
    IN /\ note' = note \ lost
       /\ Misses(lost)

ListenerStep ==
    /\ \/ \E c \in Clients :
             ListenResolves(c) \/ ConnectFails(c) \/ ErrorEvent(c) \/ EndEvent(c)
       \/ TimerFires
    /\ LoseNotes
    /\ UNCHANGED <<account, login, socket, req, handling, changes, reactivated, untold>>

NoLogin == [u \in Users |-> IF login[u] = "comparing" THEN "none" ELSE login[u]]

\* app.close(): the servers close their sockets; what the handlers still do
\* reaches nobody.
Close ==
    /\ Destroy
    /\ LoseNotes
    /\ socket' = [s \in Sockets |-> NULL]
    /\ req' = [q \in Requests |-> Idle]
    /\ handling' = {}
    /\ login' = NoLogin
    /\ UNCHANGED <<account, changes, reactivated, untold>>

\* The process dies and is started again: its sockets, its requests and its
\* connections are gone, tokens and rows are not.
Crash ==
    /\ ~stopped
    /\ Fault
    /\ conn' = FirstConnection
    /\ client' = NULL
    /\ timer' = FALSE
    /\ tangled' = FALSE
    /\ socket' = [s \in Sockets |-> NULL]
    /\ req' = [q \in Requests |-> Idle]
    /\ note' = {}
    /\ handling' = {}
    /\ login' = NoLogin
    /\ UNCHANGED <<stopped, account, changes, reactivated, missed, untold>>

-----------------------------------------------------------------------------
Init ==
    /\ ListenerInit
    /\ account \in [Users -> {"active", "inactive"}]
    /\ login = [u \in Users |-> "none"]
    /\ socket = [s \in Sockets |-> NULL]
    /\ req = [q \in Requests |-> Idle]
    /\ note = {}
    /\ handling = {}
    /\ changes = 0
    /\ reactivated = {}
    /\ missed = {}
    /\ untold = {}

Next ==
    \/ \E u \in Users : LoginFind(u) \/ LoginAnswers(u)
    \/ \E s \in Sockets : HandleDisconnect(s) \/ \E u \in Users : HandleConnection(s, u)
    \/ \E q \in Requests :
          \/ \E u \in Users, active \in BOOLEAN : SetActiveSaves(q, u, active)
          \/ SetActiveReturns(q) \/ SetActiveFails(q)
    \/ \E u \in Users, state \in {"active", "inactive", "deleted"} : OtherUpdate(u, state)
    \/ \E n \in note : Receive(n)
    \/ \E n \in handling : HandlePayload(n) \/ HandlePayloadFails(n)
    \/ ListenerStep
    \/ Close
    \/ Crash

Fairness ==
    /\ \A c \in Clients :
           WF_vars((ListenResolves(c) \/ EndEvent(c)) /\ LoseNotes
                   /\ UNCHANGED <<account, login, socket, req, handling, changes, reactivated, untold>>)
    /\ WF_vars(TimerFires /\ LoseNotes
               /\ UNCHANGED <<account, login, socket, req, handling, changes, reactivated, untold>>)

Spec == Init /\ [][Next]_vars /\ Fairness

-----------------------------------------------------------------------------
TypeOK ==
    /\ ListenerTypeOK
    /\ account \in [Users -> {"active", "inactive", "deleted"}]
    /\ login \in [Users -> {"none", "comparing", "token"}]
    /\ socket \in [Sockets -> SocketRow \cup {NULL}]
    /\ req \in [Requests -> [pc : {"saved"}, user : Users, active : BOOLEAN] \cup {Idle}]
    /\ note \subseteq Note
    /\ handling \subseteq Note
    /\ changes \in 0..MaxChanges
    /\ reactivated \subseteq Users
    /\ missed \subseteq Users
    /\ untold \subseteq Users

Current(s) == socket[s] # NULL /\ socket[s].open /\ ~socket[s].old

\* When the listener has dealt with everything it was sent, a user whose account
\* is not active any more has no socket left from before: all were closed, unless
\* the listener was not there to hear of it, or Redis kept it from acting.
DeactivatedAreCut ==
    \A s \in Sockets : Current(s) =>
        \/ account[socket[s].user] = "active"
        \/ socket[s].user \in missed
        \/ \E n \in note \cup handling : n.logout /\ n.user = socket[s].user

\* "Al desactivar una cuenta se cierra su sesion activa via WebSocket"
\* (src/README.md): setActive's own force.logout reaches the sockets the
\* listener missed, unless Redis kept it from that, too, or it was not setActive.
DeactivatedAreTold ==
    \A s \in Sockets : Current(s) /\ ~socket[s].told =>
        \/ account[socket[s].user] = "active"
        \/ socket[s].user \in missed /\ socket[s].user \in untold
        \/ \E q \in Requests : req[q].pc = "saved" /\ req[q].user = socket[s].user
        \/ \E n \in note \cup handling : n.logout /\ n.user = socket[s].user

\* Nobody is thrown out but users who are not active, or were not at some time:
\* no score, name or password that changes closes a socket.
KicksAreJust ==
    \A s \in Sockets : socket[s] # NULL /\ ~socket[s].open =>
        account[socket[s].user] # "active" \/ socket[s].user \in reactivated
=============================================================================
