--------------------------- MODULE SessionProofs ---------------------------
(***************************************************************************)
(* The listener and the sessions, for any number of clients, users,        *)
(* sockets, requests, failures and restarts.  ListenerInv is inductive     *)
(* with the types of the listener's variables: OneListener and             *)
(* DestroyedIsQuiet follow from it.  Then every open socket and every      *)
(* notification has its reason: who is deactivated is cut off or told.     *)
(***************************************************************************)
EXTENDS Sessions, FiniteSetTheorems, TLAPS

-----------------------------------------------------------------------------
(* The inductive invariant: while nothing is tangled the module does one of  *)
(* three things, and this.client is the client that listens.                *)

Active == {"connecting", "up", "ending"}

ListenerInv ==
    ~tangled =>
        /\ \A c, d \in Clients : conn[c] \in Active /\ conn[d] \in Active => c = d
        /\ \A c \in Clients : conn[c] \in Active =>
              /\ conn[c] # "ending" => ~stopped
              /\ ~timer
        /\ client # NULL => conn[client] = "up"
        /\ \A c \in Clients : conn[c] = "up" => client = c
        /\ stopped => ~timer

\* Once the module is destroyed nothing reconnects: no client is connecting or
\* listening, unless one was being connected or a late end had dropped one.
DestroyedIsQuiet ==
    stopped /\ ~tangled => ~timer /\ Pending = {} /\ Listening = {}

Safe == ListenerTypeOK /\ ListenerInv

LEMMA FirstClient == (CHOOSE c \in Clients : TRUE) \in Clients
  BY ListenerAssumption

LEMMA FreshIsSafe ==
    ASSUME conn' = FirstConnection, client' = NULL, timer' = FALSE, stopped' = FALSE,
           tangled' \in BOOLEAN, faults' \in 0..MaxFaults
    PROVE  Safe'
  BY FirstClient, ListenerAssumption
  DEF FirstConnection, Safe, ListenerTypeOK, ListenerInv, Active, ConnState

LEMMA FaultCounts ==
    ASSUME faults \in 0..MaxFaults, Fault
    PROVE  faults' \in 0..MaxFaults
  BY ListenerAssumption DEF Fault

\* What keeps every variable of the listener but the count of failures.
LEMMA UntouchedIsSafe ==
    ASSUME Safe, UNCHANGED <<conn, client, timer, stopped, tangled>>, faults' \in 0..MaxFaults
    PROVE  Safe'
  BY DEF Safe, ListenerTypeOK, ListenerInv

LEMMA ResolvesSafely ==
    ASSUME Safe, NEW c \in Clients, ListenResolves(c)
    PROVE  Safe'
  BY ListenerAssumption DEF Safe, ListenerTypeOK, ListenerInv, Active, ConnState, ListenResolves

LEMMA ConnectFailsSafely ==
    ASSUME Safe, NEW c \in Clients, ConnectFails(c)
    PROVE  Safe'
  BY ListenerAssumption, FaultCounts
  DEF Safe, ListenerTypeOK, ListenerInv, Active, ConnState, ConnectFails, Pending

LEMMA ErrorSafely ==
    ASSUME Safe, NEW c \in Clients, ErrorEvent(c)
    PROVE  Safe'
<1>1. ListenerTypeOK'
  BY ListenerAssumption, FaultCounts
  DEF Safe, ListenerTypeOK, ConnState, ErrorEvent, ScheduleReconnect
<1>2. ASSUME ~tangled PROVE ListenerInv'
  <2>1. ~stopped /\ ~timer
    BY <1>2 DEF Safe, ListenerInv, Active, ErrorEvent
  <2>2. client' = NULL /\ timer' = TRUE /\ ~stopped'
    BY <2>1 DEF ErrorEvent, ScheduleReconnect, Safe, ListenerTypeOK
  <2>3. \A d \in Clients : conn'[d] \notin Active
    BY <1>2 DEF Safe, ListenerTypeOK, ListenerInv, Active, ConnState, ErrorEvent
  <2> QED BY <2>2, <2>3 DEF ListenerInv, Active
<1> QED BY <1>1, <1>2 DEF Safe, ListenerInv, ErrorEvent

LEMMA EndSafely ==
    ASSUME Safe, NEW c \in Clients, EndEvent(c)
    PROVE  Safe'
<1>1. ListenerTypeOK'
  BY ListenerAssumption
  DEF Safe, ListenerTypeOK, ConnState, EndEvent, ScheduleReconnect
<1>2. ASSUME ~tangled' PROVE ListenerInv'
  <2>1. ~tangled
    BY <1>2 DEF EndEvent, Safe, ListenerTypeOK
  <2>2. CASE conn[c] = "failing"
    <3>1. UNCHANGED <<client, timer, stopped>>
      BY <1>2, <2>1, <2>2 DEF EndEvent, ScheduleReconnect, Safe, ListenerTypeOK
    <3> QED
      BY <2>1, <2>2, <3>1
      DEF Safe, ListenerTypeOK, ListenerInv, Active, ConnState, EndEvent
  <2>3. CASE conn[c] = "ending"
    <3>1. ~timer /\ client = NULL
      BY <2>1, <2>3 DEF Safe, ListenerTypeOK, ListenerInv, Active
    <3>2. client' = NULL /\ stopped' = stopped /\ (stopped' => ~timer')
      BY <3>1 DEF EndEvent, ScheduleReconnect
    <3>3. \A d \in Clients : conn'[d] \notin Active
      BY <2>1, <2>3 DEF Safe, ListenerTypeOK, ListenerInv, Active, ConnState, EndEvent
    <3> QED BY <3>2, <3>3 DEF ListenerInv, Active
  <2> QED BY <2>2, <2>3 DEF EndEvent
<1> QED BY <1>1, <1>2 DEF Safe, ListenerInv

LEMMA TimerSafely ==
    ASSUME Safe, TimerFires
    PROVE  Safe'
<1>1. PICK c \in Clients : conn' = [conn EXCEPT ![c] = "connecting"]
  BY DEF TimerFires, Connect, Unused
<1>2. ListenerTypeOK'
  BY <1>1 DEF Safe, ListenerTypeOK, ConnState, TimerFires
<1>3. ASSUME ~tangled PROVE ListenerInv'
  <2>1. ~stopped /\ \A d \in Clients : conn[d] \notin Active
    BY <1>3 DEF Safe, ListenerInv, TimerFires
  <2>2. client = NULL
    BY <1>3, <2>1 DEF Safe, ListenerTypeOK, ListenerInv, Active
  <2> QED
    BY <1>1, <2>1, <2>2 DEF Safe, ListenerTypeOK, ListenerInv, Active, TimerFires
<1> QED BY <1>2, <1>3 DEF Safe, ListenerInv, TimerFires

LEMMA DestroySafely ==
    ASSUME Safe, Destroy
    PROVE  Safe'
<1>1. ListenerTypeOK'
  BY ListenerAssumption DEF Safe, ListenerTypeOK, ConnState, Destroy
<1>2. ASSUME ~tangled' PROVE ListenerInv'
  <2>1. ~tangled /\ Pending = {}
    BY <1>2 DEF Destroy, Safe, ListenerTypeOK
  <2>2. \A d \in Clients : conn'[d] \in Active => conn[d] \in Active /\ conn'[d] = "ending"
    <3>1. CASE client = NULL
      BY <2>1, <3>1, ListenerAssumption
      DEF Destroy, Pending, Safe, ListenerTypeOK, ListenerInv, Active, ConnState
    <3>2. CASE client # NULL
      <4>1. client \in Clients /\ conn[client] = "up"
        BY <2>1, <3>2 DEF Safe, ListenerTypeOK, ListenerInv
      <4>2. conn' = [conn EXCEPT ![client] = "ending"]
        BY <3>2, <4>1 DEF Destroy
      <4> QED
        BY <2>1, <4>1, <4>2 DEF Safe, ListenerTypeOK, ListenerInv, Active
    <3> QED BY <3>1, <3>2
  <2> QED
    BY <2>1, <2>2 DEF Safe, ListenerInv, Active, Destroy
<1> QED BY <1>1, <1>2 DEF Safe, ListenerInv

\* Every step of the listener, of the requests and of the operators is safe.
LEMMA StepIsSafe ==
    ASSUME Safe, [Next]_vars
    PROVE  Safe'
<1> USE DEF listenerVars
<1>0. faults \in 0..MaxFaults
  BY DEF Safe, ListenerTypeOK
<1>1. ASSUME UNCHANGED listenerVars PROVE Safe'
  BY <1>0, <1>1, UntouchedIsSafe
<1>2. CASE ListenerStep
  BY <1>2, ResolvesSafely, ConnectFailsSafely, ErrorSafely, EndSafely, TimerSafely
  DEF ListenerStep
<1>3. CASE Close
  BY <1>3, DestroySafely DEF Close
<1>4. CASE Crash
  <2>1. stopped' = FALSE /\ tangled' \in BOOLEAN
    BY <1>4 DEF Crash, Safe, ListenerTypeOK
  <2> QED BY <1>0, <1>4, <2>1, FaultCounts, FreshIsSafe DEF Crash
<1>5. ASSUME NEW q \in Requests, SetActiveFails(q) PROVE Safe'
  BY <1>0, <1>5, FaultCounts, UntouchedIsSafe DEF SetActiveFails
<1>6. ASSUME NEW n \in handling, HandlePayloadFails(n) PROVE Safe'
  BY <1>0, <1>6, FaultCounts, UntouchedIsSafe DEF HandlePayloadFails
<1>7. CASE UNCHANGED vars
  BY <1>1, <1>7 DEF vars
<1>8. ASSUME NEW u \in Users, LoginFind(u) \/ LoginAnswers(u) PROVE Safe'
  BY <1>1, <1>8 DEF LoginFind, LoginAnswers
<1>9. ASSUME NEW s \in Sockets, HandleDisconnect(s) \/ \E u \in Users : HandleConnection(s, u)
      PROVE  Safe'
  BY <1>1, <1>9 DEF HandleDisconnect, HandleConnection
<1>10. ASSUME NEW q \in Requests,
              \/ \E u \in Users, active \in BOOLEAN : SetActiveSaves(q, u, active)
              \/ SetActiveReturns(q)
       PROVE  Safe'
  BY <1>1, <1>10 DEF SetActiveSaves, SetActiveReturns
<1>11. ASSUME NEW u \in Users, NEW state \in {"active", "inactive", "deleted"},
              OtherUpdate(u, state)
       PROVE  Safe'
  BY <1>1, <1>11 DEF OtherUpdate
<1>12. ASSUME NEW n, Receive(n) \/ HandlePayload(n) PROVE Safe'
  BY <1>1, <1>12 DEF Receive, HandlePayload
<1> QED
  BY <1>2, <1>3, <1>4, <1>5, <1>6, <1>7, <1>8, <1>9, <1>10, <1>11, <1>12 DEF Next

LEMMA AlwaysSafe == Spec => []Safe
<1>1. Init => Safe
  <2> SUFFICES ASSUME ListenerInit PROVE Safe
    BY DEF Init
  <2>1. PICK c \in Clients : conn = [d \in Clients |-> IF d = c THEN "connecting" ELSE "none"]
    BY FirstClient DEF ListenerInit, FirstConnection
  <2>2. ListenerTypeOK
    <3>1. conn \in [Clients -> ConnState]
      BY <2>1 DEF ConnState
    <3>2. faults \in 0..MaxFaults
      BY ListenerAssumption DEF ListenerInit
    <3> QED BY <3>1, <3>2 DEF ListenerInit, ListenerTypeOK
  <2>3. ListenerInv
    BY <2>1 DEF ListenerInit, ListenerInv, Active
  <2> QED BY <2>2, <2>3 DEF Safe
<1> QED BY <1>1, StepIsSafe, PTL DEF Spec

\* While nothing is tangled the module does one of three things: it waits for a
\* timer, or connects, or listens, or ends a client, and with one client only.
THEOREM ListenerInductive == Spec => []ListenerInv
<1>1. Safe => ListenerInv
  BY DEF Safe
<1> QED BY <1>1, AlwaysSafe, PTL

\* One client listens at most, and the application knows it, as long as no end event
\* came after the timer of its error had fired, and the module was not destroyed while
\* it connected (scheduleReconnect, onModuleDestroy): those two cases are left out.
THEOREM ListensOnce == Spec => []OneListener
<1>1. Safe => OneListener
  BY DEF Safe, ListenerInv, OneListener, Listening
<1> QED BY <1>1, AlwaysSafe, PTL

\* The connections in use, and the one the timer will make: each but the first took the
\* place of one that had failed, though the failed one may end much later.
Used == {c \in Clients : conn[c] # "none"}

Scheduled == IF timer THEN 1 ELSE 0

FewInUse == Cardinality(Used) + Scheduled <= 1 + faults

LEMMA UsedIsFinite ==
    /\ IsFiniteSet(Used) /\ Cardinality(Used) \in Nat
    /\ IsFiniteSet(Used') /\ Cardinality(Used') \in Nat
<1>1. Used \subseteq Clients /\ Used' \subseteq Clients
  BY DEF Used
<1> QED BY <1>1, ListenerAssumption, FS_Subset, FS_CardinalityType

LEMMA UsedTypes ==
    ASSUME Safe
    PROVE  conn \in [Clients -> ConnState] /\ timer \in BOOLEAN /\ faults \in Nat
  BY DEF Safe, ListenerTypeOK

\* A client changes, and is in use before and after: only the timer and the failures count.
LEMMA SameInUse ==
    ASSUME Safe, FewInUse, NEW c \in Clients, NEW to, conn' = [conn EXCEPT ![c] = to],
           conn[c] # "none", to # "none", timer' \in BOOLEAN, faults' \in Nat,
           \/ timer' = timer /\ faults' >= faults
           \/ faults' = faults + 1
           \/ ~timer' /\ faults' = faults
    PROVE  FewInUse'
<1>1. Used' = Used
  BY UsedTypes DEF Used
<1> QED BY <1>1, UsedTypes, UsedIsFinite DEF FewInUse, Scheduled

LEMMA EndsInUse ==
    ASSUME Safe, FewInUse, NEW c \in Clients, EndEvent(c)
    PROVE  FewInUse'
<1>1. conn[c] # "none" /\ conn' = [conn EXCEPT ![c] = "none"] /\ faults' = faults
  BY DEF EndEvent
<1>2. Used' = Used \ {c} /\ c \in Used
  BY <1>1, UsedTypes DEF Used
<1>3. Cardinality(Used') = Cardinality(Used) - 1
  BY <1>2, UsedIsFinite, FS_RemoveElement
<1>4. timer' \in BOOLEAN
  BY UsedTypes DEF EndEvent, ScheduleReconnect
<1> QED BY <1>1, <1>3, <1>4, UsedTypes, UsedIsFinite DEF FewInUse, Scheduled

LEMMA FiresInUse ==
    ASSUME Safe, FewInUse, TimerFires
    PROVE  FewInUse'
<1>1. PICK c \in Clients : conn' = [conn EXCEPT ![c] = "connecting"] /\ conn[c] = "none"
  BY DEF TimerFires, Connect, Unused
<1>2. Used' = Used \cup {c} /\ c \notin Used
  BY <1>1, UsedTypes DEF Used
<1>3. Cardinality(Used') = Cardinality(Used) + 1
  BY <1>2, UsedIsFinite, FS_AddElement
<1>4. timer = TRUE /\ timer' = FALSE /\ faults' = faults
  BY UsedTypes DEF TimerFires
<1> QED BY <1>3, <1>4, UsedTypes, UsedIsFinite DEF FewInUse, Scheduled

LEMMA DestroyedInUse ==
    ASSUME Safe, FewInUse, Destroy
    PROVE  FewInUse'
<1>1. timer' = FALSE /\ faults' = faults
  BY DEF Destroy
<1>2. Used' = Used
  <2>1. CASE client = NULL
    BY <2>1 DEF Destroy, Used
  <2>2. CASE client # NULL
    <3>1. client \in Clients
      BY <2>2 DEF Safe, ListenerTypeOK
    <3>2. conn' = [conn EXCEPT ![client] = IF conn[client] = "up" THEN "ending" ELSE conn[client]]
      BY <2>2 DEF Destroy
    <3> QED BY <3>1, <3>2, UsedTypes DEF Used
  <2> QED BY <2>1, <2>2
<1> QED BY <1>1, <1>2, UsedTypes, UsedIsFinite DEF FewInUse, Scheduled

\* onModuleInit: one client connects.
LEMMA FirstInUse ==
    /\ conn = FirstConnection => Used = {CHOOSE d \in Clients : TRUE}
    /\ conn' = FirstConnection => Used' = {CHOOSE d \in Clients : TRUE}
  BY FirstClient DEF FirstConnection, Used

LEMMA AlwaysFewInUse == Spec => []FewInUse
<1>1. Init => FewInUse
  <2> SUFFICES ASSUME ListenerInit PROVE FewInUse
    BY DEF Init
  <2>1. Cardinality(Used) = 1
    BY FirstInUse, FS_Singleton DEF ListenerInit
  <2> QED BY <2>1 DEF FewInUse, Scheduled, ListenerInit
<1>2. ASSUME Safe, FewInUse, [Next]_vars PROVE FewInUse'
  <2>1. ASSUME UNCHANGED <<conn, timer>>, faults' = faults \/ Fault PROVE FewInUse'
    <3>1. Used' = Used /\ Scheduled' = Scheduled /\ (faults' = faults \/ faults' = faults + 1)
      BY <2>1 DEF Used, Scheduled, Fault
    <3> QED BY <1>2, <3>1, UsedTypes, UsedIsFinite DEF FewInUse, Scheduled
  <2>2. ASSUME NEW c \in Clients, ListenResolves(c) \/ ConnectFails(c) PROVE FewInUse'
    <3>1. PICK to \in {"up", "ending"} : conn' = [conn EXCEPT ![c] = to] /\ conn[c] = "connecting"
      BY <2>2 DEF ListenResolves, ConnectFails, Pending
    <3>2. timer' = timer /\ faults' \in Nat /\ faults' >= faults
      BY <1>2, <2>2, UsedTypes DEF ListenResolves, ConnectFails, Fault
    <3>3. timer' \in BOOLEAN /\ conn[c] # "none" /\ to # "none"
      BY <1>2, <3>1, <3>2, UsedTypes
    <3> QED BY <1>2, <3>1, <3>2, <3>3, SameInUse
  <2>3. ASSUME NEW c \in Clients, ErrorEvent(c) PROVE FewInUse'
    <3>1. conn' = [conn EXCEPT ![c] = "failing"] /\ conn[c] # "none" /\ faults' = faults + 1
      BY <2>3 DEF ErrorEvent, Fault
    <3>2. timer' \in BOOLEAN /\ faults' \in Nat
      <4>1. timer' \in BOOLEAN
        BY <1>2, <2>3, UsedTypes DEF ErrorEvent, ScheduleReconnect
      <4>2. faults' \in Nat
        BY <1>2, <3>1, UsedTypes
      <4> QED BY <4>1, <4>2
    <3>3. PICK to : to = "failing"
      OBVIOUS
    <3>4. conn' = [conn EXCEPT ![c] = to] /\ to # "none"
      BY <3>1, <3>3
    <3> HIDE <3>3
    <3> QED BY <1>2, <3>1, <3>2, <3>4, SameInUse
  <2>4. CASE ListenerStep
    BY <1>2, <2>2, <2>3, <2>4, EndsInUse, FiresInUse DEF ListenerStep
  <2>5. CASE Close
    BY <1>2, <2>5, DestroyedInUse DEF Close
  <2>6. CASE Crash
    <3>1. Cardinality(Used') = 1
      BY <2>6, FirstInUse, FS_Singleton DEF Crash
    <3>2. timer' = FALSE /\ faults' = faults + 1
      BY <2>6 DEF Crash, Fault
    <3> QED BY <1>2, <3>1, <3>2, UsedTypes DEF FewInUse, Scheduled
  <2> QED
    BY <1>2, <2>1, <2>4, <2>5, <2>6
    DEF Next, vars, listenerVars, LoginFind, LoginAnswers, HandleDisconnect, HandleConnection, SetActiveSaves,
        SetActiveReturns, SetActiveFails, OtherUpdate, Receive, HandlePayload, HandlePayloadFails
<1> QED BY <1>1, <1>2, AlwaysSafe, PTL DEF Spec

\* Late ends and a shutdown while connecting included, there are never more listening
\* clients than failures so far and the first one.
THEOREM ListenersCostFailures == Spec => []ListenersAreFew
<1>1. ASSUME Safe, FewInUse PROVE ListenersAreFew
  <2>1. Listening \subseteq Used
    BY DEF Listening, Used
  <2>2. Cardinality(Listening) <= Cardinality(Used) /\ Cardinality(Listening) \in Nat
    BY <2>1, UsedIsFinite, FS_Subset, FS_CardinalityType
  <2> QED BY <1>1, <2>2, UsedTypes, UsedIsFinite DEF ListenersAreFew, FewInUse, Scheduled
<1> QED BY <1>1, AlwaysSafe, AlwaysFewInUse, PTL

\* After onModuleDestroy no timer is left, and no client connects or listens, unless one
\* was being connected or a late end had dropped one.
THEOREM QuietWhenDestroyed == Spec => []DestroyedIsQuiet
<1>1. Safe => DestroyedIsQuiet
  BY DEF Safe, ListenerTypeOK, ListenerInv, DestroyedIsQuiet, Pending, Listening, Active
<1> QED BY <1>1, AlwaysSafe, PTL

-----------------------------------------------------------------------------
(* Who is connected: the inductive invariant *)

\* The listener has cut the user off, will, or never heard of his deactivation.
Explained(u) ==
    \/ account[u] = "active"
    \/ u \in missed
    \/ \E n \in note \cup handling : n.logout /\ n.user = u

\* The setActive that deactivated the user tells his sockets yet, or it was not
\* setActive, or Redis failed it.
FollowedUp(u) ==
    \/ account[u] = "active"
    \/ u \in untold
    \/ \E q \in Requests : req[q].pc = "saved" /\ ~req[q].active /\ req[q].user = u

\* There is, or was, a reason to throw the user out.
Leaves(u) == account[u] # "active" \/ u \in reactivated

SocketsInv ==
    \A s \in Sockets : socket[s] # NULL =>
        /\ Current(s) => Explained(socket[s].user)
        /\ Current(s) /\ ~socket[s].told => FollowedUp(socket[s].user)
        /\ ~socket[s].open => Leaves(socket[s].user)

\* A notification that closes sockets has such a reason.
NotesInv == \A n \in note \cup handling : n.logout => Leaves(n.user)

Inv == Safe /\ TypeOK /\ SocketsInv /\ NotesInv

SavedRow == [pc : {"saved"}, user : Users, active : BOOLEAN]

LEMMA InitInv == Init /\ Safe => Inv
  BY SessionsAssumption
  DEF Init, Inv, Safe, TypeOK, SocketsInv, NotesInv, Current

LEMMA Types ==
    ASSUME Inv
    PROVE  /\ account \in [Users -> {"active", "inactive", "deleted"}]
           /\ login \in [Users -> {"none", "comparing", "token"}]
           /\ socket \in [Sockets -> SocketRow \cup {NULL}]
           /\ req \in [Requests -> SavedRow \cup {Idle}]
           /\ note \subseteq Note /\ handling \subseteq Note
           /\ changes \in 0..MaxChanges
           /\ reactivated \subseteq Users /\ missed \subseteq Users /\ untold \subseteq Users
  BY DEF Inv, TypeOK, SavedRow

LEMMA TypesNext ==
    ASSUME Safe',
           account' \in [Users -> {"active", "inactive", "deleted"}],
           login' \in [Users -> {"none", "comparing", "token"}],
           socket' \in [Sockets -> SocketRow \cup {NULL}],
           req' \in [Requests -> SavedRow \cup {Idle}],
           note' \subseteq Note, handling' \subseteq Note, changes' \in 0..MaxChanges,
           reactivated' \subseteq Users, missed' \subseteq Users, untold' \subseteq Users
    PROVE  TypeOK'
  BY DEF TypeOK, Safe, SavedRow

\* An open socket stays as it was, is opened, or its user is active again.
LEMMA SocketsStand ==
    ASSUME Inv, socket' \in [Sockets -> SocketRow \cup {NULL}],
           \A u \in Users : /\ Explained(u) => Explained(u)'
                            /\ FollowedUp(u) => FollowedUp(u)'
                            /\ Leaves(u) => Leaves(u)',
           \A s \in Sockets : socket'[s] # NULL =>
               \/ /\ socket[s] # NULL
                  /\ socket'[s].user = socket[s].user /\ socket'[s].open = socket[s].open
                  /\ \/ socket'[s].old = socket[s].old /\ socket'[s].told = socket[s].told
                     \/ "active" \in {account[socket[s].user], account'[socket[s].user]}
               \/ /\ socket'[s].open
                  /\ socket'[s].old \/ account'[socket'[s].user] = "active"
    PROVE  SocketsInv'
<1> SUFFICES ASSUME NEW s \in Sockets, socket'[s] # NULL
             PROVE  /\ Current(s)' => Explained(socket[s].user)'
                    /\ Current(s)' /\ ~socket'[s].told => FollowedUp(socket[s].user)'
                    /\ ~socket'[s].open => Leaves(socket[s].user)'
  BY DEF SocketsInv
<1>1. PICK u : u = socket'[s].user
  OBVIOUS
<1>2. u \in Users
  BY <1>1 DEF SocketRow
<1>3. account'[u] = "active" => Explained(u)' /\ FollowedUp(u)'
  BY DEF Explained, FollowedUp
<1>6. account[u] = "active" => Explained(u)' /\ FollowedUp(u)'
  BY <1>2 DEF Explained, FollowedUp
<1>4. CASE /\ socket[s] # NULL
           /\ socket'[s].user = socket[s].user /\ socket'[s].open = socket[s].open
           /\ \/ socket'[s].old = socket[s].old /\ socket'[s].told = socket[s].told
              \/ "active" \in {account[socket[s].user], account'[socket[s].user]}
  <2>1. /\ Current(s) => Explained(u)
        /\ Current(s) /\ ~socket[s].told => FollowedUp(u)
        /\ ~socket[s].open => Leaves(u)
    BY <1>1, <1>4 DEF Inv, SocketsInv
  <2>2. /\ Current(s)' => Explained(u)'
        /\ Current(s)' /\ ~socket'[s].told => FollowedUp(u)'
        /\ ~socket'[s].open => Leaves(u)'
    BY <1>1, <1>2, <1>3, <1>4, <1>6, <2>1 DEF Current
  <2> QED BY <1>1, <2>2 DEF Explained, FollowedUp, Leaves
<1>5. CASE /\ socket'[s].open
           /\ socket'[s].old \/ account'[socket'[s].user] = "active"
  BY <1>1, <1>3, <1>5 DEF Current, Explained, FollowedUp
<1> QED BY <1>4, <1>5

\* The sockets are not touched.
LEMMA SocketsRest ==
    ASSUME Inv, UNCHANGED socket,
           \A u \in Users : /\ Explained(u) => Explained(u)'
                            /\ FollowedUp(u) => FollowedUp(u)'
                            /\ Leaves(u) => Leaves(u)'
    PROVE  SocketsInv'
  BY SocketsStand, Types

\* No socket is left.
LEMMA NoSockets ==
    ASSUME socket' = [s \in Sockets |-> NULL]
    PROVE  SocketsInv' /\ socket' \in [Sockets -> SocketRow \cup {NULL}]
  BY DEF SocketsInv

-----------------------------------------------------------------------------
(* One step of each kind *)

\* Nothing is changed that a reason to throw anybody out rests on.
ReasonsStand == UNCHANGED <<account, req, note, handling, reactivated, missed, untold>>

LEMMA ReasonsStay ==
    ASSUME ReasonsStand, NEW u
    PROVE  /\ Explained(u) => Explained(u)'
           /\ FollowedUp(u) => FollowedUp(u)'
           /\ Leaves(u) => Leaves(u)'
           /\ NotesInv => NotesInv'
  BY DEF ReasonsStand, Explained, FollowedUp, Leaves, NotesInv

LEMMA LoginStep ==
    ASSUME Inv, Safe', NEW u \in Users, LoginFind(u) \/ LoginAnswers(u)
    PROVE  Inv'
<1>1. /\ login' \in [Users -> {"none", "comparing", "token"}]
      /\ ReasonsStand /\ UNCHANGED <<socket, changes>>
  BY Types DEF LoginFind, LoginAnswers, ReasonsStand
<1>2. TypeOK'
  BY <1>1, Types, TypesNext DEF ReasonsStand
<1>3. SocketsInv' /\ NotesInv'
  BY <1>1, ReasonsStay, SocketsRest DEF Inv
<1> QED BY <1>2, <1>3 DEF Inv

LEMMA SocketStep ==
    ASSUME Inv, Safe', NEW s \in Sockets,
           HandleDisconnect(s) \/ \E u \in Users : HandleConnection(s, u)
    PROVE  Inv'
<1>1. ReasonsStand /\ UNCHANGED <<login, changes>>
  BY DEF HandleDisconnect, HandleConnection, ReasonsStand
<1>2. PICK new : /\ socket' = [socket EXCEPT ![s] = new]
                 /\ \/ new = NULL
                    \/ \E u \in Users : new = [user |-> u, open |-> TRUE, told |-> FALSE,
                                               old |-> account[u] # "active"]
  BY DEF HandleDisconnect, HandleConnection
<1>3. \/ new = NULL
      \/ new \in SocketRow /\ new.open /\ (new.old \/ account[new.user] = "active")
  <2>1. ASSUME NEW u \in Users, new = [user |-> u, open |-> TRUE, told |-> FALSE,
                                        old |-> account[u] # "active"]
        PROVE  new \in SocketRow /\ new.open /\ (new.old \/ account[new.user] = "active")
    <3>1. PICK b \in BOOLEAN : b = (account[u] # "active")
      OBVIOUS
    <3>2. new = [user |-> u, open |-> TRUE, told |-> FALSE, old |-> b]
      BY <2>1, <3>1
    <3> QED BY <3>1, <3>2 DEF SocketRow
  <2> QED BY <1>2, <2>1
<1>4. /\ socket' \in [Sockets -> SocketRow \cup {NULL}]
      /\ socket'[s] = new /\ \A r \in Sockets : r # s => socket'[r] = socket[r]
  BY <1>2, <1>3, Types
<1>5. TypeOK'
  BY <1>1, <1>4, Types, TypesNext DEF ReasonsStand
<1>6. account' = account
  BY <1>1 DEF ReasonsStand
<1>7. SocketsInv' /\ NotesInv'
  BY <1>1, <1>3, <1>4, <1>6, ReasonsStay, SocketsStand DEF Inv
<1> QED BY <1>5, <1>7 DEF Inv

\* A change of the row of u to a state: the notification that it sends explains it,
\* or nobody heard of it.
LEMMA UpdateReasons ==
    ASSUME Inv, NEW u \in Users, NEW state \in {"active", "inactive", "deleted"}, Update(u, state),
           handling' = handling
    PROVE  /\ account' \in [Users -> {"active", "inactive", "deleted"}]
           /\ account'[u] = state /\ \A v \in Users : v # u => account'[v] = account[v]
           /\ note' \subseteq Note /\ changes' \in 0..MaxChanges
           /\ missed' \subseteq Users /\ reactivated' \subseteq Users
           /\ \A v \in Users : /\ Explained(v) => Explained(v)'
                               /\ Leaves(v) => Leaves(v)'
           /\ NotesInv'
<1>1. /\ account' = [account EXCEPT ![u] = state]
      /\ changes < MaxChanges /\ changes' = changes + 1
      /\ missed' = IF state = "active" THEN missed \ {u}
                   ELSE IF Listening = {} THEN missed \cup {u} ELSE missed
      /\ reactivated' = IF account[u] # "active" /\ state = "active"
                        THEN reactivated \cup {u} ELSE reactivated
  BY DEF Update, Notify
<1>2. PICK id \in 1..MaxChanges : id = changes'
  BY <1>1, Types, SessionsAssumption
<1>3. note' = note \cup {[id |-> id, conn |-> c, user |-> u, logout |-> Announces(state)] : c \in Listening}
  BY <1>2 DEF Update, Notify
<1>4. ASSUME NEW c \in Listening, NEW n,
             n = [id |-> id, conn |-> c, user |-> u, logout |-> Announces(state)]
      PROVE  n \in Note /\ n.user = u /\ n.logout = (state # "active")
  <2>1. PICK b \in BOOLEAN : b = (state # "active")
    OBVIOUS
  <2>2. n = [id |-> id, conn |-> c, user |-> u, logout |-> b]
    BY <1>4, <2>1 DEF Announces
  <2> QED BY <2>1, <2>2 DEF Note, Listening
<1>5. \A n \in note' : \/ n \in note
                       \/ n \in Note /\ n.user = u /\ n.logout = (state # "active")
  BY <1>3, <1>4
<1>6. /\ note \subseteq note'
      /\ Listening # {} => \E n \in note' : n.user = u /\ n.logout = (state # "active")
  BY <1>3, <1>4
<1>7. /\ account' \in [Users -> {"active", "inactive", "deleted"}]
      /\ account'[u] = state /\ \A v \in Users : v # u => account'[v] = account[v]
  BY <1>1, Types
<1>8. note' \subseteq Note /\ changes' \in 0..MaxChanges /\ missed' \subseteq Users /\ reactivated' \subseteq Users
  BY <1>1, <1>5, Types, SessionsAssumption
<1>9. ASSUME NEW v \in Users, Explained(v) PROVE Explained(v)'
  <2>1. CASE v # u
    BY <1>1, <1>6, <1>7, <1>9, <2>1 DEF Explained
  <2>2. CASE v = u /\ state = "active"
    BY <1>7, <2>2 DEF Explained
  <2>3. CASE v = u /\ state # "active"
    BY <1>1, <1>6, <2>3 DEF Explained
  <2> QED BY <2>1, <2>2, <2>3
<1>10. ASSUME NEW v \in Users, Leaves(v) PROVE Leaves(v)'
  BY <1>1, <1>7, <1>10 DEF Leaves
<1>11. NotesInv'
  <2> SUFFICES ASSUME NEW n \in note' \cup handling, n.logout PROVE Leaves(n.user)'
    BY DEF NotesInv
  <2>1. CASE n \in note \cup handling
    <3>1. Leaves(n.user) /\ n.user \in Users
      BY <2>1, Types DEF Inv, NotesInv, Note
    <3> QED BY <1>10, <3>1 DEF Leaves
  <2>2. CASE n \in note' /\ n.user = u /\ n.logout = (state # "active")
    BY <1>7, <2>2 DEF Leaves
  <2> QED BY <1>5, <2>1, <2>2
<1> QED BY <1>7, <1>8, <1>9, <1>10, <1>11

\* What a change of his row does to the sockets of the user.
LEMMA UpdatedSockets ==
    ASSUME Inv, NEW u \in Users, NEW state, SocketsOnUpdate(u, state)
    PROVE  /\ socket' \in [Sockets -> SocketRow \cup {NULL}]
           /\ \A s \in Sockets : socket'[s] # NULL =>
                 /\ socket[s] # NULL
                 /\ socket'[s].user = socket[s].user /\ socket'[s].open = socket[s].open
                 /\ \/ socket'[s].old = socket[s].old /\ socket'[s].told = socket[s].told
                    \/ socket[s].user = u /\ state = "active"
<1>1. \A r \in SocketRow : /\ [r EXCEPT !.old = FALSE, !.told = FALSE] \in SocketRow
                           /\ [r EXCEPT !.old = FALSE, !.told = FALSE].user = r.user
                           /\ [r EXCEPT !.old = FALSE, !.told = FALSE].open = r.open
  BY DEF SocketRow
<1>2. ASSUME NEW s \in Sockets
      PROVE  /\ socket'[s] \in SocketRow \cup {NULL}
             /\ socket'[s] # NULL =>
                 /\ socket[s] # NULL
                 /\ socket'[s].user = socket[s].user /\ socket'[s].open = socket[s].open
                 /\ \/ socket'[s].old = socket[s].old /\ socket'[s].told = socket[s].told
                    \/ socket[s].user = u /\ state = "active"
  <2>1. CASE socket[s] # NULL /\ socket[s].user = u /\ state = "active"
    <3>1. socket'[s] = [socket[s] EXCEPT !.old = FALSE, !.told = FALSE] /\ socket[s] \in SocketRow
      BY <2>1, Types DEF SocketsOnUpdate
    <3> QED BY <1>1, <2>1, <3>1
  <2>2. CASE ~(socket[s] # NULL /\ socket[s].user = u /\ state = "active")
    <3>1. socket'[s] = socket[s]
      BY <2>2 DEF SocketsOnUpdate
    <3> QED BY <3>1, Types
  <2> QED BY <2>1, <2>2
<1>3. socket' = [s \in Sockets |-> socket'[s]]
  BY DEF SocketsOnUpdate
<1> QED BY <1>2, <1>3

LEMMA SetActiveStep ==
    ASSUME Inv, Safe', NEW q \in Requests, NEW u \in Users, NEW active \in BOOLEAN,
           SetActiveSaves(q, u, active)
    PROVE  Inv'
<1> DEFINE state == IF active THEN "active" ELSE "inactive"
<1>1. /\ Update(u, state) /\ SocketsOnUpdate(u, state) /\ req[q].pc = "idle"
      /\ untold' = untold \ {u}
      /\ req' = [req EXCEPT ![q] = [pc |-> "saved", user |-> u, active |-> active]]
      /\ UNCHANGED <<login, handling>>
  BY DEF SetActiveSaves
<1>2. state \in {"active", "inactive", "deleted"} /\ (state = "active" <=> active)
  OBVIOUS
<1> HIDE DEF state
<1>3. PICK new : new = [pc |-> "saved", user |-> u, active |-> active]
  OBVIOUS
<1>10. new \in SavedRow /\ new.pc = "saved" /\ new.user = u /\ new.active = active
  BY <1>3 DEF SavedRow
<1>4. /\ req' \in [Requests -> SavedRow \cup {Idle}]
      /\ req'[q] = new /\ \A r \in Requests : r # q => req'[r] = req[r]
  BY <1>1, <1>3, <1>10, Types
<1>5. /\ account' \in [Users -> {"active", "inactive", "deleted"}]
      /\ account'[u] = state /\ \A v \in Users : v # u => account'[v] = account[v]
      /\ note' \subseteq Note /\ changes' \in 0..MaxChanges
      /\ missed' \subseteq Users /\ reactivated' \subseteq Users
      /\ \A v \in Users : (Explained(v) => Explained(v)') /\ (Leaves(v) => Leaves(v)')
      /\ NotesInv'
  BY <1>1, <1>2, UpdateReasons
<1>6. ASSUME NEW v \in Users, FollowedUp(v) PROVE FollowedUp(v)'
  <2>1. CASE v # u
    BY <1>1, <1>4, <1>5, <1>6, <2>1 DEF FollowedUp
  <2>2. CASE v = u
    BY <1>2, <1>4, <1>5, <1>10, <2>2 DEF FollowedUp
  <2> QED BY <2>1, <2>2
<1>7. /\ socket' \in [Sockets -> SocketRow \cup {NULL}]
      /\ \A s \in Sockets : socket'[s] # NULL =>
             /\ socket[s] # NULL
             /\ socket'[s].user = socket[s].user /\ socket'[s].open = socket[s].open
             /\ \/ socket'[s].old = socket[s].old /\ socket'[s].told = socket[s].told
                \/ "active" \in {account[socket[s].user], account'[socket[s].user]}
  BY <1>1, <1>5, UpdatedSockets
<1>8. SocketsInv'
  BY <1>5, <1>6, <1>7, SocketsStand
<1>9. TypeOK'
  BY <1>1, <1>4, <1>5, <1>7, Types, TypesNext
<1> QED BY <1>5, <1>8, <1>9 DEF Inv

LEMMA OtherUpdateStep ==
    ASSUME Inv, Safe', NEW u \in Users, NEW state \in {"active", "inactive", "deleted"},
           OtherUpdate(u, state)
    PROVE  Inv'
<1>1. /\ Update(u, state) /\ SocketsOnUpdate(u, account[u])
      /\ state \in {account[u], "inactive", "deleted"}
      /\ untold' = IF account[u] = "active" /\ state # "active" THEN untold \cup {u} ELSE untold
      /\ UNCHANGED <<login, req, handling>>
  BY DEF OtherUpdate
<1>2. /\ account' \in [Users -> {"active", "inactive", "deleted"}]
      /\ account'[u] = state /\ \A v \in Users : v # u => account'[v] = account[v]
      /\ note' \subseteq Note /\ changes' \in 0..MaxChanges
      /\ missed' \subseteq Users /\ reactivated' \subseteq Users
      /\ \A v \in Users : (Explained(v) => Explained(v)') /\ (Leaves(v) => Leaves(v)')
      /\ NotesInv'
  BY <1>1, UpdateReasons
<1>3. ASSUME NEW v \in Users, FollowedUp(v) PROVE FollowedUp(v)'
  BY <1>1, <1>2, <1>3 DEF FollowedUp
<1>4. /\ socket' \in [Sockets -> SocketRow \cup {NULL}]
      /\ \A s \in Sockets : socket'[s] # NULL =>
             /\ socket[s] # NULL
             /\ socket'[s].user = socket[s].user /\ socket'[s].open = socket[s].open
             /\ \/ socket'[s].old = socket[s].old /\ socket'[s].told = socket[s].told
                \/ "active" \in {account[socket[s].user], account'[socket[s].user]}
  BY <1>1, UpdatedSockets
<1>5. SocketsInv'
  BY <1>2, <1>3, <1>4, SocketsStand
<1>6. untold' \subseteq Users
  BY <1>1, Types
<1>7. TypeOK'
  BY <1>1, <1>2, <1>4, <1>6, Types, TypesNext
<1> QED BY <1>2, <1>5, <1>7 DEF Inv

\* Room(u) is told, and closed if the listener does it.
LEMMA ToldSockets ==
    ASSUME Inv, NEW u \in Users, EmitForceLogout(u)
    PROVE  /\ socket' \in [Sockets -> SocketRow \cup {NULL}]
           /\ \A s \in Sockets : socket'[s] # NULL =>
                 /\ socket[s] # NULL
                 /\ socket'[s].user = socket[s].user /\ socket'[s].open = socket[s].open
                 /\ socket'[s].old = socket[s].old
                 /\ \/ socket[s].user = u /\ socket[s].open /\ socket'[s].told
                    \/ ~(socket[s].user = u /\ socket[s].open) /\ socket'[s].told = socket[s].told
<1>1. \A r \in SocketRow : /\ [r EXCEPT !.told = TRUE] \in SocketRow
                           /\ [r EXCEPT !.told = TRUE].user = r.user
                           /\ [r EXCEPT !.told = TRUE].open = r.open
                           /\ [r EXCEPT !.told = TRUE].old = r.old
                           /\ [r EXCEPT !.told = TRUE].told
  BY DEF SocketRow
<1>2. ASSUME NEW s \in Sockets
      PROVE  /\ socket'[s] \in SocketRow \cup {NULL}
             /\ socket'[s] # NULL =>
                 /\ socket[s] # NULL
                 /\ socket'[s].user = socket[s].user /\ socket'[s].open = socket[s].open
                 /\ socket'[s].old = socket[s].old
                 /\ \/ socket[s].user = u /\ socket[s].open /\ socket'[s].told
                    \/ ~(socket[s].user = u /\ socket[s].open) /\ socket'[s].told = socket[s].told
  <2>1. CASE s \in Room(u)
    <3>0. PICK o : o = socket[s]
      OBVIOUS
    <3>1. o \in SocketRow /\ o # NULL
      BY <2>1, <3>0, Types DEF Room
    <3>2. PICK r : r = [o EXCEPT !.told = TRUE]
      OBVIOUS
    <3>3. r \in SocketRow /\ r.user = o.user /\ r.open = o.open /\ r.old = o.old /\ r.told
      BY <1>1, <3>1, <3>2
    <3>4. socket'[s] = r
      BY <2>1, <3>0, <3>2 DEF EmitForceLogout
    <3> QED BY <2>1, <3>0, <3>1, <3>3, <3>4 DEF Room
  <2>2. CASE s \notin Room(u)
    <3>1. socket'[s] = socket[s]
      BY <2>2 DEF EmitForceLogout
    <3> QED BY <2>2, <3>1, Types DEF Room
  <2> QED BY <2>1, <2>2
<1>3. socket' = [s \in Sockets |-> socket'[s]]
  BY DEF EmitForceLogout
<1> QED BY <1>2, <1>3

LEMMA ClosedSockets ==
    ASSUME Inv, NEW u \in Users, CloseRoom(u)
    PROVE  /\ socket' \in [Sockets -> SocketRow \cup {NULL}]
           /\ \A s \in Sockets : socket'[s] # NULL =>
                 /\ socket[s] # NULL /\ socket'[s].user = socket[s].user
                 /\ socket[s].user = u => ~socket'[s].open
                 /\ socket[s].user # u => socket'[s] = socket[s]
<1>1. \A r \in SocketRow : /\ [r EXCEPT !.told = TRUE, !.open = FALSE] \in SocketRow
                           /\ [r EXCEPT !.told = TRUE, !.open = FALSE].user = r.user
                           /\ ~[r EXCEPT !.told = TRUE, !.open = FALSE].open
  BY DEF SocketRow
<1>2. ASSUME NEW s \in Sockets
      PROVE  /\ socket'[s] \in SocketRow \cup {NULL}
             /\ socket'[s] # NULL =>
                 /\ socket[s] # NULL /\ socket'[s].user = socket[s].user
                 /\ socket[s].user = u => ~socket'[s].open
                 /\ socket[s].user # u => socket'[s] = socket[s]
  <2>1. CASE s \in Room(u)
    <3>1. /\ socket'[s] = [socket[s] EXCEPT !.told = TRUE, !.open = FALSE]
          /\ socket[s] \in SocketRow /\ socket[s] # NULL /\ socket[s].user = u
      BY <2>1, Types DEF CloseRoom, Room
    <3> QED BY <1>1, <3>1
  <2>2. CASE s \notin Room(u)
    <3>1. socket'[s] = socket[s]
      BY <2>2 DEF CloseRoom
    <3> QED BY <2>2, <3>1, Types DEF Room
  <2> QED BY <2>1, <2>2
<1>3. socket' = [s \in Sockets |-> socket'[s]]
  BY DEF CloseRoom
<1> QED BY <1>2, <1>3

LEMMA ReturnStep ==
    ASSUME Inv, Safe', NEW q \in Requests, SetActiveReturns(q) \/ SetActiveFails(q)
    PROVE  Inv'
<1>1. /\ req[q].pc = "saved" /\ req' = [req EXCEPT ![q] = Idle]
      /\ UNCHANGED <<account, login, note, handling, changes, reactivated, missed>>
  BY DEF SetActiveReturns, SetActiveFails
<1>2. req[q] \in SavedRow
  BY <1>1, Types DEF Idle
<1>3. /\ req' \in [Requests -> SavedRow \cup {Idle}]
      /\ \A r \in Requests : r # q => req'[r] = req[r]
  BY <1>1, Types
<1>4. PICK u \in Users : u = req[q].user
  BY <1>2 DEF SavedRow
<1>5. /\ \A v \in Users : (Explained(v) => Explained(v)') /\ (Leaves(v) => Leaves(v)')
      /\ NotesInv'
  BY <1>1 DEF Inv, Explained, Leaves, NotesInv
<1>6. ASSUME NEW v \in Users, FollowedUp(v), untold \subseteq untold',
             v # u \/ req[q].active \/ u \in untold'
      PROVE  FollowedUp(v)'
  BY <1>1, <1>3, <1>4, <1>6 DEF FollowedUp
<1>7. ASSUME untold' \subseteq Users, socket' \in [Sockets -> SocketRow \cup {NULL}] PROVE TypeOK'
  BY <1>1, <1>3, <1>7, Types, TypesNext
<1>8. CASE SetActiveFails(q)
  <2>1. /\ socket' = socket /\ untold' = IF req[q].active THEN untold ELSE untold \cup {u}
    BY <1>4, <1>8 DEF SetActiveFails
  <2>2. \A v \in Users : FollowedUp(v) => FollowedUp(v)'
    BY <1>6, <2>1
  <2>3. SocketsInv'
    BY <1>5, <2>1, <2>2, SocketsRest
  <2> QED BY <1>5, <1>7, <2>1, <2>3, Types DEF Inv
<1>9. CASE SetActiveReturns(q) /\ req[q].active
  <2>1. socket' = socket /\ untold' = untold
    BY <1>9 DEF SetActiveReturns
  <2>2. \A v \in Users : FollowedUp(v) => FollowedUp(v)'
    BY <1>6, <1>9, <2>1
  <2>3. SocketsInv'
    BY <1>5, <2>1, <2>2, SocketsRest
  <2> QED BY <1>5, <1>7, <2>1, <2>3, Types DEF Inv
<1>10. CASE SetActiveReturns(q) /\ ~req[q].active
  <2>1. EmitForceLogout(u) /\ untold' = untold
    BY <1>4, <1>10 DEF SetActiveReturns
  <2>2. /\ socket' \in [Sockets -> SocketRow \cup {NULL}]
        /\ \A s \in Sockets : socket'[s] # NULL =>
              /\ socket[s] # NULL
              /\ socket'[s].user = socket[s].user /\ socket'[s].open = socket[s].open
              /\ socket'[s].old = socket[s].old
              /\ \/ socket[s].user = u /\ socket[s].open /\ socket'[s].told
                 \/ ~(socket[s].user = u /\ socket[s].open) /\ socket'[s].told = socket[s].told
    BY <2>1, ToldSockets
  <2>3. SocketsInv'
    <3> SUFFICES ASSUME NEW s \in Sockets, socket'[s] # NULL
                 PROVE  /\ Current(s)' => Explained(socket[s].user)'
                        /\ Current(s)' /\ ~socket'[s].told => FollowedUp(socket[s].user)'
                        /\ ~socket'[s].open => Leaves(socket[s].user)'
      BY DEF SocketsInv
    <3>1. PICK v \in Users : v = socket[s].user /\ v = socket'[s].user
      BY <2>2 DEF SocketRow
    <3>2. /\ Current(s) => Explained(v)
          /\ Current(s) /\ ~socket[s].told => FollowedUp(v)
          /\ ~socket[s].open => Leaves(v)
      BY <2>2, <3>1 DEF Inv, SocketsInv
    <3>3. /\ Current(s)' => Explained(v)'
          /\ Current(s)' /\ ~socket'[s].told => FollowedUp(v)'
          /\ ~socket'[s].open => Leaves(v)'
      BY <1>5, <1>6, <2>1, <2>2, <3>1, <3>2 DEF Current
    <3> QED BY <3>1, <3>3 DEF Explained, FollowedUp, Leaves
  <2> QED BY <1>5, <1>7, <2>1, <2>2, <2>3, Types DEF Inv
<1> QED BY <1>8, <1>9, <1>10

LEMMA ReceiveStep ==
    ASSUME Inv, Safe', NEW n, Receive(n)
    PROVE  Inv'
<1>1. /\ n \in note /\ note' = note \ {n} /\ handling' = handling \cup {n}
      /\ UNCHANGED <<account, login, socket, req, changes, reactivated, missed, untold>>
  BY DEF Receive
<1>2. note' \cup handling' = note \cup handling
  BY <1>1
<1>3. TypeOK'
  BY <1>1, Types, TypesNext
<1>4. SocketsInv' /\ NotesInv'
  <2>1. \A u \in Users : /\ Explained(u) => Explained(u)'
                         /\ FollowedUp(u) => FollowedUp(u)'
                         /\ Leaves(u) => Leaves(u)'
    BY <1>1, <1>2 DEF Explained, FollowedUp, Leaves
  <2>2. socket' = socket
    BY <1>1
  <2>3. NotesInv'
    BY <1>1, <1>2 DEF Inv, NotesInv, Leaves
  <2> QED BY <2>1, <2>2, <2>3, SocketsRest
<1> QED BY <1>3, <1>4 DEF Inv

LEMMA PayloadStep ==
    ASSUME Inv, Safe', NEW n \in handling, HandlePayload(n)
    PROVE  Inv'
<1>1. /\ handling' = handling \ {n}
      /\ IF n.logout THEN CloseRoom(n.user) ELSE UNCHANGED socket
      /\ UNCHANGED <<account, login, req, note, changes, reactivated, missed, untold>>
  BY DEF HandlePayload
<1>2. PICK u \in Users : u = n.user
  BY Types DEF Note
<1>3. \A v \in Users : /\ Explained(v) /\ (v = u => ~n.logout) => Explained(v)'
                       /\ FollowedUp(v) => FollowedUp(v)'
                       /\ Leaves(v) => Leaves(v)'
  BY <1>1, <1>2 DEF Explained, FollowedUp, Leaves
<1>4. NotesInv'
  BY <1>1 DEF Inv, NotesInv, Leaves
<1>5. ASSUME socket' \in [Sockets -> SocketRow \cup {NULL}] PROVE TypeOK'
  BY <1>1, <1>5, Types, TypesNext
<1>6. CASE ~n.logout
  <2>1. SocketsInv'
    <3>1. socket' = socket
      BY <1>1, <1>6
    <3>2. \A v \in Users : /\ Explained(v) => Explained(v)'
                           /\ FollowedUp(v) => FollowedUp(v)'
                           /\ Leaves(v) => Leaves(v)'
      BY <1>3, <1>6
    <3> QED BY <3>1, <3>2, SocketsRest
  <2> QED BY <1>1, <1>4, <1>5, <1>6, <2>1, Types DEF Inv
<1>7. CASE n.logout
  <2>1. /\ socket' \in [Sockets -> SocketRow \cup {NULL}]
        /\ \A s \in Sockets : socket'[s] # NULL =>
              /\ socket[s] # NULL /\ socket'[s].user = socket[s].user
              /\ socket[s].user = u => ~socket'[s].open
              /\ socket[s].user # u => socket'[s] = socket[s]
    BY <1>1, <1>2, <1>7, ClosedSockets
  <2>2. Leaves(u)
    BY <1>2, <1>7 DEF Inv, NotesInv
  <2>3. ASSUME NEW s \in Sockets, socket'[s] # NULL
        PROVE  /\ Current(s)' => Explained(socket[s].user)'
               /\ Current(s)' /\ ~socket'[s].told => FollowedUp(socket[s].user)'
               /\ ~socket'[s].open => Leaves(socket[s].user)'
    <3>1. PICK v \in Users : v = socket[s].user /\ v = socket'[s].user
      BY <2>1, <2>3 DEF SocketRow
    <3>2. /\ Current(s) => Explained(v)
          /\ Current(s) /\ ~socket[s].told => FollowedUp(v)
          /\ ~socket[s].open => Leaves(v)
      BY <2>1, <2>3, <3>1 DEF Inv, SocketsInv
    <3>3. CASE v = u
      <4>1. ~socket'[s].open /\ Leaves(v)'
        BY <1>3, <2>1, <2>2, <2>3, <3>1, <3>3
      <4> QED BY <3>1, <4>1 DEF Current, Leaves
    <3>4. CASE v # u
      <4>1. socket'[s] = socket[s]
        BY <2>1, <2>3, <3>1, <3>4
      <4>2. /\ Current(s)' => Explained(v)'
            /\ Current(s)' /\ ~socket'[s].told => FollowedUp(v)'
            /\ ~socket'[s].open => Leaves(v)'
        BY <1>3, <3>2, <3>4, <4>1 DEF Current
      <4> QED BY <3>1, <4>2 DEF Explained, FollowedUp, Leaves
    <3> QED BY <3>3, <3>4
  <2>4. SocketsInv'
    BY <2>3 DEF SocketsInv
  <2> QED BY <1>4, <1>5, <2>1, <2>4 DEF Inv
<1> QED BY <1>6, <1>7

LEMMA PayloadFailsStep ==
    ASSUME Inv, Safe', NEW n \in handling, HandlePayloadFails(n)
    PROVE  Inv'
<1>1. /\ handling' = handling \ {n} /\ Misses({n})
      /\ UNCHANGED <<account, login, socket, req, note, changes, reactivated, untold>>
  BY DEF HandlePayloadFails
<1>2. missed' = missed \cup {o.user : o \in {p \in {n} : p.logout}}
  BY <1>1 DEF Misses
<1>3. n.user \in Users
  BY Types DEF Note
<1>4. missed' \subseteq Users
  BY <1>2, <1>3, Types
<1>5. \A u \in Users : /\ Explained(u) => Explained(u)'
                       /\ FollowedUp(u) => FollowedUp(u)'
                       /\ Leaves(u) => Leaves(u)'
  BY <1>1, <1>2 DEF Explained, FollowedUp, Leaves
<1>6. NotesInv'
  BY <1>1 DEF Inv, NotesInv, Leaves
<1>7. TypeOK'
  BY <1>1, <1>4, Types, TypesNext
<1>8. SocketsInv'
  <2>1. socket' = socket
    BY <1>1
  <2> QED BY <1>5, <2>1, SocketsRest
<1> QED BY <1>6, <1>7, <1>8 DEF Inv

\* Notifications get lost, and what they would have told the listener is missed.
LEMMA Lost ==
    ASSUME Inv, LoseNotes, UNCHANGED <<account, reactivated>>
    PROVE  /\ note' \subseteq note /\ missed' \subseteq Users /\ missed \subseteq missed'
           /\ \A n \in note : n \in note' \/ (n.logout => n.user \in missed')
<1> DEFINE lost == {n \in note : conn'[n.conn] # "up"}
<1>1. note' = note \ lost /\ missed' = missed \cup {n.user : n \in {o \in lost : o.logout}}
  BY DEF LoseNotes, Misses
<1>2. \A n \in lost : n \in note /\ n.user \in Users
  BY Types DEF Note
<1> HIDE DEF lost
<1> QED BY <1>1, <1>2, Types

LEMMA ListenerMoves ==
    ASSUME Inv, Safe', ListenerStep
    PROVE  Inv'
<1>1. LoseNotes /\ UNCHANGED <<account, login, socket, req, handling, changes, reactivated, untold>>
  BY DEF ListenerStep
<1>2. /\ note' \subseteq note /\ missed' \subseteq Users /\ missed \subseteq missed'
      /\ \A n \in note : n \in note' \/ (n.logout => n.user \in missed')
  BY <1>1, Lost
<1>3. \A u \in Users : /\ Explained(u) => Explained(u)'
                       /\ FollowedUp(u) => FollowedUp(u)'
                       /\ Leaves(u) => Leaves(u)'
  BY <1>1, <1>2 DEF Explained, FollowedUp, Leaves
<1>4. NotesInv'
  BY <1>1, <1>2 DEF Inv, NotesInv, Leaves
<1>5. TypeOK'
  BY <1>1, <1>2, Types, TypesNext
<1>6. SocketsInv'
  <2>1. socket' = socket
    BY <1>1
  <2>2. \A u \in Users : FollowedUp(u) => FollowedUp(u)'
    BY <1>3
  <2>3. \A u \in Users : Explained(u) => Explained(u)'
    BY <1>3
  <2>4. \A u \in Users : Leaves(u) => Leaves(u)'
    BY <1>3
  <2> QED BY <2>1, <2>2, <2>3, <2>4, SocketsRest
<1> QED BY <1>4, <1>5, <1>6 DEF Inv

\* The process ends, in order or not.
LEMMA ProcessEnds ==
    ASSUME Inv, Safe', Close \/ Crash
    PROVE  Inv'
<1>1. /\ socket' = [s \in Sockets |-> NULL] /\ req' = [q \in Requests |-> Idle]
      /\ handling' = {} /\ login' = NoLogin
      /\ UNCHANGED <<account, changes, reactivated, untold>>
  BY DEF Close, Crash
<1>2. note' \subseteq note /\ missed' \subseteq Users
  <2>1. CASE Close
    BY <1>1, <2>1, Lost DEF Close
  <2>2. CASE Crash
    BY <2>2, Types DEF Crash
  <2> QED BY <2>1, <2>2
<1>3. login' \in [Users -> {"none", "comparing", "token"}]
  BY <1>1, Types DEF NoLogin
<1>4. SocketsInv' /\ socket' \in [Sockets -> SocketRow \cup {NULL}]
  BY <1>1, NoSockets
<1>5. TypeOK'
  BY <1>1, <1>2, <1>3, <1>4, Types, TypesNext
<1>6. NotesInv'
  BY <1>1, <1>2 DEF Inv, NotesInv, Leaves
<1> QED BY <1>4, <1>5, <1>6 DEF Inv

-----------------------------------------------------------------------------
(* The specification *)

\* The types, and for every open socket and every notification the reason its user
\* may keep it or lose it, are inductive.
THEOREM SessionsInductive == Spec => []Inv
<1>1. ASSUME Inv, Safe', [Next]_vars PROVE Inv'
  <2>1. CASE UNCHANGED vars
    <3>1. ReasonsStand /\ UNCHANGED <<login, socket, changes>>
      BY <2>1 DEF vars, sessionVars, ReasonsStand
    <3>2. TypeOK'
      BY <1>1, <3>1, Types, TypesNext DEF ReasonsStand
    <3>3. SocketsInv' /\ NotesInv'
      BY <1>1, <3>1, ReasonsStay, SocketsRest DEF Inv
    <3> QED BY <1>1, <3>2, <3>3 DEF Inv
  <2>2. CASE Next
    BY <1>1, <2>2, LoginStep, SocketStep, SetActiveStep, ReturnStep, OtherUpdateStep, ReceiveStep,
       PayloadStep, PayloadFailsStep, ListenerMoves, ProcessEnds
    DEF Next
  <2> QED BY <1>1, <2>1, <2>2
<1> QED BY <1>1, InitInv, AlwaysSafe, PTL DEF Spec

\* Types: accounts, logins, sockets, requests and notifications are what the model says.
THEOREM SessionTypes == Spec => []TypeOK
<1>1. Inv => TypeOK
  BY DEF Inv
<1> QED BY <1>1, SessionsInductive, PTL

\* An open socket from before its user was deactivated will be closed by the listener,
\* unless the listener never heard of it (users-changes-listener.service.ts).
THEOREM DeactivatedGetCut == Spec => []DeactivatedAreCut
<1>1. ASSUME Inv PROVE DeactivatedAreCut
  BY <1>1 DEF Inv, SocketsInv, Explained, DeactivatedAreCut, Current
<1> QED BY <1>1, SessionsInductive, PTL

\* The force.logout of setActive (users.service.ts) makes up for what the listener
\* missed, unless Redis failed that, too, or it was not setActive.
THEOREM DeactivatedGetTold == Spec => []DeactivatedAreTold
<1>1. ASSUME Inv PROVE DeactivatedAreTold
  <2> SUFFICES ASSUME NEW s \in Sockets, Current(s), ~socket[s].told
               PROVE  \/ account[socket[s].user] = "active"
                      \/ socket[s].user \in missed /\ socket[s].user \in untold
                      \/ \E q \in Requests : req[q].pc = "saved" /\ req[q].user = socket[s].user
                      \/ \E n \in note \cup handling : n.logout /\ n.user = socket[s].user
    BY DEF DeactivatedAreTold
  <2>1. Explained(socket[s].user) /\ FollowedUp(socket[s].user)
    BY <1>1 DEF Inv, SocketsInv, Current
  <2> QED BY <2>1 DEF Explained, FollowedUp
<1> QED BY <1>1, SessionsInductive, PTL

\* A socket is closed only of a user who is not active, or was not at some time.
THEOREM KicksHaveReasons == Spec => []KicksAreJust
<1>1. ASSUME Inv PROVE KicksAreJust
  BY <1>1 DEF Inv, SocketsInv, Leaves, KicksAreJust
<1> QED BY <1>1, SessionsInductive, PTL
=============================================================================
