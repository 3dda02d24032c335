-------------------------- MODULE ChangesListener --------------------------
(***************************************************************************)
(* events/users-changes-listener.service.ts: the one connection on which   *)
(* the application LISTENs for changed users, and how it is made again     *)
(* when it is lost.  A client is a pg.Client; its error and end events and *)
(* the answers it awaits arrive in any order the network allows.           *)
(***************************************************************************)
EXTENDS Integers, FiniteSetsExt

CONSTANTS
    NULL,
    Clients,      \* pg clients; one whose end event was handled may stand for a new one
    MaxFaults     \* bound: failures in one behaviour

ASSUME ListenerAssumption ==
    /\ IsFiniteSet(Clients)
    /\ Clients # {}
    /\ NULL \notin Clients
    /\ MaxFaults \in Nat

VARIABLES
    conn,       \* what each client is doing
    client,     \* this.client
    timer,      \* this.reconnectTimer is set
    stopped,    \* this.stopped
    tangled,    \* history: an end came late, or the module was destroyed while connecting
    faults      \* failures so far

listenerVars == <<conn, client, timer, stopped, tangled, faults>>

\* "failing": its error was emitted, its end was not; "ending": end() was called.
ConnState == {"none", "connecting", "up", "failing", "ending"}

\* The server sends notifications to the clients whose LISTEN it has executed.
Listening == {c \in Clients : conn[c] = "up"}

\* client.connect() or LISTEN is awaited.
Pending == {c \in Clients : conn[c] = "connecting"}

Fault == faults < MaxFaults /\ faults' = faults + 1

-----------------------------------------------------------------------------
\* new Client(...), client.connect(); clients are alike, so any unused one will do.
Unused == {c \in Clients : conn[c] = "none"}

Connect ==
    /\ Unused # {}
    /\ conn' = [conn EXCEPT ![CHOOSE c \in Unused : TRUE] = "connecting"]

\* scheduleReconnect(); the delay, BACKOFF_MS, only says how long the timer runs.
ScheduleReconnect ==
    IF stopped \/ timer THEN UNCHANGED <<client, timer>>
    ELSE client' = NULL /\ timer' = TRUE

\* The server has answered client.connect() and LISTEN.
ListenResolves(c) ==
    /\ conn[c] = "connecting"
    /\ conn' = [conn EXCEPT ![c] = "up"]
    /\ client' = c
    /\ UNCHANGED <<timer, stopped, tangled, faults>>

\* MUTANT of ConnectFails: the next attempt is scheduled without awaiting end().
ConnectFailsAtOnce(c) ==
    /\ c \in Pending
    /\ Fault
    /\ conn' = [conn EXCEPT ![c] = "ending"]
    /\ ScheduleReconnect
    /\ UNCHANGED <<stopped, tangled>>

\* connect() or LISTEN is refused: await client.end() in the catch block.
ConnectFails(c) ==
    /\ c \in Pending
    /\ Fault
    /\ conn' = [conn EXCEPT ![c] = "ending"]
    /\ UNCHANGED <<client, timer, stopped, tangled>>

\* An open connection breaks, LISTEN answered or not: the error event.
ErrorEvent(c) ==
    /\ conn[c] \in {"connecting", "up"}
    /\ Fault
    /\ conn' = [conn EXCEPT ![c] = "failing"]
    /\ ScheduleReconnect
    /\ UNCHANGED <<stopped, tangled>>

\* MUTANT of EndEvent: only error events reconnect.
EndEventIgnored(c) ==
    /\ conn[c] \in {"failing", "ending"}
    /\ conn' = [conn EXCEPT ![c] = "none"]
    /\ UNCHANGED <<client, timer, stopped, tangled, faults>>

\* The end event, and scheduleReconnect once more where connect() failed.  It
\* is late when the timer its error set has run out: it drops what came since.
EndEvent(c) ==
    /\ conn[c] \in {"failing", "ending"}
    /\ conn' = [conn EXCEPT ![c] = "none"]
    /\ tangled' = (tangled \/ (~stopped /\ ~timer /\ conn[c] = "failing"))
    /\ ScheduleReconnect
    /\ UNCHANGED <<stopped, faults>>

\* MUTANT of TimerFires: an interval, which goes on.
TimerFiresAgain ==
    /\ timer
    /\ Connect
    /\ UNCHANGED <<client, timer, stopped, tangled, faults>>

TimerFires ==
    /\ timer
    /\ timer' = FALSE
    /\ Connect
    /\ UNCHANGED <<client, stopped, tangled, faults>>

\* onModuleDestroy
Destroy ==
    /\ ~stopped
    /\ stopped' = TRUE
    /\ timer' = FALSE
    /\ tangled' = (tangled \/ Pending # {})
    /\ IF client # NULL
       THEN conn' = [conn EXCEPT ![client] = IF @ = "up" THEN "ending" ELSE @]
       ELSE UNCHANGED conn
    /\ client' = NULL
    /\ UNCHANGED faults

-----------------------------------------------------------------------------
FirstConnection == [c \in Clients |-> IF c = CHOOSE d \in Clients : TRUE THEN "connecting" ELSE "none"]

\* onModuleInit has called connect().
ListenerInit ==
    /\ conn = FirstConnection
    /\ client = NULL
    /\ timer = FALSE
    /\ stopped = FALSE
    /\ tangled = FALSE
    /\ faults = 0

-----------------------------------------------------------------------------
ListenerTypeOK ==
    /\ conn \in [Clients -> ConnState]
    /\ client \in Clients \cup {NULL}
    /\ timer \in BOOLEAN
    /\ stopped \in BOOLEAN
    /\ tangled \in BOOLEAN
    /\ faults \in 0..MaxFaults

\* No change is announced twice, and none falls to a connection nobody knows
\* of: one client listens at most and it is this.client, unless an end event
\* came after its timer had fired or the module was destroyed while connecting.
OneListener ==
    ~tangled => \A c \in Listening : c = client

\* Late ends and a shutdown while connecting included: every listener but the first
\* has cost a failure, so that reconnections do not breed connections.
ListenersAreFew == Cardinality(Listening) <= 1 + faults

\* Whatever breaks, the application listens again or is destroyed: no failure of
\* a connection, nor of a reconnection, is the last thing that happens.
ListensAgain == []<>(Listening # {} \/ stopped)

=============================================================================
