--------------------------- MODULE LiveDashboard ---------------------------
(***************************************************************************)
(* The live dashboard: the snapshot of diagnostics and of the MCP server's *)
(* state which the API publishes (dashboard/live-state.ts), the websockets *)
(* it is pushed through (dashboard/realtime-node.ts, ws-runtime.ts), the   *)
(* heartbeats of the MCP server (heartbeat.js), and the page that shows it *)
(* (dashboard/+page.svelte).                                               *)
(*                                                                         *)
(* The diagnostics are one reading, and the MCP server's state is the time *)
(* until which the page may call it connected.  Every await is a step of   *)
(* its own.  Left out: the counts and audit entries of the page, which are *)
(* not pushed, the state it shows of its own connection                    *)
(* (backendConnectionState), and what a badge says besides.                *)
(***************************************************************************)
EXTENDS Integers, Sequences, FiniteSets, SequencesExt

CONSTANTS
    Pages, Sockets,
    Requests,               \* slots for requests that refresh the snapshot
    HeartbeatStaleSeconds,
    Diagnostics,            \* what a reading of the diagnostics may find
    MaxTime,                \* bound on the clock
    MaxOpens,               \* bound on the websockets opened
    MaxInFlight,            \* bound on the messages on their way to a page
    None

ASSUME LiveDashboardAssumption ==
    /\ IsFiniteSet(Sockets) /\ Requests \cap Sockets = {}
    /\ HeartbeatStaleSeconds \in Nat \ {0}
    /\ MaxTime \in Nat /\ MaxOpens \in Nat /\ MaxInFlight \in Nat
    /\ None \notin Pages \cup Sockets \cup Diagnostics \cup Nat

VARIABLES
    clock,
    enabled,        \* the MCP user
    heartbeat,      \* when the API received the last one, or None
    lastBeat,       \* history: the same, whatever has become of it since
    latest,         \* latestSnapshot
    refresh,        \* the refreshes in progress
    socket,         \* the websockets
    clients,        \* those that the server broadcasts to
    unsubscribe,    \* unsubscribeDashboardStatus is set
    listeners,      \* how many listeners dashboardEmitter has
    page,
    opens           \* how many websockets were opened

world == <<clock, enabled, heartbeat, lastBeat>>
server == <<latest, refresh, clients, unsubscribe, listeners>>
vars == <<world, server, socket, page, opens>>

-----------------------------------------------------------------------------
(* Types *)

Time == 0..MaxTime

\* McpRuntimeInfo: until when it is connected; 0 when it is not.
Runtime == 0..(MaxTime + HeartbeatStaleSeconds)
Snapshot == [diagnostics : Diagnostics, mcpRuntime : Runtime]
ASSUME SnapshotAssumption == None \notin Snapshot

\* refreshDashboardSnapshot and refreshDashboardMcpRuntime: what has been read.  The
\* refresh of a page load has the page to deliver to.
Refresh == [busy : BOOLEAN, diagnostics : Diagnostics \cup {None},
            mcpRuntime : Runtime \cup {None}, for : Pages \cup {None}]
Idle == [busy |-> FALSE, diagnostics |-> None, mcpRuntime |-> None, for |-> None]
Reading == [Idle EXCEPT !.busy = TRUE]

\* A websocket: whether it is open, where the server is in setting it up, the
\* snapshot it is about to send, and what is on its way to the page.
Socket == [open : BOOLEAN, at : {"none", "upgrade", "subscribe", "get", "load", "send"},
           carry : Snapshot \cup {None}, inbox : Seq(Snapshot)]
NoSocket == [open |-> FALSE, at |-> "none", carry |-> None, inbox |-> <<>>]

\* A page: dashboardSocket, reconnectTimer, currentTimeMs,
\* and the snapshot it shows.
Page == [at : {"away", "loaded", "mounted"},
         socket : Sockets \cup {None}, timer : BOOLEAN, now : Time,
         live : Snapshot \cup {None}]
NoPage == [at |-> "away", socket |-> None, timer |-> FALSE,
           now |-> 0, live |-> None]

TypeOK ==
    /\ clock \in Time /\ enabled \in BOOLEAN
    /\ lastBeat \in Time \cup {None} /\ heartbeat \in {lastBeat, None}
    /\ latest \in Snapshot \cup {None}
    /\ refresh \in [Requests \cup Sockets -> Refresh]
    /\ socket \in [Sockets -> Socket]
    /\ clients \subseteq Sockets
    /\ unsubscribe \in BOOLEAN /\ listeners \in 0..MaxOpens
    /\ unsubscribe => listeners > 0
    /\ page \in [Pages -> Page]
    /\ opens \in 0..MaxOpens

Init ==
    /\ clock = 0 /\ enabled = TRUE
    /\ heartbeat = None /\ lastBeat = None
    /\ latest = None
    /\ refresh = [r \in Requests \cup Sockets |-> Idle]
    /\ socket = [s \in Sockets |-> NoSocket]
    /\ clients = {} /\ unsubscribe = FALSE /\ listeners = 0
    /\ page = [p \in Pages |-> NoPage]
    /\ opens = 0

-----------------------------------------------------------------------------
(* Time *)

Tick ==
    /\ clock < MaxTime
    /\ clock' = clock + 1
    /\ UNCHANGED <<enabled, heartbeat, lastBeat, server, socket, page, opens>>

-----------------------------------------------------------------------------
(* The snapshot *)

\* refreshDashboardMcpRuntime keeps the diagnostics of the snapshot there is, and
\* does nothing when there is none.
RefreshesMcp(r) ==
    refresh' = IF latest = None THEN refresh
               ELSE [refresh EXCEPT ![r] = [Reading EXCEPT !.diagnostics = latest.diagnostics]]

\* POST /api/mcp/heartbeat, from the MCP server's timer.
RecordHeartbeat(r) ==
    /\ ~refresh[r].busy
    /\ heartbeat' = clock /\ lastBeat' = clock
    /\ RefreshesMcp(r)
    /\ UNCHANGED <<clock, enabled, latest, clients, unsubscribe, listeners, socket, page, opens>>

\* PATCH /api/mcp/access.
SetAccess(r) ==
    /\ ~refresh[r].busy
    /\ enabled' = ~enabled
    /\ heartbeat' = IF enabled' THEN heartbeat ELSE None
    /\ RefreshesMcp(r)
    /\ UNCHANGED <<clock, lastBeat, latest, clients, unsubscribe, listeners, socket, page, opens>>

\* refreshDashboardSnapshot: a request for the diagnostics or an operation on the
\* broker, or the load of a page.
RefreshBegins(r) ==
    /\ ~refresh[r].busy
    /\ \E p \in {q \in Pages : page[q].at = "away"} \cup {None} :
          refresh' = [refresh EXCEPT ![r] = [Reading EXCEPT !.for = p]]
    /\ UNCHANGED <<world, latest, clients, unsubscribe, listeners, socket, page, opens>>

GetSummary(r) ==
    /\ refresh[r].busy /\ refresh[r].diagnostics = None
    /\ \E found \in Diagnostics : refresh' = [refresh EXCEPT ![r].diagnostics = found]
    /\ UNCHANGED <<world, latest, clients, unsubscribe, listeners, socket, page, opens>>

\* Mutant: a heartbeat counts however old it is.
RuntimeUntilNextHeartbeat ==
    IF enabled /\ heartbeat # None THEN MaxTime + HeartbeatStaleSeconds ELSE 0

RuntimeInfo ==
    IF enabled /\ heartbeat # None /\ heartbeat + HeartbeatStaleSeconds > clock
    THEN heartbeat + HeartbeatStaleSeconds ELSE 0

GetRuntimeInfo(r) ==
    /\ refresh[r].busy /\ refresh[r].mcpRuntime = None
    /\ refresh' = [refresh EXCEPT ![r].mcpRuntime = RuntimeInfo]
    /\ UNCHANGED <<world, latest, clients, unsubscribe, listeners, socket, page, opens>>

Read(r) ==
    /\ refresh[r].busy
    /\ refresh[r].diagnostics # None /\ refresh[r].mcpRuntime # None

\* updateDashboardSnapshot: a snapshot that differs goes to every listener, and so to
\* every open client.  (A listener that was left behind sends it once more.)
Broadcast(snapshot) ==
    [s \in Sockets |-> IF s \in clients /\ socket[s].open /\ listeners > 0
                       THEN [socket[s] EXCEPT !.inbox = Append(@, snapshot)] ELSE socket[s]]

UpdateDashboardSnapshot(r) ==
    LET snapshot == [diagnostics |-> refresh[r].diagnostics, mcpRuntime |-> refresh[r].mcpRuntime]
        sent == IF snapshot = latest THEN socket ELSE Broadcast(snapshot)
    IN  /\ Read(r)
        /\ \A s \in Sockets : Len(socket[s].inbox) < MaxInFlight
        /\ latest' = snapshot
        /\ refresh' = [refresh EXCEPT ![r] = Idle]
        /\ socket' = IF r \in Sockets THEN [sent EXCEPT ![r].at = "send", ![r].carry = snapshot]
                     ELSE sent
        /\ page' = IF refresh[r].for = None \/ page[refresh[r].for].at # "away" THEN page
                   ELSE [page EXCEPT ![refresh[r].for] = [NoPage EXCEPT !.at = "loaded", !.live = snapshot]]
        /\ UNCHANGED <<world, clients, unsubscribe, listeners, opens>>

\* The database fails: the request does, and a client that was to get its first
\* snapshot is closed.
RefreshFails(r) ==
    /\ refresh[r].busy
    /\ refresh' = [refresh EXCEPT ![r] = Idle]
    /\ socket' = IF r \in Sockets THEN [socket EXCEPT ![r].at = "none", ![r].open = FALSE] ELSE socket
    /\ UNCHANGED <<world, latest, clients, unsubscribe, listeners, page, opens>>

-----------------------------------------------------------------------------
(* The websocket server *)

\* handleUpgrade: a request that is not authorised is answered and cut off.
Rejects(s) ==
    /\ socket[s].at = "upgrade"
    /\ socket' = [socket EXCEPT ![s].at = "none", ![s].open = FALSE]
    /\ UNCHANGED <<world, server, page, opens>>

\* on('connection'), up to the first await.
Accepts(s) ==
    /\ socket[s].at = "upgrade"
    /\ clients' = clients \cup {s}
    /\ socket' = [socket EXCEPT ![s].at = IF unsubscribe THEN "get" ELSE "subscribe"]
    /\ UNCHANGED <<world, latest, refresh, unsubscribe, listeners, page, opens>>

\* startDashboardSubscription has the runtime.  A listener that is there is forgotten.
StartDashboardSubscription(s) ==
    /\ socket[s].at = "subscribe"
    /\ unsubscribe' = TRUE /\ listeners' = listeners + 1
    /\ socket' = [socket EXCEPT ![s].at = "get"]
    /\ UNCHANGED <<world, latest, refresh, clients, page, opens>>

\* getDashboardStatusSnapshot: the snapshot there is, or a new one.
GetDashboardStatusSnapshot(s) ==
    /\ socket[s].at = "get"
    /\ IF latest # None
       THEN /\ socket' = [socket EXCEPT ![s].at = "send", ![s].carry = latest]
            /\ UNCHANGED refresh
       ELSE /\ socket' = [socket EXCEPT ![s].at = "load"]
            /\ refresh' = [refresh EXCEPT ![s] = Reading]
    /\ UNCHANGED <<world, latest, clients, unsubscribe, listeners, page, opens>>

SendRawMessage(s) ==
    /\ socket[s].at = "send" /\ Len(socket[s].inbox) < MaxInFlight
    /\ socket' = [socket EXCEPT ![s].at = "none", ![s].carry = None,
                                ![s].inbox = IF socket[s].open THEN Append(@, socket[s].carry) ELSE @]
    /\ UNCHANGED <<world, server, page, opens>>

\* The connection breaks, or either side closes it.
Breaks(s) ==
    /\ socket[s].open
    /\ socket' = [socket EXCEPT ![s].open = FALSE]
    /\ UNCHANGED <<world, server, page, opens>>

\* Mutant: the subscription ends with the client that leaves.
StopsWithAnyClient(s) ==
    /\ unsubscribe' = FALSE
    /\ listeners' = IF unsubscribe THEN listeners - 1 ELSE listeners

\* Mutant: it ends although it may not have begun.
StopsUnconditionally(s) ==
    IF clients \ {s} # {} THEN UNCHANGED <<unsubscribe, listeners>>
    ELSE unsubscribe' = FALSE /\ listeners' = listeners - 1

\* stopDashboardSubscription.
StopDashboardSubscription(s) ==
    IF clients \ {s} # {} \/ ~unsubscribe THEN UNCHANGED <<unsubscribe, listeners>>
    ELSE unsubscribe' = FALSE /\ listeners' = listeners - 1

\* closeClient, on 'close' or 'error'.
CloseClient(s) ==
    /\ s \in clients /\ ~socket[s].open
    /\ clients' = clients \ {s}
    /\ StopDashboardSubscription(s)
    /\ UNCHANGED <<world, latest, refresh, socket, page, opens>>

-----------------------------------------------------------------------------
(* The page *)

\* A slot for a socket that nothing refers to: of the model, not of the code.
Free(s) == /\ ~socket[s].open /\ socket[s].at = "none" /\ s \notin clients
           /\ \A p \in Pages : page[p].socket # s

\* openDashboardSocket; the page has no other socket when it is called.
OpenDashboardSocket(pages, p) ==
    /\ opens < MaxOpens /\ opens' = opens + 1
    /\ \E s \in Sockets :
          /\ Free(s)
          /\ socket' = [socket EXCEPT ![s] = [NoSocket EXCEPT !.open = TRUE, !.at = "upgrade"]]
          /\ page' = [pages EXCEPT ![p].socket = s]

Mounts(p) ==
    /\ page[p].at = "loaded"
    /\ OpenDashboardSocket([page EXCEPT ![p].at = "mounted", ![p].now = clock], p)
    /\ UNCHANGED <<world, server>>

\* The timer of scheduleReconnect.
Reconnects(p) ==
    /\ page[p].timer
    /\ OpenDashboardSocket([page EXCEPT ![p].timer = FALSE], p)
    /\ UNCHANGED <<world, server>>

\* statusClock.
StatusClock(p) ==
    /\ page[p].at = "mounted" /\ page[p].now # clock
    /\ page' = [page EXCEPT ![p].now = clock]
    /\ UNCHANGED <<world, server, socket, opens>>

HandleDashboardMessage(p) ==
    LET s == page[p].socket
    IN  /\ s # None
        /\ socket[s].inbox # <<>>
        /\ socket' = [socket EXCEPT ![s].inbox = Tail(@)]
        /\ page' = [page EXCEPT ![p].live = Head(socket[s].inbox), ![p].timer = FALSE]
        /\ UNCHANGED <<world, server, opens>>

\* onclose, after whatever was received before.
SocketCloses(p) ==
    LET s == page[p].socket
    IN  /\ s # None
        /\ ~socket[s].open /\ socket[s].inbox = <<>>
        /\ page' = [page EXCEPT ![p].socket = None, ![p].timer = TRUE]
        /\ UNCHANGED <<world, server, socket, opens>>

\* Mutant: the timer of a page that is left goes on.
UnmountsOnly(p) ==
    LET s == page[p].socket
    IN  /\ page[p].at = "mounted"
        /\ page' = [page EXCEPT ![p] = [NoPage EXCEPT !.timer = page[p].timer]]
        /\ socket' = IF s = None THEN socket ELSE [socket EXCEPT ![s].open = FALSE, ![s].inbox = <<>>]
        /\ UNCHANGED <<world, server, opens>>

\* The user leaves the page.
Unmounts(p) ==
    LET s == page[p].socket
    IN  /\ page[p].at = "mounted"
        /\ page' = [page EXCEPT ![p] = NoPage]
        /\ socket' = IF s = None THEN socket ELSE [socket EXCEPT ![s].open = FALSE, ![s].inbox = <<>>]
        /\ UNCHANGED <<world, server, opens>>

\* The API stops or crashes, and starts again.
Restart ==
    /\ heartbeat' = None /\ latest' = None
    /\ refresh' = [r \in Requests \cup Sockets |-> Idle]
    /\ socket' = [s \in Sockets |-> [NoSocket EXCEPT !.inbox = socket[s].inbox]]
    /\ clients' = {} /\ unsubscribe' = FALSE /\ listeners' = 0
    /\ UNCHANGED <<clock, enabled, lastBeat, page, opens>>

-----------------------------------------------------------------------------

Next ==
    \/ Tick
    \/ \E r \in Requests : RecordHeartbeat(r) \/ SetAccess(r) \/ RefreshBegins(r)
    \/ \E r \in Requests \cup Sockets :
          GetSummary(r) \/ GetRuntimeInfo(r) \/ UpdateDashboardSnapshot(r) \/ RefreshFails(r)
    \/ \E s \in Sockets :
          \/ Rejects(s) \/ Accepts(s) \/ StartDashboardSubscription(s)
          \/ GetDashboardStatusSnapshot(s) \/ SendRawMessage(s) \/ Breaks(s) \/ CloseClient(s)
    \/ \E p \in Pages :
          \/ Mounts(p) \/ Reconnects(p) \/ StatusClock(p) \/ HandleDashboardMessage(p)
          \/ SocketCloses(p) \/ Unmounts(p)
    \/ Restart

Spec == Init /\ [][Next]_vars

-----------------------------------------------------------------------------
(* Properties *)

\* In whatever order clients come and go, the subscription is there for those that
\* stay: a snapshot that is published is sent to every open client which is done
\* with subscribing.
PublishedIsSent ==
    [][latest' \notin {latest, None} =>
          \A s \in clients : socket[s].open /\ socket[s].at \notin {"upgrade", "subscribe"} =>
              socket'[s].inbox # <<>> /\ Last(socket'[s].inbox) = latest']_vars

\* What the page says of the MCP server: mcpServerStatus.
ShownConnected(p) == page[p].live # None /\ page[p].live.mcpRuntime > page[p].now

\* Whatever snapshot reaches a page, and however late, it does not call the MCP server
\* connected when by its clock no heartbeat came within heartbeatStaleSeconds.
ConnectedIsFresh ==
    \A p \in Pages : page[p].at = "mounted" /\ ShownConnected(p) =>
        lastBeat # None /\ page[p].now < lastBeat + HeartbeatStaleSeconds

\* A page that is open always has a socket that is not closed for good or a timer
\* that will open one, and one that was left has neither.
PageKeepsTrying ==
    \A p \in Pages : (page[p].at = "mounted") = (page[p].socket # None \/ page[p].timer)
=============================================================================
