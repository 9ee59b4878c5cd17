------------------------ MODULE LiveDashboardProofs ------------------------
(* Invariance proofs for LiveDashboard, for every value of its constants. *)
EXTENDS LiveDashboard, FiniteSetTheorems, SequenceTheorems, TLAPS

-----------------------------------------------------------------------------
(* The inductive invariant *)

\* The types but for the number of listeners, with what a stage holds.
Typed ==
    /\ clock \in Time /\ enabled \in BOOLEAN
    /\ lastBeat \in Time \cup {None} /\ heartbeat \in {lastBeat, None}
    /\ latest \in Snapshot \cup {None}
    /\ refresh \in [Requests \cup Sockets -> Refresh]
    /\ socket \in [Sockets -> Socket]
    /\ \A s \in Sockets : socket[s].at = "send" => socket[s].carry \in Snapshot
    /\ clients \subseteq Sockets
    /\ unsubscribe \in BOOLEAN /\ listeners \in Nat
    /\ page \in [Pages -> Page]
    /\ opens \in 0..MaxOpens

\* Every client that is past subscribing has the subscription, and a subscription is a
\* listener.
Subscribed ==
    /\ unsubscribe => listeners > 0
    /\ \A s \in Sockets : socket[s].at = "upgrade" => s \notin clients
    /\ \A s \in clients : socket[s].at \notin {"upgrade", "subscribe"} => unsubscribe
    /\ \A s \in Sockets : refresh[s].busy => socket[s].at = "load"

\* Each websocket that is opened adds at most one listener.
Coming == {s \in Sockets : socket[s].at \in {"upgrade", "subscribe"}}
ListenersBounded == listeners + Cardinality(Coming) <= opens

\* A state of the MCP server, wherever it is kept, lasts no longer than the latest
\* heartbeat allows.
Fresh(mcpRuntime) ==
    mcpRuntime = 0 \/ (lastBeat # None /\ mcpRuntime <= lastBeat + HeartbeatStaleSeconds)

AllFresh ==
    /\ lastBeat # None => lastBeat <= clock
    /\ latest # None => Fresh(latest.mcpRuntime)
    /\ \A r \in Requests \cup Sockets :
          refresh[r].mcpRuntime # None => Fresh(refresh[r].mcpRuntime)
    /\ \A s \in Sockets :
          /\ socket[s].carry # None => Fresh(socket[s].carry.mcpRuntime)
          /\ \A i \in 1..Len(socket[s].inbox) : Fresh(socket[s].inbox[i].mcpRuntime)
    /\ \A p \in Pages : page[p].live # None => Fresh(page[p].live.mcpRuntime)

IInv == Typed /\ Subscribed /\ ListenersBounded /\ AllFresh /\ PageKeepsTrying

-----------------------------------------------------------------------------
(* Types *)

LEMMA Constants ==
  /\ HeartbeatStaleSeconds \in Nat \ {0} /\ MaxTime \in Nat /\ MaxOpens \in Nat
  /\ None \notin Pages /\ None \notin Sockets /\ None \notin Diagnostics /\ None \notin Runtime
  /\ IsFiniteSet(Sockets) /\ Requests \cap Sockets = {}
BY LiveDashboardAssumption DEF Runtime

LEMMA BlankTypes ==
  /\ Idle \in Refresh /\ ~Idle.busy /\ Idle.mcpRuntime = None
  /\ Reading \in Refresh /\ Reading.mcpRuntime = None
  /\ NoSocket \in Socket /\ NoSocket.at = "none"
  /\ NoPage \in Page /\ NoPage.at = "away" /\ NoPage.socket = None /\ ~NoPage.timer /\ NoPage.live = None
<1>1. Idle \in Refresh /\ ~Idle.busy /\ Idle.mcpRuntime = None
  BY DEF Idle, Refresh
<1>2. Reading \in Refresh /\ Reading.mcpRuntime = None
  BY DEF Idle, Reading, Refresh
<1>3. NoSocket \in Socket /\ NoSocket.at = "none"
  BY DEF NoSocket, Socket
<1>4. 0 \in Time
  BY Constants DEF Time
<1>5. NoPage \in Page
  BY <1>4 DEF NoPage, Page
<1>6. NoPage.at = "away" /\ NoPage.socket = None /\ ~NoPage.timer /\ NoPage.live = None
  BY DEF NoPage
<1>7. QED
  BY <1>1, <1>2, <1>3, <1>5, <1>6

LEMMA InitTyped == ASSUME Init PROVE Typed
<1>1. 0 \in Time /\ 0 \in 0..MaxOpens
  BY Constants DEF Time
<1>2. /\ refresh \in [Requests \cup Sockets -> Refresh] /\ socket \in [Sockets -> Socket]
      /\ page \in [Pages -> Page] /\ \A s \in Sockets : socket[s].at # "send"
  BY BlankTypes DEF Init
<1>3. QED
  BY <1>1, <1>2 DEF Init, Typed

\* A snapshot appended to an inbox.
LEMMA Appended ==
  ASSUME NEW inbox \in Seq(Snapshot), NEW snapshot \in Snapshot
  PROVE  /\ Append(inbox, snapshot) \in Seq(Snapshot)
         /\ Append(inbox, snapshot) # <<>>
         /\ Last(Append(inbox, snapshot)) = snapshot
         /\ \A i \in 1..Len(Append(inbox, snapshot)) :
               \/ Append(inbox, snapshot)[i] = snapshot
               \/ i \in 1..Len(inbox) /\ Append(inbox, snapshot)[i] = inbox[i]
BY DEF Last

LEMMA Broadcasting ==
  ASSUME Typed, NEW snapshot \in Snapshot
  PROVE  /\ Broadcast(snapshot) \in [Sockets -> Socket]
         /\ \A s \in Sockets : LET b == Broadcast(snapshot)[s]
               IN  /\ b.open = socket[s].open /\ b.at = socket[s].at /\ b.carry = socket[s].carry
                   /\ b.inbox \in {socket[s].inbox, Append(socket[s].inbox, snapshot)}
                   /\ s \in clients /\ socket[s].open /\ listeners > 0 =>
                         b.inbox = Append(socket[s].inbox, snapshot)
<1>1. ASSUME NEW s \in Sockets
      PROVE  LET b == [socket[s] EXCEPT !.inbox = Append(socket[s].inbox, snapshot)]
             IN  /\ b \in Socket /\ b.open = socket[s].open /\ b.at = socket[s].at
                 /\ b.carry = socket[s].carry /\ b.inbox = Append(socket[s].inbox, snapshot)
  <2>1. PICK q, inbox : q = socket[s] /\ inbox = Append(socket[s].inbox, snapshot)
    OBVIOUS
  <2>2. q \in Socket /\ inbox \in Seq(Snapshot)
    BY <2>1, Appended DEF Typed, Socket
  <2>3. LET b == [q EXCEPT !.inbox = inbox]
        IN  /\ b \in Socket /\ b.open = q.open /\ b.at = q.at
            /\ b.carry = q.carry /\ b.inbox = inbox
    BY ONLY <2>2, Zenon DEF Socket
  <2>4. QED
    BY <2>1, <2>3
<1>2. \A s \in Sockets : socket[s] \in Socket
  BY DEF Typed
<1>3. QED
  BY <1>1, <1>2 DEF Broadcast

\* A snapshot that is published: who it was read for sends it, the others get it.
LEMMA Updating ==
  ASSUME Typed, NEW r \in Requests \cup Sockets, UpdateDashboardSnapshot(r)
  PROVE  /\ latest' \in Snapshot
         /\ latest'.mcpRuntime = refresh[r].mcpRuntime /\ refresh[r].mcpRuntime # None
         /\ refresh' = [refresh EXCEPT ![r] = Idle] /\ refresh[r].busy
         /\ socket' \in [Sockets -> Socket]
         /\ \A s \in Sockets :
               /\ socket'[s].open = socket[s].open
               /\ socket'[s].at = IF s = r THEN "send" ELSE socket[s].at
               /\ socket'[s].carry = IF s = r THEN latest' ELSE socket[s].carry
               /\ socket'[s].inbox \in {socket[s].inbox, Append(socket[s].inbox, latest')}
               /\ latest' # latest /\ s \in clients /\ socket[s].open /\ listeners > 0 =>
                     socket'[s].inbox = Append(socket[s].inbox, latest')
         /\ page' \in [Pages -> Page]
         /\ \A p \in Pages :
               \/ page'[p] = page[p]
               \/ /\ page[p].at = "away" /\ page'[p].at = "loaded"
                  /\ page'[p].socket = None /\ ~page'[p].timer /\ page'[p].live = latest'
<1> DEFINE snapshot == [diagnostics |-> refresh[r].diagnostics, mcpRuntime |-> refresh[r].mcpRuntime]
           sent == IF snapshot = latest THEN socket ELSE Broadcast(snapshot)
<1>1. /\ snapshot \in Snapshot /\ snapshot.mcpRuntime = refresh[r].mcpRuntime
      /\ refresh[r].mcpRuntime # None /\ refresh[r].busy
  BY DEF UpdateDashboardSnapshot, Read, Typed, Refresh, Snapshot
<1>2. /\ latest' = snapshot /\ refresh' = [refresh EXCEPT ![r] = Idle]
      /\ socket' = IF r \in Sockets THEN [sent EXCEPT ![r].at = "send", ![r].carry = snapshot] ELSE sent
      /\ page' = IF refresh[r].for = None \/ page[refresh[r].for].at # "away" THEN page
                 ELSE [page EXCEPT ![refresh[r].for] = [NoPage EXCEPT !.at = "loaded", !.live = snapshot]]
  BY DEF UpdateDashboardSnapshot
<1> HIDE DEF snapshot
<1>3. /\ sent \in [Sockets -> Socket]
      /\ \A s \in Sockets :
            /\ sent[s].open = socket[s].open /\ sent[s].at = socket[s].at /\ sent[s].carry = socket[s].carry
            /\ sent[s].inbox \in {socket[s].inbox, Append(socket[s].inbox, snapshot)}
            /\ snapshot # latest /\ s \in clients /\ socket[s].open /\ listeners > 0 =>
                  sent[s].inbox = Append(socket[s].inbox, snapshot)
  <2>1. CASE snapshot = latest
    BY <2>1 DEF Typed
  <2>2. CASE snapshot # latest
    BY <1>1, <2>2, Broadcasting
  <2>3. QED
    BY <2>1, <2>2
<1> HIDE DEF sent
<1>4. /\ socket' \in [Sockets -> Socket]
      /\ \A s \in Sockets :
            /\ socket'[s].open = sent[s].open /\ socket'[s].inbox = sent[s].inbox
            /\ socket'[s].at = IF s = r THEN "send" ELSE sent[s].at
            /\ socket'[s].carry = IF s = r THEN snapshot ELSE sent[s].carry
  <2>1. CASE r \notin Sockets
    BY <1>2, <1>3, <2>1
  <2>2. CASE r \in Sockets
    <3> DEFINE k == [sent[r] EXCEPT !.at = "send", !.carry = snapshot]
    <3>1. /\ k \in Socket /\ k.open = sent[r].open /\ k.inbox = sent[r].inbox
          /\ k.at = "send" /\ k.carry = snapshot
      <4>1. PICK q : q = sent[r]
        OBVIOUS
      <4>2. q \in Socket /\ snapshot \in Snapshot
        BY <1>1, <1>3, <2>2, <4>1
      <4>3. LET b == [q EXCEPT !.at = "send", !.carry = snapshot]
            IN  /\ b \in Socket /\ b.open = q.open /\ b.inbox = q.inbox
                /\ b.at = "send" /\ b.carry = snapshot
        BY ONLY <4>2, Zenon DEF Socket
      <4>4. QED
        BY <4>1, <4>3
    <3>2. socket' = [sent EXCEPT ![r] = k]
      BY <1>2, <2>2
    <3> HIDE DEF k
    <3>3. QED
      BY <1>3, <2>2, <3>1, <3>2
  <2>3. QED
    BY <2>1, <2>2
<1>5. /\ page' \in [Pages -> Page]
      /\ \A p \in Pages :
            \/ page'[p] = page[p]
            \/ /\ page[p].at = "away" /\ page'[p].at = "loaded"
               /\ page'[p].socket = None /\ ~page'[p].timer /\ page'[p].live = snapshot
  <2> DEFINE k == [NoPage EXCEPT !.at = "loaded", !.live = snapshot]
  <2>1. k \in Page /\ k.at = "loaded" /\ k.socket = None /\ ~k.timer /\ k.live = snapshot
    BY <1>1, BlankTypes DEF NoPage, Page
  <2>2. \/ page' = page
        \/ /\ refresh[r].for # None /\ page[refresh[r].for].at = "away"
           /\ page' = [page EXCEPT ![refresh[r].for] = k]
    BY <1>2
  <2> HIDE DEF k
  <2>3. QED
    BY <2>1, <2>2 DEF Typed
<1>6. QED
  BY <1>1, <1>2, <1>3, <1>4, <1>5

\* A websocket in the new stage k, where the refreshes do not change.
LEMMA RuntimeIsTyped ==
  ASSUME Typed
  PROVE  /\ RuntimeInfo \in Runtime /\ RuntimeInfo # None
         /\ RuntimeInfo = 0 \/ (lastBeat # None /\ RuntimeInfo = lastBeat + HeartbeatStaleSeconds)
BY Constants DEF RuntimeInfo, Runtime, Typed, Time

\* A websocket is opened, in a slot that was free.
LEMMA Opening ==
  ASSUME Typed, NEW p \in Pages, Mounts(p) \/ Reconnects(p)
  PROVE  /\ opens' = opens + 1 /\ opens' \in 0..MaxOpens
         /\ socket' \in [Sockets -> Socket]
         /\ \E s \in Sockets :
               /\ Free(s)
               /\ \A t \in Sockets \ {s} : socket'[t] = socket[t]
               /\ socket'[s].at = "upgrade" /\ socket'[s].carry = None /\ socket'[s].inbox = <<>>
         /\ page' \in [Pages -> Page]
         /\ \A q \in Pages \ {p} : page'[q] = page[q]
         /\ page'[p].socket # None /\ page'[p].live = page[p].live
         /\ page'[p].at = "mounted" \/ (page[p].timer /\ page'[p].at = page[p].at)
<1>1. PICK pages \in [Pages -> Page] :
        /\ OpenDashboardSocket(pages, p)
        /\ \A q \in Pages \ {p} : pages[q] = page[q]
        /\ pages[p].live = page[p].live
        /\ pages[p].at = "mounted" \/ (page[p].timer /\ pages[p].at = page[p].at)
  <2>1. CASE Mounts(p)
    <3> DEFINE k == [page[p] EXCEPT !.at = "mounted", !.now = clock]
    <3>1. k \in Page /\ k.live = page[p].live /\ k.at = "mounted"
      BY DEF Typed, Page
    <3>2. OpenDashboardSocket([page EXCEPT ![p] = k], p)
      BY <2>1 DEF Mounts
    <3> HIDE DEF k
    <3> DEFINE pages == [page EXCEPT ![p] = k]
    <3>3. /\ pages \in [Pages -> Page] /\ pages[p] = k
          /\ \A q \in Pages \ {p} : pages[q] = page[q]
      BY <3>1 DEF Typed
    <3> HIDE DEF pages
    <3>4. QED
      BY <3>1, <3>2, <3>3 DEF pages
  <2>2. CASE Reconnects(p)
    <3> DEFINE k == [page[p] EXCEPT !.timer = FALSE]
    <3>1. k \in Page /\ k.live = page[p].live /\ k.at = page[p].at
      BY DEF Typed, Page
    <3>2. OpenDashboardSocket([page EXCEPT ![p] = k], p) /\ page[p].timer
      BY <2>2 DEF Reconnects
    <3> HIDE DEF k
    <3> DEFINE pages == [page EXCEPT ![p] = k]
    <3>3. /\ pages \in [Pages -> Page] /\ pages[p] = k
          /\ \A q \in Pages \ {p} : pages[q] = page[q]
      BY <3>1 DEF Typed
    <3> HIDE DEF pages
    <3>4. QED
      BY <3>1, <3>2, <3>3 DEF pages
  <2>3. QED
    BY <2>1, <2>2
<1>2. PICK s \in Sockets :
        /\ Free(s)
        /\ socket' = [socket EXCEPT ![s] = [NoSocket EXCEPT !.open = TRUE, !.at = "upgrade"]]
        /\ page' = [pages EXCEPT ![p].socket = s]
  BY <1>1 DEF OpenDashboardSocket
<1> DEFINE k == [NoSocket EXCEPT !.open = TRUE, !.at = "upgrade"]
<1>3. k \in Socket /\ k.at = "upgrade" /\ k.carry = None /\ k.inbox = <<>>
  <2>1. k \in Socket
    BY BlankTypes DEF Socket
  <2>2. k.at = "upgrade" /\ k.carry = None /\ k.inbox = <<>>
    BY DEF NoSocket
  <2>3. QED
    BY <2>1, <2>2
<1>4. socket' = [socket EXCEPT ![s] = k]
  BY <1>2
<1> HIDE DEF k
<1>5. /\ socket' \in [Sockets -> Socket] /\ \A t \in Sockets \ {s} : socket'[t] = socket[t]
      /\ socket'[s].at = "upgrade" /\ socket'[s].carry = None /\ socket'[s].inbox = <<>>
  BY <1>3, <1>4 DEF Typed
<1> DEFINE j == [pages[p] EXCEPT !.socket = s]
<1>6. j \in Page /\ j.socket = s /\ j.live = pages[p].live /\ j.at = pages[p].at
  BY <1>1 DEF Page
<1>7. page' = [pages EXCEPT ![p] = j]
  BY <1>2
<1> HIDE DEF j
<1>8. /\ page' \in [Pages -> Page] /\ \A q \in Pages \ {p} : page'[q] = page[q]
      /\ page'[p].socket # None /\ page'[p].live = page[p].live
      /\ page'[p].at = "mounted" \/ (page[p].timer /\ page'[p].at = page[p].at)
  BY <1>1, <1>6, <1>7, Constants
<1>9. opens' = opens + 1 /\ opens' \in 0..MaxOpens
  BY <1>1, Constants DEF OpenDashboardSocket, Typed
<1>10. QED
  BY <1>2, <1>5, <1>8, <1>9

\* How the server takes the websocket s from one stage to another.
Stage(s) ==
    \/ /\ socket[s].at \in {"upgrade", "send"} /\ socket'[s].at = "none"
       /\ UNCHANGED <<refresh, clients, unsubscribe, listeners>>
    \/ /\ socket[s].at = "upgrade" /\ socket'[s].at = IF unsubscribe THEN "get" ELSE "subscribe"
       /\ clients' = clients \cup {s}
       /\ UNCHANGED <<refresh, unsubscribe, listeners>>
    \/ /\ socket[s].at = "subscribe" /\ socket'[s].at = "get"
       /\ unsubscribe' = TRUE /\ listeners' = listeners + 1
       /\ UNCHANGED <<refresh, clients>>
    \/ /\ socket[s].at = "get" /\ socket'[s].at = "send"
       /\ UNCHANGED <<refresh, clients, unsubscribe, listeners>>
    \/ /\ socket[s].at = "get" /\ socket'[s].at = "load"
       /\ refresh' = [refresh EXCEPT ![s] = Reading]
       /\ UNCHANGED <<clients, unsubscribe, listeners>>
    \/ /\ socket'[s].at = socket[s].at
       /\ UNCHANGED <<refresh, clients, unsubscribe, listeners>>

\* What it carries and sends meanwhile.
Carries(s) ==
    /\ socket'[s].at = "send" => socket'[s].carry \in Snapshot
    /\ socket'[s].carry \in {socket[s].carry, latest, None}
    /\ \/ socket'[s].inbox = socket[s].inbox
       \/ /\ socket[s].carry \in Snapshot
          /\ socket'[s].inbox = Append(socket[s].inbox, socket[s].carry)

LEMMA Serving ==
  ASSUME Typed, NEW s \in Sockets,
         \/ Rejects(s) \/ Accepts(s) \/ StartDashboardSubscription(s)
         \/ GetDashboardStatusSnapshot(s) \/ SendRawMessage(s) \/ Breaks(s)
  PROVE  /\ UNCHANGED <<world, latest, page, opens>>
         /\ socket' \in [Sockets -> Socket]
         /\ \A t \in Sockets \ {s} : socket'[t] = socket[t]
         /\ Stage(s) /\ Carries(s)
<1>0. socket[s] \in Socket /\ (socket[s].at = "send" => socket[s].carry \in Snapshot)
      /\ latest \in Snapshot \cup {None}
  BY DEF Typed
<1>1. UNCHANGED <<world, latest, page, opens>>
  BY DEF Rejects, Accepts, StartDashboardSubscription, GetDashboardStatusSnapshot,
         SendRawMessage, Breaks, server
<1>2. SUFFICES \E k \in Socket : socket' = [socket EXCEPT ![s] = k]
                 /\ (k = socket'[s] => Stage(s) /\ Carries(s))
  BY <1>1 DEF Typed
<1>3. CASE Rejects(s)
  <2> DEFINE k == [socket[s] EXCEPT !.at = "none", !.open = FALSE]
  <2>1. k \in Socket /\ k.at = "none" /\ k.carry = socket[s].carry /\ k.inbox = socket[s].inbox
    BY <1>0 DEF Socket
  <2>2. /\ socket' = [socket EXCEPT ![s] = k] /\ socket[s].at = "upgrade"
        /\ UNCHANGED <<refresh, clients, unsubscribe, listeners>>
    BY <1>3 DEF Rejects, server
  <2> HIDE DEF k
  <2>3. QED
    BY <2>1, <2>2 DEF Stage, Carries
<1>4. CASE Accepts(s)
  <2> DEFINE at == IF unsubscribe THEN "get" ELSE "subscribe"
             k == [socket[s] EXCEPT !.at = at]
  <2>1. k \in Socket /\ k.at = at /\ k.carry = socket[s].carry /\ k.inbox = socket[s].inbox /\ at # "send"
    BY <1>0 DEF Socket
  <2>2. /\ socket' = [socket EXCEPT ![s] = k] /\ socket[s].at = "upgrade"
        /\ clients' = clients \cup {s} /\ UNCHANGED <<refresh, unsubscribe, listeners>>
    BY <1>4 DEF Accepts
  <2> HIDE DEF k
  <2>3. QED
    BY <2>1, <2>2 DEF Stage, Carries
<1>5. CASE StartDashboardSubscription(s)
  <2> DEFINE k == [socket[s] EXCEPT !.at = "get"]
  <2>1. k \in Socket /\ k.at = "get" /\ k.carry = socket[s].carry /\ k.inbox = socket[s].inbox
    BY <1>0 DEF Socket
  <2>2. /\ socket' = [socket EXCEPT ![s] = k] /\ socket[s].at = "subscribe"
        /\ unsubscribe' = TRUE /\ listeners' = listeners + 1 /\ UNCHANGED <<refresh, clients>>
    BY <1>5 DEF StartDashboardSubscription
  <2> HIDE DEF k
  <2>3. QED
    BY <2>1, <2>2 DEF Stage, Carries
<1>6. CASE GetDashboardStatusSnapshot(s) /\ latest # None
  <2> DEFINE k == [socket[s] EXCEPT !.at = "send", !.carry = latest]
  <2>1. k \in Socket /\ k.at = "send" /\ k.carry = latest /\ k.inbox = socket[s].inbox
    BY <1>0, <1>6 DEF Socket
  <2>2. /\ socket' = [socket EXCEPT ![s] = k] /\ socket[s].at = "get"
        /\ UNCHANGED <<refresh, clients, unsubscribe, listeners>>
    BY <1>6 DEF GetDashboardStatusSnapshot
  <2> HIDE DEF k
  <2>3. QED
    BY <1>0, <1>6, <2>1, <2>2 DEF Stage, Carries
<1>7. CASE GetDashboardStatusSnapshot(s) /\ latest = None
  <2> DEFINE k == [socket[s] EXCEPT !.at = "load"]
  <2>1. k \in Socket /\ k.at = "load" /\ k.carry = socket[s].carry /\ k.inbox = socket[s].inbox
    BY <1>0 DEF Socket
  <2>2. /\ socket' = [socket EXCEPT ![s] = k] /\ socket[s].at = "get"
        /\ refresh' = [refresh EXCEPT ![s] = Reading] /\ UNCHANGED <<clients, unsubscribe, listeners>>
    BY <1>7 DEF GetDashboardStatusSnapshot
  <2> HIDE DEF k
  <2>3. QED
    BY <2>1, <2>2 DEF Stage, Carries
<1>8. CASE SendRawMessage(s)
  <2> DEFINE inbox == IF socket[s].open THEN Append(socket[s].inbox, socket[s].carry) ELSE socket[s].inbox
             k == [socket[s] EXCEPT !.at = "none", !.carry = None, !.inbox = inbox]
  <2>1. socket[s].at = "send" /\ socket[s].carry \in Snapshot
    BY <1>0, <1>8 DEF SendRawMessage
  <2>2. inbox \in {socket[s].inbox, Append(socket[s].inbox, socket[s].carry)} /\ inbox \in Seq(Snapshot)
    BY <1>0, <2>1, Appended DEF Socket
  <2>3. socket' = [socket EXCEPT ![s] = k] /\ UNCHANGED <<refresh, clients, unsubscribe, listeners>>
    BY <1>8 DEF SendRawMessage, server
  <2> HIDE DEF inbox
  <2>4. k \in Socket /\ k.at = "none" /\ k.carry = None /\ k.inbox = inbox
    BY <1>0, <2>2 DEF Socket
  <2> HIDE DEF k
  <2>5. QED
    BY <2>1, <2>2, <2>3, <2>4 DEF Stage, Carries
<1>9. CASE Breaks(s)
  <2> DEFINE k == [socket[s] EXCEPT !.open = FALSE]
  <2>1. k \in Socket /\ k.at = socket[s].at /\ k.carry = socket[s].carry /\ k.inbox = socket[s].inbox
    BY <1>0 DEF Socket
  <2>2. socket' = [socket EXCEPT ![s] = k] /\ UNCHANGED <<refresh, clients, unsubscribe, listeners>>
    BY <1>9 DEF Breaks, server
  <2> HIDE DEF k
  <2>3. QED
    BY <1>0, <2>1, <2>2 DEF Stage, Carries
<1>10. QED
  BY <1>3, <1>4, <1>5, <1>6, <1>7, <1>8, <1>9

\* A refresh begins or reads on; a heartbeat comes, or the access is set.
LEMMA Refreshing ==
  ASSUME Typed, NEW r \in Requests \cup Sockets,
         \/ r \in Requests /\ (RecordHeartbeat(r) \/ SetAccess(r) \/ RefreshBegins(r))
         \/ GetSummary(r) \/ GetRuntimeInfo(r)
  PROVE  /\ UNCHANGED <<clock, latest, socket, clients, unsubscribe, listeners, page, opens>>
         /\ enabled' \in BOOLEAN
         /\ \/ lastBeat' = clock /\ heartbeat' = clock
            \/ lastBeat' = lastBeat /\ heartbeat' \in {heartbeat, None}
         /\ refresh' \in [Requests \cup Sockets -> Refresh]
         /\ \A q \in Requests \cup Sockets :
               /\ refresh'[q].busy => q \in Requests \/ refresh[q].busy
               /\ refresh'[q].mcpRuntime \in {None, refresh[q].mcpRuntime, RuntimeInfo}
<1>0. refresh[r] \in Refresh /\ latest \in Snapshot \cup {None}
  BY DEF Typed
<1>1. UNCHANGED <<clock, latest, socket, clients, unsubscribe, listeners, page, opens>>
  BY DEF RecordHeartbeat, SetAccess, RefreshBegins, GetSummary, GetRuntimeInfo, world
<1>2. enabled' \in BOOLEAN
  BY DEF RecordHeartbeat, SetAccess, RefreshBegins, GetSummary, GetRuntimeInfo, world, Typed
<1>3. \/ lastBeat' = clock /\ heartbeat' = clock
      \/ lastBeat' = lastBeat /\ heartbeat' \in {heartbeat, None}
  BY DEF RecordHeartbeat, SetAccess, RefreshBegins, GetSummary, GetRuntimeInfo, world
<1>4. CASE refresh' = refresh
  BY <1>1, <1>2, <1>3, <1>4 DEF Typed
<1>5. ASSUME NEW k \in Refresh, refresh' = [refresh EXCEPT ![r] = k],
             k.busy => r \in Requests \/ refresh[r].busy,
             k.mcpRuntime \in {None, refresh[r].mcpRuntime, RuntimeInfo}
      PROVE  /\ refresh' \in [Requests \cup Sockets -> Refresh]
             /\ \A q \in Requests \cup Sockets :
                   /\ refresh'[q].busy => q \in Requests \/ refresh[q].busy
                   /\ refresh'[q].mcpRuntime \in {None, refresh[q].mcpRuntime, RuntimeInfo}
  BY <1>5 DEF Typed
<1>6. CASE r \in Requests /\ RefreshesMcp(r) /\ latest # None
  <2> DEFINE k == [Reading EXCEPT !.diagnostics = latest.diagnostics]
  <2>1. k \in Refresh /\ k.mcpRuntime = None
    BY <1>0, <1>6 DEF Reading, Idle, Refresh, Snapshot
  <2>2. refresh' = [refresh EXCEPT ![r] = k]
    BY <1>6 DEF RefreshesMcp
  <2> HIDE DEF k
  <2>3. QED
    BY <1>1, <1>2, <1>3, <1>5, <1>6, <2>1, <2>2
<1>7. CASE r \in Requests /\ RefreshBegins(r)
  <2>1. PICK p \in Pages \cup {None} : refresh' = [refresh EXCEPT ![r] = [Reading EXCEPT !.for = p]]
    BY <1>7 DEF RefreshBegins
  <2> DEFINE k == [Reading EXCEPT !.for = p]
  <2>2. k \in Refresh /\ k.mcpRuntime = None
    BY DEF Reading, Idle, Refresh
  <2>3. refresh' = [refresh EXCEPT ![r] = k]
    BY <2>1
  <2> HIDE DEF k
  <2>4. QED
    BY <1>1, <1>2, <1>3, <1>5, <1>7, <2>2, <2>3
<1>8. CASE GetSummary(r)
  <2>1. PICK found \in Diagnostics : refresh' = [refresh EXCEPT ![r].diagnostics = found]
    BY <1>8 DEF GetSummary
  <2> DEFINE k == [refresh[r] EXCEPT !.diagnostics = found]
  <2>2. k \in Refresh /\ k.mcpRuntime = refresh[r].mcpRuntime /\ k.busy = refresh[r].busy
    BY <1>0 DEF Refresh
  <2>3. refresh' = [refresh EXCEPT ![r] = k]
    BY <2>1
  <2> HIDE DEF k
  <2>4. QED
    BY <1>1, <1>2, <1>3, <1>5, <2>2, <2>3
<1>9. CASE GetRuntimeInfo(r)
  <2> DEFINE k == [refresh[r] EXCEPT !.mcpRuntime = RuntimeInfo]
  <2>1. k \in Refresh /\ k.mcpRuntime = RuntimeInfo /\ k.busy = refresh[r].busy
    BY <1>0, RuntimeIsTyped DEF Refresh
  <2>2. refresh' = [refresh EXCEPT ![r] = k]
    BY <1>9 DEF GetRuntimeInfo
  <2> HIDE DEF k
  <2>3. QED
    BY <1>1, <1>2, <1>3, <1>5, <2>1, <2>2
<1>10. QED
  BY <1>4, <1>6, <1>7, <1>8, <1>9 DEF RecordHeartbeat, SetAccess, RefreshesMcp

LEMMA Failing ==
  ASSUME Typed, NEW r \in Requests \cup Sockets, RefreshFails(r)
  PROVE  /\ UNCHANGED <<world, latest, clients, unsubscribe, listeners, page, opens>>
         /\ refresh' = [refresh EXCEPT ![r] = Idle] /\ refresh[r].busy
         /\ socket' \in [Sockets -> Socket]
         /\ \A s \in Sockets :
               /\ socket'[s].at = IF s = r THEN "none" ELSE socket[s].at
               /\ socket'[s].carry = socket[s].carry /\ socket'[s].inbox = socket[s].inbox
<1>1. /\ UNCHANGED <<world, latest, clients, unsubscribe, listeners, page, opens>>
      /\ refresh' = [refresh EXCEPT ![r] = Idle] /\ refresh[r].busy
      /\ socket' = IF r \in Sockets THEN [socket EXCEPT ![r].at = "none", ![r].open = FALSE] ELSE socket
  BY DEF RefreshFails
<1>2. CASE r \notin Sockets
  BY <1>1, <1>2 DEF Typed
<1>3. CASE r \in Sockets
  <2> DEFINE k == [socket[r] EXCEPT !.at = "none", !.open = FALSE]
  <2>1. k \in Socket /\ k.at = "none" /\ k.carry = socket[r].carry /\ k.inbox = socket[r].inbox
    BY <1>3 DEF Typed, Socket
  <2>2. socket' = [socket EXCEPT ![r] = k]
    BY <1>1, <1>3
  <2> HIDE DEF k
  <2>3. QED
    BY <1>1, <1>3, <2>1, <2>2 DEF Typed
<1>4. QED
  BY <1>2, <1>3

\* The page's own steps: messages only leave an inbox.
LEMMA Viewing ==
  ASSUME Typed, NEW p \in Pages,
         StatusClock(p) \/ HandleDashboardMessage(p) \/ SocketCloses(p) \/ Unmounts(p)
  PROVE  /\ UNCHANGED <<world, server, opens>>
         /\ socket' \in [Sockets -> Socket]
         /\ \A s \in Sockets :
               /\ socket'[s].at = socket[s].at /\ socket'[s].carry = socket[s].carry
               /\ \A i \in 1..Len(socket'[s].inbox) :
                     \E j \in 1..Len(socket[s].inbox) : socket'[s].inbox[i] = socket[s].inbox[j]
         /\ page' \in [Pages -> Page]
         /\ \A q \in Pages \ {p} : page'[q] = page[q]
         /\ \/ page'[p].live \in {page[p].live, None}
            \/ \E s \in Sockets : \E j \in 1..Len(socket[s].inbox) : page'[p].live = socket[s].inbox[j]
         /\ \/ page'[p].at = page[p].at /\ page'[p].socket = page[p].socket
               /\ (page'[p].timer = page[p].timer \/ page[p].socket # None)
            \/ page'[p].at = page[p].at /\ page[p].socket # None /\ page'[p].timer
            \/ page'[p].at = "away" /\ page'[p].socket = None /\ ~page'[p].timer
<1> DEFINE s == page[p].socket
<1>0. /\ page[p] \in Page /\ s \in Sockets \cup {None} /\ clock \in Time
      /\ \A t \in Sockets : socket[t] \in Socket /\ socket[t].inbox \in Seq(Snapshot)
  BY DEF Typed, Page, Socket
<1> HIDE DEF s
<1>1. UNCHANGED <<world, server, opens>>
  BY DEF StatusClock, HandleDashboardMessage, SocketCloses, Unmounts
<1>2. CASE StatusClock(p)
  <2> DEFINE k == [page[p] EXCEPT !.now = clock]
  <2>1. /\ k \in Page /\ k.at = page[p].at /\ k.socket = page[p].socket /\ k.timer = page[p].timer
        /\ k.live = page[p].live
    BY <1>0 DEF Page
  <2>2. page' = [page EXCEPT ![p] = k] /\ socket' = socket
    BY <1>2 DEF StatusClock
  <2> HIDE DEF k
  <2>3. QED
    BY <1>1, <2>1, <2>2 DEF Typed
<1>3. CASE HandleDashboardMessage(p)
  <2> DEFINE k == [page[p] EXCEPT !.live = Head(socket[s].inbox), !.timer = FALSE]
             m == [socket[s] EXCEPT !.inbox = Tail(socket[s].inbox)]
  <2>1. s \in Sockets /\ socket[s].inbox \in Seq(Snapshot) /\ socket[s].inbox # <<>>
    BY <1>0, <1>3 DEF HandleDashboardMessage, s
  <2>2. /\ Head(socket[s].inbox) \in Snapshot /\ Tail(socket[s].inbox) \in Seq(Snapshot)
        /\ 1 \in 1..Len(socket[s].inbox) /\ Head(socket[s].inbox) = socket[s].inbox[1]
        /\ \A i \in 1..Len(Tail(socket[s].inbox)) :
              i + 1 \in 1..Len(socket[s].inbox) /\ Tail(socket[s].inbox)[i] = socket[s].inbox[i + 1]
    BY <2>1
  <2>3. /\ page' = [page EXCEPT ![p] = k] /\ socket' = [socket EXCEPT ![s] = m]
    BY <1>3 DEF HandleDashboardMessage, s
  <2>4. /\ k \in Page /\ k.at = page[p].at /\ k.socket = page[p].socket /\ k.live = Head(socket[s].inbox)
    BY <1>0, <2>2 DEF Page
  <2>5. m \in Socket /\ m.at = socket[s].at /\ m.carry = socket[s].carry /\ m.inbox = Tail(socket[s].inbox)
    BY <1>0, <2>1, <2>2 DEF Socket
  <2> HIDE DEF k, m
  <2>6. socket' \in [Sockets -> Socket] /\ socket'[s] = m /\ \A t \in Sockets \ {s} : socket'[t] = socket[t]
    BY <2>1, <2>3, <2>5 DEF Typed
  <2>7. page' \in [Pages -> Page] /\ page'[p] = k /\ \A q \in Pages \ {p} : page'[q] = page[q]
    BY <2>3, <2>4 DEF Typed
  <2>8. page[p].socket # None
    BY <1>3 DEF HandleDashboardMessage
  <2>9. \A t \in Sockets : \A i \in 1..Len(socket'[t].inbox) :
          \E j \in 1..Len(socket[t].inbox) : socket'[t].inbox[i] = socket[t].inbox[j]
    <3>1. ASSUME NEW t \in Sockets, t # s, NEW i \in 1..Len(socket'[t].inbox)
          PROVE  i \in 1..Len(socket[t].inbox) /\ socket'[t].inbox[i] = socket[t].inbox[i]
      BY <2>6, <3>1
    <3>2. ASSUME NEW i \in 1..Len(socket'[s].inbox)
          PROVE  i + 1 \in 1..Len(socket[s].inbox) /\ socket'[s].inbox[i] = socket[s].inbox[i + 1]
      <4>1. socket'[s].inbox = Tail(socket[s].inbox)
        BY <2>5, <2>6
      <4>2. QED
        BY <2>2, <3>2, <4>1
    <3>3. QED
      BY <3>1, <3>2
  <2>10. QED
    BY <1>1, <2>1, <2>2, <2>4, <2>5, <2>6, <2>7, <2>8, <2>9
<1>4. CASE SocketCloses(p)
  <2> DEFINE k == [page[p] EXCEPT !.socket = None, !.timer = TRUE]
  <2>1. k \in Page /\ k.at = page[p].at /\ k.timer /\ k.live = page[p].live
    BY <1>0 DEF Page
  <2>2. page' = [page EXCEPT ![p] = k] /\ socket' = socket /\ page[p].socket # None
    BY <1>4 DEF SocketCloses
  <2> HIDE DEF k
  <2>3. QED
    BY <1>1, <2>1, <2>2 DEF Typed
<1>5. CASE Unmounts(p)
  <2> DEFINE m == [socket[s] EXCEPT !.open = FALSE, !.inbox = <<>>]
  <2>1. ASSUME s \in Sockets
        PROVE  m \in Socket /\ m.at = socket[s].at /\ m.carry = socket[s].carry /\ m.inbox = <<>>
    <3>1. socket[s] \in Socket /\ <<>> \in Seq(Snapshot)
      BY <1>0, <2>1
    <3>2. QED
      BY <3>1 DEF Socket
  <2>2. page' = [page EXCEPT ![p] = NoPage] /\ socket' = IF s = None THEN socket ELSE [socket EXCEPT ![s] = m]
    BY <1>5 DEF Unmounts, s
  <2> HIDE DEF m
  <2>3. /\ socket' \in [Sockets -> Socket]
        /\ \A t \in Sockets : /\ socket'[t].at = socket[t].at /\ socket'[t].carry = socket[t].carry
                              /\ socket'[t].inbox = socket[t].inbox \/ socket'[t].inbox = <<>>
    BY <1>0, <2>1, <2>2 DEF Typed
  <2>4. \A t \in Sockets : \A i \in 1..Len(socket'[t].inbox) :
          \E j \in 1..Len(socket[t].inbox) : socket'[t].inbox[i] = socket[t].inbox[j]
    BY <2>3
  <2>5. page' \in [Pages -> Page] /\ page'[p] = NoPage /\ \A q \in Pages \ {p} : page'[q] = page[q]
    BY <2>2, BlankTypes DEF Typed
  <2>6. QED
    BY <1>1, <2>3, <2>4, <2>5, BlankTypes
<1>6. QED
  BY <1>2, <1>3, <1>4, <1>5

\* The steps, as the proofs below tell them apart.
LEMMA Cases ==
  ASSUME [Next]_vars
  PROVE  \/ Tick \/ Restart \/ UNCHANGED vars
         \/ \E r \in Requests \cup Sockets :
               \/ r \in Requests /\ (RecordHeartbeat(r) \/ SetAccess(r) \/ RefreshBegins(r))
               \/ GetSummary(r) \/ GetRuntimeInfo(r)
         \/ \E r \in Requests \cup Sockets : UpdateDashboardSnapshot(r)
         \/ \E r \in Requests \cup Sockets : RefreshFails(r)
         \/ \E s \in Sockets :
               \/ Rejects(s) \/ Accepts(s) \/ StartDashboardSubscription(s)
               \/ GetDashboardStatusSnapshot(s) \/ SendRawMessage(s) \/ Breaks(s)
         \/ \E s \in Sockets : CloseClient(s)
         \/ \E p \in Pages : Mounts(p) \/ Reconnects(p)
         \/ \E p \in Pages : StatusClock(p) \/ HandleDashboardMessage(p) \/ SocketCloses(p) \/ Unmounts(p)
BY DEF Next

LEMMA Leaving ==
  ASSUME Typed, Subscribed, NEW s \in Sockets, CloseClient(s)
  PROVE  /\ UNCHANGED <<world, latest, refresh, socket, page, opens>>
         /\ clients' = clients \ {s}
         /\ \/ UNCHANGED <<unsubscribe, listeners>>
            \/ clients' = {} /\ unsubscribe' = FALSE /\ listeners' = listeners - 1 /\ listeners > 0
BY DEF CloseClient, StopDashboardSubscription, Subscribed

LEMMA Restarting ==
  ASSUME Typed, Restart
  PROVE  /\ UNCHANGED <<clock, enabled, lastBeat, page, opens>>
         /\ heartbeat' = None /\ latest' = None /\ clients' = {} /\ unsubscribe' = FALSE /\ listeners' = 0
         /\ refresh' = [r \in Requests \cup Sockets |-> Idle]
         /\ socket' \in [Sockets -> Socket]
         /\ \A s \in Sockets : /\ socket'[s].at = "none" /\ socket'[s].carry = None
                               /\ socket'[s].inbox = socket[s].inbox
<1>1. \A s \in Sockets : LET k == [NoSocket EXCEPT !.inbox = socket[s].inbox]
        IN k \in Socket /\ k.at = "none" /\ k.carry = None /\ k.inbox = socket[s].inbox
  BY DEF NoSocket, Socket, Typed
<1>2. QED
  BY <1>1 DEF Restart

LEMMA StepTyped == ASSUME Typed, Subscribed, [Next]_vars PROVE Typed'
<1> USE DEF Typed
<1>1. CASE Tick
  BY <1>1, Constants DEF Tick, server, Time
<1>2. CASE Restart
  <2>1. refresh' \in [Requests \cup Sockets -> Refresh] /\ 0 \in Nat
    BY <1>2, Restarting, BlankTypes
  <2>2. QED
    BY <1>2, <2>1, Restarting
<1>3. CASE UNCHANGED vars
  BY <1>3 DEF vars, world, server
<1>4. ASSUME NEW r \in Requests \cup Sockets,
             \/ r \in Requests /\ (RecordHeartbeat(r) \/ SetAccess(r) \/ RefreshBegins(r))
             \/ GetSummary(r) \/ GetRuntimeInfo(r)
      PROVE  Typed'
  BY <1>4, Refreshing
<1>5. ASSUME NEW r \in Requests \cup Sockets, UpdateDashboardSnapshot(r) PROVE Typed'
  <2>1. UNCHANGED <<world, clients, unsubscribe, listeners, opens>>
    BY <1>5 DEF UpdateDashboardSnapshot
  <2>2. refresh' \in [Requests \cup Sockets -> Refresh]
    BY <1>5, Updating, BlankTypes
  <2>3. \A s \in Sockets : socket'[s].at = "send" => socket'[s].carry \in Snapshot
    BY <1>5, Updating
  <2>4. QED
    BY <1>5, <2>1, <2>2, <2>3, Updating DEF world
<1>6. ASSUME NEW r \in Requests \cup Sockets, RefreshFails(r) PROVE Typed'
  <2>1. refresh' \in [Requests \cup Sockets -> Refresh]
    BY <1>6, Failing, BlankTypes
  <2>2. \A s \in Sockets : socket'[s].at = "send" => socket'[s].carry \in Snapshot
    BY <1>6, Failing
  <2>3. QED
    BY <1>6, <2>1, <2>2, Failing DEF world
<1>7. ASSUME NEW s \in Sockets,
             \/ Rejects(s) \/ Accepts(s) \/ StartDashboardSubscription(s)
             \/ GetDashboardStatusSnapshot(s) \/ SendRawMessage(s) \/ Breaks(s)
      PROVE  Typed'
  <2>1. Stage(s) /\ Carries(s)
    BY <1>7, Serving
  <2>2. refresh' \in [Requests \cup Sockets -> Refresh]
    BY <2>1, BlankTypes DEF Stage
  <2>3. clients' \subseteq Sockets
    BY <2>1 DEF Stage
  <2>4. \/ unsubscribe' = TRUE /\ listeners' = listeners + 1
        \/ unsubscribe' = unsubscribe /\ listeners' = listeners
    BY <2>1 DEF Stage
  <2>5. listeners + 1 \in Nat
    OBVIOUS
  <2>6. unsubscribe' \in BOOLEAN /\ listeners' \in Nat
    BY <2>4, <2>5
  <2>7. QED
    BY <1>7, <2>1, <2>2, <2>3, <2>6, Serving DEF world, Carries
<1>8. ASSUME NEW s \in Sockets, CloseClient(s) PROVE Typed'
  <2>1. \/ unsubscribe' = unsubscribe /\ listeners' = listeners
        \/ unsubscribe' = FALSE /\ listeners' = listeners - 1 /\ listeners > 0
    BY <1>8, Leaving
  <2>2. listeners > 0 => listeners - 1 \in Nat
    OBVIOUS
  <2>3. unsubscribe' \in BOOLEAN /\ listeners' \in Nat
    BY <2>1, <2>2
  <2>4. QED
    BY <1>8, <2>3, Leaving DEF world
<1>9. ASSUME NEW p \in Pages, Mounts(p) \/ Reconnects(p) PROVE Typed'
  <2>1. UNCHANGED <<world, server>>
    BY <1>9 DEF Mounts, Reconnects
  <2>2. \A s \in Sockets : socket'[s].at = "send" => socket'[s].carry \in Snapshot
    BY <1>9, Opening
  <2>3. QED
    BY <1>9, <2>1, <2>2, Opening DEF world, server
<1>10. ASSUME NEW p \in Pages,
              StatusClock(p) \/ HandleDashboardMessage(p) \/ SocketCloses(p) \/ Unmounts(p)
       PROVE  Typed'
  BY <1>10, Viewing DEF world, server
<1>11. QED
  BY <1>1, <1>2, <1>3, <1>4, <1>5, <1>6, <1>7, <1>8, <1>9, <1>10, Cases

-----------------------------------------------------------------------------
(* The subscription *)

LEMMA StepSubscribed == ASSUME Typed, Subscribed, [Next]_vars PROVE Subscribed'
<1>1. CASE Tick \/ UNCHANGED vars
  BY <1>1 DEF Tick, vars, server, Subscribed
<1>2. CASE Restart
  BY <1>2, Restarting, BlankTypes DEF Subscribed
<1>3. ASSUME NEW r \in Requests \cup Sockets,
             \/ r \in Requests /\ (RecordHeartbeat(r) \/ SetAccess(r) \/ RefreshBegins(r))
             \/ GetSummary(r) \/ GetRuntimeInfo(r)
      PROVE  Subscribed'
  <2>1. UNCHANGED <<socket, clients, unsubscribe, listeners>>
    BY <1>3, Refreshing
  <2>2. \A s \in Sockets : refresh'[s].busy => refresh[s].busy
    BY <1>3, Refreshing, Constants
  <2>3. QED
    BY <2>1, <2>2 DEF Subscribed
<1>4. ASSUME NEW r \in Requests \cup Sockets, UpdateDashboardSnapshot(r) \/ RefreshFails(r)
      PROVE  Subscribed'
  <2>1. UNCHANGED <<clients, unsubscribe, listeners>>
    BY <1>4 DEF UpdateDashboardSnapshot, RefreshFails
  <2>2. refresh[r].busy /\ refresh' = [refresh EXCEPT ![r] = Idle]
    BY <1>4, Updating, Failing
  <2>3. \A s \in Sockets : IF s = r THEN socket'[s].at \in {"send", "none"}
                                    ELSE socket'[s].at = socket[s].at
    BY <1>4, Updating, Failing
  <2>4. \A s \in Sockets : refresh'[s].busy => s # r /\ refresh[s].busy
    BY <2>2, BlankTypes DEF Typed
  <2>5. \A s \in Sockets : s = r => socket[s].at = "load"
    BY <2>2 DEF Subscribed
  <2>6. QED
    BY <2>1, <2>3, <2>4, <2>5 DEF Subscribed, Typed
<1>5. ASSUME NEW s \in Sockets,
             \/ Rejects(s) \/ Accepts(s) \/ StartDashboardSubscription(s)
             \/ GetDashboardStatusSnapshot(s) \/ SendRawMessage(s) \/ Breaks(s)
      PROVE  Subscribed'
  <2>1. Stage(s) /\ \A t \in Sockets \ {s} : socket'[t] = socket[t]
    BY <1>5, Serving
  <2>2. \A t \in Sockets \ {s} : refresh'[t] = refresh[t]
    BY <2>1 DEF Stage, Typed
  <2>3. refresh'[s].busy => socket'[s].at = "load"
    BY <2>1 DEF Stage, Subscribed
  <2>4. unsubscribe' => listeners' > 0
    <3>1. \/ listeners' = listeners + 1
          \/ unsubscribe' = unsubscribe /\ listeners' = listeners
      BY <2>1 DEF Stage
    <3>2. listeners + 1 > 0
      BY DEF Typed
    <3>3. QED
      BY <3>1, <3>2 DEF Subscribed
  <2>5. \A t \in Sockets : socket'[t].at = "upgrade" => t \notin clients'
    BY <2>1 DEF Stage, Subscribed
  <2>6. \A t \in clients' : socket'[t].at \notin {"upgrade", "subscribe"} => unsubscribe'
    <3>1. ASSUME NEW t \in clients', t # s, socket'[t].at \notin {"upgrade", "subscribe"}
          PROVE  unsubscribe'
      <4>1. t \in clients /\ socket[t].at \notin {"upgrade", "subscribe"}
        BY <2>1, <3>1 DEF Stage, Typed
      <4>2. unsubscribe /\ (unsubscribe' = unsubscribe \/ unsubscribe' = TRUE)
        BY <2>1, <4>1 DEF Stage, Subscribed
      <4>3. QED
        BY <4>2
    <3>2. ASSUME s \in clients', socket'[s].at \notin {"upgrade", "subscribe"}
          PROVE  unsubscribe'
      <4>1. CASE socket[s].at = "upgrade" /\ socket'[s].at = IF unsubscribe THEN "get" ELSE "subscribe"
        BY <2>1, <3>2, <4>1 DEF Stage
      <4>2. CASE unsubscribe' = TRUE
        BY <4>2
      <4>3. CASE s \in clients /\ socket[s].at \notin {"upgrade", "subscribe"} /\ unsubscribe' = unsubscribe
        BY <4>3 DEF Subscribed
      <4>4. QED
        BY <2>1, <3>2, <4>1, <4>2, <4>3 DEF Stage, Subscribed
    <3>3. QED
      BY <3>1, <3>2
  <2>7. QED
    BY <2>1, <2>2, <2>3, <2>4, <2>5, <2>6 DEF Subscribed
<1>6. ASSUME NEW s \in Sockets, CloseClient(s) PROVE Subscribed'
  BY <1>6, Leaving DEF Subscribed, Typed
<1>7. ASSUME NEW p \in Pages, Mounts(p) \/ Reconnects(p) PROVE Subscribed'
  <2>1. UNCHANGED <<refresh, clients, unsubscribe, listeners>>
    BY <1>7 DEF Mounts, Reconnects, server
  <2>2. PICK s \in Sockets : /\ Free(s) /\ socket'[s].at = "upgrade"
                             /\ \A t \in Sockets \ {s} : socket'[t] = socket[t]
    BY <1>7, Opening
  <2>3. ~refresh[s].busy /\ s \notin clients
    BY <2>2 DEF Free, Subscribed
  <2>4. QED
    BY <2>1, <2>2, <2>3 DEF Subscribed, Typed
<1>8. ASSUME NEW p \in Pages,
             StatusClock(p) \/ HandleDashboardMessage(p) \/ SocketCloses(p) \/ Unmounts(p)
      PROVE  Subscribed'
  <2>1. UNCHANGED <<refresh, clients, unsubscribe, listeners>>
    BY <1>8, Viewing DEF server
  <2>2. \A s \in Sockets : socket'[s].at = socket[s].at
    BY <1>8, Viewing
  <2>3. QED
    BY <2>1, <2>2 DEF Subscribed, Typed
<1>9. QED
  BY <1>1, <1>2, <1>3, <1>4, <1>5, <1>6, <1>7, <1>8, Cases

-----------------------------------------------------------------------------
(* The listeners *)

LEMMA ComingCounts ==
  ASSUME NEW A, NEW B, NEW s, IsFiniteSet(B)
  PROVE  /\ Cardinality(B) \in Nat
         /\ A \subseteq B => Cardinality(A) \in Nat /\ Cardinality(A) <= Cardinality(B)
         /\ A \subseteq B \ {s} /\ s \in B => Cardinality(A) \in Nat /\ Cardinality(A) + 1 <= Cardinality(B)
         /\ A \subseteq B \cup {s} => Cardinality(A) \in Nat /\ Cardinality(A) <= Cardinality(B) + 1
<1>1. Cardinality(B) \in Nat
  BY FS_CardinalityType
<1>2. A \subseteq B => Cardinality(A) \in Nat /\ Cardinality(A) <= Cardinality(B)
  BY FS_Subset, FS_CardinalityType
<1>3. ASSUME A \subseteq B \ {s}, s \in B
      PROVE  Cardinality(A) \in Nat /\ Cardinality(A) + 1 <= Cardinality(B)
  <2>1. IsFiniteSet(B \ {s}) /\ Cardinality(B \ {s}) = Cardinality(B) - 1
    BY <1>3, FS_RemoveElement
  <2>2. IsFiniteSet(A) /\ Cardinality(A) <= Cardinality(B \ {s})
    BY <1>3, <2>1, FS_Subset
  <2>3. Cardinality(A) \in Nat
    BY <2>2, FS_CardinalityType
  <2>4. QED
    BY <1>1, <2>1, <2>2, <2>3
<1>4. ASSUME A \subseteq B \cup {s}
      PROVE  Cardinality(A) \in Nat /\ Cardinality(A) <= Cardinality(B) + 1
  <2>1. IsFiniteSet(B \cup {s}) /\ Cardinality(B \cup {s}) \in {Cardinality(B), Cardinality(B) + 1}
    BY FS_AddElement
  <2>2. IsFiniteSet(A) /\ Cardinality(A) <= Cardinality(B \cup {s})
    BY <1>4, <2>1, FS_Subset
  <2>3. Cardinality(A) \in Nat
    BY <2>2, FS_CardinalityType
  <2>4. QED
    BY <1>1, <2>1, <2>2, <2>3
<1>5. QED
  BY <1>1, <1>2, <1>3, <1>4

LEMMA StepListeners ==
  ASSUME Typed, Subscribed, ListenersBounded, [Next]_vars PROVE ListenersBounded'
<1> DEFINE Fewer == Coming' \subseteq Coming /\ opens' = opens
                    /\ (listeners' = listeners \/ listeners' = 0 \/ listeners' = listeners - 1)
<1>1. /\ IsFiniteSet(Coming) /\ listeners \in Nat /\ opens \in Nat
      /\ listeners + Cardinality(Coming) <= opens
  BY Constants, FS_Subset DEF Coming, Typed, ListenersBounded
<1>2. ASSUME Fewer PROVE ListenersBounded'
  <2>1. /\ Cardinality(Coming') \in Nat /\ Cardinality(Coming) \in Nat
        /\ Cardinality(Coming') <= Cardinality(Coming)
    BY <1>1, <1>2, ComingCounts
  <2>2. QED
    BY <1>1, <1>2, <2>1 DEF ListenersBounded
<1>3. CASE Tick \/ UNCHANGED vars
  <2>1. Fewer
    BY <1>3 DEF Tick, vars, server, Coming
  <2>2. QED
    BY <1>2, <2>1
<1>4. CASE Restart
  <2>1. Fewer
    BY <1>4, Restarting DEF Coming
  <2>2. QED
    BY <1>2, <2>1
<1>5. ASSUME NEW r \in Requests \cup Sockets,
             \/ r \in Requests /\ (RecordHeartbeat(r) \/ SetAccess(r) \/ RefreshBegins(r))
             \/ GetSummary(r) \/ GetRuntimeInfo(r)
      PROVE  ListenersBounded'
  <2>1. Fewer
    BY <1>5, Refreshing DEF Coming
  <2>2. QED
    BY <1>2, <2>1
<1>6. ASSUME NEW r \in Requests \cup Sockets, UpdateDashboardSnapshot(r) \/ RefreshFails(r)
      PROVE  ListenersBounded'
  <2>1. UNCHANGED <<listeners, opens>>
    BY <1>6 DEF UpdateDashboardSnapshot, RefreshFails
  <2>2. \A s \in Sockets : socket'[s].at \in {"send", "none"} \/ socket'[s].at = socket[s].at
    BY <1>6, Updating, Failing
  <2>3. Coming' \subseteq Coming
    BY <2>2 DEF Coming
  <2>4. QED
    BY <1>2, <2>1, <2>3
<1>7. ASSUME NEW s \in Sockets,
             \/ Rejects(s) \/ Accepts(s) \/ StartDashboardSubscription(s)
             \/ GetDashboardStatusSnapshot(s) \/ SendRawMessage(s) \/ Breaks(s)
      PROVE  ListenersBounded'
  <2>1. /\ Stage(s) /\ opens' = opens
        /\ \A t \in Sockets \ {s} : socket'[t] = socket[t]
    BY <1>7, Serving
  <2>2. CASE listeners' = listeners
    <3>1. socket'[s].at \in {"upgrade", "subscribe"} => socket[s].at \in {"upgrade", "subscribe"}
      BY <2>1 DEF Stage
    <3>2. Coming' \subseteq Coming
      BY <2>1, <3>1 DEF Coming
    <3>3. QED
      BY <1>2, <2>1, <2>2, <3>2
  <2>3. CASE listeners' = listeners + 1 /\ socket[s].at = "subscribe" /\ socket'[s].at = "get"
    <3>1. s \in Coming /\ Coming' \subseteq Coming \ {s}
      BY <2>1, <2>3 DEF Coming
    <3>2. /\ Cardinality(Coming') \in Nat /\ Cardinality(Coming) \in Nat
          /\ Cardinality(Coming') + 1 <= Cardinality(Coming)
      BY <1>1, <3>1, ComingCounts
    <3>3. QED
      BY <1>1, <2>1, <2>3, <3>2 DEF ListenersBounded
  <2>4. QED
    BY <2>1, <2>2, <2>3 DEF Stage
<1>8. ASSUME NEW s \in Sockets, CloseClient(s) PROVE ListenersBounded'
  <2>1. Fewer
    BY <1>8, Leaving DEF Coming
  <2>2. QED
    BY <1>2, <2>1
<1>9. ASSUME NEW p \in Pages, Mounts(p) \/ Reconnects(p) PROVE ListenersBounded'
  <2>1. listeners' = listeners /\ opens' = opens + 1
    BY <1>9, Opening DEF Mounts, Reconnects, server
  <2>2. PICK s \in Sockets : \A t \in Sockets \ {s} : socket'[t] = socket[t]
    BY <1>9, Opening
  <2>3. Coming' \subseteq Coming \cup {s}
    BY <2>2 DEF Coming
  <2>4. /\ Cardinality(Coming') \in Nat /\ Cardinality(Coming) \in Nat
        /\ Cardinality(Coming') <= Cardinality(Coming) + 1
    BY <1>1, <2>3, ComingCounts
  <2>5. QED
    BY <1>1, <2>1, <2>4 DEF ListenersBounded
<1>10. ASSUME NEW p \in Pages,
              StatusClock(p) \/ HandleDashboardMessage(p) \/ SocketCloses(p) \/ Unmounts(p)
       PROVE  ListenersBounded'
  <2>1. Fewer
    BY <1>10, Viewing DEF Coming, server
  <2>2. QED
    BY <1>2, <2>1
<1>11. QED
  BY <1>3, <1>4, <1>5, <1>6, <1>7, <1>8, <1>9, <1>10, Cases

-----------------------------------------------------------------------------
(* What is said of the MCP server *)

\* A heartbeat only makes what is known last longer.
LEMMA FreshLater ==
  ASSUME Typed, AllFresh, lastBeat' = lastBeat \/ lastBeat' = clock
  PROVE  \A m \in Runtime : Fresh(m) => Fresh(m)'
<1> TAKE m \in Runtime
<1>1. CASE lastBeat' = lastBeat
  BY <1>1 DEF Fresh
<1>2. CASE lastBeat' = clock /\ lastBeat # None
  <2>1. lastBeat \in Nat /\ clock \in Nat /\ lastBeat <= clock /\ m \in Nat /\ HeartbeatStaleSeconds \in Nat
    BY <1>2, Constants DEF Typed, AllFresh, Time, Runtime
  <2>2. clock # None
    BY Constants DEF Typed, Time, Runtime
  <2>3. QED
    BY <1>2, <2>1, <2>2 DEF Fresh
<1>3. CASE lastBeat = None
  BY <1>3, <1>1 DEF Fresh, Typed
<1>4. QED
  BY <1>1, <1>2, <1>3 DEF Typed

LEMMA HeldTypes ==
  ASSUME Typed
  PROVE  /\ latest # None => latest.mcpRuntime \in Runtime
         /\ \A r \in Requests \cup Sockets : refresh[r].mcpRuntime \in Runtime \cup {None}
         /\ \A s \in Sockets :
               /\ socket[s].carry # None => socket[s].carry.mcpRuntime \in Runtime
               /\ socket[s].inbox \in Seq(Snapshot)
               /\ \A i \in 1..Len(socket[s].inbox) : socket[s].inbox[i].mcpRuntime \in Runtime
         /\ \A p \in Pages : page[p].live # None => page[p].live.mcpRuntime \in Runtime
<1>1. \A x \in Snapshot : x.mcpRuntime \in Runtime
  BY DEF Snapshot
<1>2. latest \in Snapshot \cup {None} /\ \A r \in Requests \cup Sockets : refresh[r] \in Refresh
  BY DEF Typed
<1>3. \A s \in Sockets : socket[s].carry \in Snapshot \cup {None} /\ socket[s].inbox \in Seq(Snapshot)
  BY DEF Typed, Socket
<1>4. \A p \in Pages : page[p].live \in Snapshot \cup {None}
  BY DEF Typed, Page
<1>5. \A s \in Sockets : \A i \in 1..Len(socket[s].inbox) : socket[s].inbox[i] \in Snapshot
  BY <1>3
<1>6. QED
  BY <1>1, <1>2, <1>3, <1>4, <1>5 DEF Refresh

LEMMA ReadIsFresh == ASSUME Typed PROVE Fresh(RuntimeInfo)
<1>1. CASE RuntimeInfo = 0
  BY <1>1 DEF Fresh
<1>2. CASE lastBeat # None /\ RuntimeInfo = lastBeat + HeartbeatStaleSeconds
  BY <1>2, Constants DEF Fresh, Typed, Time
<1>3. QED
  BY <1>1, <1>2, RuntimeIsTyped

LEMMA StepFresh ==
  ASSUME Typed, Subscribed, AllFresh, [Next]_vars PROVE AllFresh'
<1>0. clock \in Nat /\ clock # None
  BY Constants DEF Typed, Time, Runtime
<1>1. CASE Tick
  <2>1. lastBeat # None => lastBeat \in Nat
    BY DEF Typed, Time
  <2>2. clock' = clock + 1 /\ UNCHANGED <<lastBeat, latest, refresh, socket, page>>
    BY <1>1 DEF Tick, server
  <2>3. QED
    BY <1>0, <2>1, <2>2 DEF AllFresh, Fresh
<1>2. CASE UNCHANGED vars
  BY <1>2 DEF vars, world, server, AllFresh, Fresh
<1>3. CASE Restart
  <2>1. /\ clock' = clock /\ lastBeat' = lastBeat /\ latest' = None /\ page' = page
        /\ \A r \in Requests \cup Sockets : refresh'[r] = Idle
        /\ \A s \in Sockets : socket'[s].carry = None /\ socket'[s].inbox = socket[s].inbox
    BY <1>3, Restarting
  <2>2. QED
    BY <2>1, BlankTypes DEF AllFresh, Fresh
<1>4. ASSUME NEW r \in Requests \cup Sockets,
             \/ r \in Requests /\ (RecordHeartbeat(r) \/ SetAccess(r) \/ RefreshBegins(r))
             \/ GetSummary(r) \/ GetRuntimeInfo(r)
      PROVE  AllFresh'
  <2>1. /\ UNCHANGED <<clock, latest, socket, page>>
        /\ lastBeat' = lastBeat \/ lastBeat' = clock
        /\ \A q \in Requests \cup Sockets :
              refresh'[q].mcpRuntime \in {None, refresh[q].mcpRuntime, RuntimeInfo}
    BY <1>4, Refreshing
  <2>2. \A m \in Runtime : Fresh(m) => Fresh(m)'
    BY <2>1, FreshLater
  <2>3. lastBeat' # None => lastBeat' <= clock'
    BY <1>0, <2>1 DEF AllFresh
  <2>4. \A q \in Requests \cup Sockets :
          refresh'[q].mcpRuntime # None => refresh'[q].mcpRuntime \in Runtime /\ Fresh(refresh'[q].mcpRuntime)
    <3>1. RuntimeInfo \in Runtime /\ Fresh(RuntimeInfo)
      BY RuntimeIsTyped, ReadIsFresh
    <3> HIDE DEF RuntimeInfo
    <3>2. QED
      BY <2>1, <3>1, HeldTypes DEF AllFresh
  <2>5. \A q \in Requests \cup Sockets : refresh'[q].mcpRuntime # None => Fresh(refresh[q].mcpRuntime)'
    BY <2>2, <2>4
  <2>6. latest' # None => Fresh(latest.mcpRuntime)'
    BY <2>1, <2>2, HeldTypes DEF AllFresh
  <2>7. \A s \in Sockets :
          /\ socket'[s].carry # None => Fresh(socket[s].carry.mcpRuntime)'
          /\ \A i \in 1..Len(socket'[s].inbox) : Fresh(socket[s].inbox[i].mcpRuntime)'
    BY <2>1, <2>2, HeldTypes DEF AllFresh
  <2>8. \A p \in Pages : page'[p].live # None => Fresh(page[p].live.mcpRuntime)'
    BY <2>1, <2>2, HeldTypes DEF AllFresh
  <2>9. QED
    BY <2>3, <2>5, <2>6, <2>7, <2>8 DEF AllFresh
<1>5. ASSUME NEW r \in Requests \cup Sockets, UpdateDashboardSnapshot(r) PROVE AllFresh'
  <2>1. clock' = clock /\ lastBeat' = lastBeat
    BY <1>5 DEF UpdateDashboardSnapshot, world
  <2>2. latest' \in Snapshot /\ Fresh(latest'.mcpRuntime)
    BY <1>5, Updating DEF AllFresh
  <2>3. \A q \in Requests \cup Sockets : refresh'[q].mcpRuntime # None => Fresh(refresh'[q].mcpRuntime)
    BY <1>5, Updating, BlankTypes DEF AllFresh, Typed
  <2>4. \A s \in Sockets : socket'[s].carry # None => Fresh(socket'[s].carry.mcpRuntime)
    BY <1>5, <2>2, Updating DEF AllFresh
  <2>5. \A s \in Sockets : \A i \in 1..Len(socket'[s].inbox) : Fresh(socket'[s].inbox[i].mcpRuntime)
    <3> TAKE s \in Sockets
    <3>1. socket[s].inbox \in Seq(Snapshot) /\ \A i \in 1..Len(socket[s].inbox) : Fresh(socket[s].inbox[i].mcpRuntime)
      BY HeldTypes DEF AllFresh
    <3>2. socket'[s].inbox \in {socket[s].inbox, Append(socket[s].inbox, latest')}
      BY <1>5, Updating
    <3>3. \A i \in 1..Len(Append(socket[s].inbox, latest')) :
            \/ Append(socket[s].inbox, latest')[i] = latest'
            \/ i \in 1..Len(socket[s].inbox) /\ Append(socket[s].inbox, latest')[i] = socket[s].inbox[i]
      BY <2>2, <3>1, Appended
    <3>4. QED
      BY <2>2, <3>1, <3>2, <3>3
  <2>6. \A p \in Pages : page'[p].live # None => Fresh(page'[p].live.mcpRuntime)
    BY <1>5, <2>2, Updating DEF AllFresh
  <2>7. QED
    BY <2>1, <2>2, <2>3, <2>4, <2>5, <2>6 DEF AllFresh, Fresh
<1>6. ASSUME NEW r \in Requests \cup Sockets, RefreshFails(r) PROVE AllFresh'
  <2>1. clock' = clock /\ lastBeat' = lastBeat /\ latest' = latest /\ page' = page
    BY <1>6, Failing DEF world
  <2>2. \A q \in Requests \cup Sockets : refresh'[q] = refresh[q] \/ refresh'[q] = Idle
    BY <1>6, Failing DEF Typed
  <2>3. \A s \in Sockets : socket'[s].carry = socket[s].carry /\ socket'[s].inbox = socket[s].inbox
    BY <1>6, Failing
  <2>4. QED
    BY <2>1, <2>2, <2>3, BlankTypes DEF AllFresh, Fresh
<1>7. ASSUME NEW s \in Sockets,
             \/ Rejects(s) \/ Accepts(s) \/ StartDashboardSubscription(s)
             \/ GetDashboardStatusSnapshot(s) \/ SendRawMessage(s) \/ Breaks(s)
      PROVE  AllFresh'
  <2>1. /\ clock' = clock /\ lastBeat' = lastBeat /\ latest' = latest /\ page' = page
        /\ \A t \in Sockets \ {s} : socket'[t] = socket[t]
        /\ Stage(s) /\ Carries(s)
    BY <1>7, Serving DEF world
  <2>2. \A q \in Requests \cup Sockets : refresh'[q].mcpRuntime # None => Fresh(refresh'[q].mcpRuntime)
    BY <2>1, BlankTypes DEF Stage, AllFresh, Typed
  <2>3. \A t \in Sockets : socket'[t].carry # None => Fresh(socket'[t].carry.mcpRuntime)
    BY <2>1 DEF Carries, AllFresh
  <2>4. \A i \in 1..Len(socket'[s].inbox) : Fresh(socket'[s].inbox[i].mcpRuntime)
    <3>1. socket[s].inbox \in Seq(Snapshot) /\ \A i \in 1..Len(socket[s].inbox) : Fresh(socket[s].inbox[i].mcpRuntime)
      BY HeldTypes DEF AllFresh
    <3>2. CASE socket[s].carry \in Snapshot /\ socket'[s].inbox = Append(socket[s].inbox, socket[s].carry)
      <4>1. Fresh(socket[s].carry.mcpRuntime)
        BY <3>2, SnapshotAssumption DEF AllFresh
      <4>2. QED
        BY <3>1, <3>2, <4>1, Appended
    <3>3. QED
      BY <2>1, <3>1, <3>2 DEF Carries
  <2>5. \A t \in Sockets \ {s} : \A i \in 1..Len(socket'[t].inbox) : Fresh(socket'[t].inbox[i].mcpRuntime)
    BY <2>1 DEF AllFresh
  <2>6. QED
    BY <2>1, <2>2, <2>3, <2>4, <2>5 DEF AllFresh, Fresh
<1>8. ASSUME NEW s \in Sockets, CloseClient(s) PROVE AllFresh'
  BY <1>8, Leaving DEF AllFresh, Fresh, world
<1>9. ASSUME NEW p \in Pages, Mounts(p) \/ Reconnects(p) PROVE AllFresh'
  <2>1. UNCHANGED <<clock, lastBeat, latest, refresh>>
    BY <1>9 DEF Mounts, Reconnects, world, server
  <2>2. /\ \A q \in Pages : page'[q].live = page[q].live
        /\ \A t \in Sockets : \/ socket'[t] = socket[t]
                              \/ socket'[t].carry = None /\ socket'[t].inbox = <<>>
    BY <1>9, Opening
  <2>3. QED
    BY <2>1, <2>2 DEF AllFresh, Fresh
<1>10. ASSUME NEW p \in Pages,
              StatusClock(p) \/ HandleDashboardMessage(p) \/ SocketCloses(p) \/ Unmounts(p)
       PROVE  AllFresh'
  <2>1. UNCHANGED <<clock, lastBeat, latest, refresh>>
    BY <1>10, Viewing DEF world, server
  <2>2. \A s \in Sockets :
          /\ socket'[s].carry = socket[s].carry
          /\ \A i \in 1..Len(socket'[s].inbox) : Fresh(socket'[s].inbox[i].mcpRuntime)
    BY <1>10, Viewing DEF AllFresh
  <2>3. \A q \in Pages : page'[q].live # None => Fresh(page'[q].live.mcpRuntime)
    BY <1>10, Viewing DEF AllFresh
  <2>4. QED
    BY <2>1, <2>2, <2>3 DEF AllFresh, Fresh
<1>11. QED
  BY <1>1, <1>2, <1>3, <1>4, <1>5, <1>6, <1>7, <1>8, <1>9, <1>10, Cases

-----------------------------------------------------------------------------
(* The page *)

LEMMA StepPage ==
  ASSUME Typed, Subscribed, PageKeepsTrying, [Next]_vars PROVE PageKeepsTrying'
<1>1. CASE page' = page
  BY <1>1 DEF PageKeepsTrying
<1>2. ASSUME NEW r \in Requests \cup Sockets, UpdateDashboardSnapshot(r) PROVE PageKeepsTrying'
  <2>1. \A p \in Pages :
          \/ page'[p] = page[p]
          \/ page'[p].at = "loaded" /\ page'[p].socket = None /\ ~page'[p].timer
    BY <1>2, Updating
  <2>2. QED
    BY <2>1 DEF PageKeepsTrying
<1>3. ASSUME NEW p \in Pages, Mounts(p) \/ Reconnects(p) PROVE PageKeepsTrying'
  <2>1. /\ \A q \in Pages \ {p} : page'[q] = page[q]
        /\ page'[p].socket # None
        /\ page'[p].at = "mounted" \/ (page[p].timer /\ page'[p].at = page[p].at)
    BY <1>3, Opening
  <2>2. page'[p].at = "mounted"
    BY <2>1 DEF PageKeepsTrying
  <2>3. QED
    BY <2>1, <2>2 DEF PageKeepsTrying
<1>4. ASSUME NEW p \in Pages,
             StatusClock(p) \/ HandleDashboardMessage(p) \/ SocketCloses(p) \/ Unmounts(p)
      PROVE  PageKeepsTrying'
  <2>1. \A q \in Pages \ {p} : page'[q] = page[q]
    BY <1>4, Viewing
  <2>2. \/ page'[p].at = page[p].at /\ page'[p].socket = page[p].socket
           /\ (page'[p].timer = page[p].timer \/ page[p].socket # None)
        \/ page'[p].at = page[p].at /\ page[p].socket # None /\ page'[p].timer
        \/ page'[p].at = "away" /\ page'[p].socket = None /\ ~page'[p].timer
    BY <1>4, Viewing
  <2>3. (page'[p].at = "mounted") = (page'[p].socket # None \/ page'[p].timer)
    BY <2>2 DEF PageKeepsTrying
  <2>4. QED
    BY <2>1, <2>3 DEF PageKeepsTrying
<1>5. QED
  <2>1. CASE Tick \/ Restart \/ UNCHANGED vars
    BY <1>1, <2>1, Restarting DEF Tick, vars
  <2>2. ASSUME NEW r \in Requests \cup Sockets,
               \/ r \in Requests /\ (RecordHeartbeat(r) \/ SetAccess(r) \/ RefreshBegins(r))
               \/ GetSummary(r) \/ GetRuntimeInfo(r) \/ RefreshFails(r)
        PROVE  PageKeepsTrying'
    BY <1>1, <2>2, Refreshing, Failing
  <2>3. ASSUME NEW s \in Sockets,
               \/ Rejects(s) \/ Accepts(s) \/ StartDashboardSubscription(s)
               \/ GetDashboardStatusSnapshot(s) \/ SendRawMessage(s) \/ Breaks(s) \/ CloseClient(s)
        PROVE  PageKeepsTrying'
    BY <1>1, <2>3, Serving, Leaving
  <2>4. QED
    BY <1>2, <1>3, <1>4, <2>1, <2>2, <2>3, Cases

-----------------------------------------------------------------------------
(* The theorems *)

LEMMA InitInv == Init => IInv
<1> SUFFICES ASSUME Init PROVE IInv
  OBVIOUS
<1>1. Typed
  BY InitTyped
<1>2. Subscribed
  BY BlankTypes DEF Init, Subscribed
<1>3. ListenersBounded
  <2>1. Coming = {}
    BY BlankTypes DEF Init, Coming
  <2>2. Cardinality(Coming) = 0
    BY <2>1, FS_EmptySet
  <2>3. QED
    BY <2>2 DEF Init, ListenersBounded
<1>4. AllFresh
  <2>1. \A s \in Sockets : socket[s].carry = None /\ socket[s].inbox = <<>>
    BY DEF Init, NoSocket
  <2>2. QED
    BY <2>1, BlankTypes DEF Init, AllFresh
<1>5. PageKeepsTrying
  BY BlankTypes DEF Init, PageKeepsTrying
<1>6. QED
  BY <1>1, <1>2, <1>3, <1>4, <1>5 DEF IInv

LEMMA StepInv == IInv /\ [Next]_vars => IInv'
BY StepTyped, StepSubscribed, StepListeners, StepFresh, StepPage DEF IInv

\* The state stays one where every client past its first await has the subscription, the
\* websockets bound the listeners, and what is said of the MCP server comes from a heartbeat.
THEOREM Inductive == Spec => []IInv
BY InitInv, StepInv, PTL DEF Spec

LEMMA TypesFollow == IInv => TypeOK
<1> SUFFICES ASSUME IInv PROVE TypeOK
  OBVIOUS
<1>1. Typed /\ Subscribed /\ ListenersBounded
  BY DEF IInv
<1>2. IsFiniteSet(Coming)
  BY Constants, FS_Subset DEF Coming
<1>3. Cardinality(Coming) \in Nat
  BY <1>2, FS_CardinalityType
<1>4. listeners \in 0..MaxOpens
  BY <1>1, <1>3, Constants DEF Typed, ListenersBounded
<1>5. QED
  BY <1>1, <1>4 DEF Typed, Subscribed, TypeOK

\* Every variable keeps its type, and as each websocket adds at most one listener to
\* dashboardEmitter, the listeners that startDashboardSubscription leaves behind are no
\* more than the websockets that were opened.
THEOREM TypeCorrect == Spec => []TypeOK
BY Inductive, TypesFollow, PTL

LEMMA FreshFollows == IInv => ConnectedIsFresh
<1> SUFFICES ASSUME IInv, NEW p \in Pages, page[p].at = "mounted", ShownConnected(p)
             PROVE  lastBeat # None /\ page[p].now < lastBeat + HeartbeatStaleSeconds
  BY DEF ConnectedIsFresh
<1>1. page[p].live # None /\ page[p].live.mcpRuntime > page[p].now
  BY DEF ShownConnected
<1>2. Typed /\ Fresh(page[p].live.mcpRuntime)
  BY <1>1 DEF IInv, AllFresh
<1>3. page[p].now \in Nat /\ page[p].live.mcpRuntime \in Nat
  BY <1>1, <1>2, HeldTypes, Constants DEF Typed, Page, Time, Runtime
<1>4. lastBeat # None /\ page[p].live.mcpRuntime <= lastBeat + HeartbeatStaleSeconds
  BY <1>1, <1>2, <1>3 DEF Fresh
<1>5. lastBeat \in Nat /\ HeartbeatStaleSeconds \in Nat
  BY <1>2, <1>4, Constants DEF Typed, Time
<1>6. QED
  BY <1>1, <1>3, <1>4, <1>5

\* mcpServerStatus of the page says connected only while, by the page's own clock, a
\* heartbeat is less than heartbeatStaleSeconds old, through whatever refreshes, pushes,
\* restarts and delays the snapshot went.
THEOREM NothingStaleIsShown == Spec => []ConnectedIsFresh
BY Inductive, FreshFollows, PTL

\* A mounted page never is without both a dashboardSocket and a reconnectTimer, and a page
\* that was left keeps neither.
THEOREM PagesKeepTrying == Spec => []PageKeepsTrying
<1>1. IInv => PageKeepsTrying
  BY DEF IInv
<1>2. QED
  BY Inductive, <1>1, PTL

LEMMA StepPublishes ==
  ASSUME IInv, [Next]_vars
  PROVE  latest' \notin {latest, None} =>
            \A s \in clients : socket[s].open /\ socket[s].at \notin {"upgrade", "subscribe"} =>
                socket'[s].inbox # <<>> /\ Last(socket'[s].inbox) = latest'
<1> SUFFICES ASSUME latest' # latest, latest' # None,
                    NEW s \in clients, socket[s].open, socket[s].at \notin {"upgrade", "subscribe"}
             PROVE  socket'[s].inbox # <<>> /\ Last(socket'[s].inbox) = latest'
  OBVIOUS
<1>1. Typed /\ Subscribed
  BY DEF IInv
<1>2. s \in Sockets /\ unsubscribe /\ listeners > 0 /\ socket[s].inbox \in Seq(Snapshot)
  BY <1>1, HeldTypes DEF Subscribed, Typed
<1>3. PICK r \in Requests \cup Sockets : UpdateDashboardSnapshot(r)
  <2>1. CASE Tick \/ Restart \/ UNCHANGED vars
    BY <1>1, <2>1, Restarting DEF Tick, vars, server
  <2>2. ASSUME NEW r \in Requests \cup Sockets,
               \/ r \in Requests /\ (RecordHeartbeat(r) \/ SetAccess(r) \/ RefreshBegins(r))
               \/ GetSummary(r) \/ GetRuntimeInfo(r) \/ RefreshFails(r)
        PROVE  latest' = latest
    BY <1>1, <2>2, Refreshing, Failing
  <2>3. ASSUME NEW t \in Sockets,
               \/ Rejects(t) \/ Accepts(t) \/ StartDashboardSubscription(t)
               \/ GetDashboardStatusSnapshot(t) \/ SendRawMessage(t) \/ Breaks(t) \/ CloseClient(t)
        PROVE  latest' = latest
    BY <1>1, <2>3, Serving, Leaving
  <2>4. ASSUME NEW p \in Pages,
               \/ Mounts(p) \/ Reconnects(p) \/ StatusClock(p) \/ HandleDashboardMessage(p)
               \/ SocketCloses(p) \/ Unmounts(p)
        PROVE  latest' = latest
    BY <1>1, <2>4, Viewing DEF Mounts, Reconnects, server
  <2>5. QED
    BY <2>1, <2>2, <2>3, <2>4, Cases
<1>4. latest' \in Snapshot /\ socket'[s].inbox = Append(socket[s].inbox, latest')
  BY <1>1, <1>2, <1>3, Updating
<1>5. QED
  BY <1>2, <1>4, Appended

\* Whatever clients come and go, and whether or not stopDashboardSubscription has run in
\* between: a snapshot that updateDashboardSnapshot publishes reaches every open client
\* that is done with subscribing.
THEOREM EverySnapshotIsSent == Spec => PublishedIsSent
<1>1. IInv /\ [Next]_vars =>
        (latest' \notin {latest, None} =>
            \A s \in clients : socket[s].open /\ socket[s].at \notin {"upgrade", "subscribe"} =>
                socket'[s].inbox # <<>> /\ Last(socket'[s].inbox) = latest')
  BY StepPublishes
<1>2. QED
  BY Inductive, <1>1, PTL DEF Spec, PublishedIsSent
=============================================================================
