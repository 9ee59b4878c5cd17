----------------------------- MODULE MqttExplorer -----------------------------
(***************************************************************************)
(* The MQTT Explorer service of the API server (mqtt/service.ts) and the   *)
(* browser's event stream over it (routes/api/mqtt/events), for one        *)
(* session key.  Session keys share nothing, so one key is the system.     *)
(*                                                                         *)
(* A session key is mapped to at most one SessionRecord at a time, but     *)
(* calls, timers and client events hold on to the record they started      *)
(* with, so several incarnations of the record can be alive at once.       *)
(* JavaScript runs one callback at a time: an action is everything from    *)
(* one resumption to the next await that really yields (the end of an      *)
(* existing client, the first connect, a SUBSCRIBE or UNSUBSCRIBE).        *)
(***************************************************************************)
EXTENDS Integers, FiniteSets

CONSTANTS
    Records,      \* the SessionRecord objects that can be allocated
    Clients,      \* the MQTT.js clients that can be created
    Watchers,     \* the event streams browsers open, each used once
    Calls,        \* slots for API calls in flight
    Filters,      \* subscription filters
    Topics,       \* topics of messages
    Matching,     \* the pairs <<filter, topic>> of topicMatchesFilter
    Limits,       \* the limits an operator can choose
    AbsoluteMax,  \* absoluteMaxTrackedTopics
    MaxMessages,  \* bound on the messages a record counts
    NoRecord, NoClient, NoFilter

ASSUME ConstantsAssumption ==
    /\ NoRecord \notin Records
    /\ NoClient \notin Clients
    /\ NoFilter \notin Filters
    /\ Matching \subseteq Filters \X Topics
    /\ Limits \subseteq Nat \ {0}
    /\ AbsoluteMax \in Nat \ {0}
    /\ MaxMessages \in Nat

VARIABLES
    current,      \* sessions.get(sessionKey), or NoRecord
    used,         \* the records ever allocated
    session,      \* the fields of every record
    clientState,  \* what the MQTT library is doing with every client
    call,         \* the API calls in flight: where they await, on what
    watcher,      \* the life of every event stream
    stale,        \* history: open streams not sent the latest state
    overlapped    \* history: two connection changes have overlapped

vars == <<current, used, session, clientState, call, watcher, stale, overlapped>>

-----------------------------------------------------------------------------
(* Types *)

NotSubscribed == -1
NoLimit == 0
NoMessage == [from |-> NoClient, nr |-> 0]

Status == {"disconnected", "connecting", "connected", "error"}

SessionRecord ==
    [client    : Clients \cup {NoClient},
     status    : Status,
     subs      : [Filters -> Nat \cup {NotSubscribed}],  \* matchedMessageCount
     messages  : [Topics -> [from : Clients \cup {NoClient}, nr : Nat]],
     total     : Nat,
     limit     : Limits \cup {NoLimit},
     listeners : SUBSET Watchers,
     emitTimer  : BOOLEAN,
     closeTimer : BOOLEAN,
     closing   : Nat]      \* grace-period teardowns awaiting a client's end

Idle == [at |-> "idle", rec |-> NoRecord, client |-> NoClient, filter |-> NoFilter]

\* Where a call awaits, on the record and client it started with: connect and
\* disconnect on the old client's end; connect on its own client's first
\* connect, on its resubscriptions, on the end of its failed client; subscribe
\* and unsubscribe on the library's answer.
CallRecord ==
    {Idle}
    \cup [at : {"replacing", "disconnecting"},
          rec : Records, client : {NoClient}, filter : {NoFilter}]
    \cup [at : {"waiting", "resubscribing", "failing"},
          rec : Records, client : Clients, filter : {NoFilter}]
    \cup [at : {"subscribing", "unsubscribing"},
          rec : Records, client : Clients, filter : Filters]

NewSession ==
    [client |-> NoClient, status |-> "disconnected",
     subs |-> [f \in Filters |-> NotSubscribed],
     messages |-> [t \in Topics |-> NoMessage],
     total |-> 0, limit |-> NoLimit, listeners |-> {},
     emitTimer |-> FALSE, closeTimer |-> FALSE, closing |-> 0]

TypeOK ==
    /\ current \in Records \cup {NoRecord}
    /\ used \subseteq Records
    /\ session \in [Records -> SessionRecord]
    /\ clientState \in [Clients -> {"unused", "connecting", "up", "down", "ended"}]
    /\ call \in [Calls -> CallRecord]
    /\ watcher \in [Watchers -> {"unused", "open", "closed", "gone"}]
    /\ stale \subseteq Watchers
    /\ overlapped \in BOOLEAN

Init ==
    /\ current = NoRecord
    /\ used = {}
    /\ session = [r \in Records |-> NewSession]
    /\ clientState = [k \in Clients |-> "unused"]
    /\ call = [c \in Calls |-> Idle]
    /\ watcher = [w \in Watchers |-> "unused"]
    /\ stale = {}
    /\ overlapped = FALSE

-----------------------------------------------------------------------------
(* Helpers the operations share *)

\* r is the record of the session key, allocated now if there was none.
GetOrCreateSession(r) ==
    \/ /\ r = current
       /\ UNCHANGED <<current, used>>
    \/ /\ current = NoRecord
       /\ r \notin used
       /\ current' = r
       /\ used' = used \cup {r}

\* Record r becomes s and scheduleEmit is called, which looks the record up by
\* key: cur is what it finds, whatever record the caller has changed.  With
\* immediate, its listeners are sent the state now; otherwise the timer of the
\* coalesced send is armed.
ChangeAndEmit(cur, r, s) ==
    LET changed == [session EXCEPT ![r] = s] IN
    IF cur = NoRecord
    THEN /\ session' = changed
         /\ stale' = stale \cup s.listeners
    ELSE /\ session' = [changed EXCEPT ![cur].emitTimer = FALSE]
         /\ stale' = (stale \cup s.listeners) \ changed[cur].listeners

ChangeAndSchedule(cur, r, s) ==
    LET changed == [session EXCEPT ![r] = s] IN
    /\ session' = IF cur = NoRecord THEN changed
                  ELSE [changed EXCEPT ![cur].emitTimer = TRUE]
    /\ stale' = stale \cup s.listeners

Await(c, at, r, k, f) ==
    call' = [call EXCEPT ![c] = [at |-> at, rec |-> r, client |-> k, filter |-> f]]

Return(c) == call' = [call EXCEPT ![c] = Idle]

ConnectionChanging ==
    \/ \E c \in Calls : call[c].at \in
            {"replacing", "waiting", "resubscribing", "failing", "disconnecting"}
    \/ \E r \in Records : session[r].closing > 0

IsConnected(s) == s.client # NoClient /\ s.status = "connected"

EffectiveLimit(s) ==
    IF s.limit = NoLimit \/ s.limit > AbsoluteMax THEN AbsoluteMax ELSE s.limit

Tracked(s) == {t \in Topics : s.messages[t] # NoMessage}

\* Variant: the topic that is dropped is the latest.
TrimLatest(s) ==
    LET older(t) == {u \in Tracked(s) : s.messages[u].nr < s.messages[t].nr}
    IN  [s EXCEPT !.messages =
            [t \in Topics |-> IF Cardinality(older(t)) < EffectiveLimit(s)
                              THEN s.messages[t] ELSE NoMessage]]

\* The topics that survive trimTrackedMessages: the most recently received, where the
\* clock tells two of them apart.
Trim(s) ==
    LET newer(t) == {u \in Tracked(s) : s.messages[u].nr > s.messages[t].nr}
    IN  [s EXCEPT !.messages =
            [t \in Topics |-> IF Cardinality(newer(t)) < EffectiveLimit(s)
                              THEN s.messages[t] ELSE NoMessage]]

-----------------------------------------------------------------------------
(* Event streams *)

\* GET events: watchSession registers the listener and sends it a snapshot.
Watch(w, r) ==
    /\ watcher[w] = "unused"
    /\ GetOrCreateSession(r)
    /\ watcher' = [watcher EXCEPT ![w] = "open"]
    /\ session' = [session EXCEPT ![r].closeTimer = FALSE,
                                  ![r].listeners = @ \cup {w}]
    /\ UNCHANGED <<clientState, call, stale, overlapped>>

\* Variant: every closing stream, not only the last, cancels the pending emit.
CleanupCancelsEmit(w) ==
    LET left == session[current].listeners \ {w} IN
    /\ stale' = stale \ {w}
    /\ IF current = NoRecord THEN UNCHANGED session
       ELSE session' = [session EXCEPT
                ![current].listeners = left,
                ![current].emitTimer = FALSE,
                ![current].closeTimer = @ \/ left = {}]
    /\ UNCHANGED <<current, used, clientState, call, overlapped>>

\* The function watchSession returned.  It too looks the record up by key.
Cleanup(w) ==
    LET left == session[current].listeners \ {w} IN
    /\ stale' = stale \ {w}
    /\ IF current = NoRecord THEN UNCHANGED session
       ELSE session' = [session EXCEPT
                ![current].listeners = left,
                ![current].emitTimer = @ /\ left # {},
                ![current].closeTimer = @ \/ left = {}]
    /\ UNCHANGED <<current, used, clientState, call, overlapped>>

\* The request aborts, or the ping finds the MCP principal disabled.
CloseStream(w) ==
    /\ watcher[w] = "open"
    /\ watcher' = [watcher EXCEPT ![w] = "closed"]
    /\ Cleanup(w)

\* The stream's cancel callback does not look at `closed`: it may clean up again.
CancelStream(w) ==
    /\ watcher[w] = "closed"
    /\ watcher' = [watcher EXCEPT ![w] = "gone"]
    /\ Cleanup(w)

\* The 90 ms timer of scheduleEmit.
EmitTimerFires(r) ==
    /\ session[r].emitTimer
    /\ session' = [session EXCEPT ![r].emitTimer = FALSE]
    /\ stale' = stale \ (IF current = NoRecord THEN {} ELSE session[current].listeners)
    /\ UNCHANGED <<current, used, clientState, call, watcher, overlapped>>

\* Variant: the timer does nothing for a session without a client.
CloseTimerSkipsIdle(r) ==
    /\ session[r].closeTimer
    /\ \/ /\ r # current \/ session[r].listeners # {} \/ session[r].client = NoClient
          /\ session' = [session EXCEPT ![r].closeTimer = FALSE]
          /\ UNCHANGED <<clientState, overlapped>>
       \/ /\ r = current /\ session[r].listeners = {} /\ session[r].client # NoClient
          /\ overlapped' = (overlapped \/ ConnectionChanging)
          /\ session' = [session EXCEPT ![r].closeTimer = FALSE,
                                        ![r].client = NoClient,
                                        ![r].closing = @ + 1]
          /\ clientState' = [clientState EXCEPT ![session[r].client] = "ended"]
    /\ UNCHANGED <<current, used, call, watcher, stale>>

\* The 10 s timer of the last cleanup, on a record nobody watches any more:
\* disconnectClient, which awaits only if there is a client to end.
CloseTimerFires(r) ==
    /\ session[r].closeTimer
    /\ \/ /\ r # current \/ session[r].listeners # {}
          /\ session' = [session EXCEPT ![r].closeTimer = FALSE]
          /\ UNCHANGED <<current, clientState, overlapped>>
       \/ /\ r = current /\ session[r].listeners = {}
          /\ overlapped' = (overlapped \/ ConnectionChanging)
          /\ IF session[r].client = NoClient
             THEN /\ session' = [session EXCEPT ![r].closeTimer = FALSE,
                                                ![r].status = "disconnected",
                                                ![r].emitTimer = FALSE]
                  /\ current' = NoRecord
                  /\ UNCHANGED clientState
             ELSE /\ session' = [session EXCEPT ![r].closeTimer = FALSE,
                                                ![r].client = NoClient,
                                                ![r].closing = @ + 1]
                  /\ clientState' = [clientState EXCEPT ![session[r].client] = "ended"]
                  /\ UNCHANGED current
    /\ UNCHANGED <<used, call, watcher, stale>>

\* Variant: the end of the teardown deletes the session without looking at its
\* listeners again.
TeardownEndsUnchecked(r) ==
    /\ session[r].closing > 0
    /\ session' = [session EXCEPT ![r].closing = @ - 1, ![r].status = "disconnected"]
    /\ current' = IF current = r THEN NoRecord ELSE current
    /\ UNCHANGED <<used, clientState, call, watcher, stale, overlapped>>

\* Variant: the completion runs without a teardown being under way.
TeardownEndsTwice(r) ==
    /\ session' = [session EXCEPT ![r].closing = @ - 1, ![r].status = "disconnected"]
    /\ current' = IF current = r /\ session[r].listeners = {} THEN NoRecord ELSE current
    /\ UNCHANGED <<used, clientState, call, watcher, stale, overlapped>>

\* The teardown's client has ended: delete the session if it is still the
\* current one and still unwatched.
TeardownEnds(r) ==
    /\ session[r].closing > 0
    /\ ChangeAndEmit(current, r, [session[r] EXCEPT !.closing = @ - 1,
                                                    !.status = "disconnected"])
    /\ current' = IF current = r /\ session[r].listeners = {} THEN NoRecord ELSE current
    /\ UNCHANGED <<used, clientState, call, watcher, overlapped>>

-----------------------------------------------------------------------------
(* connect and disconnect *)

\* Variant: the topics of the previous connection are kept.
StartClientKeepsMessages(c, r, k) ==
    /\ clientState[k] = "unused"
    /\ clientState' = [clientState EXCEPT ![k] = "connecting"]
    /\ ChangeAndEmit(current', r, [session[r] EXCEPT
            !.client = k,
            !.status = "connecting",
            !.subs = [f \in Filters |-> NotSubscribed]])
    /\ Await(c, "waiting", r, k, NoFilter)

\* The part of connect after disconnectClient, up to waitForInitialConnect.
StartClient(c, r, k) ==
    /\ clientState[k] = "unused"
    /\ clientState' = [clientState EXCEPT ![k] = "connecting"]
    /\ ChangeAndEmit(current', r, [session[r] EXCEPT
            !.client = k,
            !.status = "connecting",
            !.subs = [f \in Filters |-> NotSubscribed],
            !.messages = [t \in Topics |-> NoMessage],
            !.total = 0])
    /\ Await(c, "waiting", r, k, NoFilter)

\* Variant: the client is still the session's while its end is awaited.
EndClientLate(c, r, at) ==
    /\ session[r].client # NoClient
    /\ clientState' = [clientState EXCEPT ![session[r].client] = "ended"]
    /\ Await(c, at, r, NoClient, NoFilter)
    /\ UNCHANGED <<session, stale>>

\* The part of disconnectClient before the await: the client is forgotten
\* and its end requested.
EndClient(c, r, at) ==
    /\ session[r].client # NoClient
    /\ session' = [session EXCEPT ![r].client = NoClient]
    /\ clientState' = [clientState EXCEPT ![session[r].client] = "ended"]
    /\ Await(c, at, r, NoClient, NoFilter)
    /\ UNCHANGED stale

Connect(c, r) ==
    /\ call[c].at = "idle"
    /\ GetOrCreateSession(r)
    /\ \/ EndClient(c, r, "replacing")
       \/ /\ session[r].client = NoClient
          /\ \E k \in Clients : StartClient(c, r, k)
    /\ overlapped' = (overlapped \/ ConnectionChanging)
    /\ UNCHANGED watcher

\* The old client has ended; the record may have another one by now.
ConnectResumes(c) ==
    /\ call[c].at = "replacing"
    /\ UNCHANGED <<current, used, watcher, overlapped>>
    /\ \E k \in Clients : StartClient(c, call[c].rec, k)

\* The client's first connect.  Events are bound only now.  connect awaits
\* again only if the record has subscriptions to restore.
ConnectSucceeds(c) ==
    LET r == call[c].rec
        k == call[c].client
    IN  /\ call[c].at = "waiting"
        /\ clientState[k] = "connecting"
        /\ UNCHANGED <<current, used, watcher, overlapped>>
        /\ clientState' = [clientState EXCEPT ![k] = "up"]
        /\ IF \E f \in Filters : session[r].subs[f] # NotSubscribed
           THEN /\ Await(c, "resubscribing", r, k, NoFilter)
                /\ UNCHANGED <<session, stale>>
           ELSE /\ Return(c)
                /\ ChangeAndEmit(current', r, [session[r] EXCEPT !.status = "connected"])

\* The library has acknowledged the last filter to restore.
ResubscribeEnds(c) ==
    LET r == call[c].rec IN
    /\ call[c].at = "resubscribing"
    /\ clientState[call[c].client] = "up"
    /\ UNCHANGED <<current, used, clientState, watcher, overlapped>>
    /\ Return(c)
    /\ ChangeAndEmit(current', r, [session[r] EXCEPT !.status = "connected"])

\* Variant: a failed connect leaves its client to the library, which retries.
ConnectFailsOnly(c) ==
    /\ call[c].at \in {"waiting", "resubscribing"}
    /\ UNCHANGED <<current, used, clientState, watcher, overlapped>>
    /\ Return(c)
    /\ ChangeAndEmit(current', call[c].rec,
            [session[call[c].rec] EXCEPT !.client = NoClient, !.status = "error"])

\* A connection error, the 12 s timeout, or a failed resubscription.  The
\* record loses whatever client it has, and the call's own client is ended,
\* at once if it has been already.
ConnectFails(c) ==
    LET r == call[c].rec
        k == call[c].client
    IN  /\ call[c].at \in {"waiting", "resubscribing"}
        /\ UNCHANGED <<current, used, watcher, overlapped>>
        /\ clientState' = [clientState EXCEPT ![k] = "ended"]
        /\ IF clientState[k] = "ended"
           THEN /\ Return(c)
                /\ ChangeAndEmit(current', r,
                        [session[r] EXCEPT !.client = NoClient, !.status = "error"])
           ELSE /\ Await(c, "failing", r, k, NoFilter)
                /\ session' = [session EXCEPT ![r].client = NoClient]
                /\ UNCHANGED stale

ConnectFailed(c) ==
    LET r == call[c].rec IN
    /\ call[c].at = "failing"
    /\ UNCHANGED <<current, used, clientState, watcher, overlapped>>
    /\ Return(c)
    /\ ChangeAndEmit(current', r, [session[r] EXCEPT !.status = "error"])

Disconnect(c, r) ==
    /\ call[c].at = "idle"
    /\ GetOrCreateSession(r)
    /\ \/ EndClient(c, r, "disconnecting")
       \/ /\ session[r].client = NoClient
          /\ ChangeAndEmit(current', r, [session[r] EXCEPT !.status = "disconnected"])
          /\ UNCHANGED <<call, clientState>>
    /\ overlapped' = (overlapped \/ ConnectionChanging)
    /\ UNCHANGED watcher

DisconnectEnds(c) ==
    LET r == call[c].rec IN
    /\ call[c].at = "disconnecting"
    /\ UNCHANGED <<current, used, clientState, watcher, overlapped>>
    /\ Return(c)
    /\ ChangeAndEmit(current', r, [session[r] EXCEPT !.status = "disconnected"])

-----------------------------------------------------------------------------
(* The other operations *)

\* getExplorerState, publish, and a subscribe refused with 409: all they
\* change is that the session exists.
ReadOnlyCall(r) ==
    /\ GetOrCreateSession(r)
    /\ UNCHANGED <<session, clientState, call, watcher, stale, overlapped>>

Subscribe(c, r, f) ==
    /\ call[c].at = "idle"
    /\ GetOrCreateSession(r)
    /\ IsConnected(session[r])
    /\ Await(c, "subscribing", r, session[r].client, f)
    /\ UNCHANGED <<session, clientState, watcher, stale, overlapped>>

SubscribeAcked(c) ==
    LET r == call[c].rec IN
    /\ call[c].at = "subscribing"
    /\ clientState[call[c].client] = "up"
    /\ UNCHANGED <<current, used, clientState, watcher, overlapped>>
    /\ Return(c)
    /\ ChangeAndEmit(current', r, [session[r] EXCEPT !.subs[call[c].filter] = 0])

Unsubscribe(c, r, f) ==
    /\ call[c].at = "idle"
    /\ GetOrCreateSession(r)
    /\ IF session[r].subs[f] # NotSubscribed /\ IsConnected(session[r])
       THEN /\ Await(c, "unsubscribing", r, session[r].client, f)
            /\ UNCHANGED <<session, stale>>
       ELSE /\ ChangeAndEmit(current', r, [session[r] EXCEPT !.subs[f] = NotSubscribed])
            /\ UNCHANGED call
    /\ UNCHANGED <<clientState, watcher, overlapped>>

UnsubscribeAcked(c) ==
    LET r == call[c].rec IN
    /\ call[c].at = "unsubscribing"
    /\ clientState[call[c].client] = "up"
    /\ UNCHANGED <<current, used, clientState, watcher, overlapped>>
    /\ Return(c)
    /\ ChangeAndEmit(current', r,
            [session[r] EXCEPT !.subs[call[c].filter] = NotSubscribed])

\* The library reports an error for a SUBSCRIBE or UNSUBSCRIBE: 502.
RequestFails(c) ==
    /\ call[c].at \in {"subscribing", "unsubscribing"}
    /\ Return(c)
    /\ UNCHANGED <<current, used, session, clientState, watcher, stale, overlapped>>

ClearMessages(r) ==
    /\ GetOrCreateSession(r)
    /\ ChangeAndEmit(current', r, [session[r] EXCEPT
            !.messages = [t \in Topics |-> NoMessage],
            !.total = 0,
            !.subs = [f \in Filters |-> IF @[f] = NotSubscribed THEN @[f] ELSE 0]])
    /\ UNCHANGED <<clientState, call, watcher, overlapped>>

SetTrackedTopicsLimit(r, limit) ==
    /\ GetOrCreateSession(r)
    /\ ChangeAndEmit(current', r, Trim([session[r] EXCEPT !.limit = limit]))
    /\ UNCHANGED <<clientState, call, watcher, overlapped>>

-----------------------------------------------------------------------------
(* Events of a client whose handlers are bound.  Every handler looks up the *)
(* record of the key and does nothing unless k is that record's client.     *)

Serves(k) == current # NoRecord /\ session[current].client = k

\* Variant: the handler forgets scheduleEmit.
ReportStatusSilently(k, status) ==
    IF Serves(k)
    THEN /\ session' = [session EXCEPT ![current].status = status]
         /\ stale' = stale \cup session[current].listeners
    ELSE UNCHANGED <<session, stale>>

ReportStatus(k, status) ==
    IF Serves(k)
    THEN ChangeAndEmit(current, current, [session[current] EXCEPT !.status = status])
    ELSE UNCHANGED <<session, stale>>

\* 'close', 'offline' or 'error'
ClientDrops(k) ==
    /\ clientState[k] \in {"up", "down"}
    /\ clientState' = [clientState EXCEPT ![k] = "down"]
    /\ UNCHANGED <<current, used, call, watcher, overlapped>>
    /\ ReportStatus(k, "error")

\* 'reconnect'
ClientRetries(k) ==
    /\ clientState[k] = "down"
    /\ UNCHANGED <<current, used, clientState, call, watcher, overlapped>>
    /\ ReportStatus(k, "connecting")

\* a later 'connect'
ClientReconnects(k) ==
    /\ clientState[k] = "down"
    /\ clientState' = [clientState EXCEPT ![k] = "up"]
    /\ UNCHANGED <<current, used, call, watcher, overlapped>>
    /\ ReportStatus(k, "connected")

\* A message on topic t, counted in the record's current statistics.
Received(s, k, t) ==
    Trim([s EXCEPT !.total = @ + 1,
                   !.messages[t] = [from |-> k, nr |-> s.total + 1],
                   !.subs = [f \in Filters |->
                                IF @[f] # NotSubscribed /\ <<f, t>> \in Matching
                                THEN @[f] + 1 ELSE @[f]]])

\* 'message'
Message(k, t) ==
    /\ clientState[k] = "up"
    /\ Serves(k)
    /\ session[current].total < MaxMessages
    /\ UNCHANGED <<current, used, clientState, call, watcher, overlapped>>
    /\ ChangeAndSchedule(current, current, Received(session[current], k, t))

-----------------------------------------------------------------------------

Next ==
    \/ \E r \in Records :
          \/ EmitTimerFires(r) \/ CloseTimerFires(r) \/ TeardownEnds(r)
          \/ ReadOnlyCall(r) \/ ClearMessages(r)
          \/ \E w \in Watchers : Watch(w, r)
          \/ \E n \in Limits \cup {NoLimit} : SetTrackedTopicsLimit(r, n)
          \/ \E c \in Calls : Connect(c, r) \/ Disconnect(c, r)
          \/ \E c \in Calls, f \in Filters : Subscribe(c, r, f) \/ Unsubscribe(c, r, f)
    \/ \E w \in Watchers : CloseStream(w) \/ CancelStream(w)
    \/ \E c \in Calls :
          \/ ConnectResumes(c) \/ ConnectSucceeds(c) \/ ResubscribeEnds(c)
          \/ ConnectFails(c) \/ ConnectFailed(c) \/ DisconnectEnds(c)
          \/ SubscribeAcked(c) \/ UnsubscribeAcked(c) \/ RequestFails(c)
    \/ \E k \in Clients :
          \/ ClientDrops(k) \/ ClientRetries(k) \/ ClientReconnects(k)
          \/ \E t \in Topics : Message(k, t)

\* Node runs expired timers, and end(true) always calls back.
Fairness ==
    \A r \in Records :
        /\ WF_vars(EmitTimerFires(r))
        /\ WF_vars(CloseTimerFires(r))
        /\ WF_vars(TeardownEnds(r))

Spec == Init /\ [][Next]_vars
FairSpec == Spec /\ Fairness

-----------------------------------------------------------------------------
(* Properties *)

\* A browser is never stranded: a stream the browser still holds is registered
\* on the record of the session key, the only one events and calls reach, and
\* no other record has a listener.  Teardown deletes the record after an await
\* during which watchSession may have run.
ListenersOnCurrent ==
    /\ \A w \in Watchers : watcher[w] = "open" => current # NoRecord
    /\ \A r \in Records :
        session[r].listeners =
            IF r = current THEN {w \in Watchers : watcher[w] = "open"} ELSE {}

\* No record serves its calls with a client that has been ended, or that
\* another record uses: a connect's error path ends its client after an await
\* in which calls may have replaced it.
CurrentClientAlive ==
    \A r \in Records :
        session[r].client # NoClient =>
            /\ clientState[session[r].client] \notin {"unused", "ended"}
            /\ \A q \in Records \ {r} : session[q].client # session[r].client

\* scheduleEmit coalesces sends, cleanups cancel its timer, and both look the
\* record up anew: a stream that has not been sent the latest state is still
\* open, and the timer that will send it is armed.
NoLostUpdate ==
    \A w \in stale : /\ watcher[w] = "open"
                     /\ current # NoRecord
                     /\ w \in session[current].listeners
                     /\ session[current].emitTimer

\* The latest topics of a connected record were all received by its present
\* client: a message of the previous broker connection never shows under the
\* next one, however connects and events interleave.
NoForeignMessages ==
    \A r \in Records, t \in Topics :
        session[r].client # NoClient =>
            session[r].messages[t].from \in {NoClient, session[r].client}

\* The counts agree however clears, subscriptions and connects interleave: a
\* subscription never matched more messages than the session counted, and no
\* tracked message is numbered beyond that count.
CountsAgree ==
    \A r \in Records :
        /\ \A f \in Filters : session[r].subs[f] <= session[r].total
        /\ \A t \in Topics : session[r].messages[t].nr <= session[r].total

\* However limits, clears, messages and connects interleave, no record tracks more
\* topics than the limit in force, the operator's or the absolute one, and the topic of
\* the last message it counted is not among those that trimTrackedMessages dropped.
LatestTopicsTracked ==
    \A r \in Records :
        /\ Cardinality(Tracked(session[r])) <= EffectiveLimit(session[r])
        /\ session[r].total > 0 => \E t \in Topics : session[r].messages[t].nr = session[r].total

LiveClients == {k \in Clients : clientState[k] \in {"connecting", "up", "down"}}

\* If no two connection changes (connect, disconnect, teardown) ever
\* overlapped, then between them the clients alive are exactly that of the
\* record of the key, and its status says connected exactly when it is.
SerialChangesAreExact ==
    (~overlapped /\ ~ConnectionChanging) =>
        IF current = NoRecord THEN LiveClients = {}
        ELSE LET k == session[current].client IN
             /\ LiveClients = {k} \ {NoClient}
             /\ (session[current].status = "connected")
                    <=> (k # NoClient /\ k \in LiveClients /\ clientState[k] = "up")

\* What the documentation of the MCP server says of a session key: it has one
\* connection.  Only quiet states are judged, where no connect, disconnect or
\* teardown is under way.
OneConnectionPerSession ==
    ~ConnectionChanging => Cardinality(LiveClients) <= 1

\* The session seen by the browsers refines what the Explorer promises them.
Channel == INSTANCE ExplorerChannel WITH
    present  <- current # NoRecord,
    attached <- {w \in Watchers : watcher[w] = "open"},
    behind   <- stale

\* Every step of the service is a step the promise allows, and every change
\* is eventually sent.
ImplementsChannel == Channel!Spec

\* A session whose last stream has closed is deleted after the grace period
\* unless a browser watches it again.
AbandonedSessionEnds ==
    \A r \in Records :
        (current = r /\ session[r].closeTimer)
            ~> (current # r \/ session[r].listeners # {})
=============================================================================
