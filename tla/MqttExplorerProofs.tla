-------------------------- MODULE MqttExplorerProofs --------------------------
(* Invariance proofs for MqttExplorer, for every value of its constants. *)
EXTENDS MqttExplorer, FiniteSetTheorems, WellFoundedInduction, TLAPS

LEMMA NewSessionType == NewSession \in SessionRecord
<1>1. NoMessage \in [from : Clients \cup {NoClient}, nr : Nat]
  BY DEF NoMessage
<1>2. [t \in Topics |-> NoMessage]
         \in [Topics -> [from : Clients \cup {NoClient}, nr : Nat]]
  BY <1>1
<1>3. [f \in Filters |-> NotSubscribed] \in [Filters -> Nat \cup {NotSubscribed}]
  OBVIOUS
<1>4. QED  BY <1>2, <1>3 DEF NewSession, SessionRecord, Status

LEMMA IdleType == Idle \in CallRecord
  BY DEF CallRecord

\* A call in flight knows its record, and its client or filter if it needs one.
LEMMA CallFields ==
  ASSUME TypeOK, NEW c \in Calls
  PROVE  /\ call[c].at # "idle" => call[c].rec \in Records
         /\ call[c].at \in {"waiting", "resubscribing", "failing",
                             "subscribing", "unsubscribing"} => call[c].client \in Clients
         /\ call[c].at \in {"subscribing", "unsubscribing"} => call[c].filter \in Filters
<1>1. call[c] \in CallRecord
  BY DEF TypeOK
<1>2. QED  BY <1>1 DEF CallRecord, Idle

\* What a change with its emit does to the records: r becomes s, and no field
\* of any record but the emit timers changes otherwise.
LEMMA EmitFrame ==
  ASSUME TypeOK, NEW cur \in Records \cup {NoRecord},
         NEW r \in Records, NEW s \in SessionRecord,
         ChangeAndEmit(cur, r, s) \/ ChangeAndSchedule(cur, r, s)
  PROVE  /\ session' \in [Records -> SessionRecord]
         /\ stale' \subseteq Watchers
         /\ \A q \in Records :
               /\ session'[q].client    = IF q = r THEN s.client ELSE session[q].client
               /\ session'[q].status    = IF q = r THEN s.status ELSE session[q].status
               /\ session'[q].subs      = IF q = r THEN s.subs ELSE session[q].subs
               /\ session'[q].messages  = IF q = r THEN s.messages ELSE session[q].messages
               /\ session'[q].total     = IF q = r THEN s.total ELSE session[q].total
               /\ session'[q].limit     = IF q = r THEN s.limit ELSE session[q].limit
               /\ session'[q].listeners = IF q = r THEN s.listeners ELSE session[q].listeners
               /\ session'[q].closing   = IF q = r THEN s.closing ELSE session[q].closing
<1> DEFINE changed == [session EXCEPT ![r] = s]
<1>1. changed \in [Records -> SessionRecord]
  BY DEF TypeOK
<1>2. \/ session' = changed
      \/ /\ cur \in Records
         /\ session' = [changed EXCEPT ![cur].emitTimer = FALSE]
      \/ /\ cur \in Records
         /\ session' = [changed EXCEPT ![cur].emitTimer = TRUE]
  BY DEF ChangeAndEmit, ChangeAndSchedule
<1>3. ASSUME NEW b \in BOOLEAN, NEW q \in Records
      PROVE  [changed EXCEPT ![q].emitTimer = b] \in [Records -> SessionRecord]
  BY <1>1 DEF SessionRecord
<1>4. session' \in [Records -> SessionRecord]
  BY <1>1, <1>2, <1>3
<1>5. s.listeners \subseteq Watchers /\ stale \subseteq Watchers
  BY DEF TypeOK, SessionRecord
<1>6. stale' \subseteq Watchers
  BY <1>5 DEF ChangeAndEmit, ChangeAndSchedule
<1>7. ASSUME NEW q \in Records
      PROVE  \/ session'[q] = changed[q]
             \/ \E b \in BOOLEAN : session'[q] = [changed[q] EXCEPT !.emitTimer = b]
  <2> HIDE DEF changed
  <2>1. QED  BY <1>1, <1>2, <1>7
<1>8. ASSUME NEW q \in Records
      PROVE  changed[q] = IF q = r THEN s ELSE session[q]
  BY DEF TypeOK
<1> DEFINE SameButTimer(x, y) ==
             /\ x.client = y.client /\ x.status = y.status /\ x.subs = y.subs
             /\ x.messages = y.messages /\ x.total = y.total /\ x.limit = y.limit
             /\ x.listeners = y.listeners /\ x.closing = y.closing
<1>9. ASSUME NEW q \in Records
      PROVE  SameButTimer(session'[q], changed[q])
  <2>1. changed[q] \in SessionRecord
    BY <1>1
  <2> HIDE DEF changed
  <2>2. CASE session'[q] = changed[q]
    BY <2>2
  <2>3. ASSUME NEW b \in BOOLEAN, session'[q] = [changed[q] EXCEPT !.emitTimer = b]
        PROVE  SameButTimer(session'[q], changed[q])
    BY <2>1, <2>3 DEF SessionRecord
  <2>4. QED  BY <1>7, <2>2, <2>3
<1> HIDE DEF changed
<1>10. QED
  BY <1>4, <1>6, <1>8, <1>9

LEMMA RecordUpdates ==
  ASSUME NEW s \in SessionRecord
  PROVE  /\ \A k \in Clients \cup {NoClient} : [s EXCEPT !.client = k] \in SessionRecord
         /\ \A k \in Clients \cup {NoClient}, x \in Status :
               [s EXCEPT !.client = k, !.status = x] \in SessionRecord
         /\ \A x \in Status : [s EXCEPT !.status = x] \in SessionRecord
         /\ \A f \in Filters, n \in Nat \cup {NotSubscribed} :
               [s EXCEPT !.subs[f] = n] \in SessionRecord
  BY Zenon DEF SessionRecord

LEMMA RecordUpdatesKeepListeners ==
  ASSUME NEW s \in SessionRecord
  PROVE  /\ \A x : [s EXCEPT !.status = x].listeners = s.listeners
         /\ \A k, x : [s EXCEPT !.client = k, !.status = x].listeners = s.listeners
         /\ \A f, n : [s EXCEPT !.subs[f] = n].listeners = s.listeners
  BY DEF SessionRecord

LEMMA TeardownUpdates ==
  ASSUME NEW s \in SessionRecord, NEW n \in Nat
  PROVE  /\ [s EXCEPT !.closing = n, !.status = "disconnected"] \in SessionRecord
         /\ [s EXCEPT !.closing = n, !.status = "disconnected"].listeners = s.listeners
  BY DEF SessionRecord, Status

LEMMA CreateType ==
  ASSUME TypeOK, NEW r \in Records, GetOrCreateSession(r)
  PROVE  current' \in Records \cup {NoRecord} /\ used' \subseteq Records
  BY DEF GetOrCreateSession, TypeOK

LEMMA TrimType ==
  ASSUME NEW s \in SessionRecord
  PROVE  Trim(s) \in SessionRecord
<1>1. NoMessage \in [from : Clients \cup {NoClient}, nr : Nat]
  BY DEF NoMessage
<1>2. s.messages \in [Topics -> [from : Clients \cup {NoClient}, nr : Nat]]
  BY DEF SessionRecord
<1>3. \A m \in [Topics -> [from : Clients \cup {NoClient}, nr : Nat]] :
         [s EXCEPT !.messages = m] \in SessionRecord
  BY DEF SessionRecord
<1>4. QED  BY <1>1, <1>2, <1>3 DEF Trim

LEMMA ReceivedType ==
  ASSUME NEW s \in SessionRecord, NEW k \in Clients, NEW t \in Topics
  PROVE  Received(s, k, t) \in SessionRecord
<1> DEFINE m == [s.messages EXCEPT ![t] = [from |-> k, nr |-> s.total + 1]]
           g == [f \in Filters |-> IF s.subs[f] # NotSubscribed /\ <<f, t>> \in Matching
                                   THEN s.subs[f] + 1 ELSE s.subs[f]]
           u == [s EXCEPT !.total = s.total + 1, !.messages = m, !.subs = g]
<1>1. s.total + 1 \in Nat  BY DEF SessionRecord
<1>2. m \in [Topics -> [from : Clients \cup {NoClient}, nr : Nat]]
  BY <1>1 DEF SessionRecord
<1>3. g \in [Filters -> Nat \cup {NotSubscribed}]
  BY DEF SessionRecord, NotSubscribed
<1>4. u \in SessionRecord
  <2> HIDE DEF m, g
  <2>1. QED  BY <1>1, <1>2, <1>3 DEF SessionRecord
<1>5. Received(s, k, t) = Trim(u)
  BY DEF Received
<1>6. QED  BY <1>4, <1>5, TrimType

-----------------------------------------------------------------------------
(* Every step keeps the types. *)

LEMMA AwaitType ==
  ASSUME TypeOK, NEW c \in Calls, NEW r \in Records
  PROVE  /\ \A at \in {"replacing", "disconnecting"} :
               Await(c, at, r, NoClient, NoFilter) => call' \in [Calls -> CallRecord]
         /\ \A at \in {"waiting", "resubscribing", "failing"}, k \in Clients :
               Await(c, at, r, k, NoFilter) => call' \in [Calls -> CallRecord]
         /\ \A at \in {"subscribing", "unsubscribing"}, k \in Clients, f \in Filters :
               Await(c, at, r, k, f) => call' \in [Calls -> CallRecord]
         /\ Return(c) => call' \in [Calls -> CallRecord]
<1>1. \A x \in CallRecord : [call EXCEPT ![c] = x] \in [Calls -> CallRecord]
  BY DEF TypeOK
<1>2. /\ \A at \in {"replacing", "disconnecting"} :
            [at |-> at, rec |-> r, client |-> NoClient, filter |-> NoFilter] \in CallRecord
      /\ \A at \in {"waiting", "resubscribing", "failing"}, k \in Clients :
            [at |-> at, rec |-> r, client |-> k, filter |-> NoFilter] \in CallRecord
      /\ \A at \in {"subscribing", "unsubscribing"}, k \in Clients, f \in Filters :
            [at |-> at, rec |-> r, client |-> k, filter |-> f] \in CallRecord
  BY DEF CallRecord
<1>3. QED  BY <1>1, <1>2, IdleType DEF Await, Return

LEMMA StartClientType ==
  ASSUME TypeOK, current' \in Records \cup {NoRecord}, used' \subseteq Records,
         NEW c \in Calls, NEW r \in Records, NEW k \in Clients,
         StartClient(c, r, k), UNCHANGED watcher, overlapped' \in BOOLEAN
  PROVE  TypeOK'
<1> DEFINE u == [session[r] EXCEPT !.client = k, !.status = "connecting",
                     !.subs = [f \in Filters |-> NotSubscribed],
                     !.messages = [t \in Topics |-> NoMessage], !.total = 0]
<1>1. u \in SessionRecord
  <2>1. session[r] \in SessionRecord  BY DEF TypeOK
  <2>2. [f \in Filters |-> NotSubscribed] \in [Filters -> Nat \cup {NotSubscribed}]
    OBVIOUS
  <2>3. [t \in Topics |-> NoMessage]
            \in [Topics -> [from : Clients \cup {NoClient}, nr : Nat]]
    BY DEF NoMessage
  <2>4. QED  BY <2>1, <2>2, <2>3 DEF SessionRecord, Status
<1>2. ChangeAndEmit(current', r, u)  BY DEF StartClient
<1>3. session' \in [Records -> SessionRecord] /\ stale' \subseteq Watchers
  <2> HIDE DEF u
  <2>1. QED  BY <1>1, <1>2, EmitFrame
<1>4. call' \in [Calls -> CallRecord]
  BY AwaitType DEF StartClient
<1>5. clientState' \in [Clients -> {"unused", "connecting", "up", "down", "ended"}]
  BY DEF StartClient, TypeOK
<1>6. QED  BY <1>3, <1>4, <1>5 DEF TypeOK

LEMMA EndClientType ==
  ASSUME TypeOK, current' \in Records \cup {NoRecord}, used' \subseteq Records,
         NEW c \in Calls, NEW r \in Records, NEW at \in {"replacing", "disconnecting"},
         EndClient(c, r, at), UNCHANGED watcher, overlapped' \in BOOLEAN
  PROVE  TypeOK'
<1>1. session' \in [Records -> SessionRecord]
  BY RecordUpdates, Zenon DEF EndClient, TypeOK
<1>2. call' \in [Calls -> CallRecord]
  BY AwaitType DEF EndClient
<1>3. clientState' \in [Clients -> {"unused", "connecting", "up", "down", "ended"}]
  BY DEF EndClient, TypeOK
<1>4. QED  BY <1>1, <1>2, <1>3 DEF TypeOK, EndClient

LEMMA CleanupType ==
  ASSUME TypeOK, NEW w \in Watchers, Cleanup(w),
         watcher' \in [Watchers -> {"unused", "open", "closed", "gone"}]
  PROVE  TypeOK'
<1>1. CASE current = NoRecord
  BY <1>1 DEF Cleanup, TypeOK
<1>2. CASE current \in Records
  <2> DEFINE left == session[current].listeners \ {w}
  <2>1. session[current] \in SessionRecord  BY <1>2 DEF TypeOK
  <2>2. session' = [session EXCEPT ![current].listeners = left,
                                   ![current].emitTimer = @ /\ left # {},
                                   ![current].closeTimer = @ \/ left = {}]
    BY <1>2, ConstantsAssumption, Zenon DEF Cleanup
  <2>3. \A l \in SUBSET Watchers, a, b \in BOOLEAN :
           [session[current] EXCEPT !.listeners = l, !.emitTimer = a, !.closeTimer = b]
              \in SessionRecord
    BY <2>1 DEF SessionRecord
  <2>4. /\ left \in SUBSET Watchers
        /\ (session[current].emitTimer /\ left # {}) \in BOOLEAN
        /\ (session[current].closeTimer \/ left = {}) \in BOOLEAN
    BY <2>1 DEF SessionRecord
  <2>5. session' \in [Records -> SessionRecord]
    <3> HIDE DEF left
    <3>1. session' = [session EXCEPT ![current] =
              [session[current] EXCEPT
                 !.listeners = left,
                 !.emitTimer = session[current].emitTimer /\ left # {},
                 !.closeTimer = session[current].closeTimer \/ left = {}]]
      BY <1>2, <2>1, <2>2, Zenon DEF TypeOK, SessionRecord
    <3>2. QED  BY <1>2, <2>3, <2>4, <3>1, Zenon DEF TypeOK
  <2>6. QED  BY <2>5, Zenon DEF Cleanup, TypeOK
<1>3. QED  BY <1>1, <1>2 DEF TypeOK

LEMMA TeardownEndsType ==
  ASSUME TypeOK, NEW r \in Records, TeardownEnds(r)
  PROVE  TypeOK'
<1> DEFINE s == [session[r] EXCEPT !.closing = session[r].closing - 1,
                                   !.status = "disconnected"]
<1>1. s \in SessionRecord
  <2>1. session[r] \in SessionRecord  BY DEF TypeOK
  <2>2. session[r].closing - 1 \in Nat  BY <2>1 DEF TeardownEnds, SessionRecord
  <2>3. QED  BY <2>1, <2>2 DEF SessionRecord, Status
<1>2. ChangeAndEmit(current, r, s) /\ current \in Records \cup {NoRecord}
  BY DEF TeardownEnds, TypeOK
<1>3. session' \in [Records -> SessionRecord] /\ stale' \subseteq Watchers
  <2> HIDE DEF s
  <2>1. QED  BY <1>1, <1>2, EmitFrame
<1>4. QED  BY <1>3 DEF TypeOK, TeardownEnds

LEMMA CloseTimerFiresType ==
  ASSUME TypeOK, NEW r \in Records, CloseTimerFires(r)
  PROVE  TypeOK'
<1>1. session[r] \in SessionRecord  BY DEF TypeOK
<1>2. session' \in [Records -> SessionRecord]
  <2>1. CASE session' = [session EXCEPT ![r].closeTimer = FALSE]
    BY <1>1, <2>1 DEF TypeOK, SessionRecord
  <2>2. CASE session' = [session EXCEPT ![r].closeTimer = FALSE,
                             ![r].status = "disconnected", ![r].emitTimer = FALSE]
    BY <1>1, <2>2 DEF TypeOK, SessionRecord, Status
  <2>3. CASE session' = [session EXCEPT ![r].closeTimer = FALSE,
                             ![r].client = NoClient, ![r].closing = @ + 1]
    BY <1>1, <2>3 DEF TypeOK, SessionRecord
  <2>4. QED  BY <2>1, <2>2, <2>3 DEF CloseTimerFires
<1>3. clientState' \in [Clients -> {"unused", "connecting", "up", "down", "ended"}]
  BY DEF CloseTimerFires, TypeOK
<1>4. current' \in Records \cup {NoRecord} /\ overlapped' \in BOOLEAN
  BY DEF CloseTimerFires, TypeOK, ConnectionChanging
<1>5. QED  BY <1>2, <1>3, <1>4 DEF CloseTimerFires, TypeOK

\* The common case: the record s replaces record r, its watchers are told, and
\* the call either waits or returns.
LEMMA ChangeType ==
  ASSUME TypeOK, current' \in Records \cup {NoRecord}, used' \subseteq Records,
         NEW cur \in Records \cup {NoRecord},
         NEW r \in Records, NEW s \in SessionRecord,
         ChangeAndEmit(cur, r, s) \/ ChangeAndSchedule(cur, r, s),
         clientState' \in [Clients -> {"unused", "connecting", "up", "down", "ended"}],
         call' \in [Calls -> CallRecord], UNCHANGED watcher, overlapped' \in BOOLEAN
  PROVE  TypeOK'
  BY EmitFrame DEF TypeOK

LEMMA ReportStatusType ==
  ASSUME TypeOK, NEW k \in Clients, NEW x \in Status, ReportStatus(k, x),
         UNCHANGED <<current, used, call, watcher, overlapped>>,
         clientState' \in [Clients -> {"unused", "connecting", "up", "down", "ended"}]
  PROVE  TypeOK'
<1>1. CASE Serves(k)
  <2>1. current \in Records /\ session[current] \in SessionRecord
    BY <1>1 DEF Serves, TypeOK
  <2>2. [session[current] EXCEPT !.status = x] \in SessionRecord
    BY <2>1, RecordUpdates, Zenon
  <2>3. ChangeAndEmit(current, current, [session[current] EXCEPT !.status = x])
    BY <1>1 DEF ReportStatus
  <2>4. QED  BY <2>1, <2>2, <2>3, ChangeType DEF TypeOK
<1>2. CASE ~Serves(k)
  BY <1>2 DEF ReportStatus, TypeOK
<1>3. QED  BY <1>1, <1>2

LEMMA TypeStep == TypeOK /\ [Next]_vars => TypeOK'
<1> SUFFICES ASSUME TypeOK, [Next]_vars PROVE TypeOK'
  OBVIOUS
<1> USE DEF Status
<1>0. /\ \A r \in Records : session[r] \in SessionRecord
      /\ \A c \in Calls : call[c] \in CallRecord
      /\ (overlapped \/ ConnectionChanging) \in BOOLEAN
  BY DEF TypeOK, ConnectionChanging
<1>1. ASSUME NEW r \in Records, NEW w \in Watchers, Watch(w, r) PROVE TypeOK'
  <2>1. \A l \in SUBSET Watchers :
           [session[r] EXCEPT !.closeTimer = FALSE, !.listeners = l] \in SessionRecord
    BY <1>0 DEF SessionRecord
  <2>2. session[r].listeners \cup {w} \in SUBSET Watchers
    BY <1>0 DEF SessionRecord
  <2>3. session' = [session EXCEPT ![r] = [session[r] EXCEPT
             !.closeTimer = FALSE, !.listeners = session[r].listeners \cup {w}]]
    BY <1>0, <1>1 DEF Watch, TypeOK, SessionRecord
  <2>4. session' \in [Records -> SessionRecord]
    <3>1. PICK u \in SessionRecord : u = [session[r] EXCEPT
             !.closeTimer = FALSE, !.listeners = session[r].listeners \cup {w}]
      BY <2>1, <2>2
    <3>2. session' = [session EXCEPT ![r] = u] /\ session \in [Records -> SessionRecord]
      BY <2>3, <3>1 DEF TypeOK
    <3>3. QED  BY <3>2
  <2>5. /\ current' \in Records \cup {NoRecord} /\ used' \subseteq Records
        /\ watcher' = [watcher EXCEPT ![w] = "open"]
        /\ UNCHANGED <<clientState, call, stale, overlapped>>
    BY <1>1, CreateType DEF Watch
  <2>6. QED  BY <2>4, <2>5 DEF TypeOK
<1>2. ASSUME NEW w \in Watchers, CloseStream(w) \/ CancelStream(w) PROVE TypeOK'
  BY <1>2, CleanupType DEF CloseStream, CancelStream, TypeOK
<1>3. ASSUME NEW r \in Records, EmitTimerFires(r) PROVE TypeOK'
  <2>1. [session[r] EXCEPT !.emitTimer = FALSE] \in SessionRecord
    BY <1>0 DEF SessionRecord
  <2>2. QED  BY <1>3, <2>1 DEF EmitTimerFires, TypeOK
<1>4. ASSUME NEW r \in Records, CloseTimerFires(r) \/ TeardownEnds(r) PROVE TypeOK'
  BY <1>4, CloseTimerFiresType, TeardownEndsType
<1>5. ASSUME NEW r \in Records, NEW c \in Calls, Connect(c, r) PROVE TypeOK'
  BY <1>0, <1>5, CreateType, EndClientType, StartClientType DEF Connect
<1>6. ASSUME NEW r \in Records, NEW c \in Calls, Disconnect(c, r) PROVE TypeOK'
  <2>1. CASE EndClient(c, r, "disconnecting")
    BY <1>0, <1>6, <2>1, CreateType, EndClientType DEF Disconnect
  <2>2. CASE ~EndClient(c, r, "disconnecting")
    <3>1. [session[r] EXCEPT !.status = "disconnected"] \in SessionRecord
      BY <1>0, RecordUpdates, Zenon
    <3>2. QED  BY <1>0, <1>6, <2>2, <3>1, CreateType, ChangeType, Zenon DEF Disconnect, TypeOK
  <2>3. QED  BY <2>1, <2>2
<1>7. ASSUME NEW r \in Records, ReadOnlyCall(r) PROVE TypeOK'
  BY <1>7, CreateType DEF ReadOnlyCall, TypeOK
<1>8. ASSUME NEW r \in Records, ClearMessages(r) PROVE TypeOK'
  <2> DEFINE g == [f \in Filters |-> IF session[r].subs[f] = NotSubscribed
                                     THEN session[r].subs[f] ELSE 0]
             u == [session[r] EXCEPT !.messages = [t \in Topics |-> NoMessage],
                                     !.total = 0, !.subs = g]
  <2>1. g \in [Filters -> Nat \cup {NotSubscribed}]
    BY <1>0 DEF SessionRecord
  <2>2. [t \in Topics |-> NoMessage]
            \in [Topics -> [from : Clients \cup {NoClient}, nr : Nat]]
    BY DEF NoMessage
  <2>3. u \in SessionRecord
    <3> HIDE DEF g
    <3>1. QED  BY <1>0, <2>1, <2>2 DEF SessionRecord
  <2>4. ChangeAndEmit(current', r, u)
    BY <1>8 DEF ClearMessages
  <2>5. QED
    <3> HIDE DEF u
    <3>1. QED  BY <1>8, <2>3, <2>4, CreateType, ChangeType DEF ClearMessages, TypeOK
<1>9. ASSUME NEW r \in Records, NEW n \in Limits \cup {NoLimit},
             SetTrackedTopicsLimit(r, n) PROVE TypeOK'
  <2>1. [session[r] EXCEPT !.limit = n] \in SessionRecord
    BY <1>0 DEF SessionRecord
  <2>2. Trim([session[r] EXCEPT !.limit = n]) \in SessionRecord
    BY <2>1, TrimType
  <2>3. QED
    BY <1>9, <2>2, CreateType, ChangeType DEF SetTrackedTopicsLimit, TypeOK
<1>10. ASSUME NEW r \in Records, NEW c \in Calls, NEW f \in Filters,
              Subscribe(c, r, f) PROVE TypeOK'
  <2>1. session[r].client \in Clients
    BY <1>0, <1>10 DEF SessionRecord, Subscribe, IsConnected
  <2>2. call' \in [Calls -> CallRecord]
    BY <1>10, <2>1, AwaitType DEF Subscribe
  <2>3. QED  BY <1>10, <2>2, CreateType DEF Subscribe, TypeOK
<1>11. ASSUME NEW r \in Records, NEW c \in Calls, NEW f \in Filters,
              Unsubscribe(c, r, f) PROVE TypeOK'
  <2>1. IsConnected(session[r]) => session[r].client \in Clients
    BY <1>0 DEF SessionRecord, IsConnected
  <2>2. call' \in [Calls -> CallRecord]
    BY <1>11, <2>1, AwaitType DEF Unsubscribe, TypeOK
  <2>3. [session[r] EXCEPT !.subs[f] = NotSubscribed] \in SessionRecord
    BY <1>0, RecordUpdates, Zenon
  <2>4. QED  BY <1>11, <2>2, <2>3, CreateType, ChangeType DEF Unsubscribe, TypeOK
<1>12. ASSUME NEW c \in Calls, ConnectResumes(c) PROVE TypeOK'
  <2>1. call[c].rec \in Records
    BY <1>12, CallFields DEF ConnectResumes
  <2>2. QED
    BY <1>12, <2>1, StartClientType DEF ConnectResumes, TypeOK
<1>13. ASSUME NEW c \in Calls, ConnectSucceeds(c) \/ ResubscribeEnds(c) PROVE TypeOK'
  <2>0. call[c].rec \in Records
    BY <1>13, CallFields DEF ConnectSucceeds, ResubscribeEnds
  <2>1. [session[call[c].rec] EXCEPT !.status = "connected"] \in SessionRecord
    BY <1>0, <1>13, <2>0, RecordUpdates, Zenon
  <2>2. call[c].client \in Clients
    BY <1>13, <2>0, CallFields DEF ConnectSucceeds, ResubscribeEnds
  <2>3. call' \in [Calls -> CallRecord]
    BY <1>13, <2>0, <2>2, AwaitType DEF ConnectSucceeds, ResubscribeEnds
  <2>4. clientState' \in [Clients -> {"unused", "connecting", "up", "down", "ended"}]
    BY <1>13 DEF ConnectSucceeds, ResubscribeEnds, TypeOK
  <2>5. \/ ChangeAndEmit(current', call[c].rec,
                         [session[call[c].rec] EXCEPT !.status = "connected"])
        \/ UNCHANGED <<session, stale>>
    BY <1>13 DEF ConnectSucceeds, ResubscribeEnds
  <2>6. UNCHANGED <<current, used, watcher, overlapped>>
    BY <1>13 DEF ConnectSucceeds, ResubscribeEnds
  <2>7. QED  BY <1>13, <2>0, <2>1, <2>3, <2>4, <2>5, <2>6, ChangeType, Zenon DEF TypeOK
<1>14. ASSUME NEW c \in Calls, ConnectFails(c) PROVE TypeOK'
  <2>0. call[c].rec \in Records
    BY <1>14, CallFields DEF ConnectFails
  <2>1. /\ [session[call[c].rec] EXCEPT !.client = NoClient, !.status = "error"]
              \in SessionRecord
        /\ [session[call[c].rec] EXCEPT !.client = NoClient] \in SessionRecord
    BY <1>0, <1>14, <2>0, RecordUpdates, Zenon
  <2>2. call[c].client \in Clients
    BY <1>14, <2>0, CallFields DEF ConnectFails
  <2>3. call' \in [Calls -> CallRecord]
    BY <1>14, <2>0, <2>2, AwaitType DEF ConnectFails
  <2>4. clientState' \in [Clients -> {"unused", "connecting", "up", "down", "ended"}]
    BY <1>14 DEF ConnectFails, TypeOK
  <2>5. \/ ChangeAndEmit(current', call[c].rec,
                [session[call[c].rec] EXCEPT !.client = NoClient, !.status = "error"])
        \/ /\ session' = [session EXCEPT ![call[c].rec].client = NoClient]
           /\ UNCHANGED stale
    BY <1>14 DEF ConnectFails
  <2>6. UNCHANGED <<current, used, watcher, overlapped>>
    BY <1>14 DEF ConnectFails
  <2>7. QED  BY <1>14, <2>0, <2>1, <2>3, <2>4, <2>5, <2>6, ChangeType, Zenon DEF TypeOK
<1>15. ASSUME NEW c \in Calls, ConnectFailed(c) \/ DisconnectEnds(c) PROVE TypeOK'
  <2>0. call[c].rec \in Records
    BY <1>15, CallFields DEF ConnectFailed, DisconnectEnds
  <2>1. \A x \in Status : [session[call[c].rec] EXCEPT !.status = x] \in SessionRecord
    BY <1>0, <1>15, <2>0, RecordUpdates, Zenon
  <2>2. call' \in [Calls -> CallRecord]
    BY <1>15, <2>0, IdleType DEF ConnectFailed, DisconnectEnds, Return, TypeOK
  <2>3. QED
    BY <1>15, <2>0, <2>1, <2>2, ChangeType DEF ConnectFailed, DisconnectEnds, TypeOK
<1>16. ASSUME NEW c \in Calls, SubscribeAcked(c) \/ UnsubscribeAcked(c) PROVE TypeOK'
  <2>0. call[c].rec \in Records /\ call[c].filter \in Filters
    BY <1>16, CallFields DEF SubscribeAcked, UnsubscribeAcked
  <2>1. \A n \in Nat \cup {NotSubscribed} :
            [session[call[c].rec] EXCEPT !.subs[call[c].filter] = n] \in SessionRecord
    BY <1>0, <1>16, <2>0, RecordUpdates, Zenon
  <2>2. call' \in [Calls -> CallRecord]
    BY <1>16, <2>0, IdleType DEF SubscribeAcked, UnsubscribeAcked, Return, TypeOK
  <2>3. QED
    BY <1>16, <2>0, <2>1, <2>2, ChangeType DEF SubscribeAcked, UnsubscribeAcked, TypeOK
<1>17. ASSUME NEW c \in Calls, RequestFails(c) PROVE TypeOK'
  BY <1>17, IdleType DEF RequestFails, Return, TypeOK
<1>18. ASSUME NEW k \in Clients,
              ClientDrops(k) \/ ClientRetries(k) \/ ClientReconnects(k) PROVE TypeOK'
  BY <1>18, ReportStatusType DEF ClientDrops, ClientRetries, ClientReconnects, TypeOK
<1>19. ASSUME NEW k \in Clients, NEW t \in Topics, Message(k, t) PROVE TypeOK'
  <2>1. current \in Records
    BY <1>19 DEF Message, Serves, TypeOK
  <2>2. Received(session[current], k, t) \in SessionRecord
    BY <1>0, <2>1, ReceivedType
  <2>3. QED  BY <1>19, <2>1, <2>2, ChangeType DEF Message, TypeOK
<1>20. CASE UNCHANGED vars
  BY <1>20 DEF vars, TypeOK
<1>21. QED
  BY <1>1, <1>2, <1>3, <1>4, <1>5, <1>6, <1>7, <1>8, <1>9, <1>10, <1>11, <1>12, <1>13,
     <1>14, <1>15, <1>16, <1>17, <1>18, <1>19, <1>20 DEF Next

\* Type correctness of every reachable state.
THEOREM TypeCorrect == Spec => []TypeOK
<1>1. Init => TypeOK
  BY NewSessionType, IdleType DEF Init, TypeOK
<1>2. QED  BY <1>1, TypeStep, PTL DEF Spec

-----------------------------------------------------------------------------
(* No watcher is stranded, and no update is lost. *)

WatchInv == TypeOK /\ ListenersOnCurrent /\ NoLostUpdate

\* What every step but those of streams and timers does to the watchers:
\* nothing, unless it sends them the latest state.
Quiet ==
    /\ UNCHANGED watcher
    /\ \A q \in Records : session'[q].listeners = session[q].listeners
    /\ current' = current \/ (current = NoRecord /\ current' \in Records)
    /\ \/ stale' = {}
       \/ /\ stale' = stale
          /\ \A q \in Records : session'[q].emitTimer = session[q].emitTimer

\* While there is no record of the key, nobody watches and nothing is owed.
LEMMA NobodyWithoutRecord ==
  ASSUME WatchInv, current = NoRecord
  PROVE  /\ stale = {}
         /\ \A w \in Watchers : watcher[w] # "open"
         /\ \A r \in Records : session[r].listeners = {}
  BY ConstantsAssumption DEF WatchInv, TypeOK, ListenersOnCurrent, NoLostUpdate

LEMMA StaleAreListeners ==
  ASSUME WatchInv
  PROVE  \A r \in Records : session[r].listeners # {} => r = current
  BY DEF WatchInv, ListenersOnCurrent

LEMMA QuietKeepsWatchInv ==
  ASSUME WatchInv, TypeOK', Quiet
  PROVE  WatchInv'
<1>1. ListenersOnCurrent'
  BY NobodyWithoutRecord, ConstantsAssumption DEF Quiet, WatchInv, ListenersOnCurrent
<1>2. NoLostUpdate'
  <2>1. CASE stale' = {}
    BY <2>1 DEF NoLostUpdate
  <2>2. CASE current = NoRecord
    BY <2>2, NobodyWithoutRecord DEF Quiet, NoLostUpdate
  <2>3. CASE stale' # {} /\ current # NoRecord
    BY <2>3 DEF Quiet, WatchInv, NoLostUpdate, TypeOK
  <2>4. QED  BY <2>1, <2>2, <2>3
<1>3. QED  BY <1>1, <1>2 DEF WatchInv

\* A change that leaves the listeners alone and is sent at once is quiet.
LEMMA EmitIsQuiet ==
  ASSUME WatchInv, NEW cur \in Records \cup {NoRecord}, NEW r \in Records,
         NEW s \in SessionRecord, s.listeners = session[r].listeners,
         ChangeAndEmit(cur, r, s), cur = current \/ current = NoRecord
  PROVE  /\ \A q \in Records : session'[q].listeners = session[q].listeners
         /\ stale' = {}
<1>1. TypeOK  BY DEF WatchInv
<1>2. \A q \in Records : session'[q].listeners = session[q].listeners
  BY <1>1, EmitFrame
<1>3. s.listeners \subseteq (IF current = NoRecord THEN {} ELSE session[current].listeners)
  BY NobodyWithoutRecord, StaleAreListeners
<1>4. stale \subseteq (IF current = NoRecord THEN {} ELSE session[current].listeners)
  BY NobodyWithoutRecord DEF WatchInv, NoLostUpdate
<1>5. CASE current = NoRecord
  BY <1>2, <1>3, <1>4, <1>5 DEF ChangeAndEmit
<1>6. CASE current # NoRecord
  <2>1. current \in Records /\ cur = current
    BY <1>1, <1>6 DEF TypeOK
  <2>2. [session EXCEPT ![r] = s][current].listeners = session[current].listeners
    BY <1>1, <2>1 DEF TypeOK
  <2>3. stale' = (stale \cup s.listeners) \ session[current].listeners
    BY <1>6, <2>1, <2>2 DEF ChangeAndEmit
  <2>4. QED  BY <1>2, <1>3, <1>4, <1>6, <2>3
<1>7. QED  BY <1>5, <1>6

LEMMA ReportStatusIsQuiet ==
  ASSUME WatchInv, NEW k \in Clients, NEW x \in Status, ReportStatus(k, x)
  PROVE  /\ \A q \in Records : session'[q].listeners = session[q].listeners
         /\ stale' = {} \/ UNCHANGED <<session, stale>>
<1>1. CASE Serves(k)
  <2>1. current \in Records /\ session[current] \in SessionRecord
    BY <1>1 DEF Serves, WatchInv, TypeOK
  <2>2. [session[current] EXCEPT !.status = x] \in SessionRecord
    BY <2>1, RecordUpdates, Zenon
  <2>3. [session[current] EXCEPT !.status = x].listeners = session[current].listeners
    BY <2>1 DEF SessionRecord
  <2>4. ChangeAndEmit(current, current, [session[current] EXCEPT !.status = x])
    BY <1>1 DEF ReportStatus
  <2>5. QED  BY <2>1, <2>2, <2>3, <2>4, EmitIsQuiet
<1>2. CASE ~Serves(k)
  BY <1>2 DEF ReportStatus
<1>3. QED  BY <1>1, <1>2

\* The steps that are neither a stream's, a timer's nor a message's are quiet.
QuietStep ==
    \/ \E r \in Records :
          \/ ReadOnlyCall(r) \/ ClearMessages(r)
          \/ \E n \in Limits \cup {NoLimit} : SetTrackedTopicsLimit(r, n)
          \/ \E c \in Calls : Connect(c, r) \/ Disconnect(c, r)
          \/ \E c \in Calls, f \in Filters : Subscribe(c, r, f) \/ Unsubscribe(c, r, f)
    \/ \E c \in Calls :
          \/ ConnectResumes(c) \/ ConnectSucceeds(c) \/ ResubscribeEnds(c)
          \/ ConnectFails(c) \/ ConnectFailed(c) \/ DisconnectEnds(c)
          \/ SubscribeAcked(c) \/ UnsubscribeAcked(c) \/ RequestFails(c)
    \/ \E k \in Clients : ClientDrops(k) \/ ClientRetries(k) \/ ClientReconnects(k)

LEMMA QuietSteps ==
  ASSUME WatchInv, QuietStep
  PROVE  Quiet
<1> USE DEF Status
<1>0. /\ TypeOK
      /\ \A r \in Records : session[r] \in SessionRecord
  BY DEF WatchInv, TypeOK
<1>1. ASSUME NEW r \in Records, GetOrCreateSession(r)
      PROVE  /\ current' = current \/ (current = NoRecord /\ current' \in Records)
             /\ current' \in Records \cup {NoRecord}
             /\ current' = current \/ current = NoRecord
  BY <1>0, <1>1 DEF GetOrCreateSession, TypeOK
<1>2. ASSUME UNCHANGED <<session, stale>>
      PROVE  /\ \A q \in Records : session'[q].listeners = session[q].listeners
             /\ stale' = stale
             /\ \A q \in Records : session'[q].emitTimer = session[q].emitTimer
  BY <1>2
<1>3. ASSUME NEW r \in Records, session' = [session EXCEPT ![r].client = NoClient]
      PROVE  /\ \A q \in Records : session'[q].listeners = session[q].listeners
             /\ \A q \in Records : session'[q].emitTimer = session[q].emitTimer
  BY <1>0, <1>3 DEF TypeOK, SessionRecord
<1>4. ASSUME NEW r \in Records
      PROVE  /\ \A x \in Status :
                  /\ [session[r] EXCEPT !.status = x] \in SessionRecord
                  /\ [session[r] EXCEPT !.status = x].listeners = session[r].listeners
             /\ \A x \in Status :
                  /\ [session[r] EXCEPT !.client = NoClient, !.status = x] \in SessionRecord
                  /\ [session[r] EXCEPT !.client = NoClient, !.status = x].listeners
                        = session[r].listeners
             /\ \A f \in Filters, n \in Nat \cup {NotSubscribed} :
                  /\ [session[r] EXCEPT !.subs[f] = n] \in SessionRecord
                  /\ [session[r] EXCEPT !.subs[f] = n].listeners = session[r].listeners
  <2> HIDE DEF Status
  <2>1. session[r] \in SessionRecord  BY <1>0
  <2>2. PICK s \in SessionRecord : s = session[r]  BY <2>1
  <2>3. \A x \in Status :
           /\ [s EXCEPT !.status = x] \in SessionRecord
           /\ [s EXCEPT !.status = x].listeners = s.listeners
    BY RecordUpdates, RecordUpdatesKeepListeners, Zenon
  <2>4. \A x \in Status :
           /\ [s EXCEPT !.client = NoClient, !.status = x] \in SessionRecord
           /\ [s EXCEPT !.client = NoClient, !.status = x].listeners = s.listeners
    <3>1. NoClient \in Clients \cup {NoClient}
      OBVIOUS
    <3>2. \A x \in Status : [s EXCEPT !.client = NoClient, !.status = x] \in SessionRecord
      BY <3>1, RecordUpdates, Zenon
    <3>3. \A x : [s EXCEPT !.client = NoClient, !.status = x].listeners = s.listeners
      BY RecordUpdatesKeepListeners, Zenon
    <3>4. QED  BY <3>2, <3>3, Zenon
  <2>5. \A f \in Filters, n \in Nat \cup {NotSubscribed} :
           [s EXCEPT !.subs[f] = n] \in SessionRecord
    BY RecordUpdates, Zenon
  <2>6. \A f, n : [s EXCEPT !.subs[f] = n].listeners = s.listeners
    BY RecordUpdatesKeepListeners, Zenon
  <2>7. QED  BY <2>2, <2>3, <2>4, <2>5, <2>6, Zenon
<1>5. ASSUME NEW r \in Records, NEW k \in Clients, NEW c \in Calls, StartClient(c, r, k),
             current' = current \/ current = NoRecord, current' \in Records \cup {NoRecord}
      PROVE  /\ \A q \in Records : session'[q].listeners = session[q].listeners
             /\ stale' = {}
  <2> DEFINE u == [session[r] EXCEPT !.client = k, !.status = "connecting",
                     !.subs = [f \in Filters |-> NotSubscribed],
                     !.messages = [t \in Topics |-> NoMessage], !.total = 0]
  <2>1. [f \in Filters |-> NotSubscribed] \in [Filters -> Nat \cup {NotSubscribed}]
    OBVIOUS
  <2>2. [t \in Topics |-> NoMessage]
            \in [Topics -> [from : Clients \cup {NoClient}, nr : Nat]]
    BY DEF NoMessage
  <2>3. u \in SessionRecord /\ u.listeners = session[r].listeners
    BY <1>0, <2>1, <2>2 DEF SessionRecord
  <2>4. ChangeAndEmit(current', r, u)  BY <1>5 DEF StartClient
  <2>5. QED
    <3> HIDE DEF u
    <3>1. QED  BY <1>5, <2>3, <2>4, EmitIsQuiet
<1>6. ASSUME NEW r \in Records, NEW c \in Calls, NEW at, EndClient(c, r, at)
      PROVE  /\ \A q \in Records : session'[q].listeners = session[q].listeners
             /\ stale' = stale
             /\ \A q \in Records : session'[q].emitTimer = session[q].emitTimer
  BY <1>3, <1>6 DEF EndClient
<1>7. ASSUME NEW r \in Records, NEW c \in Calls, Connect(c, r) PROVE Quiet
  BY <1>1, <1>5, <1>6, <1>7 DEF Connect, Quiet
<1>8. ASSUME NEW r \in Records, NEW c \in Calls, Disconnect(c, r) PROVE Quiet
  <2>1. CASE EndClient(c, r, "disconnecting")
    BY <1>1, <1>6, <1>8, <2>1 DEF Disconnect, Quiet
  <2>2. CASE ChangeAndEmit(current', r, [session[r] EXCEPT !.status = "disconnected"])
    BY <1>1, <1>4, <1>8, <2>2, EmitIsQuiet, Zenon DEF Disconnect, Quiet
  <2>3. QED  BY <1>8, <2>1, <2>2 DEF Disconnect
<1>9. ASSUME NEW r \in Records, ReadOnlyCall(r) PROVE Quiet
  BY <1>1, <1>2, <1>9 DEF ReadOnlyCall, Quiet
<1>10. ASSUME NEW r \in Records, ClearMessages(r) PROVE Quiet
  <2> DEFINE g == [f \in Filters |-> IF session[r].subs[f] = NotSubscribed
                                     THEN session[r].subs[f] ELSE 0]
             u == [session[r] EXCEPT !.messages = [t \in Topics |-> NoMessage],
                                     !.total = 0, !.subs = g]
  <2>1. g \in [Filters -> Nat \cup {NotSubscribed}]
    BY <1>0 DEF SessionRecord
  <2>2. [t \in Topics |-> NoMessage]
            \in [Topics -> [from : Clients \cup {NoClient}, nr : Nat]]
    BY DEF NoMessage
  <2>3. u \in SessionRecord /\ u.listeners = session[r].listeners
    <3> HIDE DEF g
    <3>1. QED  BY <1>0, <2>1, <2>2 DEF SessionRecord
  <2>4. ChangeAndEmit(current', r, u)
    BY <1>10 DEF ClearMessages
  <2>5. QED
    <3> HIDE DEF u
    <3>1. QED  BY <1>1, <1>10, <2>3, <2>4, EmitIsQuiet DEF ClearMessages, Quiet
<1>11. ASSUME NEW r \in Records, NEW n \in Limits \cup {NoLimit},
              SetTrackedTopicsLimit(r, n) PROVE Quiet
  <2> DEFINE u == [session[r] EXCEPT !.limit = n]
  <2>1. u \in SessionRecord /\ u.listeners = session[r].listeners
    BY <1>0 DEF SessionRecord
  <2>2. Trim(u) \in SessionRecord  BY <2>1, TrimType
  <2>3. Trim(u).listeners = u.listeners
    <3> HIDE DEF u
    <3>1. QED  BY <2>1 DEF Trim, SessionRecord
  <2>4. QED
    BY <1>1, <1>11, <2>1, <2>2, <2>3, EmitIsQuiet DEF SetTrackedTopicsLimit, Quiet
<1>12. ASSUME NEW r \in Records, NEW c \in Calls, NEW f \in Filters,
              Subscribe(c, r, f) PROVE Quiet
  BY <1>1, <1>2, <1>12 DEF Subscribe, Quiet
<1>13. ASSUME NEW r \in Records, NEW c \in Calls, NEW f \in Filters,
              Unsubscribe(c, r, f) PROVE Quiet
  <2>1. CASE UNCHANGED <<session, stale>>
    BY <1>1, <1>2, <1>13, <2>1 DEF Unsubscribe, Quiet
  <2>2. CASE ChangeAndEmit(current', r, [session[r] EXCEPT !.subs[f] = NotSubscribed])
    BY <1>1, <1>4, <1>13, <2>2, EmitIsQuiet, Zenon DEF Unsubscribe, Quiet
  <2>3. QED  BY <1>13, <2>1, <2>2 DEF Unsubscribe
<1>14. ASSUME NEW c \in Calls, ConnectResumes(c) PROVE Quiet
  <2>1. call[c].rec \in Records /\ current' = current /\ current \in Records \cup {NoRecord}
    BY <1>0, <1>14, CallFields DEF ConnectResumes, TypeOK
  <2>2. QED  BY <1>5, <1>14, <2>1 DEF ConnectResumes, Quiet
<1>15. ASSUME NEW c \in Calls,
              \/ ConnectSucceeds(c) \/ ResubscribeEnds(c) \/ ConnectFails(c)
              \/ ConnectFailed(c) \/ DisconnectEnds(c)
       PROVE  Quiet
  <2>1. /\ call[c].rec \in Records /\ current' = current /\ UNCHANGED watcher
        /\ current \in Records \cup {NoRecord}
    BY <1>0, <1>15, CallFields
    DEF ConnectSucceeds, ResubscribeEnds, ConnectFails, ConnectFailed, DisconnectEnds, TypeOK
  <2>2. CASE UNCHANGED <<session, stale>>
    BY <1>2, <2>1, <2>2 DEF Quiet
  <2>3. CASE /\ session' = [session EXCEPT ![call[c].rec].client = NoClient]
             /\ UNCHANGED stale
    BY <1>3, <2>1, <2>3 DEF Quiet
  <2>4. CASE ChangeAndEmit(current', call[c].rec, [session[call[c].rec] EXCEPT
                                         !.client = NoClient, !.status = "error"])
    BY <1>4, <2>1, <2>4, EmitIsQuiet, Zenon DEF Quiet
  <2>5. CASE \E x \in Status :
                ChangeAndEmit(current', call[c].rec, [session[call[c].rec] EXCEPT !.status = x])
    BY <1>4, <2>1, <2>5, EmitIsQuiet, Zenon DEF Quiet
  <2>6. QED
    BY <1>15, <2>2, <2>3, <2>4, <2>5
    DEF ConnectSucceeds, ResubscribeEnds, ConnectFails, ConnectFailed, DisconnectEnds
<1>16. ASSUME NEW c \in Calls, SubscribeAcked(c) \/ UnsubscribeAcked(c) PROVE Quiet
  <2>1. /\ call[c].rec \in Records /\ call[c].filter \in Filters
        /\ current' = current /\ UNCHANGED watcher
        /\ current \in Records \cup {NoRecord}
    BY <1>0, <1>16, CallFields DEF SubscribeAcked, UnsubscribeAcked, TypeOK
  <2>2. PICK n \in Nat \cup {NotSubscribed} :
           ChangeAndEmit(current', call[c].rec,
                         [session[call[c].rec] EXCEPT !.subs[call[c].filter] = n])
    BY <1>16 DEF SubscribeAcked, UnsubscribeAcked
  <2>3. QED  BY <1>4, <2>1, <2>2, EmitIsQuiet, Zenon DEF Quiet
<1>17. ASSUME NEW c \in Calls, RequestFails(c) PROVE Quiet
  BY <1>2, <1>17 DEF RequestFails, Quiet
<1>18. ASSUME NEW k \in Clients,
              ClientDrops(k) \/ ClientRetries(k) \/ ClientReconnects(k) PROVE Quiet
  BY <1>2, <1>18, ReportStatusIsQuiet DEF ClientDrops, ClientRetries, ClientReconnects, Quiet
<1>19. QED
  BY <1>7, <1>8, <1>9, <1>10, <1>11, <1>12, <1>13, <1>14, <1>15, <1>16, <1>17, <1>18
  DEF QuietStep

LEMMA WatchKeepsWatchInv ==
  ASSUME WatchInv, TypeOK', NEW w \in Watchers, NEW r \in Records, Watch(w, r)
  PROVE  WatchInv'
<1>0. \A q \in Records : session[q] \in SessionRecord
  BY DEF WatchInv, TypeOK
<1>1. /\ current' = r
      /\ current = r \/ current = NoRecord
      /\ watcher' = [watcher EXCEPT ![w] = "open"]
      /\ stale' = stale
  BY DEF Watch, GetOrCreateSession
<1>2. \A q \in Records :
         /\ session'[q].listeners =
                IF q = r THEN session[q].listeners \cup {w} ELSE session[q].listeners
         /\ session'[q].emitTimer = session[q].emitTimer
  <2>1. PICK s \in SessionRecord : s = session[r]
    BY <1>0
  <2>2. PICK u : u = [s EXCEPT !.closeTimer = FALSE, !.listeners = s.listeners \cup {w}]
    OBVIOUS
  <2>3. u.listeners = s.listeners \cup {w} /\ u.emitTimer = s.emitTimer
    BY <2>2 DEF SessionRecord
  <2>4. session' = [session EXCEPT ![r] = [session[r] EXCEPT
             !.closeTimer = FALSE, !.listeners = session[r].listeners \cup {w}]]
    <3>1. PICK S \in [Records -> SessionRecord] : S = session
      BY DEF WatchInv, TypeOK
    <3>2. session' = [S EXCEPT ![r].closeTimer = FALSE, ![r].listeners = @ \cup {w}]
      BY <3>1 DEF Watch
    <3>3. QED  BY <3>1, <3>2 DEF SessionRecord
  <2>5. session \in [Records -> SessionRecord] /\ session' = [session EXCEPT ![r] = u]
    BY <2>1, <2>2, <2>4 DEF WatchInv, TypeOK
  <2>6. QED  BY <2>1, <2>3, <2>5
<1>3. \A v \in Watchers : watcher'[v] = "open" <=> (v = w \/ watcher[v] = "open")
  BY <1>1 DEF WatchInv, TypeOK
<1>4. {v \in Watchers : watcher'[v] = "open"} = {v \in Watchers : watcher[v] = "open"} \cup {w}
  BY <1>3
<1>5. ListenersOnCurrent'
  <2>1. \A v \in Watchers : watcher'[v] = "open" => current' # NoRecord
    BY <1>1, ConstantsAssumption
  <2>2. ASSUME NEW q \in Records
        PROVE  session'[q].listeners =
                  IF q = current' THEN {v \in Watchers : watcher'[v] = "open"} ELSE {}
    <3>1. CASE current = r
      BY <1>1, <1>2, <1>4, <3>1 DEF WatchInv, ListenersOnCurrent
    <3>2. CASE current = NoRecord
      BY <1>1, <1>2, <1>4, <3>2, NobodyWithoutRecord
    <3>3. QED  BY <1>1, <3>1, <3>2
  <2>3. QED  BY <2>1, <2>2 DEF ListenersOnCurrent
<1>6. NoLostUpdate'
  <2>1. CASE current = NoRecord
    BY <1>1, <2>1, NobodyWithoutRecord DEF NoLostUpdate
  <2>2. CASE current = r
    <3>1. current' = current /\ current # NoRecord /\ stale' = stale
      BY <1>1, <2>2, ConstantsAssumption
    <3>2. /\ session'[r].emitTimer = session[r].emitTimer
          /\ session[r].listeners \subseteq session'[r].listeners
      BY <1>2
    <3>3. stale \subseteq Watchers
      BY DEF WatchInv, TypeOK
    <3>4. \A v \in stale : /\ watcher[v] = "open" /\ v \in session[r].listeners
                           /\ session[r].emitTimer
      BY <2>2 DEF WatchInv, NoLostUpdate
    <3>5. QED  BY <1>3, <2>2, <3>1, <3>2, <3>3, <3>4 DEF NoLostUpdate
  <2>3. QED  BY <1>1, <2>1, <2>2
<1>7. QED  BY <1>5, <1>6 DEF WatchInv

\* A stream may clean up twice, and after its record is gone.
LEMMA CleanupKeepsWatchInv ==
  ASSUME WatchInv, TypeOK', NEW w \in Watchers, Cleanup(w),
         NEW x \in {"closed", "gone"}, watcher' = [watcher EXCEPT ![w] = x]
  PROVE  WatchInv'
<1> DEFINE left == session[current].listeners \ {w}
<1>0. \A q \in Records : session[q] \in SessionRecord
  BY DEF WatchInv, TypeOK
<1>1. current' = current /\ stale' = stale \ {w}
  BY Zenon DEF Cleanup
<1>2. \A v \in Watchers : watcher'[v] = "open" <=> (v # w /\ watcher[v] = "open")
  BY DEF WatchInv, TypeOK
<1>3. CASE current = NoRecord
  <2>1. session' = session /\ stale' = {}
    BY <1>1, <1>3, NobodyWithoutRecord DEF Cleanup
  <2>2. ListenersOnCurrent'
    BY <1>1, <1>2, <1>3, <2>1, NobodyWithoutRecord, ConstantsAssumption DEF ListenersOnCurrent
  <2>3. QED  BY <2>1, <2>2 DEF WatchInv, NoLostUpdate
<1>4. CASE current # NoRecord
  <2>1. current \in Records
    BY <1>4 DEF WatchInv, TypeOK
  <2>2. session' = [session EXCEPT ![current].listeners = left,
                                   ![current].emitTimer = @ /\ left # {},
                                   ![current].closeTimer = @ \/ left = {}]
    BY <1>4, Zenon DEF Cleanup
  <2>3. /\ session'[current].listeners = left
        /\ left # {} => session'[current].emitTimer = session[current].emitTimer
        /\ \A q \in Records \ {current} : session'[q].listeners = session[q].listeners
    <3>1. session[current] \in SessionRecord
      BY <1>0, <2>1
    <3> HIDE DEF left
    <3>2. session' = [session EXCEPT ![current] =
             [session[current] EXCEPT
                !.listeners = left,
                !.emitTimer = session[current].emitTimer /\ left # {},
                !.closeTimer = session[current].closeTimer \/ left = {}]]
      <4>1. PICK S \in [Records -> SessionRecord] : S = session
        BY DEF WatchInv, TypeOK
      <4>2. session' = [S EXCEPT ![current].listeners = left,
                                 ![current].emitTimer = @ /\ left # {},
                                 ![current].closeTimer = @ \/ left = {}]
        BY <2>2, <4>1
      <4>3. DOMAIN S[current] = {"client", "status", "subs", "messages", "total", "limit",
                                 "listeners", "emitTimer", "closeTimer", "closing"}
        BY <2>1 DEF SessionRecord
      <4>4. QED  BY <2>1, <4>1, <4>2, <4>3, Zenon
    <3>3. /\ session'[current] =
                [session[current] EXCEPT
                  !.listeners = left,
                  !.emitTimer = session[current].emitTimer /\ left # {},
                  !.closeTimer = session[current].closeTimer \/ left = {}]
          /\ \A q \in Records \ {current} : session'[q] = session[q]
      BY <2>1, <3>2 DEF WatchInv, TypeOK
    <3>4. session'[current].listeners = left
      BY <3>1, <3>3 DEF SessionRecord
    <3>5. session'[current].emitTimer = (session[current].emitTimer /\ left # {})
      BY <3>1, <3>3 DEF SessionRecord
    <3>6. session[current].emitTimer \in BOOLEAN
      BY <3>1 DEF SessionRecord
    <3>7. QED  BY <3>3, <3>4, <3>5, <3>6
  <2>4. session[current].listeners = {v \in Watchers : watcher[v] = "open"}
    BY <2>1 DEF WatchInv, ListenersOnCurrent
  <2>5. left = {v \in Watchers : watcher'[v] = "open"}
    BY <1>2, <2>4
  <2> HIDE DEF left
  <2>6. ListenersOnCurrent'
    BY <1>1, <1>4, <2>1, <2>3, <2>5 DEF WatchInv, ListenersOnCurrent
  <2>7. NoLostUpdate'
    <3>1. SUFFICES ASSUME NEW v \in stale'
                   PROVE  /\ watcher'[v] = "open" /\ current' # NoRecord
                          /\ v \in session'[current'].listeners
                          /\ session'[current'].emitTimer
      BY DEF NoLostUpdate
    <3>2. v \in stale /\ v # w
      BY <1>1
    <3>3. /\ watcher[v] = "open" /\ v \in session[current].listeners
          /\ session[current].emitTimer
      BY <3>2 DEF WatchInv, NoLostUpdate
    <3>4. v \in left
      BY <3>2, <3>3 DEF left
    <3>5. v \in Watchers
      BY <3>2 DEF WatchInv, TypeOK
    <3>6. QED  BY <1>1, <1>2, <1>4, <2>3, <3>2, <3>3, <3>4, <3>5
  <2>8. QED  BY <2>6, <2>7 DEF WatchInv
<1>5. QED  BY <1>3, <1>4

LEMMA TimersKeepWatchInv ==
  ASSUME WatchInv, TypeOK', NEW r \in Records,
         EmitTimerFires(r) \/ CloseTimerFires(r) \/ TeardownEnds(r)
  PROVE  WatchInv'
<1>0. /\ \A q \in Records : session[q] \in SessionRecord
      /\ session \in [Records -> SessionRecord]
      /\ current \in Records \cup {NoRecord}
  BY DEF WatchInv, TypeOK
<1>1. CASE EmitTimerFires(r)
  <2>1. \A q \in Records : session'[q].listeners = session[q].listeners
    BY <1>0, <1>1 DEF EmitTimerFires, SessionRecord
  <2>2. stale' = {}
    BY <1>1, NobodyWithoutRecord DEF EmitTimerFires, WatchInv, NoLostUpdate
  <2>3. QED  BY <1>1, <2>1, <2>2, QuietKeepsWatchInv DEF Quiet, EmitTimerFires
<1>2. CASE CloseTimerFires(r)
  <2>1. \A q \in Records : /\ session'[q].listeners = session[q].listeners
                           /\ current' # NoRecord =>
                                 session'[q].emitTimer = session[q].emitTimer
    <3>1. CASE session' = [session EXCEPT ![r].closeTimer = FALSE]
      BY <1>0, <3>1 DEF SessionRecord
    <3>2. CASE /\ session' = [session EXCEPT ![r].closeTimer = FALSE,
                               ![r].status = "disconnected", ![r].emitTimer = FALSE]
               /\ current' = NoRecord
      BY <1>0, <3>2 DEF SessionRecord
    <3>3. CASE session' = [session EXCEPT ![r].closeTimer = FALSE,
                               ![r].client = NoClient, ![r].closing = @ + 1]
      BY <1>0, <3>3 DEF SessionRecord
    <3>4. QED  BY <1>2, <3>1, <3>2, <3>3 DEF CloseTimerFires
  <2>2. UNCHANGED <<watcher, stale>>
    BY <1>2 DEF CloseTimerFires
  <2>3. CASE current' = current /\ current # NoRecord
    BY <2>1, <2>2, <2>3, QuietKeepsWatchInv DEF Quiet
  <2>4. CASE current = NoRecord
    BY <1>2, <2>1, <2>2, <2>4, NobodyWithoutRecord, QuietKeepsWatchInv,
       ConstantsAssumption DEF Quiet, CloseTimerFires
  <2>5. CASE current' = NoRecord /\ current = r /\ session[r].listeners = {}
    <3>1. /\ \A w \in Watchers : watcher[w] # "open"
          /\ stale = {}
          /\ \A q \in Records : session[q].listeners = {}
      BY <2>5 DEF WatchInv, ListenersOnCurrent, NoLostUpdate, TypeOK
    <3>2. QED
      BY <2>1, <2>2, <2>5, <3>1, ConstantsAssumption
      DEF WatchInv, ListenersOnCurrent, NoLostUpdate
  <2>6. QED  BY <1>2, <2>3, <2>4, <2>5 DEF CloseTimerFires
<1>3. CASE TeardownEnds(r)
  <2> DEFINE s == [session[r] EXCEPT !.closing = session[r].closing - 1,
                                     !.status = "disconnected"]
  <2>1. s \in SessionRecord /\ s.listeners = session[r].listeners
    <3>1. session[r].closing - 1 \in Nat
      BY <1>0, <1>3 DEF TeardownEnds, SessionRecord
    <3>2. PICK q \in SessionRecord : q = session[r]  BY <1>0
    <3>3. PICK n \in Nat : n = session[r].closing - 1  BY <3>1
    <3>4. QED  BY <3>2, <3>3, TeardownUpdates
  <2>2. ChangeAndEmit(current, r, s) /\ UNCHANGED watcher
    BY <1>3 DEF TeardownEnds
  <2> HIDE DEF s
  <2>3. /\ \A q \in Records : session'[q].listeners = session[q].listeners
        /\ stale' = {}
    BY <1>0, <2>1, <2>2, EmitIsQuiet
  <2>4. CASE current' = current
    BY <2>2, <2>3, <2>4, QuietKeepsWatchInv DEF Quiet
  <2>5. CASE current' = NoRecord /\ current = r /\ session[r].listeners = {}
    <3>1. /\ \A w \in Watchers : watcher[w] # "open"
          /\ \A q \in Records : session[q].listeners = {}
      BY <2>5 DEF WatchInv, ListenersOnCurrent
    <3>2. QED
      BY <2>2, <2>3, <2>5, <3>1, ConstantsAssumption
      DEF WatchInv, ListenersOnCurrent, NoLostUpdate
  <2>6. QED  BY <1>3, <2>4, <2>5 DEF TeardownEnds
<1>4. QED  BY <1>1, <1>2, <1>3

\* A message is announced by the timer, which it arms.
LEMMA MessageKeepsWatchInv ==
  ASSUME WatchInv, TypeOK', NEW k \in Clients, NEW t \in Topics, Message(k, t)
  PROVE  WatchInv'
<1> DEFINE s == Received(session[current], k, t)
<1>0. /\ current \in Records /\ session[current] \in SessionRecord
      /\ session \in [Records -> SessionRecord] /\ TypeOK
      /\ UNCHANGED <<current, watcher>>
  BY DEF Message, Serves, WatchInv, TypeOK
<1>1. s \in SessionRecord
  BY <1>0, ReceivedType
<1>2. s.listeners = session[current].listeners
  BY <1>0 DEF Received, Trim, SessionRecord
<1>3. ChangeAndSchedule(current, current, s)
  BY DEF Message
<1> HIDE DEF s
<1>4. \A q \in Records : session'[q].listeners = session[q].listeners
  BY <1>0, <1>1, <1>2, <1>3, EmitFrame
<1>5. session'[current].emitTimer
  BY <1>0, <1>1, <1>3, ConstantsAssumption DEF ChangeAndSchedule, SessionRecord
<1>6. stale' \subseteq session[current].listeners
  BY <1>2, <1>3 DEF ChangeAndSchedule, WatchInv, NoLostUpdate
<1>7. ListenersOnCurrent'
  BY <1>0, <1>4 DEF WatchInv, ListenersOnCurrent
<1>8. NoLostUpdate'
  BY <1>0, <1>4, <1>5, <1>6, <1>7, ConstantsAssumption
  DEF WatchInv, ListenersOnCurrent, NoLostUpdate
<1>9. QED  BY <1>7, <1>8 DEF WatchInv

LEMMA WatchInvStep == WatchInv /\ [Next]_vars => WatchInv'
<1> SUFFICES ASSUME WatchInv, [Next]_vars PROVE WatchInv'
  OBVIOUS
<1>1. TypeOK'
  BY TypeStep DEF WatchInv
<1>2. CASE QuietStep
  BY <1>1, <1>2, QuietSteps, QuietKeepsWatchInv
<1>3. ASSUME NEW w \in Watchers, NEW r \in Records, Watch(w, r) PROVE WatchInv'
  BY <1>1, <1>3, WatchKeepsWatchInv
<1>4. ASSUME NEW w \in Watchers, CloseStream(w) \/ CancelStream(w) PROVE WatchInv'
  BY <1>1, <1>4, CleanupKeepsWatchInv DEF CloseStream, CancelStream
<1>5. ASSUME NEW r \in Records,
             EmitTimerFires(r) \/ CloseTimerFires(r) \/ TeardownEnds(r)
      PROVE  WatchInv'
  BY <1>1, <1>5, TimersKeepWatchInv
<1>6. ASSUME NEW k \in Clients, NEW t \in Topics, Message(k, t) PROVE WatchInv'
  BY <1>1, <1>6, MessageKeepsWatchInv
<1>7. CASE UNCHANGED vars
  BY <1>7, <1>1 DEF vars, WatchInv, ListenersOnCurrent, NoLostUpdate
<1>8. QED
  BY <1>2, <1>3, <1>4, <1>5, <1>6, <1>7 DEF Next, QuietStep

LEMMA WatchInvariant == Spec => []WatchInv
<1>1. Init => WatchInv
  <2>1. Init => TypeOK
    BY NewSessionType, IdleType DEF Init, TypeOK
  <2>2. Init => ListenersOnCurrent /\ NoLostUpdate
    BY ConstantsAssumption DEF Init, ListenersOnCurrent, NoLostUpdate, NewSession
  <2>3. QED  BY <2>1, <2>2 DEF WatchInv
<1>2. QED  BY <1>1, WatchInvStep, PTL DEF Spec

\* No stream the browser still holds is ever stranded on a record that calls and
\* events no longer reach, whatever the teardown's await interleaves with.
THEOREM WatchersServed == Spec => []ListenersOnCurrent
<1>1. WatchInv => ListenersOnCurrent
  BY DEF WatchInv
<1>2. QED  BY <1>1, WatchInvariant, PTL

\* The coalesced sends of scheduleEmit lose no update: what a stream has not been
\* sent, an armed timer will send it.
THEOREM UpdatesKept == Spec => []NoLostUpdate
<1>1. WatchInv => NoLostUpdate
  BY DEF WatchInv
<1>2. QED  BY <1>1, WatchInvariant, PTL

-----------------------------------------------------------------------------
(* Refinement of the abstract channel. *)

\* Every step of the service, seen from the browsers, is a step of the channel.
LEMMA ChannelStep ==
  ASSUME WatchInv, WatchInv', [Next]_vars
  PROVE  [Channel!Next]_(Channel!channel)
<1> DEFINE open == {w \in Watchers : watcher[w] = "open"}
<1> USE DEF Channel!Next, Channel!channel
<1>0. /\ TypeOK /\ TypeOK'
      /\ \A q \in Records : session[q] \in SessionRecord
      /\ NoRecord \notin Records
  BY ConstantsAssumption DEF WatchInv, TypeOK
<1>1. CASE QuietStep
  <2>1. Quiet
    BY <1>1, QuietSteps
  <2>2. CASE current' # NoRecord /\ stale' = {}
    BY <2>1, <2>2 DEF Quiet, Channel!Change
  <2>3. CASE current' = NoRecord
    <3>1. current = NoRecord
      BY <1>0, <2>1, <2>3 DEF Quiet
    <3>2. stale = {} /\ stale' = {}
      BY <2>1, <3>1, NobodyWithoutRecord DEF Quiet
    <3>3. QED  BY <2>1, <2>3, <3>1, <3>2 DEF Quiet
  <2>4. CASE current' # NoRecord /\ stale' = stale
    <3>1. CASE current = NoRecord
      BY <2>1, <2>4, <3>1, NobodyWithoutRecord DEF Quiet, Channel!Change
    <3>2. CASE current # NoRecord
      BY <2>1, <2>4, <3>2 DEF Quiet
    <3>3. QED  BY <3>1, <3>2
  <2>5. QED  BY <2>1, <2>2, <2>3, <2>4 DEF Quiet
<1>2. ASSUME NEW w \in Watchers, NEW r \in Records, Watch(w, r) PROVE Channel!Attach(w)
  <2>1. {v \in Watchers : watcher'[v] = "open"} = open \cup {w}
    BY <1>0, <1>2 DEF Watch, TypeOK
  <2>2. current' # NoRecord /\ w \notin open /\ stale' = stale
    BY <1>0, <1>2 DEF Watch, GetOrCreateSession
  <2>3. QED  BY <2>1, <2>2 DEF Channel!Attach
<1>3. ASSUME NEW w \in Watchers, CloseStream(w) PROVE Channel!Detach(w)
  <2>1. {v \in Watchers : watcher'[v] = "open"} = open \ {w}
    BY <1>0, <1>3 DEF CloseStream, TypeOK
  <2>2. current' = current /\ w \in open /\ stale' = stale \ {w}
    BY <1>3, Zenon DEF CloseStream, Cleanup
  <2>3. QED  BY <2>1, <2>2 DEF Channel!Detach
<1>4. ASSUME NEW w \in Watchers, CancelStream(w) PROVE UNCHANGED Channel!channel
  <2>1. {v \in Watchers : watcher'[v] = "open"} = open
    BY <1>0, <1>4 DEF CancelStream, TypeOK
  <2>2. w \notin stale
    BY <1>4 DEF CancelStream, WatchInv, NoLostUpdate
  <2>3. current' = current /\ stale' = stale \ {w}
    BY <1>4, Zenon DEF CancelStream, Cleanup
  <2>4. stale' = stale
    BY <2>2, <2>3
  <2>5. QED  BY <2>1, <2>3, <2>4
<1>5. ASSUME NEW r \in Records, EmitTimerFires(r) PROVE Channel!Send
  <2>1. stale' = {}
    BY <1>5, NobodyWithoutRecord DEF EmitTimerFires, WatchInv, NoLostUpdate
  <2>2. QED  BY <1>5, <2>1 DEF EmitTimerFires, Channel!Send
<1>6. ASSUME NEW r \in Records, CloseTimerFires(r)
      PROVE  Channel!Expire \/ UNCHANGED Channel!channel
  <2>1. UNCHANGED <<watcher, stale>>
    BY <1>6 DEF CloseTimerFires
  <2>2. CASE current' = current
    BY <2>1, <2>2
  <2>3. CASE current' = NoRecord /\ current = r /\ session[r].listeners = {}
    <3>1. open = {} /\ stale = {}
      BY <2>3 DEF WatchInv, ListenersOnCurrent, NoLostUpdate
    <3>2. QED  BY <2>1, <2>3, <3>1 DEF Channel!Expire
  <2>4. QED  BY <1>6, <2>2, <2>3 DEF CloseTimerFires
<1>7. ASSUME NEW r \in Records, TeardownEnds(r) PROVE Channel!Expire \/ Channel!Send
  <2> DEFINE s == [session[r] EXCEPT !.closing = session[r].closing - 1,
                                     !.status = "disconnected"]
  <2>1. s \in SessionRecord /\ s.listeners = session[r].listeners
    <3>1. session[r].closing - 1 \in Nat
      BY <1>0, <1>7 DEF TeardownEnds, SessionRecord
    <3>2. PICK q \in SessionRecord : q = session[r]  BY <1>0
    <3>3. PICK n \in Nat : n = session[r].closing - 1  BY <3>1
    <3>4. QED  BY <3>2, <3>3, TeardownUpdates
  <2>2. ChangeAndEmit(current, r, s) /\ UNCHANGED watcher
    BY <1>7 DEF TeardownEnds
  <2> HIDE DEF s
  <2>3. stale' = {} 
    BY <1>0, <2>1, <2>2, EmitIsQuiet DEF TypeOK
  <2>4. CASE current' = current
    BY <2>2, <2>3, <2>4 DEF Channel!Send
  <2>5. CASE current' = NoRecord /\ current = r /\ session[r].listeners = {}
    <3>1. open = {}
      BY <2>5 DEF WatchInv, ListenersOnCurrent
    <3>2. QED  BY <2>2, <2>3, <2>5, <3>1 DEF Channel!Expire
  <2>6. QED  BY <1>7, <2>4, <2>5 DEF TeardownEnds
<1>8. ASSUME NEW k \in Clients, NEW t \in Topics, Message(k, t) PROVE Channel!Change
  <2> DEFINE s == Received(session[current], k, t)
  <2>1. current \in Records /\ UNCHANGED <<current, watcher>>
    BY <1>0, <1>8 DEF Message, Serves, TypeOK
  <2>2. s.listeners = open
    <3>1. s.listeners = session[current].listeners
      BY <1>0, <2>1 DEF Received, Trim, SessionRecord
    <3>2. session[current].listeners = open
      BY <2>1 DEF WatchInv, ListenersOnCurrent
    <3>3. QED  BY <3>1, <3>2
  <2>3. stale' = stale \cup s.listeners
    BY <1>8 DEF Message, ChangeAndSchedule
  <2>4. stale \subseteq open
    BY <1>0 DEF WatchInv, NoLostUpdate, TypeOK
  <2> HIDE DEF s
  <2>5. QED  BY <1>0, <2>1, <2>2, <2>3, <2>4 DEF Channel!Change
<1>9. CASE UNCHANGED vars
  BY <1>9 DEF vars
<1>10. QED
  BY <1>1, <1>2, <1>3, <1>4, <1>5, <1>6, <1>7, <1>8, <1>9 DEF Next, QuietStep

\* What the browsers see of the service is always something ExplorerChannel allows.
THEOREM RefinesChannel == Spec => Channel!Safety
<1>1. Init => Channel!Init
  BY DEF Init, Channel!Init
<1>2. QED
  BY <1>1, WatchInvariant, ChannelStep, PTL DEF Spec, Channel!Safety

-----------------------------------------------------------------------------
(* The statistics and topics of a record. *)

RecordSound(s) ==
    /\ \A f \in Filters : s.subs[f] <= s.total
    /\ \A t \in Topics : s.messages[t].nr <= s.total
    /\ s.client # NoClient =>
          \A t \in Topics : s.messages[t].from \in {NoClient, s.client}

SoundInv == TypeOK /\ \A r \in Records : RecordSound(session[r])

\* What keeps a record sound: it forgets its client, or subscriptions start anew.
LEMMA SoundUpdates ==
  ASSUME NEW s \in SessionRecord, RecordSound(s)
  PROVE  /\ \A x : RecordSound([s EXCEPT !.status = x])
         /\ RecordSound([s EXCEPT !.client = NoClient])
         /\ \A x : RecordSound([s EXCEPT !.client = NoClient, !.status = x])
         /\ \A f \in Filters, n \in {0, NotSubscribed} : RecordSound([s EXCEPT !.subs[f] = n])
         /\ \A n : RecordSound([s EXCEPT !.limit = n])
<1>1. \A x : RecordSound([s EXCEPT !.status = x])
  BY DEF SessionRecord, RecordSound
<1>2. RecordSound([s EXCEPT !.client = NoClient])
  BY DEF SessionRecord, RecordSound
<1>3. \A x : RecordSound([s EXCEPT !.client = NoClient, !.status = x])
  BY DEF SessionRecord, RecordSound
<1>4. ASSUME NEW f \in Filters, NEW n \in {0, NotSubscribed}
      PROVE  RecordSound([s EXCEPT !.subs[f] = n])
  <2> DEFINE g == [s.subs EXCEPT ![f] = n]
             u == [s EXCEPT !.subs = g]
  <2>1. \A h \in Filters : g[h] <= s.total
    BY DEF SessionRecord, RecordSound, NotSubscribed
  <2>2. [s EXCEPT !.subs[f] = n] = u
    BY DEF SessionRecord
  <2>3. u.subs = g /\ u.total = s.total /\ u.messages = s.messages /\ u.client = s.client
    BY DEF SessionRecord
  <2> HIDE DEF g, u
  <2>4. QED  BY <2>1, <2>2, <2>3 DEF RecordSound
<1>5. \A n : RecordSound([s EXCEPT !.limit = n])
  BY DEF SessionRecord, RecordSound
<1>6. QED  BY <1>1, <1>2, <1>3, <1>4, <1>5, Zenon

LEMMA TrimSound ==
  ASSUME NEW s \in SessionRecord, RecordSound(s)
  PROVE  RecordSound(Trim(s))
<1>1. PICK m \in [Topics -> [from : Clients \cup {NoClient}, nr : Nat]] :
         /\ Trim(s) = [s EXCEPT !.messages = m]
         /\ \A t \in Topics : m[t] = s.messages[t] \/ m[t] = NoMessage
  <2> DEFINE m == [t \in Topics |->
                     IF Cardinality({u \in Tracked(s) : s.messages[u].nr > s.messages[t].nr})
                           < EffectiveLimit(s)
                     THEN s.messages[t] ELSE NoMessage]
  <2>1. m \in [Topics -> [from : Clients \cup {NoClient}, nr : Nat]]
    BY DEF NoMessage, SessionRecord
  <2>2. \A t \in Topics : m[t] = s.messages[t] \/ m[t] = NoMessage
    OBVIOUS
  <2>3. Trim(s) = [s EXCEPT !.messages = m]
    BY DEF Trim
  <2>4. QED
    <3> HIDE DEF m
    <3>1. QED  BY <2>1, <2>2, <2>3
<1>2. RecordSound([s EXCEPT !.messages = m])
  BY <1>1 DEF RecordSound, SessionRecord, NoMessage
<1>3. QED  BY <1>1, <1>2

LEMMA ReceivedSound ==
  ASSUME NEW s \in SessionRecord, RecordSound(s), s.client \in Clients, NEW t \in Topics
  PROVE  RecordSound(Received(s, s.client, t))
<1> DEFINE k == s.client
           m == [s.messages EXCEPT ![t] = [from |-> k, nr |-> s.total + 1]]
           g == [f \in Filters |-> IF s.subs[f] # NotSubscribed /\ <<f, t>> \in Matching
                                   THEN s.subs[f] + 1 ELSE s.subs[f]]
           u == [s EXCEPT !.total = s.total + 1, !.messages = m, !.subs = g]
<1>1. s.total + 1 \in Nat  BY DEF SessionRecord
<1>2. /\ m \in [Topics -> [from : Clients \cup {NoClient}, nr : Nat]]
      /\ \A v \in Topics : m[v].nr <= s.total + 1 /\ m[v].from \in {NoClient, k}
  BY <1>1, ConstantsAssumption DEF SessionRecord, RecordSound
<1>3. /\ g \in [Filters -> Nat \cup {NotSubscribed}]
      /\ \A f \in Filters : g[f] <= s.total + 1
  BY DEF SessionRecord, RecordSound, NotSubscribed
<1>4. u \in SessionRecord /\ RecordSound(u)
  <2> HIDE DEF m, g
  <2>1. u \in SessionRecord
    BY <1>1, <1>2, <1>3 DEF SessionRecord
  <2>2. u.total = s.total + 1 /\ u.messages = m /\ u.subs = g /\ u.client = k
    BY DEF SessionRecord
  <2> HIDE DEF u
  <2>3. QED  BY <1>2, <1>3, <2>1, <2>2 DEF RecordSound
<1>5. Received(s, s.client, t) = Trim(u)
  BY DEF Received
<1> HIDE DEF u
<1>6. QED  BY <1>4, <1>5, TrimSound

LEMMA EmitSound ==
  ASSUME SoundInv, NEW cur \in Records \cup {NoRecord}, NEW r \in Records,
         NEW s \in SessionRecord, RecordSound(s),
         ChangeAndEmit(cur, r, s) \/ ChangeAndSchedule(cur, r, s)
  PROVE  \A q \in Records : RecordSound(session'[q])
<1>1. TypeOK  BY DEF SoundInv
<1>2. \A q \in Records :
         /\ session'[q].client    = IF q = r THEN s.client ELSE session[q].client
         /\ session'[q].subs      = IF q = r THEN s.subs ELSE session[q].subs
         /\ session'[q].messages  = IF q = r THEN s.messages ELSE session[q].messages
         /\ session'[q].total     = IF q = r THEN s.total ELSE session[q].total
  BY <1>1, EmitFrame
<1>3. QED  BY <1>2 DEF SoundInv, RecordSound

\* A step that changes none of the fields RecordSound reads, or clears a client.
LEMMA FrameSound ==
  ASSUME SoundInv, NEW r \in Records,
         \A q \in Records :
            /\ session'[q].client \in {session[q].client, NoClient}
            /\ session'[q].subs = session[q].subs
            /\ session'[q].messages = session[q].messages
            /\ session'[q].total = session[q].total
  PROVE  \A q \in Records : RecordSound(session'[q])
  BY DEF SoundInv, RecordSound

LEMMA StartClientSound ==
  ASSUME SoundInv, current' \in Records \cup {NoRecord},
         NEW c \in Calls, NEW r \in Records, NEW k \in Clients, StartClient(c, r, k)
  PROVE  \A q \in Records : RecordSound(session'[q])
<1> DEFINE u == [session[r] EXCEPT !.client = k, !.status = "connecting",
                     !.subs = [f \in Filters |-> NotSubscribed],
                     !.messages = [t \in Topics |-> NoMessage], !.total = 0]
<1>1. u \in SessionRecord /\ RecordSound(u)
  <2>1. session[r] \in SessionRecord  BY DEF SoundInv, TypeOK
  <2>2. [f \in Filters |-> NotSubscribed] \in [Filters -> Nat \cup {NotSubscribed}]
    OBVIOUS
  <2>3. [t \in Topics |-> NoMessage]
            \in [Topics -> [from : Clients \cup {NoClient}, nr : Nat]]
    BY DEF NoMessage
  <2>4. u \in SessionRecord  BY <2>1, <2>2, <2>3 DEF SessionRecord, Status
  <2>5. RecordSound(u)
    BY <2>1 DEF RecordSound, SessionRecord, NotSubscribed, NoMessage
  <2>6. QED  BY <2>4, <2>5
<1>2. ChangeAndEmit(current', r, u)  BY DEF StartClient
<1> HIDE DEF u
<1>3. QED  BY <1>1, <1>2, EmitSound

LEMMA SoundStep == SoundInv /\ [Next]_vars => SoundInv'
<1> SUFFICES ASSUME SoundInv, [Next]_vars
             PROVE  \A q \in Records : RecordSound(session'[q])
  BY TypeStep DEF SoundInv
<1> DEFINE Sound == \A q \in Records : RecordSound(session'[q])
<1> USE DEF Status
<1>0. /\ TypeOK /\ current \in Records \cup {NoRecord}
      /\ session \in [Records -> SessionRecord]
      /\ \A q \in Records : session[q] \in SessionRecord /\ RecordSound(session[q])
  BY DEF SoundInv, TypeOK
<1>1. ASSUME UNCHANGED session PROVE Sound
  BY <1>0, <1>1
<1>2. ASSUME NEW r \in Records, session' = [session EXCEPT ![r].client = NoClient] PROVE Sound
  BY <1>0, <1>2, SoundUpdates, Zenon
<1>3. ASSUME NEW r \in Records, GetOrCreateSession(r)
      PROVE  current' \in Records \cup {NoRecord}
  BY <1>0, <1>3, CreateType
<1>4. ASSUME NEW r \in Records, NEW x \in Status, NEW cur \in Records \cup {NoRecord},
             \/ ChangeAndEmit(cur, r, [session[r] EXCEPT !.status = x])
             \/ ChangeAndEmit(cur, r, [session[r] EXCEPT !.client = NoClient, !.status = x])
      PROVE  Sound
  <2>1. PICK u \in SessionRecord : RecordSound(u) /\ ChangeAndEmit(cur, r, u)
    BY <1>0, <1>4, RecordUpdates, SoundUpdates, Zenon
  <2>2. QED  BY <2>1, EmitSound
<1>5. ASSUME NEW r \in Records, NEW f \in Filters, NEW n \in {0, NotSubscribed},
             ChangeAndEmit(current', r, [session[r] EXCEPT !.subs[f] = n]),
             current' \in Records \cup {NoRecord}
      PROVE  Sound
  <2>1. /\ [session[r] EXCEPT !.subs[f] = n] \in SessionRecord
        /\ RecordSound([session[r] EXCEPT !.subs[f] = n])
    <3>1. PICK s \in SessionRecord : s = session[r] /\ RecordSound(s)  BY <1>0
    <3>2. [s EXCEPT !.subs[f] = n] \in SessionRecord
      BY DEF SessionRecord
    <3>3. RecordSound([s EXCEPT !.subs[f] = n])
      BY <3>1, SoundUpdates, Zenon
    <3>4. QED  BY <3>1, <3>2, <3>3
  <2>2. QED  BY <1>5, <2>1, EmitSound
<1>6. ASSUME NEW r \in Records, NEW w \in Watchers, Watch(w, r) PROVE Sound
  <2>1. \A q \in Records : /\ session'[q].client = session[q].client
                           /\ session'[q].subs = session[q].subs
                           /\ session'[q].messages = session[q].messages
                           /\ session'[q].total = session[q].total
    BY <1>0, <1>6 DEF Watch, SessionRecord
  <2>2. QED  BY <2>1, FrameSound
<1>7. ASSUME NEW w \in Watchers, CloseStream(w) \/ CancelStream(w) PROVE Sound
  <2>1. CASE current = NoRecord
    BY <1>1, <1>7, <2>1 DEF CloseStream, CancelStream, Cleanup
  <2>2. CASE current \in Records
    <3>1. \A q \in Records : /\ session'[q].client = session[q].client
                             /\ session'[q].subs = session[q].subs
                             /\ session'[q].messages = session[q].messages
                             /\ session'[q].total = session[q].total
      <4>1. PICK left, a, b :
               session' = [session EXCEPT ![current] =
                  [session[current] EXCEPT !.listeners = left, !.emitTimer = a,
                                           !.closeTimer = b]]
        <5> DEFINE l == session[current].listeners \ {w}
                   e == session[current].emitTimer /\ l # {}
                   d == session[current].closeTimer \/ l = {}
        <5>1. session' = [session EXCEPT ![current].listeners = l,
                                         ![current].emitTimer = @ /\ l # {},
                                         ![current].closeTimer = @ \/ l = {}]
          BY <1>7, <2>2, ConstantsAssumption, Zenon DEF CloseStream, CancelStream, Cleanup
        <5>2. session[current] \in SessionRecord  BY <1>0, <2>2
        <5>3. session' = [session EXCEPT ![current] =
                  [session[current] EXCEPT !.listeners = l, !.emitTimer = e,
                                           !.closeTimer = d]]
          <6> HIDE DEF l
          <6>1. QED  BY <1>0, <2>2, <5>1, <5>2, Zenon DEF SessionRecord
        <5> HIDE DEF l, e, d
        <5>4. QED  BY <5>3, Zenon
      <4>2. QED  BY <1>0, <2>2, <4>1 DEF SessionRecord
    <3>2. QED  BY <2>2, <3>1, FrameSound
  <2>3. QED  BY <1>0, <2>1, <2>2
<1>8. ASSUME NEW r \in Records, EmitTimerFires(r) \/ CloseTimerFires(r) PROVE Sound
  <2>1. \A q \in Records : /\ session'[q].client \in {session[q].client, NoClient}
                           /\ session'[q].subs = session[q].subs
                           /\ session'[q].messages = session[q].messages
                           /\ session'[q].total = session[q].total
    <3>1. CASE EmitTimerFires(r)
      BY <1>0, <3>1 DEF EmitTimerFires, SessionRecord
    <3>2. CASE session' = [session EXCEPT ![r].closeTimer = FALSE]
      BY <1>0, <3>2 DEF SessionRecord
    <3>3. CASE session' = [session EXCEPT ![r].closeTimer = FALSE,
                               ![r].status = "disconnected", ![r].emitTimer = FALSE]
      BY <1>0, <3>3 DEF SessionRecord
    <3>4. CASE session' = [session EXCEPT ![r].closeTimer = FALSE,
                               ![r].client = NoClient, ![r].closing = @ + 1]
      BY <1>0, <3>4 DEF SessionRecord
    <3>5. QED  BY <1>8, <3>1, <3>2, <3>3, <3>4 DEF CloseTimerFires
  <2>2. QED  BY <2>1, FrameSound
<1>9. ASSUME NEW r \in Records, TeardownEnds(r) PROVE Sound
  <2> DEFINE s == [session[r] EXCEPT !.closing = session[r].closing - 1,
                                     !.status = "disconnected"]
  <2>1. s \in SessionRecord
    <3>1. session[r].closing - 1 \in Nat
      BY <1>0, <1>9 DEF TeardownEnds, SessionRecord
    <3>2. PICK q \in SessionRecord : q = session[r]  BY <1>0
    <3>3. PICK n \in Nat : n = session[r].closing - 1  BY <3>1
    <3>4. QED  BY <3>2, <3>3, TeardownUpdates
  <2>2. RecordSound(s)
    BY <1>0 DEF RecordSound, SessionRecord
  <2>3. ChangeAndEmit(current, r, s)
    BY <1>9 DEF TeardownEnds
  <2> HIDE DEF s
  <2>4. QED  BY <1>0, <2>1, <2>2, <2>3, EmitSound
<1>10. ASSUME NEW r \in Records, NEW c \in Calls, Connect(c, r) PROVE Sound
  BY <1>2, <1>3, <1>10, StartClientSound DEF Connect, EndClient
<1>11. ASSUME NEW r \in Records, NEW c \in Calls, Disconnect(c, r) PROVE Sound
  <2>1. CASE EndClient(c, r, "disconnecting")
    BY <1>2, <2>1 DEF EndClient
  <2>2. CASE ChangeAndEmit(current', r, [session[r] EXCEPT !.status = "disconnected"])
    BY <1>3, <1>4, <1>11, <2>2, Zenon DEF Disconnect
  <2>3. QED  BY <1>11, <2>1, <2>2 DEF Disconnect
<1>12. ASSUME NEW r \in Records, ClearMessages(r) PROVE Sound
  <2> DEFINE g == [f \in Filters |-> IF session[r].subs[f] = NotSubscribed
                                     THEN session[r].subs[f] ELSE 0]
             m == [t \in Topics |-> NoMessage]
             u == [session[r] EXCEPT !.messages = m, !.total = 0, !.subs = g]
  <2>1. g \in [Filters -> Nat \cup {NotSubscribed}] /\ \A f \in Filters : g[f] <= 0
    BY <1>0 DEF SessionRecord, NotSubscribed
  <2>2. /\ m \in [Topics -> [from : Clients \cup {NoClient}, nr : Nat]]
        /\ \A t \in Topics : m[t].nr = 0 /\ m[t].from = NoClient
    BY DEF NoMessage
  <2>3. ChangeAndEmit(current', r, u)
    BY <1>12 DEF ClearMessages
  <2> HIDE DEF g, m
  <2>4. u \in SessionRecord
    <3>1. PICK s \in SessionRecord : s = session[r]
      BY <1>0
    <3>2. [s EXCEPT !.messages = m, !.total = 0, !.subs = g] \in SessionRecord
      BY ONLY <2>1, <2>2 DEF SessionRecord
    <3>3. QED  BY <3>1, <3>2
  <2>5. u.total = 0 /\ u.messages = m /\ u.subs = g
    BY <1>0 DEF SessionRecord
  <2> HIDE DEF u
  <2>6. RecordSound(u)
    BY <2>1, <2>2, <2>5 DEF RecordSound
  <2>7. QED  BY <1>3, <1>12, <2>3, <2>4, <2>6, EmitSound DEF ClearMessages
<1>13. ASSUME NEW r \in Records, NEW n \in Limits \cup {NoLimit},
              SetTrackedTopicsLimit(r, n) PROVE Sound
  <2>1. PICK u \in SessionRecord : RecordSound(u) /\ u = [session[r] EXCEPT !.limit = n]
    <3>1. [session[r] EXCEPT !.limit = n] \in SessionRecord
      BY <1>0 DEF SessionRecord
    <3>2. QED  BY <1>0, <3>1, SoundUpdates, Zenon
  <2>2. QED
    BY <1>3, <1>13, <2>1, TrimType, TrimSound, EmitSound DEF SetTrackedTopicsLimit
<1>14. ASSUME NEW r \in Records, NEW c \in Calls, NEW f \in Filters,
              Unsubscribe(c, r, f) PROVE Sound
  BY <1>1, <1>3, <1>5, <1>14 DEF Unsubscribe
<1>15. ASSUME NEW c \in Calls, ConnectResumes(c) PROVE Sound
  BY <1>0, <1>15, CallFields, StartClientSound DEF ConnectResumes
<1>16. ASSUME NEW c \in Calls,
              \/ ConnectSucceeds(c) \/ ResubscribeEnds(c) \/ ConnectFails(c)
              \/ ConnectFailed(c) \/ DisconnectEnds(c)
       PROVE  Sound
  <2>1. /\ call[c].rec \in Records /\ current' \in Records \cup {NoRecord}
    BY <1>0, <1>16, CallFields
    DEF ConnectSucceeds, ResubscribeEnds, ConnectFails, ConnectFailed, DisconnectEnds
  <2>2. CASE UNCHANGED session
    BY <1>1, <2>2
  <2>3. CASE session' = [session EXCEPT ![call[c].rec].client = NoClient]
    BY <1>2, <2>1, <2>3, Zenon
  <2>4. CASE \E x \in Status :
                \/ ChangeAndEmit(current', call[c].rec, [session[call[c].rec] EXCEPT !.status = x])
                \/ ChangeAndEmit(current', call[c].rec, [session[call[c].rec] EXCEPT
                                               !.client = NoClient, !.status = x])
    BY <1>4, <2>1, <2>4, Zenon
  <2>5. QED
    BY <1>16, <2>2, <2>3, <2>4
    DEF ConnectSucceeds, ResubscribeEnds, ConnectFails, ConnectFailed, DisconnectEnds
<1>17. ASSUME NEW c \in Calls, SubscribeAcked(c) \/ UnsubscribeAcked(c) PROVE Sound
  <2>1. /\ call[c].rec \in Records /\ call[c].filter \in Filters
        /\ current' \in Records \cup {NoRecord}
    BY <1>0, <1>17, CallFields DEF SubscribeAcked, UnsubscribeAcked
  <2>2. QED  BY <1>5, <1>17, <2>1 DEF SubscribeAcked, UnsubscribeAcked
<1>18. ASSUME NEW k \in Clients,
              ClientDrops(k) \/ ClientRetries(k) \/ ClientReconnects(k) PROVE Sound
  <2>1. \/ UNCHANGED session
        \/ \E x \in Status : /\ current \in Records
              /\ ChangeAndEmit(current, current, [session[current] EXCEPT !.status = x])
    BY <1>0, <1>18 DEF ClientDrops, ClientRetries, ClientReconnects, ReportStatus, Serves
  <2>2. QED  BY <1>1, <1>4, <2>1, Zenon
<1>19. ASSUME NEW k \in Clients, NEW t \in Topics, Message(k, t) PROVE Sound
  <2>1. current \in Records /\ session[current].client = k
    BY <1>0, <1>19 DEF Message, Serves
  <2>2. Received(session[current], k, t) \in SessionRecord
    BY <1>0, <2>1, ReceivedType
  <2>3. RecordSound(Received(session[current], k, t))
    BY <1>0, <2>1, ReceivedSound
  <2>4. QED  BY <1>19, <2>1, <2>2, <2>3, EmitSound DEF Message
<1>20. QED
  BY <1>1, <1>6, <1>7, <1>8, <1>9, <1>10, <1>11, <1>12, <1>13, <1>14, <1>15, <1>16,
     <1>17, <1>18, <1>19
  DEF Next, vars, ReadOnlyCall, Subscribe, RequestFails

LEMMA SoundInvariant == Spec => []SoundInv
<1>1. Init => SoundInv
  <2>1. Init => TypeOK
    BY NewSessionType, IdleType DEF Init, TypeOK
  <2>2. RecordSound(NewSession)
    BY DEF RecordSound, NewSession, NoMessage, NotSubscribed
  <2>3. QED  BY <2>1, <2>2 DEF Init, SoundInv
<1>2. QED  BY <1>1, SoundStep, PTL DEF Spec

\* A session never shows a message of its previous broker connection under the
\* next one.
THEOREM MessagesAreOfTheirClient == Spec => []NoForeignMessages
<1>1. SoundInv => NoForeignMessages
  BY DEF SoundInv, RecordSound, NoForeignMessages
<1>2. QED  BY <1>1, SoundInvariant, PTL

\* Clears, subscriptions and connects keep the counts of a session in step.
THEOREM CountsStayInStep == Spec => []CountsAgree
<1>1. SoundInv => CountsAgree
  BY DEF SoundInv, RecordSound, CountsAgree
<1>2. QED  BY <1>1, SoundInvariant, PTL

-----------------------------------------------------------------------------
(* The topics a record tracks. *)

\* A set of natural numbers has a least one.
LEMMA Least ==
  ASSUME NEW S, S \subseteq Nat, S # {}
  PROVE  \E x \in S : \A y \in S : x <= y
<1> DEFINE R == OpToRel(<, Nat)
<1>1. IsWellFoundedOn(R, Nat)
  BY NatLessThanWellFounded
<1>2. \A m, n \in Nat : m < n => <<m, n>> \in R
  BY DEF OpToRel
<1> HIDE DEF R
<1>3. S \subseteq Nat /\ S # {}
  OBVIOUS
<1>4. PICK x \in S : \A y \in S : ~(<<y, x>> \in R)
  BY <1>1, <1>3, WFMin
<1>5. \A y \in S : x \in Nat /\ y \in Nat /\ ~(y < x)
  BY <1>2, <1>3, <1>4
<1>6. \A y \in S : x <= y
  BY <1>5
<1>7. QED  BY <1>6

\* No more than n elements have fewer than n above them: the lowest of these has all
\* the others above it.
LEMMA TopMost ==
  ASSUME NEW T, IsFiniteSet(T), NEW f \in [T -> Nat],
         \A t, u \in T : f[t] = f[u] => t = u, NEW n \in Nat \ {0}
  PROVE  Cardinality({t \in T : Cardinality({u \in T : f[u] > f[t]}) < n}) <= n
<1> DEFINE Above(t) == {u \in T : f[u] > f[t]}
           S == {t \in T : Cardinality(Above(t)) < n}
           F == {f[t] : t \in S}
<1>1. CASE S = {}
  <2>1. Cardinality(S) = 0
    <3> HIDE DEF S
    <3>1. QED  BY <1>1, FS_EmptySet
  <2>2. QED  BY <2>1
<1>2. CASE S # {}
  <2>1. F \subseteq Nat /\ F # {}
    <3>1. S \subseteq T /\ \A t \in T : f[t] \in Nat
      OBVIOUS
    <3> HIDE DEF S
    <3>2. QED  BY <1>2, <3>1
  <2>2. PICK t \in S : \A u \in S : f[t] <= f[u]
    <3> HIDE DEF S
    <3>1. PICK x \in F : \A y \in F : x <= y
      <4> HIDE DEF F
      <4>1. QED  BY <2>1, Least
    <3>2. QED  BY <3>1
  <2>3. S \subseteq Above(t) \cup {t}
    BY <2>2
  <2>4. IsFiniteSet(Above(t))
    <3>1. Above(t) \subseteq T  OBVIOUS
    <3>2. QED  BY <3>1, FS_Subset
  <2>5. Cardinality(Above(t)) < n /\ t \notin Above(t)
    BY <2>2
  <2>6. Cardinality(Above(t)) \in Nat
    BY <2>4, FS_CardinalityType
  <2>7. /\ IsFiniteSet(Above(t) \cup {t})
        /\ Cardinality(Above(t) \cup {t}) = Cardinality(Above(t)) + 1
    <3> HIDE DEF Above
    <3>1. QED  BY <2>4, <2>5, FS_AddElement
  <2>8. IsFiniteSet(S) /\ Cardinality(S) <= Cardinality(Above(t) \cup {t})
    <3> HIDE DEF Above, S
    <3>1. QED  BY <2>3, <2>7, FS_Subset
  <2>9. Cardinality(S) \in Nat
    <3> HIDE DEF S
    <3>1. QED  BY <2>8, FS_CardinalityType
  <2>10. QED
    <3> HIDE DEF Above
    <3>1. Cardinality(S) <= n
      <4> HIDE DEF S
      <4>1. QED  BY <2>5, <2>6, <2>7, <2>8, <2>9
    <3>2. QED  BY <3>1 DEF Above
<1>3. QED  BY <1>1, <1>2

\* Each tracked topic has the number of one message the record has counted, and the
\* latest number is among these.
Numbered(s) ==
    /\ IsFiniteSet(Tracked(s))
    /\ \A t \in Tracked(s) : s.messages[t].nr \in 1..s.total
    /\ \A t, u \in Tracked(s) : s.messages[t].nr = s.messages[u].nr => t = u
    /\ s.total > 0 => \E t \in Tracked(s) : s.messages[t].nr = s.total

TrackedSound(s) == Numbered(s) /\ Cardinality(Tracked(s)) <= EffectiveLimit(s)

TrackedInv == TypeOK /\ \A r \in Records : TrackedSound(session[r])

LEMMA LimitType ==
  ASSUME NEW s \in SessionRecord
  PROVE  EffectiveLimit(s) \in Nat \ {0}
  BY ConstantsAssumption DEF SessionRecord, EffectiveLimit, NoLimit

\* TrackedSound depends on three fields.
LEMMA SameTopics ==
  ASSUME NEW s, NEW u, TrackedSound(s),
         u.messages = s.messages, u.total = s.total, u.limit = s.limit
  PROVE  TrackedSound(u)
  BY DEF TrackedSound, Numbered, Tracked, EffectiveLimit

LEMMA TrimTracked ==
  ASSUME NEW s \in SessionRecord, Numbered(s)
  PROVE  TrackedSound(Trim(s))
<1> DEFINE T == Tracked(s)
           L == EffectiveLimit(s)
           Newer(t) == {u \in T : s.messages[u].nr > s.messages[t].nr}
           m == [t \in Topics |-> IF Cardinality(Newer(t)) < L THEN s.messages[t] ELSE NoMessage]
           v == [s EXCEPT !.messages = m]
           S == {t \in T : Cardinality(Newer(t)) < L}
<1>1. Trim(s) = v
  BY DEF Trim
<1>2. v.messages = m /\ v.total = s.total /\ v.limit = s.limit
  BY DEF SessionRecord
<1>3. T \subseteq Topics /\ IsFiniteSet(T)
  BY DEF Tracked, Numbered
<1>4. L \in Nat \ {0}
  BY LimitType
<1>5. s.messages \in [Topics -> [from : Clients \cup {NoClient}, nr : Nat]] /\ s.total \in Nat
  BY DEF SessionRecord
<1>6. \A t \in Topics : m[t] = IF t \in S THEN s.messages[t] ELSE NoMessage
  BY DEF Tracked
<1>7. Tracked(v) = S
  <2> HIDE DEF m, v, S
  <2>1. Tracked(v) = {t \in Topics : m[t] # NoMessage}
    BY <1>2 DEF Tracked
  <2>2. \A t \in S : t \in Topics /\ s.messages[t] # NoMessage
    BY DEF S, Tracked
  <2>3. QED  BY <1>6, <2>1, <2>2
<1>8. S \subseteq T /\ IsFiniteSet(S)
  <2>1. S \subseteq T  OBVIOUS
  <2> HIDE DEF S, T
  <2>2. QED  BY <1>3, <2>1, FS_Subset
<1>9. Cardinality(S) <= L
  <2> DEFINE f == [t \in T |-> s.messages[t].nr]
  <2>1. f \in [T -> Nat]
    BY <1>3, <1>5
  <2>2. \A t, u \in T : f[t] = f[u] => t = u
    BY DEF Numbered
  <2>3. {t \in T : Cardinality({u \in T : f[u] > f[t]}) < L} = S
    <3>1. \A t \in T : {u \in T : f[u] > f[t]} = Newer(t)
      OBVIOUS
    <3> HIDE DEF f, T, L, Newer
    <3>2. QED  BY <3>1
  <2> HIDE DEF f, S, T, L
  <2>4. QED  BY <1>3, <1>4, <2>1, <2>2, <2>3, TopMost
<1>10. s.total > 0 => \E t \in S : s.messages[t].nr = s.total
  <2> SUFFICES ASSUME s.total > 0 PROVE \E t \in S : s.messages[t].nr = s.total
    OBVIOUS
  <2>1. PICK t \in T : s.messages[t].nr = s.total
    BY DEF Numbered
  <2>2. Newer(t) = {}
    BY <1>5, <2>1 DEF Numbered
  <2>3. Cardinality(Newer(t)) < L
    <3> HIDE DEF Newer, L
    <3>1. QED  BY <1>4, <2>2, FS_EmptySet
  <2>4. QED  BY <2>1, <2>3
<1>11. \A t \in S : m[t] = s.messages[t]
  BY <1>3, <1>6, <1>8
<1>12. EffectiveLimit(v) = L
  BY <1>2 DEF EffectiveLimit
<1>13. QED
  <2>1. /\ \A t \in S : s.messages[t].nr \in 1..s.total
        /\ \A t, u \in S : s.messages[t].nr = s.messages[u].nr => t = u
    BY <1>8 DEF Numbered
  <2> HIDE DEF m, v, S, L, T
  <2>2. QED
    BY <1>1, <1>2, <1>7, <1>8, <1>9, <1>10, <1>11, <1>12, <2>1 DEF TrackedSound, Numbered

LEMMA ReceivedTracked ==
  ASSUME NEW s \in SessionRecord, TrackedSound(s), NEW k \in Clients, NEW t \in Topics
  PROVE  TrackedSound(Received(s, k, t))
<1> DEFINE m == [s.messages EXCEPT ![t] = [from |-> k, nr |-> s.total + 1]]
           g == [f \in Filters |-> IF s.subs[f] # NotSubscribed /\ <<f, t>> \in Matching
                                   THEN s.subs[f] + 1 ELSE s.subs[f]]
           u == [s EXCEPT !.total = s.total + 1, !.messages = m, !.subs = g]
<1>1. s.total + 1 \in Nat /\ s.total \in Nat
  BY DEF SessionRecord
<1>2. /\ m \in [Topics -> [from : Clients \cup {NoClient}, nr : Nat]]
      /\ m[t] = [from |-> k, nr |-> s.total + 1]
      /\ \A q \in Topics \ {t} : m[q] = s.messages[q]
  BY <1>1 DEF SessionRecord
<1>3. g \in [Filters -> Nat \cup {NotSubscribed}]
  BY DEF SessionRecord, NotSubscribed
<1>4. Received(s, k, t) = Trim(u)
  BY DEF Received
<1>5. u \in SessionRecord /\ u.total = s.total + 1 /\ u.messages = m
  <2> HIDE DEF m, g
  <2>1. QED  BY <1>1, <1>2, <1>3 DEF SessionRecord
<1> HIDE DEF m, g, u
<1>6. Tracked(u) = Tracked(s) \cup {t}
  <2>1. m[t] # NoMessage
    BY <1>2, ConstantsAssumption DEF NoMessage
  <2>2. QED  BY <1>2, <1>5, <2>1 DEF Tracked
<1>7. Numbered(s)
  BY DEF TrackedSound
<1>8. IsFiniteSet(Tracked(u))
  BY <1>6, <1>7, FS_AddElement DEF Numbered
<1>9. \A q \in Tracked(u) : IF q = t THEN m[q].nr = s.total + 1
                            ELSE m[q] = s.messages[q] /\ q \in Tracked(s) /\ m[q].nr \in 1..s.total
  BY <1>2, <1>6, <1>7 DEF Numbered, Tracked
<1>10. Numbered(u)
  <2>1. \A q \in Tracked(u) : m[q].nr \in 1..(s.total + 1)
    BY <1>1, <1>9
  <2>2. ASSUME NEW p \in Tracked(u), NEW q \in Tracked(u), m[p].nr = m[q].nr
        PROVE  p = q
    <3>1. CASE p = t \/ q = t
      BY <1>1, <1>9, <2>2, <3>1
    <3>2. CASE p # t /\ q # t
      BY <1>7, <1>9, <2>2, <3>2 DEF Numbered
    <3>3. QED  BY <3>1, <3>2
  <2>3. t \in Tracked(u) /\ m[t].nr = s.total + 1
    BY <1>2, <1>6
  <2>4. QED  BY <1>5, <1>8, <2>1, <2>2, <2>3 DEF Numbered
<1>11. QED  BY <1>4, <1>5, <1>10, TrimTracked

\* A record that tracks nothing.
LEMMA NothingTracked ==
  ASSUME NEW s \in SessionRecord, s.messages = [t \in Topics |-> NoMessage], s.total = 0
  PROVE  TrackedSound(s)
<1>1. Tracked(s) = {}
  BY DEF Tracked
<1>2. QED  BY <1>1, FS_EmptySet, LimitType DEF TrackedSound, Numbered

LEMMA EmitTracked ==
  ASSUME TrackedInv, NEW cur \in Records \cup {NoRecord}, NEW r \in Records,
         NEW s \in SessionRecord, TrackedSound(s),
         ChangeAndEmit(cur, r, s) \/ ChangeAndSchedule(cur, r, s)
  PROVE  \A q \in Records : TrackedSound(session'[q])
<1>1. TypeOK  BY DEF TrackedInv
<1>2. \A q \in Records :
         /\ session'[q].messages = IF q = r THEN s.messages ELSE session[q].messages
         /\ session'[q].total = IF q = r THEN s.total ELSE session[q].total
         /\ session'[q].limit = IF q = r THEN s.limit ELSE session[q].limit
  BY <1>1, EmitFrame
<1>3. QED  BY <1>2, SameTopics, Zenon DEF TrackedInv

LEMMA FrameTracked ==
  ASSUME TrackedInv,
         \A q \in Records :
            /\ session'[q].messages = session[q].messages
            /\ session'[q].total = session[q].total
            /\ session'[q].limit = session[q].limit
  PROVE  \A q \in Records : TrackedSound(session'[q])
  BY SameTopics, Zenon DEF TrackedInv

LEMMA StartClientTracked ==
  ASSUME TrackedInv, current' \in Records \cup {NoRecord},
         NEW c \in Calls, NEW r \in Records, NEW k \in Clients, StartClient(c, r, k)
  PROVE  \A q \in Records : TrackedSound(session'[q])
<1> DEFINE m == [t \in Topics |-> NoMessage]
           u == [session[r] EXCEPT !.client = k, !.status = "connecting",
                     !.subs = [f \in Filters |-> NotSubscribed],
                     !.messages = m, !.total = 0]
<1>1. session[r] \in SessionRecord  BY DEF TrackedInv, TypeOK
<1>2. [f \in Filters |-> NotSubscribed] \in [Filters -> Nat \cup {NotSubscribed}]
  OBVIOUS
<1>3. m \in [Topics -> [from : Clients \cup {NoClient}, nr : Nat]]
  BY DEF NoMessage
<1>4. u \in SessionRecord  BY <1>1, <1>2, <1>3 DEF SessionRecord, Status
<1>5. u.messages = m /\ u.total = 0
  <2> HIDE DEF m
  <2>1. QED  BY <1>1 DEF SessionRecord
<1>6. ChangeAndEmit(current', r, u)  BY DEF StartClient
<1> HIDE DEF u
<1>7. QED  BY <1>4, <1>5, <1>6, NothingTracked, EmitTracked

LEMMA TrackedUpdates ==
  ASSUME NEW s \in SessionRecord, TrackedSound(s)
  PROVE  /\ \A x : TrackedSound([s EXCEPT !.status = x])
         /\ \A x : TrackedSound([s EXCEPT !.client = NoClient, !.status = x])
         /\ \A f, n : TrackedSound([s EXCEPT !.subs[f] = n])
         /\ \A x, n : TrackedSound([s EXCEPT !.closing = n, !.status = x])
<1>1. \A x : TrackedSound([s EXCEPT !.status = x])
  <2> TAKE x
  <2> DEFINE u == [s EXCEPT !.status = x]
  <2>1. u.messages = s.messages /\ u.total = s.total /\ u.limit = s.limit
    BY DEF SessionRecord
  <2> HIDE DEF u
  <2>2. TrackedSound(u)  BY <2>1, SameTopics
  <2>3. QED  BY <2>2 DEF u
<1>2. \A x : TrackedSound([s EXCEPT !.client = NoClient, !.status = x])
  <2> TAKE x
  <2> DEFINE u == [s EXCEPT !.client = NoClient, !.status = x]
  <2>1. u.messages = s.messages /\ u.total = s.total /\ u.limit = s.limit
    BY DEF SessionRecord
  <2> HIDE DEF u
  <2>2. TrackedSound(u)  BY <2>1, SameTopics
  <2>3. QED  BY <2>2 DEF u
<1>3. \A f, n : TrackedSound([s EXCEPT !.subs[f] = n])
  <2> TAKE f, n
  <2> DEFINE u == [s EXCEPT !.subs[f] = n]
  <2>1. u.messages = s.messages /\ u.total = s.total /\ u.limit = s.limit
    BY DEF SessionRecord
  <2> HIDE DEF u
  <2>2. TrackedSound(u)  BY <2>1, SameTopics
  <2>3. QED  BY <2>2 DEF u
<1>4. \A x, n : TrackedSound([s EXCEPT !.closing = n, !.status = x])
  <2> TAKE x, n
  <2> DEFINE u == [s EXCEPT !.closing = n, !.status = x]
  <2>1. u.messages = s.messages /\ u.total = s.total /\ u.limit = s.limit
    BY DEF SessionRecord
  <2> HIDE DEF u
  <2>2. TrackedSound(u)  BY <2>1, SameTopics
  <2>3. QED  BY <2>2 DEF u
<1>5. QED  BY <1>1, <1>2, <1>3, <1>4

LEMMA TrackedStep == TrackedInv /\ [Next]_vars => TrackedInv'
<1> SUFFICES ASSUME TrackedInv, [Next]_vars
             PROVE  \A q \in Records : TrackedSound(session'[q])
  BY TypeStep DEF TrackedInv
<1> DEFINE Sound == \A q \in Records : TrackedSound(session'[q])
           Framed == \A q \in Records : /\ session'[q].messages = session[q].messages
                                        /\ session'[q].total = session[q].total
                                        /\ session'[q].limit = session[q].limit
<1> USE DEF Status
<1>0. /\ TypeOK /\ current \in Records \cup {NoRecord}
      /\ session \in [Records -> SessionRecord]
      /\ \A q \in Records : session[q] \in SessionRecord /\ TrackedSound(session[q])
  BY DEF TrackedInv, TypeOK
<1>1. ASSUME UNCHANGED session PROVE Sound
  BY <1>0, <1>1
<1>2. ASSUME NEW r \in Records, session' = [session EXCEPT ![r].client = NoClient] PROVE Sound
  <2>1. Framed
    BY <1>0, <1>2 DEF SessionRecord
  <2>2. QED  BY <2>1, FrameTracked
<1>3. ASSUME NEW r \in Records, GetOrCreateSession(r)
      PROVE  current' \in Records \cup {NoRecord}
  BY <1>0, <1>3, CreateType
<1>4. ASSUME NEW r \in Records, NEW x \in Status, NEW cur \in Records \cup {NoRecord},
             \/ ChangeAndEmit(cur, r, [session[r] EXCEPT !.status = x])
             \/ ChangeAndEmit(cur, r, [session[r] EXCEPT !.client = NoClient, !.status = x])
      PROVE  Sound
  <2>1. PICK u \in SessionRecord : TrackedSound(u) /\ ChangeAndEmit(cur, r, u)
    BY <1>0, <1>4, RecordUpdates, TrackedUpdates, Zenon
  <2>2. QED  BY <2>1, EmitTracked
<1>5. ASSUME NEW r \in Records, NEW f \in Filters, NEW n \in {0, NotSubscribed},
             ChangeAndEmit(current', r, [session[r] EXCEPT !.subs[f] = n]),
             current' \in Records \cup {NoRecord}
      PROVE  Sound
  <2>1. PICK s \in SessionRecord : s = session[r] /\ TrackedSound(s)
    BY <1>0
  <2>2. [s EXCEPT !.subs[f] = n] \in SessionRecord
    BY DEF SessionRecord
  <2>3. TrackedSound([s EXCEPT !.subs[f] = n])
    BY <2>1, TrackedUpdates, Zenon
  <2>4. QED  BY <1>5, <2>1, <2>2, <2>3, EmitTracked
<1>6. ASSUME NEW r \in Records, NEW w \in Watchers, Watch(w, r) PROVE Sound
  <2>1. Framed
    BY <1>0, <1>6 DEF Watch, SessionRecord
  <2>2. QED  BY <2>1, FrameTracked
<1>7. ASSUME NEW w \in Watchers, CloseStream(w) \/ CancelStream(w) PROVE Sound
  <2>1. CASE current = NoRecord
    BY <1>1, <1>7, <2>1 DEF CloseStream, CancelStream, Cleanup
  <2>2. CASE current \in Records
    <3>1. PICK l, e, d : session' = [session EXCEPT ![current].listeners = l,
                                        ![current].emitTimer = e, ![current].closeTimer = d]
      <4> DEFINE left == session[current].listeners \ {w}
      <4>1. session' = [session EXCEPT ![current].listeners = left,
                                       ![current].emitTimer = @ /\ left # {},
                                       ![current].closeTimer = @ \/ left = {}]
        BY <1>7, <2>2, ConstantsAssumption, Zenon DEF CloseStream, CancelStream, Cleanup
      <4> HIDE DEF left
      <4>2. QED  BY <4>1, Zenon
    <3>2. Framed
      BY <1>0, <2>2, <3>1 DEF SessionRecord
    <3>3. QED  BY <3>2, FrameTracked
  <2>3. QED  BY <1>0, <2>1, <2>2
<1>8. ASSUME NEW r \in Records, EmitTimerFires(r) \/ CloseTimerFires(r) PROVE Sound
  <2>1. Framed
    <3>1. CASE EmitTimerFires(r)
      BY <1>0, <3>1 DEF EmitTimerFires, SessionRecord
    <3>2. CASE session' = [session EXCEPT ![r].closeTimer = FALSE]
      BY <1>0, <3>2 DEF SessionRecord
    <3>3. CASE session' = [session EXCEPT ![r].closeTimer = FALSE,
                               ![r].status = "disconnected", ![r].emitTimer = FALSE]
      BY <1>0, <3>3 DEF SessionRecord
    <3>4. CASE session' = [session EXCEPT ![r].closeTimer = FALSE,
                               ![r].client = NoClient, ![r].closing = @ + 1]
      BY <1>0, <3>4 DEF SessionRecord
    <3>5. QED  BY <1>8, <3>1, <3>2, <3>3, <3>4 DEF CloseTimerFires
  <2>2. QED  BY <2>1, FrameTracked
<1>9. ASSUME NEW r \in Records, TeardownEnds(r) PROVE Sound
  <2> DEFINE s == [session[r] EXCEPT !.closing = session[r].closing - 1,
                                     !.status = "disconnected"]
  <2>1. session[r].closing - 1 \in Nat
    BY <1>0, <1>9 DEF TeardownEnds, SessionRecord
  <2>2. PICK q \in SessionRecord : q = session[r] /\ TrackedSound(q)
    BY <1>0
  <2>3. PICK n \in Nat : n = session[r].closing - 1
    BY <2>1
  <2>4. s \in SessionRecord /\ TrackedSound(s)
    BY <2>2, <2>3, TeardownUpdates, TrackedUpdates, Zenon
  <2>5. ChangeAndEmit(current, r, s)
    BY <1>9 DEF TeardownEnds
  <2> HIDE DEF s
  <2>6. QED  BY <1>0, <2>4, <2>5, EmitTracked
<1>10. ASSUME NEW r \in Records, NEW c \in Calls, Connect(c, r) PROVE Sound
  BY <1>2, <1>3, <1>10, StartClientTracked DEF Connect, EndClient
<1>11. ASSUME NEW r \in Records, NEW c \in Calls, Disconnect(c, r) PROVE Sound
  <2>1. CASE EndClient(c, r, "disconnecting")
    BY <1>2, <2>1 DEF EndClient
  <2>2. CASE ChangeAndEmit(current', r, [session[r] EXCEPT !.status = "disconnected"])
    BY <1>3, <1>4, <1>11, <2>2, Zenon DEF Disconnect
  <2>3. QED  BY <1>11, <2>1, <2>2 DEF Disconnect
<1>12. ASSUME NEW r \in Records, ClearMessages(r) PROVE Sound
  <2> DEFINE g == [f \in Filters |-> IF session[r].subs[f] = NotSubscribed
                                     THEN session[r].subs[f] ELSE 0]
             m == [t \in Topics |-> NoMessage]
             u == [session[r] EXCEPT !.messages = m, !.total = 0, !.subs = g]
  <2>1. g \in [Filters -> Nat \cup {NotSubscribed}]
    BY <1>0 DEF SessionRecord, NotSubscribed
  <2>2. m \in [Topics -> [from : Clients \cup {NoClient}, nr : Nat]]
    BY DEF NoMessage
  <2>3. ChangeAndEmit(current', r, u)
    BY <1>12 DEF ClearMessages
  <2>4. u \in SessionRecord /\ u.total = 0 /\ u.messages = m
    <3> HIDE DEF g, m
    <3>1. PICK s \in SessionRecord : s = session[r]
      BY <1>0
    <3>2. /\ [s EXCEPT !.messages = m, !.total = 0, !.subs = g] \in SessionRecord
          /\ [s EXCEPT !.messages = m, !.total = 0, !.subs = g].total = 0
          /\ [s EXCEPT !.messages = m, !.total = 0, !.subs = g].messages = m
      BY ONLY <2>1, <2>2 DEF SessionRecord
    <3>3. QED  BY <3>1, <3>2
  <2> HIDE DEF u
  <2>5. QED
    BY <1>3, <1>12, <2>3, <2>4, NothingTracked, EmitTracked DEF ClearMessages
<1>13. ASSUME NEW r \in Records, NEW n \in Limits \cup {NoLimit},
              SetTrackedTopicsLimit(r, n) PROVE Sound
  <2> DEFINE u == [session[r] EXCEPT !.limit = n]
  <2>1. u \in SessionRecord /\ u.messages = session[r].messages /\ u.total = session[r].total
    <3>1. PICK s \in SessionRecord : s = session[r]
      BY <1>0
    <3>2. /\ [s EXCEPT !.limit = n] \in SessionRecord
          /\ [s EXCEPT !.limit = n].messages = s.messages
          /\ [s EXCEPT !.limit = n].total = s.total
      BY DEF SessionRecord
    <3>3. QED  BY <3>1, <3>2
  <2>2. ChangeAndEmit(current', r, Trim(u)) /\ current' \in Records \cup {NoRecord}
    BY <1>3, <1>13 DEF SetTrackedTopicsLimit
  <2> HIDE DEF u
  <2>3. Numbered(u)
    <3>1. Numbered(session[r])
      BY <1>0 DEF TrackedSound
    <3>2. Tracked(u) = Tracked(session[r])
      BY <2>1 DEF Tracked
    <3>3. QED  BY <2>1, <3>1, <3>2 DEF Numbered
  <2>4. QED  BY <2>1, <2>2, <2>3, TrimType, TrimTracked, EmitTracked
<1>14. ASSUME NEW r \in Records, NEW c \in Calls, NEW f \in Filters,
              Unsubscribe(c, r, f) PROVE Sound
  BY <1>1, <1>3, <1>5, <1>14 DEF Unsubscribe
<1>15. ASSUME NEW c \in Calls, ConnectResumes(c) PROVE Sound
  BY <1>0, <1>15, CallFields, StartClientTracked DEF ConnectResumes
<1>16. ASSUME NEW c \in Calls,
              \/ ConnectSucceeds(c) \/ ResubscribeEnds(c) \/ ConnectFails(c)
              \/ ConnectFailed(c) \/ DisconnectEnds(c)
       PROVE  Sound
  <2>1. /\ call[c].rec \in Records /\ current' \in Records \cup {NoRecord}
    BY <1>0, <1>16, CallFields
    DEF ConnectSucceeds, ResubscribeEnds, ConnectFails, ConnectFailed, DisconnectEnds
  <2>2. CASE UNCHANGED session
    BY <1>1, <2>2
  <2>3. CASE session' = [session EXCEPT ![call[c].rec].client = NoClient]
    BY <1>2, <2>1, <2>3, Zenon
  <2>4. CASE \E x \in Status :
                \/ ChangeAndEmit(current', call[c].rec, [session[call[c].rec] EXCEPT !.status = x])
                \/ ChangeAndEmit(current', call[c].rec, [session[call[c].rec] EXCEPT
                                               !.client = NoClient, !.status = x])
    BY <1>4, <2>1, <2>4, Zenon
  <2>5. QED
    BY <1>16, <2>2, <2>3, <2>4
    DEF ConnectSucceeds, ResubscribeEnds, ConnectFails, ConnectFailed, DisconnectEnds
<1>17. ASSUME NEW c \in Calls, SubscribeAcked(c) \/ UnsubscribeAcked(c) PROVE Sound
  <2>1. /\ call[c].rec \in Records /\ call[c].filter \in Filters
        /\ current' \in Records \cup {NoRecord}
    BY <1>0, <1>17, CallFields DEF SubscribeAcked, UnsubscribeAcked
  <2>2. QED  BY <1>5, <1>17, <2>1 DEF SubscribeAcked, UnsubscribeAcked
<1>18. ASSUME NEW k \in Clients,
              ClientDrops(k) \/ ClientRetries(k) \/ ClientReconnects(k) PROVE Sound
  <2>1. \/ UNCHANGED session
        \/ \E x \in Status : /\ current \in Records
              /\ ChangeAndEmit(current, current, [session[current] EXCEPT !.status = x])
    BY <1>0, <1>18 DEF ClientDrops, ClientRetries, ClientReconnects, ReportStatus, Serves
  <2>2. QED  BY <1>1, <1>4, <2>1, Zenon
<1>19. ASSUME NEW k \in Clients, NEW t \in Topics, Message(k, t) PROVE Sound
  <2>1. current \in Records
    BY <1>0, <1>19 DEF Message, Serves
  <2>2. /\ Received(session[current], k, t) \in SessionRecord
        /\ TrackedSound(Received(session[current], k, t))
    BY <1>0, <2>1, ReceivedType, ReceivedTracked
  <2>3. QED  BY <1>19, <2>1, <2>2, EmitTracked DEF Message
<1>20. QED
  BY <1>1, <1>6, <1>7, <1>8, <1>9, <1>10, <1>11, <1>12, <1>13, <1>14, <1>15, <1>16,
     <1>17, <1>18, <1>19
  DEF Next, vars, ReadOnlyCall, Subscribe, RequestFails

\* However limits, clears, messages and connects interleave, a record tracks no more
\* topics than the limit in force, and the topic of its latest message is among them.
THEOREM LatestStayTracked == Spec => []LatestTopicsTracked
<1>1. Init => TrackedInv
  <2>1. Init => TypeOK
    BY NewSessionType, IdleType DEF Init, TypeOK
  <2>2. TrackedSound(NewSession)
    <3>1. NewSession.messages = [t \in Topics |-> NoMessage] /\ NewSession.total = 0
      BY DEF NewSession
    <3>2. QED  BY <3>1, NewSessionType, NothingTracked
  <2>3. QED  BY <2>1, <2>2 DEF Init, TrackedInv
<1>2. TrackedInv => LatestTopicsTracked
  BY DEF TrackedInv, TrackedSound, Numbered, Tracked, LatestTopicsTracked
<1>3. QED  BY <1>1, <1>2, TrackedStep, PTL DEF Spec

-----------------------------------------------------------------------------
(* What the steps leave of the records' connections. *)

Kept(q) ==
    /\ session'[q].client = session[q].client /\ session'[q].status = session[q].status
    /\ session'[q].closing = session[q].closing

ConnectionsKept == \A q \in Records : Kept(q)

LEMMA EmitKeeps ==
  ASSUME TypeOK, NEW cur \in Records \cup {NoRecord}, NEW r \in Records,
         NEW s \in SessionRecord, s.client = session[r].client,
         s.status = session[r].status, s.closing = session[r].closing,
         ChangeAndEmit(cur, r, s) \/ ChangeAndSchedule(cur, r, s)
  PROVE  ConnectionsKept
BY EmitFrame DEF ConnectionsKept, Kept

\* The record r comes out with the client k and the status x; no other connection changes.
Becomes(r, k, x) ==
    /\ session'[r].client = k /\ session'[r].status = x
    /\ session'[r].closing = session[r].closing
    /\ \A q \in Records \ {r} : Kept(q)

LEMMA EmitBecomes ==
  ASSUME TypeOK, NEW cur \in Records \cup {NoRecord}, NEW r \in Records,
         NEW s \in SessionRecord, s.closing = session[r].closing,
         ChangeAndEmit(cur, r, s)
  PROVE  Becomes(r, s.client, s.status)
BY EmitFrame DEF Becomes, Kept

LEMMA EmitStatus ==
  ASSUME TypeOK, NEW cur \in Records \cup {NoRecord}, NEW r \in Records, NEW x \in Status,
         ChangeAndEmit(cur, r, [session[r] EXCEPT !.status = x])
  PROVE  Becomes(r, session[r].client, x)
<1> DEFINE s == [session[r] EXCEPT !.status = x]
<1>1. /\ s \in SessionRecord /\ s.client = session[r].client
      /\ s.status = x /\ s.closing = session[r].closing
  <2>1. PICK q \in SessionRecord : q = session[r]
    BY DEF TypeOK
  <2>2. /\ [q EXCEPT !.status = x] \in SessionRecord
        /\ [q EXCEPT !.status = x].client = q.client
        /\ [q EXCEPT !.status = x].status = x
        /\ [q EXCEPT !.status = x].closing = q.closing
    BY ONLY x \in Status DEF SessionRecord
  <2>3. QED
    BY <2>1, <2>2
<1>2. ChangeAndEmit(cur, r, s)
  OBVIOUS
<1> HIDE DEF s
<1>3. QED
  BY <1>1, <1>2, EmitBecomes

LEMMA EmitSubs ==
  ASSUME TypeOK, NEW cur \in Records \cup {NoRecord}, NEW r \in Records,
         NEW f \in Filters, NEW n \in {0, NotSubscribed},
         ChangeAndEmit(cur, r, [session[r] EXCEPT !.subs[f] = n])
  PROVE  ConnectionsKept
<1> DEFINE s == [session[r] EXCEPT !.subs[f] = n]
<1>1. /\ s \in SessionRecord /\ s.client = session[r].client
      /\ s.status = session[r].status /\ s.closing = session[r].closing
  <2>1. PICK q \in SessionRecord : q = session[r]
    BY DEF TypeOK
  <2>2. PICK g \in [Filters -> Nat \cup {NotSubscribed}] : g = [q.subs EXCEPT ![f] = n]
    BY <2>1 DEF SessionRecord
  <2>3. [q EXCEPT !.subs[f] = n] = [q EXCEPT !.subs = g]
    BY <2>1, <2>2 DEF SessionRecord
  <2>4. /\ [q EXCEPT !.subs = g] \in SessionRecord
        /\ [q EXCEPT !.subs = g].client = q.client
        /\ [q EXCEPT !.subs = g].status = q.status
        /\ [q EXCEPT !.subs = g].closing = q.closing
    BY ONLY g \in [Filters -> Nat \cup {NotSubscribed}] DEF SessionRecord
  <2>5. QED
    BY <2>1, <2>3, <2>4
<1>2. ChangeAndEmit(cur, r, s)
  OBVIOUS
<1> HIDE DEF s
<1>3. QED
  BY <1>1, <1>2, EmitKeeps

LEMMA CleanupKeeps ==
  ASSUME TypeOK, NEW w \in Watchers, Cleanup(w)
  PROVE  ConnectionsKept
<1>1. CASE current = NoRecord
  BY <1>1 DEF Cleanup, ConnectionsKept, Kept
<1>2. CASE current # NoRecord
  <2> DEFINE l == session[current].listeners \ {w}
             e == session[current].emitTimer /\ l # {}
             d == session[current].closeTimer \/ l = {}
  <2>1. session' = [session EXCEPT ![current].listeners = l,
                                   ![current].emitTimer = @ /\ l # {},
                                   ![current].closeTimer = @ \/ l = {}]
    BY <1>2, Zenon DEF Cleanup
  <2>2. /\ current \in Records /\ session \in [Records -> SessionRecord]
        /\ session[current] \in SessionRecord
    BY <1>2 DEF TypeOK
  <2>3. session' = [session EXCEPT ![current] =
            [session[current] EXCEPT !.listeners = l, !.emitTimer = e, !.closeTimer = d]]
    <3> HIDE DEF l
    <3>1. QED
      BY <2>1, <2>2, Zenon DEF SessionRecord
  <2> HIDE DEF l, e, d
  <2>4. QED
    BY <2>2, <2>3 DEF SessionRecord, ConnectionsKept, Kept
<1>3. QED
  BY <1>1, <1>2

LEMMA WatchKeeps ==
  ASSUME TypeOK, NEW w \in Watchers, NEW r \in Records, Watch(w, r)
  PROVE  ConnectionsKept
<1>1. session' = [session EXCEPT ![r].closeTimer = FALSE,
                                 ![r].listeners = @ \cup {w}]
  BY Zenon DEF Watch
<1>2. QED
  BY <1>1 DEF ConnectionsKept, Kept, TypeOK, SessionRecord

LEMMA ClearMessagesKeeps ==
  ASSUME TypeOK, NEW r \in Records, ClearMessages(r)
  PROVE  ConnectionsKept
<1>1. PICK s \in SessionRecord : s = session[r]
  BY DEF TypeOK
<1> DEFINE g == [f \in Filters |-> IF s.subs[f] = NotSubscribed THEN s.subs[f] ELSE 0]
           m == [t \in Topics |-> NoMessage]
           u == [s EXCEPT !.messages = m, !.total = 0, !.subs = g]
<1>2. g \in [Filters -> Nat \cup {NotSubscribed}]
  BY <1>1 DEF SessionRecord
<1>3. m \in [Topics -> [from : Clients \cup {NoClient}, nr : Nat]]
  BY DEF NoMessage
<1>4. ChangeAndEmit(current', r, u) /\ current' \in Records \cup {NoRecord}
  BY <1>1, CreateType, Zenon DEF ClearMessages
<1> HIDE DEF g, m
<1>5. /\ u \in SessionRecord /\ u.client = s.client
      /\ u.status = s.status /\ u.closing = s.closing
  BY <1>2, <1>3 DEF SessionRecord
<1> HIDE DEF u
<1>6. QED
  BY <1>1, <1>4, <1>5, EmitKeeps

LEMMA SetTrackedTopicsLimitKeeps ==
  ASSUME TypeOK, NEW r \in Records, NEW n \in Limits \cup {NoLimit},
         SetTrackedTopicsLimit(r, n)
  PROVE  ConnectionsKept
<1>1. PICK s \in SessionRecord : s = session[r]
  BY DEF TypeOK
<1> DEFINE u == [s EXCEPT !.limit = n]
<1>2. /\ u \in SessionRecord /\ u.client = s.client
      /\ u.status = s.status /\ u.closing = s.closing
  BY <1>1 DEF SessionRecord
<1>3. ChangeAndEmit(current', r, Trim(u)) /\ current' \in Records \cup {NoRecord}
  BY <1>1, CreateType DEF SetTrackedTopicsLimit
<1> HIDE DEF u
<1>4. /\ Trim(u) \in SessionRecord /\ Trim(u).client = u.client
      /\ Trim(u).status = u.status /\ Trim(u).closing = u.closing
  BY <1>2, TrimType DEF Trim, SessionRecord
<1>5. QED
  BY <1>1, <1>2, <1>3, <1>4, EmitKeeps

LEMMA MessageKeeps ==
  ASSUME TypeOK, NEW k \in Clients, NEW t \in Topics, Message(k, t)
  PROVE  ConnectionsKept
<1>1. current \in Records
  BY DEF TypeOK, Message, Serves
<1>2. PICK s \in SessionRecord : s = session[current]
  BY <1>1 DEF TypeOK
<1> DEFINE u == Received(s, k, t)
<1>3. u \in SessionRecord
  BY <1>2, ReceivedType
<1>4. u.client = s.client /\ u.status = s.status /\ u.closing = s.closing
  BY DEF Received, Trim, SessionRecord
<1>5. ChangeAndSchedule(current, current, u)
  BY <1>2 DEF Message
<1> HIDE DEF u
<1>6. QED
  BY <1>1, <1>2, <1>3, <1>4, <1>5, EmitKeeps

LEMMA TeardownKeeps ==
  ASSUME TypeOK, NEW r \in Records, TeardownEnds(r)
  PROVE  /\ session'[r].client = session[r].client /\ session'[r].status = "disconnected"
         /\ session'[r].closing = session[r].closing - 1
         /\ \A q \in Records \ {r} : Kept(q)
<1>1. PICK s \in SessionRecord : s = session[r]
  BY DEF TypeOK
<1>2. PICK n \in Nat : n = s.closing - 1
  BY <1>1 DEF TeardownEnds, SessionRecord
<1> DEFINE u == [s EXCEPT !.closing = n, !.status = "disconnected"]
<1>3. /\ u \in SessionRecord /\ u.client = s.client
      /\ u.status = "disconnected" /\ u.closing = n
  BY DEF SessionRecord, Status
<1>4. ChangeAndEmit(current, r, u)
  BY <1>1, <1>2 DEF TeardownEnds
<1> HIDE DEF u
<1>5. current \in Records \cup {NoRecord}
  BY DEF TypeOK
<1>6. QED
  BY <1>1, <1>2, <1>3, <1>4, <1>5, EmitFrame DEF Kept

-----------------------------------------------------------------------------
(* The client a record serves its calls with is alive and its own. *)

Connecting == {"waiting", "resubscribing"}

LEMMA ClientsOfCalls ==
  ASSUME TypeOK
  PROVE  /\ \A q \in Records : session[q].client \in Clients \cup {NoClient}
         /\ \A c \in Calls : call[c].client \in Clients \cup {NoClient}
         /\ \A c \in Calls : call[c].at \in Connecting => call[c].client \in Clients
<1>1. \A q \in Records : session[q].client \in Clients \cup {NoClient}
  BY DEF TypeOK, SessionRecord
<1>2. ASSUME NEW c \in Calls
      PROVE  /\ call[c].client \in Clients \cup {NoClient}
             /\ call[c].at \in Connecting => call[c].client \in Clients
  <2>1. call[c] \in CallRecord  BY DEF TypeOK
  <2>2. QED  BY <2>1 DEF CallRecord, Idle, Connecting
<1>3. QED  BY <1>1, <1>2

\* A call that ends its own client when its connect fails must know that no
\* record but the one it clears is using that client.
ClientInv ==
    /\ TypeOK
    /\ CurrentClientAlive
    /\ \A c \in Calls : call[c].client # NoClient => clientState[call[c].client] # "unused"
    /\ \A c \in Calls, r \in Records :
          (call[c].at \in Connecting /\ session[r].client = call[c].client)
             => r = call[c].rec

\* Every step but the start of a client: records only lose clients, and no
\* client a record keeps is ended.
LEMMA NoNewClient ==
  ASSUME ClientInv, TypeOK',
         \A q \in Records : session'[q].client \in {session[q].client, NoClient},
         \A q \in Records : session'[q].client # NoClient =>
            clientState'[session'[q].client] # "ended",
         \A k \in Clients : clientState[k] # "unused" => clientState'[k] # "unused",
         \A c \in Calls :
            \/ call'[c] = call[c]
            \/ /\ call'[c].client # NoClient => clientState'[call'[c].client] # "unused"
               /\ call'[c].at \in Connecting =>
                     /\ call[c].at \in Connecting
                     /\ call'[c].rec = call[c].rec
                     /\ call'[c].client = call[c].client
  PROVE  ClientInv'
<1>0. /\ \A q \in Records : session[q].client \in Clients \cup {NoClient}
      /\ \A c \in Calls : call[c].client \in Clients \cup {NoClient}
      /\ \A c \in Calls : call[c].at \in Connecting => call[c].client \in Clients
  BY ClientsOfCalls DEF ClientInv
<1>1. CurrentClientAlive'
  BY <1>0 DEF ClientInv, CurrentClientAlive
<1>2. \A c \in Calls : call'[c].client # NoClient => clientState'[call'[c].client] # "unused"
  BY <1>0 DEF ClientInv
<1>3. \A c \in Calls, r \in Records :
          (call'[c].at \in Connecting /\ session'[r].client = call'[c].client)
             => r = call'[c].rec
  BY <1>0, ConstantsAssumption DEF ClientInv
<1>4. QED  BY <1>1, <1>2, <1>3 DEF ClientInv

LEMMA StartClientClientInv ==
  ASSUME ClientInv, TypeOK', current' \in Records \cup {NoRecord},
         NEW c \in Calls, NEW r \in Records, NEW k \in Clients, StartClient(c, r, k)
  PROVE  ClientInv'
<1> DEFINE u == [session[r] EXCEPT !.client = k, !.status = "connecting",
                     !.subs = [f \in Filters |-> NotSubscribed],
                     !.messages = [t \in Topics |-> NoMessage], !.total = 0]
<1>0. /\ TypeOK /\ k # NoClient
      /\ \A q \in Records : session[q].client \in Clients \cup {NoClient}
      /\ \A d \in Calls : call[d].client \in Clients \cup {NoClient}
      /\ \A d \in Calls : call[d].at \in Connecting => call[d].client \in Clients
  BY ClientsOfCalls, ConstantsAssumption DEF ClientInv
<1>1. u \in SessionRecord /\ u.client = k
  <2>1. session[r] \in SessionRecord  BY <1>0 DEF TypeOK
  <2>2. [f \in Filters |-> NotSubscribed] \in [Filters -> Nat \cup {NotSubscribed}]
    OBVIOUS
  <2>3. [t \in Topics |-> NoMessage]
            \in [Topics -> [from : Clients \cup {NoClient}, nr : Nat]]
    BY DEF NoMessage
  <2>4. QED  BY <2>1, <2>2, <2>3 DEF SessionRecord, Status
<1>2. ChangeAndEmit(current', r, u)  BY DEF StartClient
<1> HIDE DEF u
<1>3. \A q \in Records : session'[q].client = IF q = r THEN k ELSE session[q].client
  BY <1>0, <1>1, <1>2, EmitFrame
<1>4. /\ clientState[k] = "unused"
      /\ clientState'[k] = "connecting"
      /\ \A j \in Clients \ {k} : clientState'[j] = clientState[j]
  BY <1>0 DEF StartClient, TypeOK
<1>5. /\ call'[c].at = "waiting" /\ call'[c].rec = r /\ call'[c].client = k
      /\ \A d \in Calls \ {c} : call'[d] = call[d]
  BY <1>0 DEF StartClient, Await, TypeOK
<1>6. /\ \A q \in Records : session[q].client # k
      /\ \A d \in Calls : call[d].client # k
  BY <1>0, <1>4 DEF ClientInv, CurrentClientAlive
<1>7. CurrentClientAlive'
  BY <1>0, <1>3, <1>4, <1>6 DEF ClientInv, CurrentClientAlive
<1>8. \A d \in Calls : call'[d].client # NoClient => clientState'[call'[d].client] # "unused"
  BY <1>0, <1>4, <1>5, <1>6 DEF ClientInv
<1>9. \A d \in Calls, q \in Records :
          (call'[d].at \in Connecting /\ session'[q].client = call'[d].client)
             => q = call'[d].rec
  <2>1. SUFFICES ASSUME NEW d \in Calls, NEW q \in Records, call'[d].at \in Connecting,
                        session'[q].client = call'[d].client
                 PROVE  q = call'[d].rec
    OBVIOUS
  <2>2. CASE d = c
    BY <1>3, <1>5, <1>6, <2>1, <2>2
  <2>3. CASE d # c
    BY <1>3, <1>5, <1>6, <2>1, <2>3 DEF ClientInv
  <2>4. QED  BY <2>2, <2>3
<1>10. QED  BY <1>7, <1>8, <1>9 DEF ClientInv

\* A client is ended by whoever takes it from its record.
LEMMA EndingClient ==
  ASSUME ClientInv, TypeOK', NEW r \in Records, session[r].client # NoClient,
         \A q \in Records :
            session'[q].client = IF q = r THEN NoClient ELSE session[q].client,
         clientState' = [clientState EXCEPT ![session[r].client] = "ended"],
         \/ UNCHANGED call
         \/ \E c \in Calls, at \in {"replacing", "disconnecting"} :
                Await(c, at, r, NoClient, NoFilter)
  PROVE  ClientInv'
<1>1. /\ session[r].client \in Clients /\ TypeOK
      /\ \A q \in Records : session[q].client \in Clients \cup {NoClient}
  BY DEF ClientInv, TypeOK, SessionRecord
<1>2. \A q \in Records : session'[q].client # NoClient =>
         clientState'[session'[q].client] # "ended"
  BY <1>1 DEF ClientInv, CurrentClientAlive, TypeOK
<1>3. \A k \in Clients : clientState[k] # "unused" => clientState'[k] # "unused"
  BY <1>1 DEF TypeOK
<1>4. \A c \in Calls :
         call'[c] = call[c] \/ (call'[c].client = NoClient /\ call'[c].at \notin Connecting)
  BY <1>1 DEF Await, TypeOK, Connecting
<1>5. QED  BY <1>2, <1>3, <1>4, NoNewClient

ClientsKept == \A q \in Records : session'[q].client = session[q].client

LEMMA EmitClient ==
  ASSUME TypeOK, NEW cur \in Records \cup {NoRecord}, NEW r \in Records,
         NEW s \in SessionRecord,
         ChangeAndEmit(cur, r, s) \/ ChangeAndSchedule(cur, r, s)
  PROVE  \A q \in Records :
            session'[q].client = IF q = r THEN s.client ELSE session[q].client
  BY EmitFrame

LEMMA EmitStatusClient ==
  ASSUME TypeOK, NEW cur \in Records \cup {NoRecord}, NEW r \in Records, NEW x \in Status,
         ChangeAndEmit(cur, r, [session[r] EXCEPT !.status = x])
  PROVE  ClientsKept
BY EmitStatus DEF Becomes, Kept, ClientsKept

LEMMA EmitSubsClient ==
  ASSUME TypeOK, NEW cur \in Records \cup {NoRecord}, NEW r \in Records,
         NEW f \in Filters, NEW n \in {0, NotSubscribed},
         ChangeAndEmit(cur, r, [session[r] EXCEPT !.subs[f] = n])
  PROVE  ClientsKept
BY EmitSubs DEF ConnectionsKept, Kept, ClientsKept

LEMMA StreamsKeepClients ==
  ASSUME TypeOK, NEW w \in Watchers, Cleanup(w) \/ \E r \in Records : Watch(w, r)
  PROVE  ClientsKept
BY CleanupKeeps, WatchKeeps DEF ConnectionsKept, Kept, ClientsKept

LEMMA ChangesKeepClients ==
  ASSUME TypeOK,
         \/ \E r \in Records : TeardownEnds(r) \/ ClearMessages(r)
         \/ \E r \in Records, n \in Limits \cup {NoLimit} : SetTrackedTopicsLimit(r, n)
         \/ \E k \in Clients, t \in Topics : Message(k, t)
  PROVE  ClientsKept
<1>1. ASSUME NEW r \in Records, TeardownEnds(r) PROVE ClientsKept
  BY <1>1, TeardownKeeps DEF Kept, ClientsKept
<1>2. ConnectionsKept => ClientsKept
  BY DEF ConnectionsKept, Kept, ClientsKept
<1>3. QED
  BY <1>1, <1>2, ClearMessagesKeeps, SetTrackedTopicsLimitKeeps, MessageKeeps

LEMMA ClientStep == ClientInv /\ [Next]_vars => ClientInv'
<1> SUFFICES ASSUME ClientInv, [Next]_vars PROVE ClientInv'
  OBVIOUS
<1>0. /\ TypeOK /\ TypeOK' /\ current \in Records \cup {NoRecord}
      /\ session \in [Records -> SessionRecord]
      /\ \A q \in Records : session[q] \in SessionRecord
      /\ \A q \in Records : session[q].client \in Clients \cup {NoClient}
      /\ \A q \in Records : session[q].client # NoClient =>
            clientState[session[q].client] # "ended"
  BY TypeStep, ClientsOfCalls DEF ClientInv, TypeOK, CurrentClientAlive
<1>1. ASSUME ClientsKept, UNCHANGED clientState, \/ UNCHANGED call
                                          \/ \E c \in Calls : Return(c)
      PROVE  ClientInv'
  <2>1. \A c \in Calls : call'[c] = call[c] \/ call'[c] = Idle
    BY <1>0, <1>1 DEF Return, TypeOK
  <2>2. QED
    BY <1>0, <1>1, <2>1, NoNewClient DEF ClientsKept, Idle, Connecting
<1>2. ASSUME NEW r \in Records, GetOrCreateSession(r)
      PROVE  current' \in Records \cup {NoRecord}
  BY <1>0, <1>2, CreateType
<1>3. ASSUME NEW w \in Watchers,
             CloseStream(w) \/ CancelStream(w) \/ \E r \in Records : Watch(w, r)
      PROVE  ClientInv'
  <2>1. ClientsKept
    BY <1>0, <1>3, StreamsKeepClients DEF CloseStream, CancelStream
  <2>2. UNCHANGED <<clientState, call>>
    BY <1>3, Zenon DEF Watch, CloseStream, CancelStream, Cleanup
  <2>3. QED  BY <1>1, <2>1, <2>2
<1>4. ASSUME \/ \E r \in Records : TeardownEnds(r) \/ ClearMessages(r)
             \/ \E r \in Records, n \in Limits \cup {NoLimit} : SetTrackedTopicsLimit(r, n)
             \/ \E k \in Clients, t \in Topics : Message(k, t)
      PROVE  ClientInv'
  <2>1. ClientsKept
    BY <1>0, <1>4, ChangesKeepClients
  <2>2. UNCHANGED <<clientState, call>>
    BY <1>4, Zenon DEF TeardownEnds, ClearMessages, SetTrackedTopicsLimit, Message
  <2>3. QED  BY <1>1, <2>1, <2>2
<1>5. ASSUME NEW r \in Records, EmitTimerFires(r) PROVE ClientInv'
  <2>1. ClientsKept
    BY <1>0, <1>5 DEF EmitTimerFires, SessionRecord, ClientsKept
  <2>2. QED  BY <1>1, <1>5, <2>1 DEF EmitTimerFires
<1>6. ASSUME NEW r \in Records, CloseTimerFires(r) PROVE ClientInv'
  <2>1. CASE UNCHANGED clientState
    <3>1. ClientsKept
      <4>1. CASE session' = [session EXCEPT ![r].closeTimer = FALSE]
        BY <1>0, <4>1 DEF SessionRecord, ClientsKept
      <4>2. CASE session' = [session EXCEPT ![r].closeTimer = FALSE,
                               ![r].status = "disconnected", ![r].emitTimer = FALSE]
        BY <1>0, <4>2 DEF SessionRecord, ClientsKept
      <4>3. CASE /\ session[r].client # NoClient
                 /\ clientState' = [clientState EXCEPT ![session[r].client] = "ended"]
        BY <1>0, <2>1, <4>3 DEF TypeOK
      <4>4. QED  BY <1>6, <4>1, <4>2, <4>3 DEF CloseTimerFires
    <3>2. QED  BY <1>1, <1>6, <2>1, <3>1 DEF CloseTimerFires
  <2>2. CASE /\ session[r].client # NoClient
             /\ session' = [session EXCEPT ![r].closeTimer = FALSE,
                               ![r].client = NoClient, ![r].closing = @ + 1]
             /\ clientState' = [clientState EXCEPT ![session[r].client] = "ended"]
    <3>1. \A q \in Records :
             session'[q].client = IF q = r THEN NoClient ELSE session[q].client
      BY <1>0, <2>2 DEF SessionRecord
    <3>2. QED  BY <1>0, <1>6, <2>2, <3>1, EndingClient DEF CloseTimerFires
  <2>3. QED  BY <1>6, <2>1, <2>2 DEF CloseTimerFires
<1>7. ASSUME NEW r \in Records, NEW c \in Calls, NEW at \in {"replacing", "disconnecting"},
             EndClient(c, r, at)
      PROVE  ClientInv'
  <2>1. \A q \in Records :
           session'[q].client = IF q = r THEN NoClient ELSE session[q].client
    BY <1>0, <1>7 DEF EndClient, SessionRecord
  <2>2. QED  BY <1>0, <1>7, <2>1, EndingClient DEF EndClient
<1>8. ASSUME NEW r \in Records, NEW c \in Calls, Connect(c, r) PROVE ClientInv'
  BY <1>0, <1>2, <1>7, <1>8, StartClientClientInv DEF Connect
<1>9. ASSUME NEW r \in Records, NEW c \in Calls, Disconnect(c, r) PROVE ClientInv'
  <2>1. CASE EndClient(c, r, "disconnecting")
    BY <1>7, <2>1
  <2>2. CASE /\ ChangeAndEmit(current', r, [session[r] EXCEPT !.status = "disconnected"])
             /\ UNCHANGED <<call, clientState>>
    BY <1>0, <1>1, <1>2, <1>9, <2>2, EmitStatusClient DEF Disconnect, Status
  <2>3. QED  BY <1>9, <2>1, <2>2 DEF Disconnect
<1>10. ASSUME NEW r \in Records, NEW c \in Calls, NEW f \in Filters,
              Subscribe(c, r, f) \/ Unsubscribe(c, r, f) PROVE ClientInv'
  <2>1. ClientsKept
    <3>1. CASE UNCHANGED session
      BY <3>1 DEF ClientsKept
    <3>2. CASE ChangeAndEmit(current', r, [session[r] EXCEPT !.subs[f] = NotSubscribed])
      BY <1>0, <1>2, <1>10, <3>2, EmitSubsClient DEF Subscribe, Unsubscribe
    <3>3. QED  BY <1>10, <3>1, <3>2 DEF Subscribe, Unsubscribe
  <2>2. \/ UNCHANGED call
        \/ /\ session[r].client # NoClient
           /\ \E at \in {"subscribing", "unsubscribing"} :
                 Await(c, at, r, session[r].client, f)
    BY <1>10 DEF Subscribe, Unsubscribe, IsConnected
  <2>3. UNCHANGED clientState
    BY <1>10 DEF Subscribe, Unsubscribe
  <2>4. CASE UNCHANGED call
    BY <1>1, <2>1, <2>3, <2>4
  <2>5. ASSUME NEW at \in {"subscribing", "unsubscribing"},
               session[r].client # NoClient, Await(c, at, r, session[r].client, f)
        PROVE  ClientInv'
    <3>1. \A d \in Calls :
             call'[d] = call[d] \/ (/\ call'[d].client = session[r].client
                                   /\ call'[d].at \notin Connecting)
      BY <1>0, <2>5 DEF Await, TypeOK, Connecting
    <3>2. clientState[session[r].client] # "unused"
      BY <2>5 DEF ClientInv, CurrentClientAlive
    <3>3. QED  BY <1>0, <2>1, <2>3, <3>1, <3>2, NoNewClient DEF ClientsKept
  <2>6. QED  BY <2>2, <2>4, <2>5
<1>11. ASSUME NEW c \in Calls, ConnectResumes(c) PROVE ClientInv'
  <2>1. call[c].rec \in Records /\ current' \in Records \cup {NoRecord}
    BY <1>0, <1>11, CallFields DEF ConnectResumes
  <2>2. QED  BY <1>0, <1>11, <2>1, StartClientClientInv DEF ConnectResumes
<1>12. ASSUME NEW c \in Calls, ConnectSucceeds(c) PROVE ClientInv'
  <2>1. /\ call[c].rec \in Records /\ current' \in Records \cup {NoRecord}
        /\ call[c].client \in Clients /\ call[c].at \in Connecting
    BY <1>0, <1>12, CallFields DEF ConnectSucceeds, Connecting
  <2>2. ClientsKept
    BY <1>0, <1>12, <2>1, EmitStatusClient DEF ConnectSucceeds, ClientsKept, Status
  <2>3. clientState' = [clientState EXCEPT ![call[c].client] = "up"]
    BY <1>12 DEF ConnectSucceeds
  <2>4. /\ \A k \in Clients : clientState[k] # "unused" => clientState'[k] # "unused"
        /\ \A q \in Records : session'[q].client # NoClient =>
              clientState'[session'[q].client] # "ended"
        /\ clientState'[call[c].client] # "unused"
    BY <1>0, <2>1, <2>2, <2>3 DEF ClientsKept, TypeOK
  <2>5. \A d \in Calls :
           \/ call'[d] = call[d] \/ call'[d] = Idle
           \/ /\ call[d].at \in Connecting
              /\ call'[d].client = call[d].client /\ call'[d].rec = call[d].rec
              /\ call'[d].client = call[c].client
    BY <1>0, <1>12, <2>1 DEF ConnectSucceeds, Await, Return, TypeOK
  <2>6. QED
    BY <1>0, <2>2, <2>4, <2>5, NoNewClient DEF ClientsKept, Idle, Connecting
<1>13. ASSUME NEW c \in Calls, ConnectFails(c) PROVE ClientInv'
  <2> DEFINE r == call[c].rec
             k == call[c].client
  <2>1. /\ r \in Records /\ current' \in Records \cup {NoRecord}
        /\ k \in Clients /\ call[c].at \in Connecting
    BY <1>0, <1>13, CallFields DEF ConnectFails, Connecting
  <2>2. \A q \in Records :
           session'[q].client = IF q = r THEN NoClient ELSE session[q].client
    <3>1. CASE session' = [session EXCEPT ![r].client = NoClient]
      BY <1>0, <2>1, <3>1 DEF SessionRecord
    <3>2. CASE ChangeAndEmit(current', r, [session[r] EXCEPT
                                            !.client = NoClient, !.status = "error"])
      <4> DEFINE s == [session[r] EXCEPT !.client = NoClient, !.status = "error"]
      <4>1. s \in SessionRecord
        BY <1>0, <2>1, RecordUpdates, Zenon DEF Status
      <4>0. s.client = NoClient
        BY <1>0, <2>1 DEF SessionRecord
      <4>2. ChangeAndEmit(current', r, s)
        BY <3>2
      <4> HIDE DEF s
      <4>3. QED  BY <1>0, <2>1, <4>0, <4>1, <4>2, EmitClient
    <3>3. QED  BY <1>13, <3>1, <3>2 DEF ConnectFails
  <2>3. clientState' = [clientState EXCEPT ![k] = "ended"]
    BY <1>13 DEF ConnectFails
  <2>4. \A q \in Records : session'[q].client # NoClient =>
           /\ session'[q].client = session[q].client
           /\ session'[q].client # k
    BY <2>1, <2>2 DEF ClientInv
  <2>5. /\ \A j \in Clients : clientState[j] # "unused" => clientState'[j] # "unused"
        /\ \A q \in Records : session'[q].client # NoClient =>
              clientState'[session'[q].client] # "ended"
        /\ clientState'[k] # "unused"
    BY <1>0, <2>1, <2>3, <2>4 DEF TypeOK
  <2>6. \A d \in Calls :
           \/ call'[d] = call[d] \/ call'[d] = Idle
           \/ call'[d].client = k /\ call'[d].at = "failing"
    BY <1>0, <1>13, <2>1 DEF ConnectFails, Await, Return, TypeOK
  <2> HIDE DEF r, k
  <2>7. QED
    BY <1>0, <2>2, <2>4, <2>5, <2>6, NoNewClient DEF Idle, Connecting
<1>14. ASSUME NEW c \in Calls,
              ResubscribeEnds(c) \/ ConnectFailed(c) \/ DisconnectEnds(c) PROVE ClientInv'
  <2>1. /\ call[c].rec \in Records /\ current' \in Records \cup {NoRecord}
    BY <1>0, <1>14, CallFields DEF ResubscribeEnds, ConnectFailed, DisconnectEnds
  <2>2. ClientsKept
    BY <1>0, <1>14, <2>1, EmitStatusClient
    DEF ResubscribeEnds, ConnectFailed, DisconnectEnds, Status
  <2>3. QED  BY <1>1, <1>14, <2>2 DEF ResubscribeEnds, ConnectFailed, DisconnectEnds
<1>15. ASSUME NEW c \in Calls, SubscribeAcked(c) \/ UnsubscribeAcked(c) PROVE ClientInv'
  <2>1. /\ call[c].rec \in Records /\ call[c].filter \in Filters
        /\ current' \in Records \cup {NoRecord}
    BY <1>0, <1>15, CallFields DEF SubscribeAcked, UnsubscribeAcked
  <2>2. ClientsKept
    BY <1>0, <1>15, <2>1, EmitSubsClient DEF SubscribeAcked, UnsubscribeAcked
  <2>3. QED  BY <1>1, <1>15, <2>2 DEF SubscribeAcked, UnsubscribeAcked
<1>16. ASSUME NEW k \in Clients,
              ClientDrops(k) \/ ClientRetries(k) \/ ClientReconnects(k) PROVE ClientInv'
  <2>1. ClientsKept
    <3>1. CASE UNCHANGED session
      BY <3>1 DEF ClientsKept
    <3>2. CASE /\ current \in Records
               /\ \E x \in Status :
                     ChangeAndEmit(current, current, [session[current] EXCEPT !.status = x])
      BY <1>0, <3>2, EmitStatusClient
    <3>3. QED
      BY <1>0, <1>16, <3>1, <3>2
      DEF ClientDrops, ClientRetries, ClientReconnects, ReportStatus, Serves, Status
  <2>2. /\ UNCHANGED call
        /\ \A j \in Clients : clientState[j] # "unused" => clientState'[j] # "unused"
        /\ \A j \in Clients : clientState[j] # "ended" => clientState'[j] # "ended"
    BY <1>0, <1>16 DEF ClientDrops, ClientRetries, ClientReconnects, TypeOK
  <2>3. QED  BY <1>0, <2>1, <2>2, NoNewClient DEF ClientsKept
<1>17. CASE UNCHANGED vars \/ (\E r \in Records : ReadOnlyCall(r))
            \/ (\E c \in Calls : RequestFails(c))
  BY <1>1, <1>17 DEF vars, ReadOnlyCall, RequestFails, ClientsKept
<1>18. QED
  BY <1>3, <1>4, <1>5, <1>6, <1>8, <1>9, <1>10, <1>11, <1>12, <1>13, <1>14, <1>15,
     <1>16, <1>17
  DEF Next

\* Whatever calls, teardowns and failures interleave, no session serves its calls
\* with a client that is ended or another session's.
THEOREM ClientsAreServed == Spec => []CurrentClientAlive
<1>1. Init => ClientInv
  <2>1. Init => TypeOK
    BY NewSessionType, IdleType DEF Init, TypeOK
  <2>2. QED
    BY <2>1 DEF Init, ClientInv, CurrentClientAlive, NewSession, Idle, Connecting
<1>2. ClientInv => CurrentClientAlive
  BY DEF ClientInv
<1>3. QED  BY <1>1, <1>2, ClientStep, PTL DEF Spec

-----------------------------------------------------------------------------
(* One connection change at a time leaves the connection exact. *)

Changes(q) == q.at \in {"replacing", "waiting", "resubscribing", "failing", "disconnecting"}

\* The record has no client, and nothing is left of the one it had.
Parted(r) == session[r].client = NoClient /\ LiveClients = {}

\* While the call c changes the connection, it works on the record of the key, which has
\* the call's client or none.
Between(c) ==
    /\ call[c].rec = current
    /\ \A q \in Records : session[q].closing = 0
    /\ IF call[c].at \in Connecting
       THEN session[current].client = call[c].client /\ LiveClients = {call[c].client}
       ELSE Parted(current)

Exact ==
    IF current = NoRecord THEN LiveClients = {}
    ELSE LET k == session[current].client IN
         /\ LiveClients = {k} \ {NoClient}
         /\ (session[current].status = "connected")
                <=> (k # NoClient /\ k \in LiveClients /\ clientState[k] = "up")

\* Each change begins where the one before has ended, and a teardown is a change.
OneChange ==
    /\ \A c, d \in Calls : Changes(call[c]) /\ Changes(call[d]) => c = d
    /\ \A c \in Calls : Changes(call[c]) => Between(c)
    /\ \A r \in Records : session[r].closing > 0 =>
          session[r].closing = 1 /\ r = current /\ Parted(r)
    /\ ~ConnectionChanging => Exact

\* A record that was never allocated is as new.
SerialInv ==
    /\ TypeOK
    /\ current \in used \cup {NoRecord}
    /\ \A c \in Calls : call[c].at # "idle" => call[c].rec \in used
    /\ \A r \in Records \ used : /\ session[r].client = NoClient /\ session[r].closing = 0
                                 /\ session[r].status # "connected"
    /\ ~overlapped => OneChange

LEMMA ChangingCalls ==
  ConnectionChanging <=> \/ \E c \in Calls : Changes(call[c])
                         \/ \E r \in Records : session[r].closing > 0
BY DEF ConnectionChanging, Changes

LEMMA ChangingCallsNext ==
  ConnectionChanging' <=> \/ \E c \in Calls : Changes(call'[c])
                          \/ \E r \in Records : session'[r].closing > 0
BY DEF ConnectionChanging, Changes

\* What is known while a call, a teardown or nothing changes the connection.
LEMMA CallChanging ==
  ASSUME OneChange, NEW c \in Calls, Changes(call[c])
  PROVE  Between(c) /\ \A d \in Calls \ {c} : ~Changes(call[d])
BY DEF OneChange

LEMMA NothingChanging ==
  ASSUME TypeOK, OneChange, ~ConnectionChanging
  PROVE  /\ Exact /\ \A d \in Calls : ~Changes(call[d])
         /\ \A q \in Records : session[q].closing = 0
<1>1. \A q \in Records : session[q].closing \in Nat
  BY DEF TypeOK, SessionRecord
<1>2. /\ \A d \in Calls : ~Changes(call[d])
      /\ \A q \in Records : ~(session[q].closing > 0)
  BY ChangingCalls
<1>3. QED
  BY <1>1, <1>2 DEF OneChange

LEMMA TeardownChanging ==
  ASSUME TypeOK, OneChange, NEW r \in Records, session[r].closing > 0
  PROVE  /\ session[r].closing = 1 /\ r = current /\ Parted(r)
         /\ \A q \in Records \ {r} : session[q].closing = 0
         /\ \A d \in Calls : ~Changes(call[d])
<1>1. \A q \in Records : session[q].closing \in Nat
  BY DEF TypeOK, SessionRecord
<1>2. \A q \in Records \ {r} : ~(session[q].closing > 0)
  BY DEF OneChange
<1>3. \A d \in Calls : ~Changes(call[d])
  BY DEF OneChange, Between
<1>4. QED
  BY <1>1, <1>2, <1>3 DEF OneChange

\* The three ways in which the next state can be of one change.
LEMMA CallChangingNext ==
  ASSUME NEW c \in Calls, Changes(call'[c]), Between(c)',
         \A d \in Calls \ {c} : ~Changes(call'[d])
  PROVE  OneChange'
<1>1. \A q \in Records : ~(session'[q].closing > 0)
  BY DEF Between
<1>2. ConnectionChanging'
  BY ChangingCallsNext
<1>3. QED
  BY <1>1, <1>2 DEF OneChange

LEMMA NothingChangingNext ==
  ASSUME Exact', \A d \in Calls : ~Changes(call'[d]),
         \A q \in Records : session'[q].closing = 0
  PROVE  OneChange'
<1>1. \A q \in Records : ~(session'[q].closing > 0)
  OBVIOUS
<1>2. QED
  BY <1>1 DEF OneChange

LEMMA TeardownChangingNext ==
  ASSUME NEW r \in Records, session'[r].closing = 1, r = current', Parted(r)',
         \A q \in Records \ {r} : session'[q].closing = 0,
         \A d \in Calls : ~Changes(call'[d])
  PROVE  OneChange'
<1>1. \A q \in Records \ {r} : ~(session'[q].closing > 0)
  OBVIOUS
<1>2. session'[r].closing > 0
  OBVIOUS
<1>3. ConnectionChanging'
  BY <1>2, ChangingCallsNext
<1>4. QED
  BY <1>1, <1>3 DEF OneChange

Allocates ==
    \/ UNCHANGED <<current, used>>
    \/ current = NoRecord /\ current' \in Records \ used /\ used' = used \cup {current'}

LEMMA Allocation ==
  ASSUME SerialInv, NEW r \in Records, GetOrCreateSession(r)
  PROVE  /\ Allocates /\ used \subseteq used' /\ current' = r /\ r \in used'
         /\ r # current => current = NoRecord /\ r \notin used
BY ConstantsAssumption DEF SerialInv, GetOrCreateSession, Allocates

LEMMA SerialFrame ==
  ASSUME SerialInv, TypeOK', used \subseteq used', current' \in used' \cup {NoRecord},
         \A q \in Records \ used' : Kept(q),
         \A c \in Calls : call'[c] = call[c] \/ call'[c].at = "idle" \/ call'[c].rec \in used',
         ~overlapped' => OneChange'
  PROVE  SerialInv'
<1>1. \A c \in Calls : call'[c].at # "idle" => call'[c].rec \in used'
  BY DEF SerialInv
<1>2. \A r \in Records \ used' : /\ session'[r].client = NoClient /\ session'[r].closing = 0
                                 /\ session'[r].status # "connected"
  BY DEF SerialInv, Kept
<1>3. QED
  BY <1>1, <1>2 DEF SerialInv

\* The steps that leave the connection alone.
Calm ==
    /\ \A q \in Records : Kept(q)
    /\ UNCHANGED <<clientState, overlapped>>
    /\ Allocates
    /\ \A c \in Calls :
          \/ call'[c] = call[c]
          \/ /\ ~Changes(call[c]) /\ ~Changes(call'[c])
             /\ call'[c].at = "idle" \/ call'[c].rec \in used'

LEMMA CalmKeepsSerialInv ==
  ASSUME SerialInv, TypeOK', Calm
  PROVE  SerialInv'
<1>1. LiveClients' = LiveClients
  BY DEF Calm, LiveClients
<1>2. /\ used \subseteq used' /\ current' \in used' \cup {NoRecord}
      /\ current # NoRecord => current' = current
  BY DEF SerialInv, Calm, Allocates
<1>3. \A c \in Calls : Changes(call'[c]) => call'[c] = call[c] /\ Changes(call[c])
  BY DEF Calm
<1>4. ASSUME ~overlapped' PROVE OneChange'
  <2>1. OneChange
    BY <1>4 DEF SerialInv, Calm
  <2>2. \A q \in Records : session'[q].closing = session[q].closing
    BY DEF Calm, Kept
  <2>3. ASSUME NEW c \in Calls, Changes(call'[c]) PROVE OneChange'
    <3>1. call'[c] = call[c] /\ Changes(call[c])
      BY <1>3, <2>3
    <3>2. Between(c) /\ \A d \in Calls \ {c} : ~Changes(call[d])
      BY <2>1, <3>1, CallChanging
    <3>3. call[c].rec \in used /\ used \subseteq Records
      BY <3>1 DEF SerialInv, TypeOK, Changes
    <3>4. current \in Records /\ current' = current
      BY <1>2, <3>2, <3>3, ConstantsAssumption DEF Between
    <3>5. Kept(current)
      BY <3>4 DEF Calm
    <3>6. Between(c)'
      BY <1>1, <2>2, <3>1, <3>2, <3>4, <3>5 DEF Between, Parted, Kept
    <3>7. \A d \in Calls \ {c} : ~Changes(call'[d])
      BY <1>3, <3>2
    <3>8. QED
      BY <2>3, <3>6, <3>7, CallChangingNext
  <2>4. ASSUME NEW r \in Records, session'[r].closing > 0 PROVE OneChange'
    <3>1. /\ session[r].closing = 1 /\ r = current /\ Parted(r)
          /\ \A q \in Records \ {r} : session[q].closing = 0
          /\ \A d \in Calls : ~Changes(call[d])
      BY <2>1, <2>2, <2>4, TeardownChanging DEF SerialInv
    <3>2. current' = r
      BY <1>2, <3>1, ConstantsAssumption
    <3>3. Kept(r)
      BY DEF Calm
    <3>4. Parted(r)'
      BY <1>1, <3>1, <3>3 DEF Parted, Kept
    <3>5. QED
      BY <1>3, <2>2, <3>1, <3>2, <3>4, TeardownChangingNext
  <2>5. CASE ~ConnectionChanging'
    <3>1. ~ConnectionChanging
      <4>1. ASSUME NEW c \in Calls, Changes(call[c]) PROVE Changes(call'[c])
        BY <4>1 DEF Calm
      <4>2. QED
        BY <2>2, <2>5, <4>1, ChangingCalls, ChangingCallsNext
    <3>2. /\ Exact /\ \A d \in Calls : ~Changes(call[d])
          /\ \A q \in Records : session[q].closing = 0
      BY <2>1, <3>1, NothingChanging DEF SerialInv
    <3>3. Exact'
      <4>1. CASE current' = current
        <5>1. CASE current = NoRecord
          BY <1>1, <3>2, <4>1, <5>1 DEF Exact
        <5>2. CASE current # NoRecord
          <6>1. Kept(current)
            BY <5>2 DEF Calm, SerialInv, TypeOK
          <6>2. clientState' = clientState
            BY DEF Calm
          <6>3. QED
            BY <1>1, <3>2, <4>1, <5>2, <6>1, <6>2 DEF Exact, Kept
        <5>3. QED
          BY <5>1, <5>2
      <4>2. CASE current' # current
        <5>1. current = NoRecord /\ current' \in Records \ used
          BY <4>2 DEF Calm, Allocates
        <5>2. Kept(current') /\ session[current'].client = NoClient
              /\ session[current'].status # "connected"
          BY <5>1 DEF Calm, SerialInv
        <5>3. LiveClients = {}
          BY <3>2, <5>1 DEF Exact
        <5>4. QED
          BY <1>1, <5>1, <5>2, <5>3, ConstantsAssumption DEF Exact, Kept
      <4>3. QED
        BY <4>1, <4>2
    <3>4. QED
      BY <1>3, <2>2, <3>2, <3>3, NothingChangingNext
  <2>6. QED
    BY <2>3, <2>4, <2>5, ChangingCallsNext
<1>5. \A c \in Calls : call'[c] = call[c] \/ call'[c].at = "idle" \/ call'[c].rec \in used'
  BY DEF Calm
<1>6. \A q \in Records \ used' : Kept(q)
  BY DEF Calm
<1>7. QED
  BY <1>2, <1>4, <1>5, <1>6, SerialFrame

-----------------------------------------------------------------------------
(* What the steps do to the clients alive and to the calls. *)

LEMMA LiveAfterEnd ==
  ASSUME TypeOK, NEW k \in Clients, clientState' = [clientState EXCEPT ![k] = "ended"]
  PROVE  LiveClients' = LiveClients \ {k}
<1>1. clientState'[k] = "ended" /\ \A j \in Clients \ {k} : clientState'[j] = clientState[j]
  BY DEF TypeOK
<1>2. QED
  BY <1>1 DEF LiveClients

LEMMA LiveAfterStart ==
  ASSUME TypeOK, NEW k \in Clients, clientState' = [clientState EXCEPT ![k] = "connecting"]
  PROVE  LiveClients' = LiveClients \cup {k}
<1>1. clientState'[k] = "connecting"
      /\ \A j \in Clients \ {k} : clientState'[j] = clientState[j]
  BY DEF TypeOK
<1>2. QED
  BY <1>1 DEF LiveClients

LEMMA LiveAfterEvent ==
  ASSUME NEW k \in LiveClients, clientState'[k] \in {"up", "down"},
         \A j \in Clients \ {k} : clientState'[j] = clientState[j]
  PROVE  LiveClients' = LiveClients
BY DEF LiveClients

LEMMA AwaitFrame ==
  ASSUME TypeOK, NEW c \in Calls, NEW at, NEW r, NEW k, NEW f, Await(c, at, r, k, f)
  PROVE  /\ call'[c].at = at /\ call'[c].rec = r /\ call'[c].client = k
         /\ \A d \in Calls \ {c} : call'[d] = call[d]
BY DEF Await, TypeOK

LEMMA ReturnFrame ==
  ASSUME TypeOK, NEW c \in Calls, Return(c)
  PROVE  /\ call'[c].at = "idle" /\ ~Changes(call'[c])
         /\ \A d \in Calls \ {c} : call'[d] = call[d]
BY DEF Return, Idle, TypeOK, Changes

-----------------------------------------------------------------------------
(* The steps of connects, disconnects and teardowns. *)

\* A change that a call begins finds the connection exact and nothing under way.
LEMMA ChangeBegins ==
  ASSUME SerialInv, NEW r \in Records, GetOrCreateSession(r),
         overlapped' = (overlapped \/ ConnectionChanging), ~overlapped'
  PROVE  /\ \A d \in Calls : ~Changes(call[d])
         /\ \A q \in Records : session[q].closing = 0
         /\ current' = r
         /\ LiveClients = {session[r].client} \ {NoClient}
<1>1. ~overlapped /\ ~ConnectionChanging /\ TypeOK /\ OneChange
  BY DEF SerialInv
<1>2. /\ Exact /\ \A d \in Calls : ~Changes(call[d])
      /\ \A q \in Records : session[q].closing = 0
  BY <1>1, NothingChanging
<1>3. current' = r /\ (r # current => current = NoRecord /\ r \notin used)
  BY Allocation
<1>4. CASE r = current
  BY <1>2, <1>3, <1>4, ConstantsAssumption DEF Exact
<1>5. CASE r # current
  <2>1. LiveClients = {} /\ session[r].client = NoClient
    BY <1>2, <1>3, <1>5 DEF Exact, SerialInv
  <2>2. QED
    BY <1>2, <1>3, <2>1
<1>6. QED
  BY <1>4, <1>5

LEMMA StartClientSerial ==
  ASSUME SerialInv, TypeOK', NEW c \in Calls, NEW r \in Records, NEW k \in Clients,
         StartClient(c, r, k), used \subseteq used', current' \in used' \cup {NoRecord},
         r \in used',
         ~overlapped' => /\ \A d \in Calls \ {c} : ~Changes(call[d])
                         /\ \A q \in Records : session[q].closing = 0
                         /\ current' = r /\ LiveClients = {}
  PROVE  SerialInv'
<1>1. TypeOK /\ current' \in Records \cup {NoRecord}
  BY DEF SerialInv, TypeOK
<1>2. Becomes(r, k, "connecting")
  <2>1. PICK s \in SessionRecord : s = session[r]
    BY <1>1 DEF TypeOK
  <2> DEFINE g == [f \in Filters |-> NotSubscribed]
             m == [t \in Topics |-> NoMessage]
             u == [s EXCEPT !.client = k, !.status = "connecting",
                            !.subs = g, !.messages = m, !.total = 0]
  <2>2. g \in [Filters -> Nat \cup {NotSubscribed}]
    OBVIOUS
  <2>3. m \in [Topics -> [from : Clients \cup {NoClient}, nr : Nat]]
    BY DEF NoMessage
  <2>4. ChangeAndEmit(current', r, u)
    BY <2>1 DEF StartClient
  <2> HIDE DEF g, m
  <2>5. /\ u \in SessionRecord /\ u.client = k
        /\ u.status = "connecting" /\ u.closing = s.closing
    BY <2>2, <2>3 DEF SessionRecord, Status
  <2> HIDE DEF u
  <2>6. Becomes(r, u.client, u.status)
    BY <1>1, <2>1, <2>4, <2>5, EmitBecomes
  <2>7. QED
    BY <2>5, <2>6
<1>3. LiveClients' = LiveClients \cup {k}
  BY <1>1, LiveAfterStart DEF StartClient
<1>4. /\ call'[c].at = "waiting" /\ call'[c].rec = r /\ call'[c].client = k
      /\ \A d \in Calls \ {c} : call'[d] = call[d]
  BY <1>1, AwaitFrame DEF StartClient
<1>5. ASSUME ~overlapped' PROVE OneChange'
  <2>1. \A q \in Records : session'[q].closing = 0
    BY <1>2, <1>5 DEF Becomes, Kept
  <2>2. session'[current'].client = k /\ LiveClients' = {k} /\ current' = r
    BY <1>2, <1>3, <1>5 DEF Becomes
  <2>3. Between(c)'
    BY <1>4, <2>1, <2>2 DEF Between, Connecting
  <2>4. Changes(call'[c]) /\ \A d \in Calls \ {c} : ~Changes(call'[d])
    BY <1>4, <1>5 DEF Changes
  <2>5. QED
    BY <2>3, <2>4, CallChangingNext
<1>6. /\ \A q \in Records \ used' : Kept(q)
      /\ \A d \in Calls : call'[d] = call[d] \/ call'[d].rec \in used'
  BY <1>2, <1>4 DEF Becomes
<1>7. QED
  BY <1>5, <1>6, SerialFrame

LEMMA EndClientSerial ==
  ASSUME SerialInv, TypeOK', NEW c \in Calls, NEW r \in Records,
         NEW at \in {"replacing", "disconnecting"},
         EndClient(c, r, at), GetOrCreateSession(r),
         overlapped' = (overlapped \/ ConnectionChanging)
  PROVE  SerialInv'
<1>1. /\ TypeOK /\ used \subseteq used' /\ current' = r /\ r \in used'
      /\ session[r].client \in Clients
  BY Allocation DEF SerialInv, TypeOK, SessionRecord, EndClient
<1>2. /\ session'[r].client = NoClient /\ session'[r].closing = session[r].closing
      /\ \A q \in Records \ {r} : Kept(q)
  BY <1>1 DEF EndClient, TypeOK, SessionRecord, Kept
<1>3. LiveClients' = LiveClients \ {session[r].client}
  BY <1>1, LiveAfterEnd DEF EndClient
<1>4. /\ call'[c].at = at /\ call'[c].rec = r
      /\ \A d \in Calls \ {c} : call'[d] = call[d]
  BY <1>1, AwaitFrame DEF EndClient
<1>5. ASSUME ~overlapped' PROVE OneChange'
  <2>1. /\ \A d \in Calls : ~Changes(call[d])
        /\ \A q \in Records : session[q].closing = 0
        /\ LiveClients = {session[r].client} \ {NoClient}
    BY <1>5, ChangeBegins
  <2>2. \A q \in Records : session'[q].closing = 0
    BY <1>2, <2>1 DEF Kept
  <2>3. LiveClients' = {}
    BY <1>3, <2>1
  <2>4. Between(c)'
    BY <1>1, <1>2, <1>4, <2>2, <2>3 DEF Between, Parted, Connecting
  <2>5. Changes(call'[c]) /\ \A d \in Calls \ {c} : ~Changes(call'[d])
    BY <1>4, <2>1 DEF Changes
  <2>6. QED
    BY <2>4, <2>5, CallChangingNext
<1>6. /\ \A q \in Records \ used' : Kept(q)
      /\ \A d \in Calls : call'[d] = call[d] \/ call'[d].rec \in used'
  BY <1>1, <1>2, <1>4
<1>7. QED
  BY <1>1, <1>5, <1>6, SerialFrame

LEMMA ConnectSerial ==
  ASSUME SerialInv, TypeOK', NEW c \in Calls, NEW r \in Records, Connect(c, r)
  PROVE  SerialInv'
<1>1. GetOrCreateSession(r) /\ overlapped' = (overlapped \/ ConnectionChanging)
  BY DEF Connect
<1>2. CASE EndClient(c, r, "replacing")
  BY <1>1, <1>2, EndClientSerial
<1>3. ASSUME NEW k \in Clients, StartClient(c, r, k), session[r].client = NoClient
      PROVE  SerialInv'
  <2>1. used \subseteq used' /\ current' = r /\ r \in used'
    BY <1>1, Allocation
  <2>2. ~overlapped' => /\ \A d \in Calls : ~Changes(call[d])
                        /\ \A q \in Records : session[q].closing = 0
                        /\ LiveClients = {session[r].client} \ {NoClient}
    BY <1>1, ChangeBegins
  <2>3. QED
    BY <1>3, <2>1, <2>2, StartClientSerial
<1>4. QED
  BY <1>2, <1>3 DEF Connect

LEMMA DisconnectSerial ==
  ASSUME SerialInv, TypeOK', NEW c \in Calls, NEW r \in Records, Disconnect(c, r)
  PROVE  SerialInv'
<1>1. GetOrCreateSession(r) /\ overlapped' = (overlapped \/ ConnectionChanging)
  BY DEF Disconnect
<1>2. CASE EndClient(c, r, "disconnecting")
  BY <1>1, <1>2, EndClientSerial
<1>3. CASE /\ session[r].client = NoClient
           /\ ChangeAndEmit(current', r, [session[r] EXCEPT !.status = "disconnected"])
           /\ UNCHANGED <<call, clientState>>
  <2>1. TypeOK /\ used \subseteq used' /\ current' = r /\ r \in used'
    BY <1>1, Allocation DEF SerialInv
  <2>2. Becomes(r, NoClient, "disconnected")
    BY <1>3, <2>1, EmitStatus DEF Status
  <2>3. ASSUME ~overlapped' PROVE OneChange'
    <3>1. /\ \A d \in Calls : ~Changes(call[d])
          /\ \A q \in Records : session[q].closing = 0
          /\ LiveClients = {session[r].client} \ {NoClient}
      BY <1>1, <2>3, ChangeBegins
    <3>2. \A q \in Records : session'[q].closing = 0
      BY <2>2, <3>1 DEF Becomes, Kept
    <3>3. LiveClients' = {}
      BY <1>3, <3>1 DEF LiveClients
    <3>4. Exact'
      BY <2>1, <2>2, <3>3 DEF Exact, Becomes
    <3>5. QED
      BY <1>3, <3>1, <3>2, <3>4, NothingChangingNext
  <2>4. \A q \in Records \ used' : Kept(q)
    BY <2>1, <2>2 DEF Becomes
  <2>5. QED
    BY <1>3, <2>1, <2>3, <2>4, SerialFrame
<1>4. QED
  BY <1>2, <1>3 DEF Disconnect

LEMMA CloseTimerFiresSerial ==
  ASSUME SerialInv, TypeOK', NEW r \in Records, CloseTimerFires(r)
  PROVE  SerialInv'
<1>1. /\ TypeOK /\ session \in [Records -> SessionRecord] /\ UNCHANGED <<used, call>>
      /\ session[r] \in SessionRecord
  BY DEF SerialInv, TypeOK, CloseTimerFires
<1>2. CASE /\ session' = [session EXCEPT ![r].closeTimer = FALSE]
           /\ UNCHANGED <<current, clientState, overlapped>>
  <2>1. ConnectionsKept
    BY <1>1, <1>2 DEF ConnectionsKept, Kept, SessionRecord
  <2>2. Calm
    BY <1>1, <1>2, <2>1 DEF Calm, ConnectionsKept, Allocates
  <2>3. QED
    BY <2>2, CalmKeepsSerialInv
<1>3. CASE /\ r = current /\ overlapped' = (overlapped \/ ConnectionChanging)
           /\ ~(r # current \/ session[r].listeners # {})
  <2>1. r \in used
    BY <1>3, ConstantsAssumption DEF SerialInv
  <2>2. ~overlapped' => /\ \A d \in Calls : ~Changes(call[d])
                        /\ \A q \in Records : session[q].closing = 0
                        /\ LiveClients = {session[r].client} \ {NoClient}
    <3>1. SUFFICES ASSUME ~overlapped, ~ConnectionChanging
                   PROVE  /\ \A d \in Calls : ~Changes(call[d])
                          /\ \A q \in Records : session[q].closing = 0
                          /\ LiveClients = {session[r].client} \ {NoClient}
      BY <1>3
    <3>2. /\ Exact /\ \A d \in Calls : ~Changes(call[d])
          /\ \A q \in Records : session[q].closing = 0
      BY <3>1, NothingChanging DEF SerialInv
    <3>3. QED
      BY <1>3, <3>2, ConstantsAssumption DEF Exact
  <2>3. CASE /\ session[r].client = NoClient
             /\ session' = [session EXCEPT ![r].closeTimer = FALSE,
                                           ![r].status = "disconnected",
                                           ![r].emitTimer = FALSE]
             /\ current' = NoRecord
             /\ UNCHANGED clientState
    <3>1. Becomes(r, NoClient, "disconnected")
      BY <1>1, <2>3 DEF Becomes, Kept, SessionRecord
    <3>2. ASSUME ~overlapped' PROVE OneChange'
      <4>1. \A q \in Records : session'[q].closing = 0
        BY <2>2, <3>1, <3>2 DEF Becomes, Kept
      <4>2. Exact'
        BY <2>2, <2>3, <3>2 DEF Exact, LiveClients
      <4>3. QED
        BY <1>1, <2>2, <3>2, <4>1, <4>2, NothingChangingNext
    <3>3. \A q \in Records \ used' : Kept(q)
      BY <1>1, <2>1, <3>1 DEF Becomes
    <3>4. QED
      BY <1>1, <2>3, <3>2, <3>3, SerialFrame
  <2>4. CASE /\ session[r].client # NoClient
             /\ session' = [session EXCEPT ![r].closeTimer = FALSE,
                                           ![r].client = NoClient,
                                           ![r].closing = @ + 1]
             /\ clientState' = [clientState EXCEPT ![session[r].client] = "ended"]
             /\ UNCHANGED current
    <3>1. session[r].client \in Clients
      BY <1>1, <2>4 DEF SessionRecord
    <3>2. /\ session'[r].client = NoClient /\ session'[r].closing = session[r].closing + 1
          /\ \A q \in Records \ {r} : Kept(q)
      BY <1>1, <2>4 DEF Kept, SessionRecord
    <3>3. LiveClients' = LiveClients \ {session[r].client}
      BY <1>1, <2>4, <3>1, LiveAfterEnd
    <3>4. ASSUME ~overlapped' PROVE OneChange'
      <4>1. /\ session'[r].closing = 1 /\ \A q \in Records \ {r} : session'[q].closing = 0
            /\ Parted(r)'
        BY <2>2, <3>2, <3>3, <3>4 DEF Parted, Kept
      <4>2. r = current' /\ \A d \in Calls : ~Changes(call'[d])
        BY <1>1, <1>3, <2>2, <2>4, <3>4
      <4>3. QED
        BY <4>1, <4>2, TeardownChangingNext
    <3>5. /\ \A q \in Records \ used' : Kept(q)
          /\ used \subseteq used' /\ current' \in used' \cup {NoRecord}
      BY <1>1, <1>3, <2>1, <2>4, <3>2
    <3>6. QED
      BY <1>1, <3>4, <3>5, SerialFrame
  <2>5. QED
    BY <1>3, <2>3, <2>4, Zenon DEF CloseTimerFires
<1>4. QED
  BY <1>2, <1>3, Zenon DEF CloseTimerFires

LEMMA TeardownEndsSerial ==
  ASSUME SerialInv, TypeOK', NEW r \in Records, TeardownEnds(r)
  PROVE  SerialInv'
<1>1. TypeOK /\ session[r].closing > 0 /\ UNCHANGED <<used, clientState, call, overlapped>>
  BY DEF SerialInv, TeardownEnds
<1>2. r \in used /\ current' \in {current, NoRecord}
  BY <1>1 DEF SerialInv, TeardownEnds
<1>3. /\ session'[r].client = session[r].client /\ session'[r].status = "disconnected"
      /\ session'[r].closing = session[r].closing - 1
      /\ \A q \in Records \ {r} : Kept(q)
  BY <1>1, TeardownKeeps
<1>4. ASSUME ~overlapped' PROVE OneChange'
  <2>1. /\ session[r].closing = 1 /\ r = current /\ Parted(r)
        /\ \A q \in Records \ {r} : session[q].closing = 0
        /\ \A d \in Calls : ~Changes(call[d])
    BY <1>1, <1>4, TeardownChanging DEF SerialInv
  <2>2. \A q \in Records : session'[q].closing = 0
    BY <1>3, <2>1 DEF Kept
  <2>3. LiveClients' = {}
    BY <1>1, <2>1 DEF Parted, LiveClients
  <2>4. Exact'
    BY <1>2, <1>3, <2>1, <2>3 DEF Exact, Parted
  <2>5. QED
    BY <1>1, <2>1, <2>2, <2>4, NothingChangingNext
<1>5. \A q \in Records \ used' : Kept(q)
  BY <1>1, <1>2, <1>3
<1>6. used \subseteq used' /\ current' \in used' \cup {NoRecord}
  BY <1>1, <1>2 DEF SerialInv
<1>7. QED
  BY <1>1, <1>4, <1>5, <1>6, SerialFrame

LEMMA ConnectResumesSerial ==
  ASSUME SerialInv, TypeOK', NEW c \in Calls, ConnectResumes(c)
  PROVE  SerialInv'
<1>1. /\ TypeOK /\ call[c].at = "replacing" /\ UNCHANGED <<current, used, overlapped>>
      /\ call[c].rec \in used
  BY DEF SerialInv, ConnectResumes
<1>2. call[c].rec \in Records /\ current \in used \cup {NoRecord}
  BY <1>1 DEF SerialInv, TypeOK
<1>3. ASSUME ~overlapped'
      PROVE  /\ \A d \in Calls \ {c} : ~Changes(call[d])
             /\ \A q \in Records : session[q].closing = 0
             /\ current' = call[c].rec /\ LiveClients = {}
  <2>1. Changes(call[c]) /\ call[c].at \notin Connecting
    BY <1>1 DEF Changes, Connecting
  <2>2. Between(c) /\ \A d \in Calls \ {c} : ~Changes(call[d])
    BY <1>1, <1>3, <2>1, CallChanging DEF SerialInv
  <2>3. QED
    BY <1>1, <2>1, <2>2 DEF Between, Parted
<1>4. QED
  BY <1>1, <1>2, <1>3, StartClientSerial DEF ConnectResumes

\* A connect is over with its client up.
LEMMA ConnectedSerial ==
  ASSUME SerialInv, TypeOK', NEW c \in Calls, call[c].at \in Connecting,
         UNCHANGED <<current, used, overlapped>>, Return(c),
         clientState'[call[c].client] = "up", LiveClients' = LiveClients,
         ChangeAndEmit(current', call[c].rec,
                       [session[call[c].rec] EXCEPT !.status = "connected"])
  PROVE  SerialInv'
<1>1. /\ TypeOK /\ call[c].rec \in used /\ call[c].rec \in Records
      /\ Changes(call[c]) /\ call[c].client \in Clients
  BY ClientsOfCalls DEF SerialInv, TypeOK, Connecting, Changes
<1>2. Becomes(call[c].rec, session[call[c].rec].client, "connected")
  <2>1. PICK r \in Records : r = call[c].rec
    BY <1>1
  <2>2. ChangeAndEmit(current', r, [session[r] EXCEPT !.status = "connected"])
    BY <2>1
  <2>3. current' \in Records \cup {NoRecord}
    BY DEF TypeOK
  <2>4. QED
    BY <1>1, <2>1, <2>2, <2>3, EmitStatus DEF Status
<1>3. ~Changes(call'[c]) /\ \A d \in Calls \ {c} : call'[d] = call[d]
  BY <1>1, ReturnFrame
<1>4. ASSUME ~overlapped' PROVE OneChange'
  <2>1. Between(c) /\ \A d \in Calls \ {c} : ~Changes(call[d])
    BY <1>1, <1>4, CallChanging DEF SerialInv
  <2>2. \A q \in Records : session'[q].closing = 0
    BY <1>2, <2>1 DEF Becomes, Kept, Between
  <2>3. /\ session[current].client = call[c].client /\ LiveClients = {call[c].client}
        /\ call[c].rec = current
    BY <2>1 DEF Between
  <2>4. Exact'
    BY <1>1, <1>2, <2>3, ConstantsAssumption DEF Exact, Becomes
  <2>5. QED
    BY <1>3, <2>1, <2>2, <2>4, NothingChangingNext
<1>5. /\ \A q \in Records \ used' : Kept(q)
      /\ \A d \in Calls : call'[d] = call[d] \/ call'[d].at = "idle"
  BY <1>1, <1>2, ReturnFrame DEF Becomes
<1>6. used \subseteq used' /\ current' \in used' \cup {NoRecord}
  BY DEF SerialInv
<1>7. QED
  BY <1>4, <1>5, <1>6, SerialFrame

LEMMA ConnectSucceedsSerial ==
  ASSUME SerialInv, TypeOK', NEW c \in Calls, ConnectSucceeds(c)
  PROVE  SerialInv'
<1>1. /\ TypeOK /\ call[c].at = "waiting" /\ clientState[call[c].client] = "connecting"
      /\ UNCHANGED <<current, used, overlapped>>
      /\ call[c].at \in Connecting /\ Changes(call[c])
  BY DEF SerialInv, ConnectSucceeds, Connecting, Changes
<1>2. call[c].client \in Clients /\ call[c].rec \in used
  BY <1>1, ClientsOfCalls DEF SerialInv
<1>3. /\ clientState'[call[c].client] = "up"
      /\ \A j \in Clients \ {call[c].client} : clientState'[j] = clientState[j]
  BY <1>1, <1>2 DEF ConnectSucceeds, TypeOK
<1>4. LiveClients' = LiveClients
  BY <1>1, <1>2, <1>3, LiveAfterEvent DEF LiveClients
<1>5. CASE Await(c, "resubscribing", call[c].rec, call[c].client, NoFilter)
           /\ UNCHANGED session
  <2>1. /\ call'[c].at = "resubscribing" /\ call'[c].rec = call[c].rec
        /\ call'[c].client = call[c].client
        /\ \A d \in Calls \ {c} : call'[d] = call[d]
    BY <1>1, <1>5, AwaitFrame
  <2>2. ASSUME ~overlapped' PROVE OneChange'
    <3>1. Between(c) /\ \A d \in Calls \ {c} : ~Changes(call[d])
      BY <1>1, <2>2, CallChanging DEF SerialInv
    <3>2. Between(c)'
      BY <1>1, <1>4, <1>5, <2>1, <3>1 DEF Between, Connecting
    <3>3. Changes(call'[c]) /\ \A d \in Calls \ {c} : ~Changes(call'[d])
      BY <2>1, <3>1 DEF Changes
    <3>4. QED
      BY <3>2, <3>3, CallChangingNext
  <2>3. /\ \A q \in Records \ used' : Kept(q)
        /\ \A d \in Calls : call'[d] = call[d] \/ call'[d].rec \in used'
    BY <1>1, <1>2, <1>5, <2>1 DEF Kept
  <2>4. used \subseteq used' /\ current' \in used' \cup {NoRecord}
    BY <1>1 DEF SerialInv
  <2>5. QED
    BY <2>2, <2>3, <2>4, SerialFrame
<1>6. CASE /\ Return(c)
           /\ ChangeAndEmit(current', call[c].rec,
                            [session[call[c].rec] EXCEPT !.status = "connected"])
  BY <1>1, <1>3, <1>4, <1>6, ConnectedSerial
<1>7. QED
  BY <1>5, <1>6, Zenon DEF ConnectSucceeds

LEMMA ResubscribeEndsSerial ==
  ASSUME SerialInv, TypeOK', NEW c \in Calls, ResubscribeEnds(c)
  PROVE  SerialInv'
<1>1. /\ call[c].at \in Connecting /\ UNCHANGED <<current, used, overlapped>> /\ Return(c)
      /\ clientState'[call[c].client] = "up" /\ LiveClients' = LiveClients
  BY DEF ResubscribeEnds, Connecting, LiveClients
<1>2. ChangeAndEmit(current', call[c].rec,
                    [session[call[c].rec] EXCEPT !.status = "connected"])
  BY Zenon DEF ResubscribeEnds
<1>3. QED
  BY <1>1, <1>2, ConnectedSerial

LEMMA ConnectFailsSerial ==
  ASSUME SerialInv, TypeOK', NEW c \in Calls, ConnectFails(c)
  PROVE  SerialInv'
<1>1. /\ TypeOK /\ call[c].at \in Connecting /\ Changes(call[c])
      /\ UNCHANGED <<current, used, overlapped>>
      /\ clientState' = [clientState EXCEPT ![call[c].client] = "ended"]
  BY DEF SerialInv, ConnectFails, Connecting, Changes
<1>2. /\ call[c].client \in Clients /\ call[c].rec \in used /\ call[c].rec \in Records
      /\ used \subseteq used' /\ current' \in used' \cup {NoRecord}
  BY <1>1, ClientsOfCalls DEF SerialInv, TypeOK, Connecting
<1>3. LiveClients' = LiveClients \ {call[c].client}
  BY <1>1, <1>2, LiveAfterEnd
<1>4. CASE /\ clientState[call[c].client] = "ended" /\ Return(c)
           /\ ChangeAndEmit(current', call[c].rec, [session[call[c].rec] EXCEPT
                                        !.client = NoClient, !.status = "error"])
  <2>1. PICK r \in Records : r = call[c].rec
    BY <1>2
  <2>2. PICK s \in SessionRecord : s = session[r]
    BY <1>1 DEF TypeOK
  <2> DEFINE u == [s EXCEPT !.client = NoClient, !.status = "error"]
  <2>3. u \in SessionRecord /\ u.closing = s.closing
    BY DEF SessionRecord, Status
  <2>4. ChangeAndEmit(current', r, u)
    BY <1>4, <2>1, <2>2
  <2> HIDE DEF u
  <2>5. current' \in Records \cup {NoRecord}
    BY DEF TypeOK
  <2>6. \A q \in Records \ used' : Kept(q)
    BY <1>1, <1>2, <2>1, <2>2, <2>3, <2>4, <2>5, EmitBecomes DEF Becomes
  <2>7. overlapped'
    <3>1. SUFFICES ASSUME ~overlapped PROVE FALSE
      BY <1>1
    <3>2. Between(c)
      BY <1>1, <3>1, CallChanging DEF SerialInv
    <3>3. call[c].client \in LiveClients
      BY <1>1, <3>2 DEF Between
    <3>4. QED
      BY <1>4, <3>3 DEF LiveClients
  <2>8. \A d \in Calls : call'[d] = call[d] \/ call'[d].at = "idle"
    BY <1>1, <1>4, ReturnFrame
  <2>9. QED
    BY <1>2, <2>6, <2>7, <2>8, SerialFrame
<1>5. CASE /\ Await(c, "failing", call[c].rec, call[c].client, NoFilter)
           /\ session' = [session EXCEPT ![call[c].rec].client = NoClient]
  <2>1. /\ call'[c].at = "failing" /\ call'[c].rec = call[c].rec
        /\ \A d \in Calls \ {c} : call'[d] = call[d]
    BY <1>1, <1>5, AwaitFrame
  <2>2. /\ session'[call[c].rec].client = NoClient
        /\ session'[call[c].rec].closing = session[call[c].rec].closing
        /\ \A q \in Records \ {call[c].rec} : Kept(q)
    <3>1. PICK r \in Records : r = call[c].rec
      BY <1>2
    <3>2. session' = [session EXCEPT ![r].client = NoClient]
      BY <1>5, <3>1
    <3>3. QED
      BY <1>1, <3>1, <3>2 DEF Kept, TypeOK, SessionRecord
  <2>3. ASSUME ~overlapped' PROVE OneChange'
    <3>1. Between(c) /\ \A d \in Calls \ {c} : ~Changes(call[d])
      BY <1>1, <2>3, CallChanging DEF SerialInv
    <3>2. /\ call[c].rec = current /\ LiveClients = {call[c].client}
          /\ \A q \in Records : session[q].closing = 0
      BY <1>1, <3>1 DEF Between
    <3>3. Between(c)'
      BY <1>1, <1>3, <2>1, <2>2, <3>2 DEF Between, Parted, Kept, Connecting
    <3>4. Changes(call'[c]) /\ \A d \in Calls \ {c} : ~Changes(call'[d])
      BY <2>1, <3>1 DEF Changes
    <3>5. QED
      BY <3>3, <3>4, CallChangingNext
  <2>4. /\ \A q \in Records \ used' : Kept(q)
        /\ \A d \in Calls : call'[d] = call[d] \/ call'[d].rec \in used'
    BY <1>1, <1>2, <2>1, <2>2
  <2>5. QED
    BY <1>2, <2>3, <2>4, SerialFrame
<1>6. QED
  BY <1>4, <1>5, Zenon DEF ConnectFails

\* A call whose client is gone is over.
LEMMA PartedCallSerial ==
  ASSUME SerialInv, TypeOK', NEW c \in Calls, NEW x \in {"error", "disconnected"},
         call[c].at \in {"failing", "disconnecting"},
         UNCHANGED <<current, used, clientState, overlapped>>, Return(c),
         ChangeAndEmit(current', call[c].rec, [session[call[c].rec] EXCEPT !.status = x])
  PROVE  SerialInv'
<1>1. /\ TypeOK /\ call[c].rec \in used /\ call[c].rec \in Records
      /\ Changes(call[c]) /\ call[c].at \notin Connecting
  BY DEF SerialInv, TypeOK, Connecting, Changes
<1>2. Becomes(call[c].rec, session[call[c].rec].client, x)
  <2>1. PICK r \in Records : r = call[c].rec
    BY <1>1
  <2>2. ChangeAndEmit(current', r, [session[r] EXCEPT !.status = x])
    BY <2>1
  <2>3. current' \in Records \cup {NoRecord}
    BY DEF TypeOK
  <2>4. QED
    BY <1>1, <2>1, <2>2, <2>3, EmitStatus DEF Status
<1>3. ~Changes(call'[c]) /\ \A d \in Calls \ {c} : call'[d] = call[d]
  BY <1>1, ReturnFrame
<1>4. ASSUME ~overlapped' PROVE OneChange'
  <2>1. Between(c) /\ \A d \in Calls \ {c} : ~Changes(call[d])
    BY <1>1, <1>4, CallChanging DEF SerialInv
  <2>2. \A q \in Records : session'[q].closing = 0
    BY <1>2, <2>1 DEF Becomes, Kept, Between
  <2>3. /\ session[current].client = NoClient /\ LiveClients' = {}
        /\ call[c].rec = current
    BY <1>1, <2>1 DEF Between, Parted, LiveClients
  <2>4. Exact'
    BY <1>2, <2>3 DEF Exact, Becomes
  <2>5. QED
    BY <1>3, <2>1, <2>2, <2>4, NothingChangingNext
<1>5. /\ \A q \in Records \ used' : Kept(q)
      /\ \A d \in Calls : call'[d] = call[d] \/ call'[d].at = "idle"
  BY <1>1, <1>2, ReturnFrame DEF Becomes
<1>6. used \subseteq used' /\ current' \in used' \cup {NoRecord}
  BY DEF SerialInv
<1>7. QED
  BY <1>4, <1>5, <1>6, SerialFrame

\* An event of a live client is an event of the session's client.
LEMMA ClientEventSerial ==
  ASSUME SerialInv, TypeOK', NEW k \in Clients, clientState[k] \in {"up", "down"},
         clientState'[k] \in {"up", "down"},
         \A j \in Clients \ {k} : clientState'[j] = clientState[j],
         NEW x \in Status, x = "connected" <=> clientState'[k] = "up",
         ReportStatus(k, x), UNCHANGED <<current, used, call, overlapped>>
  PROVE  SerialInv'
<1>1. TypeOK /\ k \in LiveClients /\ k # NoClient
  BY ConstantsAssumption DEF SerialInv, LiveClients
<1>2. LiveClients' = LiveClients
  BY <1>1, LiveAfterEvent
<1>3. /\ ~Serves(k) => ConnectionsKept
      /\ Serves(k) => /\ current \in Records
                      /\ Becomes(current, session[current].client, x)
  <2>1. CASE ~Serves(k)
    BY <2>1 DEF ReportStatus, ConnectionsKept, Kept
  <2>2. CASE Serves(k)
    <3>1. current \in Records
      BY <1>1, <2>2 DEF TypeOK, Serves
    <3>2. ChangeAndEmit(current, current, [session[current] EXCEPT !.status = x])
      BY <2>2 DEF ReportStatus
    <3>3. QED
      BY <1>1, <2>2, <3>1, <3>2, EmitStatus
  <2>3. QED
    BY <2>1, <2>2
<1>4. \A q \in Records : /\ session'[q].client = session[q].client
                         /\ session'[q].closing = session[q].closing
                         /\ q # current => Kept(q)
  BY <1>3 DEF ConnectionsKept, Becomes, Kept
<1>5. ASSUME ~overlapped' PROVE OneChange'
  <2>1. OneChange
    BY <1>5 DEF SerialInv
  <2>2. \A r \in Records : ~(session[r].closing > 0)
    BY <1>1, <2>1 DEF OneChange, Parted
  <2>3. ASSUME NEW c \in Calls, Changes(call[c]) PROVE OneChange'
    <3>1. Between(c) /\ \A d \in Calls \ {c} : ~Changes(call[d])
      BY <2>1, <2>3, CallChanging
    <3>2. call[c].rec \in Records /\ call[c].rec = current
      BY <1>1, <2>3, <3>1, CallFields DEF Changes, Between
    <3>3. Between(c)'
      BY <1>2, <1>4, <3>1, <3>2 DEF Between, Parted
    <3>4. QED
      BY <2>3, <3>1, <3>3, CallChangingNext
  <2>4. CASE \A c \in Calls : ~Changes(call[c])
    <3>1. Exact /\ \A q \in Records : session[q].closing = 0
      BY <1>1, <2>1, <2>2, <2>4, ChangingCalls, NothingChanging
    <3>2. Serves(k)
      BY <1>1, <3>1 DEF Exact, Serves
    <3>3. /\ session'[current].status = x /\ session'[current].client = k
          /\ current' = current /\ current # NoRecord /\ LiveClients = {k}
      BY <1>1, <1>3, <3>1, <3>2 DEF Becomes, Serves, Exact
    <3>4. Exact'
      BY <1>1, <1>2, <3>3 DEF Exact
    <3>5. QED
      BY <1>4, <2>4, <3>1, <3>4, NothingChangingNext
  <2>5. QED
    BY <2>3, <2>4
<1>6. \A q \in Records \ used' : Kept(q)
  <2>1. \A q \in Records \ used' : ~(q = current /\ Serves(k))
    BY DEF SerialInv, Serves
  <2>2. QED
    BY <1>3, <1>4, <2>1 DEF ConnectionsKept
<1>7. used \subseteq used' /\ current' \in used' \cup {NoRecord}
  BY DEF SerialInv
<1>8. QED
  BY <1>5, <1>6, <1>7, SerialFrame

LEMMA ClientEventsSerial ==
  ASSUME SerialInv, TypeOK', NEW k \in Clients,
         ClientDrops(k) \/ ClientRetries(k) \/ ClientReconnects(k)
  PROVE  SerialInv'
<1>1. clientState \in [Clients -> {"unused", "connecting", "up", "down", "ended"}]
  BY DEF SerialInv, TypeOK
<1>2. CASE ClientDrops(k)
  <2>1. /\ clientState'[k] = "down" /\ clientState[k] \in {"up", "down"}
        /\ \A j \in Clients \ {k} : clientState'[j] = clientState[j]
    BY <1>1, <1>2 DEF ClientDrops
  <2>2. ReportStatus(k, "error") /\ UNCHANGED <<current, used, call, overlapped>>
    BY <1>2 DEF ClientDrops
  <2>3. QED
    BY <2>1, <2>2, ClientEventSerial DEF Status
<1>3. CASE ClientRetries(k)
  <2>1. /\ clientState[k] = "down" /\ UNCHANGED clientState
        /\ ReportStatus(k, "connecting") /\ UNCHANGED <<current, used, call, overlapped>>
    BY <1>3 DEF ClientRetries
  <2>2. QED
    BY <2>1, ClientEventSerial DEF Status
<1>4. CASE ClientReconnects(k)
  <2>1. /\ clientState'[k] = "up" /\ clientState[k] = "down"
        /\ \A j \in Clients \ {k} : clientState'[j] = clientState[j]
    BY <1>1, <1>4 DEF ClientReconnects
  <2>2. ReportStatus(k, "connected") /\ UNCHANGED <<current, used, call, overlapped>>
    BY <1>4 DEF ClientReconnects
  <2>3. QED
    BY <2>1, <2>2, ClientEventSerial DEF Status
<1>5. QED
  BY <1>2, <1>3, <1>4

-----------------------------------------------------------------------------
(* The other steps leave the connection alone. *)

LEMMA RecordStepsCalm ==
  ASSUME SerialInv, NEW r \in Records,
         \/ EmitTimerFires(r) \/ ReadOnlyCall(r) \/ ClearMessages(r)
         \/ \E w \in Watchers : Watch(w, r)
         \/ \E n \in Limits \cup {NoLimit} : SetTrackedTopicsLimit(r, n)
  PROVE  Calm
<1>1. TypeOK
  BY DEF SerialInv
<1>2. UNCHANGED <<clientState, call, overlapped>>
  BY Zenon DEF EmitTimerFires, ReadOnlyCall, ClearMessages, Watch, SetTrackedTopicsLimit
<1>3. Allocates
  <2>1. CASE GetOrCreateSession(r)
    BY <2>1, Allocation
  <2>2. CASE UNCHANGED <<current, used>>
    BY <2>2 DEF Allocates
  <2>3. QED
    BY <2>1, <2>2, Zenon
    DEF EmitTimerFires, ReadOnlyCall, ClearMessages, Watch, SetTrackedTopicsLimit
<1>4. ConnectionsKept
  <2>1. CASE EmitTimerFires(r)
    <3>1. session' = [session EXCEPT ![r].emitTimer = FALSE]
      BY <2>1, Zenon DEF EmitTimerFires
    <3>2. QED
      BY <1>1, <3>1 DEF TypeOK, SessionRecord, ConnectionsKept, Kept
  <2>2. CASE ReadOnlyCall(r)
    BY <2>2 DEF ReadOnlyCall, ConnectionsKept, Kept
  <2>3. CASE ClearMessages(r)
    BY <1>1, <2>3, ClearMessagesKeeps
  <2>4. ASSUME NEW w \in Watchers, Watch(w, r) PROVE ConnectionsKept
    BY <1>1, <2>4, WatchKeeps
  <2>5. ASSUME NEW n \in Limits \cup {NoLimit}, SetTrackedTopicsLimit(r, n)
        PROVE  ConnectionsKept
    BY <1>1, <2>5, SetTrackedTopicsLimitKeeps
  <2>6. QED
    BY <2>1, <2>2, <2>3, <2>4, <2>5
<1>5. QED
  BY <1>2, <1>3, <1>4 DEF Calm, ConnectionsKept

\* A call that is sent to the broker, or returns from it, changes no connection.
LEMMA RequestStepsCalm ==
  ASSUME SerialInv, NEW c \in Calls,
         \/ \E r \in Records, f \in Filters : Subscribe(c, r, f) \/ Unsubscribe(c, r, f)
         \/ SubscribeAcked(c) \/ UnsubscribeAcked(c) \/ RequestFails(c)
  PROVE  Calm
<1>1. TypeOK /\ current \in Records \cup {NoRecord}
  BY DEF SerialInv, TypeOK
<1>2. ASSUME NEW r \in Records, NEW f \in Filters, Subscribe(c, r, f) \/ Unsubscribe(c, r, f)
      PROVE  Calm
  <2>1. /\ GetOrCreateSession(r) /\ UNCHANGED <<clientState, overlapped>>
    BY <1>2, Zenon DEF Subscribe, Unsubscribe
  <2>2. Allocates /\ r \in used' /\ current' \in Records \cup {NoRecord}
    BY <2>1, Allocation
  <2>3. ConnectionsKept
    <3>1. CASE UNCHANGED session
      BY <3>1 DEF ConnectionsKept, Kept
    <3>2. CASE ChangeAndEmit(current', r, [session[r] EXCEPT !.subs[f] = NotSubscribed])
      BY <1>1, <2>2, <3>2, EmitSubs
    <3>3. QED
      BY <1>2, <3>1, <3>2, Zenon DEF Subscribe, Unsubscribe
  <2>4. \A d \in Calls :
           \/ call'[d] = call[d]
           \/ ~Changes(call[d]) /\ ~Changes(call'[d]) /\ call'[d].rec \in used'
    <3>1. CASE UNCHANGED call
      BY <3>1
    <3>2. ASSUME NEW at \in {"subscribing", "unsubscribing"}, call[c].at = "idle",
                 Await(c, at, r, session[r].client, f)
          PROVE  \A d \in Calls :
                    \/ call'[d] = call[d]
                    \/ ~Changes(call[d]) /\ ~Changes(call'[d]) /\ call'[d].rec \in used'
      <4>1. /\ call'[c].at = at /\ call'[c].rec = r
            /\ \A d \in Calls \ {c} : call'[d] = call[d]
        BY <1>1, <3>2, AwaitFrame
      <4>2. ~Changes(call[c]) /\ ~Changes(call'[c])
        BY <3>2, <4>1 DEF Changes
      <4>3. QED
        BY <2>2, <4>1, <4>2
    <3>3. QED
      BY <1>2, <3>1, <3>2, Zenon DEF Subscribe, Unsubscribe
  <2>5. QED
    BY <2>1, <2>2, <2>3, <2>4 DEF Calm, ConnectionsKept
<1>3. CASE SubscribeAcked(c) \/ UnsubscribeAcked(c) \/ RequestFails(c)
  <2>1. /\ UNCHANGED <<current, used, clientState, overlapped>> /\ Return(c)
        /\ call[c].at \in {"subscribing", "unsubscribing"}
    BY <1>3 DEF SubscribeAcked, UnsubscribeAcked, RequestFails
  <2>2. PICK r \in Records, f \in Filters : r = call[c].rec /\ f = call[c].filter
    BY <1>1, <2>1, CallFields
  <2>3. ConnectionsKept
    <3>1. CASE UNCHANGED session
      BY <3>1 DEF ConnectionsKept, Kept
    <3>2. ASSUME NEW n \in {0, NotSubscribed},
                 ChangeAndEmit(current', r, [session[r] EXCEPT !.subs[f] = n])
          PROVE  ConnectionsKept
      BY <1>1, <2>1, <3>2, EmitSubs
    <3>3. QED
      BY <1>3, <2>2, <3>1, <3>2, Zenon DEF SubscribeAcked, UnsubscribeAcked, RequestFails
  <2>4. \A d \in Calls :
           \/ call'[d] = call[d]
           \/ ~Changes(call[d]) /\ ~Changes(call'[d]) /\ call'[d].at = "idle"
    <3>1. ~Changes(call[c])
      BY <2>1 DEF Changes
    <3>2. QED
      BY <1>1, <2>1, <3>1, ReturnFrame
  <2>5. QED
    BY <2>1, <2>3, <2>4 DEF Calm, ConnectionsKept, Allocates
<1>4. QED
  BY <1>2, <1>3

LEMMA StreamStepsCalm ==
  ASSUME SerialInv,
         \/ \E w \in Watchers : CloseStream(w) \/ CancelStream(w)
         \/ \E k \in Clients, t \in Topics : Message(k, t)
         \/ UNCHANGED vars
  PROVE  Calm
<1>1. UNCHANGED <<current, used, clientState, call, overlapped>>
  BY Zenon DEF CloseStream, CancelStream, Cleanup, Message, vars
<1>2. ConnectionsKept
  <2>1. CASE UNCHANGED vars
    BY <2>1 DEF vars, ConnectionsKept, Kept
  <2>2. QED
    BY <2>1, CleanupKeeps, MessageKeeps DEF SerialInv, CloseStream, CancelStream
<1>3. QED
  BY <1>1, <1>2 DEF Calm, ConnectionsKept, Allocates

LEMMA SerialStep == SerialInv /\ [Next]_vars => SerialInv'
<1> SUFFICES ASSUME SerialInv, [Next]_vars PROVE SerialInv'
  OBVIOUS
<1>1. TypeOK'
  BY TypeStep DEF SerialInv
<1>2. ASSUME NEW r \in Records,
             \/ EmitTimerFires(r) \/ CloseTimerFires(r) \/ TeardownEnds(r)
             \/ ReadOnlyCall(r) \/ ClearMessages(r)
             \/ \E w \in Watchers : Watch(w, r)
             \/ \E n \in Limits \cup {NoLimit} : SetTrackedTopicsLimit(r, n)
             \/ \E c \in Calls : Connect(c, r) \/ Disconnect(c, r)
             \/ \E c \in Calls, f \in Filters : Subscribe(c, r, f) \/ Unsubscribe(c, r, f)
      PROVE  SerialInv'
  <2>1. CASE \/ EmitTimerFires(r) \/ ReadOnlyCall(r) \/ ClearMessages(r)
             \/ \E w \in Watchers : Watch(w, r)
             \/ \E n \in Limits \cup {NoLimit} : SetTrackedTopicsLimit(r, n)
    BY <1>1, <2>1, RecordStepsCalm, CalmKeepsSerialInv
  <2>2. CASE CloseTimerFires(r)
    BY <1>1, <2>2, CloseTimerFiresSerial
  <2>3. CASE TeardownEnds(r)
    BY <1>1, <2>3, TeardownEndsSerial
  <2>4. ASSUME NEW c \in Calls, Connect(c, r) \/ Disconnect(c, r) PROVE SerialInv'
    BY <1>1, <2>4, ConnectSerial, DisconnectSerial
  <2>5. ASSUME NEW c \in Calls, NEW f \in Filters, Subscribe(c, r, f) \/ Unsubscribe(c, r, f)
        PROVE  SerialInv'
    BY <1>1, <2>5, RequestStepsCalm, CalmKeepsSerialInv
  <2>6. QED
    BY <1>2, <2>1, <2>2, <2>3, <2>4, <2>5
<1>3. ASSUME NEW c \in Calls,
             \/ ConnectResumes(c) \/ ConnectSucceeds(c) \/ ResubscribeEnds(c)
             \/ ConnectFails(c) \/ ConnectFailed(c) \/ DisconnectEnds(c)
             \/ SubscribeAcked(c) \/ UnsubscribeAcked(c) \/ RequestFails(c)
      PROVE  SerialInv'
  <2>1. CASE ConnectResumes(c)
    BY <1>1, <2>1, ConnectResumesSerial
  <2>2. CASE ConnectSucceeds(c)
    BY <1>1, <2>2, ConnectSucceedsSerial
  <2>3. CASE ResubscribeEnds(c)
    BY <1>1, <2>3, ResubscribeEndsSerial
  <2>4. CASE ConnectFails(c)
    BY <1>1, <2>4, ConnectFailsSerial
  <2>5. CASE ConnectFailed(c)
    BY <1>1, <2>5, PartedCallSerial DEF ConnectFailed
  <2>6. CASE DisconnectEnds(c)
    BY <1>1, <2>6, PartedCallSerial DEF DisconnectEnds
  <2>7. CASE SubscribeAcked(c) \/ UnsubscribeAcked(c) \/ RequestFails(c)
    BY <1>1, <2>7, RequestStepsCalm, CalmKeepsSerialInv
  <2>8. QED
    BY <1>3, <2>1, <2>2, <2>3, <2>4, <2>5, <2>6, <2>7
<1>4. ASSUME NEW k \in Clients, ClientDrops(k) \/ ClientRetries(k) \/ ClientReconnects(k)
      PROVE  SerialInv'
  BY <1>1, <1>4, ClientEventsSerial
<1>5. CASE \/ \E w \in Watchers : CloseStream(w) \/ CancelStream(w)
           \/ \E k \in Clients, t \in Topics : Message(k, t)
           \/ UNCHANGED vars
  BY <1>1, <1>5, StreamStepsCalm, CalmKeepsSerialInv
<1>6. QED
  BY <1>2, <1>3, <1>4, <1>5 DEF Next

\* A client is created for a record whose last one has been ended, and every event
\* checks that its client is the session's: as long as connects, disconnects and
\* grace-period teardowns do not overlap, whatever else interleaves with them, a session
\* at rest has exactly its own connection, and says connected exactly when it is.
THEOREM SerialChangesExact == Spec => []SerialChangesAreExact
<1>1. Init => SerialInv
  <2>1. Init => TypeOK
    BY NewSessionType, IdleType DEF Init, TypeOK
  <2>2. SUFFICES ASSUME Init PROVE SerialInv
    OBVIOUS
  <2>3. /\ current = NoRecord /\ \A c \in Calls : call[c].at = "idle"
        /\ \A r \in Records : /\ session[r].client = NoClient /\ session[r].closing = 0
                              /\ session[r].status # "connected"
    BY <2>2 DEF Init, NewSession, Idle
  <2>4. LiveClients = {}
    BY <2>2 DEF Init, LiveClients
  <2>5. OneChange
    BY <2>3, <2>4 DEF OneChange, Exact, Changes
  <2>6. QED
    BY <2>1, <2>2, <2>3, <2>5 DEF SerialInv
<1>2. SerialInv => SerialChangesAreExact
  BY DEF SerialInv, OneChange, Exact, SerialChangesAreExact
<1>3. QED
  BY <1>1, <1>2, SerialStep, PTL DEF Spec
=============================================================================
