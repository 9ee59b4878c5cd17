---------------------------- MODULE McpMqttBuffer ----------------------------
(***************************************************************************)
(* The message buffer of one MCP protocol session (MqttMessageBuffer in    *)
(* mcp/src/mqttBuffer.js), with the tool calls, the maintenance timer and  *)
(* the closeSession of mcp/src/index.js that drive it.                     *)
(*                                                                         *)
(* One callback runs at a time: an action is the code between two awaits.  *)
(* Everything that awaits can overlap: tool calls, the loop of consumeSse  *)
(* (of which several invocations can be alive), and one cleanup, which     *)
(* later callers of cleanup join.                                          *)
(***************************************************************************)
EXTENDS Integers, Sequences

CONSTANTS
    Consumers,   \* slots for invocations of consumeSse that are alive
    Calls,       \* slots for tool calls in flight
    Sizes,       \* payload sizes of messages
    MaxMessages, \* config.mqttBuffer.maxMessages
    MaxBytes,    \* config.mqttBuffer.maxBytes
    MaxPoll,     \* config.mqttBuffer.maxPoll
    MaxArrivals, \* bound on the messages that arrive between two resets
    NoConsumer

ASSUME BufferAssumption ==
    /\ NoConsumer \notin Consumers
    /\ Sizes \subseteq Nat
    /\ MaxMessages \in Nat \ {0}
    /\ MaxBytes \in Nat \ {0}
    /\ MaxPoll \in Nat \ {0}
    /\ MaxArrivals \in Nat

VARIABLES
    queue,         \* the buffered messages, oldest first
    queuedBytes,
    dropped,       \* droppedMessages and droppedBytes
    deadline,      \* expiresAt: null, in the future, or in the past
    desiredSse,    \* (what poll and status only report is left out)
    sseAbort,      \* whose AbortController this.sseAbort is, or NoConsumer
    closed,
    cleanup,       \* cleanupInFlight: none, where it awaits, or done but not null
    closeBuffer,   \* the closeBuffer argument of the cleanup in flight
    consumer,      \* where every invocation of consumeSse awaits
    aborted,       \* the invocations whose controller has been aborted
    call,          \* the tool calls in flight
    session,       \* the MCP session: open, in closeSession, or closed
    enabled,       \* external: mqttctl accepts the MCP principal
    arrived,       \* history: messages and bytes appended since the last reset
    delivered      \* history: messages and bytes polled since the last reset

buffer == <<queue, queuedBytes, dropped, arrived, delivered>>
sse == <<desiredSse, sseAbort, consumer, aborted>>
ending == <<closed, cleanup, closeBuffer>>
vars == <<buffer, deadline, sse, ending, call, session, enabled>>

-----------------------------------------------------------------------------
(* Types *)

Tally == [messages : Nat, bytes : Nat]
Zero == [messages |-> 0, bytes |-> 0]

\* A message is the number it arrived under and its size.
Entry == [nr : Nat, size : Sizes]

\* A call: its tool, whether its request is unanswered, answered, or the call
\* awaits a cleanup; the answer, whether subscriptions are left according to it,
\* and (history) whether the principal was enabled at some time during the call.
Ops == {"connect", "subscribe", "unsubscribe", "poll", "clear", "disconnect"}
CallRecord == [op : Ops \cup {"none"}, at : {"idle", "sent", "answered", "cleaning"},
               ok : BOOLEAN, left : BOOLEAN, entitled : BOOLEAN]
Idle == [op |-> "none", at |-> "idle", ok |-> FALSE, left |-> FALSE, entitled |-> FALSE]

TypeOK ==
    /\ queue \in Seq(Entry)
    /\ queuedBytes \in Nat
    /\ dropped \in Tally
    /\ deadline \in {"none", "future", "past"}
    /\ desiredSse \in BOOLEAN
    /\ sseAbort \in Consumers \cup {NoConsumer}
    /\ closed \in BOOLEAN
    /\ cleanup \in {"none", "sent", "answered", "settling"}
    /\ closeBuffer \in BOOLEAN
    /\ consumer \in [Consumers -> {"idle", "opening", "reading", "waiting", "cleaning"}]
    /\ aborted \subseteq Consumers
    /\ call \in [Calls -> CallRecord]
    /\ session \in {"open", "closing", "closed"}
    /\ enabled \in BOOLEAN
    /\ arrived \in Tally
    /\ delivered \in Tally

Init ==
    /\ queue = <<>>
    /\ queuedBytes = 0
    /\ dropped = Zero
    /\ deadline = "none"
    /\ desiredSse = FALSE
    /\ sseAbort = NoConsumer
    /\ closed = FALSE
    /\ cleanup = "none"
    /\ closeBuffer = FALSE
    /\ consumer = [c \in Consumers |-> "idle"]
    /\ aborted = {}
    /\ call = [k \in Calls |-> Idle]
    /\ session = "open"
    /\ enabled = TRUE
    /\ arrived = Zero
    /\ delivered = Zero

-----------------------------------------------------------------------------
(* Helpers the operations share *)

Bytes(q) ==
    LET sum[n \in 0..Len(q)] == IF n = 0 THEN 0 ELSE sum[n - 1] + q[n].size
    IN  sum[Len(q)]

Fits(q) == Len(q) <= MaxMessages /\ Bytes(q) <= MaxBytes

\* What is left of q when its oldest n messages are taken.
Without(q, n) == SubSeq(q, n + 1, Len(q))

Plus(tally, n, b) == [messages |-> tally.messages + n, bytes |-> tally.bytes + b]

\* append drops the n oldest messages of q: it shifts them out one by one while
\* the rest does not fit, at most until nothing is left.
DropsOldest(q, n) ==
    /\ n = Len(q) \/ Fits(Without(q, n))
    /\ \A m \in 0..(n - 1) : ~Fits(Without(q, m))

\* Mutants: the losses, or their bytes, are not counted; the newest are dropped.
DropUncounted(q, size, n) ==
    /\ queue' = Without(q, n)
    /\ queuedBytes' = queuedBytes + size - Bytes(SubSeq(q, 1, n))
    /\ UNCHANGED dropped

DropForgetsBytes(q, size, n) ==
    /\ queue' = Without(q, n)
    /\ queuedBytes' = queuedBytes + size
    /\ dropped' = Plus(dropped, n, 0)

DropNewest(q, size, n) ==
    LET bytes == Bytes(Without(q, Len(q) - n)) IN
    /\ queue' = SubSeq(q, 1, Len(q) - n)
    /\ queuedBytes' = queuedBytes + size - bytes
    /\ dropped' = Plus(dropped, n, bytes)

\* q, the queue with a message of the given size at its end, loses its oldest n.
Drop(q, size, n) ==
    LET bytes == Bytes(SubSeq(q, 1, n)) IN
    /\ queue' = Without(q, n)
    /\ queuedBytes' = queuedBytes + size - bytes
    /\ dropped' = Plus(dropped, n, bytes)

AppendMessage(size) ==
    LET q == Append(queue, [nr |-> arrived.messages + 1, size |-> size]) IN
    /\ ~closed
    /\ \E n \in 0..Len(q) : DropsOldest(q, n) /\ Drop(q, size, n)
    /\ arrived' = Plus(arrived, 1, size)
    /\ UNCHANGED delivered

\* Mutant: the counters are reset, the queue is not.
ResetKeepsQueue ==
    /\ queue' = queue
    /\ queuedBytes' = 0
    /\ dropped' = Zero
    /\ arrived' = Zero
    /\ delivered' = Zero

\* What clear and cleanup reset.
Reset ==
    /\ queue' = <<>>
    /\ queuedBytes' = 0
    /\ dropped' = Zero
    /\ arrived' = Zero
    /\ delivered' = Zero

StartActivityDeadline == deadline' = IF deadline = "none" THEN "future" ELSE deadline

EnsureSse ==
    IF closed \/ desiredSse
    THEN UNCHANGED sse
    ELSE \E c \in Consumers :
            /\ consumer[c] = "idle"
            /\ desiredSse' = TRUE
            /\ consumer' = [consumer EXCEPT ![c] = "opening"]
            /\ aborted' = aborted \ {c}
            /\ sseAbort' = c

\* Aborts the controller this.sseAbort holds, whichever invocation's that is.
StopSse ==
    /\ desiredSse' = FALSE
    /\ aborted' = IF sseAbort = NoConsumer THEN aborted ELSE aborted \cup {sseAbort}
    /\ sseAbort' = NoConsumer

\* The cleanup itself, when none is in flight: all of it, or up to its request.
CleanupBegins(upstream, closes) ==
    /\ StopSse
    /\ IF upstream
       THEN /\ cleanup' = "sent"
            /\ closeBuffer' = closes
            /\ UNCHANGED <<buffer, deadline, closed>>
       ELSE /\ cleanup' = "settling"
            /\ closeBuffer' = closes
            /\ Reset
            /\ deadline' = "none"
            /\ closed' = (closed \/ closes)

\* cleanup: its arguments count only if no other is in flight.
Cleanup(upstream, closes) ==
    IF cleanup = "none"
    THEN CleanupBegins(upstream, closes)
    ELSE UNCHANGED <<buffer, deadline, desiredSse, aborted, sseAbort, ending>>

-----------------------------------------------------------------------------
(* The event stream *)

\* mqttctl grants the stream; the answer may still pass an abort on its way.
StreamOpens(c) ==
    /\ consumer[c] = "opening"
    /\ enabled
    /\ consumer' = [consumer EXCEPT ![c] = "reading"]
    /\ UNCHANGED <<buffer, deadline, desiredSse, sseAbort, aborted, ending, call,
                   session, enabled>>

\* The finally of consumeSse, then the end of the loop's body.  It forgets
\* whichever controller this.sseAbort holds, even of another invocation.
StreamDone(c) ==
    /\ consumer' = [consumer EXCEPT ![c] =
                        IF desiredSse /\ ~closed THEN "waiting" ELSE "idle"]
    /\ sseAbort' = NoConsumer
    /\ UNCHANGED <<desiredSse, aborted>>

\* The request fails, the stream breaks or is closed by mqttctl, or the abort
\* of its controller arrives.
StreamFails(c) ==
    /\ consumer[c] \in {"opening", "reading"}
    /\ StreamDone(c)
    /\ UNCHANGED <<buffer, deadline, ending, call, session, enabled>>

\* A chunk without messages: the loop looks at desiredSse and closed.
StreamPings(c) ==
    /\ consumer[c] = "reading"
    /\ ~desiredSse \/ closed
    /\ StreamDone(c)
    /\ UNCHANGED <<buffer, deadline, ending, call, session, enabled>>

\* A chunk with a message.
Message(c, size) ==
    /\ arrived.messages < MaxArrivals
    /\ consumer[c] = "reading"
    /\ c \notin aborted
    /\ desiredSse
    /\ AppendMessage(size)
    /\ UNCHANGED <<deadline, sse, ending, call, session, enabled>>

\* Mutant: a denial is retried like any failure.
StreamDeniedRetries(c) ==
    /\ consumer[c] = "opening"
    /\ c \notin aborted
    /\ ~enabled
    /\ StreamDone(c)
    /\ UNCHANGED <<buffer, deadline, ending, call, session, enabled>>

\* mqttctl answers 401 or 403: the buffer is cleaned up, and the invocation
\* awaits that.
StreamDenied(c) ==
    /\ consumer[c] = "opening"
    /\ c \notin aborted
    /\ ~enabled
    /\ desiredSse /\ ~closed
    /\ Cleanup(FALSE, FALSE)
    /\ consumer' = [consumer EXCEPT ![c] = "cleaning"]
    /\ UNCHANGED <<call, session, enabled>>

\* The backoff ends; nothing cuts it short.
BackoffEnds(c) ==
    /\ consumer[c] = "waiting"
    /\ IF desiredSse /\ ~closed
       THEN /\ consumer' = [consumer EXCEPT ![c] = "opening"]
            /\ aborted' = aborted \ {c}
            /\ sseAbort' = c
       ELSE /\ consumer' = [consumer EXCEPT ![c] = "idle"]
            /\ UNCHANGED <<aborted, sseAbort>>
    /\ UNCHANGED <<buffer, deadline, desiredSse, ending, call,
                   session, enabled>>

-----------------------------------------------------------------------------
(* Tool calls *)

\* The call sends its request.
CallBegins(k, op) ==
    /\ session = "open"
    /\ call[k] = Idle
    /\ call' = [call EXCEPT ![k] = [op |-> op, at |-> "sent", ok |-> FALSE,
                                    left |-> FALSE, entitled |-> (op = "poll" /\ enabled)]]
    /\ UNCHANGED <<buffer, deadline, sse, ending, session, enabled>>

\* External: mqttctl answers, with success only while the principal is enabled.
CallAnswered(k, ok, left) ==
    /\ call[k].at = "sent"
    /\ ok => enabled
    /\ left => ok /\ call[k].op = "unsubscribe"
    /\ call' = [call EXCEPT ![k].at = "answered", ![k].ok = ok, ![k].left = left]
    /\ UNCHANGED <<buffer, deadline, sse, ending, session, enabled>>

Succeeds(k, op) == call[k].at = "answered" /\ call[k].op = op /\ call[k].ok

Return(k) == call' = [call EXCEPT ![k] = Idle]

ConnectReturns(k) ==
    /\ Succeeds(k, "connect")
    /\ StartActivityDeadline
    /\ Return(k)
    /\ UNCHANGED <<buffer, sse, ending, session, enabled>>

SubscribeReturns(k) ==
    /\ Succeeds(k, "subscribe")
    /\ StartActivityDeadline
    /\ EnsureSse
    /\ Return(k)
    /\ UNCHANGED <<buffer, ending, session, enabled>>

UnsubscribeReturns(k) ==
    /\ Succeeds(k, "unsubscribe")
    /\ IF call[k].left THEN UNCHANGED sse ELSE StopSse /\ UNCHANGED consumer
    /\ Return(k)
    /\ UNCHANGED <<buffer, deadline, ending, session, enabled>>

\* Mutant: poll takes the messages before mqttctl has answered.
PollTakesFirst(k, n) ==
    /\ call[k].op = "poll"
    /\ LET count == IF n <= Len(queue) THEN n ELSE Len(queue)
           bytes == Bytes(SubSeq(queue, 1, count))
       IN  /\ queue' = Without(queue, count)
           /\ queuedBytes' = queuedBytes - bytes
           /\ delivered' = Plus(delivered, count, bytes)
    /\ deadline' = "future"
    /\ Return(k)
    /\ UNCHANGED <<dropped, arrived, sse, ending, session, enabled>>

\* The agent asked for n messages.
PollReturns(k, n) ==
    /\ Succeeds(k, "poll")
    /\ LET count == IF n <= Len(queue) THEN n ELSE Len(queue)
           bytes == Bytes(SubSeq(queue, 1, count))
       IN  /\ queue' = Without(queue, count)
           /\ queuedBytes' = queuedBytes - bytes
           /\ delivered' = Plus(delivered, count, bytes)
    /\ deadline' = "future"
    /\ Return(k)
    /\ UNCHANGED <<dropped, arrived, sse, ending, session, enabled>>

ClearReturns(k) ==
    /\ Succeeds(k, "clear")
    /\ Reset
    /\ Return(k)
    /\ UNCHANGED <<deadline, sse, ending, session, enabled>>

\* disconnect cleans up whatever mqttctl answers.
DisconnectReturns(k) ==
    /\ call[k].at = "answered" /\ call[k].op = "disconnect"
    /\ Cleanup(FALSE, FALSE)
    /\ call' = [call EXCEPT ![k].at = "cleaning"]
    /\ UNCHANGED <<consumer, session, enabled>>

CallFails(k) ==
    /\ call[k].at = "answered" /\ call[k].op # "disconnect"
    /\ ~call[k].ok
    /\ Return(k)
    /\ UNCHANGED <<buffer, deadline, sse, ending, session, enabled>>

-----------------------------------------------------------------------------
(* Expiry, close, and the cleanup they and others share *)

\* No poll for config.mqttBuffer.inactivityMs.
DeadlinePasses ==
    /\ deadline = "future"
    /\ deadline' = "past"
    /\ UNCHANGED <<buffer, sse, ending, call, session, enabled>>

\* The maintenance timer; cleared when the buffer closes.
ExpireIfIdle ==
    /\ ~closed
    /\ deadline = "past"
    /\ cleanup = "none"
    /\ Cleanup(TRUE, FALSE)
    /\ UNCHANGED <<consumer, call, session, enabled>>

\* closeSession: on DELETE, by the session maintenance or at shutdown; once.
Close ==
    /\ session = "open"
    /\ session' = "closing"
    /\ Cleanup(TRUE, TRUE)
    /\ UNCHANGED <<consumer, call, enabled>>

\* External: mqttctl answers the disconnect of a cleanup, or fails to.
CleanupAnswered ==
    /\ cleanup = "sent"
    /\ cleanup' = "answered"
    /\ UNCHANGED <<buffer, deadline, sse, closed, closeBuffer, call, session, enabled>>

CleanupResumes ==
    /\ cleanup = "answered"
    /\ cleanup' = "settling"
    /\ Reset
    /\ deadline' = "none"
    /\ closed' = (closed \/ closeBuffer)
    /\ UNCHANGED <<closeBuffer, sse, call, session, enabled>>

\* cleanupInFlight settles; all who await it resume.
CleanupSettles ==
    LET denied == {c \in Consumers : consumer[c] = "cleaning"} IN
    /\ cleanup = "settling"
    /\ cleanup' = "none"
    /\ closeBuffer' = FALSE
    /\ call' = [k \in Calls |-> IF call[k].at = "cleaning" THEN Idle ELSE call[k]]
    /\ consumer' = [c \in Consumers |-> IF c \in denied THEN "idle" ELSE consumer[c]]
    /\ sseAbort' = IF denied = {} THEN sseAbort ELSE NoConsumer
    /\ session' = IF session = "closing" THEN "closed" ELSE session
    /\ UNCHANGED <<buffer, deadline, desiredSse, aborted, closed, enabled>>

-----------------------------------------------------------------------------
(* The MCP principal, in mqttctl *)

Disable ==
    /\ enabled
    /\ enabled' = FALSE
    /\ UNCHANGED <<buffer, deadline, sse, ending, call, session>>

Enable ==
    /\ ~enabled
    /\ enabled' = TRUE
    /\ call' = [k \in Calls |-> [call[k] EXCEPT !.entitled = (call[k].op = "poll")]]
    /\ UNCHANGED <<buffer, deadline, sse, ending, session>>

-----------------------------------------------------------------------------

Next ==
    \/ \E c \in Consumers :
          \/ StreamOpens(c) \/ StreamFails(c) \/ StreamPings(c) \/ StreamDenied(c)
          \/ BackoffEnds(c)
          \/ \E size \in Sizes : Message(c, size)
    \/ \E k \in Calls :
          \/ \E op \in Ops : CallBegins(k, op)
          \/ \E ok \in BOOLEAN, left \in BOOLEAN : CallAnswered(k, ok, left)
          \/ ConnectReturns(k) \/ SubscribeReturns(k) \/ UnsubscribeReturns(k)
          \/ \E n \in 1..MaxPoll : PollReturns(k, n)
          \/ ClearReturns(k) \/ DisconnectReturns(k) \/ CallFails(k)
    \/ DeadlinePasses \/ ExpireIfIdle \/ Close
    \/ CleanupAnswered \/ CleanupResumes \/ CleanupSettles
    \/ Disable \/ Enable

Spec == Init /\ [][Next]_vars

\* Requests and the backoff of a stream come to an end; an aborted request
\* rejects; every chunk, pings included, wakes the loop; mqttctl closes the
\* stream of a disabled principal at the next ping, and answers it sooner or
\* later when it asks again and again; a cleanup runs on.
Fairness ==
    /\ \A c \in Consumers :
          /\ WF_vars(StreamOpens(c) \/ StreamDenied(c)
                     \/ (consumer[c] = "opening" /\ StreamFails(c)))
          /\ WF_vars(c \in aborted /\ StreamFails(c))
          /\ WF_vars(StreamPings(c))
          /\ WF_vars(~enabled /\ consumer[c] = "reading" /\ StreamFails(c))
          /\ WF_vars(BackoffEnds(c))
          /\ SF_vars(StreamDenied(c))
    /\ WF_vars(CleanupAnswered)
    /\ WF_vars(CleanupResumes)
    /\ WF_vars(CleanupSettles)

FairSpec == Spec /\ Fairness

-----------------------------------------------------------------------------
(* Properties *)

\* append, poll, clear and cleanup account for every message: what has arrived
\* since the last reset was delivered, is queued, or is counted as dropped, so
\* that no loss is silent whatever calls overlap.
LossesCounted ==
    arrived.messages = delivered.messages + Len(queue) + dropped.messages

\* The queue holds the latest arrivals without a gap, in receive order: append
\* drops only the oldest, and poll hands out only the oldest.
QueueIsLatest ==
    \A i \in DOMAIN queue : queue[i].nr = arrived.messages - Len(queue) + i

\* queuedBytes, added to and subtracted from in four places, is what the queued
\* messages weigh, so that the queue respects both of its bounds between callbacks,
\* and no byte is lost uncounted.
BytesAgree ==
    /\ queuedBytes = Bytes(queue)
    /\ Fits(queue)
    /\ arrived.bytes = delivered.bytes + queuedBytes + dropped.bytes

\* A closed buffer never holds a message again, although streams and calls of the
\* session may still be running when close returns.
ClosedIsEmpty == closed => queue = <<>>

\* poll asks mqttctl before it takes messages: a poll during which the principal
\* was never enabled returns none.
PollIsAuthorised ==
    [][\A k \in Calls :
          (call[k].op = "poll" /\ call'[k] = Idle /\ delivered' # delivered)
            => call[k].entitled]_vars

\* All loops of consumeSse end once the buffer has closed, those too whose controller
\* another loop has made it forget; and a principal that stays disabled leaves no loop
\* that goes on asking.
StreamsGoQuiet ==
    /\ closed ~> [](\A c \in Consumers : consumer[c] = "idle")
    /\ (<>[]~enabled) => <>[](\A c \in Consumers : consumer[c] = "idle")
=============================================================================
