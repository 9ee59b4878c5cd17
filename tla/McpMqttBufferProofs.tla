------------------------ MODULE McpMqttBufferProofs ------------------------
(* Invariance proofs for McpMqttBuffer, for every value of its constants. *)
EXTENDS McpMqttBuffer, SequenceTheorems, WellFoundedInduction, TLAPS

-----------------------------------------------------------------------------
(* The queue *)

\* What the queue and the counters of messages are, enough for the count and the
\* order of the messages; the counters of bytes have an invariant of their own, below.
QueueInv ==
    /\ queue \in Seq(Entry)
    /\ arrived.messages \in Nat
    /\ delivered.messages \in Nat
    /\ dropped.messages \in Nat
    /\ LossesCounted
    /\ QueueIsLatest
    /\ ClosedIsEmpty

\* Taking the oldest n messages of a sequence whose last is number last leaves a
\* sequence with the same last, and as many fewer messages.
LEMMA WithoutOldest ==
  ASSUME NEW q \in Seq(Entry), NEW n \in 0..Len(q), NEW last \in Nat,
         \A i \in DOMAIN q : q[i].nr = last - Len(q) + i
  PROVE  /\ Without(q, n) \in Seq(Entry)
         /\ Len(Without(q, n)) = Len(q) - n
         /\ \A i \in DOMAIN Without(q, n) :
               Without(q, n)[i].nr = last - Len(Without(q, n)) + i
<1> DEFINE l == Len(q)
           rest == Without(q, n)
<1>1. l \in Nat /\ n \in 0..l /\ DOMAIN q = 1..l /\ \A i \in 1..l : q[i] \in Entry
  BY LenProperties
<1>2. /\ \A i \in (n + 1)..l : q[i] \in Entry
      /\ n + 1 \in Int /\ l \in Int
  <2> HIDE DEF l
  <2>1. QED  BY <1>1
<1>3. /\ SubSeq(q, n + 1, l) \in Seq(Entry)
      /\ Len(SubSeq(q, n + 1, l)) = IF n + 1 <= l THEN l - (n + 1) + 1 ELSE 0
      /\ \A i \in 1..(l - (n + 1) + 1) : SubSeq(q, n + 1, l)[i] = q[n + 1 + i - 1]
  <2> HIDE DEF l
  <2>1. QED  BY <1>2, SubSeqProperties
<1>4. /\ rest \in Seq(Entry)
      /\ Len(rest) = IF n + 1 <= l THEN l - (n + 1) + 1 ELSE 0
      /\ \A i \in 1..(l - (n + 1) + 1) : rest[i] = q[n + 1 + i - 1]
  BY <1>3, Zenon DEF Without
<1>5. \A i \in 1..l : q[i].nr = last - l + i
  BY <1>1
<1> HIDE DEF rest, l
<1>6. Len(rest) = l - n
  BY <1>1, <1>4
<1>7. DOMAIN rest = 1..(l - n)
  BY <1>4, <1>6, LenProperties
<1>8. ASSUME NEW i \in 1..(l - n)
      PROVE  rest[i].nr = last - Len(rest) + i
  <2>1. i \in 1..(l - (n + 1) + 1) /\ n + 1 + i - 1 = n + i /\ n + i \in 1..l
    BY <1>1
  <2>2. rest[i] = q[n + i]
    BY <1>4, <2>1
  <2>3. q[n + i].nr = last - l + (n + i)
    BY <1>5, <2>1
  <2>4. last - l + (n + i) = last - (l - n) + i
    BY <1>1
  <2>5. QED  BY <1>6, <2>2, <2>3, <2>4, Zenon
<1>9. QED  BY <1>4, <1>6, <1>7, <1>8 DEF rest, l

\* append keeps the latest messages and counts the others.
LEMMA AppendKeeps ==
  ASSUME QueueInv, NEW size \in Sizes, AppendMessage(size), UNCHANGED closed
  PROVE  QueueInv'
<1> DEFINE e == [nr |-> arrived.messages + 1, size |-> size]
           q == Append(queue, e)
<1>1. e \in Entry
  BY DEF QueueInv, Entry
<1>2. /\ q \in Seq(Entry)
      /\ Len(q) = Len(queue) + 1
      /\ q[Len(queue) + 1] = e
      /\ \A i \in 1..Len(queue) : q[i] = queue[i]
  BY <1>1 DEF QueueInv
<1>3. DOMAIN q = 1..(Len(queue) + 1) /\ DOMAIN queue = 1..Len(queue) /\ Len(queue) \in Nat
  BY <1>2, LenProperties DEF QueueInv
<1>4. PICK n \in 0..Len(q) : Drop(q, size, n)
  BY DEF AppendMessage
<1>5. arrived'.messages = arrived.messages + 1 /\ delivered' = delivered /\ ~closed'
  BY DEF AppendMessage, Plus
<1>6. queue' = Without(q, n) /\ dropped'.messages = dropped.messages + n
  BY <1>4 DEF Drop, Plus
<1> HIDE DEF q, e
<1>7. ASSUME NEW i \in DOMAIN q
      PROVE  q[i].nr = (arrived.messages + 1) - Len(q) + i
  <2>1. CASE i = Len(queue) + 1
    BY <1>2, <1>3, <2>1 DEF e, QueueInv
  <2>2. CASE i \in 1..Len(queue)
    <3>1. queue[i].nr = arrived.messages - Len(queue) + i
      BY <1>3, <2>2 DEF QueueInv, QueueIsLatest
    <3>2. QED  BY <1>2, <1>3, <2>2, <3>1, SMT DEF QueueInv
  <2>3. QED  BY <1>3, <2>1, <2>2
<1>8. arrived.messages + 1 \in Nat
  BY DEF QueueInv
<1> DEFINE last == arrived.messages + 1
<1>9. /\ queue' \in Seq(Entry)
      /\ Len(queue') = Len(q) - n
      /\ \A i \in DOMAIN queue' : queue'[i].nr = last - Len(queue') + i
  <2>1. last \in Nat /\ \A i \in DOMAIN q : q[i].nr = last - Len(q) + i
    BY <1>7, <1>8
  <2> HIDE DEF last
  <2>2. /\ Without(q, n) \in Seq(Entry)
        /\ Len(Without(q, n)) = Len(q) - n
        /\ \A i \in DOMAIN Without(q, n) :
              Without(q, n)[i].nr = last - Len(Without(q, n)) + i
    BY <1>2, <2>1, WithoutOldest
  <2>3. QED  BY <1>6, <2>2, Zenon
<1>10. LossesCounted'
  <2>1. Len(queue') = Len(queue) + 1 - n
    BY <1>2, <1>9
  <2>2. arrived.messages = delivered.messages + Len(queue) + dropped.messages
    BY DEF QueueInv, LossesCounted
  <2>3. /\ delivered.messages \in Nat /\ dropped.messages \in Nat /\ n \in Nat
    BY <1>2, <1>3 DEF QueueInv
  <2>4. QED
    BY <1>3, <1>5, <1>6, <2>1, <2>2, <2>3 DEF LossesCounted
<1>11. n \in Nat
  BY <1>2, <1>3
<1>12. /\ arrived'.messages \in Nat
       /\ delivered'.messages \in Nat
       /\ dropped'.messages \in Nat
  BY <1>5, <1>6, <1>8, <1>11 DEF QueueInv
<1>13. QueueIsLatest'
  BY <1>5, <1>9 DEF QueueIsLatest
<1>14. ClosedIsEmpty'
  BY <1>5 DEF ClosedIsEmpty
<1>15. QED  BY <1>9, <1>10, <1>12, <1>13, <1>14 DEF QueueInv

\* poll hands out the oldest messages and counts them as delivered.
LEMMA PollKeeps ==
  ASSUME QueueInv, NEW k \in Calls, NEW n \in 1..MaxPoll, PollReturns(k, n)
  PROVE  QueueInv'
<1> DEFINE count == IF n <= Len(queue) THEN n ELSE Len(queue)
<1>1. Len(queue) \in Nat /\ queue \in Seq(Entry) /\ arrived.messages \in Nat
  BY LenProperties DEF QueueInv
<1>2. count \in 0..Len(queue)
  BY <1>1
<1>3. /\ queue' = Without(queue, count)
      /\ delivered'.messages = delivered.messages + count
      /\ arrived' = arrived /\ dropped' = dropped /\ closed' = closed
  BY Zenon DEF PollReturns, Plus, ending
<1> HIDE DEF count
<1>4. \A i \in DOMAIN queue : queue[i].nr = arrived.messages - Len(queue) + i
  BY DEF QueueInv, QueueIsLatest
<1>5. /\ queue' \in Seq(Entry)
      /\ Len(queue') = Len(queue) - count
      /\ \A i \in DOMAIN queue' : queue'[i].nr = arrived.messages - Len(queue') + i
  BY <1>1, <1>2, <1>3, <1>4, WithoutOldest
<1>6. LossesCounted'
  BY <1>1, <1>2, <1>3, <1>5 DEF QueueInv, LossesCounted
<1>7. /\ arrived'.messages \in Nat
      /\ delivered'.messages \in Nat
      /\ dropped'.messages \in Nat
  BY <1>1, <1>2, <1>3 DEF QueueInv
<1>8. QueueIsLatest'
  BY <1>3, <1>5 DEF QueueIsLatest
<1>9. ClosedIsEmpty'
  <2>1. SUFFICES ASSUME closed PROVE Len(queue') = 0
    BY <1>3, <1>5, EmptySeq DEF ClosedIsEmpty
  <2>2. Len(queue) = 0
    BY <2>1, EmptySeq DEF QueueInv, ClosedIsEmpty
  <2>3. QED  BY <1>2, <1>5, <2>2
<1>10. QED  BY <1>5, <1>6, <1>7, <1>8, <1>9 DEF QueueInv

LEMMA ResetKeeps ==
  ASSUME Reset
  PROVE  QueueInv'
<1>1. /\ queue' = <<>>
      /\ arrived'.messages = 0
      /\ delivered'.messages = 0
      /\ dropped'.messages = 0
  BY DEF Reset, Zero
<1>2. QED  BY <1>1 DEF QueueInv, LossesCounted, QueueIsLatest, ClosedIsEmpty

LEMMA UnchangedKeeps ==
  ASSUME QueueInv, UNCHANGED buffer, UNCHANGED closed
  PROVE  QueueInv'
BY DEF QueueInv, LossesCounted, QueueIsLatest, ClosedIsEmpty, buffer

LEMMA CleanupKeeps ==
  ASSUME QueueInv, NEW upstream \in BOOLEAN, NEW closes \in BOOLEAN,
         Cleanup(upstream, closes)
  PROVE  QueueInv'
<1>1. Reset \/ (UNCHANGED buffer /\ UNCHANGED closed)
  BY DEF Cleanup, CleanupBegins, ending
<1>2. QED  BY <1>1, ResetKeeps, UnchangedKeeps

LEMMA QueueStep ==
  ASSUME QueueInv, [Next]_vars
  PROVE  QueueInv'
<1>1. ASSUME NEW c \in Consumers,
             StreamOpens(c) \/ StreamFails(c) \/ StreamPings(c) \/ BackoffEnds(c)
      PROVE  QueueInv'
  <2>1. UNCHANGED buffer /\ UNCHANGED closed
    BY <1>1, Zenon DEF StreamOpens, StreamFails, StreamPings, BackoffEnds, ending
  <2>2. QED  BY <2>1, UnchangedKeeps
<1>2. ASSUME NEW c \in Consumers, StreamDenied(c) PROVE QueueInv'
  BY <1>2, CleanupKeeps, Zenon DEF StreamDenied
<1>3. ASSUME NEW c \in Consumers, NEW size \in Sizes, Message(c, size) PROVE QueueInv'
  <2>1. AppendMessage(size) /\ UNCHANGED closed
    BY <1>3, Zenon DEF Message, ending
  <2>2. QED  BY <2>1, AppendKeeps
<1>4. ASSUME NEW k \in Calls,
             \/ \E op \in Ops : CallBegins(k, op)
             \/ \E ok \in BOOLEAN, left \in BOOLEAN : CallAnswered(k, ok, left)
             \/ ConnectReturns(k) \/ SubscribeReturns(k) \/ UnsubscribeReturns(k)
             \/ CallFails(k)
      PROVE  QueueInv'
  <2>1. UNCHANGED buffer /\ UNCHANGED closed
    BY <1>4, Zenon DEF CallBegins, CallAnswered, ConnectReturns, SubscribeReturns,
                       UnsubscribeReturns, CallFails, ending
  <2>2. QED  BY <2>1, UnchangedKeeps
<1>5. ASSUME NEW k \in Calls, ClearReturns(k) PROVE QueueInv'
  BY <1>5, ResetKeeps, Zenon DEF ClearReturns
<1>6. ASSUME NEW k \in Calls, DisconnectReturns(k) PROVE QueueInv'
  BY <1>6, CleanupKeeps, Zenon DEF DisconnectReturns
<1>7. ASSUME DeadlinePasses \/ CleanupAnswered \/ CleanupSettles \/ Disable \/ Enable
      PROVE  QueueInv'
  <2>1. UNCHANGED buffer /\ UNCHANGED closed
    BY <1>7, Zenon DEF DeadlinePasses, CleanupAnswered, CleanupSettles, Disable,
                       Enable, ending
  <2>2. QED  BY <2>1, UnchangedKeeps
<1>8. ASSUME ExpireIfIdle \/ Close PROVE QueueInv'
  BY <1>8, CleanupKeeps, Zenon DEF ExpireIfIdle, Close
<1>9. ASSUME CleanupResumes PROVE QueueInv'
  BY <1>9, ResetKeeps, Zenon DEF CleanupResumes
<1>10. CASE UNCHANGED vars
  BY <1>10, UnchangedKeeps DEF vars, ending
<1>11. QED
  BY <1>1, <1>2, <1>3, <1>4, <1>5, <1>6, <1>7, <1>8, <1>9, <1>10, PollKeeps, Zenon
  DEF Next

LEMMA QueueInvariant == Spec => []QueueInv
<1>1. Init => QueueInv
  <2> SUFFICES ASSUME Init PROVE QueueInv
    OBVIOUS
  <2>1. queue = <<>> /\ arrived = Zero /\ delivered = Zero /\ dropped = Zero /\ ~closed
    BY DEF Init
  <2>2. QED  BY <2>1 DEF QueueInv, LossesCounted, QueueIsLatest, ClosedIsEmpty, Zero
<1>2. QED  BY <1>1, QueueStep, PTL DEF Spec

\* Whatever overlaps, every message that has arrived since the last reset has been
\* delivered, is queued, or is counted as dropped.
THEOREM NoSilentLoss == Spec => []LossesCounted
<1>1. QueueInv => LossesCounted
  BY DEF QueueInv
<1>2. QED  BY <1>1, QueueInvariant, PTL

\* The queue is the latest arrivals in receive order, without a gap.
THEOREM ReceiveOrder == Spec => []QueueIsLatest
<1>1. QueueInv => QueueIsLatest
  BY DEF QueueInv
<1>2. QED  BY <1>1, QueueInvariant, PTL

\* A closed buffer never holds a message again.
THEOREM ClosedStaysEmpty == Spec => []ClosedIsEmpty
<1>1. QueueInv => ClosedIsEmpty
  BY DEF QueueInv
<1>2. QED  BY <1>1, QueueInvariant, PTL

-----------------------------------------------------------------------------
(* Authorisation of polls *)

\* A poll that saw the principal enabled, by its answer or since, is entitled.
PollInv ==
    /\ call \in [Calls -> CallRecord]
    /\ \A k \in Calls :
          call[k].op = "poll" => /\ enabled => call[k].entitled
                                 /\ call[k].ok => call[k].entitled

LEMMA IdleIsACall == Idle \in CallRecord /\ Idle.op = "none"
  BY DEF Idle, CallRecord

LEMMA ReturnKeeps ==
  ASSUME PollInv, NEW k \in Calls, Return(k), UNCHANGED enabled
  PROVE  PollInv'
<1>1. \A m \in Calls : call'[m] = IF m = k THEN Idle ELSE call[m]
  BY Zenon DEF PollInv, Return
<1>2. call' \in [Calls -> CallRecord]
  BY IdleIsACall DEF PollInv, Return
<1>3. QED  BY <1>1, <1>2, IdleIsACall DEF PollInv

LEMMA PollStep ==
  ASSUME PollInv, [Next]_vars
  PROVE  PollInv'
<1>1. ASSUME UNCHANGED call, UNCHANGED enabled PROVE PollInv'
  BY <1>1 DEF PollInv
<1>2. ASSUME NEW c \in Consumers,
             \/ StreamOpens(c) \/ StreamFails(c) \/ StreamPings(c) \/ StreamDenied(c)
             \/ BackoffEnds(c) \/ \E size \in Sizes : Message(c, size)
      PROVE  PollInv'
  BY <1>1, <1>2, Zenon DEF StreamOpens, StreamFails, StreamPings, StreamDenied,
                           BackoffEnds, Message
<1>3. ASSUME NEW k \in Calls, NEW op \in Ops, CallBegins(k, op) PROVE PollInv'
  <2> DEFINE new == [op |-> op, at |-> "sent", ok |-> FALSE, left |-> FALSE,
                     entitled |-> (op = "poll" /\ enabled)]
  <2>1. new \in CallRecord
    BY DEF CallRecord
  <2>2. call' = [call EXCEPT ![k] = new] /\ enabled' = enabled
    BY <1>3, Zenon DEF CallBegins
  <2>3. new.op = op /\ new.entitled = (op = "poll" /\ enabled) /\ new.ok = FALSE
    OBVIOUS
  <2> HIDE DEF new
  <2>4. call' \in [Calls -> CallRecord]
    BY <2>1, <2>2 DEF PollInv
  <2>5. \A m \in Calls : call'[m] = IF m = k THEN new ELSE call[m]
    BY <2>2, Zenon DEF PollInv
  <2>6. QED  BY <2>2, <2>3, <2>4, <2>5 DEF PollInv
<1>4. ASSUME NEW k \in Calls, NEW ok \in BOOLEAN, NEW left \in BOOLEAN,
             CallAnswered(k, ok, left)
      PROVE  PollInv'
  <2> DEFINE new == [call[k] EXCEPT !.at = "answered", !.ok = ok, !.left = left]
  <2>1. PICK r \in CallRecord : r = call[k]
    BY DEF PollInv
  <2>2. /\ [r EXCEPT !.at = "answered", !.ok = ok, !.left = left] \in CallRecord
        /\ [r EXCEPT !.at = "answered", !.ok = ok, !.left = left].op = r.op
        /\ [r EXCEPT !.at = "answered", !.ok = ok, !.left = left].ok = ok
        /\ [r EXCEPT !.at = "answered", !.ok = ok, !.left = left].entitled = r.entitled
    BY DEF CallRecord
  <2>3. new \in CallRecord /\ new.op = call[k].op /\ new.ok = ok
          /\ new.entitled = call[k].entitled
    BY <2>1, <2>2, Zenon
  <2>4. call' = [call EXCEPT ![k] = new] /\ enabled' = enabled /\ (ok => enabled)
    BY <1>4 DEF CallAnswered, PollInv, CallRecord
  <2> HIDE DEF new
  <2>5. call' \in [Calls -> CallRecord]
    BY <2>3, <2>4 DEF PollInv
  <2>6. \A m \in Calls : call'[m] = IF m = k THEN new ELSE call[m]
    BY <2>4, Zenon DEF PollInv
  <2>7. QED  BY <2>3, <2>4, <2>5, <2>6 DEF PollInv
<1>5. ASSUME NEW k \in Calls,
             \/ ConnectReturns(k) \/ SubscribeReturns(k) \/ UnsubscribeReturns(k)
             \/ \E n \in 1..MaxPoll : PollReturns(k, n)
             \/ ClearReturns(k) \/ CallFails(k)
      PROVE  PollInv'
  <2>1. Return(k) /\ UNCHANGED enabled
    BY <1>5, Zenon DEF ConnectReturns, SubscribeReturns, UnsubscribeReturns,
                       PollReturns, ClearReturns, CallFails
  <2>2. QED  BY <2>1, ReturnKeeps
<1>6. ASSUME NEW k \in Calls, DisconnectReturns(k) PROVE PollInv'
  <2>1. PICK r \in CallRecord : r = call[k]
    BY DEF PollInv
  <2>2. r.op = "disconnect" /\ enabled' = enabled
        /\ call' = [call EXCEPT ![k] = [r EXCEPT !.at = "cleaning"]]
    BY <1>6, <2>1, Zenon DEF DisconnectReturns
  <2>3. [r EXCEPT !.at = "cleaning"] \in CallRecord /\ [r EXCEPT !.at = "cleaning"].op = r.op
    BY DEF CallRecord
  <2>4. QED  BY <2>1, <2>2, <2>3 DEF PollInv
<1>7. ASSUME DeadlinePasses \/ ExpireIfIdle \/ Close \/ CleanupAnswered \/ CleanupResumes
      PROVE  PollInv'
  BY <1>1, <1>7, Zenon DEF DeadlinePasses, ExpireIfIdle, Close, CleanupAnswered,
                           CleanupResumes
<1>8. ASSUME CleanupSettles PROVE PollInv'
  <2>1. call' = [k \in Calls |-> IF call[k].at = "cleaning" THEN Idle ELSE call[k]]
        /\ enabled' = enabled
    BY <1>8, Zenon DEF CleanupSettles
  <2>2. QED  BY <2>1, IdleIsACall DEF PollInv
<1>9. ASSUME Disable PROVE PollInv'
  BY <1>9 DEF Disable, PollInv
<1>10. ASSUME Enable PROVE PollInv'
  <2>1. call' = [k \in Calls |-> [call[k] EXCEPT !.entitled = (call[k].op = "poll")]]
    BY <1>10 DEF Enable
  <2>2. \A r \in CallRecord :
           /\ [r EXCEPT !.entitled = (r.op = "poll")] \in CallRecord
           /\ [r EXCEPT !.entitled = (r.op = "poll")].op = r.op
           /\ [r EXCEPT !.entitled = (r.op = "poll")].entitled = (r.op = "poll")
    BY DEF CallRecord
  <2>3. QED  BY <2>1, <2>2 DEF PollInv
<1>11. CASE UNCHANGED vars
  BY <1>1, <1>11 DEF vars
<1>12. QED
  BY <1>2, <1>3, <1>4, <1>5, <1>6, <1>7, <1>8, <1>9, <1>10, <1>11, Zenon DEF Next

LEMMA PollInvariant == Spec => []PollInv
<1>1. Init => PollInv
  BY IdleIsACall DEF Init, PollInv
<1>2. QED  BY <1>1, PollStep, PTL DEF Spec

\* A poll during which the principal was never enabled takes nothing: a step that
\* ends a poll and delivers is the return of that poll, with mqttctl's consent.
THEOREM PollsAreAuthorised == Spec => PollIsAuthorised
<1> DEFINE Authorised(k) == (call[k].op = "poll" /\ call'[k] = Idle /\ delivered' # delivered)
                              => call[k].entitled
<1>1. ASSUME PollInv, [Next]_vars, NEW k \in Calls PROVE Authorised(k)
  <2> SUFFICES ASSUME call[k].op = "poll", call'[k] = Idle, delivered' # delivered
               PROVE  call[k].entitled
    OBVIOUS
  <2>1. call[k] # Idle
    BY IdleIsACall
  <2>2. ~UNCHANGED call
    BY <2>1
  <2>3. ASSUME NEW m \in Calls, NEW n \in 1..MaxPoll, PollReturns(m, n)
        PROVE  call[k].entitled
    <3>1. Return(m) /\ call[m].ok
      BY <2>3, Zenon DEF PollReturns, Succeeds
    <3>2. m = k
      BY <1>1, <2>1, <3>1 DEF Return, PollInv
    <3>3. QED  BY <1>1, <3>1, <3>2 DEF PollInv
  <2>4. ASSUME NEW m \in Calls, ClearReturns(m) PROVE FALSE
    <3>1. Return(m) /\ call[m].op = "clear"
      BY <2>4, Zenon DEF ClearReturns, Succeeds
    <3>2. m # k
      BY <3>1
    <3>3. QED  BY <1>1, <2>1, <3>1, <3>2 DEF Return, PollInv
  <2>5. ASSUME NEW m \in Calls, DisconnectReturns(m) PROVE FALSE
    <3>1. call' = [call EXCEPT ![m].at = "cleaning"] /\ call[m].op = "disconnect"
      BY <2>5, Zenon DEF DisconnectReturns
    <3>2. m # k
      BY <3>1
    <3>3. QED  BY <1>1, <2>1, <3>1, <3>2 DEF PollInv
  <2>6. ASSUME NEW m \in Calls,
               \/ \E op \in Ops : CallBegins(m, op)
               \/ \E ok \in BOOLEAN, left \in BOOLEAN : CallAnswered(m, ok, left)
               \/ ConnectReturns(m) \/ SubscribeReturns(m) \/ UnsubscribeReturns(m)
               \/ CallFails(m)
        PROVE  UNCHANGED delivered
    BY <2>6, Zenon DEF CallBegins, CallAnswered, ConnectReturns, SubscribeReturns,
                       UnsubscribeReturns, CallFails, buffer
  <2>7. ASSUME NEW c \in Consumers,
               \/ StreamOpens(c) \/ StreamFails(c) \/ StreamPings(c) \/ StreamDenied(c)
               \/ BackoffEnds(c) \/ \E size \in Sizes : Message(c, size)
        PROVE  UNCHANGED call
    BY <2>7, Zenon DEF StreamOpens, StreamFails, StreamPings, StreamDenied,
                       BackoffEnds, Message
  <2>8. ASSUME DeadlinePasses \/ ExpireIfIdle \/ Close \/ CleanupAnswered
               \/ CleanupResumes \/ CleanupSettles \/ Disable \/ Enable
        PROVE  UNCHANGED call \/ UNCHANGED delivered
    BY <2>8, Zenon DEF DeadlinePasses, ExpireIfIdle, Close, CleanupAnswered,
                       CleanupResumes, CleanupSettles, Disable, Enable, buffer
  <2>9. CASE UNCHANGED vars
    BY <2>2, <2>9 DEF vars
  <2>10. QED
    BY <1>1, <2>2, <2>3, <2>4, <2>5, <2>6, <2>7, <2>8, <2>9, Zenon DEF Next
<1>2. ASSUME PollInv, [Next]_vars PROVE [\A k \in Calls : Authorised(k)]_vars
  BY <1>1, <1>2
<1>3. QED  BY PollInvariant, <1>2, PTL DEF Spec, PollIsAuthorised

-----------------------------------------------------------------------------
(* The bytes of a sequence of messages *)

\* Induction over the natural numbers, for a property that is given as a set: the
\* smallest number without it is not zero, and its predecessor has it.
LEMMA SetInduction ==
  ASSUME NEW T, 0 \in T, \A n \in Nat : n \in T => n + 1 \in T
  PROVE  Nat \subseteq T
<1> DEFINE U == {n \in Nat : n \notin T}
           R == OpToRel(<, Nat)
<1>1. SUFFICES ASSUME U # {} PROVE FALSE
  OBVIOUS
<1>2. IsWellFoundedOn(R, Nat)
  BY NatLessThanWellFounded
<1>3. U \subseteq Nat
  OBVIOUS
<1>7. \A m, n \in Nat : m < n => <<m, n>> \in R
  BY DEF OpToRel
<1> HIDE DEF R
<1>4. PICK x \in U : \A y \in U : ~(<<y, x>> \in R)
  <2> HIDE DEF U
  <2>1. QED BY <1>1, <1>2, <1>3, WFMin
<1>5. x \in Nat /\ x \notin T /\ x # 0
  OBVIOUS
<1>6. x - 1 \in U /\ x - 1 < x
  BY <1>5
<1>8. QED
  BY <1>3, <1>4, <1>6, <1>7

\* f adds up the sizes of q from its oldest message on.
Totals(f, q) ==
    /\ f[0] = 0
    /\ \A n \in 1..Len(q) : f[n] = f[n - 1] + q[n].size

LEMMA TotalsAgree ==
  ASSUME NEW q \in Seq(Entry), NEW f, NEW g, Totals(f, q), Totals(g, q)
  PROVE  f[Len(q)] = g[Len(q)]
<1> DEFINE T == {n \in Nat : n <= Len(q) => f[n] = g[n]}
<1>1. Len(q) \in Nat
  BY LenProperties
<1>2. 0 \in T
  BY DEF Totals
<1>3. ASSUME NEW n \in Nat, n \in T PROVE n + 1 \in T
  <2>1. ASSUME n + 1 <= Len(q) PROVE f[n + 1] = g[n + 1]
    <3>1. n + 1 \in 1..Len(q) /\ (n + 1) - 1 = n /\ f[n] = g[n]
      BY <1>1, <1>3, <2>1
    <3>2. f[n + 1] = f[n] + q[n + 1].size /\ g[n + 1] = g[n] + q[n + 1].size
      BY <3>1 DEF Totals
    <3>3. QED
      BY <3>1, <3>2
  <2>2. QED
    BY <2>1
<1> HIDE DEF T
<1>4. Nat \subseteq T
  BY <1>2, <1>3, SetInduction
<1>5. QED
  BY <1>1, <1>4 DEF T

LEMMA TotalsExist ==
  ASSUME NEW q \in Seq(Entry)
  PROVE  \E f \in [0..Len(q) -> Nat] : Totals(f, q)
<1> DEFINE Upto(m, f) == f[0] = 0 /\ \A n \in 1..m : f[n] = f[n - 1] + q[n].size
           T == {m \in Nat : m <= Len(q) => \E f \in [0..m -> Nat] : Upto(m, f)}
<1>1. /\ Len(q) \in Nat
      /\ \A n \in 1..Len(q) : q[n].size \in Nat
  <2>1. Len(q) \in Nat /\ \A n \in 1..Len(q) : q[n] \in Entry
    BY LenProperties
  <2>2. QED
    BY <2>1, BufferAssumption DEF Entry
<1>2. 0 \in T
  <2>1. [n \in 0..0 |-> 0] \in [0..0 -> Nat] /\ Upto(0, [n \in 0..0 |-> 0])
    OBVIOUS
  <2>2. QED
    BY <2>1
<1>3. ASSUME NEW m \in Nat, m \in T PROVE m + 1 \in T
  <2>0. m + 1 \in Nat
    OBVIOUS
  <2>1. SUFFICES ASSUME m + 1 <= Len(q)
                 PROVE  \E f \in [0..(m + 1) -> Nat] : Upto(m + 1, f)
    <3> HIDE DEF Upto
    <3>1. QED
      BY <2>0
  <2>2. PICK g \in [0..m -> Nat] : Upto(m, g)
    <3> HIDE DEF Upto
    <3>1. m <= Len(q)
      BY <1>1, <2>1
    <3>2. QED
      BY <1>3, <3>1
  <2> DEFINE f == [n \in 0..(m + 1) |-> IF n = m + 1 THEN g[m] + q[m + 1].size ELSE g[n]]
  <2>3. g[m] + q[m + 1].size \in Nat
    BY <1>1, <2>1
  <2>4. f \in [0..(m + 1) -> Nat]
    BY <2>3
  <2>5. /\ f[m + 1] = g[m] + q[m + 1].size
        /\ \A n \in 0..m : f[n] = g[n]
    OBVIOUS
  <2> HIDE DEF f
  <2>6. Upto(m + 1, f)
    <3>1. f[0] = 0
      BY <2>2, <2>5
    <3>2. ASSUME NEW n \in 1..(m + 1) PROVE f[n] = f[n - 1] + q[n].size
      <4>1. CASE n = m + 1
        BY <2>5, <4>1
      <4>2. CASE n # m + 1
        <5>1. n \in 1..m /\ n \in 0..m /\ n - 1 \in 0..m
          BY <3>2, <4>2
        <5>2. QED
          BY <2>2, <2>5, <5>1
      <4>3. QED
        BY <4>1, <4>2
    <3>3. QED
      BY <3>1, <3>2
  <2>7. QED
    BY <2>4, <2>6
<1> HIDE DEF T
<1>4. Nat \subseteq T
  BY <1>2, <1>3, SetInduction
<1>5. \E f \in [0..Len(q) -> Nat] : Upto(Len(q), f)
  <2> HIDE DEF Upto
  <2>1. Len(q) \in T
    BY <1>1, <1>4
  <2>2. QED
    BY <1>1, <2>1 DEF T
<1>6. QED
  BY <1>5 DEF Totals

LEMMA BytesTotal ==
  ASSUME NEW q \in Seq(Entry), NEW f \in [0..Len(q) -> Nat], Totals(f, q)
  PROVE  Bytes(q) = f[Len(q)]
<1> DEFINE sum == CHOOSE h : h = [n \in 0..Len(q) |-> IF n = 0 THEN 0 ELSE h[n - 1] + q[n].size]
<1>1. Bytes(q) = sum[Len(q)]
  BY DEF Bytes
<1>2. Len(q) \in Nat
  BY LenProperties
<1>3. f = [n \in 0..Len(q) |-> IF n = 0 THEN 0 ELSE f[n - 1] + q[n].size]
  BY <1>2 DEF Totals
<1>4. sum = [n \in 0..Len(q) |-> IF n = 0 THEN 0 ELSE sum[n - 1] + q[n].size]
  BY <1>3
<1> HIDE DEF sum
<1>5. Totals(sum, q)
  <2>1. sum[0] = 0
    BY <1>2, <1>4
  <2>2. ASSUME NEW n \in 1..Len(q) PROVE sum[n] = sum[n - 1] + q[n].size
    BY <1>2, <1>4
  <2>3. QED
    BY <2>1, <2>2 DEF Totals
<1>6. QED
  BY <1>1, <1>5, TotalsAgree

LEMMA BytesAreNatural ==
  ASSUME NEW q \in Seq(Entry)
  PROVE  Bytes(q) \in Nat
<1>1. PICK f \in [0..Len(q) -> Nat] : Totals(f, q)
  BY TotalsExist
<1>2. Len(q) \in 0..Len(q)
  BY LenProperties
<1>3. QED
  BY <1>1, <1>2, BytesTotal

LEMMA BytesOfNothing == Bytes(<<>>) = 0
<1>1. <<>> \in Seq(Entry) /\ Len(<<>>) = 0
  OBVIOUS
<1>2. PICK f \in [0..Len(<<>>) -> Nat] : Totals(f, <<>>)
  BY <1>1, TotalsExist
<1>3. QED
  BY <1>1, <1>2, BytesTotal DEF Totals

LEMMA BytesOfOneMore ==
  ASSUME NEW q \in Seq(Entry), NEW e \in Entry
  PROVE  Bytes(Append(q, e)) = Bytes(q) + e.size
<1> DEFINE l == Len(q)
           r == Append(q, e)
<1>1. /\ l \in Nat /\ r \in Seq(Entry) /\ Len(r) = l + 1
      /\ r[l + 1] = e /\ \A i \in 1..l : r[i] = q[i]
  BY LenProperties
<1>2. PICK f \in [0..l -> Nat] : Totals(f, q)
  BY TotalsExist
<1>3. Bytes(q) = f[l]
  BY <1>2, BytesTotal
<1>4. e.size \in Nat
  BY BufferAssumption DEF Entry
<1> DEFINE g == [n \in 0..(l + 1) |-> IF n = l + 1 THEN f[l] + e.size ELSE f[n]]
<1>5. /\ g \in [0..(l + 1) -> Nat] /\ g[l + 1] = f[l] + e.size
      /\ \A n \in 0..l : g[n] = f[n]
  BY <1>1, <1>4
<1> HIDE DEF g, r
<1>6. Totals(g, r)
  <2>1. g[0] = 0
    BY <1>1, <1>2, <1>5 DEF Totals
  <2>2. ASSUME NEW n \in 1..(l + 1) PROVE g[n] = g[n - 1] + r[n].size
    <3>1. CASE n = l + 1
      BY <1>1, <1>5, <3>1
    <3>2. CASE n # l + 1
      <4>1. n \in 1..l /\ n \in 0..l /\ n - 1 \in 0..l
        BY <1>1, <3>2
      <4>2. QED
        BY <1>1, <1>2, <1>5, <4>1 DEF Totals
    <3>3. QED
      BY <3>1, <3>2
  <2>3. QED
    BY <1>1, <2>1, <2>2 DEF Totals
<1>7. Bytes(r) = g[l + 1]
  BY <1>1, <1>5, <1>6, BytesTotal
<1>8. QED
  BY <1>3, <1>5, <1>7 DEF r

\* What is taken off the front and what is left weigh what there was.
LEMMA BytesOfParts ==
  ASSUME NEW q \in Seq(Entry), NEW n \in 0..Len(q)
  PROVE  /\ SubSeq(q, 1, n) \in Seq(Entry) /\ Without(q, n) \in Seq(Entry)
         /\ Bytes(q) = Bytes(SubSeq(q, 1, n)) + Bytes(Without(q, n))
<1> DEFINE l == Len(q)
           front == SubSeq(q, 1, n)
           rest == Without(q, n)
<1>1. l \in Nat /\ n \in 0..l /\ \A i \in 1..l : q[i] \in Entry
  BY LenProperties
<1>2. /\ front \in Seq(Entry) /\ Len(front) = n
      /\ \A i \in 1..n : front[i] = q[i]
  <2> HIDE DEF l
  <2>1. /\ \A i \in 1..n : q[i] \in Entry
        /\ 1 \in Int /\ n \in Int
    BY <1>1
  <2>2. /\ SubSeq(q, 1, n) \in Seq(Entry)
        /\ Len(SubSeq(q, 1, n)) = IF 1 <= n THEN n - 1 + 1 ELSE 0
        /\ \A i \in 1..(n - 1 + 1) : SubSeq(q, 1, n)[i] = q[1 + i - 1]
    BY <2>1, SubSeqProperties
  <2>3. QED
    BY <1>1, <2>2
<1>3. /\ rest \in Seq(Entry) /\ Len(rest) = l - n
      /\ \A i \in 1..(l - n) : rest[i] = q[n + i]
  <2> HIDE DEF l
  <2>1. /\ \A i \in (n + 1)..l : q[i] \in Entry
        /\ n + 1 \in Int /\ l \in Int
    BY <1>1
  <2>2. /\ SubSeq(q, n + 1, l) \in Seq(Entry)
        /\ Len(SubSeq(q, n + 1, l)) = IF n + 1 <= l THEN l - (n + 1) + 1 ELSE 0
        /\ \A i \in 1..(l - (n + 1) + 1) : SubSeq(q, n + 1, l)[i] = q[n + 1 + i - 1]
    BY <2>1, SubSeqProperties
  <2>3. rest = SubSeq(q, n + 1, l)
    BY DEF Without, l
  <2> HIDE DEF rest
  <2>4. QED
    BY <1>1, <2>2, <2>3
<1> HIDE DEF front, rest
<1>4. PICK f \in [0..l -> Nat] : Totals(f, q)
  BY TotalsExist
<1>5. Bytes(q) = f[l] /\ f[l] \in Nat /\ f[n] \in Nat
  BY <1>1, <1>4, BytesTotal
<1>6. \A i \in 1..l : f[i] = f[i - 1] + q[i].size
  BY <1>4 DEF Totals
<1>7. Bytes(front) = f[n]
  <2> DEFINE g == [i \in 0..n |-> f[i]]
  <2>1. /\ g \in [0..n -> Nat] /\ \A i \in 0..n : g[i] = f[i]
    BY <1>1
  <2> HIDE DEF g
  <2>2. ASSUME NEW i \in 1..n PROVE g[i] = g[i - 1] + front[i].size
    <3>1. i \in 1..l /\ i \in 0..n /\ i - 1 \in 0..n
      BY <1>1
    <3>2. QED
      BY <1>2, <1>6, <2>1, <3>1
  <2>3. g[0] = 0 /\ g[n] = f[n]
    BY <1>1, <1>4, <2>1 DEF Totals
  <2>4. Totals(g, front)
    BY <1>2, <2>2, <2>3 DEF Totals
  <2>5. QED
    BY <1>2, <2>1, <2>3, <2>4, BytesTotal
<1>8. PICK h \in [0..(l - n) -> Nat] : Totals(h, rest)
  BY <1>3, TotalsExist
<1>9. Bytes(rest) = h[l - n]
  BY <1>3, <1>8, BytesTotal
<1>10. f[l] = f[n] + h[l - n]
  <2> DEFINE T == {i \in Nat : i <= l - n => f[n + i] = f[n] + h[i]}
  <2>1. 0 \in T
    BY <1>1, <1>5, <1>8 DEF Totals
  <2>2. ASSUME NEW i \in Nat, i \in T PROVE i + 1 \in T
    <3>1. ASSUME i + 1 <= l - n PROVE f[n + (i + 1)] = f[n] + h[i + 1]
      <4>1. /\ i + 1 \in 1..(l - n) /\ (i + 1) - 1 = i /\ i \in 0..(l - n)
            /\ n + (i + 1) \in 1..l /\ (n + (i + 1)) - 1 = n + i
        BY <1>1, <3>1
      <4>2. f[n + i] = f[n] + h[i]
        BY <1>1, <2>2, <4>1
      <4>3. h[i + 1] = h[i] + rest[i + 1].size /\ rest[i + 1] = q[n + (i + 1)]
        BY <1>3, <1>8, <4>1 DEF Totals
      <4>4. f[n + (i + 1)] = f[n + i] + q[n + (i + 1)].size
        BY <1>6, <4>1
      <4>5. q[n + (i + 1)].size \in Nat /\ h[i] \in Nat
        BY <1>1, <1>8, <4>1, BufferAssumption DEF Entry
      <4>6. QED
        BY <1>5, <4>2, <4>3, <4>4, <4>5
    <3>2. QED
      BY <3>1
  <2> HIDE DEF T
  <2>3. Nat \subseteq T
    BY <2>1, <2>2, SetInduction
  <2>4. l - n \in T /\ n + (l - n) = l
    BY <1>1, <2>3
  <2>5. QED
    BY <1>1, <2>4 DEF T
<1>11. QED
  BY <1>2, <1>3, <1>5, <1>7, <1>9, <1>10 DEF front, rest

-----------------------------------------------------------------------------
(* The queue and its bytes *)

BytesInv ==
    /\ queue \in Seq(Entry) /\ queuedBytes \in Nat
    /\ arrived \in Tally /\ delivered \in Tally /\ dropped \in Tally
    /\ BytesAgree

LEMMA PlusTally ==
  ASSUME NEW t \in Tally, NEW n \in Nat, NEW b \in Nat
  PROVE  Plus(t, n, b) \in Tally /\ Plus(t, n, b).bytes = t.bytes + b /\ t.bytes \in Nat
BY DEF Plus, Tally

\* Less of what fits fits, and nothing does.
LEMMA RestFits ==
  ASSUME NEW q \in Seq(Entry), NEW n \in 0..Len(q), Fits(q) \/ n = Len(q)
  PROVE  Fits(Without(q, n))
<1>1. /\ SubSeq(q, 1, n) \in Seq(Entry) /\ Without(q, n) \in Seq(Entry)
      /\ Bytes(q) = Bytes(SubSeq(q, 1, n)) + Bytes(Without(q, n))
  BY BytesOfParts
<1>2. Bytes(SubSeq(q, 1, n)) \in Nat /\ Bytes(Without(q, n)) \in Nat
  BY <1>1, BytesAreNatural
<1>3. Len(q) \in Nat /\ Len(Without(q, n)) = Len(q) - n
  <2>1. Len(q) \in Nat /\ \A i \in (n + 1)..Len(q) : q[i] \in Entry
    BY LenProperties
  <2>2. Len(SubSeq(q, n + 1, Len(q))) =
            IF n + 1 <= Len(q) THEN Len(q) - (n + 1) + 1 ELSE 0
    BY <2>1, SubSeqProperties
  <2>3. QED
    BY <2>1, <2>2 DEF Without
<1>4. CASE Fits(q)
  BY <1>1, <1>2, <1>3, <1>4, BufferAssumption DEF Fits
<1>5. CASE n = Len(q)
  <2>1. Len(Without(q, n)) = 0
    BY <1>3, <1>5
  <2>2. Without(q, n) = <<>>
    BY <1>1, <2>1, EmptySeq
  <2>3. Bytes(Without(q, n)) = 0
    BY <2>2, BytesOfNothing
  <2>4. QED
    BY <2>1, <2>3, BufferAssumption DEF Fits
<1>6. QED
  BY <1>4, <1>5

LEMMA AppendKeepsBytes ==
  ASSUME BytesInv, NEW size \in Sizes, AppendMessage(size)
  PROVE  BytesInv'
<1> DEFINE e == [nr |-> arrived.messages + 1, size |-> size]
           q == Append(queue, e)
<1>1. e \in Entry /\ e.size = size /\ size \in Nat
  BY BufferAssumption DEF BytesInv, Tally, Entry
<1>2. q \in Seq(Entry) /\ Bytes(q) = queuedBytes + size
  BY <1>1, BytesOfOneMore DEF BytesInv, BytesAgree
<1>3. PICK n \in 0..Len(q) : DropsOldest(q, n) /\ Drop(q, size, n)
  BY DEF AppendMessage
<1>4. arrived' = Plus(arrived, 1, size) /\ delivered' = delivered
  BY DEF AppendMessage
<1> HIDE DEF e, q
<1>5. PICK bytes : bytes = Bytes(SubSeq(q, 1, n))
  OBVIOUS
<1>6. /\ queue' = Without(q, n) /\ queuedBytes' = queuedBytes + size - bytes
      /\ dropped' = Plus(dropped, n, bytes)
  BY <1>3, <1>5 DEF Drop
<1>7. /\ queue' \in Seq(Entry) /\ bytes \in Nat /\ Bytes(queue') \in Nat
      /\ Bytes(q) = bytes + Bytes(queue')
  BY <1>2, <1>5, <1>6, BytesOfParts, BytesAreNatural
<1>8. Fits(queue')
  BY <1>2, <1>3, <1>6, RestFits DEF DropsOldest
<1>9. n \in Nat
  BY <1>2, LenProperties
<1>10. arrived' \in Tally /\ arrived'.bytes = arrived.bytes + size /\ arrived.bytes \in Nat
  <2>1. arrived \in Tally /\ 1 \in Nat
    BY DEF BytesInv
  <2>2. QED
    BY <1>1, <1>4, <2>1, PlusTally
<1>11. dropped' \in Tally /\ dropped'.bytes = dropped.bytes + bytes /\ dropped.bytes \in Nat
  <2>1. dropped \in Tally
    BY DEF BytesInv
  <2>2. QED
    BY <1>6, <1>7, <1>9, <2>1, PlusTally
<1>12. delivered \in Tally /\ delivered.bytes \in Nat
  BY DEF BytesInv, Tally
<1>13. /\ arrived.bytes = delivered.bytes + queuedBytes + dropped.bytes
       /\ queuedBytes \in Nat
  BY DEF BytesInv, BytesAgree
<1>14. queuedBytes + size = bytes + Bytes(queue')
  BY <1>2, <1>7
<1>15. /\ queuedBytes' = Bytes(queue')
       /\ arrived.bytes + size = delivered.bytes + Bytes(queue') + (dropped.bytes + bytes)
  <2> DEFINE arr == arrived.bytes
             del == delivered.bytes
             los == dropped.bytes
             w == Bytes(queue')
  <2>1. /\ arr \in Nat /\ del \in Nat /\ los \in Nat /\ w \in Nat
        /\ arr = del + queuedBytes + los /\ queuedBytes + size = bytes + w
    BY <1>7, <1>10, <1>11, <1>12, <1>13, <1>14
  <2> HIDE DEF arr, del, los, w
  <2>2. queuedBytes + size - bytes = w /\ arr + size = del + w + (los + bytes)
    BY <1>1, <1>7, <1>13, <2>1
  <2>3. QED
    BY <1>6, <2>2 DEF arr, del, los, w
<1>16. arrived'.bytes = delivered'.bytes + queuedBytes' + dropped'.bytes
  BY <1>4, <1>10, <1>11, <1>15
<1>17. queuedBytes' \in Nat /\ delivered' \in Tally
  BY <1>4, <1>7, <1>12, <1>15
<1>18. QED
  BY <1>7, <1>8, <1>10, <1>11, <1>15, <1>16, <1>17 DEF BytesInv, BytesAgree

LEMMA PollKeepsBytes ==
  ASSUME BytesInv, NEW k \in Calls, NEW n \in 1..MaxPoll, PollReturns(k, n)
  PROVE  BytesInv'
<1> DEFINE count == IF n <= Len(queue) THEN n ELSE Len(queue)
<1>1. queue \in Seq(Entry) /\ Len(queue) \in Nat /\ count \in 0..Len(queue)
  BY LenProperties DEF BytesInv
<1>2. PICK bytes : bytes = Bytes(SubSeq(queue, 1, count))
  OBVIOUS
<1>3. /\ queue' = Without(queue, count) /\ queuedBytes' = queuedBytes - bytes
      /\ delivered' = Plus(delivered, count, bytes)
      /\ arrived' = arrived /\ dropped' = dropped
  BY <1>2, Zenon DEF PollReturns
<1> HIDE DEF count
<1>4. /\ queue' \in Seq(Entry) /\ bytes \in Nat /\ Bytes(queue') \in Nat
      /\ Bytes(queue) = bytes + Bytes(queue')
  BY <1>1, <1>2, <1>3, BytesOfParts, BytesAreNatural
<1>5. Fits(queue')
  BY <1>1, <1>3, RestFits DEF BytesInv, BytesAgree
<1>6. count \in Nat
  BY <1>1
<1>7. /\ delivered' \in Tally /\ delivered'.bytes = delivered.bytes + bytes
      /\ delivered.bytes \in Nat
  <2>1. delivered \in Tally
    BY DEF BytesInv
  <2>2. QED
    BY <1>3, <1>4, <1>6, <2>1, PlusTally
<1>8. /\ arrived \in Tally /\ dropped \in Tally
      /\ arrived.bytes \in Nat /\ dropped.bytes \in Nat
  BY DEF BytesInv, Tally
<1>9. /\ arrived.bytes = delivered.bytes + queuedBytes + dropped.bytes
      /\ queuedBytes \in Nat /\ queuedBytes = bytes + Bytes(queue')
  BY <1>4 DEF BytesInv, BytesAgree
<1>10. /\ queuedBytes' = Bytes(queue')
       /\ arrived.bytes = (delivered.bytes + bytes) + Bytes(queue') + dropped.bytes
  <2> DEFINE arr == arrived.bytes
             del == delivered.bytes
             los == dropped.bytes
             w == Bytes(queue')
  <2>1. /\ arr \in Nat /\ del \in Nat /\ los \in Nat /\ w \in Nat
        /\ arr = del + queuedBytes + los /\ queuedBytes = bytes + w
    BY <1>4, <1>7, <1>8, <1>9
  <2> HIDE DEF arr, del, los, w
  <2>2. bytes \in Nat /\ queuedBytes \in Nat
    BY <1>4, <1>9
  <2>3. queuedBytes - bytes = w
    BY <2>1, <2>2
  <2>4. del + queuedBytes + los = (del + bytes) + w + los
    BY <2>1, <2>2
  <2>5. arr = (del + bytes) + w + los
    BY <2>1, <2>4, Zenon
  <2>6. QED
    BY <1>3, <2>3, <2>5 DEF arr, del, los, w
<1>11. arrived'.bytes = delivered'.bytes + queuedBytes' + dropped'.bytes
  BY <1>3, <1>7, <1>10
<1>12. queuedBytes' \in Nat /\ arrived' \in Tally /\ dropped' \in Tally
  BY <1>3, <1>4, <1>8, <1>10
<1>13. QED
  BY <1>4, <1>5, <1>7, <1>10, <1>11, <1>12 DEF BytesInv, BytesAgree

LEMMA EmptyKeepsBytes ==
  ASSUME NEW q, NEW b, NEW a, NEW d, NEW l, q = <<>>, b = 0, a = Zero, d = Zero, l = Zero
  PROVE  /\ q \in Seq(Entry) /\ b \in Nat /\ a \in Tally /\ d \in Tally /\ l \in Tally
         /\ b = Bytes(q) /\ Fits(q) /\ a.bytes = d.bytes + b + l.bytes
<1>1. Bytes(q) = 0 /\ Len(q) = 0
  BY BytesOfNothing
<1>2. QED
  BY <1>1, BufferAssumption DEF Zero, Tally, Fits

LEMMA ResetKeepsBytes ==
  ASSUME Reset
  PROVE  BytesInv'
<1>1. /\ queue' = <<>> /\ queuedBytes' = 0
      /\ arrived' = Zero /\ delivered' = Zero /\ dropped' = Zero
  BY DEF Reset
<1>2. QED
  BY <1>1, EmptyKeepsBytes DEF BytesInv, BytesAgree

LEMMA UnchangedKeepsBytes ==
  ASSUME BytesInv, UNCHANGED buffer
  PROVE  BytesInv'
BY DEF BytesInv, BytesAgree, buffer

LEMMA CleanupKeepsBytes ==
  ASSUME BytesInv, NEW upstream \in BOOLEAN, NEW closes \in BOOLEAN,
         Cleanup(upstream, closes)
  PROVE  BytesInv'
<1>1. Reset \/ UNCHANGED buffer
  BY DEF Cleanup, CleanupBegins
<1>2. QED
  BY <1>1, ResetKeepsBytes, UnchangedKeepsBytes

LEMMA BytesStep ==
  ASSUME BytesInv, [Next]_vars
  PROVE  BytesInv'
<1>1. ASSUME NEW c \in Consumers,
             StreamOpens(c) \/ StreamFails(c) \/ StreamPings(c) \/ BackoffEnds(c)
      PROVE  UNCHANGED buffer
  BY <1>1, Zenon DEF StreamOpens, StreamFails, StreamPings, BackoffEnds
<1>2. ASSUME NEW c \in Consumers, StreamDenied(c) PROVE BytesInv'
  BY <1>2, CleanupKeepsBytes, Zenon DEF StreamDenied
<1>3. ASSUME NEW c \in Consumers, NEW size \in Sizes, Message(c, size) PROVE BytesInv'
  BY <1>3, AppendKeepsBytes, Zenon DEF Message
<1>4. ASSUME NEW k \in Calls,
             \/ \E op \in Ops : CallBegins(k, op)
             \/ \E ok \in BOOLEAN, left \in BOOLEAN : CallAnswered(k, ok, left)
             \/ ConnectReturns(k) \/ SubscribeReturns(k) \/ UnsubscribeReturns(k)
             \/ CallFails(k)
      PROVE  UNCHANGED buffer
  BY <1>4, Zenon DEF CallBegins, CallAnswered, ConnectReturns, SubscribeReturns,
                     UnsubscribeReturns, CallFails
<1>5. ASSUME NEW k \in Calls, ClearReturns(k) PROVE BytesInv'
  BY <1>5, ResetKeepsBytes, Zenon DEF ClearReturns
<1>6. ASSUME NEW k \in Calls, DisconnectReturns(k) PROVE BytesInv'
  BY <1>6, CleanupKeepsBytes, Zenon DEF DisconnectReturns
<1>7. ASSUME DeadlinePasses \/ CleanupAnswered \/ CleanupSettles \/ Disable \/ Enable
      PROVE  UNCHANGED buffer
  BY <1>7, Zenon DEF DeadlinePasses, CleanupAnswered, CleanupSettles, Disable, Enable
<1>8. ASSUME ExpireIfIdle \/ Close PROVE BytesInv'
  BY <1>8, CleanupKeepsBytes, Zenon DEF ExpireIfIdle, Close
<1>9. ASSUME CleanupResumes PROVE BytesInv'
  BY <1>9, ResetKeepsBytes, Zenon DEF CleanupResumes
<1>10. CASE UNCHANGED vars
  BY <1>10, UnchangedKeepsBytes DEF vars
<1>11. QED
  BY <1>1, <1>2, <1>3, <1>4, <1>5, <1>6, <1>7, <1>8, <1>9, <1>10, PollKeepsBytes,
     UnchangedKeepsBytes, Zenon
  DEF Next

LEMMA BytesInvariant == Spec => []BytesInv
<1>1. Init => BytesInv
  <2> SUFFICES ASSUME Init PROVE BytesInv
    OBVIOUS
  <2>1. /\ queue = <<>> /\ queuedBytes = 0
        /\ arrived = Zero /\ delivered = Zero /\ dropped = Zero
    BY DEF Init
  <2>2. QED
    BY <2>1, EmptyKeepsBytes DEF BytesInv, BytesAgree
<1>2. QED
  BY <1>1, BytesStep, PTL DEF Spec

\* append, poll, clear and cleanup keep queuedBytes at what the queued messages weigh,
\* the queue within both of its bounds, and account for every byte.
THEOREM BytesStayInStep == Spec => []BytesAgree
<1>1. BytesInv => BytesAgree
  BY DEF BytesInv
<1>2. QED
  BY <1>1, BytesInvariant, PTL

-----------------------------------------------------------------------------
(* Types *)

\* The types of what neither the bytes nor the calls are about.
ControlInv ==
    /\ deadline \in {"none", "future", "past"}
    /\ desiredSse \in BOOLEAN
    /\ sseAbort \in Consumers \cup {NoConsumer}
    /\ closed \in BOOLEAN
    /\ cleanup \in {"none", "sent", "answered", "settling"}
    /\ closeBuffer \in BOOLEAN
    /\ consumer \in [Consumers -> {"idle", "opening", "reading", "waiting", "cleaning"}]
    /\ aborted \subseteq Consumers
    /\ session \in {"open", "closing", "closed"}
    /\ enabled \in BOOLEAN

\* The parts an operation leaves typed.
SseTyped ==
    /\ desiredSse \in BOOLEAN
    /\ sseAbort \in Consumers \cup {NoConsumer}
    /\ consumer \in [Consumers -> {"idle", "opening", "reading", "waiting", "cleaning"}]
    /\ aborted \subseteq Consumers

EndingTyped ==
    /\ deadline \in {"none", "future", "past"}
    /\ closed \in BOOLEAN
    /\ cleanup \in {"none", "sent", "answered", "settling"}
    /\ closeBuffer \in BOOLEAN

LEMMA ControlParts ==
  ControlInv <=> /\ SseTyped /\ EndingTyped
                 /\ session \in {"open", "closing", "closed"} /\ enabled \in BOOLEAN
BY DEF ControlInv, SseTyped, EndingTyped

LEMMA ControlPartsNext ==
  ControlInv' <=> /\ SseTyped' /\ EndingTyped'
                  /\ session' \in {"open", "closing", "closed"} /\ enabled' \in BOOLEAN
BY DEF ControlInv, SseTyped, EndingTyped

LEMMA SseUnchanged ==
  ASSUME SseTyped, UNCHANGED sse
  PROVE  SseTyped'
BY DEF SseTyped, sse

LEMMA EndingUnchanged ==
  ASSUME EndingTyped, UNCHANGED deadline, UNCHANGED ending
  PROVE  EndingTyped'
BY DEF EndingTyped, ending

LEMMA StopSseTyped ==
  ASSUME SseTyped, StopSse, UNCHANGED consumer
  PROVE  SseTyped'
BY DEF SseTyped, StopSse

LEMMA ConsumerTyped ==
  ASSUME SseTyped, NEW c \in Consumers,
         NEW at \in {"idle", "opening", "reading", "waiting", "cleaning"},
         consumer' = [consumer EXCEPT ![c] = at]
  PROVE  consumer' \in [Consumers -> {"idle", "opening", "reading", "waiting", "cleaning"}]
BY DEF SseTyped

LEMMA CleanupTyped ==
  ASSUME SseTyped, EndingTyped, NEW upstream \in BOOLEAN, NEW closes \in BOOLEAN,
         Cleanup(upstream, closes)
  PROVE  /\ desiredSse' \in BOOLEAN /\ sseAbort' \in Consumers \cup {NoConsumer}
         /\ aborted' \subseteq Consumers /\ EndingTyped'
<1>1. CASE cleanup = "none"
  <2>1. CleanupBegins(upstream, closes)
    BY <1>1 DEF Cleanup
  <2>2. /\ desiredSse' \in BOOLEAN /\ sseAbort' \in Consumers \cup {NoConsumer}
        /\ aborted' \subseteq Consumers
    BY <2>1 DEF CleanupBegins, StopSse, SseTyped
  <2>3. EndingTyped'
    BY <2>1 DEF CleanupBegins, EndingTyped
  <2>4. QED
    BY <2>2, <2>3
<1>2. CASE cleanup # "none"
  BY <1>2 DEF Cleanup, SseTyped, EndingTyped, ending
<1>3. QED
  BY <1>1, <1>2

LEMMA StreamDoneTyped ==
  ASSUME SseTyped, NEW c \in Consumers, StreamDone(c)
  PROVE  SseTyped'
BY DEF SseTyped, StreamDone

LEMMA ControlStep ==
  ASSUME ControlInv, [Next]_vars
  PROVE  ControlInv'
<1>0. /\ SseTyped /\ EndingTyped
      /\ session \in {"open", "closing", "closed"} /\ enabled \in BOOLEAN
  BY ControlParts
<1>1. ASSUME NEW c \in Consumers, StreamOpens(c) PROVE ControlInv'
  <2>1. /\ UNCHANGED <<deadline, desiredSse, sseAbort, aborted, ending, session, enabled>>
        /\ consumer' = [consumer EXCEPT ![c] = "reading"]
    BY <1>1, Zenon DEF StreamOpens
  <2>2. SseTyped'
    BY <1>0, <2>1, ConsumerTyped DEF SseTyped
  <2>3. QED
    BY <1>0, <2>1, <2>2, EndingUnchanged, ControlPartsNext
<1>2. ASSUME NEW c \in Consumers, StreamFails(c) \/ StreamPings(c) PROVE ControlInv'
  <2>1. StreamDone(c) /\ UNCHANGED <<deadline, ending, session, enabled>>
    BY <1>2, Zenon DEF StreamFails, StreamPings
  <2>2. SseTyped'
    BY <1>0, <2>1, StreamDoneTyped
  <2>3. QED
    BY <1>0, <2>1, <2>2, EndingUnchanged, ControlPartsNext
<1>3. ASSUME NEW c \in Consumers, StreamDenied(c) PROVE ControlInv'
  <2>1. /\ Cleanup(FALSE, FALSE) /\ UNCHANGED <<session, enabled>>
        /\ consumer' = [consumer EXCEPT ![c] = "cleaning"]
    BY <1>3, Zenon DEF StreamDenied
  <2>2. SseTyped' /\ EndingTyped'
    BY <1>0, <2>1, ConsumerTyped, CleanupTyped DEF SseTyped
  <2>3. QED
    BY <1>0, <2>1, <2>2, ControlPartsNext
<1>4. ASSUME NEW c \in Consumers, BackoffEnds(c) PROVE ControlInv'
  <2>1. UNCHANGED <<deadline, desiredSse, ending, session, enabled>>
    BY <1>4, Zenon DEF BackoffEnds
  <2>2. SseTyped'
    BY <1>0, <1>4, ConsumerTyped DEF SseTyped, BackoffEnds
  <2>3. QED
    BY <1>0, <2>1, <2>2, EndingUnchanged, ControlPartsNext
<1>5. ASSUME UNCHANGED <<deadline, sse, ending, session, enabled>> PROVE ControlInv'
  BY <1>0, <1>5, SseUnchanged, EndingUnchanged, ControlPartsNext
<1>6. ASSUME NEW c \in Consumers, NEW size \in Sizes, Message(c, size) PROVE ControlInv'
  BY <1>5, <1>6, Zenon DEF Message
<1>7. ASSUME NEW k \in Calls,
             \/ \E op \in Ops : CallBegins(k, op)
             \/ \E ok \in BOOLEAN, left \in BOOLEAN : CallAnswered(k, ok, left)
             \/ ClearReturns(k) \/ CallFails(k)
      PROVE  ControlInv'
  BY <1>5, <1>7, Zenon DEF CallBegins, CallAnswered, ClearReturns, CallFails
<1>8. ASSUME UNCHANGED <<sse, ending, session, enabled>>,
             deadline' \in {"none", "future", "past"}
      PROVE  ControlInv'
  <2>1. EndingTyped'
    BY <1>0, <1>8 DEF EndingTyped, ending
  <2>2. QED
    BY <1>0, <1>8, <2>1, SseUnchanged, ControlPartsNext
<1>9. StartActivityDeadline => deadline' \in {"none", "future", "past"}
  BY <1>0 DEF StartActivityDeadline, EndingTyped
<1>10. ASSUME NEW k \in Calls,
              ConnectReturns(k) \/ \E n \in 1..MaxPoll : PollReturns(k, n)
       PROVE  ControlInv'
  BY <1>8, <1>9, <1>10, Zenon DEF ConnectReturns, PollReturns
<1>11. ASSUME NEW k \in Calls, SubscribeReturns(k) PROVE ControlInv'
  <2>1. EnsureSse /\ StartActivityDeadline /\ UNCHANGED <<ending, session, enabled>>
    BY <1>11, Zenon DEF SubscribeReturns
  <2>2. SseTyped'
    <3>1. CASE closed \/ desiredSse
      BY <1>0, <2>1, <3>1, SseUnchanged DEF EnsureSse
    <3>2. CASE ~(closed \/ desiredSse)
      BY <1>0, <2>1, <3>2, ConsumerTyped DEF EnsureSse, SseTyped
    <3>3. QED
      BY <3>1, <3>2
  <2>3. EndingTyped'
    BY <1>0, <1>9, <2>1 DEF EndingTyped, ending
  <2>4. QED
    BY <1>0, <2>1, <2>2, <2>3, ControlPartsNext
<1>12. ASSUME NEW k \in Calls, UnsubscribeReturns(k) PROVE ControlInv'
  <2>1. /\ UNCHANGED sse \/ (StopSse /\ UNCHANGED consumer)
        /\ UNCHANGED <<deadline, ending, session, enabled>>
    BY <1>12, Zenon DEF UnsubscribeReturns
  <2>2. SseTyped'
    BY <1>0, <2>1, SseUnchanged, StopSseTyped
  <2>3. QED
    BY <1>0, <2>1, <2>2, EndingUnchanged, ControlPartsNext
<1>13. ASSUME Cleanup(FALSE, FALSE) \/ Cleanup(TRUE, FALSE) \/ Cleanup(TRUE, TRUE),
              UNCHANGED <<consumer, enabled>>, session' \in {"open", "closing", "closed"}
       PROVE  ControlInv'
  <2>1. SseTyped' /\ EndingTyped'
    BY <1>0, <1>13, CleanupTyped DEF SseTyped
  <2>2. QED
    BY <1>0, <1>13, <2>1, ControlPartsNext
<1>14. ASSUME NEW k \in Calls, DisconnectReturns(k) PROVE ControlInv'
  BY <1>0, <1>13, <1>14 DEF DisconnectReturns
<1>15. ASSUME ExpireIfIdle \/ Close PROVE ControlInv'
  BY <1>0, <1>13, <1>15 DEF ExpireIfIdle, Close
<1>16. ASSUME DeadlinePasses PROVE ControlInv'
  BY <1>8, <1>16 DEF DeadlinePasses
<1>17. ASSUME CleanupAnswered PROVE ControlInv'
  <2>1. UNCHANGED <<deadline, sse, closed, closeBuffer, session, enabled>> /\ cleanup' = "answered"
    BY <1>17, Zenon DEF CleanupAnswered
  <2>2. EndingTyped'
    BY <1>0, <2>1 DEF EndingTyped
  <2>3. QED
    BY <1>0, <2>1, <2>2, SseUnchanged, ControlPartsNext
<1>18. ASSUME CleanupResumes PROVE ControlInv'
  <2>1. /\ UNCHANGED <<closeBuffer, sse, session, enabled>> /\ cleanup' = "settling"
        /\ deadline' = "none" /\ closed' = (closed \/ closeBuffer)
    BY <1>18, Zenon DEF CleanupResumes
  <2>2. EndingTyped'
    BY <1>0, <2>1 DEF EndingTyped
  <2>3. QED
    BY <1>0, <2>1, <2>2, SseUnchanged, ControlPartsNext
<1>19. ASSUME CleanupSettles PROVE ControlInv'
  <2>1. EndingTyped'
    BY <1>0, <1>19 DEF CleanupSettles, EndingTyped
  <2>2. SseTyped'
    BY <1>0, <1>19 DEF CleanupSettles, SseTyped
  <2>3. session' \in {"open", "closing", "closed"} /\ enabled' = enabled
    BY <1>0, <1>19 DEF CleanupSettles
  <2>4. QED
    BY <1>0, <2>1, <2>2, <2>3, ControlPartsNext
<1>20. ASSUME Disable \/ Enable PROVE ControlInv'
  <2>1. UNCHANGED <<deadline, sse, ending, session>> /\ enabled' \in BOOLEAN
    BY <1>20 DEF Disable, Enable
  <2>2. QED
    BY <1>0, <2>1, SseUnchanged, EndingUnchanged, ControlPartsNext
<1>21. CASE UNCHANGED vars
  BY <1>5, <1>21 DEF vars
<1>22. QED
  BY <1>1, <1>2, <1>3, <1>4, <1>6, <1>7, <1>10, <1>11, <1>12, <1>14, <1>15, <1>16,
     <1>17, <1>18, <1>19, <1>20, <1>21, Zenon
  DEF Next

LEMMA ControlInvariant == Spec => []ControlInv
<1>1. Init => ControlInv
  BY DEF Init, ControlInv
<1>2. QED
  BY <1>1, ControlStep, PTL DEF Spec

\* Whatever calls, streams and cleanups overlap, every field keeps its type; that
\* the count of queued bytes, which poll and append subtract from, never falls below
\* zero takes the agreement of the bytes.
THEOREM TypeCorrect == Spec => []TypeOK
<1>1. BytesInv /\ ControlInv /\ PollInv => TypeOK
  BY DEF BytesInv, ControlInv, PollInv, TypeOK
<1>2. QED
  BY <1>1, BytesInvariant, ControlInvariant, PollInvariant, PTL
=============================================================================
