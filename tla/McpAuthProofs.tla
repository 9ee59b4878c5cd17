--------------------------- MODULE McpAuthProofs ---------------------------
(* Invariance proofs for McpAuth, for every value of its constants. *)
EXTENDS McpAuth, FiniteSetTheorems, TLAPS

-----------------------------------------------------------------------------
(* Types *)

\* The type of a request in progress, in the parts an action changes.
LEMMA RefuseType ==
  ASSUME TypeOK, NEW r \in Requests, Refuse(r)
  PROVE  /\ request' \in [Requests -> RequestRecord]
         /\ \A s \in Requests : request'[s].at # "idle" => request'[s].jti \in signed
<1>1. IdleRequest \in RequestRecord /\ IdleRequest.at = "idle"
  BY DEF IdleRequest, RequestRecord, Stages
<1>2. QED
  BY <1>1 DEF TypeOK, Refuse

\* A request that goes on keeps its proof.
LEMMA MoveType ==
  ASSUME TypeOK, NEW r \in Requests, request[r].at # "idle", NEW at \in Stages,
         request' = [request EXCEPT ![r].at = at]
  PROVE  /\ request' \in [Requests -> RequestRecord]
         /\ \A s \in Requests : request'[s].at # "idle" => request'[s].jti \in signed
<1>1. PICK q \in RequestRecord : q = request[r]
  BY DEF TypeOK
<1>2. [q EXCEPT !.at = at] \in RequestRecord /\ [q EXCEPT !.at = at].jti = q.jti
  BY <1>1 DEF RequestRecord
<1>3. QED
  BY <1>1, <1>2 DEF TypeOK

LEMMA InitType == ASSUME Init PROVE TypeOK
<1>1. IdleRequest \in RequestRecord /\ IdleRequest.at = "idle"
  BY DEF IdleRequest, RequestRecord, Stages
<1>2. IdleUpdate \in UpdateRecord
  BY DEF IdleUpdate, UpdateRecord, NoAccess, Access
<1>3. [disabled |-> FALSE, capabilities |-> Capabilities] \in Access
  BY DEF Access
<1>4. DOMAIN replayCache \subseteq Jtis /\ replayCache \in [DOMAIN replayCache -> Int]
  BY DEF Init
<1>5. /\ now \in Nat /\ signed \subseteq Jtis /\ iat \in [Jtis -> Int]
      /\ allowed \subseteq Capabilities /\ accepted \subseteq Jtis
  BY DEF Init
<1>6. disabled \in BOOLEAN /\ access \in Access /\ settled \in BOOLEAN
  BY <1>3, Zenon DEF Init
<1>7. /\ request \in [Requests -> RequestRecord]
      /\ \A r \in Requests : request[r].at # "idle" => request[r].jti \in signed
  BY <1>1 DEF Init
<1>8. update \in [Updates -> UpdateRecord]
  BY <1>2 DEF Init
<1>9. QED
  BY <1>4, <1>5, <1>6, <1>7, <1>8 DEF TypeOK

LEMMA StepType == ASSUME TypeOK, [Next]_vars PROVE TypeOK'
<1>1. CASE Tick
  BY <1>1 DEF Tick, TypeOK, database, history
<1>2. ASSUME NEW j \in Jtis, NEW drift \in -MaxDrift..MaxDrift, Sign(j, now + drift)
      PROVE  TypeOK'
  <2>1. now + drift \in Int
    BY AuthAssumption DEF TypeOK
  <2>2. QED
    BY <1>2, <2>1 DEF Sign, TypeOK, database, history
<1>3. ASSUME NEW r \in Requests, NEW j \in Jtis, NEW bound \in BOOLEAN, Deliver(r, j, bound)
      PROVE  TypeOK'
  <2> DEFINE q == [IdleRequest EXCEPT !.at = "body", !.jti = j, !.bound = bound]
  <2>1. q \in RequestRecord /\ q.jti = j
    BY DEF IdleRequest, RequestRecord, Stages
  <2>2. j \in signed /\ request' = [request EXCEPT ![r] = q]
    BY <1>3 DEF Deliver
  <2> HIDE DEF q
  <2>3. QED
    BY <1>3, <2>1, <2>2 DEF Deliver, TypeOK, database, history, proofs
<1>4. ASSUME NEW r \in Requests, Accept(r)
      PROVE  TypeOK'
  <2> DEFINE j == request[r].jti
  <2>1. PICK q \in RequestRecord : q = request[r]
    BY DEF TypeOK
  <2>2. q.at = "body" /\ j \in signed /\ j \in Jtis
    BY <1>4, <2>1 DEF Accept, TypeOK
  <2>3. [q EXCEPT !.at = "user", !.settled = settled] \in RequestRecord
    BY <2>1 DEF RequestRecord, Stages, TypeOK
  <2>4. [q EXCEPT !.at = "user", !.settled = settled].jti = q.jti
    BY <2>1 DEF RequestRecord
  <2>5. request' = [request EXCEPT ![r] = [q EXCEPT !.at = "user", !.settled = settled]]
    BY <1>4, <2>1 DEF Accept, TypeOK
  <2>6. /\ request' \in [Requests -> RequestRecord]
        /\ \A s \in Requests : request'[s].at # "idle" => request'[s].jti \in signed
    BY <2>1, <2>2, <2>3, <2>4, <2>5 DEF TypeOK
  <2>7. Exp(j) + ClockSkewSeconds \in Int
    BY <2>2, AuthAssumption DEF Exp, TypeOK
  <2>8. /\ DOMAIN Kept \subseteq DOMAIN replayCache
        /\ \A k \in DOMAIN Kept : Kept[k] \in Int
    BY DEF Kept, TypeOK
  <2>9. replayCache' = [k \in DOMAIN Kept \cup {j} |->
                          IF k = j THEN Exp(j) + ClockSkewSeconds ELSE Kept[k]]
    BY <1>4 DEF Accept, Remember
  <2> HIDE DEF j
  <2>10. DOMAIN replayCache' \subseteq Jtis /\ replayCache' \in [DOMAIN replayCache' -> Int]
    BY <2>2, <2>7, <2>8, <2>9 DEF TypeOK
  <2>11. accepted' \subseteq Jtis
    BY <1>4, <2>2 DEF Accept, TypeOK, j
  <2>12. QED
    BY <1>4, <2>6, <2>10, <2>11 DEF Accept, TypeOK, database, history, proofs
<1>5. ASSUME NEW r \in Requests, RefuseClaims(r)
      PROVE  TypeOK'
  BY <1>5, RefuseType DEF RefuseClaims, TypeOK, database, history, proofs
<1>6. ASSUME NEW r \in Requests, RefuseCached(r)
      PROVE  TypeOK'
  <2>1. DOMAIN Kept \subseteq Jtis /\ Kept \in [DOMAIN Kept -> Int]
    BY DEF Kept, TypeOK
  <2>2. QED
    BY <1>6, <2>1, RefuseType DEF RefuseCached, TypeOK, database, history, proofs
<1>7. ASSUME NEW r \in Requests, UserRead(r)
      PROVE  TypeOK'
  BY <1>7, RefuseType, MoveType DEF UserRead, TypeOK, database, history, proofs, Stages
<1>8. ASSUME NEW r \in Requests, CapabilitiesRead(r)
      PROVE  TypeOK'
  <2>1. PICK q \in RequestRecord : q = request[r]
    BY DEF TypeOK
  <2> DEFINE q2 == [q EXCEPT !.at = "granted", !.capabilities = allowed]
  <2>2. q2 \in RequestRecord /\ q2.jti = q.jti
    BY <2>1 DEF RequestRecord, Stages, TypeOK
  <2>3. q.at = "capabilities" /\ request' = [request EXCEPT ![r] = q2]
    BY <1>8, <2>1 DEF CapabilitiesRead, TypeOK
  <2> HIDE DEF q2
  <2>4. QED
    BY <1>8, <2>1, <2>2, <2>3 DEF CapabilitiesRead, TypeOK, database, history, proofs
<1>9. ASSUME NEW r \in Requests, ReadFails(r)
      PROVE  TypeOK'
  BY <1>9, RefuseType DEF ReadFails, TypeOK, database, history, proofs
<1>10. ASSUME NEW r \in Requests, StreamOpens(r)
       PROVE  TypeOK'
  BY <1>10, MoveType DEF StreamOpens, TypeOK, database, history, proofs, Stages
<1>11. ASSUME NEW r \in Requests, RequestEnds(r)
       PROVE  TypeOK'
  BY <1>11, RefuseType DEF RequestEnds, TypeOK, database, history, proofs
<1>12. ASSUME NEW r \in Requests, RecheckBegins(r)
       PROVE  TypeOK'
  BY <1>12, MoveType DEF RecheckBegins, TypeOK, database, history, proofs, Stages
<1>13. ASSUME NEW r \in Requests, RecheckUser(r)
       PROVE  TypeOK'
  BY <1>13, RefuseType, MoveType DEF RecheckUser, TypeOK, database, history, proofs, Stages
<1>14. ASSUME NEW r \in Requests, RecheckCapabilities(r)
       PROVE  TypeOK'
  BY <1>14, RefuseType, MoveType
     DEF RecheckCapabilities, TypeOK, database, history, proofs, Stages
<1>15. ASSUME NEW u \in Updates, NEW input \in Access, UpdateBegins(u, input)
       PROVE  TypeOK'
  <2> DEFINE idle == \A v \in Updates : ~update[v].busy
             new == [busy |-> TRUE, input |-> input, pending |-> {"user", "setting"},
                     failed |-> FALSE, alone |-> idle]
  <2>1. idle \in BOOLEAN
    OBVIOUS
  <2>2. new \in UpdateRecord
    BY <2>1 DEF UpdateRecord
  <2>3. \A v \in Updates : [update[v] EXCEPT !.alone = FALSE] \in UpdateRecord
    BY DEF TypeOK, UpdateRecord
  <2>4. update' = [v \in Updates |-> IF v = u THEN new ELSE [update[v] EXCEPT !.alone = FALSE]]
    BY <1>15 DEF UpdateBegins
  <2>5. \A q \in RequestRecord : /\ [q EXCEPT !.settled = FALSE] \in RequestRecord
                                 /\ [q EXCEPT !.settled = FALSE].jti = q.jti
                                 /\ [q EXCEPT !.settled = FALSE].at = q.at
    BY DEF RequestRecord
  <2>6. request' = [r \in Requests |-> [request[r] EXCEPT !.settled = FALSE]]
    BY <1>15 DEF UpdateBegins
  <2> HIDE DEF new
  <2>7. update' \in [Updates -> UpdateRecord]
    BY <2>2, <2>3, <2>4
  <2>8. /\ request' \in [Requests -> RequestRecord]
        /\ \A r \in Requests : request'[r].at # "idle" => request'[r].jti \in signed
    BY <2>5, <2>6 DEF TypeOK
  <2>9. QED
    BY <1>15, <2>7, <2>8 DEF UpdateBegins, TypeOK, database, proofs
<1>16. ASSUME NEW u \in Updates, WriteUser(u)
       PROVE  TypeOK'
  <2>1. PICK q \in UpdateRecord : q = update[u]
    BY DEF TypeOK
  <2>2. [q EXCEPT !.pending = @ \ {"user"}] \in UpdateRecord /\ q.input.disabled \in BOOLEAN
    BY <2>1 DEF UpdateRecord, Access
  <2>3. QED
    BY <1>16, <2>1, <2>2 DEF WriteUser, TypeOK, history, proofs
<1>17. ASSUME NEW u \in Updates, WriteSetting(u)
       PROVE  TypeOK'
  <2>1. PICK q \in UpdateRecord : q = update[u]
    BY DEF TypeOK
  <2>2. /\ [q EXCEPT !.pending = @ \ {"setting"}] \in UpdateRecord
        /\ q.input.capabilities \subseteq Capabilities
    BY <2>1 DEF UpdateRecord, Access
  <2>3. QED
    BY <1>17, <2>1, <2>2 DEF WriteSetting, TypeOK, history, proofs
<1>18. ASSUME NEW u \in Updates, NEW part \in {"user", "setting"}, WriteFails(u, part)
       PROVE  TypeOK'
  <2>1. PICK q \in UpdateRecord : q = update[u]
    BY DEF TypeOK
  <2>2. [q EXCEPT !.pending = @ \ {part}, !.failed = TRUE] \in UpdateRecord
    BY <2>1 DEF UpdateRecord
  <2>3. update' = [update EXCEPT ![u] = [q EXCEPT !.pending = @ \ {part}, !.failed = TRUE]]
    BY <1>18, <2>1 DEF WriteFails, TypeOK
  <2>4. QED
    BY <1>18, <2>2, <2>3 DEF WriteFails, TypeOK, database, history, proofs
<1>19. ASSUME NEW u \in Updates, UpdateReturns(u)
       PROVE  TypeOK'
  <2>1. IdleUpdate \in UpdateRecord
    BY DEF IdleUpdate, UpdateRecord, NoAccess, Access
  <2>2. update[u].input \in Access
    BY DEF TypeOK, UpdateRecord
  <2>3. QED
    BY <1>19, <2>1, <2>2 DEF UpdateReturns, TypeOK, database, history, proofs
<1>20. CASE Restart
  <2>1. IdleRequest \in RequestRecord /\ IdleRequest.at = "idle"
    BY DEF IdleRequest, RequestRecord, Stages
  <2>2. IdleUpdate \in UpdateRecord
    BY DEF IdleUpdate, UpdateRecord, NoAccess, Access
  <2>3. QED
    BY <1>20, <2>1, <2>2 DEF Restart, TypeOK, database, history, proofs
<1>21. CASE UNCHANGED vars
  BY <1>21 DEF vars, TypeOK, database, history, proofs
<1>22. QED
  BY <1>1, <1>2, <1>3, <1>4, <1>5, <1>6, <1>7, <1>8, <1>9, <1>10, <1>11, <1>12, <1>13,
     <1>14, <1>15, <1>16, <1>17, <1>18, <1>19, <1>20, <1>21, Zenon DEF Next

\* Every variable keeps its type, and a request in progress carries a proof that
\* the MCP server has signed.
THEOREM TypeCorrect == Spec => []TypeOK
<1>1. Init => TypeOK
  BY InitType
<1>2. TypeOK /\ [Next]_vars => TypeOK'
  BY StepType
<1>3. QED
  BY <1>1, <1>2, PTL DEF Spec

-----------------------------------------------------------------------------
(* The replay cache *)

\* The cache holds accepted proofs, each until its window has closed; a proof that
\* was accepted and is no longer held can never be accepted again.
CacheInv ==
    /\ TypeOK
    /\ accepted \subseteq signed
    /\ DOMAIN replayCache \subseteq accepted
    /\ \A j \in DOMAIN replayCache : replayCache[j] = Exp(j) + ClockSkewSeconds
    /\ \A j \in accepted : j \in DOMAIN replayCache \/ Exp(j) + ClockSkewSeconds < now

\* After a purge the cache holds exactly the accepted proofs whose window is open.
LEMMA KeptIsLive ==
  ASSUME CacheInv
  PROVE  /\ DOMAIN Kept = {k \in accepted : Exp(k) + ClockSkewSeconds >= now}
         /\ \A j \in DOMAIN Kept : Kept[j] = Exp(j) + ClockSkewSeconds
<1>1. DOMAIN Kept = DOMAIN replayCache \ Purged
  BY DEF Kept
<1>2. \A j \in DOMAIN Kept : Kept[j] = replayCache[j]
  BY DEF Kept
<1>3. \A j \in Jtis : Exp(j) \in Int
  BY AuthAssumption DEF CacheInv, TypeOK, Exp
<1>4. now \in Nat /\ ClockSkewSeconds \in Nat /\ accepted \subseteq Jtis
  BY AuthAssumption DEF CacheInv, TypeOK
<1>5. QED
  BY <1>1, <1>2, <1>3, <1>4 DEF CacheInv, Purged

\* An operation that touches neither the proofs nor the cache.
CacheQuiet == UNCHANGED <<now, signed, iat, replayCache, accepted>>

LEMMA CacheQuietKeeps == ASSUME CacheInv, CacheQuiet, TypeOK' PROVE CacheInv'
  BY DEF CacheInv, CacheQuiet, Exp

\* What each action that is not quiet does to the cache.
LEMMA CacheStep == ASSUME CacheInv, [Next]_vars PROVE CacheInv'
<1>0. TypeOK'
  BY StepType DEF CacheInv
<1>1. CASE Tick
  <2>1. now' = now + 1 /\ UNCHANGED <<signed, iat, replayCache, accepted>>
    BY <1>1 DEF Tick
  <2>2. \A j \in accepted : Exp(j) + ClockSkewSeconds \in Int
    BY AuthAssumption DEF CacheInv, TypeOK, Exp
  <2>3. now \in Nat
    BY DEF CacheInv, TypeOK
  <2>4. \A j \in Jtis : Exp(j)' = Exp(j)
    BY <2>1 DEF Exp
  <2>5. \A j \in accepted : Exp(j)' + ClockSkewSeconds < now'
                              \/ j \in DOMAIN replayCache
    BY <2>1, <2>2, <2>3, <2>4 DEF CacheInv, TypeOK
  <2>6. QED
    BY <1>0, <2>1, <2>4, <2>5 DEF CacheInv, TypeOK
<1>2. ASSUME NEW j \in Jtis, NEW drift \in -MaxDrift..MaxDrift, Sign(j, now + drift)
      PROVE  CacheInv'
  <2>1. /\ j \notin signed /\ signed' = signed \cup {j}
        /\ iat' = [iat EXCEPT ![j] = now + drift]
        /\ UNCHANGED <<now, replayCache, accepted>>
    BY <1>2 DEF Sign
  <2>2. \A k \in accepted : Exp(k)' = Exp(k)
    BY <2>1 DEF CacheInv, TypeOK, Exp
  <2>3. QED
    BY <1>0, <2>1, <2>2 DEF CacheInv
<1>3. ASSUME NEW r \in Requests, Accept(r)
      PROVE  CacheInv'
  <2> DEFINE j == request[r].jti
  <2>1. /\ UNCHANGED <<now, signed, iat>>
        /\ accepted' = accepted \cup {j}
        /\ replayCache' = [k \in DOMAIN Kept \cup {j} |->
                              IF k = j THEN Exp(j) + ClockSkewSeconds ELSE Kept[k]]
    BY <1>3 DEF Accept, Remember, proofs
  <2>2. j \in signed
    BY <1>3 DEF Accept, CacheInv, TypeOK
  <2>3. \A k \in Jtis : Exp(k)' = Exp(k)
    BY <2>1 DEF Exp
  <2>4. /\ accepted \subseteq Jtis /\ now \in Nat
        /\ \A k \in accepted : Exp(k) + ClockSkewSeconds \in Int
    BY AuthAssumption DEF CacheInv, TypeOK, Exp
  <2> HIDE DEF j
  <2>5. DOMAIN replayCache' = DOMAIN Kept \cup {j}
    BY <2>1
  <2>6. \A k \in DOMAIN replayCache' : replayCache'[k] = Exp(k) + ClockSkewSeconds
    BY <2>1, <2>5, KeptIsLive
  <2>7. \A k \in accepted' : k \in DOMAIN replayCache' \/ Exp(k) + ClockSkewSeconds < now
    BY <2>1, <2>4, <2>5, KeptIsLive
  <2>8. j \in Jtis /\ DOMAIN replayCache' \subseteq accepted' /\ accepted' \subseteq signed
    BY <2>1, <2>2, <2>5, KeptIsLive DEF CacheInv, TypeOK
  <2>9. accepted' \subseteq Jtis
    BY <2>1, <2>4, <2>8
  <2>10. QED
    BY <1>0, <2>1, <2>3, <2>6, <2>7, <2>8, <2>9 DEF CacheInv
<1>4. ASSUME NEW r \in Requests, RefuseCached(r)
      PROVE  CacheInv'
  <2>1. replayCache' = Kept /\ UNCHANGED <<now, signed, iat, accepted>>
    BY <1>4 DEF RefuseCached, proofs
  <2>2. \A k \in Jtis : Exp(k)' = Exp(k)
    BY <2>1 DEF Exp
  <2>3. /\ accepted \subseteq Jtis /\ now \in Nat
        /\ \A k \in accepted : Exp(k) + ClockSkewSeconds \in Int
    BY AuthAssumption DEF CacheInv, TypeOK, Exp
  <2>4. \A k \in accepted : k \in DOMAIN Kept \/ Exp(k) + ClockSkewSeconds < now
    BY <2>3, KeptIsLive
  <2>5. DOMAIN Kept \subseteq accepted
    BY KeptIsLive
  <2>6. QED
    BY <1>0, <2>1, <2>2, <2>3, <2>4, <2>5, KeptIsLive DEF CacheInv
<1>5. CASE Restart
  <2>1. replayCache' = [j \in {} |-> 0] /\ accepted' = {}
    BY <1>5 DEF Restart
  <2>2. DOMAIN replayCache' = {}
    BY <2>1
  <2>3. QED
    BY <1>0, <2>1, <2>2 DEF CacheInv
<1>6. ASSUME NEW r \in Requests,
             \/ \E j \in Jtis, bound \in BOOLEAN : Deliver(r, j, bound)
             \/ RefuseClaims(r) \/ UserRead(r) \/ CapabilitiesRead(r) \/ ReadFails(r)
             \/ StreamOpens(r) \/ RequestEnds(r)
             \/ RecheckBegins(r) \/ RecheckUser(r) \/ RecheckCapabilities(r)
      PROVE  CacheInv'
  <2>1. CacheQuiet
    BY <1>6, Zenon DEF CacheQuiet, proofs, Deliver, RefuseClaims, UserRead,
       CapabilitiesRead, ReadFails, StreamOpens, RequestEnds, RecheckBegins, RecheckUser, RecheckCapabilities
  <2>2. QED
    BY <1>0, <2>1, CacheQuietKeeps
<1>7. ASSUME NEW u \in Updates,
             \/ \E input \in Access : UpdateBegins(u, input)
             \/ WriteUser(u) \/ WriteSetting(u) \/ UpdateReturns(u)
             \/ \E part \in {"user", "setting"} : WriteFails(u, part)
      PROVE  CacheInv'
  <2>1. CacheQuiet
    BY <1>7, Zenon DEF CacheQuiet, proofs, UpdateBegins, WriteUser, WriteSetting, UpdateReturns,
       WriteFails
  <2>2. QED
    BY <1>0, <2>1, CacheQuietKeeps
<1>8. CASE UNCHANGED vars
  BY <1>0, <1>8, CacheQuietKeeps DEF CacheQuiet, vars, proofs
<1>9. QED
  BY <1>1, <1>2, <1>3, <1>4, <1>5, <1>6, <1>7, <1>8, Zenon DEF Next

LEMMA CacheInvariant == Spec => []CacheInv
<1>1. Init => CacheInv
  <2>1. ASSUME Init PROVE accepted = {} /\ DOMAIN replayCache = {}
    BY <2>1 DEF Init
  <2>2. QED
    BY <2>1, InitType DEF CacheInv
<1>2. CacheInv /\ [Next]_vars => CacheInv'
  BY CacheStep
<1>3. QED
  BY <1>1, <1>2, PTL DEF Spec

\* Only Accept takes a request over the check of its proof.
LEMMA OnlyAccept ==
  ASSUME TypeOK, [Next]_vars, NEW r \in Requests,
         request[r].at = "body", request'[r].at = "user"
  PROVE  Accept(r)
<1>1. request \in [Requests -> RequestRecord] /\ IdleRequest.at = "idle"
  BY DEF TypeOK, IdleRequest
<1>2. ASSUME NEW s \in Requests, Accept(s) PROVE Accept(r)
  BY <1>1, <1>2 DEF Accept
<1>3. ASSUME NEW s \in Requests, Refuse(s) PROVE FALSE
  BY <1>1, <1>3 DEF Refuse
<1>4. ASSUME NEW s \in Requests, NEW at \in Stages, at # "user",
             request' = [request EXCEPT ![s].at = at]
      PROVE  FALSE
  BY <1>1, <1>4
<1>5. ASSUME NEW s \in Requests, NEW j \in Jtis, NEW bound \in BOOLEAN, Deliver(s, j, bound)
      PROVE  FALSE
  <2>1. [IdleRequest EXCEPT !.at = "body", !.jti = j, !.bound = bound].at = "body"
    BY DEF IdleRequest
  <2>2. QED
    BY <1>1, <1>5, <2>1 DEF Deliver
<1>6. ASSUME NEW s \in Requests, UserRead(s) \/ RecheckUser(s) \/ RecheckCapabilities(s)
      PROVE  FALSE
  BY <1>3, <1>4, <1>6 DEF UserRead, RecheckUser, RecheckCapabilities, Stages
<1>7. ASSUME NEW s \in Requests,
             RefuseClaims(s) \/ RefuseCached(s) \/ ReadFails(s) \/ RequestEnds(s)
      PROVE  FALSE
  BY <1>3, <1>7 DEF RefuseClaims, RefuseCached, ReadFails, RequestEnds
<1>8. ASSUME NEW s \in Requests, StreamOpens(s) \/ RecheckBegins(s)
      PROVE  FALSE
  BY <1>4, <1>8 DEF StreamOpens, RecheckBegins, Stages
<1>9. ASSUME NEW s \in Requests, CapabilitiesRead(s) PROVE FALSE
  BY <1>1, <1>9 DEF CapabilitiesRead
<1>10. ASSUME NEW u \in Updates, NEW input \in Access, UpdateBegins(u, input) PROVE FALSE
  <2>1. request'[r] = [request[r] EXCEPT !.settled = FALSE]
    BY <1>10, Zenon DEF UpdateBegins
  <2>2. request'[r].at = request[r].at
    BY <1>1, <2>1 DEF RequestRecord
  <2>3. QED  BY <2>2
<1>11. ASSUME UNCHANGED request PROVE FALSE
  BY <1>11
<1>12. ASSUME NEW u \in Updates,
              \/ WriteUser(u) \/ WriteSetting(u) \/ UpdateReturns(u)
              \/ \E part \in {"user", "setting"} : WriteFails(u, part)
       PROVE  FALSE
  BY <1>11, <1>12, Zenon DEF WriteUser, WriteSetting, UpdateReturns, WriteFails
<1>13. CASE Tick \/ UNCHANGED vars
  BY <1>11, <1>13 DEF Tick, vars
<1>14. ASSUME NEW j \in Jtis, NEW clock, Sign(j, clock) PROVE FALSE
  BY <1>11, <1>14 DEF Sign
<1>15. CASE Restart
  BY <1>1, <1>15 DEF Restart
<1>16. QED
  BY <1>2, <1>5, <1>6, <1>7, <1>8, <1>9, <1>10, <1>12, <1>13, <1>14, <1>15, Zenon DEF Next

\* A process accepts a proof at most once (rememberJti), for every window, skew,
\* drift of the clocks and size of the cache, however often the proof is delivered.
THEOREM AcceptedOnce == Spec => NoReplay
<1>1. ASSUME CacheInv, [Next]_vars, NEW r \in Requests,
             request[r].at = "body", request'[r].at = "user"
      PROVE  request[r].jti \notin accepted
  <2> DEFINE j == request[r].jti
  <2>1. Accept(r)
    BY <1>1, OnlyAccept DEF CacheInv
  <2>2. j \in signed /\ InWindow(j) /\ j \notin DOMAIN Kept
    BY <1>1, <2>1 DEF Accept, CacheInv, TypeOK
  <2>3. Exp(j) \in Int /\ now \in Nat /\ ClockSkewSeconds \in Nat
    BY <1>1, <2>2, AuthAssumption DEF CacheInv, TypeOK, Exp
  <2> HIDE DEF j
  <2>4. Exp(j) + ClockSkewSeconds >= now
    BY <2>2, <2>3 DEF InWindow
  <2>5. j \notin accepted
    BY <1>1, <2>2, <2>4, KeptIsLive
  <2>6. QED
    BY <2>5 DEF j
<1>2. CacheInv /\ [Next]_vars =>
        [\A r \in Requests : (request[r].at = "body" /\ request'[r].at = "user")
                               => request[r].jti \notin accepted]_vars
  BY <1>1
<1>3. QED
  BY <1>2, CacheInvariant, PTL DEF Spec, NoReplay

\* A proof that was not used meets no obstacle but a cache full of accepted proofs
\* whose window is open (purgeReplayCache, and validateClaims which remembers a
\* proof only when every other check has passed).
THEOREM UnusedProofsAreFree == Spec => []FirstUseIsFree
<1>1. ASSUME CacheInv PROVE FirstUseIsFree
  <2> DEFINE live == {k \in accepted : Exp(k) + ClockSkewSeconds >= now}
  <2>1. DOMAIN Kept = live /\ live \subseteq accepted
    BY <1>1, KeptIsLive
  <2>2. IsFiniteSet(live)
    BY <1>1, AuthAssumption, FS_Subset DEF CacheInv, TypeOK
  <2>3. Cardinality(live) \in Nat
    BY <2>2, FS_CardinalityType
  <2> HIDE DEF live
  <2>4. HasRoom \/ ReplayCacheMaxEntries <= Cardinality(live)
    BY <2>1, <2>3, AuthAssumption DEF HasRoom
  <2>5. \A j \in signed \ accepted : j \notin DOMAIN Kept
    BY <2>1
  <2>6. QED
    BY <2>4, <2>5 DEF FirstUseIsFree, live
<1>2. QED
  BY <1>1, CacheInvariant, PTL

\* The cache holds at most replayCacheMaxEntries proofs (rememberJti's limit).
THEOREM CacheStaysBounded == Spec => []CacheBounded
<1> DEFINE Bounded == CacheInv /\ CacheBounded
<1>1. Init => Bounded
  <2>1. ASSUME Init PROVE accepted = {} /\ DOMAIN replayCache = {}
    BY <2>1 DEF Init
  <2>2. QED
    BY <2>1, InitType, FS_EmptySet, AuthAssumption DEF CacheInv, CacheBounded
<1>2. Bounded /\ [Next]_vars => Bounded'
  <2> SUFFICES ASSUME CacheInv, CacheBounded, [Next]_vars PROVE CacheBounded'
    BY CacheStep
  <2>1. ASSUME NEW r \in Requests, Accept(r) PROVE CacheBounded'
    <3> DEFINE kept == DOMAIN Kept
               j == request[r].jti
    <3>1. DOMAIN replayCache' = kept \cup {j} /\ Cardinality(kept) < ReplayCacheMaxEntries
      BY <2>1 DEF Accept, Remember, HasRoom
    <3>2. IsFiniteSet(kept)
      BY KeptIsLive, AuthAssumption, FS_Subset DEF CacheInv, TypeOK
    <3> HIDE DEF kept, j
    <3>3. /\ Cardinality(kept) \in Nat
          /\ \/ Cardinality(kept \cup {j}) = Cardinality(kept)
             \/ Cardinality(kept \cup {j}) = Cardinality(kept) + 1
      BY <3>2, FS_CardinalityType, FS_AddElement
    <3>4. QED
      BY <3>1, <3>3, AuthAssumption DEF CacheBounded
  <2>2. ASSUME NEW r \in Requests, RefuseCached(r) PROVE CacheBounded'
    <3>1. replayCache' = Kept /\ DOMAIN Kept \subseteq DOMAIN replayCache
      BY <2>2 DEF RefuseCached, Kept
    <3>2. IsFiniteSet(DOMAIN replayCache)
      BY AuthAssumption, FS_Subset DEF CacheInv, TypeOK
    <3> DEFINE kept == DOMAIN Kept
               all == DOMAIN replayCache
    <3>3. kept \subseteq all /\ IsFiniteSet(all)
      BY <3>1, <3>2
    <3> HIDE DEF kept, all
    <3>4. IsFiniteSet(kept) /\ Cardinality(kept) <= Cardinality(all)
      BY <3>3, FS_Subset
    <3>5. Cardinality(kept) \in Nat /\ Cardinality(all) \in Nat
      BY <3>3, <3>4, FS_CardinalityType
    <3>6. Cardinality(all) <= ReplayCacheMaxEntries /\ Cardinality(DOMAIN replayCache') = Cardinality(kept)
      BY <3>1 DEF CacheBounded, all, kept
    <3>7. QED
      BY <3>4, <3>5, <3>6, AuthAssumption DEF CacheBounded
  <2>3. CASE Restart
    <3>1. replayCache' = [k \in {} |-> 0]
      BY <2>3 DEF Restart
    <3>2. DOMAIN replayCache' = {}
      BY <3>1
    <3>3. QED
      BY <3>2, FS_EmptySet, AuthAssumption DEF CacheBounded
  <2>4. ASSUME UNCHANGED replayCache PROVE CacheBounded'
    BY <2>4 DEF CacheBounded
  <2>5. ASSUME NEW r \in Requests,
               \/ \E j \in Jtis, bound \in BOOLEAN : Deliver(r, j, bound)
               \/ RefuseClaims(r) \/ UserRead(r) \/ CapabilitiesRead(r) \/ ReadFails(r)
               \/ StreamOpens(r) \/ RequestEnds(r)
               \/ RecheckBegins(r) \/ RecheckUser(r) \/ RecheckCapabilities(r)
        PROVE  UNCHANGED replayCache
    BY <2>5, Zenon DEF Deliver, RefuseClaims, UserRead, CapabilitiesRead, ReadFails,
       StreamOpens, RequestEnds, RecheckBegins, RecheckUser, RecheckCapabilities
  <2>6. ASSUME NEW u \in Updates,
               \/ \E input \in Access : UpdateBegins(u, input)
               \/ WriteUser(u) \/ WriteSetting(u) \/ UpdateReturns(u)
               \/ \E part \in {"user", "setting"} : WriteFails(u, part)
        PROVE  UNCHANGED replayCache
    BY <2>6, Zenon DEF UpdateBegins, WriteUser, WriteSetting, UpdateReturns, WriteFails
  <2>7. ASSUME \/ Tick \/ UNCHANGED vars
               \/ \E j \in Jtis, drift \in -MaxDrift..MaxDrift : Sign(j, now + drift)
        PROVE  UNCHANGED replayCache
    BY <2>7, Zenon DEF Tick, Sign, vars
  <2>8. QED
    BY <2>1, <2>2, <2>3, <2>4, <2>5, <2>6, <2>7, Zenon DEF Next
<1>3. Bounded => CacheBounded
  OBVIOUS
<1>4. QED
  BY <1>1, <1>2, <1>3, PTL DEF Spec

-----------------------------------------------------------------------------
(* The access of the principal *)

\* The writes of a setAccess: none without the call, and those that are done
\* are what is stored when nothing failed and no other call has been there.
WritesInv ==
    \A u \in Updates :
        /\ ~update[u].busy => update[u].pending = {}
        /\ (update[u].busy /\ update[u].alone) =>
              /\ \A v \in Updates \ {u} : ~update[v].busy
              /\ ~update[u].failed =>
                    /\ "user" \notin update[u].pending => disabled = update[u].input.disabled
                    /\ "setting" \notin update[u].pending =>
                            allowed = update[u].input.capabilities

SettledInv ==
    settled => /\ \A u \in Updates : ~update[u].busy
               /\ disabled = access.disabled
               /\ allowed = access.capabilities

RequestsInv ==
    \A r \in Requests : request[r].settled =>
        /\ settled
        /\ request[r].at = "capabilities" => ~disabled

AccessInv == TypeOK /\ WritesInv /\ SettledInv /\ RequestsInv

\* What a request does leaves the stored access and the updates alone.
AccessFrame == UNCHANGED <<disabled, allowed, update, access, settled>>

LEMMA FrameKeeps ==
  ASSUME AccessInv, AccessFrame, TypeOK', RequestsInv' PROVE AccessInv'
  BY DEF AccessInv, AccessFrame, WritesInv, SettledInv

LEMMA RefuseKeeps ==
  ASSUME AccessInv, AccessFrame, NEW r \in Requests, Refuse(r) PROVE RequestsInv'
<1>1. ~IdleRequest.settled
  BY DEF IdleRequest
<1>2. QED
  BY <1>1 DEF AccessInv, AccessFrame, RequestsInv, Refuse, TypeOK

LEMMA MoveKeeps ==
  ASSUME AccessInv, AccessFrame, NEW r \in Requests, NEW at \in Stages,
         at = "capabilities" => ~disabled,
         request' = [request EXCEPT ![r].at = at]
  PROVE  RequestsInv'
<1>1. PICK q \in RequestRecord : q = request[r]
  BY DEF AccessInv, TypeOK
<1> DEFINE q2 == [q EXCEPT !.at = at]
<1>2. q2.settled = q.settled /\ q2.at = at
  BY <1>1 DEF RequestRecord
<1>3. request' = [request EXCEPT ![r] = q2] /\ request \in [Requests -> RequestRecord]
  BY <1>1 DEF AccessInv, TypeOK
<1> HIDE DEF q2
<1>4. request'[r] = q2 /\ \A s \in Requests \ {r} : request'[s] = request[s]
  BY <1>3
<1>5. settled' = settled /\ disabled' = disabled
  BY DEF AccessFrame
<1>6. QED
  BY <1>1, <1>2, <1>4, <1>5 DEF AccessInv, RequestsInv

\* The actions of a request, one by one.
LEMMA DeliverKeeps ==
  ASSUME AccessInv, NEW r \in Requests, NEW j \in Jtis, NEW bound \in BOOLEAN,
         Deliver(r, j, bound)
  PROVE  AccessFrame /\ RequestsInv'
<1> DEFINE q == [IdleRequest EXCEPT !.at = "body", !.jti = j, !.bound = bound]
<1>1. AccessFrame
  BY DEF AccessFrame, database, history, Deliver
<1>2. ~q.settled
  BY DEF IdleRequest
<1>3. request' = [request EXCEPT ![r] = q] /\ request \in [Requests -> RequestRecord]
  BY DEF Deliver, AccessInv, TypeOK
<1> HIDE DEF q
<1>4. request'[r] = q /\ \A s \in Requests \ {r} : request'[s] = request[s]
  BY <1>3
<1>5. QED
  BY <1>1, <1>2, <1>4 DEF AccessInv, AccessFrame, RequestsInv

LEMMA AcceptKeeps ==
  ASSUME AccessInv, NEW r \in Requests, Accept(r) PROVE AccessFrame /\ RequestsInv'
<1>1. AccessFrame
  BY DEF AccessFrame, database, history, Accept
<1>2. PICK q \in RequestRecord : q = request[r]
  BY DEF AccessInv, TypeOK
<1> DEFINE q2 == [q EXCEPT !.at = "user", !.settled = settled]
<1>3. q2.at = "user" /\ q2.settled = settled
  BY <1>2 DEF RequestRecord
<1>4. request' = [request EXCEPT ![r] = q2] /\ request \in [Requests -> RequestRecord]
  BY <1>2 DEF Accept, AccessInv, TypeOK
<1> HIDE DEF q2
<1>5. request'[r] = q2 /\ \A s \in Requests \ {r} : request'[s] = request[s]
  BY <1>4
<1>6. QED
  BY <1>1, <1>3, <1>5 DEF AccessInv, AccessFrame, RequestsInv

LEMMA CapabilitiesReadKeeps ==
  ASSUME AccessInv, NEW r \in Requests, CapabilitiesRead(r) PROVE AccessFrame /\ RequestsInv'
<1>1. AccessFrame
  BY DEF AccessFrame, database, history, CapabilitiesRead
<1>2. PICK q \in RequestRecord : q = request[r]
  BY DEF AccessInv, TypeOK
<1> DEFINE q2 == [q EXCEPT !.at = "granted", !.capabilities = allowed]
<1>3. q2.at = "granted" /\ q2.settled = q.settled
  BY <1>2 DEF RequestRecord
<1>4. request' = [request EXCEPT ![r] = q2] /\ request \in [Requests -> RequestRecord]
  BY <1>2 DEF CapabilitiesRead, AccessInv, TypeOK
<1> HIDE DEF q2
<1>5. request'[r] = q2 /\ \A s \in Requests \ {r} : request'[s] = request[s]
  BY <1>4
<1>6. QED
  BY <1>1, <1>2, <1>3, <1>5 DEF AccessInv, AccessFrame, RequestsInv

\* Every other action of a request refuses it or moves it on; only a read that
\* finds the principal enabled moves it to the read of the capabilities.
LEMMA RequestFrame ==
  ASSUME NEW r \in Requests,
         \/ UserRead(r) \/ RecheckUser(r) \/ RecheckCapabilities(r)
         \/ RefuseClaims(r) \/ RefuseCached(r) \/ ReadFails(r) \/ RequestEnds(r)
         \/ StreamOpens(r) \/ RecheckBegins(r)
  PROVE  /\ AccessFrame
         /\ \/ Refuse(r)
            \/ \E at \in Stages : /\ at = "capabilities" => ~disabled
                                  /\ request' = [request EXCEPT ![r].at = at]
<1>1. AccessFrame
  BY Zenon DEF AccessFrame, database, history, UserRead, RecheckUser, RecheckCapabilities,
     RefuseClaims, RefuseCached, ReadFails, RequestEnds, StreamOpens, RecheckBegins
<1>2. /\ {"capabilities", "stream", "recheck", "recheckRead"} \subseteq Stages
      /\ "stream" # "capabilities" /\ "recheck" # "capabilities"
      /\ "recheckRead" # "capabilities"
  BY DEF Stages
<1>3. ASSUME UserRead(r) PROVE Refuse(r)
                               \/ (~disabled /\ request' = [request EXCEPT ![r].at = "capabilities"])
  BY <1>3 DEF UserRead
<1>4. ASSUME RecheckUser(r) PROVE Refuse(r) \/ request' = [request EXCEPT ![r].at = "recheckRead"]
  BY <1>4 DEF RecheckUser
<1>5. ASSUME RecheckCapabilities(r)
      PROVE  Refuse(r) \/ request' = [request EXCEPT ![r].at = "stream"]
  BY <1>5 DEF RecheckCapabilities
<1>6. ASSUME RefuseClaims(r) \/ RefuseCached(r) \/ ReadFails(r) \/ RequestEnds(r)
      PROVE  Refuse(r)
  BY <1>6 DEF RefuseClaims, RefuseCached, ReadFails, RequestEnds
<1>7. ASSUME StreamOpens(r) PROVE request' = [request EXCEPT ![r].at = "stream"]
  BY <1>7 DEF StreamOpens
<1>8. ASSUME RecheckBegins(r) PROVE request' = [request EXCEPT ![r].at = "recheck"]
  BY <1>8 DEF RecheckBegins
<1>9. QED
  BY <1>1, <1>2, <1>3, <1>4, <1>5, <1>6, <1>7, <1>8, Zenon

LEMMA RequestStep ==
  ASSUME AccessInv, TypeOK', NEW r \in Requests,
         \/ \E j \in Jtis, bound \in BOOLEAN : Deliver(r, j, bound)
         \/ Accept(r) \/ RefuseClaims(r) \/ RefuseCached(r)
         \/ UserRead(r) \/ CapabilitiesRead(r) \/ ReadFails(r)
         \/ StreamOpens(r) \/ RequestEnds(r)
         \/ RecheckBegins(r) \/ RecheckUser(r) \/ RecheckCapabilities(r)
  PROVE  AccessInv'
<1>1. ASSUME NEW j \in Jtis, NEW bound \in BOOLEAN, Deliver(r, j, bound)
      PROVE  AccessFrame /\ RequestsInv'
  BY <1>1, DeliverKeeps
<1>2. CASE Accept(r)
  BY <1>2, AcceptKeeps, FrameKeeps, Zenon
<1>3. CASE CapabilitiesRead(r)
  BY <1>3, CapabilitiesReadKeeps, FrameKeeps, Zenon
<1>4. CASE \/ UserRead(r) \/ RecheckUser(r) \/ RecheckCapabilities(r)
           \/ RefuseClaims(r) \/ RefuseCached(r) \/ ReadFails(r) \/ RequestEnds(r)
           \/ StreamOpens(r) \/ RecheckBegins(r)
  <2>1. /\ AccessFrame
        /\ \/ Refuse(r)
           \/ \E at \in Stages : /\ at = "capabilities" => ~disabled
                                 /\ request' = [request EXCEPT ![r].at = at]
    BY <1>4, RequestFrame, Zenon
  <2>2. CASE Refuse(r)
    BY <2>1, <2>2, RefuseKeeps, FrameKeeps, Zenon
  <2>3. ASSUME NEW at \in Stages, at = "capabilities" => ~disabled,
               request' = [request EXCEPT ![r].at = at]
        PROVE  AccessInv'
    BY <2>1, <2>3, MoveKeeps, FrameKeeps, Zenon
  <2>4. QED
    BY <2>1, <2>2, <2>3, Zenon
<1>5. QED
  BY <1>1, <1>2, <1>3, <1>4, FrameKeeps, Zenon

\* setAccess, one lemma for each of its steps.
LEMMA UpdateBeginsKeeps ==
  ASSUME AccessInv, NEW u \in Updates, NEW input \in Access, UpdateBegins(u, input)
  PROVE  WritesInv' /\ SettledInv' /\ RequestsInv'
<1> DEFINE idle == \A v \in Updates : ~update[v].busy
           new == [busy |-> TRUE, input |-> input, pending |-> {"user", "setting"},
                   failed |-> FALSE, alone |-> idle]
           other(v) == [update[v] EXCEPT !.alone = FALSE]
<1>1. /\ update' = [v \in Updates |-> IF v = u THEN new ELSE other(v)]
      /\ ~settled'
      /\ request' = [r \in Requests |-> [request[r] EXCEPT !.settled = FALSE]]
  BY DEF UpdateBegins
<1>2. new.busy /\ new.pending = {"user", "setting"} /\ (new.alone <=> idle)
  OBVIOUS
<1>3. ASSUME NEW v \in Updates
      PROVE  /\ ~other(v).alone /\ other(v).pending = update[v].pending
             /\ other(v).busy <=> update[v].busy
  <2>1. update[v] \in UpdateRecord
    BY DEF AccessInv, TypeOK
  <2>2. QED
    BY <2>1 DEF UpdateRecord
<1>4. ASSUME NEW r \in Requests PROVE ~[request[r] EXCEPT !.settled = FALSE].settled
  <2>1. request[r] \in RequestRecord
    BY DEF AccessInv, TypeOK
  <2>2. QED
    BY <2>1 DEF RequestRecord
<1> HIDE DEF new, other
<1>5. update'[u] = new /\ \A v \in Updates \ {u} : update'[v] = other(v)
  BY <1>1
<1>6. WritesInv'
  BY <1>2, <1>3, <1>5 DEF AccessInv, WritesInv
<1>7. SettledInv'
  BY <1>1 DEF SettledInv
<1>8. RequestsInv'
  BY <1>1, <1>4 DEF RequestsInv
<1>9. QED
  BY <1>6, <1>7, <1>8

LEMMA WriteUserKeeps ==
  ASSUME AccessInv, NEW u \in Updates, WriteUser(u)
  PROVE  WritesInv' /\ SettledInv' /\ RequestsInv'
<1> DEFINE q == [update[u] EXCEPT !.pending = @ \ {"user"}]
<1>1. /\ update' = [update EXCEPT ![u] = q] /\ disabled' = update[u].input.disabled
      /\ UNCHANGED <<allowed, request, access, settled>> /\ "user" \in update[u].pending
  BY DEF WriteUser, history
<1>2. update \in [Updates -> UpdateRecord]
  BY DEF AccessInv, TypeOK
<1>3. /\ q.busy = update[u].busy /\ q.alone = update[u].alone /\ q.failed = update[u].failed
      /\ q.input = update[u].input /\ q.pending = update[u].pending \ {"user"}
  BY <1>2 DEF UpdateRecord
<1> HIDE DEF q
<1>4. update'[u] = q /\ \A v \in Updates \ {u} : update'[v] = update[v]
  BY <1>1, <1>2
<1>5. update[u].busy /\ ~settled
  BY <1>1 DEF AccessInv, WritesInv, SettledInv
<1>6. \A v \in Updates \ {u} : ~(update[v].busy /\ update[v].alone)
  BY <1>5 DEF AccessInv, WritesInv
<1>7. WritesInv'
  <2> SUFFICES ASSUME NEW v \in Updates
               PROVE  /\ ~update'[v].busy => update'[v].pending = {}
                      /\ (update'[v].busy /\ update'[v].alone) =>
                            /\ \A w \in Updates \ {v} : ~update'[w].busy
                            /\ ~update'[v].failed =>
                                  /\ "user" \notin update'[v].pending =>
                                        disabled' = update'[v].input.disabled
                                  /\ "setting" \notin update'[v].pending =>
                                        allowed' = update'[v].input.capabilities
    BY Zenon DEF WritesInv
  <2>1. CASE v = u
    <3>1. /\ update'[v] = q
          /\ q.alone => \A w \in Updates \ {v} : ~update'[w].busy
      BY <1>3, <1>4, <1>5, <2>1 DEF AccessInv, WritesInv
    <3>2. update[u].alone /\ ~update[u].failed /\ "setting" \notin update[u].pending =>
            allowed = update[u].input.capabilities
      BY <1>5 DEF AccessInv, WritesInv
    <3>3. /\ q.busy /\ disabled' = q.input.disabled /\ allowed' = allowed
          /\ "setting" \notin q.pending => "setting" \notin update[u].pending
      BY <1>1, <1>3, <1>5
    <3>4. QED
      BY <1>3, <3>1, <3>2, <3>3
  <2>2. CASE v # u
    BY <1>4, <1>6, <2>2 DEF AccessInv, WritesInv
  <2>3. QED
    BY <2>1, <2>2
<1>8. SettledInv' /\ RequestsInv'
  BY <1>1, <1>5 DEF AccessInv, SettledInv, RequestsInv
<1>9. QED
  BY <1>7, <1>8

LEMMA WriteSettingKeeps ==
  ASSUME AccessInv, NEW u \in Updates, WriteSetting(u)
  PROVE  WritesInv' /\ SettledInv' /\ RequestsInv'
<1> DEFINE q == [update[u] EXCEPT !.pending = @ \ {"setting"}]
<1>1. /\ update' = [update EXCEPT ![u] = q] /\ allowed' = update[u].input.capabilities
      /\ UNCHANGED <<disabled, request, access, settled>> /\ "setting" \in update[u].pending
  BY DEF WriteSetting, history
<1>2. update \in [Updates -> UpdateRecord]
  BY DEF AccessInv, TypeOK
<1>3. /\ q.busy = update[u].busy /\ q.alone = update[u].alone /\ q.failed = update[u].failed
      /\ q.input = update[u].input /\ q.pending = update[u].pending \ {"setting"}
  BY <1>2 DEF UpdateRecord
<1> HIDE DEF q
<1>4. update'[u] = q /\ \A v \in Updates \ {u} : update'[v] = update[v]
  BY <1>1, <1>2
<1>5. update[u].busy /\ ~settled
  BY <1>1 DEF AccessInv, WritesInv, SettledInv
<1>6. \A v \in Updates \ {u} : ~(update[v].busy /\ update[v].alone)
  BY <1>5 DEF AccessInv, WritesInv
<1>7. WritesInv'
  <2> SUFFICES ASSUME NEW v \in Updates
               PROVE  /\ ~update'[v].busy => update'[v].pending = {}
                      /\ (update'[v].busy /\ update'[v].alone) =>
                            /\ \A w \in Updates \ {v} : ~update'[w].busy
                            /\ ~update'[v].failed =>
                                  /\ "user" \notin update'[v].pending =>
                                        disabled' = update'[v].input.disabled
                                  /\ "setting" \notin update'[v].pending =>
                                        allowed' = update'[v].input.capabilities
    BY Zenon DEF WritesInv
  <2>1. CASE v = u
    <3>1. /\ update'[v] = q
          /\ q.alone => \A w \in Updates \ {v} : ~update'[w].busy
      BY <1>3, <1>4, <1>5, <2>1 DEF AccessInv, WritesInv
    <3>2. QED
      BY <1>1, <1>3, <1>5, <2>1, <3>1 DEF AccessInv, WritesInv
  <2>2. CASE v # u
    BY <1>4, <1>6, <2>2 DEF AccessInv, WritesInv
  <2>3. QED
    BY <2>1, <2>2
<1>8. SettledInv' /\ RequestsInv'
  BY <1>1, <1>5 DEF AccessInv, SettledInv, RequestsInv
<1>9. QED
  BY <1>7, <1>8

LEMMA WriteFailsKeeps ==
  ASSUME AccessInv, NEW u \in Updates, NEW part \in {"user", "setting"}, WriteFails(u, part)
  PROVE  WritesInv' /\ SettledInv' /\ RequestsInv'
<1> DEFINE q == [update[u] EXCEPT !.pending = @ \ {part}, !.failed = TRUE]
<1>1. /\ update \in [Updates -> UpdateRecord] /\ part \in update[u].pending
      /\ UNCHANGED <<allowed, disabled, request, access, settled>>
  BY DEF WriteFails, history, database, AccessInv, TypeOK
<1>2. update' = [update EXCEPT ![u] = q]
  BY <1>1 DEF WriteFails
<1>3. q.busy = update[u].busy /\ q.alone = update[u].alone /\ q.failed
      /\ q.pending = update[u].pending \ {part}
  BY <1>1 DEF UpdateRecord
<1> HIDE DEF q
<1>4. update'[u] = q /\ \A v \in Updates \ {u} : update'[v] = update[v]
  BY <1>1, <1>2
<1>5. update[u].busy /\ ~settled
  BY <1>1 DEF AccessInv, WritesInv, SettledInv
<1>6. WritesInv'
  BY <1>1, <1>3, <1>4, <1>5 DEF AccessInv, WritesInv
<1>7. SettledInv' /\ RequestsInv'
  BY <1>1, <1>5 DEF AccessInv, SettledInv, RequestsInv
<1>8. QED
  BY <1>6, <1>7

LEMMA UpdateReturnsKeeps ==
  ASSUME AccessInv, NEW u \in Updates, UpdateReturns(u)
  PROVE  WritesInv' /\ SettledInv' /\ RequestsInv'
<1>1. /\ update[u].busy /\ update[u].pending = {}
      /\ update' = [update EXCEPT ![u] = IdleUpdate]
      /\ UNCHANGED <<disabled, allowed, request>>
      /\ IF update[u].alone /\ ~update[u].failed
         THEN access' = update[u].input /\ settled' = TRUE
         ELSE UNCHANGED <<access, settled>>
  BY DEF UpdateReturns, database, history
<1>2. ~IdleUpdate.busy /\ IdleUpdate.pending = {}
  BY DEF IdleUpdate
<1>3. update'[u] = IdleUpdate /\ \A v \in Updates \ {u} : update'[v] = update[v]
  BY <1>1 DEF AccessInv, TypeOK
<1>4. ~settled
  BY <1>1 DEF AccessInv, SettledInv
<1>5. WritesInv'
  BY <1>1, <1>2, <1>3 DEF AccessInv, WritesInv
<1>6. RequestsInv'
  BY <1>1, <1>4 DEF AccessInv, RequestsInv
<1>7. CASE update[u].alone /\ ~update[u].failed
  <2>1. /\ \A v \in Updates \ {u} : ~update[v].busy
        /\ disabled = update[u].input.disabled
        /\ allowed = update[u].input.capabilities
    BY <1>1, <1>7 DEF AccessInv, WritesInv
  <2>2. SettledInv'
    BY <1>1, <1>2, <1>3, <1>7, <2>1 DEF SettledInv
  <2>3. QED
    BY <1>5, <1>6, <2>2
<1>8. CASE ~(update[u].alone /\ ~update[u].failed)
  <2>1. ~settled'
    BY <1>1, <1>4, <1>8
  <2>2. QED
    BY <1>5, <1>6, <2>1 DEF SettledInv
<1>9. QED
  BY <1>7, <1>8

LEMMA AccessStep == ASSUME AccessInv, [Next]_vars PROVE AccessInv'
<1>0. TypeOK'
  BY StepType DEF AccessInv
<1>1. ASSUME NEW r \in Requests,
             \/ \E j \in Jtis, bound \in BOOLEAN : Deliver(r, j, bound)
             \/ Accept(r) \/ RefuseClaims(r) \/ RefuseCached(r)
             \/ UserRead(r) \/ CapabilitiesRead(r) \/ ReadFails(r)
             \/ StreamOpens(r) \/ RequestEnds(r)
             \/ RecheckBegins(r) \/ RecheckUser(r) \/ RecheckCapabilities(r)
      PROVE  AccessInv'
  BY <1>0, <1>1, RequestStep
<1>2. ASSUME NEW u \in Updates, NEW input \in Access, UpdateBegins(u, input)
      PROVE  AccessInv'
  BY <1>0, <1>2, UpdateBeginsKeeps, Zenon DEF AccessInv
<1>3. ASSUME NEW u \in Updates, WriteUser(u) PROVE AccessInv'
  BY <1>0, <1>3, WriteUserKeeps, Zenon DEF AccessInv
<1>4. ASSUME NEW u \in Updates, WriteSetting(u) PROVE AccessInv'
  BY <1>0, <1>4, WriteSettingKeeps, Zenon DEF AccessInv
<1>5. ASSUME NEW u \in Updates, NEW part \in {"user", "setting"}, WriteFails(u, part)
      PROVE  AccessInv'
  BY <1>0, <1>5, WriteFailsKeeps, Zenon DEF AccessInv
<1>6. ASSUME NEW u \in Updates, UpdateReturns(u) PROVE AccessInv'
  BY <1>0, <1>6, UpdateReturnsKeeps, Zenon DEF AccessInv
<1>7. CASE Restart
  <2>1. /\ request' = [r \in Requests |-> IdleRequest] /\ update' = [u \in Updates |-> IdleUpdate]
        /\ UNCHANGED <<disabled, allowed, access, settled>>
    BY <1>7 DEF Restart, database, history
  <2>2. ~IdleRequest.settled /\ ~IdleUpdate.busy /\ IdleUpdate.pending = {}
    BY DEF IdleRequest, IdleUpdate
  <2>3. WritesInv' /\ SettledInv' /\ RequestsInv'
    BY <2>1, <2>2 DEF AccessInv, WritesInv, SettledInv, RequestsInv
  <2>4. QED
    BY <1>0, <2>3 DEF AccessInv
<1>8. ASSUME \/ Tick \/ UNCHANGED vars
             \/ \E j \in Jtis, drift \in -MaxDrift..MaxDrift : Sign(j, now + drift)
      PROVE  AccessInv'
  <2>1. UNCHANGED <<disabled, allowed, update, access, settled, request>>
    BY <1>8, Zenon DEF Tick, Sign, vars, database, history
  <2>2. AccessFrame /\ RequestsInv'
    BY <2>1 DEF AccessInv, AccessFrame, RequestsInv
  <2>3. QED
    BY <1>0, <2>2, FrameKeeps
<1>9. QED
  BY <1>1, <1>2, <1>3, <1>4, <1>5, <1>6, <1>7, <1>8, Zenon DEF Next

LEMMA AccessInvariant == Spec => []AccessInv
<1>1. Init => AccessInv
  <2> SUFFICES ASSUME Init PROVE AccessInv
    OBVIOUS
  <2>1. /\ request = [r \in Requests |-> IdleRequest] /\ update = [u \in Updates |-> IdleUpdate]
        /\ disabled = access.disabled /\ allowed = access.capabilities
    BY DEF Init
  <2>2. ~IdleRequest.settled /\ ~IdleUpdate.busy /\ IdleUpdate.pending = {}
    BY DEF IdleRequest, IdleUpdate
  <2>3. WritesInv
    BY <2>1, <2>2 DEF WritesInv
  <2>4. SettledInv /\ RequestsInv
    BY <2>1, <2>2 DEF SettledInv, RequestsInv
  <2>5. QED
    BY <2>3, <2>4, InitType DEF AccessInv
<1>2. AccessInv /\ [Next]_vars => AccessInv'
  BY AccessStep
<1>3. QED
  BY <1>1, <1>2, PTL DEF Spec

\* Only CapabilitiesRead lets a request in.
LEMMA OnlyCapabilitiesRead ==
  ASSUME TypeOK, [Next]_vars, NEW r \in Requests,
         request[r].at = "capabilities", request'[r].at = "granted"
  PROVE  CapabilitiesRead(r)
<1>1. request \in [Requests -> RequestRecord] /\ IdleRequest.at = "idle"
  BY DEF TypeOK, IdleRequest
<1>2. ASSUME NEW s \in Requests, CapabilitiesRead(s) PROVE CapabilitiesRead(r)
  BY <1>1, <1>2 DEF CapabilitiesRead
<1>3. ASSUME NEW s \in Requests, Refuse(s) PROVE FALSE
  BY <1>1, <1>3 DEF Refuse
<1>4. ASSUME NEW s \in Requests, NEW at \in Stages, at # "granted",
             request' = [request EXCEPT ![s].at = at]
      PROVE  FALSE
  BY <1>1, <1>4
<1>5. ASSUME NEW s \in Requests, NEW j \in Jtis, NEW bound \in BOOLEAN, Deliver(s, j, bound)
      PROVE  FALSE
  <2>1. [IdleRequest EXCEPT !.at = "body", !.jti = j, !.bound = bound].at = "body"
    BY DEF IdleRequest
  <2>2. QED
    BY <1>1, <1>5, <2>1 DEF Deliver
<1>6. ASSUME NEW s \in Requests, UserRead(s) \/ RecheckUser(s) \/ RecheckCapabilities(s)
      PROVE  FALSE
  BY <1>3, <1>4, <1>6 DEF UserRead, RecheckUser, RecheckCapabilities, Stages
<1>7. ASSUME NEW s \in Requests,
             RefuseClaims(s) \/ RefuseCached(s) \/ ReadFails(s) \/ RequestEnds(s)
      PROVE  FALSE
  BY <1>3, <1>7 DEF RefuseClaims, RefuseCached, ReadFails, RequestEnds
<1>8. ASSUME NEW s \in Requests, StreamOpens(s) \/ RecheckBegins(s)
      PROVE  FALSE
  BY <1>4, <1>8 DEF StreamOpens, RecheckBegins, Stages
<1>9. ASSUME NEW s \in Requests, Accept(s) PROVE FALSE
  BY <1>1, <1>9 DEF Accept
<1>10. ASSUME NEW u \in Updates, NEW input \in Access, UpdateBegins(u, input) PROVE FALSE
  <2>1. request'[r] = [request[r] EXCEPT !.settled = FALSE]
    BY <1>10, Zenon DEF UpdateBegins
  <2>2. request'[r].at = request[r].at
    BY <1>1, <2>1 DEF RequestRecord
  <2>3. QED  BY <2>2
<1>11. ASSUME UNCHANGED request PROVE FALSE
  BY <1>11
<1>12. ASSUME NEW u \in Updates,
              \/ WriteUser(u) \/ WriteSetting(u) \/ UpdateReturns(u)
              \/ \E part \in {"user", "setting"} : WriteFails(u, part)
       PROVE  FALSE
  BY <1>11, <1>12, Zenon DEF WriteUser, WriteSetting, UpdateReturns, WriteFails
<1>13. CASE Tick \/ UNCHANGED vars
  BY <1>11, <1>13 DEF Tick, vars
<1>14. ASSUME NEW j \in Jtis, NEW clock, Sign(j, clock) PROVE FALSE
  BY <1>11, <1>14 DEF Sign
<1>15. CASE Restart
  BY <1>1, <1>15 DEF Restart
<1>16. QED
  BY <1>2, <1>5, <1>6, <1>7, <1>8, <1>9, <1>10, <1>12, <1>13, <1>14, <1>15, Zenon DEF Next

\* A request whose proof was accepted after a setAccess that succeeded alone, and
\* that no other has disturbed since, gets that access, and none if it disables
\* the principal (setAccess's two writes, authenticateRequest's two reads).
THEOREM SettledAccessIsGranted == Spec => SettledAccessHolds
<1>1. ASSUME AccessInv, [Next]_vars, NEW r \in Requests, request[r].settled,
             request'[r].at = "granted", request[r].at = "capabilities"
      PROVE  ~access.disabled /\ request'[r].capabilities = access.capabilities
  <2>1. CapabilitiesRead(r) /\ TypeOK
    BY <1>1, OnlyCapabilitiesRead DEF AccessInv
  <2>2. PICK q \in RequestRecord : q = request[r]
    BY <2>1 DEF TypeOK
  <2>3. request'[r] = [q EXCEPT !.at = "granted", !.capabilities = allowed]
    BY <2>1, <2>2 DEF CapabilitiesRead, TypeOK
  <2>4. request'[r].capabilities = allowed
    BY <2>2, <2>3 DEF RequestRecord
  <2>5. settled /\ ~disabled
    BY <1>1 DEF AccessInv, RequestsInv
  <2>6. QED
    BY <1>1, <2>4, <2>5 DEF AccessInv, SettledInv
<1>2. AccessInv /\ [Next]_vars =>
        [\A r \in Requests :
            (request[r].settled /\ request'[r].at = "granted" /\ request[r].at = "capabilities")
              => ~access.disabled /\ request'[r].capabilities = access.capabilities]_vars
  BY <1>1
<1>3. QED
  BY <1>2, AccessInvariant, PTL DEF Spec, SettledAccessHolds
=============================================================================
