------------------------------ MODULE McpAuth ------------------------------
(***************************************************************************)
(* How mqttctl decides whether a request of the MCP server is let in       *)
(* (McpAuthService in auth/mcp.ts): every request carries a proof signed   *)
(* by the MCP server, valid for a time and for one use; the access of the  *)
(* MCP principal is stored in the database and changed by setAccess.  The  *)
(* event stream checks the access again while it is open.                  *)
(*                                                                         *)
(* One callback runs at a time; between an await and its continuation      *)
(* other requests, updates of the access and the clock go on.  A request   *)
(* may be delivered late, more than once, or altered; a request that is    *)
(* refused before the proof's claims are looked at changes nothing and is  *)
(* left out, as are the sessions of the MCP principal (it has none).       *)
(***************************************************************************)
EXTENDS Integers, FiniteSets

CONSTANTS
    Jtis,                  \* the proofs, by their unique id
    Requests,              \* slots for requests in progress
    Updates,               \* slots for calls of setAccess in progress
    Capabilities,          \* those an administrator may assign
    Read,                  \* the capability a stream needs
    ReplayCacheMaxEntries, \* config.auth.mcp.replayCacheMaxEntries
    ClockSkewSeconds,      \* config.auth.mcp.clockSkewSeconds
    MaxProofAgeSeconds,    \* config.auth.mcp.maxProofAgeSeconds
    ProofLife,             \* what createRequestProof adds to iat for exp
    MaxDrift,              \* bound on the difference of the two clocks
    MaxTime,               \* bound on the time
    NoJti

ASSUME AuthAssumption ==
    /\ IsFiniteSet(Jtis)
    /\ NoJti \notin Jtis
    /\ Read \in Capabilities
    /\ ReplayCacheMaxEntries \in Nat \ {0}
    /\ ClockSkewSeconds \in Nat
    /\ MaxProofAgeSeconds \in Nat
    /\ ProofLife \in Nat \ {0}
    /\ MaxDrift \in Nat
    /\ MaxTime \in Nat

VARIABLES
    now,         \* nowSeconds; assumed not to go back
    signed,      \* the proofs the MCP server has signed
    iat,         \* when, by its clock
    replayCache, \* jti to expiresAt
    request,     \* where each request awaits
    disabled,    \* app_users, the row of the MCP principal
    allowed,     \* settings, auth.mcp / allowedCapabilities
    update,      \* where each setAccess awaits
    accepted,    \* history: the proofs accepted since the process started
    access,      \* history: what the last undisturbed, successful setAccess set
    settled      \* history: no setAccess has begun since

database == <<disabled, allowed>>
proofs == <<now, signed, iat>>
history == <<access, settled>>
vars == <<proofs, replayCache, request, database, update, accepted, history>>

-----------------------------------------------------------------------------
(* Types *)

\* bound: the method, target, body digest, subject and access category fit the
\* request that carries the proof.  settled (history): since the proof has been
\* accepted, the access has been settled.
Stages == {"idle", "body", "user", "capabilities", "granted",
           "stream", "recheck", "recheckRead"}
RequestRecord == [at : Stages, jti : Jtis \cup {NoJti}, bound : BOOLEAN,
                  capabilities : SUBSET Capabilities, settled : BOOLEAN]

\* pending: the writes that are not done.  alone (history): no other setAccess
\* has overlapped this one.
Access == [disabled : BOOLEAN, capabilities : SUBSET Capabilities]
UpdateRecord == [busy : BOOLEAN, input : Access, pending : SUBSET {"user", "setting"},
                 failed : BOOLEAN, alone : BOOLEAN]

TypeOK ==
    /\ now \in Nat
    /\ signed \subseteq Jtis
    /\ iat \in [Jtis -> Int]
    /\ DOMAIN replayCache \subseteq Jtis
    /\ replayCache \in [DOMAIN replayCache -> Int]
    /\ request \in [Requests -> RequestRecord]
    /\ \A r \in Requests : request[r].at # "idle" => request[r].jti \in signed
    /\ disabled \in BOOLEAN
    /\ allowed \subseteq Capabilities
    /\ update \in [Updates -> UpdateRecord]
    /\ accepted \subseteq Jtis
    /\ access \in Access
    /\ settled \in BOOLEAN

Exp(j) == iat[j] + ProofLife

IdleRequest == [at |-> "idle", jti |-> NoJti, bound |-> FALSE,
                capabilities |-> {}, settled |-> FALSE]
NoAccess == [disabled |-> TRUE, capabilities |-> {}]
IdleUpdate == [busy |-> FALSE, input |-> NoAccess, pending |-> {},
               failed |-> FALSE, alone |-> FALSE]

\* The principal is created enabled, with the default capabilities.
Init ==
    /\ now = 0
    /\ signed = {}
    /\ iat = [j \in Jtis |-> 0]
    /\ replayCache = [j \in {} |-> 0]
    /\ request = [r \in Requests |-> IdleRequest]
    /\ disabled = FALSE
    /\ allowed = Capabilities
    /\ update = [u \in Updates |-> IdleUpdate]
    /\ accepted = {}
    /\ access = [disabled |-> FALSE, capabilities |-> Capabilities]
    /\ settled = TRUE

-----------------------------------------------------------------------------
(* Proofs *)

Tick ==
    /\ now < MaxTime
    /\ now' = now + 1
    /\ UNCHANGED <<signed, iat, replayCache, request, database, update, accepted, history>>

\* The MCP server signs a proof, by its own clock.
Sign(j, clock) ==
    /\ j \notin signed
    /\ signed' = signed \cup {j}
    /\ iat' = [iat EXCEPT ![j] = clock]
    /\ UNCHANGED <<now, replayCache, request, database, update, accepted, history>>

\* A request with a valid signature arrives, for the first time or again.
Deliver(r, j, bound) ==
    /\ request[r].at = "idle"
    /\ j \in signed
    /\ request' = [request EXCEPT ![r] = [IdleRequest EXCEPT !.at = "body", !.jti = j,
                                                              !.bound = bound]]
    /\ UNCHANGED <<proofs, replayCache, database, update, accepted, history>>

InWindow(j) ==
    /\ iat[j] <= now + ClockSkewSeconds
    /\ Exp(j) >= now - ClockSkewSeconds
    /\ Exp(j) > iat[j]
    /\ Exp(j) - iat[j] <= MaxProofAgeSeconds

\* Mutant: entries are purged when the proof's own exp has passed.
PurgedAtExp == {j \in DOMAIN replayCache : replayCache[j] < now + ClockSkewSeconds}

\* purgeReplayCache
Purged == {j \in DOMAIN replayCache : replayCache[j] < now}

Kept == [j \in DOMAIN replayCache \ Purged |-> replayCache[j]]

HasRoom == Cardinality(DOMAIN Kept) < ReplayCacheMaxEntries

\* What rememberJti leaves when it does not throw.
Remember(j) ==
    replayCache' = [k \in DOMAIN Kept \cup {j} |->
                        IF k = j THEN Exp(j) + ClockSkewSeconds ELSE Kept[k]]

\* Mutant: the claims are dropped, the request goes on.
RefuseGoesOn(r) == request' = [request EXCEPT ![r].jti = NoJti]

Refuse(r) == request' = [request EXCEPT ![r] = IdleRequest]

\* The body is read: validateClaims and rememberJti.
Accept(r) ==
    LET j == request[r].jti IN
    /\ request[r].at = "body"
    /\ request[r].bound /\ InWindow(j)
    /\ j \notin DOMAIN Kept
    /\ HasRoom
    /\ Remember(j)
    /\ accepted' = accepted \cup {j}
    /\ request' = [request EXCEPT ![r].at = "user", ![r].settled = settled]
    /\ UNCHANGED <<proofs, database, update, history>>

\* Mutant: rememberJti is called before the binding is compared.
RefuseClaimsRemembers(r) ==
    /\ request[r].at = "body"
    /\ ~request[r].bound \/ ~InWindow(request[r].jti)
    /\ IF HasRoom THEN Remember(request[r].jti) ELSE replayCache' = Kept
    /\ Refuse(r)
    /\ UNCHANGED <<proofs, database, update, accepted, history>>

\* Refused without a look at the cache.
RefuseClaims(r) ==
    /\ request[r].at = "body"
    /\ ~request[r].bound \/ ~InWindow(request[r].jti)
    /\ Refuse(r)
    /\ UNCHANGED <<proofs, replayCache, database, update, accepted, history>>

\* Refused as replayed, or because the cache is full.
RefuseCached(r) ==
    /\ request[r].at = "body"
    /\ request[r].bound /\ InWindow(request[r].jti)
    /\ request[r].jti \in DOMAIN Kept \/ ~HasRoom
    /\ replayCache' = Kept
    /\ Refuse(r)
    /\ UNCHANGED <<proofs, database, update, accepted, history>>

\* getSystemUser: a disabled principal is refused.
UserRead(r) ==
    /\ request[r].at = "user"
    /\ IF disabled THEN Refuse(r) ELSE request' = [request EXCEPT ![r].at = "capabilities"]
    /\ UNCHANGED <<proofs, replayCache, database, update, accepted, history>>

\* getAllowedCapabilities: the request is let in with what they are now.
CapabilitiesRead(r) ==
    /\ request[r].at = "capabilities"
    /\ request' = [request EXCEPT ![r].at = "granted", ![r].capabilities = allowed]
    /\ UNCHANGED <<proofs, replayCache, database, update, accepted, history>>

\* The database fails a read.
ReadFails(r) ==
    /\ request[r].at \in {"user", "capabilities"}
    /\ Refuse(r)
    /\ UNCHANGED <<proofs, replayCache, database, update, accepted, history>>

-----------------------------------------------------------------------------
(* A request that has been let in; the checks of the event stream.  (A check *)
(* that takes longer than their interval is not overtaken by the next.)      *)

\* GET /api/mqtt/events; every other request is answered without more awaits here.
StreamOpens(r) ==
    /\ request[r].at = "granted"
    /\ Read \in request[r].capabilities
    /\ request' = [request EXCEPT ![r].at = "stream"]
    /\ UNCHANGED <<proofs, replayCache, database, update, accepted, history>>

\* The request is answered; the stream is closed, or its check fails.
RequestEnds(r) ==
    /\ request[r].at \in {"granted", "stream", "recheck", "recheckRead"}
    /\ Refuse(r)
    /\ UNCHANGED <<proofs, replayCache, database, update, accepted, history>>

\* The interval of the stream: assertPrincipalEnabled.
RecheckBegins(r) ==
    /\ request[r].at = "stream"
    /\ request' = [request EXCEPT ![r].at = "recheck"]
    /\ UNCHANGED <<proofs, replayCache, database, update, accepted, history>>

\* Mutant: the check only asks for the read capability.
RecheckSkipsUser(r) ==
    /\ request[r].at = "recheck"
    /\ request' = [request EXCEPT ![r].at = "recheckRead"]
    /\ UNCHANGED <<proofs, replayCache, database, update, accepted, history>>

RecheckUser(r) ==
    /\ request[r].at = "recheck"
    /\ IF disabled THEN Refuse(r) ELSE request' = [request EXCEPT ![r].at = "recheckRead"]
    /\ UNCHANGED <<proofs, replayCache, database, update, accepted, history>>

RecheckCapabilities(r) ==
    /\ request[r].at = "recheckRead"
    /\ IF Read \in allowed THEN request' = [request EXCEPT ![r].at = "stream"] ELSE Refuse(r)
    /\ UNCHANGED <<proofs, replayCache, database, update, accepted, history>>

-----------------------------------------------------------------------------
(* setAccess *)

\* The principal is read and both writes are started.
UpdateBegins(u, input) ==
    LET idle == \A v \in Updates : ~update[v].busy IN
    /\ ~update[u].busy
    /\ update' = [v \in Updates |->
                     IF v = u
                     THEN [busy |-> TRUE, input |-> input, pending |-> {"user", "setting"},
                           failed |-> FALSE, alone |-> idle]
                     ELSE [update[v] EXCEPT !.alone = FALSE]]
    /\ settled' = FALSE
    /\ request' = [r \in Requests |-> [request[r] EXCEPT !.settled = FALSE]]
    /\ UNCHANGED <<proofs, replayCache, database, accepted, access>>

WriteUser(u) ==
    /\ "user" \in update[u].pending
    /\ disabled' = update[u].input.disabled
    /\ update' = [update EXCEPT ![u].pending = @ \ {"user"}]
    /\ UNCHANGED <<allowed, proofs, replayCache, request, accepted, history>>

WriteSetting(u) ==
    /\ "setting" \in update[u].pending
    /\ allowed' = update[u].input.capabilities
    /\ update' = [update EXCEPT ![u].pending = @ \ {"setting"}]
    /\ UNCHANGED <<disabled, proofs, replayCache, request, accepted, history>>

\* A write fails, and with it the call; the other write goes on.
WriteFails(u, part) ==
    /\ part \in update[u].pending
    /\ update' = [update EXCEPT ![u].pending = @ \ {part}, ![u].failed = TRUE]
    /\ UNCHANGED <<database, proofs, replayCache, request, accepted, history>>

\* Mutant: only the first write is awaited.
UpdateReturnsEarly(u) ==
    /\ update[u].busy /\ update[u].pending # {"user", "setting"}
    /\ IF update[u].alone /\ ~update[u].failed
       THEN access' = update[u].input /\ settled' = TRUE
       ELSE UNCHANGED history
    /\ update' = [update EXCEPT ![u] = IdleUpdate]
    /\ UNCHANGED <<database, proofs, replayCache, request, accepted>>

\* Both writes are done.  (A call that fails returns before the other write.)
UpdateReturns(u) ==
    /\ update[u].busy /\ update[u].pending = {}
    /\ IF update[u].alone /\ ~update[u].failed
       THEN access' = update[u].input /\ settled' = TRUE
       ELSE UNCHANGED history
    /\ update' = [update EXCEPT ![u] = IdleUpdate]
    /\ UNCHANGED <<database, proofs, replayCache, request, accepted>>

\* The process restarts: what is in progress and the cache are lost, writes that
\* are not done never happen, the database stays.
Restart ==
    /\ replayCache' = [j \in {} |-> 0]
    /\ request' = [r \in Requests |-> IdleRequest]
    /\ update' = [u \in Updates |-> IdleUpdate]
    /\ accepted' = {}
    /\ UNCHANGED <<proofs, database, history>>

-----------------------------------------------------------------------------

Next ==
    \/ Tick
    \/ \E j \in Jtis, drift \in -MaxDrift..MaxDrift : Sign(j, now + drift)
    \/ \E r \in Requests :
          \/ \E j \in Jtis, bound \in BOOLEAN : Deliver(r, j, bound)
          \/ Accept(r) \/ RefuseClaims(r) \/ RefuseCached(r)
          \/ UserRead(r) \/ CapabilitiesRead(r) \/ ReadFails(r)
          \/ StreamOpens(r) \/ RequestEnds(r)
          \/ RecheckBegins(r) \/ RecheckUser(r) \/ RecheckCapabilities(r)
    \/ \E u \in Updates :
          \/ \E input \in Access : UpdateBegins(u, input)
          \/ WriteUser(u) \/ WriteSetting(u) \/ UpdateReturns(u)
          \/ \E part \in {"user", "setting"} : WriteFails(u, part)
    \/ Restart

Spec == Init /\ [][Next]_vars

\* The interval of a stream fires, and the database answers.
Fairness ==
    \A r \in Requests :
        WF_vars(RecheckBegins(r)) /\ WF_vars(RecheckUser(r)) /\ WF_vars(RecheckCapabilities(r))

FairSpec == Spec /\ Fairness

-----------------------------------------------------------------------------
(* Properties *)

\* A proof is accepted at most once by a process: while its window is open the
\* cache holds it, through purges, clock skew and requests refused in between.
NoReplay ==
    [][\A r \in Requests :
          (request[r].at = "body" /\ request'[r].at = "user")
            => request[r].jti \notin accepted]_vars

\* The cache never outgrows its limit.
CacheBounded == Cardinality(DOMAIN replayCache) <= ReplayCacheMaxEntries

\* A proof that has not been used meets no obstacle in its window, on its own
\* request, but a cache full of accepted proofs that are all still in theirs: no
\* entry outlives its use, and no request that was refused has burnt it.
FirstUseIsFree ==
    \A j \in signed \ accepted : InWindow(j) =>
        /\ j \notin DOMAIN Kept
        /\ HasRoom \/ ReplayCacheMaxEntries <=
                Cardinality({k \in accepted : Exp(k) + ClockSkewSeconds >= now})

\* A proof accepted after a setAccess has returned, and that no other has since
\* disturbed, is granted exactly the access it set; a disabled principal gets none.
SettledAccessHolds ==
    [][\A r \in Requests :
          (request[r].settled /\ request'[r].at = "granted" /\ request[r].at = "capabilities")
            => ~access.disabled /\ request'[r].capabilities = access.capabilities]_vars

\* No stream outlives the access it was opened with for ever.
RevokedStreamsEnd ==
    <>[](settled /\ (access.disabled \/ Read \notin access.capabilities))
      => <>[](\A r \in Requests : request[r].at \notin {"stream", "recheck", "recheckRead"})
=============================================================================
