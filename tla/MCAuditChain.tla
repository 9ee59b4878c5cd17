---------------------------- MODULE MCAuditChain ----------------------------
(* Instances of AuditChain, and of RequestAccess over bounded inputs, for TLC. *)
EXTENDS AuditChain, RequestAccess, TLC

Symmetry == Permutations(Calls)

-----------------------------------------------------------------------------
(* RequestAccess against what spec.md says of the roles (lines 224 to 231) and of  *)
(* changes (lines 450, 451 and 602).                                               *)

WebRoles == DOMAIN RoleCapabilities \ {"mcp"}
WebUsers == [role : WebRoles, capabilities : {{}}]
McpUsers == [role : {"mcp"}, capabilities : {{}, {"read"}, DefaultMcpCapabilities}]
Proofs == [user : McpUsers, access : {"read", "readwrite"}, subject : {"service", "client"}]
Routes == DOMAIN Api(NoUser)

Identities ==
    [proof : {NoProof}, session : WebUsers \cup {NoUser}, header : {NoUser}]
        \cup [proof : {NoProof}, session : {NoUser}, header : WebUsers]
        \cup [proof : Proofs, session : {NoUser}, header : {NoUser}]
        \cup [proof : Proofs, session : [role : {"super_admin"}, capabilities : {{}}],
              header : {NoUser}]

Contents ==
    [origin : {"none", "own", "other"}, body : {"valid", "invalid"},
     credentials : {"custom", "dynsec"}, keyFile : BOOLEAN,
     fails : {"none", "effect", "audit", "refresh"}]

Requests == {i @@ c : i \in Identities, c \in Contents}
Best == [origin |-> "own", body |-> "valid", credentials |-> "custom", keyFile |-> TRUE,
         fails |-> "none"]
As(user) == Best @@ [proof |-> NoProof, session |-> user, header |-> NoUser]

\* An answer of success means that all is done and, but for the heartbeat, recorded; a
\* refusal that nothing is; and what the log records as a success was done.
ASSUME AnswersTellWhatWasDone ==
    \A name \in Routes, request \in Requests :
        LET answer == Answer(name, request)
            changes == Api(CurrentUser(request))[name].changes
        IN  /\ answer.status \in {200, 201} =>
                   /\ answer.changes = changes
                   /\ answer.audited <=> (changes # {} /\ name # "heartbeat")
            /\ answer.status \in 400..404 => answer.changes = {} /\ ~answer.audited
            /\ answer.audited => answer.changes = changes

\* A page of another site changes nothing with the browser's cookies or headers.
ASSUME OtherOriginsChangeNothing ==
    \A name \in Routes, request \in Requests :
        request.origin = "other" /\ request.proof = NoProof =>
            Answer(name, request).changes = {}

\* What each role can change.  A snapshot import that is applied pushes the broker
\* config, and the roles that manage snapshots may ask for it.
Changes(request) == UNION {Answer(name, request).changes : name \in Routes}
Explorer == {"explorer", "messages"}
Intent ==
    [viewer |-> Explorer,
     operator |-> Explorer \cup {"snapshots", "broker config"},
     security_admin |-> Explorer \cup {"snapshots", "broker config", "dynsec",
                                       "client defaults"},
     broker_admin |-> Explorer \cup {"snapshots", "broker config", "broker"},
     super_admin |-> Explorer \cup {"snapshots", "broker config", "broker", "dynsec",
                                    "client defaults", "accounts", "mcp access"}]

ASSUME RolesChangeTheirOwn ==
    /\ \A user \in WebUsers : Changes(As(user)) = Intent[user.role]
    /\ Changes(As(NoUser)) = {}

\* A proof that only reads reaches the explorer and the heartbeat, the server's own
\* identity the heartbeat alone, and none decides the access of MCP itself, whoever's
\* session cookie comes with it.
ASSUME ProofsStayWithin ==
    \A name \in Routes, request \in {r \in Requests : r.proof # NoProof} :
        LET changes == Answer(name, request).changes
        IN  /\ request.proof.access = "read" => changes \subseteq {"explorer", "heartbeat"}
            /\ request.proof.subject = "service" => changes \subseteq {"heartbeat"}
            /\ changes \cap {"mcp access"} = {}

\* The navigation lists the pages that load, and what a page shows a user of the web
\* application is what the API answers the same user.
AnsweredBy ==
    [users |-> {"getUsers"}, dashboard |-> {"dashboard", "diagnostics"}, audit |-> {"getAudit"},
     dynsec |-> {"getClients", "getGroups", "getRoles"}, explorer |-> {"state", "events"}]
        @@ ("client defaults" :> {"getDefaults"} @@ "broker config" :> {"pull"}
            @@ "mcp access" :> {"getMcp"} @@ "snapshots" :> {})

ASSUME PagesAgreeWithTheApi ==
    \A user \in WebUsers, page \in DOMAIN NavNeeds :
        LET shown == LoadPage(page, user)
        IN  /\ page \in BuildAppNavItems(user) <=> shown # {"error"}
            /\ \A item \in shown \ {"error"} : \A name \in AnsweredBy[item] :
                   Answer(name, As(user)).status = 200
=============================================================================
