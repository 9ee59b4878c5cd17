--------------------------- MODULE RequestAccess ---------------------------
(***************************************************************************)
(* Who may ask the web application for what, and what an answer means      *)
(* (hooks.server.ts, permissions/index.ts, http.ts, mqtt/access.ts, the    *)
(* routes under routes/api and the load functions of the pages).           *)
(*                                                                         *)
(* A route is a record:                                                    *)
(*   method   its HTTP method                                              *)
(*   needs    the capability it requires                                   *)
(*   checks   what can refuse the request, in the order of the handler     *)
(*   calls    what the handler then awaits, in order                       *)
(*   changes  what the effect changes                                      *)
(* A request carries the identities its headers and cookies stand for, and *)
(* what of its origin and body the checks look at; "fails" names the call  *)
(* that fails.  What an MCP proof must hold to be accepted is in McpAuth,  *)
(* what becomes of a session in AppSessions.                               *)
(***************************************************************************)
EXTENDS Naturals, Sequences, FiniteSets, SequencesExt

CONSTANTS NoUser, NoProof

-----------------------------------------------------------------------------
(* Capabilities *)

Capabilities == {"read", "operate", "manage_broker", "manage_security", "manage_users",
                 "view_audit", "manage_snapshots", "manage_mcp"}

DefaultMcpCapabilities == Capabilities \ {"manage_mcp"}

RoleCapabilities ==
    [viewer         |-> {"read"},
     operator       |-> {"read", "operate", "view_audit", "manage_snapshots"},
     security_admin |-> {"read", "manage_security", "view_audit", "manage_snapshots"},
     broker_admin   |-> {"read", "operate", "manage_broker", "view_audit", "manage_snapshots"},
     super_admin    |-> Capabilities,
     mcp            |-> DefaultMcpCapabilities]

HasCapability(user, capability) ==
    /\ user # NoUser
    /\ IF user.role = "mcp"
       THEN capability # "manage_mcp" /\ capability \in user.capabilities
       ELSE capability \in RoleCapabilities[user.role]

-----------------------------------------------------------------------------
(* Routes *)

ReadRoute(capability) ==
    [method |-> "GET", needs |-> capability, checks |-> <<"capability">>,
     calls |-> <<"effect">>, changes |-> {}]

WriteRoute(method, capability, changes) ==
    [method |-> method, needs |-> capability, checks |-> <<"origin", "capability", "body">>,
     calls |-> <<"effect", "audit">>, changes |-> changes]

\* A handler that reads no body.
Bodiless(route) == [route EXCEPT !.checks = <<"origin", "capability">>]

\* A handler that has the dashboard refreshed once the audit entry is written.
Refreshes(route) == [route EXCEPT !.calls = <<"effect", "audit", "refresh">>]

GetUsers == ReadRoute("manage_users")
CreateUser == WriteRoute("POST", "manage_users", {"accounts"})
UpdateUser == WriteRoute("PATCH", "manage_users", {"accounts"})
DeleteUser == Bodiless(WriteRoute("DELETE", "manage_users", {"accounts"}))

PullConfig == ReadRoute("manage_broker")
PushConfig == Refreshes(WriteRoute("POST", "manage_broker", {"broker config"}))
ReloadBroker == Bodiless(Refreshes(WriteRoute("POST", "manage_broker", {"broker"})))
RestartBroker == Bodiless(Refreshes(WriteRoute("POST", "manage_broker", {"broker"})))
ListKeyFiles == ReadRoute("read")
ReadKeyFile == [ReadRoute("read") EXCEPT !.checks = <<"capability", "key file">>]

GetClients == ReadRoute("read")
CreateClient == WriteRoute("POST", "manage_security", {"dynsec"})
GetEffective == ReadRoute("read")
UpdateClient == WriteRoute("PATCH", "manage_security", {"dynsec"})
DeleteClient == Bodiless(WriteRoute("DELETE", "manage_security", {"dynsec"}))
GetGroups == ReadRoute("read")
CreateGroup == WriteRoute("POST", "manage_security", {"dynsec"})
UpdateGroup == WriteRoute("PATCH", "manage_security", {"dynsec"})
DeleteGroup == Bodiless(WriteRoute("DELETE", "manage_security", {"dynsec"}))
GetRoles == ReadRoute("read")
CreateRole == WriteRoute("POST", "manage_security", {"dynsec"})
UpdateRole == WriteRoute("PATCH", "manage_security", {"dynsec"})
DeleteRole == Bodiless(WriteRoute("DELETE", "manage_security", {"dynsec"}))
GetClientDefaults == ReadRoute("read")
SetClientDefaults == WriteRoute("PATCH", "manage_security", {"client defaults"})

ExportSnapshot == WriteRoute("POST", "manage_snapshots", {"snapshots"})
ImportSnapshot == WriteRoute("POST", "manage_snapshots", {"broker config"})
GetAudit == ReadRoute("view_audit")
GetDiagnostics == ReadRoute("read")
GetDashboard == ReadRoute("read")

\* The routes of the explorer: requireMqttSessionUser checks the origin if it is asked
\* to, and always the capability to read.
MqttRoute == WriteRoute("POST", "read", {"explorer"})
ConnectExplorer ==
    [MqttRoute EXCEPT !.checks = <<"origin", "capability", "body", "credentials">>]
DisconnectExplorer == Bodiless(MqttRoute)
Publish == [MqttRoute EXCEPT !.changes = {"messages"}]
Subscribe == MqttRoute
Unsubscribe == MqttRoute
ChangeMessages == MqttRoute
GetExplorerState == ReadRoute("read")
WatchEvents == ReadRoute("read")

GetMcpAccess(user) ==
    ReadRoute(IF user # NoUser /\ user.role = "mcp" THEN "read" ELSE "manage_mcp")
SetMcpAccess ==
    [WriteRoute("PATCH", "manage_mcp", {"mcp access"}) EXCEPT
        !.calls = <<"effect", "refresh", "audit">>]
Heartbeat ==
    [WriteRoute("POST", "read", {"heartbeat"}) EXCEPT
        !.checks = <<"service", "body">>, !.calls = <<"effect", "refresh">>]

Api(user) ==
    [getUsers |-> GetUsers, createUser |-> CreateUser, updateUser |-> UpdateUser,
     deleteUser |-> DeleteUser, pull |-> PullConfig, push |-> PushConfig,
     reload |-> ReloadBroker, restart |-> RestartBroker, keyFiles |-> ListKeyFiles,
     keyFile |-> ReadKeyFile, getClients |-> GetClients, createClient |-> CreateClient,
     getEffective |-> GetEffective, updateClient |-> UpdateClient,
     deleteClient |-> DeleteClient, getGroups |-> GetGroups, createGroup |-> CreateGroup,
     updateGroup |-> UpdateGroup, deleteGroup |-> DeleteGroup, getRoles |-> GetRoles,
     createRole |-> CreateRole, updateRole |-> UpdateRole, deleteRole |-> DeleteRole,
     getDefaults |-> GetClientDefaults, setDefaults |-> SetClientDefaults,
     export |-> ExportSnapshot, import |-> ImportSnapshot, getAudit |-> GetAudit,
     diagnostics |-> GetDiagnostics, dashboard |-> GetDashboard,
     connect |-> ConnectExplorer, disconnect |-> DisconnectExplorer, publish |-> Publish,
     subscribe |-> Subscribe, unsubscribe |-> Unsubscribe, messages |-> ChangeMessages,
     state |-> GetExplorerState, events |-> WatchEvents, getMcp |-> GetMcpAccess(user),
     setMcp |-> SetMcpAccess, heartbeat |-> Heartbeat]

-----------------------------------------------------------------------------
(* A request *)

\* What the claims of an accepted proof still forbid.
TransientReads ==
    {"heartbeat", "connect", "disconnect", "messages", "subscribe", "unsubscribe"}

ProofForbids(proof, name, method) ==
    \/ proof.access = "read" /\ method # "GET" /\ name \notin TransientReads
    \/ proof.subject = "service" /\ name # "heartbeat"

\* handle: a proof excludes the session, and the session the trusted headers.
CurrentUser(request) ==
    IF request.proof # NoProof THEN request.proof.user
    ELSE IF request.session # NoUser THEN request.session ELSE request.header

RequireSameOrigin(request) == request.origin \in {"none", "own"}

ParseRequestJson(request) == request.body = "valid"

RequireMqttDynsec(user, request) ==
    request.credentials = "dynsec" => HasCapability(user, "manage_broker")

IsService(request) == request.proof # NoProof /\ request.proof.subject = "service"

Passes(check, route, user, request) ==
    CASE check = "origin"      -> RequireSameOrigin(request)
      [] check = "capability"  -> HasCapability(user, route.needs)
      [] check = "service"     -> IsService(request)
      [] check = "body"        -> ParseRequestJson(request)
      [] check = "key file"    -> request.keyFile
      [] check = "credentials" -> RequireMqttDynsec(user, request)

\* requireCapability and the other refusals.
Refusal(check, user) ==
    CASE check \in {"capability", "credentials"} -> IF user = NoUser THEN 401 ELSE 403
      [] check = "origin"               -> 403
      [] check \in {"body", "key file"} -> 400
      [] check = "service"              -> 404

Created == {"createUser", "createClient", "createGroup", "createRole"}

\* The calls that come before the one that fails.
Finished(route, request) ==
    LET failing == {i \in DOMAIN route.calls : route.calls[i] = request.fails}
    IN  {route.calls[i] : i \in {j \in DOMAIN route.calls : \A k \in failing : j < k}}

Refused(status) == [status |-> status, changes |-> {}, audited |-> FALSE]

\* handleApiError: a call that fails is answered with an error, whatever was done.
Handle(name, route, user, request) ==
    LET refusing == {i \in DOMAIN route.checks :
                        ~Passes(route.checks[i], route, user, request)}
        done == Finished(route, request)
    IN  IF refusing # {}
        THEN Refused(Refusal(route.checks[Min(refusing)], user))
        ELSE [status  |-> IF done # Range(route.calls) THEN 500
                          ELSE IF name \in Created THEN 201 ELSE 200,
              changes |-> IF "effect" \in done THEN route.changes ELSE {},
              audited |-> "audit" \in done]

Answer(name, request) ==
    LET user == CurrentUser(request)
        route == Api(user)[name]
    IN  IF request.proof # NoProof /\ ProofForbids(request.proof, name, route.method)
        THEN Refused(403) ELSE Handle(name, route, user, request)

-----------------------------------------------------------------------------
(* Pages: what a user must be capable of to load each, and what it then shows. *)

\* requirePageCapability, or no guard but the one of the layout.
RequirePageCapability(user, capability, shown) ==
    IF HasCapability(user, capability) THEN shown ELSE {"error"}

If(user, capability, shown) == IF HasCapability(user, capability) THEN shown ELSE {}

DashboardPage(user) == {"dashboard"} \cup If(user, "view_audit", {"audit"})
AppUsersPage(user) ==
    RequirePageCapability(user, "manage_users",
                          {"users"} \cup If(user, "manage_mcp", {"mcp access"}))
DynsecPage(user) == {"dynsec", "client defaults"}
MqttPage(user) ==
    RequirePageCapability(user, "read", {"explorer"} \cup If(user, "manage_broker", {"dynsec"}))
ConfigPage(user) == If(user, "manage_broker", {"broker config"})
AuditPage(user) == RequirePageCapability(user, "view_audit", {"audit"})
SnapshotsPage(user) == RequirePageCapability(user, "manage_snapshots", {"snapshots"})

Shown(user) ==
    [dashboard |-> DashboardPage(user), app_users |-> AppUsersPage(user),
     dynsec |-> DynsecPage(user), mqtt |-> MqttPage(user), config |-> ConfigPage(user),
     audit |-> AuditPage(user), snapshots |-> SnapshotsPage(user)]

\* The layout sends a request without a user to the login page.
LoadPage(page, user) == IF user = NoUser THEN {"login"} ELSE Shown(user)[page]

NavNeeds ==
    [dashboard |-> "read", app_users |-> "manage_users", dynsec |-> "read", mqtt |-> "read",
     config |-> "read", audit |-> "view_audit", snapshots |-> "manage_snapshots"]

BuildAppNavItems(user) == {page \in DOMAIN NavNeeds : HasCapability(user, NavNeeds[page])}
=============================================================================
