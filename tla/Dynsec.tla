------------------------------- MODULE Dynsec -------------------------------
(***************************************************************************)
(* Dynamic security: DynsecService (dynsec/service.ts), its bootstrap when *)
(* the API starts (context.ts), and the broker's roles, clients and groups *)
(* which it changes by one command at a time, through the agent.           *)
(*                                                                         *)
(* A command may be refused or lost, and it may be carried out without an  *)
(* answer.  What the service reads is the broker's state file, which lags  *)
(* behind the broker.  Several requests run at once, next to the           *)
(* bootstrap, and the API may stop at any point and start again.           *)
(*                                                                         *)
(* Left out: priorities, memberships of groups and client ids, which no    *)
(* step below depends on (EffectiveAcls has the first two); the number of  *)
(* attempts and the pauses between them; the status reported to the        *)
(* dashboard.                                                              *)
(***************************************************************************)
EXTENDS Integers, Sequences, FiniteSets, SequencesExt

CONSTANTS
    Clients,        \* usernames
    Groups,
    CustomRoles,    \* names of roles that are neither bootstrap nor reserved
    Acls,           \* the entries a bootstrap role needs
    Calls,          \* slots for createClient
    Asked,          \* what is asked of createClient: a password, a disabled client
    MaxRequests,    \* bound on the requests: creations, pages and other changes
    MaxChanges,     \* bound on the other changes
    None

\* dynsecBootstrapDefaultRoleName, ReadWriteRoleName and LegacyBootstrapRoleName.
ReadAll == "read-all"
ReadWriteAll == "read-write-all"
Legacy == "mqttctl-default"
BootstrapRoles == {ReadAll, ReadWriteAll}
Roles == BootstrapRoles \cup {Legacy} \cup CustomRoles

ASSUME DynsecAssumption ==
    /\ IsFiniteSet(Clients) /\ IsFiniteSet(Groups) /\ IsFiniteSet(Acls)
    /\ Clients # {}
    /\ CustomRoles \cap {ReadAll, ReadWriteAll, Legacy} = {}
    /\ Asked \subseteq [password : BOOLEAN, disabled : BOOLEAN]
    /\ MaxRequests \in Nat /\ MaxChanges \in Nat
    /\ None \notin Roles \cup Calls /\ \A s \in (SUBSET Acls) \cup (SUBSET Roles) : None # s

VARIABLES
    role,           \* the broker: the entries of each role, or None
    client,         \* the broker: the clients, or None
    group,          \* the broker: the roles of each group
    file,           \* the state file: roles, and who holds them
    default,        \* the setting clientDefaults
    initialized,    \* the setting bootstrapDefaultRoleInitialized
    grace,          \* bootstrapDefaultRoleProvisionedAt
    boot,           \* ensureBootstrapDefaultRole
    call,           \* the requests under way of which several steps are told apart
    requests,       \* how many requests there were
    changes,        \* how many of them were neither a creation nor a page
    unsaved,        \* history: roles were changed by requests since the file was written
    vouched,        \* history: the bootstrap provided its default role, which is there
    doubted,        \* history: a request ended the grace period before the file showed it
    chosen          \* history: an operator has chosen the default after the bootstrap

broker == <<role, client, group>>
settings == <<default, initialized>>
history == <<requests, changes, unsaved, vouched, doubted, chosen>>
vars == <<broker, file, settings, grace, boot, call, history>>

-----------------------------------------------------------------------------
(* Types *)

Client == [password : BOOLEAN, enabled : BOOLEAN, roles : SUBSET Roles]
Default == Roles \cup {None}
File == [role : [Roles -> (SUBSET Acls) \cup {None}],
         client : [Clients -> (SUBSET Roles) \cup {None}],
         group : [Groups -> SUBSET Roles]]
Command == [op : {"createRole", "addRoleACL", "deleteRole", "addClientRole",
                  "removeClientRole", "addGroupRole", "removeGroupRole"},
            name : Roles \cup Clients \cup Groups, arg : Roles \cup Acls \cup {None}]

\* The bootstrap: where it is, the default role it has read, the commands still to
\* run, those for one holder of the legacy role together, and (history) whether
\* requests have changed roles behind its back.
Boot == [at : {"wait", "read", "run", "provide", "mark", "ended"},
         role : Roles \cup {None}, todo : Seq(Seq(Command)), setAsDefault : BOOLEAN,
         meddled : BOOLEAN]

\* A createClient, up to "undone", the deletion of the default role, or a page.
\* own says what has become of the client it has created, and late (history) that
\* the grace period ended after it had read a file without its role.
CallRecord == [at : {"idle", "check", "found", "missing", "create", "password", "role",
                     "disable", "rollback", "created", "undone", "deleted", "loads", "shows"},
               client : Clients, password : BOOLEAN, disabled : BOOLEAN,
               role : Roles \cup {None},
               own : {"none", "there", "touched", "gone"}, late : BOOLEAN]

TypeOK ==
    /\ role \in [Roles -> (SUBSET Acls) \cup {None}]
    /\ client \in [Clients -> Client \cup {None}]
    /\ group \in [Groups -> SUBSET Roles]
    /\ \A r \in Roles : role[r] = None =>
          /\ \A u \in Clients : client[u] # None => r \notin client[u].roles
          /\ \A g \in Groups : r \notin group[g]
    /\ file \in File
    /\ default \in Default /\ initialized \in BOOLEAN
    /\ grace \in {"none", "unsaved", "saved"}
    /\ boot \in Boot
    /\ call \in [Calls -> CallRecord]
    /\ requests \in 0..MaxRequests /\ changes \in 0..MaxChanges
    /\ <<unsaved, vouched>> \in BOOLEAN \X BOOLEAN
    /\ <<doubted, chosen>> \in BOOLEAN \X BOOLEAN

-----------------------------------------------------------------------------
(* The state file *)

\* The state as far as it is read: the roles, and who holds those of the migration.
Migrated(roles) == roles \cap {Legacy, ReadWriteAll}
Current == [role |-> role,
            client |-> [u \in Clients |-> IF client[u] = None THEN None ELSE Migrated(client[u].roles)],
            group |-> [g \in Groups |-> Migrated(group[g])]]

\* The broker writes its state.
Saves ==
    /\ file # Current \/ grace = "unsaved"
    /\ file' = Current
    /\ unsaved' = FALSE /\ doubted' = FALSE
    /\ grace' = IF grace = "unsaved" THEN "saved" ELSE grace
    /\ UNCHANGED <<broker, settings, boot, call, requests, changes, vouched, chosen>>

InFile(r) == file.role[r] # None

-----------------------------------------------------------------------------
(* Initial states: of a broker as it was set up, with the roles of an older *)
(* version or those of an operator.                                         *)

IdleCall == [at |-> "idle", client |-> CHOOSE u \in Clients : TRUE, password |-> FALSE,
             disabled |-> FALSE, role |-> None, own |-> "none", late |-> FALSE]
Waiting == [at |-> "wait", role |-> None, todo |-> <<>>, setAsDefault |-> FALSE,
            meddled |-> FALSE]

Init ==
    /\ \E present \in SUBSET (CustomRoles \cup {Legacy}), held \in SUBSET {Legacy} :
          /\ held \subseteq present
          /\ role = [r \in Roles |-> IF r \in present THEN {} ELSE None]
          /\ client \in [Clients -> {None, [password |-> TRUE, enabled |-> TRUE, roles |-> held]}]
          /\ group = [g \in Groups |-> held]
          /\ default \in present \cup {None}
    /\ file = Current
    /\ initialized \in {FALSE, default # None}
    /\ grace = "none"
    /\ boot = Waiting
    /\ call = [c \in Calls |-> IdleCall]
    /\ requests = 0 /\ changes = 0
    /\ unsaved = FALSE /\ vouched = FALSE /\ doubted = FALSE /\ chosen = FALSE

-----------------------------------------------------------------------------
(* What the broker does with a command that it accepts. *)

CreateRole(r) ==
    /\ role[r] = None
    /\ role' = [role EXCEPT ![r] = {}]
    /\ UNCHANGED <<client, group>>

\* Mutant: who held the role still does.
DeleteRoleOnly(r) ==
    /\ role[r] # None
    /\ role' = [role EXCEPT ![r] = None]
    /\ UNCHANGED <<client, group>>

DeleteRole(r) ==
    /\ role[r] # None
    /\ role' = [role EXCEPT ![r] = None]
    /\ client' = [u \in Clients |-> IF client[u] = None THEN None
                                    ELSE [client[u] EXCEPT !.roles = @ \ {r}]]
    /\ group' = [g \in Groups |-> group[g] \ {r}]

AddRoleAcl(r, a) ==
    /\ role[r] # None /\ a \notin role[r]
    /\ role' = [role EXCEPT ![r] = @ \cup {a}]
    /\ UNCHANGED <<client, group>>

RemoveRoleAcl(r, a) ==
    /\ role[r] # None /\ a \in role[r]
    /\ role' = [role EXCEPT ![r] = @ \ {a}]
    /\ UNCHANGED <<client, group>>

CreatesClient(u) ==
    /\ client[u] = None
    /\ client' = [client EXCEPT ![u] = [password |-> FALSE, enabled |-> TRUE, roles |-> {}]]
    /\ UNCHANGED <<role, group>>

DeleteClient(u) ==
    /\ client[u] # None
    /\ client' = [client EXCEPT ![u] = None]
    /\ UNCHANGED <<role, group>>

SetClientPassword(u) ==
    /\ client[u] # None
    /\ client' = [client EXCEPT ![u].password = TRUE]
    /\ UNCHANGED <<role, group>>

SetClientEnabled(u, enabled) ==
    /\ client[u] # None
    /\ client' = [client EXCEPT ![u].enabled = enabled]
    /\ UNCHANGED <<role, group>>

AssignClientRole(u, r) ==
    /\ client[u] # None /\ role[r] # None /\ r \notin client[u].roles
    /\ client' = [client EXCEPT ![u].roles = @ \cup {r}]
    /\ UNCHANGED <<role, group>>

RemoveClientRole(u, r) ==
    /\ client[u] # None /\ r \in client[u].roles
    /\ client' = [client EXCEPT ![u].roles = @ \ {r}]
    /\ UNCHANGED <<role, group>>

AddGroupRole(g, r) ==
    /\ role[r] # None /\ r \notin group[g]
    /\ group' = [group EXCEPT ![g] = @ \cup {r}]
    /\ UNCHANGED <<role, client>>

RemoveGroupRole(g, r) ==
    /\ r \in group[g]
    /\ group' = [group EXCEPT ![g] = @ \ {r}]
    /\ UNCHANGED <<role, client>>

\* A command whose answer is lost, or that is not carried out.
Unanswered(Command_) == Command_ \/ UNCHANGED broker

-----------------------------------------------------------------------------
(* History *)

\* What has become of the clients that the calls created.
Followed == [c \in Calls |->
    LET u == call[c].client
    IN  IF call[c].own \notin {"there", "touched"} THEN call[c]
        ELSE IF client'[u] = None THEN [call[c] EXCEPT !.own = "gone"]
        ELSE IF client'[u] # client[u] THEN [call[c] EXCEPT !.own = "touched"]
        ELSE call[c]]

RolesChange ==
    \/ role' # role \/ group' # group
    \/ \E u \in Clients : client[u] # None /\ client'[u] # None /\ client'[u].roles # client[u].roles

\* A request has changed the broker.
Requested ==
    /\ unsaved' = (unsaved \/ RolesChange)
    /\ boot' = [boot EXCEPT !.meddled = @ \/ (boot.at = "run" /\ RolesChange)]
    /\ chosen' = (chosen /\ role'[Legacy] = None)

-----------------------------------------------------------------------------
(* The grace period *)

\* Mutant: a role that is not in the file is missing, provided just now or not.
IsMissing(found, r) == ~found

\* isConfiguredDefaultRoleMissing, of a state that was read before.
IsConfiguredDefaultRoleMissing(found, r) == ~found /\ (r # ReadAll \/ grace = "none")

\* Who has read a file without the role is to judge it without the grace.
Overtaken(calls) == [c \in Calls |-> [calls[c] EXCEPT !.late = @ \/ calls[c].at = "missing"]]

\* clearBootstrapDefaultRoleProvisioned, and what the calls are after the step.
Clears(calls) ==
    /\ grace' = "none"
    /\ call' = IF grace = "none" THEN calls ELSE Overtaken(calls)

\* A request has done so.
Doubts == doubted' = (doubted \/ (vouched /\ ~InFile(ReadAll)))

\* Ten seconds after the bootstrap: the file shows by then what it provided.
GraceExpires ==
    /\ grace = "saved"
    /\ Clears(call)
    /\ UNCHANGED <<broker, file, settings, boot, history>>

\* The page for dynamic security reads the state, then the default, and judges the
\* one by the other later.  Only a state with the role makes it change anything.
PageReads(c) ==
    /\ call[c].at = "idle" /\ InFile(ReadAll)
    /\ requests < MaxRequests /\ requests' = requests + 1
    /\ call' = [call EXCEPT ![c].at = "loads"]
    /\ UNCHANGED <<broker, file, settings, grace, boot, changes, unsaved, vouched, doubted, chosen>>

PageReadsDefault(c) ==
    /\ call[c].at = "loads"
    /\ call' = [call EXCEPT ![c].at = IF default = ReadAll THEN "shows" ELSE "idle"]
    /\ UNCHANGED <<broker, file, settings, grace, boot, history>>

PageShows(c) ==
    /\ call[c].at = "shows"
    /\ Clears([call EXCEPT ![c].at = "idle"])
    /\ Doubts
    /\ UNCHANGED <<broker, file, settings, boot, requests, changes, unsaved, vouched, chosen>>

-----------------------------------------------------------------------------
(* createClient *)

\* The step of createClient that comes next.
AfterRole(k) == IF k.disabled THEN "disable" ELSE "created"
Assign(k) == IF k.role # None THEN "role" ELSE AfterRole(k)
Secure(k) == IF k.password THEN "password" ELSE Assign(k)

\* POST /api/dynsec/clients: the default role is read.
CreateBegins(c) ==
    /\ call[c].at = "idle"
    /\ requests < MaxRequests
    /\ requests' = requests + 1
    /\ \E u \in Clients, asked \in Asked :
          call' = [call EXCEPT ![c] =
              [at |-> IF default = None THEN "create" ELSE "check", client |-> u,
               password |-> asked.password, disabled |-> asked.disabled,
               role |-> default, own |-> "none", late |-> FALSE]]
    /\ UNCHANGED <<broker, file, settings, grace, boot, changes, unsaved, vouched, doubted, chosen>>

\* The file is read, by way of the agent.
CheckReads(c) ==
    /\ call[c].at = "check"
    /\ call' = [call EXCEPT ![c].at = IF InFile(call[c].role) THEN "found" ELSE "missing",
                            ![c].late = doubted]
    /\ UNCHANGED <<broker, file, settings, grace, boot, history>>

\* What it held then is judged now.
CheckPasses(c) ==
    LET found == call[c].at = "found"
        passed == [call EXCEPT ![c].at = "create", ![c].late = FALSE]
    IN  /\ call[c].at \in {"found", "missing"}
        /\ ~IsConfiguredDefaultRoleMissing(found, call[c].role)
        /\ IF found /\ call[c].role = ReadAll THEN Clears(passed) /\ Doubts
           ELSE call' = passed /\ UNCHANGED <<grace, doubted>>
        /\ UNCHANGED <<broker, file, settings, boot, requests, changes, unsaved, vouched, chosen>>

CheckRefuses(c) ==
    /\ call[c].at \in {"found", "missing"}
    /\ IsConfiguredDefaultRoleMissing(call[c].at = "found", call[c].role)
    /\ call' = [call EXCEPT ![c] = IdleCall]
    /\ UNCHANGED <<broker, file, settings, grace, boot, history>>

Creates(c) ==
    /\ call[c].at = "create"
    /\ CreatesClient(call[c].client)
    /\ call' = [Followed EXCEPT ![c].at = Secure(call[c]), ![c].own = "there"]
    /\ Requested
    /\ UNCHANGED <<file, settings, grace, requests, changes, vouched, doubted>>

SetsPassword(c) ==
    /\ call[c].at = "password"
    /\ SetClientPassword(call[c].client)
    /\ call' = [Followed EXCEPT ![c].at = Assign(call[c]), ![c].own = call[c].own]
    /\ Requested
    /\ UNCHANGED <<file, settings, grace, requests, changes, vouched, doubted>>

AssignsRole(c) ==
    /\ call[c].at = "role"
    /\ AssignClientRole(call[c].client, call[c].role)
    /\ call' = [Followed EXCEPT ![c].at = AfterRole(call[c]), ![c].own = call[c].own]
    /\ Requested
    /\ UNCHANGED <<file, settings, grace, requests, changes, vouched, doubted>>

\* The role could not be assigned: the client is to be deleted again.
AssignFails(c) ==
    /\ call[c].at = "role"
    /\ Unanswered(AssignClientRole(call[c].client, call[c].role))
    /\ LET undoing == [Followed EXCEPT ![c].at = "rollback", ![c].own = call[c].own]
       IN  IF call[c].role = ReadAll THEN Clears(undoing) /\ Doubts
           ELSE call' = undoing /\ UNCHANGED <<grace, doubted>>
    /\ Requested
    /\ UNCHANGED <<file, settings, requests, changes, vouched>>

RollsBack(c) ==
    /\ call[c].at = "rollback"
    /\ DeleteClient(call[c].client)
    /\ call' = [Followed EXCEPT ![c].at = "undone"]
    /\ Requested
    /\ UNCHANGED <<file, settings, grace, requests, changes, vouched, doubted>>

Disables(c) ==
    /\ call[c].at = "disable"
    /\ SetClientEnabled(call[c].client, FALSE)
    /\ call' = [Followed EXCEPT ![c].at = "created", ![c].own = call[c].own]
    /\ Requested
    /\ UNCHANGED <<file, settings, grace, requests, changes, vouched, doubted>>

\* Mutant: whatever fails, the client is deleted again.
CreateFailsAndRollsBack(c) ==
    /\ call[c].at \in {"create", "password", "disable"}
    /\ call' = [call EXCEPT ![c].at = "rollback"]
    /\ UNCHANGED <<broker, file, settings, grace, boot, history>>

\* Any other command fails, or the file cannot be read: so does the call, and what
\* is done stays done.
CreateFails(c) ==
    LET k == call[c]
    IN  /\ \/ k.at = "check" /\ UNCHANGED broker
           \/ k.at = "create" /\ Unanswered(CreatesClient(k.client))
           \/ k.at = "password" /\ Unanswered(SetClientPassword(k.client))
           \/ k.at = "disable" /\ Unanswered(SetClientEnabled(k.client, FALSE))
           \/ k.at = "rollback" /\ Unanswered(DeleteClient(k.client))
        /\ call' = [Followed EXCEPT ![c] = IdleCall]
        /\ Requested
        /\ UNCHANGED <<file, settings, grace, requests, changes, vouched, doubted>>

Returns(c) ==
    /\ call[c].at \in {"created", "undone"}
    /\ call' = [call EXCEPT ![c] = IdleCall]
    /\ UNCHANGED <<broker, file, settings, grace, boot, history>>

-----------------------------------------------------------------------------
(* The other requests of operators, each a single command. *)

\* Roles: POST /api/dynsec/roles, and PATCH and DELETE of one of them.  A new role
\* must not be in the file.
ChangesRole ==
    \/ \E r \in Roles : (~InFile(r) /\ CreateRole(r)) \/ DeleteRole(r)
    \/ \E r \in BootstrapRoles, a \in Acls : AddRoleAcl(r, a) \/ RemoveRoleAcl(r, a)

\* Clients: PATCH and DELETE of one of them.
ChangesClient ==
    \E u \in Clients :
       \/ DeleteClient(u)
       \/ SetClientPassword(u)
       \/ \E enabled \in BOOLEAN : SetClientEnabled(u, enabled)
       \/ \E r \in Roles : AssignClientRole(u, r) \/ RemoveClientRole(u, r)

\* Groups: PATCH of one of them.
ChangesGroup ==
    \E g \in Groups, r \in Roles : AddGroupRole(g, r) \/ RemoveGroupRole(g, r)

CountsAsChange ==
    /\ requests < MaxRequests /\ requests' = requests + 1
    /\ changes < MaxChanges /\ changes' = changes + 1

OperatorChanges ==
    /\ CountsAsChange
    /\ ChangesRole \/ ChangesClient \/ ChangesGroup
    /\ call' = Followed
    /\ vouched' = (vouched /\ role'[ReadAll] # None)
    /\ Requested
    /\ UNCHANGED <<file, settings, grace, doubted>>

\* The deletion of the bootstrap's default role ends its grace period, once the
\* answer has come.
DeletesDefaultRole(c) ==
    /\ call[c].at = "idle"
    /\ CountsAsChange
    /\ DeleteRole(ReadAll)
    /\ call' = [Followed EXCEPT ![c] = [IdleCall EXCEPT !.at = "deleted"]]
    /\ vouched' = FALSE
    /\ Requested
    /\ UNCHANGED <<file, settings, grace, doubted>>

DeletionAnswered(c) ==
    /\ call[c].at = "deleted"
    /\ Clears([call EXCEPT ![c] = IdleCall])
    /\ Doubts
    /\ UNCHANGED <<broker, file, settings, boot, requests, changes, unsaved, vouched, chosen>>

\* PATCH /api/dynsec/settings/client-defaults.  The choice counts from when the
\* bootstrap is behind it, and as long as there is nothing to migrate.
SetClientDefaults ==
    /\ CountsAsChange
    /\ default' \in Default
    /\ chosen' = /\ initialized /\ boot.at \notin {"read", "run"}
                 /\ default' # Legacy /\ role[Legacy] = None /\ ~InFile(Legacy)
    /\ UNCHANGED <<broker, file, initialized, grace, boot, call, unsaved, vouched, doubted>>

-----------------------------------------------------------------------------
(* The bootstrap *)

Cmd(op, name, arg) == [op |-> op, name |-> name, arg |-> arg]

\* ensureBootstrapRole and ensureBootstrapRoleAcls: what a role lacks in the file.
EnsureBootstrapRole(r) ==
    IF InFile(r) THEN SetToSeq({<<Cmd("addRoleACL", r, a)>> : a \in Acls \ file.role[r]})
    ELSE <<<<Cmd("createRole", r, None)>>>> \o SetToSeq({<<Cmd("addRoleACL", r, a)>> : a \in Acls})

\* Mutant: the legacy role goes first.
MigrateHolderBack(name, roles, add, remove) ==
    <<Cmd(remove, name, Legacy)>>
        \o (IF ReadWriteAll \in roles THEN <<>> ELSE <<Cmd(add, name, ReadWriteAll)>>)

\* migrateLegacyBootstrapRole: who holds the legacy role in the file gets the other
\* one first.
MigrateHolder(name, roles, add, remove) ==
    (IF ReadWriteAll \in roles THEN <<>> ELSE <<Cmd(add, name, ReadWriteAll)>>)
        \o <<Cmd(remove, name, Legacy)>>

MigrateClients ==
    LET holders == {u \in Clients : file.client[u] # None /\ Legacy \in file.client[u]}
    IN  SetToSeq({MigrateHolder(u, file.client[u], "addClientRole", "removeClientRole") :
                     u \in holders})

MigrateGroups ==
    LET holders == {g \in Groups : Legacy \in file.group[g]}
    IN  SetToSeq({MigrateHolder(g, file.group[g], "addGroupRole", "removeGroupRole") :
                     g \in holders})

MigrateLegacyBootstrapRole ==
    IF ~InFile(Legacy) THEN <<>>
    ELSE MigrateClients \o MigrateGroups \o <<<<Cmd("deleteRole", Legacy, None)>>>>

EnsureManagedBootstrapRoles ==
    EnsureBootstrapRole(ReadAll) \o EnsureBootstrapRole(ReadWriteAll) \o MigrateLegacyBootstrapRole

\* The broker carries out a command of the bootstrap; createRole asks the file once
\* more.
Executes(c) ==
    \/ \E r \in BootstrapRoles :
          \/ c = Cmd("createRole", r, None) /\ ~InFile(r) /\ CreateRole(r)
          \/ \E a \in Acls : c = Cmd("addRoleACL", r, a) /\ AddRoleAcl(r, a)
    \/ \E u \in Clients :
          \/ c = Cmd("addClientRole", u, ReadWriteAll) /\ AssignClientRole(u, ReadWriteAll)
          \/ c = Cmd("removeClientRole", u, Legacy) /\ RemoveClientRole(u, Legacy)
    \/ \E g \in Groups :
          \/ c = Cmd("addGroupRole", g, ReadWriteAll) /\ AddGroupRole(g, ReadWriteAll)
          \/ c = Cmd("removeGroupRole", g, Legacy) /\ RemoveGroupRole(g, Legacy)
    \/ c = Cmd("deleteRole", Legacy, None) /\ DeleteRole(Legacy)

\* The command that is next, and what is to run after it.
NextCommand(todo) == Head(Head(todo))
After(todo) == IF Tail(Head(todo)) = <<>> THEN Tail(todo) ELSE <<Tail(Head(todo))>> \o Tail(todo)

\* An attempt: the broker is up, and the default role is read.
BootReads ==
    /\ boot.at = "wait"
    /\ boot' = [Waiting EXCEPT !.at = "read", !.role = default]
    /\ UNCHANGED <<broker, file, settings, grace, call, history>>

HasCustomRoles == \E r \in CustomRoles : InFile(r)
Migrates == boot.role = Legacy \/ InFile(Legacy)

\* The built-in role is not selected, and the bootstrap has been before.
BootKeeps ==
    /\ boot.at = "read"
    /\ initialized /\ boot.role # ReadAll /\ ~Migrates
    /\ boot' = [Waiting EXCEPT !.at = "ended"]
    /\ UNCHANGED <<broker, file, settings, grace, call, history>>

\* It has not, but operators have set up roles of their own.
BootLeaves ==
    /\ boot.at = "read"
    /\ ~initialized /\ boot.role # ReadAll /\ ~Migrates
    /\ boot.role # None \/ HasCustomRoles
    /\ boot' = [Waiting EXCEPT !.at = "mark"]
    /\ UNCHANGED <<broker, file, settings, grace, call, history>>

\* Mutant: the bootstrap takes place at every start.
BootManagesAlways ==
    /\ boot.at = "read"
    /\ boot' = [boot EXCEPT !.at = "run", !.todo = EnsureManagedBootstrapRoles,
                            !.setAsDefault = TRUE, !.meddled = unsaved]
    /\ UNCHANGED <<broker, file, settings, grace, call, history>>

\* Otherwise the roles are created, repaired or migrated, according to the file.
BootManages ==
    /\ boot.at = "read"
    /\ Migrates \/ boot.role = ReadAll \/ (~initialized /\ boot.role = None /\ ~HasCustomRoles)
    /\ boot' = [boot EXCEPT !.at = "run", !.todo = EnsureManagedBootstrapRoles,
                            !.setAsDefault = IF Migrates THEN boot.role = Legacy \/ (boot.role = None /\ ~HasCustomRoles)
                                             ELSE TRUE,
                            !.meddled = unsaved]
    /\ UNCHANGED <<broker, file, settings, grace, call, history>>

BootRuns ==
    /\ boot.at = "run" /\ boot.todo # <<>>
    /\ Executes(NextCommand(boot.todo))
    /\ boot' = [boot EXCEPT !.todo = After(@)]
    /\ call' = Followed
    /\ chosen' = (chosen /\ role'[Legacy] = None)
    /\ UNCHANGED <<file, settings, grace, requests, changes, unsaved, vouched, doubted>>

\* setClientDefaults writes the setting, and when it has returned the time is taken.
BootSetsDefault ==
    /\ boot.at = "run" /\ boot.todo = <<>>
    /\ boot.setAsDefault
    /\ default' = ReadAll
    /\ boot' = [Waiting EXCEPT !.at = "provide"]
    /\ UNCHANGED <<broker, file, initialized, grace, call, history>>

BootProvides ==
    /\ boot.at = "provide"
    /\ grace' = "unsaved"
    /\ vouched' = (role[ReadAll] # None) /\ doubted' = FALSE
    /\ boot' = [Waiting EXCEPT !.at = "mark"]
    /\ UNCHANGED <<broker, file, settings, call, requests, changes, unsaved, chosen>>

BootMarks ==
    /\ boot.at = "mark" \/ (boot.at = "run" /\ boot.todo = <<>> /\ ~boot.setAsDefault)
    /\ initialized' = TRUE
    /\ boot' = [Waiting EXCEPT !.at = "ended"]
    /\ UNCHANGED <<broker, file, default, grace, call, history>>

\* A read, a command or a write fails.  Another attempt follows when it is the
\* agent that failed, as long as there are attempts left.
BootFails ==
    /\ boot.at \in {"wait", "read", "run", "mark"}
    /\ IF boot.at = "run" /\ boot.todo # <<>> THEN Unanswered(Executes(NextCommand(boot.todo)))
       ELSE UNCHANGED broker
    /\ \E at \in {"ended"} \cup (IF boot.at = "read" \/ boot.todo # <<>> THEN {"wait"} ELSE {}) :
          boot' = [Waiting EXCEPT !.at = at]
    /\ call' = Followed
    /\ chosen' = (chosen /\ role'[Legacy] = None)
    /\ UNCHANGED <<file, settings, grace, requests, changes, unsaved, vouched, doubted>>

\* The API stops or crashes, and starts again.
Restart ==
    /\ boot' = Waiting
    /\ call' = [c \in Calls |-> IdleCall]
    /\ grace' = "none"
    /\ vouched' = FALSE /\ doubted' = FALSE
    /\ UNCHANGED <<broker, file, settings, requests, changes, unsaved, chosen>>

-----------------------------------------------------------------------------

Next ==
    \/ \E c \in Calls :
          \/ CreateBegins(c) \/ CheckReads(c) \/ CheckPasses(c) \/ CheckRefuses(c) \/ Creates(c)
          \/ SetsPassword(c) \/ AssignsRole(c) \/ AssignFails(c) \/ RollsBack(c)
          \/ Disables(c) \/ CreateFails(c) \/ Returns(c)
          \/ DeletesDefaultRole(c) \/ DeletionAnswered(c)
          \/ PageReads(c) \/ PageReadsDefault(c) \/ PageShows(c)
    \/ GraceExpires \/ Saves
    \/ OperatorChanges \/ SetClientDefaults
    \/ BootReads \/ BootKeeps \/ BootLeaves \/ BootManages \/ BootRuns
    \/ BootSetsDefault \/ BootProvides \/ BootMarks \/ BootFails
    \/ Restart

Spec == Init /\ [][Next]_vars

-----------------------------------------------------------------------------
(* Properties *)

AsAsked(k) == [password |-> k.password, enabled |-> ~k.disabled,
               roles |-> IF k.role = None THEN {} ELSE {k.role}]

\* A createClient that succeeds leaves the client as it was asked for, unless
\* another request has changed it; one that reports a rollback leaves no client of
\* its own; and none deletes a client that another request created, unless its own
\* was deleted before.
CreationContract ==
    \A c \in Calls :
        /\ call[c].at = "created" /\ call[c].own = "there" => client[call[c].client] = AsAsked(call[c])
        /\ call[c].at = "undone" => call[c].own = "gone"
        /\ call[c].at = "rollback" => call[c].own # "none"

\* While the state file lags behind the bootstrap, no client is refused for want of
\* the default role it has provided: not by a creation that reads the file before it
\* is written and judges it after.  What isConfiguredDefaultRoleMissing does refuse is
\* left out by name.  The grace period, which another creation or a page ends when it
\* finds the role, a failed assignment and the answer to a deletion whatever the file
\* holds, and the clock after ten seconds, ended between the two steps (late); or one
\* of the requests had ended it before the file showed the role (doubted, which the
\* creation takes over as late when it reads).
ProvidedRoleIsFound ==
    [][vouched => \A c \in Calls :
          call[c].role = ReadAll /\ ~call[c].late => ~CheckRefuses(c)]_vars

MayWrite(roles) == Migrated(roles) # {}

\* The migration of the legacy role never takes the right to write from a client or
\* a group, at no point between its commands and whatever becomes of them, as long
\* as no request changes roles that the migration does not know of.
MigrationKeepsAccess ==
    [][boot.at = "run" /\ ~boot.meddled /\ (BootRuns \/ BootFails) =>
          /\ \A u \in Clients : client[u] # None /\ MayWrite(client[u].roles) => MayWrite(client'[u].roles)
          /\ \A g \in Groups : MayWrite(group[g]) => MayWrite(group'[g])]_vars

\* Once the bootstrap is behind it, no start of the API replaces the default role
\* an operator has chosen, or chooses one where an operator wants none.
OperatorsChoiceStays == [][chosen /\ default' # default => SetClientDefaults]_vars
=============================================================================
