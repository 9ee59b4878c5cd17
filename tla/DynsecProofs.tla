---------------------------- MODULE DynsecProofs ----------------------------
(* Invariance proofs for Dynsec, for every value of its constants. *)
EXTENDS Dynsec, FiniteSetTheorems, SequenceTheorems, TLAPS

-----------------------------------------------------------------------------
(* The inductive invariant *)

\* What the bootstrap does at one go: to repair a role, to move a client or a group to
\* the other role, of which the second half may be left, and to delete the legacy role.
Repairs ==
    {<<Cmd("createRole", r, None)>> : r \in BootstrapRoles}
        \cup {<<Cmd("addRoleACL", r, a)>> : r \in BootstrapRoles, a \in Acls}
Moves(add, remove, name) == <<Cmd(add, name, ReadWriteAll), Cmd(remove, name, Legacy)>>
Takes(remove, name) == <<Cmd(remove, name, Legacy)>>
ForClient(u) == {Moves("addClientRole", "removeClientRole", u), Takes("removeClientRole", u)}
ForGroup(g) == {Moves("addGroupRole", "removeGroupRole", g), Takes("removeGroupRole", g)}
Deletion == <<Cmd("deleteRole", Legacy, None)>>
Job == Repairs \cup (UNION {ForClient(u) : u \in Clients}) \cup (UNION {ForGroup(g) : g \in Groups})
          \cup {Deletion}

\* The bootstrap has commands to run only while it runs them.
Jobs ==
    /\ boot.at # "run" => boot.todo = <<>>
    /\ boot.todo \in Seq(Job)

\* What the client of a createClient is like while nobody else has touched it.
RolesAsked(k) == IF k.role = None THEN {} ELSE {k.role}
SoFar(k, u) ==
    /\ k.at = "password" => u = [password |-> FALSE, enabled |-> TRUE, roles |-> {}]
    /\ k.at = "role" => u = [password |-> k.password, enabled |-> TRUE, roles |-> {}]
    /\ k.at = "disable" => u = [password |-> k.password, enabled |-> TRUE, roles |-> RolesAsked(k)]
    /\ k.at = "created" => u = AsAsked(k)

\* Where a createClient is follows from what was asked of it, and it has created a
\* client before it touches one.
GoodCall(k, clients) ==
    /\ k.at = "password" => k.password
    /\ k.at = "role" => k.role # None
    /\ k.at = "disable" => k.disabled
    /\ k.own = "there" => SoFar(k, clients[k.client])
    /\ k.at \in {"password", "role", "disable", "created", "rollback"} => k.own # "none"
    /\ k.at = "undone" => k.own = "gone"
Created == \A c \in Calls : GoodCall(call[c], client)

\* The default role that was provided is there, and in the file once that was written,
\* unless a request has ended the grace period before.
Provided == vouched => role[ReadAll] # None /\ (grace # "unsaved" /\ ~doubted => InFile(ReadAll))

\* Who has read a file without that role still has the grace period to judge it by.
Judged(calls, g) ==
    \A c \in Calls : calls[c].at = "missing" /\ calls[c].role = ReadAll /\ ~calls[c].late => g # "none"
Trusted == vouched => Judged(call, grace)

\* An operator's choice leaves nothing to do for the bootstrap but to repair roles.
Settled ==
    chosen =>
        /\ initialized /\ default # Legacy
        /\ role[Legacy] = None /\ ~InFile(Legacy)
        /\ boot.at \in {"read", "run"} => boot.role = default
        /\ boot.at = "run" /\ boot.setAsDefault => default = ReadAll

\* A file that no request has changed roles behind knows of every holder of the legacy
\* role, and of no right to write that the holder does not have.
Knows(held, roles) == Legacy \in roles => Legacy \in held /\ (ReadWriteAll \in held => ReadWriteAll \in roles)
Synced ==
    ~unsaved =>
        /\ \A u \in Clients : client[u] # None /\ Legacy \in client[u].roles =>
              file.client[u] # None /\ Knows(file.client[u], client[u].roles)
        /\ \A g \in Groups : Knows(file.group[g], group[g])

\* While requests leave the roles alone: who is about to lose the legacy role has the
\* other one, and the legacy role goes when all are moved who can be.
Pending(jobs) == \E i \in 1..Len(boot.todo) : boot.todo[i] \in jobs
Covered(roles) == Legacy \in roles => ReadWriteAll \in roles
Planned ==
    boot.at = "run" /\ ~boot.meddled =>
        /\ \A u \in Clients :
              client[u] # None /\ Pending({Takes("removeClientRole", u)}) => Covered(client[u].roles)
        /\ \A g \in Groups : Pending({Takes("removeGroupRole", g)}) => Covered(group[g])
        /\ \A i \in 1..Len(boot.todo) : boot.todo[i] = Deletion =>
              /\ i = Len(boot.todo)
              /\ \A u \in Clients : client[u] # None => Covered(client[u].roles) \/ Pending(ForClient(u))
              /\ \A g \in Groups : Covered(group[g]) \/ Pending(ForGroup(g))

IInv == TypeOK /\ Jobs /\ Created /\ Provided /\ Trusted /\ Settled /\ Synced /\ Planned

-----------------------------------------------------------------------------
(* Constants and sequences *)

LEMMA Constants ==
  /\ ReadAll \in Roles /\ ReadWriteAll \in Roles /\ Legacy \in Roles
  /\ ReadAll # ReadWriteAll /\ Legacy # ReadAll /\ Legacy # ReadWriteAll
  /\ BootstrapRoles = {ReadAll, ReadWriteAll} /\ Legacy \notin BootstrapRoles
  /\ None \notin Roles /\ None # ReadAll /\ None # Legacy
  /\ \A s \in SUBSET Acls : s # None
  /\ \A s \in SUBSET Roles : s # None
<1>1. /\ ReadAll \in Roles /\ ReadWriteAll \in Roles /\ Legacy \in Roles
      /\ ReadAll # ReadWriteAll /\ Legacy # ReadAll /\ Legacy # ReadWriteAll
      /\ BootstrapRoles = {ReadAll, ReadWriteAll} /\ Legacy \notin BootstrapRoles
  BY DEF Roles, BootstrapRoles, ReadAll, ReadWriteAll, Legacy
<1>2. None \notin Roles
  BY DynsecAssumption
<1>3. ASSUME NEW s \in SUBSET Acls PROVE s # None
  BY <1>3, DynsecAssumption
<1>4. ASSUME NEW s \in SUBSET Roles PROVE s # None
  BY <1>4, DynsecAssumption
<1>5. QED
  BY <1>1, <1>2, <1>3, <1>4

\* What SetToSeq makes of a finite set.
LEMMA SequenceOfSet ==
  ASSUME NEW S, IsFiniteSet(S)
  PROVE  /\ SetToSeq(S) \in Seq(S)
         /\ \A x \in S : \E i \in 1..Len(SetToSeq(S)) : SetToSeq(S)[i] = x
<1> DEFINE n == Cardinality(S)
<1>1. n \in Nat /\ ExistsBijection(1..n, S)
  BY FS_CardinalityType
<1>2. PICK g \in [1..n -> S] : \A x, y \in 1..n : x # y => g[x] # g[y]
  BY <1>1 DEF ExistsBijection, Bijection, Injection, IsInjective
<1>3. IsInjective(g)
  BY <1>2 DEF IsInjective
<1> DEFINE f == SetToSeq(S)
<1>4. f \in [1..n -> S] /\ IsInjective(f)
  BY <1>2, <1>3 DEF SetToSeq
<1>5. f \in Injection(1..n, S)
  BY <1>4 DEF Injection, IsInjective
<1>6. IsFiniteSet(1..n) /\ Cardinality(1..n) = n
  BY <1>1, FS_Interval
<1>7. f \in Surjection(1..n, S)
  BY <1>5, <1>6, FS_Injection
<1>8. \A x \in S : \E i \in 1..n : f[i] = x
  BY <1>7 DEF Surjection
<1> HIDE DEF f
<1>9. f \in Seq(S) /\ Len(f) = n
  BY <1>1, <1>4
<1>10. QED
  BY <1>8, <1>9 DEF f

\* A set of jobs, one for each element of a finite set.
LEMMA FiniteImage ==
  ASSUME NEW S, IsFiniteSet(S), NEW f, f = [x \in S |-> f[x]]
  PROVE  IsFiniteSet({f[x] : x \in S})
<1> DEFINE T == {f[x] : x \in S}
<1>1. f \in Surjection(S, T)
  BY DEF Surjection
<1>2. QED
  BY <1>1, FS_Surjection

\* A sequence that is put together.
LEMMA Joined ==
  ASSUME NEW S, NEW s \in Seq(S), NEW t \in Seq(S)
  PROVE  /\ s \o t \in Seq(S) /\ Len(s \o t) = Len(s) + Len(t)
         /\ \A i \in 1..Len(s) : i \in 1..Len(s \o t) /\ (s \o t)[i] = s[i]
         /\ \A i \in 1..Len(t) : Len(s) + i \in 1..Len(s \o t) /\ (s \o t)[Len(s) + i] = t[i]
         /\ \A i \in 1..Len(s \o t) :
               \/ i \in 1..Len(s) /\ (s \o t)[i] = s[i]
               \/ \E j \in 1..Len(t) : i = Len(s) + j /\ (s \o t)[i] = t[j]
<1>1. s \o t \in Seq(S) /\ Len(s \o t) = Len(s) + Len(t)
  OBVIOUS
<1>2. \A i \in 1..Len(s) : i \in 1..Len(s \o t) /\ (s \o t)[i] = s[i]
  OBVIOUS
<1>3. \A i \in 1..Len(t) : Len(s) + i \in 1..Len(s \o t) /\ (s \o t)[Len(s) + i] = t[i]
  OBVIOUS
<1>4. ASSUME NEW i \in 1..Len(s \o t), i \notin 1..Len(s)
      PROVE  i - Len(s) \in 1..Len(t) /\ i = Len(s) + (i - Len(s))
  BY <1>1, <1>4
<1>5. QED
  BY <1>1, <1>2, <1>3, <1>4

\* The same, with a name for what is joined.
Joins(S, s, t, u) == s \in Seq(S) /\ t \in Seq(S) /\ u = s \o t

LEMMA JoinedAs ==
  ASSUME NEW S, NEW s, NEW t, NEW u, Joins(S, s, t, u)
  PROVE  /\ u \in Seq(S) /\ Len(u) = Len(s) + Len(t)
         /\ \A i \in 1..Len(s) : i \in 1..Len(u) /\ u[i] = s[i]
         /\ \A i \in 1..Len(t) : Len(s) + i \in 1..Len(u) /\ u[Len(s) + i] = t[i]
         /\ \A i \in 1..Len(u) :
               \/ i \in 1..Len(s) /\ u[i] = s[i]
               \/ \E j \in 1..Len(t) : i = Len(s) + j /\ u[i] = t[j]
<1>1. s \in Seq(S) /\ t \in Seq(S) /\ u = s \o t
  BY DEF Joins
<1>2. PICK s0 \in Seq(S) : s0 = s
  BY <1>1
<1>3. PICK t0 \in Seq(S) : t0 = t
  BY <1>1
<1>4. u = s0 \o t0
  BY <1>1, <1>2, <1>3
<1>5. /\ u \in Seq(S) /\ Len(u) = Len(s0) + Len(t0)
      /\ \A i \in 1..Len(s0) : i \in 1..Len(u) /\ u[i] = s0[i]
      /\ \A i \in 1..Len(t0) : Len(s0) + i \in 1..Len(u) /\ u[Len(s0) + i] = t0[i]
      /\ \A i \in 1..Len(u) :
            \/ i \in 1..Len(s0) /\ u[i] = s0[i]
            \/ \E j \in 1..Len(t0) : i = Len(s0) + j /\ u[i] = t0[j]
  BY <1>4, Joined
<1>6. QED
  BY <1>2, <1>3, <1>5

-----------------------------------------------------------------------------
(* The broker *)

BrokerTyped ==
    /\ role \in [Roles -> (SUBSET Acls) \cup {None}]
    /\ client \in [Clients -> Client \cup {None}]
    /\ group \in [Groups -> SUBSET Roles]
    /\ \A r \in Roles : role[r] = None =>
          /\ \A u \in Clients : client[u] # None => r \notin client[u].roles
          /\ \A g \in Groups : r \notin group[g]

\* Whatever a step makes of the broker, it does by one of its commands.
RoleStep ==
    \E r \in Roles : CreateRole(r) \/ DeleteRole(r) \/ \E a \in Acls : AddRoleAcl(r, a) \/ RemoveRoleAcl(r, a)
ClientStep ==
    \E u \in Clients :
       \/ CreatesClient(u) \/ DeleteClient(u) \/ SetClientPassword(u)
       \/ \E enabled \in BOOLEAN : SetClientEnabled(u, enabled)
       \/ \E r \in Roles : AssignClientRole(u, r) \/ RemoveClientRole(u, r)
GroupStep == \E g \in Groups, r \in Roles : AddGroupRole(g, r) \/ RemoveGroupRole(g, r)
BrokerStep == RoleStep \/ ClientStep \/ GroupStep \/ UNCHANGED broker

LEMMA RoleStepTyped == ASSUME BrokerTyped, RoleStep PROVE BrokerTyped'
<1>1. PICK r \in Roles :
        CreateRole(r) \/ DeleteRole(r) \/ \E a \in Acls : AddRoleAcl(r, a) \/ RemoveRoleAcl(r, a)
  BY DEF RoleStep
<1>2. CASE DeleteRole(r)
  <2>1. role' = [role EXCEPT ![r] = None] /\ group' = [g \in Groups |-> group[g] \ {r}]
    BY <1>2 DEF DeleteRole
  <2>2. ASSUME NEW u \in Clients
        PROVE  /\ client[u] = None => client'[u] = None
               /\ client[u] # None => /\ client'[u] \in Client
                                      /\ client'[u].roles = client[u].roles \ {r}
    <3>1. client'[u] = IF client[u] = None THEN None ELSE [client[u] EXCEPT !.roles = client[u].roles \ {r}]
      BY <1>2 DEF DeleteRole
    <3>2. client[u] # None => client[u] \in Client
      BY DEF BrokerTyped
    <3>3. QED
      BY <3>1, <3>2 DEF Client
  <2>3. client' \in [Clients -> Client \cup {None}]
    <3>1. client' = [u \in Clients |-> client'[u]]
      BY <1>2 DEF DeleteRole
    <3>2. \A u \in Clients : client'[u] \in Client \cup {None}
      BY <2>2
    <3>3. QED
      BY <3>1, <3>2
  <2>4. role' \in [Roles -> (SUBSET Acls) \cup {None}] /\ group' \in [Groups -> SUBSET Roles]
    <3>1. \A g \in Groups : group[g] \ {r} \in SUBSET Roles
      BY DEF BrokerTyped
    <3>2. QED
      BY <2>1, <3>1 DEF BrokerTyped
  <2>5. ASSUME NEW q \in Roles, role'[q] = None
        PROVE  /\ \A u \in Clients : client'[u] # None => q \notin client'[u].roles
               /\ \A g \in Groups : q \notin group'[g]
    <3>1. q = r \/ role[q] = None
      BY <2>1, <2>5 DEF BrokerTyped
    <3>2. QED
      BY <2>1, <2>2, <3>1 DEF BrokerTyped
  <2>6. QED
    BY <2>3, <2>4, <2>5 DEF BrokerTyped
<1>3. ASSUME NEW acls \in SUBSET Acls, role' = [role EXCEPT ![r] = acls], UNCHANGED <<client, group>>
      PROVE  BrokerTyped'
  BY <1>3, Constants DEF BrokerTyped
<1>4. CASE CreateRole(r)
  <2>1. {} \in SUBSET Acls
    OBVIOUS
  <2>2. QED
    BY <1>3, <1>4, <2>1 DEF CreateRole
<1>5. ASSUME NEW a \in Acls, AddRoleAcl(r, a) PROVE BrokerTyped'
  <2>1. role[r] \cup {a} \in SUBSET Acls
    <3>1. role[r] # None /\ role[r] \in (SUBSET Acls) \cup {None}
      BY <1>5 DEF AddRoleAcl, BrokerTyped
    <3>2. QED
      BY <1>5, <3>1
  <2>2. QED
    BY <1>3, <1>5, <2>1 DEF AddRoleAcl
<1>6. ASSUME NEW a \in Acls, RemoveRoleAcl(r, a) PROVE BrokerTyped'
  <2>1. role[r] \ {a} \in SUBSET Acls
    <3>1. role[r] # None /\ role[r] \in (SUBSET Acls) \cup {None}
      BY <1>6 DEF RemoveRoleAcl, BrokerTyped
    <3>2. QED
      BY <1>6, <3>1
  <2>2. QED
    BY <1>3, <1>6, <2>1 DEF RemoveRoleAcl
<1>7. QED
  BY <1>1, <1>2, <1>4, <1>5, <1>6

\* The client that a command is about, and what has become of its roles.
LEMMA ClientStepEffect ==
  ASSUME BrokerTyped, ClientStep
  PROVE  /\ UNCHANGED <<role, group>>
         /\ \E u \in Clients : \E k \in Client \cup {None} :
               /\ client' = [client EXCEPT ![u] = k]
               /\ k # None => \/ k.roles = {}
                              \/ /\ client[u] # None
                                 /\ \/ k.roles \subseteq client[u].roles
                                    \/ \E r \in Roles : role[r] # None /\ k.roles = client[u].roles \cup {r}
<1>1. PICK u \in Clients :
        \/ CreatesClient(u) \/ DeleteClient(u) \/ SetClientPassword(u)
        \/ \E enabled \in BOOLEAN : SetClientEnabled(u, enabled)
        \/ \E r \in Roles : AssignClientRole(u, r) \/ RemoveClientRole(u, r)
  BY DEF ClientStep
<1>2. client[u] # None => client[u] \in Client /\ client[u].roles \in SUBSET Roles
  BY DEF BrokerTyped, Client
<1>3. CASE CreatesClient(u)
  <2> DEFINE k == [password |-> FALSE, enabled |-> TRUE, roles |-> {}]
  <2>1. k \in Client /\ k.roles = {}
    BY DEF Client
  <2>2. client' = [client EXCEPT ![u] = k] /\ UNCHANGED <<role, group>>
    BY <1>3 DEF CreatesClient
  <2> HIDE DEF k
  <2>3. QED
    BY <2>1, <2>2
<1>4. CASE DeleteClient(u)
  BY <1>4 DEF DeleteClient
<1>5. CASE SetClientPassword(u)
  <2> DEFINE k == [client[u] EXCEPT !.password = TRUE]
  <2>1. client' = [client EXCEPT ![u] = k] /\ client[u] # None /\ UNCHANGED <<role, group>>
    BY <1>5 DEF SetClientPassword
  <2>2. k \in Client /\ k.roles = client[u].roles
    BY <1>2, <2>1 DEF Client
  <2> HIDE DEF k
  <2>3. QED
    BY <2>1, <2>2
<1>6. ASSUME NEW enabled \in BOOLEAN, SetClientEnabled(u, enabled)
      PROVE  \E k \in Client : /\ client' = [client EXCEPT ![u] = k] /\ k.roles = client[u].roles
                               /\ client[u] # None /\ UNCHANGED <<role, group>>
  <2> DEFINE k == [client[u] EXCEPT !.enabled = enabled]
  <2>1. client' = [client EXCEPT ![u] = k] /\ client[u] # None /\ UNCHANGED <<role, group>>
    BY <1>6 DEF SetClientEnabled
  <2>2. k \in Client /\ k.roles = client[u].roles
    BY <1>2, <1>6, <2>1 DEF Client
  <2> HIDE DEF k
  <2>3. QED
    BY <2>1, <2>2
<1>7. ASSUME NEW r \in Roles, AssignClientRole(u, r)
      PROVE  \E k \in Client : /\ client' = [client EXCEPT ![u] = k] /\ k.roles = client[u].roles \cup {r}
                               /\ client[u] # None /\ role[r] # None /\ UNCHANGED <<role, group>>
  <2> DEFINE k == [client[u] EXCEPT !.roles = client[u].roles \cup {r}]
  <2>1. /\ client' = [client EXCEPT ![u] = k] /\ client[u] # None /\ role[r] # None
        /\ UNCHANGED <<role, group>>
    BY <1>7 DEF AssignClientRole
  <2>2. k \in Client /\ k.roles = client[u].roles \cup {r}
    BY <1>2, <2>1 DEF Client
  <2> HIDE DEF k
  <2>3. QED
    BY <2>1, <2>2
<1>8. ASSUME NEW r \in Roles, RemoveClientRole(u, r)
      PROVE  \E k \in Client : /\ client' = [client EXCEPT ![u] = k] /\ k.roles = client[u].roles \ {r}
                               /\ client[u] # None /\ UNCHANGED <<role, group>>
  <2> DEFINE k == [client[u] EXCEPT !.roles = client[u].roles \ {r}]
  <2>1. client' = [client EXCEPT ![u] = k] /\ client[u] # None /\ UNCHANGED <<role, group>>
    BY <1>8 DEF RemoveClientRole
  <2>2. k \in Client /\ k.roles = client[u].roles \ {r}
    BY <1>2, <2>1 DEF Client
  <2> HIDE DEF k
  <2>3. QED
    BY <2>1, <2>2
<1>9. QED
  BY <1>1, <1>3, <1>4, <1>5, <1>6, <1>7, <1>8

LEMMA ClientStepTyped == ASSUME BrokerTyped, ClientStep PROVE BrokerTyped'
<1>1. UNCHANGED <<role, group>>
  BY ClientStepEffect
<1>2. PICK u \in Clients, k \in Client \cup {None} :
        /\ client' = [client EXCEPT ![u] = k]
        /\ k # None => \/ k.roles = {}
                       \/ /\ client[u] # None
                          /\ \/ k.roles \subseteq client[u].roles
                             \/ \E r \in Roles : role[r] # None /\ k.roles = client[u].roles \cup {r}
  BY ClientStepEffect
<1>3. \A r \in Roles : role[r] = None /\ k # None => r \notin k.roles
  BY <1>2 DEF BrokerTyped
<1>4. QED
  BY <1>1, <1>2, <1>3 DEF BrokerTyped

LEMMA GroupStepTyped == ASSUME BrokerTyped, GroupStep PROVE BrokerTyped'
<1>1. PICK g \in Groups, r \in Roles : AddGroupRole(g, r) \/ RemoveGroupRole(g, r)
  BY DEF GroupStep
<1>2. UNCHANGED <<role, client>>
  BY <1>1 DEF AddGroupRole, RemoveGroupRole
<1>3. PICK held \in SUBSET Roles :
        /\ group' = [group EXCEPT ![g] = held]
        /\ held \subseteq group[g] \/ (role[r] # None /\ held = group[g] \cup {r})
  BY <1>1 DEF AddGroupRole, RemoveGroupRole, BrokerTyped
<1>4. QED
  BY <1>2, <1>3 DEF BrokerTyped

LEMMA BrokerStepTyped == ASSUME BrokerTyped, BrokerStep PROVE BrokerTyped'
<1>1. CASE UNCHANGED broker
  BY <1>1 DEF broker, BrokerTyped
<1>2. QED
  BY <1>1, RoleStepTyped, ClientStepTyped, GroupStepTyped DEF BrokerStep

-----------------------------------------------------------------------------
(* createClient *)

LEMMA IdleIsTyped == IdleCall \in CallRecord /\ \A clients : GoodCall(IdleCall, clients)
<1>1. (CHOOSE u \in Clients : TRUE) \in Clients
  BY DynsecAssumption
<1>2. QED
  BY <1>1, Constants DEF IdleCall, CallRecord, GoodCall

\* The record of a call whose client others may have touched.
LEMMA FollowedIsGood ==
  ASSUME BrokerTyped, call \in [Calls -> CallRecord]
  PROVE  /\ Followed \in [Calls -> CallRecord]
         /\ \A d \in Calls :
               /\ \A x \in {"at", "client", "password", "disabled", "role", "late"} : Followed[d][x] = call[d][x]
               /\ GoodCall(call[d], client) => GoodCall(Followed[d], client')
<1> SUFFICES ASSUME NEW d \in Calls
             PROVE  /\ Followed[d] \in CallRecord
                    /\ \A x \in {"at", "client", "password", "disabled", "role", "late"} : Followed[d][x] = call[d][x]
                    /\ GoodCall(call[d], client) => GoodCall(Followed[d], client')
  BY DEF Followed
<1> DEFINE k == call[d]
           gone == [call[d] EXCEPT !.own = "gone"]
           touched == [call[d] EXCEPT !.own = "touched"]
<1>1. k \in CallRecord
  OBVIOUS
<1>2. /\ gone \in CallRecord /\ gone.own = "gone"
      /\ gone.at = k.at /\ gone.client = k.client /\ gone.password = k.password
      /\ gone.disabled = k.disabled /\ gone.role = k.role /\ gone.late = k.late
  BY <1>1 DEF CallRecord
<1>3. /\ touched \in CallRecord /\ touched.own = "touched"
      /\ touched.at = k.at /\ touched.client = k.client /\ touched.password = k.password
      /\ touched.disabled = k.disabled /\ touched.role = k.role /\ touched.late = k.late
  BY <1>1 DEF CallRecord
<1>4. Followed[d] = IF k.own \notin {"there", "touched"} THEN k
                    ELSE IF client'[k.client] = None THEN gone
                    ELSE IF client'[k.client] # client[k.client] THEN touched
                    ELSE k
  BY DEF Followed
<1> HIDE DEF k, gone, touched
<1>5. CASE Followed[d] = gone /\ k.own \in {"there", "touched"}
  <2>1. GoodCall(k, client) => GoodCall(gone, client')
    BY <1>2, <1>5 DEF GoodCall
  <2>2. QED
    BY <1>2, <1>5, <2>1 DEF k
<1>6. CASE Followed[d] = touched /\ k.own \in {"there", "touched"}
  <2>1. GoodCall(k, client) => GoodCall(touched, client')
    BY <1>3, <1>6 DEF GoodCall
  <2>2. QED
    BY <1>3, <1>6, <2>1 DEF k
<1>7. CASE Followed[d] = k /\ (k.own = "there" => client'[k.client] = client[k.client])
  <2>1. GoodCall(k, client) => GoodCall(k, client')
    BY <1>7 DEF GoodCall
  <2>2. QED
    BY <1>1, <1>7, <2>1 DEF k
<1>8. QED
  BY <1>4, <1>5, <1>6, <1>7

\* Records of the calls that a step may leave, and what holds of those it does leave.
Fit(calls) ==
    /\ calls \in [Calls -> CallRecord] /\ \A d \in Calls : GoodCall(calls[d], client')
    /\ vouched /\ Judged(call, grace) => Judged(calls, grace)
Fits ==
    /\ call' \in [Calls -> CallRecord] /\ Created'
    /\ vouched /\ Judged(call, grace) => Judged(call', grace')

LEMMA FitStay == ASSUME NEW calls, Fit(calls), call' = calls, grace' = grace PROVE Fits
BY DEF Fit, Fits, Created

\* The end of the grace period marks those who have yet to judge.
LEMMA FitCleared == ASSUME NEW calls, Fit(calls), Clears(calls) PROVE Fits
<1>1. CASE grace = "none"
  BY <1>1, FitStay DEF Clears
<1>2. CASE grace # "none"
  <2>1. ASSUME NEW d \in Calls
        PROVE  /\ call'[d] \in CallRecord /\ GoodCall(call'[d], client')
               /\ call'[d].at = "missing" => call'[d].late
    <3> DEFINE k == calls[d]
    <3>1. PICK m \in BOOLEAN : m = (k.late \/ k.at = "missing")
      OBVIOUS
    <3>2. k \in CallRecord /\ GoodCall(k, client')
      BY DEF Fit
    <3>3. call'[d] = [k EXCEPT !.late = m]
      BY <1>2, <3>1 DEF Clears, Overtaken
    <3> HIDE DEF k
    <3>4. PICK n : n = [k EXCEPT !.late = m]
      OBVIOUS
    <3>5. /\ n \in CallRecord /\ n.at = k.at /\ n.client = k.client /\ n.password = k.password
          /\ n.disabled = k.disabled /\ n.role = k.role /\ n.own = k.own /\ n.late = m
      BY <3>2, <3>4 DEF CallRecord
    <3>6. SoFar(k, client'[k.client]) => SoFar(n, client'[n.client])
      BY <3>5 DEF SoFar, RolesAsked, AsAsked
    <3>7. GoodCall(n, client')
      BY <3>2, <3>5, <3>6 DEF GoodCall
    <3>8. QED
      BY <3>1, <3>3, <3>4, <3>5, <3>7
  <2>2. call' = [d \in Calls |-> call'[d]]
    BY <1>2 DEF Clears, Overtaken
  <2>3. call' \in [Calls -> CallRecord]
    BY <2>1, <2>2
  <2>4. QED
    BY <2>1, <2>3 DEF Fits, Created, Judged
<1>3. QED
  BY <1>1, <1>2

\* The steps of the requests that leave the broker alone.
Prepares(c) ==
    \/ CreateBegins(c) \/ CheckReads(c) \/ CheckPasses(c) \/ CheckRefuses(c) \/ Returns(c)
    \/ PageReads(c) \/ PageReadsDefault(c) \/ PageShows(c) \/ DeletionAnswered(c)

\* What they leave of the call that takes them.
Prepared(k) ==
    /\ k \in CallRecord /\ k.at \in {"idle", "check", "found", "missing", "create", "loads", "shows"}
    /\ k.at = "missing" /\ k.role = ReadAll /\ ~k.late => ~InFile(ReadAll) /\ ~doubted

LEMMA Preparing ==
  ASSUME TypeOK, NEW c \in Calls, Prepares(c)
  PROVE  /\ UNCHANGED <<broker, file, settings, boot, unsaved, vouched, chosen>>
         /\ requests' \in 0..MaxRequests /\ changes' \in 0..MaxChanges
         /\ \E k : /\ Prepared(k)
                   /\ \/ call' = [call EXCEPT ![c] = k] /\ UNCHANGED <<grace, doubted>>
                      \/ Clears([call EXCEPT ![c] = k]) /\ Doubts
<1>1. call[c] \in CallRecord /\ doubted \in BOOLEAN
  BY DEF TypeOK
<1>2. CASE CreateBegins(c)
  <2>1. PICK u \in Clients, asked \in Asked :
          call' = [call EXCEPT ![c] =
              [at |-> IF default = None THEN "create" ELSE "check", client |-> u,
               password |-> asked.password, disabled |-> asked.disabled,
               role |-> default, own |-> "none", late |-> FALSE]]
    BY <1>2 DEF CreateBegins
  <2> DEFINE k == [at |-> IF default = None THEN "create" ELSE "check", client |-> u,
                   password |-> asked.password, disabled |-> asked.disabled,
                   role |-> default, own |-> "none", late |-> FALSE]
  <2>2. Prepared(k)
    BY DynsecAssumption DEF Prepared, CallRecord, TypeOK, Default
  <2>3. call' = [call EXCEPT ![c] = k]
    BY <2>1
  <2> HIDE DEF k
  <2>4. requests' \in 0..MaxRequests /\ changes' = changes
    BY <1>2, DynsecAssumption DEF CreateBegins, TypeOK
  <2>5. QED
    BY <1>2, <2>2, <2>3, <2>4 DEF CreateBegins, TypeOK
<1>3. CASE CheckReads(c)
  <2> DEFINE at == IF InFile(call[c].role) THEN "found" ELSE "missing"
             k == [call[c] EXCEPT !.at = at, !.late = doubted]
  <2>1. k \in CallRecord /\ k.at = at /\ k.role = call[c].role /\ k.late = doubted
    BY <1>1 DEF CallRecord
  <2>2. call' = [call EXCEPT ![c] = k]
    BY <1>3 DEF CheckReads
  <2>3. Prepared(k)
    <3> HIDE DEF k
    <3>1. QED
      BY <2>1 DEF Prepared
  <2> HIDE DEF k
  <2>4. QED
    BY <1>3, <2>2, <2>3 DEF CheckReads, TypeOK, history
<1>4. CASE CheckPasses(c)
  <2> DEFINE k == [call[c] EXCEPT !.at = "create", !.late = FALSE]
  <2>1. Prepared(k)
    BY <1>1 DEF CallRecord, Prepared
  <2>2. \/ call' = [call EXCEPT ![c] = k] /\ UNCHANGED <<grace, doubted>>
        \/ Clears([call EXCEPT ![c] = k]) /\ Doubts
    BY <1>4 DEF CheckPasses
  <2> HIDE DEF k
  <2>3. QED
    BY <1>4, <2>1, <2>2 DEF CheckPasses, TypeOK
<1>5. CASE CheckRefuses(c) \/ Returns(c) \/ DeletionAnswered(c)
  <2>1. Prepared(IdleCall)
    BY IdleIsTyped DEF IdleCall, Prepared
  <2>2. QED
    BY <1>5, <2>1 DEF CheckRefuses, Returns, DeletionAnswered, TypeOK, history
<1>6. CASE PageReads(c) \/ PageReadsDefault(c) \/ PageShows(c)
  <2> DEFINE left(at) == [call[c] EXCEPT !.at = at]
  <2>1. \A at \in {"idle", "loads", "shows"} : Prepared(left(at))
    BY <1>1 DEF CallRecord, Prepared
  <2>2. PICK at \in {"idle", "loads", "shows"} :
          \/ call' = [call EXCEPT ![c] = left(at)] /\ UNCHANGED <<grace, doubted>>
          \/ Clears([call EXCEPT ![c] = left(at)]) /\ Doubts
    BY <1>6 DEF PageReads, PageReadsDefault, PageShows, history
  <2>3. requests' \in 0..MaxRequests /\ changes' \in 0..MaxChanges
    BY <1>6, DynsecAssumption DEF PageReads, PageReadsDefault, PageShows, TypeOK, history
  <2>4. UNCHANGED <<broker, file, settings, boot, unsaved, vouched, chosen>>
    BY <1>6 DEF PageReads, PageReadsDefault, PageShows, history
  <2> HIDE DEF left
  <2>5. Prepared(left(at))
    BY <2>1
  <2>6. QED
    BY <2>2, <2>3, <2>4, <2>5
<1>7. QED
  BY <1>2, <1>3, <1>4, <1>5, <1>6 DEF Prepares

\* The steps of createClient that the broker takes part in.
Acts(c) ==
    \/ Creates(c) \/ SetsPassword(c) \/ AssignsRole(c) \/ AssignFails(c)
    \/ RollsBack(c) \/ Disables(c) \/ CreateFails(c)

LEMMA FollowedFit ==
  ASSUME TypeOK, Created PROVE Fit(Followed)
<1>1. BrokerTyped /\ call \in [Calls -> CallRecord]
  BY DEF TypeOK, BrokerTyped
<1>2. /\ Followed \in [Calls -> CallRecord]
      /\ \A d \in Calls : /\ GoodCall(Followed[d], client')
                          /\ Followed[d].at = call[d].at /\ Followed[d].role = call[d].role
                          /\ Followed[d].late = call[d].late
  BY <1>1, FollowedIsGood DEF Created
<1> HIDE DEF Followed
<1>3. QED
  BY <1>2 DEF Fit, Judged

LEMMA Continuing ==
  ASSUME TypeOK, Created, NEW c \in Calls, NEW k \in CallRecord,
         GoodCall(k, client'), k.at # "missing"
  PROVE  Fit([Followed EXCEPT ![c] = k])
<1>1. Fit(Followed)
  BY FollowedFit
<1> HIDE DEF Followed
<1>2. QED
  BY <1>1 DEF Fit, Judged

\* What a call knows of what it was asked for stays.
LEMMA Continued ==
  ASSUME TypeOK, NEW c \in Calls
  PROVE  /\ Followed[c] \in CallRecord
         /\ Followed[c].client = call[c].client /\ Followed[c].password = call[c].password
         /\ Followed[c].disabled = call[c].disabled /\ Followed[c].role = call[c].role
<1>1. /\ Followed[c] \in CallRecord
      /\ \A x \in {"at", "client", "password", "disabled", "role", "late"} : Followed[c][x] = call[c][x]
  BY FollowedIsGood DEF TypeOK, BrokerTyped
<1> HIDE DEF Followed
<1>2. QED
  BY <1>1

\* A client of which one thing is changed.
LEMMA ClientChanges ==
  ASSUME NEW u \in Client, NEW b \in BOOLEAN, NEW roles \in SUBSET Roles
  PROVE  /\ [u EXCEPT !.password = b] = [password |-> b, enabled |-> u.enabled, roles |-> u.roles]
         /\ [u EXCEPT !.enabled = b] = [password |-> u.password, enabled |-> b, roles |-> u.roles]
         /\ [u EXCEPT !.roles = roles] = [password |-> u.password, enabled |-> u.enabled, roles |-> roles]
BY DEF Client

LEMMA Stages ==
  ASSUME NEW k \in CallRecord
  PROVE  /\ Secure(k) \in {"password", "role", "disable", "created"}
         /\ Assign(k) \in {"role", "disable", "created"}
         /\ AfterRole(k) \in {"disable", "created"}
         /\ Secure(k) = "password" <=> k.password
         /\ Secure(k) # "password" => Secure(k) = Assign(k)
         /\ Assign(k) = "role" <=> k.role # None
         /\ Assign(k) # "role" => Assign(k) = AfterRole(k)
         /\ AfterRole(k) = "disable" <=> k.disabled
BY DEF Secure, Assign, AfterRole, CallRecord

LEMMA CreatesWell ==
  ASSUME TypeOK, Created, NEW c \in Calls, Creates(c)
  PROVE  Fits
<1> DEFINE p == call[c]
           v == [password |-> FALSE, enabled |-> TRUE, roles |-> {}]
<1>1. p \in CallRecord /\ p.client \in Clients /\ p.password \in BOOLEAN /\ p.disabled \in BOOLEAN
  BY DEF TypeOK, CallRecord
<1>0. PICK k : k = [Followed[c] EXCEPT !.at = Secure(p), !.own = "there"]
  OBVIOUS
<1>2. /\ k \in CallRecord /\ k.at = Secure(p) /\ k.own = "there" /\ k.client = p.client
      /\ k.password = p.password /\ k.disabled = p.disabled /\ k.role = p.role
  <2>1. Secure(p) \in {"password", "role", "disable", "rollback", "created", "undone"}
    BY <1>1, Stages
  <2>2. QED
    BY <1>0, <1>1, <2>1, Continued DEF CallRecord
<1>3. call' = [Followed EXCEPT ![c] = k] /\ client' = [client EXCEPT ![p.client] = v]
  BY <1>0 DEF Creates, CreatesClient
<1> HIDE DEF v
<1>4. client'[k.client] = v
  BY <1>1, <1>2, <1>3 DEF TypeOK
<1>5. SoFar(k, v)
  <2>1. k.at = "role" => k.password = FALSE
    BY <1>1, <1>2, Stages
  <2>2. k.at = "disable" => k.password = FALSE /\ k.role = None
    BY <1>1, <1>2, Stages
  <2>3. k.at = "created" => k.password = FALSE /\ k.role = None /\ k.disabled = FALSE
    BY <1>1, <1>2, Stages
  <2>4. QED
    BY <2>1, <2>2, <2>3 DEF SoFar, RolesAsked, AsAsked, v
<1>6. GoodCall(k, client')
  BY <1>1, <1>2, <1>4, <1>5, Stages DEF GoodCall
<1> HIDE DEF p
<1>7. Fit([Followed EXCEPT ![c] = k])
  BY <1>1, <1>2, <1>6, Stages, Continuing
<1>8. grace' = grace
  BY DEF Creates
<1>9. QED
  BY <1>3, <1>7, <1>8, FitStay

LEMMA SetsPasswordWell ==
  ASSUME TypeOK, Created, NEW c \in Calls, SetsPassword(c)
  PROVE  Fits
<1> DEFINE p == call[c]
           v == [client[p.client] EXCEPT !.password = TRUE]
<1>1. /\ p \in CallRecord /\ p.client \in Clients /\ p.password \in BOOLEAN /\ p.disabled \in BOOLEAN
      /\ p.own \in {"none", "there", "touched", "gone"}
  BY DEF TypeOK, CallRecord
<1>0. PICK k : k = [Followed[c] EXCEPT !.at = Assign(p), !.own = p.own]
  OBVIOUS
<1>2. /\ k \in CallRecord /\ k.at = Assign(p) /\ k.own = p.own /\ k.client = p.client
      /\ k.password = p.password /\ k.disabled = p.disabled /\ k.role = p.role
  <2>1. Assign(p) \in {"password", "role", "disable", "rollback", "created", "undone"}
    BY <1>1, Stages
  <2>2. QED
    BY <1>0, <1>1, <2>1, Continued DEF CallRecord
<1>3. /\ call' = [Followed EXCEPT ![c] = k] /\ client' = [client EXCEPT ![p.client] = v]
      /\ p.at = "password" /\ GoodCall(p, client)
  BY <1>0 DEF SetsPassword, SetClientPassword, Created
<1>4. p.own = "there" => v = [password |-> TRUE, enabled |-> TRUE, roles |-> {}]
  <2>1. p.own = "there" => client[p.client].enabled = TRUE /\ client[p.client].roles = {}
    BY <1>3 DEF GoodCall, SoFar
  <2>2. client[p.client] \in Client
    BY <1>1, <1>3 DEF TypeOK, SetsPassword, SetClientPassword
  <2>3. QED
    BY <1>1, <2>1, <2>2, ClientChanges
<1> HIDE DEF v
<1>5. client'[k.client] = v
  BY <1>1, <1>2, <1>3 DEF TypeOK
<1>6. p.own = "there" => SoFar(k, v)
  <2>1. k.password = TRUE
    BY <1>1, <1>2, <1>3 DEF GoodCall
  <2>2. k.at = "disable" => k.role = None
    BY <1>1, <1>2, Stages
  <2>3. k.at = "created" => k.role = None /\ k.disabled = FALSE
    BY <1>1, <1>2, Stages
  <2>4. k.at \in {"role", "disable", "created"}
    BY <1>1, <1>2, Stages
  <2>5. QED
    BY <1>4, <2>1, <2>2, <2>3, <2>4 DEF SoFar, RolesAsked, AsAsked
<1>7. GoodCall(k, client')
  BY <1>1, <1>2, <1>3, <1>5, <1>6, Stages DEF GoodCall
<1> HIDE DEF p
<1>8. Fit([Followed EXCEPT ![c] = k])
  BY <1>1, <1>2, <1>7, Stages, Continuing
<1>9. grace' = grace
  BY DEF SetsPassword
<1>10. QED
  BY <1>3, <1>8, <1>9, FitStay

LEMMA AssignsRoleWell ==
  ASSUME TypeOK, Created, NEW c \in Calls, AssignsRole(c)
  PROVE  Fits
<1> DEFINE p == call[c]
           v == [client[p.client] EXCEPT !.roles = client[p.client].roles \cup {p.role}]
<1>1. /\ p \in CallRecord /\ p.client \in Clients /\ p.password \in BOOLEAN /\ p.disabled \in BOOLEAN
      /\ p.own \in {"none", "there", "touched", "gone"}
  BY DEF TypeOK, CallRecord
<1>0. PICK k : k = [Followed[c] EXCEPT !.at = AfterRole(p), !.own = p.own]
  OBVIOUS
<1>2. /\ k \in CallRecord /\ k.at = AfterRole(p) /\ k.own = p.own /\ k.client = p.client
      /\ k.password = p.password /\ k.disabled = p.disabled /\ k.role = p.role
  <2>1. AfterRole(p) \in {"password", "role", "disable", "rollback", "created", "undone"}
    BY <1>1, Stages
  <2>2. QED
    BY <1>0, <1>1, <2>1, Continued DEF CallRecord
<1>3. /\ call' = [Followed EXCEPT ![c] = k] /\ client' = [client EXCEPT ![p.client] = v]
      /\ p.at = "role" /\ GoodCall(p, client)
  BY <1>0 DEF AssignsRole, AssignClientRole, Created
<1>4. p.own = "there" => v = [password |-> p.password, enabled |-> TRUE, roles |-> {p.role}]
  <2>1. p.own = "there" => /\ client[p.client].password = p.password
                          /\ client[p.client].enabled = TRUE /\ client[p.client].roles = {}
    BY <1>3 DEF GoodCall, SoFar
  <2>2. client[p.client] \in Client
    BY <1>1, <1>3 DEF TypeOK, AssignsRole, AssignClientRole
  <2>3. p.role \in Roles /\ client[p.client].roles \cup {p.role} \in SUBSET Roles
    BY <1>1, <1>3, <2>2 DEF CallRecord, GoodCall, Client
  <2>4. p.own = "there" => client[p.client].roles \cup {p.role} = {p.role}
    BY <2>1
  <2>5. \A roles \in SUBSET Roles : [client[p.client] EXCEPT !.roles = roles] =
            [password |-> client[p.client].password, enabled |-> client[p.client].enabled, roles |-> roles]
    BY <2>2, ClientChanges
  <2>6. v = [password |-> client[p.client].password, enabled |-> client[p.client].enabled,
             roles |-> client[p.client].roles \cup {p.role}]
    BY <2>3, <2>5
  <2>7. QED
    BY <2>1, <2>4, <2>6
<1> HIDE DEF v
<1>5. client'[k.client] = v
  BY <1>1, <1>2, <1>3 DEF TypeOK
<1>6. p.own = "there" => SoFar(k, v)
  <2>1. RolesAsked(k) = {p.role}
    BY <1>2, <1>3 DEF GoodCall, RolesAsked
  <2>2. k.at \in {"disable", "created"} /\ (k.at = "created" => k.disabled = FALSE)
    BY <1>1, <1>2, Stages
  <2>3. AsAsked(k) = [password |-> k.password, enabled |-> ~k.disabled, roles |-> {p.role}]
    BY <2>1 DEF AsAsked, RolesAsked
  <2>4. QED
    BY <1>2, <1>4, <2>1, <2>2, <2>3 DEF SoFar
<1>7. GoodCall(k, client')
  BY <1>1, <1>2, <1>3, <1>5, <1>6, Stages DEF GoodCall
<1> HIDE DEF p
<1>8. Fit([Followed EXCEPT ![c] = k])
  BY <1>1, <1>2, <1>7, Stages, Continuing
<1>9. grace' = grace
  BY DEF AssignsRole
<1>10. QED
  BY <1>3, <1>8, <1>9, FitStay

LEMMA DisablesWell ==
  ASSUME TypeOK, Created, NEW c \in Calls, Disables(c)
  PROVE  Fits
<1> DEFINE p == call[c]
           v == [client[p.client] EXCEPT !.enabled = FALSE]
<1>1. /\ p \in CallRecord /\ p.client \in Clients /\ p.password \in BOOLEAN /\ p.disabled \in BOOLEAN
      /\ p.own \in {"none", "there", "touched", "gone"}
  BY DEF TypeOK, CallRecord
<1>0. PICK k : k = [Followed[c] EXCEPT !.at = "created", !.own = p.own]
  OBVIOUS
<1>2. /\ k \in CallRecord /\ k.at = "created" /\ k.own = p.own /\ k.client = p.client
      /\ k.password = p.password /\ k.disabled = p.disabled /\ k.role = p.role
  BY <1>0, <1>1, Continued DEF CallRecord
<1>3. /\ call' = [Followed EXCEPT ![c] = k] /\ client' = [client EXCEPT ![p.client] = v]
      /\ p.at = "disable" /\ GoodCall(p, client)
  BY <1>0 DEF Disables, SetClientEnabled, Created
<1>4. p.own = "there" => v = [password |-> p.password, enabled |-> FALSE, roles |-> RolesAsked(p)]
  <2>1. p.own = "there" => /\ client[p.client].password = p.password
                          /\ client[p.client].roles = RolesAsked(p)
    BY <1>3 DEF GoodCall, SoFar
  <2>2. client[p.client] \in Client
    BY <1>1, <1>3 DEF TypeOK, Disables, SetClientEnabled
  <2>3. QED
    BY <1>1, <2>1, <2>2, ClientChanges
<1> HIDE DEF v
<1>5. client'[k.client] = v
  BY <1>1, <1>2, <1>3 DEF TypeOK
<1>6. p.own = "there" => SoFar(k, v)
  <2>1. RolesAsked(k) = RolesAsked(p) /\ k.disabled = TRUE
    BY <1>1, <1>2, <1>3 DEF GoodCall, RolesAsked
  <2>2. AsAsked(k) = [password |-> k.password, enabled |-> FALSE, roles |-> RolesAsked(p)]
    BY <2>1 DEF AsAsked, RolesAsked
  <2>3. QED
    BY <1>2, <1>4, <2>2 DEF SoFar
<1>7. GoodCall(k, client')
  BY <1>1, <1>2, <1>3, <1>5, <1>6 DEF GoodCall
<1> HIDE DEF p
<1>8. Fit([Followed EXCEPT ![c] = k])
  BY <1>1, <1>2, <1>7, Stages, Continuing
<1>9. grace' = grace
  BY DEF Disables
<1>10. QED
  BY <1>3, <1>8, <1>9, FitStay

LEMMA UndoesWell ==
  ASSUME TypeOK, Created, NEW c \in Calls, AssignFails(c) \/ RollsBack(c) \/ CreateFails(c)
  PROVE  Fits
<1>1. /\ call[c] \in CallRecord /\ call[c].client \in Clients /\ GoodCall(call[c], client)
      /\ call[c].own \in {"none", "there", "touched", "gone"}
  BY DEF TypeOK, CallRecord, Created
<1>2. CASE AssignFails(c)
  <2>0. PICK k : k = [Followed[c] EXCEPT !.at = "rollback", !.own = call[c].own]
    OBVIOUS
  <2>1. k \in CallRecord /\ k.at = "rollback" /\ k.own = call[c].own
    BY <1>1, <2>0, Continued DEF CallRecord
  <2>2. /\ call[c].at = "role"
        /\ \/ Clears([Followed EXCEPT ![c] = k])
           \/ call' = [Followed EXCEPT ![c] = k] /\ grace' = grace
    BY <1>2, <2>0 DEF AssignFails
  <2>3. GoodCall(k, client')
    BY <1>1, <2>1, <2>2 DEF GoodCall, SoFar
  <2>4. Fit([Followed EXCEPT ![c] = k])
    BY <2>1, <2>3, Continuing
  <2>5. QED
    BY <2>2, <2>4, FitStay, FitCleared
<1>3. CASE RollsBack(c)
  <2> DEFINE k == [Followed[c] EXCEPT !.at = "undone"]
  <2>1. /\ call' = [Followed EXCEPT ![c] = k] /\ call[c].at = "rollback"
        /\ client' = [client EXCEPT ![call[c].client] = None] /\ grace' = grace
    BY <1>3 DEF RollsBack, DeleteClient
  <2>2. client'[call[c].client] = None
    BY <1>1, <2>1 DEF TypeOK
  <2>3. call[c].own # "none"
    BY <1>1, <2>1 DEF GoodCall
  <2>4. Followed[c] = IF call[c].own \notin {"there", "touched"} THEN call[c]
                      ELSE [call[c] EXCEPT !.own = "gone"]
    BY <2>2 DEF Followed
  <2>5. Followed[c].own = "gone" /\ Followed[c] \in CallRecord
    BY <1>1, <2>3, <2>4 DEF CallRecord
  <2> HIDE DEF Followed
  <2>6. k \in CallRecord /\ k.at = "undone" /\ k.own = "gone"
    BY <2>5 DEF CallRecord
  <2> HIDE DEF k
  <2>7. GoodCall(k, client')
    BY <2>6 DEF GoodCall
  <2>8. Fit([Followed EXCEPT ![c] = k])
    BY <2>6, <2>7, Continuing
  <2>9. QED
    BY <2>1, <2>8, FitStay
<1>4. CASE CreateFails(c)
  <2>1. call' = [Followed EXCEPT ![c] = IdleCall] /\ grace' = grace
    BY <1>4 DEF CreateFails
  <2>2. Fit([Followed EXCEPT ![c] = IdleCall])
    <3>1. IdleCall.at # "missing"
      BY DEF IdleCall
    <3>2. QED
      BY <3>1, IdleIsTyped, Continuing
  <2>3. QED
    BY <2>1, <2>2, FitStay
<1>5. QED
  BY <1>2, <1>3, <1>4

LEMMA Acting ==
  ASSUME TypeOK, Created, NEW c \in Calls, Acts(c)
  PROVE  /\ ClientStep \/ UNCHANGED broker
         /\ Fits
         /\ Requested
         /\ UNCHANGED <<file, settings, requests, changes, vouched>>
         /\ UNCHANGED <<grace, doubted>> \/ (grace' = "none" /\ Doubts)
<1>1. Fits
  BY CreatesWell, SetsPasswordWell, AssignsRoleWell, DisablesWell, UndoesWell DEF Acts
<1>2. call[c].client \in Clients /\ call[c].role \in Roles \cup {None}
  BY DEF TypeOK, CallRecord
<1>3. CASE Creates(c) \/ SetsPassword(c) \/ RollsBack(c) \/ Disables(c)
  <2>1. ClientStep
    BY <1>2, <1>3 DEF Creates, SetsPassword, RollsBack, Disables, ClientStep
  <2>2. QED
    BY <1>1, <1>3, <2>1 DEF Creates, SetsPassword, RollsBack, Disables
<1>4. CASE AssignsRole(c) \/ AssignFails(c)
  <2>1. call[c].role \in Roles
    BY <1>2, <1>4 DEF AssignsRole, AssignFails, Created, GoodCall
  <2>2. ClientStep \/ UNCHANGED broker
    BY <1>2, <1>4, <2>1 DEF AssignsRole, AssignFails, ClientStep, Unanswered
  <2>3. UNCHANGED <<grace, doubted>> \/ (grace' = "none" /\ Doubts)
    BY <1>4 DEF AssignsRole, AssignFails, Clears
  <2>4. QED
    BY <1>1, <1>4, <2>2, <2>3 DEF AssignsRole, AssignFails
<1>5. CASE CreateFails(c)
  <2>1. ClientStep \/ UNCHANGED broker
    BY <1>2, <1>5 DEF CreateFails, ClientStep, Unanswered
  <2>2. QED
    BY <1>1, <1>5, <2>1 DEF CreateFails
<1>6. QED
  BY <1>3, <1>4, <1>5 DEF Acts

-----------------------------------------------------------------------------
(* The commands of the bootstrap *)

LEMMA OneAndTwo ==
  ASSUME NEW x, NEW y
  PROVE  /\ <<x>> # <<>> /\ Head(<<x>>) = x /\ Tail(<<x>>) = <<>>
         /\ <<x, y>> # <<>> /\ Head(<<x, y>>) = x /\ Tail(<<x, y>>) = <<y>>
OBVIOUS

LEMMA CommandsDiffer ==
  ASSUME NEW op, NEW name, NEW arg
  PROVE  Cmd(op, name, arg).op = op /\ Cmd(op, name, arg).name = name /\ Cmd(op, name, arg).arg = arg
BY DEF Cmd

\* A job begins with the command that is next, and goes on with what is left of it.
Goes(job, c, left) == job # <<>> /\ Head(job) = c /\ Tail(job) = left

LEMMA JobsGo ==
  /\ \A job \in Repairs :
        \/ \E r \in BootstrapRoles : Goes(job, Cmd("createRole", r, None), <<>>)
        \/ \E r \in BootstrapRoles, a \in Acls : Goes(job, Cmd("addRoleACL", r, a), <<>>)
  /\ \A add, remove, name :
        /\ Goes(Moves(add, remove, name), Cmd(add, name, ReadWriteAll), Takes(remove, name))
        /\ Takes(remove, name) # <<>>
        /\ Goes(Takes(remove, name), Cmd(remove, name, Legacy), <<>>)
  /\ Goes(Deletion, Cmd("deleteRole", Legacy, None), <<>>)
<1>1. \A x : Goes(<<x>>, x, <<>>) /\ \A y : Goes(<<x, y>>, x, <<y>>)
  BY OneAndTwo DEF Goes
<1>2. \A add, remove, name :
        /\ Goes(Moves(add, remove, name), Cmd(add, name, ReadWriteAll), Takes(remove, name))
        /\ Takes(remove, name) # <<>>
        /\ Goes(Takes(remove, name), Cmd(remove, name, Legacy), <<>>)
  BY <1>1, OneAndTwo DEF Moves, Takes
<1>3. Goes(Deletion, Cmd("deleteRole", Legacy, None), <<>>)
  BY <1>1 DEF Deletion
<1>4. ASSUME NEW job \in Repairs
      PROVE  \/ \E r \in BootstrapRoles : Goes(job, Cmd("createRole", r, None), <<>>)
             \/ \E r \in BootstrapRoles, a \in Acls : Goes(job, Cmd("addRoleACL", r, a), <<>>)
  <2>1. \/ \E r \in BootstrapRoles : job = <<Cmd("createRole", r, None)>>
        \/ \E r \in BootstrapRoles, a \in Acls : job = <<Cmd("addRoleACL", r, a)>>
    BY DEF Repairs
  <2>2. QED
    BY <1>1, <2>1
<1>5. QED
  BY <1>2, <1>3, <1>4

\* What the broker makes of the next command.
Runs(head, rest) ==
    \/ /\ head \in Repairs /\ After(boot.todo) = rest
       /\ \E r \in BootstrapRoles : \/ CreateRole(r)
                                    \/ \E a \in Acls : AddRoleAcl(r, a)
    \/ \E u \in Clients :
          \/ /\ head = Moves("addClientRole", "removeClientRole", u)
             /\ After(boot.todo) = <<Takes("removeClientRole", u)>> \o rest
             /\ AssignClientRole(u, ReadWriteAll)
          \/ /\ head = Takes("removeClientRole", u)
             /\ After(boot.todo) = rest
             /\ RemoveClientRole(u, Legacy)
    \/ \E g \in Groups :
          \/ /\ head = Moves("addGroupRole", "removeGroupRole", g)
             /\ After(boot.todo) = <<Takes("removeGroupRole", g)>> \o rest
             /\ AddGroupRole(g, ReadWriteAll)
          \/ /\ head = Takes("removeGroupRole", g)
             /\ After(boot.todo) = rest
             /\ RemoveGroupRole(g, Legacy)
    \/ head = Deletion /\ After(boot.todo) = rest /\ DeleteRole(Legacy)

LEMMA Running ==
  ASSUME Jobs, boot.todo # <<>>, Executes(NextCommand(boot.todo))
  PROVE  /\ Head(boot.todo) \in Job /\ Tail(boot.todo) \in Seq(Job)
         /\ Runs(Head(boot.todo), Tail(boot.todo))
         /\ BrokerStep
<1> DEFINE head == Head(boot.todo)
           rest == Tail(boot.todo)
           c == NextCommand(boot.todo)
<1>1. head \in Job /\ rest \in Seq(Job)
  BY DEF Jobs
<1>2. ASSUME NEW d, NEW left, Goes(head, d, left)
      PROVE  /\ c = d
             /\ After(boot.todo) = IF left = <<>> THEN rest ELSE <<left>> \o rest
  BY <1>2 DEF NextCommand, After, Goes
<1>3. Executes(c)
  OBVIOUS
<1>4. BrokerStep
  <2>1. \A r \in BootstrapRoles : r \in Roles
    BY DEF Roles
  <2>2. QED
    BY <1>3, <2>1, Constants DEF Executes, BrokerStep, RoleStep, ClientStep, GroupStep
<1> HIDE DEF head, rest, c
<1>5. CASE head \in Repairs
  <2>1. /\ After(boot.todo) = rest
        /\ c.op \in {"createRole", "addRoleACL"}
    <3>1. \E d : Goes(head, d, <<>>) /\ d.op \in {"createRole", "addRoleACL"}
      BY <1>5, JobsGo, CommandsDiffer
    <3>2. QED
      BY <1>2, <3>1
  <2>2. \E r \in BootstrapRoles : \/ CreateRole(r)
                                  \/ \E a \in Acls : AddRoleAcl(r, a)
    BY <1>3, <2>1, CommandsDiffer DEF Executes
  <2>3. QED
    BY <1>1, <1>4, <1>5, <2>1, <2>2 DEF Runs, head, rest
<1>6. ASSUME NEW u \in Clients, head = Moves("addClientRole", "removeClientRole", u)
      PROVE  After(boot.todo) = <<Takes("removeClientRole", u)>> \o rest /\ AssignClientRole(u, ReadWriteAll)
  <2>1. /\ c = Cmd("addClientRole", u, ReadWriteAll)
        /\ After(boot.todo) = <<Takes("removeClientRole", u)>> \o rest
    BY <1>2, <1>6, JobsGo
  <2>2. c.op = "addClientRole" /\ c.name = u
    BY <2>1, CommandsDiffer
  <2>3. QED
    BY <1>3, <2>1, <2>2, CommandsDiffer DEF Executes
<1>7. ASSUME NEW u \in Clients, head = Takes("removeClientRole", u)
      PROVE  After(boot.todo) = rest /\ RemoveClientRole(u, Legacy)
  <2>1. c = Cmd("removeClientRole", u, Legacy) /\ After(boot.todo) = rest
    BY <1>2, <1>7, JobsGo
  <2>2. c.op = "removeClientRole" /\ c.name = u
    BY <2>1, CommandsDiffer
  <2>3. QED
    BY <1>3, <2>1, <2>2, CommandsDiffer DEF Executes
<1>8. ASSUME NEW g \in Groups, head = Moves("addGroupRole", "removeGroupRole", g)
      PROVE  After(boot.todo) = <<Takes("removeGroupRole", g)>> \o rest /\ AddGroupRole(g, ReadWriteAll)
  <2>1. /\ c = Cmd("addGroupRole", g, ReadWriteAll)
        /\ After(boot.todo) = <<Takes("removeGroupRole", g)>> \o rest
    BY <1>2, <1>8, JobsGo
  <2>2. c.op = "addGroupRole" /\ c.name = g
    BY <2>1, CommandsDiffer
  <2>3. QED
    BY <1>3, <2>1, <2>2, CommandsDiffer DEF Executes
<1>9. ASSUME NEW g \in Groups, head = Takes("removeGroupRole", g)
      PROVE  After(boot.todo) = rest /\ RemoveGroupRole(g, Legacy)
  <2>1. c = Cmd("removeGroupRole", g, Legacy) /\ After(boot.todo) = rest
    BY <1>2, <1>9, JobsGo
  <2>2. c.op = "removeGroupRole" /\ c.name = g
    BY <2>1, CommandsDiffer
  <2>3. QED
    BY <1>3, <2>1, <2>2, CommandsDiffer DEF Executes
<1>10. CASE head = Deletion
  <2>1. c = Cmd("deleteRole", Legacy, None) /\ After(boot.todo) = rest
    BY <1>2, <1>10, JobsGo
  <2>2. c.op = "deleteRole"
    BY <2>1, CommandsDiffer
  <2>3. DeleteRole(Legacy)
    BY <1>3, <2>2, CommandsDiffer DEF Executes
  <2>4. QED
    BY <1>1, <1>4, <1>10, <2>1, <2>3 DEF Runs, head, rest
<1>11. QED
  BY <1>1, <1>4, <1>5, <1>6, <1>7, <1>8, <1>9, <1>10 DEF Job, ForClient, ForGroup, Runs, head, rest

-----------------------------------------------------------------------------
(* Requests *)

\* A client that a step creates has no roles.
LEMMA CreatedWithoutRoles ==
  ASSUME BrokerTyped, BrokerStep, NEW u \in Clients, client[u] = None, client'[u] # None
  PROVE  client'[u].roles = {}
<1>1. CASE RoleStep
  BY <1>1 DEF RoleStep, CreateRole, DeleteRole, AddRoleAcl, RemoveRoleAcl
<1>2. CASE ClientStep
  <2>1. PICK v \in Clients, k \in Client \cup {None} :
          /\ client' = [client EXCEPT ![v] = k]
          /\ k # None => k.roles = {} \/ client[v] # None
    BY <1>2, ClientStepEffect
  <2>2. QED
    BY <2>1 DEF BrokerTyped
<1>3. CASE GroupStep
  BY <1>3 DEF GroupStep, AddGroupRole, RemoveGroupRole
<1>4. QED
  BY <1>1, <1>2, <1>3 DEF BrokerStep, broker

\* A request: a step of the broker, or none, and what follows from it.
Request ==
    /\ BrokerStep
    /\ Fits
    /\ Requested
    /\ UNCHANGED <<file, settings>>
    /\ requests' \in 0..MaxRequests /\ changes' \in 0..MaxChanges
    /\ vouched' \in BOOLEAN /\ (vouched' => vouched /\ role'[ReadAll] # None)
    /\ UNCHANGED <<grace, doubted>> \/ (grace' = "none" /\ Doubts)

LEMMA ActingIsRequest ==
  ASSUME TypeOK, Created, Provided, NEW c \in Calls, Acts(c)
  PROVE  Request
<1>1. /\ ClientStep \/ UNCHANGED broker
      /\ Fits
      /\ Requested
      /\ UNCHANGED <<file, settings, requests, changes, vouched>>
      /\ UNCHANGED <<grace, doubted>> \/ (grace' = "none" /\ Doubts)
  BY Acting
<1>2. role' = role
  BY <1>1, ClientStepEffect DEF broker, TypeOK, BrokerTyped
<1>3. BrokerStep
  BY <1>1 DEF BrokerStep
<1>4. requests' \in 0..MaxRequests /\ changes' \in 0..MaxChanges
  BY <1>1 DEF TypeOK
<1>5. vouched' \in BOOLEAN /\ (vouched' => vouched /\ role'[ReadAll] # None)
  BY <1>1, <1>2 DEF TypeOK, Provided
<1>6. QED
  BY <1>1, <1>3, <1>4, <1>5 DEF Request

LEMMA OperatorChangesIsRequest ==
  ASSUME TypeOK, Created, OperatorChanges
  PROVE  Request
<1>1. requests' \in 0..MaxRequests /\ changes' \in 0..MaxChanges
  BY DynsecAssumption DEF OperatorChanges, CountsAsChange, TypeOK
<1>2. BrokerStep
  <2>1. CASE ChangesRole
    <3>1. BootstrapRoles \subseteq Roles
      BY Constants
    <3>2. QED
      BY <2>1, <3>1 DEF ChangesRole, BrokerStep, RoleStep
  <2>2. CASE ChangesClient
    BY <2>2 DEF ChangesClient, BrokerStep, ClientStep
  <2>3. CASE ChangesGroup
    BY <2>3 DEF ChangesGroup, BrokerStep, GroupStep
  <2>4. QED
    BY <2>1, <2>2, <2>3 DEF OperatorChanges
<1>3. Fits
  <2>1. call' = Followed /\ grace' = grace
    BY DEF OperatorChanges
  <2> HIDE DEF Followed
  <2>2. QED
    BY <2>1, FollowedFit, FitStay
<1>4. /\ Requested /\ UNCHANGED <<file, settings, grace, doubted>>
      /\ vouched' = (vouched /\ role'[ReadAll] # None)
  BY DEF OperatorChanges
<1>5. QED
  BY <1>1, <1>2, <1>3, <1>4 DEF Request, TypeOK

LEMMA DeletingIsRequest ==
  ASSUME TypeOK, Created, NEW c \in Calls, DeletesDefaultRole(c)
  PROVE  Request
<1>1. requests' \in 0..MaxRequests /\ changes' \in 0..MaxChanges
  BY DynsecAssumption DEF DeletesDefaultRole, CountsAsChange, TypeOK
<1>2. BrokerStep
  BY Constants DEF DeletesDefaultRole, BrokerStep, RoleStep
<1>3. Fits
  <2>1. PICK k : k = [IdleCall EXCEPT !.at = "deleted"]
    OBVIOUS
  <2>2. k \in CallRecord /\ k.at = "deleted" /\ k.own = "none"
    BY <2>1, IdleIsTyped DEF CallRecord, IdleCall
  <2>3. GoodCall(k, client')
    BY <2>2 DEF GoodCall
  <2>4. Fit([Followed EXCEPT ![c] = k])
    BY <2>2, <2>3, Continuing
  <2>5. call' = [Followed EXCEPT ![c] = k] /\ grace' = grace
    BY <2>1 DEF DeletesDefaultRole
  <2>6. QED
    BY <2>4, <2>5, FitStay
<1>4. Requested /\ UNCHANGED <<file, settings, grace, doubted>> /\ vouched' = FALSE
  BY DEF DeletesDefaultRole
<1>5. QED
  BY <1>1, <1>2, <1>3, <1>4 DEF Request

\* A request leaves the bootstrap where it is.
LEMMA BootIsMeddledWith ==
  ASSUME boot \in Boot, Requested
  PROVE  /\ boot' \in Boot
         /\ boot'.at = boot.at /\ boot'.role = boot.role /\ boot'.todo = boot.todo
         /\ boot'.setAsDefault = boot.setAsDefault
         /\ boot.at = "run" /\ ~boot'.meddled => ~boot.meddled /\ ~RolesChange
<1>1. PICK m \in BOOLEAN : m = (boot.meddled \/ (boot.at = "run" /\ RolesChange))
  OBVIOUS
<1>2. boot' = [boot EXCEPT !.meddled = m]
  BY <1>1 DEF Requested
<1>3. QED
  BY <1>1, <1>2 DEF Boot

RolesStay(u) ==
    client'[u] # None => client'[u].roles = {} \/ (client[u] # None /\ client'[u].roles = client[u].roles)

LEMMA RequestKeeps == ASSUME IInv, Request PROVE IInv'
<1>1. BrokerTyped'
  BY BrokerStepTyped DEF IInv, TypeOK, BrokerTyped, Request
<1>2. /\ boot' \in Boot
      /\ boot'.at = boot.at /\ boot'.role = boot.role /\ boot'.todo = boot.todo
      /\ boot'.setAsDefault = boot.setAsDefault
      /\ boot.at = "run" /\ ~boot'.meddled => ~boot.meddled /\ ~RolesChange
  BY BootIsMeddledWith DEF IInv, TypeOK, Request
<1>3. UNCHANGED <<file, default, initialized>>
  BY DEF Request, settings
<1>4. /\ unsaved' = (unsaved \/ RolesChange)
      /\ chosen' = (chosen /\ role'[Legacy] = None)
  BY DEF Request, Requested
<1>5. TypeOK'
  <2>1. /\ <<unsaved, vouched>>' \in BOOLEAN \X BOOLEAN
        /\ <<doubted, chosen>>' \in BOOLEAN \X BOOLEAN
    BY <1>4 DEF IInv, TypeOK, Request, Doubts
  <2>2. grace' \in {"none", "unsaved", "saved"}
    BY DEF IInv, TypeOK, Request
  <2>3. QED
    BY <1>1, <1>2, <1>3, <2>1, <2>2 DEF IInv, TypeOK, BrokerTyped, Request, Fits
<1>6. Jobs'
  BY <1>2 DEF IInv, Jobs
<1>7. Created'
  BY DEF Request, Fits
<1>8. Provided' /\ Trusted'
  BY <1>3 DEF IInv, Provided, Trusted, Request, Fits, Doubts, InFile
<1>9. Settled'
  BY <1>2, <1>3, <1>4 DEF IInv, Settled, InFile
<1>10. ASSUME ~RolesChange PROVE group' = group /\ \A u \in Clients : RolesStay(u)
  <2>1. ASSUME NEW u \in Clients, client'[u] # None
        PROVE  client'[u].roles = {} \/ (client[u] # None /\ client'[u].roles = client[u].roles)
    <3>1. CASE client[u] = None
      BY <2>1, <3>1, CreatedWithoutRoles DEF IInv, TypeOK, BrokerTyped, Request
    <3>2. CASE client[u] # None
      BY <1>10, <2>1, <3>2 DEF RolesChange
    <3>3. QED
      BY <3>1, <3>2
  <2>2. group' = group
    BY <1>10 DEF RolesChange
  <2>3. QED
    BY <2>1, <2>2 DEF RolesStay
<1>11. Synced'
  <2> HIDE DEF RolesChange
  <2>1. SUFFICES ASSUME ~unsaved'
                 PROVE  /\ \A u \in Clients : client'[u] # None /\ Legacy \in client'[u].roles =>
                              file.client[u] # None /\ Knows(file.client[u], client'[u].roles)
                        /\ \A g \in Groups : Knows(file.group[g], group'[g])
    BY <1>3 DEF Synced
  <2>2. ~unsaved /\ ~RolesChange
    BY <1>4, <2>1
  <2>3. QED
    BY <1>10, <2>2 DEF IInv, Synced, RolesStay
<1>12. Planned'
  <2> HIDE DEF RolesChange
  <2>1. SUFFICES ASSUME boot'.at = "run", ~boot'.meddled
                 PROVE  /\ \A u \in Clients :
                              client'[u] # None /\ Pending({Takes("removeClientRole", u)}) => Covered(client'[u].roles)
                        /\ \A g \in Groups : Pending({Takes("removeGroupRole", g)}) => Covered(group'[g])
                        /\ \A i \in 1..Len(boot.todo) : boot.todo[i] = Deletion =>
                              /\ i = Len(boot.todo)
                              /\ \A u \in Clients : client'[u] # None => Covered(client'[u].roles) \/ Pending(ForClient(u))
                              /\ \A g \in Groups : Covered(group'[g]) \/ Pending(ForGroup(g))
    BY <1>2 DEF Planned, Pending
  <2>2. boot.at = "run" /\ ~boot.meddled /\ ~RolesChange
    BY <1>2, <2>1
  <2>3. \A u \in Clients : client'[u] # None => Covered(client'[u].roles) \/ (client[u] # None /\ client'[u].roles = client[u].roles)
    BY <1>10, <2>2 DEF Covered, RolesStay
  <2>4. group' = group
    BY <1>10, <2>2
  <2>5. Planned
    BY DEF IInv
  <2> HIDE DEF Pending, Covered
  <2>6. QED
    BY <2>2, <2>3, <2>4, <2>5 DEF Planned
<1>13. QED
  BY <1>5, <1>6, <1>7, <1>8, <1>9, <1>11, <1>12 DEF IInv

-----------------------------------------------------------------------------
(* The steps that only read, the state file, the settings and the clock *)

LEMMA PreparingKeeps ==
  ASSUME IInv, NEW c \in Calls, Prepares(c)
  PROVE  IInv'
<1>1. /\ UNCHANGED <<broker, file, settings, boot, unsaved, vouched, chosen>>
      /\ requests' \in 0..MaxRequests /\ changes' \in 0..MaxChanges
  BY Preparing DEF IInv
<1>2. PICK k : /\ Prepared(k)
               /\ \/ call' = [call EXCEPT ![c] = k] /\ UNCHANGED <<grace, doubted>>
                  \/ Clears([call EXCEPT ![c] = k]) /\ Doubts
  BY Preparing DEF IInv
<1>3. UNCHANGED <<role, client, group, file, default, initialized, boot, unsaved, vouched, chosen>>
  BY <1>1 DEF broker, settings
<1>4. Fit([call EXCEPT ![c] = k])
  <2>1. k \in CallRecord /\ GoodCall(k, client')
    BY <1>2 DEF Prepared, GoodCall, SoFar
  <2>2. vouched /\ k.at = "missing" /\ k.role = ReadAll /\ ~k.late => grace # "none"
    BY <1>2 DEF Prepared, IInv, Provided
  <2>3. [call EXCEPT ![c] = k] \in [Calls -> CallRecord]
    BY <2>1 DEF IInv, TypeOK
  <2>4. \A d \in Calls : GoodCall([call EXCEPT ![c] = k][d], client')
    BY <1>3, <2>1 DEF IInv, TypeOK, Created
  <2>5. vouched /\ Judged(call, grace) => Judged([call EXCEPT ![c] = k], grace)
    BY <2>2 DEF IInv, TypeOK, Judged
  <2>6. QED
    BY <2>3, <2>4, <2>5 DEF Fit
<1>5. Fits /\ (UNCHANGED <<grace, doubted>> \/ (grace' = "none" /\ Doubts))
  BY <1>2, <1>4, FitStay, FitCleared DEF Clears
<1>6. TypeOK'
  <2>1. grace' \in {"none", "unsaved", "saved"} /\ doubted' \in BOOLEAN
    BY <1>5 DEF IInv, TypeOK, Doubts
  <2>2. QED
    BY <1>1, <1>3, <1>5, <2>1 DEF IInv, TypeOK, Fits
<1>7. Created' /\ Trusted'
  BY <1>3, <1>5 DEF IInv, Trusted, Fits
<1>8. Provided'
  <2>1. Provided /\ vouched \in BOOLEAN /\ doubted \in BOOLEAN
    BY DEF IInv, TypeOK
  <2>2. CASE UNCHANGED <<grace, doubted>>
    BY <1>3, <2>1, <2>2 DEF Provided, InFile
  <2>3. CASE Doubts
    BY <1>3, <2>1, <2>3 DEF Provided, Doubts, InFile
  <2>4. QED
    BY <1>5, <2>2, <2>3
<1>9. Jobs' /\ Settled' /\ Synced' /\ Planned'
  BY <1>3 DEF IInv, Jobs, Settled, InFile, Synced, Planned, Pending
<1>10. QED
  BY <1>6, <1>7, <1>8, <1>9 DEF IInv

LEMMA SavesKeeps == ASSUME IInv, Saves PROVE IInv'
<1>1. /\ file' = Current /\ unsaved' = FALSE /\ doubted' = FALSE
      /\ grace' = IF grace = "unsaved" THEN "saved" ELSE grace
      /\ UNCHANGED <<role, client, group, default, initialized, boot, call, requests, changes, vouched, chosen>>
  BY DEF Saves, broker, settings
<1>2. /\ file'.role = role
      /\ \A u \in Clients : client[u] # None => file'.client[u] = Migrated(client[u].roles)
      /\ \A g \in Groups : file'.group[g] = Migrated(group[g])
  BY <1>1 DEF Current
<1>3. file' \in File
  <2> DEFINE held(u) == IF client[u] = None THEN None ELSE Migrated(client[u].roles)
  <2>1. \A u \in Clients : held(u) \in (SUBSET Roles) \cup {None}
    BY DEF IInv, TypeOK, Client, Migrated
  <2>2. \A g \in Groups : Migrated(group[g]) \in SUBSET Roles
    BY DEF IInv, TypeOK, Migrated
  <2>3. Current = [role |-> role, client |-> [u \in Clients |-> held(u)],
                   group |-> [g \in Groups |-> Migrated(group[g])]]
    BY DEF Current
  <2> HIDE DEF held
  <2>4. role \in [Roles -> (SUBSET Acls) \cup {None}]
    BY DEF IInv, TypeOK
  <2>5. QED
    BY <1>1, <2>1, <2>2, <2>3, <2>4 DEF File
<1>4. TypeOK'
  BY <1>1, <1>3 DEF IInv, TypeOK
<1>5. Created' /\ Jobs' /\ Planned'
  BY <1>1 DEF IInv, Created, Jobs, Planned, Pending
<1>6. Provided' /\ Trusted' /\ Settled'
  BY <1>1, <1>2 DEF IInv, Provided, Trusted, Judged, Settled, InFile
<1>7. Synced'
  <2>1. ASSUME NEW u \in Clients, client[u] # None, Legacy \in client[u].roles
        PROVE  file'.client[u] # None /\ Knows(file'.client[u], client[u].roles)
    <3>1. file'.client[u] = client[u].roles \cap {Legacy, ReadWriteAll}
      BY <1>2, <2>1 DEF Migrated
    <3>2. Legacy \in file'.client[u] /\ file'.client[u] \in SUBSET Roles
      BY <2>1, <3>1, Constants
    <3>3. QED
      BY <3>1, <3>2, Constants DEF Knows
  <2>2. ASSUME NEW g \in Groups PROVE Knows(file'.group[g], group[g])
    BY <1>2 DEF Migrated, Knows
  <2>3. QED
    BY <1>1, <2>1, <2>2 DEF Synced
<1>8. QED
  BY <1>4, <1>5, <1>6, <1>7 DEF IInv

LEMMA GraceExpiresKeeps == ASSUME IInv, GraceExpires PROVE IInv'
<1>1. /\ grace = "saved" /\ grace' = "none"
      /\ UNCHANGED <<role, client, group, file, default, initialized, boot, requests, changes,
                     unsaved, vouched, doubted, chosen>>
  BY DEF GraceExpires, Clears, broker, settings, history
<1>2. Fits
  <2>1. Fit(call)
    BY <1>1 DEF IInv, TypeOK, Created, Fit
  <2>2. QED
    BY <2>1, FitCleared DEF GraceExpires
<1>3. TypeOK'
  BY <1>1, <1>2 DEF IInv, TypeOK, Fits
<1>4. Created' /\ Provided' /\ Trusted'
  BY <1>1, <1>2 DEF IInv, Fits, Provided, Trusted, InFile
<1>5. Jobs' /\ Settled' /\ Synced' /\ Planned'
  BY <1>1 DEF IInv, Jobs, Settled, Synced, Planned, Pending, InFile
<1>6. QED
  BY <1>3, <1>4, <1>5 DEF IInv

LEMMA SetClientDefaultsKeeps == ASSUME IInv, SetClientDefaults PROVE IInv'
<1>1. /\ default' \in Default
      /\ chosen' = /\ initialized /\ boot.at \notin {"read", "run"}
                   /\ default' # Legacy /\ role[Legacy] = None /\ ~InFile(Legacy)
      /\ UNCHANGED <<role, client, group, file, initialized, grace, boot, call, unsaved, vouched, doubted>>
  BY DEF SetClientDefaults, broker
<1>2. requests' \in 0..MaxRequests /\ changes' \in 0..MaxChanges
  BY DynsecAssumption DEF SetClientDefaults, CountsAsChange, IInv, TypeOK
<1>3. TypeOK'
  BY <1>1, <1>2 DEF IInv, TypeOK
<1>4. Jobs' /\ Created' /\ Synced' /\ Planned'
  BY <1>1 DEF IInv, Jobs, Created, Synced, Planned, Pending
<1>5. Provided' /\ Trusted' /\ Settled'
  BY <1>1 DEF IInv, Provided, Trusted, Judged, Settled, InFile
<1>6. QED
  BY <1>3, <1>4, <1>5 DEF IInv

-----------------------------------------------------------------------------
(* The steps of the bootstrap before and after its commands *)

LEMMA WaitingIsTyped ==
  /\ Waiting \in Boot /\ Waiting.at = "wait" /\ Waiting.todo = <<>>
  /\ \A at \in {"wait", "provide", "mark", "ended"} : /\ [Waiting EXCEPT !.at = at] \in Boot
                                  /\ [Waiting EXCEPT !.at = at].at = at
                                  /\ [Waiting EXCEPT !.at = at].todo = <<>>
  /\ \A d \in Roles \cup {None} : /\ [Waiting EXCEPT !.at = "read", !.role = d] \in Boot
                                  /\ [Waiting EXCEPT !.at = "read", !.role = d].at = "read"
                                  /\ [Waiting EXCEPT !.at = "read", !.role = d].role = d
                                  /\ [Waiting EXCEPT !.at = "read", !.role = d].todo = <<>>
<1>1. <<>> \in Seq(Seq(Command))
  OBVIOUS
<1>2. Waiting \in Boot /\ Waiting.at = "wait" /\ Waiting.todo = <<>>
  BY <1>1 DEF Waiting, Boot
<1>3. QED
  BY <1>2 DEF Boot

\* The bootstrap at rest, while it reads and where it has run all its commands.
LEMMA RestingKeeps ==
  ASSUME IInv, boot' \in Boot, boot'.at # "run", boot'.todo = <<>>,
         boot'.at = "read" => boot'.role = boot.role /\ boot.at = "read",
         UNCHANGED <<role, client, group, file, default, grace, call, requests, changes, unsaved,
                     vouched, doubted, chosen>>,
         initialized' \in BOOLEAN, initialized => initialized'
  PROVE  IInv'
<1>1. TypeOK'
  BY DEF IInv, TypeOK
<1>2. Jobs'
  BY DEF Jobs
<1>3. Created' /\ Synced'
  BY DEF IInv, Created, Synced
<1>4. Provided' /\ Trusted'
  BY DEF IInv, Provided, Trusted, Judged, InFile
<1>5. Settled'
  BY DEF IInv, Settled, InFile
<1>6. Planned'
  BY DEF Planned
<1>7. QED
  BY <1>1, <1>2, <1>3, <1>4, <1>5, <1>6 DEF IInv

LEMMA BootReadsKeeps == ASSUME IInv, BootReads PROVE IInv'
<1>1. /\ boot' = [Waiting EXCEPT !.at = "read", !.role = default]
      /\ UNCHANGED <<role, client, group, file, default, initialized, grace, call, requests, changes,
                     unsaved, vouched, doubted, chosen>>
  BY DEF BootReads, broker, settings, history
<1>2. default \in Roles \cup {None}
  BY DEF IInv, TypeOK, Default
<1>3. boot' \in Boot /\ boot'.at = "read" /\ boot'.role = default /\ boot'.todo = <<>>
  BY <1>1, <1>2, WaitingIsTyped
<1>4. TypeOK'
  BY <1>1, <1>3 DEF IInv, TypeOK
<1>5. Jobs'
  BY <1>3 DEF Jobs
<1>6. Created' /\ Synced'
  BY <1>1 DEF IInv, Created, Synced
<1>7. Planned' /\ Provided' /\ Trusted' /\ Settled'
  BY <1>1, <1>3 DEF IInv, Planned, Provided, Trusted, Judged, Settled, InFile
<1>8. QED
  BY <1>4, <1>5, <1>6, <1>7 DEF IInv

LEMMA BootPassesKeeps ==
  ASSUME IInv, BootKeeps \/ BootLeaves \/ BootMarks
  PROVE  IInv'
<1>1. /\ UNCHANGED <<role, client, group, file, default, grace, call, requests, changes,
                     unsaved, vouched, doubted, chosen>>
      /\ initialized' \in {initialized, TRUE}
  BY DEF BootKeeps, BootLeaves, BootMarks, broker, settings, history
<1>2. boot' \in Boot /\ boot'.at \in {"ended", "mark"} /\ boot'.todo = <<>>
  <2>1. CASE BootKeeps \/ BootLeaves
    BY <2>1, WaitingIsTyped DEF BootKeeps, BootLeaves
  <2>2. CASE BootMarks
    BY <2>2, WaitingIsTyped DEF BootMarks
  <2>3. QED
    BY <2>1, <2>2
<1>3. initialized' \in BOOLEAN /\ (initialized => initialized')
  BY <1>1 DEF IInv, TypeOK
<1>4. /\ boot'.at # "run"
      /\ boot'.at = "read" => boot'.role = boot.role /\ boot.at = "read"
  BY <1>2
<1>5. QED
  BY <1>1, <1>2, <1>3, <1>4, RestingKeeps

LEMMA BootSetsDefaultKeeps == ASSUME IInv, BootSetsDefault PROVE IInv'
<1>1. /\ boot.at = "run" /\ boot.todo = <<>> /\ boot.setAsDefault
      /\ default' = ReadAll
      /\ boot' = [Waiting EXCEPT !.at = "provide"]
      /\ UNCHANGED <<role, client, group, file, initialized, grace, call, requests, changes,
                     unsaved, vouched, doubted, chosen>>
  BY DEF BootSetsDefault, broker, history
<1>2. boot' \in Boot /\ boot'.at = "provide" /\ boot'.todo = <<>>
  BY <1>1, WaitingIsTyped
<1>3. TypeOK'
  BY <1>1, <1>2, Constants DEF IInv, TypeOK, Default
<1>4. Jobs' /\ Created' /\ Synced' /\ Planned'
  BY <1>1, <1>2 DEF IInv, Jobs, Created, Synced, Planned
<1>5. Provided' /\ Trusted'
  BY <1>1 DEF IInv, Provided, Trusted, Judged, InFile
<1>6. Settled'
  BY <1>1, <1>2, Constants DEF IInv, Settled, InFile
<1>7. QED
  BY <1>3, <1>4, <1>5, <1>6 DEF IInv

LEMMA BootProvidesKeeps == ASSUME IInv, BootProvides PROVE IInv'
<1>1. /\ grace' = "unsaved" /\ vouched' = (role[ReadAll] # None) /\ doubted' = FALSE
      /\ boot' = [Waiting EXCEPT !.at = "mark"]
      /\ UNCHANGED <<role, client, group, file, default, initialized, call, requests, changes,
                     unsaved, chosen>>
  BY DEF BootProvides, broker, settings
<1>2. boot' \in Boot /\ boot'.at = "mark" /\ boot'.todo = <<>>
  BY <1>1, WaitingIsTyped
<1>3. TypeOK'
  BY <1>1, <1>2 DEF IInv, TypeOK
<1>4. Jobs' /\ Planned'
  BY <1>2 DEF Jobs, Planned
<1>5. Created' /\ Synced'
  BY <1>1 DEF IInv, Created, Synced
<1>6. Provided' /\ Trusted'
  BY <1>1 DEF Provided, Trusted, Judged
<1>7. Settled'
  BY <1>1, <1>2 DEF IInv, Settled, InFile
<1>8. QED
  BY <1>3, <1>4, <1>5, <1>6, <1>7 DEF IInv

LEMMA RestartKeeps == ASSUME IInv, Restart PROVE IInv'
<1>1. /\ boot' = Waiting /\ call' = [c \in Calls |-> IdleCall] /\ grace' = "none"
      /\ vouched' = FALSE /\ doubted' = FALSE
      /\ UNCHANGED <<role, client, group, file, default, initialized, requests, changes, unsaved, chosen>>
  BY DEF Restart, broker, settings
<1>2. boot' \in Boot /\ boot'.at = "wait" /\ boot'.todo = <<>>
  BY <1>1, WaitingIsTyped
<1>3. call' \in [Calls -> CallRecord] /\ Created'
  BY <1>1, IdleIsTyped DEF Created
<1>4. TypeOK'
  BY <1>1, <1>2, <1>3 DEF IInv, TypeOK
<1>5. Jobs' /\ Synced' /\ Planned' /\ Provided' /\ Trusted'
  BY <1>1, <1>2 DEF IInv, Jobs, Synced, Planned, Provided, Trusted
<1>6. Settled'
  BY <1>1, <1>2 DEF IInv, Settled, InFile
<1>7. QED
  BY <1>3, <1>4, <1>5, <1>6 DEF IInv

-----------------------------------------------------------------------------
(* The bootstrap runs its commands *)

\* A job is known by its first command.
LEMMA JobsDiffer ==
  /\ \A job \in Repairs : Head(job).op \in {"createRole", "addRoleACL"}
  /\ \A x : /\ Head(Moves("addClientRole", "removeClientRole", x)).op = "addClientRole"
            /\ Head(Moves("addClientRole", "removeClientRole", x)).name = x
            /\ Head(Takes("removeClientRole", x)).op = "removeClientRole"
            /\ Head(Takes("removeClientRole", x)).name = x
            /\ Head(Moves("addGroupRole", "removeGroupRole", x)).op = "addGroupRole"
            /\ Head(Moves("addGroupRole", "removeGroupRole", x)).name = x
            /\ Head(Takes("removeGroupRole", x)).op = "removeGroupRole"
            /\ Head(Takes("removeGroupRole", x)).name = x
  /\ Head(Deletion).op = "deleteRole"
BY JobsGo, CommandsDiffer DEF Goes

\* A sequence without its first element, or with another one in its place.
LEMMA Shortened ==
  ASSUME NEW S, NEW s \in Seq(S), s # <<>>, NEW t \in S
  PROVE  /\ Tail(s) \in Seq(S) /\ Len(Tail(s)) = Len(s) - 1
         /\ 1 \in 1..Len(s) /\ s[1] = Head(s)
         /\ \A i \in 1..Len(Tail(s)) : i + 1 \in 1..Len(s) /\ Tail(s)[i] = s[i + 1]
         /\ \A j \in 1..Len(s) : j = 1 \/ (j - 1 \in 1..Len(Tail(s)) /\ Tail(s)[j - 1] = s[j])
         /\ <<t>> \o Tail(s) \in Seq(S) /\ Len(<<t>> \o Tail(s)) = Len(s)
         /\ (<<t>> \o Tail(s))[1] = t
         /\ \A i \in 1..Len(s) : i = 1 \/ (<<t>> \o Tail(s))[i] = s[i]
<1>1. Len(s) \in Nat /\ Len(s) # 0
  OBVIOUS
<1>2. Tail(s) \in Seq(S) /\ Len(Tail(s)) = Len(s) - 1 /\ \A i \in 1..Len(Tail(s)) : Tail(s)[i] = s[i + 1]
  BY <1>1
<1>3. s[1] = Head(s)
  BY <1>1
<1> DEFINE r == Tail(s)
<1> HIDE DEF r
<1>4. r \in Seq(S) /\ Len(r) = Len(s) - 1 /\ \A i \in 1..Len(r) : r[i] = s[i + 1]
  BY <1>2 DEF r
<1>5. <<t>> \o r \in Seq(S) /\ Len(<<t>> \o r) = Len(s) /\ (<<t>> \o r)[1] = t
  BY <1>1, <1>4
<1>6. ASSUME NEW i \in 1..Len(s), i # 1 PROVE (<<t>> \o r)[i] = s[i]
  <2>1. i - 1 \in 1..Len(r) /\ i = (i - 1) + 1
    BY <1>1, <1>4, <1>6
  <2>2. (<<t>> \o r)[i] = r[i - 1]
    BY <1>4, <1>5, <2>1
  <2>3. QED
    BY <1>4, <2>1, <2>2
<1>7. \A j \in 1..Len(s) : j = 1 \/ (j - 1 \in 1..Len(r) /\ r[j - 1] = s[j])
  BY <1>1, <1>4
<1>8. QED
  BY <1>1, <1>3, <1>4, <1>5, <1>6, <1>7 DEF r

\* What the bootstrap leaves of the roles somebody holds.
Kept(roles, left) == (Legacy \in left => Legacy \in roles) /\ (ReadWriteAll \in roles => ReadWriteAll \in left)

\* The commands of the bootstrap: who has the right to write keeps it in one role or the
\* other, if the legacy role is not taken from one who has no other.
LEMMA BootCommand ==
  ASSUME TypeOK, Jobs,
         (boot.todo # <<>> /\ Executes(NextCommand(boot.todo))) \/ UNCHANGED broker
  PROVE  /\ BrokerTyped'
         /\ role[ReadAll] # None => role'[ReadAll] # None
         /\ \A u \in Clients : client'[u] # None => client[u] # None /\ Kept(client[u].roles, client'[u].roles)
         /\ \A g \in Groups : Kept(group[g], group'[g])
<1>1. BrokerTyped
  BY DEF TypeOK, BrokerTyped
<1>2. CASE UNCHANGED broker
  BY <1>1, <1>2 DEF broker, Kept, BrokerTyped
<1>3. CASE boot.todo # <<>> /\ Executes(NextCommand(boot.todo))
  <2>1. BrokerStep /\ Runs(Head(boot.todo), Tail(boot.todo))
    BY <1>3, Running
  <2>2. BrokerTyped'
    BY <1>1, <2>1, BrokerStepTyped
  <2>3. CASE \E r \in BootstrapRoles : CreateRole(r) \/ \E a \in Acls : AddRoleAcl(r, a)
    <3>1. PICK r \in BootstrapRoles : CreateRole(r) \/ \E a \in Acls : AddRoleAcl(r, a)
      BY <2>3
    <3>2. PICK acls \in SUBSET Acls : role' = [role EXCEPT ![r] = acls]
      <4>1. CASE CreateRole(r)
        BY <4>1 DEF CreateRole
      <4>2. ASSUME NEW a \in Acls, AddRoleAcl(r, a) PROVE \E acls \in SUBSET Acls : role' = [role EXCEPT ![r] = acls]
        <5>1. role[r] \cup {a} \in SUBSET Acls
          BY <1>1, <4>2, Constants DEF AddRoleAcl, BrokerTyped
        <5>2. QED
          BY <4>2, <5>1 DEF AddRoleAcl
      <4>3. QED
        BY <3>1, <4>1, <4>2
    <3>3. UNCHANGED <<client, group>>
      BY <3>1 DEF CreateRole, AddRoleAcl
    <3>4. role[ReadAll] # None => role'[ReadAll] # None
      BY <1>1, <3>2, Constants DEF BrokerTyped
    <3>5. QED
      BY <2>2, <3>3, <3>4 DEF Kept
  <2>4. CASE \E u \in Clients : AssignClientRole(u, ReadWriteAll) \/ RemoveClientRole(u, Legacy)
    <3>1. PICK u \in Clients : AssignClientRole(u, ReadWriteAll) \/ RemoveClientRole(u, Legacy)
      BY <2>4
    <3>2. UNCHANGED <<role, group>> /\ client[u] # None /\ client[u] \in Client
      BY <1>1, <3>1 DEF AssignClientRole, RemoveClientRole, BrokerTyped
    <3>3. /\ \A v \in Clients : v # u => client'[v] = client[v]
          /\ client'[u].roles \in {client[u].roles \cup {ReadWriteAll}, client[u].roles \ {Legacy}}
      BY <1>1, <3>1, <3>2 DEF AssignClientRole, RemoveClientRole, BrokerTyped, Client
    <3>4. QED
      BY <2>2, <3>2, <3>3, Constants DEF Kept
  <2>5. CASE \E g \in Groups : AddGroupRole(g, ReadWriteAll) \/ RemoveGroupRole(g, Legacy)
    <3>1. PICK g \in Groups : AddGroupRole(g, ReadWriteAll) \/ RemoveGroupRole(g, Legacy)
      BY <2>5
    <3>2. UNCHANGED <<role, client>>
      BY <3>1 DEF AddGroupRole, RemoveGroupRole
    <3>3. /\ \A h \in Groups : h # g => group'[h] = group[h]
          /\ group'[g] \in {group[g] \cup {ReadWriteAll}, group[g] \ {Legacy}}
      BY <1>1, <3>1 DEF AddGroupRole, RemoveGroupRole, BrokerTyped
    <3>4. QED
      BY <2>2, <3>2, <3>3, Constants DEF Kept
  <2>6. CASE DeleteRole(Legacy)
    <3>1. /\ role' = [role EXCEPT ![Legacy] = None]
          /\ group' = [g \in Groups |-> group[g] \ {Legacy}]
      BY <2>6 DEF DeleteRole
    <3>2. ASSUME NEW u \in Clients, client'[u] # None
          PROVE  client[u] # None /\ client'[u].roles = client[u].roles \ {Legacy}
      BY <1>1, <2>6, <3>2 DEF DeleteRole, BrokerTyped, Client
    <3>3. role'[ReadAll] = role[ReadAll]
      BY <1>1, <3>1, Constants DEF BrokerTyped
    <3>4. QED
      BY <2>2, <3>1, <3>2, <3>3, Constants DEF Kept
  <2>7. QED
    BY <2>1, <2>3, <2>4, <2>5, <2>6 DEF Runs
<1>4. QED
  BY <1>2, <1>3

\* What stays of the invariant whatever a command of the bootstrap does.
LEMMA BootCommandKeeps ==
  ASSUME IInv,
         (boot.todo # <<>> /\ Executes(NextCommand(boot.todo))) \/ UNCHANGED broker,
         boot' \in Boot, boot'.at \in {"read", "run"} => boot'.at = boot.at,
         boot'.at = "run" => boot'.role = boot.role /\ boot'.setAsDefault = boot.setAsDefault,
         boot'.at # "read",
         call' = Followed, chosen' = (chosen /\ role'[Legacy] = None),
         UNCHANGED <<file, settings, grace, requests, changes, unsaved, vouched, doubted>>
  PROVE  TypeOK' /\ Created' /\ Provided' /\ Trusted' /\ Settled' /\ Synced'
<1>1. /\ BrokerTyped'
      /\ role[ReadAll] # None => role'[ReadAll] # None
      /\ \A u \in Clients : client'[u] # None => client[u] # None /\ Kept(client[u].roles, client'[u].roles)
      /\ \A g \in Groups : Kept(group[g], group'[g])
  BY BootCommand DEF IInv
<1>2. UNCHANGED <<file, default, initialized, grace, requests, changes, unsaved, vouched, doubted>>
  BY DEF settings
<1>3. Fits
  <2> HIDE DEF Followed
  <2>1. QED
    BY <1>2, FollowedFit, FitStay DEF IInv
<1>4. TypeOK'
  <2>1. /\ <<unsaved, vouched>>' \in BOOLEAN \X BOOLEAN
        /\ <<doubted, chosen>>' \in BOOLEAN \X BOOLEAN
    BY <1>2 DEF IInv, TypeOK
  <2>2. QED
    BY <1>1, <1>2, <1>3, <2>1 DEF IInv, TypeOK, BrokerTyped, Fits
<1>5. Created' /\ Provided' /\ Trusted'
  BY <1>1, <1>2, <1>3 DEF IInv, Fits, Provided, Trusted, InFile
<1>6. Settled'
  BY <1>2 DEF IInv, Settled, InFile
<1>7. Synced'
  <2>1. SUFFICES ASSUME ~unsaved
                 PROVE  /\ \A u \in Clients : client'[u] # None /\ Legacy \in client'[u].roles =>
                              file.client[u] # None /\ Knows(file.client[u], client'[u].roles)
                        /\ \A g \in Groups : Knows(file.group[g], group'[g])
    BY <1>2 DEF Synced
  <2>2. QED
    BY <1>1, <2>1 DEF IInv, Synced, Knows, Kept
<1>8. QED
  BY <1>4, <1>5, <1>6, <1>7

LEMMA BootFailsKeeps == ASSUME IInv, BootFails PROVE IInv'
<1>1. PICK at \in {"wait", "ended"} : boot' = [Waiting EXCEPT !.at = at]
  BY DEF BootFails
<1>2. boot' \in Boot /\ boot'.at \in {"wait", "ended"} /\ boot'.todo = <<>>
  BY <1>1, WaitingIsTyped
<1>3. /\ (boot.todo # <<>> /\ Executes(NextCommand(boot.todo))) \/ UNCHANGED broker
      /\ call' = Followed /\ chosen' = (chosen /\ role'[Legacy] = None)
      /\ UNCHANGED <<file, settings, grace, requests, changes, unsaved, vouched, doubted>>
  BY DEF BootFails, Unanswered
<1>4. TypeOK' /\ Created' /\ Provided' /\ Trusted' /\ Settled' /\ Synced'
  BY <1>2, <1>3, BootCommandKeeps
<1>5. Jobs' /\ Planned'
  BY <1>2 DEF Jobs, Planned
<1>6. QED
  BY <1>4, <1>5 DEF IInv

\* What is left to run after a command.
LEMMA WhatIsLeft ==
  ASSUME Jobs, boot.todo # <<>>, Runs(Head(boot.todo), Tail(boot.todo)), boot'.todo = After(boot.todo)
  PROVE  /\ boot'.todo \in Seq(Job)
         /\ \A i \in 1..Len(boot'.todo) :
               \/ \E j \in 1..Len(boot.todo) : /\ boot'.todo[i] = boot.todo[j]
                                               /\ j = Len(boot.todo) => i = Len(boot'.todo)
               \/ \E u \in Clients : /\ boot'.todo[i] = Takes("removeClientRole", u)
                                     /\ AssignClientRole(u, ReadWriteAll)
               \/ \E g \in Groups : /\ boot'.todo[i] = Takes("removeGroupRole", g)
                                    /\ AddGroupRole(g, ReadWriteAll)
         /\ \A u \in Clients :
               Pending(ForClient(u)) => Pending(ForClient(u))' \/ RemoveClientRole(u, Legacy)
         /\ \A g \in Groups :
               Pending(ForGroup(g)) => Pending(ForGroup(g))' \/ RemoveGroupRole(g, Legacy)
<1> DEFINE jobs == boot.todo
           left == boot'.todo
           head == Head(boot.todo)
           rest == Tail(boot.todo)
<1>1. /\ jobs \in Seq(Job) /\ jobs # <<>> /\ rest \in Seq(Job) /\ jobs[1] = head
      /\ Len(rest) = Len(jobs) - 1 /\ Len(jobs) \in Nat
      /\ \A i \in 1..Len(rest) : i + 1 \in 1..Len(jobs) /\ rest[i] = jobs[i + 1]
      /\ \A j \in 1..Len(jobs) : j = 1 \/ (j - 1 \in 1..Len(rest) /\ rest[j - 1] = jobs[j])
  BY Shortened DEF Jobs
<1>2. ASSUME NEW t \in Job, left = <<t>> \o rest
      PROVE  /\ left \in Seq(Job) /\ Len(left) = Len(jobs) /\ 1 \in 1..Len(left) /\ left[1] = t
             /\ \A i \in 1..Len(jobs) : i = 1 \/ left[i] = jobs[i]
  BY <1>1, <1>2, Shortened
<1> DEFINE Whole ==
             \A i \in 1..Len(left) :
                \/ \E j \in 1..Len(jobs) : left[i] = jobs[j] /\ (j = Len(jobs) => i = Len(left))
                \/ \E u \in Clients : left[i] = Takes("removeClientRole", u) /\ AssignClientRole(u, ReadWriteAll)
                \/ \E g \in Groups : left[i] = Takes("removeGroupRole", g) /\ AddGroupRole(g, ReadWriteAll)
           Waits(set) == (\E j \in 1..Len(jobs) : jobs[j] \in set) => (\E i \in 1..Len(left) : left[i] \in set)
           Goal == /\ left \in Seq(Job) /\ Whole
                   /\ \A u \in Clients : Waits(ForClient(u)) \/ RemoveClientRole(u, Legacy)
                   /\ \A g \in Groups : Waits(ForGroup(g)) \/ RemoveGroupRole(g, Legacy)
<1> SUFFICES Goal
  BY DEF Pending
<1>3. ASSUME left = rest
      PROVE  /\ left \in Seq(Job) /\ Whole
             /\ \A set : head \notin set => Waits(set)
  <2>1. left \in Seq(Job)
    BY <1>1, <1>3
  <2>2. ASSUME NEW i \in 1..Len(left)
        PROVE  \E j \in 1..Len(jobs) : left[i] = jobs[j] /\ (j = Len(jobs) => i = Len(left))
    BY <1>1, <1>3, <2>2
  <2>3. ASSUME NEW set, head \notin set, NEW j \in 1..Len(jobs), jobs[j] \in set
        PROVE  \E i \in 1..Len(left) : left[i] \in set
    BY <1>1, <1>3, <2>3
  <2>4. QED
    BY <2>1, <2>2, <2>3
<1>4. ASSUME NEW t \in Job, left = <<t>> \o rest,
             \/ \E u \in Clients : t = Takes("removeClientRole", u) /\ AssignClientRole(u, ReadWriteAll)
             \/ \E g \in Groups : t = Takes("removeGroupRole", g) /\ AddGroupRole(g, ReadWriteAll)
      PROVE  /\ left \in Seq(Job) /\ Whole
             /\ \A set : (head \in set => t \in set) => Waits(set)
  <2>1. /\ left \in Seq(Job) /\ Len(left) = Len(jobs) /\ 1 \in 1..Len(left) /\ left[1] = t
        /\ \A i \in 1..Len(jobs) : i = 1 \/ left[i] = jobs[i]
    BY <1>2, <1>4
  <2>2. Whole
    <3>1. ASSUME NEW i \in 1..Len(left), i # 1
          PROVE  \E j \in 1..Len(jobs) : left[i] = jobs[j] /\ (j = Len(jobs) => i = Len(left))
      BY <2>1, <3>1
    <3>2. QED
      BY <1>4, <2>1, <3>1
  <2>3. ASSUME NEW set, head \in set => t \in set, NEW j \in 1..Len(jobs), jobs[j] \in set
        PROVE  \E i \in 1..Len(left) : left[i] \in set
    BY <1>1, <2>1, <2>3
  <2>4. QED
    BY <2>1, <2>2, <2>3
<1>5. Runs(head, rest) /\ left = After(jobs)
  OBVIOUS
<1> HIDE DEF jobs, left, head, rest, Whole, Waits
<1>6. CASE \/ head \in Repairs /\ left = rest
           \/ head = Deletion /\ left = rest
  <2>1. \A u : head \notin ForClient(u) /\ head \notin ForGroup(u)
    BY <1>6, JobsDiffer DEF ForClient, ForGroup
  <2>2. QED
    BY <1>3, <1>6, <2>1
<1>7. ASSUME NEW u \in Clients, head = Moves("addClientRole", "removeClientRole", u),
             left = <<Takes("removeClientRole", u)>> \o rest, AssignClientRole(u, ReadWriteAll)
      PROVE  Goal
  <2>1. Takes("removeClientRole", u) \in Job /\ Takes("removeClientRole", u) \in ForClient(u)
    BY DEF Job, ForClient
  <2>2. ASSUME NEW v, head \in ForClient(v) PROVE v = u
    BY <1>7, <2>2, JobsDiffer DEF ForClient
  <2>3. \A g : head \notin ForGroup(g)
    BY <1>7, JobsDiffer DEF ForGroup
  <2>4. QED
    BY <1>4, <1>7, <2>1, <2>2, <2>3
<1>8. ASSUME NEW u \in Clients, head = Takes("removeClientRole", u), left = rest, RemoveClientRole(u, Legacy)
      PROVE  Goal
  <2>1. ASSUME NEW v, head \in ForClient(v) PROVE v = u
    BY <1>8, <2>1, JobsDiffer DEF ForClient
  <2>2. \A g : head \notin ForGroup(g)
    BY <1>8, JobsDiffer DEF ForGroup
  <2>3. QED
    BY <1>3, <1>8, <2>1, <2>2
<1>9. ASSUME NEW g \in Groups, head = Moves("addGroupRole", "removeGroupRole", g),
             left = <<Takes("removeGroupRole", g)>> \o rest, AddGroupRole(g, ReadWriteAll)
      PROVE  Goal
  <2>1. Takes("removeGroupRole", g) \in Job /\ Takes("removeGroupRole", g) \in ForGroup(g)
    BY DEF Job, ForGroup
  <2>2. ASSUME NEW h, head \in ForGroup(h) PROVE h = g
    BY <1>9, <2>2, JobsDiffer DEF ForGroup
  <2>3. \A u : head \notin ForClient(u)
    BY <1>9, JobsDiffer DEF ForClient
  <2>4. QED
    BY <1>4, <1>9, <2>1, <2>2, <2>3
<1>10. ASSUME NEW g \in Groups, head = Takes("removeGroupRole", g), left = rest, RemoveGroupRole(g, Legacy)
      PROVE  Goal
  <2>1. ASSUME NEW h, head \in ForGroup(h) PROVE h = g
    BY <1>10, <2>1, JobsDiffer DEF ForGroup
  <2>2. \A u : head \notin ForClient(u)
    BY <1>10, JobsDiffer DEF ForClient
  <2>3. QED
    BY <1>3, <1>10, <2>1, <2>2
<1>11. QED
  BY <1>5, <1>6, <1>7, <1>8, <1>9, <1>10 DEF Runs, jobs

LEMMA JobsAreCommands == Job \subseteq Seq(Command) /\ \A jobs \in Seq(Job) : jobs \in Seq(Seq(Command))
<1>1. ASSUME NEW op \in {"createRole", "addRoleACL", "deleteRole", "addClientRole",
                         "removeClientRole", "addGroupRole", "removeGroupRole"},
             NEW name \in Roles \cup Clients \cup Groups, NEW arg \in Roles \cup Acls \cup {None}
      PROVE  Cmd(op, name, arg) \in Command
  BY DEF Cmd, Command
<1>2. \A c \in Command : <<c>> \in Seq(Command) /\ \A d \in Command : <<c, d>> \in Seq(Command)
  OBVIOUS
<1>3. \A job \in Repairs : job \in Seq(Command)
  <2>1. \A r \in BootstrapRoles : r \in Roles
    BY Constants
  <2>2. \A r \in BootstrapRoles : /\ Cmd("createRole", r, None) \in Command
                                  /\ \A a \in Acls : Cmd("addRoleACL", r, a) \in Command
    BY <1>1, <2>1
  <2>3. ASSUME NEW job \in Repairs
        PROVE  \E c \in Command : job = <<c>>
    <3>1. \/ \E r \in BootstrapRoles : job = <<Cmd("createRole", r, None)>>
          \/ \E r \in BootstrapRoles, a \in Acls : job = <<Cmd("addRoleACL", r, a)>>
      BY <2>3 DEF Repairs
    <3>2. QED
      BY <2>2, <3>1
  <2>4. QED
    BY <1>2, <2>3
<1>4. ASSUME NEW u \in Clients, NEW job \in ForClient(u) PROVE job \in Seq(Command)
  <2>1. Cmd("addClientRole", u, ReadWriteAll) \in Command /\ Cmd("removeClientRole", u, Legacy) \in Command
    BY <1>1, Constants
  <2>2. QED
    BY <1>2, <1>4, <2>1 DEF ForClient, Moves, Takes
<1>5. ASSUME NEW g \in Groups, NEW job \in ForGroup(g) PROVE job \in Seq(Command)
  <2>1. Cmd("addGroupRole", g, ReadWriteAll) \in Command /\ Cmd("removeGroupRole", g, Legacy) \in Command
    BY <1>1, Constants
  <2>2. QED
    BY <1>2, <1>5, <2>1 DEF ForGroup, Moves, Takes
<1>6. Deletion \in Seq(Command)
  BY <1>1, <1>2, Constants DEF Deletion
<1>7. Job \subseteq Seq(Command)
  BY <1>3, <1>4, <1>5, <1>6 DEF Job
<1> DEFINE Jobs_ == Job
           Sequences_ == Seq(Command)
<1> HIDE DEF Jobs_, Sequences_
<1>8. Jobs_ \subseteq Sequences_ => \A jobs \in Seq(Jobs_) : jobs \in Seq(Sequences_)
  OBVIOUS
<1>9. QED
  BY <1>7, <1>8 DEF Jobs_, Sequences_

LEMMA BootRunsKeeps == ASSUME IInv, BootRuns PROVE IInv'
<1>1. /\ boot.at = "run" /\ boot.todo # <<>> /\ Executes(NextCommand(boot.todo))
      /\ call' = Followed /\ chosen' = (chosen /\ role'[Legacy] = None)
      /\ UNCHANGED <<file, settings, grace, requests, changes, unsaved, vouched, doubted>>
  BY DEF BootRuns
<1>2. Jobs /\ Runs(Head(boot.todo), Tail(boot.todo)) /\ boot \in Boot
  BY <1>1, Running DEF IInv, TypeOK
<1>3. PICK left : left = After(boot.todo)
  OBVIOUS
<1>4. boot' = [boot EXCEPT !.todo = left]
  BY <1>3 DEF BootRuns
<1>5. /\ boot'.todo = left /\ boot'.at = "run" /\ boot'.role = boot.role
      /\ boot'.setAsDefault = boot.setAsDefault /\ boot'.meddled = boot.meddled
  BY <1>1, <1>2, <1>4 DEF Boot
<1>6. /\ left \in Seq(Job)
      /\ \A i \in 1..Len(left) :
            \/ \E j \in 1..Len(boot.todo) : left[i] = boot.todo[j] /\ (j = Len(boot.todo) => i = Len(left))
            \/ \E u \in Clients : left[i] = Takes("removeClientRole", u) /\ AssignClientRole(u, ReadWriteAll)
            \/ \E g \in Groups : left[i] = Takes("removeGroupRole", g) /\ AddGroupRole(g, ReadWriteAll)
  BY <1>1, <1>2, <1>3, <1>5, WhatIsLeft
<1>7. /\ \A u \in Clients : Pending(ForClient(u)) => Pending(ForClient(u))' \/ RemoveClientRole(u, Legacy)
      /\ \A g \in Groups : Pending(ForGroup(g)) => Pending(ForGroup(g))' \/ RemoveGroupRole(g, Legacy)
  BY <1>1, <1>2, <1>3, <1>5, WhatIsLeft
<1>8. boot' \in Boot
  <2>1. left \in Seq(Seq(Command))
    BY <1>6, JobsAreCommands
  <2>2. QED
    BY <1>2, <1>4, <2>1 DEF Boot
<1>9. TypeOK' /\ Created' /\ Provided' /\ Trusted' /\ Settled' /\ Synced'
  BY <1>1, <1>5, <1>8, BootCommandKeeps
<1>10. Jobs'
  BY <1>5, <1>6 DEF Jobs
<1>11. /\ \A u \in Clients : client'[u] # None => client[u] # None /\ Kept(client[u].roles, client'[u].roles)
       /\ \A g \in Groups : Kept(group[g], group'[g])
  BY <1>1, BootCommand DEF IInv
<1>12. Planned'
  <2> SUFFICES ASSUME ~boot.meddled
               PROVE  Planned'
    BY <1>5 DEF Planned
  <2>1. /\ \A u \in Clients :
              client[u] # None /\ Pending({Takes("removeClientRole", u)}) => Covered(client[u].roles)
        /\ \A g \in Groups : Pending({Takes("removeGroupRole", g)}) => Covered(group[g])
        /\ \A i \in 1..Len(boot.todo) : boot.todo[i] = Deletion =>
              /\ i = Len(boot.todo)
              /\ \A u \in Clients : client[u] # None => Covered(client[u].roles) \/ Pending(ForClient(u))
              /\ \A g \in Groups : Covered(group[g]) \/ Pending(ForGroup(g))
    BY <1>1 DEF IInv, Planned
  <2>2. \A roles, new : Covered(roles) /\ Kept(roles, new) => Covered(new)
    BY DEF Covered, Kept
  <2>3. \A u \in Clients : AssignClientRole(u, ReadWriteAll) \/ RemoveClientRole(u, Legacy) => Covered(client'[u].roles)
    BY Constants DEF IInv, TypeOK, Client, AssignClientRole, RemoveClientRole, Covered
  <2>4. \A g \in Groups : AddGroupRole(g, ReadWriteAll) \/ RemoveGroupRole(g, Legacy) => Covered(group'[g])
    BY Constants DEF IInv, TypeOK, AddGroupRole, RemoveGroupRole, Covered
  <2>5. ASSUME NEW u \in Clients, client'[u] # None, NEW i \in 1..Len(left), left[i] = Takes("removeClientRole", u)
        PROVE  Covered(client'[u].roles)
    <3>1. CASE \E j \in 1..Len(boot.todo) : left[i] = boot.todo[j]
      <4>1. Pending({Takes("removeClientRole", u)})
        BY <2>5, <3>1 DEF Pending
      <4>2. QED
        BY <1>11, <2>1, <2>2, <2>5, <4>1
    <3>2. CASE \E v \in Clients : left[i] = Takes("removeClientRole", v) /\ AssignClientRole(v, ReadWriteAll)
      BY <2>3, <2>5, <3>2, JobsDiffer
    <3>3. CASE \E g \in Groups : left[i] = Takes("removeGroupRole", g)
      BY <2>5, <3>3, JobsDiffer
    <3>4. QED
      BY <1>6, <3>1, <3>2, <3>3
  <2>6. ASSUME NEW g \in Groups, NEW i \in 1..Len(left), left[i] = Takes("removeGroupRole", g)
        PROVE  Covered(group'[g])
    <3>1. CASE \E j \in 1..Len(boot.todo) : left[i] = boot.todo[j]
      <4>1. Pending({Takes("removeGroupRole", g)})
        BY <2>6, <3>1 DEF Pending
      <4>2. QED
        BY <1>11, <2>1, <2>2, <2>6, <4>1
    <3>2. CASE \E h \in Groups : left[i] = Takes("removeGroupRole", h) /\ AddGroupRole(h, ReadWriteAll)
      BY <2>4, <2>6, <3>2, JobsDiffer
    <3>3. CASE \E u \in Clients : left[i] = Takes("removeClientRole", u)
      BY <2>6, <3>3, JobsDiffer
    <3>4. QED
      BY <1>6, <3>1, <3>2, <3>3
  <2>7. ASSUME NEW i \in 1..Len(left), left[i] = Deletion
        PROVE  /\ i = Len(left)
               /\ \A u \in Clients : client'[u] # None => Covered(client'[u].roles) \/ Pending(ForClient(u))'
               /\ \A g \in Groups : Covered(group'[g]) \/ Pending(ForGroup(g))'
    <3>1. PICK j \in 1..Len(boot.todo) : left[i] = boot.todo[j] /\ (j = Len(boot.todo) => i = Len(left))
      BY <1>6, <2>7, JobsDiffer
    <3>2. i = Len(left)
      BY <2>1, <2>7, <3>1
    <3>3. ASSUME NEW u \in Clients, client'[u] # None
          PROVE  Covered(client'[u].roles) \/ Pending(ForClient(u))'
      <4>1. client[u] # None /\ Kept(client[u].roles, client'[u].roles)
        BY <1>11, <3>3
      <4>2. Covered(client[u].roles) \/ Pending(ForClient(u))
        BY <2>1, <2>7, <3>1, <4>1
      <4>3. QED
        BY <1>7, <2>2, <2>3, <4>1, <4>2
    <3>4. ASSUME NEW g \in Groups
          PROVE  Covered(group'[g]) \/ Pending(ForGroup(g))'
      <4>1. Covered(group[g]) \/ Pending(ForGroup(g))
        BY <2>1, <2>7, <3>1
      <4>2. QED
        BY <1>7, <1>11, <2>2, <2>4, <4>1
    <3>5. QED
      BY <3>2, <3>3, <3>4
  <2> HIDE DEF Covered
  <2>8. QED
    BY <1>5, <2>5, <2>6, <2>7 DEF Planned, Pending
<1>13. QED
  BY <1>9, <1>10, <1>12 DEF IInv

-----------------------------------------------------------------------------
(* What the bootstrap sets out to do *)

LEMMA SequenceOfMore ==
  ASSUME NEW S, NEW T, \A x \in S : x \in T, NEW s \in Seq(S)
  PROVE  s \in Seq(T) /\ \A i \in 1..Len(s) : s[i] \in S
<1>1. Len(s) \in Nat /\ s \in [1..Len(s) -> S]
  OBVIOUS
<1>2. s \in [1..Len(s) -> T]
  BY <1>1
<1>3. QED
  BY <1>1, <1>2

LEMMA RepairsOfRole ==
  ASSUME NEW r \in BootstrapRoles
  PROVE  EnsureBootstrapRole(r) \in Seq(Repairs)
<1>1. ASSUME NEW lacking \in SUBSET Acls
      PROVE  SetToSeq({<<Cmd("addRoleACL", r, a)>> : a \in lacking}) \in Seq(Repairs)
  <2> DEFINE f == [a \in lacking |-> <<Cmd("addRoleACL", r, a)>>]
  <2>1. IsFiniteSet(lacking)
    BY DynsecAssumption, FS_Subset
  <2>2. \A a \in lacking : f[a] \in Repairs
    BY DEF Repairs
  <2>3. f = [a \in lacking |-> f[a]]
    OBVIOUS
  <2>4. {<<Cmd("addRoleACL", r, a)>> : a \in lacking} = {f[a] : a \in lacking}
    OBVIOUS
  <2> HIDE DEF f
  <2>5. PICK image : image = {f[a] : a \in lacking}
    OBVIOUS
  <2>6. IsFiniteSet(image)
    BY <2>1, <2>3, <2>5, FiniteImage
  <2>7. \A job \in image : job \in Repairs
    BY <2>2, <2>5
  <2>8. SetToSeq(image) \in Seq(Repairs)
    BY <2>6, <2>7, SequenceOfSet, SequenceOfMore
  <2>9. QED
    BY <2>4, <2>5, <2>8
<1>2. SetToSeq({<<Cmd("addRoleACL", r, a)>> : a \in Acls \ file.role[r]}) \in Seq(Repairs)
  BY <1>1
<1>3. <<<<Cmd("createRole", r, None)>>>> \o SetToSeq({<<Cmd("addRoleACL", r, a)>> : a \in Acls}) \in Seq(Repairs)
  <2>1. <<Cmd("createRole", r, None)>> \in Repairs
    BY DEF Repairs
  <2>2. SetToSeq({<<Cmd("addRoleACL", r, a)>> : a \in Acls}) \in Seq(Repairs)
    BY <1>1
  <2>3. ASSUME NEW job \in Repairs, NEW s \in Seq(Repairs) PROVE <<job>> \o s \in Seq(Repairs)
    OBVIOUS
  <2>4. QED
    BY <2>1, <2>2, <2>3
<1>4. QED
  BY <1>2, <1>3 DEF EnsureBootstrapRole

LEMMA HolderMoves ==
  ASSUME NEW name, NEW roles, NEW add, NEW remove
  PROVE  MigrateHolder(name, roles, add, remove) =
            IF ReadWriteAll \in roles THEN Takes(remove, name) ELSE Moves(add, remove, name)
<1>1. ASSUME NEW y PROVE <<>> \o <<y>> = <<y>>
  <2>1. <<y>> \in Seq({y})
    OBVIOUS
  <2>2. QED
    BY <2>1, ConcatEmptySeq
<1>2. ASSUME NEW x, NEW y PROVE <<x>> \o <<y>> = <<x, y>>
  <2> DEFINE S == {x, y}
  <2>1. <<x>> \in Seq(S) /\ <<y>> \in Seq(S) /\ <<x, y>> \in Seq(S)
    OBVIOUS
  <2>2. Len(<<x>> \o <<y>>) = 2 /\ (<<x>> \o <<y>>)[1] = x /\ (<<x>> \o <<y>>)[2] = y
    OBVIOUS
  <2>3. Len(<<x, y>>) = 2 /\ <<x, y>>[1] = x /\ <<x, y>>[2] = y
    OBVIOUS
  <2>4. <<x>> \o <<y>> \in Seq(S)
    BY <2>1
  <2> HIDE DEF S
  <2>5. \A i \in 1..2 : i = 1 \/ i = 2
    OBVIOUS
  <2>6. QED
    BY <2>1, <2>2, <2>3, <2>4, <2>5, SeqEqual
<1>3. QED
  BY <1>1, <1>2 DEF MigrateHolder, Takes, Moves

\* The holders of the legacy role in the file, and the jobs for them.
ClientHolders == {u \in Clients : file.client[u] # None /\ Legacy \in file.client[u]}
GroupHolders == {g \in Groups : Legacy \in file.group[g]}

LEMMA ClientsMove ==
  LET jobs == MigrateClients
  IN  /\ jobs \in Seq(UNION {ForClient(u) : u \in Clients})
      /\ \A i \in 1..Len(jobs) : \E u \in ClientHolders :
            jobs[i] = IF ReadWriteAll \in file.client[u] THEN Takes("removeClientRole", u)
                      ELSE Moves("addClientRole", "removeClientRole", u)
      /\ \A u \in ClientHolders : \E i \in 1..Len(jobs) : jobs[i] \in ForClient(u)
<1> DEFINE f == [u \in ClientHolders |->
                    MigrateHolder(u, file.client[u], "addClientRole", "removeClientRole")]
           T == UNION {ForClient(u) : u \in Clients}
<1>1. IsFiniteSet(ClientHolders) /\ ClientHolders \subseteq Clients
  BY DynsecAssumption, FS_Subset DEF ClientHolders
<1>3. MigrateClients = SetToSeq({f[u] : u \in ClientHolders})
  BY DEF MigrateClients, ClientHolders
<1>4. \A u \in ClientHolders : f[u] = IF ReadWriteAll \in file.client[u] THEN Takes("removeClientRole", u)
                                      ELSE Moves("addClientRole", "removeClientRole", u)
  BY HolderMoves
<1>5. \A u \in ClientHolders : f[u] \in ForClient(u)
  BY <1>4 DEF ForClient
<1>6. f \in [ClientHolders -> T]
  BY <1>1, <1>5
<1> HIDE DEF f, T
<1>0. PICK image, jobs : image = {f[u] : u \in ClientHolders} /\ jobs = SetToSeq(image)
  OBVIOUS
<1>2. jobs = MigrateClients
  BY <1>0, <1>3
<1>7. IsFiniteSet(image) /\ (\A job \in image : job \in T) /\ \A u \in ClientHolders : f[u] \in image
  <2>1. f = [u \in ClientHolders |-> f[u]]
    BY <1>6
  <2>2. IsFiniteSet(image)
    BY <1>0, <1>1, <2>1, FiniteImage
  <2>3. QED
    BY <1>0, <1>6, <2>2
<1>8. /\ jobs \in Seq(T)
      /\ \A i \in 1..Len(jobs) : \E u \in ClientHolders : jobs[i] = f[u]
      /\ \A u \in ClientHolders : \E i \in 1..Len(jobs) : jobs[i] = f[u]
  <2>1. jobs \in Seq(image) /\ \A job \in image : \E i \in 1..Len(jobs) : jobs[i] = job
    BY <1>0, <1>7, SequenceOfSet
  <2>2. jobs \in Seq(T) /\ \A i \in 1..Len(jobs) : jobs[i] \in image
    BY <1>7, <2>1, SequenceOfMore
  <2>3. \A job \in image : \E u \in ClientHolders : job = f[u]
    BY <1>0
  <2>4. ASSUME NEW u \in ClientHolders PROVE \E i \in 1..Len(jobs) : jobs[i] = f[u]
    BY <1>7, <2>1, <2>4
  <2>5. ASSUME NEW i \in 1..Len(jobs) PROVE \E u \in ClientHolders : jobs[i] = f[u]
    BY <2>2, <2>3, <2>5
  <2>6. QED
    BY <2>2, <2>4, <2>5
<1>9. /\ \A i \in 1..Len(jobs) : \E u \in ClientHolders :
            jobs[i] = IF ReadWriteAll \in file.client[u] THEN Takes("removeClientRole", u)
                      ELSE Moves("addClientRole", "removeClientRole", u)
      /\ \A u \in ClientHolders : \E i \in 1..Len(jobs) : jobs[i] \in ForClient(u)
  BY <1>4, <1>5, <1>8
<1>10. QED
  BY <1>2, <1>8, <1>9 DEF T

LEMMA GroupsMove ==
  LET jobs == MigrateGroups
  IN  /\ jobs \in Seq(UNION {ForGroup(g) : g \in Groups})
      /\ \A i \in 1..Len(jobs) : \E g \in GroupHolders :
            jobs[i] = IF ReadWriteAll \in file.group[g] THEN Takes("removeGroupRole", g)
                      ELSE Moves("addGroupRole", "removeGroupRole", g)
      /\ \A g \in GroupHolders : \E i \in 1..Len(jobs) : jobs[i] \in ForGroup(g)
<1> DEFINE f == [g \in GroupHolders |->
                    MigrateHolder(g, file.group[g], "addGroupRole", "removeGroupRole")]
           T == UNION {ForGroup(g) : g \in Groups}
<1>1. IsFiniteSet(GroupHolders) /\ GroupHolders \subseteq Groups
  BY DynsecAssumption, FS_Subset DEF GroupHolders
<1>3. MigrateGroups = SetToSeq({f[g] : g \in GroupHolders})
  BY DEF MigrateGroups, GroupHolders
<1>4. \A g \in GroupHolders : f[g] = IF ReadWriteAll \in file.group[g] THEN Takes("removeGroupRole", g)
                                     ELSE Moves("addGroupRole", "removeGroupRole", g)
  BY HolderMoves
<1>5. \A g \in GroupHolders : f[g] \in ForGroup(g)
  BY <1>4 DEF ForGroup
<1>6. f \in [GroupHolders -> T]
  BY <1>1, <1>5
<1> HIDE DEF f, T
<1>0. PICK image, jobs : image = {f[g] : g \in GroupHolders} /\ jobs = SetToSeq(image)
  OBVIOUS
<1>2. jobs = MigrateGroups
  BY <1>0, <1>3
<1>7. IsFiniteSet(image) /\ (\A job \in image : job \in T) /\ \A g \in GroupHolders : f[g] \in image
  <2>1. f = [g \in GroupHolders |-> f[g]]
    BY <1>6
  <2>2. IsFiniteSet(image)
    BY <1>0, <1>1, <2>1, FiniteImage
  <2>3. QED
    BY <1>0, <1>6, <2>2
<1>8. /\ jobs \in Seq(T)
      /\ \A i \in 1..Len(jobs) : \E g \in GroupHolders : jobs[i] = f[g]
      /\ \A g \in GroupHolders : \E i \in 1..Len(jobs) : jobs[i] = f[g]
  <2>1. jobs \in Seq(image) /\ \A job \in image : \E i \in 1..Len(jobs) : jobs[i] = job
    BY <1>0, <1>7, SequenceOfSet
  <2>2. jobs \in Seq(T) /\ \A i \in 1..Len(jobs) : jobs[i] \in image
    BY <1>7, <2>1, SequenceOfMore
  <2>3. \A job \in image : \E g \in GroupHolders : job = f[g]
    BY <1>0
  <2>4. ASSUME NEW g \in GroupHolders PROVE \E i \in 1..Len(jobs) : jobs[i] = f[g]
    BY <1>7, <2>1, <2>4
  <2>5. ASSUME NEW i \in 1..Len(jobs) PROVE \E g \in GroupHolders : jobs[i] = f[g]
    BY <2>2, <2>3, <2>5
  <2>6. QED
    BY <2>2, <2>4, <2>5
<1>9. /\ \A i \in 1..Len(jobs) : \E g \in GroupHolders :
            jobs[i] = IF ReadWriteAll \in file.group[g] THEN Takes("removeGroupRole", g)
                      ELSE Moves("addGroupRole", "removeGroupRole", g)
      /\ \A g \in GroupHolders : \E i \in 1..Len(jobs) : jobs[i] \in ForGroup(g)
  BY <1>4, <1>5, <1>8
<1>10. QED
  BY <1>2, <1>8, <1>9 DEF T

\* What the bootstrap has to run: to take the legacy role only from holders that have the
\* other one in the file, and to delete it after all holders are moved.
LEMMA Ensured ==
  /\ EnsureManagedBootstrapRoles \in Seq(Job)
  /\ \A i \in 1..Len(EnsureManagedBootstrapRoles) :
        /\ \A u \in Clients : EnsureManagedBootstrapRoles[i] = Takes("removeClientRole", u) =>
              ReadWriteAll \in file.client[u]
        /\ \A g \in Groups : EnsureManagedBootstrapRoles[i] = Takes("removeGroupRole", g) =>
              ReadWriteAll \in file.group[g]
        /\ EnsureManagedBootstrapRoles[i] = Deletion =>
              /\ i = Len(EnsureManagedBootstrapRoles)
              /\ \A u \in ClientHolders : \E j \in 1..Len(EnsureManagedBootstrapRoles) :
                    EnsureManagedBootstrapRoles[j] \in ForClient(u)
              /\ \A g \in GroupHolders : \E j \in 1..Len(EnsureManagedBootstrapRoles) :
                    EnsureManagedBootstrapRoles[j] \in ForGroup(g)
<1>1. PICK repairs, clients, groups, all :
        /\ repairs = EnsureBootstrapRole(ReadAll) \o EnsureBootstrapRole(ReadWriteAll)
        /\ clients = MigrateClients /\ groups = MigrateGroups
        /\ all = EnsureManagedBootstrapRoles
  OBVIOUS
<1>2. repairs \in Seq(Repairs)
  <2>1. ReadAll \in BootstrapRoles /\ ReadWriteAll \in BootstrapRoles
    BY Constants
  <2>2. EnsureBootstrapRole(ReadAll) \in Seq(Repairs) /\ EnsureBootstrapRole(ReadWriteAll) \in Seq(Repairs)
    BY <2>1, RepairsOfRole
  <2>3. QED
    BY <1>1, <2>2, Joined
<1>3. /\ clients \in Seq(UNION {ForClient(u) : u \in Clients})
      /\ \A i \in 1..Len(clients) : \E u \in ClientHolders :
            clients[i] = IF ReadWriteAll \in file.client[u] THEN Takes("removeClientRole", u)
                         ELSE Moves("addClientRole", "removeClientRole", u)
      /\ \A u \in ClientHolders : \E i \in 1..Len(clients) : clients[i] \in ForClient(u)
  BY <1>1, ClientsMove
<1>4. /\ groups \in Seq(UNION {ForGroup(g) : g \in Groups})
      /\ \A i \in 1..Len(groups) : \E g \in GroupHolders :
            groups[i] = IF ReadWriteAll \in file.group[g] THEN Takes("removeGroupRole", g)
                        ELSE Moves("addGroupRole", "removeGroupRole", g)
      /\ \A g \in GroupHolders : \E i \in 1..Len(groups) : groups[i] \in ForGroup(g)
  BY <1>1, GroupsMove
<1>5. repairs \in Seq(Job) /\ clients \in Seq(Job) /\ groups \in Seq(Job) /\ <<Deletion>> \in Seq(Job)
  <2>1. /\ \A job \in Repairs : job \in Job
        /\ \A job \in UNION {ForClient(u) : u \in Clients} : job \in Job
        /\ \A job \in UNION {ForGroup(g) : g \in Groups} : job \in Job
        /\ Deletion \in Job
    BY DEF Job
  <2>2. \A job \in Job : <<job>> \in Seq(Job)
    OBVIOUS
  <2>3. QED
    BY <1>2, <1>3, <1>4, <2>1, <2>2, SequenceOfMore
\* The jobs that are no deletion, by what they say of the file.
<1> DEFINE Fine(job) ==
             /\ job # Deletion
             /\ \A u \in Clients : job = Takes("removeClientRole", u) => ReadWriteAll \in file.client[u]
             /\ \A g \in Groups : job = Takes("removeGroupRole", g) => ReadWriteAll \in file.group[g]
<1>6. \A i \in 1..Len(repairs) : Fine(repairs[i])
  <2>1. \A i \in 1..Len(repairs) : repairs[i] \in Repairs
    BY <1>2
  <2>2. QED
    BY <2>1, JobsDiffer
<1>7. \A i \in 1..Len(clients) : Fine(clients[i])
  <2>1. ASSUME NEW u \in ClientHolders, NEW job,
               job = IF ReadWriteAll \in file.client[u] THEN Takes("removeClientRole", u)
                     ELSE Moves("addClientRole", "removeClientRole", u)
        PROVE  Fine(job)
    <3>1. Head(job).op \in {"addClientRole", "removeClientRole"} /\ Head(job).name = u
      BY <2>1, JobsDiffer
    <3>2. Head(job).op = "removeClientRole" => ReadWriteAll \in file.client[u]
      BY <2>1, JobsDiffer
    <3>3. QED
      BY <3>1, <3>2, JobsDiffer
  <2>2. QED
    BY <1>3, <2>1
<1>8. \A i \in 1..Len(groups) : Fine(groups[i])
  <2>1. ASSUME NEW g \in GroupHolders, NEW job,
               job = IF ReadWriteAll \in file.group[g] THEN Takes("removeGroupRole", g)
                     ELSE Moves("addGroupRole", "removeGroupRole", g)
        PROVE  Fine(job)
    <3>1. Head(job).op \in {"addGroupRole", "removeGroupRole"} /\ Head(job).name = g
      BY <2>1, JobsDiffer
    <3>2. Head(job).op = "removeGroupRole" => ReadWriteAll \in file.group[g]
      BY <2>1, JobsDiffer
    <3>3. QED
      BY <3>1, <3>2, JobsDiffer
  <2>2. QED
    BY <1>4, <2>1
<1>9. /\ \A u \in Clients : Deletion # Takes("removeClientRole", u)
      /\ \A g \in Groups : Deletion # Takes("removeGroupRole", g)
  BY JobsDiffer
<1> HIDE DEF Fine
<1>10. /\ all \in Seq(Job)
       /\ \A i \in 1..Len(all) : \/ Fine(all[i])
                                 \/ /\ all[i] = Deletion /\ i = Len(all)
                                    /\ \A j \in 1..Len(clients) : \E k \in 1..Len(all) : all[k] = clients[j]
                                    /\ \A j \in 1..Len(groups) : \E k \in 1..Len(all) : all[k] = groups[j]
  <2>1. CASE ~InFile(Legacy)
    <3>1. all = repairs \o <<>>
      BY <1>1, <2>1 DEF EnsureManagedBootstrapRoles, MigrateLegacyBootstrapRole
    <3>2. all = repairs
      BY <1>5, <3>1, ConcatEmptySeq
    <3>3. QED
      BY <1>5, <1>6, <3>2
  <2>2. CASE InFile(Legacy)
    <3>1. PICK moved, rest : moved = clients \o groups /\ rest = moved \o <<Deletion>>
      OBVIOUS
    <3>2. all = repairs \o rest
      BY <1>1, <2>2, <3>1 DEF EnsureManagedBootstrapRoles, MigrateLegacyBootstrapRole, Deletion
    <3>3. /\ moved \in Seq(Job)
          /\ \A i \in 1..Len(clients) : i \in 1..Len(moved) /\ moved[i] = clients[i]
          /\ \A i \in 1..Len(groups) : Len(clients) + i \in 1..Len(moved) /\ moved[Len(clients) + i] = groups[i]
          /\ \A i \in 1..Len(moved) : \/ i \in 1..Len(clients) /\ moved[i] = clients[i]
                                      \/ \E j \in 1..Len(groups) : moved[i] = groups[j]
      <4>1. Joins(Job, clients, groups, moved)
        BY <1>5, <3>1 DEF Joins
      <4>2. QED
        BY <4>1, JoinedAs
    <3>4. \A i \in 1..Len(moved) : Fine(moved[i])
      BY <1>7, <1>8, <3>3
    <3>5. Len(<<Deletion>>) = 1 /\ <<Deletion>>[1] = Deletion
      OBVIOUS
    <3>6. /\ rest \in Seq(Job) /\ Len(rest) = Len(moved) + 1
          /\ \A i \in 1..Len(moved) : i \in 1..Len(rest) /\ rest[i] = moved[i]
          /\ \A i \in 1..Len(rest) : \/ i \in 1..Len(moved) /\ rest[i] = moved[i]
                                     \/ i = Len(rest) /\ rest[i] = Deletion
      <4>1. /\ rest \in Seq(Job) /\ Len(rest) = Len(moved) + Len(<<Deletion>>)
            /\ \A i \in 1..Len(moved) : i \in 1..Len(rest) /\ rest[i] = moved[i]
            /\ \A i \in 1..Len(rest) :
                  \/ i \in 1..Len(moved) /\ rest[i] = moved[i]
                  \/ \E j \in 1..Len(<<Deletion>>) : i = Len(moved) + j /\ rest[i] = <<Deletion>>[j]
        <5>1. PICK last : last = <<Deletion>>
          OBVIOUS
        <5>2. moved \in Seq(Job) /\ last \in Seq(Job) /\ rest = moved \o last
          BY <1>5, <3>1, <3>3, <5>1
        <5>3. /\ rest \in Seq(Job) /\ Len(rest) = Len(moved) + Len(last)
              /\ \A i \in 1..Len(moved) : i \in 1..Len(rest) /\ rest[i] = moved[i]
              /\ \A i \in 1..Len(rest) :
                    \/ i \in 1..Len(moved) /\ rest[i] = moved[i]
                    \/ \E j \in 1..Len(last) : i = Len(moved) + j /\ rest[i] = last[j]
          <6>1. Joins(Job, moved, last, rest)
            BY <5>2 DEF Joins
          <6>2. QED
            BY <6>1, JoinedAs
        <5>4. QED
          BY <5>1, <5>3
      <4>2. \A j \in 1..Len(<<Deletion>>) : j = 1
        BY <3>5
      <4>3. QED
        BY <3>5, <4>1, <4>2
    <3>7. /\ all \in Seq(Job) /\ Len(all) = Len(repairs) + Len(rest)
          /\ \A i \in 1..Len(rest) : Len(repairs) + i \in 1..Len(all) /\ all[Len(repairs) + i] = rest[i]
          /\ \A i \in 1..Len(all) :
                \/ i \in 1..Len(repairs) /\ all[i] = repairs[i]
                \/ \E j \in 1..Len(rest) : i = Len(repairs) + j /\ all[i] = rest[j]
      <4>1. Joins(Job, repairs, rest, all)
        BY <1>5, <3>2, <3>6 DEF Joins
      <4>2. QED
        BY <4>1, JoinedAs
    <3>8. /\ \A j \in 1..Len(clients) : \E k \in 1..Len(all) : all[k] = clients[j]
          /\ \A j \in 1..Len(groups) : \E k \in 1..Len(all) : all[k] = groups[j]
      <4>1. \A i \in 1..Len(moved) : \E k \in 1..Len(all) : all[k] = moved[i]
        BY <3>6, <3>7
      <4>2. QED
        BY <3>3, <4>1
    <3>9. ASSUME NEW i \in 1..Len(all)
          PROVE  Fine(all[i]) \/ (all[i] = Deletion /\ i = Len(all))
      <4>1. CASE i \in 1..Len(repairs) /\ all[i] = repairs[i]
        BY <1>6, <4>1
      <4>2. ASSUME NEW j \in 1..Len(rest), i = Len(repairs) + j, all[i] = rest[j]
            PROVE  Fine(all[i]) \/ (all[i] = Deletion /\ i = Len(all))
        <5>1. CASE j \in 1..Len(moved) /\ rest[j] = moved[j]
          BY <3>4, <4>2, <5>1
        <5>2. CASE j = Len(rest) /\ rest[j] = Deletion
          BY <3>7, <4>2, <5>2
        <5>3. QED
          BY <3>6, <5>1, <5>2
      <4>3. QED
        BY <3>7, <4>1, <4>2
    <3>10. QED
      BY <3>7, <3>8, <3>9
  <2>3. QED
    BY <2>1, <2>2
<1>11. ASSUME NEW i \in 1..Len(all)
       PROVE  /\ \A u \in Clients : all[i] = Takes("removeClientRole", u) => ReadWriteAll \in file.client[u]
              /\ \A g \in Groups : all[i] = Takes("removeGroupRole", g) => ReadWriteAll \in file.group[g]
              /\ all[i] = Deletion =>
                    /\ i = Len(all)
                    /\ \A u \in ClientHolders : \E j \in 1..Len(all) : all[j] \in ForClient(u)
                    /\ \A g \in GroupHolders : \E j \in 1..Len(all) : all[j] \in ForGroup(g)
  <2>1. CASE Fine(all[i])
    BY <2>1 DEF Fine
  <2>2. CASE /\ all[i] = Deletion /\ i = Len(all)
             /\ \A j \in 1..Len(clients) : \E k \in 1..Len(all) : all[k] = clients[j]
             /\ \A j \in 1..Len(groups) : \E k \in 1..Len(all) : all[k] = groups[j]
    BY <1>3, <1>4, <1>9, <2>2
  <2>3. QED
    BY <1>10, <2>1, <2>2
<1>12. QED
  BY <1>1, <1>10, <1>11

LEMMA BootManagesKeeps == ASSUME IInv, BootManages PROVE IInv'
<1>1. PICK todo : todo = EnsureManagedBootstrapRoles
  OBVIOUS
<1>2. PICK sets : sets = IF Migrates THEN boot.role = Legacy \/ (boot.role = None /\ ~HasCustomRoles) ELSE TRUE
  OBVIOUS
<1>3. /\ boot.at = "read"
      /\ Migrates \/ boot.role = ReadAll \/ (~initialized /\ boot.role = None /\ ~HasCustomRoles)
      /\ boot' = [boot EXCEPT !.at = "run", !.todo = todo, !.setAsDefault = sets, !.meddled = unsaved]
      /\ UNCHANGED <<role, client, group, file, default, initialized, grace, call, requests, changes,
                     unsaved, vouched, doubted, chosen>>
  BY <1>1, <1>2 DEF BootManages, broker, settings, history
<1>4. todo \in Seq(Job) /\ todo \in Seq(Seq(Command))
  BY <1>1, Ensured, JobsAreCommands
<1>5. sets \in BOOLEAN /\ unsaved \in BOOLEAN /\ boot \in Boot
  BY <1>2 DEF IInv, TypeOK, Migrates
<1>6. /\ boot' \in Boot /\ boot'.at = "run" /\ boot'.todo = todo /\ boot'.role = boot.role
      /\ boot'.setAsDefault = sets /\ boot'.meddled = unsaved
  BY <1>3, <1>4, <1>5 DEF Boot
<1>7. TypeOK'
  BY <1>3, <1>6 DEF IInv, TypeOK
<1>8. Jobs'
  BY <1>4, <1>6 DEF Jobs
<1>9. Created' /\ Provided' /\ Trusted' /\ Synced'
  BY <1>3 DEF IInv, Created, Provided, Trusted, Judged, Synced, InFile
<1>10. Settled'
  <2>1. chosen => boot.role = default /\ default # Legacy /\ ~InFile(Legacy) /\ initialized
    BY <1>3 DEF IInv, Settled
  <2>2. chosen => default = ReadAll
    BY <1>3, <2>1 DEF Migrates
  <2>3. QED
    BY <1>3, <1>6, <2>1, <2>2 DEF IInv, Settled, InFile
<1>11. Planned'
  <2> SUFFICES ASSUME ~unsaved
               PROVE  Planned'
    BY <1>6 DEF Planned
  <2>1. /\ \A u \in Clients : client[u] # None /\ Legacy \in client[u].roles =>
              file.client[u] # None /\ Knows(file.client[u], client[u].roles)
        /\ \A g \in Groups : Knows(file.group[g], group[g])
    BY DEF IInv, Synced
  <2>2. /\ \A i \in 1..Len(todo) :
              /\ \A u \in Clients : todo[i] = Takes("removeClientRole", u) => ReadWriteAll \in file.client[u]
              /\ \A g \in Groups : todo[i] = Takes("removeGroupRole", g) => ReadWriteAll \in file.group[g]
              /\ todo[i] = Deletion =>
                    /\ i = Len(todo)
                    /\ \A u \in ClientHolders : \E j \in 1..Len(todo) : todo[j] \in ForClient(u)
                    /\ \A g \in GroupHolders : \E j \in 1..Len(todo) : todo[j] \in ForGroup(g)
    BY <1>1, Ensured
  <2>3. ASSUME NEW u \in Clients, client[u] # None, NEW i \in 1..Len(todo), todo[i] = Takes("removeClientRole", u)
        PROVE  Covered(client[u].roles)
    BY <2>1, <2>2, <2>3 DEF Knows, Covered
  <2>4. ASSUME NEW g \in Groups, NEW i \in 1..Len(todo), todo[i] = Takes("removeGroupRole", g)
        PROVE  Covered(group[g])
    BY <2>1, <2>2, <2>4 DEF Knows, Covered
  <2>5. ASSUME NEW i \in 1..Len(todo), todo[i] = Deletion
        PROVE  /\ i = Len(todo)
               /\ \A u \in Clients : client[u] # None =>
                     Covered(client[u].roles) \/ \E j \in 1..Len(todo) : todo[j] \in ForClient(u)
               /\ \A g \in Groups : Covered(group[g]) \/ \E j \in 1..Len(todo) : todo[j] \in ForGroup(g)
    <3>1. \A u \in Clients : client[u] # None /\ Legacy \in client[u].roles => u \in ClientHolders
      BY <2>1 DEF Knows, ClientHolders
    <3>2. \A g \in Groups : Legacy \in group[g] => g \in GroupHolders
      BY <2>1 DEF Knows, GroupHolders
    <3>3. QED
      BY <2>2, <2>5, <3>1, <3>2 DEF Covered
  <2> HIDE DEF Covered
  <2>6. QED
    BY <1>3, <1>6, <2>3, <2>4, <2>5 DEF Planned, Pending
<1>12. QED
  BY <1>7, <1>8, <1>9, <1>10, <1>11 DEF IInv

-----------------------------------------------------------------------------
(* The invariant *)

LEMMA InitInv == Init => IInv
<1> SUFFICES ASSUME Init PROVE IInv
  OBVIOUS
<1>1. PICK present \in SUBSET (CustomRoles \cup {Legacy}), held \in SUBSET {Legacy} :
        /\ held \subseteq present
        /\ role = [r \in Roles |-> IF r \in present THEN {} ELSE None]
        /\ client \in [Clients -> {None, [password |-> TRUE, enabled |-> TRUE, roles |-> held]}]
        /\ group = [g \in Groups |-> held]
        /\ default \in present \cup {None}
  BY DEF Init
<1>2. /\ file = Current /\ initialized \in {FALSE, default # None} /\ grace = "none"
      /\ boot = Waiting /\ call = [c \in Calls |-> IdleCall] /\ requests = 0 /\ changes = 0
      /\ unsaved = FALSE /\ vouched = FALSE /\ doubted = FALSE /\ chosen = FALSE
  BY DEF Init
<1>3. BrokerTyped
  <2>1. held \in SUBSET Roles /\ present \subseteq Roles
    BY <1>1, Constants DEF Roles
  <2>2. role \in [Roles -> (SUBSET Acls) \cup {None}]
    BY <1>1
  <2>3. \A r \in Roles : role[r] = None => r \notin held
    <3>1. {} # None
      BY Constants
    <3>2. QED
      BY <1>1, <3>1
  <2>4. \A u \in Clients : client[u] \in Client \cup {None} /\ (client[u] # None => client[u].roles = held)
    <3> DEFINE k == [password |-> TRUE, enabled |-> TRUE, roles |-> held]
    <3>1. k \in Client /\ k.roles = held
      BY <2>1 DEF Client
    <3> HIDE DEF k
    <3>2. \A u \in Clients : client[u] \in {None, k}
      BY <1>1 DEF k
    <3>3. QED
      BY <3>1, <3>2
  <2>5. client \in [Clients -> Client \cup {None}]
    BY <1>1, <2>4
  <2>6. group \in [Groups -> SUBSET Roles] /\ \A g \in Groups : group[g] = held
    BY <1>1, <2>1
  <2>7. QED
    BY <2>2, <2>3, <2>4, <2>5, <2>6 DEF BrokerTyped
<1>4. file \in File
  <2> DEFINE kept(u) == IF client[u] = None THEN None ELSE Migrated(client[u].roles)
  <2>1. \A u \in Clients : kept(u) \in (SUBSET Roles) \cup {None}
    BY <1>3 DEF BrokerTyped, Client, Migrated
  <2>2. \A g \in Groups : Migrated(group[g]) \in SUBSET Roles
    BY <1>3 DEF BrokerTyped, Migrated
  <2>3. Current = [role |-> role, client |-> [u \in Clients |-> kept(u)],
                   group |-> [g \in Groups |-> Migrated(group[g])]]
    BY DEF Current
  <2> HIDE DEF kept
  <2>4. role \in [Roles -> (SUBSET Acls) \cup {None}]
    BY <1>3 DEF BrokerTyped
  <2>5. QED
    BY <1>2, <2>1, <2>2, <2>3, <2>4 DEF File
<1>5. default \in Default
  BY <1>1, Constants DEF Default, Roles
<1>6. call \in [Calls -> CallRecord] /\ Created
  BY <1>2, IdleIsTyped DEF Created
<1>7. boot \in Boot /\ boot.at = "wait" /\ boot.todo = <<>>
  BY <1>2, WaitingIsTyped
<1>8. TypeOK
  <2>1. requests \in 0..MaxRequests /\ changes \in 0..MaxChanges
    BY <1>2, DynsecAssumption
  <2>2. QED
    BY <1>2, <1>3, <1>4, <1>5, <1>6, <1>7, <2>1 DEF TypeOK, BrokerTyped
<1>9. Jobs /\ Provided /\ Trusted /\ Settled /\ Planned
  BY <1>2, <1>7 DEF Jobs, Provided, Trusted, Settled, Planned
<1>10. Synced
  <2>1. /\ \A u \in Clients : client[u] # None => file.client[u] = client[u].roles \cap {Legacy, ReadWriteAll}
        /\ \A g \in Groups : file.group[g] = group[g] \cap {Legacy, ReadWriteAll}
    BY <1>2 DEF Current, Migrated
  <2>2. ASSUME NEW u \in Clients, client[u] # None, Legacy \in client[u].roles
        PROVE  file.client[u] # None /\ Knows(file.client[u], client[u].roles)
    <3>1. file.client[u] \in SUBSET Roles
      BY <2>1, <2>2, Constants
    <3>2. QED
      BY <2>1, <2>2, <3>1, Constants DEF Knows
  <2>3. QED
    BY <2>1, <2>2 DEF Synced, Knows
<1>11. QED
  BY <1>6, <1>8, <1>9, <1>10 DEF IInv

LEMMA NextKeeps == IInv /\ [Next]_vars => IInv'
<1> SUFFICES ASSUME IInv, [Next]_vars PROVE IInv'
  OBVIOUS
<1>1. ASSUME NEW c \in Calls, Prepares(c) PROVE IInv'
  BY <1>1, PreparingKeeps
<1>2. ASSUME NEW c \in Calls, Acts(c) \/ DeletesDefaultRole(c) PROVE IInv'
  BY <1>2, ActingIsRequest, DeletingIsRequest, RequestKeeps DEF IInv
<1>3. CASE OperatorChanges
  BY <1>3, OperatorChangesIsRequest, RequestKeeps DEF IInv
<1>4. CASE GraceExpires \/ Saves \/ SetClientDefaults
  BY <1>4, GraceExpiresKeeps, SavesKeeps, SetClientDefaultsKeeps
<1>5. CASE BootReads \/ BootKeeps \/ BootLeaves \/ BootManages \/ BootMarks \/ BootSetsDefault
           \/ BootProvides
  BY <1>5, BootReadsKeeps, BootPassesKeeps, BootManagesKeeps, BootSetsDefaultKeeps, BootProvidesKeeps
<1>6. CASE BootRuns \/ BootFails \/ Restart
  BY <1>6, BootRunsKeeps, BootFailsKeeps, RestartKeeps
<1>7. CASE UNCHANGED vars
  <2>1. UNCHANGED <<role, client, group, file, default, initialized, grace, boot, call,
                    requests, changes, unsaved, vouched, doubted, chosen>>
    BY <1>7 DEF vars, broker, settings, history
  <2>2. TypeOK'
    BY <2>1 DEF IInv, TypeOK
  <2>3. QED
    BY <2>1, <2>2 DEF IInv, Jobs, Created, Provided, Trusted, Judged, Settled, Synced, Planned, Pending,
             InFile
<1>8. QED
  BY <1>1, <1>2, <1>3, <1>4, <1>5, <1>6, <1>7 DEF Next, Prepares, Acts

\* The inductive invariant holds in every state: next to the types, what createClient
\* knows of the client it has created, the default role the bootstrap has provided and
\* the grace period of those who have not seen it in the file, the default that an
\* operator has chosen, what the state file knows of the holders of the
\* legacy role, and the plan of the migration.
THEOREM Inductive == Spec => []IInv
BY InitInv, NextKeeps, PTL DEF Spec

\* Every variable keeps its type, and no client or group holds a role that the broker
\* does not have.
THEOREM TypeCorrect == Spec => []TypeOK
<1>1. IInv => TypeOK
  BY DEF IInv
<1>2. QED
  BY Inductive, <1>1, PTL

\* However createClient's steps, their failures and the rollback interleave with other
\* requests, with the bootstrap and with restarts: a call that succeeds leaves the client
\* as it was asked for, and one that reports a rollback leaves no client of its own.
THEOREM CallsKeepTheirContract == Spec => []CreationContract
<1>1. IInv => CreationContract
  BY DEF IInv, Created, GoodCall, SoFar, CreationContract
<1>2. QED
  BY Inductive, <1>1, PTL

\* No creation is refused for want of the default role that the bootstrap has provided
\* when it read a file that did not show it yet, however long after it judges what it
\* read, unless the grace period ended in between, or a request had ended it too soon.
THEOREM ProvidedRoleIsAccepted == Spec => ProvidedRoleIsFound
<1>1. IInv /\ [Next]_vars =>
        [vouched => \A c \in Calls :
            call[c].role = ReadAll /\ ~call[c].late => ~CheckRefuses(c)]_vars
  BY DEF IInv, Trusted, Judged, CheckRefuses, IsConfiguredDefaultRoleMissing
<1>2. QED
  BY Inductive, <1>1, PTL DEF Spec, ProvidedRoleIsFound

\* No start of the API replaces the default role that an operator has chosen once the
\* bootstrap was behind it.
THEOREM ChoicesStay == Spec => OperatorsChoiceStays
<1>1. IInv /\ [Next]_vars => [chosen /\ default' # default => SetClientDefaults]_vars
  <2> SUFFICES ASSUME IInv, Next, chosen, ~SetClientDefaults
               PROVE  default' = default
    OBVIOUS
  <2>1. CASE BootSetsDefault
    BY <2>1 DEF IInv, Settled, BootSetsDefault
  <2>2. CASE \E c \in Calls : Acts(c)
    BY <2>2, Acting DEF IInv, settings
  <2>3. CASE OperatorChanges \/ \E c \in Calls : DeletesDefaultRole(c)
    BY <2>3 DEF OperatorChanges, DeletesDefaultRole, settings
  <2>4. CASE \E c \in Calls : Prepares(c)
    BY <2>4, Preparing DEF IInv, settings
  <2>5. CASE GraceExpires \/ Saves \/ BootReads \/ BootKeeps \/ BootLeaves \/ BootManages
    BY <2>5 DEF GraceExpires, Saves, BootReads, BootKeeps, BootLeaves, BootManages, settings
  <2>6. CASE BootRuns \/ BootProvides \/ BootMarks \/ BootFails \/ Restart
    BY <2>6 DEF BootRuns, BootProvides, BootMarks, BootFails, Restart, settings
  <2>7. QED
    BY <2>1, <2>2, <2>3, <2>4, <2>5, <2>6 DEF Next, Prepares, Acts
<1>2. QED
  BY Inductive, <1>1, PTL DEF Spec, OperatorsChoiceStays

\* At no point of the migration, whichever of its commands fail or are carried out
\* without an answer, has anybody who had the right to write lost it.
THEOREM MigrationIsSafe == Spec => MigrationKeepsAccess
<1>1. IInv /\ [Next]_vars =>
        [boot.at = "run" /\ ~boot.meddled /\ (BootRuns \/ BootFails) =>
            /\ \A u \in Clients : client[u] # None /\ MayWrite(client[u].roles) => MayWrite(client'[u].roles)
            /\ \A g \in Groups : MayWrite(group[g]) => MayWrite(group'[g])]_vars
  <2> SUFFICES ASSUME IInv, BootRuns \/ BootFails, ~boot.meddled
               PROVE  /\ \A u \in Clients : client[u] # None /\ MayWrite(client[u].roles) => MayWrite(client'[u].roles)
                      /\ \A g \in Groups : MayWrite(group[g]) => MayWrite(group'[g])
    OBVIOUS
  <2>1. CASE UNCHANGED broker
    BY <2>1 DEF broker
  <2>2. CASE boot.at = "run" /\ boot.todo # <<>> /\ Executes(NextCommand(boot.todo))
    <3>1. /\ Runs(Head(boot.todo), Tail(boot.todo))
          /\ \A u \in Clients : client'[u] # None => Kept(client[u].roles, client'[u].roles)
          /\ \A g \in Groups : Kept(group[g], group'[g])
      BY <2>2, Running, BootCommand DEF IInv
    <3>2. \A roles : MayWrite(roles) <=> Legacy \in roles \/ ReadWriteAll \in roles
      BY DEF MayWrite, Migrated
    <3>3. 1 \in 1..Len(boot.todo) /\ boot.todo[1] = Head(boot.todo)
      BY <2>2, Shortened DEF IInv, Jobs
    <3>4. Planned /\ BrokerTyped
      BY DEF IInv, TypeOK, BrokerTyped
    <3>5. CASE \E r \in BootstrapRoles : CreateRole(r) \/ \E a \in Acls : AddRoleAcl(r, a)
      BY <3>5 DEF CreateRole, AddRoleAcl
    <3>6. ASSUME NEW u \in Clients, \/ AssignClientRole(u, ReadWriteAll)
                                    \/ RemoveClientRole(u, Legacy) /\ Covered(client[u].roles)
          PROVE  /\ \A v \in Clients : client[v] # None /\ MayWrite(client[v].roles) => MayWrite(client'[v].roles)
                 /\ \A g \in Groups : MayWrite(group[g]) => MayWrite(group'[g])
      <4>1. UNCHANGED group /\ \A v \in Clients : v # u => client'[v] = client[v]
        BY <3>4, <3>6 DEF AssignClientRole, RemoveClientRole, BrokerTyped
      <4>2. MayWrite(client[u].roles) => ReadWriteAll \in client'[u].roles
        BY <3>2, <3>4, <3>6, Constants
           DEF AssignClientRole, RemoveClientRole, BrokerTyped, Client, Covered
      <4>3. QED
        BY <3>2, <4>1, <4>2
    <3>7. ASSUME NEW g \in Groups, \/ AddGroupRole(g, ReadWriteAll)
                                   \/ RemoveGroupRole(g, Legacy) /\ Covered(group[g])
          PROVE  /\ \A u \in Clients : client[u] # None /\ MayWrite(client[u].roles) => MayWrite(client'[u].roles)
                 /\ \A h \in Groups : MayWrite(group[h]) => MayWrite(group'[h])
      <4>1. UNCHANGED client /\ \A h \in Groups : h # g => group'[h] = group[h]
        BY <3>4, <3>7 DEF AddGroupRole, RemoveGroupRole, BrokerTyped
      <4>2. MayWrite(group[g]) => ReadWriteAll \in group'[g]
        BY <3>2, <3>4, <3>7, Constants DEF AddGroupRole, RemoveGroupRole, BrokerTyped, Covered
      <4>3. QED
        BY <3>2, <4>1, <4>2
    <3>8. CASE Head(boot.todo) = Deletion /\ DeleteRole(Legacy)
      <4>1. /\ \A u \in Clients : client[u] # None => Covered(client[u].roles) \/ Pending(ForClient(u))
            /\ \A g \in Groups : Covered(group[g]) \/ Pending(ForGroup(g))
            /\ Len(boot.todo) = 1
        BY <2>2, <3>3, <3>4, <3>8 DEF Planned
      <4>2. \A u : ~Pending(ForClient(u)) /\ ~Pending(ForGroup(u))
        <5>1. \A i \in 1..Len(boot.todo) : boot.todo[i] = Deletion
          BY <3>3, <3>8, <4>1
        <5>2. QED
          BY <5>1, JobsDiffer DEF Pending, ForClient, ForGroup
      <4>3. ASSUME NEW u \in Clients, client[u] # None, MayWrite(client[u].roles)
            PROVE  MayWrite(client'[u].roles)
        <5>1. ReadWriteAll \in client[u].roles
          BY <3>2, <4>1, <4>2, <4>3 DEF Covered
        <5>2. client'[u].roles = client[u].roles \ {Legacy}
          BY <3>4, <3>8, <4>3 DEF DeleteRole, BrokerTyped, Client
        <5>3. QED
          BY <3>2, <5>1, <5>2, Constants
      <4>4. ASSUME NEW g \in Groups, MayWrite(group[g])
            PROVE  MayWrite(group'[g])
        <5>1. ReadWriteAll \in group[g]
          BY <3>2, <4>1, <4>2, <4>4 DEF Covered
        <5>2. group'[g] = group[g] \ {Legacy}
          BY <3>8 DEF DeleteRole
        <5>3. QED
          BY <3>2, <5>1, <5>2, Constants
      <4>5. QED
        BY <4>3, <4>4
    <3>9. ASSUME NEW u \in Clients, Head(boot.todo) = Takes("removeClientRole", u), client[u] # None
          PROVE  Covered(client[u].roles)
      <4>1. Pending({Takes("removeClientRole", u)})
        BY <3>3, <3>9 DEF Pending
      <4>2. QED
        BY <2>2, <3>4, <3>9, <4>1 DEF Planned
    <3>10. ASSUME NEW g \in Groups, Head(boot.todo) = Takes("removeGroupRole", g)
           PROVE  Covered(group[g])
      <4>1. Pending({Takes("removeGroupRole", g)})
        BY <3>3, <3>10 DEF Pending
      <4>2. QED
        BY <2>2, <3>4, <3>10, <4>1 DEF Planned
    <3>11. \A u \in Clients : RemoveClientRole(u, Legacy) => client[u] # None
      BY DEF RemoveClientRole
    <3>12. QED
      BY <3>1, <3>5, <3>6, <3>7, <3>8, <3>9, <3>10, <3>11 DEF Runs
  <2>3. QED
    BY <2>1, <2>2 DEF BootRuns, BootFails, Unanswered
<1>2. QED
  BY Inductive, <1>1, PTL DEF Spec, MigrationKeepsAccess
=============================================================================
