--------------------------- MODULE EffectiveAcls ---------------------------
(***************************************************************************)
(* What DynsecService makes of the state file: the memberships, which the  *)
(* file may hold on either side, and the entries that decide what a client *)
(* may do (normalizeState and getEffectivePermissions of                   *)
(* dynsec/service.ts).                                                     *)
(*                                                                         *)
(* An ACL is [key, priority, allow], where key stands for its type and     *)
(* topic, numbered in their order.  The parsed file is a record:           *)
(*   roles          function from role names to sequences of ACLs          *)
(*   clients        function from usernames to sets of role names          *)
(*   groups         function from group names to sets of role names        *)
(*   clientGroups   for each client, a function from groups to priorities  *)
(*   groupClients   for each group, a function from clients to priorities  *)
(***************************************************************************)
EXTENDS Integers, Sequences, FiniteSets, SequencesExt, FiniteSetsExt, Functions

-----------------------------------------------------------------------------
(* Memberships *)

\* mergePriority, of priorities that one side or both may give.
MergePriority(left, right) == IF left > right THEN left ELSE right

\* The entries of one side, and those that the other side holds of the same thing.
MergedMemberships(own, others, name) ==
    LET there == {o \in DOMAIN others : name \in DOMAIN others[o]}
    IN  [x \in DOMAIN own \cup there |->
            IF x \notin there THEN own[x]
            ELSE IF x \notin DOMAIN own THEN others[x][name]
            ELSE MergePriority(own[x], others[x][name])]

\* normalizeState.  A membership of a client or group that is not in the file is kept
\* on the side that names it.
NormalizeState(file) ==
    [file EXCEPT
        !.clientGroups = [u \in DOMAIN file.clientGroups |->
            MergedMemberships(file.clientGroups[u], file.groupClients, u)],
        !.groupClients = [g \in DOMAIN file.groupClients |->
            MergedMemberships(file.groupClients[g], file.clientGroups, g)]]

-----------------------------------------------------------------------------
(* ACLs *)

\* resolveEffectiveAcls, its loop: the entry of each key that an earlier one gives
\* way to.
Overrides(acl, current) ==
    \/ acl.priority > current.priority
    \/ acl.priority = current.priority /\ current.allow /\ ~acl.allow

Resolved(acls) ==
    FoldLeft(LAMBDA effective, acl :
                LET current == {e \in effective : e.key = acl.key}
                IN  IF \A e \in current : Overrides(acl, e)
                    THEN (effective \ current) \cup {acl} ELSE effective,
             {}, acls)

\* sortAclsByPriorityAndEffect.
Precedes(left, right) ==
    \/ left.priority > right.priority
    \/ left.priority = right.priority /\ ~left.allow /\ right.allow
    \/ left.priority = right.priority /\ left.allow = right.allow /\ left.key < right.key

ResolveEffectiveAcls(acls) == SetToSortSeq(Resolved(acls), Precedes)

-----------------------------------------------------------------------------
(* getEffectivePermissions *)

AclsOf(file, roles) ==
    FlattenSeq(SetToSeq({file.roles[r] : r \in roles \cap DOMAIN file.roles}))

\* Direct roles first, then those of the groups; what names something that is not in
\* the file counts for nothing.
MergedAcls(file, u) ==
    LET state == NormalizeState(file)
        groups == DOMAIN state.clientGroups[u] \cap DOMAIN state.groups
    IN  AclsOf(state, state.clients[u])
            \o FlattenSeq(SetToSeq({AclsOf(state, state.groups[g]) : g \in groups}))

\* The warning of a conflict.
HasConflict(acls) ==
    \E i, j \in DOMAIN acls : acls[i].key = acls[j].key /\ acls[i].allow /\ ~acls[j].allow

GetEffectivePermissions(file, u) ==
    [acls |-> ResolveEffectiveAcls(MergedAcls(file, u)),
     conflict |-> HasConflict(MergedAcls(file, u))]
=============================================================================
