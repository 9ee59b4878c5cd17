------------------------------ MODULE MCDynsec ------------------------------
(* Instances of Dynsec, and of EffectiveAcls over bounded inputs, for TLC. *)
EXTENDS Dynsec, EffectiveAcls, TLC

MCAsked == {[password |-> TRUE, disabled |-> TRUE]}
Symmetry == Permutations(Calls)

-----------------------------------------------------------------------------
(* EffectiveAcls against what it is to compute. *)

Acl == [key : 1..2, priority : 0..1, allow : BOOLEAN]

\* The effect on a key is that of its highest priority, and to deny prevails there.
Allowed(acls, key) ==
    LET of == {i \in DOMAIN acls : acls[i].key = key}
        top == {i \in of : \A j \in of : acls[j].priority <= acls[i].priority}
    IN  of # {} /\ \A i \in top : acls[i].allow

\* Every key has one entry, the one that decides; the entries are sorted; and the
\* order of the roles in the file changes nothing.
ASSUME EffectiveAclsDecide ==
    \A acls \in SeqOf(Acl, 3) :
        LET effective == ResolveEffectiveAcls(acls)
        IN  /\ {effective[i].key : i \in DOMAIN effective} = {acls[i].key : i \in DOMAIN acls}
            /\ \A i, j \in DOMAIN effective : i # j => effective[i].key # effective[j].key
            /\ \A i \in DOMAIN effective : effective[i].allow = Allowed(acls, effective[i].key)
            /\ \A i, j \in DOMAIN effective : i < j => effective[i].priority >= effective[j].priority
            /\ effective = ResolveEffectiveAcls(Reverse(acls))

\* Both sides of a membership show it, with the same priority, whichever holds it.
Memberships(names) == UNION {[s -> 0..1] : s \in SUBSET names}

ASSUME MembershipsAgree ==
    \A inClients \in [{"u", "v"} -> Memberships({"g"})], inGroups \in [{"g"} -> Memberships({"u", "v"})] :
        LET state == NormalizeState([clientGroups |-> inClients, groupClients |-> inGroups])
        IN  \A u \in {"u", "v"} :
                /\ "g" \in DOMAIN state.clientGroups[u] <=> u \in DOMAIN state.groupClients["g"]
                /\ "g" \in DOMAIN state.clientGroups[u] =>
                       state.clientGroups[u]["g"] = state.groupClients["g"][u]

\* A client is allowed what its roles and those of its groups allow, wherever the
\* file holds the membership; a name that the file does not define gives nothing.
RolesOf(f, u) ==
    f.clients[u] \cup UNION {f.groups[g] : g \in {h \in DOMAIN f.groups :
        h \in DOMAIN f.clientGroups[u] \/ u \in DOMAIN f.groupClients[h]}}

ASSUME PermissionsAreOfAllRoles ==
    \A one, two \in SeqOf(Acl, 1), direct, inherited \in SUBSET {"one", "two", "gone"},
       side \in {"client", "group", "none"} :
        LET held == ("g" :> 0)
            f == [roles |-> ("one" :> one @@ "two" :> two),
                     clients |-> ("u" :> direct), groups |-> ("g" :> inherited),
                     clientGroups |-> ("u" :> IF side = "client" THEN held @@ ("lost" :> 1) ELSE <<>>),
                     groupClients |-> ("g" :> IF side = "group" THEN ("u" :> 0) ELSE <<>>)]
            granted == GetEffectivePermissions(f, "u")
            all == {f.roles[r][1] : r \in {q \in RolesOf(f, "u") \cap DOMAIN f.roles :
                                                  f.roles[q] # <<>>}}
        IN  /\ {granted.acls[i].key : i \in DOMAIN granted.acls} = {a.key : a \in all}
            /\ \A i \in DOMAIN granted.acls :
                   granted.acls[i].allow = Allowed(SetToSeq(all), granted.acls[i].key)
            /\ granted.conflict = (\E a, b \in all : a.key = b.key /\ a.allow # b.allow)
=============================================================================
