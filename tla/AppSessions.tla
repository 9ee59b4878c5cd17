---------------------------- MODULE AppSessions ----------------------------
(***************************************************************************)
(* One application account of mqttctl and its login sessions (AuthService  *)
(* in auth/service.ts over the tables app_users and sessions): local, OIDC *)
(* and trusted-header logins, administration of the account, the check of  *)
(* a session cookie, maintenance and restarts.                             *)
(*                                                                         *)
(* Every statement of the database is atomic; between two statements of a  *)
(* call, those of other calls run.  A call that reads the account keeps    *)
(* the row it has read (seen) and writes all of its columns back.  Hashing *)
(* and verifying a password only delay a call, and a refused request       *)
(* changes nothing here, so neither is a step.  Left out: the role and the *)
(* e-mail, the audit entries, the cookie's signature, the MCP principal.   *)
(***************************************************************************)
EXTENDS Integers, FiniteSets

CONSTANTS
    Ids,        \* primary keys of the account, one for each creation
    Sessions,   \* session ids
    Calls,      \* slots for calls in progress
    Passwords,
    Subjects,   \* OIDC subjects whose username claim is the account's
    AuthRequests, \* states of OIDC logins
    MaxVersion, \* bound on session_version
    None

ASSUME SessionsAssumption ==
    /\ IsFiniteSet(Ids)
    /\ IsFiniteSet(Sessions)
    /\ None \notin Ids \cup Sessions \cup Passwords \cup Subjects \cup AuthRequests
    /\ MaxVersion \in Nat

VARIABLES
    account,      \* app_users, the row of this username
    created,      \* ids that have been used
    session,      \* sessions
    issued,       \* session ids that have been used
    authRequests, \* auth_requests
    call,         \* where each call awaits
    raced         \* history: a row was overwritten that had changed since it was
                  \* read, or a login found another account than it had created

table == <<account, created, session, issued>>
vars == <<table, authRequests, call, raced>>

-----------------------------------------------------------------------------
(* Types *)

Sources == {"local", "oidc", "header"}
AccountRow == [id : Ids, source : Sources, subject : Subjects \cup {None},
               hash : Passwords \cup {None}, protected : BOOLEAN,
               disabled : BOOLEAN, version : Nat]
\* What a login has proved: the password, the subject, or the proxy's word.
Credential == [source : Sources, subject : Subjects \cup {None},
               hash : Passwords \cup {None}]
\* proved is a history of the login that created the session.
SessionRow == [user : Ids, version : Nat, expired : BOOLEAN, proved : Credential]

ASSUME RowsAssumption == None \notin AccountRow \cup SessionRow

\* at: the statement a call is about to execute.  For updateUser, hash and
\* disabled are its arguments; for a check, session is the row it has read.
CallRecord ==
    [at : {"idle", "update", "sync", "purge", "create", "reread", "insert",
           "lookup", "spend", "checkUser"},
     method : Sources, seen : AccountRow \cup {None},
     subject : Subjects \cup {None}, request : AuthRequests \cup {None},
     hash : Passwords \cup {None}, disabled : BOOLEAN,
     sid : Sessions \cup {None}, session : SessionRow \cup {None}]

TypeOK ==
    /\ account \in AccountRow \cup {None}
    /\ created \subseteq Ids
    /\ session \in [Sessions -> SessionRow \cup {None}]
    /\ issued \subseteq Sessions
    /\ authRequests \subseteq AuthRequests
    /\ call \in [Calls -> CallRecord]
    /\ raced \in BOOLEAN

Idle ==
    [at |-> "idle", method |-> "local", seen |-> None, subject |-> None, request |-> None,
     hash |-> None, disabled |-> FALSE, sid |-> None, session |-> None]

Init ==
    /\ account = None
    /\ created = {}
    /\ session = [s \in Sessions |-> None]
    /\ issued = {}
    /\ authRequests = {}
    /\ call = [c \in Calls |-> Idle]
    /\ raced = FALSE

-----------------------------------------------------------------------------
(* Rows *)

Row(id, source, subject, hash, protected) ==
    [id |-> id, source |-> source, subject |-> subject, hash |-> hash,
     protected |-> protected, disabled |-> FALSE, version |-> 0]

HasRow(id) == IF account = None THEN FALSE ELSE account.id = id

CredentialOf(row) ==
    [source |-> row.source, subject |-> row.subject, hash |-> row.hash]

Without(id) ==
    [s \in Sessions |->
        IF session[s] # None /\ session[s].user = id THEN None ELSE session[s]]

Starts(c, r) == call[c].at = "idle" /\ call' = [call EXCEPT ![c] = r]
Goes(c, r) == call' = [call EXCEPT ![c] = r]
Ends(c) == Goes(c, Idle)

\* What getUserFromCookie accepts.
Fits(s, row) ==
    /\ row # None
    /\ row.id = s.user
    /\ ~row.disabled
    /\ row.version = s.version
Acceptable(s) ==
    session[s] # None /\ ~session[s].expired /\ Fits(session[s], account)

-----------------------------------------------------------------------------
(* Writing the account.  All columns but the protection are written, for the *)
(* row with the id that was read.                                            *)

Overwrites(row) ==
    IF HasRow(row.id)
    THEN account' = [row EXCEPT !.protected = account.protected]
    ELSE UNCHANGED account

\* Mutant: disabling the account does not raise the version.
NextVersionForCredential(seen, row) ==
    IF CredentialOf(row) # CredentialOf(seen) THEN seen.version + 1 ELSE seen.version

\* When the session version is raised, the sessions are deleted next.
NextVersion(seen, row) ==
    IF CredentialOf(row) # CredentialOf(seen) \/ row.disabled # seen.disabled
    THEN seen.version + 1
    ELSE seen.version

Writes(c, row, next) ==
    LET seen == call[c].seen
    IN  /\ row.version <= MaxVersion
        /\ Overwrites(row)
        /\ raced' = (raced \/ (HasRow(seen.id) /\ account # seen))
        /\ Goes(c, [call[c] EXCEPT !.at = IF row.version # seen.version THEN "purge" ELSE next,
                                   !.seen = row])
        /\ UNCHANGED <<created, session, issued, authRequests>>

-----------------------------------------------------------------------------
(* Administration *)

\* createUser for a local account.  The username is looked up, the password
\* hashed, the row inserted.
CreateBegins(c) ==
    /\ account = None
    /\ \E p \in Passwords : Starts(c, [Idle EXCEPT !.at = "create", !.hash = p])
    /\ UNCHANGED <<table, authRequests, raced>>

\* The username is unique.  A login re-reads the row it has inserted.
Inserts(c) ==
    LET method == call[c].method
    IN  /\ call[c].at = "create"
        /\ \/ /\ account = None
              /\ \E id \in Ids \ created :
                    /\ account' = Row(id, method, call[c].subject, call[c].hash, FALSE)
                    /\ created' = created \cup {id}
              /\ IF method = "oidc" THEN Goes(c, [call[c] EXCEPT !.at = "reread"])
                                    ELSE Ends(c)
           \/ account # None /\ Ends(c) /\ UNCHANGED <<account, created>>
        /\ UNCHANGED <<session, issued, authRequests, raced>>

\* updateUser.  A password that is set always has a new hash.
UpdateBegins(c) ==
    /\ account # None
    /\ \E p \in Passwords \cup {None}, off \in BOOLEAN :
          /\ account.source # "local" => p = None /\ ~off
          /\ Starts(c, [Idle EXCEPT !.at = "update", !.seen = account,
                                    !.hash = p, !.disabled = off])
    /\ UNCHANGED <<table, authRequests, raced>>

\* Mutant: the version counts down.
UpdatedBack(seen, p, off) ==
    [seen EXCEPT !.hash = IF p = None THEN @ ELSE p, !.version = @ - 1]

Updated(seen, p, off) ==
    LET row == [seen EXCEPT !.hash = IF p = None THEN @ ELSE p,
                            !.disabled = IF seen.source = "local" THEN off ELSE FALSE]
    IN  [row EXCEPT !.version = IF p # None THEN seen.version + 1
                                            ELSE NextVersion(seen, row)]

UpdateWrites(c) ==
    /\ call[c].at = "update"
    /\ Writes(c, Updated(call[c].seen, call[c].hash, call[c].disabled), "idle")

\* The statement of deleteUser, which cascades to the sessions.
DeleteUser ==
    /\ account # None
    /\ account' = None
    /\ session' = Without(account.id)
    /\ UNCHANGED <<created, issued, authRequests, call, raced>>

\* deleteSessionsForUser, in updateUser and syncExternalAccount.
Purges(c) ==
    /\ call[c].at = "purge"
    /\ session' = Without(call[c].seen.id)
    /\ IF call[c].method = "oidc" THEN Goes(c, [call[c] EXCEPT !.at = "insert"])
                                  ELSE Ends(c)
    /\ UNCHANGED <<account, created, issued, authRequests, raced>>

-----------------------------------------------------------------------------
(* Logins *)

\* loginLocal, up to the session's insertion: the row read must be enabled and
\* the password right for it.
LoginLocal(c) ==
    /\ account # None
    /\ account.hash # None
    /\ ~account.disabled
    /\ Starts(c, [Idle EXCEPT !.at = "insert", !.seen = account])
    /\ UNCHANGED <<table, authRequests, raced>>

\* The row of a session refers to that of its account.
Opens(c, version) ==
    LET seen == call[c].seen
        proved == IF call[c].method = "local" THEN CredentialOf(seen)
                  ELSE [source |-> "oidc", subject |-> call[c].subject, hash |-> None]
    IN  /\ call[c].at = "insert"
        /\ \/ /\ HasRow(seen.id)
              /\ \E s \in Sessions \ issued :
                    /\ session' = [session EXCEPT ![s] =
                          [user |-> seen.id, version |-> version,
                           expired |-> FALSE, proved |-> proved]]
                    /\ issued' = issued \cup {s}
           \/ ~HasRow(seen.id) /\ UNCHANGED <<session, issued>>
        /\ Ends(c)
        /\ UNCHANGED <<account, created, authRequests, raced>>

\* Mutant: the session gets the version the account has by now.
CreateSessionAnew(c) == Opens(c, IF account = None THEN 0 ELSE account.version)

\* createSessionForUser, with the version the call has read or written.
CreateSession(c) == Opens(c, call[c].seen.version)

\* beginOidcLogin.
BeginOidcLogin(q) ==
    /\ q \notin authRequests
    /\ authRequests' = authRequests \cup {q}
    /\ UNCHANGED <<table, call, raced>>

\* completeOidcLogin: the request is read, then deleted, then the provider
\* exchanges the code and names the subject.
CompleteOidcLogin(c) ==
    /\ \E q \in authRequests :
          Starts(c, [Idle EXCEPT !.at = "spend", !.method = "oidc", !.request = q])
    /\ UNCHANGED <<table, authRequests, raced>>

SpendRequest(c) ==
    /\ call[c].at = "spend"
    /\ authRequests' = authRequests \ {call[c].request}
    /\ \E sub \in Subjects :
          Goes(c, [call[c] EXCEPT !.at = "lookup", !.subject = sub, !.request = None])
    /\ UNCHANGED <<table, raced>>

\* reconcileExternalUser, up to the write: an account of this subject, else of
\* this username unless it is protected, else a new one.  Only one row can
\* match, so the two look-ups are one step.
Reconcile(c) ==
    /\ call[c].at = "lookup"
    /\ IF account = None THEN Goes(c, [call[c] EXCEPT !.at = "create"])
       ELSE IF account.protected /\ account.subject # call[c].subject THEN Ends(c)
       ELSE Goes(c, [call[c] EXCEPT !.at = "sync", !.seen = account])
    /\ UNCHANGED <<table, authRequests, raced>>

\* After its own creation the login reads the account again, by name.
Rereads(c) ==
    /\ call[c].at = "reread"
    /\ IF account = None THEN Ends(c)
                         ELSE Goes(c, [call[c] EXCEPT !.at = "insert", !.seen = account])
    /\ raced' = (raced \/ (account # None /\ account.subject # call[c].subject))
    /\ UNCHANGED <<table, authRequests>>

\* authenticateTrustedHeaders, in every request that has no other user.
TrustedHeaders(c) ==
    /\ IF account = None
       THEN Starts(c, [Idle EXCEPT !.at = "create", !.method = "header"])
       ELSE /\ ~account.protected
            /\ Starts(c, [Idle EXCEPT !.at = "sync", !.method = "header", !.seen = account])
    /\ UNCHANGED <<table, authRequests, raced>>

Synced(seen, method, subject) ==
    LET row == [seen EXCEPT !.source = method, !.subject = subject,
                            !.hash = None, !.disabled = FALSE]
    IN  [row EXCEPT !.version = NextVersion(seen, row)]

\* syncExternalAccount.
SyncWrites(c) ==
    /\ call[c].at = "sync"
    /\ Writes(c, Synced(call[c].seen, call[c].method, call[c].subject),
              IF call[c].method = "oidc" THEN "insert" ELSE "idle")

-----------------------------------------------------------------------------
(* Sessions *)

\* getUserFromCookie reads the session; an expired one is deleted.
CheckBegins(c, s) ==
    /\ session[s] # None
    /\ IF session[s].expired
       THEN call[c].at = "idle" /\ session' = [session EXCEPT ![s] = None] /\ UNCHANGED call
       ELSE /\ Starts(c, [Idle EXCEPT !.at = "checkUser", !.sid = s,
                                      !.session = session[s]])
            /\ UNCHANGED session
    /\ UNCHANGED <<account, created, issued, authRequests, raced>>

\* It reads the user and lets the request in, or deletes the session.
CheckAccepts(c) ==
    /\ call[c].at = "checkUser"
    /\ Fits(call[c].session, account)
    /\ Ends(c)
    /\ UNCHANGED <<table, authRequests, raced>>

CheckRefuses(c) ==
    /\ call[c].at = "checkUser"
    /\ ~Fits(call[c].session, account)
    /\ session' = [session EXCEPT ![call[c].sid] = None]
    /\ Ends(c)
    /\ UNCHANGED <<account, created, issued, authRequests, raced>>

Logout(s) ==
    /\ session[s] # None
    /\ session' = [session EXCEPT ![s] = None]
    /\ UNCHANGED <<account, created, issued, authRequests, call, raced>>

Expires(s) ==
    /\ session[s] # None
    /\ ~session[s].expired
    /\ session' = [session EXCEPT ![s].expired = TRUE]
    /\ UNCHANGED <<account, created, issued, authRequests, call, raced>>

\* runMaintenance: expired sessions, and login requests older than 15 minutes.
RunMaintenance ==
    /\ session' = [s \in Sessions |->
          IF session[s] # None /\ session[s].expired THEN None ELSE session[s]]
    /\ \E old \in SUBSET authRequests : authRequests' = authRequests \ old
    /\ <<session, authRequests>>' # <<session, authRequests>>
    /\ UNCHANGED <<account, created, issued, call, raced>>

-----------------------------------------------------------------------------
(* Failures *)

\* A statement fails: the call ends with an error where it stands.
CallFails(c) ==
    /\ call[c].at # "idle"
    /\ Ends(c)
    /\ UNCHANGED <<table, authRequests, raced>>

\* The process restarts.  bootstrapInitialAdmin creates the protected
\* administrator in an empty table, or protects the account if it is the only
\* local administrator (which depends on what is left out).
Restart ==
    /\ call' = [c \in Calls |-> Idle]
    /\ \/ /\ account = None
          /\ \E id \in Ids \ created, p \in Passwords :
                /\ account' = Row(id, "local", None, p, TRUE)
                /\ created' = created \cup {id}
       \/ /\ account # None /\ account.source = "local"
          /\ account' = [account EXCEPT !.protected = TRUE]
          /\ UNCHANGED created
       \/ UNCHANGED <<account, created>>
    /\ UNCHANGED <<session, issued, authRequests, raced>>

-----------------------------------------------------------------------------

Next ==
    \/ \E c \in Calls :
          \/ CreateBegins(c) \/ Inserts(c) \/ UpdateBegins(c) \/ UpdateWrites(c)
          \/ Purges(c) \/ LoginLocal(c) \/ CreateSession(c) \/ CompleteOidcLogin(c)
          \/ SpendRequest(c) \/ Reconcile(c) \/ Rereads(c) \/ TrustedHeaders(c)
          \/ SyncWrites(c) \/ CheckAccepts(c) \/ CheckRefuses(c) \/ CallFails(c)
          \/ \E s \in Sessions : CheckBegins(c, s)
    \/ \E s \in Sessions : Logout(s) \/ Expires(s)
    \/ \E q \in AuthRequests : BeginOidcLogin(q)
    \/ DeleteUser
    \/ RunMaintenance
    \/ Restart

Spec == Init /\ [][Next]_vars

-----------------------------------------------------------------------------
(* Properties *)

\* As long as no write has overwritten a change it had not seen: a session that
\* is accepted was opened by proving the credential the account has now.  So a
\* password reset, a relinked subject or a change of source leaves no session of
\* the old credential behind, not even one whose login was under way.
SessionsProveCredential ==
    ~raced => \A s \in Sessions : Acceptable(s) => session[s].proved = CredentialOf(account)

\* A session that is no longer accepted never is again: not when the account is
\* enabled again, nor deleted and created anew.
RevokedStaysRevoked ==
    [][~raced' => \A s \in issued : ~Acceptable(s) => ~Acceptable(s)']_vars
=============================================================================
