------------------------- MODULE AppSessionsProofs -------------------------
(* Invariance proofs for AppSessions, for every value of its constants. *)
EXTENDS AppSessions, TLAPS

-----------------------------------------------------------------------------
(* The inductive invariant *)

\* A local row has no subject, an OIDC row has one and no password, a row of the
\* trusted headers has neither.
Shaped(row) ==
    /\ row.source = "oidc" <=> row.subject # None
    /\ row.source # "local" => row.hash = None

\* What a call knows at each of its statements.
Sane(r) ==
    /\ r.at \in {"update", "sync", "purge", "insert"} => r.seen # None
    /\ r.method = "oidc" /\ r.at # "spend" => r.subject # None
    /\ r.method # "oidc" => r.subject = None
    /\ r.method # "local" => r.hash = None
    /\ r.at = "update" => r.method = "local" /\ (r.seen.source # "local" => r.hash = None)
    /\ r.at = "sync" => r.method # "local"
    /\ r.at = "insert" => r.method # "header"
    /\ r.at \in {"spend", "lookup", "reread"} => r.method = "oidc"

Rows ==
    /\ account # None => Shaped(account) /\ account.id \in created
    /\ \A s \in Sessions : session[s] # None => session[s].user \in created
    /\ \A c \in Calls :
          /\ Sane(call[c])
          /\ call[c].seen # None => Shaped(call[c].seen) /\ call[c].seen.id \in created

\* A row read or a session opened some time ago has no newer version than the account,
\* and the account's credential if it has the account's version.
Behind(id, version, credential) ==
    HasRow(id) =>
        /\ version <= account.version
        /\ version = account.version => credential = CredentialOf(account)

SessionsBehind ==
    \A s \in Sessions :
        session[s] # None => Behind(session[s].user, session[s].version, session[s].proved)

CallsBehind ==
    \A c \in Calls : LET seen == call[c].seen
                     IN  seen # None => Behind(seen.id, seen.version, CredentialOf(seen))

\* A login that is about to insert its session has read, or written, the row of the
\* subject that it has proved.
LoginsRead ==
    \A c \in Calls :
        call[c].at \in {"insert", "purge"} /\ call[c].method = "oidc" =>
            CredentialOf(call[c].seen) =
                [source |-> "oidc", subject |-> call[c].subject, hash |-> None]

IInv ==
    /\ TypeOK
    /\ Rows
    /\ ~raced => SessionsBehind /\ CallsBehind /\ LoginsRead

-----------------------------------------------------------------------------
(* Rows *)

LEMMA IdleSane == Idle \in CallRecord /\ Sane(Idle) /\ Idle.seen = None /\ Idle.at = "idle"
BY DEF Idle, CallRecord, Sources, Sane

LEMMA NoneIsNoRow == ASSUME NEW row \in AccountRow PROVE row # None
BY RowsAssumption

\* The version stays only if the credential and the access do.
LEMMA NextVersionIs ==
  ASSUME NEW seen, NEW row, seen.version \in Nat
  PROVE  /\ NextVersion(seen, row) \in {seen.version, seen.version + 1}
         /\ NextVersion(seen, row) = seen.version =>
               CredentialOf(row) = CredentialOf(seen) /\ row.disabled = seen.disabled
<1>1. CASE CredentialOf(row) # CredentialOf(seen) \/ row.disabled # seen.disabled
  BY <1>1 DEF NextVersion
<1>2. CASE ~(CredentialOf(row) # CredentialOf(seen) \/ row.disabled # seen.disabled)
  BY <1>2 DEF NextVersion
<1>3. QED
  BY <1>1, <1>2

\* What updateUser writes has a newer version, or the credential and the access it read.
LEMMA UpdatedRow ==
  ASSUME NEW r \in CallRecord, r.seen \in AccountRow, Shaped(r.seen),
         r.seen.source # "local" => r.hash = None
  PROVE  LET seen == r.seen
             row == Updated(seen, r.hash, r.disabled)
         IN  /\ row \in AccountRow /\ Shaped(row) /\ row.id = seen.id
             /\ seen.version <= row.version
             /\ row.version = seen.version =>
                   CredentialOf(row) = CredentialOf(seen) /\ row.disabled = seen.disabled
<1>0. PICK seen \in AccountRow, p \in Passwords \cup {None}, off \in BOOLEAN :
        /\ seen = r.seen /\ p = r.hash /\ off = r.disabled
        /\ Shaped(seen) /\ (seen.source # "local" => p = None)
  BY DEF CallRecord
<1> DEFINE row == [seen EXCEPT !.hash = IF p = None THEN @ ELSE p,
                               !.disabled = IF seen.source = "local" THEN off ELSE FALSE]
           v == IF p # None THEN seen.version + 1 ELSE NextVersion(seen, row)
           new == [row EXCEPT !.version = v]
<1>1. /\ row \in AccountRow /\ row.id = seen.id /\ row.source = seen.source
      /\ row.subject = seen.subject /\ row.version = seen.version
      /\ row.hash = IF p = None THEN seen.hash ELSE p
  BY DEF AccountRow
<1>2. seen.version \in Nat /\ v \in {seen.version, seen.version + 1}
  BY NextVersionIs DEF AccountRow
<1> HIDE DEF row
<1>3. v = seen.version => p = None /\ CredentialOf(row) = CredentialOf(seen) /\ row.disabled = seen.disabled
  BY <1>2, NextVersionIs
<1> HIDE DEF v
<1>4. /\ new \in AccountRow /\ new.version = v /\ new.id = row.id /\ new.source = row.source
      /\ new.subject = row.subject /\ new.hash = row.hash /\ new.disabled = row.disabled
  BY <1>1, <1>2 DEF AccountRow
<1>5. Shaped(new)
  BY <1>1, <1>0, <1>4 DEF Shaped
<1>6. CredentialOf(new) = CredentialOf(row)
  BY <1>4 DEF CredentialOf
<1>7. Updated(seen, p, off) = new
  BY DEF Updated, row, v
<1> HIDE DEF new
<1>8. QED
  BY <1>0, <1>1, <1>2, <1>3, <1>4, <1>5, <1>6, <1>7

\* The same for syncExternalAccount, which enables the account and links the subject.
LEMMA SyncedRow ==
  ASSUME NEW seen \in AccountRow, NEW method \in {"oidc", "header"},
         NEW subject \in Subjects \cup {None}, method = "oidc" <=> subject # None
  PROVE  LET row == Synced(seen, method, subject)
         IN  /\ row \in AccountRow /\ Shaped(row) /\ row.id = seen.id
             /\ seen.version <= row.version
             /\ row.version = seen.version =>
                   CredentialOf(row) = CredentialOf(seen) /\ row.disabled = seen.disabled
             /\ CredentialOf(row) = [source |-> method, subject |-> subject, hash |-> None]
<1> DEFINE row == [seen EXCEPT !.source = method, !.subject = subject,
                               !.hash = None, !.disabled = FALSE]
           v == NextVersion(seen, row)
           new == [row EXCEPT !.version = v]
<1>1. /\ row \in AccountRow /\ row.id = seen.id /\ row.source = method
      /\ row.subject = subject /\ row.hash = None
  BY DEF AccountRow, Sources
<1>2. seen.version \in Nat /\ v \in {seen.version, seen.version + 1}
  BY NextVersionIs DEF AccountRow
<1> HIDE DEF row
<1>3. v = seen.version => CredentialOf(row) = CredentialOf(seen) /\ row.disabled = seen.disabled
  BY <1>2, NextVersionIs
<1> HIDE DEF v
<1>4. /\ new \in AccountRow /\ new.version = v /\ new.id = row.id /\ new.source = row.source
      /\ new.subject = row.subject /\ new.hash = row.hash /\ new.disabled = row.disabled
  BY <1>1, <1>2 DEF AccountRow
<1>5. Shaped(new)
  BY <1>1, <1>4 DEF Shaped
<1>6. CredentialOf(new) = CredentialOf(row)
      /\ CredentialOf(new) = [source |-> method, subject |-> subject, hash |-> None]
  BY <1>1, <1>4 DEF CredentialOf
<1>7. Synced(seen, method, subject) = new
  BY DEF Synced, row, v
<1> HIDE DEF new
<1>8. QED
  BY <1>1, <1>2, <1>3, <1>4, <1>5, <1>6, <1>7

-----------------------------------------------------------------------------
(* The steps of the calls *)

\* What the record of a call must be for the invariant.
Correct(r) ==
    /\ Sane(r)
    /\ r.seen # None => /\ Shaped(r.seen) /\ r.seen.id \in created
                        /\ ~raced' => Behind(r.seen.id, r.seen.version, CredentialOf(r.seen))
    /\ ~raced' /\ r.at \in {"insert", "purge"} /\ r.method = "oidc" =>
          CredentialOf(r.seen) = [source |-> "oidc", subject |-> r.subject, hash |-> None]

\* Sessions expire and are deleted.
Thins ==
    /\ session' \in [Sessions -> SessionRow \cup {None}]
    /\ \A s \in Sessions : session'[s] # None =>
          /\ session[s] # None
          /\ session'[s].user = session[s].user
          /\ session'[s].version = session[s].version
          /\ session'[s].proved = session[s].proved

\* A step that leaves the account alone and opens no session.
LEMMA CallStep ==
  ASSUME IInv, UNCHANGED <<account, created, issued>>, Thins,
         authRequests' \subseteq AuthRequests, raced' \in BOOLEAN, raced => raced',
         call' \in [Calls -> CallRecord],
         \A c \in Calls : call'[c] = call[c] \/ Correct(call'[c])
  PROVE  IInv'
<1>1. TypeOK'
  BY DEF IInv, TypeOK, Thins
<1>2. \A id, version, credential : Behind(id, version, credential)' <=> Behind(id, version, credential)
  BY DEF Behind, HasRow
<1>3. Rows'
  BY DEF IInv, Rows, Thins, Correct
<1>4. ASSUME ~raced' PROVE SessionsBehind'
  BY <1>4 DEF IInv, SessionsBehind, Behind, HasRow, Thins
<1>5. ASSUME ~raced' PROVE CallsBehind'
  BY <1>5 DEF IInv, CallsBehind, Behind, HasRow, Correct
<1>6. ASSUME ~raced' PROVE LoginsRead'
  BY <1>6 DEF IInv, LoginsRead, Correct
<1>7. QED
  BY <1>1, <1>3, <1>4, <1>5, <1>6 DEF IInv

\* One call goes on, and the sessions stay or thin out.
LEMMA Going ==
  ASSUME IInv, UNCHANGED <<account, created, issued>>, Thins,
         authRequests' \subseteq AuthRequests, raced' \in BOOLEAN, raced => raced',
         NEW c \in Calls, NEW r \in CallRecord, Goes(c, r), Correct(r)
  PROVE  IInv'
<1>1. call' \in [Calls -> CallRecord] /\ \A d \in Calls : call'[d] = call[d] \/ call'[d] = r
  BY DEF Goes, IInv, TypeOK
<1>2. QED
  BY <1>1, CallStep

LEMMA SameSessions == ASSUME IInv, session' = session PROVE Thins
BY DEF IInv, TypeOK, Thins

LEMMA IdleCorrect == Correct(Idle)
BY IdleSane DEF Correct

\* An account that has just been read is up to date.
LEMMA ReadIsBehind ==
  ASSUME IInv, account # None
  PROVE  /\ account \in AccountRow /\ Shaped(account) /\ account.id \in created
         /\ Behind(account.id, account.version, CredentialOf(account))
BY DEF IInv, TypeOK, Rows, Behind, AccountRow

\* updateUser and syncExternalAccount write a row, and go on with it.
LEMMA WritesStep ==
  ASSUME IInv, NEW c \in Calls, NEW row \in AccountRow, NEW next \in {"idle", "insert"},
         Writes(c, row, next),
         call[c].at \in {"update", "sync"}, Shaped(row), row.id = call[c].seen.id,
         call[c].seen.version <= row.version,
         row.version = call[c].seen.version => CredentialOf(row) = CredentialOf(call[c].seen),
         next = "insert" => call[c].method = "oidc",
         call[c].method = "oidc" =>
            CredentialOf(row) = [source |-> "oidc", subject |-> call[c].subject, hash |-> None]
  PROVE  IInv'
<1> DEFINE seen == call[c].seen
<1>1. call[c] \in CallRecord /\ Sane(call[c]) /\ seen # None /\ seen \in AccountRow /\ seen.id \in created
  BY DEF IInv, TypeOK, Rows, Sane, CallRecord
<1> DEFINE at == IF row.version # seen.version THEN "purge" ELSE next
           r == [call[c] EXCEPT !.at = at, !.seen = row]
<1>2. at \in {"idle", "insert", "purge"} /\ (at = "insert" => call[c].method = "oidc")
  OBVIOUS
<1>3. call' = [call EXCEPT ![c] = r] /\ Overwrites(row) /\ UNCHANGED <<created, session, issued, authRequests>>
      /\ raced' = (raced \/ (HasRow(seen.id) /\ account # seen))
  BY DEF Writes, Goes
<1> HIDE DEF at
<1>4. /\ r \in CallRecord /\ r.seen = row /\ r.at = at /\ r.method = call[c].method
      /\ r.subject = call[c].subject /\ r.hash = call[c].hash
  BY <1>1, <1>2 DEF CallRecord
<1>5. Sane(r) /\ row # None
  BY <1>1, <1>2, <1>4, NoneIsNoRow DEF Sane
<1> HIDE DEF r
<1>6. /\ call' \in [Calls -> CallRecord] /\ call'[c] = r
      /\ \A d \in Calls \ {c} : call'[d] = call[d]
  BY <1>3, <1>4 DEF IInv, TypeOK
<1>7. /\ account' \in AccountRow \cup {None} /\ raced' \in BOOLEAN
      /\ account # None => /\ account' # None /\ Shaped(account') /\ account'.id = account.id
      /\ account = None => account' = None
  <2>1. CASE ~HasRow(row.id)
    BY <1>3, <2>1 DEF Overwrites, IInv, TypeOK, Rows
  <2>2. CASE HasRow(row.id)
    <3>1. account # None /\ account \in AccountRow /\ account.id = row.id
      BY <2>2 DEF HasRow, IInv, TypeOK
    <3>2. account' = [row EXCEPT !.protected = account.protected]
      BY <1>3, <2>2 DEF Overwrites
    <3>3. account' \in AccountRow /\ account'.id = row.id /\ Shaped(account')
      BY <3>1, <3>2 DEF AccountRow, Shaped
    <3>4. QED
      BY <1>3, <3>1, <3>3, NoneIsNoRow
  <2>3. QED
    BY <2>1, <2>2
<1>8. TypeOK'
  BY <1>3, <1>6, <1>7 DEF IInv, TypeOK
<1>9. Rows'
  BY <1>1, <1>3, <1>4, <1>5, <1>6, <1>7 DEF IInv, Rows
<1>10. ASSUME ~raced'
       PROVE  /\ \A id, version, credential :
                    version \in Nat /\ Behind(id, version, credential) => Behind(id, version, credential)'
              /\ Behind(row.id, row.version, CredentialOf(row))'
  <2>1. CASE ~HasRow(row.id)
    <3>1. account' = account
      BY <1>3, <2>1 DEF Overwrites
    <3>2. QED
      BY <2>1, <3>1 DEF Behind, HasRow
  <2>2. CASE HasRow(row.id)
    <3>1. account = seen /\ account # None
      BY <1>1, <1>3, <1>10, <2>2
    <3>2. account' = [row EXCEPT !.protected = account.protected]
      BY <1>3, <2>2 DEF Overwrites
    <3>3. /\ account'.id = row.id /\ account'.version = row.version
          /\ CredentialOf(account') = CredentialOf(row)
      BY <3>2 DEF AccountRow, CredentialOf
    <3>4. seen.version \in Nat /\ row.version \in Nat
      BY <1>1 DEF AccountRow
    <3>5. Behind(row.id, row.version, CredentialOf(row))'
      <4>1. CredentialOf(account)' = CredentialOf(row)
        BY <3>3 DEF CredentialOf
      <4>2. QED
        BY <3>3, <3>4, <4>1 DEF Behind, CredentialOf
    <3>6. ASSUME NEW id, NEW version \in Nat, NEW credential, Behind(id, version, credential)
          PROVE  Behind(id, version, credential)'
      <4>1. SUFFICES ASSUME HasRow(id)'
                     PROVE  /\ version <= account'.version
                            /\ version = account'.version => credential = CredentialOf(account')
        BY DEF Behind, CredentialOf
      <4>2. HasRow(id)
        BY <3>1, <3>3, <4>1 DEF HasRow
      <4>3. version <= seen.version /\ (version = seen.version => credential = CredentialOf(seen))
        BY <3>1, <3>6, <4>2 DEF Behind
      <4>4. QED
        BY <3>3, <3>4, <4>3
    <3>7. QED
      BY <3>5, <3>6
  <2>3. QED
    BY <2>1, <2>2
<1>11. ASSUME ~raced' PROVE SessionsBehind'
  <2>1. ~raced /\ SessionsBehind
    BY <1>3, <1>11 DEF IInv
  <2>2. \A s \in Sessions : session[s] # None => session[s].version \in Nat
    BY DEF IInv, TypeOK, SessionRow
  <2>3. QED
    BY <1>3, <1>10, <1>11, <2>1, <2>2 DEF SessionsBehind, Behind, HasRow, CredentialOf
<1>12. ASSUME ~raced' PROVE CallsBehind'
  <2>1. ~raced /\ CallsBehind
    BY <1>3, <1>12 DEF IInv
  <2>2. \A d \in Calls : call[d].seen # None => call[d].seen.version \in Nat
    BY DEF IInv, TypeOK, CallRecord, AccountRow
  <2>3. ASSUME NEW d \in Calls, call'[d].seen # None
        PROVE  Behind(call[d].seen.id, call[d].seen.version, CredentialOf(call[d].seen))'
    <3>1. CASE d = c
      BY <1>4, <1>6, <1>10, <1>12, <3>1 DEF Behind, HasRow, CredentialOf
    <3>2. CASE d # c
      <4>1. call'[d] = call[d] /\ call[d].seen.version \in Nat
            /\ Behind(call[d].seen.id, call[d].seen.version, CredentialOf(call[d].seen))
        BY <1>6, <2>1, <2>2, <2>3, <3>2 DEF CallsBehind
      <4>2. QED
        BY <1>10, <1>12, <4>1 DEF Behind, HasRow, CredentialOf
    <3>3. QED
      BY <3>1, <3>2
  <2>4. QED
    BY <2>3 DEF CallsBehind
<1>13. ASSUME ~raced' PROVE LoginsRead'
  <2>1. ~raced /\ LoginsRead
    BY <1>3, <1>13 DEF IInv
  <2>2. QED
    BY <1>4, <1>6, <2>1 DEF LoginsRead
<1>14. QED
  BY <1>8, <1>9, <1>11, <1>12, <1>13 DEF IInv

\* A call that starts, goes on or ends while account and sessions stay.
LEMMA CallOnly ==
  ASSUME IInv, UNCHANGED <<table, raced>>, authRequests' \subseteq AuthRequests,
         NEW c \in Calls, NEW r \in CallRecord, call' = [call EXCEPT ![c] = r], Correct(r)
  PROVE  IInv'
<1>1. raced \in BOOLEAN
  BY DEF IInv, TypeOK
<1>2. QED
  BY <1>1, Going, SameSessions DEF Goes, table

-----------------------------------------------------------------------------
(* Every step *)

LEMMA AdminSteps ==
  ASSUME IInv, NEW c \in Calls,
         CreateBegins(c) \/ UpdateBegins(c) \/ UpdateWrites(c) \/ Purges(c)
  PROVE  IInv'
<1>0. call[c] \in CallRecord /\ Sane(call[c]) /\ authRequests \subseteq AuthRequests
  BY DEF IInv, TypeOK, Rows
<1>1. CASE CreateBegins(c)
  <2>1. PICK p \in Passwords : call' = [call EXCEPT ![c] = [Idle EXCEPT !.at = "create", !.hash = p]]
    BY <1>1 DEF CreateBegins, Starts
  <2> DEFINE r == [Idle EXCEPT !.at = "create", !.hash = p]
  <2>2. r \in CallRecord /\ r.seen = None /\ Sane(r) /\ r.at = "create"
    BY DEF Idle, CallRecord, Sources, Sane
  <2> HIDE DEF r
  <2>3. Correct(r)
    BY <2>2 DEF Correct
  <2>4. QED
    BY <1>0, <1>1, <2>1, <2>2, <2>3, CallOnly DEF CreateBegins, r
<1>2. CASE UpdateBegins(c)
  <2>1. PICK p \in Passwords \cup {None}, off \in BOOLEAN :
          /\ account.source # "local" => p = None
          /\ call' = [call EXCEPT ![c] = [Idle EXCEPT !.at = "update", !.seen = account,
                                                      !.hash = p, !.disabled = off]]
    BY <1>2 DEF UpdateBegins, Starts
  <2> DEFINE r == [Idle EXCEPT !.at = "update", !.seen = account, !.hash = p, !.disabled = off]
  <2>2. account # None /\ account \in AccountRow
    BY <1>2, ReadIsBehind DEF UpdateBegins
  <2>3. r \in CallRecord /\ r.seen = account /\ Sane(r) /\ r.at = "update"
    BY <2>1, <2>2 DEF Idle, CallRecord, Sources, Sane
  <2> HIDE DEF r
  <2>4. Correct(r)
    BY <2>2, <2>3, ReadIsBehind DEF Correct
  <2>5. QED
    BY <1>0, <1>2, <2>1, <2>3, <2>4, CallOnly DEF UpdateBegins, r
<1>3. CASE UpdateWrites(c)
  <2> DEFINE seen == call[c].seen
             row == Updated(seen, call[c].hash, call[c].disabled)
  <2>1. call[c].at = "update" /\ call[c].method = "local" /\ seen # None
    BY <1>0, <1>3 DEF UpdateWrites, Sane
  <2>2. /\ seen \in AccountRow /\ Shaped(seen)
        /\ seen.source # "local" => call[c].hash = None
    BY <1>0, <2>1 DEF CallRecord, Sane, IInv, Rows
  <2>3. Writes(c, row, "idle")
    BY <1>3 DEF UpdateWrites
  <2>4. /\ row \in AccountRow /\ Shaped(row) /\ row.id = seen.id /\ seen.version <= row.version
        /\ row.version = seen.version => CredentialOf(row) = CredentialOf(seen)
    BY <1>0, <2>2, UpdatedRow
  <2> HIDE DEF row
  <2>5. QED
    BY <2>1, <2>3, <2>4, WritesStep
<1>4. CASE Purges(c)
  <2>1. Thins
    BY <1>4 DEF Purges, Without, Thins, IInv, TypeOK
  <2>2. CASE Goes(c, Idle)
    BY <1>0, <1>4, <2>1, <2>2, Going, IdleSane, IdleCorrect DEF Purges, IInv, TypeOK
  <2>3. CASE call[c].method = "oidc" /\ Goes(c, [call[c] EXCEPT !.at = "insert"])
    <3> DEFINE r == [call[c] EXCEPT !.at = "insert"]
    <3>1. /\ r \in CallRecord /\ r.at = "insert" /\ r.seen = call[c].seen /\ r.method = call[c].method
          /\ r.subject = call[c].subject /\ r.hash = call[c].hash
      BY <1>0 DEF CallRecord
    <3>2. Goes(c, r)
      BY <2>3
    <3> HIDE DEF r
    <3>3. call[c].at = "purge" /\ UNCHANGED <<account, created, issued, authRequests, raced>>
      BY <1>4 DEF Purges
    <3>4. Sane(r)
      BY <1>0, <2>3, <3>1, <3>3 DEF Sane
    <3>5. Correct(r)
      BY <2>3, <3>1, <3>3, <3>4 DEF Correct, IInv, Rows, CallsBehind, LoginsRead
    <3>6. QED
      BY <1>0, <2>1, <3>1, <3>2, <3>3, <3>5, Going DEF IInv, TypeOK
  <2>4. QED
    BY <1>4, <2>2, <2>3 DEF Purges, Ends
<1>5. QED
  BY <1>1, <1>2, <1>3, <1>4

\* A new account: its id is not that of any row read or any session.
LEMMA NewAccount ==
  ASSUME IInv, account = None, NEW id \in Ids \ created, NEW row \in AccountRow, row.id = id,
         Shaped(row), account' = row, created' = created \cup {id},
         UNCHANGED <<session, issued, authRequests, raced>>, call' \in [Calls -> CallRecord],
         \A c \in Calls : \/ call'[c] = Idle \/ call'[c] = call[c]
                          \/ /\ Sane(call'[c]) /\ call'[c].at = "reread"
                             /\ call'[c].seen = call[c].seen
  PROVE  IInv'
<1>1. TypeOK'
  BY DEF IInv, TypeOK
<1>2. row # None
  BY NoneIsNoRow
<1>3. Rows'
  BY <1>2, IdleSane DEF IInv, Rows
<1>4. \A old \in created : ~HasRow(old)'
  BY <1>2 DEF HasRow
<1>5. SessionsBehind'
  BY <1>4 DEF SessionsBehind, IInv, Rows, Behind, HasRow
<1>6. CallsBehind'
  <2>1. \A c \in Calls : call'[c].seen # None => call'[c].seen.id \in created
    BY IdleSane DEF IInv, Rows
  <2>2. QED
    BY <1>4, <2>1 DEF CallsBehind, Behind, HasRow
<1>7. ASSUME ~raced' PROVE LoginsRead'
  BY <1>7, IdleSane DEF IInv, LoginsRead
<1>8. QED
  BY <1>1, <1>3, <1>5, <1>6, <1>7 DEF IInv

LEMMA InsertsStep == ASSUME IInv, NEW c \in Calls, Inserts(c) PROVE IInv'
<1>0. call[c] \in CallRecord /\ Sane(call[c]) /\ authRequests \subseteq AuthRequests /\ call[c].at = "create"
  BY DEF IInv, TypeOK, Rows, Inserts
<1>1. CASE account # None /\ Ends(c) /\ UNCHANGED <<account, created>>
  BY <1>0, <1>1, CallOnly, IdleSane, IdleCorrect DEF Inserts, Ends, Goes, table
<1>2. CASE account = None
  <2>1. PICK id \in Ids \ created :
          /\ account' = Row(id, call[c].method, call[c].subject, call[c].hash, FALSE)
          /\ created' = created \cup {id}
    BY <1>2 DEF Inserts
  <2> DEFINE row == Row(id, call[c].method, call[c].subject, call[c].hash, FALSE)
  <2>2. /\ row \in AccountRow /\ row.id = id /\ row.source = call[c].method
        /\ row.subject = call[c].subject /\ row.hash = call[c].hash
    BY <1>0 DEF CallRecord, Row, AccountRow
  <2> HIDE DEF row
  <2>3. Shaped(row)
    BY <1>0, <2>2 DEF Shaped, Sane
  <2> DEFINE r == [call[c] EXCEPT !.at = "reread"]
  <2>4. /\ r \in CallRecord /\ r.at = "reread" /\ r.seen = call[c].seen
        /\ r.method = call[c].method /\ r.subject = call[c].subject /\ r.hash = call[c].hash
    BY <1>0 DEF CallRecord
  <2>5. Goes(c, Idle) \/ (call[c].method = "oidc" /\ Goes(c, r))
    BY <1>2 DEF Inserts, Ends
  <2> HIDE DEF r
  <2>6. /\ call' \in [Calls -> CallRecord] /\ \A d \in Calls \ {c} : call'[d] = call[d]
        /\ call'[c] = Idle \/ (call[c].method = "oidc" /\ call'[c] = r)
    BY <2>4, <2>5, IdleSane DEF Goes, IInv, TypeOK
  <2>7. call[c].method = "oidc" => Sane(r)
    BY <1>0, <2>4 DEF Sane
  <2>8. account' = row /\ UNCHANGED <<session, issued, authRequests, raced>>
    BY <2>1 DEF Inserts, row
  <2>9. QED
    BY <1>2, <2>1, <2>2, <2>3, <2>4, <2>6, <2>7, <2>8, NewAccount
<1>3. QED
  BY <1>1, <1>2 DEF Inserts

LEMMA LoginSteps ==
  ASSUME IInv, NEW c \in Calls,
         LoginLocal(c) \/ CompleteOidcLogin(c) \/ SpendRequest(c) \/ Reconcile(c) \/ TrustedHeaders(c)
  PROVE  IInv'
<1>0. call[c] \in CallRecord /\ Sane(call[c]) /\ authRequests \subseteq AuthRequests
  BY DEF IInv, TypeOK, Rows
<1>1. CASE LoginLocal(c)
  <2> DEFINE r == [Idle EXCEPT !.at = "insert", !.seen = account]
  <2>1. account # None /\ account \in AccountRow /\ call' = [call EXCEPT ![c] = r]
    BY <1>1, ReadIsBehind DEF LoginLocal, Starts
  <2>2. r \in CallRecord /\ r.seen = account /\ Sane(r) /\ r.method = "local"
    BY <2>1 DEF Idle, CallRecord, Sources, Sane
  <2> HIDE DEF r
  <2>3. Correct(r)
    BY <2>1, <2>2, ReadIsBehind DEF Correct
  <2>4. QED
    BY <1>0, <1>1, <2>1, <2>2, <2>3, CallOnly DEF LoginLocal
<1>2. CASE CompleteOidcLogin(c)
  <2>1. PICK q \in authRequests :
          call' = [call EXCEPT ![c] = [Idle EXCEPT !.at = "spend", !.method = "oidc", !.request = q]]
    BY <1>2 DEF CompleteOidcLogin, Starts
  <2> DEFINE r == [Idle EXCEPT !.at = "spend", !.method = "oidc", !.request = q]
  <2>2. r \in CallRecord /\ r.seen = None /\ Sane(r) /\ r.at = "spend"
    BY <1>0 DEF Idle, CallRecord, Sources, Sane
  <2> HIDE DEF r
  <2>3. Correct(r)
    BY <2>2 DEF Correct
  <2>4. QED
    BY <1>0, <1>2, <2>1, <2>2, <2>3, CallOnly DEF CompleteOidcLogin, r
<1>3. CASE SpendRequest(c)
  <2>1. PICK sub \in Subjects :
          call' = [call EXCEPT ![c] = [call[c] EXCEPT !.at = "lookup", !.subject = sub, !.request = None]]
    BY <1>3 DEF SpendRequest, Goes
  <2> DEFINE r == [call[c] EXCEPT !.at = "lookup", !.subject = sub, !.request = None]
  <2>2. /\ r \in CallRecord /\ r.seen = call[c].seen /\ r.at = "lookup" /\ r.subject = sub
        /\ r.method = call[c].method /\ r.hash = call[c].hash
    BY <1>0 DEF CallRecord
  <2>3. call[c].method = "oidc" /\ sub # None
    BY <1>0, <1>3, SessionsAssumption DEF SpendRequest, Sane
  <2> HIDE DEF r
  <2>4. Sane(r)
    BY <1>0, <2>2, <2>3 DEF Sane
  <2>5. UNCHANGED <<table, raced>> /\ authRequests' \subseteq AuthRequests
    BY <1>0, <1>3 DEF SpendRequest
  <2>6. Correct(r)
    BY <2>2, <2>4, <2>5 DEF Correct, IInv, Rows, CallsBehind
  <2>7. QED
    BY <2>1, <2>2, <2>5, <2>6, CallOnly DEF r
<1>4. CASE Reconcile(c)
  <2>1. call[c].at = "lookup" /\ UNCHANGED <<table, authRequests, raced>>
    BY <1>4 DEF Reconcile
  <2>2. CASE Ends(c)
    BY <1>0, <2>1, <2>2, CallOnly, IdleSane, IdleCorrect DEF Ends, Goes
  <2>3. CASE Goes(c, [call[c] EXCEPT !.at = "create"])
    <3> DEFINE r == [call[c] EXCEPT !.at = "create"]
    <3>1. /\ r \in CallRecord /\ r.seen = call[c].seen /\ r.at = "create" /\ r.subject = call[c].subject
          /\ r.method = call[c].method /\ r.hash = call[c].hash
      BY <1>0 DEF CallRecord
    <3>2. call' = [call EXCEPT ![c] = r]
      BY <2>3 DEF Goes
    <3> HIDE DEF r
    <3>3. Sane(r)
      BY <1>0, <2>1, <3>1 DEF Sane
    <3>4. Correct(r)
      BY <2>1, <3>1, <3>3 DEF Correct, IInv, Rows, CallsBehind
    <3>5. QED
      BY <1>0, <2>1, <3>1, <3>2, <3>4, CallOnly
  <2>4. CASE account # None /\ Goes(c, [call[c] EXCEPT !.at = "sync", !.seen = account])
    <3> DEFINE r == [call[c] EXCEPT !.at = "sync", !.seen = account]
    <3>1. /\ r \in CallRecord /\ r.seen = account /\ r.at = "sync" /\ r.subject = call[c].subject
          /\ r.method = call[c].method /\ r.hash = call[c].hash
      BY <1>0, <2>4, ReadIsBehind DEF CallRecord
    <3>2. call' = [call EXCEPT ![c] = r]
      BY <2>4 DEF Goes
    <3> HIDE DEF r
    <3>3. Sane(r)
      BY <1>0, <2>1, <2>4, <3>1 DEF Sane
    <3>4. Correct(r)
      BY <2>4, <3>1, <3>3, ReadIsBehind DEF Correct
    <3>5. QED
      BY <1>0, <2>1, <3>1, <3>2, <3>4, CallOnly
  <2>5. QED
    BY <1>4, <2>2, <2>3, <2>4 DEF Reconcile
<1>5. CASE TrustedHeaders(c)
  <2>1. UNCHANGED <<table, authRequests, raced>>
    BY <1>5 DEF TrustedHeaders
  <2>2. CASE call' = [call EXCEPT ![c] = [Idle EXCEPT !.at = "create", !.method = "header"]]
    <3> DEFINE r == [Idle EXCEPT !.at = "create", !.method = "header"]
    <3>1. r \in CallRecord /\ r.seen = None /\ Sane(r) /\ r.at = "create"
      BY DEF Idle, CallRecord, Sources, Sane
    <3>2. call' = [call EXCEPT ![c] = r]
      BY <2>2
    <3> HIDE DEF r
    <3>3. Correct(r)
      BY <3>1 DEF Correct
    <3>4. QED
      BY <1>0, <2>1, <3>1, <3>2, <3>3, CallOnly
  <2>3. CASE account # None
             /\ call' = [call EXCEPT ![c] = [Idle EXCEPT !.at = "sync", !.method = "header", !.seen = account]]
    <3> DEFINE r == [Idle EXCEPT !.at = "sync", !.method = "header", !.seen = account]
    <3>1. r \in CallRecord /\ r.seen = account /\ Sane(r) /\ r.at = "sync"
      BY <2>3, ReadIsBehind DEF Idle, CallRecord, Sources, Sane
    <3>2. call' = [call EXCEPT ![c] = r]
      BY <2>3
    <3> HIDE DEF r
    <3>3. Correct(r)
      BY <2>3, <3>1, ReadIsBehind DEF Correct
    <3>4. QED
      BY <1>0, <2>1, <3>1, <3>2, <3>3, CallOnly
  <2>4. QED
    BY <1>5, <2>2, <2>3 DEF TrustedHeaders, Starts
<1>6. QED
  BY <1>1, <1>2, <1>3, <1>4, <1>5

LEMMA RereadsStep == ASSUME IInv, NEW c \in Calls, Rereads(c) PROVE IInv'
<1>0. /\ call[c] \in CallRecord /\ Sane(call[c]) /\ authRequests' \subseteq AuthRequests
      /\ call[c].at = "reread" /\ call[c].method = "oidc" /\ call[c].subject # None
      /\ UNCHANGED <<account, created, session, issued>>
      /\ raced' = (raced \/ (account # None /\ account.subject # call[c].subject))
  BY DEF IInv, TypeOK, Rows, Rereads, Sane, table
<1>1. raced' \in BOOLEAN /\ (raced => raced') /\ Thins
  BY <1>0, SameSessions
<1>2. CASE Goes(c, Idle)
  BY <1>0, <1>1, <1>2, Going, IdleSane, IdleCorrect
<1>3. CASE account # None /\ Goes(c, [call[c] EXCEPT !.at = "insert", !.seen = account])
  <2> DEFINE r == [call[c] EXCEPT !.at = "insert", !.seen = account]
  <2>1. account \in AccountRow /\ Shaped(account) /\ account.id \in created
        /\ Behind(account.id, account.version, CredentialOf(account))
    BY <1>3, ReadIsBehind
  <2>2. /\ r \in CallRecord /\ r.seen = account /\ r.at = "insert" /\ r.subject = call[c].subject
        /\ r.method = call[c].method /\ r.hash = call[c].hash
    BY <1>0, <2>1 DEF CallRecord
  <2>3. Goes(c, r)
    BY <1>3
  <2> HIDE DEF r
  <2>4. Sane(r)
    BY <1>0, <1>3, <2>2 DEF Sane
  <2>5. ~raced' => CredentialOf(account) = [source |-> "oidc", subject |-> call[c].subject, hash |-> None]
    BY <1>0, <1>3, <2>1 DEF CredentialOf, Shaped
  <2>6. Correct(r)
    BY <2>1, <2>2, <2>4, <2>5 DEF Correct
  <2>7. QED
    BY <1>0, <1>1, <2>2, <2>3, <2>6, Going
<1>4. QED
  BY <1>2, <1>3 DEF Rereads, Ends

LEMMA SyncStep == ASSUME IInv, NEW c \in Calls, SyncWrites(c) PROVE IInv'
<1> DEFINE seen == call[c].seen
           row == Synced(seen, call[c].method, call[c].subject)
           next == IF call[c].method = "oidc" THEN "insert" ELSE "idle"
<1>1. call[c] \in CallRecord /\ Sane(call[c]) /\ call[c].at = "sync" /\ Writes(c, row, next)
  BY DEF IInv, TypeOK, Rows, SyncWrites
<1>2. /\ seen \in AccountRow /\ call[c].method \in {"oidc", "header"}
      /\ call[c].subject \in Subjects \cup {None}
      /\ call[c].method = "oidc" <=> call[c].subject # None
  BY <1>1 DEF CallRecord, Sane, Sources
<1>3. /\ row \in AccountRow /\ Shaped(row) /\ row.id = seen.id /\ seen.version <= row.version
      /\ row.version = seen.version => CredentialOf(row) = CredentialOf(seen)
      /\ CredentialOf(row) = [source |-> call[c].method, subject |-> call[c].subject, hash |-> None]
  BY <1>2, SyncedRow
<1> HIDE DEF row
<1>4. QED
  BY <1>1, <1>3, WritesStep

\* A login inserts its session: with the version and the credential of the row it knows.
LEMMA CreateSessionStep == ASSUME IInv, NEW c \in Calls, CreateSession(c) PROVE IInv'
<1> DEFINE seen == call[c].seen
           proved == IF call[c].method = "local" THEN CredentialOf(seen)
                     ELSE [source |-> "oidc", subject |-> call[c].subject, hash |-> None]
<1>1. /\ call[c] \in CallRecord /\ Sane(call[c]) /\ call[c].at = "insert" /\ seen # None
      /\ Shaped(seen) /\ seen.id \in created /\ authRequests' \subseteq AuthRequests
      /\ UNCHANGED <<account, created, authRequests, raced>> /\ Goes(c, Idle)
  BY DEF IInv, TypeOK, Rows, CreateSession, Opens, Sane, Ends
<1>2. CASE UNCHANGED <<session, issued>>
  BY <1>1, <1>2, Going, SameSessions, IdleSane, IdleCorrect DEF IInv, TypeOK
<1>3. ASSUME NEW s \in Sessions \ issued,
             session' = [session EXCEPT ![s] =
                [user |-> seen.id, version |-> seen.version, expired |-> FALSE, proved |-> proved]],
             issued' = issued \cup {s}
      PROVE  IInv'
  <2> DEFINE new == [user |-> seen.id, version |-> seen.version, expired |-> FALSE, proved |-> proved]
  <2>1. proved \in Credential
    BY <1>1 DEF CallRecord, AccountRow, Credential, CredentialOf, Sources
  <2>2. ~raced => proved = CredentialOf(seen)
    BY <1>1 DEF IInv, LoginsRead, CallRecord, Sources, Sane
  <2> HIDE DEF proved
  <2>3. new \in SessionRow /\ new.user = seen.id /\ new.version = seen.version /\ new.proved = proved
    BY <1>1, <2>1 DEF CallRecord, AccountRow, SessionRow
  <2> HIDE DEF new
  <2>4. session' = [session EXCEPT ![s] = new]
    BY <1>3 DEF new
  <2>5. call' \in [Calls -> CallRecord] /\ \A d \in Calls : call'[d] = call[d] \/ call'[d] = Idle
    BY <1>1, IdleSane DEF Goes, IInv, TypeOK
  <2>6. TypeOK'
    BY <1>1, <1>3, <2>3, <2>4, <2>5 DEF IInv, TypeOK
  <2>7. Rows'
    BY <1>1, <2>3, <2>4, <2>5, IdleSane DEF IInv, Rows, TypeOK
  <2>8. ASSUME ~raced' PROVE SessionsBehind'
    <3>1. ~raced /\ SessionsBehind /\ CallsBehind
      BY <1>1, <2>8 DEF IInv
    <3>2. Behind(seen.id, seen.version, proved)
      BY <1>1, <2>2, <3>1 DEF CallsBehind
    <3>3. ASSUME NEW t \in Sessions, session'[t] # None
          PROVE  Behind(session'[t].user, session'[t].version, session'[t].proved)
      BY <2>3, <2>4, <3>1, <3>2, <3>3 DEF SessionsBehind, IInv, TypeOK
    <3>4. QED
      BY <1>1, <3>3 DEF SessionsBehind, Behind, HasRow
  <2>9. ASSUME ~raced' PROVE CallsBehind' /\ LoginsRead'
    BY <1>1, <2>5, <2>9, IdleSane DEF IInv, CallsBehind, LoginsRead, Behind, HasRow
  <2>10. QED
    BY <2>6, <2>7, <2>8, <2>9 DEF IInv
<1>4. QED
  BY <1>2, <1>3 DEF CreateSession, Opens

LEMMA CheckSteps ==
  ASSUME IInv, NEW c \in Calls,
         (\E s \in Sessions : CheckBegins(c, s)) \/ CheckAccepts(c) \/ CheckRefuses(c) \/ CallFails(c)
  PROVE  IInv'
<1>0. authRequests \subseteq AuthRequests /\ raced \in BOOLEAN /\ session \in [Sessions -> SessionRow \cup {None}]
  BY DEF IInv, TypeOK
<1>1. ASSUME NEW s \in Sessions, CheckBegins(c, s) PROVE IInv'
  <2>1. UNCHANGED <<account, created, issued, authRequests, raced>> /\ session[s] # None
    BY <1>1 DEF CheckBegins
  <2>2. CASE session' = [session EXCEPT ![s] = None] /\ UNCHANGED call
    <3>1. Thins
      BY <1>0, <2>2 DEF Thins
    <3>2. QED
      BY <1>0, <2>1, <2>2, <3>1, CallStep DEF IInv, TypeOK
  <2>3. CASE /\ call' = [call EXCEPT ![c] = [Idle EXCEPT !.at = "checkUser", !.sid = s, !.session = session[s]]]
             /\ UNCHANGED session
    <3> DEFINE r == [Idle EXCEPT !.at = "checkUser", !.sid = s, !.session = session[s]]
    <3>1. r \in CallRecord /\ r.seen = None /\ Sane(r) /\ r.at = "checkUser"
      BY <1>0 DEF Idle, CallRecord, Sources, Sane
    <3>2. call' = [call EXCEPT ![c] = r]
      BY <2>3
    <3> HIDE DEF r
    <3>3. Correct(r)
      BY <3>1 DEF Correct
    <3>4. QED
      BY <1>0, <2>1, <2>3, <3>1, <3>2, <3>3, CallOnly DEF table
  <2>4. QED
    BY <1>1, <2>2, <2>3 DEF CheckBegins, Starts
<1>2. CASE CheckAccepts(c) \/ CallFails(c)
  BY <1>0, <1>2, CallOnly, IdleSane, IdleCorrect DEF CheckAccepts, CallFails, Ends, Goes
<1>3. CASE CheckRefuses(c)
  <2>1. Thins
    BY <1>0, <1>3 DEF CheckRefuses, Thins
  <2>2. QED
    BY <1>0, <1>3, <2>1, Going, IdleSane, IdleCorrect DEF CheckRefuses, Ends
<1>4. QED
  BY <1>1, <1>2, <1>3

LEMMA SessionSteps ==
  ASSUME IInv,
         \/ \E s \in Sessions : Logout(s) \/ Expires(s)
         \/ \E q \in AuthRequests : BeginOidcLogin(q)
         \/ RunMaintenance
         \/ UNCHANGED vars
  PROVE  IInv'
<1>0. /\ authRequests \subseteq AuthRequests /\ raced \in BOOLEAN
      /\ session \in [Sessions -> SessionRow \cup {None}] /\ call \in [Calls -> CallRecord]
  BY DEF IInv, TypeOK
<1>1. UNCHANGED <<account, created, issued, raced, call>>
  BY DEF Logout, Expires, BeginOidcLogin, RunMaintenance, vars, table
<1>2. authRequests' \subseteq AuthRequests
  BY <1>0 DEF Logout, Expires, BeginOidcLogin, RunMaintenance, vars
<1>3. Thins
  <2>1. ASSUME NEW s \in Sessions, Logout(s) PROVE Thins
    BY <1>0, <2>1 DEF Logout, Thins
  <2>2. ASSUME NEW s \in Sessions, Expires(s) PROVE Thins
    <3> DEFINE row == [session[s] EXCEPT !.expired = TRUE]
    <3>1. session[s] \in SessionRow
      BY <1>0, <2>2 DEF Expires
    <3>2. /\ row \in SessionRow /\ row.user = session[s].user /\ row.version = session[s].version
          /\ row.proved = session[s].proved
      BY <3>1 DEF SessionRow
    <3>3. session' = [session EXCEPT ![s] = row] /\ session[s] # None
      BY <2>2 DEF Expires
    <3> HIDE DEF row
    <3>4. QED
      BY <1>0, <3>2, <3>3 DEF Thins
  <2>3. CASE RunMaintenance
    BY <1>0, <2>3 DEF RunMaintenance, Thins
  <2>4. CASE UNCHANGED session
    BY <2>4, SameSessions
  <2>5. QED
    BY <2>1, <2>2, <2>3, <2>4 DEF BeginOidcLogin, vars, table
<1>4. QED
  BY <1>0, <1>1, <1>2, <1>3, CallStep

LEMMA DeleteStep == ASSUME IInv, DeleteUser PROVE IInv'
<1>1. account' = None /\ Thins /\ UNCHANGED <<created, issued, authRequests, call, raced>>
  BY DEF DeleteUser, Without, Thins, IInv, TypeOK
<1>2. TypeOK'
  BY <1>1 DEF IInv, TypeOK, Thins
<1>3. Rows'
  BY <1>1 DEF IInv, Rows, Thins
<1>4. SessionsBehind' /\ CallsBehind'
  BY <1>1 DEF SessionsBehind, CallsBehind, Behind, HasRow
<1>5. ~raced' => LoginsRead'
  BY <1>1 DEF IInv, LoginsRead
<1>6. QED
  BY <1>2, <1>3, <1>4, <1>5 DEF IInv

LEMMA RestartStep == ASSUME IInv, Restart PROVE IInv'
<1>0. /\ \A c \in Calls : call'[c] = Idle
      /\ call' \in [Calls -> CallRecord] /\ UNCHANGED <<session, issued, authRequests, raced>>
  BY IdleSane DEF Restart
<1>1. ASSUME account = None, NEW id \in Ids \ created, NEW p \in Passwords,
             account' = Row(id, "local", None, p, TRUE), created' = created \cup {id}
      PROVE  IInv'
  <2> DEFINE row == Row(id, "local", None, p, TRUE)
  <2>1. row \in AccountRow /\ row.id = id /\ Shaped(row) /\ account' = row
    BY <1>1 DEF Row, AccountRow, Sources, Shaped
  <2> HIDE DEF row
  <2>2. QED
    BY <1>0, <1>1, <2>1, NewAccount
<1>2. CASE account # None /\ account' = [account EXCEPT !.protected = TRUE] /\ UNCHANGED created
  <2>1. account \in AccountRow /\ Shaped(account)
    BY <1>2, ReadIsBehind
  <2>2. /\ account' \in AccountRow /\ account'.id = account.id /\ account'.version = account.version
        /\ Shaped(account') /\ CredentialOf(account') = CredentialOf(account)
    BY <1>2, <2>1 DEF AccountRow, Shaped, CredentialOf
  <2>3. TypeOK'
    BY <1>0, <1>2, <2>2 DEF IInv, TypeOK
  <2>4. Rows'
    BY <1>0, <1>2, <2>2, IdleSane DEF IInv, Rows
  <2>5. \A id, version, credential :
           Behind(id, version, credential) =>
              (account'.id = id => /\ version <= account'.version
                                   /\ version = account'.version => credential = CredentialOf(account'))
    BY <1>2, <2>2 DEF Behind, HasRow
  <2>6. ~raced' => SessionsBehind'
    BY <1>0, <1>2, <2>2, <2>5 DEF IInv, SessionsBehind, Behind, HasRow, CredentialOf
  <2>7. CallsBehind' /\ LoginsRead'
    BY <1>0, IdleSane DEF CallsBehind, LoginsRead
  <2>8. QED
    BY <2>3, <2>4, <2>6, <2>7 DEF IInv
<1>3. CASE UNCHANGED <<account, created>>
  BY <1>0, <1>3, CallStep, SameSessions, IdleCorrect DEF IInv, TypeOK
<1>4. QED
  BY <1>1, <1>2, <1>3 DEF Restart

LEMMA InitInv == ASSUME Init PROVE IInv
BY IdleSane DEF Init, IInv, TypeOK, Rows, SessionsBehind, CallsBehind, LoginsRead

LEMMA StepInv == ASSUME IInv, [Next]_vars PROVE IInv'
<1>1. ASSUME NEW c \in Calls,
             CreateBegins(c) \/ UpdateBegins(c) \/ UpdateWrites(c) \/ Purges(c)
      PROVE  IInv'
  BY <1>1, AdminSteps
<1>2. ASSUME NEW c \in Calls,
             \/ LoginLocal(c) \/ CompleteOidcLogin(c) \/ SpendRequest(c) \/ Reconcile(c)
             \/ TrustedHeaders(c)
      PROVE  IInv'
  BY <1>2, LoginSteps
<1>3. ASSUME NEW c \in Calls,
             \/ (\E s \in Sessions : CheckBegins(c, s))
             \/ CheckAccepts(c) \/ CheckRefuses(c) \/ CallFails(c)
      PROVE  IInv'
  BY <1>3, CheckSteps
<1>4. ASSUME NEW c \in Calls, Inserts(c) \/ Rereads(c) \/ SyncWrites(c) \/ CreateSession(c)
      PROVE  IInv'
  BY <1>4, InsertsStep, RereadsStep, SyncStep, CreateSessionStep
<1>5. QED
  BY <1>1, <1>2, <1>3, <1>4, SessionSteps, DeleteStep, RestartStep DEF Next

-----------------------------------------------------------------------------
(* Revocation *)

\* Only createSessionForUser opens a session, under an id that was never used.
LEMMA OldSessions ==
  ASSUME IInv, [Next]_vars, NEW s \in issued, session'[s] # None
  PROVE  /\ session[s] # None
         /\ session'[s].user = session[s].user
         /\ session'[s].version = session[s].version
         /\ session[s].expired => session'[s].expired
<1>0. s \in Sessions /\ session \in [Sessions -> SessionRow \cup {None}]
  BY DEF IInv, TypeOK
<1>1. CASE session' = session
  BY <1>1
<1>2. ASSUME NEW c \in Calls, CreateSession(c) PROVE session'[s] = session[s]
  BY <1>0, <1>2 DEF CreateSession, Opens
<1>3. ASSUME NEW t \in Sessions, Expires(t) PROVE session'[s] \in {session[s], [session[s] EXCEPT !.expired = TRUE]} /\ session[s] # None
  BY <1>0, <1>3 DEF Expires
<1>4. session[s] \in SessionRow => LET row == [session[s] EXCEPT !.expired = TRUE]
        IN row.user = session[s].user /\ row.version = session[s].version /\ row.expired
  BY DEF SessionRow
<1>5. CASE \/ \E c \in Calls : Purges(c) \/ CheckRefuses(c) \/ \E t \in Sessions : CheckBegins(c, t)
           \/ \E t \in Sessions : Logout(t)
           \/ DeleteUser \/ RunMaintenance
  <2>1. session'[s] \in {session[s], None}
    BY <1>0, <1>5 DEF Purges, CheckRefuses, CheckBegins, Logout, DeleteUser, RunMaintenance, Without
  <2>2. QED
    BY <2>1
<1>6. QED
  BY <1>0, <1>1, <1>2, <1>3, <1>4, <1>5
     DEF Next, CreateBegins, Inserts, UpdateBegins, UpdateWrites, Writes, LoginLocal,
         CompleteOidcLogin, SpendRequest, Reconcile, Rereads, TrustedHeaders, SyncWrites,
         CheckAccepts, CallFails, BeginOidcLogin, Restart, vars, table

\* What can happen to the account while no write overwrites a change it has not seen.
Follows ==
    \/ account' = account
    \/ account' = None
    \/ account' # None /\ account'.id \notin created
    \/ /\ account # None /\ account' # None
       /\ account'.id = account.id
       /\ account.version <= account'.version
       /\ account'.version = account.version => account'.disabled = account.disabled

LEMMA WritesFollow ==
  ASSUME IInv, NEW c \in Calls, NEW row \in AccountRow, NEW next, Writes(c, row, next), ~raced',
         row.id = call[c].seen.id, call[c].seen.version <= row.version,
         row.version = call[c].seen.version => row.disabled = call[c].seen.disabled
  PROVE  Follows
<1>1. CASE ~HasRow(row.id)
  BY <1>1 DEF Writes, Overwrites, Follows
<1>2. CASE HasRow(row.id)
  <2>1. account # None /\ account \in AccountRow /\ account = call[c].seen
    BY <1>2 DEF Writes, HasRow, IInv, TypeOK
  <2>2. account' = [row EXCEPT !.protected = account.protected]
    BY <1>2 DEF Writes, Overwrites
  <2>3. /\ account' \in AccountRow /\ account'.id = row.id /\ account'.version = row.version
        /\ account'.disabled = row.disabled
    BY <2>1, <2>2 DEF AccountRow
  <2>4. account' # None
    BY <2>3, NoneIsNoRow
  <2>5. QED
    BY <2>1, <2>3, <2>4 DEF Follows
<1>3. QED
  BY <1>1, <1>2

LEMMA AccountFollows == ASSUME IInv, [Next]_vars, ~raced' PROVE Follows
<1>1. ASSUME NEW c \in Calls, UpdateWrites(c) PROVE Follows
  <2> DEFINE row == Updated(call[c].seen, call[c].hash, call[c].disabled)
  <2>1. /\ call[c] \in CallRecord /\ call[c].seen \in AccountRow /\ Shaped(call[c].seen)
        /\ call[c].seen.source # "local" => call[c].hash = None
    BY <1>1 DEF UpdateWrites, IInv, TypeOK, Rows, Sane, CallRecord
  <2>2. /\ row \in AccountRow /\ row.id = call[c].seen.id /\ call[c].seen.version <= row.version
        /\ row.version = call[c].seen.version => row.disabled = call[c].seen.disabled
    BY <2>1, UpdatedRow
  <2>3. Writes(c, row, "idle")
    BY <1>1 DEF UpdateWrites
  <2> HIDE DEF row
  <2>4. QED
    BY <2>2, <2>3, WritesFollow
<1>2. ASSUME NEW c \in Calls, SyncWrites(c) PROVE Follows
  <2> DEFINE row == Synced(call[c].seen, call[c].method, call[c].subject)
             next == IF call[c].method = "oidc" THEN "insert" ELSE "idle"
  <2>1. /\ call[c].seen \in AccountRow /\ call[c].method \in {"oidc", "header"}
        /\ call[c].subject \in Subjects \cup {None}
        /\ call[c].method = "oidc" <=> call[c].subject # None
    BY <1>2 DEF SyncWrites, IInv, TypeOK, Rows, Sane, CallRecord, Sources
  <2>2. /\ row \in AccountRow /\ row.id = call[c].seen.id /\ call[c].seen.version <= row.version
        /\ row.version = call[c].seen.version => row.disabled = call[c].seen.disabled
    BY <2>1, SyncedRow
  <2>3. Writes(c, row, next)
    BY <1>2 DEF SyncWrites
  <2> HIDE DEF row, next
  <2>4. QED
    BY <2>2, <2>3, WritesFollow
<1>3. ASSUME NEW id \in Ids \ created, NEW row \in AccountRow, row.id = id, account' = row PROVE Follows
  BY <1>3, NoneIsNoRow DEF Follows
<1>4. ASSUME NEW c \in Calls, Inserts(c) PROVE Follows
  <2>1. CASE account' = account
    BY <2>1 DEF Follows
  <2>2. ASSUME NEW id \in Ids \ created,
               account' = Row(id, call[c].method, call[c].subject, call[c].hash, FALSE)
        PROVE  Follows
    <3>1. Row(id, call[c].method, call[c].subject, call[c].hash, FALSE) \in AccountRow
      BY DEF Row, AccountRow, IInv, TypeOK, CallRecord
    <3>2. Row(id, call[c].method, call[c].subject, call[c].hash, FALSE).id = id
      BY DEF Row
    <3>3. QED
      BY <1>3, <2>2, <3>1, <3>2
  <2>3. QED
    BY <1>4, <2>1, <2>2 DEF Inserts
<1>5. CASE Restart
  <2>1. CASE account # None /\ account' = [account EXCEPT !.protected = TRUE]
    <3>1. account \in AccountRow /\ account.version \in Nat
      BY <2>1, ReadIsBehind DEF AccountRow
    <3>2. /\ account' \in AccountRow /\ account'.id = account.id /\ account'.version = account.version
          /\ account'.disabled = account.disabled
      BY <2>1, <3>1 DEF AccountRow
    <3>3. QED
      BY <2>1, <3>1, <3>2, NoneIsNoRow DEF Follows
  <2>2. CASE account' = account
    BY <2>2 DEF Follows
  <2>3. ASSUME NEW id \in Ids \ created, NEW p \in Passwords, account' = Row(id, "local", None, p, TRUE)
        PROVE  Follows
    <3>1. Row(id, "local", None, p, TRUE) \in AccountRow /\ Row(id, "local", None, p, TRUE).id = id
      BY DEF Row, AccountRow, Sources
    <3>2. QED
      BY <1>3, <2>3, <3>1
  <2>4. QED
    BY <1>5, <2>1, <2>2, <2>3 DEF Restart
<1>6. CASE account' \in {account, None}
  <2>1. CASE account' = account
    BY <2>1 DEF Follows
  <2>2. CASE account' = None
    BY ONLY <2>2, Zenon DEF Follows
  <2>3. QED
    BY <1>6, <2>1, <2>2
<1>7. QED
  BY <1>1, <1>2, <1>4, <1>5, <1>6
     DEF Next, CreateBegins, UpdateBegins, Purges, LoginLocal, CreateSession, Opens,
         CompleteOidcLogin, SpendRequest, Reconcile, Rereads, TrustedHeaders, CheckBegins,
         CheckAccepts, CheckRefuses, CallFails, Logout, Expires, BeginOidcLogin, DeleteUser,
         RunMaintenance, vars, table

LEMMA RacedStays == ASSUME IInv, [Next]_vars, ~raced' PROVE ~raced
BY DEF Next, CreateBegins, Inserts, UpdateBegins, UpdateWrites, Writes, Purges, LoginLocal,
       CreateSession, Opens, CompleteOidcLogin, SpendRequest, Reconcile, Rereads,
       TrustedHeaders, SyncWrites, CheckBegins, CheckAccepts, CheckRefuses, CallFails,
       Logout, Expires, BeginOidcLogin, DeleteUser, RunMaintenance, Restart, vars

LEMMA NotAcceptedAgain ==
  ASSUME IInv, [Next]_vars, ~raced', NEW s \in issued, Acceptable(s)' PROVE Acceptable(s)
<1>1. /\ session'[s] # None /\ ~session'[s].expired /\ account' # None
      /\ account'.id = session'[s].user /\ ~account'.disabled
      /\ account'.version = session'[s].version
  BY DEF Acceptable, Fits
<1>2. /\ session[s] # None /\ session'[s].user = session[s].user
      /\ session'[s].version = session[s].version /\ ~session[s].expired
  BY <1>1, OldSessions
<1>3. s \in Sessions /\ session[s].user \in created /\ session[s].version \in Nat
  BY <1>2 DEF IInv, TypeOK, Rows, SessionRow
<1>4. CASE account' = account
  BY <1>1, <1>2, <1>4 DEF Acceptable, Fits
<1>5. CASE /\ account # None
           /\ account'.id = account.id
           /\ account.version <= account'.version
           /\ account'.version = account.version => account'.disabled = account.disabled
  <2>1. ~raced
    BY RacedStays
  <2>2. Behind(session[s].user, session[s].version, session[s].proved)
    BY <1>2, <1>3, <2>1 DEF IInv, SessionsBehind
  <2>3. account.version \in Nat /\ session[s].version <= account.version
    BY <1>1, <1>2, <1>5, <2>2 DEF Behind, HasRow, IInv, TypeOK, AccountRow
  <2>4. account.version = session[s].version
    BY <1>1, <1>2, <1>3, <1>5, <2>3
  <2>5. QED
    BY <1>1, <1>2, <1>5, <2>4 DEF Acceptable, Fits
<1>6. QED
  BY <1>1, <1>2, <1>3, <1>4, <1>5, AccountFollows DEF Follows

-----------------------------------------------------------------------------
(* The theorems *)

\* What the theorems below rest on: the inductive invariant.
THEOREM Inductive == Spec => []IInv
<1>1. Init => IInv
  BY InitInv
<1>2. IInv /\ [Next]_vars => IInv'
  BY StepInv
<1>3. QED
  BY <1>1, <1>2, PTL DEF Spec

\* Every variable keeps its type.
THEOREM TypeCorrect == Spec => []TypeOK
<1>1. IInv => TypeOK
  BY DEF IInv
<1>2. QED
  BY <1>1, Inductive, PTL

\* A session that getUserFromCookie accepts was opened by proving the credential that
\* the account has now, as long as no write overwrote a change it had not seen.
THEOREM AcceptedSessionsProve == Spec => []SessionsProveCredential
<1>1. ASSUME IInv, ~raced, NEW s \in Sessions, Acceptable(s)
      PROVE  session[s].proved = CredentialOf(account)
  BY <1>1 DEF Acceptable, Fits, IInv, SessionsBehind, Behind, HasRow
<1>2. IInv => SessionsProveCredential
  BY <1>1 DEF SessionsProveCredential
<1>3. QED
  BY <1>2, Inductive, PTL

\* A session that is refused once stays refused: by a password reset, by disabling the
\* account, even if it is enabled again, or deleted and created anew.
THEOREM RevocationIsFinal == Spec => RevokedStaysRevoked
<1>1. IInv /\ [Next]_vars => [~raced' => \A s \in issued : ~Acceptable(s) => ~Acceptable(s)']_vars
  BY NotAcceptedAgain
<1>2. QED
  BY <1>1, Inductive, PTL DEF Spec, RevokedStaysRevoked
=============================================================================
