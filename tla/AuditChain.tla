----------------------------- MODULE AuditChain -----------------------------
(***************************************************************************)
(* The audit log: AuditService (audit/service.ts) over the table audit_log *)
(* (db/index.ts).  Entries form a chain: each holds the hash of the one    *)
(* before it.  The process appends one entry at a time, may crash at any   *)
(* point, and rebuilds the chain when it starts.                           *)
(*                                                                         *)
(* The hash of an entry is modelled by all that it depends on: the entries *)
(* up to it.  What an entry says is its id, and whether it has been changed *)
(* since it was written.  Left out: a second process on the same database. *)
(***************************************************************************)
EXTENDS Integers, Sequences, FiniteSets

CONSTANTS
    Entries,    \* ids of entries; they are random, and compared as numbers
    Calls,      \* slots for calls of record
    MaxTime,    \* bound on the clock
    None

ASSUME AuditAssumption ==
    /\ Entries \subseteq Nat /\ IsFiniteSet(Entries)
    /\ MaxTime \in Nat
    /\ None \notin Nat

VARIABLES
    row,        \* audit_log
    clock,
    call,       \* the writes in progress
    rebuilt,    \* while the process starts: how many rows it has rebuilt, and
                \* the hash of the last; None when it serves
    appended,   \* history: the entries, in the order of their insertion
    altered,    \* history: a row was changed or removed behind the process's
                \* back since it started to serve
    disordered  \* history: an entry was inserted that does not come last by its
                \* time and id

vars == <<row, clock, call, rebuilt, appended, altered, disordered>>

-----------------------------------------------------------------------------
(* Types *)

Hashes == Seq(Entries \X BOOLEAN)
AuditRow == [seq : Nat, time : Nat, genuine : BOOLEAN, previous : Hashes, hash : Hashes]
Write == [entry : Entries, time : Nat, seq : Nat, previous : Hashes]
\* What a start has rebuilt so far.
Rebuilding == [count : Nat, hash : Hashes]

\* None is no record: no row, no write, no rebuilding.
ASSUME RecordsAssumption == None \notin AuditRow \cup Write \cup Rebuilding

Stored == {e \in Entries : row[e] # None}

TypeOK ==
    /\ \A e \in Entries : row[e] # None => row[e] \in AuditRow
    /\ clock \in 0..MaxTime
    /\ \A c \in Calls : call[c] # None => call[c] \in Write
    /\ rebuilt # None => rebuilt.count <= Cardinality(Stored)
    /\ \A e \in Stored : \E i \in DOMAIN appended : appended[i] = e
    /\ <<altered, disordered>> \in BOOLEAN \X BOOLEAN

Init ==
    /\ row = [e \in Entries |-> None]
    /\ clock = 0
    /\ call = [c \in Calls |-> None]
    /\ rebuilt = [count |-> 0, hash |-> <<>>]
    /\ appended = <<>>
    /\ altered = FALSE
    /\ disordered = FALSE

-----------------------------------------------------------------------------
(* Hashes and orders *)

\* Mutant: the hash leaves out what the entry says.
HashOfLink(e, genuine, previous) == Append(previous, <<e, TRUE>>)

\* computeAuditEntryHash.
HashOf(e, genuine, previous) == Append(previous, <<e, genuine>>)

\* ORDER BY timestamp, id: of the rebuilding.
TimeOrder(s, e, t, f) == s < t \/ (s = t /\ e < f)
ByTime(e, f) == TimeOrder(row[e].time, e, row[f].time, f)

\* ORDER BY sequence_number, timestamp, id: of everything else.
BySequence(e, f) == row[e].seq < row[f].seq \/ (row[e].seq = row[f].seq /\ ByTime(e, f))

Preceding(e, Before(_, _)) == {f \in Stored : Before(f, e)}

\* The latest entry, at the bottom of an order.
IsLast(e, Before(_, _)) == e \in Stored /\ Preceding(e, Before) = Stored \ {e}

\* verifyAuditIntegrity: each row has its place, the hash of the row before it and
\* its own.
Verified ==
    \A e \in Stored :
        LET before == Preceding(e, BySequence)
            prior == {f \in before : \A g \in before : f = g \/ BySequence(g, f)}
        IN  /\ row[e].seq = Cardinality(before)
            /\ row[e].previous = IF before = {} THEN <<>>
                                 ELSE row[CHOOSE f \in prior : TRUE].hash
            /\ row[e].hash = HashOf(e, row[e].genuine, row[e].previous)

-----------------------------------------------------------------------------
(* Appending *)

\* runWrite chooses an id and takes the time; appendAudit reads the latest entry.
Reads(c) ==
    /\ \E e \in Entries :
          /\ e \notin {appended[i] : i \in DOMAIN appended}
          /\ \A d \in Calls : call[d] # None => call[d].entry # e
          /\ LET last == {f \in Stored : IsLast(f, BySequence)}
             IN  call' = [call EXCEPT ![c] =
                    IF last = {} THEN [entry |-> e, time |-> clock, seq |-> 0, previous |-> <<>>]
                    ELSE LET f == CHOOSE f \in last : TRUE
                         IN  [entry |-> e, time |-> clock,
                              seq |-> row[f].seq + 1, previous |-> row[f].hash]]
    /\ UNCHANGED <<row, clock, rebuilt, appended, altered, disordered>>

\* Mutant: calls do not wait for each other.
RecordAtOnce(c) ==
    /\ rebuilt = None
    /\ call[c] = None
    /\ Reads(c)

\* record: the write queue runs one write at a time.
Record(c) ==
    /\ rebuilt = None
    /\ \A d \in Calls : call[d] = None
    /\ Reads(c)

\* appendAudit inserts the row.
Inserts(c) ==
    /\ call[c] # None
    /\ LET w == call[c]
       IN  /\ row' = [row EXCEPT ![w.entry] =
                 [seq |-> w.seq, time |-> w.time, genuine |-> TRUE, previous |-> w.previous,
                  hash |-> HashOf(w.entry, TRUE, w.previous)]]
           /\ appended' = Append(appended, w.entry)
           /\ disordered' = (disordered \/ \E e \in Stored : ~TimeOrder(row[e].time, e, w.time, w.entry))
    /\ call' = [call EXCEPT ![c] = None]
    /\ UNCHANGED <<clock, rebuilt, altered>>

\* A statement fails; the caller gets the error, and the queue goes on.
WriteFails(c) ==
    /\ call[c] # None
    /\ call' = [call EXCEPT ![c] = None]
    /\ UNCHANGED <<row, clock, rebuilt, appended, altered, disordered>>

-----------------------------------------------------------------------------
(* Starting *)

\* The process ends, with what it was about to write, and starts again.
Restarts ==
    /\ call' = [c \in Calls |-> None]
    /\ rebuilt' = [count |-> 0, hash |-> <<>>]
    /\ UNCHANGED <<row, clock, appended, altered, disordered>>

\* A row gets its place and its hashes.
Rebuilt(e) ==
    LET hash == HashOf(e, row[e].genuine, rebuilt.hash)
    IN  /\ row' = [row EXCEPT ![e].seq = rebuilt.count,
                              ![e].previous = rebuilt.hash, ![e].hash = hash]
        /\ rebuilt' = [count |-> rebuilt.count + 1, hash |-> hash]
        /\ UNCHANGED <<clock, call, appended, altered, disordered>>

\* Mutants: the rows are rebuilt in the order of their ids, or the loop does not
\* move on.
RebuildsById ==
    /\ rebuilt # None
    /\ \E e \in Stored : Cardinality({f \in Stored : f < e}) = rebuilt.count /\ Rebuilt(e)
RebuildsFirst ==
    /\ rebuilt # None /\ rebuilt.count < MaxTime
    /\ \E e \in Stored : Preceding(e, ByTime) = {} /\ Rebuilt(e)

\* backfillAuditLogChain: the next row, by time.
Rebuilds ==
    /\ rebuilt # None
    /\ \E e \in Stored : Cardinality(Preceding(e, ByTime)) = rebuilt.count /\ Rebuilt(e)

\* All rows are rebuilt, those that were altered as well: the process serves.
Serves ==
    /\ rebuilt # None
    /\ rebuilt.count = Cardinality(Stored)
    /\ rebuilt' = None
    /\ altered' = FALSE
    /\ UNCHANGED <<row, clock, call, appended, disordered>>

-----------------------------------------------------------------------------
(* The world *)

\* The system clock goes on, stands still or is set back.
ClockMoves ==
    /\ clock' \in 0..MaxTime
    /\ UNCHANGED <<row, call, rebuilt, appended, altered, disordered>>

\* Somebody changes what an entry says, or removes one that is not the latest.
Alters(e) ==
    /\ rebuilt = None
    /\ e \in Stored
    /\ \/ row[e].genuine /\ row' = [row EXCEPT ![e].genuine = FALSE]
       \/ ~IsLast(e, BySequence) /\ row' = [row EXCEPT ![e] = None]
    /\ altered' = TRUE
    /\ UNCHANGED <<clock, call, rebuilt, appended, disordered>>

-----------------------------------------------------------------------------

Next ==
    \/ \E c \in Calls : Record(c) \/ Inserts(c) \/ WriteFails(c)
    \/ Restarts \/ Rebuilds \/ Serves
    \/ ClockMoves
    \/ \E e \in Entries : Alters(e)

Spec == Init /\ [][Next]_vars

-----------------------------------------------------------------------------
(* Properties *)

\* While the process serves, the verification of the chain tells exactly whether
\* an entry was changed or removed since it started: concurrent calls, crashes
\* during a write or during the rebuilding never break the chain by themselves,
\* and no later entry covers a change up.
VerificationTells == rebuilt = None => (Verified <=> ~altered)

Position(e) == CHOOSE i \in DOMAIN appended : appended[i] = e

\* The log keeps the entries in the order in which they were appended, through
\* any number of restarts, unless the clock was set back or two entries share a
\* timestamp (then the rebuilding reorders them).
AppendOrder ==
    rebuilt = None /\ ~altered /\ ~disordered =>
        \A e, f \in Stored : BySequence(e, f) => Position(e) < Position(f)
=============================================================================
