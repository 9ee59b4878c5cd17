-------------------------- MODULE AuditChainProofs --------------------------
(* Invariance proofs for AuditChain, for every value of its constants. *)
EXTENDS AuditChain, FiniteSetTheorems, SequenceTheorems, TLAPS

-----------------------------------------------------------------------------
(* The table R, before a step or after it *)

Rows == [Entries -> AuditRow \cup {None}]
StoredIn(R) == {e \in Entries : R[e] # None}
Sooner(R, f, e) == TimeOrder(R[f].time, f, R[e].time, e)
Earlier(R, e) == {f \in StoredIn(R) : Sooner(R, f, e)}
Rank(R, e) == Cardinality(Earlier(R, e))
Lower(R, f, e) == R[f].seq < R[e].seq \/ (R[f].seq = R[e].seq /\ Sooner(R, f, e))
Below(R, e) == {f \in StoredIn(R) : Lower(R, f, e)}
Latest(R, e) == e \in StoredIn(R) /\ Below(R, e) = StoredIn(R) \ {e}
Nearest(R, e) == {f \in Below(R, e) : \A g \in Below(R, e) : f = g \/ Lower(R, g, f)}
Hashed(R, e) == R[e].hash = HashOf(e, R[e].genuine, R[e].previous)
Linked(R, e) ==
    R[e].previous = IF Below(R, e) = {} THEN <<>> ELSE R[CHOOSE f \in Nearest(R, e) : TRUE].hash
Chained(R, e) == R[e].seq = Cardinality(Below(R, e)) /\ Linked(R, e) /\ Hashed(R, e)
Fits(R, e) == Chained(R, e) /\ (Below(R, e) # {} => Nearest(R, e) # {})

-----------------------------------------------------------------------------
(* The inductive invariant *)

Typed ==
    /\ row \in Rows
    /\ clock \in 0..MaxTime
    /\ call \in [Calls -> Write \cup {None}]
    /\ rebuilt \in Rebuilding \cup {None}
    /\ appended \in Seq(Entries)
    /\ altered \in BOOLEAN /\ disordered \in BOOLEAN

\* One write at a time, of an entry that is new, and none while the process starts.
Queued ==
    /\ \A c, d \in Calls : call[c] # None /\ call[d] # None => c = d
    /\ rebuilt # None => \A c \in Calls : call[c] = None
    /\ \A c \in Calls : call[c] # None =>
          \A i \in DOMAIN appended : appended[i] # call[c].entry

\* What is stored was appended, once.
Logged ==
    /\ \A i, j \in DOMAIN appended : appended[i] = appended[j] => i = j
    /\ \A e \in StoredIn(row) : \E i \in DOMAIN appended : appended[i] = e

\* As long as every entry came last by its time, the order by time is that of the
\* appending, and the one by number while the process serves.
Ordered ==
    ~disordered =>
        /\ \A i, j \in DOMAIN appended :
              i < j /\ {appended[i], appended[j]} \subseteq StoredIn(row) =>
                  Sooner(row, appended[i], appended[j])
        /\ rebuilt = None =>
              \A e, f \in StoredIn(row) : Lower(row, e, f) => Sooner(row, e, f)

\* The rows of the first count ranks have been rebuilt: each has its rank for a number,
\* its own hash, and that of the row of the rank before it.
InPlace(R, e) ==
    /\ R[e].seq = Rank(R, e)
    /\ Hashed(R, e)
    /\ Rank(R, e) = 0 => R[e].previous = <<>>
    /\ \A f \in StoredIn(R) : Rank(R, e) = Rank(R, f) + 1 => R[e].previous = R[f].hash
UpTo(R, p) ==
    /\ p.count <= Cardinality(StoredIn(R))
    /\ \A e \in StoredIn(R) : Rank(R, e) < p.count => InPlace(R, e)
    /\ \A k \in 0..(p.count - 1) : \E e \in StoredIn(R) : Rank(R, e) = k
    /\ p.count = 0 => p.hash = <<>>
    /\ \A e \in StoredIn(R) : Rank(R, e) + 1 = p.count => p.hash = R[e].hash

\* While the process serves, the log is empty or has a latest row, whose number is not
\* below the number of rows before it; a row that still says what was written has the
\* hash of that; and the write in progress will continue the latest row.  A change
\* leaves a wrong hash behind, or a number that is too high from then on.
Forged(R) == \E e \in StoredIn(R) : ~R[e].genuine /\ R[e].hash = HashOf(e, TRUE, R[e].previous)
Headed(R, changed) ==
    /\ StoredIn(R) = {} => ~changed
    /\ StoredIn(R) # {} => \E e \in StoredIn(R) :
          /\ Latest(R, e)
          /\ R[e].seq + 1 >= Cardinality(StoredIn(R))
          /\ changed => Forged(R) \/ R[e].seq >= Cardinality(StoredIn(R))
    /\ \A e \in StoredIn(R) : R[e].genuine => R[e].hash = HashOf(e, TRUE, R[e].previous)
Continues(R, w) ==
    /\ StoredIn(R) = {} => w.seq = 0 /\ w.previous = <<>>
    /\ \A e \in StoredIn(R) : Latest(R, e) => w.seq = R[e].seq + 1 /\ w.previous = R[e].hash
Serving(R) ==
    /\ Headed(R, altered)
    /\ ~altered => \A e \in StoredIn(R) : Fits(R, e)

IInv ==
    /\ Typed /\ Queued /\ Logged /\ Ordered
    /\ rebuilt # None => UpTo(row, rebuilt)
    /\ rebuilt = None => Serving(row) /\ \A c \in Calls : call[c] # None => Continues(row, call[c])

-----------------------------------------------------------------------------
(* Orders *)

LEMMA StoredRows ==
  ASSUME NEW R \in Rows
  PROVE  /\ StoredIn(R) \subseteq Entries /\ IsFiniteSet(StoredIn(R))
         /\ Cardinality(StoredIn(R)) \in Nat
         /\ \A e \in StoredIn(R) :
               /\ e \in Nat /\ R[e] \in AuditRow
               /\ R[e].time \in Nat /\ R[e].seq \in Nat /\ R[e].genuine \in BOOLEAN
               /\ R[e].previous \in Hashes /\ R[e].hash \in Hashes
         /\ \A e : /\ Earlier(R, e) \in SUBSET StoredIn(R) /\ IsFiniteSet(Earlier(R, e))
                   /\ Below(R, e) \in SUBSET StoredIn(R) /\ IsFiniteSet(Below(R, e))
                   /\ Rank(R, e) \in Nat /\ Cardinality(Below(R, e)) \in Nat
<1>1. StoredIn(R) \in SUBSET Entries /\ IsFiniteSet(Entries) /\ Entries \subseteq Nat
  BY AuditAssumption DEF StoredIn
<1>2. IsFiniteSet(StoredIn(R))
  BY <1>1, FS_Subset
<1>3. \A T \in SUBSET StoredIn(R) : IsFiniteSet(T) /\ Cardinality(T) \in Nat
  BY <1>2, FS_Subset, FS_CardinalityType
<1>4. \A e : Earlier(R, e) \in SUBSET StoredIn(R) /\ Below(R, e) \in SUBSET StoredIn(R)
  BY DEF Earlier, Below
<1>5. \A e \in StoredIn(R) : R[e] \in AuditRow
  BY DEF StoredIn, Rows
<1>6. QED
  BY <1>1, <1>2, <1>3, <1>4, <1>5 DEF AuditRow, Rank

LEMMA SoonerIsOrder ==
  ASSUME NEW R \in Rows, NEW e \in StoredIn(R), NEW f \in StoredIn(R), NEW g \in StoredIn(R)
  PROVE  /\ ~Sooner(R, e, e)
         /\ Sooner(R, e, f) => ~Sooner(R, f, e)
         /\ e = f \/ Sooner(R, e, f) \/ Sooner(R, f, e)
         /\ Sooner(R, e, f) /\ Sooner(R, f, g) => Sooner(R, e, g)
<1>1. \A h \in {e, f, g} : h \in Nat /\ R[h].time \in Nat
  BY StoredRows
<1>2. QED
  BY <1>1 DEF Sooner, TimeOrder

LEMMA LowerIsOrder ==
  ASSUME NEW R \in Rows, NEW e \in StoredIn(R), NEW f \in StoredIn(R), NEW g \in StoredIn(R)
  PROVE  /\ ~Lower(R, e, e)
         /\ Lower(R, e, f) => ~Lower(R, f, e)
         /\ e = f \/ Lower(R, e, f) \/ Lower(R, f, e)
         /\ Lower(R, e, f) /\ Lower(R, f, g) => Lower(R, e, g)
<1>1. \A h \in {e, f, g} : h \in Nat /\ R[h].time \in Nat /\ R[h].seq \in Nat
  BY StoredRows
<1>2. QED
  BY <1>1 DEF Lower, Sooner, TimeOrder

\* A rank is the number of rows before it by time, and no two rows share one.
LEMMA RankOrders ==
  ASSUME NEW R \in Rows, NEW e \in StoredIn(R), NEW f \in StoredIn(R)
  PROVE  /\ Sooner(R, e, f) <=> Rank(R, e) < Rank(R, f)
         /\ Rank(R, e) = Rank(R, f) => e = f
         /\ Rank(R, e) < Cardinality(StoredIn(R))
<1>1. ASSUME NEW g \in StoredIn(R), NEW h \in StoredIn(R), Sooner(R, g, h)
      PROVE  Rank(R, g) < Rank(R, h)
  <2>1. Earlier(R, g) \in SUBSET Earlier(R, h)
    BY <1>1, SoonerIsOrder DEF Earlier
  <2>2. g \in Earlier(R, h) /\ g \notin Earlier(R, g)
    BY <1>1, SoonerIsOrder DEF Earlier
  <2>3. /\ Cardinality(Earlier(R, g)) <= Cardinality(Earlier(R, h))
        /\ Cardinality(Earlier(R, h)) = Cardinality(Earlier(R, g)) => Earlier(R, h) = Earlier(R, g)
    BY <2>1, StoredRows, FS_Subset
  <2>4. QED
    BY <2>2, <2>3, StoredRows DEF Rank
<1>2. e = f \/ Sooner(R, e, f) \/ Sooner(R, f, e)
  BY SoonerIsOrder
<1>3. ~Sooner(R, e, e) /\ Rank(R, e) \in Nat /\ Rank(R, f) \in Nat
  BY SoonerIsOrder, StoredRows
<1>4. Rank(R, e) < Cardinality(StoredIn(R))
  <2>1. Earlier(R, e) \in SUBSET StoredIn(R) /\ e \notin Earlier(R, e)
    BY <1>3 DEF Earlier
  <2>2. /\ Cardinality(Earlier(R, e)) <= Cardinality(StoredIn(R))
        /\ Cardinality(StoredIn(R)) = Cardinality(Earlier(R, e)) => StoredIn(R) = Earlier(R, e)
    BY <2>1, StoredRows, FS_Subset
  <2>3. QED
    BY <2>1, <2>2, StoredRows DEF Rank
<1>5. QED
  BY <1>1, <1>2, <1>3, <1>4

LEMMA OneIsLatest ==
  ASSUME NEW R \in Rows, NEW e, NEW f, Latest(R, e), Latest(R, f)
  PROVE  e = f
<1>1. e \in StoredIn(R) /\ f \in StoredIn(R)
  BY DEF Latest
<1>2. e # f => Lower(R, f, e) /\ Lower(R, e, f)
  BY <1>1 DEF Latest, Below
<1>3. QED
  BY <1>1, <1>2, LowerIsOrder

\* Rows that keep their times keep their ranks.
LEMMA SameTimes ==
  ASSUME NEW R \in Rows, NEW S \in Rows, StoredIn(R) = StoredIn(S),
         \A e \in StoredIn(R) : S[e].time = R[e].time
  PROVE  \A e \in StoredIn(R) :
             /\ Earlier(S, e) = Earlier(R, e) /\ Rank(S, e) = Rank(R, e)
             /\ \A f \in StoredIn(R) : Sooner(S, f, e) <=> Sooner(R, f, e)
<1>1. \A e, f \in StoredIn(R) : Sooner(S, f, e) <=> Sooner(R, f, e)
  BY DEF Sooner
<1>2. \A e \in StoredIn(R) : Earlier(S, e) = Earlier(R, e)
  BY <1>1 DEF Earlier
<1>3. QED
  BY <1>1, <1>2 DEF Rank

\* The operators of AuditChain, in these terms.
LEMMA Terms ==
  /\ Stored = StoredIn(row)
  /\ \A e : Preceding(e, ByTime) = Earlier(row, e)
  /\ \A e : Preceding(e, BySequence) = Below(row, e)
  /\ \A e, f : BySequence(e, f) <=> Lower(row, e, f)
  /\ \A e : IsLast(e, BySequence) <=> Latest(row, e)
  /\ Verified <=> \A e \in StoredIn(row) : Chained(row, e)
<1>1. Stored = StoredIn(row)
  BY DEF Stored, StoredIn
<1>2. \A e, f : (ByTime(e, f) <=> Sooner(row, e, f)) /\ (BySequence(e, f) <=> Lower(row, e, f))
  BY DEF ByTime, BySequence, Sooner, Lower
<1>3. \A e : Preceding(e, ByTime) = Earlier(row, e)
  BY <1>1, <1>2 DEF Preceding, Earlier
<1>4. \A e : Preceding(e, BySequence) = Below(row, e)
  BY <1>1, <1>2 DEF Preceding, Below
<1>5. \A e : IsLast(e, BySequence) <=> Latest(row, e)
  BY <1>1, <1>4 DEF IsLast, Latest
<1>6. Verified <=> \A e \in StoredIn(row) : Chained(row, e)
  BY Zenon DEF Verified, Preceding, BySequence, ByTime, Stored,
               Chained, Linked, Hashed, Nearest, Below, Lower, Sooner, StoredIn
<1>7. QED
  BY <1>1, <1>2, <1>3, <1>4, <1>5, <1>6

-----------------------------------------------------------------------------
(* A row is inserted *)

\* A row that continues the latest becomes the latest, and nothing below the others
\* changes.
LEMMA RowIsAppended ==
  ASSUME NEW R \in Rows, NEW S \in Rows, NEW e \in Entries, R[e] = None, S[e] # None,
         \A f \in Entries : f # e => S[f] = R[f],
         StoredIn(R) # {} => \E f \in StoredIn(R) : Latest(R, f) /\ S[e].seq = R[f].seq + 1
  PROVE  /\ StoredIn(S) = StoredIn(R) \cup {e} /\ e \notin StoredIn(R)
         /\ Cardinality(StoredIn(S)) = Cardinality(StoredIn(R)) + 1
         /\ \A f \in StoredIn(R) : S[f] = R[f] /\ Lower(S, f, e) /\ ~Lower(S, e, f)
         /\ \A f, g \in StoredIn(R) : /\ Lower(S, f, g) <=> Lower(R, f, g)
                                      /\ Sooner(S, f, g) <=> Sooner(R, f, g)
         /\ \A f \in StoredIn(R) : Below(S, f) = Below(R, f) /\ Nearest(S, f) = Nearest(R, f)
         /\ Below(S, e) = StoredIn(R) /\ Latest(S, e)
<1>1. StoredIn(S) = StoredIn(R) \cup {e} /\ e \notin StoredIn(R)
  BY DEF StoredIn
<1>2. Cardinality(StoredIn(S)) = Cardinality(StoredIn(R)) + 1
  <2>1. IsFiniteSet(StoredIn(R))
    BY StoredRows
  <2>2. QED
    BY <1>1, <2>1, FS_AddElement
<1>3. \A f \in StoredIn(R) : S[f] = R[f]
  BY <1>1 DEF StoredIn
<1>4. ASSUME NEW f \in StoredIn(R) PROVE Lower(S, f, e)
  <2>1. PICK g \in StoredIn(R) : Latest(R, g) /\ S[e].seq = R[g].seq + 1
    OBVIOUS
  <2>2. f = g \/ Lower(R, f, g)
    BY <2>1 DEF Latest, Below
  <2>3. R[f].seq \in Nat /\ R[g].seq \in Nat
    BY StoredRows
  <2>4. R[f].seq <= R[g].seq
    BY <2>2, <2>3 DEF Lower
  <2>5. QED
    BY <1>3, <2>1, <2>3, <2>4 DEF Lower
<1>5. \A f \in StoredIn(R) : ~Lower(S, e, f)
  BY <1>1, <1>4, LowerIsOrder
<1>6. \A f, g \in StoredIn(R) : (Lower(S, f, g) <=> Lower(R, f, g)) /\ (Sooner(S, f, g) <=> Sooner(R, f, g))
  BY <1>3 DEF Lower, Sooner
<1>7. \A f \in StoredIn(R) : Below(S, f) = Below(R, f)
  BY <1>1, <1>5, <1>6 DEF Below
<1>8. \A f \in StoredIn(R) : Nearest(S, f) = Nearest(R, f)
  <2>1. \A f : Below(R, f) \subseteq StoredIn(R)
    BY DEF Below
  <2>2. QED
    BY <1>6, <1>7, <2>1 DEF Nearest
<1>9. ~Lower(S, e, e)
  BY <1>1, LowerIsOrder
<1>10. Below(S, e) = StoredIn(R)
  BY <1>1, <1>4, <1>9 DEF Below
<1>11. Latest(S, e)
  BY <1>1, <1>10 DEF Latest
<1>12. QED
  BY <1>1, <1>2, <1>3, <1>4, <1>5, <1>6, <1>7, <1>8, <1>10, <1>11

\* The table S is R with the row that w writes.
Written(R, S, w) ==
    /\ R[w.entry] = None /\ S[w.entry] # None
    /\ \A f \in Entries : f # w.entry => S[f] = R[f]
    /\ S[w.entry].seq = w.seq /\ S[w.entry].previous = w.previous
    /\ S[w.entry].genuine = TRUE /\ Hashed(S, w.entry)

LEMMA InsertServes ==
  ASSUME NEW R \in Rows, NEW S \in Rows, NEW w \in Write, NEW changed,
         Written(R, S, w), Headed(R, changed), Continues(R, w)
  PROVE  /\ Headed(S, changed)
         /\ (\A f \in StoredIn(R) : Fits(R, f)) => \A f \in StoredIn(S) : Fits(S, f)
         /\ StoredIn(S) = StoredIn(R) \cup {w.entry}
         /\ \A f \in StoredIn(R) : S[f] = R[f] /\ Lower(S, f, w.entry) /\ ~Lower(S, w.entry, f)
         /\ \A f, g \in StoredIn(R) : /\ Lower(S, f, g) <=> Lower(R, f, g)
                                      /\ Sooner(S, f, g) <=> Sooner(R, f, g)
<1> USE DEF Written
<1>1. PICK e \in Entries : e = w.entry
  BY DEF Write
<1>2. StoredIn(R) # {} => \E f \in StoredIn(R) : Latest(R, f) /\ S[e].seq = R[f].seq + 1
  BY <1>1 DEF Headed, Continues
<1>3. /\ StoredIn(S) = StoredIn(R) \cup {e} /\ e \notin StoredIn(R)
      /\ Cardinality(StoredIn(S)) = Cardinality(StoredIn(R)) + 1
      /\ \A f \in StoredIn(R) : S[f] = R[f] /\ Lower(S, f, e) /\ ~Lower(S, e, f)
      /\ \A f, g \in StoredIn(R) : /\ Lower(S, f, g) <=> Lower(R, f, g)
                                   /\ Sooner(S, f, g) <=> Sooner(R, f, g)
      /\ \A f \in StoredIn(R) : Below(S, f) = Below(R, f) /\ Nearest(S, f) = Nearest(R, f)
      /\ Below(S, e) = StoredIn(R) /\ Latest(S, e)
  BY <1>1, <1>2, RowIsAppended
<1>4. /\ Cardinality(StoredIn(R)) \in Nat
      /\ \A f \in StoredIn(R) : R[f].seq \in Nat
      /\ S[w.entry].hash = HashOf(w.entry, TRUE, w.previous)
  BY StoredRows DEF Hashed
<1>5. Headed(S, changed)
  <2>1. S[e].seq + 1 >= Cardinality(StoredIn(S))
    <3>1. CASE StoredIn(R) = {}
      BY <1>1, <1>3, <3>1, FS_EmptySet DEF Continues
    <3>2. CASE StoredIn(R) # {}
      BY <1>1, <1>3, <1>4, <3>2 DEF Headed, Continues
    <3>3. QED
      BY <3>1, <3>2
  <2>2. changed => Forged(S) \/ S[e].seq >= Cardinality(StoredIn(S))
    <3>1. ASSUME Forged(R) PROVE Forged(S)
      <4>1. PICK f \in StoredIn(R) : ~R[f].genuine /\ R[f].hash = HashOf(f, TRUE, R[f].previous)
        BY <3>1 DEF Forged
      <4>2. f \in StoredIn(S) /\ S[f] = R[f]
        BY <1>3
      <4>3. QED
        BY <4>1, <4>2 DEF Forged
    <3>2. ASSUME changed, ~Forged(R) PROVE S[e].seq >= Cardinality(StoredIn(S))
      <4>1. PICK f \in StoredIn(R) : Latest(R, f) /\ R[f].seq >= Cardinality(StoredIn(R))
        BY <3>2 DEF Headed
      <4>2. S[e].seq = R[f].seq + 1
        BY <1>1, <4>1 DEF Continues
      <4>3. R[f].seq \in Nat
        BY <1>4
      <4>4. QED
        BY <1>3, <1>4, <4>1, <4>2, <4>3
    <3>3. QED
      BY <3>1, <3>2
  <2>3. \A f \in StoredIn(S) : S[f].genuine => S[f].hash = HashOf(f, TRUE, S[f].previous)
    <3>1. S[e].hash = HashOf(e, TRUE, S[e].previous)
      BY <1>1, <1>4
    <3>2. ASSUME NEW f \in StoredIn(R), S[f].genuine
          PROVE  S[f].hash = HashOf(f, TRUE, S[f].previous)
      <4>1. S[f] = R[f]
        BY <1>3
      <4>2. R[f].genuine
        BY <3>2, <4>1
      <4>3. R[f].hash = HashOf(f, TRUE, R[f].previous)
        BY <4>2 DEF Headed
      <4>4. QED
        BY <4>1, <4>3
    <3>3. QED
      BY <1>3, <3>1, <3>2
  <2>4. QED
    BY <1>3, <2>1, <2>2, <2>3 DEF Headed
<1>6. ASSUME \A f \in StoredIn(R) : Fits(R, f)
      PROVE  \A f \in StoredIn(S) : Fits(S, f)
  <2>1. ASSUME NEW f \in StoredIn(R) PROVE Fits(S, f)
    <3>1. Fits(R, f)
      BY <1>6
    <3>2. Below(R, f) # {} => (CHOOSE g \in Nearest(R, f) : TRUE) \in StoredIn(R)
      BY <3>1 DEF Fits, Nearest, Below
    <3>3. S[f] = R[f] /\ Below(S, f) = Below(R, f) /\ Nearest(S, f) = Nearest(R, f)
      BY <1>3
    <3>4. Below(R, f) # {} => S[CHOOSE g \in Nearest(R, f) : TRUE] = R[CHOOSE g \in Nearest(R, f) : TRUE]
      BY <1>3, <3>2
    <3>5. Linked(S, f)
      BY <3>1, <3>3, <3>4 DEF Fits, Chained, Linked
    <3>6. QED
      BY <3>1, <3>3, <3>5 DEF Fits, Chained, Hashed
  <2>2. Fits(S, e)
    <3>1. CASE StoredIn(R) = {}
      BY <1>1, <1>3, <3>1, FS_EmptySet DEF Fits, Chained, Linked, Hashed, Continues
    <3>2. CASE StoredIn(R) # {}
      <4>1. PICK f \in StoredIn(R) : Latest(R, f) /\ S[e].seq = R[f].seq + 1
        BY <1>2, <3>2
      <4>2. w.previous = R[f].hash
        BY <4>1 DEF Continues
      <4>3. Nearest(S, e) = {f}
        <5>1. \A g \in StoredIn(R) : g = f \/ (Lower(S, g, f) /\ ~Lower(S, f, g))
          BY <1>3, <4>1, LowerIsOrder DEF Latest, Below
        <5>2. QED
          BY <1>3, <5>1 DEF Nearest
      <4>4. S[e].seq = Cardinality(Below(S, e))
        <5>1. R[f].seq = Cardinality(StoredIn(R) \ {f})
          BY <1>6, <4>1 DEF Fits, Chained, Latest
        <5>2. Cardinality(StoredIn(R) \ {f}) = Cardinality(StoredIn(R)) - 1
          <6>1. IsFiniteSet(StoredIn(R))
            BY StoredRows
          <6>2. QED
            BY <6>1, FS_RemoveElement
        <5>3. QED
          BY <1>3, <1>4, <4>1, <5>1, <5>2
      <4>5. (CHOOSE g \in Nearest(S, e) : TRUE) = f
        BY <4>3
      <4>6. S[f].hash = R[f].hash /\ Nearest(S, e) # {}
        BY <1>3, <4>3
      <4>7. QED
        BY <1>1, <4>2, <4>4, <4>5, <4>6, <3>2, <1>3 DEF Fits, Chained, Linked, Hashed
    <3>3. QED
      BY <3>1, <3>2
  <2>3. QED
    BY <1>3, <2>1, <2>2
<1>7. QED
  BY <1>1, <1>3, <1>5, <1>6

-----------------------------------------------------------------------------
(* A row is changed or removed *)

\* Rows that keep their numbers and times keep their order.
LEMMA SameOrder ==
  ASSUME NEW R \in Rows, NEW S \in Rows, StoredIn(S) \subseteq StoredIn(R),
         \A f \in StoredIn(S) : S[f].seq = R[f].seq /\ S[f].time = R[f].time
  PROVE  /\ \A f, g \in StoredIn(S) : /\ Lower(S, f, g) <=> Lower(R, f, g)
                                      /\ Sooner(S, f, g) <=> Sooner(R, f, g)
         /\ \A f \in StoredIn(S) : Below(S, f) = Below(R, f) \cap StoredIn(S)
<1>1. \A f, g \in StoredIn(S) : (Lower(S, f, g) <=> Lower(R, f, g)) /\ (Sooner(S, f, g) <=> Sooner(R, f, g))
  BY DEF Lower, Sooner
<1>2. QED
  BY <1>1 DEF Below

Touched(R, S, e) == R[e].genuine /\ S = [R EXCEPT ![e].genuine = FALSE]

LEMMA ForgeryShows ==
  ASSUME NEW R \in Rows, NEW S \in Rows, NEW changed, NEW e \in StoredIn(R),
         Headed(R, changed), Touched(R, S, e)
  PROVE  /\ Headed(S, TRUE) /\ StoredIn(S) = StoredIn(R)
         /\ \A f \in StoredIn(S) :
               S[f].seq = R[f].seq /\ S[f].time = R[f].time /\ S[f].hash = R[f].hash
<1> USE DEF Touched
<1>1. e \in Entries /\ R[e] \in AuditRow
  BY DEF StoredIn, Rows
<1>2. PICK r \in AuditRow : r = [R[e] EXCEPT !.genuine = FALSE]
  BY <1>1 DEF AuditRow
<1>3. /\ r.seq = R[e].seq /\ r.time = R[e].time /\ r.previous = R[e].previous
      /\ r.hash = R[e].hash /\ r.genuine = FALSE
  BY <1>1, <1>2 DEF AuditRow
<1>4. S = [R EXCEPT ![e] = r]
  BY <1>2
<1>5. S[e] = r /\ \A f \in Entries : f # e => S[f] = R[f]
  BY <1>1, <1>4 DEF Rows
<1>6. StoredIn(S) = StoredIn(R)
  BY <1>1, <1>5, RecordsAssumption DEF StoredIn
<1>7. \A f \in StoredIn(S) :
         S[f].seq = R[f].seq /\ S[f].time = R[f].time /\ S[f].hash = R[f].hash
  BY <1>3, <1>5, <1>6 DEF StoredIn
<1>8. Forged(S)
  <2>1. S[e].hash = HashOf(e, TRUE, S[e].previous)
    BY <1>3, <1>5 DEF Headed
  <2>2. QED
    BY <1>3, <1>5, <1>6, <2>1 DEF Forged
<1>9. PICK f \in StoredIn(R) : Latest(R, f) /\ R[f].seq + 1 >= Cardinality(StoredIn(R))
  BY DEF Headed
<1>10. Latest(S, f)
  BY <1>6, <1>7, <1>9, SameOrder DEF Latest, Below
<1>11. \A g \in StoredIn(S) : S[g].genuine => S[g].hash = HashOf(g, TRUE, S[g].previous)
  BY <1>3, <1>5, <1>6 DEF Headed, StoredIn
<1>12. Headed(S, TRUE)
  BY <1>6, <1>7, <1>8, <1>9, <1>10, <1>11 DEF Headed
<1>13. QED
  BY <1>6, <1>7, <1>12

\* A row that is not the latest is gone.
Removed(R, S, e) == e \in StoredIn(R) /\ ~Latest(R, e) /\ S = [R EXCEPT ![e] = None]

LEMMA RemovalShows ==
  ASSUME NEW R \in Rows, NEW S \in Rows, NEW changed, NEW e,
         Headed(R, changed), Removed(R, S, e)
  PROVE  /\ Headed(S, TRUE) /\ StoredIn(S) = StoredIn(R) \ {e}
         /\ \A f \in StoredIn(S) : S[f] = R[f]
<1> USE DEF Removed
<1>1. e \in Entries
  BY DEF StoredIn
<1>2. S[e] = None /\ \A f \in Entries : f # e => S[f] = R[f]
  BY <1>1 DEF Rows
<1>3. StoredIn(S) = StoredIn(R) \ {e} /\ \A f \in StoredIn(S) : S[f] = R[f]
  BY <1>1, <1>2 DEF StoredIn
<1>4. Cardinality(StoredIn(S)) = Cardinality(StoredIn(R)) - 1
  <2>1. IsFiniteSet(StoredIn(R))
    BY StoredRows
  <2>2. QED
    BY <1>3, <2>1, FS_RemoveElement
<1>5. PICK f \in StoredIn(R) : Latest(R, f) /\ R[f].seq + 1 >= Cardinality(StoredIn(R))
  BY DEF Headed
<1>6. f \in StoredIn(S) /\ S[f] = R[f]
  BY <1>3, <1>5
<1>7. Latest(S, f)
  <2>1. Below(S, f) = Below(R, f) \cap StoredIn(S)
    BY <1>3, <1>6, SameOrder
  <2>2. QED
    BY <1>3, <1>5, <1>6, <2>1 DEF Latest
<1>8. S[f].seq >= Cardinality(StoredIn(S))
  BY <1>4, <1>5, <1>6, StoredRows
<1>9. S[f].seq + 1 >= Cardinality(StoredIn(S))
  BY <1>8, <1>6, StoredRows
<1>10. \A g \in StoredIn(S) : S[g].genuine => S[g].hash = HashOf(g, TRUE, S[g].previous)
  BY <1>3 DEF Headed
<1>11. QED
  BY <1>3, <1>6, <1>7, <1>8, <1>9, <1>10 DEF Headed

\* A chain that was changed does not verify.
LEMMA ChangesAreFound ==
  ASSUME NEW R \in Rows, Headed(R, TRUE)
  PROVE  \E e \in StoredIn(R) : ~Chained(R, e)
<1>1. CASE Forged(R)
  <2>1. PICK e \in StoredIn(R) : ~R[e].genuine /\ R[e].hash = HashOf(e, TRUE, R[e].previous)
    BY <1>1 DEF Forged
  <2>2. R[e].genuine = FALSE /\ R[e].previous \in Hashes
    BY <2>1, StoredRows
  <2>3. PICK previous \in Seq(Entries \X BOOLEAN) : previous = R[e].previous
    BY <2>2 DEF Hashes
  <2>4. Append(previous, <<e, TRUE>>) # Append(previous, <<e, FALSE>>)
    <3>1. PICK x \in Entries \X BOOLEAN : x = <<e, TRUE>>
      BY DEF StoredIn
    <3>2. PICK y \in Entries \X BOOLEAN : y = <<e, FALSE>>
      BY DEF StoredIn
    <3>3. /\ Append(previous, x)[Len(previous) + 1] = x
          /\ Append(previous, y)[Len(previous) + 1] = y
      <4>1. Len(previous) \in Nat
        BY <2>3
      <4>2. QED
        BY <4>1
    <3>4. x # y
      BY <3>1, <3>2
    <3>5. QED
      BY <3>1, <3>2, <3>3, <3>4
  <2>5. ~Hashed(R, e)
    BY <2>1, <2>2, <2>3, <2>4 DEF Hashed, HashOf
  <2>6. QED
    BY <2>5 DEF Chained
<1>2. CASE ~Forged(R)
  <2>1. PICK e \in StoredIn(R) : Latest(R, e) /\ R[e].seq >= Cardinality(StoredIn(R))
    BY <1>2 DEF Headed
  <2>2. Cardinality(Below(R, e)) = Cardinality(StoredIn(R)) - 1
    <3>1. IsFiniteSet(StoredIn(R))
      BY StoredRows
    <3>2. QED
      BY <2>1, <3>1, FS_RemoveElement DEF Latest
  <2>3. QED
    BY <2>1, <2>2, StoredRows DEF Chained
<1>3. QED
  BY <1>1, <1>2

-----------------------------------------------------------------------------
(* A start *)

LEMMA NextRankIsRebuilt ==
  ASSUME NEW R \in Rows, NEW S \in Rows, NEW p \in Rebuilding, NEW q \in Rebuilding,
         NEW e \in StoredIn(R), UpTo(R, p), Rank(R, e) = p.count,
         StoredIn(S) = StoredIn(R), \A f \in StoredIn(R) : f # e => S[f] = R[f],
         S[e].time = R[e].time, S[e].genuine = R[e].genuine, S[e].seq = p.count,
         S[e].previous = p.hash, S[e].hash = q.hash,
         q.hash = HashOf(e, R[e].genuine, p.hash), q.count = p.count + 1
  PROVE  UpTo(S, q)
<1>1. \A f \in StoredIn(R) : Rank(S, f) = Rank(R, f)
  BY SameTimes
<1>2. \A f \in StoredIn(R) : Rank(R, f) \in Nat /\ (f # e => Rank(R, f) # p.count)
  BY StoredRows, RankOrders
<1>3. p.count \in Nat
  BY DEF Rebuilding
<1>4. q.count <= Cardinality(StoredIn(S))
  BY <1>3, RankOrders, StoredRows
<1>5. ASSUME NEW f \in StoredIn(S), Rank(S, f) < q.count
      PROVE  InPlace(S, f)
  <2>1. CASE f = e
    <3>1. S[e].seq = Rank(S, e) /\ Hashed(S, e)
      BY <1>1 DEF Hashed
    <3>2. Rank(S, e) = 0 => S[e].previous = <<>>
      BY <1>1 DEF UpTo
    <3>3. ASSUME NEW g \in StoredIn(S), Rank(S, e) = Rank(S, g) + 1
          PROVE  S[e].previous = S[g].hash
      <4>1. Rank(R, g) + 1 = p.count /\ g # e
        BY <1>1, <1>2, <1>3, <3>3
      <4>2. QED
        BY <4>1 DEF UpTo
    <3>4. QED
      BY <2>1, <3>1, <3>2, <3>3 DEF InPlace
  <2>2. CASE f # e
    <3>1. Rank(R, f) < p.count /\ S[f] = R[f]
      BY <1>1, <1>2, <1>3, <1>5, <2>2
    <3>2. InPlace(R, f)
      BY <3>1 DEF UpTo
    <3>3. ASSUME NEW g \in StoredIn(S), Rank(S, f) = Rank(S, g) + 1
          PROVE  S[f].previous = S[g].hash
      <4>1. Rank(R, f) = Rank(R, g) + 1 /\ g # e
        BY <1>1, <1>2, <1>3, <3>1, <3>3
      <4>2. QED
        BY <3>1, <3>2, <4>1 DEF InPlace
    <3>4. QED
      BY <1>1, <3>1, <3>2, <3>3 DEF InPlace, Hashed
  <2>3. QED
    BY <2>1, <2>2
<1>6. ASSUME NEW k \in 0..(q.count - 1)
      PROVE  \E f \in StoredIn(S) : Rank(S, f) = k
  <2>1. CASE k = p.count
    BY <1>1, <2>1
  <2>2. CASE k # p.count
    <3>1. k \in 0..(p.count - 1)
      BY <1>3, <2>2
    <3>2. QED
      BY <1>1, <3>1 DEF UpTo
  <2>3. QED
    BY <2>1, <2>2
<1>7. q.count # 0
  BY <1>3
<1>8. \A f \in StoredIn(S) : Rank(S, f) + 1 = q.count => q.hash = S[f].hash
  BY <1>1, <1>2, <1>3
<1>9. QED
  BY <1>4, <1>5, <1>6, <1>7, <1>8 DEF UpTo

\* When all rows are rebuilt, the chain verifies, and the order by number is that by time.
LEMMA RebuiltServes ==
  ASSUME NEW R \in Rows, NEW p \in Rebuilding, UpTo(R, p), p.count = Cardinality(StoredIn(R))
  PROVE  /\ Headed(R, FALSE)
         /\ \A e \in StoredIn(R) : Fits(R, e)
         /\ \A e, f \in StoredIn(R) : Lower(R, e, f) <=> Sooner(R, e, f)
<1>1. /\ Cardinality(StoredIn(R)) \in Nat
      /\ \A e \in StoredIn(R) : Rank(R, e) \in Nat /\ Rank(R, e) < p.count
  BY StoredRows, RankOrders
<1>2. \A e \in StoredIn(R) : InPlace(R, e)
  BY <1>1 DEF UpTo
<1>3. \A e, f \in StoredIn(R) : Lower(R, e, f) <=> Sooner(R, e, f)
  <2>1. SUFFICES ASSUME NEW e \in StoredIn(R), NEW f \in StoredIn(R)
                 PROVE  Lower(R, e, f) <=> Sooner(R, e, f)
    OBVIOUS
  <2>2. R[e].seq = Rank(R, e) /\ R[f].seq = Rank(R, f)
    BY <1>2 DEF InPlace
  <2>3. Sooner(R, e, f) <=> Rank(R, e) < Rank(R, f)
    BY RankOrders
  <2>4. Rank(R, e) = Rank(R, f) => e = f
    BY RankOrders
  <2>5. ~Sooner(R, e, e)
    BY SoonerIsOrder
  <2>6. QED
    BY <1>1, <2>2, <2>3, <2>4, <2>5 DEF Lower
<1>4. \A e \in StoredIn(R) : Below(R, e) = Earlier(R, e)
  BY <1>3 DEF Below, Earlier
<1>5. ASSUME NEW e \in StoredIn(R)
      PROVE  Fits(R, e)
  <2>1. R[e].seq = Cardinality(Below(R, e)) /\ Hashed(R, e)
    BY <1>2, <1>4 DEF InPlace, Rank
  <2>2. CASE Below(R, e) = {}
    <3>1. Rank(R, e) = 0
      BY <1>4, <2>2, FS_EmptySet DEF Rank
    <3>2. QED
      BY <1>2, <2>1, <2>2, <3>1 DEF InPlace, Fits, Chained, Linked
  <2>3. CASE Below(R, e) # {}
    <3>1. Rank(R, e) # 0
      BY <1>4, <2>3, StoredRows, FS_EmptySet DEF Rank
    <3>2. PICK k \in Nat : k = Rank(R, e) - 1
      BY <1>1, <3>1
    <3>3. k \in 0..(p.count - 1)
      BY <1>1, <3>1, <3>2
    <3>4. PICK f \in StoredIn(R) : Rank(R, f) = k
      BY <3>3 DEF UpTo
    <3>5. f \in Below(R, e)
      BY <1>1, <1>3, <3>2, <3>4, RankOrders DEF Below
    <3>6. \A g \in Below(R, e) : g = f \/ (Lower(R, g, f) /\ ~Lower(R, f, g))
      <4>1. SUFFICES ASSUME NEW g \in Below(R, e), g # f
                     PROVE  Lower(R, g, f) /\ ~Lower(R, f, g)
        OBVIOUS
      <4>2. g \in StoredIn(R) /\ Sooner(R, g, e)
        BY <1>3 DEF Below
      <4>3. Rank(R, g) < Rank(R, e) /\ Rank(R, g) # Rank(R, f) /\ Rank(R, g) \in Nat
        BY <1>1, <4>1, <4>2, RankOrders
      <4>4. Rank(R, g) < Rank(R, f)
        BY <1>1, <3>2, <3>4, <4>3
      <4>5. Sooner(R, g, f)
        BY <4>2, <4>4, RankOrders
      <4>6. QED
        BY <1>3, <4>2, <4>5, LowerIsOrder
    <3>7. Nearest(R, e) = {f}
      BY <3>5, <3>6 DEF Nearest
    <3>8. (CHOOSE g \in Nearest(R, e) : TRUE) = f
      BY <3>7
    <3>9. Rank(R, e) = Rank(R, f) + 1
      BY <1>1, <3>2, <3>4
    <3>10. R[e].previous = R[f].hash
      BY <1>2, <3>9 DEF InPlace
    <3>11. QED
      BY <2>1, <2>3, <3>7, <3>8, <3>10 DEF Fits, Chained, Linked
  <2>4. QED
    BY <2>2, <2>3
<1>6. \A e \in StoredIn(R) : R[e].genuine => R[e].hash = HashOf(e, TRUE, R[e].previous)
  BY <1>2, StoredRows DEF InPlace, Hashed
<1>7. ASSUME StoredIn(R) # {}
      PROVE  \E e \in StoredIn(R) : Latest(R, e) /\ R[e].seq + 1 >= Cardinality(StoredIn(R))
  <2>1. Cardinality(StoredIn(R)) # 0
    BY <1>7, StoredRows, FS_EmptySet
  <2>2. PICK k \in Nat : k = p.count - 1
    BY <1>1, <2>1
  <2>3. k \in 0..(p.count - 1)
    BY <1>1, <2>2
  <2>4. PICK e \in StoredIn(R) : Rank(R, e) = k
    BY <2>3 DEF UpTo
  <2>5. e \notin Earlier(R, e) /\ Earlier(R, e) \in SUBSET (StoredIn(R) \ {e})
    BY SoonerIsOrder DEF Earlier
  <2>6. /\ IsFiniteSet(StoredIn(R) \ {e})
        /\ Cardinality(StoredIn(R) \ {e}) = Cardinality(StoredIn(R)) - 1
    <3>1. IsFiniteSet(StoredIn(R))
      BY StoredRows
    <3>2. QED
      BY <3>1, FS_RemoveElement
  <2>7. Cardinality(StoredIn(R) \ {e}) = Cardinality(Earlier(R, e))
    BY <1>1, <2>2, <2>4, <2>6 DEF Rank
  <2>8. Earlier(R, e) = StoredIn(R) \ {e}
    BY <2>5, <2>6, <2>7, FS_Subset
  <2>9. Latest(R, e)
    BY <1>4, <2>8 DEF Latest
  <2>10. R[e].seq = k
    BY <1>2, <2>4 DEF InPlace
  <2>11. QED
    BY <1>1, <2>2, <2>9, <2>10
<1>8. Headed(R, FALSE)
  BY <1>6, <1>7 DEF Headed
<1>9. QED
  BY <1>3, <1>5, <1>8

-----------------------------------------------------------------------------
(* The steps *)

LEMMA InitInv == Init => IInv
<1> SUFFICES ASSUME Init PROVE IInv
  OBVIOUS
<1>1. StoredIn(row) = {}
  BY DEF Init, StoredIn
<1>2. rebuilt \in Rebuilding /\ rebuilt.count = 0 /\ rebuilt.hash = <<>> /\ rebuilt # None
  <2>1. rebuilt = [count |-> 0, hash |-> <<>>] /\ <<>> \in Hashes
    BY DEF Init, Hashes
  <2>2. rebuilt \in Rebuilding
    BY <2>1 DEF Rebuilding
  <2>3. QED
    BY <2>1, <2>2, RecordsAssumption
<1>3. Typed
  <2>1. clock \in 0..MaxTime /\ appended \in Seq(Entries)
    BY AuditAssumption DEF Init
  <2>2. QED
    BY <1>2, <2>1 DEF Init, Typed, Rows
<1>4. Queued /\ Logged /\ Ordered
  BY <1>1 DEF Init, Queued, Logged, Ordered
<1>5. UpTo(row, rebuilt)
  BY <1>1, <1>2, FS_EmptySet DEF UpTo
<1>6. QED
  BY <1>2, <1>3, <1>4, <1>5 DEF IInv

\* The parts of the invariant that only look at the table and the log.
LEMMA SameLog ==
  ASSUME IInv, UNCHANGED <<row, appended, disordered>>, rebuilt' = None => rebuilt = None
  PROVE  Logged' /\ Ordered'
BY DEF IInv, Logged, Ordered

\* appendAudit reads the latest entry, and no other call is between its statements.
LEMMA RecordKeeps == ASSUME IInv, NEW c \in Calls, Record(c) PROVE IInv'
<1>1. /\ rebuilt = None /\ \A d \in Calls : call[d] = None
      /\ UNCHANGED <<row, clock, rebuilt, appended, altered, disordered>>
  BY DEF Record, Reads
<1>2. PICK last : last = {f \in Stored : f \in Stored /\ {g \in Stored : BySequence(g, f)} = Stored \ {f}}
  OBVIOUS
<1>3. PICK e \in Entries :
        /\ e \notin {appended[i] : i \in DOMAIN appended}
        /\ call' = [call EXCEPT ![c] =
              IF last = {} THEN [entry |-> e, time |-> clock, seq |-> 0, previous |-> <<>>]
              ELSE LET f == CHOOSE f \in last : TRUE
                   IN  [entry |-> e, time |-> clock,
                        seq |-> row[f].seq + 1, previous |-> row[f].hash]]
  BY <1>2 DEF Record, Reads, IsLast, Preceding
<1>4. row \in Rows /\ call \in [Calls -> Write \cup {None}] /\ clock \in Nat /\ Headed(row, altered)
  BY <1>1, AuditAssumption DEF IInv, Typed, Serving
<1>5. \A f : f \in last <=> Latest(row, f)
  <2>1. Stored = StoredIn(row) /\ \A f, g : BySequence(g, f) <=> Lower(row, g, f)
    BY Terms
  <2>2. \A f : {g \in Stored : BySequence(g, f)} = Below(row, f)
    BY <2>1 DEF Below
  <2>3. QED
    BY <1>2, <2>1, <2>2 DEF Latest
<1>6. PICK w : /\ w \in Write /\ w.entry = e /\ Continues(row, w)
               /\ call' = [call EXCEPT ![c] = w]
  <2>1. CASE last = {}
    <3>1. StoredIn(row) = {}
      BY <1>4, <1>5, <2>1 DEF Headed
    <3>2. PICK w : w = [entry |-> e, time |-> clock, seq |-> 0, previous |-> <<>>]
      OBVIOUS
    <3>3. w \in Write /\ w.entry = e /\ w.seq = 0 /\ w.previous = <<>>
      BY <1>4, <3>2 DEF Write, Hashes
    <3>4. Continues(row, w)
      BY <3>1, <3>3 DEF Continues
    <3>5. QED
      BY <1>3, <2>1, <3>2, <3>3, <3>4
  <2>2. CASE last # {}
    <3>1. PICK f : f = CHOOSE x \in last : TRUE
      OBVIOUS
    <3>2. Latest(row, f)
      BY <1>5, <2>2, <3>1
    <3>3. f \in StoredIn(row) /\ row[f].seq \in Nat /\ row[f].hash \in Hashes
      BY <1>4, <3>2, StoredRows DEF Latest
    <3>4. PICK w : w = [entry |-> e, time |-> clock, seq |-> row[f].seq + 1, previous |-> row[f].hash]
      OBVIOUS
    <3>5. w \in Write /\ w.entry = e /\ w.seq = row[f].seq + 1 /\ w.previous = row[f].hash
      BY <1>4, <3>3, <3>4 DEF Write
    <3>6. \A g : Latest(row, g) => g = f
      BY <1>4, <3>2, OneIsLatest
    <3>7. Continues(row, w)
      BY <3>3, <3>5, <3>6 DEF Continues
    <3>8. QED
      BY <1>3, <2>2, <3>1, <3>4, <3>5, <3>7
  <2>3. QED
    BY <2>1, <2>2
<1>7. call'[c] = w /\ \A d \in Calls : d # c => call'[d] = None
  BY <1>1, <1>4, <1>6
<1>8. Typed'
  BY <1>1, <1>4, <1>6 DEF IInv, Typed
<1>9. Queued'
  BY <1>1, <1>3, <1>6, <1>7 DEF Queued
<1>10. Logged' /\ Ordered'
  BY <1>1, SameLog
<1>11. Serving(row)' /\ \A d \in Calls : call'[d] # None => Continues(row, call[d])'
  BY <1>1, <1>6, <1>7 DEF IInv, Serving
<1>12. QED
  BY <1>1, <1>8, <1>9, <1>10, <1>11 DEF IInv

\* The new row is the latest in every respect.
LEMMA InsertsKeeps == ASSUME IInv, NEW c \in Calls, Inserts(c) PROVE IInv'
<1>1. PICK w : w = call[c]
  OBVIOUS
<1>2. w # None /\ w \in Write /\ w.entry \in Entries /\ w.time \in Nat /\ w.seq \in Nat /\ w.previous \in Hashes
  BY <1>1 DEF Inserts, IInv, Typed, Write
<1>3. PICK h : h = HashOf(w.entry, TRUE, w.previous)
  OBVIOUS
<1>4. h \in Hashes
  <2>1. PICK x \in Entries \X BOOLEAN : x = <<w.entry, TRUE>>
    BY <1>2
  <2>2. QED
    BY <1>2, <1>3, <2>1 DEF HashOf, Hashes
<1>5. PICK r : r = [seq |-> w.seq, time |-> w.time, genuine |-> TRUE, previous |-> w.previous, hash |-> h]
  OBVIOUS
<1>6. /\ r \in AuditRow /\ r # None
      /\ r.seq = w.seq /\ r.time = w.time /\ r.genuine = TRUE /\ r.previous = w.previous /\ r.hash = h
  <2>1. r \in AuditRow
    BY <1>2, <1>4, <1>5 DEF AuditRow
  <2>2. QED
    BY <1>5, <2>1, RecordsAssumption
<1>7. /\ row' = [row EXCEPT ![w.entry] = r]
      /\ appended' = Append(appended, w.entry)
      /\ disordered' = (disordered \/ \E e \in Stored : ~TimeOrder(row[e].time, e, w.time, w.entry))
      /\ call' = [call EXCEPT ![c] = None]
      /\ UNCHANGED <<clock, rebuilt, altered>>
  BY <1>1, <1>3, <1>5 DEF Inserts
<1>8. /\ row \in Rows /\ call \in [Calls -> Write \cup {None}] /\ appended \in Seq(Entries)
      /\ altered \in BOOLEAN /\ disordered \in BOOLEAN /\ rebuilt = None
  BY <1>1, <1>2 DEF IInv, Typed, Queued
<1>9. row' \in Rows /\ row'[w.entry] = r /\ \A f \in Entries : f # w.entry => row'[f] = row[f]
  BY <1>2, <1>6, <1>7, <1>8 DEF Rows
<1>10. \A i \in DOMAIN appended : appended[i] # w.entry
  BY <1>1, <1>2 DEF IInv, Queued
<1>11. row[w.entry] = None
  BY <1>2, <1>10 DEF IInv, Logged, StoredIn
<1>12. Headed(row, altered) /\ Continues(row, w)
  BY <1>1, <1>2, <1>8 DEF IInv, Serving
<1>13. /\ Headed(row', altered)
       /\ (\A f \in StoredIn(row) : Fits(row, f)) => \A f \in StoredIn(row') : Fits(row', f)
       /\ StoredIn(row') = StoredIn(row) \cup {w.entry}
       /\ \A f \in StoredIn(row) : row'[f] = row[f] /\ Lower(row', f, w.entry) /\ ~Lower(row', w.entry, f)
       /\ \A f, g \in StoredIn(row) : /\ Lower(row', f, g) <=> Lower(row, f, g)
                                      /\ Sooner(row', f, g) <=> Sooner(row, f, g)
  <2>1. PICK S \in Rows : S = row'
    BY <1>9
  <2>2. PICK R \in Rows : R = row
    BY <1>8
  <2>3. PICK v \in Write : v = w
    BY <1>2
  <2>4. PICK changed : changed = altered
    BY <1>8
  <2>5. /\ R[v.entry] = None /\ S[v.entry] # None
        /\ \A f \in Entries : f # v.entry => S[f] = R[f]
        /\ S[v.entry].seq = v.seq /\ S[v.entry].previous = v.previous /\ S[v.entry].genuine = TRUE
    BY <1>6, <1>9, <1>11, <2>1, <2>2, <2>3
  <2>6. Hashed(S, v.entry)
    BY <1>3, <1>6, <1>9, <2>1, <2>3 DEF Hashed
  <2>7. Headed(R, changed) /\ Continues(R, v) /\ Written(R, S, v)
    BY <1>12, <2>2, <2>3, <2>4, <2>5, <2>6 DEF Written
  <2>8. /\ Headed(S, changed)
        /\ (\A f \in StoredIn(R) : Fits(R, f)) => \A f \in StoredIn(S) : Fits(S, f)
        /\ StoredIn(S) = StoredIn(R) \cup {v.entry}
        /\ \A f \in StoredIn(R) : S[f] = R[f] /\ Lower(S, f, v.entry) /\ ~Lower(S, v.entry, f)
        /\ \A f, g \in StoredIn(R) : /\ Lower(S, f, g) <=> Lower(R, f, g)
                                     /\ Sooner(S, f, g) <=> Sooner(R, f, g)
    BY <2>1, <2>2, <2>3, <2>7, InsertServes
  <2>9. QED
    BY <2>1, <2>2, <2>3, <2>4, <2>8
<1>14. /\ appended' \in Seq(Entries) /\ DOMAIN appended' = 1..(Len(appended) + 1)
       /\ DOMAIN appended = 1..Len(appended) /\ Len(appended) \in Nat
       /\ \A i \in 1..Len(appended) : appended'[i] = appended[i]
       /\ appended'[Len(appended) + 1] = w.entry
  BY <1>2, <1>7, <1>8
<1>15. \A d \in Calls : call'[d] = None
  BY <1>1, <1>2, <1>7, <1>8 DEF IInv, Queued
<1>16. Typed'
  BY <1>7, <1>8, <1>9, <1>14 DEF IInv, Typed
<1>17. Queued'
  BY <1>15 DEF Queued
<1>18. Logged'
  <2>1. \A i, j \in DOMAIN appended' : appended'[i] = appended'[j] => i = j
    BY <1>10, <1>14 DEF IInv, Logged
  <2>2. \A e \in StoredIn(row') : \E i \in DOMAIN appended' : appended'[i] = e
    BY <1>13, <1>14 DEF IInv, Logged
  <2>3. QED
    BY <2>1, <2>2 DEF Logged
<1>19. Ordered'
  <2> SUFFICES ASSUME ~disordered'
               PROVE  /\ \A i, j \in DOMAIN appended' :
                            i < j /\ {appended'[i], appended'[j]} \subseteq StoredIn(row') =>
                                Sooner(row', appended'[i], appended'[j])
                      /\ \A e, f \in StoredIn(row') : Lower(row', e, f) => Sooner(row', e, f)
    BY DEF Ordered
  <2>1. ~disordered /\ \A e \in StoredIn(row) : Sooner(row', e, w.entry)
    BY <1>6, <1>7, <1>9, <1>13, Terms DEF Sooner
  <2>2. ASSUME NEW i \in DOMAIN appended', NEW j \in DOMAIN appended', i < j,
               appended'[i] \in StoredIn(row'), appended'[j] \in StoredIn(row')
        PROVE  Sooner(row', appended'[i], appended'[j])
    <3>1. i \in 1..Len(appended) /\ appended'[i] = appended[i] /\ appended[i] \in StoredIn(row)
      BY <1>10, <1>13, <1>14, <2>2
    <3>2. CASE j = Len(appended) + 1
      BY <1>14, <2>1, <3>1, <3>2
    <3>3. CASE j # Len(appended) + 1
      <4>1. j \in 1..Len(appended) /\ appended'[j] = appended[j] /\ appended[j] \in StoredIn(row)
        BY <1>10, <1>13, <1>14, <2>2, <3>3
      <4>2. Sooner(row, appended[i], appended[j])
        BY <1>14, <2>1, <2>2, <3>1, <4>1 DEF IInv, Ordered
      <4>3. QED
        BY <1>13, <3>1, <4>1, <4>2
    <3>4. QED
      BY <3>2, <3>3
  <2>3. ASSUME NEW e \in StoredIn(row'), NEW f \in StoredIn(row'), Lower(row', e, f)
        PROVE  Sooner(row', e, f)
    <3>1. e \in StoredIn(row)
      BY <1>9, <1>13, <2>3, LowerIsOrder
    <3>2. CASE f = w.entry
      BY <2>1, <3>1, <3>2
    <3>3. CASE f \in StoredIn(row)
      BY <1>8, <1>13, <2>1, <2>3, <3>1, <3>3 DEF IInv, Ordered
    <3>4. QED
      BY <1>13, <3>2, <3>3
  <2>4. QED
    BY <2>2, <2>3
<1>20. Serving(row)'
  BY <1>7, <1>8, <1>13 DEF IInv, Serving
<1>21. QED
  BY <1>7, <1>8, <1>15, <1>16, <1>17, <1>18, <1>19, <1>20 DEF IInv


LEMMA WriteFailsKeeps == ASSUME IInv, NEW c \in Calls, WriteFails(c) PROVE IInv'
<1>1. /\ call[c] # None /\ call' = [call EXCEPT ![c] = None]
      /\ UNCHANGED <<row, clock, rebuilt, appended, altered, disordered>>
  BY DEF WriteFails
<1>2. call \in [Calls -> Write \cup {None}]
  BY DEF IInv, Typed
<1>3. \A d \in Calls : call'[d] # None => call'[d] = call[d]
  BY <1>1, <1>2
<1>4. Typed'
  BY <1>1, <1>2 DEF IInv, Typed
<1>5. Queued'
  BY <1>1, <1>3 DEF IInv, Queued
<1>6. Logged' /\ Ordered'
  BY <1>1, SameLog
<1>7. QED
  BY <1>1, <1>3, <1>4, <1>5, <1>6 DEF IInv, Serving

LEMMA RestartsKeeps == ASSUME IInv, Restarts PROVE IInv'
<1>1. /\ call' = [c \in Calls |-> None] /\ rebuilt' = [count |-> 0, hash |-> <<>>]
      /\ UNCHANGED <<row, clock, appended, altered, disordered>>
  BY DEF Restarts
<1>2. PICK p : p = [count |-> 0, hash |-> <<>>]
  OBVIOUS
<1>3. p \in Rebuilding /\ p # None /\ p.count = 0 /\ p.hash = <<>> /\ rebuilt' = p
  <2>1. p \in Rebuilding
    BY <1>2 DEF Rebuilding, Hashes
  <2>2. QED
    BY <1>1, <1>2, <2>1, RecordsAssumption
<1>4. row \in Rows
  BY DEF IInv, Typed
<1>5. UpTo(row, p)
  <2>1. /\ Cardinality(StoredIn(row)) \in Nat
        /\ \A e \in StoredIn(row) : Rank(row, e) \in Nat
    BY <1>4, StoredRows
  <2>2. QED
    BY <1>3, <2>1 DEF UpTo
<1>6. Typed'
  BY <1>1, <1>3 DEF IInv, Typed
<1>7. Queued'
  BY <1>1 DEF Queued
<1>8. Logged' /\ Ordered'
  BY <1>1, <1>3, SameLog
<1>9. QED
  BY <1>1, <1>3, <1>5, <1>6, <1>7, <1>8 DEF IInv

\* The next row by time gets the next number.
LEMMA RebuildsKeeps == ASSUME IInv, Rebuilds PROVE IInv'
<1>1. rebuilt # None /\ rebuilt \in Rebuilding /\ row \in Rows /\ UpTo(row, rebuilt)
  BY DEF Rebuilds, IInv, Typed
<1>2. PICK R \in Rows : R = row
  BY <1>1
<1>3. PICK p \in Rebuilding : p = rebuilt
  BY <1>1
<1>4. PICK e \in StoredIn(R) : Rank(R, e) = p.count /\ Rebuilt(e)
  BY <1>2, <1>3, Terms DEF Rebuilds, Rank
<1>5. e \in Entries /\ R[e] \in AuditRow /\ p.count \in Nat /\ p.hash \in Hashes
  BY StoredRows DEF Rebuilding, StoredIn
<1>6. PICK h : h = HashOf(e, R[e].genuine, p.hash)
  OBVIOUS
<1>7. h \in Hashes
  <2>1. PICK x \in Entries \X BOOLEAN : x = <<e, R[e].genuine>>
    BY <1>5 DEF AuditRow
  <2>2. QED
    BY <1>5, <1>6, <2>1 DEF HashOf, Hashes
<1>8. PICK r : r = [R[e] EXCEPT !.seq = p.count, !.previous = p.hash, !.hash = h]
  OBVIOUS
<1>9. /\ r \in AuditRow /\ r # None /\ r.seq = p.count /\ r.previous = p.hash /\ r.hash = h
      /\ r.time = R[e].time /\ r.genuine = R[e].genuine
  <2>1. r \in AuditRow
    BY <1>5, <1>7, <1>8 DEF AuditRow
  <2>2. QED
    BY <1>5, <1>8, <2>1, RecordsAssumption DEF AuditRow
<1>10. PICK q : q = [count |-> p.count + 1, hash |-> h]
  OBVIOUS
<1>11. q \in Rebuilding /\ q # None /\ q.count = p.count + 1 /\ q.hash = h
  <2>1. q \in Rebuilding
    BY <1>5, <1>7, <1>10 DEF Rebuilding
  <2>2. QED
    BY <1>10, <2>1, RecordsAssumption
<1>12. PICK S : S = [R EXCEPT ![e] = r]
  OBVIOUS
<1>13. row' = S /\ rebuilt' = q /\ UNCHANGED <<clock, call, appended, altered, disordered>>
  BY <1>2, <1>3, <1>4, <1>6, <1>8, <1>10, <1>12 DEF Rebuilt
<1>14. S \in Rows /\ S[e] = r /\ \A f \in Entries : f # e => S[f] = R[f]
  BY <1>5, <1>9, <1>12 DEF Rows
<1>15. StoredIn(S) = StoredIn(R)
  BY <1>5, <1>9, <1>14 DEF StoredIn
<1>16. \A f \in StoredIn(R) : f # e => S[f] = R[f]
  BY <1>14 DEF StoredIn
<1>17. UpTo(S, q)
  <2>1. UpTo(R, p)
    BY <1>1, <1>2, <1>3
  <2>2. /\ S[e].time = R[e].time /\ S[e].genuine = R[e].genuine /\ S[e].seq = p.count
        /\ S[e].previous = p.hash /\ S[e].hash = q.hash
        /\ q.hash = HashOf(e, R[e].genuine, p.hash) /\ q.count = p.count + 1
    BY <1>6, <1>9, <1>11, <1>14
  <2>3. QED
    BY <1>4, <1>11, <1>14, <1>15, <1>16, <2>1, <2>2, NextRankIsRebuilt
<1>18. Typed'
  BY <1>11, <1>13, <1>14 DEF IInv, Typed
<1>19. Queued'
  BY <1>1, <1>13 DEF IInv, Queued
<1>20. Logged'
  BY <1>2, <1>13, <1>15 DEF IInv, Logged
<1>21. Ordered'
  <2>1. \A f \in StoredIn(R) : S[f].time = R[f].time
    BY <1>9, <1>14, <1>16
  <2>2. \A f, g \in StoredIn(R) : Sooner(S, f, g) <=> Sooner(R, f, g)
    BY <1>14, <1>15, <2>1, SameTimes
  <2>3. QED
    BY <1>2, <1>11, <1>13, <1>15, <2>2 DEF IInv, Ordered
<1>22. QED
  BY <1>11, <1>13, <1>17, <1>18, <1>19, <1>20, <1>21 DEF IInv

LEMMA ServesKeeps == ASSUME IInv, Serves PROVE IInv'
<1>1. /\ rebuilt # None /\ rebuilt \in Rebuilding /\ row \in Rows /\ UpTo(row, rebuilt)
      /\ rebuilt.count = Cardinality(StoredIn(row)) /\ \A c \in Calls : call[c] = None
      /\ rebuilt' = None /\ altered' = FALSE
      /\ UNCHANGED <<row, clock, call, appended, disordered>>
  BY Terms DEF Serves, IInv, Typed, Queued
<1>2. PICK R \in Rows : R = row
  BY <1>1
<1>3. PICK p \in Rebuilding : p = rebuilt
  BY <1>1
<1>4. /\ Headed(R, FALSE)
      /\ \A e \in StoredIn(R) : Fits(R, e)
      /\ \A e, f \in StoredIn(R) : Lower(R, e, f) <=> Sooner(R, e, f)
  <2>1. UpTo(R, p) /\ p.count = Cardinality(StoredIn(R))
    BY <1>1, <1>2, <1>3
  <2>2. QED
    BY <2>1, RebuiltServes
<1>5. Typed'
  BY <1>1 DEF IInv, Typed
<1>6. Queued' /\ Logged'
  BY <1>1 DEF IInv, Queued, Logged
<1>7. Ordered'
  BY <1>1, <1>2, <1>4 DEF IInv, Ordered
<1>8. Serving(row)'
  <2>1. Headed(row, altered)'
    BY <1>1, <1>2, <1>4 DEF Headed
  <2>2. QED
    BY <1>1, <1>2, <1>4, <2>1 DEF Serving
<1>9. QED
  BY <1>1, <1>5, <1>6, <1>7, <1>8 DEF IInv

LEMMA ClockMovesKeeps == ASSUME IInv, ClockMoves PROVE IInv'
<1>1. clock' \in 0..MaxTime /\ UNCHANGED <<row, call, rebuilt, appended, altered, disordered>>
  BY DEF ClockMoves
<1>2. Typed' /\ Queued'
  BY <1>1 DEF IInv, Typed, Queued
<1>3. Logged' /\ Ordered'
  BY <1>1, SameLog
<1>4. QED
  BY <1>1, <1>2, <1>3 DEF IInv, Serving

\* What is left of a table that was tampered with keeps its numbers, times and hashes.
Kept(R, S) ==
    /\ StoredIn(S) \subseteq StoredIn(R)
    /\ \A f \in StoredIn(S) : S[f].seq = R[f].seq /\ S[f].time = R[f].time /\ S[f].hash = R[f].hash

LEMMA LatestStays ==
  ASSUME NEW R \in Rows, NEW S \in Rows, NEW w \in Write, Kept(R, S), Continues(R, w),
         NEW l \in StoredIn(S), Latest(R, l)
  PROVE  Continues(S, w)
<1>1. StoredIn(S) \subseteq StoredIn(R) /\ Below(S, l) = Below(R, l) \cap StoredIn(S)
  BY SameOrder DEF Kept
<1>2. Latest(S, l)
  BY <1>1 DEF Latest
<1>3. \A f : Latest(S, f) => f = l
  BY <1>2, OneIsLatest
<1>4. w.seq = S[l].seq + 1 /\ w.previous = S[l].hash
  BY <1>1 DEF Kept, Continues
<1>5. QED
  BY <1>3, <1>4 DEF Continues

\* A change leaves its trace, and the latest row where it was.
LEMMA AltersKeeps == ASSUME IInv, NEW e \in Entries, Alters(e) PROVE IInv'
<1>1. /\ rebuilt = None /\ e \in StoredIn(row) /\ altered' = TRUE
      /\ UNCHANGED <<clock, call, rebuilt, appended, disordered>>
      /\ \/ row[e].genuine /\ row' = [row EXCEPT ![e].genuine = FALSE]
         \/ ~Latest(row, e) /\ row' = [row EXCEPT ![e] = None]
  BY Terms DEF Alters
<1>2. row \in Rows /\ Headed(row, altered)
  BY <1>1 DEF IInv, Typed, Serving
<1>3. PICK R \in Rows : R = row
  BY <1>2
<1>4. row' \in Rows
  <2>1. CASE row' = [row EXCEPT ![e].genuine = FALSE]
    <3>1. R[e] \in AuditRow
      BY <1>1, <1>3, StoredRows
    <3>2. PICK r \in AuditRow : r = [R[e] EXCEPT !.genuine = FALSE]
      BY <3>1 DEF AuditRow
    <3>3. row' = [R EXCEPT ![e] = r]
      BY <1>3, <2>1, <3>2
    <3>4. QED
      BY <3>3 DEF Rows
  <2>2. CASE row' = [row EXCEPT ![e] = None]
    BY <1>2, <2>2 DEF Rows
  <2>3. QED
    BY <1>1, <2>1, <2>2
<1>5. PICK S \in Rows : S = row'
  BY <1>4
<1>6. PICK changed : changed = altered
  OBVIOUS
<1>7. PICK l \in StoredIn(R) : Latest(R, l)
  BY <1>1, <1>2, <1>3 DEF Headed
<1>8. Headed(S, TRUE) /\ Kept(R, S) /\ l \in StoredIn(S)
  <2>1. CASE row[e].genuine /\ row' = [row EXCEPT ![e].genuine = FALSE]
    <3>1. e \in StoredIn(R) /\ Headed(R, changed) /\ Touched(R, S, e)
      BY <1>1, <1>2, <1>3, <1>5, <1>6, <2>1 DEF Touched
    <3>2. /\ Headed(S, TRUE) /\ StoredIn(S) = StoredIn(R)
          /\ \A f \in StoredIn(S) :
                S[f].seq = R[f].seq /\ S[f].time = R[f].time /\ S[f].hash = R[f].hash
      BY <3>1, ForgeryShows
    <3>3. QED
      BY <1>7, <3>2 DEF Kept
  <2>2. CASE ~Latest(row, e) /\ row' = [row EXCEPT ![e] = None]
    <3>1. Headed(R, changed) /\ Removed(R, S, e)
      BY <1>1, <1>2, <1>3, <1>5, <1>6, <2>2 DEF Removed
    <3>2. /\ Headed(S, TRUE) /\ StoredIn(S) = StoredIn(R) \ {e}
          /\ \A f \in StoredIn(S) : S[f] = R[f]
      BY <3>1, RemovalShows
    <3>3. QED
      BY <1>1, <1>3, <1>7, <2>2, <3>2 DEF Kept
  <2>3. QED
    BY <1>1, <2>1, <2>2
<1>9. Typed'
  BY <1>1, <1>4 DEF IInv, Typed
<1>10. Queued'
  BY <1>1 DEF IInv, Queued
<1>11. Logged'
  BY <1>1, <1>3, <1>5, <1>8 DEF IInv, Logged, Kept
<1>12. Ordered'
  <2>1. \A f, g \in StoredIn(S) : /\ Lower(S, f, g) <=> Lower(R, f, g)
                                  /\ Sooner(S, f, g) <=> Sooner(R, f, g)
    BY <1>8, SameOrder DEF Kept
  <2>2. StoredIn(S) \subseteq StoredIn(R)
    BY <1>8 DEF Kept
  <2>3. QED
    BY <1>1, <1>3, <1>5, <2>1, <2>2 DEF IInv, Ordered
<1>13. Serving(row)'
  <2>1. Headed(row, altered)'
    BY <1>1, <1>5, <1>8 DEF Headed
  <2>2. QED
    BY <1>1, <2>1 DEF Serving
<1>14. \A c \in Calls : call'[c] # None => Continues(row', call'[c])
  <2>1. ASSUME NEW c \in Calls, call'[c] # None
        PROVE  Continues(row', call'[c])
    <3>1. PICK w : w = call[c]
      OBVIOUS
    <3>2. w \in Write /\ Continues(R, w) /\ call'[c] = w
      BY <1>1, <1>3, <2>1, <3>1 DEF IInv, Typed
    <3>3. Continues(S, w)
      BY <1>7, <1>8, <3>2, LatestStays
    <3>4. QED
      BY <1>5, <3>2, <3>3
  <2>2. QED
    BY <2>1
<1>15. QED
  BY <1>1, <1>9, <1>10, <1>11, <1>12, <1>13, <1>14 DEF IInv

LEMMA NextKeeps == ASSUME IInv, [Next]_vars PROVE IInv'
<1>1. ASSUME UNCHANGED vars PROVE IInv'
  <2>1. UNCHANGED <<row, clock, call, rebuilt, appended, altered, disordered>>
    BY <1>1 DEF vars
  <2>2. Typed' /\ Queued'
    BY <2>1 DEF IInv, Typed, Queued
  <2>3. Logged' /\ Ordered'
    BY <2>1, SameLog
  <2>4. QED
    BY <2>1, <2>2, <2>3 DEF IInv, Serving
<1>2. QED
  BY <1>1, RecordKeeps, InsertsKeeps, WriteFailsKeeps, RestartsKeeps, RebuildsKeeps,
     ServesKeeps, ClockMovesKeeps, AltersKeeps DEF Next

-----------------------------------------------------------------------------
(* The properties *)

\* In every reachable state: one write is under way at a time and continues the
\* latest row, what has been rebuilt is in place, and every change has left a trace.
THEOREM Inductive == Spec => []IInv
<1>1. Init => IInv
  BY InitInv
<1>2. IInv /\ [Next]_vars => IInv'
  BY NextKeeps
<1>3. QED
  BY <1>1, <1>2, PTL DEF Spec

\* Every value has its type, and every row that is stored was appended.
THEOREM TypeCorrect == Spec => []TypeOK
<1>1. IInv => TypeOK
  <2> SUFFICES ASSUME IInv PROVE TypeOK
    OBVIOUS
  <2>1. /\ \A e \in Entries : row[e] # None => row[e] \in AuditRow
        /\ clock \in 0..MaxTime
        /\ \A c \in Calls : call[c] # None => call[c] \in Write
        /\ <<altered, disordered>> \in BOOLEAN \X BOOLEAN
    BY DEF IInv, Typed, Rows
  <2>2. rebuilt # None => rebuilt.count <= Cardinality(Stored)
    BY Terms DEF IInv, UpTo
  <2>3. \A e \in Stored : \E i \in DOMAIN appended : appended[i] = e
    BY Terms DEF IInv, Logged
  <2>4. QED
    BY <2>1, <2>2, <2>3 DEF TypeOK
<1>2. QED
  BY <1>1, Inductive, PTL

\* While the process serves, the verification of the chain succeeds exactly when no
\* row was changed or removed since the rebuilding: no crash, failed write or
\* interleaving of calls breaks the chain, and no later entry covers a change up.
THEOREM VerificationIsExact == Spec => []VerificationTells
<1>1. IInv => VerificationTells
  <2> SUFFICES ASSUME IInv, rebuilt = None PROVE Verified <=> ~altered
    BY DEF VerificationTells
  <2>1. row \in Rows /\ altered \in BOOLEAN /\ Serving(row)
    BY DEF IInv, Typed
  <2>2. CASE ~altered
    <3>1. \A e \in StoredIn(row) : Chained(row, e)
      BY <2>1, <2>2 DEF Serving, Fits
    <3>2. QED
      BY <2>2, <3>1, Terms
  <2>3. CASE altered
    <3>1. Headed(row, TRUE)
      BY <2>1, <2>3 DEF Serving, Headed
    <3>2. \E e \in StoredIn(row) : ~Chained(row, e)
      BY <2>1, <3>1, ChangesAreFound
    <3>3. QED
      BY <2>3, <3>2, Terms
  <2>4. QED
    BY <2>2, <2>3
<1>2. QED
  BY <1>1, Inductive, PTL

\* The log lists the entries in the order in which they were appended, through any
\* number of restarts and rebuildings, while the clock moves forward and no two
\* entries share a timestamp.
THEOREM OrderIsKept == Spec => []AppendOrder
<1>1. IInv => AppendOrder
  <2> SUFFICES ASSUME IInv, rebuilt = None, ~disordered,
                      NEW e \in StoredIn(row), NEW f \in StoredIn(row), Lower(row, e, f)
               PROVE  Position(e) < Position(f)
    BY Terms DEF AppendOrder
  <2>1. row \in Rows /\ appended \in Seq(Entries)
    BY DEF IInv, Typed
  <2>2. PICK i \in DOMAIN appended : appended[i] = e
    BY DEF IInv, Logged
  <2>3. PICK j \in DOMAIN appended : appended[j] = f
    BY DEF IInv, Logged
  <2>4. Position(e) = i /\ Position(f) = j
    <3>1. \A k \in DOMAIN appended : (appended[k] = e => k = i) /\ (appended[k] = f => k = j)
      BY <2>2, <2>3 DEF IInv, Logged
    <3>2. QED
      BY <2>2, <2>3, <3>1 DEF Position
  <2>5. Sooner(row, e, f)
    BY DEF IInv, Ordered
  <2>6. ~Sooner(row, f, e) /\ e # f
    BY <2>1, <2>5, SoonerIsOrder
  <2>7. ~(j < i) /\ i # j
    BY <2>2, <2>3, <2>6 DEF IInv, Ordered
  <2>8. i \in Nat /\ j \in Nat
    BY <2>1, <2>2, <2>3
  <2>9. QED
    BY <2>4, <2>7, <2>8
<1>2. QED
  BY <1>1, Inductive, PTL
=============================================================================
