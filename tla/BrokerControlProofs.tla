------------------------ MODULE BrokerControlProofs ------------------------
(* Invariance proofs for BrokerControl, for every value of its constants. *)
EXTENDS BrokerControl, FiniteSetTheorems, TLAPS

-----------------------------------------------------------------------------
(* The inductive invariant *)

\* What a handler holds at each stage.
WriteStages == {"temp", "write", "rename", "fallback", "truncate"}

Sane(r) ==
    /\ r.text # Torn
    /\ r.op = "write" /\ r.at # "idle" => r.text # None
    /\ r.at \in WriteStages => r.op = "write"
    /\ r.held # "none" => r.at \in {"write", "truncate"}
    /\ r.mixed => r.at \in WriteStages
    /\ r.at \in {"signal", "wait"} => r.pid # None /\ r.op # "write"

Typed ==
    /\ TypeOK
    /\ \A h \in Handlers : Sane(handler[h])

\* A write that no other has overlapped has both files to itself: what it has written
\* is what it renames, and it replaces what it expected.
AloneInv ==
    \A h \in Writing :
        handler[h].alone =>
            /\ Writing = {h}
            /\ ~handler[h].mixed
            /\ handler[h].at = "write" => handler[h].held = "temp"
            /\ handler[h].at = "rename" => temp \in {handler[h].text, None}
            /\ handler[h].at # "truncate" /\ handler[h].expected # None
                  => file = handler[h].expected

\* Who waits for the end of a process holds the lock, and has taken the process
\* from the supervisor; no process runs that neither of them knows, but one that
\* was abandoned.
Waits(h) == handler[h].at = "wait"
SupervisorInv ==
    /\ \A g, h \in Handlers : Waits(g) /\ Waits(h) => g = h
    /\ \A h \in Handlers : Waits(h) => child = None
    /\ ~abandoned => \A p \in Pids : Runs(p) =>
          p = child \/ \E h \in Handlers : Waits(h) /\ handler[h].pid = p

\* A reload about to signal a process that is no longer the supervisor's finds that
\* its successor has read the file since, or is about to.
ReloadInv ==
    \A h \in Handlers :
        handler[h].at = "signal" /\ ~handler[h].dirty /\ child # None =>
            child = handler[h].pid \/ UpToDate(child)

IInv == Typed /\ FileWhole /\ AloneInv /\ SupervisorInv /\ ReloadInv

-----------------------------------------------------------------------------
(* Types *)

LEMMA IdleTypes ==
  /\ IdleHandler \in HandlerRecord /\ IdleCall \in CallRecord
  /\ Sane(IdleHandler) /\ IdleHandler.at = "idle" /\ ~IdleHandler.alone /\ IdleHandler.held = "none"
  /\ Started \in Process /\ \A state \in {"unused", "running", "ending", "dead"} : InState(state) \in Process
BY BrokerAssumption DEF Sane, WriteStages, IdleHandler, HandlerRecord, IdleCall, CallRecord, Started, InState, Process

LEMMA AwaitingType ==
  ASSUME TypeOK, NEW c \in Calls, NEW op \in {"reload", "restart", call[c].op},
         call' = [call EXCEPT ![c].at = "await", ![c].op = op]
  PROVE  call' \in [Calls -> CallRecord]
<1>1. PICK q : q = call[c]
  OBVIOUS
<1>2. q \in CallRecord
  BY <1>1 DEF TypeOK
<1>3. op \in {"reload", "restart", q.op}
  BY <1>1
<1>4. [q EXCEPT !.at = "await", !.op = op] \in CallRecord
  BY ONLY <1>2, <1>3 DEF CallRecord
<1>5. call' = [call EXCEPT ![c] = [q EXCEPT !.at = "await", !.op = op]]
  BY <1>1
<1>6. QED
  BY <1>4, <1>5 DEF TypeOK

LEMMA AnsweredType ==
  ASSUME TypeOK, NEW h \in Handlers
  PROVE  Answered(h) \in [Calls -> CallRecord]
BY IdleTypes DEF TypeOK, Answered

\* The changes of a handler, and what each of them leaves alone.
Disowned(q) == [q EXCEPT !.call = None]
AsDirty(q, b) == [q EXCEPT !.dirty = b]
AsMixed(q, b) == [q EXCEPT !.mixed = b]
AsAlone(q, b) == [q EXCEPT !.alone = b]
HeldAs(q, n) == [q EXCEPT !.held = n]
Begun(q, b) == [q EXCEPT !.at = "temp", !.alone = b]
Touching(q, x, n, b) == [q EXCEPT !.at = x, !.held = n, !.mixed = b]
Closing(q, x) == [q EXCEPT !.at = x, !.held = "none", !.mixed = FALSE]
Signalling(q, x, p) == [q EXCEPT !.at = x, !.pid = p]

Names == {"none", "temp", "file", "gone"}

Alike(r, q) ==
    /\ r \in HandlerRecord /\ r.op = q.op /\ r.at = q.at /\ r.text = q.text
    /\ r.expected = q.expected /\ r.pid = q.pid

AlikeBut(r, q, x) ==
    /\ r \in HandlerRecord /\ r.at = x /\ r.op = q.op /\ r.text = q.text
    /\ r.expected = q.expected

LEMMA DisownedType ==
  ASSUME NEW q \in HandlerRecord
  PROVE  /\ Alike(Disowned(q), q)
         /\ Disowned(q).held = q.held /\ Disowned(q).mixed = q.mixed
         /\ Disowned(q).alone = q.alone /\ Disowned(q).dirty = q.dirty
<1>1. Alike(Disowned(q), q)
  BY Zenon DEF Disowned, Alike, HandlerRecord
<1>2. /\ Disowned(q).held = q.held /\ Disowned(q).mixed = q.mixed
      /\ Disowned(q).alone = q.alone /\ Disowned(q).dirty = q.dirty
  BY Zenon DEF Disowned, HandlerRecord
<1>3. QED
  BY <1>1, <1>2

LEMMA AsDirtyType ==
  ASSUME NEW q \in HandlerRecord, NEW b \in BOOLEAN
  PROVE  /\ Alike(AsDirty(q, b), q)
         /\ AsDirty(q, b).held = q.held /\ AsDirty(q, b).mixed = q.mixed
         /\ AsDirty(q, b).alone = q.alone /\ AsDirty(q, b).dirty = b
<1>1. Alike(AsDirty(q, b), q)
  BY Zenon DEF AsDirty, Alike, HandlerRecord
<1>2. /\ AsDirty(q, b).held = q.held /\ AsDirty(q, b).mixed = q.mixed
      /\ AsDirty(q, b).alone = q.alone /\ AsDirty(q, b).dirty = b
  BY Zenon DEF AsDirty, HandlerRecord
<1>3. QED
  BY <1>1, <1>2

LEMMA AsMixedType ==
  ASSUME NEW q \in HandlerRecord, NEW b \in BOOLEAN
  PROVE  /\ Alike(AsMixed(q, b), q) /\ AsMixed(q, b).alone = q.alone
         /\ AsMixed(q, b).held = q.held /\ AsMixed(q, b).mixed = b
         /\ AsMixed(q, b).dirty = q.dirty
<1>1. Alike(AsMixed(q, b), q) /\ AsMixed(q, b).alone = q.alone
  BY Zenon DEF AsMixed, Alike, HandlerRecord
<1>2. /\ AsMixed(q, b).held = q.held /\ AsMixed(q, b).mixed = b
      /\ AsMixed(q, b).dirty = q.dirty
  BY Zenon DEF AsMixed, HandlerRecord
<1>3. QED
  BY <1>1, <1>2

LEMMA AsAloneType ==
  ASSUME NEW q \in HandlerRecord, NEW b \in BOOLEAN
  PROVE  /\ Alike(AsAlone(q, b), q)
         /\ AsAlone(q, b).held = q.held /\ AsAlone(q, b).mixed = q.mixed
         /\ AsAlone(q, b).dirty = q.dirty /\ AsAlone(q, b).alone = b
<1>1. Alike(AsAlone(q, b), q)
  BY Zenon DEF AsAlone, Alike, HandlerRecord
<1>2. /\ AsAlone(q, b).held = q.held /\ AsAlone(q, b).mixed = q.mixed
      /\ AsAlone(q, b).dirty = q.dirty /\ AsAlone(q, b).alone = b
  BY Zenon DEF AsAlone, HandlerRecord
<1>3. QED
  BY <1>1, <1>2

LEMMA HeldAsType ==
  ASSUME NEW q \in HandlerRecord, NEW n \in Names
  PROVE  /\ Alike(HeldAs(q, n), q)
         /\ HeldAs(q, n).held = n /\ HeldAs(q, n).mixed = q.mixed
         /\ HeldAs(q, n).alone = q.alone /\ HeldAs(q, n).dirty = q.dirty
<1>1. Alike(HeldAs(q, n), q)
  BY Zenon DEF HeldAs, Alike, HandlerRecord, Names
<1>2. /\ HeldAs(q, n).held = n /\ HeldAs(q, n).mixed = q.mixed
      /\ HeldAs(q, n).alone = q.alone /\ HeldAs(q, n).dirty = q.dirty
  BY Zenon DEF HeldAs, HandlerRecord, Names
<1>3. QED
  BY <1>1, <1>2

LEMMA BegunType ==
  ASSUME NEW q \in HandlerRecord, NEW b \in BOOLEAN
  PROVE  /\ AlikeBut(Begun(q, b), q, "temp")
         /\ Begun(q, b).held = q.held /\ Begun(q, b).mixed = q.mixed
         /\ Begun(q, b).alone = b
<1>1. AlikeBut(Begun(q, b), q, "temp")
  BY Zenon DEF Begun, AlikeBut, HandlerRecord
<1>2. /\ Begun(q, b).held = q.held /\ Begun(q, b).mixed = q.mixed
      /\ Begun(q, b).alone = b
  BY Zenon DEF Begun, HandlerRecord
<1>3. QED
  BY <1>1, <1>2

LEMMA TouchingType ==
  ASSUME NEW q \in HandlerRecord, NEW x \in {"write", "truncate"}, NEW n \in Names, NEW b \in BOOLEAN
  PROVE  /\ AlikeBut(Touching(q, x, n, b), q, x)
         /\ Touching(q, x, n, b).held = n /\ Touching(q, x, n, b).mixed = b
         /\ Touching(q, x, n, b).alone = q.alone
<1> DEFINE r == Touching(q, x, n, b)
<1>1. r \in HandlerRecord
  <2>1. n \in {"none", "temp", "file", "gone"} /\ x \in {"write", "truncate"} /\ b \in BOOLEAN
    BY DEF Names
  <2>2. QED
    BY ONLY <2>1, q \in HandlerRecord DEF Touching, HandlerRecord
<1>3. r.at = x /\ r.op = q.op /\ r.text = q.text /\ r.expected = q.expected
  BY Zenon DEF Touching, HandlerRecord
<1>4. AlikeBut(r, q, x)
  BY <1>1, <1>3 DEF AlikeBut
<1>2. /\ Touching(q, x, n, b).held = n /\ Touching(q, x, n, b).mixed = b
      /\ Touching(q, x, n, b).alone = q.alone
  BY Zenon DEF Touching, HandlerRecord, Names
<1>5. QED
  BY <1>2, <1>4

LEMMA ClosingType ==
  ASSUME NEW q \in HandlerRecord, NEW x \in {"rename", "fallback"}
  PROVE  /\ AlikeBut(Closing(q, x), q, x)
         /\ Closing(q, x).held = "none" /\ ~Closing(q, x).mixed
         /\ Closing(q, x).alone = q.alone
<1>1. AlikeBut(Closing(q, x), q, x)
  BY Zenon DEF Closing, AlikeBut, HandlerRecord
<1>2. /\ Closing(q, x).held = "none" /\ ~Closing(q, x).mixed
      /\ Closing(q, x).alone = q.alone
  BY Zenon DEF Closing, HandlerRecord
<1>3. QED
  BY <1>1, <1>2

LEMMA SignallingType ==
  ASSUME NEW q \in HandlerRecord, NEW x \in {"signal", "wait"}, NEW p \in Pids
  PROVE  /\ AlikeBut(Signalling(q, x, p), q, x)
         /\ Signalling(q, x, p).held = q.held /\ Signalling(q, x, p).mixed = q.mixed
         /\ Signalling(q, x, p).pid = p
<1>1. AlikeBut(Signalling(q, x, p), q, x)
  BY Zenon DEF Signalling, AlikeBut, HandlerRecord
<1>2. /\ Signalling(q, x, p).held = q.held /\ Signalling(q, x, p).mixed = q.mixed
      /\ Signalling(q, x, p).pid = p
  BY Zenon DEF Signalling, HandlerRecord
<1>3. QED
  BY <1>1, <1>2

\* Sane needs no more of a handler than this.
LEMMA AlikeIsSane ==
  ASSUME NEW q, NEW r, Sane(q), Alike(r, q),
         r.held # "none" => q.held # "none",
         r.mixed => q.mixed \/ q.held # "none"
  PROVE  Sane(r) /\ r \in HandlerRecord
BY DEF Sane, Alike, WriteStages

LEMMA HandlerType ==
  ASSUME Typed, NEW h \in Handlers
  PROVE  handler[h] \in HandlerRecord /\ Sane(handler[h])
BY Zenon DEF Typed, TypeOK

\* A handler that ends; the others stay as they are.
LEMMA EndsType ==
  ASSUME Typed, NEW h \in Handlers, Ends(h)
  PROVE  /\ call' \in [Calls -> CallRecord]
         /\ handler' \in [Handlers -> HandlerRecord]
         /\ \A g \in Handlers : Sane(handler'[g])
         /\ handler'[h] = IdleHandler
         /\ \A g \in Handlers \ {h} : handler'[g] = handler[g]
BY AnsweredType, IdleTypes DEF Typed, TypeOK, Ends

\* A write that closes what it has open, and goes on.
LEMMA ClosesType ==
  ASSUME Typed, NEW h \in Handlers, NEW x \in {"rename", "fallback"},
         handler[h].at \in WriteStages
  PROVE  /\ Closes(h, x) \in [Handlers -> HandlerRecord]
         /\ \A g \in Handlers : Sane(Closes(h, x)[g])
         /\ Closes(h, x)[h] = Closing(handler[h], x)
         /\ \A g \in Handlers \ {h} : Closes(h, x)[g] = handler[g]
<1>1. handler[h] \in HandlerRecord /\ Sane(handler[h])
  BY HandlerType
<1>2. Closing(handler[h], x) \in HandlerRecord /\ Sane(Closing(handler[h], x))
  BY <1>1, ClosingType DEF Sane, AlikeBut, WriteStages
<1>3. Closes(h, x) = [handler EXCEPT ![h] = Closing(handler[h], x)]
  BY DEF Closes, Closing
<1>4. QED
  BY <1>2, <1>3, HandlerType DEF Typed, TypeOK

\* The fallback begins, and the temporary file may be gone.
LEMMA AtomicFailsType ==
  ASSUME Typed, NEW h \in Handlers, AtomicFails(h)
  PROVE  /\ handler' \in [Handlers -> HandlerRecord]
         /\ \A g \in Handlers : Sane(handler'[g])
         /\ AlikeBut(handler'[h], handler[h], "fallback")
         /\ handler'[h].alone = handler[h].alone /\ ~handler'[h].mixed
         /\ \A g \in Handlers \ {h} :
               /\ Alike(handler'[g], handler[g])
               /\ handler'[g].alone = handler[g].alone /\ handler'[g].dirty = handler[g].dirty
<1>1. handler[h].at \in WriteStages
  BY DEF AtomicFails, WriteStages
<1> DEFINE c == Closes(h, "fallback")
<1>2. /\ c \in [Handlers -> HandlerRecord] /\ \A g \in Handlers : Sane(c[g])
      /\ c[h] = Closing(handler[h], "fallback")
      /\ \A g \in Handlers \ {h} : c[g] = handler[g]
  BY <1>1, ClosesType
<1>3. /\ AlikeBut(c[h], handler[h], "fallback")
      /\ c[h].alone = handler[h].alone /\ ~c[h].mixed
  BY <1>2, HandlerType, ClosingType
<1> HIDE DEF c
<1>4. CASE handler' = c
  BY <1>2, <1>3, <1>4 DEF Alike
<1>5. CASE handler' = [g \in Handlers |-> [c[g] EXCEPT !.held = IF @ = "temp" THEN "gone" ELSE @]]
  <2>1. ASSUME NEW g \in Handlers
        PROVE  /\ Alike(handler'[g], c[g]) /\ Sane(handler'[g])
               /\ handler'[g].alone = c[g].alone /\ handler'[g].dirty = c[g].dirty
               /\ handler'[g].mixed = c[g].mixed
    <3>1. PICK n \in Names : /\ handler'[g] = HeldAs(c[g], n)
                             /\ n # "none" => c[g].held # "none"
      <4>1. handler'[g] = HeldAs(c[g], IF c[g].held = "temp" THEN "gone" ELSE c[g].held)
        BY <1>5 DEF HeldAs
      <4>2. c[g].held \in Names
        BY <1>2 DEF HandlerRecord, Names
      <4>3. QED
        BY <4>1, <4>2 DEF Names
    <3>2. c[g] \in HandlerRecord /\ Sane(c[g])
      BY <1>2
    <3>3. /\ Alike(handler'[g], c[g])
          /\ handler'[g].alone = c[g].alone /\ handler'[g].dirty = c[g].dirty
          /\ handler'[g].mixed = c[g].mixed /\ handler'[g].held = n
      BY <3>1, <3>2, HeldAsType
    <3>4. QED
      BY <3>1, <3>2, <3>3, AlikeIsSane
  <2>2. handler' \in [Handlers -> HandlerRecord]
    BY <1>5, <2>1 DEF Alike
  <2>3. AlikeBut(handler'[h], handler[h], "fallback")
    BY <1>3, <2>1 DEF Alike, AlikeBut
  <2>4. \A g \in Handlers \ {h} : Alike(handler'[g], handler[g])
    BY <1>2, <2>1
  <2>5. QED
    BY <1>2, <1>3, <2>1, <2>2, <2>3, <2>4
<1>6. QED
  BY <1>4, <1>5 DEF AtomicFails, c

\* A handler takes a process from the supervisor, or its process id.
LEMMA PidType ==
  ASSUME Typed, NEW h \in Handlers, NEW p \in Pids, NEW at \in {"signal", "wait"},
         handler[h].at = "arrived", handler[h].op # "write",
         handler' = [handler EXCEPT ![h].at = at, ![h].pid = p]
  PROVE  /\ handler' \in [Handlers -> HandlerRecord]
         /\ \A g \in Handlers : Sane(handler'[g])
         /\ handler'[h] = Signalling(handler[h], at, p)
         /\ \A g \in Handlers \ {h} : handler'[g] = handler[g]
<1>1. handler[h] \in HandlerRecord /\ Sane(handler[h]) /\ p # None
  BY BrokerAssumption, HandlerType DEF Pids
<1>2. /\ AlikeBut(Signalling(handler[h], at, p), handler[h], at)
      /\ Signalling(handler[h], at, p).held = handler[h].held
      /\ Signalling(handler[h], at, p).mixed = handler[h].mixed
      /\ Signalling(handler[h], at, p).pid = p
  BY <1>1, SignallingType
<1>3. /\ Signalling(handler[h], at, p) \in HandlerRecord
      /\ Sane(Signalling(handler[h], at, p))
  BY <1>1, <1>2 DEF Sane, AlikeBut, WriteStages
<1>4. handler' = [handler EXCEPT ![h] = Signalling(handler[h], at, p)]
  BY DEF Signalling
<1>5. QED
  BY <1>3, <1>4, HandlerType DEF Typed, TypeOK

\* Handlers as they may be.
Held(others) == \A g \in Handlers : others[g] \in HandlerRecord /\ Sane(others[g])

LEMMA DirtiedType ==
  ASSUME NEW others, Held(others),
         handler' = Dirtied(others)
  PROVE  /\ handler' \in [Handlers -> HandlerRecord]
         /\ \A g \in Handlers : Sane(handler'[g])
         /\ \A g \in Handlers :
               /\ handler'[g].at = others[g].at
               /\ handler'[g].op = others[g].op
               /\ handler'[g].pid = others[g].pid
               /\ handler'[g].expected = others[g].expected
               /\ handler'[g].alone = others[g].alone
               /\ handler'[g].mixed = others[g].mixed
               /\ handler'[g].held = others[g].held
               /\ others[g].at = "signal" => handler'[g].dirty
<1>1. \A g \in Handlers : \E b \in BOOLEAN :
          /\ handler'[g] = AsDirty(others[g], b)
          /\ b = (others[g].at # "idle" /\ others[g].op # "write")
  BY DEF Dirtied, AsDirty
<1>2. ASSUME NEW g \in Handlers
      PROVE  /\ Alike(handler'[g], others[g]) /\ Sane(handler'[g])
             /\ handler'[g].alone = others[g].alone
             /\ handler'[g].mixed = others[g].mixed
             /\ handler'[g].held = others[g].held
             /\ others[g].at = "signal" => handler'[g].dirty
  <2>1. others[g] \in HandlerRecord /\ Sane(others[g])
    BY DEF Held
  <2>2. PICK b \in BOOLEAN : /\ handler'[g] = AsDirty(others[g], b)
                             /\ b = (others[g].at # "idle" /\ others[g].op # "write")
    BY <1>1
  <2>3. /\ Alike(handler'[g], others[g]) /\ handler'[g].alone = others[g].alone
        /\ handler'[g].held = others[g].held /\ handler'[g].mixed = others[g].mixed
        /\ handler'[g].dirty = b
    BY ONLY <2>1, <2>2, AsDirtyType
  <2>4. Sane(handler'[g])
    BY <2>1, <2>3, AlikeIsSane
  <2>5. others[g].at = "signal" => handler'[g].dirty
    BY <2>1, <2>2, <2>3 DEF Sane
  <2>6. QED
    BY <2>3, <2>4, <2>5
<1>3. handler' \in [Handlers -> HandlerRecord]
  BY <1>2 DEF Alike, Dirtied
<1>4. QED
  BY <1>2, <1>3 DEF Alike

\* A write that begins; those under way are not alone any more.
LEMMA BeginsType ==
  ASSUME Typed, NEW h \in Handlers, WriteBegins(h),
         handler[h].at = "arrived", handler[h].op = "write"
  PROVE  /\ handler' \in [Handlers -> HandlerRecord]
         /\ \A g \in Handlers : Sane(handler'[g])
         /\ \A g \in Handlers \ {h} :
               /\ Alike(handler'[g], handler[g]) /\ ~handler'[g].alone
               /\ handler'[g].dirty = handler[g].dirty
         /\ handler'[h].at = "temp" /\ handler'[h].expected = handler[h].expected
         /\ ~handler'[h].mixed
         /\ handler'[h].alone => Writing = {}
<1>1. PICK b \in BOOLEAN : b = (Writing = {})
  OBVIOUS
<1>2. /\ handler'[h] = Begun(handler[h], b)
      /\ \A g \in Handlers \ {h} : handler'[g] = AsAlone(handler[g], FALSE)
      /\ handler' = [g \in Handlers |-> handler'[g]]
  BY <1>1 DEF WriteBegins, Begun, AsAlone
<1>3. ASSUME NEW g \in Handlers \ {h}
      PROVE  /\ Alike(handler'[g], handler[g]) /\ ~handler'[g].alone
             /\ handler'[g].dirty = handler[g].dirty
             /\ handler'[g].held = handler[g].held /\ handler'[g].mixed = handler[g].mixed
  <2>1. handler[g] \in HandlerRecord /\ handler'[g] = AsAlone(handler[g], FALSE)
    BY <1>2, HandlerType
  <2>2. QED
    BY <2>1, AsAloneType
<1>4. /\ AlikeBut(handler'[h], handler[h], "temp") /\ handler'[h].alone = b
      /\ handler'[h].held = handler[h].held /\ handler'[h].mixed = handler[h].mixed
  <2>1. handler[h] \in HandlerRecord /\ handler'[h] = Begun(handler[h], b)
    BY <1>2, HandlerType
  <2>2. QED
    BY ONLY <2>1, BegunType
<1>5. handler'[h] \in HandlerRecord /\ Sane(handler'[h]) /\ ~handler'[h].mixed
  BY <1>4, HandlerType DEF AlikeBut, Sane, WriteStages
<1>6. \A g \in Handlers : handler'[g] \in HandlerRecord /\ Sane(handler'[g])
  BY <1>3, <1>5, HandlerType, AlikeIsSane
<1>7. handler' \in [Handlers -> HandlerRecord]
  BY <1>2, <1>6
<1>8. QED
  BY <1>1, <1>3, <1>4, <1>5, <1>6, <1>7 DEF AlikeBut

\* A write that empties or overwrites a file; those that have it open, mix with it.
LEMMA TouchesType ==
  ASSUME Typed, NEW h \in Handlers, handler[h].at \in WriteStages,
         NEW n \in {"temp", "file"}, NEW x \in {"write", "truncate"}
  PROVE  /\ Held(Touches(h, n, x))
         /\ Touches(h, n, x) \in [Handlers -> HandlerRecord]
         /\ AlikeBut(Touches(h, n, x)[h], handler[h], x)
         /\ Touches(h, n, x)[h].held = n
         /\ Touches(h, n, x)[h].alone = handler[h].alone
         /\ Touches(h, n, x)[h].mixed => Writing # {h}
         /\ \A g \in Handlers \ {h} :
               /\ Alike(Touches(h, n, x)[g], handler[g])
               /\ Touches(h, n, x)[g].alone = handler[g].alone
               /\ Touches(h, n, x)[g].dirty = handler[g].dirty
<1> DEFINE rivals == {g \in Handlers \ {h} : handler[g].held = n}
           others == Touches(h, n, x)
<1>1. rivals # {} => Writing # {h}
  BY HandlerType DEF Sane, Writing
<1>2. /\ others[h] = Touching(handler[h], x, n, rivals # {})
      /\ \A g \in Handlers \ {h} : others[g] = AsMixed(handler[g], handler[g].mixed \/ g \in rivals)
      /\ others = [g \in Handlers |-> others[g]]
  BY DEF Touches, Touching, AsMixed
<1> HIDE DEF others
<1>3. ASSUME NEW g \in Handlers \ {h}
      PROVE  /\ Alike(others[g], handler[g]) /\ others[g].alone = handler[g].alone
             /\ others[g].dirty = handler[g].dirty
             /\ others[g] \in HandlerRecord /\ Sane(others[g])
  <2> DEFINE b == handler[g].mixed \/ g \in rivals
  <2>1. handler[g] \in HandlerRecord /\ Sane(handler[g]) /\ others[g] = AsMixed(handler[g], b)
    BY <1>2, HandlerType
  <2>2. b \in BOOLEAN /\ (b => handler[g].mixed \/ handler[g].held # "none")
    OBVIOUS
  <2> HIDE DEF b
  <2>3. /\ Alike(others[g], handler[g]) /\ others[g].alone = handler[g].alone
        /\ others[g].held = handler[g].held /\ others[g].mixed = b
        /\ others[g].dirty = handler[g].dirty
    BY <2>1, <2>2, AsMixedType
  <2>4. QED
    BY <2>1, <2>2, <2>3, AlikeIsSane
<1>4. /\ AlikeBut(others[h], handler[h], x) /\ others[h].held = n
      /\ others[h].alone = handler[h].alone /\ others[h].mixed = (rivals # {})
  <2>1. PICK b \in BOOLEAN : b = (rivals # {})
    OBVIOUS
  <2> HIDE DEF rivals
  <2>2. n \in Names /\ handler[h] \in HandlerRecord /\ others[h] = Touching(handler[h], x, n, b)
    BY <1>2, <2>1, HandlerType DEF Names
  <2>3. /\ AlikeBut(others[h], handler[h], x) /\ others[h].held = n
        /\ others[h].alone = handler[h].alone /\ others[h].mixed = b
    BY ONLY <2>2, b \in BOOLEAN, x \in {"write", "truncate"}, TouchingType
  <2>4. QED
    BY <2>1, <2>3
<1> HIDE DEF rivals
<1>5. others[h] \in HandlerRecord /\ Sane(others[h])
  BY <1>4, HandlerType DEF AlikeBut, Sane, WriteStages
<1>6. \A g \in Handlers : others[g] \in HandlerRecord /\ Sane(others[g])
  BY <1>3, <1>5
<1>7. others \in [Handlers -> HandlerRecord]
  BY <1>2, <1>6
<1>8. QED
  BY <1>1, <1>3, <1>4, <1>6, <1>7 DEF others, Held

\* What the handlers are after the file has changed under them: a reload is marked, a
\* restart goes on, and no write is more alone than before.
GoesOn(r, q) ==
    /\ r.at = "wait" => q.at = "wait"
    /\ q.at = "wait" => r.at = "wait" /\ r.pid = q.pid
    /\ r.alone => q.alone
    /\ r.at \in WriteStages => q.at \in WriteStages
Follows(r, q) == GoesOn(r, q) /\ (r.at = "signal" => r.dirty)

LEMMA FollowsType ==
  ASSUME NEW others, NEW h \in Handlers, handler' = Dirtied(others),
         Held(others), \A g \in Handlers : GoesOn(others[g], handler[g])
  PROVE  /\ handler' \in [Handlers -> HandlerRecord]
         /\ \A g \in Handlers : Sane(handler'[g]) /\ Follows(handler'[g], handler[g])
         /\ handler'[h].at = others[h].at /\ handler'[h].mixed = others[h].mixed
         /\ \A g \in Handlers : handler'[g].held = others[g].held
<1>1. /\ handler' \in [Handlers -> HandlerRecord]
      /\ \A g \in Handlers :
            /\ Sane(handler'[g])
            /\ handler'[g].at = others[g].at /\ handler'[g].pid = others[g].pid
            /\ handler'[g].alone = others[g].alone
            /\ handler'[g].mixed = others[g].mixed
            /\ handler'[g].held = others[g].held
            /\ others[g].at = "signal" => handler'[g].dirty
  BY DirtiedType
<1>2. ASSUME NEW g \in Handlers PROVE Follows(handler'[g], handler[g])
  <2>1. GoesOn(handler'[g], handler[g])
    BY <1>1 DEF GoesOn
  <2>2. handler'[g].at = "signal" => handler'[g].dirty
    BY <1>1
  <2>3. QED
    BY <2>1, <2>2 DEF Follows
<1>3. QED
  BY <1>1, <1>2

LEMMA RenameType ==
  ASSUME Typed, NEW h \in Handlers, Rename(h)
  PROVE  /\ handler' \in [Handlers -> HandlerRecord]
         /\ \A g \in Handlers : Sane(handler'[g]) /\ Follows(handler'[g], handler[g])
         /\ handler'[h].at = "idle"
<1> DEFINE others == [g \in Handlers |->
        IF g = h THEN IdleHandler
        ELSE [handler[g] EXCEPT !.held =
                 CASE @ = "temp" -> "file" [] @ = "file" -> "gone" [] OTHER -> @]]
<1>1. handler' = Dirtied(others) /\ handler[h].at = "rename"
  BY DEF Rename
<1>2. others[h].at = "idle" /\ ~others[h].alone /\ others[h] \in HandlerRecord /\ Sane(others[h])
  BY IdleTypes
<1>3. ASSUME NEW g \in Handlers \ {h}
      PROVE  /\ others[g] \in HandlerRecord /\ Sane(others[g])
             /\ GoesOn(others[g], handler[g])
  <2>1. PICK n \in Names : /\ others[g] = HeldAs(handler[g], n)
                           /\ n # "none" => handler[g].held # "none"
    <3>1. handler[g].held \in Names
      BY HandlerType DEF HandlerRecord, Names
    <3>2. others[g] = HeldAs(handler[g],
             CASE handler[g].held = "temp" -> "file"
               [] handler[g].held = "file" -> "gone" [] OTHER -> handler[g].held)
      BY DEF HeldAs
    <3> HIDE DEF others
    <3>3. CASE handler[g].held = "temp"
      BY <3>2, <3>3 DEF Names
    <3>4. CASE handler[g].held = "file"
      BY <3>2, <3>4 DEF Names
    <3>5. CASE handler[g].held \notin {"temp", "file"}
      BY <3>1, <3>2, <3>5
    <3>6. QED
      BY <3>3, <3>4, <3>5
  <2> HIDE DEF others
  <2>2. handler[g] \in HandlerRecord /\ Sane(handler[g])
    BY HandlerType
  <2>3. /\ Alike(others[g], handler[g]) /\ others[g].alone = handler[g].alone
        /\ others[g].held = n /\ others[g].mixed = handler[g].mixed
    BY <2>1, <2>2, HeldAsType
  <2>4. others[g] \in HandlerRecord /\ Sane(others[g])
    BY <2>1, <2>2, <2>3, AlikeIsSane
  <2>5. GoesOn(others[g], handler[g])
    BY <2>3 DEF Alike, GoesOn
  <2>6. QED
    BY <2>4, <2>5
<1> HIDE DEF others
<1>4. Held(others)
  BY <1>2, <1>3 DEF Held
<1>5. \A g \in Handlers : GoesOn(others[g], handler[g])
  BY <1>1, <1>2, <1>3 DEF GoesOn, WriteStages
<1>6. QED
  BY <1>1, <1>2, <1>4, <1>5, FollowsType

LEMMA InPlaceType ==
  ASSUME Typed, NEW h \in Handlers, WriteInPlace(h)
  PROVE  /\ handler' \in [Handlers -> HandlerRecord]
         /\ \A g \in Handlers : Sane(handler'[g]) /\ Follows(handler'[g], handler[g])
         /\ handler'[h].at = "truncate" /\ handler'[h].held = "file"
         /\ handler'[h].mixed => Writing # {h}
<1> DEFINE others == Touches(h, "file", "truncate")
<1>1. handler' = Dirtied(others) /\ handler[h].at = "fallback" /\ handler[h].at \in WriteStages
  BY DEF WriteInPlace, WriteStages
<1>2. /\ Held(others)
      /\ AlikeBut(others[h], handler[h], "truncate") /\ others[h].held = "file"
      /\ others[h].alone = handler[h].alone /\ (others[h].mixed => Writing # {h})
      /\ \A g \in Handlers \ {h} : Alike(others[g], handler[g]) /\ others[g].alone = handler[g].alone
  BY <1>1, TouchesType
<1> HIDE DEF others
<1>3. ASSUME NEW g \in Handlers PROVE GoesOn(others[g], handler[g])
  <2>1. CASE g = h
    BY <1>1, <1>2, <2>1 DEF AlikeBut, GoesOn, WriteStages
  <2>2. CASE g # h
    BY <1>2, <2>2 DEF Alike, GoesOn
  <2>3. QED
    BY <2>1, <2>2
<1>4. QED
  BY <1>1, <1>2, <1>3, FollowsType DEF AlikeBut

LEMMA RenamedType ==
  ASSUME Typed, NEW h \in Handlers, WriteRenamed(h)
  PROVE  /\ handler' \in [Handlers -> HandlerRecord]
         /\ \A g \in Handlers : Sane(handler'[g]) /\ Follows(handler'[g], handler[g])
         /\ \A g \in Handlers : handler'[g].at = "truncate" <=> handler[g].at = "truncate"
         /\ \A g \in Handlers \ {h} : handler'[g].held = handler[g].held
<1> DEFINE others == Closes(h, "rename")
<1>1. handler' = Dirtied(others) /\ handler[h].at = "write" /\ handler[h].at \in WriteStages
  BY DEF WriteRenamed, WriteStages
<1>2. /\ others \in [Handlers -> HandlerRecord] /\ \A g \in Handlers : Sane(others[g])
      /\ others[h] = Closing(handler[h], "rename")
      /\ \A g \in Handlers \ {h} : others[g] = handler[g]
  BY <1>1, ClosesType
<1> HIDE DEF others
<1>3. Held(others)
  BY <1>2 DEF Held
<1>4. AlikeBut(others[h], handler[h], "rename") /\ others[h].alone = handler[h].alone
  BY <1>2, HandlerType, ClosingType
<1>5. ASSUME NEW g \in Handlers PROVE GoesOn(others[g], handler[g])
  <2>1. CASE g = h
    BY <1>1, <1>4, <2>1 DEF AlikeBut, GoesOn, WriteStages
  <2>2. CASE g # h
    BY <1>2, <2>2 DEF GoesOn
  <2>3. QED
    BY <2>1, <2>2
<1>6. \A g \in Handlers : handler'[g].at = others[g].at
  BY <1>1, <1>3, DirtiedType
<1>7. QED
  BY <1>1, <1>2, <1>3, <1>4, <1>5, <1>6, FollowsType DEF AlikeBut

\* A write in place that ends.
LEMMA InPlaceEndsType ==
  ASSUME Typed, NEW h \in Handlers, Truncate(h) \/ WriteFails(h)
  PROVE  /\ handler' \in [Handlers -> HandlerRecord]
         /\ \A g \in Handlers : Sane(handler'[g]) /\ Follows(handler'[g], handler[g])
         /\ handler'[h].at = "idle"
<1> DEFINE others == [handler EXCEPT ![h] = IdleHandler]
<1>1. others[h] = IdleHandler /\ \A g \in Handlers \ {h} : others[g] = handler[g]
  BY DEF Typed, TypeOK
<1>2. handler' = Dirtied(others) /\ handler[h].at = "truncate"
  BY DEF Truncate, WriteFails
<1> HIDE DEF others
<1>3. Held(others)
  BY <1>1, IdleTypes, HandlerType DEF Held
<1>4. \A g \in Handlers : GoesOn(others[g], handler[g])
  BY <1>1, <1>2, IdleTypes DEF GoesOn, WriteStages
<1>5. QED
  BY <1>1, <1>2, <1>3, <1>4, IdleTypes, FollowsType

LEMMA InitTyped == ASSUME Init PROVE Typed
<1>1. 1 \in Pids /\ Texts \subseteq Contents /\ Torn \notin Texts /\ None # Torn
  BY BrokerAssumption DEF Pids, Contents
<1>2. broker \in [Pids -> Process] /\ call \in [Calls -> CallRecord] /\ handler \in [Handlers -> HandlerRecord]
  BY IdleTypes DEF Init
<1>3. TypeOK
  BY <1>1, <1>2 DEF Init, TypeOK
<1>4. QED
  BY <1>1, <1>3, IdleTypes DEF Init, Typed

LEMMA StepTyped == ASSUME Typed, [Next]_vars PROVE Typed'
<1> USE DEF Typed
<1>1. ASSUME NEW c \in Calls, Pull(c) PROVE Typed'
  BY <1>1 DEF Pull, TypeOK, CallRecord, config, process
<1>2. ASSUME NEW c \in Calls, Push(c) PROVE Typed'
  <2>1. PICK t \in Texts, h \in Handlers :
          /\ handler' = [handler EXCEPT ![h] =
                [IdleHandler EXCEPT !.op = "write", !.at = "arrived", !.call = c,
                                    !.text = t, !.expected = call[c].expected]]
          /\ call' = [call EXCEPT ![c].at = "await", ![c].op = @]
    BY <1>2 DEF Push, Requests
  <2>2. call' \in [Calls -> CallRecord]
    BY <2>1, AwaitingType
  <2> DEFINE r == [IdleHandler EXCEPT !.op = "write", !.at = "arrived", !.call = c,
                                      !.text = t, !.expected = call[c].expected]
  <2>3. r \in HandlerRecord /\ Sane(r) /\ r.at = "arrived"
    BY BrokerAssumption DEF TypeOK, CallRecord, HandlerRecord, IdleHandler, Contents, Sane, WriteStages
  <2> HIDE DEF r
  <2>4. handler' = [handler EXCEPT ![h] = r]
    BY <2>1 DEF r
  <2>5. QED
    BY <1>2, <2>2, <2>3, <2>4 DEF Push, TypeOK, config, process
<1>3. ASSUME NEW c \in Calls, PushRefused(c) PROVE Typed'
  BY <1>3, IdleTypes DEF PushRefused, TypeOK, config, process
<1>4. ASSUME NEW c \in Calls, Import(c) PROVE Typed'
  <2>1. PICK h \in Handlers, t \in Texts :
          handler' = [handler EXCEPT ![h] =
                [IdleHandler EXCEPT !.at = "arrived", !.call = c, !.text = t]]
    BY <1>4 DEF Import
  <2> DEFINE r == [IdleHandler EXCEPT !.at = "arrived", !.call = c, !.text = t]
  <2>2. r \in HandlerRecord /\ Sane(r) /\ r.at = "arrived"
    BY BrokerAssumption DEF HandlerRecord, IdleHandler, Contents, Sane, WriteStages
  <2> HIDE DEF r
  <2>3. handler' = [handler EXCEPT ![h] = r]
    BY <2>1 DEF r
  <2>4. [op |-> "import", at |-> "await", expected |-> None] \in CallRecord
    BY DEF CallRecord
  <2>5. QED
    BY <1>4, <2>2, <2>3, <2>4 DEF Import, TypeOK, config, process
<1>5. ASSUME NEW c \in Calls, Operate(c) PROVE Typed'
  <2>1. PICK op \in {"reload", "restart"}, h \in Handlers :
          /\ handler' = [handler EXCEPT ![h] =
                [IdleHandler EXCEPT !.op = op, !.at = "arrived", !.call = c,
                                    !.text = None, !.expected = None]]
          /\ call' = [call EXCEPT ![c].at = "await", ![c].op = op]
    BY <1>5, BrokerAssumption DEF Operate, Requests
  <2>2. call' \in [Calls -> CallRecord]
    BY <2>1, AwaitingType
  <2> DEFINE r == [IdleHandler EXCEPT !.op = op, !.at = "arrived", !.call = c,
                                      !.text = None, !.expected = None]
  <2>3. r \in HandlerRecord /\ Sane(r) /\ r.at = "arrived"
    BY BrokerAssumption DEF HandlerRecord, IdleHandler, Sane, WriteStages
  <2> HIDE DEF r
  <2>4. handler' = [handler EXCEPT ![h] = r]
    BY <2>1 DEF r
  <2>5. QED
    BY <1>5, <2>2, <2>3, <2>4 DEF Operate, TypeOK, config, process
<1>6. ASSUME NEW c \in Calls, TimesOut(c) PROVE Typed'
  <2>1. \A h \in Handlers : handler'[h] = handler[h] \/ handler'[h] = Disowned(handler[h])
    BY <1>6, Zenon DEF TimesOut, Disowned
  <2>2. ASSUME NEW h \in Handlers PROVE handler'[h] \in HandlerRecord /\ Sane(handler'[h])
    BY <2>1, HandlerType, DisownedType, AlikeIsSane
  <2>3. handler' \in [Handlers -> HandlerRecord]
    BY <1>6, <2>2 DEF TimesOut
  <2>4. QED
    BY <1>6, <2>2, <2>3, IdleTypes DEF TimesOut, TypeOK, config, process
<1>7. ASSUME NEW h \in Handlers, Compare(h) PROVE Typed'
  <2>1. CASE WriteBegins(h) /\ UNCHANGED call
    BY <1>7, <2>1, BeginsType DEF Compare, TypeOK, config, process
  <2>2. CASE Ends(h)
    BY <1>7, <2>2, EndsType DEF Compare, TypeOK, config, process
  <2>3. QED
    BY <1>7, <2>1, <2>2 DEF Compare
<1>8. ASSUME NEW h \in Handlers, OpenTemp(h) PROVE Typed'
  <2>1. Held(Touches(h, "temp", "write")) /\ Touches(h, "temp", "write") \in [Handlers -> HandlerRecord]
    BY <1>8, TouchesType DEF OpenTemp, WriteStages
  <2>2. temp' \in Contents \cup {None} /\ handler' = Touches(h, "temp", "write")
    BY <1>8 DEF OpenTemp, Contents
  <2>3. QED
    BY <1>8, <2>1, <2>2 DEF OpenTemp, TypeOK, process, Held
<1>9. ASSUME NEW h \in Handlers, WriteTemp(h) PROVE Typed'
  <2>1. handler' \in [Handlers -> HandlerRecord] /\ \A g \in Handlers : Sane(handler'[g])
    BY <1>9, ClosesType DEF WriteTemp, WriteStages
  <2>2. temp' \in Contents \cup {None}
    BY <1>9 DEF WriteTemp, Outcomes, TypeOK, HandlerRecord, Contents
  <2>3. QED
    BY <1>9, <2>1, <2>2 DEF WriteTemp, TypeOK, process
<1>10. ASSUME NEW h \in Handlers, Rename(h) PROVE Typed'
  <2>1. handler' \in [Handlers -> HandlerRecord] /\ \A g \in Handlers : Sane(handler'[g])
    BY <1>10, RenameType
  <2>2. broker' \in [Pids -> Process] /\ file' \in Contents /\ temp' = None /\ torn' \in BOOLEAN
    BY <1>10 DEF Rename, Overwrites, FileBecomes, TypeOK, Process
  <2>3. QED
    BY <1>10, <2>1, <2>2, AnsweredType DEF Rename, TypeOK
<1>11. ASSUME NEW h \in Handlers, WriteRenamed(h) \/ Truncate(h) \/ WriteFails(h) PROVE Typed'
  <2>1. handler' \in [Handlers -> HandlerRecord] /\ \A g \in Handlers : Sane(handler'[g])
    BY <1>11, RenamedType, InPlaceEndsType
  <2>2. PICK text \in {Torn} \cup Outcomes(h, file) : FileBecomes(text) /\ torn' \in BOOLEAN
    BY <1>11 DEF WriteRenamed, Truncate, WriteFails, Overwrites
  <2>3. handler[h].text \in Contents
    <3>1. handler[h].at \in WriteStages
      BY <1>11 DEF WriteRenamed, Truncate, WriteFails, WriteStages
    <3>2. QED
      BY <3>1, HandlerType DEF Sane, HandlerRecord, WriteStages
  <2>4. broker' \in [Pids -> Process] /\ file' \in Contents
    BY <2>2, <2>3 DEF FileBecomes, Outcomes, TypeOK, Process, Contents
  <2>5. call' \in [Calls -> CallRecord] /\ UNCHANGED <<temp, child, abandoned>>
    BY <1>11, AnsweredType DEF WriteRenamed, Truncate, WriteFails, TypeOK
  <2>6. QED
    BY <2>1, <2>2, <2>4, <2>5 DEF TypeOK
<1>12. ASSUME NEW h \in Handlers, WriteInPlace(h) PROVE Typed'
  <2>1. handler' \in [Handlers -> HandlerRecord] /\ \A g \in Handlers : Sane(handler'[g])
    BY <1>12, InPlaceType
  <2>2. broker' \in [Pids -> Process] /\ file' \in Contents
    BY <1>12 DEF WriteInPlace, FileBecomes, TypeOK, Process, Contents
  <2>3. QED
    BY <1>12, <2>1, <2>2 DEF WriteInPlace, TypeOK
<1>13. ASSUME NEW h \in Handlers, AtomicFails(h) \/ FallbackFails(h) \/ WriteIsMoot(h) PROVE Typed'
  <2>1. CASE AtomicFails(h)
    BY <2>1, AtomicFailsType DEF AtomicFails, TypeOK, process
  <2>2. CASE Ends(h) /\ UNCHANGED <<config, process>>
    BY <2>2, EndsType DEF TypeOK, config, process
  <2>3. CASE WriteIsMoot(h) /\ ~Ends(h)
    <3>1. handler' = Closes(h, "rename") /\ handler[h].at \in WriteStages
      BY <2>3 DEF WriteIsMoot, WriteStages
    <3>2. handler' \in [Handlers -> HandlerRecord] /\ \A g \in Handlers : Sane(handler'[g])
      BY <3>1, ClosesType
    <3>3. QED
      BY <2>3, <3>2 DEF WriteIsMoot, TypeOK, config, process
  <2>4. QED
    BY <1>13, <2>1, <2>2, <2>3 DEF FallbackFails, WriteIsMoot
<1>14. ASSUME NEW h \in Handlers, ReloadBegins(h) PROVE Typed'
  <2>1. CASE Ends(h) /\ child' \in {None, child}
    BY <1>14, <2>1, EndsType DEF ReloadBegins, TypeOK, config
  <2>2. CASE child # None /\ UNCHANGED <<child, call>>
             /\ handler' = [handler EXCEPT ![h].at = "signal", ![h].pid = child]
    BY <1>14, <2>2, PidType DEF ReloadBegins, TypeOK, config
  <2>3. QED
    BY <1>14, <2>1, <2>2 DEF ReloadBegins
<1>15. ASSUME NEW h \in Handlers, ReloadSignals(h) PROVE Typed'
  <2>1. broker' \in [Pids -> Process]
    <3>1. PICK p : p = handler[h].pid
      OBVIOUS
    <3>2. PICK b \in BOOLEAN : broker' = [broker EXCEPT ![p].due = b]
      BY <1>15, <3>1 DEF ReloadSignals
    <3>3. CASE p \in Pids
      <4>1. PICK q : q = broker[p]
        OBVIOUS
      <4>2. q \in Process
        BY <3>3, <4>1 DEF TypeOK
      <4>3. [q EXCEPT !.due = b] \in Process
        BY ONLY <4>2, <3>2 DEF Process
      <4>4. broker' = [broker EXCEPT ![p] = [q EXCEPT !.due = b]]
        BY <3>2, <4>1
      <4>5. QED
        BY <4>3, <4>4 DEF TypeOK
    <3>4. QED
      BY <3>2, <3>3 DEF TypeOK
  <2>2. QED
    BY <1>15, <2>1, EndsType DEF ReloadSignals, TypeOK, config
<1>16. ASSUME NEW h \in Handlers, RestartBegins(h) PROVE Typed'
  <2>1. CASE child = None /\ Spawns(broker) /\ Ends(h) /\ UNCHANGED abandoned
    BY <1>16, <2>1, EndsType, IdleTypes DEF RestartBegins, Spawns, Fresh, TypeOK, config
  <2>2. CASE Ends(h) /\ child' \in {None, child} /\ UNCHANGED broker /\ abandoned' \in BOOLEAN
    BY <1>16, <2>2, EndsType DEF RestartBegins, TypeOK, config
  <2>3. CASE /\ child # None /\ child' = None
             /\ handler' = [handler EXCEPT ![h].at = "wait", ![h].pid = child]
             /\ broker' = [broker EXCEPT ![child] = InState(IF Runs(child) THEN "ending" ELSE "dead")]
             /\ UNCHANGED <<call, abandoned>>
    <3>1. broker' \in [Pids -> Process]
      BY <2>3, IdleTypes DEF TypeOK
    <3>2. QED
      BY <1>16, <2>3, <3>1, PidType DEF RestartBegins, TypeOK, config
  <2>4. QED
    BY <1>16, <2>1, <2>2, <2>3 DEF RestartBegins, TypeOK
<1>17. ASSUME NEW h \in Handlers, RestartSpawns(h) PROVE Typed'
  BY <1>17, EndsType, IdleTypes DEF RestartSpawns, Spawns, Fresh, TypeOK, config
<1>18. ASSUME NEW h \in Handlers, RestartFails(h) PROVE Typed'
  <2>1. broker' \in [Pids -> Process] /\ abandoned' \in BOOLEAN
    BY <1>18, IdleTypes DEF RestartFails, TypeOK
  <2>2. QED
    BY <1>18, <2>1, EndsType DEF RestartFails, TypeOK, config
<1>19. ASSUME NEW h \in Handlers, Dropped(h) PROVE Typed'
  BY <1>19, IdleTypes DEF Dropped, TypeOK, config
<1>20. ASSUME NEW p \in Pids, BrokerReads(p) \/ BrokerEnds(p) PROVE Typed'
  <2>1. broker' \in [Pids -> Process]
    <3>1. CASE BrokerReads(p)
      <4>1. PICK q : q = broker[p]
        OBVIOUS
      <4>2. q \in Process
        BY <4>1 DEF TypeOK
      <4>3. [q EXCEPT !.due = FALSE, !.current = TRUE] \in Process
        BY ONLY <4>2 DEF Process
      <4>4. broker' = [broker EXCEPT ![p] = [q EXCEPT !.due = FALSE, !.current = TRUE]]
        BY <3>1, <4>1 DEF BrokerReads
      <4>5. QED
        BY <4>3, <4>4 DEF TypeOK
    <3>2. CASE BrokerEnds(p)
      BY <3>2, IdleTypes DEF BrokerEnds, TypeOK
    <3>3. QED
      BY <1>20, <3>1, <3>2
  <2>2. QED
    BY <1>20, <2>1 DEF BrokerReads, BrokerEnds, TypeOK, config
<1>21. ASSUME Health PROVE Typed'
  BY <1>21 DEF Health, TypeOK, config
<1>22. ASSUME AgentRestarts PROVE Typed'
  <2>1. AllStopped \in [Pids -> Process]
    BY IdleTypes DEF AllStopped, TypeOK
  <2>2. PICK p \in Pids : broker' = [AllStopped EXCEPT ![p] = Started] /\ child' = p
    BY <1>22 DEF AgentRestarts, Spawns, Fresh
  <2>3. broker' \in [Pids -> Process] /\ child' \in Pids /\ torn' \in BOOLEAN /\ abandoned' \in BOOLEAN
    BY <1>22, <2>1, <2>2, IdleTypes DEF AgentRestarts
  <2>4. handler' \in [Handlers -> HandlerRecord] /\ call' \in [Calls -> CallRecord]
        /\ \A h \in Handlers : Sane(handler'[h])
    BY <1>22, IdleTypes DEF AgentRestarts, TypeOK
  <2>5. QED
    BY <1>22, <2>3, <2>4 DEF AgentRestarts, TypeOK
<1>23. CASE UNCHANGED vars
  BY <1>23 DEF vars, config, process, TypeOK
<1>24. QED
  BY <1>1, <1>2, <1>3, <1>4, <1>5, <1>6, <1>7, <1>8, <1>9, <1>10, <1>11, <1>12, <1>13, <1>14,
     <1>15, <1>16, <1>17, <1>18, <1>19, <1>20, <1>21, <1>22, <1>23 DEF Next

-----------------------------------------------------------------------------
(* What the steps do to the handlers *)

\* The API's steps start a handler, or take a handler's client away.
LEMMA ApiSteps ==
  ASSUME Typed, NEW c \in Calls,
         Pull(c) \/ Push(c) \/ PushRefused(c) \/ Import(c) \/ Operate(c) \/ TimesOut(c)
  PROVE  /\ UNCHANGED <<file, temp, torn, child, broker, abandoned>>
         /\ \A g \in Handlers :
               \/ handler'[g].at = "arrived" /\ handler[g].at = "idle"
               \/ /\ handler'[g].at = handler[g].at
                  /\ handler'[g].held = handler[g].held
                  /\ handler'[g].mixed = handler[g].mixed
                  /\ handler'[g].text = handler[g].text
                  /\ handler'[g].pid = handler[g].pid
                  /\ handler'[g].expected = handler[g].expected
                  /\ handler'[g].alone = handler[g].alone
                  /\ handler'[g].dirty = handler[g].dirty
<1>1. CASE Pull(c) \/ PushRefused(c)
  BY <1>1 DEF Pull, PushRefused, config, process
<1>2. CASE Push(c) \/ Import(c) \/ Operate(c)
  <2>1. PICK h \in Handlers, r \in HandlerRecord :
          handler[h].at = "idle" /\ handler' = [handler EXCEPT ![h] = r] /\ r.at = "arrived"
    <3>1. CASE Push(c)
      <4>1. PICK t \in Texts, h \in Handlers :
              handler[h].at = "idle" /\ handler' = [handler EXCEPT ![h] =
                [IdleHandler EXCEPT !.op = "write", !.at = "arrived", !.call = c,
                                    !.text = t, !.expected = call[c].expected]]
        BY <3>1 DEF Push, Requests
      <4>2. [IdleHandler EXCEPT !.op = "write", !.at = "arrived", !.call = c,
                                !.text = t, !.expected = call[c].expected] \in HandlerRecord
        BY DEF Typed, TypeOK, CallRecord, HandlerRecord, IdleHandler, Contents
      <4>3. [IdleHandler EXCEPT !.op = "write", !.at = "arrived", !.call = c,
                                !.text = t, !.expected = call[c].expected].at = "arrived"
        BY DEF IdleHandler
      <4>4. QED
        BY <4>1, <4>2, <4>3
    <3>2. CASE Import(c)
      <4>1. PICK t \in Texts, h \in Handlers :
              handler[h].at = "idle" /\ handler' = [handler EXCEPT ![h] =
                [IdleHandler EXCEPT !.at = "arrived", !.call = c, !.text = t]]
        BY <3>2 DEF Import
      <4>2. [IdleHandler EXCEPT !.at = "arrived", !.call = c, !.text = t] \in HandlerRecord
        BY DEF HandlerRecord, IdleHandler, Contents
      <4>3. [IdleHandler EXCEPT !.at = "arrived", !.call = c, !.text = t].at = "arrived"
        BY DEF IdleHandler
      <4>4. QED
        BY <4>1, <4>2, <4>3
    <3>3. CASE Operate(c)
      <4>1. PICK op \in {"reload", "restart"}, h \in Handlers :
              handler[h].at = "idle" /\ handler' = [handler EXCEPT ![h] =
                [IdleHandler EXCEPT !.op = op, !.at = "arrived", !.call = c,
                                    !.text = None, !.expected = None]]
        BY <3>3, BrokerAssumption DEF Operate, Requests
      <4>2. [IdleHandler EXCEPT !.op = op, !.at = "arrived", !.call = c,
                                !.text = None, !.expected = None] \in HandlerRecord
        BY DEF HandlerRecord, IdleHandler
      <4>3. [IdleHandler EXCEPT !.op = op, !.at = "arrived", !.call = c,
                                !.text = None, !.expected = None].at = "arrived"
        BY DEF IdleHandler
      <4>4. QED
        BY <4>1, <4>2, <4>3
    <3>4. QED
      BY <1>2, <3>1, <3>2, <3>3
  <2>2. UNCHANGED <<config, process>>
    BY <1>2 DEF Push, Import, Operate
  <2>3. QED
    BY <2>1, <2>2 DEF Typed, TypeOK, config, process
<1>3. CASE TimesOut(c)
  <2>1. \A g \in Handlers : handler'[g] = handler[g] \/ handler'[g] = Disowned(handler[g])
    BY <1>3, Zenon DEF TimesOut, Disowned
  <2>2. \A g \in Handlers :
          /\ handler'[g].at = handler[g].at /\ handler'[g].pid = handler[g].pid
          /\ handler'[g].held = handler[g].held /\ handler'[g].mixed = handler[g].mixed
          /\ handler'[g].text = handler[g].text
          /\ handler'[g].expected = handler[g].expected
          /\ handler'[g].alone = handler[g].alone /\ handler'[g].dirty = handler[g].dirty
    BY <2>1, HandlerType, DisownedType DEF Alike
  <2>3. QED
    BY <1>3, <2>2 DEF TimesOut, config, process
<1>4. QED
  BY <1>1, <1>2, <1>3

\* The steps that change the file.
Files(h) == Rename(h) \/ WriteRenamed(h) \/ WriteInPlace(h) \/ Truncate(h) \/ WriteFails(h)

\* They are those of a write; nothing waits for them, and a reload that is under way is
\* marked.
LEMMA FileSteps ==
  ASSUME Typed, NEW h \in Handlers, Files(h)
  PROVE  /\ h \in Writing
         /\ UNCHANGED <<child, abandoned>>
         /\ \A p \in Pids : broker'[p].state = broker[p].state
         /\ \A g \in Handlers :
               /\ handler'[g].at = "signal" => handler'[g].dirty
               /\ handler'[g].at = "wait" => handler[g].at = "wait"
               /\ handler[g].at = "wait" => handler'[g].at = "wait" /\ handler'[g].pid = handler[g].pid
               /\ handler'[g].alone => handler[g].alone
               /\ g \in Writing' => g \in Writing
<1>1. \A p \in Pids : broker'[p].state = broker[p].state
  <2>1. PICK text : FileBecomes(text)
    BY DEF Files, Rename, WriteRenamed, WriteInPlace, Truncate, WriteFails, Overwrites
  <2>2. QED
    BY <2>1 DEF FileBecomes, Typed, TypeOK, Process
<1>2. \A g \in Handlers : Follows(handler'[g], handler[g])
  BY RenameType, RenamedType, InPlaceType, InPlaceEndsType DEF Files
<1>3. UNCHANGED <<child, abandoned>> /\ h \in Writing
  BY DEF Files, Rename, WriteRenamed, WriteInPlace, Truncate, WriteFails, Writing
<1>4. QED
  BY <1>1, <1>2, <1>3 DEF Follows, GoesOn, Writing, WriteStages

\* The other steps of a write.
Writes(h) ==
    Compare(h) \/ OpenTemp(h) \/ WriteTemp(h) \/ AtomicFails(h) \/ FallbackFails(h) \/ WriteIsMoot(h)

\* They move their handler, and mix at most with others that are writing; only at its
\* beginning does the handler join these.
LEMMA WriteSteps ==
  ASSUME Typed, NEW h \in Handlers, Writes(h)
  PROVE  /\ UNCHANGED <<file, torn, child, broker, abandoned>>
         /\ handler[h].at \notin {"signal", "wait"}
         /\ handler[h].at = "truncate" => handler[h].held # "file"
         /\ handler'[h].at \in {"idle", "temp", "write", "rename", "fallback"}
         /\ \A g \in Handlers \ {h} :
               /\ handler'[g].at = handler[g].at /\ handler'[g].pid = handler[g].pid
               /\ handler'[g].expected = handler[g].expected /\ handler'[g].dirty = handler[g].dirty
               /\ handler'[g].alone => handler[g].alone
               /\ handler[g].at = "truncate" /\ handler[g].held = "file" => handler'[g].held = "file"
<1>1. \A g \in Handlers : handler[g] \in HandlerRecord
  BY DEF Typed, TypeOK
<1>2. CASE Ends(h)
  <2>1. handler'[h].at = "idle" /\ \A g \in Handlers \ {h} : handler'[g] = handler[g]
    BY <1>2, EndsType, IdleTypes
  <2>2. /\ UNCHANGED <<file, torn, child, broker, abandoned>>
        /\ handler[h].at \notin {"signal", "wait"}
        /\ handler[h].at = "truncate" => handler[h].held # "file"
    BY DEF Writes, Compare, OpenTemp, WriteTemp, AtomicFails, FallbackFails, WriteIsMoot, config, process
  <2>3. QED
    BY <2>1, <2>2
<1>3. CASE Compare(h) /\ WriteBegins(h)
  <2>1. handler[h].at = "arrived" /\ handler[h].op = "write"
    BY <1>3 DEF Compare
  <2>2. /\ UNCHANGED <<file, torn, child, broker, abandoned>> /\ handler'[h].at = "temp"
        /\ \A g \in Handlers \ {h} : Alike(handler'[g], handler[g]) /\ ~handler'[g].alone
                                       /\ handler'[g].dirty = handler[g].dirty
    BY <1>3, <2>1, BeginsType DEF Compare, config, process
  <2>3. \A g \in Handlers \ {h} : handler'[g].held = handler[g].held
    <3>1. ASSUME NEW g \in Handlers \ {h} PROVE handler'[g] = AsAlone(handler[g], FALSE)
      BY <1>3 DEF WriteBegins, AsAlone
    <3>2. QED
      BY <1>1, <3>1, AsAloneType
  <2>4. QED
    BY <2>1, <2>2, <2>3 DEF Alike
<1>4. CASE OpenTemp(h)
  <2>1. /\ handler[h].at = "temp" /\ handler[h].at \in WriteStages
        /\ handler' = Touches(h, "temp", "write")
        /\ UNCHANGED <<file, torn, child, broker, abandoned>>
    BY <1>4 DEF OpenTemp, WriteStages, process
  <2>2. /\ AlikeBut(handler'[h], handler[h], "write")
        /\ \A g \in Handlers \ {h} : /\ Alike(handler'[g], handler[g])
                                       /\ handler'[g].alone = handler[g].alone
                                       /\ handler'[g].dirty = handler[g].dirty
    BY <2>1, TouchesType
  <2>3. \A g \in Handlers \ {h} : handler'[g].held = handler[g].held
    <3>1. ASSUME NEW g \in Handlers \ {h}
          PROVE  \E b \in BOOLEAN : handler'[g] = AsMixed(handler[g], b)
      BY <2>1 DEF Touches, AsMixed
    <3>2. QED
      BY <1>1, <3>1, AsMixedType
  <2>4. QED
    BY <2>1, <2>2, <2>3 DEF Alike, AlikeBut
<1>5. CASE \E x \in {"rename", "fallback"} : handler' = Closes(h, x) /\ handler[h].at \in {"temp", "write", "rename"}
  <2>1. PICK x \in {"rename", "fallback"} : handler' = Closes(h, x) /\ handler[h].at \in {"temp", "write", "rename"}
    BY <1>5
  <2>2. handler'[h] = Closing(handler[h], x) /\ \A g \in Handlers \ {h} : handler'[g] = handler[g]
    <3>1. handler[h].at \in WriteStages
      BY <2>1 DEF WriteStages
    <3>2. QED
      BY <2>1, <3>1, ClosesType
  <2>3. handler'[h].at = x
    BY <1>1, <2>2, ClosingType DEF AlikeBut
  <2>4. UNCHANGED <<file, torn, child, broker, abandoned>>
    BY <2>1 DEF Writes, Compare, OpenTemp, WriteTemp, AtomicFails, FallbackFails, WriteIsMoot, config, process
  <2>5. QED
    BY <2>1, <2>2, <2>3, <2>4
<1>6. CASE AtomicFails(h)
  <2>1. /\ UNCHANGED <<file, torn, child, broker, abandoned>>
        /\ handler[h].at \in {"temp", "write", "rename"}
    BY <1>6 DEF AtomicFails, process
  <2>2. /\ AlikeBut(handler'[h], handler[h], "fallback")
        /\ \A g \in Handlers \ {h} : /\ Alike(handler'[g], handler[g])
                                       /\ handler'[g].alone = handler[g].alone
                                       /\ handler'[g].dirty = handler[g].dirty
    BY <1>6, AtomicFailsType
  <2>3. ASSUME NEW g \in Handlers \ {h}, handler[g].held = "file" PROVE handler'[g].held = "file"
    <3>1. Closes(h, "fallback")[g] = handler[g]
      <4>1. handler[h].at \in WriteStages
        BY <2>1 DEF WriteStages
      <4>2. QED
        BY <4>1, ClosesType
    <3>2. handler'[g] = handler[g] \/ handler'[g] = HeldAs(handler[g], "file")
      BY <1>6, <2>3, <3>1 DEF AtomicFails, HeldAs
    <3>3. QED
      BY <1>1, <2>3, <3>2, HeldAsType DEF Names
  <2>4. QED
    BY <2>1, <2>2, <2>3 DEF Alike, AlikeBut
<1>7. QED
  BY <1>2, <1>3, <1>4, <1>5, <1>6 DEF Writes, Compare, WriteTemp, FallbackFails, WriteIsMoot

\* The supervisor's steps leave the file and its writers alone.
LEMMA SupervisorSteps ==
  ASSUME Typed, NEW h \in Handlers,
         ReloadBegins(h) \/ ReloadSignals(h) \/ RestartBegins(h) \/ RestartSpawns(h)
            \/ RestartFails(h) \/ Dropped(h)
  PROVE  /\ UNCHANGED <<file, temp, torn>>
         /\ handler[h].at \in {"arrived", "signal", "wait"}
         /\ handler'[h].at \in {"idle", "signal", "wait"}
         /\ \A g \in Handlers \ {h} : handler'[g] = handler[g]
<1>1. CASE Ends(h)
  BY <1>1, EndsType, IdleTypes
     DEF ReloadBegins, ReloadSignals, RestartBegins, RestartSpawns, RestartFails, Dropped, config
<1>2. CASE ReloadBegins(h) /\ ~Ends(h)
  <2>1. child \in Pids /\ handler' = [handler EXCEPT ![h].at = "signal", ![h].pid = child]
    BY <1>2 DEF ReloadBegins, Typed, TypeOK
  <2>2. Signalling(handler[h], "signal", child).at = "signal"
    BY <2>1, HandlerType, SignallingType DEF AlikeBut
  <2>3. QED
    BY <1>2, <2>1, <2>2, PidType DEF ReloadBegins, config
<1>3. CASE RestartBegins(h) /\ ~Ends(h)
  <2>1. child \in Pids /\ handler' = [handler EXCEPT ![h].at = "wait", ![h].pid = child]
    BY <1>3 DEF RestartBegins, Typed, TypeOK
  <2>2. Signalling(handler[h], "wait", child).at = "wait"
    BY <2>1, HandlerType, SignallingType DEF AlikeBut
  <2>3. QED
    BY <1>3, <2>1, <2>2, PidType DEF RestartBegins, config
<1>4. CASE Dropped(h)
  BY <1>4, IdleTypes DEF Dropped, config, Typed, TypeOK
<1>5. QED
  BY <1>1, <1>2, <1>3, <1>4 DEF ReloadSignals, RestartSpawns, RestartFails

\* The process's own steps change nothing else.
LEMMA ProcessSteps ==
  ASSUME Typed,
         (\E p \in Pids : BrokerReads(p) \/ BrokerEnds(p)) \/ Health \/ UNCHANGED vars
  PROVE  UNCHANGED <<file, temp, torn, abandoned, handler>> /\ child' \in {child, None}
BY DEF BrokerReads, BrokerEnds, Health, vars, config, process

\* The steps, as the proofs below tell them apart.
LEMMA Cases ==
  ASSUME [Next]_vars
  PROVE  \/ \E c \in Calls : Pull(c) \/ Push(c) \/ PushRefused(c) \/ Import(c) \/ Operate(c) \/ TimesOut(c)
         \/ \E h \in Handlers : Files(h)
         \/ \E h \in Handlers : Writes(h)
         \/ \E h \in Handlers : ReloadBegins(h) \/ ReloadSignals(h) \/ RestartBegins(h)
                                  \/ RestartSpawns(h) \/ RestartFails(h) \/ Dropped(h)
         \/ (\E p \in Pids : BrokerReads(p) \/ BrokerEnds(p)) \/ Health \/ UNCHANGED vars
         \/ AgentRestarts
BY DEF Next, Files, Writes

-----------------------------------------------------------------------------
(* The file *)

\* A write that no other has overlapped leaves its own text.
LEMMA AloneWritesText ==
  ASSUME Typed, AloneInv, NEW h \in Writing, handler[h].alone,
         NEW text, NEW old, text \in Outcomes(h, old)
  PROVE  text = handler[h].text /\ text # Torn
BY HandlerType DEF AloneInv, Outcomes, Sane, Writing

LEMMA StepFileWhole == ASSUME Typed, AloneInv, FileWhole, [Next]_vars PROVE FileWhole'
<1> USE DEF FileWhole
<1>1. ASSUME NEW c \in Calls,
             Pull(c) \/ Push(c) \/ PushRefused(c) \/ Import(c) \/ Operate(c) \/ TimesOut(c)
      PROVE  FileWhole'
  BY <1>1, ApiSteps
<1>2. ASSUME NEW h \in Handlers, Rename(h) PROVE FileWhole'
  <2>1. file' = temp /\ torn' = (temp = Torn /\ ~handler[h].alone)
    BY <1>2 DEF Rename, Overwrites, FileBecomes
  <2>2. handler[h].alone => temp # Torn
    BY <1>2, HandlerType DEF AloneInv, Writing, Rename, Sane
  <2>3. QED
    BY <2>1, <2>2
<1>3. ASSUME NEW h \in Handlers, WriteRenamed(h) \/ Truncate(h) PROVE FileWhole'
  <2>1. PICK text \in Outcomes(h, file) : Overwrites(h, text)
    BY <1>3 DEF WriteRenamed, Truncate
  <2>2. h \in Writing
    BY <1>3 DEF Writing, WriteRenamed, Truncate
  <2>3. handler[h].alone => text # Torn
    BY <2>2, AloneWritesText
  <2>4. QED
    BY <2>1, <2>3 DEF Overwrites, FileBecomes
<1>4. ASSUME NEW h \in Handlers, WriteInPlace(h) PROVE FileWhole'
  BY <1>4, InPlaceType
<1>5. ASSUME NEW h \in Handlers, WriteFails(h) PROVE FileWhole'
  BY <1>5 DEF WriteFails, FileBecomes
<1>6. ASSUME NEW h \in Handlers, Writes(h) PROVE FileWhole'
  BY <1>6, WriteSteps
<1>7. ASSUME NEW h \in Handlers, ReloadBegins(h) \/ ReloadSignals(h) \/ RestartBegins(h)
                                   \/ RestartSpawns(h) \/ RestartFails(h) \/ Dropped(h)
      PROVE  FileWhole'
  BY <1>7, SupervisorSteps
<1>8. CASE (\E p \in Pids : BrokerReads(p) \/ BrokerEnds(p)) \/ Health \/ UNCHANGED vars
  BY <1>8, ProcessSteps
<1>9. CASE AgentRestarts
  BY <1>9 DEF AgentRestarts
<1>10. QED
  BY <1>1, <1>2, <1>3, <1>4, <1>5, <1>6, <1>7, <1>8, <1>9, Cases DEF Files

\* What AloneInv says of one write.
AloneFacts(h) ==
    /\ Writing = {h}
    /\ ~handler[h].mixed
    /\ handler[h].at = "write" => handler[h].held = "temp"
    /\ handler[h].at = "rename" => temp \in {handler[h].text, None}
    /\ handler[h].at # "truncate" /\ handler[h].expected # None
          => file = handler[h].expected

\* A step of a write that is alone.
LEMMA AloneGoesOn ==
  ASSUME Typed, AloneInv, NEW h \in Handlers, Writes(h), h \in Writing, handler[h].alone,
         h \in Writing'
  PROVE  AloneFacts(h)'
<1>1. AloneFacts(h) /\ handler[h] \in HandlerRecord
  BY HandlerType DEF AloneInv, AloneFacts
<1>2. Writing' = {h}
  <2>1. \A g \in Handlers \ {h} : g \in Writing' <=> g \in Writing
    BY WriteSteps DEF Writing
  <2>2. QED
    BY <1>1, <2>1 DEF AloneFacts, Writing
<1>3. file' = file
  BY WriteSteps
<1>4. CASE OpenTemp(h)
  <2>1. /\ handler[h].at = "temp" /\ handler[h].at \in WriteStages
        /\ handler' = Touches(h, "temp", "write")
    BY <1>4 DEF OpenTemp, WriteStages
  <2>2. /\ AlikeBut(handler'[h], handler[h], "write") /\ handler'[h].held = "temp"
        /\ ~handler'[h].mixed
    BY <1>1, <2>1, TouchesType DEF AloneFacts
  <2>3. QED
    BY <1>1, <1>2, <1>3, <2>1, <2>2 DEF AloneFacts, AlikeBut
<1>5. CASE WriteTemp(h)
  <2>1. /\ handler[h].at = "write" /\ handler[h].at \in WriteStages
        /\ handler' = Closes(h, "rename") /\ temp' \in Outcomes(h, temp)
    BY <1>5 DEF WriteTemp, WriteStages
  <2>2. handler'[h] = Closing(handler[h], "rename")
    BY <2>1, ClosesType
  <2>3. AlikeBut(handler'[h], handler[h], "rename") /\ ~handler'[h].mixed
    BY <1>1, <2>2, ClosingType
  <2>4. temp' = handler[h].text
    BY <2>1, AloneWritesText
  <2>5. QED
    BY <1>1, <1>2, <1>3, <2>1, <2>3, <2>4 DEF AloneFacts, AlikeBut
<1>6. CASE AtomicFails(h)
  <2>1. handler[h].at # "truncate"
    BY <1>6 DEF AtomicFails
  <2>2. AlikeBut(handler'[h], handler[h], "fallback") /\ ~handler'[h].mixed
    BY <1>6, AtomicFailsType
  <2>3. QED
    BY <1>1, <1>2, <1>3, <2>1, <2>2 DEF AloneFacts, AlikeBut
<1>7. ~(WriteIsMoot(h) /\ handler' = Closes(h, "rename"))
  <2>1. WriteIsMoot(h) => handler[h].held = "gone" /\ handler[h].at \in {"write", "truncate"}
    BY DEF WriteIsMoot
  <2>2. SUFFICES ASSUME WriteIsMoot(h), handler[h].at = "truncate", handler' = Closes(h, "rename")
                 PROVE  FALSE
    BY <1>1, <2>1 DEF AloneFacts
  <2>3. handler'[h].at = "idle"
    BY <2>2, EndsType, IdleTypes DEF WriteIsMoot
  <2>4. QED
    BY <2>3 DEF Writing
<1>8. CASE Ends(h)
  BY <1>8, EndsType, IdleTypes DEF Writing
<1>9. ~Compare(h)
  BY DEF Compare, Writing
<1>10. QED
  BY <1>4, <1>5, <1>6, <1>7, <1>8, <1>9 DEF Writes, FallbackFails, WriteIsMoot

LEMMA StepAlone == ASSUME Typed, AloneInv, [Next]_vars PROVE AloneInv'
<1>0. /\ AloneInv = \A h \in Writing : handler[h].alone => AloneFacts(h)
      /\ AloneInv' = \A h \in Writing' : handler'[h].alone => AloneFacts(h)'
  BY DEF AloneInv, AloneFacts
<1>1. ASSUME NEW c \in Calls,
             Pull(c) \/ Push(c) \/ PushRefused(c) \/ Import(c) \/ Operate(c) \/ TimesOut(c)
      PROVE  AloneInv'
  <2>1. Writing' = Writing /\ file' = file /\ temp' = temp
    BY <1>1, ApiSteps DEF Writing
  <2>2. \A g \in Writing : /\ handler'[g].at = handler[g].at /\ handler'[g].alone = handler[g].alone
                           /\ handler'[g].expected = handler[g].expected
                           /\ handler'[g].mixed = handler[g].mixed
                           /\ handler'[g].held = handler[g].held
                           /\ handler'[g].text = handler[g].text
    BY <1>1, ApiSteps DEF Writing
  <2>3. QED
    BY <2>1, <2>2 DEF AloneInv
<1>2. ASSUME NEW h \in Handlers, Files(h) PROVE AloneInv'
  <2>1. SUFFICES ASSUME NEW g \in Handlers, g \in Writing', handler'[g].alone
                 PROVE  AloneFacts(g)'
    BY <1>0 DEF Writing
  <2>2. g \in Writing /\ handler[g].alone
    BY <1>2, <2>1, FileSteps
  <2>3. g = h /\ Writing = {h} /\ AloneFacts(h)
    BY <1>0, <1>2, <2>2, FileSteps DEF AloneFacts
  <2>4. WriteInPlace(h)
    <3>1. ~WriteRenamed(h)
      BY <2>3 DEF AloneFacts, WriteRenamed
    <3>2. Rename(h) \/ Truncate(h) \/ WriteFails(h) => handler'[h].at = "idle"
      BY RenameType, InPlaceEndsType
    <3>3. QED
      BY <1>2, <2>1, <2>3, <3>1, <3>2 DEF Files, Writing
  <2>5. handler'[h].at = "truncate" /\ ~handler'[h].mixed
    BY <2>3, <2>4, InPlaceType
  <2>6. Writing' = {h}
    BY <1>2, <2>1, <2>3, FileSteps DEF Writing
  <2>7. QED
    BY <2>3, <2>5, <2>6 DEF AloneFacts
<1>3. ASSUME NEW h \in Handlers, Writes(h) PROVE AloneInv'
  <2>1. \A g \in Handlers \ {h} : g \in Writing' <=> g \in Writing
    BY <1>3, WriteSteps DEF Writing
  <2>2. SUFFICES ASSUME NEW g \in Handlers, g \in Writing', handler'[g].alone
                 PROVE  AloneFacts(g)'
    BY <1>0 DEF Writing
  <2>3. CASE g = h /\ h \in Writing
    <3>1. handler[h].alone
      <4>1. CASE Ends(h)
        BY <2>2, <2>3, <4>1, EndsType, IdleTypes
      <4>2. CASE OpenTemp(h)
        <5>1. handler[h].at \in WriteStages /\ handler' = Touches(h, "temp", "write")
          BY <4>2 DEF OpenTemp, WriteStages
        <5>2. handler'[h].alone = handler[h].alone
          BY <5>1, TouchesType
        <5>3. QED
          BY <2>2, <2>3, <5>2
      <4>3. CASE AtomicFails(h)
        BY <2>2, <2>3, <4>3, AtomicFailsType
      <4>4. CASE handler' = Closes(h, "rename")
        <5>1. handler[h].at \in WriteStages
          BY <2>3 DEF Writing, WriteStages
        <5>2. handler'[h] = Closing(handler[h], "rename")
          BY <4>4, <5>1, ClosesType
        <5>3. handler'[h].alone = handler[h].alone
          BY <5>2, HandlerType, ClosingType
        <5>4. QED
          BY <2>2, <2>3, <5>3
      <4>5. ~Compare(h)
        BY <2>3 DEF Compare, Writing
      <4>6. QED
        BY <1>3, <4>1, <4>2, <4>3, <4>4, <4>5 DEF Writes, WriteTemp, FallbackFails, WriteIsMoot
    <3>2. QED
      BY <1>3, <2>2, <2>3, <3>1, AloneGoesOn
  <2>4. CASE h \notin Writing
    <3>1. Compare(h) /\ UNCHANGED <<file, temp>> /\ handler[h].at = "arrived" /\ handler[h].op = "write"
      <4>1. Compare(h)
        BY <1>3, <2>4 DEF Writes, OpenTemp, WriteTemp, AtomicFails, FallbackFails, WriteIsMoot, Writing
      <4>2. QED
        BY <4>1 DEF Compare, config
    <3>2. CASE Ends(h)
      <4>1. handler'[h].at = "idle" /\ \A k \in Handlers \ {h} : handler'[k] = handler[k]
        BY <3>2, EndsType, IdleTypes
      <4>2. g # h /\ g \in Writing /\ handler'[g] = handler[g] /\ Writing' = Writing
        BY <2>1, <2>2, <2>4, <4>1 DEF Writing
      <4>3. QED
        BY <1>0, <2>2, <3>1, <4>2 DEF AloneFacts
    <3>3. CASE WriteBegins(h) /\ handler[h].expected \in {None, file}
      <4>1. /\ \A k \in Handlers \ {h} : ~handler'[k].alone
            /\ handler'[h].at = "temp" /\ handler'[h].expected = handler[h].expected
            /\ ~handler'[h].mixed
            /\ handler'[h].alone => Writing = {}
        BY <3>1, <3>3, BeginsType
      <4>2. g = h /\ Writing' = {h}
        BY <2>1, <2>2, <4>1 DEF Writing
      <4>3. QED
        BY <3>1, <3>3, <4>1, <4>2 DEF AloneFacts
    <3>4. QED
      BY <3>1, <3>2, <3>3 DEF Compare
  <2>5. CASE g # h /\ h \in Writing
    <3>1. g \in Writing /\ handler[g].alone
      BY <1>3, <2>1, <2>2, <2>5, WriteSteps
    <3>2. Writing = {g}
      BY <1>0, <3>1 DEF AloneFacts
    <3>3. QED
      BY <2>5, <3>2
  <2>6. QED
    BY <2>3, <2>4, <2>5
<1>4. ASSUME NEW h \in Handlers, ReloadBegins(h) \/ ReloadSignals(h) \/ RestartBegins(h)
                                   \/ RestartSpawns(h) \/ RestartFails(h) \/ Dropped(h)
      PROVE  AloneInv'
  <2>1. Writing' = Writing /\ h \notin Writing
    BY <1>4, SupervisorSteps DEF Writing
  <2>2. UNCHANGED <<file, temp>> /\ \A g \in Writing : handler'[g] = handler[g]
    BY <1>4, <2>1, SupervisorSteps DEF Writing
  <2>3. QED
    BY <2>1, <2>2 DEF AloneInv
<1>5. CASE (\E p \in Pids : BrokerReads(p) \/ BrokerEnds(p)) \/ Health \/ UNCHANGED vars
  BY <1>5, ProcessSteps DEF AloneInv, Writing
<1>6. CASE AgentRestarts
  BY <1>6, IdleTypes DEF AgentRestarts, AloneInv, Writing
<1>7. QED
  BY <1>1, <1>2, <1>3, <1>4, <1>5, <1>6, Cases

-----------------------------------------------------------------------------
(* The supervisor *)

LEMMA SpawnsFacts ==
  ASSUME NEW processes \in [Pids -> Process], Spawns(processes)
  PROVE  /\ child' \in Pids /\ UpToDate(child)'
         /\ \A p \in Pids : p = child' \/ broker'[p] = processes[p]
BY DEF Spawns, Fresh, UpToDate, Started

LEMMA StepSupervisor == ASSUME Typed, SupervisorInv, [Next]_vars PROVE SupervisorInv'
<1> USE DEF Waits
<1>0. broker \in [Pids -> Process] /\ child \in Pids \cup {None} /\ None \notin Pids
  BY BrokerAssumption DEF Typed, TypeOK, Pids
<1>1. ASSUME NEW c \in Calls,
             Pull(c) \/ Push(c) \/ PushRefused(c) \/ Import(c) \/ Operate(c) \/ TimesOut(c)
      PROVE  SupervisorInv'
  <2>1. \A g \in Handlers : Waits(g)' <=> Waits(g)
    BY <1>1, ApiSteps
  <2>2. \A g \in Handlers : Waits(g) => handler'[g].pid = handler[g].pid
    BY <1>1, ApiSteps
  <2>3. UNCHANGED <<child, broker, abandoned>>
    BY <1>1, ApiSteps
  <2>4. QED
    BY <2>1, <2>2, <2>3 DEF SupervisorInv, Runs
<1>2. ASSUME NEW h \in Handlers, Files(h) PROVE SupervisorInv'
  <2>1. \A g \in Handlers : (Waits(g)' <=> Waits(g)) /\ (Waits(g) => handler'[g].pid = handler[g].pid)
    BY <1>2, FileSteps
  <2>2. UNCHANGED <<child, abandoned>> /\ \A p \in Pids : Runs(p)' <=> Runs(p)
    BY <1>2, FileSteps DEF Runs
  <2>3. QED
    BY <2>1, <2>2 DEF SupervisorInv
<1>3. ASSUME NEW h \in Handlers, Writes(h) PROVE SupervisorInv'
  <2>1. \A g \in Handlers : (Waits(g)' <=> Waits(g)) /\ (Waits(g) => handler'[g].pid = handler[g].pid)
    BY <1>3, WriteSteps
  <2>2. UNCHANGED <<child, broker, abandoned>>
    BY <1>3, WriteSteps
  <2>3. QED
    BY <2>1, <2>2 DEF SupervisorInv, Runs
<1>4. ASSUME NEW h \in Handlers, ReloadBegins(h) PROVE SupervisorInv'
  <2>1. \A g \in Handlers : ~Waits(g) /\ ~Waits(g)'
    <3>1. handler'[h].at # "wait"
      <4>1. CASE Ends(h)
        BY <4>1, EndsType, IdleTypes
      <4>2. CASE child # None /\ handler' = [handler EXCEPT ![h].at = "signal", ![h].pid = child]
        <5>1. [handler[h] EXCEPT !.at = "signal", !.pid = child].at = "signal"
          BY DEF Typed, TypeOK, HandlerRecord
        <5>2. QED
          BY <1>0, <1>4, <4>2, <5>1, PidType DEF ReloadBegins
      <4>3. QED
        BY <1>4, <4>1, <4>2 DEF ReloadBegins
    <3>2. QED
      BY <1>4, <3>1, SupervisorSteps DEF ReloadBegins, LockFree
  <2>2. UNCHANGED <<broker, abandoned>> /\ (child' = child \/ (child' = None /\ ~Runs(child)))
    BY <1>4 DEF ReloadBegins
  <2>3. QED
    BY <2>1, <2>2 DEF SupervisorInv, Runs
<1>5. ASSUME NEW h \in Handlers, ReloadSignals(h) PROVE SupervisorInv'
  <2>1. \A g \in Handlers : (Waits(g)' <=> Waits(g)) /\ (Waits(g) => handler'[g].pid = handler[g].pid)
    BY <1>5, EndsType, IdleTypes DEF ReloadSignals
  <2>2. \A p \in Pids : broker'[p].state = broker[p].state
    BY <1>5 DEF ReloadSignals, Typed, TypeOK, Process
  <2>3. UNCHANGED <<child, abandoned>> /\ \A p \in Pids : Runs(p)' <=> Runs(p)
    BY <1>5, <2>2 DEF ReloadSignals, Runs
  <2>4. QED
    BY <2>1, <2>3 DEF SupervisorInv
<1>6. ASSUME NEW h \in Handlers, RestartBegins(h) PROVE SupervisorInv'
  <2>1. \A g \in Handlers : ~Waits(g) /\ (g # h => ~Waits(g)')
    BY <1>6, SupervisorSteps DEF RestartBegins, LockFree
  <2>2. CASE child = None /\ Ends(h) /\ Spawns(broker) /\ UNCHANGED abandoned
    <3>1. \A g \in Handlers : ~Waits(g)'
      BY <2>1, <2>2, EndsType, IdleTypes
    <3>2. \A p \in Pids : Runs(p)' => p = child' \/ Runs(p)
      BY <1>0, <2>2, SpawnsFacts DEF Runs
    <3>3. QED
      BY <1>0, <2>1, <2>2, <3>1, <3>2 DEF SupervisorInv
  <2>3. CASE child = None /\ Ends(h) /\ UNCHANGED <<child, broker, abandoned>>
    <3>1. \A g \in Handlers : ~Waits(g)'
      BY <2>1, <2>3, EndsType, IdleTypes
    <3>2. QED
      BY <2>1, <2>3, <3>1 DEF SupervisorInv, Runs
  <2>4. CASE /\ child # None /\ child' = None
             /\ handler' = [handler EXCEPT ![h].at = "wait", ![h].pid = child]
             /\ broker' = [broker EXCEPT ![child] = InState(IF Runs(child) THEN "ending" ELSE "dead")]
             /\ UNCHANGED abandoned
    <3>1. Signalling(handler[h], "wait", child).at = "wait"
          /\ Signalling(handler[h], "wait", child).pid = child
      BY <1>0, <2>4, HandlerType, SignallingType DEF AlikeBut
    <3>2. Waits(h)' /\ handler'[h].pid = child
      <4>1. handler[h].at = "arrived" /\ handler[h].op # "write" /\ child \in Pids
        BY <1>0, <1>6, <2>4 DEF RestartBegins
      <4>2. handler'[h] = Signalling(handler[h], "wait", child)
        BY <2>4, <4>1, PidType
      <4>3. QED
        BY <3>1, <4>2
    <3>3. \A p \in Pids : p = child \/ (Runs(p)' <=> Runs(p))
      BY <2>4 DEF Runs
    <3>4. QED
      BY <2>1, <2>4, <3>2, <3>3 DEF SupervisorInv
  <2>5. CASE child' = None /\ abandoned' = TRUE /\ Ends(h)
    BY <2>1, <2>5, EndsType, IdleTypes DEF SupervisorInv
  <2>6. QED
    BY <1>6, <2>2, <2>3, <2>4, <2>5 DEF RestartBegins
<1>7. ASSUME NEW h \in Handlers, RestartSpawns(h) PROVE SupervisorInv'
  <2>1. \A g \in Handlers : (Waits(g) => g = h) /\ ~Waits(g)' /\ child = None
    BY <1>7, EndsType, IdleTypes DEF RestartSpawns, SupervisorInv
  <2> DEFINE processes == [broker EXCEPT ![handler[h].pid] = InState("dead")]
  <2>2. processes \in [Pids -> Process]
    BY <1>0, IdleTypes
  <2>3. \A p \in Pids : p # handler[h].pid => processes[p] = broker[p]
    BY <1>0
  <2>4. handler[h].pid \in Pids => processes[handler[h].pid].state = "dead"
    BY <1>0 DEF InState
  <2>5. Spawns(processes) /\ UNCHANGED abandoned
    BY <1>7 DEF RestartSpawns
  <2> HIDE DEF processes
  <2>6. \A p \in Pids : Runs(p)' => p = child' \/ (p # handler[h].pid /\ Runs(p))
    BY <2>2, <2>3, <2>4, <2>5, SpawnsFacts DEF Runs
  <2>7. QED
    BY <1>0, <2>1, <2>5, <2>6 DEF SupervisorInv
<1>8. ASSUME NEW h \in Handlers, RestartFails(h) PROVE SupervisorInv'
  <2>1. \A g \in Handlers : (Waits(g) => g = h) /\ ~Waits(g)'
    BY <1>8, EndsType, IdleTypes DEF RestartFails, SupervisorInv
  <2>2. child' = child /\ child = None
    BY <1>8 DEF RestartFails, SupervisorInv
  <2>3. CASE broker' = [broker EXCEPT ![handler[h].pid] = InState("dead")] /\ UNCHANGED abandoned
    <3>1. \A p \in Pids : Runs(p)' => p # handler[h].pid /\ Runs(p)
      BY <1>0, <2>3 DEF Runs, InState
    <3>2. QED
      BY <1>0, <2>1, <2>2, <2>3, <3>1 DEF SupervisorInv
  <2>4. CASE abandoned' = TRUE
    BY <2>1, <2>4 DEF SupervisorInv
  <2>5. QED
    BY <1>8, <2>3, <2>4 DEF RestartFails
<1>9. ASSUME NEW h \in Handlers, Dropped(h) PROVE SupervisorInv'
  <2>1. \A g \in Handlers : (Waits(g)' => Waits(g) /\ g # h) /\ (g # h => handler'[g] = handler[g])
    BY <1>9, IdleTypes DEF Dropped, Typed, TypeOK
  <2>2. UNCHANGED <<child, broker>> /\ (abandoned' \/ (abandoned' = abandoned /\ ~Waits(h)))
    BY <1>9 DEF Dropped
  <2>3. QED
    BY <2>1, <2>2 DEF SupervisorInv, Runs
<1>10. ASSUME NEW p \in Pids, BrokerReads(p) \/ BrokerEnds(p) PROVE SupervisorInv'
  <2>1. \A q \in Pids : Runs(q)' => Runs(q)
    <3>1. CASE BrokerReads(p)
      BY <3>1 DEF BrokerReads, Runs, Typed, TypeOK, Process
    <3>2. CASE BrokerEnds(p)
      BY <1>0, <3>2 DEF BrokerEnds, Runs, InState
    <3>3. QED
      BY <1>10, <3>1, <3>2
  <2>2. UNCHANGED <<child, abandoned, handler>>
    BY <1>10 DEF BrokerReads, BrokerEnds
  <2>3. QED
    BY <2>1, <2>2 DEF SupervisorInv
<1>11. CASE Health
  BY <1>11 DEF Health, LockFree, SupervisorInv, Runs
<1>12. CASE UNCHANGED vars
  BY <1>12 DEF vars, process, SupervisorInv, Runs
<1>13. CASE AgentRestarts
  <2>1. AllStopped \in [Pids -> Process] /\ \A p \in Pids : AllStopped[p].state \notin {"running", "ending"}
    BY <1>0, IdleTypes DEF AllStopped, Runs, InState
  <2>2. Spawns(AllStopped)
    BY <1>13 DEF AgentRestarts
  <2> HIDE DEF AllStopped
  <2>3. \A p \in Pids : Runs(p)' => p = child'
    BY <2>1, <2>2, SpawnsFacts DEF Runs
  <2>4. \A g \in Handlers : ~Waits(g)'
    BY <1>13, IdleTypes DEF AgentRestarts
  <2>5. QED
    BY <2>3, <2>4 DEF SupervisorInv
<1>14. QED
  BY <1>1, <1>2, <1>3, <1>4, <1>5, <1>6, <1>7, <1>8, <1>9, <1>10, <1>11, <1>12, <1>13, Cases

\* A signal makes a running process read the file; it makes none out of date.
LEMMA SignalKeeps ==
  ASSUME Typed, NEW h \in Handlers, ReloadSignals(h)
  PROVE  /\ child' = child
         /\ \A p \in Pids : UpToDate(p) => UpToDate(p)'
         /\ \A p \in Pids : p = handler[h].pid => UpToDate(p)'
<1>1. \A p \in Pids : broker[p] \in Process
  BY DEF Typed, TypeOK
<1> DEFINE q == handler[h].pid
           b == broker[q].due \/ broker[q].state = "running"
<1>2. broker' = [broker EXCEPT ![q].due = b] /\ child' = child
  BY DEF ReloadSignals
<1>3. b \in BOOLEAN /\ (b = (broker[q].due \/ broker[q].state = "running"))
  OBVIOUS
<1> HIDE DEF q, b
<1>4. \A p \in Pids : p # q => broker'[p] = broker[p]
  BY <1>2 DEF Typed, TypeOK
<1>5. ASSUME NEW p \in Pids, p = q
      PROVE  broker'[p].state = broker[p].state /\ broker'[p].due = b
  BY <1>1, <1>2, <1>3, <1>5 DEF Typed, TypeOK, Process
<1>6. ASSUME NEW p \in Pids, p = q PROVE UpToDate(p)'
  <2>1. CASE broker[p].state = "running"
    <3>1. b
      BY <1>3, <1>6, <2>1
    <3>2. broker'[p].due
      BY <1>5, <1>6, <3>1
    <3>3. QED
      BY <3>2 DEF UpToDate
  <2>2. CASE broker[p].state # "running"
    BY <1>5, <1>6, <2>2 DEF UpToDate
  <2>3. QED
    BY <2>1, <2>2
<1>7. \A p \in Pids : p # q /\ UpToDate(p) => UpToDate(p)'
  BY <1>4 DEF UpToDate
<1>8. QED
  BY <1>2, <1>6, <1>7 DEF q

LEMMA StepReload == ASSUME Typed, ReloadInv, [Next]_vars PROVE ReloadInv'
<1>0. broker \in [Pids -> Process] /\ child \in Pids \cup {None} /\ None \notin Pids
  BY BrokerAssumption DEF Typed, TypeOK, Pids
<1>1. ASSUME NEW c \in Calls,
             Pull(c) \/ Push(c) \/ PushRefused(c) \/ Import(c) \/ Operate(c) \/ TimesOut(c)
      PROVE  ReloadInv'
  <2>1. \A g \in Handlers : handler'[g].at = "signal" =>
            /\ handler[g].at = "signal" /\ handler'[g].dirty = handler[g].dirty
            /\ handler'[g].pid = handler[g].pid
    BY <1>1, ApiSteps
  <2>2. UNCHANGED <<child, broker>>
    BY <1>1, ApiSteps
  <2>3. QED
    BY <2>1, <2>2 DEF ReloadInv, UpToDate
<1>2. ASSUME NEW h \in Handlers, Files(h) PROVE ReloadInv'
  BY <1>2, FileSteps DEF ReloadInv
<1>3. ASSUME NEW h \in Handlers, Writes(h) PROVE ReloadInv'
  <2>1. \A g \in Handlers : handler'[g].at = "signal" =>
            /\ handler[g].at = "signal" /\ handler'[g].dirty = handler[g].dirty
            /\ handler'[g].pid = handler[g].pid
    BY <1>3, WriteSteps
  <2>2. UNCHANGED <<child, broker>>
    BY <1>3, WriteSteps
  <2>3. QED
    BY <2>1, <2>2 DEF ReloadInv, UpToDate
<1>4. ASSUME NEW h \in Handlers, ReloadBegins(h) PROVE ReloadInv'
  <2>1. \A g \in Handlers \ {h} : handler'[g] = handler[g]
    BY <1>4, SupervisorSteps
  <2>2. broker' = broker
    BY <1>4 DEF ReloadBegins
  <2>3. CASE Ends(h) /\ child' \in {child, None}
    <3>1. handler'[h].at # "signal"
      BY <2>3, EndsType, IdleTypes
    <3>2. QED
      BY <2>1, <2>2, <2>3, <3>1 DEF ReloadInv, UpToDate
  <2>4. CASE /\ child # None /\ UNCHANGED child
             /\ handler' = [handler EXCEPT ![h].at = "signal", ![h].pid = child]
    <3>1. Signalling(handler[h], "signal", child).pid = child
      BY <1>0, <2>4, HandlerType, SignallingType
    <3>2. handler'[h].pid = child
      BY <1>0, <1>4, <2>4, <3>1, PidType DEF ReloadBegins
    <3>3. QED
      BY <2>1, <2>2, <2>4, <3>2 DEF ReloadInv, UpToDate
  <2>5. QED
    BY <1>4, <2>3, <2>4 DEF ReloadBegins
<1>5. ASSUME NEW h \in Handlers, ReloadSignals(h) PROVE ReloadInv'
  <2>1. /\ handler'[h].at # "signal" /\ \A g \in Handlers \ {h} : handler'[g] = handler[g]
    BY <1>5, EndsType, IdleTypes DEF ReloadSignals
  <2>2. child' = child /\ \A p \in Pids : UpToDate(p) => UpToDate(p)'
    BY <1>5, SignalKeeps
  <2>3. QED
    BY <1>0, <2>1, <2>2 DEF ReloadInv
<1>6. ASSUME NEW h \in Handlers, RestartBegins(h) PROVE ReloadInv'
  <2>1. \A g \in Handlers \ {h} : handler'[g] = handler[g]
    BY <1>6, SupervisorSteps
  <2>2. CASE child = None /\ Spawns(broker)
    BY <1>0, <2>2, SpawnsFacts DEF ReloadInv
  <2>3. CASE child' = None
    BY <2>3 DEF ReloadInv
  <2>4. QED
    BY <1>6, <2>2, <2>3 DEF RestartBegins
<1>7. ASSUME NEW h \in Handlers, RestartSpawns(h) PROVE ReloadInv'
  <2>1. Spawns([broker EXCEPT ![handler[h].pid] = InState("dead")])
        /\ [broker EXCEPT ![handler[h].pid] = InState("dead")] \in [Pids -> Process]
    BY <1>0, <1>7, IdleTypes DEF RestartSpawns
  <2>2. UpToDate(child)'
    BY <2>1, SpawnsFacts
  <2>3. QED
    BY <2>2 DEF ReloadInv
<1>8. ASSUME NEW h \in Handlers, RestartFails(h) PROVE ReloadInv'
  <2>1. child' = child /\ handler'[h].at # "signal" /\ \A g \in Handlers \ {h} : handler'[g] = handler[g]
    BY <1>8, EndsType, IdleTypes DEF RestartFails
  <2>2. \A p \in Pids : UpToDate(p) => UpToDate(p)'
    BY <1>0, <1>8 DEF RestartFails, UpToDate, InState
  <2>3. QED
    BY <1>0, <2>1, <2>2 DEF ReloadInv
<1>9. ASSUME NEW h \in Handlers, Dropped(h) PROVE ReloadInv'
  <2>1. handler'[h].at # "signal" /\ \A g \in Handlers \ {h} : handler'[g] = handler[g]
    BY <1>9, IdleTypes DEF Dropped, Typed, TypeOK
  <2>2. UNCHANGED <<child, broker>>
    BY <1>9 DEF Dropped
  <2>3. QED
    BY <2>1, <2>2 DEF ReloadInv, UpToDate
<1>10. ASSUME NEW p \in Pids, BrokerReads(p) \/ BrokerEnds(p) PROVE ReloadInv'
  <2>1. \A q \in Pids : UpToDate(q) => UpToDate(q)'
    <3>1. CASE BrokerReads(p)
      <4>1. broker' = [broker EXCEPT ![p] = [broker[p] EXCEPT !.due = FALSE, !.current = TRUE]]
        BY <3>1 DEF BrokerReads
      <4>2. [broker[p] EXCEPT !.due = FALSE, !.current = TRUE].current
        BY <1>0 DEF Process
      <4>3. QED
        BY <1>0, <4>1, <4>2 DEF UpToDate
    <3>2. CASE BrokerEnds(p)
      BY <1>0, <3>2 DEF BrokerEnds, UpToDate, InState
    <3>3. QED
      BY <1>10, <3>1, <3>2
  <2>2. UNCHANGED <<child, handler>>
    BY <1>10 DEF BrokerReads, BrokerEnds
  <2>3. QED
    BY <1>0, <2>1, <2>2 DEF ReloadInv
<1>11. CASE Health
  BY <1>11 DEF Health, ReloadInv
<1>12. CASE UNCHANGED vars
  BY <1>12 DEF vars, process, ReloadInv, UpToDate
<1>13. CASE AgentRestarts
  BY <1>13, IdleTypes DEF AgentRestarts, ReloadInv
<1>14. QED
  BY <1>1, <1>2, <1>3, <1>4, <1>5, <1>6, <1>7, <1>8, <1>9, <1>10, <1>11, <1>12, <1>13, Cases

-----------------------------------------------------------------------------
(* The theorems *)

LEMMA InitInv == ASSUME Init PROVE IInv
<1>1. Typed
  BY InitTyped
<1>2. FileWhole
  BY BrokerAssumption DEF Init, FileWhole
<1>3. \A h \in Handlers : handler[h].at = "idle"
  BY IdleTypes DEF Init
<1>4. \A p \in Pids : Runs(p) => p = child
  BY DEF Init, Runs, InState
<1>5. QED
  BY <1>1, <1>2, <1>3, <1>4 DEF IInv, AloneInv, Writing, SupervisorInv, Waits, ReloadInv

\* What the theorems below rest on: the inductive invariant.
THEOREM Inductive == Spec => []IInv
<1>1. Init => IInv
  BY InitInv
<1>2. IInv /\ [Next]_vars => IInv'
  BY StepTyped, StepFileWhole, StepAlone, StepSupervisor, StepReload DEF IInv
<1>3. QED
  BY <1>1, <1>2, PTL DEF Spec

\* Every variable keeps its type.
THEOREM TypeCorrect == Spec => []TypeOK
<1>1. IInv => TypeOK
  BY DEF IInv, Typed
<1>2. QED
  BY <1>1, Inductive, PTL

\* Unless a write of the configuration file fails, is cut off or overlaps another, the
\* file is a part or a mixture of texts only while write_text_atomically is between
\* write_all and set_len.
THEOREM FileStaysWhole == Spec => []FileWhole
<1>1. IInv => FileWhole
  BY DEF IInv
<1>2. QED
  BY <1>1, Inductive, PTL

\* The supervisor of mosquitto.rs never has two broker processes running, unless one
\* was abandoned.
THEOREM OneBrokerRuns == Spec => []OneBroker
<1>1. ASSUME IInv PROVE OneBroker
  <2>1. SUFFICES ASSUME ~abandoned PROVE ~(Cardinality({p \in Pids : Runs(p)}) > 1)
    BY DEF OneBroker
  <2> DEFINE S == {p \in Pids : Runs(p)}
  <2>2. PICK q : S \subseteq {q}
    <3>1. CASE \E h \in Handlers : Waits(h)
      BY <1>1, <2>1, <3>1, BrokerAssumption DEF IInv, SupervisorInv, Pids
    <3>2. CASE ~ \E h \in Handlers : Waits(h)
      BY <1>1, <2>1, <3>2 DEF IInv, SupervisorInv
    <3>3. QED
      BY <3>1, <3>2
  <2>3. IsFiniteSet({q}) /\ Cardinality({q}) = 1
    BY FS_Singleton
  <2>4. Cardinality(S) \in Nat /\ Cardinality(S) <= 1
    BY <2>2, <2>3, FS_Subset, FS_CardinalityType
  <2>5. QED
    BY <2>4
<1>2. QED
  BY <1>1, Inductive, PTL

\* A push whose write no other overlaps replaces the text that its author has pulled.
THEOREM PushesReplaceWhatWasPulled == Spec => NoLostPush
<1>1. ASSUME IInv, NEW h \in Handlers, Replaces(h), handler[h].alone, handler[h].expected # None
      PROVE  file = handler[h].expected
  BY <1>1 DEF IInv, AloneInv, Writing, Replaces, Rename, WriteRenamed, WriteInPlace
<1>2. IInv /\ [Next]_vars =>
        [\A h \in Handlers :
          Replaces(h) /\ handler[h].alone /\ handler[h].expected # None
              => file = handler[h].expected]_vars
  BY <1>1
<1>3. QED
  BY <1>2, Inductive, PTL DEF Spec, NoLostPush

\* A reload that signals, or a restart that starts a process, leaves the supervised
\* process up to date with a file that has not changed meanwhile.
THEOREM OperationsApply == Spec => OperationApplies
<1>1. ASSUME IInv, NEW h \in Handlers, ReloadSignals(h), ~handler[h].dirty, child' # None
      PROVE  UpToDate(child)'
  <2>1. broker \in [Pids -> Process] /\ child \in Pids /\ child' = child
    BY <1>1 DEF IInv, Typed, TypeOK, ReloadSignals
  <2>2. child = handler[h].pid \/ UpToDate(child)
    BY <1>1, <2>1 DEF IInv, ReloadInv, ReloadSignals
  <2>3. CASE UpToDate(child)
    BY <1>1, <2>1, <2>3, SignalKeeps DEF IInv
  <2>4. CASE child = handler[h].pid
    BY <1>1, <2>1, <2>4, SignalKeeps DEF IInv
  <2>5. QED
    BY <2>2, <2>3, <2>4
<1>2. ASSUME IInv, NEW h \in Handlers, RestartSpawns(h) PROVE UpToDate(child)'
  <2>1. [broker EXCEPT ![handler[h].pid] = InState("dead")] \in [Pids -> Process]
    BY <1>2, IdleTypes DEF IInv, Typed, TypeOK
  <2>2. QED
    BY <1>2, <2>1, SpawnsFacts DEF RestartSpawns
<1>3. IInv /\ [Next]_vars =>
        [\A h \in Handlers :
          /\ ReloadSignals(h) \/ RestartSpawns(h)
          /\ ~handler[h].dirty
          /\ child' # None
          => UpToDate(child)']_vars
  BY <1>1, <1>2
<1>4. QED
  BY <1>3, Inductive, PTL DEF Spec, OperationApplies
=============================================================================
