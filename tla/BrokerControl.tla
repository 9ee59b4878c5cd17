--------------------------- MODULE BrokerControl ---------------------------
(***************************************************************************)
(* The broker's configuration file and its process.  The API pushes a      *)
(* configuration and asks for reloads and restarts (config/service.ts,     *)
(* through the queue of jobs/queue.ts; a snapshot import pushes past the   *)
(* queue); the broker agent carries them out (agent.rs and mosquitto.rs of *)
(* broker-agent), one handler for each request, many at a time.            *)
(*                                                                         *)
(* The API waits for an answer for a limited time.  A handler that writes  *)
(* a file then goes on; one that awaits the supervisor's lock or the end   *)
(* of the broker is dropped where it stands.  Opening, writing, renaming,  *)
(* removing and cutting a file are steps of their own, each of which can   *)
(* fail; who has a file open keeps it when it is renamed, replaced or      *)
(* removed.  Left out: a deployment without an agent, the dynamic security *)
(* commands, key files, the stored time of the last operation.             *)
(***************************************************************************)
EXTENDS Integers, FiniteSets

CONSTANTS
    Calls,      \* slots for API calls in progress
    Handlers,   \* slots for handlers of the agent
    Texts,      \* contents of the configuration file
    Torn,       \* a part of a text, or a mixture of several
    MaxPid,     \* bound on the broker processes that are started
    None

ASSUME BrokerAssumption ==
    /\ Torn \notin Texts
    /\ MaxPid \in Nat \ {0}
    /\ None \notin Texts \cup Calls \cup {Torn} \cup 1..MaxPid

VARIABLES
    file,       \* the configuration file
    temp,       \* the temporary file beside it; None when there is none
    child,      \* the supervisor's process
    broker,     \* all broker processes
    call,       \* where each API call awaits
    handler,    \* where each handler of the agent is
    torn,       \* history: the file is what is left of a write that failed or was cut
                \* off by a crash, or that overlapped another
    abandoned   \* history: a process left the supervisor without being awaited

config == <<file, temp, torn>>
process == <<child, broker, abandoned>>
vars == <<config, process, call, handler>>

-----------------------------------------------------------------------------
(* Types *)

Contents == Texts \cup {Torn}
Pids == 1..MaxPid   \* in the order they are started

\* due: the process is going to read the file, as it does at its start and after
\* a SIGHUP; current: the file has not changed since it did.
Process == [state : {"unused", "running", "ending", "dead"},
            due : BOOLEAN, current : BOOLEAN]

CallRecord == [op : {"push", "import", "reload", "restart"},
               at : {"idle", "pulled", "await"},
               expected : Contents \cup {None}]

\* held: under which name the file is now that the handler has open; mixed: another
\* handler has written or emptied that file next to this one.  Histories: no other
\* write has been under way since this one began (alone); the file has changed since
\* the operation began (dirty).
HandlerRecord ==
    [op : {"write", "reload", "restart"},
     at : {"idle", "arrived", "temp", "write", "rename", "fallback", "truncate",
           "signal", "wait"},
     held : {"none", "temp", "file", "gone"},
     call : Calls \cup {None}, text : Contents \cup {None},
     expected : Contents \cup {None}, pid : Pids \cup {None},
     alone : BOOLEAN, dirty : BOOLEAN, mixed : BOOLEAN]

TypeOK ==
    /\ file \in Contents
    /\ temp \in Contents \cup {None}
    /\ child \in Pids \cup {None}
    /\ broker \in [Pids -> Process]
    /\ call \in [Calls -> CallRecord]
    /\ handler \in [Handlers -> HandlerRecord]
    /\ torn \in BOOLEAN
    /\ abandoned \in BOOLEAN

InState(state) == [state |-> state, due |-> FALSE, current |-> FALSE]
Started == [state |-> "running", due |-> TRUE, current |-> FALSE]
IdleCall == [op |-> "push", at |-> "idle", expected |-> None]
IdleHandler == [op |-> "write", at |-> "idle", held |-> "none", call |-> None,
                text |-> None, expected |-> None, pid |-> None,
                alone |-> FALSE, dirty |-> FALSE, mixed |-> FALSE]

Init ==
    /\ file \in Texts
    /\ temp = None
    /\ child = 1
    /\ broker = [p \in Pids |-> IF p = 1 THEN Started ELSE InState("unused")]
    /\ call = [c \in Calls |-> IdleCall]
    /\ handler = [h \in Handlers |-> IdleHandler]
    /\ torn = FALSE
    /\ abandoned = FALSE

-----------------------------------------------------------------------------
(* The API *)

\* The job queue runs one push, reload or restart at a time.
QueueFree == \A c \in Calls : call[c].at # "await" \/ call[c].op = "import"

\* Requests the agent: a new handler, and the call awaits its answer.
Requests(c, op, text, expected) ==
    /\ \E h \in Handlers :
          /\ handler[h].at = "idle"
          /\ handler' = [handler EXCEPT ![h] =
                [IdleHandler EXCEPT !.op = op, !.at = "arrived", !.call = c,
                                    !.text = text, !.expected = expected]]
    /\ call' = [call EXCEPT ![c].at = "await", ![c].op = IF op = "write" THEN @ ELSE op]

\* The user pulls the configuration, to edit it.
Pull(c) ==
    /\ call[c].at = "idle"
    /\ call' = [call EXCEPT ![c] = [op |-> "push", at |-> "pulled", expected |-> file]]
    /\ UNCHANGED <<config, process, handler>>

\* POST /api/config/push, once the queue is free: the file is compared with what
\* was pulled (assertBrokerConfigMatchesExpected), and the write requested.
Push(c) ==
    /\ call[c].at = "pulled"
    /\ QueueFree
    /\ file = call[c].expected
    /\ \E t \in Texts : Requests(c, "write", t, call[c].expected)
    /\ UNCHANGED <<config, process>>

\* The file has changed, or the agent does not answer, or the user gives up.
PushRefused(c) ==
    /\ call[c].at = "pulled"
    /\ call' = [call EXCEPT ![c] = IdleCall]
    /\ UNCHANGED <<config, process, handler>>

\* applyImport pushes a snapshot's text without expecting anything.
Import(c) ==
    /\ call[c].at = "idle"
    /\ \E h \in Handlers, t \in Texts :
          /\ handler[h].at = "idle"
          /\ handler' = [handler EXCEPT ![h] =
                [IdleHandler EXCEPT !.at = "arrived", !.call = c, !.text = t]]
    /\ call' = [call EXCEPT ![c] = [op |-> "import", at |-> "await", expected |-> None]]
    /\ UNCHANGED <<config, process>>

\* POST /api/config/reload and restart.
Operate(c) ==
    /\ call[c].at = "idle"
    /\ QueueFree
    /\ \E op \in {"reload", "restart"} : Requests(c, op, None, None)
    /\ UNCHANGED <<config, process>>

\* The request times out: the call fails, and the handler has nobody to answer.
TimesOut(c) ==
    /\ call[c].at = "await"
    /\ call' = [call EXCEPT ![c] = IdleCall]
    /\ handler' = [h \in Handlers |->
          IF handler[h].call = c THEN [handler[h] EXCEPT !.call = None] ELSE handler[h]]
    /\ UNCHANGED <<config, process>>

-----------------------------------------------------------------------------
(* The agent's handlers *)

\* The call gets its answer.  A push reads the file once more, for its answer.
Answered(h) == [c \in Calls |-> IF c = handler[h].call THEN IdleCall ELSE call[c]]

\* The handler answers and is done.
Ends(h) ==
    /\ call' = Answered(h)
    /\ handler' = [handler EXCEPT ![h] = IdleHandler]

\* The writes that have begun.
Writing == {h \in Handlers : handler[h].at \in
    {"temp", "write", "rename", "fallback", "truncate"}}

\* The file gets new contents: no process and no operation is up to date.
FileBecomes(text) ==
    /\ file' = text
    /\ broker' = [p \in Pids |-> [broker[p] EXCEPT !.current = FALSE]]

Dirtied(others) == [h \in Handlers |-> [others[h] EXCEPT !.dirty = others[h].at # "idle" /\ others[h].op # "write"]]

-----------------------------------------------------------------------------
(* write_broker_config *)

WriteBegins(h) ==
    handler' = [g \in Handlers |->
        IF g = h THEN [handler[g] EXCEPT !.at = "temp", !.alone = Writing = {}]
        ELSE [handler[g] EXCEPT !.alone = FALSE]]

\* Mutant: the agent relies on the comparison the API has made.
CompareTrusts(h) ==
    /\ handler[h].op = "write" /\ handler[h].at = "arrived"
    /\ WriteBegins(h)
    /\ UNCHANGED <<config, process, call>>

\* The agent compares the file with what is expected.
Compare(h) ==
    /\ handler[h].op = "write" /\ handler[h].at = "arrived"
    /\ IF handler[h].expected \in {None, file}
       THEN WriteBegins(h) /\ UNCHANGED call
       ELSE Ends(h)
    /\ UNCHANGED <<config, process>>

\* The handler opens the file of that name and empties or overwrites it: with whoever
\* else has done so and still has it open, the writes mix.
Touches(h, name, at) ==
    LET others == {g \in Handlers \ {h} : handler[g].held = name}
    IN  [g \in Handlers |->
            IF g = h THEN [handler[g] EXCEPT !.at = at, !.held = name, !.mixed = others # {}]
            ELSE [handler[g] EXCEPT !.mixed = @ \/ g \in others]]

\* What a write of the whole text can leave in a file that had the contents old.
\* What is left of writes that mix depends on their lengths.
Outcomes(h, old) == {handler[h].text} \cup (IF handler[h].mixed THEN {old, Torn} ELSE {})

Overwrites(h, text) ==
    /\ FileBecomes(text)
    /\ torn' = (text = Torn /\ ~handler[h].alone)

\* Mutant: the temporary file is opened as it is, not emptied.
OpenTempAsIs(h) ==
    /\ handler[h].at = "temp"
    /\ temp' = IF temp = None THEN Torn ELSE temp
    /\ handler' = [Touches(h, "temp", "write") EXCEPT ![h].mixed = @ \/ temp # None]
    /\ UNCHANGED <<file, torn, process, call>>

Closes(h, at) == [handler EXCEPT ![h].at = at, ![h].held = "none", ![h].mixed = FALSE]

\* write_text_atomically: fs::write opens the temporary file, whose name all writes
\* share, and empties it
OpenTemp(h) ==
    /\ handler[h].at = "temp"
    /\ temp' = Torn
    /\ handler' = Touches(h, "temp", "write")
    /\ UNCHANGED <<file, torn, process, call>>

\* and then writes the text.
WriteTemp(h) ==
    /\ handler[h].at = "write" /\ handler[h].held = "temp"
    /\ temp' \in Outcomes(h, temp)
    /\ handler' = Closes(h, "rename")
    /\ UNCHANGED <<file, torn, process, call>>

\* Another write has made the temporary file the configuration file meanwhile.
WriteRenamed(h) ==
    /\ handler[h].at = "write" /\ handler[h].held = "file"
    /\ \E text \in Outcomes(h, file) : Overwrites(h, text)
    /\ handler' = Dirtied(Closes(h, "rename"))
    /\ UNCHANGED <<temp, child, abandoned, call>>

\* Mutant: the temporary file is taken to be there.
RenameUnchecked(h) ==
    /\ handler[h].at = "rename"
    /\ FileBecomes(temp)
    /\ temp' = None
    /\ Ends(h)
    /\ UNCHANGED <<torn, child, abandoned>>

\* The rename, of what the temporary file is by now.  Who has it open has the
\* configuration file open from now on; who had that open keeps the old one.
Rename(h) ==
    /\ handler[h].at = "rename"
    /\ temp # None
    /\ Overwrites(h, temp)
    /\ temp' = None
    /\ call' = Answered(h)
    /\ handler' = Dirtied([g \in Handlers |->
          IF g = h THEN IdleHandler
          ELSE [handler[g] EXCEPT !.held =
                   CASE @ = "temp" -> "file" [] @ = "file" -> "gone" [] OTHER -> @]])
    /\ UNCHANGED <<child, abandoned>>

\* The temporary file cannot be opened, written or renamed: the file is a mount,
\* another write has taken the temporary file, the disk is full.  It is removed, if
\* that can be done, and the fallback begins.
AtomicFails(h) ==
    /\ handler[h].at \in {"temp", "write", "rename"}
    /\ \/ /\ temp' = None
          /\ handler' = [g \in Handlers |->
                [Closes(h, "fallback")[g] EXCEPT !.held = IF @ = "temp" THEN "gone" ELSE @]]
       \/ temp' = temp /\ handler' = Closes(h, "fallback")
    /\ UNCHANGED <<file, torn, process, call>>

\* The fallback opens the file itself, as it is, and writes into it.
WriteInPlace(h) ==
    /\ handler[h].at = "fallback"
    /\ FileBecomes(Torn)
    /\ handler' = Dirtied(Touches(h, "file", "truncate"))
    /\ UNCHANGED <<temp, torn, child, abandoned, call>>

\* set_len, to the length of the text.
Truncate(h) ==
    /\ handler[h].at = "truncate" /\ handler[h].held = "file"
    /\ \E text \in Outcomes(h, file) : Overwrites(h, text)
    /\ call' = Answered(h)
    /\ handler' = Dirtied([handler EXCEPT ![h] = IdleHandler])
    /\ UNCHANGED <<temp, child, abandoned>>

\* The file cannot be written to the end or not be cut, and stays as it is by now.
WriteFails(h) ==
    /\ handler[h].at = "truncate" /\ handler[h].held = "file"
    /\ \E text \in {Torn} \cup Outcomes(h, file) :
          FileBecomes(text) /\ torn' = (text = Torn)
    /\ call' = Answered(h)
    /\ handler' = Dirtied([handler EXCEPT ![h] = IdleHandler])
    /\ UNCHANGED <<temp, child, abandoned>>

\* It cannot even be opened.
FallbackFails(h) ==
    /\ handler[h].at = "fallback"
    /\ Ends(h)
    /\ UNCHANGED <<config, process>>

\* A write to a file that has been replaced or removed, which nobody sees.
WriteIsMoot(h) ==
    /\ handler[h].held = "gone"
    /\ \/ handler[h].at = "write" /\ handler' = Closes(h, "rename") /\ UNCHANGED call
       \/ handler[h].at = "truncate" /\ Ends(h)
    /\ UNCHANGED <<config, process>>

-----------------------------------------------------------------------------
(* The supervisor.  Its lock is held by a restart that waits. *)

LockFree == \A h \in Handlers : handler[h].at # "wait"
Runs(p) == broker[p].state \in {"running", "ending"}
Fresh == {p \in Pids : broker[p].state = "unused"}

\* Mutant: the process id is the one the agent has started first.
ReloadBeginsFirst(h) ==
    /\ handler[h].op = "reload" /\ handler[h].at = "arrived"
    /\ LockFree
    /\ child # None
    /\ handler' = [handler EXCEPT ![h].at = "signal", ![h].pid = 1]
    /\ UNCHANGED <<config, process, call>>

\* reload: ensure_child_state, and the process id, under the lock.
ReloadBegins(h) ==
    /\ handler[h].op = "reload" /\ handler[h].at = "arrived"
    /\ LockFree
    /\ IF child = None THEN Ends(h) /\ UNCHANGED child
       ELSE IF ~Runs(child) THEN Ends(h) /\ child' = None
       ELSE /\ handler' = [handler EXCEPT ![h].at = "signal", ![h].pid = child]
            /\ UNCHANGED <<child, call>>
    /\ UNCHANGED <<config, broker, abandoned>>

\* SIGHUP, by the process id, without the lock.
ReloadSignals(h) ==
    LET p == handler[h].pid
    IN  /\ handler[h].at = "signal"
        /\ broker' = [broker EXCEPT ![p].due = @ \/ broker[p].state = "running"]
        /\ Ends(h)
        /\ UNCHANGED <<config, child, abandoned>>

\* spawn_child.
Spawns(processes) ==
    \E p \in Fresh :
        /\ \A q \in Fresh : p <= q
        /\ broker' = [processes EXCEPT ![p] = Started]
        /\ child' = p

\* restart: the process is taken from the supervisor and sent a SIGTERM; if that
\* fails, so does the restart.
RestartBegins(h) ==
    /\ handler[h].op = "restart" /\ handler[h].at = "arrived"
    /\ LockFree
    /\ \/ /\ child = None
          /\ Spawns(broker) \/ UNCHANGED <<child, broker>>
          /\ Ends(h)
          /\ UNCHANGED abandoned
       \/ /\ child # None
          /\ child' = None
          /\ handler' = [handler EXCEPT ![h].at = "wait", ![h].pid = child]
          /\ broker' = [broker EXCEPT ![child] = InState(IF Runs(child) THEN "ending" ELSE "dead")]
          /\ UNCHANGED <<call, abandoned>>
       \/ /\ child # None
          /\ child' = None
          /\ abandoned' = TRUE
          /\ Ends(h)
          /\ UNCHANGED broker
    /\ UNCHANGED config

\* Mutant: after ten seconds the next process is started all the same.
RestartSpawnsAnyway(h) ==
    /\ handler[h].at = "wait"
    /\ Spawns(broker)
    /\ Ends(h)
    /\ UNCHANGED <<config, abandoned>>

\* The process has ended or, after ten seconds, is killed; the next is started.
RestartSpawns(h) ==
    /\ handler[h].at = "wait"
    /\ Spawns([broker EXCEPT ![handler[h].pid] = InState("dead")])
    /\ Ends(h)
    /\ UNCHANGED <<config, abandoned>>

\* The next process cannot be started, or the old one not awaited or killed.
RestartFails(h) ==
    /\ handler[h].at = "wait"
    /\ \/ broker' = [broker EXCEPT ![handler[h].pid] = InState("dead")] /\ UNCHANGED abandoned
       \/ abandoned' = TRUE /\ UNCHANGED broker
    /\ Ends(h)
    /\ UNCHANGED <<config, child>>

\* health: ensure_child_state notices that the process has ended.
Health ==
    /\ LockFree
    /\ child # None
    /\ ~Runs(child)
    /\ child' = None
    /\ UNCHANGED <<config, broker, abandoned, call, handler>>

\* Once its client has gone, a request is not taken up, and a handler that awaits
\* is dropped.
Dropped(h) ==
    /\ handler[h].call = None
    /\ \/ handler[h].at = "arrived" /\ UNCHANGED abandoned
       \/ handler[h].at = "wait" /\ abandoned' = TRUE
    /\ handler' = [handler EXCEPT ![h] = IdleHandler]
    /\ UNCHANGED <<config, child, broker, call>>

-----------------------------------------------------------------------------
(* Processes *)

BrokerReads(p) ==
    /\ broker[p].state = "running" /\ broker[p].due
    /\ broker' = [broker EXCEPT ![p].due = FALSE, ![p].current = TRUE]
    /\ UNCHANGED <<config, child, abandoned, call, handler>>

\* It ends, by itself or after a SIGTERM.
BrokerEnds(p) ==
    /\ Runs(p)
    /\ broker' = [broker EXCEPT ![p] = InState("dead")]
    /\ UNCHANGED <<config, child, abandoned, call, handler>>

\* shutdown, or the end of the container.
AllStopped == [p \in Pids |-> IF Runs(p) THEN InState("dead") ELSE broker[p]]

\* The agent stops or crashes, and with its container the broker; it starts again
\* and starts the broker.  The files stay as they are.
AgentRestarts ==
    /\ Spawns(AllStopped)
    /\ handler' = [h \in Handlers |-> IdleHandler]
    /\ call' = [c \in Calls |-> IF call[c].at = "await" THEN IdleCall ELSE call[c]]
    /\ torn' = (file = Torn)
    /\ abandoned' = FALSE
    /\ UNCHANGED <<file, temp>>

-----------------------------------------------------------------------------

Next ==
    \/ \E c \in Calls :
          \/ Pull(c) \/ Push(c) \/ PushRefused(c) \/ Import(c) \/ Operate(c) \/ TimesOut(c)
    \/ \E h \in Handlers :
          \/ Compare(h) \/ OpenTemp(h) \/ WriteTemp(h) \/ WriteRenamed(h) \/ Rename(h)
          \/ AtomicFails(h) \/ WriteInPlace(h) \/ Truncate(h) \/ WriteFails(h)
          \/ FallbackFails(h) \/ WriteIsMoot(h)
          \/ ReloadBegins(h) \/ ReloadSignals(h)
          \/ RestartBegins(h) \/ RestartSpawns(h) \/ RestartFails(h) \/ Dropped(h)
    \/ \E p \in Pids : BrokerReads(p) \/ BrokerEnds(p)
    \/ Health
    \/ AgentRestarts

Spec == Init /\ [][Next]_vars

-----------------------------------------------------------------------------
(* Properties *)

Replaces(h) == Rename(h) \/ WriteRenamed(h) \/ WriteInPlace(h)

\* The conflict check of spec.md: a push replaces the text its author has pulled
\* and no other, even when the agent carries it out long after the API has given
\* up on it and let other jobs write; as long as no two writes overlap.
NoLostPush ==
    [][\A h \in Handlers :
          Replaces(h) /\ handler[h].alone /\ handler[h].expected # None
              => file = handler[h].expected]_vars

\* The file is a part or a mixture of texts only while it is being written in place,
\* unless it is what is left of a write that failed or was cut off by a crash, or of
\* writes that overlapped: one write at a time leaves a whole text, whatever earlier
\* ones have left behind and whichever of the two ways it takes.
FileWhole ==
    file = Torn =>
        torn \/ \E h \in Handlers : handler[h].at = "truncate" /\ handler[h].held = "file"

UpToDate(p) == broker[p].state # "running" \/ broker[p].current \/ broker[p].due

\* When a reload has signalled, or a restart started a process, and the file has
\* not changed since the operation reached the agent, then the process that is
\* supervised by now has read the file or is about to, whatever restarts, crashes
\* and late signals the operation ran into.
OperationApplies ==
    [][\A h \in Handlers :
          /\ ReloadSignals(h) \/ RestartSpawns(h)
          /\ ~handler[h].dirty
          /\ child' # None
          => UpToDate(child)']_vars

\* Two broker processes never run at once, fighting for the ports and the state
\* file, unless a process was abandoned: its signal failed, or the client of the
\* restart went away during the wait.
OneBroker ==
    Cardinality({p \in Pids : Runs(p)}) > 1 => abandoned
=============================================================================
