---------------------------- MODULE ExplorerChannel ----------------------------
(***************************************************************************)
(* What the MQTT Explorer promises the browsers that watch a session.      *)
(* While a browser is attached the session exists; whatever changes in it, *)
(* every attached browser is eventually sent the result.  Nothing is said  *)
(* of connections, messages, timers or records.                            *)
(***************************************************************************)
CONSTANT Watchers

VARIABLES
    present,    \* the session exists
    attached,   \* the browsers watching it
    behind      \* those that have not been sent its latest state

channel == <<present, attached, behind>>

TypeOK ==
    /\ present \in BOOLEAN
    /\ attached \subseteq Watchers
    /\ behind \subseteq attached

Init == present = FALSE /\ attached = {} /\ behind = {}

\* A browser opens its event stream and is sent a snapshot.
Attach(w) ==
    /\ w \notin attached
    /\ present' = TRUE
    /\ attached' = attached \cup {w}
    /\ UNCHANGED behind

Detach(w) ==
    /\ w \in attached
    /\ attached' = attached \ {w}
    /\ behind' = behind \ {w}
    /\ UNCHANGED present

\* An operation creates the session, or changes it: the attached browsers
\* are sent the result at once or fall behind.
Change ==
    /\ present' = TRUE
    /\ behind' \in {{}, attached}
    /\ UNCHANGED attached

Send ==
    /\ behind' = {}
    /\ UNCHANGED <<present, attached>>

\* Only a session nobody watches is discarded.
Expire ==
    /\ attached = {}
    /\ present' = FALSE
    /\ behind' = {}
    /\ UNCHANGED attached

Next ==
    \/ \E w \in Watchers : Attach(w) \/ Detach(w)
    \/ Change \/ Send \/ Expire

Safety == Init /\ [][Next]_channel

\* A change is sent even if no further operation is ever called.
Spec == Safety /\ WF_channel(Send)
=============================================================================
