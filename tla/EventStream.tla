---------------------------- MODULE EventStream ----------------------------
(***************************************************************************)
(* apps/dashboard/hooks/useEventStream.ts, the browser's half of a          *)
(* dashboard connection: every component that calls the hook opens a        *)
(* WebSocket, opens it again two seconds after it has closed, and closes it *)
(* when React unmounts the component.  React may mount a component again    *)
(* with its refs kept (StrictMode).  Messages do not touch this state.      *)
(***************************************************************************)
EXTENDS Integers, FiniteSets, FiniteSetsExt

CONSTANTS
    Components, \* callers of useEventStream
    Sockets,    \* names for the WebSocket objects alive at a time
    None,
    MaxMounts,  \* bound on the mounts of a component
    MaxFaults   \* bound on the sockets that fail or are closed by the server

ASSUME StreamAssumption ==
    /\ None \notin Sockets \cup Components
    /\ MaxMounts \in Nat /\ MaxFaults \in Nat
    /\ IsFiniteSet(Components) /\ IsFiniteSet(Sockets)
    /\ Cardinality(Sockets) >= MaxMounts * Cardinality(Components)

VARIABLES
    mounted,      \* components on the page
    mounts,       \* history: how often each was mounted
    wsRef,        \* wsRef.current; None also stands for a socket that is closed
    reconnectRef, \* the timer in reconnectRef.current
    orphans,      \* pending timers that reconnectRef no longer names
    owner,        \* the component that opened a socket
    readyState,   \* of each socket; "free" is a name not in use
    faults        \* faults so far

timers == <<reconnectRef, orphans>>
sockets == <<owner, readyState>>
vars == <<mounted, mounts, wsRef, timers, sockets, faults>>

Init ==
    /\ mounted = {}
    /\ mounts = [c \in Components |-> 0]
    /\ wsRef = [c \in Components |-> None]
    /\ reconnectRef = [c \in Components |-> "none"]
    /\ orphans = [c \in Components |-> 0]
    /\ owner = [s \in Sockets |-> None]
    /\ readyState = [s \in Sockets |-> "free"]
    /\ faults = 0

-----------------------------------------------------------------------------
IsOpen(s) == s # None /\ readyState[s] = "open"

\* connect(): nothing if the last socket is open, else a new one.  One that is
\* still connecting or closing does not count.
connect(c) ==
    \/ IsOpen(wsRef[c]) /\ UNCHANGED <<wsRef, sockets>>
    \/ /\ ~IsOpen(wsRef[c])
       /\ \E s \in Sockets :
             /\ readyState[s] = "free"
             /\ readyState' = [readyState EXCEPT ![s] = "connecting"]
             /\ owner' = [owner EXCEPT ![s] = c]
             /\ wsRef' = [wsRef EXCEPT ![c] = s]

\* The effect runs.
Mount(c) ==
    /\ c \notin mounted
    /\ mounts[c] < MaxMounts
    /\ mounted' = mounted \cup {c}
    /\ mounts' = [mounts EXCEPT ![c] = @ + 1]
    /\ connect(c)
    /\ UNCHANGED <<timers, faults>>

\* The effect's cleanup: the named timer is cleared, the named socket closed.
Unmount(c) ==
    /\ c \in mounted
    /\ mounted' = mounted \ {c}
    /\ reconnectRef' = [reconnectRef EXCEPT ![c] = IF @ = "pending" THEN "spent" ELSE @]
    /\ readyState' = IF wsRef[c] = None THEN readyState
                     ELSE [readyState EXCEPT ![wsRef[c]] = "closing"]
    /\ UNCHANGED <<mounts, wsRef, orphans, owner, faults>>

\* The handshake succeeds.
Opens(s) ==
    /\ readyState[s] = "connecting"
    /\ readyState' = [readyState EXCEPT ![s] = "open"]
    /\ UNCHANGED <<mounted, mounts, wsRef, timers, owner, faults>>

\* Mutant of Fails: onerror reconnects on its own as well.
FailsReconnects(s) ==
    /\ readyState[s] \in {"connecting", "open"}
    /\ faults < MaxFaults
    /\ faults' = faults + 1
    /\ readyState' = [readyState EXCEPT ![s] = "closing"]
    /\ orphans' = [orphans EXCEPT ![owner[s]] = @ + 1]
    /\ UNCHANGED <<mounted, mounts, wsRef, reconnectRef, owner>>

\* The connection fails or the server closes it; onerror calls ws.close(),
\* which adds nothing: a close event follows either way.
Fails(s) ==
    /\ readyState[s] \in {"connecting", "open"}
    /\ faults < MaxFaults
    /\ faults' = faults + 1
    /\ readyState' = [readyState EXCEPT ![s] = "closing"]
    /\ UNCHANGED <<mounted, mounts, wsRef, timers, owner>>

\* Mutant of Schedule: only if no timer was ever set.
ScheduleOnce(c) ==
    /\ reconnectRef' = [reconnectRef EXCEPT ![c] = IF @ = "none" THEN "pending" ELSE @]
    /\ UNCHANGED orphans

\* setTimeout(connect, 2000) into reconnectRef; a timer pending there goes on
\* without a name.
Schedule(c) ==
    /\ reconnectRef' = [reconnectRef EXCEPT ![c] = "pending"]
    /\ orphans' = [orphans EXCEPT ![c] = IF reconnectRef[c] = "pending" THEN @ + 1 ELSE @]

\* onclose, whoever closed the socket and whether or not its component is
\* still mounted.
Closed(s) ==
    /\ readyState[s] = "closing"
    /\ readyState' = [readyState EXCEPT ![s] = "free"]
    /\ owner' = [owner EXCEPT ![s] = None]
    /\ wsRef' = [c \in Components |-> IF wsRef[c] = s THEN None ELSE wsRef[c]]
    /\ Schedule(owner[s])
    /\ UNCHANGED <<mounted, mounts, faults>>

\* A timer of c runs connect; the older one runs first.
TimerFires(c) ==
    /\ \/ orphans[c] > 0 /\ orphans' = [orphans EXCEPT ![c] = @ - 1] /\ UNCHANGED reconnectRef
       \/ /\ orphans[c] = 0 /\ reconnectRef[c] = "pending"
          /\ reconnectRef' = [reconnectRef EXCEPT ![c] = "spent"]
          /\ UNCHANGED orphans
    /\ connect(c)
    /\ UNCHANGED <<mounted, mounts, faults>>

Next ==
    \/ \E c \in Components : Mount(c) \/ Unmount(c) \/ TimerFires(c)
    \/ \E s \in Sockets : Opens(s) \/ Fails(s) \/ Closed(s)

Spec == Init /\ [][Next]_vars

\* The browser finishes handshakes and closings and runs timers.
FairSpec ==
    /\ Spec
    /\ \A c \in Components : WF_vars(TimerFires(c))
    /\ \A s \in Sockets : WF_vars(Opens(s)) /\ WF_vars(Closed(s))

-----------------------------------------------------------------------------
\* Every variable has its type.
TypeOK ==
    /\ mounted \subseteq Components
    /\ mounts \in [Components -> 0 .. MaxMounts]
    /\ wsRef \in [Components -> Sockets \cup {None}]
    /\ reconnectRef \in [Components -> {"none", "pending", "spent"}]
    /\ orphans \in [Components -> 0 .. MaxMounts]
    /\ owner \in [Sockets -> Components \cup {None}]
    /\ readyState \in [Sockets -> {"free", "connecting", "open", "closing"}]
    /\ faults \in 0 .. MaxFaults

OwnSockets(c) == {s \in Sockets : owner[s] = c}

\* What may still bring c a connection: its sockets, each with a close event to
\* come, and its pending timers.
Lifelines(c) ==
    Cardinality(OwnSockets(c)) + orphans[c] + (IF reconnectRef[c] = "pending" THEN 1 ELSE 0)

\* A component on the page always has a socket or a timer: no order of errors,
\* closings, timers and remounts leaves it waiting for nothing.
NoneForgotten == \A c \in mounted : Lifelines(c) > 0

\* Reconnecting never multiplies: a component has at most one socket or timer
\* for each time it was mounted, so a page mounted once, as in production, has
\* exactly one, however often the connection fails.
NeverMultiplies == \A c \in Components : Lifelines(c) <= mounts[c]

\* A component on the page gets an open connection, or leaves, once faults end.
Reconnects ==
    \A c \in Components :
        (c \in mounted) ~> (c \notin mounted \/ \E s \in OwnSockets(c) : readyState[s] = "open")
=============================================================================
