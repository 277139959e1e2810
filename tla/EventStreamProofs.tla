------------------------- MODULE EventStreamProofs -------------------------
(***************************************************************************)
(* Theorems about EventStream, for every finite set of components and       *)
(* sockets and every bound that meets StreamAssumption: however errors,     *)
(* closings, timers and remounts interleave, a mounted component is never   *)
(* left waiting for nothing and its connections never multiply.             *)
(***************************************************************************)
EXTENDS EventStream, FiniteSetTheorems, TLAPS

\* TypeOK but for the number of nameless timers, which only NeverMultiplies
\* bounds.
Types ==
    /\ mounted \subseteq Components
    /\ mounts \in [Components -> 0 .. MaxMounts]
    /\ wsRef \in [Components -> Sockets \cup {None}]
    /\ reconnectRef \in [Components -> {"none", "pending", "spent"}]
    /\ orphans \in [Components -> Nat]
    /\ owner \in [Sockets -> Components \cup {None}]
    /\ readyState \in [Sockets -> {"free", "connecting", "open", "closing"}]
    /\ faults \in 0 .. MaxFaults

\* Exactly the sockets in use have an owner.
InUse == \A s \in Sockets : owner[s] = None <=> readyState[s] = "free"

\* A component refers to its own sockets only: what connect() finds open and
\* what the cleanup closes is never somebody else's, nor a name reused.
OwnRef == \A c \in Components : wsRef[c] # None => owner[wsRef[c]] = c

IInv == Types /\ InUse /\ OwnRef /\ NoneForgotten /\ NeverMultiplies

Held(c) == Cardinality(OwnSockets(c))

-----------------------------------------------------------------------------
\* A component's sockets can be counted.
LEMMA HeldType ==
    ASSUME NEW c
    PROVE  IsFiniteSet(OwnSockets(c)) /\ Held(c) \in Nat
<1>1. OwnSockets(c) \in SUBSET Sockets
    BY DEF OwnSockets
<1>2. IsFiniteSet(OwnSockets(c))
    BY <1>1, FS_Subset, StreamAssumption
<1> QED BY <1>2, FS_CardinalityType DEF Held

\* The same after a step.
LEMMA HeldTypePrimed ==
    ASSUME NEW c
    PROVE  IsFiniteSet(OwnSockets(c)') /\ Held(c)' \in Nat
<1>1. OwnSockets(c)' \in SUBSET Sockets
    BY DEF OwnSockets
<1>2. IsFiniteSet(OwnSockets(c)')
    BY <1>1, FS_Subset, StreamAssumption
<1> QED BY <1>2, FS_CardinalityType DEF Held

\* A component that owns a socket holds at least one.
LEMMA OwnerHolds ==
    ASSUME NEW c, NEW s \in Sockets, owner[s] = c
    PROVE  Held(c) > 0
<1>1. s \in OwnSockets(c)
    BY DEF OwnSockets
<1> QED BY <1>1, HeldType, FS_EmptySet DEF Held

\* Opening a socket under a name not in use adds it to its component's.
LEMMA TakeSocket ==
    ASSUME Types, InUse, NEW c \in Components, NEW s \in Sockets,
           readyState[s] = "free", owner' = [owner EXCEPT ![s] = c]
    PROVE  /\ Held(c)' = Held(c) + 1
           /\ \A d \in Components \ {c} : Held(d)' = Held(d)
<1>1. owner[s] = None /\ None # c
    BY StreamAssumption DEF InUse
<1>2. OwnSockets(c)' = OwnSockets(c) \cup {s} /\ s \notin OwnSockets(c)
    BY <1>1 DEF OwnSockets, Types
<1>3. \A d \in Components \ {c} : OwnSockets(d)' = OwnSockets(d)
    BY <1>1, StreamAssumption DEF OwnSockets, Types
<1>4. Held(c)' = Held(c) + 1
    BY <1>2, HeldType, FS_AddElement DEF Held
<1> QED BY <1>3, <1>4 DEF Held

\* A socket that has closed is taken from its component's.
LEMMA DropSocket ==
    ASSUME Types, NEW c \in Components, NEW s \in Sockets, owner[s] = c,
           owner' = [owner EXCEPT ![s] = None]
    PROVE  /\ Held(c)' = Held(c) - 1
           /\ \A d \in Components \ {c} : Held(d)' = Held(d)
<1>1. \A d \in Components : OwnSockets(d)' = OwnSockets(d) \ {s}
    BY StreamAssumption DEF OwnSockets, Types
<1>2. s \in OwnSockets(c) /\ \A d \in Components \ {c} : s \notin OwnSockets(d)
    BY DEF OwnSockets
<1>3. Held(c)' = Held(c) - 1
    BY <1>1, <1>2, HeldType, FS_RemoveElement DEF Held
<1>4. ASSUME NEW d \in Components \ {c} PROVE Held(d)' = Held(d)
    <2>1. OwnSockets(d)' = OwnSockets(d)
        BY <1>1, <1>2
    <2> QED BY <2>1 DEF Held
<1> QED BY <1>3, <1>4

\* connect() leaves its component with a socket, adds at most one, and touches
\* nobody else's.
LEMMA ConnectFacts ==
    ASSUME Types, InUse, OwnRef, NEW c \in Components, connect(c)
    PROVE  /\ wsRef' \in [Components -> Sockets \cup {None}]
           /\ owner' \in [Sockets -> Components \cup {None}]
           /\ readyState' \in [Sockets -> {"free", "connecting", "open", "closing"}]
           /\ InUse' /\ OwnRef'
           /\ 0 < Held(c)' /\ Held(c)' <= Held(c) + 1
           /\ \A d \in Components \ {c} : Held(d)' = Held(d)
<1>1. CASE IsOpen(wsRef[c]) /\ UNCHANGED <<wsRef, sockets>>
    <2>1. wsRef[c] \in Sockets /\ owner[wsRef[c]] = c
        BY <1>1 DEF IsOpen, OwnRef, Types
    <2>2. Held(c) > 0
        BY <2>1, OwnerHolds
    <2>3. \A d : Held(d)' = Held(d)
        BY <1>1 DEF Held, OwnSockets, sockets
    <2> QED BY <1>1, <2>2, <2>3, HeldType DEF InUse, OwnRef, Types, sockets
<1>2. ASSUME NEW s \in Sockets,
             readyState[s] = "free",
             readyState' = [readyState EXCEPT ![s] = "connecting"],
             owner' = [owner EXCEPT ![s] = c],
             wsRef' = [wsRef EXCEPT ![c] = s]
      PROVE  /\ wsRef' \in [Components -> Sockets \cup {None}]
             /\ owner' \in [Sockets -> Components \cup {None}]
             /\ readyState' \in [Sockets -> {"free", "connecting", "open", "closing"}]
             /\ InUse' /\ OwnRef'
             /\ 0 < Held(c)' /\ Held(c)' <= Held(c) + 1
             /\ \A d \in Components \ {c} : Held(d)' = Held(d)
    <2>1. /\ wsRef' \in [Components -> Sockets \cup {None}]
          /\ owner' \in [Sockets -> Components \cup {None}]
          /\ readyState' \in [Sockets -> {"free", "connecting", "open", "closing"}]
        BY <1>2 DEF Types
    <2>2. InUse'
        BY <1>2, StreamAssumption DEF InUse, Types
    <2>3. OwnRef'
        <3> SUFFICES ASSUME NEW d \in Components, wsRef'[d] # None
                     PROVE  owner'[wsRef'[d]] = d
            BY DEF OwnRef
        <3>1. CASE d = c
            BY <1>2, <3>1 DEF Types
        <3>2. CASE d # c
            <4>1. wsRef'[d] = wsRef[d] /\ owner[wsRef[d]] = d /\ wsRef[d] \in Sockets
                BY <1>2, <3>2 DEF OwnRef, Types
            <4>2. wsRef[d] # s
                BY <1>2, <4>1, StreamAssumption DEF InUse
            <4> QED BY <1>2, <4>1, <4>2 DEF Types
        <3> QED BY <3>1, <3>2
    <2>4. Held(c)' = Held(c) + 1 /\ \A d \in Components \ {c} : Held(d)' = Held(d)
        BY <1>2, TakeSocket
    <2> QED BY <2>1, <2>2, <2>3, <2>4, HeldType
<1> QED BY <1>1, <1>2 DEF connect

-----------------------------------------------------------------------------
\* Pending timers as Lifelines counts them.
Timers(c) == orphans[c] + (IF reconnectRef[c] = "pending" THEN 1 ELSE 0)

\* Lifelines are sockets and timers, each a natural number.
LEMMA LifelinesSum ==
    ASSUME Types, NEW c \in Components
    PROVE  Timers(c) \in Nat /\ Lifelines(c) = Held(c) + Timers(c)
BY HeldType DEF Types, Timers, Lifelines, Held

\* The same after a step.
LEMMA LifelinesSumPrimed ==
    ASSUME Types', NEW c \in Components
    PROVE  Timers(c)' \in Nat /\ Lifelines(c)' = Held(c)' + Timers(c)'
BY HeldTypePrimed DEF Types, Timers, Lifelines, Held

\* Initially nothing is open and nobody is mounted.
LEMMA InitIInv == Init => IInv
<1> SUFFICES ASSUME Init PROVE IInv
    OBVIOUS
<1>1. Types
    BY StreamAssumption DEF Init, Types
<1>2. InUse /\ OwnRef /\ NoneForgotten
    BY DEF Init, InUse, OwnRef, NoneForgotten
<1>3. ASSUME NEW c \in Components
      PROVE  Lifelines(c) <= mounts[c]
    <2>1. OwnSockets(c) = {}
        BY StreamAssumption DEF Init, OwnSockets
    <2>2. Held(c) = 0
        BY <2>1, FS_EmptySet DEF Held
    <2> QED BY <1>1, <2>2, LifelinesSum DEF Init, Timers
<1> QED BY <1>1, <1>2, <1>3 DEF IInv, NeverMultiplies

-----------------------------------------------------------------------------
\* The effect runs: one mount more, at most one socket more.
LEMMA MountStep ==
    ASSUME IInv, NEW c \in Components, Mount(c)
    PROVE  IInv'
<1> USE DEF IInv
<1>1. connect(c) /\ UNCHANGED <<timers, faults>>
    BY DEF Mount
<1>2. Types' /\ InUse' /\ OwnRef'
    BY <1>1, ConnectFacts, StreamAssumption DEF Mount, Types, timers
<1>3. ASSUME NEW d \in Components
      PROVE  (d \in mounted' => Lifelines(d)' > 0) /\ Lifelines(d)' <= mounts'[d]
    <2>1. Timers(d)' = Timers(d)
        BY <1>1 DEF Timers, timers
    <2>2. CASE d = c
        <3>1. mounts'[c] = mounts[c] + 1 /\ mounts[c] \in Nat
            BY DEF Mount, Types
        <3>2. 0 < Held(c)' /\ Held(c)' <= Held(c) + 1
            BY <1>1, ConnectFacts
        <3>3. Lifelines(c) <= mounts[c]
            BY DEF NeverMultiplies
        <3> QED BY <1>2, <2>1, <2>2, <3>1, <3>2, <3>3, HeldType, HeldTypePrimed,
                   LifelinesSum, LifelinesSumPrimed
    <2>3. CASE d # c
        <3>1. Held(d)' = Held(d)
            BY <1>1, <2>3, ConnectFacts
        <3>2. Lifelines(d)' = Lifelines(d)
            BY <1>2, <2>1, <3>1, LifelinesSum, LifelinesSumPrimed
        <3>3. mounts'[d] = mounts[d] /\ (d \in mounted' => d \in mounted)
            BY <2>3 DEF Mount, Types
        <3> QED BY <3>2, <3>3 DEF NoneForgotten, NeverMultiplies
    <2> QED BY <2>2, <2>3
<1> QED BY <1>2, <1>3 DEF NoneForgotten, NeverMultiplies, Types

\* The cleanup: a timer less at most, and the component is no longer mounted.
LEMMA UnmountStep ==
    ASSUME IInv, NEW c \in Components, Unmount(c)
    PROVE  IInv'
<1> USE DEF IInv
<1>1. wsRef[c] # None => wsRef[c] \in Sockets /\ owner[wsRef[c]] = c
    BY DEF Types, OwnRef
<1>2. Types' /\ UNCHANGED <<mounts, wsRef, orphans, owner, faults>>
    BY DEF Unmount, Types
<1>3. InUse'
    BY <1>1, <1>2, StreamAssumption DEF Unmount, InUse, Types
<1>4. OwnRef'
    BY <1>2 DEF OwnRef
<1>5. ASSUME NEW d \in Components
      PROVE  (d \in mounted' => Lifelines(d)' > 0) /\ Lifelines(d)' <= mounts'[d]
    <2>1. Held(d)' = Held(d)
        BY <1>2 DEF Held, OwnSockets
    <2>2. CASE d = c
        <3>1. Timers(c)' <= Timers(c) /\ c \notin mounted'
            BY DEF Unmount, Timers, Types
        <3> QED BY <1>2, <2>1, <2>2, <3>1, HeldType, LifelinesSum, LifelinesSumPrimed
                   DEF NeverMultiplies, Types
    <2>3. CASE d # c
        <3>1. Timers(d)' = Timers(d) /\ (d \in mounted' => d \in mounted)
            BY <2>3 DEF Unmount, Timers, Types
        <3>2. Lifelines(d)' = Lifelines(d)
            BY <1>2, <2>1, <3>1, LifelinesSum, LifelinesSumPrimed
        <3> QED BY <1>2, <3>1, <3>2 DEF NoneForgotten, NeverMultiplies
    <2> QED BY <2>2, <2>3
<1> QED BY <1>2, <1>3, <1>4, <1>5 DEF NoneForgotten, NeverMultiplies, Types

\* A socket opens, fails or is closed by the server: it stays in use.
LEMMA SocketStep ==
    ASSUME IInv, NEW s \in Sockets, Opens(s) \/ Fails(s)
    PROVE  IInv'
<1> USE DEF IInv
<1>1. /\ UNCHANGED <<mounted, mounts, wsRef, timers, owner>>
      /\ readyState[s] # "free" /\ readyState'[s] # "free"
      /\ \A z \in Sockets \ {s} : readyState'[z] = readyState[z]
    BY DEF Opens, Fails, Types
<1>2. Types'
    BY <1>1, StreamAssumption DEF Opens, Fails, Types, timers
<1>3. InUse' /\ OwnRef'
    BY <1>1 DEF InUse, OwnRef
<1>4. \A d : Lifelines(d)' = Lifelines(d)
    BY <1>1 DEF Lifelines, OwnSockets, timers
<1> QED BY <1>1, <1>2, <1>3, <1>4 DEF NoneForgotten, NeverMultiplies

\* onclose: a timer takes the place of the socket.
LEMMA ClosedStep ==
    ASSUME IInv, NEW s \in Sockets, Closed(s)
    PROVE  IInv'
<1> USE DEF IInv
<1>1. PICK c \in Components : c = owner[s]
    BY DEF Closed, InUse, Types
<1>2. /\ reconnectRef' = [reconnectRef EXCEPT ![c] = "pending"]
      /\ orphans' = [orphans EXCEPT ![c] = IF reconnectRef[c] = "pending" THEN @ + 1 ELSE @]
    BY <1>1 DEF Closed, Schedule
<1>3. Types'
    BY <1>2 DEF Closed, Types
<1>4. InUse'
    BY DEF Closed, InUse, Types
<1>5. OwnRef'
    BY DEF Closed, OwnRef, Types
<1>6. Held(c)' = Held(c) - 1 /\ \A d \in Components \ {c} : Held(d)' = Held(d)
    BY <1>1, DropSocket DEF Closed
<1>7. Timers(c)' = Timers(c) + 1
    BY <1>1, <1>2 DEF Timers, Types
<1>8. ASSUME NEW d \in Components PROVE Lifelines(d)' = Lifelines(d)
    <2>1. CASE d = c
        BY <1>3, <1>6, <1>7, <2>1, HeldType, LifelinesSum, LifelinesSumPrimed
    <2>2. CASE d # c
        <3>1. Timers(d)' = Timers(d)
            BY <1>1, <1>2, <2>2 DEF Timers, Types
        <3> QED BY <1>3, <1>6, <2>2, <3>1, LifelinesSum, LifelinesSumPrimed
    <2> QED BY <2>1, <2>2
<1>9. UNCHANGED <<mounted, mounts>>
    BY DEF Closed
<1> QED BY <1>3, <1>4, <1>5, <1>8, <1>9 DEF NoneForgotten, NeverMultiplies, Types

\* A timer runs connect(): at most a socket takes its place.
LEMMA TimerFiresStep ==
    ASSUME IInv, NEW c \in Components, TimerFires(c)
    PROVE  IInv'
<1> USE DEF IInv
<1>1. connect(c) /\ UNCHANGED <<mounted, mounts, faults>>
    BY DEF TimerFires
<1>2. /\ orphans' \in [Components -> Nat]
      /\ reconnectRef' \in [Components -> {"none", "pending", "spent"}]
      /\ Timers(c)' = Timers(c) - 1
      /\ \A d \in Components \ {c} : Timers(d)' = Timers(d)
    BY DEF TimerFires, Timers, Types
<1>3. Types' /\ InUse' /\ OwnRef'
    BY <1>1, <1>2, ConnectFacts DEF Types
<1>4. ASSUME NEW d \in Components
      PROVE  (d \in mounted => Lifelines(d)' > 0) /\ Lifelines(d)' <= mounts[d]
    <2>1. CASE d = c
        <3>1. 0 < Held(c)' /\ Held(c)' <= Held(c) + 1
            BY <1>1, ConnectFacts
        <3> QED BY <1>2, <1>3, <2>1, <3>1, HeldType, HeldTypePrimed, LifelinesSum,
                   LifelinesSumPrimed DEF NeverMultiplies, Types
    <2>2. CASE d # c
        <3>1. Lifelines(d)' = Lifelines(d)
            BY <1>1, <1>2, <1>3, <2>2, ConnectFacts, LifelinesSum, LifelinesSumPrimed
        <3> QED BY <3>1 DEF NoneForgotten, NeverMultiplies
    <2> QED BY <2>1, <2>2
<1> QED BY <1>1, <1>3, <1>4 DEF NoneForgotten, NeverMultiplies, Types

\* Every step keeps the invariant.
LEMMA NextIInv == IInv /\ [Next]_vars => IInv'
<1> SUFFICES ASSUME IInv, [Next]_vars PROVE IInv'
    OBVIOUS
<1>1. CASE UNCHANGED vars
    BY <1>1 DEF vars, timers, sockets, IInv, Types, InUse, OwnRef, NoneForgotten,
                NeverMultiplies, Lifelines, OwnSockets
<1>2. CASE Next
    BY <1>2, MountStep, UnmountStep, SocketStep, ClosedStep, TimerFiresStep DEF Next
<1> QED BY <1>1, <1>2

\* A component has no more nameless timers than it was mounted.
LEMMA IInvType == IInv => TypeOK
<1> SUFFICES ASSUME IInv, NEW c \in Components PROVE orphans[c] \in 0 .. MaxMounts
    BY DEF IInv, Types, TypeOK
<1>1. Lifelines(c) <= mounts[c] /\ mounts[c] <= MaxMounts /\ Types
    BY StreamAssumption DEF IInv, NeverMultiplies, Types
<1>2. orphans[c] \in Nat /\ mounts[c] \in Nat /\ orphans[c] <= Timers(c)
    BY <1>1 DEF Types, Timers
<1> QED BY <1>1, <1>2, HeldType, LifelinesSum, StreamAssumption

-----------------------------------------------------------------------------
\* The invariant holds throughout.
LEMMA Invariance == Spec => []IInv
BY InitIInv, NextIInv, PTL DEF Spec

\* Every variable of the hook keeps its type; timers without a name stay
\* bounded by the mounts.
THEOREM TypeCorrect == Spec => []TypeOK
BY Invariance, IInvType, PTL

\* useEventStream.ts: a component on the page always has a socket, which will
\* report its end, or a timer that will connect.
THEOREM NeverForgotten == Spec => []NoneForgotten
<1>1. IInv => NoneForgotten
    BY DEF IInv
<1> QED BY <1>1, Invariance, PTL

\* useEventStream.ts: a component never has more sockets and timers than it
\* was mounted, whatever fails in whatever order.
THEOREM NoMultiplication == Spec => []NeverMultiplies
<1>1. IInv => NeverMultiplies
    BY DEF IInv
<1> QED BY <1>1, Invariance, PTL
=============================================================================
