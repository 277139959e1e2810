---------------------------- MODULE ViewsProofs ----------------------------
(***************************************************************************)
(* Theorems about the views, for all kinds of events, lists and windows:    *)
(* about the page (Dashboard), about the globe (Globe), and about the two   *)
(* together (Views).  The page's rest on what the loops of buildGraph and   *)
(* of the filters make of a list, the globe's on what the loop of animate   *)
(* makes of the arcs.                                                       *)
(***************************************************************************)
EXTENDS Views, SubsequenceProofs

\* What the list is made of.
Event == [id : Nat, kind : Kinds]

-----------------------------------------------------------------------------
\* What Newest returns: the first elements, as many as asked for if there are.
LEMMA NewestFacts ==
    ASSUME NEW V, NEW s \in Seq(V), NEW n \in Nat
    PROVE  LET m == IF Len(s) < n THEN Len(s) ELSE n
           IN  /\ m \in Nat /\ m <= n /\ m <= Len(s)
               /\ Newest(s, n) \in Seq(V)
               /\ Len(Newest(s, n)) = m /\ DOMAIN Newest(s, n) = 1 .. m
               /\ \A i \in 1 .. m : Newest(s, n)[i] = s[i]
BY DEF Newest

\* A queue of one is empty after its head has gone.
LEMMA TailOfOne ==
    ASSUME NEW x
    PROVE  Tail(<<x>>) = <<>>
<1>1. <<x>> \in Seq({x}) /\ <<x>> # <<>> /\ Len(<<x>>) = 1
    OBVIOUS
<1>2. Tail(<<x>>) \in Seq({x}) /\ Len(Tail(<<x>>)) = 1 - 1
    BY <1>1, TailFacts
<1> QED BY <1>2

-----------------------------------------------------------------------------
\* The rounds of buildGraph's loop over a list.
Rounds(w, n, f) ==
    f = [i \in 0 .. n |-> IF i = 0 THEN <<>> ELSE Counted(f[i - 1], w[i])]

\* There is such a function: the recursive definition of buildGraph says what it
\* seems to.
LEMMA RoundsExist ==
    ASSUME NEW w, NEW n \in Nat
    PROVE  \E f : Rounds(w, n, f)
<1> DEFINE Bad == {k \in Nat : ~ \E f : Rounds(w, k, f)}
<1>1. SUFFICES ASSUME Bad # {} PROVE FALSE
    OBVIOUS
<1>2. PICK k \in Bad : \A j \in Bad : k <= j
    <2> HIDE DEF Bad
    <2>1. Bad \in SUBSET Nat
        BY DEF Bad
    <2> QED BY <1>1, <2>1, LeastElement
<1>3. CASE k = 0
    <2> DEFINE f == [i \in 0 .. 0 |-> <<>>]
    <2>1. Rounds(w, 0, f)
        BY DEF Rounds
    <2> QED BY <1>3, <2>1
<1>4. CASE k # 0
    <2>1. k \in Nat /\ k - 1 \in Nat /\ k - 1 \notin Bad
        BY <1>2, <1>4
    <2>2. PICK f : Rounds(w, k - 1, f)
        BY <2>1
    <2> DEFINE g == [i \in 0 .. k |-> IF i = k THEN Counted(f[k - 1], w[k]) ELSE f[i]]
    <2>3. ASSUME NEW i \in 0 .. k
          PROVE  g[i] = IF i = 0 THEN <<>> ELSE Counted(g[i - 1], w[i])
        <3>1. CASE i = k
            BY <2>1, <3>1, <1>4
        <3>2. CASE i # k
            <4>1. i \in 0 .. k - 1
                BY <2>1, <3>2
            <4>2. f[i] = IF i = 0 THEN <<>> ELSE Counted(f[i - 1], w[i])
                BY <2>2, <4>1 DEF Rounds
            <4>3. i # 0 => i - 1 \in 0 .. k /\ i - 1 # k
                BY <2>1, <4>1
            <4> QED BY <4>2, <4>3, <3>2
        <3> QED BY <3>1, <3>2
    <2>4. Rounds(w, k, g)
        <3> DEFINE h == [i \in 0 .. k |-> IF i = 0 THEN <<>> ELSE Counted(g[i - 1], w[i])]
        <3>1. \A i \in 0 .. k : g[i] = h[i]
            BY <2>3
        <3>2. g = h
            BY <3>1
        <3> QED BY <3>2 DEF Rounds
    <2> QED BY <2>1, <2>4
<1> QED BY <1>3, <1>4

\* The first n events of a list that are of an address.
At(w, n, ip) == {i \in 1 .. n : w[i].kind.source_ip = ip}

\* A node per address, with the count of its events and their highest weight.
Nodes(m, w, n) ==
    /\ DOMAIN m = {w[i].kind.source_ip : i \in 1 .. n}
    /\ \A ip \in DOMAIN m :
          /\ m[ip].eventCount = Cardinality(At(w, n, ip))
          /\ \E i \in At(w, n, ip) : m[ip].threatScore = Weight[w[i].kind.severity]
          /\ \A i \in At(w, n, ip) : Weight[w[i].kind.severity] <= m[ip].threatScore

\* The weights are natural numbers.
LEMMA WeightType ==
    ASSUME NEW kind \in Kinds
    PROVE  /\ kind.severity \in Severities
           /\ Weight[kind.severity] \in Nat /\ Weight[kind.severity] > 0
<1>1. kind.severity \in Severities
    BY GraphAssumption
<1> QED BY <1>1 DEF Weight, Severities

\* An address has one event more after a round with one of its events, and the
\* same events after another.
LEMMA AtStep ==
    ASSUME NEW w \in Seq(Event), NEW n \in 1 .. Len(w), NEW ip
    PROVE  /\ IsFiniteSet(At(w, n, ip)) /\ Cardinality(At(w, n, ip)) \in Nat
           /\ IsFiniteSet(At(w, n - 1, ip)) /\ Cardinality(At(w, n - 1, ip)) \in Nat
           /\ w[n].kind.source_ip # ip => At(w, n, ip) = At(w, n - 1, ip)
           /\ w[n].kind.source_ip = ip =>
                 /\ At(w, n, ip) = At(w, n - 1, ip) \union {n}
                 /\ Cardinality(At(w, n, ip)) = Cardinality(At(w, n - 1, ip)) + 1
<1>1. n \in Nat /\ n - 1 \in Nat /\ n > 0
    OBVIOUS
<1>2. At(w, n, ip) \in SUBSET (1 .. n) /\ At(w, n - 1, ip) \in SUBSET (1 .. n - 1)
    BY DEF At
<1>3. /\ IsFiniteSet(At(w, n, ip)) /\ Cardinality(At(w, n, ip)) \in Nat
      /\ IsFiniteSet(At(w, n - 1, ip)) /\ Cardinality(At(w, n - 1, ip)) \in Nat
    BY <1>1, <1>2, IndicesFinite
<1>4. ASSUME w[n].kind.source_ip # ip PROVE At(w, n, ip) = At(w, n - 1, ip)
    BY <1>1, <1>4 DEF At
<1>5. ASSUME w[n].kind.source_ip = ip
      PROVE  /\ At(w, n, ip) = At(w, n - 1, ip) \union {n}
             /\ Cardinality(At(w, n, ip)) = Cardinality(At(w, n - 1, ip)) + 1
    <2>1. At(w, n, ip) = At(w, n - 1, ip) \union {n}
        BY <1>1, <1>5 DEF At
    <2>2. n \notin At(w, n - 1, ip)
        BY <1>1, <1>2
    <2> QED BY <1>3, <2>1, <2>2, FS_AddElement
<1> QED BY <1>3, <1>4, <1>5

\* One round of the loop.
LEMMA CountedFacts ==
    ASSUME NEW w \in Seq(Event), NEW n \in 1 .. Len(w), NEW m, Nodes(m, w, n - 1)
    PROVE  Nodes(Counted(m, w[n]), w, n)
<1> DEFINE src == w[n].kind.source_ip
           wt == Weight[w[n].kind.severity]
           new == Counted(m, w[n])
           Count(ip) == Cardinality(At(w, n - 1, ip))
<1>1. /\ n \in Nat /\ n > 0 /\ n - 1 \in Nat
      /\ \A i \in 1 .. n : w[i] \in Event /\ w[i].kind \in Kinds
    <2>1. n \in Nat /\ n > 0 /\ n - 1 \in Nat /\ Len(w) \in Nat
        OBVIOUS
    <2>2. \A i \in 1 .. n : w[i] \in Event
        BY <2>1
    <2> QED BY <2>1, <2>2 DEF Event
<1>2. \A i \in 1 .. n : Weight[w[i].kind.severity] \in Nat /\ Weight[w[i].kind.severity] > 0
    BY <1>1, WeightType
<1>3. /\ DOMAIN m = {w[i].kind.source_ip : i \in 1 .. n - 1}
      /\ \A ip \in DOMAIN m :
          /\ m[ip].eventCount = Count(ip)
          /\ \E i \in At(w, n - 1, ip) : m[ip].threatScore = Weight[w[i].kind.severity]
          /\ \A i \in At(w, n - 1, ip) : Weight[w[i].kind.severity] <= m[ip].threatScore
    BY DEF Nodes
<1> DEFINE old == IF src \in DOMAIN m THEN m[src] ELSE NoEvents
           top == IF wt > old.threatScore THEN wt ELSE old.threatScore
<1>4. new = [ip \in {src} \union DOMAIN m |->
                IF ip = src THEN [eventCount |-> old.eventCount + 1, threatScore |-> top]
                ELSE m[ip]]
    BY DEF Counted, Put, NoEvents
<1> HIDE DEF new
<1>5. DOMAIN new = {w[i].kind.source_ip : i \in 1 .. n}
    BY <1>1, <1>3, <1>4
<1>6. ASSUME NEW ip \in DOMAIN new, ip # src
      PROVE  /\ new[ip].eventCount = Cardinality(At(w, n, ip))
             /\ \E i \in At(w, n, ip) : new[ip].threatScore = Weight[w[i].kind.severity]
             /\ \A i \in At(w, n, ip) : Weight[w[i].kind.severity] <= new[ip].threatScore
    <2>1. new[ip] = m[ip] /\ ip \in DOMAIN m /\ At(w, n, ip) = At(w, n - 1, ip)
        BY <1>4, <1>6, AtStep
    <2> QED BY <1>3, <2>1
<1>7. /\ new[src].eventCount = old.eventCount + 1
      /\ new[src].threatScore = top
    BY <1>4
<1>8. old.eventCount = Count(src)
    <2>1. CASE src \in DOMAIN m
        BY <1>3, <2>1
    <2>2. CASE src \notin DOMAIN m
        <3>1. At(w, n - 1, src) = {}
            BY <1>3, <2>2 DEF At
        <3> QED BY <2>2, <3>1, FS_EmptySet DEF NoEvents
    <2> QED BY <2>1, <2>2
<1>9. new[src].eventCount = Cardinality(At(w, n, src))
    BY <1>7, <1>8, AtStep
<1>10. n \in At(w, n, src) /\ At(w, n, src) = At(w, n - 1, src) \union {n}
    <2>1. At(w, n, src) = At(w, n - 1, src) \union {n}
        BY AtStep
    <2> QED BY <2>1
<1>11. /\ \E i \in At(w, n, src) : top = Weight[w[i].kind.severity]
       /\ \A i \in At(w, n, src) : Weight[w[i].kind.severity] <= top
    <2>1. At(w, n - 1, src) \subseteq 1 .. n - 1
        BY DEF At
    <2>2. CASE src \in DOMAIN m
        <3>1. PICK j \in At(w, n - 1, src) : m[src].threatScore = Weight[w[j].kind.severity]
            BY <1>3, <2>2
        <3>2. old.threatScore = Weight[w[j].kind.severity] /\ old.threatScore \in Nat
            BY <1>1, <1>2, <2>1, <2>2, <3>1
        <3>3. \A i \in At(w, n - 1, src) : Weight[w[i].kind.severity] <= old.threatScore
            BY <1>3, <2>2
        <3>4. \A i \in At(w, n - 1, src) : Weight[w[i].kind.severity] \in Nat
            BY <1>1, <1>2, <2>1
        <3>5. wt \in Nat
            BY <1>1, <1>2
        <3> HIDE DEF old
        <3>6. top \in Nat /\ top >= wt /\ top >= old.threatScore
            BY <3>2, <3>5
        <3>7. top = wt \/ top = Weight[w[j].kind.severity]
            BY <3>2
        <3> HIDE DEF top
        <3>8. \A i \in At(w, n, src) : Weight[w[i].kind.severity] <= top
            BY <1>10, <3>2, <3>3, <3>4, <3>5, <3>6
        <3> QED BY <1>10, <3>1, <3>7, <3>8
    <2>3. CASE src \notin DOMAIN m
        <3>1. At(w, n - 1, src) = {}
            BY <1>3, <2>3 DEF At
        <3>2. At(w, n, src) = {n}
            BY <1>10, <3>1
        <3>3. top = wt /\ wt \in Nat
            BY <1>1, <1>2, <2>3 DEF NoEvents
        <3> HIDE DEF top
        <3> QED BY <3>2, <3>3
    <2> QED BY <2>2, <2>3
<1> HIDE DEF old, top
<1>12. ASSUME NEW ip \in DOMAIN new
       PROVE  /\ new[ip].eventCount = Cardinality(At(w, n, ip))
              /\ \E i \in At(w, n, ip) : new[ip].threatScore = Weight[w[i].kind.severity]
              /\ \A i \in At(w, n, ip) : Weight[w[i].kind.severity] <= new[ip].threatScore
    <2>1. CASE ip = src
        BY <1>7, <1>9, <1>11, <2>1
    <2>2. CASE ip # src
        BY <1>6, <2>2
    <2> QED BY <2>1, <2>2
<1>13. Nodes(new, w, n)
    BY <1>5, <1>12 DEF Nodes
<1> QED BY <1>13 DEF new

\* The loop of buildGraph counts: a node per address of the window, with the
\* number of its events and the highest of their weights, and DEFEND.
LEMMA GraphFacts ==
    ASSUME NEW list \in Seq(Event)
    PROVE  LET w == Newest(list, GraphWindow)
               g == buildGraph(list)
               At0(ip) == At(w, Len(w), ip)
           IN  /\ DOMAIN g = {w[i].kind.source_ip : i \in 1 .. Len(w)} \union {"DEFEND"}
               /\ g["DEFEND"].eventCount = 0
               /\ \A ip \in DOMAIN g \ {"DEFEND"} :
                     /\ g[ip].eventCount = Cardinality(At0(ip))
                     /\ \E i \in At0(ip) : g[ip].threatScore = Weight[w[i].kind.severity]
                     /\ \A i \in At0(ip) : Weight[w[i].kind.severity] <= g[ip].threatScore
<1> DEFINE w == Newest(list, GraphWindow)
           L == Len(w)
           N == CHOOSE f : f = [i \in 0 .. L |-> IF i = 0 THEN <<>> ELSE Counted(f[i - 1], w[i])]
<1>1. w \in Seq(Event) /\ L \in Nat
    BY NewestFacts, GraphAssumption
<1>2. buildGraph(list) = Put(N[L], "DEFEND", NoEvents)
    BY DEF buildGraph
<1> HIDE DEF w, L
<1>3. Rounds(w, L, N)
    BY <1>1, RoundsExist DEF Rounds
<1> HIDE DEF N
<1>4. /\ N[0] = <<>>
      /\ \A i \in 1 .. L : N[i] = Counted(N[i - 1], w[i])
    BY <1>1, <1>3 DEF Rounds
<1> DEFINE Bad == {n \in 0 .. L : ~ Nodes(N[n], w, n)}
<1>5. Bad = {}
    <2>1. SUFFICES ASSUME Bad # {} PROVE FALSE
        OBVIOUS
    <2>2. PICK n \in Bad : \A j \in Bad : n <= j
        <3>1. Bad \in SUBSET Nat
            BY <1>1
        <3> HIDE DEF Bad
        <3> QED BY <2>1, <3>1, LeastElement
    <2>3. CASE n = 0
        <3>1. DOMAIN N[0] = {} /\ 1 .. 0 = {}
            BY <1>4
        <3>2. Nodes(N[0], w, 0)
            BY <3>1 DEF Nodes
        <3> QED BY <2>3, <3>2
    <2>4. CASE n # 0
        <3>1. n \in 1 .. L /\ n - 1 \in 0 .. L /\ n - 1 \notin Bad
            BY <1>1, <2>2, <2>4
        <3>2. Nodes(N[n - 1], w, n - 1)
            BY <3>1
        <3>3. Nodes(Counted(N[n - 1], w[n]), w, n)
            BY <1>1, <3>1, <3>2, CountedFacts DEF L
        <3> QED BY <1>4, <3>1, <3>3
    <2> QED BY <2>3, <2>4
<1>6. Nodes(N[L], w, L)
    BY <1>1, <1>5
<1>7. \A i \in 1 .. L : w[i].kind.source_ip # "DEFEND"
    <2>1. \A i \in 1 .. L : w[i] \in Event
        BY <1>1 DEF L
    <2> QED BY <2>1, GraphAssumption DEF Event
<1>8. "DEFEND" \notin DOMAIN N[L]
    BY <1>6, <1>7 DEF Nodes
<1> DEFINE g == Put(N[L], "DEFEND", NoEvents)
<1>9. /\ DOMAIN g = DOMAIN N[L] \union {"DEFEND"}
      /\ g["DEFEND"].eventCount = 0
      /\ \A ip \in DOMAIN g \ {"DEFEND"} : g[ip] = N[L][ip] /\ ip \in DOMAIN N[L]
    BY DEF Put, NoEvents
<1> HIDE DEF g
<1>10. DOMAIN g = {w[i].kind.source_ip : i \in 1 .. L} \union {"DEFEND"}
    BY <1>6, <1>9 DEF Nodes
<1>11. \A ip \in DOMAIN g \ {"DEFEND"} :
          /\ g[ip].eventCount = Cardinality(At(w, L, ip))
          /\ \E i \in At(w, L, ip) : g[ip].threatScore = Weight[w[i].kind.severity]
          /\ \A i \in At(w, L, ip) : Weight[w[i].kind.severity] <= g[ip].threatScore
    BY <1>6, <1>9 DEF Nodes
<1> QED BY <1>2, <1>9, <1>10, <1>11 DEF g, w, L

-----------------------------------------------------------------------------
\* Numbers up to m have the same place in a set and in its part up to m.
LEMMA AscendingPrefix ==
    ASSUME NEW b \in Nat, NEW S \in SUBSET (1 .. b), NEW m \in Nat
    PROVE  \A k \in 1 .. Cardinality(S \cap (1 .. m)) :
              /\ k \in 1 .. Cardinality(S)
              /\ Ascending(S)[k] = Ascending(S \cap (1 .. m))[k]
<1> TAKE k \in 1 .. Cardinality(S \cap (1 .. m))
<1> DEFINE T == S \cap (1 .. m)
<1>1. /\ T \in SUBSET (1 .. b) /\ IsFiniteSet(S)
      /\ Cardinality(S) \in Nat /\ Cardinality(T) \in Nat
    BY IndicesFinite
<1>2. Cardinality(T) <= Cardinality(S)
    BY <1>1, FS_Subset
<1>3. k \in 1 .. Cardinality(S) /\ k \in 1 .. Cardinality(T)
    BY <1>1, <1>2
<1> DEFINE i == Ascending(T)[k]
           j == Ascending(S)[k]
<1>4. i \in T /\ Place(T, i) = k
    BY <1>1, <1>3, PlaceTaken DEF Ascending
<1>5. j \in S /\ Place(S, j) = k
    BY <1>1, <1>3, PlaceTaken DEF Ascending
<1> HIDE DEF i, j
<1>6. UpTo(S, i) = UpTo(T, i)
    BY <1>4 DEF UpTo
<1>7. Place(S, i) = k
    BY <1>4, <1>6 DEF Place
<1>8. i \in S /\ i \in Int /\ j \in Int
    BY <1>4, <1>5
<1>9. i = j
    <2>1. ~(i < j)
        <3>1. ASSUME i < j PROVE FALSE
            <4>1. Place(S, i) < Place(S, j)
                BY <1>5, <1>8, <3>1, PlaceGrows
            <4> QED BY <1>5, <1>7, <4>1
        <3> QED BY <3>1
    <2>2. ~(j < i)
        <3>1. ASSUME j < i PROVE FALSE
            <4>1. Place(S, j) < Place(S, i)
                BY <1>5, <1>8, <3>1, PlaceGrows
            <4> QED BY <1>5, <1>7, <4>1
        <3> QED BY <3>1
    <2> QED BY <1>8, <2>1, <2>2
<1> QED BY <1>3, <1>9 DEF i, j

\* What is picked from the first elements of a list comes first in what is
\* picked from all of it.
LEMMA PickedPrefix ==
    ASSUME NEW V, NEW q \in Seq(V), NEW S \in SUBSET (1 .. Len(q)), NEW m \in 0 .. Len(q)
    PROVE  Newest(Picked(q, S), Cardinality(S \cap (1 .. m)))
              = Picked(Newest(q, m), S \cap (1 .. m))
<1>0. \A k \in 1 .. Cardinality(S \cap (1 .. m)) :
         /\ k \in 1 .. Cardinality(S)
         /\ Ascending(S)[k] = Ascending(S \cap (1 .. m))[k]
    <2>1. Len(q) \in Nat /\ m \in Nat /\ S \in SUBSET (1 .. Len(q))
        BY SeqFacts
    <2> QED BY ONLY <2>1, AscendingPrefix
<1> DEFINE T == S \cap (1 .. m)
           c == Cardinality(T)
           p == Picked(q, S)
           w == Newest(q, m)
<1>1. /\ Len(q) \in Nat /\ m \in Nat /\ T \in SUBSET (1 .. m) /\ T \in SUBSET (1 .. Len(q))
    BY SeqFacts
<1>2. /\ w \in Seq(V) /\ Len(w) = m /\ \A i \in 1 .. m : w[i] = q[i]
    BY <1>1, NewestFacts
<1>3. c \in Nat /\ c <= Cardinality(S) /\ Cardinality(S) \in Nat
    <2>1. IsFiniteSet(S) /\ Cardinality(S) \in Nat /\ c \in Nat
        BY <1>1, IndicesFinite
    <2> QED BY <2>1, FS_Subset
<1>4. p \in Seq(V) /\ Len(p) = Cardinality(S)
    BY PickedFacts
<1>5. Ascending(S) \in [1 .. Cardinality(S) -> S] /\ Ascending(T) \in [1 .. c -> T]
    BY <1>1, AscendingFacts
<1>6. \A k \in 1 .. Cardinality(S) : p[k] = q[Ascending(S)[k]]
    BY <1>5 DEF Picked
<1>7. /\ Picked(w, T) = [k \in 1 .. c |-> w[Ascending(T)[k]]]
    BY <1>5 DEF Picked
<1> HIDE DEF T, c, p, w
<1>8. /\ Newest(p, c) \in Seq(V) /\ Len(Newest(p, c)) = c
      /\ \A k \in 1 .. c : Newest(p, c)[k] = p[k]
    BY <1>3, <1>4, NewestFacts
<1>9. ASSUME NEW k \in 1 .. c
      PROVE  Newest(p, c)[k] = w[Ascending(T)[k]]
    <2>1. k \in 1 .. Cardinality(S) /\ Ascending(S)[k] = Ascending(T)[k]
        BY <1>0 DEF T, c
    <2>2. Ascending(T)[k] \in T
        BY <1>5
    <2>3. w[Ascending(T)[k]] = q[Ascending(T)[k]]
        BY <1>1, <1>2, <2>2
    <2> QED BY <1>6, <1>8, <2>1, <2>3
<1>10. Newest(p, c) = [k \in 1 .. c |-> Newest(p, c)[k]]
    BY <1>3, <1>8
<1>11. Newest(p, c) = Picked(w, T)
    BY <1>7, <1>9, <1>10
<1> QED BY <1>11 DEF T, c, p, w

-----------------------------------------------------------------------------
\* The list holds the newest events, numbered as they came.
EventsInv ==
    /\ arrivals \in Nat
    /\ events \in Seq(Event)
    /\ Len(events) <= MaxEvents /\ Len(events) <= arrivals
    /\ \A i \in 1 .. Len(events) : events[i].id = arrivals - i + 1

\* No event yet.
LEMMA EventsInit ==
    ASSUME events = <<>>, arrivals = 0
    PROVE  EventsInv
BY EventsAssumption DEF EventsInv

\* A list that grew has the new event first and then the others, up to the cap.
LEMMA ArriveFacts ==
    ASSUME EventsInv, NEW kind \in Kinds, Arrive(kind)
    PROVE  /\ EventsInv'
           /\ arrivals' = arrivals + 1
           /\ Len(events') = IF Len(events) < MaxEvents THEN Len(events) + 1 ELSE MaxEvents
<1> DEFINE e == [id |-> arrivals + 1, kind |-> kind]
           longer == <<e>> \o events
<1>1. e \in Event /\ MaxEvents \in Nat /\ MaxEvents > 0
    BY EventsAssumption DEF EventsInv, Event
<1>2. /\ longer \in Seq(Event) /\ Len(longer) = Len(events) + 1
      /\ longer[1] = e /\ Len(events) \in Nat
      /\ \A i \in 2 .. Len(events) + 1 : longer[i] = events[i - 1]
    BY <1>1 DEF EventsInv
<1>3. arrivals' = arrivals + 1 /\ events' = Newest(longer, MaxEvents) /\ arrivals \in Nat
    BY DEF Arrive, EventsInv
<1>4. e.id = arrivals + 1
    OBVIOUS
<1> HIDE DEF e, longer
<1> DEFINE m == IF Len(events) < MaxEvents THEN Len(events) + 1 ELSE MaxEvents
<1>5. /\ events' \in Seq(Event) /\ Len(events') = m
      /\ \A i \in 1 .. m : events'[i] = longer[i]
    BY <1>1, <1>2, <1>3, NewestFacts
<1>6. ASSUME NEW i \in 1 .. m PROVE events'[i].id = arrivals' - i + 1
    <2>1. CASE i = 1
        BY <1>2, <1>3, <1>4, <1>5, <2>1
    <2>2. CASE i # 1
        <3>1. i \in 2 .. Len(events) + 1 /\ i - 1 \in 1 .. Len(events)
            BY <1>1, <1>2, <2>2
        <3>2. events'[i] = events[i - 1] /\ events[i - 1].id = arrivals - (i - 1) + 1
            BY <1>2, <1>5, <3>1 DEF EventsInv
        <3>3. arrivals - (i - 1) + 1 = arrivals + 1 - i + 1
            BY <1>3, <3>1
        <3> QED BY <1>3, <3>2, <3>3
    <2> QED BY <2>1, <2>2
<1>7. m <= MaxEvents /\ m <= arrivals'
    BY <1>1, <1>2, <1>3 DEF EventsInv
<1> QED BY <1>3, <1>5, <1>6, <1>7 DEF EventsInv

\* What the page relies on: the list is in order, a circle under a held button
\* is one of the graph, and a timer that is waiting carries what the field holds.
PageInv ==
    /\ EventsInv
    /\ pressed = "" \/ pressed \in DOMAIN Graph
    /\ pending = <<>> \/ pending = <<input>>

\* The page starts with nothing pressed and nothing waiting.
LEMMA PageInit == Init => PageInv
BY EventsInit DEF Init, GraphInit, FeedInit, PageInv

\* No control, timer or new list breaks it: a keystroke clears the timer it
\* follows, and a new list clears what is pressed.
LEMMA PageStep == PageInv /\ [Next]_vars => PageInv'
<1> SUFFICES ASSUME PageInv, [Next]_vars
             PROVE  PageInv'
    OBVIOUS
<1> USE DEF PageInv
<1>0. ASSUME UNCHANGED <<events, arrivals>>
      PROVE  EventsInv' /\ Graph' = Graph
    BY <1>0 DEF EventsInv, Graph
<1>1. ASSUME NEW kind \in Kinds, NewEvents(kind) PROVE PageInv'
    BY <1>1, ArriveFacts DEF NewEvents, Rebuild, feed
<1>2. ASSUME NEW text \in Texts, Type(text) PROVE PageInv'
    BY <1>0, <1>2 DEF Type, Input, handleIpChange
<1>3. ASSUME NEW s \in Severities, Toggle(s) PROVE PageInv'
    BY <1>0, <1>3 DEF Toggle, Input, toggleSeverity
<1>4. ASSUME NEW t, Choose(t) PROVE PageInv'
    BY <1>0, <1>4 DEF Choose, Input, chooseTactic
<1>5. CASE Debounced
    <2>1. Tail(<<input>>) = <<>>
        BY TailOfOne
    <2>2. pending = <<input>>
        BY <1>5 DEF Debounced, TimerFires
    <2> QED BY <1>0, <1>5, <2>1, <2>2 DEF Debounced, TimerFires, page
<1>6. CASE SwitchView
    BY <1>0, <1>6 DEF SwitchView, Input, Rebuild, feed
<1>7. ASSUME NEW id, PressNode(id) PROVE PageInv'
    BY <1>0, <1>7 DEF PressNode, Press, feed
<1>8. CASE ReleaseNode
    BY <1>0, <1>8 DEF ReleaseNode, Release, feed
<1>9. ASSUME NEW e, SelectEvent(e) PROVE PageInv'
    BY <1>0, <1>9 DEF SelectEvent, handleSelectEvent, feed
<1>10. CASE ClearFilter
    BY <1>0, <1>10 DEF ClearFilter, feed
<1>11. CASE UNCHANGED vars
    BY <1>0, <1>11 DEF vars, feed
<1> QED BY <1>1, <1>2, <1>3, <1>4, <1>5, <1>6, <1>7, <1>8, <1>9, <1>10, <1>11 DEF Next

\* The page (page.tsx) keeps a list in the order the events came, a pressed
\* circle that is one of the graph, and one timer for the text in the field.
THEOREM PageInvariant == Spec => []PageInv
<1>1. Init => PageInv
    BY PageInit
<1>2. PageInv /\ [Next]_vars => PageInv'
    BY PageStep
<1> QED BY <1>1, <1>2, PTL DEF Spec

\* A timer that fires sets the filter to what the field holds at that moment, and
\* nothing else sets it (handleIpChange of EventFeed.tsx).
THEOREM LatestQuery == Spec => QueryIsLatest
<1>1. PageInv /\ [Next]_vars => [ipQuery' # ipQuery => ipQuery' = input]_vars
    <2> SUFFICES ASSUME PageInv, Next, ipQuery' # ipQuery
                 PROVE  ipQuery' = input
        OBVIOUS
    <2>1. CASE Debounced
        <3>1. pending = <<input>> /\ ipQuery' = Head(pending)
            BY <2>1 DEF Debounced, TimerFires, PageInv
        <3>2. Head(<<input>>) = input
            OBVIOUS
        <3> QED BY <3>1, <3>2
    <2>2. CASE ~Debounced
        BY <2>2 DEF Next, NewEvents, Type, Toggle, Choose, SwitchView, PressNode,
            ReleaseNode, SelectEvent, handleSelectEvent, ClearFilter, handleIpChange,
            toggleSeverity, chooseTactic, feed
    <2> QED BY <2>1, <2>2
<1> QED BY <1>1, PageInvariant, PTL DEF QueryIsLatest, Spec

\* Every address of the graph is one of the list.
LEMMA NodeIsListed ==
    ASSUME EventsInv, NEW ip \in DOMAIN Graph, ip # "DEFEND"
    PROVE  From(events, ip) # <<>>
<1> DEFINE w == Newest(events, GraphWindow)
           S == {i \in DOMAIN events : events[i].kind.source_ip = ip}
<1>1. /\ events \in Seq(Event) /\ GraphWindow \in Nat
      /\ Len(events) \in Nat /\ DOMAIN events = 1 .. Len(events)
    BY SeqFacts, GraphAssumption DEF EventsInv
<1>2. ip \in {w[i].kind.source_ip : i \in 1 .. Len(w)}
    BY <1>1, GraphFacts DEF Graph
<1>3. PICK i \in 1 .. Len(w) : w[i].kind.source_ip = ip
    BY <1>2
<1>4. Len(w) \in Nat /\ Len(w) <= Len(events) /\ \A j \in 1 .. Len(w) : w[j] = events[j]
    BY <1>1, NewestFacts
<1>5. i \in S /\ S \in SUBSET (1 .. Len(events))
    BY <1>1, <1>3, <1>4
<1> HIDE DEF S
<1>6. Picked(events, S) # <<>>
    <2>1. PICK k \in 1 .. Len(Picked(events, S)) : Picked(events, S)[k] = events[i]
        BY <1>1, <1>5, PickedFacts
    <2> QED BY <2>1
<1> QED BY <1>6 DEF From, S

\* A click on a circle selects an address that has events in the list of that
\* moment (ThreatGraph.tsx makes all circles anew with every list).
THEOREM SelectionsExist == Spec => SelectionExists
<1>1. PageInv /\ [Next]_vars
        => [filterIP' # filterIP /\ filterIP' # "" => From(events, filterIP') # <<>>]_vars
    <2> SUFFICES ASSUME PageInv, Next, filterIP' # filterIP, filterIP' # ""
                 PROVE  From(events, filterIP') # <<>>
        OBVIOUS
    <2>1. CASE ReleaseNode
        <3>1. filterIP' = pressed /\ pressed # "DEFEND" /\ pressed # ""
            BY <2>1 DEF ReleaseNode, ClickedIP, Release
        <3> QED BY <3>1, NodeIsListed DEF PageInv
    <2>2. CASE ~ReleaseNode
        BY <2>2 DEF Next, NewEvents, Type, Toggle, Choose, SwitchView, PressNode,
            Debounced, SelectEvent, handleSelectEvent, ClearFilter, page
    <2> QED BY <2>1, <2>2
<1> QED BY <1>1, PageInvariant, PTL DEF SelectionExists, Spec

\* The events of an address in the graph's window, as From lists them.
LEMMA WindowFacts ==
    ASSUME EventsInv
    PROVE  LET w == Newest(events, GraphWindow)
           IN  /\ events \in Seq(Event) /\ DOMAIN events = 1 .. Len(events)
               /\ Len(w) \in Nat /\ w \in Seq(Event) /\ DOMAIN w = 1 .. Len(w)
               /\ Len(w) \in 0 .. Len(events) /\ w = Newest(events, Len(w))
               /\ \A i \in 1 .. Len(w) : w[i] = events[i] /\ w[i].kind \in Kinds
               /\ \A ip : /\ At(w, Len(w), ip) \in SUBSET (1 .. Len(w))
                          /\ From(w, ip) = Picked(w, At(w, Len(w), ip))
<1> DEFINE w == Newest(events, GraphWindow)
<1>1. /\ events \in Seq(Event) /\ GraphWindow \in Nat
      /\ Len(events) \in Nat /\ DOMAIN events = 1 .. Len(events)
    BY SeqFacts, GraphAssumption DEF EventsInv
<1>2. /\ w \in Seq(Event) /\ Len(w) \in Nat /\ DOMAIN w = 1 .. Len(w)
      /\ Len(w) <= Len(events) /\ \A i \in 1 .. Len(w) : w[i] = events[i]
    BY <1>1, NewestFacts
<1>3. w = Newest(events, Len(w))
    BY <1>1 DEF Newest
<1>4. \A i \in 1 .. Len(w) : w[i].kind \in Kinds
    <2>1. \A i \in 1 .. Len(w) : w[i] \in Event
        BY <1>2, SeqFacts
    <2> QED BY <2>1 DEF Event
<1> HIDE DEF w
<1>5. \A ip : /\ At(w, Len(w), ip) \in SUBSET (1 .. Len(w))
              /\ From(w, ip) = Picked(w, At(w, Len(w), ip))
    BY <1>2 DEF At, From
<1> QED BY <1>1, <1>2, <1>3, <1>4, <1>5 DEF w

\* The colour a circle gets for the weight of a severity is that severity's.
LEMMA FillOfWeight ==
    ASSUME NEW node, NEW s \in Severities, node.threatScore = Weight[s]
    PROVE  fill(node) = s
BY DEF fill, Weight, Severities

\* The circle of an address shows the worst of its events in the window.
LEMMA ColourFacts ==
    ASSUME EventsInv
    PROVE  ColourIsWorst
<1> SUFFICES ASSUME NEW ip \in DOMAIN Graph \ {"DEFEND"}
             PROVE  LET seen == {e.kind.severity :
                                    e \in ToSet(From(Newest(events, GraphWindow), ip))}
                        worst == fill(Graph[ip])
                    IN  worst \in seen /\ \A s \in seen : Weight[s] <= Weight[worst]
    BY DEF ColourIsWorst
<1> DEFINE w == Newest(events, GraphWindow)
           S == At(w, Len(w), ip)
           P == Picked(w, S)
           seen == {e.kind.severity : e \in ToSet(From(w, ip))}
           worst == fill(Graph[ip])
<1>1. /\ w \in Seq(Event) /\ Len(w) \in Nat /\ S \in SUBSET (1 .. Len(w))
      /\ From(w, ip) = P /\ \A i \in 1 .. Len(w) : w[i].kind \in Kinds
    BY WindowFacts
<1>2. /\ \E i \in S : Graph[ip].threatScore = Weight[w[i].kind.severity]
      /\ \A i \in S : Weight[w[i].kind.severity] <= Graph[ip].threatScore
    BY GraphFacts DEF Graph, EventsInv
<1> HIDE DEF w, S
<1>3. /\ DOMAIN P = 1 .. Len(P)
      /\ \A k \in 1 .. Len(P) : \E i \in S : P[k] = w[i]
      /\ \A i \in S : \E k \in 1 .. Len(P) : P[k] = w[i]
    <2>1. P \in Seq(Event)
        BY <1>1, PickedFacts
    <2> QED BY <1>1, <2>1, PickedFacts, SeqFacts
<1> HIDE DEF P
<1>4. seen = {w[i].kind.severity : i \in S}
    <2>1. ToSet(P) = {w[i] : i \in S}
        BY <1>3 DEF ToSet
    <2> QED BY <1>1, <2>1
<1> HIDE DEF seen
<1>5. PICK j \in S : Graph[ip].threatScore = Weight[w[j].kind.severity]
    BY <1>2
<1>6. w[j].kind.severity \in Severities
    BY <1>1, WeightType
<1>7. worst = w[j].kind.severity
    BY <1>5, <1>6, FillOfWeight
<1> HIDE DEF worst
<1>8. worst \in seen /\ \A s \in seen : Weight[s] <= Weight[worst]
    BY <1>2, <1>4, <1>5, <1>7
<1> QED BY <1>8 DEF w, seen, worst

\* A circle has the colour of the worst severity of its address: weights,
\* maximum and thresholds of ThreatGraph.tsx fit together, for every list.
THEOREM ColoursAreWorst == Spec => []ColourIsWorst
<1>1. PageInv => ColourIsWorst
    BY ColourFacts DEF PageInv
<1> QED BY <1>1, PageInvariant, PTL

\* A feed filtered by a clicked address begins with what its node counts.
LEMMA AddressAgrees ==
    ASSUME EventsInv, filterIP \in DOMAIN Graph, severityFilter = {}, tacticFilter = ""
    PROVE  /\ Newest(filtered(filterIP), Graph[filterIP].eventCount)
                 = From(Newest(events, GraphWindow), filterIP)
           /\ ToSet(filtered(filterIP)) \subseteq ToSet(From(events, filterIP))
<1> DEFINE w == Newest(events, GraphWindow)
           m == Len(w)
           T == At(w, m, filterIP)
           S == {i \in DOMAIN events : events[i].kind.source_ip = filterIP}
<1>1. /\ events \in Seq(Event) /\ DOMAIN events = 1 .. Len(events)
      /\ m \in 0 .. Len(events) /\ w = Newest(events, m)
      /\ \A i \in 1 .. m : w[i] = events[i] /\ w[i].kind \in Kinds
      /\ From(w, filterIP) = Picked(w, T)
    BY WindowFacts
<1>2. /\ DOMAIN Graph = {w[i].kind.source_ip : i \in 1 .. m} \union {"DEFEND"}
      /\ Graph["DEFEND"].eventCount = 0
      /\ filterIP # "DEFEND" => Graph[filterIP].eventCount = Cardinality(T)
    BY GraphFacts DEF Graph, EventsInv
<1> HIDE DEF w, m
<1>3. filterIP # "" /\ (filterIP = "DEFEND" => T = {})
    BY <1>1, <1>2, GraphAssumption DEF At
<1>4. Graph[filterIP].eventCount = Cardinality(T)
    BY <1>2, <1>3, FS_EmptySet
<1>5. T = S \cap (1 .. m)
    <2>1. Len(events) \in Nat
        BY <1>1, SeqFacts
    <2>2. \A i \in 1 .. m : i \in DOMAIN events /\ w[i].kind = events[i].kind
        <3>1. m \in Nat /\ m <= Len(events)
            BY ONLY <1>1, <2>1
        <3>2. 1 .. m \subseteq 1 .. Len(events)
            BY ONLY <2>1, <3>1
        <3>3. 1 .. m \subseteq DOMAIN events
            BY <1>1, <3>2
        <3> QED BY <1>1, <3>3
    <2>3. T = {i \in 1 .. m : w[i].kind.source_ip = filterIP}
        BY DEF At
    <2> HIDE DEF T
    <2> QED BY <2>2, <2>3
<1>6. filtered(filterIP) = Picked(events, S)
    <2>1. ASSUME NEW i \in DOMAIN events
          PROVE  OfAddress(events[i].kind.source_ip, filterIP)
                    <=> events[i].kind.source_ip = filterIP
        BY <1>3 DEF OfAddress
    <2> QED BY <2>1 DEF filtered
<1>7. S \in SUBSET (1 .. Len(events))
    BY <1>1
<1>8. From(events, filterIP) = Picked(events, S)
    BY DEF From
<1> HIDE DEF S, T
<1>9. Newest(Picked(events, S), Cardinality(S \cap (1 .. m)))
        = Picked(Newest(events, m), S \cap (1 .. m))
    BY <1>1, <1>7, PickedPrefix
<1> QED BY <1>1, <1>4, <1>5, <1>6, <1>8, <1>9 DEF w

\* A feed under one severity has the rows the sidebar counts, and more only
\* beyond the sidebar's window.
LEMMA SeverityAgrees ==
    ASSUME EventsInv, NEW s \in Severities, filterIP = "", ipQuery = "",
           severityFilter = {s}, tacticFilter = ""
    PROVE  LET rows == Len(filtered(""))
           IN  rows >= counts(s) /\ (Len(events) <= SidebarWindow => rows = counts(s))
<1> DEFINE S == {i \in DOMAIN events : events[i].kind.severity = s}
           w == Newest(events, SidebarWindow)
           T == {i \in DOMAIN w : events[i].kind.severity = s}
<1>1. /\ events \in Seq(Event) /\ SidebarWindow \in Nat
      /\ Len(events) \in Nat /\ DOMAIN events = 1 .. Len(events)
    BY SeqFacts, DashboardAssumption DEF EventsInv
<1>2. filtered("") = Picked(events, S)
    BY DEF filtered, OfAddress
<1>3. S \in SUBSET (1 .. Len(events)) /\ IsFiniteSet(S) /\ Cardinality(S) \in Nat
    BY <1>1, IndicesFinite
<1>4. Len(filtered("")) = Cardinality(S)
    BY <1>1, <1>2, <1>3, PickedFacts
<1>5. DOMAIN w = 1 .. (IF Len(events) < SidebarWindow THEN Len(events) ELSE SidebarWindow)
    BY <1>1, NewestFacts
<1>6. T \in SUBSET S /\ (Len(events) <= SidebarWindow => T = S)
    <2>1. /\ DOMAIN w \subseteq DOMAIN events
          /\ Len(events) <= SidebarWindow => DOMAIN w = DOMAIN events
        <3> DEFINE n == IF Len(events) < SidebarWindow THEN Len(events) ELSE SidebarWindow
        <3>1. Len(events) \in Nat /\ SidebarWindow \in Nat
            BY <1>1
        <3>2. n \in Nat /\ n <= Len(events) /\ (Len(events) <= SidebarWindow => n = Len(events))
            BY ONLY <3>1
        <3> HIDE DEF n, w
        <3>3. 1 .. n \subseteq 1 .. Len(events)
            BY ONLY <3>1, <3>2
        <3>4. DOMAIN w = 1 .. n
            BY <1>5 DEF n
        <3>5. DOMAIN events = 1 .. Len(events)
            BY <1>1
        <3> QED BY <3>2, <3>3, <3>4, <3>5
    <2> HIDE DEF w
    <2> QED BY <2>1
<1>7. counts(s) = Cardinality(T)
    BY DEF counts
<1> HIDE DEF S, T
<1>8. Cardinality(T) <= Cardinality(S) /\ Cardinality(T) \in Nat
    BY <1>3, <1>6, FS_Subset, FS_CardinalityType
<1> QED BY <1>3, <1>4, <1>6, <1>7, <1>8

\* Feed, graph and sidebar (EventFeed.tsx, ThreatGraph.tsx, StatsSidebar.tsx) agree
\* on what the list holds, for all windows, whatever the operator did and however
\* the list grew and was cut.
THEOREM ViewsAgree == Spec => []CountsAgree
<1>1. PageInv => CountsAgree
    BY AddressAgrees, SeverityAgrees DEF PageInv, CountsAgree
<1> QED BY <1>1, PageInvariant, PTL

-----------------------------------------------------------------------------
\* What the arcs and the instances of the globe are made of.
Arc == [event : Event, progress : Nat, speed : Nat]
Particle == [id : Nat, point : Int]

\* Division by a positive number, by the multiples it lies between.
LEMMA DivFacts ==
    ASSUME NEW a \in Nat, NEW b \in Nat \ {0}
    PROVE  /\ a \div b \in Nat
           /\ (a \div b) * b <= a
           /\ a < (a \div b + 1) * b
OBVIOUS

\* Products in the two forms the provers do not find by themselves.
LEMMA TimesGrows ==
    ASSUME NEW a \in Nat, NEW b \in Nat, NEW c \in Nat, a <= b
    PROVE  a * c \in Nat /\ b * c \in Nat /\ a * c <= b * c
OBVIOUS

LEMMA TimesNext ==
    ASSUME NEW a \in Nat, NEW c \in Nat
    PROVE  (a + 1) * c = a * c + c
OBVIOUS

\* A quotient is below j if the number is below j times the divisor.
LEMMA QuotientBelow ==
    ASSUME NEW a \in Nat, NEW b \in Nat \ {0}, NEW j \in Nat, a < j * b
    PROVE  a \div b < j
<1> DEFINE q == a \div b
<1>1. q \in Nat /\ q * b <= a
    BY DivFacts
<1> HIDE DEF q
<1>2. ASSUME j <= q PROVE FALSE
    <2>1. j * b \in Nat /\ q * b \in Nat /\ j * b <= q * b
        BY <1>1, <1>2, TimesGrows
    <2> QED BY <1>1, <2>1
<1> QED BY <1>1, <1>2 DEF q

\* An arc's particles: at most a trail and a head, all the arc's, the head last.
LEMMA TrailingFacts ==
    ASSUME NEW arc \in Arc
    PROVE  /\ Trailing(arc) \in Seq(Particle)
           /\ Len(Trailing(arc)) \in 1 .. Segments
           /\ \A i \in 1 .. Len(Trailing(arc)) : Trailing(arc)[i].id = arc.event.id
           /\ Trailing(arc)[Len(Trailing(arc))]
                 = [id |-> arc.event.id, point |-> HeadPoint(arc)]
<1> DEFINE h == HeadPoint(arc)
           tail == IF h < Trail THEN 0 ELSE h - Trail
           T == Trailing(arc)
<1>1. Segments \in Nat /\ Trail \in Nat /\ Full \in Nat \ {0} /\ Trail + 1 <= Segments
    BY GlobeAssumption
<1>2. arc.progress \in Nat /\ arc.event.id \in Nat
    BY DEF Arc, Event
<1>3. h \in Nat
    <2>1. arc.progress * Segments \in Nat
        BY <1>1, <1>2
    <2> QED BY <1>1, <2>1, DivFacts DEF HeadPoint
<1>4. T = [i \in 1 .. h - tail + 1 |-> [id |-> arc.event.id, point |-> tail + i - 1]]
    BY DEF Trailing
<1> HIDE DEF h, T
<1>5. tail \in Nat /\ tail <= h /\ h - tail <= Trail
    BY <1>1, <1>3
<1> HIDE DEF tail
<1> DEFINE n == h - tail + 1
<1>6. n \in Nat /\ n \in 1 .. Segments
    BY <1>1, <1>3, <1>5
<1>7. \A i \in 1 .. n : [id |-> arc.event.id, point |-> tail + i - 1] \in Particle
    BY <1>2, <1>5 DEF Particle
<1>8. tail + n - 1 = h
    BY <1>3, <1>5
<1>9. T = [i \in 1 .. n |-> [id |-> arc.event.id, point |-> tail + i - 1]]
    BY <1>4
<1> HIDE DEF n
<1>10. T \in Seq(Particle) /\ Len(T) = n
    BY <1>6, <1>7, <1>9
<1>11. /\ \A i \in 1 .. n : T[i].id = arc.event.id
       /\ T[n] = [id |-> arc.event.id, point |-> h]
    BY <1>6, <1>8, <1>9
<1> QED BY <1>6, <1>10, <1>11 DEF T, h

\* The rounds of animate's loop over the arcs.
Fillings(list, n, f) ==
    f = [a \in 0 .. n |->
            IF a = 0 THEN <<>>
            ELSE Newest(f[a - 1] \o Trailing(list[a]), MaxArcs * Segments)]

\* There is such a function: the recursive definition of Filled says what it
\* seems to.
LEMMA FillingsExist ==
    ASSUME NEW list, NEW n \in Nat
    PROVE  \E f : Fillings(list, n, f)
<1> DEFINE Bad == {k \in Nat : ~ \E f : Fillings(list, k, f)}
           Add(x, a) == Newest(x \o Trailing(list[a]), MaxArcs * Segments)
<1>1. SUFFICES ASSUME Bad # {} PROVE FALSE
    OBVIOUS
<1>2. PICK k \in Bad : \A j \in Bad : k <= j
    <2> HIDE DEF Bad
    <2>1. Bad \in SUBSET Nat
        BY DEF Bad
    <2> QED BY <1>1, <2>1, LeastElement
<1>3. CASE k = 0
    <2> DEFINE f == [a \in 0 .. 0 |-> <<>>]
    <2>1. Fillings(list, 0, f)
        BY DEF Fillings
    <2> QED BY <1>3, <2>1
<1>4. CASE k # 0
    <2>1. k \in Nat /\ k - 1 \in Nat /\ k - 1 \notin Bad
        BY <1>2, <1>4
    <2>2. PICK f : Fillings(list, k - 1, f)
        BY <2>1
    <2>3. \A a \in 0 .. k - 1 : f[a] = IF a = 0 THEN <<>> ELSE Add(f[a - 1], a)
        BY <2>2 DEF Fillings
    <2> DEFINE g == [a \in 0 .. k |-> IF a = k THEN Add(f[k - 1], k) ELSE f[a]]
    <2> HIDE DEF Add
    <2>4. ASSUME NEW a \in 0 .. k
          PROVE  g[a] = IF a = 0 THEN <<>> ELSE Add(g[a - 1], a)
        <3>1. CASE a = k
            BY <1>4, <2>1, <3>1
        <3>2. CASE a # k
            <4>1. a \in 0 .. k - 1
                BY <2>1, <3>2
            <4>2. a # 0 => a - 1 \in 0 .. k /\ a - 1 # k
                BY <2>1, <4>1
            <4> QED BY <2>3, <3>2, <4>1, <4>2
        <3> QED BY <3>1, <3>2
    <2>5. Fillings(list, k, g)
        <3> DEFINE h == [a \in 0 .. k |-> IF a = 0 THEN <<>> ELSE Add(g[a - 1], a)]
        <3>1. \A a \in 0 .. k : g[a] = h[a]
            BY <2>4
        <3>2. g = h
            BY <3>1
        <3> QED BY <3>2 DEF Fillings, Add
    <2> QED BY <2>1, <2>5
<1> QED BY <1>3, <1>4

\* What is in the instances after n arcs: no more than Segments for each, every
\* one of an arc that may have it, and the head of every arc.
Instances(d, list, n) ==
    /\ d \in Seq(Particle)
    /\ Len(d) <= n * Segments
    /\ \A p \in 1 .. Len(d) :
          \E j \in 1 .. n : d[p].id = list[j].event.id /\ p <= j * Segments
    /\ \A j \in 1 .. n : \E p \in 1 .. Len(d) :
          d[p] = [id |-> list[j].event.id, point |-> HeadPoint(list[j])]

\* One round of the loop: what it appends is never cut, as there is room for
\* Segments instances of each of MaxArcs arcs.
LEMMA FillStep ==
    ASSUME NEW list \in Seq(Arc), Len(list) <= MaxArcs, NEW n \in 1 .. Len(list),
           NEW d, Instances(d, list, n - 1)
    PROVE  Instances(Newest(d \o Trailing(list[n]), MaxArcs * Segments), list, n)
<1> DEFINE t == Trailing(list[n])
           e == d \o t
           C == MaxArcs * Segments
<1>1. /\ Len(list) \in Nat /\ n \in Nat /\ n - 1 \in Nat /\ n <= MaxArcs
      /\ MaxArcs \in Nat /\ Segments \in Nat /\ list[n] \in Arc
    BY GlobeAssumption
<1>2. /\ t \in Seq(Particle) /\ Len(t) \in 1 .. Segments
      /\ \A i \in 1 .. Len(t) : t[i].id = list[n].event.id
      /\ t[Len(t)] = [id |-> list[n].event.id, point |-> HeadPoint(list[n])]
    BY <1>1, TrailingFacts
<1>3. /\ d \in Seq(Particle) /\ Len(d) \in Nat /\ Len(d) <= (n - 1) * Segments
      /\ \A p \in 1 .. Len(d) :
            \E j \in 1 .. n - 1 : d[p].id = list[j].event.id /\ p <= j * Segments
      /\ \A j \in 1 .. n - 1 : \E p \in 1 .. Len(d) :
            d[p] = [id |-> list[j].event.id, point |-> HeadPoint(list[j])]
    BY DEF Instances
<1> HIDE DEF t
<1>4. /\ e \in Seq(Particle) /\ Len(e) = Len(d) + Len(t)
      /\ \A p \in 1 .. Len(d) : e[p] = d[p]
      /\ \A p \in 1 .. Len(t) : e[Len(d) + p] = t[p]
      /\ \A p \in Len(d) + 1 .. Len(d) + Len(t) : e[p] = t[p - Len(d)]
    BY <1>2, <1>3
<1>5. (n - 1) * Segments + Segments = n * Segments
    <2>1. (n - 1 + 1) * Segments = (n - 1) * Segments + Segments
        BY <1>1, TimesNext
    <2>2. n - 1 + 1 = n
        BY <1>1
    <2> QED BY <2>1, <2>2
<1>6. n * Segments \in Nat /\ C \in Nat /\ n * Segments <= C
    BY <1>1, TimesGrows
<1>7. (n - 1) * Segments \in Nat
    BY <1>1, TimesGrows
<1> HIDE DEF e, C
<1>8. Len(e) <= n * Segments /\ Len(e) \in Nat
    BY <1>1, <1>2, <1>3, <1>4, <1>5, <1>6, <1>7
<1>9. Newest(e, C) = e
    <2>1. Len(e) <= C
        BY <1>6, <1>8
    <2>2. Newest(e, C) = SubSeq(e, 1, Len(e))
        BY <1>6, <1>8, <2>1 DEF Newest
    <2> QED BY <1>4, <2>2
<1>10. ASSUME NEW p \in 1 .. Len(e)
       PROVE  \E j \in 1 .. n : e[p].id = list[j].event.id /\ p <= j * Segments
    <2>1. CASE p \in 1 .. Len(d)
        <3>1. PICK j \in 1 .. n - 1 : d[p].id = list[j].event.id /\ p <= j * Segments
            BY <1>3, <2>1
        <3> QED BY <1>1, <1>4, <2>1, <3>1
    <2>2. CASE p \notin 1 .. Len(d)
        <3>1. p - Len(d) \in 1 .. Len(t) /\ p \in Len(d) + 1 .. Len(d) + Len(t)
            BY <1>2, <1>3, <1>4, <2>2
        <3>2. e[p].id = list[n].event.id
            BY <1>2, <1>4, <3>1
        <3>3. p <= n * Segments
            BY <1>6, <1>8
        <3> QED BY <1>1, <3>2, <3>3
    <2> QED BY <2>1, <2>2
<1>11. ASSUME NEW j \in 1 .. n
       PROVE  \E p \in 1 .. Len(e) :
                 e[p] = [id |-> list[j].event.id, point |-> HeadPoint(list[j])]
    <2>1. CASE j = n
        <3>1. Len(d) + Len(t) \in 1 .. Len(e) /\ Len(t) \in 1 .. Len(t)
            BY <1>2, <1>3, <1>4
        <3> QED BY <1>2, <1>4, <2>1, <3>1
    <2>2. CASE j # n
        <3>1. j \in 1 .. n - 1
            BY <1>1, <2>2
        <3>2. PICK p \in 1 .. Len(d) :
                 d[p] = [id |-> list[j].event.id, point |-> HeadPoint(list[j])]
            BY <1>3, <3>1
        <3>3. p \in 1 .. Len(e)
            BY <1>2, <1>3, <1>4
        <3> QED BY <1>4, <3>2, <3>3
    <2> QED BY <2>1, <2>2
<1>12. Instances(e, list, n)
    BY <1>4, <1>8, <1>10, <1>11 DEF Instances
<1> QED BY <1>9, <1>12 DEF e, C, t

\* No arc is cut: the instances suffice for MAX_ARCS arcs of any length.
LEMMA FilledFacts ==
    ASSUME NEW list \in Seq(Arc), Len(list) <= MaxArcs
    PROVE  Instances(Filled(list), list, Len(list))
<1> DEFINE L == Len(list)
           F == CHOOSE f : f = [a \in 0 .. L |->
                                   IF a = 0 THEN <<>>
                                   ELSE Newest(f[a - 1] \o Trailing(list[a]),
                                                 MaxArcs * Segments)]
<1>1. Filled(list) = F[L]
    BY DEF Filled
<1>2. L \in Nat /\ Segments \in Nat
    BY GlobeAssumption
<1> HIDE DEF L
<1>3. Fillings(list, L, F)
    BY <1>2, FillingsExist DEF Fillings
<1> HIDE DEF F
<1>4. /\ F[0] = <<>>
      /\ \A a \in 1 .. L :
            F[a] = Newest(F[a - 1] \o Trailing(list[a]), MaxArcs * Segments)
    BY <1>2, <1>3 DEF Fillings
<1> DEFINE Bad == {n \in 0 .. L : ~ Instances(F[n], list, n)}
<1>5. Bad = {}
    <2>1. SUFFICES ASSUME Bad # {} PROVE FALSE
        OBVIOUS
    <2>2. PICK n \in Bad : \A j \in Bad : n <= j
        <3>1. Bad \in SUBSET Nat
            BY <1>2
        <3> HIDE DEF Bad
        <3> QED BY <2>1, <3>1, LeastElement
    <2>3. CASE n = 0
        <3>1. /\ F[0] \in Seq(Particle) /\ Len(F[0]) = 0
              /\ 0 * Segments = 0 /\ 1 .. 0 = {}
            BY <1>2, <1>4
        <3>2. Instances(F[0], list, 0)
            BY <3>1 DEF Instances
        <3> QED BY <2>3, <3>2
    <2>4. CASE n # 0
        <3>1. n \in 1 .. L /\ n - 1 \in 0 .. L /\ n - 1 \notin Bad
            BY <1>2, <2>2, <2>4
        <3>2. Instances(F[n - 1], list, n - 1)
            BY <3>1
        <3>3. n \in 1 .. Len(list)
            BY <3>1 DEF L
        <3>4. Instances(F[n], list, n)
            BY <1>4, <3>1, <3>2, <3>3, FillStep
        <3> QED BY <3>1, <3>4
    <2> QED BY <2>3, <2>4
<1>6. Instances(F[L], list, L)
    BY <1>2, <1>5
<1> QED BY <1>1, <1>6 DEF L

-----------------------------------------------------------------------------
\* The arcs of a list: one for each of its newest events, in its order.
ArcsOf(list, es) ==
    /\ list \in Seq(Arc)
    /\ Len(list) = IF Len(es) < MaxArcs THEN Len(es) ELSE MaxArcs
    /\ \A i \in 1 .. Len(list) : list[i].event = es[i]

\* A globe on the page has the arcs of the list, as the effect on the list runs
\* with every render; one that is not has none.
ArcsInv ==
    IF mounted THEN ArcsOf(arcs, events) ELSE arcs = <<>> /\ drawn = <<>>

\* An instance of the last frame is of the arc its index stands for or of an
\* older one, whatever came since.
DrawnInv ==
    /\ drawn \in Seq(Particle)
    /\ \A p \in 1 .. Len(drawn) :
          /\ ArcIndex(p - 1) < Len(arcs)
          /\ drawn[p].id \in 1 .. arrivals - ArcIndex(p - 1)

\* The instances are those of an older list, or all heads are among them.
HeadsInv ==
    mounted =>
        \/ \A p \in 1 .. Len(drawn) : drawn[p].id < arcs[1].event.id
        \/ \A i \in 1 .. Len(arcs) : \E p \in 1 .. Len(drawn) :
              drawn[p] = [id |-> arcs[i].event.id, point |-> HeadPoint(arcs[i])]

\* What ClickNeverOlder says, and that ids are numbers.
ClickInv ==
    /\ clicked.hit \in Nat /\ clicked.selected \in Nat
    /\ clicked.hit # 0 => clicked.hit <= clicked.selected

\* The globe's inductive invariant: where a click leads depends on the index, on
\* the list of now and on the frame that is still shown.
GlobeInv == EventsInv /\ ArcsInv /\ DrawnInv /\ HeadsInv /\ ClickInv

\* An index is that of an arc, and of a number.
LEMMA ArcIndexFacts ==
    ASSUME NEW p \in Nat \ {0}
    PROVE  /\ ArcIndex(p - 1) \in Nat
           /\ \A j \in Nat : p <= j * Segments => ArcIndex(p - 1) < j
<1>1. p - 1 \in Nat /\ Segments \in Nat \ {0}
    BY GlobeAssumption
<1>2. ArcIndex(p - 1) = (p - 1) \div Segments
    BY DEF ArcIndex
<1>3. ASSUME NEW j \in Nat, p <= j * Segments
      PROVE  (p - 1) \div Segments < j
    <2>1. j * Segments \in Nat
        BY <1>1
    <2>2. p - 1 < j * Segments
        BY <1>3, <2>1
    <2> QED BY <1>1, <2>2, QuotientBelow
<1> QED BY <1>1, <1>2, <1>3, DivFacts

\* An index counts from 1.
LEMMA IndexOfInstance ==
    ASSUME NEW n \in Nat, NEW p \in 1 .. n
    PROVE  p \in Nat \ {0}
OBVIOUS

\* Event ids fall along the list.
LEMMA ListFacts ==
    ASSUME EventsInv
    PROVE  /\ Len(events) \in Nat /\ arrivals \in Nat /\ Len(events) <= arrivals
           /\ MaxArcs \in Nat \ {0}
           /\ \A i \in 1 .. Len(events) :
                 /\ events[i] \in Event
                 /\ events[i].id = arrivals - i + 1 /\ events[i].id \in 1 .. arrivals
<1>1. /\ Len(events) \in Nat /\ arrivals \in Nat /\ Len(events) <= arrivals
      /\ \A i \in 1 .. Len(events) : events[i] \in Event
    BY SeqFacts DEF EventsInv
<1>2. \A i \in 1 .. Len(events) : events[i].id = arrivals - i + 1
    BY DEF EventsInv
<1>3. \A i \in 1 .. Len(events) : events[i].id \in 1 .. arrivals
    BY <1>1, <1>2
<1> QED BY <1>1, <1>2, <1>3, GlobeAssumption

\* The effect makes the arcs of the list it is given.
LEMMA SyncedFacts ==
    ASSUME NEW es \in Seq(Event), NEW built \in Synced(es)
    PROVE  ArcsOf(built, es)
<1> DEFINE m == IF Len(es) < MaxArcs THEN Len(es) ELSE MaxArcs
<1>1. PICK speed \in [1 .. MaxArcs -> Speeds] :
         built = [i \in DOMAIN Newest(es, MaxArcs) |->
                     [event |-> es[i], progress |-> 0, speed |-> speed[i]]]
    BY DEF Synced, buildArc
<1>2. /\ MaxArcs \in Nat /\ Speeds \subseteq Nat /\ Len(es) \in Nat
      /\ m \in Nat /\ m <= MaxArcs /\ m <= Len(es)
      /\ \A i \in 1 .. Len(es) : es[i] \in Event
    BY SeqFacts, GlobeAssumption
<1>3. DOMAIN Newest(es, MaxArcs) = 1 .. m
    BY <1>2, NewestFacts
<1> HIDE DEF m
<1>4. \A i \in 1 .. m : [event |-> es[i], progress |-> 0, speed |-> speed[i]] \in Arc
    <2>1. \A i \in 1 .. m : i \in 1 .. MaxArcs /\ i \in 1 .. Len(es)
        BY <1>2
    <2>2. \A i \in 1 .. m : speed[i] \in Nat /\ es[i] \in Event
        BY <1>2, <2>1
    <2> QED BY <2>2 DEF Arc
<1>5. built = [i \in 1 .. m |-> [event |-> es[i], progress |-> 0, speed |-> speed[i]]]
    BY <1>1, <1>3
<1>6. built \in Seq(Arc) /\ Len(built) = m
    BY <1>2, <1>4, <1>5
<1>7. \A i \in 1 .. m : built[i].event = es[i]
    BY <1>5
<1> QED BY <1>6, <1>7 DEF ArcsOf, m

\* An arc that advanced is still its event's.
LEMMA AdvancedFacts ==
    ASSUME NEW arc \in Arc
    PROVE  Advanced(arc) \in Arc /\ Advanced(arc).event = arc.event
BY GlobeAssumption DEF Advanced, Arc

\* A frame draws every arc of the list, at the index the arc has or before it.
LEMMA AnimateFacts ==
    ASSUME EventsInv, NEW list, ArcsOf(list, events), animate(list),
           UNCHANGED <<events, arrivals>>
    PROVE  /\ ArcsOf(arcs', events')
           /\ DrawnInv'
           /\ HeadsInv'
<1> DEFINE n == Len(list)
           next == [i \in DOMAIN list |-> Advanced(list[i])]
<1>1. /\ list \in Seq(Arc) /\ n \in Nat /\ DOMAIN list = 1 .. n
      /\ \A i \in 1 .. n : list[i] \in Arc /\ list[i].event = events[i]
      /\ n = IF Len(events) < MaxArcs THEN Len(events) ELSE MaxArcs
    BY SeqFacts DEF ArcsOf
<1>2. arcs' = next /\ drawn' = Filled(arcs')
    BY DEF animate
<1> HIDE DEF n
<1>3. /\ next \in Seq(Arc) /\ Len(next) = n
      /\ \A i \in 1 .. n : next[i].event = events[i]
    BY <1>1, AdvancedFacts
<1> HIDE DEF next
<1>4. ArcsOf(arcs', events')
    BY <1>1, <1>2, <1>3 DEF ArcsOf
<1>5. n <= MaxArcs /\ n <= Len(events)
    BY <1>1, ListFacts
<1>6. Instances(drawn', next, n)
    BY <1>2, <1>3, <1>5, FilledFacts
<1>7. /\ drawn' \in Seq(Particle) /\ Len(drawn') \in Nat
      /\ \A p \in 1 .. Len(drawn') :
            \E j \in 1 .. n : drawn'[p].id = next[j].event.id /\ p <= j * Segments
      /\ \A j \in 1 .. n : \E p \in 1 .. Len(drawn') :
            drawn'[p] = [id |-> next[j].event.id, point |-> HeadPoint(next[j])]
    BY <1>6, SeqFacts DEF Instances
<1>8. ASSUME NEW p \in 1 .. Len(drawn')
      PROVE  /\ ArcIndex(p - 1) < n
             /\ drawn'[p].id \in 1 .. arrivals - ArcIndex(p - 1)
    <2>1. PICK j \in 1 .. n : drawn'[p].id = next[j].event.id /\ p <= j * Segments
        BY <1>7
    <2>2. j \in Nat /\ j <= n /\ j \in 1 .. Len(events)
        BY <1>1, <1>5, ListFacts
    <2>3. drawn'[p].id = arrivals - j + 1
        BY <1>3, <2>1, <2>2, ListFacts
    <2>4. ArcIndex(p - 1) \in Nat /\ ArcIndex(p - 1) < j
        BY <1>7, <2>1, <2>2, IndexOfInstance, ArcIndexFacts
    <2>5. arrivals \in Nat /\ j <= arrivals
        BY <2>2, ListFacts
    <2> DEFINE i == ArcIndex(p - 1)
    <2> HIDE DEF i
    <2>6. i \in Nat /\ i < j
        BY <2>4 DEF i
    <2>7. i < n /\ arrivals - j + 1 \in 1 .. arrivals - i
        BY <1>1, <2>2, <2>5, <2>6
    <2> QED BY <2>3, <2>7 DEF i
<1>9. DrawnInv'
    BY <1>2, <1>3, <1>7, <1>8 DEF DrawnInv, ArcIndex
<1>10. HeadsInv'
    BY <1>2, <1>3, <1>7 DEF HeadsInv, HeadPoint
<1> QED BY <1>4, <1>9, <1>10

\* Nothing is drawn before the first mount.
LEMMA GlobeInit == G_Init => GlobeInv
<1> SUFFICES ASSUME G_Init PROVE GlobeInv
    OBVIOUS
<1>1. /\ events = <<>> /\ arrivals = 0 /\ mounted = FALSE /\ arcs = <<>> /\ drawn = <<>>
      /\ clicked = [hit |-> 0, selected |-> 0]
    BY DEF G_Init, NoClick
<1>2. EventsInv
    BY <1>1, EventsInit
<1>3. drawn \in Seq(Particle) /\ Len(drawn) = 0
    BY <1>1
<1>4. ArcsInv /\ HeadsInv /\ ClickInv
    BY <1>1 DEF ArcsInv, HeadsInv, ClickInv
<1>5. DrawnInv
    BY <1>3 DEF DrawnInv
<1> QED BY <1>2, <1>4, <1>5 DEF GlobeInv

\* A new list: the arcs are made anew, every one of the last frame's has moved
\* to a higher index, and what was drawn is older than the first arc.
LEMMA NewListFacts ==
    ASSUME GlobeInv, NEW kind \in Kinds, G_NewEvents(kind)
    PROVE  GlobeInv'
<1>1. Arrive(kind) /\ UNCHANGED <<mounted, drawn, clicked>>
    BY DEF G_NewEvents, view, hand
<1>2. EventsInv /\ ArcsInv /\ DrawnInv /\ HeadsInv /\ ClickInv
    BY DEF GlobeInv
<1>3. /\ EventsInv' /\ arrivals' = arrivals + 1
      /\ Len(events') = IF Len(events) < MaxEvents THEN Len(events) + 1 ELSE MaxEvents
    BY <1>1, <1>2, ArriveFacts
<1>4. ClickInv'
    BY <1>1, <1>2 DEF ClickInv
<1>5. CASE ~mounted
    <2>1. arcs' = <<>> /\ drawn' = <<>> /\ mounted' = FALSE
        BY <1>1, <1>2, <1>5 DEF ArcsInv, G_NewEvents
    <2>2. drawn' \in Seq(Particle) /\ Len(drawn') = 0
        BY <2>1
    <2>3. ArcsInv' /\ HeadsInv' /\ DrawnInv'
        BY <1>5, <2>1, <2>2 DEF ArcsInv, HeadsInv, DrawnInv
    <2> QED BY <1>3, <1>4, <2>3 DEF GlobeInv
<1>6. CASE mounted
    <2>1. arcs' \in Synced(events')
        BY <1>6 DEF G_NewEvents
    <2>2. ArcsOf(arcs', events')
        <3>1. events' \in Seq(Event)
            BY <1>3 DEF EventsInv
        <3> QED BY <2>1, <3>1, SyncedFacts
    <2>3. ArcsOf(arcs, events)
        BY <1>2, <1>6 DEF ArcsInv
    <2>4. ArcsInv'
        BY <1>1, <1>6, <2>2 DEF ArcsInv
    <2>5. /\ MaxArcs \in Nat /\ MaxArcs > 0 /\ MaxEvents \in Nat /\ MaxEvents > 0
          /\ Len(events) \in Nat /\ Len(events) <= MaxEvents /\ arrivals \in Nat
        BY <1>2, ListFacts, EventsAssumption DEF EventsInv
    <2>6. Len(arcs) <= Len(arcs') /\ 1 <= Len(arcs') /\ Len(arcs) \in Nat /\ Len(arcs') \in Nat
        BY <1>3, <2>2, <2>3, <2>5 DEF ArcsOf
    <2>7. arcs'[1].event.id = arrivals + 1
        <3>1. Len(events') >= 1
            BY <1>3, <2>5
        <3>2. arcs'[1].event = events'[1]
            BY <2>2, <2>6 DEF ArcsOf
        <3>3. events'[1].id = arrivals' - 1 + 1
            BY <1>3, <3>1 DEF EventsInv
        <3> QED BY <1>3, <2>5, <3>2, <3>3
    <2>8. ASSUME NEW p \in 1 .. Len(drawn)
          PROVE  /\ ArcIndex(p - 1) < Len(arcs')
                 /\ drawn[p].id \in 1 .. arrivals' - ArcIndex(p - 1)
                 /\ drawn[p].id < arrivals + 1
        <3> DEFINE i == ArcIndex(p - 1)
        <3>1. i < Len(arcs) /\ drawn[p].id \in 1 .. arrivals - i
            BY <1>2 DEF DrawnInv
        <3>2. i \in Nat
            <4>1. Len(drawn) \in Nat
                BY <1>2, SeqFacts DEF DrawnInv
            <4> QED BY <4>1, IndexOfInstance, ArcIndexFacts
        <3> HIDE DEF i
        <3>3. arrivals' = arrivals + 1
            BY <1>3
        <3>4. /\ i < Len(arcs') /\ drawn[p].id \in 1 .. arrivals' - i
              /\ drawn[p].id < arrivals + 1
            BY <2>5, <2>6, <3>1, <3>2, <3>3
        <3> QED BY <3>4 DEF i
    <2>9. DrawnInv'
        BY <1>1, <1>2, <2>8 DEF DrawnInv, ArcIndex
    <2>10. HeadsInv'
        BY <1>1, <2>7, <2>8 DEF HeadsInv
    <2> QED BY <1>3, <1>4, <2>4, <2>9, <2>10 DEF GlobeInv
<1> QED BY <1>5, <1>6

\* A click finds the event that was hit or a newer one.
LEMMA ClickFacts ==
    ASSUME GlobeInv, mounted, NEW instance \in 0 .. Len(drawn) - 1
    PROVE  LET i == ArcIndex(instance)
           IN  /\ i \in Nat /\ i < Len(arcs)
               /\ i + 1 \in 1 .. Len(arcs) /\ i + 1 \in 1 .. Len(events)
               /\ arcs[i + 1].event = events[i + 1]
               /\ drawn[instance + 1].id \in 1 .. arcs[i + 1].event.id
               /\ arcs[i + 1].event.id \in Nat
<1> DEFINE p == instance + 1
           i == ArcIndex(instance)
<1>1. EventsInv /\ ArcsOf(arcs, events) /\ DrawnInv
    BY DEF GlobeInv, ArcsInv
<1>2. Len(drawn) \in Nat
    BY <1>1, SeqFacts DEF DrawnInv
<1>3. p \in 1 .. Len(drawn) /\ p \in Nat \ {0} /\ p - 1 = instance
    BY <1>2
<1>4. i \in Nat
    BY <1>3, ArcIndexFacts
<1>5. i < Len(arcs) /\ drawn[p].id \in 1 .. arrivals - i
    BY <1>1, <1>3 DEF DrawnInv
<1> HIDE DEF i
<1>6. i + 1 \in 1 .. Len(arcs) /\ i + 1 \in 1 .. Len(events)
    BY <1>1, <1>4, <1>5, ListFacts DEF ArcsOf
<1>7. arcs[i + 1].event = events[i + 1] /\ events[i + 1].id = arrivals - (i + 1) + 1
    BY <1>1, <1>6, ListFacts DEF ArcsOf
<1>8. events[i + 1].id \in 1 .. arrivals /\ arrivals \in Nat
    BY <1>1, <1>6, ListFacts
<1>9. drawn[p].id \in 1 .. arcs[i + 1].event.id
    <2>1. arrivals - (i + 1) + 1 = arrivals - i
        BY <1>4, <1>8
    <2> QED BY <1>5, <1>7, <2>1
<1> QED BY <1>4, <1>5, <1>6, <1>7, <1>8, <1>9 DEF i

\* Neither effects, frames nor the mouse break the globe's invariant.
LEMMA GlobeStep == GlobeInv /\ [G_Next]_(G_vars) => GlobeInv'
<1> SUFFICES ASSUME GlobeInv, [G_Next]_(G_vars)
             PROVE  GlobeInv'
    OBVIOUS
<1>0. EventsInv /\ ArcsInv /\ DrawnInv /\ HeadsInv /\ ClickInv
    BY DEF GlobeInv
<1>1. ASSUME UNCHANGED <<events, arrivals>> PROVE EventsInv'
    BY <1>0, <1>1 DEF EventsInv
<1>2. ASSUME UNCHANGED <<events, arrivals, mounted, arcs, drawn>>
      PROVE  ArcsInv' /\ DrawnInv' /\ HeadsInv'
    BY <1>0, <1>2 DEF ArcsInv, ArcsOf, DrawnInv, HeadsInv, ArcIndex, HeadPoint
<1>3. CASE Mount
    <2>1. /\ UNCHANGED <<events, arrivals, clicked>> /\ mounted' = TRUE
          /\ \E built \in Synced(events) : animate(built)
        BY <1>3 DEF Mount
    <2>2. PICK built \in Synced(events) : animate(built)
        BY <2>1
    <2>3. ArcsOf(arcs', events') /\ DrawnInv' /\ HeadsInv'
        <3>1. ArcsOf(built, events)
            BY <1>0, <2>2, SyncedFacts DEF EventsInv
        <3> QED BY <1>0, <2>1, <2>2, <3>1, AnimateFacts
    <2>4. ArcsInv'
        BY <2>1, <2>3 DEF ArcsInv
    <2>5. ClickInv'
        BY <1>0, <2>1 DEF ClickInv
    <2> QED BY <1>1, <2>1, <2>3, <2>4, <2>5 DEF GlobeInv
<1>4. CASE Unmount
    <2>1. /\ UNCHANGED <<events, arrivals, clicked>> /\ mounted' = FALSE
          /\ arcs' = <<>> /\ drawn' = <<>>
        BY <1>4 DEF Unmount, hand
    <2>2. drawn' \in Seq(Particle) /\ Len(drawn') = 0
        BY <2>1
    <2>3. ArcsInv' /\ DrawnInv' /\ HeadsInv' /\ ClickInv'
        BY <1>0, <2>1, <2>2 DEF ArcsInv, DrawnInv, HeadsInv, ClickInv
    <2> QED BY <1>1, <2>1, <2>3 DEF GlobeInv
<1>5. ASSUME NEW kind \in Kinds, G_NewEvents(kind) PROVE GlobeInv'
    BY <1>5, NewListFacts
<1>6. CASE Frame
    <2>1. /\ UNCHANGED <<events, arrivals, clicked, mounted>> /\ mounted
          /\ animate(arcs)
        BY <1>6 DEF Frame, view, hand
    <2>2. ArcsOf(arcs, events)
        BY <1>0, <2>1 DEF ArcsInv
    <2>3. ArcsOf(arcs', events') /\ DrawnInv' /\ HeadsInv'
        BY <1>0, <2>1, <2>2, AnimateFacts
    <2>4. ArcsInv' /\ ClickInv'
        BY <1>0, <2>1, <2>3 DEF ArcsInv, ClickInv
    <2> QED BY <1>1, <2>1, <2>3, <2>4 DEF GlobeInv
<1>7. CASE MouseDown \/ (\E dy \in {-1, 1} : MouseMove(dy)) \/ MouseUp \/ UNCHANGED G_vars
    <2>1. UNCHANGED <<events, arrivals, mounted, arcs, drawn, clicked>>
        BY <1>7 DEF MouseDown, MouseMove, MouseUp, G_vars, view, hand
    <2>2. ClickInv'
        BY <1>0, <2>1 DEF ClickInv
    <2> QED BY <1>1, <1>2, <2>1, <2>2 DEF GlobeInv
<1>8. ASSUME NEW instance \in 0 .. Len(drawn) - 1, MouseUpOn(instance) PROVE GlobeInv'
    <2>1. mounted /\ UNCHANGED <<events, arrivals, mounted, arcs, drawn>>
        BY <1>8 DEF MouseUpOn, Moved, view
    <2> DEFINE i == ArcIndex(instance)
    <2>2. /\ i < Len(arcs)
          /\ drawn[instance + 1].id \in 1 .. arcs[i + 1].event.id
          /\ arcs[i + 1].event.id \in Nat
        BY <2>1, ClickFacts
    <2>3. clicked' = [hit |-> drawn[instance + 1].id, selected |-> arcs[i + 1].event.id]
        BY <1>8, <2>2 DEF MouseUpOn, Click
    <2> HIDE DEF i
    <2>4. ClickInv'
        BY <2>2, <2>3 DEF ClickInv
    <2> QED BY <1>1, <1>2, <2>1, <2>4 DEF GlobeInv
<1> QED BY <1>3, <1>4, <1>5, <1>6, <1>7, <1>8 DEF G_Next

\* In Globe.tsx the arcs are those of the list of now, the instances those of the
\* last frame, and the arc of an index is never older than its instance.
THEOREM GlobeInvariant == G_Spec => []GlobeInv
<1> QED BY GlobeInit, GlobeStep, PTL DEF G_Spec

\* The MAX_ARCS * ARC_SEGMENTS instances of Globe.tsx are enough for every arc of a
\* frame, its head included, wherever the arcs are.
THEOREM EveryArcIsDrawn == G_Spec => []FullyDrawn
<1>1. GlobeInv => FullyDrawn
    <2> SUFFICES ASSUME GlobeInv, mounted,
                        NEW q \in DOMAIN drawn, drawn[q].id = arcs[1].event.id,
                        NEW a \in ToSet(arcs)
                 PROVE  \E p \in DOMAIN drawn :
                           drawn[p].id = a.event.id /\ HeadPoint(a) = drawn[p].point
        BY DEF FullyDrawn, ToSet
    <2>1. arcs \in Seq(Arc) /\ HeadsInv /\ drawn \in Seq(Particle)
        BY DEF GlobeInv, ArcsInv, ArcsOf, DrawnInv
    <2>2. DOMAIN drawn = 1 .. Len(drawn) /\ DOMAIN arcs = 1 .. Len(arcs)
        BY <2>1, SeqFacts
    <2>3. drawn[q].id \in Nat /\ q \in 1 .. Len(drawn)
        <3>1. drawn[q] \in Particle
            BY <2>1, <2>2, SeqFacts
        <3> QED BY <2>2, <3>1 DEF Particle
    <2>4. ~ \A p \in 1 .. Len(drawn) : drawn[p].id < arcs[1].event.id
        BY <2>3
    <2>5. PICK i \in 1 .. Len(arcs) : a = arcs[i]
        BY <2>2 DEF ToSet
    <2>6. PICK p \in 1 .. Len(drawn) :
             drawn[p] = [id |-> arcs[i].event.id, point |-> HeadPoint(arcs[i])]
        BY <2>1, <2>4 DEF HeadsInv
    <2> QED BY <2>2, <2>5, <2>6
<1> QED BY <1>1, GlobeInvariant, PTL

\* handleClick of Globe.tsx selects the event that was hit or a newer one, whatever
\* came since the frame that was clicked.
THEOREM ClicksAreNeverOlder == G_Spec => []ClickNeverOlder
<1>1. GlobeInv => ClickNeverOlder
    BY DEF GlobeInv, ClickInv, ClickNeverOlder
<1> QED BY <1>1, GlobeInvariant, PTL
-----------------------------------------------------------------------------
\* The page with the globe in it (page.tsx): the globe is there only as the active
\* view.
ViewsInv == PageInv /\ GlobeInv /\ (mounted => activeView = "globe")

\* A step of the composition is a step of the page, or one it does not see.
LEMMA ViewsStepsPage == ViewsInv /\ [V_Next]_views => [Next]_vars
<1> SUFFICES ASSUME ViewsInv, [V_Next]_views
             PROVE  [Next]_vars
    OBVIOUS
<1>1. ASSUME NEW kind \in Kinds, NewList(kind) PROVE Next
    BY <1>1 DEF NewList, Next
<1>2. CASE GlobeAppears
    BY <1>2 DEF GlobeAppears, Mount, controls, vars
<1>3. CASE ChangeView
    BY <1>3 DEF ChangeView, Next
<1>4. CASE TakenAway
    BY <1>4 DEF TakenAway, Unmount, controls, vars
<1>5. CASE Turn
    <2>1. UNCHANGED <<events, arrivals, controls>>
        BY <1>5 DEF Turn, Frame, MouseDown, MouseMove, MouseUp
    <2> QED BY <2>1 DEF controls, vars
<1>6. ASSUME NEW instance \in 0 .. Len(drawn) - 1, PickArc(instance)
      PROVE  [Next]_vars
    <2> DEFINE i == ArcIndex(instance)
    <2>1. MouseUpOn(instance) /\ mounted
        BY <1>6 DEF PickArc, MouseUpOn, Moved
    <2>2. /\ i < Len(arcs) /\ i + 1 \in 1 .. Len(events)
          /\ arcs[i + 1].event = events[i + 1]
        BY <2>1, ClickFacts DEF ViewsInv
    <2>3. handleSelectEvent(events[i + 1])
        BY <1>6, <2>2 DEF PickArc
    <2>4. activeView = "globe"
        BY <2>1 DEF ViewsInv
    <2>5. events[i + 1] \in ToSet(events)
        <3>1. DOMAIN events = 1 .. Len(events)
            BY SeqFacts DEF ViewsInv, PageInv, EventsInv
        <3> HIDE DEF i
        <3> QED BY <2>2, <3>1 DEF ToSet
    <2>6. SelectEvent(events[i + 1])
        BY <2>3, <2>4 DEF SelectEvent
    <2> QED BY <2>5, <2>6 DEF Next
<1>7. CASE Control
    BY <1>7 DEF Control, Next
<1>8. CASE UNCHANGED views
    BY <1>8 DEF views, controls, vars
<1> QED BY <1>1, <1>2, <1>3, <1>4, <1>5, <1>6, <1>7, <1>8 DEF V_Next

\* The same for the globe; what the page does to itself leaves it alone.
LEMMA ViewsStepsGlobe == [V_Next]_views => [G_Next]_(G_vars)
<1> SUFFICES ASSUME [V_Next]_views
             PROVE  [G_Next]_(G_vars)
    OBVIOUS
<1>0. ASSUME UNCHANGED <<events, arrivals, globe>> PROVE UNCHANGED G_vars
    BY <1>0 DEF globe, G_vars, view, hand
<1>1. ASSUME NEW kind \in Kinds, NewList(kind) PROVE G_Next
    BY <1>1 DEF NewList, G_Next
<1>2. CASE GlobeAppears
    BY <1>2 DEF GlobeAppears, G_Next
<1>3. CASE ChangeView
    <2>1. UNCHANGED <<events, arrivals>>
        BY <1>3 DEF ChangeView, SwitchView
    <2> QED BY <1>0, <1>3, <2>1 DEF ChangeView, G_Next
<1>4. CASE TakenAway
    BY <1>4 DEF TakenAway, G_Next
<1>5. CASE Turn
    BY <1>5 DEF Turn, G_Next
<1>6. ASSUME NEW instance \in 0 .. Len(drawn) - 1, PickArc(instance) PROVE G_Next
    BY <1>6 DEF PickArc, G_Next
<1>7. CASE Control
    <2>1. UNCHANGED <<events, arrivals>>
        BY <1>7 DEF Control, Type, Toggle, Choose, Debounced, PressNode, ReleaseNode, ClearFilter
    <2> QED BY <1>0, <1>7, <2>1 DEF Control
<1>8. CASE UNCHANGED views
    BY <1>0, <1>8 DEF views
<1> QED BY <1>1, <1>2, <1>3, <1>4, <1>5, <1>6, <1>7, <1>8 DEF V_Next

\* The globe goes with its view.
LEMMA ViewsStep == ViewsInv /\ [V_Next]_views => ViewsInv'
<1> SUFFICES ASSUME ViewsInv, [V_Next]_views
             PROVE  (mounted => activeView = "globe")'
    BY ViewsStepsPage, ViewsStepsGlobe, PageStep, GlobeStep DEF ViewsInv
<1>0. mounted => activeView = "globe"
    BY DEF ViewsInv
<1>1. ASSUME UNCHANGED <<mounted, activeView>> PROVE (mounted => activeView = "globe")'
    BY <1>0, <1>1
<1>2. ASSUME NEW kind \in Kinds, NewList(kind)
      PROVE  UNCHANGED <<mounted, activeView>>
    BY <1>2 DEF NewList, NewEvents, G_NewEvents, view, page
<1>3. CASE GlobeAppears
    BY <1>3 DEF GlobeAppears, controls, page
<1>4. CASE ChangeView
    BY <1>0, <1>4 DEF ChangeView, SwitchView, Unmount, globe
<1>5. CASE TakenAway
    BY <1>5 DEF TakenAway, Unmount
<1>6. CASE Turn
    BY <1>1, <1>6 DEF Turn, Frame, MouseDown, MouseMove, MouseUp, view, controls, page
<1>7. ASSUME NEW instance \in 0 .. Len(drawn) - 1, PickArc(instance)
      PROVE  UNCHANGED <<mounted, activeView>>
    BY <1>7 DEF PickArc, MouseUpOn, view, handleSelectEvent, controls, page
<1>8. CASE Control
    BY <1>1, <1>8 DEF Control, Type, Toggle, Choose, Debounced, PressNode, ReleaseNode,
                      ClearFilter, globe, page
<1>9. CASE UNCHANGED views
    BY <1>1, <1>9 DEF views, controls, globe, page
<1> QED BY <1>1, <1>2, <1>3, <1>4, <1>5, <1>6, <1>7, <1>8, <1>9 DEF V_Next

\* Page and globe start as they do alone.
LEMMA ViewsInit == V_Init => ViewsInv
<1>1. G_Init => ~mounted
    BY DEF G_Init
<1> QED BY <1>1, PageInit, GlobeInit DEF V_Init, ViewsInv

\* Both invariants hold of the two together.
LEMMA ViewsInvariant == V_Spec => []ViewsInv
<1> QED BY ViewsInit, ViewsStep, PTL DEF V_Spec

\* The page with the real globe does what Dashboard says with any globe that
\* hands over an event of the list (page.tsx's handleSelectEvent).
THEOREM ViewsImplementPage == V_Spec => ImplementsPage
<1>1. V_Init => Init
    BY DEF V_Init
<1> QED BY <1>1, ViewsInvariant, ViewsStepsPage, PTL DEF V_Spec, ImplementsPage

\* And the globe that page.tsx mounts and unmounts behaves as Globe says: what is
\* proved of Globe holds of it.
THEOREM ViewsImplementGlobe == V_Spec => G_Spec
<1>1. V_Init => G_Init
    BY DEF V_Init
<1> QED BY <1>1, ViewsStepsGlobe, PTL DEF V_Spec, G_Spec

\* The detail changes to what a click hands over, or to nothing.
LEMMA DetailStep == ViewsInv /\ DetailIsClicked /\ [V_Next]_views => DetailIsClicked'
<1> SUFFICES ASSUME ViewsInv, DetailIsClicked, [V_Next]_views
             PROVE  DetailIsClicked'
    OBVIOUS
<1>1. ASSUME UNCHANGED clicked, selectedEvent' \in {selectedEvent, 0}
      PROVE  DetailIsClicked'
    BY <1>1 DEF DetailIsClicked, ClickNeverOlder
<1>2. ASSUME NEW kind \in Kinds, NewList(kind)
      PROVE  UNCHANGED <<clicked, selectedEvent>>
    BY <1>2 DEF NewList, NewEvents, G_NewEvents, hand, page
<1>3. CASE GlobeAppears
    BY <1>1, <1>3 DEF GlobeAppears, Mount, controls, page
<1>4. CASE ChangeView
    BY <1>1, <1>4 DEF ChangeView, SwitchView, Unmount, hand, globe
<1>5. CASE TakenAway
    BY <1>1, <1>5 DEF TakenAway, Unmount, hand, controls, page
<1>6. CASE Turn
    BY <1>1, <1>6 DEF Turn, Frame, MouseDown, MouseMove, MouseUp, hand, controls, page
<1>7. ASSUME NEW instance \in 0 .. Len(drawn) - 1, PickArc(instance)
      PROVE  DetailIsClicked'
    <2> DEFINE i == ArcIndex(instance)
    <2>1. MouseUpOn(instance) /\ mounted
        BY <1>7 DEF PickArc, MouseUpOn, Moved
    <2>2. /\ i < Len(arcs)
          /\ drawn[instance + 1].id \in 1 .. arcs[i + 1].event.id
        BY <2>1, ClickFacts DEF ViewsInv
    <2>3. clicked' = [hit |-> drawn[instance + 1].id, selected |-> arcs[i + 1].event.id]
        BY <2>1, <2>2 DEF MouseUpOn, Click
    <2>4. selectedEvent' = arcs[i + 1].event.id
        BY <1>7, <2>2 DEF PickArc, handleSelectEvent
    <2> HIDE DEF i
    <2> QED BY <2>2, <2>3, <2>4 DEF DetailIsClicked, ClickNeverOlder
<1>8. CASE Control
    BY <1>1, <1>8 DEF Control, Type, Toggle, Choose, Debounced, PressNode, ReleaseNode,
                      ClearFilter, globe, page
<1>9. CASE UNCHANGED views
    BY <1>1, <1>9 DEF views, controls, globe, page
<1> QED BY <1>1, <1>2, <1>3, <1>4, <1>5, <1>6, <1>7, <1>8, <1>9 DEF V_Next

\* The detail of the sidebar (page.tsx's selectedEvent) shows the event that was
\* clicked last or a newer one, and no click that hits an arc (handleClick) gets
\* lost, through new lists, frames and remounts.
THEOREM TheDetailIsClicked == V_Spec => []DetailIsClicked
<1>1. V_Init => DetailIsClicked
    <2> SUFFICES ASSUME V_Init PROVE DetailIsClicked
        OBVIOUS
    <2>1. selectedEvent = 0 /\ clicked = [hit |-> 0, selected |-> 0]
        BY DEF V_Init, Init, G_Init, NoClick
    <2> QED BY <2>1 DEF DetailIsClicked, ClickNeverOlder
<1> QED BY <1>1, DetailStep, ViewsInvariant, PTL DEF V_Spec
=============================================================================
