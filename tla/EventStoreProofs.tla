-------------------------- MODULE EventStoreProofs --------------------------
(***************************************************************************)
(* Theorems about EventStore, for every set of countries and all windows    *)
(* and bounds that meet StoreAssumption: the statistics of the sidebar are  *)
(* those of the last push, and the rate counts every push of its window.    *)
(***************************************************************************)
EXTENDS EventStore, SubsequenceProofs, TLAPS

\* How many pushes have left the window's list.
Gone == Len(pushed) - Len(recentTimestamps)

\* Since it was last set back the clock has only gone forward.
ClockInv ==
    /\ corrected = 0 => since = 0
    /\ \A i \in since + 1 .. Len(pushed) : pushed[i] <= now
    /\ \A i, j \in since + 1 .. Len(pushed) : i < j => pushed[i] <= pushed[j]

\* The stamps are those of the last pushes; what has left is out of the window
\* that ended with the last push, and if the clock was never set back what has
\* not is in it.
StampsInv ==
    /\ \A i \in DOMAIN recentTimestamps : recentTimestamps[i] = pushed[Gone + i]
    /\ \A i \in since + 1 .. Gone : pushed[i] < Last(pushed) - RateWindow
    /\ corrected = 0 =>
          \A i \in DOMAIN recentTimestamps : recentTimestamps[i] >= Last(pushed) - RateWindow

RateInv == eventsPerSec = Rounded(Len(recentTimestamps))

\* The active threats were counted by the last push, and as the clock goes
\* forward fewer and fewer of them are.
ActiveInv ==
    /\ corrected = 0 => activeThreats >= Active(events, now)
    /\ pushed # <<>> => activeThreats = Active(events, Last(pushed))

IInv == TypeOK /\ ClockInv /\ StampsInv /\ RateInv /\ ActiveInv

-----------------------------------------------------------------------------
\* Division by a positive number is monotone.
LEMMA DivGrows ==
    ASSUME NEW a \in Nat, NEW b \in Nat, NEW d \in Nat \ {0}, a <= b
    PROVE  a \div d \in Nat /\ a \div d <= b \div d
<1> DEFINE p == a \div d
           q == b \div d
<1>1. p \in Int /\ q \in Int /\ d * p <= a /\ a < d * p + d /\ d * q <= b /\ b < d * q + d
    OBVIOUS
<1> HIDE DEF p, q
<1>2. p >= 0
    <2>1. SUFFICES ASSUME p < 0
                   PROVE  FALSE
        BY <1>1
    <2>2. p + 1 <= 0 /\ d >= 0
        BY <1>1, <2>1
    <2>3. d * (p + 1) <= 0
        BY <1>1, <2>2
    <2> QED BY <1>1, <2>3
<1>3. p <= q
    <2>1. SUFFICES ASSUME q < p
                   PROVE  FALSE
        BY <1>1
    <2>2. q + 1 <= p /\ d >= 0
        BY <1>1, <2>1
    <2>3. d * (q + 1) <= d * p
        BY <1>1, <2>2
    <2> QED BY <1>1, <2>3
<1> QED BY <1>1, <1>2, <1>3 DEF p, q

\* More stamps never make a smaller rate.
LEMMA RoundedGrows ==
    ASSUME NEW m \in Nat, NEW n \in Nat, m <= n
    PROVE  Rounded(m) \in Nat /\ Rounded(m) <= Rounded(n)
<1>1. 2 * RateWindow \in Nat \ {0} /\ RateWindow \in Nat
    BY StoreAssumption
<1>2. 2 * m + RateWindow \in Nat /\ 2 * n + RateWindow \in Nat
      /\ 2 * m + RateWindow <= 2 * n + RateWindow
    BY <1>1
<1> QED BY <1>1, <1>2, DivGrows DEF Rounded

\* What Rolled removes: leading stamps before the cutoff, as many as there are.
LEMMA RolledFacts ==
    ASSUME NEW stamps \in Seq(Int), NEW t \in Int
    PROVE  \E m \in 0 .. Len(stamps) :
              /\ \A j \in 1 .. m : stamps[j] < t - RateWindow
              /\ m < Len(stamps) => stamps[m + 1] >= t - RateWindow
              /\ Rolled(stamps, t) \in Seq(Int)
              /\ Len(Rolled(stamps, t)) = Len(stamps) - m
              /\ \A i \in 1 .. Len(stamps) - m : Rolled(stamps, t)[i] = stamps[m + i]
<1> DEFINE n == Len(stamps)
           old == {i \in 0 .. n : \A j \in 1 .. i : stamps[j] < t - RateWindow}
           m == CHOOSE i \in old : \A j \in old : j <= i
           T == {k \in Nat : n - k \in old}
<1>1. n \in Nat /\ RateWindow \in Int /\ (\A j \in 1 .. n : stamps[j] \in Int)
    BY StoreAssumption
<1>2. \E i \in old : \A j \in old : j <= i
    <2>1. 0 \in old
        BY <1>1
    <2>2. n \in T
        BY <1>1, <2>1
    <2>3. PICK k \in T : \A l \in T : k <= l
        <3>1. T \in SUBSET Nat /\ T # {}
            BY <2>2
        <3> HIDE DEF T
        <3> QED BY <3>1, LeastElement
    <2>4. n - k \in old
        BY <2>3
    <2>5. ASSUME NEW j \in old
          PROVE  j <= n - k
        <3>1. j \in 0 .. n /\ n - (n - j) = j
            BY <1>1
        <3>2. n - j \in T
            BY <1>1, <2>5, <3>1
        <3>3. k <= n - j /\ k \in Int /\ j \in Int
            <4>1. k \in Nat
                BY <2>3
            <4> HIDE DEF T
            <4> QED BY <2>3, <3>1, <3>2, <4>1
        <3> HIDE DEF T, old
        <3> QED BY <1>1, <3>3
    <2> QED BY <2>4, <2>5
<1>3. m \in old /\ \A j \in old : j <= m
    <2> HIDE DEF old
    <2> QED BY <1>2
<1>4. Rolled(stamps, t) = SubSeq(stamps, 1 + m, n)
    BY DEF Rolled
<1>5. m \in 0 .. n /\ \A j \in 1 .. m : stamps[j] < t - RateWindow
    BY <1>3
<1>6. m < n => stamps[m + 1] >= t - RateWindow
    <2>1. SUFFICES ASSUME m < n, ~(stamps[m + 1] >= t - RateWindow)
                   PROVE  FALSE
        OBVIOUS
    <2>2. m + 1 \in 0 .. n /\ m \in Int
        BY <1>1, <1>5, <2>1
    <2>3. \A j \in 1 .. m + 1 : stamps[j] < t - RateWindow
        <3> HIDE DEF m
        <3> QED BY <1>1, <1>5, <2>1, <2>2
    <2>4. m + 1 \in old
        <3> HIDE DEF m
        <3> QED BY <2>2, <2>3
    <2>5. m + 1 <= m
        BY <1>3, <2>4
    <2> QED BY <2>2, <2>5
<1> HIDE DEF m, old, T
<1>7. /\ SubSeq(stamps, 1 + m, n) \in Seq(Int)
      /\ Len(SubSeq(stamps, 1 + m, n)) = n - m
      /\ \A i \in 1 .. n - m : SubSeq(stamps, 1 + m, n)[i] = stamps[m + i]
    BY <1>1, <1>5
<1> QED BY <1>4, <1>5, <1>6, <1>7

\* The severe events a list has in the window that ends at t.
LEMMA ActiveFacts ==
    ASSUME NEW list \in Seq(Event), NEW t \in Int, NEW u \in Int, t <= u
    PROVE  /\ Active(list, t) \in Nat /\ Active(list, t) <= Len(list)
           /\ Active(list, u) <= Active(list, t)
<1> DEFINE A(x) == {i \in DOMAIN list : list[i].severe /\ list[i].timestamp # Absent
                                            /\ list[i].timestamp >= x - ActiveWindow}
<1>1. Len(list) \in Nat /\ DOMAIN list = 1 .. Len(list)
    OBVIOUS
<1>2. A(t) \in SUBSET (1 .. Len(list)) /\ A(u) \in SUBSET (1 .. Len(list))
    BY <1>1
<1>3. A(u) \in SUBSET A(t)
    <2>1. ASSUME NEW i \in DOMAIN list
          PROVE  list[i].timestamp \in Int
        <3>1. list[i].timestamp \in 0 .. Horizon \cup {Absent}
            <4>1. list[i] \in Event
                OBVIOUS
            <4> QED BY <4>1 DEF Event
        <3>2. 0 .. Horizon \cup {Absent} \subseteq Int
            BY StoreAssumption DEF Absent
        <3> QED BY <3>1, <3>2
    <2> QED BY <2>1, StoreAssumption
<1>4. Active(list, t) = Cardinality(A(t)) /\ Active(list, u) = Cardinality(A(u))
    BY DEF Active
<1> HIDE DEF A
<1>5. /\ IsFiniteSet(A(t)) /\ Cardinality(A(t)) \in Nat /\ Cardinality(A(t)) <= Len(list)
      /\ Cardinality(A(u)) \in Nat
    BY <1>1, <1>2, IndicesFinite
<1>6. Cardinality(A(u)) <= Cardinality(A(t))
    BY <1>3, <1>5, FS_Subset
<1> QED BY <1>4, <1>5, <1>6

\* topCountry is the country of an event of the list.
LEMMA TopIsMet ==
    ASSUME NEW list \in Seq(Event), list # <<>>
    PROVE  Top(list) \in Countries
<1> DEFINE met(c) == {i \in DOMAIN list : list[i].country = c}
           n(i) == Cardinality(met(list[i].country))
           best == {i \in DOMAIN list : \A j \in DOMAIN list : n(j) <= n(i)}
           T == {k \in Nat : \E i \in DOMAIN list : k = Len(list) - n(i)}
<1>1. /\ Len(list) \in Nat /\ DOMAIN list = 1 .. Len(list) /\ 1 \in DOMAIN list
      /\ \A i \in DOMAIN list : list[i] \in Event
    OBVIOUS
<1>2. ASSUME NEW i \in DOMAIN list
      PROVE  n(i) \in Nat /\ n(i) <= Len(list)
    <2>1. met(list[i].country) \in SUBSET (1 .. Len(list))
        BY <1>1
    <2> HIDE DEF met
    <2> QED BY <1>1, <2>1, IndicesFinite
<1> HIDE DEF n
<1>3. best # {}
    <2>1. T \in SUBSET Nat /\ T # {}
        <3>1. Len(list) - n(1) \in T
            BY <1>1, <1>2
        <3> QED BY <3>1
    <2>2. PICK k \in T : \A l \in T : k <= l
        <3> HIDE DEF T
        <3> QED BY <2>1, LeastElement
    <2>3. PICK i \in DOMAIN list : k = Len(list) - n(i)
        BY <2>2
    <2>4. ASSUME NEW j \in DOMAIN list
          PROVE  n(j) <= n(i)
        <3>1. Len(list) - n(j) \in T
            BY <1>1, <1>2
        <3>2. k <= Len(list) - n(j)
            BY <2>2, <3>1
        <3> QED BY <1>1, <1>2, <2>3, <3>2
    <2> QED BY <2>4
<1> HIDE DEF T
<1>4. \E i \in best : \A j \in best : i <= j
    <2>1. best \in SUBSET Nat
        BY <1>1
    <2> HIDE DEF best
    <2> QED BY <1>3, <2>1, LeastElement
<1>5. Top(list) = list[CHOOSE i \in best : \A j \in best : i <= j].country
    BY DEF Top, n
<1>6. (CHOOSE i \in best : \A j \in best : i <= j) \in DOMAIN list
    <2>1. (CHOOSE i \in best : \A j \in best : i <= j) \in best
        <3> HIDE DEF best
        <3> QED BY <1>4
    <2> QED BY <2>1
<1> QED BY <1>1, <1>5, <1>6 DEF Event

\* The list with an event in front, cut to a length, is a list of events and has
\* one.
LEMMA NewestFacts ==
    ASSUME NEW list \in Seq(Event), list # <<>>, NEW b \in Nat \ {0}
    PROVE  /\ Newest(list, b) \in Seq(Event) /\ Newest(list, b) # <<>>
           /\ Len(Newest(list, b)) <= b
<1> DEFINE m == IF Len(list) < b THEN Len(list) ELSE b
<1>1. Len(list) \in Nat /\ Len(list) > 0
    OBVIOUS
<1>2. m \in 1 .. Len(list) /\ m <= b
    BY <1>1
<1>3. Newest(list, b) = SubSeq(list, 1, m)
    BY DEF Newest
<1> HIDE DEF m
<1>4. SubSeq(list, 1, m) \in Seq(Event) /\ Len(SubSeq(list, 1, m)) = m
    BY <1>1, <1>2
<1> QED BY <1>1, <1>2, <1>3, <1>4

-----------------------------------------------------------------------------
\* The numbers the invariant is about.
LEMMA Numbers ==
    ASSUME TypeOK
    PROVE  /\ now \in Nat /\ corrected \in Nat /\ since \in Nat /\ RateWindow \in Nat /\ RateWindow > 0
           /\ Len(pushed) \in Nat /\ DOMAIN pushed = 1 .. Len(pushed)
           /\ Len(recentTimestamps) \in Nat
           /\ DOMAIN recentTimestamps = 1 .. Len(recentTimestamps)
           /\ since <= Len(pushed) /\ Gone \in Nat /\ Len(pushed) = Gone + Len(recentTimestamps)
           /\ \A i \in 1 .. Len(pushed) : pushed[i] \in Int
           /\ \A i \in 1 .. Len(recentTimestamps) : recentTimestamps[i] \in Int
<1>1. /\ pushed \in Seq(0 .. Horizon) /\ recentTimestamps \in Seq(0 .. Horizon)
      /\ Len(recentTimestamps) <= Len(pushed)
    BY DEF TypeOK
<1>2. /\ Len(pushed) \in Nat /\ DOMAIN pushed = 1 .. Len(pushed)
      /\ Len(recentTimestamps) \in Nat /\ DOMAIN recentTimestamps = 1 .. Len(recentTimestamps)
      /\ \A i \in 1 .. Len(pushed) : pushed[i] \in 0 .. Horizon
      /\ \A i \in 1 .. Len(recentTimestamps) : recentTimestamps[i] \in 0 .. Horizon
    BY <1>1, SeqFacts
<1>3. since \in Nat /\ since <= Len(pushed) /\ corrected \in Nat
    BY <1>2, StoreAssumption DEF TypeOK
<1>4. now \in Nat /\ RateWindow \in Nat /\ RateWindow > 0
    BY StoreAssumption DEF TypeOK
<1>5. Gone \in Nat /\ Len(pushed) = Gone + Len(recentTimestamps)
    BY <1>1, <1>2 DEF Gone
<1> QED BY <1>2, <1>3, <1>4, <1>5

LEMMA InitIInv == Init => IInv
<1> SUFFICES ASSUME Init
             PROVE  IInv
    OBVIOUS
<1>1. Rounded(0) = 0
    <2>1. RateWindow \in Nat /\ RateWindow > 0
        BY StoreAssumption
    <2>2. \A r \in Nat : r > 0 => r \div (2 * r) = 0
        <3>1. ASSUME NEW r \in Nat, r > 0
              PROVE  r \div (2 * r) = 0
            <4> DEFINE d == 2 * r
            <4>1. d \in Nat /\ d > r /\ r >= 0
                BY <3>1
            <4> HIDE DEF d
            <4>2. r \div d = 0
                BY <3>1, <4>1
            <4> QED BY <4>2 DEF d
        <3> QED BY <3>1
    <2> QED BY <2>1, <2>2 DEF Rounded
<1>2. TypeOK
    BY StoreAssumption DEF Init, TypeOK
<1>3. ClockInv /\ StampsInv
    BY DEF Init, ClockInv, StampsInv, Gone
<1>4. RateInv
    BY <1>1 DEF Init, RateInv
<1>5. Active(events, now) = 0
    <2>1. Active(<<>>, 0) = Cardinality({})
        BY DEF Active
    <2> QED BY <2>1, FS_EmptySet DEF Init
<1>6. ActiveInv
    BY <1>5 DEF Init, ActiveInv
<1> QED BY <1>2, <1>3, <1>4, <1>6 DEF IInv

\* Time passes, or the clock is set back: the statistics stay, and so does what
\* they were taken from.
LEMMA ClockStep ==
    ASSUME IInv, Tick \/ \E t \in 0 .. Horizon : SetBack(t)
    PROVE  IInv'
<1>1. TypeOK /\ ClockInv /\ StampsInv /\ RateInv /\ ActiveInv
    BY DEF IInv
<1>2. UNCHANGED <<events, recentTimestamps, eventsPerSec, activeThreats, topCountry, pushed>>
    BY DEF Tick, SetBack, stats
<1>3. events \in Seq(Event) /\ activeThreats \in Nat
    BY <1>1, StoreAssumption DEF TypeOK
<1>4. CASE Tick
    <2>1. now' = now + 1 /\ now < Horizon /\ corrected' = corrected /\ since' = since
        BY <1>4 DEF Tick
    <2>2. TypeOK'
        BY <1>1, <1>2, <2>1, Numbers, StoreAssumption DEF TypeOK
    <2>3. ClockInv'
        BY <1>1, <1>2, <2>1, Numbers DEF ClockInv
    <2>4. StampsInv' /\ RateInv'
        BY <1>1, <1>2, <2>1 DEF StampsInv, RateInv, Gone
    <2>5. ActiveInv'
        <3>1. Active(events, now + 1) \in Nat /\ Active(events, now) \in Nat
              /\ Active(events, now + 1) <= Active(events, now)
            BY <1>1, <1>3, Numbers, ActiveFacts
        <3>2. corrected = 0 => activeThreats >= Active(events, now + 1)
            BY <1>1, <1>3, <3>1 DEF ActiveInv
        <3> QED BY <1>1, <1>2, <2>1, <3>2 DEF ActiveInv
    <2> QED BY <2>2, <2>3, <2>4, <2>5 DEF IInv
<1>5. CASE \E t \in 0 .. Horizon : SetBack(t)
    <2>1. /\ now' \in 0 .. Horizon /\ corrected' = corrected + 1 /\ corrected < Corrections
          /\ since' = Len(pushed)
        BY <1>5 DEF SetBack
    <2>2. corrected' # 0
        BY <1>1, <2>1, Numbers
    <2>3. TypeOK'
        BY <1>1, <1>2, <2>1, Numbers, StoreAssumption DEF TypeOK
    <2>4. ClockInv'
        BY <1>1, <1>2, <2>1, <2>2, Numbers DEF ClockInv
    <2>5. StampsInv'
        <3>1. \A i \in since' + 1 .. Gone' : FALSE
            BY <1>1, <1>2, <2>1, Numbers DEF Gone
        <3>2. \A i \in DOMAIN recentTimestamps' : recentTimestamps'[i] = pushed'[Gone' + i]
            BY <1>1, <1>2 DEF StampsInv, Gone
        <3> QED BY <2>2, <3>1, <3>2 DEF StampsInv
    <2>6. RateInv' /\ ActiveInv'
        BY <1>1, <1>2, <2>2 DEF RateInv, ActiveInv
    <2> QED BY <2>3, <2>4, <2>5, <2>6 DEF IInv
<1> QED BY <1>4, <1>5

\* A push puts its stamp behind the window's and takes what is before the cutoff
\* from the front.
LEMMA PushStamps ==
    ASSUME TypeOK, ClockInv, StampsInv, NEW e \in Event, push(e)
    PROVE  /\ recentTimestamps' \in Seq(0 .. Horizon) /\ Len(recentTimestamps') <= Len(pushed')
           /\ ClockInv' /\ StampsInv'
<1>1. PICK n \in Nat, r \in Nat, g \in Nat, t \in Nat, b \in Nat, stamps \in Seq(Int) :
         /\ n = Len(pushed) /\ r = Len(recentTimestamps) /\ g = Gone /\ n = g + r
         /\ t = now /\ b = since /\ b <= n /\ RateWindow \in Nat /\ RateWindow > 0
         /\ stamps = Append(recentTimestamps, t) /\ Len(stamps) = r + 1
         /\ \A i \in 1 .. r : stamps[i] = recentTimestamps[i]
         /\ stamps[r + 1] = t
         /\ \A i \in 1 .. r + 1 : stamps[i] \in 0 .. Horizon
    <2>1. now \in 0 .. Horizon /\ recentTimestamps \in Seq(0 .. Horizon)
        BY DEF TypeOK
    <2>2. /\ Append(recentTimestamps, now) \in Seq(0 .. Horizon)
          /\ Len(Append(recentTimestamps, now)) = Len(recentTimestamps) + 1
          /\ \A i \in 1 .. Len(recentTimestamps) :
                Append(recentTimestamps, now)[i] = recentTimestamps[i]
          /\ Append(recentTimestamps, now)[Len(recentTimestamps) + 1] = now
        BY <2>1, Appended
    <2>3. \A i \in 1 .. Len(recentTimestamps) + 1 :
             Append(recentTimestamps, now)[i] \in 0 .. Horizon
        BY <2>2, SeqFacts
    <2>4. Append(recentTimestamps, now) \in Seq(Int)
        <3>1. 0 .. Horizon \subseteq Int
            OBVIOUS
        <3> QED BY <2>2, <3>1, SeqWider
    <2> QED BY <2>2, <2>3, <2>4, Numbers
<1>2. /\ Len(pushed') = n + 1 /\ DOMAIN pushed' = 1 .. n + 1 /\ pushed'[n + 1] = t
      /\ \A i \in 1 .. n : pushed'[i] = pushed[i] /\ pushed[i] \in Int
      /\ Last(pushed') = t
      /\ recentTimestamps' = Rolled(stamps, t)
      /\ now' = t /\ corrected' = corrected /\ since' = b
    <2>1. /\ pushed' = Append(pushed, now) /\ recentTimestamps' = Rolled(stamps, t)
          /\ now' = t /\ corrected' = corrected /\ since' = b
        BY <1>1 DEF push
    <2>2. pushed \in Seq(0 .. Horizon) /\ now \in 0 .. Horizon
        BY DEF TypeOK
    <2>3. /\ Len(pushed') = n + 1 /\ DOMAIN pushed' = 1 .. n + 1 /\ pushed'[n + 1] = t
          /\ \A i \in 1 .. n : pushed'[i] = pushed[i]
        <3>1. /\ Len(Append(pushed, now)) = Len(pushed) + 1
              /\ DOMAIN Append(pushed, now) = 1 .. Len(pushed) + 1
              /\ \A i \in 1 .. Len(pushed) : Append(pushed, now)[i] = pushed[i]
              /\ Append(pushed, now)[Len(pushed) + 1] = now
            BY <2>2, Appended
        <3> QED BY <1>1, <2>1, <3>1
    <2>4. \A i \in 1 .. n : pushed[i] \in Int
        BY <1>1, Numbers
    <2> QED BY <2>1, <2>3, <2>4 DEF Last
<1>3. \A i \in 1 .. n + 1 : pushed'[i] \in Int
    BY <1>2
<1>4. PICK m \in 0 .. r + 1 :
         /\ \A j \in 1 .. m : stamps[j] < t - RateWindow
         /\ m < r + 1 => stamps[m + 1] >= t - RateWindow
         /\ recentTimestamps' \in Seq(Int)
         /\ Len(recentTimestamps') = r + 1 - m
         /\ \A i \in 1 .. r + 1 - m : recentTimestamps'[i] = stamps[m + i]
    <2>1. Len(stamps) = r + 1 /\ t \in Int /\ recentTimestamps' = Rolled(stamps, t)
        BY <1>1, <1>2
    <2>2. PICK m \in 0 .. Len(stamps) :
             /\ \A j \in 1 .. m : stamps[j] < t - RateWindow
             /\ m < Len(stamps) => stamps[m + 1] >= t - RateWindow
             /\ Rolled(stamps, t) \in Seq(Int)
             /\ Len(Rolled(stamps, t)) = Len(stamps) - m
             /\ \A i \in 1 .. Len(stamps) - m : Rolled(stamps, t)[i] = stamps[m + i]
        BY <2>1, RolledFacts
    <2> QED BY <2>1, <2>2
<1>5. DOMAIN recentTimestamps' = 1 .. r + 1 - m /\ Gone' = g + m
    <2>1. DOMAIN recentTimestamps' = 1 .. Len(recentTimestamps')
        BY <1>4
    <2>2. n + 1 - (r + 1 - m) = g + m
        BY <1>1
    <2> QED BY <1>2, <1>4, <2>1, <2>2 DEF Gone
<1>6. ASSUME NEW i \in 1 .. r + 1
      PROVE  stamps[i] = pushed'[g + i]
    <2>1. CASE i <= r
        <3>1. i \in DOMAIN recentTimestamps /\ g + i \in 1 .. n
            BY <1>1, <2>1, Numbers
        <3>2. recentTimestamps[i] = pushed[g + i]
            BY <1>1, <3>1 DEF StampsInv
        <3> QED BY <1>1, <1>2, <2>1, <3>1, <3>2
    <2>2. CASE i = r + 1
        BY <1>1, <1>2, <2>2
    <2> QED BY <2>1, <2>2
<1>7. ASSUME NEW i \in 1 .. r + 1 - m
      PROVE  recentTimestamps'[i] = pushed'[g + m + i] /\ recentTimestamps'[i] \in 0 .. Horizon
    <2>1. m + i \in 1 .. r + 1 /\ g + (m + i) = g + m + i
        OBVIOUS
    <2>2. stamps[m + i] = pushed'[g + (m + i)]
        BY <1>6, <2>1
    <2> QED BY <1>1, <1>4, <2>1, <2>2
<1>8. recentTimestamps' \in Seq(0 .. Horizon) /\ Len(recentTimestamps') <= Len(pushed')
    <2>1. recentTimestamps' \in Seq(0 .. Horizon)
        BY <1>4, <1>7, SeqNarrower
    <2> QED BY <1>1, <1>2, <1>4, <2>1
<1>9. ClockInv'
    <2>1. /\ \A i \in b + 1 .. n : pushed[i] <= t
          /\ \A i, j \in b + 1 .. n : i < j => pushed[i] <= pushed[j]
          /\ corrected = 0 => b = 0
        BY <1>1 DEF ClockInv
    <2>2. \A i \in b + 1 .. n + 1 : pushed'[i] <= t
        <3>1. \A i \in b + 1 .. n + 1 : (i \in b + 1 .. n /\ i \in 1 .. n) \/ i = n + 1
            OBVIOUS
        <3> QED BY <1>2, <2>1, <3>1
    <2>3. ASSUME NEW i \in b + 1 .. n + 1, NEW j \in b + 1 .. n + 1, i < j
          PROVE  pushed'[i] <= pushed'[j]
        <3>1. CASE j = n + 1
            BY <1>2, <2>2, <3>1
        <3>2. CASE j <= n
            <4>1. i \in b + 1 .. n /\ j \in b + 1 .. n /\ i \in 1 .. n /\ j \in 1 .. n
                BY <2>3, <3>2
            <4> QED BY <1>2, <2>1, <2>3, <4>1
        <3> QED BY <3>1, <3>2
    <2> QED BY <1>2, <2>1, <2>2, <2>3 DEF ClockInv
<1>10. ASSUME NEW i \in b + 1 .. g + m
       PROVE  pushed'[i] < t - RateWindow
    <2>1. CASE i <= g
        <3>1. i \in b + 1 .. g /\ i \in 1 .. n /\ n \in b + 1 .. n /\ n \in 1 .. n
            BY <1>1, <2>1
        <3>2. pushed[i] < pushed[n] - RateWindow
            BY <1>1, <3>1 DEF StampsInv, Last
        <3>3. pushed[n] <= t
            BY <1>1, <3>1 DEF ClockInv
        <3> QED BY <1>1, <1>2, <3>1, <3>2, <3>3
    <2>2. CASE i > g
        <3>1. i - g \in 1 .. m /\ i - g \in 1 .. r + 1 /\ g + (i - g) = i
            BY <1>1, <2>2
        <3>2. stamps[i - g] < t - RateWindow
            BY <1>4, <3>1
        <3>3. stamps[i - g] = pushed'[g + (i - g)]
            BY <1>6, <3>1
        <3> QED BY <3>1, <3>2, <3>3
    <2> QED BY <2>1, <2>2
<1>11. ASSUME corrected = 0, NEW i \in 1 .. r + 1 - m
       PROVE  recentTimestamps'[i] >= t - RateWindow
    <2>1. /\ m + 1 \in 1 .. r + 1 /\ m < r + 1 /\ g + (m + 1) = g + m + 1
          /\ g + m + 1 \in 1 .. n + 1 /\ g + m + i \in 1 .. n + 1 /\ g + m + 1 <= g + m + i
        BY <1>1
    <2>2. pushed'[g + m + 1] >= t - RateWindow
        <3>1. stamps[m + 1] = pushed'[g + (m + 1)]
            BY <1>6, <2>1
        <3> QED BY <1>4, <2>1, <3>1
    <2>3. \A j, k \in 1 .. n + 1 : j < k => pushed'[j] <= pushed'[k]
        <3>1. b = 0
            BY <1>1, <1>11 DEF ClockInv
        <3>2. \A j, k \in b + 1 .. n + 1 : j < k => pushed'[j] <= pushed'[k]
            BY <1>2, <1>9 DEF ClockInv
        <3> QED BY <3>1, <3>2
    <2>4. pushed'[g + m + 1] <= pushed'[g + m + i]
        BY <1>3, <2>1, <2>3
    <2>5. pushed'[g + m + 1] \in Int /\ pushed'[g + m + i] \in Int
        BY <1>3, <2>1
    <2>6. recentTimestamps'[i] = pushed'[g + m + i]
        BY <1>7
    <2> QED BY <1>1, <2>2, <2>4, <2>5, <2>6
<1>12. StampsInv'
    <2>1. \A i \in DOMAIN recentTimestamps' : recentTimestamps'[i] = pushed'[Gone' + i]
        BY <1>5, <1>7
    <2>2. \A i \in since' + 1 .. Gone' : pushed'[i] < Last(pushed') - RateWindow
        BY <1>2, <1>5, <1>10
    <2>3. corrected' = 0 =>
             \A i \in DOMAIN recentTimestamps' : recentTimestamps'[i] >= Last(pushed') - RateWindow
        BY <1>2, <1>5, <1>11
    <2> QED BY <2>1, <2>2, <2>3 DEF StampsInv
<1> QED BY <1>8, <1>9, <1>12

\* The statistics are taken from the list and the stamps of the push itself.
LEMMA PushStep ==
    ASSUME IInv, NEW e \in Event, push(e)
    PROVE  IInv'
<1>1. TypeOK /\ ClockInv /\ StampsInv
    BY DEF IInv
<1>2. /\ recentTimestamps' \in Seq(0 .. Horizon) /\ Len(recentTimestamps') <= Len(pushed')
      /\ ClockInv' /\ StampsInv'
    BY <1>1, PushStamps
<1>3. /\ events' = Newest(<<e>> \o events, MaxEvents)
      /\ eventsPerSec' = Rounded(Len(recentTimestamps'))
      /\ activeThreats' = Active(events', now) /\ topCountry' = Top(Newest(events', Ranked))
      /\ pushed' = Append(pushed, now)
      /\ now' = now /\ corrected' = corrected /\ since' = since
    BY DEF push
<1>4. events' \in Seq(Event) /\ events' # <<>> /\ Len(events') <= MaxEvents
    <2>1. <<e>> \o events \in Seq(Event) /\ <<e>> \o events # <<>>
        <3>1. events \in Seq(Event) /\ <<e>> \in Seq(Event)
            BY <1>1 DEF TypeOK
        <3>2. <<e>> \o events \in Seq(Event) /\ Len(<<e>> \o events) = 1 + Len(events)
            BY <3>1
        <3> QED BY <3>1, <3>2
    <2> QED BY <1>3, <2>1, NewestFacts, StoreAssumption
<1>5. topCountry' \in Countries
    <2>1. Newest(events', Ranked) \in Seq(Event) /\ Newest(events', Ranked) # <<>>
        BY <1>4, NewestFacts, StoreAssumption
    <2> QED BY <1>3, <2>1, TopIsMet
<1>6. eventsPerSec' \in Nat
    <2>1. Len(recentTimestamps') \in Nat
        BY <1>2, SeqFacts
    <2> QED BY <1>3, <2>1, RoundedGrows
<1>7. activeThreats' \in 0 .. MaxEvents
    <2>1. now \in Int
        BY <1>1, Numbers
    <2>2. Active(events', now) \in Nat /\ Active(events', now) <= Len(events')
        BY <1>4, <2>1, ActiveFacts
    <2>3. Len(events') \in Nat
        BY <1>4, SeqFacts
    <2> QED BY <1>3, <1>4, <2>2, <2>3, StoreAssumption
<1>8. pushed' \in Seq(0 .. Horizon) /\ since' \in 0 .. Len(pushed')
    <2>1. pushed \in Seq(0 .. Horizon) /\ now \in 0 .. Horizon
        BY <1>1 DEF TypeOK
    <2>2. pushed' \in Seq(0 .. Horizon) /\ Len(pushed') = Len(pushed) + 1
        BY <1>3, <2>1, Appended
    <2> QED BY <1>1, <1>3, <2>2, Numbers
<1>9. TypeOK'
    <2>1. now' \in 0 .. Horizon /\ corrected' \in 0 .. Corrections
        BY <1>1, <1>3 DEF TypeOK
    <2> QED BY <1>2, <1>4, <1>5, <1>6, <1>7, <1>8, <2>1 DEF TypeOK
<1>10. RateInv'
    BY <1>3 DEF RateInv
<1>11. ActiveInv'
    <2>1. activeThreats' = Active(events', now') /\ activeThreats' \in Int
        BY <1>3, <1>7
    <2>2. Last(pushed') = now'
        <3>1. pushed \in Seq(0 .. Horizon) /\ now \in 0 .. Horizon
            BY <1>1 DEF TypeOK
        <3> QED BY <1>3, <3>1, Appended DEF Last
    <2> QED BY <2>1, <2>2 DEF ActiveInv
<1> QED BY <1>2, <1>9, <1>10, <1>11 DEF IInv

LEMMA NextIInv == IInv /\ [Next]_vars => IInv'
<1>1. ASSUME IInv, UNCHANGED vars
      PROVE  IInv'
    BY <1>1 DEF IInv, vars, stats, TypeOK, ClockInv, StampsInv, RateInv, ActiveInv, Gone
<1> QED BY <1>1, PushStep, ClockStep DEF Next

LEMMA Invariance == Spec => []IInv
    BY InitIInv, NextIInv, PTL DEF Spec

\* Every variable of the store has its type: the list never outgrows MAX_EVENTS
\* and the stamps never outnumber the pushes.
THEOREM TypeCorrect == Spec => []TypeOK
<1>1. IInv => TypeOK
    BY DEF IInv
<1> QED BY <1>1, Invariance, PTL

\* The rate counts every push of the window that ended with the last one and, if
\* the clock was never set back, no other: taking stamps from the front only
\* loses none that still counts.
THEOREM RateIsRight == Spec => []RateCoversWindow
<1>1. ASSUME IInv
      PROVE  RateCoversWindow
    <2> DEFINE counted == {i \in since + 1 .. Len(pushed) : pushed[i] >= Last(pushed) - RateWindow}
               kept == Gone + 1 .. Len(pushed)
               m == Cardinality(counted)
    <2>1. TypeOK /\ ClockInv /\ StampsInv /\ RateInv
        BY <1>1 DEF IInv
    <2>2. PICK n \in Nat, r \in Nat, g \in Nat, b \in Nat :
             n = Len(pushed) /\ r = Len(recentTimestamps) /\ g = Gone /\ n = g + r /\ b = since
        BY <2>1, Numbers
    <2>3. \A i \in 1 .. n : pushed[i] \in Int
        BY <2>1, <2>2, Numbers
    <2>4. kept \in SUBSET (1 .. n) /\ counted \in SUBSET (1 .. n)
        BY <2>2
    <2>5. counted \in SUBSET kept
        <3>1. ASSUME NEW i \in counted
              PROVE  i > g
            <4>1. i \in b + 1 .. n /\ pushed[i] >= Last(pushed) - RateWindow /\ i \in 1 .. n
                BY <2>2, <2>4
            <4>2. Last(pushed) \in Int /\ RateWindow \in Int
                <5>1. n \in 1 .. n
                    BY <4>1
                <5> QED BY <2>2, <2>3, <5>1, StoreAssumption DEF Last
            <4>3. i <= g => pushed[i] < Last(pushed) - RateWindow
                BY <2>1, <2>2, <4>1 DEF StampsInv
            <4> QED BY <2>3, <4>1, <4>2, <4>3
        <3> QED BY <2>2, <2>4, <3>1
    <2>6. IsFiniteSet(kept) /\ Cardinality(kept) = r
        <3>1. kept = g + 1 .. n
            BY <2>2
        <3>2. g + 1 \in Int /\ n \in Int
            OBVIOUS
        <3>3. /\ IsFiniteSet(g + 1 .. n)
              /\ Cardinality(g + 1 .. n) = IF g + 1 > n THEN 0 ELSE n - (g + 1) + 1
            BY <3>2, FS_Interval
        <3>4. (IF g + 1 > n THEN 0 ELSE n - (g + 1) + 1) = r
            BY <2>2
        <3> QED BY <3>1, <3>3, <3>4
    <2>7. m \in Nat /\ m <= r
        <3>1. m \in Nat
            BY <2>4, IndicesFinite
        <3>2. m <= Cardinality(kept)
            <4> HIDE DEF counted, kept
            <4> QED BY <2>5, <2>6, FS_Subset
        <3> QED BY <2>6, <3>1, <3>2
    <2>8. Rounded(m) <= Rounded(r) /\ eventsPerSec = Rounded(r)
        BY <2>1, <2>2, <2>7, RoundedGrows DEF RateInv
    <2>9. ASSUME corrected = 0
          PROVE  m = r
        <3>1. b = 0
            BY <2>1, <2>2, <2>9 DEF ClockInv
        <3>2. ASSUME NEW i \in g + 1 .. n
              PROVE  pushed[i] >= Last(pushed) - RateWindow
            <4>1. i - g \in DOMAIN recentTimestamps /\ g + (i - g) = i
                BY <2>1, <2>2, Numbers
            <4>2. recentTimestamps[i - g] >= Last(pushed) - RateWindow
                BY <2>1, <2>9, <4>1 DEF StampsInv
            <4>3. recentTimestamps[i - g] = pushed[g + (i - g)]
                BY <2>1, <2>2, <4>1 DEF StampsInv
            <4> QED BY <4>1, <4>2, <4>3
        <3>3. counted = kept
            BY <2>2, <2>5, <3>1, <3>2
        <3> QED BY <2>6, <3>3
    <2> HIDE DEF m
    <2> QED BY <2>8, <2>9 DEF RateCoversWindow, m
<1> QED BY <1>1, Invariance, PTL

\* What push counts, and only push: of the events that say when they happened the
\* sidebar shows none too few while the clock goes forward, and none too many
\* but those whose time has run out since the last push.
THEOREM ActiveIsOfLastPush == Spec => []ActiveOnlyAges
<1>1. ASSUME IInv
      PROVE  ActiveOnlyAges
    <2> DEFINE recent(t) == {i \in DOMAIN events : /\ events[i].severe
                                                   /\ events[i].timestamp # Absent
                                                   /\ events[i].timestamp >= t - ActiveWindow}
    <2>1. \A t : Active(events, t) = Cardinality(recent(t))
        BY DEF Active
    <2> HIDE DEF recent
    <2>2. /\ corrected = 0 => activeThreats >= Cardinality(recent(now))
          /\ pushed # <<>> => activeThreats = Cardinality(recent(Last(pushed)))
        BY <1>1, <2>1 DEF IInv, ActiveInv
    <2>3. activeThreats \in Nat
        BY <1>1, StoreAssumption DEF IInv, TypeOK
    <2>4. pushed # <<>> => activeThreats <= Cardinality(recent(Last(pushed)))
        BY <2>2, <2>3
    <2> QED BY <2>2, <2>4 DEF ActiveOnlyAges, recent
<1> QED BY <1>1, Invariance, PTL
=============================================================================
