-------------------------- MODULE SubsequenceProofs --------------------------
(***************************************************************************)
(* What Ascending and Picked return, for every set of indices of a          *)
(* sequence, and where the elements of a sequence are after Append, \o and  *)
(* Tail.  The induction over the indices goes through their least element.  *)
(***************************************************************************)
EXTENDS Subsequences, Sequences, FiniteSetTheorems, FunctionTheorems, WellFoundedInduction,
        TLAPS

\* A set of natural numbers that is not empty has a least element.
LEMMA LeastElement ==
    ASSUME NEW T \in SUBSET Nat, T # {}
    PROVE  \E m \in T : \A k \in T : m <= k
<1> DEFINE R == {ss \in Nat \X Nat : ss[1] < ss[2]}
<1>1. IsWellFoundedOn(R, Nat)
    BY NatLessThanWellFounded DEF OpToRel
<1>2. ASSUME NEW x \in Nat, NEW y \in Nat, <<y, x>> \notin R
      PROVE  x <= y
    BY <1>2
<1> HIDE DEF R
<1>3. PICK x \in T : \A y \in T : <<y, x>> \notin R
    BY <1>1, WFMin
<1>4. ASSUME NEW y \in T PROVE x <= y
    BY <1>2, <1>3
<1> QED BY <1>4

\* Sets of indices are finite, and so are their parts.
LEMMA IndicesFinite ==
    ASSUME NEW b \in Nat, NEW S \in SUBSET (1 .. b)
    PROVE  /\ IsFiniteSet(S) /\ Cardinality(S) \in Nat /\ Cardinality(S) <= b
           /\ \A n : /\ IsFiniteSet(UpTo(S, n))
                     /\ Place(S, n) \in Nat
                     /\ Place(S, n) <= Cardinality(S)
<1>1. IsFiniteSet(1 .. b) /\ Cardinality(1 .. b) = b
    BY FS_Interval
<1>2. IsFiniteSet(S) /\ Cardinality(S) <= b
    BY <1>1, FS_Subset
<1>3. Cardinality(S) \in Nat
    BY <1>2, FS_CardinalityType
<1>4. ASSUME NEW n
      PROVE  /\ IsFiniteSet(UpTo(S, n))
             /\ Place(S, n) \in Nat
             /\ Place(S, n) <= Cardinality(S)
    <2>1. UpTo(S, n) \in SUBSET S
        BY DEF UpTo
    <2>2. IsFiniteSet(UpTo(S, n)) /\ Cardinality(UpTo(S, n)) <= Cardinality(S)
        BY <1>2, <2>1, FS_Subset
    <2> QED BY <2>2, FS_CardinalityType DEF Place
<1> QED BY <1>2, <1>3, <1>4

\* Places grow along the set.
LEMMA PlaceGrows ==
    ASSUME NEW b \in Nat, NEW S \in SUBSET (1 .. b), NEW i \in S, NEW j \in S, i < j
    PROVE  Place(S, i) < Place(S, j)
<1>1. S \subseteq Int /\ i \in Int /\ j \in Int
    OBVIOUS
<1>2. UpTo(S, i) \in SUBSET UpTo(S, j)
    <2>1. ASSUME NEW n \in S, n <= i PROVE n <= j
        BY <1>1, <2>1
    <2> QED BY <2>1 DEF UpTo
<1>3. j \in UpTo(S, j) /\ j \notin UpTo(S, i)
    BY <1>1 DEF UpTo
<1>4. IsFiniteSet(UpTo(S, j)) /\ Place(S, i) \in Nat /\ Place(S, j) \in Nat
    BY IndicesFinite
<1>5. Place(S, i) <= Place(S, j) /\ Place(S, i) # Place(S, j)
    BY <1>2, <1>3, <1>4, FS_Subset DEF Place
<1> QED BY <1>4, <1>5

\* Every place up to the size of the set is taken: the first number with that
\* many elements up to it is an element itself.
LEMMA PlaceTaken ==
    ASSUME NEW b \in Nat, NEW S \in SUBSET (1 .. b), NEW k \in 1 .. Cardinality(S)
    PROVE  \E i \in S : Place(S, i) = k
<1> DEFINE T == {n \in Nat : Place(S, n) >= k}
<1>1. S \subseteq Int /\ (\A n \in S : 1 <= n /\ n <= b)
    OBVIOUS
<1>2. UpTo(S, b) = S /\ UpTo(S, 0) = {}
    <2>1. \A n \in S : n <= b /\ ~(n <= 0)
        BY <1>1
    <2> QED BY <2>1 DEF UpTo
<1>3. /\ Place(S, b) = Cardinality(S) /\ Place(S, 0) = 0
      /\ Cardinality(S) \in Nat /\ k \in Nat /\ 1 <= k /\ k <= Cardinality(S)
    BY <1>2, IndicesFinite, FS_EmptySet DEF Place
<1>4. b \in T /\ 0 \notin T
    BY <1>3
<1>5. PICK m \in T : \A n \in T : m <= n
    BY <1>4, LeastElement
<1>6. m \in Nat /\ m - 1 \in Nat /\ m - 1 \notin T
    BY <1>4, <1>5
<1>7. /\ Place(S, m - 1) \in Nat /\ Place(S, m) \in Nat
      /\ IsFiniteSet(UpTo(S, m - 1))
    BY IndicesFinite
<1>8. Place(S, m - 1) < k /\ Place(S, m) >= k
    BY <1>3, <1>5, <1>6, <1>7
<1>9. CASE m \in S
    <2>1. UpTo(S, m) = UpTo(S, m - 1) \cup {m}
        <3>1. \A n \in S : n <= m <=> n <= m - 1 \/ n = m
            BY <1>1, <1>6
        <3> QED BY <1>9, <3>1 DEF UpTo
    <2>2. m \notin UpTo(S, m - 1)
        BY <1>6 DEF UpTo
    <2>3. Place(S, m) = Place(S, m - 1) + 1
        BY <1>7, <2>1, <2>2, FS_AddElement DEF Place
    <2> QED BY <1>3, <1>7, <1>8, <1>9, <2>3
<1>10. CASE m \notin S
    <2>1. UpTo(S, m) = UpTo(S, m - 1)
        <3>1. \A n \in S : n <= m <=> n <= m - 1
            BY <1>1, <1>6, <1>10
        <3> QED BY <3>1 DEF UpTo
    <2> QED BY <1>3, <1>7, <1>8, <2>1 DEF Place
<1> QED BY <1>9, <1>10

\* Ascending lists the set, all of it, in increasing order.
LEMMA AscendingFacts ==
    ASSUME NEW b \in Nat, NEW S \in SUBSET (1 .. b)
    PROVE  /\ Cardinality(S) \in Nat
           /\ Ascending(S) \in [1 .. Cardinality(S) -> S]
           /\ \A j, k \in 1 .. Cardinality(S) : j < k => Ascending(S)[j] < Ascending(S)[k]
           /\ \A i \in S : \E k \in 1 .. Cardinality(S) : Ascending(S)[k] = i
<1>1. Cardinality(S) \in Nat /\ S \subseteq Int
    BY IndicesFinite
<1>2. \A k \in 1 .. Cardinality(S) :
         Ascending(S)[k] \in S /\ Place(S, Ascending(S)[k]) = k
    BY PlaceTaken DEF Ascending
<1>3. Ascending(S) \in [1 .. Cardinality(S) -> S]
    BY <1>2 DEF Ascending
<1>4. ASSUME NEW j \in 1 .. Cardinality(S), NEW k \in 1 .. Cardinality(S), j < k
      PROVE  Ascending(S)[j] < Ascending(S)[k]
    <2> DEFINE x == Ascending(S)[j]
               y == Ascending(S)[k]
    <2>1. x \in S /\ y \in S /\ Place(S, x) = j /\ Place(S, y) = k
        BY <1>2
    <2> HIDE DEF x, y
    <2>2. ~(y < x)
        <3>1. ASSUME y < x PROVE FALSE
            BY <1>4, <2>1, <3>1, PlaceGrows
        <3> QED BY <3>1
    <2>3. y # x
        BY <1>4, <2>1
    <2>4. x \in Int /\ y \in Int
        BY <1>1, <2>1
    <2>5. x < y
        BY <2>2, <2>3, <2>4
    <2> QED BY <2>5 DEF x, y
<1>5. ASSUME NEW i \in S
      PROVE  \E k \in 1 .. Cardinality(S) : Ascending(S)[k] = i
    <2>1. i \in UpTo(S, i)
        BY <1>1 DEF UpTo
    <2>2. Place(S, i) \in 1 .. Cardinality(S)
        <3>1. /\ Place(S, i) \in Nat /\ Place(S, i) <= Cardinality(S)
              /\ IsFiniteSet(UpTo(S, i))
            BY IndicesFinite
        <3>2. Place(S, i) # 0
            BY <2>1, <3>1, FS_EmptySet DEF Place
        <3> QED BY <1>1, <3>1, <3>2
    <2>3. PICK k \in 1 .. Cardinality(S) : k = Place(S, i)
        BY <2>2
    <2> DEFINE x == Ascending(S)[k]
    <2>4. x \in S /\ Place(S, x) = Place(S, i)
        BY <1>2, <2>3
    <2> HIDE DEF x
    <2>5. ASSUME x # i PROVE FALSE
        <3>1. x \in Int /\ i \in Int
            BY <1>1, <2>4
        <3>2. x < i \/ i < x
            BY <2>5, <3>1
        <3>3. Place(S, x) < Place(S, i) \/ Place(S, i) < Place(S, x)
            BY <2>4, <3>2, PlaceGrows
        <3>4. Place(S, i) \in Nat
            BY IndicesFinite
        <3> QED BY <2>4, <3>3, <3>4
    <2> QED BY <2>3, <2>5 DEF x
<1> QED BY <1>1, <1>3, <1>4, <1>5

\* Picked takes the elements at the given indices, each once, in their order.
LEMMA PickedFacts ==
    ASSUME NEW V, NEW seq \in Seq(V), NEW S \in SUBSET (1 .. Len(seq))
    PROVE  /\ Picked(seq, S) \in Seq(V)
           /\ Len(Picked(seq, S)) = Cardinality(S)
           /\ \A k \in 1 .. Len(Picked(seq, S)) :
                 \E i \in S : Picked(seq, S)[k] = seq[i]
           /\ \A j, k \in 1 .. Len(Picked(seq, S)) : j < k =>
                 \E i, l \in S : i < l /\ Picked(seq, S)[j] = seq[i] /\ Picked(seq, S)[k] = seq[l]
           /\ \A i \in S : \E k \in 1 .. Len(Picked(seq, S)) : Picked(seq, S)[k] = seq[i]
<1> DEFINE n == Cardinality(S)
           A == Ascending(S)
           P == Picked(seq, S)
<1>0. Len(seq) \in Nat
    OBVIOUS
<1>1. /\ n \in Nat /\ A \in [1 .. n -> S]
      /\ \A j, k \in 1 .. n : j < k => A[j] < A[k]
      /\ \A i \in S : \E k \in 1 .. n : A[k] = i
    BY <1>0, AscendingFacts
<1>2. P = [k \in 1 .. n |-> seq[A[k]]]
    BY <1>1 DEF Picked
<1> HIDE DEF n, A, P
<1>3. \A i \in S : seq[i] \in V
    OBVIOUS
<1>4. \A k \in 1 .. n : P[k] = seq[A[k]] /\ A[k] \in S
    BY <1>1, <1>2
<1>5. P \in [1 .. n -> V]
    BY <1>2, <1>3, <1>4
<1>6. P \in Seq(V) /\ Len(P) = n
    BY <1>1, <1>5
<1>7. \A k \in 1 .. Len(P) : \E i \in S : P[k] = seq[i]
    BY <1>4, <1>6
<1>8. \A j, k \in 1 .. Len(P) : j < k => \E i, l \in S : i < l /\ P[j] = seq[i] /\ P[k] = seq[l]
    BY <1>1, <1>4, <1>6
<1>9. \A i \in S : \E k \in 1 .. Len(P) : P[k] = seq[i]
    BY <1>1, <1>4, <1>6
<1> QED BY <1>6, <1>7, <1>8, <1>9 DEF P, n

\* An increasing sequence of the elements of a set is the one Ascending returns.
LEMMA AscendingUnique ==
    ASSUME NEW b \in Nat, NEW S \in SUBSET (1 .. b), NEW f \in Seq(S),
           \A j, k \in DOMAIN f : j < k => f[j] < f[k],
           \A i \in S : \E k \in DOMAIN f : f[k] = i
    PROVE  f = Ascending(S)
<1>1. /\ Len(f) \in Nat /\ DOMAIN f = 1 .. Len(f) /\ S \subseteq Int
      /\ \A k \in 1 .. Len(f) : f[k] \in S
    OBVIOUS
<1>2. ASSUME NEW k \in 0 .. Len(f), NEW T \in SUBSET S,
             \A j \in 1 .. k : f[j] \in T,
             \A i \in T : \E j \in 1 .. k : f[j] = i
      PROVE  Cardinality(T) = k
    <2> DEFINE g == [j \in 1 .. k |-> f[j]]
    <2>1. g \in [1 .. k -> T]
        BY <1>2
    <2>2. \A i, j \in 1 .. k : g[i] = g[j] => i = j
        <3>1. \A i, j \in 1 .. k : i # j => i < j \/ j < i
            OBVIOUS
        <3>2. \A i, j \in 1 .. k : i < j => f[i] < f[j] /\ f[i] \in Int /\ f[j] \in Int
            <4>1. \A i \in 1 .. k : i \in 1 .. Len(f)
                BY <1>1
            <4>2. \A i \in 1 .. k : i \in DOMAIN f /\ f[i] \in Int
                BY <1>1, <4>1
            <4> QED BY <4>2
        <3>3. \A i, j \in 1 .. k : i < j => f[i] # f[j]
            BY <3>2
        <3> QED BY <3>1, <3>3
    <2>3. \A i \in T : \E j \in 1 .. k : g[j] = i
        BY <1>2
    <2> HIDE DEF g
    <2>4. g \in Bijection(1 .. k, T)
        BY <2>1, <2>2, <2>3, Fun_IsBij
    <2>5. ExistsBijection(1 .. k, T) /\ k \in Nat
        BY <1>1, <2>4 DEF ExistsBijection
    <2> QED BY <2>5, FS_CountingElements
<1>3. Cardinality(S) = Len(f)
    BY <1>1, <1>2
<1>4. ASSUME NEW k \in 1 .. Len(f)
      PROVE  Place(S, f[k]) = k
    <2>1. f[k] \in S /\ f[k] \in Int
        BY <1>1
    <2>2. \A j \in 1 .. k : f[j] \in UpTo(S, f[k])
        <3>1. \A j \in 1 .. k : j = k \/ j < k
            OBVIOUS
        <3>2. \A j \in 1 .. k : j \in DOMAIN f /\ f[j] \in S
            BY <1>1
        <3>3. \A j \in 1 .. k : f[j] <= f[k]
            <4>1. \A j \in 1 .. k : f[j] \in Int
                BY <1>1, <3>2
            <4>2. \A j \in 1 .. k : j < k => f[j] < f[k]
                BY <1>1, <3>2
            <4> QED BY <2>1, <3>1, <4>1, <4>2
        <3> QED BY <3>2, <3>3 DEF UpTo
    <2>3. \A i \in UpTo(S, f[k]) : \E j \in 1 .. k : f[j] = i
        <3> SUFFICES ASSUME NEW i \in S, i <= f[k]
                     PROVE  \E j \in 1 .. k : f[j] = i
            BY DEF UpTo
        <3>1. PICK j \in 1 .. Len(f) : f[j] = i
            BY <1>1
        <3>2. ~(k < j)
            BY <1>1, <2>1, <3>1
        <3> QED BY <3>1, <3>2
    <2>4. UpTo(S, f[k]) \in SUBSET S /\ k \in 0 .. Len(f)
        BY DEF UpTo
    <2> QED BY <1>2, <2>2, <2>3, <2>4 DEF Place
<1>5. \A k \in 1 .. Len(f) : Ascending(S)[k] \in S /\ Place(S, Ascending(S)[k]) = k
    BY <1>3, PlaceTaken DEF Ascending
<1>6. ASSUME NEW k \in 1 .. Len(f)
      PROVE  f[k] = Ascending(S)[k]
    <2> DEFINE x == Ascending(S)[k]
    <2>1. x \in S /\ Place(S, x) = Place(S, f[k]) /\ f[k] \in S
        BY <1>1, <1>4, <1>5
    <2>2. Place(S, x) \in Nat /\ Place(S, f[k]) \in Nat
        BY IndicesFinite
    <2> HIDE DEF x
    <2>3. ~(x < f[k]) /\ ~(f[k] < x)
        <3>1. x < f[k] => Place(S, x) < Place(S, f[k])
            BY <2>1, PlaceGrows
        <3>2. f[k] < x => Place(S, f[k]) < Place(S, x)
            BY <2>1, PlaceGrows
        <3> QED BY <2>1, <2>2, <3>1, <3>2
    <2>4. x = f[k]
        BY <1>1, <2>1, <2>3
    <2> QED BY <2>4 DEF x
<1>7. Ascending(S) = [k \in 1 .. Len(f) |-> Ascending(S)[k]]
    BY <1>3 DEF Ascending
<1>8. f = [k \in 1 .. Len(f) |-> f[k]]
    BY <1>1
<1> QED BY <1>6, <1>7, <1>8

-----------------------------------------------------------------------------
\* A sequence over a set: its length, its domain and its elements.
LEMMA SeqFacts ==
    ASSUME NEW S, NEW q \in Seq(S)
    PROVE  /\ Len(q) \in Nat /\ DOMAIN q = 1 .. Len(q)
           /\ \A i \in 1 .. Len(q) : q[i] \in S
OBVIOUS

\* It is one over every larger set, and over every set its elements are in.
LEMMA SeqWider ==
    ASSUME NEW S, NEW T, S \subseteq T, NEW q \in Seq(S)
    PROVE  q \in Seq(T)
OBVIOUS

LEMMA SeqNarrower ==
    ASSUME NEW S, NEW T, NEW q \in Seq(T), \A i \in 1 .. Len(q) : q[i] \in S
    PROVE  q \in Seq(S)
OBVIOUS

\* What Append does, by position.
LEMMA Appended ==
    ASSUME NEW S, NEW q \in Seq(S), NEW x \in S
    PROVE  /\ Append(q, x) \in Seq(S)
           /\ Len(Append(q, x)) = Len(q) + 1 /\ DOMAIN Append(q, x) = 1 .. Len(q) + 1
           /\ \A i \in 1 .. Len(q) : Append(q, x)[i] = q[i]
           /\ Append(q, x)[Len(q) + 1] = x
OBVIOUS

\* A sequence that grows by one keeps what it had, and the new element comes
\* last.
LEMMA AppendFacts ==
    ASSUME NEW V, NEW q \in Seq(V), NEW e \in V
    PROVE  /\ Append(q, e) \in Seq(V)
           /\ Len(q) + 1 \in DOMAIN Append(q, e) /\ Append(q, e)[Len(q) + 1] = e
           /\ \A i \in DOMAIN q : i \in DOMAIN Append(q, e) /\ Append(q, e)[i] = q[i]
           /\ \A i \in DOMAIN Append(q, e) :
                 \/ i \in DOMAIN q
                 \/ /\ i = Len(q) + 1 /\ Append(q, e)[i] = e
                    /\ \A j \in DOMAIN q : j < i
<1>1. Len(q) \in Nat /\ DOMAIN q = 1 .. Len(q)
    OBVIOUS
<1>2. /\ Append(q, e) \in Seq(V)
      /\ DOMAIN Append(q, e) = 1 .. Len(q) + 1
      /\ \A i \in 1 .. Len(q) : Append(q, e)[i] = q[i]
      /\ Append(q, e)[Len(q) + 1] = e
    OBVIOUS
<1> QED BY <1>1, <1>2

\* The same for two sequences one after the other.
LEMMA ConcatFacts ==
    ASSUME NEW V, NEW q \in Seq(V), NEW r \in Seq(V)
    PROVE  /\ q \o r \in Seq(V)
           /\ \A i \in DOMAIN q : i \in DOMAIN (q \o r) /\ (q \o r)[i] = q[i]
           /\ \A i \in DOMAIN (q \o r) :
                 \/ i \in DOMAIN q
                 \/ /\ i - Len(q) \in DOMAIN r
                    /\ (q \o r)[i] = r[i - Len(q)]
                    /\ \A j \in DOMAIN q : j < i
<1>1. /\ Len(q) \in Nat /\ DOMAIN q = 1 .. Len(q)
      /\ Len(r) \in Nat /\ DOMAIN r = 1 .. Len(r)
    OBVIOUS
<1>2. /\ q \o r \in Seq(V)
      /\ DOMAIN (q \o r) = 1 .. Len(q) + Len(r)
      /\ \A i \in 1 .. Len(q) + Len(r) : (q \o r)[i] = IF i <= Len(q) THEN q[i] ELSE r[i - Len(q)]
    OBVIOUS
<1> QED BY <1>1, <1>2

\* What is left of a sequence without its head.
LEMMA TailFacts ==
    ASSUME NEW V, NEW q \in Seq(V), q # <<>>
    PROVE  /\ 1 \in DOMAIN q /\ Head(q) = q[1] /\ q[1] \in V
           /\ Tail(q) \in Seq(V) /\ Len(Tail(q)) = Len(q) - 1
           /\ \A i \in DOMAIN Tail(q) : /\ i + 1 \in DOMAIN q /\ i + 1 > 1 /\ i \in Int
                                        /\ Tail(q)[i] = q[i + 1]
<1>1. Len(q) \in Nat /\ DOMAIN q = 1 .. Len(q) /\ Len(q) >= 1
    OBVIOUS
<1>2. /\ Tail(q) \in Seq(V) /\ Len(Tail(q)) = Len(q) - 1
      /\ DOMAIN Tail(q) = 1 .. Len(q) - 1
      /\ \A i \in 1 .. Len(q) - 1 : Tail(q)[i] = q[i + 1]
    BY <1>1
<1> QED BY <1>1, <1>2
=============================================================================
